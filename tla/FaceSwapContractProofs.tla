----------------------- MODULE FaceSwapContractProofs -----------------------
(***************************************************************************)
(* The face-swap service implements JobContract, and deletes photos before *)
(* rows, as long as no retry has another request or a cleanup at work on   *)
(* its job: for any number of jobs, of request threads, of restarts, and   *)
(* for any TTL.                                                            *)
(***************************************************************************)
EXTENDS FaceSwapJobsProofs, FaceSwapContract

\* A retry has the job to itself from its lookup to its enqueue: no other request
\* holds the job, and no cleanup holds it or has it still to come.
RetriesAlone ==
    \A r \in Requests : act[r].pc \in RetrySteps =>
        \A t \in Threads \ {r} : act[t].job # act[r].job /\ act[r].job \notin act[t].todo

\* The columns of a row belong together, and photos do not outlive it.
RowInv(j) ==
    /\ db[j].status = "none" => db[j] = NoRow /\ files[j] \subseteq {"dir"}
    /\ db[j].status # "none" => db[j].attempt >= 1 /\ photo[j] # "unread"
    /\ db[j].status # "completed" => ~db[j].results
    /\ db[j].status \in Live => db[j].error = "none"
    /\ db[j].status = "failed" => db[j].error # "none"
    /\ "dir" \notin files[j] => files[j] = {}

\* The row under a create request is still the one that it wrote.
StageInv(j) ==
    /\ crt[j] \in {"none", "clean", "read"} => photo[j] = "unread" /\ db[j].status = "none"
    /\ crt[j] \in {"save", "reject", "append", "put"} => db[j].status = "queued"

\* A job waits once, and not while it runs, and only a live one does.
OnceQueued == \A i, k \in 1..Len(queue) : queue[i] = queue[k] => i = k
QueuedInv(j) == j \in ToSet(queue) => db[j].status \in Live /\ ~Runs(j)

\* Nobody has touched the row that the worker is at.
WorkInv ==
    /\ wk.pc \in {"load", "start"} => db[wk.job].status \in Live
    /\ wk.pc \in {"read", "open", "run", "fail"} => db[wk.job].status = "processing"
    /\ wk.pc \in {"open", "run", "fail"} => wk.error = "none"

\* What a deletion or a cleanup is at has ended or gone, and stays so.
Removable(j) == db[j].status \in Terminal \cup {"none"} /\ photo[j] # "unread"

RemovalInv(t) ==
    /\ act[t].pc \in {"image", "list", "unlink", "row", "error"} => Removable(act[t].job)
    /\ act[t].pc = "row" => files[act[t].job] \subseteq {"dir"}
    /\ t \in Cleaners => \A j \in act[t].todo : Removable(j)

\* What a retry read still holds when it commits, and the job it revives is neither
\* waiting nor running when it puts it into the queue.
RetryInv(r) ==
    /\ act[r].pc = "commit" =>
         db[act[r].job].status = "failed" /\ db[act[r].job].error \in Retryable
    /\ act[r].pc \in {"append", "put"} =>
         /\ db[act[r].job].status = "processing"
         /\ act[r].job \notin ToSet(queue)
         /\ ~Runs(act[r].job)

CalmInv ==
    /\ OnceQueued
    /\ WorkInv
    /\ \A j \in Jobs : RowInv(j) /\ StageInv(j) /\ QueuedInv(j)
    /\ \A t \in Threads : RemovalInv(t)
    /\ \A r \in Requests : RetryInv(r)

-----------------------------------------------------------------------------

\* The empty service satisfies it.
LEMMA CalmInit == Init => CalmInv
<1> SUFFICES ASSUME Init  PROVE CalmInv
  OBVIOUS
<1> USE ActorsAssumption DEF Init
<1>1. OnceQueued /\ WorkInv
  BY DEF OnceQueued, WorkInv, IdleWorker
<1>2. ASSUME NEW j \in Jobs  PROVE RowInv(j) /\ StageInv(j) /\ QueuedInv(j)
  BY DEF RowInv, StageInv, QueuedInv, NoRow, Live, ToSet
<1>3. \A t \in Threads : RemovalInv(t)
  BY DEF RemovalInv, Idle
<1>4. \A r \in Requests : RetryInv(r)
  BY DEF RetryInv, Idle, Threads
<1> QED
  BY <1>1, <1>2, <1>3, <1>4 DEF CalmInv

\* What a step beside rows, queue and worker cannot disturb.
LEMMA BystanderCalm ==
    ASSUME TypeInv, CalmInv, Bystander
    PROVE  /\ OnceQueued'
           /\ WorkInv'
           /\ \A j \in Jobs : StageInv(j)' /\ QueuedInv(j)'
<1>1. OnceQueued' /\ WorkInv'
  BY DEF CalmInv, OnceQueued, WorkInv, Bystander
<1>2. ASSUME NEW j \in Jobs  PROVE StageInv(j)' /\ QueuedInv(j)'
  BY DEF CalmInv, StageInv, QueuedInv, Runs, Bystander
<1> QED
  BY <1>1, <1>2

\* A thread that stands still keeps what it relies on, when what is removable stays
\* so and gets no photo.
LEMMA RemovalKept ==
    ASSUME TypeInv, CalmInv, NEW u \in Threads, act'[u] = act[u],
           \A j \in Jobs : Removable(j) => Removable(j)' /\ files'[j] \subseteq files[j] \cup {"dir"}
    PROVE  RemovalInv(u)'
<1>1. act[u].pc \notin {"idle", "next"} => act[u].job \in Jobs
  BY DEF TypeInv, ThreadsOK
<1>2. act[u].todo \subseteq Jobs
  BY DEF TypeInv, ThreadsOK, ThreadState
<1> QED
  BY <1>1, <1>2 DEF CalmInv, RemovalInv

\* A step beside rows, files and threads leaves all of them what they rely on.
LEMMA RemovalsRest ==
    ASSUME TypeInv, CalmInv, NEW u \in Threads, UNCHANGED <<db, files, photo, act>>
    PROVE  RemovalInv(u)'
<1> \A j \in Jobs : Removable(j) => Removable(j)' /\ files'[j] \subseteq files[j] \cup {"dir"}
  BY DEF Removable
<1> QED
  BY RemovalKept

\* So does a retry, when its row, the queue and the worker leave its job alone.
LEMMA RetryKept ==
    ASSUME TypeInv, CalmInv, NEW p \in Requests, act'[p] = act[p],
           act[p].pc \in RetrySteps =>
               /\ db'[act[p].job] = db[act[p].job]
               /\ act[p].job \in ToSet(queue') => act[p].job \in ToSet(queue)
               /\ Runs(act[p].job)' => Runs(act[p].job)
    PROVE  RetryInv(p)'
<1> DEFINE q == act[p].job
<1>1. act'[p].job = q
  OBVIOUS
<1>2. Runs(act[p].job)' <=> (wk'.job = q /\ wk'.pc \notin {"idle", "done"})
  BY <1>1 DEF Runs
<1> QED
  BY <1>1, <1>2 DEF CalmInv, RetryInv, RetrySteps, Runs

\* What the query of a cleanup finds has ended.
LEMMA QueryRemovable ==
    ASSUME TypeInv, CalmInv
    PROVE  Query \in ThreadState /\ Query.pc = "next" /\ \A j \in Query.todo : Removable(j)
  BY DEF Query, Idle, ThreadState, IsExpired, CalmInv, RowInv, Removable, Terminal

\* No step disturbs it as long as retries are alone with their job.
LEMMA CalmStep ==
    TypeInv /\ RunInv /\ CalmInv /\ RetriesAlone /\ RetriesAlone' /\ [Next]_vars => CalmInv'
<1> SUFFICES ASSUME TypeInv, RunInv, CalmInv, RetriesAlone, RetriesAlone', [Next]_vars
             PROVE  CalmInv'
  OBVIOUS
<1> USE ActorsAssumption
<1>1. ASSUME Crash  PROVE CalmInv'
  <2>1. OnceQueued'
    BY <1>1 DEF Crash, Idle, IdleWorker, ToSet, CalmInv, OnceQueued
  <2>2. WorkInv'
    BY <1>1 DEF Crash, Idle, IdleWorker, ToSet, RunInv, Untaken, CalmInv, WorkInv, TypeInv, RowsOK, Row, ThreadsOK, ThreadState, Threads, WorkerOK, OthersOK
  <2>3. ASSUME NEW j \in Jobs  PROVE StageInv(j)'
    BY <1>1 DEF Crash, Idle, IdleWorker, ToSet, CalmInv, StageInv, TypeInv, RowsOK, Row, ThreadsOK, ThreadState, Threads, WorkerOK, OthersOK
  <2>4. ASSUME NEW j \in Jobs  PROVE QueuedInv(j)'
    BY <1>1 DEF Crash, Idle, IdleWorker, ToSet, RunInv, Untaken, CalmInv, WorkInv, StageInv, QueuedInv, Runs, TypeInv, RowsOK, Row, ThreadsOK, ThreadState, Threads, WorkerOK, OthersOK
  <2>5. ASSUME NEW j \in Jobs  PROVE RowInv(j)'
    BY <1>1 DEF Crash, Idle, IdleWorker, ToSet, CalmInv, RowInv, StageInv, WorkInv, TypeInv, RowsOK, Row, ThreadsOK, ThreadState, Threads, WorkerOK, OthersOK
  <2>6. ASSUME NEW u \in Threads  PROVE RemovalInv(u)'
    BY <1>1 DEF Crash, Idle, IdleWorker, ToSet, CalmInv, RowInv, StageInv, RemovalInv, Removable, TypeInv, RowsOK, Row, ThreadsOK, ThreadState, Threads, WorkerOK, OthersOK
  <2>7. ASSUME NEW p \in Requests  PROVE RetryInv(p)'
    BY <1>1 DEF Crash, Idle, IdleWorker, ToSet, CalmInv, RetryInv, Runs, RetriesAlone, RetrySteps, TypeInv, RowsOK, Row, ThreadsOK, ThreadState, Threads, WorkerOK, OthersOK
  <2> QED
    BY <2>1, <2>2, <2>3, <2>4, <2>5, <2>6, <2>7 DEF CalmInv
<1>2. ASSUME RecoverDone  PROVE CalmInv'
  <2> /\ act'[Timer] = Query /\ \A u \in Threads : u # Timer => act'[u] = act[u]
      /\ UNCHANGED <<db, files, photo>>
    BY <1>2 DEF RecoverDone, TypeInv, ThreadsOK, Threads, Cleaners
  <2> Query.pc = "next" /\ \A j \in Query.todo : Removable(j)
    BY QueryRemovable
  <2> \A j \in Jobs : Removable(j) => Removable(j)' /\ files'[j] \subseteq files[j] \cup {"dir"}
    BY DEF Removable
  <2>1. Bystander
    BY <1>2 DEF RecoverDone, Query, Idle, IsExpired, ThreadsOK, ThreadState, Threads, Cleaners, Bystander, RetrySteps, TypeInv
  <2>2. /\ OnceQueued' /\ WorkInv'
       /\ \A j \in Jobs : StageInv(j)' /\ QueuedInv(j)'
    BY <2>1, BystanderCalm
  <2>3. ASSUME NEW j \in Jobs  PROVE RowInv(j)'
    BY <1>2 DEF RecoverDone, Query, Idle, IsExpired, CalmInv, RowInv, StageInv, WorkInv, TypeInv, RowsOK, Row, ThreadsOK, ThreadState, Threads, WorkerOK, OthersOK
  <2>4. ASSUME NEW u \in Threads  PROVE RemovalInv(u)'
    <3>1. CASE u # Timer
      BY <3>1, RemovalKept
    <3>2. CASE u = Timer
      BY <3>2, QueryRemovable DEF RemovalInv, Removable
    <3> QED
      BY <3>1, <3>2
  <2>5. ASSUME NEW p \in Requests  PROVE RetryInv(p)'
    BY <1>2 DEF RecoverDone, Query, Idle, IsExpired, CalmInv, RetryInv, Runs, RetriesAlone, RetrySteps, TypeInv, RowsOK, Row, ThreadsOK, ThreadState, Threads, WorkerOK, OthersOK
  <2> QED
    BY <2>1, <2>2, <2>3, <2>4, <2>5 DEF CalmInv
<1>3. ASSUME NEW k \in Jobs, RecoverStaleJob(k)  PROVE CalmInv'
  <2>1. OnceQueued'
    BY <1>3 DEF RecoverStaleJob, RunInv, QuietStart, ToSet, Live, Terminal, CalmInv, OnceQueued
  <2>2. WorkInv'
    BY <1>3 DEF RecoverStaleJob, RunInv, QuietStart, ToSet, Live, Terminal, RunInv, Untaken, CalmInv, WorkInv, TypeInv, RowsOK, Row, ThreadsOK, ThreadState, Threads, WorkerOK, OthersOK
  <2>3. ASSUME NEW j \in Jobs  PROVE StageInv(j)'
    BY <1>3 DEF RecoverStaleJob, RunInv, QuietStart, ToSet, Live, Terminal, CalmInv, StageInv, TypeInv, RowsOK, Row, ThreadsOK, ThreadState, Threads, WorkerOK, OthersOK
  <2>4. ASSUME NEW j \in Jobs  PROVE QueuedInv(j)'
    BY <1>3 DEF RecoverStaleJob, RunInv, QuietStart, ToSet, Live, Terminal, RunInv, Untaken, CalmInv, WorkInv, StageInv, QueuedInv, Runs, TypeInv, RowsOK, Row, ThreadsOK, ThreadState, Threads, WorkerOK, OthersOK
  <2>5. ASSUME NEW j \in Jobs  PROVE RowInv(j)'
    BY <1>3 DEF RecoverStaleJob, RunInv, QuietStart, ToSet, Live, Terminal, CalmInv, RowInv, StageInv, WorkInv, TypeInv, RowsOK, Row, ThreadsOK, ThreadState, Threads, WorkerOK, OthersOK
  <2>6. ASSUME NEW u \in Threads  PROVE RemovalInv(u)'
    <3>1. act' = act /\ files' = files /\ photo' = photo
      BY <1>3 DEF RecoverStaleJob
    <3>2. \A i \in Jobs : db'[i].status = db[i].status \/ db'[i].status = "failed"
      BY <1>3 DEF RecoverStaleJob, TypeInv, RowsOK, Row
    <3>3. \A i \in Jobs : Removable(i) => Removable(i)'
      BY <3>1, <3>2 DEF Removable, Terminal
    <3> QED
      BY <3>1, <3>3, RemovalKept
  <2>7. ASSUME NEW p \in Requests  PROVE RetryInv(p)'
    BY <1>3 DEF RecoverStaleJob, RunInv, QuietStart, ToSet, Live, Terminal, CalmInv, RetryInv, Runs, RetriesAlone, RetrySteps, TypeInv, RowsOK, Row, ThreadsOK, ThreadState, Threads, WorkerOK, OthersOK
  <2> QED
    BY <2>1, <2>2, <2>3, <2>4, <2>5, <2>6, <2>7 DEF CalmInv
<1>4. ASSUME StartPeriodicCleanup  PROVE CalmInv'
  <2> /\ act'[Timer] = Query /\ \A u \in Threads : u # Timer => act'[u] = act[u]
      /\ UNCHANGED <<db, files, photo>>
    BY <1>4 DEF StartPeriodicCleanup, TypeInv, ThreadsOK, Threads, Cleaners
  <2> Query.pc = "next" /\ \A j \in Query.todo : Removable(j)
    BY QueryRemovable
  <2> \A j \in Jobs : Removable(j) => Removable(j)' /\ files'[j] \subseteq files[j] \cup {"dir"}
    BY DEF Removable
  <2>1. Bystander
    BY <1>4 DEF StartPeriodicCleanup, Query, Idle, IsExpired, ThreadsOK, ThreadState, Threads, Cleaners, Bystander, RetrySteps, TypeInv
  <2>2. /\ OnceQueued' /\ WorkInv'
       /\ \A j \in Jobs : StageInv(j)' /\ QueuedInv(j)'
    BY <2>1, BystanderCalm
  <2>3. ASSUME NEW j \in Jobs  PROVE RowInv(j)'
    BY <1>4 DEF StartPeriodicCleanup, Query, Idle, IsExpired, CalmInv, RowInv, StageInv, WorkInv, TypeInv, RowsOK, Row, ThreadsOK, ThreadState, Threads, WorkerOK, OthersOK
  <2>4. ASSUME NEW u \in Threads  PROVE RemovalInv(u)'
    <3>1. CASE u # Timer
      BY <3>1, RemovalKept
    <3>2. CASE u = Timer
      BY <3>2, QueryRemovable DEF RemovalInv, Removable
    <3> QED
      BY <3>1, <3>2
  <2>5. ASSUME NEW p \in Requests  PROVE RetryInv(p)'
    BY <1>4 DEF StartPeriodicCleanup, Query, Idle, IsExpired, CalmInv, RetryInv, Runs, RetriesAlone, RetrySteps, TypeInv, RowsOK, Row, ThreadsOK, ThreadState, Threads, WorkerOK, OthersOK
  <2> QED
    BY <2>1, <2>2, <2>3, <2>4, <2>5 DEF CalmInv
<1>5. ASSUME NEW c \in Cleaners, CleanNext(c)  PROVE CalmInv'
  <2> /\ UNCHANGED <<db, files, photo>> /\ c \in Threads
      /\ act'[c].pc = "list" /\ act'[c].job \in act[c].todo
      /\ act'[c].todo = act[c].todo \ {act'[c].job}
      /\ act[c].todo \subseteq Jobs
      /\ \A u \in Threads : u # c => act'[u] = act[u]
    BY <1>5 DEF CleanNext, TypeInv, ThreadsOK, ThreadState, Threads
  <2> \A j \in act[c].todo : Removable(j)
    BY DEF CalmInv, RemovalInv
  <2> \A j \in Jobs : Removable(j) => Removable(j)' /\ files'[j] \subseteq files[j] \cup {"dir"}
    BY DEF Removable
  <2>1. Bystander
    BY <1>5 DEF CleanNext, ThreadsOK, ThreadState, Threads, Cleaners, Bystander, RetrySteps, TypeInv
  <2>2. /\ OnceQueued' /\ WorkInv'
       /\ \A j \in Jobs : StageInv(j)' /\ QueuedInv(j)'
    BY <2>1, BystanderCalm
  <2>3. ASSUME NEW j \in Jobs  PROVE RowInv(j)'
    BY <1>5 DEF CleanNext, CalmInv, RowInv, StageInv, WorkInv, TypeInv, RowsOK, Row, ThreadsOK, ThreadState, Threads, WorkerOK, OthersOK
  <2>4. ASSUME NEW u \in Threads  PROVE RemovalInv(u)'
    <3>1. CASE u # c
      BY <3>1, RemovalKept
    <3>2. CASE u = c
      BY <3>2 DEF RemovalInv, Removable
    <3> QED
      BY <3>1, <3>2
  <2>5. ASSUME NEW p \in Requests  PROVE RetryInv(p)'
    BY <1>5 DEF CleanNext, CalmInv, RetryInv, Runs, RetriesAlone, RetrySteps, TypeInv, RowsOK, Row, ThreadsOK, ThreadState, Threads, WorkerOK, OthersOK
  <2> QED
    BY <2>1, <2>2, <2>3, <2>4, <2>5 DEF CalmInv
<1>6. ASSUME NEW c \in Cleaners, CleanNextGone(c)  PROVE CalmInv'
  <2>1. Bystander
    BY <1>6 DEF CleanNextGone, EndCleanup, Idle, OthersOK, Creating, ThreadsOK, ThreadState, Threads, Cleaners, Bystander, RetrySteps, TypeInv
  <2>2. /\ OnceQueued' /\ WorkInv'
       /\ \A j \in Jobs : StageInv(j)' /\ QueuedInv(j)'
    BY <2>1, BystanderCalm
  <2>3. ASSUME NEW j \in Jobs  PROVE RowInv(j)'
    BY <1>6 DEF CleanNextGone, EndCleanup, Idle, OthersOK, Creating, CalmInv, RowInv, StageInv, WorkInv, TypeInv, RowsOK, Row, ThreadsOK, ThreadState, Threads, WorkerOK, OthersOK
  <2>4. ASSUME NEW u \in Threads  PROVE RemovalInv(u)'
    BY <1>6 DEF CleanNextGone, EndCleanup, Idle, OthersOK, Creating, CalmInv, RowInv, StageInv, RemovalInv, Removable, TypeInv, RowsOK, Row, ThreadsOK, ThreadState, Threads, WorkerOK, OthersOK
  <2>5. ASSUME NEW p \in Requests  PROVE RetryInv(p)'
    BY <1>6 DEF CleanNextGone, EndCleanup, Idle, OthersOK, Creating, CalmInv, RetryInv, Runs, RetriesAlone, RetrySteps, TypeInv, RowsOK, Row, ThreadsOK, ThreadState, Threads, WorkerOK, OthersOK
  <2> QED
    BY <2>1, <2>2, <2>3, <2>4, <2>5 DEF CalmInv
<1>7. ASSUME NEW c \in Cleaners, CleanDone(c)  PROVE CalmInv'
  <2> /\ UNCHANGED <<db, files, photo>> /\ c \in Threads
      /\ act'[c] = Idle /\ \A u \in Threads : u # c => act'[u] = act[u]
    BY <1>7 DEF CleanDone, EndCleanup, TypeInv, ThreadsOK, Threads
  <2> \A j \in Jobs : Removable(j) => Removable(j)' /\ files'[j] \subseteq files[j] \cup {"dir"}
    BY DEF Removable
  <2>1. Bystander
    BY <1>7 DEF CleanDone, EndCleanup, Idle, OthersOK, Creating, ThreadsOK, ThreadState, Threads, Cleaners, Bystander, RetrySteps, TypeInv
  <2>2. /\ OnceQueued' /\ WorkInv'
       /\ \A j \in Jobs : StageInv(j)' /\ QueuedInv(j)'
    BY <2>1, BystanderCalm
  <2>3. ASSUME NEW j \in Jobs  PROVE RowInv(j)'
    BY <1>7 DEF CleanDone, EndCleanup, Idle, OthersOK, Creating, CalmInv, RowInv, StageInv, WorkInv, TypeInv, RowsOK, Row, ThreadsOK, ThreadState, Threads, WorkerOK, OthersOK
  <2>4. ASSUME NEW u \in Threads  PROVE RemovalInv(u)'
    <3>1. CASE u # c
      BY <3>1, RemovalKept
    <3>2. CASE u = c
      BY <3>2 DEF RemovalInv, Idle
    <3> QED
      BY <3>1, <3>2
  <2>5. ASSUME NEW p \in Requests  PROVE RetryInv(p)'
    BY <1>7 DEF CleanDone, EndCleanup, Idle, OthersOK, Creating, CalmInv, RetryInv, Runs, RetriesAlone, RetrySteps, TypeInv, RowsOK, Row, ThreadsOK, ThreadState, Threads, WorkerOK, OthersOK
  <2> QED
    BY <2>1, <2>2, <2>3, <2>4, <2>5 DEF CalmInv
<1>8. ASSUME NEW c \in Cleaners, FilesFailedGone(c)  PROVE CalmInv'
  <2> /\ UNCHANGED <<db, files, photo>> /\ c \in Threads
      /\ act'[c] = Idle /\ \A u \in Threads : u # c => act'[u] = act[u]
    BY <1>8 DEF FilesFailedGone, EndCleanup, TypeInv, ThreadsOK, Threads
  <2> \A j \in Jobs : Removable(j) => Removable(j)' /\ files'[j] \subseteq files[j] \cup {"dir"}
    BY DEF Removable
  <2>1. Bystander
    BY <1>8 DEF FilesFailedGone, EndCleanup, Idle, OthersOK, Creating, ThreadsOK, ThreadState, Threads, Cleaners, Bystander, RetrySteps, TypeInv
  <2>2. /\ OnceQueued' /\ WorkInv'
       /\ \A j \in Jobs : StageInv(j)' /\ QueuedInv(j)'
    BY <2>1, BystanderCalm
  <2>3. ASSUME NEW j \in Jobs  PROVE RowInv(j)'
    BY <1>8 DEF FilesFailedGone, EndCleanup, Idle, OthersOK, Creating, CalmInv, RowInv, StageInv, WorkInv, TypeInv, RowsOK, Row, ThreadsOK, ThreadState, Threads, WorkerOK, OthersOK
  <2>4. ASSUME NEW u \in Threads  PROVE RemovalInv(u)'
    <3>1. CASE u # c
      BY <3>1, RemovalKept
    <3>2. CASE u = c
      BY <3>2 DEF RemovalInv, Idle
    <3> QED
      BY <3>1, <3>2
  <2>5. ASSUME NEW p \in Requests  PROVE RetryInv(p)'
    BY <1>8 DEF FilesFailedGone, EndCleanup, Idle, OthersOK, Creating, CalmInv, RetryInv, Runs, RetriesAlone, RetrySteps, TypeInv, RowsOK, Row, ThreadsOK, ThreadState, Threads, WorkerOK, OthersOK
  <2> QED
    BY <2>1, <2>2, <2>3, <2>4, <2>5 DEF CalmInv
<1>9. ASSUME NEW t \in Threads, ListFiles(t)  PROVE CalmInv'
  <2> /\ UNCHANGED <<db, files, photo, queue, wk>>
      /\ act[t].job \in Jobs /\ \A u \in Threads : u # t => act'[u] = act[u]
      /\ act'[t].pc \in {"unlink", "row"} /\ act'[t].job = act[t].job /\ act'[t].todo = act[t].todo
      /\ act'[t].pc = "row" => "dir" \notin files[act[t].job]
    BY <1>9 DEF ListFiles, TypeInv, ThreadsOK, ThreadState, Threads, Cleaners
  <2> \A j \in Jobs : Removable(j) => Removable(j)' /\ files'[j] \subseteq files[j] \cup {"dir"}
    BY <1>9 DEF ListFiles, Removable, TypeInv, OthersOK
  <2> Removable(act[t].job) /\ (act'[t].pc = "row" => files[act[t].job] = {})
    BY <1>9 DEF ListFiles, CalmInv, RemovalInv, RowInv
  <2>1. Bystander
    BY <1>9, DeletionIsBystander
  <2>2. /\ OnceQueued' /\ WorkInv'
       /\ \A j \in Jobs : StageInv(j)' /\ QueuedInv(j)'
    BY <2>1, BystanderCalm
  <2>3. ASSUME NEW j \in Jobs  PROVE RowInv(j)'
    BY <1>9 DEF ListFiles, CalmInv, RowInv, StageInv, WorkInv, TypeInv, RowsOK, Row, ThreadsOK, ThreadState, Threads, WorkerOK, OthersOK
  <2>4. ASSUME NEW u \in Threads  PROVE RemovalInv(u)'
    <3>1. CASE u # t
      BY <3>1, RemovalKept
    <3>2. CASE u = t
      <4>1. RemovalInv(t)
        BY DEF CalmInv
      <4> QED
        BY <3>2, <4>1 DEF RemovalInv, Removable
    <3> QED
      BY <3>1, <3>2
  <2>5. ASSUME NEW p \in Requests  PROVE RetryInv(p)'
    <3>1. CASE p # t
      BY <3>1, RetryKept DEF Runs, Threads
    <3>2. CASE p = t
      BY <3>2 DEF RetryInv
    <3> QED
      BY <3>1, <3>2
  <2> QED
    BY <2>1, <2>2, <2>3, <2>4, <2>5 DEF CalmInv
<1>10. ASSUME NEW t \in Threads, Unlink(t)  PROVE CalmInv'
  <2> /\ UNCHANGED <<db, photo, queue, wk>>
      /\ act[t].job \in Jobs /\ \A u \in Threads : u # t => act'[u] = act[u]
      /\ act'[t].pc \in {"unlink", "error"} /\ act'[t].job = act[t].job /\ act'[t].todo = act[t].todo
      /\ act[t].left \subseteq {"source"} \cup Ratios
    BY <1>10 DEF Unlink, TypeInv, ThreadsOK, ThreadState, Threads, Cleaners
  <2> \A j \in Jobs : Removable(j) => Removable(j)' /\ files'[j] \subseteq files[j] \cup {"dir"}
    BY <1>10 DEF Unlink, Removable, TypeInv, OthersOK
  <2>1. Bystander
    BY <1>10, DeletionIsBystander
  <2>2. /\ OnceQueued' /\ WorkInv'
       /\ \A j \in Jobs : StageInv(j)' /\ QueuedInv(j)'
    BY <2>1, BystanderCalm
  <2>3. ASSUME NEW j \in Jobs  PROVE RowInv(j)'
    <3>1. RowInv(j)
      BY DEF CalmInv
    <3>2. files'[j] \subseteq files[j] /\ ("dir" \in files[j] => "dir" \in files'[j])
      BY <1>10 DEF Unlink, TypeInv, OthersOK
    <3> QED
      BY <3>1, <3>2 DEF RowInv
  <2>4. ASSUME NEW u \in Threads  PROVE RemovalInv(u)'
    <3>1. CASE u # t
      BY <3>1, RemovalKept
    <3>2. CASE u = t
      <4>1. RemovalInv(t)
        BY DEF CalmInv
      <4> QED
        BY <1>10, <3>2, <4>1 DEF Unlink, RemovalInv, Removable
    <3> QED
      BY <3>1, <3>2
  <2>5. ASSUME NEW p \in Requests  PROVE RetryInv(p)'
    <3>1. CASE p # t
      BY <3>1, RetryKept DEF Runs, Threads
    <3>2. CASE p = t
      BY <3>2 DEF RetryInv
    <3> QED
      BY <3>1, <3>2
  <2> QED
    BY <2>1, <2>2, <2>3, <2>4, <2>5 DEF CalmInv
<1>11. ASSUME NEW t \in Threads, Rmdir(t)  PROVE CalmInv'
  <2> /\ UNCHANGED <<db, photo, queue, wk>>
      /\ act[t].job \in Jobs /\ \A u \in Threads : u # t => act'[u] = act[u]
      /\ act'[t].pc \in {"row", "error"} /\ act'[t].job = act[t].job /\ act'[t].todo = act[t].todo
      /\ act'[t].pc = "row" => files' = [files EXCEPT ![act[t].job] = {}]
    BY <1>11 DEF Rmdir, TypeInv, ThreadsOK, ThreadState, Threads, Cleaners
  <2> \A j \in Jobs : Removable(j) => Removable(j)' /\ files'[j] \subseteq files[j] \cup {"dir"}
    BY <1>11 DEF Rmdir, Removable, TypeInv, OthersOK
  <2>1. Bystander
    BY <1>11, DeletionIsBystander
  <2>2. /\ OnceQueued' /\ WorkInv'
       /\ \A j \in Jobs : StageInv(j)' /\ QueuedInv(j)'
    BY <2>1, BystanderCalm
  <2>3. ASSUME NEW j \in Jobs  PROVE RowInv(j)'
    <3>1. RowInv(j)
      BY DEF CalmInv
    <3>2. files'[j] = files[j] \/ files'[j] = {}
      BY <1>11 DEF Rmdir, TypeInv, OthersOK
    <3> QED
      BY <3>1, <3>2 DEF RowInv
  <2>4. ASSUME NEW u \in Threads  PROVE RemovalInv(u)'
    <3>1. CASE u # t
      BY <3>1, RemovalKept
    <3>2. CASE u = t
      <4>1. RemovalInv(t)
        BY DEF CalmInv
      <4> QED
        BY <1>11, <3>2, <4>1 DEF Rmdir, TypeInv, OthersOK, RemovalInv, Removable
    <3> QED
      BY <3>1, <3>2
  <2>5. ASSUME NEW p \in Requests  PROVE RetryInv(p)'
    <3>1. CASE p # t
      BY <3>1, RetryKept DEF Runs, Threads
    <3>2. CASE p = t
      BY <3>2 DEF RetryInv
    <3> QED
      BY <3>1, <3>2
  <2> QED
    BY <2>1, <2>2, <2>3, <2>4, <2>5 DEF CalmInv
<1>12. ASSUME NEW t \in Threads, FilesFailed(t)  PROVE CalmInv'
  <2> /\ UNCHANGED <<db, files, photo, queue, wk>>
      /\ \A u \in Threads : u # t => act'[u] = act[u]
      /\ act'[t].pc \in {"next", "idle"} /\ (t \in Cleaners => act'[t].todo = act[t].todo)
    BY <1>12 DEF FilesFailed, AfterJob, Idle, TypeInv, ThreadsOK, ThreadState, Threads, Cleaners
  <2> \A j \in Jobs : Removable(j) => Removable(j)' /\ files'[j] \subseteq files[j] \cup {"dir"}
    BY <1>12 DEF FilesFailed, Removable, TypeInv, OthersOK
  <2>1. Bystander
    BY <1>12, DeletionIsBystander
  <2>2. /\ OnceQueued' /\ WorkInv'
       /\ \A j \in Jobs : StageInv(j)' /\ QueuedInv(j)'
    BY <2>1, BystanderCalm
  <2>3. ASSUME NEW j \in Jobs  PROVE RowInv(j)'
    BY <1>12 DEF FilesFailed, AfterJob, Idle, Cleaners, CalmInv, RowInv, StageInv, WorkInv, TypeInv, RowsOK, Row, ThreadsOK, ThreadState, Threads, WorkerOK, OthersOK
  <2>4. ASSUME NEW u \in Threads  PROVE RemovalInv(u)'
    <3>1. CASE u # t
      BY <3>1, RemovalKept
    <3>2. CASE u = t
      <4>1. RemovalInv(t)
        BY DEF CalmInv
      <4> QED
        BY <1>12, <3>2, <4>1 DEF FilesFailed, RemovalInv, Removable
    <3> QED
      BY <3>1, <3>2
  <2>5. ASSUME NEW p \in Requests  PROVE RetryInv(p)'
    <3>1. CASE p # t
      BY <3>1, RetryKept DEF Runs, Threads
    <3>2. CASE p = t
      BY <3>2 DEF RetryInv
    <3> QED
      BY <3>1, <3>2
  <2> QED
    BY <2>1, <2>2, <2>3, <2>4, <2>5 DEF CalmInv
<1>13. ASSUME NEW t \in Threads, DeleteRow(t)  PROVE CalmInv'
  <2> DEFINE q == act[t].job
  <2> /\ q \in Jobs /\ db' = [db EXCEPT ![q] = NoRow]
      /\ UNCHANGED <<photo, files, crt, queue, wk>>
    BY <1>13 DEF DeleteRow, TypeInv, ThreadsOK
  <2> Removable(q) /\ files[q] \subseteq {"dir"}
    BY <1>13 DEF DeleteRow, CalmInv, RemovalInv
  <2> /\ db'[q] = NoRow /\ NoRow.status = "none"
      /\ \A j \in Jobs : j # q => db'[j] = db[j]
    BY DEF TypeInv, RowsOK, NoRow
  <2> db[q].status \notin Live /\ db[q].status \notin {"queued", "processing"}
    BY DEF Removable, Terminal, Live
  <2> /\ act'[t].pc \in {"next", "idle"} /\ (t \in Cleaners => act'[t].todo = act[t].todo)
      /\ \A u \in Threads : u # t => act'[u] = act[u]
    BY <1>13 DEF DeleteRow, AfterJob, Idle, TypeInv, ThreadsOK, ThreadState, Threads, Cleaners
  <2> \A p \in Requests \ {t} : act[p].pc \in RetrySteps => act[p].job \in Jobs \ {q}
    BY DEF RetriesAlone, RetrySteps, TypeInv, ThreadsOK, Threads
  <2> HIDE DEF q
  <2> \A j \in Jobs : Removable(j) => Removable(j)' /\ files'[j] \subseteq files[j] \cup {"dir"}
    BY DEF Removable
  <2>1. OnceQueued'
    BY <1>13 DEF DeleteRow, AfterJob, Idle, NoRow, Live, Retryable, Cleaners, CalmInv, OnceQueued
  <2>2. WorkInv'
    BY DEF CalmInv, WorkInv, Live
  <2>3. ASSUME NEW j \in Jobs  PROVE StageInv(j)'
    BY DEF CalmInv, StageInv
  <2>4. ASSUME NEW j \in Jobs  PROVE QueuedInv(j)'
    BY DEF CalmInv, QueuedInv, Runs
  <2>5. ASSUME NEW j \in Jobs  PROVE RowInv(j)'
    BY DEF CalmInv, RowInv, NoRow, Live
  <2>6. ASSUME NEW u \in Threads  PROVE RemovalInv(u)'
    <3>1. CASE u # t
      BY <3>1, RemovalKept
    <3>2. CASE u = t
      <4>1. RemovalInv(t) /\ act[t].todo \subseteq Jobs
        BY DEF CalmInv, TypeInv, ThreadsOK, ThreadState
      <4> QED
        BY <3>2, <4>1 DEF RemovalInv
    <3> QED
      BY <3>1, <3>2
  <2>7. ASSUME NEW p \in Requests  PROVE RetryInv(p)'
    <3>1. CASE p # t
      BY <3>1, RetryKept DEF Runs, Threads
    <3>2. CASE p = t
      BY <3>2 DEF RetryInv
    <3> QED
      BY <3>1, <3>2
  <2> QED
    BY <2>1, <2>2, <2>3, <2>4, <2>5, <2>6, <2>7 DEF CalmInv
<1>14. ASSUME NEW k \in Jobs, CreateRequest(k)  PROVE CalmInv'
  <2> /\ act'[Loop] = Query /\ \A u \in Threads : u # Loop => act'[u] = act[u]
      /\ UNCHANGED <<db, files, photo>>
    BY <1>14 DEF CreateRequest, TypeInv, ThreadsOK, Threads, Cleaners
  <2> Query.pc = "next" /\ \A j \in Query.todo : Removable(j)
    BY QueryRemovable
  <2> \A j \in Jobs : Removable(j) => Removable(j)' /\ files'[j] \subseteq files[j] \cup {"dir"}
    BY DEF Removable
  <2>1. OnceQueued'
    BY <1>14 DEF CreateRequest, Query, Idle, Cleaners, IsExpired, CalmInv, OnceQueued
  <2>2. WorkInv'
    BY <1>14 DEF CreateRequest, Query, Idle, Cleaners, IsExpired, RunInv, Untaken, CalmInv, WorkInv, TypeInv, RowsOK, Row, ThreadsOK, ThreadState, Threads, WorkerOK, OthersOK
  <2>3. ASSUME NEW j \in Jobs  PROVE StageInv(j)'
    BY <1>14 DEF CreateRequest, Query, Idle, Cleaners, IsExpired, CalmInv, StageInv, TypeInv, RowsOK, Row, ThreadsOK, ThreadState, Threads, WorkerOK, OthersOK
  <2>4. ASSUME NEW j \in Jobs  PROVE QueuedInv(j)'
    BY <1>14 DEF CreateRequest, Query, Idle, Cleaners, IsExpired, RunInv, Untaken, CalmInv, WorkInv, StageInv, QueuedInv, Runs, TypeInv, RowsOK, Row, ThreadsOK, ThreadState, Threads, WorkerOK, OthersOK
  <2>5. ASSUME NEW j \in Jobs  PROVE RowInv(j)'
    BY <1>14 DEF CreateRequest, Query, Idle, Cleaners, IsExpired, CalmInv, RowInv, StageInv, WorkInv, TypeInv, RowsOK, Row, ThreadsOK, ThreadState, Threads, WorkerOK, OthersOK
  <2>6. ASSUME NEW u \in Threads  PROVE RemovalInv(u)'
    <3>1. CASE u # Loop
      BY <3>1, RemovalKept
    <3>2. CASE u = Loop
      BY <3>2, QueryRemovable DEF RemovalInv, Removable
    <3> QED
      BY <3>1, <3>2
  <2>7. ASSUME NEW p \in Requests  PROVE RetryInv(p)'
    BY <1>14 DEF CreateRequest, Query, Idle, Cleaners, IsExpired, CalmInv, RetryInv, Runs, RetriesAlone, RetrySteps, TypeInv, RowsOK, Row, ThreadsOK, ThreadState, Threads, WorkerOK, OthersOK
  <2> QED
    BY <2>1, <2>2, <2>3, <2>4, <2>5, <2>6, <2>7 DEF CalmInv
<1>15. ASSUME NEW k \in Jobs, CreateInvalid(k)  PROVE CalmInv'
  <2>1. Bystander
    BY <1>15 DEF CreateInvalid, OthersOK, ThreadsOK, ThreadState, Threads, Cleaners, Bystander, RetrySteps, TypeInv
  <2>2. /\ OnceQueued' /\ WorkInv'
       /\ \A j \in Jobs : StageInv(j)' /\ QueuedInv(j)'
    BY <2>1, BystanderCalm
  <2>3. ASSUME NEW j \in Jobs  PROVE RowInv(j)'
    BY <1>15 DEF CreateInvalid, OthersOK, CalmInv, RowInv, StageInv, WorkInv, TypeInv, RowsOK, Row, ThreadsOK, ThreadState, Threads, WorkerOK, OthersOK
  <2>4. ASSUME NEW u \in Threads  PROVE RemovalInv(u)'
    BY <1>15 DEF CreateInvalid, OthersOK, CalmInv, RowInv, StageInv, RemovalInv, Removable, TypeInv, RowsOK, Row, ThreadsOK, ThreadState, Threads, WorkerOK, OthersOK
  <2>5. ASSUME NEW p \in Requests  PROVE RetryInv(p)'
    BY <1>15 DEF CreateInvalid, OthersOK, CalmInv, RetryInv, Runs, RetriesAlone, RetrySteps, TypeInv, RowsOK, Row, ThreadsOK, ThreadState, Threads, WorkerOK, OthersOK
  <2> QED
    BY <2>1, <2>2, <2>3, <2>4, <2>5 DEF CalmInv
<1>16. ASSUME NEW k \in Jobs, CreateRow(k)  PROVE CalmInv'
  <2>1. OnceQueued'
    BY <1>16 DEF CreateRow, NoRow, Live, Photos, CalmInv, OnceQueued
  <2>2. WorkInv'
    BY <1>16 DEF CreateRow, NoRow, Live, Photos, RunInv, Untaken, CalmInv, WorkInv, TypeInv, RowsOK, Row, ThreadsOK, ThreadState, Threads, WorkerOK, OthersOK
  <2>3. ASSUME NEW j \in Jobs  PROVE StageInv(j)'
    BY <1>16 DEF CreateRow, NoRow, Live, Photos, CalmInv, StageInv, TypeInv, RowsOK, Row, ThreadsOK, ThreadState, Threads, WorkerOK, OthersOK
  <2>4. ASSUME NEW j \in Jobs  PROVE QueuedInv(j)'
    BY <1>16 DEF CreateRow, NoRow, Live, Photos, RunInv, Untaken, CalmInv, WorkInv, StageInv, QueuedInv, Runs, TypeInv, RowsOK, Row, ThreadsOK, ThreadState, Threads, WorkerOK, OthersOK
  <2>5. ASSUME NEW j \in Jobs  PROVE RowInv(j)'
    BY <1>16 DEF CreateRow, NoRow, Live, Photos, CalmInv, RowInv, StageInv, WorkInv, TypeInv, RowsOK, Row, ThreadsOK, ThreadState, Threads, WorkerOK, OthersOK
  <2>6. ASSUME NEW u \in Threads  PROVE RemovalInv(u)'
    BY <1>16 DEF CreateRow, NoRow, Live, Photos, CalmInv, RowInv, StageInv, RemovalInv, Removable, TypeInv, RowsOK, Row, ThreadsOK, ThreadState, Threads, WorkerOK, OthersOK
  <2>7. ASSUME NEW p \in Requests  PROVE RetryInv(p)'
    <3>1. act[p].job # k /\ act'[p] = act[p]
      BY <1>16 DEF CreateRow, RunInv, Untaken
    <3>2. act[p].pc \in RetrySteps => db'[act[p].job] = db[act[p].job]
      BY <1>16, <3>1 DEF CreateRow, TypeInv, ThreadsOK, Threads, RetrySteps, RowsOK
    <3> QED
      BY <1>16, <3>1, <3>2, RetryKept DEF CreateRow, Runs
  <2> QED
    BY <2>1, <2>2, <2>3, <2>4, <2>5, <2>6, <2>7 DEF CalmInv
<1>17. ASSUME NEW k \in Jobs, CreateSaveSource(k)  PROVE CalmInv'
  <2>1. OnceQueued'
    BY <1>17 DEF CreateSaveSource, Terminal, Live, CalmInv, OnceQueued
  <2>2. WorkInv'
    BY <1>17 DEF CreateSaveSource, Terminal, Live, RunInv, Untaken, CalmInv, WorkInv, TypeInv, RowsOK, Row, ThreadsOK, ThreadState, Threads, WorkerOK, OthersOK
  <2>3. ASSUME NEW j \in Jobs  PROVE StageInv(j)'
    BY <1>17 DEF CreateSaveSource, Terminal, Live, CalmInv, StageInv, TypeInv, RowsOK, Row, ThreadsOK, ThreadState, Threads, WorkerOK, OthersOK
  <2>4. ASSUME NEW j \in Jobs  PROVE QueuedInv(j)'
    BY <1>17 DEF CreateSaveSource, Terminal, Live, RunInv, Untaken, CalmInv, WorkInv, StageInv, QueuedInv, Runs, TypeInv, RowsOK, Row, ThreadsOK, ThreadState, Threads, WorkerOK, OthersOK
  <2>5. ASSUME NEW j \in Jobs  PROVE RowInv(j)'
    BY <1>17 DEF CreateSaveSource, Terminal, Live, CalmInv, RowInv, StageInv, WorkInv, TypeInv, RowsOK, Row, ThreadsOK, ThreadState, Threads, WorkerOK, OthersOK
  <2>6. ASSUME NEW u \in Threads  PROVE RemovalInv(u)'
    BY <1>17 DEF CreateSaveSource, Terminal, Live, CalmInv, RowInv, StageInv, RemovalInv, Removable, TypeInv, RowsOK, Row, ThreadsOK, ThreadState, Threads, WorkerOK, OthersOK
  <2>7. ASSUME NEW p \in Requests  PROVE RetryInv(p)'
    BY <1>17 DEF CreateSaveSource, Terminal, Live, CalmInv, RetryInv, Runs, RetriesAlone, RetrySteps, TypeInv, RowsOK, Row, ThreadsOK, ThreadState, Threads, WorkerOK, OthersOK
  <2> QED
    BY <2>1, <2>2, <2>3, <2>4, <2>5, <2>6, <2>7 DEF CalmInv
<1>18. ASSUME NEW k \in Jobs, CreateMarkFailed(k)  PROVE CalmInv'
  <2>1. OnceQueued'
    BY <1>18 DEF CreateMarkFailed, Live, Terminal, CalmInv, OnceQueued
  <2>2. WorkInv'
    BY <1>18 DEF CreateMarkFailed, Live, Terminal, RunInv, Untaken, CalmInv, WorkInv, TypeInv, RowsOK, Row, ThreadsOK, ThreadState, Threads, WorkerOK, OthersOK
  <2>3. ASSUME NEW j \in Jobs  PROVE StageInv(j)'
    BY <1>18 DEF CreateMarkFailed, Live, Terminal, CalmInv, StageInv, TypeInv, RowsOK, Row, ThreadsOK, ThreadState, Threads, WorkerOK, OthersOK
  <2>4. ASSUME NEW j \in Jobs  PROVE QueuedInv(j)'
    BY <1>18 DEF CreateMarkFailed, Live, Terminal, RunInv, Untaken, CalmInv, WorkInv, StageInv, QueuedInv, Runs, TypeInv, RowsOK, Row, ThreadsOK, ThreadState, Threads, WorkerOK, OthersOK
  <2>5. ASSUME NEW j \in Jobs  PROVE RowInv(j)'
    BY <1>18 DEF CreateMarkFailed, Live, Terminal, CalmInv, RowInv, StageInv, WorkInv, TypeInv, RowsOK, Row, ThreadsOK, ThreadState, Threads, WorkerOK, OthersOK
  <2>6. ASSUME NEW u \in Threads  PROVE RemovalInv(u)'
    <3>1. ~Removable(k)
      BY <1>18 DEF CreateMarkFailed, CalmInv, StageInv, Removable, Terminal
    <3>2. \A j \in Jobs : Removable(j) => Removable(j)' /\ files'[j] \subseteq files[j] \cup {"dir"}
      BY <1>18, <3>1 DEF CreateMarkFailed, Removable, TypeInv, RowsOK
    <3> QED
      BY <1>18, <3>2, RemovalKept DEF CreateMarkFailed
  <2>7. ASSUME NEW p \in Requests  PROVE RetryInv(p)'
    <3>1. act[p].job # k /\ act'[p] = act[p]
      BY <1>18 DEF CreateMarkFailed, RunInv, Untaken
    <3>2. act[p].pc \in RetrySteps => db'[act[p].job] = db[act[p].job]
      BY <1>18, <3>1 DEF CreateMarkFailed, TypeInv, ThreadsOK, Threads, RetrySteps, RowsOK
    <3> QED
      BY <1>18, <3>1, <3>2, RetryKept DEF CreateMarkFailed, Runs
  <2> QED
    BY <2>1, <2>2, <2>3, <2>4, <2>5, <2>6, <2>7 DEF CalmInv
<1>19. ASSUME NEW k \in Jobs, CreateAppend(k)  PROVE CalmInv'
  <2>1. OnceQueued'
    BY <1>19 DEF CreateAppend, CalmInv, OnceQueued
  <2>2. WorkInv'
    BY <1>19 DEF CreateAppend, RunInv, Untaken, CalmInv, WorkInv, TypeInv, RowsOK, Row, ThreadsOK, ThreadState, Threads, WorkerOK, OthersOK
  <2>3. ASSUME NEW j \in Jobs  PROVE StageInv(j)'
    BY <1>19 DEF CreateAppend, CalmInv, StageInv, TypeInv, RowsOK, Row, ThreadsOK, ThreadState, Threads, WorkerOK, OthersOK
  <2>4. ASSUME NEW j \in Jobs  PROVE QueuedInv(j)'
    BY <1>19 DEF CreateAppend, RunInv, Untaken, CalmInv, WorkInv, StageInv, QueuedInv, Runs, TypeInv, RowsOK, Row, ThreadsOK, ThreadState, Threads, WorkerOK, OthersOK
  <2>5. ASSUME NEW j \in Jobs  PROVE RowInv(j)'
    BY <1>19 DEF CreateAppend, CalmInv, RowInv, StageInv, WorkInv, TypeInv, RowsOK, Row, ThreadsOK, ThreadState, Threads, WorkerOK, OthersOK
  <2>6. ASSUME NEW u \in Threads  PROVE RemovalInv(u)'
    BY <1>19 DEF CreateAppend, CalmInv, RowInv, StageInv, RemovalInv, Removable, TypeInv, RowsOK, Row, ThreadsOK, ThreadState, Threads, WorkerOK, OthersOK
  <2>7. ASSUME NEW p \in Requests  PROVE RetryInv(p)'
    BY <1>19 DEF CreateAppend, CalmInv, RetryInv, Runs, RetriesAlone, RetrySteps, TypeInv, RowsOK, Row, ThreadsOK, ThreadState, Threads, WorkerOK, OthersOK
  <2> QED
    BY <2>1, <2>2, <2>3, <2>4, <2>5, <2>6, <2>7 DEF CalmInv
<1>20. ASSUME NEW k \in Jobs, CreatePut(k)  PROVE CalmInv'
  <2>1. OnceQueued'
    <3>1. queue \in Seq(Jobs) /\ queue' = Append(queue, k) /\ k \notin ToSet(queue)
      BY <1>20 DEF CreatePut, TypeInv, OthersOK, RunInv, Untaken
    <3>2. Len(queue') = Len(queue) + 1 /\ Len(queue) \in Nat
      BY <3>1, AppendProperties
    <3>3. \A i \in 1..Len(queue) : queue'[i] = queue[i] /\ queue[i] # k
      BY <3>1, AppendProperties DEF ToSet
    <3>4. queue'[Len(queue) + 1] = k
      BY <3>1, AppendProperties
    <3> QED
      BY <3>2, <3>3, <3>4 DEF CalmInv, OnceQueued
  <2>2. WorkInv'
    BY <1>20, AppendToSet DEF CreatePut, Live, RunInv, Untaken, CalmInv, WorkInv, TypeInv, RowsOK, Row, ThreadsOK, ThreadState, Threads, WorkerOK, OthersOK
  <2>3. ASSUME NEW j \in Jobs  PROVE StageInv(j)'
    BY <1>20, AppendToSet DEF CreatePut, Live, CalmInv, StageInv, TypeInv, RowsOK, Row, ThreadsOK, ThreadState, Threads, WorkerOK, OthersOK
  <2>4. ASSUME NEW j \in Jobs  PROVE QueuedInv(j)'
    BY <1>20, AppendToSet DEF CreatePut, Live, RunInv, Untaken, CalmInv, WorkInv, StageInv, QueuedInv, Runs, TypeInv, RowsOK, Row, ThreadsOK, ThreadState, Threads, WorkerOK, OthersOK
  <2>5. ASSUME NEW j \in Jobs  PROVE RowInv(j)'
    BY <1>20, AppendToSet DEF CreatePut, Live, CalmInv, RowInv, StageInv, WorkInv, TypeInv, RowsOK, Row, ThreadsOK, ThreadState, Threads, WorkerOK, OthersOK
  <2>6. ASSUME NEW u \in Threads  PROVE RemovalInv(u)'
    BY <1>20, AppendToSet DEF CreatePut, Live, CalmInv, RowInv, StageInv, RemovalInv, Removable, TypeInv, RowsOK, Row, ThreadsOK, ThreadState, Threads, WorkerOK, OthersOK
  <2>7. ASSUME NEW p \in Requests  PROVE RetryInv(p)'
    <3>1. act[p].job # k /\ act'[p] = act[p]
      BY <1>20 DEF CreatePut, RunInv, Untaken
    <3>2. ToSet(queue') = ToSet(queue) \cup {k}
      BY <1>20, AppendToSet DEF CreatePut, TypeInv, OthersOK
    <3> QED
      BY <1>20, <3>1, <3>2, RetryKept DEF CreatePut, Runs
  <2> QED
    BY <2>1, <2>2, <2>3, <2>4, <2>5, <2>6, <2>7 DEF CalmInv
<1>21. ASSUME NEW k \in Jobs, Expire(k)  PROVE CalmInv'
  <2>1. Bystander
    BY <1>21 DEF Expire, ThreadsOK, ThreadState, Threads, Cleaners, Bystander, RetrySteps, TypeInv
  <2>2. /\ OnceQueued' /\ WorkInv'
       /\ \A j \in Jobs : StageInv(j)' /\ QueuedInv(j)'
    BY <2>1, BystanderCalm
  <2>3. ASSUME NEW j \in Jobs  PROVE RowInv(j)'
    BY <1>21 DEF Expire, CalmInv, RowInv, StageInv, WorkInv, TypeInv, RowsOK, Row, ThreadsOK, ThreadState, Threads, WorkerOK, OthersOK
  <2>4. ASSUME NEW u \in Threads  PROVE RemovalInv(u)'
    BY <1>21, RemovalsRest DEF Expire
  <2>5. ASSUME NEW p \in Requests  PROVE RetryInv(p)'
    BY <1>21 DEF Expire, CalmInv, RetryInv, Runs, RetriesAlone, RetrySteps, TypeInv, RowsOK, Row, ThreadsOK, ThreadState, Threads, WorkerOK, OthersOK
  <2> QED
    BY <2>1, <2>2, <2>3, <2>4, <2>5 DEF CalmInv
<1>22. ASSUME NEW r \in Requests, NEW k \in Jobs, LookupExpired(r, k)  PROVE CalmInv'
  <2> /\ UNCHANGED <<db, files, photo>>
      /\ \A u \in Threads : u # r => act'[u] = act[u]
      /\ act'[r].pc = "list" /\ act'[r].job = k /\ r \notin Cleaners
    BY <1>22 DEF LookupExpired, TypeInv, ThreadsOK, ThreadState, Threads, Cleaners
  <2> Removable(k)
    BY <1>22 DEF LookupExpired, Found, IsExpired, Terminal, CalmInv, RowInv, Removable
  <2> \A j \in Jobs : Removable(j) => Removable(j)' /\ files'[j] \subseteq files[j] \cup {"dir"}
    BY DEF Removable
  <2>1. OnceQueued'
    BY <1>22 DEF LookupExpired, Found, Known, Live, Retryable, Terminal, IsExpired, CalmInv, OnceQueued
  <2>2. WorkInv'
    BY <1>22 DEF LookupExpired, Found, Known, Live, Retryable, Terminal, IsExpired, RunInv, Untaken, CalmInv, WorkInv, TypeInv, RowsOK, Row, ThreadsOK, ThreadState, Threads, WorkerOK, OthersOK
  <2>3. ASSUME NEW j \in Jobs  PROVE StageInv(j)'
    BY <1>22 DEF LookupExpired, Found, Known, Live, Retryable, Terminal, IsExpired, CalmInv, StageInv, TypeInv, RowsOK, Row, ThreadsOK, ThreadState, Threads, WorkerOK, OthersOK
  <2>4. ASSUME NEW j \in Jobs  PROVE QueuedInv(j)'
    BY <1>22 DEF LookupExpired, Found, Known, Live, Retryable, Terminal, IsExpired, RunInv, Untaken, CalmInv, WorkInv, StageInv, QueuedInv, Runs, TypeInv, RowsOK, Row, ThreadsOK, ThreadState, Threads, WorkerOK, OthersOK
  <2>5. ASSUME NEW j \in Jobs  PROVE RowInv(j)'
    BY <1>22 DEF LookupExpired, Found, Known, Live, Retryable, Terminal, IsExpired, CalmInv, RowInv, StageInv, WorkInv, TypeInv, RowsOK, Row, ThreadsOK, ThreadState, Threads, WorkerOK, OthersOK
  <2>6. ASSUME NEW u \in Threads  PROVE RemovalInv(u)'
    <3>1. CASE u # r
      BY <3>1, RemovalKept
    <3>2. CASE u = r
      BY <3>2 DEF RemovalInv, Removable
    <3> QED
      BY <3>1, <3>2
  <2>7. ASSUME NEW p \in Requests  PROVE RetryInv(p)'
    BY <1>22 DEF LookupExpired, Found, Known, Live, Retryable, Terminal, IsExpired, CalmInv, RetryInv, Runs, RetriesAlone, RetrySteps, TypeInv, RowsOK, Row, ThreadsOK, ThreadState, Threads, WorkerOK, OthersOK
  <2> QED
    BY <2>1, <2>2, <2>3, <2>4, <2>5, <2>6, <2>7 DEF CalmInv
<1>23. ASSUME NEW r \in Requests, NEW k \in Jobs, DeleteRead(r, k)  PROVE CalmInv'
  <2> /\ UNCHANGED <<db, files, photo>>
      /\ \A u \in Threads : u # r => act'[u] = act[u]
      /\ act'[r].pc = "list" /\ act'[r].job = k /\ r \notin Cleaners
    BY <1>23 DEF DeleteRead, TypeInv, ThreadsOK, ThreadState, Threads, Cleaners
  <2> Removable(k)
    BY <1>23 DEF DeleteRead, Found, IsExpired, Terminal, CalmInv, RowInv, Removable
  <2> \A j \in Jobs : Removable(j) => Removable(j)' /\ files'[j] \subseteq files[j] \cup {"dir"}
    BY DEF Removable
  <2>1. OnceQueued'
    BY <1>23 DEF DeleteRead, Found, Known, Live, Retryable, Terminal, IsExpired, CalmInv, OnceQueued
  <2>2. WorkInv'
    BY <1>23 DEF DeleteRead, Found, Known, Live, Retryable, Terminal, IsExpired, RunInv, Untaken, CalmInv, WorkInv, TypeInv, RowsOK, Row, ThreadsOK, ThreadState, Threads, WorkerOK, OthersOK
  <2>3. ASSUME NEW j \in Jobs  PROVE StageInv(j)'
    BY <1>23 DEF DeleteRead, Found, Known, Live, Retryable, Terminal, IsExpired, CalmInv, StageInv, TypeInv, RowsOK, Row, ThreadsOK, ThreadState, Threads, WorkerOK, OthersOK
  <2>4. ASSUME NEW j \in Jobs  PROVE QueuedInv(j)'
    BY <1>23 DEF DeleteRead, Found, Known, Live, Retryable, Terminal, IsExpired, RunInv, Untaken, CalmInv, WorkInv, StageInv, QueuedInv, Runs, TypeInv, RowsOK, Row, ThreadsOK, ThreadState, Threads, WorkerOK, OthersOK
  <2>5. ASSUME NEW j \in Jobs  PROVE RowInv(j)'
    BY <1>23 DEF DeleteRead, Found, Known, Live, Retryable, Terminal, IsExpired, CalmInv, RowInv, StageInv, WorkInv, TypeInv, RowsOK, Row, ThreadsOK, ThreadState, Threads, WorkerOK, OthersOK
  <2>6. ASSUME NEW u \in Threads  PROVE RemovalInv(u)'
    <3>1. CASE u # r
      BY <3>1, RemovalKept
    <3>2. CASE u = r
      BY <3>2 DEF RemovalInv, Removable
    <3> QED
      BY <3>1, <3>2
  <2>7. ASSUME NEW p \in Requests  PROVE RetryInv(p)'
    BY <1>23 DEF DeleteRead, Found, Known, Live, Retryable, Terminal, IsExpired, CalmInv, RetryInv, Runs, RetriesAlone, RetrySteps, TypeInv, RowsOK, Row, ThreadsOK, ThreadState, Threads, WorkerOK, OthersOK
  <2> QED
    BY <2>1, <2>2, <2>3, <2>4, <2>5, <2>6, <2>7 DEF CalmInv
<1>24. ASSUME NEW r \in Requests, NEW k \in Jobs, ImageRead(r, k)  PROVE CalmInv'
  <2> /\ UNCHANGED <<db, files, photo>>
      /\ \A u \in Threads : u # r => act'[u] = act[u]
      /\ act'[r].pc = "image" /\ act'[r].job = k /\ r \notin Cleaners
    BY <1>24 DEF ImageRead, TypeInv, ThreadsOK, ThreadState, Threads, Cleaners
  <2> Removable(k)
    BY <1>24 DEF ImageRead, Found, IsExpired, Terminal, CalmInv, RowInv, Removable
  <2> \A j \in Jobs : Removable(j) => Removable(j)' /\ files'[j] \subseteq files[j] \cup {"dir"}
    BY DEF Removable
  <2>1. OnceQueued'
    BY <1>24 DEF ImageRead, Found, Known, Live, Retryable, Terminal, IsExpired, CalmInv, OnceQueued
  <2>2. WorkInv'
    BY <1>24 DEF ImageRead, Found, Known, Live, Retryable, Terminal, IsExpired, RunInv, Untaken, CalmInv, WorkInv, TypeInv, RowsOK, Row, ThreadsOK, ThreadState, Threads, WorkerOK, OthersOK
  <2>3. ASSUME NEW j \in Jobs  PROVE StageInv(j)'
    BY <1>24 DEF ImageRead, Found, Known, Live, Retryable, Terminal, IsExpired, CalmInv, StageInv, TypeInv, RowsOK, Row, ThreadsOK, ThreadState, Threads, WorkerOK, OthersOK
  <2>4. ASSUME NEW j \in Jobs  PROVE QueuedInv(j)'
    BY <1>24 DEF ImageRead, Found, Known, Live, Retryable, Terminal, IsExpired, RunInv, Untaken, CalmInv, WorkInv, StageInv, QueuedInv, Runs, TypeInv, RowsOK, Row, ThreadsOK, ThreadState, Threads, WorkerOK, OthersOK
  <2>5. ASSUME NEW j \in Jobs  PROVE RowInv(j)'
    BY <1>24 DEF ImageRead, Found, Known, Live, Retryable, Terminal, IsExpired, CalmInv, RowInv, StageInv, WorkInv, TypeInv, RowsOK, Row, ThreadsOK, ThreadState, Threads, WorkerOK, OthersOK
  <2>6. ASSUME NEW u \in Threads  PROVE RemovalInv(u)'
    <3>1. CASE u # r
      BY <3>1, RemovalKept
    <3>2. CASE u = r
      BY <3>2 DEF RemovalInv, Removable
    <3> QED
      BY <3>1, <3>2
  <2>7. ASSUME NEW p \in Requests  PROVE RetryInv(p)'
    BY <1>24 DEF ImageRead, Found, Known, Live, Retryable, Terminal, IsExpired, CalmInv, RetryInv, Runs, RetriesAlone, RetrySteps, TypeInv, RowsOK, Row, ThreadsOK, ThreadState, Threads, WorkerOK, OthersOK
  <2> QED
    BY <2>1, <2>2, <2>3, <2>4, <2>5, <2>6, <2>7 DEF CalmInv
<1>25. ASSUME NEW r \in Requests, NEW k \in Jobs, RetryRead(r, k)  PROVE CalmInv'
  <2> /\ UNCHANGED <<db, files, photo>>
      /\ \A u \in Threads : u # r => act'[u] = act[u]
      /\ act'[r].pc = "commit" /\ act'[r].job = k /\ r \notin Cleaners
    BY <1>25 DEF RetryRead, TypeInv, ThreadsOK, ThreadState, Threads, Cleaners
  <2> Removable(k)
    BY <1>25 DEF RetryRead, Found, IsExpired, Terminal, CalmInv, RowInv, Removable
  <2> \A j \in Jobs : Removable(j) => Removable(j)' /\ files'[j] \subseteq files[j] \cup {"dir"}
    BY DEF Removable
  <2>1. OnceQueued'
    BY <1>25 DEF RetryRead, Found, Known, Live, Retryable, Terminal, IsExpired, CalmInv, OnceQueued
  <2>2. WorkInv'
    BY <1>25 DEF RetryRead, Found, Known, Live, Retryable, Terminal, IsExpired, RunInv, Untaken, CalmInv, WorkInv, TypeInv, RowsOK, Row, ThreadsOK, ThreadState, Threads, WorkerOK, OthersOK
  <2>3. ASSUME NEW j \in Jobs  PROVE StageInv(j)'
    BY <1>25 DEF RetryRead, Found, Known, Live, Retryable, Terminal, IsExpired, CalmInv, StageInv, TypeInv, RowsOK, Row, ThreadsOK, ThreadState, Threads, WorkerOK, OthersOK
  <2>4. ASSUME NEW j \in Jobs  PROVE QueuedInv(j)'
    BY <1>25 DEF RetryRead, Found, Known, Live, Retryable, Terminal, IsExpired, RunInv, Untaken, CalmInv, WorkInv, StageInv, QueuedInv, Runs, TypeInv, RowsOK, Row, ThreadsOK, ThreadState, Threads, WorkerOK, OthersOK
  <2>5. ASSUME NEW j \in Jobs  PROVE RowInv(j)'
    BY <1>25 DEF RetryRead, Found, Known, Live, Retryable, Terminal, IsExpired, CalmInv, RowInv, StageInv, WorkInv, TypeInv, RowsOK, Row, ThreadsOK, ThreadState, Threads, WorkerOK, OthersOK
  <2>6. ASSUME NEW u \in Threads  PROVE RemovalInv(u)'
    <3>1. CASE u # r
      BY <3>1, RemovalKept
    <3>2. CASE u = r
      BY <3>2 DEF RemovalInv, Removable
    <3> QED
      BY <3>1, <3>2
  <2>7. ASSUME NEW p \in Requests  PROVE RetryInv(p)'
    BY <1>25 DEF RetryRead, Found, Known, Live, Retryable, Terminal, IsExpired, CalmInv, RetryInv, Runs, RetriesAlone, RetrySteps, TypeInv, RowsOK, Row, ThreadsOK, ThreadState, Threads, WorkerOK, OthersOK
  <2> QED
    BY <2>1, <2>2, <2>3, <2>4, <2>5, <2>6, <2>7 DEF CalmInv
<1>26. ASSUME NEW r \in Requests, ImagePath(r)  PROVE CalmInv'
  <2>1. Bystander
    BY <1>26 DEF ImagePath, Idle, ThreadsOK, ThreadState, Threads, Cleaners, Bystander, RetrySteps, TypeInv
  <2>2. /\ OnceQueued' /\ WorkInv'
       /\ \A j \in Jobs : StageInv(j)' /\ QueuedInv(j)'
    BY <2>1, BystanderCalm
  <2>3. ASSUME NEW j \in Jobs  PROVE RowInv(j)'
    BY <1>26 DEF ImagePath, Idle, CalmInv, RowInv, StageInv, WorkInv, TypeInv, RowsOK, Row, ThreadsOK, ThreadState, Threads, WorkerOK, OthersOK
  <2>4. ASSUME NEW u \in Threads  PROVE RemovalInv(u)'
    BY <1>26 DEF ImagePath, Idle, CalmInv, RowInv, StageInv, RemovalInv, Removable, TypeInv, RowsOK, Row, ThreadsOK, ThreadState, Threads, WorkerOK, OthersOK
  <2>5. ASSUME NEW p \in Requests  PROVE RetryInv(p)'
    BY <1>26 DEF ImagePath, Idle, CalmInv, RetryInv, Runs, RetriesAlone, RetrySteps, TypeInv, RowsOK, Row, ThreadsOK, ThreadState, Threads, WorkerOK, OthersOK
  <2> QED
    BY <2>1, <2>2, <2>3, <2>4, <2>5 DEF CalmInv
<1>27. ASSUME NEW r \in Requests, RetryCommit(r)  PROVE CalmInv'
  <2> DEFINE q == act[r].job
  <2> /\ q \in Jobs /\ act[r].pc = "commit" /\ r \in Threads /\ r \notin Cleaners
      /\ UNCHANGED <<photo, files, crt, queue, wk>>
      /\ \A u \in Threads : u # r => act'[u] = act[u]
      /\ act[r].attempt \in Nat
    BY <1>27 DEF RetryCommit, TypeInv, ThreadsOK, ThreadState, Threads, Cleaners
  <2> db[q].status = "failed" /\ db[q].error \in Retryable /\ crt[q] = "done"
    BY DEF CalmInv, RetryInv, RunInv, Untaken
  <2> Exists(q)
    BY DEF Exists
  <2> act'[r].pc = "append" /\ act'[r].job = q
    BY <1>27 DEF RetryCommit, TypeInv, ThreadsOK, ThreadState, Threads
  <2> /\ db[q] \in Row
      /\ db' = [db EXCEPT ![q] = [db[q] EXCEPT !.status = "processing", !.error = "none",
                                              !.attempt = act[r].attempt + 1]]
    BY <1>27 DEF RetryCommit, TypeInv, RowsOK
  <2> /\ \A j \in Jobs : j # q => db'[j] = db[j]
      /\ db'[q].status = "processing" /\ db'[q].error = "none"
      /\ db'[q].results = db[q].results /\ db'[q].attempt >= 1
    BY DEF TypeInv, RowsOK, Row
  <2> /\ q \notin ToSet(queue) /\ ~Runs(q)
    BY DEF CalmInv, QueuedInv, Runs, WorkInv, TypeInv, WorkerOK, Live
  <2> \A t \in Threads \ {r} : act[t].job # q /\ q \notin act[t].todo
    BY DEF RetriesAlone, RetrySteps
  <2> HIDE DEF q
  <2>1. OnceQueued'
    BY <1>27 DEF RetryCommit, Exists, Idle, Live, CalmInv, OnceQueued
  <2>2. WorkInv'
    BY DEF CalmInv, WorkInv, Runs, Live
  <2>3. ASSUME NEW j \in Jobs  PROVE StageInv(j)'
    BY DEF CalmInv, StageInv
  <2>4. ASSUME NEW j \in Jobs  PROVE QueuedInv(j)'
    BY DEF CalmInv, QueuedInv, Runs
  <2>5. ASSUME NEW j \in Jobs  PROVE RowInv(j)'
    BY DEF CalmInv, RowInv, Live
  <2>6. ASSUME NEW u \in Threads  PROVE RemovalInv(u)'
    <3>1. CASE u = r
      BY <3>1 DEF RemovalInv
    <3>2. CASE u # r
      <4>1. RemovalInv(u) /\ act'[u] = act[u] /\ act[u].job # q /\ q \notin act[u].todo
        BY <3>2 DEF CalmInv
      <4>2. /\ act[u].pc \notin {"idle", "next"} => act[u].job \in Jobs
            /\ act[u].todo \subseteq Jobs
        BY DEF TypeInv, ThreadsOK, ThreadState
      <4> QED
        BY <4>1, <4>2 DEF RemovalInv, Removable
    <3> QED
      BY <3>1, <3>2
  <2>7. ASSUME NEW p \in Requests  PROVE RetryInv(p)'
    <3>1. CASE p = r
      BY <3>1 DEF RetryInv, Runs
    <3>2. CASE p # r
      <4>1. act[p].pc \in RetrySteps => db'[act[p].job] = db[act[p].job]
        BY <3>2 DEF TypeInv, ThreadsOK, Threads, RetrySteps
      <4> QED
        BY <3>2, <4>1, RetryKept DEF Runs, Threads
    <3> QED
      BY <3>1, <3>2
  <2> QED
    BY <2>1, <2>2, <2>3, <2>4, <2>5, <2>6, <2>7 DEF CalmInv
<1>28. ASSUME NEW r \in Requests, RetryAppend(r)  PROVE CalmInv'
  <2> /\ UNCHANGED <<db, files, photo>> /\ r \in Threads /\ r \notin Cleaners
      /\ act'[r].pc = "put" /\ \A u \in Threads : u # r => act'[u] = act[u]
    BY <1>28 DEF RetryAppend, TypeInv, ThreadsOK, ThreadState, Threads, Cleaners
  <2> \A j \in Jobs : Removable(j) => Removable(j)' /\ files'[j] \subseteq files[j] \cup {"dir"}
    BY DEF Removable
  <2>1. Bystander
    BY <1>28 DEF RetryAppend, ThreadsOK, ThreadState, Threads, Cleaners, Bystander, RetrySteps, TypeInv
  <2>2. /\ OnceQueued' /\ WorkInv'
       /\ \A j \in Jobs : StageInv(j)' /\ QueuedInv(j)'
    BY <2>1, BystanderCalm
  <2>3. ASSUME NEW j \in Jobs  PROVE RowInv(j)'
    BY <1>28 DEF RetryAppend, CalmInv, RowInv, StageInv, WorkInv, TypeInv, RowsOK, Row, ThreadsOK, ThreadState, Threads, WorkerOK, OthersOK
  <2>4. ASSUME NEW u \in Threads  PROVE RemovalInv(u)'
    <3>1. CASE u # r
      BY <3>1, RemovalKept
    <3>2. CASE u = r
      BY <3>2 DEF RemovalInv
    <3> QED
      BY <3>1, <3>2
  <2>5. ASSUME NEW p \in Requests  PROVE RetryInv(p)'
    BY <1>28 DEF RetryAppend, CalmInv, RetryInv, Runs, RetriesAlone, RetrySteps, TypeInv, RowsOK, Row, ThreadsOK, ThreadState, Threads, WorkerOK, OthersOK
  <2> QED
    BY <2>1, <2>2, <2>3, <2>4, <2>5 DEF CalmInv
<1>29. ASSUME NEW r \in Requests, RetryPut(r)  PROVE CalmInv'
  <2> DEFINE q == act[r].job
  <2> /\ UNCHANGED <<db, files, photo, crt, wk>> /\ r \in Threads /\ r \notin Cleaners
      /\ q \in Jobs /\ act[r].pc = "put" /\ act'[r] = Idle
      /\ \A u \in Threads : u # r => act'[u] = act[u]
    BY <1>29 DEF RetryPut, TypeInv, ThreadsOK, ThreadState, Threads, Cleaners
  <2> ToSet(queue') = ToSet(queue) \cup {q}
    BY <1>29, AppendToSet DEF RetryPut, TypeInv, OthersOK
  <2> db[q].status = "processing" /\ q \notin ToSet(queue) /\ ~Runs(q)
    BY DEF CalmInv, RetryInv
  <2> \A t \in Threads \ {r} : act[t].job # q
    BY DEF RetriesAlone, RetrySteps
  <2> queue' = Append(queue, q)
    BY <1>29 DEF RetryPut
  <2> HIDE DEF q
  <2> \A j \in Jobs : Removable(j) => Removable(j)' /\ files'[j] \subseteq files[j] \cup {"dir"}
    BY DEF Removable
  <2>1. OnceQueued'
    <3>1. queue \in Seq(Jobs) /\ queue' = Append(queue, q) /\ q \notin ToSet(queue)
      BY DEF TypeInv, OthersOK
    <3>2. Len(queue') = Len(queue) + 1 /\ Len(queue) \in Nat
      BY <3>1, AppendProperties
    <3>3. \A i \in 1..Len(queue) : queue'[i] = queue[i] /\ queue[i] # q
      BY <3>1, AppendProperties DEF ToSet
    <3>4. queue'[Len(queue) + 1] = q
      BY <3>1, AppendProperties
    <3> QED
      BY <3>2, <3>3, <3>4 DEF CalmInv, OnceQueued
  <2>2. WorkInv'
    BY <1>29, AppendToSet DEF RetryPut, Idle, RunInv, Untaken, CalmInv, WorkInv, TypeInv, RowsOK, Row, ThreadsOK, ThreadState, Threads, WorkerOK, OthersOK
  <2>3. ASSUME NEW j \in Jobs  PROVE StageInv(j)'
    BY <1>29, AppendToSet DEF RetryPut, Idle, CalmInv, StageInv, TypeInv, RowsOK, Row, ThreadsOK, ThreadState, Threads, WorkerOK, OthersOK
  <2>4. ASSUME NEW j \in Jobs  PROVE QueuedInv(j)'
    BY DEF CalmInv, QueuedInv, Runs, Live
  <2>5. ASSUME NEW j \in Jobs  PROVE RowInv(j)'
    BY <1>29, AppendToSet DEF RetryPut, Idle, CalmInv, RowInv, StageInv, WorkInv, TypeInv, RowsOK, Row, ThreadsOK, ThreadState, Threads, WorkerOK, OthersOK
  <2>6. ASSUME NEW u \in Threads  PROVE RemovalInv(u)'
    <3>1. CASE u # r
      BY <3>1, RemovalKept
    <3>2. CASE u = r
      BY <3>2 DEF RemovalInv, Idle
    <3> QED
      BY <3>1, <3>2
  <2>7. ASSUME NEW p \in Requests  PROVE RetryInv(p)'
    <3>1. CASE p = r
      BY <3>1 DEF RetryInv, Idle
    <3>2. CASE p # r
      BY <3>2, RetryKept DEF Runs, Threads
    <3> QED
      BY <3>1, <3>2
  <2> QED
    BY <2>1, <2>2, <2>3, <2>4, <2>5, <2>6, <2>7 DEF CalmInv
<1>30. ASSUME WorkerGet  PROVE CalmInv'
  <2> /\ queue \in Seq(Jobs) /\ queue # <<>> /\ queue' = Tail(queue) /\ wk.pc = "idle"
      /\ wk'.pc = "load" /\ wk'.job = Head(queue) /\ wk'.error = "none"
      /\ UNCHANGED <<db, crt, photo, act, files>>
    BY <1>30 DEF WorkerGet, IdleWorker, TypeInv, OthersOK
  <2> /\ Head(queue) \in Jobs /\ Head(queue) = queue[1] /\ Len(queue) \in Nat /\ Len(queue) # 0
      /\ Len(Tail(queue)) = Len(queue) - 1
      /\ \A i \in 1..Len(Tail(queue)) : Tail(queue)[i] = queue[i + 1]
    BY HeadTailProperties
  <2> ToSet(queue) = ToSet(queue') \cup {Head(queue)}
    BY TailToSet
  <2> Tail(queue) \in Seq(Jobs)
    OBVIOUS
  <2> Head(queue) \notin ToSet(queue')
    BY DEF CalmInv, OnceQueued, ToSet
  <2>1. OnceQueued'
    BY <1>30, TailToSet DEF WorkerGet, IdleWorker, CalmInv, OnceQueued
  <2>2. WorkInv'
    BY DEF CalmInv, QueuedInv, WorkInv
  <2>3. ASSUME NEW j \in Jobs  PROVE StageInv(j)'
    BY <1>30, TailToSet DEF WorkerGet, IdleWorker, CalmInv, StageInv, TypeInv, RowsOK, Row, ThreadsOK, ThreadState, Threads, WorkerOK, OthersOK
  <2>4. ASSUME NEW j \in Jobs  PROVE QueuedInv(j)'
    BY DEF CalmInv, QueuedInv, Runs
  <2>5. ASSUME NEW j \in Jobs  PROVE RowInv(j)'
    BY <1>30, TailToSet DEF WorkerGet, IdleWorker, CalmInv, RowInv, StageInv, WorkInv, TypeInv, RowsOK, Row, ThreadsOK, ThreadState, Threads, WorkerOK, OthersOK
  <2>6. ASSUME NEW u \in Threads  PROVE RemovalInv(u)'
    <3>1. \A j \in Jobs : Removable(j) => Removable(j)' /\ files'[j] \subseteq files[j] \cup {"dir"}
      BY DEF Removable
    <3> QED
      BY <3>1, RemovalKept
  <2>7. ASSUME NEW p \in Requests  PROVE RetryInv(p)'
    BY <1>30, TailToSet DEF WorkerGet, IdleWorker, CalmInv, RetryInv, Runs, RetriesAlone, RetrySteps, TypeInv, RowsOK, Row, ThreadsOK, ThreadState, Threads, WorkerOK, OthersOK
  <2> QED
    BY <2>1, <2>2, <2>3, <2>4, <2>5, <2>6, <2>7 DEF CalmInv
<1>31. ASSUME WorkerLoad  PROVE CalmInv'
  <2>1. OnceQueued'
    BY <1>31 DEF WorkerLoad, Exists, Changed, Live, Terminal, Retryable, CalmInv, OnceQueued
  <2>2. WorkInv'
    BY <1>31 DEF WorkerLoad, Exists, Changed, Live, Terminal, Retryable, RunInv, Untaken, CalmInv, WorkInv, TypeInv, RowsOK, Row, ThreadsOK, ThreadState, Threads, WorkerOK, OthersOK
  <2>3. ASSUME NEW j \in Jobs  PROVE StageInv(j)'
    BY <1>31 DEF WorkerLoad, Exists, Changed, Live, Terminal, Retryable, CalmInv, StageInv, TypeInv, RowsOK, Row, ThreadsOK, ThreadState, Threads, WorkerOK, OthersOK
  <2>4. ASSUME NEW j \in Jobs  PROVE QueuedInv(j)'
    BY <1>31 DEF WorkerLoad, Exists, Changed, Live, Terminal, Retryable, RunInv, Untaken, CalmInv, WorkInv, StageInv, QueuedInv, Runs, TypeInv, RowsOK, Row, ThreadsOK, ThreadState, Threads, WorkerOK, OthersOK
  <2>5. ASSUME NEW j \in Jobs  PROVE RowInv(j)'
    BY <1>31 DEF WorkerLoad, Exists, Changed, Live, Terminal, Retryable, CalmInv, RowInv, StageInv, WorkInv, TypeInv, RowsOK, Row, ThreadsOK, ThreadState, Threads, WorkerOK, OthersOK
  <2>6. ASSUME NEW u \in Threads  PROVE RemovalInv(u)'
    BY <1>31, RemovalsRest DEF WorkerLoad
  <2>7. ASSUME NEW p \in Requests  PROVE RetryInv(p)'
    BY <1>31 DEF WorkerLoad, Exists, Changed, Live, Terminal, Retryable, CalmInv, RetryInv, Runs, RetriesAlone, RetrySteps, TypeInv, RowsOK, Row, ThreadsOK, ThreadState, Threads, WorkerOK, OthersOK
  <2> QED
    BY <2>1, <2>2, <2>3, <2>4, <2>5, <2>6, <2>7 DEF CalmInv
<1>32. ASSUME WorkerStart  PROVE CalmInv'
  <2> DEFINE w == wk.job
  <2> w \in Jobs /\ db[w] \in Row /\ db[w].status \in Live
    BY <1>32 DEF WorkerStart, TypeInv, RowsOK, WorkerOK, CalmInv, WorkInv, Live
  <2> Exists(w) /\ ~Removable(w) /\ w \notin ToSet(queue) /\ Runs(w)
    BY <1>32 DEF WorkerStart, Exists, Live, Removable, Terminal, CalmInv, QueuedInv, Runs
  <2> /\ UNCHANGED <<photo, files, crt, act, queue>> /\ wk'.job = w
      /\ wk.pc = "start" /\ wk'.pc = "read"
    BY <1>32 DEF WorkerStart, TypeInv, WorkerOK
  <2> /\ \A j \in Jobs : j # w => db'[j] = db[j]
      /\ db'[w].status = "processing" /\ db'[w].results = db[w].results /\ db'[w].error = db[w].error
      /\ db'[w].attempt = db[w].attempt
    BY <1>32 DEF WorkerStart, Exists, TypeInv, RowsOK, Row
  <2> HIDE DEF w
  <2> \A p \in Requests : act[p].pc \in RetrySteps => act[p].job \in Jobs \ {w}
    BY DEF CalmInv, RetryInv, RetrySteps, Live, TypeInv, ThreadsOK, Threads
  <2> \A j \in Jobs : Removable(j) => Removable(j)' /\ files'[j] \subseteq files[j] \cup {"dir"}
    BY DEF Removable
  <2>1. OnceQueued'
    BY <1>32 DEF WorkerStart, Exists, Changed, Live, Terminal, Retryable, CalmInv, OnceQueued
  <2>2. WorkInv'
    BY DEF CalmInv, WorkInv
  <2>3. ASSUME NEW j \in Jobs  PROVE StageInv(j)'
    <3>1. crt[w] \notin {"none", "clean", "read", "save", "reject", "append", "put"}
      BY DEF RunInv, Untaken, Runs
    <3> QED
      BY <3>1 DEF CalmInv, StageInv
  <2>4. ASSUME NEW j \in Jobs  PROVE QueuedInv(j)'
    BY DEF CalmInv, QueuedInv, Runs
  <2>5. ASSUME NEW j \in Jobs  PROVE RowInv(j)'
    BY DEF CalmInv, RowInv, Live
  <2>6. ASSUME NEW u \in Threads  PROVE RemovalInv(u)'
    BY RemovalKept
  <2>7. ASSUME NEW p \in Requests  PROVE RetryInv(p)'
    BY RetryKept DEF Runs
  <2> QED
    BY <2>1, <2>2, <2>3, <2>4, <2>5, <2>6, <2>7 DEF CalmInv
<1>33. ASSUME WorkerRead  PROVE CalmInv'
  <2>1. OnceQueued'
    BY <1>33 DEF WorkerRead, Exists, Changed, Live, Terminal, Retryable, CalmInv, OnceQueued
  <2>2. WorkInv'
    <3>1. wk.job \in Jobs /\ db[wk.job].status = "processing" /\ db[wk.job].error = "none"
      BY <1>33 DEF WorkerRead, TypeInv, WorkerOK, CalmInv, WorkInv, RowInv, Live
    <3> QED
      BY <1>33, <3>1 DEF WorkerRead, WorkInv, TypeInv, WorkerOK, Exists
  <2>3. ASSUME NEW j \in Jobs  PROVE StageInv(j)'
    BY <1>33 DEF WorkerRead, Exists, Changed, Live, Terminal, Retryable, CalmInv, StageInv, TypeInv, RowsOK, Row, ThreadsOK, ThreadState, Threads, WorkerOK, OthersOK
  <2>4. ASSUME NEW j \in Jobs  PROVE QueuedInv(j)'
    BY <1>33 DEF WorkerRead, Exists, Changed, Live, Terminal, Retryable, RunInv, Untaken, CalmInv, WorkInv, StageInv, QueuedInv, Runs, TypeInv, RowsOK, Row, ThreadsOK, ThreadState, Threads, WorkerOK, OthersOK
  <2>5. ASSUME NEW j \in Jobs  PROVE RowInv(j)'
    BY <1>33 DEF WorkerRead, Exists, Changed, Live, Terminal, Retryable, CalmInv, RowInv, StageInv, WorkInv, TypeInv, RowsOK, Row, ThreadsOK, ThreadState, Threads, WorkerOK, OthersOK
  <2>6. ASSUME NEW u \in Threads  PROVE RemovalInv(u)'
    BY <1>33, RemovalsRest DEF WorkerRead
  <2>7. ASSUME NEW p \in Requests  PROVE RetryInv(p)'
    BY <1>33 DEF WorkerRead, Exists, Changed, Live, Terminal, Retryable, CalmInv, RetryInv, Runs, RetriesAlone, RetrySteps, TypeInv, RowsOK, Row, ThreadsOK, ThreadState, Threads, WorkerOK, OthersOK
  <2> QED
    BY <2>1, <2>2, <2>3, <2>4, <2>5, <2>6, <2>7 DEF CalmInv
<1>34. ASSUME WorkerOpen  PROVE CalmInv'
  <2> UNCHANGED <<db, photo, act>> /\ wk.job \in Jobs
    BY <1>34 DEF WorkerOpen, TypeInv, WorkerOK
  <2> \A j \in Jobs : files[j] \subseteq files'[j] /\ files'[j] \subseteq files[j] \cup {"dir"}
    BY <1>34 DEF WorkerOpen, TypeInv, OthersOK
  <2> \A j \in Jobs : Removable(j) => Removable(j)' /\ files'[j] \subseteq files[j] \cup {"dir"}
    BY DEF Removable
  <2>1. OnceQueued'
    BY <1>34 DEF WorkerOpen, Exists, Changed, Live, Terminal, Retryable, CalmInv, OnceQueued
  <2>2. WorkInv'
    <3>1. wk.pc = "open" /\ wk'.pc \in {"run", "fail"} /\ wk'.job = wk.job /\ wk'.error = wk.error
      BY <1>34 DEF WorkerOpen, TypeInv, WorkerOK
    <3> QED
      BY <3>1 DEF CalmInv, WorkInv
  <2>3. ASSUME NEW j \in Jobs  PROVE StageInv(j)'
    BY <1>34 DEF WorkerOpen, Exists, Changed, Live, Terminal, Retryable, CalmInv, StageInv, TypeInv, RowsOK, Row, ThreadsOK, ThreadState, Threads, WorkerOK, OthersOK
  <2>4. ASSUME NEW j \in Jobs  PROVE QueuedInv(j)'
    BY <1>34 DEF WorkerOpen, Exists, Changed, Live, Terminal, Retryable, RunInv, Untaken, CalmInv, WorkInv, StageInv, QueuedInv, Runs, TypeInv, RowsOK, Row, ThreadsOK, ThreadState, Threads, WorkerOK, OthersOK
  <2>5. ASSUME NEW j \in Jobs  PROVE RowInv(j)'
    BY DEF CalmInv, RowInv
  <2>6. ASSUME NEW u \in Threads  PROVE RemovalInv(u)'
    BY RemovalKept
  <2>7. ASSUME NEW p \in Requests  PROVE RetryInv(p)'
    BY <1>34 DEF WorkerOpen, Exists, Changed, Live, Terminal, Retryable, CalmInv, RetryInv, Runs, RetriesAlone, RetrySteps, TypeInv, RowsOK, Row, ThreadsOK, ThreadState, Threads, WorkerOK, OthersOK
  <2> QED
    BY <2>1, <2>2, <2>3, <2>4, <2>5, <2>6, <2>7 DEF CalmInv
<1>35. ASSUME SaveResult  PROVE CalmInv'
  <2>1. OnceQueued'
    BY <1>35 DEF SaveResult, Exists, Changed, Live, Terminal, Retryable, CalmInv, OnceQueued
  <2>2. WorkInv'
    BY <1>35 DEF SaveResult, Exists, Changed, Live, Terminal, Retryable, RunInv, Untaken, CalmInv, WorkInv, TypeInv, RowsOK, Row, ThreadsOK, ThreadState, Threads, WorkerOK, OthersOK
  <2>3. ASSUME NEW j \in Jobs  PROVE StageInv(j)'
    BY <1>35 DEF SaveResult, Exists, Changed, Live, Terminal, Retryable, CalmInv, StageInv, TypeInv, RowsOK, Row, ThreadsOK, ThreadState, Threads, WorkerOK, OthersOK
  <2>4. ASSUME NEW j \in Jobs  PROVE QueuedInv(j)'
    BY <1>35 DEF SaveResult, Exists, Changed, Live, Terminal, Retryable, RunInv, Untaken, CalmInv, WorkInv, StageInv, QueuedInv, Runs, TypeInv, RowsOK, Row, ThreadsOK, ThreadState, Threads, WorkerOK, OthersOK
  <2>5. ASSUME NEW j \in Jobs  PROVE RowInv(j)'
    BY <1>35 DEF SaveResult, Exists, Changed, Live, Terminal, Retryable, CalmInv, RowInv, StageInv, WorkInv, TypeInv, RowsOK, Row, ThreadsOK, ThreadState, Threads, WorkerOK, OthersOK
  <2>6. ASSUME NEW u \in Threads  PROVE RemovalInv(u)'
    <3>1. UNCHANGED <<db, photo, act>> /\ ~Removable(wk.job) /\ wk.job \in Jobs
      BY <1>35 DEF SaveResult, TypeInv, WorkerOK, CalmInv, WorkInv, Removable, Terminal
    <3>2. \A j \in Jobs : j # wk.job => files'[j] = files[j]
      BY <1>35 DEF SaveResult, TypeInv, OthersOK
    <3>3. \A j \in Jobs : Removable(j) => Removable(j)' /\ files'[j] \subseteq files[j] \cup {"dir"}
      BY <3>1, <3>2 DEF Removable
    <3> QED
      BY <3>1, <3>3, RemovalKept
  <2>7. ASSUME NEW p \in Requests  PROVE RetryInv(p)'
    BY <1>35 DEF SaveResult, Exists, Changed, Live, Terminal, Retryable, CalmInv, RetryInv, Runs, RetriesAlone, RetrySteps, TypeInv, RowsOK, Row, ThreadsOK, ThreadState, Threads, WorkerOK, OthersOK
  <2> QED
    BY <2>1, <2>2, <2>3, <2>4, <2>5, <2>6, <2>7 DEF CalmInv
<1>36. ASSUME WorkerRaise  PROVE CalmInv'
  <2>1. OnceQueued'
    BY <1>36 DEF WorkerRaise, Exists, Changed, Live, Terminal, Retryable, CalmInv, OnceQueued
  <2>2. WorkInv'
    BY <1>36 DEF WorkerRaise, Exists, Changed, Live, Terminal, Retryable, RunInv, Untaken, CalmInv, WorkInv, TypeInv, RowsOK, Row, ThreadsOK, ThreadState, Threads, WorkerOK, OthersOK
  <2>3. ASSUME NEW j \in Jobs  PROVE StageInv(j)'
    BY <1>36 DEF WorkerRaise, Exists, Changed, Live, Terminal, Retryable, CalmInv, StageInv, TypeInv, RowsOK, Row, ThreadsOK, ThreadState, Threads, WorkerOK, OthersOK
  <2>4. ASSUME NEW j \in Jobs  PROVE QueuedInv(j)'
    BY <1>36 DEF WorkerRaise, Exists, Changed, Live, Terminal, Retryable, RunInv, Untaken, CalmInv, WorkInv, StageInv, QueuedInv, Runs, TypeInv, RowsOK, Row, ThreadsOK, ThreadState, Threads, WorkerOK, OthersOK
  <2>5. ASSUME NEW j \in Jobs  PROVE RowInv(j)'
    BY <1>36 DEF WorkerRaise, Exists, Changed, Live, Terminal, Retryable, CalmInv, RowInv, StageInv, WorkInv, TypeInv, RowsOK, Row, ThreadsOK, ThreadState, Threads, WorkerOK, OthersOK
  <2>6. ASSUME NEW u \in Threads  PROVE RemovalInv(u)'
    BY <1>36, RemovalsRest DEF WorkerRaise
  <2>7. ASSUME NEW p \in Requests  PROVE RetryInv(p)'
    BY <1>36 DEF WorkerRaise, Exists, Changed, Live, Terminal, Retryable, CalmInv, RetryInv, Runs, RetriesAlone, RetrySteps, TypeInv, RowsOK, Row, ThreadsOK, ThreadState, Threads, WorkerOK, OthersOK
  <2> QED
    BY <2>1, <2>2, <2>3, <2>4, <2>5, <2>6, <2>7 DEF CalmInv
<1>37. ASSUME WorkerComplete  PROVE CalmInv'
  <2> DEFINE w == wk.job
  <2> w \in Jobs /\ db[w] \in Row /\ db[w].status \in Live
    BY <1>37 DEF WorkerComplete, TypeInv, RowsOK, WorkerOK, CalmInv, WorkInv, Live
  <2> Exists(w) /\ ~Removable(w) /\ w \notin ToSet(queue) /\ Runs(w)
    BY <1>37 DEF WorkerComplete, Exists, Live, Removable, Terminal, CalmInv, QueuedInv, Runs
  <2> /\ UNCHANGED <<photo, files, crt, act, queue>> /\ wk'.job = w
      /\ wk.pc = "run" /\ wk'.pc = "done"
    BY <1>37 DEF WorkerComplete, TypeInv, WorkerOK
  <2> wk.error = "none"
    BY DEF CalmInv, WorkInv
  <2> db[w].error = "none"
    BY DEF CalmInv, RowInv
  <2> /\ \A j \in Jobs : j # w => db'[j] = db[j]
      /\ db'[w].status = "completed" /\ db'[w].results /\ db'[w].error = "none"
      /\ db'[w].attempt = db[w].attempt
    BY <1>37 DEF WorkerComplete, Changed, Exists, TypeInv, RowsOK, Row
  <2> HIDE DEF w
  <2> \A p \in Requests : act[p].pc \in RetrySteps => act[p].job \in Jobs \ {w}
    BY DEF CalmInv, RetryInv, RetrySteps, Live, TypeInv, ThreadsOK, Threads
  <2> \A j \in Jobs : Removable(j) => Removable(j)' /\ files'[j] \subseteq files[j] \cup {"dir"}
    BY DEF Removable
  <2>1. OnceQueued'
    BY <1>37 DEF WorkerComplete, Exists, Changed, Live, Terminal, Retryable, CalmInv, OnceQueued
  <2>2. WorkInv'
    BY DEF CalmInv, WorkInv
  <2>3. ASSUME NEW j \in Jobs  PROVE StageInv(j)'
    <3>1. crt[w] \notin {"none", "clean", "read", "save", "reject", "append", "put"}
      BY DEF RunInv, Untaken, Runs
    <3> QED
      BY <3>1 DEF CalmInv, StageInv
  <2>4. ASSUME NEW j \in Jobs  PROVE QueuedInv(j)'
    BY DEF CalmInv, QueuedInv, Runs
  <2>5. ASSUME NEW j \in Jobs  PROVE RowInv(j)'
    BY DEF CalmInv, RowInv, Live
  <2>6. ASSUME NEW u \in Threads  PROVE RemovalInv(u)'
    BY RemovalKept
  <2>7. ASSUME NEW p \in Requests  PROVE RetryInv(p)'
    BY RetryKept DEF Runs
  <2> QED
    BY <2>1, <2>2, <2>3, <2>4, <2>5, <2>6, <2>7 DEF CalmInv
<1>38. ASSUME WorkerFail  PROVE CalmInv'
  <2> DEFINE w == wk.job
  <2> w \in Jobs /\ db[w] \in Row /\ db[w].status \in Live
    BY <1>38 DEF WorkerFail, TypeInv, RowsOK, WorkerOK, CalmInv, WorkInv, Live
  <2> Exists(w) /\ ~Removable(w) /\ w \notin ToSet(queue) /\ Runs(w)
    BY <1>38 DEF WorkerFail, Exists, Live, Removable, Terminal, CalmInv, QueuedInv, Runs
  <2> /\ UNCHANGED <<photo, files, crt, act, queue>> /\ wk'.job = w
      /\ wk.pc = "fail" /\ wk'.pc = "done"
    BY <1>38 DEF WorkerFail, TypeInv, WorkerOK
  <2> wk.error = "none"
    BY DEF CalmInv, WorkInv
  <2> /\ \A j \in Jobs : j # w => db'[j] = db[j]
      /\ db'[w].status = "failed" /\ db'[w].results = db[w].results /\ db'[w].error = "generation"
      /\ db'[w].attempt = db[w].attempt
    BY <1>38 DEF WorkerFail, Changed, Exists, TypeInv, RowsOK, Row
  <2> HIDE DEF w
  <2> \A p \in Requests : act[p].pc \in RetrySteps => act[p].job \in Jobs \ {w}
    BY DEF CalmInv, RetryInv, RetrySteps, Live, TypeInv, ThreadsOK, Threads
  <2> \A j \in Jobs : Removable(j) => Removable(j)' /\ files'[j] \subseteq files[j] \cup {"dir"}
    BY DEF Removable
  <2>1. OnceQueued'
    BY <1>38 DEF WorkerFail, Exists, Changed, Live, Terminal, Retryable, CalmInv, OnceQueued
  <2>2. WorkInv'
    BY DEF CalmInv, WorkInv
  <2>3. ASSUME NEW j \in Jobs  PROVE StageInv(j)'
    <3>1. crt[w] \notin {"none", "clean", "read", "save", "reject", "append", "put"}
      BY DEF RunInv, Untaken, Runs
    <3> QED
      BY <3>1 DEF CalmInv, StageInv
  <2>4. ASSUME NEW j \in Jobs  PROVE QueuedInv(j)'
    BY DEF CalmInv, QueuedInv, Runs
  <2>5. ASSUME NEW j \in Jobs  PROVE RowInv(j)'
    BY DEF CalmInv, RowInv, Live
  <2>6. ASSUME NEW u \in Threads  PROVE RemovalInv(u)'
    BY RemovalKept
  <2>7. ASSUME NEW p \in Requests  PROVE RetryInv(p)'
    BY RetryKept DEF Runs
  <2> QED
    BY <2>1, <2>2, <2>3, <2>4, <2>5, <2>6, <2>7 DEF CalmInv
<1>39. ASSUME WorkerDone  PROVE CalmInv'
  <2>1. OnceQueued'
    BY <1>39 DEF WorkerDone, IdleWorker, CalmInv, OnceQueued
  <2>2. WorkInv'
    BY <1>39 DEF WorkerDone, IdleWorker, RunInv, Untaken, CalmInv, WorkInv, TypeInv, RowsOK, Row, ThreadsOK, ThreadState, Threads, WorkerOK, OthersOK
  <2>3. ASSUME NEW j \in Jobs  PROVE StageInv(j)'
    BY <1>39 DEF WorkerDone, IdleWorker, CalmInv, StageInv, TypeInv, RowsOK, Row, ThreadsOK, ThreadState, Threads, WorkerOK, OthersOK
  <2>4. ASSUME NEW j \in Jobs  PROVE QueuedInv(j)'
    BY <1>39 DEF WorkerDone, IdleWorker, RunInv, Untaken, CalmInv, WorkInv, StageInv, QueuedInv, Runs, TypeInv, RowsOK, Row, ThreadsOK, ThreadState, Threads, WorkerOK, OthersOK
  <2>5. ASSUME NEW j \in Jobs  PROVE RowInv(j)'
    BY <1>39 DEF WorkerDone, IdleWorker, CalmInv, RowInv, StageInv, WorkInv, TypeInv, RowsOK, Row, ThreadsOK, ThreadState, Threads, WorkerOK, OthersOK
  <2>6. ASSUME NEW u \in Threads  PROVE RemovalInv(u)'
    BY <1>39, RemovalsRest DEF WorkerDone
  <2>7. ASSUME NEW p \in Requests  PROVE RetryInv(p)'
    BY <1>39 DEF WorkerDone, IdleWorker, CalmInv, RetryInv, Runs, RetriesAlone, RetrySteps, TypeInv, RowsOK, Row, ThreadsOK, ThreadState, Threads, WorkerOK, OthersOK
  <2> QED
    BY <2>1, <2>2, <2>3, <2>4, <2>5, <2>6, <2>7 DEF CalmInv
<1>40. ASSUME Waiting  PROVE CalmInv'
  <2>1. Bystander
    BY <1>40 DEF Waiting, vars, ThreadsOK, ThreadState, Threads, Cleaners, Bystander, RetrySteps, TypeInv
  <2>2. /\ OnceQueued' /\ WorkInv'
       /\ \A j \in Jobs : StageInv(j)' /\ QueuedInv(j)'
    BY <2>1, BystanderCalm
  <2>3. ASSUME NEW j \in Jobs  PROVE RowInv(j)'
    BY <1>40 DEF Waiting, vars, CalmInv, RowInv, StageInv, WorkInv, TypeInv, RowsOK, Row, ThreadsOK, ThreadState, Threads, WorkerOK, OthersOK
  <2>4. ASSUME NEW u \in Threads  PROVE RemovalInv(u)'
    BY <1>40 DEF Waiting, vars, CalmInv, RowInv, StageInv, RemovalInv, Removable, TypeInv, RowsOK, Row, ThreadsOK, ThreadState, Threads, WorkerOK, OthersOK
  <2>5. ASSUME NEW p \in Requests  PROVE RetryInv(p)'
    BY <1>40 DEF Waiting, vars, CalmInv, RetryInv, Runs, RetriesAlone, RetrySteps, TypeInv, RowsOK, Row, ThreadsOK, ThreadState, Threads, WorkerOK, OthersOK
  <2> QED
    BY <2>1, <2>2, <2>3, <2>4, <2>5 DEF CalmInv
<1>41. ASSUME UNCHANGED vars  PROVE CalmInv'
  <2>1. Bystander
    BY <1>41 DEF vars, ThreadsOK, ThreadState, Threads, Cleaners, Bystander, RetrySteps, TypeInv
  <2>2. /\ OnceQueued' /\ WorkInv'
       /\ \A j \in Jobs : StageInv(j)' /\ QueuedInv(j)'
    BY <2>1, BystanderCalm
  <2>3. ASSUME NEW j \in Jobs  PROVE RowInv(j)'
    BY <1>41 DEF vars, CalmInv, RowInv, StageInv, WorkInv, TypeInv, RowsOK, Row, ThreadsOK, ThreadState, Threads, WorkerOK, OthersOK
  <2>4. ASSUME NEW u \in Threads  PROVE RemovalInv(u)'
    BY <1>41, RemovalsRest DEF vars
  <2>5. ASSUME NEW p \in Requests  PROVE RetryInv(p)'
    BY <1>41 DEF vars, CalmInv, RetryInv, Runs, RetriesAlone, RetrySteps, TypeInv, RowsOK, Row, ThreadsOK, ThreadState, Threads, WorkerOK, OthersOK
  <2> QED
    BY <2>1, <2>2, <2>3, <2>4, <2>5 DEF CalmInv
<1>42. CASE RestartStep
  BY <1>42, <1>2, <1>3 DEF RestartStep
<1>43. CASE WorkerStep
  BY <1>43, <1>30, <1>31, <1>32, <1>33, <1>34, <1>35, <1>36, <1>37, <1>38, <1>39 DEF WorkerStep
<1>44. ASSUME NEW t \in Threads, DeleteStep(t)  PROVE CalmInv'
  BY <1>44, <1>9, <1>10, <1>11, <1>13, <1>12 DEF DeleteStep
<1>45. ASSUME NEW c \in Cleaners, CleanerStep(c)  PROVE CalmInv'
  BY <1>45, <1>5, <1>6, <1>7, <1>8, <1>44 DEF CleanerStep, Threads
<1>46. ASSUME NEW r \in Requests, RequestStep(r)  PROVE CalmInv'
  BY <1>46, <1>26, <1>27, <1>28, <1>29, <1>44 DEF RequestStep, Threads
<1>47. ASSUME NEW k \in Jobs, CreateStep(k)  PROVE CalmInv'
  BY <1>47, <1>15, <1>16, <1>17, <1>18, <1>19, <1>20 DEF CreateStep
<1>48. ASSUME NEW r \in Requests, NEW k \in Jobs, Ask(r, k)  PROVE CalmInv'
  BY <1>48, <1>22, <1>23, <1>24, <1>25 DEF Ask
<1> QED
  BY <1>1, <1>4, <1>14, <1>21, <1>40, <1>41, <1>42, <1>43, <1>44, <1>45, <1>46, <1>47, <1>48 DEF Next

-----------------------------------------------------------------------------
(* The contract                                                              *)

\* What a poll answers for the rows that there are.
LEMMA PollOf ==
    ASSUME TypeInv, RunInv, CalmInv, NEW j \in Jobs
    PROVE  /\ db[j].status = "none" => Poll(j) = IF photo[j] = "unread" THEN "none" ELSE "gone"
           /\ db[j].status \in Live => Poll(j) = db[j].status
           /\ db[j].status = "completed" => Poll(j) = "completed"
           /\ db[j].status = "failed" => Poll(j) \in {"failed", "rejected"}
           /\ db[j].status = "failed" /\ db[j].error \in Retryable => Poll(j) = "failed"
<1>1. RowInv(j) /\ CompletedInv(j) /\ db[j] \in Row
  BY DEF RunInv, CalmInv, TypeInv, RowsOK
<1>2. CASE db[j].status = "none"
  BY <1>2 DEF Poll, Exists, Live
<1>3. CASE db[j].status \in Live
  BY <1>1, <1>3 DEF Poll, Exists, Live, RowInv
<1>4. CASE db[j].status = "completed"
  BY <1>1, <1>4 DEF Poll, Exists, Live, CompletedInv
<1>5. CASE db[j].status = "failed"
  <2>1. ~db[j].results /\ (db[j].error \in Retryable \/ db[j].error = "face")
    BY <1>1, <1>5 DEF RowInv, Row, Errors, Retryable
  <2> QED
    BY <1>5, <2>1 DEF Poll, Exists, Live, Retryable
<1> QED
  BY <1>1, <1>2, <1>3, <1>4, <1>5 DEF Row, Terminal

\* A poll depends on the row, and on whether there has ever been one.
LEMMA PollStays ==
    ASSUME NEW j \in Jobs, db'[j] = db[j], photo'[j] = photo[j]
    PROVE  Poll(j)' = Poll(j)
  BY DEF Poll, Exists

\* When no other answer changes, the step is the contract's move of one job.
LEMMA OneMoves ==
    ASSUME NEW q \in Jobs, NEW from, NEW to,
           \A j \in Jobs \ {q} : Poll(j)' = Poll(j),
           Poll(q) \in from, Poll(q)' = to
    PROVE  Contract!Move(q, from, to)
  BY DEF Contract!Move

\* No job exists at the start.
LEMMA ContractInit == Init => Contract!Init
  BY DEF Init, Contract!Init, Poll, Exists, NoRow

\* Every step that changes a row is the step of the contract that its handler is
\* for, and every other step changes no answer.
LEMMA ContractStep ==
    TypeInv /\ RunInv /\ CalmInv /\ [Next]_vars
        => [Contract!Next]_([j \in Jobs |-> Poll(j)])
<1> DEFINE Kept == UNCHANGED [j \in Jobs |-> Poll(j)]
<1> SUFFICES ASSUME TypeInv, RunInv, CalmInv, [Next]_vars
             PROVE  Contract!Next \/ Kept
  OBVIOUS
<1> USE ActorsAssumption
<1>0. ASSUME UNCHANGED <<db, photo>>  PROVE Kept
  BY <1>0, PollStays
<1>1. ASSUME NEW k \in Jobs, RecoverStaleJob(k)  PROVE Contract!Next
  <2>1. /\ db[k] \in Row /\ db[k].status \in Live /\ photo' = photo
        /\ db' = [db EXCEPT ![k] = [db[k] EXCEPT !.status = "failed", !.error = "restarted"]]
    BY <1>1 DEF RecoverStaleJob, TypeInv, RowsOK
  <2>2. Poll(k) \in {"queued", "processing"} /\ ~db[k].results
    BY <2>1, PollOf DEF Live, CalmInv, RowInv
  <2>3. Poll(k)' = "failed"
    BY <2>1, <2>2 DEF Poll, Exists, Live, Retryable, TypeInv, RowsOK, Row
  <2>4. \A j \in Jobs \ {k} : Poll(j)' = Poll(j)
    BY <2>1, PollStays DEF TypeInv, RowsOK
  <2>5. Contract!Fail(k)
    BY <2>2, <2>3, <2>4, OneMoves DEF Contract!Fail
  <2> QED
    BY <2>5 DEF Contract!Next
<1>2. ASSUME NEW k \in Jobs, CreateRow(k)  PROVE Contract!Next
  <2>1. /\ photo[k] = "unread" /\ db[k].status = "none" /\ photo'[k] # "unread"
        /\ db' = [db EXCEPT ![k] = [NoRow EXCEPT !.status = "queued", !.attempt = 1]]
        /\ \A j \in Jobs \ {k} : photo'[j] = photo[j]
    BY <1>2 DEF CreateRow, CalmInv, StageInv, Photos, TypeInv, OthersOK
  <2>2. Poll(k) = "none"
    BY <2>1, PollOf
  <2>3. Poll(k)' = "queued"
    BY <2>1 DEF Poll, Exists, Live, TypeInv, RowsOK, NoRow
  <2>4. \A j \in Jobs \ {k} : Poll(j)' = Poll(j)
    BY <2>1, PollStays DEF TypeInv, RowsOK
  <2>5. Contract!Accept(k)
    BY <2>2, <2>3, <2>4, OneMoves DEF Contract!Accept
  <2> QED
    BY <2>5 DEF Contract!Next
<1>3. ASSUME NEW k \in Jobs, CreateMarkFailed(k)  PROVE Contract!Next
  <2>1. /\ db[k] \in Row /\ db[k].status = "queued" /\ photo' = photo
        /\ db' = [db EXCEPT ![k] = [db[k] EXCEPT !.status = "failed", !.error = "face"]]
    BY <1>3 DEF CreateMarkFailed, TypeInv, RowsOK, CalmInv, StageInv
  <2>2. Poll(k) = "queued" /\ ~db[k].results
    BY <2>1, PollOf DEF Live, CalmInv, RowInv
  <2>3. Poll(k)' = "rejected"
    BY <2>1, <2>2 DEF Poll, Exists, Live, Retryable, TypeInv, RowsOK, Row
  <2>4. \A j \in Jobs \ {k} : Poll(j)' = Poll(j)
    BY <2>1, PollStays DEF TypeInv, RowsOK
  <2>5. Contract!Reject(k)
    BY <2>2, <2>3, <2>4, OneMoves DEF Contract!Reject
  <2> QED
    BY <2>5 DEF Contract!Next
<1>4. ASSUME NEW r \in Requests, RetryCommit(r)  PROVE Contract!Next
  <2>0. PICK k \in Jobs : k = act[r].job
    BY <1>4 DEF RetryCommit, TypeInv, ThreadsOK, Threads
  <2>1. /\ k \in Jobs /\ db[k] \in Row /\ photo' = photo
        /\ db[k].status = "failed" /\ db[k].error \in Retryable
    BY <1>4, <2>0 DEF RetryCommit, TypeInv, RowsOK, ThreadsOK, Threads, CalmInv, RetryInv
  <2>2. db' = [db EXCEPT ![k] = [db[k] EXCEPT !.status = "processing", !.error = "none",
                                              !.attempt = act[r].attempt + 1]]
    BY <1>4, <2>0, <2>1 DEF RetryCommit, Exists, TypeInv, RowsOK
  <2>3. Poll(k) = "failed" /\ ~db[k].results
    BY <2>1, PollOf DEF CalmInv, RowInv
  <2>4. Poll(k)' = "processing"
    BY <2>1, <2>2, <2>3 DEF Poll, Exists, Live, TypeInv, RowsOK, Row
  <2>5. \A j \in Jobs \ {k} : Poll(j)' = Poll(j)
    BY <2>1, <2>2, PollStays DEF TypeInv, RowsOK
  <2>6. Contract!Retry(k)
    BY <2>1, <2>3, <2>4, <2>5, OneMoves DEF Contract!Retry
  <2> QED
    BY <2>1, <2>6 DEF Contract!Next
<1>5. ASSUME WorkerStart  PROVE Contract!Next \/ Kept
  <2>0. PICK k \in Jobs : k = wk.job
    BY <1>5 DEF WorkerStart, TypeInv, WorkerOK
  <2>1. k \in Jobs /\ db[k] \in Row /\ photo' = photo /\ db[k].status \in Live
    BY <1>5, <2>0 DEF WorkerStart, TypeInv, RowsOK, WorkerOK, CalmInv, WorkInv
  <2>2. db' = [db EXCEPT ![k] = [db[k] EXCEPT !.status = "processing"]]
    BY <1>5, <2>0, <2>1 DEF WorkerStart, Exists, Live, TypeInv, RowsOK
  <2>3. Poll(k) = db[k].status /\ ~db[k].results /\ db[k].error = "none"
    BY <2>1, PollOf DEF CalmInv, RowInv, Live
  <2>4. Poll(k)' = "processing"
    BY <2>1, <2>2, <2>3 DEF Poll, Exists, Live, TypeInv, RowsOK, Row
  <2>5. \A j \in Jobs \ {k} : Poll(j)' = Poll(j)
    BY <2>1, <2>2, PollStays DEF TypeInv, RowsOK
  <2>6. CASE db[k].status = "queued"
    <3>1. Contract!Start(k)
      BY <2>1, <2>3, <2>4, <2>5, <2>6, OneMoves DEF Contract!Start
    <3> QED
      BY <2>1, <3>1 DEF Contract!Next
  <2>7. CASE db[k].status = "processing"
    BY <2>1, <2>3, <2>4, <2>5, <2>7
  <2> QED
    BY <2>1, <2>6, <2>7 DEF Live
<1>6. ASSUME WorkerComplete  PROVE Contract!Next
  <2>0. PICK k \in Jobs : k = wk.job
    BY <1>6 DEF WorkerComplete, TypeInv, WorkerOK
  <2>1. k \in Jobs /\ db[k] \in Row /\ photo' = photo /\ db[k].status = "processing"
    BY <1>6, <2>0 DEF WorkerComplete, TypeInv, RowsOK, WorkerOK, CalmInv, WorkInv
  <2>2. wk.error = "none" /\ db[k].error = "none" /\ Exists(k)
    BY <1>6, <2>0, <2>1 DEF WorkerComplete, CalmInv, WorkInv, RowInv, Live, Exists
  <2>3. db' = [db EXCEPT ![k] = [db[k] EXCEPT !.status = "completed", !.results = TRUE]]
    <3>1. db' = [db EXCEPT ![k] = [db[k] EXCEPT !.status = "completed", !.results = TRUE,
                                                !.error = db[k].error]]
      BY <1>6, <2>0, <2>1, <2>2 DEF WorkerComplete, Changed, TypeInv, RowsOK, Row
    <3> QED
      BY <2>1, <3>1 DEF Row
  <2>4. Poll(k) = "processing"
    BY <2>1, PollOf DEF Live
  <2>5. Poll(k)' = "completed"
    BY <2>1, <2>2, <2>3 DEF Poll, Exists, Live, TypeInv, RowsOK, Row
  <2>6. \A j \in Jobs \ {k} : Poll(j)' = Poll(j)
    BY <2>1, <2>3, PollStays DEF TypeInv, RowsOK
  <2>7. Contract!Complete(k)
    BY <2>1, <2>4, <2>5, <2>6, OneMoves DEF Contract!Complete
  <2> QED
    BY <2>1, <2>7 DEF Contract!Next
<1>7. ASSUME WorkerFail  PROVE Contract!Next
  <2>0. PICK k \in Jobs : k = wk.job
    BY <1>7 DEF WorkerFail, TypeInv, WorkerOK
  <2>1. k \in Jobs /\ db[k] \in Row /\ photo' = photo /\ db[k].status = "processing"
    BY <1>7, <2>0 DEF WorkerFail, TypeInv, RowsOK, WorkerOK, CalmInv, WorkInv
  <2>2. wk.error = "none" /\ ~db[k].results /\ Exists(k)
    BY <1>7, <2>0, <2>1 DEF WorkerFail, CalmInv, WorkInv, RowInv, Exists
  <2>3. db' = [db EXCEPT ![k] = [db[k] EXCEPT !.status = "failed", !.error = "generation"]]
    BY <1>7, <2>0, <2>1, <2>2 DEF WorkerFail, Changed, TypeInv, RowsOK, Row
  <2>4. Poll(k) = "processing"
    BY <2>1, PollOf DEF Live
  <2>5. Poll(k)' = "failed"
    BY <2>1, <2>2, <2>3 DEF Poll, Exists, Live, Retryable, TypeInv, RowsOK, Row
  <2>6. \A j \in Jobs \ {k} : Poll(j)' = Poll(j)
    BY <2>1, <2>3, PollStays DEF TypeInv, RowsOK
  <2>7. Contract!Fail(k)
    BY <2>1, <2>4, <2>5, <2>6, OneMoves DEF Contract!Fail
  <2> QED
    BY <2>1, <2>7 DEF Contract!Next
<1>8. ASSUME NEW t \in Threads, DeleteRow(t)  PROVE Contract!Next \/ Kept
  <2>0. PICK k \in Jobs : k = act[t].job
    BY <1>8 DEF DeleteRow, TypeInv, ThreadsOK, Threads
  <2>1. k \in Jobs /\ photo' = photo /\ db' = [db EXCEPT ![k] = NoRow]
    BY <1>8, <2>0 DEF DeleteRow, TypeInv, ThreadsOK
  <2>2. Removable(k)
    BY <1>8, <2>0 DEF DeleteRow, CalmInv, RemovalInv
  <2>3. Poll(k) \in {"completed", "failed", "rejected", "gone"}
    BY <2>1, <2>2, PollOf DEF Removable, Terminal
  <2>4. Poll(k)' = "gone"
    <3>1. db'[k] = NoRow /\ photo'[k] # "unread"
      BY <2>1, <2>2 DEF Removable, TypeInv, RowsOK
    <3>2. ~Exists(k)'
      BY <3>1 DEF Exists, NoRow
    <3> QED
      BY <3>1, <3>2 DEF Poll, Live, NoRow
  <2>5. \A j \in Jobs \ {k} : Poll(j)' = Poll(j)
    BY <2>1, PollStays DEF TypeInv, RowsOK
  <2>6. CASE Poll(k) = "gone"
    BY <2>1, <2>4, <2>5, <2>6
  <2>7. CASE Poll(k) # "gone"
    <3>1. Contract!Remove({k})
      BY <2>1, <2>3, <2>4, <2>5, <2>7 DEF Contract!Remove
    <3>2. {k} \in SUBSET Jobs
      BY <2>1
    <3> QED
      BY <3>1, <3>2 DEF Contract!Next
  <2> QED
    BY <2>6, <2>7
<1>9. CASE \/ Crash \/ RecoverDone \/ StartPeriodicCleanup \/ Waiting \/ UNCHANGED vars
           \/ WorkerGet \/ WorkerLoad \/ WorkerRead \/ WorkerOpen \/ SaveResult
           \/ WorkerRaise \/ WorkerDone
  <2>1. UNCHANGED <<db, photo>>
    BY <1>9 DEF Crash, RecoverDone, StartPeriodicCleanup, Waiting, vars, WorkerGet, WorkerLoad,
                WorkerRead, WorkerOpen, SaveResult, WorkerRaise, WorkerDone
  <2> QED
    BY <2>1, <1>0
<1>10. ASSUME NEW t \in Threads, DeleteStep(t)  PROVE Contract!Next \/ Kept
  <2>1. CASE ListFiles(t) \/ Unlink(t) \/ Rmdir(t) \/ FilesFailed(t)
    <3>1. UNCHANGED <<db, photo>>
      BY <2>1 DEF ListFiles, Unlink, Rmdir, FilesFailed
    <3> QED
      BY <3>1, <1>0
  <2> QED
    BY <1>10, <1>8, <2>1 DEF DeleteStep
<1>11. ASSUME NEW c \in Cleaners, CleanerStep(c)  PROVE Contract!Next \/ Kept
  <2>1. CASE CleanNext(c) \/ CleanNextGone(c) \/ CleanDone(c) \/ FilesFailedGone(c)
    <3>1. UNCHANGED <<db, photo>>
      BY <2>1 DEF CleanNext, CleanNextGone, CleanDone, FilesFailedGone, EndCleanup
    <3> QED
      BY <3>1, <1>0
  <2> QED
    BY <1>11, <1>10, <2>1 DEF CleanerStep, Threads
<1>12. ASSUME NEW k \in Jobs, CreateRequest(k) \/ CreateStep(k) \/ Expire(k)
       PROVE  Contract!Next \/ Kept
  <2>1. CASE \/ CreateRequest(k) \/ CreateInvalid(k) \/ CreateSaveSource(k)
             \/ CreateAppend(k) \/ CreatePut(k) \/ Expire(k)
    <3>1. UNCHANGED <<db, photo>>
      BY <2>1 DEF CreateRequest, CreateInvalid, CreateSaveSource, CreateAppend, CreatePut, Expire
    <3> QED
      BY <3>1, <1>0
  <2> QED
    BY <1>12, <1>2, <1>3, <2>1 DEF CreateStep
<1>13. ASSUME NEW r \in Requests, RequestStep(r)  PROVE Contract!Next \/ Kept
  <2>1. CASE ImagePath(r) \/ RetryAppend(r) \/ RetryPut(r)
    <3>1. UNCHANGED <<db, photo>>
      BY <2>1 DEF ImagePath, RetryAppend, RetryPut
    <3> QED
      BY <3>1, <1>0
  <2> QED
    BY <1>13, <1>4, <1>10, <2>1 DEF RequestStep, Threads
<1>14. ASSUME NEW r \in Requests, NEW k \in Jobs, Ask(r, k)  PROVE Contract!Next \/ Kept
  <2>1. UNCHANGED <<db, photo>>
    BY <1>14 DEF Ask, LookupExpired, DeleteRead, ImageRead, RetryRead
  <2> QED
    BY <2>1, <1>0
<1>15. CASE WorkerStep
  BY <1>15, <1>5, <1>6, <1>7, <1>9 DEF WorkerStep
<1>16. CASE RestartStep
  BY <1>16, <1>1, <1>9 DEF RestartStep
<1> HIDE DEF Kept
<1> QED
  BY <1>9, <1>11, <1>12, <1>13, <1>14, <1>15, <1>16 DEF Next

\* The service refines JobContract, for any number of jobs, requests and restarts
\* and any TTL, as long as no retry shares its job with another request or cleanup:
\* a client sees each job queued, processed once, ended, and gone for good.
THEOREM ContractKept == Spec /\ []RetriesAlone => KeepsContract
<1>1. Spec /\ []RetriesAlone => [](TypeInv /\ RunInv /\ CalmInv)
  BY TypeInit, TypeStep, RunInit, RunStep, CalmInit, CalmStep, PTL DEF Spec
<1>2. Init => Contract!Init
  BY ContractInit
<1>3. TypeInv /\ RunInv /\ CalmInv /\ [Next]_vars => [Contract!Next]_([j \in Jobs |-> Poll(j)])
  BY ContractStep
<1> QED
  BY <1>1, <1>2, <1>3, PTL DEF Spec, KeepsContract, Contract!Spec

\* Under the same condition the photos of a job are gone before its row is: nothing
\* is left behind that no row points to.
THEOREM PhotosGoFirst == Spec /\ []RetriesAlone => []RowOutlivesPhotos
<1>1. CalmInv => RowOutlivesPhotos
  BY DEF CalmInv, RowInv, RowOutlivesPhotos, Exists
<1> QED
  BY TypeInit, TypeStep, RunInit, RunStep, CalmInit, CalmStep, <1>1, PTL DEF Spec

-----------------------------------------------------------------------------
(* When a retry has its job to itself                                        *)

\* No request is in the middle of a retry.
NoRetry == \A r \in Requests : act[r].pc \notin RetrySteps

\* A retry has its job to itself when nobody retries a job at all: every row shows
\* an attempt, and a retry looks at one that shows less than MaxAttempt.
THEOREM NoRetryAlone == ASSUME MaxAttempt <= 1  PROVE Spec => []RetriesAlone
<1>1. Init => NoRetry
  BY DEF Init, NoRetry, Idle, RetrySteps, Threads
<1>2. TypeInv /\ CalmInv /\ NoRetry /\ [Next]_vars => NoRetry'
  <2> SUFFICES ASSUME TypeInv, CalmInv, NoRetry, [Next]_vars  PROVE NoRetry'
    OBVIOUS
  <2> USE ActorsAssumption DEF RetrySteps, NoRetry
  <2>1. CASE RestartStep \/ StartPeriodicCleanup \/ Crash \/ WorkerStep \/ Waiting \/ UNCHANGED vars
    <3>1. UNCHANGED act \/ Crash \/ RecoverDone \/ StartPeriodicCleanup
      BY <2>1 DEF RestartStep, RecoverStaleJob, WorkerStep, WorkerGet, WorkerLoad, WorkerStart,
                  WorkerRead, WorkerOpen, SaveResult, WorkerRaise, WorkerComplete, WorkerFail,
                  WorkerDone, Waiting, vars
    <3> QED
      BY <3>1 DEF Crash, RecoverDone, StartPeriodicCleanup, Idle, TypeInv, ThreadsOK, ThreadState, Threads, Cleaners
  <2>2. ASSUME NEW t \in Threads, DeleteStep(t)  PROVE NoRetry'
    <3>1. CASE DeleteRow(t)
      BY <3>1 DEF DeleteRow, AfterJob, Idle, TypeInv, ThreadsOK, ThreadState, Threads, Cleaners
    <3>2. CASE ListFiles(t) \/ Unlink(t) \/ Rmdir(t) \/ FilesFailed(t)
      BY <3>2, DeletionIsBystander DEF Bystander
    <3> QED
      BY <2>2, <3>1, <3>2 DEF DeleteStep
  <2>3. ASSUME NEW c \in Cleaners, CleanerStep(c)  PROVE NoRetry'
    <3>1. CASE CleanNext(c) \/ CleanNextGone(c) \/ CleanDone(c) \/ FilesFailedGone(c)
      BY <3>1 DEF CleanNext, CleanNextGone, CleanDone, FilesFailedGone, EndCleanup, TypeInv, ThreadsOK, ThreadState, Threads, Cleaners
    <3> QED
      BY <2>2, <2>3, <3>1 DEF CleanerStep, Threads
  <2>4. ASSUME NEW k \in Jobs, CreateRequest(k) \/ CreateStep(k) \/ Expire(k)  PROVE NoRetry'
    <3>1. UNCHANGED act \/ CreateRequest(k)
      BY <2>4 DEF CreateStep, CreateInvalid, CreateRow, CreateSaveSource, CreateMarkFailed,
                  CreateAppend, CreatePut, Expire
    <3> QED
      BY <3>1 DEF CreateRequest, TypeInv, ThreadsOK, ThreadState, Threads, Cleaners
  <2>5. ASSUME NEW r \in Requests, RequestStep(r)  PROVE NoRetry'
    <3>1. CASE ImagePath(r)
      BY <3>1 DEF ImagePath, Idle, TypeInv, ThreadsOK, ThreadState, Threads, Cleaners
    <3>2. ~(RetryCommit(r) \/ RetryAppend(r) \/ RetryPut(r))
      BY DEF RetryCommit, RetryAppend, RetryPut
    <3> QED
      BY <2>2, <2>5, <3>1, <3>2 DEF RequestStep, Threads
  <2>6. ASSUME NEW r \in Requests, NEW k \in Jobs, Ask(r, k)  PROVE NoRetry'
    <3>1. CASE LookupExpired(r, k) \/ DeleteRead(r, k) \/ ImageRead(r, k)
      BY <3>1 DEF LookupExpired, DeleteRead, ImageRead, TypeInv, ThreadsOK, ThreadState, Threads, Cleaners
    <3>2. ~RetryRead(r, k)
      BY MaxAttempt <= 1, BoundsAssumption DEF RetryRead, CalmInv, RowInv, TypeInv, RowsOK, Row
    <3> QED
      BY <2>6, <3>1, <3>2 DEF Ask
  <2> QED
    BY <2>1, <2>3, <2>4, <2>5, <2>6 DEF Next
<1>3. NoRetry => RetriesAlone
  BY DEF NoRetry, RetriesAlone
<1> QED
  BY TypeInit, TypeStep, RunInit, RunStep, CalmInit, CalmStep, <1>1, <1>2, <1>3, PTL DEF Spec

\* No job has passed its TTL, and so no cleanup has found one.
NoneExpired ==
    /\ expired = {}
    /\ \A c \in Cleaners : act[c].job = NoJob /\ act[c].todo = {}

\* It also has its job to itself when requests come one at a time and before the
\* TTL of any job has passed.
THEOREM OneByOneAlone ==
    ASSUME Expirable = {}, \A r, q \in Requests : r = q
    PROVE  Spec => []RetriesAlone
<1>1. Init => NoneExpired
  BY DEF Init, NoneExpired, Idle, Threads
<1>2. TypeInv /\ NoneExpired /\ [Next]_vars => NoneExpired'
  <2> SUFFICES ASSUME TypeInv, NoneExpired, [Next]_vars  PROVE NoneExpired'
    OBVIOUS
  <2> USE ActorsAssumption
  <2>1. ASSUME UNCHANGED expired,
               \A c \in Cleaners : act'[c] = act[c] \/ act'[c] = Idle \/ act'[c] = Query
        PROVE  NoneExpired'
    <3>1. Query.job = NoJob /\ Query.todo = {} /\ Idle.job = NoJob /\ Idle.todo = {}
      BY DEF NoneExpired, Query, Idle, IsExpired
    <3> QED
      BY <2>1, <3>1 DEF NoneExpired
  <2>2. CASE \/ WorkerStep \/ Waiting \/ UNCHANGED vars \/ \E k \in Jobs : RecoverStaleJob(k) \/ CreateStep(k)
    <3>1. UNCHANGED <<expired, act>>
      BY <2>2 DEF WorkerStep, WorkerGet, WorkerLoad, WorkerStart, WorkerRead, WorkerOpen, SaveResult,
                  WorkerRaise, WorkerComplete, WorkerFail, WorkerDone, Waiting, vars, RecoverStaleJob,
                  CreateStep, CreateInvalid, CreateRow, CreateSaveSource, CreateMarkFailed,
                  CreateAppend, CreatePut
    <3> QED
      BY <2>1, <3>1
  <2>3. CASE Crash \/ RecoverDone \/ StartPeriodicCleanup \/ \E k \in Jobs : CreateRequest(k)
    BY <2>1, <2>3 DEF Crash, RecoverDone, StartPeriodicCleanup, CreateRequest, TypeInv, ThreadsOK, ThreadState, Threads, Cleaners
  <2>4. ASSUME NEW k \in Jobs  PROVE ~Expire(k)
    BY Expirable = {} DEF Expire
  <2>5. ASSUME NEW r \in Requests, RequestStep(r) \/ \E k \in Jobs : Ask(r, k)  PROVE NoneExpired'
    <3>1. UNCHANGED expired /\ \A c \in Cleaners : act'[c] = act[c]
      BY <2>5 DEF RequestStep, Ask, DeleteStep, ImagePath, RetryCommit, RetryAppend, RetryPut,
                  ListFiles, Unlink, Rmdir, DeleteRow, FilesFailed, AfterJob, LookupExpired,
                  DeleteRead, ImageRead, RetryRead, TypeInv, ThreadsOK, ThreadState, Threads, Cleaners
    <3> QED
      BY <2>1, <3>1
  <2>6. ASSUME NEW c \in Cleaners, CleanerStep(c)  PROVE NoneExpired'
    <3>1. act[c].job = NoJob /\ act[c].todo = {} /\ c \in Threads
      BY DEF NoneExpired, Threads
    <3>2. act[c].pc \in {"idle", "next"}
      BY <3>1 DEF TypeInv, ThreadsOK
    <3>3. CleanDone(c)
      BY <2>6, <3>1, <3>2 DEF CleanerStep, DeleteStep, CleanNext, CleanNextGone, FilesFailedGone,
                              ListFiles, Unlink, Rmdir, DeleteRow, FilesFailed
    <3> QED
      BY <2>1, <3>3 DEF CleanDone, EndCleanup, TypeInv, ThreadsOK, ThreadState, Threads, Cleaners
  <2> QED
    BY <2>2, <2>3, <2>4, <2>5, <2>6 DEF Next, RestartStep
<1>3. TypeInv /\ NoneExpired => RetriesAlone
  BY ActorsAssumption DEF TypeInv, ThreadsOK, NoneExpired, RetriesAlone, Threads, RetrySteps
<1> QED
  BY TypeInit, TypeStep, <1>1, <1>2, <1>3, PTL DEF Spec

\* What the service promises as long as nobody retries a job, whatever requests,
\* deletions, cleanups and restarts come together.
COROLLARY WithoutRetries ==
    ASSUME MaxAttempt <= 1
    PROVE  Spec => KeepsContract /\ []RowOutlivesPhotos
  BY NoRetryAlone, ContractKept, PhotosGoFirst, PTL

\* And what it promises, retries included, to clients that come one at a time.
COROLLARY OneByOne ==
    ASSUME Expirable = {}, \A r, q \in Requests : r = q
    PROVE  Spec => KeepsContract /\ []RowOutlivesPhotos
  BY OneByOneAlone, ContractKept, PhotosGoFirst, PTL

=============================================================================
