-------------------------- MODULE VideoJobsProofs --------------------------
(***************************************************************************)
(* The video job service, for any number of jobs, requests, threads and    *)
(* restarts.                                                               *)
(*                                                                         *)
(* LaneInv: one encoder lane. DiskInv adds what the status of a job says   *)
(* of its task (StatusInv) and of its directory (FilesInv): the files of a *)
(* job that was taken out are about to be unlinked by the thread that took *)
(* it out, or its task is still in the engine and fails or cleans up after *)
(* it. From both follows that the service implements JobContract: each     *)
(* step of it is a step of the contract or is not seen by a poll.          *)
(***************************************************************************)
EXTENDS VideoContract, SequenceTheorems, TLAPS

\* A task between the acquisition and the release of _worker_lock.
OnLane == TaskSteps \ {"none", "line", "lane", "done"}

\* What the argument needs of the types.
LaneTypes ==
    /\ jobs \in [Jobs -> {"none"} \cup Live \cup Terminal]
    /\ crt \in [Jobs -> CreateSteps]
    /\ task \in [Jobs -> TaskSteps]
    /\ line \in Seq(Jobs \cup Requests)

\* A job stands in line once, for its upload or for its task: the pool must not
\* send a task that already runs back to the lock.
LineInv ==
    \A j \in Jobs :
      /\ task[j] # "none" => crt[j] = "done"
      /\ \A i \in 1..Len(line) : line[i] = j =>
           /\ crt[j] = "read" \/ task[j] = "line"
           /\ \A k \in 1..Len(line) : line[k] = j => k = i

\* ProcessingHasLane speaks of what _jobs shows; the reason lies in the task.
LaneInv ==
    \A j \in Jobs :
      /\ task[j] \in OnLane => lane = j
      /\ jobs[j] = "processing" => task[j] \in OnLane \ {"begin", "end"}

IInv == LaneTypes /\ LineInv /\ LaneInv

USE DEF Live, Terminal, CreateSteps, TaskSteps

-----------------------------------------------------------------------------

\* The service starts with no job, no task and nobody in line.
LEMMA LaneInit == Init => IInv
  BY DEF Init, IInv, LaneTypes, LineInv, LaneInv, OnLane

\* The pool takes the head of the line.
LEMMA GrantLane == IInv /\ Grant => IInv'
<1> SUFFICES ASSUME IInv, Grant  PROVE IInv'
  OBVIOUS
<1> DEFINE x == Head(line)
<1> USE DEF IInv
<1>1. /\ line \in Seq(Jobs \cup Requests) /\ line # <<>> /\ line' = Tail(line)
      /\ UNCHANGED <<jobs, lane>>
  BY DEF Grant, LaneTypes
<1>2. /\ Len(line) \in Nat \ {0} /\ x = line[1] /\ x \in Jobs \cup Requests
      /\ line' \in Seq(Jobs \cup Requests)
      /\ Len(line') = Len(line) - 1
      /\ \A i \in 1..Len(line') : line'[i] = line[i + 1]
  BY <1>1, HeadTailProperties
<1>3. ASSUME NEW j \in Jobs, NEW i \in 1..Len(line'), line'[i] = j
      PROVE  /\ j # x
             /\ crt[j] = "read" \/ task[j] = "line"
             /\ \A k \in 1..Len(line') : line'[k] = j => k = i
  <2>1. i + 1 \in 1..Len(line) /\ line[i + 1] = j
    BY <1>2, <1>3
  <2>2. /\ crt[j] = "read" \/ task[j] = "line"
        /\ \A k \in 1..Len(line) : line[k] = j => k = i + 1
    BY <2>1 DEF LineInv
  <2>3. j # x
    BY <1>2, <2>2
  <2>4. ASSUME NEW k \in 1..Len(line'), line'[k] = j  PROVE k = i
    <3>1. k + 1 \in 1..Len(line) /\ line[k + 1] = j
      BY <1>2, <2>4
    <3> QED
      BY <2>2, <3>1
  <2> QED
    BY <2>2, <2>3, <2>4
<1>4. CASE x \in Requests
  <2>1. UNCHANGED <<crt, task>>
    BY <1>4 DEF Grant
  <2>2. LaneTypes' /\ LaneInv'
    BY <1>1, <1>2, <2>1 DEF LaneTypes, LaneInv
  <2>3. LineInv'
    BY <1>3, <2>1 DEF LineInv
  <2> QED
    BY <2>2, <2>3
<1>5. CASE x \notin Requests /\ crt[x] = "read"
  <2>1. x \in Jobs /\ crt' = [crt EXCEPT ![x] = "reading"] /\ task' = task
    BY <1>2, <1>5 DEF Grant
  <2>2. task[x] = "none"
    BY <1>5, <2>1 DEF LineInv
  <2>3. LaneTypes'
    BY <1>1, <1>2, <2>1 DEF LaneTypes
  <2>4. LaneInv'
    BY <1>1, <2>1 DEF LaneInv
  <2>5. \A j \in Jobs : j # x => crt'[j] = crt[j]
    BY <2>1 DEF LaneTypes
  <2>6. LineInv'
    BY <1>3, <2>1, <2>2, <2>5 DEF LineInv
  <2> QED
    BY <2>3, <2>4, <2>6
<1>6. CASE x \notin Requests /\ crt[x] # "read"
  <2>1. x \in Jobs /\ task' = [task EXCEPT ![x] = "lane"] /\ crt' = crt
    BY <1>2, <1>6 DEF Grant
  <2>2. task[x] = "line" /\ crt[x] = "done"
    BY <1>2, <1>6, <2>1 DEF LineInv
  <2>3. LaneTypes'
    BY <1>1, <1>2, <2>1 DEF LaneTypes
  <2>4. /\ \A j \in Jobs : j # x => task'[j] = task[j]
        /\ task'[x] = "lane" /\ jobs[x] # "processing"
    BY <2>1, <2>2 DEF LaneTypes, LaneInv, OnLane
  <2>5. LaneInv'
    BY <1>1, <2>4 DEF LaneInv, OnLane
  <2>6. LineInv'
    BY <1>3, <2>1, <2>2, <2>4 DEF LineInv
  <2> QED
    BY <2>3, <2>5, <2>6
<1> QED
  BY <1>4, <1>5, <1>6

\* A job or a request joins the line at its end.
LEMMA JoinLine ==
    ASSUME NEW s \in Seq(Jobs \cup Requests), NEW x \in Jobs \cup Requests, NEW j \in Jobs
    PROVE  /\ Append(s, x) \in Seq(Jobs \cup Requests)
           /\ j # x => \A i \in 1..Len(Append(s, x)) :
                         Append(s, x)[i] = j => i \in 1..Len(s) /\ s[i] = j
           /\ (\A i \in 1..Len(s) : s[i] # j) =>
                \A i \in 1..Len(Append(s, x)) : Append(s, x)[i] = j => i = Len(s) + 1
  BY AppendProperties

\* A step of the task that has the lane.
LEMMA LaneMoves ==
    ASSUME IInv, NEW j \in Jobs, NEW s \in OnLane, task[j] \in OnLane,
           task' = [task EXCEPT ![j] = s],
           jobs' \in [Jobs -> {"none"} \cup Live \cup Terminal],
           \A k \in Jobs : k # j => jobs'[k] = jobs[k],
           jobs'[j] = "processing" => s \notin {"begin", "end"},
           UNCHANGED <<crt, line, lane>>
    PROVE  IInv'
<1> USE DEF IInv
<1>1. task'[j] = s /\ \A k \in Jobs : k # j => task'[k] = task[k]
  BY DEF LaneTypes
<1>2. LaneTypes'
  BY DEF LaneTypes, OnLane
<1>3. task[j] # "none" /\ task[j] # "line"
  BY DEF OnLane
<1>4. LineInv'
  BY <1>1, <1>3 DEF LineInv
<1>5. LaneInv'
  BY <1>1 DEF LaneInv
<1> QED
  BY <1>2, <1>4, <1>5

\* Taking jobs out of _jobs, whoever does it.
LEMMA JobsGo ==
    ASSUME IInv, jobs' \in [Jobs -> {"none"} \cup Live \cup Terminal],
           \A k \in Jobs : jobs'[k] = jobs[k] \/ jobs'[k] = "none",
           UNCHANGED <<crt, task, line, lane>>
    PROVE  IInv'
  BY DEF IInv, LaneTypes, LineInv, LaneInv

\* A step that concerns none of this.
LEMMA Elsewhere ==
    ASSUME IInv, UNCHANGED <<jobs, crt, task, line, lane>>
    PROVE  IInv'
  BY DEF IInv, LaneTypes, LineInv, LaneInv

\* The create request: into the line, and from the pool to the stored job.
LEMMA CreateLane == ASSUME IInv, NEW j \in Jobs, CreateNext(j)  PROVE IInv'
<1> USE DEF IInv
<1>1. CASE Create(j)
  BY <1>1 DEF Create, LaneTypes, LineInv, LaneInv
<1>2. CASE CreateRejected(j)
  BY <1>2 DEF CreateRejected, LaneTypes, LineInv, LaneInv
<1>3. CASE CreateOpen(j)
  <2>1. crt[j] = "clean" /\ UNCHANGED <<jobs, task, lane>>
    BY <1>3 DEF CreateOpen
  <2>2. task[j] = "none" /\ \A i \in 1..Len(line) : line[i] # j
    BY <2>1 DEF LineInv
  <2>3. CASE crt' = [crt EXCEPT ![j] = "error"] /\ line' = line
    BY <2>1, <2>2, <2>3 DEF LaneTypes, LineInv, LaneInv
  <2>4. CASE crt' = [crt EXCEPT ![j] = "read"] /\ line' = Append(line, j)
    <3>1. LaneTypes' /\ LaneInv'
      BY <2>1, <2>4, JoinLine DEF LaneTypes, LaneInv
    <3>2. crt'[j] = "read" /\ \A k \in Jobs : k # j => crt'[k] = crt[k]
      BY <2>4 DEF LaneTypes
    <3>3. ASSUME NEW k \in Jobs, NEW i \in 1..Len(line'), line'[i] = k, k # j
          PROVE  /\ crt'[k] = "read" \/ task'[k] = "line"
                 /\ \A n \in 1..Len(line') : line'[n] = k => n = i
      <4>1. \A n \in 1..Len(line') : line'[n] = k => n \in 1..Len(line) /\ line[n] = k
        BY <2>4, <3>3, JoinLine DEF LaneTypes
      <4> QED
        BY <2>1, <3>2, <3>3, <4>1 DEF LineInv
    <3>4. \A i \in 1..Len(line') : line'[i] = j => i = Len(line) + 1
      BY <2>2, <2>4, JoinLine DEF LaneTypes
    <3>5. LineInv'
      BY <2>1, <2>2, <3>2, <3>3, <3>4 DEF LineInv
    <3> QED
      BY <3>1, <3>5
  <2> QED
    BY <1>3, <2>3, <2>4 DEF CreateOpen
<1>4. CASE CreateStore(j)
  <2>1. /\ crt[j] = "reading" /\ lane' = lane
        /\ crt' = [crt EXCEPT ![j] = "done"] /\ jobs' = [jobs EXCEPT ![j] = "queued"]
        /\ task' = [task EXCEPT ![j] = "line"] /\ line' = Append(line, j)
    BY <1>4 DEF CreateStore
  <2>2. task[j] = "none" /\ \A i \in 1..Len(line) : line[i] # j
    BY <2>1 DEF LineInv
  <2>3. LaneTypes'
    BY <2>1, JoinLine DEF LaneTypes
  <2>4. /\ crt'[j] = "done" /\ task'[j] = "line" /\ jobs'[j] = "queued"
        /\ \A k \in Jobs : k # j => crt'[k] = crt[k] /\ task'[k] = task[k] /\ jobs'[k] = jobs[k]
    BY <2>1 DEF LaneTypes
  <2>5. LaneInv'
    BY <2>1, <2>4 DEF LaneInv, OnLane
  <2>6. ASSUME NEW k \in Jobs, NEW i \in 1..Len(line'), line'[i] = k, k # j
        PROVE  /\ crt'[k] = "read" \/ task'[k] = "line"
               /\ \A n \in 1..Len(line') : line'[n] = k => n = i
    <3>1. \A n \in 1..Len(line') : line'[n] = k => n \in 1..Len(line) /\ line[n] = k
      BY <2>1, <2>6, JoinLine DEF LaneTypes
    <3> QED
      BY <2>4, <2>6, <3>1 DEF LineInv
  <2>7. \A i \in 1..Len(line') : line'[i] = j => i = Len(line) + 1
    BY <2>1, <2>2, JoinLine DEF LaneTypes
  <2>8. LineInv'
    BY <2>4, <2>6, <2>7 DEF LineInv
  <2> QED
    BY <2>3, <2>5, <2>8
<1> QED
  BY <1>1, <1>2, <1>3, <1>4 DEF CreateNext

\* A request joins the line; its place concerns no job.
LEMMA RequestLane ==
    ASSUME IInv, NEW r \in Requests, line' = Append(line, r),
           UNCHANGED <<jobs, crt, task, lane>>
    PROVE  IInv'
<1> USE DEF IInv
<1>1. LaneTypes' /\ LaneInv'
  BY JoinLine DEF LaneTypes, LaneInv
<1>2. ASSUME NEW k \in Jobs, NEW i \in 1..Len(line'), line'[i] = k
      PROVE  /\ crt'[k] = "read" \/ task'[k] = "line"
             /\ \A n \in 1..Len(line') : line'[n] = k => n = i
  <2>1. k # r
    BY VideoAssumption
  <2>2. \A n \in 1..Len(line') : line'[n] = k => n \in 1..Len(line) /\ line[n] = k
    BY <2>1, JoinLine DEF LaneTypes
  <2> QED
    BY <1>2, <2>2 DEF LineInv
<1>3. LineInv'
  BY <1>2 DEF LineInv
<1> QED
  BY <1>1, <1>3

\* Every step of _process_job and process_shorts; one case per action.
LEMMA WorkLane == ASSUME IInv, NEW j \in Jobs, Work(j)  PROVE IInv'
<1>1. jobs \in [Jobs -> {"none"} \cup Live \cup Terminal]
  BY DEF IInv, LaneTypes
<1>2. task[j] = "begin" => jobs[j] # "processing"
  BY DEF IInv, LaneInv
<1>3. CASE Begin(j)
  <2>1. CASE Present(j)
    <3>1. /\ jobs' = [jobs EXCEPT ![j] = "processing"] /\ task[j] = "begin"
          /\ task' = [task EXCEPT ![j] = "load"] /\ UNCHANGED <<crt, line, lane>>
      BY <1>3, <2>1 DEF Begin, Goto
    <3> QED
      BY <1>1, <3>1, LaneMoves DEF OnLane
  <2>2. CASE ~Present(j)
    <3>1. /\ jobs' = jobs /\ task[j] = "begin" /\ jobs[j] = "none"
          /\ task' = [task EXCEPT ![j] = "end"] /\ UNCHANGED <<crt, line, lane>>
      BY <1>3, <2>2 DEF Begin, Goto, Present
    <3> QED
      BY <1>1, <3>1, LaneMoves DEF OnLane
  <2> QED
    BY <2>1, <2>2
<1>4. CASE Load(j)
  <2>1. /\ jobs' = jobs /\ task[j] = "load" /\ UNCHANGED <<crt, line, lane>>
        /\ \/ task' = [task EXCEPT ![j] = "open"]
           \/ jobs[j] = "none" /\ task' = [task EXCEPT ![j] = "end"]
    BY <1>4 DEF Load, Goto, Present
  <2> QED
    BY <1>1, <2>1, LaneMoves DEF OnLane
<1>5. CASE Finish(j)
  <2>1. /\ task[j] = "finish" /\ UNCHANGED <<crt, line, lane>>
        /\ \/ /\ jobs' = [jobs EXCEPT ![j] = "completed"]
              /\ task' = [task EXCEPT ![j] = "end"]
           \/ jobs' = jobs /\ task' = [task EXCEPT ![j] = "failed"]
    BY <1>5 DEF Finish, Goto
  <2> QED
    BY <1>1, <2>1, LaneMoves DEF OnLane
<1>6. CASE Failed(j)
  <2>1. /\ task[j] = "failed" /\ UNCHANGED <<crt, line, lane>>
        /\ task' = [task EXCEPT ![j] = "end"]
        /\ \/ jobs' = [jobs EXCEPT ![j] = "failed"]
           \/ jobs' = [jobs EXCEPT ![j] = "none"]
    BY <1>6 DEF Failed, Goto
  <2> QED
    BY <1>1, <2>1, LaneMoves DEF OnLane
<1>7. CASE End(j)
  <2>1. /\ task[j] = "end" /\ lane' = NoJob /\ task' = [task EXCEPT ![j] = "done"]
        /\ UNCHANGED <<jobs, crt, line>>
    BY <1>7 DEF End, Goto
  <2>2. /\ lane = j /\ \A k \in Jobs : k # j => task[k] \notin OnLane
        /\ jobs[j] # "processing"
    BY <2>1 DEF IInv, LaneInv, OnLane
  <2>3. task'[j] = "done" /\ \A k \in Jobs : k # j => task'[k] = task[k]
    BY <2>1 DEF IInv, LaneTypes
  <2>4. LaneTypes'
    BY <2>1 DEF IInv, LaneTypes
  <2>5. LineInv'
    BY <2>1, <2>3 DEF IInv, LineInv
  <2>6. LaneInv'
    BY <2>1, <2>2, <2>3 DEF IInv, LaneInv, OnLane
  <2> QED
    BY <2>4, <2>5, <2>6 DEF IInv
<1>8. CASE \/ OpenOutput(j) \/ Track(j) \/ PrepareFails(j)
           \/ WriteScratch(j) \/ WriteScratchPartial(j) \/ ReportWritten(j)
           \/ StartRender(j) \/ Encoded(j) \/ RenderFails(j) \/ ReportEncoded(j)
           \/ Unwind(j) \/ Scrub(j)
  <2>1. /\ task[j] \in OnLane /\ UNCHANGED <<jobs, crt, line, lane>>
        /\ \E s \in OnLane \ {"begin", "end"} : task' = [task EXCEPT ![j] = s]
    BY <1>8 DEF OpenOutput, Track, PrepareFails, WriteScratch, WriteScratchPartial,
                ReportWritten, StartRender, Encoded, RenderFails, ReportEncoded,
                Unwind, Scrub, Goto, OnLane
  <2> QED
    BY <1>1, <2>1, LaneMoves
<1> QED
  BY <1>3, <1>4, <1>5, <1>6, <1>7, <1>8 DEF Work

\* One case per action, or per lemma above.
LEMMA LaneStep == IInv /\ [Next]_vars => IInv'
<1> SUFFICES ASSUME IInv, [Next]_vars  PROVE IInv'
  OBVIOUS
<1>0. jobs \in [Jobs -> {"none"} \cup Live \cup Terminal]
  BY DEF IInv, LaneTypes
<1>1. CASE Crash
  BY <1>1 DEF Crash, IInv, LaneTypes, LineInv, LaneInv, OnLane
<1>2. CASE Grant
  BY <1>2, GrantLane
<1>3. ASSUME NEW t \in Threads, PopExpired(t)  PROVE IInv'
  BY <1>0, <1>3, JobsGo DEF PopExpired
<1>4. ASSUME NEW t \in Threads, RemoveStep(t)  PROVE IInv'
  BY <1>4, Elsewhere DEF RemoveStep, RemoveNext, RemoveFile, RemoveDir
<1>5. CASE CreateClean
  BY <1>3, <1>5 DEF CreateClean, Threads
<1>6. ASSUME NEW j \in Jobs, Expire(j)  PROVE IInv'
  BY <1>6, Elsewhere DEF Expire
<1>7. ASSUME NEW j \in Jobs, TakeLane(j)  PROVE IInv'
  <2>1. /\ task[j] = "lane" /\ lane = NoJob /\ lane' = j
        /\ task' = [task EXCEPT ![j] = "begin"] /\ UNCHANGED <<jobs, crt, line>>
    BY <1>7 DEF TakeLane, Goto
  <2>2. /\ \A k \in Jobs : task[k] \notin OnLane
        /\ \A k \in Jobs : jobs[k] # "processing"
    BY <2>1, VideoAssumption DEF IInv, LaneInv
  <2>3. task'[j] = "begin" /\ \A k \in Jobs : k # j => task'[k] = task[k]
    BY <2>1 DEF IInv, LaneTypes
  <2>4. LaneTypes'
    BY <2>1 DEF IInv, LaneTypes
  <2>5. LineInv'
    BY <2>1, <2>3 DEF IInv, LineInv
  <2>6. LaneInv'
    BY <2>1, <2>2, <2>3 DEF LaneInv
  <2> QED
    BY <2>4, <2>5, <2>6 DEF IInv
<1>8. ASSUME NEW r \in Requests, RequestPoll(r) \/ RequestDelete(r)  PROVE IInv'
  BY <1>8, RequestLane DEF RequestPoll, RequestDelete
<1>9. ASSUME NEW r \in Requests, Serve(r)  PROVE IInv'
  <2>1. CASE Poll(r)
    BY <1>3, <2>1 DEF Poll, Threads
  <2>2. CASE Delete(r)
    <3>1. /\ jobs' = [jobs EXCEPT ![act[r].job] = "none"]
          /\ UNCHANGED <<crt, task, line, lane>>
      BY <2>2 DEF Delete
    <3> QED
      BY <1>0, <3>1, JobsGo
  <2>3. CASE DeleteRefused(r) \/ Answer(r)
    BY <2>3, Elsewhere DEF DeleteRefused, Answer
  <2>4. CASE RemoveStep(r)
    BY <1>4, <2>4 DEF Threads
  <2> QED
    BY <1>9, <2>1, <2>2, <2>3, <2>4 DEF Serve
<1>10. CASE UNCHANGED vars
  BY <1>10, Elsewhere DEF vars
<1> QED
  BY <1>1, <1>2, <1>4, <1>5, <1>6, <1>7, <1>8, <1>9, <1>10, CreateLane, WorkLane
     DEF Next, Threads

\* At any time at most one job says it is processing, and it is the one that has
\* the encoder: no failure, removal or restart leaves the word standing
\* (_run_job, _process_job).
THEOREM OneLane == Spec => []ProcessingHasLane
<1>1. IInv => ProcessingHasLane
  BY DEF IInv, LaneInv, ProcessingHasLane
<1> QED
  BY <1>1, LaneInit, LaneStep, PTL DEF Spec

-----------------------------------------------------------------------------
(* What is left on the disk *)

Encoding == {"encode", "encoded", "scrub", "finish"}
ToUnwind == {"encode", "encoded", "unwind", "unwindPartial"}

\* Thread t has taken job j out of _jobs, and will yet unlink its file f.
Removing(t, j) == j \in act[t].todo \/ (act[t].pc = "unlink" /\ act[t].job = j)
WillUnlink(t, j, f) ==
    j \in act[t].todo
      \/ (act[t].pc = "unlink" /\ act[t].job = j /\ f \in act[t].left)

\* A request waits for a thread in one place of the line, and whoever enters a
\* route has no job left to remove.
ThreadInv ==
    /\ \A t \in Threads :
         /\ act[t].pc = "idle" => act[t] = Idle
         /\ act[t].pc \in {"line", "enter"} => act[t].todo = {}
         /\ act[t].pc \in {"line", "enter"} /\ act[t].kind = "delete" => act[t].job \in Jobs
         /\ act[t].pc = "unlink" => act[t].job \in Jobs
    /\ \A r \in Requests : \A i \in 1..Len(line) : line[i] = r =>
         act[r].pc = "line" /\ \A k \in 1..Len(line) : line[k] = r => k = i

\* The status that a job shows tells how far its task is.
StatusInv(j) ==
    Present(j) =>
      /\ crt[j] = "done" /\ task[j] # "none"
      /\ task[j] \in {"line", "lane", "begin"} => jobs[j] = "queued"
      /\ task[j] \in OnLane \ {"begin", "end"} => jobs[j] = "processing"
      /\ task[j] \in {"end", "done"} => jobs[j] \in Terminal

\* Nobody removes the files of a job that is still in _jobs; of one that is not,
\* whatever was uploaded or encoded is about to be unlinked by someone.
FilesInv(j) ==
    /\ \A t \in Threads : Removing(t, j) => crt[j] = "done" /\ ~Present(j)
    /\ Present(j) /\ task[j] \in Encoding => "video" \in dirs[j]
    /\ jobs[j] = "completed" => "video" \in dirs[j]
    /\ crt[j] = "done" /\ ~Present(j) /\ "source" \in dirs[j] =>
         \E t \in Threads : WillUnlink(t, j, "source")
    /\ crt[j] = "done" /\ ~Present(j) /\ "video" \in dirs[j] =>
         task[j] \in ToUnwind \/ \E t \in Threads : WillUnlink(t, j, "video")

DiskInv ==
    /\ IInv /\ TypeOK /\ ThreadInv
    /\ \A j \in Jobs : StatusInv(j) /\ FilesInv(j)

-----------------------------------------------------------------------------
\* No directory exists at the start.
LEMMA DiskInit == Init => DiskInv
<1> SUFFICES ASSUME Init PROVE DiskInv
  OBVIOUS
<1>1. IInv
  BY LaneInit
<1>2. TypeOK
  BY DEF Init, TypeOK, ThreadState, Idle, Files
<1>3. ThreadInv
  BY DEF Init, ThreadInv, Idle
<1>4. \A j \in Jobs : StatusInv(j) /\ FilesInv(j)
  BY DEF Init, StatusInv, FilesInv, Present, Removing, Idle
<1> QED
  BY <1>1, <1>2, <1>3, <1>4 DEF DiskInv

\* A thread goes on with what it does.
LEMMA ThreadMoves ==
    ASSUME TypeOK, NEW t \in Threads, NEW a \in ThreadState, act' = [act EXCEPT ![t] = a]
    PROVE  /\ act' \in [Threads -> ThreadState] /\ act'[t] = a
           /\ \A u \in Threads : u # t => act'[u] = act[u]
  BY DEF TypeOK

\* A job that a step does not concern.
SameRemovals ==
    \A t \in Threads :
      /\ act'[t].todo = act[t].todo
      /\ act'[t] = act[t] \/ (act[t].pc # "unlink" /\ act'[t].pc # "unlink")

\* A step that leaves a job and its directory alone keeps what is said of them.
LEMMA JobUntouched ==
    ASSUME NEW k \in Jobs, StatusInv(k), FilesInv(k), SameRemovals,
           jobs'[k] = jobs[k], crt'[k] = crt[k], task'[k] = task[k], dirs'[k] = dirs[k]
    PROVE  StatusInv(k)' /\ FilesInv(k)'
<1>1. Present(k)' = Present(k)
  BY DEF Present
<1>2. ASSUME NEW t \in Threads
      PROVE  /\ Removing(t, k)' => Removing(t, k)
             /\ \A f \in Files : WillUnlink(t, k, f) => WillUnlink(t, k, f)'
  BY <1>2 DEF Removing, WillUnlink, SameRemovals
<1>3. StatusInv(k)'
  BY <1>1 DEF StatusInv
<1>4. FilesInv(k)'
  BY <1>1, <1>2 DEF FilesInv, Files
<1> QED
  BY <1>3, <1>4

\* What a step of a background task may do to its own job.
Does(j, s, x, d) ==
    /\ s \in OnLane \cup {"done"} /\ task[j] \in OnLane
    /\ task' = [task EXCEPT ![j] = s]
    /\ jobs' = [jobs EXCEPT ![j] = x]
    /\ dirs' = [dirs EXCEPT ![j] = d]
    /\ UNCHANGED <<crashes, expired, crt, act, line>> /\ lane' \in {lane, NoJob}

\* What a task does to the directory of its job.
LEMMA WorkDisk ==
    ASSUME DiskInv, IInv', NEW j \in Jobs, NEW s, NEW x, NEW d, Does(j, s, x, d),
           x \in {"none"} \cup Live \cup Terminal,
           d \in SUBSET (Files \cup {"dir"}),
           x = "none" <=> jobs[j] = "none",
           s # "begin",
           s \in OnLane \ {"begin", "end"} /\ x # "none" => x = "processing",
           s \in {"end", "done"} /\ x # "none" => x \in Terminal,
           x # "none" /\ (s \in Encoding \/ x = "completed") => "video" \in d,
           x = "none" => d \intersect {"source"} \subseteq dirs[j],
           x = "none" /\ "video" \in d =>
             \/ s \in ToUnwind
             \/ "video" \in dirs[j] /\ task[j] \notin ToUnwind
    PROVE  DiskInv'
<1>1. /\ task'[j] = s /\ jobs'[j] = x /\ dirs'[j] = d
      /\ \A k \in Jobs : k # j => task'[k] = task[k] /\ jobs'[k] = jobs[k] /\ dirs'[k] = dirs[k]
      /\ UNCHANGED <<crashes, expired, crt, act, line>>
  BY DEF DiskInv, TypeOK, Does
<1>2. TypeOK'
  BY DEF DiskInv, TypeOK, Does, OnLane
<1>3. ThreadInv'
  BY <1>1 DEF DiskInv, ThreadInv
<1>4. SameRemovals
  BY <1>1 DEF SameRemovals
<1>5. ASSUME NEW k \in Jobs, k # j PROVE StatusInv(k)' /\ FilesInv(k)'
  BY <1>1, <1>4, <1>5, JobUntouched DEF DiskInv
<1>6. StatusInv(j) /\ FilesInv(j)
  BY DEF DiskInv
<1>7. Present(j)' = Present(j)
  BY <1>1 DEF Present
<1>8. StatusInv(j)'
  BY <1>1, <1>6, <1>7 DEF StatusInv, Does, Present, OnLane
<1>9. ASSUME NEW t \in Threads
      PROVE  /\ Removing(t, j)' => Removing(t, j)
             /\ \A f \in Files : WillUnlink(t, j, f) => WillUnlink(t, j, f)'
  BY <1>1 DEF Removing, WillUnlink
<1>10. FilesInv(j)'
  BY <1>1, <1>6, <1>7, <1>9 DEF FilesInv, Present, Files
<1> QED
  BY <1>2, <1>3, <1>5, <1>8, <1>10 DEF DiskInv

\* The steps of a task.
LEMMA WorkKeeps == ASSUME DiskInv, IInv', NEW j \in Jobs, Work(j) PROVE DiskInv'
<1> USE DEF OnLane, Encoding, ToUnwind, Files
<1> DEFINE Step(s, x, d) ==
      /\ task' = [task EXCEPT ![j] = s] /\ jobs' = [jobs EXCEPT ![j] = x]
      /\ dirs' = [dirs EXCEPT ![j] = d]
      /\ UNCHANGED <<crashes, expired, crt, act, line>> /\ lane' \in {lane, NoJob}
<1>1. /\ jobs = [jobs EXCEPT ![j] = jobs[j]] /\ dirs = [dirs EXCEPT ![j] = dirs[j]]
      /\ jobs[j] \in {"none"} \cup Live \cup Terminal
      /\ dirs[j] \in SUBSET (Files \cup {"dir"})
      /\ StatusInv(j) /\ FilesInv(j)
  BY DEF DiskInv, TypeOK
<1>2. CASE Begin(j) \/ Load(j)
  <2>1. PICK s, x :
          /\ Step(s, x, dirs[j])
          /\ \/ task[j] = "begin" /\ jobs[j] # "none" /\ x = "processing" /\ s = "load"
             \/ task[j] = "begin" /\ jobs[j] = "none" /\ x = "none" /\ s = "end"
             \/ task[j] = "load" /\ jobs[j] # "none" /\ x = jobs[j] /\ s = "open"
             \/ task[j] = "load" /\ jobs[j] = "none" /\ x = "none" /\ s = "end"
    BY <1>1, <1>2 DEF Begin, Load, Goto, Present
  <2> QED
    BY <1>1, <2>1, WorkDisk DEF Does, StatusInv, FilesInv, Present
<1>3. CASE Finish(j) \/ Failed(j) \/ End(j)
  <2>1. PICK s, x :
          /\ Step(s, x, dirs[j])
          /\ \/ task[j] = "finish" /\ jobs[j] # "none" /\ x = "completed" /\ s = "end"
             \/ task[j] = "finish" /\ jobs[j] = "none" /\ x = "none" /\ s = "failed"
             \/ task[j] = "failed" /\ jobs[j] # "none" /\ x = "failed" /\ s = "end"
             \/ task[j] = "failed" /\ jobs[j] = "none" /\ x = "none" /\ s = "end"
             \/ task[j] = "end" /\ x = jobs[j] /\ s = "done"
    BY <1>1, <1>3 DEF Finish, Failed, End, Goto, Present
  <2> QED
    BY <1>1, <2>1, WorkDisk DEF Does, StatusInv, FilesInv, Present
<1>4. CASE OpenOutput(j) \/ WriteScratch(j) \/ WriteScratchPartial(j) \/ StartRender(j)
  <2>1. PICK s, f :
          /\ Step(s, jobs[j], dirs[j] \cup {f})
          /\ \/ task[j] = "open" /\ s = "track" /\ f = "dir"
             \/ task[j] = "prepare" /\ s \in {"written", "unwindPartial"} /\ f = "scratch"
             \/ task[j] = "render" /\ s = "encode" /\ f = "video"
    BY <1>1, <1>4 DEF OpenOutput, WriteScratch, WriteScratchPartial, StartRender, Goto
  <2> QED
    BY <1>1, <2>1, WorkDisk DEF Does, StatusInv, FilesInv, Present
<1>5. CASE Unwind(j) \/ Scrub(j)
  <2>1. PICK s, f :
          /\ Step(s, jobs[j], dirs[j] \ {f})
          /\ \/ /\ task[j] \in {"unwind", "unwindPartial"}
                /\ s \in {"scrubFailed", "failed"} /\ f = "video"
             \/ task[j] = "scrub" /\ s = "finish" /\ f = "scratch"
             \/ task[j] = "scrubFailed" /\ s = "failed" /\ f = "scratch"
    BY <1>1, <1>5 DEF Unwind, Scrub, Goto
  <2> QED
    BY <1>1, <2>1, WorkDisk DEF Does, StatusInv, FilesInv, Present
<1>6. CASE Track(j) \/ PrepareFails(j) \/ ReportWritten(j) \/ Encoded(j)
             \/ RenderFails(j) \/ ReportEncoded(j)
  <2>1. PICK s :
          /\ Step(s, jobs[j], dirs[j])
          /\ \/ /\ task[j] \in {"open", "track", "written", "prepare", "render"}
                /\ s \in {"prepare", "failed", "render", "unwind"}
             \/ task[j] = "encode" /\ s \in {"encoded", "unwind"}
             \/ task[j] = "encoded" /\ jobs[j] # "none" /\ s = "scrub"
             \/ task[j] = "encoded" /\ jobs[j] = "none" /\ s = "unwind"
    BY <1>1, <1>6 DEF Track, PrepareFails, ReportWritten, Encoded, RenderFails,
                      ReportEncoded, Goto, Present
  <2> QED
    BY <1>1, <2>1, WorkDisk DEF Does, StatusInv, FilesInv, Present
<1> QED
  BY <1>2, <1>3, <1>4, <1>5, <1>6 DEF Work

-----------------------------------------------------------------------------
(* Removals *)

\* The jobs of gone are taken out, and thread t has them to remove.
LEMMA TakenOut ==
    ASSUME DiskInv, IInv', NEW t \in Threads, NEW gone \in SUBSET Jobs,
           \A j \in gone : Present(j),
           jobs' = [j \in Jobs |-> IF j \in gone THEN "none" ELSE jobs[j]],
           act[t].pc = "enter", act' \in [Threads -> ThreadState],
           act'[t].pc = "next", act'[t].todo = gone,
           \A u \in Threads : u # t => act'[u] = act[u],
           UNCHANGED <<crashes, dirs, expired, crt, task, line, lane>>
    PROVE  DiskInv'
<1>1. TypeOK'
  BY DEF DiskInv, TypeOK
<1>2. ThreadInv'
  <2>1. \A u \in Threads : act'[u] = act[u] \/ act'[u].pc = "next"
    OBVIOUS
  <2>2. \A r \in Requests : act[r].pc = "line" => act'[r] = act[r]
    BY DEF Threads
  <2> QED
    BY <2>1, <2>2 DEF DiskInv, ThreadInv
<1>3. act[t].todo = {}
  BY DEF DiskInv, ThreadInv
<1>4. ASSUME NEW k \in Jobs PROVE StatusInv(k)' /\ FilesInv(k)'
  <2>1. StatusInv(k) /\ FilesInv(k)
    BY DEF DiskInv
  <2>2. /\ k \in gone => Present(k) /\ ~Present(k)'
        /\ k \notin gone => jobs'[k] = jobs[k] /\ Present(k)' = Present(k)
    BY DEF Present
  <2>3. ASSUME NEW u \in Threads
        PROVE  /\ Removing(u, k)' => Removing(u, k) \/ (u = t /\ k \in gone)
               /\ \A f \in Files : WillUnlink(u, k, f) => WillUnlink(u, k, f)'
    BY <1>3, <2>3 DEF Removing, WillUnlink
  <2>5. StatusInv(k)'
    BY <2>1, <2>2 DEF StatusInv
  <2>6. jobs'[k] = "completed" => jobs[k] = "completed"
    BY <2>2 DEF Present
  <2>7. CASE k \in gone
    <3>1. jobs'[k] = "none" /\ crt'[k] = "done" /\ ~Present(k)'
      BY <2>1, <2>2, <2>7 DEF StatusInv, Present
    <3>2. WillUnlink(t, k, "source")' /\ WillUnlink(t, k, "video")'
      BY <2>7 DEF WillUnlink
    <3> QED
      BY <2>5, <3>1, <3>2 DEF FilesInv
  <2>8. CASE k \notin gone
    BY <2>1, <2>2, <2>3, <2>5, <2>8 DEF FilesInv, Files
  <2> QED
    BY <2>5, <2>7, <2>8
<1> QED
  BY <1>1, <1>2, <1>4 DEF DiskInv

\* A cleanup takes expired jobs out.
LEMMA PopDisk ==
    ASSUME DiskInv, IInv', NEW t \in Threads, act[t].pc = "enter", PopExpired(t)
    PROVE  DiskInv'
<1> DEFINE gone == {j \in Jobs : Present(j) /\ j \in expired}
           a == [act[t] EXCEPT !.pc = "next", !.todo = gone]
<1>1. act' = [act EXCEPT ![t] = a] /\ a \in ThreadState
  BY DEF PopExpired, ThreadState, DiskInv, TypeOK
<1>2. a.pc = "next" /\ a.todo = gone
  BY DEF ThreadState, DiskInv, TypeOK
<1>3. /\ act' \in [Threads -> ThreadState] /\ act'[t] = a
      /\ \A u \in Threads : u # t => act'[u] = act[u]
  BY <1>1, ThreadMoves DEF DiskInv
<1>4. /\ jobs' = [j \in Jobs |-> IF j \in gone THEN "none" ELSE jobs[j]]
      /\ UNCHANGED <<crashes, dirs, expired, crt, task, line, lane>>
  BY DEF PopExpired
<1>5. gone \in SUBSET Jobs /\ \A j \in gone : Present(j)
  OBVIOUS
<1> HIDE DEF gone, a
<1> QED
  BY <1>2, <1>3, <1>4, <1>5, TakenOut

\* A deletion takes its job out.
LEMMA DeleteDisk ==
    ASSUME DiskInv, IInv', NEW r \in Requests, Delete(r) PROVE DiskInv'
<1> DEFINE j == act[r].job
           a == [act[r] EXCEPT !.pc = "next", !.todo = {j}]
<1>1. r \in Threads /\ act[r].pc = "enter" /\ act[r].kind = "delete"
      /\ act[r] \in ThreadState
  BY DEF Threads, Delete, DiskInv, TypeOK
<1>2. j \in Jobs /\ jobs[j] \in Terminal
  BY <1>1 DEF Delete, DiskInv, ThreadInv
<1>3. act' = [act EXCEPT ![r] = a] /\ a \in ThreadState
  BY <1>1, <1>2 DEF Delete, ThreadState, DiskInv, TypeOK
<1>4. a.pc = "next" /\ a.todo = {j}
  BY <1>1 DEF ThreadState
<1>5. /\ act' \in [Threads -> ThreadState] /\ act'[r] = a
      /\ \A u \in Threads : u # r => act'[u] = act[u]
  BY <1>1, <1>3, ThreadMoves DEF DiskInv
<1>6. /\ jobs' = [k \in Jobs |-> IF k \in {j} THEN "none" ELSE jobs[k]]
      /\ UNCHANGED <<crashes, dirs, expired, crt, task, line, lane>>
  BY DEF Delete, DiskInv, TypeOK
<1>7. {j} \in SUBSET Jobs /\ \A k \in {j} : Present(k)
  BY <1>2 DEF Present
<1> HIDE DEF j, a
<1> QED
  BY <1>1, <1>4, <1>5, <1>6, <1>7, TakenOut

\* A step of rmtree: the files it will not unlink any more are gone.
Unlinks(t, j, d) ==
    /\ Removing(t, j) /\ d \subseteq dirs[j] /\ dirs' = [dirs EXCEPT ![j] = d]
    /\ act[t].pc \in {"next", "unlink"} /\ act'[t].pc \in {"next", "unlink"}
    /\ act'[t].pc = "unlink" => act'[t].job \in Jobs
    /\ act' \in [Threads -> ThreadState]
    /\ \A u \in Threads : u # t => act'[u] = act[u]
    /\ UNCHANGED <<crashes, jobs, expired, crt, task, line, lane>>

\* A step of a removal unlinks some of what it has still to unlink.
LEMMA RemovedDisk ==
    ASSUME DiskInv, IInv', NEW t \in Threads, NEW j \in Jobs, NEW d, Unlinks(t, j, d),
           \A k \in Jobs : Removing(t, k)' => Removing(t, k),
           \A k \in Jobs, f \in {"source", "video"} :
             WillUnlink(t, k, f) => WillUnlink(t, k, f)' \/ (k = j /\ f \notin d)
    PROVE  DiskInv'
<1> USE DEF Unlinks
<1>1. dirs'[j] = d /\ (\A k \in Jobs : k # j => dirs'[k] = dirs[k])
      /\ d \in SUBSET (Files \cup {"dir"})
  BY DEF DiskInv, TypeOK
<1>2. TypeOK'
  BY <1>1 DEF DiskInv, TypeOK
<1>3. ThreadInv'
  <2>1. \A u \in Threads : \/ act'[u] = act[u]
                           \/ /\ act'[u].pc \in {"next", "unlink"}
                              /\ act'[u].pc = "unlink" => act'[u].job \in Jobs
    OBVIOUS
  <2>2. \A r \in Requests : act[r].pc = "line" => act'[r] = act[r]
    BY DEF Threads
  <2> QED
    BY <2>1, <2>2 DEF DiskInv, ThreadInv
<1>4. ASSUME NEW k \in Jobs PROVE StatusInv(k)' /\ FilesInv(k)'
  <2>1. StatusInv(k) /\ FilesInv(k)
    BY DEF DiskInv
  <2>2. Present(k)' = Present(k)
    BY DEF Present
  <2>3. StatusInv(k)'
    BY <2>1, <2>2 DEF StatusInv
  <2>4. dirs'[k] \subseteq dirs[k] /\ (k # j => dirs'[k] = dirs[k])
    BY <1>1
  <2>5. k = j => ~Present(k) /\ crt[k] = "done"
    BY <2>1 DEF FilesInv
  <2>6. ASSUME NEW u \in Threads
        PROVE  /\ Removing(u, k)' => Removing(u, k)
               /\ \A f \in {"source", "video"} :
                    WillUnlink(u, k, f) /\ f \in dirs'[k] => WillUnlink(u, k, f)'
    <3>1. CASE u = t
      BY <1>1, <3>1
    <3>2. CASE u # t
      BY <3>2 DEF Removing, WillUnlink
    <3> QED
      BY <3>1, <3>2
  <2>7. jobs[k] = "completed" => Present(k)
    BY DEF Present
  <2>8. FilesInv(k)'
    BY <2>1, <2>2, <2>4, <2>5, <2>6, <2>7 DEF FilesInv
  <2> QED
    BY <2>3, <2>8
<1> QED
  BY <1>2, <1>3, <1>4 DEF DiskInv

\* The steps of a removal.
LEMMA RemoveDisk ==
    ASSUME DiskInv, IInv', NEW t \in Threads, RemoveStep(t) PROVE DiskInv'
<1>1. act[t] \in ThreadState /\ TypeOK
  BY DEF DiskInv, TypeOK
<1>2. CASE RemoveNext(t)
  <2>1. PICK j \in act[t].todo :
          act' = [act EXCEPT ![t].todo = @ \ {j},
                             ![t].pc = IF dirs[j] = {} THEN "next" ELSE "unlink",
                             ![t].job = j,
                             ![t].left = dirs[j] \ {"dir"}]
    BY <1>2 DEF RemoveNext
  <2> DEFINE pc == IF dirs[j] = {} THEN "next" ELSE "unlink"
             a == [act[t] EXCEPT !.todo = @ \ {j}, !.pc = pc, !.job = j,
                                 !.left = dirs[j] \ {"dir"}]
  <2>2. j \in Jobs /\ dirs[j] \ {"dir"} \in SUBSET Files /\ pc \in {"next", "unlink"}
    BY <1>1 DEF ThreadState, TypeOK
  <2>3. /\ a \in ThreadState /\ a.pc = pc /\ a.job = j /\ a.left = dirs[j] \ {"dir"}
        /\ a.todo = act[t].todo \ {j}
    BY <1>1, <2>2 DEF ThreadState
  <2>4. act' = [act EXCEPT ![t] = a]
    BY <2>1 DEF DiskInv, TypeOK
  <2>5. /\ act' \in [Threads -> ThreadState] /\ act'[t] = a
        /\ \A u \in Threads : u # t => act'[u] = act[u]
    BY <1>1, <2>3, <2>4, ThreadMoves
  <2>6. act[t].pc = "next" /\ dirs' = [dirs EXCEPT ![j] = dirs[j]]
        /\ UNCHANGED <<crashes, jobs, expired, crt, task, line, lane>>
    BY <1>2, <1>1 DEF RemoveNext, TypeOK
  <2>7. Removing(t, j) /\ (\A k \in Jobs : Removing(t, k)' => Removing(t, k))
    <3>1. j \in act[t].todo /\ act'[t].todo = act[t].todo \ {j} /\ act'[t].job = j
      BY <1>1, <2>3, <2>5
    <3> QED
      BY <3>1 DEF Removing
  <2>8. ASSUME NEW k \in Jobs, NEW f \in {"source", "video"}, WillUnlink(t, k, f)
        PROVE  WillUnlink(t, k, f)' \/ (k = j /\ f \notin dirs[j])
    BY <2>3, <2>5, <2>6, <2>8 DEF WillUnlink
  <2>9. PICK d : d = dirs[j]
    OBVIOUS
  <2>10. Unlinks(t, j, d)
    BY <2>2, <2>3, <2>5, <2>6, <2>7, <2>9 DEF Unlinks
  <2> HIDE DEF a, pc
  <2> QED
    BY <2>2, <2>7, <2>8, <2>9, <2>10, RemovedDisk
<1>3. CASE RemoveFile(t)
  <2>1. PICK f \in act[t].left, j \in Jobs :
          /\ dirs' = [dirs EXCEPT ![j] = @ \ {f}]
          /\ act' = [act EXCEPT ![t].left = @ \ {f}]
          /\ act[t].pc = "unlink" /\ act[t].job = j
          /\ UNCHANGED <<crashes, jobs, expired, crt, task, line, lane>>
    BY <1>3 DEF RemoveFile, DiskInv, ThreadInv
  <2> DEFINE a == [act[t] EXCEPT !.left = @ \ {f}]
  <2>2. /\ act' = [act EXCEPT ![t] = a] /\ a \in ThreadState
        /\ a.pc = "unlink" /\ a.left = act[t].left \ {f} /\ a.todo = act[t].todo
        /\ a.job = j
    BY <1>1, <2>1 DEF ThreadState, TypeOK
  <2>3. /\ act' \in [Threads -> ThreadState] /\ act'[t] = a
        /\ \A u \in Threads : u # t => act'[u] = act[u]
    BY <1>1, <2>2, ThreadMoves
  <2>4. PICK d : d = dirs[j] \ {f}
    OBVIOUS
  <2>5. Removing(t, j) /\ (\A k \in Jobs : Removing(t, k)' => Removing(t, k))
    BY <2>1, <2>2, <2>3 DEF Removing
  <2>6. ASSUME NEW k \in Jobs, NEW g \in {"source", "video"}, WillUnlink(t, k, g)
        PROVE  WillUnlink(t, k, g)' \/ (k = j /\ g \notin d)
    BY <2>1, <2>2, <2>3, <2>4, <2>6 DEF WillUnlink
  <2>7. Unlinks(t, j, d)
    BY <2>1, <2>2, <2>3, <2>4, <2>5 DEF Unlinks
  <2> HIDE DEF a
  <2> QED
    BY <2>5, <2>6, <2>7, RemovedDisk
<1>4. CASE RemoveDir(t)
  <2>1. PICK j \in Jobs :
          /\ dirs' = [dirs EXCEPT ![j] = IF @ = {"dir"} THEN {} ELSE @]
          /\ act' = [act EXCEPT ![t].pc = "next", ![t].job = NoJob]
          /\ act[t].pc = "unlink" /\ act[t].job = j /\ act[t].left = {}
          /\ UNCHANGED <<crashes, jobs, expired, crt, task, line, lane>>
    BY <1>4 DEF RemoveDir, DiskInv, ThreadInv
  <2> DEFINE a == [act[t] EXCEPT !.pc = "next", !.job = NoJob]
  <2>2. /\ act' = [act EXCEPT ![t] = a] /\ a \in ThreadState
        /\ a.pc = "next" /\ a.todo = act[t].todo
    BY <1>1, <2>1 DEF ThreadState, TypeOK
  <2>3. /\ act' \in [Threads -> ThreadState] /\ act'[t] = a
        /\ \A u \in Threads : u # t => act'[u] = act[u]
    BY <1>1, <2>2, ThreadMoves
  <2>4. PICK d : d = IF dirs[j] = {"dir"} THEN {} ELSE dirs[j]
    OBVIOUS
  <2>5. Removing(t, j) /\ (\A k \in Jobs : Removing(t, k)' => Removing(t, k))
    BY <2>1, <2>2, <2>3 DEF Removing
  <2>6. ASSUME NEW k \in Jobs, NEW g \in {"source", "video"}, WillUnlink(t, k, g)
        PROVE  WillUnlink(t, k, g)'
    BY <2>1, <2>2, <2>3, <2>6 DEF WillUnlink
  <2>7. Unlinks(t, j, d)
    BY <2>1, <2>2, <2>3, <2>4, <2>5 DEF Unlinks
  <2> HIDE DEF a
  <2> QED
    BY <2>5, <2>6, <2>7, RemovedDisk
<1> QED
  BY <1>2, <1>3, <1>4 DEF RemoveStep

-----------------------------------------------------------------------------
(* Requests, the pool and the create route *)

\* A step that concerns one job at most, and takes nothing out.
LEMMA OneJob ==
    ASSUME DiskInv, IInv', TypeOK', ThreadInv', SameRemovals, NEW j,
           \A k \in Jobs : k # j => /\ jobs'[k] = jobs[k] /\ crt'[k] = crt[k]
                                    /\ task'[k] = task[k] /\ dirs'[k] = dirs[k],
           j \in Jobs => StatusInv(j)' /\ FilesInv(j)'
    PROVE  DiskInv'
  BY JobUntouched DEF DiskInv

\* A step that leaves jobs, tasks, directories and removals alone.
LEMMA NoJobAtAll ==
    ASSUME DiskInv, IInv', TypeOK', ThreadInv', SameRemovals,
           UNCHANGED <<jobs, crt, task, dirs>>
    PROVE  DiskInv'
  BY JobUntouched DEF DiskInv

\* A thread that removes nothing goes where it will not either.
LEMMA ThreadQuiet ==
    ASSUME DiskInv, NEW t \in Threads, NEW a \in ThreadState, act' = [act EXCEPT ![t] = a],
           act[t].pc # "unlink", a.pc # "unlink", a.todo = act[t].todo
    PROVE  /\ act' \in [Threads -> ThreadState] /\ act'[t] = a /\ SameRemovals
           /\ \A u \in Threads : u # t => act'[u] = act[u]
<1>1. /\ act' \in [Threads -> ThreadState] /\ act'[t] = a
      /\ \A u \in Threads : u # t => act'[u] = act[u]
  BY ThreadMoves DEF DiskInv
<1> QED
  BY <1>1 DEF SameRemovals

\* The thread of a request that is over.
LEMMA IdleThread == Idle \in ThreadState /\ Idle.pc = "idle" /\ Idle.todo = {}
  BY DEF Idle, ThreadState

\* A request gets its answer.
LEMMA AnsweredDisk ==
    ASSUME DiskInv, IInv', NEW r \in Requests, DeleteRefused(r) \/ Answer(r)
    PROVE  DiskInv'
<1>1. /\ r \in Threads /\ act' = [act EXCEPT ![r] = Idle]
      /\ act[r].pc \in {"enter", "next"} /\ act[r].todo = {}
      /\ UNCHANGED <<crashes, jobs, dirs, expired, crt, task, line, lane>>
  BY DEF DeleteRefused, Answer, Threads, DiskInv, ThreadInv
<1>2. /\ act' \in [Threads -> ThreadState] /\ act'[r] = Idle /\ SameRemovals
      /\ \A u \in Threads : u # r => act'[u] = act[u]
  BY <1>1, ThreadQuiet, IdleThread
<1>3. TypeOK'
  BY <1>1, <1>2 DEF DiskInv, TypeOK
<1>4. ThreadInv'
  BY <1>1, <1>2, IdleThread DEF DiskInv, ThreadInv, Threads
<1> QED
  BY <1>1, <1>2, <1>3, <1>4, NoJobAtAll

\* A request joins the line.
LEMMA RequestDisk ==
    ASSUME DiskInv, IInv', NEW r \in Requests, RequestPoll(r) \/ RequestDelete(r)
    PROVE  DiskInv'
<1>1. r \in Threads /\ act[r] = Idle /\ act[r].pc = "idle" /\ act[r].todo = {}
  BY IdleThread DEF Threads, DiskInv, ThreadInv, RequestPoll, RequestDelete
<1>2. PICK a \in ThreadState :
        /\ act' = [act EXCEPT ![r] = a] /\ a.pc = "line" /\ a.todo = {}
        /\ a.kind = "delete" => a.job \in Jobs
  <2>1. CASE RequestPoll(r)
    <3> DEFINE a == [act[r] EXCEPT !.pc = "line"]
    <3>1. act' = [act EXCEPT ![r] = a]
      BY <2>1 DEF RequestPoll, DiskInv, TypeOK
    <3>2. a \in ThreadState /\ a.pc = "line" /\ a.todo = {} /\ a.kind = "poll"
      BY <1>1, IdleThread DEF ThreadState, Idle
    <3> QED
      BY <3>1, <3>2
  <2>2. CASE RequestDelete(r)
    <3>1. PICK j \in Jobs :
            act' = [act EXCEPT ![r] = [Idle EXCEPT !.pc = "line", !.kind = "delete", !.job = j]]
      BY <2>2 DEF RequestDelete
    <3> DEFINE a == [Idle EXCEPT !.pc = "line", !.kind = "delete", !.job = j]
    <3>2. a \in ThreadState /\ a.pc = "line" /\ a.todo = {} /\ a.job = j
      BY DEF ThreadState, Idle
    <3> QED
      BY <3>1, <3>2
  <2> QED
    BY <2>1, <2>2
<1>3. /\ line' = Append(line, r) /\ line \in Seq(Jobs \cup Requests)
      /\ UNCHANGED <<crashes, jobs, dirs, expired, crt, task, lane>>
  BY DEF RequestPoll, RequestDelete, DiskInv, TypeOK
<1>4. /\ act' \in [Threads -> ThreadState] /\ act'[r] = a /\ SameRemovals
      /\ \A u \in Threads : u # r => act'[u] = act[u]
  BY <1>1, <1>2, ThreadQuiet
<1>5. /\ line' \in Seq(Jobs \cup Requests) /\ Len(line') = Len(line) + 1
      /\ Len(line) \in Nat /\ line'[Len(line) + 1] = r
      /\ \A i \in 1..Len(line) : line'[i] = line[i]
  BY <1>3, AppendProperties
<1>6. TypeOK'
  BY <1>3, <1>4, <1>5 DEF DiskInv, TypeOK
<1>7. ThreadInv'
  <2>1. \A i \in 1..Len(line) : line[i] # r
    BY <1>1 DEF DiskInv, ThreadInv
  <2>2. ASSUME NEW q \in Requests, NEW i \in 1..Len(line'), line'[i] = q
        PROVE  act'[q].pc = "line" /\ \A k \in 1..Len(line') : line'[k] = q => k = i
    <3>1. CASE q = r
      BY <1>2, <1>4, <1>5, <2>1, <2>2, <3>1
    <3>2. CASE q # r
      <4>1. i \in 1..Len(line) /\ line[i] = q /\ q \in Threads
        BY <1>5, <2>2, <3>2 DEF Threads
      <4>2. act'[q].pc = "line" /\ \A k \in 1..Len(line) : line[k] = q => k = i
        BY <1>4, <3>2, <4>1 DEF DiskInv, ThreadInv
      <4> QED
        BY <1>5, <3>2, <4>1, <4>2
    <3> QED
      BY <3>1, <3>2
  <2>3. ASSUME NEW t \in Threads
        PROVE  /\ act'[t].pc = "idle" => act'[t] = Idle
               /\ act'[t].pc \in {"line", "enter"} => act'[t].todo = {}
               /\ act'[t].pc \in {"line", "enter"} /\ act'[t].kind = "delete" =>
                    act'[t].job \in Jobs
               /\ act'[t].pc = "unlink" => act'[t].job \in Jobs
    BY <1>2, <1>4 DEF DiskInv, ThreadInv
  <2> QED
    BY <2>2, <2>3 DEF ThreadInv
<1> QED
  BY <1>3, <1>4, <1>6, <1>7, NoJobAtAll

\* The pool takes the head of the line.
LEMMA GrantDisk == ASSUME DiskInv, IInv', Grant PROVE DiskInv'
<1> DEFINE x == Head(line)
<1>1. /\ line \in Seq(Jobs \cup Requests) /\ line # <<>> /\ line' = Tail(line)
      /\ UNCHANGED <<crashes, jobs, dirs, expired, lane>>
  BY DEF Grant, DiskInv, TypeOK
<1>2. /\ Len(line) \in Nat \ {0} /\ x = line[1] /\ x \in Jobs \cup Requests
      /\ line' \in Seq(Jobs \cup Requests)
      /\ Len(line') = Len(line) - 1
      /\ \A i \in 1..Len(line') : line'[i] = line[i + 1]
  BY <1>1, HeadTailProperties
<1>3. ASSUME NEW r \in Requests, NEW i \in 1..Len(line'), line'[i] = r
      PROVE  /\ r # x /\ act[r].pc = "line"
             /\ \A k \in 1..Len(line') : line'[k] = r => k = i
  <2>1. i + 1 \in 1..Len(line) /\ line[i + 1] = r
    BY <1>2, <1>3
  <2>2. /\ act[r].pc = "line" /\ \A k \in 1..Len(line) : line[k] = r => k = i + 1
    BY <2>1 DEF DiskInv, ThreadInv
  <2>3. r # x
    BY <1>2, <2>2
  <2>4. ASSUME NEW k \in 1..Len(line'), line'[k] = r  PROVE k = i
    <3>1. k + 1 \in 1..Len(line) /\ line[k + 1] = r
      BY <1>2, <2>4
    <3> QED
      BY <2>2, <3>1
  <2> QED
    BY <2>2, <2>3, <2>4
<1>4. PICK h : h = x
  OBVIOUS
<1>5. CASE h \in Requests
  <2> DEFINE a == [act[h] EXCEPT !.pc = "enter"]
  <2>1. /\ h \in Threads /\ act[h].pc = "line" /\ act[h].todo = {}
        /\ act[h] \in ThreadState
        /\ act[h].kind = "delete" => act[h].job \in Jobs
    BY <1>2, <1>4, <1>5 DEF DiskInv, ThreadInv, TypeOK, Threads
  <2>2. act' = [act EXCEPT ![h] = a] /\ UNCHANGED <<crt, task>>
    BY <1>4, <1>5, <2>1 DEF Grant, DiskInv, TypeOK
  <2>3. /\ a \in ThreadState /\ a.pc = "enter" /\ a.todo = {} /\ a.kind = act[h].kind
        /\ a.job = act[h].job
    BY <2>1 DEF ThreadState
  <2>4. /\ act' \in [Threads -> ThreadState] /\ act'[h] = a /\ SameRemovals
        /\ \A u \in Threads : u # h => act'[u] = act[u]
    BY <2>1, <2>2, <2>3, ThreadQuiet
  <2>5. TypeOK'
    BY <1>1, <1>2, <2>2, <2>4 DEF DiskInv, TypeOK
  <2>6. ASSUME NEW t \in Threads
        PROVE  /\ act'[t].pc = "idle" => act'[t] = Idle
               /\ act'[t].pc \in {"line", "enter"} => act'[t].todo = {}
               /\ act'[t].pc \in {"line", "enter"} /\ act'[t].kind = "delete" =>
                    act'[t].job \in Jobs
               /\ act'[t].pc = "unlink" => act'[t].job \in Jobs
    <3>1. CASE t = h
      BY <2>1, <2>3, <2>4, <3>1
    <3>2. CASE t # h
      BY <2>4, <3>2 DEF DiskInv, ThreadInv
    <3> QED
      BY <3>1, <3>2
  <2>7. \A r \in Requests : r # h => act'[r] = act[r]
    BY <2>4 DEF Threads
  <2>8. ThreadInv'
    BY <1>3, <1>4, <2>6, <2>7 DEF ThreadInv
  <2> QED
    BY <1>1, <2>2, <2>4, <2>5, <2>8, NoJobAtAll
<1>6. CASE h \notin Requests
  <2>1. /\ h \in Jobs /\ act' = act
        /\ \/ crt[h] = "read" /\ crt' = [crt EXCEPT ![h] = "reading"] /\ task' = task
           \/ crt[h] # "read" /\ task' = [task EXCEPT ![h] = "lane"] /\ crt' = crt
    BY <1>2, <1>4, <1>6 DEF Grant
  <2>2. crt[h] = "read" \/ task[h] = "line"
    BY <1>2, <1>4, <2>1 DEF DiskInv, IInv, LineInv
  <2>3. TypeOK' /\ SameRemovals
    BY <1>1, <1>2, <2>1 DEF DiskInv, TypeOK, SameRemovals
  <2>4. ThreadInv'
    BY <1>3, <2>1 DEF DiskInv, ThreadInv
  <2>5. /\ \A k \in Jobs : k # h => crt'[k] = crt[k] /\ task'[k] = task[k]
        /\ \/ crt'[h] = "reading" /\ task'[h] = task[h] /\ crt[h] = "read"
           \/ crt'[h] = crt[h] /\ task'[h] = "lane" /\ task[h] = "line"
    BY <2>1, <2>2 DEF DiskInv, TypeOK
  <2>6. StatusInv(h) /\ FilesInv(h)
    BY <2>1 DEF DiskInv
  <2>7. Present(h)' = Present(h)
    BY <1>1 DEF Present
  <2>8. StatusInv(h)'
    BY <1>1, <2>5, <2>6, <2>7 DEF StatusInv, OnLane
  <2>9. \A t \in Threads : /\ Removing(t, h)' => Removing(t, h)
                           /\ \A f \in Files : WillUnlink(t, h, f) => WillUnlink(t, h, f)'
    BY <2>1 DEF Removing, WillUnlink
  <2>10. FilesInv(h)'
    BY <1>1, <2>5, <2>6, <2>7, <2>9 DEF FilesInv, StatusInv, Encoding, ToUnwind, Files
  <2> QED
    BY <1>1, <2>3, <2>4, <2>5, <2>8, <2>10, OneJob
<1> QED
  BY <1>5, <1>6

\* Until its job is stored, nobody else knows what a create request has opened.
LEMMA Unknown ==
    ASSUME DiskInv, NEW j \in Jobs, crt[j] # "done"
    PROVE  ~Present(j) /\ task[j] = "none" /\ \A t \in Threads : ~Removing(t, j)
  BY DEF DiskInv, IInv, LineInv, StatusInv, FilesInv

\* The steps of a create request.
LEMMA CreateDisk ==
    ASSUME DiskInv, IInv', NEW j \in Jobs, CreateNext(j) PROVE DiskInv'
<1>1. /\ crt[j] # "done" /\ Loop \in Threads /\ Loop \notin Requests
      /\ jobs \in [Jobs -> {"none"} \cup Live \cup Terminal]
      /\ crt \in [Jobs -> CreateSteps] /\ task \in [Jobs -> TaskSteps]
      /\ dirs \in [Jobs -> SUBSET (Files \cup {"dir"})]
  BY VideoAssumption DEF CreateNext, Create, CreateOpen, CreateRejected, CreateStore,
                         Threads, DiskInv, TypeOK
<1>2. ~Present(j) /\ task[j] = "none" /\ \A t \in Threads : ~Removing(t, j)
  BY <1>1, Unknown
<1>3. PICK a \in ThreadState :
        /\ act' = [act EXCEPT ![Loop] = a]
        /\ SameRemovals /\ act' \in [Threads -> ThreadState] /\ act'[Loop] = a
        /\ \A u \in Threads : u # Loop => act'[u] = act[u]
        /\ a.pc = "idle" => a = Idle
        /\ a.pc \in {"line", "enter"} => a.todo = {}
        /\ a.pc \in {"line", "enter"} /\ a.kind = "delete" => a.job \in Jobs
        /\ a.pc = "unlink" => a.job \in Jobs
  <2>1. CASE Create(j)
    <3> DEFINE a == [Idle EXCEPT !.pc = "enter"]
    <3>1. a \in ThreadState /\ a.pc = "enter" /\ a.todo = {} /\ a.kind = "poll"
      BY DEF ThreadState, Idle
    <3>2. act' = [act EXCEPT ![Loop] = a] /\ act[Loop].pc = "idle" /\ act[Loop].todo = {}
      BY <1>1, <2>1, IdleThread DEF Create, LoopFree, DiskInv, ThreadInv
    <3> HIDE DEF a
    <3> QED
      BY <1>1, <3>1, <3>2, ThreadQuiet
  <2>2. CASE CreateOpen(j)
    <3>1. /\ act' = [act EXCEPT ![Loop] = Idle]
          /\ act[Loop].pc = "next" /\ act[Loop].todo = {}
      BY <2>2 DEF CreateOpen
    <3> QED
      BY <1>1, <3>1, IdleThread, ThreadQuiet
  <2>3. CASE CreateRejected(j) \/ CreateStore(j)
    <3>1. act' = act /\ act' = [act EXCEPT ![Loop] = act[Loop]] /\ act[Loop] \in ThreadState
      BY <1>1, <2>3 DEF CreateRejected, CreateStore, DiskInv, TypeOK
    <3> QED
      BY <1>1, <3>1 DEF SameRemovals, DiskInv, TypeOK, ThreadInv
  <2> QED
    BY <2>1, <2>2, <2>3 DEF CreateNext
<1>4. /\ line' \in Seq(Jobs \cup Requests)
      /\ \A r \in Requests : \A i \in 1..Len(line') : line'[i] = r =>
           i \in 1..Len(line) /\ line[i] = r
  <2>1. line' = line \/ line' = Append(line, j)
    BY DEF CreateNext, Create, CreateOpen, CreateRejected, CreateStore
  <2>2. line \in Seq(Jobs \cup Requests)
    BY DEF DiskInv, TypeOK
  <2>3. CASE line' = Append(line, j)
    <3>1. /\ line' \in Seq(Jobs \cup Requests) /\ Len(line') = Len(line) + 1
          /\ Len(line) \in Nat /\ line'[Len(line) + 1] = j
          /\ \A i \in 1..Len(line) : line'[i] = line[i]
      BY <2>2, <2>3, AppendProperties
    <3>2. \A r \in Requests : r # j
      BY VideoAssumption
    <3> QED
      BY <3>1, <3>2
  <2> QED
    BY <2>1, <2>2, <2>3
<1>5. PICK c \in CreateSteps, x \in {"none", "queued"}, s \in {"none", "line"},
           d \in SUBSET (Files \cup {"dir"}) :
        /\ crt' = [crt EXCEPT ![j] = c] /\ jobs' = [jobs EXCEPT ![j] = x]
        /\ task' = [task EXCEPT ![j] = s] /\ dirs' = [dirs EXCEPT ![j] = d]
        /\ \/ c = "done" /\ x = "queued" /\ s = "line"
           \/ c # "done" /\ x = "none" /\ s = "none"
        /\ UNCHANGED <<crashes, expired, lane>>
  <2>1. /\ jobs = [jobs EXCEPT ![j] = "none"] /\ task = [task EXCEPT ![j] = "none"]
        /\ dirs = [dirs EXCEPT ![j] = dirs[j]] /\ dirs[j] \in SUBSET (Files \cup {"dir"})
    BY <1>2 DEF Present, DiskInv, TypeOK
  <2>2. CASE Create(j)
    BY <2>1, <2>2 DEF Create
  <2>3. CASE CreateOpen(j)
    <3>1. CASE crt' = [crt EXCEPT ![j] = "error"] /\ dirs' = dirs
      <4>1. /\ "error" \in CreateSteps
            /\ jobs' = jobs /\ task' = task /\ UNCHANGED <<crashes, expired, lane>>
        BY <2>3 DEF CreateOpen, CreateSteps
      <4> QED
        BY <2>1, <3>1, <4>1
    <3>2. CASE crt' = [crt EXCEPT ![j] = "read"] /\ dirs' = [dirs EXCEPT ![j] = {"dir", "source"}]
      <4>1. /\ "read" \in CreateSteps /\ {"dir", "source"} \in SUBSET (Files \cup {"dir"})
            /\ jobs' = jobs /\ task' = task /\ UNCHANGED <<crashes, expired, lane>>
        BY <2>3 DEF CreateOpen, CreateSteps, Files
      <4> QED
        BY <2>1, <3>2, <4>1
    <3> QED
      BY <2>3, <3>1, <3>2 DEF CreateOpen
  <2>4. CASE CreateRejected(j)
    BY <2>1, <2>4 DEF CreateRejected
  <2>5. CASE CreateStore(j)
    BY <2>1, <2>5 DEF CreateStore
  <2> QED
    BY <2>2, <2>3, <2>4, <2>5 DEF CreateNext
<1>6. /\ crt'[j] = c /\ jobs'[j] = x /\ task'[j] = s /\ dirs'[j] = d
      /\ \A k \in Jobs : k # j => /\ jobs'[k] = jobs[k] /\ crt'[k] = crt[k]
                                  /\ task'[k] = task[k] /\ dirs'[k] = dirs[k]
  BY <1>5 DEF DiskInv, TypeOK
<1>7. TypeOK'
  BY <1>3, <1>4, <1>5 DEF DiskInv, TypeOK
<1>8. ThreadInv'
  <2>1. \A r \in Requests : act'[r] = act[r]
    BY <1>1, <1>3 DEF Threads
  <2>2. ASSUME NEW t \in Threads
        PROVE  /\ act'[t].pc = "idle" => act'[t] = Idle
               /\ act'[t].pc \in {"line", "enter"} => act'[t].todo = {}
               /\ act'[t].pc \in {"line", "enter"} /\ act'[t].kind = "delete" =>
                    act'[t].job \in Jobs
               /\ act'[t].pc = "unlink" => act'[t].job \in Jobs
    BY <1>3 DEF DiskInv, ThreadInv
  <2> QED
    BY <1>4, <2>1, <2>2 DEF DiskInv, ThreadInv
<1>9. StatusInv(j)'
  BY <1>5, <1>6 DEF StatusInv, Present, OnLane
<1>10. \A t \in Threads : ~Removing(t, j)'
  BY <1>2, <1>3 DEF Removing, SameRemovals
<1>11. FilesInv(j)'
  BY <1>5, <1>6, <1>10 DEF FilesInv, Present, Encoding
<1> QED
  BY <1>3, <1>6, <1>7, <1>8, <1>9, <1>11, OneJob

\* A restart leaves directories without jobs, tasks or removals.
LEMMA CrashDisk == ASSUME DiskInv, IInv', Crash PROVE DiskInv'
<1>1. /\ jobs' = [j \in Jobs |-> "none"] /\ act' = [t \in Threads |-> Idle]
      /\ task' = [j \in Jobs |-> "none"] /\ line' = <<>> /\ lane' = NoJob
      /\ crt' \in [Jobs -> CreateSteps] /\ \A j \in Jobs : crt'[j] # "done"
      /\ crashes' \in Nat /\ UNCHANGED <<dirs, expired>>
  BY DEF Crash, DiskInv, TypeOK
<1>2. TypeOK'
  BY <1>1, IdleThread DEF DiskInv, TypeOK
<1>3. ThreadInv'
  BY <1>1, IdleThread DEF ThreadInv
<1>4. ASSUME NEW j \in Jobs PROVE StatusInv(j)' /\ FilesInv(j)'
  BY <1>1, IdleThread DEF StatusInv, FilesInv, Present, Removing
<1> QED
  BY <1>2, <1>3, <1>4 DEF DiskInv

\* The lane and the clock touch no file.
LEMMA LaneDisk ==
    ASSUME DiskInv, IInv', NEW j \in Jobs, TakeLane(j) \/ Expire(j) PROVE DiskInv'
<1>1. /\ UNCHANGED <<crashes, jobs, dirs, crt, act, line>> /\ SameRemovals
      /\ task' = task \/ (task[j] = "lane" /\ task' = [task EXCEPT ![j] = "begin"])
  BY DEF TakeLane, Expire, Goto, SameRemovals
<1>2. TypeOK'
  BY <1>1, VideoAssumption DEF DiskInv, TypeOK, TakeLane, Expire
<1>3. ThreadInv'
  BY <1>1 DEF DiskInv, ThreadInv
<1>4. CASE task' = task
  BY <1>1, <1>2, <1>3, <1>4, NoJobAtAll
<1>5. CASE task[j] = "lane" /\ task' = [task EXCEPT ![j] = "begin"]
  <2>1. task'[j] = "begin" /\ \A k \in Jobs : k # j => task'[k] = task[k]
    BY <1>5 DEF DiskInv, TypeOK
  <2>2. StatusInv(j) /\ FilesInv(j) /\ Present(j)' = Present(j)
    BY <1>1 DEF DiskInv, Present
  <2>3. StatusInv(j)'
    BY <1>1, <1>5, <2>1, <2>2 DEF StatusInv, OnLane
  <2>4. \A t \in Threads : /\ Removing(t, j)' => Removing(t, j)
                           /\ \A f \in Files : WillUnlink(t, j, f) => WillUnlink(t, j, f)'
    BY <1>1 DEF Removing, WillUnlink
  <2>5. FilesInv(j)'
    BY <1>1, <1>5, <2>1, <2>2, <2>4 DEF FilesInv, Encoding, ToUnwind, Files
  <2> QED
    BY <1>1, <1>2, <1>3, <2>1, <2>3, <2>5, OneJob
<1> QED
  BY <1>1, <1>4, <1>5

-----------------------------------------------------------------------------
\* DiskInv is inductive.
LEMMA DiskStep == DiskInv /\ [Next]_vars => DiskInv'
<1> SUFFICES ASSUME DiskInv, [Next]_vars PROVE DiskInv'
  OBVIOUS
<1>1. IInv'
  BY LaneStep DEF DiskInv
<1>2. CASE Crash
  BY <1>1, <1>2, CrashDisk
<1>3. CASE Grant
  BY <1>1, <1>3, GrantDisk
<1>4. CASE CreateClean
  BY <1>1, <1>4, PopDisk DEF CreateClean, Threads
<1>5. CASE RemoveStep(Loop)
  BY <1>1, <1>5, RemoveDisk DEF Threads
<1>6. ASSUME NEW j \in Jobs, Expire(j) \/ TakeLane(j) PROVE DiskInv'
  BY <1>1, <1>6, LaneDisk
<1>7. ASSUME NEW j \in Jobs, CreateNext(j) PROVE DiskInv'
  BY <1>1, <1>7, CreateDisk
<1>8. ASSUME NEW j \in Jobs, Work(j) PROVE DiskInv'
  BY <1>1, <1>8, WorkKeeps
<1>9. ASSUME NEW r \in Requests, RequestPoll(r) \/ RequestDelete(r) PROVE DiskInv'
  BY <1>1, <1>9, RequestDisk
<1>10. ASSUME NEW r \in Requests, Serve(r) PROVE DiskInv'
  <2>1. r \in Threads
    BY DEF Threads
  <2>2. CASE Poll(r)
    BY <1>1, <2>1, <2>2, PopDisk DEF Poll
  <2>3. CASE Delete(r)
    BY <1>1, <2>3, DeleteDisk
  <2>4. CASE DeleteRefused(r) \/ Answer(r)
    BY <1>1, <2>4, AnsweredDisk
  <2>5. CASE RemoveStep(r)
    BY <1>1, <2>1, <2>5, RemoveDisk
  <2> QED
    BY <1>10, <2>2, <2>3, <2>4, <2>5 DEF Serve
<1>11. CASE UNCHANGED vars
  <2>1. TypeOK' /\ ThreadInv' /\ SameRemovals
    BY <1>11 DEF vars, DiskInv, TypeOK, ThreadInv, SameRemovals
  <2> QED
    BY <1>1, <1>11, <2>1, NoJobAtAll DEF vars
<1> QED
  BY <1>2, <1>3, <1>4, <1>5, <1>6, <1>7, <1>8, <1>9, <1>10, <1>11 DEF Next

\* No handler stores a status, a step or a file that the others do not know, for
\* any number of jobs, requests, threads and restarts.
THEOREM VideoTypes == Spec => []TypeOK
<1>1. DiskInv => TypeOK
  BY DEF DiskInv
<1> QED
  BY <1>1, DiskInit, DiskStep, PTL DEF Spec

\* While a job says it is completed nobody has begun to remove its video: a job
\* is out of _jobs before the first file of it goes (delete_video_job,
\* _cleanup_expired), so GET /video finds the file.
THEOREM CompletedKeepsVideo == Spec => []CompletedHasVideo
<1>1. DiskInv => CompletedHasVideo
  BY DEF DiskInv, FilesInv, CompletedHasVideo
<1> QED
  BY <1>1, DiskInit, DiskStep, PTL DEF Spec

\* Whenever a job was taken out, before, during or after its encoding, neither
\* the uploads nor the video outlive the last thread that works on it.
THEOREM RemovedIsGone == Spec => []RemovedLeavesNoVideo
<1>1. DiskInv => RemovedLeavesNoVideo
  <2> SUFFICES ASSUME DiskInv, NEW j \in Jobs, crt[j] = "done", ~Present(j), ~Handled(j)
               PROVE  "source" \notin dirs[j] /\ "video" \notin dirs[j]
    BY DEF RemovedLeavesNoVideo
  <2>1. \A t \in Threads, f \in Files : ~WillUnlink(t, j, f)
    BY DEF Handled, WillUnlink
  <2>2. task[j] \notin ToUnwind
    BY DEF Handled, ToUnwind
  <2>3. FilesInv(j)
    BY DEF DiskInv
  <2> QED
    BY <2>1, <2>2, <2>3 DEF FilesInv, Files
<1> QED
  BY <1>1, DiskInit, DiskStep, PTL DEF Spec

-----------------------------------------------------------------------------
(* The contract *)

\* What a client sees of a job changes only with its status, or when it is stored.
LEMMA SeenSame ==
    ASSUME DiskInv, \A j \in Jobs : jobs'[j] = jobs[j] /\ (crt'[j] = "done" <=> crt[j] = "done")
    PROVE  answered' = answered
<1>1. \A j \in Jobs : Answered(j)' = Answered(j)
  BY DEF Answered, Present
<1> QED
  BY <1>1 DEF answered

\* No job exists at the start.
LEMMA ContractInit == Init => Contract!Init
  BY DEF Init, Contract!Init, answered, Answered, Present

\* One job is seen to change from one answer to another.
LEMMA SeenChange ==
    ASSUME NEW j \in Jobs, NEW to, Answered(j)' = to,
           \A k \in Jobs : k # j => Answered(k)' = Answered(k)
    PROVE  answered' = [answered EXCEPT ![j] = to]
  BY DEF answered

\* A job that is left alone is seen as before.
LEMMA SeenElsewhere ==
    ASSUME NEW j \in Jobs,
           \A k \in Jobs : k # j => jobs'[k] = jobs[k] /\ (crt'[k] = "done" <=> crt[k] = "done")
    PROVE  \A k \in Jobs : k # j => Answered(k)' = Answered(k)
  BY DEF Answered, Present

\* Jobs are taken out, all of them ended: for a client they disappear at once.
LEMMA SeenRemoved ==
    ASSUME DiskInv, NEW gone \in SUBSET Jobs,
           \A j \in gone : jobs[j] \in Terminal,
           jobs' = [j \in Jobs |-> IF j \in gone THEN "none" ELSE jobs[j]],
           crt' = crt
    PROVE  Contract!Next
<1>1. \A j \in gone : /\ Answered(j) \in {"completed", "failed"}
                      /\ Answered(j)' = "gone"
  BY DEF Answered, Present, DiskInv, StatusInv
<1>2. \A j \in Jobs \ gone : Answered(j)' = Answered(j)
  BY DEF Answered, Present
<1>3. answered' = [j \in Jobs |-> IF j \in gone THEN "gone" ELSE answered[j]]
  BY <1>1, <1>2 DEF answered
<1>4. Contract!Remove(gone)
  BY <1>1, <1>3 DEF Contract!Remove, answered
<1> QED
  BY <1>4 DEF Contract!Next

\* A cleanup removes jobs from view, and settled ones only.
LEMMA SeenPop ==
    ASSUME DiskInv, Kept, NEW t \in Threads, PopExpired(t) PROVE Contract!Next
<1>1. PICK gone \in SUBSET Jobs : gone = {j \in Jobs : Present(j) /\ j \in expired}
  OBVIOUS
<1>2. /\ jobs' = [j \in Jobs |-> IF j \in gone THEN "none" ELSE jobs[j]]
      /\ crt' = crt
  BY <1>1 DEF PopExpired
<1>3. \A j \in gone : jobs[j] \in Terminal
  BY <1>1 DEF Kept, Present, DiskInv, TypeOK
<1> QED
  BY <1>2, <1>3, SeenRemoved

\* A deletion removes its job from view.
LEMMA SeenDelete ==
    ASSUME DiskInv, NEW r \in Requests, Delete(r) PROVE Contract!Next
<1>1. PICK j \in Jobs : j = act[r].job
  BY DEF Delete, DiskInv, ThreadInv, Threads
<1>2. /\ jobs[j] \in Terminal /\ crt' = crt
      /\ jobs' = [k \in Jobs |-> IF k \in {j} THEN "none" ELSE jobs[k]]
  BY <1>1 DEF Delete, DiskInv, TypeOK
<1> QED
  BY <1>2, SeenRemoved

\* A job is accepted when it is stored.
LEMMA SeenStored ==
    ASSUME DiskInv, NEW j \in Jobs, CreateStore(j) PROVE Contract!Next
<1>1. /\ crt' = [crt EXCEPT ![j] = "done"] /\ jobs' = [jobs EXCEPT ![j] = "queued"]
      /\ crt[j] = "reading"
  BY DEF CreateStore
<1>2. ~Present(j)
  BY <1>1, Unknown
<1>3. Answered(j) = "none" /\ Answered(j)' = "queued"
  BY <1>1, <1>2 DEF Answered, Present, DiskInv, TypeOK
<1>4. \A k \in Jobs : k # j => jobs'[k] = jobs[k] /\ crt'[k] = crt[k]
  BY <1>1 DEF DiskInv, TypeOK
<1>5. answered' = [answered EXCEPT ![j] = "queued"]
  BY <1>3, <1>4, SeenElsewhere, SeenChange
<1>6. Contract!Accept(j)
  BY <1>3, <1>5 DEF Contract!Accept, Contract!Move, answered
<1> QED
  BY <1>6 DEF Contract!Next

\* The three reports of the background task that a client can tell apart.
LEMMA SeenWork ==
    ASSUME DiskInv, NEW j \in Jobs, Work(j) PROVE [Contract!Next]_answered
<1>1. StatusInv(j) /\ jobs \in [Jobs -> {"none"} \cup Live \cup Terminal]
  BY DEF DiskInv, TypeOK
<1>2. CASE UNCHANGED <<jobs, crt>>
  BY <1>2, SeenSame
<1>3. CASE ~UNCHANGED <<jobs, crt>>
  <2>1. crt' = crt /\ (Begin(j) \/ Finish(j) \/ Failed(j))
    BY <1>3 DEF Work, Begin, Load, OpenOutput, Track, PrepareFails, WriteScratch,
         WriteScratchPartial, ReportWritten, StartRender, Encoded, RenderFails,
         ReportEncoded, Unwind, Scrub, Finish, Failed, End
  <2>2. Present(j)
    BY <1>1, <1>3, <2>1 DEF Begin, Finish, Failed, Present
  <2>3. PICK to \in {"processing", "completed", "failed"} :
          /\ jobs' = [jobs EXCEPT ![j] = to]
          /\ to = "processing" => jobs[j] = "queued"
          /\ to # "processing" => jobs[j] = "processing"
    BY <1>1, <2>1, <2>2 DEF Begin, Finish, Failed, StatusInv, OnLane
  <2>4. Answered(j) = jobs[j] /\ Answered(j)' = to
    BY <1>1, <2>2, <2>3 DEF Answered, Present
  <2>5. \A k \in Jobs : k # j => jobs'[k] = jobs[k] /\ crt'[k] = crt[k]
    BY <1>1, <2>1, <2>3
  <2>6. answered' = [answered EXCEPT ![j] = to] /\ answered[j] = jobs[j]
    BY <2>4, <2>5, SeenElsewhere, SeenChange DEF answered
  <2>7. Contract!Start(j) \/ Contract!Complete(j) \/ Contract!Fail(j)
    BY <2>3, <2>6
       DEF Contract!Start, Contract!Complete, Contract!Fail, Contract!Move
  <2> QED
    BY <2>7 DEF Contract!Next
<1> QED
  BY <1>2, <1>3

\* Each step is one of the contract, or none that is seen.
LEMMA ContractStep == DiskInv /\ [Next]_vars => (Kept => [Contract!Next]_answered)
<1> SUFFICES ASSUME DiskInv, [Next]_vars, Kept PROVE [Contract!Next]_answered
  OBVIOUS
<1>1. CASE UNCHANGED <<jobs, crt>>
  BY <1>1, SeenSame
<1>2. ~Crash
  BY DEF Kept, Crash, DiskInv, TypeOK
<1>3. CASE Grant
  <2>1. jobs' = jobs /\ \A j \in Jobs : crt'[j] = "done" <=> crt[j] = "done"
    BY <1>3 DEF Grant, DiskInv, TypeOK
  <2> QED
    BY <2>1, SeenSame
<1>4. CASE CreateClean
  BY <1>4, SeenPop DEF CreateClean, Threads
<1>5. ASSUME NEW j \in Jobs, CreateNext(j) PROVE [Contract!Next]_answered
  <2>1. CASE CreateStore(j)
    BY <2>1, SeenStored
  <2>2. CASE Create(j) \/ CreateOpen(j) \/ CreateRejected(j)
    <3>1. jobs' = jobs /\ \A k \in Jobs : crt'[k] = "done" <=> crt[k] = "done"
      BY <2>2 DEF Create, CreateOpen, CreateRejected, DiskInv, TypeOK
    <3> QED
      BY <3>1, SeenSame
  <2> QED
    BY <1>5, <2>1, <2>2 DEF CreateNext
<1>6. ASSUME NEW j \in Jobs, Work(j) PROVE [Contract!Next]_answered
  BY <1>6, SeenWork
<1>7. ASSUME NEW r \in Requests, Poll(r) \/ Delete(r) PROVE Contract!Next
  BY <1>7, SeenPop, SeenDelete DEF Poll, Threads
<1>8. \/ UNCHANGED <<jobs, crt>> \/ Grant \/ CreateClean
      \/ \E j \in Jobs : CreateNext(j) \/ Work(j)
      \/ \E r \in Requests : Poll(r) \/ Delete(r)
  BY <1>2 DEF Next, vars, RemoveStep, RemoveNext, RemoveFile, RemoveDir, Expire, TakeLane,
              RequestPoll, RequestDelete, Serve, DeleteRefused, Answer
<1> QED
  BY <1>1, <1>3, <1>4, <1>5, <1>6, <1>7, <1>8

\* Whatever fails in the engine, and whoever polls, deletes and cleans up meanwhile,
\* a client sees each job queued, processed once and ended, and sees only an ended
\* job disappear: the shorts service implements JobContract between restarts.
THEOREM VideoImplementsContract == Spec => KeepsContract
<1>1. DiskInv /\ [Next]_vars => [Kept => [Contract!Next]_answered]_vars
  BY ContractStep
<1> QED
  BY <1>1, ContractInit, DiskInit, DiskStep, PTL DEF Spec, KeepsContract

=============================================================================
