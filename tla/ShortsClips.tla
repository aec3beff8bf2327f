----------------------------- MODULE ShortsClips -----------------------------
(***************************************************************************)
(* The clip list of the shorts screen: files come in under the upload      *)
(* limits, are reordered, cut, captioned and removed, and are read by two  *)
(* calls, for captions and for the video.  A role only brings its wording. *)
(* What happens to the job, and what late polls of a job the page has left *)
(* do, is module ShortsJob.                                                *)
(*                                                                         *)
(* Every control is disabled while the page is busy; a handler runs to its *)
(* next await in one step.                                                 *)
(***************************************************************************)
EXTENDS Naturals, Sequences, SequencesExt, FiniteSets

CONSTANTS
    MaxFiles,      \* bound on clips ever put into the list
    MaxResets,     \* bound on resets that wait for their delete
    MinClips, MaxClips,
    FileSizes,     \* sizes of the files a user has; none is empty
    MaxFileSize,   \* MAX_FILE_BYTES
    MaxTotalSize,  \* MAX_TOTAL_BYTES
    MaxSeconds     \* MAX_TOTAL_SECONDS

ASSUME ClipsAssumption ==
    /\ {MaxFiles, MinClips, MaxClips} \subseteq Nat \ {0}
    /\ MinClips <= MaxClips
    /\ FileSizes \subseteq Nat \ {0}
    /\ {MaxResets, MaxFileSize, MaxTotalSize, MaxSeconds} \subseteq Nat

VARIABLES
    clips,   \* the list, first clip first
    active,  \* id of the clip the drawer edits (0: null)
    files,   \* how many clips have been put into the list so far
    asked,   \* the caption call in flight: who asked, and for which clips
    sent,    \* the clips of the job being made (<<>>: none is)
    job,     \* the job on the screen: none, rendering or completed
    resets,  \* how many resets wait for their delete
    dropped  \* one came back under a call and took the list away

clipVars == <<clips, active, files, asked, sent, job, resets, dropped>>
screen == <<job, resets, dropped>>

CutSeconds == 2      \* DEFAULT_CLIP_SECONDS
LongCutSeconds == 5  \* MAX_RANGE_SECONDS

\* caption 0 is the wording of the role, or the user's own; n was written by
\* the AI for clip n.
Clip == [id : 1..MaxFiles, size : FileSizes,
         seconds : {CutSeconds, LongCutSeconds}, caption : 0..MaxFiles]

NotAsked == [by |-> "nobody", clips |-> <<>>]

Busy == asked.by # "nobody" \/ sent # <<>>

Ids(list) == {list[i].id : i \in DOMAIN list}
Total(s) ==
    LET sum[n \in 0..Len(s)] == IF n = 0 THEN 0 ELSE sum[n - 1] + s[n]
    IN  sum[Len(s)]
TotalSize(list) == Total([i \in DOMAIN list |-> list[i].size])
ExpectedSeconds(list) == Total([i \in DOMAIN list |-> list[i].seconds])

OverLength == ExpectedSeconds(clips) > MaxSeconds
\* The upload card, and the buttons of the list in it.
UploadOffered == ~Busy /\ Len(clips) < MaxClips
GenerateOffered == ~Busy /\ Len(clips) >= MinClips /\ ~OverLength

-----------------------------------------------------------------------------
(* Putting files in *)

\* Mutant: the total counts the files of this batch only.
AcceptCountsBatch(taken, size) ==
    IF \/ Len(clips) + Len(taken) >= MaxClips
       \/ size > MaxFileSize
       \/ Total(taken) + size > MaxTotalSize
    THEN taken ELSE Append(taken, size)

\* One turn of the loop of addFiles: a file that breaks a limit is left out.
Accept(taken, size) ==
    IF \/ Len(clips) + Len(taken) >= MaxClips
       \/ size > MaxFileSize
       \/ TotalSize(clips) + Total(taken) + size > MaxTotalSize
    THEN taken ELSE Append(taken, size)

Accepted(chosen) ==
    LET taken[n \in 0..Len(chosen)] ==
            IF n = 0 THEN <<>> ELSE Accept(taken[n - 1], chosen[n])
    IN  taken[Len(chosen)]

NewClips(sizes) ==
    [i \in DOMAIN sizes |->
        [id |-> files + i, size |-> sizes[i],
         seconds |-> CutSeconds, caption |-> 0]]

AddFiles(chosen) ==
    LET taken == Accepted(chosen) IN
    /\ UploadOffered
    /\ files + Len(taken) <= MaxFiles
    /\ clips' = clips \o NewClips(taken)
    /\ files' = files + Len(taken)
    /\ active' = IF active = 0 /\ clips' # <<>> THEN clips'[1].id ELSE active
    /\ UNCHANGED <<asked, sent, screen>>

-----------------------------------------------------------------------------
(* Editing the list; the job being made and the caption call keep the list *)

Edited == ~Busy /\ UNCHANGED <<files, asked, sent, screen>>

Swapped(i, j) ==
    [k \in DOMAIN clips |->
        CASE k = i -> clips[j] [] k = j -> clips[i] [] OTHER -> clips[k]]

\* Mutant: a list whose arrows work while a call is under way.
MoveClipWhileBusy(i, j) ==
    /\ {i, j} \subseteq DOMAIN clips /\ j \in {i - 1, i + 1}
    /\ clips' = Swapped(i, j)
    /\ UNCHANGED <<active, files, asked, sent, screen>>

\* The arrows in the list and in the drawer.
MoveClip(i, j) ==
    /\ {i, j} \subseteq DOMAIN clips /\ j \in {i - 1, i + 1}
    /\ clips' = Swapped(i, j)
    /\ Edited /\ UNCHANGED active

SwapBoundaryClips ==
    /\ Len(clips) >= 2
    /\ clips' = Swapped(1, Len(clips))
    /\ Edited /\ UNCHANGED active

\* Mutant: the clip that takes the place of the removed one is not looked for.
RemoveClipKeepsActive(i) ==
    /\ i \in DOMAIN clips
    /\ clips' = RemoveAt(clips, i)
    /\ Edited /\ UNCHANGED active

\* The drawer goes on with the clip that takes the place of the removed one.
RemoveClip(i) ==
    /\ i \in DOMAIN clips
    /\ clips' = RemoveAt(clips, i)
    /\ active' = IF active # clips[i].id THEN active
                 ELSE IF clips' = <<>> THEN 0
                 ELSE clips'[IF i \in DOMAIN clips' THEN i ELSE Len(clips')].id
    /\ Edited

\* A row of the cut list opens the drawer.
OpenClip(i) ==
    /\ i \in DOMAIN clips
    /\ active' = clips[i].id
    /\ Edited /\ UNCHANGED clips

\* updateClip from the drawer: another role, or the user's wording, or a cut.
UpdateClip ==
    \E i \in DOMAIN clips :
        /\ clips[i].id = active
        /\ \/ clips' = [clips EXCEPT ![i].caption = 0]
           \/ \E s \in {CutSeconds, LongCutSeconds} :
                 clips' = [clips EXCEPT ![i].seconds = s]
        /\ Edited /\ UNCHANGED active

-----------------------------------------------------------------------------
(* Captions and the video *)

Ask(who) ==
    /\ asked' = [by |-> who, clips |-> clips]
    /\ UNCHANGED <<clips, active, files, sent, screen>>

GenerateCaptions == ~Busy /\ Len(clips) >= MinClips /\ Ask("button")

\* The answer holds one caption per clip of the request; list is captioned by place.
Captioned(list) ==
    [i \in DOMAIN list |->
        IF i \in DOMAIN asked.clips
        THEN [list[i] EXCEPT !.caption = asked.clips[i].id] ELSE list[i]]

CaptionsArrive ==
    /\ asked.by = "button"
    /\ asked' = NotAsked
    /\ clips' \in {Captioned(clips), clips}   \* generateCaptions failed: unchanged
    /\ dropped' = FALSE
    /\ UNCHANGED <<active, files, sent, job, resets>>

Send(list) ==
    /\ sent' = list
    /\ job' = "none"
    /\ asked' = NotAsked
    /\ UNCHANGED <<resets, dropped>>

\* submitDraft: with a topic or a mood the captions are asked for first.
Submit ==
    /\ GenerateOffered
    /\ \/ Ask("submit")
       \/ Send(clips) /\ UNCHANGED <<clips, active, files>>

\* Mutant: the list gets the captions, the job is made from the list before them.
SubmitGoesOnWithOldClips ==
    /\ asked.by = "submit"
    /\ Send(asked.clips)
    /\ clips' \in {Captioned(asked.clips), clips}
    /\ UNCHANGED <<active, files>>

\* captionsForTopic came back, or failed, and the job is made all the same.
SubmitGoesOn ==
    /\ asked.by = "submit"
    /\ \/ clips' = Captioned(asked.clips) /\ Send(clips')
       \/ clips' = clips /\ Send(asked.clips)
    /\ UNCHANGED <<active, files>>

\* The job was accepted, and the first GET brought it.
JobShown ==
    /\ sent # <<>> /\ job = "none"
    /\ job' = "rendering"
    /\ UNCHANGED <<clips, active, files, asked, sent, resets, dropped>>

\* The job completed, failed, or was never accepted.
MakingEnds ==
    /\ sent # <<>>
    /\ sent' = <<>>
    /\ job' \in {"none", "completed"}
    /\ dropped' = FALSE
    /\ UNCHANGED <<clips, active, files, asked, resets>>

\* reset, offered beside a finished video: the delete is awaited first, and
\* nothing on the page waits with it.
PressClipsReset ==
    /\ ~Busy /\ job = "completed" /\ resets < MaxResets
    /\ resets' = resets + 1
    /\ UNCHANGED <<clips, active, files, asked, sent, job, dropped>>

\* Then the list and the job on the screen go, whatever they are by then; a
\* submission that has no job yet goes on.
ClipsResetArrives ==
    /\ resets # 0 /\ resets' = resets - 1
    /\ clips' = <<>> /\ active' = 0 /\ job' = "none"
    /\ sent' = IF job = "rendering" THEN <<>> ELSE sent
    /\ dropped' = (asked.by # "nobody" \/ sent' # <<>>)
    /\ UNCHANGED <<files, asked>>

-----------------------------------------------------------------------------
ClipsInit ==
    /\ clips = <<>> /\ active = 0 /\ files = 0
    /\ asked = NotAsked /\ sent = <<>>
    /\ job = "none" /\ resets = 0 /\ dropped = FALSE

ClipsNext ==
    \/ \E n \in 1..MaxFiles : \E chosen \in [1..n -> FileSizes] : AddFiles(chosen)
    \/ \E i, j \in 1..MaxFiles : MoveClip(i, j)
    \/ \E i \in 1..MaxFiles : RemoveClip(i) \/ OpenClip(i)
    \/ SwapBoundaryClips \/ UpdateClip
    \/ GenerateCaptions \/ CaptionsArrive
    \/ Submit \/ SubmitGoesOn \/ JobShown \/ MakingEnds
    \/ PressClipsReset \/ ClipsResetArrives

ClipsSpec == ClipsInit /\ [][ClipsNext]_clipVars

-----------------------------------------------------------------------------
(* Properties *)

\* The list, the drawer and the two calls hold what they should, and the drawer
\* is on a clip of the list or on none.
ClipsTypeOK ==
    /\ {clips, sent, asked.clips} \subseteq Seq(Clip)
    /\ asked.by \in {"nobody", "button", "submit"}
    /\ files \in 0..MaxFiles
    /\ active \in Ids(clips) \union {0}
    /\ job \in {"none", "rendering", "completed"}
    /\ resets \in 0..MaxResets /\ dropped \in BOOLEAN

\* A caption the AI wrote is on the clip it was written for, though the answer
\* is laid over the list by place and comes whole seconds after the question.
CaptionsFollowClips ==
    \A i \in DOMAIN clips : clips[i].caption \in {0, clips[i].id}

\* While a video is made, the list on the screen is the one it is made from:
\* same clips, same order, same captions, same cuts.  Only a reset that was
\* pressed before it can take the list away; no other list takes its place.
SentAsShown == sent # <<>> => clips = sent \/ (dropped /\ clips = <<>>)

\* What VideoJobPayload and _save_upload demand of a submission.
ServerAccepts(list) ==
    /\ Len(list) \in MinClips..MaxClips
    /\ \A i \in DOMAIN list : list[i].size <= MaxFileSize /\ list[i].seconds <= LongCutSeconds
    /\ TotalSize(list) <= MaxTotalSize
    /\ ExpectedSeconds(list) <= MaxSeconds

\* No submission the page lets through is turned down for its limits: they were
\* checked at the upload, file by file, and at the button, over the whole list.
ReadyIsAccepted == sent # <<>> => ServerAccepts(sent)

=============================================================================
