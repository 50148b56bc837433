---------------------------- MODULE BatchUpload ----------------------------
(***************************************************************************)
(* `repo-to-json-tree --batch --upload`: cli._run_batch drives one session *)
(* (load the resume state, analyze each selected subdirectory, upload      *)
(* the artifacts from a thread pool, settle the state file); sessions      *)
(* follow one another over the same workspace, separated by success,       *)
(* failure, Ctrl-C or a kill.  services/batch_upload.py holds the state    *)
(* file, the tracker and the worker; services/upload.py the retried POST   *)
(* and the bounded status poll.  The Breeze backend is external.           *)
(*                                                                         *)
(* A subdirectory is identified by its name, so "d" stands for r.name;     *)
(* RepoName[d] is projectMeta.repositoryName, the last component of the    *)
(* RESOLVED path, which differs from d when d is a symbolic link.          *)
(***************************************************************************)
EXTENDS Naturals, FiniteSets

CONSTANTS
  Dirs,          \* subdirectories of the workspace, by name
  Names,         \* every name a repository can have
  RepoName,      \* repositoryName of each subdirectory
  Parallelism,   \* settings.upload_parallelism
  MaxAttempts,   \* settings.upload_max_retries + 1
  MaxPolls,      \* status polls that fit in settings.upload_timeout
  MaxSessions,   \* bound: invocations of the command
  Faults         \* which environment faults the handlers meet

ASSUME BatchAssumption ==
  /\ IsFiniteSet(Dirs) /\ Dirs \subseteq Names
  /\ RepoName \in [Dirs -> Names]
  /\ Parallelism \in Nat /\ MaxSessions \in Nat
  /\ MaxAttempts \in Nat \ {0} /\ MaxPolls \in Nat \ {0}
  \* a save or an unlink of the state file fails, a thread cannot be
  \* started, the state file cannot be read back
  /\ Faults \subseteq {"save", "unlink", "thread", "unreadable"}

VARIABLES
  \* what outlives a process
  saved,         \* the "completed" names in batch-upload-state.json ({}: no file)
  uploaded,      \* history: subdirectories with an ontology the backend made
                 \* active since the state file was last discarded
  session,       \* invocations so far
  outcome,       \* how the last invocation ended
  \* the running invocation
  phase,         \* idle, analyze, upload, or draining after Ctrl-C
  completed,     \* UploadState.completed
  skipped,       \* subdirectories dropped by the resume filter
  toAnalyze,     \* selected subdirectories not analyzed yet
  tasks,         \* subdirectories with an UploadTask
  threads,       \* pool threads
  escaped,       \* run_batch_uploads raised in the upload-phase thread
  \* one upload worker per task
  pc, attempt, left,
  doc,           \* backend status of the ontology the worker polls
  stray,         \* the backend processes a document no worker knows the id of
  \* UploadTracker
  ok, failed

persistent == <<saved, uploaded, session, outcome>>
main == <<phase, skipped, toAnalyze, tasks, threads, escaped>>
worker == <<pc, attempt, left>>
backend == <<doc, stray>>
tracker == <<ok, failed>>
vars == <<persistent, main, completed, worker, backend, tracker>>

Busy == {"post", "poll", "mark", "marked"}

TypeOK ==
  /\ saved \in SUBSET Names /\ completed \in SUBSET Names
  /\ uploaded \in SUBSET Dirs /\ skipped \in SUBSET Dirs
  /\ toAnalyze \in SUBSET Dirs /\ tasks \in SUBSET Dirs
  /\ session \in 0..MaxSessions /\ threads \in Nat /\ escaped \in BOOLEAN
  /\ phase \in {"idle", "analyze", "upload", "draining"}
  /\ outcome \in {"none", "complete", "alreadyDone", "nothing", "failed",
                  "aborted", "interrupted", "killed"}
  /\ pc \in [Dirs -> Busy \cup {"none", "queued", "done"}]
  /\ attempt \in [Dirs -> 1..MaxAttempts] /\ left \in [Dirs -> 0..MaxPolls]
  /\ doc \in [Dirs -> {"none", "pending", "active", "error"}]
  /\ stray \in [Dirs -> BOOLEAN]
  /\ ok \in SUBSET Dirs /\ failed \in SUBSET Dirs

FreshMemory ==
  /\ completed' = {} /\ toAnalyze' = {} /\ threads' = 0 /\ escaped' = FALSE
  /\ pc' = [d \in Dirs |-> "none"]
  /\ attempt' = [d \in Dirs |-> 1]
  /\ left' = [d \in Dirs |-> MaxPolls]
  /\ doc' = [d \in Dirs |-> "none"] /\ stray' = [d \in Dirs |-> FALSE]
  /\ ok' = {} /\ failed' = {}

Init ==
  /\ saved = {} /\ uploaded = {} /\ session = 0 /\ outcome = "none"
  /\ phase = "idle" /\ completed = {} /\ skipped = {}
  /\ toAnalyze = {} /\ tasks = {} /\ threads = 0 /\ escaped = FALSE
  /\ pc = [d \in Dirs |-> "none"]
  /\ attempt = [d \in Dirs |-> 1]
  /\ left = [d \in Dirs |-> MaxPolls]
  /\ doc = [d \in Dirs |-> "none"] /\ stray = [d \in Dirs |-> FALSE]
  /\ ok = {} /\ failed = {}

-----------------------------------------------------------------------------
(* UploadState: the resume file.                                           *)

(* load: a missing, corrupt or unreadable file is an empty set. *)
Loaded == {saved} \cup (IF "unreadable" \in Faults THEN {{}} ELSE {})

(* _save_locked: the whole set, atomically; an OSError is swallowed. *)
Save(names) ==
  \/ saved' = names
  \/ "save" \in Faults /\ saved' = saved

(* Mutant of ClearState: only the in-memory set is emptied. *)
MutClearKeepsFile == saved' = saved /\ uploaded' = {}

(* clear: unlink the file; an OSError is swallowed.  Either way the user   *)
(* has been told the slate is clean, so the history starts again.          *)
ClearState ==
  /\ \/ saved' = {}
     \/ "unlink" \in Faults /\ saved' = saved
  /\ uploaded' = {}

-----------------------------------------------------------------------------
(* _run_batch: before, between and after the two phases.                   *)

(* Mutant of StartBatch: the names of the projects this run does not       *)
(* select are dropped from the set it will write back.                     *)
MutLoadOnlySelected(sel, force) ==
  /\ phase = "idle" /\ session < MaxSessions
  /\ \E names \in Loaded :
       LET base == IF force THEN {} ELSE names \cap sel IN
       /\ ~ (sel \subseteq base)
       /\ completed' = base
       /\ skipped' = sel \cap base
       /\ toAnalyze' = sel \ base
  /\ IF force THEN ClearState ELSE UNCHANGED <<saved, uploaded>>
  /\ phase' = "analyze" /\ session' = session + 1
  /\ tasks' = {} /\ outcome' = "none"
  /\ UNCHANGED <<threads, escaped, worker, backend, tracker>>

(* Load the state, drop it under --force, skip what it names, go on to     *)
(* analyze the rest.                                                       *)
StartBatch(sel, force) ==
  /\ phase = "idle" /\ session < MaxSessions
  /\ \E names \in Loaded :
       LET base == IF force THEN {} ELSE names IN
       /\ ~ (sel \subseteq base)
       /\ completed' = base
       /\ skipped' = sel \cap base
       /\ toAnalyze' = sel \ base
  /\ IF force THEN ClearState ELSE UNCHANGED <<saved, uploaded>>
  /\ phase' = "analyze" /\ session' = session + 1
  /\ tasks' = {} /\ outcome' = "none"
  /\ UNCHANGED <<threads, escaped, worker, backend, tracker>>

(* Every selected subdirectory is in the state file: clear it and return.  *)
AllAlreadyUploaded(sel) ==
  /\ phase = "idle" /\ session < MaxSessions
  /\ \E names \in Loaded : sel \subseteq names
  /\ ClearState
  /\ skipped' = sel /\ tasks' = {}
  /\ session' = session + 1 /\ outcome' = "alreadyDone"
  /\ UNCHANGED <<phase, completed, toAnalyze, threads, escaped, worker, backend, tracker>>

(* One project is analyzed: an artifact is written, or there is no content. *)
Analyze(d) ==
  /\ phase = "analyze" /\ d \in toAnalyze
  /\ toAnalyze' = toAnalyze \ {d}
  /\ \/ tasks' = tasks \cup {d}
     \/ tasks' = tasks
  /\ UNCHANGED <<persistent, completed, phase, skipped, threads, escaped,
                 worker, backend, tracker>>

(* The process ends with the given outcome; its memory is gone and so is   *)
(* its interest in any document the backend still processes.               *)
Exit(how) ==
  /\ phase' = "idle" /\ outcome' = how
  /\ FreshMemory
  /\ UNCHANGED <<session, skipped, tasks>>

AnalysisRaises ==
  /\ phase = "analyze" /\ toAnalyze # {}
  /\ Exit("aborted") /\ UNCHANGED <<saved, uploaded>>

(* Mutant of NothingToUpload: the state file is discarded on the way out. *)
MutNothingClears ==
  /\ phase = "analyze" /\ toAnalyze = {} /\ tasks = {}
  /\ Exit("nothing") /\ ClearState

NothingToUpload ==
  /\ phase = "analyze" /\ toAnalyze = {} /\ tasks = {}
  /\ Exit("nothing") /\ UNCHANGED <<saved, uploaded>>

MinNat(a, b) == IF a < b THEN a ELSE b

(* max(1, min(parallelism, total)) *)
PoolSize == LET n == MinNat(Parallelism, Cardinality(tasks)) IN IF n < 1 THEN 1 ELSE n

(* The upload-phase thread starts the pool and submits every task.         *)
BeginUpload ==
  /\ phase = "analyze" /\ toAnalyze = {} /\ tasks # {}
  /\ phase' = "upload" /\ threads' = PoolSize
  /\ pc' = [d \in Dirs |-> IF d \in tasks THEN "queued" ELSE "none"]
  /\ UNCHANGED <<persistent, completed, skipped, toAnalyze, tasks, escaped,
                 attempt, left, backend, tracker>>

(* executor.submit raises "can't start new thread" once t threads run and  *)
(* the tasks of S are queued: the rest are never submitted, the pool       *)
(* drains, and the exception ends the upload-phase thread.                 *)
SubmitRaises ==
  /\ "thread" \in Faults
  /\ phase = "analyze" /\ toAnalyze = {} /\ tasks # {}
  /\ \E t \in 0..(PoolSize - 1), S \in SUBSET tasks :
       /\ Cardinality(S) > t
       /\ threads' = t
       /\ pc' = [d \in Dirs |-> IF d \in S /\ t > 0 THEN "queued" ELSE "none"]
  /\ phase' = "upload" /\ escaped' = TRUE
  /\ UNCHANGED <<persistent, completed, skipped, toAnalyze, tasks,
                 attempt, left, backend, tracker>>

PoolDone == \A d \in Dirs : pc[d] \in {"none", "done"}

(* holder.get("failed", []): what run_batch_uploads returned, or nothing.  *)
ReportedFailures == IF escaped THEN {} ELSE failed

FinishFailed ==
  /\ phase = "upload" /\ PoolDone /\ ReportedFailures # {}
  /\ Exit("failed") /\ UNCHANGED <<saved, uploaded>>

FinishComplete ==
  /\ phase = "upload" /\ PoolDone /\ ReportedFailures = {}
  /\ ClearState
  /\ Exit("complete")

(* Ctrl-C: the main thread unwinds.  During the upload phase the interpreter *)
(* still joins the upload-phase thread and the pool before it exits.       *)
Interrupt ==
  \/ /\ phase = "analyze"
     /\ Exit("interrupted") /\ UNCHANGED <<saved, uploaded>>
  \/ /\ phase = "upload"
     /\ phase' = "draining"
     /\ UNCHANGED <<persistent, completed, skipped, toAnalyze, tasks, threads,
                    escaped, worker, backend, tracker>>

DrainDone ==
  /\ phase = "draining" /\ PoolDone
  /\ Exit("interrupted") /\ UNCHANGED <<saved, uploaded>>

(* SIGKILL, power loss, a closed terminal.                                 *)
Kill ==
  /\ phase # "idle"
  /\ Exit("killed") /\ UNCHANGED <<saved, uploaded>>

-----------------------------------------------------------------------------
(* _worker: one pool thread carries one task through POST, poll and mark.  *)

Uploading == phase \in {"upload", "draining"}
InFlight == {d \in Dirs : pc[d] \in Busy}

(* Mutant of FinishBad: the worker returns without reporting the failure. *)
MutFinishSilently(d) ==
  /\ pc' = [pc EXCEPT ![d] = "done"]
  /\ UNCHANGED tracker

(* tracker.finish(ok=False) *)
FinishBad(d) ==
  /\ pc' = [pc EXCEPT ![d] = "done"]
  /\ failed' = failed \cup {d}
  /\ UNCHANGED ok

StartTask(d) ==
  /\ Uploading /\ pc[d] = "queued" /\ Cardinality(InFlight) < threads
  /\ pc' = [pc EXCEPT ![d] = "post"]
  /\ UNCHANGED <<persistent, main, completed, attempt, left, backend, tracker>>

(* 2xx with an _id. *)
PostAccepted(d) ==
  /\ Uploading /\ pc[d] = "post"
  /\ doc' = [doc EXCEPT ![d] = "pending"]
  /\ pc' = [pc EXCEPT ![d] = "poll"]
  /\ UNCHANGED <<persistent, main, completed, attempt, left, stray, tracker>>

(* 2xx whose body has no usable _id. *)
PostUnconfirmed(d) ==
  /\ Uploading /\ pc[d] = "post"
  /\ stray' = [stray EXCEPT ![d] = TRUE]
  /\ FinishBad(d)
  /\ UNCHANGED <<persistent, main, completed, attempt, left, doc>>

(* 4xx, or the artifact or the configuration is missing: fatal. *)
PostRejected(d) ==
  /\ Uploading /\ pc[d] = "post"
  /\ FinishBad(d)
  /\ UNCHANGED <<persistent, main, completed, attempt, left, backend>>

(* Mutant of PostTransient: one attempt more than the limit. *)
MutOneAttemptMore(d) ==
  /\ Uploading /\ pc[d] = "post" /\ attempt[d] <= MaxAttempts
  /\ attempt' = [attempt EXCEPT ![d] = @ + 1]
  /\ UNCHANGED <<persistent, main, completed, pc, left, backend, tracker>>

(* TransportError or 5xx: the backend may have taken the file all the same. *)
PostTransient(d) ==
  /\ Uploading /\ pc[d] = "post"
  /\ \E taken \in BOOLEAN : stray' = [stray EXCEPT ![d] = @ \/ taken]
  /\ \/ /\ attempt[d] < MaxAttempts
        /\ attempt' = [attempt EXCEPT ![d] = @ + 1]
        /\ UNCHANGED <<pc, tracker>>
     \/ /\ attempt[d] = MaxAttempts
        /\ FinishBad(d)
        /\ UNCHANGED attempt
  /\ UNCHANGED <<persistent, main, completed, left, doc>>

(* elapsed >= overall_timeout at the top of the poll loop. *)
PollDeadline(d) ==
  /\ Uploading /\ pc[d] = "poll" /\ left[d] = 0
  /\ FinishBad(d)
  /\ UNCHANGED <<persistent, main, completed, attempt, left, backend>>

(* GET fails, answers >= 400, or its body cannot be read. *)
PollError(d) ==
  /\ Uploading /\ pc[d] = "poll" /\ left[d] > 0
  /\ FinishBad(d)
  /\ UNCHANGED <<persistent, main, completed, attempt, left, backend>>

(* Mutant of PollPending: an answer "pending" moves the deadline on. *)
MutPollForever(d) ==
  /\ Uploading /\ pc[d] = "poll" /\ left[d] > 0 /\ doc[d] = "pending"
  /\ left' = [left EXCEPT ![d] = IF @ = 1 THEN MaxPolls ELSE @ - 1]
  /\ UNCHANGED <<persistent, main, completed, pc, attempt, backend, tracker>>

PollPending(d) ==
  /\ Uploading /\ pc[d] = "poll" /\ left[d] > 0 /\ doc[d] = "pending"
  /\ left' = [left EXCEPT ![d] = @ - 1]
  /\ UNCHANGED <<persistent, main, completed, pc, attempt, backend, tracker>>

(* Mutant of PollTerminal: any terminal status counts as success. *)
MutTerminalIsActive(d) ==
  /\ Uploading /\ pc[d] = "poll" /\ left[d] > 0
  /\ doc[d] \in {"active", "error"}
  /\ pc' = [pc EXCEPT ![d] = "mark"]
  /\ UNCHANGED <<persistent, main, completed, attempt, left, backend, tracker>>

PollTerminal(d) ==
  /\ Uploading /\ pc[d] = "poll" /\ left[d] > 0
  /\ \/ /\ doc[d] = "active"
        /\ pc' = [pc EXCEPT ![d] = "mark"]
        /\ UNCHANGED tracker
     \/ /\ doc[d] = "error"
        /\ FinishBad(d)
  /\ UNCHANGED <<persistent, main, completed, attempt, left, backend>>

(* Mutant of MarkDone: a worker saves the set it read before it was        *)
(* scheduled, losing what the others recorded meanwhile.                   *)
MutMarkLosesOthers(d) ==
  /\ Uploading /\ pc[d] = "mark"
  /\ completed' = completed \cup {RepoName[d]}
  /\ Save({RepoName[d]})
  /\ pc' = [pc EXCEPT ![d] = "marked"]
  /\ UNCHANGED <<uploaded, session, outcome, main, attempt, left, backend, tracker>>

(* state.mark_done: add the name and save, under the state's lock. *)
MarkDone(d) ==
  /\ Uploading /\ pc[d] = "mark"
  /\ completed' = completed \cup {RepoName[d]}
  /\ Save(completed')
  /\ pc' = [pc EXCEPT ![d] = "marked"]
  /\ UNCHANGED <<uploaded, session, outcome, main, attempt, left, backend, tracker>>

(* tracker.finish(ok=True) *)
FinishOk(d) ==
  /\ Uploading /\ pc[d] = "marked"
  /\ pc' = [pc EXCEPT ![d] = "done"]
  /\ ok' = ok \cup {d}
  /\ UNCHANGED <<persistent, main, completed, attempt, left, backend, failed>>

-----------------------------------------------------------------------------
(* The backend (external): it settles each document when it likes, and     *)
(* need not settle it at all.                                              *)

BackendSettles(d) ==
  /\ doc[d] = "pending"
  /\ \/ /\ doc' = [doc EXCEPT ![d] = "active"]
        /\ uploaded' = uploaded \cup {d}
     \/ /\ doc' = [doc EXCEPT ![d] = "error"]
        /\ UNCHANGED uploaded
  /\ UNCHANGED <<saved, session, outcome, main, completed, worker, stray, tracker>>

BackendSettlesStray(d) ==
  /\ stray[d]
  /\ stray' = [stray EXCEPT ![d] = FALSE]
  /\ uploaded' = uploaded \cup {d}
  /\ UNCHANGED <<saved, session, outcome, main, completed, worker, doc, tracker>>

-----------------------------------------------------------------------------

WorkerStep(d) ==
  \/ StartTask(d)
  \/ PostAccepted(d) \/ PostUnconfirmed(d) \/ PostRejected(d) \/ PostTransient(d)
  \/ PollDeadline(d) \/ PollError(d) \/ PollPending(d) \/ PollTerminal(d)
  \/ MarkDone(d) \/ FinishOk(d)

MainStep ==
  \/ \E d \in Dirs : Analyze(d)
  \/ AnalysisRaises \/ NothingToUpload \/ BeginUpload \/ SubmitRaises
  \/ FinishFailed \/ FinishComplete \/ DrainDone

UserStep ==
  \/ \E sel \in (SUBSET Dirs) \ {{}} :
       \/ \E force \in BOOLEAN : StartBatch(sel, force)
       \/ AllAlreadyUploaded(sel)
  \/ Interrupt \/ Kill

Next ==
  \/ \E d \in Dirs : WorkerStep(d) \/ BackendSettles(d) \/ BackendSettlesStray(d)
  \/ MainStep \/ UserStep

Spec == Init /\ [][Next]_vars

(* Threads and the main loop are scheduled; the user and the backend owe   *)
(* nothing.                                                                *)
FairSpec ==
  /\ Spec
  /\ WF_vars(MainStep)
  /\ \A d \in Dirs : WF_vars(WorkerStep(d))

-----------------------------------------------------------------------------
(* What must hold.                                                         *)

(* The resume file, and the set every save writes, name only repositories  *)
(* whose ontology the backend has made active: never one that was merely   *)
(* accepted, failed, timed out or was processed under another name.        *)
CheckpointSound ==
  \A n \in saved \cup completed : \E d \in uploaded : RepoName[d] = n

(* A repository counted as uploaded is in the file: whatever kills the     *)
(* process next, the progress is not lost, and no worker's save undoes the *)
(* save of another.                                                        *)
ProgressIsDurable ==
  \A d \in Dirs : d \in ok \/ pc[d] = "marked" => RepoName[d] \in saved

(* While a session uploads, the file only grows: progress recorded by      *)
(* earlier sessions, for projects this one did not even select, survives.  *)
ProgressIsKept ==
  [][Uploading /\ Uploading' => saved \subseteq saved']_vars

(* The resume filter skips only what was uploaded since the file was last  *)
(* discarded (docs/USER_GUIDE.md: "already-uploaded projects are skipped"). *)
SkippedWereUploaded ==
  [][session' # session => skipped' \subseteq uploaded]_vars

(* "All N upload(s) complete", exit 0 and the removal of the state file    *)
(* happen only when every project the session skipped or had an artifact   *)
(* for is active at the backend.                                           *)
CompleteMeansUploaded ==
  [][phase # "idle" /\ outcome' = "complete" => skipped \cup tasks \subseteq uploaded]_vars

(* When the pool has drained, every submitted task has been reported       *)
(* exactly once, on one side: no early return of the worker leaves a task  *)
(* neither done nor failed.                                                *)
EveryTaskReported ==
  Uploading /\ PoolDone =>
    /\ ok \cap failed = {}
    /\ ok \cup failed = {d \in Dirs : pc[d] = "done"}
    /\ ~ escaped => ok \cup failed = tasks

(* Whatever the backend does, even if it never settles a document, a       *)
(* session ends: retries and polls are bounded.                            *)
SessionEnds == phase # "idle" ~> phase = "idle"

(* With repository names equal to subdirectory names, a session implements *)
(* the promise of ResumableUpload.                                         *)
Promise == INSTANCE ResumableUpload WITH
  confirmed <- uploaded,
  ledger <- {d \in Dirs : d \in saved},
  trusted <- skipped,
  todo <- tasks,
  verdict <- IF phase # "idle" THEN "running"
             ELSE IF outcome \in {"complete", "alreadyDone"} THEN "complete"
             ELSE "incomplete"

(* Every step of the command, with its threads, crashes and files, is a    *)
(* step of the promise or changes nothing the promise talks about.         *)
KeepsPromise == Promise!Spec
=============================================================================
