------------------------- MODULE BatchUploadProofs -------------------------
(***************************************************************************)
(* Theorems about BatchUpload, for every workspace, every limit and every  *)
(* number of sessions.  The faults and the naming a theorem excludes are   *)
(* named in its ASSUME.                                                    *)
(***************************************************************************)
EXTENDS BatchUpload, FiniteSetTheorems, TLAPS

LEMMA PoolSizeIsNat ==
  ASSUME TypeOK
  PROVE  PoolSize \in Nat /\ PoolSize >= 1
<1>1. IsFiniteSet(tasks)
  BY BatchAssumption, FS_Subset DEF TypeOK
<1>2. Cardinality(tasks) \in Nat
  BY <1>1, FS_CardinalityType
<1>3. QED
  BY <1>2, BatchAssumption DEF PoolSize, MinNat

LEMMA FreshMemoryTyped ==
  ASSUME FreshMemory
  PROVE  /\ completed' = {} /\ toAnalyze' = {} /\ threads' = 0 /\ escaped' = FALSE
         /\ pc' \in [Dirs -> Busy \cup {"none", "queued", "done"}]
         /\ attempt' \in [Dirs -> 1..MaxAttempts]
         /\ left' \in [Dirs -> 0..MaxPolls]
         /\ doc' \in [Dirs -> {"none", "pending", "active", "error"}]
         /\ stray' \in [Dirs -> BOOLEAN]
         /\ ok' = {} /\ failed' = {}
<1>1. 1 \in 1..MaxAttempts /\ MaxPolls \in 0..MaxPolls
  BY BatchAssumption
<1>2. QED
  BY <1>1 DEF FreshMemory

LEMMA InitTyped == Init => TypeOK
<1> SUFFICES ASSUME Init PROVE TypeOK
  OBVIOUS
<1>1. 1 \in 1..MaxAttempts /\ MaxPolls \in 0..MaxPolls /\ 0 \in 0..MaxSessions
  BY BatchAssumption
<1>2. /\ pc \in [Dirs -> Busy \cup {"none", "queued", "done"}]
      /\ attempt \in [Dirs -> 1..MaxAttempts] /\ left \in [Dirs -> 0..MaxPolls]
      /\ doc \in [Dirs -> {"none", "pending", "active", "error"}]
      /\ stray \in [Dirs -> BOOLEAN]
  BY <1>1 DEF Init
<1>3. QED
  BY <1>1, <1>2 DEF Init, TypeOK

(* Everything Exit leaves behind is typed, once the caller has settled the *)
(* state file.                                                             *)
LEMMA ExitTyped ==
  ASSUME TypeOK, NEW how, Exit(how), saved' \in SUBSET Names, uploaded' \in SUBSET Dirs,
         how \in {"complete", "nothing", "failed", "aborted", "interrupted", "killed"}
  PROVE  TypeOK'
<1>1. FreshMemory
  BY DEF Exit
<1>2. QED
  BY <1>1, FreshMemoryTyped, 0 \in Nat DEF TypeOK, Exit

LEMMA ClearTyped ==
  ASSUME TypeOK, ClearState
  PROVE  saved' \in SUBSET Names /\ uploaded' \in SUBSET Dirs
BY DEF TypeOK, ClearState

LEMMA WorkerTyped ==
  ASSUME TypeOK, NEW d \in Dirs, WorkerStep(d)
  PROVE  TypeOK'
<1> USE DEF TypeOK, persistent, main, worker, backend, tracker, Busy
<1>1. CASE StartTask(d)
  BY <1>1 DEF StartTask
<1>2. CASE PostAccepted(d)
  BY <1>2 DEF PostAccepted
<1>3. CASE PostUnconfirmed(d)
  BY <1>3 DEF PostUnconfirmed, FinishBad
<1>4. CASE PostRejected(d)
  BY <1>4 DEF PostRejected, FinishBad
<1>5. CASE PostTransient(d)
  <2>1. stray' \in [Dirs -> BOOLEAN]
    BY <1>5 DEF PostTransient
  <2>2. CASE attempt[d] < MaxAttempts /\ attempt' = [attempt EXCEPT ![d] = @ + 1]
             /\ UNCHANGED <<pc, tracker>>
    BY <1>5, <2>1, <2>2, BatchAssumption DEF PostTransient
  <2>3. CASE FinishBad(d) /\ UNCHANGED attempt
    BY <1>5, <2>1, <2>3 DEF PostTransient, FinishBad
  <2>4. QED
    BY <1>5, <2>2, <2>3 DEF PostTransient
<1>6. CASE PollDeadline(d)
  BY <1>6 DEF PollDeadline, FinishBad
<1>7. CASE PollError(d)
  BY <1>7 DEF PollError, FinishBad
<1>8. CASE PollPending(d)
  BY <1>8, BatchAssumption DEF PollPending
<1>9. CASE PollTerminal(d)
  BY <1>9 DEF PollTerminal, FinishBad
<1>10. CASE MarkDone(d)
  <2>1. RepoName[d] \in Names
    BY BatchAssumption
  <2>2. completed' \in SUBSET Names /\ saved' \in SUBSET Names
    BY <1>10, <2>1 DEF MarkDone, Save
  <2>3. QED
    BY <1>10, <2>2 DEF MarkDone
<1>11. CASE FinishOk(d)
  BY <1>11 DEF FinishOk
<1>12. QED
  BY <1>1, <1>2, <1>3, <1>4, <1>5, <1>6, <1>7, <1>8, <1>9, <1>10, <1>11 DEF WorkerStep

LEMMA BackendTyped ==
  ASSUME TypeOK, NEW d \in Dirs, BackendSettles(d) \/ BackendSettlesStray(d)
  PROVE  TypeOK'
BY DEF TypeOK, BackendSettles, BackendSettlesStray, main, worker, tracker

LEMMA MainTyped ==
  ASSUME TypeOK, MainStep
  PROVE  TypeOK'
<1>1. ASSUME NEW d \in Dirs, Analyze(d) PROVE TypeOK'
  BY <1>1 DEF TypeOK, Analyze, persistent, worker, backend, tracker
<1>2. CASE AnalysisRaises
  BY <1>2, ExitTyped DEF AnalysisRaises, TypeOK
<1>3. CASE NothingToUpload
  BY <1>3, ExitTyped DEF NothingToUpload, TypeOK
<1>4. CASE BeginUpload
  BY <1>4, PoolSizeIsNat DEF TypeOK, BeginUpload, persistent, backend, tracker, Busy
<1>5. CASE SubmitRaises
  <2>1. PICK t \in 0..(PoolSize - 1), S \in SUBSET tasks :
          /\ threads' = t
          /\ pc' = [d \in Dirs |-> IF d \in S /\ t > 0 THEN "queued" ELSE "none"]
    BY <1>5 DEF SubmitRaises
  <2>2. threads' \in Nat /\ pc' \in [Dirs -> Busy \cup {"none", "queued", "done"}]
    BY <2>1, PoolSizeIsNat DEF Busy
  <2>3. QED
    BY <1>5, <2>2 DEF TypeOK, SubmitRaises, persistent, backend, tracker
<1>6. CASE FinishFailed
  BY <1>6, ExitTyped DEF FinishFailed, TypeOK
<1>7. CASE FinishComplete
  BY <1>7, ExitTyped, ClearTyped DEF FinishComplete
<1>8. CASE DrainDone
  BY <1>8, ExitTyped DEF DrainDone, TypeOK
<1>9. QED
  BY <1>1, <1>2, <1>3, <1>4, <1>5, <1>6, <1>7, <1>8 DEF MainStep

LEMMA UserTyped ==
  ASSUME TypeOK, UserStep
  PROVE  TypeOK'
<1>1. ASSUME NEW sel \in SUBSET Dirs, NEW force \in BOOLEAN, StartBatch(sel, force)
      PROVE  TypeOK'
  <2>1. PICK names \in Loaded :
          /\ completed' = IF force THEN {} ELSE names
          /\ skipped' = sel \cap (IF force THEN {} ELSE names)
          /\ toAnalyze' = sel \ (IF force THEN {} ELSE names)
    BY <1>1 DEF StartBatch
  <2>2. names \in SUBSET Names
    BY <2>1 DEF Loaded, TypeOK
  <2>3. completed' \in SUBSET Names /\ skipped' \in SUBSET Dirs /\ toAnalyze' \in SUBSET Dirs
    BY <2>1, <2>2
  <2>4. saved' \in SUBSET Names /\ uploaded' \in SUBSET Dirs
    BY <1>1, ClearTyped DEF StartBatch, TypeOK
  <2>5. session' \in 0..MaxSessions
    BY <1>1, BatchAssumption DEF StartBatch, TypeOK
  <2>6. QED
    BY <1>1, <2>3, <2>4, <2>5 DEF TypeOK, StartBatch, worker, backend, tracker
<1>2. ASSUME NEW sel \in SUBSET Dirs, AllAlreadyUploaded(sel) PROVE TypeOK'
  <2>1. session' \in 0..MaxSessions
    BY <1>2, BatchAssumption DEF AllAlreadyUploaded, TypeOK
  <2>2. QED
    BY <1>2, <2>1, ClearTyped DEF AllAlreadyUploaded, TypeOK, worker, backend, tracker
<1>3. CASE Interrupt
  <2>1. CASE phase = "analyze"
    BY <1>3, <2>1, ExitTyped DEF Interrupt, TypeOK
  <2>2. CASE phase = "upload"
    BY <1>3, <2>2 DEF Interrupt, TypeOK, persistent, worker, backend, tracker
  <2>3. QED
    BY <1>3, <2>1, <2>2 DEF Interrupt
<1>4. CASE Kill
  BY <1>4, ExitTyped DEF Kill, TypeOK
<1>5. QED
  BY <1>1, <1>2, <1>3, <1>4 DEF UserStep

LEMMA NextTyped == TypeOK /\ [Next]_vars => TypeOK'
<1> SUFFICES ASSUME TypeOK, [Next]_vars PROVE TypeOK'
  OBVIOUS
<1>1. CASE Next
  BY <1>1, WorkerTyped, BackendTyped, MainTyped, UserTyped DEF Next
<1>2. CASE UNCHANGED vars
  BY <1>2 DEF TypeOK, vars, persistent, main, worker, backend, tracker
<1>3. QED
  BY <1>1, <1>2

(* Every reachable state is well typed: the phases, the worker counters    *)
(* (attempts and remaining polls) and the sets stay within their ranges.   *)
THEOREM TypeCorrect == Spec => []TypeOK
<1>1. QED
  BY InitTyped, NextTyped, PTL DEF Spec

-----------------------------------------------------------------------------
(* Checkpoints are sound.  CheckpointSound alone is not inductive: MarkDone *)
(* adds a name because its worker saw the document active, and the next    *)
(* session trusts the file because the previous process left nothing else  *)
(* behind.                                                                 *)

SeenActive(d) == doc[d] = "active" \/ pc[d] \in {"mark", "marked"} \/ d \in ok

(* What a worker saw active was, and a session leaves no worker behind. *)
SeenInv ==
  /\ \A d \in Dirs : SeenActive(d) => d \in uploaded
  /\ phase = "idle" => /\ ok = {}
                       /\ \A d \in Dirs : pc[d] = "none" /\ doc[d] = "none" /\ ~ stray[d]

LEMMA InitSeen == Init => SeenInv
BY DEF Init, SeenInv, SeenActive

LEMMA ExitSeen ==
  ASSUME NEW how, Exit(how)
  PROVE  SeenInv'
<1>1. ok' = {} /\ \A d \in Dirs : pc'[d] = "none" /\ doc'[d] = "none" /\ stray'[d] = FALSE
  BY DEF Exit, FreshMemory
<1>2. QED
  BY <1>1 DEF SeenInv, SeenActive

(* A step that shows no worker a new active document. *)
LEMMA QuietSeen ==
  ASSUME SeenInv, phase # "idle", phase' # "idle", uploaded \subseteq uploaded',
         \A d \in Dirs : SeenActive(d)' => SeenActive(d) \/ d \in uploaded'
  PROVE  SeenInv'
BY DEF SeenInv

LEMMA WorkerSeen ==
  ASSUME TypeOK, SeenInv, NEW d \in Dirs, WorkerStep(d)
  PROVE  SeenInv' /\ phase # "idle" /\ phase' # "idle" /\ uploaded' = uploaded
<1> USE DEF persistent, main, worker, backend, tracker
<1>1. phase # "idle" /\ phase' # "idle" /\ uploaded' = uploaded
  BY DEF WorkerStep, Uploading, StartTask, PostAccepted, PostUnconfirmed, PostRejected,
         PostTransient, PollDeadline, PollError, PollPending, PollTerminal, MarkDone, FinishOk
<1>2. \A e \in Dirs : SeenActive(e)' => SeenActive(e)
  <2>1. CASE StartTask(d) \/ PostAccepted(d) \/ PollPending(d) \/ MarkDone(d) \/ FinishOk(d)
    BY <2>1 DEF StartTask, PostAccepted, PollPending, MarkDone, FinishOk, SeenActive, TypeOK
  <2>2. CASE PostUnconfirmed(d) \/ PostRejected(d) \/ PollDeadline(d) \/ PollError(d)
    BY <2>2 DEF PostUnconfirmed, PostRejected, PollDeadline, PollError, FinishBad, SeenActive, TypeOK
  <2>3. CASE PostTransient(d) \/ PollTerminal(d)
    BY <2>3 DEF PostTransient, PollTerminal, FinishBad, SeenActive, TypeOK
  <2>4. QED
    BY <2>1, <2>2, <2>3 DEF WorkerStep
<1>3. QED
  BY <1>1, <1>2, QuietSeen

LEMMA BackendSeen ==
  ASSUME TypeOK, SeenInv, NEW d \in Dirs, BackendSettles(d) \/ BackendSettlesStray(d)
  PROVE  /\ SeenInv' /\ phase # "idle" /\ phase' = phase
         /\ uploaded \subseteq uploaded' /\ UNCHANGED <<saved, completed>>
<1> USE DEF main, worker, tracker
<1>1. phase # "idle" /\ phase' = phase
  BY DEF SeenInv, BackendSettles, BackendSettlesStray
<1>2. uploaded \subseteq uploaded' /\ UNCHANGED <<saved, completed>>
  BY DEF BackendSettles, BackendSettlesStray
<1>3. \A e \in Dirs : SeenActive(e)' => SeenActive(e) \/ e \in uploaded'
  BY DEF BackendSettles, BackendSettlesStray, SeenActive, TypeOK
<1>4. QED
  BY <1>1, <1>2, <1>3, QuietSeen

LEMMA MainSeen ==
  ASSUME TypeOK, SeenInv, MainStep
  PROVE  SeenInv'
<1> USE DEF persistent, worker, backend, tracker
<1>1. ASSUME NEW d \in Dirs, Analyze(d) PROVE SeenInv'
  BY <1>1 DEF Analyze, SeenInv, SeenActive
<1>2. CASE AnalysisRaises \/ NothingToUpload \/ FinishFailed \/ FinishComplete \/ DrainDone
  BY <1>2, ExitSeen DEF AnalysisRaises, NothingToUpload, FinishFailed, FinishComplete, DrainDone
<1>3. CASE BeginUpload \/ SubmitRaises
  <2>1. \A d \in Dirs : pc'[d] \in {"none", "queued"}
    BY <1>3 DEF BeginUpload, SubmitRaises
  <2>2. phase # "idle" /\ phase' # "idle" /\ UNCHANGED <<persistent, doc, ok>>
    BY <1>3 DEF BeginUpload, SubmitRaises
  <2>3. \A d \in Dirs : SeenActive(d)' => SeenActive(d)
    BY <2>1, <2>2 DEF SeenActive
  <2>4. QED
    BY <2>2, <2>3, QuietSeen
<1>4. QED
  BY <1>1, <1>2, <1>3 DEF MainStep

LEMMA UserSeen ==
  ASSUME SeenInv, UserStep
  PROVE  SeenInv'
<1> USE DEF persistent, worker, backend, tracker
<1>1. ASSUME NEW sel \in SUBSET Dirs, NEW force \in BOOLEAN,
             StartBatch(sel, force) \/ AllAlreadyUploaded(sel)
      PROVE  SeenInv'
  <2>1. phase = "idle" /\ UNCHANGED <<pc, doc, ok, stray>>
    BY <1>1 DEF StartBatch, AllAlreadyUploaded
  <2>2. QED
    BY <2>1 DEF SeenInv, SeenActive
<1>2. CASE Interrupt \/ Kill
  BY <1>2, ExitSeen DEF Interrupt, Kill, SeenInv, SeenActive
<1>3. QED
  BY <1>1, <1>2 DEF UserStep

LEMMA NextSeen == TypeOK /\ SeenInv /\ [Next]_vars => SeenInv'
<1> SUFFICES ASSUME TypeOK, SeenInv, [Next]_vars PROVE SeenInv'
  OBVIOUS
<1>1. CASE Next
  BY <1>1, WorkerSeen, BackendSeen, MainSeen, UserSeen DEF Next
<1>2. CASE UNCHANGED vars
  BY <1>2 DEF vars, persistent, main, worker, backend, tracker, SeenInv, SeenActive
<1>3. QED
  BY <1>1, <1>2

SoundInv ==
  /\ SeenInv /\ CheckpointSound
  /\ phase = "idle" => completed = {}

LEMMA InitSound == Init => SoundInv
BY InitSeen DEF Init, SoundInv, CheckpointSound

LEMMA ExitSound ==
  ASSUME SoundInv, NEW how, Exit(how), UNCHANGED <<saved, uploaded>>
  PROVE  SoundInv'
<1>1. completed' = {}
  BY DEF Exit, FreshMemory
<1>2. QED
  BY <1>1, ExitSeen DEF SoundInv, CheckpointSound

LEMMA ClearSound ==
  ASSUME "unlink" \notin Faults, ClearState
  PROVE  saved' = {} /\ uploaded' = {}
BY DEF ClearState

LEMMA WorkerSound ==
  ASSUME TypeOK, SoundInv, NEW d \in Dirs, WorkerStep(d)
  PROVE  SoundInv'
<1> USE DEF persistent, main, worker, backend, tracker
<1>1. SeenInv' /\ phase' # "idle" /\ uploaded' = uploaded
  BY WorkerSeen DEF SoundInv
<1>2. CASE MarkDone(d)
  <2>1. d \in uploaded
    BY <1>2 DEF SoundInv, SeenInv, SeenActive, MarkDone
  <2>2. completed' = completed \cup {RepoName[d]} /\ saved' \in {saved, completed'}
    BY <1>2 DEF MarkDone, Save
  <2>3. QED
    BY <1>1, <2>1, <2>2 DEF SoundInv, CheckpointSound
<1>3. CASE ~ MarkDone(d)
  <2>1. UNCHANGED <<saved, completed>>
    BY <1>3 DEF WorkerStep, StartTask, PostAccepted, PostUnconfirmed, PostRejected,
         PostTransient, PollDeadline, PollError, PollPending, PollTerminal, FinishOk
  <2>2. QED
    BY <1>1, <2>1 DEF SoundInv, CheckpointSound
<1>4. QED
  BY <1>2, <1>3

LEMMA MainSound ==
  ASSUME "unlink" \notin Faults, TypeOK, SoundInv, MainStep
  PROVE  SoundInv'
<1> USE DEF persistent, worker, backend, tracker
<1>1. SeenInv'
  BY MainSeen DEF SoundInv
<1>2. CASE AnalysisRaises \/ NothingToUpload \/ FinishFailed \/ DrainDone
  BY <1>2, ExitSound DEF AnalysisRaises, NothingToUpload, FinishFailed, DrainDone
<1>3. CASE BeginUpload \/ SubmitRaises \/ \E d \in Dirs : Analyze(d)
  <2>1. phase' # "idle" /\ UNCHANGED <<saved, completed, uploaded>>
    BY <1>3 DEF BeginUpload, SubmitRaises, Analyze
  <2>2. QED
    BY <1>1, <2>1 DEF SoundInv, CheckpointSound
<1>4. CASE FinishComplete
  <2>1. saved' = {} /\ completed' = {}
    BY <1>4, ClearSound DEF FinishComplete, Exit, FreshMemory
  <2>2. QED
    BY <1>1, <2>1 DEF SoundInv, CheckpointSound
<1>5. QED
  BY <1>2, <1>3, <1>4 DEF MainStep

LEMMA UserSound ==
  ASSUME "unlink" \notin Faults, TypeOK, SoundInv, UserStep
  PROVE  SoundInv'
<1> USE DEF persistent, worker, backend, tracker
<1>1. SeenInv'
  BY UserSeen DEF SoundInv
<1>2. ASSUME NEW sel \in SUBSET Dirs, NEW force \in BOOLEAN, StartBatch(sel, force)
      PROVE  SoundInv'
  <2>1. phase' # "idle"
    BY <1>2 DEF StartBatch
  <2>2. CASE force
    <3>1. completed' = {} /\ saved' = {}
      BY <1>2, <2>2, ClearSound DEF StartBatch
    <3>2. QED
      BY <1>1, <2>1, <3>1 DEF SoundInv, CheckpointSound
  <2>3. CASE ~ force
    <3>1. completed' \subseteq saved /\ UNCHANGED <<saved, uploaded>>
      BY <1>2, <2>3 DEF StartBatch, Loaded
    <3>2. QED
      BY <1>1, <2>1, <3>1 DEF SoundInv, CheckpointSound
  <2>4. QED
    BY <2>2, <2>3
<1>3. ASSUME NEW sel \in SUBSET Dirs, AllAlreadyUploaded(sel) PROVE SoundInv'
  BY <1>1, <1>3, ClearSound DEF AllAlreadyUploaded, SoundInv, CheckpointSound
<1>4. CASE Interrupt
  <2>1. CASE phase = "analyze"
    BY <1>4, <2>1, ExitSound DEF Interrupt
  <2>2. CASE phase = "upload"
    BY <1>1, <1>4, <2>2 DEF Interrupt, SoundInv, CheckpointSound
  <2>3. QED
    BY <1>4, <2>1, <2>2 DEF Interrupt
<1>5. CASE Kill
  BY <1>5, ExitSound DEF Kill
<1>6. QED
  BY <1>2, <1>3, <1>4, <1>5 DEF UserStep

LEMMA NextSound ==
  ASSUME "unlink" \notin Faults
  PROVE  TypeOK /\ SoundInv /\ [Next]_vars => SoundInv'
<1> SUFFICES ASSUME TypeOK, SoundInv, [Next]_vars PROVE SoundInv'
  OBVIOUS
<1>1. ASSUME NEW d \in Dirs, BackendSettles(d) \/ BackendSettlesStray(d) PROVE SoundInv'
  BY <1>1, BackendSeen DEF SoundInv, CheckpointSound
<1>2. CASE Next
  BY <1>1, <1>2, WorkerSound, MainSound, UserSound DEF Next
<1>3. CASE UNCHANGED vars
  BY <1>3, NextSeen DEF vars, persistent, main, SoundInv, CheckpointSound
<1>4. QED
  BY <1>2, <1>3

(* As long as the state file can be unlinked when the command asks for it, *)
(* it names only repositories the backend has made active, for every       *)
(* naming of the repositories (links included), every other fault, every   *)
(* interleaving of the workers and every point at which a run is killed.   *)
THEOREM CheckpointsAreSound ==
  ASSUME "unlink" \notin Faults
  PROVE  Spec => []CheckpointSound
<1>1. SoundInv => CheckpointSound
  BY DEF SoundInv
<1>2. QED
  BY <1>1, TypeCorrect, InitSound, NextSound, PTL DEF Spec

-----------------------------------------------------------------------------
(* What a session says is true.  The session's own record (pc, ok, failed) *)
(* has to cover every task, and what it skipped has to stay confirmed      *)
(* until it exits.                                                         *)

NamesAgree == \A d \in Dirs : RepoName[d] = d

ReportInv ==
  /\ escaped = FALSE
  /\ phase # "idle" => skipped \subseteq uploaded /\ outcome = "none"
  /\ Uploading => \A d \in tasks : pc[d] # "none"
  /\ \A d \in Dirs : pc[d] = "done" => d \in ok \cup failed

LEMMA InitReport == Init => ReportInv
BY DEF Init, ReportInv, Uploading

LEMMA ExitReport ==
  ASSUME NEW how, Exit(how)
  PROVE  ReportInv'
BY DEF Exit, FreshMemory, ReportInv, Uploading

(* The names in the file are subdirectories the resume filter may trust.   *)
LEMMA TrustedNames ==
  ASSUME TypeOK, NamesAgree, CheckpointSound, NEW d \in Dirs, d \in saved
  PROVE  d \in uploaded
BY DEF TypeOK, NamesAgree, CheckpointSound

LEMMA WorkerReport ==
  ASSUME TypeOK, ReportInv, NEW d \in Dirs, WorkerStep(d)
  PROVE  ReportInv'
<1> USE DEF persistent, main, worker, backend, tracker
<1>1. UNCHANGED <<main, uploaded, outcome>>
  BY DEF WorkerStep, StartTask, PostAccepted, PostUnconfirmed, PostRejected, PostTransient,
         PollDeadline, PollError, PollPending, PollTerminal, MarkDone, FinishOk
<1>2. \A e \in Dirs : pc[e] # "none" => pc'[e] # "none"
  BY DEF TypeOK, WorkerStep, StartTask, PostAccepted, PostUnconfirmed, PostRejected, PostTransient,
         PollDeadline, PollError, PollPending, PollTerminal, MarkDone, FinishOk, FinishBad
<1>3. ok \subseteq ok' /\ failed \subseteq failed'
  BY DEF WorkerStep, StartTask, PostAccepted, PostUnconfirmed, PostRejected, PostTransient,
         PollDeadline, PollError, PollPending, PollTerminal, MarkDone, FinishOk, FinishBad
<1>4. \A e \in Dirs : pc'[e] = "done" => pc[e] = "done" \/ e \in ok' \cup failed'
  BY DEF TypeOK, WorkerStep, StartTask, PostAccepted, PostUnconfirmed, PostRejected, PostTransient,
         PollDeadline, PollError, PollPending, PollTerminal, MarkDone, FinishOk, FinishBad
<1>5. tasks \subseteq Dirs
  BY DEF TypeOK
<1>6. QED
  BY <1>1, <1>2, <1>3, <1>4, <1>5 DEF ReportInv, Uploading

LEMMA OtherReport ==
  ASSUME NamesAgree, "unlink" \notin Faults, "thread" \notin Faults,
         TypeOK, SoundInv, ReportInv, MainStep \/ UserStep
  PROVE  ReportInv'
<1> USE DEF persistent, worker, backend, tracker
<1>1. ASSUME NEW d \in Dirs, Analyze(d) PROVE ReportInv'
  BY <1>1 DEF Analyze, ReportInv, Uploading
<1>2. CASE AnalysisRaises \/ NothingToUpload \/ FinishFailed \/ FinishComplete \/ DrainDone
  BY <1>2, ExitReport DEF AnalysisRaises, NothingToUpload, FinishFailed, FinishComplete, DrainDone
<1>3. CASE BeginUpload
  <2>1. \A d \in Dirs : pc'[d] = IF d \in tasks THEN "queued" ELSE "none"
    BY <1>3 DEF BeginUpload
  <2>2. QED
    BY <1>3, <2>1 DEF BeginUpload, ReportInv, TypeOK
<1>4. CASE SubmitRaises
  BY <1>4 DEF SubmitRaises
<1>5. ASSUME NEW sel \in SUBSET Dirs, NEW force \in BOOLEAN, StartBatch(sel, force)
      PROVE  ReportInv'
  <2>1. \A d \in Dirs : pc'[d] = "none"
    BY <1>5 DEF StartBatch, SoundInv, SeenInv
  <2>2. skipped' \subseteq uploaded'
    <3>1. CASE force
      BY <1>5, <3>1 DEF StartBatch
    <3>2. CASE ~ force
      BY <1>5, <3>2, TrustedNames DEF StartBatch, Loaded, SoundInv
    <3>3. QED
      BY <3>1, <3>2
  <2>3. QED
    BY <1>5, <2>1, <2>2 DEF StartBatch, ReportInv, Uploading
<1>6. ASSUME NEW sel \in SUBSET Dirs, AllAlreadyUploaded(sel) PROVE ReportInv'
  BY <1>6 DEF AllAlreadyUploaded, ReportInv, Uploading
<1>7. CASE Interrupt
  BY <1>7, ExitReport DEF Interrupt, ReportInv, Uploading
<1>8. CASE Kill
  BY <1>8, ExitReport DEF Kill
<1>9. QED
  BY <1>1, <1>2, <1>3, <1>4, <1>5, <1>6, <1>7, <1>8 DEF MainStep, UserStep

LEMMA NextReport ==
  ASSUME NamesAgree, "unlink" \notin Faults, "thread" \notin Faults
  PROVE  TypeOK /\ SoundInv /\ ReportInv /\ [Next]_vars => ReportInv'
<1> SUFFICES ASSUME TypeOK, SoundInv, ReportInv, [Next]_vars PROVE ReportInv'
  OBVIOUS
<1>1. ASSUME NEW d \in Dirs, BackendSettles(d) \/ BackendSettlesStray(d) PROVE ReportInv'
  BY <1>1 DEF BackendSettles, BackendSettlesStray, main, worker, tracker, ReportInv, Uploading
<1>2. CASE Next
  BY <1>1, <1>2, WorkerReport, OtherReport DEF Next
<1>3. CASE UNCHANGED vars
  BY <1>3 DEF vars, main, persistent, worker, tracker, ReportInv, Uploading
<1>4. QED
  BY <1>2, <1>3

(* "All N upload(s) complete" is true: every project the session skipped   *)
(* or had an artifact for is active at the backend, provided every pool    *)
(* thread can be started and repository names are subdirectory names.      *)
THEOREM CompletionIsTrue ==
  ASSUME NamesAgree, "unlink" \notin Faults, "thread" \notin Faults
  PROVE  Spec => CompleteMeansUploaded
<1>1. ASSUME TypeOK, SoundInv, ReportInv, [Next]_vars
      PROVE  [phase # "idle" /\ outcome' = "complete" => skipped \cup tasks \subseteq uploaded]_vars
  <2>1. SUFFICES ASSUME Next, phase # "idle", outcome' = "complete"
                 PROVE  skipped \cup tasks \subseteq uploaded
    BY <1>1
  <2>2. CASE FinishComplete
    <3>1. failed = {} /\ PoolDone /\ Uploading
      BY <1>1, <2>2 DEF FinishComplete, ReportedFailures, ReportInv, Uploading
    <3>2. \A d \in tasks : d \in ok
      BY <1>1, <3>1 DEF ReportInv, PoolDone, TypeOK
    <3>3. QED
      BY <1>1, <2>1, <3>2 DEF SoundInv, SeenInv, SeenActive, ReportInv, TypeOK
  <2>3. CASE ~ FinishComplete
    <3> USE DEF persistent, main, worker, backend, tracker
    <3>0. outcome = "none"
      BY <1>1, <2>1 DEF ReportInv
    <3>1. ASSUME NEW d \in Dirs, WorkerStep(d) \/ BackendSettles(d) \/ BackendSettlesStray(d)
          PROVE  outcome' = outcome
      BY <3>1 DEF WorkerStep, StartTask, PostAccepted, PostUnconfirmed, PostRejected,
           PostTransient, PollDeadline, PollError, PollPending, PollTerminal, MarkDone, FinishOk,
           BackendSettles, BackendSettlesStray
    <3>2. CASE MainStep
      BY <2>1, <2>3, <3>0, <3>2 DEF MainStep, Analyze, AnalysisRaises, NothingToUpload, BeginUpload,
           SubmitRaises, FinishFailed, DrainDone, Exit
    <3>3. CASE UserStep
      BY <2>1, <3>0, <3>3 DEF UserStep, StartBatch, AllAlreadyUploaded, Interrupt, Kill, Exit
    <3>4. QED
      BY <2>1, <3>0, <3>1, <3>2, <3>3 DEF Next
  <2>4. QED
    BY <2>2, <2>3
<1>2. QED
  BY <1>1, TypeCorrect, InitSound, NextSound, InitReport, NextReport, PTL
     DEF Spec, CompleteMeansUploaded

LEMMA SessionsStartAtStart ==
  ASSUME Next, session' # session
  PROVE  \E sel \in SUBSET Dirs :
           \/ \E force \in BOOLEAN : StartBatch(sel, force)
           \/ AllAlreadyUploaded(sel)
<1> USE DEF persistent, main, worker, backend, tracker
<1>1. ASSUME NEW d \in Dirs, WorkerStep(d) \/ BackendSettles(d) \/ BackendSettlesStray(d)
      PROVE  session' = session
  BY <1>1 DEF WorkerStep, StartTask, PostAccepted, PostUnconfirmed, PostRejected, PostTransient,
       PollDeadline, PollError, PollPending, PollTerminal, MarkDone, FinishOk,
       BackendSettles, BackendSettlesStray
<1>2. CASE MainStep
  BY <1>2 DEF MainStep, Analyze, AnalysisRaises, NothingToUpload, BeginUpload, SubmitRaises,
       FinishFailed, FinishComplete, DrainDone, Exit
<1>3. CASE UserStep
  BY <1>3 DEF UserStep, Interrupt, Kill, Exit
<1>4. QED
  BY <1>1, <1>2, <1>3 DEF Next

(* The skipped projects' names are names the backend knows as uploaded. *)
SkippedNamesAreUploaded ==
  [][session' # session => \A d \in skipped' : \E e \in uploaded : RepoName[e] = d]_vars

(* For every naming, links included, a session skips a project only if one *)
(* that reported that name is active at the backend.                       *)
THEOREM SkippingByName ==
  ASSUME "unlink" \notin Faults
  PROVE  Spec => SkippedNamesAreUploaded
<1>1. ASSUME SoundInv, [Next]_vars
      PROVE  [session' # session => \A d \in skipped' : \E e \in uploaded : RepoName[e] = d]_vars
  <2>1. SUFFICES ASSUME Next, session' # session
                 PROVE  \A d \in skipped' : \E e \in uploaded : RepoName[e] = d
    BY <1>1
  <2>2. PICK sel \in SUBSET Dirs :
          \/ \E force \in BOOLEAN : StartBatch(sel, force)
          \/ AllAlreadyUploaded(sel)
    BY <2>1, SessionsStartAtStart
  <2>3. skipped' \subseteq saved
    BY <2>2 DEF StartBatch, AllAlreadyUploaded, Loaded
  <2>4. QED
    BY <1>1, <2>3 DEF SoundInv, CheckpointSound
<1>2. QED
  BY <1>1, TypeCorrect, InitSound, NextSound, PTL DEF Spec, SkippedNamesAreUploaded

(* A session skips only repositories the backend has made active since the *)
(* state file was last discarded, when repository names are subdirectory   *)
(* names; SkippingByName says what is left when they are not.              *)
THEOREM SkippingIsSafe ==
  ASSUME NamesAgree, "unlink" \notin Faults
  PROVE  Spec => SkippedWereUploaded
<1>1. ASSUME TypeOK, SoundInv, [Next]_vars
      PROVE  [session' # session => skipped' \subseteq uploaded]_vars
  <2>1. SUFFICES ASSUME Next, session' # session PROVE skipped' \subseteq uploaded
    BY <1>1
  <2>2. PICK sel \in SUBSET Dirs :
          \/ \E force \in BOOLEAN : StartBatch(sel, force)
          \/ AllAlreadyUploaded(sel)
    BY <2>1, SessionsStartAtStart
  <2>3. \A d \in skipped' : d \in Dirs /\ d \in saved
    BY <2>2 DEF StartBatch, AllAlreadyUploaded, Loaded
  <2>4. QED
    BY <1>1, <2>3, TrustedNames DEF SoundInv
<1>2. QED
  BY <1>1, TypeCorrect, InitSound, NextSound, PTL DEF Spec, SkippedWereUploaded

-----------------------------------------------------------------------------
(* Progress is durable.  The set in memory has to hold every counted       *)
(* repository as well, because each save writes that set over the file.    *)

Counted(d) == d \in ok \/ pc[d] = "marked"

DurableInv ==
  \A d \in Dirs : Counted(d) => RepoName[d] \in saved /\ RepoName[d] \in completed

LEMMA QuietDurable ==
  ASSUME DurableInv, saved \subseteq saved', completed \subseteq completed',
         \A d \in Dirs : Counted(d)' => Counted(d)
  PROVE  DurableInv'
BY DEF DurableInv

LEMMA EmptyDurable ==
  ASSUME NEW how, Exit(how)
  PROVE  DurableInv'
<1>1. \A d \in Dirs : ~ Counted(d)'
  BY DEF Exit, FreshMemory, Counted
<1>2. QED
  BY <1>1 DEF DurableInv

LEMMA WorkerDurable ==
  ASSUME "save" \notin Faults, TypeOK, DurableInv, NEW d \in Dirs, WorkerStep(d)
  PROVE  DurableInv'
<1> USE DEF persistent, main, worker, backend, tracker
<1>1. CASE MarkDone(d)
  <2>1. saved' = completed \cup {RepoName[d]} /\ completed' = saved'
    BY <1>1 DEF MarkDone, Save
  <2>2. \A e \in Dirs : Counted(e)' => Counted(e) \/ e = d
    BY <1>1 DEF MarkDone, Counted, TypeOK
  <2>3. QED
    BY <2>1, <2>2 DEF DurableInv
<1>2. CASE FinishOk(d)
  <2>1. \A e \in Dirs : Counted(e)' => Counted(e)
    BY <1>2 DEF FinishOk, Counted, TypeOK
  <2>2. QED
    BY <1>2, <2>1, QuietDurable DEF FinishOk
<1>3. CASE ~ MarkDone(d) /\ ~ FinishOk(d)
  <2>1. UNCHANGED <<saved, completed, ok>>
    BY <1>3 DEF WorkerStep, StartTask, PostAccepted, PostUnconfirmed, PostRejected,
         PostTransient, PollDeadline, PollError, PollPending, PollTerminal, FinishBad
  <2>2. \A e \in Dirs : pc'[e] = "marked" => pc[e] = "marked"
    BY <1>3 DEF TypeOK, WorkerStep, StartTask, PostAccepted, PostUnconfirmed, PostRejected,
         PostTransient, PollDeadline, PollError, PollPending, PollTerminal, FinishBad
  <2>3. QED
    BY <2>1, <2>2, QuietDurable DEF Counted
<1>4. QED
  BY <1>1, <1>2, <1>3

LEMMA OtherDurable ==
  ASSUME SeenInv, DurableInv, MainStep \/ UserStep
  PROVE  DurableInv'
<1> USE DEF persistent, worker, backend, tracker
<1>1. ASSUME NEW d \in Dirs, Analyze(d) PROVE DurableInv'
  BY <1>1 DEF Analyze, DurableInv, Counted
<1>2. CASE AnalysisRaises \/ NothingToUpload \/ FinishFailed \/ FinishComplete \/ DrainDone
  BY <1>2, EmptyDurable DEF AnalysisRaises, NothingToUpload, FinishFailed, FinishComplete, DrainDone
<1>3. CASE BeginUpload \/ SubmitRaises
  <2>1. \A d \in Dirs : Counted(d)' => Counted(d)
    BY <1>3 DEF BeginUpload, SubmitRaises, Counted
  <2>2. QED
    BY <1>3, <2>1, QuietDurable DEF BeginUpload, SubmitRaises
<1>4. ASSUME NEW sel \in SUBSET Dirs, NEW force \in BOOLEAN,
             StartBatch(sel, force) \/ AllAlreadyUploaded(sel)
      PROVE  DurableInv'
  <2>1. \A d \in Dirs : ~ Counted(d)'
    BY <1>4 DEF SeenInv, StartBatch, AllAlreadyUploaded, Counted
  <2>2. QED
    BY <2>1 DEF DurableInv
<1>5. CASE Interrupt \/ Kill
  BY <1>5, EmptyDurable DEF Interrupt, Kill, DurableInv, Counted
<1>6. QED
  BY <1>1, <1>2, <1>3, <1>4, <1>5 DEF MainStep, UserStep

LEMMA NextDurable ==
  ASSUME "save" \notin Faults
  PROVE  TypeOK /\ SeenInv /\ DurableInv /\ [Next]_vars => DurableInv'
<1> SUFFICES ASSUME TypeOK, SeenInv, DurableInv, [Next]_vars PROVE DurableInv'
  OBVIOUS
<1>1. ASSUME NEW d \in Dirs, BackendSettles(d) \/ BackendSettlesStray(d) PROVE DurableInv'
  BY <1>1 DEF BackendSettles, BackendSettlesStray, main, worker, tracker, DurableInv, Counted
<1>2. CASE Next
  BY <1>1, <1>2, WorkerDurable, OtherDurable DEF Next
<1>3. CASE UNCHANGED vars
  BY <1>3 DEF vars, persistent, worker, tracker, DurableInv, Counted
<1>4. QED
  BY <1>2, <1>3

(* A repository counted as uploaded is in the state file, whatever the     *)
(* other workers save and whenever the process dies, as long as the file   *)
(* can be written.                                                         *)
THEOREM ProgressSurvives ==
  ASSUME "save" \notin Faults
  PROVE  Spec => []ProgressIsDurable
<1>1. Init => DurableInv
  BY DEF Init, DurableInv, Counted
<1>2. DurableInv => ProgressIsDurable
  BY DEF DurableInv, ProgressIsDurable, Counted
<1>3. QED
  BY <1>1, <1>2, TypeCorrect, InitSeen, NextSeen, NextDurable, PTL DEF Spec

-----------------------------------------------------------------------------
(* A session implements the promise: one lemma per kind of step.           *)

LEMMA StutterImplements ==
  ASSUME UNCHANGED <<uploaded, saved, skipped, tasks>>, phase # "idle", phase' # "idle"
  PROVE  UNCHANGED Promise!vars
BY DEF Promise!vars

LEMMA GiveUpImplements ==
  ASSUME UNCHANGED <<uploaded, saved>>, phase # "idle",
         NEW how, Exit(how), how \notin {"complete", "alreadyDone"}
  PROVE  Promise!Next
<1>1. Promise!GiveUp
  BY DEF Promise!GiveUp, Exit
<1>2. QED
  BY <1>1 DEF Promise!Next

LEMMA WorkerImplements ==
  ASSUME NamesAgree, TypeOK, TypeOK', SoundInv', NEW d \in Dirs, WorkerStep(d)
  PROVE  [Promise!Next]_(Promise!vars)
<1> USE DEF persistent, main, worker, backend, tracker
<1>1. phase # "idle" /\ phase' = phase /\ UNCHANGED <<uploaded, skipped, tasks, outcome>>
  BY DEF WorkerStep, Uploading, StartTask, PostAccepted, PostUnconfirmed, PostRejected,
         PostTransient, PollDeadline, PollError, PollPending, PollTerminal, MarkDone, FinishOk
<1>2. CASE MarkDone(d)
  <2>1. PICK S \in SUBSET Dirs : S = {e \in Dirs : e \in saved'}
    OBVIOUS
  <2>2. S \subseteq uploaded
    BY <1>1, <2>1 DEF NamesAgree, SoundInv, CheckpointSound, TypeOK
  <2>3. Promise!Record(S)
    BY <1>1, <2>1, <2>2 DEF Promise!Record
  <2>4. QED
    BY <2>1, <2>3 DEF Promise!Next
<1>3. CASE ~ MarkDone(d)
  <2>1. saved' = saved
    BY <1>3 DEF WorkerStep, StartTask, PostAccepted, PostUnconfirmed, PostRejected,
         PostTransient, PollDeadline, PollError, PollPending, PollTerminal, FinishOk
  <2>2. QED
    BY <1>1, <2>1, StutterImplements
<1>4. QED
  BY <1>2, <1>3

LEMMA BackendImplements ==
  ASSUME SoundInv, NEW d \in Dirs, BackendSettles(d) \/ BackendSettlesStray(d)
  PROVE  [Promise!Next]_(Promise!vars)
<1> USE DEF persistent, main, worker, tracker
<1>1. phase # "idle" /\ phase' = phase /\ UNCHANGED <<saved, skipped, tasks, outcome>>
  BY DEF SoundInv, SeenInv, BackendSettles, BackendSettlesStray
<1>2. CASE uploaded' = uploaded \cup {d}
  <2>1. Promise!Confirm(d)
    BY <1>1, <1>2 DEF Promise!Confirm
  <2>2. QED
    BY <2>1 DEF Promise!Next
<1>3. CASE uploaded' = uploaded
  BY <1>1, <1>3, StutterImplements
<1>4. QED
  BY <1>2, <1>3 DEF BackendSettles, BackendSettlesStray

LEMMA MainImplements ==
  ASSUME "unlink" \notin Faults, TypeOK, SoundInv, ReportInv,
         skipped \cup tasks \subseteq uploaded \/ ~ FinishComplete, MainStep
  PROVE  [Promise!Next]_(Promise!vars)
<1> USE DEF persistent, worker, backend, tracker
<1>1. ASSUME NEW d \in Dirs, Analyze(d) PROVE [Promise!Next]_(Promise!vars)
  <2>1. CASE tasks' = tasks
    BY <1>1, <2>1, StutterImplements DEF Analyze
  <2>2. CASE tasks' = tasks \cup {d}
    <3>1. Promise!Plan(d)
      BY <1>1, <2>2 DEF Analyze, Promise!Plan
    <3>2. QED
      BY <3>1 DEF Promise!Next
  <2>3. QED
    BY <1>1, <2>1, <2>2 DEF Analyze
<1>2. CASE AnalysisRaises \/ NothingToUpload \/ FinishFailed \/ DrainDone
  BY <1>2, GiveUpImplements DEF AnalysisRaises, NothingToUpload, FinishFailed, DrainDone
<1>3. CASE BeginUpload \/ SubmitRaises
  BY <1>3, StutterImplements DEF BeginUpload, SubmitRaises
<1>4. CASE FinishComplete
  <2>1. saved' = {} /\ uploaded' = {} /\ phase = "upload" /\ phase' = "idle"
        /\ outcome' = "complete" /\ UNCHANGED <<skipped, tasks>>
    BY <1>4, ClearSound DEF FinishComplete, Exit
  <2>2. Promise!Succeed
    BY <1>4, <2>1 DEF Promise!Succeed
  <2>3. QED
    BY <2>2 DEF Promise!Next
<1>5. QED
  BY <1>1, <1>2, <1>3, <1>4 DEF MainStep

LEMMA UserImplements ==
  ASSUME "unlink" \notin Faults, TypeOK, SoundInv, UserStep
  PROVE  [Promise!Next]_(Promise!vars)
<1> USE DEF persistent, worker, backend, tracker
<1>1. ASSUME NEW sel \in SUBSET Dirs, NEW force \in BOOLEAN, StartBatch(sel, force)
      PROVE  Promise!Next
  <2>1. CASE force
    <3>1. Promise!BeginAfresh
      BY <1>1, <2>1, ClearSound DEF StartBatch, Promise!BeginAfresh
    <3>2. QED
      BY <3>1 DEF Promise!Next
  <2>2. CASE ~ force
    <3>1. skipped' \in SUBSET Dirs /\ skipped' \subseteq saved
      BY <1>1, <2>2 DEF StartBatch, Loaded
    <3>2. Promise!Begin(skipped')
      BY <1>1, <2>2, <3>1 DEF StartBatch, Promise!Begin
    <3>3. QED
      BY <3>1, <3>2 DEF Promise!Next
  <2>3. QED
    BY <2>1, <2>2
<1>2. ASSUME NEW sel \in SUBSET Dirs, AllAlreadyUploaded(sel) PROVE Promise!Next
  <2>1. sel \subseteq saved
    BY <1>2 DEF AllAlreadyUploaded, Loaded
  <2>2. Promise!NothingLeft(sel)
    BY <1>2, <2>1, ClearSound DEF AllAlreadyUploaded, Promise!NothingLeft
  <2>3. QED
    BY <2>2 DEF Promise!Next
<1>3. CASE Interrupt
  <2>1. CASE phase = "analyze"
    BY <1>3, <2>1, GiveUpImplements DEF Interrupt
  <2>2. CASE phase = "upload"
    BY <1>3, <2>2, StutterImplements DEF Interrupt
  <2>3. QED
    BY <1>3, <2>1, <2>2 DEF Interrupt
<1>4. CASE Kill
  BY <1>4, GiveUpImplements DEF Kill
<1>5. QED
  BY <1>1, <1>2, <1>3, <1>4 DEF UserStep

(* Whatever the threads, the backend, Ctrl-C and kills do, the command     *)
(* behaves as the promise says: Spec implements ResumableUpload.           *)
THEOREM BatchKeepsPromise ==
  ASSUME NamesAgree, "unlink" \notin Faults, "thread" \notin Faults
  PROVE  Spec => KeepsPromise
<1>1. Init => Promise!Init
  BY DEF Init, Promise!Init
<1>2. ASSUME TypeOK, TypeOK', SoundInv, SoundInv', ReportInv, [Next]_vars,
             [phase # "idle" /\ outcome' = "complete" => skipped \cup tasks \subseteq uploaded]_vars
      PROVE  [Promise!Next]_(Promise!vars)
  <2>1. CASE UNCHANGED vars
    BY <2>1 DEF vars, persistent, main, Promise!vars
  <2>2. CASE Next /\ ~ UNCHANGED vars
    <3>1. FinishComplete => skipped \cup tasks \subseteq uploaded
      BY <1>2, <2>2 DEF FinishComplete, Exit
    <3>2. QED
      BY <1>2, <2>2, <3>1, WorkerImplements, BackendImplements, MainImplements, UserImplements
         DEF Next
  <2>3. QED
    BY <1>2, <2>1, <2>2
<1>3. QED
  BY <1>1, <1>2, TypeCorrect, InitSound, NextSound, InitReport, NextReport, CompletionIsTrue, PTL
     DEF Spec, CompleteMeansUploaded, KeepsPromise, Promise!Spec

-----------------------------------------------------------------------------
(* The tally.  The worker's stage and the tracker agree task by task, and  *)
(* no worker outlives its upload phase.                                    *)

Idle == \A d \in Dirs : pc[d] = "none"

TallyInv ==
  /\ ok \cap failed = {}
  /\ \A d \in Dirs : d \in ok \cup failed <=> pc[d] = "done"
  /\ \A d \in Dirs : pc[d] # "none" => d \in tasks
  /\ ~ Uploading => Idle
  /\ Uploading /\ ~ escaped => \A d \in tasks : pc[d] # "none"

LEMMA InitTally == Init => TallyInv
BY DEF Init, TallyInv, Uploading, Idle

LEMMA ExitTally ==
  ASSUME NEW how, Exit(how)
  PROVE  TallyInv'
BY DEF Exit, FreshMemory, TallyInv, Uploading, Idle

(* A worker's step either leaves the tally alone or ends its own task on   *)
(* one side.                                                               *)
LEMMA WorkerEffect ==
  ASSUME TypeOK, NEW d \in Dirs, WorkerStep(d)
  PROVE  /\ UNCHANGED main /\ Uploading /\ pc[d] \notin {"none", "done"}
         /\ \/ /\ UNCHANGED tracker
               /\ pc' = pc \/ \E s \in Busy : pc' = [pc EXCEPT ![d] = s]
            \/ /\ pc' = [pc EXCEPT ![d] = "done"]
               /\ \/ ok' = ok \cup {d} /\ failed' = failed
                  \/ ok' = ok /\ failed' = failed \cup {d}
<1> USE DEF Busy, persistent, worker, backend, tracker
<1>1. CASE StartTask(d) \/ PostAccepted(d) \/ PollPending(d)
  BY <1>1 DEF StartTask, PostAccepted, PollPending
<1>2. CASE PostUnconfirmed(d) \/ PostRejected(d) \/ PollDeadline(d) \/ PollError(d)
  BY <1>2 DEF PostUnconfirmed, PostRejected, PollDeadline, PollError, FinishBad
<1>3. CASE PostTransient(d)
  BY <1>3 DEF PostTransient, FinishBad
<1>4. CASE PollTerminal(d)
  BY <1>4 DEF PollTerminal, FinishBad
<1>5. CASE MarkDone(d) \/ FinishOk(d)
  BY <1>5 DEF MarkDone, FinishOk, main
<1>6. QED
  BY <1>1, <1>2, <1>3, <1>4, <1>5 DEF WorkerStep

LEMMA WorkerTally ==
  ASSUME TypeOK, TallyInv, NEW d \in Dirs, WorkerStep(d)
  PROVE  TallyInv'
<1>1. /\ UNCHANGED main /\ Uploading /\ Uploading'
      /\ pc[d] \notin {"none", "done"} /\ d \notin ok \cup failed /\ d \in tasks
  BY WorkerEffect DEF main, Uploading, TallyInv
<1>2. CASE UNCHANGED tracker /\ pc' = pc
  BY <1>1, <1>2 DEF TallyInv, main, tracker, Idle
<1>3. CASE UNCHANGED tracker /\ \E s \in Busy : pc' = [pc EXCEPT ![d] = s]
  BY <1>1, <1>3 DEF TallyInv, main, tracker, TypeOK, Busy
<1>4. CASE /\ pc' = [pc EXCEPT ![d] = "done"]
           /\ \/ ok' = ok \cup {d} /\ failed' = failed
              \/ ok' = ok /\ failed' = failed \cup {d}
  BY <1>1, <1>4 DEF TallyInv, main, TypeOK
<1>5. QED
  BY <1>2, <1>3, <1>4, WorkerEffect

LEMMA OtherTally ==
  ASSUME TypeOK, TallyInv, MainStep \/ UserStep
  PROVE  TallyInv'
<1> USE DEF persistent, worker, backend, tracker
<1>1. ASSUME NEW d \in Dirs, Analyze(d) PROVE TallyInv'
  BY <1>1 DEF Analyze, TallyInv, Uploading, Idle
<1>2. CASE AnalysisRaises \/ NothingToUpload \/ FinishFailed \/ FinishComplete \/ DrainDone
  BY <1>2, ExitTally DEF AnalysisRaises, NothingToUpload, FinishFailed, FinishComplete, DrainDone
<1>3. CASE BeginUpload
  <2>1. Idle /\ ok = {} /\ failed = {}
    BY <1>3 DEF BeginUpload, TallyInv, Uploading, Idle, TypeOK
  <2>2. \A d \in Dirs : pc'[d] = IF d \in tasks THEN "queued" ELSE "none"
    BY <1>3 DEF BeginUpload
  <2>3. QED
    BY <1>3, <2>1, <2>2 DEF BeginUpload, TallyInv, Uploading, TypeOK
<1>4. CASE SubmitRaises
  <2>1. Idle /\ ok = {} /\ failed = {}
    BY <1>4 DEF SubmitRaises, TallyInv, Uploading, Idle, TypeOK
  <2>2. \A d \in Dirs : pc'[d] = "none" \/ (pc'[d] = "queued" /\ d \in tasks)
    BY <1>4 DEF SubmitRaises
  <2>3. QED
    BY <1>4, <2>1, <2>2 DEF SubmitRaises, TallyInv, Uploading
<1>5. ASSUME NEW sel \in SUBSET Dirs, NEW force \in BOOLEAN, StartBatch(sel, force)
      PROVE  TallyInv'
  BY <1>5 DEF StartBatch, TallyInv, Uploading, Idle
<1>6. ASSUME NEW sel \in SUBSET Dirs, AllAlreadyUploaded(sel) PROVE TallyInv'
  BY <1>6 DEF AllAlreadyUploaded, TallyInv, Uploading, Idle
<1>7. CASE Interrupt
  BY <1>7, ExitTally DEF Interrupt, TallyInv, Uploading, Idle
<1>8. CASE Kill
  BY <1>8, ExitTally DEF Kill
<1>9. QED
  BY <1>1, <1>2, <1>3, <1>4, <1>5, <1>6, <1>7, <1>8 DEF MainStep, UserStep

LEMMA NextTally == TypeOK /\ TallyInv /\ [Next]_vars => TallyInv'
<1> SUFFICES ASSUME TypeOK, TallyInv, [Next]_vars PROVE TallyInv'
  OBVIOUS
<1>1. ASSUME NEW d \in Dirs, BackendSettles(d) \/ BackendSettlesStray(d) PROVE TallyInv'
  BY <1>1 DEF BackendSettles, BackendSettlesStray, main, worker, tracker, TallyInv, Uploading, Idle
<1>2. CASE Next
  BY <1>1, <1>2, WorkerTally, OtherTally DEF Next
<1>3. CASE UNCHANGED vars
  BY <1>3 DEF vars, main, worker, tracker, TallyInv, Uploading, Idle
<1>4. QED
  BY <1>2, <1>3

(* When the pool has drained, each task the executor took is in exactly    *)
(* one of the tracker's lists, and when submission did not raise that is   *)
(* every task: for any number of threads, attempts and polls, any fault    *)
(* and any answer of the backend.                                          *)
THEOREM TasksAreReported == Spec => []EveryTaskReported
<1>1. TypeOK /\ TallyInv => EveryTaskReported
  <2> SUFFICES ASSUME TypeOK, TallyInv, Uploading, PoolDone
               PROVE  /\ ok \cap failed = {}
                      /\ ok \cup failed = {d \in Dirs : pc[d] = "done"}
                      /\ ~ escaped => ok \cup failed = tasks
    BY DEF EveryTaskReported
  <2>1. ok \cup failed = {d \in Dirs : pc[d] = "done"}
    BY DEF TypeOK, TallyInv
  <2>2. ASSUME ~ escaped
        PROVE  tasks = {d \in Dirs : pc[d] = "done"}
    BY <2>2 DEF TypeOK, TallyInv, PoolDone
  <2>3. QED
    BY <2>1, <2>2 DEF TallyInv
<1>2. QED
  BY <1>1, TypeCorrect, InitTally, NextTally, PTL DEF Spec

(* "All N upload(s) complete" is true of the projects this session had an  *)
(* artifact for, if their upload-phase thread did not raise.               *)
TasksAreUploaded ==
  [][phase # "idle" /\ phase' = "idle" /\ outcome' = "complete" /\ ~ escaped =>
       tasks \subseteq uploaded]_vars

(* What a session says of the projects it uploaded itself holds for every  *)
(* naming and whatever fails in the state file: only what it says of those *)
(* it skipped (CompletionIsTrue) depends on the file and on the names.     *)
THEOREM TasksCompleteIsTrue == Spec => TasksAreUploaded
<1>1. ASSUME TypeOK, SeenInv, TallyInv, [Next]_vars
      PROVE  [phase # "idle" /\ phase' = "idle" /\ outcome' = "complete" /\ ~ escaped =>
                tasks \subseteq uploaded]_vars
  <2> SUFFICES ASSUME Next, phase # "idle", phase' = "idle", outcome' = "complete", ~ escaped
               PROVE  tasks \subseteq uploaded
    BY <1>1
  <2> USE DEF persistent, main, worker, backend, tracker
  <2>1. ASSUME NEW d \in Dirs, WorkerStep(d) \/ BackendSettles(d) \/ BackendSettlesStray(d)
        PROVE  FALSE
    BY <1>1, <2>1, WorkerSeen, BackendSeen
  <2>2. ASSUME UserStep PROVE FALSE
    BY <2>2 DEF UserStep, StartBatch, AllAlreadyUploaded, Interrupt, Kill, Exit
  <2>3. FinishComplete
    BY <2>1, <2>2 DEF Next, MainStep, Analyze, AnalysisRaises, NothingToUpload, BeginUpload,
       SubmitRaises, FinishFailed, DrainDone, Exit
  <2>4. failed = {} /\ PoolDone /\ Uploading
    BY <2>3 DEF FinishComplete, ReportedFailures, Uploading
  <2>5. \A d \in tasks : d \in ok
    BY <1>1, <2>4 DEF TallyInv, PoolDone, TypeOK
  <2>6. QED
    BY <1>1, <2>5 DEF SeenInv, SeenActive, TypeOK
<1>2. QED
  BY <1>1, TypeCorrect, InitSeen, NextSeen, InitTally, NextTally, PTL DEF Spec, TasksAreUploaded

-----------------------------------------------------------------------------
(* What earlier sessions recorded is not lost.  A save writes the set in   *)
(* memory over the file, so that set has to hold all the file holds, also  *)
(* the names of projects this session does not select.                     *)

KeptInv == phase # "idle" => saved \subseteq completed

LEMMA WorkerSaves ==
  ASSUME NEW d \in Dirs, WorkerStep(d)
  PROVE  /\ phase' = phase /\ completed \subseteq completed'
         /\ saved' = saved \/ saved' = completed'
<1> USE DEF persistent, main, worker, backend, tracker
<1>1. CASE MarkDone(d)
  BY <1>1 DEF MarkDone, Save
<1>2. CASE ~ MarkDone(d)
  BY <1>2 DEF WorkerStep, StartTask, PostAccepted, PostUnconfirmed, PostRejected,
       PostTransient, PollDeadline, PollError, PollPending, PollTerminal, FinishOk
<1>3. QED
  BY <1>1, <1>2

LEMMA BackendSaves ==
  ASSUME NEW d \in Dirs, BackendSettles(d) \/ BackendSettlesStray(d)
  PROVE  UNCHANGED <<phase, completed, saved>>
BY DEF BackendSettles, BackendSettlesStray, main, worker, tracker

LEMMA MainSaves ==
  ASSUME MainStep
  PROVE  \/ UNCHANGED <<completed, saved>> /\ phase # "idle"
         \/ phase' = "idle"
<1> USE DEF persistent, worker, backend, tracker
<1>1. CASE AnalysisRaises \/ NothingToUpload \/ FinishFailed \/ FinishComplete \/ DrainDone
  BY <1>1 DEF AnalysisRaises, NothingToUpload, FinishFailed, FinishComplete, DrainDone, Exit
<1>2. CASE (\E d \in Dirs : Analyze(d)) \/ BeginUpload \/ SubmitRaises
  BY <1>2 DEF Analyze, BeginUpload, SubmitRaises
<1>3. QED
  BY <1>1, <1>2 DEF MainStep

LEMMA UserSaves ==
  ASSUME UserStep
  PROVE  \/ \E sel \in SUBSET Dirs, force \in BOOLEAN : StartBatch(sel, force)
         \/ phase' = "idle"
         \/ UNCHANGED <<completed, saved>> /\ phase # "idle"
<1> USE DEF persistent, worker, backend, tracker
<1>1. ASSUME NEW sel \in SUBSET Dirs, AllAlreadyUploaded(sel)
      PROVE  phase' = "idle"
  BY <1>1 DEF AllAlreadyUploaded
<1>2. CASE Interrupt \/ Kill
  BY <1>2 DEF Interrupt, Kill, Exit
<1>3. QED
  BY <1>1, <1>2 DEF UserStep

LEMMA NextKept ==
  ASSUME "unlink" \notin Faults, "unreadable" \notin Faults
  PROVE  KeptInv /\ [Next]_vars => KeptInv'
<1> SUFFICES ASSUME KeptInv, [Next]_vars PROVE KeptInv'
  OBVIOUS
<1>1. ASSUME NEW d \in Dirs, WorkerStep(d) PROVE KeptInv'
  BY <1>1, WorkerSaves DEF KeptInv
<1>2. ASSUME NEW d \in Dirs, BackendSettles(d) \/ BackendSettlesStray(d) PROVE KeptInv'
  BY <1>2, BackendSaves DEF KeptInv
<1>3. CASE MainStep
  BY <1>3, MainSaves DEF KeptInv
<1>4. CASE UserStep
  <2>1. ASSUME NEW sel \in SUBSET Dirs, NEW force \in BOOLEAN, StartBatch(sel, force)
        PROVE  saved' \subseteq completed'
    BY <2>1 DEF StartBatch, Loaded, ClearState
  <2>2. QED
    BY <1>4, <2>1, UserSaves DEF KeptInv
<1>5. CASE UNCHANGED vars
  BY <1>5 DEF vars, persistent, main, KeptInv
<1>6. QED
  BY <1>1, <1>2, <1>3, <1>4, <1>5 DEF Next

(* While a session uploads, the resume file only grows, whatever the       *)
(* workers do in whatever order and also when a save fails: no save undoes *)
(* another, or what an earlier session recorded for a project this one     *)
(* does not select.  The file must be deletable, or --force leaves names   *)
(* the session does not know of, and readable.                             *)
THEOREM RecordedProgressIsKept ==
  ASSUME "unlink" \notin Faults, "unreadable" \notin Faults
  PROVE  Spec => ProgressIsKept
<1>1. KeptInv /\ [Next]_vars => [Uploading /\ Uploading' => saved \subseteq saved']_vars
  <2> SUFFICES ASSUME KeptInv, Next, Uploading, Uploading'
               PROVE  saved \subseteq saved'
    OBVIOUS
  <2>1. phase # "idle" /\ phase' \in {"upload", "draining"}
    BY DEF Uploading
  <2>2. ASSUME NEW d \in Dirs, WorkerStep(d) PROVE saved \subseteq saved'
    BY <2>1, <2>2, WorkerSaves DEF KeptInv
  <2>3. ASSUME NEW d \in Dirs, BackendSettles(d) \/ BackendSettlesStray(d) PROVE saved \subseteq saved'
    BY <2>3, BackendSaves
  <2>4. CASE MainStep
    BY <2>1, <2>4, MainSaves
  <2>5. ASSUME NEW sel \in SUBSET Dirs, NEW force \in BOOLEAN PROVE ~ StartBatch(sel, force)
    BY <2>1 DEF StartBatch
  <2>6. CASE UserStep
    BY <2>1, <2>5, <2>6, UserSaves
  <2>7. QED
    BY <2>2, <2>3, <2>4, <2>6 DEF Next
<1>2. Init => KeptInv
  BY DEF Init, KeptInv
<1>3. QED
  BY <1>1, <1>2, NextKept, PTL DEF Spec, ProgressIsKept

-----------------------------------------------------------------------------
(* Why sessions end: there is always a step to take, and only so many.     *)

(* The guards of MainStep and WorkerStep, without those of their faults. *)
CanMove ==
  \/ phase = "analyze"
  \/ Uploading /\ PoolDone
  \/ /\ Uploading
     /\ \E d \in Dirs :
          \/ pc[d] = "queued" /\ Cardinality(InFlight) < threads
          \/ pc[d] \in {"post", "mark", "marked"}
          \/ pc[d] = "poll" /\ (left[d] = 0 \/ doc[d] \in {"pending", "active", "error"})

NoSessionHangs == phase # "idle" => CanMove

(* What is queued has a thread to run it, also when starting one failed,   *)
(* and a worker polls a document it has posted.                            *)
ServedInv ==
  /\ \A d \in Dirs : pc[d] = "queued" => threads > 0
  /\ \A d \in Dirs : pc[d] = "poll" => doc[d] # "none"

LEMMA NextServed ==
  ASSUME TypeOK, TallyInv, ServedInv, [Next]_vars
  PROVE  ServedInv'
<1> USE DEF persistent, main, worker, backend, tracker
<1>1. ASSUME NEW d \in Dirs, WorkerStep(d) PROVE ServedInv'
  BY <1>1 DEF ServedInv, TypeOK, WorkerStep, StartTask, PostAccepted, PostUnconfirmed,
       PostRejected, PostTransient, PollDeadline, PollError, PollPending, PollTerminal, MarkDone,
       FinishOk, FinishBad
<1>2. ASSUME NEW d \in Dirs, BackendSettles(d) \/ BackendSettlesStray(d) PROVE ServedInv'
  BY <1>2 DEF ServedInv, TypeOK, BackendSettles, BackendSettlesStray
<1>3. ASSUME NEW how, Exit(how) PROVE ServedInv'
  BY <1>3 DEF ServedInv, Exit, FreshMemory
<1>4. CASE MainStep
  <2>1. ASSUME NEW d \in Dirs, Analyze(d) PROVE ServedInv'
    BY <2>1 DEF Analyze, ServedInv
  <2>2. CASE AnalysisRaises \/ NothingToUpload \/ FinishFailed \/ FinishComplete \/ DrainDone
    BY <1>3, <2>2 DEF AnalysisRaises, NothingToUpload, FinishFailed, FinishComplete, DrainDone
  <2>3. CASE BeginUpload
    BY <2>3, PoolSizeIsNat DEF BeginUpload, ServedInv
  <2>4. CASE SubmitRaises
    BY <2>4 DEF SubmitRaises, ServedInv
  <2>5. QED
    BY <1>4, <2>1, <2>2, <2>3, <2>4 DEF MainStep
<1>5. CASE UserStep
  <2>1. ASSUME NEW sel \in SUBSET Dirs, NEW force \in BOOLEAN,
               StartBatch(sel, force) \/ AllAlreadyUploaded(sel)
        PROVE  ServedInv'
    BY <2>1 DEF StartBatch, AllAlreadyUploaded, ServedInv
  <2>2. CASE Interrupt \/ Kill
    BY <1>3, <2>2 DEF Interrupt, Kill, ServedInv
  <2>3. QED
    BY <1>5, <2>1, <2>2 DEF UserStep
<1>6. CASE UNCHANGED vars
  BY <1>6 DEF vars, ServedInv
<1>7. QED
  BY <1>1, <1>2, <1>4, <1>5, <1>6 DEF Next

(* No session is ever stuck: while it is not over, its main thread or one  *)
(* of its workers can go on, whatever the pool's size, also after a thread *)
(* could not be started and while a Ctrl-C waits for the pool, and without *)
(* the backend ever settling a document.                                   *)
THEOREM SessionsNeverHang == Spec => []NoSessionHangs
<1>1. Init => ServedInv
  BY DEF Init, ServedInv
<1>2. ASSUME TypeOK, ServedInv PROVE NoSessionHangs
  <2> SUFFICES ASSUME Uploading, ~ PoolDone PROVE CanMove
    BY <1>2 DEF TypeOK, NoSessionHangs, CanMove, Uploading
  <2>1. PICK d \in Dirs : pc[d] \in Busy \cup {"queued"}
    BY <1>2 DEF TypeOK, PoolDone
  <2>2. CASE \E e \in Dirs : pc[e] \in Busy
    <3>1. PICK e \in Dirs : pc[e] \in Busy
      BY <2>2
    <3>2. pc[e] = "poll" => doc[e] \in {"pending", "active", "error"}
      BY <1>2 DEF TypeOK, ServedInv
    <3>3. QED
      BY <3>1, <3>2 DEF CanMove, Busy
  <2>3. CASE ~ \E e \in Dirs : pc[e] \in Busy
    <3>1. InFlight = {} /\ pc[d] = "queued"
      BY <2>1, <2>3 DEF InFlight
    <3>2. Cardinality(InFlight) = 0 /\ threads > 0
      BY <1>2, <3>1, FS_EmptySet DEF ServedInv
    <3>3. QED
      BY <3>1, <3>2 DEF CanMove
  <2>4. QED
    BY <2>2, <2>3
<1>3. TypeOK /\ TallyInv /\ ServedInv /\ [Next]_vars => ServedInv'
  BY NextServed
<1>4. QED
  BY <1>1, <1>2, <1>3, TypeCorrect, InitTally, NextTally, PTL DEF Spec

(* What is ahead of a session, and of a worker. *)
Phases == [analyze |-> 3, upload |-> 2, draining |-> 1, idle |-> 0]
Stages == [queued |-> 5, post |-> 4, poll |-> 3, mark |-> 2, marked |-> 1, done |-> 0, none |-> 0]

(* A worker's step takes it on, or uses up an attempt or a poll. *)
Advances(d) ==
  \/ Stages[pc'[d]] < Stages[pc[d]]
  \/ /\ pc' = pc
     /\ \/ attempt[d] < attempt'[d] /\ attempt'[d] <= MaxAttempts
        \/ attempt' = attempt /\ left'[d] < left[d]

(* The backend is done with one of the documents it was given. *)
Settles(d) ==
  \/ doc[d] = "pending" /\ doc'[d] # "pending" /\ stray' = stray
  \/ stray[d] /\ ~ stray'[d] /\ doc' = doc

UsesUp ==
  \/ Phases[phase'] < Phases[phase]
  \/ phase' = phase /\ \E d \in toAnalyze : toAnalyze' = toAnalyze \ {d}
  \/ /\ UNCHANGED <<phase, toAnalyze>>
     /\ \E d \in Dirs :
          /\ Advances(d)
          /\ \A e \in Dirs \ {d} :
               pc'[e] = pc[e] /\ attempt'[e] = attempt[e] /\ left'[e] = left[e]
  \/ /\ UNCHANGED <<phase, toAnalyze, worker>>
     /\ \E d \in Dirs :
          Settles(d) /\ \A e \in Dirs \ {d} : doc'[e] = doc[e] /\ stray'[e] = stray[e]

SessionsRunOut == [][phase # "idle" => UsesUp]_vars

LEMMA WorkerAdvances ==
  ASSUME TypeOK, NEW d \in Dirs, WorkerStep(d)
  PROVE  Advances(d) /\ \A e \in Dirs \ {d} :
           pc'[e] = pc[e] /\ attempt'[e] = attempt[e] /\ left'[e] = left[e]
<1> USE DEF TypeOK
<1>1. ASSUME NEW p \in {"queued", "post", "poll", "mark", "marked"},
             NEW q \in Busy \cup {"done"}, pc[d] = p, pc' = [pc EXCEPT ![d] = q],
             Stages[q] < Stages[p]
      PROVE  Advances(d)
  BY <1>1 DEF Advances
<1>2. ASSUME StartTask(d) \/ PostAccepted(d) \/ MarkDone(d) \/ FinishOk(d) PROVE Advances(d)
  BY <1>1, <1>2 DEF StartTask, PostAccepted, MarkDone, FinishOk, Stages, Busy
<1>3. ASSUME PostUnconfirmed(d) \/ PostRejected(d) \/ PollDeadline(d) \/ PollError(d) PROVE Advances(d)
  BY <1>1, <1>3 DEF PostUnconfirmed, PostRejected, PollDeadline, PollError, FinishBad, Stages
<1>4. ASSUME PostTransient(d) PROVE Advances(d)
  <2>1. CASE attempt[d] < MaxAttempts /\ attempt' = [attempt EXCEPT ![d] = @ + 1] /\ pc' = pc
    <3>1. attempt[d] \in Nat /\ MaxAttempts \in Nat /\ attempt'[d] = attempt[d] + 1
      BY <2>1, BatchAssumption
    <3>2. QED
      BY <2>1, <3>1 DEF Advances
  <2>2. CASE FinishBad(d)
    <3>1. pc[d] = "post" /\ pc' = [pc EXCEPT ![d] = "done"]
      BY <1>4, <2>2 DEF PostTransient, FinishBad
    <3>2. Stages["done"] < Stages["post"]
      BY DEF Stages
    <3>3. QED
      BY <1>1, <3>1, <3>2
  <2>3. QED
    BY <1>4, <2>1, <2>2 DEF PostTransient
<1>5. ASSUME PollPending(d) PROVE Advances(d)
  <2>1. left[d] \in Nat /\ left[d] > 0 /\ left'[d] = left[d] - 1
    BY <1>5, BatchAssumption DEF PollPending
  <2>2. QED
    BY <1>5, <2>1 DEF PollPending, Advances
<1>6. ASSUME PollTerminal(d) PROVE Advances(d)
  BY <1>1, <1>6 DEF PollTerminal, FinishBad, Stages, Busy
<1>7. \A e \in Dirs \ {d} : pc'[e] = pc[e] /\ attempt'[e] = attempt[e] /\ left'[e] = left[e]
  BY DEF WorkerStep, StartTask, PostAccepted, PostUnconfirmed, PostRejected, PostTransient,
         PollDeadline, PollError, PollPending, PollTerminal, MarkDone, FinishOk, FinishBad
<1>8. QED
  BY <1>2, <1>3, <1>4, <1>5, <1>6, <1>7 DEF WorkerStep

(* Every step of a session, its workers' and the backend's leaves it less  *)
(* to do: the subdirectories, the attempts, the polls and the documents    *)
(* are used up and never renewed.  With SessionsNeverHang this is the      *)
(* safety half of SessionEnds.                                             *)
THEOREM SessionsEnd == Spec => SessionsRunOut
<1>1. ASSUME TypeOK, Next, phase # "idle" PROVE UsesUp
  <2> USE DEF TypeOK
  <2>1. ASSUME NEW d \in Dirs, WorkerStep(d) PROVE UsesUp
    <3>1. UNCHANGED main
      BY <1>1, <2>1, WorkerEffect
    <3>2. UNCHANGED <<phase, toAnalyze>>
      BY <3>1 DEF main
    <3>3. QED
      BY <1>1, <2>1, <3>2, WorkerAdvances DEF UsesUp
  <2>2. ASSUME NEW d \in Dirs, BackendSettles(d) PROVE UsesUp
    <3>1. UNCHANGED <<phase, toAnalyze, worker>>
      BY <2>2 DEF BackendSettles, main
    <3>2. Settles(d) /\ \A e \in Dirs \ {d} : doc'[e] = doc[e] /\ stray'[e] = stray[e]
      BY <1>1, <2>2 DEF BackendSettles, Settles
    <3>3. QED
      BY <3>1, <3>2 DEF UsesUp
  <2>3. ASSUME NEW d \in Dirs, BackendSettlesStray(d) PROVE UsesUp
    <3>1. UNCHANGED <<phase, toAnalyze, worker>>
      BY <2>3 DEF BackendSettlesStray, main
    <3>2. Settles(d) /\ \A e \in Dirs \ {d} : doc'[e] = doc[e] /\ stray'[e] = stray[e]
      BY <1>1, <2>3 DEF BackendSettlesStray, Settles
    <3>3. QED
      BY <3>1, <3>2 DEF UsesUp
  <2>4. ASSUME NEW d \in Dirs, Analyze(d) PROVE UsesUp
    BY <2>4 DEF Analyze, UsesUp
  <2>5. ASSUME NEW how, Exit(how) PROVE UsesUp
    BY <1>1, <2>5 DEF Exit, UsesUp, Phases
  <2>6. CASE BeginUpload \/ SubmitRaises
    BY <2>6 DEF BeginUpload, SubmitRaises, UsesUp, Phases
  <2>7. CASE MainStep
    BY <2>4, <2>5, <2>6, <2>7 DEF MainStep, AnalysisRaises, NothingToUpload, FinishFailed,
       FinishComplete, DrainDone
  <2>8. CASE UserStep
    BY <1>1, <2>5, <2>8 DEF UserStep, StartBatch, AllAlreadyUploaded, Interrupt, Kill, UsesUp,
       Phases
  <2>9. QED
    BY <1>1, <2>1, <2>2, <2>3, <2>7, <2>8 DEF Next
<1>2. QED
  BY <1>1, TypeCorrect, PTL DEF Spec, SessionsRunOut
=============================================================================
