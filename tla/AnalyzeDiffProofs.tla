------------------------- MODULE AnalyzeDiffProofs -------------------------
(***************************************************************************)
(* Theorems about AnalyzeDiff for any set of requests, files, commits and  *)
(* notification attempts, and any compare of a provider, with their proofs. *)
(***************************************************************************)
EXTENDS AnalyzeDiff, TLAPS

(* Expanded wherever a step has to be shown to leave a variable alone. *)
USE DEF request, acquired, notified, storage, backend

(* What the stage of a request says about its upload, its answer and its   *)
(* notification.                                                           *)
StageInv ==
  \A r \in Reqs :
    /\ pc[r] = "notify" => stream[r] = "stored" /\ answer[r] = "success"
                           /\ tries[r] < Attempts /\ ingests[r] <= proxied[r]
    /\ ingests[r] > 0 => pc[r] \in {"notify", "done"} /\ stream[r] = "stored" /\ answer[r] = "success"
    /\ stream[r] = "stored" => pc[r] \in {"notify", "done"}
    /\ ingests[r] <= 1 + proxied[r]
    /\ pc[r] \notin {"notify", "done"} => tries[r] = 0
    /\ pending[r] <= ingests[r]

Inv == TypeOK /\ StageInv

-----------------------------------------------------------------------------
(* Types and stages                                                        *)

LEMMA RecordsAreTyped ==
  ASSUME Inv, NEW r \in Reqs
  PROVE  inc[r] \in Commits /\ Tree[inc[r]] \in [Files -> Nat] /\ Records(r) \in [Files -> Nat]
<1>1. inc[r] \in Commits
  BY DEF Inv, TypeOK
<1>2. Tree[inc[r]] \in [Files -> Nat]
  BY <1>1, DiffAssumption
<1>3. QED
  BY <1>1, <1>2 DEF Records

LEMMA InitTypes == Init => Inv
BY DiffAssumption DEF Init, NoRecords, Inv, TypeOK, StageInv

LEMMA AskTypes ==
  ASSUME Inv, NEW r \in Reqs, NEW k \in Commits, Ask(r, k)
  PROVE  Inv'
BY DEF Ask, Inv, TypeOK, StageInv

LEMMA AcquireTypes ==
  ASSUME Inv, NEW r \in Reqs,
         Clone(r) \/ FetchDiff(r) \/ NothingReadable(r) \/ AcquireFails(r)
  PROVE  Inv'
<1>1. CASE Clone(r)
  BY <1>1 DEF Clone, Acquired, Inv, TypeOK, StageInv
<1>2. CASE FetchDiff(r)
  <2>1. PICK got \in SUBSET Changed(r) : Acquired(r, got, Removed(r)) /\ pc[r] = "acquire"
    BY <1>2 DEF FetchDiff
  <2>2. got \subseteq Files /\ Removed(r) \subseteq Files
    BY DEF Changed, Removed
  <2>3. QED
    BY <2>1, <2>2 DEF Acquired, Inv, TypeOK, StageInv
<1>3. CASE NothingReadable(r)
  BY <1>3 DEF NothingReadable, Inv, TypeOK, StageInv
<1>4. CASE AcquireFails(r)
  BY <1>4 DEF AcquireFails, Inv, TypeOK, StageInv
<1>5. QED
  BY <1>1, <1>2, <1>3, <1>4

LEMMA HandlerTypes ==
  ASSUME Inv, NEW r \in Reqs,
         \/ Open(r) \/ OpenFails(r) \/ ParseStream(r) \/ ParseRaises(r) \/ WriteRaises(r)
         \/ Close(r) \/ CloseRaises(r)
  PROVE  Inv'
<1>1. CASE Open(r)
  BY <1>1 DEF Open, Inv, TypeOK, StageInv
<1>2. CASE OpenFails(r)
  BY <1>2 DEF OpenFails, Fail, Inv, TypeOK, StageInv
<1>3. CASE ParseStream(r)
  <2>1. PICK parsed \in SUBSET filter[r] : written' = [written EXCEPT ![r] = parsed]
    BY <1>3 DEF ParseStream
  <2>2. parsed \subseteq Files
    BY DEF Inv, TypeOK
  <2>3. written' \in [Reqs -> SUBSET Files]
    BY <2>1, <2>2 DEF Inv, TypeOK
  <2>4. QED
    BY <1>3, <2>3 DEF ParseStream, Inv, TypeOK, StageInv
<1>4. CASE ParseRaises(r)
  BY <1>4 DEF ParseRaises, Fail, Inv, TypeOK, StageInv
<1>5. CASE WriteRaises(r)
  BY <1>5 DEF WriteRaises, Fail, Inv, TypeOK, StageInv
<1>6. CASE Close(r)
  <2>1. object' = [object EXCEPT ![inc[r]] = Records(r)]
    BY <1>6 DEF Close, StorageKey
  <2>2. object' \in [Commits -> [Files -> Nat]]
    BY <2>1, RecordsAreTyped DEF Inv, TypeOK
  <2>3. overwritten' \subseteq Reqs
    BY <1>6 DEF Close, Inv, TypeOK
  <2>4. QED
    BY <1>6, <2>2, <2>3, DiffAssumption DEF Close, Inv, TypeOK, StageInv
<1>7. CASE CloseRaises(r)
  BY <1>7 DEF CloseRaises, Fail, Inv, TypeOK, StageInv
<1>8. QED
  BY <1>1, <1>2, <1>3, <1>4, <1>5, <1>6, <1>7

(* What the backend makes of a notification keeps its counts in order, if  *)
(* the request had none to spare or one more has been admitted.            *)
LEMMA BackendCounts ==
  ASSUME Inv, NEW r \in Reqs, Starts(r) \/ NotStarted
  PROVE  /\ ingests' \in [Reqs -> Nat] /\ pending' \in [Reqs -> Nat]
         /\ graph' = graph /\ commit' = commit
         /\ \A q \in Reqs : /\ pending'[q] <= ingests'[q]
                            /\ q # r => ingests'[q] = ingests[q]
         /\ ingests'[r] <= ingests[r] + 1
<1>1. CASE Starts(r)
  BY <1>1 DEF Starts, Inv, TypeOK, StageInv
<1>2. CASE NotStarted
  BY <1>2 DEF NotStarted, Inv, TypeOK, StageInv
<1>3. QED
  BY <1>1, <1>2

LEMMA AgainTypes ==
  ASSUME Inv, NEW r \in Reqs, NotifyRefused(r) \/ NotifyForwarded(r)
  PROVE  Inv'
<1>1. /\ NotifyAgain(r) /\ pc[r] = "notify" /\ (Starts(r) \/ NotStarted)
      /\ UNCHANGED <<cur, inc, filter, deleted, dir, stream, written, answer, object, overwritten>>
  BY DEF NotifyRefused, NotifyForwarded, NotifyAgain
<1>2. tries[r] \in 0..Attempts /\ tries[r] < Attempts /\ Attempts \in Nat
  BY <1>1, DiffAssumption DEF Inv, TypeOK, StageInv
<1>3. tries' = [tries EXCEPT ![r] = tries[r] + 1] /\ tries[r] + 1 \in 0..Attempts
  BY <1>1, <1>2 DEF NotifyAgain
<1>4. \/ pc' = pc /\ tries[r] + 1 < Attempts
      \/ pc' = [pc EXCEPT ![r] = "done"]
  BY <1>1 DEF NotifyAgain
<1>5. /\ proxied' \in [Reqs -> Nat] /\ ingests'[r] <= proxied'[r]
      /\ \A q \in Reqs : q # r => proxied'[q] = proxied[q]
  <2>1. CASE NotifyRefused(r)
    BY <1>1, <2>1 DEF NotifyRefused, NotStarted, Inv, TypeOK, StageInv
  <2>2. CASE NotifyForwarded(r)
    <3>1. proxied' = [proxied EXCEPT ![r] = @ + 1]
      BY <2>2 DEF NotifyForwarded
    <3>2. ingests'[r] <= ingests[r] + 1 /\ ingests[r] <= proxied[r] /\ ingests[r] \in Nat
          /\ ingests'[r] \in Nat
      BY <1>1, BackendCounts DEF Inv, TypeOK, StageInv
    <3>3. QED
      BY <3>1, <3>2 DEF Inv, TypeOK
  <2>3. QED
    BY <2>1, <2>2
<1>6. TypeOK'
  BY <1>1, <1>3, <1>4, <1>5, BackendCounts DEF Inv, TypeOK
<1>7. StageInv'
  <2>1. SUFFICES ASSUME NEW q \in Reqs
                 PROVE  /\ pc'[q] = "notify" => stream'[q] = "stored" /\ answer'[q] = "success"
                             /\ tries'[q] < Attempts /\ ingests'[q] <= proxied'[q]
                        /\ ingests'[q] > 0 => pc'[q] \in {"notify", "done"} /\ stream'[q] = "stored"
                             /\ answer'[q] = "success"
                        /\ stream'[q] = "stored" => pc'[q] \in {"notify", "done"}
                        /\ ingests'[q] <= 1 + proxied'[q]
                        /\ pc'[q] \notin {"notify", "done"} => tries'[q] = 0
                        /\ pending'[q] <= ingests'[q]
    BY DEF StageInv
  <2>2. CASE q = r
    <3>1. pc'[r] \in {"notify", "done"} /\ (pc'[r] = "notify" => tries'[r] < Attempts)
      BY <1>1, <1>3, <1>4 DEF Inv, TypeOK
    <3>2. stream'[r] = "stored" /\ answer'[r] = "success"
      BY <1>1 DEF Inv, StageInv
    <3>3. pending'[r] <= ingests'[r] /\ ingests'[r] \in Nat /\ proxied'[r] \in Nat
      BY <1>1, <1>5, BackendCounts
    <3>4. QED
      BY <1>5, <2>2, <3>1, <3>2, <3>3
  <2>3. CASE q # r
    <3>1. pc'[q] = pc[q] /\ tries'[q] = tries[q]
      BY <1>3, <1>4, <2>3 DEF Inv, TypeOK
    <3>2. ingests'[q] = ingests[q] /\ proxied'[q] = proxied[q] /\ pending'[q] <= ingests'[q]
      BY <1>1, <1>5, <2>3, BackendCounts
    <3>3. QED
      BY <1>1, <3>1, <3>2 DEF Inv, StageInv
  <2>4. QED
    BY <2>2, <2>3
<1>8. QED
  BY <1>6, <1>7 DEF Inv

LEMMA EndsTypes ==
  ASSUME Inv, NEW r \in Reqs, NotifyAmbiguous(r) \/ NotifyFatal(r) \/ NotifyAccepted(r)
  PROVE  Inv'
<1>1. /\ pc[r] = "notify" /\ pc' = [pc EXCEPT ![r] = "done"] /\ (Starts(r) \/ NotStarted)
      /\ UNCHANGED <<cur, inc, filter, deleted, dir, stream, written, answer, tries, proxied,
                     object, overwritten>>
  BY DEF NotifyAmbiguous, NotifyFatal, NotifyAccepted, NotifyEnds
<1>2. TypeOK'
  BY <1>1, BackendCounts DEF Inv, TypeOK
<1>3. /\ \A q \in Reqs : /\ pending'[q] <= ingests'[q] /\ ingests'[q] \in Nat
                         /\ q # r => ingests'[q] = ingests[q]
      /\ ingests'[r] <= ingests[r] + 1
  BY <1>1, BackendCounts
<1>4. ingests[r] <= proxied[r] /\ ingests[r] \in Nat /\ proxied[r] \in Nat
      /\ stream[r] = "stored" /\ answer[r] = "success"
  BY <1>1 DEF Inv, TypeOK, StageInv
<1>5. ingests'[r] <= 1 + proxied[r]
  BY <1>3, <1>4
<1>6. /\ pc'[r] = "done" /\ \A q \in Reqs : q # r => pc'[q] = pc[q]
      /\ UNCHANGED <<stream, answer, tries, proxied>>
  BY <1>1 DEF Inv, TypeOK
<1>7. StageInv'
  BY <1>3, <1>4, <1>5, <1>6 DEF Inv, StageInv
<1>8. QED
  BY <1>2, <1>7 DEF Inv

LEMMA BackendTypes ==
  ASSUME Inv, NEW r \in Reqs, Ingest(r)
  PROVE  Inv'
<1>1. graph' \in [Files -> Nat]
  BY RecordsAreTyped DEF Ingest, Merged, StorageKey, Inv, TypeOK
<1>2. pending' = [pending EXCEPT ![r] = pending[r] - 1] /\ pending[r] - 1 \in Nat
  BY DEF Ingest, Inv, TypeOK
<1>3. TypeOK'
  BY <1>1, <1>2 DEF Ingest, Inv, TypeOK
<1>4. StageInv'
  BY <1>2 DEF Ingest, Inv, TypeOK, StageInv
<1>5. QED
  BY <1>3, <1>4 DEF Inv

LEMMA CrashTypes ==
  ASSUME Inv, Crash
  PROVE  Inv'
BY DEF Crash, Inv, TypeOK, StageInv

LEMMA NextTypes == Inv /\ [Next]_vars => Inv'
<1> SUFFICES ASSUME Inv, [Next]_vars PROVE Inv'
  OBVIOUS
<1>1. ASSUME NEW r \in Reqs, Handler(r) PROVE Inv'
  BY <1>1, AcquireTypes, HandlerTypes, AgainTypes, EndsTypes DEF Handler
<1>2. CASE Next
  BY <1>1, <1>2, AskTypes, BackendTypes, CrashTypes DEF Next
<1>3. CASE UNCHANGED vars
  BY <1>3 DEF vars, Inv, TypeOK, StageInv
<1>4. QED
  BY <1>2, <1>3

(* Every variable keeps its type; a notification never makes more attempts *)
(* than NOTIFY_ATTEMPTS.                                                   *)
THEOREM TypeCorrect == Spec => []TypeOK
<1>1. Inv => TypeOK
  BY DEF Inv
<1>2. QED
  BY <1>1, InitTypes, NextTypes, PTL DEF Spec

(* Of all the ways a notification can go wrong, only the one               *)
(* services/notify.py accepts, a proxy that had forwarded it, starts a     *)
(* second ingest: one more at most for each time it happens.               *)
THEOREM NoSecondIngest == Spec => []IngestOnce
<1>1. Inv => IngestOnce
  BY DEF Inv, StageInv, IngestOnce
<1>2. QED
  BY <1>1, InitTypes, NextTypes, PTL DEF Spec

-----------------------------------------------------------------------------
(* What is in an artifact.  An upload that has been stored keeps the files *)
(* its request wrote; its object stays what it is until a request to the   *)
(* same commit stores it again, and never holds anything but that commit's *)
(* versions.                                                               *)

ArtifactInv ==
  \A r \in Reqs :
    /\ pc[r] \in {"new", "acquire", "open", "parse"} => written[r] = {}
    /\ pc[r] \in {"open", "parse", "close"} \/ stream[r] = "stored" =>
         filter[r] \subseteq Changed(r) /\ deleted[r] = Removed(r)
    /\ pc[r] = "close" \/ stream[r] = "stored" => written[r] \subseteq filter[r]
    /\ stream[r] = "stored" /\ r \notin overwritten => object[inc[r]] = Records(r)

ObjectInv == \A k \in Commits, f \in Files : object[k][f] \in {0, Tree[k][f]}

SyncInv == ArtifactInv /\ ObjectInv

LEMMA InitSync == Init => SyncInv
BY DEF Init, NoRecords, SyncInv, ArtifactInv, ObjectInv

(* A step that writes no file, stores nothing and at most finishes with a  *)
(* request.                                                                *)
LEMMA QuietSync ==
  ASSUME Inv, SyncInv,
         UNCHANGED <<cur, inc, filter, deleted, written, object, overwritten>>,
         \A q \in Reqs : pc'[q] \in {pc[q], "done"},
         \A q \in Reqs : stream'[q] = "stored" => stream[q] = "stored"
  PROVE  SyncInv'
<1>1. ASSUME NEW q \in Reqs
      PROVE  Changed(q)' = Changed(q) /\ Removed(q)' = Removed(q) /\ Records(q)' = Records(q)
  BY DEF Changed, Removed, Origin, Full, Records
<1>2. ArtifactInv'
  BY <1>1 DEF SyncInv, ArtifactInv
<1>3. ObjectInv'
  BY DEF SyncInv, ObjectInv
<1>4. QED
  BY <1>2, <1>3 DEF SyncInv

LEMMA AskSync ==
  ASSUME Inv, SyncInv, NEW r \in Reqs, NEW k \in Commits, Ask(r, k)
  PROVE  SyncInv'
<1>1. pc[r] = "new" /\ pc'[r] = "acquire" /\ stream[r] # "stored"
  BY DEF Ask, Inv, TypeOK, StageInv
<1>2. \A q \in Reqs \ {r} : pc'[q] = pc[q] /\ cur'[q] = cur[q] /\ inc'[q] = inc[q]
  BY DEF Ask, Inv, TypeOK
<1>3. UNCHANGED <<filter, deleted, written, stream, object, overwritten>>
  BY DEF Ask
<1>4. ASSUME NEW q \in Reqs, q # r
      PROVE  Changed(q)' = Changed(q) /\ Removed(q)' = Removed(q) /\ Records(q)' = Records(q)
  BY <1>2, <1>3, <1>4 DEF Changed, Removed, Origin, Full, Records
<1>5. ArtifactInv'
  BY <1>1, <1>2, <1>3, <1>4 DEF SyncInv, ArtifactInv
<1>6. ObjectInv'
  BY <1>3 DEF SyncInv, ObjectInv
<1>7. QED
  BY <1>5, <1>6 DEF SyncInv

(* A clone hands over what an incremental fetch of everything that changed *)
(* would, counted from the empty tree.                                     *)
LEMMA CloneIsFullDiff ==
  ASSUME Inv, NEW r \in Reqs, Full(r)
  PROVE  Changed(r) = {f \in Files : Tree[inc[r]][f] # 0} /\ Removed(r) = {}
BY DiffAssumption DEF Full, Origin, Changed, Removed

LEMMA AcquireSync ==
  ASSUME Inv, SyncInv, NEW r \in Reqs, Clone(r) \/ FetchDiff(r)
  PROVE  SyncInv'
<1>1. PICK got, gone :
        /\ pc[r] = "acquire" /\ Acquired(r, got, gone)
        /\ got \subseteq Changed(r) /\ gone = Removed(r)
  <2>1. CASE Clone(r)
    BY <2>1, CloneIsFullDiff DEF Clone
  <2>2. CASE FetchDiff(r)
    BY <2>2 DEF FetchDiff
  <2>3. QED
    BY <2>1, <2>2
<1>2. UNCHANGED <<cur, inc, written, stream, object, overwritten>>
  BY <1>1 DEF Acquired
<1>3. \A q \in Reqs \ {r} : pc'[q] = pc[q] /\ filter'[q] = filter[q] /\ deleted'[q] = deleted[q]
  BY <1>1 DEF Acquired, Inv, TypeOK
<1>4. pc'[r] = "open" /\ filter'[r] = got /\ deleted'[r] = gone
  BY <1>1 DEF Acquired, Inv, TypeOK
<1>5. stream[r] # "stored" /\ written[r] = {}
  BY <1>1 DEF Inv, StageInv, SyncInv, ArtifactInv
<1>6. ASSUME NEW q \in Reqs
      PROVE  Changed(q)' = Changed(q) /\ Removed(q)' = Removed(q) /\ Records(q)' = Records(q)
  BY <1>2 DEF Changed, Removed, Origin, Full, Records
<1>7. ArtifactInv'
  BY <1>1, <1>2, <1>3, <1>4, <1>5, <1>6 DEF SyncInv, ArtifactInv
<1>8. ObjectInv'
  BY <1>2 DEF SyncInv, ObjectInv
<1>9. QED
  BY <1>7, <1>8 DEF SyncInv

(* Opening and parsing: what is written is among what was fetched. *)
LEMMA WriteSync ==
  ASSUME Inv, SyncInv, NEW r \in Reqs, Open(r) \/ ParseStream(r)
  PROVE  SyncInv'
<1>1. UNCHANGED <<cur, inc, filter, deleted, object, overwritten>>
  BY DEF Open, ParseStream
<1>2. \A q \in Reqs \ {r} : pc'[q] = pc[q] /\ written'[q] = written[q] /\ stream'[q] = stream[q]
  BY DEF Open, ParseStream, Inv, TypeOK
<1>3. pc[r] \in {"open", "parse"} /\ pc'[r] \in {"parse", "close"} /\ stream'[r] # "stored"
  BY DEF Open, ParseStream, Inv, TypeOK, StageInv
<1>4. /\ pc'[r] = "parse" => written'[r] = {}
      /\ written'[r] \subseteq filter[r]
  <2>1. CASE Open(r)
    BY <2>1 DEF Open, SyncInv, ArtifactInv
  <2>2. CASE ParseStream(r)
    BY <2>2 DEF ParseStream, Inv, TypeOK
  <2>3. QED
    BY <2>1, <2>2
<1>5. ASSUME NEW q \in Reqs
      PROVE  Changed(q)' = Changed(q) /\ Removed(q)' = Removed(q)
             /\ (q # r => Records(q)' = Records(q))
  BY <1>1, <1>2 DEF Changed, Removed, Origin, Full, Records
<1>6. ArtifactInv'
  <2>1. SUFFICES ASSUME NEW q \in Reqs
                 PROVE  /\ pc'[q] \in {"new", "acquire", "open", "parse"} => written'[q] = {}
                        /\ pc'[q] \in {"open", "parse", "close"} \/ stream'[q] = "stored" =>
                             filter'[q] \subseteq Changed(q)' /\ deleted'[q] = Removed(q)'
                        /\ pc'[q] = "close" \/ stream'[q] = "stored" => written'[q] \subseteq filter'[q]
                        /\ stream'[q] = "stored" /\ q \notin overwritten' =>
                             object'[inc'[q]] = Records(q)'
    BY DEF ArtifactInv
  <2>2. CASE q = r
    BY <1>1, <1>3, <1>4, <1>5, <2>2 DEF SyncInv, ArtifactInv
  <2>3. CASE q # r
    BY <1>1, <1>2, <1>5, <2>3 DEF SyncInv, ArtifactInv
  <2>4. QED
    BY <2>2, <2>3
<1>7. ObjectInv'
  BY <1>1 DEF SyncInv, ObjectInv
<1>8. QED
  BY <1>6, <1>7 DEF SyncInv

(* Storing: whoever had stored the same object is overwritten, and objects *)
(* of other commits are not touched.                                       *)
LEMMA CloseSync ==
  ASSUME Inv, SyncInv, NEW r \in Reqs, Close(r)
  PROVE  SyncInv'
<1>1. UNCHANGED <<cur, inc, filter, deleted, written>>
  BY DEF Close
<1>2. pc[r] = "close" /\ pc'[r] = "notify"
      /\ \A q \in Reqs \ {r} : pc'[q] = pc[q] /\ stream'[q] = stream[q]
  BY DEF Close, Inv, TypeOK
<1>3. /\ object'[inc[r]] = Records(r)
      /\ \A k \in Commits : k # inc[r] => object'[k] = object[k]
  BY RecordsAreTyped DEF Close, StorageKey, Inv, TypeOK
<1>4. overwritten' = overwritten \cup {q \in Reqs : stream[q] = "stored" /\ inc[q] = inc[r]}
  BY DEF Close
<1>5. ASSUME NEW q \in Reqs
      PROVE  Changed(q)' = Changed(q) /\ Removed(q)' = Removed(q) /\ Records(q)' = Records(q)
  BY <1>1 DEF Changed, Removed, Origin, Full, Records
<1>6. ASSUME NEW q \in Reqs, q # r, stream[q] = "stored", q \notin overwritten'
      PROVE  object'[inc[q]] = Records(q)
  <2>1. inc[q] # inc[r] /\ q \notin overwritten
    BY <1>4, <1>6
  <2>2. object'[inc[q]] = object[inc[q]]
    BY <1>3, <2>1, RecordsAreTyped
  <2>3. QED
    BY <1>6, <2>1, <2>2 DEF SyncInv, ArtifactInv
<1>7. ArtifactInv'
  <2>1. SUFFICES ASSUME NEW q \in Reqs
                 PROVE  /\ pc'[q] \in {"new", "acquire", "open", "parse"} => written'[q] = {}
                        /\ pc'[q] \in {"open", "parse", "close"} \/ stream'[q] = "stored" =>
                             filter'[q] \subseteq Changed(q)' /\ deleted'[q] = Removed(q)'
                        /\ pc'[q] = "close" \/ stream'[q] = "stored" => written'[q] \subseteq filter'[q]
                        /\ stream'[q] = "stored" /\ q \notin overwritten' =>
                             object'[inc'[q]] = Records(q)'
    BY DEF ArtifactInv
  <2>2. CASE q = r
    BY <1>1, <1>2, <1>3, <1>5, <2>2 DEF SyncInv, ArtifactInv
  <2>3. CASE q # r
    BY <1>1, <1>2, <1>5, <1>6, <2>3 DEF SyncInv, ArtifactInv
  <2>4. QED
    BY <2>2, <2>3
<1>8. ObjectInv'
  <2>1. \A f \in Files : Records(r)[f] \in {0, Tree[inc[r]][f]}
    BY DEF Records
  <2>2. SUFFICES ASSUME NEW k \in Commits, NEW f \in Files
                 PROVE  object'[k][f] \in {0, Tree[k][f]}
    BY DEF ObjectInv
  <2>3. CASE k = inc[r]
    BY <1>3, <2>1, <2>3
  <2>4. CASE k # inc[r]
    BY <1>3, <2>4 DEF SyncInv, ObjectInv
  <2>5. QED
    BY <2>3, <2>4
<1>9. QED
  BY <1>7, <1>8 DEF SyncInv

LEMMA NextSync ==
  ASSUME Inv, SyncInv, [Next]_vars
  PROVE  SyncInv'
<1>1. ASSUME NEW r \in Reqs,
             \/ NothingReadable(r) \/ AcquireFails(r) \/ OpenFails(r) \/ ParseRaises(r)
             \/ WriteRaises(r) \/ CloseRaises(r)
      PROVE  SyncInv'
  <2>1. /\ UNCHANGED <<cur, inc, filter, deleted, written, object, overwritten>>
        /\ pc' = [pc EXCEPT ![r] = "done"]
        /\ stream' = stream \/ stream' = [stream EXCEPT ![r] = "failed"]
    BY <1>1 DEF NothingReadable, AcquireFails, OpenFails, ParseRaises, WriteRaises, CloseRaises, Fail
  <2>2. QED
    BY <2>1, QuietSync DEF Inv, TypeOK
<1>2. ASSUME NEW r \in Reqs,
             NotifyRefused(r) \/ NotifyForwarded(r) \/ NotifyAmbiguous(r) \/ NotifyFatal(r)
             \/ NotifyAccepted(r)
      PROVE  SyncInv'
  <2>1. /\ UNCHANGED <<cur, inc, filter, deleted, written, object, overwritten, stream>>
        /\ pc' = pc \/ pc' = [pc EXCEPT ![r] = "done"]
    BY <1>2 DEF NotifyRefused, NotifyForwarded, NotifyAmbiguous, NotifyFatal, NotifyAccepted,
         NotifyAgain, NotifyEnds
  <2>2. QED
    BY <2>1, QuietSync DEF Inv, TypeOK
<1>3. ASSUME NEW r \in Reqs, Ingest(r) PROVE SyncInv'
  BY <1>3, QuietSync DEF Ingest
<1>4. CASE Crash
  <2>1. \A q \in Reqs : pc'[q] \in {pc[q], "done"} /\ (stream'[q] = "stored" => stream[q] = "stored")
    BY <1>4 DEF Crash
  <2>2. QED
    BY <1>4, <2>1, QuietSync DEF Crash
<1>5. ASSUME NEW r \in Reqs, Handler(r) PROVE SyncInv'
  BY <1>1, <1>2, <1>5, AcquireSync, WriteSync, CloseSync DEF Handler
<1>6. CASE Next
  BY <1>3, <1>4, <1>5, <1>6, AskSync DEF Next
<1>7. CASE UNCHANGED vars
  BY <1>7, QuietSync DEF vars
<1>8. QED
  BY <1>6, <1>7

(* The backend only ever hears of objects that have been stored whole,     *)
(* whichever step of which request fails and wherever the server is        *)
(* killed: each holds the records of the files its own request could parse *)
(* at its own commit, until a request to the same commit stores it again.  *)
THEOREM OnlyWholeObjects == Spec => []NotifiedIsWhole
<1>1. Inv /\ SyncInv => NotifiedIsWhole
  BY DEF Inv, StageInv, SyncInv, ArtifactInv, StorageKey, NotifiedIsWhole
<1>2. QED
  BY <1>1, InitTypes, NextTypes, InitSync, NextSync, PTL DEF Spec

-----------------------------------------------------------------------------
(* What an ingest does to the graph.                                       *)

(* Only an ingest downloads what a request's notification has started. *)
LEMMA OnlyIngestDownloads ==
  ASSUME [Next]_vars, Inv, NEW r \in Reqs, pending'[r] < pending[r]
  PROVE  Ingest(r)
<1>1. pending[r] \in Nat
  BY DEF Inv, TypeOK
<1>2. ASSUME NEW q \in Reqs, Starts(q) PROVE ~ pending'[r] < pending[r]
  BY <1>1, <1>2 DEF Starts, Inv, TypeOK
<1>3. ASSUME NEW q \in Reqs, Handler(q) PROVE ~ pending'[r] < pending[r]
  <2>1. pending' = pending \/ Starts(q)
    BY <1>3 DEF Handler, Clone, FetchDiff, Acquired, NothingReadable, AcquireFails, Open, OpenFails,
         ParseStream, ParseRaises, WriteRaises, Close, CloseRaises, NotifyRefused, NotifyForwarded,
         NotifyAmbiguous, NotifyFatal, NotifyAccepted, NotStarted
  <2>2. QED
    BY <1>1, <1>2, <2>1
<1>4. ASSUME (\E q \in Reqs, k \in Commits : Ask(q, k)) \/ Crash \/ UNCHANGED vars
      PROVE  pending' = pending
  BY <1>4 DEF Ask, Crash, vars
<1>5. PICK q \in Reqs : Ingest(q)
  BY <1>1, <1>3, <1>4 DEF Next
<1>6. q = r
  BY <1>1, <1>5 DEF Ingest, Inv, TypeOK
<1>7. QED
  BY <1>5, <1>6

(* The request whose artifact is ingested has stored it. *)
LEMMA IngestedIsStored ==
  ASSUME Inv, SyncInv, NEW r \in Reqs, Ingest(r)
  PROVE  stream[r] = "stored" /\ deleted[r] = Removed(r) /\ written[r] \subseteq Changed(r)
<1>1. pending[r] > 0 /\ pending[r] <= ingests[r] /\ pending[r] \in Nat /\ ingests[r] \in Nat
  BY DEF Ingest, Inv, TypeOK, StageInv
<1>2. stream[r] = "stored"
  BY <1>1 DEF Inv, StageInv
<1>3. QED
  BY <1>2 DEF SyncInv, ArtifactInv

(* The graph an ingest leaves, by file, in terms of the two commits. *)
LEMMA IngestEffect ==
  ASSUME Inv, SyncInv, NEW r \in Reqs, Ingest(r), r \notin overwritten
  PROVE  \A f \in Files :
           graph'[f] = IF f \in Removed(r) THEN 0
                       ELSE IF f \in written[r] THEN Tree[inc[r]][f] ELSE graph[f]
<1>1. deleted[r] = Removed(r) /\ object[inc[r]] = Records(r) /\ written[r] \subseteq Changed(r)
  BY IngestedIsStored DEF SyncInv, ArtifactInv
<1>2. \A f \in Files : object[inc[r]][f] = IF f \in written[r] THEN Tree[inc[r]][f] ELSE 0
  BY <1>1 DEF Records
<1>3. \A f \in written[r] : Tree[inc[r]][f] # 0
  BY <1>1 DEF Changed
<1>4. QED
  BY <1>1, <1>2, <1>3 DEF Ingest, Merged, StorageKey

(* A sync is exact up to what is named: whatever the compare starts from,  *)
(* whatever could not be read or parsed and however requests interleave,   *)
(* it leaves stale exactly the differing files that its compare did not    *)
(* list or that were not written.                                          *)
THEOREM SyncsAreExact == Spec => SyncIsExact
<1>1. ASSUME Inv, SyncInv, [Next]_vars
      PROVE  [\A r \in Reqs : pending'[r] < pending[r] /\ graph = Tree[cur[r]] /\ r \notin overwritten =>
                {f \in Files : graph'[f] # Tree[inc[r]][f]} =
                  Differing(r) \ (written[r] \cup Removed(r))]_vars
  <2>1. SUFFICES ASSUME NEW r \in Reqs, pending'[r] < pending[r], graph = Tree[cur[r]],
                        r \notin overwritten
                 PROVE  {f \in Files : graph'[f] # Tree[inc[r]][f]} =
                          Differing(r) \ (written[r] \cup Removed(r))
    OBVIOUS
  <2>2. Ingest(r)
    BY <1>1, <2>1, OnlyIngestDownloads
  <2>3. ASSUME NEW f \in Files
        PROVE  graph'[f] # Tree[inc[r]][f] <=> f \in Differing(r) \ (written[r] \cup Removed(r))
    BY <1>1, <2>1, <2>2, IngestEffect DEF Differing, Removed
  <2>4. QED
    BY <2>3 DEF Differing
<1>2. QED
  BY <1>1, InitTypes, NextTypes, InitSync, NextSync, PTL DEF Spec, SyncIsExact

(* Nothing of the difference is lost: the compare starts from a commit     *)
(* with the stored commit's tree, and every file it lists was written.     *)
NothingIsLost(r) == Tree[Origin(r)] = Tree[cur[r]] /\ written[r] = Changed(r)

WholeSyncs ==
  [][\A r \in Reqs :
       pending'[r] < pending[r] /\ graph = Tree[cur[r]] /\ r \notin overwritten /\ NothingIsLost(r) =>
         graph' = Tree[inc[r]]]_vars

(* What a sync is for: a step to a descendant of the stored commit (or any *)
(* step, where the provider compares the two commits themselves) whose     *)
(* files could all be read and parsed takes the graph of the stored commit *)
(* to the graph of the incoming one.                                       *)
THEOREM StraightSyncsAreWhole == Spec => WholeSyncs
<1>1. ASSUME Inv, SyncInv, [Next]_vars
      PROVE  [\A r \in Reqs :
                pending'[r] < pending[r] /\ graph = Tree[cur[r]] /\ r \notin overwritten
                /\ NothingIsLost(r) => graph' = Tree[inc[r]]]_vars
  <2>1. SUFFICES ASSUME NEW r \in Reqs, pending'[r] < pending[r], graph = Tree[cur[r]],
                        r \notin overwritten, NothingIsLost(r)
                 PROVE  graph' = Tree[inc[r]]
    OBVIOUS
  <2>2. Ingest(r)
    BY <1>1, <2>1, OnlyIngestDownloads
  <2>3. Tree[inc[r]] \in [Files -> Nat] /\ graph' \in [Files -> Nat]
    BY <1>1, <2>2, RecordsAreTyped, BackendTypes DEF Inv, TypeOK
  <2>4. ASSUME NEW f \in Files PROVE graph'[f] = Tree[inc[r]][f]
    <3>1. graph'[f] = IF f \in Removed(r) THEN 0
                      ELSE IF f \in written[r] THEN Tree[inc[r]][f] ELSE graph[f]
      BY <1>1, <2>1, <2>2, IngestEffect
    <3>2. QED
      BY <2>1, <3>1 DEF NothingIsLost, Changed, Removed
  <2>5. QED
    BY <2>3, <2>4
<1>2. QED
  BY <1>1, InitTypes, NextTypes, InitSync, NextSync, PTL DEF Spec, WholeSyncs

(* An ingest leaves each file at the version the graph had or at the       *)
(* incoming commit's, and no file in the graph that the compare removes.   *)
IngestMixesNothing ==
  [][\A r \in Reqs, f \in Files : pending'[r] < pending[r] =>
       /\ graph'[f] \in {graph[f], Tree[inc[r]][f]}
       /\ f \in Removed(r) => graph'[f] = 0]_vars

(* This much holds of every ingest, also of a repeated one, of one from a  *)
(* graph that has moved on, and of one whose object another request to the *)
(* same commit has stored again: no version of a third commit gets in.     *)
THEOREM NothingIsMixed == Spec => IngestMixesNothing
<1>1. ASSUME Inv, SyncInv, [Next]_vars
      PROVE  [\A r \in Reqs, f \in Files : pending'[r] < pending[r] =>
                /\ graph'[f] \in {graph[f], Tree[inc[r]][f]}
                /\ f \in Removed(r) => graph'[f] = 0]_vars
  <2>1. SUFFICES ASSUME NEW r \in Reqs, NEW f \in Files, pending'[r] < pending[r]
                 PROVE  /\ graph'[f] \in {graph[f], Tree[inc[r]][f]}
                        /\ f \in Removed(r) => graph'[f] = 0
    OBVIOUS
  <2>2. Ingest(r) /\ deleted[r] = Removed(r)
    BY <1>1, <2>1, OnlyIngestDownloads, IngestedIsStored
  <2>3. object[inc[r]][f] \in {0, Tree[inc[r]][f]}
    BY <1>1, RecordsAreTyped DEF SyncInv, ObjectInv
  <2>4. graph'[f] = IF f \in deleted[r] THEN 0
                    ELSE IF object[inc[r]][f] # 0 THEN object[inc[r]][f] ELSE graph[f]
    BY <2>2 DEF Ingest, Merged, StorageKey
  <2>5. QED
    BY <2>2, <2>3, <2>4 DEF Removed
<1>2. QED
  BY <1>1, InitTypes, NextTypes, InitSync, NextSync, PTL DEF Spec, IngestMixesNothing

-----------------------------------------------------------------------------
(* How many steps a request can take.                                      *)

(* The stages before a request, and the notification attempts it has left. *)
Stage == [new |-> 6, acquire |-> 5, open |-> 4, parse |-> 3, close |-> 2, notify |-> 1, done |-> 0]
Left(r) == Stage[pc[r]] + (Attempts - tries[r])

(* No step gives a request more to do, and every step of its handler, a    *)
(* failed or retried one too, leaves it less.                              *)
HandlersRunOut ==
  [][\A r \in Reqs : /\ Left(r)' \in 0..Left(r)
                     /\ Handler(r) => Left(r)' < Left(r)]_vars

LEMMA LeftIsNatural ==
  ASSUME Inv, NEW r \in Reqs
  PROVE  /\ Left(r) \in Nat /\ Stage[pc[r]] \in 0..6 /\ tries[r] \in 0..Attempts
         /\ Stage[pc[r]] = 0 <=> pc[r] = "done"
<1>1. /\ pc[r] \in {"new", "acquire", "open", "parse", "close", "notify", "done"}
      /\ tries[r] \in 0..Attempts /\ Attempts \in Nat
  BY DiffAssumption DEF Inv, TypeOK
<1>2. Stage[pc[r]] \in 0..6 /\ (Stage[pc[r]] = 0 <=> pc[r] = "done")
  BY <1>1 DEF Stage
<1>3. QED
  BY <1>1, <1>2 DEF Left

LEMMA HandlerTakesOne ==
  ASSUME Inv, Inv', NEW r \in Reqs, Handler(r)
  PROVE  Left(r)' < Left(r)
<1>1. pc[r] \in {"new", "acquire", "open", "parse", "close", "notify", "done"} /\ tries[r] \in 0..Attempts
      /\ Attempts \in Nat /\ r \in DOMAIN pc /\ r \in DOMAIN tries
  BY DiffAssumption DEF Inv, TypeOK
<1>2. CASE NotifyRefused(r) \/ NotifyForwarded(r)
  <2>1. tries'[r] = tries[r] + 1 /\ pc[r] = "notify" /\ pc'[r] \in {"notify", "done"}
    BY <1>1, <1>2 DEF NotifyRefused, NotifyForwarded, NotifyAgain
  <2>2. QED
    BY <1>1, <2>1 DEF Left, Stage
<1>3. CASE ~ (NotifyRefused(r) \/ NotifyForwarded(r))
  <2>1. /\ tries' = tries
        /\ \/ pc[r] = "acquire" /\ pc'[r] \in {"open", "done"}
           \/ pc[r] = "open" /\ pc'[r] \in {"parse", "close", "done"}
           \/ pc[r] = "parse" /\ pc'[r] \in {"close", "done"}
           \/ pc[r] = "close" /\ pc'[r] \in {"notify", "done"}
           \/ pc[r] = "notify" /\ pc'[r] = "done"
    BY <1>1, <1>3 DEF Handler, Clone, FetchDiff, Acquired, NothingReadable, AcquireFails, Open, OpenFails,
         ParseStream, ParseRaises, WriteRaises, Close, CloseRaises, NotifyAmbiguous, NotifyFatal,
         NotifyAccepted, NotifyEnds, Fail
  <2>2. QED
    BY <1>1, <2>1 DEF Left, Stage
<1>4. QED
  BY <1>2, <1>3

LEMMA OthersKeepLeft ==
  ASSUME Inv, NEW r \in Reqs, NEW q \in Reqs, q # r, Handler(q)
  PROVE  Left(r)' = Left(r)
<1>1. pc'[r] = pc[r] /\ tries'[r] = tries[r]
  BY DEF Inv, TypeOK, Handler, Clone, FetchDiff, Acquired, NothingReadable, AcquireFails, Open, OpenFails,
       ParseStream, ParseRaises, WriteRaises, Close, CloseRaises, NotifyRefused, NotifyForwarded,
       NotifyAmbiguous, NotifyFatal, NotifyAccepted, NotifyAgain, NotifyEnds, Fail
<1>2. QED
  BY <1>1 DEF Left

(* The safety half of RequestsEnd: a handler that keeps taking steps ends  *)
(* within 6 + NOTIFY_ATTEMPTS of them, whatever fails, and nothing another *)
(* request, the backend or a crash does gives it more to do.               *)
THEOREM HandlersEnd == Spec => HandlersRunOut
<1>1. ASSUME Inv, Inv', [Next]_vars
      PROVE  [\A r \in Reqs : /\ Left(r)' \in 0..Left(r)
                              /\ Handler(r) => Left(r)' < Left(r)]_vars
  <2>1. SUFFICES ASSUME NEW r \in Reqs
                 PROVE  /\ Left(r)' \in 0..Left(r)
                        /\ Handler(r) => Left(r)' < Left(r)
    OBVIOUS
  <2>2. Left(r) \in Nat /\ Left(r)' \in Nat
    <3>1. /\ pc'[r] \in {"new", "acquire", "open", "parse", "close", "notify", "done"}
          /\ tries'[r] \in 0..Attempts /\ Attempts \in Nat
      BY <1>1, DiffAssumption DEF Inv, TypeOK
    <3>2. Stage[pc'[r]] \in 0..6
      BY <3>1 DEF Stage
    <3>3. QED
      BY <1>1, <3>1, <3>2, LeftIsNatural DEF Left
  <2>3. Handler(r) => Left(r)' < Left(r)
    BY <1>1, HandlerTakesOne
  <2>4. CASE \E q \in Reqs : Handler(q)
    BY <1>1, <2>2, <2>3, <2>4, OthersKeepLeft
  <2>5. ASSUME NEW q \in Reqs, NEW k \in Commits, Ask(q, k)
        PROVE  Left(r)' <= Left(r)
    <3>1. tries' = tries /\ (pc'[r] = pc[r] \/ (pc[r] = "new" /\ pc'[r] = "acquire"))
      BY <1>1, <2>5 DEF Ask, Inv, TypeOK
    <3>2. tries[r] \in 0..Attempts /\ Attempts \in Nat
      BY <1>1, DiffAssumption DEF Inv, TypeOK
    <3>3. CASE pc'[r] = pc[r]
      BY <2>2, <3>1, <3>3 DEF Left
    <3>4. CASE pc[r] = "new" /\ pc'[r] = "acquire"
      BY <3>1, <3>2, <3>4 DEF Left, Stage
    <3>5. QED
      BY <3>1, <3>3, <3>4
  <2>6. ASSUME Crash
        PROVE  Left(r)' <= Left(r)
    <3>1. tries' = tries /\ (pc'[r] = pc[r] \/ pc'[r] = "done")
      BY <2>6 DEF Crash
    <3>2. tries[r] \in 0..Attempts /\ Attempts \in Nat /\ Stage[pc[r]] \in 0..6
      BY <1>1, DiffAssumption, LeftIsNatural
    <3>3. CASE pc'[r] = pc[r]
      <4>1. Left(r)' = Left(r)
        BY <3>1, <3>3 DEF Left
      <4>2. QED
        BY <2>2, <4>1
    <3>4. CASE pc'[r] = "done"
      <4>1. Stage[pc'[r]] = 0 /\ tries'[r] = tries[r]
        BY <3>1, <3>4 DEF Stage
      <4>2. Left(r)' = 0 + (Attempts - tries[r]) /\ Left(r) = Stage[pc[r]] + (Attempts - tries[r])
        BY <4>1 DEF Left
      <4>3. QED
        BY <3>2, <4>2
    <3>5. QED
      BY <3>1, <3>3, <3>4
  <2>7. ASSUME \/ \E q \in Reqs : Ingest(q)
               \/ UNCHANGED vars
        PROVE  Left(r)' = Left(r)
    BY <2>7 DEF Ingest, vars, Left
  <2>8. QED
    BY <1>1, <2>2, <2>3, <2>4, <2>5, <2>6, <2>7 DEF Next
<1>2. QED
  BY <1>1, InitTypes, NextTypes, PTL DEF Spec, HandlersRunOut

-----------------------------------------------------------------------------
(* The acquisition that the provider clients implement (Acquisition) and   *)
(* the one the handler is modelled with are the same.                      *)

(* Request r's acquisition, in terms of Acquisition. *)
Outcome(r) == IF pc[r] \in {"new", "acquire"} THEN "working"
              ELSE IF pc[r] = "done" THEN "failed" ELSE IF Full(r) THEN "clone" ELSE "diff"

Promised(r) == INSTANCE Acquisition WITH
  changed <- Changed(r), removed <- Removed(r), status <- Outcome(r),
  filter <- IF Outcome(r) = "diff" THEN filter[r] ELSE {},
  deleted <- IF Outcome(r) = "diff" THEN deleted[r] ELSE {}

(* While a request acquires, a step of any request, a crash included, is a *)
(* step of its promised acquisition, or none.                              *)
AcquiresAsPromised ==
  [][\A r \in Reqs : pc[r] = "acquire" => [Promised(r)!Next]_(Promised(r)!vars)]_vars

LEMMA AcquireStep ==
  ASSUME Inv, NEW r \in Reqs, pc[r] = "acquire",
         Clone(r) \/ FetchDiff(r) \/ NothingReadable(r) \/ AcquireFails(r)
  PROVE  Promised(r)!Next
<1>1. UNCHANGED <<cur, inc>> /\ Outcome(r) = "working"
  BY DEF Clone, FetchDiff, Acquired, NothingReadable, AcquireFails, Outcome
<1>2. Changed(r)' = Changed(r) /\ Removed(r)' = Removed(r) /\ Full(r)' = Full(r)
  BY <1>1 DEF Changed, Removed, Origin, Full
<1>3. CASE Clone(r)
  <2>1. Outcome(r)' = "clone"
    BY <1>2, <1>3 DEF Clone, Acquired, Outcome, Full, Inv, TypeOK
  <2>2. QED
    BY <1>1, <1>2, <2>1 DEF Promised!Next, Promised!Clone
<1>4. CASE FetchDiff(r)
  <2>1. PICK got \in SUBSET Changed(r) : (Changed(r) # {} => got # {}) /\ Acquired(r, got, Removed(r))
    BY <1>4 DEF FetchDiff
  <2>2. Outcome(r)' = "diff" /\ filter'[r] = got /\ deleted'[r] = Removed(r)
    BY <1>2, <1>4, <2>1 DEF FetchDiff, Acquired, Outcome, Full, Inv, TypeOK
  <2>3. Promised(r)!FetchDiff
    BY <1>1, <1>2, <2>1, <2>2 DEF Promised!FetchDiff
  <2>4. QED
    BY <2>3 DEF Promised!Next
<1>5. CASE NothingReadable(r) \/ AcquireFails(r)
  <2>1. Outcome(r)' = "failed"
    BY <1>5 DEF NothingReadable, AcquireFails, Outcome, Inv, TypeOK
  <2>2. QED
    BY <1>1, <1>2, <2>1 DEF Promised!Next, Promised!Fail
<1>6. QED
  BY <1>3, <1>4, <1>5

(* A step that leaves the request where it is leaves its acquisition as it *)
(* is.                                                                     *)
LEMMA AcquireStutters ==
  ASSUME NEW r \in Reqs, UNCHANGED <<cur[r], inc[r], pc[r], filter[r], deleted[r]>>
  PROVE  UNCHANGED Promised(r)!vars
<1>1. Changed(r)' = Changed(r) /\ Removed(r)' = Removed(r) /\ Outcome(r)' = Outcome(r)
  BY DEF Changed, Removed, Origin, Full, Outcome
<1>2. QED
  BY <1>1 DEF Promised!vars

LEMMA CrashFailsAcquire ==
  ASSUME Inv, NEW r \in Reqs, pc[r] = "acquire", Crash
  PROVE  Promised(r)!Next
<1>1. Outcome(r) = "working" /\ Outcome(r)' = "failed"
  BY DEF Crash, Outcome
<1>2. Changed(r)' = Changed(r) /\ Removed(r)' = Removed(r)
  BY DEF Crash, Changed, Removed, Origin, Full
<1>3. QED
  BY <1>1, <1>2 DEF Promised!Next, Promised!Fail

(* Every acquisition of a handler keeps the contract that every provider   *)
(* client is shown to implement (ScmAcquireProofs!ClientKeepsPromise).     *)
THEOREM HandlerKeepsContract == Spec => AcquiresAsPromised
<1>1. ASSUME Inv, [Next]_vars
      PROVE  [\A r \in Reqs : pc[r] = "acquire" => [Promised(r)!Next]_(Promised(r)!vars)]_vars
  <2>1. SUFFICES ASSUME NEW r \in Reqs, pc[r] = "acquire"
                 PROVE  [Promised(r)!Next]_(Promised(r)!vars)
    OBVIOUS
  <2>2. ASSUME Handler(r) PROVE Promised(r)!Next
    <3>1. Clone(r) \/ FetchDiff(r) \/ NothingReadable(r) \/ AcquireFails(r)
      BY <2>1, <2>2 DEF Handler, Open, OpenFails, ParseStream, ParseRaises, WriteRaises, Close, CloseRaises,
           NotifyRefused, NotifyForwarded, NotifyAmbiguous, NotifyFatal, NotifyAccepted, NotifyAgain, NotifyEnds
    <3>2. QED
      BY <1>1, <2>1, <3>1, AcquireStep
  <2>3. ASSUME NEW q \in Reqs, q # r, Handler(q)
        PROVE  UNCHANGED <<cur[r], inc[r], pc[r], filter[r], deleted[r]>>
    BY <1>1, <2>3 DEF Inv, TypeOK, Handler, Clone, FetchDiff, Acquired, NothingReadable, AcquireFails, Open,
         OpenFails, ParseStream, ParseRaises, WriteRaises, Close, CloseRaises, NotifyRefused,
         NotifyForwarded, NotifyAmbiguous, NotifyFatal, NotifyAccepted, NotifyAgain, NotifyEnds, Fail
  <2>4. ASSUME NEW q \in Reqs, NEW k \in Commits, Ask(q, k)
        PROVE  UNCHANGED <<cur[r], inc[r], pc[r], filter[r], deleted[r]>>
    BY <1>1, <2>1, <2>4 DEF Inv, TypeOK, Ask
  <2>5. ASSUME (\E q \in Reqs : Ingest(q)) \/ UNCHANGED vars
        PROVE  UNCHANGED <<cur[r], inc[r], pc[r], filter[r], deleted[r]>>
    BY <2>5 DEF Ingest, vars
  <2>6. QED
    BY <1>1, <2>1, <2>2, <2>3, <2>4, <2>5, AcquireStutters, CrashFailsAcquire DEF Next
<1>2. QED
  BY <1>1, InitTypes, NextTypes, PTL DEF Spec, AcquiresAsPromised

(* And the handler is modelled with nothing less: whatever outcome the     *)
(* contract allows a client to hand over is one the handler is checked     *)
(* with.                                                                   *)
THEOREM ContractIsHandled ==
  ASSUME Inv, NEW r \in Reqs, pc[r] = "acquire",
         NEW got \in SUBSET Files, NEW gone \in SUBSET Files, Acquired(r, got, gone)
  PROVE  /\ Promised(r)!FetchDiff => FetchDiff(r)
         /\ Promised(r)!Clone /\ got = {f \in Files : Tree[inc[r]][f] # 0} /\ gone = {} => Clone(r)
<1>1. UNCHANGED <<cur, inc>> /\ pc'[r] = "open" /\ filter'[r] = got /\ deleted'[r] = gone
  BY DEF Acquired, Inv, TypeOK
<1>2. Full(r)' = Full(r) /\ Outcome(r)' = IF Full(r) THEN "clone" ELSE "diff"
  BY <1>1 DEF Full, Outcome
<1>3. ASSUME Promised(r)!FetchDiff PROVE FetchDiff(r)
  <2>1. /\ Outcome(r)' = "diff" /\ got \in SUBSET Changed(r) /\ (Changed(r) # {} => got # {})
        /\ gone = Removed(r)
    BY <1>1, <1>3 DEF Promised!FetchDiff
  <2>2. ~ Full(r)
    BY <1>2, <2>1
  <2>3. QED
    BY <2>1, <2>2 DEF FetchDiff
<1>4. ASSUME Promised(r)!Clone, got = {f \in Files : Tree[inc[r]][f] # 0}, gone = {} PROVE Clone(r)
  <2>1. Outcome(r)' = "clone"
    BY <1>4 DEF Promised!Clone
  <2>2. Full(r)
    BY <1>2, <2>1
  <2>3. QED
    BY <1>4, <2>2 DEF Clone
<1>5. QED
  BY <1>3, <1>4
=============================================================================
