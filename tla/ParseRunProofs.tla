--------------------------- MODULE ParseRunProofs ---------------------------
(***************************************************************************)
(* Theorems about ParseRun, for any number of runs, entries, jobs, batches *)
(* per worker and any set of faults.                                       *)
(***************************************************************************)
EXTENDS ParseRun, FiniteSetTheorems, WellFoundedInduction, TLAPS

-----------------------------------------------------------------------------
(* _chunk: every entry is in exactly one batch.                            *)

LEMMA SizePositive == \A r \in Runs : Size[r] \in Nat \ {0}
<1> SUFFICES ASSUME NEW r \in Runs PROVE Size[r] \in Nat \ {0}
  OBVIOUS
<1> DEFINE d == Jobs[r] * PerWorker
<1>1. Jobs[r] \in Nat \ {0} /\ PerWorker \in Nat \ {0} /\ N \in Nat
  BY ParseAssumption
<1>2. d \in Nat /\ d > 0
  BY <1>1
<1> HIDE DEF d
<1>3. (N + d - 1) \div d \in Nat
  BY <1>1, <1>2
<1>4. AtLeastOne((N + d - 1) \div d) \in Nat \ {0}
  BY <1>3 DEF AtLeastOne
<1>5. Size[r] = AtLeastOne((N + d - 1) \div d)
  BY DEF Size, d
<1>6. QED
  BY <1>4, <1>5

LEMMA Covered ==
  ASSUME NEW r \in Runs, Pooled[r], NEW f \in Entries
  PROVE  \E b \in Batches[r] : f \in Batch[r][b]
<1> DEFINE s == Size[r]
           q == (f - 1) \div s
<1>1. s \in Nat /\ s > 0 /\ N \in Nat /\ f \in 1..N
  BY SizePositive, ParseAssumption DEF Entries
<1> HIDE DEF s
<1>2. q \in Nat /\ q * s <= f - 1 /\ f - 1 < q * s + s
  BY <1>1
<1> HIDE DEF q
<1>3. q <= q * s /\ (q + 1) * s = q * s + s
  BY <1>1, <1>2
<1> DEFINE b == q + 1
<1>4. b \in Entries /\ (b - 1) * s < N /\ (b - 1) * s < f /\ f <= b * s
  BY <1>1, <1>2, <1>3 DEF Entries
<1> HIDE DEF b
<1>5. b \in Batches[r]
  BY <1>1, <1>4 DEF Batches, s
<1>6. f \in Batch[r][b]
  BY <1>1, <1>4 DEF Batch, s
<1>7. QED
  BY <1>5, <1>6

LEMMA Disjoint ==
  ASSUME NEW r \in Runs, NEW a \in Entries, NEW b \in Entries, NEW f \in Entries,
         f \in Batch[r][a], f \in Batch[r][b]
  PROVE  a = b
<1> DEFINE s == Size[r]
<1>1. s \in Nat /\ s > 0 /\ a \in Nat /\ b \in Nat /\ f \in Nat
  BY SizePositive, ParseAssumption DEF Entries
<1>2. /\ (a - 1) * s < f /\ f <= a * s
      /\ (b - 1) * s < f /\ f <= b * s
  BY DEF Batch, s
<1> HIDE DEF s
<1>3. ASSUME NEW x \in Nat, NEW y \in Nat, x < y, (y - 1) * s < f, f <= x * s
      PROVE  FALSE
  <2>1. y - 1 - x \in Nat
    BY <1>3
  <2>2. (y - 1 - x) * s >= 0
    BY <2>1, <1>1
  <2>3. (y - 1) * s = x * s + (y - 1 - x) * s
    BY <1>1, <1>3
  <2>4. x * s \in Nat /\ (y - 1 - x) * s \in Nat
    BY <1>1, <1>3, <2>1
  <2>5. QED
    BY <1>1, <1>3, <2>2, <2>3, <2>4
<1>4. ~ a < b
  BY <1>1, <1>2, <1>3
<1>5. ~ b < a
  BY <1>1, <1>2, <1>3
<1>6. QED
  BY <1>1, <1>4, <1>5

-----------------------------------------------------------------------------
(* The inductive invariant, run by run.                                    *)

(* The record of entry f of run r has been handed to the sink. *)
Handed(r, f) ==
  /\ outcome[r][f] = "parsed"
  /\ Pooled[r] => \E b \in Batches[r] : f \in Batch[r][b] /\ batch[r][b] = "collected"

HandedIn(r) == {f \in Entries : Handed(r, f)}

(* A run that has not begun has nothing; Begin relies on it. *)
Fresh(r) ==
  stage[r] = "idle" =>
    /\ \A f \in Entries : outcome[r][f] = "none" /\ batch[r][f] = "queued"
    /\ total[r] = 0

(* The sink holds the records handed to it, once, and has counted them. *)
Sunk(r) ==
  /\ stage[r] \in {"parsing", "finalize", "copy"} =>
       /\ temp[r]
       /\ \A f \in Entries : body[r][f] = IF Handed(r, f) THEN 1 ELSE 0
  /\ stage[r] \in {"parsing", "finalize", "copy", "done", "empty"} =>
       total[r] = Cardinality(HandedIn(r))

(* A batch with a result has an outcome for each of its entries; the       *)
(* sequential loop has one for each entry up to the one it is at.          *)
Settled(r) ==
  /\ \A b \in Batches[r] : batch[r][b] \in {"done", "collected"} =>
       \A f \in Batch[r][b] : outcome[r][f] # "none"
  /\ ~ Pooled[r] => \E k \in 0..N : \A f \in Entries : outcome[r][f] # "none" <=> f <= k

Finished(r) ==
  /\ stage[r] \in {"finalize", "copy", "done", "empty"} => Exhausted(r)
  /\ stage[r] = "done" => \A f \in Entries : out[r][f] = IF Handed(r, f) THEN 1 ELSE 0

(* The dir outlives the pool, and only the pool. *)
DirKept(r) ==
  /\ stage[r] \in {"parsing", "draining"} /\ viaFile[r] => dir[r]
  /\ stage[r] \in {"finalize", "copy", "done", "empty", "raised"} => ~ dir[r]

RunInv(r) == Fresh(r) /\ Sunk(r) /\ Settled(r) /\ Finished(r) /\ DirKept(r)

IInv == TypeOK /\ \A r \in Runs : RunInv(r)

-----------------------------------------------------------------------------
(* Type correctness.                                                       *)

LEMMA InitType == Init => TypeOK
<1> SUFFICES ASSUME Init PROVE TypeOK
  OBVIOUS
<1>1. \A r \in Runs : 0 <= Jobs[r]
  BY ParseAssumption
<1>2. QED
  BY <1>1 DEF Init, TypeOK, Empty

LEMMA EntriesFinite ==
  /\ IsFiniteSet(Entries) /\ Cardinality(Entries) = N
  /\ \A S \in SUBSET Entries : IsFiniteSet(S) /\ Cardinality(S) \in Nat
<1>1. N \in Int /\ 1 \in Int /\ N \in Nat
  BY ParseAssumption
<1>2. IsFiniteSet(Entries)
  BY <1>1, FS_Interval DEF Entries
<1>3. Cardinality(Entries) = IF 1 > N THEN 0 ELSE N - 1 + 1
  BY <1>1, FS_Interval DEF Entries
<1>4. \A S \in SUBSET Entries : IsFiniteSet(S)
  BY <1>2, FS_Subset
<1>5. QED
  BY <1>1, <1>2, <1>3, <1>4, FS_CardinalityType

LEMMA WriteType ==
  ASSUME TypeOK, NEW r \in Runs, NEW S \in SUBSET Entries, Write(r, S)
  PROVE  /\ temp' = temp /\ out' = out
         /\ body' \in [Runs -> [Entries -> Nat]] /\ total' \in [Runs -> Nat]
<1>1. Cardinality(S) \in Nat
  BY EntriesFinite
<1>2. total' \in [Runs -> Nat]
  BY <1>1 DEF TypeOK, Write
<1>3. body' \in [Runs -> [Entries -> Nat]]
  BY DEF TypeOK, Write, TempName
<1>4. QED
  BY <1>2, <1>3 DEF Write

LEMMA ParentType ==
  ASSUME TypeOK, NEW r \in Runs,
         \/ Begin(r) \/ AllCollected(r) \/ NoContent(r) \/ OpenArtifact(r) \/ CloseArtifact(r)
         \/ DrainDone(r) \/ WriteRaises(r) \/ FinalizeRaises(r) \/ SeqRaises(r) \/ Kill(r)
         \/ \E b \in Batches[r] : CollectRaises(r, b)
  PROVE  TypeOK'
<1>1. CASE Begin(r)
  BY <1>1 DEF Begin, TypeOK, TempName, Empty
<1>2. CASE AllCollected(r) \/ NoContent(r)
  BY <1>2 DEF AllCollected, NoContent, TypeOK, TempName, pool, sink
<1>7. CASE OpenArtifact(r)
  BY <1>7 DEF OpenArtifact, TypeOK, pool, sink
<1>8. CASE CloseArtifact(r)
  <2>1. artifact' \in [by : SUBSET Runs, whole : BOOLEAN]
    BY <1>8 DEF CloseArtifact, TypeOK
  <2>2. out' \in [Runs -> [Entries -> Nat]]
    BY <1>8 DEF CloseArtifact, TypeOK, TempName
  <2>3. QED
    BY <1>8, <2>1, <2>2 DEF CloseArtifact, TypeOK, TempName, pool
<1>3. CASE DrainDone(r) \/ FinalizeRaises(r) \/ Kill(r)
  BY <1>3 DEF DrainDone, FinalizeRaises, Kill, TypeOK, pool, sink
<1>4. CASE WriteRaises(r) \/ SeqRaises(r)
  BY <1>4 DEF WriteRaises, SeqRaises, Abort, TypeOK, pool, sink
<1>5. CASE \E b \in Batches[r] : CollectRaises(r, b)
  BY <1>5 DEF CollectRaises, Abort, TypeOK, pool, sink
<1>6. QED
  BY <1>1, <1>2, <1>3, <1>4, <1>5, <1>7, <1>8

LEMMA RecordType ==
  ASSUME TypeOK, NEW r \in Runs,
         SeqParsed(r) \/ SeqFailed(r) \/ \E b \in Batches[r] : Collect(r, b)
  PROVE  TypeOK'
<1>1. CASE SeqParsed(r)
  <2>1. PICK f \in AtHand(r) :
          outcome' = [outcome EXCEPT ![r][f] = "parsed"] /\ Write(r, {f})
    BY <1>1 DEF SeqParsed
  <2>2. f \in Entries /\ {f} \in SUBSET Entries
    BY DEF AtHand
  <2>3. QED
    BY <1>1, <2>1, <2>2, WriteType DEF SeqParsed, TypeOK, pool
<1>2. CASE SeqFailed(r)
  BY <1>2 DEF SeqFailed, AtHand, TypeOK, pool, sink
<1>3. CASE \E b \in Batches[r] : Collect(r, b)
  <2>1. PICK b \in Batches[r] : Collect(r, b)
    BY <1>3
  <2>2. b \in Entries /\ {f \in Batch[r][b] : outcome[r][f] = "parsed"} \in SUBSET Entries
    BY DEF Batches, Batch
  <2>3. QED
    BY <2>1, <2>2, WriteType DEF Collect, TypeOK
<1>4. QED
  BY <1>1, <1>2, <1>3

LEMMA PoolType ==
  ASSUME TypeOK, NEW r \in Runs,
         \/ StartWorker(r) \/ WorkerDies(r)
         \/ \E b \in Batches[r] : Take(r, b) \/ Parse(r, b) \/ ClaimsRaise(r, b) \/ BatchDone(r, b)
  PROVE  TypeOK'
<1>1. CASE StartWorker(r)
  <2>1. workers' \in [Runs -> Nat] /\ \A q \in Runs : workers'[q] <= Jobs[q]
    <3>1. workers[r] < Jobs[r] /\ workers' = [workers EXCEPT ![r] = @ + 1]
      BY <1>1 DEF StartWorker, MayStart
    <3>2. \A q \in Runs : Jobs[q] \in Nat
      BY ParseAssumption
    <3>3. QED
      BY <3>1, <3>2 DEF TypeOK
  <2>2. QED
    BY <1>1, <2>1 DEF StartWorker, TypeOK, sink
<1>2. CASE WorkerDies(r)
  <2>1. workers' \in [Runs -> Nat] /\ \A q \in Runs : workers'[q] <= Jobs[q]
    <3>1. workers' = [workers EXCEPT ![r] = 0]
      BY <1>2 DEF WorkerDies
    <3>2. \A q \in Runs : Jobs[q] \in Nat /\ 0 <= Jobs[q]
      BY ParseAssumption
    <3>3. QED
      BY <3>1, <3>2 DEF TypeOK
  <2>2. batch' \in [Runs -> [Entries ->
                       {"queued", "running", "done", "raised", "lost", "collected"}]]
    <3> DEFINE B == {"queued", "running", "done", "raised", "lost", "collected"}
    <3>1. PICK g \in [Entries -> B] : batch' = [batch EXCEPT ![r] = g]
      <4> DEFINE g == [b \in Entries |->
                        IF b \in Batches[r] /\ batch[r][b] \in {"queued", "running"}
                        THEN "lost" ELSE batch[r][b]]
      <4>1. batch' = [batch EXCEPT ![r] = g]
        BY <1>2 DEF WorkerDies, TypeOK
      <4>2. g \in [Entries -> B]
        BY DEF TypeOK
      <4>3. QED
        BY <4>1, <4>2
    <3>2. QED
      BY <3>1 DEF TypeOK
  <2>3. QED
    BY <1>2, <2>1, <2>2 DEF WorkerDies, TypeOK, sink
<1>3. ASSUME NEW b \in Batches[r], Take(r, b) \/ ClaimsRaise(r, b) \/ BatchDone(r, b)
      PROVE  TypeOK'
  <2>0. b \in Entries
    BY DEF Batches
  <2>1. batch' \in [Runs -> [Entries ->
                       {"queued", "running", "done", "raised", "lost", "collected"}]]
    <3>1. CASE Take(r, b)
      BY <3>1, <2>0 DEF Take, TypeOK
    <3>2. CASE ClaimsRaise(r, b)
      BY <3>2, <2>0 DEF ClaimsRaise, TypeOK
    <3>3. CASE BatchDone(r, b)
      BY <3>3, <2>0 DEF BatchDone, TypeOK
    <3>4. QED
      BY <1>3, <3>1, <3>2, <3>3
  <2>2. UNCHANGED <<stage, outcome, workers, viaFile, dir, sink, cause, artifact>>
    BY <1>3 DEF Take, ClaimsRaise, BatchDone
  <2>3. QED
    BY <2>1, <2>2 DEF TypeOK, sink
<1>4. ASSUME NEW b \in Batches[r], Parse(r, b)
      PROVE  TypeOK'
  BY <1>4 DEF Parse, AtEntry, Batch, Batches, TypeOK, sink, pool
<1>5. QED
  BY <1>1, <1>2, <1>3, <1>4

LEMMA NextType == TypeOK /\ [Next]_vars => TypeOK'
<1> SUFFICES ASSUME TypeOK, [Next]_vars PROVE TypeOK'
  OBVIOUS
<1>1. CASE UNCHANGED vars
  BY <1>1 DEF vars, pool, sink, TypeOK
<1>2. ASSUME NEW r \in Runs, Begin(r) \/ RunStep(r) \/ WorkerDies(r) \/ Kill(r)
      PROVE  TypeOK'
  BY <1>2, ParentType, RecordType, PoolType DEF RunStep
<1>3. QED
  BY <1>1, <1>2 DEF Next

(* Whatever the sizes and faults, no run starts more workers than jobs,    *)
(* and every value stays in its type.                                      *)
THEOREM ParseTypeCorrect == Spec => []TypeOK
<1>1. QED
  BY InitType, NextType, PTL DEF Spec

-----------------------------------------------------------------------------
(* A step of one run leaves the invariant of the others alone.             *)

Untouched(q) ==
  /\ stage'[q] = stage[q] /\ outcome'[q] = outcome[q] /\ batch'[q] = batch[q]
  /\ viaFile'[q] = viaFile[q] /\ dir'[q] = dir[q]
  /\ temp'[q] = temp[q] /\ body'[q] = body[q] /\ total'[q] = total[q] /\ out'[q] = out[q]

LEMMA FrameRun ==
  ASSUME NEW q \in Runs, RunInv(q), Untouched(q)
  PROVE  RunInv(q)'
<1>1. \A f \in Entries : Handed(q, f)' <=> Handed(q, f)
  BY DEF Untouched, Handed
<1>2. HandedIn(q)' = HandedIn(q)
  BY <1>1 DEF HandedIn
<1>3. Exhausted(q)' <=> Exhausted(q)
  BY DEF Untouched, Exhausted, AtHand
<1>4. Fresh(q)' /\ Settled(q)' /\ DirKept(q)'
  BY DEF RunInv, Untouched, Fresh, Settled, DirKept
<1>5. Sunk(q)' /\ Finished(q)'
  BY <1>1, <1>2, <1>3 DEF RunInv, Untouched, Sunk, Finished
<1>6. QED
  BY <1>4, <1>5 DEF RunInv

LEMMA OthersUntouched ==
  ASSUME TypeOK, NEW r \in Runs, Begin(r) \/ RunStep(r) \/ WorkerDies(r) \/ Kill(r),
         NEW q \in Runs, q # r
  PROVE  Untouched(q)
<1> USE DEF TypeOK, Untouched, TempName, pool, sink
<1>1. CASE Begin(r) \/ Kill(r) \/ WorkerDies(r) \/ StartWorker(r)
  BY <1>1 DEF Begin, Kill, WorkerDies, StartWorker
<1>2. CASE AllCollected(r) \/ NoContent(r) \/ OpenArtifact(r) \/ CloseArtifact(r)
  BY <1>2 DEF AllCollected, NoContent, OpenArtifact, CloseArtifact
<1>3. CASE DrainDone(r) \/ WriteRaises(r) \/ FinalizeRaises(r) \/ SeqRaises(r)
  BY <1>3 DEF DrainDone, WriteRaises, FinalizeRaises, SeqRaises, Abort
<1>4. CASE SeqParsed(r) \/ SeqFailed(r)
  BY <1>4 DEF SeqParsed, SeqFailed, Write
<1>5. ASSUME NEW b \in Batches[r],
             Take(r, b) \/ Parse(r, b) \/ ClaimsRaise(r, b) \/ BatchDone(r, b)
      PROVE  Untouched(q)
  BY <1>5 DEF Take, Parse, ClaimsRaise, BatchDone
<1>6. ASSUME NEW b \in Batches[r], Collect(r, b) \/ CollectRaises(r, b)
      PROVE  Untouched(q)
  BY <1>6 DEF Collect, CollectRaises, Write, Abort
<1>7. QED
  BY <1>1, <1>2, <1>3, <1>4, <1>5, <1>6 DEF RunStep

-----------------------------------------------------------------------------
(* What a step does to its own run.                                        *)

(* Steps that leave entries, batches and sink alone. *)
SameBooks(r) ==
  /\ outcome'[r] = outcome[r] /\ batch'[r] = batch[r]
  /\ body'[r] = body[r] /\ total'[r] = total[r]

LEMMA BooksFrame ==
  ASSUME NEW r \in Runs, SameBooks(r)
  PROVE  /\ \A f \in Entries : Handed(r, f)' <=> Handed(r, f)
         /\ HandedIn(r)' = HandedIn(r)
         /\ Exhausted(r)' <=> Exhausted(r)
         /\ Settled(r) => Settled(r)'
<1>1. \A f \in Entries : Handed(r, f)' <=> Handed(r, f)
  BY DEF SameBooks, Handed
<1>2. HandedIn(r)' = HandedIn(r)
  BY <1>1 DEF HandedIn
<1>3. (Exhausted(r)' <=> Exhausted(r)) /\ (Settled(r) => Settled(r)')
  BY DEF SameBooks, Exhausted, AtHand, Settled
<1>4. QED
  BY <1>1, <1>2, <1>3

LEMMA BeginInv ==
  ASSUME TypeOK, NEW r \in Runs, RunInv(r), Begin(r)
  PROVE  RunInv(r)'
<1>1. /\ stage'[r] = "parsing" /\ temp'[r] = TRUE /\ body'[r] = Empty
      /\ outcome' = outcome /\ batch' = batch /\ total' = total
      /\ viaFile'[r] => dir'[r]
  BY DEF Begin, TypeOK, TempName
<1>2. /\ \A f \in Entries : outcome[r][f] = "none" /\ batch[r][f] = "queued"
      /\ total[r] = 0
  BY DEF Begin, RunInv, Fresh
<1>3. \A f \in Entries : ~ Handed(r, f)'
  BY <1>1, <1>2 DEF Handed
<1>4. Cardinality(HandedIn(r)') = 0
  BY <1>3, FS_EmptySet DEF HandedIn
<1>5. Sunk(r)'
  BY <1>1, <1>2, <1>3, <1>4 DEF Sunk, Empty
<1>6. Settled(r)'
  BY <1>1 DEF RunInv, Settled
<1>7. Fresh(r)' /\ Finished(r)' /\ DirKept(r)'
  BY <1>1 DEF Fresh, Finished, DirKept
<1>8. QED
  BY <1>5, <1>6, <1>7 DEF RunInv

(* The run goes from one stage to another with its books unchanged. *)
LEMMA StageInv ==
  ASSUME TypeOK, NEW r \in Runs, RunInv(r),
         \/ AllCollected(r) \/ NoContent(r) \/ OpenArtifact(r) \/ CloseArtifact(r)
         \/ DrainDone(r) \/ WriteRaises(r) \/ FinalizeRaises(r) \/ SeqRaises(r) \/ Kill(r)
         \/ \E b \in Batches[r] : CollectRaises(r, b)
  PROVE  RunInv(r)'
<1> USE DEF RunInv, Fresh, Sunk, Finished, DirKept
<1>1. SameBooks(r)
  <2>1. outcome' = outcome /\ batch' = batch /\ body' = body /\ total' = total
    BY DEF AllCollected, NoContent, OpenArtifact, CloseArtifact, DrainDone, WriteRaises,
           FinalizeRaises, SeqRaises, Kill, CollectRaises, Abort, pool, sink
  <2>2. QED
    BY <2>1 DEF SameBooks
<1>2. Settled(r)'
  BY <1>1, BooksFrame
<1>3. /\ \A f \in Entries : Handed(r, f)' <=> Handed(r, f)
      /\ HandedIn(r)' = HandedIn(r)
      /\ Exhausted(r)' <=> Exhausted(r)
      /\ total'[r] = total[r] /\ body'[r] = body[r]
  BY <1>1, BooksFrame DEF SameBooks
<1>4. CASE AllCollected(r)
  BY <1>2, <1>3, <1>4 DEF AllCollected, TypeOK, sink, pool
<1>5. CASE NoContent(r)
  BY <1>2, <1>3, <1>5 DEF NoContent, TypeOK, TempName, pool
<1>6. CASE OpenArtifact(r)
  BY <1>2, <1>3, <1>6 DEF OpenArtifact, TypeOK, sink, pool
<1>7. CASE CloseArtifact(r)
  BY <1>2, <1>3, <1>7 DEF CloseArtifact, TypeOK, TempName, pool
<1>8. CASE DrainDone(r) \/ FinalizeRaises(r) \/ Kill(r)
  BY <1>2, <1>3, <1>8 DEF DrainDone, FinalizeRaises, Kill, TypeOK, pool, sink
<1>9. CASE WriteRaises(r) \/ SeqRaises(r) \/ \E b \in Batches[r] : CollectRaises(r, b)
  BY <1>2, <1>3, <1>9 DEF WriteRaises, SeqRaises, CollectRaises, Abort, TypeOK, pool, sink
<1>10. QED
  BY <1>4, <1>5, <1>6, <1>7, <1>8, <1>9

(* What the pool does leaves the sink and the outcomes alone. *)
LEMMA PoolInv ==
  ASSUME TypeOK, NEW r \in Runs, RunInv(r),
         \/ StartWorker(r) \/ WorkerDies(r)
         \/ \E b \in Batches[r] : Take(r, b) \/ ClaimsRaise(r, b) \/ BatchDone(r, b)
  PROVE  RunInv(r)'
<1>1. /\ stage[r] \in {"parsing", "draining"} /\ Pooled[r]
      /\ UNCHANGED <<stage, outcome, viaFile, dir, temp, body, total, out>>
  BY DEF StartWorker, MayStart, WorkerDies, Take, ClaimsRaise, BatchDone, AtEntry, Pooling, sink
<1>2. \A b \in Batches[r] :
        /\ batch'[r][b] = "collected" <=> batch[r][b] = "collected"
        /\ batch'[r][b] = "done" =>
             batch[r][b] = "done" \/ \A f \in Batch[r][b] : outcome[r][f] # "none"
  <2>1. CASE StartWorker(r)
    BY <2>1 DEF StartWorker
  <2>2. CASE WorkerDies(r)
    BY <2>2 DEF WorkerDies, TypeOK, Batches
  <2>3. ASSUME NEW c \in Batches[r], Take(r, c) \/ ClaimsRaise(r, c) \/ BatchDone(r, c),
               NEW b \in Batches[r]
        PROVE  /\ batch'[r][b] = "collected" <=> batch[r][b] = "collected"
               /\ batch'[r][b] = "done" =>
                    batch[r][b] = "done" \/ \A f \in Batch[r][b] : outcome[r][f] # "none"
    <3>1. b \in Entries /\ c \in Entries
      BY DEF Batches
    <3>2. CASE Take(r, c)
      BY <3>1, <3>2 DEF Take, TypeOK
    <3>3. CASE ClaimsRaise(r, c)
      BY <3>1, <3>3 DEF ClaimsRaise, AtEntry, Running, TypeOK
    <3>4. CASE BatchDone(r, c)
      BY <3>1, <3>4 DEF BatchDone, Running, TypeOK
    <3>5. QED
      BY <2>3, <3>2, <3>3, <3>4
  <2>4. QED
    BY <2>1, <2>2, <2>3
<1>3. \A f \in Entries : Handed(r, f)' <=> Handed(r, f)
  BY <1>1, <1>2 DEF Handed
<1>4. HandedIn(r)' = HandedIn(r)
  BY <1>3 DEF HandedIn
<1>5. Settled(r)'
  BY <1>1, <1>2 DEF RunInv, Settled
<1>6. Sunk(r)'
  BY <1>1, <1>3, <1>4 DEF RunInv, Sunk
<1>7. Fresh(r)' /\ Finished(r)' /\ DirKept(r)'
  BY <1>1 DEF RunInv, Fresh, Finished, DirKept
<1>8. QED
  BY <1>5, <1>6, <1>7 DEF RunInv

(* A parse in a worker: its batch is running, so nothing is handed over. *)
LEMMA ParseInv ==
  ASSUME TypeOK, NEW r \in Runs, RunInv(r), NEW b \in Batches[r], Parse(r, b)
  PROVE  RunInv(r)'
<1>1. PICK f \in Batch[r][b], how \in {"parsed", "failed"} :
        /\ AtEntry(r, b, f)
        /\ outcome' = [outcome EXCEPT ![r][f] = how]
  BY DEF Parse
<1>2. /\ b \in Entries /\ f \in Entries /\ batch[r][b] = "running" /\ outcome[r][f] = "none"
      /\ stage[r] \in {"parsing", "draining"} /\ Pooled[r]
  BY <1>1 DEF AtEntry, Running, Pooling, Batches, Batch
<1>3. /\ outcome'[r][f] # "none"
      /\ \A g \in Entries : g # f => outcome'[r][g] = outcome[r][g]
      /\ UNCHANGED <<stage, batch, viaFile, dir, temp, body, total, out>>
  BY <1>1, <1>2 DEF Parse, TypeOK, pool, sink
<1>4. \A c \in Batches[r] : f \in Batch[r][c] => batch[r][c] = "running"
  BY <1>1, <1>2, Disjoint DEF Batches
<1>5. \A g \in Entries : Handed(r, g)' <=> Handed(r, g)
  BY <1>2, <1>3, <1>4 DEF Handed
<1>6. HandedIn(r)' = HandedIn(r)
  BY <1>5 DEF HandedIn
<1>7. Settled(r)'
  <2>1. ASSUME NEW c \in Batches[r], batch[r][c] \in {"done", "collected"}, NEW g \in Batch[r][c]
        PROVE  outcome'[r][g] # "none"
    <3>1. g \in Entries /\ outcome[r][g] # "none"
      BY <2>1 DEF RunInv, Settled, Batch, Batches
    <3>2. QED
      BY <1>2, <1>3, <3>1
  <2>2. QED
    BY <1>2, <1>3, <2>1 DEF Settled
<1>8. Sunk(r)'
  BY <1>3, <1>5, <1>6 DEF RunInv, Sunk
<1>9. Fresh(r)' /\ Finished(r)' /\ DirKept(r)'
  BY <1>2, <1>3 DEF RunInv, Fresh, Finished, DirKept
<1>10. QED
  BY <1>7, <1>8, <1>9 DEF RunInv

(* Records that were not handed over before are, once. *)
LEMMA WriteSunk ==
  ASSUME TypeOK, NEW r \in Runs, Sunk(r), stage[r] = "parsing", stage' = stage,
         NEW S \in SUBSET Entries, Write(r, S),
         \A f \in S : ~ Handed(r, f),
         \A f \in Entries : Handed(r, f)' <=> Handed(r, f) \/ f \in S
  PROVE  Sunk(r)'
<1>1. temp' = temp /\ total'[r] = total[r] + Cardinality(S)
  BY DEF Write, TypeOK
<1>2. \A f \in Entries : body'[r][f] = IF f \in S THEN body[r][f] + 1 ELSE body[r][f]
  BY DEF Write, TempName, TypeOK
<1>3. \A f \in Entries : body'[r][f] = IF Handed(r, f)' THEN 1 ELSE 0
  BY <1>2 DEF Sunk
<1>4. HandedIn(r)' = HandedIn(r) \cup S
  BY DEF HandedIn
<1>5. HandedIn(r) \in SUBSET Entries /\ HandedIn(r) \cap S = {}
  BY DEF HandedIn
<1>6. Cardinality(HandedIn(r) \cup S) = Cardinality(HandedIn(r)) + Cardinality(S)
  <2>1. IsFiniteSet(HandedIn(r)) /\ IsFiniteSet(S)
    BY <1>5, EntriesFinite
  <2>2. /\ Cardinality(HandedIn(r) \cup S) = Cardinality(HandedIn(r)) + Cardinality(S)
                                               - Cardinality(HandedIn(r) \cap S)
    BY <2>1, FS_Union
  <2>3. /\ Cardinality(HandedIn(r)) \in Nat /\ Cardinality(S) \in Nat
        /\ Cardinality(HandedIn(r) \cap S) = 0
    BY <1>5, EntriesFinite, FS_EmptySet
  <2>4. QED
    BY <2>2, <2>3
<1>7. total[r] = Cardinality(HandedIn(r)) /\ temp[r]
  BY DEF Sunk
<1>8. QED
  BY <1>1, <1>3, <1>4, <1>6, <1>7 DEF Sunk

LEMMA CollectInv ==
  ASSUME TypeOK, NEW r \in Runs, RunInv(r), NEW b \in Batches[r], Collect(r, b)
  PROVE  RunInv(r)'
<1> DEFINE S == {f \in Batch[r][b] : outcome[r][f] = "parsed"}
<1>1. /\ stage[r] = "parsing" /\ b \in Entries /\ batch[r][b] = "done" /\ Pooled[r]
      /\ S \in SUBSET Entries
  BY DEF Collect, Batches, Batch
<1>2. /\ batch'[r][b] = "collected"
      /\ \A c \in Entries : c # b => batch'[r][c] = batch[r][c]
      /\ Write(r, S)
      /\ UNCHANGED <<stage, outcome, viaFile, dir, out>>
  BY <1>1 DEF Collect, Write, TypeOK
<1>3. \A f \in S : ~ Handed(r, f)
  BY <1>1, Disjoint DEF Handed, Batches
<1>4. \A f \in Entries : Handed(r, f)' <=> Handed(r, f) \/ f \in S
  BY <1>1, <1>2 DEF Handed, Batches
<1>5. Sunk(r)'
  BY <1>1, <1>2, <1>3, <1>4, WriteSunk DEF RunInv
<1>6. Settled(r)'
  BY <1>1, <1>2 DEF RunInv, Settled, Batches
<1>7. Fresh(r)' /\ Finished(r)' /\ DirKept(r)'
  BY <1>1, <1>2 DEF RunInv, Fresh, Finished, DirKept
<1>8. QED
  BY <1>5, <1>6, <1>7 DEF RunInv

(* The sequential loop moves on by one entry. *)
LEMMA SequentialSettled ==
  ASSUME TypeOK, NEW r \in Runs, Settled(r), ~ Pooled[r], NEW f \in AtHand(r),
         outcome'[r][f] # "none",
         \A g \in Entries : g # f => outcome'[r][g] = outcome[r][g]
  PROVE  Settled(r)'
<1>1. f \in Entries /\ outcome[r][f] = "none" /\ \A g \in 1..(f - 1) : outcome[r][g] # "none"
  BY DEF AtHand
<1>2. PICK k \in 0..N : \A g \in Entries : outcome[r][g] # "none" <=> g <= k
  BY DEF Settled
<1>3. N \in Nat /\ Entries = 1..N
  BY ParseAssumption DEF Entries
<1>4. f = k + 1
  <2>1. k < f
    BY <1>1, <1>2, <1>3
  <2>2. ASSUME k + 1 < f PROVE FALSE
    <3>1. k + 1 \in 1..(f - 1) /\ k + 1 \in Entries
      BY <1>1, <1>2, <1>3, <2>2
    <3>2. ~ (k + 1 <= k)
      BY <1>2, <1>3
    <3>3. QED
      BY <1>1, <1>2, <3>1, <3>2
  <2>3. QED
    BY <1>1, <1>2, <1>3, <2>1, <2>2
<1>5. k + 1 \in 0..N
  BY <1>1, <1>2, <1>3, <1>4
<1>6. \A g \in Entries : outcome'[r][g] # "none" <=> g <= k + 1
  BY <1>1, <1>2, <1>3, <1>4
<1>7. Batches[r] = {}
  BY DEF Batches
<1>8. QED
  BY <1>5, <1>6, <1>7 DEF Settled

LEMMA SequentialInv ==
  ASSUME TypeOK, NEW r \in Runs, RunInv(r), SeqParsed(r) \/ SeqFailed(r)
  PROVE  RunInv(r)'
<1>1. stage[r] = "parsing" /\ ~ Pooled[r] /\ UNCHANGED <<stage, batch, viaFile, dir, out>>
  BY DEF SeqParsed, SeqFailed, Write, pool, sink
<1>2. Fresh(r)' /\ Finished(r)' /\ DirKept(r)'
  BY <1>1 DEF RunInv, Fresh, Finished, DirKept
<1>3. CASE SeqParsed(r)
  <2>1. PICK f \in AtHand(r) :
          outcome' = [outcome EXCEPT ![r][f] = "parsed"] /\ Write(r, {f})
    BY <1>3 DEF SeqParsed
  <2>2. f \in Entries /\ {f} \in SUBSET Entries /\ outcome[r][f] = "none"
    BY DEF AtHand
  <2>3. outcome'[r][f] = "parsed" /\ \A g \in Entries : g # f => outcome'[r][g] = outcome[r][g]
    BY <2>1, <2>2 DEF TypeOK
  <2>4. Settled(r)'
    BY <1>1, <2>3, SequentialSettled DEF RunInv
  <2>5. /\ \A g \in {f} : ~ Handed(r, g)
        /\ \A g \in Entries : Handed(r, g)' <=> Handed(r, g) \/ g \in {f}
    BY <1>1, <2>2, <2>3 DEF Handed
  <2>6. Sunk(r)'
    BY <1>1, <2>1, <2>2, <2>5, WriteSunk DEF RunInv
  <2>7. QED
    BY <1>2, <2>4, <2>6 DEF RunInv
<1>4. CASE SeqFailed(r)
  <2>1. PICK f \in AtHand(r) : outcome' = [outcome EXCEPT ![r][f] = "failed"]
    BY <1>4 DEF SeqFailed
  <2>2. f \in Entries /\ outcome[r][f] = "none" /\ UNCHANGED sink
    BY <1>4 DEF AtHand, SeqFailed
  <2>3. outcome'[r][f] = "failed" /\ \A g \in Entries : g # f => outcome'[r][g] = outcome[r][g]
    BY <2>1, <2>2 DEF TypeOK
  <2>4. Settled(r)'
    BY <1>1, <2>3, SequentialSettled DEF RunInv
  <2>5. \A g \in Entries : Handed(r, g)' <=> Handed(r, g)
    BY <1>1, <2>2, <2>3 DEF Handed
  <2>6. HandedIn(r)' = HandedIn(r)
    BY <2>5 DEF HandedIn
  <2>7. Sunk(r)'
    BY <1>1, <2>2, <2>5, <2>6 DEF RunInv, Sunk, sink
  <2>8. QED
    BY <1>2, <2>4, <2>7 DEF RunInv
<1>5. QED
  BY <1>3, <1>4

-----------------------------------------------------------------------------
(* The theorems.                                                           *)

LEMMA InitIInv == Init => IInv
<1> SUFFICES ASSUME Init PROVE IInv
  OBVIOUS
<1>1. TypeOK
  BY InitType
<1>2. ASSUME NEW r \in Runs PROVE RunInv(r)
  <2>1. /\ stage[r] = "idle" /\ total[r] = 0
        /\ \A f \in Entries : outcome[r][f] = "none" /\ batch[r][f] = "queued"
    BY DEF Init
  <2>2. 0 \in 0..N /\ \A f \in Entries : ~ (f <= 0)
    BY ParseAssumption DEF Entries
  <2>3. Settled(r)
    BY <2>1, <2>2 DEF Settled, Batches
  <2>4. QED
    BY <2>1, <2>3 DEF RunInv, Fresh, Sunk, Finished, DirKept
<1>3. QED
  BY <1>1, <1>2 DEF IInv

LEMMA NextIInv == IInv /\ [Next]_vars => IInv'
<1> SUFFICES ASSUME IInv, [Next]_vars PROVE IInv'
  OBVIOUS
<1>1. TypeOK /\ TypeOK'
  BY NextType DEF IInv
<1>2. CASE UNCHANGED vars
  <2>1. \A q \in Runs : Untouched(q)
    BY <1>2 DEF vars, pool, sink, Untouched
  <2>2. QED
    BY <1>1, <2>1, FrameRun DEF IInv
<1>3. ASSUME NEW r \in Runs, Begin(r) \/ RunStep(r) \/ WorkerDies(r) \/ Kill(r)
      PROVE  IInv'
  <2>1. RunInv(r)
    BY DEF IInv
  <2>2. RunInv(r)'
    BY <1>1, <1>3, <2>1, BeginInv, StageInv, PoolInv, ParseInv, CollectInv, SequentialInv
       DEF RunStep
  <2>3. \A q \in Runs : q # r => RunInv(q)'
    BY <1>1, <1>3, OthersUntouched, FrameRun DEF IInv
  <2>4. QED
    BY <1>1, <2>2, <2>3 DEF IInv
<1>4. QED
  BY <1>2, <1>3 DEF Next

(* The invariant the theorems below follow from holds in every state. *)
THEOREM Inductive == Spec => []IInv
<1>1. QED
  BY InitIInv, NextIInv, PTL DEF Spec

(* A run that returns has written each parsed record once and no other,    *)
(* and what it counts as failed did fail, for any number of entries, jobs  *)
(* and overlapping runs, whichever faults occur.                           *)
THEOREM ReportsAreTrue == Spec => []ReportIsTrue
<1>1. IInv => ReportIsTrue
  <2> SUFFICES ASSUME IInv, NEW r \in Runs, stage[r] \in {"done", "empty"}
               PROVE  /\ stage[r] = "done" =>
                           \A f \in Entries :
                             out[r][f] = (IF outcome[r][f] = "parsed" THEN 1 ELSE 0)
                      /\ N - total[r] = Cardinality({f \in Entries : outcome[r][f] = "failed"})
    BY DEF ReportIsTrue
  <2>1. RunInv(r) /\ TypeOK
    BY DEF IInv
  <2>2. Exhausted(r)
    BY <2>1 DEF RunInv, Finished
  <2>3. \A f \in Entries : outcome[r][f] # "none"
    <3>1. CASE Pooled[r]
      BY <2>1, <2>2, <3>1, Covered DEF Exhausted, RunInv, Settled
    <3>2. CASE ~ Pooled[r]
      <4>1. PICK k \in 0..N : \A f \in Entries : outcome[r][f] # "none" <=> f <= k
        BY <2>1, <3>2 DEF RunInv, Settled
      <4>2. N \in Nat /\ Entries = 1..N
        BY ParseAssumption DEF Entries
      <4>3. CASE k < N
        <5>1. k + 1 \in Entries /\ \A g \in 1..(k + 1 - 1) : g \in Entries /\ g <= k
          BY <4>2, <4>3
        <5>2. k + 1 \in AtHand(r)
          BY <2>1, <4>1, <5>1 DEF AtHand, TypeOK
        <5>3. QED
          BY <2>2, <3>2, <5>2 DEF Exhausted
      <4>4. QED
        BY <4>1, <4>2, <4>3
    <3>3. QED
      BY <3>1, <3>2
  <2>4. \A f \in Entries : Handed(r, f) <=> outcome[r][f] = "parsed"
    BY <2>2, Covered DEF Handed, Exhausted
  <2>5. {f \in Entries : outcome[r][f] = "failed"} = Entries \ HandedIn(r)
    BY <2>1, <2>3, <2>4 DEF HandedIn, TypeOK
  <2>6. Cardinality(Entries \ HandedIn(r)) = N - Cardinality(HandedIn(r))
    <3>1. Entries \cap HandedIn(r) = HandedIn(r)
      BY DEF HandedIn
    <3>2. QED
      BY <3>1, EntriesFinite, FS_Difference
  <2>7. total[r] = Cardinality(HandedIn(r))
    BY <2>1 DEF RunInv, Sunk
  <2>8. stage[r] = "done" => \A f \in Entries : out[r][f] = IF Handed(r, f) THEN 1 ELSE 0
    BY <2>1 DEF RunInv, Finished
  <2>9. QED
    BY <2>4, <2>5, <2>6, <2>7, <2>8
<1>2. QED
  BY <1>1, Inductive, PTL

(* A run's temp file is there and holds nothing but its own records until  *)
(* it has copied them, whatever other runs do.                             *)
THEOREM TempsAreOwn == Spec => []TempIsOwn
<1>1. IInv => TempIsOwn
  BY DEF IInv, RunInv, Sunk, Handed, TempIsOwn, TempName
<1>2. QED
  BY <1>1, Inductive, PTL

(* No worker starts after the dir it reads is gone, and no dir is left by  *)
(* a run that returned or raised.                                          *)
THEOREM IndexDirsOutlivePools == Spec => []IndexDirOutlivesPool
<1>1. IInv => IndexDirOutlivesPool
  BY DEF IInv, RunInv, DirKept, IndexDirOutlivesPool, MayStart, Pooling
<1>2. QED
  BY <1>1, Inductive, PTL

(* The artifact changes only at the hands of a run that has all its        *)
(* records.                                                                *)
THEOREM ArtifactsOutliveFailures == Spec => ArtifactOutlivesFailures
<1> DEFINE Step == artifact' # artifact =>
                     \E r \in Runs : stage[r] \in {"finalize", "copy"} /\ Exhausted(r)
<1>1. IInv /\ [Next]_vars => [Step]_vars
  <2> SUFFICES ASSUME IInv, Next, artifact' # artifact
               PROVE  \E r \in Runs : stage[r] \in {"finalize", "copy"} /\ Exhausted(r)
    OBVIOUS
  <2>1. PICK r \in Runs : Begin(r) \/ RunStep(r) \/ WorkerDies(r) \/ Kill(r)
    BY DEF Next
  <2>2. OpenArtifact(r) \/ CloseArtifact(r)
    BY <2>1 DEF Begin, RunStep, WorkerDies, Kill, AllCollected, NoContent, DrainDone,
                WriteRaises, FinalizeRaises, SeqParsed, SeqFailed, SeqRaises, StartWorker,
                Take, Parse, ClaimsRaise, BatchDone, Collect, CollectRaises
  <2>3. stage[r] \in {"finalize", "copy"}
    BY <2>2 DEF OpenArtifact, CloseArtifact
  <2>4. Exhausted(r)
    BY <2>3 DEF IInv, RunInv, Finished
  <2>5. QED
    BY <2>3, <2>4
<1>2. Spec => [][Step]_vars
  BY <1>1, Inductive, PTL DEF Spec
<1>3. QED
  BY <1>2 DEF ArtifactOutlivesFailures

(* If no parser's claims() raises, a bad entry costs itself: no run is     *)
(* aborted by one, whatever workers and writes do.                         *)
THEOREM BadEntriesCostThemselves ==
  ASSUME "claims" \notin Faults
  PROVE  Spec => []BadEntryCostsItself
<1> DEFINE NoneRaised == TypeOK /\ \A r \in Runs : \A b \in Entries : batch[r][b] # "raised"
           Inv == NoneRaised /\ BadEntryCostsItself
<1>1. Init => Inv
  BY InitType DEF Init, BadEntryCostsItself
<1>2. Inv /\ [Next]_vars => Inv'
  <2> SUFFICES ASSUME Inv, [Next]_vars PROVE Inv'
    OBVIOUS
  <2>1. TypeOK /\ TypeOK'
    BY NextType
  <2>2. CASE UNCHANGED vars
    BY <2>1, <2>2 DEF vars, pool, BadEntryCostsItself
  <2>3. ASSUME NEW r \in Runs, Begin(r) \/ RunStep(r) \/ WorkerDies(r) \/ Kill(r)
        PROVE  Inv'
    <3>1. CASE Begin(r) \/ Kill(r) \/ AllCollected(r) \/ NoContent(r) \/ OpenArtifact(r)
               \/ CloseArtifact(r) \/ DrainDone(r) \/ SeqParsed(r) \/ SeqFailed(r)
               \/ StartWorker(r)
      BY <2>1, <3>1 DEF Begin, Kill, AllCollected, NoContent, OpenArtifact, CloseArtifact,
         DrainDone, SeqParsed, SeqFailed, StartWorker, pool, BadEntryCostsItself
    <3>2. CASE WriteRaises(r) \/ FinalizeRaises(r)
      BY <2>1, <3>2 DEF WriteRaises, FinalizeRaises, Abort, pool, BadEntryCostsItself, TypeOK
    <3>3. CASE WorkerDies(r)
      BY <2>1, <3>3 DEF WorkerDies, BadEntryCostsItself, TypeOK
    <3>4. ASSUME NEW b \in Batches[r], CollectRaises(r, b)
          PROVE  Inv'
      <4>1. b \in Entries
        BY DEF Batches
      <4>2. batch[r][b] = "lost" /\ cause' = [cause EXCEPT ![r] = "worker"] /\ batch' = batch
        BY <3>4, <4>1 DEF CollectRaises, Abort, pool
      <4>3. QED
        BY <2>1, <4>2 DEF BadEntryCostsItself, TypeOK
    <3>5. ASSUME NEW b \in Batches[r],
                 Take(r, b) \/ Parse(r, b) \/ BatchDone(r, b) \/ Collect(r, b)
          PROVE  Inv'
      <4>1. cause' = cause
        BY <3>5 DEF Take, Parse, BatchDone, Collect
      <4>2. \A q \in Runs : \A c \in Entries : batch'[q][c] # "raised"
        <5>1. CASE Parse(r, b)
          BY <5>1 DEF Parse, pool
        <5>2. CASE Take(r, b) \/ BatchDone(r, b) \/ Collect(r, b)
          <6>1. PICK v \in {"running", "done", "collected"} : batch' = [batch EXCEPT ![r][b] = v]
            BY <5>2 DEF Take, BatchDone, Collect
          <6>2. QED
            BY <2>1, <6>1 DEF TypeOK, Batches
        <5>3. QED
          BY <3>5, <5>1, <5>2
      <4>3. QED
        BY <2>1, <4>1, <4>2 DEF BadEntryCostsItself
    <3>6. ~ SeqRaises(r) /\ \A b \in Batches[r] : ~ ClaimsRaise(r, b)
      BY DEF SeqRaises, ClaimsRaise
    <3>7. QED
      BY <2>3, <3>1, <3>2, <3>3, <3>4, <3>5, <3>6 DEF RunStep
  <2>4. QED
    BY <2>2, <2>3 DEF Next
<1>3. Inv => BadEntryCostsItself
  OBVIOUS
<1>4. QED
  BY <1>1, <1>2, <1>3, PTL DEF Spec

-----------------------------------------------------------------------------
(* Why runs end: each can always take a step, and has only so many.        *)

(* The guards of RunStep, without those of its faults. *)
CanMove(r) ==
  \/ stage[r] = "parsing" /\ (Exhausted(r) \/ (~ Pooled[r] /\ AtHand(r) # {}))
  \/ stage[r] = "parsing" /\ \E b \in Batches[r] : batch[r][b] \in {"done", "raised", "lost"}
  \/ MayStart(r)
  \/ /\ Pooling(r) /\ Cardinality(Running(r)) < workers[r]
     /\ \E b \in Batches[r] : batch[r][b] = "queued" /\ \A a \in 1..(b - 1) : batch[r][a] # "queued"
  \/ /\ Pooling(r)
     /\ \E b \in Running(r) : \/ \E f \in Batch[r][b] : AtEntry(r, b, f)
                              \/ \A f \in Batch[r][b] : outcome[r][f] # "none"
  \/ stage[r] = "draining" /\ Quiet(r)
  \/ stage[r] = "finalize"
  \/ stage[r] = "copy" /\ temp[TempName(r)]

NoRunHangs ==
  \A r \in Runs : stage[r] \in {"parsing", "draining", "finalize", "copy"} => CanMove(r)

LEMMA Least ==
  ASSUME NEW S \in SUBSET Nat, S # {}
  PROVE  \E x \in S : \A y \in S : x <= y
<1> DEFINE R == OpToRel(<, Nat)
<1>1. IsWellFoundedOn(R, Nat)
  BY NatLessThanWellFounded
<1>2. R = {p \in Nat \X Nat : p[1] < p[2]}
  BY DEF OpToRel
<1> HIDE DEF R
<1>3. PICK x \in S : \A y \in S : ~ (<<y, x>> \in R)
  BY <1>1, WFMin
<1>4. ASSUME NEW y \in S PROVE x <= y
  <2>1. x \in Nat /\ y \in Nat
    OBVIOUS
  <2>2. ~ (<<y, x>> \in R)
    BY <1>3
  <2>3. ~ (y < x)
    BY <1>2, <2>1, <2>2
  <2>4. QED
    BY <2>1, <2>3
<1>5. QED
  BY <1>4

(* A worker with a batch is at an entry or has done them all. *)
LEMMA WorkerMoves ==
  ASSUME TypeOK, NEW r \in Runs, Pooling(r), NEW b \in Running(r)
  PROVE  CanMove(r)
<1> DEFINE Undecided == {f \in Batch[r][b] : outcome[r][f] = "none"}
<1>1. CASE Undecided = {}
  BY <1>1 DEF CanMove
<1>2. CASE Undecided # {}
  <2>1. b \in Entries /\ Batch[r][b] \subseteq Entries
    BY DEF Running, Batches, Batch
  <2>2. Undecided \in SUBSET Nat
    BY <2>1 DEF Entries
  <2>3. PICK f \in Undecided : \A g \in Undecided : f <= g
    BY <1>2, <2>2, Least
  <2>4. \A g \in Batch[r][b] : g < f => outcome[r][g] # "none"
    BY <2>1, <2>2, <2>3 DEF Entries
  <2>5. AtEntry(r, b, f)
    BY <2>3, <2>4 DEF AtEntry
  <2>6. QED
    BY <2>3, <2>5 DEF CanMove
<1>3. QED
  BY <1>1, <1>2

(* With all workers idle a queued batch is taken, if need be by a worker   *)
(* that starts for it.                                                     *)
LEMMA QueueMoves ==
  ASSUME TypeOK, NEW r \in Runs, Pooling(r), Running(r) = {},
         \E b \in Batches[r] : batch[r][b] = "queued"
  PROVE  CanMove(r)
<1>1. workers[r] \in Nat /\ Jobs[r] \in Nat \ {0}
  BY ParseAssumption DEF TypeOK
<1>2. CASE workers[r] < Jobs[r]
  BY <1>2 DEF CanMove, MayStart
<1>3. CASE ~ workers[r] < Jobs[r]
  <2> DEFINE Waiting == {b \in Batches[r] : batch[r][b] = "queued"}
  <2>1. Waiting \in SUBSET Nat /\ Waiting # {}
    BY DEF Batches, Entries
  <2>2. PICK b \in Waiting : \A a \in Waiting : b <= a
    BY <2>1, Least
  <2>3. ASSUME NEW a \in 1..(b - 1) PROVE batch[r][a] # "queued"
    <3>1. b \in Entries /\ a \in Entries /\ a < b /\ N \in Nat /\ (b - 1) * Size[r] < N
      BY <2>2, ParseAssumption DEF Batches, Entries
    <3>2. (a - 1) * Size[r] <= (b - 1) * Size[r]
      <4>1. Size[r] \in Nat /\ b - a \in Nat /\ a - 1 \in Nat
        BY <3>1, SizePositive DEF Entries
      <4>2. (b - a) * Size[r] \in Nat /\ (a - 1) * Size[r] \in Nat
        BY <4>1
      <4>3. (b - 1) * Size[r] = (a - 1) * Size[r] + (b - a) * Size[r]
        BY <3>1, <4>1 DEF Entries
      <4>4. QED
        BY <4>2, <4>3
    <3>3. (a - 1) * Size[r] \in Nat /\ (b - 1) * Size[r] \in Nat
      BY <3>1, SizePositive DEF Entries
    <3>4. a \in Batches[r]
      BY <3>1, <3>2, <3>3 DEF Batches
    <3>5. QED
      BY <2>1, <2>2, <3>1, <3>4 DEF Entries
  <2>4. Cardinality(Running(r)) < workers[r]
    BY <1>1, <1>3, FS_EmptySet
  <2>5. QED
    BY <2>2, <2>3, <2>4 DEF CanMove
<1>4. QED
  BY <1>2, <1>3

LEMMA PoolMoves ==
  ASSUME TypeOK, NEW r \in Runs, Pooling(r)
  PROVE  CanMove(r)
<1>1. CASE Running(r) # {}
  BY <1>1, WorkerMoves
<1>2. CASE Running(r) = {} /\ \E b \in Batches[r] : batch[r][b] = "queued"
  BY <1>2, QueueMoves
<1>3. CASE Quiet(r)
  <2>1. \A b \in Batches[r] : batch[r][b] \in {"done", "raised", "lost", "collected"}
    BY <1>3 DEF TypeOK, Quiet, Batches
  <2>2. CASE stage[r] = "draining"
    BY <1>3, <2>2 DEF CanMove
  <2>3. CASE stage[r] = "parsing" /\ \A b \in Batches[r] : batch[r][b] = "collected"
    <3>1. Exhausted(r)
      BY <2>3 DEF Exhausted, Pooling
    <3>2. QED
      BY <2>3, <3>1 DEF CanMove
  <2>4. CASE stage[r] = "parsing" /\ \E b \in Batches[r] : batch[r][b] # "collected"
    BY <2>1, <2>4 DEF CanMove
  <2>5. QED
    BY <2>2, <2>3, <2>4 DEF Pooling
<1>4. QED
  BY <1>1, <1>2, <1>3 DEF Running, Quiet

(* No run is stuck before its end, while it parses, while it drains a      *)
(* broken pool or while it writes: each waits for nothing but a step some  *)
(* process of its own can take, without a fault.                           *)
THEOREM RunsNeverHang == Spec => []NoRunHangs
<1>1. ASSUME IInv, NEW r \in Runs, stage[r] \in {"parsing", "draining", "finalize", "copy"}
      PROVE  CanMove(r)
  <2>1. TypeOK /\ RunInv(r)
    BY <1>1 DEF IInv
  <2>2. CASE Pooling(r)
    BY <2>1, <2>2, PoolMoves
  <2>3. CASE stage[r] \in {"parsing", "draining"} /\ ~ Pooled[r]
    <3>1. Batches[r] = {} /\ (Exhausted(r) <=> AtHand(r) = {})
      BY <2>3 DEF Batches, Exhausted
    <3>2. Quiet(r)
      BY <3>1 DEF Quiet
    <3>3. QED
      BY <2>3, <3>1, <3>2 DEF CanMove
  <2>4. CASE stage[r] \in {"finalize", "copy"}
    BY <2>1, <2>4 DEF CanMove, RunInv, Sunk, TempName
  <2>5. QED
    BY <1>1, <2>2, <2>3, <2>4 DEF Pooling
<1>2. IInv => NoRunHangs
  BY <1>1 DEF NoRunHangs
<1>3. QED
  BY <1>2, Inductive, PTL

(* What is ahead of a run, and of a batch. *)
Ahead == [idle |-> 4, parsing |-> 3, draining |-> 2, finalize |-> 2, copy |-> 1,
          done |-> 0, empty |-> 0, raised |-> 0, killed |-> 0]
Awaited == [queued |-> 3, running |-> 2, done |-> 1, raised |-> 0, lost |-> 0, collected |-> 0]

(* What a step uses up: a stage of the run, an entry, a part of a batch or *)
(* a worker still to start.  Dead workers may be started anew only as far  *)
(* as batches were lost with them.                                         *)
UsesUp(r) ==
  \/ Ahead[stage'[r]] < Ahead[stage[r]]
  \/ /\ stage'[r] = stage[r]
     /\ \E f \in Entries : /\ outcome[r][f] = "none" /\ outcome'[r][f] # "none"
                           /\ \A g \in Entries \ {f} : outcome'[r][g] = outcome[r][g]
  \/ /\ stage'[r] = stage[r] /\ outcome'[r] = outcome[r]
     /\ \E b \in Entries : Awaited[batch'[r][b]] < Awaited[batch[r][b]]
     /\ \A b \in Entries : Awaited[batch'[r][b]] <= Awaited[batch[r][b]]
  \/ /\ stage'[r] = stage[r] /\ outcome'[r] = outcome[r] /\ batch'[r] = batch[r]
     /\ workers[r] < workers'[r] /\ workers'[r] <= Jobs[r]

RunsRunOut ==
  [][\E r \in Runs :
       /\ UsesUp(r)
       /\ \A q \in Runs \ {r} : Untouched(q) /\ workers'[q] = workers[q]]_vars

LEMMA OwnStepUses ==
  ASSUME IInv, NEW r \in Runs, Begin(r) \/ RunStep(r) \/ WorkerDies(r) \/ Kill(r)
  PROVE  UsesUp(r)
<1> USE DEF IInv, TypeOK
<1>1. CASE Begin(r) \/ AllCollected(r) \/ NoContent(r) \/ OpenArtifact(r) \/ CloseArtifact(r)
           \/ DrainDone(r) \/ FinalizeRaises(r) \/ Kill(r)
  BY <1>1 DEF Begin, AllCollected, NoContent, OpenArtifact, CloseArtifact, DrainDone,
              FinalizeRaises, Kill, UsesUp, Ahead
<1>2. ASSUME WriteRaises(r) \/ SeqRaises(r) \/ \E b \in Batches[r] : CollectRaises(r, b)
      PROVE  UsesUp(r)
  BY <1>2 DEF WriteRaises, SeqRaises, CollectRaises, Abort, UsesUp, Ahead
<1>3. ASSUME NEW f \in Entries, NEW how \in {"parsed", "failed"}, outcome[r][f] = "none",
             outcome' = [outcome EXCEPT ![r][f] = how], stage' = stage
      PROVE  UsesUp(r)
  BY <1>3 DEF UsesUp
<1>4. CASE SeqParsed(r) \/ SeqFailed(r)
  BY <1>3, <1>4 DEF SeqParsed, SeqFailed, AtHand
<1>5. ASSUME NEW b \in Batches[r], Parse(r, b) PROVE UsesUp(r)
  <2>1. PICK f \in Batch[r][b], how \in {"parsed", "failed"} :
          AtEntry(r, b, f) /\ outcome' = [outcome EXCEPT ![r][f] = how]
    BY <1>5 DEF Parse
  <2>2. f \in Entries /\ outcome[r][f] = "none" /\ stage' = stage
    BY <1>5, <2>1 DEF Parse, AtEntry, Batch, Batches
  <2>3. QED
    BY <1>3, <2>1, <2>2
<1>6. ASSUME NEW b \in Entries, NEW p \in {"queued", "running", "done"},
             NEW q \in {"running", "done", "raised", "collected"},
             batch[r][b] = p, batch' = [batch EXCEPT ![r][b] = q], Awaited[q] < Awaited[p],
             stage' = stage, outcome' = outcome
      PROVE  UsesUp(r)
  <2>1. batch'[r][b] = q /\ \A a \in Entries \ {b} : batch'[r][a] = batch[r][a]
    BY <1>6
  <2>2. \A v \in {"queued", "running", "done", "raised", "lost", "collected"} : Awaited[v] \in Nat
    BY DEF Awaited
  <2>3. ASSUME NEW a \in Entries PROVE Awaited[batch'[r][a]] <= Awaited[batch[r][a]]
    <3>1. Awaited[batch[r][a]] \in Nat /\ Awaited[p] \in Nat /\ Awaited[q] \in Nat
      <4>1. batch[r][a] \in {"queued", "running", "done", "raised", "lost", "collected"}
        OBVIOUS
      <4>2. QED
        BY <2>2, <4>1
    <3>2. CASE a = b
      BY <1>6, <2>1, <3>1, <3>2
    <3>3. CASE a # b
      BY <2>1, <3>1, <3>3
    <3>4. QED
      BY <3>2, <3>3
  <2>4. QED
    BY <1>6, <2>1, <2>3 DEF UsesUp
<1>7. ASSUME NEW b \in Batches[r],
             Take(r, b) \/ ClaimsRaise(r, b) \/ BatchDone(r, b) \/ Collect(r, b)
      PROVE  UsesUp(r)
  <2>1. b \in Entries /\ stage' = stage /\ outcome' = outcome
    BY <1>7 DEF Batches, Take, ClaimsRaise, BatchDone, Collect
  <2>2. /\ Awaited["running"] < Awaited["queued"] /\ Awaited["done"] < Awaited["running"]
        /\ Awaited["raised"] < Awaited["running"] /\ Awaited["collected"] < Awaited["done"]
    BY DEF Awaited
  <2>3. CASE Take(r, b)
    <3>1. batch[r][b] = "queued" /\ batch' = [batch EXCEPT ![r][b] = "running"]
      BY <2>3 DEF Take
    <3>2. QED
      BY <1>6, <2>1, <2>2, <3>1
  <2>4. CASE Collect(r, b)
    <3>1. batch[r][b] = "done" /\ batch' = [batch EXCEPT ![r][b] = "collected"]
      BY <2>4 DEF Collect
    <3>2. QED
      BY <1>6, <2>1, <2>2, <3>1
  <2>5. CASE ClaimsRaise(r, b)
    <3>1. batch[r][b] = "running" /\ batch' = [batch EXCEPT ![r][b] = "raised"]
      BY <2>5 DEF ClaimsRaise, AtEntry, Running
    <3>2. QED
      BY <1>6, <2>1, <2>2, <3>1
  <2>6. CASE BatchDone(r, b)
    <3>1. batch[r][b] = "running" /\ batch' = [batch EXCEPT ![r][b] = "done"]
      BY <2>6 DEF BatchDone, Running
    <3>2. QED
      BY <1>6, <2>1, <2>2, <3>1
  <2>7. QED
    BY <1>7, <2>3, <2>4, <2>5, <2>6
<1>8. CASE StartWorker(r)
  <2>1. workers[r] \in Nat /\ Jobs[r] \in Nat /\ workers[r] < Jobs[r]
    BY <1>8, ParseAssumption DEF StartWorker, MayStart
  <2>2. QED
    BY <1>8, <2>1 DEF StartWorker, UsesUp
<1>9. CASE WorkerDies(r)
  <2>1. \A b \in Entries :
          batch'[r][b] = IF b \in Batches[r] /\ batch[r][b] \in {"queued", "running"}
                         THEN "lost" ELSE batch[r][b]
    BY <1>9 DEF WorkerDies
  <2>2. PICK b \in Batches[r] : batch[r][b] \in {"queued", "running"}
    BY <1>9 DEF WorkerDies, Quiet
  <2>3. b \in Entries /\ Awaited[batch'[r][b]] < Awaited[batch[r][b]]
    BY <2>1, <2>2 DEF Batches, Awaited
  <2>4. \A a \in Entries : Awaited[batch'[r][a]] <= Awaited[batch[r][a]]
    BY <2>1 DEF Awaited
  <2>5. stage' = stage /\ outcome' = outcome
    BY <1>9 DEF WorkerDies
  <2>6. QED
    BY <2>3, <2>4, <2>5 DEF UsesUp
<1>10. QED
  BY <1>1, <1>2, <1>4, <1>5, <1>7, <1>8, <1>9 DEF RunStep

(* Whatever fails and whatever workers die, every run has only so many     *)
(* steps, and no step of one gives another more to do.  With RunsNeverHang *)
(* this is the safety half of RunEnds.                                     *)
THEOREM RunsEnd == Spec => RunsRunOut
<1> DEFINE Step == \E r \in Runs :
                     /\ UsesUp(r)
                     /\ \A q \in Runs \ {r} : Untouched(q) /\ workers'[q] = workers[q]
<1>1. ASSUME IInv, NEW r \in Runs, Begin(r) \/ RunStep(r) \/ WorkerDies(r) \/ Kill(r),
             NEW q \in Runs, q # r
      PROVE  workers'[q] = workers[q]
  BY <1>1 DEF Begin, RunStep, WorkerDies, Kill, AllCollected, NoContent, OpenArtifact,
              CloseArtifact, DrainDone, WriteRaises, FinalizeRaises, SeqParsed, SeqFailed,
              SeqRaises, StartWorker, Take, Parse, ClaimsRaise, BatchDone, Collect,
              CollectRaises, pool, IInv, TypeOK
<1>2. IInv /\ Next => Step
  BY <1>1, OwnStepUses, OthersUntouched DEF Next, IInv
<1>3. Spec => [][Step]_vars
  BY <1>2, Inductive, PTL DEF Spec
<1>4. QED
  BY <1>3 DEF RunsRunOut
=============================================================================
