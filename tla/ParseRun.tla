------------------------------ MODULE ParseRun ------------------------------
(***************************************************************************)
(* One analysis of a repository after its scan: core/executor.py parses    *)
(* the entries, in worker processes or in the calling one,                 *)
(* core/pipeline.py (_assemble) hands every record to the sink and sums    *)
(* them up, emit/sinks.py (FileSink) turns the temp file into the          *)
(* artifact.  Several invocations may run over one repository at the same  *)
(* time; they share the artifact's path.                                   *)
(*                                                                         *)
(* Entries are numbered in scan order.  concurrent.futures' process pool   *)
(* is external: a batch waits, runs in one worker, and its future holds    *)
(* the records, an exception, or BrokenProcessPool.                        *)
(***************************************************************************)
EXTENDS Naturals, FiniteSets

CONSTANTS
  Runs,          \* invocations
  N,             \* entries of the scan
  Jobs,          \* Jobs[r]: settings.jobs of run r, or the number of CPUs
  PerWorker,     \* batches per worker (4 in the code)
  Faults         \* "claims": a parser's claims() can raise (a timed-out parse)
                 \* "worker": a worker process can die
                 \* "sink":   writing can fail (disk full)

ASSUME ParseAssumption ==
  /\ N \in Nat /\ PerWorker \in Nat \ {0}
  /\ Jobs \in [Runs -> Nat \ {0}]
  /\ Faults \subseteq {"claims", "worker", "sink"}

Entries == 1..N

VARIABLES
  stage,         \* where each run is
  outcome,       \* what became of each entry in its parse
  batch,         \* the future of each batch
  workers,       \* worker processes that have started
  viaFile, dir,  \* indexes travel in a temp dir; the dir is on disk
  temp, body,    \* FileSink's temp file, by name: on disk, records per entry
  total,         \* total_files
  out,           \* the records finalize has copied into the artifact
  cause,         \* what made the run raise
  artifact       \* runs that have written to the file, and is it whole?

pool == <<batch, workers, viaFile>>
sink == <<temp, body, total, out>>
vars == <<stage, outcome, pool, dir, sink, cause, artifact>>

TypeOK ==
  /\ stage \in [Runs -> {"idle", "parsing", "draining", "finalize", "copy",
                         "done", "empty", "raised", "killed"}]
  /\ outcome \in [Runs -> [Entries -> {"none", "parsed", "failed"}]]
  /\ batch \in [Runs -> [Entries -> {"queued", "running", "done", "raised", "lost", "collected"}]]
  /\ workers \in [Runs -> Nat] /\ \A r \in Runs : workers[r] <= Jobs[r]
  /\ viaFile \in [Runs -> BOOLEAN] /\ dir \in [Runs -> BOOLEAN]
  /\ temp \in [Runs -> BOOLEAN] /\ body \in [Runs -> [Entries -> Nat]]
  /\ total \in [Runs -> Nat] /\ out \in [Runs -> [Entries -> Nat]]
  /\ cause \in [Runs -> {"none", "entry", "worker", "sink"}]
  /\ artifact \in [by : SUBSET Runs, whole : BOOLEAN]

Empty == [f \in Entries |-> 0]

Init ==
  /\ stage = [r \in Runs |-> "idle"]
  /\ outcome = [r \in Runs |-> [f \in Entries |-> "none"]]
  /\ batch = [r \in Runs |-> [b \in Entries |-> "queued"]]
  /\ workers = [r \in Runs |-> 0]
  /\ viaFile = [r \in Runs |-> FALSE] /\ dir = [r \in Runs |-> FALSE]
  /\ temp = [r \in Runs |-> FALSE] /\ body = [r \in Runs |-> Empty]
  /\ total = [r \in Runs |-> 0] /\ out = [r \in Runs |-> Empty]
  /\ cause = [r \in Runs |-> "none"]
  /\ artifact = [by |-> {}, whole |-> TRUE]   \* what an earlier run left

-----------------------------------------------------------------------------
(* _chunk *)

(* jobs <= 1 or a single entry: parsed in the calling process. *)
Pooled == [r \in Runs |-> Jobs[r] > 1 /\ N > 1]

AtLeastOne(n) == IF n < 1 THEN 1 ELSE n

(* max(1, ceil(N / (jobs * 4))) *)
Size ==
  [r \in Runs |-> AtLeastOne((N + Jobs[r] * PerWorker - 1) \div (Jobs[r] * PerWorker))]

Batches ==
  [r \in Runs |-> IF Pooled[r] THEN {b \in Entries : (b - 1) * Size[r] < N} ELSE {}]

(* Mutant of Batch: the slice ends one entry early. *)
MutBatchStopsShort ==
  [r \in Runs |-> [b \in Entries |->
     {f \in Entries : (b - 1) * Size[r] < f /\ f < b * Size[r]}]]

Batch ==
  [r \in Runs |-> [b \in Entries |->
     {f \in Entries : (b - 1) * Size[r] < f /\ f <= b * Size[r]}]]

-----------------------------------------------------------------------------
(* The run's own process.                                                  *)

(* Mutant of TempName: one deterministic name per output path. *)
MutOneTempName(r) == CHOOSE q \in Runs : TRUE

(* NamedTemporaryFile: a name of its own for every run. *)
TempName(r) == r

(* Mutant of Begin: the sink writes straight to the artifact's path. *)
MutBeginInPlace(r) ==
  /\ stage[r] = "idle"
  /\ stage' = [stage EXCEPT ![r] = "parsing"]
  /\ temp' = [temp EXCEPT ![TempName(r)] = TRUE]
  /\ body' = [body EXCEPT ![TempName(r)] = Empty]
  /\ artifact' = [by |-> {r}, whole |-> FALSE]
  /\ UNCHANGED <<outcome, pool, dir, total, out, cause>>

(* FileSink opens its temp file.  The indexes, when there are any, travel  *)
(* in a private dir if it and the file in it can be written, else in the   *)
(* pool's initargs.                                                        *)
Begin(r) ==
  /\ stage[r] = "idle"
  /\ stage' = [stage EXCEPT ![r] = "parsing"]
  /\ temp' = [temp EXCEPT ![TempName(r)] = TRUE]
  /\ body' = [body EXCEPT ![TempName(r)] = Empty]
  /\ \E made, file \in BOOLEAN :
       /\ file => made
       /\ made => Pooled[r]
       /\ viaFile' = [viaFile EXCEPT ![r] = file] /\ dir' = [dir EXCEPT ![r] = made]
  /\ UNCHANGED <<outcome, batch, workers, total, out, cause, artifact>>

(* Mutant of Abort: the dir goes before the pool does. *)
MutAbortDropsDir(r, why) ==
  /\ stage' = [stage EXCEPT ![r] = "draining"]
  /\ cause' = [cause EXCEPT ![r] = why]
  /\ dir' = [dir EXCEPT ![r] = FALSE]

(* An exception leaves parse_entries or _assemble; the pool's __exit__     *)
(* first waits for every batch that was submitted.                         *)
Abort(r, why) ==
  /\ stage' = [stage EXCEPT ![r] = "draining"]
  /\ cause' = [cause EXCEPT ![r] = why]
  /\ UNCHANGED dir

(* sink.write for each record of S *)
Write(r, S) ==
  /\ body' = [body EXCEPT ![TempName(r)] = [f \in Entries |-> IF f \in S THEN @[f] + 1 ELSE @[f]]]
  /\ total' = [total EXCEPT ![r] = @ + Cardinality(S)]
  /\ UNCHANGED <<temp, out>>

(* A batch has its result; as_completed yields it in completion order. *)
Collect(r, b) ==
  /\ stage[r] = "parsing" /\ b \in Batches[r] /\ batch[r][b] = "done"
  /\ batch' = [batch EXCEPT ![r][b] = "collected"]
  /\ Write(r, {f \in Batch[r][b] : outcome[r][f] = "parsed"})
  /\ UNCHANGED <<stage, outcome, workers, viaFile, dir, cause, artifact>>

(* future.result() raises. *)
CollectRaises(r, b) ==
  /\ stage[r] = "parsing" /\ b \in Batches[r] /\ batch[r][b] \in {"raised", "lost"}
  /\ Abort(r, IF batch[r][b] = "raised" THEN "entry" ELSE "worker")
  /\ UNCHANGED <<outcome, pool, sink, artifact>>

AtHand(r) == {f \in Entries : outcome[r][f] = "none" /\ \A g \in 1..(f - 1) : outcome[r][g] # "none"}

(* The sequential branch: parse an entry, write its record at once. *)
SeqParsed(r) ==
  /\ stage[r] = "parsing" /\ ~ Pooled[r]
  /\ \E f \in AtHand(r) :
       /\ outcome' = [outcome EXCEPT ![r][f] = "parsed"]
       /\ Write(r, {f})
  /\ UNCHANGED <<stage, pool, dir, cause, artifact>>

SeqFailed(r) ==
  /\ stage[r] = "parsing" /\ ~ Pooled[r]
  /\ \E f \in AtHand(r) : outcome' = [outcome EXCEPT ![r][f] = "failed"]
  /\ UNCHANGED <<stage, pool, dir, sink, cause, artifact>>

SeqRaises(r) ==
  /\ "claims" \in Faults
  /\ stage[r] = "parsing" /\ ~ Pooled[r] /\ AtHand(r) # {}
  /\ Abort(r, "entry")
  /\ UNCHANGED <<outcome, pool, sink, artifact>>

(* sink.write raises. *)
WriteRaises(r) ==
  /\ "sink" \in Faults
  /\ stage[r] = "parsing"
  /\ \/ \E b \in Batches[r] : batch[r][b] = "done"
     \/ ~ Pooled[r] /\ AtHand(r) # {}
  /\ Abort(r, "sink")
  /\ UNCHANGED <<outcome, pool, sink, artifact>>

Quiet(r) == \A b \in Batches[r] : batch[r][b] \notin {"queued", "running"}

(* Mutant of DrainDone: shutting down waits for the result of every batch, *)
(* also of those that will never have one.                                 *)
MutDrainWantsResults(r) ==
  /\ stage[r] = "draining" /\ \A b \in Batches[r] : batch[r][b] \in {"done", "collected"}
  /\ stage' = [stage EXCEPT ![r] = "raised"]
  /\ dir' = [dir EXCEPT ![r] = FALSE]
  /\ UNCHANGED <<outcome, pool, sink, cause, artifact>>

(* The pool has shut down, the indexes' dir is removed, the run raises.    *)
(* FileSink's temp file stays.                                             *)
DrainDone(r) ==
  /\ stage[r] = "draining" /\ Quiet(r)
  /\ stage' = [stage EXCEPT ![r] = "raised"]
  /\ dir' = [dir EXCEPT ![r] = FALSE]
  /\ UNCHANGED <<outcome, pool, sink, cause, artifact>>

Exhausted(r) ==
  IF Pooled[r] THEN \A b \in Batches[r] : batch[r][b] = "collected" ELSE AtHand(r) = {}

(* The last record is written; the pool and the dir are gone. *)
AllCollected(r) ==
  /\ stage[r] = "parsing" /\ Exhausted(r)
  /\ stage' = [stage EXCEPT ![r] = "finalize"]
  /\ dir' = [dir EXCEPT ![r] = FALSE]
  /\ UNCHANGED <<outcome, pool, sink, cause, artifact>>

-----------------------------------------------------------------------------
(* The pool's worker processes.                                            *)

Pooling(r) == Pooled[r] /\ stage[r] \in {"parsing", "draining"}
Running(r) == {b \in Batches[r] : batch[r][b] = "running"}

(* Mutant of MayStart: one worker more than jobs. *)
MutOneWorkerMore(r) ==
  /\ Pooling(r) /\ workers[r] <= Jobs[r]
  /\ \E b \in Batches[r] : batch[r][b] = "queued"

(* The pool starts workers as work is submitted, up to max_workers. *)
MayStart(r) ==
  /\ Pooling(r) /\ workers[r] < Jobs[r]
  /\ \E b \in Batches[r] : batch[r][b] = "queued"

(* _init_worker loads the indexes. *)
StartWorker(r) ==
  /\ MayStart(r)
  /\ workers' = [workers EXCEPT ![r] = @ + 1]
  /\ UNCHANGED <<stage, outcome, batch, viaFile, dir, sink, cause, artifact>>

(* Batches are taken in the order they were submitted. *)
Take(r, b) ==
  /\ Pooling(r) /\ b \in Batches[r] /\ batch[r][b] = "queued"
  /\ \A a \in 1..(b - 1) : batch[r][a] # "queued"
  /\ Cardinality(Running(r)) < workers[r]
  /\ batch' = [batch EXCEPT ![r][b] = "running"]
  /\ UNCHANGED <<stage, outcome, workers, viaFile, dir, sink, cause, artifact>>

(* The entry a worker is at in batch b. *)
AtEntry(r, b, f) ==
  /\ Pooling(r) /\ b \in Running(r) /\ f \in Batch[r][b] /\ outcome[r][f] = "none"
  /\ \A g \in Batch[r][b] : g < f => outcome[r][g] # "none"

(* _parse_entry returns a record, or None after logging the failure. *)
Parse(r, b) ==
  /\ \E f \in Batch[r][b], how \in {"parsed", "failed"} :
       /\ AtEntry(r, b, f)
       /\ outcome' = [outcome EXCEPT ![r][f] = how]
  /\ UNCHANGED <<stage, pool, dir, sink, cause, artifact>>

(* registry.select asks the candidates' claims() outside the try block. *)
ClaimsRaise(r, b) ==
  /\ "claims" \in Faults
  /\ \E f \in Batch[r][b] : AtEntry(r, b, f)
  /\ batch' = [batch EXCEPT ![r][b] = "raised"]
  /\ UNCHANGED <<stage, outcome, workers, viaFile, dir, sink, cause, artifact>>

BatchDone(r, b) ==
  /\ Pooling(r) /\ b \in Running(r)
  /\ \A f \in Batch[r][b] : outcome[r][f] # "none"
  /\ batch' = [batch EXCEPT ![r][b] = "done"]
  /\ UNCHANGED <<stage, outcome, workers, viaFile, dir, sink, cause, artifact>>

(* A worker dies, or its initializer fails: every unfinished future gets   *)
(* BrokenProcessPool and the pool takes no more work.                      *)
WorkerDies(r) ==
  /\ "worker" \in Faults
  /\ Pooling(r) /\ ~ Quiet(r)
  /\ batch' = [batch EXCEPT ![r] = [b \in Entries |->
                 IF b \in Batches[r] /\ @[b] \in {"queued", "running"} THEN "lost" ELSE @[b]]]
  /\ workers' = [workers EXCEPT ![r] = 0]
  /\ UNCHANGED <<stage, outcome, viaFile, dir, sink, cause, artifact>>

-----------------------------------------------------------------------------
(* FileSink.finalize                                                       *)

(* has_content is false: no artifact is written.  With no record there is  *)
(* none; records of trivial config files may not count either.             *)
NoContent(r) ==
  /\ stage[r] = "finalize"
  /\ stage' = [stage EXCEPT ![r] = "empty"]
  /\ temp' = [temp EXCEPT ![TempName(r)] = FALSE]
  /\ UNCHANGED <<outcome, pool, dir, body, total, out, cause, artifact>>

(* The artifact is opened for writing, in place. *)
OpenArtifact(r) ==
  /\ stage[r] = "finalize" /\ total[r] > 0
  /\ stage' = [stage EXCEPT ![r] = "copy"]
  /\ artifact' = [by |-> {r}, whole |-> FALSE]
  /\ UNCHANGED <<outcome, pool, dir, sink, cause>>

(* The body is copied behind the summary, the file closed, the temp file   *)
(* removed.  Another run that opened the artifact since has truncated it,  *)
(* and the two outputs mix.                                                *)
CloseArtifact(r) ==
  /\ stage[r] = "copy" /\ temp[TempName(r)]
  /\ stage' = [stage EXCEPT ![r] = "done"]
  /\ out' = [out EXCEPT ![r] = body[TempName(r)]]
  /\ temp' = [temp EXCEPT ![TempName(r)] = FALSE]
  /\ artifact' = [by |-> artifact.by \cup {r}, whole |-> artifact.by = {r}]
  /\ UNCHANGED <<outcome, pool, dir, body, total, cause>>

FinalizeRaises(r) ==
  /\ "sink" \in Faults
  /\ stage[r] \in {"finalize", "copy"}
  /\ stage' = [stage EXCEPT ![r] = "raised"] /\ cause' = [cause EXCEPT ![r] = "sink"]
  /\ UNCHANGED <<outcome, pool, dir, sink, artifact>>

(* The process is killed: temp file, dir and a half-written artifact stay. *)
Kill(r) ==
  /\ stage[r] \in {"parsing", "draining", "finalize", "copy"}
  /\ stage' = [stage EXCEPT ![r] = "killed"]
  /\ UNCHANGED <<outcome, pool, dir, sink, cause, artifact>>

-----------------------------------------------------------------------------

RunStep(r) ==
  \/ AllCollected(r) \/ NoContent(r) \/ OpenArtifact(r) \/ CloseArtifact(r)
  \/ DrainDone(r) \/ WriteRaises(r) \/ FinalizeRaises(r)
  \/ SeqParsed(r) \/ SeqFailed(r) \/ SeqRaises(r)
  \/ StartWorker(r)
  \/ \E b \in Batches[r] :
       \/ Take(r, b) \/ Parse(r, b) \/ ClaimsRaise(r, b) \/ BatchDone(r, b)
       \/ Collect(r, b) \/ CollectRaises(r, b)

Next == \E r \in Runs : Begin(r) \/ RunStep(r) \/ WorkerDies(r) \/ Kill(r)

Spec == Init /\ [][Next]_vars

(* The processes are scheduled and every parse ends (parse_timeout bounds  *)
(* the grammar's part of it); workers need not die, nobody must kill.      *)
FairSpec == Spec /\ \A r \in Runs : WF_vars(RunStep(r))

-----------------------------------------------------------------------------

(* What a run that returns reports is true: each entry is either parsed    *)
(* and its record in the output once, or its own parse failed; nothing is  *)
(* lost with a batch, a worker or another run over the same repository,    *)
(* and "failed", computed as candidates - parsed, counts failures only.    *)
ReportIsTrue ==
  \A r \in Runs :
    /\ stage[r] = "done" =>
         \A f \in Entries : out[r][f] = (IF outcome[r][f] = "parsed" THEN 1 ELSE 0)
    /\ stage[r] \in {"done", "empty"} =>
         N - total[r] = Cardinality({f \in Entries : outcome[r][f] = "failed"})

(* The artifact of an earlier run is replaced only by a run that has all   *)
(* its records: parse errors, dead workers and kills before leave it be.   *)
ArtifactOutlivesFailures ==
  [][artifact' # artifact =>
       \E r \in Runs : stage[r] \in {"finalize", "copy"} /\ Exhausted(r)]_vars

(* A run finds the records it wrote when it finalizes, whatever other runs *)
(* over the same repository do ("concurrent runs get isolated temp files   *)
(* and don't collide", emit/sinks.py).                                     *)
TempIsOwn ==
  \A r \in Runs : stage[r] \in {"parsing", "finalize", "copy"} =>
    temp[TempName(r)] /\ \A f \in Entries : body[TempName(r)][f] > 0 => outcome[r][f] = "parsed"

(* The indexes' dir is there for every worker that may still start, also   *)
(* while a failed run drains its pool, and is gone once the run returns    *)
(* or raises.                                                              *)
IndexDirOutlivesPool ==
  \A r \in Runs :
    /\ viaFile[r] /\ MayStart(r) => dir[r]
    /\ stage[r] \in {"finalize", "copy", "done", "empty", "raised"} => ~ dir[r]

(* Every run returns or raises: nobody waits for a batch that has no       *)
(* worker left.                                                            *)
RunEnds ==
  \A r \in Runs : stage[r] = "parsing" ~> stage[r] \in {"done", "empty", "raised", "killed"}

(* docs/architecture.md: "one bad file must not abort a repository".       *)
BadEntryCostsItself == \A r \in Runs : cause[r] # "entry"
=============================================================================
