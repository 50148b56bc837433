# Verification of breezeai-cog

breezeai-cog scans a repository, parses its files in worker processes, writes
one NDJSON artifact per repository and hands it to the Breeze backend.  This
directory holds TLA+ models of the parts of it where several actors meet, the
TLC configurations that check them on small instances, and proofs that TLAPS
checks for every value of the constants.  Paths below are relative to
`src/src/breezeai_cog/` unless they start with `docs/` or `tests/`.

`PROJECT.json` maps every definition to the lines it models, lists the runs,
the mutants that show each property can fail, the hazards and the findings.

## 1. Inventory

| component | state it keeps | operations | what makes it hard | what makes it correct |
|---|---|---|---|---|
| batch upload command (`cli.py` `_run_batch`, `services/batch_upload.py`) | the resume file `batch-upload-state.json`, `UploadState.completed`, `UploadTracker`, the pool | load / skip / force, analyze, submit, mark done, finish, clear | pool threads write one file; Ctrl-C, kills and restarts between any two steps; filesystem errors that are swallowed; subset runs | the file names only what the backend confirmed, nothing confirmed is lost, success means everything is active |
| ontology upload client (`services/upload.py`) | attempt count, poll deadline | POST with retries, poll of the status | ambiguous failures, a backend that never settles | retries and polls end; only `active` counts |
| streaming upload (`infra/interface.py`, `infra/aws/s3.py`) | pipe, gzip buffers, background thread, `_error`, `_closed` | `write_line`, `close`, `_run_upload` | backpressure, upload dying under a blocked writer, EOF before join, concurrent `close` | a returned key proves the object complete; the upload's own error surfaces; nobody blocks for ever |
| analyze-diff endpoint (`server/routes.py`, `services/diff.py`, `services/notify.py`) | temp dir, open upload, background task | acquire, open, parse and stream, close, notify | any stage can fail; overlapping requests; ambiguous notification; server crash | only stored artifacts are notified, no ingest is started twice but where `notify.py` accepts it, an ingest leaves stale only what its compare or its artifact lacks, dirs and uploads are released |
| git acquisition (`server/git.py`) | temp dir | clone, compare + fetch of changed files | partial reads, a shallow clone without the commit | the dir is the head commit; what is skipped must not make the graph stale |
| provider clients (`integrations/scm/*`) | retry budget, page cursor | compare, tree, file, branches, pull requests, comments | retries, cyclic cursors, pagination ceilings, renames, lost answers of a write | every call ends, a list is whole, a comment is made once |
| parse pool and pipeline (`core/executor.py`, `core/pipeline.py`, `services/analysis.py`, `services/inprocess.py`) | futures, totals, skip report, sink | batch, submit, collect, abort | worker death, one file failing among many, records in completion order | scanned = parsed + failed + skipped; a file's failure costs that file only |
| scanner and ignore rules (`core/scanner.py`, `core/ignore.py`, `core/skips.py`, `_scan_entries`) | scopes of the walk, skip report | walk, filter, classify, decide shared files | layers of rules, filters before and after a file's language is known, runs on some languages | what is parsed follows from the rules alone; each file is parsed or reported once |
| file ownership (`core/ownership.py`) | Tarjan state, decisions | evidence, referrer closure, rules 1-4 | include cycles | the decision does not depend on the order of files |
| parser registry (`core/registry.py`) | parsers by priority | select, candidates | none beyond precedence | one parser per file |
| Nx projects (`core/nx.py`) | project roots | nearest enclosing project | nesting | the longest root wins |
| artifact emission (`emit/*`) | open gzip file | write, patch the summary, split statements | written in place; splitting at limits | no text lost, parts in order |
| shared parser algorithms (`parsers/index_common.py`, `parsers/statements_common.py`, `parsers/constfold.py`) | indexes | merge facts, fold constants | partial declarations, recursion limits | the merge does not depend on the order |
| git API routes, server wiring, configuration, logging, storage selection | none | request translation | none | - |
| schema analyzers (`analyzers/*`) | tables declared so far, comments, indexes | one statement of a script at a time | ALTERs act at once, comments and indexes at the end; equal names in two schemas | the tables reported are those the script leaves in the database |
| framework route prefixes (`parsers/*/routing.py`, `plugins.py`, `mounts.py`, `prefixes.py`, `wiring.py`) | registrations of all files, memo | collect, resolve recursively | cycles, several registrations, a memo filled in the middle of a recursion | an address is where the group is served and the only one; null only for doubt |
| language parsers | none | syntax to records | volume | data extraction, not control |

How they interact.  The CLI runs the pipeline and, in batch mode, passes its
artifacts to a thread pool of upload clients that share one resume state and
one tracker.  The server's analyze-diff handler acquires a working tree,
runs the same pipeline with a sink that writes each record into a streaming
upload, closes the upload, answers, and leaves the notification to a
background task.  The backend (external) downloads the artifact the
notification names and later asks for the next sync from the commit it stored.  Every
acquisition goes through one provider client or one `git clone`.  Inside the
pipeline the scanner decides what is parsed and as what, asking the ownership
step about shared files, and the parsers read indexes in which the facts of all
files (route prefixes among them) were folded before.

## 2. Modules

| module | models | composed of |
|---|---|---|
| `ResumableUpload` | abstract: what a resumable batch promises | - |
| `BatchUpload` | `cli._run_batch`, `services/batch_upload.py`, `services/upload.py` | instantiates `ResumableUpload` (`Promise`) |
| `InfraStream` | abstract: the contract of `infra/interface.py` | - |
| `StreamUpload` | `infra/aws/s3.py` | instantiates `InfraStream` (`Contract`) |
| `AnalyzeDiff` | `server/routes.py`, `server/git.py`, `services/diff.py`, `services/notify.py` | sees the upload as `InfraStream` promises it |
| `ParseRun` | `core/executor.py` `parse_entries`, `core/pipeline.py` `_assemble`, `emit/sinks.py` `FileSink` | - |
| `Ownership` | `core/ownership.py` `resolve_owners`, `_all_referrer_languages` | - |
| `Acquisition` | abstract: what `AnalyzeDiff` assumes of `acquire_diff` | - |
| `ScmAcquire` | `server/git.py`, `integrations/scm/*` | instantiates `Acquisition` (`Promise`) |
| `FileSelection` | `core/scanner.py`, `core/ignore.py`, `core/pipeline.py` `_scan_entries` | sees ownership's rules 3 and 4 |
| `PrefixGraph` | the prefix resolvers of Go, Fastify, Angular, NestJS, FastAPI | - |
| `OracleSchema` | `analyzers/sql.py` `_parse_oracle_ddl`, beside the database | - |
| `BatchUploadProofs`, `StreamUploadProofs`, `ParseRunProofs`, `AnalyzeDiffProofs`, `ScmAcquireProofs`, `OwnershipProofs`, `OracleSchemaProofs`, `FileSelectionProofs` | theorems and proofs | extend their component and TLAPS |
| `MCBatchUpload`, `MCStreamUpload`, `MCAnalyzeDiff`, `MCParseRun`, `MCOwnership`, `MCScmAcquire`, `MCFileSelection`, `MCPrefixGraph`, `MCOracleSchema` | instances for TLC | extend their component |

In every module a definition whose name starts with `Mut` is a plausible bug: a
changed form of the definition that follows it, used to show that a property
can fail.  It is not part of the specification.

## 3. How the models correspond to the code

**`BatchUpload`.**  `saved` is the content of `batch-upload-state.json`,
`completed` the set in `UploadState`, `phase` where `_run_batch` is, `pc[d]`
where the worker of project `d` is in `run_batch_uploads._worker`.
`StartBatch` is the selection and the resume filter (with `--force`),
`Analyze` one project of the analysis loop, `BeginUpload` the pool's creation.
`PostAccepted`, `PostUnconfirmed`, `PostRejected`, `PostTransient` are the
outcomes of one POST attempt, `Poll*` of one status request; `MarkDone` and
`FinishOk` are two actions because a thread can be stopped between the save and
the tracker.  `Interrupt` is Ctrl-C (the executor drains), `Kill` the end of
the process at any point.  `uploaded` is history: what the backend has made
active since the state file was last discarded.

**`StreamUpload`.**  Data is counted in units of a pipe write: `held` in the
gzip and writer buffers, `pipe` in the OS pipe, `sent` read by the thread.  A
line is one unit, the gzip trailer another.  `wpc` is the thread in
`write_line`, `cpc[c]` call `c` of `close`, `thread` the background upload.
The upload may raise at any moment.  `HeldMax` is how much the buffers hold
before a write reaches the pipe.

**`AnalyzeDiff`.**  `pc[r]` is where request `r` is between the handler's
awaits; `object[k]` is what the store holds under the key of commit `k`;
`graph` and `commit` belong to the backend, which ingests a notified artifact
when it likes.  `Files` are files the analysis keeps (the scanner's filters
come before).  A request goes from the stored commit to any other, also to one
behind it or on another line of the history (a force push), and requests to one
commit may overlap though they share a storage key.  `Origin(r)` is the commit
the request's changes are counted from: GitHub (`github.py:129-134`, a three-dot
compare) and GitLab (`gitlab.py:145-148`) start from the merge base of the two
commits, Bitbucket and Azure DevOps from the stored one; `Base` says which.  Of
the changed files any may be unreadable, of the files read any may fail to
parse.  `ingests[r]` counts the ingests a notification has started, `pending[r]`
those whose download is still to come, `proxied[r]` the attempts a proxy forwarded
before it answered 502 or 503: those are retried like a refusal
(`notify.py:28-31`), whatever the backend did with the first.  `overwritten` is
history: the requests whose stored object a request to the same commit has
stored again.  `Crash` ends every live handler.

**`ParseRun`.**  `stage[r]` is where invocation `r` is, `batch[r][b]` the
future of a batch, `outcome[r][f]` what `_parse_entry` did with entry `f`,
`body` the records in FileSink's temp file, `out` what `finalize` copied,
`artifact` who has written to the shared path and whether it is a whole file.
When the run raises, the pool's `__exit__` waits for submitted batches
(`draining`) before the indexes' dir goes and the exception leaves.

**`Ownership`.**  The inputs (what each header's content proves, who references
whom) are chosen in `Init` and never change.  `index`, `low`, `stack`, `work`
are the variables of `_all_referrer_languages`; `pending[p]` is what is left in
the iterator of `p`.  The code visits files in sorted order, which for given
names can be any order, so the choice is open.  Only one extension is shared in
the registry (`.h`), so one group of candidates is modelled.

**`ScmAcquire`.**  One call of one client: `job` says whether `acquire_diff`
compares, clones, or a comment is posted.  The provider's two commits (`kind`,
`from`, and the page `at` that lists a path) are chosen in `Init`; the first is
the one the provider's compare starts from, `AnalyzeDiff`'s `Origin`, so what is
promised is the head and the changes from there, not from the stored commit.  `phase` is
the request or git command in progress, `attempt` the failures of the current
request, `page` and `fetched` the state of `paginate`.  A request that is retried
is `Retry`, one that fails for good `GetFails`, in `file_content` a skipped file
(`GetContent(f, FALSE)`).  The clients differ in what they page (`PagesCompare`,
`PagesTree`).  A temp dir of a diff whose tree cannot be listed stays on disk, as
in the code.

**`FileSelection`.**  The tree is fixed, the kind of each file and up to two
ignore or include lines vary.  `walk` is the stack of the generator's frames,
each with the lines in scope; `Dropped` is the order of the filters in `scan` and
in the first loop of `_scan_entries`, `Late` the second loop.  A file of kind
`gone` has no readable size, one of kind `big` is oversized.

**`PrefixGraph`.**  `edges` are the registrations of all files, `memo` what the
resolver has found; `Resolve(n)` is one turn of its loop.  `Visit` dispatches to
the five recursions.  Angular registrations are lazy routes or imports of one
NgModule by another (`Import`); a FastAPI router may be made in a function
(`local`) and be included by a name its own file does not make (`Foreign`).
`Served` is the definition they are compared with: the
addresses over all chains of registrations from a root.  `Shapes` names what a
program does that a resolver is known to misread (section 5).

**`OracleSchema`.**  `tables`, `comments`, `indexes` are the variables of
`_parse_oracle_ddl`; `db` is the database the script was written for, so a
statement is one it accepts at that point.  Each action takes one statement on
both sides.  The properties compare them after every statement, that is for
every script and each of its prefixes.  A constraint carries the columns it refers
to as they are written (none: the primary key).  `StructureIsRead` speaks of the
tables the database has: DROP TABLE is not recognized, so the reader goes on
reporting a dropped table, and nothing is promised of that.  `Forms` names what a script does that the
reader is known to misread (section 5).

## 4. What the runs check

| run | properties | question |
|---|---|---|
| `batch_resume` | `TypeOK` `CheckpointSound` `ProgressIsDurable` `ProgressIsKept` `SkippedWereUploaded` `CompleteMeansUploaded` `KeepsPromise` | Is the resume file sound and durable over interrupted sessions, is "complete" true, does the command implement `ResumableUpload`? |
| `batch_faults` | `EveryTaskReported` `SessionEnds` | With every fault of the environment, is each task reported once and does the session end? |
| `stream_contract` | `TypeOK` `KeyMeansComplete` `UploadErrorSurfaces` `WriteEnds` `CloseAnswers` `KeepsContract` | Does the upload keep the contract of `infra/interface.py`, with no deadlock on pipe, lock or join? |
| `diff_sync` | `NotifiedIsWhole` `IngestOnce` `SyncIsExact` `RequestsEnd` | Do overlapping, failing, crashing syncs leave stale exactly what their compare did not list or their artifact does not hold, and start no ingest but their own? |
| `acquire` | `DirIsHead` `CommentedOnce` `KeepsPromise` `CallEnds` | Do retries, pages, renames and failing git commands leave the head and the changes from where the compare starts, as the handler assumes (`Acquisition`), and does every call end? |
| `parse_run` | `TypeOK` `ReportIsTrue` `TempIsOwn` `IndexDirOutlivesPool` `ArtifactOutlivesFailures` `RunEnds` | Is what a returning run reports true under failing entries, dying workers, full disks, kills and a second run over the same path? |
| `parse_claims` | `BadEntryCostsItself`, violated | finding 1 |
| `select` | `SelectionIsDeclared` `AccountedOnce` | Does the walk parse what the rules declare, also when limited to some languages, and report every other file once? |
| `select_included` | `IncludedIsKept`, violated | finding 2 |
| `ownership` | `AnswersAreReach` `DecisionsIgnoreOrder` `OwnersAreDecided` | Does the component search compute reachability on every graph in every order, and are the decisions those of the order-free rules? |
| `prefixes` | `ResolvedIsServed` `OnlyDoubtIsNull` `OrderFree` | Is every resolved prefix the only address of its group, is null kept for doubt, and does the shared memo decide nothing? |
| `schema` | `StructureIsRead` `FlagsFollowConstraints` `AnnotationsAreRead` | Does the reader of a migration script report the tables the script leaves in the database? |

Runs whose system may stop (all sessions used, all requests done, a script read)
say `CHECK_DEADLOCK FALSE`; that nobody waits for ever is what the liveness
properties say.  `AnalyzeDiff`, `Ownership`, `ScmAcquire` and `OracleSchema` state
a `TypeOK` that their configurations leave out; adding it to a cfg checks it.

### Bounds, and why they are enough

- *Batch*: three projects in `batch_resume`, so that a session can leave one
  behind, skip one and upload one; two pool threads, so that saves race; three
  sessions, so that progress passes through a session that did not select it;
  two POST attempts, so that a retry after an ambiguous failure exists.
  `batch_faults` has a pool of one thread for two tasks: a task waits behind a
  failing one.  The projects are symmetric.
- *Stream*: four lines through buffers of one unit and a pipe of two fill both
  and block the writer; two `close()` calls are what the lock is about.
- *Diff*: two requests, so that one is overtaken by the other at any step, or
  shares its key; a history of three commits that forks, changing, removing and
  keeping a file, so that there are steps forward, back and across; any of them
  may be the stored one at the start.  The compare starts from the merge base,
  the weaker of the two kinds.  Two attempts: one retry.
- *Acquire*: three paths hold a rename and a path that is neither of its two;
  two pages put the two on different ones; one retry per request.
  `MaxPages` is the length of the listing, so the cap only ends cyclic cursors.
- *Parse*: three entries in batches of two and one, so that a batch is
  unfinished while another is collected, and the last is short; one run in a
  pool, one sequential, both over one artifact.  `PerWorker` is 4 in the code
  and 1 here, which gives batches longer than one entry with few entries.
- *Select*: two directories and a file at the root, a file in each directory, so
  a rule can be above, beside and below; two lines, so that any two layers meet;
  three files, so that a shared one can have evidence in its folder and outside.
  The runs select nothing, C, or C++.
- *Ownership*: three headers are the least with a cycle inside a cycle, a cycle
  entered from outside and crossing edges; one C and one C++ file reach each
  rule.  All graphs, all proofs and all orders are enumerated.
- *Prefixes*: three groups give a cycle above a group, a group with two parents
  and a chain of two; five registrations are enough for all of them at once.
  One segment: equality of prefixes is what matters, and a longer address
  differs from a shorter one.  Any subset of the FastAPI routers is made in
  functions.
- *Schema*: two schemas with a table of one name, two columns, one constraint
  name; five statements create both tables, declare a key, refer to it and
  change it; two comments or indexes.  Columns are symmetric.

### Fairness, and why the code justifies it

`FairSpec` gives weak fairness to the steps of the program's own threads,
processes and handlers: the operating system schedules them, the locks are held
for finite sections, every HTTP call has a timeout (`services/upload.py`,
`services/notify.py`, `integrations/scm/http.py`, boto3's defaults), every git
command has one (`git_clone_timeout`), retries, polls and pages are counted, and
a parse is bounded by `parse_timeout` (its grammar part) and the length of the
file.  Nothing is assumed of the backend, the user, kills, crashes or worker
deaths: `SessionEnds` holds even if the backend never settles a document, and
`WriteEnds` if nobody ever calls `close`.  The upload thread of `StreamUpload` is
only assumed to do what it can (`ThreadRuns`: read what is in the pipe, finish
after EOF, close the reader); that it fails is possible at any time and never
forced, so a thread that waits on an empty pipe without EOF waits for ever, and
`CloseAnswers` shows that no `close()` joins it there.  In `ScmAcquire` weak fairness of the
whole next-state relation says only that the call goes on; which answer a request
gets stays open, so `CallEnds` holds for a provider that never answers well.

## 5. Findings

1. `parse_claims` - a parse that times out inside a parser's `claims()` is
   outside the isolation of `_parse_entry` and aborts the whole run.
2. `select_included` - `.repoinclude` overrides the ignore rules of the walk but
   not a language's own, against the guide, the architecture document and the
   text of the skip report.

`PROJECT.json` quotes the documents they contradict.

### Known divergences without a run

Each is the counterexample of a property above in a configuration the passing
run excludes; the change of the configuration that shows it is in brackets.

- *Batch, linked names* [`RepoName <- LinkedNames`, two projects `a`, `b`, two
  sessions: `SkippedWereUploaded`].  The resume filter asks for the subdirectory
  name (`cli.py:312`), the worker records the resolved repository name
  (`core/pipeline.py:346`).  With a symbolic link they differ and a project is
  skipped that was never uploaded; `cli.py:303` says the two are one.
- *Batch, lost exception* [`Faults = {"thread"}`: `CompleteMeansUploaded`].  An
  exception of `run_batch_uploads` itself ends its thread; `holder.get("failed",
  [])` (`cli.py:524`) reads as success and the command reports completion, against
  `docs/USER_GUIDE.md:329-331`.
- *Stream, overlapping close* [`Overlap = TRUE`: `KeyMeansComplete`].  `close()`
  sets `_closed` (`s3.py:162`) before the upload is joined (`s3.py:178`); another
  call in between returns the key, against `infra/interface.py:14-16`.  No caller
  in the repository overlaps them.
- *Diff, history that is not straight* [check `EmptyCompareIsNoChange` as an
  invariant of `diff_sync.cfg`].  `server/git.py:111-114` says that where the
  compare lists nothing "the tree is identical to `current`, so the stored graph
  is already correct".  GitHub's and GitLab's compare starts from the merge base:
  for a step back to an ancestor it lists nothing though the trees differ, and
  across a fork it lists only what the new line changed.  The artifact is
  notified all the same and the backend moves the commit over a graph that keeps
  the rest of the old line.
- *Diff, partial read* [replace `written[r]` by `Changed(r)` in `SyncIsExact`].
  A transient failure on one of several changed files is taken for a file to
  skip (`server/git.py:129`); the commit advances over a stale graph.  A file
  whose parse fails by itself does the same.
- *Diff, one key* [drop `r \notin overwritten` in `SyncIsExact`].  Two overlapping
  syncs to one commit from different ones store under one key
  (`server/routes.py:141`): each ingest takes the artifact stored last, which may
  hold fewer files than its own.
- *Diff, repeated notification* [drop `proxied` in `IngestOnce`].  A 502 or 503 of
  a proxy that had forwarded the notification is repeated, which
  `services/notify.py:28-31` accepts because the ingest is idempotent enough.  It
  is not when another sync is ingested in between: the repeat takes graph and
  commit back.
- *Diff, left open* [add `UploadsClosed`].  A failed parse leaves the upload open
  for ever (`server/routes.py:157-172`), against `services/diff.py:64-65`.
- *Acquire, page cap* [`MaxPages = 1`: `KeepsPromise`].  A listing longer than
  `scm_max_pages` comes back truncated with a warning only (`http.py:272-279`), and
  no caller looks at it: files that changed are missing from the diff.
- *Schema, eleven forms* [add one of `Forms`].  `cascade`: the foreign keys that
  CASCADE CONSTRAINTS drops stay.  `recolumn`: a column declared again keeps its
  definition and takes the new constraints.  `rename indexed`, `drop indexed`:
  indexes do not follow their columns.  `readd`: a comment made on a dropped
  column lands on the one added later under its name.  `bare modify`: MODIFY
  without a NULL clause makes the column nullable.  `twin foreign`: two foreign
  keys of a column to equal names in two schemas are one.  `bare reference`: a
  foreign key declared again with the referenced columns written where they were
  left out, or the other way, is counted twice (`sql.py:2622`), against the
  docstring of `_constraints_equivalent`.  `rename referenced`: the rename of a
  column leaves its old name in the foreign keys that refer to it
  (`sql.py:2680-2682`).  `uncomment`: COMMENT
  IS '' does not remove.  `ambiguous`: an unqualified name with only qualified
  tables is not resolved to the current schema, which the reader does not know.
- *Prefixes, five shapes* [add one of `Shapes`: `ResolvedIsServed`].  `reparent`: a NestJS module
  registered under two parents counts as top-level and gets a wrong address;
  `grouping`: children of an entry without `module` lose its path - both against
  `prefixes.py:16-17`.  `loop`: FastAPI routers that include each other get the
  address of one turn.  `receiver`: a FastAPI router included by a parameter or
  an imported name is taken to be below a root without a prefix
  (`wiring.py:118`), and gets a concrete address that lacks what the receiver is
  mounted at.  `shared`: an Angular module that two modules import, or that one
  imports and a route mounts, gets the address of one of them
  (`mounts.py:298-303`: the first import counts, and none where there is a lazy
  route), against "never a wrong one" of `mounts.py:275`.

Seen while reading, and not modelled: `walk_heritage` takes a base with the
class's own simple name for a cycle (`parsers/index_common.py:195-216`);
`constfold.resolve_all` can fold with stale base values; the truncation marker of
`_cap_parts` (`emit/split.py:73-88`) can exceed the limit and does not count the text it displaces;
`_split_statements` cuts PL/SQL units at CASE ... END; GitHub's `truncated` flag of
a tree is ignored; `resolve_git_diff` leaves its temp dir when the tree or every
file cannot be read; a language's `include.txt` cannot lift the built-in ignores of
the walk though `core/default_ignores.txt:2` says so; a subset run that succeeds
deletes the whole resume file; FileSink's temp file stays after a run that raises.

## 6. What is proved

TLAPS checks the theorems for every value of the constants, under the named
assumption of each module, which TLC evaluates on every run of that module:
`BatchAssumption`, `StreamAssumption`, `ParseAssumption`, `DiffAssumption`,
`ScmAssumption`, `OwnershipAssumption`, `SchemaAssumption`, `TreeAssumption`.
They say what the code gives: finitely many subdirectories and languages, a
positive retry budget, a tree whose nodes are numbered with parents first, a
table name that is not a column's, "no schema" that is not a schema's name. A
hypothesis beyond them is part of the theorem's statement and is given here with
the reason. The longest inductive invariants, those of `OracleSchemaProofs` and
`SelectInv`, were checked by TLC on the instances of section 4 before they were
proved.

*Why the systems come to rest.* Liveness itself needs fairness and `ENABLED`,
which the prover does not reason about, but the part of it that can be wrong in
the code is safety: that somebody can always move, and that only so many moves
are left. Both are proved. `NoSessionHangs`, `NobodyHangs` and `NoRunHangs` list
the guards of the steps (those of injected faults left out) and say that one
holds until the end is reached: there is no deadlock. The theorems named
`...End` give a measure in natural numbers, lexicographic where a retry or a
cycle may lead back, that every step makes smaller (in `AnalyzeDiffProofs` every
step of the handler itself; in `StreamUploadProofs` every step between two calls
of the user), and so bound the retries, polls, page loops and searches. What is
left to TLC's temporal properties is the fairness: that a step that stays
possible is taken.

**`BatchUploadProofs`.** `TypeCorrect` needs nothing else. `CheckpointSound` is
not inductive: `SoundInv` adds that what a worker has seen active is in
`uploaded`, and that an idle command has no memory of a worker. `ReportInv` says
that nothing has escaped the pool, that `skipped` is uploaded while a session
runs, that every submitted task has a worker record and that a finished worker
has reported, from which success means that all are active; `DurableInv` says
that what is counted as uploaded is in the file and in the set the next save
writes. Hence `CheckpointsAreSound` (unless unlinking can fail),
`CompletionIsTrue` and `SkippingIsSafe` (names agree, unlinking works; the first
also: threads can be started), `ProgressSurvives` (saving works), and
`BatchKeepsPromise`, the refinement of `ResumableUpload`. `SeenInv`, the part of
`SoundInv` about this session, needs no hypothesis; two weaker promises hold
where the stronger ones are known to fail: `SkippingByName` (for any links, if
unlinking works, what is skipped bears the name of something uploaded) and
`TasksCompleteIsTrue` (for any names and any fault of the resume file, success
is true of what the session attempted, unless the upload thread itself died).
`TallyInv` counts the tasks: a worker that has ended is in one of the tracker's
lists, from which `TasksAreReported` under every fault, and with `ServedInv`
(what is queued has a thread) `SessionsNeverHang`; `SessionsEnd` counts phases,
projects to analyze and, per worker, stages, attempts and polls. `KeptInv` says
that the set in memory holds what is in the file, which gives
`RecordedProgressIsKept`; it needs a file that can be deleted (or `--force`
leaves names the session does not know) and read (or a session starts from
nothing and its first save drops the rest), but not one that can be written. The
assumptions are the ones the known divergences and the swallowed `OSError`s show
to be needed.

**`StreamUploadProofs`.** `IInv` is typing, the accounting of units (nothing is
invented, nothing is lost while the thread reads), EOF comes last, and what the
thread leaves behind. It gives `StreamTypeCorrect` and `ErrorsSurface` for any
number of overlapping `close()` calls. With `~ Overlap`, `KeyInv` (one call at a
time is in `close`; a closed stream is being finished by that call or its thread
has ended; a key is returned after the thread ended without error) gives
`KeyIsProof` and the refinement `StreamKeepsContract`. `NobodyWaitsForEver`
rests on `JoinersSentEof`: a `close()` that joins the thread has sent it EOF,
and a full pipe has a reader or is broken; it and `CallsEnd` hold for
overlapping calls too.

**`ParseRunProofs`.** Three arithmetic lemmas say that `_chunk` puts every entry
in exactly one batch. The invariant `IInv` is stated run by run, so a step of
one run leaves it alone for the others (`FrameRun`): the sink holds exactly the
records of collected batches and has counted them (`Sunk`), a batch with a
result has all its outcomes and the sequential loop is a prefix (`Settled`), a
run past parsing is exhausted (`Finished`), and the dir lives with the pool
(`DirKept`). From it follow `ReportsAreTrue`, `TempsAreOwn`,
`IndexDirsOutlivePools`, `ArtifactsOutliveFailures`. `BadEntriesCostThemselves`
shows that an exception of `claims()` is the only way an entry aborts a run.
`RunsNeverHang` and `RunsEnd` hold for workers that fail to start, die or are
killed at any step, and for any number of overlapping runs.

**`AnalyzeDiffProofs`.** The invariant ties what a request holds (its dir, its
stream, its answer, the ingests it has started) to the stage it is in
(`StageInv`): hence `NoSecondIngest`, with one ingest more at most for each time
a proxy had forwarded the notification. `SyncInv` adds that a request has
written only files its own compare listed and that its object holds their
records at its own commit until a request to the same commit stores it again;
with it `OnlyWholeObjects`, `SyncsAreExact` and `NothingIsMixed` hold under
every fault, kill and overlap, for any history and whatever commit the compare
starts from. They say what is left behind, not that nothing is: the promise a
user has in mind, that the graph is then the incoming commit's, is
`StraightSyncsAreWhole`, and its hypotheses are the divergences of section 5 (the
compare starts from the tree of the stored commit, every changed file is read
and parsed, no other request stores the same key).
`HandlerKeepsContract` and `ContractIsHandled` compose the endpoint with
`ScmAcquire`: what the handler takes an acquisition to do is a step of
`Acquisition`, the contract the provider clients refine (`ClientKeepsPromise`),
and every result that contract allows is one the handler has a step for.
`HandlersEnd` bounds a handler to six stages and the attempts of one
notification.

**`ScmAcquireProofs`.** `JobInv` relates attempts, the comment and the answer to
the step a call is in and gives `CommentsAreOnce` for every retry budget.
`ListInv` says that what has been collected of a listing is the entries of the
pages below the current one, for pages cut anywhere and a cursor that leads back
to a page already read; it gives `HandedOverIsHead` and `ClientKeepsPromise`,
the refinement of `Acquisition`: the changes are those from the commit the
compare starts from, which is where `AnalyzeDiff` counts them from too. Both need `MaxPages >= Listed`: a listing
longer than the cap is truncated with a warning and the diff is then not whole.
`CappedIsSound` says for every cap that it is then incomplete and never wrong:
no path of the head is reported deleted, none that did not change is read.
`CallsEnd` orders phases, pages, files and attempts lexicographically; `Files`
is assumed finite.

**`OwnershipProofs`.** The invariant of the component search is the one of
Tarjan's algorithm. Stack and call chain are in the order of the visits
(`OrderInv`); an open file reaches those opened after it, the file its low
number belongs to, and, once left, a file of the chain below it (`ReachInv`);
the referrers already looked at have been visited, and the low number of the
visit they were looked at in knows of those still open (`LookedInv`). The files
popped at a root are then one component and all that is referred to from it has
been answered, which gives `ReachIsAnswered` for every graph of references.
`OrderDoesNotMatter` follows with `RuleInv`: what is decided so far is what the
rules say of the evidence alone. `SearchEnds` is the termination of the search
in any graph.

**`OracleSchemaProofs`.** `Kept` keeps the records well formed under any script
(`TypeCorrect`). `BaseInv` holds of every script as well: a live table has
records, all written with one schema, and the database's constraints are on its
columns. On it rest three invariants that do not need each other. `StructInv`:
the last record of a live table mirrors it. `FlagInv`: flags are those the
constraints imply, and the record has the names of the table's columns, in
whatever state they are. `NoteInv`: every comment and index not yet attached
will reach the table and column it was made for, renames included. Each theorem
therefore excludes only the forms of statement that break it (section 5 lists
them all): `StructureIsFaithful` those in `StructForms` (`cascade`, `recolumn`,
`bare modify`, `twin foreign`, `bare reference`, `rename referenced`,
`ambiguous`), `AnnotationsAreFaithful` those in
`NoteForms` (`rename indexed`, `drop indexed`, `readd`, `uncomment`,
`ambiguous`), `FlagsAreFaithful` only `ambiguous`. So a misread constraint never
moves a comment, a lost index never changes a table, and the flags agree with
the constraint list even where that list is wrong. The hypotheses are the
weakest of their kind: on the instance of `schema`, TLC finds the property
violated for each excluded form alone, and the invariants intact with all the
others at once (up to four statements).

**`FileSelectionProofs`.** The recursion of `Up` is shown to have a solution
(`UpIs`) and facts about it are proved by an induction over the tree that is
stated with sets (`TreeInduction`, from the least element of a set of numbers).
The invariant has three parts: the frames of the walk are over disjoint parts of
the tree and every entry left has the lines of the directories above it in scope
(`WalkInv`); an entry with nothing left at it or above it has the outcome the
layers give it, the others have none (`VisitInv`); the last phase adds what the
decided language drops (`DoneInv`). `FilesAreAccounted` follows because the
highest directory not kept is the only one reported above a file (`OneAbove`);
`SelectionIsFaithful` because a run on some languages reads the same C and C++
evidence as the full run (`SameEvidence`) or none that matters. Trees, runs and
the number of lines (`MaxLines`) are arbitrary; TLC's instance has two.
`LanguagesAloneOverride` settles the finding `select_included`: a file that a
`.repoinclude` names is reported ignored only where a language's own rules cover
it, and no other line is to blame. `WalkEnds` is for finite trees.

**Only model-checked.** The fairness half of liveness (`SessionEnds`,
`WriteEnds`, `CloseAnswers`, `RequestsEnd`, `RunEnds`, `OwnersAreDecided`,
`CallEnds`), which is beyond the prover; and `PrefixGraph` (`ResolvedIsServed`,
`OnlyDoubtIsNull`, `OrderFree`), whose resolvers are mutually recursive
operators that thread a memo through an arbitrary graph and are compared with
another recursion: an induction over data, on RECURSIVE operators, neither of
which the prover supports. Every other property of a passing run is stated by a
theorem.

## 7. What is not modelled, and why

- Language parsers (some 480 files): data extraction from syntax trees, with no
  state beyond one file, apart from what their indexes fold (`PrefixGraph`).
- The other analyzers: SQL dialects other than Oracle are read from a library's
  syntax tree and mapped to records; NoSQL and ES mappings are translated one to
  one.  In the Oracle reader: statement splitting, types, defaults, programs, views
  and sequences.
- `/api/analyze` and the SQL, NoSQL and ES routes: the steps of analyze-diff in a
  fixed order, without a stored commit to get wrong.
- Nx projects, storage selection, the registry's `select()`: one loop over sorted
  lists; what `select()` can do to a run is an outcome in `ParseRun`.
- The statement splitter, heritage merge, constant folding: pure functions on text
  and records that unit tests reach.
- Rendering, logging, configuration, ids, NDJSON, HTTP envelopes: no protocol.
- Two batch invocations over one workspace: nothing supports them; the resume
  file and its `.json.tmp` would be overwritten by each.
- In `ParseRun`, a kill during `finalize`, or two runs finalizing at once, leave
  a truncated or mixed artifact (`artifact.whole` is FALSE); no document
  promises otherwise, and `ArtifactOutlivesFailures` says what does hold.
- In `Ownership`, reading the evidence and resolving a reference as written.
  With a single group of candidates rules 3 and 4 would give the same answers
  even if they read each other's; the care the code takes there matters only
  once a second shared extension is registered.
- In `FileSelection`, gitignore pattern syntax (a line names a node) and linked
  directories; in `ScmAcquire`, retry delays, and pages whose body is not what the
  client expects; in `PrefixGraph`, guards, global prefixes, autoload folders.

## 8. Plan

Modelled so far, the most concurrent and failure-prone first: the batch command,
the streaming upload, the diff endpoint, the parse run, file ownership; then the
provider clients, the choice of files, route prefixes and the schema reader.

To prove next: what of the recorded progress survives one failing load or unlink in
`BatchUpload` (the faults `unreadable` and `unlink`), and what a script with the
form `ambiguous` leaves intact in `OracleSchema`.

To model next: `/api/analyze` beside analyze-diff, the resolution of references in
front of `Ownership`, `select()` with its claims.  A new question gets a run of its
own; the violated run of a component can give way when the finding is settled in
the code.
