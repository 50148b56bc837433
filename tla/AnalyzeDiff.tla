---------------------------- MODULE AnalyzeDiff ----------------------------
(***************************************************************************)
(* POST /api/analyze-diff for one project: server/routes.py (the handler), *)
(* server/git.py (acquisition), services/diff.py (parse and stream),       *)
(* services/notify.py (the background notification).  Handlers of several  *)
(* requests interleave at their awaits.                                    *)
(*                                                                         *)
(* The upload is seen through the contract of infra/interface.py, which    *)
(* StreamUpload implements.  The git history, the provider's compare, the  *)
(* object store and the Breeze backend that asks for syncs and ingests     *)
(* their artifacts are external.  Commit 0 stands for "nothing analyzed    *)
(* yet"; version 0 of a file stands for its absence.                       *)
(***************************************************************************)
EXTENDS Naturals, FiniteSets

CONSTANTS
  Reqs,          \* bound: requests, numbered in the order they are made
  Files,
  Commits,       \* commits of the repository
  Tree,          \* Tree[k][f]: version of f at commit k, 0 if absent
  Base,          \* Base[j][k]: the commit the provider's compare of j and k
                 \* starts from: j itself, or the merge base of j and k
  Attempts       \* NOTIFY_ATTEMPTS

ASSUME DiffAssumption ==
  /\ Reqs \subseteq Nat
  /\ Commits \subseteq Nat /\ 0 \in Commits
  /\ Tree \in [Commits -> [Files -> Nat]]
  /\ \A f \in Files : Tree[0][f] = 0
  /\ Base \in [Commits -> [Commits -> Commits]]
  /\ Attempts \in Nat \ {0}

VARIABLES
  pc,            \* where each request is
  cur, inc,      \* currentCommitId, incomingCommitId
  filter,        \* changed files whose content was fetched
  deleted,       \* diff.deleted
  dir,           \* the temp dir: none, held by the handler, or leaked
  stream,        \* the upload: none, open, stored, failed
  written,       \* files whose record was written to it
  answer,        \* HTTP answer: none, success, error
  tries,         \* notification attempts made
  proxied,       \* of these, the 502 / 503 of a proxy that had forwarded them
  \* the object store: records by file, per key
  object,
  overwritten,   \* history: requests whose stored object another request to
                 \* the same commit has stored again
  \* the Breeze backend
  ingests,       \* ingests each request's notification has started
  pending,       \* of these, the ones whose download is still to come
  graph, commit  \* the stored graph and the stored commit

request == <<cur, inc>>
acquired == <<filter, deleted>>
notified == <<tries, proxied>>
storage == <<object, overwritten>>
backend == <<ingests, pending, graph, commit>>
vars == <<pc, request, acquired, dir, stream, written, answer, notified, storage, backend>>

NoRecords == [f \in Files |-> 0]

TypeOK ==
  /\ pc \in [Reqs -> {"new", "acquire", "open", "parse", "close", "notify", "done"}]
  /\ cur \in [Reqs -> Commits] /\ inc \in [Reqs -> Commits]
  /\ filter \in [Reqs -> SUBSET Files] /\ deleted \in [Reqs -> SUBSET Files]
  /\ written \in [Reqs -> SUBSET Files]
  /\ dir \in [Reqs -> {"none", "held", "leaked"}]
  /\ stream \in [Reqs -> {"none", "open", "stored", "failed"}]
  /\ answer \in [Reqs -> {"none", "success", "error"}]
  /\ tries \in [Reqs -> 0..Attempts] /\ proxied \in [Reqs -> Nat]
  /\ object \in [Commits -> [Files -> Nat]] /\ overwritten \subseteq Reqs
  /\ ingests \in [Reqs -> Nat] /\ pending \in [Reqs -> Nat]
  /\ graph \in [Files -> Nat] /\ commit \in Commits

(* The project has been analyzed up to some commit, or not at all. *)
Init ==
  /\ pc = [r \in Reqs |-> "new"]
  /\ cur = [r \in Reqs |-> 0] /\ inc = [r \in Reqs |-> 0]
  /\ filter = [r \in Reqs |-> {}] /\ deleted = [r \in Reqs |-> {}]
  /\ written = [r \in Reqs |-> {}]
  /\ dir = [r \in Reqs |-> "none"] /\ stream = [r \in Reqs |-> "none"]
  /\ answer = [r \in Reqs |-> "none"]
  /\ tries = [r \in Reqs |-> 0] /\ proxied = [r \in Reqs |-> 0]
  /\ object = [k \in Commits |-> NoRecords] /\ overwritten = {}
  /\ ingests = [r \in Reqs |-> 0] /\ pending = [r \in Reqs |-> 0]
  /\ commit \in Commits /\ graph = Tree[commit]

(* has_current: without it the repository is cloned, filter_set is None. *)
Full(r) == cur[r] = 0

(* The commit the request's changes are counted from: GitHub and GitLab    *)
(* are asked for a three-dot compare, which starts from the merge base.    *)
Origin(r) == IF Full(r) THEN 0 ELSE Base[cur[r]][inc[r]]

(* diff.changed and diff.deleted *)
Changed(r) == {f \in Files : Tree[inc[r]][f] \notin {0, Tree[Origin(r)][f]}}
Removed(r) == {f \in Files : Tree[inc[r]][f] = 0 /\ Tree[Origin(r)][f] # 0}

(* Mutant of StorageKey: the commit is not part of the key. *)
MutKeyPerProject(r) == 0

(* code-ontology/{project_uuid}/{incoming}.ndjson.gz *)
StorageKey(r) == inc[r]

(* The artifact: a record of each written file, parsed at the incoming commit. *)
Records(r) == [f \in Files |-> IF f \in written[r] THEN Tree[inc[r]][f] ELSE 0]

(* An ApiError leaves the handler; the finally clause removes the temp dir. *)
Fail(r) ==
  /\ pc' = [pc EXCEPT ![r] = "done"] /\ answer' = [answer EXCEPT ![r] = "error"]
  /\ dir' = [dir EXCEPT ![r] = IF @ = "held" THEN "none" ELSE @]

-----------------------------------------------------------------------------
(* The backend asks for a sync of the stored commit to some other commit.  *)
(* Syncs overlap, also two to the same commit; the commit may be behind    *)
(* the stored one or on another line of the history (a force push).        *)
Ask(r, k) ==
  /\ pc[r] = "new" /\ \A q \in Reqs : q < r => pc[q] # "new"
  /\ k \notin {0, commit}
  /\ pc' = [pc EXCEPT ![r] = "acquire"]
  /\ cur' = [cur EXCEPT ![r] = commit] /\ inc' = [inc EXCEPT ![r] = k]
  /\ UNCHANGED <<acquired, dir, stream, written, answer, notified, storage, backend>>

-----------------------------------------------------------------------------
(* acquire_diff                                                            *)

Acquired(r, got, gone) ==
  /\ filter' = [filter EXCEPT ![r] = got] /\ deleted' = [deleted EXCEPT ![r] = gone]
  /\ dir' = [dir EXCEPT ![r] = "held"]
  /\ pc' = [pc EXCEPT ![r] = "open"]
  /\ UNCHANGED <<request, stream, written, answer, notified, storage, backend>>

Clone(r) ==
  /\ pc[r] = "acquire" /\ Full(r)
  /\ Acquired(r, {f \in Files : Tree[inc[r]][f] # 0}, {})

(* compare, tree, and the content of each changed file; a file that cannot *)
(* be read is skipped.  An empty compare is an empty diff.                 *)
FetchDiff(r) ==
  /\ pc[r] = "acquire" /\ ~ Full(r)
  /\ \E got \in SUBSET Changed(r) :
       /\ Changed(r) # {} => got # {}
       /\ Acquired(r, got, Removed(r))

(* Files changed and none could be read: 502, and the dir stays behind. *)
NothingReadable(r) ==
  /\ pc[r] = "acquire" /\ ~ Full(r) /\ Changed(r) # {}
  /\ dir' = [dir EXCEPT ![r] = "leaked"]
  /\ pc' = [pc EXCEPT ![r] = "done"] /\ answer' = [answer EXCEPT ![r] = "error"]
  /\ UNCHANGED <<request, acquired, stream, written, notified, storage, backend>>

(* The credential, the compare or the clone fails before there is a dir or *)
(* with the dir removed; the tree of an incremental fetch fails with the   *)
(* dir left behind.                                                        *)
AcquireFails(r) ==
  /\ pc[r] = "acquire"
  /\ \/ UNCHANGED dir
     \/ ~ Full(r) /\ dir' = [dir EXCEPT ![r] = "leaked"]
  /\ pc' = [pc EXCEPT ![r] = "done"] /\ answer' = [answer EXCEPT ![r] = "error"]
  /\ UNCHANGED <<request, acquired, stream, written, notified, storage, backend>>

-----------------------------------------------------------------------------
(* The handler: open, parse and stream, close.                             *)

(* has_changed: an empty incremental diff closes an empty upload. *)
Open(r) ==
  /\ pc[r] = "open"
  /\ stream' = [stream EXCEPT ![r] = "open"]
  /\ pc' = [pc EXCEPT ![r] = IF Full(r) \/ filter[r] # {} THEN "parse" ELSE "close"]
  /\ UNCHANGED <<request, acquired, dir, written, answer, notified, storage, backend>>

(* The ignore file cannot be written, or the storage cannot be opened. *)
OpenFails(r) ==
  /\ pc[r] = "open" /\ Fail(r)
  /\ UNCHANGED <<request, acquired, stream, written, notified, storage, backend>>

(* run_diff_stream: a record for each file that passes the filter and      *)
(* whose parse succeeds.                                                   *)
ParseStream(r) ==
  /\ pc[r] = "parse"
  /\ \E parsed \in SUBSET filter[r] : written' = [written EXCEPT ![r] = parsed]
  /\ pc' = [pc EXCEPT ![r] = "close"]
  /\ UNCHANGED <<request, acquired, dir, stream, answer, notified, storage, backend>>

(* The scan or the pipeline raises: the upload is left as it is. *)
ParseRaises(r) ==
  /\ pc[r] = "parse" /\ Fail(r)
  /\ UNCHANGED <<request, acquired, stream, written, notified, storage, backend>>

(* write_line raises because the upload has failed (UploadError). *)
WriteRaises(r) ==
  /\ pc[r] = "parse" /\ Fail(r)
  /\ stream' = [stream EXCEPT ![r] = "failed"]
  /\ UNCHANGED <<request, acquired, written, notified, storage, backend>>

(* close() returns: the object is whole, in the place of one that was      *)
(* there, the dir is removed, the request is answered and the notification *)
(* is left to a background task.                                           *)
Close(r) ==
  /\ pc[r] = "close"
  /\ stream' = [stream EXCEPT ![r] = "stored"]
  /\ object' = [object EXCEPT ![StorageKey(r)] = Records(r)]
  /\ overwritten' = overwritten \cup {q \in Reqs : stream[q] = "stored" /\ inc[q] = inc[r]}
  /\ dir' = [dir EXCEPT ![r] = "none"]
  /\ answer' = [answer EXCEPT ![r] = "success"]
  /\ pc' = [pc EXCEPT ![r] = "notify"]
  /\ UNCHANGED <<request, acquired, written, notified, backend>>

(* Mutant of CloseRaises: the upload error is swallowed. *)
MutCloseSwallows(r) ==
  /\ pc[r] = "close"
  /\ stream' = [stream EXCEPT ![r] = "failed"]
  /\ dir' = [dir EXCEPT ![r] = "none"]
  /\ answer' = [answer EXCEPT ![r] = "success"]
  /\ pc' = [pc EXCEPT ![r] = "notify"]
  /\ UNCHANGED <<request, acquired, written, notified, storage, backend>>

CloseRaises(r) ==
  /\ pc[r] = "close" /\ Fail(r)
  /\ stream' = [stream EXCEPT ![r] = "failed"]
  /\ UNCHANGED <<request, acquired, written, notified, storage, backend>>

-----------------------------------------------------------------------------
(* post_notification, in a background task.                                *)

(* The backend starts an ingest of the artifact, to be downloaded later. *)
Starts(r) ==
  /\ ingests' = [ingests EXCEPT ![r] = @ + 1]
  /\ pending' = [pending EXCEPT ![r] = @ + 1]
  /\ UNCHANGED <<graph, commit>>

NotStarted == UNCHANGED backend

NotifyEnds(r) ==
  /\ pc[r] = "notify" /\ pc' = [pc EXCEPT ![r] = "done"]
  /\ UNCHANGED <<notified, request, acquired, dir, stream, written, answer, storage>>

(* The attempts that are left. *)
NotifyAgain(r) ==
  /\ pc[r] = "notify"
  /\ tries' = [tries EXCEPT ![r] = @ + 1]
  /\ IF tries[r] + 1 < Attempts THEN UNCHANGED pc ELSE pc' = [pc EXCEPT ![r] = "done"]
  /\ UNCHANGED <<request, acquired, dir, stream, written, answer, storage>>

(* Mutant of NotifyRefused: the count starts over instead of running out. *)
MutRetryForever(r) ==
  /\ pc[r] = "notify" /\ NotStarted
  /\ tries' = [tries EXCEPT ![r] = (@ + 1) % Attempts]
  /\ UNCHANGED <<pc, proxied, request, acquired, dir, stream, written, answer, storage>>

(* Mutant of NotifyAmbiguous: a read timeout is retried like a refusal. *)
MutRetryTimeout(r) == NotifyAgain(r) /\ UNCHANGED proxied /\ (Starts(r) \/ NotStarted)

(* Unreachable, or a 500 / 502 / 503 of the backend, or of a proxy that    *)
(* could not reach it: it has not acted; retried.                          *)
NotifyRefused(r) == NotifyAgain(r) /\ UNCHANGED proxied /\ NotStarted

(* A 502 / 503 of a proxy that had forwarded the notification: nothing     *)
(* tells it from the refusals, so it is retried, whatever the backend has  *)
(* done with the one it got.                                               *)
NotifyForwarded(r) ==
  /\ NotifyAgain(r) /\ proxied' = [proxied EXCEPT ![r] = @ + 1]
  /\ Starts(r) \/ NotStarted

(* A read timeout or 504: it may have; not retried. *)
NotifyAmbiguous(r) == NotifyEnds(r) /\ (Starts(r) \/ NotStarted)

(* 4xx, or no base URL: fatal. *)
NotifyFatal(r) == NotifyEnds(r) /\ NotStarted

NotifyAccepted(r) == NotifyEnds(r) /\ Starts(r)

-----------------------------------------------------------------------------
(* External: the backend downloads the artifact, replaces the files it has *)
(* records for, removes the deleted ones and moves the stored commit.      *)

Merged(r) ==
  [f \in Files |-> IF f \in deleted[r] THEN 0
                   ELSE IF object[StorageKey(r)][f] # 0 THEN object[StorageKey(r)][f]
                   ELSE graph[f]]

Ingest(r) ==
  /\ pending[r] > 0 /\ pending' = [pending EXCEPT ![r] = @ - 1]
  /\ graph' = Merged(r) /\ commit' = inc[r]
  /\ UNCHANGED <<ingests, pc, request, acquired, dir, stream, written, answer, notified, storage>>

(* The server is killed: handlers, uploads and notifications are gone,     *)
(* temp dirs stay.                                                         *)
Crash ==
  /\ \E r \in Reqs : pc[r] \notin {"new", "done"}
  /\ pc' = [r \in Reqs |-> IF pc[r] = "new" THEN "new" ELSE "done"]
  /\ dir' = [r \in Reqs |-> IF dir[r] = "held" THEN "leaked" ELSE dir[r]]
  /\ stream' = [r \in Reqs |-> IF stream[r] = "open" THEN "none" ELSE stream[r]]
  /\ UNCHANGED <<request, acquired, written, answer, notified, storage, backend>>

-----------------------------------------------------------------------------

Handler(r) ==
  \/ Clone(r) \/ FetchDiff(r) \/ NothingReadable(r) \/ AcquireFails(r)
  \/ Open(r) \/ OpenFails(r)
  \/ ParseStream(r) \/ ParseRaises(r) \/ WriteRaises(r)
  \/ Close(r) \/ CloseRaises(r)
  \/ NotifyRefused(r) \/ NotifyForwarded(r) \/ NotifyAmbiguous(r)
  \/ NotifyFatal(r) \/ NotifyAccepted(r)

Next ==
  \/ \E r \in Reqs : (\E k \in Commits : Ask(r, k)) \/ Handler(r) \/ Ingest(r)
  \/ Crash

Spec == Init /\ [][Next]_vars

(* The event loop and its threads are scheduled, and every call they make  *)
(* has a timeout.                                                          *)
FairSpec == Spec /\ \A r \in Reqs : WF_vars(Handler(r))

-----------------------------------------------------------------------------

(* Only a request that succeeded starts an ingest, and the object its      *)
(* notification names is then there, with its records and no others, until *)
(* a request to the same commit stores it again: a failure on the way      *)
(* (acquisition, parsing, upload, closing) never reaches the backend, and  *)
(* requests to other commits never touch the object.                       *)
NotifiedIsWhole ==
  \A r \in Reqs : pc[r] = "notify" \/ ingests[r] > 0 =>
    /\ stream[r] = "stored" /\ answer[r] = "success"
    /\ r \in overwritten \/ object[StorageKey(r)] = Records(r)

(* The files that a sync from one commit to the other has to bring. *)
Differing(r) == {f \in Files : Tree[cur[r]][f] # Tree[inc[r]][f]}

(* What an ingest that starts from the graph of the request's current      *)
(* commit leaves behind the incoming commit, also when other requests have *)
(* written, been notified or been ingested in between, is what its own     *)
(* compare did not list and what could not be read or parsed: it deletes   *)
(* and replaces everything else, and nothing it should not.                *)
SyncIsExact ==
  [][\A r \in Reqs : pending'[r] < pending[r] /\ graph = Tree[cur[r]] /\ r \notin overwritten =>
       {f \in Files : graph'[f] # Tree[inc[r]][f]} = Differing(r) \ (written[r] \cup Removed(r))]_vars

(* services/notify.py: a repeated notification starts a second ingest only *)
(* where it says so, after the 502 / 503 of a proxy that had forwarded the *)
(* first.                                                                  *)
IngestOnce == \A r \in Reqs : ingests[r] <= 1 + proxied[r]

(* server/git.py: "The tree is identical to `current`, so the stored graph *)
(* is already correct" - said of every compare that lists nothing.         *)
EmptyCompareIsNoChange ==
  \A r \in Reqs : pc[r] = "open" /\ ~ Full(r) /\ filter[r] = {} /\ deleted[r] = {} =>
    Tree[inc[r]] = Tree[cur[r]]

(* Every request is finished with, its notification included. *)
RequestsEnd == \A r \in Reqs : pc[r] # "new" ~> pc[r] = "done"

(* services/diff.py: the caller owns the upload and must close it.  An     *)
(* upload that is still open keeps its thread and its pipe for ever.       *)
UploadsClosed == \A r \in Reqs : pc[r] = "done" => stream[r] # "open"
=============================================================================
