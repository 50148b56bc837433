----------------------------- MODULE ScmAcquire -----------------------------
(***************************************************************************)
(* One call of a git provider client: acquire_diff of server/git.py, by    *)
(* REST (compare, tree, the content of each changed file) or by git clone, *)
(* and the one write, post_pr_comment.  The clients of integrations/scm    *)
(* share http.py (get, post_json, paginate) and retry.py; they differ in   *)
(* which calls they page.                                                  *)
(*                                                                         *)
(* The provider and the git commands are external: every request may be    *)
(* answered, fail in a way that is retried (429, 502, 503, 504, transport) *)
(* or be refused.  A file is a name; contents and urls are left out.       *)
(***************************************************************************)
EXTENDS Naturals, FiniteSets

CONSTANTS
  Files,
  MaxRetries,    \* scm_max_retries
  MaxPages,      \* scm_max_pages
  Listed         \* bound: pages a provider's listing takes

ASSUME ScmAssumption ==
  /\ MaxRetries \in Nat /\ MaxPages \in Nat \ {0} /\ Listed \in Nat \ {0}
  /\ Files # {}

Providers == {"github", "bitbucket", "gitlab", "azure_devops"}
Kinds == {"same", "added", "modified", "removed", "renamed"}

VARIABLES
  provider, job,     \* which client; "diff", "clone" or "comment"
  kind, from, at,    \* the compare: each path's entry, the old path of a
                     \* rename, and the page that holds the path; every path
                     \* is "same" when the head is an ancestor of the base
  loops,             \* the cursor of the last page leads back to the first
  phase,             \* the call in progress, or how the job ended
  attempt,           \* failed attempts of the current request
  page, fetched,     \* the page being fetched, pages fetched of this list
  out,               \* ChangeSet.changed
  deleted,           \* ChangeSet.deleted
  present,           \* files of the temp dir
  todo, filter,      \* changed files to read, and read
  dir,               \* the temp dir is on disk
  head,              \* what the clone has checked out
  comments           \* comments the provider has made

provided == <<provider, job, kind, from, at, loops>>
vars == <<provided, phase, attempt, page, fetched, out, deleted, present, todo, filter,
          dir, head, comments>>

Ended == {"ok", "failed"}
Phases == {"start", "compare", "tree", "content", "clone", "checkout", "fetch",
           "recheck", "post"} \cup Ended

-----------------------------------------------------------------------------
(* The provider's two commits: the head, and the one its compare starts    *)
(* from.  That is the stored commit itself for a straight compare, and its *)
(* merge base with the head for GitHub's base...head and GitLab's compare. *)
(* AnalyzeDiff has the stored commit beside them, and what it costs when   *)
(* they are not the same.                                                  *)

Sources == {from[f] : f \in {g \in Files : kind[g] = "renamed"}}
Entries == {f \in Files : kind[f] # "same"}

\* The paths at the head commit, and those that differ from the start.
AtHead == {f \in Files : kind[f] # "removed"} \ Sources
Changed == Entries \cap AtHead
Removed == {f \in Files : kind[f] = "removed"} \cup Sources

LastPage == CHOOSE p \in 1..Listed : \E f \in Files : at[f] = p /\ \A g \in Files : at[g] <= p

\* The calls a client follows pages for: Link, next, X-Next-Page or $skip.
PagesCompare == {"github", "bitbucket", "azure_devops"}
PagesTree == {"gitlab", "bitbucket"}

Paged == provider \in IF phase = "compare" THEN PagesCompare ELSE PagesTree

\* The paths whose entries this response holds.
Response(paths) == IF Paged THEN {f \in paths : at[f] = page} ELSE paths

\* 0: no further page.
NextPage == IF ~Paged THEN 0
            ELSE IF page < LastPage THEN page + 1 ELSE IF loops THEN 1 ELSE 0

-----------------------------------------------------------------------------
Init ==
  /\ provider \in Providers /\ job \in {"diff", "clone", "comment"}
  /\ kind \in [Files -> Kinds] /\ from \in [Files -> Files] /\ at \in [Files -> 1..Listed]
  /\ loops \in BOOLEAN
  \* Git reports a rename only of a path that is gone, and one entry a path.
  /\ \A f \in Files : kind[f] # "renamed" => from[f] = f
  /\ \A f \in Files : kind[f] = "renamed" => from[f] # f /\ kind[from[f]] = "same"
  /\ \A f, g \in Files : f # g /\ kind[f] = "renamed" /\ kind[g] = "renamed" => from[f] # from[g]
  /\ phase = "start" /\ attempt = 0 /\ page = 1 /\ fetched = 0
  /\ out = {} /\ deleted = {} /\ present = {} /\ todo = {} /\ filter = {}
  /\ dir = FALSE /\ head = "none" /\ comments = 0

\* The client is built, or its credential is refused.
Start ==
  /\ phase = "start"
  /\ phase' \in {"failed", CASE job = "diff" -> "compare" [] job = "clone" -> "clone"
                             [] job = "comment" -> "post"}
  /\ dir' = (phase' = "clone")
  /\ UNCHANGED <<provided, attempt, page, fetched, out, deleted, present, todo, filter,
                 head, comments>>

-----------------------------------------------------------------------------
(* request_with_retry, for GETs                                            *)

Retry ==
  /\ phase \in {"compare", "tree", "content"}
  /\ attempt < MaxRetries /\ attempt' = attempt + 1
  /\ UNCHANGED <<provided, phase, page, fetched, out, deleted, present, todo, filter,
                 dir, head, comments>>

\* Refused at once, or the retry budget is spent: an SCMAPIError.  A list
\* that fails ends the job; the temp dir is not removed.
GetFails ==
  /\ phase \in {"compare", "tree"}
  /\ phase' = "failed" /\ attempt' = 0
  /\ UNCHANGED <<provided, page, fetched, out, deleted, present, todo, filter, dir, head,
                 comments>>

\* paginate: stops at the last page, and at the cap as if it were the last.
Stops == NextPage = 0 \/ fetched + 1 >= MaxPages

\* Mutant of Turn: the pages are not counted.
MutTurn(then) ==
  /\ attempt' = 0
  /\ IF Stops THEN page' = 1 /\ fetched' = 0 /\ phase' = then
     ELSE page' = NextPage /\ UNCHANGED <<fetched, phase>>

Turn(then) ==
  /\ attempt' = 0
  /\ IF Stops THEN page' = 1 /\ fetched' = 0 /\ phase' = then
     ELSE page' = NextPage /\ fetched' = fetched + 1 /\ UNCHANGED phase

\* Mutant of OldPaths: the old path of a rename is forgotten.
MutOldPaths(got) == {}

\* compare: a renamed path is changed under its new name and its old one is
\* deleted.
OldPaths(got) == {from[f] : f \in {g \in got : kind[g] = "renamed"}}

GetCompare ==
  LET got == Response(Entries)
      gone == {f \in got : kind[f] = "removed"}
  IN  /\ phase = "compare"
      /\ out' = out \cup (got \ gone)
      /\ deleted' = deleted \cup gone \cup OldPaths(got)
      /\ Turn(IF out' \cup deleted' = {} THEN "ok" ELSE "tree")
      /\ dir' = (phase' # "compare")
      /\ UNCHANGED <<provided, present, todo, filter, head, comments>>

\* tree: every path at the head commit becomes an empty file.
GetTree ==
  /\ phase = "tree"
  /\ present' = present \cup Response(AtHead)
  /\ Turn("content")
  /\ todo' = out
  /\ UNCHANGED <<provided, out, deleted, filter, dir, head, comments>>

\* file_content of one changed file; a failure skips the file.
GetContent(f, read) ==
  /\ phase = "content" /\ f \in todo
  /\ todo' = todo \ {f} /\ attempt' = 0
  /\ filter' = IF read THEN filter \cup {f} ELSE filter
  /\ present' = IF read THEN present \cup {f} ELSE present
  /\ UNCHANGED <<provided, phase, page, fetched, out, deleted, dir, head, comments>>

\* Mutant of Finish: whatever could be read is handed over.
MutFinish == todo = {} /\ phase' = "ok"

\* Changes that could not be read at all are an error, not an empty diff.
Finish == todo = {} /\ phase' = IF out # {} /\ filter = {} THEN "failed" ELSE "ok"

FinishDiff ==
  /\ phase = "content" /\ Finish
  /\ UNCHANGED <<provided, attempt, page, fetched, out, deleted, present, todo, filter,
                 dir, head, comments>>

-----------------------------------------------------------------------------
(* clone_repo_full: the branch tip, then the commit; a shallow clone may   *)
(* not hold it.                                                            *)

GitStep(now, then, at2) ==
  /\ phase = now /\ phase' = then /\ head' = at2
  /\ UNCHANGED <<provided, attempt, page, fetched, out, deleted, present, todo, filter,
                 dir, comments>>

Git ==
  \/ GitStep("clone", "checkout", "tip")
  \/ GitStep("checkout", "ok", "incoming")
  \/ GitStep("checkout", "fetch", head)
  \/ GitStep("fetch", "recheck", head)
  \/ GitStep("recheck", "ok", "incoming")

\* Mutant of GitCleanup: the dir of a failed clone stays.
MutGitCleanup == UNCHANGED dir

\* A command fails for good, or times out: the dir goes.
GitCleanup == dir' = FALSE

GitFails ==
  /\ phase \in {"clone", "checkout", "fetch", "recheck"}
  /\ phase' = "failed" /\ GitCleanup
  /\ UNCHANGED <<provided, attempt, page, fetched, out, deleted, present, todo, filter,
                 head, comments>>

-----------------------------------------------------------------------------
(* post_json: one attempt.  A failed one may have made the comment.        *)

\* Mutant of AfterPost: a failed write is retried like a read.
MutAfterPost == phase' = IF attempt < MaxRetries THEN "post" ELSE "failed"

AfterPost == phase' = "failed"

Post ==
  /\ phase = "post" /\ comments' = comments + 1 /\ phase' = "ok"
  /\ UNCHANGED <<provided, attempt, page, fetched, out, deleted, present, todo, filter,
                 dir, head>>

PostFails ==
  /\ phase = "post" /\ comments' \in {comments, comments + 1} /\ AfterPost
  /\ attempt' = attempt + 1
  /\ UNCHANGED <<provided, page, fetched, out, deleted, present, todo, filter, dir, head>>

-----------------------------------------------------------------------------
Next ==
  \/ Start \/ Retry \/ GetFails \/ GetCompare \/ GetTree
  \/ \E f \in Files, read \in BOOLEAN : GetContent(f, read)
  \/ FinishDiff \/ Git \/ GitFails \/ Post \/ PostFails

Spec == Init /\ [][Next]_vars

\* Every request is answered or fails: the client has timeouts, and
\* subprocess.run has one.
FairSpec == Spec /\ WF_vars(Next)

-----------------------------------------------------------------------------
(* Properties                                                              *)

\* Type invariant.
TypeOK ==
  /\ provider \in Providers /\ job \in {"diff", "clone", "comment"}
  /\ phase \in Phases /\ attempt \in 0..(MaxRetries + 1)
  /\ page \in 1..Listed /\ fetched \in 0..MaxPages
  /\ out \subseteq Files /\ deleted \subseteq Files /\ present \subseteq Files
  /\ todo \subseteq Files /\ filter \subseteq Files
  /\ dir \in BOOLEAN /\ head \in {"none", "tip", "incoming"} /\ comments \in Nat

\* A diff that is handed over comes with a dir that holds every path of the
\* head commit and no other, whatever the provider paged and whatever had to
\* be retried; a clone comes at the commit asked for, not at the branch tip,
\* and a clone that fails leaves no dir.
DirIsHead ==
  /\ job = "diff" /\ phase = "ok" => dir /\ (Changed \cup Removed = {} \/ present = AtHead)
  /\ job = "clone" /\ phase = "ok" => dir /\ head = "incoming"
  /\ job = "clone" /\ phase = "failed" => ~dir

\* The provider makes at most one comment for a call, and one for a call that
\* succeeds: the write is never repeated after an ambiguous failure.
CommentedOnce == comments <= 1 /\ (job = "comment" /\ phase = "ok" => comments = 1)

Done == phase \in Ended

Promise == INSTANCE Acquisition WITH
  changed <- Changed, removed <- Removed,
  status <- IF ~Done \/ job = "comment" THEN "working"
            ELSE IF phase = "failed" THEN "failed" ELSE job,
  filter <- IF job = "diff" /\ phase = "ok" THEN filter ELSE {},
  deleted <- IF job = "diff" /\ phase = "ok" THEN deleted ELSE {}

\* Whatever requests it takes, an acquisition is one of the outcomes the
\* analyze-diff handler is modelled with: a diff handed over is never empty
\* while the compare lists a changed file, names no file it does not list,
\* and every path it lists as deleted or renamed away.
KeepsPromise == Promise!Spec

\* Every call ends, also when each request is retried and when the cursor of
\* a list leads back to its first page.
CallEnds == <>Done

=============================================================================
