---------------------------- MODULE Acquisition ----------------------------
(***************************************************************************)
(* What POST /api/analyze-diff relies on when it acquires a repository     *)
(* (AnalyzeDiff's FetchDiff, Clone and AcquireFails): one step that either *)
(* fails, or clones everything, or hands over some of the changed files,   *)
(* at least one if there is any, and exactly the deleted ones.  Changed    *)
(* and deleted are counted from the commit the provider's compare starts   *)
(* from, not always from the stored one (AnalyzeDiff's Origin).            *)
(***************************************************************************)
VARIABLES
  changed, removed,   \* the paths that differ between the commit the
                      \* compare starts from and the incoming one
  status,             \* working, diff, clone, failed
  filter, deleted     \* what is handed over

vars == <<changed, removed, status, filter, deleted>>

Init == status = "working" /\ filter = {} /\ deleted = {}

FetchDiff ==
  /\ status = "working" /\ status' = "diff"
  /\ filter' \in SUBSET changed /\ (changed # {} => filter' # {})
  /\ deleted' = removed
  /\ UNCHANGED <<changed, removed>>

Clone ==
  /\ status = "working" /\ status' = "clone"
  /\ UNCHANGED <<changed, removed, filter, deleted>>

Fail ==
  /\ status = "working" /\ status' = "failed"
  /\ UNCHANGED <<changed, removed, filter, deleted>>

Next == FetchDiff \/ Clone \/ Fail

Spec == Init /\ [][Next]_vars

=============================================================================
