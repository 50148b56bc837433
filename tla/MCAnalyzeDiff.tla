--------------------------- MODULE MCAnalyzeDiff ---------------------------
(* A history that forks: commit 1 has the files f and g; commit 2 changes  *)
(* f; commit 3, another child of commit 1, removes f and changes g.  The   *)
(* provider compares from the merge base, which is the stored commit only  *)
(* for a step from commit 1 to one of its children.                        *)
EXTENDS AnalyzeDiff

CONSTANTS f, g

Fork ==
  <<[x \in Files |-> 1],
    [x \in Files |-> IF x = f THEN 2 ELSE 1],
    [x \in Files |-> IF x = f THEN 0 ELSE 3]>>

History == [k \in Commits |-> IF k = 0 THEN [x \in Files |-> 0] ELSE Fork[k]]

MergeBase ==
  [j \in Commits |-> [k \in Commits |-> IF j = k THEN j ELSE IF 0 \in {j, k} THEN 0 ELSE 1]]
=============================================================================
