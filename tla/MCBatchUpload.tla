--------------------------- MODULE MCBatchUpload ---------------------------
(* Small workspaces for BatchUpload.                                       *)
EXTENDS BatchUpload, TLC

CONSTANTS a, b, c

(* The safety properties do not tell the subdirectories apart. *)
DirSymmetry == Permutations(Dirs)

SameNames == [d \in Dirs |-> d]

(* "b" is a symbolic link to a directory elsewhere that is called "a", the *)
(* name of another subdirectory.                                           *)
LinkedNames == [d \in Dirs |-> a]
=============================================================================
