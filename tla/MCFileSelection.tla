-------------------------- MODULE MCFileSelection --------------------------
(* Model-checking instance of FileSelection: two directories and a file at *)
(* the root, a file in each directory.                                     *)
EXTENDS FileSelection

TreeFiles == {2, 4, 5}
TreeParent == <<0, 1, 0, 3, 0>>
RunModes == {[languages |-> {}, templates |-> TRUE], [languages |-> {"c"}, templates |-> FALSE],
             [languages |-> {"cpp"}, templates |-> TRUE]}

=============================================================================
