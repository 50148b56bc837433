--------------------------- MODULE MCPrefixGraph ----------------------------
(* Model-checking instance of PrefixGraph.                                 *)
EXTENDS PrefixGraph

CONSTANTS a, b, c

GroupSymmetry == Permutations(Groups)

=============================================================================
