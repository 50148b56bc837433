---------------------------- MODULE MCOwnership ----------------------------
(* Three headers, one C and one C++ file, with the hooks of parsers/c and  *)
(* parsers/cpp.  Two headers are next to the C file.                       *)
EXTENDS Ownership

CONSTANTS h1, h2, h3, c, cpp

Speaks == [q \in Known |-> IF q = c THEN "c" ELSE "cpp"]
Place == [q \in Files |-> IF q \in {h1, h2, c} THEN "lib" ELSE "app"]
CanInclude == [l \in Langs |-> IF l = "cpp" THEN {"c"} ELSE {}]
=============================================================================
