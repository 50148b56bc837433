--------------------------- MODULE MCStreamUpload ---------------------------
(* One stream, two calls of close().                                       *)
EXTENDS StreamUpload

CONSTANTS c1, c2
=============================================================================
