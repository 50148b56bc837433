---------------------------- MODULE MCScmAcquire ----------------------------
(* Model-checking instance of ScmAcquire.                                  *)
EXTENDS ScmAcquire, TLC

CONSTANTS f, g, h

=============================================================================
