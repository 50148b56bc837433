----------------------------- MODULE MCParseRun -----------------------------
(* Two runs over one repository, the first in a pool, the second in        *)
(* process.                                                                *)
EXTENDS ParseRun

PoolAndSequential == [r \in Runs |-> IF r = 1 THEN 2 ELSE 1]
=============================================================================
