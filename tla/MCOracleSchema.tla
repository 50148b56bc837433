--------------------------- MODULE MCOracleSchema ---------------------------
(* Model-checking instance of OracleSchema.                                *)
EXTENDS OracleSchema, TLC

CONSTANTS a, b, k

NameSymmetry == Permutations(Columns)

=============================================================================
