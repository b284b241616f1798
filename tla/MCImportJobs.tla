------------------------------ MODULE MCImportJobs ------------------------------
(***************************************************************************)
(* Small instances of ImportJobs.                                          *)
(***************************************************************************)
EXTENDS ImportJobs, TLC

CONSTANTS d1, j1, j2, c1, c2

JobSymmetry    == Permutations(Jobs)
ClientSymmetry == Permutations(Clients)
Symmetry       == JobSymmetry \cup ClientSymmetry
=============================================================================
