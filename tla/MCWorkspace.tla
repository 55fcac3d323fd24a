---------------------------- MODULE MCWorkspace ----------------------------
(* A matrix for the runs of Workspace.  One rule reads the first file, or  *)
(* the files an inspector selected; with nothing to read it finds no       *)
(* difference.  So a second file may or may not change a finding.          *)
EXTENDS Workspace, TLC

CONSTANTS f1, f2, f3

Values == SUBSET File

Reading(F, A) == IF A = {} THEN F \cap {f1} ELSE A

Matrix(k, F, A) ==
  [status |-> IF Reading(F, A) = {} THEN "AUTO_NO_DIFFERENCE" ELSE "CANDIDATE",
   value |-> Reading(F, A), signed |-> Unsigned]


Symmetric == Permutations(Client)
=============================================================================
