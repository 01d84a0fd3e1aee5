-------------------------- MODULE MCGroupTranslator --------------------------
(***************************************************************************)
(* Small instances of GroupTranslator for TLC.                             *)
(***************************************************************************)
EXTENDS GroupTranslator, TLC

\* Endpoints and group numbers are compared for equality only.
Symmetry == Permutations(Endpoint) \cup Permutations(Group)
=============================================================================
