-------------------------- MODULE MCCommandResponse --------------------------
(***************************************************************************)
(* Small instances of CommandResponse for TLC.                             *)
(***************************************************************************)
EXTENDS CommandResponse
=============================================================================
