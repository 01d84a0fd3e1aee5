---------------------------- MODULE MCMainLoop ----------------------------
(***************************************************************************)
(* The threads of the bridge with a short work queue.                      *)
(***************************************************************************)
EXTENDS MainLoop
=============================================================================
