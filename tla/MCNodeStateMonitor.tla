-------------------------- MODULE MCNodeStateMonitor --------------------------
(* Two nodes of up to two endpoints compete for two or three dynamic         *)
(* endpoints: enough to run out of them and to reuse them.                   *)
EXTENDS NodeStateMonitor

MCUnid == {1, 2}
MCUnifyEp == {0, 1}
=============================================================================
