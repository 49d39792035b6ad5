---------------------------- MODULE MCDaemonLoop ----------------------------
(***************************************************************************)
(* Values of DaemonLoop's constants for TLC.                               *)
(***************************************************************************)
EXTENDS DaemonLoop

CONSTANTS d1, d2, d3

\* One process starts every daemon.
OneLauncher == [d \in Daemons |-> 2]
=============================================================================
