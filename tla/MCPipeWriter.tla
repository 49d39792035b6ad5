---------------------------- MODULE MCPipeWriter ----------------------------
(***************************************************************************)
(* Values of PipeWriter's constants for TLC.                               *)
(***************************************************************************)
EXTENDS PipeWriter

MCCallers == Senders \union Waiters
=============================================================================
