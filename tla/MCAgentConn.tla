---------------------------- MODULE MCAgentConn ----------------------------
(* AgentConn with a small set of stream tasks, for TLC. *)
EXTENDS AgentConn
=============================================================================
