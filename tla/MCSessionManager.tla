-------------------------- MODULE MCSessionManager --------------------------
(* SessionManager with small sets of ids and stream tasks, for TLC. *)
EXTENDS SessionManager, TLC
=============================================================================
