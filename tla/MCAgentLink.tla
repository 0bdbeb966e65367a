---------------------------- MODULE MCAgentLink ----------------------------
(* AgentLink with small sets of connections and proxies, for TLC. *)
EXTENDS AgentLink, TLC
=============================================================================
