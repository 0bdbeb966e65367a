---------------------------- MODULE MCAgentCerts ----------------------------
(* AgentCerts with one init-ca, two issue-cert of one machine to one place, *)
(* and one revoke-cert of that machine, for TLC.                            *)
EXTENDS AgentCerts, TLC

CONSTANTS init, issue1, issue2, revoke, m, o

FourAdmins == {init, issue1, issue2, revoke}
OneOfEach  == [a \in FourAdmins |->
  CASE a = init               -> [op |-> "init"]
    [] a \in {issue1, issue2} -> [op |-> "issue", id |-> m, out |-> o]
    [] a = revoke             -> [op |-> "revoke", id |-> m, serial |-> None]]
=============================================================================
