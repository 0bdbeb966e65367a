----------------------------- MODULE CredStore -----------------------------
(***************************************************************************)
(* What credentials.json promises its readers, as if every change were one *)
(* atomic step on the file: a credential is added once, credentials are    *)
(* removed, and the sign counter of one that is there moves up.  Nothing   *)
(* else ever happens to an entry.  Module Passkeys implements this with a  *)
(* lock file, a load and a save by several processes.                      *)
(***************************************************************************)
EXTENDS Integers

CONSTANT Creds

VARIABLE creds    \* sign_count of each stored credential

Stored == DOMAIN creds

Init ==
  /\ Stored \subseteq Creds
  /\ creds = [c \in Stored |-> creds[c]]

\* A new entry; every other one keeps its counter.
Add(c) ==
  /\ c \notin Stored /\ c \in DOMAIN creds'
  /\ creds' = [d \in Stored \cup {c} |-> IF d = c THEN creds'[c] ELSE creds[d]]

Remove(gone) ==
  /\ gone # {}
  /\ creds' = [c \in Stored \ gone |-> creds[c]]

\* The counter of one entry grows.
Bump(c) ==
  /\ c \in DOMAIN creds'
  /\ creds' = [creds EXCEPT ![c] = creds'[c]]
  /\ creds'[c] > creds[c]

Next ==
  \/ \E c \in Creds : Add(c)
  \/ \E gone \in SUBSET Stored : Remove(gone)
  \/ \E c \in Stored : Bump(c)

Spec == Init /\ [][Next]_creds
=============================================================================
