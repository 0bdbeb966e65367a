----------------------------- MODULE AgentCerts -----------------------------
(***************************************************************************)
(* How an agent proves which machine it is: the certificate authority and  *)
(* the leaf certificates of common/src/agent_pki, the hub-admin commands   *)
(* init-ca, issue-cert and revoke-cert, the allowlist issued-certs.json    *)
(* that the hub reloads every 30 seconds, and the two ways in: the TLS     *)
(* listener with AgentClientVerifier and the signed upgrade headers of     *)
(* hub/src/agent_ws.rs with their replay cache.                            *)
(*                                                                         *)
(* Every hub-admin process runs one command.  A key pair is named after    *)
(* the process that generated it, so Admins doubles as the set of key      *)
(* pairs, of leaf certificates and of fingerprints.  A certificate and its *)
(* private key are two files, written one after the other without a lock;  *)
(* the process may die between any two steps.  Validity periods (years)    *)
(* are left out: the clock runs for minutes.                               *)
(*                                                                         *)
(* The clock counts half seconds: the headers carry whole seconds of the   *)
(* wall clock, the replay cache compares monotonic instants.               *)
(***************************************************************************)
EXTENDS Integers, Sequences, FiniteSets, Functions

CONSTANTS
  Admins,      \* hub-admin processes, one command each
  CommandOf,   \* the command of each
  Machines,    \* machine ids
  Outs,        \* places issue-cert writes <id>.crt and <id>.key to
  Headers,     \* X-Agent-Auth headers agents sign, one nonce each
  Upgrades,    \* upgrade requests at the hub's /agent/connect
  Ahead,       \* how far agents' wall clocks may be ahead, in seconds
  None,
  SkewSecs,    \* WS_AUTH_SKEW_SECS
  MaxTime,     \* bound: half seconds
  MaxRestarts  \* bound: restarts of the hub

Commands ==
  [op : {"init"}]
  \cup [op : {"issue"}, id : Machines, out : Outs]
  \cup [op : {"revoke"}, id : Machines \cup {None}, serial : Admins \cup {None}]

ASSUME CertsAssumption ==
  /\ CommandOf \in [Admins -> Commands]
  /\ None \notin Admins \cup Machines
  /\ "ca" \notin Outs
  /\ SkewSecs \in Nat
  /\ Ahead \subseteq Int
  /\ MaxTime \in Nat /\ MaxRestarts \in Nat

Slots == {"ca"} \cup Outs

VARIABLES
  crt,        \* certificate file of each slot
  key,        \* private key file of each slot
  litter,     \* temporary files a killed write_atomic has left, by slot
  pc,         \* where each hub-admin process is
  signedBy,   \* CA key that signed each leaf
  allow,      \* issued-certs.json: machine_id of each fingerprint
  lock,       \* holder of the flock on issued-certs.json.lock
  copy,       \* the allowlist each writer has loaded
  hubCa,      \* AppState.agent_ca, None while the hub is down
  snapshot,   \* AppState.issued_certs
  replay,     \* AppState.ws_replay: instant each nonce was inserted
  upgrade,    \* header of each upgrade request that has passed the checks, and
              \* the second in which its timestamp was checked
  header,     \* leaf, key and unix_secs of each header signed so far
  online,     \* machines with a live link (module AgentLink)
  now,        \* the clock
  restarts,   \* restarts so far (bound)
  raced,      \* ghost: two writers of one slot overlapped
  admitted    \* history: how this hub process admitted each header

files    == <<crt, key, litter, signedBy, raced>>
store    == <<allow, lock, copy>>
hubState == <<hubCa, snapshot, replay, upgrade, admitted>>
vars     == <<files, pc, store, hubState, header, online, now, restarts>>

Empty == [x \in {} |-> x]

SlotOf(a) == IF CommandOf[a].op = "init" THEN "ca" ELSE CommandOf[a].out
IdOf(a)   == CommandOf[a].id

\* Processes that have found the slot empty and not finished writing it.
Writing(slot) == {a \in Admins : pc[a] \in {"crt", "key"} /\ SlotOf(a) = slot}

-----------------------------------------------------------------------------
Init ==
  /\ crt = [s \in Slots |-> None]
  /\ key = [s \in Slots |-> None]
  /\ litter = [s \in Slots |-> {}]
  /\ pc = [a \in Admins |-> "idle"]
  /\ signedBy = [a \in Admins |-> None]
  /\ allow = Empty
  /\ lock = None
  /\ copy = [a \in Admins |-> Empty]
  /\ hubCa = None
  /\ snapshot = Empty
  /\ replay = Empty
  /\ upgrade = [u \in Upgrades |-> None]
  /\ header = [h \in Headers |-> None]
  /\ online = {}
  /\ now = 0
  /\ restarts = 0
  /\ raced = FALSE
  /\ admitted = [h \in Headers |-> <<>>]

-----------------------------------------------------------------------------
(* hub-admin: init-ca and issue-cert write a pair of files, then issue-cert *)
(* and revoke-cert rewrite the allowlist.                                   *)

\* Neither file exists yet.
Vacant(slot) == crt[slot] = None /\ key[slot] = None

\* cmd_init_ca up to the first write: the checks, then a fresh key pair.
InitCa(a) ==
  /\ pc[a] = "idle" /\ CommandOf[a].op = "init"
  /\ Vacant("ca")
  /\ pc' = [pc EXCEPT ![a] = "crt"]
  /\ raced' = (raced \/ Writing("ca") # {})
  /\ UNCHANGED <<crt, key, litter, signedBy, store, hubState, header, online,
                 now, restarts>>

\* load_ca_signer needs both files; what it signs with is the key.
CaSignerLoads == crt["ca"] # None /\ key["ca"] # None

\* issue_machine_cert: a fresh key pair, a leaf for the id signed by the CA.
IssueMachineCert(a) == signedBy' = [signedBy EXCEPT ![a] = key["ca"]]

\* cmd_issue_cert up to the first write: the leaf is made, then the output
\* files are checked.
IssueCert(a) ==
  /\ pc[a] = "idle" /\ CommandOf[a].op = "issue"
  /\ CaSignerLoads
  /\ IssueMachineCert(a)
  /\ Vacant(SlotOf(a))
  /\ pc' = [pc EXCEPT ![a] = "crt"]
  /\ raced' = (raced \/ Writing(SlotOf(a)) # {})
  /\ UNCHANGED <<crt, key, litter, store, hubState, header, online, now,
                 restarts>>

\* Mutant of WriteCrt: the private key is written first.
WriteKeyFirst(a) ==
  /\ pc[a] = "crt" /\ "key" \notin litter[SlotOf(a)]
  /\ key' = [key EXCEPT ![SlotOf(a)] = a]
  /\ pc' = [pc EXCEPT ![a] = "key"]
  /\ UNCHANGED <<crt, litter, signedBy, raced, store, hubState, header, online,
                 now, restarts>>

\* write_atomic and write_with_mode: a temporary file that must not exist,
\* renamed over the target.
WriteCrt(a) ==
  /\ pc[a] = "crt" /\ "crt" \notin litter[SlotOf(a)]
  /\ crt' = [crt EXCEPT ![SlotOf(a)] = a]
  /\ pc' = [pc EXCEPT ![a] = "key"]
  /\ UNCHANGED <<key, litter, signedBy, raced, store, hubState, header, online,
                 now, restarts>>

WriteKey(a) ==
  /\ pc[a] = "key" /\ "key" \notin litter[SlotOf(a)]
  /\ key' = [key EXCEPT ![SlotOf(a)] = a]
  /\ pc' = [pc EXCEPT ![a] = IF CommandOf[a].op = "init" THEN "ok" ELSE "lock"]
  /\ UNCHANGED <<crt, litter, signedBy, raced, store, hubState, header, online,
                 now, restarts>>

\* The process is killed inside a write: its temporary file stays.
WriteKilled(a) ==
  /\ pc[a] \in {"crt", "key"}
  /\ litter' = [litter EXCEPT ![SlotOf(a)] = @ \cup {pc[a]}]
  /\ pc' = [pc EXCEPT ![a] = "failed"]
  /\ UNCHANGED <<crt, key, signedBy, raced, store, hubState, header, online,
                 now, restarts>>

RevokeCert(a) ==
  /\ pc[a] = "idle" /\ CommandOf[a].op = "revoke"
  /\ pc' = [pc EXCEPT ![a] = "lock"]
  /\ UNCHANGED <<files, store, hubState, header, online, now, restarts>>

\* Mutant of LockAndLoad: the allowlist is loaded before the lock is there.
LoadUnlocked(a) ==
  /\ pc[a] = "lock"
  /\ copy' = [copy EXCEPT ![a] = allow]
  /\ pc' = [pc EXCEPT ![a] = "save"]
  /\ UNCHANGED <<files, allow, lock, hubState, header, online, now, restarts>>

\* FileLock::acquire_exclusive, then IssuedCertStore::load.
LockAndLoad(a) ==
  /\ pc[a] = "lock" /\ lock = None
  /\ lock' = a
  /\ copy' = [copy EXCEPT ![a] = allow]
  /\ pc' = [pc EXCEPT ![a] = "save"]
  /\ UNCHANGED <<files, allow, hubState, header, online, now, restarts>>

\* The end of a command, by any path: FileLock is dropped, or the descriptor
\* closed with the process.
Ends(a, how) ==
  /\ pc' = [pc EXCEPT ![a] = how]
  /\ lock' = IF lock = a THEN None ELSE lock
  /\ copy' = [copy EXCEPT ![a] = Empty]
  /\ UNCHANGED <<files, hubState, header, online, now, restarts>>

\* The entries revoke-cert takes out: those of the serial or of the machine.
Names(a, c, list) == c = CommandOf[a].serial \/ list[c] = CommandOf[a].id
Revoked(a)        == {c \in DOMAIN copy[a] : Names(a, c, copy[a])}

\* save_atomic
Save(list) == allow' = list

\* issue-cert pushes its entry unless the fingerprint is there.
SaveIssued(a) ==
  /\ pc[a] = "save" /\ CommandOf[a].op = "issue"
  /\ a \notin DOMAIN copy[a]
  /\ Save([c \in DOMAIN copy[a] \cup {a} |-> IF c = a THEN IdOf(a) ELSE copy[a][c]])
  /\ Ends(a, "ok")

SaveRevoked(a) ==
  /\ pc[a] = "save" /\ CommandOf[a].op = "revoke"
  /\ Revoked(a) # {}
  /\ Save(Restrict(copy[a], DOMAIN copy[a] \ Revoked(a)))
  /\ Ends(a, "ok")

\* A refusal, an I/O error or a killed process between two steps.
Bails(a) ==
  /\ pc[a] \in {"idle", "crt", "key", "lock", "save"}
  /\ Ends(a, "failed")
  /\ UNCHANGED allow

-----------------------------------------------------------------------------
(* The hub process.                                                         *)

LoadCaCert == crt["ca"]

\* main: no start without a CA certificate; the allowlist is loaded.
HubStart ==
  /\ hubCa = None /\ LoadCaCert # None
  /\ hubCa' = LoadCaCert
  /\ snapshot' = allow
  /\ UNCHANGED <<files, pc, store, replay, upgrade, header, online, now,
                 restarts, admitted>>

HubStop ==
  /\ hubCa # None
  /\ restarts < MaxRestarts
  /\ restarts' = restarts + 1
  /\ hubCa' = None
  /\ snapshot' = Empty
  /\ replay' = Empty
  /\ upgrade' = [u \in Upgrades |-> None]
  /\ online' = {}
  /\ admitted' = [h \in Headers |-> <<>>]
  /\ UNCHANGED <<files, pc, store, header, now>>

\* Mutant of Reload: a reload only ever adds entries.
ReloadMerges ==
  /\ hubCa # None
  /\ snapshot' = [c \in DOMAIN snapshot \cup DOMAIN allow |->
                   IF c \in DOMAIN allow THEN allow[c] ELSE snapshot[c]]
  /\ UNCHANGED <<files, pc, store, hubCa, replay, upgrade, admitted, header,
                 online, now, restarts>>

\* Mutant of Reload: the swap is skipped when the lengths are equal.
ReloadOnLength ==
  /\ hubCa # None
  /\ Cardinality(DOMAIN snapshot) # Cardinality(DOMAIN allow)
  /\ snapshot' = allow
  /\ UNCHANGED <<files, pc, store, hubCa, replay, upgrade, admitted, header,
                 online, now, restarts>>

\* spawn_issued_certs_reloader: the file replaces the snapshot.  A load that
\* fails keeps the snapshot, which changes nothing.
Reload ==
  /\ hubCa # None
  /\ snapshot' = allow
  /\ UNCHANGED <<files, pc, store, hubCa, replay, upgrade, admitted, header,
                 online, now, restarts>>

\* Mutant of Retained: entries are kept for one skew window only.
RetainedBriefly(t) == t >= now - 2 * SkewSecs

\* gc_ws_replay keeps an entry for WS_REPLAY_TTL_SECS, twice the skew.
Retained(t) == t >= now - 2 * (2 * SkewSecs)

ReplayGc ==
  /\ hubCa # None
  /\ replay' = Restrict(replay, {h \in DOMAIN replay : Retained(replay[h])})
  /\ UNCHANGED <<files, pc, store, hubCa, snapshot, upgrade, admitted, header,
                 online, now, restarts>>

-----------------------------------------------------------------------------
(* Handshakes.                                                              *)

\* The wall clock in whole seconds.
Secs == now \div 2

\* A leaf verifies against the CA certificate the hub has loaded.
ChainsToAgentCa(leaf) == hubCa # None /\ signedBy[leaf] = hubCa

\* Chain to the agent CA, fingerprint in the snapshot, machine id of the SAN
\* equal to the entry's: what both ways in check of a leaf certificate.
Accepted(leaf) ==
  /\ ChainsToAgentCa(leaf)
  /\ leaf \in DOMAIN snapshot
  /\ IdOf(leaf) = snapshot[leaf]

\* The pair of files an agent was given.
Deployed(o) == crt[o] # None /\ key[o] # None

\* run_acceptor: the TLS handshake runs AgentClientVerifier and has the peer
\* sign with its key, peer_machine_id reads the SAN again.
TlsHandshake(o) ==
  /\ Deployed(o) /\ crt[o] = key[o]
  /\ Accepted(crt[o])
  /\ IdOf(crt[o]) \notin online
  /\ online' = online \cup {IdOf(crt[o])}
  /\ UNCHANGED <<files, pc, store, hubState, header, now, restarts>>

\* agent_auth_headers: a fresh nonce, the agent's wall clock, its key.  The
\* host of the URL is signed too and compared with the Host header, which is
\* the same as long as the URL names no port; it is left out.
SignHeader(h, o, ahead) ==
  /\ header[h] = None
  /\ Deployed(o)
  /\ header' = [header EXCEPT ![h] = [leaf |-> crt[o], by |-> key[o], ts |-> Secs + ahead]]
  /\ UNCHANGED <<files, pc, store, hubState, online, now, restarts>>

\* check_ws_auth_timestamp
Timely(ts) == ts - Secs <= SkewSecs /\ Secs - ts <= SkewSecs

\* verify_p256_signature with the public key of the leaf.
ValidSignature(hd) == hd.by = hd.leaf

\* A request with header h whose timestamp was checked in second t.
Passed(h, t) == [header |-> h, checked |-> t]

\* authenticate_ws_upgrade up to the replay cache, which it then waits for.
CheckUpgrade(u, h) ==
  /\ upgrade[u] = None /\ header[h] # None
  /\ Accepted(header[h].leaf)
  /\ Timely(header[h].ts)
  /\ ValidSignature(header[h])
  /\ upgrade' = [upgrade EXCEPT ![u] = Passed(h, Secs)]
  /\ UNCHANGED <<files, pc, store, hubCa, snapshot, replay, admitted, header,
                 online, now, restarts>>

\* What is remembered of an admission: whether the header was ahead by the whole
\* skew, and whether the upgrade was held up on its way to the cache, so that
\* another second had begun since its timestamp was checked.
Admission(u) ==
  [ahead |-> header[upgrade[u].header].ts = Secs + SkewSecs,
   held  |-> Secs > upgrade[u].checked]

\* The replay cache under its lock, and handle_connection after it.
FinishUpgrade(u) ==
  LET h == upgrade[u].header IN
  /\ upgrade[u] # None
  /\ upgrade' = [upgrade EXCEPT ![u] = None]
  /\ IF h \in DOMAIN replay
       THEN UNCHANGED <<replay, online, admitted>>
       ELSE /\ replay' = [g \in DOMAIN replay \cup {h} |->
                           IF g = h THEN now ELSE replay[g]]
            /\ online' = online \cup {IdOf(header[h].leaf)}
            /\ admitted' = [admitted EXCEPT ![h] = Append(@, Admission(u))]
  /\ UNCHANGED <<files, pc, store, hubCa, snapshot, header, now, restarts>>

\* A link ends (module AgentLink); the agent dials again.
LinkDown(m) ==
  /\ m \in online
  /\ online' = online \ {m}
  /\ UNCHANGED <<files, pc, store, hubState, header, now, restarts>>

\* Time matters once a header is signed.
Tick ==
  /\ now < MaxTime
  /\ \E h \in Headers : header[h] # None
  /\ now' = now + 1
  /\ UNCHANGED <<files, pc, store, hubState, header, online, restarts>>

-----------------------------------------------------------------------------
Command(a) ==
  \/ InitCa(a) \/ IssueCert(a) \/ RevokeCert(a)
  \/ WriteCrt(a) \/ WriteKey(a) \/ WriteKilled(a)
  \/ LockAndLoad(a) \/ SaveIssued(a) \/ SaveRevoked(a) \/ Bails(a)

Next ==
  \/ \E a \in Admins : Command(a)
  \/ HubStart \/ HubStop \/ Reload \/ ReplayGc
  \/ \E o \in Outs : TlsHandshake(o) \/ \E h \in Headers, d \in Ahead : SignHeader(h, o, d)
  \/ \E u \in Upgrades : FinishUpgrade(u) \/ \E h \in Headers : CheckUpgrade(u, h)
  \/ \E m \in Machines : LinkDown(m)
  \/ Tick

\* The reloader ticks for ever, the service manager restarts the hub, and an
\* agent that is not connected keeps dialling.
Fairness ==
  /\ WF_vars(HubStart) /\ WF_vars(Reload)
  /\ \A u \in Upgrades : WF_vars(FinishUpgrade(u))
  /\ \A o \in Outs : WF_vars(TlsHandshake(o))

Spec     == Init /\ [][Next]_vars
FairSpec == Spec /\ Fairness

-----------------------------------------------------------------------------
(* Properties.                                                             *)

\* What a command does to an allowlist.
Effect(a, list) ==
  IF CommandOf[a].op = "issue"
    THEN [c \in DOMAIN list \cup {a} |-> IF c = a THEN IdOf(a) ELSE list[c]]
    ELSE Restrict(list, {c \in DOMAIN list : ~Names(a, c, list)})

\* Concurrent issue-cert and revoke-cert commands act on issued-certs.json as
\* if each were one step: the file changes only when a command succeeds, and
\* then by the effect of that command on the file as it is, not on the copy
\* it loaded.  No entry is lost to another command or comes back after one.
ChangesAreAtomic ==
  [][allow' # allow =>
       \E a \in Admins : /\ pc[a] # "ok" /\ pc'[a] = "ok"
                         /\ allow' = Effect(a, allow)]_vars

\* Wherever init-ca and issue-cert are killed, no slot ever holds a private
\* key without its certificate, and issued-certs.json names only certificates
\* whose two files were written.  This is so unless two commands found the
\* slot vacant at the same time: neither init_ca nor cmd_issue_cert locks it.
PairsMatch ==
  ~raced =>
    /\ \A s \in Slots : key[s] # None => key[s] = crt[s]
    /\ \A c \in DOMAIN allow : key[SlotOf(c)] = c

\* A signed header gets its agent in at most once in the life of a hub process,
\* however often the perimeter delivers it and whenever gc_ws_replay runs, but
\* for two cases.  A header ahead of the hub's clock by the whole skew, which
\* check_ws_auth_timestamp accepts, is timely for the rest of the second in
\* which its entry is collected.  And an upgrade held up between that check
\* and the cache may find the entry collected meanwhile.
HeaderOnce ==
  \A h \in Headers : \A i, j \in DOMAIN admitted[h] :
    i < j => admitted[h][i].ahead \/ admitted[h][j].held

NoEntry(m) == \A c \in DOMAIN allow : allow[c] # m

\* Once the last entry of a machine is revoked for good, a time comes after
\* which the machine never gets in again, by either way.
RevocationHolds ==
  \A m \in Machines :
    <>[]NoEntry(m) => <>[][(m \in online') => m \in online]_vars

Usable(o) ==
  /\ Deployed(o) /\ crt[o] = key[o] /\ crt[o] \in DOMAIN allow
  /\ signedBy[crt[o]] = crt["ca"] /\ hubCa \in {None, crt["ca"]}

\* An agent whose certificate stays allowed, and whose CA the hub trusts, is
\* connected again and again, across restarts of the hub and lost links.
AllowedGetsIn ==
  \A o \in Outs : <>[]Usable(o) => []<>(crt[o] # None /\ IdOf(crt[o]) \in online)
=============================================================================
