------------------------------ MODULE Passkeys ------------------------------
(***************************************************************************)
(* Passkeys: the credential store credentials.json (common/src/creds.rs),  *)
(* the hub's login routes that read it and bump its sign counters          *)
(* (hub/src/webauthn_routes.rs), the bearer tokens they mint               *)
(* (hub/src/auth.rs), and the hub-admin commands add-passkey and remove,   *)
(* which run as processes of their own beside the hub.                     *)
(*                                                                         *)
(* A writer of the store takes the file lock and loads the file in one     *)
(* step and replaces the file and drops the lock in a later one: nothing   *)
(* but the lock keeps two writers apart.  Readers take no lock.  Every     *)
(* await of a route ends a step.  Cryptography is abstracted: an assertion *)
(* belongs to the ceremony whose challenge it signs and names a credential *)
(* and the counter of its authenticator.                                   *)
(***************************************************************************)
EXTENDS Integers, FiniteSets, Functions

CONSTANTS
  Creds,        \* credential ids
  Registered,   \* those already stored when the hub starts
  Counting,     \* those whose authenticator keeps a counter; others send 0
  LabelOf,      \* label under which each credential is added
  PrefixesOf,   \* proper prefixes of each credential id
  Nonces,       \* login ceremonies, by the nonce of login_start
  Posts,        \* login_finish requests
  Admins,       \* hub-admin processes
  None,
  MaxPending,   \* MAX_PENDING_LOGINS
  LoginTtl,     \* PENDING_LOGIN_TTL
  TokenTtl,     \* SESSION_TTL
  EnvelopeTtl,  \* ENVELOPE_TTL_SECS
  MaxTime,      \* bound: ticks of the clock
  MaxRestarts   \* bound: restarts of the hub

ASSUME PasskeyAssumption ==
  /\ Counting \subseteq Creds /\ Registered \subseteq Creds
  /\ DOMAIN LabelOf = Creds /\ DOMAIN PrefixesOf = Creds
  /\ IsFiniteSet(Nonces)
  /\ Posts \cap Admins = {} /\ None \notin Posts \cup Admins \cup Creds \cup Nonces
  /\ None \notin [nonce : Nonces, signed : Nonces] \cup [cred : Creds, count : Nat]
  /\ MaxPending \in Nat /\ LoginTtl \in Nat /\ TokenTtl \in Nat
  /\ EnvelopeTtl \in Nat /\ MaxTime \in Nat /\ MaxRestarts \in Nat

VARIABLES
  file,       \* credentials.json: sign_count of each stored credential
  lock,       \* holder of the flock on credentials.json.lock
  copy,       \* the store each writer has loaded
  pc,         \* where each login_finish request and hub-admin process is
  command,    \* what each hub-admin process was asked to do
  device,     \* counter of each credential's authenticator
  blob,       \* paste blob of each credential: issued_at and sign_count
  ceremony,   \* progress of each ceremony in the browser and in login_start
  offered,    \* credential ids login_start loaded for the ceremony
  assertion,  \* what the authenticator signed for the ceremony
  pending,    \* state.pending_logins: nonce -> allowed_ids and expires_at
  request,    \* nonce and assertion each login_finish request carries
  allowed,    \* allowed_ids of the entry each request took out of pending
  tokens,     \* state.sessions: the request that minted it -> expires_at
  now,        \* the clock
  restarts,   \* restarts so far (bound)
  admitted,   \* ghost: what the hub-admin commands that reported ok left
  minted      \* ghost: the nonces of the tokens minted so far, by request

store   == <<file, lock, copy, admitted>>
browser == <<ceremony, offered, assertion, device, blob>>
finish  == <<request, allowed>>
vars    == <<store, pc, command, browser, pending, finish, tokens, now,
             restarts, minted>>

Writers == Posts \cup Admins
Empty   == [x \in {} |-> x]

\* The entries of a map that have not expired (state.rs, gc).
Live(map) == Restrict(map, {k \in DOMAIN map : map[k].expires > now})

\* find_by_id and the exact and prefix matches of hub-admin remove.
Exact(st, t)    == {c \in DOMAIN st : t = c \/ t = LabelOf[c]}
Prefixed(st, t) == {c \in DOMAIN st : t \in PrefixesOf[c]}
Targets         == Creds \cup Range(LabelOf) \cup UNION Range(PrefixesOf)

Commands == [op : {"add"}, arg : Creds] \cup [op : {"remove"}, arg : Targets]

-----------------------------------------------------------------------------
\* The counter an authenticator sends with its first answer.
FirstCount(c) == IF c \in Counting THEN 1 ELSE 0

Init ==
  /\ file = [c \in Registered |-> FirstCount(c)]
  /\ lock = None
  /\ copy = [w \in Writers |-> Empty]
  /\ pc = [w \in Writers |-> "idle"]
  /\ command = [a \in Admins |-> None]
  /\ device = [c \in Creds |-> IF c \in Registered THEN FirstCount(c) ELSE 0]
  /\ blob = [c \in Creds |-> IF c \in Registered
                               THEN [issued |-> 0, count |-> FirstCount(c)]
                               ELSE None]
  /\ ceremony = [n \in Nonces |-> "new"]
  /\ offered = [n \in Nonces |-> {}]
  /\ assertion = [n \in Nonces |-> None]
  /\ pending = Empty
  /\ request = [r \in Posts |-> None]
  /\ allowed = [r \in Posts |-> {}]
  /\ tokens = Empty
  /\ now = 0
  /\ restarts = 0
  /\ admitted = Registered
  /\ minted = Empty

\* An authenticator that keeps a counter moves it with every use.
Used(c) == IF c \in Counting THEN device[c] + 1 ELSE 0

(***************************************************************************)
(* The browser: registration makes a paste blob, login signs a challenge.  *)
(***************************************************************************)

\* register_start signs an envelope with the time; the browser creates the
\* credential and shows the blob.  The hub keeps nothing.
Register(c) ==
  /\ blob[c] = None
  /\ device' = [device EXCEPT ![c] = Used(c)]
  /\ blob' = [blob EXCEPT ![c] = [issued |-> now, count |-> Used(c)]]
  /\ UNCHANGED <<store, pc, command, ceremony, offered, assertion, pending,
                 finish, tokens, now, restarts, minted>>

\* login_start: the store is read, without the lock; an empty one is refused.
StartLoad(n) ==
  /\ ceremony[n] = "new"
  /\ file # Empty
  /\ ceremony' = [ceremony EXCEPT ![n] = "starting"]
  /\ offered' = [offered EXCEPT ![n] = DOMAIN file]
  /\ UNCHANGED <<store, pc, command, assertion, device, blob, pending, finish,
                 tokens, now, restarts, minted>>

\* Mutant of HasRoom: one entry too many.
HasRoomOffByOne(map) == Cardinality(DOMAIN map) <= MaxPending

HasRoom(map) == Cardinality(DOMAIN map) < MaxPending

\* login_start once it has the mutex of pending_logins.
StartInsert(n) ==
  LET live == Live(pending) IN
  /\ ceremony[n] = "starting"
  /\ IF HasRoom(live)
       THEN /\ pending' = [m \in DOMAIN live \cup {n} |->
                 IF m = n THEN [ids |-> offered[n], expires |-> now + LoginTtl]
                          ELSE live[m]]
            /\ ceremony' = [ceremony EXCEPT ![n] = "started"]
       ELSE /\ pending' = live
            /\ ceremony' = [ceremony EXCEPT ![n] = "over"]
  /\ offered' = [offered EXCEPT ![n] = {}]
  /\ UNCHANGED <<store, pc, command, assertion, device, blob, finish,
                 tokens, now, restarts, minted>>

\* navigator.credentials.get: any authenticator may answer.
Sign(n, c) ==
  /\ ceremony[n] = "started"
  /\ blob[c] # None
  /\ device' = [device EXCEPT ![c] = Used(c)]
  /\ assertion' = [assertion EXCEPT ![n] = [cred |-> c, count |-> Used(c)]]
  /\ ceremony' = [ceremony EXCEPT ![n] = "over"]
  /\ UNCHANGED <<store, pc, command, offered, blob, pending, finish, tokens,
                 now, restarts, minted>>

\* A login_finish request; it may repeat a nonce or carry the assertion of
\* another ceremony.
Post(r, n, m) ==
  /\ pc[r] = "idle"
  /\ assertion[m] # None
  /\ pc' = [pc EXCEPT ![r] = "take"]
  /\ request' = [request EXCEPT ![r] = [nonce |-> n, signed |-> m]]
  /\ UNCHANGED <<store, command, browser, pending, allowed, tokens, now,
                 restarts, minted>>

(***************************************************************************)
(* login_finish                                                            *)
(***************************************************************************)

\* Mutant of TakePending: the entry stays in the map until it expires.
TakePendingKeeps(r) ==
  LET live == Live(pending)
      n    == request[r].nonce IN
  /\ pc[r] = "take"
  /\ pending' = live
  /\ allowed' = [allowed EXCEPT ![r] = IF n \in DOMAIN live
                                         THEN live[n].ids ELSE {}]
  /\ pc' = [pc EXCEPT ![r] = IF n \in DOMAIN live THEN "verify" ELSE "refused"]
  /\ UNCHANGED <<store, command, browser, request, tokens, now, restarts,
                 minted>>

\* The nonce is single-use: the entry is taken out of the map.
TakePending(r) ==
  LET live == Live(pending)
      n    == request[r].nonce IN
  /\ pc[r] = "take"
  /\ pending' = Restrict(live, DOMAIN live \ {n})
  /\ IF n \in DOMAIN live
       THEN /\ allowed' = [allowed EXCEPT ![r] = live[n].ids]
            /\ pc' = [pc EXCEPT ![r] = "verify"]
       ELSE /\ pc' = [pc EXCEPT ![r] = "refused"]
            /\ UNCHANGED allowed
  /\ UNCHANGED <<store, command, browser, request, tokens, now, restarts,
                 minted>>

Assertion(r) == assertion[request[r].signed]

\* finish_authenticate: challenge, known credential, counter.
Advanced(r)  == Assertion(r).count > file[Assertion(r).cred]
Authentic(r) ==
  /\ request[r].signed = request[r].nonce
  /\ Assertion(r).cred \in allowed[r] \cap DOMAIN file
  /\ Advanced(r) \/ Assertion(r).count = 0

\* The current store is loaded, without the lock, and the assertion checked.
Verify(r) ==
  /\ pc[r] = "verify"
  /\ pc' = [pc EXCEPT ![r] = IF ~Authentic(r) THEN "refused"
                             ELSE IF Advanced(r) THEN "lock" ELSE "mint"]
  /\ allowed' = [allowed EXCEPT ![r] = {}]
  /\ UNCHANGED <<store, command, browser, pending, request, tokens, now,
                 restarts, minted>>

\* FileLock::acquire_exclusive, then CredentialStore::load.
LockAndLoad(w) ==
  /\ pc[w] = "lock"
  /\ lock = None
  /\ lock' = w
  /\ copy' = [copy EXCEPT ![w] = file]
  /\ pc' = [pc EXCEPT ![w] = "save"]
  /\ UNCHANGED <<file, admitted, command, browser, pending, finish, tokens,
                 now, restarts, minted>>

\* FileLock's drop, at the end of the scope that also holds the loaded store.
Release(w) ==
  /\ lock' = IF lock = w THEN None ELSE lock
  /\ copy' = [copy EXCEPT ![w] = Empty]

\* Mutant of Bumps: what Verify found is not looked at again.
BumpsAnyway(r) == Assertion(r).cred \in DOMAIN copy[r]

\* The counter a request has seen is still news to the store it loaded.
Bumps(r) ==
  /\ Assertion(r).cred \in DOMAIN copy[r]
  /\ Assertion(r).count > copy[r][Assertion(r).cred]

\* Mutant of SaveCounter: the store keeps the counter it expects next.
SaveCounterNext(r) ==
  /\ pc[r] = "save"
  /\ file' = IF Bumps(r)
               THEN [copy[r] EXCEPT ![Assertion(r).cred] = Assertion(r).count + 1]
               ELSE file
  /\ Release(r)
  /\ pc' = [pc EXCEPT ![r] = "mint"]
  /\ UNCHANGED <<admitted, command, browser, pending, finish, tokens,
                 now, restarts, minted>>

\* Mutant of SaveCounter: a credential that is missing is put back.
SaveCounterUpserts(r) ==
  /\ pc[r] = "save"
  /\ file' = [c \in DOMAIN copy[r] \cup {Assertion(r).cred} |->
       IF c = Assertion(r).cred THEN Assertion(r).count ELSE copy[r][c]]
  /\ Release(r)
  /\ pc' = [pc EXCEPT ![r] = "mint"]
  /\ UNCHANGED <<admitted, command, browser, pending, finish, tokens,
                 now, restarts, minted>>

\* persist_counter_update: save_atomic if the counter is news, then unlock.
SaveCounter(r) ==
  /\ pc[r] = "save"
  /\ file' = IF Bumps(r)
               THEN [copy[r] EXCEPT ![Assertion(r).cred] = Assertion(r).count]
               ELSE file
  /\ Release(r)
  /\ pc' = [pc EXCEPT ![r] = "mint"]
  /\ UNCHANGED <<admitted, command, browser, pending, finish, tokens,
                 now, restarts, minted>>

\* An I/O error up to the rename: the login goes on without the update.
SaveFails(r) ==
  /\ pc[r] \in {"lock", "save"}
  /\ Release(r)
  /\ pc' = [pc EXCEPT ![r] = "mint"]
  /\ UNCHANGED <<file, admitted, command, browser, pending, finish,
                 tokens, now, restarts, minted>>

\* store_token
Mint(r) ==
  LET live == Live(tokens) IN
  /\ pc[r] = "mint"
  /\ tokens' = [t \in DOMAIN live \cup {r} |->
       IF t = r THEN [expires |-> now + TokenTtl] ELSE live[t]]
  /\ minted' = [t \in DOMAIN minted \cup {r} |->
       IF t = r THEN request[r].nonce ELSE minted[t]]
  /\ pc' = [pc EXCEPT ![r] = "granted"]
  /\ UNCHANGED <<store, command, browser, pending, finish, now, restarts>>

\* validate_token by the Bearer extractor, then logout's drop_token.
Logout(r) ==
  LET live == Live(tokens) IN
  /\ r \in DOMAIN live
  /\ tokens' = Restrict(live, DOMAIN live \ {r})
  /\ UNCHANGED <<store, pc, command, browser, pending, finish, now, restarts,
                 minted>>

(***************************************************************************)
(* hub-admin add-passkey and remove                                        *)
(***************************************************************************)

\* SignedEnvelope::verify; age is a saturating difference.
Fresh(c) == blob[c] # None /\ now - blob[c].issued <= EnvelopeTtl

\* add-passkey checks its blob before it takes the lock.
AdminStart(a, cmd) ==
  /\ pc[a] = "idle"
  /\ cmd.op = "add" => Fresh(cmd.arg)
  /\ command' = [command EXCEPT ![a] = cmd]
  /\ pc' = [pc EXCEPT ![a] = "lock"]
  /\ UNCHANGED <<store, browser, pending, finish, tokens, now, restarts,
                 minted>>

\* The credentials remove takes out of a store: exact matches, or else the
\* one credential the target is a prefix of.
Doomed(st, t) ==
  IF Exact(st, t) # {} THEN Exact(st, t)
  ELSE IF Cardinality(Prefixed(st, t)) = 1 THEN Prefixed(st, t) ELSE {}

Added(a) ==
  LET c == command[a].arg IN
  [d \in DOMAIN copy[a] \cup {c} |->
     IF d = c THEN blob[c].count ELSE copy[a][d]]

AdminEnds(a) ==
  /\ Release(a)
  /\ pc' = [pc EXCEPT ![a] = "done"]
  /\ command' = [command EXCEPT ![a] = None]
  /\ UNCHANGED <<browser, pending, finish, tokens, now,
                 restarts, minted>>

\* add-passkey refuses a credential that is already registered.
AdminAdd(a) ==
  /\ AdminEnds(a)
  /\ pc[a] = "save"
  /\ command[a].op = "add"
  /\ command[a].arg \notin DOMAIN copy[a]
  /\ file' = Added(a)
  /\ admitted' = admitted \cup {command[a].arg}

AdminRemove(a) ==
  LET gone == Doomed(copy[a], command[a].arg) IN
  /\ AdminEnds(a)
  /\ pc[a] = "save"
  /\ command[a].op = "remove"
  /\ gone # {}
  /\ file' = Restrict(copy[a], DOMAIN copy[a] \ gone)
  /\ admitted' = admitted \ gone

\* A refusal, an I/O error or a killed process: the file stays, the lock goes.
AdminBails(a) ==
  /\ AdminEnds(a)
  /\ pc[a] \in {"lock", "save"}
  /\ UNCHANGED <<file, admitted>>

(***************************************************************************)
(* Time and restarts                                                       *)
(***************************************************************************)
Tick ==
  /\ now < MaxTime
  /\ now' = now + 1
  /\ UNCHANGED <<store, pc, command, browser, pending, finish, tokens,
                 restarts, minted>>

InFlight == {r \in Posts : pc[r] \in {"take", "verify", "lock", "save", "mint"}}

\* The hub stops and starts again with empty maps; its locks go with it.
HubRestart ==
  /\ restarts < MaxRestarts
  /\ restarts' = restarts + 1
  /\ pending' = Empty
  /\ tokens' = Empty
  /\ pc' = [w \in Writers |-> IF w \in InFlight THEN "lost" ELSE pc[w]]
  /\ lock' = IF lock \in Posts THEN None ELSE lock
  /\ copy' = [w \in Writers |-> IF w \in Posts THEN Empty ELSE copy[w]]
  /\ ceremony' = [n \in Nonces |->
       IF ceremony[n] = "starting" THEN "over" ELSE ceremony[n]]
  /\ offered' = [n \in Nonces |-> {}]
  /\ allowed' = [r \in Posts |-> {}]
  /\ UNCHANGED <<file, admitted, command, assertion, device, blob, request,
                 now, minted>>

Finish(r) ==
  \/ TakePending(r)
  \/ Verify(r)
  \/ LockAndLoad(r)
  \/ SaveCounter(r)
  \/ SaveFails(r)
  \/ Mint(r)

Administer(a) ==
  \/ LockAndLoad(a)
  \/ AdminAdd(a)
  \/ AdminRemove(a)
  \/ AdminBails(a)

Next ==
  \/ \E c \in Creds : Register(c)
  \/ \E n \in Nonces : StartLoad(n) \/ StartInsert(n)
  \/ \E n \in Nonces, c \in Creds : Sign(n, c)
  \/ \E r \in Posts, n, m \in Nonces : Post(r, n, m)
  \/ \E r \in Posts : Finish(r) \/ Logout(r)
  \/ \E a \in Admins, cmd \in Commands : AdminStart(a, cmd)
  \/ \E a \in Admins : Administer(a)
  \/ Tick
  \/ HubRestart

Spec == Init /\ [][Next]_vars

-----------------------------------------------------------------------------
(***************************************************************************)
(* Properties                                                              *)
(***************************************************************************)
IsStore(st) == DOMAIN st \subseteq Creds /\ \A c \in DOMAIN st : st[c] \in Nat

\* Every variable has the type its Rust counterpart has: credentials.json
\* always parses as a list of credentials with counters, and the table that
\* login_start opens to anyone stays within MAX_PENDING_LOGINS.
TypeOK ==
  /\ IsStore(file) /\ \A w \in Writers : IsStore(copy[w])
  /\ lock \in Writers \cup {None}
  /\ DOMAIN pc = Writers
  /\ \A r \in Posts : pc[r] \in {"idle", "take", "verify", "lock", "save", "mint",
                                "granted", "refused", "lost"}
  /\ \A a \in Admins : pc[a] \in {"idle", "lock", "save", "done"}
  /\ \A a \in Admins : command[a] \in Commands \cup {None}
  /\ device \in [Creds -> Nat]
  /\ DOMAIN pending \subseteq Nonces /\ Cardinality(DOMAIN pending) <= MaxPending
  /\ DOMAIN tokens \subseteq Posts
  /\ now \in Nat /\ restarts \in Nat
  /\ admitted \subseteq Creds

\* The read-modify-write cycles of hub-admin and of persist_counter_update
\* never undo one another: the store holds exactly the credentials that the
\* hub-admin commands which reported ok have left in it.
StoreMatchesAdmin == DOMAIN file = admitted

\* credentials.json, seen as an atomic store.
StoreView == INSTANCE CredStore WITH creds <- file

\* Passkeys implements CredStore: whatever logins, hub-admin commands, failed
\* saves and restarts overlap, the file changes by one add, one remove or one
\* counter moving up at a time.  A save from a stale copy would undo another
\* writer's change, and two logins that verified against the same old counter
\* would set it back.
ImplementsStore == StoreView!Spec

\* A nonce of login_start buys at most one bearer token, however often and
\* however concurrently login_finish is called with it.
OneTokenPerNonce ==
  \A q, r \in DOMAIN minted : minted[q] = minted[r] => q = r

\* The clone check of finish_authenticate never turns away the latest answer
\* of an authenticator before it has been presented: stored counters come
\* from answers that were given earlier.
NewestAssertionPasses ==
  \A n \in Nonces :
    LET s == assertion[n]
        presented == \E r \in Posts : request[r] # None /\ request[r].signed = n IN
    (s # None /\ ~presented /\ s.cred \in DOMAIN file /\ s.count = device[s.cred])
      => s.count = 0 \/ s.count > file[s.cred]
=============================================================================
