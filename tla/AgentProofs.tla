----------------------------- MODULE AgentProofs -----------------------------
(***************************************************************************)
(* How an agent gets in and what becomes of its connections, proved for    *)
(* every value of the constants and any length of run: the allowlist of    *)
(* agent certificates under its lock file, the files of init-ca and        *)
(* issue-cert without one, and the replay cache (AgentCerts), for any      *)
(* number of hub-admin processes, machines, headers and upgrade requests;  *)
(* and the connections with the tasks of their streams (AgentConn), for    *)
(* any number of tasks, connections and shells.                            *)
(***************************************************************************)
EXTENDS AgentCerts, AgentConn, SequenceTheorems, TLAPS

-----------------------------------------------------------------------------
(* Certificates, allowlist and the replay cache.                           *)

\* A command between its load and its save holds the lock, and its copy is
\* what issued-certs.json says.
CopyCurrent ==
  \A a \in Admins : pc[a] = "save" => lock = a /\ copy[a] = allow

ListShape ==
  /\ copy = [a \in Admins |-> copy[a]]
  /\ pc = [a \in Admins |-> pc[a]]
  /\ DOMAIN allow \subseteq Admins

\* The inductive invariant of the allowlist.
ListInv == ListShape /\ CopyCurrent

\* The steps that can touch the allowlist, its lock or a copy of it.
ListStep(a) ==
  LockAndLoad(a) \/ SaveIssued(a) \/ SaveRevoked(a) \/ Bails(a)

\* The steps of a command outside the lock: it stays outside, or gets in line.
Elsewhere(a) ==
  /\ pc[a] \in {"idle", "crt", "key"}
  /\ \E to \in {"crt", "key", "lock", "ok", "failed"} : pc' = [pc EXCEPT ![a] = to]
  /\ UNCHANGED store

\* Every step is one of the three: on the list, elsewhere in a command, or
\* none of a command at all.
LEMMA StepKinds ==
  ASSUME Next
  PROVE  \/ \E a \in Admins : ListStep(a) \/ Elsewhere(a)
         \/ UNCHANGED <<pc, store>>
  <1>1. CASE \E a \in Admins : Command(a)
    <2>1. PICK a \in Admins : Command(a)
      BY <1>1
    <2>2. CASE LockAndLoad(a) \/ SaveIssued(a) \/ SaveRevoked(a) \/ Bails(a)
      BY <2>2 DEF ListStep
    <2>3. CASE InitCa(a) \/ IssueCert(a) \/ RevokeCert(a)
      BY <2>3 DEF InitCa, IssueCert, RevokeCert, Elsewhere
    <2>4. CASE WriteCrt(a) \/ WriteKey(a) \/ WriteKilled(a)
      BY <2>4 DEF WriteCrt, WriteKey, WriteKilled, Elsewhere
    <2>5. QED
      BY <2>1, <2>2, <2>3, <2>4 DEF Command
  <1>2. CASE HubStart \/ HubStop \/ Reload \/ ReplayGc \/ Tick
    BY <1>2 DEF HubStart, HubStop, Reload, ReplayGc, Tick
  <1>3. CASE \E o \in Outs : TlsHandshake(o) \/ \E h \in Headers, d \in Ahead : SignHeader(h, o, d)
    BY <1>3 DEF TlsHandshake, SignHeader
  <1>4. CASE \E u \in Upgrades : FinishUpgrade(u) \/ \E h \in Headers : CheckUpgrade(u, h)
    BY <1>4 DEF FinishUpgrade, CheckUpgrade
  <1>5. CASE \E m \in Machines : LinkDown(m)
    BY <1>5 DEF LinkDown
  <1>6. QED
    BY <1>1, <1>2, <1>3, <1>4, <1>5 DEF Next

\* No command is running when the hub is set up.
LEMMA InitList == Init => ListInv
  BY CertsAssumption DEF Init, Empty, ListInv, ListShape, CopyCurrent

\* What the steps on the list do to the lock and to the copies.
LEMMA ListStepKeeps ==
  ASSUME ListInv, NEW a \in Admins, ListStep(a)
  PROVE  ListInv'
  <1> USE CertsAssumption DEF ListInv, ListShape, CopyCurrent
  <1>1. CASE LockAndLoad(a)
    <2>1. \A b \in Admins : b # a => pc[b] # "save"
      BY <1>1 DEF LockAndLoad
    <2>2. QED
      BY <1>1, <2>1 DEF LockAndLoad
  <1>2. CASE SaveIssued(a)
    <2>1. \A b \in Admins : b # a => pc[b] # "save"
      BY <1>2 DEF SaveIssued
    <2>2. DOMAIN allow' \subseteq Admins
      BY <1>2 DEF SaveIssued, Save
    <2>3. QED
      BY <1>2, <2>1, <2>2 DEF SaveIssued, Ends
  <1>3. CASE SaveRevoked(a)
    <2>1. \A b \in Admins : b # a => pc[b] # "save"
      BY <1>3 DEF SaveRevoked
    <2>2. DOMAIN allow' \subseteq Admins
      BY <1>3 DEF SaveRevoked, Save, Restrict
    <2>3. QED
      BY <1>3, <2>1, <2>2 DEF SaveRevoked, Ends
  <1>4. CASE Bails(a)
    BY <1>4 DEF Bails, Ends
  <1>5. QED
    BY <1>1, <1>2, <1>3, <1>4 DEF ListStep

\* Every step keeps the invariant of the allowlist.
LEMMA NextList ==
  ASSUME ListInv, [Next]_vars
  PROVE  ListInv'
  <1>1. CASE \E a \in Admins : ListStep(a)
    BY <1>1, ListStepKeeps
  <1>2. CASE \E a \in Admins : Elsewhere(a)
    BY <1>2 DEF Elsewhere, store, ListInv, ListShape, CopyCurrent
  <1>3. CASE UNCHANGED <<pc, store>>
    BY <1>3 DEF store, ListInv, ListShape, CopyCurrent
  <1>4. QED
    BY <1>1, <1>2, <1>3, StepKinds DEF vars

\* The lock file makes a load and a save of issued-certs.json one step: the
\* copy a command works on is the file when it saves.
THEOREM ListInvariant == Spec => []ListInv
  <1>1. Init => ListInv
    BY InitList
  <1>2. ListInv /\ [Next]_vars => ListInv'
    BY NextList
  <1>3. QED
    BY <1>1, <1>2, PTL DEF Spec

\* What changes the file is the effect of one command on the file itself.
LEMMA SaveIsEffect ==
  ASSUME ListInv, [Next]_vars, allow' # allow
  PROVE  \E a \in Admins : /\ pc[a] # "ok" /\ pc'[a] = "ok"
                           /\ allow' = Effect(a, allow)
  <1>1. PICK a \in Admins : ListStep(a)
    BY StepKinds DEF Elsewhere, store, vars
  <1>2. CASE SaveIssued(a)
    <2>1. allow' = Effect(a, allow)
      BY <1>2 DEF SaveIssued, Save, Effect, ListInv, CopyCurrent
    <2>2. pc[a] # "ok" /\ pc'[a] = "ok"
      BY <1>2 DEF SaveIssued, Ends, ListInv, ListShape
    <2>3. QED
      BY <2>1, <2>2
  <1>3. CASE SaveRevoked(a)
    <2>1. copy[a] = allow
      BY <1>3 DEF SaveRevoked, ListInv, CopyCurrent
    <2>2. DOMAIN allow \ Revoked(a) = {c \in DOMAIN allow : ~Names(a, c, allow)}
      BY <2>1 DEF Revoked
    <2>3. allow' = Restrict(allow, DOMAIN allow \ Revoked(a))
      BY <1>3, <2>1 DEF SaveRevoked, Save
    <2>4. allow' = Effect(a, allow)
      BY <1>3, <2>2, <2>3 DEF SaveRevoked, Effect
    <2>5. pc[a] # "ok" /\ pc'[a] = "ok"
      BY <1>3 DEF SaveRevoked, Ends, ListInv, ListShape
    <2>6. QED
      BY <2>4, <2>5
  <1>4. CASE LockAndLoad(a) \/ Bails(a)
    BY <1>4 DEF LockAndLoad, Bails
  <1>5. QED
    BY <1>1, <1>2, <1>3, <1>4 DEF ListStep

\* Concurrent issue-cert and revoke-cert commands, killed ones included, act
\* on issued-certs.json as if each were one step.
THEOREM AllowlistIsAtomic == Spec => ChangesAreAtomic
  <1>1. ListInv /\ [Next]_vars =>
          [allow' # allow =>
             \E a \in Admins : /\ pc[a] # "ok" /\ pc'[a] = "ok"
                               /\ allow' = Effect(a, allow)]_vars
    BY SaveIsEffect
  <1>2. QED
    BY <1>1, ListInvariant, PTL DEF Spec, ChangesAreAtomic

-----------------------------------------------------------------------------
(* Pairs of files.                                                         *)

\* init-ca and issue-cert, the commands that write a pair.
PairWriter(a) == CommandOf[a].op \in {"init", "issue"}

FileShape ==
  /\ crt = [s \in Slots |-> crt[s]]
  /\ key = [s \in Slots |-> key[s]]
  /\ \A a \in Admins : pc[a] \in {"crt", "key"} => PairWriter(a)

\* One writer per slot; its slot is vacant before the first write and has its
\* certificate alone before the second.  An issue-cert in line for the lock
\* has written both.
OneWriter ==
  /\ \A a, b \in Admins :
       (/\ pc[a] \in {"crt", "key"} /\ pc[b] \in {"crt", "key"}
        /\ SlotOf(a) = SlotOf(b)) => a = b
  /\ \A a \in Admins :
       /\ pc[a] = "crt" => Vacant(SlotOf(a))
       /\ pc[a] = "key" => crt[SlotOf(a)] = a /\ key[SlotOf(a)] = None
       /\ pc[a] \in {"lock", "save"} /\ CommandOf[a].op = "issue"
            => key[SlotOf(a)] = a
  /\ \A s \in Slots : key[s] # None => key[s] = crt[s]
  /\ \A c \in DOMAIN allow : PairWriter(c) /\ key[SlotOf(c)] = c

\* The inductive invariant: PairsMatch says nothing of a slot that is being
\* written, OneWriter says what the writer finds there.
PairInv == ListInv /\ FileShape /\ (~raced => OneWriter)

\* Where a pair writer writes.
LEMMA SlotTyped ==
  ASSUME NEW a \in Admins, PairWriter(a)
  PROVE  SlotOf(a) \in Slots
  BY CertsAssumption DEF PairWriter, SlotOf, Slots, Commands

\* No file is there and no command is running at first.
LEMMA InitPairs == Init => PairInv
  BY InitList, CertsAssumption DEF Init, Empty, PairInv, FileShape, OneWriter

\* The files stay and no command moves: nothing to show.
LEMMA PairFrame ==
  ASSUME PairInv, UNCHANGED <<crt, key, raced, pc, store>>
  PROVE  FileShape' /\ (~raced' => OneWriter')
  BY DEF PairInv, FileShape, OneWriter, Vacant, store

\* A command that found its slot vacant becomes its only writer, or the race
\* is noted.
LEMMA StartKeepsPairs ==
  ASSUME PairInv, NEW a \in Admins, InitCa(a) \/ IssueCert(a)
  PROVE  FileShape' /\ (~raced' => OneWriter')
  <1>1. /\ pc[a] = "idle" /\ PairWriter(a) /\ Vacant(SlotOf(a))
        /\ pc' = [pc EXCEPT ![a] = "crt"]
        /\ raced' = (raced \/ Writing(SlotOf(a)) # {})
        /\ UNCHANGED <<crt, key, allow>>
    BY DEF InitCa, IssueCert, PairWriter, SlotOf, store
  <1>2. ~raced' => /\ ~raced
                   /\ \A b \in Admins : ~(pc[b] \in {"crt", "key"} /\ SlotOf(b) = SlotOf(a))
    BY <1>1 DEF Writing
  <1>3. FileShape'
    BY <1>1 DEF PairInv, FileShape, ListInv, ListShape
  <1>4. ~raced' => OneWriter'
    BY <1>1, <1>2 DEF PairInv, OneWriter, Vacant, ListInv, ListShape
  <1>5. QED
    BY <1>3, <1>4

\* The two writes of the only writer of a slot.
LEMMA WriteKeepsPairs ==
  ASSUME PairInv, NEW a \in Admins, WriteCrt(a) \/ WriteKey(a)
  PROVE  FileShape' /\ (~raced' => OneWriter')
  <1>1. PairWriter(a) /\ SlotOf(a) \in Slots
    BY SlotTyped DEF WriteCrt, WriteKey, PairInv, FileShape
  <1>2. CASE WriteCrt(a)
    <2>1. FileShape'
      BY <1>1, <1>2 DEF WriteCrt, PairInv, FileShape, ListInv, ListShape
    <2>2. ASSUME ~raced'
          PROVE  OneWriter'
      <3>1. OneWriter /\ Vacant(SlotOf(a))
        BY <1>2, <2>2 DEF WriteCrt, PairInv, OneWriter
      <3>2. \A b \in Admins : b # a /\ pc[b] \in {"crt", "key"} => SlotOf(b) # SlotOf(a)
        BY <1>2, <3>1 DEF WriteCrt, OneWriter
      <3>3. QED
        BY <1>1, <1>2, <3>1, <3>2
        DEF WriteCrt, PairInv, OneWriter, Vacant, FileShape, ListInv, ListShape, store
    <2>3. QED
      BY <2>1, <2>2
  <1>3. CASE WriteKey(a)
    <2>1. FileShape'
      BY <1>1, <1>3 DEF WriteKey, PairInv, FileShape, ListInv, ListShape
    <2>2. ASSUME ~raced'
          PROVE  OneWriter'
      <3>1. OneWriter /\ crt[SlotOf(a)] = a /\ key[SlotOf(a)] = None
        BY <1>3, <2>2 DEF WriteKey, PairInv, OneWriter
      <3>2. \A b \in Admins : b # a /\ pc[b] \in {"crt", "key"} => SlotOf(b) # SlotOf(a)
        BY <1>3, <3>1 DEF WriteKey, OneWriter
      <3>3. QED
        BY <1>1, <1>3, <3>1, <3>2, CertsAssumption
        DEF WriteKey, PairInv, OneWriter, Vacant, FileShape, ListInv, ListShape, store
    <2>3. QED
      BY <2>1, <2>2
  <1>4. QED
    BY <1>2, <1>3

\* Leaving, getting in line and saving do not touch the files.
LEMMA OtherKeepsPairs ==
  ASSUME PairInv, NEW a \in Admins,
         ListStep(a) \/ WriteKilled(a) \/ RevokeCert(a)
  PROVE  FileShape' /\ (~raced' => OneWriter')
  <1>1. UNCHANGED <<crt, key, raced>>
    BY DEF ListStep, LockAndLoad, SaveIssued, SaveRevoked, Bails, Ends,
           WriteKilled, RevokeCert, files
  <1>2. \/ pc' = [pc EXCEPT ![a] = "ok"] \/ pc' = [pc EXCEPT ![a] = "failed"]
        \/ pc' = [pc EXCEPT ![a] = "save"] /\ pc[a] = "lock"
        \/ pc' = [pc EXCEPT ![a] = "lock"] /\ CommandOf[a].op = "revoke"
    BY DEF ListStep, LockAndLoad, SaveIssued, SaveRevoked, Bails, Ends,
           WriteKilled, RevokeCert
  <1>3. ASSUME ~raced
        PROVE  \A c \in DOMAIN allow' : PairWriter(c) /\ key[SlotOf(c)] = c
    <2>1. CASE SaveIssued(a)
      <3>1. DOMAIN allow' = DOMAIN allow \cup {a}
        BY <2>1 DEF SaveIssued, Save, PairInv, ListInv, CopyCurrent
      <3>2. PairWriter(a) /\ key[SlotOf(a)] = a
        BY <1>3, <2>1 DEF SaveIssued, PairWriter, PairInv, OneWriter
      <3>3. QED
        BY <1>3, <3>1, <3>2 DEF PairInv, OneWriter
    <2>2. CASE SaveRevoked(a)
      <3>1. DOMAIN allow' \subseteq DOMAIN allow
        BY <2>2 DEF SaveRevoked, Save, Restrict, PairInv, ListInv, CopyCurrent
      <3>2. QED
        BY <1>3, <3>1 DEF PairInv, OneWriter
    <2>3. CASE LockAndLoad(a) \/ Bails(a) \/ WriteKilled(a) \/ RevokeCert(a)
      BY <1>3, <2>3 DEF LockAndLoad, Bails, WriteKilled, RevokeCert, store,
                        PairInv, OneWriter
    <2>4. QED
      BY <2>1, <2>2, <2>3 DEF ListStep
  <1>4. FileShape'
    BY <1>1, <1>2 DEF PairInv, FileShape, ListInv, ListShape
  <1>5. ~raced' => OneWriter'
    BY <1>1, <1>2, <1>3 DEF PairInv, OneWriter, Vacant, ListInv, ListShape
  <1>6. QED
    BY <1>4, <1>5

\* Every step keeps the invariant of the files.
LEMMA NextPairs ==
  ASSUME PairInv, [Next]_vars
  PROVE  PairInv'
  <1>1. ListInv'
    BY NextList DEF PairInv
  <1>2. FileShape' /\ (~raced' => OneWriter')
    <2>1. CASE \E a \in Admins : Command(a)
      BY <2>1, StartKeepsPairs, WriteKeepsPairs, OtherKeepsPairs DEF Command, ListStep
    <2>2. CASE HubStart \/ HubStop \/ Reload \/ ReplayGc \/ Tick
      BY <2>2, PairFrame DEF HubStart, HubStop, Reload, ReplayGc, Tick, files
    <2>3. CASE \E o \in Outs : TlsHandshake(o) \/ \E h \in Headers, d \in Ahead : SignHeader(h, o, d)
      BY <2>3, PairFrame DEF TlsHandshake, SignHeader, files
    <2>4. CASE \E u \in Upgrades : FinishUpgrade(u) \/ \E h \in Headers : CheckUpgrade(u, h)
      BY <2>4, PairFrame DEF FinishUpgrade, CheckUpgrade, files
    <2>5. CASE \E m \in Machines : LinkDown(m)
      BY <2>5, PairFrame DEF LinkDown, files
    <2>6. CASE UNCHANGED vars
      BY <2>6, PairFrame DEF vars, files
    <2>7. QED
      BY <2>1, <2>2, <2>3, <2>4, <2>5, <2>6 DEF Next
  <1>3. QED
    BY <1>1, <1>2 DEF PairInv

\* Wherever init-ca and issue-cert are killed, a private key lies beside its
\* certificate and an allowed certificate has its key, unless two commands
\* raced for one vacant slot.
THEOREM KeysMatchCertificates == Spec => []PairsMatch
  <1>1. Init => PairInv
    BY InitPairs
  <1>2. PairInv /\ [Next]_vars => PairInv'
    BY NextPairs
  <1>3. PairInv => PairsMatch
    BY DEF PairInv, OneWriter, PairsMatch
  <1>4. QED
    BY <1>1, <1>2, <1>3, PTL DEF Spec
-----------------------------------------------------------------------------
(* Signed headers and the replay cache.                                    *)

\* Half seconds and the whole seconds they make.
LEMMA WholeSeconds ==
  /\ \A n \in Nat : n \div 2 \in Nat /\ 2 * (n \div 2) <= n /\ n <= 2 * (n \div 2) + 1
  /\ \A m, n \in Nat : m <= n => m \div 2 <= n \div 2
  OBVIOUS

\* A header carries a time.
SignedShape == \A h \in Headers : header[h] # None => header[h].ts \in Int

\* Too old for check_ws_auth_timestamp, now and from now on.
Stale(h) == header[h] # None /\ (now \div 2) - header[h].ts > SkewSecs

\* The header of an upgrade that waits for the cache was timely when it was
\* checked; it may have become stale since.
WaitingWasTimely ==
  \A u \in Upgrades : upgrade[u] # None =>
    /\ upgrade[u].header \in Headers /\ header[upgrade[u].header] # None
    /\ upgrade[u].checked \in Nat /\ upgrade[u].checked <= now \div 2
    /\ header[upgrade[u].header].ts - upgrade[u].checked <= SkewSecs
    /\ upgrade[u].checked - header[upgrade[u].header].ts <= SkewSecs

CacheSound == \A h \in DOMAIN replay : h \in Headers /\ header[h] # None /\ replay[h] \in Nat

\* The entry of a header that was not ahead by the whole skew.
Covered(h) == h \in DOMAIN replay /\ header[h].ts < (replay[h] \div 2) + SkewSecs

\* A header that got its agent in, and was not ahead by the whole skew then, is
\* in the cache, or too old to pass the check again.
OnceOrStale ==
  \A h \in Headers : \A i \in DOMAIN admitted[h] :
    ~admitted[h][i].ahead => header[h] # None /\ (Covered(h) \/ Stale(h))

AdmissionType == [ahead : BOOLEAN, held : BOOLEAN]

HeaderInv ==
  /\ now \in Nat
  /\ header = [h \in Headers |-> header[h]] /\ upgrade = [u \in Upgrades |-> upgrade[u]]
  /\ admitted \in [Headers -> Seq(AdmissionType)]
  /\ SignedShape /\ WaitingWasTimely /\ CacheSound /\ OnceOrStale /\ HeaderOnce

\* No header is signed before the start.
LEMMA InitHeader == Init => HeaderInv
  <1> SUFFICES ASSUME Init PROVE HeaderInv
    OBVIOUS
  <1>1. admitted \in [Headers -> Seq(AdmissionType)]
    BY EmptySeq DEF Init
  <1>2. \A h \in Headers : DOMAIN admitted[h] = {}
    BY DEF Init
  <1>3. QED
    BY <1>1, <1>2 DEF Init, Empty, HeaderInv, SignedShape, WaitingWasTimely, CacheSound, OnceOrStale, HeaderOnce

\* A covering entry older than WS_REPLAY_TTL_SECS is of a header that is stale:
\* twice the skew covers a clock ahead by less than one, and then the age of
\* one more.
LEMMA CollectedIsStale ==
  ASSUME HeaderInv, NEW h \in Headers, Covered(h), ~Retained(replay[h])
  PROVE  Stale(h)
  <1>1. /\ header[h] # None /\ header[h].ts \in Int
        /\ replay[h] \in Nat /\ header[h].ts < (replay[h] \div 2) + SkewSecs
    BY DEF HeaderInv, CacheSound, SignedShape, Covered
  <1>2. PICK t \in Nat, ts \in Int, s \in Nat, n \in Nat :
          t = replay[h] /\ ts = header[h].ts /\ s = SkewSecs /\ n = now
    BY <1>1, CertsAssumption DEF HeaderInv
  <1>3. PICK a \in Nat, b \in Nat : a = t \div 2 /\ b = n \div 2
    BY WholeSeconds
  <1>4. 2 * a <= t /\ n <= 2 * b + 1
    BY <1>3, WholeSeconds
  <1>5. ts < a + s
    BY <1>1, <1>2, <1>3
  <1>6. t < n - 2 * (2 * s)
    BY <1>2 DEF Retained
  <1>7. b - ts > s
    BY <1>4, <1>5, <1>6
  <1>8. QED
    BY <1>1, <1>2, <1>3, <1>7 DEF Stale

\* Steps that touch neither the headers, the cache nor the clock.
LEMMA HeaderFrame ==
  ASSUME HeaderInv, UNCHANGED <<replay, upgrade, admitted, header, now>>
  PROVE  HeaderInv'
  BY DEF HeaderInv, SignedShape, WaitingWasTimely, CacheSound, OnceOrStale, Covered, Stale, HeaderOnce

\* An agent signs, by whatever clock it has.
LEMMA SignKeepsHeaders ==
  ASSUME HeaderInv, NEW h \in Headers, NEW o \in Outs, NEW d \in Ahead, SignHeader(h, o, d)
  PROVE  HeaderInv'
  <1>1. /\ header[h] = None
        /\ header' = [header EXCEPT ![h] = [leaf |-> crt[o], by |-> key[o], ts |-> Secs + d]]
        /\ UNCHANGED <<replay, upgrade, admitted, now>>
    BY DEF SignHeader, hubState
  <1>2. \A g \in Headers : g # h => header'[g] = header[g]
    BY <1>1 DEF HeaderInv
  <1>3. header'[h].ts = (now \div 2) + d
    BY <1>1 DEF HeaderInv, Secs
  <1>4. d \in Int /\ now \div 2 \in Nat
    BY CertsAssumption, WholeSeconds DEF HeaderInv
  <1>5. header'[h].ts \in Int
    BY <1>3, <1>4
  <1>6. SignedShape'
    BY <1>1, <1>2, <1>5 DEF HeaderInv, SignedShape
  <1>7. WaitingWasTimely'
    BY <1>1, <1>2 DEF HeaderInv, WaitingWasTimely
  <1>8. CacheSound'
    BY <1>1, <1>2 DEF HeaderInv, CacheSound
  <1>9. \A i \in DOMAIN admitted[h] : admitted[h][i].ahead
    BY <1>1 DEF HeaderInv, OnceOrStale
  <1>10. OnceOrStale'
    BY <1>1, <1>2, <1>9 DEF HeaderInv, OnceOrStale, Covered, Stale
  <1>11. header' = [g \in Headers |-> header'[g]]
    BY <1>1 DEF HeaderInv
  <1>12. QED
    BY <1>1, <1>6, <1>7, <1>8, <1>10, <1>11 DEF HeaderInv, HeaderOnce

\* Time makes no header timely again.
LEMMA TickKeepsHeaders ==
  ASSUME HeaderInv, Tick
  PROVE  HeaderInv'
  <1>1. /\ now' = now + 1 /\ now \in Nat /\ UNCHANGED <<replay, upgrade, admitted, header>>
    BY DEF Tick, hubState, HeaderInv
  <1>2. PICK a \in Nat, b \in Nat : a = now \div 2 /\ b = now' \div 2 /\ a <= b
    <2>1. now + 1 \in Nat /\ now <= now + 1
      BY <1>1
    <2>2. QED
      BY <1>1, <2>1, WholeSeconds
  <1>3. SkewSecs \in Nat
    BY CertsAssumption
  <1>4. \A h \in Headers : Stale(h) => Stale(h)'
    <2>1. ASSUME NEW h \in Headers, Stale(h)
          PROVE  b - header[h].ts > SkewSecs
      <3>1. PICK ts \in Int : ts = header[h].ts
        BY <2>1 DEF HeaderInv, SignedShape, Stale
      <3>2. a - ts > SkewSecs
        BY <1>2, <2>1, <3>1 DEF Stale
      <3>3. b - ts > SkewSecs
        BY <1>2, <1>3, <3>2
      <3>4. QED
        BY <3>1, <3>3
    <2>2. QED
      BY <1>1, <1>2, <2>1 DEF Stale
  <1>5. WaitingWasTimely'
    <2>1. \A n \in Nat : n <= a => n <= b
      BY <1>2
    <2>2. QED
      BY <1>1, <1>2, <2>1 DEF HeaderInv, WaitingWasTimely
  <1>6. OnceOrStale'
    BY <1>1, <1>4 DEF HeaderInv, OnceOrStale, Covered
  <1>7. now' \in Nat
    BY <1>1
  <1>8. QED
    BY <1>1, <1>5, <1>6, <1>7 DEF HeaderInv, SignedShape, CacheSound, HeaderOnce

\* An upgrade that passes the checks carries a timely header.
LEMMA CheckKeepsHeaders ==
  ASSUME HeaderInv, NEW u \in Upgrades, NEW h \in Headers, CheckUpgrade(u, h)
  PROVE  HeaderInv'
  <1>1. /\ upgrade' = [upgrade EXCEPT ![u] = Passed(h, Secs)] /\ header[h] # None /\ Timely(header[h].ts)
        /\ UNCHANGED <<replay, admitted, header, now>>
    BY DEF CheckUpgrade
  <1>2. PICK p : p = Passed(h, Secs)
    OBVIOUS
  <1>3. p.header = h /\ p.checked = now \div 2 /\ now \div 2 \in Nat /\ now \div 2 <= now \div 2
    BY <1>2, WholeSeconds DEF Passed, Secs, HeaderInv
  <1>4. /\ upgrade' = [v \in Upgrades |-> upgrade'[v]] /\ upgrade'[u] = p
        /\ \A v \in Upgrades : v # u => upgrade'[v] = upgrade[v]
    BY <1>1, <1>2 DEF HeaderInv
  <1>5. header[h].ts - p.checked <= SkewSecs /\ p.checked - header[h].ts <= SkewSecs
    BY <1>1, <1>3 DEF Timely, Secs
  <1>6. WaitingWasTimely'
    BY <1>1, <1>3, <1>4, <1>5 DEF HeaderInv, WaitingWasTimely
  <1>7. QED
    BY <1>1, <1>4, <1>6 DEF HeaderInv, SignedShape, CacheSound, OnceOrStale, Covered, Stale, HeaderOnce

\* What is remembered of an admission, in terms of its header.
LEMMA AdmissionShape ==
  ASSUME HeaderInv, NEW u \in Upgrades, upgrade[u] # None
  PROVE  /\ upgrade[u].header \in Headers /\ header[upgrade[u].header] # None
         /\ Admission(u) \in AdmissionType
         /\ ~Admission(u).ahead => header[upgrade[u].header].ts < (now \div 2) + SkewSecs
         /\ Stale(upgrade[u].header) => Admission(u).held
  <1>1. PICK h \in Headers, c \in Nat, ts \in Int, s \in Nat, n \in Nat :
          /\ h = upgrade[u].header /\ c = upgrade[u].checked /\ ts = header[h].ts
          /\ s = SkewSecs /\ n = now \div 2
    BY CertsAssumption, WholeSeconds DEF HeaderInv, WaitingWasTimely, SignedShape
  <1>2. header[h] # None /\ c <= n /\ ts - c <= s /\ c - ts <= s
    BY <1>1 DEF HeaderInv, WaitingWasTimely
  <1>3. Admission(u) = [ahead |-> ts = n + s, held |-> n > c]
    BY <1>1 DEF Admission, Secs
  <1>4. ts # n + s => ts < n + s
    BY <1>2
  <1>5. n - ts > s => n > c
    BY <1>2
  <1>6. (ts = n + s) \in BOOLEAN /\ (n > c) \in BOOLEAN
    OBVIOUS
  <1>7. Admission(u) \in AdmissionType
    BY <1>3, <1>6 DEF AdmissionType
  <1>8. (Admission(u).ahead <=> ts = n + s) /\ (Admission(u).held <=> n > c)
    <2> DEFINE a == ts = n + s
               b == n > c
    <2>1. (a <=> ts = n + s) /\ (b <=> n > c)
      OBVIOUS
    <2>2. Admission(u) = [ahead |-> a, held |-> b]
      BY <1>3
    <2> HIDE DEF a, b
    <2>3. Admission(u).ahead = a /\ Admission(u).held = b
      BY <2>2
    <2>4. QED
      BY <2>1, <2>3, Zenon
  <1>9. ~Admission(u).ahead => ts < n + s
    BY <1>4, <1>8
  <1>10. Stale(h) => Admission(u).held
    BY <1>1, <1>5, <1>8 DEF Stale
  <1>11. QED
    BY <1>1, <1>2, <1>7, <1>9, <1>10

\* An upgrade whose header is not in the cache is the header's first, or the
\* header was ahead, or it is stale by now and the upgrade was held up.
LEMMA FinishKeepsHeaders ==
  ASSUME HeaderInv, NEW u \in Upgrades, FinishUpgrade(u)
  PROVE  HeaderInv'
  <1>1. PICK h, x : h = upgrade[u].header /\ x = Admission(u)
    OBVIOUS
  <1>2. /\ upgrade[u] # None /\ upgrade' = [upgrade EXCEPT ![u] = None] /\ UNCHANGED <<header, now>>
    BY DEF FinishUpgrade
  <1>3. /\ h \in Headers /\ header[h] # None /\ x \in AdmissionType
        /\ ~x.ahead => header[h].ts < (now \div 2) + SkewSecs
        /\ Stale(h) => x.held
    BY <1>1, <1>2, AdmissionShape
  <1>4. WaitingWasTimely' /\ SignedShape' /\ upgrade' = [v \in Upgrades |-> upgrade'[v]]
    BY <1>2 DEF HeaderInv, WaitingWasTimely, SignedShape
  <1>5. \A g \in Headers : Stale(g)' <=> Stale(g)
    BY <1>2 DEF Stale
  <1>6. CASE h \in DOMAIN replay
    <2>1. UNCHANGED <<replay, admitted>>
      BY <1>1, <1>6 DEF FinishUpgrade
    <2>2. CacheSound' /\ OnceOrStale' /\ HeaderOnce'
      BY <1>2, <1>5, <2>1 DEF HeaderInv, CacheSound, OnceOrStale, Covered, HeaderOnce
    <2>3. QED
      BY <1>2, <1>4, <2>1, <2>2 DEF HeaderInv
  <1>7. CASE h \notin DOMAIN replay
    <2>1. /\ replay' = [g \in DOMAIN replay \cup {h} |-> IF g = h THEN now ELSE replay[g]]
          /\ admitted' = [admitted EXCEPT ![h] = Append(admitted[h], x)]
      BY <1>1, <1>7 DEF FinishUpgrade
    <2>2. PICK q \in Seq(AdmissionType), r \in Seq(AdmissionType) :
            q = admitted[h] /\ r = Append(admitted[h], x)
      BY <1>3, AppendProperties DEF HeaderInv
    <2>3. /\ \A i \in DOMAIN q : i \in DOMAIN r /\ r[i] = q[i]
          /\ \A i \in DOMAIN r : i \in Nat /\ (i \in DOMAIN q \/ (i = Len(q) + 1 /\ r[i] = x))
          /\ \A i \in DOMAIN q : i < Len(q) + 1
      <3>1. PICK n \in Nat : n = Len(q)
        BY <2>2, LenProperties
      <3>2. DOMAIN q = 1..n
        BY <2>2, <3>1, LenProperties
      <3>3. Len(r) = n + 1 /\ (\A i \in 1..n : r[i] = q[i]) /\ r[n + 1] = x
        BY <1>3, <2>2, <3>1, AppendProperties
      <3>4. DOMAIN r = 1..(n + 1)
        BY <2>2, <3>3, LenProperties
      <3>5. QED
        BY <3>1, <3>2, <3>3, <3>4
    <2>4. /\ admitted' \in [Headers -> Seq(AdmissionType)] /\ admitted'[h] = r
          /\ \A g \in Headers : g # h => admitted'[g] = admitted[g]
      BY <1>3, <2>1, <2>2 DEF HeaderInv
    <2>5. /\ \A g \in Headers : g # h => (Covered(g)' <=> Covered(g))
          /\ header[h].ts < (now \div 2) + SkewSecs => Covered(h)'
      BY <1>2, <1>3, <2>1 DEF Covered
    <2>6. ASSUME NEW i \in DOMAIN q, ~q[i].ahead
          PROVE  Stale(h)
      BY <1>3, <1>7, <2>2, <2>6 DEF HeaderInv, OnceOrStale, Covered
    <2>7. OnceOrStale'
      <3>1. ASSUME NEW g \in Headers, NEW i \in DOMAIN admitted'[g], ~admitted'[g][i].ahead
            PROVE  header'[g] # None /\ (Covered(g)' \/ Stale(g)')
        <4>1. CASE g # h
          BY <1>2, <1>5, <2>4, <2>5, <3>1, <4>1 DEF HeaderInv, OnceOrStale
        <4>2. CASE g = h
          <5>1. i \in DOMAIN r /\ ~r[i].ahead
            BY <2>4, <3>1, <4>2
          <5>2. CASE i \in DOMAIN q
            BY <1>2, <1>3, <1>5, <2>3, <2>6, <4>2, <5>1, <5>2
          <5>3. CASE r[i] = x
            BY <1>2, <1>3, <2>5, <4>2, <5>1, <5>3
          <5>4. QED
            BY <2>3, <5>1, <5>2, <5>3
        <4>3. QED
          BY <4>1, <4>2
      <3>2. QED
        BY <3>1 DEF OnceOrStale
    <2>8. HeaderOnce'
      <3>1. ASSUME NEW i \in DOMAIN r, NEW j \in DOMAIN r, i < j
            PROVE  r[i].ahead \/ r[j].held
        <4>1. i \in DOMAIN q
          BY <2>3, <3>1
        <4>2. CASE j \in DOMAIN q
          BY <1>3, <2>2, <2>3, <3>1, <4>1, <4>2 DEF HeaderInv, HeaderOnce
        <4>3. CASE r[j] = x
          BY <1>3, <2>3, <2>6, <4>1, <4>3
        <4>4. QED
          BY <2>3, <4>2, <4>3
      <3>2. QED
        BY <2>4, <3>1 DEF HeaderInv, HeaderOnce
    <2>9. CacheSound'
      BY <1>2, <1>3, <2>1 DEF HeaderInv, CacheSound
    <2>10. QED
      BY <1>2, <1>4, <2>4, <2>7, <2>8, <2>9 DEF HeaderInv
  <1>8. QED
    BY <1>6, <1>7

\* gc_ws_replay forgets a header that was not ahead only when it is stale.
LEMMA GcKeepsHeaders ==
  ASSUME HeaderInv, ReplayGc
  PROVE  HeaderInv'
  <1>1. /\ replay' = [h \in {g \in DOMAIN replay : Retained(replay[g])} |-> replay[h]]
        /\ UNCHANGED <<upgrade, admitted, header, now>>
    BY DEF ReplayGc, Restrict
  <1>2. \A h \in Headers : Covered(h) => Covered(h)' \/ Stale(h)
    BY <1>1, CollectedIsStale DEF Covered
  <1>3. \A g \in Headers : Stale(g)' <=> Stale(g)
    BY <1>1 DEF Stale
  <1>4. OnceOrStale'
    BY <1>1, <1>2, <1>3 DEF HeaderInv, OnceOrStale
  <1>5. CacheSound'
    BY <1>1 DEF HeaderInv, CacheSound
  <1>6. QED
    BY <1>1, <1>4, <1>5 DEF HeaderInv, SignedShape, WaitingWasTimely, HeaderOnce

\* The invariant is inductive.
LEMMA NextHeader == HeaderInv /\ [Next]_vars => HeaderInv'
  <1> SUFFICES ASSUME HeaderInv, [Next]_vars PROVE HeaderInv'
    OBVIOUS
  <1>1. CASE \E a \in Admins : Command(a)
    BY <1>1, HeaderFrame
       DEF Command, InitCa, IssueCert, RevokeCert, WriteCrt, WriteKey, WriteKilled, LockAndLoad,
           SaveIssued, SaveRevoked, Bails, Ends, hubState
  <1>2. CASE HubStart \/ Reload \/ \E m \in Machines : LinkDown(m)
    BY <1>2, HeaderFrame DEF HubStart, Reload, LinkDown, hubState
  <1>3. CASE HubStop
    <2>1. /\ replay' = Empty /\ upgrade' = [u \in Upgrades |-> None]
          /\ admitted' = [h \in Headers |-> <<>>] /\ UNCHANGED <<header, now>>
      BY <1>3 DEF HubStop
    <2>2. admitted' \in [Headers -> Seq(AdmissionType)] /\ \A h \in Headers : DOMAIN admitted'[h] = {}
      BY <2>1, EmptySeq
    <2>3. QED
      BY <2>1, <2>2
         DEF Empty, HeaderInv, SignedShape, WaitingWasTimely, CacheSound, OnceOrStale, HeaderOnce
  <1>4. CASE ReplayGc
    BY <1>4, GcKeepsHeaders
  <1>5. ASSUME NEW o \in Outs, TlsHandshake(o) PROVE HeaderInv'
    BY <1>5, HeaderFrame DEF TlsHandshake, hubState
  <1>6. ASSUME NEW o \in Outs, NEW h \in Headers, NEW d \in Ahead, SignHeader(h, o, d) PROVE HeaderInv'
    BY <1>6, SignKeepsHeaders
  <1>7. ASSUME NEW u \in Upgrades, FinishUpgrade(u) \/ \E h \in Headers : CheckUpgrade(u, h) PROVE HeaderInv'
    BY <1>7, FinishKeepsHeaders, CheckKeepsHeaders
  <1>8. CASE Tick
    BY <1>8, TickKeepsHeaders
  <1>9. CASE UNCHANGED vars
    BY <1>9, HeaderFrame DEF vars, hubState
  <1>10. QED
    BY <1>1, <1>2, <1>3, <1>4, <1>5, <1>6, <1>7, <1>8, <1>9 DEF Next

\* A signed header gets its agent in at most once in the life of a hub process,
\* for any skew window, any clocks and any delay, but for the two cases that
\* HeaderOnce names: gc_ws_replay forgets a nonce whose timestamp was not ahead
\* by the whole skew only when the timestamp is refused for good.
THEOREM HeadersAreUsedOnce == Spec => []HeaderOnce
  <1>1. HeaderInv => HeaderOnce
    BY DEF HeaderInv, OnceOrStale, HeaderOnce
  <1>2. QED
    BY <1>1, InitHeader, NextHeader, PTL DEF Spec

-----------------------------------------------------------------------------
(* The agent's connections and the tasks of their streams.                 *)

\* The hub numbers the streams of a connection: two that are both listened to
\* have different ids, and the next id is above all of them.
StreamIdsApart ==
  \A t \in Tasks : Listening(t) =>
    /\ connOf[t] = conn => sidOf[t] < nextSid
    /\ \A u \in Tasks :
         Listening(u) /\ u # t /\ connOf[u] = connOf[t] => sidOf[u] # sidOf[t]

ConnInv ==
  /\ TypeOK
  /\ AttachmentsBacked
  /\ NoStreamForgotten
  /\ StreamIdsApart

\* No stream is there at the start.
LEMMA ConnStarts ==
  ASSUME ConnInit
  PROVE  ConnInv
  BY ConnAssumption DEF ConnInit, ConnInv, TypeOK, AttachmentsBacked,
         NoStreamForgotten, StreamIdsApart, Listening, Pumping,
         Subscribed, Sessions

\* A task by its place, and the same for the next state: the places a task can
\* be at are told apart by at alone.
LEMMA PlaceOf ==
  ASSUME NEW t
  PROVE  /\ Listening(t) <=> at[t] \in {"open", "attach", "replay", "pump", "typing"}
         /\ Subscribed(t) <=> at[t] \in {"replay", "pump", "typing"}
         /\ Listening(t)' <=> at'[t] \in {"open", "attach", "replay", "pump", "typing"}
         /\ Subscribed(t)' <=> at'[t] \in {"replay", "pump", "typing"}
         /\ Attachment(t) = <<sess[t], sidOf[t]>>
         /\ Attachment(t)' = <<sess'[t], sidOf'[t]>>
  BY DEF Listening, Subscribed, Pumping, Attachment

\* A step that leaves tasks and stream ids alone disturbs nothing about them,
\* unless it ends the reading of a connection's frames or brings one up.
LEMMA QuietStep ==
  ASSUME ConnInv,
         UNCHANGED <<at, connOf, sidOf, sess, attached, over, conn, nextSid>>,
         phase \in {"up", "clear"} => phase' \in {"up", "clear"}
  PROVE  /\ AttachmentsBacked'
         /\ NoStreamForgotten'
         /\ StreamIdsApart'
  <1>1. \A t : /\ Listening(t)' <=> Listening(t)
               /\ Subscribed(t)' <=> Subscribed(t)
               /\ Attachment(t)' = Attachment(t)
    BY PlaceOf
  <1>2. AttachmentsBacked'
    BY <1>1 DEF ConnInv, AttachmentsBacked
  <1>3. NoStreamForgotten'
    BY <1>1 DEF ConnInv, NoStreamForgotten
  <1>4. StreamIdsApart'
    BY <1>1 DEF ConnInv, StreamIdsApart
  <1>5. QED
    BY <1>2, <1>3, <1>4

\* A task that goes on, or stops listening, keeps its id; nobody else moves.
LEMMA MovesApart ==
  ASSUME ConnInv, NEW t \in Tasks, NEW p,
         at' = [at EXCEPT ![t] = p],
         p \in {"open", "attach", "replay", "pump", "typing"} => Listening(t),
         UNCHANGED <<connOf, sidOf, conn, nextSid>>
  PROVE  StreamIdsApart'
  BY PlaceOf DEF ConnInv, StreamIdsApart, TypeOK

\* Tasks that listen in the next state listen in this one, and none of them
\* lost the end of its input.
LEMMA MovesRemembered ==
  ASSUME ConnInv, NEW t \in Tasks, NEW p,
         at' = [at EXCEPT ![t] = p],
         p \in {"open", "attach", "replay", "pump", "typing"} => Listening(t) /\ over' = over,
         over \ {t} \subseteq over',
         UNCHANGED <<connOf, conn, phase>>
  PROVE  NoStreamForgotten'
  BY PlaceOf DEF ConnInv, NoStreamForgotten, TypeOK

\* A task that has subscribed and goes on keeps what it attached.
LEMMA MovesBacked ==
  ASSUME ConnInv, NEW t \in Tasks, NEW p,
         at' = [at EXCEPT ![t] = p],
         Subscribed(t) => p \in {"replay", "pump", "typing"},
         UNCHANGED <<sidOf, attached>>,
         \A u \in Tasks : Subscribed(u) => sess'[u] = sess[u]
  PROVE  AttachmentsBacked'
  <1> SUFFICES ASSUME NEW a \in attached
               PROVE  \E u \in Tasks : Attachment(u)' = a /\ Subscribed(u)'
    BY DEF AttachmentsBacked
  <1>1. PICK u \in Tasks : Attachment(u) = a /\ Subscribed(u)
    BY DEF ConnInv, AttachmentsBacked
  <1>2. Attachment(u)' = a
    BY <1>1, PlaceOf
  <1>3. Subscribed(u)'
    BY <1>1, PlaceOf DEF ConnInv, TypeOK
  <1>4. QED
    BY <1>2, <1>3

\* A task that leaves takes its own pair out of attached; whatever other pair
\* is left is backed by another task.
LEMMA LeaveBacked ==
  ASSUME ConnInv, NEW t \in Tasks,
         Leave(t), UNCHANGED <<sidOf, sess>>
  PROVE  AttachmentsBacked'
  <1> SUFFICES ASSUME NEW a \in attached, a # Attachment(t)
               PROVE  \E u \in Tasks : Attachment(u)' = a /\ Subscribed(u)'
    BY DEF AttachmentsBacked, Leave
  <1>1. PICK u \in Tasks : Attachment(u) = a /\ Subscribed(u)
    BY DEF ConnInv, AttachmentsBacked
  <1>2. Attachment(u)' = a
    BY <1>1, PlaceOf
  <1>3. Subscribed(u)'
    BY <1>1, PlaceOf DEF ConnInv, TypeOK, Leave, StopsListening
  <1>4. QED
    BY <1>2, <1>3

\* The loop of main and the writer task: they touch no stream task, except
\* that the teardown drops the senders of the tasks that listen.
LEMMA LoopStep ==
  ASSUME ConnInv,
         \/ Connect \/ DialFails \/ BackoffEnds \/ NetLost
         \/ Pings \/ ReaderEnds \/ ClearStreams \/ JoinWriter
         \/ WriterStep
  PROVE  ConnInv'
  <1> USE DEF wire, writer, tasks, sessions
  <1>1. CASE Connect
    <2>1. \A t : /\ Listening(t)' <=> Listening(t)
                 /\ Subscribed(t)' <=> Subscribed(t)
                 /\ Attachment(t)' = Attachment(t)
      BY <1>1, PlaceOf DEF Connect
    <2>2. \A t \in Tasks : connOf'[t] \in 0..conn /\ connOf'[t] # conn'
      BY <1>1 DEF Connect, ConnInv, TypeOK
    <2>3. TypeOK'
      BY ConnAssumption, <1>1, <2>1, <2>2 DEF Connect, ConnInv, TypeOK, Sessions
    <2>4. AttachmentsBacked'
      BY <1>1, <2>1 DEF Connect, ConnInv, AttachmentsBacked
    <2>5. NoStreamForgotten'
      BY <1>1, <2>1 DEF Connect, ConnInv, NoStreamForgotten
    <2>6. StreamIdsApart'
      BY <1>1, <2>1, <2>2 DEF Connect, ConnInv, StreamIdsApart
    <2>7. QED
      BY <2>3, <2>4, <2>5, <2>6 DEF ConnInv
  <1>2. CASE ClearStreams
    <2>1. \A t : /\ Listening(t)' <=> Listening(t)
                 /\ Subscribed(t)' <=> Subscribed(t)
                 /\ Attachment(t)' = Attachment(t)
      BY <1>2, PlaceOf DEF ClearStreams
    <2>2. TypeOK'
      BY <1>2, <2>1 DEF ClearStreams, ConnInv, TypeOK, Sessions
    <2>3. AttachmentsBacked'
      BY <1>2, <2>1 DEF ClearStreams, ConnInv, AttachmentsBacked
    <2>4. NoStreamForgotten'
      BY <1>2, <2>1 DEF ClearStreams, ConnInv, NoStreamForgotten
    <2>5. StreamIdsApart'
      BY <1>2, <2>1 DEF ClearStreams, ConnInv, StreamIdsApart
    <2>6. QED
      BY <2>2, <2>3, <2>4, <2>5 DEF ConnInv
  <1>3. ASSUME \/ DialFails \/ BackoffEnds \/ NetLost
               \/ Pings \/ ReaderEnds \/ JoinWriter
               \/ WriterStep
        PROVE  ConnInv'
    <2> USE DEF DialFails, BackoffEnds, NetLost, Pings, ReaderEnds,
                JoinWriter, WriterStep, WriterTakes, WriterSent,
                WriterFails, WriterDone, Send, WriterGone
    <2>1. /\ UNCHANGED <<at, connOf, sidOf, sess, attached, over, conn, nextSid>>
          /\ UNCHANGED <<input, told, shells>>
      BY <1>3
    <2>2. /\ phase \in {"up", "clear"} => phase' \in {"up", "clear"}
          /\ phase' \in {"dial", "up", "clear", "join", "sleep"}
          /\ net' \in {"up", "lost"}
          /\ wtask' \in {"recv", "send", "ended"}
      BY <1>3 DEF ConnInv, TypeOK
    <2>3. out' \in 0..HubCap
      BY ConnAssumption, <1>3 DEF ConnInv, TypeOK
    <2>4. \A t : Subscribed(t)' <=> Subscribed(t)
      BY <2>1, PlaceOf
    <2>5. TypeOK'
      BY <2>1, <2>2, <2>3, <2>4 DEF ConnInv, TypeOK, Sessions
    <2>6. QED
      BY <2>1, <2>2, <2>5, QuietStep DEF ConnInv
  <1>4. QED
    BY <1>1, <1>2, <1>3

\* The reader loop starts a task under an id that no stream of the connection
\* has, and routes frames to tasks that listen.
LEMMA HubStep ==
  ASSUME ConnInv, NEW t \in Tasks,
         \/ HubAsks(t) \/ HubOpens(t) \/ HubSends(t) \/ HubCloses(t)
  PROVE  ConnInv'
  <1> USE DEF wire, writer, tasks, sessions
  <1>1. CASE HubAsks(t)
    <2>1. \A u \in Tasks : /\ Listening(u)' => Listening(u) /\ u # t
                           /\ Subscribed(u)' <=> Subscribed(u)
                           /\ Attachment(u)' = Attachment(u)
      BY <1>1, PlaceOf DEF HubAsks, ConnInv, TypeOK
    <2>2. TypeOK'
      BY <1>1, <2>1, PlaceOf DEF HubAsks, ConnInv, TypeOK, Sessions
    <2>3. AttachmentsBacked'
      BY <1>1, <2>1 DEF HubAsks, ConnInv, AttachmentsBacked
    <2>4. NoStreamForgotten'
      BY <1>1, <2>1 DEF HubAsks, ConnInv, NoStreamForgotten, TypeOK
    <2>5. StreamIdsApart'
      BY <1>1, <2>1 DEF HubAsks, ConnInv, StreamIdsApart, TypeOK
    <2>6. QED
      BY <2>2, <2>3, <2>4, <2>5 DEF ConnInv
  <1>2. CASE HubOpens(t)
    <2>1. \A u \in Tasks : /\ Listening(u)' => Listening(u) \/ u = t
                           /\ Subscribed(u) => u # t
                           /\ Subscribed(u)' <=> Subscribed(u)
                           /\ u # t => connOf'[u] = connOf[u] /\ sidOf'[u] = sidOf[u]
                           /\ u # t => Attachment(u)' = Attachment(u)
      BY <1>2, PlaceOf DEF HubOpens, ConnInv, TypeOK
    <2>2. connOf'[t] = conn /\ sidOf'[t] = nextSid /\ phase' = "up"
      BY <1>2 DEF HubOpens, Reading, ConnInv, TypeOK
    <2>3. TypeOK'
      BY <1>2, <2>1, PlaceOf DEF HubOpens, ConnInv, TypeOK, Sessions
    <2>4. AttachmentsBacked'
      BY <1>2, <2>1 DEF HubOpens, ConnInv, AttachmentsBacked
    <2>5. NoStreamForgotten'
      BY <1>2, <2>1, <2>2 DEF HubOpens, ConnInv, NoStreamForgotten
    <2>6. StreamIdsApart'
      BY <1>2, <2>1, <2>2 DEF HubOpens, ConnInv, StreamIdsApart, TypeOK
    <2>7. QED
      BY <2>3, <2>4, <2>5, <2>6 DEF ConnInv
  <1>3. ASSUME HubSends(t) \/ HubCloses(t)
        PROVE  ConnInv'
    <2>1. /\ UNCHANGED <<phase, conn, net, nextSid, wtask, out, at, connOf, sidOf>>
          /\ UNCHANGED <<told, sess, shells, attached>>
          /\ over \subseteq over' /\ over' \subseteq over \cup {t}
      BY <1>3 DEF HubSends, HubCloses
    <2>2. input' \in [Tasks -> 0..StreamCap]
      <3>1. input \in [Tasks -> 0..StreamCap]
        BY DEF ConnInv, TypeOK
      <3>2. CASE HubSends(t)
        <4>1. input' = input \/ (input[t] < StreamCap /\ input' = [input EXCEPT ![t] = @ + 1])
          BY <3>2 DEF HubSends
        <4>2. input[t] < StreamCap => input[t] + 1 \in 0..StreamCap
          BY ConnAssumption, <3>1
        <4>3. QED
          BY <3>1, <4>1, <4>2
      <3>3. CASE HubCloses(t)
        <4>1. PICK n \in 0..input[t] : input' = [input EXCEPT ![t] = n]
          BY <3>3 DEF HubCloses
        <4>2. n \in 0..StreamCap
          BY ConnAssumption, <3>1, <4>1
        <4>3. QED
          BY <3>1, <4>1, <4>2
      <3>4. QED
        BY <1>3, <3>2, <3>3
    <2>3. \A u : /\ Listening(u)' <=> Listening(u)
                 /\ Subscribed(u)' <=> Subscribed(u)
                 /\ Attachment(u)' = Attachment(u)
      BY <2>1, PlaceOf
    <2>4. TypeOK'
      BY <2>1, <2>2, <2>3 DEF ConnInv, TypeOK, Sessions
    <2>5. AttachmentsBacked'
      BY <2>1, <2>3 DEF ConnInv, AttachmentsBacked
    <2>6. NoStreamForgotten'
      BY <2>1, <2>3 DEF ConnInv, NoStreamForgotten
    <2>7. StreamIdsApart'
      BY <2>1, <2>3 DEF ConnInv, StreamIdsApart
    <2>8. QED
      BY <2>4, <2>5, <2>6, <2>7 DEF ConnInv
  <1>4. QED
    BY <1>1, <1>2, <1>3

\* Output to the hub keeps its queue within the budget.
LEMMA SendInBudget ==
  ASSUME ConnInv, NEW c, Send(c)
  PROVE  out' \in 0..HubCap
  BY ConnAssumption DEF ConnInv, TypeOK, Send

\* A task that stops listening or goes on keeps the types: its session is one
\* of the sessions spawned, and only tasks that have subscribed are told.
LEMMA MovesTyped ==
  ASSUME ConnInv, NEW t \in Tasks,
         NEW p \in {"replay", "pump", "typing", "close", "gone"},
         at' = [at EXCEPT ![t] = p],
         UNCHANGED <<phase, conn, net, nextSid, wtask, connOf, sidOf, sess, shells>>,
         out' \in 0..HubCap, input' \in [Tasks -> 0..StreamCap], over' \subseteq over,
         told' \subseteq told,
         p \in {"close", "gone"} => t \notin told',
         p \in {"replay", "pump", "typing"} => sess[t] # 0,
         attached' \subseteq attached \cup {Attachment(t)},
         sess[t] = 0 => attached' = attached
  PROVE  TypeOK'
  <1>1. at' \in [Tasks -> {"none", "open", "attach", "replay", "pump", "typing", "close", "gone"}]
    BY DEF ConnInv, TypeOK
  <1>2. told' \subseteq {u \in Tasks : Subscribed(u)'}
    BY PlaceOf DEF ConnInv, TypeOK
  <1>3. \A u \in Tasks : at'[u] = "attach" \/ Subscribed(u)' => sess'[u] # 0
    BY PlaceOf DEF ConnInv, TypeOK
  <1>4. attached' \subseteq Sessions' \X Nat
    <2>1. Sessions' = Sessions
      BY DEF Sessions
    <2>2. sess[t] # 0 => Attachment(t) \in Sessions \X Nat
      BY PlaceOf DEF ConnInv, TypeOK
    <2>3. QED
      BY <2>1, <2>2 DEF ConnInv, TypeOK
  <1>5. QED
    BY <1>1, <1>2, <1>3, <1>4 DEF ConnInv, TypeOK, Sessions

\* lookup_or_spawn gives the task a session that has been spawned.
LEMMA LookupStep ==
  ASSUME ConnInv, NEW t \in Tasks, Lookup(t)
  PROVE  ConnInv'
  <1> USE DEF Lookup, Goes, StreamOnly, wire
  <1>1. at[t] = "open" /\ at' = [at EXCEPT ![t] = "attach"] /\ Listening(t) /\ ~Subscribed(t)
    BY PlaceOf
  <1>2. \A u \in Tasks : u # t => sess'[u] = sess[u]
    BY DEF ConnInv, TypeOK
  <1>3. /\ shells' \in Seq({"running", "dead", "exited"})
        /\ Len(shells') <= MaxShells
        /\ Len(shells) <= Len(shells')
        /\ sess'[t] \in 1..Len(shells')
    <2> DEFINE n == Len(shells)
    <2>1. n \in Nat /\ shells \in Seq({"running", "dead", "exited"}) /\ t \in DOMAIN sess
      BY LenProperties DEF ConnInv, TypeOK
    <2>2. CASE n > 0 /\ sess' = [sess EXCEPT ![t] = n] /\ UNCHANGED shells
      BY <2>1, <2>2 DEF ConnInv, TypeOK
    <2>3. CASE n < MaxShells /\ sess' = [sess EXCEPT ![t] = n + 1] /\ shells' = Append(shells, "running")
      <3>1. shells' \in Seq({"running", "dead", "exited"}) /\ Len(shells') = n + 1
        BY <2>1, <2>3, AppendProperties
      <3>2. QED
        BY ConnAssumption, <2>1, <2>3, <3>1
    <2>4. QED
      BY <2>2, <2>3
  <1>4. DOMAIN shells = 1..Len(shells) /\ DOMAIN shells' = 1..Len(shells') /\ Len(shells) \in Nat /\ Len(shells') \in Nat
    BY <1>3, LenProperties DEF ConnInv, TypeOK
  <1>5. Sessions \subseteq Sessions' /\ sess'[t] \in Sessions' /\ sess'[t] # 0
    <2> HIDE DEF Lookup
    <2> QED
      BY <1>3, <1>4 DEF Sessions
  <1>6. sess' \in [Tasks -> {0} \cup Sessions']
    BY <1>2, <1>5 DEF ConnInv, TypeOK
  <1>7. at' \in [Tasks -> {"none", "open", "attach", "replay", "pump", "typing", "close", "gone"}]
    BY <1>1 DEF ConnInv, TypeOK
  <1>8. told' \subseteq {u \in Tasks : Subscribed(u)'}
    BY <1>1, PlaceOf DEF ConnInv, TypeOK
  <1>9. \A u \in Tasks : at'[u] = "attach" \/ Subscribed(u)' => sess'[u] # 0
    BY <1>1, <1>2, <1>5, PlaceOf DEF ConnInv, TypeOK
  <1>10. TypeOK'
    BY <1>3, <1>5, <1>6, <1>7, <1>8, <1>9 DEF ConnInv, TypeOK
  <1>11. AttachmentsBacked'
    <2>1. \A u \in Tasks : Subscribed(u) => sess'[u] = sess[u]
      BY <1>1, <1>2
    <2>2. UNCHANGED <<sidOf, attached>>
      OBVIOUS
    <2>3. QED
      BY <1>1, <2>1, <2>2, MovesBacked
  <1>12. NoStreamForgotten'
    BY <1>1, MovesRemembered
  <1>13. StreamIdsApart'
    BY <1>1, MovesApart
  <1>14. QED
    BY <1>10, <1>11, <1>12, <1>13 DEF ConnInv

\* A stream that is refused stops listening; it has attached nothing.
LEMMA RefusedStep ==
  ASSUME ConnInv, NEW t \in Tasks, Refused(t)
  PROVE  ConnInv'
  <1> USE DEF Refused, StopsListening, StreamOnly, wire, sessions
  <1>1. at' = [at EXCEPT ![t] = "close"] /\ ~Subscribed(t)
    BY PlaceOf
  <1>2. out' \in 0..HubCap
    BY SendInBudget
  <1>3. input' \in [Tasks -> 0..StreamCap]
    BY ConnAssumption DEF ConnInv, TypeOK
  <1>4. TypeOK'
    BY <1>1, <1>2, <1>3, MovesTyped
  <1>5. AttachmentsBacked'
    BY <1>1, MovesBacked
  <1>6. NoStreamForgotten'
    BY <1>1, MovesRemembered
  <1>7. StreamIdsApart'
    BY <1>1, MovesApart
  <1>8. QED
    BY <1>4, <1>5, <1>6, <1>7 DEF ConnInv

\* The pair that a task attaches is backed by the task itself.
LEMMA AttachStep ==
  ASSUME ConnInv, NEW t \in Tasks, Attach(t)
  PROVE  ConnInv'
  <1> USE DEF Attach, Goes, StreamOnly, wire
  <1>1. /\ at[t] = "attach" /\ at' = [at EXCEPT ![t] = "replay"]
        /\ Listening(t) /\ ~Subscribed(t)
    BY PlaceOf
  <1>2. sess[t] # 0 /\ out' \in 0..HubCap /\ input' \in [Tasks -> 0..StreamCap]
    BY <1>1 DEF ConnInv, TypeOK
  <1>3. TypeOK'
    BY <1>1, <1>2, MovesTyped
  <1>4. AttachmentsBacked'
    <2>1. Attachment(t)' = Attachment(t) /\ Subscribed(t)'
      BY <1>1, PlaceOf DEF ConnInv, TypeOK
    <2>2. ASSUME NEW a \in attached
          PROVE  \E u \in Tasks : Attachment(u)' = a /\ Subscribed(u)'
      <3>1. PICK u \in Tasks : Attachment(u) = a /\ Subscribed(u)
        BY DEF ConnInv, AttachmentsBacked
      <3>2. Attachment(u)' = a /\ Subscribed(u)'
        BY <1>1, <3>1, PlaceOf DEF ConnInv, TypeOK
      <3>3. QED
        BY <3>2
    <2>3. QED
      BY <2>1, <2>2 DEF AttachmentsBacked
  <1>5. NoStreamForgotten'
    BY <1>1, MovesRemembered
  <1>6. StreamIdsApart'
    BY <1>1, MovesApart
  <1>7. QED
    BY <1>3, <1>4, <1>5, <1>6 DEF ConnInv

\* The pump, without its end: a task that has subscribed stays subscribed.
LEMMA PumpStep ==
  ASSUME ConnInv, NEW t \in Tasks,
         Replay(t) \/ TakeFrame(t) \/ Typed(t)
  PROVE  ConnInv'
  <1> USE DEF Replay, TakeFrame, Typed, Goes, StreamOnly,
              wire, sessions
  <1>1. /\ at[t] \in {"replay", "pump", "typing"}
        /\ \E p \in {"pump", "typing"} : at' = [at EXCEPT ![t] = p]
        /\ UNCHANGED <<phase, conn, net, nextSid, wtask, connOf, sidOf, sess, shells>>
        /\ UNCHANGED <<over, told, attached>>
    OBVIOUS
  <1>2. PICK p \in {"pump", "typing"} : at' = [at EXCEPT ![t] = p]
    BY <1>1
  <1>3. Listening(t) /\ Subscribed(t) /\ sess[t] # 0
    BY <1>1, PlaceOf DEF ConnInv, TypeOK
  <1>4. out' \in 0..HubCap
    BY SendInBudget DEF ConnInv, TypeOK
  <1>5. input' \in [Tasks -> 0..StreamCap]
    <2>1. \/ UNCHANGED input
          \/ input[t] > 0 /\ input' = [input EXCEPT ![t] = @ - 1]
      OBVIOUS
    <2> HIDE DEF Replay, TakeFrame, Typed
    <2>2. input \in [Tasks -> 0..StreamCap] /\ StreamCap \in Nat
      BY ConnAssumption DEF ConnInv, TypeOK
    <2>3. QED
      BY <2>1, <2>2
  <1> HIDE DEF Replay, TakeFrame, Typed
  <1>6. TypeOK'
    BY <1>1, <1>2, <1>3, <1>4, <1>5, MovesTyped
  <1>7. AttachmentsBacked'
    BY <1>1, <1>2, MovesBacked
  <1>8. NoStreamForgotten'
    BY <1>1, <1>2, <1>3, MovesRemembered
  <1>9. StreamIdsApart'
    BY <1>1, <1>2, <1>3, MovesApart
  <1>10. QED
    BY <1>6, <1>7, <1>8, <1>9 DEF ConnInv

\* However the select! ends, the task detaches.
LEMMA LeaveStep ==
  ASSUME ConnInv, NEW t \in Tasks,
         EndOfInput(t) \/ OutboundFails(t) \/ OutboundClosed(t)
  PROVE  ConnInv'
  <1> USE DEF EndOfInput, OutboundFails, OutboundClosed, StreamOnly, wire
  <1>1. /\ Leave(t)
        /\ UNCHANGED <<phase, conn, net, nextSid, wtask, connOf, sidOf, sess, shells>>
    OBVIOUS
  <1>2. out' \in 0..HubCap
    BY SendInBudget DEF ConnInv, TypeOK
  <1> HIDE DEF EndOfInput, OutboundFails, OutboundClosed
  <1>3. /\ at' = [at EXCEPT ![t] = "close"]
        /\ over' = over \ {t} /\ told' = told \ {t}
        /\ attached' = attached \ {Attachment(t)}
    BY <1>1 DEF Leave, StopsListening
  <1>4. input' \in [Tasks -> 0..StreamCap]
    BY ConnAssumption, <1>1 DEF Leave, StopsListening, ConnInv, TypeOK
  <1>5. sess[t] = 0 => attached' = attached
    <2>1. sess[t] = 0 => Attachment(t) \notin attached
      BY PlaceOf, LenProperties DEF ConnInv, TypeOK, Sessions
    <2>2. QED
      BY <1>3, <2>1
  <1>6. TypeOK'
    BY <1>1, <1>2, <1>3, <1>4, <1>5, MovesTyped
  <1>7. AttachmentsBacked'
    BY <1>1, LeaveBacked
  <1>8. NoStreamForgotten'
    BY <1>1, <1>3, MovesRemembered
  <1>9. StreamIdsApart'
    BY <1>1, <1>3, MovesApart
  <1>10. QED
    BY <1>6, <1>7, <1>8, <1>9 DEF ConnInv

\* A task that is gone has no id and no session, and backs nothing.
LEMMA CloseStep ==
  ASSUME ConnInv, NEW t \in Tasks, CloseStream(t)
  PROVE  ConnInv'
  <1> USE DEF CloseStream, Goes, wire, sessions
  <1>1. at[t] = "close" /\ at' = [at EXCEPT ![t] = "gone"]
    OBVIOUS
  <1>2. out' \in 0..HubCap
    BY SendInBudget
  <1>3. /\ \A u \in Tasks : u # t =>
             /\ at'[u] = at[u] /\ sess'[u] = sess[u]
             /\ connOf'[u] = connOf[u] /\ sidOf'[u] = sidOf[u]
        /\ connOf' \in [Tasks -> 0..conn'] /\ sidOf' \in [Tasks -> Nat]
        /\ sess' \in [Tasks -> {0} \cup Sessions']
        /\ at' \in [Tasks -> {"none", "open", "attach", "replay", "pump", "typing", "close", "gone"}]
    BY DEF ConnInv, TypeOK, Sessions
  <1>4. /\ UNCHANGED <<phase, conn, net, nextSid, wtask, input, over, told, shells, attached>>
        /\ Sessions' = Sessions
    BY DEF Sessions
  <1> HIDE DEF CloseStream, Goes
  <1>5. \A u \in Tasks : /\ Listening(u)' <=> Listening(u)
                         /\ Subscribed(u)' <=> Subscribed(u)
                         /\ at'[u] = "attach" <=> at[u] = "attach"
                         /\ Listening(u) \/ Subscribed(u) \/ at[u] = "attach" => u # t
    BY <1>1, <1>3, PlaceOf DEF ConnInv, TypeOK
  <1>6. TypeOK'
    BY <1>2, <1>3, <1>4, <1>5 DEF ConnInv, TypeOK
  <1>7. AttachmentsBacked'
    <2>1. ASSUME NEW u \in Tasks, Subscribed(u)
          PROVE  Subscribed(u)' /\ Attachment(u)' = Attachment(u)
      <3>1. u # t /\ Subscribed(u)'
        BY <1>5, <2>1
      <3>2. sess'[u] = sess[u] /\ sidOf'[u] = sidOf[u]
        BY <1>3, <3>1
      <3>3. QED
        BY <3>1, <3>2, PlaceOf
    <2>2. QED
      BY <1>4, <2>1 DEF ConnInv, AttachmentsBacked
  <1>8. NoStreamForgotten'
    BY <1>3, <1>4, <1>5 DEF ConnInv, NoStreamForgotten
  <1>9. StreamIdsApart'
    BY <1>3, <1>4, <1>5 DEF ConnInv, StreamIdsApart
  <1>10. QED
    BY <1>6, <1>7, <1>8, <1>9 DEF ConnInv

\* Terminal output fills the queue to the hub and nothing else.
LEMMA OutputStep ==
  ASSUME ConnInv, NEW t \in Tasks, OutboundData(t)
  PROVE  ConnInv'
  <1> USE DEF OutboundData, StreamOnly, wire, sessions
  <1>1. /\ UNCHANGED <<at, connOf, sidOf, sess, attached, over, conn, nextSid>>
        /\ UNCHANGED <<phase, net, wtask, input, told, shells>>
    OBVIOUS
  <1>2. out' \in 0..HubCap
    BY SendInBudget
  <1>3. \A u : Subscribed(u)' <=> Subscribed(u)
    BY <1>1, PlaceOf
  <1>4. TypeOK'
    BY <1>1, <1>2, <1>3 DEF ConnInv, TypeOK, Sessions
  <1>5. QED
    BY <1>1, <1>4, QuietStep DEF ConnInv

\* A shell's end is told to those who have subscribed; attachments outlive it.
LEMMA ShellStep ==
  ASSUME ConnInv, NEW i \in Sessions,
         ShellDies(i) \/ SessionCloses(i)
  PROVE  ConnInv'
  <1> USE DEF ShellDies, SessionCloses, wire, writer, tasks
  <1>1. /\ UNCHANGED <<at, connOf, sidOf, sess, attached, over, conn, nextSid>>
        /\ UNCHANGED <<phase, net, wtask, out, input>>
    OBVIOUS
  <1>2. /\ \E st \in {"dead", "exited"} : shells' = [shells EXCEPT ![i] = st]
        /\ told' \subseteq told \cup {t \in Tasks : Subscribed(t)}
    OBVIOUS
  <1> HIDE DEF ShellDies, SessionCloses
  <1>3. /\ shells' \in Seq({"running", "dead", "exited"})
        /\ Len(shells') = Len(shells) /\ Sessions' = Sessions
    BY <1>2, LenProperties DEF ConnInv, TypeOK, Sessions
  <1>4. \A u : Subscribed(u)' <=> Subscribed(u)
    BY <1>1, PlaceOf
  <1>5. TypeOK'
    BY <1>1, <1>2, <1>3, <1>4 DEF ConnInv, TypeOK
  <1>6. QED
    BY <1>1, <1>5, QuietStep DEF ConnInv

\* Every step of the agent's connections keeps the invariant.
LEMMA ConnKeeps ==
  ASSUME ConnInv, [ConnNext]_connVars
  PROVE  ConnInv'
  <1>1. CASE UNCHANGED connVars
    <2>1. /\ UNCHANGED <<at, connOf, sidOf, sess, attached, over, conn, nextSid>>
          /\ UNCHANGED <<phase, net, wtask, out, input, told, shells>>
      BY <1>1 DEF connVars, wire, writer, tasks, sessions
    <2>2. \A u : Subscribed(u)' <=> Subscribed(u)
      BY <2>1, PlaceOf
    <2>3. TypeOK'
      BY <2>1, <2>2 DEF ConnInv, TypeOK, Sessions
    <2>4. QED
      BY <2>1, <2>3, QuietStep DEF ConnInv
  <1>2. CASE ConnNext
    BY <1>2, LoopStep, HubStep, LookupStep, RefusedStep, AttachStep, PumpStep, LeaveStep,
       CloseStep, OutputStep, ShellStep
    DEF ConnNext, StreamStep
  <1>3. QED
    BY <1>1, <1>2

\* The inductive invariant of the agent's connections.
THEOREM ConnInvariant == ConnSpec => []ConnInv
  <1>1. ConnInit => ConnInv
    BY ConnStarts
  <1>2. ConnInv /\ [ConnNext]_connVars => ConnInv'
    BY ConnKeeps
  <1>3. QED
    BY <1>1, <1>2, PTL DEF ConnSpec

\* Types, the budget of the queue to the hub and the limit of every stream's
\* input channel, for any number of streams and connections.
THEOREM ConnTypes == ConnSpec => []TypeOK
  <1>1. ConnInv => TypeOK
    BY DEF ConnInv
  <1>2. QED
    BY <1>1, ConnInvariant, PTL

\* No stream id is left in a session's attached set without a task of
\* run_session_stream that will detach it.
THEOREM NoAttachmentLeaks == ConnSpec => []AttachmentsBacked
  <1>1. ConnInv => AttachmentsBacked
    BY DEF ConnInv
  <1>2. QED
    BY <1>1, ConnInvariant, PTL

\* No stream of a connection that run_session has torn down, now or before any
\* number of reconnects, still has an input channel that stays open.
THEOREM TeardownReachesAll == ConnSpec => []NoStreamForgotten
  <1>1. ConnInv => NoStreamForgotten
    BY DEF ConnInv
  <1>2. QED
    BY <1>1, ConnInvariant, PTL

\* The pairs of attached are taken out by the end of a select! only.
LEMMA OnlyLeaveDetaches ==
  ASSUME ConnInv, ConnNext, NEW a, a \in attached, a \notin attached'
  PROVE  \E t \in Tasks :
           /\ EndOfInput(t) \/ OutboundFails(t) \/ OutboundClosed(t)
           /\ Attachment(t) = a
  <1>1. PICK t \in Tasks : EndOfInput(t) \/ OutboundFails(t) \/ OutboundClosed(t)
    BY DEF ConnNext, Connect, DialFails, BackoffEnds, NetLost, Pings,
           ReaderEnds, ClearStreams, JoinWriter, WriterStep,
           WriterTakes, WriterSent, WriterFails, WriterDone,
           HubAsks, HubOpens, HubSends, HubCloses, StreamStep,
           Lookup, Refused, Attach, Replay, TakeFrame,
           CloseStream, Typed, OutboundData, ShellDies,
           SessionCloses, sessions
  <1>2. attached' = attached \ {Attachment(t)}
    BY <1>1 DEF EndOfInput, OutboundFails, OutboundClosed, Leave
  <1>3. QED
    BY <1>1, <1>2

\* A stream that goes on is detached by nobody but a stream of another
\* connection under the same id, whatever the hub and the network do.
THEOREM NoDetachWithinConnection == ConnSpec => DetachedOnlyByReuse
  <1> DEFINE Taken(u) == /\ Subscribed(u) /\ Subscribed(u)'
                         /\ Attachment(u) \in attached /\ Attachment(u) \notin attached'
             Reused(u) == \E t \in Tasks : DetachesFor(t, u) /\ connOf[t] # connOf[u]
  <1>1. ASSUME ConnInv, [ConnNext]_connVars, NEW u \in Tasks, Taken(u)
        PROVE  Reused(u)
    <2>1. ConnNext
      BY <1>1 DEF connVars, sessions
    <2>2. PICK t \in Tasks :
            /\ EndOfInput(t) \/ OutboundFails(t) \/ OutboundClosed(t)
            /\ Attachment(t) = Attachment(u)
      BY <1>1, <2>1, OnlyLeaveDetaches
    <2>3. Subscribed(t) /\ at' = [at EXCEPT ![t] = "close"]
      BY <2>2, PlaceOf DEF EndOfInput, OutboundFails, OutboundClosed,
         Leave, StopsListening, Pumping
    <2>4. ~Subscribed(t)' /\ t # u /\ Listening(t) /\ Listening(u)
      BY <1>1, <2>3, PlaceOf DEF ConnInv, TypeOK
    <2>5. sidOf[t] = sidOf[u]
      BY <2>2, PlaceOf
    <2>6. connOf[t] # connOf[u]
      BY <1>1, <2>4, <2>5 DEF ConnInv, StreamIdsApart
    <2>7. QED
      BY <2>2, <2>3, <2>4, <2>6 DEF DetachesFor
  <1>2. ConnInv /\ [ConnNext]_connVars => [\A u \in Tasks : Taken(u) => Reused(u)]_connVars
    BY <1>1
  <1>3. QED
    BY <1>2, ConnInvariant, PTL DEF ConnSpec, DetachedOnlyByReuse

=============================================================================
