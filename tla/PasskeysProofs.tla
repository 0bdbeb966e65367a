--------------------------- MODULE PasskeysProofs ---------------------------
(***************************************************************************)
(* The credential store under its lock file, proved for any number of      *)
(* credentials, login requests and hub-admin processes; then the counters  *)
(* of the authenticators, and the nonces that buy a token.                 *)
(***************************************************************************)
EXTENDS Passkeys, FiniteSetTheorems, TLAPS

\* The lock is held by a writer between its load and its save, and by no other.
LockHeldByWriter == \A w \in Writers : pc[w] = "save" <=> lock = w

\* The copy of a writer between its load and its save still is what the file
\* says: nobody else can have saved in between.
CopyCurrent == \A w \in Writers : pc[w] = "save" => copy[w] = file

\* The shape the proofs need of the store: functions over known credentials.
StoreShape ==
  /\ DOMAIN file \subseteq Creds /\ file = [c \in DOMAIN file |-> file[c]]
  /\ copy = [w \in Writers |-> copy[w]]
  /\ pc = [w \in Writers |-> pc[w]]
  /\ command = [a \in Admins |-> command[a]]
  /\ \A a \in Admins : pc[a] \in {"lock", "save"} => command[a] \in Commands
  /\ lock \in Writers \cup {None}

\* The inductive invariant.  CopyCurrent is the strengthening: without it a
\* save could put back what another writer had removed, and it is preserved
\* only because LockHeldByWriter lets one writer at a time into "save".
StoreInv ==
  /\ StoreShape
  /\ LockHeldByWriter
  /\ CopyCurrent
  /\ StoreMatchesAdmin

\* A writer is a login request or a hub-admin process, never both, never None.
LEMMA WritersDisjoint ==
  /\ Posts \subseteq Writers /\ Admins \subseteq Writers
  /\ Posts \cap Admins = {} /\ None \notin Writers
  BY PasskeyAssumption DEF Writers

\* The lock is free and nobody is in the middle of a save when the hub starts.
LEMMA InitStore == Init => StoreInv
  <1> SUFFICES ASSUME Init
               PROVE  StoreInv
    OBVIOUS
  <1>1. StoreShape
    BY PasskeyAssumption, WritersDisjoint DEF Init, StoreShape
  <1>2. LockHeldByWriter /\ CopyCurrent /\ StoreMatchesAdmin
    BY WritersDisjoint DEF Init, LockHeldByWriter, CopyCurrent, StoreMatchesAdmin
  <1>3. QED
    BY <1>1, <1>2 DEF StoreInv

\* A step that leaves the store, the lock and the program counters of the
\* writers alone keeps the invariant.
LEMMA StoreFrame ==
  ASSUME StoreInv, UNCHANGED <<file, lock, copy, admitted, pc, command>>
  PROVE  StoreInv'
  BY DEF StoreInv, StoreShape, LockHeldByWriter, CopyCurrent, StoreMatchesAdmin

\* A writer that moves between two places outside "save" keeps the invariant.
LEMMA MoveFrame ==
  ASSUME StoreInv, NEW w \in Writers, NEW to,
         pc[w] # "save", to # "save", w \in Admins => to \notin {"lock", "save"},
         pc' = [pc EXCEPT ![w] = to],
         UNCHANGED <<file, lock, copy, admitted, command>>
  PROVE  StoreInv'
  BY DEF StoreInv, StoreShape, LockHeldByWriter, CopyCurrent, StoreMatchesAdmin

\* A writer that leaves "save", or gives up waiting for the lock, with the
\* file as it is.
LEMMA LeaveFrame ==
  ASSUME StoreInv, NEW w \in Writers,
         pc[w] \in {"lock", "save"}, pc'[w] \notin {"lock", "save"},
         pc' = [pc EXCEPT ![w] = pc'[w]], Release(w),
         command' = [a \in Admins |-> command'[a]],
         \A a \in Admins : a # w => command'[a] = command[a],
         file' = file, admitted' = admitted
  PROVE  StoreInv'
  <1> USE WritersDisjoint DEF StoreInv, LockHeldByWriter, CopyCurrent, StoreMatchesAdmin, Release
  <1>1. StoreShape'
    BY DEF StoreShape
  <1>2. LockHeldByWriter'
    BY DEF StoreShape
  <1>3. CopyCurrent' /\ StoreMatchesAdmin'
    BY DEF StoreShape
  <1>4. QED
    BY <1>1, <1>2, <1>3

\* A writer that replaces the file from its copy and unlocks.
LEMMA SaveFrame ==
  ASSUME StoreInv, NEW w \in Writers, NEW to,
         pc[w] = "save", to \notin {"lock", "save"},
         pc' = [pc EXCEPT ![w] = to], Release(w),
         command' = [a \in Admins |-> command'[a]],
         \A a \in Admins : a # w => command'[a] = command[a],
         DOMAIN file' \subseteq Creds, file' = [c \in DOMAIN file' |-> file'[c]],
         DOMAIN file' = admitted'
  PROVE  StoreInv'
  <1> USE WritersDisjoint DEF StoreInv, LockHeldByWriter, CopyCurrent, StoreMatchesAdmin, Release
  <1>1. lock = w /\ \A v \in Writers : v # w => pc[v] # "save"
    OBVIOUS
  <1>2. StoreShape'
    BY DEF StoreShape
  <1>3. LockHeldByWriter' /\ CopyCurrent' /\ StoreMatchesAdmin'
    BY <1>1 DEF StoreShape
  <1>4. QED
    BY <1>2, <1>3


\* The store a save writes differs from the file by the command's own change
\* only, because the copy it was computed from is the file.
LEMMA SaveEffects ==
  ASSUME StoreInv, NEW w \in Writers, pc[w] = "save"
  PROVE  /\ copy[w] = file
         /\ w \in Posts /\ SaveCounter(w) =>
               file' = file \/ StoreView!Bump(Assertion(w).cred)
         /\ w \in Posts /\ SaveCounter(w) => DOMAIN file' = DOMAIN file
         /\ w \in Posts /\ SaveCounter(w) /\ file' # file => Assertion(w).cred \in DOMAIN file
         /\ w \in Admins /\ AdminAdd(w) => StoreView!Add(command[w].arg)
         /\ w \in Admins /\ AdminRemove(w) =>
               \E gone \in SUBSET DOMAIN file :
                 StoreView!Remove(gone) /\ admitted' = admitted \ gone
  <1>1. copy[w] = file
    BY DEF StoreInv, CopyCurrent
  <1>2. ASSUME w \in Posts, SaveCounter(w), file' # file
        PROVE  /\ StoreView!Bump(Assertion(w).cred)
               /\ DOMAIN file' = DOMAIN file
               /\ Assertion(w).cred \in DOMAIN file
    <2> DEFINE c == Assertion(w).cred
               n == Assertion(w).count
    <2>1. c \in DOMAIN file /\ n > file[c] /\ file' = [file EXCEPT ![c] = n]
      BY <1>1, <1>2 DEF SaveCounter, Bumps
    <2>2. file = [d \in DOMAIN file |-> file[d]]
      BY DEF StoreInv, StoreShape
    <2> HIDE DEF c, n
    <2>3. file'[c] = n /\ DOMAIN file' = DOMAIN file
      BY <2>1, <2>2
    <2>4. QED
      BY <2>1, <2>3 DEF StoreView!Bump, c
  <1>3. ASSUME w \in Admins, AdminAdd(w)
        PROVE  StoreView!Add(command[w].arg)
    <2> DEFINE c == command[w].arg
    <2>1. c \notin DOMAIN file
      BY <1>1, <1>3 DEF AdminAdd
    <2>2. file' = [d \in DOMAIN file \cup {c} |-> IF d = c THEN blob[c].count ELSE file[d]]
      BY <1>1, <1>3 DEF AdminAdd, Added
    <2> HIDE DEF c
    <2>3. file'[c] = blob[c].count
      BY <2>2
    <2>4. QED
      BY <2>1, <2>2, <2>3 DEF StoreView!Add, StoreView!Stored, c
  <1>4. ASSUME w \in Admins, AdminRemove(w)
        PROVE  \E gone \in SUBSET DOMAIN file :
                 StoreView!Remove(gone) /\ admitted' = admitted \ gone
    <2> DEFINE gone == Doomed(file, command[w].arg)
    <2>1. /\ gone # {} /\ admitted' = admitted \ gone
          /\ file' = [c \in DOMAIN file \ gone |-> file[c]]
      BY <1>1, <1>4 DEF AdminRemove, Restrict
    <2>2. gone \in SUBSET DOMAIN file
      BY DEF Doomed, Exact, Prefixed
    <2>3. QED
      BY <2>1, <2>2 DEF StoreView!Remove, StoreView!Stored
  <1>5. ASSUME w \in Posts, SaveCounter(w), file' = file
        PROVE  DOMAIN file' = DOMAIN file
    BY <1>5
  <1>6. QED
    BY <1>1, <1>2, <1>3, <1>4, <1>5

\* One step per action.
LEMMA NextStore == StoreInv /\ [Next]_vars => StoreInv'
  <1> SUFFICES ASSUME StoreInv, [Next]_vars
               PROVE  StoreInv'
    OBVIOUS
  <1> USE WritersDisjoint DEF store
  <1>1. ASSUME NEW c \in Creds, Register(c)
        PROVE  StoreInv'
    BY <1>1, StoreFrame DEF Register
  <1>2. ASSUME NEW n \in Nonces, StartLoad(n) \/ StartInsert(n) \/ \E c \in Creds : Sign(n, c)
        PROVE  StoreInv'
    BY <1>2, StoreFrame DEF StartLoad, StartInsert, Sign
  <1>3. ASSUME NEW r \in Posts, NEW n \in Nonces, NEW m \in Nonces, Post(r, n, m)
        PROVE  StoreInv'
    BY <1>3, MoveFrame DEF Post
  <1>4. ASSUME NEW r \in Posts, TakePending(r)
        PROVE  StoreInv'
    BY <1>4, MoveFrame DEF TakePending
  <1>5. ASSUME NEW r \in Posts, Verify(r)
        PROVE  StoreInv'
    BY <1>5, MoveFrame DEF Verify
  <1>6. ASSUME NEW w \in Writers, LockAndLoad(w)
        PROVE  StoreInv'
    <2> USE <1>6 DEF LockAndLoad, StoreInv, LockHeldByWriter, CopyCurrent, StoreMatchesAdmin
    <2>1. StoreShape'
      BY DEF StoreShape
    <2>2. LockHeldByWriter' /\ CopyCurrent' /\ StoreMatchesAdmin'
      BY DEF StoreShape
    <2>3. QED
      BY <2>1, <2>2
  <1>7. ASSUME NEW r \in Posts, SaveCounter(r)
        PROVE  StoreInv'
    <2>1. DOMAIN file' = DOMAIN file /\ copy[r] = file
      BY <1>7, SaveEffects DEF SaveCounter
    <2>2. file' = [c \in DOMAIN file' |-> file'[c]]
      BY <1>7, <2>1 DEF SaveCounter, StoreInv, StoreShape
    <2>3. DOMAIN file' \subseteq Creds /\ DOMAIN file' = admitted'
      BY <1>7, <2>1 DEF SaveCounter, StoreInv, StoreShape, StoreMatchesAdmin
    <2>4. command' = [a \in Admins |-> command'[a]]
      BY <1>7 DEF SaveCounter, StoreInv, StoreShape
    <2>5. QED
      BY <1>7, <2>2, <2>3, <2>4, SaveFrame DEF SaveCounter
  <1>8. ASSUME NEW r \in Posts, SaveFails(r)
        PROVE  StoreInv'
    <2>1. command' = [a \in Admins |-> command'[a]]
      BY <1>8 DEF SaveFails, StoreInv, StoreShape
    <2>2. /\ pc[r] \in {"lock", "save"} /\ pc' = [pc EXCEPT ![r] = "mint"]
          /\ Release(r) /\ file' = file /\ admitted' = admitted
          /\ \A a \in Admins : a # r => command'[a] = command[a]
      BY <1>8 DEF SaveFails
    <2>3. pc'[r] = "mint"
      BY <2>2 DEF StoreInv, StoreShape
    <2>4. QED
      BY <2>1, <2>2, <2>3, LeaveFrame
  <1>9. ASSUME NEW r \in Posts, Mint(r)
        PROVE  StoreInv'
    BY <1>9, MoveFrame DEF Mint
  <1>10. ASSUME NEW r \in Posts, Logout(r)
         PROVE  StoreInv'
    BY <1>10, StoreFrame DEF Logout
  <1>11. ASSUME NEW a \in Admins, NEW cmd \in Commands, AdminStart(a, cmd)
         PROVE  StoreInv'
    BY <1>11 DEF AdminStart, StoreInv, StoreShape, LockHeldByWriter, CopyCurrent,
       StoreMatchesAdmin
  <1>12. ASSUME NEW a \in Admins, AdminAdd(a)
         PROVE  StoreInv'
    <2> DEFINE c == command[a].arg
    <2>1. StoreView!Add(c)
      BY <1>12, SaveEffects DEF AdminAdd
    <2>2. c \in Creds
      BY <1>12 DEF AdminAdd, StoreInv, StoreShape, Commands
    <2>3. DOMAIN file' = DOMAIN file \cup {c} /\ file' = [d \in DOMAIN file' |-> file'[d]]
      BY <2>1 DEF StoreView!Add, StoreView!Stored
    <2>4. DOMAIN file' \subseteq Creds /\ DOMAIN file' = admitted'
      BY <1>12, <2>2, <2>3 DEF AdminAdd, StoreInv, StoreShape, StoreMatchesAdmin
    <2>5. /\ command' = [b \in Admins |-> command'[b]]
          /\ \A b \in Admins : b # a => command'[b] = command[b]
      BY <1>12 DEF AdminAdd, AdminEnds, StoreInv, StoreShape
    <2>6. QED
      BY <1>12, <2>3, <2>4, <2>5, SaveFrame DEF AdminAdd, AdminEnds
  <1>13. ASSUME NEW a \in Admins, AdminRemove(a)
         PROVE  StoreInv'
    <2>1. PICK gone \in SUBSET DOMAIN file :
            StoreView!Remove(gone) /\ admitted' = admitted \ gone
      BY <1>13, SaveEffects DEF AdminRemove
    <2>2. DOMAIN file' = DOMAIN file \ gone /\ file' = [d \in DOMAIN file' |-> file'[d]]
      BY <2>1 DEF StoreView!Remove, StoreView!Stored
    <2>3. DOMAIN file' \subseteq Creds /\ DOMAIN file' = admitted'
      BY <2>1, <2>2 DEF StoreInv, StoreShape, StoreMatchesAdmin
    <2>4. /\ command' = [b \in Admins |-> command'[b]]
          /\ \A b \in Admins : b # a => command'[b] = command[b]
      BY <1>13 DEF AdminRemove, AdminEnds, StoreInv, StoreShape
    <2>5. QED
      BY <1>13, <2>2, <2>3, <2>4, SaveFrame DEF AdminRemove, AdminEnds
  <1>14. ASSUME NEW a \in Admins, AdminBails(a)
         PROVE  StoreInv'
    <2>1. /\ command' = [b \in Admins |-> command'[b]]
          /\ \A b \in Admins : b # a => command'[b] = command[b]
      BY <1>14 DEF AdminBails, AdminEnds, StoreInv, StoreShape
    <2>2. /\ pc[a] \in {"lock", "save"} /\ pc' = [pc EXCEPT ![a] = "done"]
          /\ Release(a) /\ file' = file /\ admitted' = admitted
      BY <1>14 DEF AdminBails, AdminEnds
    <2>3. pc'[a] = "done"
      BY <2>2 DEF StoreInv, StoreShape
    <2>4. QED
      BY <2>1, <2>2, <2>3, LeaveFrame
  <1>15. ASSUME Tick
         PROVE  StoreInv'
    BY <1>15, StoreFrame DEF Tick
  <1>16. ASSUME HubRestart
         PROVE  StoreInv'
    <2> USE <1>16 DEF HubRestart, InFlight, StoreInv, LockHeldByWriter, CopyCurrent, StoreMatchesAdmin
    <2>1. StoreShape'
      BY DEF StoreShape
    <2>2. LockHeldByWriter' /\ CopyCurrent' /\ StoreMatchesAdmin'
      BY DEF StoreShape
    <2>3. QED
      BY <2>1, <2>2
  <1>17. CASE UNCHANGED vars
    BY <1>17, StoreFrame DEF vars
  <1>18. QED
    BY <1>1, <1>2, <1>3, <1>4, <1>5, <1>6, <1>7, <1>8, <1>9, <1>10, <1>11, <1>12,
       <1>13, <1>14, <1>15, <1>16, <1>17 DEF Next, Finish, Administer

\* The inductive invariant holds in every reachable state.
THEOREM StoreInvariant == Spec => []StoreInv
  BY InitStore, NextStore, PTL DEF Spec

\* No update is lost: the file always holds exactly the credentials that the
\* successful hub-admin commands have left in it, for any number of writers.
THEOREM NoLostUpdate == Spec => []StoreMatchesAdmin
  <1>1. StoreInv => StoreMatchesAdmin
    BY DEF StoreInv
  <1>2. QED
    BY <1>1, StoreInvariant, PTL

\* The initial file is an initial state of the atomic store.
LEMMA InitStoreView == Init => StoreView!Init
  BY PasskeyAssumption DEF Init, StoreView!Init, StoreView!Stored

\* Only three actions write the file, and each of them is one atomic change.
LEMMA NextStoreView == StoreInv /\ [Next]_vars => [StoreView!Next]_file
  <1> SUFFICES ASSUME StoreInv, [Next]_vars, file' # file
               PROVE  StoreView!Next
    OBVIOUS
  <1> USE WritersDisjoint DEF store
  <1>1. ASSUME NEW r \in Posts, SaveCounter(r)
        PROVE  StoreView!Next
    <2>1. StoreView!Bump(Assertion(r).cred) /\ Assertion(r).cred \in DOMAIN file
      BY <1>1, SaveEffects DEF SaveCounter
    <2>2. QED
      BY <2>1 DEF StoreView!Next, StoreView!Stored
  <1>2. ASSUME NEW a \in Admins, AdminAdd(a)
        PROVE  StoreView!Next
    <2>1. StoreView!Add(command[a].arg)
      BY <1>2, SaveEffects DEF AdminAdd
    <2>2. command[a].arg \in Creds
      BY <1>2 DEF AdminAdd, StoreInv, StoreShape, Commands
    <2>3. QED
      BY <2>1, <2>2 DEF StoreView!Next
  <1>3. ASSUME NEW a \in Admins, AdminRemove(a)
        PROVE  StoreView!Next
    BY <1>3, SaveEffects DEF AdminRemove, StoreView!Next, StoreView!Stored
  <1>4. \/ \E r \in Posts : SaveCounter(r)
        \/ \E a \in Admins : AdminAdd(a) \/ AdminRemove(a)
    <2>1. ASSUME \/ \E c \in Creds : Register(c)
                 \/ \E n \in Nonces : StartLoad(n) \/ StartInsert(n)
                 \/ \E n \in Nonces, c \in Creds : Sign(n, c)
          PROVE  FALSE
      BY <2>1 DEF Register, StartLoad, StartInsert, Sign
    <2>2. ASSUME NEW r \in Posts,
                 \/ \E n, m \in Nonces : Post(r, n, m)
                 \/ TakePending(r) \/ Verify(r) \/ SaveFails(r) \/ Mint(r) \/ Logout(r)
          PROVE  FALSE
      BY <2>2 DEF Post, TakePending, Verify, SaveFails, Mint, Logout
    <2>3. ASSUME NEW w \in Writers, LockAndLoad(w)
          PROVE  FALSE
      BY <2>3 DEF LockAndLoad
    <2>4. ASSUME NEW a \in Admins, AdminBails(a) \/ \E cmd \in Commands : AdminStart(a, cmd)
          PROVE  FALSE
      BY <2>4 DEF AdminBails, AdminStart
    <2>5. ASSUME Tick \/ HubRestart \/ UNCHANGED vars
          PROVE  FALSE
      BY <2>5 DEF Tick, HubRestart, vars
    <2>6. QED
      BY <2>1, <2>2, <2>3, <2>4, <2>5 DEF Next, Finish, Administer
  <1>5. QED
    BY <1>1, <1>2, <1>3, <1>4

\* The lock file, the loads and the saves together are an atomic store, for
\* any number of concurrent logins and hub-admin processes.
THEOREM PasskeysImplementsStore == Spec => ImplementsStore
  BY InitStoreView, NextStoreView, StoreInvariant, PTL
     DEF Spec, ImplementsStore, StoreView!Spec

-----------------------------------------------------------------------------
(* Sign counters.                                                          *)

RequestType == [nonce : Nonces, signed : Nonces]

Presented(n) == \E r \in Posts : request[r] # None /\ request[r].signed = n

\* The program counters a login request and a hub-admin process can have, and
\* what they carry: a request a nonce and a signed assertion, an add-passkey
\* the blob it was given.
RequestsSound ==
  /\ pc = [w \in Writers |-> pc[w]] /\ request = [r \in Posts |-> request[r]]
  /\ command = [a \in Admins |-> command[a]]
  /\ \A r \in Posts :
       /\ pc[r] = "idle" => request[r] = None
       /\ pc[r] # "idle" => request[r] \in RequestType /\ assertion[request[r].signed] # None
  /\ \A a \in Admins :
       pc[a] \in {"lock", "save"} /\ command[a].op = "add" => blob[command[a].arg] # None

\* A blob has the counter of its registration.
BlobsSound ==
  /\ device \in [Creds -> Nat] /\ blob = [c \in Creds |-> blob[c]]
  /\ \A c \in Creds :
       /\ c \notin Counting => device[c] = 0
       /\ blob[c] # None => blob[c].count \in Nat /\ blob[c].count <= device[c]

\* An assertion has a counter that no other use of its authenticator has.
AssertionSound(n) ==
  /\ assertion[n].cred \in Creds /\ assertion[n].count \in Nat
  /\ assertion[n].count <= device[assertion[n].cred]
  /\ blob[assertion[n].cred] # None
  /\ IF assertion[n].cred \in Counting
       THEN blob[assertion[n].cred].count < assertion[n].count
       ELSE assertion[n].count = 0

AssertionsSound ==
  /\ assertion = [n \in Nonces |-> assertion[n]]
  /\ \A n \in Nonces : assertion[n] # None => AssertionSound(n)
  /\ \A m, n \in Nonces :
       (/\ m # n /\ assertion[m] # None /\ assertion[n] # None
        /\ assertion[m].cred = assertion[n].cred /\ assertion[m].cred \in Counting)
         => assertion[m].count # assertion[n].count

\* A stored counter is one its authenticator had when it was registered or
\* when an assertion that has been presented was signed.
FileSound ==
  /\ \A c \in DOMAIN file : file[c] \in Nat /\ file[c] <= device[c]
  /\ \A n \in Nonces :
       assertion[n] # None /\ ~Presented(n) /\ assertion[n].cred \in DOMAIN file \cap Counting
         => file[assertion[n].cred] # assertion[n].count

\* The inductive invariant, given StoreInv.
CounterInv == RequestsSound /\ BlobsSound /\ AssertionsSound /\ FileSound

\* At the start no authenticator has been used.
LEMMA InitCounters == Init => CounterInv
  <1> SUFFICES ASSUME Init PROVE CounterInv
    OBVIOUS
  <1> USE PasskeyAssumption, WritersDisjoint
  <1>1. RequestsSound
    BY DEF Init, RequestsSound
  <1>2. \A c \in Creds : FirstCount(c) \in Nat /\ (c \notin Counting => FirstCount(c) = 0)
    BY DEF FirstCount
  <1>3. BlobsSound
    <2>1. device \in [Creds -> Nat] /\ blob = [c \in Creds |-> blob[c]]
      BY <1>2 DEF Init
    <2>2. ASSUME NEW c \in Creds
          PROVE  /\ c \notin Counting => device[c] = 0
                 /\ blob[c] # None => blob[c].count \in Nat /\ blob[c].count <= device[c]
      <3>1. PICK k \in Nat : k = FirstCount(c)
        BY <1>2
      <3>2. k <= k
        BY <3>1
      <3>3. QED
        BY <1>2, <3>1, <3>2 DEF Init
    <2>3. QED
      BY <2>1, <2>2 DEF BlobsSound
  <1>4. AssertionsSound
    BY DEF Init, AssertionsSound
  <1>5. FileSound
    <2>1. ASSUME NEW c \in Registered PROVE file[c] \in Nat /\ file[c] <= device[c]
      <3>1. PICK k \in Nat : k = FirstCount(c)
        BY <1>2
      <3>2. k <= k
        BY <3>1
      <3>3. QED
        BY <3>1, <3>2 DEF Init
    <2>2. QED
      BY <2>1 DEF Init, FileSound
  <1>6. QED
    BY <1>1, <1>3, <1>4, <1>5 DEF CounterInv

\* A step that neither counts nor stores.
LEMMA CounterFrame ==
  ASSUME CounterInv, UNCHANGED <<file, device, blob, assertion, request>>,
         pc' = [w \in Writers |-> pc'[w]], command' = [a \in Admins |-> command'[a]],
         \A r \in Posts : pc'[r] = "idle" <=> pc[r] = "idle",
         \A a \in Admins : pc'[a] \in {"lock", "save"} /\ command'[a].op = "add"
                             => blob[command'[a].arg] # None
  PROVE  CounterInv'
  <1>1. RequestsSound'
    BY DEF CounterInv, RequestsSound
  <1>2. BlobsSound' /\ AssertionsSound' /\ FileSound'
    BY DEF CounterInv, BlobsSound, AssertionsSound, AssertionSound, FileSound, Presented
  <1>3. QED
    BY <1>1, <1>2 DEF CounterInv

\* A use of an authenticator moves its counter, if it keeps one.
LEMMA UsedMoves ==
  ASSUME BlobsSound, NEW c \in Creds
  PROVE  /\ Used(c) \in Nat /\ device[c] <= Used(c)
         /\ c \in Counting => device[c] < Used(c)
         /\ c \notin Counting => Used(c) = 0
  <1>1. PICK k \in Nat : k = device[c]
    BY DEF BlobsSound
  <1>2. k <= k + 1 /\ k < k + 1 /\ k + 1 \in Nat
    BY <1>1
  <1>3. c \notin Counting => k = 0
    BY <1>1 DEF BlobsSound
  <1>4. QED
    BY <1>1, <1>2, <1>3 DEF Used

\* A registration takes a counter its authenticator never had.
LEMMA RegisterCounts ==
  ASSUME CounterInv, NEW c \in Creds, Register(c), DOMAIN file \subseteq Creds
  PROVE  CounterInv'
  <1>1. /\ blob[c] = None /\ device' = [device EXCEPT ![c] = Used(c)]
        /\ blob' = [blob EXCEPT ![c] = [issued |-> now, count |-> Used(c)]]
        /\ UNCHANGED <<file, pc, command, assertion, request>>
    BY DEF Register, store, finish
  <1>2. PICK u \in Nat, k \in Nat : u = Used(c) /\ k = device[c] /\ k <= u /\ (c \notin Counting => u = 0)
    BY UsedMoves DEF CounterInv, BlobsSound
  <1>3. /\ device' \in [Creds -> Nat] /\ device'[c] = u /\ \A d \in Creds : d # c => device'[d] = device[d]
    BY <1>1, <1>2 DEF CounterInv, BlobsSound
  <1>4. /\ blob' = [d \in Creds |-> blob'[d]] /\ blob'[c].count = u
        /\ \A d \in Creds : d # c => blob'[d] = blob[d]
    BY <1>1, <1>2 DEF CounterInv, BlobsSound
  <1>5. RequestsSound'
    <2>1. \A d \in Creds : blob[d] # None => blob'[d] # None
      BY <1>1, <1>4
    <2>2. ASSUME NEW a \in Admins, pc[a] \in {"lock", "save"}, command[a].op = "add"
          PROVE  blob'[command[a].arg] # None
      <3>1. blob[command[a].arg] # None
        BY <2>2 DEF CounterInv, RequestsSound
      <3>2. CASE command[a].arg = c
        BY <1>1, <3>1, <3>2
      <3>3. CASE command[a].arg # c
        BY <1>1, <3>1, <3>3 DEF CounterInv, BlobsSound
      <3>4. QED
        BY <3>2, <3>3
    <2>3. QED
      BY <1>1, <2>2 DEF CounterInv, RequestsSound
  <1>6. BlobsSound'
    <2>1. u <= u
      BY <1>2
    <2>2. QED
      BY <1>2, <1>3, <1>4, <2>1 DEF CounterInv, BlobsSound
  <1>7. \A n \in Nonces : assertion[n] # None => assertion[n].cred \in Creds /\ assertion[n].cred # c
    BY <1>1 DEF CounterInv, AssertionsSound, AssertionSound
  <1>8. AssertionsSound'
    BY <1>1, <1>3, <1>4, <1>7 DEF CounterInv, AssertionsSound, AssertionSound
  <1>9. FileSound'
    <2>1. ASSUME NEW d \in DOMAIN file PROVE file[d] \in Nat /\ file[d] <= device'[d]
      <3>1. PICK f \in Nat : f = file[d] /\ f <= device[d]
        BY DEF CounterInv, FileSound
      <3>2. f <= k /\ k <= u => f <= u
        OBVIOUS
      <3>3. QED
        BY <1>2, <1>3, <3>1, <3>2
    <2>2. QED
      BY <1>1, <2>1 DEF CounterInv, FileSound, Presented
  <1>10. QED
    BY <1>5, <1>6, <1>8, <1>9 DEF CounterInv

\* An assertion takes one above all that came before it.
LEMMA SignCounts ==
  ASSUME CounterInv, NEW n \in Nonces, NEW c \in Creds, Sign(n, c), DOMAIN file \subseteq Creds
  PROVE  CounterInv'
  <1>1. /\ blob[c] # None /\ device' = [device EXCEPT ![c] = Used(c)]
        /\ assertion' = [assertion EXCEPT ![n] = [cred |-> c, count |-> Used(c)]]
        /\ UNCHANGED <<file, pc, command, blob, request>>
    BY DEF Sign, store, finish
  <1>2. PICK u \in Nat, k \in Nat :
          /\ u = Used(c) /\ k = device[c] /\ k <= u
          /\ (c \in Counting => k < u) /\ (c \notin Counting => u = 0)
    BY UsedMoves DEF CounterInv, BlobsSound
  <1>3. /\ device' \in [Creds -> Nat] /\ device'[c] = u /\ \A d \in Creds : d # c => device'[d] = device[d]
    BY <1>1, <1>2 DEF CounterInv, BlobsSound
  <1>4. /\ assertion' = [m \in Nonces |-> assertion'[m]]
        /\ assertion'[n] = [cred |-> c, count |-> u]
        /\ \A m \in Nonces : m # n => assertion'[m] = assertion[m]
    BY <1>1, <1>2 DEF CounterInv, AssertionsSound
  <1>5. assertion'[n].cred = c /\ assertion'[n].count = u
    BY <1>4
  <1>6. \A d \in Creds : \A f \in Nat : f <= device[d] => f <= device'[d]
    <2>1. \A f \in Nat : f <= k /\ k <= u => f <= u
      OBVIOUS
    <2>2. QED
      BY <1>2, <1>3, <2>1
  <1>7. BlobsSound'
    <2>1. \A d \in Creds : d \notin Counting => device'[d] = 0
      BY <1>2, <1>3 DEF CounterInv, BlobsSound
    <2>2. QED
      BY <1>1, <1>3, <1>6, <2>1 DEF CounterInv, BlobsSound
  <1>8. ASSUME NEW m \in Nonces, assertion'[m] # None PROVE AssertionSound(m)'
    <2>1. CASE m = n
      <3>1. PICK b \in Nat : b = blob[c].count /\ b <= k
        BY <1>1, <1>2 DEF CounterInv, BlobsSound
      <3>2. k < u => b < u
        BY <3>1
      <3>3. u <= u
        BY <1>2
      <3>4. QED
        BY <1>1, <1>2, <1>3, <1>5, <2>1, <3>1, <3>2, <3>3 DEF AssertionSound
    <2>2. CASE m # n
      <3>1. AssertionSound(m) /\ assertion'[m] = assertion[m]
        BY <1>4, <1>8, <2>2 DEF CounterInv, AssertionsSound
      <3>2. QED
        BY <1>1, <1>6, <3>1 DEF AssertionSound
    <2>3. QED
      BY <2>1, <2>2
  <1>9. ASSUME NEW m \in Nonces, m # n, assertion[m] # None, assertion[m].cred = c, c \in Counting
        PROVE  assertion[m].count # u
    <2>1. PICK a \in Nat : a = assertion[m].count /\ a <= k
      BY <1>2, <1>9 DEF CounterInv, AssertionsSound, AssertionSound
    <2>2. a # u
      BY <1>2, <1>9, <2>1
    <2>3. QED
      BY <2>1, <2>2
  <1>10. AssertionsSound'
    <2>1. ASSUME NEW l \in Nonces, NEW m \in Nonces, l # m,
                 assertion'[l] # None, assertion'[m] # None,
                 assertion'[l].cred = assertion'[m].cred, assertion'[l].cred \in Counting
          PROVE  assertion'[l].count # assertion'[m].count
      <3>1. CASE l = n
        BY <1>4, <1>5, <1>9, <2>1, <3>1
      <3>2. CASE m = n
        BY <1>4, <1>5, <1>9, <2>1, <3>2
      <3>3. CASE l # n /\ m # n
        BY <1>4, <2>1, <3>3 DEF CounterInv, AssertionsSound
      <3>4. QED
        BY <3>1, <3>2, <3>3
    <2>2. QED
      BY <1>4, <1>8, <2>1 DEF AssertionsSound
  <1>11. FileSound'
    <2>1. \A d \in DOMAIN file : file[d] \in Nat /\ file[d] <= device'[d]
      BY <1>6 DEF CounterInv, FileSound
    <2>2. ASSUME c \in DOMAIN file \cap Counting PROVE file[c] # u
      <3>1. PICK f \in Nat : f = file[c] /\ f <= k
        BY <1>2, <2>2 DEF CounterInv, FileSound
      <3>2. f # u
        BY <1>2, <2>2, <3>1
      <3>3. QED
        BY <3>1, <3>2
    <2>3. QED
      BY <1>1, <1>4, <1>5, <2>1, <2>2 DEF CounterInv, FileSound, Presented
  <1>12. RequestsSound'
    <2>1. [cred |-> c, count |-> u] # None
      BY PasskeyAssumption
    <2>2. \A m \in Nonces : assertion[m] # None => assertion'[m] # None
      BY <1>4, <2>1
    <2>3. QED
      BY <1>1, <2>2 DEF CounterInv, RequestsSound, RequestType
  <1>13. QED
    BY <1>7, <1>10, <1>11, <1>12 DEF CounterInv

\* A request presents an assertion; from then on its counter may be stored.
LEMMA PostCounts ==
  ASSUME CounterInv, NEW r \in Posts, NEW n \in Nonces, NEW m \in Nonces, Post(r, n, m)
  PROVE  CounterInv'
  <1> USE WritersDisjoint
  <1>1. /\ pc[r] = "idle" /\ assertion[m] # None
        /\ pc' = [pc EXCEPT ![r] = "take"]
        /\ request' = [request EXCEPT ![r] = [nonce |-> n, signed |-> m]]
        /\ UNCHANGED <<file, command, device, blob, assertion>>
    BY DEF Post, store, browser
  <1>2. /\ pc' = [w \in Writers |-> pc'[w]] /\ pc'[r] = "take"
        /\ \A w \in Writers : w # r => pc'[w] = pc[w]
    BY <1>1 DEF CounterInv, RequestsSound
  <1>3. /\ request' = [q \in Posts |-> request'[q]] /\ request'[r] = [nonce |-> n, signed |-> m]
        /\ \A q \in Posts : q # r => request'[q] = request[q]
    BY <1>1 DEF CounterInv, RequestsSound
  <1>4. request'[r] \in RequestType /\ request'[r].signed = m
    BY <1>3 DEF RequestType
  <1>5. RequestsSound'
    BY <1>1, <1>2, <1>3, <1>4 DEF CounterInv, RequestsSound
  <1>6. request[r] = None
    BY <1>1 DEF CounterInv, RequestsSound
  <1>7. \A l : Presented(l) => Presented(l)'
    BY <1>3, <1>6 DEF Presented
  <1>8. BlobsSound' /\ AssertionsSound' /\ FileSound'
    BY <1>1, <1>7 DEF CounterInv, BlobsSound, AssertionsSound, AssertionSound, FileSound
  <1>9. QED
    BY <1>5, <1>8 DEF CounterInv

\* A step of a writer that may replace the file.
LEMMA SaveCounts ==
  ASSUME CounterInv, NEW w \in Writers, NEW to, to # "idle", pc[w] # "idle",
         w \in Admins => to \notin {"lock", "save"}, pc' = [pc EXCEPT ![w] = to],
         UNCHANGED <<device, blob, assertion, request>>,
         command' = [a \in Admins |-> command'[a]],
         \A a \in Admins : a # w => command'[a] = command[a],
         \A c \in DOMAIN file' : file'[c] \in Nat /\ file'[c] <= device[c],
         \A n \in Nonces :
           assertion[n] # None /\ ~Presented(n) /\ assertion[n].cred \in DOMAIN file' \cap Counting
             => file'[assertion[n].cred] # assertion[n].count
  PROVE  CounterInv'
  <1> USE WritersDisjoint
  <1>1. pc' = [v \in Writers |-> pc'[v]] /\ pc'[w] = to /\ \A v \in Writers : v # w => pc'[v] = pc[v]
    BY DEF CounterInv, RequestsSound
  <1>2. RequestsSound'
    BY <1>1 DEF CounterInv, RequestsSound
  <1>3. BlobsSound' /\ AssertionsSound'
    BY DEF CounterInv, BlobsSound, AssertionsSound, AssertionSound
  <1>4. FileSound'
    BY DEF FileSound, Presented
  <1>5. QED
    BY <1>2, <1>3, <1>4 DEF CounterInv

\* bump_counter stores the counter of an assertion that was presented.
LEMMA SaveCounterCounts ==
  ASSUME StoreInv, CounterInv, NEW r \in Posts, SaveCounter(r)
  PROVE  CounterInv'
  <1> USE WritersDisjoint
  <1>1. /\ pc[r] = "save" /\ pc' = [pc EXCEPT ![r] = "mint"]
        /\ UNCHANGED <<device, blob, assertion, request, command>>
    BY DEF SaveCounter, browser, finish
  <1>2. copy[r] = file
    BY <1>1 DEF StoreInv, CopyCurrent
  <1>3. PICK m, s : m = request[r].signed /\ s = assertion[m]
    OBVIOUS
  <1>4. request[r] \in RequestType /\ m \in Nonces /\ s # None
    BY <1>1, <1>3 DEF CounterInv, RequestsSound, RequestType
  <1>5. Presented(m)
    BY <1>3, <1>4, PasskeyAssumption DEF Presented, RequestType
  <1>6. AssertionSound(m)
    BY <1>3, <1>4 DEF CounterInv, AssertionsSound
  <1>7. PICK c \in Creds, k \in Nat : c = s.cred /\ k = s.count /\ k <= device[c]
    BY <1>3, <1>6 DEF AssertionSound
  <1>8. file' = file \/ (c \in DOMAIN file /\ file' = [file EXCEPT ![c] = k])
    BY <1>2, <1>3, <1>7 DEF SaveCounter, Bumps, Assertion
  <1>9. /\ DOMAIN file' = DOMAIN file
        /\ \A d \in DOMAIN file : file'[d] = file[d] \/ (d = c /\ file'[d] = k)
    BY <1>8 DEF StoreInv, StoreShape
  <1>10. \A d \in DOMAIN file' : file'[d] \in Nat /\ file'[d] <= device[d]
    BY <1>7, <1>9 DEF CounterInv, FileSound
  <1>11. ASSUME NEW n \in Nonces, assertion[n] # None, ~Presented(n),
                assertion[n].cred \in DOMAIN file' \cap Counting
         PROVE  file'[assertion[n].cred] # assertion[n].count
    <2>1. CASE file'[assertion[n].cred] = file[assertion[n].cred]
      BY <1>9, <1>11, <2>1 DEF CounterInv, FileSound
    <2>2. CASE assertion[n].cred = c /\ file'[assertion[n].cred] = k
      <3>1. n # m
        BY <1>5, <1>11
      <3>2. assertion[m].count # assertion[n].count
        BY <1>3, <1>4, <1>7, <1>11, <2>2, <3>1 DEF CounterInv, AssertionsSound
      <3>3. QED
        BY <1>3, <1>7, <2>2, <3>2
    <2>3. QED
      BY <1>9, <1>11, <2>1, <2>2
  <1>12. command' = [a \in Admins |-> command'[a]]
    BY <1>1 DEF CounterInv, RequestsSound
  <1>13. QED
    BY <1>1, <1>10, <1>11, <1>12, SaveCounts

\* add-passkey stores the counter of a blob, which no assertion has.
LEMMA AdminCounts ==
  ASSUME StoreInv, CounterInv, NEW a \in Admins, AdminAdd(a) \/ AdminRemove(a)
  PROVE  CounterInv'
  <1> USE WritersDisjoint
  <1>1. /\ pc[a] = "save" /\ pc' = [pc EXCEPT ![a] = "done"]
        /\ command' = [command EXCEPT ![a] = None]
        /\ UNCHANGED <<device, blob, assertion, request>>
    BY DEF AdminAdd, AdminRemove, AdminEnds, browser, finish
  <1>2. copy[a] = file
    BY <1>1 DEF StoreInv, CopyCurrent
  <1>3. /\ command' = [b \in Admins |-> command'[b]]
        /\ \A b \in Admins : b # a => command'[b] = command[b]
    BY <1>1 DEF CounterInv, RequestsSound
  <1>4. CASE AdminRemove(a)
    <2>1. DOMAIN file' \subseteq DOMAIN file /\ \A c \in DOMAIN file' : file'[c] = file[c]
      BY <1>2, <1>4 DEF AdminRemove, Restrict
    <2>2. \A c \in DOMAIN file' : file'[c] \in Nat /\ file'[c] <= device[c]
      BY <2>1 DEF CounterInv, FileSound
    <2>3. \A n \in Nonces :
            assertion[n] # None /\ ~Presented(n) /\ assertion[n].cred \in DOMAIN file' \cap Counting
              => file'[assertion[n].cred] # assertion[n].count
      BY <2>1 DEF CounterInv, FileSound
    <2>4. QED
      BY <1>1, <1>3, <2>2, <2>3, SaveCounts
  <1>5. CASE AdminAdd(a)
    <2>1. PICK c : c = command[a].arg
      OBVIOUS
    <2>2. c \in Creds /\ command[a].op = "add"
      BY <1>5, <2>1 DEF AdminAdd, StoreInv, StoreShape, Commands
    <2>3. blob[c] # None
      BY <1>1, <2>1, <2>2 DEF CounterInv, RequestsSound
    <2>4. PICK k \in Nat : k = blob[c].count /\ k <= device[c]
      BY <2>2, <2>3 DEF CounterInv, BlobsSound
    <2>5. file' = [d \in DOMAIN file \cup {c} |-> IF d = c THEN k ELSE file[d]]
      BY <1>2, <1>5, <2>1, <2>4 DEF AdminAdd, Added
    <2>6. \A d \in DOMAIN file' : file'[d] \in Nat /\ file'[d] <= device[d]
      BY <2>4, <2>5 DEF CounterInv, FileSound
    <2>7. ASSUME NEW n \in Nonces, assertion[n] # None, ~Presented(n),
                 assertion[n].cred \in DOMAIN file' \cap Counting
          PROVE  file'[assertion[n].cred] # assertion[n].count
      <3>1. CASE assertion[n].cred = c
        <4>1. AssertionSound(n)
          BY <2>7 DEF CounterInv, AssertionsSound
        <4>2. PICK j \in Nat : j = assertion[n].count /\ k < j
          BY <2>4, <2>7, <3>1, <4>1 DEF AssertionSound
        <4>3. k # j
          BY <4>2
        <4>4. QED
          BY <2>5, <2>7, <3>1, <4>2, <4>3
      <3>2. CASE assertion[n].cred # c
        BY <2>5, <2>7, <3>2 DEF CounterInv, FileSound
      <3>3. QED
        BY <3>1, <3>2
    <2>8. QED
      BY <1>1, <1>3, <2>6, <2>7, SaveCounts
  <1>6. QED
    BY <1>4, <1>5

\* The invariant is inductive, given StoreInv.
LEMMA NextCounters == StoreInv /\ CounterInv /\ [Next]_vars => CounterInv'
  <1> SUFFICES ASSUME StoreInv, CounterInv, [Next]_vars
               PROVE  CounterInv'
    OBVIOUS
  <1> USE WritersDisjoint DEF store, browser, finish
  <1>0. DOMAIN file \subseteq Creds
    BY DEF StoreInv, StoreShape
  <1>1. ASSUME NEW c \in Creds, Register(c)
        PROVE  CounterInv'
    BY <1>0, <1>1, RegisterCounts
  <1>2. ASSUME NEW n \in Nonces, NEW c \in Creds, Sign(n, c)
        PROVE  CounterInv'
    BY <1>0, <1>2, SignCounts
  <1>3. ASSUME NEW r \in Posts, NEW n \in Nonces, NEW m \in Nonces, Post(r, n, m)
        PROVE  CounterInv'
    BY <1>3, PostCounts
  <1>4. ASSUME NEW r \in Posts, SaveCounter(r)
        PROVE  CounterInv'
    BY <1>4, SaveCounterCounts
  <1>5. ASSUME NEW a \in Admins, AdminAdd(a) \/ AdminRemove(a)
        PROVE  CounterInv'
    BY <1>5, AdminCounts
  <1>6. /\ pc = [w \in Writers |-> pc[w]] /\ command = [a \in Admins |-> command[a]]
        /\ \A a \in Admins : pc[a] \in {"lock", "save"} /\ command[a].op = "add"
                               => blob[command[a].arg] # None
    BY DEF CounterInv, RequestsSound
  <1>7. ASSUME NEW n \in Nonces, StartLoad(n) \/ StartInsert(n)
        PROVE  CounterInv'
    <2>1. UNCHANGED <<file, device, blob, assertion, request, pc, command>>
      BY <1>7 DEF StartLoad, StartInsert
    <2>2. QED
      BY <1>6, <2>1, CounterFrame
  <1>8. ASSUME NEW w \in Writers, NEW to, pc[w] # "idle", to # "idle",
               w \in Admins => (to \in {"lock", "save"} => pc[w] \in {"lock", "save"}),
               pc' = [pc EXCEPT ![w] = to],
               UNCHANGED <<file, device, blob, assertion, request>>,
               command' = command \/ (w \in Admins /\ to = "done" /\ command' = [command EXCEPT ![w] = None])
        PROVE  CounterInv'
    <2>1. pc' = [v \in Writers |-> pc'[v]] /\ pc'[w] = to /\ \A v \in Writers : v # w => pc'[v] = pc[v]
      BY <1>6, <1>8
    <2>2. command' = [a \in Admins |-> command'[a]]
      BY <1>6, <1>8
    <2>3. \A a \in Admins : pc'[a] \in {"lock", "save"} => pc[a] \in {"lock", "save"} /\ command'[a] = command[a]
      BY <1>6, <1>8, <2>1
    <2>4. \A r \in Posts : pc'[r] = "idle" <=> pc[r] = "idle"
      BY <1>8, <2>1
    <2>5. QED
      BY <1>6, <1>8, <2>1, <2>2, <2>3, <2>4, CounterFrame
  <1>9. ASSUME NEW r \in Posts, TakePending(r)
        PROVE  CounterInv'
    <2>1. PICK to : to # "idle" /\ pc' = [pc EXCEPT ![r] = to]
      BY <1>9 DEF TakePending
    <2>2. pc[r] # "idle" /\ UNCHANGED <<file, device, blob, assertion, request, command>>
      BY <1>9 DEF TakePending
    <2>3. QED
      BY <1>8, <2>1, <2>2
  <1>10. ASSUME NEW r \in Posts, Verify(r)
         PROVE  CounterInv'
    <2>1. PICK to : to # "idle" /\ pc' = [pc EXCEPT ![r] = to]
      BY <1>10 DEF Verify
    <2>2. pc[r] # "idle" /\ UNCHANGED <<file, device, blob, assertion, request, command>>
      BY <1>10 DEF Verify
    <2>3. QED
      BY <1>8, <2>1, <2>2
  <1>11. ASSUME NEW w \in Writers, LockAndLoad(w)
         PROVE  CounterInv'
    BY <1>8, <1>11 DEF LockAndLoad
  <1>12. ASSUME NEW r \in Posts, SaveFails(r)
         PROVE  CounterInv'
    BY <1>8, <1>12 DEF SaveFails
  <1>13. ASSUME NEW r \in Posts, Mint(r)
         PROVE  CounterInv'
    BY <1>8, <1>13 DEF Mint
  <1>14. ASSUME NEW r \in Posts, Logout(r)
         PROVE  CounterInv'
    <2>1. UNCHANGED <<file, device, blob, assertion, request, pc, command>>
      BY <1>14 DEF Logout
    <2>2. QED
      BY <1>6, <2>1, CounterFrame
  <1>15. ASSUME NEW a \in Admins, NEW cmd \in Commands, AdminStart(a, cmd)
         PROVE  CounterInv'
    <2>1. /\ cmd.op = "add" => blob[cmd.arg] # None
          /\ command' = [command EXCEPT ![a] = cmd] /\ pc' = [pc EXCEPT ![a] = "lock"]
          /\ UNCHANGED <<file, device, blob, assertion, request>>
      BY <1>15 DEF AdminStart, Fresh
    <2>2. pc' = [v \in Writers |-> pc'[v]] /\ \A v \in Writers : v # a => pc'[v] = pc[v]
      BY <1>6, <2>1
    <2>3. /\ command' = [b \in Admins |-> command'[b]] /\ command'[a] = cmd
          /\ \A b \in Admins : b # a => command'[b] = command[b]
      BY <1>6, <2>1
    <2>4. \A r \in Posts : pc'[r] = "idle" <=> pc[r] = "idle"
      BY <2>2
    <2>5. QED
      BY <1>6, <2>1, <2>2, <2>3, <2>4, CounterFrame
  <1>16. ASSUME NEW a \in Admins, AdminBails(a)
         PROVE  CounterInv'
    BY <1>8, <1>16 DEF AdminBails, AdminEnds
  <1>17. CASE Tick
    <2>1. UNCHANGED <<file, device, blob, assertion, request, pc, command>>
      BY <1>17 DEF Tick
    <2>2. QED
      BY <1>6, <2>1, CounterFrame
  <1>18. CASE HubRestart
    <2>1. /\ pc' = [w \in Writers |-> IF w \in InFlight THEN "lost" ELSE pc[w]]
          /\ UNCHANGED <<file, device, blob, assertion, request, command>>
      BY <1>18 DEF HubRestart
    <2>2. \A r \in Posts : pc'[r] = "idle" <=> pc[r] = "idle"
      BY <2>1 DEF InFlight
    <2>3. \A a \in Admins : pc'[a] = pc[a]
      BY <2>1 DEF InFlight
    <2>4. pc' = [w \in Writers |-> pc'[w]]
      BY <2>1
    <2>5. QED
      BY <1>6, <2>1, <2>2, <2>3, <2>4, CounterFrame
  <1>19. CASE UNCHANGED vars
    <2>1. UNCHANGED <<file, device, blob, assertion, request, pc, command>>
      BY <1>19 DEF vars
    <2>2. QED
      BY <1>6, <2>1, CounterFrame
  <1>20. QED
    BY <1>1, <1>2, <1>3, <1>4, <1>5, <1>7, <1>9, <1>10, <1>11, <1>12, <1>13, <1>14, <1>15,
       <1>16, <1>17, <1>18, <1>19 DEF Next, Finish, Administer

\* The counters that credentials.json may hold: in every reachable state the
\* stored one is that of a registration or of a presented assertion.
THEOREM CounterInvariant == Spec => []CounterInv
  BY InitStore, NextStore, InitCounters, NextCounters, PTL DEF Spec

\* The clone check of finish_authenticate lets the latest answer of an
\* authenticator pass until it has been presented, for any interleaving of
\* registrations, logins, counter updates and hub-admin commands.
THEOREM LatestAnswerPasses == Spec => []NewestAssertionPasses
  <1>1. CounterInv => NewestAssertionPasses
    <2> SUFFICES ASSUME CounterInv, NEW n \in Nonces, assertion[n] # None, ~Presented(n),
                        assertion[n].cred \in DOMAIN file,
                        assertion[n].count = device[assertion[n].cred]
                 PROVE  assertion[n].count = 0 \/ assertion[n].count > file[assertion[n].cred]
      BY DEF NewestAssertionPasses, Presented
    <2>1. AssertionSound(n)
      BY DEF CounterInv, AssertionsSound
    <2>2. PICK c \in Creds, k \in Nat, f \in Nat :
            c = assertion[n].cred /\ k = assertion[n].count /\ f = file[c] /\ f <= k
      BY <2>1 DEF AssertionSound, CounterInv, FileSound
    <2>3. CASE c \in Counting
      <3>1. f # k
        BY <2>2, <2>3 DEF CounterInv, FileSound
      <3>2. k > f
        BY <2>2, <3>1
      <3>3. QED
        BY <2>2, <3>2
    <2>4. CASE c \notin Counting
      BY <2>1, <2>2, <2>4 DEF AssertionSound
    <2>5. QED
      BY <2>3, <2>4
  <1>2. QED
    BY <1>1, CounterInvariant, PTL

-----------------------------------------------------------------------------
(* Nonces and tokens.                                                      *)

\* The request has taken the entry of its nonce out of pending_logins, and
\* may still mint a token or has minted it.
Claims(r) == pc[r] \in {"verify", "lock", "save", "mint", "granted"}

\* The ceremony's entry is still to come or is in pending_logins.
Unclaimed(n) == n \in DOMAIN pending \/ ceremony[n] \in {"new", "starting"}

\* A nonce is claimed once, and not while it can still be claimed.
TokenInv ==
  /\ ceremony = [n \in Nonces |-> ceremony[n]]
  /\ \A q, r \in Posts : Claims(q) /\ Claims(r) /\ request[q].nonce = request[r].nonce => q = r
  /\ \A n \in Nonces : Unclaimed(n) => \A r \in Posts : Claims(r) => request[r].nonce # n
  /\ \A n \in Nonces : n \in DOMAIN pending => ceremony[n] \notin {"new", "starting"}
  /\ \A r \in DOMAIN minted : r \in Posts /\ pc[r] = "granted" /\ minted[r] = request[r].nonce

\* At the start nothing is claimed.
LEMMA InitTokens == Init => TokenInv
  BY WritersDisjoint DEF Init, Empty, TokenInv, Claims, Unclaimed

\* A step that neither claims a nonce nor offers one.
LEMMA TokenFrame ==
  ASSUME TokenInv, UNCHANGED <<request, minted>>,
         DOMAIN pending' \subseteq DOMAIN pending,
         ceremony' = [n \in Nonces |-> ceremony'[n]],
         \A n \in Nonces : /\ ceremony'[n] \in {"new", "starting"} => ceremony[n] \in {"new", "starting"}
                           /\ n \in DOMAIN pending' => ceremony'[n] \notin {"new", "starting"},
         \A r \in Posts : Claims(r)' => Claims(r),
         \A r \in Posts : pc[r] = "granted" => pc'[r] = "granted"
  PROVE  TokenInv'
  <1>1. \A n \in Nonces : Unclaimed(n)' => Unclaimed(n)
    BY DEF Unclaimed
  <1>2. QED
    BY <1>1 DEF TokenInv

\* The entries that are left of a map.
LEMMA LiveDomain ==
  ASSUME NEW map
  PROVE  DOMAIN Live(map) \subseteq DOMAIN map
  BY DEF Live, Restrict

\* login_start offers a nonce that nobody can have claimed.
LEMMA InsertClaims ==
  ASSUME TokenInv, NEW n \in Nonces, StartInsert(n)
  PROVE  TokenInv'
  <1>1. /\ ceremony[n] = "starting" /\ UNCHANGED <<pc, request, minted>>
        /\ \/ ceremony' = [ceremony EXCEPT ![n] = "started"] /\ DOMAIN pending' = DOMAIN Live(pending) \cup {n}
           \/ ceremony' = [ceremony EXCEPT ![n] = "over"] /\ DOMAIN pending' = DOMAIN Live(pending)
    BY DEF StartInsert, finish
  <1>2. DOMAIN pending' \subseteq DOMAIN pending \cup {n}
    BY <1>1, LiveDomain
  <1>3. /\ ceremony' = [m \in Nonces |-> ceremony'[m]]
        /\ ceremony'[n] \notin {"new", "starting"}
        /\ \A m \in Nonces : m # n => ceremony'[m] = ceremony[m]
    BY <1>1 DEF TokenInv
  <1>4. \A r \in Posts : Claims(r)' <=> Claims(r)
    BY <1>1 DEF Claims
  <1>5. \A m \in Nonces : Unclaimed(m)' => Unclaimed(m)
    BY <1>1, <1>2, <1>3 DEF Unclaimed
  <1>6. QED
    BY <1>1, <1>2, <1>3, <1>4, <1>5 DEF TokenInv

\* The entry is taken out as the request claims the nonce.
LEMMA TakeClaims ==
  ASSUME TokenInv, CounterInv, NEW r \in Posts, TakePending(r)
  PROVE  TokenInv'
  <1> USE WritersDisjoint
  <1>1. PICK n : n = request[r].nonce
    OBVIOUS
  <1>2. /\ pc[r] = "take" /\ UNCHANGED <<ceremony, request, minted>>
        /\ DOMAIN pending' = DOMAIN Live(pending) \ {n}
        /\ \/ n \in DOMAIN Live(pending) /\ pc' = [pc EXCEPT ![r] = "verify"]
           \/ pc' = [pc EXCEPT ![r] = "refused"]
    BY <1>1 DEF TakePending, browser, Restrict
  <1>3. DOMAIN pending' \subseteq DOMAIN pending /\ n \notin DOMAIN pending'
    BY <1>2, LiveDomain
  <1>4. \A q \in Posts : q # r => pc'[q] = pc[q]
    BY <1>2 DEF CounterInv, RequestsSound
  <1>5. n \in Nonces
    BY <1>1, <1>2 DEF CounterInv, RequestsSound, RequestType
  <1>6. r \notin DOMAIN minted
    BY <1>2 DEF TokenInv
  <1>7. CASE pc' = [pc EXCEPT ![r] = "refused"]
    <2>1. pc'[r] = "refused"
      BY <1>7 DEF CounterInv, RequestsSound
    <2>2. \A q \in Posts : Claims(q)' => Claims(q)
      BY <1>4, <2>1 DEF Claims
    <2>3. \A q \in Posts : pc[q] = "granted" => pc'[q] = "granted"
      BY <1>2, <1>4
    <2>4. QED
      BY <1>2, <1>3, <2>2, <2>3, TokenFrame DEF TokenInv
  <1>8. CASE n \in DOMAIN Live(pending) /\ pc' = [pc EXCEPT ![r] = "verify"]
    <2>1. n \in DOMAIN pending
      BY <1>8, LiveDomain
    <2>2. \A q \in Posts : Claims(q) => request[q].nonce # n
      BY <1>5, <2>1 DEF TokenInv, Unclaimed
    <2>3. \A q \in Posts : q # r => (Claims(q)' <=> Claims(q))
      BY <1>4 DEF Claims
    <2>4. \A m \in Nonces : Unclaimed(m)' => Unclaimed(m) /\ m # n
      BY <1>2, <1>3, <2>1 DEF Unclaimed, TokenInv
    <2>5. \A q, s \in Posts : Claims(q)' /\ Claims(s)' /\ request[q].nonce = request[s].nonce => q = s
      BY <1>1, <2>2, <2>3 DEF TokenInv
    <2>6. \A m \in Nonces : Unclaimed(m)' => \A q \in Posts : Claims(q)' => request[q].nonce # m
      BY <1>1, <2>3, <2>4 DEF TokenInv
    <2>7. \A q \in DOMAIN minted : q \in Posts /\ pc'[q] = "granted" /\ minted[q] = request[q].nonce
      BY <1>4, <1>6 DEF TokenInv
    <2>8. QED
      BY <1>2, <1>3, <2>5, <2>6, <2>7 DEF TokenInv
  <1>9. QED
    BY <1>2, <1>7, <1>8

\* A request that has only arrived claims nothing.
LEMMA PostClaims ==
  ASSUME TokenInv, CounterInv, NEW r \in Posts, NEW n \in Nonces, NEW m \in Nonces, Post(r, n, m)
  PROVE  TokenInv'
  <1> USE WritersDisjoint
  <1>1. /\ pc[r] = "idle" /\ pc' = [pc EXCEPT ![r] = "take"]
        /\ request' = [request EXCEPT ![r] = [nonce |-> n, signed |-> m]]
        /\ UNCHANGED <<ceremony, pending, minted>>
    BY DEF Post, browser
  <1>2. /\ pc'[r] = "take"
        /\ \A q \in Posts : q # r => pc'[q] = pc[q] /\ request'[q] = request[q]
    BY <1>1 DEF CounterInv, RequestsSound
  <1>3. \A q \in Posts : Claims(q)' => Claims(q) /\ q # r
    BY <1>2 DEF Claims
  <1>4. \A l \in Nonces : Unclaimed(l)' <=> Unclaimed(l)
    BY <1>1 DEF Unclaimed
  <1>5. r \notin DOMAIN minted
    BY <1>1 DEF TokenInv
  <1>6. QED
    BY <1>1, <1>2, <1>3, <1>4, <1>5 DEF TokenInv

\* A token is minted for the nonce the request has claimed.
LEMMA MintClaims ==
  ASSUME TokenInv, CounterInv, NEW r \in Posts, Mint(r)
  PROVE  TokenInv'
  <1> USE WritersDisjoint
  <1>1. /\ pc[r] = "mint" /\ pc' = [pc EXCEPT ![r] = "granted"]
        /\ minted' = [t \in DOMAIN minted \cup {r} |-> IF t = r THEN request[r].nonce ELSE minted[t]]
        /\ UNCHANGED <<ceremony, pending, request>>
    BY DEF Mint, browser, finish
  <1>2. pc'[r] = "granted" /\ \A q \in Posts : q # r => pc'[q] = pc[q]
    BY <1>1 DEF CounterInv, RequestsSound
  <1>3. \A q \in Posts : Claims(q)' <=> Claims(q)
    BY <1>1, <1>2 DEF Claims
  <1>4. \A l \in Nonces : Unclaimed(l)' <=> Unclaimed(l)
    BY <1>1 DEF Unclaimed
  <1>5. \A q \in DOMAIN minted' : q \in Posts /\ pc'[q] = "granted" /\ minted'[q] = request[q].nonce
    BY <1>1, <1>2 DEF TokenInv
  <1>6. QED
    BY <1>1, <1>3, <1>4, <1>5 DEF TokenInv

\* The invariant is inductive, given CounterInv.
LEMMA NextTokens == CounterInv /\ TokenInv /\ [Next]_vars => TokenInv'
  <1> SUFFICES ASSUME CounterInv, TokenInv, [Next]_vars
               PROVE  TokenInv'
    OBVIOUS
  <1> USE WritersDisjoint DEF store, browser, finish
  <1>1. ASSUME NEW n \in Nonces, StartInsert(n)
        PROVE  TokenInv'
    BY <1>1, InsertClaims
  <1>2. ASSUME NEW r \in Posts, TakePending(r)
        PROVE  TokenInv'
    BY <1>2, TakeClaims
  <1>3. ASSUME NEW r \in Posts, NEW n \in Nonces, NEW m \in Nonces, Post(r, n, m)
        PROVE  TokenInv'
    BY <1>3, PostClaims
  <1>4. ASSUME NEW r \in Posts, Mint(r)
        PROVE  TokenInv'
    BY <1>4, MintClaims
  <1>5. pc = [w \in Writers |-> pc[w]] /\ ceremony = [n \in Nonces |-> ceremony[n]]
    BY DEF CounterInv, RequestsSound, TokenInv
  \* The other steps leave the maps of nonces alone, or only shrink them.
  <1>6. ASSUME UNCHANGED <<request, minted, pending, ceremony>>, NEW w \in Writers, NEW to,
               pc' = [pc EXCEPT ![w] = to],
               w \in Posts => (to \in {"lock", "save", "mint"} => Claims(w)) /\ pc[w] # "granted"
                              /\ to \in {"lock", "save", "mint", "refused"}
        PROVE  TokenInv'
    <2>1. pc'[w] = to /\ \A v \in Writers : v # w => pc'[v] = pc[v]
      BY <1>5, <1>6
    <2>2. \A r \in Posts : Claims(r)' => Claims(r)
      BY <1>6, <2>1 DEF Claims
    <2>3. \A r \in Posts : pc[r] = "granted" => pc'[r] = "granted"
      BY <1>6, <2>1
    <2>4. QED
      BY <1>5, <1>6, <2>2, <2>3, TokenFrame DEF TokenInv
  <1>7. ASSUME NEW r \in Posts, Verify(r)
        PROVE  TokenInv'
    <2>1. PICK to : to \in {"lock", "mint", "refused"} /\ pc' = [pc EXCEPT ![r] = to]
      BY <1>7 DEF Verify
    <2>2. pc[r] = "verify" /\ UNCHANGED <<request, minted, pending, ceremony>>
      BY <1>7 DEF Verify
    <2>3. QED
      BY <1>6, <2>1, <2>2 DEF Claims
  <1>8. ASSUME NEW w \in Writers, LockAndLoad(w)
        PROVE  TokenInv'
    BY <1>6, <1>8 DEF LockAndLoad, Claims
  <1>9. ASSUME NEW r \in Posts, SaveCounter(r) \/ SaveFails(r)
        PROVE  TokenInv'
    <2>1. /\ pc[r] \in {"lock", "save"} /\ pc' = [pc EXCEPT ![r] = "mint"]
          /\ UNCHANGED <<request, minted, pending, ceremony>>
      BY <1>9 DEF SaveCounter, SaveFails
    <2>2. QED
      BY <1>6, <2>1 DEF Claims
  <1>10. ASSUME NEW a \in Admins,
                \/ AdminAdd(a) \/ AdminRemove(a) \/ AdminBails(a)
                \/ \E cmd \in Commands : AdminStart(a, cmd)
         PROVE  TokenInv'
    <2>1. PICK to : pc' = [pc EXCEPT ![a] = to]
      BY <1>10 DEF AdminAdd, AdminRemove, AdminBails, AdminEnds, AdminStart
    <2>2. UNCHANGED <<request, minted, pending, ceremony>>
      BY <1>10 DEF AdminAdd, AdminRemove, AdminBails, AdminEnds, AdminStart
    <2>3. QED
      BY <1>6, <2>1, <2>2
  <1>11. ASSUME UNCHANGED <<request, minted, pending, ceremony, pc>>
         PROVE  TokenInv'
    BY <1>5, <1>11, TokenFrame DEF TokenInv, Claims
  <1>12. ASSUME NEW n \in Nonces, NEW c \in Creds, Sign(n, c)
         PROVE  TokenInv'
    <2>1. ceremony' = [ceremony EXCEPT ![n] = "over"] /\ UNCHANGED <<request, minted, pending, pc>>
      BY <1>12 DEF Sign
    <2>2. /\ ceremony' = [m \in Nonces |-> ceremony'[m]]
          /\ \A m \in Nonces : /\ ceremony'[m] \in {"new", "starting"} => ceremony[m] \in {"new", "starting"}
                               /\ m \in DOMAIN pending => ceremony'[m] \notin {"new", "starting"}
      BY <1>5, <2>1 DEF TokenInv
    <2>3. QED
      BY <2>1, <2>2, TokenFrame DEF Claims
  <1>13. ASSUME NEW n \in Nonces, StartLoad(n)
         PROVE  TokenInv'
    <2>1. /\ ceremony[n] = "new" /\ ceremony' = [ceremony EXCEPT ![n] = "starting"]
          /\ UNCHANGED <<request, minted, pending, pc>>
      BY <1>13 DEF StartLoad
    <2>2. /\ ceremony' = [m \in Nonces |-> ceremony'[m]]
          /\ \A m \in Nonces : /\ ceremony'[m] \in {"new", "starting"} => ceremony[m] \in {"new", "starting"}
                               /\ m \in DOMAIN pending => ceremony'[m] \notin {"new", "starting"}
      BY <1>5, <2>1 DEF TokenInv
    <2>3. QED
      BY <2>1, <2>2, TokenFrame DEF Claims
  <1>14. CASE HubRestart
    <2>1. /\ pc' = [w \in Writers |-> IF w \in InFlight THEN "lost" ELSE pc[w]]
          /\ ceremony' = [n \in Nonces |-> IF ceremony[n] = "starting" THEN "over" ELSE ceremony[n]]
          /\ pending' = Empty /\ UNCHANGED <<request, minted>>
      BY <1>14 DEF HubRestart
    <2>2. \A r \in Posts : Claims(r)' => Claims(r)
      BY <2>1 DEF Claims
    <2>3. \A r \in Posts : pc[r] = "granted" => pc'[r] = "granted"
      BY <2>1 DEF InFlight
    <2>4. DOMAIN pending' = {}
      BY <2>1 DEF Empty
    <2>5. QED
      BY <2>1, <2>2, <2>3, <2>4, TokenFrame
  <1>15. QED
    <2>1. ASSUME \/ \E c \in Creds : Register(c)
                 \/ \E r \in Posts : Logout(r)
                 \/ Tick \/ UNCHANGED vars
          PROVE  TokenInv'
      BY <1>11, <2>1 DEF Register, Logout, Tick, vars
    <2>2. QED
      BY <1>1, <1>2, <1>3, <1>4, <1>7, <1>8, <1>9, <1>10, <1>12, <1>13, <1>14, <2>1
         DEF Next, Finish, Administer

\* A nonce of login_start buys at most one bearer token: login_finish takes
\* its entry out of pending_logins under the mutex before it checks anything,
\* and login_start never puts it back, restarts of the hub included.
THEOREM NonceBuysOneToken == Spec => []OneTokenPerNonce
  <1>1. TokenInv => OneTokenPerNonce
    BY DEF TokenInv, OneTokenPerNonce, Claims
  <1>2. QED
    BY <1>1, InitStore, NextStore, InitCounters, NextCounters, InitTokens, NextTokens, PTL DEF Spec

-----------------------------------------------------------------------------
(* Types and limits.                                                       *)

PostPlaces  == {"idle", "take", "verify", "lock", "save", "mint", "granted", "refused", "lost"}
AdminPlaces == {"idle", "lock", "save", "done"}

\* login_start keeps pending_logins within its limit.
LEMMA PendingBounded ==
  ASSUME TypeOK, [Next]_vars
  PROVE  DOMAIN pending' \subseteq Nonces /\ Cardinality(DOMAIN pending') <= MaxPending
  <1>1. DOMAIN pending \subseteq Nonces /\ Cardinality(DOMAIN pending) <= MaxPending /\ MaxPending \in Nat
    BY PasskeyAssumption DEF TypeOK
  <1>2. IsFiniteSet(DOMAIN pending) /\ Cardinality(DOMAIN pending) \in Nat
    BY <1>1, PasskeyAssumption, FS_Subset, FS_CardinalityType
  <1>3. ASSUME NEW S, S \subseteq DOMAIN pending
        PROVE  S \subseteq Nonces /\ Cardinality(S) <= MaxPending /\ IsFiniteSet(S) /\ Cardinality(S) \in Nat
    <2>1. IsFiniteSet(S) /\ Cardinality(S) <= Cardinality(DOMAIN pending)
      BY <1>2, <1>3, FS_Subset
    <2>2. Cardinality(S) \in Nat
      BY <2>1, FS_CardinalityType
    <2>3. Cardinality(S) <= MaxPending
      BY <1>1, <1>2, <2>1, <2>2
    <2>4. QED
      BY <1>1, <1>3, <2>1, <2>2, <2>3
  <1>4. DOMAIN Live(pending) \subseteq DOMAIN pending
    BY LiveDomain
  <1>5. ASSUME NEW n \in Nonces, StartInsert(n)
        PROVE  DOMAIN pending' \subseteq Nonces /\ Cardinality(DOMAIN pending') <= MaxPending
    <2>1. PICK S : S = DOMAIN Live(pending)
      OBVIOUS
    <2>2. /\ S \subseteq Nonces /\ Cardinality(S) <= MaxPending
          /\ IsFiniteSet(S) /\ Cardinality(S) \in Nat
      BY <1>3, <1>4, <2>1
    <2>3. \/ Cardinality(S) < MaxPending /\ DOMAIN pending' = S \cup {n}
          \/ DOMAIN pending' = S
      BY <1>5, <2>1 DEF StartInsert, HasRoom
    <2>4. CASE Cardinality(S) < MaxPending /\ DOMAIN pending' = S \cup {n}
      <3>1. Cardinality(S \cup {n}) = Cardinality(S) \/ Cardinality(S \cup {n}) = Cardinality(S) + 1
        BY <2>2, FS_AddElement
      <3>2. Cardinality(S \cup {n}) <= MaxPending
        BY <1>1, <2>2, <2>4, <3>1
      <3>3. QED
        BY <2>2, <2>4, <3>2
    <2>5. QED
      BY <2>2, <2>3, <2>4
  <1>6. ASSUME NEW r \in Posts, TakePending(r)
        PROVE  DOMAIN pending' \subseteq DOMAIN pending
    BY <1>4, <1>6 DEF TakePending, Restrict
  <1>7. CASE HubRestart
    <2>1. DOMAIN pending' = {}
      BY <1>7 DEF HubRestart, Empty
    <2>2. QED
      BY <1>3, <2>1
  <1>8. ASSUME \/ \E c \in Creds : Register(c)
               \/ \E n \in Nonces : StartLoad(n) \/ \E c \in Creds : Sign(n, c)
               \/ \E r \in Posts, n, m \in Nonces : Post(r, n, m)
               \/ \E r \in Posts : Verify(r) \/ SaveCounter(r) \/ SaveFails(r) \/ Mint(r) \/ Logout(r)
               \/ \E w \in Writers : LockAndLoad(w)
               \/ \E a \in Admins : AdminAdd(a) \/ AdminRemove(a) \/ AdminBails(a)
               \/ \E a \in Admins, cmd \in Commands : AdminStart(a, cmd)
               \/ Tick \/ UNCHANGED vars
        PROVE  pending' = pending
    BY <1>8 DEF Register, StartLoad, Sign, Post, Verify, SaveCounter, SaveFails, Mint, Logout,
                LockAndLoad, AdminAdd, AdminRemove, AdminBails, AdminEnds, AdminStart, Tick, vars
  <1>9. QED
    BY <1>3, <1>5, <1>6, <1>7, <1>8, WritersDisjoint DEF Next, Finish, Administer

\* Where a request or a process can go from where it is.
LEMMA PlacesKept ==
  ASSUME TypeOK, CounterInv, [Next]_vars
  PROVE  /\ DOMAIN pc' = Writers
         /\ \A r \in Posts : pc'[r] \in PostPlaces
         /\ \A a \in Admins : pc'[a] \in AdminPlaces
  <1> USE WritersDisjoint DEF PostPlaces, AdminPlaces
  <1>1. /\ pc = [w \in Writers |-> pc[w]]
        /\ \A r \in Posts : pc[r] \in PostPlaces
        /\ \A a \in Admins : pc[a] \in AdminPlaces
    BY DEF TypeOK, CounterInv, RequestsSound
  <1>2. \/ pc' = pc
        \/ \E r \in Posts : \E to \in PostPlaces : pc' = [pc EXCEPT ![r] = to]
        \/ \E a \in Admins : \E to \in AdminPlaces : pc' = [pc EXCEPT ![a] = to]
        \/ pc' = [w \in Writers |-> IF w \in InFlight THEN "lost" ELSE pc[w]]
    <2>1. ASSUME \/ \E c \in Creds : Register(c)
                 \/ \E n \in Nonces : StartLoad(n) \/ StartInsert(n) \/ \E c \in Creds : Sign(n, c)
                 \/ \E r \in Posts : Logout(r)
                 \/ Tick \/ UNCHANGED vars
          PROVE  pc' = pc
      BY <2>1 DEF Register, StartLoad, StartInsert, Sign, Logout, Tick, vars
    <2>2. ASSUME NEW r \in Posts,
                 \/ \E n, m \in Nonces : Post(r, n, m)
                 \/ TakePending(r) \/ Verify(r) \/ LockAndLoad(r) \/ SaveCounter(r) \/ SaveFails(r) \/ Mint(r)
          PROVE  \E to \in PostPlaces : pc' = [pc EXCEPT ![r] = to]
      BY <2>2 DEF Post, TakePending, Verify, LockAndLoad, SaveCounter, SaveFails, Mint
    <2>3. ASSUME NEW a \in Admins,
                 \/ LockAndLoad(a) \/ AdminAdd(a) \/ AdminRemove(a) \/ AdminBails(a)
                 \/ \E cmd \in Commands : AdminStart(a, cmd)
          PROVE  \E to \in AdminPlaces : pc' = [pc EXCEPT ![a] = to]
      BY <2>3 DEF LockAndLoad, AdminAdd, AdminRemove, AdminBails, AdminEnds, AdminStart
    <2>4. CASE HubRestart
      BY <2>4 DEF HubRestart
    <2>5. QED
      BY <2>1, <2>2, <2>3, <2>4 DEF Next, Finish, Administer
  <1>3. ASSUME NEW r \in Posts, NEW to \in PostPlaces, pc' = [pc EXCEPT ![r] = to]
        PROVE  /\ DOMAIN pc' = Writers /\ \A q \in Posts : pc'[q] \in PostPlaces
               /\ \A a \in Admins : pc'[a] \in AdminPlaces
    BY <1>1, <1>3
  <1>4. ASSUME NEW a \in Admins, NEW to \in AdminPlaces, pc' = [pc EXCEPT ![a] = to]
        PROVE  /\ DOMAIN pc' = Writers /\ \A q \in Posts : pc'[q] \in PostPlaces
               /\ \A b \in Admins : pc'[b] \in AdminPlaces
    BY <1>1, <1>4
  <1>5. CASE pc' = [w \in Writers |-> IF w \in InFlight THEN "lost" ELSE pc[w]]
    BY <1>1, <1>5 DEF InFlight
  <1>6. QED
    BY <1>1, <1>2, <1>3, <1>4, <1>5

\* The clock, the restarts, the tokens and the commands.
LEMMA RestTyped ==
  ASSUME TypeOK, StoreInv, [Next]_vars
  PROVE  /\ now' \in Nat /\ restarts' \in Nat /\ DOMAIN tokens' \subseteq Posts
         /\ \A a \in Admins : command'[a] \in Commands \cup {None}
         /\ \A w \in Writers : IsStore(copy'[w])
  <1> USE WritersDisjoint
  <1>1. /\ now \in Nat /\ restarts \in Nat /\ DOMAIN tokens \subseteq Posts
        /\ \A a \in Admins : command[a] \in Commands \cup {None}
        /\ IsStore(file) /\ \A w \in Writers : IsStore(copy[w])
    BY DEF TypeOK
  <1>2. now' = now \/ now' = now + 1
    BY DEF Next, Finish, Administer, vars, Register, StartLoad, StartInsert, Sign, Post, TakePending,
           Verify, LockAndLoad, SaveCounter, SaveFails, Mint, Logout, AdminStart, AdminAdd,
           AdminRemove, AdminBails, AdminEnds, Tick, HubRestart
  <1>3. restarts' = restarts \/ restarts' = restarts + 1
    BY DEF Next, Finish, Administer, vars, Register, StartLoad, StartInsert, Sign, Post, TakePending,
           Verify, LockAndLoad, SaveCounter, SaveFails, Mint, Logout, AdminStart, AdminAdd,
           AdminRemove, AdminBails, AdminEnds, Tick, HubRestart
  <1>4. \/ tokens' = tokens \/ tokens' = Empty
        \/ \E r \in Posts : DOMAIN tokens' \subseteq DOMAIN Live(tokens) \cup {r}
    BY DEF Next, Finish, Administer, vars, Register, StartLoad, StartInsert, Sign, Post, TakePending,
           Verify, LockAndLoad, SaveCounter, SaveFails, Mint, Logout, AdminStart, AdminAdd,
           AdminRemove, AdminBails, AdminEnds, Tick, HubRestart, Restrict
  <1>5. \/ command' = command
        \/ \E a \in Admins : \E cmd \in Commands \cup {None} : command' = [command EXCEPT ![a] = cmd]
    BY DEF Next, Finish, Administer, vars, Register, StartLoad, StartInsert, Sign, Post, TakePending,
           Verify, LockAndLoad, SaveCounter, SaveFails, Mint, Logout, AdminStart, AdminAdd,
           AdminRemove, AdminBails, AdminEnds, Tick, HubRestart
  <1>6. \/ copy' = copy
        \/ \E w \in Writers : copy' = [copy EXCEPT ![w] = file] \/ copy' = [copy EXCEPT ![w] = Empty]
        \/ copy' = [w \in Writers |-> IF w \in Posts THEN Empty ELSE copy[w]]
    BY DEF Next, Finish, Administer, vars, store, Register, StartLoad, StartInsert, Sign, Post, TakePending,
           Verify, LockAndLoad, SaveCounter, SaveFails, Mint, Logout, AdminStart, AdminAdd,
           AdminRemove, AdminBails, AdminEnds, Release, Tick, HubRestart
  <1>7. DOMAIN tokens' \subseteq Posts
    BY <1>1, <1>4, LiveDomain DEF Empty
  <1>8. \A a \in Admins : command'[a] \in Commands \cup {None}
    BY <1>1, <1>5 DEF StoreInv, StoreShape
  <1>9. IsStore(Empty)
    BY DEF IsStore, Empty
  <1>10. \A w \in Writers : copy'[w] = copy[w] \/ copy'[w] = file \/ copy'[w] = Empty
    BY <1>6 DEF StoreInv, StoreShape
  <1>11. \A w \in Writers : IsStore(copy'[w])
    BY <1>1, <1>9, <1>10
  <1>12. QED
    BY <1>1, <1>2, <1>3, <1>7, <1>8, <1>11

\* The initial state is well typed.
LEMMA InitTypes == Init => TypeOK
  <1> SUFFICES ASSUME Init PROVE TypeOK
    OBVIOUS
  <1> USE PasskeyAssumption, WritersDisjoint
  <1>1. StoreInv /\ CounterInv
    BY InitStore, InitCounters
  <1>2. IsStore(file) /\ device \in [Creds -> Nat] /\ lock \in Writers \cup {None} /\ admitted \subseteq Creds
    BY <1>1 DEF IsStore, CounterInv, FileSound, BlobsSound, StoreInv, StoreShape, StoreMatchesAdmin
  <1>3. DOMAIN pending = {} /\ DOMAIN tokens = {} /\ \A w \in Writers : copy[w] = Empty /\ pc[w] = "idle"
    BY DEF Init, Empty
  <1>4. IsStore(Empty)
    BY DEF IsStore, Empty
  <1>5. Cardinality({}) = 0
    BY FS_EmptySet
  <1>6. /\ Cardinality(DOMAIN pending) <= MaxPending /\ now \in Nat /\ restarts \in Nat
        /\ DOMAIN pc = Writers /\ \A a \in Admins : command[a] = None
    BY <1>3, <1>5 DEF Init
  <1>7. QED
    BY <1>2, <1>3, <1>4, <1>6 DEF TypeOK

\* Every step keeps the types, and pending_logins its limit.
LEMMA NextTypes == StoreInv /\ CounterInv /\ TypeOK /\ [Next]_vars => TypeOK'
  <1> SUFFICES ASSUME StoreInv, CounterInv, TypeOK, [Next]_vars
               PROVE  TypeOK'
    OBVIOUS
  <1>1. StoreInv' /\ CounterInv'
    BY NextStore, NextCounters
  <1>2. /\ IsStore(file)' /\ device' \in [Creds -> Nat] /\ lock' \in Writers \cup {None}
        /\ admitted' \subseteq Creds
    BY <1>1 DEF IsStore, CounterInv, FileSound, BlobsSound, StoreInv, StoreShape, StoreMatchesAdmin
  <1>3. QED
    BY <1>2, PendingBounded, PlacesKept, RestTyped DEF TypeOK, IsStore, PostPlaces, AdminPlaces

\* Every variable keeps its type, and login_start, which anyone may call, never
\* takes pending_logins past MAX_PENDING_LOGINS, for any limit.
THEOREM PasskeyTypes == Spec => []TypeOK
  BY InitStore, NextStore, InitCounters, NextCounters, InitTypes, NextTypes, PTL DEF Spec

=============================================================================
