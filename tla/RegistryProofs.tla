--------------------------- MODULE RegistryProofs ---------------------------
(***************************************************************************)
(* The two registries a session is reached through, proved for every value *)
(* of their constants and any length of run: the agent's registry of       *)
(* sessions (SessionManager), for any finite set of session ids and any    *)
(* number of tasks; and the hub's registries of links and of streams       *)
(* (AgentLink), for any number of connections and proxies and any channel  *)
(* capacities.                                                             *)
(***************************************************************************)
EXTENDS SessionManager, AgentLink, FiniteSetTheorems, SequenceTheorems, TLAPS

-----------------------------------------------------------------------------
(* The agent's registry of sessions.                                       *)

\* The inductive invariant.  MapById makes DoomedUnmapped inductive: removing
\* a victim's id from the map removes the victim, if it is still there.
ManagerInv ==
  /\ TypeOK
  /\ MapById
  /\ MapCapped
  /\ DoomedUnmapped

\* The ids with a session are a finite set, in this state and the next.
LEMMA MappedFinite ==
  IsFiniteSet(Mapped) /\ Cardinality(Mapped) \in Nat
  <1>1. Mapped \subseteq Ids /\ IsFiniteSet(Ids)
    BY ManagerAssumption DEF Mapped
  <1>2. QED
    BY <1>1, FS_Subset, FS_CardinalityType

\* Emptying an entry does not raise the number of mapped ids.
LEMMA RemoveCapped ==
  ASSUME NEW id \in Ids, map \in [Ids -> Nat], MapCapped,
         map' = [map EXCEPT ![id] = 0]
  PROVE  MapCapped'
  <1>1. Mapped' \subseteq Mapped
    BY DEF Mapped
  <1>2. Cardinality(Mapped') <= Cardinality(Mapped) /\ Cardinality(Mapped') \in Nat
    BY <1>1, MappedFinite, FS_Subset, FS_CardinalityType
  <1>3. QED
    BY <1>2, MappedFinite, ManagerAssumption DEF MapCapped

\* A session inserted where the cap allows keeps the map within the cap,
\* whether or not it replaces an exited one.
LEMMA InsertCapped ==
  ASSUME NEW id \in Ids, NEW n \in Nat, map \in [Ids -> Nat], BelowCap(id),
         map' = [map EXCEPT ![id] = n]
  PROVE  MapCapped'
  <1> DEFINE others == Mapped \ {id}
  <1>1. IsFiniteSet(others) /\ Cardinality(others) \in Nat
    BY MappedFinite, FS_Subset, FS_CardinalityType
  <1>2. IsFiniteSet(others \cup {id}) /\ Cardinality(others \cup {id}) = Cardinality(others) + 1
    BY <1>1, FS_AddElement
  <1>3. Mapped' \subseteq others \cup {id}
    BY DEF Mapped
  <1>4. Cardinality(Mapped') <= Cardinality(others \cup {id}) /\ Cardinality(Mapped') \in Nat
    BY <1>2, <1>3, FS_Subset, FS_CardinalityType
  <1>5. Cardinality(others) < MaxSessions
    BY DEF BelowCap
  <1>6. QED
    BY <1>1, <1>2, <1>4, <1>5, ManagerAssumption DEF MapCapped

\* An unchanged map stays within the cap.
LEMMA SameCapped ==
  ASSUME MapCapped, UNCHANGED map
  PROVE  MapCapped'
  BY DEF MapCapped, Mapped

\* The initial state satisfies the invariant.
LEMMA ManagerStarts == ManagerInit => ManagerInv
  <1> SUFFICES ASSUME ManagerInit
               PROVE  ManagerInv
    OBVIOUS
  <1>1. TypeOK /\ MapById /\ DoomedUnmapped
    BY ManagerAssumption DEF ManagerInit, TypeOK, MapById, DoomedUnmapped, Sessions
  <1>2. Mapped = {}
    BY DEF ManagerInit, Mapped
  <1>3. MapCapped
    BY <1>2, FS_EmptySet, ManagerAssumption DEF MapCapped
  <1>4. QED
    BY <1>1, <1>3 DEF ManagerInv

\* Every step keeps the invariant: one step per action.
LEMMA ManagerKeeps == ManagerInv /\ [ManagerNext]_managerVars => ManagerInv'
  <1> SUFFICES ASSUME ManagerInv, [ManagerNext]_managerVars
               PROVE  ManagerInv'
    OBVIOUS
  <1> USE ManagerAssumption DEF ManagerInv, MapById, DoomedUnmapped, Sessions,
      sessions, tasks, sweeper, killer
  <1>0. map \in [Ids -> Nat] /\ spawned \in Nat /\ victim \in Nat
    BY DEF TypeOK
  <1>1. ASSUME NEW t \in Tasks, NEW id \in Ids, LookupLive(t, id)
        PROVE  ManagerInv'
    BY <1>1, SameCapped DEF LookupLive, TypeOK
  <1>2. ASSUME NEW t \in Tasks, NEW id \in Ids, LookupSpawn(t, id)
        PROVE  ManagerInv'
    <2>1. MapCapped'
      <3>1. BelowCap(id) /\ map' = [map EXCEPT ![id] = spawned + 1]
        BY <1>2 DEF LookupSpawn
      <3>2. spawned + 1 \in Nat
        BY <1>0
      <3>3. QED
        BY <1>0, <3>1, <3>2, InsertCapped
    <2>2. TypeOK'
      BY <1>2 DEF LookupSpawn, TypeOK
    <2>3. MapById'
      BY <1>2 DEF LookupSpawn, TypeOK
    <2>4. DoomedUnmapped'
      BY <1>2 DEF LookupSpawn, TypeOK
    <2>5. QED
      BY <2>1, <2>2, <2>3, <2>4
  <1>3. ASSUME NEW t \in Tasks, NEW id \in Ids, LookupRefused(t, id)
        PROVE  ManagerInv'
    <2>1. MapCapped'
      BY <1>0, <1>3, RemoveCapped DEF LookupRefused
    <2>2. QED
      BY <1>3, <2>1 DEF LookupRefused, TypeOK
  <1>4. ASSUME NEW t \in Tasks, Attach(t) \/ Detach(t)
        PROVE  ManagerInv'
    BY <1>4, SameCapped DEF Attach, Detach, TypeOK
  <1>5. ASSUME NEW i \in Sessions, ShellExits(i) \/ MarkExited(i) \/ TtlElapses(i)
        PROVE  ManagerInv'
    <2>1. CASE ShellExits(i)
      BY <2>1, SameCapped DEF ShellExits, TypeOK
    <2>2. CASE MarkExited(i)
      BY <2>2, SameCapped DEF MarkExited, TypeOK
    <2>3. CASE TtlElapses(i)
      BY <2>3, SameCapped DEF TtlElapses, TypeOK
    <2>4. QED
      BY <1>5, <2>1, <2>2, <2>3
  <1>6. ASSUME NEW i \in Sessions, KillShell(i)
        PROVE  ManagerInv'
    BY <1>6, SameCapped DEF KillShell, TypeOK
  <1>7. ASSUME NEW id \in Ids, KillRemove(id)
        PROVE  ManagerInv'
    <2>1. MapCapped'
      BY <1>0, <1>7, RemoveCapped DEF KillRemove
    <2>2. TypeOK'
      <3>1. map' \in [Ids -> 0..spawned]
        BY <1>7 DEF KillRemove, TypeOK
      <3>2. killing' \subseteq 1..spawned
        <4>1. map[id] \in 1..spawned
          BY <1>7 DEF KillRemove, TypeOK
        <4>2. killing \subseteq 1..spawned /\ killing' = killing \cup {map[id]}
          BY <1>7 DEF KillRemove, TypeOK
        <4>3. QED
          BY <4>1, <4>2
      <3>3. kills' \in 0..MaxKills
        BY <1>7 DEF KillRemove, TypeOK
      <3>4. QED
        BY <1>7, <3>1, <3>2, <3>3 DEF KillRemove, TypeOK
    <2>3. QED
      BY <1>7, <2>1, <2>2 DEF KillRemove, TypeOK
  <1>8. ASSUME GcCollect
        PROVE  ManagerInv'
    <2>1. drops' \subseteq 1..spawned
      BY <1>8 DEF GcCollect, Mapped, TypeOK
    <2>2. QED
      BY <1>8, <2>1, SameCapped DEF GcCollect, TypeOK
  <1>9. ASSUME NEW i \in Sessions, GcRemove(i)
        PROVE  ManagerInv'
    <2>1. i \in 1..spawned /\ idOf[i] \in Ids
      BY <1>9 DEF GcRemove, TypeOK
    <2>2. MapCapped'
      BY <1>0, <1>9, <2>1, RemoveCapped DEF GcRemove
    <2>3. TypeOK'
      BY <1>9, <2>1 DEF GcRemove, TypeOK
    <2>4. QED
      BY <1>9, <2>1, <2>2, <2>3 DEF GcRemove, TypeOK
  <1>10. ASSUME GcKill
         PROVE  ManagerInv'
    BY <1>10, SameCapped DEF GcKill, TypeOK
  <1>11. CASE UNCHANGED managerVars
    BY <1>11, SameCapped DEF managerVars, TypeOK
  <1>12. QED
    BY <1>1, <1>2, <1>3, <1>4, <1>5, <1>6, <1>7, <1>8, <1>9, <1>10, <1>11
       DEF ManagerNext, SweeperStep

\* The inductive invariant holds in every reachable state.
THEOREM ManagerInvariant == ManagerSpec => []ManagerInv
  BY ManagerStarts, ManagerKeeps, PTL DEF ManagerSpec

\* lookup_or_spawn never lets the registry exceed max_sessions.
THEOREM RegistryIsCapped == ManagerSpec => []MapCapped
  <1>1. ManagerInv => MapCapped
    BY DEF ManagerInv
  <1>2. QED
    BY <1>1, ManagerInvariant, PTL

\* A session about to be killed by gc_pass or KillSession is out of the registry.
THEOREM DoomedIsUnmapped == ManagerSpec => []DoomedUnmapped
  <1>1. ManagerInv => DoomedUnmapped
    BY DEF ManagerInv
  <1>2. QED
    BY <1>1, ManagerInvariant, PTL

-----------------------------------------------------------------------------
(* The hub's registries of links and of streams.                           *)

ReaderStates == {"new", "busy", "wait", "pong", "unmap", "clear", "notify", "join", "done"}
WriterStates == {"none", "start", "wait", "send", "closed"}
ProxyStates  == {"new", "found", "opened", "open", "bye", "end", "closing", "closed"}

LinkTypes ==
  /\ agents \in Conns \cup {None}
  /\ evicted \subseteq Conns
  /\ rd \in [Conns -> ReaderStates]
  /\ wr \in [Conns -> WriterStates]
  /\ queue \in [Conns -> Nat]
  /\ streams \in [Conns -> SUBSET Proxies]
  /\ px \in [Proxies -> ProxyStates]
  /\ link \in [Proxies -> Conns \cup {None}]
  /\ inbox \in [Proxies -> Seq(Nat)]
  /\ routed \in [Proxies -> Nat]
  /\ got \in [Proxies -> Nat]

\* A link can only be evicted once it has been registered.
EvictedWasRegistered == \A c \in evicted : rd[c] # "new"

\* A proxy past its lookup knows its link.
ProxyHasLink == \A p \in Proxies : px[p] \notin {"new", "closed"} => link[p] \in Conns

\* Once run_proxy has returned nothing of an earlier stream is left.
StreamStartsEmpty ==
  \A p \in Proxies : ~Receiving(p) => inbox[p] = <<>> /\ routed[p] = 0 /\ got[p] = 0

\* The inductive invariant.  MapIsNewestLink needs that a connection which
\* registers was not evicted before; StreamHasNoGap that open_stream starts from
\* an empty channel; both registry properties that a proxy's link never changes.
LinkInv ==
  /\ LinkTypes
  /\ EvictedWasRegistered
  /\ MapIsNewestLink
  /\ ProxyHasLink
  /\ NoLeakedStream
  /\ StreamStartsEmpty
  /\ StreamHasNoGap

\* Putting the next number at the end of a run of consecutive numbers.
LEMMA AppendNumber ==
  ASSUME NEW n \in Nat, NEW s \in Seq(Nat), s = [i \in 1..Len(s) |-> n + i]
  PROVE  LET t == Append(s, n + Len(s) + 1)
         IN  t \in Seq(Nat) /\ Len(t) = Len(s) + 1 /\ t = [i \in 1..Len(t) |-> n + i]
  <1> DEFINE t == Append(s, n + Len(s) + 1)
  <1>1. t \in Seq(Nat) /\ Len(t) = Len(s) + 1
    OBVIOUS
  <1>2. \A i \in 1..Len(t) : t[i] = n + i
    OBVIOUS
  <1>3. QED
    BY <1>1, <1>2

\* Taking the first number off it.
LEMMA TakeNumber ==
  ASSUME NEW n \in Nat, NEW s \in Seq(Nat), s # <<>>, s = [i \in 1..Len(s) |-> n + i]
  PROVE  /\ Head(s) = n + 1 /\ Tail(s) \in Seq(Nat) /\ Len(Tail(s)) = Len(s) - 1
         /\ Tail(s) = [i \in 1..Len(Tail(s)) |-> n + 1 + i]
  <1>1. Head(s) = n + 1 /\ Tail(s) \in Seq(Nat) /\ Len(Tail(s)) = Len(s) - 1
    OBVIOUS
  <1>2. \A i \in 1..Len(Tail(s)) : Tail(s)[i] = n + 1 + i
    OBVIOUS
  <1>3. Tail(s) \in [1..Len(Tail(s)) -> Nat]
    BY <1>1, LenProperties
  <1>4. Tail(s) = [i \in 1..Len(Tail(s)) |-> n + 1 + i]
    BY <1>2, <1>3
  <1>5. QED
    BY <1>1, <1>4

\* Enqueue keeps the type of the writer queues.
LEMMA EnqueueType ==
  ASSUME LinkTypes, NEW c \in Conns, Enqueue(c)
  PROVE  queue' \in [Conns -> Nat]
  <1>1. queue \in [Conns -> Nat]
    BY DEF LinkTypes
  <1>2. QED
    BY <1>1 DEF Enqueue

\* The hub starts without a link and without a stream.
LEMMA InitLink == Init => LinkInv
  <1> SUFFICES ASSUME Init
               PROVE  LinkInv
    OBVIOUS
  <1>1. <<>> \in Seq(Nat) /\ Len(<<>>) = 0
    OBVIOUS
  <1>2. LinkTypes
    BY <1>1 DEF Init, LinkTypes, ReaderStates, WriterStates, ProxyStates
  <1>3. QED
    BY <1>2, LinkAssumption
       DEF Init, LinkInv, EvictedWasRegistered, MapIsNewestLink, Running, ProxyHasLink,
           NoLeakedStream, StreamStartsEmpty, StreamHasNoGap, Receiving

\* A step that touches neither the streams nor the proxies keeps what is said
\* of them.
LEMMA MuxUntouched ==
  ASSUME LinkInv, UNCHANGED <<mux, proxy>>
  PROVE  ProxyHasLink' /\ NoLeakedStream' /\ StreamStartsEmpty' /\ StreamHasNoGap'
  BY DEF LinkInv, mux, proxy, ProxyHasLink, NoLeakedStream, StreamStartsEmpty,
     StreamHasNoGap, Receiving

\* A step that touches neither the map nor a reader keeps what is said of them.
LEMMA MapUntouched ==
  ASSUME LinkInv, UNCHANGED <<agents, evicted, rd>>
  PROVE  EvictedWasRegistered' /\ MapIsNewestLink'
  BY DEF LinkInv, EvictedWasRegistered, MapIsNewestLink

\* The steps of handle_connection's reader, with registration and teardown.
LEMMA ReaderKeeps ==
  ASSUME LinkInv, NEW c \in Conns,
         \/ Register(c) \/ HelloFails(c) \/ ReaderStep(c) \/ ReaderEnd(c) \/ ReaderPing(c)
  PROVE  LinkInv'
  <1> USE LinkAssumption DEF LinkInv, LinkTypes, EvictedWasRegistered, MapIsNewestLink, Running,
      registry, mux, proxy, Move
  <1>1. CASE Register(c)
    <2>1. LinkTypes'
      BY <1>1 DEF Register, ReaderStates, WriterStates
    <2>2. EvictedWasRegistered' /\ MapIsNewestLink'
      BY <1>1 DEF Register, ReaderStates
    <2>3. QED
      BY <1>1, <2>1, <2>2, MuxUntouched DEF Register
  <1>2. CASE HelloFails(c)
    BY <1>2, MuxUntouched DEF HelloFails, ReaderStates
  <1>3. CASE ReaderLoop(c) \/ ReaderEvicted(c) \/ ReaderEnd(c) \/ ReaderPing(c)
    BY <1>3, MuxUntouched DEF ReaderLoop, ReaderEvicted, ReaderEnd, ReaderPing, ReaderStates
  <1>4. CASE ReaderPong(c)
    BY <1>4, MuxUntouched, EnqueueType DEF ReaderPong, ReaderStates
  <1>5. CASE Unmap(c)
    <2>1. LinkTypes'
      BY <1>5 DEF Unmap, ReaderStates
    <2>2. EvictedWasRegistered' /\ MapIsNewestLink'
      BY <1>5 DEF Unmap
    <2>3. QED
      BY <1>5, <2>1, <2>2, MuxUntouched DEF Unmap
  <1>6. CASE ClearStreams(c)
    <2>1. LinkTypes' /\ EvictedWasRegistered' /\ MapIsNewestLink'
      BY <1>6 DEF ClearStreams, ReaderStates
    <2>2. ProxyHasLink' /\ NoLeakedStream' /\ StreamStartsEmpty' /\ StreamHasNoGap'
      BY <1>6 DEF ClearStreams, ProxyHasLink, NoLeakedStream, StreamStartsEmpty,
         StreamHasNoGap, Receiving
    <2>3. QED
      BY <2>1, <2>2
  <1>7. CASE NotifyWriter(c) \/ JoinWriter(c)
    BY <1>7, MuxUntouched DEF NotifyWriter, JoinWriter, ReaderStates
  <1>8. QED
    BY <1>1, <1>2, <1>3, <1>4, <1>5, <1>6, <1>7 DEF ReaderStep

\* The steps of the writer task, none of which touches the map or a stream.
LEMMA WriterKeeps ==
  ASSUME LinkInv, NEW c \in Conns, WriterStep(c) \/ WriterFails(c)
  PROVE  LinkInv'
  <1> USE DEF WriterStep, WriterLoop, WriterEvicted, WriterTake, WriterSent, WriterFails, WriterMove
  <1>1. UNCHANGED <<agents, evicted, rd>> /\ UNCHANGED <<mux, proxy>>
    BY DEF registry
  <1>2. wr' \in [Conns -> WriterStates]
    BY DEF LinkInv, LinkTypes, WriterStates
  <1>3. queue' \in [Conns -> Nat]
    <2>1. queue \in [Conns -> Nat]
      BY DEF LinkInv, LinkTypes
    <2>2. QED
      BY <2>1
  <1>4. LinkTypes'
    BY <1>1, <1>2, <1>3 DEF LinkInv, LinkTypes, mux, proxy
  <1>5. QED
    BY <1>1, <1>4, MuxUntouched, MapUntouched DEF LinkInv

\* A frame of a stream is appended to what the proxy has yet to read, or the
\* stream is reset.
LEMMA FrameKeeps ==
  ASSUME LinkInv, NEW c \in Conns, NEW p \in Proxies, ReaderFrame(c, p)
  PROVE  LinkInv'
  <1> USE DEF LinkInv, LinkTypes, Move, registry, proxy
  <1> DEFINE n    == routed[p] + 1
             fits == Receiving(p) /\ Len(inbox[p]) < ChanCap
  <1>1. EvictedWasRegistered' /\ MapIsNewestLink'
    BY DEF ReaderFrame, EvictedWasRegistered, MapIsNewestLink, Running
  <1>2. n \in Nat /\ Append(inbox[p], n) \in Seq(Nat)
    OBVIOUS
  <1>3. LinkTypes'
    BY <1>2 DEF ReaderFrame, Route, ReaderStates
  <1>4. ProxyHasLink' /\ NoLeakedStream'
    BY DEF ReaderFrame, Route, ProxyHasLink, NoLeakedStream
  <1>5. StreamStartsEmpty'
    BY DEF ReaderFrame, Route, StreamStartsEmpty, Receiving
  <1>6. StreamHasNoGap'
    <2> SUFFICES ASSUME NEW q \in Proxies, Receiving(q)
                 PROVE  /\ inbox'[q] = [i \in 1..Len(inbox'[q]) |-> got[q] + i]
                        /\ q \in streams'[link[q]] => got[q] + Len(inbox'[q]) = routed'[q]
      BY DEF StreamHasNoGap, ReaderFrame, Receiving
    <2>1. CASE q # p
      <3>1. inbox'[q] = inbox[q] /\ routed'[q] = routed[q]
        BY <2>1 DEF ReaderFrame, Route
      <3>2. q \in streams'[link[q]] => q \in streams[link[q]]
        BY DEF ReaderFrame, Route, ProxyHasLink, Receiving
      <3>3. QED
        BY <3>1, <3>2 DEF StreamHasNoGap
    <2>2. CASE q = p /\ p \in streams[c] /\ fits
      <3>1. inbox'[p] = Append(inbox[p], n) /\ routed'[p] = n /\ link[p] = c
        BY <2>2 DEF ReaderFrame, Route
      <3>2. n = got[p] + Len(inbox[p]) + 1
        BY <2>2, <3>1 DEF StreamHasNoGap
      <3>3. QED
        BY <2>2, <3>1, <3>2, AppendNumber DEF StreamHasNoGap
    <2>3. CASE q = p /\ ~(p \in streams[c] /\ fits)
      <3>1. inbox'[p] = inbox[p] /\ p \notin streams'[c] /\ link[p] = c
        BY <2>3 DEF ReaderFrame, Route
      <3>2. QED
        BY <2>3, <3>1 DEF StreamHasNoGap
    <2>4. QED
      BY <2>1, <2>2, <2>3
  <1>7. QED
    BY <1>1, <1>3, <1>4, <1>5, <1>6

\* The end of the relaying leaves the stream as it is.
LEMMA StreamEndsKeeps ==
  ASSUME LinkInv, NEW p \in Proxies, Receiving(p), StreamEnds(p),
         queue' \in [Conns -> Nat], UNCHANGED <<registry, loops>>
  PROVE  LinkInv'
  <1> USE DEF LinkInv, LinkTypes, registry, loops, StreamEnds
  <1>2. LinkTypes'
    BY DEF ProxyStates
  <1>3. EvictedWasRegistered' /\ MapIsNewestLink'
    BY MapUntouched
  <1>4. ProxyHasLink' /\ NoLeakedStream'
    BY DEF ProxyHasLink, NoLeakedStream, Receiving
  <1>5. StreamStartsEmpty' /\ StreamHasNoGap'
    BY DEF StreamStartsEmpty, StreamHasNoGap, Receiving
  <1>6. QED
    BY <1>2, <1>3, <1>4, <1>5

\* The steps of term_ws, run_proxy and the StreamGuard.
LEMMA ProxyKeeps ==
  ASSUME LinkInv, NEW p \in Proxies,
         \/ ProxyFind(p) \/ ProxyRefused(p) \/ ProxyStep(p)
         \/ ProxyUplink(p, {"open"}) \/ ProxyWsEnd(p)
         \/ BrowserReads(p) \/ ProxyReturns(p)
  PROVE  LinkInv'
  <1> USE LinkAssumption DEF LinkInv, LinkTypes, registry, loops, mux, ProxyMove
  <1>1. CASE ProxyFind(p)
    <2>1. LinkTypes' /\ ProxyHasLink'
      BY <1>1 DEF ProxyFind, HasRoom, ProxyStates, ProxyHasLink
    <2>2. NoLeakedStream' /\ StreamStartsEmpty' /\ StreamHasNoGap'
      BY <1>1 DEF ProxyFind, NoLeakedStream, StreamStartsEmpty, StreamHasNoGap, Receiving
    <2>3. QED
      BY <1>1, <2>1, <2>2, MapUntouched DEF ProxyFind
  <1>2. CASE ProxyRefused(p)
    <2>1. LinkTypes' /\ ProxyHasLink'
      BY <1>2 DEF ProxyRefused, ProxyStates, ProxyHasLink
    <2>2. NoLeakedStream' /\ StreamStartsEmpty' /\ StreamHasNoGap'
      BY <1>2 DEF ProxyRefused, NoLeakedStream, StreamStartsEmpty, StreamHasNoGap, Receiving
    <2>3. QED
      BY <1>2, <2>1, <2>2, MapUntouched DEF ProxyRefused
  <1>3. CASE ProxyOpen(p)
    <2>1. link[p] \in Conns
      BY <1>3 DEF ProxyOpen, ProxyHasLink
    <2>2. LinkTypes' /\ ProxyHasLink'
      BY <1>3, <2>1 DEF ProxyOpen, ProxyStates, ProxyHasLink
    <2>3. NoLeakedStream'
      BY <1>3, <2>1 DEF ProxyOpen, NoLeakedStream
    <2>4. StreamStartsEmpty' /\ StreamHasNoGap'
      <3>1. inbox[p] = <<>> /\ routed[p] = 0 /\ got[p] = 0
        BY <1>3 DEF ProxyOpen, StreamStartsEmpty, Receiving
      <3>2. <<>> = [i \in 1..Len(<<>>) |-> 0 + i] /\ Len(<<>>) = 0
        OBVIOUS
      <3>3. \A q \in Proxies : q # p => (q \in streams'[link[q]] => q \in streams[link[q]])
        BY <1>3, <2>1 DEF ProxyOpen
      <3>4. StreamStartsEmpty'
        BY <1>3 DEF ProxyOpen, StreamStartsEmpty, Receiving
      <3>5. StreamHasNoGap'
        BY <1>3, <3>1, <3>2, <3>3 DEF ProxyOpen, StreamHasNoGap, Receiving
      <3>6. QED
        BY <3>4, <3>5
    <2>5. QED
      BY <1>3, <2>2, <2>3, <2>4, MapUntouched DEF ProxyOpen
  <1>4. ASSUME ProxyUplink(p, {"open"}) \/ ProxyUplink(p, {"opened"})
        PROVE  LinkInv'
    <2>1. link[p] \in Conns /\ Receiving(p)
      BY <1>4 DEF ProxyUplink, ProxyHasLink, Receiving
    <2>2. queue' \in [Conns -> Nat]
      BY <1>4, <2>1, EnqueueType DEF ProxyUplink
    <2>3. CASE wr[link[p]] = "closed"
      BY <1>4, <2>1, <2>2, <2>3, StreamEndsKeeps DEF ProxyUplink
    <2>4. CASE wr[link[p]] # "closed"
      <3>1. px' = [px EXCEPT ![p] = "open"] /\ UNCHANGED <<registry, loops, mux, link>>
        BY <1>4, <2>4 DEF ProxyUplink
      <3>2. LinkTypes' /\ ProxyHasLink'
        BY <2>1, <2>2, <3>1 DEF ProxyStates, ProxyHasLink
      <3>3. NoLeakedStream' /\ StreamStartsEmpty' /\ StreamHasNoGap'
        BY <2>1, <3>1 DEF NoLeakedStream, StreamStartsEmpty, StreamHasNoGap, Receiving
      <3>4. QED
        BY <3>1, <3>2, <3>3, MapUntouched
    <2>5. QED
      BY <2>3, <2>4
  <1>5. CASE ProxyDownlink(p)
    <2>1. /\ inbox[p] \in Seq(Nat) /\ inbox[p] # <<>> /\ got[p] \in Nat
          /\ inbox[p] = [i \in 1..Len(inbox[p]) |-> got[p] + i]
      BY <1>5 DEF ProxyDownlink, StreamHasNoGap, Relaying, Receiving
    <2>2. /\ Head(inbox[p]) = got[p] + 1
          /\ Tail(inbox[p]) \in Seq(Nat) /\ Len(Tail(inbox[p])) = Len(inbox[p]) - 1
          /\ Tail(inbox[p]) = [i \in 1..Len(Tail(inbox[p])) |-> got[p] + 1 + i]
      BY <2>1, TakeNumber
    <2>3. LinkTypes' /\ ProxyHasLink' /\ NoLeakedStream' /\ StreamStartsEmpty'
      BY <1>5, <2>2 DEF ProxyDownlink, proxy, ProxyHasLink, NoLeakedStream, StreamStartsEmpty, Relaying, Receiving
    <2>4. StreamHasNoGap'
      <3> SUFFICES ASSUME NEW q \in Proxies, Receiving(q)
                   PROVE  /\ inbox'[q] = [i \in 1..Len(inbox'[q]) |-> got'[q] + i]
                          /\ q \in streams[link[q]] => got'[q] + Len(inbox'[q]) = routed[q]
        BY <1>5 DEF StreamHasNoGap, ProxyDownlink, proxy, Receiving
      <3>1. CASE q # p
        BY <1>5, <3>1 DEF ProxyDownlink, StreamHasNoGap
      <3>2. CASE q = p
        <4>1. inbox'[p] = Tail(inbox[p]) /\ got'[p] = got[p] + 1
          BY <1>5, <2>2 DEF ProxyDownlink
        <4>2. p \in streams[link[p]] => got[p] + Len(inbox[p]) = routed[p]
          BY <1>5 DEF ProxyDownlink, StreamHasNoGap, Relaying, Receiving
        <4>3. Len(inbox[p]) \in Nat
          BY <2>1
        <4>4. QED
          BY <2>1, <2>2, <3>2, <4>1, <4>2, <4>3
      <3>3. QED
        BY <3>1, <3>2
    <2>5. QED
      BY <1>5, <2>3, <2>4, MapUntouched DEF ProxyDownlink
  <1>6. CASE ProxyEof(p) \/ ProxyWsEnd(p)
    BY <1>6, StreamEndsKeeps DEF ProxyEof, ProxyWsEnd, Relaying, Receiving
  <1>7. CASE GuardRemove(p)
    <2>1. link[p] \in Conns
      BY <1>7 DEF GuardRemove, ProxyHasLink
    <2>2. LinkTypes' /\ ProxyHasLink'
      BY <1>7, <2>1 DEF GuardRemove, ProxyStates, ProxyHasLink
    <2>3. NoLeakedStream'
      BY <1>7, <2>1 DEF GuardRemove, NoLeakedStream
    <2>4. StreamStartsEmpty' /\ StreamHasNoGap'
      BY <1>7, <2>1 DEF GuardRemove, StreamStartsEmpty, StreamHasNoGap, Receiving
    <2>5. QED
      BY <1>7, <2>2, <2>3, <2>4, MapUntouched DEF GuardRemove
  <1>8. CASE GuardClose(p)
    <2>1. queue' \in [Conns -> Nat]
      BY <1>8, EnqueueType DEF GuardClose, ProxyHasLink
    <2>2. LinkTypes' /\ ProxyHasLink'
      BY <1>8, <2>1 DEF GuardClose, ProxyStates, ProxyHasLink
    <2>3. NoLeakedStream' /\ StreamStartsEmpty' /\ StreamHasNoGap'
      BY <1>8 DEF GuardClose, NoLeakedStream, StreamStartsEmpty, StreamHasNoGap, Receiving
    <2>4. QED
      BY <1>8, <2>2, <2>3, MapUntouched DEF GuardClose
  <1>9. CASE BrowserReads(p)
    <2>1. UNCHANGED <<agents, evicted, rd>> /\ LinkTypes'
      BY <1>9 DEF BrowserReads, proxy
    <2>2. ProxyHasLink' /\ NoLeakedStream' /\ StreamStartsEmpty' /\ StreamHasNoGap'
      BY <1>9 DEF BrowserReads, proxy, ProxyHasLink, NoLeakedStream, StreamStartsEmpty,
         StreamHasNoGap, Receiving
    <2>3. QED
      BY <2>1, <2>2, MapUntouched
  <1>10. CASE ProxyReturns(p)
    <2>1. <<>> \in Seq(Nat)
      OBVIOUS
    <2>2. LinkTypes' /\ ProxyHasLink'
      BY <1>10, <2>1 DEF ProxyReturns, ProxyStates, ProxyHasLink
    <2>3. NoLeakedStream'
      BY <1>10 DEF ProxyReturns, NoLeakedStream
    <2>4. StreamStartsEmpty'
      BY <1>10 DEF ProxyReturns, StreamStartsEmpty, Receiving
    <2>5. StreamHasNoGap'
      BY <1>10 DEF ProxyReturns, StreamHasNoGap, Receiving
    <2>6. QED
      BY <1>10, <2>2, <2>3, <2>4, <2>5, MapUntouched DEF ProxyReturns
  <1>11. QED
    BY <1>1, <1>2, <1>3, <1>4, <1>5, <1>6, <1>7, <1>8, <1>9, <1>10 DEF ProxyStep

\* Every step keeps the inductive invariant.
LEMMA NextLink == LinkInv /\ [Next]_vars => LinkInv'
  <1> SUFFICES ASSUME LinkInv, [Next]_vars
               PROVE  LinkInv'
    OBVIOUS
  <1>1. CASE UNCHANGED vars
    <2>1. UNCHANGED <<agents, evicted, rd>> /\ UNCHANGED <<mux, proxy>>
      BY <1>1 DEF vars, registry, loops
    <2>2. LinkTypes'
      BY <1>1 DEF LinkInv, LinkTypes, vars, registry, loops, mux, proxy
    <2>3. QED
      BY <2>1, <2>2, MuxUntouched, MapUntouched DEF LinkInv
  <1>2. CASE Next
    BY <1>2, ReaderKeeps, WriterKeeps, FrameKeeps, ProxyKeeps DEF Next
  <1>3. QED
    BY <1>1, <1>2

\* The inductive invariant holds in every reachable state.
THEOREM LinkInvariant == Spec => []LinkInv
  BY InitLink, NextLink, PTL DEF Spec

\* For any number of reconnects, whose teardowns overlap in any order: the map
\* of handle_connection holds the newest link, and only while its reader runs.
THEOREM MapHoldsNewestLink == Spec => []MapIsNewestLink
  <1>1. LinkInv => MapIsNewestLink
    BY DEF LinkInv
  <1>2. QED
    BY <1>1, LinkInvariant, PTL

\* No entry of AgentLink.streams outlives the StreamGuard of its proxy, even
\* when open_stream comes after the teardown that cleared the registry.
THEOREM StreamsAreOwned == Spec => []NoLeakedStream
  <1>1. LinkInv => NoLeakedStream
    BY DEF LinkInv
  <1>2. QED
    BY <1>1, LinkInvariant, PTL

\* A browser never sees its stream with a frame missing or out of order,
\* whatever the capacity of the channel.
THEOREM StreamsHaveNoGap == Spec => []StreamHasNoGap
  <1>1. LinkInv => StreamHasNoGap
    BY DEF LinkInv
  <1>2. QED
    BY <1>1, LinkInvariant, PTL

=============================================================================
