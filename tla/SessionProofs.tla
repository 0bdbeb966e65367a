--------------------------- MODULE SessionProofs ---------------------------
(***************************************************************************)
(* The control lease of one session, proved for any set of streams and     *)
(* geometries and any length of run.                                       *)
(***************************************************************************)
EXTENDS Session, SequenceTheorems, TLAPS

\* The inductive invariant.  NoStaleAttachment is what makes the lease
\* properties inductive: a grant happens only in the pump, where the stream is
\* known to be in the attached map, and a detach happens only once.
LeaseInv ==
  /\ TypeOK
  /\ NoStaleAttachment
  /\ ControllerAttached
  /\ LastSizeIsControllers

\* The newest elements of a sequence over S are a sequence over S.
LEMMA NewestType ==
  ASSUME NEW S, NEW seq \in Seq(S), NEW n \in Nat
  PROVE  Newest(seq, n) \in Seq(S)
  BY DEF Newest

\* The broadcast channel keeps its type whatever event is sent.
LEMMA BroadcastType ==
  ASSUME TypeOK, NEW e \in Event, Broadcast(e)
  PROVE  /\ chan' \in [Streams -> Seq(Event)]
         /\ lagged' \in [Streams -> BOOLEAN]
  <1>1. \A s \in Streams : Append(chan[s], e) \in Seq(Event)
    BY DEF TypeOK
  <1>2. \A s \in Streams : Newest(Append(chan[s], e), BroadcastCap) \in Seq(Event)
    BY <1>1, NewestType, SessionAssumption
  <1>3. <<>> \in Seq(Event)
    OBVIOUS
  <1>4. QED
    BY <1>2, <1>3 DEF Broadcast, TypeOK

\* Every event the session broadcasts is an event of the channel.
LEMMA EventTypes ==
  /\ \A c \in Streams \cup {None} : ControllerChanged(c) \in Event
  /\ \A b \in Seq(Nat) : Data(b) \in Event
  /\ Closed \in Event
  BY DEF ControllerChanged, Data, Closed, Event, CtlEvent, DataEvent, EndEvent

\* A chunk of PTY output is a sequence of byte numbers.
LEMMA NextBytesType ==
  ASSUME TypeOK, NEW n \in Nat
  PROVE  NextBytes(n) \in Seq(Nat)
  <1>1. NextBytes(n) \in [1..n -> Nat]
    BY DEF NextBytes, TypeOK
  <1>2. QED
    BY <1>1

\* The status byte sent to a browser is one of the known ones.
LEMMA StatusForType ==
  ASSUME NEW s, NEW c
  PROVE  StatusFor(s, c) \in Statuses
  BY DEF StatusFor, Statuses

\* The initial state satisfies the inductive invariant.
LEMMA InitLease == Init => LeaseInv
  <1> SUFFICES ASSUME Init
               PROVE  LeaseInv
    OBVIOUS
  <1>1. <<>> \in Seq(Nat) /\ <<>> \in Seq(Event) /\ <<>> \in Seq(Streams)
    OBVIOUS
  <1>2. TypeOK
    BY <1>1, SessionAssumption DEF Init, TypeOK, PcStates, ReqStates, Statuses
  <1>3. NoStaleAttachment /\ ControllerAttached /\ LastSizeIsControllers
    BY SessionAssumption
       DEF Init, NoStaleAttachment, ControllerAttached, LastSizeIsControllers
  <1>4. QED
    BY <1>2, <1>3 DEF LeaseInv

\* One step per action of the next-state relation.
LEMMA NextLease == LeaseInv /\ [Next]_vars => LeaseInv'
  <1> SUFFICES ASSUME LeaseInv, [Next]_vars
               PROVE  LeaseInv'
    OBVIOUS
  <1> USE SessionAssumption DEF LeaseInv, NoStaleAttachment, ControllerAttached,
      LastSizeIsControllers, inner, reader, pty, task, shown
  <1>1. ASSUME NEW s \in Streams, Lookup(s)
        PROVE  LeaseInv'
    BY <1>1 DEF Lookup, TypeOK, PcStates
  <1>2. ASSUME NEW s \in Streams, NEW size \in Sizes, Attach(s, size)
        PROVE  LeaseInv'
    <2>1. StatusFor(s, controller') \in Statuses
      BY StatusForType
    <2>2. TypeOK'
      BY <1>2, <2>1 DEF Attach, TypeOK, PcStates
    <2>3. QED
      BY <1>2, <2>2 DEF Attach, TypeOK, PcStates
  <1>3. ASSUME NEW s \in Streams, AttachAnnounce(s)
        PROVE  LeaseInv'
    BY <1>3, BroadcastType, EventTypes DEF AttachAnnounce, TypeOK, PcStates
  <1>4. ASSUME NEW s \in Streams, StreamEnd(s)
        PROVE  LeaseInv'
    BY <1>4 DEF StreamEnd, EndSelect, TypeOK, PcStates, ReqStates
  <1>5. ASSUME NEW s \in Streams, Detach(s)
        PROVE  LeaseInv'
    BY <1>5 DEF Detach, TypeOK, PcStates
  <1>6. ASSUME NEW s \in Streams, DetachAnnounce(s)
        PROVE  LeaseInv'
    BY <1>6, BroadcastType, EventTypes DEF DetachAnnounce, TypeOK, PcStates
  <1>7. ASSUME NEW s \in Streams, NEW size \in Sizes, ResizeFor(s, size)
        PROVE  LeaseInv'
    BY <1>7 DEF ResizeFor, Inbound, TypeOK, ReqStates
  <1>8. ASSUME NEW s \in Streams, AcquireControl(s) \/ TakeControl(s)
        PROVE  LeaseInv'
    <2>1. Inbound(s) /\ attached[s] # NoSize /\ Grant(s)
      BY <1>8 DEF AcquireControl, TakeControl
    <2>2. TypeOK'
      BY <2>1 DEF Grant, Inbound, TypeOK, ReqStates
    <2>3. QED
      BY <2>1, <2>2 DEF Grant, TypeOK
  <1>9. ASSUME NEW s \in Streams, ReleaseControl(s)
        PROVE  LeaseInv'
    BY <1>9 DEF ReleaseControl, Inbound, TypeOK, ReqStates
  <1>10. ASSUME NEW s \in Streams, RequestDone(s)
         PROVE  LeaseInv'
    BY <1>10, BroadcastType, EventTypes DEF RequestDone, TypeOK, ReqStates
  <1>11. ASSUME NEW s \in Streams, WriteCheck(s) \/ WriteSend(s)
         PROVE  LeaseInv'
    <2>1. CASE WriteCheck(s)
      BY <2>1 DEF WriteCheck, Inbound, TypeOK, ReqStates
    <2>2. CASE WriteSend(s)
      <3>1. inQueue' \in Seq(Streams)
        BY <2>2 DEF WriteSend, TypeOK
      <3>2. QED
        BY <2>2, <3>1 DEF WriteSend, TypeOK, ReqStates
    <2>3. QED
      BY <1>11, <2>1, <2>2
  <1>12. ASSUME NEW s \in Streams, Recv(s)
         PROVE  LeaseInv'
    <2> DEFINE e == Head(chan[s])
    <2>1. chan[s] \in Seq(Event) /\ chan[s] # <<>>
      BY <1>12 DEF Recv, TypeOK
    <2>2. e \in Event /\ Tail(chan[s]) \in Seq(Event)
      BY <2>1
    <2>3. CASE e.kind = "data"
      <3>1. e.bytes \in Seq(Nat)
        BY <2>2, <2>3 DEF Event, DataEvent, CtlEvent, EndEvent
      <3>2. /\ view' = [view EXCEPT ![s] = @ \o e.bytes]
            /\ chan' = [chan EXCEPT ![s] = Tail(@)]
            /\ UNCHANGED <<inner, reader, pty, lagged, requests, status, task>>
        BY <1>12, <2>3 DEF Recv
      <3>3. view[s] \o e.bytes \in Seq(Nat)
        BY <3>1 DEF TypeOK
      <3>4. TypeOK'
        BY <2>2, <3>2, <3>3 DEF TypeOK
      <3>5. QED
        BY <3>2, <3>4
    <2>4. CASE e.kind = "ctl"
      <3>1. StatusFor(s, e.controller) \in Statuses
        BY StatusForType
      <3>2. /\ status' = [status EXCEPT ![s] = StatusFor(s, e.controller)]
            /\ chan' = [chan EXCEPT ![s] = Tail(@)]
            /\ UNCHANGED <<inner, reader, pty, lagged, requests, view, task>>
        BY <1>12, <2>4 DEF Recv
      <3>3. TypeOK'
        BY <2>2, <3>1, <3>2 DEF TypeOK
      <3>4. QED
        BY <3>2, <3>3
    <2>5. CASE e.kind = "closed"
      <3>1. EndSelect(s) /\ UNCHANGED <<inner, reader, pty, lagged, requests, shown>>
        BY <1>12, <2>5 DEF Recv
      <3>2. <<>> \in Seq(Event) /\ pc[s] = "pump"
        BY <1>12 DEF Recv
      <3>3. TypeOK'
        BY <3>1, <3>2 DEF EndSelect, TypeOK, PcStates, ReqStates
      <3>4. QED
        BY <3>1, <3>2, <3>3 DEF EndSelect, TypeOK
    <2>6. QED
      BY <1>12, <2>3, <2>4, <2>5 DEF Recv
  <1>13. ASSUME NEW s \in Streams, ApplyResize(s)
         PROVE  LeaseInv'
    BY <1>13 DEF ApplyResize, TypeOK
  <1>14. ASSUME NEW n \in 1..MaxChunk, PtyOutput(n)
         PROVE  LeaseInv'
    <2>1. NextBytes(n) \in Seq(Nat)
      BY NextBytesType
    <2>2. Extend(scrollback, NextBytes(n)) \in Seq(Nat)
      <3>1. scrollback \o NextBytes(n) \in Seq(Nat)
        BY <2>1 DEF TypeOK
      <3>2. QED
        BY <3>1, NewestType DEF Extend
    <2>3. QED
      BY <1>14, <2>1, <2>2, BroadcastType, EventTypes DEF PtyOutput, TypeOK
  <1>15. ASSUME ShellReads \/ ShellEof \/ MarkExited
         PROVE  LeaseInv'
    <2>1. CASE ShellReads
      <3>1. inQueue' \in Seq(Streams)
        BY <2>1 DEF ShellReads, TypeOK
      <3>2. QED
        BY <2>1, <3>1 DEF ShellReads, TypeOK
    <2>2. CASE ShellEof
      BY <2>2 DEF ShellEof, TypeOK
    <2>3. CASE MarkExited
      BY <2>3 DEF MarkExited, TypeOK
    <2>4. QED
      BY <1>15, <2>1, <2>2, <2>3
  <1>16. ASSUME BroadcastClosed
         PROVE  LeaseInv'
    BY <1>16, BroadcastType, EventTypes DEF BroadcastClosed, TypeOK
  <1>17. CASE UNCHANGED vars
    BY <1>17 DEF vars, TypeOK
  <1>18. QED
    BY <1>1, <1>2, <1>3, <1>4, <1>5, <1>6, <1>7, <1>8, <1>9, <1>10, <1>11,
       <1>12, <1>13, <1>14, <1>15, <1>16, <1>17
       DEF Next, TaskStep, Request

\* The inductive invariant holds in every reachable state.
THEOREM LeaseInvariant == Spec => []LeaseInv
  BY InitLease, NextLease, PTL DEF Spec

\* Every variable keeps its type, for any number of streams and any geometry.
THEOREM TypeCorrect == Spec => []TypeOK
  <1>1. LeaseInv => TypeOK
    BY DEF LeaseInv
  <1>2. QED
    BY <1>1, LeaseInvariant, PTL

\* Whatever the interleaving of attach, detach and the lease requests, the
\* lease is never held by a stream that has left SessionInner.attached.
THEOREM ControllerIsAttached == Spec => []ControllerAttached
  <1>1. LeaseInv => ControllerAttached
    BY DEF LeaseInv
  <1>2. QED
    BY <1>1, LeaseInvariant, PTL

\* No exit path of run_session_stream leaves an entry in SessionInner.attached.
THEOREM AttachmentsAreLive == Spec => []NoStaleAttachment
  <1>1. LeaseInv => NoStaleAttachment
    BY DEF LeaseInv
  <1>2. QED
    BY <1>1, LeaseInvariant, PTL

\* SessionInner.last_size always is the geometry its controller last reported.
THEOREM SizeFollowsLease == Spec => []LastSizeIsControllers
  <1>1. LeaseInv => LastSizeIsControllers
    BY DEF LeaseInv
  <1>2. QED
    BY <1>1, LeaseInvariant, PTL

-----------------------------------------------------------------------------
(* Session implements Lease.  The mapping only forgets variables, but the  *)
(* simulation needs the inductive invariant: that a stream which attaches  *)
(* is not a member yet, and that one which resizes, takes the lease or     *)
(* detaches is a member, follows from the program counters only through    *)
(* NoStaleAttachment.                                                      *)

\* A fresh session maps to a free lease without members.
LEMMA InitLeaseView == Init => LeaseView!Init
  BY SessionAssumption DEF Init, LeaseView!Init

\* Every step that touches the lease maps to one step of Lease, every other
\* step to none.
LEMMA NextLeaseView ==
  LeaseInv /\ [Next]_vars => [LeaseView!Next]_(LeaseView!leaseVars)
  <1> SUFFICES ASSUME LeaseInv, [Next]_vars
               PROVE  LeaseView!Next \/ UNCHANGED <<controller, attached, lastSize>>
    BY DEF LeaseView!leaseVars
  <1> USE SessionAssumption DEF LeaseInv, NoStaleAttachment, TypeOK, LeaseView!Member,
      inner, reader, pty, task, shown
  <1>1. ASSUME NEW s \in Streams, NEW size \in Sizes, Attach(s, size)
        PROVE  LeaseView!Join(s, size)
    BY <1>1 DEF Attach, LeaseView!Join
  <1>2. ASSUME NEW s \in Streams, Detach(s)
        PROVE  LeaseView!Leave(s)
    BY <1>2 DEF Detach, LeaseView!Leave
  <1>3. ASSUME NEW s \in Streams, NEW size \in Sizes, ResizeFor(s, size)
        PROVE  LeaseView!Report(s, size)
    BY <1>3 DEF ResizeFor, Inbound, LeaseView!Report
  <1>4. ASSUME NEW s \in Streams, AcquireControl(s) \/ TakeControl(s)
        PROVE  LeaseView!Grant(s)
    BY <1>4 DEF AcquireControl, TakeControl, Grant, LeaseView!Grant
  <1>5. ASSUME NEW s \in Streams, ReleaseControl(s)
        PROVE  LeaseView!Release(s)
    BY <1>5 DEF ReleaseControl, LeaseView!Release
  <1>6. ASSUME NEW s \in Streams,
               \/ Lookup(s) \/ StreamEnd(s) \/ WriteCheck(s)
               \/ AttachAnnounce(s) \/ RequestDone(s) \/ WriteSend(s)
               \/ Recv(s) \/ DetachAnnounce(s) \/ ApplyResize(s)
        PROVE  UNCHANGED <<controller, attached, lastSize>>
    BY <1>6 DEF Lookup, StreamEnd, WriteCheck, AttachAnnounce, RequestDone, WriteSend,
       Recv, DetachAnnounce, ApplyResize
  <1>7. ASSUME \/ \E n \in 1..MaxChunk : PtyOutput(n)
               \/ ShellReads \/ ShellEof \/ MarkExited \/ BroadcastClosed
        PROVE  UNCHANGED <<controller, attached, lastSize>>
    BY <1>7 DEF PtyOutput, ShellReads, ShellEof, MarkExited, BroadcastClosed
  <1>8. CASE UNCHANGED vars
    BY <1>8 DEF vars
  <1>9. QED
    BY <1>1, <1>2, <1>3, <1>4, <1>5, <1>6, <1>7, <1>8
       DEF Next, TaskStep, Request, LeaseView!Next

\* For any number of streams and any geometries, what attach, detach,
\* resize_for, acquire_control, take_control and release_control do to
\* SessionInner is what the abstract lease allows.
THEOREM SessionImplementsLease == Spec => ImplementsLease
  BY InitLeaseView, NextLeaseView, LeaseInvariant, PTL
     DEF Spec, ImplementsLease, LeaseView!Spec

-----------------------------------------------------------------------------
(* What the browsers are shown: statuses and output.                       *)

\* The stream will show that it holds the lease once it has read all events.
WillShowSelf(s) ==
  \/ status[s] = "self" /\ \A i \in DOMAIN chan[s] : chan[s][i].kind # "ctl"
  \/ \E i \in DOMAIN chan[s] :
       /\ chan[s][i] = ControllerChanged(s)
       /\ \A j \in DOMAIN chan[s] : j > i => chan[s][j].kind # "ctl"

\* OneSelf, for the streams that still have events to read.
OneSelfToCome ==
  \A s, t \in Streams :
    /\ pc[s] = "pump" /\ ~lagged[s] /\ WillShowSelf(s)
    /\ pc[t] = "pump" /\ ~lagged[t] /\ WillShowSelf(t)
    => s = t

\* The scrollback ring holds the newest bytes.
ScrollbackIsNewest ==
  \A k \in DOMAIN scrollback : scrollback[k] + Len(scrollback) = produced + k

\* What is shown: inductive given LeaseInv.
ShownInv == OneSelfToCome /\ ScrollbackIsNewest /\ NoDupNoGap

\* A receiver that does not lag gets the event behind those it has.
LEMMA BroadcastAppends ==
  ASSUME TypeOK, NEW e \in Event, Broadcast(e), NEW s \in Streams, Receiving(s), ~lagged'[s]
  PROVE  ~lagged[s] /\ chan'[s] = Append(chan[s], e)
  <1>1. chan[s] \in Seq(Event) /\ ~lagged[s] /\ ~(Len(chan[s]) >= BroadcastCap)
    BY DEF TypeOK, Broadcast
  <1>2. Append(chan[s], e) \in Seq(Event) /\ Len(Append(chan[s], e)) = Len(chan[s]) + 1
    BY <1>1
  <1>3. ~(Len(Append(chan[s], e)) > BroadcastCap)
    BY <1>1, <1>2, SessionAssumption
  <1>4. Newest(Append(chan[s], e), BroadcastCap) = Append(chan[s], e)
    BY <1>2, <1>3, SubSeqFull DEF Newest
  <1>5. QED
    BY <1>1, <1>4 DEF Broadcast

\* Every unread event with output has bytes.
LEMMA UnreadType ==
  ASSUME TypeOK, NEW s \in Streams, NEW i \in Unread(s)
  PROVE  /\ i \in 1..Len(chan[s]) /\ chan[s][i].bytes \in Seq(Nat)
         /\ \A k \in DOMAIN chan[s][i].bytes : Byte(s, i, k) \in Nat
  <1>1. chan[s] \in Seq(Event)
    BY DEF TypeOK
  <1>2. i \in 1..Len(chan[s]) /\ chan[s][i] \in Event /\ chan[s][i].kind = "data"
    BY <1>1 DEF Unread
  <1>3. chan[s][i].bytes \in Seq(Nat)
    BY <1>2 DEF Event, DataEvent, CtlEvent, EndEvent
  <1>4. QED
    BY <1>2, <1>3 DEF Byte

\* A step after which every receiver has what it had keeps what is shown.
LEMMA ShownUntouched ==
  ASSUME ShownInv, UNCHANGED <<produced, scrollback>>,
         \A s \in Streams : Receiving(s)' =>
           /\ pc'[s] = pc[s] /\ chan'[s] = chan[s] /\ lagged'[s] = lagged[s]
           /\ view'[s] = view[s] /\ status'[s] = status[s]
  PROVE  ShownInv'
  <1> USE DEF Receiving
  <1>1. ScrollbackIsNewest'
    BY DEF ShownInv, ScrollbackIsNewest
  <1>2. OneSelfToCome'
    BY DEF ShownInv, OneSelfToCome, WillShowSelf
  <1>3. NoDupNoGap'
    BY DEF ShownInv, NoDupNoGap, SentUpTo, Unread, Byte
  <1>4. QED
    BY <1>1, <1>2, <1>3 DEF ShownInv

\* Behind an event without output, the output of a receiver is what it was.
LEMMA QuietKeepsOutput ==
  ASSUME TypeOK, NEW e \in Event, e.kind # "data", Broadcast(e),
         NEW s \in Streams, Receiving(s), ~lagged'[s], NEW v \in Nat,
         SentUpTo(s, v), UNCHANGED <<produced, view>>
  PROVE  SentUpTo(s, v)'
  <1>1. chan[s] \in Seq(Event) /\ chan'[s] = Append(chan[s], e)
    BY BroadcastAppends DEF TypeOK
  <1>2. Unread(s)' = Unread(s) /\ \A i \in Unread(s) : chan'[s][i] = chan[s][i]
    BY <1>1 DEF Unread
  <1>3. QED
    BY <1>2 DEF SentUpTo, Byte

\* The announcement of a change: whoever reads it knows who holds the lease.
LEMMA AnnounceKeeps ==
  ASSUME TypeOK, ShownInv, NEW c \in Streams \cup {None}, Broadcast(ControllerChanged(c)),
         UNCHANGED <<produced, scrollback, view, status>>,
         \A s \in Streams : Receiving(s)' => Receiving(s)
  PROVE  ShownInv'
  <1> DEFINE e == ControllerChanged(c)
  <1>1. e \in Event /\ e.kind = "ctl" /\ e.controller = c
    BY EventTypes DEF ControllerChanged
  <1> HIDE DEF e
  <1>2. ScrollbackIsNewest'
    BY DEF ShownInv, ScrollbackIsNewest
  <1>3. NoDupNoGap'
    <2> SUFFICES ASSUME NEW s \in Streams, Receiving(s)', ~lagged'[s]
                 PROVE  \E v \in 0..produced : SentUpTo(s, v)'
      BY DEF NoDupNoGap
    <2>1. ~lagged[s] /\ Receiving(s)
      BY <1>1, BroadcastAppends DEF e
    <2>2. PICK v \in 0..produced : SentUpTo(s, v)
      BY <2>1 DEF ShownInv, NoDupNoGap
    <2>3. v \in Nat
      BY <2>2
    <2>4. SentUpTo(s, v)'
      BY <1>1, <2>1, <2>2, <2>3, QuietKeepsOutput DEF e
    <2>5. QED
      BY <2>4
  <1>4. ASSUME NEW s \in Streams, Receiving(s)', ~lagged'[s], WillShowSelf(s)'
        PROVE  s = c
    <2>1. chan[s] \in Seq(Event) /\ chan'[s] = Append(chan[s], e)
      BY <1>1, <1>4, BroadcastAppends DEF TypeOK, e
    <2>2. Len(chan[s]) + 1 \in DOMAIN chan'[s] /\ chan'[s][Len(chan[s]) + 1] = e
      BY <2>1
    <2>3. PICK i \in DOMAIN chan'[s] :
                 /\ chan'[s][i] = ControllerChanged(s)
                 /\ \A j \in DOMAIN chan'[s] : j > i => chan'[s][j].kind # "ctl"
      BY <1>1, <1>4, <2>2 DEF WillShowSelf, ControllerChanged
    <2>4. i = Len(chan[s]) + 1
      BY <1>1, <2>1, <2>2, <2>3
    <2>5. QED
      BY <1>1, <2>2, <2>3, <2>4 DEF ControllerChanged
  <1>5. OneSelfToCome'
    BY <1>4 DEF OneSelfToCome, Receiving
  <1>6. QED
    BY <1>2, <1>3, <1>5 DEF ShownInv

\* The end of the shell changes neither the output nor the statuses.
LEMMA ClosedKeeps ==
  ASSUME TypeOK, ShownInv, Broadcast(Closed),
         UNCHANGED <<produced, scrollback, view, status, pc>>
  PROVE  ShownInv'
  <1>1. Closed \in Event /\ Closed.kind = "closed"
    BY EventTypes DEF Closed
  <1>2. ScrollbackIsNewest'
    BY DEF ShownInv, ScrollbackIsNewest
  <1>3. NoDupNoGap'
    <2> SUFFICES ASSUME NEW s \in Streams, Receiving(s), ~lagged'[s]
                 PROVE  \E v \in 0..produced : SentUpTo(s, v)'
      BY DEF NoDupNoGap, Receiving
    <2>1. ~lagged[s]
      BY <1>1, BroadcastAppends
    <2>2. PICK v \in 0..produced : SentUpTo(s, v)
      BY <2>1 DEF ShownInv, NoDupNoGap
    <2>3. v \in Nat
      BY <2>2
    <2>4. SentUpTo(s, v)'
      BY <1>1, <2>2, <2>3, QuietKeepsOutput
    <2>5. QED
      BY <2>4
  <1>4. ASSUME NEW s \in Streams, pc[s] = "pump", ~lagged'[s], WillShowSelf(s)'
        PROVE  ~lagged[s] /\ WillShowSelf(s)
    <2>1. chan[s] \in Seq(Event) /\ chan'[s] = Append(chan[s], Closed) /\ ~lagged[s]
      BY <1>1, <1>4, BroadcastAppends DEF TypeOK, Receiving
    <2>2. QED
      BY <1>1, <1>4, <2>1 DEF WillShowSelf, ControllerChanged
  <1>5. OneSelfToCome'
    BY <1>4 DEF ShownInv, OneSelfToCome
  <1>6. QED
    BY <1>2, <1>3, <1>5 DEF ShownInv

\* The next bytes of output, behind the ones a receiver holds.
LEMMA OutputKeepsOrder ==
  ASSUME TypeOK, NEW n \in Nat, PtyOutput(n), NEW s \in Streams, Receiving(s), ~lagged'[s],
         NEW v \in 0..produced, SentUpTo(s, v)
  PROVE  SentUpTo(s, v)'
  <1> DEFINE e == Data(NextBytes(n))
  <1>0. PICK m : m = Len(chan[s]) + 1
    OBVIOUS
  <1>1. NextBytes(n) \in Seq(Nat) /\ Len(NextBytes(n)) = n /\ DOMAIN NextBytes(n) = 1..n
    BY NextBytesType DEF NextBytes, TypeOK
  <1>2. e \in Event /\ e.kind = "data" /\ e.bytes = NextBytes(n)
    BY <1>1, EventTypes DEF Data
  <1>3. chan[s] \in Seq(Event) /\ chan'[s] = Append(chan[s], e)
    BY <1>2, BroadcastAppends DEF PtyOutput, TypeOK
  <1>4. /\ produced \in Nat /\ produced' = produced + n /\ view' = view
        /\ \A k \in 1..n : NextBytes(n)[k] = produced + k
    BY DEF PtyOutput, TypeOK, shown, NextBytes
  <1> HIDE DEF e
  <1>5. Unread(s)' = Unread(s) \cup {m} /\ m \notin Unread(s) /\ \A i \in Unread(s) : i < m
    BY <1>0, <1>2, <1>3 DEF Unread
  <1>6. chan'[s][m] = e /\ \A i \in Unread(s) : chan'[s][i] = chan[s][i]
    BY <1>0, <1>3 DEF Unread
  <1>7. \A i \in Unread(s) : \A k \in DOMAIN chan[s][i].bytes : Byte(s, i, k)' = Byte(s, i, k)
    BY <1>6 DEF Byte
  <1>8. \A k \in 1..n : Byte(s, m, k)' = produced + k
    BY <1>2, <1>4, <1>6 DEF Byte
  <1>9. \A k \in DOMAIN view'[s] : view'[s][k] + Len(view'[s]) = v + k
    BY <1>4 DEF SentUpTo
  <1>10. ASSUME NEW b \in (v + 1)..produced'
         PROVE  \E i \in Unread(s)' : \E k \in DOMAIN chan'[s][i].bytes : Byte(s, i, k)' = b
    <2>1. CASE b <= produced
      BY <1>5, <1>6, <1>7, <2>1 DEF SentUpTo
    <2>2. CASE b > produced
      <3>1. PICK k \in 1..n : produced + k = b
        <4>1. b - produced \in 1..n /\ produced + (b - produced) = b
          BY <1>4, <2>2
        <4>2. QED
          BY <4>1
      <3>2. k \in DOMAIN chan'[s][m].bytes /\ Byte(s, m, k)' = b
        BY <1>1, <1>2, <1>6, <1>8, <3>1
      <3>3. QED
        BY <1>5, <3>2
    <2>3. QED
      BY <1>4, <2>1, <2>2
  <1>11. ASSUME NEW i \in Unread(s)', NEW k \in DOMAIN chan'[s][i].bytes
         PROVE  /\ Byte(s, i, k)' \in (v + 1)..produced'
                /\ Byte(s, i, k)' + 1 = Byte(s, i, 1)' + k
                /\ \A j \in Unread(s)' : \A l \in DOMAIN chan'[s][j].bytes :
                     i < j => Byte(s, i, k)' < Byte(s, j, l)'
    <2>1. CASE i \in Unread(s)
      <3>1. /\ k \in DOMAIN chan[s][i].bytes
            /\ Byte(s, i, k)' = Byte(s, i, k) /\ Byte(s, i, 1)' = Byte(s, i, 1)
        BY <1>6, <2>1 DEF Byte
      <3>2. Byte(s, i, k) \in (v + 1)..produced /\ Byte(s, i, k) + 1 = Byte(s, i, 1) + k
        BY <2>1, <3>1 DEF SentUpTo
      <3>3. ASSUME NEW j \in Unread(s)', NEW l \in DOMAIN chan'[s][j].bytes, i < j
            PROVE  Byte(s, i, k)' < Byte(s, j, l)'
        <4>1. CASE j \in Unread(s)
          BY <1>6, <1>7, <2>1, <3>1, <3>3, <4>1 DEF SentUpTo
        <4>2. CASE j = m
          BY <1>1, <1>2, <1>4, <1>6, <1>8, <3>1, <3>2, <3>3, <4>2
        <4>3. QED
          BY <1>5, <4>1, <4>2
      <3>4. QED
        BY <1>4, <3>1, <3>2, <3>3
    <2>2. CASE i = m
      <3>1. k \in 1..n /\ 1 \in 1..n
        BY <1>1, <1>2, <1>6, <2>2
      <3>2. Byte(s, i, k)' = produced + k /\ Byte(s, i, 1)' = produced + 1
        BY <1>8, <2>2, <3>1
      <3>3. \A j \in Unread(s)' : ~(i < j)
        BY <1>0, <1>3, <1>5, <2>2 DEF Unread
      <3>4. QED
        BY <1>4, <3>1, <3>2, <3>3
    <2>3. QED
      BY <1>5, <2>1, <2>2
  <1>12. QED
    BY <1>9, <1>10, <1>11 DEF SentUpTo

\* The ring holds the newest bytes after it was extended.
LEMMA RingKeepsNewest ==
  ASSUME TypeOK, ScrollbackIsNewest, NEW n \in Nat, PtyOutput(n)
  PROVE  ScrollbackIsNewest'
  <1> DEFINE all == scrollback \o NextBytes(n)
             lo  == IF Len(all) > ScrollbackCap THEN Len(all) - ScrollbackCap + 1 ELSE 1
  <1>1. NextBytes(n) \in Seq(Nat) /\ Len(NextBytes(n)) = n
    BY NextBytesType DEF NextBytes, TypeOK
  <1>2. scrollback \in Seq(Nat) /\ produced \in Nat
    BY DEF TypeOK
  <1>3. all \in Seq(Nat) /\ Len(all) = Len(scrollback) + n
    BY <1>1, <1>2, ConcatProperties
  <1>4. \A k \in 1..(Len(scrollback) + n) :
          all[k] = IF k <= Len(scrollback) THEN scrollback[k] ELSE NextBytes(n)[k - Len(scrollback)]
    BY <1>1, <1>2, ConcatProperties
  <1>5. scrollback' = SubSeq(all, lo, Len(all))
    BY DEF PtyOutput, Extend, Newest
  <1> HIDE DEF all
  <1>6. ASSUME NEW k \in 1..Len(all)
        PROVE  all[k] + Len(all) = produced + n + k
    <2> DEFINE len == Len(scrollback)
    <2>1. len \in Nat /\ k \in Nat /\ k \in 1..(len + n) /\ Len(all) = len + n
      BY <1>2, <1>3
    <2>2. CASE k <= len
      <3>1. k \in DOMAIN scrollback /\ all[k] = scrollback[k] /\ scrollback[k] \in Nat
        BY <1>2, <1>4, <2>1, <2>2
      <3>2. scrollback[k] + len = produced + k
        BY <3>1 DEF ScrollbackIsNewest
      <3> HIDE DEF len
      <3>3. QED
        BY <1>2, <2>1, <3>1, <3>2
    <2>3. CASE ~(k <= len)
      <3>1. all[k] = NextBytes(n)[k - len] /\ k - len \in 1..n
        BY <1>4, <2>1, <2>3
      <3>2. all[k] = produced + (k - len)
        BY <3>1 DEF NextBytes
      <3> HIDE DEF len
      <3>3. QED
        BY <1>2, <2>1, <3>2
    <2>4. QED
      BY <2>2, <2>3
  <1>7. lo \in 1..(Len(all) + 1) /\ lo \in Nat /\ Len(all) \in Nat
    BY <1>3, SessionAssumption
  <1>8. produced' = produced + n
    BY DEF PtyOutput
  <1> HIDE DEF lo
  <1>9. /\ Len(scrollback') = Len(all) - lo + 1
        /\ \A k \in 1..(Len(all) - lo + 1) : scrollback'[k] = all[lo + k - 1]
        /\ DOMAIN scrollback' = 1..(Len(all) - lo + 1)
    <2>1. \A k \in lo..Len(all) : all[k] \in Nat
      BY <1>3, <1>7
    <2>2. lo \in Int /\ Len(all) \in Int
      BY <1>7
    <2>3. /\ Len(scrollback') = IF lo <= Len(all) THEN Len(all) - lo + 1 ELSE 0
          /\ scrollback' \in Seq(Nat)
          /\ \A k \in 1..(Len(all) - lo + 1) : scrollback'[k] = all[lo + k - 1]
      BY <1>5, <2>1, <2>2, SubSeqProperties
    <2>4. QED
      BY <1>7, <2>2, <2>3, LenProperties
  <1>10. ASSUME NEW k \in 1..(Len(all) - lo + 1)
         PROVE  scrollback'[k] + Len(scrollback') = produced' + k
    <2>1. lo + k - 1 \in 1..Len(all) /\ k \in Nat
      BY <1>7
    <2>2. all[lo + k - 1] + Len(all) = produced + n + (lo + k - 1) /\ all[lo + k - 1] \in Nat
      BY <1>3, <1>6, <2>1
    <2>3. scrollback'[k] = all[lo + k - 1] /\ Len(scrollback') = Len(all) - lo + 1
      BY <1>9
    <2>4. PICK x \in Nat, l \in Nat : x = all[lo + k - 1] /\ l = Len(all)
      BY <1>7, <2>2
    <2>5. x + l = produced + n + (lo + k - 1)
      BY <2>2, <2>4
    <2>6. x + (l - lo + 1) = produced + n + k
      BY <1>2, <1>7, <2>1, <2>5
    <2>7. QED
      BY <1>8, <2>3, <2>4, <2>6
  <1>11. QED
    BY <1>9, <1>10 DEF ScrollbackIsNewest

\* The reader task's step: append to the ring and broadcast under one lock.
LEMMA OutputKeeps ==
  ASSUME TypeOK, ShownInv, NEW n \in Nat, PtyOutput(n)
  PROVE  ShownInv'
  <1>1. ScrollbackIsNewest'
    BY RingKeepsNewest DEF ShownInv
  <1>2. Data(NextBytes(n)) \in Event /\ Data(NextBytes(n)).kind = "data"
    BY NextBytesType, EventTypes DEF Data
  <1>3. /\ Broadcast(Data(NextBytes(n))) /\ UNCHANGED <<pc, status>>
        /\ produced \in Nat /\ produced' = produced + n
    BY DEF PtyOutput, TypeOK, task, shown
  <1>4. NoDupNoGap'
    <2> SUFFICES ASSUME NEW s \in Streams, Receiving(s), ~lagged'[s]
                 PROVE  \E v \in 0..produced' : SentUpTo(s, v)'
      BY <1>3 DEF NoDupNoGap, Receiving
    <2>1. ~lagged[s]
      BY <1>2, <1>3, BroadcastAppends
    <2>2. PICK v \in 0..produced : SentUpTo(s, v)
      BY <2>1 DEF ShownInv, NoDupNoGap
    <2>3. SentUpTo(s, v)'
      BY <2>2, OutputKeepsOrder
    <2>4. v \in 0..produced'
      BY <1>3, <2>2
    <2>5. QED
      BY <2>3, <2>4
  <1>5. ASSUME NEW s \in Streams, pc[s] = "pump", ~lagged'[s], WillShowSelf(s)'
        PROVE  ~lagged[s] /\ WillShowSelf(s)
    <2>1. /\ chan[s] \in Seq(Event) /\ chan'[s] = Append(chan[s], Data(NextBytes(n)))
          /\ ~lagged[s]
      BY <1>2, <1>3, <1>5, BroadcastAppends DEF TypeOK, Receiving
    <2>2. \A i \in DOMAIN chan[s] : i \in DOMAIN chan'[s] /\ chan'[s][i] = chan[s][i]
      BY <2>1
    <2>3. \A i \in DOMAIN chan'[s] : i \notin DOMAIN chan[s] => chan'[s][i] = Data(NextBytes(n))
      BY <2>1
    <2>4. status'[s] = status[s] /\ \A c : Data(NextBytes(n)) # ControllerChanged(c)
      BY <1>2, <1>3 DEF ControllerChanged
    <2>5. QED
      BY <1>5, <2>1, <2>2, <2>3, <2>4 DEF WillShowSelf
  <1>6. OneSelfToCome'
    BY <1>3, <1>5 DEF ShownInv, OneSelfToCome
  <1>7. QED
    BY <1>1, <1>4, <1>6 DEF ShownInv

\* A browser that joins gets the ring, and with it everything up to now.  One
\* that gets the lease with it is not in its pump before that is announced.
LEMMA AttachKeeps ==
  ASSUME LeaseInv, ShownInv, NEW s \in Streams, NEW size \in Sizes, Attach(s, size)
  PROVE  ShownInv'
  <1> USE DEF LeaseInv
  <1>1. /\ chan'[s] = <<>> /\ view'[s] = scrollback /\ produced \in Nat
        /\ UNCHANGED <<produced, scrollback, lagged>>
    BY DEF Attach, TypeOK, reader
  <1>2. \A t \in Streams : t # s =>
          /\ pc'[t] = pc[t] /\ chan'[t] = chan[t] /\ view'[t] = view[t] /\ status'[t] = status[t]
    BY DEF Attach, TypeOK
  <1>3. ScrollbackIsNewest'
    BY <1>1 DEF ShownInv, ScrollbackIsNewest
  <1>4. NoDupNoGap'
    <2>1. SentUpTo(s, produced)'
      BY <1>1 DEF SentUpTo, Unread, ShownInv, ScrollbackIsNewest
    <2>2. \A t \in Streams : t # s => Receiving(t)' = Receiving(t)
      BY <1>2 DEF Receiving
    <2>3. ASSUME NEW t \in Streams, t # s, NEW v \in 0..produced, SentUpTo(t, v)
          PROVE  SentUpTo(t, v)'
      <3>1. chan'[t] = chan[t] /\ view'[t] = view[t] /\ produced' = produced
        BY <1>1, <1>2, <2>3
      <3>2. QED
        BY <2>3, <3>1 DEF SentUpTo, Unread, Byte
    <2>4. produced \in 0..produced
      BY <1>1
    <2>5. QED
      BY <1>1, <2>1, <2>2, <2>3, <2>4 DEF ShownInv, NoDupNoGap
  <1>5. pc'[s] = "pump" => ~WillShowSelf(s)'
    <2>1. controller # s
      BY SessionAssumption DEF Attach, ControllerAttached, NoStaleAttachment
    <2>2. pc'[s] = "pump" => status'[s] = "other"
      BY <2>1 DEF Attach, TypeOK, StatusFor
    <2>3. QED
      BY <1>1, <2>2 DEF WillShowSelf
  <1>6. \A t \in Streams : t # s => WillShowSelf(t)' = WillShowSelf(t)
    BY <1>2 DEF WillShowSelf
  <1>7. OneSelfToCome'
    BY <1>1, <1>2, <1>5, <1>6 DEF ShownInv, OneSelfToCome
  <1>8. QED
    BY <1>3, <1>4, <1>7 DEF ShownInv

\* What is left of a channel once its first event was read.
LEMMA TailOfChan ==
  ASSUME NEW c \in Seq(Event), c # <<>>
  PROVE  /\ Len(c) \in Nat /\ Len(c) >= 1 /\ Head(c) = c[1] /\ 1 \in DOMAIN c
         /\ Tail(c) \in Seq(Event) /\ DOMAIN c = 1..Len(c)
         /\ DOMAIN Tail(c) = 1..(Len(c) - 1)
         /\ \A i \in 1..(Len(c) - 1) : Tail(c)[i] = c[i + 1]
  <1>1. Len(c) \in Nat /\ Len(c) # 0 /\ DOMAIN c = 1..Len(c)
    OBVIOUS
  <1>2. Tail(c) \in Seq(Event) /\ Len(Tail(c)) = Len(c) - 1 /\ Head(c) = c[1]
    BY <1>1
  <1>3. \A i \in 1..(Len(c) - 1) : Tail(c)[i] = c[i + 1]
    BY <1>1
  <1>4. QED
    BY <1>1, <1>2, <1>3

\* The first unread output continues what the browser was sent.
LEMMA HeadContinues ==
  ASSUME TypeOK, NEW s \in Streams, NEW v \in Nat, SentUpTo(s, v), 1 \in Unread(s)
  PROVE  \A k \in DOMAIN chan[s][1].bytes : Byte(s, 1, k) = v + k
  <1> SUFFICES ASSUME NEW k \in DOMAIN chan[s][1].bytes
               PROVE  Byte(s, 1, k) = v + k
    OBVIOUS
  <1>1. /\ chan[s][1].bytes \in Seq(Nat)
        /\ \A l \in DOMAIN chan[s][1].bytes : Byte(s, 1, l) \in Nat
    BY UnreadType
  <1>2. 1 \in DOMAIN chan[s][1].bytes /\ k \in Nat /\ k >= 1 /\ produced \in Nat
    <2>1. PICK b \in Seq(Nat) : b = chan[s][1].bytes
      BY <1>1
    <2>2. DOMAIN b = 1..Len(b) /\ Len(b) \in Nat /\ k \in DOMAIN b
      BY <2>1
    <2>3. 1 \in DOMAIN b /\ k \in Nat /\ k >= 1
      BY <2>2
    <2>4. QED
      BY <2>1, <2>3 DEF TypeOK
  <1>3. PICK first \in Nat : first = Byte(s, 1, 1)
    BY <1>1, <1>2
  <1>4. first \in (v + 1)..produced
    BY <1>2, <1>3 DEF SentUpTo
  <1>5. v + 1 \in (v + 1)..produced
    BY <1>2, <1>4
  <1>6. PICK i \in Unread(s) : \E l \in DOMAIN chan[s][i].bytes : Byte(s, i, l) = v + 1
    BY <1>5 DEF SentUpTo
  <1>7. PICK l \in DOMAIN chan[s][i].bytes : Byte(s, i, l) = v + 1
    BY <1>6
  <1>8. i = 1
    <2>1. ~(1 < i)
      <3> SUFFICES ASSUME 1 < i
                   PROVE  FALSE
        OBVIOUS
      <3>1. Byte(s, 1, 1) < Byte(s, i, l)
        BY <1>2, <1>6, <1>7 DEF SentUpTo
      <3>2. QED
        BY <1>3, <1>4, <1>7, <3>1
    <2>2. i \in 1..Len(chan[s]) /\ Len(chan[s]) \in Nat
      BY <1>6, UnreadType DEF TypeOK
    <2>3. QED
      BY <2>1, <2>2
  <1>9. Byte(s, 1, l) + 1 = Byte(s, 1, 1) + l /\ Byte(s, 1, k) + 1 = Byte(s, 1, 1) + k
    BY <1>6, <1>7, <1>8 DEF SentUpTo
  <1>10. l \in Nat /\ l >= 1
    BY <1>1, <1>7, <1>8
  <1>11. first = v + 1
    BY <1>3, <1>4, <1>7, <1>8, <1>9, <1>10
  <1>12. PICK b \in Nat : b = Byte(s, 1, k)
    BY <1>1
  <1>13. QED
    BY <1>2, <1>3, <1>9, <1>11, <1>12

\* A run of numbers up to v, continued from v + 1.
LEMMA RunContinued ==
  ASSUME NEW a \in Seq(Nat), NEW b \in Seq(Nat), NEW v \in Nat,
         \A k \in DOMAIN a : a[k] + Len(a) = v + k,
         \A k \in DOMAIN b : b[k] = v + k
  PROVE  \A k \in DOMAIN (a \o b) : (a \o b)[k] + Len(a \o b) = v + Len(b) + k
  <1>1. PICK l \in Nat, m \in Nat : l = Len(a) /\ m = Len(b)
    BY LenProperties
  <1>2. DOMAIN a = 1..l /\ DOMAIN b = 1..m
    BY <1>1, LenProperties
  <1>3. a \o b \in Seq(Nat) /\ Len(a \o b) = l + m
    BY <1>1, ConcatProperties
  <1>4. DOMAIN (a \o b) = 1..(l + m)
    BY <1>3, LenProperties
  <1>5. ASSUME NEW k \in 1..(l + m)
        PROVE  (a \o b)[k] + (l + m) = v + m + k
    <2>1. (a \o b)[k] = IF k <= l THEN a[k] ELSE b[k - l]
      BY <1>1, <1>5, ConcatProperties
    <2>0. k \in Nat /\ k >= 1 /\ k <= l + m
      OBVIOUS
    <2>2. CASE k <= l
      <3>1. k \in DOMAIN a
        BY <1>2, <2>0, <2>2
      <3>2. a[k] \in Nat
        BY <3>1, ElementOfSeq, <1>1, <1>2
      <3>3. a[k] + l = v + k
        BY <1>1, <3>1
      <3>4. PICK x \in Nat : x = a[k]
        BY <3>2
      <3>5. x + l = v + k
        BY <3>3, <3>4
      <3>6. x + (l + m) = v + m + k
        BY <2>0, <3>5
      <3>7. QED
        BY <2>1, <2>2, <3>4, <3>6
    <2>3. CASE ~(k <= l)
      <3>1. k - l \in 1..m
        BY <2>0, <2>3
      <3>2. b[k - l] = v + (k - l)
        BY <1>2, <3>1
      <3>3. v + (k - l) + (l + m) = v + m + k
        BY <2>0
      <3>4. QED
        BY <2>1, <2>3, <3>2, <3>3
    <2>4. QED
      BY <2>2, <2>3
  <1>6. QED
    BY <1>1, <1>3, <1>4, <1>5

\* The forwarded output is behind what the browser has, ahead of what is left.
LEMMA ReadKeepsOrder ==
  ASSUME TypeOK, NEW s \in Streams, NEW v \in 0..produced, SentUpTo(s, v),
         chan[s] # <<>>, Head(chan[s]).kind = "data",
         view'[s] = view[s] \o Head(chan[s]).bytes, chan'[s] = Tail(chan[s]),
         produced' = produced
  PROVE  \E w \in 0..produced : SentUpTo(s, w)'
  <1>1. /\ chan[s] \in Seq(Event) /\ view[s] \in Seq(Nat) /\ produced \in Nat /\ v \in Nat
        /\ Len(view[s]) \in Nat
    BY DEF TypeOK
  <1>2. PICK n \in Nat : n = Len(chan[s])
    BY <1>1
  <1>3. /\ n >= 1 /\ Head(chan[s]) = chan[s][1] /\ DOMAIN chan[s] = 1..n
        /\ DOMAIN chan'[s] = 1..(n - 1) /\ \A i \in 1..(n - 1) : chan'[s][i] = chan[s][i + 1]
    BY <1>1, <1>2, TailOfChan
  <1>4. 1 \in Unread(s)
    BY <1>3 DEF Unread
  <1>5. PICK b \in Seq(Nat) : b = chan[s][1].bytes
    BY <1>4, UnreadType
  <1>6. PICK m \in Nat : m = Len(b) /\ DOMAIN b = 1..m
    BY <1>5
  <1>7. \A k \in 1..m : b[k] = v + k /\ v + k \in 1..produced
    <2>1. \A k \in 1..m : b[k] = v + k
      BY <1>1, <1>4, <1>5, <1>6, HeadContinues DEF Byte
    <2>2. \A k \in 1..m : b[k] \in (v + 1)..produced
      BY <1>4, <1>5, <1>6 DEF SentUpTo, Byte
    <2>3. ASSUME NEW k \in 1..m
          PROVE  v + k \in 1..produced
      <3>1. v + k \in (v + 1)..produced
        BY <2>1, <2>2
      <3>2. QED
        BY <1>1, <3>1
    <2>4. QED
      BY <2>1, <2>3
  <1>8. v + m \in 0..produced /\ v + m \in Nat
    <2>1. CASE m = 0
      BY <1>1, <2>1
    <2>2. CASE m # 0
      <3>1. m \in 1..m
        BY <2>2
      <3>2. v + m \in 1..produced
        BY <1>7, <3>1
      <3>3. QED
        BY <1>1, <3>2
    <2>3. QED
      BY <2>1, <2>2
  <1>9. \A k \in DOMAIN view'[s] : view'[s][k] + Len(view'[s]) = v + m + k
    <2>1. view'[s] = view[s] \o b
      BY <1>3, <1>5
    <2>2. \A k \in DOMAIN view[s] : view[s][k] + Len(view[s]) = v + k
      BY DEF SentUpTo
    <2>3. \A k \in DOMAIN b : b[k] = v + k
      BY <1>6, <1>7
    <2>4. \A k \in DOMAIN (view[s] \o b) :
            (view[s] \o b)[k] + Len(view[s] \o b) = v + Len(b) + k
      BY <1>1, <2>2, <2>3, RunContinued
    <2>5. QED
      BY <1>6, <2>1, <2>4
  <1>10. \A i : i \in Unread(s)' <=> i \in 1..(n - 1) /\ i + 1 \in Unread(s)
    BY <1>3 DEF Unread
  <1>11. \A i \in 1..(n - 1) : \A k : Byte(s, i, k)' = Byte(s, i + 1, k)
    BY <1>3 DEF Byte
  <1>12. ASSUME NEW x \in (v + m + 1)..produced
         PROVE  \E i \in Unread(s)' : \E k \in DOMAIN chan'[s][i].bytes : Byte(s, i, k)' = x
    <2>1. x \in (v + 1)..produced
      BY <1>1
    <2>2. PICK i \in Unread(s) : \E k \in DOMAIN chan[s][i].bytes : Byte(s, i, k) = x
      BY <2>1 DEF SentUpTo
    <2>3. PICK k \in DOMAIN chan[s][i].bytes : Byte(s, i, k) = x
      BY <2>2
    <2>4. i # 1
      <3> SUFFICES ASSUME i = 1
                   PROVE  FALSE
        OBVIOUS
      <3>1. k \in 1..m /\ b[k] = x
        BY <1>5, <1>6, <2>3 DEF Byte
      <3>2. QED
        BY <1>1, <1>7, <3>1
    <2>5. i \in 1..n
      BY <1>3, <2>2 DEF Unread
    <2>6. PICK j \in 1..(n - 1) : j + 1 = i
      <3>1. i - 1 \in 1..(n - 1) /\ (i - 1) + 1 = i
        BY <2>4, <2>5
      <3>2. QED
        BY <3>1
    <2>7. j \in Unread(s)' /\ k \in DOMAIN chan'[s][j].bytes /\ Byte(s, j, k)' = x
      BY <1>3, <1>10, <1>11, <2>2, <2>3, <2>6
    <2>8. QED
      BY <2>7
  <1>13. ASSUME NEW i \in Unread(s)', NEW k \in DOMAIN chan'[s][i].bytes
         PROVE  /\ Byte(s, i, k)' \in (v + m + 1)..produced'
                /\ Byte(s, i, k)' + 1 = Byte(s, i, 1)' + k
                /\ \A j \in Unread(s)' : \A l \in DOMAIN chan'[s][j].bytes :
                     i < j => Byte(s, i, k)' < Byte(s, j, l)'
    <2>1. i \in 1..(n - 1) /\ i + 1 \in Unread(s) /\ chan'[s][i] = chan[s][i + 1]
      BY <1>3, <1>10
    <2>2. k \in DOMAIN chan[s][i + 1].bytes
      BY <2>1
    <2>3. /\ Byte(s, i + 1, k) \in (v + 1)..produced
          /\ Byte(s, i + 1, k) + 1 = Byte(s, i + 1, 1) + k
      BY <2>1, <2>2 DEF SentUpTo
    <2>4. m # 0 => b[m] < Byte(s, i + 1, k)
      <3> SUFFICES ASSUME m # 0
                   PROVE  b[m] < Byte(s, i + 1, k)
        OBVIOUS
      <3>1. m \in DOMAIN chan[s][1].bytes /\ 1 < i + 1 /\ Byte(s, 1, m) = b[m]
        BY <1>5, <1>6, <2>1 DEF Byte
      <3>2. QED
        BY <1>4, <2>1, <2>2, <3>1 DEF SentUpTo
    <2>5. Byte(s, i + 1, k) \in (v + m + 1)..produced
      <3>1. PICK x \in Nat : x = Byte(s, i + 1, k)
        BY <1>1, <2>3
      <3>2. CASE m = 0
        BY <1>1, <2>3, <3>2
      <3>3. CASE m # 0
        <4>1. v + m < x
          BY <1>7, <2>4, <3>1, <3>3
        <4>2. x \in (v + m + 1)..produced
          BY <1>1, <2>3, <3>1, <4>1
        <4>3. QED
          BY <3>1, <4>2
      <3>4. QED
        BY <3>2, <3>3
    <2>6. ASSUME NEW j \in Unread(s)', NEW l \in DOMAIN chan'[s][j].bytes, i < j
          PROVE  Byte(s, i, k)' < Byte(s, j, l)'
      <3>1. j \in 1..(n - 1) /\ j + 1 \in Unread(s) /\ l \in DOMAIN chan[s][j + 1].bytes
        BY <1>3, <1>10, <2>6
      <3>2. i + 1 < j + 1
        BY <2>1, <2>6, <3>1
      <3>3. Byte(s, i + 1, k) < Byte(s, j + 1, l)
        BY <2>1, <2>2, <3>1, <3>2 DEF SentUpTo
      <3>4. QED
        BY <1>11, <2>1, <3>1, <3>3
    <2>7. QED
      BY <1>11, <2>1, <2>3, <2>5, <2>6
  <1>14. SentUpTo(s, v + m)'
    <2>1. PICK w \in 0..produced : w = v + m
      BY <1>8
    <2>2. SentUpTo(s, w)'
      BY <1>9, <1>12, <1>13, <2>1 DEF SentUpTo
    <2>3. QED
      BY <2>1, <2>2
  <1>15. QED
    BY <1>8, <1>14

\* A browser is sent its next event: output, a lease change, or the end.
LEMMA RecvKeeps ==
  ASSUME TypeOK, ShownInv, NEW s \in Streams, Recv(s)
  PROVE  ShownInv'
  <1> DEFINE e == Head(chan[s])
  <1>1. /\ chan[s] \in Seq(Event) /\ chan[s] # <<>> /\ pc[s] = "pump"
        /\ UNCHANGED <<produced, scrollback, lagged>>
    BY DEF Recv, TypeOK, inner, reader
  <1>2. PICK n \in Nat : n = Len(chan[s])
    BY <1>1
  <1>3. /\ n >= 1 /\ e = chan[s][1] /\ DOMAIN chan[s] = 1..n
        /\ DOMAIN Tail(chan[s]) = 1..(n - 1)
        /\ \A i \in 1..(n - 1) : Tail(chan[s])[i] = chan[s][i + 1]
    BY <1>1, <1>2, TailOfChan
  <1>4. ScrollbackIsNewest'
    BY <1>1 DEF ShownInv, ScrollbackIsNewest
  <1>5. CASE e.kind = "closed"
    <2>1. EndSelect(s) /\ UNCHANGED shown
      BY <1>5 DEF Recv
    <2>2. ~Receiving(s)' /\ \A t \in Streams : t # s => pc'[t] = pc[t] /\ chan'[t] = chan[t]
      BY <2>1 DEF EndSelect, Receiving, TypeOK
    <2>3. QED
      BY <1>1, <2>1, <2>2, ShownUntouched DEF shown
  <1>6. ASSUME e.kind \in {"data", "ctl"}
        PROVE  /\ chan' = [chan EXCEPT ![s] = Tail(@)] /\ pc' = pc
               /\ e.kind = "data" => view' = [view EXCEPT ![s] = @ \o e.bytes] /\ status' = status
               /\ e.kind = "ctl" =>
                    view' = view /\ status' = [status EXCEPT ![s] = StatusFor(s, e.controller)]
    BY <1>6 DEF Recv, task
  <1>7. CASE e.kind \in {"data", "ctl"}
    <2> HIDE DEF e
    <2>1. /\ chan'[s] = Tail(chan[s]) /\ pc' = pc
          /\ \A t \in Streams : t # s =>
               chan'[t] = chan[t] /\ view'[t] = view[t] /\ status'[t] = status[t]
      BY <1>6, <1>7 DEF TypeOK
    <2>2. ASSUME NEW t \in Streams, t # s, NEW v \in 0..produced, SentUpTo(t, v)
          PROVE  SentUpTo(t, v)'
      <3>1. chan'[t] = chan[t] /\ view'[t] = view[t] /\ produced' = produced
        BY <1>1, <2>1, <2>2
      <3>2. QED
        BY <2>2, <3>1 DEF SentUpTo, Unread, Byte
    <2>3. ASSUME NEW v \in 0..produced, SentUpTo(s, v)
          PROVE  \E w \in 0..produced : SentUpTo(s, w)'
      <3>1. CASE e.kind = "data"
        <4>1. view'[s] = view[s] \o e.bytes
          BY <1>6, <1>7, <3>1 DEF TypeOK
        <4>2. QED
          BY <1>1, <2>1, <2>3, <3>1, <4>1, ReadKeepsOrder DEF e
      <3>2. CASE e.kind = "ctl"
        <4>1. view'[s] = view[s] /\ produced' = produced
          BY <1>1, <1>6, <1>7, <3>2
        <4>2. 1 \notin Unread(s)
          BY <1>3, <3>2 DEF Unread
        <4>3. \A i : i \in Unread(s)' <=> i \in 1..(n - 1) /\ i + 1 \in Unread(s)
          BY <1>3, <2>1 DEF Unread
        <4>4. \A i \in 1..(n - 1) : \A k : Byte(s, i, k)' = Byte(s, i + 1, k)
          BY <1>3, <2>1 DEF Byte
        <4>5. \A i \in Unread(s)' : i \in 1..(n - 1) /\ chan'[s][i] = chan[s][i + 1]
          BY <1>3, <2>1, <4>3
        <4>6. \A i \in Unread(s) : \E j \in Unread(s)' : j + 1 = i
          <5> SUFFICES ASSUME NEW i \in Unread(s)
                       PROVE  \E j \in Unread(s)' : j + 1 = i
            OBVIOUS
          <5>1. i \in 1..n /\ i # 1
            BY <1>3, <4>2 DEF Unread
          <5>2. i - 1 \in 1..(n - 1) /\ (i - 1) + 1 = i
            BY <5>1
          <5>3. QED
            BY <4>3, <5>2
        <4>7. ASSUME NEW x \in (v + 1)..produced
              PROVE  \E i \in Unread(s)' : \E k \in DOMAIN chan'[s][i].bytes : Byte(s, i, k)' = x
          BY <2>3, <4>4, <4>5, <4>6 DEF SentUpTo
        <4>8. ASSUME NEW i \in Unread(s)', NEW k \in DOMAIN chan'[s][i].bytes
              PROVE  /\ Byte(s, i, k)' \in (v + 1)..produced
                     /\ Byte(s, i, k)' + 1 = Byte(s, i, 1)' + k
                     /\ \A j \in Unread(s)' : \A l \in DOMAIN chan'[s][j].bytes :
                          i < j => Byte(s, i, k)' < Byte(s, j, l)'
          <5>1. i \in 1..(n - 1) /\ i + 1 \in Unread(s) /\ k \in DOMAIN chan[s][i + 1].bytes
            BY <4>3, <4>5
          <5>2. /\ Byte(s, i + 1, k) \in (v + 1)..produced
                /\ Byte(s, i + 1, k) + 1 = Byte(s, i + 1, 1) + k
            BY <2>3, <5>1 DEF SentUpTo
          <5>3. ASSUME NEW j \in Unread(s)', NEW l \in DOMAIN chan'[s][j].bytes, i < j
                PROVE  Byte(s, i, k)' < Byte(s, j, l)'
            <6>1. j \in 1..(n - 1) /\ j + 1 \in Unread(s) /\ l \in DOMAIN chan[s][j + 1].bytes
              BY <4>3, <4>5
            <6>2. i + 1 < j + 1
              BY <5>1, <5>3, <6>1
            <6>3. Byte(s, i + 1, k) < Byte(s, j + 1, l)
              BY <2>3, <5>1, <6>1, <6>2 DEF SentUpTo
            <6>4. QED
              BY <4>4, <5>1, <6>1, <6>3
          <5>4. QED
            BY <4>4, <5>1, <5>2, <5>3
        <4>9. SentUpTo(s, v)'
          BY <2>3, <4>1, <4>7, <4>8 DEF SentUpTo
        <4>10. QED
          BY <4>9
      <3>3. QED
        BY <1>7, <3>1, <3>2
    <2>4. NoDupNoGap'
      <3> SUFFICES ASSUME NEW t \in Streams, Receiving(t), ~lagged[t]
                   PROVE  \E v \in 0..produced : SentUpTo(t, v)'
        BY <1>1, <2>1 DEF NoDupNoGap, Receiving
      <3>1. PICK v \in 0..produced : SentUpTo(t, v)
        BY DEF ShownInv, NoDupNoGap
      <3>2. QED
        BY <2>2, <2>3, <3>1
    <2>5. WillShowSelf(s)' => WillShowSelf(s)
      <3> SUFFICES ASSUME WillShowSelf(s)'
                   PROVE  WillShowSelf(s)
        OBVIOUS
      <3>1. \A i \in DOMAIN chan[s] : i # 1 => i - 1 \in DOMAIN chan'[s] /\ chan'[s][i - 1] = chan[s][i]
        BY <1>3, <2>1
      <3>2. \A i \in DOMAIN chan'[s] :
              i \in Nat /\ i + 1 \in DOMAIN chan[s] /\ chan'[s][i] = chan[s][i + 1]
        BY <1>3, <2>1
      <3>3. CASE \E i \in DOMAIN chan'[s] :
                   /\ chan'[s][i] = ControllerChanged(s)
                   /\ \A j \in DOMAIN chan'[s] : j > i => chan'[s][j].kind # "ctl"
        <4>1. PICK i \in DOMAIN chan'[s] :
                     /\ chan'[s][i] = ControllerChanged(s)
                     /\ \A j \in DOMAIN chan'[s] : j > i => chan'[s][j].kind # "ctl"
          BY <3>3
        <4>2. i \in Nat /\ i + 1 \in DOMAIN chan[s] /\ chan[s][i + 1] = ControllerChanged(s)
          BY <3>2, <4>1
        <4>3. ASSUME NEW j \in DOMAIN chan[s], j > i + 1
              PROVE  chan[s][j].kind # "ctl"
          <5>1. j # 1 /\ j - 1 > i
            BY <1>3, <4>2, <4>3
          <5>2. QED
            BY <3>1, <4>1, <5>1
        <4>4. QED
          BY <4>2, <4>3 DEF WillShowSelf
      <3>4. CASE status'[s] = "self" /\ \A i \in DOMAIN chan'[s] : chan'[s][i].kind # "ctl"
        <4>1. \A i \in DOMAIN chan[s] : i # 1 => chan[s][i].kind # "ctl"
          BY <3>1, <3>4
        <4>2. CASE e.kind = "data"
          BY <1>3, <1>6, <1>7, <3>4, <4>1, <4>2 DEF WillShowSelf
        <4>3. CASE e.kind = "ctl"
          <5>1. status'[s] = StatusFor(s, e.controller)
            BY <1>6, <1>7, <4>3 DEF TypeOK
          <5>2. e.controller = s
            BY <3>4, <5>1 DEF StatusFor
          <5>3. e \in Event
            BY <1>1, <1>3
          <5>4. e = ControllerChanged(s)
            BY <4>3, <5>2, <5>3 DEF Event, CtlEvent, DataEvent, EndEvent, ControllerChanged
          <5>5. 1 \in DOMAIN chan[s] /\ \A j \in DOMAIN chan[s] : j > 1 => chan[s][j].kind # "ctl"
            BY <1>3, <4>1
          <5>6. QED
            BY <1>3, <5>4, <5>5 DEF WillShowSelf
        <4>4. QED
          BY <1>7, <4>2, <4>3
      <3>5. QED
        BY <3>3, <3>4 DEF WillShowSelf
    <2>6. \A t \in Streams : t # s => WillShowSelf(t)' = WillShowSelf(t)
      BY <2>1 DEF WillShowSelf
    <2>7. OneSelfToCome'
      BY <1>1, <2>1, <2>5, <2>6 DEF ShownInv, OneSelfToCome
    <2>8. QED
      BY <1>4, <2>4, <2>7 DEF ShownInv
  <1>8. QED
    BY <1>5, <1>7 DEF Recv

\* A fresh session has nothing to show.
LEMMA InitShown == Init => ShownInv
  BY DEF Init, ShownInv, OneSelfToCome, ScrollbackIsNewest, NoDupNoGap, Receiving

\* One step per action: most leave every receiver alone.
LEMMA NextShown == LeaseInv /\ ShownInv /\ [Next]_vars => ShownInv'
  <1> SUFFICES ASSUME LeaseInv, ShownInv, [Next]_vars
               PROVE  ShownInv'
    OBVIOUS
  <1>0. TypeOK
    BY DEF LeaseInv
  <1> USE DEF inner, reader, task, shown
  <1>1. ASSUME NEW s \in Streams, Lookup(s) \/ StreamEnd(s) \/ Detach(s)
        PROVE  ShownInv'
    <2>1. /\ UNCHANGED <<produced, scrollback, lagged, view, status>>
          /\ \A t \in Streams : t # s => pc'[t] = pc[t] /\ chan'[t] = chan[t]
          /\ ~Receiving(s)'
      BY <1>0, <1>1 DEF Lookup, StreamEnd, EndSelect, Detach, TypeOK, Receiving
    <2>2. QED
      BY <2>1, ShownUntouched
  <1>2. ASSUME NEW s \in Streams,
               \/ \E size \in Sizes : ResizeFor(s, size)
               \/ AcquireControl(s) \/ TakeControl(s) \/ ReleaseControl(s)
               \/ WriteCheck(s) \/ WriteSend(s) \/ ApplyResize(s)
               \/ RequestDone(s) /\ req[s] = "resize"
        PROVE  ShownInv'
    <2>1. UNCHANGED <<produced, scrollback, lagged, view, status, pc, chan>>
      BY <1>2 DEF ResizeFor, AcquireControl, TakeControl, Grant, ReleaseControl,
         WriteCheck, WriteSend, ApplyResize, RequestDone
    <2>2. QED
      BY <2>1, ShownUntouched
  <1>3. ASSUME NEW s \in Streams, NEW size \in Sizes, Attach(s, size)
        PROVE  ShownInv'
    BY <1>3, AttachKeeps
  <1>4. ASSUME NEW s \in Streams, AttachAnnounce(s)
        PROVE  ShownInv'
    <2>1. /\ Broadcast(ControllerChanged(s)) /\ UNCHANGED <<produced, scrollback, view, status>>
          /\ \A t \in Streams : Receiving(t)' => Receiving(t)
      BY <1>0, <1>4 DEF AttachAnnounce, Receiving, TypeOK
    <2>2. QED
      BY <1>0, <2>1, AnnounceKeeps
  <1>5. ASSUME NEW s \in Streams, DetachAnnounce(s)
        PROVE  ShownInv'
    <2>1. /\ Broadcast(ControllerChanged(None)) /\ UNCHANGED <<produced, scrollback, view, status>>
          /\ \A t \in Streams : Receiving(t)' => Receiving(t)
      BY <1>0, <1>5 DEF DetachAnnounce, Receiving, TypeOK
    <2>2. QED
      BY <1>0, <2>1, AnnounceKeeps
  <1>6. ASSUME NEW s \in Streams, RequestDone(s)
        PROVE  ShownInv'
    <2>1. CASE req[s] = "resize"
      BY <1>2, <1>6, <2>1
    <2>2. ASSUME NEW c \in Streams \cup {None}, Broadcast(ControllerChanged(c))
          PROVE  ShownInv'
      <3>1. UNCHANGED <<produced, scrollback, view, status>>
        BY <1>6 DEF RequestDone
      <3>2. \A t \in Streams : Receiving(t)' => Receiving(t)
        BY <1>6 DEF RequestDone, Receiving
      <3>3. QED
        BY <1>0, <2>2, <3>1, <3>2, AnnounceKeeps
    <2>3. QED
      BY <1>6, <2>1, <2>2 DEF RequestDone
  <1>7. ASSUME NEW s \in Streams, Recv(s)
        PROVE  ShownInv'
    BY <1>0, <1>7, RecvKeeps
  <1>8. ASSUME NEW n \in 1..MaxChunk, PtyOutput(n)
        PROVE  ShownInv'
    BY <1>0, <1>8, OutputKeeps
  <1>9. ASSUME ShellReads \/ ShellEof \/ MarkExited \/ UNCHANGED vars
        PROVE  ShownInv'
    <2>1. UNCHANGED <<produced, scrollback, lagged, view, status, pc, chan>>
      BY <1>9 DEF ShellReads, ShellEof, MarkExited, vars
    <2>2. QED
      BY <2>1, ShownUntouched
  <1>10. ASSUME BroadcastClosed
         PROVE  ShownInv'
    BY <1>0, <1>10, ClosedKeeps DEF BroadcastClosed
  <1>11. QED
    BY <1>1, <1>2, <1>3, <1>4, <1>5, <1>6, <1>7, <1>8, <1>9, <1>10
       DEF Next, TaskStep, Request

\* What the browsers are shown is consistent in every reachable state.
THEOREM ShownInvariant == Spec => []ShownInv
  BY InitShown, NextShown, LeaseInvariant, PTL DEF Spec

\* For any number of streams, any capacity of the ring and of the channel, and
\* any reads: a browser whose receiver did not lag misses no byte between the
\* scrollback it is replayed and the live output, and gets none of them twice.
THEOREM OutputIsSeamless == Spec => []NoDupNoGap
  <1>1. ShownInv => NoDupNoGap
    BY DEF ShownInv
  <1>2. QED
    BY <1>1, ShownInvariant, PTL

\* For any number of browsers: of those that have read everything, at most one
\* shows that it holds the control lease.
THEOREM OneBrowserShowsSelf == Spec => []OneSelf
  <1>1. ShownInv => OneSelf
    <2>1. \A s \in Streams : CaughtUp(s) /\ status[s] = "self" =>
            pc[s] = "pump" /\ ~lagged[s] /\ WillShowSelf(s)
      BY DEF CaughtUp, WillShowSelf
    <2>2. QED
      BY <2>1 DEF ShownInv, OneSelfToCome, OneSelf
  <1>2. QED
    BY <1>1, ShownInvariant, PTL

=============================================================================
