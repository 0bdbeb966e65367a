------------------------------ MODULE Session ------------------------------
(***************************************************************************)
(* One shell session of the agent (agent/src/session.rs): the control      *)
(* lease, the PTY geometry, the scrollback ring and the broadcast channel  *)
(* that fans PTY output and lease changes out to the attached streams.     *)
(*                                                                         *)
(* The code guards SessionInner by one mutex, but every lease operation    *)
(* releases it before it resizes the PTY and before it broadcasts the      *)
(* change.  Each such operation is therefore several actions here: the     *)
(* critical section, the resize (a spawn_blocking job that runs whenever   *)
(* the blocking pool gets to it) and the announcement.                     *)
(*                                                                         *)
(* A stream is opened at most once: the hub never reuses a stream id on    *)
(* one agent connection (AgentLink.next_stream_id).                        *)
(***************************************************************************)
EXTENDS Naturals, Sequences, FiniteSets

CONSTANTS
  Streams,        \* stream ids the hub allocates on one connection
  Sizes,          \* PTY geometries (rows, cols)
  None,           \* CONTROLLER_NONE_STREAM_ID / Option::None
  NoSize,         \* "no geometry": stream not attached, no resize pending
  InitialSize,    \* geometry the session was spawned with
  BroadcastCap,   \* BROADCAST_CAP, in events
  ScrollbackCap,  \* limits.scrollback_cap_bytes
  InputCap,       \* BRIDGE_QUEUE_LEN, slots of the PTY input queue
  MaxChunk,       \* bound: bytes in one PTY read
  MaxOutput,      \* bound: bytes the shell prints
  MaxRequests     \* bound: requests the browsers send

ASSUME SessionAssumption ==
  /\ None \notin Streams
  /\ NoSize \notin Sizes
  /\ InitialSize \in Sizes
  /\ BroadcastCap \in Nat \ {0}
  /\ ScrollbackCap \in Nat
  /\ InputCap \in Nat
  /\ MaxChunk \in Nat /\ MaxOutput \in Nat /\ MaxRequests \in Nat

VARIABLES
  controller,   \* SessionInner.controller
  lastSize,     \* SessionInner.last_size
  attached,     \* SessionInner.attached, NoSize when the stream is absent
  scrollback,   \* SessionInner.scrollback, the byte ring
  exited,       \* SessionInner.exited
  shell,        \* PTY reader task: "up", "eof", "exited", "closed"
  produced,     \* bytes the reader task has forwarded; byte i is the number i
  ptySize,      \* geometry the kernel has
  resizeJob,    \* resize a stream handed to spawn_blocking, else NoSize
  inQueue,      \* AsyncPty.in_tx: which stream each queued input is from
  chan,         \* broadcast channel: the events each receiver has yet to read
  lagged,       \* events were dropped from under the receiver
  pc,           \* where each run_session_stream task is
  req,          \* what its inbound half is in the middle of
  view,         \* bytes replayed and forwarded to each browser
  status,       \* last ControllerChanged status sent to each browser
  requests      \* requests sent so far (bound)

inner  == <<controller, lastSize, attached, scrollback, exited>>
pty    == <<ptySize, resizeJob, inQueue>>
reader == <<shell, produced>>
task   == <<pc, req>>
shown  == <<view, status>>
vars   == <<inner, reader, pty, chan, lagged, task, shown, requests>>

PcStates  == {"new", "found", "attach", "pump", "detach", "detachAnnounce", "done"}
ReqStates == {"idle", "resize", "announceSelf", "announceNone", "write"}
Statuses  == {"unknown", "none", "self", "other"}

DataEvent == [kind : {"data"}, bytes : Seq(Nat)]
CtlEvent  == [kind : {"ctl"}, controller : Streams \cup {None}]
EndEvent  == [kind : {"closed"}]
Event     == DataEvent \cup CtlEvent \cup EndEvent

ControllerChanged(c) == [kind |-> "ctl", controller |-> c]
Data(bytes)          == [kind |-> "data", bytes |-> bytes]
Closed               == [kind |-> "closed"]

\* The status byte a browser gets: the lease seen from its own stream.
StatusFor(s, c) == IF c = None THEN "none" ELSE IF c = s THEN "self" ELSE "other"

\* The next n bytes of output, numbered consecutively.
NextBytes(n) == [i \in 1..n |-> produced + i]

\* Mutant of Receiving: the stream subscribes only when its pump starts.
ReceivingLate(s) == pc[s] = "pump"

\* A receiver exists from the subscribe in attach until the select! ends.
Receiving(s) == pc[s] \in {"attach", "pump"}

\* The newest n elements of a sequence.
Newest(seq, n) == SubSeq(seq, IF Len(seq) > n THEN Len(seq) - n + 1 ELSE 1, Len(seq))

\* ByteRing::extend: append, then drain the oldest bytes over the cap.
Extend(ring, bytes) ==
  Newest(ring \o bytes, ScrollbackCap)

\* broadcast::Sender::send: the channel keeps the newest BroadcastCap events.
\* A receiver that falls further behind loses the oldest ones; it is told so
\* by RecvError::Lagged, which the stream task logs before it goes on.
Broadcast(e) ==
  /\ chan' = [s \in Streams |->
               IF Receiving(s) THEN Newest(Append(chan[s], e), BroadcastCap) ELSE <<>>]
  /\ lagged' = [s \in Streams |->
                 lagged[s] \/ (Receiving(s) /\ Len(chan[s]) >= BroadcastCap)]

-----------------------------------------------------------------------------
Init ==
  /\ controller = None
  /\ lastSize = InitialSize
  /\ attached = [s \in Streams |-> NoSize]
  /\ scrollback = <<>>
  /\ exited = FALSE
  /\ shell = "up"
  /\ produced = 0
  /\ ptySize = InitialSize
  /\ resizeJob = [s \in Streams |-> NoSize]
  /\ inQueue = <<>>
  /\ chan = [s \in Streams |-> <<>>]
  /\ lagged = [s \in Streams |-> FALSE]
  /\ pc = [s \in Streams |-> "new"]
  /\ req = [s \in Streams |-> "idle"]
  /\ view = [s \in Streams |-> <<>>]
  /\ status = [s \in Streams |-> "unknown"]
  /\ requests = 0

-----------------------------------------------------------------------------
(* Attach and detach: the beginning and the end of run_session_stream.     *)

\* SessionManager::lookup_or_spawn hands the task this session.
Lookup(s) ==
  /\ pc[s] = "new"
  /\ ~exited
  /\ pc' = [pc EXCEPT ![s] = "found"]
  /\ UNCHANGED <<inner, reader, pty, chan, lagged, req, shown, requests>>

\* Mutant of Attach: the newcomer takes the lease even if it is held.
AttachSteals(s, size) ==
  /\ pc[s] = "found"
  /\ chan' = [chan EXCEPT ![s] = <<>>]
  /\ view' = [view EXCEPT ![s] = scrollback]
  /\ attached' = [attached EXCEPT ![s] = size]
  /\ controller' = s /\ lastSize' = size
  /\ resizeJob' = [resizeJob EXCEPT ![s] = size]
  /\ status' = [status EXCEPT ![s] = StatusFor(s, s)]
  /\ pc' = [pc EXCEPT ![s] = "attach"]
  /\ UNCHANGED <<scrollback, exited, reader, ptySize, inQueue, lagged,
                 req, requests>>

\* Critical section of Session::attach: subscribe, snapshot, join, and take
\* the lease if it is free.  The snapshot and the initial status are local to
\* the stream task and are sent before any live event, so they are recorded
\* at once in view and status.
Attach(s, size) ==
  LET free == controller = None
  IN  /\ pc[s] = "found"
      /\ chan' = [chan EXCEPT ![s] = <<>>]
      /\ view' = [view EXCEPT ![s] = scrollback]
      /\ attached' = [attached EXCEPT ![s] = size]
      /\ controller' = IF free THEN s ELSE controller
      /\ lastSize' = IF free THEN size ELSE lastSize
      /\ resizeJob' = IF free THEN [resizeJob EXCEPT ![s] = size] ELSE resizeJob
      /\ status' = [status EXCEPT ![s] = StatusFor(s, controller')]
      /\ pc' = [pc EXCEPT ![s] = IF free THEN "attach" ELSE "pump"]
      /\ UNCHANGED <<scrollback, exited, reader, ptySize, inQueue, lagged,
                     req, requests>>

\* attach returns to its task once the resize is done and announced.
AttachAnnounce(s) ==
  /\ pc[s] = "attach" /\ resizeJob[s] = NoSize
  /\ Broadcast(ControllerChanged(s))
  /\ pc' = [pc EXCEPT ![s] = "pump"]
  /\ UNCHANGED <<inner, reader, pty, req, shown, requests>>

\* Both halves run in one task: the outbound half runs, and the select! can
\* end, only where the inbound half awaits -- for a request or for a resize,
\* never between a critical section and the synchronous send that follows it.
AtAwait(s) == req[s] \in {"idle", "resize", "announceSelf"}

\* Mutant of EndSelect: an early return that never reaches detach.
EndSelectNoDetach(s) ==
  /\ pc' = [pc EXCEPT ![s] = "done"]
  /\ req' = [req EXCEPT ![s] = "idle"]
  /\ chan' = [chan EXCEPT ![s] = <<>>]

\* The half of the select! that has not finished is cancelled where it
\* stands; a resize already handed to spawn_blocking still runs.
EndSelect(s) ==
  /\ pc' = [pc EXCEPT ![s] = "detach"]
  /\ req' = [req EXCEPT ![s] = "idle"]
  /\ chan' = [chan EXCEPT ![s] = <<>>]

\* Close or EOF from the hub, or a dead writer.
StreamEnd(s) ==
  /\ pc[s] = "pump" /\ AtAwait(s)
  /\ EndSelect(s)
  /\ UNCHANGED <<inner, reader, pty, lagged, shown, requests>>

\* Critical section of Session::detach.
Detach(s) ==
  LET was == controller = s
  IN  /\ pc[s] = "detach"
      /\ attached' = [attached EXCEPT ![s] = NoSize]
      /\ controller' = IF was THEN None ELSE controller
      /\ pc' = [pc EXCEPT ![s] = IF was THEN "detachAnnounce" ELSE "done"]
      /\ UNCHANGED <<lastSize, scrollback, exited, reader, pty, chan, lagged,
                     req, shown, requests>>

DetachAnnounce(s) ==
  /\ pc[s] = "detachAnnounce"
  /\ Broadcast(ControllerChanged(None))
  /\ pc' = [pc EXCEPT ![s] = "done"]
  /\ UNCHANGED <<inner, reader, pty, req, shown, requests>>

-----------------------------------------------------------------------------
(* Requests of the browser, handled one at a time by the inbound half.     *)

Inbound(s) ==
  /\ pc[s] = "pump" /\ req[s] = "idle"
  /\ requests < MaxRequests
  /\ requests' = requests + 1

\* Session::resize_for: every report is remembered, only the controller's
\* reaches the PTY.
ResizeFor(s, size) ==
  LET mine == controller = s
  IN  /\ Inbound(s)
      /\ attached' = [attached EXCEPT ![s] = size]
      /\ lastSize' = IF mine THEN size ELSE lastSize
      /\ resizeJob' = IF mine THEN [resizeJob EXCEPT ![s] = size] ELSE resizeJob
      /\ req' = [req EXCEPT ![s] = IF mine THEN "resize" ELSE "idle"]
      /\ UNCHANGED <<controller, scrollback, exited, reader, ptySize, inQueue,
                     chan, lagged, pc, shown>>

\* What acquire_control and take_control do under the lock when they succeed.
Grant(s) ==
  /\ controller' = s
  /\ lastSize' = attached[s]
  /\ resizeJob' = [resizeJob EXCEPT ![s] = attached[s]]
  /\ req' = [req EXCEPT ![s] = "announceSelf"]
  /\ UNCHANGED <<attached, scrollback, exited, reader, ptySize, inQueue,
                 chan, lagged, pc, shown>>

AcquireControl(s) ==
  /\ Inbound(s)
  /\ attached[s] # NoSize
  /\ controller = None
  /\ Grant(s)

TakeControl(s) ==
  /\ Inbound(s)
  /\ attached[s] # NoSize
  /\ Grant(s)

ReleaseControl(s) ==
  /\ Inbound(s)
  /\ controller = s
  /\ controller' = None
  /\ req' = [req EXCEPT ![s] = "announceNone"]
  /\ UNCHANGED <<lastSize, attached, scrollback, exited, reader, pty, chan, lagged, pc, shown>>

\* Mutant of RequestDone: only the requesting browser is told of its lease.
RequestDoneLocal(s) ==
  /\ pc[s] = "pump" /\ resizeJob[s] = NoSize
  /\ req[s] \in {"announceSelf", "announceNone", "resize"}
  /\ status' = IF req[s] = "announceSelf" THEN [status EXCEPT ![s] = "self"] ELSE status
  /\ req' = [req EXCEPT ![s] = "idle"]
  /\ UNCHANGED <<inner, reader, pty, chan, lagged, pc, view, requests>>

\* The await on the resize returns, and the change is announced.
RequestDone(s) ==
  /\ pc[s] = "pump" /\ resizeJob[s] = NoSize
  /\ \/ req[s] = "announceSelf" /\ Broadcast(ControllerChanged(s))
     \/ req[s] = "announceNone" /\ Broadcast(ControllerChanged(None))
     \/ req[s] = "resize" /\ UNCHANGED <<chan, lagged>>
  /\ req' = [req EXCEPT ![s] = "idle"]
  /\ UNCHANGED <<inner, reader, pty, pc, shown, requests>>

\* Session::write_input_from: the lease is checked under the lock ...
WriteCheck(s) ==
  /\ Inbound(s)
  /\ controller = s
  /\ req' = [req EXCEPT ![s] = "write"]
  /\ UNCHANGED <<inner, reader, pty, chan, lagged, pc, shown>>

\* ... and the input queued after it was released; a full queue drops it.
WriteSend(s) ==
  /\ pc[s] = "pump" /\ req[s] = "write"
  /\ inQueue' = IF Len(inQueue) < InputCap THEN Append(inQueue, s) ELSE inQueue
  /\ req' = [req EXCEPT ![s] = "idle"]
  /\ UNCHANGED <<inner, reader, ptySize, resizeJob, chan, lagged, pc, shown,
                 requests>>

-----------------------------------------------------------------------------
(* Outbound half: the broadcast receiver of one stream.                    *)

Recv(s) ==
  /\ pc[s] = "pump" /\ AtAwait(s) /\ chan[s] # <<>>
  /\ LET e == Head(chan[s])
     IN  \/ /\ e.kind = "data"
            /\ view' = [view EXCEPT ![s] = @ \o e.bytes]
            /\ chan' = [chan EXCEPT ![s] = Tail(@)]
            /\ UNCHANGED <<status, task>>
         \/ /\ e.kind = "ctl"
            /\ status' = [status EXCEPT ![s] = StatusFor(s, e.controller)]
            /\ chan' = [chan EXCEPT ![s] = Tail(@)]
            /\ UNCHANGED <<view, task>>
         \/ /\ e.kind = "closed"       \* outbound returns: the select! ends
            /\ EndSelect(s)
            /\ UNCHANGED shown
  /\ UNCHANGED <<inner, reader, pty, lagged, requests>>

-----------------------------------------------------------------------------
(* The PTY: blocking resize jobs, the input bridge, the reader task.       *)

\* AsyncPty::resize runs on the blocking pool under the master's mutex.
ApplyResize(s) ==
  /\ resizeJob[s] # NoSize
  /\ ptySize' = resizeJob[s]
  /\ resizeJob' = [resizeJob EXCEPT ![s] = NoSize]
  /\ UNCHANGED <<inner, reader, inQueue, chan, lagged, task, shown, requests>>

\* pty_writer_thread hands one queued input to the shell.
ShellReads ==
  /\ shell = "up" /\ inQueue # <<>>
  /\ inQueue' = Tail(inQueue)
  /\ UNCHANGED <<inner, reader, ptySize, resizeJob, chan, lagged, task, shown,
                 requests>>

\* The reader task appends to the scrollback and broadcasts under one lock.
PtyOutput(n) ==
  /\ shell = "up"
  /\ produced + n <= MaxOutput
  /\ scrollback' = Extend(scrollback, NextBytes(n))
  /\ Broadcast(Data(NextBytes(n)))
  /\ produced' = produced + n
  /\ UNCHANGED <<controller, lastSize, attached, exited, shell, pty,
                 task, shown, requests>>

\* The shell exits or is killed; the bridge thread closes out_rx.
ShellEof ==
  /\ shell = "up"
  /\ shell' = "eof"
  /\ UNCHANGED <<inner, produced, pty, chan, lagged, task, shown, requests>>

MarkExited ==
  /\ shell = "eof"
  /\ exited' = TRUE
  /\ shell' = "exited"
  /\ UNCHANGED <<controller, lastSize, attached, scrollback, produced, pty,
                 chan, lagged, task, shown, requests>>

BroadcastClosed ==
  /\ shell = "exited"
  /\ Broadcast(Closed)
  /\ shell' = "closed"
  /\ UNCHANGED <<inner, produced, pty, task, shown, requests>>

-----------------------------------------------------------------------------
\* Steps the runtime takes by itself once they are enabled.
TaskStep(s) ==
  \/ (\E size \in Sizes : Attach(s, size)) \/ AttachAnnounce(s)
  \/ RequestDone(s) \/ WriteSend(s)
  \/ Recv(s)
  \/ Detach(s) \/ DetachAnnounce(s)

Request(s) ==
  \/ \E size \in Sizes : ResizeFor(s, size)
  \/ AcquireControl(s) \/ TakeControl(s) \/ ReleaseControl(s) \/ WriteCheck(s)

Next ==
  \/ \E s \in Streams :
        \/ Lookup(s)
        \/ StreamEnd(s)
        \/ Request(s)
        \/ TaskStep(s)
        \/ ApplyResize(s)
  \/ \E n \in 1..MaxChunk : PtyOutput(n)
  \/ ShellReads \/ ShellEof \/ MarkExited \/ BroadcastClosed

Spec == Init /\ [][Next]_vars

-----------------------------------------------------------------------------
(* Properties.                                                             *)

\* Every variable keeps the type of its Rust counterpart; in particular
\* last_size is a geometry even when nobody holds the lease (session.rs).
TypeOK ==
  /\ controller \in Streams \cup {None}
  /\ lastSize \in Sizes
  /\ attached \in [Streams -> Sizes \cup {NoSize}]
  /\ scrollback \in Seq(Nat)
  /\ exited \in BOOLEAN
  /\ shell \in {"up", "eof", "exited", "closed"}
  /\ produced \in Nat
  /\ ptySize \in Sizes
  /\ resizeJob \in [Streams -> Sizes \cup {NoSize}]
  /\ inQueue \in Seq(Streams)
  /\ chan \in [Streams -> Seq(Event)]
  /\ lagged \in [Streams -> BOOLEAN]
  /\ pc \in [Streams -> PcStates]
  /\ req \in [Streams -> ReqStates]
  /\ view \in [Streams -> Seq(Nat)]
  /\ status \in [Streams -> Statuses]
  /\ requests \in Nat

\* The lease is held by an attached stream or by nobody: a controller that
\* went away without releasing would wedge the hand-off (acquire_control
\* fails while inner.controller is Some).
ControllerAttached == controller # None => attached[controller] # NoSize

\* A stream is in SessionInner.attached exactly while its task owes the
\* session a detach; whichever way the task ends it leaves no entry behind,
\* and so cannot pin the session against the idle sweeper.
NoStaleAttachment ==
  \A s \in Streams : attached[s] # NoSize <=> pc[s] \in {"attach", "pump", "detach"}

\* SessionInner.last_size is the size its controller last reported, across
\* attach, resize_for, acquire_control and take_control of any streams.
LastSizeIsControllers == controller # None => lastSize = attached[controller]

\* The events with output that a receiver has yet to read, by position.
Unread(s) == {i \in DOMAIN chan[s] : chan[s][i].kind = "data"}
Byte(s, i, k) == chan[s][i].bytes[k]

\* The browser of s has been sent an unbroken run of bytes that ends with v, and
\* its receiver holds the ones from v + 1 to the newest, each once and in order.
SentUpTo(s, v) ==
  /\ \A k \in DOMAIN view[s] : view[s][k] + Len(view[s]) = v + k
  /\ \A b \in (v + 1)..produced :
       \E i \in Unread(s) : \E k \in DOMAIN chan[s][i].bytes : Byte(s, i, k) = b
  /\ \A i \in Unread(s) : \A k \in DOMAIN chan[s][i].bytes :
       /\ Byte(s, i, k) \in (v + 1)..produced
       /\ Byte(s, i, k) + 1 = Byte(s, i, 1) + k
       /\ \A j \in Unread(s) : \A l \in DOMAIN chan[s][j].bytes :
            i < j => Byte(s, i, k) < Byte(s, j, l)

\* Scrollback replay and live output together: what a browser has been sent,
\* followed by what its receiver still holds, is a run of consecutive output
\* bytes that ends at the newest one -- nothing twice, nothing missing --
\* unless the receiver lagged (session.rs: "never both ... and never neither").
NoDupNoGap ==
  \A s \in Streams :
    Receiving(s) /\ ~lagged[s] => \E v \in 0..produced : SentUpTo(s, v)

CaughtUp(s) == pc[s] = "pump" /\ ~lagged[s] /\ chan[s] = <<>>

\* However lease operations interleave, two browsers that have read every
\* event never both show that they hold the control lease.
OneSelf ==
  \A s, t \in Streams :
    CaughtUp(s) /\ CaughtUp(t) /\ status[s] = "self" /\ status[t] = "self" => s = t

\* SessionInner.controller, attached and last_size seen as an abstract lease.
LeaseView ==
  INSTANCE Lease WITH holder <- controller, reported <- attached, geometry <- lastSize

\* Session implements Lease: in every interleaving of attaches, detaches and
\* lease requests, SessionInner changes the way the abstract lease may -- the
\* lease is taken from its holder only by a member that asked for it, and
\* whoever loses it loses the geometry at the same instant.
ImplementsLease == LeaseView!Spec
=============================================================================
