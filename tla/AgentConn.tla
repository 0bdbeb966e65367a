----------------------------- MODULE AgentConn -----------------------------
(***************************************************************************)
(* The agent's connections to the hub: the reconnect loop of               *)
(* agent/src/main.rs, run_session (reader loop, writer task behind a       *)
(* prio_channel of common/src/prio.rs, pinger, answers to admin requests)  *)
(* and the per-stream tasks it starts (run_session_stream), which attach   *)
(* to sessions that outlive every connection.                              *)
(*                                                                         *)
(* A connection ends while its streams are anywhere in their code.  Their  *)
(* input channels are closed, and run_session waits for the writer task,   *)
(* which goes on until a write fails or until every clone of its queue is  *)
(* dropped -- by the streams and by the tasks that answer requests.  Only  *)
(* then does the agent dial again, and the hub's next link numbers its     *)
(* streams from 1 again.                                                   *)
(*                                                                         *)
(* All streams here are of one session id; a session object is a number,   *)
(* the n-th one spawned for it.  The rest of the registry is in            *)
(* SessionManager, what streams do in a session in Session, Paste and      *)
(* Download.  The hub of this repository never sends a Ping, so the        *)
(* agent's Pong is left out; of the two halves of the queue to the hub,    *)
(* the one for downloads is in Download.                                   *)
(***************************************************************************)
EXTENDS Naturals, Sequences

CONSTANTS
  Tasks,      \* tasks a connection starts, for a stream or for a request
  MaxShells,  \* bound: sessions spawned
  MaxConns,   \* bound: connections that come up
  HubCap,     \* budget of the queue to the hub, in frames
  StreamCap   \* STREAM_HI_CAP: frames a stream's input channel holds

ASSUME ConnAssumption ==
  /\ MaxConns \in Nat /\ MaxShells \in Nat
  /\ HubCap \in Nat \ {0} /\ StreamCap \in Nat

VARIABLES
  phase,    \* main's loop: "dial", "up", "clear", "join", "sleep"
  conn,     \* connections so far; the current one's number
  net,      \* its transport: "up", or "lost" and known to be
  nextSid,  \* the hub's next_stream_id for its end of the connection
  wtask,    \* writer task: "recv", "send", "ended"
  out,      \* frames in its queue
  at,       \* where in run_session_stream each task is
  connOf,   \* connection of the task
  sidOf,    \* stream id of the task
  input,    \* frames in the task's input channel
  over,     \* tasks whose input channel has no sender, or a Close as its last frame
  told,     \* tasks with SessionEvent::Closed in their receiver
  sess,     \* session of the task, 0 if none
  shells,   \* sessions spawned: "running", "dead", "exited"
  attached  \* SessionInner.attached: pairs of a session and a stream id

wire     == <<phase, conn, net, nextSid>>
writer   == <<wtask, out>>
tasks    == <<at, connOf, sidOf, input, over, told, sess>>
sessions == <<shells, attached>>
connVars == <<wire, writer, tasks, sessions>>

Sessions == DOMAIN shells

\* Tasks that hold a clone of the writer's queue.
Live(t) == at[t] \notin {"none", "gone"}

\* Tasks that run the select!, and tasks that hold their input channel.
Pumping(t)   == at[t] \in {"pump", "typing"}
Listening(t) == at[t] \in {"open", "attach", "replay"} \/ Pumping(t)

ConnInit ==
  /\ phase = "dial" /\ conn = 0 /\ net = "lost" /\ nextSid = 1
  /\ wtask = "ended" /\ out = 0
  /\ at = [t \in Tasks |-> "none"]
  /\ connOf = [t \in Tasks |-> 0] /\ sidOf = [t \in Tasks |-> 0]
  /\ input = [t \in Tasks |-> 0]
  /\ over = {} /\ told = {}
  /\ sess = [t \in Tasks |-> 0]
  /\ shells = <<>> /\ attached = {}

-----------------------------------------------------------------------------
(* prio_channel.                                                           *)

\* The receiver of connection c's queue has been dropped.
WriterGone(c) == c # conn \/ wtask = "ended"

\* BytesTx::send: refused once the receiver is gone -- which also frees the
\* budget of those who wait -- and else waits for budget.
Send(c) ==
  \/ WriterGone(c) /\ UNCHANGED out
  \/ ~WriterGone(c) /\ out < HubCap /\ out' = out + 1

-----------------------------------------------------------------------------
(* main: connect, run_session, back off, again.                            *)

Connect ==
  /\ phase = "dial" /\ conn < MaxConns
  /\ phase' = "up" /\ conn' = conn + 1 /\ net' = "up" /\ nextSid' = 1
  /\ wtask' = "recv" /\ out' = 1  \* Hello
  /\ UNCHANGED <<tasks, sessions>>

\* No hub, no TLS, or a rejected upgrade.
DialFails ==
  /\ phase = "dial"
  /\ phase' = "sleep"
  /\ UNCHANGED <<conn, net, nextSid, writer, tasks, sessions>>

\* The backoff, which doubles from RECONNECT_INITIAL to RECONNECT_MAX.
BackoffEnds ==
  /\ phase = "sleep"
  /\ phase' = "dial"
  /\ UNCHANGED <<conn, net, nextSid, writer, tasks, sessions>>

\* The hub restarts, evicts the link or hangs up, or the network fails.
NetLost ==
  /\ net = "up"
  /\ net' = "lost"
  /\ UNCHANGED <<phase, conn, nextSid, writer, tasks, sessions>>

Pings ==
  /\ phase \in {"up", "clear"}
  /\ ~WriterGone(conn) /\ Send(conn)
  /\ UNCHANGED <<wire, wtask, tasks, sessions>>

\* EOF, transport error, idle timeout, or a protocol error.
ReaderEnds ==
  /\ phase = "up"
  /\ phase' = "clear"
  /\ UNCHANGED <<conn, net, nextSid, writer, tasks, sessions>>

\* Mutant of ClearStreams: the registry of senders is kept.
ClearNothing ==
  /\ phase = "clear"
  /\ phase' = "join"
  /\ UNCHANGED <<conn, net, nextSid, writer, tasks, sessions>>

\* Drop every stream's sender, abort the pinger, drop write_tx.
ClearStreams ==
  /\ phase = "clear"
  /\ phase' = "join"
  /\ over' = over \cup {t \in Tasks : Listening(t) /\ connOf[t] = conn}
  /\ UNCHANGED <<conn, net, nextSid, writer, at, connOf, sidOf, input, told, sess, sessions>>

JoinWriter ==
  /\ phase = "join" /\ wtask = "ended"
  /\ phase' = "sleep"
  /\ net' = "lost"
  /\ UNCHANGED <<conn, nextSid, writer, tasks, sessions>>

-----------------------------------------------------------------------------
(* The writer task.                                                        *)

WriterTakes ==
  /\ wtask = "recv" /\ out > 0
  /\ wtask' = "send"
  /\ out' = out - 1
  /\ UNCHANGED <<wire, tasks, sessions>>

WriterSent ==
  /\ wtask = "send" /\ net = "up"
  /\ wtask' = "recv"
  /\ UNCHANGED <<wire, out, tasks, sessions>>

\* A failed write drops the receiver and what is in the queue.
WriterFails ==
  /\ wtask = "send" /\ net = "lost"
  /\ wtask' = "ended"
  /\ out' = 0
  /\ UNCHANGED <<wire, tasks, sessions>>

\* PrioRx::recv returns None: the queue is drained, the last sender dropped.
WriterDone ==
  /\ wtask = "recv" /\ out = 0
  /\ phase = "join"
  /\ \A t \in Tasks : connOf[t] = conn => ~Live(t)
  /\ wtask' = "ended"
  /\ UNCHANGED <<wire, out, tasks, sessions>>

-----------------------------------------------------------------------------
(* The reader loop.                                                        *)

Reading == phase = "up" /\ net = "up"

\* Mutant of HubOpens: a connection's streams all get its first id.
HubOpensFirstId(t) ==
  /\ Reading /\ at[t] = "none"
  /\ at' = [at EXCEPT ![t] = "open"]
  /\ connOf' = [connOf EXCEPT ![t] = conn]
  /\ sidOf' = [sidOf EXCEPT ![t] = nextSid]
  /\ UNCHANGED <<wire, writer, input, over, told, sess, sessions>>

\* ListSessions or KillSession, answered by a task that ends with its answer.
HubAsks(t) ==
  /\ Reading /\ at[t] = "none"
  /\ at' = [at EXCEPT ![t] = "close"]
  /\ connOf' = [connOf EXCEPT ![t] = conn]
  /\ UNCHANGED <<wire, writer, sidOf, input, over, told, sess, sessions>>

HubOpens(t) ==
  /\ Reading /\ at[t] = "none"
  /\ nextSid' = nextSid + 1
  /\ at' = [at EXCEPT ![t] = "open"]
  /\ connOf' = [connOf EXCEPT ![t] = conn]
  /\ sidOf' = [sidOf EXCEPT ![t] = nextSid]
  /\ UNCHANGED <<phase, conn, net, writer, input, over, told, sess, sessions>>

Routes(t) == Reading /\ connOf[t] = conn /\ t \notin over /\ Listening(t)

\* Keystrokes, pastes: try_send, and a stream that has no room is reset.
HubSends(t) ==
  /\ Routes(t)
  /\ \/ input[t] < StreamCap /\ input' = [input EXCEPT ![t] = @ + 1] /\ UNCHANGED over
     \/ input[t] >= StreamCap /\ over' = over \cup {t} /\ UNCHANGED input
  /\ UNCHANGED <<wire, writer, at, connOf, sidOf, told, sess, sessions>>

\* The browser is gone; the hub's StreamGuard says Close, which overtakes the
\* bulk frames that are still queued.
HubCloses(t) ==
  /\ Routes(t)
  /\ over' = over \cup {t}
  /\ \E n \in 0..input[t] : input' = [input EXCEPT ![t] = n]
  /\ UNCHANGED <<wire, writer, at, connOf, sidOf, told, sess, sessions>>

-----------------------------------------------------------------------------
(* run_session_stream.                                                     *)

Goes(t, from, to) == at[t] \in from /\ at' = [at EXCEPT ![t] = to]
StreamOnly == UNCHANGED <<wire, wtask, connOf, sidOf>>

\* The input channel and the event receivers are dropped.
StopsListening(t) ==
  /\ at' = [at EXCEPT ![t] = "close"]
  /\ input' = [input EXCEPT ![t] = 0]
  /\ over' = over \ {t} /\ told' = told \ {t}

\* lookup_or_spawn finds the session, or replaces it if it has exited.
Lookup(t) ==
  /\ Goes(t, {"open"}, "attach")
  /\ LET n == Len(shells) IN
     \/ /\ n > 0 /\ shells[n] # "exited"
        /\ sess' = [sess EXCEPT ![t] = n]
        /\ UNCHANGED shells
     \/ /\ n > 0 => shells[n] = "exited"
        /\ n < MaxShells
        /\ sess' = [sess EXCEPT ![t] = n + 1]
        /\ shells' = Append(shells, "running")
  /\ UNCHANGED <<out, input, over, told, attached>>
  /\ StreamOnly

\* The cap is reached or the shell does not start: a line of text says so.
Refused(t) ==
  /\ at[t] = "open"
  /\ Len(shells) > 0 => shells[Len(shells)] = "exited"
  /\ StopsListening(t)
  /\ Send(connOf[t])
  /\ UNCHANGED <<sess, sessions>>
  /\ StreamOnly

Attachment(t) == <<sess[t], sidOf[t]>>

Attach(t) ==
  /\ Goes(t, {"attach"}, "replay")
  /\ attached' = attached \cup {Attachment(t)}
  /\ UNCHANGED <<out, input, over, told, sess, shells>>
  /\ StreamOnly

\* Mutant of Replay: a writer that is gone makes the task return at once.
ReplayReturns(t) ==
  /\ Goes(t, {"replay"}, IF WriterGone(connOf[t]) THEN "close" ELSE "pump")
  /\ Send(connOf[t])
  /\ UNCHANGED <<input, over, told, sess, sessions>>
  /\ StreamOnly

\* Scrollback and the controller's status, to a writer that may be gone.
Replay(t) ==
  /\ Goes(t, {"replay"}, "pump")
  /\ Send(connOf[t])
  /\ UNCHANGED <<input, over, told, sess, sessions>>
  /\ StreamOnly

\* inbound: take a frame.  The last file of a paste makes it wait in
\* write_internal until the PTY's input queue has room.
TakeFrame(t) ==
  /\ input[t] > 0
  /\ input' = [input EXCEPT ![t] = @ - 1]
  /\ \E to \in {"pump", "typing"} : Goes(t, {"pump"}, to)
  /\ UNCHANGED <<out, over, told, sess, sessions>>
  /\ StreamOnly

\* The program in the shell reads, or the shell is dead.
Typed(t) ==
  /\ Goes(t, {"typing"}, "pump")
  /\ UNCHANGED <<out, input, over, told, sess, sessions>>
  /\ StreamOnly

\* Past the select!: detach.
Leave(t) == StopsListening(t) /\ attached' = attached \ {Attachment(t)}

EndOfInput(t) ==
  /\ at[t] = "pump" /\ input[t] = 0 /\ t \in over
  /\ Leave(t)
  /\ UNCHANGED <<out, sess, shells>>
  /\ StreamOnly

\* outbound: terminal output or a change of the lease ...
OutboundData(t) ==
  /\ Pumping(t)
  /\ ~WriterGone(connOf[t]) /\ Send(connOf[t])
  /\ UNCHANGED <<at, input, over, told, sess, sessions>>
  /\ StreamOnly

\* ... returns if the writer is gone, and the select! drops whatever inbound
\* was waiting for.
OutboundFails(t) ==
  /\ Pumping(t)
  /\ WriterGone(connOf[t])
  /\ Leave(t)
  /\ UNCHANGED <<out, sess, shells>>
  /\ StreamOnly

\* SessionEvent::Closed: say Close and return.
OutboundClosed(t) ==
  /\ t \in told /\ Pumping(t)
  /\ Send(connOf[t])
  /\ Leave(t)
  /\ UNCHANGED <<sess, shells>>
  /\ StreamOnly

\* Tell the hub, leave the registry of senders, drop everything.
CloseStream(t) ==
  /\ Goes(t, {"close"}, "gone")
  /\ Send(connOf[t])
  /\ sess' = [sess EXCEPT ![t] = 0]
  /\ connOf' = [connOf EXCEPT ![t] = 0] /\ sidOf' = [sidOf EXCEPT ![t] = 0]
  /\ UNCHANGED <<wire, wtask, input, over, told, sessions>>

-----------------------------------------------------------------------------
(* The shells.                                                             *)

ShellDies(i) ==
  /\ shells[i] = "running"
  /\ shells' = [shells EXCEPT ![i] = "dead"]
  /\ UNCHANGED <<wire, writer, tasks, attached>>

Subscribed(t) == at[t] = "replay" \/ Pumping(t)

\* The session's reader task sets exited and tells those who have subscribed.
SessionCloses(i) ==
  /\ shells[i] = "dead"
  /\ shells' = [shells EXCEPT ![i] = "exited"]
  /\ told' = told \cup {t \in Tasks : sess[t] = i /\ Subscribed(t)}
  /\ UNCHANGED <<wire, writer, at, connOf, sidOf, input, over, sess, attached>>

-----------------------------------------------------------------------------
StreamStep(t) ==
  \/ Lookup(t) \/ Refused(t) \/ Attach(t) \/ Replay(t)
  \/ TakeFrame(t) \/ EndOfInput(t) \/ CloseStream(t)
WriterStep == WriterTakes \/ WriterSent \/ WriterFails \/ WriterDone

ConnNext ==
  \/ Connect \/ DialFails \/ BackoffEnds \/ NetLost \/ Pings
  \/ ReaderEnds \/ ClearStreams \/ JoinWriter
  \/ WriterStep
  \/ \E t \in Tasks :
       \/ HubAsks(t) \/ HubOpens(t) \/ HubSends(t) \/ HubCloses(t)
       \/ StreamStep(t) \/ Typed(t)
       \/ OutboundData(t) \/ OutboundFails(t) \/ OutboundClosed(t)
  \/ \E i \in Sessions : ShellDies(i) \/ SessionCloses(i)

\* tokio polls every task that can go on, and a Semaphore serves those who
\* wait for budget in order.  A write ends, by TCP's retransmission limit if by
\* nothing else.  The input queue of a dead shell has no receiver.  Nothing
\* makes a program read its input, print, or exit, or the hub hang up.
ConnFairness ==
  /\ WF_connVars(net = "lost" /\ ReaderEnds)
  /\ WF_connVars(ClearStreams \/ JoinWriter \/ BackoffEnds)
  /\ WF_connVars(WriterStep)
  /\ \A t \in Tasks :
       /\ SF_connVars(StreamStep(t))
       /\ WF_connVars(sess[t] # 0 /\ shells[sess[t]] # "running" /\ Typed(t))

ConnSpec     == ConnInit /\ [][ConnNext]_connVars
ConnFairSpec == ConnSpec /\ ConnFairness

-----------------------------------------------------------------------------
(* Properties.                                                             *)

\* Both queues stay within their budgets, whoever fills them, and a task has
\* what its place in run_session_stream says it has: a session once looked up.
TypeOK ==
  /\ phase \in {"dial", "up", "clear", "join", "sleep"}
  /\ conn \in 0..MaxConns /\ net \in {"up", "lost"} /\ nextSid \in Nat \ {0}
  /\ wtask \in {"recv", "send", "ended"} /\ out \in 0..HubCap
  /\ at \in [Tasks -> {"none", "open", "attach", "replay", "pump", "typing", "close", "gone"}]
  /\ connOf \in [Tasks -> 0..conn] /\ sidOf \in [Tasks -> Nat]
  /\ input \in [Tasks -> 0..StreamCap]
  /\ over \subseteq Tasks /\ told \subseteq {t \in Tasks : Subscribed(t)}
  /\ shells \in Seq({"running", "dead", "exited"}) /\ Len(shells) <= MaxShells
  /\ sess \in [Tasks -> {0} \cup Sessions]
  /\ \A t \in Tasks : at[t] = "attach" \/ Subscribed(t) => sess[t] # 0
  /\ attached \subseteq Sessions \X Nat

\* A stream id in a session's attached set belongs to a task that will take
\* it out, on whatever connection and however that connection ended: nothing
\* keeps a session that no browser is on from being collected as idle.
AttachmentsBacked ==
  \A a \in attached :
    \E t \in Tasks : Attachment(t) = a /\ Subscribed(t)

\* Task t is past its select! and detaches under u's id.
DetachesFor(t, u) ==
  /\ Subscribed(t) /\ ~Subscribed(t)'
  /\ Attachment(t) = Attachment(u)

\* detach goes by the stream id alone.  A stream that still runs loses its
\* place in a session only to a stream of another connection, which the hub
\* gave the same id: two streams of one connection never detach each other.
DetachedOnlyByReuse ==
  [][\A u \in Tasks :
       /\ Subscribed(u) /\ Subscribed(u)'
       /\ Attachment(u) \in attached /\ Attachment(u) \notin attached'
       => \E t \in Tasks : DetachesFor(t, u) /\ connOf[t] # connOf[u]]_connVars

\* Once run_session has dropped the senders, every stream of that connection
\* that still listens is bound to see the end of its input, also those the
\* hub opened or reset while it ended, and long after the agent dialled again.
NoStreamForgotten ==
  \A t \in Tasks :
    Listening(t) /\ (connOf[t] # conn \/ phase \notin {"up", "clear"}) => t \in over

Parked(t) == at[t] = "typing"

\* The agent has turned its back on connection c.
Ended(c) ==
  /\ conn # c \/ phase \in {"sleep", "dial"}
  /\ \A t \in Tasks : connOf[t] = c => ~Live(t)

\* run_session's teardown comes to its end and the agent dials again, and
\* every stream of an ended connection detaches and goes away -- unless it
\* waits in write_internal for a program that reads no input any more.
ConnectionWindsDown ==
  []<>(\A t \in Tasks : ~Parked(t)) =>
    \A c \in 1..MaxConns : (phase = "clear" /\ conn = c) ~> Ended(c)
=============================================================================
