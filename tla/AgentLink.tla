----------------------------- MODULE AgentLink -----------------------------
(***************************************************************************)
(* The hub's end of one machine's agent connections: registration and      *)
(* eviction (handle_connection in hub/src/agent_link.rs), the mux streams  *)
(* of a link (open_stream, StreamGuard) and the browser proxies that use   *)
(* them (hub/src/proxy.rs).                                                *)
(*                                                                         *)
(* notify_close is a tokio Notify: notify_waiters() wakes the notified()   *)
(* futures that exist at that moment and stores nothing for later ones.    *)
(* Reader and writer create a fresh future on every turn of their loops,   *)
(* so each of them has a state "wait", where it can be woken, and states   *)
(* in which the notification passes it by.                                 *)
(***************************************************************************)
EXTENDS Naturals, Sequences, FiniteSets

CONSTANTS
  Conns,       \* connections that authenticate as this machine
  Proxies,     \* WebSocket requests for this machine (run_proxy)
  None,        \* no link
  MaxStreams,  \* MAX_STREAMS_PER_AGENT
  ChanCap,     \* STREAM_CHAN_CAP
  WriterCap,   \* writer queue budget, in frames
  MaxFrames    \* bound: frames the agent sends on one stream

ASSUME LinkAssumption ==
  /\ None \notin Conns
  /\ MaxStreams \in Nat /\ ChanCap \in Nat /\ MaxFrames \in Nat
  /\ WriterCap \in Nat \ {0}

VARIABLES
  agents,    \* AppState.agents[machine_id], None if absent
  evicted,   \* links that a newer registration has replaced
  rd,        \* handle_connection's reader loop and teardown
  wr,        \* writer task
  wokenR,    \* readers whose notified() future has completed
  wokenW,    \* writers whose notified() future has completed
  queue,     \* frames in the link's writer channel
  streams,   \* AgentLink.streams
  px,        \* where each proxy is
  link,      \* link the proxy looked up
  inbox,     \* the stream's mpsc channel: frame numbers
  routed,    \* frames the agent has sent on the stream, while it is received
  got,       \* frames the proxy has taken for its browser
  sending    \* proxies inside ws_tx.send() of the frame they took last

registry == <<agents, evicted>>
loops    == <<rd, wr, wokenR, wokenW>>
mux      == <<streams, inbox, routed, got, sending>>
proxy    == <<px, link>>
vars     == <<registry, loops, queue, mux, proxy>>

\* Reader states before its teardown takes the link out of the map.
Running == {"busy", "wait", "pong", "unmap"}

\* notify_close.notify_waiters()
NotifyWaiters(c) ==
  /\ wokenR' = IF rd[c] = "wait" THEN wokenR \cup {c} ELSE wokenR
  /\ wokenW' = IF wr[c] = "wait" THEN wokenW \cup {c} ELSE wokenW

Move(c, from, to) == rd[c] = from /\ rd' = [rd EXCEPT ![c] = to]

Init ==
  /\ agents = None
  /\ evicted = {}
  /\ rd = [c \in Conns |-> "new"]
  /\ wr = [c \in Conns |-> "none"]
  /\ wokenR = {} /\ wokenW = {}
  /\ queue = [c \in Conns |-> 0]
  /\ streams = [c \in Conns |-> {}]
  /\ px = [p \in Proxies |-> "new"]
  /\ link = [p \in Proxies |-> None]
  /\ inbox = [p \in Proxies |-> <<>>]
  /\ routed = [p \in Proxies |-> 0]
  /\ got = [p \in Proxies |-> 0]
  /\ sending = {}

-----------------------------------------------------------------------------
(* handle_connection: hello, registration, reader loop, teardown.          *)

\* A good Hello: the new link replaces the old one under the map lock.  The
\* reader and the writer task have not created their notified() futures yet.
Register(c) ==
  /\ Move(c, "new", "busy")
  /\ wr' = [wr EXCEPT ![c] = "start"]
  /\ agents' = c
  /\ \/ agents = None /\ UNCHANGED <<evicted, wokenR, wokenW>>
     \/ /\ agents # None
        /\ evicted' = evicted \cup {agents}
        /\ NotifyWaiters(agents)
  /\ UNCHANGED <<queue, mux, proxy>>

\* Hello timeout, EOF, bad JSON or a version mismatch.
HelloFails(c) ==
  /\ Move(c, "new", "done")
  /\ UNCHANGED <<registry, wr, wokenR, wokenW, queue, mux, proxy>>

\* Top of the loop: let evict = notify_close.notified().
ReaderLoop(c) ==
  /\ Move(c, "busy", "wait")
  /\ UNCHANGED <<registry, wr, wokenR, wokenW, queue, mux, proxy>>

\* The select! is biased towards the eviction.
ReaderEvicted(c) ==
  /\ c \in wokenR
  /\ Move(c, "wait", "unmap")
  /\ wokenR' = wokenR \ {c}
  /\ UNCHANGED <<registry, wr, wokenW, queue, mux, proxy>>

\* EOF, transport error, idle timeout, or a frame that is a protocol error.
ReaderEnd(c) ==
  /\ c \notin wokenR
  /\ Move(c, "wait", "unmap")
  /\ UNCHANGED <<registry, wr, wokenR, wokenW, queue, mux, proxy>>

\* Ping: the pong waits for room in the writer's queue.
ReaderPing(c) ==
  /\ c \notin wokenR
  /\ Move(c, "wait", "pong")
  /\ UNCHANGED <<registry, wr, wokenR, wokenW, queue, mux, proxy>>

\* send_frame: refused once the writer task has dropped the receiver.
Enqueue(c) ==
  \/ wr[c] = "closed" /\ UNCHANGED queue
  \/ /\ wr[c] # "closed" /\ queue[c] < WriterCap
     /\ queue' = [queue EXCEPT ![c] = @ + 1]

ReaderPong(c) ==
  /\ Move(c, "pong", "busy")
  /\ Enqueue(c)
  /\ UNCHANGED <<registry, wr, wokenR, wokenW, mux, proxy>>

\* The stream's receiver lives until run_proxy returns ...
Receiving(p) == px[p] \in {"opened", "open", "bye"}

\* ... but it is read, and the browser listened to, in the select! only.
Relaying(p) == px[p] \in {"opened", "open"}

\* Mutant of Route: a frame that does not fit is dropped, the stream goes on.
RouteDropping(c, p) ==
  /\ inbox' = IF p \in streams[c] /\ Receiving(p) /\ Len(inbox[p]) < ChanCap
              THEN [inbox EXCEPT ![p] = Append(@, routed[p] + 1)] ELSE inbox
  /\ UNCHANGED streams

\* try_send to the stream's channel; a stream whose channel is full or whose
\* receiver is gone is reset by dropping its sender.
Route(c, p) ==
  LET fits == Receiving(p) /\ Len(inbox[p]) < ChanCap
  IN  /\ inbox' = IF p \in streams[c] /\ fits
                  THEN [inbox EXCEPT ![p] = Append(@, routed[p] + 1)] ELSE inbox
      /\ streams' = IF fits THEN streams ELSE [streams EXCEPT ![c] = @ \ {p}]

\* A frame of the stream p, which the agent knows since it got p's Open.
ReaderFrame(c, p) ==
  /\ c \notin wokenR
  /\ Move(c, "wait", "busy")
  /\ link[p] = c /\ px[p] \in {"open", "bye", "end", "closing", "closed"}
  /\ routed[p] < MaxFrames
  /\ routed' = IF Receiving(p) THEN [routed EXCEPT ![p] = @ + 1] ELSE routed
  /\ Route(c, p)
  /\ UNCHANGED <<registry, wr, wokenR, wokenW, queue, got, sending, proxy>>

\* Mutant of Unmap: the map entry is removed whosever it is.
UnmapAny(c) ==
  /\ Move(c, "unmap", "clear")
  /\ agents' = None
  /\ UNCHANGED <<evicted, wr, wokenR, wokenW, queue, mux, proxy>>

\* Teardown, one await after the other: leave the map if still in it ...
Unmap(c) ==
  /\ Move(c, "unmap", "clear")
  /\ agents' = IF agents = c THEN None ELSE agents
  /\ UNCHANGED <<evicted, wr, wokenR, wokenW, queue, mux, proxy>>

\* Mutant of ClearStreams: the per-stream senders are kept.
ClearNothing(c) ==
  /\ Move(c, "clear", "notify")
  /\ UNCHANGED <<registry, wr, wokenR, wokenW, queue, mux, proxy>>

\* ... drop every stream's sender ...
ClearStreams(c) ==
  /\ Move(c, "clear", "notify")
  /\ streams' = [streams EXCEPT ![c] = {}]
  /\ UNCHANGED <<registry, wr, wokenR, wokenW, queue, inbox, routed, got, sending, proxy>>

\* ... wake the writer ...
NotifyWriter(c) ==
  /\ Move(c, "notify", "join")
  /\ NotifyWaiters(c)
  /\ UNCHANGED <<registry, wr, queue, mux, proxy>>

\* ... and wait for it.
JoinWriter(c) ==
  /\ wr[c] = "closed"
  /\ Move(c, "join", "done")
  /\ UNCHANGED <<registry, wr, wokenR, wokenW, queue, mux, proxy>>

-----------------------------------------------------------------------------
(* Writer task.  Its Arc of the link keeps a sender of its own queue alive *)
(* (link_for_writer), so write_rx.recv() never returns None.               *)

WriterMove(c, from, to) == wr[c] = from /\ wr' = [wr EXCEPT ![c] = to]

WriterLoop(c) ==
  /\ WriterMove(c, "start", "wait")
  /\ UNCHANGED <<registry, rd, wokenR, wokenW, queue, mux, proxy>>

WriterEvicted(c) ==
  /\ c \in wokenW
  /\ WriterMove(c, "wait", "closed")
  /\ wokenW' = wokenW \ {c}
  /\ queue' = [queue EXCEPT ![c] = 0]
  /\ UNCHANGED <<registry, rd, wokenR, mux, proxy>>

WriterTake(c) ==
  /\ c \notin wokenW /\ queue[c] > 0
  /\ WriterMove(c, "wait", "send")
  /\ queue' = [queue EXCEPT ![c] = @ - 1]
  /\ UNCHANGED <<registry, rd, wokenR, wokenW, mux, proxy>>

WriterSent(c) ==
  /\ WriterMove(c, "send", "start")
  /\ UNCHANGED <<registry, rd, wokenR, wokenW, queue, mux, proxy>>

\* The transport is dead: the receiver is dropped with what it holds.
WriterFails(c) ==
  /\ WriterMove(c, "send", "closed")
  /\ queue' = [queue EXCEPT ![c] = 0]
  /\ UNCHANGED <<registry, rd, wokenR, wokenW, mux, proxy>>

-----------------------------------------------------------------------------
(* Browser proxies: term_ws and run_proxy.                                 *)

ProxyMove(p, from, to) == px[p] \in from /\ px' = [px EXCEPT ![p] = to]

\* One half of run_proxy ends and the select! drops the other, in the middle
\* of a send if it is there.  The sink and the source live on.
StreamEnds(p) ==
  /\ px' = [px EXCEPT ![p] = "bye"]
  /\ sending' = sending \ {p}
  /\ UNCHANGED <<streams, inbox, routed, got, link>>

HasRoom == agents # None /\ Cardinality(streams[agents]) < MaxStreams

\* term_ws finds the link and checks the stream cap, before the upgrade.
ProxyFind(p) ==
  /\ HasRoom
  /\ ProxyMove(p, {"new"}, "found")
  /\ link' = [link EXCEPT ![p] = agents]
  /\ UNCHANGED <<registry, loops, queue, mux>>

\* No agent, or the cap is reached.
ProxyRefused(p) ==
  /\ ~HasRoom
  /\ ProxyMove(p, {"new"}, "closed")
  /\ UNCHANGED <<registry, loops, queue, mux, link>>

\* After the upgrade: open_stream, on whatever has become of the link.
ProxyOpen(p) ==
  /\ ProxyMove(p, {"found"}, "opened")
  /\ streams' = [streams EXCEPT ![link[p]] = @ \cup {p}]
  /\ UNCHANGED <<registry, loops, queue, inbox, routed, got, sending, link>>

\* A frame of the browser, the first of which is Open.
ProxyUplink(p, from) ==
  /\ px[p] \in from
  /\ Enqueue(link[p])
  /\ IF wr[link[p]] = "closed" THEN StreamEnds(p)
     ELSE px' = [px EXCEPT ![p] = "open"] /\ UNCHANGED <<mux, link>>
  /\ UNCHANGED <<registry, loops>>

\* source.recv() returns a frame, which ws_tx.send() takes on.
ProxyDownlink(p) ==
  /\ Relaying(p) /\ p \notin sending /\ inbox[p] # <<>>
  /\ got' = [got EXCEPT ![p] = Head(inbox[p])]
  /\ inbox' = [inbox EXCEPT ![p] = Tail(@)]
  /\ sending' = sending \cup {p}
  /\ UNCHANGED <<registry, loops, queue, streams, routed, proxy>>

\* The browser reads, and ws_tx.send() returns.
BrowserReads(p) ==
  /\ p \in sending
  /\ sending' = sending \ {p}
  /\ UNCHANGED <<registry, loops, queue, streams, inbox, routed, got, proxy>>

\* source.recv() returns None: the sender is gone and the channel drained.
ProxyEof(p) ==
  /\ Relaying(p) /\ p \notin sending /\ inbox[p] = <<>> /\ p \notin streams[link[p]]
  /\ StreamEnds(p)
  /\ UNCHANGED <<registry, loops, queue>>

\* The browser goes away, or sends something malformed.
ProxyWsEnd(p) ==
  /\ Relaying(p)
  /\ StreamEnds(p)
  /\ UNCHANGED <<registry, loops, queue>>

\* The WebSocket's Close has been sent, or cannot be: run_proxy returns and
\* drops the receiver with what it holds, and the guard.
ProxyReturns(p) ==
  /\ ProxyMove(p, {"bye"}, "end")
  /\ inbox' = [inbox EXCEPT ![p] = <<>>]
  /\ routed' = [routed EXCEPT ![p] = 0]
  /\ got' = [got EXCEPT ![p] = 0]
  /\ UNCHANGED <<registry, loops, queue, streams, sending, link>>

\* Mutant of GuardRemove: the guard only says Close.
GuardForgets(p) ==
  /\ ProxyMove(p, {"end"}, "closing")
  /\ UNCHANGED <<registry, loops, queue, mux, link>>

\* Drop of the last StreamGuard: leave the registry ...
GuardRemove(p) ==
  /\ ProxyMove(p, {"end"}, "closing")
  /\ streams' = [streams EXCEPT ![link[p]] = @ \ {p}]
  /\ UNCHANGED <<registry, loops, queue, inbox, routed, got, sending, link>>

\* ... and tell the agent.
GuardClose(p) ==
  /\ ProxyMove(p, {"closing"}, "closed")
  /\ Enqueue(link[p])
  /\ UNCHANGED <<registry, loops, mux, link>>

-----------------------------------------------------------------------------
ReaderStep(c) ==
  \/ ReaderLoop(c) \/ ReaderEvicted(c) \/ ReaderPong(c)
  \/ Unmap(c) \/ ClearStreams(c) \/ NotifyWriter(c) \/ JoinWriter(c)
WriterStep(c) == WriterLoop(c) \/ WriterEvicted(c) \/ WriterTake(c) \/ WriterSent(c)
ProxyStep(p) ==
  \/ ProxyOpen(p) \/ ProxyUplink(p, {"opened"}) \/ ProxyDownlink(p) \/ ProxyEof(p)
  \/ GuardRemove(p) \/ GuardClose(p)

Next ==
  \/ \E c \in Conns :
       \/ Register(c) \/ HelloFails(c)
       \/ ReaderStep(c) \/ ReaderEnd(c) \/ ReaderPing(c)
       \/ \E p \in Proxies : ReaderFrame(c, p)
       \/ WriterStep(c) \/ WriterFails(c)
  \/ \E p \in Proxies :
       \/ ProxyFind(p) \/ ProxyRefused(p) \/ ProxyStep(p)
       \/ ProxyUplink(p, {"open"}) \/ ProxyWsEnd(p)
       \/ BrowserReads(p) \/ ProxyReturns(p)

\* tokio polls every task that can go on.  Nothing makes a browser read
\* (BrowserReads, ProxyReturns) or send more than its Open.
TaskFairness ==
  /\ \A c \in Conns : WF_vars(ReaderStep(c))
  /\ \A p \in Proxies : WF_vars(ProxyStep(p))

\* The agent reads what it is sent.  A writer that ends shuts its half of the
\* connection down, at which the agent hangs up and the reader sees EOF;
\* nothing else makes a connection end.
AgentFairness ==
  \A c \in Conns : WF_vars(WriterStep(c)) /\ SF_vars(wr[c] = "closed" /\ ReaderEnd(c))

Spec     == Init /\ [][Next]_vars
TaskSpec == Spec /\ TaskFairness
FairSpec == TaskSpec /\ AgentFairness

-----------------------------------------------------------------------------
(* Properties.                                                             *)

\* The map holds a link exactly while its reader has not been torn down and
\* no newer connection has replaced it: an evicted connection's late teardown
\* never unregisters its successor, and no torn-down link stays registered.
MapIsNewestLink ==
  \A c \in Conns : agents = c <=> rd[c] \in Running /\ c \notin evicted

\* A browser sees the frames of its stream in order and without a gap: while
\* the stream is registered, what it got and what waits in its channel is
\* all that was routed; a frame that did not fit has ended the stream.
StreamHasNoGap ==
  \A p \in Proxies : Receiving(p) =>
    /\ inbox[p] = [i \in 1..Len(inbox[p]) |-> got[p] + i]
    /\ p \in streams[link[p]] => got[p] + Len(inbox[p]) = routed[p]

\* A registered stream belongs to a proxy that has yet to drop its guard.
NoLeakedStream ==
  \A c \in Conns : \A p \in streams[c] : link[p] = c /\ px[p] \in {"opened", "open", "bye", "end"}

\* The proxy waits for its browser to read, in ws_tx.send().
AtBrowser(p) == p \in sending \/ px[p] = "bye"

\* run_proxy has returned and its guard has left the registry.
Gone(p) == px[p] \in {"closing", "closed"}

\* The link of the proxy has been torn down.
LinkDown(p) == \E c \in Conns : link[p] = c /\ rd[c] = "done"

\* A browser that goes on reading loses its proxy with the link, if the stream
\* was registered when the teardown cleared the registry.  A stream opened
\* later has a sender nobody drops: it ends with the first frame its browser
\* sends once the link is down, and not before.
TornDownProxyEnds ==
  /\ \A p \in Proxies : []<>~AtBrowser(p) =>
       ((\E c \in Conns : rd[c] = "clear" /\ p \in streams[c]) ~> Gone(p))
  /\ [][\A p \in Proxies :
         LinkDown(p) /\ ProxyUplink(p, {"opened", "open"}) => px'[p] = "bye"]_vars

\* handle_connection: eviction tells the old link's reader and writer to bail
\* so that its TCP gets torn down.
EvictedLinkEnds == \A c \in Conns : c \in evicted ~> rd[c] = "done"
=============================================================================
