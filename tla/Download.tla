------------------------------ MODULE Download ------------------------------
(***************************************************************************)
(* term-dl downloads seen from one browser tab: the stream_download tasks  *)
(* of the session (agent/src/session.rs), the download half of a stream's  *)
(* outbound loop (agent/src/main.rs), and the tab's table of downloads     *)
(* (handleDownloadBegin, Chunk and End in hub/static/app.js).              *)
(*                                                                         *)
(* All download frames ride the lo half of every queue, so the way from    *)
(* the outbound loop to the tab is one FIFO.  The tab outlives its stream: *)
(* it reconnects, and if the shell has exited meanwhile lookup_or_spawn    *)
(* gives it a new session, which numbers its downloads from 1 again.       *)
(***************************************************************************)
EXTENDS Naturals, Sequences, FiniteSets

CONSTANTS
  Sizes,          \* file sizes, in chunks
  ChanCap,        \* DOWNLOAD_BROADCAST_CAP
  PipeCap,        \* budget of the lo queues, in frames
  MaxInflight,    \* MAX_INFLIGHT_DOWNLOADS
  MaxDownloads,   \* bound: downloads in all sessions together
  MaxSessions,    \* bound: sessions under this id, one after the other
  MaxReconnects   \* bound: times the tab reconnects

ASSUME DownloadAssumption ==
  /\ Sizes \subseteq Nat
  /\ ChanCap \in Nat \ {0} /\ PipeCap \in Nat \ {0}
  /\ MaxInflight \in Nat /\ MaxDownloads \in Nat
  /\ MaxSessions \in Nat \ {0} /\ MaxReconnects \in Nat

\* A download is the session it belongs to and its download_id there.
Downloads == (1..MaxSessions) \X (1..MaxDownloads)

VARIABLES
  session,     \* which session the id stands for now
  shell,       \* "up", or "exited": SessionEvent::Closed was broadcast
  nextId,      \* Session.next_download_id
  task,        \* state of each stream_download task
  size,        \* its total_size
  sent,        \* chunks it has read and broadcast
  stream,      \* run_session_stream: "lookup" (it has the session and is
               \* not subscribed yet), "up", "drain", "closing", "ended"; or
               \* "down": there is none
  closed,      \* SessionEvent::Closed waits in its event_rx
  chan,        \* the stream's receiver of the download broadcast
  lagging,     \* its next receive returns Lagged
  lagged,      \* it has lagged
  pipe,        \* frames between the outbound loop and the tab
  entries,     \* tab._downloads, by id; <<>> when absent
  saved,       \* files the tab has saved
  reconnects,
  flushed      \* history: the downloads that were over when the flush found
               \* the channel empty, nothing having been lost to lag

agent == <<session, shell, nextId, task, size, sent>>
feed  == <<stream, closed, chan, lagging, lagged>>
tab   == <<entries, saved>>
vars  == <<agent, feed, pipe, tab, reconnects, flushed>>

Event(kind, d, n) == [kind |-> kind, dl |-> d, n |-> n]

\* download_tx has this tab's receiver and no other.
HasReceiver(d) == d[1] = session /\ stream \in {"up", "drain", "closing"}

\* broadcast::Sender::send with a receiver: the newest ChanCap events stay.
Post(e) ==
  LET q    == Append(chan, e)
      over == Len(q) > ChanCap
  IN  /\ chan' = IF over THEN Tail(q) ELSE q
      /\ lagging' = (lagging \/ over)
      /\ lagged' = (lagged \/ over)

Init ==
  /\ session = 1 /\ shell = "up" /\ nextId = 1
  /\ task = [d \in Downloads |-> "none"]
  /\ size = [d \in Downloads |-> 0]
  /\ sent = [d \in Downloads |-> 0]
  /\ stream = "lookup" /\ closed = FALSE
  /\ chan = <<>> /\ lagging = FALSE /\ lagged = FALSE
  /\ pipe = <<>>
  /\ entries = [id \in 1..MaxDownloads |-> <<>>]
  /\ saved = {}
  /\ reconnects = 0 /\ flushed = {}

-----------------------------------------------------------------------------
(* stream_download, a task of its own per download.                        *)

\* The reader task parses the OSC and spawns the download.
TermDl(n) ==
  LET d == <<session, nextId>>
  IN  /\ shell = "up"
      /\ Cardinality({x \in Downloads : task[x] # "none"}) < MaxDownloads
      /\ nextId' = nextId + 1
      /\ task' = [task EXCEPT ![d] = "begin"]
      /\ size' = [size EXCEPT ![d] = n]
      /\ UNCHANGED <<session, shell, sent, feed, pipe, tab, reconnects, flushed>>

\* Nobody listens: Begin and Chunk give up, End is sent into the void.
Unheard(d) ==
  /\ task[d] \in {"begin", "read"} /\ ~HasReceiver(d)
  /\ task' = [task EXCEPT ![d] = "aborted"]
  /\ UNCHANGED <<session, shell, nextId, size, sent, feed, pipe, tab, reconnects, flushed>>

PostBegin(d) ==
  /\ task[d] = "begin" /\ HasReceiver(d)
  /\ Post(Event("begin", d, size[d]))
  /\ task' = [task EXCEPT ![d] = "read"]
  /\ UNCHANGED <<session, shell, nextId, size, sent, stream, closed, pipe, tab, reconnects, flushed>>

PostChunk(d) ==
  /\ task[d] = "read" /\ HasReceiver(d) /\ sent[d] < size[d]
  /\ sent' = [sent EXCEPT ![d] = @ + 1]
  /\ Post(Event("chunk", d, sent[d] + 1))
  /\ UNCHANGED <<session, shell, nextId, task, size, stream, closed, pipe, tab, reconnects, flushed>>

PostEnd(d) ==
  /\ task[d] = "read" /\ HasReceiver(d) /\ sent[d] = size[d]
  /\ Post(Event("end", d, 0))
  /\ task' = [task EXCEPT ![d] = "ended"]
  /\ UNCHANGED <<session, shell, nextId, size, sent, stream, closed, pipe, tab, reconnects, flushed>>

\* The file cannot be opened or read, grew or shrank: End(CANCEL).
PostCancel(d) ==
  /\ task[d] \in {"begin", "read"} /\ HasReceiver(d)
  /\ Post(Event("cancel", d, 0))
  /\ task' = [task EXCEPT ![d] = "ended"]
  /\ UNCHANGED <<session, shell, nextId, size, sent, stream, closed, pipe, tab, reconnects, flushed>>

-----------------------------------------------------------------------------
(* The stream's outbound loop.                                             *)

Forward ==
  /\ stream \in {"up", "drain"} /\ ~lagging
  /\ chan # <<>> /\ Len(pipe) < PipeCap
  /\ pipe' = Append(pipe, Head(chan))
  /\ chan' = Tail(chan)
  /\ UNCHANGED <<agent, stream, closed, lagging, lagged, tab, reconnects, flushed>>

\* RecvError::Lagged is logged, and the loop goes on ...
SkipLagged ==
  /\ stream = "up" /\ lagging
  /\ lagging' = FALSE
  /\ UNCHANGED <<agent, stream, closed, chan, lagged, pipe, tab, reconnects, flushed>>

\* SessionEvent::Closed reaches the streams that have subscribed by now.
ShellExits ==
  /\ shell = "up" /\ shell' = "exited"
  /\ closed' = (stream = "up")
  /\ UNCHANGED <<session, nextId, task, size, sent, stream, chan, lagging, lagged,
                 pipe, tab, reconnects, flushed>>

StartDrain ==
  /\ stream = "up" /\ closed
  /\ stream' = "drain" /\ closed' = FALSE
  /\ UNCHANGED <<agent, chan, lagging, lagged, pipe, tab, reconnects, flushed>>

Over == {d \in Downloads : task[d] = "ended"}

\* The loop of try_recv is left.
LeaveFlush ==
  /\ stream = "drain"
  /\ stream' = "closing"
  /\ flushed' = IF lagged THEN {} ELSE Over
  /\ UNCHANGED <<agent, closed, chan, lagging, lagged, pipe, tab, reconnects>>

\* Mutant of FinishDrain: the stream is closed without the flush.
FinishDrainAtOnce == LeaveFlush

\* Mutant of FinishDrain: the flush awaits recv() and so ends on errors only.
FinishDrainWaits == lagging /\ LeaveFlush

\* ... but try_recv's Lagged ends the flush of the download channel, like
\* Empty does.
FinishDrain == (chan = <<>> \/ lagging) /\ LeaveFlush

\* The Close frame is sent, which the tab ignores.  Only then are the receiver
\* and what was posted to it since the flush dropped.
SendClose ==
  /\ stream = "closing"
  /\ stream' = "ended" /\ chan' = <<>> /\ lagging' = FALSE
  /\ UNCHANGED <<agent, closed, lagged, pipe, tab, reconnects, flushed>>

\* The WebSocket, the hub or the agent link goes down.
Disconnect ==
  /\ stream # "down"
  /\ stream' = "down" /\ closed' = FALSE /\ chan' = <<>> /\ lagging' = FALSE
  /\ pipe' = <<>>
  /\ UNCHANGED <<agent, lagged, tab, reconnects, flushed>>

\* connectTab: the tab keeps its table; lookup_or_spawn replaces an exited
\* session.
Reconnect ==
  /\ stream = "down" /\ reconnects < MaxReconnects
  /\ reconnects' = reconnects + 1
  /\ stream' = "lookup"
  /\ \/ shell = "up" /\ UNCHANGED <<session, shell, nextId>>
     \/ /\ shell = "exited" /\ session < MaxSessions
        /\ session' = session + 1
        /\ shell' = "up" /\ nextId' = 1
  /\ UNCHANGED <<task, size, sent, closed, chan, lagging, lagged, pipe, tab, flushed>>

\* Session::attach subscribes.  If the shell has exited since the lookup, the
\* stream has missed Closed.
Subscribe ==
  /\ stream = "lookup" /\ stream' = "up"
  /\ UNCHANGED <<agent, closed, chan, lagging, lagged, pipe, tab, reconnects, flushed>>

-----------------------------------------------------------------------------
(* The tab.                                                                *)

Inflight == {id \in DOMAIN entries : entries[id] # <<>>}

\* An entry is the download its Begin announced, and the chunks received.
Entry(d, total) == [dl |-> d, total |-> total, got |-> <<>>]

TabBegin(e, id) ==
  /\ entries' = IF Cardinality(Inflight) < MaxInflight /\ id \notin Inflight
                THEN [entries EXCEPT ![id] = Entry(e.dl, e.n)] ELSE entries
  /\ UNCHANGED saved

TabChunk(e, id) ==
  /\ entries' = IF id \notin Inflight THEN entries
                ELSE IF Len(entries[id].got) < entries[id].total
                THEN [entries EXCEPT ![id].got = Append(@, <<e.dl, e.n>>)]
                ELSE [entries EXCEPT ![id] = <<>>]
  /\ UNCHANGED saved

\* Mutant of TabEnd: a short download is saved all the same.
TabEndUnchecked(e, id) ==
  /\ entries' = [entries EXCEPT ![id] = <<>>]
  /\ saved' = IF id \in Inflight
              THEN saved \cup {[dl |-> entries[id].dl, got |-> entries[id].got]}
              ELSE saved

TabEnd(e, id) ==
  /\ entries' = [entries EXCEPT ![id] = <<>>]
  /\ saved' = IF id \in Inflight /\ Len(entries[id].got) = entries[id].total
              THEN saved \cup {[dl |-> entries[id].dl, got |-> entries[id].got]}
              ELSE saved

TabCancel(e, id) ==
  /\ entries' = [entries EXCEPT ![id] = <<>>]
  /\ UNCHANGED saved

TabReceives ==
  /\ pipe # <<>>
  /\ pipe' = Tail(pipe)
  /\ LET e  == Head(pipe)
         id == e.dl[2]
     IN  \/ e.kind = "begin"  /\ TabBegin(e, id)
         \/ e.kind = "chunk"  /\ TabChunk(e, id)
         \/ e.kind = "end"    /\ TabEnd(e, id)
         \/ e.kind = "cancel" /\ TabCancel(e, id)
  /\ UNCHANGED <<agent, feed, reconnects, flushed>>

-----------------------------------------------------------------------------
Next ==
  \/ \E n \in Sizes : TermDl(n)
  \/ \E d \in Downloads :
       Unheard(d) \/ PostBegin(d) \/ PostChunk(d) \/ PostEnd(d) \/ PostCancel(d)
  \/ Forward \/ SkipLagged \/ StartDrain \/ FinishDrain \/ SendClose
  \/ ShellExits \/ Disconnect \/ Reconnect \/ Subscribe
  \/ TabReceives

\* tokio polls the outbound loop, whose select! picks among ready branches at
\* random; the writer task takes what is queued in the hi half, where Close is.
Fairness ==
  /\ WF_vars(StartDrain) /\ WF_vars(FinishDrain) /\ WF_vars(SendClose)
  /\ WF_vars(Forward)

\* The tab handles the frames the hub relays to it.
TabReads == WF_vars(TabReceives)

Spec     == Init /\ [][Next]_vars
FairSpec == Spec /\ Fairness

-----------------------------------------------------------------------------
(* Properties.                                                             *)

\* The chunks of a file that all come from the session which announced it.
\* Only the others could be excused: a table entry that outlives its session
\* takes chunks of the next one under the same download_id.
OneSession(f) == \A i \in DOMAIN f.got : f.got[i][1][1] = f.dl[1]

\* A file the tab saves is the whole file its download announced, chunk by
\* chunk and nothing of another download, whatever was lost to lag or to a
\* reconnect on the way, as long as one session sent all of it.
SavedIntact ==
  \A f \in saved : OneSession(f) => f.got = [i \in 1..size[f.dl] |-> <<f.dl, i>>]

\* A download that was over when the flush at the shell's exit found the
\* channel empty is settled in the tab once the queued frames are handled: no
\* End posted by then is lost, and no file received in vain.  One posted after
\* that, while the Close frame is sent, is lost with the receiver.
ExitFlushesEnds ==
  (stream \in {"closing", "ended"} /\ pipe = <<>> /\ reconnects = 0) =>
    \A id \in Inflight : entries[id].dl \notin flushed

\* The stream which SessionEvent::Closed has reached comes to its end if its tab
\* reads, however much its downloads have queued, are still queueing or have
\* lost to lag: the flush forwards what is there and waits for nothing more.
\* A stream that has missed Closed is not spoken of: it stays.
ExitEndsStream ==
  TabReads => (closed ~> stream \in {"ended", "down"})
=============================================================================
