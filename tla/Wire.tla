-------------------------------- MODULE Wire --------------------------------
(***************************************************************************)
(* The frame codec (common/src/frame.rs) and the three hops a frame takes: *)
(* browser to hub (run_proxy's ws_to_stream), hub to agent and back (the   *)
(* mux link), hub to browser (stream_to_ws).                               *)
(*                                                                         *)
(* A decoder error on a WebSocket closes one tab.  A decoder error on the  *)
(* mux link ends run_session or handle_connection, and with it the streams *)
(* of every tab of the machine.  So the hub must forward nothing that the  *)
(* agent would reject, and the agent must emit nothing that the hub would. *)
(*                                                                         *)
(* Lengths are the real ones, in bytes.  A text (a name, a session id, raw *)
(* bytes, JSON) is its length and its kind; ids and geometry, which both   *)
(* sides copy and never inspect, are left out.  The codec keeps no state   *)
(* between frames, so one frame is under way at a time.                    *)
(***************************************************************************)
EXTENDS Naturals

CONSTANTS
  Tabs,       \* stream ids of the open tabs
  Bodies,     \* what a client may put in a frame
  SidTexts,   \* what the path of DELETE .../sessions/{session_id} may hold
  PtyReads,   \* sizes of a scrollback ring or of a PTY read
  MaxSessions,\* limits.max_sessions
  MaxTotal    \* MAX_PASTE_TOTAL_BYTES, scaled: 2^32 - 1 is beyond TLC

ASSUME WireAssumption ==
  /\ 0 \notin Tabs /\ PtyReads \subseteq Nat
  /\ MaxSessions \in Nat /\ MaxTotal \in Nat

VARIABLES
  at,       \* where the frame is: "idle", "ws", "up", "agent", "down", "tab"
  frame,    \* the frame
  origin,   \* who made it, for which stream, and what it was meant to say
  open,     \* tabs whose WebSocket is up
  link      \* "up", or "dropped" by a protocol error

vars == <<at, frame, origin, open, link>>

-----------------------------------------------------------------------------
(* frame.rs: the limits.                                                   *)

ControlTypes ==
  {"Ping", "Pong", "Hello", "ListSessions", "SessionList", "KillSession", "KillSessionAck"}
StreamTypes ==
  {"Data", "Resize", "Open", "Close", "PasteBegin", "PasteChunk", "PasteEnd",
   "PasteReject", "DownloadBegin", "DownloadChunk", "DownloadEnd",
   "AcquireControl", "ReleaseControl", "TakeControl", "ControllerChanged"}
Types == ControlTypes \cup StreamTypes

\* A table over all types, and type bytes that are none, that is 0 where it
\* does not say otherwise.
Table(r) == [t \in Types \cup {"Unknown"} |-> IF t \in DOMAIN r THEN r[t] ELSE 0]

MAX_DATA_LEN          == 65536
MAX_SESSION_ID_LEN    == 64
MAX_PASTE_NAME_LEN    == 255
MAX_PASTE_CHUNK_BYTES == 1048576

\* Bytes of the fixed-width fields that encode writes.
FixedLen ==
  Table([Resize |-> 4, Open |-> 4, PasteBegin |-> 21, PasteChunk |-> 4, PasteEnd |-> 5,
         PasteReject |-> 5, DownloadBegin |-> 13, DownloadChunk |-> 4, DownloadEnd |-> 5,
         ControllerChanged |-> 1, ListSessions |-> 4, SessionList |-> 8,
         KillSession |-> 5, KillSessionAck |-> 5])

\* validate_header: the payload lengths of each type.
MinLen ==
  Table([Resize |-> 4, Open |-> 5, Hello |-> 1, PasteBegin |-> 21, PasteChunk |-> 4,
         PasteEnd |-> 5, PasteReject |-> 5, DownloadBegin |-> 13, DownloadChunk |-> 4,
         DownloadEnd |-> 5, ControllerChanged |-> 1, ListSessions |-> 4,
         SessionList |-> 8, KillSession |-> 5, KillSessionAck |-> 5])
MaxLen ==
  Table([Data |-> MAX_DATA_LEN, Resize |-> 4, Open |-> MAX_SESSION_ID_LEN + 4,
         Ping |-> 64, Pong |-> 64, Hello |-> 1024,
         PasteBegin |-> 21 + MAX_PASTE_NAME_LEN, PasteChunk |-> 4 + MAX_PASTE_CHUNK_BYTES,
         PasteEnd |-> 5, PasteReject |-> 5,
         DownloadBegin |-> 13 + MAX_PASTE_NAME_LEN,
         DownloadChunk |-> 4 + MAX_PASTE_CHUNK_BYTES, DownloadEnd |-> 5,
         ControllerChanged |-> 1, ListSessions |-> 4, SessionList |-> 8 + 262144,
         KillSession |-> 5 + MAX_SESSION_ID_LEN, KillSessionAck |-> 5])

\* The largest status or reason from_payload accepts.
MaxValue ==
  Table([PasteEnd |-> 1, PasteReject |-> 6, DownloadEnd |-> 1, ControllerChanged |-> 2,
         KillSessionAck |-> 1])

-----------------------------------------------------------------------------
(* frame.rs: encode and decode.                                            *)

\* Kinds of text: of the session-id alphabet, other ASCII, two-byte UTF-8
\* characters throughout, and not UTF-8.
Kinds == {"id", "ascii", "wide", "raw"}
Text(len, kind) == [len |-> len, kind |-> kind]
Empty == Text(0, "id")

\* What a frame says: the status, reason or total_size; PasteBegin's
\* group_size; the text.
Body(type, value, groupSize, text) ==
  [type |-> type, value |-> value, groupSize |-> groupSize, text |-> text]

\* Any bytes: type bytes that are none included, and lengths and values that
\* no decoder accepts.
AllTexts  == [len : Nat, kind : Kinds]
AllBodies ==
  [type : Types \cup {"Unknown"}, value : Nat, groupSize : Nat, text : AllTexts]
ASSUME BodiesAssumption == Bodies \subseteq AllBodies /\ SidTexts \subseteq AllTexts

Size(b) == FixedLen[b.type] + b.text.len

\* Mutant of CutName: the cut may fall inside a character.
CutNameAnywhere(text) ==
  IF text.len <= MAX_PASTE_NAME_LEN THEN text
  ELSE Text(MAX_PASTE_NAME_LEN, IF text.kind = "wide" THEN "raw" ELSE text.kind)

\* A name that is too long is cut at a character boundary.  A character of two
\* bytes, the only wide ones here, costs at most one byte of the limit; one of
\* four would cost up to three.
CutName(text) ==
  IF text.len <= MAX_PASTE_NAME_LEN THEN text
  ELSE [text EXCEPT !.len = MAX_PASTE_NAME_LEN - (IF text.kind = "wide" THEN 1 ELSE 0)]

\* A session id to kill is cut without a look.
CutSid(text) == IF text.len <= MAX_SESSION_ID_LEN THEN text ELSE [text EXCEPT !.len = MAX_SESSION_ID_LEN]

Cut(type, text) ==
  CASE type \in {"PasteBegin", "DownloadBegin"} -> CutName(text)
    [] type = "KillSession"                     -> CutSid(text)
    [] OTHER                                    -> text

\* A frame on the wire: the header's stream and length; the length of the
\* text as the payload itself states it (name_len, json_len, id_len); the body.
Wire(stream, len, said, body) ==
  [stream |-> stream, len |-> len, said |-> said, body |-> body]

Encode(stream, body) ==
  LET b == [body EXCEPT !.text = Cut(body.type, body.text)]
  IN  Wire(stream, Size(b), b.text.len, b)

\* The second encoder, which copies a chunk only once.
EncodeDownloadChunk(stream, n) ==
  Wire(stream, 4 + n, n, Body("DownloadChunk", 0, 0, Text(n, "raw")))

IsValidSessionId(text) == text.len \in 1..MAX_SESSION_ID_LEN /\ text.kind = "id"

ValidateHeader(stream, type, len) ==
  /\ type \in Types
  /\ stream = 0 <=> type \in ControlTypes
  /\ MinLen[type] <= len /\ len <= MaxLen[type]

\* The checks of from_payload that validate_header has not made.
PayloadOk(said, b) ==
  /\ b.type \in {"PasteBegin", "DownloadBegin", "SessionList", "KillSession"} =>
       said = b.text.len
  /\ b.type \in {"PasteBegin", "DownloadBegin"} => b.value <= MaxTotal /\ b.text.kind # "raw"
  /\ b.type = "PasteBegin" => b.groupSize # 0
  /\ MaxValue[b.type] # 0 => b.value <= MaxValue[b.type]
  /\ b.type \in {"Open", "KillSession"} => IsValidSessionId(b.text)

\* Header, length of the message, payload: what every receiver asks of a
\* frame.  Over TCP a length that is not the payload's own puts the next
\* header out of step; in a WebSocket message it is compared.
Accepted(stream, f) ==
  /\ ValidateHeader(stream, f.body.type, f.len)
  /\ f.len = Size(f.body)
  /\ PayloadOk(f.said, f.body)

-----------------------------------------------------------------------------
NoBody   == Body("Close", 0, 0, Empty)
NoFrame  == Wire(0, 0, 0, NoBody)
NoOrigin == [who |-> "nobody", stream |-> 0, body |-> NoBody]

Init ==
  /\ at = "idle"
  /\ frame = NoFrame
  /\ origin = NoOrigin
  /\ open = Tabs
  /\ link = "up"

Emit(who, stream, body, to, wire) ==
  /\ at = "idle" /\ link = "up"
  /\ at' = to
  /\ frame' = wire
  /\ origin' = [who |-> who, stream |-> stream, body |-> body]
  /\ UNCHANGED <<open, link>>

Pass(to, wire) == at' = to /\ frame' = wire /\ UNCHANGED <<origin, open, link>>
Reply(body, to) ==
  /\ at' = to
  /\ frame' = Encode(0, body)
  /\ origin' = [origin EXCEPT !.body = body]
  /\ UNCHANGED <<open, link>>
Rest == at' = "idle" /\ frame' = NoFrame /\ origin' = NoOrigin
Drop == at' = "idle" /\ link' = "dropped" /\ UNCHANGED <<frame, origin, open>>

\* A client sends a binary message: app.js, or anything else that speaks
\* WebSocket.
BrowserSends(s, b, stream, len, said) ==
  /\ s \in open
  /\ Emit("browser", s, b, "ws", Wire(stream, len, said, b))

\* Mutant of HubRelays: the frame may get another tab's stream id.
HubRelaysElsewhere ==
  /\ at = "ws"
  /\ frame.stream = 0 /\ Accepted(origin.stream, frame)
  /\ \E s \in Tabs : Pass("up", Encode(s, frame.body))

\* ws_to_stream: check, decode, and encode again under the tab's stream id.
HubRelays ==
  /\ at = "ws"
  /\ frame.stream = 0 /\ Accepted(origin.stream, frame)
  /\ Pass("up", Encode(origin.stream, frame.body))

\* ... or leave the loop, which closes the WebSocket.
HubRefuses ==
  /\ at = "ws"
  /\ ~(frame.stream = 0 /\ Accepted(origin.stream, frame))
  /\ open' = open \ {origin.stream}
  /\ Rest
  /\ UNCHANGED link

\* list_sessions, and kill_session with the id as it stands in the URL.
HubLists == LET b == Body("ListSessions", 0, 0, Empty) IN Emit("list", 0, b, "up", Encode(0, b))
HubKills(text) ==
  LET b == Body("KillSession", 0, 0, text) IN Emit("kill", 0, b, "up", Encode(0, b))

\* The agent's reader loop bails on control frames it does not expect.
AgentTakes(b) == b.type \in StreamTypes \cup {"Ping", "Pong", "ListSessions", "KillSession"}

AgentReceives ==
  /\ at = "up"
  /\ IF Accepted(frame.stream, frame) /\ AgentTakes(frame.body)
     THEN Pass("agent", frame) ELSE Drop

\* build_session_list_json: 15 bytes around at most 162 for each session.
ListJson(n) == Text(15 + 162 * n, "raw")

\* What the agent does with it: it answers an admin request, and hands any
\* other frame to its stream.
AgentActs ==
  /\ at = "agent"
  /\ \/ /\ frame.body.type = "ListSessions"
        /\ \E n \in {0, MaxSessions} : Reply(Body("SessionList", 0, 0, ListJson(n)), "down")
     \/ /\ frame.body.type = "KillSession"
        /\ \E v \in 0..1 : Reply(Body("KillSessionAck", v, 0, Empty), "down")
     \/ /\ frame.body.type \notin {"ListSessions", "KillSession"}
        /\ Rest
        /\ UNCHANGED <<open, link>>

\* slice::chunks(MAX_DATA_LEN): the lengths of the pieces.
Chunks(n) ==
  (IF n >= MAX_DATA_LEN THEN {MAX_DATA_LEN} ELSE {}) \cup ({n % MAX_DATA_LEN} \ {0})

\* What a stream task emits: replayed and live output, statuses, rejects,
\* downloads (of files up to the cap, under any UTF-8 name), and Close.
AgentEmits(s) ==
  \/ \E r \in PtyReads : \E n \in Chunks(r) :
       LET b == Body("Data", 0, 0, Text(n, "raw")) IN Emit("agent", s, b, "down", Encode(s, b))
  \/ \E t \in {"PasteReject", "DownloadEnd", "ControllerChanged", "Close"} :
       \E v \in 0..MaxValue[t] :
         LET b == Body(t, v, 0, Empty) IN Emit("agent", s, b, "down", Encode(s, b))
  \/ \E b \in Bodies :
       /\ b.type = "DownloadBegin" /\ b.value <= MaxTotal /\ b.text.kind # "raw"
       /\ Emit("agent", s, b, "down", Encode(s, b))
  \/ \E n \in {1, MAX_PASTE_CHUNK_BYTES} :
       Emit("agent", s, Body("DownloadChunk", 0, 0, Text(n, "raw")), "down",
            EncodeDownloadChunk(s, n))

\* The pinger.
AgentPings == LET b == Body("Ping", 0, 0, Empty) IN Emit("agent", 0, b, "down", Encode(0, b))

HubTakes(b) == b.type \in StreamTypes \cup {"Ping", "Pong", "SessionList", "KillSessionAck"}

\* The hub's reader loop: a Ping is answered, any other control frame ends
\* here, and the rest is encoded for its tab under stream id 0.
HubReceives ==
  /\ at = "down"
  /\ LET ok == Accepted(frame.stream, frame) /\ HubTakes(frame.body)
     IN  \/ ~ok /\ Drop
         \/ ok /\ frame.body.type = "Ping" /\ Reply([frame.body EXCEPT !.type = "Pong"], "up")
         \/ /\ ok /\ frame.stream = 0 /\ frame.body.type # "Ping"
            /\ Rest /\ UNCHANGED <<open, link>>
         \/ ok /\ frame.stream # 0 /\ Pass("tab", Encode(0, frame.body))

\* parseFrame, and the handler of the type.
TabReceives ==
  /\ at = "tab"
  /\ Rest
  /\ UNCHANGED <<open, link>>

-----------------------------------------------------------------------------
Next ==
  \/ \E s \in Tabs, b \in Bodies, stream \in {0, 1} :
       \E len \in {Size(b), Size(b) + 1}, said \in {b.text.len, b.text.len + 1} :
         BrowserSends(s, b, stream, len, said)
  \/ HubRelays \/ HubRefuses
  \/ HubLists \/ \E text \in SidTexts : HubKills(text)
  \/ AgentReceives \/ AgentActs
  \/ (\E s \in Tabs : AgentEmits(s)) \/ AgentPings
  \/ HubReceives \/ TabReceives

Spec == Init /\ [][Next]_vars

-----------------------------------------------------------------------------
(* Properties.                                                             *)

\* No message of a browser, however malformed, and no frame the agent emits
\* is a protocol error at the other end of the mux link: a tab can at worst
\* lose its own WebSocket.  The one frame that drops the link is a KillSession
\* for an id that is_valid_session_id rejects, which kill_session sends as it
\* found it in the URL.
RelayKeepsLink ==
  link = "dropped" => origin.who = "kill" /\ ~IsValidSessionId(origin.body.text)

\* A relayed frame arrives on the stream it was sent on, is of a type that
\* belongs there, and says what it said -- with a name at most cut to what
\* its length byte can hold, and never into half a character.
DeliveredIntact ==
  /\ at = "agent" /\ origin.who = "browser" =>
       /\ frame.stream = origin.stream /\ frame.body = origin.body
       /\ frame.body.type \in StreamTypes
  /\ at = "tab" =>
       /\ frame.len = Size(frame.body)
       /\ frame.body = [origin.body EXCEPT !.text.len = frame.body.text.len]
       /\ frame.body.text.len = origin.body.text.len \/
            frame.body.text.len \in (MAX_PASTE_NAME_LEN - 1)..MAX_PASTE_NAME_LEN
=============================================================================
