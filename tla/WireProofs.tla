----------------------------- MODULE WireProofs -----------------------------
(***************************************************************************)
(* What the frame codec and the hub's relaying promise for frames of every *)
(* type, value and length, and not only those at the boundaries MCWire     *)
(* names.  One frame is under way at a time, so the invariant says what it *)
(* is at each hop: WireInv.                                                *)
(***************************************************************************)
EXTENDS Wire, TLAPS

-----------------------------------------------------------------------------
(* The tables, at the types the proofs meet.                               *)

\* The bytes of the fixed-width fields.
LEMMA FixedLens ==
  /\ FixedLen["Data"] = 0 /\ FixedLen["PasteReject"] = 5 /\ FixedLen["DownloadEnd"] = 5
  /\ FixedLen["ControllerChanged"] = 1 /\ FixedLen["Close"] = 0
  /\ FixedLen["PasteBegin"] = 21 /\ FixedLen["DownloadBegin"] = 13
  /\ FixedLen["DownloadChunk"] = 4 /\ FixedLen["Ping"] = 0 /\ FixedLen["Pong"] = 0
  /\ FixedLen["ListSessions"] = 4 /\ FixedLen["SessionList"] = 8
  /\ FixedLen["KillSession"] = 5 /\ FixedLen["KillSessionAck"] = 5
  BY DEF FixedLen, Table, Types, ControlTypes, StreamTypes

\* The shortest payloads of validate_header.
LEMMA MinLens ==
  /\ MinLen["Data"] = 0 /\ MinLen["PasteReject"] = 5 /\ MinLen["DownloadEnd"] = 5
  /\ MinLen["ControllerChanged"] = 1 /\ MinLen["Close"] = 0
  /\ MinLen["PasteBegin"] = 21 /\ MinLen["DownloadBegin"] = 13
  /\ MinLen["DownloadChunk"] = 4 /\ MinLen["Ping"] = 0 /\ MinLen["Pong"] = 0
  /\ MinLen["ListSessions"] = 4 /\ MinLen["SessionList"] = 8
  /\ MinLen["KillSession"] = 5 /\ MinLen["KillSessionAck"] = 5
  BY DEF MinLen, Table, Types, ControlTypes, StreamTypes

\* The longest ones.
LEMMA MaxLens ==
  /\ MaxLen["Data"] = 65536 /\ MaxLen["PasteReject"] = 5 /\ MaxLen["DownloadEnd"] = 5
  /\ MaxLen["ControllerChanged"] = 1 /\ MaxLen["Close"] = 0
  /\ MaxLen["PasteBegin"] = 276 /\ MaxLen["DownloadBegin"] = 268
  /\ MaxLen["DownloadChunk"] = 1048580 /\ MaxLen["Ping"] = 64 /\ MaxLen["Pong"] = 64
  /\ MaxLen["ListSessions"] = 4 /\ MaxLen["SessionList"] = 262152
  /\ MaxLen["KillSession"] = 69 /\ MaxLen["KillSessionAck"] = 5
  BY DEF MaxLen, Table, Types, ControlTypes, StreamTypes, MAX_DATA_LEN,
         MAX_SESSION_ID_LEN, MAX_PASTE_NAME_LEN, MAX_PASTE_CHUNK_BYTES

\* The largest statuses and reasons of from_payload.
LEMMA MaxValues ==
  /\ MaxValue["Data"] = 0 /\ MaxValue["PasteReject"] = 6 /\ MaxValue["DownloadEnd"] = 1
  /\ MaxValue["ControllerChanged"] = 2 /\ MaxValue["Close"] = 0
  /\ MaxValue["DownloadBegin"] = 0 /\ MaxValue["DownloadChunk"] = 0
  /\ MaxValue["Ping"] = 0 /\ MaxValue["Pong"] = 0
  /\ MaxValue["ListSessions"] = 0 /\ MaxValue["SessionList"] = 0
  /\ MaxValue["KillSession"] = 0 /\ MaxValue["KillSessionAck"] = 1
  BY DEF MaxValue, Table, Types, ControlTypes, StreamTypes

\* Every type has a fixed part, an unknown one included.
LEMMA FixedLenIsNat == \A t \in Types \cup {"Unknown"} : FixedLen[t] \in Nat
  BY DEF FixedLen, Table, Types, ControlTypes, StreamTypes

-----------------------------------------------------------------------------
(* The codec.                                                              *)

\* The fields of a body, and that it has a size.
LEMMA BodyFields ==
  ASSUME NEW b \in AllBodies
  PROVE  /\ b.type \in Types \cup {"Unknown"} /\ b.value \in Nat /\ b.groupSize \in Nat
         /\ b.text \in AllTexts /\ b.text.len \in Nat /\ b.text.kind \in Kinds
         /\ Size(b) \in Nat
  <1>1. /\ b.type \in Types \cup {"Unknown"} /\ b.value \in Nat /\ b.groupSize \in Nat
        /\ b.text \in AllTexts /\ b.text.len \in Nat /\ b.text.kind \in Kinds
    BY DEF AllBodies, AllTexts
  <1> QED BY <1>1, FixedLenIsNat DEF Size

\* A frame that a decoder has accepted is not cut by the next encoder.
LEMMA AcceptedIsUncut ==
  ASSUME NEW s, NEW f, f.body \in AllBodies, Accepted(s, f)
  PROVE  Cut(f.body.type, f.body.text) = f.body.text
  <1> DEFINE b == f.body
  <1>1. /\ b.type \in Types \cup {"Unknown"} /\ b.text \in AllTexts /\ b.text.len \in Nat
    BY BodyFields
  <1>2. Size(b) <= MaxLen[b.type]
    BY DEF Accepted, ValidateHeader
  <1>3. CASE b.type = "PasteBegin"
    <2>1. b.text.len <= 255
      BY <1>1, <1>2, <1>3, FixedLens, MaxLens DEF Size
    <2> QED BY <1>3, <2>1 DEF Cut, CutName, MAX_PASTE_NAME_LEN
  <1>4. CASE b.type = "DownloadBegin"
    <2>1. b.text.len <= 255
      BY <1>1, <1>2, <1>4, FixedLens, MaxLens DEF Size
    <2> QED BY <1>4, <2>1 DEF Cut, CutName, MAX_PASTE_NAME_LEN
  <1>5. CASE b.type = "KillSession"
    <2>1. b.text.len <= 64
      BY <1>1, <1>5 DEF Accepted, PayloadOk, IsValidSessionId, MAX_SESSION_ID_LEN
    <2> QED BY <1>5, <2>1 DEF Cut, CutSid, MAX_SESSION_ID_LEN
  <1>6. CASE b.type \notin {"PasteBegin", "DownloadBegin", "KillSession"}
    BY <1>6 DEF Cut
  <1> QED BY <1>3, <1>4, <1>5, <1>6

\* What encode writes when it need not cut.
LEMMA UncutEncoding ==
  ASSUME NEW s, NEW b \in AllBodies, Cut(b.type, b.text) = b.text
  PROVE  Encode(s, b) = Wire(s, Size(b), b.text.len, b)
  <1>1. [b EXCEPT !.text = b.text] = b
    BY DEF AllBodies
  <1> QED BY <1>1 DEF Encode

\* A frame on the wire has the fields it is made of.
LEMMA WireFields ==
  ASSUME NEW s, NEW len, NEW said, NEW b
  PROVE  /\ Wire(s, len, said, b).stream = s /\ Wire(s, len, said, b).len = len
         /\ Wire(s, len, said, b).said = said /\ Wire(s, len, said, b).body = b
  BY DEF Wire

\* Decoding and encoding again changes nothing but the stream id, and what
\* comes out is accepted under any other stream id.
LEMMA RelayedIsAccepted ==
  ASSUME NEW s, NEW f, f.body \in AllBodies, Accepted(s, f),
         f.body.type \in StreamTypes, NEW x, x # 0
  PROVE  /\ Encode(x, f.body) = Wire(x, Size(f.body), f.body.text.len, f.body)
         /\ Accepted(x, Encode(x, f.body))
  <1> DEFINE b == f.body
             w == Wire(x, Size(b), b.text.len, b)
  <1>1. Encode(x, b) = w
    BY AcceptedIsUncut, UncutEncoding
  <1>2. /\ w.len = Size(b) /\ w.said = b.text.len /\ w.body = b
    BY WireFields
  <1>3. b.type \notin ControlTypes
    BY DEF StreamTypes, ControlTypes
  <1>4. ValidateHeader(x, b.type, Size(b))
    BY <1>3 DEF Accepted, ValidateHeader
  <1>5. PayloadOk(b.text.len, b)
    BY DEF Accepted, PayloadOk
  <1> HIDE DEF b, w
  <1>6. Accepted(x, w)
    BY <1>2, <1>4, <1>5 DEF Accepted
  <1> QED BY <1>1, <1>6 DEF b, w

-----------------------------------------------------------------------------
(* The invariant.                                                          *)

\* The text of b is that of o, or the start of it that fits a name.
SaysSame(b, o) ==
  /\ b = [o EXCEPT !.text.len = b.text.len]
  /\ b.text.len = o.text.len \/ b.text.len \in (MAX_PASTE_NAME_LEN - 1)..MAX_PASTE_NAME_LEN

\* A frame of a tab, relayed under its own stream id.
Relayed ==
  /\ origin.who = "browser" /\ origin.stream \in Tabs
  /\ frame.stream = origin.stream /\ frame.body = origin.body
  /\ frame.body.type \in StreamTypes /\ Accepted(frame.stream, frame)

\* The two admin requests and their answers.
ListAsked ==
  origin.who = "list" /\ frame = Encode(0, Body("ListSessions", 0, 0, Empty))
KillAsked ==
  /\ origin.who = "kill"
  /\ \E text \in SidTexts :
       /\ origin.body = Body("KillSession", 0, 0, text)
       /\ frame = Encode(0, Body("KillSession", 0, 0, text))
ListAnswered ==
  /\ origin.who = "list"
  /\ \E n \in {0, MaxSessions} : frame = Encode(0, Body("SessionList", 0, 0, ListJson(n)))
KillAnswered ==
  /\ origin.who = "kill"
  /\ \E v \in 0..1 : frame = Encode(0, Body("KillSessionAck", v, 0, Empty))

Pinged == origin.who = "agent" /\ frame = Encode(0, Body("Ping", 0, 0, Empty))
Ponged == origin.who = "agent" /\ frame = Encode(0, Body("Pong", 0, 0, Empty))

\* A frame of the agent for one tab.
ForTab(w, s, b) ==
  /\ w.stream = s /\ w.body \in AllBodies /\ w.body.type \in StreamTypes
  /\ Accepted(s, w) /\ SaysSame(w.body, b)
Streamed ==
  origin.who = "agent" /\ frame.stream \in Tabs /\ ForTab(frame, frame.stream, origin.body)

\* The session list of a full agent is one the hub's decoder takes.  Nothing
\* in the agent bounds limits.max_sessions, whose default is 64.
ListFits == 15 + 162 * MaxSessions <= 262144

WireInv ==
  /\ at \in {"idle", "ws", "up", "agent", "down", "tab"}
  /\ at = "ws" =>
       /\ origin.who = "browser" /\ origin.stream \in Tabs
       /\ frame.body = origin.body /\ frame.body \in AllBodies
  /\ at \in {"up", "agent"} =>
       (Relayed /\ frame.body \in AllBodies) \/ ListAsked \/ KillAsked \/ Ponged
  /\ at = "down" => ListAnswered \/ KillAnswered \/ Pinged \/ Streamed
  /\ at = "tab" => frame.len = Size(frame.body) /\ SaysSame(frame.body, origin.body)
  /\ link = "dropped" =>
       /\ at = "idle"
       /\ \/ origin.who = "kill" /\ ~IsValidSessionId(origin.body.text)
          \/ origin.who = "list" /\ ~ListFits

-----------------------------------------------------------------------------
(* What each maker of frames makes.                                        *)

\* A body that was not cut says the same.
LEMMA SayingNothingElse ==
  ASSUME NEW b \in AllBodies
  PROVE  SaysSame(b, b)
  <1>1. [b EXCEPT !.text.len = b.text.len] = b
    BY DEF AllBodies, AllTexts
  <1> QED BY <1>1 DEF SaysSame

\* A frame without a name or a session id is accepted when its length and its
\* value are those of its type.
LEMMA PlainIsAccepted ==
  ASSUME NEW s, NEW t \in Types \ {"PasteBegin", "DownloadBegin", "KillSession", "Open"},
         NEW v \in Nat, NEW n \in Nat, NEW k \in Kinds,
         s = 0 <=> t \in ControlTypes,
         MinLen[t] <= FixedLen[t] + n, FixedLen[t] + n <= MaxLen[t],
         MaxValue[t] # 0 => v <= MaxValue[t]
  PROVE  LET b == Body(t, v, 0, Text(n, k))
         IN  /\ b \in AllBodies
             /\ Encode(s, b) = Wire(s, FixedLen[t] + n, n, b)
             /\ Accepted(s, Encode(s, b))
  <1> DEFINE b == Body(t, v, 0, Text(n, k))
             w == Wire(s, FixedLen[t] + n, n, b)
  <1>1. /\ b \in AllBodies /\ b.type = t /\ b.value = v
        /\ b.text = Text(n, k) /\ b.text.len = n
    <2>1. t \in Types
      OBVIOUS
    <2> QED BY <2>1 DEF Body, Text, AllBodies, AllTexts
  <1> HIDE DEF b
  <1>2. Cut(b.type, b.text) = b.text
    <2>1. t \notin {"PasteBegin", "DownloadBegin"} /\ t # "KillSession"
      OBVIOUS
    <2> QED BY <1>1, <2>1 DEF Cut
  <1>3. Size(b) = FixedLen[t] + n
    BY <1>1 DEF Size
  <1>4. /\ w.len = FixedLen[t] + n /\ w.said = n /\ w.body = b
    BY WireFields
  <1>5. Encode(s, b) = w
    BY <1>1, <1>2, <1>3, UncutEncoding
  <1>6. ValidateHeader(s, t, FixedLen[t] + n)
    BY DEF ValidateHeader
  <1>7. PayloadOk(n, b)
    BY <1>1 DEF PayloadOk
  <1> HIDE DEF w
  <1>8. Accepted(s, w)
    BY <1>1, <1>3, <1>4, <1>6, <1>7 DEF Accepted
  <1> QED BY <1>1, <1>5, <1>8 DEF b, w

\* No type is of both sorts.
LEMMA ControlAndStream ==
  /\ \A t \in StreamTypes : t \in Types /\ t \notin ControlTypes
  /\ \A t \in ControlTypes : t \in Types /\ t \notin StreamTypes
  BY DEF Types, StreamTypes, ControlTypes

\* The frames without a text.
LEMMA BareIsAccepted ==
  ASSUME NEW s, NEW v \in Nat,
         NEW t \in {"PasteReject", "DownloadEnd", "ControllerChanged", "Close", "Ping",
                    "Pong", "ListSessions", "KillSessionAck"},
         v <= MaxValue[t],
         s = 0 <=> t \in ControlTypes
  PROVE  LET b == Body(t, v, 0, Empty)
         IN  /\ b \in AllBodies
             /\ Encode(s, b) = Wire(s, FixedLen[t], 0, b)
             /\ Accepted(s, Encode(s, b))
  <1>1. t \in Types \ {"PasteBegin", "DownloadBegin", "KillSession", "Open"}
    BY DEF Types, StreamTypes, ControlTypes
  <1>2. /\ FixedLen[t] + 0 = FixedLen[t] /\ MinLen[t] <= FixedLen[t] + 0
        /\ FixedLen[t] + 0 <= MaxLen[t]
    BY FixedLens, MinLens, MaxLens
  <1>3. "id" \in Kinds /\ 0 \in Nat
    BY DEF Kinds
  <1>4. LET b == Body(t, v, 0, Text(0, "id"))
        IN  /\ b \in AllBodies
            /\ Encode(s, b) = Wire(s, FixedLen[t] + 0, 0, b)
            /\ Accepted(s, Encode(s, b))
    BY <1>1, <1>2, <1>3, PlainIsAccepted
  <1> QED BY <1>2, <1>4 DEF Empty

\* Data frames: slice::chunks(MAX_DATA_LEN) leaves none too long.
LEMMA ChunksFit ==
  ASSUME NEW r \in Nat, NEW n \in Chunks(r)
  PROVE  n \in Nat /\ n <= 65536
  <1>1. r % 65536 \in Nat /\ r % 65536 < 65536
    OBVIOUS
  <1> QED BY <1>1 DEF Chunks, MAX_DATA_LEN


\* DownloadBegin: the name is cut to what its length byte holds.
LEMMA CutNameFits ==
  ASSUME NEW text \in AllTexts
  PROVE  /\ CutName(text) \in AllTexts
         /\ CutName(text).len <= 255 /\ CutName(text).kind = text.kind
         /\ CutName(text) = [text EXCEPT !.len = CutName(text).len]
         /\ CutName(text).len = text.len \/ CutName(text).len \in 254..255
  <1>1. text.len \in Nat /\ [text EXCEPT !.len = text.len] = text
    BY DEF AllTexts
  <1>2. CASE text.len <= 255
    BY <1>1, <1>2 DEF CutName, MAX_PASTE_NAME_LEN
  <1>3. CASE ~(text.len <= 255)
    <2> DEFINE n == 255 - (IF text.kind = "wide" THEN 1 ELSE 0)
    <2>1. n \in 254..255 /\ n \in Nat /\ n <= 255
      OBVIOUS
    <2>2. CutName(text) = [text EXCEPT !.len = n]
      BY <1>3 DEF CutName, MAX_PASTE_NAME_LEN
    <2> HIDE DEF n
    <2> QED BY <2>1, <2>2 DEF AllTexts
  <1> QED BY <1>2, <1>3

\* A DownloadBegin under any UTF-8 name: the cut name is UTF-8 and fits.
LEMMA NameIsAccepted ==
  ASSUME NEW s, s # 0, NEW b \in AllBodies,
         b.type = "DownloadBegin", b.value <= MaxTotal, b.text.kind # "raw"
  PROVE  ForTab(Encode(s, b), s, b)
  <1> DEFINE text == CutName(b.text)
             c == [b EXCEPT !.text = text]
             w == Wire(s, Size(c), text.len, c)
  <1>1. /\ b.type \in Types \cup {"Unknown"} /\ b.value \in Nat /\ b.groupSize \in Nat
        /\ b.text \in AllTexts /\ b.text.len \in Nat
    BY BodyFields
  <1>2. /\ text \in AllTexts /\ text.len <= 255 /\ text.kind = b.text.kind
        /\ text = [b.text EXCEPT !.len = text.len]
        /\ text.len = b.text.len \/ text.len \in 254..255
    BY <1>1, CutNameFits
  <1> HIDE DEF text
  <1>3. /\ c \in AllBodies /\ c.type = b.type /\ c.value = b.value /\ c.text = text
    BY <1>2 DEF AllBodies
  <1>4. c = [b EXCEPT !.text.len = text.len]
    BY <1>2 DEF AllBodies
  <1>5. Encode(s, b) = w
    <2>1. Cut(b.type, b.text) = text
      BY DEF Cut, text
    <2> QED BY <2>1, <1>3 DEF Encode
  <1> HIDE DEF c
  <1>6. /\ w.stream = s /\ w.len = Size(c) /\ w.said = text.len /\ w.body = c
    BY WireFields
  <1> HIDE DEF w
  <1>7. text.len \in Nat /\ Size(c) = 13 + text.len
    BY <1>2, <1>3, FixedLens DEF AllTexts, Size
  <1>8. "DownloadBegin" \in Types /\ "DownloadBegin" \in StreamTypes
        /\ "DownloadBegin" \notin ControlTypes
    BY DEF Types, StreamTypes, ControlTypes
  <1>9. ValidateHeader(s, c.type, Size(c))
    BY <1>2, <1>3, <1>7, <1>8, MinLens, MaxLens DEF ValidateHeader
  <1>10. PayloadOk(text.len, c)
    BY <1>2, <1>3, MaxValues DEF PayloadOk
  <1>11. Accepted(s, w)
    BY <1>6, <1>9, <1>10 DEF Accepted
  <1>12. SaysSame(c, b)
    BY <1>2, <1>3, <1>4 DEF SaysSame, MAX_PASTE_NAME_LEN
  <1> QED BY <1>3, <1>5, <1>6, <1>8, <1>11, <1>12 DEF ForTab

\* The other frames of a stream task.
LEMMA PlainForTab ==
  ASSUME NEW s, s # 0, NEW n \in Nat, NEW v \in Nat, NEW k \in Kinds,
         NEW t \in StreamTypes \ {"PasteBegin", "DownloadBegin", "Open"},
         MinLen[t] <= FixedLen[t] + n, FixedLen[t] + n <= MaxLen[t],
         MaxValue[t] # 0 => v <= MaxValue[t]
  PROVE  /\ ForTab(Encode(s, Body(t, v, 0, Text(n, k))), s, Body(t, v, 0, Text(n, k)))
         /\ Encode(s, Body(t, v, 0, Text(n, k))) =
              Wire(s, FixedLen[t] + n, n, Body(t, v, 0, Text(n, k)))
  <1> DEFINE b == Body(t, v, 0, Text(n, k))
             w == Encode(s, b)
  <1>1. /\ t \in Types \ {"PasteBegin", "DownloadBegin", "KillSession", "Open"}
        /\ t \in StreamTypes /\ t \notin ControlTypes
    BY ControlAndStream DEF ControlTypes
  <1>2. /\ b \in AllBodies /\ w = Wire(s, FixedLen[t] + n, n, b) /\ Accepted(s, w)
    BY <1>1, PlainIsAccepted
  <1>3. b.type = t
    BY DEF Body
  <1> HIDE DEF b
  <1>4. w.stream = s /\ w.body = b
    BY <1>2, WireFields
  <1>5. SaysSame(b, b)
    BY <1>2, SayingNothingElse
  <1> HIDE DEF w
  <1>6. ForTab(w, s, b)
    BY <1>1, <1>2, <1>3, <1>4, <1>5 DEF ForTab
  <1> QED BY <1>2, <1>6 DEF b, w

\* Everything a stream task of the agent emits for a tab.
LEMMA EmittedForTab ==
  ASSUME NEW s \in Tabs, AgentEmits(s)
  PROVE  at = "idle" /\ at' = "down" /\ link = "up" /\ link' = link
         /\ origin'.who = "agent" /\ frame'.stream = s /\ ForTab(frame', s, origin'.body)
  <1>0. s # 0
    BY WireAssumption
  <1> DEFINE Made(b, w) == Emit("agent", s, b, "down", w)
  <1>1. ASSUME NEW b, NEW w, Made(b, w), ForTab(w, s, b)
        PROVE  /\ at = "idle" /\ at' = "down" /\ link = "up" /\ link' = link
               /\ origin'.who = "agent" /\ frame'.stream = s
               /\ ForTab(frame', s, origin'.body)
    <2>1. /\ at = "idle" /\ at' = "down" /\ link = "up" /\ link' = link
          /\ origin'.who = "agent" /\ origin'.body = b /\ frame' = w
      BY <1>1 DEF Emit
    <2> QED BY <1>1, <2>1 DEF ForTab
  <1>2. CASE \E r \in PtyReads : \E n \in Chunks(r) :
               Made(Body("Data", 0, 0, Text(n, "raw")),
                    Encode(s, Body("Data", 0, 0, Text(n, "raw"))))
    <2>1. PICK r \in PtyReads : \E n \in Chunks(r) :
               Made(Body("Data", 0, 0, Text(n, "raw")),
                    Encode(s, Body("Data", 0, 0, Text(n, "raw"))))
      BY <1>2
    <2>2. PICK n \in Chunks(r) : Made(Body("Data", 0, 0, Text(n, "raw")),
                                      Encode(s, Body("Data", 0, 0, Text(n, "raw"))))
      BY <2>1
    <2>3. n \in Nat /\ n <= 65536
      BY ChunksFit, WireAssumption
    <2>4. /\ "Data" \in StreamTypes \ {"PasteBegin", "DownloadBegin", "Open"}
          /\ "raw" \in Kinds /\ 0 \in Nat
      BY DEF StreamTypes, Kinds
    <2>5. /\ MinLen["Data"] <= FixedLen["Data"] + n /\ FixedLen["Data"] + n <= MaxLen["Data"]
          /\ MaxValue["Data"] = 0
      BY <2>3, FixedLens, MinLens, MaxLens, MaxValues
    <2>6. ForTab(Encode(s, Body("Data", 0, 0, Text(n, "raw"))), s,
                 Body("Data", 0, 0, Text(n, "raw")))
      BY <1>0, <2>3, <2>4, <2>5, PlainForTab
    <2> HIDE DEF Made
    <2> QED BY <1>1, <2>2, <2>6
  <1>3. CASE \E t \in {"PasteReject", "DownloadEnd", "ControllerChanged", "Close"} :
               \E v \in 0..MaxValue[t] :
                 Made(Body(t, v, 0, Empty), Encode(s, Body(t, v, 0, Empty)))
    <2>1. PICK t \in {"PasteReject", "DownloadEnd", "ControllerChanged", "Close"} :
               \E v \in 0..MaxValue[t] :
                 Made(Body(t, v, 0, Empty), Encode(s, Body(t, v, 0, Empty)))
      BY <1>3
    <2>2. PICK v \in 0..MaxValue[t] :
                 Made(Body(t, v, 0, Empty), Encode(s, Body(t, v, 0, Empty)))
      BY <2>1
    <2>3. v \in Nat /\ v <= MaxValue[t]
      BY MaxValues
    <2>4. /\ t \in StreamTypes \ {"PasteBegin", "DownloadBegin", "Open"}
          /\ "id" \in Kinds /\ 0 \in Nat
      BY DEF StreamTypes, Kinds
    <2>5. MinLen[t] <= FixedLen[t] + 0 /\ FixedLen[t] + 0 <= MaxLen[t]
      BY FixedLens, MinLens, MaxLens
    <2>6. ForTab(Encode(s, Body(t, v, 0, Text(0, "id"))), s, Body(t, v, 0, Text(0, "id")))
      BY <1>0, <2>3, <2>4, <2>5, PlainForTab
    <2>7. ForTab(Encode(s, Body(t, v, 0, Empty)), s, Body(t, v, 0, Empty))
      BY <2>6 DEF Empty
    <2> HIDE DEF Made
    <2> QED BY <1>1, <2>2, <2>7
  <1>4. CASE \E b \in Bodies :
               /\ b.type = "DownloadBegin" /\ b.value <= MaxTotal /\ b.text.kind # "raw"
               /\ Made(b, Encode(s, b))
    <2>1. PICK b \in Bodies :
               /\ b.type = "DownloadBegin" /\ b.value <= MaxTotal /\ b.text.kind # "raw"
               /\ Made(b, Encode(s, b))
      BY <1>4
    <2>2. ForTab(Encode(s, b), s, b)
      BY <1>0, <2>1, NameIsAccepted, BodiesAssumption
    <2> HIDE DEF Made
    <2> QED BY <1>1, <2>1, <2>2
  <1>5. CASE \E n \in {1, MAX_PASTE_CHUNK_BYTES} :
               Made(Body("DownloadChunk", 0, 0, Text(n, "raw")), EncodeDownloadChunk(s, n))
    <2>1. PICK n \in {1, MAX_PASTE_CHUNK_BYTES} :
               Made(Body("DownloadChunk", 0, 0, Text(n, "raw")), EncodeDownloadChunk(s, n))
      BY <1>5
    <2>2. n \in Nat /\ n <= 1048576
      BY DEF MAX_PASTE_CHUNK_BYTES
    <2>3. /\ "DownloadChunk" \in StreamTypes \ {"PasteBegin", "DownloadBegin", "Open"}
          /\ "raw" \in Kinds /\ 0 \in Nat
      BY DEF StreamTypes, Kinds
    <2>4. /\ MinLen["DownloadChunk"] <= FixedLen["DownloadChunk"] + n
          /\ FixedLen["DownloadChunk"] + n <= MaxLen["DownloadChunk"]
          /\ FixedLen["DownloadChunk"] = 4 /\ MaxValue["DownloadChunk"] = 0
      BY <2>2, FixedLens, MinLens, MaxLens, MaxValues
    <2>5. /\ ForTab(Encode(s, Body("DownloadChunk", 0, 0, Text(n, "raw"))), s,
                    Body("DownloadChunk", 0, 0, Text(n, "raw")))
          /\ Encode(s, Body("DownloadChunk", 0, 0, Text(n, "raw"))) =
               Wire(s, FixedLen["DownloadChunk"] + n, n,
                    Body("DownloadChunk", 0, 0, Text(n, "raw")))
      BY <1>0, <2>2, <2>3, <2>4, PlainForTab
    <2>6. ForTab(EncodeDownloadChunk(s, n), s, Body("DownloadChunk", 0, 0, Text(n, "raw")))
      BY <2>4, <2>5 DEF EncodeDownloadChunk
    <2> HIDE DEF Made
    <2> QED BY <1>1, <2>1, <2>6
  <1> QED BY <1>2, <1>3, <1>4, <1>5 DEF AgentEmits


\* The admin frames: what they are, and which of them a decoder refuses.
LEMMA BareControl ==
  ASSUME NEW t \in {"Ping", "Pong", "ListSessions"}
  PROVE  LET w == Encode(0, Body(t, 0, 0, Empty))
         IN  /\ w.stream = 0 /\ w.body = Body(t, 0, 0, Empty) /\ w.body.type = t
             /\ Accepted(w.stream, w)
  <1> DEFINE b == Body(t, 0, 0, Empty)
             w == Encode(0, b)
  <1>1. t \in ControlTypes /\ 0 <= MaxValue[t] /\ 0 \in Nat
    BY MaxValues DEF ControlTypes
  <1>2. w = Wire(0, FixedLen[t], 0, b) /\ Accepted(0, w)
    BY <1>1, BareIsAccepted
  <1>3. b.type = t
    BY DEF Body
  <1> HIDE DEF b
  <1>4. w.stream = 0 /\ w.body = b
    BY <1>2, WireFields
  <1> HIDE DEF w
  <1>5. /\ w.stream = 0 /\ w.body = b /\ w.body.type = t /\ Accepted(w.stream, w)
    BY <1>2, <1>3, <1>4
  <1> QED BY <1>5 DEF b, w

\* KillSessionAck, with either status.
LEMMA AckAccepted ==
  ASSUME NEW v \in 0..1
  PROVE  LET w == Encode(0, Body("KillSessionAck", v, 0, Empty))
         IN  w.stream = 0 /\ w.body.type = "KillSessionAck" /\ Accepted(w.stream, w)
  <1> DEFINE b == Body("KillSessionAck", v, 0, Empty)
             w == Encode(0, b)
  <1>1. "KillSessionAck" \in ControlTypes /\ v <= MaxValue["KillSessionAck"] /\ v \in Nat
    BY MaxValues DEF ControlTypes
  <1>2. w = Wire(0, FixedLen["KillSessionAck"], 0, b) /\ Accepted(0, w)
    BY <1>1, BareIsAccepted
  <1>3. b.type = "KillSessionAck"
    BY DEF Body
  <1> HIDE DEF b
  <1>4. w.stream = 0 /\ w.body = b
    BY <1>2, WireFields
  <1> HIDE DEF w
  <1>5. w.stream = 0 /\ w.body.type = "KillSessionAck" /\ Accepted(w.stream, w)
    BY <1>2, <1>3, <1>4
  <1> QED BY <1>5 DEF b, w

\* SessionList, as far as the list fits.
LEMMA ListAccepted ==
  ASSUME NEW n \in {0, MaxSessions}
  PROVE  LET w == Encode(0, Body("SessionList", 0, 0, ListJson(n)))
         IN  /\ w.stream = 0 /\ w.body.type = "SessionList"
             /\ ListFits => Accepted(w.stream, w)
  <1> DEFINE len == 15 + 162 * n
             b == Body("SessionList", 0, 0, Text(len, "raw"))
             w == Encode(0, b)
  <1>1. len \in Nat /\ n \in Nat
    BY WireAssumption
  <1>2. ListFits => 8 + len <= 262152
    BY WireAssumption DEF ListFits
  <1> HIDE DEF len
  <1>3. b.type = "SessionList" /\ b.text.len = len
    BY DEF Body, Text
  <1>4. w.stream = 0 /\ w.body.type = "SessionList"
    BY DEF Encode, Wire, Body
  <1>5. ASSUME ListFits PROVE Accepted(0, w)
    <2>1. "SessionList" \in Types \ {"PasteBegin", "DownloadBegin", "KillSession", "Open"}
          /\ "SessionList" \in ControlTypes /\ "raw" \in Kinds /\ 0 \in Nat
      BY DEF Types, ControlTypes, Kinds
    <2>2. /\ MinLen["SessionList"] <= FixedLen["SessionList"] + len
          /\ FixedLen["SessionList"] + len <= MaxLen["SessionList"]
          /\ MaxValue["SessionList"] = 0
      BY <1>1, <1>2, <1>5, FixedLens, MinLens, MaxLens, MaxValues
    <2> QED BY <1>1, <2>1, <2>2, PlainIsAccepted
  <1>6. /\ w.stream = 0 /\ w.body.type = "SessionList" /\ (ListFits => Accepted(w.stream, w))
    BY <1>4, <1>5
  <1> QED BY <1>6 DEF ListJson, len

\* KillSession, for an id that the agent accepts.
LEMMA KillAccepted ==
  ASSUME NEW text \in AllTexts
  PROVE  LET w == Encode(0, Body("KillSession", 0, 0, text))
         IN  /\ w.stream = 0 /\ w.body.type = "KillSession"
             /\ IsValidSessionId(text) => Accepted(w.stream, w)
  <1> DEFINE b == Body("KillSession", 0, 0, text)
             w == Encode(0, b)
  <1>1. w.stream = 0 /\ w.body.type = "KillSession"
    BY DEF Encode, Wire, Body
  <1>2. ASSUME IsValidSessionId(text) PROVE Accepted(0, w)
    <2>1. text.len \in Nat /\ 1 <= text.len /\ text.len <= 64
      BY <1>2 DEF IsValidSessionId, MAX_SESSION_ID_LEN, AllTexts
    <2>2. /\ b.type = "KillSession" /\ b.text = text /\ b.value = 0 /\ b \in AllBodies
      BY DEF Body, AllBodies, Types, ControlTypes
    <2> HIDE DEF b
    <2>3. Cut(b.type, b.text) = b.text
      BY <2>1, <2>2 DEF Cut, CutSid, MAX_SESSION_ID_LEN
    <2>4. Size(b) = 5 + text.len
      BY <2>1, <2>2, FixedLens DEF Size
    <2>5. w = Wire(0, Size(b), text.len, b)
      BY <2>2, <2>3, UncutEncoding
    <2>6. w.len = Size(b) /\ w.said = text.len /\ w.body = b
      BY <2>5, WireFields
    <2> HIDE DEF w
    <2>7. ValidateHeader(0, b.type, Size(b))
      BY <2>1, <2>2, <2>4, MinLens, MaxLens DEF ValidateHeader, Types, ControlTypes
    <2>8. PayloadOk(text.len, b)
      BY <1>2, <2>1, <2>2, MaxValues DEF PayloadOk
    <2> QED BY <2>6, <2>7, <2>8 DEF Accepted
  <1> QED BY <1>1, <1>2

-----------------------------------------------------------------------------
(* The steps.                                                              *)

\* At the start no frame is under way.
LEMMA InitWire == Init => WireInv
  BY DEF Init, WireInv

\* ws_to_stream relays what it has accepted, and the agent will too.
LEMMA RelayedByHub ==
  ASSUME WireInv, HubRelays
  PROVE  WireInv'
  <1>1. /\ at = "ws" /\ origin.who = "browser" /\ origin.stream \in Tabs
        /\ frame.body = origin.body /\ frame.body \in AllBodies
        /\ Accepted(origin.stream, frame) /\ link # "dropped"
    BY DEF HubRelays, WireInv
  <1>2. origin.stream # 0
    BY <1>1, WireAssumption
  <1>3. frame.body.type \in StreamTypes
    BY <1>1, <1>2 DEF Accepted, ValidateHeader, Types
  <1>4. /\ at' = "up" /\ frame' = Encode(origin.stream, frame.body)
        /\ origin' = origin /\ link' = link
    BY DEF HubRelays, Pass
  <1>5. /\ Encode(origin.stream, frame.body) =
             Wire(origin.stream, Size(frame.body), frame.body.text.len, frame.body)
        /\ Accepted(origin.stream, Encode(origin.stream, frame.body))
    BY <1>1, <1>2, <1>3, RelayedIsAccepted
  <1>6. frame'.stream = origin.stream /\ frame'.body = frame.body
    BY <1>4, <1>5, WireFields
  <1>7. Relayed' /\ frame'.body \in AllBodies
    BY <1>1, <1>3, <1>4, <1>5, <1>6 DEF Relayed
  <1> QED BY <1>1, <1>4, <1>7 DEF WireInv

\* The agent's decoder refuses only a KillSession with an invalid id.
LEMMA ReceivedByAgent ==
  ASSUME WireInv, AgentReceives
  PROVE  WireInv'
  <1>1. /\ at = "up" /\ link # "dropped"
        /\ (Relayed /\ frame.body \in AllBodies) \/ ListAsked \/ KillAsked \/ Ponged
    BY DEF AgentReceives, WireInv
  <1>2. CASE Accepted(frame.stream, frame) /\ AgentTakes(frame.body)
    <2>1. at' = "agent" /\ frame' = frame /\ origin' = origin /\ link' = link
      BY <1>2 DEF AgentReceives, Pass
    <2>2. ((Relayed /\ frame.body \in AllBodies) \/ ListAsked \/ KillAsked \/ Ponged)'
      BY <1>1, <2>1 DEF Relayed, ListAsked, KillAsked, Ponged
    <2> QED BY <1>1, <2>1, <2>2 DEF WireInv
  <1>3. CASE ~(Accepted(frame.stream, frame) /\ AgentTakes(frame.body))
    <2>1. at' = "idle" /\ link' = "dropped" /\ origin' = origin
      BY <1>3 DEF AgentReceives, Drop
    <2>2. ~Relayed
      BY <1>3 DEF Relayed, AgentTakes
    <2>3. ~ListAsked
      BY <1>3, BareControl DEF ListAsked, AgentTakes
    <2>4. ~Ponged
      BY <1>3, BareControl DEF Ponged, AgentTakes
    <2>5. PICK text \in SidTexts :
            /\ origin.body = Body("KillSession", 0, 0, text)
            /\ frame = Encode(0, Body("KillSession", 0, 0, text))
      BY <1>1, <2>2, <2>3, <2>4 DEF KillAsked
    <2>6. text \in AllTexts
      BY BodiesAssumption
    <2>7. ~IsValidSessionId(text)
      BY <1>3, <2>5, <2>6, KillAccepted DEF AgentTakes
    <2>8. origin.body.text = text
      BY <2>5 DEF Body
    <2>9. origin.who = "kill"
      BY <1>1, <2>2, <2>3, <2>4 DEF KillAsked
    <2> QED BY <2>1, <2>7, <2>8, <2>9 DEF WireInv
  <1> QED BY <1>2, <1>3

\* The agent answers the request it was sent, to the one who sent it.
LEMMA ActedOnByAgent ==
  ASSUME WireInv, AgentActs
  PROVE  WireInv'
  <1>1. /\ at = "agent" /\ link # "dropped"
        /\ (Relayed /\ frame.body \in AllBodies) \/ ListAsked \/ KillAsked \/ Ponged
    BY DEF AgentActs, WireInv
  <1>2. Relayed => frame.body.type \notin {"ListSessions", "KillSession"}
    BY DEF Relayed, StreamTypes
  <1>3. ListAsked => frame.body.type = "ListSessions" /\ origin.who = "list"
    BY BareControl DEF ListAsked
  <1>4. KillAsked => frame.body.type = "KillSession" /\ origin.who = "kill"
    BY BodiesAssumption, KillAccepted DEF KillAsked
  <1>5. Ponged => frame.body.type = "Pong"
    BY BareControl DEF Ponged
  <1>6. CASE /\ frame.body.type = "ListSessions"
             /\ \E n \in {0, MaxSessions} : Reply(Body("SessionList", 0, 0, ListJson(n)), "down")
    <2>1. origin.who = "list" /\ at' = "down" /\ link' = link
      BY <1>1, <1>2, <1>4, <1>5, <1>6 DEF ListAsked, Reply
    <2>2. origin'.who = origin.who
      BY <1>6 DEF Reply
    <2>3. ListAnswered'
      BY <1>6, <2>1, <2>2 DEF ListAnswered, Reply
    <2> QED BY <1>1, <2>1, <2>3 DEF WireInv
  <1>7. CASE /\ frame.body.type = "KillSession"
             /\ \E v \in 0..1 : Reply(Body("KillSessionAck", v, 0, Empty), "down")
    <2>1. origin.who = "kill" /\ at' = "down" /\ link' = link
      BY <1>1, <1>2, <1>3, <1>5, <1>7 DEF KillAsked, Reply
    <2>2. origin'.who = origin.who
      BY <1>7 DEF Reply
    <2>3. KillAnswered'
      BY <1>7, <2>1, <2>2 DEF KillAnswered, Reply
    <2> QED BY <1>1, <2>1, <2>3 DEF WireInv
  <1>8. CASE Rest /\ UNCHANGED <<open, link>>
    BY <1>1, <1>8 DEF Rest, WireInv
  <1> QED BY <1>6, <1>7, <1>8 DEF AgentActs


\* The hub's decoder refuses only a SessionList that does not fit.
LEMMA ReceivedByHub ==
  ASSUME WireInv, HubReceives
  PROVE  WireInv'
  <1> DEFINE ok == Accepted(frame.stream, frame) /\ HubTakes(frame.body)
  <1>1. /\ at = "down" /\ link # "dropped"
        /\ ListAnswered \/ KillAnswered \/ Pinged \/ Streamed
    BY DEF HubReceives, WireInv
  <1>2. ListAnswered =>
          /\ frame.stream = 0 /\ frame.body.type = "SessionList" /\ origin.who = "list"
          /\ ListFits => ok
    BY ListAccepted DEF ListAnswered, HubTakes
  <1>3. KillAnswered => frame.stream = 0 /\ frame.body.type = "KillSessionAck" /\ ok
    BY AckAccepted DEF KillAnswered, HubTakes
  <1>4. Pinged =>
          /\ frame.stream = 0 /\ frame.body = Body("Ping", 0, 0, Empty)
          /\ frame.body.type = "Ping" /\ origin.who = "agent" /\ ok
    BY BareControl DEF Pinged, HubTakes
  <1>5. Streamed =>
          /\ frame.stream \in Tabs /\ frame.stream # 0 /\ frame.body.type \in StreamTypes
          /\ frame.body \in AllBodies /\ SaysSame(frame.body, origin.body)
          /\ frame.body.type # "Ping" /\ ok
    BY WireAssumption DEF Streamed, ForTab, HubTakes, StreamTypes
  <1>6. CASE ~ok /\ Drop
    BY <1>1, <1>2, <1>3, <1>4, <1>5, <1>6 DEF Drop, WireInv
  <1>7. CASE ok /\ frame.body.type = "Ping" /\ Reply([frame.body EXCEPT !.type = "Pong"], "up")
    <2>1. Pinged
      BY <1>1, <1>2, <1>3, <1>5, <1>7
    <2>2. [frame.body EXCEPT !.type = "Pong"] = Body("Pong", 0, 0, Empty)
      BY <1>4, <2>1 DEF Body
    <2>3. /\ at' = "up" /\ link' = link /\ origin'.who = origin.who
          /\ frame' = Encode(0, Body("Pong", 0, 0, Empty))
      BY <1>7, <2>2 DEF Reply
    <2>4. Ponged'
      BY <1>4, <2>1, <2>3 DEF Ponged
    <2> QED BY <1>1, <2>3, <2>4 DEF WireInv
  <1>8. CASE Rest /\ UNCHANGED <<open, link>>
    BY <1>1, <1>8 DEF Rest, WireInv
  <1>9. CASE ok /\ frame.stream # 0 /\ Pass("tab", Encode(0, frame.body))
    <2>1. Streamed
      BY <1>1, <1>2, <1>3, <1>4, <1>9
    <2>2. Encode(0, frame.body) = Wire(0, Size(frame.body), frame.body.text.len, frame.body)
      BY <1>5, <1>9, <2>1, AcceptedIsUncut, UncutEncoding
    <2>3. /\ at' = "tab" /\ link' = link /\ origin' = origin
          /\ frame' = Encode(0, frame.body)
      BY <1>9 DEF Pass
    <2>4. frame'.len = Size(frame.body) /\ frame'.body = frame.body
      BY <2>2, <2>3, WireFields
    <2>5. frame'.len = Size(frame'.body) /\ SaysSame(frame'.body, origin'.body)
      BY <1>5, <2>1, <2>3, <2>4
    <2> QED BY <1>1, <2>3, <2>5 DEF WireInv
  <1> QED BY <1>6, <1>7, <1>8, <1>9 DEF HubReceives

\* The invariant is inductive.
LEMMA StepWire ==
  ASSUME WireInv, [Next]_vars
  PROVE  WireInv'
  <1>1. CASE \E s \in Tabs, b \in Bodies, stream \in {0, 1} :
               \E len \in {Size(b), Size(b) + 1}, said \in {b.text.len, b.text.len + 1} :
                 BrowserSends(s, b, stream, len, said)
    <2>1. PICK s \in Tabs, b \in Bodies, stream \in {0, 1} :
               \E len \in {Size(b), Size(b) + 1}, said \in {b.text.len, b.text.len + 1} :
                 BrowserSends(s, b, stream, len, said)
      BY <1>1
    <2>2. PICK len \in {Size(b), Size(b) + 1}, said \in {b.text.len, b.text.len + 1} :
                 BrowserSends(s, b, stream, len, said)
      BY <2>1
    <2>3. /\ at' = "ws" /\ link = "up" /\ link' = link /\ origin'.who = "browser"
          /\ origin'.stream = s /\ origin'.body = b /\ frame' = Wire(stream, len, said, b)
      BY <2>2 DEF BrowserSends, Emit
    <2>4. frame'.body = b /\ b \in AllBodies
      BY <2>3, WireFields, BodiesAssumption
    <2> QED BY <2>3, <2>4 DEF WireInv
  <1>2. CASE HubRelays
    BY <1>2, RelayedByHub
  <1>3. CASE HubRefuses
    BY <1>3 DEF HubRefuses, Rest, WireInv
  <1>4. CASE HubLists
    <2>1. ListAsked' /\ at' = "up" /\ link' = "up"
      BY <1>4 DEF HubLists, Emit, ListAsked
    <2> QED BY <2>1 DEF WireInv
  <1>5. CASE \E text \in SidTexts : HubKills(text)
    <2>1. KillAsked' /\ at' = "up" /\ link' = "up"
      BY <1>5 DEF HubKills, Emit, KillAsked
    <2> QED BY <2>1 DEF WireInv
  <1>6. CASE AgentReceives
    BY <1>6, ReceivedByAgent
  <1>7. CASE AgentActs
    BY <1>7, ActedOnByAgent
  <1>8. CASE \E s \in Tabs : AgentEmits(s)
    <2>1. PICK s \in Tabs : AgentEmits(s)
      BY <1>8
    <2>2. /\ at' = "down" /\ link = "up" /\ link' = link
          /\ origin'.who = "agent" /\ frame'.stream = s /\ ForTab(frame', s, origin'.body)
      BY <2>1, EmittedForTab
    <2>3. Streamed'
      BY <2>2 DEF Streamed
    <2> QED BY <2>2, <2>3 DEF WireInv
  <1>9. CASE AgentPings
    <2>1. Pinged' /\ at' = "down" /\ link' = "up"
      BY <1>9 DEF AgentPings, Emit, Pinged
    <2> QED BY <2>1 DEF WireInv
  <1>10. CASE HubReceives
    BY <1>10, ReceivedByHub
  <1>11. CASE TabReceives
    BY <1>11 DEF TabReceives, Rest, WireInv
  <1>12. CASE UNCHANGED vars
    BY <1>12 DEF vars, WireInv, Relayed, ListAsked, KillAsked, ListAnswered, KillAnswered,
                 Pinged, Ponged, Streamed
  <1> QED
    BY <1>1, <1>2, <1>3, <1>4, <1>5, <1>6, <1>7, <1>8, <1>9, <1>10, <1>11, <1>12 DEF Next

-----------------------------------------------------------------------------
(* The theorems.                                                           *)

\* At every hop the frame under way is one its receiver accepts, except the
\* two requests named in the last conjunct of WireInv.
THEOREM WireInvariant == Spec => []WireInv
  <1>1. WireInv /\ [Next]_vars => WireInv'
    BY StepWire
  <1> QED BY InitWire, <1>1, PTL DEF Spec

\* While the list of all sessions fits a frame, no message of a browser and no
\* frame of the agent is a protocol error on the mux link: only a KillSession
\* whose id kill_session did not look at can drop it.
THEOREM TabsCannotDropLink ==
  ASSUME ListFits
  PROVE  Spec => []RelayKeepsLink
  <1>1. WireInv => RelayKeepsLink
    BY ListFits DEF WireInv, RelayKeepsLink
  <1> QED BY WireInvariant, <1>1, PTL

\* ws_to_stream and stream_to_ws deliver a frame on its own stream, of a type
\* that belongs there, and unchanged but for a name cut at a character.
THEOREM FramesArriveIntact == Spec => []DeliveredIntact
  <1>1. WireInv => DeliveredIntact
    <2> SUFFICES ASSUME WireInv PROVE DeliveredIntact
      OBVIOUS
    <2>1. ASSUME at = "agent", origin.who = "browser"
          PROVE  /\ frame.stream = origin.stream /\ frame.body = origin.body
                 /\ frame.body.type \in StreamTypes
      BY <2>1 DEF WireInv, Relayed, ListAsked, KillAsked, Ponged
    <2>2. ASSUME at = "tab"
          PROVE  frame.len = Size(frame.body) /\ SaysSame(frame.body, origin.body)
      BY <2>2 DEF WireInv
    <2> QED BY <2>1, <2>2 DEF DeliveredIntact, SaysSame
  <1> QED BY WireInvariant, <1>1, PTL

=============================================================================
