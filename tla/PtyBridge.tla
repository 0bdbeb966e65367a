----------------------------- MODULE PtyBridge -----------------------------
(***************************************************************************)
(* From the shell's terminal to the session and back: the two bridge       *)
(* threads of agent/src/pty.rs, the DsrScanner the reader thread runs on   *)
(* Windows, the session's reader task with its OscScanner                  *)
(* (common/src/osc.rs, agent/src/session.rs) and the writers of the input  *)
(* queue: browsers, DSR replies and the error lines of failed downloads.   *)
(*                                                                         *)
(* Output is a sequence of bytes, cut into chunks by the reads.  The bytes *)
(* that matter to the scanners are named; "x" is any other letter.  "5111" *)
(* stands for the private prefix with its semicolon, "dl" for the command  *)
(* and "token" for the session's own TERM_DL_TOKEN, each as one byte.      *)
(* Input is counted, not spelled out.                                      *)
(***************************************************************************)
EXTENDS Integers, SequencesExt

CONSTANTS
  Texts,      \* what the shell may write in its life: sequences of bytes
  MaxTyped,   \* bound: inputs of browsers
  QueueLen,   \* BRIDGE_QUEUE_LEN
  PtyBuf,     \* room of the kernel for output, in bytes
  MaxOsc,     \* MAX_OSC_LEN
  MaxCsi      \* MAX_CSI_LEN

Bytes  == {"ESC", "BEL", "]", "\\", "[", "6", "n", "5111", "dl", "token", "x"}
Finals == {"]", "\\", "[", "n", "dl", "token", "x"}   \* 0x40..0x7e

ASSUME BridgeAssumption ==
  /\ Texts \subseteq Seq(Bytes)
  /\ {MaxTyped, QueueLen, PtyBuf, MaxOsc, MaxCsi} \subseteq Nat \ {0}

VARIABLES
  windows,    \* the agent runs on Windows
  alive,      \* the shell runs
  text,       \* what the shell writes if it lives long enough
  emitted,    \* how much of it has been written
  ptyOut,     \* the part the reader thread has not read
  ptyIn,      \* there is input the shell has not read
  reader,     \* pty_reader_thread: what it is at
  dsr,        \* its DsrScanner
  chunk,      \* the chunk it is about to send
  replies,    \* the replies it is about to send before that
  outq,       \* the channel to the session
  osc,        \* the session's OscScanner
  forwarded,  \* output the session has broadcast
  started,    \* downloads the session has started
  running,    \* those still running
  lines,      \* failed ones waiting to type their error line
  exited,     \* the session has marked the shell's exit
  holder,     \* who has the session: manager and streams, streams only, none
  inq,        \* number of inputs in the channel to the writer thread
  writer,     \* pty_writer_thread: what it is at
  answered,   \* DSR replies sent
  typed       \* inputs of browsers so far (bound)

output    == <<text, emitted, ptyOut>>
scan      == <<osc, forwarded, started>>
downloads == <<running, lines>>
input     == <<inq, ptyIn, writer>>
readerVars == <<reader, dsr, chunk, replies>>
vars == <<windows, alive, output, readerVars, outq, scan, downloads, exited,
          holder, input, answered, typed>>

-----------------------------------------------------------------------------
(* DsrScanner.feed and OscScanner.feed, one byte at a time.                 *)

\* The scanner with its output, ready for the next byte.
Emit(sc, bytes) == [sc EXCEPT !.state = "Normal", !.buf = <<>>, !.out = @ \o bytes]
Goto(sc, state) == [sc EXCEPT !.state = state]
Push(sc, bytes) == [sc EXCEPT !.state = "Osc", !.buf = @ \o bytes]

\* In a CSI: the final byte, an overrun, or one more parameter.
DsrCsi(sc, b) ==
  IF b = "n" /\ sc.buf = <<"6">> THEN [Emit(sc, <<>>) EXCEPT !.hits = @ + 1]
  ELSE IF b \in Finals \/ Len(sc.buf) >= MaxCsi
    THEN Emit(sc, <<"ESC", "[">> \o sc.buf \o <<b>>)
  ELSE [sc EXCEPT !.buf = Append(@, b)]

DsrByte(sc, b) ==
  CASE sc.state = "Normal" -> IF b = "ESC" THEN Goto(sc, "Esc") ELSE Emit(sc, <<b>>)
    [] sc.state = "Esc"    -> IF b = "[" THEN Goto(sc, "Csi") ELSE Emit(sc, <<"ESC", b>>)
    [] sc.state = "Csi"    -> DsrCsi(sc, b)

\* parse_dl_osc and the token gate.  Every path here is UTF-8: the refusal of
\* another (a request of no effect, like one without the token) is left out.
IsDownload(payload) == Len(payload) >= 2 /\ payload[1] = "dl" /\ payload[2] = "token"

\* Mutant of FinishOsc: other sequences end with BEL however they arrived.
FinishOscBel(sc, term) ==
  IF sc.buf # <<>> /\ sc.buf[1] = "5111"
    THEN [Emit(sc, <<>>) EXCEPT !.hits = @ + IF IsDownload(Tail(sc.buf)) THEN 1 ELSE 0]
    ELSE Emit(sc, <<"ESC", "]">> \o sc.buf \o <<"BEL">>)

\* finish_osc: a private sequence is kept from the browser, any other is
\* passed on as it was.
FinishOsc(sc, term) ==
  IF sc.buf # <<>> /\ sc.buf[1] = "5111"
    THEN [Emit(sc, <<>>) EXCEPT !.hits = @ + IF IsDownload(Tail(sc.buf)) THEN 1 ELSE 0]
    ELSE Emit(sc, <<"ESC", "]">> \o sc.buf \o term)

\* The payload is dropped; the rest up to the terminator is swallowed.
Overflow(sc) == [sc EXCEPT !.state = "OscOverflow", !.buf = <<>>]

InOsc(sc, b) ==
  CASE b = "BEL" -> FinishOsc(sc, <<"BEL">>)
    [] b = "ESC" -> Goto(sc, "OscEsc")
    [] OTHER     -> IF Len(sc.buf) < MaxOsc THEN Push(sc, <<b>>) ELSE Overflow(sc)

InOscEsc(sc, b) ==
  IF b = "\\" THEN FinishOsc(sc, <<"ESC", "\\">>)
  ELSE IF Len(sc.buf) + 2 <= MaxOsc THEN Push(sc, <<"ESC", b>>)
  ELSE Overflow(sc)

InOverflow(sc, b) ==
  IF b = "BEL" THEN Emit(sc, <<>>)
  ELSE IF b = "ESC" THEN Goto(sc, "OscOverflowEsc") ELSE sc

InOverflowEsc(sc, b) ==
  IF b = "\\" THEN Emit(sc, <<>>)
  ELSE IF b = "ESC" THEN sc ELSE Goto(sc, "OscOverflow")

OscByte(sc, b) ==
  CASE sc.state = "Normal"         -> IF b = "ESC" THEN Goto(sc, "Esc") ELSE Emit(sc, <<b>>)
    [] sc.state = "Esc"            -> IF b = "]" THEN Goto(sc, "Osc") ELSE Emit(sc, <<"ESC", b>>)
    [] sc.state = "Osc"            -> InOsc(sc, b)
    [] sc.state = "OscEsc"         -> InOscEsc(sc, b)
    [] sc.state = "OscOverflow"    -> InOverflow(sc, b)
    [] sc.state = "OscOverflowEsc" -> InOverflowEsc(sc, b)

\* What a scanner keeps between two feeds, and what one feed returns.
Fresh == [state |-> "Normal", buf |-> <<>>]
Resume(kept) == [state |-> kept.state, buf |-> kept.buf, out |-> <<>>, hits |-> 0]
DsrFeed(bytes) == FoldLeft(DsrByte, Resume(dsr), bytes)
OscFeed(bytes) == FoldLeft(OscByte, Resume(osc), bytes)
Kept(sc) == [state |-> sc.state, buf |-> sc.buf]

-----------------------------------------------------------------------------
Init ==
  /\ windows \in BOOLEAN
  /\ alive = TRUE
  /\ text \in Texts /\ emitted = 0 /\ ptyOut = <<>> /\ ptyIn = FALSE
  /\ reader = "read" /\ dsr = Fresh /\ chunk = <<>> /\ replies = 0
  /\ outq = <<>> /\ osc = Fresh /\ forwarded = <<>> /\ started = 0
  /\ running = 0 /\ lines = 0
  /\ exited = FALSE /\ holder = "manager"
  /\ inq = 0 /\ writer = "recv"
  /\ answered = 0 /\ typed = 0

-----------------------------------------------------------------------------
(* The shell and the browsers.                                              *)

ShellWrites ==
  /\ alive /\ emitted < Len(text)
  /\ Len(ptyOut) < PtyBuf
  /\ emitted' = emitted + 1
  /\ ptyOut' = Append(ptyOut, text[emitted'])
  /\ UNCHANGED <<windows, alive, text, readerVars, outq, scan, downloads,
                 exited, holder, input, answered, typed>>

ShellReads ==
  /\ alive /\ ptyIn
  /\ ptyIn' = FALSE
  /\ UNCHANGED <<windows, alive, output, readerVars, outq, scan, downloads,
                 exited, holder, inq, writer, answered, typed>>

\* By itself, or by AsyncPty::kill.
ShellExits ==
  /\ alive
  /\ alive' = FALSE
  /\ UNCHANGED <<windows, output, readerVars, outq, scan, downloads, exited,
                 holder, input, answered, typed>>

\* write_input_from: try_send.  Input that finds the queue full or closed is
\* dropped, which changes nothing.
Type ==
  /\ typed < MaxTyped /\ holder # "none"
  /\ writer # "done" /\ inq < QueueLen
  /\ typed' = typed + 1
  /\ inq' = inq + 1
  /\ UNCHANGED <<windows, alive, output, readerVars, outq, scan, downloads,
                 exited, holder, ptyIn, writer, answered>>

-----------------------------------------------------------------------------
(* pty_reader_thread                                                        *)

\* Where the thread goes with a chunk and replies in hand.
Onward(ch, n) == IF n > 0 THEN "reply" ELSE IF ch # <<>> THEN "send" ELSE "read"

\* read returns any part of what there is.
ReaderReads(n) ==
  /\ reader = "read" /\ n <= Len(ptyOut)
  /\ LET bytes == SubSeq(ptyOut, 1, n)
         fed   == DsrFeed(bytes)
         ch    == IF windows THEN fed.out ELSE bytes
         hits  == IF windows THEN fed.hits ELSE 0 IN
     /\ dsr' = IF windows THEN Kept(fed) ELSE dsr
     /\ chunk' = ch
     /\ replies' = hits
     /\ reader' = Onward(ch, hits)
  /\ ptyOut' = SubSeq(ptyOut, n + 1, Len(ptyOut))
  /\ UNCHANGED <<windows, alive, text, emitted, outq, scan, downloads, exited,
                 holder, input, answered, typed>>

\* Mutant of ReaderReplies: try_send, as for the browsers' input.
ReaderRepliesTry ==
  /\ reader = "reply"
  /\ IF writer # "done" /\ inq < QueueLen
       THEN inq' = inq + 1 /\ answered' = answered + 1
       ELSE UNCHANGED <<inq, answered>>
  /\ replies' = replies - 1
  /\ reader' = Onward(chunk, replies')
  /\ UNCHANGED <<windows, alive, output, dsr, chunk, outq, scan, downloads,
                 exited, holder, ptyIn, writer, typed>>

\* Mutant of ReaderReplies: a reply that cannot be sent ends the thread.
ReaderRepliesOrDies ==
  /\ reader = "reply"
  /\ IF writer # "done"
       THEN /\ inq < QueueLen
            /\ inq' = inq + 1
            /\ answered' = answered + 1
            /\ replies' = replies - 1
            /\ reader' = Onward(chunk, replies')
       ELSE /\ reader' = "done"
            /\ UNCHANGED <<inq, answered, replies>>
  /\ UNCHANGED <<windows, alive, output, dsr, chunk, outq, scan, downloads,
                 exited, holder, ptyIn, writer, typed>>

\* blocking_send of one reply; it fails once the writer thread is gone, and
\* then the other replies are not tried.
ReaderReplies ==
  /\ reader = "reply"
  /\ \/ /\ writer # "done" /\ inq < QueueLen
        /\ inq' = inq + 1
        /\ answered' = answered + 1
        /\ replies' = replies - 1
     \/ /\ writer = "done"
        /\ replies' = 0
        /\ UNCHANGED <<inq, answered>>
  /\ reader' = Onward(chunk, replies')
  /\ UNCHANGED <<windows, alive, output, dsr, chunk, outq, scan, downloads,
                 exited, holder, ptyIn, writer, typed>>

ReaderSends ==
  /\ reader = "send" /\ Len(outq) < QueueLen
  /\ outq' = Append(outq, chunk)
  /\ chunk' = <<>>
  /\ reader' = "read"
  /\ UNCHANGED <<windows, alive, output, dsr, replies, scan, downloads, exited,
                 holder, input, answered, typed>>

\* End of file: the shell is gone and all it wrote has been read.
ReaderEof ==
  /\ reader = "read" /\ ~alive /\ ptyOut = <<>>
  /\ reader' = "done"
  /\ UNCHANGED <<windows, alive, output, dsr, chunk, replies, outq, scan,
                 downloads, exited, holder, input, answered, typed>>

-----------------------------------------------------------------------------
(* The session's reader task and the downloads it starts.                   *)

\* Mutant of SessionFeeds: the reader task types the error lines itself.
SessionFeedsWaits ==
  /\ outq # <<>> /\ lines = 0
  /\ LET fed == OscFeed(Head(outq)) IN
     /\ osc' = Kept(fed)
     /\ forwarded' = forwarded \o fed.out
     /\ started' = started + fed.hits
     /\ running' = running + fed.hits
  /\ outq' = Tail(outq)
  /\ UNCHANGED <<windows, alive, output, readerVars, lines, exited, holder,
                 input, answered, typed>>

SessionFeeds ==
  /\ outq # <<>>
  /\ LET fed == OscFeed(Head(outq)) IN
     /\ osc' = Kept(fed)
     /\ forwarded' = forwarded \o fed.out
     /\ started' = started + fed.hits
     /\ running' = running + fed.hits
  /\ outq' = Tail(outq)
  /\ UNCHANGED <<windows, alive, output, readerVars, lines, exited, holder,
                 input, answered, typed>>

\* recv returns None: the reader thread has dropped out_tx.
SessionEnds ==
  /\ ~exited /\ reader = "done" /\ outq = <<>>
  /\ exited' = TRUE
  /\ UNCHANGED <<windows, alive, output, readerVars, outq, scan, downloads,
                 holder, input, answered, typed>>

\* A download ends (module Download); one that failed types a line.
DownloadEnds(failed) ==
  /\ running > 0
  /\ running' = running - 1
  /\ lines' = IF failed THEN lines + 1 ELSE lines
  /\ UNCHANGED <<windows, alive, output, readerVars, outq, scan, exited,
                 holder, input, answered, typed>>

\* write_internal waits for room, or fails when the writer thread is gone.
LineTyped ==
  /\ lines > 0
  /\ writer = "done" \/ inq < QueueLen
  /\ lines' = lines - 1
  /\ inq' = IF writer = "done" THEN inq ELSE inq + 1
  /\ UNCHANGED <<windows, alive, output, readerVars, outq, scan, running,
                 exited, holder, ptyIn, writer, answered, typed>>

\* The manager collects the session (module SessionManager) and the reader task
\* is over.  Stream tasks may still hold it, each since its lookup_or_spawn.
DropSession ==
  /\ exited /\ holder = "manager"
  /\ holder' \in {"streams", "none"}
  /\ UNCHANGED <<windows, alive, output, readerVars, outq, scan, downloads,
                 exited, input, answered, typed>>

\* The last of them ends.  It owes nobody that: one that looked the session up
\* before the exit and subscribed after Closed stays as long as its tab does.
StreamsLeave ==
  /\ holder = "streams"
  /\ holder' = "none"
  /\ UNCHANGED <<windows, alive, output, readerVars, outq, scan, downloads,
                 exited, input, answered, typed>>

-----------------------------------------------------------------------------
(* pty_writer_thread                                                        *)

WriterTakes ==
  /\ writer = "recv" /\ inq > 0
  /\ inq' = inq - 1
  /\ writer' = "write"
  /\ UNCHANGED <<windows, alive, output, readerVars, outq, scan, downloads,
                 exited, holder, ptyIn, answered, typed>>

\* write_all blocks while the shell does not read.
WriterWrites ==
  /\ writer = "write" /\ alive /\ ~ptyIn
  /\ ptyIn' = TRUE
  /\ writer' = "recv"
  /\ UNCHANGED <<windows, alive, output, readerVars, outq, scan, downloads,
                 exited, holder, inq, answered, typed>>

\* A write to a terminal nobody has open fails; in_rx goes with the thread.
WriterFails ==
  /\ writer = "write" /\ ~alive
  /\ writer' = "done"
  /\ inq' = 0
  /\ UNCHANGED <<windows, alive, output, readerVars, outq, scan, downloads,
                 exited, holder, ptyIn, answered, typed>>

\* The senders of the input channel: the session as long as anybody holds it,
\* streams and downloads too, and on Windows the reader thread.
Senders == holder # "none" \/ running + lines > 0 \/ (windows /\ reader # "done")

\* Mutant of WriterEnds: the thread keeps a sender of its own channel.
WriterStays == FALSE /\ UNCHANGED vars

\* blocking_recv returns None.
WriterEnds ==
  /\ writer = "recv" /\ inq = 0 /\ ~Senders
  /\ writer' = "done"
  /\ UNCHANGED <<windows, alive, output, readerVars, outq, scan, downloads,
                 exited, holder, inq, ptyIn, answered, typed>>

-----------------------------------------------------------------------------
ReaderStep == ReaderReplies \/ ReaderSends \/ ReaderEof \/ \E n \in 1..PtyBuf : ReaderReads(n)
WriterStep == WriterTakes \/ WriterWrites \/ WriterFails \/ WriterEnds
LineStep   == LineTyped \/ \E failed \in BOOLEAN : DownloadEnds(failed)

Next ==
  \/ ShellWrites \/ ShellReads \/ ShellExits \/ Type
  \/ ReaderStep \/ WriterStep
  \/ SessionFeeds \/ SessionEnds \/ LineStep \/ DropSession \/ StreamsLeave

\* Threads and tasks are scheduled; shell and tabs owe nobody anything.
Fairness ==
  /\ WF_vars(ReaderStep) /\ WF_vars(WriterStep) /\ WF_vars(LineStep)
  /\ WF_vars(SessionFeeds) /\ WF_vars(SessionEnds) /\ WF_vars(DropSession)

Spec == Init /\ [][Next]_vars /\ Fairness

-----------------------------------------------------------------------------
(* The reference: output as a text with sequences in it, read as a whole.   *)

\* The first of a set of positions, 0 if there is none.
First(S) == IF S = {} THEN 0 ELSE CHOOSE p \in S : \A q \in S : p <= q

\* The byte at p is taken by an ESC before it, in a sequence from i on.
Odd(s, i, p) ==
  LET edge == CHOOSE q \in (i - 1)..(p - 1) :
                /\ q = i - 1 \/ s[q] # "ESC"
                /\ \A r \in (q + 1)..(p - 1) : s[r] = "ESC"
  IN  (p - 1 - edge) % 2 = 1

EndsOsc(s, i, p) == (s[p] = "BEL" /\ ~Odd(s, i, p)) \/ (s[p] = "\\" /\ Odd(s, i, p))
OscEnd(s, i)     == First({p \in i..Len(s) : EndsOsc(s, i, p)})

\* The byte that does not fit, and the end of a sequence that lost one there.
TooLong(s, i) ==
  First({p \in (i + MaxOsc)..Len(s) : ~EndsOsc(s, i, p) /\ (s[p] = "ESC" => Odd(s, i, p))})
LongEnd(s, o) ==
  First({p \in (o + 1)..Len(s) :
           \/ s[p] = "BEL" /\ ~(p > o + 1 /\ s[p - 1] = "ESC")
           \/ s[p] = "\\" /\ p > o + 1 /\ s[p - 1] = "ESC"})

\* A stretch of text: its last position, what is shown of it, and whether it
\* is a request.  End 0: the stretch is not complete.
Stretch(end, shown, hit) == [end |-> end, shown |-> shown, hit |-> hit]

OscAt(s, i) ==
  LET e == OscEnd(s, i)
      o == TooLong(s, i)
      payload == SubSeq(s, i, IF s[e] = "BEL" THEN e - 1 ELSE e - 2)
  IN  IF o # 0 /\ (e = 0 \/ o < e) THEN Stretch(LongEnd(s, o), <<>>, 0)
      ELSE IF e = 0 THEN Stretch(0, <<>>, 0)
      ELSE IF payload # <<>> /\ payload[1] = "5111"
        THEN Stretch(e, <<>>, IF IsDownload(Tail(payload)) THEN 1 ELSE 0)
      ELSE Stretch(e, SubSeq(s, i - 2, e), 0)

CsiAt(s, i) ==
  LET e == First({p \in i..Len(s) : s[p] \in Finals \/ p - i >= MaxCsi}) IN
  IF e = 0 THEN Stretch(0, <<>>, 0)
  ELSE IF SubSeq(s, i, e) = <<"6", "n">> THEN Stretch(e, <<>>, 1)
  ELSE Stretch(e, SubSeq(s, i - 2, e), 0)

\* The text read from left to right; At reads a sequence opened by ESC mark.
Read(s, mark, At(_, _)) ==
  LET from[i \in 1..(Len(s) + 1)] ==
        LET st == IF s[i] # "ESC" THEN Stretch(i, <<s[i]>>, 0)
                  ELSE IF i = Len(s) THEN Stretch(0, <<>>, 0)
                  ELSE IF s[i + 1] = mark THEN At(s, i + 2)
                  ELSE Stretch(i + 1, SubSeq(s, i, i + 1), 0)
        IN  IF i > Len(s) \/ st.end = 0 THEN [shown |-> <<>>, hits |-> 0]
            ELSE [shown |-> st.shown \o from[st.end + 1].shown,
                  hits  |-> st.hit + from[st.end + 1].hits]
  IN  from[1]

-----------------------------------------------------------------------------
(* Properties.                                                              *)

\* What the reader thread has read, and what must have become of it.
Consumed == SubSeq(text, 1, emitted - Len(ptyOut))
Passed   == IF windows THEN Read(Consumed, "[", CsiAt) ELSE [shown |-> Consumed, hits |-> 0]
InFlight == FlattenSeq(outq) \o chunk
Scanned  == SubSeq(Passed.shown, 1, Len(Passed.shown) - Len(InFlight))

\* However reads cut the output into chunks, browsers get what a reading of
\* the whole text gives: private sequences and overlong ones are taken out,
\* everything else comes through unchanged and in order, and a download is
\* started for every complete request with the session's token, no other.
ForwardsReference ==
  /\ Passed.shown = Scanned \o InFlight
  /\ [shown |-> forwarded, hits |-> started] = Read(Scanned, "]", OscAt)

\* Every cursor query of ConPTY gets one reply, in whatever pieces it was
\* read, until the thread that would write the reply is gone.
QueriesAnswered ==
  writer # "done" => answered + replies = Passed.hits

\* The session is marked exited, and Closed broadcast, only when all the
\* shell wrote has been scanned, also if its last query went unanswered.
ExitAfterOutput == exited => ptyOut = <<>> /\ InFlight = <<>>

\* Output flows whether or not the shell reads its input: it does not wait
\* for the input queue, except on Windows for a reply to a cursor query.
OutputFlows ==
  \/ []<>(ptyOut = <<>> /\ InFlight = <<>>)
  \/ <>[](windows /\ alive /\ reader = "reply" /\ inq = QueueLen)

\* Once the shell is gone the reader thread ends, wherever it was blocked, and
\* the writer thread too, unless it waits for input and streams still hold the
\* session, and with it in_tx; when nobody holds the session, it ends.
ThreadsEnd ==
  /\ ~alive ~> (reader = "done" /\ (writer = "done" \/ holder = "streams"))
  /\ holder = "none" ~> writer = "done"
=============================================================================
