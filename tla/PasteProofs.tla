---------------------------- MODULE PasteProofs ----------------------------
(***************************************************************************)
(* File paste, proved for any groups and sizes of files, any limits, any   *)
(* number of frames in flight and any client of the wire protocol.         *)
(***************************************************************************)
EXTENDS Paste, FiniteSetTheorems, SequenceTheorems, TLAPS

FrameTypes == {"begin", "chunk", "end", "cancel"}
WorkType ==
  [op : {"idle", "open", "flush", "unlink", "ungroup", "inject", "type"}, files : SUBSET Pastes,
   reject : Pastes \cup {None}, group : SUBSET Groups]

\* The agent has accepted p and not seen its end.
Active(p) == p \in pend \/ (work.op = "open" /\ p \in work.files)

\* Where on its way from the client (the wire) into the agent (0) p has begun.
Pos == 0..Len(wire)
Begun(p, i) ==
  \/ i = 0 /\ Active(p)
  \/ i \in DOMAIN wire /\ wire[i] = Frame("begin", p)
Ends(p, k) == k \in DOMAIN wire /\ wire[k] \in {Frame("end", p), Frame("cancel", p)}

\* The agent holds the whole file, or has handed it to the shell.
Settled(p) ==
  \/ p \in finished[GroupOf(p)] \/ file[p] \in {"typed", "kept"}
  \/ work.op \in {"flush", "inject", "type"} /\ p \in work.files

\* No client begins a paste again once it has ended it ...
EndsAreLast ==
  \A p \in Pastes, k \in Pos :
    Ends(p, k) => cl[p] = "over" /\ \A i \in Pos : Begun(p, i) => i < k

\* ... so that a file the agent holds is not opened a second time.
SettledIsOver ==
  \A p \in Pastes : Settled(p) => cl[p] = "over" /\ \A i \in Pos : ~Begun(p, i)

Later(p, q) == GroupOf(p) = GroupOf(q) /\ p[2] < q[2]

\* app.js sends the files of an action one after the other: between the
\* beginnings of two of them, wherever they are, is the end of the first.
AppOrder == app =>
  /\ \A p \in Pastes : cl[p] = "todo" => \A i \in Pos : ~Begun(p, i)
  /\ \A p \in Pastes : cl[p] = "over" /\ GroupOf(p) \notin aborted =>
       \A i \in Pos : Begun(p, i) => \E k \in Pos : i < k /\ Ends(p, k)
  /\ \A p, q \in Pastes : Later(p, q) =>
       /\ cl[q] # "todo" => cl[p] = "over"
       /\ \A i, j \in Pos : Begun(p, i) /\ Begun(q, j) =>
            \E k \in Pos : i < k /\ k < j /\ Ends(p, k)

OrderInv == EndsAreLast /\ SettledIsOver /\ AppOrder

-----------------------------------------------------------------------------
(* The order of the frames.                                                *)

\* A paste is a group and a place in it.
LEMMA PasteParts == \A p \in Pastes : GroupOf(p) \in Groups /\ p[2] \in 1..GroupSize
  BY DEF Pastes, GroupOf

\* Frames of different types, or about different pastes, are different.
LEMMA FrameInjective ==
  \A t, u, p, q : Frame(t, p) = Frame(u, q) => t = u /\ p = q
  <1> SUFFICES ASSUME NEW t, NEW u, NEW p, NEW q, Frame(t, p) = Frame(u, q)
               PROVE  t = u /\ p = q
    OBVIOUS
  <1>1. Frame(t, p).type = Frame(u, q).type /\ Frame(t, p).paste = Frame(u, q).paste
    OBVIOUS
  <1>2. QED
    BY <1>1 DEF Frame

\* A frame that is sent is the last one on the wire.
LEMMA SendShape ==
  ASSUME TypeOK, NEW p \in Pastes, NEW t \in FrameTypes, Send(t, p)
  PROVE  /\ Len(wire) \in Nat /\ DOMAIN wire = 1..Len(wire)
         /\ Len(wire') = Len(wire) + 1 /\ DOMAIN wire' = 1..(Len(wire) + 1)
         /\ wire'[Len(wire) + 1] = Frame(t, p)
         /\ \A i \in 1..Len(wire) : wire'[i] = wire[i]
  <1> DEFINE F == [type : FrameTypes, paste : Pastes]
  <1>1. wire \in Seq(F) /\ Frame(t, p) \in F /\ wire' = Append(wire, Frame(t, p))
    BY DEF TypeOK, Send, Frame, FrameTypes
  <1> HIDE DEF F
  <1>2. QED
    BY <1>1

\* A frame that is taken was the first one on the wire.
LEMMA TakeShape ==
  ASSUME TypeOK, NEW p \in Pastes, NEW t \in FrameTypes, Take(t, p)
  PROVE  /\ Len(wire) \in Nat /\ Len(wire) >= 1 /\ DOMAIN wire = 1..Len(wire)
         /\ Len(wire') = Len(wire) - 1 /\ DOMAIN wire' = 1..(Len(wire) - 1)
         /\ wire[1] = Frame(t, p)
         /\ \A i \in 1..(Len(wire) - 1) : wire'[i] = wire[i + 1]
  <1> DEFINE F == [type : FrameTypes, paste : Pastes]
  <1>1. wire \in Seq(F) /\ wire # <<>> /\ Head(wire) = Frame(t, p) /\ wire' = Tail(wire)
    BY DEF TypeOK, Take, FrameTypes
  <1> HIDE DEF F
  <1>2. Len(wire) \in Nat /\ Len(wire) >= 1 /\ DOMAIN wire = 1..Len(wire)
    BY <1>1
  <1>3. /\ wire' \in Seq(F) /\ Len(wire') = Len(wire) - 1
        /\ \A i \in 1..(Len(wire) - 1) : wire'[i] = wire[i + 1]
    BY <1>1, <1>2
  <1>4. DOMAIN wire' = 1..(Len(wire) - 1) /\ wire[1] = Frame(t, p)
    BY <1>1, <1>2, <1>3
  <1>5. QED
    BY <1>2, <1>3, <1>4

\* Steps that leave the wire alone.
LEMMA QuietKeepsOrder ==
  ASSUME OrderInv, UNCHANGED <<wire, app>>, aborted \subseteq aborted',
         \A p \in Pastes : Active(p)' => Active(p),
         \A p \in Pastes : Settled(p)' => Settled(p),
         \A p \in Pastes : \/ cl'[p] = cl[p]
                           \/ cl[p] = "sending" /\ cl'[p] = "over" /\ GroupOf(p) \in aborted'
  PROVE  OrderInv'
  <1>1. Pos' = Pos /\ \A p, k : Ends(p, k)' = Ends(p, k)
    BY DEF Pos, Ends
  <1>2. \A p \in Pastes, i \in Pos : Begun(p, i)' => Begun(p, i)
    BY DEF Begun
  <1>3. EndsAreLast'
    BY <1>1, <1>2 DEF OrderInv, EndsAreLast
  <1>4. SettledIsOver'
    BY <1>1, <1>2 DEF OrderInv, SettledIsOver
  <1>5. AppOrder'
    <2> SUFFICES ASSUME app
                 PROVE  AppOrder'
      BY DEF AppOrder
    <2>1. ASSUME NEW p \in Pastes, cl'[p] = "todo", NEW i \in Pos
          PROVE  ~Begun(p, i)'
      BY <1>2, <2>1 DEF OrderInv, AppOrder
    <2>2. ASSUME NEW p \in Pastes, cl'[p] = "over", GroupOf(p) \notin aborted', NEW i \in Pos,
                 Begun(p, i)'
          PROVE  \E k \in Pos : i < k /\ Ends(p, k)
      BY <1>2, <2>2 DEF OrderInv, AppOrder
    <2>3. ASSUME NEW p \in Pastes, NEW q \in Pastes, Later(p, q)
          PROVE  /\ cl'[q] # "todo" => cl'[p] = "over"
                 /\ \A i, j \in Pos : Begun(p, i)' /\ Begun(q, j)' =>
                      \E k \in Pos : i < k /\ k < j /\ Ends(p, k)
      BY <1>2, <2>3 DEF OrderInv, AppOrder
    <2>4. QED
      BY <1>1, <2>1, <2>2, <2>3 DEF AppOrder, Later
  <1>6. QED
    BY <1>3, <1>4, <1>5 DEF OrderInv

\* A handler of the agent takes a frame: it can begin what the frame begins
\* and settle what the frame ends, and nothing else.
LEMMA TakeKeepsOrder ==
  ASSUME TypeOK, OrderInv, NEW p \in Pastes, NEW t \in FrameTypes, Take(t, p), UNCHANGED client,
         \A q \in Pastes : Active(q)' =>
           \/ Active(q) /\ ~(q = p /\ t \in {"end", "cancel"})
           \/ q = p /\ t = "begin",
         \A q \in Pastes : Settled(q)' => Settled(q) \/ (q = p /\ t = "end")
  PROVE  OrderInv'
  <1>1. PICK n \in Nat : n = Len(wire)
    BY TakeShape
  <1>2. /\ n >= 1 /\ DOMAIN wire = 1..n /\ DOMAIN wire' = 1..(n - 1) /\ wire[1] = Frame(t, p)
        /\ \A i \in 1..(n - 1) : wire'[i] = wire[i + 1]
        /\ Pos = 0..n /\ Pos' = 0..(n - 1)
    BY <1>1, TakeShape DEF Pos
  <1>3. UNCHANGED <<app, cl, aborted>>
    BY DEF client
  <1>4. \A q \in Pastes : Ends(q, 1) <=> q = p /\ t \in {"end", "cancel"}
    BY <1>2, FrameInjective DEF Ends
  <1>5. ASSUME NEW q \in Pastes, NEW i \in Pos', Begun(q, i)'
        PROVE  /\ \E j \in Pos : Begun(q, j) /\ (j = i + 1 \/ (i = 0 /\ j = 0))
               /\ ~Ends(q, 1)
    <2>1. CASE i = 0 /\ Active(q)'
      <3>1. CASE Active(q) /\ ~(q = p /\ t \in {"end", "cancel"})
        <4>1. 0 \in Pos /\ Begun(q, 0)
          BY <1>2, <3>1 DEF Begun
        <4>2. QED
          BY <1>4, <2>1, <3>1, <4>1
      <3>2. CASE q = p /\ t = "begin"
        <4>1. 1 \in Pos /\ Begun(q, 1)
          BY <1>2, <3>2 DEF Begun
        <4>2. QED
          BY <1>4, <2>1, <3>2, <4>1
      <3>3. QED
        BY <2>1, <3>1, <3>2
    <2>2. CASE i \in 1..(n - 1) /\ wire[i + 1] = Frame("begin", q)
      <3>1. i + 1 \in Pos /\ i + 1 \in DOMAIN wire /\ 1 \in Pos /\ ~(i + 1 < 1)
        BY <1>2, <2>2
      <3>2. Begun(q, i + 1)
        BY <2>2, <3>1 DEF Begun
      <3>3. ~Ends(q, 1)
        BY <3>1, <3>2 DEF OrderInv, EndsAreLast
      <3>4. QED
        BY <3>1, <3>2, <3>3
    <2>3. QED
      BY <1>2, <1>5, <2>1, <2>2 DEF Begun
  <1>6. ASSUME NEW q, NEW k \in Pos, k # 1, Ends(q, k)
        PROVE  k - 1 \in Pos' /\ Ends(q, k - 1)' /\ k >= 2
    <2>1. k \in 2..n
      BY <1>2, <1>6 DEF Ends
    <2>2. k - 1 \in 1..(n - 1) /\ (k - 1) + 1 = k
      BY <2>1
    <2>3. wire'[k - 1] = wire[k]
      BY <1>2, <2>2
    <2>4. QED
      BY <1>2, <1>6, <2>1, <2>2, <2>3 DEF Ends
  <1>7. ASSUME NEW q, NEW k \in Pos', Ends(q, k)'
        PROVE  k + 1 \in Pos /\ Ends(q, k + 1) /\ k >= 1
    BY <1>2, <1>7 DEF Ends
  <1>8. EndsAreLast'
    <2> SUFFICES ASSUME NEW q \in Pastes, NEW k \in Pos', Ends(q, k)'
                 PROVE  cl[q] = "over" /\ \A i \in Pos' : Begun(q, i)' => i < k
      BY <1>3 DEF EndsAreLast
    <2>1. k + 1 \in Pos /\ Ends(q, k + 1) /\ k \in Nat /\ k >= 1
      BY <1>2, <1>7
    <2>2. cl[q] = "over" /\ \A i \in Pos : Begun(q, i) => i < k + 1
      BY <2>1 DEF OrderInv, EndsAreLast
    <2>3. ASSUME NEW i \in Pos', Begun(q, i)'
          PROVE  i < k
      <3>1. PICK j \in Pos : Begun(q, j) /\ (j = i + 1 \/ (i = 0 /\ j = 0))
        BY <1>5, <2>3
      <3>2. j < k + 1
        BY <2>2, <3>1
      <3>3. QED
        BY <1>2, <2>1, <3>1, <3>2
    <2>4. QED
      BY <2>2, <2>3
  <1>9. SettledIsOver'
    <2> SUFFICES ASSUME NEW q \in Pastes, Settled(q)'
                 PROVE  cl[q] = "over" /\ \A i \in Pos' : ~Begun(q, i)'
      BY <1>3 DEF SettledIsOver
    <2>1. CASE Settled(q)
      BY <1>5, <2>1 DEF OrderInv, SettledIsOver
    <2>2. CASE q = p /\ t = "end"
      <3>1. 1 \in Pos /\ Ends(q, 1)
        BY <1>2, <1>4, <2>2
      <3>2. QED
        BY <1>5, <3>1 DEF OrderInv, EndsAreLast
    <2>3. QED
      BY <2>1, <2>2
  <1>10. AppOrder'
    <2> SUFFICES ASSUME app
                 PROVE  AppOrder'
      BY <1>3 DEF AppOrder
    <2>1. ASSUME NEW q \in Pastes, cl[q] = "todo", NEW i \in Pos'
          PROVE  ~Begun(q, i)'
      BY <1>5, <2>1 DEF OrderInv, AppOrder
    <2>2. ASSUME NEW q \in Pastes, cl[q] = "over", GroupOf(q) \notin aborted, NEW i \in Pos',
                 Begun(q, i)'
          PROVE  \E k \in Pos' : i < k /\ Ends(q, k)'
      <3>1. PICK j \in Pos : Begun(q, j) /\ (j = i + 1 \/ (i = 0 /\ j = 0))
        BY <1>5, <2>2
      <3>2. PICK k \in Pos : j < k /\ Ends(q, k)
        BY <2>2, <3>1 DEF OrderInv, AppOrder
      <3>3. k # 1
        BY <1>5, <2>2, <3>2
      <3>4. k - 1 \in Pos' /\ Ends(q, k - 1)' /\ k >= 2
        BY <1>6, <3>2, <3>3
      <3>5. i < k - 1
        BY <1>2, <3>1, <3>2, <3>4
      <3>6. QED
        BY <3>4, <3>5
    <2>3. ASSUME NEW r \in Pastes, NEW q \in Pastes, Later(r, q),
                 NEW i \in Pos', NEW j \in Pos', Begun(r, i)', Begun(q, j)'
          PROVE  \E k \in Pos' : i < k /\ k < j /\ Ends(r, k)'
      <3>1. PICK i0 \in Pos : Begun(r, i0) /\ (i0 = i + 1 \/ (i = 0 /\ i0 = 0))
        BY <1>5, <2>3
      <3>2. PICK j0 \in Pos : Begun(q, j0) /\ (j0 = j + 1 \/ (j = 0 /\ j0 = 0))
        BY <1>5, <2>3
      <3>3. PICK k \in Pos : i0 < k /\ k < j0 /\ Ends(r, k)
        BY <2>3, <3>1, <3>2 DEF OrderInv, AppOrder
      <3>4. k # 1
        BY <1>5, <2>3, <3>3
      <3>5. k - 1 \in Pos' /\ Ends(r, k - 1)' /\ k >= 2
        BY <1>6, <3>3, <3>4
      <3>6. i < k - 1 /\ k - 1 < j
        BY <1>2, <3>1, <3>2, <3>3, <3>5
      <3>7. QED
        BY <3>5, <3>6
    <2>4. \A r, q \in Pastes : Later(r, q) /\ cl[q] # "todo" => cl[r] = "over"
      BY DEF OrderInv, AppOrder
    <2>5. QED
      BY <1>3, <2>1, <2>2, <2>3, <2>4 DEF AppOrder, Later
  <1>11. QED
    BY <1>8, <1>9, <1>10 DEF OrderInv

\* The client sends a frame about a paste it has not ended; app.js begins a
\* file only when it is its turn.
LEMMA SendKeepsOrder ==
  ASSUME TypeOK, OrderInv, NEW p \in Pastes, NEW t \in FrameTypes, Send(t, p),
         UNCHANGED <<app, aborted, tables, file, work>>,
         cl[p] # "over", t # "begin" => cl[p] = "sending",
         t = "begin" /\ app => cl[p] = "todo" /\ InTurn(p),
         cl'[p] = (IF t \in {"begin", "chunk"} THEN "sending" ELSE "over"),
         \A q \in Pastes : q # p => cl'[q] = cl[q]
  PROVE  OrderInv'
  <1>1. PICK n \in Nat : n = Len(wire)
    BY SendShape
  <1>2. /\ DOMAIN wire = 1..n /\ DOMAIN wire' = 1..(n + 1) /\ wire'[n + 1] = Frame(t, p)
        /\ \A i \in 1..n : wire'[i] = wire[i]
        /\ Pos = 0..n /\ Pos' = 0..(n + 1)
    BY <1>1, SendShape DEF Pos
  <1>3. \A q \in Pastes : Active(q)' = Active(q) /\ Settled(q)' = Settled(q)
    BY DEF Active, Settled, tables
  <1>4. Pos' = Pos \cup {n + 1} /\ n + 1 \notin Pos /\ \A i \in Pos : i \in Nat /\ i < n + 1
    BY <1>2
  <1>5. \A q \in Pastes, i \in Pos : Begun(q, i)' = Begun(q, i) /\ Ends(q, i)' = Ends(q, i)
    BY <1>2, <1>3 DEF Begun, Ends
  <1>6. \A q \in Pastes : /\ Begun(q, n + 1)' <=> q = p /\ t = "begin"
                          /\ Ends(q, n + 1)' <=> q = p /\ t \in {"end", "cancel"}
    BY <1>2, FrameInjective DEF Begun, Ends, FrameTypes
  <1>7. EndsAreLast'
    <2> SUFFICES ASSUME NEW q \in Pastes, NEW k \in Pos', Ends(q, k)'
                 PROVE  cl'[q] = "over" /\ \A i \in Pos' : Begun(q, i)' => i < k
      BY DEF EndsAreLast
    <2>1. CASE k \in Pos
      <3>1. cl[q] = "over" /\ \A i \in Pos : Begun(q, i) => i < k
        BY <1>5, <2>1 DEF OrderInv, EndsAreLast
      <3>2. q # p
        BY <3>1
      <3>3. QED
        BY <1>4, <1>5, <1>6, <3>1, <3>2
    <2>2. CASE k = n + 1
      BY <1>4, <1>6, <2>2
    <2>3. QED
      BY <1>4, <2>1, <2>2
  <1>8. SettledIsOver'
    BY <1>3, <1>4, <1>5, <1>6 DEF OrderInv, SettledIsOver
  <1>9. AppOrder'
    <2> SUFFICES ASSUME app
                 PROVE  AppOrder'
      BY DEF AppOrder
    <2>1. ASSUME NEW q \in Pastes, cl'[q] = "todo", NEW i \in Pos'
          PROVE  ~Begun(q, i)'
      <3>1. q # p /\ cl[q] = "todo"
        BY <2>1
      <3>2. QED
        BY <1>4, <1>5, <1>6, <3>1 DEF OrderInv, AppOrder
    <2>2. ASSUME NEW q \in Pastes, cl'[q] = "over", GroupOf(q) \notin aborted, NEW i \in Pos',
                 Begun(q, i)'
          PROVE  \E k \in Pos' : i < k /\ Ends(q, k)'
      <3>1. CASE q = p
        <4>1. t \in {"end", "cancel"}
          BY <2>2, <3>1 DEF FrameTypes
        <4>2. i \in Pos
          BY <1>4, <1>6, <2>2, <4>1
        <4>3. n + 1 \in Pos' /\ i < n + 1 /\ Ends(q, n + 1)'
          BY <1>4, <1>6, <3>1, <4>1, <4>2
        <4>4. QED
          BY <4>3
      <3>2. CASE q # p
        <4>1. cl[q] = "over" /\ i \in Pos /\ Begun(q, i)
          BY <1>4, <1>5, <1>6, <2>2, <3>2
        <4>2. PICK k \in Pos : i < k /\ Ends(q, k)
          BY <2>2, <4>1 DEF OrderInv, AppOrder
        <4>3. QED
          BY <1>4, <1>5, <4>2
      <3>3. QED
        BY <3>1, <3>2
    <2>3. ASSUME NEW r \in Pastes, NEW q \in Pastes, Later(r, q),
                 NEW i \in Pos', NEW j \in Pos', Begun(r, i)', Begun(q, j)'
          PROVE  \E k \in Pos' : i < k /\ k < j /\ Ends(r, k)'
      <3>1. r # q
        BY <2>3, PasteParts, PasteAssumption DEF Later
      <3>2. ASSUME i = n + 1
            PROVE  FALSE
        <4>1. r = p /\ t = "begin" /\ cl[r] = "todo"
          BY <1>6, <2>3, <3>2
        <4>2. j \in Pos /\ Begun(q, j)
          BY <1>4, <1>5, <1>6, <2>3, <3>1, <4>1
        <4>3. cl[q] # "todo"
          BY <4>2 DEF OrderInv, AppOrder
        <4>4. QED
          BY <2>3, <4>1, <4>3 DEF OrderInv, AppOrder
      <3>3. i \in Pos /\ Begun(r, i)
        BY <1>4, <1>5, <2>3, <3>2
      <3>4. CASE j \in Pos
        <4>1. PICK k \in Pos : i < k /\ k < j /\ Ends(r, k)
          BY <1>5, <2>3, <3>3, <3>4 DEF OrderInv, AppOrder
        <4>2. QED
          BY <1>4, <1>5, <4>1
      <3>5. CASE j = n + 1
        <4>1. q = p /\ InTurn(q)
          BY <1>6, <2>3, <3>5
        <4>2. cl[r] = "over" /\ GroupOf(r) \notin aborted
          BY <2>3, <4>1 DEF InTurn, Later, FilesOf
        <4>3. PICK k \in Pos : i < k /\ Ends(r, k)
          BY <3>3, <4>2 DEF OrderInv, AppOrder
        <4>4. k < j
          BY <1>4, <3>5, <4>3
        <4>5. QED
          BY <1>4, <1>5, <4>3, <4>4
      <3>6. QED
        BY <1>4, <3>4, <3>5
    <2>4. ASSUME NEW r \in Pastes, NEW q \in Pastes, Later(r, q), cl'[q] # "todo"
          PROVE  cl'[r] = "over"
      <3>1. r # q
        BY <2>4, PasteParts, PasteAssumption DEF Later
      <3>2. CASE cl[q] # "todo"
        BY <2>4, <3>2 DEF OrderInv, AppOrder
      <3>3. CASE cl[q] = "todo"
        <4>1. q = p /\ t = "begin"
          BY <2>4, <3>3
        <4>2. cl[r] = "over"
          BY <2>4, <4>1 DEF InTurn, Later, FilesOf
        <4>3. QED
          BY <3>1, <4>1, <4>2
      <3>4. QED
        BY <3>2, <3>3
    <2>5. QED
      BY <2>1, <2>2, <2>3, <2>4 DEF AppOrder, Later
  <1>10. QED
    BY <1>7, <1>8, <1>9 DEF OrderInv

-----------------------------------------------------------------------------
(* The agent's tables and its handler in progress.                         *)

\* What the agent's handlers rely on, and the limits follow from.  An open in
\* progress has its place in the pending table and in its group's total.
Books ==
  /\ work \in WorkType /\ IsFiniteSet(pend) /\ IsFiniteSet(groups)
  /\ work.op = "idle" => work = Idle
  /\ \A g \in Groups : finished[g] \subseteq FilesOf(g)
  /\ \A g \in Groups \ groups : declared[g] = 0
  /\ work.op = "open" => \E p \in Pastes :
       /\ work = Work("open", {p}, None, {}) /\ p \notin pend
       /\ stream = "up" =>
            Cardinality(pend) < MaxPastes /\ SizeOf[p] <= declared[GroupOf(p)]

\* The handler in progress will unlink or type p.
Handled(p) == p \in work.files /\ work.op # "open"

\* DiskAccounted, without counting.
OwnedOnce ==
  stream = "up" => \A p \in Pastes :
    /\ file[p] = "disk" <=> p \in pend \/ p \in finished[GroupOf(p)] \/ Handled(p)
    /\ ~(p \in pend /\ p \in finished[GroupOf(p)])
    /\ ~(p \in pend /\ Handled(p))
    /\ ~(p \in finished[GroupOf(p)] /\ Handled(p))

\* The record a handler leaves for its steps to come.
LEMMA WorkFields ==
  ASSUME NEW op, NEW files, NEW reject, NEW group
  PROVE  /\ Work(op, files, reject, group).op = op
         /\ Work(op, files, reject, group).files = files
         /\ Work(op, files, reject, group).reject = reject
         /\ Work(op, files, reject, group).group = group
  BY DEF Work

\* What the handlers leave for later is well typed.
LEMMA WorkTypes ==
  /\ \A f \in SUBSET Pastes, r \in Pastes \cup {None}, g \in SUBSET Groups :
       Unlink(f, r, g) \in WorkType
  /\ \A op \in {"open", "flush", "ungroup", "inject", "type"}, f \in SUBSET Pastes, g \in SUBSET Groups :
       Work(op, f, None, g) \in WorkType
  /\ Idle \in WorkType
  BY DEF Work, Unlink, Idle, WorkType

\* The frames on the wire keep their type.
LEMMA WireTypes ==
  ASSUME TypeOK, NEW p \in Pastes, NEW t \in FrameTypes, Send(t, p) \/ Take(t, p)
  PROVE  wire' \in Seq([type : {"begin", "chunk", "end", "cancel"}, paste : Pastes])
  <1> DEFINE F == [type : {"begin", "chunk", "end", "cancel"}, paste : Pastes]
  <1>1. wire \in Seq(F) /\ Frame(t, p) \in F
    BY DEF TypeOK, Frame, FrameTypes
  <1> SUFFICES wire' \in Seq(F)
    OBVIOUS
  <1> HIDE DEF F
  <1>2. CASE Send(t, p)
    BY <1>1, <1>2 DEF Send
  <1>3. CASE Take(t, p)
    BY <1>1, <1>3 DEF Take
  <1>4. QED
    BY <1>2, <1>3

\* Dropping a group.
LEMMA DropGroupKeeps ==
  ASSUME TypeOK, Books, NEW g \in Groups, DropGroup(g)
  PROVE  /\ groups' \subseteq Groups /\ IsFiniteSet(groups') /\ Cardinality(groups') <= MaxGroups
         /\ finished' \in [Groups -> SUBSET Pastes] /\ declared' \in [Groups -> 0..MaxBytes]
         /\ \A h \in Groups : finished'[h] = IF h = g THEN {} ELSE finished[h]
         /\ \A h \in Groups : finished'[h] \subseteq FilesOf(h)
         /\ \A h \in Groups \ groups' : declared'[h] = 0
  <1>1. IsFiniteSet(groups) /\ Cardinality(groups) <= MaxGroups /\ groups \subseteq Groups
    BY DEF Books, TypeOK
  <1>2. /\ IsFiniteSet(groups')
        /\ Cardinality(groups') = IF g \in groups THEN Cardinality(groups) - 1 ELSE Cardinality(groups)
    BY <1>1, FS_RemoveElement DEF DropGroup
  <1>3. Cardinality(groups) \in Nat
    BY <1>1, FS_CardinalityType
  <1>4. Cardinality(groups') <= MaxGroups /\ groups' \subseteq Groups
    BY <1>1, <1>2, <1>3, PasteAssumption DEF DropGroup
  <1>5. finished \in [Groups -> SUBSET Pastes] /\ declared \in [Groups -> 0..MaxBytes] /\ 0 \in 0..MaxBytes
    BY PasteAssumption DEF TypeOK
  <1>6. finished' \in [Groups -> SUBSET Pastes] /\ declared' \in [Groups -> 0..MaxBytes]
    BY <1>5 DEF DropGroup
  <1>7. /\ \A h \in Groups : finished'[h] = IF h = g THEN {} ELSE finished[h]
        /\ \A h \in Groups : declared'[h] = IF h = g THEN 0 ELSE declared[h]
    BY <1>5 DEF DropGroup
  <1>8. QED
    BY <1>2, <1>4, <1>6, <1>7 DEF Books, DropGroup

\* A paste leaves the pending table.
LEMMA PendShrinks ==
  ASSUME TypeOK, Books, NEW p \in Pastes, pend' = pend \ {p}
  PROVE  pend' \subseteq Pastes /\ IsFiniteSet(pend') /\ Cardinality(pend') <= MaxPastes
  <1>1. IsFiniteSet(pend) /\ Cardinality(pend) <= MaxPastes /\ pend \subseteq Pastes
    BY DEF Books, TypeOK
  <1>2. /\ IsFiniteSet(pend')
        /\ Cardinality(pend') = IF p \in pend THEN Cardinality(pend) - 1 ELSE Cardinality(pend)
    BY <1>1, FS_RemoveElement
  <1>3. Cardinality(pend) \in Nat
    BY <1>1, FS_CardinalityType
  <1>4. QED
    BY <1>1, <1>2, <1>3, PasteAssumption

TypesInv == TypeOK /\ Books

\* The steps of the client do not reach the tables.
LEMMA ClientKeepsTypes ==
  ASSUME TypesInv, NEW p \in Pastes, Client(p)
  PROVE  TypesInv'
  <1> USE DEF TypesInv
  <1>1. UNCHANGED <<tables, file, work, env, app>>
    BY DEF Client, SendBegin, SendChunk, SendEnd, SendCancel, StopSending, RecvReject
  <1>2. Books'
    BY <1>1 DEF Books, tables, env
  <1>3. cl \in [Pastes -> {"todo", "sending", "over"}] /\ offset \in [Pastes -> Nat]
    BY DEF TypeOK
  <1>4. /\ cl' \in [Pastes -> {"todo", "sending", "over"}] /\ offset' \in [Pastes -> Nat]
        /\ aborted' \subseteq Groups /\ rejects' \subseteq Pastes
    <2> USE DEF Client, SendBegin, SendChunk, SendEnd, SendCancel, StopSending, RecvReject
    <2>1. cl' \in [Pastes -> {"todo", "sending", "over"}]
      BY <1>3
    <2>2. offset' \in [Pastes -> Nat]
      BY <1>3
    <2>3. aborted' \subseteq Groups
      BY PasteParts DEF TypeOK
    <2>4. rejects' \subseteq Pastes
      BY DEF TypeOK
    <2>5. QED
      BY <2>1, <2>2, <2>3, <2>4
  <1>5. wire' = wire \/ \E t \in FrameTypes : Send(t, p)
    BY DEF Client, SendBegin, SendChunk, SendEnd, SendCancel, StopSending, RecvReject, FrameTypes
  <1>6. wire' \in Seq([type : {"begin", "chunk", "end", "cancel"}, paste : Pastes])
    BY <1>5, WireTypes DEF TypeOK
  <1>7. QED
    BY <1>1, <1>2, <1>4, <1>6 DEF TypeOK, tables, env

\* PasteBegin: the limits are checked before the tables grow.
LEMMA BeginKeepsTypes ==
  ASSUME TypesInv, NEW p \in Pastes,
         BeginRefused(p) \/ BeginOversize(p) \/ BeginAccepted(p) \/ OpenOk(p) \/ OpenFails(p)
  PROVE  TypesInv'
  <1> USE DEF TypesInv, client, tables, env
  <1>1. GroupOf(p) \in Groups /\ "begin" \in FrameTypes /\ SizeOf[p] \in Nat /\ {p} \in SUBSET Pastes
    BY PasteParts, PasteAssumption DEF FrameTypes
  <1>2. finished \in [Groups -> SUBSET Pastes] /\ finished[GroupOf(p)] \subseteq Pastes
    BY <1>1 DEF TypeOK
  <1>3. declared \in [Groups -> 0..MaxBytes] /\ declared[GroupOf(p)] \in Nat
    BY <1>1 DEF TypeOK
  <1>4. CASE BeginRefused(p)
    <2>1. Take("begin", p) /\ work' = Unlink({}, p, {}) /\ UNCHANGED <<client, rejects, tables, file, env>>
      BY <1>4 DEF BeginRefused
    <2>2. TypeOK'
      BY <1>1, <2>1, WireTypes DEF TypeOK, Unlink, Work
    <2>3. Books'
      BY <2>1, WorkTypes DEF Books, Unlink, Work
    <2>4. QED
      BY <2>2, <2>3
  <1>5. CASE BeginOversize(p)
    <2>1. /\ Take("begin", p) /\ work' = Unlink(finished[GroupOf(p)], p, {}) /\ DropGroup(GroupOf(p))
          /\ UNCHANGED <<client, rejects, pend, written, file, env>>
      BY <1>5 DEF BeginOversize
    <2>2. TypeOK'
      BY <1>1, <1>2, <2>1, WireTypes, DropGroupKeeps DEF TypeOK, Unlink, Work
    <2>3. Books'
      BY <1>1, <1>2, <2>1, WorkTypes, DropGroupKeeps DEF Books, Unlink, Work
    <2>4. QED
      BY <2>2, <2>3
  <1>6. CASE BeginAccepted(p)
    <2> DEFINE g == GroupOf(p)
    <2>1. /\ Take("begin", p) /\ ~Refused(p) /\ ~Oversize(p) /\ work' = Work("open", {p}, None, {})
          /\ groups' = groups \cup {g} /\ declared' = [declared EXCEPT ![g] = @ + SizeOf[p]]
          /\ UNCHANGED <<client, rejects, pend, written, finished, file, env>>
      BY <1>6 DEF BeginAccepted
    <2>2. IsFiniteSet(groups) /\ Cardinality(groups) \in Nat /\ Cardinality(groups) <= MaxGroups
      BY FS_CardinalityType DEF Books, TypeOK
    <2>3. IsFiniteSet(pend) /\ Cardinality(pend) \in Nat
      BY FS_CardinalityType DEF Books
    <2>4. IsFiniteSet(groups') /\ Cardinality(groups') <= MaxGroups
      <3>1. /\ IsFiniteSet(groups')
            /\ Cardinality(groups') = IF g \in groups THEN Cardinality(groups) ELSE Cardinality(groups) + 1
        BY <2>1, <2>2, FS_AddElement
      <3>2. g \notin groups => Cardinality(groups) < MaxGroups
        BY <2>1, <2>2, PasteAssumption DEF Refused
      <3>3. QED
        BY <2>2, <3>1, <3>2, PasteAssumption
    <2>5. declared[g] + SizeOf[p] \in 0..MaxBytes
      <3>1. CASE g \in groups
        BY <1>1, <1>3, <2>1, <3>1, PasteAssumption DEF Oversize
      <3>2. CASE g \notin groups
        <4>1. declared[g] = 0
          BY <1>1, <3>2 DEF Books
        <4>2. SizeOf[p] <= MaxBytes
          BY <1>1, <2>1, <3>2, PasteAssumption DEF Refused
        <4>3. QED
          BY <1>1, <4>1, <4>2, PasteAssumption
      <3>3. QED
        BY <3>1, <3>2
    <2>6. declared' \in [Groups -> 0..MaxBytes]
      BY <1>1, <1>3, <2>1, <2>5
    <2>7. \A h \in Groups : declared'[h] = IF h = g THEN declared[g] + SizeOf[p] ELSE declared[h]
      BY <1>1, <1>3, <2>1
    <2>8. TypeOK'
      BY <1>1, <2>1, <2>4, <2>6, WireTypes DEF TypeOK, Work
    <2>9. p \notin pend /\ Cardinality(pend) < MaxPastes
      BY <2>1, <2>3, PasteAssumption DEF Refused
    <2>10. SizeOf[p] <= declared'[g]
      BY <1>1, <1>3, <2>7
    <2>11. work' \in WorkType /\ work'.op = "open"
      BY <1>1, <2>1, WorkTypes DEF Work
    <2>12. Books'
      BY <2>1, <2>3, <2>4, <2>7, <2>9, <2>10, <2>11 DEF Books
    <2>13. QED
      BY <2>8, <2>12
  <1>7. CASE OpenOk(p)
    <2>1. /\ stream = "up" /\ work = Work("open", {p}, None, {}) /\ work' = Idle
          /\ pend' = pend \cup {p} /\ written' = [written EXCEPT ![p] = 0]
          /\ file' = [file EXCEPT ![p] = "disk"]
          /\ UNCHANGED <<client, wire, rejects, groups, finished, declared, env>>
      BY <1>7 DEF OpenOk
    <2>2. IsFiniteSet(pend) /\ Cardinality(pend) \in Nat
      BY FS_CardinalityType DEF Books
    <2>3. Cardinality(pend) < MaxPastes /\ p \notin pend
      <3>1. work.op = "open" /\ work.files = {p}
        BY <2>1 DEF Work
      <3>2. PICK q \in Pastes : /\ work = Work("open", {q}, None, {}) /\ q \notin pend
                                /\ Cardinality(pend) < MaxPastes
        BY <2>1, <3>1 DEF Books
      <3>3. q = p
        BY <3>1, <3>2 DEF Work
      <3>4. QED
        BY <3>2, <3>3
    <2>4. IsFiniteSet(pend') /\ Cardinality(pend') <= MaxPastes
      <3>1. IsFiniteSet(pend') /\ Cardinality(pend') = Cardinality(pend) + 1
        BY <2>1, <2>2, <2>3, FS_AddElement
      <3>2. QED
        BY <2>2, <2>3, <3>1, PasteAssumption
    <2>5. /\ written \in [Pastes -> Nat] /\ \A q \in Pastes : written[q] <= SizeOf[q]
          /\ file \in [Pastes -> {"none", "disk", "gone", "typed", "kept"}]
      BY DEF TypeOK
    <2>6. /\ written' \in [Pastes -> Nat] /\ \A q \in Pastes : written'[q] <= SizeOf[q]
          /\ file' \in [Pastes -> {"none", "disk", "gone", "typed", "kept"}]
      BY <1>1, <2>1, <2>5
    <2>7. TypeOK'
      BY <2>1, <2>4, <2>6 DEF TypeOK, Idle, Work
    <2>8. Books'
      BY <2>1, <2>4, WorkTypes DEF Books, Idle, Work
    <2>9. QED
      BY <2>7, <2>8
  <1>8. CASE OpenFails(p)
    <2> DEFINE g == GroupOf(p)
    <2>1. /\ stream = "up" /\ work = Work("open", {p}, None, {}) /\ work' = Unlink({}, p, {})
          /\ declared' = [declared EXCEPT ![g] = @ - SizeOf[p]]
          /\ UNCHANGED <<client, wire, rejects, pend, written, groups, finished, file, env>>
      BY <1>8 DEF OpenFails
    <2>2. SizeOf[p] <= declared[g]
      <3>1. work.op = "open" /\ work.files = {p}
        BY <2>1 DEF Work
      <3>2. PICK q \in Pastes : /\ work = Work("open", {q}, None, {})
                                /\ SizeOf[q] <= declared[GroupOf(q)]
        BY <2>1, <3>1 DEF Books
      <3>3. q = p
        BY <3>1, <3>2 DEF Work
      <3>4. QED
        BY <3>2, <3>3
    <2>3. declared[g] - SizeOf[p] \in 0..MaxBytes /\ (declared[g] = 0 => declared[g] - SizeOf[p] = 0)
      BY <1>1, <1>3, <2>2, PasteAssumption
    <2>4. /\ declared' \in [Groups -> 0..MaxBytes]
          /\ \A h \in Groups : declared'[h] = IF h = g THEN declared[g] - SizeOf[p] ELSE declared[h]
      BY <1>1, <1>3, <2>1, <2>3
    <2>5. TypeOK'
      BY <2>1, <2>4 DEF TypeOK, Unlink, Work
    <2>6. Books'
      BY <2>1, <2>3, <2>4, WorkTypes DEF Books, Unlink, Work
    <2>7. QED
      BY <2>5, <2>6
  <1>9. QED
    BY <1>4, <1>5, <1>6, <1>7, <1>8

\* PasteChunk and PasteEnd.
LEMMA EndKeepsTypes ==
  ASSUME TypesInv, NEW p \in Pastes,
         \/ Unknown(p) \/ ChunkOk(p) \/ ChunkFails(p)
         \/ EndCancel(p) \/ EndMismatch(p) \/ EndOk(p)
  PROVE  TypesInv'
  <1> USE DEF TypesInv, client, tables, env
  <1>1. GroupOf(p) \in Groups /\ {"chunk", "end", "cancel"} \subseteq FrameTypes /\ SizeOf[p] \in Nat
    BY PasteParts, PasteAssumption DEF FrameTypes
  <1>2. /\ finished \in [Groups -> SUBSET Pastes] /\ finished[GroupOf(p)] \subseteq Pastes
        /\ finished[GroupOf(p)] \subseteq FilesOf(GroupOf(p)) /\ p \in FilesOf(GroupOf(p))
    BY <1>1 DEF TypeOK, Books, FilesOf
  <1>3. \E t \in FrameTypes : Take(t, p)
    BY <1>1 DEF Unknown, ChunkOk, ChunkFails, EndCancel, EndMismatch, EndOk
  <1>4. /\ wire' \in Seq([type : {"begin", "chunk", "end", "cancel"}, paste : Pastes])
        /\ stream = "up" /\ work = Idle
    BY <1>3, WireTypes DEF Take
  <1>5. CASE Unknown(p)
    BY <1>4, <1>5 DEF Unknown, TypeOK, Books
  <1>6. CASE ChunkOk(p)
    <2>1. /\ written[p] < SizeOf[p] /\ written' = [written EXCEPT ![p] = @ + 1]
          /\ UNCHANGED <<client, rejects, pend, groups, finished, declared, file, work, env>>
      BY <1>6 DEF ChunkOk
    <2>2. written \in [Pastes -> Nat] /\ \A q \in Pastes : written[q] <= SizeOf[q]
      BY DEF TypeOK
    <2>3. written' \in [Pastes -> Nat] /\ \A q \in Pastes : written'[q] <= SizeOf[q]
      BY <1>1, <2>1, <2>2
    <2>4. QED
      BY <1>4, <2>1, <2>3 DEF TypeOK, Books
  <1>7. CASE ChunkFails(p)
    <2>1. /\ pend' = pend \ {p} /\ work' = Unlink({p}, p, {})
          /\ UNCHANGED <<client, rejects, written, groups, finished, declared, file, env>>
      BY <1>7 DEF ChunkFails
    <2>2. pend' \subseteq Pastes /\ IsFiniteSet(pend') /\ Cardinality(pend') <= MaxPastes
      BY <2>1, PendShrinks
    <2>3. work' \in WorkType /\ work'.op = "unlink" /\ work'.files = {p}
      BY <2>1, WorkTypes DEF Unlink, Work
    <2>4. QED
      BY <1>4, <2>1, <2>2, <2>3 DEF TypeOK, Books, WorkType
  <1>8. CASE EndCancel(p) \/ EndMismatch(p)
    <2>1. /\ pend' = pend \ {p}
          /\ \E r \in Pastes \cup {None} : work' = Unlink({p}, r, {GroupOf(p)})
          /\ UNCHANGED <<client, rejects, written, groups, finished, declared, file, env>>
      BY <1>8 DEF EndCancel, EndMismatch
    <2>2. pend' \subseteq Pastes /\ IsFiniteSet(pend') /\ Cardinality(pend') <= MaxPastes
      BY <2>1, PendShrinks
    <2>3. work' \in WorkType /\ work'.op = "unlink"
      BY <1>1, <2>1, WorkTypes DEF Unlink, Work
    <2>4. QED
      BY <1>4, <2>1, <2>2, <2>3 DEF TypeOK, Books, WorkType
  <1>9. CASE EndOk(p)
    <2>1. /\ pend' = pend \ {p} /\ work' = Work("flush", {p}, None, {GroupOf(p)})
          /\ UNCHANGED <<client, rejects, written, groups, finished, declared, file, env>>
      BY <1>9 DEF EndOk
    <2>2. pend' \subseteq Pastes /\ IsFiniteSet(pend') /\ Cardinality(pend') <= MaxPastes
      BY <2>1, PendShrinks
    <2>3. work' \in WorkType /\ work'.op = "flush"
      BY <1>1, <2>1, WorkTypes DEF Work
    <2>4. QED
      BY <1>4, <2>1, <2>2, <2>3 DEF TypeOK, Books, WorkType
  <1>10. QED
    BY <1>5, <1>6, <1>7, <1>8, <1>9

\* A flushed file goes into its group, or the group out of the table.
LEMMA StageKeepsTypes ==
  ASSUME TypesInv, NEW p \in Pastes, Stage(p)
  PROVE  TypesInv'
  <1> USE DEF TypesInv, client, tables, env
  <1> DEFINE g     == GroupOf(p)
             paths == finished[g] \cup {p}
  <1>1. g \in Groups /\ UNCHANGED <<client, wire, rejects, pend, written, file, env>>
    BY PasteParts DEF Stage
  <1>2. /\ finished \in [Groups -> SUBSET Pastes] /\ finished[g] \subseteq Pastes
        /\ finished[g] \subseteq FilesOf(g) /\ p \in FilesOf(g)
    BY <1>1 DEF TypeOK, Books, FilesOf
  <1>3. CASE finished' = [finished EXCEPT ![g] = paths] /\ work' = Idle /\ UNCHANGED <<groups, declared>>
    <2>1. /\ finished' \in [Groups -> SUBSET Pastes]
          /\ \A h \in Groups : finished'[h] = IF h = g THEN paths ELSE finished[h]
      BY <1>1, <1>2, <1>3
    <2>2. \A h \in Groups : finished'[h] \subseteq FilesOf(h)
      BY <1>1, <1>2, <2>1 DEF Books
    <2>3. work' \in WorkType /\ work'.op = "idle" /\ work'.files = {} /\ work'.group = {}
      BY <1>3, WorkTypes DEF Idle, Work
    <2>4. QED
      BY <1>1, <1>3, <2>1, <2>2, <2>3 DEF TypeOK, Books
  <1>4. CASE DropGroup(g) /\ work' = Work("inject", paths, None, {})
    <2>1. work' \in WorkType /\ work'.op = "inject"
      BY <1>2, <1>4, WorkTypes DEF Work
    <2>2. QED
      BY <1>1, <1>4, <2>1, DropGroupKeeps DEF TypeOK, Books, WorkType
  <1>5. CASE work' = Work("inject", {p}, None, {}) /\ UNCHANGED <<groups, finished, declared>>
    <2>1. work' \in WorkType /\ work'.op = "inject"
      BY <1>5, WorkTypes DEF Work
    <2>2. QED
      BY <1>1, <1>5, <2>1 DEF TypeOK, Books, WorkType
  <1>6. QED
    BY <1>3, <1>4, <1>5 DEF Stage

\* What a handler does after its table updates, and the end of the stream.
LEMMA WorkKeepsTypes ==
  ASSUME TypesInv,
         \/ \E p \in Pastes : UnlinkOne(p)
         \/ \E g \in Groups : Ungroup(g)
         \/ UnlinkDone \/ InjectCheck \/ TypePaths \/ LeaseMoves \/ StreamEnd
  PROVE  TypesInv'
  <1> USE DEF TypesInv, client, tables, env
  <1>1. work \in WorkType /\ work.files \in SUBSET Pastes /\ work.group \in SUBSET Groups
    BY DEF Books, WorkType
  <1>2. ASSUME NEW p \in Pastes, UnlinkOne(p)
        PROVE  TypesInv'
    <2>1. /\ work.op = "unlink" /\ file' = [file EXCEPT ![p] = "gone"]
          /\ work' = [work EXCEPT !.files = @ \ {p}]
          /\ UNCHANGED <<client, wire, rejects, tables, env>>
      BY <1>2 DEF UnlinkOne
    <2>2. /\ work' \in WorkType /\ work'.op = "unlink" /\ work'.group = work.group
          /\ work'.files = work.files \ {p}
      BY <1>1, <2>1 DEF WorkType
    <2>3. TypeOK'
      BY <1>1, <2>1, <2>2 DEF TypeOK
    <2>4. Books'
      BY <1>1, <2>1, <2>2 DEF Books
    <2>5. QED
      BY <2>3, <2>4
  <1>3. CASE UnlinkDone
    <2>1. /\ rejects' = IF work.reject = None THEN rejects ELSE rejects \cup {work.reject}
          /\ work' = IF work.group = {} THEN Idle ELSE Work("ungroup", {}, None, work.group)
          /\ UNCHANGED <<client, wire, tables, file, env>>
      BY <1>3 DEF UnlinkDone
    <2>2. rejects' \subseteq Pastes
      BY <1>1, <2>1 DEF TypeOK, WorkType
    <2>3. work' = Idle \/ work' = Work("ungroup", {}, None, work.group)
      BY <2>1
    <2>4. TypeOK'
      BY <1>1, <2>1, <2>2, <2>3 DEF TypeOK, Idle, Unlink, Work
    <2>5. Books'
      BY <1>1, <2>1, <2>3, WorkTypes DEF Books, Idle, Unlink, Work
    <2>6. QED
      BY <2>4, <2>5
  <1>4. CASE InjectCheck
    <2>1. /\ work.op = "inject" /\ UNCHANGED <<client, wire, rejects, tables, file, env>>
          /\ work' = IF control THEN [work EXCEPT !.op = "type"] ELSE Unlink(work.files, None, {})
      BY <1>4 DEF InjectCheck
    <2>3. /\ work' \in WorkType /\ work'.op \in {"type", "unlink"}
          /\ work'.files \subseteq Pastes /\ work'.group \subseteq Groups
      BY <1>1, <2>1, WorkTypes DEF Unlink, Work, WorkType
    <2>4. QED
      BY <1>1, <2>1, <2>3 DEF TypeOK, Books
  <1>5. CASE TypePaths
    <2>1. work' = Idle /\ UNCHANGED <<client, wire, rejects, tables, env>>
      BY <1>5 DEF TypePaths
    <2>2. file' \in [Pastes -> {"none", "disk", "gone", "typed", "kept"}]
      BY <1>5 DEF TypePaths, TypeOK
    <2>3. work' \in WorkType /\ work'.op = "idle" /\ work'.files = {} /\ work'.group = {}
      BY <2>1, WorkTypes DEF Idle, Work
    <2>4. QED
      BY <2>1, <2>2, <2>3 DEF TypeOK, Books
  <1>6. CASE LeaseMoves
    BY <1>6 DEF LeaseMoves, TypeOK, Books
  <1>7. CASE StreamEnd
    <2>1. /\ stream' = "done" /\ pend' = {} /\ groups' = {}
          /\ finished' = [g \in Groups |-> {}] /\ declared' = [g \in Groups |-> 0]
          /\ UNCHANGED <<client, wire, rejects, written, work, control>>
      BY <1>7 DEF StreamEnd
    <2>2. file' \in [Pastes -> {"none", "disk", "gone", "typed", "kept"}]
      BY <1>7 DEF StreamEnd, TypeOK
    <2>3. IsFiniteSet({}) /\ Cardinality({}) = 0
      BY FS_EmptySet
    <2>4. TypeOK'
      BY <2>1, <2>2, <2>3, PasteAssumption DEF TypeOK
    <2>5. Books'
      BY <2>1, <2>3 DEF Books
    <2>6. QED
      BY <2>4, <2>5
  <1>8. ASSUME NEW g \in Groups, Ungroup(g)
        PROVE  TypesInv'
    <2>1. /\ DropGroup(g) /\ work' = Unlink(finished[g], None, {})
          /\ UNCHANGED <<client, wire, rejects, pend, written, file, env>>
      BY <1>8 DEF Ungroup
    <2>2. finished[g] \in SUBSET Pastes
      BY DEF TypeOK
    <2>3. work' \in WorkType /\ work'.op = "unlink"
      BY <2>1, <2>2, WorkTypes DEF Unlink, Work
    <2>4. QED
      BY <2>1, <2>3, DropGroupKeeps DEF TypeOK, Books, WorkType
  <1>9. QED
    BY <1>2, <1>3, <1>4, <1>5, <1>6, <1>7, <1>8

-----------------------------------------------------------------------------
(* The files on disk.                                                      *)

DiskInv == OwnedOnce /\ CleanupMissesOnlyDropped

\* A paste being opened is new to every table.
LEMMA OpeningIsNew ==
  ASSUME TypesInv, OrderInv, DiskInv, NEW p \in Pastes, work = Work("open", {p}, None, {})
  PROVE  /\ p \notin pend /\ p \notin finished[GroupOf(p)] /\ file[p] \notin {"typed", "kept"}
         /\ work.op = "open" /\ work.files = {p}
         /\ stream = "up" => file[p] # "disk"
  <1>1. work.op = "open" /\ work.files = {p}
    BY DEF Work
  <1>2. p \notin pend
    <2>1. PICK q \in Pastes : work = Work("open", {q}, None, {}) /\ q \notin pend
      BY <1>1 DEF TypesInv, Books
    <2>2. q = p
      BY <1>1, <2>1 DEF Work
    <2>3. QED
      BY <2>1, <2>2
  <1>3. 0 \in Pos /\ Begun(p, 0)
    <2>1. Len(wire) \in Nat
      BY DEF TypesInv, TypeOK
    <2>2. Active(p)
      BY <1>1 DEF Active
    <2>3. 0 \in Pos
      BY <2>1 DEF Pos
    <2>4. QED
      BY <2>2, <2>3 DEF Begun
  <1>4. ~Settled(p)
    BY <1>3 DEF OrderInv, SettledIsOver
  <1>5. QED
    BY <1>1, <1>2, <1>4 DEF Settled, DiskInv, OwnedOnce, Handled

\* Every handler hands on each file it takes from a table.
LEMMA AgentKeepsDisk ==
  ASSUME TypesInv, OrderInv, DiskInv, NEW p \in Pastes, Agent(p)
  PROVE  DiskInv'
  <1> USE DEF TypesInv, client, tables, env
  <1>1. stream = "up" /\ stream' = "up" /\ CleanupMissesOnlyDropped'
    BY DEF Agent, BeginRefused, BeginOversize, BeginAccepted, OpenOk, OpenFails, Unknown, ChunkOk,
       ChunkFails, EndCancel, EndMismatch, EndOk, Stage, UnlinkOne, Take, CleanupMissesOnlyDropped
  <1>2. GroupOf(p) \in Groups /\ \A q \in Pastes : GroupOf(q) \in Groups
    BY PasteParts
  <1>3. /\ finished \in [Groups -> SUBSET Pastes]
        /\ file \in [Pastes -> {"none", "disk", "gone", "typed", "kept"}]
        /\ finished[GroupOf(p)] \subseteq FilesOf(GroupOf(p))
    BY <1>2 DEF TypeOK, Books
  <1>4. \A q \in Pastes : /\ file[q] = "disk" <=> q \in pend \/ q \in finished[GroupOf(q)] \/ Handled(q)
                          /\ ~(q \in pend /\ q \in finished[GroupOf(q)])
                          /\ ~(q \in pend /\ Handled(q))
                          /\ ~(q \in finished[GroupOf(q)] /\ Handled(q))
    BY <1>1 DEF DiskInv, OwnedOnce
  <1>5. work = Idle => \A q : ~Handled(q)
    BY DEF Handled, Idle, Work
  <1>6. \A q \in Pastes : q \in FilesOf(GroupOf(p)) <=> GroupOf(q) = GroupOf(p)
    BY DEF FilesOf
  <1>7. CASE BeginRefused(p)
    <2>1. \A q : ~Handled(q) /\ ~Handled(q)'
      BY <1>5, <1>7 DEF BeginRefused, Take, Handled, Unlink, Work
    <2>2. UNCHANGED <<pend, finished, file>>
      BY <1>7 DEF BeginRefused
    <2>3. OwnedOnce'
      BY <1>1, <1>4, <2>1, <2>2 DEF OwnedOnce
    <2>4. QED
      BY <1>1, <2>3 DEF DiskInv
  <1>8. CASE BeginOversize(p)
    <2>1. \A q : ~Handled(q) /\ (Handled(q)' <=> q \in finished[GroupOf(p)])
      BY <1>5, <1>8 DEF BeginOversize, Take, Handled, Unlink, Work
    <2>2. /\ UNCHANGED <<pend, file>>
          /\ \A h \in Groups : finished'[h] = IF h = GroupOf(p) THEN {} ELSE finished[h]
      BY <1>2, <1>3, <1>8 DEF BeginOversize, DropGroup
    <2>3. OwnedOnce'
      BY <1>1, <1>2, <1>3, <1>4, <1>6, <2>1, <2>2 DEF OwnedOnce
    <2>4. QED
      BY <1>1, <2>3 DEF DiskInv
  <1>9. CASE BeginAccepted(p)
    <2>1. \A q : ~Handled(q) /\ ~Handled(q)'
      BY <1>5, <1>9 DEF BeginAccepted, Take, Handled, Work
    <2>2. UNCHANGED <<pend, finished, file>>
      BY <1>9 DEF BeginAccepted
    <2>3. OwnedOnce'
      BY <1>1, <1>4, <2>1, <2>2 DEF OwnedOnce
    <2>4. QED
      BY <1>1, <2>3 DEF DiskInv
  <1>10. CASE OpenOk(p)
    <2>1. p \notin pend /\ p \notin finished[GroupOf(p)] /\ \A q : ~Handled(q)
      BY <1>10, OpeningIsNew DEF OpenOk, Handled
    <2>2. /\ pend' = pend \cup {p} /\ finished' = finished
          /\ \A q \in Pastes : file'[q] = IF q = p THEN "disk" ELSE file[q]
          /\ \A q : ~Handled(q)'
      BY <1>3, <1>10 DEF OpenOk, Handled, Idle, Work
    <2>3. OwnedOnce'
      BY <1>1, <1>4, <2>1, <2>2 DEF OwnedOnce
    <2>4. QED
      BY <1>1, <2>3 DEF DiskInv
  <1>11. CASE OpenFails(p)
    <2>1. \A q : ~Handled(q) /\ ~Handled(q)'
      BY <1>11, OpeningIsNew DEF OpenFails, Handled, Unlink, Work
    <2>2. UNCHANGED <<pend, finished, file>>
      BY <1>11 DEF OpenFails
    <2>3. OwnedOnce'
      BY <1>1, <1>4, <2>1, <2>2 DEF OwnedOnce
    <2>4. QED
      BY <1>1, <2>3 DEF DiskInv
  <1>12. CASE Unknown(p) \/ ChunkOk(p)
    <2>1. UNCHANGED <<pend, finished, file, work>>
      BY <1>12 DEF Unknown, ChunkOk
    <2>2. OwnedOnce'
      BY <1>1, <1>4, <2>1 DEF OwnedOnce, Handled
    <2>3. QED
      BY <1>1, <2>2 DEF DiskInv
  <1>13. CASE ChunkFails(p) \/ EndCancel(p) \/ EndMismatch(p) \/ EndOk(p)
    <2>1. \A q : ~Handled(q) /\ (Handled(q)' <=> q = p)
      BY <1>5, <1>13 DEF ChunkFails, EndCancel, EndMismatch, EndOk, Take, Handled, Unlink, Work
    <2>2. p \in pend /\ pend' = pend \ {p} /\ UNCHANGED <<finished, file>>
      BY <1>13 DEF ChunkFails, EndCancel, EndMismatch, EndOk
    <2>3. OwnedOnce'
      BY <1>1, <1>4, <2>1, <2>2 DEF OwnedOnce
    <2>4. QED
      BY <1>1, <2>3 DEF DiskInv
  <1>14. CASE Stage(p)
    <2>1. UNCHANGED <<pend, file>> /\ \A q : Handled(q) <=> q = p
      BY <1>14 DEF Stage, Handled, Work
    <2>2. \/ /\ \A h \in Groups : finished'[h] = IF h = GroupOf(p) THEN finished[h] \cup {p} ELSE finished[h]
             /\ work' = Idle
          \/ /\ \A h \in Groups : finished'[h] = IF h = GroupOf(p) THEN {} ELSE finished[h]
             /\ work' = Work("inject", finished[GroupOf(p)] \cup {p}, None, {})
          \/ finished' = finished /\ work' = Work("inject", {p}, None, {})
      BY <1>2, <1>3, <1>14 DEF Stage, DropGroup
    <2>3. CASE /\ \A h \in Groups : finished'[h] = IF h = GroupOf(p) THEN finished[h] \cup {p} ELSE finished[h]
               /\ work' = Idle
      <3>1. \A q : ~Handled(q)'
        BY <2>3 DEF Handled, Idle, Work
      <3>2. OwnedOnce'
        BY <1>1, <1>2, <1>4, <2>1, <2>3, <3>1 DEF OwnedOnce
      <3>3. QED
        BY <1>1, <3>2 DEF DiskInv
    <2>4. CASE /\ \A h \in Groups : finished'[h] = IF h = GroupOf(p) THEN {} ELSE finished[h]
               /\ work' = Work("inject", finished[GroupOf(p)] \cup {p}, None, {})
      <3>1. \A q : Handled(q)' <=> q = p \/ q \in finished[GroupOf(p)]
        BY <2>4 DEF Handled, Work
      <3>2. OwnedOnce'
        BY <1>1, <1>2, <1>3, <1>4, <1>6, <2>1, <2>4, <3>1 DEF OwnedOnce
      <3>3. QED
        BY <1>1, <3>2 DEF DiskInv
    <2>5. CASE finished' = finished /\ work' = Work("inject", {p}, None, {})
      <3>1. \A q : Handled(q)' <=> q = p
        BY <2>5 DEF Handled, Work
      <3>2. OwnedOnce'
        BY <1>1, <1>4, <2>1, <2>5, <3>1 DEF OwnedOnce
      <3>3. QED
        BY <1>1, <3>2 DEF DiskInv
    <2>6. QED
      BY <2>2, <2>3, <2>4, <2>5
  <1>15. CASE UnlinkOne(p)
    <2>1. /\ work \in WorkType /\ work.op = "unlink" /\ p \in work.files
          /\ work' = [work EXCEPT !.files = @ \ {p}] /\ UNCHANGED <<pend, finished>>
      BY <1>15 DEF UnlinkOne, Books
    <2>2. work'.op = work.op /\ work'.files = work.files \ {p}
      BY <2>1 DEF WorkType
    <2>3. \A q : Handled(q)' <=> Handled(q) /\ q # p
      BY <2>1, <2>2 DEF Handled
    <2>4. Handled(p) /\ \A q \in Pastes : file'[q] = IF q = p THEN "gone" ELSE file[q]
      BY <1>3, <1>15, <2>1 DEF UnlinkOne, Handled
    <2>5. OwnedOnce'
      BY <1>1, <1>4, <2>1, <2>3, <2>4 DEF OwnedOnce
    <2>6. QED
      BY <1>1, <2>5 DEF DiskInv
  <1>16. QED
    BY <1>7, <1>8, <1>9, <1>10, <1>11, <1>12, <1>13, <1>14, <1>15 DEF Agent

\* The rest of a handler, and the drain of the tables when the stream ends.
LEMMA WorkKeepsDisk ==
  ASSUME TypesInv, OrderInv, DiskInv,
         \/ \E g \in Groups : Ungroup(g)
         \/ UnlinkDone \/ InjectCheck \/ TypePaths \/ LeaseMoves \/ StreamEnd
  PROVE  DiskInv'
  <1> USE DEF TypesInv, client, tables, env
  <1>1. stream = "up" /\ work \in WorkType
    BY DEF Ungroup, UnlinkDone, InjectCheck, TypePaths, LeaseMoves, StreamEnd, Books
  <1>2. \A q \in Pastes : /\ file[q] = "disk" <=> q \in pend \/ q \in finished[GroupOf(q)] \/ Handled(q)
                          /\ ~(q \in pend /\ q \in finished[GroupOf(q)])
                          /\ ~(q \in pend /\ Handled(q))
                          /\ ~(q \in finished[GroupOf(q)] /\ Handled(q))
    BY <1>1 DEF DiskInv, OwnedOnce
  <1>3. CASE UnlinkDone \/ InjectCheck \/ LeaseMoves
    <2>1. UNCHANGED <<pend, finished, file, stream>>
      BY <1>3 DEF UnlinkDone, InjectCheck, LeaseMoves
    <2>2. \A q : Handled(q)' = Handled(q)
      <3>1. CASE UnlinkDone
        <4>1. work.op = "unlink" /\ work.files = {}
          BY <3>1 DEF UnlinkDone
        <4>2. work'.op # "open" /\ work'.files = {}
          BY <3>1 DEF UnlinkDone, Idle, Work
        <4>3. QED
          BY <4>1, <4>2 DEF Handled
      <3>2. CASE InjectCheck
        <4>1. work.op = "inject"
          BY <3>2 DEF InjectCheck
        <4>2. work'.op # "open" /\ work'.files = work.files
          BY <1>1, <3>2, <4>1 DEF InjectCheck, Unlink, Work, WorkType
        <4>3. QED
          BY <4>1, <4>2 DEF Handled
      <3>3. CASE LeaseMoves
        BY <3>3 DEF LeaseMoves, Handled
      <3>4. QED
        BY <1>3, <3>1, <3>2, <3>3
    <2>3. OwnedOnce' /\ CleanupMissesOnlyDropped'
      BY <1>1, <1>2, <2>1, <2>2 DEF OwnedOnce, CleanupMissesOnlyDropped
    <2>4. QED
      BY <2>3 DEF DiskInv
  <1>4. CASE TypePaths
    <2>1. PICK outcome \in {"typed", "kept"} :
             file' = [p \in Pastes |-> IF p \in work.files THEN outcome ELSE file[p]]
      BY <1>4 DEF TypePaths
    <2>2. work.op = "type" /\ UNCHANGED <<pend, finished, stream>>
      BY <1>4 DEF TypePaths
    <2>3. \A q : ~Handled(q)' /\ (Handled(q) <=> q \in work.files)
      BY <1>4, <2>2 DEF TypePaths, Handled, Idle, Work
    <2>4. OwnedOnce' /\ CleanupMissesOnlyDropped'
      BY <1>1, <1>2, <2>1, <2>2, <2>3 DEF OwnedOnce, CleanupMissesOnlyDropped
    <2>5. QED
      BY <2>4 DEF DiskInv
  <1>5. CASE StreamEnd
    <2>1. /\ stream' = "done" /\ work' = work
          /\ file' = [p \in Pastes |->
               IF p \in pend \/ p \in finished[GroupOf(p)] THEN "gone"
               ELSE IF work.op = "open" /\ p \in work.files THEN "disk" ELSE file[p]]
      BY <1>5 DEF StreamEnd
    <2>2. ASSUME NEW p \in Pastes, file'[p] = "disk"
          PROVE  p \in work'.files
      BY <1>2, <2>1, <2>2 DEF Handled
    <2>3. QED
      BY <2>1, <2>2 DEF DiskInv, OwnedOnce, CleanupMissesOnlyDropped
  <1>6. ASSUME NEW g \in Groups, Ungroup(g)
        PROVE  DiskInv'
    <2>1. UNCHANGED <<pend, file, stream>> /\ DropGroup(g)
      BY <1>6 DEF Ungroup
    <2>2. \A q : ~Handled(q) /\ (Handled(q)' <=> q \in finished[g])
      BY <1>6 DEF Ungroup, Handled, Unlink, Work
    <2>3. /\ finished \in [Groups -> SUBSET Pastes]
          /\ \A h \in Groups : finished[h] \subseteq FilesOf(h)
      BY DEF TypeOK, Books
    <2>4. \A h \in Groups : finished'[h] = IF h = g THEN {} ELSE finished[h]
      BY <2>1, <2>3 DEF DropGroup
    <2>5. \A q \in Pastes : GroupOf(q) \in Groups /\ (q \in FilesOf(g) <=> GroupOf(q) = g)
      BY PasteParts DEF FilesOf
    <2>6. \A q \in Pastes : q \in finished[g] => GroupOf(q) = g
      BY <2>3, <2>5
    <2>7. OwnedOnce'
      BY <1>1, <1>2, <2>1, <2>2, <2>4, <2>5, <2>6 DEF OwnedOnce
    <2>8. QED
      BY <1>1, <2>1, <2>7 DEF DiskInv, CleanupMissesOnlyDropped
  <1>7. QED
    BY <1>3, <1>4, <1>5, <1>6

-----------------------------------------------------------------------------
(* Every step keeps the order of the frames.                               *)

\* The agent takes a frame: what it begins and settles.
LEMMA AgentKeepsOrder ==
  ASSUME TypesInv, OrderInv, DiskInv, NEW p \in Pastes, Agent(p)
  PROVE  OrderInv'
  <1> USE DEF TypesInv, tables, env
  <1>1. FrameTypes = {"begin", "chunk", "end", "cancel"}
    BY DEF FrameTypes
  <1>2. /\ GroupOf(p) \in Groups /\ finished \in [Groups -> SUBSET Pastes]
        /\ file \in [Pastes -> {"none", "disk", "gone", "typed", "kept"}]
        /\ \A q \in Pastes : GroupOf(q) \in Groups
        /\ \A q \in Pastes : q \in finished[GroupOf(p)] => GroupOf(q) = GroupOf(p)
    BY PasteParts DEF TypeOK, Books, FilesOf
  <1>3. ASSUME work = Idle
        PROVE  /\ \A q : Active(q) <=> q \in pend
               /\ \A q : Settled(q) <=> q \in finished[GroupOf(q)] \/ file[q] \in {"typed", "kept"}
    BY <1>3 DEF Active, Settled, Idle, Work
  <1>4. CASE BeginRefused(p) \/ BeginOversize(p)
    <2>1. /\ Take("begin", p) /\ work = Idle /\ UNCHANGED <<client, pend, file>>
          /\ work'.op = "unlink"
      BY <1>4 DEF BeginRefused, BeginOversize, Take, Unlink, Work
    <2>2. \A q \in Pastes : finished'[GroupOf(q)] \subseteq finished[GroupOf(q)]
      BY <1>2, <1>4 DEF BeginRefused, BeginOversize, DropGroup
    <2>3. \A q \in Pastes : (Active(q)' => Active(q)) /\ (Settled(q)' => Settled(q))
      BY <1>3, <2>1, <2>2 DEF Active, Settled
    <2>4. QED
      BY <1>1, <2>1, <2>3, TakeKeepsOrder
  <1>5. CASE BeginAccepted(p)
    <2>1. /\ Take("begin", p) /\ work = Idle /\ UNCHANGED <<client, pend, finished, file>>
          /\ work'.op = "open" /\ work'.files = {p}
      BY <1>5 DEF BeginAccepted, Take, Work
    <2>2. \A q \in Pastes : (Active(q)' => Active(q) \/ q = p) /\ (Settled(q)' => Settled(q))
      BY <1>3, <2>1 DEF Active, Settled
    <2>3. QED
      BY <1>1, <2>1, <2>2, TakeKeepsOrder
  <1>6. CASE OpenOk(p) \/ OpenFails(p) \/ UnlinkOne(p)
    <2>1. UNCHANGED <<client, wire, finished>>
      BY <1>6 DEF OpenOk, OpenFails, UnlinkOne
    <2>2. CASE OpenOk(p) \/ OpenFails(p)
      <3>1. Active(p) /\ work'.op \in {"idle", "unlink"} /\ pend' \subseteq pend \cup {p}
        BY <2>2, OpeningIsNew DEF OpenOk, OpenFails, Active, Idle, Unlink, Work
      <3>2. \A q \in Pastes : file'[q] \in {"typed", "kept"} => file[q] = file'[q]
        BY <1>2, <2>2 DEF OpenOk, OpenFails
      <3>3. \A q \in Pastes : (Active(q)' => Active(q)) /\ (Settled(q)' => Settled(q))
        BY <2>1, <3>1, <3>2 DEF Active, Settled
      <3>4. QED
        BY <2>1, <3>3, QuietKeepsOrder DEF client
    <2>3. CASE UnlinkOne(p)
      <3>1. work.op = "unlink" /\ work \in WorkType /\ work' = [work EXCEPT !.files = @ \ {p}] /\ pend' = pend
        BY <2>3 DEF UnlinkOne, Books
      <3>2. work'.op = "unlink"
        BY <3>1 DEF WorkType
      <3>3. \A q \in Pastes : file'[q] \in {"typed", "kept"} => file[q] = file'[q]
        BY <1>2, <2>3 DEF UnlinkOne
      <3>4. \A q \in Pastes : (Active(q)' => Active(q)) /\ (Settled(q)' => Settled(q))
        BY <2>1, <3>1, <3>2, <3>3 DEF Active, Settled
      <3>5. QED
        BY <2>1, <3>4, QuietKeepsOrder DEF client
    <2>4. QED
      BY <1>6, <2>2, <2>3
  <1>7. CASE Unknown(p) \/ ChunkOk(p)
    <2>1. PICK t \in {"chunk", "end", "cancel"} : Take(t, p) /\ (p \in pend => t = "chunk")
      BY <1>7 DEF Unknown, ChunkOk
    <2>2. work = Idle /\ UNCHANGED <<client, pend, finished, file, work>>
      BY <1>7 DEF Unknown, ChunkOk, Take
    <2>3. \A q \in Pastes : Active(q)' = Active(q) /\ Settled(q)' = Settled(q)
      BY <2>2 DEF Active, Settled
    <2>4. \A q \in Pastes : Active(q)' => ~(q = p /\ t \in {"end", "cancel"})
      BY <1>3, <2>1, <2>2, <2>3
    <2>5. QED
      BY <1>1, <2>1, <2>2, <2>3, <2>4, TakeKeepsOrder
  <1>8. CASE ChunkFails(p) \/ EndCancel(p) \/ EndMismatch(p)
    <2>1. PICK t \in {"chunk", "end", "cancel"} : Take(t, p)
      BY <1>8 DEF ChunkFails, EndCancel, EndMismatch
    <2>2. work = Idle /\ work'.op = "unlink" /\ pend' = pend \ {p} /\ UNCHANGED <<client, file>>
      BY <1>8 DEF ChunkFails, EndCancel, EndMismatch, Take, Unlink, Work
    <2>3. \A q \in Pastes : finished'[GroupOf(q)] \subseteq finished[GroupOf(q)]
      BY <1>8 DEF ChunkFails, EndCancel, EndMismatch
    <2>4. \A q \in Pastes : (Active(q)' => Active(q) /\ q # p) /\ (Settled(q)' => Settled(q))
      BY <1>3, <2>2, <2>3 DEF Active, Settled
    <2>5. QED
      BY <1>1, <2>1, <2>2, <2>4, TakeKeepsOrder
  <1>9. CASE EndOk(p)
    <2>1. /\ Take("end", p) /\ work = Idle /\ pend' = pend \ {p} /\ UNCHANGED <<client, file, finished>>
          /\ work'.op = "flush" /\ work'.files = {p}
      BY <1>9 DEF EndOk, Take, Work
    <2>2. \A q \in Pastes : (Active(q)' => Active(q) /\ q # p) /\ (Settled(q)' => Settled(q) \/ q = p)
      BY <1>3, <2>1 DEF Active, Settled
    <2>3. QED
      BY <1>1, <2>1, <2>2, TakeKeepsOrder
  <1>10. CASE Stage(p)
    <2>1. /\ UNCHANGED <<client, wire, pend, file>>
          /\ work.op = "flush" /\ work.files = {p}
      BY <1>10 DEF Stage, Work
    <2>2. /\ \A q \in Pastes : q \in finished'[GroupOf(q)] => q \in finished[GroupOf(q)] \/ q = p
          /\ work'.op \in {"idle", "inject"}
          /\ work'.op = "inject" => work'.files \subseteq finished[GroupOf(p)] \cup {p}
      BY <1>2, <1>10 DEF Stage, DropGroup, Idle, Work
    <2>3. \A q \in Pastes : (Active(q)' => Active(q)) /\ (Settled(q)' => Settled(q))
      BY <1>2, <2>1, <2>2 DEF Active, Settled
    <2>4. QED
      BY <2>1, <2>3, QuietKeepsOrder DEF client
  <1>11. QED
    BY <1>4, <1>5, <1>6, <1>7, <1>8, <1>9, <1>10 DEF Agent

\* The client's steps.
LEMMA ClientKeepsOrder ==
  ASSUME TypesInv, OrderInv, NEW p \in Pastes, Client(p)
  PROVE  OrderInv'
  <1> USE DEF TypesInv
  <1>1. cl \in [Pastes -> {"todo", "sending", "over"}] /\ FrameTypes = {"begin", "chunk", "end", "cancel"}
    BY DEF TypeOK, FrameTypes
  <1>2. CASE SendBegin(p)
    <2>1. /\ Send("begin", p) /\ UNCHANGED <<app, aborted, tables, file, work>>
          /\ cl[p] # "over" /\ (app => cl[p] = "todo" /\ InTurn(p))
      BY <1>2 DEF SendBegin
    <2>2. cl'[p] = "sending" /\ \A q \in Pastes : q # p => cl'[q] = cl[q]
      BY <1>1, <1>2 DEF SendBegin
    <2>3. QED
      BY <1>1, <2>1, <2>2, SendKeepsOrder
  <1>3. CASE SendChunk(p)
    <2>1. /\ Send("chunk", p) /\ UNCHANGED <<app, aborted, tables, file, work, cl>>
          /\ cl[p] = "sending"
      BY <1>3 DEF SendChunk
    <2>2. QED
      BY <1>1, <2>1, SendKeepsOrder
  <1>4. CASE SendEnd(p) \/ SendCancel(p)
    <2>1. PICK t \in {"end", "cancel"} : Send(t, p)
      BY <1>4 DEF SendEnd, SendCancel
    <2>2. UNCHANGED <<app, aborted, tables, file, work>> /\ cl[p] = "sending"
      BY <1>4 DEF SendEnd, SendCancel
    <2>3. cl'[p] = "over" /\ \A q \in Pastes : q # p => cl'[q] = cl[q]
      BY <1>1, <1>4 DEF SendEnd, SendCancel
    <2>4. QED
      BY <1>1, <2>1, <2>2, <2>3, SendKeepsOrder
  <1>5. CASE StopSending(p) \/ RecvReject(p)
    <2>1. UNCHANGED <<wire, app, tables, file, work>> /\ aborted \subseteq aborted'
      BY <1>5 DEF StopSending, RecvReject
    <2>2. \A q \in Pastes : \/ cl'[q] = cl[q]
                            \/ cl[q] = "sending" /\ cl'[q] = "over" /\ GroupOf(q) \in aborted'
      BY <1>1, <1>5 DEF StopSending, RecvReject
    <2>3. \A q \in Pastes : Active(q)' = Active(q) /\ Settled(q)' = Settled(q)
      BY <2>1 DEF Active, Settled, tables
    <2>4. QED
      BY <2>1, <2>2, <2>3, QuietKeepsOrder
  <1>6. QED
    BY <1>2, <1>3, <1>4, <1>5 DEF Client

\* The steps without a frame.
LEMMA WorkKeepsOrder ==
  ASSUME TypesInv, OrderInv, DiskInv,
         \/ \E g \in Groups : Ungroup(g)
         \/ UnlinkDone \/ InjectCheck \/ TypePaths \/ LeaseMoves \/ StreamEnd
  PROVE  OrderInv'
  <1> USE DEF TypesInv, tables, env
  <1>1. UNCHANGED <<client, wire>> /\ stream = "up" /\ work \in WorkType
    BY DEF Ungroup, UnlinkDone, InjectCheck, TypePaths, LeaseMoves, StreamEnd, Books
  <1>2. \A q \in Pastes : Active(q)' => Active(q)
    BY <1>1 DEF Ungroup, UnlinkDone, InjectCheck, TypePaths, LeaseMoves, StreamEnd, Active,
       Idle, Unlink, Work, WorkType
  <1>3. ASSUME NEW q \in Pastes, Settled(q)'
        PROVE  Settled(q)
    <2>1. GroupOf(q) \in Groups
      BY PasteParts
    <2>2. CASE UnlinkDone
      BY <1>3, <2>2 DEF UnlinkDone, Settled, Idle, Unlink, Work
    <2>3. CASE InjectCheck
      BY <1>1, <1>3, <2>3 DEF InjectCheck, Settled, Unlink, Work, WorkType
    <2>4. CASE TypePaths
      BY <1>3, <2>4 DEF TypePaths, Settled, Idle, Work
    <2>5. CASE LeaseMoves
      BY <1>3, <2>5 DEF LeaseMoves, Settled
    <2>6. CASE StreamEnd
      BY <1>3, <2>1, <2>6 DEF StreamEnd, Settled
    <2>7. CASE \E g \in Groups : Ungroup(g)
      <3>1. PICK g \in Groups : Ungroup(g)
        BY <2>7
      <3>2. finished \in [Groups -> SUBSET Pastes]
        BY DEF TypeOK
      <3>3. finished'[GroupOf(q)] \subseteq finished[GroupOf(q)] /\ work'.op = "unlink" /\ file' = file
        BY <2>1, <3>1, <3>2 DEF Ungroup, DropGroup, Unlink, Work
      <3>4. QED
        BY <1>3, <3>3 DEF Settled
    <2>8. QED
      BY <2>2, <2>3, <2>4, <2>5, <2>6, <2>7
  <1>4. QED
    BY <1>1, <1>2, <1>3, QuietKeepsOrder DEF client

-----------------------------------------------------------------------------
(* The groups of app.js.                                                   *)

\* The group of every file in the agent's hands is open and is not the one a
\* handler is about to drop or to complete, and what is about to be typed is a
\* whole group.
GroupsInv ==
  /\ WholeGroups
  /\ app /\ stream = "up" =>
       \A p \in Pastes : Active(p) => GroupOf(p) \in groups /\ GroupOf(p) \notin work.group
  /\ app /\ stream = "up" /\ work.op = "flush" => work.group \subseteq groups
  /\ app /\ work.op \in {"inject", "type"} => \E g \in Groups : work.files = FilesOf(g)

\* Two files of one group are told apart by their place in it.
LEMMA FilesInOrder ==
  ASSUME NEW p \in Pastes, NEW q \in Pastes, p # q, GroupOf(p) = GroupOf(q)
  PROVE  Later(p, q) \/ Later(q, p)
  <1>1. p = <<p[1], p[2]>> /\ q = <<q[1], q[2]>> /\ p[1] = q[1]
    BY DEF Pastes, GroupOf
  <1>2. p[2] # q[2] /\ p[2] \in Nat /\ q[2] \in Nat
    BY <1>1, PasteParts, PasteAssumption
  <1>3. p[2] < q[2] \/ q[2] < p[2]
    BY <1>2
  <1>4. QED
    BY <1>3 DEF Later

\* Of the files of one group app.js has at most one in the agent's hands ...
LEMMA OneActive ==
  ASSUME TypesInv, OrderInv, app, NEW p \in Pastes, NEW q \in Pastes,
         GroupOf(p) = GroupOf(q), Active(p), Active(q)
  PROVE  p = q
  <1> SUFFICES ASSUME p # q
               PROVE  FALSE
    OBVIOUS
  <1>1. Len(wire) \in Nat
    BY DEF TypesInv, TypeOK
  <1>2. 0 \in Pos /\ Begun(p, 0) /\ Begun(q, 0) /\ \A k \in Pos : ~(0 < k /\ k < 0)
    BY <1>1 DEF Pos, Begun
  <1>3. QED
    BY <1>2, FilesInOrder DEF OrderInv, AppOrder

\* ... and none when the next one begins.
LEMMA NoneActive ==
  ASSUME TypesInv, OrderInv, app, NEW p \in Pastes, NEW q \in Pastes, p # q,
         GroupOf(p) = GroupOf(q), Take("begin", q)
  PROVE  ~Active(p)
  <1> SUFFICES ASSUME Active(p)
               PROVE  FALSE
    OBVIOUS
  <1>1. Len(wire) \in Nat /\ Len(wire) >= 1 /\ DOMAIN wire = 1..Len(wire) /\ wire[1] = Frame("begin", q)
    BY TakeShape DEF TypesInv, FrameTypes
  <1>2. 0 \in Pos /\ 1 \in Pos /\ \A k \in Pos : ~(0 < k /\ k < 1) /\ ~(1 < k /\ k < 0)
    BY <1>1 DEF Pos
  <1>3. Begun(p, 0) /\ Begun(q, 1)
    BY <1>1 DEF Begun
  <1>4. QED
    BY <1>2, <1>3, FilesInOrder DEF OrderInv, AppOrder

\* A group has GroupSize files, so that many of them are all of them.
LEMMA CompleteIsWhole ==
  ASSUME NEW g \in Groups, NEW paths, paths \subseteq FilesOf(g), Complete(paths)
  PROVE  paths = FilesOf(g)
  <1> DEFINE N == 1..GroupSize
             f == [i \in N |-> <<g, i>>]
  <1>1. IsFiniteSet(N) /\ Cardinality(N) = GroupSize
    <2>1. GroupSize \in Int /\ ~(1 > GroupSize) /\ GroupSize - 1 + 1 = GroupSize
      BY PasteAssumption
    <2>2. QED
      BY <2>1, FS_Interval
  <1>2. f \in Bijection(N, FilesOf(g))
    <2>1. f \in [N -> FilesOf(g)]
      BY DEF FilesOf, Pastes, GroupOf
    <2>2. \A i, j \in N : f[i] = f[j] => i = j
      OBVIOUS
    <2>3. \A p \in FilesOf(g) : \E i \in N : f[i] = p
      BY DEF FilesOf, Pastes, GroupOf
    <2>4. QED
      BY <2>1, <2>2, <2>3 DEF Bijection, Injection, Surjection, IsInjective
  <1>3. IsFiniteSet(FilesOf(g)) /\ Cardinality(FilesOf(g)) = GroupSize
    BY <1>1, <1>2, FS_Bijection DEF ExistsBijection
  <1>4. IsFiniteSet(paths) /\ Cardinality(paths) <= Cardinality(FilesOf(g))
    BY <1>3, FS_Subset
  <1>5. Cardinality(paths) \in Nat
    BY <1>4, FS_CardinalityType
  <1>6. Cardinality(paths) = Cardinality(FilesOf(g))
    BY <1>3, <1>4, <1>5, PasteAssumption DEF Complete
  <1>7. QED
    BY <1>3, <1>6, FS_Subset

\* A step that types nothing, and nothing that was typed.
LEMMA TypedUntouched ==
  ASSUME WholeGroups, app' = app, \A p \in Pastes : file'[p] = "typed" <=> file[p] = "typed"
  PROVE  WholeGroups'
  <1>1. \A g \in Groups : {p \in FilesOf(g) : file'[p] = "typed"} = {p \in FilesOf(g) : file[p] = "typed"}
    BY DEF FilesOf
  <1>2. QED
    BY <1>1 DEF WholeGroups

\* The agent's handlers.
LEMMA AgentKeepsGroups ==
  ASSUME TypesInv, OrderInv, DiskInv, GroupsInv, NEW p \in Pastes, Agent(p)
  PROVE  GroupsInv'
  <1> USE DEF TypesInv, tables, env, client
  <1>1. app' = app /\ stream = "up" /\ stream' = "up"
    BY DEF Agent, BeginRefused, BeginOversize, BeginAccepted, OpenOk, OpenFails, Unknown, ChunkOk,
       ChunkFails, EndCancel, EndMismatch, EndOk, Stage, UnlinkOne, Take
  <1>2. GroupOf(p) \in Groups /\ \A q \in Pastes : GroupOf(q) \in Groups
    BY PasteParts
  <1>3. WholeGroups'
    <2>1. file \in [Pastes -> {"none", "disk", "gone", "typed", "kept"}]
      BY DEF TypeOK
    <2>2. CASE OpenOk(p)
      <3>1. file[p] # "typed" /\ file' = [file EXCEPT ![p] = "disk"]
        BY <2>2, OpeningIsNew DEF OpenOk
      <3>2. QED
        BY <1>1, <2>1, <3>1, TypedUntouched DEF GroupsInv
    <2>3. CASE UnlinkOne(p)
      <3>1. file[p] = "disk" /\ file' = [file EXCEPT ![p] = "gone"]
        BY <1>1, <2>3 DEF UnlinkOne, DiskInv, OwnedOnce, Handled
      <3>2. QED
        BY <1>1, <2>1, <3>1, TypedUntouched DEF GroupsInv
    <2>4. CASE ~OpenOk(p) /\ ~UnlinkOne(p)
      <3>1. file' = file
        BY <2>4 DEF Agent, BeginRefused, BeginOversize, BeginAccepted, OpenFails, Unknown, ChunkOk,
           ChunkFails, EndCancel, EndMismatch, EndOk, Stage
      <3>2. QED
        BY <1>1, <3>1, TypedUntouched DEF GroupsInv
    <2>5. QED
      BY <2>2, <2>3, <2>4
  <1>4. ASSUME app, NEW q \in Pastes, Active(q)'
        PROVE  GroupOf(q) \in groups' /\ GroupOf(q) \notin work'.group
    <2>1. CASE BeginRefused(p) \/ Unknown(p) \/ ChunkOk(p) \/ ChunkFails(p) \/ OpenFails(p)
      <3>1. groups' = groups /\ pend' \subseteq pend
        BY <2>1 DEF BeginRefused, Unknown, ChunkOk, ChunkFails, OpenFails
      <3>2. work'.op # "open" /\ work'.group = {}
        BY <2>1 DEF BeginRefused, Unknown, ChunkOk, ChunkFails, OpenFails, Take, Unlink, Idle, Work
      <3>3. Active(q)
        BY <1>4, <3>1, <3>2 DEF Active
      <3>4. QED
        BY <1>1, <1>4, <3>1, <3>2, <3>3 DEF GroupsInv
    <2>2. CASE UnlinkOne(p)
      <3>1. /\ work \in WorkType /\ work.op = "unlink" /\ work' = [work EXCEPT !.files = @ \ {p}]
            /\ UNCHANGED <<groups, pend>>
        BY <2>2 DEF UnlinkOne, Books
      <3>2. work'.op = "unlink" /\ work'.group = work.group
        BY <3>1 DEF WorkType
      <3>3. Active(q)
        BY <1>4, <3>1, <3>2 DEF Active
      <3>4. QED
        BY <1>1, <1>4, <3>1, <3>2, <3>3 DEF GroupsInv
    <2>3. CASE BeginOversize(p)
      <3>1. /\ Take("begin", p) /\ groups' = groups \ {GroupOf(p)} /\ pend' = pend
            /\ work'.op = "unlink" /\ work'.group = {} /\ p \notin pend
        BY <2>3 DEF BeginOversize, DropGroup, Unlink, Work, Refused
      <3>2. Active(q) /\ q # p
        BY <1>4, <3>1 DEF Active
      <3>3. GroupOf(q) # GroupOf(p)
        BY <1>4, <3>1, <3>2, NoneActive
      <3>4. QED
        BY <1>1, <1>4, <3>1, <3>2, <3>3 DEF GroupsInv
    <2>4. CASE BeginAccepted(p)
      <3>1. /\ groups' = groups \cup {GroupOf(p)} /\ pend' = pend
            /\ work'.files = {p} /\ work'.group = {}
        BY <2>4 DEF BeginAccepted, Work
      <3>2. Active(q) \/ q = p
        BY <1>4, <3>1 DEF Active
      <3>3. QED
        BY <1>1, <1>4, <3>1, <3>2 DEF GroupsInv
    <2>5. CASE OpenOk(p)
      <3>1. /\ groups' = groups /\ pend' = pend \cup {p} /\ Active(p)
            /\ work'.op = "idle" /\ work'.group = {}
        BY <2>5, OpeningIsNew DEF OpenOk, Idle, Work, Active
      <3>2. Active(q)
        BY <1>4, <3>1 DEF Active
      <3>3. QED
        BY <1>1, <1>4, <3>1, <3>2 DEF GroupsInv
    <2>6. CASE EndCancel(p) \/ EndMismatch(p) \/ EndOk(p)
      <3>1. /\ p \in pend /\ pend' = pend \ {p} /\ groups' = groups
            /\ work'.op # "open" /\ work'.group = {GroupOf(p)}
        BY <2>6 DEF EndCancel, EndMismatch, EndOk, Take, Unlink, Work
      <3>2. Active(p) /\ Active(q) /\ q # p
        BY <1>4, <3>1 DEF Active
      <3>3. GroupOf(q) # GroupOf(p)
        BY <1>4, <3>2, OneActive
      <3>4. QED
        BY <1>1, <1>4, <3>1, <3>2, <3>3 DEF GroupsInv
    <2>7. CASE Stage(p)
      <3>1. /\ pend' = pend /\ groups \ {GroupOf(p)} \subseteq groups'
            /\ work.group = {GroupOf(p)} /\ work'.op # "open" /\ work'.group = {}
        BY <2>7 DEF Stage, DropGroup, Idle, Work
      <3>2. Active(q)
        BY <1>4, <3>1 DEF Active
      <3>3. QED
        BY <1>1, <1>4, <3>1, <3>2 DEF GroupsInv
    <2>8. QED
      BY <2>1, <2>2, <2>3, <2>4, <2>5, <2>6, <2>7 DEF Agent
  <1>5. /\ EndOk(p) \/ work'.op # "flush"
        /\ Stage(p) \/ work'.op \notin {"inject", "type"}
    <2>1. work \in WorkType
      BY DEF Books
    <2>2. Unknown(p) \/ ChunkOk(p) => work'.op = "idle"
      BY DEF Unknown, ChunkOk, Take, Idle, Work
    <2>3. BeginRefused(p) \/ BeginOversize(p) \/ BeginAccepted(p) => work'.op \in {"unlink", "open"}
      BY DEF BeginRefused, BeginOversize, BeginAccepted, Unlink, Work
    <2>4. OpenOk(p) \/ OpenFails(p) => work'.op \in {"idle", "unlink"}
      BY DEF OpenOk, OpenFails, Unlink, Idle, Work
    <2>5. ChunkFails(p) \/ EndCancel(p) \/ EndMismatch(p) => work'.op = "unlink"
      BY DEF ChunkFails, EndCancel, EndMismatch, Unlink, Work
    <2>6. UnlinkOne(p) => work'.op = "unlink"
      BY <2>1 DEF UnlinkOne, WorkType
    <2>7. EndOk(p) => work'.op = "flush"
      BY DEF EndOk, Work
    <2>8. Stage(p) => work'.op \in {"idle", "inject"}
      BY DEF Stage, Idle, Work
    <2>9. QED
      BY <2>2, <2>3, <2>4, <2>5, <2>6, <2>7, <2>8 DEF Agent
  <1>6. ASSUME app, work'.op = "flush"
        PROVE  work'.group \subseteq groups'
    <2>1. EndOk(p)
      BY <1>5, <1>6
    <2>2. p \in pend /\ groups' = groups /\ work'.group = {GroupOf(p)}
      BY <2>1 DEF EndOk, Work
    <2>3. QED
      BY <1>1, <1>6, <2>2 DEF GroupsInv, Active
  <1>7. ASSUME app, work'.op \in {"inject", "type"}
        PROVE  \E g \in Groups : work'.files = FilesOf(g)
    <2>1. Stage(p) /\ work'.op # "idle"
      BY <1>5, <1>7
    <2>2. work.op = "flush" /\ work.group = {GroupOf(p)} /\ work' # Idle
      BY <2>1 DEF Stage, Work, Idle
    <2>3. GroupOf(p) \in groups
      BY <1>1, <1>7, <2>2 DEF GroupsInv
    <2>4. PICK paths : /\ paths = finished[GroupOf(p)] \cup {p} /\ Complete(paths)
                       /\ work' = Work("inject", paths, None, {})
      BY <2>1, <2>2, <2>3 DEF Stage
    <2>5. paths \subseteq FilesOf(GroupOf(p))
      BY <1>2, <2>4 DEF Books, FilesOf
    <2>6. work'.files = FilesOf(GroupOf(p))
      BY <1>2, <2>4, <2>5, CompleteIsWhole DEF Work
    <2>7. QED
      BY <1>2, <2>6
  <1>8. QED
    BY <1>1, <1>3, <1>4, <1>6, <1>7 DEF GroupsInv

\* The rest of a handler types a whole group, or none of it.
LEMMA WorkKeepsGroups ==
  ASSUME TypesInv, OrderInv, DiskInv, GroupsInv,
         \/ \E g \in Groups : Ungroup(g)
         \/ UnlinkDone \/ InjectCheck \/ TypePaths \/ LeaseMoves \/ StreamEnd
  PROVE  GroupsInv'
  <1> USE DEF TypesInv, tables, env, client
  <1>1. app' = app /\ stream = "up" /\ work \in WorkType
    BY DEF Ungroup, UnlinkDone, InjectCheck, TypePaths, LeaseMoves, StreamEnd, Books
  <1>2. WholeGroups'
    <2>1. CASE UnlinkDone \/ InjectCheck \/ LeaseMoves \/ \E g \in Groups : Ungroup(g)
      BY <1>1, <2>1, TypedUntouched DEF Ungroup, UnlinkDone, InjectCheck, LeaseMoves, GroupsInv
    <2>2. CASE TypePaths
      <3>1. PICK outcome \in {"typed", "kept"} :
               file' = [p \in Pastes |-> IF p \in work.files THEN outcome ELSE file[p]]
        BY <2>2 DEF TypePaths
      <3> SUFFICES ASSUME app, NEW g \in Groups,
                          NEW typed, typed = {p \in FilesOf(g) : file'[p] = "typed"}
                   PROVE  typed = {} \/ typed = FilesOf(g)
        BY <1>1 DEF WholeGroups
      <3>2. PICK h \in Groups : work.files = FilesOf(h)
        BY <2>2 DEF TypePaths, GroupsInv
      <3>3. CASE g = h
        <4>1. \A p \in FilesOf(g) : file'[p] = outcome
          BY <3>1, <3>2, <3>3 DEF FilesOf
        <4>2. outcome # "typed" => typed = {}
          BY <4>1
        <4>3. outcome = "typed" => typed = FilesOf(g)
          BY <4>1
        <4>4. QED
          BY <4>2, <4>3
      <3>4. CASE g # h
        <4>1. \A p \in FilesOf(g) : file'[p] = file[p]
          BY <3>1, <3>2, <3>4 DEF FilesOf
        <4>2. typed = {p \in FilesOf(g) : file[p] = "typed"}
          BY <4>1
        <4>3. QED
          BY <4>2 DEF GroupsInv, WholeGroups
      <3>5. QED
        BY <3>3, <3>4
    <2>3. CASE StreamEnd
      <3>1. \A p \in Pastes : file'[p] = (IF p \in pend \/ p \in finished[GroupOf(p)] THEN "gone"
               ELSE IF work.op = "open" /\ p \in work.files THEN "disk" ELSE file[p])
        BY <2>3 DEF StreamEnd
      <3>2. \A p \in Pastes : p \in pend \/ p \in finished[GroupOf(p)] => file[p] = "disk"
        BY <1>1 DEF DiskInv, OwnedOnce
      <3>3. \A p \in Pastes : work.op = "open" /\ p \in work.files => file[p] # "typed"
        <4> SUFFICES ASSUME NEW p \in Pastes, work.op = "open", p \in work.files
                     PROVE  file[p] # "typed"
          OBVIOUS
        <4>1. PICK q \in Pastes : work = Work("open", {q}, None, {})
          BY DEF Books
        <4>2. q = p
          BY <4>1 DEF Work
        <4>3. QED
          BY <4>1, <4>2, OpeningIsNew
      <3>4. \A p \in Pastes : file'[p] = "typed" <=> file[p] = "typed"
        BY <3>1, <3>2, <3>3
      <3>5. QED
        BY <1>1, <3>4, TypedUntouched DEF GroupsInv
    <2>4. QED
      BY <2>1, <2>2, <2>3
  <1>3. ASSUME app, stream' = "up", NEW q \in Pastes, Active(q)'
        PROVE  GroupOf(q) \in groups' /\ GroupOf(q) \notin work'.group
    <2>1. CASE \E g \in Groups : Ungroup(g)
      <3>1. PICK g \in Groups : Ungroup(g)
        BY <2>1
      <3>2. /\ work.group = {g} /\ groups' = groups \ {g} /\ pend' = pend
            /\ work'.op = "unlink" /\ work'.group = {}
        BY <3>1 DEF Ungroup, DropGroup, Unlink, Work
      <3>3. Active(q)
        BY <1>3, <3>2 DEF Active
      <3>4. QED
        BY <1>1, <1>3, <3>2, <3>3 DEF GroupsInv
    <2>2. CASE UnlinkDone \/ InjectCheck \/ TypePaths \/ LeaseMoves
      <3>1. groups' = groups /\ Active(q)
        BY <1>1, <1>3, <2>2 DEF UnlinkDone, InjectCheck, TypePaths, LeaseMoves, Active,
           Idle, Unlink, Work, WorkType
      <3>2. work'.group \subseteq work.group
        BY <1>1, <2>2 DEF UnlinkDone, InjectCheck, TypePaths, LeaseMoves, Idle, Unlink, Work, WorkType
      <3>3. QED
        BY <1>1, <1>3, <3>1, <3>2 DEF GroupsInv
    <2>3. QED
      BY <1>3, <2>1, <2>2 DEF StreamEnd
  <1>4. ASSUME app, stream' = "up", work'.op = "flush"
        PROVE  work'.group \subseteq groups'
    <2>1. work.op = "flush" /\ work'.group = work.group /\ groups' = groups
      BY <1>1, <1>4 DEF Ungroup, UnlinkDone, InjectCheck, TypePaths, LeaseMoves, StreamEnd,
         Idle, Unlink, Work, WorkType
    <2>2. QED
      BY <1>1, <1>4, <2>1 DEF GroupsInv
  <1>5. ASSUME app, work'.op \in {"inject", "type"}
        PROVE  \E g \in Groups : work'.files = FilesOf(g)
    <2>1. work.op \in {"inject", "type"} /\ work'.files = work.files
      BY <1>1, <1>5 DEF Ungroup, UnlinkDone, InjectCheck, TypePaths, LeaseMoves, StreamEnd,
         Idle, Unlink, Work, WorkType
    <2>2. QED
      BY <1>5, <2>1 DEF GroupsInv
  <1>6. QED
    BY <1>1, <1>2, <1>3, <1>4, <1>5 DEF GroupsInv

-----------------------------------------------------------------------------
(* The theorems.                                                           *)

\* The inductive invariant: the tables, the order of the frames, who owns each
\* file on disk, and the groups of app.js.  Each part needs the ones before it.
PasteInv == TypesInv /\ OrderInv /\ DiskInv /\ GroupsInv

\* A stream begins with empty tables, an empty wire and no file.
LEMMA InitPaste == Init => PasteInv
  <1> SUFFICES ASSUME Init
               PROVE  PasteInv
    OBVIOUS
  <1>1. /\ IsFiniteSet({}) /\ Cardinality({}) = 0 /\ Idle \in WorkType
        /\ <<>> \in Seq([type : {"begin", "chunk", "end", "cancel"}, paste : Pastes])
    BY FS_EmptySet, WorkTypes
  <1>2. work.op = "idle" /\ work.files = {} /\ work.group = {}
    BY DEF Init, Idle, Work
  <1>3. TypeOK
    BY <1>1, <1>2, PasteAssumption DEF Init, TypeOK
  <1>4. Books
    BY <1>1, <1>2 DEF Init, Books
  <1>5. \A p \in Pastes : ~Active(p) /\ ~Settled(p) /\ GroupOf(p) \in Groups
    BY <1>2, PasteParts DEF Init, Active, Settled
  <1>6. \A p \in Pastes : \A i : ~Begun(p, i) /\ ~Ends(p, i)
    BY <1>5 DEF Init, Begun, Ends
  <1>7. OrderInv
    BY <1>5, <1>6 DEF Init, OrderInv, EndsAreLast, SettledIsOver, AppOrder
  <1>8. DiskInv
    BY <1>2, <1>5 DEF Init, DiskInv, OwnedOnce, Handled, CleanupMissesOnlyDropped
  <1>9. GroupsInv
    BY <1>2, <1>5 DEF Init, GroupsInv, WholeGroups, FilesOf
  <1>10. QED
    BY <1>3, <1>4, <1>7, <1>8, <1>9 DEF PasteInv, TypesInv

\* One step per kind of action.
LEMMA NextPaste == PasteInv /\ [Next]_vars => PasteInv'
  <1> SUFFICES ASSUME PasteInv, [Next]_vars
               PROVE  PasteInv'
    OBVIOUS
  <1> USE DEF PasteInv
  <1>1. ASSUME NEW p \in Pastes, Client(p)
        PROVE  PasteInv'
    <2>1. UNCHANGED <<tables, file, work, env, app>>
      BY <1>1 DEF Client, SendBegin, SendChunk, SendEnd, SendCancel, StopSending, RecvReject
    <2>2. DiskInv'
      BY <2>1 DEF DiskInv, OwnedOnce, Handled, CleanupMissesOnlyDropped, tables, env
    <2>3. GroupsInv'
      BY <2>1 DEF GroupsInv, WholeGroups, Active, tables, env
    <2>4. QED
      BY <1>1, <2>2, <2>3, ClientKeepsTypes, ClientKeepsOrder
  <1>2. ASSUME NEW p \in Pastes, Agent(p)
        PROVE  PasteInv'
    <2>1. TypesInv'
      BY <1>2, BeginKeepsTypes, EndKeepsTypes, StageKeepsTypes, WorkKeepsTypes DEF Agent
    <2>2. QED
      BY <1>2, <2>1, AgentKeepsOrder, AgentKeepsDisk, AgentKeepsGroups
  <1>3. ASSUME \/ \E g \in Groups : Ungroup(g)
               \/ UnlinkDone \/ InjectCheck \/ TypePaths \/ LeaseMoves \/ StreamEnd
        PROVE  PasteInv'
    BY <1>3, WorkKeepsTypes, WorkKeepsOrder, WorkKeepsDisk, WorkKeepsGroups
  <1>4. CASE UNCHANGED vars
    <2>1. UNCHANGED <<app, cl, offset, aborted, frames, wire, rejects, pend, written, groups, finished,
                      declared, file, work, control, stream>>
      BY <1>4 DEF vars, client, tables, env
    <2>2. TypesInv'
      BY <2>1 DEF TypesInv, TypeOK, Books
    <2>3. OrderInv'
      <3>1. \A p \in Pastes : Active(p)' = Active(p) /\ Settled(p)' = Settled(p)
        BY <2>1 DEF Active, Settled
      <3>2. QED
        BY <2>1, <3>1, QuietKeepsOrder
    <2>4. DiskInv'
      BY <2>1 DEF DiskInv, OwnedOnce, Handled, CleanupMissesOnlyDropped
    <2>5. GroupsInv'
      BY <2>1 DEF GroupsInv, WholeGroups, Active
    <2>6. QED
      BY <2>2, <2>3, <2>4, <2>5
  <1>5. QED
    BY <1>1, <1>2, <1>3, <1>4 DEF Next

\* The inductive invariant holds in every reachable state.
THEOREM PasteInvariant == Spec => []PasteInv
  BY InitPaste, NextPaste, PTL DEF Spec

\* Whatever the limits and whatever the client sends, the two registries, the
\* total of a group and the bytes of a paste stay within them in every handler.
THEOREM LimitsHold == Spec => []TypeOK
  <1>1. PasteInv => TypeOK
    BY DEF PasteInv, TypesInv
  <1>2. QED
    BY <1>1, PasteInvariant, PTL

\* Counting the owners of a file, as DiskAccounted does.
LEMMA OwnersCounted == OwnedOnce => DiskAccounted
  <1> SUFFICES ASSUME OwnedOnce, stream = "up", NEW p \in Pastes,
                      NEW owners, owners = {o \in 1..3 : \/ o = 1 /\ p \in pend
                                                         \/ o = 2 /\ p \in finished[GroupOf(p)]
                                                         \/ o = 3 /\ p \in work.files /\ work.op # "open"}
               PROVE  Cardinality(owners) = IF file[p] = "disk" THEN 1 ELSE 0
    BY DEF DiskAccounted
  <1>1. \A o : o \in owners <=> \/ o = 1 /\ p \in pend
                                \/ o = 2 /\ p \in finished[GroupOf(p)]
                                \/ o = 3 /\ Handled(p)
    BY DEF Handled
  <1>2. CASE file[p] = "disk"
    <2>1. owners = {1} \/ owners = {2} \/ owners = {3}
      BY <1>1, <1>2 DEF OwnedOnce
    <2>2. QED
      BY <1>2, <2>1, FS_Singleton
  <1>3. CASE file[p] # "disk"
    <2>1. owners = {}
      BY <1>1, <1>3 DEF OwnedOnce
    <2>2. QED
      BY <1>3, <2>1, FS_EmptySet
  <1>4. QED
    BY <1>2, <1>3

\* For any client of the wire protocol: while the stream is up every temp file
\* on disk has exactly one owner among the pending table, its group's finished
\* list and the handler in progress, and nothing else is owned.
THEOREM FilesAreOwned == Spec => []DiskAccounted
  <1>1. PasteInv => DiskAccounted
    BY OwnersCounted DEF PasteInv, DiskInv
  <1>2. QED
    BY <1>1, PasteInvariant, PTL

\* A stream that ends at any await leaves at most the files of the handler it
\* dropped.
THEOREM CleanupIsComplete == Spec => []CleanupMissesOnlyDropped
  <1>1. PasteInv => CleanupMissesOnlyDropped
    BY DEF PasteInv, DiskInv
  <1>2. QED
    BY <1>1, PasteInvariant, PTL

\* However many files, groups and frames in flight, and whatever is cancelled,
\* rejected or fails: the paths of a paste action of app.js are typed all
\* together or not at all.
THEOREM GroupsAreTypedWhole == Spec => []WholeGroups
  <1>1. PasteInv => WholeGroups
    BY DEF PasteInv, GroupsInv
  <1>2. QED
    BY <1>1, PasteInvariant, PTL

=============================================================================
