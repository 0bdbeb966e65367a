--------------------------- MODULE DownloadProofs ---------------------------
(***************************************************************************)
(* Downloads to one tab, proved for any file sizes, any capacity of the    *)
(* broadcast channel and of the lo queues, and any number of downloads,    *)
(* sessions and reconnects.                                                *)
(***************************************************************************)
EXTENDS Download, SequenceTheorems, TLAPS

EventType == [kind : {"begin", "chunk", "end", "cancel"}, dl : Downloads, n : Nat]
EntryType == [dl : Downloads, total : Nat, got : Seq(Downloads \X Nat)]

Types ==
  /\ session \in Nat /\ nextId \in Nat /\ reconnects \in Nat
  /\ shell \in {"up", "exited"} /\ stream \in {"lookup", "up", "drain", "closing", "ended", "down"}
  /\ task \in [Downloads -> {"none", "begin", "read", "ended", "aborted"}]
  /\ size \in [Downloads -> Nat] /\ sent \in [Downloads -> Nat]
  /\ chan \in Seq(EventType) /\ pipe \in Seq(EventType)
  /\ lagging \in BOOLEAN /\ lagged \in BOOLEAN
  /\ entries \in [1..MaxDownloads -> {<<>>} \cup EntryType]
  /\ saved \subseteq [dl : Downloads, got : Seq(Downloads \X Nat)]

\* All events on their way to the tab, the oldest first.
All == pipe \o chan

\* A download gets an id that no download of the session had before it, and
\* has sent no more than its file.
TasksSound ==
  \A d \in Downloads :
    /\ task[d] # "none" => d[1] < session \/ (d[1] = session /\ d[2] < nextId)
    /\ task[d] = "none" => sent[d] = 0
    /\ sent[d] <= size[d]

\* What the events in q say of their downloads.
EventsSound(q) ==
  \A i \in DOMAIN q :
    /\ task[q[i].dl] # "none"
    /\ q[i].kind = "begin" => q[i].n = size[q[i].dl]
    /\ q[i].kind = "chunk" => 1 <= q[i].n /\ q[i].n <= sent[q[i].dl]

ChunkOf(e, d) == e.kind = "chunk" /\ e.dl = d

\* The chunks of a download are on their way in the order of the file.
InOrder(q) ==
  \A i, j \in DOMAIN q :
    i < j /\ q[i].kind = "chunk" /\ ChunkOf(q[j], q[i].dl) => q[i].n < q[j].n

\* Chunks on their way are behind the ones the tab has got.
Ahead(q) ==
  \A id \in Inflight : \A j \in DOMAIN entries[id].got : \A i \in DOMAIN q :
    entries[id].got[j][1] = entries[id].dl /\ ChunkOf(q[i], entries[id].dl)
      => entries[id].got[j][2] < q[i].n

\* An entry of the tab's table: chunks may have been lost between those it has
\* got of its own download, but none is there twice or out of order.
EntrySound(x, id) ==
  /\ x.dl[2] = id /\ task[x.dl] # "none" /\ x.total = size[x.dl]
  /\ \A j \in DOMAIN x.got :
       /\ x.got[j][1][2] = id
       /\ x.got[j][1] = x.dl => 1 <= x.got[j][2] /\ x.got[j][2] <= sent[x.dl]
  /\ OneSession(x) =>
       \A i, j \in DOMAIN x.got : i <= j => x.got[i][2] + (j - i) <= x.got[j][2]

EntriesSound == \A id \in Inflight : EntrySound(entries[id], id)

SavedSound == SavedIntact /\ \A f \in saved : task[f.dl] # "none"

SoundInv ==
  /\ Types /\ TasksSound
  /\ EventsSound(All) /\ InOrder(All) /\ Ahead(All)
  /\ EntriesSound /\ SavedSound

-----------------------------------------------------------------------------
(* Sequences of events.                                                    *)

\* q is what is left of r when some of its events are lost.
Within(q, r) ==
  \E f \in [DOMAIN q -> DOMAIN r] :
    /\ \A i \in DOMAIN q : q[i] = r[f[i]]
    /\ \A i, j \in DOMAIN q : i < j => f[i] < f[j]

\* Losing nothing.
LEMMA WithinSelf == ASSUME NEW q PROVE Within(q, q)
  <1>1. [i \in DOMAIN q |-> i] \in [DOMAIN q -> DOMAIN q]
    OBVIOUS
  <1>2. QED
    BY <1>1 DEF Within

\* Losing the first event.
LEMMA WithinTail ==
  ASSUME NEW S, NEW q \in Seq(S), q # <<>>
  PROVE  /\ Within(Tail(q), q) /\ Head(q) = q[1] /\ 1 \in DOMAIN q /\ Tail(q) \in Seq(S)
         /\ \A i \in DOMAIN Tail(q) : i \in Nat /\ i + 1 \in DOMAIN q /\ Tail(q)[i] = q[i + 1]
         /\ \A i \in DOMAIN q : i # 1 => i - 1 \in DOMAIN Tail(q) /\ Tail(q)[i - 1] = q[i]
  <1>1. PICK n \in Nat : n = Len(q)
    OBVIOUS
  <1>2. n >= 1 /\ DOMAIN q = 1..n /\ Tail(q) \in Seq(S) /\ Head(q) = q[1]
    BY <1>1
  <1>3. Len(Tail(q)) = n - 1 /\ \A i \in 1..(n - 1) : Tail(q)[i] = q[i + 1]
    BY <1>1, <1>2
  <1>4. DOMAIN Tail(q) = 1..(n - 1)
    BY <1>2, <1>3
  <1> DEFINE f == [i \in 1..(n - 1) |-> i + 1]
  <1>5. /\ f \in [1..(n - 1) -> 1..n] /\ \A i \in 1..(n - 1) : f[i] = i + 1
        /\ \A i, j \in 1..(n - 1) : i < j => f[i] < f[j]
    BY <1>2
  <1> HIDE DEF f
  <1>6. Within(Tail(q), q)
    BY <1>2, <1>3, <1>4, <1>5 DEF Within
  <1>7. QED
    BY <1>2, <1>3, <1>4, <1>6

\* The events before the channel's, without the channel.
LEMMA WithinPrefix ==
  ASSUME NEW S, NEW q \in Seq(S), NEW r \in Seq(S)
  PROVE  Within(q, q \o r) /\ q \o r \in Seq(S)
  <1>1. PICK m \in Nat, n \in Nat : m = Len(q) /\ n = Len(r)
    OBVIOUS
  <1>2. q \o r \in Seq(S) /\ Len(q \o r) = m + n
    BY <1>1, ConcatProperties
  <1>3. DOMAIN q = 1..m /\ DOMAIN (q \o r) = 1..(m + n)
    BY <1>1, <1>2, LenProperties
  <1>4. \A i \in 1..m : (q \o r)[i] = q[i]
    BY <1>1, ConcatProperties
  <1> DEFINE f == [i \in 1..m |-> i]
  <1>5. /\ f \in [1..m -> 1..(m + n)] /\ \A i \in 1..m : f[i] = i
        /\ \A i, j \in 1..m : i < j => f[i] < f[j]
    OBVIOUS
  <1> HIDE DEF f
  <1>6. QED
    BY <1>2, <1>3, <1>4, <1>5 DEF Within

\* The receiver loses its oldest event.
LEMMA WithinLagged ==
  ASSUME NEW S, NEW q \in Seq(S), NEW r \in Seq(S), r # <<>>
  PROVE  Within(q \o Tail(r), q \o r)
  <1>1. PICK m \in Nat, n \in Nat : m = Len(q) /\ n = Len(r)
    OBVIOUS
  <1>2. n >= 1 /\ Tail(r) \in Seq(S) /\ Len(Tail(r)) = n - 1
    BY <1>1
  <1>3. \A i \in 1..(n - 1) : Tail(r)[i] = r[i + 1]
    BY <1>1, <1>2
  <1>4. q \o r \in Seq(S) /\ Len(q \o r) = m + n
    BY <1>1, ConcatProperties
  <1>5. q \o Tail(r) \in Seq(S) /\ Len(q \o Tail(r)) = m + (n - 1)
    BY <1>1, <1>2, ConcatProperties
  <1>6. DOMAIN (q \o r) = 1..(m + n) /\ DOMAIN (q \o Tail(r)) = 1..(m + (n - 1))
    BY <1>4, <1>5, LenProperties
  <1>7. \A i \in 1..(m + n) : (q \o r)[i] = IF i <= m THEN q[i] ELSE r[i - m]
    BY <1>1, ConcatProperties
  <1>8. \A i \in 1..(m + (n - 1)) : (q \o Tail(r))[i] = IF i <= m THEN q[i] ELSE Tail(r)[i - m]
    BY <1>1, <1>2, ConcatProperties
  <1> DEFINE f == [i \in 1..(m + (n - 1)) |-> IF i <= m THEN i ELSE i + 1]
  <1>9. f \in [1..(m + (n - 1)) -> 1..(m + n)]
    BY <1>2
  <1>10. \A i, j \in 1..(m + (n - 1)) : i < j => f[i] < f[j]
    BY <1>2
  <1>11. ASSUME NEW i \in 1..(m + (n - 1))
         PROVE  (q \o Tail(r))[i] = (q \o r)[f[i]]
    <2>1. i \in Nat /\ i <= m + (n - 1) /\ i >= 1
      BY <1>2
    <2>2. CASE i <= m
      <3>1. f[i] = i
        BY <2>2
      <3>2. i \in 1..(m + n)
        BY <1>2, <2>1
      <3>3. QED
        BY <1>7, <1>8, <2>2, <3>1, <3>2
    <2>3. CASE ~(i <= m)
      <3>1. f[i] = i + 1 /\ i + 1 \in 1..(m + n) /\ ~(i + 1 <= m) /\ i - m \in 1..(n - 1)
        BY <1>2, <2>1, <2>3
      <3>2. (i + 1) - m = (i - m) + 1
        BY <2>1
      <3>3. (q \o r)[i + 1] = r[(i + 1) - m]
        BY <1>7, <3>1
      <3>4. (q \o Tail(r))[i] = Tail(r)[i - m]
        BY <1>8, <2>3
      <3>5. QED
        BY <1>3, <3>1, <3>2, <3>3, <3>4
    <2>4. QED
      BY <2>2, <2>3
  <1>12. QED
    BY <1>6, <1>9, <1>10, <1>11 DEF Within

\* An event moves from the channel to the pipe.
LEMMA MoveHead ==
  ASSUME NEW S, NEW q \in Seq(S), NEW r \in Seq(S), r # <<>>
  PROVE  Append(q, Head(r)) \o Tail(r) = q \o r
  <1>1. PICK n \in Nat : n = Len(r) /\ n >= 1
    BY EmptySeq
  <1>2. PICK h \in S : h = Head(r) /\ h = r[1]
    BY <1>1, HeadTailProperties
  <1>3. 1 \in 1..n /\ n \in 1..n /\ 1 + 1 = 2
    BY <1>1
  <1>4. SubSeq(r, 1, n) = <<r[1]>> \o SubSeq(r, 2, n)
    BY <1>1, <1>3, SubSeqRecursiveFirst
  <1>5. r = <<h>> \o Tail(r)
    BY <1>1, <1>2, <1>4, SubSeqFull, TailIsSubSeq
  <1>6. <<h>> \in Seq(S) /\ Tail(r) \in Seq(S)
    BY HeadTailProperties
  <1>7. Append(q, h) = q \o <<h>>
    BY AppendIsConcat
  <1>8. (q \o <<h>>) \o Tail(r) = q \o (<<h>> \o Tail(r))
    BY <1>6, ConcatAssociative
  <1>9. QED
    BY <1>2, <1>5, <1>7, <1>8

\* The tab takes the first event.
LEMMA TakeHead ==
  ASSUME NEW S, NEW q \in Seq(S), NEW r \in Seq(S), q # <<>>
  PROVE  Tail(q) \o r = Tail(q \o r) /\ Head(q) = (q \o r)[1] /\ q \o r \in Seq(S) /\ q \o r # <<>>
  <1>1. PICK m \in Nat, n \in Nat : m = Len(q) /\ n = Len(r)
    OBVIOUS
  <1>2. m >= 1 /\ Tail(q) \in Seq(S) /\ Len(Tail(q)) = m - 1 /\ Head(q) = q[1]
    BY <1>1
  <1>3. \A i \in 1..(m - 1) : Tail(q)[i] = q[i + 1]
    BY <1>1, <1>2
  <1>4. /\ q \o r \in Seq(S) /\ Len(q \o r) = m + n
        /\ \A i \in 1..(m + n) : (q \o r)[i] = IF i <= m THEN q[i] ELSE r[i - m]
    BY <1>1, ConcatProperties
  <1>5. PICK a \in Seq(S) : a = q \o r
    BY <1>4
  <1>6. Len(a) = m + n /\ a # <<>>
    BY <1>2, <1>4, <1>5
  <1>7. Tail(a) \in Seq(S) /\ Len(Tail(a)) = (m + n) - 1
    BY <1>6
  <1>8. \A i \in 1..((m + n) - 1) : Tail(a)[i] = a[i + 1]
    BY <1>6, <1>7
  <1>9. /\ Tail(q) \o r \in Seq(S) /\ Len(Tail(q) \o r) = (m - 1) + n
        /\ \A i \in 1..((m - 1) + n) : (Tail(q) \o r)[i] = IF i <= m - 1 THEN Tail(q)[i] ELSE r[i - (m - 1)]
    BY <1>1, <1>2, ConcatProperties
  <1>10. (m - 1) + n = (m + n) - 1
    OBVIOUS
  <1>11. ASSUME NEW i \in 1..((m + n) - 1)
         PROVE  (Tail(q) \o r)[i] = Tail(a)[i]
    <2>1. i \in Nat /\ 1 <= i /\ i + 1 <= m + n /\ i + 1 \in 1..(m + n)
      BY <1>2
    <2>2. Tail(a)[i] = (q \o r)[i + 1]
      BY <1>5, <1>8
    <2>3. CASE i <= m - 1
      <3>1. i \in 1..(m - 1) /\ i + 1 <= m
        BY <1>2, <2>1, <2>3
      <3>2. (Tail(q) \o r)[i] = Tail(q)[i]
        BY <1>9, <1>10, <2>3
      <3>3. (q \o r)[i + 1] = q[i + 1]
        BY <1>4, <2>1, <3>1
      <3>4. QED
        BY <1>3, <2>2, <3>1, <3>2, <3>3
    <2>4. CASE ~(i <= m - 1)
      <3>1. ~(i + 1 <= m) /\ (i + 1) - m = i - (m - 1)
        BY <1>2, <2>1, <2>4
      <3>2. (Tail(q) \o r)[i] = r[i - (m - 1)]
        BY <1>9, <1>10, <2>4
      <3>3. (q \o r)[i + 1] = r[(i + 1) - m]
        BY <1>4, <2>1, <3>1
      <3>4. QED
        BY <2>2, <3>1, <3>2, <3>3
    <2>5. QED
      BY <2>3, <2>4
  <1>12. Len(Tail(q) \o r) = Len(Tail(a)) /\ \A i \in 1..Len(Tail(q) \o r) : (Tail(q) \o r)[i] = Tail(a)[i]
    BY <1>7, <1>9, <1>10, <1>11
  <1>13. Tail(q) \o r = Tail(a)
    BY <1>7, <1>9, <1>12, SeqEqual
  <1>14. 1 \in 1..(m + n) /\ 1 <= m
    BY <1>2
  <1>15. (q \o r)[1] = q[1]
    BY <1>4, <1>14
  <1>16. QED
    BY <1>2, <1>4, <1>5, <1>6, <1>13, <1>15

\* An event is appended to the channel.
LEMMA AppendLast ==
  ASSUME NEW S, NEW q \in Seq(S), NEW r \in Seq(S), NEW e \in S
  PROVE  q \o Append(r, e) = Append(q \o r, e)
  <1>1. Append(r, e) = r \o <<e>> /\ <<e>> \in Seq(S)
    BY AppendIsConcat
  <1>2. q \o r \in Seq(S)
    BY ConcatProperties
  <1>3. Append(q \o r, e) = (q \o r) \o <<e>>
    BY <1>2, AppendIsConcat
  <1>4. (q \o r) \o <<e>> = q \o (r \o <<e>>)
    BY <1>1, ConcatAssociative
  <1>5. QED
    BY <1>1, <1>3, <1>4

\* The positions of a sequence and its end.
LEMMA Positions ==
  ASSUME NEW S, NEW q \in Seq(S), NEW e \in S
  PROVE  /\ Append(q, e) \in Seq(S)
         /\ \A i \in DOMAIN q : i \in DOMAIN Append(q, e) /\ Append(q, e)[i] = q[i]
         /\ Len(q) + 1 \in DOMAIN Append(q, e) /\ Append(q, e)[Len(q) + 1] = e
         /\ \A i \in DOMAIN Append(q, e) : i \in DOMAIN q \/ i = Len(q) + 1
         /\ \A i \in DOMAIN q : i \in Nat /\ i < Len(q) + 1 /\ q[i] \in S
         /\ Len(q) \in Nat /\ DOMAIN q = 1..Len(q)
  <1>1. PICK n \in Nat : n = Len(q)
    OBVIOUS
  <1>2. DOMAIN q = 1..n /\ \A i \in 1..n : q[i] \in S
    BY <1>1, LenProperties
  <1>3. /\ Append(q, e) \in Seq(S) /\ Len(Append(q, e)) = n + 1
        /\ (\A i \in 1..n : Append(q, e)[i] = q[i]) /\ Append(q, e)[n + 1] = e
    BY <1>1, AppendProperties
  <1>4. DOMAIN Append(q, e) = 1..(n + 1)
    BY <1>3, LenProperties
  <1>5. QED
    BY <1>1, <1>2, <1>3, <1>4

-----------------------------------------------------------------------------
(* Types, and what a step does to the events on their way.                 *)

\* An event has the fields it is made of.
LEMMA EventTyped ==
  ASSUME NEW k \in {"begin", "chunk", "end", "cancel"}, NEW d \in Downloads, NEW n \in Nat
  PROVE  /\ Event(k, d, n) \in EventType
         /\ Event(k, d, n).kind = k /\ Event(k, d, n).dl = d /\ Event(k, d, n).n = n
  BY DEF Event, EventType

\* The events on their way are events.
LEMMA AllTyped == Types => All \in Seq(EventType)
  BY ConcatProperties DEF Types, All

\* A post loses no event but the oldest ones of the channel, and those only
\* when the receiver lags.
LEMMA PostShape ==
  ASSUME Types, NEW e \in EventType, Post(e), pipe' = pipe
  PROVE  /\ chan' \in Seq(EventType) /\ lagging' \in BOOLEAN /\ lagged' \in BOOLEAN
         /\ Within(All', Append(All, e))
         /\ ~lagged' => ~lagged /\ All' = Append(All, e)
         /\ lagging' => lagging \/ lagged'
         /\ lagged => lagged'
  <1>1. chan \in Seq(EventType) /\ pipe \in Seq(EventType) /\ lagging \in BOOLEAN /\ lagged \in BOOLEAN
    BY DEF Types
  <1>2. PICK q : q = Append(chan, e)
    OBVIOUS
  <1>3. q \in Seq(EventType) /\ q # <<>>
    BY <1>1, <1>2, AppendProperties
  <1>4. Tail(q) \in Seq(EventType)
    BY <1>3, HeadTailProperties
  <1>5. pipe \o q = Append(All, e)
    BY <1>1, <1>2, AppendLast DEF All
  <1>6. All' = pipe \o chan'
    BY DEF All
  <1>7. CASE Len(q) > ChanCap
    <2>1. chan' = Tail(q) /\ lagging' = TRUE /\ lagged' = TRUE
      BY <1>2, <1>7 DEF Post
    <2>2. Within(pipe \o Tail(q), pipe \o q)
      BY <1>1, <1>3, WithinLagged
    <2>3. QED
      BY <1>4, <1>5, <1>6, <2>1, <2>2
  <1>8. CASE ~(Len(q) > ChanCap)
    <2>1. chan' = q /\ lagging' = lagging /\ lagged' = lagged
      BY <1>1, <1>2, <1>8 DEF Post
    <2>2. Within(pipe \o q, pipe \o q)
      BY WithinSelf
    <2>3. QED
      BY <1>1, <1>3, <1>5, <1>6, <2>1, <2>2
  <1>9. QED
    BY <1>7, <1>8

\* The outbound loop moves events on and changes nothing else of them.
LEMMA ForwardShape ==
  ASSUME Types, Forward
  PROVE  All' = All /\ chan' \in Seq(EventType) /\ pipe' \in Seq(EventType)
  <1>1. chan \in Seq(EventType) /\ pipe \in Seq(EventType) /\ chan # <<>>
    BY DEF Types, Forward
  <1>2. pipe' = Append(pipe, Head(chan)) /\ chan' = Tail(chan)
    BY DEF Forward
  <1>3. Head(chan) \in EventType /\ Tail(chan) \in Seq(EventType)
    BY <1>1, HeadTailProperties
  <1>4. Append(pipe, Head(chan)) \in Seq(EventType)
    BY <1>1, <1>3, AppendProperties
  <1>5. Append(pipe, Head(chan)) \o Tail(chan) = pipe \o chan
    BY <1>1, MoveHead
  <1>6. QED
    BY <1>2, <1>3, <1>4, <1>5 DEF All

\* The tab takes the first event of all.
LEMMA ReceiveShape ==
  ASSUME Types, pipe # <<>>, pipe' = Tail(pipe), chan' = chan
  PROVE  /\ All' = Tail(All) /\ Head(pipe) = All[1] /\ All # <<>>
         /\ pipe' \in Seq(EventType) /\ Head(pipe) \in EventType
  <1>1. chan \in Seq(EventType) /\ pipe \in Seq(EventType)
    BY DEF Types
  <1>2. Tail(pipe) \o chan = Tail(pipe \o chan) /\ Head(pipe) = (pipe \o chan)[1] /\ pipe \o chan # <<>>
    BY <1>1, TakeHead
  <1>3. Tail(pipe) \in Seq(EventType) /\ Head(pipe) \in EventType
    BY <1>1, HeadTailProperties
  <1>4. QED
    BY <1>2, <1>3 DEF All

\* Posting keeps the types.
LEMMA PostTypes ==
  ASSUME Types, NEW d \in Downloads, PostBegin(d) \/ PostChunk(d) \/ PostEnd(d) \/ PostCancel(d)
  PROVE  Types'
  <1>1. /\ size[d] \in Nat /\ sent[d] \in Nat /\ sent[d] + 1 \in Nat
    BY DEF Types
  <1>2. /\ Event("begin", d, size[d]) \in EventType /\ Event("chunk", d, sent[d] + 1) \in EventType
        /\ Event("end", d, 0) \in EventType /\ Event("cancel", d, 0) \in EventType
    BY <1>1, EventTyped
  <1>3. chan' \in Seq(EventType) /\ lagging' \in BOOLEAN /\ lagged' \in BOOLEAN
    BY <1>2, PostShape DEF PostBegin, PostChunk, PostEnd, PostCancel
  <1>4. /\ session' = session /\ nextId' = nextId /\ reconnects' = reconnects /\ shell' = shell
        /\ stream' = stream /\ size' = size /\ pipe' = pipe /\ entries' = entries /\ saved' = saved
    BY DEF PostBegin, PostChunk, PostEnd, PostCancel, tab
  <1>5. task' \in [Downloads -> {"none", "begin", "read", "ended", "aborted"}]
    BY DEF Types, PostBegin, PostChunk, PostEnd, PostCancel
  <1>6. sent' \in [Downloads -> Nat]
    <2>1. sent \in [Downloads -> Nat]
      BY DEF Types
    <2>2. sent' = sent \/ sent' = [sent EXCEPT ![d] = sent[d] + 1]
      BY DEF PostBegin, PostChunk, PostEnd, PostCancel
    <2>3. QED
      BY <1>1, <2>1, <2>2
  <1>7. QED
    BY <1>3, <1>4, <1>5, <1>6 DEF Types

\* So does what the tab does with a frame.
LEMMA ReceiveTypes == Types /\ TabReceives => Types'
  <1> SUFFICES ASSUME Types, TabReceives PROVE Types'
    OBVIOUS
  <1>1. PICK e : e = Head(pipe)
    OBVIOUS
  <1>2. e \in EventType /\ pipe' \in Seq(EventType)
    BY <1>1, ReceiveShape DEF TabReceives, feed
  <1>3. PICK id : id = e.dl[2]
    OBVIOUS
  <1>4. id \in 1..MaxDownloads /\ e.dl \in Downloads /\ e.n \in Nat
    BY <1>2, <1>3 DEF EventType, Downloads
  <1>5. TabBegin(e, id) \/ TabChunk(e, id) \/ TabEnd(e, id) \/ TabCancel(e, id)
    BY <1>1, <1>3 DEF TabReceives
  <1>6. entries \in [1..MaxDownloads -> {<<>>} \cup EntryType] /\ DOMAIN entries = 1..MaxDownloads
    BY DEF Types
  <1>7. id \in Inflight => entries[id] \in EntryType
    BY <1>6 DEF Inflight
  <1>8. entries' \in [1..MaxDownloads -> {<<>>} \cup EntryType]
    <2>1. CASE TabBegin(e, id)
      <3>1. Entry(e.dl, e.n) \in EntryType
        BY <1>4, EmptySeq DEF Entry, EntryType
      <3>2. QED
        BY <1>4, <1>6, <2>1, <3>1 DEF TabBegin
    <2>2. CASE TabChunk(e, id)
      <3>1. CASE id \in Inflight /\ Len(entries[id].got) < entries[id].total
        <4>1. entries' = [entries EXCEPT ![id].got = Append(@, <<e.dl, e.n>>)]
          BY <2>2, <3>1 DEF TabChunk
        <4>2. entries[id].got \in Seq(Downloads \X Nat) /\ <<e.dl, e.n>> \in Downloads \X Nat
          BY <1>4, <1>7, <3>1 DEF EntryType
        <4>3. Append(entries[id].got, <<e.dl, e.n>>) \in Seq(Downloads \X Nat)
          BY <4>2, AppendProperties
        <4>4. [entries[id] EXCEPT !.got = Append(entries[id].got, <<e.dl, e.n>>)] \in EntryType
          BY <1>7, <3>1, <4>3 DEF EntryType
        <4>5. QED
          BY <1>4, <1>6, <4>1, <4>4
      <3>2. CASE ~(id \in Inflight /\ Len(entries[id].got) < entries[id].total)
        BY <1>4, <1>6, <2>2, <3>2 DEF TabChunk
      <3>3. QED
        BY <3>1, <3>2
    <2>3. CASE TabEnd(e, id) \/ TabCancel(e, id)
      BY <1>4, <1>6, <2>3 DEF TabEnd, TabCancel
    <2>4. QED
      BY <1>5, <2>1, <2>2, <2>3
  <1>9. saved' \subseteq [dl : Downloads, got : Seq(Downloads \X Nat)]
    <2>1. saved \subseteq [dl : Downloads, got : Seq(Downloads \X Nat)]
      BY DEF Types
    <2>2. id \in Inflight =>
            [dl |-> entries[id].dl, got |-> entries[id].got] \in [dl : Downloads, got : Seq(Downloads \X Nat)]
      BY <1>7 DEF EntryType
    <2>3. saved' = saved \/ (id \in Inflight /\ saved' = saved \cup {[dl |-> entries[id].dl, got |-> entries[id].got]})
      BY <1>5 DEF TabBegin, TabChunk, TabEnd, TabCancel
    <2>4. QED
      BY <2>1, <2>2, <2>3
  <1>10. UNCHANGED <<agent, feed, reconnects>>
    BY DEF TabReceives
  <1>11. QED
    BY <1>2, <1>8, <1>9, <1>10 DEF Types, agent, feed

\* And so does every step.
LEMMA NextTypes == Types /\ [Next]_vars => Types'
  <1> SUFFICES ASSUME Types, [Next]_vars PROVE Types'
    OBVIOUS
  <1> USE DEF agent, feed, tab
  <1>1. ASSUME NEW n \in Sizes, TermDl(n) PROVE Types'
    <2>1. n \in Nat
      BY <1>1, DownloadAssumption
    <2>2. PICK d : d = <<session, nextId>>
      OBVIOUS
    <2>3. task' = [task EXCEPT ![d] = "begin"] /\ size' = [size EXCEPT ![d] = n] /\ nextId' = nextId + 1
      BY <1>1, <2>2 DEF TermDl
    <2>4. /\ task' \in [Downloads -> {"none", "begin", "read", "ended", "aborted"}]
          /\ size' \in [Downloads -> Nat] /\ nextId' \in Nat
      <3>1. task \in [Downloads -> {"none", "begin", "read", "ended", "aborted"}]
        BY DEF Types
      <3>2. task' \in [Downloads -> {"none", "begin", "read", "ended", "aborted"}]
        BY <2>3, <3>1
      <3>3. size \in [Downloads -> Nat] /\ nextId \in Nat
        BY DEF Types
      <3>4. size' \in [Downloads -> Nat]
        BY <2>1, <2>3, <3>3
      <3>5. QED
        BY <2>3, <3>2, <3>3, <3>4
    <2>5. /\ session' = session /\ reconnects' = reconnects /\ shell' = shell /\ stream' = stream
          /\ sent' = sent /\ chan' = chan /\ pipe' = pipe /\ lagging' = lagging /\ lagged' = lagged
          /\ entries' = entries /\ saved' = saved
      BY <1>1 DEF TermDl
    <2>6. QED
      BY <2>4, <2>5 DEF Types
  <1>2. ASSUME NEW d \in Downloads, Unheard(d) PROVE Types'
    BY <1>2 DEF Unheard, Types
  <1>3. ASSUME NEW d \in Downloads, PostBegin(d) \/ PostChunk(d) \/ PostEnd(d) \/ PostCancel(d)
        PROVE  Types'
    BY <1>3, PostTypes
  <1>4. CASE Forward
    <2>1. chan' \in Seq(EventType) /\ pipe' \in Seq(EventType)
      BY <1>4, ForwardShape
    <2>2. QED
      BY <1>4, <2>1 DEF Forward, Types
  <1>5. CASE SkipLagged \/ StartDrain \/ FinishDrain \/ ShellExits \/ Subscribe
    BY <1>5 DEF SkipLagged, StartDrain, FinishDrain, LeaveFlush, ShellExits, Subscribe, Types
  <1>6. CASE SendClose \/ Disconnect
    BY <1>6, EmptySeq DEF SendClose, Disconnect, Types
  <1>7. CASE Reconnect
    BY <1>7 DEF Reconnect, Types
  <1>8. CASE TabReceives
    BY <1>8, ReceiveTypes
  <1>9. CASE UNCHANGED vars
    BY <1>9 DEF vars, Types
  <1>10. QED
    BY <1>1, <1>2, <1>3, <1>4, <1>5, <1>6, <1>7, <1>8, <1>9 DEF Next

-----------------------------------------------------------------------------
(* What the tab saves.                                                     *)

\* Downloads only start and send more: nothing said of one becomes false.
Grows ==
  \A d \in Downloads : task[d] # "none" =>
    task'[d] # "none" /\ size'[d] = size[d] /\ sent[d] <= sent'[d]

\* The events on their way stay right when downloads only grow ...
LEMMA GrowsEvents ==
  ASSUME Types, Types', Grows, NEW q \in Seq(EventType), EventsSound(q)
  PROVE  EventsSound(q)'
  <1>1. SUFFICES ASSUME NEW i \in DOMAIN q
                 PROVE  /\ task'[q[i].dl] # "none"
                        /\ q[i].kind = "begin" => q[i].n = size'[q[i].dl]
                        /\ q[i].kind = "chunk" => 1 <= q[i].n /\ q[i].n <= sent'[q[i].dl]
    BY DEF EventsSound
  <1>2. q[i] \in EventType
    BY LenProperties
  <1>3. PICK d \in Downloads, n \in Nat : d = q[i].dl /\ n = q[i].n
    BY <1>2 DEF EventType
  <1>4. /\ task[d] # "none"
        /\ q[i].kind = "begin" => n = size[d]
        /\ q[i].kind = "chunk" => 1 <= n /\ n <= sent[d]
    BY <1>3 DEF EventsSound
  <1>5. task'[d] # "none" /\ size'[d] = size[d] /\ sent[d] <= sent'[d]
    BY <1>4 DEF Grows
  <1>6. PICK a \in Nat, b \in Nat : a = sent[d] /\ b = sent'[d]
    BY DEF Types
  <1>7. n <= a /\ a <= b => n <= b
    OBVIOUS
  <1>8. QED
    BY <1>3, <1>4, <1>5, <1>6, <1>7

\* ... so does an entry of the tab ...
LEMMA GrowsEntry ==
  ASSUME Types, Types', Grows, NEW x \in EntryType, NEW id, EntrySound(x, id)
  PROVE  EntrySound(x, id)'
  <1>1. PICK d \in Downloads : d = x.dl
    BY DEF EntryType
  <1>2. task[d] # "none"
    BY <1>1 DEF EntrySound
  <1>3. task'[d] # "none" /\ size'[d] = size[d] /\ sent[d] <= sent'[d]
    BY <1>2 DEF Grows
  <1>4. PICK a \in Nat, b \in Nat : a = sent[d] /\ b = sent'[d]
    BY DEF Types
  <1>5. ASSUME NEW j \in DOMAIN x.got
        PROVE  /\ x.got[j][1][2] = id
               /\ x.got[j][1] = d => 1 <= x.got[j][2] /\ x.got[j][2] <= b
    <2>1. x.got \in Seq(Downloads \X Nat)
      BY DEF EntryType
    <2>2. x.got[j] \in Downloads \X Nat
      BY <2>1, LenProperties
    <2>3. PICK n \in Nat : n = x.got[j][2]
      BY <2>2
    <2>4. x.got[j][1][2] = id /\ (x.got[j][1] = d => 1 <= n /\ n <= a)
      BY <1>1, <1>4, <2>3 DEF EntrySound
    <2>5. n <= a /\ a <= b => n <= b
      OBVIOUS
    <2>6. QED
      BY <1>3, <1>4, <2>3, <2>4, <2>5
  <1>6. x.dl[2] = id /\ x.total = size[d]
    BY <1>1 DEF EntrySound
  <1>7. OneSession(x) =>
          \A i, j \in DOMAIN x.got : i <= j => x.got[i][2] + (j - i) <= x.got[j][2]
    BY DEF EntrySound
  <1>8. QED
    BY <1>1, <1>3, <1>4, <1>5, <1>6, <1>7 DEF EntrySound

\* ... so do the saved files ...
LEMMA GrowsSaved ==
  ASSUME Types, Types', Grows, SavedSound, saved' = saved
  PROVE  SavedSound'
  <1>1. \A f \in saved : f.dl \in Downloads /\ task[f.dl] # "none"
    BY DEF Types, SavedSound
  <1>2. \A f \in saved : task'[f.dl] # "none" /\ size'[f.dl] = size[f.dl]
    BY <1>1 DEF Grows
  <1>3. QED
    BY <1>2 DEF SavedSound, SavedIntact

\* ... and so does the tab's table.
LEMMA GrowsEntries ==
  ASSUME Types, Types', Grows, EntriesSound, entries' = entries
  PROVE  EntriesSound'
  <1>1. Inflight' = Inflight
    BY DEF Inflight
  <1>2. SUFFICES ASSUME NEW id \in Inflight PROVE EntrySound(entries[id], id)'
    BY <1>1 DEF EntriesSound
  <1>3. PICK x : x = entries[id]
    OBVIOUS
  <1>4. x \in EntryType /\ x = entries'[id]
    BY <1>3 DEF Types, Inflight
  <1>5. EntrySound(x, id)
    BY <1>3 DEF EntriesSound
  <1>6. EntrySound(x, id)'
    BY <1>4, <1>5, GrowsEntry
  <1>7. QED
    BY <1>4, <1>6 DEF EntrySound

\* Losing events leaves the rest as it was.
LEMMA LossKeeps ==
  ASSUME NEW q, NEW r, Within(q, r), DOMAIN q \subseteq Nat
  PROVE  /\ EventsSound(r)' => EventsSound(q)'
         /\ InOrder(r) => InOrder(q)
         /\ Ahead(r)' => Ahead(q)'
  <1>1. PICK f \in [DOMAIN q -> DOMAIN r] :
          /\ \A i \in DOMAIN q : q[i] = r[f[i]]
          /\ \A i, j \in DOMAIN q : i < j => f[i] < f[j]
    BY DEF Within
  <1>2. ASSUME EventsSound(r)' PROVE EventsSound(q)'
    BY <1>1, <1>2 DEF EventsSound
  <1>3. ASSUME InOrder(r) PROVE InOrder(q)
    BY <1>1, <1>3 DEF InOrder, ChunkOf
  <1>4. ASSUME Ahead(r)' PROVE Ahead(q)'
    BY <1>1, <1>4 DEF Ahead, ChunkOf
  <1>5. QED
    BY <1>2, <1>3, <1>4

\* A step that starts or ends downloads, or loses events.
LEMMA QuietKeepsSound ==
  ASSUME SoundInv, Types', TasksSound', Grows, UNCHANGED tab, Within(All', All)
  PROVE  SoundInv'
  <1>1. Types /\ EventsSound(All) /\ InOrder(All) /\ Ahead(All) /\ EntriesSound /\ SavedSound
    BY DEF SoundInv
  <1>2. PICK a, b : a = All /\ b = All'
    OBVIOUS
  <1>3. a \in Seq(EventType)
    BY <1>1, <1>2, AllTyped
  <1>4. b \in Seq(EventType)
    BY <1>2, ConcatProperties DEF Types, All
  <1>5. EventsSound(a)'
    BY <1>1, <1>2, <1>3, GrowsEvents
  <1>6. Inflight' = Inflight /\ entries' = entries
    BY DEF tab, Inflight
  <1>7. Ahead(a)'
    BY <1>1, <1>2, <1>6 DEF Ahead
  <1>8. InOrder(a)
    BY <1>1, <1>2
  <1>9. Within(b, a) /\ DOMAIN b \subseteq Nat
    BY <1>2, <1>4, LenProperties
  <1>10. EventsSound(b)' /\ InOrder(b) /\ Ahead(b)'
    BY <1>5, <1>7, <1>8, <1>9, LossKeeps
  <1>11. EventsSound(All)' /\ InOrder(All)' /\ Ahead(All)'
    BY <1>2, <1>10 DEF EventsSound, InOrder, Ahead
  <1>12. EntriesSound' /\ SavedSound'
    BY <1>1, GrowsEntries, GrowsSaved DEF tab
  <1>13. QED
    BY <1>11, <1>12 DEF SoundInv

\* A download gets an id of its own, so it starts with nothing said of it.
LEMMA TermDlKeepsSound ==
  ASSUME SoundInv, Types', NEW n \in Sizes, TermDl(n)
  PROVE  SoundInv'
  <1>1. PICK d : d = <<session, nextId>>
    OBVIOUS
  <1>2. /\ task' = [task EXCEPT ![d] = "begin"] /\ size' = [size EXCEPT ![d] = n] /\ sent' = sent
        /\ nextId' = nextId + 1 /\ session' = session
    BY <1>1 DEF TermDl
  <1>3. Types /\ TasksSound
    BY DEF SoundInv
  <1>4. session \in Nat /\ nextId \in Nat
    BY <1>3 DEF Types
  <1>5. d \in Downloads => task[d] = "none" /\ sent[d] = 0
    BY <1>1, <1>3, <1>4 DEF TasksSound
  <1>6. \A x \in Downloads : x # d => task'[x] = task[x] /\ size'[x] = size[x] /\ sent'[x] = sent[x]
    BY <1>2, <1>3 DEF Types
  <1>7. d \in Downloads => task'[d] = "begin" /\ size'[d] = n /\ sent'[d] = 0
    BY <1>2, <1>3, <1>5 DEF Types
  <1>8. Grows
    <2>1. ASSUME NEW x \in Downloads, task[x] # "none"
          PROVE  task'[x] # "none" /\ size'[x] = size[x] /\ sent[x] <= sent'[x]
      <3>1. x # d
        BY <1>5, <2>1
      <3>2. sent[x] \in Nat
        BY <1>3 DEF Types
      <3>3. QED
        BY <1>6, <2>1, <3>1, <3>2
    <2>2. QED
      BY <2>1 DEF Grows
  <1>9. TasksSound'
    <2>1. ASSUME NEW x \in Downloads
          PROVE  /\ task'[x] # "none" => x[1] < session' \/ (x[1] = session' /\ x[2] < nextId')
                 /\ task'[x] = "none" => sent'[x] = 0
                 /\ sent'[x] <= size'[x]
      <3>1. CASE x = d
        <4>1. d[1] = session /\ d[2] = nextId /\ n \in Nat
          BY <1>1, DownloadAssumption
        <4>2. QED
          BY <1>2, <1>4, <1>7, <3>1, <4>1
      <3>2. CASE x # d
        <4>1. x[1] \in Nat /\ x[2] \in Nat
          BY DEF Downloads
        <4>2. /\ task[x] # "none" => x[1] < session \/ (x[1] = session /\ x[2] < nextId)
              /\ task[x] = "none" => sent[x] = 0
              /\ sent[x] <= size[x]
          BY <1>3 DEF TasksSound
        <4>3. x[2] < nextId => x[2] < nextId + 1
          BY <1>4, <4>1
        <4>4. QED
          BY <1>2, <1>6, <3>2, <4>2, <4>3
      <3>3. QED
        BY <3>1, <3>2
    <2>2. QED
      BY <2>1 DEF TasksSound
  <1>10. All' = All /\ UNCHANGED tab
    BY DEF TermDl, All, feed
  <1>11. Within(All', All)
    BY <1>10, WithinSelf
  <1>12. QED
    BY <1>8, <1>9, <1>10, <1>11, QuietKeepsSound

\* A download that gives up, and the steps of the stream.
LEMMA StreamKeepsSound ==
  ASSUME SoundInv, Types',
         \/ \E d \in Downloads : Unheard(d)
         \/ Forward \/ SkipLagged \/ StartDrain \/ FinishDrain \/ SendClose
         \/ ShellExits \/ Disconnect \/ Reconnect \/ Subscribe \/ UNCHANGED vars
  PROVE  SoundInv'
  <1> USE DEF agent, feed, tab, vars
  <1>1. Types /\ TasksSound
    BY DEF SoundInv
  <1>2. pipe \in Seq(EventType) /\ chan \in Seq(EventType) /\ session \in Nat
    BY <1>1 DEF Types
  <1>3. size' = size /\ sent' = sent
    BY DEF Unheard, Forward, SkipLagged, StartDrain, FinishDrain, LeaveFlush, SendClose, ShellExits,
              Disconnect, Reconnect, Subscribe
  <1>4. task' = task \/ \E d \in Downloads : task[d] # "none" /\ task' = [task EXCEPT ![d] = "aborted"]
    BY DEF Unheard, Forward, SkipLagged, StartDrain, FinishDrain, LeaveFlush, SendClose, ShellExits,
              Disconnect, Reconnect, Subscribe
  <1>5. \A d \in Downloads : task'[d] = "none" <=> task[d] = "none"
    BY <1>1, <1>4 DEF Types
  <1>6. (session' = session /\ nextId' = nextId) \/ session' = session + 1
    BY DEF Unheard, Forward, SkipLagged, StartDrain, FinishDrain, LeaveFlush, SendClose, ShellExits,
              Disconnect, Reconnect, Subscribe
  <1>7. Grows
    <2>1. \A d \in Downloads : sent[d] \in Nat
      BY <1>1 DEF Types
    <2>2. QED
      BY <1>3, <1>5, <2>1 DEF Grows
  <1>8. TasksSound'
    <2>1. ASSUME NEW x \in Downloads
          PROVE  /\ task'[x] # "none" => x[1] < session' \/ (x[1] = session' /\ x[2] < nextId')
                 /\ task'[x] = "none" => sent'[x] = 0
                 /\ sent'[x] <= size'[x]
      <3>1. x[1] \in Nat
        BY DEF Downloads
      <3>2. /\ task[x] # "none" => x[1] < session \/ (x[1] = session /\ x[2] < nextId)
            /\ task[x] = "none" => sent[x] = 0
            /\ sent[x] <= size[x]
        BY <1>1 DEF TasksSound
      <3>3. x[1] < session \/ x[1] = session => x[1] < session + 1
        BY <1>2, <3>1
      <3>4. QED
        BY <1>3, <1>5, <1>6, <3>2, <3>3
    <2>2. QED
      BY <2>1 DEF TasksSound
  <1>9. UNCHANGED tab
    BY DEF Unheard, Forward, SkipLagged, StartDrain, FinishDrain, LeaveFlush, SendClose, ShellExits,
              Disconnect, Reconnect, Subscribe
  <1>10. Within(All', All)
    <2>1. CASE Forward
      BY <1>1, <2>1, ForwardShape, WithinSelf
    <2>2. CASE SendClose
      <3>1. All' = pipe
        BY <1>2, <2>2, ConcatEmptySeq DEF SendClose, All
      <3>2. QED
        BY <1>2, <3>1, WithinPrefix DEF All
    <2>3. CASE Disconnect
      <3>1. <<>> \in Seq(EventType) /\ All \in Seq(EventType)
        BY <1>1, AllTyped, EmptySeq
      <3>2. All' = <<>> /\ <<>> \o All = All
        BY <2>3, <3>1, ConcatEmptySeq DEF Disconnect, All
      <3>3. QED
        BY <3>1, <3>2, WithinPrefix
    <2>4. CASE \/ \E d \in Downloads : Unheard(d)
               \/ SkipLagged \/ StartDrain \/ FinishDrain \/ ShellExits \/ Reconnect \/ Subscribe
               \/ UNCHANGED vars
      <3>1. All' = All
        BY <2>4 DEF Unheard, SkipLagged, StartDrain, FinishDrain, LeaveFlush, ShellExits, Reconnect,
                    Subscribe, All
      <3>2. QED
        BY <3>1, WithinSelf
    <2>5. QED
      BY <2>1, <2>2, <2>3, <2>4
  <1>11. QED
    BY <1>7, <1>8, <1>9, <1>10, QuietKeepsSound

\* A step that posts an event: a chunk is the next of its file.
LEMMA PostedKeepsSound ==
  ASSUME SoundInv, Types', TasksSound', Grows, UNCHANGED tab, pipe' = pipe,
         NEW e \in EventType, Post(e), task[e.dl] # "none",
         e.kind = "begin" => e.n = size[e.dl],
         e.kind = "chunk" => e.n = sent[e.dl] + 1 /\ e.n = sent'[e.dl]
  PROVE  SoundInv'
  <1>1. Types /\ EventsSound(All) /\ InOrder(All) /\ Ahead(All) /\ EntriesSound /\ SavedSound
    BY DEF SoundInv
  <1>2. PICK a, b : a = All /\ b = All'
    OBVIOUS
  <1>3. a \in Seq(EventType)
    BY <1>1, <1>2, AllTyped
  <1>4. b \in Seq(EventType)
    BY <1>2, ConcatProperties DEF Types, All
  <1>5. PICK d \in Downloads, n \in Nat, s \in Nat : d = e.dl /\ n = e.n /\ s = sent[d]
    BY <1>1 DEF EventType, Types
  <1>6. task'[d] # "none" /\ size'[d] = size[d]
    BY <1>5 DEF Grows
  <1>7. PICK c : c = Append(a, e)
    OBVIOUS
  <1>8. /\ \A i \in DOMAIN a : i \in DOMAIN c /\ c[i] = a[i]
        /\ Len(a) + 1 \in DOMAIN c /\ c[Len(a) + 1] = e
        /\ \A i \in DOMAIN c : i \in DOMAIN a \/ i = Len(a) + 1
        /\ \A i \in DOMAIN a : i \in Nat /\ i < Len(a) + 1 /\ a[i] \in EventType
        /\ Len(a) \in Nat
    BY <1>3, <1>7, Positions
  <1>9. Within(b, c) /\ DOMAIN b \subseteq Nat
    <2>1. Within(All', Append(All, e))
      BY <1>1, PostShape
    <2>2. DOMAIN b \subseteq Nat
      BY <1>4, LenProperties
    <2>3. QED
      BY <1>2, <1>7, <2>1, <2>2
  <1>10. EventsSound(a)'
    BY <1>1, <1>2, <1>3, GrowsEvents
  <1>11. EventsSound(c)'
    <2>1. e.kind = "begin" => e.n = size'[e.dl]
      BY <1>5, <1>6
    <2>2. e.kind = "chunk" => 1 <= e.n /\ e.n <= sent'[e.dl]
      <3>1. e.kind = "chunk" => n = s + 1 /\ n = sent'[e.dl]
        BY <1>5
      <3>2. n = s + 1 => 1 <= n /\ n <= n
        BY <1>5
      <3>3. QED
        BY <1>5, <3>1, <3>2
    <2>3. task'[e.dl] # "none"
      BY <1>5, <1>6
    <2>4. QED
      BY <1>8, <1>10, <2>1, <2>2, <2>3 DEF EventsSound
  <1>12. InOrder(c)
    <2>1. ASSUME NEW i \in DOMAIN c, NEW j \in DOMAIN c,
                 i < j, c[i].kind = "chunk", ChunkOf(c[j], c[i].dl)
          PROVE  c[i].n < c[j].n
      <3>1. i \in DOMAIN a
        BY <1>8, <2>1
      <3>2. CASE j \in DOMAIN a
        BY <1>1, <1>2, <1>8, <2>1, <3>1, <3>2 DEF InOrder
      <3>3. CASE j = Len(a) + 1
        <4>1. c[j] = e /\ c[i] = a[i] /\ a[i] \in EventType
          BY <1>8, <3>1, <3>3
        <4>2. e.kind = "chunk" /\ a[i].kind = "chunk" /\ a[i].dl = d
          BY <1>5, <2>1, <4>1 DEF ChunkOf
        <4>3. PICK m \in Nat : m = a[i].n
          BY <4>1 DEF EventType
        <4>4. m <= s /\ n = s + 1
          BY <1>1, <1>2, <1>5, <3>1, <4>2, <4>3 DEF EventsSound
        <4>5. m < n
          BY <4>4
        <4>6. QED
          BY <1>5, <4>1, <4>3, <4>5
      <3>4. QED
        BY <1>8, <3>2, <3>3
    <2>2. QED
      BY <2>1 DEF InOrder
  <1>13. Inflight' = Inflight /\ entries' = entries
    BY DEF tab, Inflight
  <1>14. Ahead(c)'
    <2>1. ASSUME NEW id \in Inflight, NEW j \in DOMAIN entries[id].got, NEW i \in DOMAIN c,
                 entries[id].got[j][1] = entries[id].dl, ChunkOf(c[i], entries[id].dl)
          PROVE  entries[id].got[j][2] < c[i].n
      <3>1. CASE i \in DOMAIN a
        BY <1>1, <1>2, <1>8, <2>1, <3>1 DEF Ahead
      <3>2. CASE i = Len(a) + 1
        <4>1. c[i] = e /\ e.kind = "chunk" /\ entries[id].dl = d
          BY <1>5, <1>8, <2>1, <3>2 DEF ChunkOf
        <4>2. entries[id] \in EntryType
          BY <1>1 DEF Types, Inflight
        <4>3. entries[id].got \in Seq(Downloads \X Nat)
          BY <4>2 DEF EntryType
        <4>4. entries[id].got[j] \in Downloads \X Nat
          BY <4>3, LenProperties
        <4>5. PICK m \in Nat : m = entries[id].got[j][2]
          BY <4>4
        <4>6. EntrySound(entries[id], id)
          BY <1>1 DEF EntriesSound
        <4>7. m <= s /\ n = s + 1
          BY <1>5, <2>1, <4>1, <4>5, <4>6 DEF EntrySound
        <4>8. m < n
          BY <4>7
        <4>9. QED
          BY <1>5, <4>1, <4>5, <4>8
      <3>3. QED
        BY <1>8, <3>1, <3>2
    <2>2. QED
      BY <1>13, <2>1 DEF Ahead
  <1>15. EventsSound(b)' /\ InOrder(b) /\ Ahead(b)'
    BY <1>9, <1>11, <1>12, <1>14, LossKeeps
  <1>16. EventsSound(All)' /\ InOrder(All)' /\ Ahead(All)'
    BY <1>2, <1>15 DEF EventsSound, InOrder, Ahead
  <1>17. EntriesSound' /\ SavedSound'
    BY <1>1, GrowsEntries, GrowsSaved DEF tab
  <1>18. QED
    BY <1>16, <1>17 DEF SoundInv

\* The four posts of stream_download.
LEMMA PostKeepsSound ==
  ASSUME SoundInv, Types', NEW d \in Downloads,
         PostBegin(d) \/ PostChunk(d) \/ PostEnd(d) \/ PostCancel(d)
  PROVE  SoundInv'
  <1>1. Types /\ TasksSound
    BY DEF SoundInv
  <1>2. PICK s \in Nat, z \in Nat : s = sent[d] /\ z = size[d]
    BY <1>1 DEF Types
  <1>3. PICK e : /\ \/ e = Event("begin", d, size[d]) /\ PostBegin(d)
                    \/ e = Event("chunk", d, sent[d] + 1) /\ PostChunk(d)
                    \/ e = Event("end", d, 0) /\ PostEnd(d)
                    \/ e = Event("cancel", d, 0) /\ PostCancel(d)
    OBVIOUS
  <1>4. Post(e)
    BY <1>3 DEF PostBegin, PostChunk, PostEnd, PostCancel
  <1>5. s + 1 \in Nat /\ 0 \in Nat
    OBVIOUS
  <1>6. /\ e \in EventType /\ e.dl = d
        /\ e.kind = "begin" => e.n = size[d]
        /\ e.kind = "chunk" => e.n = sent[d] + 1 /\ PostChunk(d)
    BY <1>2, <1>3, <1>5, EventTyped
  <1>7. /\ UNCHANGED <<tab, pipe, session, nextId, size>> /\ task[d] # "none"
        /\ PostChunk(d) => task' = task /\ sent' = [sent EXCEPT ![d] = sent[d] + 1] /\ sent[d] < size[d]
        /\ \/ PostChunk(d)
           \/ sent' = sent /\ (task' = [task EXCEPT ![d] = "read"] \/ task' = [task EXCEPT ![d] = "ended"])
    BY DEF PostBegin, PostChunk, PostEnd, PostCancel
  <1>8. /\ \A x \in Downloads : x # d => task'[x] = task[x] /\ sent'[x] = sent[x]
        /\ task'[d] # "none"
        /\ PostChunk(d) => sent'[d] = s + 1
        /\ (sent'[d] = s + 1 /\ s < z) \/ sent'[d] = s
    BY <1>1, <1>2, <1>7 DEF Types
  <1>9. Grows
    <2>1. ASSUME NEW x \in Downloads PROVE sent[x] <= sent'[x]
      <3>1. PICK m \in Nat : m = sent[x]
        BY <1>1 DEF Types
      <3>2. m <= m /\ s <= s + 1 /\ s <= s
        BY <3>1
      <3>3. QED
        BY <1>2, <1>8, <3>1, <3>2
    <2>2. QED
      BY <1>7, <1>8, <2>1 DEF Grows
  <1>10. TasksSound'
    <2>1. d[1] < session \/ (d[1] = session /\ d[2] < nextId)
      BY <1>1, <1>7 DEF TasksSound
    <2>2. s <= z
      BY <1>1, <1>2 DEF TasksSound
    <2>3. s < z => s + 1 <= z
      OBVIOUS
    <2>4. sent'[d] <= size'[d]
      BY <1>2, <1>7, <1>8, <2>2, <2>3
    <2>5. QED
      BY <1>1, <1>7, <1>8, <2>1, <2>4 DEF TasksSound
  <1>11. e.kind = "chunk" => e.n = sent[e.dl] + 1 /\ e.n = sent'[e.dl]
    BY <1>2, <1>6, <1>8
  <1>12. QED
    BY <1>4, <1>6, <1>7, <1>9, <1>10, <1>11, PostedKeepsSound

\* A download is known by its session and its id.
LEMMA SameDownload ==
  ASSUME NEW a \in Downloads, NEW b \in Downloads, a[1] = b[1], a[2] = b[2]
  PROVE  a = b
  <1>1. a = <<a[1], a[2]>> /\ b = <<b[1], b[2]>>
    BY DEF Downloads
  <1>2. QED
    BY <1>1

\* The chunk e has been sent, and comes after the chunks that entry x has got.
Following(x, e) ==
  /\ 1 <= e.n /\ e.n <= sent[e.dl]
  /\ \A j \in DOMAIN x.got : x.got[j][1] = x.dl /\ e.dl = x.dl => x.got[j][2] < e.n

\* Entry y is x with the chunk e.
Extends(y, x, e) == y = [x EXCEPT !.got = Append(x.got, <<e.dl, e.n>>)]

\* Its chunks are those of x and e.
ChunksOf(y, x, e) ==
  /\ y.dl = x.dl
  /\ \A j \in DOMAIN y.got : (j \in DOMAIN x.got /\ y.got[j] = x.got[j]) \/ y.got[j] = <<e.dl, e.n>>

\* A chunk is added to its entry.
LEMMA ChunkExtends ==
  ASSUME Types, NEW x \in EntryType, NEW e \in EventType, EntrySound(x, e.dl[2]),
         Following(x, e), NEW y, Extends(y, x, e)
  PROVE  EntrySound(y, e.dl[2]) /\ ChunksOf(y, x, e)
  <1> USE DEF Following, Extends
  <1> DEFINE id == e.dl[2]
  <1> HIDE DEF id
  <1>0. EntrySound(x, id) /\ e.dl[2] = id
    BY DEF id
  <1>1. PICK g \in Seq(Downloads \X Nat), d \in Downloads : g = x.got /\ d = x.dl
    BY DEF EntryType
  <1>2. PICK n \in Nat, c \in Downloads : n = e.n /\ c = e.dl
    BY DEF EventType
  <1>3. PICK h : h = Append(g, <<c, n>>)
    OBVIOUS
  <1>4. y.got = h /\ y.dl = d /\ y.total = x.total
    BY <1>1, <1>2, <1>3 DEF EntryType
  <1>5. <<c, n>> \in Downloads \X Nat
    OBVIOUS
  <1>6. PICK m \in Nat : m = Len(g) /\ DOMAIN g = 1..m
    BY LenProperties
  <1>7. /\ \A i \in DOMAIN g : i \in DOMAIN h /\ h[i] = g[i]
        /\ m + 1 \in DOMAIN h /\ h[m + 1] = <<c, n>>
        /\ \A i \in DOMAIN h : i \in DOMAIN g \/ i = m + 1
        /\ \A i \in DOMAIN g : i \in Nat /\ i < m + 1 /\ g[i] \in Downloads \X Nat
    BY <1>3, <1>5, <1>6, Positions
  <1>8. /\ d[2] = id /\ task[d] # "none" /\ x.total = size[d]
        /\ \A j \in DOMAIN g :
             /\ g[j][1][2] = id
             /\ g[j][1] = d => 1 <= g[j][2] /\ g[j][2] <= sent[d]
    BY <1>0, <1>1 DEF EntrySound
  <1>9. \A j \in DOMAIN h :
             /\ h[j][1][2] = id
             /\ h[j][1] = d => 1 <= h[j][2] /\ h[j][2] <= sent[d]
    BY <1>0, <1>2, <1>7, <1>8
  <1>10. ASSUME OneSession(y), NEW i \in DOMAIN h, NEW j \in DOMAIN h, i <= j
         PROVE  h[i][2] + (j - i) <= h[j][2]
    <2>1. \A k \in DOMAIN h : h[k][1][1] = d[1]
      BY <1>4, <1>10 DEF OneSession
    <2>2. \A k \in DOMAIN g : g[k][1][1] = d[1]
      BY <1>7, <2>1
    <2>3. OneSession(x)
      BY <1>1, <2>2 DEF OneSession
    <2>4. \A k, l \in DOMAIN g : k <= l => g[k][2] + (l - k) <= g[l][2]
      BY <1>0, <1>1, <2>3 DEF EntrySound
    <2>5. c[1] = d[1] /\ c[2] = d[2]
      BY <1>0, <1>2, <1>7, <1>8, <2>1
    <2>6. c = d
      BY <2>5, SameDownload
    <2>7. CASE j \in DOMAIN g
      <3>1. i \in DOMAIN g
        BY <1>7, <1>10, <2>7
      <3>2. QED
        BY <1>7, <1>10, <2>4, <2>7, <3>1
    <2>8. CASE j = m + 1 /\ i = m + 1
      <3>1. n + ((m + 1) - (m + 1)) <= n
        OBVIOUS
      <3>2. h[i][2] = n /\ h[j][2] = n
        BY <1>7, <2>8
      <3>3. QED
        BY <2>8, <3>1, <3>2
    <2>9. CASE j = m + 1 /\ i \in DOMAIN g
      <3>1. i \in Nat /\ 1 <= i /\ i <= m /\ m \in DOMAIN g
        BY <1>6, <2>9
      <3>2. g[m] \in Downloads \X Nat /\ g[i] \in Downloads \X Nat
        BY <1>7, <3>1
      <3>3. PICK u \in Nat, v \in Nat : u = g[i][2] /\ v = g[m][2]
        BY <3>2
      <3>4. u + (m - i) <= v
        BY <2>4, <2>9, <3>1, <3>3
      <3>5. g[m][1] \in Downloads /\ g[m][1][1] = d[1] /\ g[m][1][2] = d[2]
        BY <1>8, <2>2, <3>1, <3>2
      <3>6. g[m][1] = d
        BY <3>5, SameDownload
      <3>7. v < n
        BY <1>1, <1>2, <2>6, <3>1, <3>3, <3>6
      <3>8. u + ((m + 1) - i) <= n
        BY <3>1, <3>4, <3>7
      <3>9. h[i][2] = u /\ h[j][2] = n
        BY <1>7, <2>9, <3>3
      <3>10. QED
        BY <2>9, <3>8, <3>9
    <2>10. QED
      <3>1. j = m + 1 => i = m + 1 \/ i \in DOMAIN g
        BY <1>7
      <3>2. QED
        BY <1>7, <2>7, <2>8, <2>9, <3>1
  <1>11. EntrySound(y, id)
    BY <1>4, <1>8, <1>9, <1>10 DEF EntrySound
  <1>12. QED
    BY <1>0, <1>1, <1>2, <1>4, <1>7, <1>11 DEF ChunksOf

\* As many chunks as the file has, in order and none twice, are the file.
LEMMA FullIsIntact ==
  ASSUME Types, TasksSound, NEW x \in EntryType, NEW id, EntrySound(x, id),
         Len(x.got) = x.total, OneSession(x)
  PROVE  x.got = [i \in 1..size[x.dl] |-> <<x.dl, i>>]
  <1>1. PICK g \in Seq(Downloads \X Nat), d \in Downloads : g = x.got /\ d = x.dl
    BY DEF EntryType
  <1>2. PICK z \in Nat, s \in Nat : z = size[d] /\ s = sent[d]
    BY DEF Types
  <1>3. s <= z
    BY <1>2 DEF TasksSound
  <1>4. Len(g) = z
    BY <1>1, <1>2 DEF EntrySound
  <1>5. DOMAIN g = 1..z /\ g \in [1..z -> Downloads \X Nat]
    BY <1>4, LenProperties
  <1>6. ASSUME NEW i \in 1..z
        PROVE  g[i] = <<d, i>>
    <2>1. i \in Nat /\ 1 <= i /\ i <= z /\ 1 \in 1..z /\ z \in 1..z
      OBVIOUS
    <2>2. \A k \in 1..z : g[k] \in Downloads \X Nat
      BY <1>5
    <2>3. \A k \in 1..z : g[k][1] = d
      <3>1. ASSUME NEW k \in 1..z PROVE g[k][1] = d
        <4>1. g[k][1] \in Downloads
          BY <2>2
        <4>2. g[k][1][1] = d[1]
          BY <1>1, <1>5 DEF OneSession
        <4>3. g[k][1][2] = d[2]
          BY <1>1, <1>5 DEF EntrySound
        <4>4. QED
          BY <4>1, <4>2, <4>3, SameDownload
      <3>2. QED
        BY <3>1
    <2>4. PICK u \in Nat, v \in Nat, w \in Nat : u = g[1][2] /\ v = g[i][2] /\ w = g[z][2]
      BY <2>1, <2>2
    <2>5. 1 <= u /\ w <= s
      BY <1>1, <1>2, <1>5, <2>1, <2>3, <2>4 DEF EntrySound
    <2>6. u + (i - 1) <= v
      BY <1>1, <1>5, <2>1, <2>4 DEF EntrySound
    <2>7. v + (z - i) <= w
      BY <1>1, <1>5, <2>1, <2>4 DEF EntrySound
    <2>8. v = i
      BY <1>3, <2>1, <2>5, <2>6, <2>7
    <2>9. g[i] = <<g[i][1], g[i][2]>>
      BY <2>2
    <2>10. QED
      BY <2>3, <2>4, <2>8, <2>9
  <1>7. g = [i \in 1..z |-> <<d, i>>]
    BY <1>5, <1>6
  <1>8. QED
    BY <1>1, <1>2, <1>7

\* The tab handles an event.
LEMMA ReceiveKeepsSound ==
  ASSUME SoundInv, Types', TabReceives
  PROVE  SoundInv'
  <1>1. Types /\ TasksSound /\ EventsSound(All) /\ InOrder(All) /\ Ahead(All) /\ EntriesSound /\ SavedSound
    BY DEF SoundInv
  <1>2. PICK a, b, e, id : a = All /\ b = All' /\ e = Head(pipe) /\ id = e.dl[2]
    OBVIOUS
  <1>3. a \in Seq(EventType) /\ a # <<>> /\ b = Tail(a) /\ e = a[1] /\ e \in EventType
    BY <1>1, <1>2, AllTyped, ReceiveShape DEF TabReceives, feed
  <1>4. /\ Within(b, a) /\ 1 \in DOMAIN a /\ b \in Seq(EventType)
        /\ \A i \in DOMAIN b : i \in Nat /\ i + 1 \in DOMAIN a /\ b[i] = a[i + 1]
    BY <1>3, WithinTail
  <1>5. e.dl \in Downloads /\ id \in 1..MaxDownloads /\ e.n \in Nat
    BY <1>2, <1>3 DEF EventType, Downloads
  <1>6. \/ e.kind = "begin"  /\ TabBegin(e, id)
        \/ e.kind = "chunk"  /\ TabChunk(e, id)
        \/ e.kind = "end"    /\ TabEnd(e, id)
        \/ e.kind = "cancel" /\ TabCancel(e, id)
    BY <1>2 DEF TabReceives
  <1>7. UNCHANGED <<session, nextId, task, size, sent>>
    BY DEF TabReceives, agent
  <1>8. TasksSound'
    BY <1>1, <1>7 DEF TasksSound
  <1>9. /\ task[e.dl] # "none"
        /\ e.kind = "begin" => e.n = size[e.dl]
        /\ e.kind = "chunk" => 1 <= e.n /\ e.n <= sent[e.dl]
    BY <1>1, <1>2, <1>3, <1>4 DEF EventsSound
  <1>10. EventsSound(b)'
    BY <1>1, <1>2, <1>4, <1>7 DEF EventsSound
  <1>11. InOrder(b)
    <2>1. InOrder(a) /\ DOMAIN b \subseteq Nat
      BY <1>1, <1>2, <1>4
    <2>2. QED
      BY <1>4, <2>1, LossKeeps
  <1>12. ASSUME NEW i \in DOMAIN b, e.kind = "chunk", ChunkOf(b[i], e.dl)
         PROVE  e.n < b[i].n
    <2>1. 1 < i + 1 /\ i + 1 \in DOMAIN a /\ b[i] = a[i + 1]
      <3>1. DOMAIN b = 1..Len(b) /\ Len(b) \in Nat
        BY <1>4, LenProperties
      <3>2. QED
        BY <1>4, <3>1
    <2>2. InOrder(a)
      BY <1>1, <1>2
    <2>3. QED
      BY <1>3, <1>4, <1>12, <2>1, <2>2 DEF InOrder
  <1>13. DOMAIN entries = 1..MaxDownloads /\ \A k \in Inflight : k \in 1..MaxDownloads /\ entries[k] \in EntryType
    BY <1>1 DEF Types, Inflight
  <1>14. \A k \in Inflight : EntrySound(entries[k], k)
    BY <1>1 DEF EntriesSound
  <1>15. \A k \in Inflight : \A j \in DOMAIN entries[k].got : \A i \in DOMAIN a :
           entries[k].got[j][1] = entries[k].dl /\ ChunkOf(a[i], entries[k].dl)
             => entries[k].got[j][2] < a[i].n
    BY <1>1, <1>2 DEF Ahead
  \* Every entry is an old one, or new and empty, or an old one with the chunk.
  <1>16. ASSUME NEW k \in Inflight'
         PROVE  \/ k \in Inflight /\ entries'[k] = entries[k]
                \/ e.kind = "begin" /\ k = id /\ entries'[k] = Entry(e.dl, e.n)
                \/ /\ e.kind = "chunk" /\ k = id /\ k \in Inflight
                   /\ entries'[k] = [entries[k] EXCEPT !.got = Append(entries[k].got, <<e.dl, e.n>>)]
    <2>1. k \in DOMAIN entries' /\ entries'[k] # <<>>
      BY DEF Inflight
    <2>2. CASE entries' = entries
      BY <2>1, <2>2 DEF Inflight
    <2>3. CASE entries' = [entries EXCEPT ![id] = <<>>]
      BY <1>5, <1>13, <2>1, <2>3 DEF Inflight
    <2>4. CASE e.kind = "begin" /\ entries' = [entries EXCEPT ![id] = Entry(e.dl, e.n)]
      BY <1>5, <1>13, <2>1, <2>4 DEF Inflight
    <2>5. CASE e.kind = "chunk" /\ id \in Inflight /\ entries' = [entries EXCEPT ![id].got = Append(@, <<e.dl, e.n>>)]
      BY <1>5, <1>13, <2>1, <2>5 DEF Inflight
    <2>6. QED
      BY <1>6, <2>2, <2>3, <2>4, <2>5 DEF TabBegin, TabChunk, TabEnd, TabCancel
  <1>17. ASSUME NEW k \in Inflight'
         PROVE  /\ EntrySound(entries'[k], k)
                /\ \A j \in DOMAIN entries'[k].got : \A i \in DOMAIN b :
                     entries'[k].got[j][1] = entries'[k].dl /\ ChunkOf(b[i], entries'[k].dl)
                       => entries'[k].got[j][2] < b[i].n
    <2>1. CASE k \in Inflight /\ entries'[k] = entries[k]
      BY <1>4, <1>14, <1>15, <2>1
    <2>2. CASE e.kind = "begin" /\ k = id /\ entries'[k] = Entry(e.dl, e.n)
      <3>1. entries'[k].dl = e.dl /\ entries'[k].total = e.n /\ entries'[k].got = <<>>
        BY <2>2 DEF Entry
      <3>2. DOMAIN entries'[k].got = {}
        BY <3>1
      <3>3. QED
        BY <1>2, <1>9, <2>2, <3>1, <3>2 DEF EntrySound
    <2>3. CASE /\ e.kind = "chunk" /\ k = id /\ k \in Inflight
               /\ entries'[k] = [entries[k] EXCEPT !.got = Append(entries[k].got, <<e.dl, e.n>>)]
      <3>1. PICK x, y : x = entries[k] /\ y = entries'[k]
        OBVIOUS
      <3>2. x \in EntryType /\ EntrySound(x, e.dl[2]) /\ Extends(y, x, e)
        BY <1>2, <1>13, <1>14, <2>3, <3>1 DEF Extends
      <3>3. \A j \in DOMAIN x.got : x.got[j][1] = x.dl /\ e.dl = x.dl => x.got[j][2] < e.n
        BY <1>3, <1>4, <1>15, <2>3, <3>1 DEF ChunkOf
      <3>4. Following(x, e)
        BY <1>9, <2>3, <3>3 DEF Following
      <3>5. EntrySound(y, k) /\ ChunksOf(y, x, e)
        BY <1>1, <1>2, <1>3, <2>3, <3>2, <3>4, ChunkExtends
      <3>6. ASSUME NEW j \in DOMAIN y.got, NEW i \in DOMAIN b, y.got[j][1] = y.dl, ChunkOf(b[i], y.dl)
            PROVE  y.got[j][2] < b[i].n
        <4>1. CASE j \in DOMAIN x.got /\ y.got[j] = x.got[j]
          <5>1. i + 1 \in DOMAIN a /\ b[i] = a[i + 1]
            BY <1>4
          <5>2. x.got[j][1] = x.dl /\ ChunkOf(a[i + 1], x.dl)
            BY <3>5, <3>6, <4>1, <5>1 DEF ChunksOf
          <5>3. x.got[j][2] < a[i + 1].n
            BY <1>15, <2>3, <3>1, <4>1, <5>1, <5>2
          <5>4. QED
            BY <4>1, <5>1, <5>3
        <4>2. CASE y.got[j] = <<e.dl, e.n>>
          BY <1>12, <2>3, <3>6, <4>2
        <4>3. QED
          BY <3>5, <4>1, <4>2 DEF ChunksOf
      <3>7. QED
        BY <3>1, <3>5, <3>6
    <2>4. QED
      BY <1>16, <2>1, <2>2, <2>3
  <1>18. EntriesSound'
    BY <1>7, <1>17 DEF EntriesSound, EntrySound
  <1>19. Ahead(b)'
    BY <1>17 DEF Ahead
  <1>20. SavedSound'
    <2>1. CASE saved' = saved
      BY <1>1, <1>7, <2>1 DEF SavedSound, SavedIntact
    <2>2. CASE /\ id \in Inflight /\ Len(entries[id].got) = entries[id].total
               /\ saved' = saved \cup {[dl |-> entries[id].dl, got |-> entries[id].got]}
      <3>1. PICK x : x = entries[id]
        OBVIOUS
      <3>2. PICK f : f = [dl |-> x.dl, got |-> x.got]
        OBVIOUS
      <3>3. f.dl = x.dl /\ f.got = x.got
        BY <3>2
      <3>4. x \in EntryType /\ EntrySound(x, id) /\ Len(x.got) = x.total
        BY <1>13, <1>14, <2>2, <3>1
      <3>5. OneSession(f) => OneSession(x)
        BY <3>3 DEF OneSession
      <3>6. OneSession(f) => f.got = [i \in 1..size[f.dl] |-> <<f.dl, i>>]
        BY <1>1, <3>3, <3>4, <3>5, FullIsIntact
      <3>7. task[f.dl] # "none"
        BY <3>3, <3>4 DEF EntrySound
      <3>8. saved' = saved \cup {f}
        BY <2>2, <3>1, <3>2
      <3>9. QED
        BY <1>1, <1>7, <3>6, <3>7, <3>8 DEF SavedSound, SavedIntact
    <2>3. QED
      BY <1>6, <2>1, <2>2 DEF TabBegin, TabChunk, TabEnd, TabCancel
  <1>21. EventsSound(All)' /\ InOrder(All)' /\ Ahead(All)'
    BY <1>2, <1>10, <1>11, <1>19 DEF EventsSound, InOrder, Ahead
  <1>22. QED
    BY <1>8, <1>18, <1>20, <1>21 DEF SoundInv

-----------------------------------------------------------------------------

\* At the start there is nothing to be wrong.
LEMMA InitSound == Init => SoundInv
  <1> SUFFICES ASSUME Init PROVE SoundInv
    OBVIOUS
  <1>1. <<>> \in Seq(EventType) /\ All = <<>>
    BY EmptySeq DEF Init, All
  <1>2. DOMAIN All = {}
    BY <1>1
  <1>3. Inflight = {}
    BY DEF Init, Inflight
  <1>4. Types
    BY <1>1 DEF Init, Types
  <1>5. TasksSound
    BY DEF Init, TasksSound
  <1>6. QED
    BY <1>2, <1>3, <1>4, <1>5
       DEF SoundInv, EventsSound, InOrder, Ahead, EntriesSound, SavedSound, SavedIntact, Init

\* The invariant is inductive.
LEMMA NextSound == SoundInv /\ [Next]_vars => SoundInv'
  <1> SUFFICES ASSUME SoundInv, [Next]_vars PROVE SoundInv'
    OBVIOUS
  <1>1. Types'
    BY NextTypes DEF SoundInv
  <1>2. ASSUME NEW n \in Sizes, TermDl(n) PROVE SoundInv'
    BY <1>1, <1>2, TermDlKeepsSound
  <1>3. ASSUME NEW d \in Downloads, PostBegin(d) \/ PostChunk(d) \/ PostEnd(d) \/ PostCancel(d)
        PROVE  SoundInv'
    BY <1>1, <1>3, PostKeepsSound
  <1>4. CASE TabReceives
    BY <1>1, <1>4, ReceiveKeepsSound
  <1>5. CASE \/ \E d \in Downloads : Unheard(d)
             \/ Forward \/ SkipLagged \/ StartDrain \/ FinishDrain \/ SendClose
             \/ ShellExits \/ Disconnect \/ Reconnect \/ Subscribe \/ UNCHANGED vars
    BY <1>1, <1>5, StreamKeepsSound
  <1>6. QED
    BY <1>2, <1>3, <1>4, <1>5 DEF Next

\* Every chunk on its way and in the tab is where its file puts it.
THEOREM SoundInvariant == Spec => []SoundInv
  <1>1. QED
    BY InitSound, NextSound, PTL DEF Spec

\* A file the tab saves from one session is the whole file that term-dl
\* announced, whatever lag or reconnects lost of it: handleDownloadEnd saves
\* only when as many bytes came as Begin said, and they came in order.
THEOREM SavedFilesAreIntact == Spec => []SavedIntact
  <1>1. SoundInv => SavedIntact
    BY DEF SoundInv, SavedSound
  <1>2. QED
    BY <1>1, SoundInvariant, PTL

-----------------------------------------------------------------------------
(* The flush at the shell's exit.                                          *)

\* Event k of q ends download d.
Ends(q, d, k) == q[k].dl = d /\ q[k].kind \in {"end", "cancel"}

\* The end of every download in D is on its way, behind its Begin, as long as
\* the tab has an entry for it or will have one.
EndsComing(q, D) ==
  \A d \in D :
    /\ (\E id \in Inflight : entries[id].dl = d) => \E k \in DOMAIN q : Ends(q, d, k)
    /\ \A i \in DOMAIN q :
         q[i].kind = "begin" /\ q[i].dl = d => \E k \in DOMAIN q : i < k /\ Ends(q, d, k)

\* Nothing is lost before the first disconnect unless the receiver lags; and
\* once the flush has found the channel empty, the ends of the downloads that
\* were over are all in the pipe, whatever the receiver still takes and loses.
FlushInv ==
  /\ lagging => lagged
  /\ ~lagged /\ reconnects = 0 /\ stream \in {"lookup", "up", "drain"} => EndsComing(All, Over)
  /\ reconnects = 0 /\ stream \in {"closing", "ended"} => EndsComing(pipe, flushed)

\* A step that neither moves events nor ends a download.
LEMMA QuietKeepsEnds ==
  ASSUME EndsComing(All, Over), All' = All, UNCHANGED tab,
         \A d \in Downloads : task'[d] = "ended" => task[d] = "ended"
  PROVE  EndsComing(All, Over)'
  <1>1. PICK a, D : a = All /\ D = Over
    OBVIOUS
  <1>2. EndsComing(a, D)'
    BY <1>1 DEF EndsComing, Inflight, tab
  <1>3. Over' \subseteq D
    BY <1>1 DEF Over
  <1>4. QED
    BY <1>1, <1>2, <1>3 DEF EndsComing

\* A step that leaves the pipe and the tab alone.
LEMMA AsideKeepsEnds ==
  ASSUME EndsComing(pipe, flushed), UNCHANGED <<pipe, tab, flushed>>
  PROVE  EndsComing(pipe, flushed)'
  BY DEF EndsComing, Inflight, tab

\* A post: of a download's end, or of something else of one that is not over.
LEMMA PostKeepsEnds ==
  ASSUME EndsComing(All, Over), Types, NEW e \in EventType, All' = Append(All, e), UNCHANGED tab,
         \A d \in Downloads : task'[d] = "ended" => task[d] = "ended" \/ (d = e.dl /\ e.kind \in {"end", "cancel"}),
         e.kind = "begin" => task'[e.dl] # "ended"
  PROVE  EndsComing(All, Over)'
  <1>1. PICK a, c : a = All /\ c = All'
    OBVIOUS
  <1>2. a \in Seq(EventType) /\ c = Append(a, e)
    BY <1>1, AllTyped
  <1>3. /\ \A i \in DOMAIN a : i \in DOMAIN c /\ c[i] = a[i]
        /\ Len(a) + 1 \in DOMAIN c /\ c[Len(a) + 1] = e
        /\ \A i \in DOMAIN c : i \in DOMAIN a \/ i = Len(a) + 1
        /\ \A i \in DOMAIN a : i \in Nat /\ i < Len(a) + 1 /\ a[i] \in EventType
    BY <1>2, Positions
  <1>4. EndsComing(a, Over)
    BY <1>1
  <1>5. ASSUME NEW d \in Downloads, task'[d] = "ended"
        PROVE  /\ (\E id \in Inflight : entries[id].dl = d) => \E k \in DOMAIN c : Ends(c, d, k)
               /\ \A i \in DOMAIN c :
                    c[i].kind = "begin" /\ c[i].dl = d => \E k \in DOMAIN c : i < k /\ Ends(c, d, k)
    <2>1. CASE d = e.dl /\ e.kind \in {"end", "cancel"}
      <3>1. Ends(c, d, Len(a) + 1) /\ Len(a) + 1 \in DOMAIN c
        BY <1>3, <2>1 DEF Ends
      <3>2. ASSUME NEW i \in DOMAIN c, c[i].kind = "begin", c[i].dl = d
            PROVE  i < Len(a) + 1
        BY <1>3, <2>1, <3>2
      <3>3. QED
        BY <3>1, <3>2
    <2>2. CASE ~(d = e.dl /\ e.kind \in {"end", "cancel"})
      <3>1. task[d] = "ended"
        BY <1>5, <2>2
      <3>2. /\ (\E id \in Inflight : entries[id].dl = d) => \E k \in DOMAIN a : Ends(a, d, k)
            /\ \A i \in DOMAIN a :
                 a[i].kind = "begin" /\ a[i].dl = d => \E k \in DOMAIN a : i < k /\ Ends(a, d, k)
        BY <1>4, <3>1 DEF EndsComing, Over
      <3>3. \A k \in DOMAIN a : Ends(a, d, k) => Ends(c, d, k)
        BY <1>3 DEF Ends
      <3>4. ASSUME NEW i \in DOMAIN c, c[i].kind = "begin", c[i].dl = d
            PROVE  i \in DOMAIN a
        BY <1>3, <1>5, <3>4
      <3>5. ASSUME NEW i \in DOMAIN c, c[i].kind = "begin", c[i].dl = d
            PROVE  \E k \in DOMAIN c : i < k /\ Ends(c, d, k)
        <4>1. i \in DOMAIN a /\ a[i].kind = "begin" /\ a[i].dl = d
          BY <1>3, <3>4, <3>5
        <4>2. PICK k \in DOMAIN a : i < k /\ Ends(a, d, k)
          BY <3>2, <4>1
        <4>3. QED
          BY <1>3, <3>3, <4>2
      <3>6. QED
        BY <1>3, <3>2, <3>3, <3>5
    <2>3. QED
      BY <2>1, <2>2
  <1>6. EndsComing(c, Over)'
    BY <1>5 DEF EndsComing, Over, Inflight, tab
  <1>7. QED
    BY <1>1, <1>6 DEF EndsComing

\* The tab handles an event: an entry is new when a Begin is handled, whose
\* End is behind it, and gone when its own End is.
LEMMA ReceiveKeepsEnds ==
  ASSUME NEW D, NEW a \in Seq(EventType), a # <<>>, a[1] = Head(pipe), a[1] \in EventType,
         EndsComing(a, D), SoundInv, TabReceives
  PROVE  EndsComing(Tail(a), D)'
  <1>1. Types /\ EntriesSound
    BY DEF SoundInv
  <1>2. PICK b, e, id : b = Tail(a) /\ e = Head(pipe) /\ id = e.dl[2]
    OBVIOUS
  <1>3. b = Tail(a) /\ e = a[1] /\ e \in EventType
    BY <1>2
  <1>4. /\ 1 \in DOMAIN a
        /\ \A i \in DOMAIN b : i \in Nat /\ i + 1 \in DOMAIN a /\ b[i] = a[i + 1]
        /\ \A i \in DOMAIN a : i # 1 => i - 1 \in DOMAIN b /\ b[i - 1] = a[i]
    BY <1>3, WithinTail
  <1>5. \A i \in DOMAIN a : i \in Nat
    BY <1>3, LenProperties
  <1>6. e.dl \in Downloads /\ id \in 1..MaxDownloads
    BY <1>2, <1>3 DEF EventType, Downloads
  <1>7. \/ e.kind = "begin"  /\ TabBegin(e, id)
        \/ e.kind = "chunk"  /\ TabChunk(e, id)
        \/ e.kind = "end"    /\ TabEnd(e, id)
        \/ e.kind = "cancel" /\ TabCancel(e, id)
    BY <1>2 DEF TabReceives
  <1>9. DOMAIN entries = 1..MaxDownloads /\ \A k \in Inflight : k \in 1..MaxDownloads /\ entries[k] \in EntryType
    BY <1>1 DEF Types, Inflight
  <1>10. \A k \in Inflight : entries[k].dl[2] = k
    BY <1>1 DEF EntriesSound, EntrySound
  <1>11. ASSUME NEW k \in Inflight'
         PROVE  \/ k \in Inflight /\ entries'[k].dl = entries[k].dl /\ (e.kind \in {"end", "cancel"} => k # id)
                \/ e.kind = "begin" /\ entries'[k].dl = e.dl
    <2>1. k \in DOMAIN entries' /\ entries'[k] # <<>>
      BY DEF Inflight
    <2>2. CASE entries' = entries /\ e.kind \in {"begin", "chunk"}
      BY <2>1, <2>2 DEF Inflight
    <2>3. CASE entries' = [entries EXCEPT ![id] = <<>>]
      BY <1>6, <1>9, <2>1, <2>3 DEF Inflight
    <2>4. CASE e.kind = "begin" /\ entries' = [entries EXCEPT ![id] = Entry(e.dl, e.n)]
      <3>1. Entry(e.dl, e.n).dl = e.dl
        BY DEF Entry
      <3>2. QED
        BY <1>6, <1>9, <2>1, <2>4, <3>1 DEF Inflight
    <2>5. CASE e.kind = "chunk" /\ id \in Inflight /\ entries' = [entries EXCEPT ![id].got = Append(@, <<e.dl, e.n>>)]
      <3>1. k \in Inflight
        BY <1>6, <1>9, <2>1, <2>5 DEF Inflight
      <3>2. entries[id] \in EntryType
        BY <1>9, <2>5
      <3>3. entries'[k].dl = entries[k].dl
        BY <1>6, <1>9, <2>5, <3>1, <3>2 DEF EntryType
      <3>4. QED
        BY <2>5, <3>1, <3>3
    <2>6. QED
      BY <1>7, <2>2, <2>3, <2>4, <2>5 DEF TabBegin, TabChunk, TabEnd, TabCancel
  <1>13. ASSUME NEW d \in D
         PROVE  /\ (\E k \in Inflight' : entries'[k].dl = d) => \E k \in DOMAIN b : Ends(b, d, k)
                /\ \A i \in DOMAIN b :
                     b[i].kind = "begin" /\ b[i].dl = d => \E k \in DOMAIN b : i < k /\ Ends(b, d, k)
    <2>1. /\ (\E k \in Inflight : entries[k].dl = d) => \E k \in DOMAIN a : Ends(a, d, k)
          /\ \A i \in DOMAIN a :
               a[i].kind = "begin" /\ a[i].dl = d => \E k \in DOMAIN a : i < k /\ Ends(a, d, k)
      BY <1>13 DEF EndsComing
    <2>2. \A k \in DOMAIN a : k # 1 /\ Ends(a, d, k) => k - 1 \in DOMAIN b /\ Ends(b, d, k - 1)
      BY <1>4 DEF Ends
    <2>3. ASSUME NEW i \in DOMAIN b, b[i].kind = "begin", b[i].dl = d
          PROVE  \E k \in DOMAIN b : i < k /\ Ends(b, d, k)
      <3>1. i \in Nat /\ i + 1 \in DOMAIN a /\ a[i + 1].kind = "begin" /\ a[i + 1].dl = d
        BY <1>4, <2>3
      <3>2. PICK k \in DOMAIN a : i + 1 < k /\ Ends(a, d, k)
        BY <2>1, <3>1
      <3>3. k \in Nat /\ k # 1 /\ i < k - 1
        BY <1>5, <3>1, <3>2
      <3>4. QED
        BY <2>2, <3>2, <3>3
    <2>4. ASSUME NEW j \in Inflight', entries'[j].dl = d
          PROVE  \E k \in DOMAIN b : Ends(b, d, k)
      <3>1. CASE j \in Inflight /\ entries'[j].dl = entries[j].dl /\ (e.kind \in {"end", "cancel"} => j # id)
        <4>1. PICK k \in DOMAIN a : Ends(a, d, k)
          BY <2>1, <2>4, <3>1
        <4>2. e.kind \in {"end", "cancel"} => e.dl # d
          BY <1>2, <1>10, <2>4, <3>1
        <4>3. k # 1
          BY <1>3, <4>1, <4>2 DEF Ends
        <4>4. QED
          BY <2>2, <4>1, <4>3
      <3>2. CASE e.kind = "begin" /\ entries'[j].dl = e.dl
        <4>1. PICK k \in DOMAIN a : 1 < k /\ Ends(a, d, k)
          BY <1>3, <1>4, <2>1, <2>4, <3>2
        <4>2. k # 1
          BY <4>1
        <4>3. QED
          BY <2>2, <4>1, <4>2
      <3>3. QED
        BY <1>11, <3>1, <3>2
    <2>5. QED
      BY <2>3, <2>4
  <1>14. EndsComing(b, D)'
    BY <1>13 DEF EndsComing
  <1>15. QED
    BY <1>2, <1>14 DEF EndsComing

\* At the start no download is over.
LEMMA InitFlush == Init => FlushInv
  <1> SUFFICES ASSUME Init PROVE FlushInv
    OBVIOUS
  <1>1. Over = {} /\ flushed = {}
    BY DEF Init, Over
  <1>2. QED
    BY <1>1 DEF Init, FlushInv, EndsComing

\* The four posts of stream_download: an end is posted last.
LEMMA PostKeepsFlush ==
  ASSUME FlushInv, Types, NEW d \in Downloads,
         PostBegin(d) \/ PostChunk(d) \/ PostEnd(d) \/ PostCancel(d)
  PROVE  FlushInv'
  <1>1. size[d] \in Nat /\ sent[d] \in Nat /\ sent[d] + 1 \in Nat /\ 0 \in Nat
    BY DEF Types
  <1>2. PICK e : /\ \/ e = Event("begin", d, size[d]) /\ PostBegin(d)
                    \/ e = Event("chunk", d, sent[d] + 1) /\ PostChunk(d)
                    \/ e = Event("end", d, 0) /\ PostEnd(d)
                    \/ e = Event("cancel", d, 0) /\ PostCancel(d)
    OBVIOUS
  <1>3. /\ Post(e) /\ UNCHANGED <<pipe, tab, flushed>>
        /\ stream' = stream /\ reconnects' = reconnects
    BY <1>2 DEF PostBegin, PostChunk, PostEnd, PostCancel
  <1>5. /\ e \in EventType /\ e.dl = d
        /\ \/ e.kind = "begin" /\ PostBegin(d)
           \/ e.kind = "chunk" /\ PostChunk(d)
           \/ e.kind \in {"end", "cancel"} /\ (PostEnd(d) \/ PostCancel(d))
    BY <1>1, <1>2, EventTyped
  <1>6. /\ \A x \in Downloads : task'[x] = "ended" => task[x] = "ended" \/ (x = e.dl /\ e.kind \in {"end", "cancel"})
        /\ e.kind = "begin" => task'[e.dl] # "ended"
    BY <1>5 DEF PostBegin, PostChunk, PostEnd, PostCancel, Types
  <1>7. /\ ~lagged' => ~lagged /\ All' = Append(All, e)
        /\ lagging' => lagging \/ lagged'
        /\ lagged => lagged'
    BY <1>3, <1>5, PostShape
  <1>8. ASSUME ~lagged', reconnects' = 0, stream' \in {"lookup", "up", "drain"}
        PROVE  EndsComing(All, Over)'
    <2>1. EndsComing(All, Over) /\ All' = Append(All, e)
      BY <1>3, <1>7, <1>8 DEF FlushInv
    <2>2. QED
      BY <1>3, <1>5, <1>6, <2>1, PostKeepsEnds
  <1>9. ASSUME reconnects' = 0, stream' \in {"closing", "ended"}
        PROVE  EndsComing(pipe, flushed)'
    <2>1. EndsComing(pipe, flushed)
      BY <1>3, <1>9 DEF FlushInv
    <2>2. QED
      BY <1>3, <2>1, AsideKeepsEnds
  <1>10. lagging' => lagged'
    BY <1>7 DEF FlushInv
  <1>11. QED
    BY <1>8, <1>9, <1>10 DEF FlushInv

\* The tab handles a frame.
LEMMA ReceiveKeepsFlush ==
  ASSUME FlushInv, SoundInv, TabReceives
  PROVE  FlushInv'
  <1>1. Types /\ UNCHANGED <<task, stream, chan, lagging, lagged, reconnects, flushed>>
    BY DEF SoundInv, TabReceives, agent, feed
  <1>2. pipe # <<>> /\ pipe' = Tail(pipe)
    BY DEF TabReceives
  <1>3. PICK a, p, D, F : a = All /\ p = pipe /\ D = Over /\ F = flushed
    OBVIOUS
  <1>4. a \in Seq(EventType) /\ p \in Seq(EventType)
    BY <1>1, <1>3, AllTyped DEF Types
  <1>5. a # <<>> /\ a[1] = Head(pipe) /\ a[1] \in EventType /\ All' = Tail(a)
    BY <1>1, <1>2, <1>3, ReceiveShape
  <1>6. p # <<>> /\ p[1] = Head(pipe) /\ p[1] \in EventType
    BY <1>2, <1>3, <1>4
  <1>7. Over' = D
    BY <1>1, <1>3 DEF Over
  <1>8. EndsComing(All, Over) => EndsComing(All, Over)'
    <2>1. SUFFICES ASSUME EndsComing(All, Over) PROVE EndsComing(All, Over)'
      OBVIOUS
    <2>2. EndsComing(a, D)
      BY <1>3, <2>1
    <2>3. EndsComing(Tail(a), D)'
      BY <1>4, <1>5, <2>2, ReceiveKeepsEnds
    <2>4. QED
      BY <1>5, <1>7, <2>3 DEF EndsComing
  <1>9. EndsComing(pipe, flushed) => EndsComing(pipe, flushed)'
    <2>1. SUFFICES ASSUME EndsComing(pipe, flushed) PROVE EndsComing(pipe, flushed)'
      OBVIOUS
    <2>2. EndsComing(p, F)
      BY <1>3, <2>1
    <2>3. EndsComing(Tail(p), F)'
      BY <1>4, <1>6, <2>2, ReceiveKeepsEnds
    <2>4. QED
      BY <1>1, <1>2, <1>3, <2>3 DEF EndsComing
  <1>10. QED
    BY <1>1, <1>8, <1>9 DEF FlushInv

\* The invariant is inductive, given SoundInv.
LEMMA NextFlush == SoundInv /\ FlushInv /\ [Next]_vars => FlushInv'
  <1> SUFFICES ASSUME SoundInv, FlushInv, [Next]_vars PROVE FlushInv'
    OBVIOUS
  <1>0. Types
    BY DEF SoundInv
  <1> USE DEF agent, feed, tab
  <1>1. ASSUME NEW d \in Downloads, PostBegin(d) \/ PostChunk(d) \/ PostEnd(d) \/ PostCancel(d)
        PROVE  FlushInv'
    BY <1>0, <1>1, PostKeepsFlush
  <1>2. CASE TabReceives
    BY <1>2, ReceiveKeepsFlush
  <1>3. ASSUME \/ \E n \in Sizes : TermDl(n)
               \/ \E d \in Downloads : Unheard(d)
               \/ SkipLagged \/ StartDrain \/ ShellExits \/ Subscribe \/ UNCHANGED vars
        PROVE  FlushInv'
    <2>1. /\ UNCHANGED <<chan, pipe, lagged, reconnects, entries, saved, flushed>>
          /\ lagging' = lagging \/ lagging' = FALSE
          /\ stream' = stream \/ (stream \in {"lookup", "up"} /\ stream' \in {"up", "drain"})
      BY <1>3 DEF TermDl, Unheard, SkipLagged, StartDrain, ShellExits, Subscribe, vars
    <2>2. \/ task' = task
          \/ \E d : task' = [task EXCEPT ![d] = "aborted"] \/ task' = [task EXCEPT ![d] = "begin"]
      BY <1>3 DEF TermDl, Unheard, SkipLagged, StartDrain, ShellExits, Subscribe, vars
    <2>3. \A d \in Downloads : task'[d] = "ended" => task[d] = "ended"
      BY <1>0, <2>2 DEF Types
    <2>4. EndsComing(All, Over) => EndsComing(All, Over)'
      BY <2>1, <2>3, QuietKeepsEnds DEF All
    <2>5. EndsComing(pipe, flushed) => EndsComing(pipe, flushed)'
      BY <2>1, AsideKeepsEnds
    <2>6. QED
      BY <2>1, <2>4, <2>5 DEF FlushInv
  <1>4. CASE Forward
    <2>1. /\ UNCHANGED <<stream, lagging, lagged, reconnects, entries, saved, task>>
          /\ stream \in {"up", "drain"}
      BY <1>4 DEF Forward
    <2>2. All' = All
      BY <1>0, <1>4, ForwardShape
    <2>3. EndsComing(All, Over) => EndsComing(All, Over)'
      BY <2>1, <2>2, QuietKeepsEnds
    <2>4. QED
      BY <2>1, <2>3 DEF FlushInv
  <1>5. CASE FinishDrain
    <2>1. /\ UNCHANGED <<pipe, chan, lagging, lagged, reconnects, entries, saved, task>>
          /\ stream = "drain" /\ (chan = <<>> \/ lagging) /\ stream' = "closing"
          /\ flushed' = IF lagged THEN {} ELSE Over
      BY <1>5 DEF FinishDrain, LeaveFlush
    <2>2. CASE lagged
      BY <2>1, <2>2 DEF FlushInv, EndsComing
    <2>3. CASE ~lagged
      <3>1. chan = <<>> /\ flushed' = Over
        BY <2>1, <2>3 DEF FlushInv
      <3>2. pipe \in Seq(EventType)
        BY <1>0 DEF Types
      <3>3. All = pipe
        BY <3>1, <3>2, ConcatEmptySeq DEF All
      <3>4. PICK D, p : D = Over /\ p = pipe
        OBVIOUS
      <3>5. reconnects = 0 => EndsComing(p, D)
        BY <2>1, <2>3, <3>3, <3>4 DEF FlushInv
      <3>6. EndsComing(p, D) => EndsComing(p, D)'
        BY <2>1 DEF EndsComing, Inflight
      <3>7. reconnects' = 0 => EndsComing(pipe, flushed)'
        BY <2>1, <3>1, <3>4, <3>5, <3>6 DEF EndsComing
      <3>8. QED
        BY <2>1, <3>7 DEF FlushInv
    <2>4. QED
      BY <2>2, <2>3
  <1>6. CASE SendClose
    <2>1. /\ UNCHANGED <<pipe, tab, flushed, lagged, reconnects>>
          /\ stream = "closing" /\ stream' = "ended" /\ lagging' = FALSE
      BY <1>6 DEF SendClose
    <2>2. EndsComing(pipe, flushed) => EndsComing(pipe, flushed)'
      BY <2>1, AsideKeepsEnds
    <2>3. QED
      BY <2>1, <2>2 DEF FlushInv
  <1>7. CASE Disconnect
    BY <1>7 DEF Disconnect, FlushInv
  <1>8. CASE Reconnect
    <2>1. reconnects' = reconnects + 1 /\ reconnects \in Nat
      BY <1>0, <1>8 DEF Reconnect, Types
    <2>2. reconnects' # 0
      BY <2>1
    <2>3. lagging' = lagging /\ lagged' = lagged
      BY <1>8 DEF Reconnect
    <2>4. QED
      BY <2>2, <2>3 DEF FlushInv
  <1>9. QED
    BY <1>1, <1>2, <1>3, <1>4, <1>5, <1>6, <1>7, <1>8 DEF Next

\* A download that was over when the flush on SessionEvent::Closed found the
\* channel empty is settled in the tab once the stream's frames are handled:
\* the flush has forwarded every End posted by then, if the receiver had not
\* lagged.  Of an End posted while the Close frame is sent it says nothing.
THEOREM ExitLosesNoEnd == Spec => []ExitFlushesEnds
  <1>1. FlushInv => ExitFlushesEnds
    <2> SUFFICES ASSUME FlushInv, stream \in {"closing", "ended"}, pipe = <<>>, reconnects = 0,
                        NEW id \in Inflight, entries[id].dl \in flushed
                 PROVE  FALSE
      BY DEF ExitFlushesEnds
    <2>1. EndsComing(pipe, flushed)
      BY DEF FlushInv
    <2>2. DOMAIN pipe = {}
      OBVIOUS
    <2>3. QED
      BY <2>1, <2>2 DEF EndsComing
  <1>2. QED
    BY <1>1, InitSound, NextSound, InitFlush, NextFlush, PTL DEF Spec

=============================================================================
