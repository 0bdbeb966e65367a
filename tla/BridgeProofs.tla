---------------------------- MODULE BridgeProofs ----------------------------
(***************************************************************************)
(* The bridge to a shell, proved for any text, any cut of it into chunks,  *)
(* any size of the queues and any limit on the length of a sequence.       *)
(***************************************************************************)
EXTENDS PtyBridge, SequenceTheorems, WellFoundedInduction, TLAPS

-----------------------------------------------------------------------------
(* Induction over data, by least counterexamples.                          *)

\* A set that is not all of Nat misses a least number.
LEMMA LeastMissing ==
  ASSUME NEW S, NEW n \in Nat, n \notin S
  PROVE  \E x \in Nat : x \notin S /\ \A y \in Nat : y < x => y \in S
  <1>1. PICK x \in Nat \ S : \A y \in Nat \ S : ~ (<<y, x>> \in OpToRel(<, Nat))
    BY NatLessThanWellFounded, WFMin
  <1>2. ASSUME NEW y \in Nat, y < x
        PROVE  y \in S
    <2>1. <<y, x>> \in OpToRel(<, Nat)
      BY <1>2 DEF OpToRel
    <2>2. QED
      BY <1>1, <2>1
  <1>3. QED
    BY <1>1, <1>2

\* Induction from 0 up to a bound.
LEMMA InductionUpTo ==
  ASSUME NEW m \in Nat, NEW S, 0 \in S,
         \A n \in Nat : n < m /\ n \in S => n + 1 \in S
  PROVE  \A n \in 0..m : n \in S
  <1> SUFFICES ASSUME NEW n \in 0..m, n \notin S
               PROVE  FALSE
    OBVIOUS
  <1>1. PICK x \in Nat : x \notin S /\ \A y \in Nat : y < x => y \in S
    BY LeastMissing
  <1>2. x <= n
    BY <1>1
  <1>3. x - 1 \in Nat /\ x - 1 < m /\ x - 1 < x
    BY <1>1, <1>2
  <1>4. QED
    BY <1>1, <1>3

-----------------------------------------------------------------------------
(* Folds.                                                                  *)

\* The two scanners, to reason about their folds at once.
Byte(k, sc, b) == IF k = "dsr" THEN DsrByte(sc, b) ELSE OscByte(sc, b)

\* The function that FoldLeft computes with, and the states of a scanner on
\* its way through a text.
Fold(k, base, s, it) ==
  it = [x \in SUBSET DOMAIN s |->
          IF x = {} THEN base ELSE Byte(k, it[x \ {Max(x)}], s[Max(x)])]
Run(k, base, s, h) ==
  h = [j \in 0..Len(s) |-> IF j = 0 THEN base ELSE Byte(k, h[j - 1], s[j])]

\* The greatest of an initial segment of the numbers, and of a set above it.
LEMMA MaxOfSegment ==
  ASSUME NEW n \in Nat, NEW x, x \subseteq 1..(n + 1), n + 1 \in x
  PROVE  Max(x) = n + 1
  <1>1. \A y \in x : n + 1 >= y
    OBVIOUS
  <1>2. Max(x) \in x /\ \A y \in x : Max(x) >= y
    BY <1>1 DEF Max
  <1>3. Max(x) \in 1..(n + 1) /\ Max(x) >= n + 1
    BY <1>2
  <1>4. QED
    BY <1>3

\* FoldLeft is defined by a recursion that has a solution.
LEMMA FoldExists ==
  ASSUME NEW k, NEW base, NEW s, NEW n \in Nat, DOMAIN s = 1..n
  PROVE  \E it : Fold(k, base, s, it)
  <1> DEFINE Body(it, x) == IF x = {} THEN base ELSE Byte(k, it[x \ {Max(x)}], s[Max(x)])
             Good == {m \in Nat : \E it : it = [x \in SUBSET (1..m) |-> Body(it, x)]}
  <1>1. 0 \in Good
    <2> DEFINE f == [x \in SUBSET (1..0) |-> base]
    <2>1. SUBSET (1..0) = {{}}
      OBVIOUS
    <2>2. f = [x \in SUBSET (1..0) |-> Body(f, x)]
      BY <2>1
    <2>3. QED
      BY <2>2
  <1>2. ASSUME NEW m \in Nat, m \in Good
        PROVE  m + 1 \in Good
    <2>1. PICK f : f = [x \in SUBSET (1..m) |-> Body(f, x)]
      BY <1>2
    <2> DEFINE g == [x \in SUBSET (1..(m + 1)) |->
                       IF x \in SUBSET (1..m) THEN f[x]
                       ELSE Byte(k, f[x \ {m + 1}], s[m + 1])]
    <2>2. ASSUME NEW x \in SUBSET (1..(m + 1))
          PROVE  g[x] = Body(g, x)
      <3>1. CASE x \in SUBSET (1..m)
        <4>1. x \ {Max(x)} \in SUBSET (1..m) /\ x \ {Max(x)} \in SUBSET (1..(m + 1))
          BY <3>1
        <4>2. g[x \ {Max(x)}] = f[x \ {Max(x)}]
          BY <4>1
        <4>3. f[x] = Body(f, x)
          BY <2>1, <3>1
        <4>4. QED
          BY <3>1, <4>2, <4>3
      <3>2. CASE x \notin SUBSET (1..m)
        <4>1. m + 1 \in x /\ x # {}
          BY <3>2
        <4>2. Max(x) = m + 1
          BY <4>1, MaxOfSegment
        <4>3. x \ {m + 1} \in SUBSET (1..m) /\ x \ {m + 1} \in SUBSET (1..(m + 1))
          OBVIOUS
        <4>4. g[x \ {m + 1}] = f[x \ {m + 1}]
          BY <4>3
        <4>5. QED
          BY <3>2, <4>1, <4>2, <4>4
      <3>3. QED
        BY <3>1, <3>2
    <2>3. g = [x \in SUBSET (1..(m + 1)) |-> Body(g, x)]
      BY <2>2
    <2> HIDE DEF g
    <2>4. \E it : it = [x \in SUBSET (1..(m + 1)) |-> Body(it, x)]
      BY <2>3
    <2>5. m + 1 \in Nat
      OBVIOUS
    <2>6. QED
      BY <2>4, <2>5
  <1>3. n \in Good
    <2> HIDE DEF Good
    <2>1. \A j \in 0..n : j \in Good
      BY <1>1, <1>2, InductionUpTo
    <2>2. QED
      BY <2>1
  <1>4. QED
    BY <1>3 DEF Fold

\* So has the recursion of the states.
LEMMA RunExists ==
  ASSUME NEW k, NEW base, NEW s, NEW n \in Nat, Len(s) = n
  PROVE  \E h : Run(k, base, s, h)
  <1> DEFINE Body(h, j) == IF j = 0 THEN base ELSE Byte(k, h[j - 1], s[j])
             Good == {m \in Nat : \E h : h = [j \in 0..m |-> Body(h, j)]}
  <1>1. 0 \in Good
    <2> DEFINE f == [j \in 0..0 |-> base]
    <2>1. f = [j \in 0..0 |-> Body(f, j)]
      OBVIOUS
    <2>2. QED
      BY <2>1
  <1>2. ASSUME NEW m \in Nat, m \in Good
        PROVE  m + 1 \in Good
    <2>1. PICK f : f = [j \in 0..m |-> Body(f, j)]
      BY <1>2
    <2> DEFINE g == [j \in 0..(m + 1) |-> IF j <= m THEN f[j] ELSE Byte(k, f[m], s[m + 1])]
    <2>2. ASSUME NEW j \in 0..(m + 1)
          PROVE  g[j] = Body(g, j)
      <3>1. CASE j <= m
        <4>1. f[j] = Body(f, j)
          BY <2>1, <3>1
        <4>2. j # 0 => j - 1 \in 0..m /\ g[j - 1] = f[j - 1]
          BY <3>1
        <4>3. g[j] = f[j]
          BY <3>1
        <4> HIDE DEF g
        <4>4. QED
          BY <4>1, <4>2, <4>3
      <3>2. CASE j = m + 1
        <4>1. j # 0 /\ g[j - 1] = f[m] /\ g[j] = Byte(k, f[m], s[m + 1])
          BY <3>2
        <4> HIDE DEF g
        <4>2. QED
          BY <3>2, <4>1
      <3>3. QED
        BY <3>1, <3>2
    <2>3. g = [j \in 0..(m + 1) |-> Body(g, j)]
      BY <2>2
    <2> HIDE DEF g
    <2>4. \E h : h = [j \in 0..(m + 1) |-> Body(h, j)]
      BY <2>3
    <2>5. m + 1 \in Nat
      OBVIOUS
    <2>6. QED
      BY <2>4, <2>5
  <1>3. n \in Good
    <2> HIDE DEF Good
    <2>1. \A j \in 0..n : j \in Good
      BY <1>1, <1>2, InductionUpTo
    <2>2. QED
      BY <2>1
  <1>4. QED
    BY <1>3 DEF Run

\* A fold passes through the states of a run.
LEMMA FoldIsRun ==
  ASSUME NEW k, NEW base, NEW s, NEW n \in Nat, DOMAIN s = 1..n, Len(s) = n,
         NEW it, Fold(k, base, s, it), NEW h, Run(k, base, s, h)
  PROVE  it[DOMAIN s] = h[Len(s)]
  <1> DEFINE Good == {j \in Nat : j <= n => it[1..j] = h[j]}
  <1>1. 0 \in Good
    <2>1. 1..0 = {} /\ {} \in SUBSET DOMAIN s
      OBVIOUS
    <2>2. it[{}] = base
      BY <2>1 DEF Fold
    <2>3. h[0] = base
      BY DEF Run
    <2>4. QED
      BY <2>1, <2>2, <2>3
  <1>2. ASSUME NEW j \in Nat, j < n, j \in Good
        PROVE  j + 1 \in Good
    <2>1. 1..(j + 1) \in SUBSET DOMAIN s /\ j + 1 \in 1..(j + 1)
      BY <1>2
    <2>2. (1..(j + 1)) \ {j + 1} = 1..j /\ Max(1..(j + 1)) = j + 1
      BY MaxOfSegment
    <2>3. it[1..(j + 1)] = Byte(k, it[1..j], s[j + 1])
      BY <2>1, <2>2 DEF Fold
    <2>4. h[j + 1] = Byte(k, h[j], s[j + 1])
      BY <1>2 DEF Run
    <2>5. it[1..j] = h[j]
      BY <1>2
    <2>6. QED
      BY <2>3, <2>4, <2>5
  <1>3. n \in Good
    <2> HIDE DEF Good
    <2>1. \A j \in 0..n : j \in Good
      BY <1>1, <1>2, InductionUpTo
    <2>2. QED
      BY <2>1
  <1>4. QED
    BY <1>3

\* What a feed returns: the last state of the run through what it is fed.
LEMMA FeedIsRun ==
  ASSUME NEW base, NEW s, NEW n \in Nat, DOMAIN s = 1..n, Len(s) = n, NEW h
  PROVE  /\ Run("dsr", base, s, h) => FoldLeft(DsrByte, base, s) = h[Len(s)]
         /\ Run("osc", base, s, h) => FoldLeft(OscByte, base, s) = h[Len(s)]
  <1>1. ASSUME Run("dsr", base, s, h)
        PROVE  FoldLeft(DsrByte, base, s) = h[Len(s)]
    <2> DEFINE P(it) == it = [x \in SUBSET DOMAIN s |->
                                IF x = {} THEN base ELSE DsrByte(it[x \ {Max(x)}], s[Max(x)])]
    <2>1. \A it : P(it) <=> Fold("dsr", base, s, it)
      BY DEF Fold, Byte
    <2>2. \E it : P(it)
      BY <2>1, FoldExists
    <2>3. P(CHOOSE it : P(it))
      BY <2>2
    <2>4. FoldLeft(DsrByte, base, s) = (CHOOSE it : P(it))[DOMAIN s]
      BY DEF FoldLeft, MapThenFoldSet
    <2> DEFINE w == CHOOSE it : P(it)
    <2>5. Fold("dsr", base, s, w)
      BY <2>1, <2>3
    <2> HIDE DEF w, P
    <2>6. w[DOMAIN s] = h[Len(s)]
      BY <1>1, <2>5, FoldIsRun
    <2>7. QED
      BY <2>4, <2>6 DEF w
  <1>2. ASSUME Run("osc", base, s, h)
        PROVE  FoldLeft(OscByte, base, s) = h[Len(s)]
    <2> DEFINE P(it) == it = [x \in SUBSET DOMAIN s |->
                                IF x = {} THEN base ELSE OscByte(it[x \ {Max(x)}], s[Max(x)])]
    <2>1. \A it : P(it) <=> Fold("osc", base, s, it)
      BY DEF Fold, Byte
    <2>2. \E it : P(it)
      BY <2>1, FoldExists
    <2>3. P(CHOOSE it : P(it))
      BY <2>2
    <2>4. FoldLeft(OscByte, base, s) = (CHOOSE it : P(it))[DOMAIN s]
      BY DEF FoldLeft, MapThenFoldSet
    <2> DEFINE w == CHOOSE it : P(it)
    <2>5. Fold("osc", base, s, w)
      BY <2>1, <2>3
    <2> HIDE DEF w, P
    <2>6. w[DOMAIN s] = h[Len(s)]
      BY <1>2, <2>5, FoldIsRun
    <2>7. QED
      BY <2>4, <2>6 DEF w
  <1>3. QED
    BY <1>1, <1>2

-----------------------------------------------------------------------------
(* The scanners.                                                           *)

States(k) == IF k = "dsr" THEN {"Normal", "Esc", "Csi"}
             ELSE {"Normal", "Esc", "Osc", "OscEsc", "OscOverflow", "OscOverflowEsc"}

Scanner(k) == [state : States(k), buf : Seq(Bytes), out : Seq(Bytes), hits : Nat]

\* A scanner by its fields.
Sc(st, buf, o, n) == [state |-> st, buf |-> buf, out |-> o, hits |-> n]

\* A scanner that had put out o and counted n hits before.
After(o, n, sc) == Sc(sc.state, sc.buf, o \o sc.out, n + sc.hits)

\* The changes to a scanner, field by field.
LEMMA ScannerFields ==
  ASSUME NEW k, NEW sc \in Scanner(k), NEW st, NEW bytes
  PROVE  /\ Emit(sc, bytes) = Sc("Normal", <<>>, sc.out \o bytes, sc.hits)
         /\ [Emit(sc, bytes) EXCEPT !.hits = @ + 1]
              = Sc("Normal", <<>>, sc.out \o bytes, sc.hits + 1)
         /\ Goto(sc, st) = Sc(st, sc.buf, sc.out, sc.hits)
         /\ Push(sc, bytes) = Sc("Osc", sc.buf \o bytes, sc.out, sc.hits)
         /\ Overflow(sc) = Sc("OscOverflow", <<>>, sc.out, sc.hits)
  <1> DEFINE r1 == [sc EXCEPT !.state = "Normal"]
             r2 == [r1 EXCEPT !.buf = <<>>]
             r3 == [r2 EXCEPT !.out = @ \o bytes]
  <1>1. Emit(sc, bytes) = [state |-> "Normal", buf |-> <<>>, out |-> sc.out \o bytes, hits |-> sc.hits]
    <2>1. r1 = [state |-> "Normal", buf |-> sc.buf, out |-> sc.out, hits |-> sc.hits]
      BY DEF Scanner
    <2> HIDE DEF r1
    <2>2. r2 = [state |-> "Normal", buf |-> <<>>, out |-> sc.out, hits |-> sc.hits]
      BY <2>1
    <2> HIDE DEF r2
    <2>3. r3 = [state |-> "Normal", buf |-> <<>>, out |-> sc.out \o bytes, hits |-> sc.hits]
      <3>1. ASSUME NEW e, NEW buf, NEW o, NEW n,
                   e = [state |-> "Normal", buf |-> buf, out |-> o, hits |-> n]
            PROVE  [e EXCEPT !.out = @ \o bytes] = [state |-> "Normal", buf |-> buf, out |-> o \o bytes, hits |-> n]
        <4>1. \A v : [e EXCEPT !.out = v] = [state |-> "Normal", buf |-> buf, out |-> v, hits |-> n]
          BY <3>1
        <4>2. [e EXCEPT !.out = @ \o bytes] = [e EXCEPT !.out = o \o bytes]
          BY <3>1
        <4>3. QED
          BY <4>1, <4>2
      <3> HIDE DEF r2
      <3>2. r3 = [r2 EXCEPT !.out = @ \o bytes]
        OBVIOUS
      <3> HIDE DEF r3
      <3>3. QED
        BY <2>2, <3>1, <3>2
    <2>4. Emit(sc, bytes) = r3
      BY DEF Emit, r1, r2
    <2>5. QED
      BY <2>3, <2>4
  <1>2. [Emit(sc, bytes) EXCEPT !.hits = @ + 1]
          = [state |-> "Normal", buf |-> <<>>, out |-> sc.out \o bytes, hits |-> sc.hits + 1]
    <2> HIDE DEF r3
    <2>1. ASSUME NEW e, NEW o, NEW n,
                 e = [state |-> "Normal", buf |-> <<>>, out |-> o, hits |-> n]
          PROVE  [e EXCEPT !.hits = @ + 1] = [state |-> "Normal", buf |-> <<>>, out |-> o, hits |-> n + 1]
      BY <2>1
    <2>2. QED
      BY <1>1, <2>1
  <1>3. Goto(sc, st) = [state |-> st, buf |-> sc.buf, out |-> sc.out, hits |-> sc.hits]
    BY DEF Scanner, Goto
  <1>4. Push(sc, bytes) = [state |-> "Osc", buf |-> sc.buf \o bytes, out |-> sc.out, hits |-> sc.hits]
    <2> DEFINE q == [sc EXCEPT !.state = "Osc"]
    <2>1. q = [state |-> "Osc", buf |-> sc.buf, out |-> sc.out, hits |-> sc.hits]
      BY DEF Scanner
    <2>2. Push(sc, bytes) = [q EXCEPT !.buf = @ \o bytes]
      BY DEF Push
    <2>3. QED
      BY <2>1, <2>2
  <1>5. Overflow(sc) = [state |-> "OscOverflow", buf |-> <<>>, out |-> sc.out, hits |-> sc.hits]
    <2> DEFINE q == [sc EXCEPT !.state = "OscOverflow"]
    <2>1. q = [state |-> "OscOverflow", buf |-> sc.buf, out |-> sc.out, hits |-> sc.hits]
      BY DEF Scanner
    <2>2. Overflow(sc) = [q EXCEPT !.buf = <<>>]
      BY DEF Overflow
    <2>3. QED
      BY <2>1, <2>2
  <1>6. QED
    BY <1>1, <1>2, <1>3, <1>4, <1>5 DEF Sc

\* What finish_osc puts out, and whether it starts a download.
Shown(buf, term) == IF buf # <<>> /\ buf[1] = "5111" THEN <<>> ELSE <<"ESC", "]">> \o buf \o term
Hit(buf) == IF buf # <<>> /\ buf[1] = "5111" /\ IsDownload(Tail(buf)) THEN 1 ELSE 0


\* What a byte makes of a scanner in state st with buf in its buffer: the next
\* state, the next buffer, the output it adds and the hits it adds.
D(to, buf, bytes, n) == [to |-> to, buf |-> buf, bytes |-> bytes, n |-> n]

DsrDelta(st, buf, b) ==
  IF st = "Normal" THEN IF b = "ESC" THEN D("Esc", buf, <<>>, 0) ELSE D("Normal", <<>>, <<b>>, 0)
  ELSE IF st = "Esc" THEN IF b = "[" THEN D("Csi", buf, <<>>, 0) ELSE D("Normal", <<>>, <<"ESC", b>>, 0)
  ELSE IF b = "n" /\ buf = <<"6">> THEN D("Normal", <<>>, <<>>, 1)
  ELSE IF b \in Finals \/ Len(buf) >= MaxCsi THEN D("Normal", <<>>, <<"ESC", "[">> \o buf \o <<b>>, 0)
  ELSE D("Csi", Append(buf, b), <<>>, 0)

OscDelta(st, buf, b) ==
  IF st = "Normal" THEN IF b = "ESC" THEN D("Esc", buf, <<>>, 0) ELSE D("Normal", <<>>, <<b>>, 0)
  ELSE IF st = "Esc" THEN IF b = "]" THEN D("Osc", buf, <<>>, 0) ELSE D("Normal", <<>>, <<"ESC", b>>, 0)
  ELSE IF st = "Osc" THEN
    IF b = "BEL" THEN D("Normal", <<>>, Shown(buf, <<"BEL">>), Hit(buf))
    ELSE IF b = "ESC" THEN D("OscEsc", buf, <<>>, 0)
    ELSE IF Len(buf) < MaxOsc THEN D("Osc", buf \o <<b>>, <<>>, 0) ELSE D("OscOverflow", <<>>, <<>>, 0)
  ELSE IF st = "OscEsc" THEN
    IF b = "\\" THEN D("Normal", <<>>, Shown(buf, <<"ESC", "\\">>), Hit(buf))
    ELSE IF Len(buf) + 2 <= MaxOsc THEN D("Osc", buf \o <<"ESC", b>>, <<>>, 0)
    ELSE D("OscOverflow", <<>>, <<>>, 0)
  ELSE IF st = "OscOverflow" THEN
    IF b = "BEL" THEN D("Normal", <<>>, <<>>, 0)
    ELSE IF b = "ESC" THEN D("OscOverflowEsc", buf, <<>>, 0) ELSE D("OscOverflow", buf, <<>>, 0)
  ELSE IF b = "\\" THEN D("Normal", <<>>, <<>>, 0)
    ELSE IF b = "ESC" THEN D("OscOverflowEsc", buf, <<>>, 0) ELSE D("OscOverflow", buf, <<>>, 0)

Delta(k, sc, b) == IF k = "dsr" THEN DsrDelta(sc.state, sc.buf, b) ELSE OscDelta(sc.state, sc.buf, b)
Apply(sc, d) == Sc(d.to, d.buf, sc.out \o d.bytes, sc.hits + d.n)

\* The parts of a scanner.
LEMMA ScannerParts ==
  ASSUME NEW k, NEW sc \in Scanner(k)
  PROVE  /\ sc.state \in States(k) /\ sc.buf \in Seq(Bytes) /\ sc.out \in Seq(Bytes) /\ sc.hits \in Nat
         /\ sc = Sc(sc.state, sc.buf, sc.out, sc.hits)
  BY DEF Scanner, Sc

\* The parts of a change.
LEMMA ApplyParts ==
  ASSUME NEW k, NEW sc \in Scanner(k), NEW to, NEW buf, NEW bytes, NEW n
  PROVE  /\ Apply(sc, D(to, buf, bytes, n)) = Sc(to, buf, sc.out \o bytes, sc.hits + n)
         /\ Apply(sc, D(to, buf, <<>>, 0)) = Sc(to, buf, sc.out, sc.hits)
         /\ Apply(sc, D(to, buf, bytes, 0)) = Sc(to, buf, sc.out \o bytes, sc.hits)
         /\ Apply(sc, D(to, buf, <<>>, n)) = Sc(to, buf, sc.out, sc.hits + n)
  <1>1. sc.out \o <<>> = sc.out /\ sc.hits + 0 = sc.hits
    BY ScannerParts
  <1>2. \A by, m : Apply(sc, D(to, buf, by, m)) = Sc(to, buf, sc.out \o by, sc.hits + m)
    BY DEF Apply, D
  <1>3. QED
    BY <1>1, <1>2

\* finish_osc, field by field.
LEMMA FinishFields ==
  ASSUME NEW sc \in Scanner("osc"), NEW term \in Seq(Bytes)
  PROVE  FinishOsc(sc, term) =
           Sc("Normal", <<>>, sc.out \o Shown(sc.buf, term), sc.hits + Hit(sc.buf))
  <1>1. \A n : [Emit(sc, <<>>) EXCEPT !.hits = @ + n]
          = Sc("Normal", <<>>, sc.out \o <<>>, sc.hits + n)
    <2>1. ASSUME NEW e, NEW o, NEW h, NEW n,
                 e = Sc("Normal", <<>>, o, h)
          PROVE  [e EXCEPT !.hits = @ + n] = Sc("Normal", <<>>, o, h + n)
      BY <2>1 DEF Sc
    <2>2. Emit(sc, <<>>) = Sc("Normal", <<>>, sc.out \o <<>>, sc.hits)
      BY ScannerFields
    <2>3. QED
      BY <2>1, <2>2
  <1>2. sc.hits + 0 = sc.hits
    BY DEF Scanner
  <1>3. QED
    <2>1. CASE sc.buf # <<>> /\ sc.buf[1] = "5111"
      BY <1>1, <2>1 DEF FinishOsc, Shown, Hit
    <2>2. CASE ~(sc.buf # <<>> /\ sc.buf[1] = "5111")
      <3>1. FinishOsc(sc, term) = Emit(sc, <<"ESC", "]">> \o sc.buf \o term)
        BY <2>2 DEF FinishOsc
      <3>2. Shown(sc.buf, term) = <<"ESC", "]">> \o sc.buf \o term /\ Hit(sc.buf) = 0
        BY <2>2 DEF Shown, Hit
      <3>3. \A bytes : Emit(sc, bytes) =
              Sc("Normal", <<>>, sc.out \o bytes, sc.hits)
        BY ScannerFields
      <3>4. QED
        BY <1>2, <3>1, <3>2, <3>3
    <2>3. QED
      BY <2>1, <2>2

\* A byte changes a scanner of cursor queries by its delta.
LEMMA DsrApplies ==
  ASSUME NEW sc \in Scanner("dsr"), NEW b \in Bytes
  PROVE  Byte("dsr", sc, b) = Apply(sc, Delta("dsr", sc, b))
  <1>0. sc.state \in {"Normal", "Esc", "Csi"} /\ sc.out \o <<>> = sc.out
    BY ScannerParts DEF States
  <1>00. [sc EXCEPT !.buf = Append(@, b)] = Sc(sc.state, Append(sc.buf, b), sc.out, sc.hits)
    <2>1. \A v : [sc EXCEPT !.buf = v] = Sc(sc.state, v, sc.out, sc.hits)
      BY DEF Scanner, Sc
    <2>2. [sc EXCEPT !.buf = Append(@, b)] = [sc EXCEPT !.buf = Append(sc.buf, b)]
      BY DEF Scanner
    <2>3. QED
      BY <2>1, <2>2
  <1>1. CASE sc.state = "Normal" /\ b = "ESC"
    <2>1. DsrDelta(sc.state, sc.buf, b) = D("Esc", sc.buf, <<>>, 0)
      BY <1>1 DEF DsrDelta
    <2>2. DsrByte(sc, b) = Sc("Esc", sc.buf, sc.out, sc.hits)
      BY <1>1, <1>0, ScannerFields DEF DsrByte
    <2>3. QED
      BY <1>0, <2>1, <2>2, ApplyParts DEF Byte, Delta
  <1>2. CASE sc.state = "Normal" /\ b # "ESC"
    <2>1. DsrDelta(sc.state, sc.buf, b) = D("Normal", <<>>, <<b>>, 0)
      BY <1>2 DEF DsrDelta
    <2>2. DsrByte(sc, b) = Sc("Normal", <<>>, sc.out \o <<b>>, sc.hits)
      BY <1>2, <1>0, ScannerFields DEF DsrByte
    <2>3. QED
      BY <1>0, <2>1, <2>2, ApplyParts DEF Byte, Delta
  <1>3. CASE sc.state = "Esc" /\ b = "["
    <2>1. DsrDelta(sc.state, sc.buf, b) = D("Csi", sc.buf, <<>>, 0)
      BY <1>3 DEF DsrDelta
    <2>2. DsrByte(sc, b) = Sc("Csi", sc.buf, sc.out, sc.hits)
      BY <1>3, <1>0, ScannerFields DEF DsrByte
    <2>3. QED
      BY <1>0, <2>1, <2>2, ApplyParts DEF Byte, Delta
  <1>4. CASE sc.state = "Esc" /\ b # "["
    <2>1. DsrDelta(sc.state, sc.buf, b) = D("Normal", <<>>, <<"ESC", b>>, 0)
      BY <1>4 DEF DsrDelta
    <2>2. DsrByte(sc, b) = Sc("Normal", <<>>, sc.out \o <<"ESC", b>>, sc.hits)
      BY <1>4, <1>0, ScannerFields DEF DsrByte
    <2>3. QED
      BY <1>0, <2>1, <2>2, ApplyParts DEF Byte, Delta
  <1>5. CASE sc.state = "Csi" /\ b = "n" /\ sc.buf = <<"6">>
    <2>1. DsrDelta(sc.state, sc.buf, b) = D("Normal", <<>>, <<>>, 1)
      BY <1>5 DEF DsrDelta
    <2>2. DsrByte(sc, b) = Sc("Normal", <<>>, sc.out \o <<>>, sc.hits + 1)
      BY <1>5, <1>0, ScannerFields DEF DsrByte, DsrCsi
    <2>3. QED
      BY <1>0, <2>1, <2>2, ApplyParts DEF Byte, Delta
  <1>6. CASE /\ sc.state = "Csi" /\ ~(b = "n" /\ sc.buf = <<"6">>)
            /\ (b \in Finals \/ Len(sc.buf) >= MaxCsi)
    <2>1. DsrDelta(sc.state, sc.buf, b) = D("Normal", <<>>, <<"ESC", "[">> \o sc.buf \o <<b>>, 0)
      BY <1>6 DEF DsrDelta
    <2>2. DsrByte(sc, b) = Sc("Normal", <<>>, sc.out \o (<<"ESC", "[">> \o sc.buf \o <<b>>), sc.hits)
      BY <1>6, <1>0, ScannerFields DEF DsrByte, DsrCsi
    <2>3. QED
      BY <1>0, <2>1, <2>2, ApplyParts DEF Byte, Delta
  <1>7. CASE /\ sc.state = "Csi" /\ ~(b = "n" /\ sc.buf = <<"6">>)
            /\ ~(b \in Finals \/ Len(sc.buf) >= MaxCsi)
    <2>1. DsrDelta(sc.state, sc.buf, b) = D("Csi", Append(sc.buf, b), <<>>, 0)
      BY <1>7 DEF DsrDelta
    <2>2. DsrByte(sc, b) = Sc("Csi", Append(sc.buf, b), sc.out, sc.hits)
      BY <1>7, <1>0, <1>00 DEF DsrByte, DsrCsi
    <2>3. QED
      BY <1>0, <2>1, <2>2, ApplyParts DEF Byte, Delta
  <1>8. QED
    BY <1>0, <1>1, <1>2, <1>3, <1>4, <1>5, <1>6, <1>7

\* A byte changes a scanner of OSC sequences by its delta.
LEMMA OscApplies ==
  ASSUME NEW sc \in Scanner("osc"), NEW b \in Bytes
  PROVE  Byte("osc", sc, b) = Apply(sc, Delta("osc", sc, b))
  <1>0. /\ sc.state \in {"Normal", "Esc", "Osc", "OscEsc", "OscOverflow", "OscOverflowEsc"}
        /\ sc.out \o <<>> = sc.out
        /\ <<"BEL">> \in Seq(Bytes) /\ <<"ESC", "\\">> \in Seq(Bytes)
    BY ScannerParts DEF States, Bytes
  <1>1. CASE sc.state = "Normal" /\ b = "ESC"
    <2>1. OscDelta(sc.state, sc.buf, b) = D("Esc", sc.buf, <<>>, 0)
      BY <1>1 DEF OscDelta
    <2>2. OscByte(sc, b) = Sc("Esc", sc.buf, sc.out, sc.hits)
      BY <1>1, <1>0, ScannerFields DEF OscByte
    <2>3. QED
      BY <1>0, <2>1, <2>2, ApplyParts DEF Byte, Delta
  <1>2. CASE sc.state = "Normal" /\ b # "ESC"
    <2>1. OscDelta(sc.state, sc.buf, b) = D("Normal", <<>>, <<b>>, 0)
      BY <1>2 DEF OscDelta
    <2>2. OscByte(sc, b) = Sc("Normal", <<>>, sc.out \o <<b>>, sc.hits)
      BY <1>2, <1>0, ScannerFields DEF OscByte
    <2>3. QED
      BY <1>0, <2>1, <2>2, ApplyParts DEF Byte, Delta
  <1>3. CASE sc.state = "Esc" /\ b = "]"
    <2>1. OscDelta(sc.state, sc.buf, b) = D("Osc", sc.buf, <<>>, 0)
      BY <1>3 DEF OscDelta
    <2>2. OscByte(sc, b) = Sc("Osc", sc.buf, sc.out, sc.hits)
      BY <1>3, <1>0, ScannerFields DEF OscByte
    <2>3. QED
      BY <1>0, <2>1, <2>2, ApplyParts DEF Byte, Delta
  <1>4. CASE sc.state = "Esc" /\ b # "]"
    <2>1. OscDelta(sc.state, sc.buf, b) = D("Normal", <<>>, <<"ESC", b>>, 0)
      BY <1>4 DEF OscDelta
    <2>2. OscByte(sc, b) = Sc("Normal", <<>>, sc.out \o <<"ESC", b>>, sc.hits)
      BY <1>4, <1>0, ScannerFields DEF OscByte
    <2>3. QED
      BY <1>0, <2>1, <2>2, ApplyParts DEF Byte, Delta
  <1>5. CASE sc.state = "Osc" /\ b = "BEL"
    <2>1. OscDelta(sc.state, sc.buf, b) = D("Normal", <<>>, Shown(sc.buf, <<"BEL">>), Hit(sc.buf))
      BY <1>5 DEF OscDelta
    <2>2. OscByte(sc, b) = Sc("Normal", <<>>, sc.out \o Shown(sc.buf, <<"BEL">>), sc.hits + Hit(sc.buf))
      BY <1>5, <1>0, ScannerFields, FinishFields DEF OscByte, InOsc
    <2>3. QED
      BY <1>0, <2>1, <2>2, ApplyParts DEF Byte, Delta
  <1>6. CASE sc.state = "Osc" /\ b = "ESC"
    <2>1. OscDelta(sc.state, sc.buf, b) = D("OscEsc", sc.buf, <<>>, 0)
      BY <1>6 DEF OscDelta
    <2>2. OscByte(sc, b) = Sc("OscEsc", sc.buf, sc.out, sc.hits)
      BY <1>6, <1>0, ScannerFields DEF OscByte, InOsc
    <2>3. QED
      BY <1>0, <2>1, <2>2, ApplyParts DEF Byte, Delta
  <1>7. CASE sc.state = "Osc" /\ b \notin {"BEL", "ESC"} /\ Len(sc.buf) < MaxOsc
    <2>1. OscDelta(sc.state, sc.buf, b) = D("Osc", sc.buf \o <<b>>, <<>>, 0)
      BY <1>7 DEF OscDelta
    <2>2. OscByte(sc, b) = Sc("Osc", sc.buf \o <<b>>, sc.out, sc.hits)
      BY <1>7, <1>0, ScannerFields DEF OscByte, InOsc
    <2>3. QED
      BY <1>0, <2>1, <2>2, ApplyParts DEF Byte, Delta
  <1>8. CASE sc.state = "Osc" /\ b \notin {"BEL", "ESC"} /\ ~(Len(sc.buf) < MaxOsc)
    <2>1. OscDelta(sc.state, sc.buf, b) = D("OscOverflow", <<>>, <<>>, 0)
      BY <1>8 DEF OscDelta
    <2>2. OscByte(sc, b) = Sc("OscOverflow", <<>>, sc.out, sc.hits)
      BY <1>8, <1>0, ScannerFields DEF OscByte, InOsc
    <2>3. QED
      BY <1>0, <2>1, <2>2, ApplyParts DEF Byte, Delta
  <1>9. CASE sc.state = "OscEsc" /\ b = "\\"
    <2>1. OscDelta(sc.state, sc.buf, b) = D("Normal", <<>>, Shown(sc.buf, <<"ESC", "\\">>), Hit(sc.buf))
      BY <1>9 DEF OscDelta
    <2>2. OscByte(sc, b) = Sc("Normal", <<>>, sc.out \o Shown(sc.buf, <<"ESC", "\\">>), sc.hits + Hit(sc.buf))
      BY <1>9, <1>0, ScannerFields, FinishFields DEF OscByte, InOscEsc
    <2>3. QED
      BY <1>0, <2>1, <2>2, ApplyParts DEF Byte, Delta
  <1>10. CASE sc.state = "OscEsc" /\ b # "\\" /\ Len(sc.buf) + 2 <= MaxOsc
    <2>1. OscDelta(sc.state, sc.buf, b) = D("Osc", sc.buf \o <<"ESC", b>>, <<>>, 0)
      BY <1>10 DEF OscDelta
    <2>2. OscByte(sc, b) = Sc("Osc", sc.buf \o <<"ESC", b>>, sc.out, sc.hits)
      BY <1>10, <1>0, ScannerFields DEF OscByte, InOscEsc
    <2>3. QED
      BY <1>0, <2>1, <2>2, ApplyParts DEF Byte, Delta
  <1>11. CASE sc.state = "OscEsc" /\ b # "\\" /\ ~(Len(sc.buf) + 2 <= MaxOsc)
    <2>1. OscDelta(sc.state, sc.buf, b) = D("OscOverflow", <<>>, <<>>, 0)
      BY <1>11 DEF OscDelta
    <2>2. OscByte(sc, b) = Sc("OscOverflow", <<>>, sc.out, sc.hits)
      BY <1>11, <1>0, ScannerFields DEF OscByte, InOscEsc
    <2>3. QED
      BY <1>0, <2>1, <2>2, ApplyParts DEF Byte, Delta
  <1>12. CASE sc.state = "OscOverflow" /\ b = "BEL"
    <2>1. OscDelta(sc.state, sc.buf, b) = D("Normal", <<>>, <<>>, 0)
      BY <1>12 DEF OscDelta
    <2>2. OscByte(sc, b) = Sc("Normal", <<>>, sc.out \o <<>>, sc.hits)
      BY <1>12, <1>0, ScannerFields DEF OscByte, InOverflow
    <2>3. QED
      BY <1>0, <2>1, <2>2, ApplyParts DEF Byte, Delta
  <1>13. CASE sc.state = "OscOverflow" /\ b = "ESC"
    <2>1. OscDelta(sc.state, sc.buf, b) = D("OscOverflowEsc", sc.buf, <<>>, 0)
      BY <1>13 DEF OscDelta
    <2>2. OscByte(sc, b) = Sc("OscOverflowEsc", sc.buf, sc.out, sc.hits)
      BY <1>13, <1>0, ScannerFields DEF OscByte, InOverflow
    <2>3. QED
      BY <1>0, <2>1, <2>2, ApplyParts DEF Byte, Delta
  <1>14. CASE sc.state = "OscOverflow" /\ b \notin {"BEL", "ESC"}
    <2>1. OscDelta(sc.state, sc.buf, b) = D("OscOverflow", sc.buf, <<>>, 0)
      BY <1>14 DEF OscDelta
    <2>2. OscByte(sc, b) = Sc("OscOverflow", sc.buf, sc.out, sc.hits)
      BY <1>14, <1>0, ScannerParts DEF OscByte, InOverflow
    <2>3. QED
      BY <1>0, <2>1, <2>2, ApplyParts DEF Byte, Delta
  <1>15. CASE sc.state = "OscOverflowEsc" /\ b = "\\"
    <2>1. OscDelta(sc.state, sc.buf, b) = D("Normal", <<>>, <<>>, 0)
      BY <1>15 DEF OscDelta
    <2>2. OscByte(sc, b) = Sc("Normal", <<>>, sc.out \o <<>>, sc.hits)
      BY <1>15, <1>0, ScannerFields DEF OscByte, InOverflowEsc
    <2>3. QED
      BY <1>0, <2>1, <2>2, ApplyParts DEF Byte, Delta
  <1>16. CASE sc.state = "OscOverflowEsc" /\ b = "ESC"
    <2>1. OscDelta(sc.state, sc.buf, b) = D("OscOverflowEsc", sc.buf, <<>>, 0)
      BY <1>16 DEF OscDelta
    <2>2. OscByte(sc, b) = Sc("OscOverflowEsc", sc.buf, sc.out, sc.hits)
      BY <1>16, <1>0, ScannerParts DEF OscByte, InOverflowEsc
    <2>3. QED
      BY <1>0, <2>1, <2>2, ApplyParts DEF Byte, Delta
  <1>17. CASE sc.state = "OscOverflowEsc" /\ b \notin {"\\", "ESC"}
    <2>1. OscDelta(sc.state, sc.buf, b) = D("OscOverflow", sc.buf, <<>>, 0)
      BY <1>17 DEF OscDelta
    <2>2. OscByte(sc, b) = Sc("OscOverflow", sc.buf, sc.out, sc.hits)
      BY <1>17, <1>0, ScannerFields DEF OscByte, InOverflowEsc
    <2>3. QED
      BY <1>0, <2>1, <2>2, ApplyParts DEF Byte, Delta
  <1>18. QED
    BY <1>0, <1>1, <1>2, <1>3, <1>4, <1>5, <1>6, <1>7, <1>8, <1>9, <1>10, <1>11, <1>12, <1>13, <1>14, <1>15, <1>16, <1>17


\* Texts are put together in any order.
LEMMA Joined ==
  ASSUME NEW a \in Seq(Bytes), NEW b \in Seq(Bytes), NEW c \in Seq(Bytes)
  PROVE  (a \o b) \o c = a \o (b \o c)
  OBVIOUS

\* Terminated sequences and single bytes are texts.
LEMMA ShownTyped ==
  ASSUME NEW buf \in Seq(Bytes), NEW b \in Bytes
  PROVE  /\ \A term \in Seq(Bytes) : Shown(buf, term) \in Seq(Bytes)
         /\ Hit(buf) \in Nat
         /\ <<b>> \in Seq(Bytes) /\ <<"ESC", b>> \in Seq(Bytes) /\ <<>> \in Seq(Bytes)
         /\ <<"BEL">> \in Seq(Bytes) /\ <<"ESC", "\\">> \in Seq(Bytes)
         /\ <<"ESC", "[">> \o buf \o <<b>> \in Seq(Bytes)
         /\ Append(buf, b) \in Seq(Bytes)
         /\ buf \o <<b>> \in Seq(Bytes) /\ buf \o <<"ESC", b>> \in Seq(Bytes)
  <1>1. /\ <<b>> \in Seq(Bytes) /\ <<"ESC", b>> \in Seq(Bytes) /\ <<>> \in Seq(Bytes)
        /\ <<"BEL">> \in Seq(Bytes) /\ <<"ESC", "\\">> \in Seq(Bytes)
        /\ <<"ESC", "[">> \in Seq(Bytes) /\ <<"ESC", "]">> \in Seq(Bytes)
    BY DEF Bytes
  <1>2. \A term \in Seq(Bytes) : <<"ESC", "]">> \o buf \o term \in Seq(Bytes)
    BY <1>1, ConcatProperties
  <1>3. \A term \in Seq(Bytes) : Shown(buf, term) \in Seq(Bytes)
    BY <1>1, <1>2 DEF Shown
  <1>4. Hit(buf) \in Nat
    BY DEF Hit
  <1>5. <<"ESC", "[">> \o buf \o <<b>> \in Seq(Bytes)
    BY <1>1, ConcatProperties
  <1>6. Append(buf, b) \in Seq(Bytes) /\ buf \o <<b>> \in Seq(Bytes) /\ buf \o <<"ESC", b>> \in Seq(Bytes)
    BY <1>1, ConcatProperties, AppendProperties
  <1>7. QED
    BY <1>1, <1>3, <1>4, <1>5, <1>6

Deltas(k) == [to : States(k), buf : Seq(Bytes), bytes : Seq(Bytes), n : Nat]

\* What a byte makes of a scanner, typed.
LEMMA DeltaTyped ==
  ASSUME NEW k \in {"dsr", "osc"}, NEW sc \in Scanner(k), NEW b \in Bytes
  PROVE  Delta(k, sc, b) \in Deltas(k)
  <1>1. \A to \in States(k), buf \in Seq(Bytes), bytes \in Seq(Bytes), n \in Nat :
          D(to, buf, bytes, n) \in Deltas(k)
    BY DEF D, Deltas
  <1>2. sc.state \in States(k) /\ sc.buf \in Seq(Bytes) /\ 0 \in Nat /\ 1 \in Nat
    BY ScannerParts
  <1>3. CASE k = "dsr"
    <2>1. {"Normal", "Esc", "Csi"} \subseteq States(k)
      BY <1>3 DEF States
    <2> DEFINE X == sc.buf
    <2> HIDE DEF X
    <2>2. X \in Seq(Bytes)
      BY <1>2 DEF X
    <2>3. /\ <<b>> \in Seq(Bytes) /\ <<"ESC", b>> \in Seq(Bytes) /\ <<>> \in Seq(Bytes)
          /\ <<"ESC", "[">> \o X \o <<b>> \in Seq(Bytes) /\ Append(X, b) \in Seq(Bytes)
      BY <2>2, ShownTyped
    <2>4. DsrDelta(sc.state, X, b) \in Deltas(k)
      BY <1>1, <1>2, <2>1, <2>2, <2>3, Zenon DEF DsrDelta
    <2>5. QED
      BY <1>3, <2>4 DEF Delta, X
  <1>4. CASE k = "osc"
    <2>1. {"Normal", "Esc", "Osc", "OscEsc", "OscOverflow", "OscOverflowEsc"} \subseteq States(k)
      BY <1>4 DEF States
    <2> DEFINE X == sc.buf
    <2> HIDE DEF X
    <2>2. X \in Seq(Bytes)
      BY <1>2 DEF X
    <2>3. /\ <<b>> \in Seq(Bytes) /\ <<"ESC", b>> \in Seq(Bytes) /\ <<>> \in Seq(Bytes)
          /\ Shown(X, <<"BEL">>) \in Seq(Bytes) /\ Shown(X, <<"ESC", "\\">>) \in Seq(Bytes)
          /\ Hit(X) \in Nat /\ X \o <<b>> \in Seq(Bytes) /\ X \o <<"ESC", b>> \in Seq(Bytes)
      BY <2>2, ShownTyped
    <2>4. OscDelta(sc.state, X, b) \in Deltas(k)
      BY <1>1, <1>2, <2>1, <2>2, <2>3, Zenon DEF OscDelta
    <2>5. QED
      BY <1>4, <2>4 DEF Delta, X
  <1>5. QED
    BY <1>3, <1>4

\* A byte applies its delta, and leaves a scanner.
LEMMA ByteApplies ==
  ASSUME NEW k \in {"dsr", "osc"}, NEW sc \in Scanner(k), NEW b \in Bytes
  PROVE  /\ Byte(k, sc, b) = Apply(sc, Delta(k, sc, b))
         /\ Byte(k, sc, b) \in Scanner(k)
  <1>1. Byte(k, sc, b) = Apply(sc, Delta(k, sc, b))
    BY DsrApplies, OscApplies
  <1>2. Delta(k, sc, b) \in Deltas(k)
    BY DeltaTyped
  <1>3. \A d \in Deltas(k) : Apply(sc, d) \in Scanner(k)
    <2> TAKE d \in Deltas(k)
    <2>1. d.to \in States(k) /\ d.buf \in Seq(Bytes) /\ d.bytes \in Seq(Bytes) /\ d.n \in Nat
      BY DEF Deltas
    <2>2. sc.out \o d.bytes \in Seq(Bytes) /\ sc.hits + d.n \in Nat
      BY <2>1, ScannerParts, ConcatProperties
    <2>3. QED
      BY <2>1, <2>2 DEF Apply, Sc, Scanner
  <1>4. QED
    BY <1>1, <1>2, <1>3

\* What a scanner did before is a prefix of its output and part of its count.
LEMMA ByteAfter ==
  ASSUME NEW k \in {"dsr", "osc"}, NEW sc \in Scanner(k), NEW b \in Bytes,
         NEW o \in Seq(Bytes), NEW n \in Nat
  PROVE  /\ After(o, n, sc) \in Scanner(k)
         /\ Byte(k, After(o, n, sc), b) = After(o, n, Byte(k, sc, b))
  <1>1. After(o, n, sc) \in Scanner(k)
    <2>1. o \o sc.out \in Seq(Bytes) /\ n + sc.hits \in Nat
      BY ScannerParts, ConcatProperties
    <2>2. QED
      BY <2>1, ScannerParts DEF After, Sc, Scanner
  <1> DEFINE d == Delta(k, sc, b)
             m == After(o, n, sc)
  <1>2. /\ m.state = sc.state /\ m.buf = sc.buf
        /\ m.out = o \o sc.out /\ m.hits = n + sc.hits
    BY DEF After, Sc
  <1>3. Delta(k, m, b) = d
    BY <1>2 DEF Delta
  <1>4. d \in Deltas(k)
    BY DeltaTyped
  <1> HIDE DEF d, m
  <1>5. Byte(k, m, b) = Apply(m, d) /\ Byte(k, sc, b) = Apply(sc, d)
    BY <1>1, <1>3, ByteApplies DEF d, m
  <1>6. d.bytes \in Seq(Bytes) /\ d.n \in Nat
    BY <1>4 DEF Deltas
  <1>7. sc.out \in Seq(Bytes) /\ sc.hits \in Nat
    BY ScannerParts
  <1>8. (o \o sc.out) \o d.bytes = o \o (sc.out \o d.bytes)
    BY <1>6, <1>7, Joined
  <1>9. (n + sc.hits) + d.n = n + (sc.hits + d.n)
    BY <1>6, <1>7
  <1>10. Apply(m, d) = Sc(d.to, d.buf, o \o (sc.out \o d.bytes), n + (sc.hits + d.n))
    BY <1>2, <1>8, <1>9 DEF Apply
  <1>11. \A st, bf, u, v : After(o, n, Sc(st, bf, u, v)) = Sc(st, bf, o \o u, n + v)
    BY DEF After, Sc
  <1>12. After(o, n, Apply(sc, d)) = Sc(d.to, d.buf, o \o (sc.out \o d.bytes), n + (sc.hits + d.n))
    BY <1>11 DEF Apply
  <1>13. QED
    BY <1>1, <1>5, <1>10, <1>12 DEF m

-----------------------------------------------------------------------------
(* Feeding a text in pieces.                                               *)

Feed(k, base, s) == IF k = "dsr" THEN FoldLeft(DsrByte, base, s) ELSE FoldLeft(OscByte, base, s)

\* The steps of a run, and its type.
LEMMA RunSteps ==
  ASSUME NEW k \in {"dsr", "osc"}, NEW base \in Scanner(k), NEW s \in Seq(Bytes),
         NEW h, Run(k, base, s, h)
  PROVE  /\ h[0] = base
         /\ \A j \in 1..Len(s) : h[j] = Byte(k, h[j - 1], s[j])
         /\ \A j \in 0..Len(s) : h[j] \in Scanner(k)
  <1>1. h[0] = base
    BY DEF Run
  <1>2. \A j \in 1..Len(s) : h[j] = Byte(k, h[j - 1], s[j])
    BY DEF Run
  <1> DEFINE Good == {j \in Nat : h[j] \in Scanner(k)}
  <1>3. 0 \in Good
    BY <1>1
  <1>4. ASSUME NEW j \in Nat, j < Len(s), j \in Good
        PROVE  j + 1 \in Good
    <2>1. j + 1 \in 1..Len(s) /\ (j + 1) - 1 = j
      BY <1>4
    <2>2. h[j + 1] = Byte(k, h[j], s[j + 1]) /\ s[j + 1] \in Bytes
      BY <1>2, <2>1
    <2>3. QED
      BY <1>4, <2>2, ByteApplies
  <1>5. \A j \in 0..Len(s) : j \in Good
    <2> HIDE DEF Good
    <2>1. Len(s) \in Nat
      OBVIOUS
    <2>2. QED
      BY <1>3, <1>4, <2>1, InductionUpTo
  <1>6. QED
    BY <1>1, <1>2, <1>5

\* A feed of a whole text ends where a run through it ends.
LEMMA FeedRuns ==
  ASSUME NEW k \in {"dsr", "osc"}, NEW base, NEW s \in Seq(Bytes), NEW h, Run(k, base, s, h)
  PROVE  Feed(k, base, s) = h[Len(s)]
  <1>1. Len(s) \in Nat /\ DOMAIN s = 1..Len(s)
    OBVIOUS
  <1>2. QED
    BY <1>1, FeedIsRun DEF Feed

\* There is a run through any text.
LEMMA TextRuns ==
  ASSUME NEW k, NEW base, NEW s \in Seq(Bytes)
  PROVE  \E h : Run(k, base, s, h)
  <1>1. Len(s) \in Nat
    OBVIOUS
  <1>2. QED
    BY <1>1, RunExists

\* A feed leaves a scanner.
LEMMA FeedTyped ==
  ASSUME NEW k \in {"dsr", "osc"}, NEW base \in Scanner(k), NEW s \in Seq(Bytes)
  PROVE  Feed(k, base, s) \in Scanner(k)
  <1>1. PICK h : Run(k, base, s, h)
    BY TextRuns
  <1>2. Len(s) \in 0..Len(s)
    OBVIOUS
  <1>3. QED
    BY <1>1, <1>2, RunSteps, FeedRuns

\* On its way through a text a run passes the feeds of its prefixes.
LEMMA FeedPrefix ==
  ASSUME NEW k \in {"dsr", "osc"}, NEW base \in Scanner(k), NEW s \in Seq(Bytes),
         NEW h, Run(k, base, s, h), NEW a \in Seq(Bytes), Len(a) <= Len(s),
         \A j \in 1..Len(a) : a[j] = s[j]
  PROVE  Feed(k, base, a) = h[Len(a)]
  <1>1. PICK g : Run(k, base, a, g)
    BY TextRuns
  <1> DEFINE Good == {j \in Nat : j <= Len(a) => g[j] = h[j]}
  <1>2. /\ g[0] = base /\ h[0] = base
        /\ \A j \in 1..Len(a) : g[j] = Byte(k, g[j - 1], a[j])
        /\ \A j \in 1..Len(s) : h[j] = Byte(k, h[j - 1], s[j])
    BY <1>1, RunSteps
  <1>3. 0 \in Good
    BY <1>2
  <1>4. ASSUME NEW j \in Nat, j < Len(a), j \in Good
        PROVE  j + 1 \in Good
    <2>1. j + 1 \in 1..Len(a) /\ j + 1 \in 1..Len(s) /\ (j + 1) - 1 = j
      BY <1>4
    <2>2. g[j + 1] = Byte(k, g[j], a[j + 1]) /\ h[j + 1] = Byte(k, h[j], s[j + 1]) /\ a[j + 1] = s[j + 1]
      BY <1>2, <2>1
    <2>3. g[j] = h[j]
      BY <1>4
    <2>4. QED
      BY <2>2, <2>3
  <1>5. Len(a) \in Nat
    OBVIOUS
  <1>6. \A j \in 0..Len(a) : j \in Good
    <2> HIDE DEF Good
    <2>1. QED
      BY <1>3, <1>4, <1>5, InductionUpTo
  <1>7. g[Len(a)] = h[Len(a)]
    BY <1>5, <1>6
  <1>8. QED
    BY <1>1, <1>7, FeedRuns

\* What a scanner resumes with.
LEMMA ResumeTyped ==
  ASSUME NEW k \in {"dsr", "osc"}
  PROVE  /\ Resume(Fresh) \in Scanner(k)
         /\ Resume(Fresh) = Sc("Normal", <<>>, <<>>, 0)
         /\ \A sc \in Scanner(k) :
              /\ Resume(Kept(sc)) \in Scanner(k)
              /\ Resume(Kept(sc)) = Sc(sc.state, sc.buf, <<>>, 0)
              /\ After(sc.out, sc.hits, Resume(Kept(sc))) = sc
  <1>1. Resume(Fresh) = Sc("Normal", <<>>, <<>>, 0)
    BY DEF Resume, Fresh, Sc
  <1>2. "Normal" \in States(k) /\ <<>> \in Seq(Bytes)
    BY DEF States
  <1>3. ASSUME NEW sc \in Scanner(k)
        PROVE  /\ Resume(Kept(sc)) \in Scanner(k)
               /\ Resume(Kept(sc)) = Sc(sc.state, sc.buf, <<>>, 0)
               /\ After(sc.out, sc.hits, Resume(Kept(sc))) = sc
    <2>1. Resume(Kept(sc)) = Sc(sc.state, sc.buf, <<>>, 0)
      BY DEF Resume, Kept, Sc
    <2>2. Sc(sc.state, sc.buf, <<>>, 0) \in Scanner(k)
      BY <1>2, ScannerParts DEF Sc, Scanner
    <2>3. \A st, bf, u, v : After(sc.out, sc.hits, Sc(st, bf, u, v)) = Sc(st, bf, sc.out \o u, sc.hits + v)
      BY DEF After, Sc
    <2>4. sc.out \o <<>> = sc.out /\ sc.hits + 0 = sc.hits /\ sc = Sc(sc.state, sc.buf, sc.out, sc.hits)
      BY ScannerParts
    <2>5. After(sc.out, sc.hits, Resume(Kept(sc))) = Sc(sc.state, sc.buf, sc.out, sc.hits)
      <3>1. LET x == Resume(Kept(sc)) IN
            x.state = sc.state /\ x.buf = sc.buf /\ x.out = <<>> /\ x.hits = 0
        BY DEF Resume, Kept
      <3>2. QED
        BY <2>4, <3>1 DEF After
    <2>6. QED
      BY <2>1, <2>2, <2>4, <2>5, Zenon
  <1>4. Resume(Fresh) \in Scanner(k)
    BY <1>1, <1>2 DEF Sc, Scanner
  <1>5. QED
    BY <1>1, <1>3, <1>4

\* Where a text is cut makes no difference: feeding the second piece to what
\* was kept after the first gives what feeding both at once gives.
LEMMA FeedJoins ==
  ASSUME NEW k \in {"dsr", "osc"}, NEW base \in Scanner(k),
         NEW a \in Seq(Bytes), NEW b \in Seq(Bytes)
  PROVE  LET fed == Feed(k, base, a) IN
         Feed(k, base, a \o b) = After(fed.out, fed.hits, Feed(k, Resume(Kept(fed)), b))
  <1> DEFINE fed == Feed(k, base, a)
             re  == Resume(Kept(fed))
             ab  == a \o b
  <1>1. fed \in Scanner(k) /\ re \in Scanner(k) /\ After(fed.out, fed.hits, re) = fed
    BY FeedTyped, ResumeTyped
  <1>2. fed.out \in Seq(Bytes) /\ fed.hits \in Nat
    BY <1>1, ScannerParts
  <1>3. /\ ab \in Seq(Bytes) /\ Len(ab) = Len(a) + Len(b) /\ Len(a) \in Nat /\ Len(b) \in Nat
        /\ \A j \in 1..Len(a) : a[j] = ab[j]
        /\ \A j \in 1..Len(b) : ab[Len(a) + j] = b[j]
    OBVIOUS
  <1> HIDE DEF ab
  <1>4. PICK h : Run(k, base, ab, h)
    BY <1>3, TextRuns
  <1> HIDE DEF re
  <1>5. PICK g : Run(k, re, b, g)
    BY TextRuns
  <1>6. h[Len(a)] = fed
    <2>1. ab \in Seq(Bytes) /\ Len(a) <= Len(ab) /\ \A j \in 1..Len(a) : a[j] = ab[j]
      BY <1>3
    <2>2. QED
      BY <2>1, <1>4, FeedPrefix
  <1> HIDE DEF fed
  <1>7. /\ \A j \in 1..(Len(a) + Len(b)) : h[j] = Byte(k, h[j - 1], ab[j])
        /\ g[0] = re
        /\ \A j \in 1..Len(b) : g[j] = Byte(k, g[j - 1], b[j])
        /\ \A j \in 0..Len(b) : g[j] \in Scanner(k)
    <2>1. \A j \in 1..Len(ab) : h[j] = Byte(k, h[j - 1], ab[j])
      <3>1. ab \in Seq(Bytes)
        BY <1>3
      <3>2. QED
        BY <3>1, <1>4, RunSteps
    <2>2. /\ g[0] = re
          /\ \A j \in 1..Len(b) : g[j] = Byte(k, g[j - 1], b[j])
          /\ \A j \in 0..Len(b) : g[j] \in Scanner(k)
      BY <1>1, <1>5, RunSteps
    <2>3. QED
      BY <1>3, <2>1, <2>2
  <1> DEFINE Good == {j \in Nat : j <= Len(b) => h[Len(a) + j] = After(fed.out, fed.hits, g[j])}
  <1>8. 0 \in Good
    BY <1>1, <1>3, <1>6, <1>7
  <1>9. ASSUME NEW j \in Nat, j < Len(b), j \in Good
        PROVE  j + 1 \in Good
    <2>1. /\ j + 1 \in 1..Len(b) /\ j \in 0..Len(b) /\ (j + 1) - 1 = j
          /\ Len(a) + (j + 1) \in 1..(Len(a) + Len(b)) /\ (Len(a) + (j + 1)) - 1 = Len(a) + j
      BY <1>3, <1>9
    <2>2. /\ g[j + 1] = Byte(k, g[j], b[j + 1]) /\ g[j] \in Scanner(k) /\ b[j + 1] \in Bytes
          /\ h[Len(a) + (j + 1)] = Byte(k, h[Len(a) + j], b[j + 1])
      BY <1>3, <1>7, <2>1
    <2>3. h[Len(a) + j] = After(fed.out, fed.hits, g[j])
      BY <1>9
    <2>4. Byte(k, After(fed.out, fed.hits, g[j]), b[j + 1]) = After(fed.out, fed.hits, Byte(k, g[j], b[j + 1]))
      BY <1>2, <2>2, ByteAfter
    <2>5. QED
      BY <2>2, <2>3, <2>4
  <1>10. \A j \in 0..Len(b) : j \in Good
    <2> HIDE DEF Good
    <2>1. QED
      BY <1>3, <1>8, <1>9, InductionUpTo
  <1>11. h[Len(ab)] = After(fed.out, fed.hits, g[Len(b)])
    BY <1>3, <1>10
  <1>12. Feed(k, base, ab) = h[Len(ab)] /\ Feed(k, re, b) = g[Len(b)]
    BY <1>3, <1>4, <1>5, FeedRuns
  <1>13. QED
    BY <1>11, <1>12 DEF fed, re, ab

-----------------------------------------------------------------------------
(* The reference: pieces of a text.                                        *)

\* The first of a set of positions.
LEMMA FirstOf ==
  ASSUME NEW S, S \subseteq Nat \ {0}
  PROVE  /\ S = {} => First(S) = 0
         /\ First(S) = 0 => S = {}
         /\ First(S) # 0 => First(S) \in S /\ \A q \in S : First(S) <= q
  <1>1. CASE S = {}
    BY <1>1 DEF First
  <1>2. CASE S # {}
    <2>1. PICK n \in S : TRUE
      BY <1>2
    <2>2. n \in Nat /\ n \notin Nat \ S
      OBVIOUS
    <2>3. PICK x \in Nat : x \notin (Nat \ S) /\ \A y \in Nat : y < x => y \in (Nat \ S)
      BY <2>2, LeastMissing
    <2>4. x \in S /\ \A q \in S : x <= q
      BY <2>3
    <2>5. First(S) = CHOOSE p \in S : \A q \in S : p <= q
      BY <1>2 DEF First
    <2>6. First(S) \in S /\ \A q \in S : First(S) <= q
      BY <2>4, <2>5
    <2>7. First(S) # 0
      BY <2>6
    <2>8. QED
      BY <1>2, <2>6, <2>7
  <1>3. QED
    BY <1>1, <1>2

\* A piece of a text and its neighbours.
LEMMA Pieces ==
  ASSUME NEW s \in Seq(Bytes), NEW i \in Nat \ {0}, NEW q \in Nat, i - 1 <= q, q <= Len(s)
  PROVE  /\ SubSeq(s, i, q) \in Seq(Bytes) /\ Len(SubSeq(s, i, q)) = q - i + 1
         /\ SubSeq(s, i, i - 1) = <<>>
         /\ i <= q => /\ SubSeq(s, i, q) = Append(SubSeq(s, i, q - 1), s[q])
                      /\ SubSeq(s, i, q) = SubSeq(s, i, q - 1) \o <<s[q]>>
         /\ i < q => SubSeq(s, i, q) = SubSeq(s, i, q - 2) \o <<s[q - 1], s[q]>>
         /\ i > 2 => SubSeq(s, i - 2, q) = <<s[i - 2], s[i - 1]>> \o SubSeq(s, i, q)
  <1>1. SubSeq(s, i, q) \in Seq(Bytes) /\ Len(SubSeq(s, i, q)) = q - i + 1
    OBVIOUS
  <1>2. SubSeq(s, i, i - 1) = <<>>
    OBVIOUS
  <1>3. i <= q => /\ SubSeq(s, i, q) = Append(SubSeq(s, i, q - 1), s[q])
                  /\ SubSeq(s, i, q) = SubSeq(s, i, q - 1) \o <<s[q]>>
    OBVIOUS
  <1>4. i < q => SubSeq(s, i, q) = SubSeq(s, i, q - 2) \o <<s[q - 1], s[q]>>
    OBVIOUS
  <1>5. i > 2 => SubSeq(s, i - 2, q) = <<s[i - 2], s[i - 1]>> \o SubSeq(s, i, q)
    OBVIOUS
  <1>6. QED
    BY <1>1, <1>2, <1>3, <1>4, <1>5

\* The edge of the ESCs before a position.
Edge(s, i, p, q) ==
  /\ q = i - 1 \/ s[q] # "ESC"
  /\ \A r \in (q + 1)..(p - 1) : s[r] = "ESC"

\* Every position has one.
LEMMA EdgeExists ==
  ASSUME NEW s, NEW i \in Nat \ {0}, NEW p \in Nat, i <= p
  PROVE  \E q \in (i - 1)..(p - 1) : Edge(s, i, p, q)
  <1> DEFINE Good == {m \in Nat : \E q \in (i - 1)..(i + m - 1) : Edge(s, i, i + m, q)}
  <1>1. 0 \in Good
    <2>1. Edge(s, i, i, i - 1)
      BY DEF Edge
    <2>2. QED
      BY <2>1
  <1>2. ASSUME NEW m \in Nat, m \in Good
        PROVE  m + 1 \in Good
    <2>1. PICK q \in (i - 1)..(i + m - 1) : Edge(s, i, i + m, q)
      BY <1>2
    <2>2. CASE s[i + m] = "ESC"
      <3>1. Edge(s, i, i + (m + 1), q)
        BY <2>1, <2>2 DEF Edge
      <3>2. q \in (i - 1)..(i + (m + 1) - 1)
        OBVIOUS
      <3>3. QED
        BY <3>1, <3>2
    <2>3. CASE s[i + m] # "ESC"
      <3>1. Edge(s, i, i + (m + 1), i + m)
        BY <2>3 DEF Edge
      <3>2. i + m \in (i - 1)..(i + (m + 1) - 1)
        OBVIOUS
      <3>3. QED
        BY <3>1, <3>2
    <2>4. QED
      BY <2>2, <2>3
  <1>3. p - i \in Nat /\ i + (p - i) = p
    OBVIOUS
  <1>4. p - i \in Good
    <2> HIDE DEF Good
    <2>1. \A j \in 0..(p - i) : j \in Good
      BY <1>1, <1>2, <1>3, InductionUpTo
    <2>2. QED
      BY <1>3, <2>1
  <1>5. QED
    BY <1>3, <1>4

\* And only one.
LEMMA EdgeUnique ==
  ASSUME NEW s, NEW i \in Nat \ {0}, NEW p \in Nat, i <= p,
         NEW q \in (i - 1)..(p - 1), Edge(s, i, p, q)
  PROVE  Odd(s, i, p) <=> (p - 1 - q) % 2 = 1
  <1> DEFINE edge == CHOOSE e \in (i - 1)..(p - 1) : Edge(s, i, p, e)
  <1>1. edge \in (i - 1)..(p - 1) /\ Edge(s, i, p, edge)
    OBVIOUS
  <1>2. Odd(s, i, p) <=> (p - 1 - edge) % 2 = 1
    BY DEF Odd, Edge
  <1> HIDE DEF edge
  <1>3. ~(edge < q) /\ ~(q < edge)
    BY <1>1 DEF Edge
  <1>4. edge = q
    BY <1>1, <1>3
  <1>5. QED
    BY <1>2, <1>4

\* A byte is taken by an ESC before it that is not itself taken.
LEMMA OddStep ==
  ASSUME NEW s, NEW i \in Nat \ {0}, NEW p \in Nat, i <= p
  PROVE  /\ ~Odd(s, i, i)
         /\ Odd(s, i, p + 1) <=> (s[p] = "ESC" /\ ~Odd(s, i, p))
  <1>1. ~Odd(s, i, i)
    <2>1. Edge(s, i, i, i - 1) /\ i - 1 \in (i - 1)..(i - 1) /\ i - 1 - (i - 1) = 0 /\ i \in Nat /\ i <= i
      BY DEF Edge
    <2>2. Odd(s, i, i) <=> (i - 1 - (i - 1)) % 2 = 1
      BY <2>1, EdgeUnique
    <2>3. QED
      BY <2>1, <2>2
  <1>2. CASE s[p] = "ESC"
    <2>1. PICK q \in (i - 1)..(p - 1) : Edge(s, i, p, q)
      BY EdgeExists
    <2>2. Edge(s, i, p + 1, q) /\ q \in (i - 1)..((p + 1) - 1) /\ p + 1 \in Nat /\ i <= p + 1
      BY <1>2, <2>1 DEF Edge
    <2>3. Odd(s, i, p) <=> (p - 1 - q) % 2 = 1
      BY <2>1, EdgeUnique
    <2>4. Odd(s, i, p + 1) <=> ((p + 1) - 1 - q) % 2 = 1
      BY <2>2, EdgeUnique
    <2>5. \A n \in Nat : (n + 1) % 2 = 1 <=> ~(n % 2 = 1)
      OBVIOUS
    <2>6. p - 1 - q \in Nat /\ (p + 1) - 1 - q = (p - 1 - q) + 1
      OBVIOUS
    <2>7. QED
      BY <1>1, <1>2, <2>3, <2>4, <2>5, <2>6
  <1>3. CASE s[p] # "ESC"
    <2>1. Edge(s, i, p + 1, p) /\ p \in (i - 1)..((p + 1) - 1) /\ p + 1 \in Nat /\ i <= p + 1
      BY <1>3 DEF Edge
    <2>2. Odd(s, i, p + 1) <=> ((p + 1) - 1 - p) % 2 = 1
      BY <2>1, EdgeUnique
    <2>3. QED
      BY <1>1, <1>3, <2>2
  <1>4. QED
    BY <1>1, <1>2, <1>3

-----------------------------------------------------------------------------
(* The reference: what a scanner does on its way through a text.           *)

\* One byte further.
LEMMA RunDelta ==
  ASSUME NEW k \in {"dsr", "osc"}, NEW base \in Scanner(k), NEW s \in Seq(Bytes),
         NEW h, Run(k, base, s, h), NEW j \in 1..Len(s),
         NEW st, NEW buf, NEW o, NEW n, h[j - 1] = Sc(st, buf, o, n)
  PROVE  /\ o \in Seq(Bytes) /\ n \in Nat
         /\ LET d == IF k = "dsr" THEN DsrDelta(st, buf, s[j]) ELSE OscDelta(st, buf, s[j]) IN
            /\ \A to, bf, by, m : d = D(to, bf, by, m) => h[j] = Sc(to, bf, o \o by, n + m)
            /\ \A to, bf : d = D(to, bf, <<>>, 0) => h[j] = Sc(to, bf, o, n)
  <1> DEFINE sc == h[j - 1]
             d == IF k = "dsr" THEN DsrDelta(st, buf, s[j]) ELSE OscDelta(st, buf, s[j])
  <1>1. j - 1 \in 0..Len(s) /\ s[j] \in Bytes
    OBVIOUS
  <1>2. sc \in Scanner(k) /\ h[j] = Byte(k, sc, s[j])
    BY <1>1, RunSteps
  <1>3. sc.state = st /\ sc.buf = buf /\ sc.out = o /\ sc.hits = n
    BY DEF Sc
  <1> HIDE DEF sc
  <1>4. o \in Seq(Bytes) /\ n \in Nat
    BY <1>2, <1>3, ScannerParts
  <1>5. Delta(k, sc, s[j]) = d
    BY <1>3 DEF Delta
  <1> HIDE DEF d
  <1>6. h[j] = Apply(sc, d)
    BY <1>1, <1>2, <1>5, ByteApplies
  <1>7. /\ \A to, bf, by, m : d = D(to, bf, by, m) => h[j] = Sc(to, bf, o \o by, n + m)
        /\ \A to, bf : d = D(to, bf, <<>>, 0) => h[j] = Sc(to, bf, o, n)
    BY <1>2, <1>3, <1>6, ApplyParts
  <1>8. QED
    BY <1>4, <1>7 DEF d

\* What must be shown of a stretch of text: it ends somewhere, and the scanner
\* is then ready for the next one; or it never ends and nothing is put out.
Ends(s, h, i, o, n, st) ==
  \/ st.end = 0 /\ h[Len(s)].out = o /\ h[Len(s)].hits = n
  \/ /\ st.end \in i..Len(s) /\ st.shown \in Seq(Bytes) /\ st.hit \in Nat
     /\ h[st.end] = Sc("Normal", <<>>, o \o st.shown, n + st.hit)

\* The two cases, from the fields of a stretch.
LEMMA EndsCases ==
  ASSUME NEW s, NEW h, NEW i, NEW o, NEW n
  PROVE  /\ \A st, buf, sh, ht : h[Len(s)] = Sc(st, buf, o, n) => Ends(s, h, i, o, n, Stretch(0, sh, ht))
         /\ \A e \in i..Len(s), sh \in Seq(Bytes), ht \in Nat :
              h[e] = Sc("Normal", <<>>, o \o sh, n + ht) => Ends(s, h, i, o, n, Stretch(e, sh, ht))
  BY DEF Ends, Stretch, Sc

\* A cursor query, by its last byte.
LEMMA QueryEnds ==
  ASSUME NEW buf \in Seq(Bytes), NEW b \in Bytes
  PROVE  Append(buf, b) = <<"6", "n">> <=> (b = "n" /\ buf = <<"6">>)
  <1>0. ASSUME NEW x \in Seq(Bytes), NEW y \in Bytes
        PROVE  /\ Append(x, y) \in Seq(Bytes) /\ Len(Append(x, y)) = Len(x) + 1
               /\ \A j \in 1..Len(x) : Append(x, y)[j] = x[j]
               /\ Append(x, y)[Len(x) + 1] = y
    BY AppendProperties
  <1>1. Append(<<"6">>, "n") = <<"6", "n">>
    <2> DEFINE a == <<"6">>
               c == <<"6", "n">>
    <2>1. a \in Seq(Bytes) /\ Len(a) = 1 /\ a[1] = "6" /\ "n" \in Bytes
      BY DEF Bytes
    <2>2. c \in Seq(Bytes) /\ Len(c) = 2 /\ c[1] = "6" /\ c[2] = "n"
      BY DEF Bytes
    <2> HIDE DEF a, c
    <2>3. /\ Append(a, "n") \in Seq(Bytes) /\ Len(Append(a, "n")) = 2
          /\ Append(a, "n")[1] = "6" /\ Append(a, "n")[2] = "n"
      <3>1. /\ Append(a, "n") \in Seq(Bytes) /\ Len(Append(a, "n")) = Len(a) + 1
            /\ \A j \in 1..Len(a) : Append(a, "n")[j] = a[j]
            /\ Append(a, "n")[Len(a) + 1] = "n"
        BY <1>0, <2>1, Zenon
      <3> DEFINE d == Append(a, "n")
      <3> HIDE DEF d
      <3>2. /\ d \in Seq(Bytes) /\ Len(d) = 1 + 1 /\ d[1 + 1] = "n"
            /\ \A j \in 1..1 : d[j] = a[j]
        BY <2>1, <3>1, Zenon DEF d
      <3>3. Len(d) = 2 /\ d[1] = "6" /\ d[2] = "n"
        BY <2>1, <3>2
      <3>4. QED
        BY <3>2, <3>3 DEF d
    <2>4. \A j \in 1..2 : Append(a, "n")[j] = c[j]
      BY <2>2, <2>3
    <2>5. Append(a, "n") = c
      BY <2>2, <2>3, <2>4, SeqEqual
    <2>6. QED
      BY <2>5 DEF a, c
  <1>2. ASSUME Append(buf, b) = <<"6", "n">>
        PROVE  b = "n" /\ buf = <<"6">>
    <2>1. /\ Len(Append(buf, b)) = Len(buf) + 1 /\ Len(buf) \in Nat
          /\ \A j \in 1..Len(buf) : Append(buf, b)[j] = buf[j]
          /\ Append(buf, b)[Len(buf) + 1] = b
      BY AppendProperties
    <2>11. Len(Append(buf, b)) = 2
      BY <1>2
    <2> DEFINE c == Append(buf, b)
    <2> HIDE DEF c
    <2>2. Len(buf) = 1
      <3>1. \A m \in Nat : m + 1 = 2 => m = 1
        OBVIOUS
      <3>2. QED
        BY <2>1, <2>11, <3>1, Zenon
    <2>3. Append(buf, b)[1] = buf[1] /\ Append(buf, b)[2] = b
      <3>1. c[1] = buf[1] /\ c[Len(buf) + 1] = b /\ Len(buf) + 1 = 2
        BY <2>1, <2>2 DEF c
      <3>2. QED
        BY <3>1 DEF c
    <2>4. buf[1] = "6" /\ b = "n"
      BY <1>2, <2>3
    <2>5. \A j \in 1..Len(buf) : buf[j] = <<"6">>[j]
      BY <2>2, <2>4
    <2>6. <<"6">> \in Seq(Bytes) /\ Len(<<"6">>) = 1
      BY DEF Bytes
    <2>7. QED
      BY <2>2, <2>4, <2>5, <2>6, SeqEqual
  <1>3. QED
    BY <1>1, <1>2

\* A control sequence of the terminal.
LEMMA CsiRuns ==
  ASSUME NEW base \in Scanner("dsr"), NEW s \in Seq(Bytes), NEW h, Run("dsr", base, s, h),
         NEW i \in Nat, i > 2, i <= Len(s) + 1, s[i - 2] = "ESC", s[i - 1] = "[",
         NEW o \in Seq(Bytes), NEW n \in Nat, h[i - 1] = Sc("Csi", <<>>, o, n)
  PROVE  Ends(s, h, i, o, n, CsiAt(s, i))
  <1> DEFINE Stop == {p \in i..Len(s) : s[p] \in Finals \/ p - i >= MaxCsi}
             e == First(Stop)
             Good == {m \in Nat : (\A p \in Stop : i + m <= p) /\ i - 1 + m <= Len(s)
                                     => h[i - 1 + m] = Sc("Csi", SubSeq(s, i, i - 1 + m), o, n)}
  <1>0. Len(s) \in Nat /\ i \in Nat \ {0}
    OBVIOUS
  <1>1. Stop \subseteq Nat \ {0}
    OBVIOUS
  <1>2. 0 \in Good
    <2>1. i - 1 + 0 = i - 1 /\ SubSeq(s, i, i - 1) = <<>>
      BY <1>0
    <2>2. h[i - 1 + 0] = Sc("Csi", SubSeq(s, i, i - 1 + 0), o, n)
      BY <2>1
    <2>3. QED
      BY <2>2
  <1>3. ASSUME NEW m \in Nat, m \in Good
        PROVE  m + 1 \in Good
    <2> SUFFICES ASSUME \A p \in Stop : i + (m + 1) <= p, i - 1 + (m + 1) <= Len(s)
                 PROVE  h[i - 1 + (m + 1)] = Sc("Csi", SubSeq(s, i, i - 1 + (m + 1)), o, n)
      OBVIOUS
    <2> DEFINE q == i + m
    <2>1. q \in 1..Len(s) /\ q \in i..Len(s) /\ q - 1 = i - 1 + m /\ i - 1 + (m + 1) = q /\ q \in Nat
      BY <1>0
    <2>2. q \notin Stop
      BY <2>1
    <2>3. s[q] \notin Finals /\ ~(q - i >= MaxCsi)
      BY <2>1, <2>2
    <2>4. h[q - 1] = Sc("Csi", SubSeq(s, i, q - 1), o, n)
      BY <1>3, <2>1
    <2> HIDE DEF Stop, q, Good
    <2>5. Len(SubSeq(s, i, q - 1)) = q - i /\ SubSeq(s, i, q) = Append(SubSeq(s, i, q - 1), s[q])
      BY <1>0, <2>1, Pieces
    <2>6. s[q] # "n"
      BY <2>3 DEF Finals
    <2>7. DsrDelta("Csi", SubSeq(s, i, q - 1), s[q]) = D("Csi", SubSeq(s, i, q), <<>>, 0)
      BY <2>3, <2>5, <2>6 DEF DsrDelta
    <2>8. h[q] = Sc("Csi", SubSeq(s, i, q), o, n)
      BY <2>1, <2>4, <2>7, RunDelta
    <2>9. QED
      BY <2>1, <2>8
  <1>4. \A m \in 0..(Len(s) + 1 - i) : m \in Good
    <2> HIDE DEF Good
    <2>1. Len(s) + 1 - i \in Nat
      BY <1>0
    <2>2. QED
      BY <1>2, <1>3, <2>1, InductionUpTo
  <1>45. ASSUME NEW q \in (i - 1)..Len(s), \A p \in Stop : q < p
         PROVE  h[q] = Sc("Csi", SubSeq(s, i, q), o, n)
    <2> DEFINE m == q + 1 - i
    <2>1. m \in 0..(Len(s) + 1 - i) /\ i - 1 + m = q /\ i + m = q + 1
      BY <1>0
    <2>2. m \in Good
      BY <1>4, <2>1
    <2> HIDE DEF m
    <2>3. \A p \in Stop : i + m <= p
      BY <1>45, <2>1
    <2>4. i - 1 + m <= Len(s)
      BY <1>0, <2>1
    <2> HIDE DEF Stop
    <2>5. h[i - 1 + m] = Sc("Csi", SubSeq(s, i, i - 1 + m), o, n)
      BY <2>2, <2>3, <2>4
    <2>6. QED
      BY <2>1, <2>5
  <1> HIDE DEF Good
  <1>5. CASE e = 0
    <2>1. Stop = {}
      BY <1>1, <1>5, FirstOf
    <2>2. Len(s) \in (i - 1)..Len(s)
      BY <1>0
    <2>3. h[Len(s)] = Sc("Csi", SubSeq(s, i, Len(s)), o, n)
      BY <1>45, <2>1, <2>2
    <2>4. CsiAt(s, i) = Stretch(0, <<>>, 0)
      BY <1>5 DEF CsiAt
    <2>5. QED
      BY <2>3, <2>4, EndsCases
  <1>6. CASE e # 0
    <2>1. e \in Stop /\ \A q \in Stop : e <= q
      BY <1>1, <1>6, FirstOf
    <2>2. e \in i..Len(s) /\ (s[e] \in Finals \/ e - i >= MaxCsi)
      BY <2>1
    <2>3. e - 1 \in (i - 1)..Len(s) /\ e \in Nat /\ e \in 1..Len(s) /\ \A q \in Stop : e - 1 < q
      <3> HIDE DEF e
      <3>1. QED
        BY <1>0, <1>1, <2>1, <2>2
    <2>4. h[e - 1] = Sc("Csi", SubSeq(s, i, e - 1), o, n)
      BY <1>45, <2>3
    <2>5. CsiAt(s, i) = IF SubSeq(s, i, e) = <<"6", "n">> THEN Stretch(e, <<>>, 1)
                        ELSE Stretch(e, SubSeq(s, i - 2, e), 0)
      BY <1>6 DEF CsiAt
    <2> HIDE DEF Stop, e, Good
    <2> DEFINE buf == SubSeq(s, i, e - 1)
               all == SubSeq(s, i, e)
               raw == SubSeq(s, i - 2, e)
    <2>6. /\ all = Append(buf, s[e]) /\ all = buf \o <<s[e]>>
          /\ buf \in Seq(Bytes) /\ Len(buf) = e - i
          /\ raw = <<"ESC", "[">> \o all
      <3>1. e - 1 \in Nat /\ i - 1 <= e - 1 /\ e - 1 <= Len(s) /\ i - 1 <= e /\ e <= Len(s) /\ i <= e
        BY <2>3, <2>2
      <3>2. buf \in Seq(Bytes) /\ Len(buf) = (e - 1) - i + 1
        BY <1>0, <3>1, Pieces
      <3>3. all = Append(buf, s[e]) /\ all = buf \o <<s[e]>> /\ raw = <<s[i - 2], s[i - 1]>> \o all
        BY <1>0, <2>3, <3>1, Pieces
      <3>4. QED
        BY <1>0, <2>3, <3>2, <3>3
    <2>61. raw \in Seq(Bytes) /\ s[e] \in Bytes
      BY <1>0, <2>3
    <2> HIDE DEF buf, all, raw
    <2>62. h[e - 1] = Sc("Csi", buf, o, n)
      BY <2>4 DEF buf
    <2>63. /\ \A to, bf, by, m : DsrDelta("Csi", buf, s[e]) = D(to, bf, by, m) => h[e] = Sc(to, bf, o \o by, n + m)
      <3>1. "dsr" \in {"dsr", "osc"}
        OBVIOUS
      <3>2. QED
        BY <2>3, <2>62, <3>1, RunDelta
    <2>7. CASE s[e] = "n" /\ buf = <<"6">>
      <3>1. all = <<"6", "n">>
        BY <2>6, <2>61, <2>7, QueryEnds
      <3>2. DsrDelta("Csi", buf, s[e]) = D("Normal", <<>>, <<>>, 1)
        BY <2>7 DEF DsrDelta
      <3>3. h[e] = Sc("Normal", <<>>, o \o <<>>, n + 1)
        BY <2>63, <3>2
      <3>4. CsiAt(s, i) = Stretch(e, <<>>, 1) /\ <<>> \in Seq(Bytes) /\ 1 \in Nat
        BY <2>5, <3>1 DEF all
      <3>5. QED
        BY <2>2, <3>3, <3>4, EndsCases
    <2>8. CASE ~(s[e] = "n" /\ buf = <<"6">>)
      <3>1. all # <<"6", "n">>
        <4>1. ASSUME all = <<"6", "n">>
              PROVE  s[e] = "n" /\ buf = <<"6">>
          BY <2>6, <2>61, <4>1, QueryEnds
        <4>2. QED
          BY <2>8, <4>1
      <3>2. DsrDelta("Csi", buf, s[e]) = D("Normal", <<>>, <<"ESC", "[">> \o buf \o <<s[e]>>, 0)
        BY <2>2, <2>6, <2>8 DEF DsrDelta
      <3>3. (<<"ESC", "[">> \o buf) \o <<s[e]>> = raw
        <4>1. <<"ESC", "[">> \in Seq(Bytes) /\ <<s[e]>> \in Seq(Bytes)
          BY <2>61 DEF Bytes
        <4>2. (<<"ESC", "[">> \o buf) \o <<s[e]>> = <<"ESC", "[">> \o (buf \o <<s[e]>>)
          BY <2>6, <4>1, Joined
        <4>3. QED
          BY <2>6, <4>2, Zenon
      <3>4. h[e] = Sc("Normal", <<>>, o \o raw, n + 0)
        BY <2>63, <3>2, <3>3
      <3>5. CsiAt(s, i) = Stretch(e, raw, 0) /\ 0 \in Nat
        BY <2>5, <3>1 DEF all, raw
      <3>6. QED
        BY <2>2, <2>61, <3>4, <3>5, EndsCases
    <2>9. QED
      BY <2>7, <2>8
  <1>7. QED
    BY <1>5, <1>6

\* The rest of a sequence that grew too long.
LEMMA OverflowRuns ==
  ASSUME NEW base \in Scanner("osc"), NEW s \in Seq(Bytes), NEW h, Run("osc", base, s, h),
         NEW i \in Nat \ {0}, NEW t \in Nat, i <= t, t <= Len(s),
         NEW o \in Seq(Bytes), NEW n \in Nat, h[t] = Sc("OscOverflow", <<>>, o, n)
  PROVE  Ends(s, h, i, o, n, Stretch(LongEnd(s, t), <<>>, 0))
  <1> DEFINE Closes(p) == \/ s[p] = "BEL" /\ ~(p > t + 1 /\ s[p - 1] = "ESC")
                          \/ s[p] = "\\" /\ p > t + 1 /\ s[p - 1] = "ESC"
             Stop == {p \in (t + 1)..Len(s) : Closes(p)}
             e == First(Stop)
             At(q) == IF q > t /\ s[q] = "ESC" THEN "OscOverflowEsc" ELSE "OscOverflow"
             Good == {m \in Nat : (\A p \in Stop : t + m < p) /\ t + m <= Len(s)
                                    => h[t + m] = Sc(At(t + m), <<>>, o, n)}
  <1>0. Len(s) \in Nat /\ "osc" \in {"dsr", "osc"}
    OBVIOUS
  <1>1. Stop \subseteq Nat \ {0}
    OBVIOUS
  <1>2. 0 \in Good
    <2>1. t + 0 = t /\ At(t + 0) = "OscOverflow"
      OBVIOUS
    <2> HIDE DEF At
    <2>2. h[t + 0] = Sc(At(t + 0), <<>>, o, n)
      BY <2>1
    <2>3. QED
      BY <2>2
  <1>25. ASSUME NEW q \in (t + 1)..Len(s), h[q - 1] = Sc(At(q - 1), <<>>, o, n)
         PROVE  /\ Closes(q) => h[q] = Sc("Normal", <<>>, o, n)
                /\ ~Closes(q) => h[q] = Sc(At(q), <<>>, o, n)
    <2>1. q \in 1..Len(s)
      BY <1>0
    <2>2. \A to : OscDelta(At(q - 1), <<>>, s[q]) = D(to, <<>>, <<>>, 0) => h[q] = Sc(to, <<>>, o, n)
      <3> HIDE DEF At
      <3>1. QED
        BY <1>0, <1>25, <2>1, RunDelta
    <2>3. Closes(q) => OscDelta(At(q - 1), <<>>, s[q]) = D("Normal", <<>>, <<>>, 0)
      BY DEF OscDelta
    <2>4. ~Closes(q) => OscDelta(At(q - 1), <<>>, s[q]) = D(At(q), <<>>, <<>>, 0)
      BY DEF OscDelta
    <2> HIDE DEF At, Closes
    <2>5. QED
      BY <2>2, <2>3, <2>4
  <1>3. ASSUME NEW m \in Nat, m \in Good
        PROVE  m + 1 \in Good
    <2> HIDE DEF At
    <2> SUFFICES ASSUME \A p \in Stop : t + (m + 1) < p, t + (m + 1) <= Len(s)
                 PROVE  h[t + (m + 1)] = Sc(At(t + (m + 1)), <<>>, o, n)
      OBVIOUS
    <2> DEFINE q == t + m + 1
    <2>1. q \in (t + 1)..Len(s) /\ q - 1 = t + m /\ t + (m + 1) = q
      BY <1>0
    <2>2. h[q - 1] = Sc(At(q - 1), <<>>, o, n)
      BY <1>3, <2>1
    <2>3. q \notin Stop
      BY <2>1
    <2>4. ~Closes(q)
      BY <2>1, <2>3
    <2> HIDE DEF q, Closes, Stop, Good
    <2>5. h[q] = Sc(At(q), <<>>, o, n)
      BY <1>25, <2>1, <2>2, <2>4
    <2>6. QED
      BY <2>1, <2>5
  <1>4. \A m \in 0..(Len(s) - t) : m \in Good
    <2> HIDE DEF Good
    <2>1. Len(s) - t \in Nat
      BY <1>0
    <2>2. QED
      BY <1>2, <1>3, <2>1, InductionUpTo
  <1> HIDE DEF At
  <1>5. ASSUME NEW q \in t..Len(s), \A p \in Stop : q < p
        PROVE  h[q] = Sc(At(q), <<>>, o, n)
    <2> DEFINE m == q - t
    <2>1. m \in 0..(Len(s) - t) /\ t + m = q /\ q <= Len(s)
      BY <1>0
    <2>2. m \in Good
      BY <1>4, <2>1
    <2> HIDE DEF m, Stop
    <2>3. QED
      BY <1>5, <2>1, <2>2
  <1> HIDE DEF Good
  <1>6. LongEnd(s, t) = e
    BY DEF LongEnd
  <1>7. CASE e = 0
    <2>1. Stop = {}
      BY <1>1, <1>7, FirstOf
    <2>2. Len(s) \in t..Len(s)
      BY <1>0
    <2>3. h[Len(s)] = Sc(At(Len(s)), <<>>, o, n)
      BY <1>5, <2>1, <2>2
    <2> HIDE DEF e
    <2>4. QED
      BY <1>6, <1>7, <2>3, EndsCases
  <1>8. CASE e # 0
    <2>1. e \in Stop /\ \A q \in Stop : e <= q
      BY <1>1, <1>8, FirstOf
    <2>2. e \in (t + 1)..Len(s) /\ Closes(e)
      BY <2>1
    <2> HIDE DEF e, Closes
    <2>3. e - 1 \in t..Len(s) /\ e \in i..Len(s) /\ \A q \in Stop : e - 1 < q
      BY <1>0, <1>1, <2>1, <2>2
    <2>4. h[e - 1] = Sc(At(e - 1), <<>>, o, n)
      BY <1>5, <2>3
    <2>5. h[e] = Sc("Normal", <<>>, o, n)
      BY <1>25, <2>2, <2>4
    <2>6. o \o <<>> = o /\ n + 0 = n /\ <<>> \in Seq(Bytes) /\ 0 \in Nat
      OBVIOUS
    <2>7. h[e] = Sc("Normal", <<>>, o \o <<>>, n + 0)
      BY <2>5, <2>6
    <2>8. QED
      BY <1>6, <2>3, <2>6, <2>7, EndsCases
  <1>9. QED
    BY <1>7, <1>8

\* A byte does not fit into a sequence from i on.
Long(s, i, p) == p >= i + MaxOsc /\ ~EndsOsc(s, i, p) /\ (s[p] = "ESC" => Odd(s, i, p))

\* The scanner inside a sequence from i on, after the byte at q.
Inside(s, h, i, o, n, q) ==
  IF Odd(s, i, q + 1) THEN q >= i /\ s[q] = "ESC" /\ h[q] = Sc("OscEsc", SubSeq(s, i, q - 1), o, n)
  ELSE h[q] = Sc("Osc", SubSeq(s, i, q), o, n)

\* The payload of a sequence from i to q, and what is shown of it.
Payload(s, i, q) == SubSeq(s, i, IF s[q] = "BEL" THEN q - 1 ELSE q - 2)
Visible(s, i, q) ==
  IF Payload(s, i, q) # <<>> /\ Payload(s, i, q)[1] = "5111" THEN <<>> ELSE SubSeq(s, i - 2, q)

\* A byte of a sequence ends it, is one too many, or goes into the buffer.
LEMMA InsideStep ==
  ASSUME NEW base \in Scanner("osc"), NEW s \in Seq(Bytes), NEW h, Run("osc", base, s, h),
         NEW i \in Nat, i > 2, s[i - 2] = "ESC", s[i - 1] = "]",
         NEW o \in Seq(Bytes), NEW n \in Nat,
         NEW q \in i..Len(s), Inside(s, h, i, o, n, q - 1)
  PROVE  /\ EndsOsc(s, i, q) =>
              h[q] = Sc("Normal", <<>>, o \o Visible(s, i, q), n + Hit(Payload(s, i, q)))
         /\ Long(s, i, q) => h[q] = Sc("OscOverflow", <<>>, o, n)
         /\ ~EndsOsc(s, i, q) /\ ~Long(s, i, q) => Inside(s, h, i, o, n, q)
  <1>0. /\ Len(s) \in Nat /\ i \in Nat \ {0} /\ q \in Nat /\ q \in 1..Len(s) /\ i <= q /\ (q - 1) + 1 = q
        /\ "osc" \in {"dsr", "osc"} /\ s[q] \in Bytes /\ MaxOsc \in Nat
    <2>1. MaxOsc \in Nat
      BY BridgeAssumption
    <2>2. QED
      BY <2>1
  <1>1. Odd(s, i, q + 1) <=> (s[q] = "ESC" /\ ~Odd(s, i, q))
    BY <1>0, OddStep
  <1>2. CASE ~Odd(s, i, q)
    <2> DEFINE buf == SubSeq(s, i, q - 1)
               raw == SubSeq(s, i - 2, q)
    <2>1. h[q - 1] = Sc("Osc", buf, o, n)
      BY <1>0, <1>2 DEF Inside
    <2>2. buf \in Seq(Bytes) /\ Len(buf) = q - i
      <3>1. q - 1 \in Nat /\ i - 1 <= q - 1 /\ q - 1 <= Len(s) /\ (q - 1) - i + 1 = q - i
        BY <1>0
      <3>2. QED
        BY <1>0, <3>1, Pieces
    <2>3. SubSeq(s, i, q) = buf \o <<s[q]>> /\ raw = <<"ESC", "]">> \o SubSeq(s, i, q)
      <3>1. i - 1 <= q /\ q <= Len(s) /\ i > 2
        BY <1>0
      <3>2. SubSeq(s, i, q) = buf \o <<s[q]>> /\ raw = <<s[i - 2], s[i - 1]>> \o SubSeq(s, i, q)
        BY <1>0, <3>1, Pieces
      <3>3. QED
        BY <3>2
    <2> HIDE DEF buf, raw
    <2>4. /\ \A to, bf, by, m : OscDelta("Osc", buf, s[q]) = D(to, bf, by, m) => h[q] = Sc(to, bf, o \o by, n + m)
          /\ \A to, bf : OscDelta("Osc", buf, s[q]) = D(to, bf, <<>>, 0) => h[q] = Sc(to, bf, o, n)
      BY <1>0, <2>1, RunDelta
    <2>5. CASE s[q] = "BEL"
      <3>1. EndsOsc(s, i, q) /\ ~Long(s, i, q)
        BY <1>2, <2>5 DEF EndsOsc, Long
      <3>2. OscDelta("Osc", buf, s[q]) = D("Normal", <<>>, Shown(buf, <<"BEL">>), Hit(buf))
        BY <2>5 DEF OscDelta
      <3>3. h[q] = Sc("Normal", <<>>, o \o Shown(buf, <<"BEL">>), n + Hit(buf))
        BY <2>4, <3>2
      <3>4. (<<"ESC", "]">> \o buf) \o <<"BEL">> = raw
        <4>1. <<"ESC", "]">> \in Seq(Bytes) /\ <<"BEL">> \in Seq(Bytes)
          BY DEF Bytes
        <4>2. (<<"ESC", "]">> \o buf) \o <<"BEL">> = <<"ESC", "]">> \o (buf \o <<"BEL">>)
          BY <2>2, <4>1, Joined
        <4>3. QED
          BY <2>3, <2>5, <4>2, Zenon
      <3>5. Shown(buf, <<"BEL">>) = IF buf # <<>> /\ buf[1] = "5111" THEN <<>> ELSE raw
        BY <3>4, Zenon DEF Shown
      <3>6. Payload(s, i, q) = buf
        BY <2>5 DEF buf, Payload
      <3>7. QED
        BY <3>1, <3>3, <3>5, <3>6, Zenon DEF raw, Visible
    <2>6. CASE s[q] = "ESC"
      <3>1. ~EndsOsc(s, i, q) /\ ~Long(s, i, q) /\ Odd(s, i, q + 1)
        BY <1>1, <1>2, <2>6 DEF EndsOsc, Long
      <3>2. OscDelta("Osc", buf, s[q]) = D("OscEsc", buf, <<>>, 0)
        BY <2>6 DEF OscDelta
      <3>3. h[q] = Sc("OscEsc", buf, o, n)
        BY <2>4, <3>2
      <3>4. QED
        BY <1>0, <2>6, <3>1, <3>3 DEF Inside, buf
    <2>7. CASE s[q] \notin {"BEL", "ESC"}
      <3>1. ~EndsOsc(s, i, q) /\ (Long(s, i, q) <=> q >= i + MaxOsc) /\ ~Odd(s, i, q + 1)
        BY <1>1, <1>2, <2>7 DEF EndsOsc, Long
      <3>2. CASE Long(s, i, q)
        <4>1. ~(Len(buf) < MaxOsc)
          BY <1>0, <2>2, <3>1, <3>2
        <4>2. OscDelta("Osc", buf, s[q]) = D("OscOverflow", <<>>, <<>>, 0)
          BY <2>7, <4>1 DEF OscDelta
        <4>3. QED
          BY <2>4, <3>1, <3>2, <4>2
      <3>3. CASE ~Long(s, i, q)
        <4>1. Len(buf) < MaxOsc
          BY <1>0, <2>2, <3>1, <3>3
        <4>2. OscDelta("Osc", buf, s[q]) = D("Osc", buf \o <<s[q]>>, <<>>, 0)
          BY <2>7, <4>1 DEF OscDelta
        <4>3. h[q] = Sc("Osc", SubSeq(s, i, q), o, n)
          BY <2>3, <2>4, <4>2
        <4>4. QED
          BY <3>1, <3>3, <4>3 DEF Inside
      <3>4. QED
        BY <3>2, <3>3
    <2>8. QED
      BY <2>5, <2>6, <2>7
  <1>3. CASE Odd(s, i, q)
    <2> DEFINE buf == SubSeq(s, i, q - 2)
               raw == SubSeq(s, i - 2, q)
    <2>1. q - 1 >= i /\ s[q - 1] = "ESC" /\ h[q - 1] = Sc("OscEsc", SubSeq(s, i, (q - 1) - 1), o, n)
      BY <1>0, <1>3 DEF Inside
    <2>11. h[q - 1] = Sc("OscEsc", buf, o, n)
      <3>1. (q - 1) - 1 = q - 2
        BY <1>0
      <3>2. QED
        BY <2>1, <3>1
    <2>2. buf \in Seq(Bytes) /\ Len(buf) = q - i - 1
      <3>1. q - 2 \in Nat /\ i - 1 <= q - 2 /\ q - 2 <= Len(s) /\ (q - 2) - i + 1 = q - i - 1
        BY <1>0, <2>1
      <3>2. QED
        BY <1>0, <3>1, Pieces
    <2>3. SubSeq(s, i, q) = buf \o <<"ESC", s[q]>> /\ raw = <<"ESC", "]">> \o SubSeq(s, i, q)
      <3>1. i - 1 <= q /\ q <= Len(s) /\ i > 2 /\ i < q
        BY <1>0, <2>1
      <3>2. SubSeq(s, i, q) = buf \o <<s[q - 1], s[q]>> /\ raw = <<s[i - 2], s[i - 1]>> \o SubSeq(s, i, q)
        BY <1>0, <3>1, Pieces
      <3>3. QED
        BY <2>1, <3>2
    <2> HIDE DEF buf, raw
    <2>4. /\ \A to, bf, by, m : OscDelta("OscEsc", buf, s[q]) = D(to, bf, by, m) => h[q] = Sc(to, bf, o \o by, n + m)
          /\ \A to, bf : OscDelta("OscEsc", buf, s[q]) = D(to, bf, <<>>, 0) => h[q] = Sc(to, bf, o, n)
      BY <1>0, <2>11, RunDelta
    <2>5. CASE s[q] = "\\"
      <3>1. EndsOsc(s, i, q) /\ ~Long(s, i, q)
        BY <1>3, <2>5 DEF EndsOsc, Long
      <3>2. OscDelta("OscEsc", buf, s[q]) = D("Normal", <<>>, Shown(buf, <<"ESC", "\\">>), Hit(buf))
        BY <2>5 DEF OscDelta
      <3>3. h[q] = Sc("Normal", <<>>, o \o Shown(buf, <<"ESC", "\\">>), n + Hit(buf))
        BY <2>4, <3>2
      <3>4. (<<"ESC", "]">> \o buf) \o <<"ESC", "\\">> = raw
        <4>1. <<"ESC", "]">> \in Seq(Bytes) /\ <<"ESC", "\\">> \in Seq(Bytes)
          BY DEF Bytes
        <4>2. (<<"ESC", "]">> \o buf) \o <<"ESC", "\\">> = <<"ESC", "]">> \o (buf \o <<"ESC", "\\">>)
          BY <2>2, <4>1, Joined
        <4>3. QED
          BY <2>3, <2>5, <4>2, Zenon
      <3>5. Shown(buf, <<"ESC", "\\">>) = IF buf # <<>> /\ buf[1] = "5111" THEN <<>> ELSE raw
        BY <3>4, Zenon DEF Shown
      <3>6. Payload(s, i, q) = buf
        BY <2>5 DEF buf, Payload
      <3>7. QED
        BY <3>1, <3>3, <3>5, <3>6, Zenon DEF raw, Visible
    <2>6. CASE s[q] # "\\"
      <3>1. ~EndsOsc(s, i, q) /\ (Long(s, i, q) <=> q >= i + MaxOsc) /\ ~Odd(s, i, q + 1)
        BY <1>1, <1>3, <2>6 DEF EndsOsc, Long
      <3>2. CASE Long(s, i, q)
        <4>1. ~(Len(buf) + 2 <= MaxOsc)
          BY <1>0, <2>2, <3>1, <3>2
        <4>2. OscDelta("OscEsc", buf, s[q]) = D("OscOverflow", <<>>, <<>>, 0)
          BY <2>6, <4>1 DEF OscDelta
        <4>3. QED
          BY <2>4, <3>1, <3>2, <4>2
      <3>3. CASE ~Long(s, i, q)
        <4>1. Len(buf) + 2 <= MaxOsc
          BY <1>0, <2>2, <3>1, <3>3
        <4>2. OscDelta("OscEsc", buf, s[q]) = D("Osc", buf \o <<"ESC", s[q]>>, <<>>, 0)
          BY <2>6, <4>1 DEF OscDelta
        <4>3. h[q] = Sc("Osc", SubSeq(s, i, q), o, n)
          BY <2>3, <2>4, <4>2
        <4>4. QED
          BY <3>1, <3>3, <4>3 DEF Inside
      <3>4. QED
        BY <3>2, <3>3
    <2>7. QED
      BY <2>5, <2>6
  <1>4. QED
    BY <1>2, <1>3

\* An operating system command.
LEMMA OscRuns ==
  ASSUME NEW base \in Scanner("osc"), NEW s \in Seq(Bytes), NEW h, Run("osc", base, s, h),
         NEW i \in Nat, i > 2, i <= Len(s) + 1, s[i - 2] = "ESC", s[i - 1] = "]",
         NEW o \in Seq(Bytes), NEW n \in Nat, h[i - 1] = Sc("Osc", <<>>, o, n)
  PROVE  Ends(s, h, i, o, n, OscAt(s, i))
  <1> DEFINE Closing == {p \in i..Len(s) : EndsOsc(s, i, p)}
             Late    == {p \in (i + MaxOsc)..Len(s) :
                           ~EndsOsc(s, i, p) /\ (s[p] = "ESC" => Odd(s, i, p))}
             e == OscEnd(s, i)
             t == TooLong(s, i)
             Clear(q) == (\A p \in Closing : q < p) /\ (\A p \in Late : q < p)
             Good == {m \in Nat : Clear(i - 1 + m) /\ i - 1 + m <= Len(s)
                                    => Inside(s, h, i, o, n, i - 1 + m)}
  <1>0. Len(s) \in Nat /\ i \in Nat \ {0} /\ MaxOsc \in Nat
    <2>1. MaxOsc \in Nat
      BY BridgeAssumption
    <2>2. QED
      BY <2>1
  <1>1. Closing \subseteq Nat \ {0} /\ Late \subseteq Nat \ {0} /\ Late \subseteq i..Len(s)
    BY <1>0
  <1>2. e = First(Closing) /\ t = First(Late)
    BY DEF OscEnd, TooLong
  <1>3. ASSUME NEW q \in i..Len(s)
        PROVE  (q \in Closing <=> EndsOsc(s, i, q)) /\ (q \in Late <=> Long(s, i, q))
    BY <1>0 DEF Long
  <1>4. 0 \in Good
    <2>1. i - 1 + 0 = i - 1 /\ (i - 1) + 1 = i /\ SubSeq(s, i, i - 1) = <<>>
      BY <1>0
    <2>2. ~Odd(s, i, i)
      BY <1>0, OddStep
    <2>3. Inside(s, h, i, o, n, i - 1)
      BY <2>1, <2>2 DEF Inside
    <2> HIDE DEF Clear
    <2>4. QED
      BY <2>1, <2>3
  <1>5. ASSUME NEW m \in Nat, m \in Good
        PROVE  m + 1 \in Good
    <2> SUFFICES ASSUME Clear(i - 1 + (m + 1)), i - 1 + (m + 1) <= Len(s)
                 PROVE  Inside(s, h, i, o, n, i - 1 + (m + 1))
      OBVIOUS
    <2> DEFINE q == i + m
    <2>1. q \in i..Len(s) /\ q - 1 = i - 1 + m /\ i - 1 + (m + 1) = q
      BY <1>0
    <2>2. Clear(q) /\ Clear(q - 1)
      <3> HIDE DEF Closing, Late, Good, q
      <3>1. Clear(q)
        BY <2>1
      <3>2. QED
        BY <1>1, <2>1, <3>1
    <2>3. q \notin Closing /\ q \notin Late
      <3> HIDE DEF Closing, Late, Good, q
      <3>1. QED
        BY <1>1, <2>1, <2>2
    <2> HIDE DEF q, Clear, Closing, Late
    <2>4. Inside(s, h, i, o, n, q - 1)
      <3>1. i - 1 + m <= Len(s)
        BY <1>0, <2>1
      <3>2. QED
        BY <1>5, <2>1, <2>2, <3>1
    <2>5. ~EndsOsc(s, i, q) /\ ~Long(s, i, q)
      BY <1>3, <2>1, <2>3
    <2> HIDE DEF Good
    <2>6. Inside(s, h, i, o, n, q)
      BY <2>1, <2>4, <2>5, InsideStep
    <2>7. QED
      BY <2>1, <2>6
  <1>6. \A m \in 0..(Len(s) + 1 - i) : m \in Good
    <2> HIDE DEF Good
    <2>1. Len(s) + 1 - i \in Nat
      BY <1>0
    <2>2. QED
      BY <1>4, <1>5, <2>1, InductionUpTo
  <1>7. ASSUME NEW q \in (i - 1)..Len(s), Clear(q)
        PROVE  Inside(s, h, i, o, n, q)
    <2> DEFINE m == q + 1 - i
    <2>1. m \in 0..(Len(s) + 1 - i) /\ i - 1 + m = q /\ q <= Len(s)
      BY <1>0
    <2>2. m \in Good
      BY <1>6, <2>1
    <2> HIDE DEF m, Clear
    <2>3. QED
      BY <1>7, <2>1, <2>2
  <1> HIDE DEF Good
  <1>8. /\ e = 0 => Closing = {}
        /\ e # 0 => e \in Closing /\ \A q \in Closing : e <= q
        /\ t = 0 => Late = {}
        /\ t # 0 => t \in Late /\ \A q \in Late : t <= q
    <2> HIDE DEF Closing, Late, e, t
    <2>1. QED
      BY <1>1, <1>2, FirstOf
  <1> DEFINE payload == Payload(s, i, e)
  <1>9. OscAt(s, i) =
          IF t # 0 /\ (e = 0 \/ t < e) THEN Stretch(LongEnd(s, t), <<>>, 0)
          ELSE IF e = 0 THEN Stretch(0, <<>>, 0)
          ELSE IF payload # <<>> /\ payload[1] = "5111"
            THEN Stretch(e, <<>>, IF IsDownload(Tail(payload)) THEN 1 ELSE 0)
          ELSE Stretch(e, SubSeq(s, i - 2, e), 0)
    BY DEF OscAt, Payload
  <1> HIDE DEF Closing, Late, e, t
  <1>10. CASE t # 0 /\ (e = 0 \/ t < e)
    <2>1. t \in Late /\ t \in i..Len(s) /\ t \in Nat
      BY <1>0, <1>1, <1>8, <1>10
    <2>2. Clear(t - 1)
      <3>1. \A p \in Late : t - 1 < p
        BY <1>1, <1>8, <1>10, <2>1
      <3>2. \A p \in Closing : t - 1 < p
        <4> TAKE p \in Closing
        <4>1. e # 0 /\ t < e /\ e <= p /\ e \in Nat /\ p \in Nat
          BY <1>1, <1>8, <1>10
        <4>2. QED
          BY <2>1, <4>1
      <3>3. QED
        BY <3>1, <3>2
    <2> HIDE DEF Clear
    <2>3. Inside(s, h, i, o, n, t - 1)
      <3>1. t - 1 \in (i - 1)..Len(s)
        BY <1>0, <2>1
      <3>2. QED
        BY <1>7, <2>2, <3>1
    <2>4. h[t] = Sc("OscOverflow", <<>>, o, n)
      <3>1. Long(s, i, t)
        BY <1>3, <2>1
      <3>2. QED
        BY <2>1, <2>3, <3>1, InsideStep
    <2>5. Ends(s, h, i, o, n, Stretch(LongEnd(s, t), <<>>, 0))
      <3>1. i <= t /\ t <= Len(s)
        BY <1>0, <2>1
      <3>2. QED
        BY <1>0, <2>1, <2>4, <3>1, OverflowRuns
    <2>6. QED
      BY <1>9, <1>10, <2>5
  <1>11. CASE ~(t # 0 /\ (e = 0 \/ t < e)) /\ e = 0
    <2>1. Closing = {} /\ Late = {}
      BY <1>8, <1>11
    <2>2. Len(s) \in (i - 1)..Len(s) /\ Clear(Len(s))
      BY <1>0, <2>1
    <2>3. Inside(s, h, i, o, n, Len(s))
      <3> HIDE DEF Clear
      <3>1. QED
        BY <1>7, <2>2
    <2>4. \E st, buf : h[Len(s)] = Sc(st, buf, o, n)
      BY <2>3 DEF Inside
    <2>5. QED
      BY <1>9, <1>11, <2>4, EndsCases
  <1>12. CASE ~(t # 0 /\ (e = 0 \/ t < e)) /\ e # 0
    <2>1. e \in Closing /\ e \in i..Len(s) /\ e \in Nat /\ e \notin Late
      <3>1. e \in Closing /\ e \in i..Len(s) /\ EndsOsc(s, i, e)
        BY <1>8, <1>12 DEF Closing
      <3>2. ~Long(s, i, e)
        BY <3>1 DEF Long
      <3>3. QED
        BY <1>0, <1>3, <3>1, <3>2
    <2>2. Clear(e - 1)
      <3>1. \A p \in Closing : e - 1 < p
        BY <1>1, <1>8, <1>12, <2>1
      <3>2. \A p \in Late : e - 1 < p
        <4> TAKE p \in Late
        <4>1. t # 0 /\ ~(t < e) /\ t <= p /\ t \in Nat /\ p \in Nat
          BY <1>1, <1>8, <1>12
        <4>2. QED
          BY <2>1, <4>1
      <3>3. QED
        BY <3>1, <3>2
    <2> HIDE DEF Clear
    <2>3. Inside(s, h, i, o, n, e - 1)
      <3>1. e - 1 \in (i - 1)..Len(s)
        BY <1>0, <2>1
      <3>2. QED
        BY <1>7, <2>2, <3>1
    <2> DEFINE raw == SubSeq(s, i - 2, e)
    <2>4. h[e] = Sc("Normal", <<>>, o \o Visible(s, i, e), n + Hit(payload))
      <3>1. EndsOsc(s, i, e)
        BY <1>3, <2>1
      <3>2. QED
        BY <2>1, <2>3, <3>1, InsideStep
    <2>5. raw \in Seq(Bytes) /\ <<>> \in Seq(Bytes)
      BY <1>0, <2>1
    <2> HIDE DEF payload, raw
    <2>6. CASE payload # <<>> /\ payload[1] = "5111"
      <3>1. OscAt(s, i) = Stretch(e, <<>>, Hit(payload)) /\ Hit(payload) \in Nat
        BY <1>9, <1>12, <2>6 DEF Hit
      <3>2. h[e] = Sc("Normal", <<>>, o \o <<>>, n + Hit(payload))
        BY <2>4, <2>6 DEF Visible, payload
      <3>3. QED
        BY <2>1, <2>5, <3>1, <3>2, EndsCases
    <2>7. CASE ~(payload # <<>> /\ payload[1] = "5111")
      <3>1. OscAt(s, i) = Stretch(e, raw, 0) /\ Hit(payload) = 0 /\ 0 \in Nat
        BY <1>9, <1>12, <2>7 DEF Hit, raw
      <3>2. h[e] = Sc("Normal", <<>>, o \o raw, n + 0)
        BY <2>4, <2>7, <3>1 DEF Visible, payload, raw
      <3>3. QED
        BY <2>1, <2>5, <3>1, <3>2, EndsCases
    <2>8. QED
      BY <2>6, <2>7
  <1>13. QED
    BY <1>10, <1>11, <1>12

-----------------------------------------------------------------------------
(* The reference: the whole text.                                          *)

Mark(k) == IF k = "dsr" THEN "[" ELSE "]"

StretchAt(k, s, i) ==
  IF s[i] # "ESC" THEN Stretch(i, <<s[i]>>, 0)
  ELSE IF i = Len(s) THEN Stretch(0, <<>>, 0)
  ELSE IF s[i + 1] = Mark(k) THEN IF k = "dsr" THEN CsiAt(s, i + 2) ELSE OscAt(s, i + 2)
  ELSE Stretch(i + 1, SubSeq(s, i, i + 1), 0)

\* A stretch of text leaves the scanner as the reference says.
LEMMA StretchRuns ==
  ASSUME NEW k \in {"dsr", "osc"}, NEW base \in Scanner(k), NEW s \in Seq(Bytes),
         NEW h, Run(k, base, s, h), NEW i \in 1..Len(s),
         NEW o \in Seq(Bytes), NEW n \in Nat, h[i - 1] = Sc("Normal", <<>>, o, n)
  PROVE  Ends(s, h, i, o, n, StretchAt(k, s, i))
  <1> DEFINE Del(st, j) == IF k = "dsr" THEN DsrDelta(st, <<>>, s[j]) ELSE OscDelta(st, <<>>, s[j])
  <1>0. Len(s) \in Nat /\ i \in Nat /\ 0 \in Nat
    OBVIOUS
  <1>1. /\ \A to, bf, by, m : Del("Normal", i) = D(to, bf, by, m) => h[i] = Sc(to, bf, o \o by, n + m)
        /\ \A to, bf : Del("Normal", i) = D(to, bf, <<>>, 0) => h[i] = Sc(to, bf, o, n)
    BY RunDelta
  <1>2. CASE s[i] # "ESC"
    <2>1. Del("Normal", i) = D("Normal", <<>>, <<s[i]>>, 0)
      BY <1>2 DEF DsrDelta, OscDelta
    <2> HIDE DEF Del
    <2>2. h[i] = Sc("Normal", <<>>, o \o <<s[i]>>, n + 0)
      BY <1>1, <2>1
    <2>3. StretchAt(k, s, i) = Stretch(i, <<s[i]>>, 0) /\ <<s[i]>> \in Seq(Bytes) /\ i \in i..Len(s)
      BY <1>0, <1>2 DEF StretchAt
    <2>4. QED
      BY <1>0, <2>2, <2>3, EndsCases
  <1>3. CASE s[i] = "ESC"
    <2>1. Del("Normal", i) = D("Esc", <<>>, <<>>, 0)
      BY <1>3 DEF DsrDelta, OscDelta
    <2>2. h[i] = Sc("Esc", <<>>, o, n)
      <3> HIDE DEF Del
      <3>1. QED
        BY <1>1, <2>1
    <2>3. CASE i = Len(s)
      <3>1. StretchAt(k, s, i) = Stretch(0, <<>>, 0)
        BY <1>3, <2>3 DEF StretchAt
      <3>2. QED
        BY <2>2, <2>3, <3>1, EndsCases
    <2>4. CASE i # Len(s)
      <3>0. i + 1 \in 1..Len(s) /\ (i + 1) - 1 = i /\ i + 1 \in i..Len(s) /\ s[i + 1] \in Bytes
        BY <1>0, <2>4
      <3>1. /\ \A to, bf, by, m : Del("Esc", i + 1) = D(to, bf, by, m) => h[i + 1] = Sc(to, bf, o \o by, n + m)
            /\ \A to, bf : Del("Esc", i + 1) = D(to, bf, <<>>, 0) => h[i + 1] = Sc(to, bf, o, n)
        <4>1. h[(i + 1) - 1] = Sc("Esc", <<>>, o, n)
          BY <2>2, <3>0
        <4> DEFINE j == i + 1
        <4> HIDE DEF j
        <4>2. j \in 1..Len(s) /\ h[j - 1] = Sc("Esc", <<>>, o, n)
          BY <3>0, <4>1 DEF j
        <4>3. /\ \A to, bf, by, m : Del("Esc", j) = D(to, bf, by, m) => h[j] = Sc(to, bf, o \o by, n + m)
              /\ \A to, bf : Del("Esc", j) = D(to, bf, <<>>, 0) => h[j] = Sc(to, bf, o, n)
          BY <4>2, RunDelta
        <4>4. QED
          BY <4>3 DEF j
      <3>2. CASE s[i + 1] # Mark(k)
        <4>1. Del("Esc", i + 1) = D("Normal", <<>>, <<"ESC", s[i + 1]>>, 0)
          BY <3>2 DEF DsrDelta, OscDelta, Mark
        <4> HIDE DEF Del
        <4>2. h[i + 1] = Sc("Normal", <<>>, o \o <<"ESC", s[i + 1]>>, n + 0)
          BY <3>1, <4>1
        <4>3. SubSeq(s, i, i + 1) = <<"ESC", s[i + 1]>> /\ <<"ESC", s[i + 1]>> \in Seq(Bytes)
          <5>1. /\ SubSeq(s, i, i + 1) \in Seq(Bytes) /\ Len(SubSeq(s, i, i + 1)) = 2
                /\ SubSeq(s, i, i + 1)[1] = "ESC" /\ SubSeq(s, i, i + 1)[2] = s[i + 1]
            BY <1>0, <1>3, <3>0
          <5> DEFINE a == SubSeq(s, i, i + 1)
                     b == s[i + 1]
                     c == <<"ESC", b>>
          <5>2. b \in Bytes
            BY <3>0
          <5> HIDE DEF a, b
          <5>3. c \in Seq(Bytes) /\ Len(c) = 2 /\ c[1] = "ESC" /\ c[2] = b
            BY <5>2 DEF Bytes
          <5> HIDE DEF c
          <5>4. a \in Seq(Bytes) /\ Len(a) = 2 /\ a[1] = "ESC" /\ a[2] = b
            BY <5>1 DEF a, b
          <5>5. \A j \in 1..2 : a[j] = c[j]
            BY <5>3, <5>4
          <5>6. a = c
            BY <5>3, <5>4, <5>5, SeqEqual
          <5>7. QED
            BY <5>3, <5>6 DEF a, b, c
        <4>4. StretchAt(k, s, i) = Stretch(i + 1, <<"ESC", s[i + 1]>>, 0)
          BY <1>3, <2>4, <3>2, <4>3 DEF StretchAt
        <4>5. QED
          BY <1>0, <3>0, <4>2, <4>3, <4>4, EndsCases
      <3>3. CASE s[i + 1] = Mark(k)
        <4> DEFINE i2 == i + 2
        <4>1. /\ i2 \in Nat /\ i2 > 2 /\ i2 <= Len(s) + 1 /\ i2 - 2 = i /\ i2 - 1 = i + 1
              /\ i2..Len(s) \subseteq i..Len(s)
          BY <1>0, <3>0
        <4>2. Del("Esc", i + 1) = D(IF k = "dsr" THEN "Csi" ELSE "Osc", <<>>, <<>>, 0)
          BY <3>3 DEF DsrDelta, OscDelta, Mark
        <4>3. h[i + 1] = Sc(IF k = "dsr" THEN "Csi" ELSE "Osc", <<>>, o, n)
          <5> HIDE DEF Del
          <5>1. QED
            BY <3>1, <4>2
        <4>4. StretchAt(k, s, i) = IF k = "dsr" THEN CsiAt(s, i2) ELSE OscAt(s, i2)
          BY <1>3, <2>4, <3>3 DEF StretchAt
        <4> HIDE DEF i2
        <4>5. CASE k = "dsr"
          <5>1. s[i2 - 2] = "ESC" /\ s[i2 - 1] = "[" /\ h[i2 - 1] = Sc("Csi", <<>>, o, n)
            BY <1>3, <3>3, <4>1, <4>3, <4>5 DEF Mark
          <5>2. Ends(s, h, i2, o, n, CsiAt(s, i2))
            BY <4>1, <4>5, <5>1, CsiRuns
          <5>3. StretchAt(k, s, i) = CsiAt(s, i2)
            BY <4>4, <4>5
          <5>4. QED
            BY <4>1, <5>2, <5>3 DEF Ends
        <4>6. CASE k = "osc"
          <5>1. s[i2 - 2] = "ESC" /\ s[i2 - 1] = "]" /\ h[i2 - 1] = Sc("Osc", <<>>, o, n)
            BY <1>3, <3>3, <4>1, <4>3, <4>6 DEF Mark
          <5>2. Ends(s, h, i2, o, n, OscAt(s, i2))
            BY <4>1, <4>6, <5>1, OscRuns
          <5>3. StretchAt(k, s, i) = OscAt(s, i2)
            BY <4>4, <4>6
          <5>4. QED
            BY <4>1, <5>2, <5>3 DEF Ends
        <4>7. QED
          BY <4>5, <4>6
      <3>4. QED
        BY <3>2, <3>3
    <2>5. QED
      BY <2>3, <2>4
  <1>4. QED
    BY <1>2, <1>3

\* A stretch ends behind its beginning and within the text, if it ends.
LEMMA StretchEnds ==
  ASSUME NEW k \in {"dsr", "osc"}, NEW s \in Seq(Bytes), NEW i \in 1..Len(s)
  PROVE  StretchAt(k, s, i).end = 0 \/ StretchAt(k, s, i).end \in i..Len(s)
  <1>0. Len(s) \in Nat /\ i \in Nat /\ MaxOsc \in Nat /\ MaxCsi \in Nat
    <2>1. MaxOsc \in Nat /\ MaxCsi \in Nat
      BY BridgeAssumption
    <2>2. QED
      BY <2>1
  <1>1. \A e, sh, ht : Stretch(e, sh, ht).end = e
    BY DEF Stretch
  <1>2. ASSUME NEW S, S \subseteq i..Len(s)
        PROVE  First(S) = 0 \/ First(S) \in i..Len(s)
    <2>1. S \subseteq Nat \ {0}
      BY <1>0, <1>2
    <2>2. QED
      BY <1>2, <2>1, FirstOf
  <1>3. CASE s[i] # "ESC"
    BY <1>0, <1>1, <1>3 DEF StretchAt
  <1>4. CASE s[i] = "ESC" /\ (i = Len(s) \/ s[i + 1] # Mark(k))
    BY <1>0, <1>1, <1>4 DEF StretchAt
  <1>5. CASE s[i] = "ESC" /\ i # Len(s) /\ s[i + 1] = Mark(k) /\ k = "dsr"
    <2> DEFINE S == {p \in (i + 2)..Len(s) : s[p] \in Finals \/ p - (i + 2) >= MaxCsi}
    <2>1. S \subseteq i..Len(s)
      BY <1>0
    <2>2. StretchAt(k, s, i) = CsiAt(s, i + 2)
      BY <1>5 DEF StretchAt
    <2>3. CsiAt(s, i + 2).end = 0 \/ CsiAt(s, i + 2).end = First(S)
      BY <1>1 DEF CsiAt
    <2> HIDE DEF S
    <2>4. QED
      BY <1>2, <2>1, <2>2, <2>3
  <1>6. CASE s[i] = "ESC" /\ i # Len(s) /\ s[i + 1] = Mark(k) /\ k = "osc"
    <2>1. StretchAt(k, s, i) = OscAt(s, i + 2)
      BY <1>6 DEF StretchAt
    <2> DEFINE j == i + 2
               e == OscEnd(s, j)
               t == TooLong(s, j)
    <2>2. \/ OscAt(s, j).end = 0
          \/ OscAt(s, j).end = e
          \/ t # 0 /\ OscAt(s, j).end = LongEnd(s, t)
      BY <1>1 DEF OscAt
    <2>3. e = 0 \/ e \in i..Len(s)
      <3> DEFINE S == {p \in j..Len(s) : EndsOsc(s, j, p)}
      <3>1. S \subseteq i..Len(s) /\ e = First(S)
        BY <1>0 DEF OscEnd
      <3> HIDE DEF S
      <3>2. QED
        BY <1>2, <3>1
    <2>4. t = 0 \/ t \in i..Len(s)
      <3> DEFINE S == {p \in (j + MaxOsc)..Len(s) : ~EndsOsc(s, j, p) /\ (s[p] = "ESC" => Odd(s, j, p))}
      <3>1. S \subseteq i..Len(s) /\ t = First(S)
        BY <1>0 DEF TooLong
      <3> HIDE DEF S
      <3>2. QED
        BY <1>2, <3>1
    <2> HIDE DEF e, t, j
    <2>5. t # 0 => LongEnd(s, t) = 0 \/ LongEnd(s, t) \in i..Len(s)
      <3> SUFFICES ASSUME t # 0
                   PROVE  LongEnd(s, t) = 0 \/ LongEnd(s, t) \in i..Len(s)
        OBVIOUS
      <3> DEFINE S == {p \in (t + 1)..Len(s) :
                         \/ s[p] = "BEL" /\ ~(p > t + 1 /\ s[p - 1] = "ESC")
                         \/ s[p] = "\\" /\ p > t + 1 /\ s[p - 1] = "ESC"}
      <3>1. S \subseteq i..Len(s) /\ LongEnd(s, t) = First(S)
        BY <1>0, <2>4 DEF LongEnd
      <3> HIDE DEF S
      <3>2. QED
        BY <1>2, <3>1
    <2>6. QED
      BY <2>1, <2>2, <2>3, <2>5 DEF j
  <1>7. QED
    BY <1>3, <1>4, <1>5, <1>6

\* The function the reference reads with, from any position on.
Nothing == [shown |-> <<>>, hits |-> 0]
Rest(k, s, f, i) ==
  LET st == StretchAt(k, s, i) IN
  IF i > Len(s) \/ st.end = 0 THEN Nothing
  ELSE [shown |-> st.shown \o f[st.end + 1].shown, hits |-> st.hit + f[st.end + 1].hits]
Reads(k, s, f) == f = [i \in 1..(Len(s) + 1) |-> Rest(k, s, f, i)]

Reading(k, s) == IF k = "dsr" THEN Read(s, "[", CsiAt) ELSE Read(s, "]", OscAt)

\* There is one.
LEMMA ReadsExists ==
  ASSUME NEW k \in {"dsr", "osc"}, NEW s \in Seq(Bytes)
  PROVE  \E f : Reads(k, s, f)
  <1> DEFINE N == Len(s) + 1
             Good == {m \in Nat : \E f : f = [i \in (N - m)..N |-> Rest(k, s, f, i)]}
  <1>0. Len(s) \in Nat /\ N \in Nat
    OBVIOUS
  <1>1. 0 \in Good
    <2> DEFINE f == [i \in (N - 0)..N |-> Nothing]
    <2>1. ASSUME NEW i \in (N - 0)..N
          PROVE  Rest(k, s, f, i) = Nothing
      <3>1. i > Len(s)
        BY <1>0
      <3>2. QED
        BY <3>1 DEF Rest
    <2>2. f = [i \in (N - 0)..N |-> Rest(k, s, f, i)]
      BY <2>1
    <2> HIDE DEF f
    <2>3. QED
      BY <2>2
  <1>2. ASSUME NEW m \in Nat, m < Len(s), m \in Good
        PROVE  m + 1 \in Good
    <2>1. PICK f : f = [i \in (N - m)..N |-> Rest(k, s, f, i)]
      BY <1>2
    <2> DEFINE g == [i \in (N - (m + 1))..N |-> IF i \in (N - m)..N THEN f[i] ELSE Rest(k, s, f, i)]
    <2>2. ASSUME NEW i \in (N - (m + 1))..N
          PROVE  Rest(k, s, g, i) = Rest(k, s, f, i)
      <3>1. CASE i > Len(s)
        BY <3>1 DEF Rest
      <3>2. CASE i <= Len(s) /\ StretchAt(k, s, i).end = 0
        BY <3>2 DEF Rest
      <3>3. CASE i <= Len(s) /\ StretchAt(k, s, i).end # 0
        <4> DEFINE x == StretchAt(k, s, i).end + 1
        <4>1. i \in 1..Len(s)
          BY <1>0, <1>2, <3>3
        <4>2. StretchAt(k, s, i).end \in i..Len(s)
          BY <3>3, <4>1, StretchEnds
        <4>3. x \in (N - m)..N /\ x \in (N - (m + 1))..N
          BY <1>0, <1>2, <4>2
        <4> HIDE DEF x
        <4>4. g[x] = f[x]
          BY <4>3
        <4> HIDE DEF g
        <4>5. QED
          BY <4>4 DEF Rest, x
      <3>4. QED
        BY <1>0, <1>2, <3>1, <3>2, <3>3
    <2>3. ASSUME NEW i \in (N - (m + 1))..N
          PROVE  g[i] = Rest(k, s, g, i)
      <3>1. g[i] = Rest(k, s, f, i)
        <4>1. CASE i \in (N - m)..N
          <5>1. f[i] = Rest(k, s, f, i)
            BY <2>1, <4>1
          <5>2. QED
            BY <4>1, <5>1
        <4>2. CASE i \notin (N - m)..N
          BY <4>2
        <4>3. QED
          BY <4>1, <4>2
      <3> HIDE DEF g
      <3>2. QED
        BY <2>2, <3>1
    <2>4. g = [i \in (N - (m + 1))..N |-> Rest(k, s, g, i)]
      BY <2>3
    <2> HIDE DEF g
    <2>5. \E w : w = [i \in (N - (m + 1))..N |-> Rest(k, s, w, i)]
      BY <2>4
    <2>6. m + 1 \in Nat
      OBVIOUS
    <2>7. QED
      BY <2>5, <2>6
  <1>3. Len(s) \in Good
    <2> HIDE DEF Good
    <2>1. \A j \in 0..Len(s) : j \in Good
      BY <1>0, <1>1, <1>2, InductionUpTo
    <2>2. QED
      BY <1>0, <2>1
  <1>4. N - Len(s) = 1
    BY <1>0
  <1>5. PICK f : f = [i \in (N - Len(s))..N |-> Rest(k, s, f, i)]
    BY <1>3
  <1>6. Reads(k, s, f)
    BY <1>4, <1>5 DEF Reads
  <1>7. QED
    BY <1>6

\* The reference is what such a function gives for the first position.
LEMMA ReadingIs ==
  ASSUME NEW k \in {"dsr", "osc"}, NEW s \in Seq(Bytes)
  PROVE  \E f : Reads(k, s, f) /\ Reading(k, s) = f[1]
  <1> DEFINE w == CHOOSE f : Reads(k, s, f)
  <1>1. Reads(k, s, w)
    BY ReadsExists
  <1>2. CASE k = "dsr"
    <2> DEFINE Body(f, i) ==
          LET st == IF s[i] # "ESC" THEN Stretch(i, <<s[i]>>, 0)
                    ELSE IF i = Len(s) THEN Stretch(0, <<>>, 0)
                    ELSE IF s[i + 1] = "[" THEN CsiAt(s, i + 2)
                    ELSE Stretch(i + 1, SubSeq(s, i, i + 1), 0)
          IN  IF i > Len(s) \/ st.end = 0 THEN [shown |-> <<>>, hits |-> 0]
              ELSE [shown |-> st.shown \o f[st.end + 1].shown,
                    hits  |-> st.hit + f[st.end + 1].hits]
    <2>1. \A f, i : Body(f, i) = Rest(k, s, f, i)
      BY <1>2 DEF Rest, Nothing, StretchAt, Mark
    <2> DEFINE P(f) == f = [i \in 1..(Len(s) + 1) |-> Body(f, i)]
    <2>2. Read(s, "[", CsiAt) = (CHOOSE f : P(f))[1]
      BY DEF Read
    <2> HIDE DEF Body
    <2>3. \A f : P(f) <=> Reads(k, s, f)
      BY <2>1 DEF Reads
    <2> HIDE DEF P
    <2>4. (CHOOSE f : P(f)) = w
      BY <2>3
    <2> HIDE DEF w
    <2>5. Reading(k, s) = w[1]
      BY <1>2, <2>2, <2>4 DEF Reading
    <2>6. QED
      BY <1>1, <2>5
  <1>3. CASE k = "osc"
    <2> DEFINE Body(f, i) ==
          LET st == IF s[i] # "ESC" THEN Stretch(i, <<s[i]>>, 0)
                    ELSE IF i = Len(s) THEN Stretch(0, <<>>, 0)
                    ELSE IF s[i + 1] = "]" THEN OscAt(s, i + 2)
                    ELSE Stretch(i + 1, SubSeq(s, i, i + 1), 0)
          IN  IF i > Len(s) \/ st.end = 0 THEN [shown |-> <<>>, hits |-> 0]
              ELSE [shown |-> st.shown \o f[st.end + 1].shown,
                    hits  |-> st.hit + f[st.end + 1].hits]
    <2>1. \A f, i : Body(f, i) = Rest(k, s, f, i)
      BY <1>3 DEF Rest, Nothing, StretchAt, Mark
    <2> DEFINE P(f) == f = [i \in 1..(Len(s) + 1) |-> Body(f, i)]
    <2>2. Read(s, "]", OscAt) = (CHOOSE f : P(f))[1]
      BY DEF Read
    <2> HIDE DEF Body
    <2>3. \A f : P(f) <=> Reads(k, s, f)
      BY <2>1 DEF Reads
    <2> HIDE DEF P
    <2>4. (CHOOSE f : P(f)) = w
      BY <2>3
    <2> HIDE DEF w
    <2>5. Reading(k, s) = w[1]
      BY <1>3, <2>2, <2>4 DEF Reading
    <2>6. QED
      BY <1>1, <2>5
  <1>4. QED
    BY <1>2, <1>3

\* The scanner ends with o and n and what the reference reads from i on.
Continues(s, h, f, i, o, n) ==
  \E sh \in Seq(Bytes), ht \in Nat :
    /\ f[i] = [shown |-> sh, hits |-> ht]
    /\ h[Len(s)].out = o \o sh /\ h[Len(s)].hits = n + ht

\* From a position between two sequences on, the scanner does what the
\* reference reads from there.
LEMMA RestRuns ==
  ASSUME NEW k \in {"dsr", "osc"}, NEW base \in Scanner(k), NEW s \in Seq(Bytes),
         NEW h, Run(k, base, s, h), NEW f, Reads(k, s, f)
  PROVE  \A i \in 1..(Len(s) + 1), o \in Seq(Bytes), n \in Nat :
           h[i - 1] = Sc("Normal", <<>>, o, n) => Continues(s, h, f, i, o, n)
  <1> DEFINE N == Len(s) + 1
             Does(i) == \A o \in Seq(Bytes), n \in Nat :
                          h[i - 1] = Sc("Normal", <<>>, o, n) =>
                            \E sh \in Seq(Bytes), ht \in Nat :
                              /\ f[i] = [shown |-> sh, hits |-> ht]
                              /\ h[Len(s)].out = o \o sh /\ h[Len(s)].hits = n + ht
             Good == {m \in Nat : \A i \in (N - m)..N : Does(i)}
  <1>0. Len(s) \in Nat /\ N \in Nat /\ N - 1 = Len(s)
    OBVIOUS
  <1>1. \A i \in 1..N : f[i] = Rest(k, s, f, i)
    BY DEF Reads
  <1>2. \A o \in Seq(Bytes), n \in Nat : o \o <<>> = o /\ n + 0 = n /\ <<>> \in Seq(Bytes) /\ 0 \in Nat
    OBVIOUS
  <1>3. Does(N)
    <2> SUFFICES ASSUME NEW o \in Seq(Bytes), NEW n \in Nat, h[N - 1] = Sc("Normal", <<>>, o, n)
                 PROVE  \E sh \in Seq(Bytes), ht \in Nat :
                          /\ f[N] = [shown |-> sh, hits |-> ht]
                          /\ h[Len(s)].out = o \o sh /\ h[Len(s)].hits = n + ht
      OBVIOUS
    <2>1. h[Len(s)].out = o /\ h[Len(s)].hits = n
      <3>1. h[Len(s)] = Sc("Normal", <<>>, o, n)
        BY <1>0
      <3>2. QED
        BY <3>1 DEF Sc
    <2>2. f[N] = Nothing
      <3>1. N > Len(s) /\ N \in 1..N
        BY <1>0
      <3>2. QED
        BY <1>1, <3>1 DEF Rest
    <2> HIDE DEF N
    <2>3. QED
      BY <1>2, <2>1, <2>2 DEF Nothing
  <1>4. 0 \in Good
    <2> HIDE DEF Does
    <2>1. \A i \in (N - 0)..N : i = N
      BY <1>0
    <2>2. QED
      BY <1>3, <2>1
  <1>5. ASSUME NEW m \in Nat, m < Len(s), m \in Good
        PROVE  m + 1 \in Good
    <2> DEFINE x == N - (m + 1)
    <2>1. x \in 1..Len(s) /\ x \in 1..N /\ x <= Len(s) /\ x + 1 = N - m
      BY <1>0, <1>5
    <2>2. \A i \in (x + 1)..N : Does(i)
      <3> HIDE DEF Does
      <3>1. QED
        BY <1>5, <2>1
    <2> HIDE DEF Good
    <2>3. Does(x)
      <3> SUFFICES ASSUME NEW o \in Seq(Bytes), NEW n \in Nat, h[x - 1] = Sc("Normal", <<>>, o, n)
                   PROVE  \E sh \in Seq(Bytes), ht \in Nat :
                            /\ f[x] = [shown |-> sh, hits |-> ht]
                            /\ h[Len(s)].out = o \o sh /\ h[Len(s)].hits = n + ht
        OBVIOUS
      <3> HIDE DEF x, Does
      <3> DEFINE st == StretchAt(k, s, x)
      <3>1. Ends(s, h, x, o, n, st)
        BY <2>1, StretchRuns
      <3>2. f[x] = Rest(k, s, f, x)
        BY <1>1, <2>1
      <3>3. CASE st.end = 0
        <4>1. h[Len(s)].out = o /\ h[Len(s)].hits = n
          BY <1>0, <2>1, <3>1, <3>3 DEF Ends
        <4>2. f[x] = Nothing
          BY <3>2, <3>3 DEF Rest
        <4>3. QED
          BY <1>2, <4>1, <4>2 DEF Nothing
      <3>4. CASE st.end # 0
        <4>1. /\ st.end \in x..Len(s) /\ st.shown \in Seq(Bytes) /\ st.hit \in Nat
              /\ h[st.end] = Sc("Normal", <<>>, o \o st.shown, n + st.hit)
          BY <3>1, <3>4 DEF Ends
        <4> DEFINE y == st.end + 1
        <4>2. f[x] = [shown |-> st.shown \o f[y].shown, hits |-> st.hit + f[y].hits]
          <5>1. ~(x > Len(s))
            BY <1>0, <2>1
          <5>2. QED
            BY <3>2, <3>4, <5>1 DEF Rest
        <4> HIDE DEF st
        <4>3. y \in (x + 1)..N /\ y - 1 = st.end
          BY <1>0, <2>1, <4>1
        <4> HIDE DEF y, N
        <4> DEFINE o2 == o \o st.shown
                   n2 == n + st.hit
        <4>4. o2 \in Seq(Bytes) /\ n2 \in Nat
          BY <4>1, ConcatProperties
        <4>5. h[y - 1] = Sc("Normal", <<>>, o2, n2)
          BY <4>1, <4>3
        <4> HIDE DEF o2, n2
        <4>6. PICK sh \in Seq(Bytes), ht \in Nat :
                /\ f[y] = [shown |-> sh, hits |-> ht]
                /\ h[Len(s)].out = o2 \o sh /\ h[Len(s)].hits = n2 + ht
          BY <2>2, <4>3, <4>4, <4>5 DEF Does
        <4>7. f[x] = [shown |-> st.shown \o sh, hits |-> st.hit + ht]
          BY <4>2, <4>6
        <4>8. /\ st.shown \o sh \in Seq(Bytes) /\ st.hit + ht \in Nat
              /\ o2 \o sh = o \o (st.shown \o sh) /\ n2 + ht = n + (st.hit + ht)
          <5>1. st.shown \o sh \in Seq(Bytes)
            BY <4>1, ConcatProperties
          <5>2. (o \o st.shown) \o sh = o \o (st.shown \o sh)
            BY <4>1, Joined
          <5>3. st.hit + ht \in Nat /\ (n + st.hit) + ht = n + (st.hit + ht)
            BY <4>1
          <5>4. QED
            BY <5>1, <5>2, <5>3 DEF o2, n2
        <4>9. QED
          BY <4>6, <4>7, <4>8
      <3>5. QED
        BY <3>3, <3>4
    <2>4. \A i \in (N - (m + 1))..N : Does(i)
      <3> HIDE DEF Does
      <3>1. \A i \in (N - (m + 1))..N : i = x \/ i \in (x + 1)..N
        BY <1>0, <2>1
      <3>2. QED
        BY <2>2, <2>3, <3>1
    <2> HIDE DEF Does
    <2>5. m + 1 \in Nat
      OBVIOUS
    <2>6. QED
      BY <2>4, <2>5 DEF Good
  <1>6. Len(s) \in Good
    <2> HIDE DEF Good
    <2>1. \A j \in 0..Len(s) : j \in Good
      BY <1>0, <1>4, <1>5, InductionUpTo
    <2>2. QED
      BY <1>0, <2>1
  <1>7. \A i \in 1..N : Does(i)
    <2> HIDE DEF Does
    <2>1. N - Len(s) = 1
      BY <1>0
    <2>2. QED
      BY <1>6, <2>1
  <1>8. QED
    BY <1>7 DEF Continues

\* A scanner fed a whole text puts out what the reference shows of it, and
\* finds the requests the reference finds.
THEOREM ScannerReads ==
  ASSUME NEW k \in {"dsr", "osc"}, NEW s \in Seq(Bytes)
  PROVE  LET fed == Feed(k, Resume(Fresh), s) IN
         Reading(k, s) = [shown |-> fed.out, hits |-> fed.hits]
  <1> DEFINE base == Resume(Fresh)
             fed  == Feed(k, base, s)
  <1>1. base \in Scanner(k) /\ base = Sc("Normal", <<>>, <<>>, 0)
    BY ResumeTyped
  <1> HIDE DEF base
  <1>2. PICK h : Run(k, base, s, h)
    BY TextRuns
  <1>3. PICK f : Reads(k, s, f) /\ Reading(k, s) = f[1]
    BY ReadingIs
  <1>4. h[0] = base /\ fed = h[Len(s)] /\ Len(s) \in Nat
    BY <1>1, <1>2, RunSteps, FeedRuns
  <1>5. /\ 1 \in 1..(Len(s) + 1) /\ h[1 - 1] = Sc("Normal", <<>>, <<>>, 0)
        /\ <<>> \in Seq(Bytes) /\ 0 \in Nat
    BY <1>1, <1>4
  <1>6. PICK sh \in Seq(Bytes), ht \in Nat :
          /\ f[1] = [shown |-> sh, hits |-> ht]
          /\ h[Len(s)].out = <<>> \o sh /\ h[Len(s)].hits = 0 + ht
    <2>1. base \in Scanner(k)
      BY <1>1
    <2>2. \A i \in 1..(Len(s) + 1), o \in Seq(Bytes), n \in Nat :
            h[i - 1] = Sc("Normal", <<>>, o, n) => Continues(s, h, f, i, o, n)
      BY <1>2, <1>3, <2>1, RestRuns
    <2>3. QED
      BY <1>5, <2>2 DEF Continues
  <1>7. <<>> \o sh = sh /\ 0 + ht = ht
    OBVIOUS
  <1>8. QED
    BY <1>3, <1>4, <1>6, <1>7 DEF base

-----------------------------------------------------------------------------
(* The chunks in the channel, put together.                                *)

Chunks == Seq(Seq(Bytes))

Joining(q, g) == g = [i \in 0..Len(q) |-> IF i = 0 THEN <<>> ELSE g[i - 1] \o q[i]]

\* Chunks can be put together one after the other.
LEMMA JoiningExists ==
  ASSUME NEW q \in Chunks
  PROVE  \E g : Joining(q, g)
  <1> DEFINE Body(g, i) == IF i = 0 THEN <<>> ELSE g[i - 1] \o q[i]
             Good == {m \in Nat : \E g : g = [i \in 0..m |-> Body(g, i)]}
  <1>1. 0 \in Good
    <2> DEFINE f == [j \in 0..0 |-> <<>>]
    <2>1. f = [j \in 0..0 |-> Body(f, j)]
      OBVIOUS
    <2>2. QED
      BY <2>1
  <1>2. ASSUME NEW m \in Nat, m \in Good
        PROVE  m + 1 \in Good
    <2>1. PICK f : f = [j \in 0..m |-> Body(f, j)]
      BY <1>2
    <2> DEFINE g == [j \in 0..(m + 1) |-> IF j <= m THEN f[j] ELSE f[m] \o q[m + 1]]
    <2>2. ASSUME NEW j \in 0..(m + 1)
          PROVE  g[j] = Body(g, j)
      <3>1. CASE j <= m
        <4>0. j \in 0..m
          BY <3>1
        <4>1. f[j] = Body(f, j)
          BY <2>1, <4>0, Zenon
        <4>2. j # 0 => j - 1 \in 0..m /\ g[j - 1] = f[j - 1]
          BY <3>1
        <4>3. g[j] = f[j]
          BY <3>1
        <4> HIDE DEF g
        <4>4. QED
          BY <4>1, <4>2, <4>3
      <3>2. CASE j = m + 1
        <4>1. j # 0 /\ g[j - 1] = f[m] /\ g[j] = f[m] \o q[m + 1]
          BY <3>2
        <4> HIDE DEF g
        <4>2. QED
          BY <3>2, <4>1
      <3>3. QED
        BY <3>1, <3>2
    <2>3. g = [j \in 0..(m + 1) |-> Body(g, j)]
      BY <2>2
    <2> HIDE DEF g
    <2>4. \E w : w = [j \in 0..(m + 1) |-> Body(w, j)]
      BY <2>3
    <2>5. m + 1 \in Nat
      OBVIOUS
    <2>6. QED
      BY <2>4, <2>5
  <1>3. Len(q) \in Nat
    BY DEF Chunks
  <1>4. Len(q) \in Good
    <2> HIDE DEF Good
    <2>1. \A j \in 0..Len(q) : j \in Good
      BY <1>1, <1>2, <1>3, InductionUpTo
    <2>2. QED
      BY <1>3, <2>1
  <1>5. QED
    BY <1>4 DEF Joining

\* The steps of putting them together.
LEMMA JoiningSteps ==
  ASSUME NEW q \in Chunks, NEW g, Joining(q, g)
  PROVE  /\ Len(q) \in Nat
         /\ g[0] = <<>>
         /\ \A i \in 1..Len(q) : g[i] = g[i - 1] \o q[i] /\ q[i] \in Seq(Bytes)
         /\ \A i \in 0..Len(q) : g[i] \in Seq(Bytes)
  <1>1. Len(q) \in Nat /\ \A i \in 1..Len(q) : q[i] \in Seq(Bytes)
    BY DEF Chunks
  <1>2. g[0] = <<>> /\ \A i \in 1..Len(q) : g[i] = g[i - 1] \o q[i]
    BY <1>1 DEF Joining
  <1> DEFINE Good == {j \in Nat : g[j] \in Seq(Bytes)}
  <1>3. 0 \in Good
    <2>1. g[0] = <<>> /\ <<>> \in Seq(Bytes)
      BY <1>2
    <2>2. QED
      BY <2>1
  <1>4. ASSUME NEW j \in Nat, j < Len(q), j \in Good
        PROVE  j + 1 \in Good
    <2>1. j + 1 \in 1..Len(q) /\ (j + 1) - 1 = j
      BY <1>1, <1>4
    <2>2. g[j + 1] = g[j] \o q[j + 1] /\ q[j + 1] \in Seq(Bytes) /\ g[j] \in Seq(Bytes)
      BY <1>1, <1>2, <1>4, <2>1
    <2>3. g[j] \o q[j + 1] \in Seq(Bytes)
      BY <2>2, ConcatProperties
    <2>4. g[j + 1] \in Seq(Bytes)
      BY <2>2, <2>3, Zenon
    <2>5. j + 1 \in Nat
      OBVIOUS
    <2>6. QED
      BY <2>4, <2>5, Zenon
  <1>5. \A j \in 0..Len(q) : j \in Good
    <2> HIDE DEF Good
    <2>1. QED
      BY <1>1, <1>3, <1>4, InductionUpTo
  <1>6. QED
    BY <1>1, <1>2, <1>5

\* FlattenSeq gives what putting them together ends with.
LEMMA FlattenJoins ==
  ASSUME NEW q \in Chunks, NEW g, Joining(q, g)
  PROVE  FlattenSeq(q) = g[Len(q)]
  <1>1. /\ Len(q) \in Nat /\ g[0] = <<>>
        /\ \A i \in 1..Len(q) : g[i] = g[i - 1] \o q[i] /\ q[i] \in Seq(Bytes)
        /\ \A i \in 0..Len(q) : g[i] \in Seq(Bytes)
    BY JoiningSteps
  <1>2. CASE Len(q) = 0
    <2>1. q = <<>>
      BY <1>2 DEF Chunks
    <2>2. QED
      BY <1>1, <1>2, <2>1 DEF FlattenSeq
  <1>3. CASE Len(q) # 0
    <2> DEFINE Body(f, i) == IF i = 1 THEN q[i] ELSE f[i - 1] \o q[i]
               P(f) == f = [i \in 1..Len(q) |-> Body(f, i)]
               w == CHOOSE f : P(f)
               u == [i \in 1..Len(q) |-> g[i]]
    <2>1. FlattenSeq(q) = w[Len(q)]
      BY <1>3 DEF FlattenSeq
    <2>2. P(u)
      <3>1. ASSUME NEW i \in 1..Len(q)
            PROVE  u[i] = Body(u, i)
        <4>1. CASE i = 1
          <5>1. 1 \in 1..Len(q) /\ 1 - 1 = 0
            BY <1>1, <4>1
          <5>2. g[1] = <<>> \o q[1] /\ q[1] \in Seq(Bytes)
            BY <1>1, <5>1
          <5>3. g[1] = q[1]
            BY <5>2, ConcatEmptySeq
          <5>4. QED
            BY <4>1, <5>1, <5>3
        <4>2. CASE i # 1
          <5>1. i - 1 \in 1..Len(q)
            BY <1>1, <4>2
          <5>2. u[i - 1] = g[i - 1] /\ u[i] = g[i]
            BY <5>1
          <5> HIDE DEF u
          <5>3. QED
            BY <1>1, <4>2, <5>2
        <4>3. QED
          BY <4>1, <4>2
      <3>2. QED
        BY <3>1
    <2>3. P(w)
      <3> HIDE DEF P, u
      <3>1. QED
        BY <2>2
    <2> HIDE DEF w, u
    <2> DEFINE Good == {m \in Nat : m + 1 <= Len(q) => w[m + 1] = g[m + 1]}
    <2>4. 0 \in Good
      <3>1. 1 \in 1..Len(q) /\ 0 + 1 = 1 /\ 1 - 1 = 0
        BY <1>1, <1>3
      <3>2. w[1] = q[1]
        BY <2>3, <3>1
      <3>3. g[1] = <<>> \o q[1] /\ q[1] \in Seq(Bytes)
        BY <1>1, <3>1
      <3>4. g[1] = q[1]
        BY <3>3, ConcatEmptySeq
      <3>5. QED
        BY <3>1, <3>2, <3>4
    <2>5. ASSUME NEW m \in Nat, m \in Good
          PROVE  m + 1 \in Good
      <3> SUFFICES ASSUME (m + 1) + 1 <= Len(q)
                   PROVE  w[(m + 1) + 1] = g[(m + 1) + 1]
        OBVIOUS
      <3> DEFINE j == (m + 1) + 1
      <3>1. j \in 1..Len(q) /\ j # 1 /\ j - 1 = m + 1 /\ m + 1 <= Len(q)
        BY <1>1
      <3>2. w[m + 1] = g[m + 1]
        BY <2>5, <3>1
      <3> HIDE DEF j, Good
      <3>3. w[j] = w[j - 1] \o q[j]
        BY <2>3, <3>1
      <3>4. g[j] = g[j - 1] \o q[j]
        BY <1>1, <3>1
      <3>5. w[j] = g[j]
        BY <3>1, <3>2, <3>3, <3>4
      <3>6. QED
        BY <3>5 DEF j
    <2>6. Len(q) - 1 \in Nat
      BY <1>1, <1>3
    <2>7. \A j \in 0..(Len(q) - 1) : j \in Good
      <3> HIDE DEF Good
      <3>1. QED
        BY <2>4, <2>5, <2>6, InductionUpTo
    <2>8. w[Len(q)] = g[Len(q)]
      <3>1. Len(q) - 1 \in 0..(Len(q) - 1) /\ (Len(q) - 1) + 1 = Len(q)
        BY <1>1, <2>6
      <3>2. Len(q) - 1 \in Good
        BY <2>7, <3>1
      <3>3. QED
        BY <1>1, <3>1, <3>2
    <2>9. QED
      BY <2>1, <2>8
  <1>4. QED
    BY <1>2, <1>3

\* A chunk more at the end, and a chunk less at the front.
LEMMA FlattenSteps ==
  ASSUME NEW q \in Chunks, NEW c \in Seq(Bytes)
  PROVE  /\ FlattenSeq(q) \in Seq(Bytes)
         /\ FlattenSeq(<<>>) = <<>>
         /\ Append(q, c) \in Chunks /\ FlattenSeq(Append(q, c)) = FlattenSeq(q) \o c
         /\ q # <<>> => /\ Head(q) \in Seq(Bytes) /\ Tail(q) \in Chunks
                        /\ FlattenSeq(q) = Head(q) \o FlattenSeq(Tail(q))
  <1>1. PICK g : Joining(q, g)
    BY JoiningExists
  <1>2. /\ Len(q) \in Nat /\ g[0] = <<>>
        /\ \A i \in 1..Len(q) : g[i] = g[i - 1] \o q[i] /\ q[i] \in Seq(Bytes)
        /\ \A i \in 0..Len(q) : g[i] \in Seq(Bytes)
    BY <1>1, JoiningSteps
  <1>3. FlattenSeq(q) = g[Len(q)] /\ g[Len(q)] \in Seq(Bytes)
    BY <1>1, <1>2, FlattenJoins
  <1>4. FlattenSeq(<<>>) = <<>>
    BY DEF FlattenSeq
  <1>5. Append(q, c) \in Chunks /\ FlattenSeq(Append(q, c)) = FlattenSeq(q) \o c
    <2> DEFINE r == Append(q, c)
    <2>1. /\ r \in Chunks /\ Len(r) = Len(q) + 1 /\ r[Len(q) + 1] = c
          /\ \A i \in 1..Len(q) : r[i] = q[i]
      BY AppendProperties DEF Chunks
    <2> HIDE DEF r
    <2>2. PICK f : Joining(r, f)
      BY <2>1, JoiningExists
    <2>3. /\ f[0] = <<>>
          /\ \A i \in 1..Len(r) : f[i] = f[i - 1] \o r[i]
      BY <2>1, <2>2, JoiningSteps
    <2> DEFINE Good == {m \in Nat : m <= Len(q) => f[m] = g[m]}
    <2>4. 0 \in Good
      BY <1>2, <2>3
    <2>5. ASSUME NEW m \in Nat, m < Len(q), m \in Good
          PROVE  m + 1 \in Good
      <3> DEFINE j == m + 1
      <3>1. j \in 1..Len(q) /\ j \in 1..Len(r) /\ j - 1 = m
        BY <1>2, <2>1, <2>5
      <3>2. f[m] = g[m]
        BY <2>5
      <3>3. f[j] = f[j - 1] \o r[j] /\ g[j] = g[j - 1] \o q[j] /\ r[j] = q[j]
        BY <1>2, <2>1, <2>3, <3>1
      <3>4. f[j] = g[j]
        BY <3>1, <3>2, <3>3
      <3>5. QED
        BY <3>4
    <2>6. \A j \in 0..Len(q) : j \in Good
      <3> HIDE DEF Good
      <3>1. QED
        BY <1>2, <2>4, <2>5, InductionUpTo
    <2>7. f[Len(q)] = g[Len(q)]
      BY <1>2, <2>6
    <2>8. f[Len(r)] = f[Len(q)] \o c
      <3>1. Len(r) \in 1..Len(r) /\ Len(r) - 1 = Len(q)
        BY <1>2, <2>1
      <3>2. f[Len(r)] = f[Len(r) - 1] \o r[Len(r)]
        BY <2>3, <3>1
      <3>3. r[Len(r)] = c
        BY <2>1
      <3>4. QED
        BY <3>1, <3>2, <3>3
    <2>9. FlattenSeq(r) = f[Len(r)]
      BY <2>1, <2>2, FlattenJoins
    <2>10. FlattenSeq(r) = FlattenSeq(q) \o c
      BY <1>3, <2>7, <2>8, <2>9
    <2>11. QED
      BY <2>1, <2>10 DEF r
  <1>6. ASSUME q # <<>>
        PROVE  /\ Head(q) \in Seq(Bytes) /\ Tail(q) \in Chunks
               /\ FlattenSeq(q) = Head(q) \o FlattenSeq(Tail(q))
    <2> DEFINE r == Tail(q)
               a == Head(q)
    <2>1. /\ r \in Chunks /\ Len(r) = Len(q) - 1 /\ Len(r) \in Nat /\ a = q[1] /\ Len(q) >= 1
          /\ \A i \in 1..Len(r) : r[i] = q[i + 1]
      BY <1>6 DEF Chunks
    <2>2. a \in Seq(Bytes)
      <3> HIDE DEF r, a
      <3>1. 1 \in 1..Len(q)
        BY <1>2, <2>1
      <3>2. QED
        BY <1>2, <2>1, <3>1
    <2> HIDE DEF r, a
    <2>3. PICK f : Joining(r, f)
      BY <2>1, JoiningExists
    <2>4. /\ f[0] = <<>>
          /\ \A i \in 1..Len(r) : f[i] = f[i - 1] \o r[i] /\ r[i] \in Seq(Bytes)
          /\ \A i \in 0..Len(r) : f[i] \in Seq(Bytes)
      BY <2>1, <2>3, JoiningSteps
    <2> DEFINE Good == {m \in Nat : m <= Len(r) => g[m + 1] = a \o f[m]}
    <2>5. 0 \in Good
      <3>1. 1 \in 1..Len(q) /\ 1 - 1 = 0 /\ 0 + 1 = 1
        BY <1>2, <2>1
      <3>2. g[1] = <<>> \o a
        BY <1>2, <2>1, <3>1
      <3>3. g[1] = a \o <<>>
        BY <2>2, <3>2, ConcatEmptySeq
      <3>4. QED
        BY <2>4, <3>1, <3>3
    <2>6. ASSUME NEW m \in Nat, m < Len(r), m \in Good
          PROVE  m + 1 \in Good
      <3> DEFINE j == m + 1
      <3>1. /\ j \in 1..Len(r) /\ j - 1 = m /\ j + 1 \in 1..Len(q) /\ (j + 1) - 1 = j /\ m \in 0..Len(r)
            /\ j = m + 1
        BY <1>2, <2>1, <2>6
      <3>2. g[j] = a \o f[m]
        BY <2>6
      <3> HIDE DEF j, Good
      <3>3. f[j] = f[m] \o r[j] /\ g[j + 1] = g[j] \o q[j + 1] /\ r[j] = q[j + 1] /\ r[j] \in Seq(Bytes)
        BY <1>2, <2>1, <2>4, <3>1
      <3>4. f[m] \in Seq(Bytes)
        BY <2>4, <3>1
      <3>5. (a \o f[m]) \o r[j] = a \o (f[m] \o r[j])
        BY <2>2, <3>3, <3>4, Joined
      <3>6. g[j + 1] = a \o f[j]
        BY <3>2, <3>3, <3>5
      <3>7. QED
        BY <3>1, <3>6 DEF Good
    <2>7. \A j \in 0..Len(r) : j \in Good
      <3> HIDE DEF Good
      <3>1. QED
        BY <2>1, <2>5, <2>6, InductionUpTo
    <2>8. g[Len(q)] = a \o f[Len(r)]
      <3>1. Len(r) \in 0..Len(r) /\ Len(r) + 1 = Len(q)
        BY <1>2, <2>1
      <3>2. QED
        BY <2>7, <3>1
    <2>9. FlattenSeq(r) = f[Len(r)]
      BY <2>1, <2>3, FlattenJoins
    <2>10. QED
      BY <1>3, <2>1, <2>2, <2>8, <2>9 DEF r, a
  <1>7. QED
    BY <1>3, <1>4, <1>5, <1>6

-----------------------------------------------------------------------------
(* The bridge.                                                             *)

\* A scanner fed a text at once.
Whole(k, s) == Feed(k, Resume(Fresh), s)

\* Output, and where the reader thread is with it.
Flow ==
  /\ text \in Seq(Bytes) /\ emitted \in Nat /\ emitted <= Len(text)
  /\ ptyOut \in Seq(Bytes) /\ Len(ptyOut) <= emitted
  /\ ptyOut = SubSeq(text, emitted - Len(ptyOut) + 1, emitted)
  /\ chunk \in Seq(Bytes) /\ outq \in Chunks
  /\ replies \in Nat /\ answered \in Nat
  /\ reader \in {"read", "reply", "send", "done"}
  /\ reader = "reply" <=> replies > 0
  /\ reader \in {"read", "done"} => chunk = <<>>

\* The reader thread is where one feed of all it has read would have left it.
ReadSoFar(w, seen, kept, n, wr) ==
  IF w THEN kept = Kept(Whole("dsr", seen)) /\ (wr # "done" => n = Whole("dsr", seen).hits)
  ELSE n = 0
PassedOn(w, seen) == IF w THEN Whole("dsr", seen).out ELSE seen

\* And so is the session, with all but what is still on its way to it.
FedSoFar(out, flight, kept, fw, n) ==
  \E z \in Seq(Bytes) :
    /\ out = z \o flight
    /\ kept = Kept(Whole("osc", z)) /\ fw = Whole("osc", z).out /\ n = Whole("osc", z).hits

AtOnce ==
  /\ ReadSoFar(windows, Consumed, dsr, answered + replies, writer)
  /\ FedSoFar(PassedOn(windows, Consumed), InFlight, osc, forwarded, started)

BridgeInv == Flow /\ AtOnce

\* A scanner that has been fed nothing.
LEMMA WholeEmpty ==
  ASSUME NEW k \in {"dsr", "osc"}
  PROVE  Kept(Whole(k, <<>>)) = Fresh /\ Whole(k, <<>>).out = <<>> /\ Whole(k, <<>>).hits = 0
  <1>1. <<>> \in Seq(Bytes) /\ Len(<<>>) = 0
    OBVIOUS
  <1>2. PICK h : Run(k, Resume(Fresh), <<>>, h)
    BY <1>1, TextRuns
  <1>3. Whole(k, <<>>) = Sc("Normal", <<>>, <<>>, 0)
    <2>1. Resume(Fresh) \in Scanner(k) /\ Resume(Fresh) = Sc("Normal", <<>>, <<>>, 0)
      BY ResumeTyped
    <2>2. h[0] = Resume(Fresh)
      BY <1>1, <1>2 DEF Run
    <2>3. Feed(k, Resume(Fresh), <<>>) = h[Len(<<>>)]
      BY <1>1, <1>2, FeedRuns
    <2>4. QED
      BY <1>1, <2>1, <2>2, <2>3 DEF Whole
  <1>4. QED
    BY <1>3 DEF Sc, Kept, Fresh

\* The same as lemma FeedJoins, for what has been fed since the start.
LEMMA WholeJoins ==
  ASSUME NEW k \in {"dsr", "osc"}, NEW a \in Seq(Bytes), NEW b \in Seq(Bytes)
  PROVE  LET fed == Feed(k, Resume(Kept(Whole(k, a))), b) IN
         /\ Kept(Whole(k, a \o b)) = Kept(fed)
         /\ Whole(k, a \o b).out = Whole(k, a).out \o fed.out
         /\ Whole(k, a \o b).hits = Whole(k, a).hits + fed.hits
         /\ fed \in Scanner(k) /\ Whole(k, a) \in Scanner(k)
  <1> DEFINE fed == Feed(k, Resume(Kept(Whole(k, a))), b)
             w == Whole(k, a)
  <1>1. Resume(Fresh) \in Scanner(k)
    BY ResumeTyped
  <1>2. w \in Scanner(k) /\ fed \in Scanner(k)
    BY <1>1, FeedTyped, ResumeTyped DEF Whole
  <1>3. Whole(k, a \o b) = After(w.out, w.hits, fed)
    BY <1>1, FeedJoins DEF Whole
  <1> HIDE DEF fed, w
  <1>4. After(w.out, w.hits, fed) = Sc(fed.state, fed.buf, w.out \o fed.out, w.hits + fed.hits)
    BY DEF After
  <1> DEFINE W == Whole(k, a \o b)
  <1> HIDE DEF W
  <1>5. W = Sc(fed.state, fed.buf, w.out \o fed.out, w.hits + fed.hits)
    BY <1>3, <1>4 DEF W
  <1>6. Kept(W) = Kept(fed) /\ W.out = w.out \o fed.out /\ W.hits = w.hits + fed.hits
    BY <1>5 DEF Sc, Kept
  <1>7. QED
    BY <1>2, <1>6 DEF fed, w, W

\* What the threads and the session feed their scanners.
LEMMA Feeds ==
  ASSUME NEW bytes
  PROVE  DsrFeed(bytes) = Feed("dsr", Resume(dsr), bytes) /\ OscFeed(bytes) = Feed("osc", Resume(osc), bytes)
  BY DEF DsrFeed, OscFeed, Feed

\* At the start.
LEMMA InitBridge ==
  ASSUME Init
  PROVE  BridgeInv
  <1>1. text \in Seq(Bytes) /\ Len(text) \in Nat
    BY BridgeAssumption DEF Init
  <1>2. <<>> \in Seq(Bytes) /\ Len(<<>>) = 0 /\ <<>> \o <<>> = <<>> /\ <<>> \in Chunks
    BY DEF Chunks
  <1>3. SubSeq(text, 1, 0) = <<>>
    BY <1>1
  <1>4. Flow
    BY <1>1, <1>2, <1>3 DEF Init, Flow
  <1>5. Consumed = <<>>
    BY <1>3 DEF Consumed, Init
  <1>6. InFlight = <<>>
    BY <1>2, FlattenSteps DEF InFlight, Init
  <1>7. ReadSoFar(windows, Consumed, dsr, answered + replies, writer)
    BY <1>5, WholeEmpty DEF ReadSoFar, Init
  <1>8. PassedOn(windows, Consumed) = <<>>
    BY <1>5, WholeEmpty DEF PassedOn
  <1>9. FedSoFar(<<>>, <<>>, osc, forwarded, started)
    BY <1>2, WholeEmpty DEF FedSoFar, Init
  <1>10. QED
    BY <1>4, <1>6, <1>7, <1>8, <1>9 DEF BridgeInv, AtOnce

\* Steps that are not about output.
LEMMA StillBridge ==
  ASSUME BridgeInv, writer' # "done" => writer # "done",
         UNCHANGED <<windows, text, emitted, ptyOut, readerVars, outq, scan, answered>>
  PROVE  BridgeInv'
  <1> USE DEF readerVars, scan
  <1>1. Flow'
    BY DEF BridgeInv, Flow
  <1>2. Consumed' = Consumed /\ InFlight' = InFlight
    BY DEF Consumed, InFlight
  <1>3. ReadSoFar(windows, Consumed, dsr, answered + replies, writer)'
    BY <1>2 DEF BridgeInv, AtOnce, ReadSoFar
  <1>4. FedSoFar(PassedOn(windows, Consumed), InFlight, osc, forwarded, started)'
    BY <1>2 DEF BridgeInv, AtOnce, FedSoFar, PassedOn
  <1>5. QED
    BY <1>1, <1>3, <1>4 DEF BridgeInv, AtOnce

\* The shell writes: the reader thread has read no more for it.
LEMMA ShellBridge ==
  ASSUME BridgeInv, ShellWrites
  PROVE  BridgeInv'
  <1> DEFINE b == text[emitted + 1]
  <1>1. /\ emitted \in Nat /\ Len(text) \in Nat /\ emitted < Len(text) /\ text \in Seq(Bytes)
        /\ ptyOut \in Seq(Bytes) /\ Len(ptyOut) \in Nat /\ Len(ptyOut) <= emitted
        /\ ptyOut = SubSeq(text, emitted - Len(ptyOut) + 1, emitted)
        /\ emitted' = emitted + 1 /\ ptyOut' = Append(ptyOut, b) /\ text' = text
    BY DEF ShellWrites, BridgeInv, Flow
  <1>2. /\ Len(ptyOut') = Len(ptyOut) + 1 /\ ptyOut' \in Seq(Bytes)
        /\ emitted' - Len(ptyOut') = emitted - Len(ptyOut)
    BY <1>1
  <1>3. ptyOut' = SubSeq(text', emitted' - Len(ptyOut') + 1, emitted')
    <2> DEFINE c == emitted - Len(ptyOut) + 1
    <2>1. c \in Nat \ {0} /\ c - 1 <= emitted + 1 /\ emitted + 1 \in Nat /\ emitted + 1 <= Len(text) /\ c <= emitted + 1
          /\ (emitted + 1) - 1 = emitted
      BY <1>1
    <2> HIDE DEF c
    <2>2. SubSeq(text, c, emitted + 1) = Append(SubSeq(text, c, (emitted + 1) - 1), text[emitted + 1])
      BY <1>1, <2>1, Pieces
    <2>3. SubSeq(text, c, emitted) = ptyOut
      BY <1>1 DEF c
    <2>4. QED
      BY <1>1, <1>2, <2>1, <2>2, <2>3 DEF c
  <1>4. Flow'
    <2>1. UNCHANGED <<chunk, outq, replies, answered, reader>>
      BY DEF ShellWrites, readerVars
    <2>2. /\ chunk \in Seq(Bytes) /\ outq \in Chunks
          /\ replies \in Nat /\ answered \in Nat
          /\ reader \in {"read", "reply", "send", "done"}
          /\ reader = "reply" <=> replies > 0
          /\ reader \in {"read", "done"} => chunk = <<>>
      BY DEF BridgeInv, Flow
    <2>3. /\ text' \in Seq(Bytes) /\ emitted' \in Nat /\ emitted' <= Len(text')
          /\ Len(ptyOut') <= emitted'
      BY <1>1, <1>2
    <2>4. QED
      BY <1>2, <1>3, <2>1, <2>2, <2>3 DEF Flow
  <1>5. Consumed' = Consumed /\ InFlight' = InFlight
    BY <1>1, <1>2 DEF Consumed, InFlight, ShellWrites, readerVars
  <1>6. ReadSoFar(windows, Consumed, dsr, answered + replies, writer)'
    BY <1>5 DEF BridgeInv, AtOnce, ReadSoFar, ShellWrites, readerVars, input
  <1>7. FedSoFar(PassedOn(windows, Consumed), InFlight, osc, forwarded, started)'
    BY <1>5 DEF BridgeInv, AtOnce, FedSoFar, PassedOn, ShellWrites, scan
  <1>8. QED
    BY <1>4, <1>6, <1>7 DEF BridgeInv, AtOnce

\* The reader thread reads: what it hands on is what one feed would have added.
LEMMA ReadBridge ==
  ASSUME BridgeInv, NEW n \in 1..PtyBuf, ReaderReads(n)
  PROVE  BridgeInv'
  <1> DEFINE bytes == SubSeq(ptyOut, 1, n)
             seen  == Consumed
             fed   == Feed("dsr", Resume(dsr), bytes)
  <1>0. n \in Nat \ {0}
    BY BridgeAssumption
  <1>1. /\ emitted \in Nat /\ Len(text) \in Nat /\ emitted <= Len(text) /\ text \in Seq(Bytes)
        /\ ptyOut \in Seq(Bytes) /\ Len(ptyOut) \in Nat /\ Len(ptyOut) <= emitted /\ n <= Len(ptyOut)
        /\ ptyOut = SubSeq(text, emitted - Len(ptyOut) + 1, emitted)
        /\ emitted' = emitted /\ text' = text
        /\ ptyOut' = SubSeq(ptyOut, n + 1, Len(ptyOut))
    BY DEF ReaderReads, BridgeInv, Flow
  <1> DEFINE c == emitted - Len(ptyOut)
  <1>2. /\ c \in Nat /\ c + n \in Nat /\ c + n <= emitted /\ c + n <= Len(text)
        /\ emitted = c + Len(ptyOut)
    BY <1>0, <1>1
  <1>3. /\ ptyOut' \in Seq(Bytes) /\ Len(ptyOut') = Len(ptyOut) - n
        /\ emitted' - Len(ptyOut') = c + n /\ Len(ptyOut') <= emitted'
    <2> DEFINE r == SubSeq(ptyOut, n + 1, Len(ptyOut))
    <2>1. /\ n + 1 \in Nat \ {0} /\ (n + 1) - 1 <= Len(ptyOut) /\ Len(ptyOut) <= Len(ptyOut)
          /\ Len(ptyOut) - (n + 1) + 1 = Len(ptyOut) - n
      BY <1>0, <1>1
    <2>2. r \in Seq(Bytes) /\ Len(r) = Len(ptyOut) - (n + 1) + 1
      BY <1>1, <2>1, Pieces
    <2> HIDE DEF r
    <2>3. ptyOut' = r /\ Len(r) = Len(ptyOut) - n
      BY <1>1, <2>1, <2>2 DEF r
    <2>4. /\ emitted' = emitted /\ emitted \in Nat /\ Len(ptyOut) \in Nat /\ n <= Len(ptyOut)
          /\ Len(ptyOut) <= emitted
      BY <1>1
    <2>5. emitted - (Len(ptyOut) - n) = c + n /\ Len(ptyOut) - n <= emitted
      BY <1>0, <2>4
    <2>6. QED
      BY <2>2, <2>3, <2>4, <2>5
  <1>4. ptyOut' = SubSeq(text', emitted' - Len(ptyOut') + 1, emitted')
    <2>1. SubSeq(SubSeq(text, c + 1, emitted), n + 1, emitted - c) = SubSeq(text, c + n + 1, emitted)
      <3> HIDE DEF c
      <3>1. QED
        BY <1>0, <1>1, <1>2
    <2>2. Len(ptyOut) = emitted - c
      BY <1>1
    <2>3. QED
      BY <1>1, <1>3, <2>1, <2>2
  <1>5. bytes \in Seq(Bytes) /\ seen \in Seq(Bytes)
    BY <1>0, <1>1, <1>2 DEF Consumed
  <1>6. Consumed' = seen \o bytes
    <2>1. Consumed' = SubSeq(text, 1, c + n)
      BY <1>1, <1>3 DEF Consumed
    <2>2. bytes = SubSeq(text, c + 1, c + n)
      <3> HIDE DEF c
      <3>1. SubSeq(SubSeq(text, c + 1, emitted), 1, n) = SubSeq(text, c + 1, c + n)
        BY <1>0, <1>1, <1>2
      <3>2. QED
        BY <1>1, <3>1 DEF c
    <2>3. SubSeq(text, 1, c + n) = SubSeq(text, 1, c) \o SubSeq(text, c + 1, c + n)
      <3> HIDE DEF c
      <3>1. QED
        BY <1>0, <1>1, <1>2
    <2>4. QED
      BY <2>1, <2>2, <2>3 DEF Consumed
  <1> HIDE DEF c, bytes, seen
  <1>7. DsrFeed(bytes) = fed
    BY Feeds
  <1>8. /\ reader = "read" /\ chunk = <<>> /\ replies = 0
        /\ UNCHANGED <<windows, outq, answered, writer, osc, forwarded, started>>
        /\ reader' = Onward(chunk', replies')
    BY DEF ReaderReads, BridgeInv, Flow, scan, input
  <1>9. /\ chunk' = IF windows THEN fed.out ELSE bytes
        /\ replies' = IF windows THEN fed.hits ELSE 0
        /\ windows => dsr' = Kept(fed)
    <2>1. /\ chunk' = IF windows THEN DsrFeed(bytes).out ELSE bytes
          /\ replies' = IF windows THEN DsrFeed(bytes).hits ELSE 0
          /\ windows => dsr' = Kept(DsrFeed(bytes))
      BY DEF ReaderReads, bytes
    <2>2. QED
      BY <1>7, <2>1
  <1> HIDE DEF fed
  <1>10. /\ answered \in Nat /\ outq \in Chunks
         /\ ReadSoFar(windows, seen, dsr, answered + replies, writer)
         /\ FedSoFar(PassedOn(windows, seen), InFlight, osc, forwarded, started)
    BY DEF BridgeInv, Flow, AtOnce, seen
  <1> DEFINE w == Whole("dsr", seen)
  <1>11. windows => /\ Kept(Whole("dsr", seen \o bytes)) = Kept(fed)
                    /\ Whole("dsr", seen \o bytes).out = w.out \o fed.out
                    /\ Whole("dsr", seen \o bytes).hits = w.hits + fed.hits
                    /\ fed \in Scanner("dsr") /\ w \in Scanner("dsr")
    <2> SUFFICES ASSUME windows
                 PROVE  /\ Kept(Whole("dsr", seen \o bytes)) = Kept(fed)
                        /\ Whole("dsr", seen \o bytes).out = w.out \o fed.out
                        /\ Whole("dsr", seen \o bytes).hits = w.hits + fed.hits
                        /\ fed \in Scanner("dsr") /\ w \in Scanner("dsr")
      OBVIOUS
    <2>1. dsr = Kept(w)
      BY <1>10 DEF ReadSoFar
    <2>2. fed = Feed("dsr", Resume(Kept(Whole("dsr", seen))), bytes)
      BY <2>1 DEF fed
    <2>3. QED
      BY <1>5, <2>2, WholeJoins
  <1> HIDE DEF w
  <1>12. chunk' \in Seq(Bytes) /\ replies' \in Nat
    <2>1. CASE windows
      BY <1>9, <1>11, <2>1, ScannerParts
    <2>2. CASE ~windows
      BY <1>5, <1>9, <2>2
    <2>3. QED
      BY <2>1, <2>2
  <1>13. Flow'
    <2>1. /\ reader' \in {"read", "reply", "send", "done"}
          /\ reader' = "reply" <=> replies' > 0
          /\ reader' \in {"read", "done"} => chunk' = <<>>
      BY <1>8, <1>12 DEF Onward
    <2>2. text' \in Seq(Bytes) /\ emitted' \in Nat /\ emitted' <= Len(text')
      BY <1>1
    <2>3. QED
      BY <1>3, <1>4, <1>8, <1>10, <1>12, <2>1, <2>2 DEF Flow
  <1>14. ReadSoFar(windows, Consumed, dsr, answered + replies, writer)'
    <2>1. CASE windows
      <3>1. dsr' = Kept(Whole("dsr", Consumed'))
        BY <1>6, <1>9, <1>11, <2>1
      <3>2. ASSUME writer' # "done"
            PROVE  answered' + replies' = Whole("dsr", Consumed').hits
        <4>1. answered + 0 = w.hits
          BY <1>8, <1>10, <2>1, <3>2 DEF ReadSoFar, w
        <4>2. fed.hits \in Nat /\ w.hits \in Nat
          BY <1>11, <2>1, ScannerParts
        <4>3. answered' + replies' = w.hits + fed.hits
          BY <1>8, <1>9, <1>10, <2>1, <4>1, <4>2
        <4>4. QED
          BY <1>6, <1>11, <2>1, <4>3
      <3>3. QED
        BY <1>8, <2>1, <3>1, <3>2 DEF ReadSoFar
    <2>2. CASE ~windows
      BY <1>8, <1>9, <1>10, <2>2 DEF ReadSoFar
    <2>3. QED
      BY <2>1, <2>2
  <1>15. PassedOn(windows, Consumed)' = PassedOn(windows, seen) \o chunk'
    <2>1. CASE windows
      BY <1>6, <1>8, <1>9, <1>11, <2>1 DEF PassedOn, w
    <2>2. CASE ~windows
      BY <1>6, <1>8, <1>9, <2>2 DEF PassedOn
    <2>3. QED
      BY <2>1, <2>2
  <1>16. FedSoFar(PassedOn(windows, Consumed), InFlight, osc, forwarded, started)'
    <2>1. PICK z \in Seq(Bytes) :
            /\ PassedOn(windows, seen) = z \o InFlight
            /\ osc = Kept(Whole("osc", z)) /\ forwarded = Whole("osc", z).out /\ started = Whole("osc", z).hits
      BY <1>10 DEF FedSoFar
    <2> DEFINE q == FlattenSeq(outq)
    <2>2. q \in Seq(Bytes)
      BY <1>10, <1>12, FlattenSteps
    <2> HIDE DEF q
    <2>3. InFlight = q /\ InFlight' = q \o chunk'
      <3>1. InFlight = q \o <<>> /\ InFlight' = q \o chunk'
        BY <1>8 DEF InFlight, q
      <3>2. QED
        BY <2>2, <3>1, ConcatEmptySeq
    <2>4. (z \o q) \o chunk' = z \o (q \o chunk')
      BY <1>12, <2>2, Joined
    <2>5. PassedOn(windows, Consumed)' = z \o InFlight'
      BY <1>15, <2>1, <2>3, <2>4
    <2>6. QED
      BY <1>8, <2>1, <2>5 DEF FedSoFar
  <1>17. QED
    BY <1>13, <1>14, <1>16 DEF BridgeInv, AtOnce

\* A reply is sent, or given up with the writer thread.
LEMMA ReplyBridge ==
  ASSUME BridgeInv, ReaderReplies
  PROVE  BridgeInv'
  <1>1. /\ reader = "reply" /\ replies \in Nat /\ replies > 0 /\ answered \in Nat
        /\ UNCHANGED <<windows, text, emitted, ptyOut, dsr, chunk, outq, osc, forwarded, started, writer>>
        /\ reader' = Onward(chunk, replies')
        /\ \/ writer # "done" /\ answered' = answered + 1 /\ replies' = replies - 1
           \/ writer = "done" /\ answered' = answered /\ replies' = 0
    BY DEF ReaderReplies, BridgeInv, Flow, output, scan
  <1>2. answered' \in Nat /\ replies' \in Nat /\ (writer # "done" => answered' + replies' = answered + replies)
    BY <1>1
  <1>3. Flow'
    <2>1. /\ reader' \in {"read", "reply", "send", "done"}
          /\ reader' = "reply" <=> replies' > 0
          /\ reader' \in {"read", "done"} => chunk' = <<>>
      BY <1>1, <1>2 DEF Onward
    <2>2. /\ (text \in Seq(Bytes) /\ emitted \in Nat /\ emitted <= Len(text))'
          /\ (ptyOut \in Seq(Bytes) /\ Len(ptyOut) <= emitted)'
          /\ (ptyOut = SubSeq(text, emitted - Len(ptyOut) + 1, emitted))'
          /\ (chunk \in Seq(Bytes) /\ outq \in Chunks)'
      BY <1>1 DEF BridgeInv, Flow
    <2>3. QED
      BY <1>2, <2>1, <2>2 DEF Flow
  <1>4. Consumed' = Consumed /\ InFlight' = InFlight
    BY <1>1 DEF Consumed, InFlight
  <1>5. ReadSoFar(windows, Consumed, dsr, answered + replies, writer)'
    <2>1. CASE windows
      BY <1>1, <1>2, <1>4, <2>1 DEF BridgeInv, AtOnce, ReadSoFar
    <2>2. CASE ~windows
      <3>1. answered + replies = 0
        BY <2>2 DEF BridgeInv, AtOnce, ReadSoFar
      <3>2. QED
        BY <1>1, <3>1
    <2>3. QED
      BY <2>1, <2>2
  <1>6. FedSoFar(PassedOn(windows, Consumed), InFlight, osc, forwarded, started)'
    BY <1>1, <1>4 DEF BridgeInv, AtOnce, FedSoFar, PassedOn
  <1>7. QED
    BY <1>3, <1>5, <1>6 DEF BridgeInv, AtOnce

\* A chunk goes into the channel: it stays on its way.
LEMMA SendBridge ==
  ASSUME BridgeInv, ReaderSends
  PROVE  BridgeInv'
  <1>1. /\ reader = "send" /\ outq' = Append(outq, chunk) /\ chunk' = <<>> /\ reader' = "read"
        /\ UNCHANGED <<windows, text, emitted, ptyOut, dsr, replies, osc, forwarded, started, writer, answered>>
        /\ outq \in Chunks /\ chunk \in Seq(Bytes) /\ replies \in Nat /\ ~(replies > 0)
    BY DEF ReaderSends, BridgeInv, Flow, output, scan, input
  <1>2. /\ outq' \in Chunks /\ FlattenSeq(outq') = FlattenSeq(outq) \o chunk
        /\ FlattenSeq(outq') \in Seq(Bytes) /\ <<>> \in Seq(Bytes)
    <2>1. Append(outq, chunk) \in Chunks /\ FlattenSeq(Append(outq, chunk)) = FlattenSeq(outq) \o chunk
      BY <1>1, FlattenSteps
    <2>2. outq' \in Chunks
      BY <1>1, <2>1
    <2>3. FlattenSeq(outq') \in Seq(Bytes)
      BY <1>1, <2>2, FlattenSteps
    <2>4. QED
      BY <1>1, <2>1, <2>2, <2>3
  <1>3. Flow'
    <2>1. /\ reader' \in {"read", "reply", "send", "done"}
          /\ reader' = "reply" <=> replies' > 0
          /\ reader' \in {"read", "done"} => chunk' = <<>>
      BY <1>1
    <2>2. /\ (text \in Seq(Bytes) /\ emitted \in Nat /\ emitted <= Len(text))'
          /\ (ptyOut \in Seq(Bytes) /\ Len(ptyOut) <= emitted)'
          /\ (ptyOut = SubSeq(text, emitted - Len(ptyOut) + 1, emitted))'
          /\ (replies \in Nat /\ answered \in Nat)'
      BY <1>1 DEF BridgeInv, Flow
    <2>3. QED
      BY <1>1, <1>2, <2>1, <2>2 DEF Flow
  <1>4. Consumed' = Consumed
    BY <1>1 DEF Consumed
  <1>5. InFlight' = InFlight
    <2>1. InFlight' = FlattenSeq(outq') \o <<>>
      BY <1>1 DEF InFlight
    <2>2. FlattenSeq(outq') \o <<>> = FlattenSeq(outq')
      BY <1>2, ConcatEmptySeq
    <2>3. QED
      BY <1>2, <2>1, <2>2 DEF InFlight
  <1>6. ReadSoFar(windows, Consumed, dsr, answered + replies, writer)'
    BY <1>1, <1>4 DEF BridgeInv, AtOnce, ReadSoFar
  <1>7. FedSoFar(PassedOn(windows, Consumed), InFlight, osc, forwarded, started)'
    BY <1>1, <1>4, <1>5 DEF BridgeInv, AtOnce, FedSoFar, PassedOn
  <1>8. QED
    BY <1>3, <1>6, <1>7 DEF BridgeInv, AtOnce

\* The session feeds on: its scanner is where one feed would have left it.
LEMMA FeedBridge ==
  ASSUME BridgeInv, SessionFeeds
  PROVE  BridgeInv'
  <1> DEFINE c == Head(outq)
             fed == Feed("osc", Resume(osc), c)
  <1>1. /\ outq # <<>> /\ outq \in Chunks /\ chunk \in Seq(Bytes) /\ outq' = Tail(outq)
        /\ UNCHANGED <<windows, text, emitted, ptyOut, reader, dsr, chunk, replies, writer, answered>>
        /\ osc' = Kept(OscFeed(c)) /\ forwarded' = forwarded \o OscFeed(c).out
        /\ started' = started + OscFeed(c).hits
    BY DEF SessionFeeds, BridgeInv, Flow, output, input, readerVars
  <1>2. /\ c \in Seq(Bytes) /\ Tail(outq) \in Chunks
        /\ FlattenSeq(outq) = c \o FlattenSeq(Tail(outq))
    BY <1>1, FlattenSteps
  <1>3. FlattenSeq(Tail(outq)) \in Seq(Bytes)
    BY <1>1, <1>2, FlattenSteps
  <1> HIDE DEF c
  <1>4. osc' = Kept(fed) /\ forwarded' = forwarded \o fed.out /\ started' = started + fed.hits
    BY <1>1, Feeds
  <1> HIDE DEF fed
  <1>5. Flow'
    BY <1>1, <1>2 DEF BridgeInv, Flow
  <1>6. Consumed' = Consumed
    BY <1>1 DEF Consumed
  <1>7. ReadSoFar(windows, Consumed, dsr, answered + replies, writer)'
    BY <1>1, <1>6 DEF BridgeInv, AtOnce, ReadSoFar
  <1>8. FedSoFar(PassedOn(windows, Consumed), InFlight, osc, forwarded, started)'
    <2>1. PICK z \in Seq(Bytes) :
            /\ PassedOn(windows, Consumed) = z \o InFlight
            /\ osc = Kept(Whole("osc", z)) /\ forwarded = Whole("osc", z).out /\ started = Whole("osc", z).hits
      BY DEF FedSoFar, BridgeInv, AtOnce
    <2>2. fed = Feed("osc", Resume(Kept(Whole("osc", z))), c)
      BY <2>1 DEF fed
    <2>3. /\ Kept(Whole("osc", z \o c)) = Kept(fed)
          /\ Whole("osc", z \o c).out = Whole("osc", z).out \o fed.out
          /\ Whole("osc", z \o c).hits = Whole("osc", z).hits + fed.hits
      BY <1>2, <2>2, WholeJoins
    <2> DEFINE t == FlattenSeq(Tail(outq))
    <2>4. InFlight = (c \o t) \o chunk /\ InFlight' = t \o chunk
      BY <1>1, <1>2 DEF InFlight
    <2> HIDE DEF t
    <2>5. t \in Seq(Bytes) /\ t \o chunk \in Seq(Bytes)
      BY <1>1, <1>3, ConcatProperties DEF t
    <2>6. z \o ((c \o t) \o chunk) = (z \o c) \o (t \o chunk)
      <3>1. (c \o t) \o chunk = c \o (t \o chunk)
        BY <1>1, <1>2, <2>5, Joined
      <3>2. (z \o c) \o (t \o chunk) = z \o (c \o (t \o chunk))
        BY <1>2, <2>5, Joined
      <3>3. QED
        BY <3>1, <3>2
    <2>7. PassedOn(windows, Consumed)' = (z \o c) \o InFlight'
      <3>1. PassedOn(windows, Consumed)' = PassedOn(windows, Consumed)
        BY <1>1, <1>6 DEF PassedOn
      <3>2. QED
        BY <2>1, <2>4, <2>6, <3>1
    <2>8. z \o c \in Seq(Bytes)
      BY <1>2, ConcatProperties
    <2> DEFINE y == z \o c
    <2> HIDE DEF y
    <2>9. /\ y \in Seq(Bytes) /\ PassedOn(windows, Consumed)' = y \o InFlight'
          /\ osc' = Kept(Whole("osc", y)) /\ forwarded' = Whole("osc", y).out
          /\ started' = Whole("osc", y).hits
      BY <1>4, <2>1, <2>3, <2>7, <2>8 DEF y
    <2>10. QED
      BY <2>9 DEF FedSoFar
  <1>9. QED
    BY <1>5, <1>7, <1>8 DEF BridgeInv, AtOnce

\* The reader thread ends.
LEMMA EofBridge ==
  ASSUME BridgeInv, ReaderEof
  PROVE  BridgeInv'
  <1>1. /\ reader = "read" /\ reader' = "done"
        /\ UNCHANGED <<windows, text, emitted, ptyOut, dsr, chunk, replies, outq, osc, forwarded, started,
                       writer, answered>>
    BY DEF ReaderEof, output, scan, input
  <1>2. Flow'
    BY <1>1 DEF BridgeInv, Flow
  <1>3. Consumed' = Consumed /\ InFlight' = InFlight
    BY <1>1 DEF Consumed, InFlight
  <1>4. ReadSoFar(windows, Consumed, dsr, answered + replies, writer)'
    BY <1>1, <1>3 DEF BridgeInv, AtOnce, ReadSoFar
  <1>5. FedSoFar(PassedOn(windows, Consumed), InFlight, osc, forwarded, started)'
    BY <1>1, <1>3 DEF BridgeInv, AtOnce, FedSoFar, PassedOn
  <1>6. QED
    BY <1>2, <1>4, <1>5 DEF BridgeInv, AtOnce

\* Every step of the shell, the threads, the session and the downloads.
LEMMA NextBridge ==
  ASSUME BridgeInv, [Next]_vars
  PROVE  BridgeInv'
  <1> USE DEF output, scan, downloads, input, readerVars
  <1> DEFINE Still == /\ writer' # "done" => writer # "done"
                      /\ UNCHANGED <<windows, text, emitted, ptyOut, readerVars, outq, scan, answered>>
  <1>1. Still => BridgeInv'
    BY StillBridge
  <1>2. UNCHANGED vars => Still
    BY DEF vars
  <1>3. ShellReads \/ ShellExits \/ Type => Still
    BY DEF ShellReads, ShellExits, Type
  <1>4. WriterStep => Still
    BY DEF WriterStep, WriterTakes, WriterWrites, WriterFails, WriterEnds
  <1>5. SessionEnds \/ LineStep \/ DropSession \/ StreamsLeave => Still
    BY DEF SessionEnds, LineStep, LineTyped, DownloadEnds, DropSession, StreamsLeave
  <1> HIDE DEF Still
  <1>6. ReaderStep => BridgeInv'
    BY ReadBridge, ReplyBridge, SendBridge, EofBridge DEF ReaderStep
  <1>7. QED
    BY <1>1, <1>2, <1>3, <1>4, <1>5, <1>6, ShellBridge, FeedBridge DEF Next

\* However reads and the channel cut the shell's output into chunks, both
\* scanners are at every moment where one feed of the whole text so far would
\* have left them.
THEOREM CutsMakeNoDifference == Spec => []BridgeInv
  <1>1. Init => BridgeInv
    BY InitBridge
  <1>2. BridgeInv /\ [Next]_vars => BridgeInv'
    BY NextBridge
  <1>3. QED
    BY <1>1, <1>2, PTL DEF Spec

\* What the reference says of what the reader thread has read.
LEMMA PassedIs ==
  ASSUME BridgeInv
  PROVE  /\ Consumed \in Seq(Bytes)
         /\ Passed.shown = PassedOn(windows, Consumed)
         /\ writer # "done" => answered + replies = Passed.hits
  <1>1. Consumed \in Seq(Bytes)
    <2>1. /\ text \in Seq(Bytes) /\ emitted \in Nat /\ emitted <= Len(text) /\ Len(ptyOut) \in Nat
          /\ Len(ptyOut) <= emitted
      BY DEF BridgeInv, Flow
    <2>2. QED
      BY <2>1 DEF Consumed
  <1>2. CASE windows
    <2> DEFINE fed == Whole("dsr", Consumed)
    <2>1. Passed = [shown |-> fed.out, hits |-> fed.hits]
      <3>1. Passed = Reading("dsr", Consumed)
        BY <1>2 DEF Passed, Reading
      <3>2. QED
        BY <1>1, <3>1, ScannerReads DEF Whole
    <2> HIDE DEF fed
    <2>2. PassedOn(windows, Consumed) = fed.out
      BY <1>2 DEF PassedOn, fed
    <2>3. writer # "done" => answered + replies = fed.hits
      BY <1>2 DEF BridgeInv, AtOnce, ReadSoFar, fed
    <2>4. QED
      BY <1>1, <2>1, <2>2, <2>3
  <1>3. CASE ~windows
    <2>1. Passed.shown = Consumed /\ Passed.hits = 0
      BY <1>3 DEF Passed
    <2>2. PassedOn(windows, Consumed) = Consumed
      BY <1>3 DEF PassedOn
    <2>3. answered + replies = 0
      BY <1>3 DEF BridgeInv, AtOnce, ReadSoFar
    <2>4. QED
      BY <1>1, <2>1, <2>2, <2>3
  <1>4. QED
    BY <1>2, <1>3

\* Browsers get what a reading of the whole text gives, and a download is
\* started for every complete request with the session's token and no other:
\* for every text, every cut of it into chunks and every limit on sequences.
THEOREM OutputIsRead == Spec => []ForwardsReference
  <1>1. BridgeInv => ForwardsReference
    <2> SUFFICES ASSUME BridgeInv
                 PROVE  ForwardsReference
      OBVIOUS
    <2> DEFINE P == Passed.shown
               x == InFlight
    <2>1. PICK z \in Seq(Bytes) :
            /\ PassedOn(windows, Consumed) = z \o InFlight
            /\ osc = Kept(Whole("osc", z)) /\ forwarded = Whole("osc", z).out /\ started = Whole("osc", z).hits
      BY DEF BridgeInv, AtOnce, FedSoFar
    <2>2. P = z \o x
      BY <2>1, PassedIs
    <2>3. x \in Seq(Bytes)
      <3>1. outq \in Chunks /\ chunk \in Seq(Bytes)
        BY DEF BridgeInv, Flow
      <3>2. FlattenSeq(outq) \in Seq(Bytes)
        BY <3>1, FlattenSteps
      <3>3. QED
        BY <3>1, <3>2, ConcatProperties DEF InFlight
    <2>4. Scanned = SubSeq(P, 1, Len(P) - Len(x))
      BY DEF Scanned
    <2> HIDE DEF P, x
    <2>5. Scanned = z
      <3>1. Len(z) \in Nat /\ Len(x) \in Nat /\ Len(z \o x) = Len(z) + Len(x)
        BY <2>3
      <3>2. Len(P) - Len(x) = Len(z)
        BY <2>2, <3>1
      <3>3. SubSeq(z \o x, 1, Len(z)) = z
        BY <2>3
      <3>4. QED
        BY <2>2, <2>4, <3>2, <3>3
    <2>6. [shown |-> forwarded, hits |-> started] = Reading("osc", z)
      BY <2>1, ScannerReads DEF Whole
    <2>7. Reading("osc", z) = Read(z, "]", OscAt)
      BY DEF Reading
    <2>8. QED
      BY <2>2, <2>5, <2>6, <2>7 DEF ForwardsReference, P, x
  <1>2. QED
    BY <1>1, CutsMakeNoDifference, PTL

\* Every cursor query in the output gets one reply, in whatever pieces it was
\* read, until the thread that would write the reply is gone.
THEOREM QueriesAreAnswered == Spec => []QueriesAnswered
  <1>1. BridgeInv => QueriesAnswered
    BY PassedIs DEF QueriesAnswered
  <1>2. QED
    BY <1>1, CutsMakeNoDifference, PTL

-----------------------------------------------------------------------------
(* The exit comes last.                                                    *)

\* Output drains in the order of its stations: the reader thread ends when the
\* shell is gone and its terminal empty, with nothing in hand, and the session
\* is marked exited when that thread has ended and its channel is empty.
Drained ==
  /\ exited => reader = "done" /\ outq = <<>>
  /\ reader = "done" => ~alive /\ ptyOut = <<>> /\ chunk = <<>>
  /\ reader = "read" => chunk = <<>>

\* Nothing has been read at the start.
LEMMA InitDrained ==
  ASSUME Init
  PROVE  Drained
  BY DEF Init, Drained

\* No step of the shell, of the two threads, of the session or of a download
\* puts output back behind a station that has ended.
LEMMA NextDrained ==
  ASSUME Drained, [Next]_vars
  PROVE  Drained'
  <1> USE DEF output, scan, downloads, input, readerVars, Drained
  <1>1. CASE UNCHANGED vars
    BY <1>1 DEF vars
  <1>2. CASE ShellWrites
    BY <1>2 DEF ShellWrites
  <1>3. CASE ShellReads \/ ShellExits \/ Type
    BY <1>3 DEF ShellReads, ShellExits, Type
  <1>4. ASSUME NEW n \in 1..PtyBuf, ReaderReads(n)
        PROVE  Drained'
    <2>1. reader' = Onward(chunk', replies')
      BY <1>4 DEF ReaderReads
    <2>2. reader = "read" /\ UNCHANGED <<alive, outq, exited>>
      BY <1>4 DEF ReaderReads
    <2>3. QED
      BY <2>1, <2>2 DEF Onward
  <1>5. CASE ReaderReplies
    BY <1>5 DEF ReaderReplies, Onward
  <1>6. CASE ReaderSends
    BY <1>6 DEF ReaderSends
  <1>7. CASE ReaderEof
    BY <1>7 DEF ReaderEof
  <1>8. CASE WriterStep
    BY <1>8 DEF WriterStep, WriterTakes, WriterWrites,
       WriterFails, WriterEnds
  <1>9. CASE SessionFeeds
    BY <1>9 DEF SessionFeeds
  <1>10. CASE SessionEnds
    BY <1>10 DEF SessionEnds
  <1>11. CASE LineStep \/ DropSession \/ StreamsLeave
    BY <1>11 DEF LineStep, LineTyped, DownloadEnds, DropSession, StreamsLeave
  <1>12. QED
    BY <1>1, <1>2, <1>3, <1>4, <1>5, <1>6, <1>7, <1>8, <1>9, <1>10, <1>11
    DEF Next, ReaderStep

\* The session is marked exited only when every byte the shell wrote has been
\* scanned and broadcast, for any output, any cut of it into chunks, on every
\* platform, and also if a reply to a cursor query could not be sent.
THEOREM ExitIsLast == Spec => []ExitAfterOutput
  <1>1. Init => Drained
    BY InitDrained
  <1>2. Drained /\ [Next]_vars => Drained'
    BY NextDrained
  <1>3. Drained => ExitAfterOutput
    <2> SUFFICES ASSUME exited, outq = <<>>, chunk = <<>>
                 PROVE  InFlight = <<>>
      BY DEF Drained, ExitAfterOutput
    <2>1. FlattenSeq(outq) = <<>>
      BY DEF FlattenSeq
    <2>2. QED
      BY <2>1 DEF InFlight
  <1>4. QED
    BY <1>1, <1>2, <1>3, PTL DEF Spec
=============================================================================
