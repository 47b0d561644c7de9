------------------------- MODULE ReactorClientProofs -------------------------
(***************************************************************************)
(* Proofs about ReactorClient: for any lines, socket buffers and timing,   *)
(* what is sent and what is queued make up the stream of lines, and a      *)
(* queued line never lacks a wake-up.                                      *)
(***************************************************************************)
EXTENDS ReactorClient, ByteRunsProofs

-----------------------------------------------------------------------------
(* The queue. *)

\* The first and the last byte of a queue that is not empty.
FirstByte(q) == Head(q).lo
LastByte(q) == q[Len(q)].hi

(* enqueue_tail of the bytes that follow. *)
LEMMA GaplessAppend ==
    ASSUME NEW q \in Seq(Block), Gapless(q), NEW b \in Block, b.lo <= b.hi,
           q # <<>> => b.lo = LastByte(q) + 1
    PROVE  /\ Append(q, b) \in Seq(Block) /\ Append(q, b) # <<>>
           /\ Gapless(Append(q, b))
           /\ LastByte(Append(q, b)) = b.hi
           /\ FirstByte(Append(q, b)) = IF q = <<>> THEN b.lo ELSE FirstByte(q)
<1> DEFINE u == Append(q, b)
<1>1. /\ u \in Seq(Block) /\ Len(u) = Len(q) + 1 /\ Len(q) \in Nat
      /\ \A i \in 1 .. Len(q) : u[i] = q[i]
      /\ u[Len(q) + 1] = b
  BY AppendProperties, LenProperties
<1>2. q = <<>> <=> Len(q) = 0
  BY EmptySeq
<1>3. u # <<>> /\ LastByte(u) = b.hi
  BY <1>1, EmptySeq DEF LastByte
<1>4. Head(u) = u[1] /\ (q # <<>> => Head(q) = q[1])
  BY <1>1, <1>3
<1>5. FirstByte(u) = IF q = <<>> THEN b.lo ELSE FirstByte(q)
  BY <1>1, <1>2, <1>4 DEF FirstByte
<1>6. ASSUME NEW i \in 1 .. Len(u) PROVE u[i].lo <= u[i].hi
  <2>1. CASE i = Len(q) + 1
    BY <1>1, <2>1
  <2>2. CASE i \in 1 .. Len(q)
    BY <1>1, <2>2 DEF Gapless
  <2> QED
    BY <1>1, <2>1, <2>2
<1>7. ASSUME NEW i \in 1 .. Len(u) - 1 PROVE u[i + 1].lo = u[i].hi + 1
  <2>1. CASE i = Len(q)
    BY <1>1, <1>2, <2>1 DEF LastByte
  <2>2. CASE i \in 1 .. Len(q) - 1
    <3>1. i + 1 \in 1 .. Len(q) /\ i \in 1 .. Len(q)
      BY <1>1, <2>2
    <3> QED
      BY <1>1, <2>2, <3>1 DEF Gapless
  <2> QED
    BY <1>1, <2>1, <2>2
<1> HIDE DEF u
<1>8. Gapless(u)
  BY <1>6, <1>7 DEF Gapless
<1> QED
  BY <1>1, <1>3, <1>5, <1>8 DEF u

(* getq takes the first block off. *)
LEMMA GaplessTail ==
    ASSUME NEW q \in Seq(Block), Gapless(q), q # <<>>
    PROVE  /\ Head(q) \in Block /\ Head(q).lo <= Head(q).hi
           /\ Tail(q) \in Seq(Block) /\ Gapless(Tail(q))
           /\ Tail(q) = <<>> => LastByte(q) = Head(q).hi
           /\ Tail(q) # <<>> => /\ FirstByte(Tail(q)) = Head(q).hi + 1
                                /\ LastByte(Tail(q)) = LastByte(q)
<1> DEFINE t == Tail(q)
<1>1. /\ Head(q) \in Block /\ Head(q) = q[1] /\ t \in Seq(Block)
      /\ Len(t) = Len(q) - 1 /\ Len(q) \in Nat \ {0}
      /\ \A i \in 1 .. Len(t) : t[i] = q[i + 1]
  BY HeadTailProperties, LenProperties, EmptySeq
<1>2. Head(q).lo <= Head(q).hi
  BY <1>1 DEF Gapless
<1>3. Gapless(t)
  <2>1. ASSUME NEW i \in 1 .. Len(t) PROVE t[i].lo <= t[i].hi
    <3>1. i + 1 \in 1 .. Len(q)
      BY <1>1
    <3> QED
      BY <1>1, <3>1 DEF Gapless
  <2>2. ASSUME NEW i \in 1 .. Len(t) - 1 PROVE t[i + 1].lo = t[i].hi + 1
    <3>1. /\ i + 1 \in 1 .. Len(q) - 1 /\ i \in 1 .. Len(t) /\ i + 1 \in 1 .. Len(t)
      BY <1>1
    <3>2. t[i] = q[i + 1] /\ t[i + 1] = q[(i + 1) + 1]
      BY <1>1, <3>1
    <3>3. q[(i + 1) + 1].lo = q[i + 1].hi + 1
      BY <3>1 DEF Gapless
    <3> QED
      BY <3>2, <3>3
  <2> HIDE DEF t
  <2> QED
    BY <2>1, <2>2 DEF Gapless
<1>4. t = <<>> <=> Len(t) = 0
  BY <1>1, EmptySeq
<1>5. t = <<>> => LastByte(q) = Head(q).hi
  BY <1>1, <1>4 DEF LastByte
<1>6. ASSUME t # <<>>
      PROVE  FirstByte(t) = Head(q).hi + 1 /\ LastByte(t) = LastByte(q)
  <2>1. Len(q) >= 2 /\ Len(t) \in 1 .. Len(t) /\ 1 \in 1 .. Len(t) /\ 1 \in 1 .. Len(q) - 1
    BY <1>1, <1>4, <1>6
  <2>2. Head(t) = t[1]
    BY <1>1, <1>6
  <2>3. FirstByte(t) = q[1 + 1].lo /\ q[1 + 1].lo = q[1].hi + 1
    BY <1>1, <2>1, <2>2 DEF FirstByte, Gapless
  <2>4. t[Len(t)] = q[Len(t) + 1] /\ Len(t) + 1 = Len(q)
    BY <1>1, <2>1
  <2> QED
    BY <1>1, <2>3, <2>4 DEF LastByte
<1> QED
  BY <1>1, <1>2, <1>3, <1>5, <1>6

(* ungetq puts what is left of the first block back. *)
LEMMA GaplessAdvance ==
    ASSUME NEW q \in Seq(Block), Gapless(q), q # <<>>,
           NEW n \in Nat, n < Length(Head(q)),
           NEW u, u = <<Advance(Head(q), n)>> \o Tail(q)
    PROVE  /\ u \in Seq(Block) /\ Gapless(u) /\ u # <<>>
           /\ FirstByte(u) = FirstByte(q) + n /\ LastByte(u) = LastByte(q)
<1> DEFINE b == Advance(Head(q), n)
           t == Tail(q)
<1>1. /\ Head(q) \in Block /\ Head(q) = q[1] /\ t \in Seq(Block)
      /\ Len(t) = Len(q) - 1 /\ Len(q) \in Nat \ {0}
      /\ \A i \in 1 .. Len(t) : t[i] = q[i + 1]
  BY HeadTailProperties, LenProperties, EmptySeq
<1>2. b \in Block /\ b.lo = q[1].lo + n /\ b.hi = q[1].hi /\ b.lo <= b.hi
  BY <1>1 DEF Advance, Block, Length
<1>3. <<b>> \in Seq(Block) /\ Len(<<b>>) = 1 /\ <<b>>[1] = b
  BY <1>2
<1> HIDE DEF b, t
<1>4. /\ <<b>> \o t \in Seq(Block) /\ Len(<<b>> \o t) = 1 + Len(t)
      /\ \A i \in 1 .. 1 + Len(t) :
            (<<b>> \o t)[i] = IF i <= 1 THEN <<b>>[i] ELSE t[i - 1]
  BY <1>1, <1>3, ConcatProperties
<1>5. /\ u \in Seq(Block) /\ Len(u) = Len(q) /\ u[1] = b
      /\ \A i \in 2 .. Len(q) : u[i] = q[i]
  <2>1. u = <<b>> \o t
    BY DEF b, t
  <2>2. u \in Seq(Block) /\ Len(u) = Len(q) /\ u[1] = b
    BY <1>1, <1>3, <1>4, <2>1
  <2>3. ASSUME NEW i \in 2 .. Len(q) PROVE u[i] = q[i]
    <3>1. i \in 1 .. 1 + Len(t) /\ ~(i <= 1) /\ i - 1 \in 1 .. Len(t) /\ (i - 1) + 1 = i
      BY <1>1
    <3>2. u[i] = t[i - 1]
      BY <1>4, <2>1, <3>1
    <3>3. t[i - 1] = q[(i - 1) + 1]
      BY <1>1, <3>1
    <3> QED
      BY <3>1, <3>2, <3>3
  <2> QED
    BY <2>2, <2>3
<1>6. u # <<>> /\ Head(u) = u[1]
  BY <1>1, <1>5, EmptySeq
<1>7. FirstByte(u) = FirstByte(q) + n
  BY <1>1, <1>2, <1>5, <1>6 DEF FirstByte
<1>8. \A i \in 1 .. Len(q) : u[i].hi = q[i].hi
  BY <1>1, <1>2, <1>5
<1>9. LastByte(u) = LastByte(q)
  BY <1>1, <1>5, <1>8 DEF LastByte
<1>10. ASSUME NEW i \in 1 .. Len(u) PROVE u[i].lo <= u[i].hi
  BY <1>1, <1>2, <1>5 DEF Gapless
<1>11. ASSUME NEW i \in 1 .. Len(u) - 1 PROVE u[i + 1].lo = u[i].hi + 1
  <2>1. i + 1 \in 2 .. Len(q) /\ i \in 1 .. Len(q) /\ i \in 1 .. Len(q) - 1
    BY <1>1, <1>5
  <2>2. u[i + 1] = q[i + 1] /\ u[i].hi = q[i].hi
    BY <1>5, <1>8, <2>1
  <2> QED
    BY <2>1, <2>2 DEF Gapless
<1>12. Gapless(u)
  BY <1>10, <1>11 DEF Gapless
<1> QED
  BY <1>5, <1>6, <1>7, <1>9, <1>12

-----------------------------------------------------------------------------
(* The inductive invariant.  The bound on the lines needs the ticks that   *)
(* made them, and the wake-up needs an empty queue when the handler opens. *)
IInv ==
    /\ TypeOK
    /\ StreamIntact
    /\ WakeupMatchesQueue
    /\ produced <= m_numIterations * LineLength
    /\ loop = "start" => queue = <<>>

(* The same, as a fact of numbers and sequences and a fact of the rest: a  *)
(* step is then argued on the values it gives to the variables.            *)
Stream(m, p, q, o, a, e, l, n) ==
    /\ m \in 0..MaxTicks
    /\ p \in Nat /\ p <= (MaxIterations - 1) * LineLength /\ p <= m * LineLength
    /\ n \in Nat
    /\ q \in Seq(Block) /\ Gapless(q)
    /\ o \in Seq(Nat) /\ o = Run(1, Len(o))
    /\ a \in 0..Len(o) /\ Len(o) - a <= SendSpace
    /\ e \in 0..a /\ l \in 0..e
    /\ IF q = <<>> THEN Len(o) = p
       ELSE Head(q).lo = Len(o) + 1 /\ q[Len(q)].hi = p

Control ==
    /\ loop \in {"start", "run", "ended"}
    /\ timer \in BOOLEAN
    /\ watch \subseteq {"READ", "WRITE"}
    /\ pc \in {"reactor", "output"}
    /\ writer \in {"open", "shut"}
    /\ server \in {"open", "closed"}
    /\ loop = "start" => queue = <<>>

LEMMA Split ==
    /\ IInv <=> /\ Stream(m_numIterations, produced, queue, out, arrived,
                          echoed, logged, notices)
                /\ Control /\ WakeupMatchesQueue
    /\ IInv' <=> /\ Stream(m_numIterations', produced', queue', out', arrived',
                           echoed', logged', notices')
                 /\ Control' /\ WakeupMatchesQueue'
  BY Zenon DEF IInv, TypeOK, StreamIntact, InFlight, Stream, Control

LEMMA Constants ==
    /\ MaxIterations \in Nat \ {0} /\ LineLength \in Nat \ {0}
    /\ SendSpace \in Nat \ {0} /\ MaxTicks \in Nat
  BY MaxIterationsAssumption, LineLengthAssumption, SendSpaceAssumption,
     MaxTicksAssumption

(* A tick before the last produces a line that is within the bound. *)
LEMMA OneMoreLine ==
    ASSUME NEW L \in Nat, NEW M \in Nat, NEW m \in Nat, NEW p \in Nat,
           p <= m * L, ~ (m + 1 >= M)
    PROVE  p + L <= (m + 1) * L /\ p + L <= (M - 1) * L
<1>1. (m + 1) * L = m * L + L /\ m * L \in Nat
  OBVIOUS
<1>2. p + L <= (m + 1) * L
  BY <1>1
<1>3. PICK d \in Nat : M - 1 = (m + 1) + d
  <2>1. (M - 1) - (m + 1) \in Nat /\ M - 1 = (m + 1) + ((M - 1) - (m + 1))
    OBVIOUS
  <2> QED
    BY <2>1
<1>4. (M - 1) * L = (m + 1) * L + d * L /\ d * L \in Nat /\ (m + 1) * L \in Nat
  BY <1>3
<1> QED
  BY <1>2, <1>4

\* A line is put on the queue.
LEMMA StreamPuts ==
    ASSUME NEW m, NEW p, NEW q, NEW o, NEW a, NEW e, NEW l, NEW n,
           Stream(m, p, q, o, a, e, l, n),
           m < MaxTicks, ~ (m + 1 >= MaxIterations)
    PROVE  Stream(m + 1, p + LineLength,
                  Append(q, [lo |-> p + 1, hi |-> p + LineLength]),
                  o, a, e, l, n + 1)
<1>1. /\ m \in Nat /\ m + 1 \in 0..MaxTicks /\ p \in Nat /\ p <= m * LineLength
      /\ q \in Seq(Block) /\ Gapless(q) /\ n + 1 \in Nat
      /\ IF q = <<>> THEN Len(o) = p ELSE FirstByte(q) = Len(o) + 1 /\ LastByte(q) = p
  BY Constants DEF Stream, FirstByte, LastByte
<1>2. PICK b : b = [lo |-> p + 1, hi |-> p + LineLength]
  OBVIOUS
<1>3. b \in Block /\ b.lo = p + 1 /\ b.hi = p + LineLength /\ b.lo <= b.hi
  BY <1>1, <1>2, Constants DEF Block
<1>4. /\ Append(q, b) \in Seq(Block) /\ Append(q, b) # <<>> /\ Gapless(Append(q, b))
      /\ LastByte(Append(q, b)) = b.hi
      /\ FirstByte(Append(q, b)) = IF q = <<>> THEN b.lo ELSE FirstByte(q)
  BY <1>1, <1>3, GaplessAppend
<1>5. FirstByte(Append(q, b)) = Len(o) + 1 /\ LastByte(Append(q, b)) = p + LineLength
  BY <1>1, <1>3, <1>4
<1>6. /\ p + LineLength \in Nat
      /\ p + LineLength <= (MaxIterations - 1) * LineLength
      /\ p + LineLength <= (m + 1) * LineLength
  BY <1>1, Constants, OneMoreLine
<1> QED
  BY <1>1, <1>2, <1>4, <1>5, <1>6 DEF Stream, FirstByte, LastByte

\* k bytes of the block at the head are sent: the whole block, or less.
LEMMA StreamSends ==
    ASSUME NEW m, NEW p, NEW q, NEW o, NEW a, NEW e, NEW l, NEW n,
           Stream(m, p, q, o, a, e, l, n), q # <<>>,
           NEW k \in Nat, k <= Length(Head(q)), Len(o) + k - a <= SendSpace,
           NEW v, v = o \o Run(Head(q).lo, k)
    PROVE  /\ k = Length(Head(q)) => Stream(m, p, Tail(q), v, a, e, l, n)
           /\ k < Length(Head(q)) =>
                Stream(m, p, <<Advance(Head(q), k)>> \o Tail(q), v, a, e, l, n + 1)
<1>1. /\ q \in Seq(Block) /\ Gapless(q) /\ n + 1 \in Nat /\ o \in Seq(Nat)
      /\ Len(o) \in Nat /\ o = Run(1, Len(o)) /\ a \in 0..Len(o)
      /\ Head(q).lo = Len(o) + 1 /\ FirstByte(q) = Len(o) + 1 /\ LastByte(q) = p
  BY LenProperties DEF Stream, FirstByte, LastByte
<1>2. /\ Head(q) \in Block /\ Head(q).hi \in Nat
      /\ Tail(q) \in Seq(Block) /\ Gapless(Tail(q))
      /\ Tail(q) = <<>> => LastByte(q) = Head(q).hi
      /\ Tail(q) # <<>> => /\ FirstByte(Tail(q)) = Head(q).hi + 1
                           /\ LastByte(Tail(q)) = LastByte(q)
  BY <1>1, GaplessTail DEF Block
<1>3. v = Run(1, Len(o) + k)
  <2>1. PICK c \in Nat : c = Len(o)
    BY <1>1
  <2>2. o = Run(1, c) /\ Head(q).lo = c + 1
    BY <1>1, <2>1, Zenon
  <2>4. c + 1 = 1 + c
    BY <2>1
  <2>5. 1 \in Int
    OBVIOUS
  <2>3. Run(1, c) \o Run(1 + c, k) = Run(1, c + k)
    BY <2>1, <2>5, RunConcat, Zenon
  <2> QED
    BY <2>1, <2>2, <2>3, <2>4, Zenon
<1>4. v \in Seq(Nat) /\ Len(v) = Len(o) + k /\ v = Run(1, Len(v))
  <2>1. Run(1, Len(o) + k) \in Seq(1 .. 1 + (Len(o) + k) - 1) /\ Len(v) = Len(o) + k
    <3>1. PICK c \in Nat : c = Len(o) + k
      BY <1>1
    <3>2. Run(1, c) \in Seq(1 .. 1 + c - 1) /\ Len(Run(1, c)) = c
      BY <3>1, RunProperties
    <3> QED
      BY <1>3, <3>1, <3>2, Zenon
  <2>2. 1 .. 1 + (Len(o) + k) - 1 \subseteq Nat
    BY <1>1
  <2>3. v \in Seq(Nat)
    BY <1>3, <2>1, <2>2, SeqMonotonic
  <2> QED
    BY <1>3, <2>1, <2>3
<1>5. a \in 0..Len(v) /\ Len(v) - a <= SendSpace
  BY <1>1, <1>4
<1>6. ASSUME k = Length(Head(q))
      PROVE  Stream(m, p, Tail(q), v, a, e, l, n)
  <2>1. Len(v) = Head(q).hi
    <3>1. PICK c \in Nat : c = Len(o)
      BY <1>1
    <3>2. PICK b \in Block : b = Head(q)
      BY <1>2
    <3>3. b.lo = c + 1 /\ k = b.hi - b.lo + 1 /\ b.hi \in Nat
      BY <1>1, <1>2, <1>6, <3>1, <3>2 DEF Length
    <3>4. c + k = b.hi
      BY <3>1, <3>3
    <3> QED
      BY <1>4, <3>1, <3>2, <3>4
  <2>2. IF Tail(q) = <<>> THEN Len(v) = p
        ELSE FirstByte(Tail(q)) = Len(v) + 1 /\ LastByte(Tail(q)) = p
    BY <1>1, <1>2, <2>1
  <2> QED
    BY <1>2, <1>4, <1>5, <2>2 DEF Stream, FirstByte, LastByte
<1>7. ASSUME k < Length(Head(q))
      PROVE  Stream(m, p, <<Advance(Head(q), k)>> \o Tail(q), v, a, e, l, n + 1)
  <2>1. PICK u : u = <<Advance(Head(q), k)>> \o Tail(q)
    OBVIOUS
  <2>2. /\ u \in Seq(Block) /\ Gapless(u) /\ u # <<>>
        /\ FirstByte(u) = FirstByte(q) + k /\ LastByte(u) = LastByte(q)
    BY <1>1, <1>7, <2>1, GaplessAdvance
  <2>3. FirstByte(u) = Len(v) + 1 /\ LastByte(u) = p
    BY <1>1, <1>4, <2>2
  <2> QED
    BY <1>1, <1>4, <1>5, <2>1, <2>2, <2>3 DEF Stream, FirstByte, LastByte
<1> QED
  BY <1>6, <1>7

(* A send takes no more than it is given, nor than there is room for.      *)
LEMMA SentBound ==
    ASSUME IInv, NEW k \in Nat, NEW n \in Sent(k)
    PROVE  n \in Nat /\ n <= k /\ Len(out) + n - arrived <= SendSpace
<1>1. /\ Len(out) \in Nat /\ arrived \in 0..Len(out)
      /\ Len(out) - arrived <= SendSpace /\ SendSpace \in Nat
  BY LenProperties, Constants DEF IInv, TypeOK, InFlight
<1>2. n = 0 \/ n = Smaller(k, SendSpace - (Len(out) - arrived))
  BY DEF Sent, InFlight
<1> QED
  BY <1>1, <1>2 DEF Smaller

-----------------------------------------------------------------------------
(* Every step keeps the invariant. *)

LEMMA InitInv == Init => IInv
<1> SUFFICES ASSUME Init PROVE IInv
  OBVIOUS
<1>1. Gapless(<<>>) /\ Len(<<>>) = 0 /\ <<>> \in Seq(Block) /\ <<>> \in Seq(Nat)
  BY DEF Gapless
<1>2. <<>> = Run(1, 0)
  <2>1. Run(1, 0) \in Seq(1 .. 1 + 0 - 1) /\ Len(Run(1, 0)) = 0
    BY RunProperties
  <2> QED
    BY <2>1, EmptySeq
<1>3. 0 <= (MaxIterations - 1) * LineLength /\ 0 <= 0 * LineLength
  <2>1. PICK d \in Nat : d = MaxIterations - 1
    BY Constants
  <2>2. d * LineLength \in Nat
    BY <2>1, Constants
  <2> QED
    BY <2>1, <2>2, Constants
<1>4. Stream(0, 0, <<>>, <<>>, 0, 0, 0, 0)
  BY <1>1, <1>2, <1>3, Constants DEF Stream
<1>5. Control /\ WakeupMatchesQueue
  BY DEF Init, Control, WakeupMatchesQueue
<1> QED
  BY <1>4, <1>5, Split DEF Init

(* A line enters the queue with a notification. *)
LEMMA PutLineStep == IInv /\ PutLine => IInv'
<1> SUFFICES ASSUME IInv, PutLine PROVE IInv'
  OBVIOUS
<1>1. Stream(m_numIterations, produced, queue, out, arrived, echoed, logged, notices)
      /\ Control /\ WakeupMatchesQueue
  BY Split
<1>2. PICK q : q = Append(queue, [lo |-> produced + 1, hi |-> produced + LineLength])
  OBVIOUS
<1>3. m_numIterations < MaxTicks /\ ~ (m_numIterations + 1 >= MaxIterations)
  BY DEF PutLine, Tick, LastTick
<1>4. Stream(m_numIterations + 1, produced + LineLength, q, out, arrived, echoed,
             logged, notices + 1)
  BY <1>1, <1>2, <1>3, StreamPuts
<1>5. PICK m, p, n : m = m_numIterations + 1 /\ p = produced + LineLength
                     /\ n = notices + 1
  OBVIOUS
<1>6. /\ m_numIterations' = m /\ produced' = p /\ queue' = q /\ notices' = n
      /\ UNCHANGED <<serverVars, loop, timer, watch, pc, writer, out, logged>>
      /\ loop = "run"
  BY <1>2, <1>5 DEF PutLine, Tick, Ready, Notified
<1>7. n \in Nat /\ n > 0 /\ q # <<>>
  <2>1. notices \in Nat /\ produced \in Nat /\ queue \in Seq(Block)
    BY <1>1 DEF Stream
  <2>2. [lo |-> produced + 1, hi |-> produced + LineLength] \in Block
    BY <2>1, Constants DEF Block
  <2>3. Len(q) = Len(queue) + 1 /\ Len(queue) \in Nat /\ q \in Seq(Block)
    BY <1>2, <2>1, <2>2, AppendProperties, LenProperties
  <2> QED
    BY <1>5, <2>1, <2>3, EmptySeq
<1>8. Stream(m_numIterations', produced', queue', out', arrived', echoed', logged',
             notices')
  BY <1>4, <1>5, <1>6 DEF serverVars
<1>9. Control'
  BY <1>1, <1>6 DEF Control, serverVars
<1>10. WakeupMatchesQueue'
  BY <1>6, <1>7 DEF WakeupMatchesQueue
<1> QED
  BY <1>8, <1>9, <1>10, Split

(* handle_output sends the block at the head, whole or in part. *)
LEMMA SendStep == IInv /\ (OutputWhole \/ OutputPart) => IInv'
<1> SUFFICES ASSUME IInv, OutputWhole \/ OutputPart PROVE IInv'
  OBVIOUS
<1>1. Stream(m_numIterations, produced, queue, out, arrived, echoed, logged, notices)
      /\ Control /\ WakeupMatchesQueue
  BY Split
<1>2. queue # <<>> /\ queue \in Seq(Block) /\ pc = "output"
  BY <1>1 DEF OutputWhole, OutputPart, Stream
<1>5. Length(Head(queue)) \in Nat
  <2>1. Gapless(queue)
    BY <1>1 DEF Stream
  <2>2. Head(queue) \in Block /\ Head(queue).lo <= Head(queue).hi
    BY <1>2, <2>1, GaplessTail
  <2> QED
    BY <2>2 DEF Length, Block
<1>3. CASE OutputWhole
  <2>1. PICK k : k = Length(Head(queue))
    OBVIOUS
  <2>2. k \in Sent(k)
    BY <1>3, <2>1 DEF OutputWhole
  <2>3. PICK v : v = out \o Run(Head(queue).lo, k)
    OBVIOUS
  <2>4. k \in Nat /\ Len(out) + k - arrived <= SendSpace /\ k <= Length(Head(queue))
    <3>1. k \in Nat
      BY <1>5, <2>1
    <3>2. k <= k /\ Len(out) + k - arrived <= SendSpace
      BY <2>2, <3>1, SentBound, Zenon
    <3> QED
      BY <2>1, <3>1, <3>2
  <2>5. Stream(m_numIterations, produced, Tail(queue), v, arrived, echoed, logged,
               notices)
    BY <1>1, <1>2, <2>1, <2>3, <2>4, StreamSends
  <2>6. /\ queue' = Tail(queue) /\ out' = v
        /\ UNCHANGED <<serverVars, loop, m_numIterations, timer, produced, notices,
                       watch, pc, writer, logged>>
    BY <1>3, <2>1, <2>3 DEF OutputWhole
  <2>7. Stream(m_numIterations', produced', queue', out', arrived', echoed', logged',
               notices')
    BY <2>5, <2>6 DEF serverVars
  <2>8. Control' /\ WakeupMatchesQueue'
    BY <1>1, <1>2, <2>6 DEF Control, serverVars, WakeupMatchesQueue
  <2> QED
    BY <2>7, <2>8, Split
<1>4. CASE OutputPart
  <2>1. PICK k \in Sent(Length(Head(queue))) :
            /\ k < Length(Head(queue))
            /\ out' = out \o Run(Head(queue).lo, k)
            /\ queue' = <<Advance(Head(queue), k)>> \o Tail(queue)
    BY <1>4 DEF OutputPart
  <2>2. PICK v : v = out \o Run(Head(queue).lo, k)
    OBVIOUS
  <2>3. PICK u : u = <<Advance(Head(queue), k)>> \o Tail(queue)
    OBVIOUS
  <2>4. PICK n : n = notices + 1
    OBVIOUS
  <2>5. k \in Nat /\ Len(out) + k - arrived <= SendSpace /\ k <= Length(Head(queue))
    BY <1>5, <2>1, SentBound, Zenon
  <2>6. Stream(m_numIterations, produced, u, v, arrived, echoed, logged, n)
    BY <1>1, <1>2, <2>1, <2>2, <2>3, <2>4, <2>5, StreamSends
  <2>7. /\ queue' = u /\ out' = v /\ notices' = n
        /\ pc' = "reactor" /\ watch' = watch \cup {"WRITE"}
        /\ UNCHANGED <<serverVars, loop, m_numIterations, timer, produced, writer, logged>>
    BY <1>4, <2>1, <2>2, <2>3, <2>4 DEF OutputPart, Notified, WatchForWrite
  <2>8. u # <<>>
    BY <1>1, <1>2, <2>1, <2>3, <2>5, GaplessAdvance DEF Stream
  <2>9. Stream(m_numIterations', produced', queue', out', arrived', echoed', logged',
               notices')
    BY <2>6, <2>7 DEF serverVars
  <2>10. Control' /\ WakeupMatchesQueue'
    BY <1>1, <1>2, <2>7, <2>8 DEF Control, serverVars, WakeupMatchesQueue
  <2> QED
    BY <2>9, <2>10, Split
<1> QED
  BY <1>3, <1>4

(* A tick without a line, and the start of handle_output, change a counter *)
(* of the stream only.                                                     *)
LEMMA CountStep ==
    IInv /\ (CloseWriter \/ TimerLost \/ StartOutput) => IInv'
<1> SUFFICES ASSUME IInv, CloseWriter \/ TimerLost \/ StartOutput PROVE IInv'
  OBVIOUS
<1>1. Stream(m_numIterations, produced, queue, out, arrived, echoed, logged, notices)
      /\ Control /\ WakeupMatchesQueue
  BY Split
<1>2. CASE CloseWriter \/ TimerLost
  <2>1. PICK m : m = m_numIterations + 1
    OBVIOUS
  <2>2. m \in 0..MaxTicks /\ produced <= m * LineLength
    <3>1. /\ m_numIterations \in Nat /\ m_numIterations < MaxTicks /\ produced \in Nat
          /\ produced <= m_numIterations * LineLength
      BY <1>1, <1>2, Constants DEF Stream, CloseWriter, TimerLost, Tick
    <3>2. m * LineLength = m_numIterations * LineLength + LineLength
          /\ m_numIterations * LineLength \in Nat
      BY <2>1, <3>1, Constants
    <3> QED
      BY <2>1, <3>1, <3>2, Constants
  <2>3. Stream(m, produced, queue, out, arrived, echoed, logged, notices)
    BY <1>1, <2>2 DEF Stream
  <2>4. /\ m_numIterations' = m
        /\ UNCHANGED <<serverVars, loop, produced, queue, notices, watch, pc, out, logged>>
        /\ writer' \in {"open", "shut"} /\ timer' \in BOOLEAN
    BY <1>1, <1>2, <2>1 DEF CloseWriter, TimerLost, Tick, Control
  <2>5. Stream(m_numIterations', produced', queue', out', arrived', echoed', logged',
               notices')
    BY <2>3, <2>4 DEF serverVars
  <2>6. Control' /\ WakeupMatchesQueue'
    BY <1>1, <2>4 DEF Control, serverVars, WakeupMatchesQueue
  <2> QED
    BY <2>5, <2>6, Split
<1>3. CASE StartOutput
  <2>1. PICK n \in Nat : notices' = n
    <3>1. notices \in Nat
      BY <1>1 DEF Stream
    <3>2. CASE notices > 0 /\ notices' = notices - 1
      <4>1. PICK n : n = notices - 1
        OBVIOUS
      <4>2. n \in Nat
        BY <3>1, <3>2, <4>1
      <4> QED
        BY <3>2, <4>1, <4>2
    <3>3. CASE UNCHANGED notices
      BY <3>1, <3>3
    <3> QED
      BY <1>3, <3>2, <3>3 DEF StartOutput
  <2>2. Stream(m_numIterations, produced, queue, out, arrived, echoed, logged, n)
    BY <1>1 DEF Stream
  <2>3. /\ pc' = "output"
        /\ UNCHANGED <<serverVars, loop, m_numIterations, timer, produced, queue,
                       watch, writer, out, logged>>
    BY <1>3 DEF StartOutput
  <2>4. Stream(m_numIterations', produced', queue', out', arrived', echoed', logged',
               notices')
    BY <2>1, <2>2, <2>3 DEF serverVars
  <2>5. Control' /\ WakeupMatchesQueue'
    BY <1>1, <2>3 DEF Control, serverVars, WakeupMatchesQueue
  <2> QED
    BY <2>4, <2>5, Split
<1> QED
  BY <1>2, <1>3

(* The steps that only change who is open, what is watched, or how much    *)
(* was read at either end.                                                 *)
LEMMA QuietStep ==
    IInv /\ (open \/ OutputEmpty \/ LogInput \/ EndOfInput \/ Server \/ UNCHANGED vars)
        => IInv'
<1> SUFFICES ASSUME IInv,
                    open \/ OutputEmpty \/ LogInput \/ EndOfInput \/ Server
                        \/ UNCHANGED vars
             PROVE  IInv'
  OBVIOUS
<1>1. Stream(m_numIterations, produced, queue, out, arrived, echoed, logged, notices)
      /\ Control /\ WakeupMatchesQueue
  BY Split
<1>2. UNCHANGED <<m_numIterations, produced, queue, out, notices>>
  BY DEF open, OutputEmpty, LogInput, EndOfInput, Server, ServerRead, ServerEcho,
         ServerClose, vars, clientVars
<1>3. PICK a, e, l : /\ arrived' = a /\ echoed' = e /\ logged' = l
                     /\ a \in 0..Len(out) /\ Len(out) - a <= SendSpace
                     /\ e \in 0..a /\ l \in 0..e
  <2>1. /\ Len(out) \in Nat /\ arrived \in 0..Len(out)
        /\ Len(out) - arrived <= SendSpace /\ SendSpace \in Nat
        /\ echoed \in 0..arrived /\ logged \in 0..echoed
    BY <1>1, LenProperties, Constants DEF Stream
  <2>2. CASE ServerRead
    <3>1. PICK a \in arrived + 1 .. Len(out) : arrived' = a
      BY <2>2 DEF ServerRead
    <3>2. a \in 0..Len(out) /\ Len(out) - a <= SendSpace /\ echoed \in 0..a
      BY <2>1
    <3>3. arrived' = a /\ echoed' = echoed /\ logged' = logged
      BY <2>2, <3>1 DEF ServerRead, clientVars
    <3> QED
      BY <2>1, <3>2, <3>3
  <2>3. CASE ServerEcho
    <3>1. PICK e \in echoed + 1 .. arrived : echoed' = e
      BY <2>3 DEF ServerEcho
    <3>2. e \in 0..arrived /\ logged \in 0..e
      BY <2>1
    <3>3. arrived' = arrived /\ echoed' = e /\ logged' = logged
      BY <2>3, <3>1 DEF ServerEcho, clientVars
    <3> QED
      BY <2>1, <3>2, <3>3
  <2>4. CASE LogInput
    <3>1. arrived' = arrived /\ echoed' = echoed /\ logged' = echoed
      BY <2>4 DEF LogInput, serverVars
    <3>2. echoed \in 0..echoed
      BY <2>1
    <3> QED
      BY <2>1, <3>1, <3>2
  <2>5. CASE UNCHANGED <<arrived, echoed, logged>>
    BY <2>1, <2>5
  <2> QED
    BY <2>2, <2>3, <2>4, <2>5
       DEF open, OutputEmpty, EndOfInput, Server, ServerClose, vars, clientVars,
           serverVars
<1>4. Stream(m_numIterations, produced, queue, out, a, e, l, notices)
  BY <1>1, <1>3 DEF Stream
<1>5. Stream(m_numIterations', produced', queue', out', arrived', echoed', logged',
             notices')
  BY <1>2, <1>3, <1>4
<1>6. Control'
  <2>1. CASE open \/ OutputEmpty \/ LogInput \/ EndOfInput
    BY <1>1, <2>1 DEF Control, open, OutputEmpty, LogInput, EndOfInput, serverVars
  <2>2. CASE Server \/ UNCHANGED vars
    BY <1>1, <2>2 DEF Control, Server, ServerRead, ServerEcho, ServerClose, vars,
                      clientVars
  <2> QED
    BY <2>1, <2>2
<1>7. WakeupMatchesQueue'
  <2>1. CASE open
    BY <1>1, <2>1 DEF open, Control, WakeupMatchesQueue
  <2>2. CASE OutputEmpty
    BY <2>2 DEF OutputEmpty, WakeupMatchesQueue
  <2>3. CASE LogInput \/ EndOfInput
    BY <1>1, <2>3 DEF LogInput, EndOfInput, WakeupMatchesQueue
  <2>4. CASE Server \/ UNCHANGED vars
    BY <1>1, <2>4 DEF Server, ServerRead, ServerEcho, ServerClose, vars, clientVars,
                      WakeupMatchesQueue
  <2> QED
    BY <2>1, <2>2, <2>3, <2>4
<1> QED
  BY <1>5, <1>6, <1>7, Split

LEMMA Inductive == IInv /\ [Next]_vars => IInv'
  BY PutLineStep, SendStep, CountStep, QuietStep
     DEF Next, Reactor, Timeout, Output, Finished

(* The invariant holds always. *)
THEOREM Invariance == Spec => []IInv
<1> QED
  BY Inductive, InitInv, PTL DEF Spec

\* The type invariant, with the number of lines.
THEOREM TypeCorrect == Spec => []TypeOK
<1>1. IInv => TypeOK
  BY DEF IInv
<1> QED
  BY <1>1, Invariance, PTL

(* What the client has sent and what it has queued is the stream of its    *)
(* lines, without a loss, a repetition or a change of order.               *)
THEOREM NothingLost == Spec => []StreamIntact
<1>1. IInv => StreamIntact
  BY DEF IInv
<1> QED
  BY <1>1, Invariance, PTL

(* No queued line lacks a wake-up, and the reactor does not watch for      *)
(* writability in vain.                                                    *)
THEOREM WakeupComing == Spec => []WakeupMatchesQueue
<1>1. IInv => WakeupMatchesQueue
  BY DEF IInv
<1> QED
  BY <1>1, Invariance, PTL

-----------------------------------------------------------------------------
(* No more is sent than was produced: no queued block goes beyond it.      *)
WithinLines ==
    /\ \A i \in 1..Len(queue) : queue[i].hi <= produced
    /\ pc = "output" => loop = "run"

LEMMA SentWithinLines ==
    IInv /\ WithinLines
        => Len(out) \in Nat /\ Len(out) <= (MaxIterations - 1) * LineLength
<1> SUFFICES ASSUME IInv, WithinLines
             PROVE  Len(out) \in Nat /\ Len(out) <= (MaxIterations - 1) * LineLength
  OBVIOUS
<1>1. /\ Len(out) \in Nat /\ produced \in Nat /\ queue \in Seq(Block)
      /\ produced <= (MaxIterations - 1) * LineLength
      /\ (MaxIterations - 1) * LineLength \in Int
  BY LenProperties, Constants DEF IInv, TypeOK
<1>2. Len(out) <= produced
  <2>1. CASE queue = <<>>
    BY <1>1, <2>1 DEF IInv, StreamIntact
  <2>2. CASE queue # <<>>
    <3>1. 1 \in 1..Len(queue) /\ Head(queue) = queue[1] /\ Head(queue) \in Block
      BY <1>1, <2>2, EmptySeq, HeadTailProperties
    <3>2. /\ queue[1].lo \in Nat /\ queue[1].hi \in Nat
          /\ queue[1].lo = Len(out) + 1 /\ queue[1].lo <= queue[1].hi
          /\ queue[1].hi <= produced
      BY <2>2, <3>1 DEF IInv, StreamIntact, Gapless, WithinLines, Block
    <3> QED
      BY <1>1, <3>2
  <2> QED
    BY <2>1, <2>2
<1> QED
  BY <1>1, <1>2

LEMMA WithinLinesInductive == IInv /\ WithinLines /\ [Next]_vars => WithinLines'
<1> SUFFICES ASSUME IInv, WithinLines, [Next]_vars PROVE WithinLines'
  OBVIOUS
<1>1. /\ queue \in Seq(Block) /\ Len(queue) \in Nat /\ produced \in Nat
      /\ \A i \in 1..Len(queue) : queue[i] \in Block /\ queue[i].hi \in Nat
      /\ LineLength \in Nat
  <2>1. queue \in Seq(Block) /\ produced \in Nat
    BY DEF IInv, TypeOK
  <2>2. Len(queue) \in Nat /\ \A i \in 1..Len(queue) : queue[i] \in Block
    BY <2>1, ElementOfSeq, LenProperties
  <2>3. \A b \in Block : b.hi \in Nat
    BY DEF Block
  <2> QED
    BY <2>1, <2>2, <2>3, Constants
<1>2. CASE UNCHANGED <<queue, produced, pc, loop>>
  BY <1>2 DEF WithinLines
<1>3. CASE open \/ EndOfInput \/ StartOutput \/ OutputEmpty
  BY <1>3 DEF open, EndOfInput, StartOutput, OutputEmpty, Ready, WithinLines,
              IInv, WakeupMatchesQueue, TypeOK
<1>4. CASE PutLine
  <2>1. PICK b \in Block : /\ b.hi = produced + LineLength
                          /\ queue' = Append(queue, b)
    <3>1. [lo |-> produced + 1, hi |-> produced + LineLength] \in Block
      BY <1>1 DEF Block
    <3> QED
      BY <1>4, <3>1 DEF PutLine
  <2>2. UNCHANGED <<pc, loop>> /\ produced' = produced + LineLength
    BY <1>4 DEF PutLine
  <2>3. /\ Len(queue') = Len(queue) + 1
        /\ \A i \in 1..Len(queue) : queue'[i] = queue[i]
        /\ queue'[Len(queue) + 1] = b
    BY <1>1, <2>1, AppendProperties
  <2>4. ASSUME NEW i \in 1..Len(queue') PROVE queue'[i].hi <= produced'
    <3>1. CASE i = Len(queue) + 1
      BY <1>1, <2>1, <2>2, <2>3, <3>1
    <3>2. CASE i \in 1..Len(queue)
      BY <1>1, <2>2, <2>3, <3>2 DEF WithinLines
    <3> QED
      BY <1>1, <2>3, <3>1, <3>2
  <2> QED
    BY <2>2, <2>4 DEF WithinLines
<1>5. CASE OutputWhole \/ OutputPart
  <2>1. queue # <<>> /\ UNCHANGED <<produced, loop>> /\ pc = "output"
    BY <1>5 DEF OutputWhole, OutputPart
  <2>2. /\ Head(queue) = queue[1] /\ Head(queue) \in Block
        /\ Tail(queue) \in Seq(Block) /\ Len(Tail(queue)) = Len(queue) - 1
        /\ \A i \in 1..Len(queue) - 1 : Tail(queue)[i] = queue[i + 1]
        /\ 1 \in 1..Len(queue)
    BY <1>1, <2>1, EmptySeq, HeadTailProperties
  <2>3. \A i \in 1..Len(queue') : \E j \in 1..Len(queue) : queue'[i].hi = queue[j].hi
    <3>1. CASE OutputWhole
      <4>1. queue' = Tail(queue)
        BY <3>1 DEF OutputWhole
      <4>2. ASSUME NEW i \in 1..Len(queue) - 1
            PROVE  i + 1 \in 1..Len(queue) /\ Tail(queue)[i] = queue[i + 1]
        BY <1>1, <2>2
      <4> QED
        BY <2>2, <4>1, <4>2
    <3>2. CASE OutputPart
      <4>1. PICK n : queue' = <<Advance(Head(queue), n)>> \o Tail(queue)
        BY <3>2 DEF OutputPart
      <4>2. PICK b : b = Advance(Head(queue), n)
        OBVIOUS
      <4>3. b.hi = queue[1].hi
        BY <2>2, <4>2 DEF Advance, Block
      <4>4. PICK S : S = Block \cup {b}
        OBVIOUS
      <4>5. <<b>> \in Seq(S) /\ Len(<<b>>) = 1 /\ Tail(queue) \in Seq(S)
        BY <2>2, <4>4, SeqMonotonic
      <4>6. /\ Len(queue') = 1 + Len(Tail(queue))
            /\ queue'[1] = b
            /\ \A i \in 2 .. Len(queue') : queue'[i] = Tail(queue)[i - 1]
        <5>1. queue' = <<b>> \o Tail(queue)
          BY <4>1, <4>2
        <5> QED
          BY <1>1, <2>2, <4>5, <5>1, ConcatProperties
      <4>7. ASSUME NEW i \in 1..Len(queue')
            PROVE  \E j \in 1..Len(queue) : queue'[i].hi = queue[j].hi
        <5>1. CASE i = 1
          BY <2>2, <4>3, <4>6, <5>1
        <5>2. CASE i # 1
          <6>1. i \in 2 .. Len(queue') /\ i - 1 \in 1..Len(queue) - 1
                /\ i \in 1..Len(queue) /\ (i - 1) + 1 = i
            BY <1>1, <2>2, <4>6, <5>2
          <6>2. queue'[i] = queue[i]
            BY <2>2, <4>6, <6>1
          <6> QED
            BY <6>1, <6>2
        <5> QED
          BY <5>1, <5>2
      <4> QED
        BY <4>7
    <3> QED
      BY <1>5, <3>1, <3>2
  <2> QED
    BY <2>1, <2>3 DEF WithinLines
<1> QED
  BY <1>2, <1>3, <1>4, <1>5
     DEF Next, Reactor, Timeout, Output, Server, Finished, CloseWriter, TimerLost,
         LogInput, ServerRead, ServerEcho, ServerClose, vars, clientVars

LEMMA InitWithinLines == Init => WithinLines
  BY EmptySeq DEF Init, WithinLines

(* A send takes no byte back.                                              *)
LEMMA SendsMore ==
    ASSUME IInv, OutputWhole \/ OutputPart
    PROVE  Len(out') \in Nat /\ Len(out) \in Nat /\ Len(out') >= Len(out)
<1>1. /\ queue \in Seq(Block) /\ Gapless(queue) /\ queue # <<>>
      /\ out \in Seq(Nat) /\ Len(out) \in Nat
  BY LenProperties DEF IInv, TypeOK, StreamIntact, OutputWhole, OutputPart
<1>2. Head(queue).lo \in Nat /\ Length(Head(queue)) \in Nat
  <2>1. Head(queue) \in Block /\ Head(queue).lo <= Head(queue).hi
    BY <1>1, GaplessTail
  <2> QED
    BY <2>1 DEF Block, Length
<1>3. PICK k \in Sent(Length(Head(queue))) : out' = out \o Run(Head(queue).lo, k)
  BY DEF OutputWhole, OutputPart
<1>4. k \in Nat
  BY <1>2, <1>3, SentBound
<1>5. PICK r : r = Run(Head(queue).lo, k)
  OBVIOUS
<1>6. r \in Seq(Int) /\ Len(r) = k
  <2>1. PICK c \in Nat : c = Head(queue).lo
    BY <1>2
  <2>2. PICK m \in Nat : m = k
    BY <1>4
  <2>3. Run(c, m) \in Seq(c .. c + m - 1) /\ Len(Run(c, m)) = m
    <3>1. c \in Int /\ m \in Nat
      BY <2>1, <2>2
    <3> QED
      BY <3>1, RunProperties, Zenon
  <2>4. c .. c + m - 1 \subseteq Int
    BY <2>1, <2>2
  <2>5. Run(c, m) \in Seq(Int)
    BY <2>3, <2>4, SeqMonotonic
  <2> QED
    BY <1>5, <2>1, <2>2, <2>3, <2>5
<1>7. Len(out \o r) = Len(out) + Len(r)
  <2>1. out \in Seq(Int)
    <3>1. Nat \subseteq Int
      OBVIOUS
    <3> QED
      BY <1>1, <3>1, SeqMonotonic, Zenon
  <2> QED
    BY <1>6, <2>1, ConcatProperties
<1> QED
  BY <1>1, <1>3, <1>4, <1>5, <1>6, <1>7

(* What the server can see of a step of the client.                        *)
LEMMA ReactorEffect ==
    ASSUME IInv, WithinLines, Reactor
    PROVE  /\ UNCHANGED serverVars
           /\ loop # "ended"
           /\ Len(out') \in Nat /\ Len(out) \in Nat /\ Len(out') >= Len(out)
           /\ \/ UNCHANGED <<loop, writer, logged>>
              \/ Len(out') = Len(out) /\ logged < echoed /\ logged' = echoed
                 /\ UNCHANGED <<loop, writer>>
              \/ Len(out') = Len(out) /\ loop = "run" /\ writer' = "shut"
                 /\ UNCHANGED <<loop, logged>>
              \/ Len(out') = Len(out) /\ UNCHANGED <<writer, logged>>
                 /\ \/ loop = "start" /\ loop' = "run"
                    \/ loop = "start" /\ loop' = "ended"
                    \/ EndOfInput /\ loop' = "ended"
           /\ Len(out') # Len(out) => writer = "open" /\ loop = "run"
<1>1. out \in Seq(Nat) /\ Len(out) \in Nat /\ queue \in Seq(Block)
  BY LenProperties DEF IInv, TypeOK
<1>2. CASE open \/ Timeout
  BY <1>1, <1>2 DEF open, Timeout, CloseWriter, PutLine, TimerLost, Tick, Ready
<1>3. CASE StartOutput \/ OutputEmpty \/ LogInput \/ EndOfInput
  BY <1>1, <1>3 DEF StartOutput, OutputEmpty, LogInput, EndOfInput, Ready, WithinLines
<1>4. CASE OutputWhole \/ OutputPart
  <2>1. /\ UNCHANGED <<serverVars, loop, writer, logged>> /\ loop = "run"
        /\ queue # <<>>
    BY <1>4 DEF OutputWhole, OutputPart, WithinLines
  <2>2. ASSUME writer # "open" PROVE Len(out') = Len(out)
    <3>1. writer = "shut"
      BY <2>2 DEF IInv, TypeOK
    <3>2. out' = out \o Run(Head(queue).lo, 0)
      BY <1>4, <3>1 DEF OutputWhole, OutputPart, Sent
    <3>3. Run(Head(queue).lo, 0) = <<>>
      <4>1. Head(queue) \in Block
        BY <1>1, <2>1, HeadTailProperties
      <4>2. Head(queue).lo \in Int
        BY <4>1 DEF Block
      <4>3. PICK c \in Int : c = Head(queue).lo
        BY <4>2
      <4>4. Run(c, 0) \in Seq(c .. c + 0 - 1) /\ Len(Run(c, 0)) = 0
        BY <4>3, RunProperties
      <4> QED
        BY <4>3, <4>4, EmptySeq
    <3>4. out \o <<>> = out
      BY <1>1, ConcatEmptySeq
    <3> QED
      BY <3>2, <3>3, <3>4
  <2> QED
    BY <1>4, <2>1, <2>2, SendsMore
<1> QED
  BY <1>2, <1>3, <1>4 DEF Reactor, Output
=============================================================================
