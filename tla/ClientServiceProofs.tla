------------------------ MODULE ClientServiceProofs ------------------------
(***************************************************************************)
(* Proofs about ClientService.tla for every value of its constants.        *)
(***************************************************************************)
EXTENDS ClientService, ByteRunsProofs, FiniteSetTheorems

-----------------------------------------------------------------------------
(* The backlog. *)

(* enqueue_tail adds the bytes of the block. *)
LEMMA QueuedAppend ==
    ASSUME NEW q \in Seq(Block), NEW b \in Block
    PROVE  Queued(Append(q, b)) = Queued(q) \cup BytesIn(b)
<1>1. /\ Append(q, b) \in Seq(Block)
      /\ Len(Append(q, b)) = Len(q) + 1
      /\ \A i \in 1 .. Len(q) : Append(q, b)[i] = q[i]
      /\ Append(q, b)[Len(q) + 1] = b
  BY AppendProperties
<1>2. DOMAIN Append(q, b) = 1 .. Len(q) + 1 /\ DOMAIN q = 1 .. Len(q)
      /\ Len(q) \in Nat
  BY <1>1, LenProperties
<1>3. Queued(q) \cup BytesIn(b) \subseteq Queued(Append(q, b))
  BY <1>1, <1>2 DEF Queued
<1>4. Queued(Append(q, b)) \subseteq Queued(q) \cup BytesIn(b)
  BY <1>1, <1>2 DEF Queued
<1> QED
  BY <1>3, <1>4

(* dequeue_head splits the backlog into a block and the rest. *)
LEMMA QueuedHeadTail ==
    ASSUME NEW q \in Seq(Block), q # <<>>
    PROVE  /\ Head(q) \in Block /\ Head(q) = q[1]
           /\ Tail(q) \in Seq(Block)
           /\ Queued(q) = BytesIn(Head(q)) \cup Queued(Tail(q))
<1>1. /\ Head(q) \in Block /\ Tail(q) \in Seq(Block)
      /\ Len(Tail(q)) = Len(q) - 1
      /\ \A i \in 1 .. Len(Tail(q)) : Tail(q)[i] = q[i + 1]
  BY HeadTailProperties
<1>2. DOMAIN Tail(q) = 1 .. Len(q) - 1 /\ DOMAIN q = 1 .. Len(q)
      /\ Len(q) \in Nat \ {0}
  BY <1>1, LenProperties, EmptySeq
<1>3. Head(q) = q[1]
  OBVIOUS
<1>4. Queued(q) \subseteq BytesIn(Head(q)) \cup Queued(Tail(q))
  <2> SUFFICES ASSUME NEW i \in 1 .. Len(q)
               PROVE  BytesIn(q[i]) \subseteq
                        BytesIn(Head(q)) \cup Queued(Tail(q))
    BY <1>2 DEF Queued
  <2>1. CASE i = 1
    BY <2>1, <1>3
  <2>2. CASE i # 1
    <3>1. i - 1 \in DOMAIN Tail(q) /\ Tail(q)[i - 1] = q[i]
      BY <2>2, <1>1, <1>2
    <3> QED
      BY <3>1 DEF Queued
  <2> QED
    BY <2>1, <2>2
<1>5. BytesIn(Head(q)) \cup Queued(Tail(q)) \subseteq Queued(q)
  <2>1. BytesIn(Head(q)) \subseteq Queued(q)
    BY <1>2, <1>3 DEF Queued
  <2>2. \A i \in DOMAIN Tail(q) : i + 1 \in DOMAIN q /\ Tail(q)[i] = q[i + 1]
    BY <1>1, <1>2
  <2>3. Queued(Tail(q)) \subseteq Queued(q)
    BY <2>2 DEF Queued
  <2> QED
    BY <2>1, <2>3
<1> QED
  BY <1>1, <1>3, <1>4, <1>5

(* enqueue_head adds the bytes of the block. *)
LEMMA QueuedCons ==
    ASSUME NEW q \in Seq(Block), NEW b \in Block
    PROVE  /\ enqueue_head(b, q) \in Seq(Block)
           /\ enqueue_head(b, q) # <<>>
           /\ Len(enqueue_head(b, q)) = Len(q) + 1
           /\ enqueue_head(b, q)[1] = b
           /\ \A i \in 1 .. Len(q) : enqueue_head(b, q)[i + 1] = q[i]
           /\ Queued(enqueue_head(b, q)) = BytesIn(b) \cup Queued(q)
<1> DEFINE u == enqueue_head(b, q)
<1>1. <<b>> \in Seq(Block) /\ Len(<<b>>) = 1 /\ <<b>>[1] = b
  OBVIOUS
<1>2. /\ u \in Seq(Block) /\ Len(u) = 1 + Len(q)
      /\ \A i \in 1 .. 1 + Len(q) :
            u[i] = IF i <= 1 THEN <<b>>[i] ELSE q[i - 1]
  BY <1>1, ConcatProperties DEF enqueue_head
<1>3. Len(q) \in Nat /\ DOMAIN q = 1 .. Len(q) /\ DOMAIN u = 1 .. Len(q) + 1
  BY <1>2, LenProperties
<1>4. u[1] = b /\ \A i \in 1 .. Len(q) : u[i + 1] = q[i]
  BY <1>1, <1>2, <1>3
<1>5. u # <<>>
  BY <1>2, <1>3
<1>6. Queued(u) \subseteq BytesIn(b) \cup Queued(q)
  <2> SUFFICES ASSUME NEW i \in 1 .. Len(q) + 1
               PROVE  BytesIn(u[i]) \subseteq BytesIn(b) \cup Queued(q)
    BY <1>3 DEF Queued
  <2>1. CASE i = 1
    BY <2>1, <1>4
  <2>2. CASE i # 1
    <3>1. i - 1 \in DOMAIN q /\ u[i] = q[i - 1]
      BY <2>2, <1>2, <1>3
    <3> QED
      BY <3>1 DEF Queued
  <2> QED
    BY <2>1, <2>2
<1>7. BytesIn(b) \cup Queued(q) \subseteq Queued(u)
  <2>1. BytesIn(b) \subseteq Queued(u)
    BY <1>3, <1>4 DEF Queued
  <2>2. \A i \in DOMAIN q : i + 1 \in DOMAIN u /\ u[i + 1] = q[i]
    BY <1>3, <1>4
  <2>3. Queued(q) \subseteq Queued(u)
    BY <2>2 DEF Queued
  <2> QED
    BY <2>1, <2>3
<1> QED
  BY <1>2, <1>4, <1>5, <1>6, <1>7
-----------------------------------------------------------------------------
(* The memory of the backlog: what was allocated for its blocks. *)

(* A queue of blocks takes a finite amount of memory.                      *)
LEMMA AllocatedFinite ==
    ASSUME NEW q \in Seq(Block)
    PROVE  IsFiniteSet(Allocated(q)) /\ cur_bytes(q) \in Nat
<1>1. Len(q) \in Nat /\ DOMAIN q = 1 .. Len(q) /\ InputSize \in Nat
      /\ \A i \in 1 .. Len(q) : q[i] \in Block
  BY LenProperties, InputSizeAssumption
<1>2. \A i \in 1 .. Len(q) : 1 .. q[i].size \subseteq 1..InputSize
  BY <1>1 DEF Block
<1>3. Allocated(q) \subseteq (1 .. Len(q)) \X (1..InputSize)
  BY <1>1, <1>2 DEF Allocated
<1>4. IsFiniteSet(1 .. Len(q)) /\ IsFiniteSet(1..InputSize)
  BY <1>1, FS_Interval
<1>5. IsFiniteSet((1 .. Len(q)) \X (1..InputSize))
  BY <1>4, FS_Product
<1>6. IsFiniteSet(Allocated(q))
  BY <1>3, <1>5, FS_Subset
<1> QED
  BY <1>6, FS_CardinalityType DEF cur_bytes

(* Of sets that are apart, the sizes add up.                               *)
LEMMA DisjointUnion ==
    ASSUME NEW S, IsFiniteSet(S), NEW T, IsFiniteSet(T), S \cap T = {}
    PROVE  Cardinality(S \cup T) = Cardinality(S) + Cardinality(T)
<1>1. PICK m \in Nat : m = Cardinality(S)
  BY FS_CardinalityType
<1>2. PICK n \in Nat : n = Cardinality(T)
  BY FS_CardinalityType
<1>3. Cardinality(S \cup T) = m + n - Cardinality({})
  BY <1>1, <1>2, FS_Union
<1>4. Cardinality({}) = 0
  BY FS_EmptySet
<1>5. Cardinality(S \cup T) = m + n
  BY <1>3, <1>4
<1> QED
  BY <1>1, <1>2, <1>5, Zenon

LEMMA NothingAllocated == cur_bytes(<<>>) = 0
<1>1. Allocated(<<>>) = {}
  BY DEF Allocated
<1> QED
  BY <1>1, FS_EmptySet DEF cur_bytes

(* One block takes what was allocated for it.                              *)
LEMMA OneBlock ==
    ASSUME NEW i, NEW n \in Nat
    PROVE  IsFiniteSet({i} \X (1..n)) /\ Cardinality({i} \X (1..n)) = n
<1>1. IsFiniteSet(1..n) /\ Cardinality(1..n) = n
  BY FS_Interval
<1>2. IsFiniteSet({i}) /\ Cardinality({i}) = 1
  BY FS_Singleton
<1>3. /\ IsFiniteSet({i} \X (1..n))
      /\ Cardinality({i} \X (1..n)) = Cardinality({i}) * Cardinality(1..n)
  BY <1>1, <1>2, FS_Product
<1> QED
  BY <1>1, <1>2, <1>3

(* enqueue_tail adds the size of the block.                                *)
LEMMA AllocatedAppend ==
    ASSUME NEW q \in Seq(Block), NEW b \in Block
    PROVE  cur_bytes(Append(q, b)) = cur_bytes(q) + b.size
<1> DEFINE new == {Len(q) + 1} \X (1 .. b.size)
<1>1. /\ Len(q) \in Nat /\ DOMAIN q = 1 .. Len(q)
      /\ DOMAIN Append(q, b) = 1 .. Len(q) + 1
      /\ \A i \in 1 .. Len(q) : Append(q, b)[i] = q[i]
      /\ Append(q, b)[Len(q) + 1] = b
  BY AppendProperties, LenProperties
<1>2. 1 .. Len(q) + 1 = 1 .. Len(q) \cup {Len(q) + 1}
      /\ Len(q) + 1 \notin 1 .. Len(q)
  BY <1>1
<1>3. Allocated(Append(q, b)) = Allocated(q) \cup new
  BY <1>1, <1>2 DEF Allocated
<1>4. Allocated(q) \cap new = {}
  BY <1>1, <1>2 DEF Allocated
<1>5. IsFiniteSet(new) /\ Cardinality(new) = b.size /\ b.size \in Nat
  <2>1. b.size \in Nat
    BY InputSizeAssumption DEF Block
  <2> QED
    BY <2>1, OneBlock
<1> HIDE DEF new
<1>6. Cardinality(Allocated(q) \cup new) = Cardinality(Allocated(q)) + Cardinality(new)
  BY <1>4, <1>5, AllocatedFinite, DisjointUnion
<1> QED
  BY <1>3, <1>5, <1>6, Zenon DEF cur_bytes

(* A queue takes what its first block takes and what the others take: this *)
(* is dequeue_head, read from q, and enqueue_head, read from t.            *)
LEMMA AllocatedSplit ==
    ASSUME NEW q \in Seq(Block), NEW t \in Seq(Block), Len(q) = Len(t) + 1,
           \A i \in 1 .. Len(t) : q[i + 1] = t[i]
    PROVE  q[1].size \in Nat /\ cur_bytes(q) = q[1].size + cur_bytes(t)
<1> DEFINE first == {1} \X (1 .. q[1].size)
           others == UNION {{i + 1} \X (1 .. t[i].size) : i \in DOMAIN t}
           moved == [a \in Allocated(t) |-> <<a[1] + 1, a[2]>>]
<1>1. Len(t) \in Nat /\ DOMAIN t = 1 .. Len(t) /\ DOMAIN q = 1 .. Len(t) + 1
  BY LenProperties
<1>2. q[1].size \in Nat
  <2>1. q[1] \in Block
    BY <1>1, LenProperties
  <2> QED
    BY <2>1, InputSizeAssumption DEF Block
<1>3. /\ \A i \in 1 .. Len(t) : i + 1 # 1
      /\ \A i, j \in 1 .. Len(t) : i + 1 = j + 1 => i = j
  BY <1>1
<1>4. Allocated(q) = first \cup others
  <2>1. ASSUME NEW k \in DOMAIN q
        PROVE  {k} \X (1 .. q[k].size) \subseteq first \cup others
    <3>1. CASE k = 1
      BY <3>1
    <3>2. CASE k # 1
      <4>1. k - 1 \in DOMAIN t /\ (k - 1) + 1 = k /\ q[k] = t[k - 1]
        BY <1>1, <3>2
      <4> QED
        BY <4>1
    <3> QED
      BY <3>1, <3>2
  <2>2. first \subseteq Allocated(q)
    BY <1>1 DEF Allocated
  <2>3. \A i \in DOMAIN t : i + 1 \in DOMAIN q /\ q[i + 1] = t[i]
    BY <1>1
  <2>4. others \subseteq Allocated(q)
    BY <2>3 DEF Allocated
  <2>5. Allocated(q) \subseteq first \cup others
    BY <2>1 DEF Allocated
  <2> QED
    BY <2>2, <2>4, <2>5
<1>5. first \cap others = {}
  BY <1>1, <1>3
<1>6. moved \in Bijection(Allocated(t), others)
  <2>1. \A a \in Allocated(t) :
           \E i \in DOMAIN t : a[1] = i /\ a[2] \in 1 .. t[i].size /\ a = <<i, a[2]>>
    BY DEF Allocated
  <2>2. moved \in [Allocated(t) -> others]
    <3> SUFFICES ASSUME NEW a \in Allocated(t)
                 PROVE  <<a[1] + 1, a[2]>> \in others
      OBVIOUS
    <3>1. a[1] \in DOMAIN t /\ a[2] \in 1 .. t[a[1]].size
      BY <2>1
    <3> QED
      BY <3>1
  <2>3. \A a, c \in Allocated(t) : moved[a] = moved[c] => a = c
    BY <1>1, <1>3, <2>1
  <2>4. \A o \in others : \E a \in Allocated(t) : moved[a] = o
    <3> SUFFICES ASSUME NEW o \in others
                 PROVE  \E a \in Allocated(t) : moved[a] = o
      OBVIOUS
    <3>1. PICK i \in DOMAIN t : o \in {i + 1} \X (1 .. t[i].size)
      OBVIOUS
    <3>2. PICK k \in 1 .. t[i].size : o = <<i + 1, k>>
      BY <3>1
    <3>3. <<i, k>> \in Allocated(t)
      BY DEF Allocated
    <3> QED
      BY <3>2, <3>3
  <2> QED
    BY <2>2, <2>3, <2>4, Zenon DEF Bijection, Injection, Surjection, IsInjective
<1>7. /\ IsFiniteSet(others)
      /\ Cardinality(others) = Cardinality(Allocated(t))
      /\ Cardinality(Allocated(t)) \in Nat
  <2>1. IsFiniteSet(Allocated(t)) /\ Cardinality(Allocated(t)) \in Nat
    BY AllocatedFinite DEF cur_bytes
  <2>2. ExistsBijection(Allocated(t), others)
    BY <1>6, Zenon DEF ExistsBijection
  <2> QED
    BY <2>1, <2>2, FS_Bijection, Zenon
<1>8. IsFiniteSet(first) /\ Cardinality(first) = q[1].size
  BY <1>2, OneBlock
<1> HIDE DEF first, others
<1>9. Cardinality(first \cup others) = Cardinality(first) + Cardinality(others)
  BY <1>5, <1>7, <1>8, DisjointUnion
<1> QED
  BY <1>2, <1>4, <1>7, <1>8, <1>9, Zenon DEF cur_bytes

-----------------------------------------------------------------------------
(* Order in the backlog. *)

(* A block younger than the whole backlog keeps it ordered.                *)
LEMMA OrderedAppend ==
    ASSUME NEW q \in Seq(Block), NEW b \in Block, Ordered(q), b.lo <= b.hi,
           \A i \in DOMAIN q : q[i].hi < b.lo
    PROVE  Ordered(Append(q, b))
<1>1. /\ Append(q, b) \in Seq(Block)
      /\ Len(Append(q, b)) = Len(q) + 1
      /\ \A i \in 1 .. Len(q) : Append(q, b)[i] = q[i]
      /\ Append(q, b)[Len(q) + 1] = b
  BY AppendProperties
<1>2. DOMAIN Append(q, b) = 1 .. Len(q) + 1 /\ DOMAIN q = 1 .. Len(q)
      /\ Len(q) \in Nat
  BY <1>1, LenProperties
<1>3. \A i \in 1 .. Len(q) + 1 : i \in 1 .. Len(q) \/ i = Len(q) + 1
  BY <1>2
<1>4. ASSUME NEW i \in 1 .. Len(q) + 1, NEW j \in 1 .. Len(q) + 1, i < j
      PROVE  i \in 1 .. Len(q)
  BY <1>2, <1>4
<1> QED
  BY <1>1, <1>2, <1>3, <1>4 DEF Ordered

(* The rest of an ordered backlog is ordered, and younger than its head.   *)
LEMMA OrderedTail ==
    ASSUME NEW q \in Seq(Block), q # <<>>, Ordered(q)
    PROVE  /\ Ordered(Tail(q))
           /\ \A i \in DOMAIN Tail(q) :
                 i + 1 \in DOMAIN q /\ Tail(q)[i] = q[i + 1]
           /\ \A i \in DOMAIN Tail(q) : Head(q).hi < Tail(q)[i].lo
           /\ Head(q).lo <= Head(q).hi
           /\ 1 \in DOMAIN q /\ Head(q) = q[1]
<1>1. /\ Tail(q) \in Seq(Block) /\ Len(Tail(q)) = Len(q) - 1
      /\ \A i \in 1 .. Len(Tail(q)) : Tail(q)[i] = q[i + 1]
  BY HeadTailProperties
<1>2. DOMAIN Tail(q) = 1 .. Len(q) - 1 /\ DOMAIN q = 1 .. Len(q)
      /\ Len(q) \in Nat \ {0}
  BY <1>1, LenProperties, EmptySeq
<1>3. Head(q) = q[1] /\ 1 \in DOMAIN q
  BY <1>2
<1>4. \A i \in DOMAIN Tail(q) : i + 1 \in DOMAIN q /\ Tail(q)[i] = q[i + 1]
  BY <1>1, <1>2
<1>5. \A i \in DOMAIN Tail(q) : 1 < i + 1
  BY <1>2
<1>6. \A i, j \in DOMAIN Tail(q) : i < j => i + 1 < j + 1
  BY <1>2
<1> QED
  BY <1>3, <1>4, <1>5, <1>6 DEF Ordered

(* A block older than the whole backlog keeps it ordered at the head.      *)
LEMMA OrderedCons ==
    ASSUME NEW q \in Seq(Block), NEW b \in Block, Ordered(q), b.lo <= b.hi,
           \A i \in DOMAIN q : b.hi < q[i].lo
    PROVE  Ordered(enqueue_head(b, q))
<1>1. PICK u : u = enqueue_head(b, q)
  OBVIOUS
<1>2. /\ u \in Seq(Block) /\ Len(u) = Len(q) + 1 /\ u[1] = b
      /\ \A i \in 1 .. Len(q) : u[i + 1] = q[i]
  BY <1>1, QueuedCons
<1>3. DOMAIN u = 1 .. Len(q) + 1 /\ DOMAIN q = 1 .. Len(q) /\ Len(q) \in Nat
  BY <1>2, LenProperties
<1>4. \A i \in DOMAIN u : i = 1 \/ (i - 1 \in DOMAIN q /\ u[i] = q[i - 1])
  BY <1>2, <1>3
<1>5. \A i \in DOMAIN u : u[i].lo <= u[i].hi
  BY <1>2, <1>4 DEF Ordered
<1>6. ASSUME NEW i \in DOMAIN u, NEW j \in DOMAIN u, i < j
      PROVE  u[i].hi < u[j].lo
  <2>1. j - 1 \in DOMAIN q /\ u[j] = q[j - 1]
    BY <1>3, <1>4, <1>6
  <2>2. CASE i = 1
    BY <1>2, <2>1, <2>2
  <2>3. CASE i # 1
    <3>1. i - 1 \in DOMAIN q /\ u[i] = q[i - 1] /\ i - 1 < j - 1
      BY <1>3, <1>4, <1>6, <2>3
    <3> QED
      BY <2>1, <3>1 DEF Ordered
  <2> QED
    BY <2>2, <2>3
<1> QED
  BY <1>1, <1>5, <1>6 DEF Ordered

(* All bytes of an ordered backlog lie on one side of a bound that its     *)
(* blocks lie on one side of.                                              *)
LEMMA QueuedBounds ==
    ASSUME NEW q \in Seq(Block), NEW n \in Int
    PROVE  /\ (\A i \in DOMAIN q : q[i].hi <= n) =>
                  \A x \in Queued(q) : x <= n
           /\ (\A i \in DOMAIN q : n < q[i].lo) =>
                  \A x \in Queued(q) : n < x
           /\ Queued(q) \subseteq Nat \ {0}
<1>1. \A i \in DOMAIN q : q[i] \in Block
  BY LenProperties
<1>2. \A i \in DOMAIN q : q[i].lo \in Nat \ {0} /\ q[i].hi \in Nat \ {0}
  BY <1>1, MaxBytesAssumption DEF Block, Bytes
<1>3. \A x \in Queued(q) :
         \E i \in DOMAIN q : x \in q[i].lo .. q[i].hi
  BY DEF Queued, BytesIn
<1> QED
  BY <1>2, <1>3

-----------------------------------------------------------------------------
(* The inductive invariant.  No conjunct is inductive alone: that no byte  *)
(* is sent twice needs the backlog's order, the order needs to know that   *)
(* the bytes of handle_input are younger than the backlog, and what a      *)
(* callback may assume of the backlog comes from the registration.         *)
IInv ==
    /\ TypeOK
    /\ WriteArmedIffBacklog
    /\ RegisteredWhileOpen
    /\ BacklogInOrder
    /\ EveryByteAccounted

(* The differences the state functions are built from, as operators that   *)
(* can stay folded: Settled, Fresh and InFlight after a step are those of  *)
(* the counters after the step.                                            *)
Minus(m, n) == m - n
Above(m, n) == m + 1 .. n

LEMMA Derived ==
    /\ Settled = Minus(received, fresh) /\ Settled' = Minus(received', fresh')
    /\ Fresh = Above(Settled, received) /\ Fresh' = Above(Settled', received')
    /\ InFlight = Minus(Len(echo), taken)
    /\ InFlight' = Minus(Len(echo'), taken')
BY Zenon DEF Settled, Fresh, InFlight, Minus, Above

(* What TypeOK says of the counters, as numbers. *)
LEMMA Numbers ==
    ASSUME TypeOK
    PROVE  /\ written \in Nat /\ received \in Nat /\ received <= written
           /\ written <= MaxBytes
           /\ fresh \in Nat /\ fresh <= received /\ fresh <= InputSize
           /\ taken \in Nat /\ Len(echo) \in Nat
           /\ Settled \in Nat /\ Settled + fresh = received
           /\ \A i \in DOMAIN m_queue :
                 m_queue[i].lo \in Nat \ {0} /\ m_queue[i].hi \in Nat
<1>1. written \in Nat /\ written <= MaxBytes
  BY MaxBytesAssumption DEF TypeOK
<1>2. received \in Nat /\ received <= written
  BY <1>1 DEF TypeOK
<1>3. fresh \in Nat /\ fresh <= received /\ fresh <= InputSize
  BY <1>2, InputSizeAssumption DEF TypeOK, Smaller
<1>4. taken \in Nat /\ Len(echo) \in Nat
  BY LenProperties DEF TypeOK
<1>5. \A i \in DOMAIN m_queue : m_queue[i] \in Block
  BY LenProperties DEF TypeOK
<1>7. Settled \in Nat /\ Settled + fresh = received
  BY <1>2, <1>3 DEF Settled
<1>6. \A i \in DOMAIN m_queue :
         m_queue[i].lo \in Nat \ {0} /\ m_queue[i].hi \in Nat
  BY <1>5, MaxBytesAssumption DEF Block, Bytes
<1> QED
  BY <1>1, <1>2, <1>3, <1>4, <1>6, <1>7

(* A send takes between nothing and all it is given, and never more than   *)
(* the connection has room for.                                            *)
LEMMA SentBound ==
    ASSUME TypeOK, NEW n \in Nat
    PROVE  /\ Sent(n) \in Nat /\ Sent(n) <= n
           /\ Minus(Len(echo) + Sent(n), taken) \in 0..SendSpace
           /\ peer = "gone" => Sent(n) = 0
<1>1. Len(echo) \in Nat /\ taken \in Nat /\ Len(echo) - taken \in 0..SendSpace
  BY LenProperties DEF TypeOK, InFlight
<1>2. SendSpace \in Nat
  BY SendSpaceAssumption
<1> QED
  BY <1>1, <1>2 DEF Sent, Smaller, InFlight, Minus

(* Nothing is queued in an empty queue.                                    *)
LEMMA QueuedEmpty == Queued(<<>>) = {}
BY DEF Queued

(* A queue of one block holds its bytes.                                   *)
LEMMA QueuedSingle ==
    ASSUME NEW b PROVE Queued(<<b>>) = BytesIn(b)
BY DEF Queued

(* A queue with one block is empty without it.                             *)
LEMMA SingleTail ==
    ASSUME NEW q \in Seq(Block), Len(q) = 1
    PROVE  Tail(q) = <<>> /\ q # <<>>
<1>1. q # <<>>
  BY EmptySeq
<1>2. Tail(q) \in Seq(Block) /\ Len(Tail(q)) = 0
  BY <1>1, HeadTailProperties
<1> QED
  BY <1>1, <1>2, EmptySeq

(* The backlog is older than what handle_input has in hand, hence          *)
(* received.                                                               *)
LEMMA BacklogReceived ==
    ASSUME IInv
    PROVE  \A i \in DOMAIN m_queue : m_queue[i].hi <= received
<1>1. \A i \in DOMAIN m_queue :
         m_queue[i].hi \in Nat /\ m_queue[i].hi <= Settled
  BY Numbers DEF IInv, BacklogInOrder
<1>2. Settled \in Nat /\ received \in Nat /\ Settled <= received
  BY Numbers DEF IInv
<1> QED
  BY <1>1, <1>2

LEMMA InitIInv == Init => IInv
<1> SUFFICES ASSUME Init
             PROVE  IInv
  OBVIOUS
<1> USE DEF Init
<1>1. TypeOK
  BY InputSizeAssumption, SendSpaceAssumption, MaxBytesAssumption
     DEF TypeOK, Smaller, InFlight
<1>2. WriteArmedIffBacklog /\ RegisteredWhileOpen
  BY DEF WriteArmedIffBacklog, RegisteredWhileOpen
<1>3. BacklogInOrder
  BY DEF BacklogInOrder, Ordered
<1>4. EveryByteAccounted
  BY QueuedEmpty DEF EveryByteAccounted, Pending, Fresh, Settled, Range,
                     IsInjective
<1> QED
  BY <1>1, <1>2, <1>3, <1>4 DEF IInv

-----------------------------------------------------------------------------
(* Each action preserves the inductive invariant. *)

(* A close that follows a callback: the backlog and the bytes in hand      *)
(* become dropped ones.                                                    *)
LEMMA EndOfInputStep == IInv /\ EndOfInput => IInv'
<1> SUFFICES ASSUME IInv, EndOfInput
             PROVE  IInv'
  OBVIOUS
<1>1. /\ life = "open" /\ fresh = 0 /\ pc = "reactor"
  BY DEF IInv, RegisteredWhileOpen, EndOfInput
<1>2. /\ mask' = {} /\ m_queue' = <<>> /\ life' = "deleted"
      /\ dropped' = dropped \cup Queued(m_queue)
      /\ UNCHANGED <<clientVars, echo, received, fresh, pc, leaked>>
  BY DEF EndOfInput, handle_close
<1>3. dropped' \subseteq 1..received
  BY <1>2 DEF IInv, TypeOK, EveryByteAccounted, Pending
<1>4. TypeOK'
  BY <1>2, <1>3, EmptySeq DEF IInv, TypeOK, InFlight, clientVars
<1>5. WriteArmedIffBacklog' /\ RegisteredWhileOpen'
  BY <1>1, <1>2 DEF WriteArmedIffBacklog, RegisteredWhileOpen
<1>6. BacklogInOrder'
  BY <1>2 DEF BacklogInOrder, Ordered
<1>7. EveryByteAccounted'
  BY <1>2, QueuedEmpty
     DEF IInv, EveryByteAccounted, Pending, Fresh, Settled
<1> QED
  BY <1>4, <1>5, <1>6, <1>7 DEF IInv

LEMMA OpenStep == IInv /\ open => IInv'
<1> SUFFICES ASSUME IInv, open
             PROVE  IInv'
  OBVIOUS
<1>1. /\ mask = {} /\ m_queue = <<>> /\ fresh = 0 /\ pc = "reactor"
  BY DEF IInv, RegisteredWhileOpen, WriteArmedIffBacklog, open
<1>2. /\ UNCHANGED <<clientVars, echo, received, fresh, pc, leaked>>
      /\ m_queue' = <<>> /\ dropped' = dropped
      /\ \/ life' = "open" /\ mask' = {"READ"}
         \/ life' = "deleted" /\ mask' = {}
  BY <1>1, QueuedEmpty DEF open, handle_close
<1>3. TypeOK'
  BY <1>2 DEF IInv, TypeOK, InFlight, clientVars
<1>4. WriteArmedIffBacklog' /\ RegisteredWhileOpen'
  BY <1>1, <1>2 DEF WriteArmedIffBacklog, RegisteredWhileOpen
<1>5. BacklogInOrder'
  BY <1>2 DEF BacklogInOrder, Ordered
<1>6. EveryByteAccounted'
  BY <1>1, <1>2 DEF IInv, EveryByteAccounted, Pending, Fresh, Settled
<1> QED
  BY <1>3, <1>4, <1>5, <1>6 DEF IInv

LEMMA ReceiveStep == IInv /\ Receive => IInv'
<1> SUFFICES ASSUME IInv, Receive
             PROVE  IInv'
  OBVIOUS
<1>1. /\ life = "open" /\ fresh = 0
  BY DEF IInv, RegisteredWhileOpen, Receive
<1>2. PICK n : n = Smaller(InputSize, written - received)
  OBVIOUS
<1>3. n \in Nat /\ 1 <= n /\ n <= InputSize /\ received + n <= written
  <2>1. /\ written \in Nat /\ received \in Nat /\ received < written
        /\ InputSize \in Nat \ {0}
    BY InputSizeAssumption, Numbers DEF IInv, Receive
  <2> QED
    BY <1>2, <2>1 DEF Smaller
<1>4. /\ fresh' = n /\ received' = received + n /\ pc' = "input"
      /\ UNCHANGED <<clientVars, echo, life, mask, m_queue, dropped, leaked>>
  BY <1>2 DEF Receive
<1>5. received \in Nat /\ 1..received \subseteq 1 .. received + n
  <2>1. received \in Nat
    BY Numbers DEF IInv
  <2> QED
    BY <1>3, <2>1
<1>6. TypeOK'
  <2>1. echo' \in Seq(1..received')
    BY <1>4, <1>5, SeqMonotonic DEF IInv, TypeOK
  <2>2. n \in 0..Smaller(InputSize, received + n)
    BY <1>3, <1>5, InputSizeAssumption DEF Smaller
  <2>3. received + n \in 0..written
    BY <1>3, <1>5
  <2>4. dropped' \subseteq 1..received' /\ leaked' \subseteq 1..received'
    BY <1>4, <1>5 DEF IInv, TypeOK
  <2>5. /\ fresh' \in 0..Smaller(InputSize, received')
        /\ received' \in 0..written'
        /\ written' \in 0..MaxBytes /\ taken' \in Nat
        /\ InFlight' \in 0..SendSpace
    BY <1>4, <2>2, <2>3 DEF IInv, TypeOK, InFlight, clientVars
  <2> QED
    BY <1>4, <2>1, <2>4, <2>5 DEF IInv, TypeOK, clientVars
<1>7. WriteArmedIffBacklog' /\ RegisteredWhileOpen'
  BY <1>1, <1>4 DEF IInv, WriteArmedIffBacklog, RegisteredWhileOpen
<1>8. BacklogInOrder'
  <2>1. Minus(received + n, n) = Minus(received, 0)
    BY <1>3, <1>5 DEF Minus
  <2>2. Settled' = Settled
    BY <1>1, <1>4, <2>1, Derived
  <2> QED
    BY <1>4, <2>2 DEF IInv, BacklogInOrder
<1>9. EveryByteAccounted'
  <2>1. /\ Minus(received + n, n) = received /\ Minus(received, 0) = received
        /\ Above(received, received) = {}
    BY <1>3, <1>5 DEF Minus, Above
  <2>2. Fresh = {} /\ Fresh' = Above(received, received + n)
    BY <1>1, <1>4, <2>1, Derived
  <2>3. /\ 1 .. received + n = 1..received \cup Fresh'
        /\ 1..received \cap Fresh' = {}
    BY <1>3, <1>5, <2>2 DEF Above
  <2>4. /\ Queued(m_queue)' = Queued(m_queue) /\ Range(echo)' = Range(echo)
        /\ IsInjective(echo)' = IsInjective(echo)
    BY <1>4
  <2> QED
    BY <1>4, <2>2, <2>3, <2>4 DEF IInv, EveryByteAccounted, Pending
<1> QED
  BY <1>6, <1>7, <1>8, <1>9 DEF IInv

\* What handle_input sends, and what send leaves of it.
SentPart == Settled + 1 .. Settled + Sent(fresh)
RestPart == Settled + 1 + Sent(fresh) .. received

(* What every end of handle_input has in common: the bytes in the buffer   *)
(* are the youngest received, and the first of them are sent.              *)
LEMMA ReplyEffect ==
    ASSUME IInv, pc = "input", Reply(Sent(fresh))
    PROVE  /\ life = "open" /\ "READ" \in mask
           /\ Sent(fresh) \in Nat /\ Sent(fresh) <= fresh
           /\ echo' \in Seq(1..received)
           /\ InFlight' \in 0..SendSpace
           /\ IsInjective(echo') /\ Len(echo') = Len(echo) + Sent(fresh)
           /\ Range(echo') = Range(echo) \cup SentPart
           /\ Fresh = SentPart \cup RestPart /\ SentPart \cap RestPart = {}
           /\ Settled \in Nat /\ Settled + fresh = received
           /\ Settled' = received
           /\ Fresh' = {} /\ fresh' = 0 /\ pc' = "reactor"
           /\ UNCHANGED <<clientVars, received, leaked>>
<1>1. life = "open" /\ "READ" \in mask
  BY DEF IInv, RegisteredWhileOpen
<1>2. received \in Nat /\ fresh \in Nat /\ fresh <= received
  BY Numbers DEF IInv
<1>3. PICK n : n = Sent(fresh)
  OBVIOUS
<1>4. n \in Nat /\ n <= fresh /\ Minus(Len(echo) + n, taken) \in 0..SendSpace
  BY <1>2, <1>3, SentBound DEF IInv
<1>5. PICK lo : lo = Settled + 1
  OBVIOUS
<1>6. /\ lo \in Nat \ {0} /\ lo + n - 1 <= received
      /\ SentPart = lo .. lo + n - 1 /\ RestPart = lo + n .. received
      /\ Fresh = lo .. received
  BY <1>2, <1>3, <1>4, <1>5 DEF SentPart, RestPart, Fresh, Settled
<1>7. Fresh = SentPart \cup RestPart /\ SentPart \cap RestPart = {}
  BY <1>2, <1>4, <1>6
<1>8. /\ Range(echo) \cap SentPart = {} /\ IsInjective(echo)
      /\ echo \in Seq(1..received)
  BY <1>7 DEF IInv, EveryByteAccounted, Pending, TypeOK
<1>9. /\ echo \o Run(lo, n) \in Seq(1..received)
      /\ Len(echo \o Run(lo, n)) = Len(echo) + n
      /\ Range(echo \o Run(lo, n)) = Range(echo) \cup (lo .. lo + n - 1)
      /\ IsInjective(echo \o Run(lo, n))
  BY <1>2, <1>4, <1>6, <1>8, EchoGrows
<1>10. /\ echo' = echo \o Run(lo, n) /\ fresh' = 0 /\ pc' = "reactor"
       /\ UNCHANGED <<clientVars, received, leaked>>
  BY <1>3, <1>5 DEF Reply
<1>11. Minus(received, 0) = received /\ Above(received, received) = {}
  BY <1>2 DEF Minus, Above
<1>12. Settled' = received /\ Fresh' = {}
  BY <1>10, <1>11, Derived
<1>13. InFlight' \in 0..SendSpace
  BY <1>4, <1>9, <1>10, Derived DEF clientVars
<1>14. Settled \in Nat /\ Settled + fresh = received
  BY Numbers DEF IInv
<1> QED
  BY <1>1, <1>3, <1>4, <1>6, <1>7, <1>9, <1>10, <1>12, <1>13, <1>14

LEMMA ReplyAtOnceStep == IInv /\ ReplyAtOnce => IInv'
<1> SUFFICES ASSUME IInv, ReplyAtOnce
             PROVE  IInv'
  OBVIOUS
<1>1. /\ life = "open" /\ "READ" \in mask
      /\ Sent(fresh) \in Nat /\ Sent(fresh) <= fresh
      /\ echo' \in Seq(1..received) /\ InFlight' \in 0..SendSpace
      /\ IsInjective(echo') /\ Range(echo') = Range(echo) \cup SentPart
      /\ Fresh = SentPart \cup RestPart /\ SentPart \cap RestPart = {}
      /\ Settled \in Nat /\ Settled + fresh = received /\ Settled' = received
      /\ Fresh' = {} /\ fresh' = 0 /\ pc' = "reactor"
      /\ UNCHANGED <<clientVars, received, leaked>>
  BY ReplyEffect DEF ReplyAtOnce
<1>2. UNCHANGED <<life, mask, m_queue>> /\ pc = "input"
  BY DEF ReplyAtOnce
<1>3. \/ RestPart = {} /\ dropped' = dropped
      \/ SentPart = {} /\ dropped' = dropped \cup Fresh
  <2>1. received \in Nat /\ fresh \in Nat /\ fresh <= received
    BY Numbers DEF IInv
  <2>2. CASE Sent(fresh) = fresh /\ dropped' = dropped
    BY <2>1, <2>2, Numbers DEF IInv, RestPart
  <2>3. CASE peer = "gone" /\ dropped' = dropped \cup Fresh
    BY <2>1, <2>3, SentBound, Numbers DEF IInv, SentPart
  <2> QED
    BY <2>2, <2>3, Zenon DEF ReplyAtOnce
<1>4. Fresh \subseteq 1..received
  BY DEF IInv, EveryByteAccounted, Pending
<1>5. TypeOK'
  <2>1. dropped' \subseteq 1..received
    BY <1>3, <1>4 DEF IInv, TypeOK
  <2>2. 0 \in 0..Smaller(InputSize, received)
    BY Numbers, InputSizeAssumption DEF IInv, Smaller
  <2> QED
    BY <1>1, <1>2, <2>1, <2>2 DEF IInv, TypeOK, clientVars
<1>6. WriteArmedIffBacklog' /\ RegisteredWhileOpen'
  BY <1>1, <1>2 DEF IInv, WriteArmedIffBacklog, RegisteredWhileOpen
<1>7. BacklogInOrder'
  BY <1>1, <1>2, BacklogReceived DEF IInv, BacklogInOrder
<1>8. EveryByteAccounted'
  <2>1. Queued(m_queue)' = Queued(m_queue) /\ Range(echo)' = Range(echo')
    BY <1>2
  <2> QED
    BY <1>1, <1>3, <2>1 DEF IInv, EveryByteAccounted, Pending
<1> QED
  BY <1>5, <1>6, <1>7, <1>8 DEF IInv

(* What handle_input queues is a block of the bytes send did not take.     *)
LEMMA RemainderFits ==
    ASSUME IInv, ReplyLater
    PROVE  /\ Remainder \in Block /\ BytesIn(Remainder) = RestPart
           /\ Settled < Remainder.lo /\ Remainder.lo <= Remainder.hi
           /\ Remainder.hi = received
<1>1. PICK n : n = Sent(fresh)
  OBVIOUS
<1>2. /\ n \in Nat /\ n < fresh /\ fresh \in Nat /\ fresh <= InputSize
      /\ received \in Nat /\ received <= MaxBytes
      /\ Settled \in Nat /\ Settled + fresh = received
  <2>1. Sent(fresh) < fresh /\ pc = "input" /\ Reply(Sent(fresh))
    BY DEF ReplyLater
  <2>2. Sent(fresh) \in Nat
    BY <2>1, ReplyEffect
  <2> QED
    BY <1>1, <2>1, <2>2, Numbers, MaxBytesAssumption DEF IInv
<1>3. /\ Remainder = [lo |-> Settled + 1 + n, hi |-> received, size |-> fresh - n]
      /\ RestPart = Settled + 1 + n .. received
  BY <1>1 DEF Remainder, RestPart
<1>4. /\ Settled + 1 + n \in Bytes /\ received \in Bytes
      /\ Settled < Settled + 1 + n /\ Settled + 1 + n <= received
  BY <1>2, MaxBytesAssumption DEF Bytes
<1>5. fresh - n \in 1..InputSize
  BY <1>2, InputSizeAssumption
<1> QED
  BY <1>3, <1>4, <1>5 DEF Block, BytesIn

(* The four ways handle_input deals with what send did not take.           *)
LEMMA ReplyLaterStep == IInv /\ ReplyLater => IInv'
<1> SUFFICES ASSUME IInv, ReplyLater
             PROVE  IInv'
  OBVIOUS
<1>1. /\ life = "open" /\ "READ" \in mask
      /\ Sent(fresh) \in Nat /\ Sent(fresh) <= fresh
      /\ echo' \in Seq(1..received) /\ InFlight' \in 0..SendSpace
      /\ IsInjective(echo') /\ Range(echo') = Range(echo) \cup SentPart
      /\ Fresh = SentPart \cup RestPart /\ SentPart \cap RestPart = {}
      /\ Settled \in Nat /\ Settled + fresh = received /\ Settled' = received
      /\ Fresh' = {} /\ fresh' = 0 /\ pc' = "reactor"
      /\ UNCHANGED <<clientVars, received, leaked>>
  BY ReplyEffect DEF ReplyLater
<1>2. PICK r : r = Remainder
  OBVIOUS
<1>3. /\ r \in Block /\ BytesIn(r) = RestPart
      /\ Settled < r.lo /\ r.lo <= r.hi /\ r.hi = received
  BY <1>2, RemainderFits
<1>4. /\ mask \in SUBSET {"READ", "WRITE"} /\ m_queue \in Seq(Block)
      /\ dropped \subseteq 1..received /\ Fresh \subseteq 1..received
      /\ Queued(m_queue) \subseteq 1..received
  BY DEF IInv, TypeOK, EveryByteAccounted, Pending
<1>5. \/ /\ dropped' = dropped \cup RestPart
         /\ UNCHANGED <<life, mask, m_queue>>
      \/ /\ m_queue' = Append(m_queue, r)
         /\ mask' = IF m_queue = <<>> THEN mask \cup {"WRITE"} ELSE mask
         /\ UNCHANGED <<life, dropped>>
      \/ /\ mask' = {} /\ m_queue' = <<>> /\ life' = "deleted"
         /\ dropped' = dropped \cup RestPart \cup Queued(m_queue)
  <2>1. \/ /\ dropped' = dropped \cup BytesIn(r)
           /\ UNCHANGED <<life, mask, m_queue>>
        \/ /\ m_queue' = Append(m_queue, r)
           /\ mask' = WatchFor(m_queue)
           /\ UNCHANGED <<life, dropped>>
        \/ handle_close({"READ"}, mask \ {"READ"}, m_queue, BytesIn(r))
        \/ /\ m_queue = <<>>
           /\ handle_close({"READ"}, mask \ {"READ"}, <<r>>, {})
    BY <1>2 DEF ReplyLater
  <2>2. {"READ"} # {"WRITE"}
    OBVIOUS
  <2>3. ASSUME handle_close({"READ"}, mask \ {"READ"}, m_queue, BytesIn(r))
        PROVE  /\ mask' = {} /\ m_queue' = <<>> /\ life' = "deleted"
               /\ dropped' = dropped \cup RestPart \cup Queued(m_queue)
    BY <1>3, <2>2, <2>3 DEF handle_close
  <2>4. ASSUME m_queue = <<>>,
               handle_close({"READ"}, mask \ {"READ"}, <<r>>, {})
        PROVE  /\ mask' = {} /\ m_queue' = <<>> /\ life' = "deleted"
               /\ dropped' = dropped \cup RestPart \cup Queued(m_queue)
    BY <1>3, <2>2, <2>4, QueuedSingle, QueuedEmpty DEF handle_close
  <2> QED
    BY <1>3, <2>1, <2>3, <2>4 DEF WatchFor
<1>6. TypeOK'
  <2>1. dropped' \subseteq 1..received
    BY <1>1, <1>4, <1>5
  <2>2. 0 \in 0..Smaller(InputSize, received)
    BY Numbers, InputSizeAssumption DEF IInv, Smaller
  <2>3. m_queue' \in Seq(Block)
    <3>1. Append(m_queue, r) \in Seq(Block) /\ <<>> \in Seq(Block)
      BY <1>3, <1>4, AppendProperties
    <3> QED
      BY <1>4, <1>5, <3>1
  <2>4. mask' \subseteq {"READ", "WRITE"} /\ life' \in {"open", "deleted"}
    BY <1>1, <1>4, <1>5
  <2> QED
    BY <1>1, <2>1, <2>2, <2>3, <2>4 DEF IInv, TypeOK, clientVars
<1>7. WriteArmedIffBacklog'
  <2>1. Append(m_queue, r) # <<>>
    BY <1>3, <1>4, AppendProperties
  <2> QED
    BY <1>1, <1>5, <2>1 DEF IInv, WriteArmedIffBacklog
<1>8. RegisteredWhileOpen'
  BY <1>1, <1>5 DEF IInv, RegisteredWhileOpen
<1>9. BacklogInOrder'
  <2>1. CASE UNCHANGED m_queue
    BY <1>1, <2>1, BacklogReceived DEF IInv, BacklogInOrder
  <2>2. CASE m_queue' = <<>>
    BY <2>2 DEF BacklogInOrder, Ordered
  <2>3. CASE m_queue' = Append(m_queue, r)
    <3>1. \A i \in DOMAIN m_queue :
             m_queue[i].hi \in Nat /\ m_queue[i].hi <= Settled
      BY Numbers DEF IInv, BacklogInOrder
    <3>2. \A i \in DOMAIN m_queue : m_queue[i].hi < r.lo
      <4>1. r.lo \in Nat
        BY <1>3, MaxBytesAssumption DEF Block, Bytes
      <4> QED
        BY <1>1, <1>3, <3>1, <4>1
    <3>3. Ordered(Append(m_queue, r))
      BY <1>3, <1>4, <3>2, OrderedAppend DEF IInv, BacklogInOrder
    <3>4. \A i \in DOMAIN Append(m_queue, r) :
             Append(m_queue, r)[i] = r
             \/ (i \in DOMAIN m_queue /\ Append(m_queue, r)[i] = m_queue[i])
      <4>1. DOMAIN Append(m_queue, r) = 1 .. Len(m_queue) + 1
            /\ DOMAIN m_queue = 1 .. Len(m_queue) /\ Len(m_queue) \in Nat
        BY <1>3, <1>4, AppendProperties, LenProperties
      <4> QED
        BY <1>3, <1>4, <4>1, AppendProperties
    <3>5. \A i \in DOMAIN Append(m_queue, r) :
             Append(m_queue, r)[i].hi <= received
      <4>1. received <= received
        BY Numbers DEF IInv
      <4> QED
        BY <1>3, <3>4, <4>1, BacklogReceived
    <3> QED
      BY <1>1, <2>3, <3>3, <3>5 DEF BacklogInOrder
  <2> QED
    BY <1>5, <2>1, <2>2, <2>3
<1>10. EveryByteAccounted'
  <2>1. Queued(m_queue)' = Queued(m_queue') /\ Range(echo)' = Range(echo')
    OBVIOUS
  <2>2. Queued(Append(m_queue, r)) = Queued(m_queue) \cup RestPart
    BY <1>3, <1>4, QueuedAppend
  <2>3. \/ Queued(m_queue') = Queued(m_queue) /\ dropped' = dropped \cup RestPart
        \/ Queued(m_queue') = Queued(m_queue) \cup RestPart /\ dropped' = dropped
        \/ Queued(m_queue') = {}
           /\ dropped' = dropped \cup RestPart \cup Queued(m_queue)
    BY <1>5, <2>2, QueuedEmpty
  <2> QED
    BY <1>1, <2>3 DEF IInv, EveryByteAccounted, Pending
<1> QED
  BY <1>6, <1>7, <1>8, <1>9, <1>10 DEF IInv

LEMMA StartOutputStep == IInv /\ StartOutput => IInv'
<1> SUFFICES ASSUME IInv, StartOutput
             PROVE  IInv'
  OBVIOUS
<1>1. /\ "WRITE" \in mask /\ pc = "reactor" /\ pc' = "output"
      /\ UNCHANGED <<clientVars, echo, life, mask, received, fresh, m_queue,
                     dropped, leaked>>
  BY DEF StartOutput
<1>2. life = "open" /\ m_queue # <<>> /\ fresh = 0
  BY <1>1 DEF IInv, RegisteredWhileOpen, WriteArmedIffBacklog
<1>3. Settled' = Settled /\ Fresh' = Fresh /\ InFlight' = InFlight
  BY <1>1, Derived DEF clientVars
<1>4. TypeOK'
  BY <1>1, <1>3 DEF IInv, TypeOK, clientVars
<1>5. WriteArmedIffBacklog' /\ RegisteredWhileOpen'
  BY <1>1, <1>2 DEF IInv, WriteArmedIffBacklog, RegisteredWhileOpen
<1>6. BacklogInOrder'
  BY <1>1, <1>3 DEF IInv, BacklogInOrder
<1>7. EveryByteAccounted'
  BY <1>1, <1>3 DEF IInv, EveryByteAccounted, Pending
<1> QED
  BY <1>4, <1>5, <1>6, <1>7 DEF IInv

LEMMA OutputLastStep == IInv /\ OutputLast => IInv'
<1> SUFFICES ASSUME IInv, OutputLast
             PROVE  IInv'
  OBVIOUS
<1>1. /\ m_queue \in Seq(Block) /\ Len(m_queue) = 1
      /\ life = "open" /\ fresh = 0 /\ "READ" \in mask
      /\ mask \subseteq {"READ", "WRITE"}
  BY DEF IInv, TypeOK, RegisteredWhileOpen, OutputLast
<1>2. /\ m_queue' = <<>> /\ mask' = mask \ {"WRITE"} /\ pc' = "reactor"
      /\ leaked' = leaked \cup BytesIn(Head(m_queue))
      /\ UNCHANGED <<clientVars, echo, received, fresh, life, dropped>>
  BY DEF OutputLast, handle_close
<1>3. BytesIn(Head(m_queue)) = Queued(m_queue)
  BY <1>1, SingleTail, QueuedHeadTail, QueuedEmpty
<1>4. Settled' = Settled /\ Fresh' = Fresh /\ InFlight' = InFlight
  BY <1>2, Derived DEF clientVars
<1>5. TypeOK'
  <2>1. leaked' \subseteq 1..received
    BY <1>2, <1>3 DEF IInv, TypeOK, EveryByteAccounted, Pending
  <2> QED
    BY <1>2, <1>4, <2>1, EmptySeq DEF IInv, TypeOK, clientVars
<1>6. WriteArmedIffBacklog' /\ RegisteredWhileOpen'
  BY <1>1, <1>2 DEF WriteArmedIffBacklog, RegisteredWhileOpen
<1>7. BacklogInOrder'
  BY <1>2 DEF BacklogInOrder, Ordered
<1>8. EveryByteAccounted'
  BY <1>2, <1>3, <1>4, QueuedEmpty DEF IInv, EveryByteAccounted, Pending
<1> QED
  BY <1>5, <1>6, <1>7, <1>8 DEF IInv

(* What both turns of the loop that send have in common: the head of the   *)
(* backlog is its oldest block, and its first bytes are sent.              *)
LEMMA OutputEffect ==
    ASSUME IInv, pc = "output", Len(m_queue) > 1, NEW n \in Nat,
           n = Sent(Length(Head(m_queue))),
           echo' = echo \o Run(Head(m_queue).lo, n),
           UNCHANGED <<clientVars, received>>
    PROVE  LET b == Head(m_queue) IN
           /\ b \in Block /\ b.lo <= b.hi /\ b.hi <= Settled
           /\ n <= b.hi - b.lo + 1
           /\ Tail(m_queue) \in Seq(Block) /\ Tail(m_queue) # <<>>
           /\ Ordered(Tail(m_queue))
           /\ \A i \in DOMAIN Tail(m_queue) :
                 /\ b.hi < Tail(m_queue)[i].lo
                 /\ Tail(m_queue)[i].hi <= Settled
           /\ Queued(m_queue) = BytesIn(b) \cup Queued(Tail(m_queue))
           /\ BytesIn(b) \cap Queued(Tail(m_queue)) = {}
           /\ echo' \in Seq(1..received) /\ InFlight' \in 0..SendSpace
           /\ IsInjective(echo') /\ Len(echo') = Len(echo) + n
           /\ Range(echo') = Range(echo) \cup (b.lo .. b.lo + n - 1)
<1>1. /\ m_queue \in Seq(Block) /\ m_queue # <<>> /\ Ordered(m_queue)
      /\ echo \in Seq(1..received) /\ IsInjective(echo)
  BY DEF IInv, TypeOK, BacklogInOrder, EveryByteAccounted
<1>2. PICK b : b = Head(m_queue)
  OBVIOUS
<1>3. PICK t : t = Tail(m_queue)
  OBVIOUS
<1>4. /\ b \in Block /\ t \in Seq(Block)
      /\ Queued(m_queue) = BytesIn(b) \cup Queued(t)
  BY <1>1, <1>2, <1>3, QueuedHeadTail
<1>5. t # <<>>
  <2>1. Len(t) = Len(m_queue) - 1 /\ Len(m_queue) \in Nat
    BY <1>1, <1>3, HeadTailProperties, LenProperties
  <2>2. Len(t) # 0
    BY <2>1
  <2> QED
    BY <2>2
<1>6. /\ Ordered(t) /\ b.lo <= b.hi
      /\ \A i \in DOMAIN t : b.hi < t[i].lo
      /\ \A i \in DOMAIN t : i + 1 \in DOMAIN m_queue /\ t[i] = m_queue[i + 1]
      /\ 1 \in DOMAIN m_queue /\ b = m_queue[1]
  BY <1>1, <1>2, <1>3, OrderedTail
<1>7. b.hi <= Settled /\ \A i \in DOMAIN t : t[i].hi <= Settled
  BY <1>6 DEF IInv, BacklogInOrder
<1>8. /\ b.lo \in Nat \ {0} /\ b.hi \in Nat /\ b.lo <= b.hi
      /\ received \in Nat /\ Settled \in Nat /\ Settled <= received
      /\ b.hi <= received
  BY <1>6, <1>7, Numbers DEF IInv
<1>9. BytesIn(b) \cap Queued(t) = {}
  <2>1. \A x \in Queued(t) : b.hi < x
    <3>1. PICK h \in Int : h = b.hi
      BY <1>8
    <3>2. \A i \in DOMAIN t : h < t[i].lo
      BY <1>6, <3>1
    <3> QED
      BY <1>4, <3>1, <3>2, QueuedBounds
  <2>2. Queued(t) \subseteq Nat
    BY <1>4, <1>8, QueuedBounds
  <2> QED
    BY <1>8, <2>1, <2>2 DEF BytesIn
<1>10. /\ n <= b.hi - b.lo + 1
       /\ Minus(Len(echo) + n, taken) \in 0..SendSpace
  <2>1. Length(b) = b.hi - b.lo + 1 /\ Length(b) \in Nat
    BY <1>8 DEF Length
  <2>2. n <= Length(b) /\ Minus(Len(echo) + n, taken) \in 0..SendSpace
    BY <1>2, <2>1, SentBound DEF IInv
  <2> QED
    BY <2>1, <2>2
<1>11. b.lo + n - 1 <= received /\ b.lo .. b.lo + n - 1 \subseteq BytesIn(b)
  <2>1. PICK lo \in Nat, hi \in Nat : lo = b.lo /\ hi = b.hi
    BY <1>8
  <2>2. n <= hi - lo + 1 /\ hi <= received
    BY <1>8, <1>10, <2>1
  <2>3. lo + n - 1 <= received /\ lo .. lo + n - 1 \subseteq lo .. hi
    BY <1>8, <2>2
  <2> QED
    BY <2>1, <2>3 DEF BytesIn
<1>12. Range(echo) \cap (b.lo .. b.lo + n - 1) = {}
  BY <1>4, <1>11 DEF IInv, EveryByteAccounted, Pending
<1>13. /\ echo' \in Seq(1..received) /\ IsInjective(echo')
       /\ Len(echo') = Len(echo) + n
       /\ Range(echo') = Range(echo) \cup (b.lo .. b.lo + n - 1)
  <2>1. PICK lo : lo = b.lo
    OBVIOUS
  <2>2. lo \in Nat \ {0} /\ lo + n - 1 <= received
        /\ Range(echo) \cap (lo .. lo + n - 1) = {}
    BY <1>8, <1>11, <1>12, <2>1
  <2>3. /\ echo \o Run(lo, n) \in Seq(1..received)
        /\ Len(echo \o Run(lo, n)) = Len(echo) + n
        /\ Range(echo \o Run(lo, n)) = Range(echo) \cup (lo .. lo + n - 1)
        /\ IsInjective(echo \o Run(lo, n))
    <3>1. lo \in Nat \ {0} /\ received \in Nat
      BY <1>8, <2>2
    <3> QED
      BY <1>1, <2>2, <3>1, EchoGrows
  <2>4. echo' = echo \o Run(lo, n)
    BY <1>2, <2>1
  <2> QED
    BY <2>1, <2>3, <2>4
<1>14. InFlight' \in 0..SendSpace
  BY <1>10, <1>13, Derived DEF clientVars
<1> QED
  BY <1>2, <1>3, <1>4, <1>5, <1>6, <1>7, <1>9, <1>10, <1>13, <1>14

LEMMA OutputWholeStep == IInv /\ OutputWhole => IInv'
<1> SUFFICES ASSUME IInv, OutputWhole
             PROVE  IInv'
  OBVIOUS
<1>1. PICK b : b = Head(m_queue)
  OBVIOUS
<1>2. PICK t : t = Tail(m_queue)
  OBVIOUS
<1>3. PICK n : n = Length(b)
  OBVIOUS
<1>4. /\ pc = "output" /\ Len(m_queue) > 1
      /\ n = Sent(Length(Head(m_queue)))
      /\ echo' = echo \o Run(Head(m_queue).lo, n)
      /\ m_queue' = t
      /\ UNCHANGED <<clientVars, life, mask, received, fresh, pc, dropped, leaked>>
  BY <1>1, <1>2, <1>3 DEF OutputWhole
<1>5. b \in Block /\ b.lo <= b.hi
  <2>1. m_queue # <<>> /\ m_queue \in Seq(Block) /\ Ordered(m_queue)
    BY <1>4 DEF IInv, TypeOK, BacklogInOrder
  <2> QED
    BY <1>1, <2>1, QueuedHeadTail, OrderedTail
<1>6. b.lo \in Nat \ {0} /\ b.hi \in Nat /\ n = b.hi - b.lo + 1
  BY <1>3, <1>5, MaxBytesAssumption DEF Block, Bytes, Length
<1>7. n \in Nat
  BY <1>5, <1>6
<1>8. /\ t \in Seq(Block) /\ t # <<>> /\ Ordered(t)
      /\ \A i \in DOMAIN t : t[i].hi <= Settled
      /\ Queued(m_queue) = BytesIn(b) \cup Queued(t)
      /\ BytesIn(b) \cap Queued(t) = {}
      /\ echo' \in Seq(1..received) /\ InFlight' \in 0..SendSpace
      /\ IsInjective(echo') /\ Range(echo') = Range(echo) \cup (b.lo .. b.lo + n - 1)
  BY <1>1, <1>2, <1>4, <1>7, OutputEffect
<1>9. b.lo .. b.lo + n - 1 = BytesIn(b)
  BY <1>5, <1>6 DEF BytesIn
<1>10. Settled' = Settled /\ Fresh' = Fresh
  BY <1>4, Derived DEF clientVars
<1>11. TypeOK'
  BY <1>4, <1>8 DEF IInv, TypeOK, clientVars
<1>12. WriteArmedIffBacklog' /\ RegisteredWhileOpen'
  BY <1>4, <1>8 DEF IInv, WriteArmedIffBacklog, RegisteredWhileOpen
<1>13. BacklogInOrder'
  BY <1>4, <1>8, <1>10 DEF BacklogInOrder
<1>14. EveryByteAccounted'
  <2>1. Queued(m_queue)' = Queued(t) /\ Range(echo)' = Range(echo) \cup BytesIn(b)
    BY <1>4, <1>8, <1>9
  <2> QED
    BY <1>4, <1>8, <1>10, <2>1 DEF IInv, EveryByteAccounted, Pending
<1> QED
  BY <1>11, <1>12, <1>13, <1>14 DEF IInv

(* A block of which not all was sent still is one, of the same size.       *)
LEMMA AdvanceFits ==
    ASSUME NEW b \in Block, b.lo <= b.hi, NEW n \in Nat, n < Length(b)
    PROVE  /\ Advance(b, n) \in Block /\ Advance(b, n).size = b.size
           /\ Advance(b, n).lo = b.lo + n /\ Advance(b, n).hi = b.hi
           /\ Advance(b, n).lo <= Advance(b, n).hi
<1>1. b.lo \in Nat \ {0} /\ b.hi \in Nat /\ b.hi <= MaxBytes
      /\ n < b.hi - b.lo + 1
  BY MaxBytesAssumption DEF Block, Bytes, Length
<1>2. b.lo + n \in Bytes /\ b.lo + n <= b.hi
  BY <1>1, MaxBytesAssumption DEF Bytes
<1> QED
  BY <1>2 DEF Advance, Block

LEMMA OutputPartStep == IInv /\ OutputPart => IInv'
<1> SUFFICES ASSUME IInv, OutputPart
             PROVE  IInv'
  OBVIOUS
<1>1. PICK b : b = Head(m_queue)
  OBVIOUS
<1>2. PICK t : t = Tail(m_queue)
  OBVIOUS
<1>3. PICK n : n = Sent(Length(b))
  OBVIOUS
<1>4. PICK rest : rest = Advance(b, n)
  OBVIOUS
<1>5. /\ pc = "output" /\ Len(m_queue) > 1 /\ n < Length(b)
      /\ n = Sent(Length(Head(m_queue)))
      /\ echo' = echo \o Run(Head(m_queue).lo, n)
      /\ \/ m_queue' = t /\ leaked' = leaked \cup BytesIn(rest)
         \/ m_queue' = enqueue_head(rest, t) /\ leaked' = leaked
      /\ pc' = "reactor"
      /\ UNCHANGED <<clientVars, life, mask, received, fresh, dropped>>
  BY <1>1, <1>2, <1>3, <1>4 DEF OutputPart
<1>6. b \in Block /\ b.lo <= b.hi
  <2>1. m_queue # <<>> /\ m_queue \in Seq(Block) /\ Ordered(m_queue)
    BY <1>5 DEF IInv, TypeOK, BacklogInOrder
  <2> QED
    BY <1>1, <2>1, QueuedHeadTail, OrderedTail
<1>7. b.lo \in Nat \ {0} /\ b.hi \in Nat /\ b.hi <= MaxBytes
      /\ Length(b) = b.hi - b.lo + 1 /\ Length(b) \in Nat
  BY <1>6, MaxBytesAssumption DEF Block, Bytes, Length
<1>8. n \in Nat
  BY <1>3, <1>7, SentBound DEF IInv
<1>9. /\ t \in Seq(Block) /\ t # <<>> /\ Ordered(t)
      /\ b.hi <= Settled
      /\ \A i \in DOMAIN t : b.hi < t[i].lo
      /\ \A i \in DOMAIN t : t[i].hi <= Settled
      /\ Queued(m_queue) = BytesIn(b) \cup Queued(t)
      /\ BytesIn(b) \cap Queued(t) = {}
      /\ echo' \in Seq(1..received) /\ InFlight' \in 0..SendSpace
      /\ IsInjective(echo') /\ Range(echo') = Range(echo) \cup (b.lo .. b.lo + n - 1)
  BY <1>1, <1>2, <1>5, <1>8, OutputEffect
<1>10. /\ rest \in Block /\ rest.lo = b.lo + n /\ rest.hi = b.hi
       /\ rest.lo <= rest.hi
  BY <1>4, <1>5, <1>6, <1>8, AdvanceFits
<1>11. /\ BytesIn(b) = (b.lo .. b.lo + n - 1) \cup BytesIn(rest)
       /\ (b.lo .. b.lo + n - 1) \cap BytesIn(rest) = {}
  BY <1>5, <1>6, <1>7, <1>8, <1>10 DEF BytesIn
<1>12. Settled' = Settled /\ Fresh' = Fresh
  BY <1>5, Derived DEF clientVars
<1>13. /\ enqueue_head(rest, t) \in Seq(Block) /\ enqueue_head(rest, t) # <<>>
       /\ Queued(enqueue_head(rest, t)) = BytesIn(rest) \cup Queued(t)
       /\ enqueue_head(rest, t)[1] = rest
       /\ \A i \in 1 .. Len(t) : enqueue_head(rest, t)[i + 1] = t[i]
       /\ Len(enqueue_head(rest, t)) = Len(t) + 1
  BY <1>9, <1>10, QueuedCons
<1>14. m_queue' \in Seq(Block) /\ m_queue' # <<>>
  BY <1>5, <1>9, <1>13
<1>15. TypeOK'
  <2>1. Queued(m_queue) \subseteq 1..received /\ leaked \subseteq 1..received
    BY DEF IInv, EveryByteAccounted, Pending, TypeOK
  <2>2. leaked' \subseteq 1..received
    BY <1>5, <1>9, <1>11, <2>1
  <2> QED
    BY <1>5, <1>9, <1>14, <2>2, <1>12 DEF IInv, TypeOK, clientVars
<1>16. WriteArmedIffBacklog' /\ RegisteredWhileOpen'
  BY <1>5, <1>14 DEF IInv, WriteArmedIffBacklog, RegisteredWhileOpen
<1>17. BacklogInOrder'
  <2>1. CASE m_queue' = t
    BY <1>9, <1>12, <2>1 DEF BacklogInOrder
  <2>2. CASE m_queue' = enqueue_head(rest, t)
    <3>1. \A i \in DOMAIN t : rest.hi < t[i].lo
      BY <1>9, <1>10
    <3>2. Ordered(enqueue_head(rest, t))
      BY <1>9, <1>10, <3>1, OrderedCons
    <3>3. \A i \in DOMAIN enqueue_head(rest, t) :
             i = 1 \/ (i - 1 \in 1 .. Len(t) /\ i - 1 + 1 = i)
      <4>1. DOMAIN enqueue_head(rest, t) = 1 .. Len(t) + 1 /\ Len(t) \in Nat
        BY <1>9, <1>13, LenProperties
      <4> QED
        BY <4>1
    <3>4. \A i \in DOMAIN enqueue_head(rest, t) :
             enqueue_head(rest, t)[i].hi <= Settled
      <4>1. DOMAIN t = 1 .. Len(t)
        BY <1>9, LenProperties
      <4> QED
        BY <1>9, <1>10, <1>13, <3>3, <4>1
    <3> QED
      BY <1>12, <2>2, <3>2, <3>4 DEF BacklogInOrder
  <2> QED
    BY <1>5, <2>1, <2>2
<1>18. EveryByteAccounted'
  <2>1. \/ Queued(m_queue') = Queued(t) /\ leaked' = leaked \cup BytesIn(rest)
        \/ /\ Queued(m_queue') = BytesIn(rest) \cup Queued(t)
           /\ leaked' = leaked
    BY <1>5, <1>13
  <2>2. PICK sent : sent = b.lo .. b.lo + n - 1
    OBVIOUS
  <2>3. /\ Queued(m_queue) = sent \cup BytesIn(rest) \cup Queued(t)
        /\ sent \cap BytesIn(rest) = {} /\ sent \cap Queued(t) = {}
        /\ BytesIn(rest) \cap Queued(t) = {}
        /\ Range(echo') = Range(echo) \cup sent
    BY <1>9, <1>11, <2>2
  <2> QED
    BY <1>5, <1>9, <1>12, <2>1, <2>3 DEF IInv, EveryByteAccounted, Pending
<1> QED
  BY <1>15, <1>16, <1>17, <1>18 DEF IInv

(* The client and the network touch only their own counters.               *)
LEMMA ClientStep == IInv /\ Client => IInv'
<1> SUFFICES ASSUME IInv, Client
             PROVE  IInv'
  OBVIOUS
<1>1. UNCHANGED <<echo, life, mask, received, fresh, m_queue, pc, dropped, leaked>>
  BY DEF Client, ClientWrite, ClientRead, ClientHalfClose, ClientGone
<1>2. Settled' = Settled /\ Fresh' = Fresh
  BY <1>1, Derived
<1>3. TypeOK'
  <2>1. /\ written \in Nat /\ received \in 0..written /\ written \in 0..MaxBytes
        /\ taken \in Nat /\ Len(echo) \in Nat /\ InFlight \in 0..SendSpace
        /\ peer \in {"open", "half", "gone"}
    BY Numbers DEF IInv, TypeOK
  <2>2. CASE ClientWrite
    <3>1. PICK w \in written + 1 .. MaxBytes : written' = w
      BY <2>2 DEF ClientWrite
    <3>2. w \in 0..MaxBytes /\ received \in 0..w
      BY <2>1, MaxBytesAssumption
    <3>3. UNCHANGED <<taken, peer>> /\ InFlight' = InFlight
      BY <1>1, <2>2, Derived DEF ClientWrite
    <3> QED
      BY <1>1, <3>1, <3>2, <3>3 DEF IInv, TypeOK
  <2>3. CASE ClientRead
    <3>1. PICK t \in taken + 1 .. Len(echo) : taken' = t
      BY <2>3 DEF ClientRead
    <3>2. t \in Nat /\ Minus(Len(echo), t) \in 0..SendSpace
      BY <2>1, SendSpaceAssumption DEF InFlight, Minus
    <3>3. UNCHANGED <<written, peer>> /\ InFlight' = Minus(Len(echo), t)
      BY <1>1, <2>3, <3>1, Derived DEF ClientRead, InFlight, Minus
    <3> QED
      BY <1>1, <3>1, <3>2, <3>3 DEF IInv, TypeOK
  <2>4. CASE ClientHalfClose \/ ClientGone
    <3>1. /\ UNCHANGED <<written, taken>> /\ peer' \in {"half", "gone"}
          /\ InFlight' = InFlight
      BY <1>1, <2>4, Derived DEF ClientHalfClose, ClientGone
    <3> QED
      BY <1>1, <3>1 DEF IInv, TypeOK
  <2> QED
    BY <2>2, <2>3, <2>4 DEF Client
<1>4. WriteArmedIffBacklog' /\ RegisteredWhileOpen'
  BY <1>1 DEF IInv, WriteArmedIffBacklog, RegisteredWhileOpen
<1>5. BacklogInOrder'
  BY <1>1, <1>2 DEF IInv, BacklogInOrder
<1>6. EveryByteAccounted'
  BY <1>1, <1>2 DEF IInv, EveryByteAccounted, Pending
<1> QED
  BY <1>3, <1>4, <1>5, <1>6 DEF IInv

LEMMA StutterStep == IInv /\ UNCHANGED vars => IInv'
<1> SUFFICES ASSUME IInv, UNCHANGED vars
             PROVE  IInv'
  OBVIOUS
<1>1. /\ UNCHANGED <<clientVars, echo, life, mask, received, fresh, m_queue, pc,
                     dropped, leaked>>
      /\ Settled' = Settled /\ Fresh' = Fresh /\ InFlight' = InFlight
  BY Derived DEF vars, clientVars
<1>2. TypeOK' /\ WriteArmedIffBacklog' /\ RegisteredWhileOpen'
  BY <1>1 DEF IInv, TypeOK, WriteArmedIffBacklog, RegisteredWhileOpen, clientVars
<1>3. BacklogInOrder' /\ EveryByteAccounted'
  BY <1>1 DEF IInv, BacklogInOrder, EveryByteAccounted, Pending
<1> QED
  BY <1>2, <1>3 DEF IInv

LEMMA Inductive == IInv /\ [Next]_vars => IInv'
<1> SUFFICES ASSUME IInv, [Next]_vars
             PROVE  IInv'
  OBVIOUS
<1>1. CASE open
  BY <1>1, OpenStep
<1>2. CASE Receive
  BY <1>2, ReceiveStep
<1>3. CASE EndOfInput
  BY <1>3, EndOfInputStep
<1>4. CASE ReplyAtOnce
  BY <1>4, ReplyAtOnceStep
<1>5. CASE ReplyLater
  BY <1>5, ReplyLaterStep
<1>6. CASE StartOutput
  BY <1>6, StartOutputStep
<1>7. CASE OutputLast
  BY <1>7, OutputLastStep
<1>8. CASE OutputWhole
  BY <1>8, OutputWholeStep
<1>9. CASE OutputPart
  BY <1>9, OutputPartStep
<1>10. CASE Client
  BY <1>10, ClientStep
<1>11. CASE Finished \/ UNCHANGED vars
  BY <1>11, StutterStep DEF Finished
<1> QED
  BY <1>1, <1>2, <1>3, <1>4, <1>5, <1>6, <1>7, <1>8, <1>9, <1>10, <1>11
     DEF Next, Service

-----------------------------------------------------------------------------
(* The theorems. *)

THEOREM Invariance == Spec => []IInv
<1>1. Init => IInv
  BY InitIInv
<1>2. IInv /\ [Next]_vars => IInv'
  BY Inductive
<1> QED
  BY <1>1, <1>2, PTL DEF Spec

(* The types are right for buffers, windows and streams of any size.       *)
THEOREM TypeCorrect == Spec => []TypeOK
<1>1. IInv => TypeOK
  BY DEF IInv
<1> QED
  BY <1>1, Invariance, PTL

(* The reactor watches for writability exactly while there is a backlog,   *)
(* and handle_output never meets an empty queue.                           *)
THEOREM WriteArmed == Spec => []WriteArmedIffBacklog
<1>1. IInv => WriteArmedIffBacklog
  BY DEF IInv
<1> QED
  BY <1>1, Invariance, PTL

(* The reactor knows the handler exactly while it is open, and no callback *)
(* runs in a handler that was deleted.                                     *)
THEOREM Registered == Spec => []RegisteredWhileOpen
<1>1. IInv => RegisteredWhileOpen
  BY DEF IInv
<1> QED
  BY <1>1, Invariance, PTL

(* Partial sends and re-queueing never change the order of the backlog.    *)
THEOREM BacklogOrder == Spec => []BacklogInOrder
<1>1. IInv => BacklogInOrder
  BY DEF IInv
<1> QED
  BY <1>1, Invariance, PTL

(* No byte is duplicated, and none disappears without being discarded,     *)
(* flushed or in a block that handle_output lost.                          *)
THEOREM Conservation == Spec => []EveryByteAccounted
<1>1. IInv => EveryByteAccounted
  BY DEF IInv
<1> QED
  BY <1>1, Invariance, PTL

(* handle_output never ends the connection: handle_close's test of         *)
(* WRITE_MASK keeps the end of a drain from deleting the handler.          *)
THEOREM DrainKeeps == Spec => DrainKeepsConnection
<1>1. IInv /\ [Next]_vars => [pc = "output" => life' = "open" /\ "READ" \in mask']_vars
  <2> SUFFICES ASSUME IInv, Next, pc = "output"
               PROVE  life' = "open" /\ "READ" \in mask'
    OBVIOUS
  <2>1. life = "open" /\ "READ" \in mask
    BY DEF IInv, RegisteredWhileOpen
  <2>2. CASE OutputLast
    BY <2>1, <2>2 DEF OutputLast, handle_close
  <2>3. CASE OutputWhole \/ OutputPart
    BY <2>1, <2>3 DEF OutputWhole, OutputPart
  <2>4. CASE Client
    BY <2>1, <2>4 DEF Client, ClientWrite, ClientRead, ClientHalfClose, ClientGone
  <2>5. CASE open
    BY <2>1, <2>5 DEF open
  <2>6. ~ (Receive \/ EndOfInput \/ ReplyAtOnce \/ ReplyLater \/ StartOutput)
    BY DEF Receive, EndOfInput, ReplyAtOnce, ReplyLater, StartOutput
  <2>7. CASE Finished
    BY <2>1, <2>7 DEF Finished
  <2> QED
    BY <2>2, <2>3, <2>4, <2>5, <2>6, <2>7 DEF Next, Service
<1> QED
  BY <1>1, Invariance, PTL DEF Spec, DrainKeepsConnection

-----------------------------------------------------------------------------
(* The bound of the backlog. *)

(* What dequeue_head leaves takes less, and with the rest of the first     *)
(* block put back before it, exactly as much as before.                    *)
LEMMA AllocatedOutput ==
    ASSUME NEW q \in Seq(Block), q # <<>>, NEW n
    PROVE  /\ Tail(q) \in Seq(Block) /\ cur_bytes(Tail(q)) <= cur_bytes(q)
           /\ Advance(Head(q), n) \in Block =>
                cur_bytes(enqueue_head(Advance(Head(q), n), Tail(q))) = cur_bytes(q)
<1>1. /\ Head(q) \in Block /\ Head(q) = q[1] /\ Tail(q) \in Seq(Block)
      /\ Len(Tail(q)) = Len(q) - 1
      /\ \A i \in 1 .. Len(Tail(q)) : Tail(q)[i] = q[i + 1]
  BY HeadTailProperties
<1>2. Len(q) = Len(Tail(q)) + 1
  BY <1>1, LenProperties
<1>3. q[1].size \in Nat /\ cur_bytes(q) = q[1].size + cur_bytes(Tail(q))
  BY <1>1, <1>2, AllocatedSplit
<1>4. cur_bytes(Tail(q)) <= cur_bytes(q)
  <2>1. PICK m \in Nat : m = cur_bytes(Tail(q))
    BY <1>1, AllocatedFinite
  <2> QED
    BY <1>3, <2>1
<1>5. ASSUME Advance(Head(q), n) \in Block
      PROVE  cur_bytes(enqueue_head(Advance(Head(q), n), Tail(q))) = cur_bytes(q)
  <2>1. PICK r \in Block : r = Advance(Head(q), n)
    BY <1>5
  <2>2. PICK u : u = enqueue_head(r, Tail(q))
    OBVIOUS
  <2>3. /\ u \in Seq(Block) /\ Len(u) = Len(Tail(q)) + 1 /\ u[1] = r
        /\ \A i \in 1 .. Len(Tail(q)) : u[i + 1] = Tail(q)[i]
    BY <1>1, <2>2, QueuedCons
  <2>4. cur_bytes(u) = r.size + cur_bytes(Tail(q))
    BY <1>1, <2>3, AllocatedSplit
  <2>5. r.size = q[1].size
    BY <1>1, <2>1 DEF Advance, Block
  <2> QED
    BY <1>3, <2>1, <2>2, <2>4, <2>5
<1> QED
  BY <1>1, <1>4, <1>5

LEMMA BoundedInductive == IInv /\ QueueBounded /\ [Next]_vars => QueueBounded'
<1> SUFFICES ASSUME IInv, QueueBounded, [Next]_vars
             PROVE  cur_bytes(m_queue') < HighWater + InputSize
  BY DEF QueueBounded
<1>1. HighWater \in Nat \ {0} /\ InputSize \in Nat \ {0} /\ m_queue \in Seq(Block)
  BY HighWaterAssumption, InputSizeAssumption DEF IInv, TypeOK
<1>2. CASE m_queue' = <<>>
  BY <1>1, <1>2, NothingAllocated
<1>3. CASE UNCHANGED m_queue
  BY <1>3 DEF QueueBounded
<1>4. ASSUME ReplyLater, ~ is_full(m_queue), m_queue' = Append(m_queue, Remainder)
      PROVE  cur_bytes(m_queue') < HighWater + InputSize
  <2>1. PICK r \in Block : r = Remainder
    BY <1>4, RemainderFits
  <2>2. PICK m \in Nat : m = cur_bytes(m_queue)
    BY <1>1, AllocatedFinite
  <2>3. cur_bytes(m_queue') = m + r.size
    BY <1>1, <1>4, <2>1, <2>2, AllocatedAppend, Zenon
  <2>4. r.size \in 1..InputSize
    BY <2>1 DEF Block
  <2>5. m < HighWater
    BY <1>1, <1>4, <2>2 DEF is_full
  <2> QED
    BY <1>1, <2>3, <2>4, <2>5
<1>5. CASE OutputWhole \/ OutputPart
  <2>1. PICK b : b = Head(m_queue)
    OBVIOUS
  <2>2. PICK n : n = Sent(Length(b))
    OBVIOUS
  <2>3. /\ Len(m_queue) > 1 /\ m_queue # <<>>
        /\ \/ m_queue' = Tail(m_queue)
           \/ n < Length(b) /\ m_queue' = enqueue_head(Advance(b, n), Tail(m_queue))
    BY <1>5, <2>1, <2>2 DEF OutputWhole, OutputPart, IInv, WriteArmedIffBacklog
  <2>4. b \in Block /\ b.lo <= b.hi
    BY <1>1, <2>1, <2>3, QueuedHeadTail, OrderedTail DEF IInv, BacklogInOrder
  <2>5. n \in Nat
    <3>1. Length(b) \in Nat
      BY <2>4, MaxBytesAssumption DEF Length, Block, Bytes
    <3> QED
      BY <2>2, <3>1, SentBound DEF IInv
  <2>6. n < Length(b) => Advance(b, n) \in Block
    BY <2>4, <2>5, AdvanceFits
  <2>7. cur_bytes(m_queue') <= cur_bytes(m_queue) /\ cur_bytes(m_queue') \in Nat
    <3>1. cur_bytes(m_queue) \in Nat /\ cur_bytes(Tail(m_queue)) \in Nat
          /\ cur_bytes(Tail(m_queue)) <= cur_bytes(m_queue)
      BY <1>1, <2>3, AllocatedFinite, AllocatedOutput
    <3>2. n < Length(b) =>
            cur_bytes(enqueue_head(Advance(b, n), Tail(m_queue))) = cur_bytes(m_queue)
      <4>1. Advance(Head(m_queue), n) \in Block =>
              cur_bytes(enqueue_head(Advance(Head(m_queue), n), Tail(m_queue)))
                = cur_bytes(m_queue)
        BY <1>1, <2>3, AllocatedOutput, Zenon
      <4> QED
        BY <2>1, <2>6, <4>1, Zenon
    <3>3. \/ cur_bytes(m_queue') = cur_bytes(Tail(m_queue))
          \/ cur_bytes(m_queue') = cur_bytes(m_queue)
      BY <2>3, <3>2, Zenon
    <3> QED
      BY <3>1, <3>3
  <2>8. cur_bytes(m_queue) \in Nat
    BY <1>1, AllocatedFinite
  <2> QED
    BY <1>1, <2>7, <2>8 DEF QueueBounded
<1>6. CASE open \/ EndOfInput \/ OutputLast
  <2>1. m_queue' \in {m_queue, <<>>}
    BY <1>6 DEF open, EndOfInput, OutputLast, handle_close
  <2> QED
    BY <1>2, <1>3, <2>1
<1>7. CASE Receive \/ ReplyAtOnce \/ StartOutput \/ Client \/ Finished \/ UNCHANGED vars
  <2>1. UNCHANGED m_queue
    BY <1>7 DEF Receive, ReplyAtOnce, StartOutput, Client, ClientWrite, ClientRead,
                ClientHalfClose, ClientGone, Finished, vars
  <2> QED
    BY <1>3, <2>1
<1>8. CASE ReplyLater
  <2>1. \/ m_queue' \in {m_queue, <<>>}
        \/ ~ is_full(m_queue) /\ m_queue' = Append(m_queue, Remainder)
    BY <1>8 DEF ReplyLater, handle_close
  <2> QED
    BY <1>2, <1>3, <1>4, <1>8, <2>1
<1> QED
  BY <1>5, <1>6, <1>7, <1>8 DEF Next, Service

(* enqueue_tail's refusal bounds the memory of the backlog, whatever the   *)
(* sizes: handle_output never makes it grow, and puts a block back only in *)
(* the place it had.                                                       *)
THEOREM Bounded == Spec => []QueueBounded
<1>1. Init => QueueBounded
  BY NothingAllocated, HighWaterAssumption, InputSizeAssumption DEF Init, QueueBounded
<1>2. IInv /\ QueueBounded /\ [Next]_vars => QueueBounded'
  BY BoundedInductive
<1> QED
  BY <1>1, <1>2, Invariance, PTL DEF Spec

-----------------------------------------------------------------------------
(* The handler implements the abstract echo: the initial state maps to an  *)
(* initial state, and each step to a step or a stutter.                    *)

\* How a step of the handler is seen by EchoStream.
Gives(lo, n) ==
    /\ lo .. lo + n - 1 \subseteq Pending
    /\ echo' = echo \o Run(lo, n)
    /\ Pending' \subseteq Pending \ (lo .. lo + n - 1)
    /\ received' = received

Keeps == Pending' \subseteq Pending /\ UNCHANGED <<received, echo>>

(* Sending the empty run is no step.                                       *)
LEMMA GivesStep ==
    ASSUME IInv, NEW lo \in Nat \ {0}, NEW n \in Nat, Gives(lo, n)
    PROVE  Echo!Next
<1>1. echo \in Seq(1..received) /\ Pending \subseteq 1..received
      /\ received \in Nat /\ received <= MaxBytes
  <2>1. received \in Nat /\ received <= MaxBytes
    BY Numbers, MaxBytesAssumption DEF IInv
  <2> QED
    BY <2>1 DEF IInv, TypeOK, EveryByteAccounted
<1>2. CASE n = 0
  <2>1. Run(lo, n) = <<>>
    BY <1>2, RunProperties
  <2>2. echo' = echo
    BY <1>1, <2>1, ConcatEmptySeq DEF Gives
  <2>3. Echo!Discard
    BY <2>2 DEF Gives, Echo!Discard
  <2> QED
    BY <2>3 DEF Echo!Next
<1>3. CASE n # 0
  <2>1. lo \in lo .. lo + n - 1 /\ lo + n - 1 \in lo .. lo + n - 1
    BY <1>3
  <2>2. lo \in 1..received /\ lo + n - 1 \in 1..received
    BY <1>1, <2>1 DEF Gives
  <2>3. lo \in 1..MaxBytes /\ n \in 1..MaxBytes
    BY <1>1, <1>3, <2>2, MaxBytesAssumption
  <2>4. Echo!Send(lo, n)
    BY DEF Gives, Echo!Send, Echo!Run, Run
  <2> QED
    BY <2>3, <2>4 DEF Echo!Next
<1> QED
  BY <1>2, <1>3

LEMMA KeepsStep == Keeps => Echo!Next
BY DEF Keeps, Echo!Next, Echo!Discard

LEMMA ReceiveRefines ==
    ASSUME IInv, Receive
    PROVE  Echo!Next
<1>1. PICK n : n = Smaller(InputSize, written - received)
  OBVIOUS
<1>2. /\ n \in 1..MaxBytes /\ received + n <= MaxBytes /\ received \in Nat
      /\ n \in Nat
  <2>1. /\ written \in Nat /\ written <= MaxBytes /\ received \in Nat
        /\ received < written /\ InputSize \in Nat \ {0}
    BY InputSizeAssumption, Numbers DEF IInv, Receive
  <2> QED
    BY <1>1, <2>1, MaxBytesAssumption DEF Smaller
<1>3. /\ fresh' = n /\ received' = received + n
      /\ UNCHANGED <<echo, m_queue>> /\ fresh = 0
  BY <1>1 DEF Receive, IInv, RegisteredWhileOpen
<1>4. /\ Minus(received + n, n) = received /\ Minus(received, 0) = received
      /\ Above(received, received) = {}
      /\ Above(received, received + n) = received + 1 .. received + n
  BY <1>2 DEF Minus, Above
<1>5. Fresh = {} /\ Fresh' = received + 1 .. received + n
  BY <1>3, <1>4, Derived
<1>6. Echo!Receive(n)
  BY <1>2, <1>3, <1>5 DEF Echo!Receive, Pending
<1> QED
  BY <1>2, <1>6 DEF Echo!Next

(* The ends of handle_input: a run is sent, the rest is queued or given up.*)
LEMMA ReplyRefines ==
    ASSUME IInv, ReplyAtOnce \/ ReplyLater
    PROVE  Echo!Next
<1>1. pc = "input" /\ Reply(Sent(fresh))
  BY DEF ReplyAtOnce, ReplyLater
<1>2. /\ Sent(fresh) \in Nat
      /\ Fresh = SentPart \cup RestPart /\ SentPart \cap RestPart = {}
      /\ Fresh' = {} /\ Settled \in Nat /\ UNCHANGED received
  BY <1>1, ReplyEffect
<1>3. Queued(m_queue') \subseteq Queued(m_queue) \cup RestPart
  <2>1. Queued(<<Remainder>>) = BytesIn(Remainder) /\ BytesIn(Remainder) = RestPart
    BY QueuedSingle DEF Remainder, BytesIn, RestPart
  <2>2. CASE m_queue' = m_queue \/ m_queue' = <<>>
    BY <2>2, QueuedEmpty
  <2>3. CASE m_queue' = Append(m_queue, Remainder)
    <3>1. \A i \in DOMAIN Append(m_queue, Remainder) :
             Append(m_queue, Remainder)[i] = Remainder
             \/ (i \in DOMAIN m_queue
                   /\ Append(m_queue, Remainder)[i] = m_queue[i])
      <4>1. PICK S : S = Block \cup {Remainder}
        OBVIOUS
      <4>2. m_queue \in Seq(S) /\ Remainder \in S
        BY <4>1, SeqMonotonic DEF IInv, TypeOK
      <4>3. PICK r : r = Remainder
        OBVIOUS
      <4>4. DOMAIN Append(m_queue, r) = 1 .. Len(m_queue) + 1
            /\ DOMAIN m_queue = 1 .. Len(m_queue) /\ Len(m_queue) \in Nat
        BY <4>2, <4>3, AppendProperties, LenProperties
      <4> QED
        BY <4>2, <4>3, <4>4, AppendProperties
    <3> QED
      BY <2>1, <2>3, <3>1 DEF Queued
  <2> QED
    BY <2>2, <2>3 DEF ReplyAtOnce, ReplyLater, handle_close
<1>4. Queued(m_queue) \cap SentPart = {} /\ SentPart \subseteq Fresh
  BY <1>2 DEF IInv, EveryByteAccounted
<1>5. PICK n \in Nat : n = Sent(fresh)
  BY <1>2
<1>6. PICK lo \in Nat \ {0} : lo = Settled + 1
  BY <1>2
<1>7. SentPart = lo .. lo + n - 1
  BY <1>2, <1>5, <1>6 DEF SentPart
<1>8. echo' = echo \o Run(lo, n)
  BY <1>1, <1>5, <1>6 DEF Reply
<1>9. Gives(lo, n)
  BY <1>2, <1>3, <1>4, <1>7, <1>8 DEF Gives, Pending
<1> QED
  BY <1>9, GivesStep

(* The turns of handle_output's loop that send.                            *)
LEMMA OutputRefines ==
    ASSUME IInv, OutputWhole \/ OutputPart
    PROVE  Echo!Next
<1>1. PICK b : b = Head(m_queue)
  OBVIOUS
<1>2. PICK t : t = Tail(m_queue)
  OBVIOUS
<1>3. PICK n : n = Sent(Length(b))
  OBVIOUS
<1>4. PICK rest : rest = Advance(b, n)
  OBVIOUS
<1>5. /\ pc = "output" /\ Len(m_queue) > 1
      /\ n = Sent(Length(Head(m_queue)))
      /\ echo' = echo \o Run(Head(m_queue).lo, n)
      /\ UNCHANGED <<clientVars, received, fresh>>
      /\ m_queue' = t \/ m_queue' = enqueue_head(rest, t)
  <2>1. CASE OutputWhole
    BY <1>1, <1>2, <1>3, <2>1 DEF OutputWhole
  <2>2. CASE OutputPart
    BY <1>1, <1>2, <1>3, <1>4, <2>2 DEF OutputPart
  <2> QED
    BY <2>1, <2>2
<1>6. b \in Block /\ b.lo <= b.hi
  <2>1. m_queue # <<>> /\ m_queue \in Seq(Block) /\ Ordered(m_queue)
    BY <1>5 DEF IInv, TypeOK, BacklogInOrder
  <2> QED
    BY <1>1, <2>1, QueuedHeadTail, OrderedTail
<1>7. b.lo \in Nat \ {0} /\ b.hi \in Nat
      /\ Length(b) = b.hi - b.lo + 1 /\ Length(b) \in Nat
  BY <1>6, MaxBytesAssumption DEF Block, Bytes, Length
<1>8. n \in Nat /\ n <= Length(b)
  BY <1>3, <1>7, SentBound DEF IInv
<1>9. /\ Queued(m_queue) = BytesIn(b) \cup Queued(t)
      /\ BytesIn(b) \cap Queued(t) = {}
  BY <1>1, <1>2, <1>5, <1>8, OutputEffect
<1>10. /\ b.lo .. b.lo + n - 1 \subseteq BytesIn(b)
       /\ BytesIn(rest) = b.lo + n .. b.hi
       /\ BytesIn(rest) \subseteq BytesIn(b)
       /\ BytesIn(rest) \cap (b.lo .. b.lo + n - 1) = {}
  <2>1. rest.lo = b.lo + n /\ rest.hi = b.hi
    BY <1>4, <1>6 DEF Advance, Block
  <2> QED
    BY <1>6, <1>7, <1>8, <2>1 DEF BytesIn
<1>11. Queued(enqueue_head(rest, t)) \subseteq BytesIn(rest) \cup Queued(t)
  <2>1. PICK S : S = Block \cup {rest}
    OBVIOUS
  <2>2. t \in Seq(Block) /\ <<rest>> \in Seq(S) /\ rest \in S
    <3>1. m_queue \in Seq(Block) /\ m_queue # <<>>
      BY <1>5 DEF IInv, TypeOK
    <3>2. t \in Seq(Block)
      BY <1>2, <3>1, HeadTailProperties
    <3>3. rest \in S
      BY <2>1
    <3>4. <<rest>> \in Seq(S)
      BY <3>3
    <3> QED
      BY <3>2, <3>3, <3>4
  <2>3. t \in Seq(S) /\ <<rest>> \in Seq(S)
    BY <2>1, <2>2, SeqMonotonic
  <2>4. PICK u : u = enqueue_head(rest, t)
    OBVIOUS
  <2>5. /\ u \in Seq(S) /\ Len(u) = 1 + Len(t)
        /\ \A i \in 1 .. 1 + Len(t) :
              u[i] = IF i <= 1 THEN <<rest>>[i] ELSE t[i - 1]
    <3>1. Len(<<rest>>) = 1
      OBVIOUS
    <3> QED
      BY <2>3, <2>4, <3>1, ConcatProperties DEF enqueue_head
  <2>6. Len(t) \in Nat /\ DOMAIN t = 1 .. Len(t) /\ DOMAIN u = 1 .. 1 + Len(t)
    BY <2>3, <2>5, LenProperties
  <2>7. \A i \in DOMAIN u : u[i] = rest \/ (i - 1 \in DOMAIN t /\ u[i] = t[i - 1])
    BY <2>5, <2>6
  <2> QED
    BY <2>4, <2>7 DEF Queued
<1>12. Queued(m_queue') \subseteq BytesIn(rest) \cup Queued(t)
  BY <1>5, <1>11
<1>13. Fresh' = Fresh
  BY <1>5, Derived
<1>14. BytesIn(b) \cap Fresh = {}
  BY <1>9 DEF IInv, EveryByteAccounted
<1>15. PICK lo \in Nat \ {0} : lo = b.lo
  BY <1>7
<1>16. PICK sent : sent = lo .. lo + n - 1
  OBVIOUS
<1>17. /\ sent \subseteq BytesIn(b) /\ BytesIn(rest) \cap sent = {}
       /\ BytesIn(rest) \subseteq BytesIn(b)
  BY <1>10, <1>15, <1>16
<1>18. sent \subseteq Pending /\ Pending' \subseteq Pending \ sent
  BY <1>9, <1>12, <1>13, <1>14, <1>17 DEF Pending
<1>19. Gives(lo, n)
  BY <1>1, <1>5, <1>15, <1>16, <1>18 DEF Gives
<1> QED
  BY <1>8, <1>19, GivesStep

(* No more is sent back than was received.                                 *)
LEMMA EchoLength == IInv => Len(echo) \in Nat /\ Len(echo) <= received
<1> SUFFICES ASSUME IInv PROVE Len(echo) \in Nat /\ Len(echo) <= received
  OBVIOUS
<1>1. /\ echo \in Seq(1..received) /\ IsInjective(echo) /\ received \in Nat
      /\ Len(echo) \in Nat
  BY Numbers DEF IInv, TypeOK, EveryByteAccounted
<1>2. echo \in [1..Len(echo) -> 1..received]
  BY <1>1, LenProperties
<1>3. \A i, j \in 1..Len(echo) : echo[i] = echo[j] => i = j
  BY <1>1, LenProperties DEF IsInjective
<1>4. /\ IsFiniteSet(1..received) /\ Cardinality(1..received) = received
      /\ IsFiniteSet(1..Len(echo)) /\ Cardinality(1..Len(echo)) = Len(echo)
  <2>1. ASSUME NEW n \in Nat PROVE IsFiniteSet(1..n) /\ Cardinality(1..n) = n
    <3>1. PICK k : k = Cardinality(1..n)
      OBVIOUS
    <3>2. IsFiniteSet(1..n) /\ k = IF 1 > n THEN 0 ELSE n - 1 + 1
      BY <3>1, FS_Interval
    <3>3. k = n
      BY <3>2
    <3> QED
      BY <3>1, <3>2, <3>3
  <2> QED
    BY <1>1, <2>1, Zenon
<1>5. ASSUME received < Len(echo) PROVE FALSE
  <2>1. PICK m, n : m = received /\ n = Len(echo)
    OBVIOUS
  <2>2. Cardinality(1..m) < Cardinality(1..n)
    BY <1>4, <1>5, <2>1, Zenon
  <2>3. IsFiniteSet(1..m) /\ IsFiniteSet(1..n) /\ echo \in [1..n -> 1..m]
    BY <1>2, <1>4, <2>1
  <2>4. \E i, j \in 1..n : i # j /\ echo[i] = echo[j]
    BY <2>2, <2>3, FS_PigeonHole, Zenon
  <2> QED
    BY <1>3, <2>1, <2>4
<1> QED
  BY <1>1, <1>5

(* What the client can see of a step of the handler.                       *)
LEMMA ServiceEffect ==
    ASSUME IInv, Service
    PROVE  /\ UNCHANGED clientVars
           /\ life # "deleted"
           /\ Len(echo') \in Nat /\ Len(echo) \in Nat /\ Len(echo') >= Len(echo)
           /\ received' # received =>
                /\ received' \in received + 1 .. written
                /\ UNCHANGED <<echo, life>>
<1>1. /\ received \in Nat /\ written \in Nat /\ received <= written
      /\ fresh \in Nat /\ Len(echo) \in Nat
  BY Numbers DEF IInv
<1>2. CASE open \/ EndOfInput \/ StartOutput \/ OutputLast
  BY <1>1, <1>2 DEF open, EndOfInput, StartOutput, OutputLast, IInv,
                    RegisteredWhileOpen
<1>3. CASE Receive
  <2>1. /\ received < written /\ "READ" \in mask
        /\ received' = received + Smaller(InputSize, written - received)
        /\ UNCHANGED <<clientVars, echo, life>>
    BY <1>3 DEF Receive
  <2>2. received' \in received + 1 .. written
    BY <1>1, <2>1, InputSizeAssumption DEF Smaller
  <2> QED
    BY <1>1, <2>1, <2>2 DEF IInv, RegisteredWhileOpen
<1>4. CASE ReplyAtOnce \/ ReplyLater
  <2>1. pc = "input" /\ Reply(Sent(fresh))
    BY <1>4 DEF ReplyAtOnce, ReplyLater
  <2>2. /\ Sent(fresh) \in Nat /\ Len(echo') = Len(echo) + Sent(fresh)
        /\ life = "open" /\ UNCHANGED <<clientVars, received>>
    BY <2>1, ReplyEffect
  <2> QED
    BY <1>1, <2>2
<1>5. CASE OutputWhole \/ OutputPart
  <2>1. PICK n : /\ n = Sent(Length(Head(m_queue)))
                 /\ echo' = echo \o Run(Head(m_queue).lo, n)
    BY <1>5 DEF OutputWhole, OutputPart
  <2>2. pc = "output" /\ Len(m_queue) > 1 /\ UNCHANGED <<clientVars, received>>
    BY <1>5 DEF OutputWhole, OutputPart
  <2>3. n \in Nat
    <3>1. m_queue \in Seq(Block) /\ m_queue # <<>>
      BY <2>2 DEF IInv, TypeOK, WriteArmedIffBacklog
    <3>2. Head(m_queue) = m_queue[1] /\ 1 \in DOMAIN m_queue
      BY <3>1, OrderedTail DEF IInv, BacklogInOrder
    <3>3. /\ m_queue[1].lo \in Nat /\ m_queue[1].hi \in Nat
          /\ m_queue[1].lo <= m_queue[1].hi
      BY <3>2, Numbers DEF IInv, BacklogInOrder, Ordered
    <3>4. Length(Head(m_queue)) \in Nat
      BY <3>2, <3>3 DEF Length
    <3> QED
      BY <2>1, <3>4, SentBound DEF IInv
  <2>4. Len(echo') = Len(echo) + n
    BY <2>1, <2>2, <2>3, OutputEffect
  <2>5. life = "open"
    BY <2>2 DEF IInv, RegisteredWhileOpen
  <2> QED
    BY <1>1, <2>2, <2>3, <2>4, <2>5
<1> QED
  BY <1>2, <1>3, <1>4, <1>5 DEF Service

(* Every behaviour of the handler is one of the abstract echo.             *)
THEOREM Refinement == Spec => ImplementsEchoStream
<1>1. Init => Echo!Init
  BY QueuedEmpty DEF Init, Echo!Init, Pending, Fresh, Settled
<1>2. IInv /\ [Next]_vars => [Echo!Next]_(Echo!vars)
  <2> SUFFICES ASSUME IInv, [Next]_vars
               PROVE  Echo!Next \/ UNCHANGED <<received, Pending, echo>>
    BY DEF Echo!vars
  <2>1. CASE Receive
    BY <2>1, ReceiveRefines
  <2>2. CASE ReplyAtOnce \/ ReplyLater
    BY <2>2, ReplyRefines
  <2>3. CASE OutputWhole \/ OutputPart
    BY <2>3, OutputRefines
  <2>4. CASE open \/ EndOfInput \/ OutputLast
    <3>1. /\ UNCHANGED <<echo, received, fresh>>
          /\ m_queue' = m_queue \/ m_queue' = <<>>
      BY <2>4 DEF open, EndOfInput, OutputLast, handle_close
    <3>2. Keeps
      BY <3>1, Derived, QueuedEmpty DEF Keeps, Pending
    <3> QED
      BY <3>2, KeepsStep
  <2>5. CASE StartOutput \/ Client \/ Finished \/ UNCHANGED vars
    <3>1. UNCHANGED <<echo, received, fresh, m_queue>>
      BY <2>5 DEF StartOutput, Client, ClientWrite, ClientRead, ClientHalfClose,
                  ClientGone, Finished, vars
    <3> QED
      BY <3>1, Derived DEF Pending
  <2> QED
    BY <2>1, <2>2, <2>3, <2>4, <2>5 DEF Next, Service
<1> QED
  BY <1>1, <1>2, Invariance, PTL DEF Spec, ImplementsEchoStream, Echo!Spec

-----------------------------------------------------------------------------
(* The end of the handler. *)

(* No callback is entered or goes on in a handler that was deleted.        *)
THEOREM Deleted == Spec => NoUseAfterDelete
<1>1. IInv /\ [Next]_vars =>
        [life = "deleted" =>
            UNCHANGED <<echo, life, mask, received, fresh, m_queue, pc, dropped,
                        leaked>>]_vars
  <2> SUFFICES ASSUME IInv, Next, life = "deleted"
               PROVE  UNCHANGED <<echo, life, mask, received, fresh, m_queue, pc,
                                  dropped, leaked>>
    OBVIOUS
  <2>1. ~ Service
    BY ServiceEffect
  <2>2. CASE Client
    BY <2>2 DEF Client, ClientWrite, ClientRead, ClientHalfClose, ClientGone
  <2>3. CASE Finished
    BY <2>3 DEF Finished, vars
  <2> QED
    BY <2>1, <2>2, <2>3 DEF Next
<1> QED
  BY <1>1, Invariance, PTL DEF Spec, NoUseAfterDelete

-----------------------------------------------------------------------------
(* What the abstract echo promises, which the handler keeps by Refinement. *)

(* What is pending was not sent, so a run of pending bytes can be sent     *)
(* without a duplicate: the invariant is inductive as it stands.           *)
EchoInv ==
    /\ received \in 0..MaxBytes /\ Pending \subseteq 1..received
    /\ echo \in Seq(1..received)
    /\ IsInjective(echo) /\ Range(echo) \cap Pending = {}

LEMMA EchoInvIs == EchoInv <=> Echo!TypeOK /\ Echo!AtMostOnce
BY Zenon DEF EchoInv, Echo!TypeOK, Echo!AtMostOnce, Echo!IsInjective, IsInjective,
             Echo!Range, Range

LEMMA EchoInit == Echo!Init => EchoInv
BY MaxBytesAssumption DEF Echo!Init, EchoInv, IsInjective, Range

LEMMA EchoReceive ==
    ASSUME EchoInv, NEW n \in 1..MaxBytes, Echo!Receive(n)
    PROVE  EchoInv'
<1>1. /\ n \in Nat /\ received \in Nat /\ received + n \in 0..MaxBytes
      /\ 1..received \subseteq 1 .. received + n
      /\ 1..received \cap (received + 1 .. received + n) = {}
      /\ received + 1 .. received + n \subseteq 1 .. received + n
  <2>1. n \in Nat /\ received \in Nat /\ received + n <= MaxBytes
    BY MaxBytesAssumption DEF EchoInv, Echo!Receive
  <2> QED
    BY <2>1
<1>2. /\ received' = received + n /\ echo' = echo
      /\ Pending' = Pending \cup (received + 1 .. received + n)
  BY DEF Echo!Receive
<1>3. echo \in Seq(1..received) /\ Pending \subseteq 1..received
  BY DEF EchoInv
<1>4. echo \in Seq(1 .. received + n)
  BY <1>1, <1>3, SeqMonotonic
<1>5. Range(echo) \subseteq 1..received
  BY <1>3, RangeOfSeq
<1>6. IsInjective(echo') /\ Range(echo') \cap Pending' = {}
  BY <1>1, <1>2, <1>5 DEF EchoInv
<1> QED
  BY <1>1, <1>2, <1>3, <1>4, <1>6 DEF EchoInv

LEMMA EchoSend ==
    ASSUME EchoInv, NEW lo \in 1..MaxBytes, NEW n \in 1..MaxBytes,
           Echo!Send(lo, n)
    PROVE  EchoInv'
<1>1. /\ lo \in Nat \ {0} /\ n \in Nat /\ received \in Nat
      /\ echo \in Seq(1..received) /\ Pending \subseteq 1..received
      /\ IsInjective(echo) /\ Range(echo) \cap Pending = {}
  BY DEF EchoInv
<1>2. /\ lo .. lo + n - 1 \subseteq Pending /\ received' = received
      /\ echo' = echo \o Run(lo, n)
      /\ Pending' \subseteq Pending \ (lo .. lo + n - 1)
  BY DEF Echo!Send, Echo!Run, Run
<1>3. lo + n - 1 <= received
  <2>1. n >= 1
    OBVIOUS
  <2>2. lo + n - 1 \in lo .. lo + n - 1
    BY <1>1, <2>1
  <2>3. lo + n - 1 \in 1..received
    BY <1>1, <1>2, <2>2
  <2> QED
    BY <1>1, <2>3
<1>4. Range(echo) \cap (lo .. lo + n - 1) = {}
  BY <1>1, <1>2
<1>5. /\ echo \o Run(lo, n) \in Seq(1..received)
      /\ Range(echo \o Run(lo, n)) = Range(echo) \cup (lo .. lo + n - 1)
      /\ IsInjective(echo \o Run(lo, n))
  BY <1>1, <1>3, <1>4, EchoGrows
<1> QED
  BY <1>1, <1>2, <1>5 DEF EchoInv

(* The abstract echo that the handler implements: for every stream, no     *)
(* byte is sent back twice, and none before it was received.               *)
THEOREM EchoAtMostOnce == Echo!Spec => [](Echo!TypeOK /\ Echo!AtMostOnce)
<1>1. Echo!Init => EchoInv
  BY EchoInit
<1>2. EchoInv /\ [Echo!Next]_(Echo!vars) => EchoInv'
  <2> SUFFICES ASSUME EchoInv, [Echo!Next]_(Echo!vars)
               PROVE  EchoInv'
    OBVIOUS
  <2>1. CASE \E n \in 1..MaxBytes : Echo!Receive(n)
    BY <2>1, EchoReceive
  <2>2. CASE \E lo, n \in 1..MaxBytes : Echo!Send(lo, n)
    BY <2>2, EchoSend
  <2>3. CASE Echo!Discard \/ UNCHANGED Echo!vars
    BY <2>3 DEF Echo!Discard, Echo!vars, EchoInv
  <2> QED
    BY <2>1, <2>2, <2>3 DEF Echo!Next
<1>3. EchoInv => Echo!TypeOK /\ Echo!AtMostOnce
  BY EchoInvIs
<1> QED
  BY <1>1, <1>2, <1>3, PTL DEF Echo!Spec

-----------------------------------------------------------------------------
(* Until the client has written more than the window holds, no send is     *)
(* short, so the backlog stays empty and the echo is what was received.    *)
WideInv ==
    written <= SendSpace =>
        /\ m_queue = <<>>
        /\ peer # "gone" => echo = Run(1, Settled)

(* Nothing was received yet. *)
LEMMA NothingSettled == Init => Settled = 0 /\ echo = Run(1, 0)
<1> SUFFICES ASSUME Init PROVE Settled = 0 /\ echo = Run(1, 0)
  OBVIOUS
<1>1. Minus(0, 0) = 0
  BY DEF Minus
<1>2. echo = <<>> /\ Settled = 0
  BY <1>1, Derived DEF Init
<1>3. Run(1, 0) = <<>>
  BY RunProperties
<1> QED
  BY <1>2, <1>3

LEMMA InitWide == Init => WideInv
  BY NothingSettled DEF Init, WideInv

(* Only the client writes. *)
LEMMA WrittenSteps == [Next]_vars => ClientWrite \/ UNCHANGED written
  BY DEF Next, Service, Client, vars, clientVars, open, Receive, EndOfInput,
         ReplyAtOnce, ReplyLater, Reply, StartOutput, OutputLast, OutputWhole,
         OutputPart, ClientRead, ClientHalfClose, ClientGone, Finished

LEMMA WideInductive == IInv /\ WideInv /\ [Next]_vars => WideInv'
<1> SUFFICES ASSUME IInv, WideInv, [Next]_vars, written' <= SendSpace
             PROVE  /\ m_queue' = <<>>
                    /\ peer' # "gone" => echo' = Run(1, Settled')
  BY DEF WideInv
<1>0. written <= SendSpace
  <2>1. written \in Nat /\ SendSpace \in Nat
    BY Numbers, SendSpaceAssumption DEF IInv
  <2>2. CASE ClientWrite
    BY <2>1, <2>2 DEF ClientWrite
  <2>3. CASE UNCHANGED written
    BY <2>3
  <2>4. [Next]_vars => ClientWrite \/ UNCHANGED written
    BY WrittenSteps
  <2> QED
    BY <2>2, <2>3, <2>4
<1>1. m_queue = <<>> /\ (peer # "gone" => echo = Run(1, Settled))
  BY <1>0 DEF WideInv
<1>2. /\ received \in Nat /\ fresh \in Nat /\ Settled \in Nat
      /\ Settled + fresh = received /\ received <= written /\ written <= SendSpace
      /\ taken \in Nat /\ written \in Nat /\ SendSpace \in Nat
  BY <1>0, Numbers, SendSpaceAssumption DEF IInv, TypeOK
<1>3. peer # "gone" => Sent(fresh) = fresh
  <2> SUFFICES ASSUME peer # "gone"
               PROVE  Sent(fresh) = fresh
    OBVIOUS
  <2>1. Len(echo) = Settled
    BY <1>1, <1>2, RunProperties
  <2> QED
    BY <1>2, <2>1 DEF Sent, Smaller, InFlight
<1>4. CASE open \/ EndOfInput
  <2>1. m_queue' = <<>> /\ UNCHANGED <<peer, echo, received, fresh>>
    BY <1>1, <1>4 DEF open, EndOfInput, handle_close, clientVars
  <2> QED
    BY <1>1, <2>1, Derived
<1>5. CASE Receive
  <2>1. PICK n : n = Smaller(InputSize, written - received)
    OBVIOUS
  <2>2. n \in Int
    BY <2>1, <1>2, InputSizeAssumption, Numbers DEF IInv, Smaller
  <2>3. /\ fresh' = n /\ received' = received + n /\ fresh = 0
        /\ UNCHANGED <<peer, echo, m_queue>>
    BY <1>5, <2>1 DEF Receive, IInv, RegisteredWhileOpen, clientVars
  <2>4. Minus(received + n, n) = Minus(received, 0)
    BY <1>2, <2>2 DEF Minus
  <2>5. Settled' = Settled
    BY <2>3, <2>4, Derived
  <2> QED
    BY <1>1, <2>3, <2>5
<1>6. CASE ReplyAtOnce
  <2>1. pc = "input" /\ Reply(Sent(fresh)) /\ UNCHANGED m_queue
    BY <1>6 DEF ReplyAtOnce
  <2>2. Settled' = received /\ UNCHANGED peer
    BY <2>1, ReplyEffect DEF clientVars
  <2>3. ASSUME peer # "gone"
        PROVE  echo' = Run(1, received)
    <3>1. echo' = Run(1, Settled) \o Run(Settled + 1, fresh)
      BY <1>1, <1>3, <2>1, <2>3 DEF Reply
    <3>2. PICK m \in Nat : m = Settled
      BY <1>2
    <3>3. PICK n \in Nat : n = fresh
      BY <1>2
    <3>4. Run(1, m) \o Run(1 + m, n) = Run(1, m + n)
      <4>1. 1 \in Int
        OBVIOUS
      <4> QED
        BY <4>1, RunConcat, Zenon
    <3>5. 1 + m = Settled + 1 /\ m + n = received
      BY <1>2, <3>2, <3>3
    <3> QED
      BY <3>1, <3>2, <3>3, <3>4, <3>5
  <2> QED
    BY <1>1, <2>1, <2>2, <2>3
<1>7. ~ ReplyLater
  BY <1>2, <1>3 DEF ReplyLater
<1>8. ~ (OutputLast \/ OutputWhole \/ OutputPart)
  BY <1>1 DEF OutputLast, OutputWhole, OutputPart, IInv, WriteArmedIffBacklog
<1>9. CASE StartOutput \/ Finished \/ UNCHANGED vars
  <2>1. UNCHANGED <<peer, echo, received, fresh, m_queue>>
    BY <1>9 DEF StartOutput, Finished, vars, clientVars
  <2> QED
    BY <1>1, <2>1, Derived
<1>10. CASE Client
  <2>1. UNCHANGED <<echo, received, fresh, m_queue>>
    BY <1>10 DEF Client, ClientWrite, ClientRead, ClientHalfClose, ClientGone
  <2>2. peer' # "gone" => peer # "gone"
    BY <1>10 DEF Client, ClientWrite, ClientRead, ClientHalfClose, ClientGone
  <2> QED
    BY <1>1, <2>1, <2>2, Derived
<1> QED
  BY <1>4, <1>5, <1>6, <1>7, <1>8, <1>9, <1>10 DEF Next, Service

(* A client that has not filled the window is answered exactly.            *)
THEOREM ExactEcho == Spec => []ExactEchoWhenWide
<1>1. Init => WideInv
  BY InitWide
<1>2. IInv /\ WideInv /\ [Next]_vars => WideInv'
  BY WideInductive
<1>3. IInv /\ WideInv => ExactEchoWhenWide
  <2> SUFFICES ASSUME IInv, WideInv, written <= SendSpace, peer # "gone",
                      pc = "reactor"
               PROVE  echo = Run(1, received)
    BY DEF ExactEchoWhenWide
  <2>1. fresh = 0 /\ echo = Run(1, Settled)
    BY DEF IInv, WideInv, RegisteredWhileOpen
  <2>2. Settled = received
    BY <2>1, Numbers DEF IInv
  <2> QED
    BY <2>1, <2>2
<1> QED
  BY <1>1, <1>2, <1>3, Invariance, PTL DEF Spec

-----------------------------------------------------------------------------
(* A backlog always ends in a loss: its last block leaks, or is given up.  *)
(* So as long as nothing is lost and nothing waits, nothing ever did.      *)
NothingLostInv ==
    dropped \cup leaked = {} /\ m_queue = <<>> => echo = Run(1, Settled)

(* A block of a backlog holds a byte.                                      *)
LEMMA BlocksHoldBytes ==
    ASSUME IInv
    PROVE  m_queue # <<>> => BytesIn(Head(m_queue)) # {} /\ Queued(m_queue) # {}
<1> SUFFICES ASSUME m_queue # <<>>
             PROVE  BytesIn(Head(m_queue)) # {} /\ Queued(m_queue) # {}
  OBVIOUS
<1>1. m_queue \in Seq(Block)
  BY DEF IInv, TypeOK
<1>2. /\ Head(m_queue) = m_queue[1]
      /\ Queued(m_queue) = BytesIn(Head(m_queue)) \cup Queued(Tail(m_queue))
  BY <1>1, QueuedHeadTail
<1>3. 1 \in DOMAIN m_queue
  BY <1>1, EmptySeq, LenProperties
<1>4. m_queue[1].lo <= m_queue[1].hi /\ m_queue[1].lo \in Nat /\ m_queue[1].hi \in Nat
  BY <1>3, Numbers DEF IInv, BacklogInOrder, Ordered
<1>5. m_queue[1].lo \in BytesIn(m_queue[1])
  BY <1>4 DEF BytesIn
<1> QED
  BY <1>2, <1>5

(* What handle_input could not send is queued or given up.                 *)
LEMMA ReplyLaterLoses ==
    ASSUME IInv, ReplyLater PROVE dropped' # {} \/ m_queue' # <<>>
<1>1. BytesIn(Remainder) # {}
  <2>1. received \in Nat /\ fresh \in Nat /\ Settled \in Nat /\ Settled + fresh = received
    BY Numbers DEF IInv
  <2>2. Sent(fresh) \in Nat /\ Sent(fresh) < fresh
    BY <2>1, SentBound DEF IInv, ReplyLater
  <2>3. received \in Settled + 1 + Sent(fresh) .. received
    BY <2>1, <2>2
  <2> QED
    BY <2>3 DEF BytesIn, Remainder
<1>2. Append(m_queue, Remainder) # <<>>
  <2>1. PICK S : S = Block \cup {Remainder}
    OBVIOUS
  <2>2. m_queue \in Seq(S) /\ Remainder \in S
    BY <2>1, SeqMonotonic DEF IInv, TypeOK
  <2> QED
    BY <2>2, AppendProperties, Zenon
<1>3. Queued(<<Remainder>>) # {}
  BY <1>1 DEF Queued
<1> QED
  BY <1>1, <1>2, <1>3 DEF ReplyLater, handle_close

(* A drain that leaves nothing in the queue has lost the last block.       *)
LEMMA OutputLoses ==
    ASSUME IInv, OutputLast \/ OutputWhole \/ OutputPart
    PROVE  leaked' # {} \/ m_queue' # <<>>
<1>1. m_queue \in Seq(Block) /\ Len(m_queue) \in Nat
  BY LenProperties DEF IInv, TypeOK
<1>2. CASE OutputLast
  <2>1. m_queue # <<>>
    BY <1>2 DEF OutputLast, IInv, WriteArmedIffBacklog
  <2>2. BytesIn(Head(m_queue)) # {}
    BY <2>1, BlocksHoldBytes
  <2> QED
    BY <1>2, <2>2 DEF OutputLast
<1>3. CASE OutputWhole \/ OutputPart
  <2>1. Len(m_queue) > 1 /\ m_queue # <<>>
    BY <1>1, <1>3, EmptySeq DEF OutputWhole, OutputPart
  <2>2. Len(Tail(m_queue)) = Len(m_queue) - 1 /\ Tail(m_queue) \in Seq(Block)
    BY <1>1, <2>1, HeadTailProperties
  <2>3. Tail(m_queue) # <<>>
    <3>1. PICK c \in Nat : c = Len(m_queue)
      BY <1>1
    <3>2. c > 1 /\ Len(Tail(m_queue)) = c - 1
      BY <2>1, <2>2, <3>1, Zenon
    <3>3. Len(Tail(m_queue)) # 0
      BY <3>2
    <3> QED
      BY <3>3, EmptySeq, Zenon
  <2>4. \A b : enqueue_head(b, Tail(m_queue)) # <<>>
    BY <2>2 DEF enqueue_head
  <2> QED
    BY <1>3, <2>3, <2>4 DEF OutputWhole, OutputPart
<1> QED
  BY <1>2, <1>3

LEMMA NothingLostInductive == IInv /\ NothingLostInv /\ [Next]_vars => NothingLostInv'
<1> SUFFICES ASSUME IInv, NothingLostInv, [Next]_vars,
                    dropped' = {}, leaked' = {}, m_queue' = <<>>
             PROVE  echo' = Run(1, Settled')
  BY DEF NothingLostInv
<1>1. /\ received \in Nat /\ fresh \in Nat /\ Settled \in Nat
      /\ Settled + fresh = received
  BY Numbers DEF IInv
<1>2. ASSUME UNCHANGED <<echo, received, fresh>>, dropped = {}, leaked = {},
             m_queue = <<>>
      PROVE  echo' = Run(1, Settled')
  BY <1>2, Derived DEF NothingLostInv
<1>3. CASE open \/ EndOfInput
  <2>1. UNCHANGED <<echo, received, fresh, leaked>>
    BY <1>3 DEF open, EndOfInput
  <2>2. \/ UNCHANGED <<dropped, m_queue>>
        \/ dropped' = dropped \cup Queued(m_queue)
    BY <1>3 DEF open, EndOfInput, handle_close
  <2>3. dropped = {} /\ m_queue = <<>>
    BY <2>2, BlocksHoldBytes
  <2> QED
    BY <1>2, <2>1, <2>3
<1>4. CASE Receive
  <2>1. PICK n : n = Smaller(InputSize, written - received)
    OBVIOUS
  <2>2. n \in Int
    BY <2>1, <1>1, InputSizeAssumption, Numbers DEF IInv, Smaller
  <2>3. /\ fresh' = n /\ received' = received + n /\ fresh = 0
        /\ UNCHANGED <<echo, m_queue, dropped, leaked>>
    BY <1>4, <2>1 DEF Receive, IInv, RegisteredWhileOpen, clientVars
  <2>4. Minus(received + n, n) = Minus(received, 0)
    BY <1>1, <2>2 DEF Minus
  <2>5. Settled' = Settled
    BY <2>3, <2>4, Derived
  <2> QED
    BY <2>3, <2>5 DEF NothingLostInv
<1>5. CASE ReplyAtOnce
  <2>1. pc = "input" /\ Reply(Sent(fresh)) /\ UNCHANGED m_queue
    BY <1>5 DEF ReplyAtOnce
  <2>2. Settled' = received /\ UNCHANGED leaked
    BY <2>1, ReplyEffect
  <2>3. dropped = {} /\ Sent(fresh) = fresh
    <3>1. CASE Sent(fresh) = fresh /\ UNCHANGED dropped
      BY <3>1
    <3>2. CASE peer = "gone" /\ dropped' = dropped \cup Fresh
      <4>1. Fresh = {} /\ dropped = {} /\ Sent(fresh) = 0
        BY <1>1, <3>2, SentBound DEF IInv
      <4>2. fresh = 0
        <5>1. Settled + 1 .. received = {}
          BY <4>1 DEF Fresh
        <5> QED
          BY <1>1, <5>1
      <4> QED
        BY <4>1, <4>2
    <3> QED
      BY <1>5, <3>1, <3>2 DEF ReplyAtOnce
  <2>4. echo' = Run(1, Settled) \o Run(Settled + 1, fresh)
    BY <2>1, <2>2, <2>3 DEF Reply, NothingLostInv
  <2>5. PICK m \in Nat : m = Settled
    BY <1>1
  <2>6. PICK n \in Nat : n = fresh
    BY <1>1
  <2>7. Run(1, m) \o Run(1 + m, n) = Run(1, m + n)
    <3>1. 1 \in Int
      OBVIOUS
    <3> QED
      BY <3>1, RunConcat, Zenon
  <2>8. 1 + m = Settled + 1 /\ m + n = received
    BY <1>1, <2>5, <2>6
  <2> QED
    BY <2>2, <2>4, <2>5, <2>6, <2>7, <2>8
<1>6. CASE ReplyLater
  BY <1>6, ReplyLaterLoses
<1>7. CASE OutputLast \/ OutputWhole \/ OutputPart
  BY <1>7, OutputLoses
<1>8. CASE StartOutput \/ Client \/ Finished \/ UNCHANGED vars
  <2>1. UNCHANGED <<echo, received, fresh, m_queue, dropped, leaked>>
    BY <1>8 DEF StartOutput, Client, ClientWrite, ClientRead, ClientHalfClose,
                ClientGone, Finished, vars, clientVars
  <2> QED
    BY <1>2, <2>1
<1> QED
  BY <1>3, <1>4, <1>5, <1>6, <1>7, <1>8 DEF Next, Service

LEMMA InitNothingLost == Init => NothingLostInv
  BY NothingSettled DEF NothingLostInv

(* What Client.cpp:54 of Client5-ace expects, as far as it goes: a handler *)
(* that has lost nothing has echoed everything it is done with, in order.  *)
THEOREM EchoUnlessLost == Spec => []NothingLostInv
<1>1. Init => NothingLostInv
  BY InitNothingLost
<1>2. IInv /\ NothingLostInv /\ [Next]_vars => NothingLostInv'
  BY NothingLostInductive
<1> QED
  BY <1>1, <1>2, Invariance, PTL DEF Spec
=============================================================================
