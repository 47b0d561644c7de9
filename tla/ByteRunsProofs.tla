--------------------------- MODULE ByteRunsProofs ---------------------------
(***************************************************************************)
(* Lemmas about runs of bytes and sequences that grow by them.             *)
(***************************************************************************)
EXTENDS ByteRuns, SequenceTheorems, TLAPS

(* Run(lo, n) is the n consecutive bytes from lo on. *)
LEMMA RunProperties ==
    ASSUME NEW lo \in Int, NEW n \in Nat
    PROVE  /\ Run(lo, n) \in Seq(lo .. lo + n - 1)
           /\ Len(Run(lo, n)) = n
           /\ DOMAIN Run(lo, n) = 1..n
           /\ \A i \in 1..n : Run(lo, n)[i] = lo + i - 1
           /\ Range(Run(lo, n)) = lo .. lo + n - 1
<1> DEFINE S == lo .. lo + n - 1
<1>1. Run(lo, n) \in [1..n -> S]
  BY DEF Run
<1>2. Run(lo, n) \in Seq(S)
  BY <1>1
<1>3. Len(Run(lo, n)) = n
  BY <1>1, <1>2
<1>4. DOMAIN Run(lo, n) = 1..n /\ \A i \in 1..n : Run(lo, n)[i] = lo + i - 1
  BY DEF Run
<1>5. S \subseteq Range(Run(lo, n))
  <2> SUFFICES ASSUME NEW b \in S
               PROVE  b \in Range(Run(lo, n))
    OBVIOUS
  <2>1. b - lo + 1 \in 1..n /\ Run(lo, n)[b - lo + 1] = b
    BY <1>4
  <2> QED
    BY <1>4, <2>1 DEF Range
<1>6. Range(Run(lo, n)) \subseteq S
  BY <1>1, <1>4 DEF Range
<1> QED
  BY <1>2, <1>3, <1>4, <1>5, <1>6

(* Two duplicate-free sequences without a common element concatenate to a  *)
(* duplicate-free one.                                                     *)
LEMMA InjectiveConcat ==
    ASSUME NEW S, NEW s \in Seq(S), NEW t \in Seq(S),
           IsInjective(s), IsInjective(t), Range(s) \cap Range(t) = {}
    PROVE  IsInjective(s \o t)
<1> DEFINE u == s \o t
<1>1. /\ u \in Seq(S) /\ Len(u) = Len(s) + Len(t)
      /\ \A i \in 1 .. Len(s) + Len(t) :
            u[i] = IF i <= Len(s) THEN s[i] ELSE t[i - Len(s)]
  BY ConcatProperties
<1>2. /\ DOMAIN s = 1 .. Len(s) /\ Len(s) \in Nat
      /\ DOMAIN t = 1 .. Len(t) /\ Len(t) \in Nat
  BY LenProperties
<1>3. DOMAIN u = 1 .. Len(s) + Len(t)
  BY <1>1, LenProperties
<1>4. \A i \in 1 .. Len(s), j \in 1 .. Len(t) : s[i] # t[j]
  BY <1>2 DEF Range
<1> HIDE DEF u
<1>5. SUFFICES ASSUME NEW a \in 1 .. Len(s) + Len(t),
                      NEW b \in 1 .. Len(s) + Len(t),
                      u[a] = u[b]
               PROVE  a = b
  BY <1>3 DEF IsInjective, u
<1>6. CASE a <= Len(s) /\ b <= Len(s)
  <2>1. a \in DOMAIN s /\ b \in DOMAIN s /\ s[a] = s[b]
    BY <1>1, <1>2, <1>5, <1>6
  <2> QED
    BY <2>1 DEF IsInjective
<1>7. CASE a > Len(s) /\ b > Len(s)
  <2>1. a - Len(s) \in DOMAIN t /\ b - Len(s) \in DOMAIN t
        /\ t[a - Len(s)] = t[b - Len(s)]
    BY <1>1, <1>2, <1>5, <1>7
  <2>2. a - Len(s) = b - Len(s)
    BY <2>1 DEF IsInjective
  <2> QED
    BY <1>2, <2>2
<1>8. CASE a <= Len(s) /\ b > Len(s)
  <2>1. u[a] = s[a] /\ u[b] = t[b - Len(s)]
    BY <1>1, <1>2, <1>5, <1>8
  <2>2. a \in 1 .. Len(s) /\ b - Len(s) \in 1 .. Len(t)
    BY <1>2, <1>5, <1>8
  <2> QED
    BY <1>4, <1>5, <2>1, <2>2
<1>9. CASE a > Len(s) /\ b <= Len(s)
  <2>1. u[b] = s[b] /\ u[a] = t[a - Len(s)]
    BY <1>1, <1>2, <1>5, <1>9
  <2>2. b \in 1 .. Len(s) /\ a - Len(s) \in 1 .. Len(t)
    BY <1>2, <1>5, <1>9
  <2> QED
    BY <1>4, <1>5, <2>1, <2>2
<1> QED
  BY <1>2, <1>6, <1>7, <1>8, <1>9

(* Sending a run of bytes that were not sent before keeps the echo free of *)
(* duplicates.                                                             *)
LEMMA EchoGrows ==
    ASSUME NEW r \in Nat, NEW s \in Seq(1..r), NEW lo \in Nat \ {0},
           NEW n \in Nat, lo + n - 1 <= r,
           IsInjective(s), Range(s) \cap (lo .. lo + n - 1) = {}
    PROVE  /\ s \o Run(lo, n) \in Seq(1..r)
           /\ Len(s \o Run(lo, n)) = Len(s) + n
           /\ Range(s \o Run(lo, n)) = Range(s) \cup (lo .. lo + n - 1)
           /\ IsInjective(s \o Run(lo, n))
<1>1. lo \in Int
  OBVIOUS
<1>2. PICK t : t = Run(lo, n)
  OBVIOUS
<1>3. /\ t \in Seq(lo .. lo + n - 1) /\ Len(t) = n /\ DOMAIN t = 1..n
      /\ \A i \in 1..n : t[i] = lo + i - 1
      /\ Range(t) = lo .. lo + n - 1
  BY <1>1, <1>2, RunProperties
<1>4. lo .. lo + n - 1 \subseteq 1..r
  OBVIOUS
<1>5. t \in Seq(1..r)
  BY <1>3, <1>4, SeqMonotonic
<1>6. IsInjective(t)
  BY <1>3 DEF IsInjective
<1>7. s \o t \in Seq(1..r) /\ Len(s \o t) = Len(s) + Len(t)
  BY <1>5, ConcatProperties
<1>8. Range(s \o t) = Range(s) \cup Range(t)
  BY <1>5, RangeConcatenation
<1>9. IsInjective(s \o t)
  BY <1>3, <1>5, <1>6, InjectiveConcat
<1> QED
  BY <1>2, <1>3, <1>7, <1>8, <1>9

(* Adjacent runs concatenate to one run.                                   *)
LEMMA RunConcat ==
    ASSUME NEW lo \in Int, NEW m \in Nat, NEW n \in Nat
    PROVE  Run(lo, m) \o Run(lo + m, n) = Run(lo, m + n)
<1>1. PICK s : s = Run(lo, m)
  OBVIOUS
<1>2. PICK t : t = Run(lo + m, n)
  OBVIOUS
<1>3. PICK u : u = Run(lo, m + n)
  OBVIOUS
<1>4. /\ s \in Seq(Int) /\ Len(s) = m /\ \A i \in 1..m : s[i] = lo + i - 1
  <2>1. s \in Seq(lo .. lo + m - 1) /\ lo .. lo + m - 1 \subseteq Int
    BY <1>1, RunProperties
  <2> QED
    BY <1>1, <2>1, SeqMonotonic, RunProperties
<1>5. /\ t \in Seq(Int) /\ Len(t) = n /\ \A i \in 1..n : t[i] = lo + m + i - 1
  <2>1. lo + m \in Int /\ lo + m .. lo + m + n - 1 \subseteq Int
    OBVIOUS
  <2>2. t \in Seq(lo + m .. lo + m + n - 1)
    BY <1>2, <2>1, RunProperties
  <2> QED
    BY <1>2, <2>1, <2>2, SeqMonotonic, RunProperties
<1>6. /\ u \in Seq(Int) /\ Len(u) = m + n
      /\ \A i \in 1 .. m + n : u[i] = lo + i - 1
  <2>1. m + n \in Nat /\ lo .. lo + (m + n) - 1 \subseteq Int
    OBVIOUS
  <2>2. u \in Seq(lo .. lo + (m + n) - 1)
    BY <1>3, <2>1, RunProperties
  <2> QED
    BY <1>3, <2>1, <2>2, SeqMonotonic, RunProperties
<1>7. /\ s \o t \in Seq(Int) /\ Len(s \o t) = m + n
      /\ \A i \in 1 .. m + n :
            (s \o t)[i] = IF i <= m THEN s[i] ELSE t[i - m]
  BY <1>4, <1>5, ConcatProperties
<1>8. \A i \in 1 .. m + n : (s \o t)[i] = u[i]
  <2> SUFFICES ASSUME NEW i \in 1 .. m + n
               PROVE  (s \o t)[i] = u[i]
    OBVIOUS
  <2>1. CASE i <= m
    BY <1>4, <1>6, <1>7, <2>1
  <2>2. CASE i > m
    <3>1. i - m \in 1..n /\ lo + m + (i - m) - 1 = lo + i - 1 /\ ~ (i <= m)
      BY <2>2
    <3>2. t[i - m] = lo + i - 1
      BY <1>5, <3>1
    <3>3. (s \o t)[i] = t[i - m]
      BY <1>7, <3>1
    <3> QED
      BY <1>6, <3>2, <3>3
  <2>3. i <= m \/ i > m
    OBVIOUS
  <2> QED
    BY <2>1, <2>2, <2>3, Zenon
<1>9. s \o t = u
  BY <1>6, <1>7, <1>8, SeqEqual
<1> QED
  BY <1>1, <1>2, <1>3, <1>9
=============================================================================
