--------------------------- MODULE SequenceLemmas ---------------------------
(***************************************************************************)
(* Induction over the naturals for sets, and what the recursive operators  *)
(* on sequences that the models use compute, for every sequence.           *)
(***************************************************************************)
EXTENDS Integers, SequencesExt, SequenceTheorems, FiniteSetTheorems, WellFoundedInduction, TLAPS

(* Every set of naturals has a least member.                               *)
LEMMA LeastNatural ==
    ASSUME NEW T, T \subseteq Nat, T # {}
    PROVE  \E m \in T : \A k \in T : m <= k
<1> DEFINE Less == OpToRel(<, Nat)
<1>1. IsWellFoundedOn(Less, Nat)
  BY NatLessThanWellFounded
<1>2. \A x, y \in Nat : <<x, y>> \in Less <=> x < y
  BY DEF OpToRel
<1> HIDE DEF Less
<1>3. PICK m \in T : \A k \in T : ~(<<k, m>> \in Less)
  BY <1>1, WFMin
<1>4. \A k \in T : ~(k < m)
  BY <1>2, <1>3
<1>5. \A k \in T : m <= k
  BY <1>4
<1>6. QED
  BY <1>5

(* A set that has 0 and with each number the next has all of them.        *)
LEMMA NaturalInduction ==
    ASSUME NEW S, 0 \in S, \A n \in Nat : n \in S => n + 1 \in S
    PROVE  Nat \subseteq S
<1> DEFINE T == {n \in Nat : n \notin S}
<1>1. SUFFICES ASSUME T # {} PROVE FALSE
  OBVIOUS
<1>2. PICK m \in T : \A k \in T : m <= k
  BY <1>1, LeastNatural
<1>3. m # 0 /\ m - 1 \in Nat /\ m - 1 \notin T
  BY <1>2
<1>4. QED
  BY <1>2, <1>3

(* The greatest and the least member, where there is one.                  *)
LEMMA MaxIs ==
    ASSUME NEW S, S \subseteq Int, NEW m \in S, \A x \in S : x <= m
    PROVE  Max(S) = m
<1>1. \A x \in S : (\A y \in S : x >= y) => x = m
  OBVIOUS
<1>2. \A y \in S : m >= y
  OBVIOUS
<1>3. QED
  BY <1>1, <1>2 DEF Max

LEMMA MinIs ==
    ASSUME NEW S, S \subseteq Int, NEW m \in S, \A x \in S : m <= x
    PROVE  Min(S) = m
<1>1. \A x \in S : (\A y \in S : x <= y) => x = m
  OBVIOUS
<1>2. \A y \in S : m <= y
  OBVIOUS
<1>3. QED
  BY <1>1, <1>2 DEF Min

LEMMA LeastIsMin ==
    ASSUME NEW S, S \subseteq Nat, S # {}
    PROVE  Min(S) \in S /\ \A x \in S : Min(S) <= x
<1>1. PICK m \in S : \A x \in S : m <= x
  BY LeastNatural
<1>2. Min(S) = m
  <2>1. S \subseteq Int /\ m \in S
    BY <1>1
  <2>2. QED
    BY <1>1, <2>1, MinIs
<1>3. QED
  BY <1>1, <1>2

LEMMA GreatestIsMax ==
    ASSUME NEW S, S \subseteq Nat, S # {}, NEW n \in Nat, \A x \in S : x <= n
    PROVE  Max(S) \in S /\ \A x \in S : x <= Max(S)
<1> DEFINE T == {n - x : x \in S}
<1>1. T \subseteq Nat /\ T # {}
  <2>1. \A x \in S : n - x \in Nat
    OBVIOUS
  <2>2. QED
    BY <2>1
<1>2. PICK k \in T : \A y \in T : k <= y
  BY <1>1, LeastNatural
<1>3. PICK m \in S : k = n - m
  BY <1>2
<1>4. \A x \in S : n - m <= n - x
  BY <1>2, <1>3
<1>5. \A x \in S : x <= m
  BY <1>4
<1>6. Max(S) = m
  <2>1. S \subseteq Int /\ m \in S
    BY <1>3
  <2>2. QED
    BY <1>5, <2>1, MaxIs
<1>7. QED
  BY <1>5, <1>6

(* g[i] is the first i of n sequences s, joined.                           *)
Accumulates(g, s, n) ==
    /\ g[1] = s[1]
    /\ \A i \in 1..n : i # 1 => g[i] = g[i - 1] \o s[i]

(* FlattenSeq is what its recursion equation says.                         *)
LEMMA FlattenSeqIs ==
    ASSUME NEW s, NEW n \in Nat \ {0}, Len(s) = n, NEW g, Accumulates(g, s, n)
    PROVE  FlattenSeq(s) = g[n]
<1>1. g[1] = s[1] /\ \A i \in 1..n : i # 1 => g[i] = g[i - 1] \o s[i]
  BY DEF Accumulates
<1> DEFINE Solves(h) == h = [i \in 1..n |-> IF i = 1 THEN s[i] ELSE h[i - 1] \o s[i]]
           f == CHOOSE h : Solves(h)
           k == [i \in 1..n |-> g[i]]
<1>2. Solves(k)
  <2>1. \A i \in 1..n : i # 1 => k[i - 1] = g[i - 1]
    OBVIOUS
  <2>2. \A i \in 1..n : k[i] = IF i = 1 THEN s[i] ELSE k[i - 1] \o s[i]
    BY <1>1, <2>1, Zenon
  <2>3. k = [i \in 1..n |-> k[i]]
    OBVIOUS
  <2> HIDE DEF k
  <2>4. QED
    BY <2>2, <2>3, Zenon
<1>3. FlattenSeq(s) = f[n]
  BY DEF FlattenSeq
<1>4. Solves(f)
  BY <1>2, Zenon
<1>5. f = [i \in 1..n |-> IF i = 1 THEN s[i] ELSE f[i - 1] \o s[i]]
  BY <1>4
<1> HIDE DEF f, Solves
<1> DEFINE S == {i \in Nat : i \in 1..n => f[i] = g[i]}
<1>6. 0 \in S
  OBVIOUS
<1>7. ASSUME NEW i \in Nat, i \in S PROVE i + 1 \in S
  <2>1. CASE i + 1 \in 1..n /\ i = 0
    BY <1>1, <1>5, <2>1
  <2>2. CASE i + 1 \in 1..n /\ i # 0
    <3>1. i \in 1..n /\ f[i] = g[i] /\ (i + 1) - 1 = i /\ i + 1 # 1
      BY <1>7, <2>2
    <3>2. f[i + 1] = f[i] \o s[i + 1] /\ g[i + 1] = g[i] \o s[i + 1]
      BY <1>1, <1>5, <2>2, <3>1
    <3>3. f[i + 1] = g[i + 1]
      BY <3>1, <3>2, Zenon
    <3>4. QED
      BY <3>3
  <2>3. QED
    BY <2>1, <2>2
<1> HIDE DEF S
<1>8. n \in S
  BY <1>6, <1>7, NaturalInduction
<1>9. QED
  BY <1>3, <1>8 DEF S

(* The steps in which a sequence of sequences is joined.                   *)
LEMMA FlattenSeqSteps ==
    ASSUME NEW s, NEW n \in Nat \ {0}, Len(s) = n
    PROVE  \E g : g[n] = FlattenSeq(s) /\ Accumulates(g, s, n)
<1> DEFINE S == {k \in Nat : k \in 1..n => \E g : Accumulates(g, s, k)}
<1>1. \A k \in Nat : k \in S <=> (k \in 1..n => \E g : Accumulates(g, s, k))
  BY Zenon
<1> HIDE DEF S
<1>2. 0 \in S
  <2>1. 0 \in Nat /\ 0 \notin 1..n
    OBVIOUS
  <2>2. QED
    BY <2>1, <1>1, Zenon
<1>3. ASSUME NEW k \in Nat, k \in S PROVE k + 1 \in S
  <2>1. SUFFICES ASSUME k + 1 \in 1..n PROVE \E g : Accumulates(g, s, k + 1)
    <3>1. k + 1 \in Nat
      OBVIOUS
    <3>2. QED
      BY <3>1, <1>1, Zenon
  <2>2. CASE k = 0
    <3>1. PICK h : h = [i \in 1..1 |-> s[1]]
      OBVIOUS
    <3>2. Accumulates(h, s, 1) /\ k + 1 = 1
      BY <2>2, <3>1 DEF Accumulates
    <3>3. QED
      BY <3>2, Zenon
  <2>3. CASE k # 0
    <3>1. k \in 1..n /\ k + 1 # 1 /\ (k + 1) - 1 = k
      BY <2>1, <2>3
    <3>2. PICK g : Accumulates(g, s, k)
      BY <1>1, <1>3, <3>1, Zenon
    <3>3. PICK h : h = [i \in 1..(k + 1) |-> IF i = k + 1 THEN g[k] \o s[k + 1] ELSE g[i]]
      OBVIOUS
    <3>4. /\ h[k + 1] = g[k] \o s[k + 1]
          /\ \A i \in 1..k : h[i] = g[i]
      <4>1. k + 1 \in 1..(k + 1) /\ \A i \in 1..k : i \in 1..(k + 1) /\ i # k + 1
        OBVIOUS
      <4>2. QED
        BY <4>1, <3>3, Zenon
    <3>5. h[1] = s[1]
      BY <3>2, <3>4, <3>1 DEF Accumulates
    <3>6. ASSUME NEW i \in 1..(k + 1), i # 1 PROVE h[i] = h[i - 1] \o s[i]
      <4>1. i - 1 \in 1..k /\ h[i - 1] = g[i - 1]
        BY <3>1, <3>4, <3>6
      <4>2. CASE i = k + 1
        BY <3>1, <3>4, <4>1, <4>2
      <4>3. CASE i # k + 1
        <5>1. i \in 1..k /\ h[i] = g[i]
          BY <3>1, <3>4, <4>3
        <5>2. g[i] = g[i - 1] \o s[i]
          BY <3>2, <3>6, <5>1 DEF Accumulates
        <5>3. QED
          BY <4>1, <5>1, <5>2
      <4>4. QED
        BY <4>2, <4>3
    <3>7. Accumulates(h, s, k + 1)
      BY <3>5, <3>6 DEF Accumulates
    <3>8. QED
      BY <3>7, Zenon
  <2>4. QED
    BY <2>2, <2>3
<1>4. n \in S
  BY <1>2, <1>3, NaturalInduction
<1>5. PICK g : Accumulates(g, s, n)
  <2>1. n \in Nat /\ n \in 1..n
    OBVIOUS
  <2>2. QED
    BY <1>1, <1>4, <2>1, Zenon
<1>6. FlattenSeq(s) = g[n]
  BY <1>5, FlattenSeqIs
<1>7. QED
  BY <1>5, <1>6

(* What holds of the first sequence, and goes from what precedes a sequence *)
(* to what ends with it, holds of all of them joined.                      *)
LEMMA FlattenSeqInduction ==
    ASSUME NEW s, NEW n \in Nat \ {0}, Len(s) = n, NEW Q,
           s[1] \in Q[1],
           \A i \in 1..n : i # 1 => \A x \in Q[i - 1] : x \o s[i] \in Q[i]
    PROVE  FlattenSeq(s) \in Q[n]
<1>1. PICK g : /\ g[1] = s[1] /\ g[n] = FlattenSeq(s)
               /\ \A i \in 1..n : i # 1 => g[i] = g[i - 1] \o s[i]
  <2>1. PICK g : g[n] = FlattenSeq(s) /\ Accumulates(g, s, n)
    BY FlattenSeqSteps, Zenon
  <2>2. QED
    BY <2>1, Zenon DEF Accumulates
<1> DEFINE S == {k \in Nat : k \in 1..n => g[k] \in Q[k]}
<1>2. 0 \in S
  OBVIOUS
<1>3. ASSUME NEW k \in Nat, k \in S PROVE k + 1 \in S
  <2>1. CASE k = 0
    BY <1>1, <2>1
  <2>2. CASE k # 0 /\ k + 1 \in 1..n
    <3>1. k \in 1..n /\ g[k] \in Q[k] /\ k + 1 # 1 /\ (k + 1) - 1 = k
      BY <1>3, <2>2
    <3>2. g[k + 1] = g[k] \o s[k + 1]
      BY <1>1, <2>2, <3>1
    <3>3. g[k] \o s[k + 1] \in Q[k + 1]
      BY <2>2, <3>1
    <3>4. g[k + 1] \in Q[k + 1] /\ k + 1 \in Nat
      BY <3>2, <3>3
    <3>5. QED
      BY <3>4
  <2>3. QED
    BY <2>1, <2>2
<1> HIDE DEF S
<1>4. n \in S
  BY <1>2, <1>3, NaturalInduction
<1>5. QED
  BY <1>1, <1>4 DEF S

(* Joining one sequence more.                                              *)
LEMMA FlattenSeqAppend ==
    ASSUME NEW T, NEW q \in Seq(Seq(T)), NEW x \in Seq(T)
    PROVE  FlattenSeq(q) \in Seq(T) /\ FlattenSeq(Append(q, x)) = FlattenSeq(q) \o x
<1>1. PICK n \in Nat : n = Len(q)
  OBVIOUS
<1> DEFINE p == Append(q, x)
<1>2. /\ p \in Seq(Seq(T)) /\ Len(p) = n + 1 /\ n + 1 \in Nat \ {0}
      /\ p[n + 1] = x /\ \A i \in 1..n : p[i] = q[i]
  BY <1>1
<1> HIDE DEF p
<1>3. PICK g : /\ g[1] = p[1] /\ g[n + 1] = FlattenSeq(p)
               /\ \A i \in 1..(n + 1) : i # 1 => g[i] = g[i - 1] \o p[i]
  <2>1. PICK g : g[n + 1] = FlattenSeq(p) /\ Accumulates(g, p, n + 1)
    BY <1>2, FlattenSeqSteps, Zenon
  <2>2. QED
    BY <2>1, Zenon DEF Accumulates
<1>4. CASE n = 0
  <2>1. q = <<>> /\ FlattenSeq(p) = x
    <3>1. n + 1 = 1
      BY <1>4
    <3>2. FlattenSeq(p) = x
      BY <1>2, <1>3, <3>1, Zenon
    <3>3. q = <<>>
      BY <1>1, <1>4, EmptySeq
    <3>4. QED
      BY <3>2, <3>3
  <2>2. FlattenSeq(<<>>) = <<>>
    BY DEF FlattenSeq
  <2>3. <<>> \o x = x /\ <<>> \in Seq(T)
    OBVIOUS
  <2>4. FlattenSeq(p) = FlattenSeq(q) \o x /\ FlattenSeq(q) \in Seq(T)
    BY <2>1, <2>2, <2>3, Zenon
  <2>5. QED
    BY <2>4 DEF p
<1>5. CASE n # 0
  <2>1. n \in 1..n /\ n + 1 # 1 /\ (n + 1) - 1 = n /\ n + 1 \in 1..(n + 1)
    BY <1>5
  <2>2. g[n + 1] = g[n] \o p[n + 1]
    BY <1>3, <2>1
  <2>3. g[1] = q[1] /\ \A i \in 1..n : i # 1 => g[i] = g[i - 1] \o q[i]
    <3>1. 1 \in 1..n /\ \A i \in 1..n : i \in 1..(n + 1)
      BY <1>5
    <3>2. g[1] = q[1]
      BY <1>2, <1>3, <3>1
    <3>3. QED
      BY <1>2, <1>3, <3>1, <3>2
  <2>4. FlattenSeq(q) = g[n]
    <3>1. n \in Nat \ {0}
      BY <1>5
    <3>2. Len(q) = n
      BY <1>1
    <3>3. Accumulates(g, q, n)
      BY <2>3 DEF Accumulates
    <3>4. QED
      BY <3>1, <3>2, <3>3, FlattenSeqIs
  <2>5. PICK Q : Q = [i \in 1..n |-> Seq(T)]
    OBVIOUS
  <2>6. FlattenSeq(q) \in Q[n]
    <3>1. q[1] \in Q[1]
      BY <1>1, <1>5, <2>5
    <3>2. ASSUME NEW i \in 1..n, i # 1, NEW y \in Q[i - 1] PROVE y \o q[i] \in Q[i]
      <4>1. y \in Seq(T) /\ q[i] \in Seq(T)
        BY <1>1, <2>5, <3>2
      <4>2. y \o q[i] \in Seq(T)
        BY <4>1
      <4>3. QED
        BY <2>5, <4>2
    <3>3. QED
      BY <1>1, <1>5, <3>1, <3>2, FlattenSeqInduction
  <2>7. FlattenSeq(q) \in Seq(T)
    BY <2>1, <2>5, <2>6
  <2>8. FlattenSeq(p) = FlattenSeq(q) \o x
    BY <1>2, <1>3, <2>2, <2>4, Zenon
  <2>9. QED
    BY <2>7, <2>8 DEF p
<1>6. QED
  BY <1>4, <1>5

LEMMA FlattenSeqNext ==
    ASSUME NEW T, NEW p \in Seq(Seq(T)), NEW r \in Seq(Seq(T)), Len(r) = Len(p) + 1,
           \A i \in 1..Len(p) : r[i] = p[i]
    PROVE  /\ FlattenSeq(p) \in Seq(T) /\ r[Len(r)] \in Seq(T)
           /\ FlattenSeq(r) = FlattenSeq(p) \o r[Len(r)]
<1>1. PICK n \in Nat : n = Len(p)
  OBVIOUS
<1>2. PICK x \in Seq(T) : x = r[n + 1] /\ n + 1 = Len(r)
  <2>1. n + 1 \in 1..Len(r) /\ n + 1 = Len(r)
    BY <1>1
  <2>2. QED
    BY <2>1, ElementOfSeq
<1> DEFINE a == Append(p, x)
<1>3. a \in Seq(Seq(T)) /\ Len(a) = n + 1 /\ a[n + 1] = x /\ \A i \in 1..n : a[i] = p[i]
  BY <1>1
<1> HIDE DEF a
<1>4. \A i \in 1..(n + 1) : r[i] = a[i]
  <2>1. \A i \in 1..(n + 1) : i \in 1..n \/ i = n + 1
    OBVIOUS
  <2>2. QED
    BY <1>1, <1>2, <1>3, <2>1
<1>5. r = a
  BY <1>2, <1>3, <1>4, SeqEqual
<1>6. FlattenSeq(p) \in Seq(T) /\ FlattenSeq(a) = FlattenSeq(p) \o x
  BY FlattenSeqAppend DEF a
<1>7. QED
  BY <1>2, <1>5, <1>6

(* The first k of a sequence.                                              *)
LEMMA FirstPart ==
    ASSUME NEW T, NEW s \in Seq(T), NEW k \in 0..Len(s)
    PROVE  /\ SubSeq(s, 1, k) \in Seq(T) /\ Len(SubSeq(s, 1, k)) = k
           /\ \A i \in 1..k : SubSeq(s, 1, k)[i] = s[i]
           /\ k = Len(s) => SubSeq(s, 1, k) = s
<1> DEFINE p == SubSeq(s, 1, k)
<1>1. \A i \in 1..k : s[i] \in T
  BY ElementOfSeq
<1>2. k \in Nat
  OBVIOUS
<1>3. p \in Seq(T) /\ Len(p) = IF 1 <= k THEN k - 1 + 1 ELSE 0
  BY <1>1, <1>2, SubSeqProperties
<1>4. \A i \in 1..k : p[i] = s[i]
  BY <1>1, <1>2, SubSeqProperties
<1> HIDE DEF p
<1>5. Len(p) = k
  BY <1>2, <1>3
<1>6. k = Len(s) => p = s
  BY <1>3, <1>4, <1>5, SeqEqual
<1>7. QED
  BY <1>3, <1>4, <1>5, <1>6 DEF p

(* Empty sequences add nothing.                                            *)
LEMMA FlattenSeqStill ==
    ASSUME NEW T, NEW p \in Seq(Seq(T)), NEW r \in Seq(Seq(T)), Len(p) <= Len(r),
           \A i \in 1..Len(p) : r[i] = p[i],
           \A i \in (Len(p) + 1)..Len(r) : r[i] = <<>>
    PROVE  FlattenSeq(r) = FlattenSeq(p)
<1>1. PICK n \in Nat, m \in Nat : n = Len(p) /\ m = Len(r) /\ n <= m
  OBVIOUS
<1> DEFINE first(k) == SubSeq(r, 1, k)
           S == {d \in Nat : n + d <= m => FlattenSeq(first(n + d)) = FlattenSeq(p)}
<1>2. \A k \in 0..m : /\ first(k) \in Seq(Seq(T)) /\ Len(first(k)) = k
                      /\ \A i \in 1..k : first(k)[i] = r[i]
                      /\ k = m => first(k) = r
  BY <1>1, FirstPart
<1> HIDE DEF first
<1>3. FlattenSeq(p) \in Seq(T)
  <2>1. <<>> \in Seq(T)
    OBVIOUS
  <2>2. QED
    BY <2>1, FlattenSeqAppend
<1>4. 0 \in S
  <2>1. n \in 0..m /\ n + 0 = n
    BY <1>1
  <2>2. first(n) = p
    <3>1. \A i \in 1..n : first(n)[i] = p[i]
      BY <1>1, <1>2, <2>1
    <3>2. first(n) \in Seq(Seq(T)) /\ Len(first(n)) = Len(p)
      BY <1>1, <1>2, <2>1
    <3>3. QED
      BY <1>1, <3>1, <3>2, SeqEqual
  <2>3. QED
    BY <2>1, <2>2
<1>5. ASSUME NEW d \in Nat, d \in S PROVE d + 1 \in S
  <2> SUFFICES ASSUME n + (d + 1) <= m PROVE FlattenSeq(first(n + (d + 1))) = FlattenSeq(p)
    OBVIOUS
  <2>1. n + d \in 0..m /\ (n + d) + 1 \in 0..m /\ (n + d) + 1 = n + (d + 1)
    BY <1>1
  <2>2. PICK k \in 0..m : k = n + d /\ k + 1 \in 0..m /\ k + 1 = n + (d + 1)
    BY <2>1, Zenon
  <2>3. FlattenSeq(first(k)) = FlattenSeq(p)
    BY <1>1, <1>5, <2>2
  <2>4. /\ first(k) \in Seq(Seq(T)) /\ first(k + 1) \in Seq(Seq(T))
        /\ Len(first(k + 1)) = Len(first(k)) + 1
    BY <1>2, <2>2
  <2>5. \A i \in 1..Len(first(k)) : first(k + 1)[i] = first(k)[i]
    <3>1. \A i \in 1..k : i \in 1..(k + 1)
      BY <2>2
    <3>2. QED
      BY <1>2, <2>2, <3>1
  <2>6. first(k + 1)[k + 1] = <<>>
    <3>1. k + 1 \in 1..(k + 1) /\ k + 1 \in (Len(p) + 1)..Len(r)
      BY <1>1, <2>2
    <3>2. QED
      BY <1>2, <2>2, <3>1
  <2>7. FlattenSeq(first(k + 1)) = FlattenSeq(first(k)) \o first(k + 1)[Len(first(k + 1))]
    BY <2>4, <2>5, FlattenSeqNext
  <2>8. Len(first(k + 1)) = k + 1
    BY <1>2, <2>2
  <2>9. FlattenSeq(first(k + 1)) = FlattenSeq(p) \o <<>>
    BY <2>3, <2>6, <2>7, <2>8, Zenon
  <2>10. FlattenSeq(p) \o <<>> = FlattenSeq(p)
    BY <1>3
  <2>11. QED
    BY <2>2, <2>9, <2>10
<1> HIDE DEF S
<1>6. m - n \in S /\ m - n \in Nat /\ n + (m - n) = m
  <2>1. m - n \in Nat /\ n + (m - n) = m
    BY <1>1
  <2>2. QED
    BY <1>4, <1>5, <2>1, NaturalInduction
<1>7. FlattenSeq(first(m)) = FlattenSeq(p)
  BY <1>6 DEF S
<1>8. first(m) = r
  BY <1>1, <1>2
<1>9. QED
  BY <1>7, <1>8

(* One sequence of sequences after the other.                              *)
LEMMA FlattenSeqConcat ==
    ASSUME NEW T, NEW p \in Seq(Seq(T)), NEW q \in Seq(Seq(T))
    PROVE  FlattenSeq(p \o q) = FlattenSeq(p) \o FlattenSeq(q)
<1>1. PICK n \in Nat, m \in Nat : n = Len(p) /\ m = Len(q)
  OBVIOUS
<1>2. PICK r : /\ r = p \o q /\ r \in Seq(Seq(T)) /\ Len(r) = n + m
               /\ \A i \in 1..n : r[i] = p[i]
               /\ \A i \in 1..m : r[n + i] = q[i]
  <2>1. p \o q \in Seq(Seq(T)) /\ Len(p \o q) = n + m
    BY <1>1
  <2>2. \A i \in 1..n : (p \o q)[i] = p[i]
    BY <1>1
  <2>3. \A i \in 1..m : (p \o q)[n + i] = q[i]
    BY <1>1
  <2>4. QED
    BY <2>1, <2>2, <2>3
<1> DEFINE first(k) == SubSeq(r, 1, k)
           begin(d) == SubSeq(q, 1, d)
           S == {d \in Nat : d <= m => FlattenSeq(first(n + d)) = FlattenSeq(p) \o FlattenSeq(begin(d))}
<1>3. \A k \in 0..(n + m) : /\ first(k) \in Seq(Seq(T)) /\ Len(first(k)) = k
                            /\ \A i \in 1..k : first(k)[i] = r[i]
                            /\ k = n + m => first(k) = r
  BY <1>2, FirstPart
<1>4. \A d \in 0..m : /\ begin(d) \in Seq(Seq(T)) /\ Len(begin(d)) = d
                      /\ \A i \in 1..d : begin(d)[i] = q[i]
                      /\ d = m => begin(d) = q
  BY <1>1, FirstPart
<1> HIDE DEF first, begin
<1>5. FlattenSeq(p) \in Seq(T) /\ \A d \in 0..m : FlattenSeq(begin(d)) \in Seq(T)
  <2>1. <<>> \in Seq(T)
    OBVIOUS
  <2>2. QED
    BY <1>4, <2>1, FlattenSeqAppend
<1>6. 0 \in S
  <2>1. n \in 0..(n + m) /\ n + 0 = n /\ 0 \in 0..m
    BY <1>1
  <2>2. first(n) = p
    <3>1. \A i \in 1..n : first(n)[i] = p[i]
      BY <1>2, <1>3, <2>1
    <3>2. first(n) \in Seq(Seq(T)) /\ Len(first(n)) = Len(p)
      BY <1>1, <1>3, <2>1
    <3>3. QED
      BY <1>1, <3>1, <3>2, SeqEqual
  <2>3. begin(0) = <<>>
    BY <1>4, <2>1, EmptySeq
  <2>4. FlattenSeq(<<>>) = <<>>
    BY DEF FlattenSeq
  <2>5. FlattenSeq(p) \o <<>> = FlattenSeq(p)
    BY <1>5
  <2>6. QED
    BY <2>1, <2>2, <2>3, <2>4, <2>5
<1>7. ASSUME NEW d \in Nat, d \in S PROVE d + 1 \in S
  <2> SUFFICES ASSUME d + 1 <= m
               PROVE  FlattenSeq(first(n + (d + 1))) = FlattenSeq(p) \o FlattenSeq(begin(d + 1))
    OBVIOUS
  <2>1. /\ n + d \in 0..(n + m) /\ (n + d) + 1 \in 0..(n + m) /\ (n + d) + 1 = n + (d + 1)
        /\ d \in 0..m /\ d + 1 \in 0..m
    BY <1>1
  <2>2. PICK k \in 0..(n + m) : /\ k = n + d /\ k + 1 \in 0..(n + m) /\ k + 1 = n + (d + 1)
                               /\ d \in 0..m /\ d + 1 \in 0..m
    BY <2>1, Zenon
  <2>3. FlattenSeq(first(k)) = FlattenSeq(p) \o FlattenSeq(begin(d))
    BY <1>1, <1>7, <2>2
  <2>4. FlattenSeq(first(k + 1)) = FlattenSeq(first(k)) \o q[d + 1]
    <3>1. /\ first(k) \in Seq(Seq(T)) /\ first(k + 1) \in Seq(Seq(T))
          /\ Len(first(k)) = k /\ Len(first(k + 1)) = k + 1
      BY <1>3, <2>2
    <3>2. \A i \in 1..k : first(k + 1)[i] = first(k)[i]
      <4>1. \A i \in 1..k : i \in 1..(k + 1)
        BY <2>2
      <4>2. QED
        BY <1>3, <2>2, <4>1
    <3>3. first(k + 1)[k + 1] = q[d + 1]
      <4>1. k + 1 \in 1..(k + 1) /\ d + 1 \in 1..m
        BY <2>2
      <4>2. QED
        BY <1>2, <1>3, <2>2, <4>1
    <3>4. FlattenSeq(first(k + 1)) = FlattenSeq(first(k)) \o first(k + 1)[Len(first(k + 1))]
      BY <3>1, <3>2, FlattenSeqNext
    <3>5. QED
      BY <3>1, <3>3, <3>4
  <2>5. FlattenSeq(begin(d + 1)) = FlattenSeq(begin(d)) \o q[d + 1] /\ q[d + 1] \in Seq(T)
    <3>1. /\ begin(d) \in Seq(Seq(T)) /\ begin(d + 1) \in Seq(Seq(T))
          /\ Len(begin(d)) = d /\ Len(begin(d + 1)) = d + 1
      BY <1>4, <2>2
    <3>2. \A i \in 1..d : begin(d + 1)[i] = begin(d)[i]
      <4>1. \A i \in 1..d : i \in 1..(d + 1)
        BY <2>2
      <4>2. QED
        BY <1>4, <2>2, <4>1
    <3>3. begin(d + 1)[d + 1] = q[d + 1]
      <4>1. d + 1 \in 1..(d + 1)
        BY <2>2
      <4>2. QED
        BY <1>4, <2>2, <4>1
    <3>4. /\ FlattenSeq(begin(d + 1)) = FlattenSeq(begin(d)) \o begin(d + 1)[Len(begin(d + 1))]
          /\ begin(d + 1)[Len(begin(d + 1))] \in Seq(T)
      BY <3>1, <3>2, FlattenSeqNext
    <3>5. QED
      BY <3>1, <3>3, <3>4
  <2>6. /\ FlattenSeq(p) \in Seq(T) /\ FlattenSeq(begin(d)) \in Seq(T)
    BY <1>5, <2>2
  <2>7. (FlattenSeq(p) \o FlattenSeq(begin(d))) \o q[d + 1]
           = FlattenSeq(p) \o (FlattenSeq(begin(d)) \o q[d + 1])
    <3>1. \A x, y, z \in Seq(T) : (x \o y) \o z = x \o (y \o z)
      BY ConcatAssociative
    <3>2. QED
      BY <2>5, <2>6, <3>1, Zenon
  <2>8. QED
    BY <2>2, <2>3, <2>4, <2>5, <2>7
<1> HIDE DEF S
<1>8. m \in S
  BY <1>6, <1>7, NaturalInduction
<1>9. FlattenSeq(first(n + m)) = FlattenSeq(p) \o FlattenSeq(begin(m))
  BY <1>8 DEF S
<1>10. first(n + m) = r /\ begin(m) = q
  BY <1>3, <1>4
<1>11. QED
  BY <1>2, <1>9, <1>10

(* An order of a finite set has each member at exactly one place.          *)
LEMMA Orders ==
    ASSUME NEW S, IsFiniteSet(S), NEW s \in SetToSeqs(S)
    PROVE  /\ s \in Seq(S) /\ Len(s) = Cardinality(S) /\ Len(s) \in Nat
           /\ \A i, j \in 1..Len(s) : s[i] = s[j] => i = j
           /\ \A x \in S : \E i \in 1..Len(s) : s[i] = x
<1>1. PICK n \in Nat : n = Cardinality(S)
  BY FS_CardinalityType
<1>2. s \in [1..n -> S] /\ \A i, j \in 1..n : i # j => s[i] # s[j]
  BY <1>1 DEF SetToSeqs
<1>3. s \in Seq(S) /\ Len(s) = n
  BY <1>2
<1>4. s \in Injection(1..n, S)
  BY <1>2 DEF Injection, IsInjective
<1>5. Cardinality(1..n) = n
  BY FS_Interval
<1>6. s \in Surjection(1..n, S)
  BY <1>1, <1>4, <1>5, FS_Injection
<1>7. \A x \in S : \E i \in 1..n : s[i] = x
  BY <1>6 DEF Surjection
<1>8. QED
  BY <1>1, <1>2, <1>3, <1>7

=============================================================================
