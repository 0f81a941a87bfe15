----------------------------- MODULE SseProofs -----------------------------
(***************************************************************************)
(* Proofs about the decoder of Sse: for every body and every way to cut it *)
(* between characters and line ends, the frames it yields are those of the *)
(* bytes that have arrived.                                                *)
(***************************************************************************)
EXTENDS Sse, SequenceLemmas, TLAPS

(* What a text is made of.                                                 *)
Letter == (UNION {Range(b) : b \in Body}) \cup {LF, Char, Replacement}

Text == Seq(Letter)

LEMMA Symbols ==
    /\ CR # LF /\ Byte1 # Byte2
    /\ CR \notin {Byte1, Byte2, Char, Replacement} /\ LF \notin {Byte1, Byte2, Char, Replacement}
    /\ DataField # EventField /\ DataField # IdField /\ EventField # IdField
<1> DEFINE all == <<CR, LF, DataField, EventField, IdField, Colon, Byte1, Byte2, Char, Replacement, Nul>>
<1>1. \A i, j \in 1..11 : all[i] = all[j] => i = j
  BY SseAssumption DEF IsInjective
<1>2. /\ all[1] = CR /\ all[2] = LF /\ all[3] = DataField /\ all[4] = EventField /\ all[5] = IdField
      /\ all[7] = Byte1 /\ all[8] = Byte2 /\ all[9] = Char /\ all[10] = Replacement
  OBVIOUS
<1> HIDE DEF all
<1>3. QED
  BY <1>1, <1>2

LEMMA BodyText == ASSUME NEW s \in Body PROVE s \in Text
<1>1. CASE s = <<>>
  BY <1>1 DEF Text
<1>2. CASE s \in Seq(Range(s))
  <2>1. Range(s) \subseteq Letter
    BY DEF Letter
  <2>2. QED
    BY <1>2, <2>1, SeqMonotonic DEF Text
<1>3. QED
  BY <1>1, <1>2, SseAssumption

-----------------------------------------------------------------------------
(* Decoding bytes as text. *)

LEMMA TextAtType ==
    ASSUME NEW s \in Text, NEW i \in DOMAIN s
    PROVE  TextAt(s, i) \in Text /\ Len(TextAt(s, i)) <= 1
<1>1. s[i] \in Letter /\ Char \in Letter /\ Replacement \in Letter
  <2>1. s[i] \in Letter
    BY DEF Text
  <2>2. Char \in Letter /\ Replacement \in Letter
    BY DEF Letter
  <2>3. QED
    BY <2>1, <2>2
<1>2. TextAt(s, i) \in {<<>>, <<Char>>, <<Replacement>>, <<s[i]>>}
  BY DEF TextAt
<1>3. \A c \in Letter : <<c>> \in Seq(Letter) /\ Len(<<c>>) = 1
  OBVIOUS
<1>4. <<>> \in Seq(Letter) /\ Len(<<>>) = 0
  OBVIOUS
<1>5. /\ <<>> \in Seq(Letter) /\ Len(<<>>) <= 1
      /\ <<Char>> \in Seq(Letter) /\ Len(<<Char>>) <= 1
      /\ <<Replacement>> \in Seq(Letter) /\ Len(<<Replacement>>) <= 1
      /\ <<s[i]>> \in Seq(Letter) /\ Len(<<s[i]>>) <= 1
  BY <1>1, <1>3, <1>4
<1>6. QED
  BY <1>2, <1>5, Zenon DEF Text

(* The pieces of text, one for each byte.                                  *)
LEMMA PiecesType ==
    ASSUME NEW s \in Text
    PROVE  LET q == [i \in DOMAIN s |-> TextAt(s, i)]
           IN  q \in Seq(Text) /\ Len(q) = Len(s) /\ \A i \in 1..Len(s) : q[i] = TextAt(s, i)
<1>1. PICK n \in Nat : n = Len(s) /\ DOMAIN s = 1..n
  BY DEF Text
<1>2. \A i \in 1..n : TextAt(s, i) \in Text
  BY <1>1, TextAtType
<1>3. [i \in 1..n |-> TextAt(s, i)] \in [1..n -> Text]
  BY <1>2
<1>4. /\ [i \in 1..n |-> TextAt(s, i)] \in Seq(Text)
      /\ Len([i \in 1..n |-> TextAt(s, i)]) = n
      /\ \A i \in 1..n : [i_1 \in 1..n |-> TextAt(s, i_1)][i] = TextAt(s, i)
  BY <1>3
<1>5. QED
  BY <1>1, <1>4

(* Text is not longer than its bytes.                                      *)
LEMMA LossyType ==
    ASSUME NEW s \in Text
    PROVE  /\ LossyUtf8(s) \in Text
           /\ Len(LossyUtf8(s)) \in Nat /\ Len(s) \in Nat /\ Len(LossyUtf8(s)) <= Len(s)
<1> DEFINE q == [i \in DOMAIN s |-> TextAt(s, i)]
<1>1. q \in Seq(Text) /\ Len(q) = Len(s) /\ \A i \in 1..Len(s) : q[i] = TextAt(s, i)
  BY PiecesType
<1>2. PICK n \in Nat : n = Len(s) /\ DOMAIN s = 1..n
  BY DEF Text
<1>3. \A i \in 1..n : q[i] \in Text /\ Len(q[i]) <= 1
  BY <1>1, <1>2, TextAtType
<1>4. LossyUtf8(s) = FlattenSeq(q)
  BY DEF LossyUtf8
<1> HIDE DEF q
<1>5. CASE n = 0
  <2>1. q = <<>>
    BY <1>1, <1>2, <1>5, EmptySeq
  <2>2. FlattenSeq(<<>>) = <<>>
    BY DEF FlattenSeq
  <2>3. LossyUtf8(s) = <<>> /\ Len(<<>>) = 0 /\ <<>> \in Text
    BY <1>4, <2>1, <2>2 DEF Text
  <2>4. QED
    BY <1>2, <1>5, <2>3
<1>6. CASE n # 0
  <2>1. PICK Q : Q = [i \in 1..n |-> {x \in Text : Len(x) <= i}]
    OBVIOUS
  <2>2. q[1] \in Q[1]
    BY <1>3, <1>6, <2>1
  <2>3. ASSUME NEW i \in 1..n, i # 1, NEW x \in Q[i - 1] PROVE x \o q[i] \in Q[i]
    <3>1. x \in Text /\ Len(x) <= i - 1 /\ q[i] \in Text /\ Len(q[i]) <= 1
      BY <1>3, <2>1, <2>3
    <3>2. x \o q[i] \in Text /\ Len(x \o q[i]) = Len(x) + Len(q[i])
      BY <3>1 DEF Text
    <3>3. Len(x) \in Nat /\ Len(q[i]) \in Nat
      BY <3>1 DEF Text
    <3>4. Len(x \o q[i]) <= i
      BY <3>1, <3>2, <3>3
    <3>5. QED
      BY <2>1, <3>2, <3>4
  <2>4. FlattenSeq(q) \in Q[n]
    BY <1>1, <1>2, <1>6, <2>2, <2>3, FlattenSeqInduction
  <2>5. FlattenSeq(q) \in Text /\ Len(FlattenSeq(q)) <= n
    BY <1>6, <2>1, <2>4
  <2>6. QED
    BY <1>2, <1>4, <2>5 DEF Text
<1>7. QED
  BY <1>5, <1>6

(* Bytes cut where no character is are decoded piece by piece.             *)
LEMMA LossyConcat ==
    ASSUME NEW u \in Text, NEW v \in Text,
           u # <<>> /\ v # <<>> => ~(u[Len(u)] = Byte1 /\ v[1] = Byte2)
    PROVE  LossyUtf8(u \o v) = LossyUtf8(u) \o LossyUtf8(v)
<1> DEFINE w == u \o v
           p == [i \in DOMAIN u |-> TextAt(u, i)]
           q == [i \in DOMAIN v |-> TextAt(v, i)]
           r == [i \in DOMAIN w |-> TextAt(w, i)]
<1>1. PICK n \in Nat, m \in Nat : n = Len(u) /\ m = Len(v)
  BY DEF Text
<1>2. /\ w \in Text /\ Len(w) = n + m
      /\ \A i \in 1..n : w[i] = u[i]
      /\ \A i \in 1..m : w[n + i] = v[i]
  <2>1. w \in Text /\ Len(w) = n + m
    BY <1>1 DEF Text
  <2>2. \A i \in 1..n : w[i] = u[i]
    BY <1>1 DEF Text
  <2>3. \A i \in 1..m : w[n + i] = v[i]
    BY <1>1 DEF Text
  <2>4. QED
    BY <2>1, <2>2, <2>3
<1>3. /\ p \in Seq(Text) /\ Len(p) = n /\ \A i \in 1..n : p[i] = TextAt(u, i)
      /\ q \in Seq(Text) /\ Len(q) = m /\ \A i \in 1..m : q[i] = TextAt(v, i)
  BY <1>1, PiecesType
<1>4. r \in Seq(Text) /\ Len(r) = n + m /\ \A i \in 1..(n + m) : r[i] = TextAt(w, i)
  BY <1>2, PiecesType
<1>5. FlattenSeq(p) = LossyUtf8(u) /\ FlattenSeq(q) = LossyUtf8(v) /\ FlattenSeq(r) = LossyUtf8(w)
  BY DEF LossyUtf8
<1> HIDE DEF p, q, r, w
<1>6. n > 0 /\ m > 0 => ~(u[n] = Byte1 /\ v[1] = Byte2)
  BY <1>1
<1>7. \A i \in 0..n : WholeAt(w, i) <=> WholeAt(u, i)
  <2>1. ASSUME NEW i \in 0..n PROVE WholeAt(w, i) <=> WholeAt(u, i)
    <3>1. CASE i \in 1..(n - 1)
      <4>1. i \in 1..n /\ i + 1 \in 1..n /\ i \in 1..(n + m - 1)
        BY <1>1, <3>1
      <4>2. QED
        BY <1>1, <1>2, <3>1, <4>1 DEF WholeAt
    <3>2. CASE i = n /\ n > 0 /\ m > 0
      <4>1. w[n] = u[n] /\ w[n + 1] = v[1]
        BY <1>1, <1>2, <3>2
      <4>2. QED
        BY <1>1, <1>6, <3>2, <4>1 DEF WholeAt
    <3>3. CASE i = 0 \/ (i = n /\ m = 0)
      BY <1>1, <1>2, <3>3 DEF WholeAt
    <3>4. QED
      BY <1>1, <3>1, <3>2, <3>3
  <2>2. QED
    BY <2>1
<1>8. \A i \in 1..n : TextAt(w, i) = TextAt(u, i)
  <2>1. \A i \in 1..n : i \in 0..n /\ i - 1 \in 0..n
    OBVIOUS
  <2>2. QED
    BY <1>2, <1>7, <2>1 DEF TextAt
<1>9. \A i \in 0..m : WholeAt(w, n + i) <=> WholeAt(v, i)
  <2>1. ASSUME NEW i \in 0..m PROVE WholeAt(w, n + i) <=> WholeAt(v, i)
    <3>1. CASE i \in 1..(m - 1)
      <4>1. i \in 1..m /\ i + 1 \in 1..m /\ n + i \in 1..(n + m - 1) /\ (n + i) + 1 = n + (i + 1)
        BY <1>1, <3>1
      <4>2. w[n + i] = v[i] /\ w[(n + i) + 1] = v[i + 1]
        BY <1>2, <4>1
      <4>3. QED
        BY <1>1, <1>2, <3>1, <4>1, <4>2 DEF WholeAt
    <3>2. CASE i = 0
      <4>1. ~WholeAt(v, 0)
        BY <1>1 DEF WholeAt
      <4>2. WholeAt(w, n) <=> WholeAt(u, n)
        BY <1>7
      <4>3. ~WholeAt(u, n)
        BY <1>1 DEF WholeAt
      <4>4. QED
        BY <3>2, <4>1, <4>2, <4>3
    <3>3. CASE i = m
      BY <1>1, <1>2, <3>3 DEF WholeAt
    <3>4. QED
      BY <1>1, <3>1, <3>2, <3>3
  <2>2. QED
    BY <2>1
<1>10. \A i \in 1..m : TextAt(w, n + i) = TextAt(v, i)
  <2>1. \A i \in 1..m : i \in 0..m /\ i - 1 \in 0..m /\ (n + i) - 1 = n + (i - 1)
    OBVIOUS
  <2>2. QED
    BY <1>2, <1>9, <2>1 DEF TextAt
<1>11. r = p \o q
  <2>1. p \o q \in Seq(Text) /\ Len(p \o q) = n + m
    BY <1>3
  <2>2. \A i \in 1..(n + m) : r[i] = (p \o q)[i]
    <3>1. ASSUME NEW i \in 1..n PROVE r[i] = (p \o q)[i]
      BY <1>3, <1>4, <1>8
    <3>2. ASSUME NEW i \in 1..m PROVE r[n + i] = (p \o q)[n + i]
      <4>1. (p \o q)[n + i] = q[i]
        BY <1>3
      <4>2. n + i \in 1..(n + m)
        OBVIOUS
      <4>3. QED
        BY <1>3, <1>4, <1>10, <4>1, <4>2
    <3>3. \A i \in 1..(n + m) : i \in 1..n \/ (i - n \in 1..m /\ i = n + (i - n))
      OBVIOUS
    <3>4. QED
      BY <3>1, <3>2, <3>3
  <2>3. QED
    BY <1>4, <2>1, <2>2, SeqEqual
<1>12. FlattenSeq(p \o q) = FlattenSeq(p) \o FlattenSeq(q)
  BY <1>3, FlattenSeqConcat DEF Text
<1>13. QED
  BY <1>5, <1>11, <1>12 DEF w

-----------------------------------------------------------------------------
(* Cutting text into lines. *)

(* The lines that end within the first n letters.                          *)
LinesUpTo(s, n) ==
    FlattenSeq([i \in 1..n |-> IF i \in LineEnds(s) THEN <<LineAt(s, i)>> ELSE <<>>])

(* The last terminator before i, if there is one.                          *)
LEMMA EndBefore ==
    ASSUME NEW s \in Text, NEW i \in 1..Len(s)
    PROVE  LET m == Max({0} \cup {j \in Terminators(s) : j < i})
           IN  /\ m \in 0..(i - 1) /\ (m = 0 \/ m \in Terminators(s))
               /\ \A j \in Terminators(s) : j < i => j <= m
<1> DEFINE B == {0} \cup {j \in Terminators(s) : j < i}
<1>1. \A j \in Terminators(s) : j \in Nat \ {0}
  BY DEF Terminators, Text
<1>2. B \subseteq Nat /\ B # {} /\ i - 1 \in Nat /\ \A x \in B : x <= i - 1
  BY <1>1 DEF Text
<1>3. Max(B) \in B /\ \A x \in B : x <= Max(B)
  BY <1>2, GreatestIsMax
<1> DEFINE m == Max(B)
<1>4. m \in B /\ \A x \in B : x <= m
  BY <1>3
<1>5. \A x \in B : x \in 0..(i - 1) /\ (x = 0 \/ x \in Terminators(s))
  BY <1>2
<1>6. \A j \in Terminators(s) : j < i => j \in B
  OBVIOUS
<1> HIDE DEF m, B
<1>7. QED
  BY <1>4, <1>5, <1>6 DEF m, B

LEMMA PartType ==
    ASSUME NEW s \in Text, NEW a \in Nat \ {0}, NEW b \in 0..Len(s)
    PROVE  /\ SubSeq(s, a, b) \in Text
           /\ Len(SubSeq(s, a, b)) = IF a <= b THEN b - a + 1 ELSE 0
           /\ \A k \in 1..(b - a + 1) : SubSeq(s, a, b)[k] = s[a + k - 1]
<1>1. \A k \in a..b : s[k] \in Letter
  <2>1. ASSUME NEW k \in a..b PROVE k \in 1..Len(s)
    BY DEF Text
  <2>2. QED
    BY <2>1, ElementOfSeq DEF Text
<1>2. b \in Int
  OBVIOUS
<1>3. SubSeq(s, a, b) \in Seq(Letter) /\ Len(SubSeq(s, a, b)) = IF a <= b THEN b - a + 1 ELSE 0
  BY <1>1, <1>2, SubSeqProperties
<1>4. \A k \in 1..(b - a + 1) : SubSeq(s, a, b)[k] = s[a + k - 1]
  BY <1>1, <1>2, SubSeqProperties
<1>5. QED
  BY <1>3, <1>4 DEF Text

LEMMA LineAtType ==
    ASSUME NEW s \in Text, NEW i \in 1..Len(s)
    PROVE  LineAt(s, i) \in Text
<1>1. PICK m \in 0..(i - 1) : m = Max({0} \cup {j \in Terminators(s) : j < i})
  BY EndBefore
<1>2. 1 + m \in Nat \ {0} /\ i - 1 \in 0..Len(s)
  BY DEF Text
<1>3. SubSeq(s, 1 + m, i - 1) \in Text
  BY <1>2, PartType
<1>4. QED
  BY <1>1, <1>3 DEF LineAt

(* The pieces lines are joined from.                                       *)
LEMMA LinePieces ==
    ASSUME NEW s \in Text, NEW n \in 0..Len(s)
    PROVE  LET q == [i \in 1..n |-> IF i \in LineEnds(s) THEN <<LineAt(s, i)>> ELSE <<>>]
           IN  q \in Seq(Seq(Text)) /\ Len(q) = n
<1>1. \A i \in 1..n : (IF i \in LineEnds(s) THEN <<LineAt(s, i)>> ELSE <<>>) \in Seq(Text)
  <2>1. ASSUME NEW i \in 1..n PROVE (IF i \in LineEnds(s) THEN <<LineAt(s, i)>> ELSE <<>>) \in Seq(Text)
    <3>1. i \in 1..Len(s)
      BY DEF Text
    <3>2. LineAt(s, i) \in Text
      BY <3>1, LineAtType
    <3>3. <<LineAt(s, i)>> \in Seq(Text) /\ <<>> \in Seq(Text)
      BY <3>2
    <3>4. QED
      BY <3>3
  <2>2. QED
    BY <2>1
<1>2. [i \in 1..n |-> IF i \in LineEnds(s) THEN <<LineAt(s, i)>> ELSE <<>>] \in [1..n -> Seq(Text)]
  BY <1>1
<1>3. n \in Nat
  OBVIOUS
<1>4. QED
  BY <1>2, <1>3

LEMMA LinesType ==
    ASSUME NEW s \in Text, NEW n \in 0..Len(s)
    PROVE  LinesUpTo(s, n) \in Seq(Text)
<1>1. <<>> \in Seq(Text)
  OBVIOUS
<1>2. QED
  BY <1>1, LinePieces, FlattenSeqAppend DEF LinesUpTo

LEMMA LinesUpToNext ==
    ASSUME NEW s \in Text, NEW n \in Nat, n + 1 \in 1..Len(s)
    PROVE  LinesUpTo(s, n + 1) = IF n + 1 \in LineEnds(s) THEN Append(LinesUpTo(s, n), LineAt(s, n + 1))
                                 ELSE LinesUpTo(s, n)
<1> DEFINE item(i) == IF i \in LineEnds(s) THEN <<LineAt(s, i)>> ELSE <<>>
           p == [i \in 1..n |-> item(i)]
           r == [i \in 1..(n + 1) |-> item(i)]
<1>1. n \in 0..Len(s) /\ n + 1 \in 0..Len(s)
  BY DEF Text
<1>2. p \in Seq(Seq(Text)) /\ Len(p) = n /\ r \in Seq(Seq(Text)) /\ Len(r) = n + 1
  BY <1>1, LinePieces
<1>3. (\A i \in 1..n : r[i] = p[i]) /\ r[n + 1] = item(n + 1)
  OBVIOUS
<1>4. LinesUpTo(s, n) = FlattenSeq(p) /\ LinesUpTo(s, n + 1) = FlattenSeq(r)
  BY DEF LinesUpTo
<1> HIDE DEF p, r
<1>5. FlattenSeq(r) = FlattenSeq(p) \o item(n + 1) /\ FlattenSeq(p) \in Seq(Text)
  BY <1>2, <1>3, FlattenSeqNext
<1>6. LineAt(s, n + 1) \in Text
  BY LineAtType
<1>7. CASE n + 1 \in LineEnds(s)
  <2>1. item(n + 1) = <<LineAt(s, n + 1)>>
    BY <1>7
  <2>2. FlattenSeq(p) \o <<LineAt(s, n + 1)>> = Append(FlattenSeq(p), LineAt(s, n + 1))
    BY <1>5, <1>6
  <2>3. QED
    BY <1>4, <1>5, <1>7, <2>1, <2>2
<1>8. CASE n + 1 \notin LineEnds(s)
  <2>1. item(n + 1) = <<>>
    BY <1>8
  <2>2. FlattenSeq(p) \o <<>> = FlattenSeq(p)
    BY <1>5
  <2>3. QED
    BY <1>4, <1>5, <1>8, <2>1, <2>2
<1>9. QED
  BY <1>7, <1>8

(* Where no line ends, no line is added.                                   *)
LEMMA LinesUpToStill ==
    ASSUME NEW s \in Text, NEW n \in 0..Len(s), NEW c \in 0..n,
           \A i \in (c + 1)..n : i \notin LineEnds(s)
    PROVE  LinesUpTo(s, n) = LinesUpTo(s, c)
<1> DEFINE item(i) == IF i \in LineEnds(s) THEN <<LineAt(s, i)>> ELSE <<>>
           p == [i \in 1..c |-> item(i)]
           r == [i \in 1..n |-> item(i)]
<1>1. c \in 0..Len(s)
  BY DEF Text
<1>2. p \in Seq(Seq(Text)) /\ Len(p) = c /\ r \in Seq(Seq(Text)) /\ Len(r) = n
  BY <1>1, LinePieces
<1>3. (\A i \in 1..c : r[i] = p[i]) /\ (\A i \in (c + 1)..n : r[i] = <<>>)
  OBVIOUS
<1>4. LinesUpTo(s, c) = FlattenSeq(p) /\ LinesUpTo(s, n) = FlattenSeq(r)
  BY DEF LinesUpTo
<1> HIDE DEF p, r
<1>5. FlattenSeq(r) = FlattenSeq(p)
  BY <1>2, <1>3, FlattenSeqStill
<1>6. QED
  BY <1>4, <1>5

(* Lines depend on the text before them only.                              *)
LEMMA LinesUpToLocal ==
    ASSUME NEW u \in Text, NEW v \in Text, NEW n \in 0..Len(u), n \in 0..Len(v),
           \A i \in 1..n : u[i] = v[i]
    PROVE  LinesUpTo(u, n) = LinesUpTo(v, n)
<1>1. \A i \in 1..n : i \in DOMAIN u /\ i \in DOMAIN v
  BY DEF Text
<1>2. \A i \in 1..n : i \in Terminators(u) <=> i \in Terminators(v)
  BY <1>1 DEF Terminators
<1>3. \A i \in 1..n : i \in LineEnds(u) <=> i \in LineEnds(v)
  <2>1. \A i \in 1..n : i > 1 => i - 1 \in 1..n
    OBVIOUS
  <2>2. QED
    BY <1>2, <2>1 DEF LineEnds
<1>4. ASSUME NEW i \in 1..n PROVE LineAt(u, i) = LineAt(v, i)
  <2>1. \A j \in Terminators(u) : j \in Nat \ {0}
    BY DEF Terminators, Text
  <2>2. \A j \in Terminators(v) : j \in Nat \ {0}
    BY DEF Terminators, Text
  <2>3. \A j \in Nat \ {0} : j < i => j \in 1..n
    OBVIOUS
  <2>4. {j \in Terminators(u) : j < i} = {j \in Terminators(v) : j < i}
    BY <1>2, <2>1, <2>2, <2>3
  <2>5. i \in 1..Len(u)
    BY DEF Text
  <2>6. PICK m \in 0..(i - 1) : m = Max({0} \cup {j \in Terminators(u) : j < i})
    BY <2>5, EndBefore
  <2>7. /\ LineAt(u, i) = SubSeq(u, 1 + m, i - 1)
        /\ LineAt(v, i) = SubSeq(v, 1 + m, i - 1)
    BY <2>4, <2>6 DEF LineAt
  <2>8. /\ 1 + m \in Nat \ {0} /\ i - 1 \in 0..Len(u) /\ i - 1 \in 0..Len(v)
    BY DEF Text
  <2>9. /\ SubSeq(u, 1 + m, i - 1) \in Text /\ SubSeq(v, 1 + m, i - 1) \in Text
        /\ Len(SubSeq(u, 1 + m, i - 1)) = IF 1 + m <= i - 1 THEN i - 1 - (1 + m) + 1 ELSE 0
        /\ Len(SubSeq(v, 1 + m, i - 1)) = IF 1 + m <= i - 1 THEN i - 1 - (1 + m) + 1 ELSE 0
    BY <2>8, PartType
  <2>10. \A k \in 1..(i - 1 - (1 + m) + 1) :
            /\ SubSeq(u, 1 + m, i - 1)[k] = u[1 + m + k - 1]
            /\ SubSeq(v, 1 + m, i - 1)[k] = v[1 + m + k - 1]
    BY <2>8, PartType
  <2>11. \A k \in 1..(i - 1 - (1 + m) + 1) : 1 + m + k - 1 \in 1..n
    OBVIOUS
  <2>12. \A k \in 1..Len(SubSeq(u, 1 + m, i - 1)) : k \in 1..(i - 1 - (1 + m) + 1)
    BY <2>9
  <2>13. SubSeq(u, 1 + m, i - 1) = SubSeq(v, 1 + m, i - 1)
    BY <2>9, <2>10, <2>11, <2>12, SeqEqual DEF Text
  <2>14. QED
    BY <2>7, <2>13
<1>5. [i \in 1..n |-> IF i \in LineEnds(u) THEN <<LineAt(u, i)>> ELSE <<>>]
        = [i \in 1..n |-> IF i \in LineEnds(v) THEN <<LineAt(v, i)>> ELSE <<>>]
  BY <1>3, <1>4
<1>6. QED
  BY <1>5 DEF LinesUpTo

(* A place where the text may be cut: at its begin, or after a whole line  *)
(* terminator.                                                             *)
CutAt(s, c) ==
    c # 0 => s[c] \in {CR, LF} /\ (c < Len(s) => ~(s[c] = CR /\ s[c + 1] = LF))

(* The next line after a cut.                                              *)
LEMMA NextLine ==
    ASSUME NEW s \in Text, NEW c \in 0..Len(s), CutAt(s, c), NEW e \in (c + 1)..Len(s),
           s[e] \in {CR, LF}, \A i \in (c + 1)..(e - 1) : s[i] \notin {CR, LF}
    PROVE  LinesUpTo(s, e) = Append(LinesUpTo(s, c), SubSeq(s, c + 1, e - 1))
<1>1. /\ DOMAIN s = 1..Len(s) /\ Len(s) \in Nat /\ e \in 1..Len(s) /\ e - 1 \in Nat /\ c \in Nat
      /\ e - 1 \in 0..Len(s) /\ c \in 0..(e - 1) /\ (e - 1) + 1 = e
  BY DEF Text
<1>2. \A i \in (c + 1)..(e - 1) : i \notin LineEnds(s)
  BY DEF LineEnds, Terminators
<1>3. LinesUpTo(s, e - 1) = LinesUpTo(s, c)
  BY <1>1, <1>2, LinesUpToStill
<1>4. e \in LineEnds(s)
  <2>1. e \in Terminators(s)
    BY <1>1 DEF Terminators
  <2>2. CASE e - 1 = c
    <3>1. c # 0 => ~(s[c] = CR /\ s[e] = LF)
      BY <1>1, <2>2 DEF CutAt
    <3>2. QED
      BY <1>1, <2>1, <2>2, <3>1 DEF LineEnds
  <2>3. CASE e - 1 # c
    <3>1. e - 1 \in (c + 1)..(e - 1)
      BY <1>1, <2>3
    <3>2. s[e - 1] # CR
      BY <3>1
    <3>3. QED
      BY <2>1, <3>2 DEF LineEnds
  <2>4. QED
    BY <2>2, <2>3
<1>5. Max({0} \cup {j \in Terminators(s) : j < e}) = c
  <2> DEFINE B == {0} \cup {j \in Terminators(s) : j < e}
  <2>1. B \subseteq Int
    BY <1>1 DEF Terminators
  <2>2. c \in B
    BY <1>1 DEF Terminators, CutAt
  <2>3. \A x \in B : x <= c
    <3>1. ASSUME NEW j \in Terminators(s), j < e PROVE j <= c
      <4>1. j \in 1..Len(s) /\ s[j] \in {CR, LF}
        BY <1>1 DEF Terminators
      <4>2. j > c => j \in (c + 1)..(e - 1)
        BY <1>1, <3>1, <4>1
      <4>3. QED
        BY <1>1, <4>1, <4>2
    <3>2. QED
      BY <1>1, <3>1
  <2>4. QED
    BY <2>1, <2>2, <2>3, MaxIs
<1>6. LineAt(s, e) = SubSeq(s, c + 1, e - 1)
  <2>1. 1 + c = c + 1
    BY <1>1
  <2>2. QED
    BY <1>5, <2>1 DEF LineAt
<1>7. LinesUpTo(s, e) = Append(LinesUpTo(s, e - 1), LineAt(s, e))
  <2>1. PICK n \in Nat : n = e - 1 /\ n + 1 = e
    BY <1>1
  <2>2. QED
    BY <1>1, <1>4, <2>1, LinesUpToNext
<1>8. QED
  BY <1>3, <1>6, <1>7

(* The LF of a CRLF ends no line.                                          *)
LEMMA CrLfIsOneEnd ==
    ASSUME NEW s \in Text, NEW e \in Nat \ {0}, e + 1 \in 1..Len(s), s[e] = CR, s[e + 1] = LF
    PROVE  LinesUpTo(s, e + 1) = LinesUpTo(s, e)
<1>1. e + 1 \notin LineEnds(s)
  BY DEF LineEnds
<1>2. QED
  BY <1>1, LinesUpToNext

-----------------------------------------------------------------------------
(* Gathering lines into frames. *)

Frame == [event : Text \cup {Default}, data : Seq(Text), id : Seq(Text)]

(* The values since the last blank line, and the ids so far.               *)
Pending(lines, field) ==
    ValuesBetween(lines, BlankBefore(lines, Len(lines) + 1), Len(lines) + 1, field)

Ids(lines) == ValuesBetween(lines, 0, Len(lines) + 1, IdField)

(* The pieces that values are joined from.                                 *)
Pieces(lines, n, a, field) ==
    [j \in 1..n |-> IF j > a /\ Gives(lines[j], field) THEN <<Tail(lines[j])>> ELSE <<>>]

LEMMA ValuePieces ==
    ASSUME NEW L \in Seq(Text), NEW n \in 0..Len(L), NEW a \in Nat, NEW f
    PROVE  Pieces(L, n, a, f) \in Seq(Seq(Text)) /\ Len(Pieces(L, n, a, f)) = n
<1>1. ASSUME NEW j \in 1..n
      PROVE  (IF j > a /\ Gives(L[j], f) THEN <<Tail(L[j])>> ELSE <<>>) \in Seq(Text)
  <2>1. L[j] \in Text
    <3>1. j \in 1..Len(L)
      OBVIOUS
    <3>2. QED
      BY <3>1, ElementOfSeq
  <2>2. Gives(L[j], f) => L[j] # <<>>
    BY DEF Gives
  <2>3. L[j] # <<>> => Tail(L[j]) \in Text
    BY <2>1, HeadTailProperties DEF Text
  <2>4. \A x \in Text : <<x>> \in Seq(Text)
    OBVIOUS
  <2>5. <<>> \in Seq(Text)
    OBVIOUS
  <2>6. QED
    BY <2>2, <2>3, <2>4, <2>5, Zenon
<1>2. Pieces(L, n, a, f) \in [1..n -> Seq(Text)]
  BY <1>1 DEF Pieces
<1>3. n \in Nat
  OBVIOUS
<1>4. QED
  BY <1>2, <1>3

LEMMA ValuesType ==
    ASSUME NEW L \in Seq(Text), NEW k \in 1..(Len(L) + 1), NEW a \in Nat, NEW f
    PROVE  ValuesBetween(L, a, k, f) \in Seq(Text)
<1> DEFINE q == Pieces(L, k - 1, a, f)
<1>1. k - 1 \in 0..Len(L)
  OBVIOUS
<1>2. q \in Seq(Seq(Text))
  BY <1>1, ValuePieces
<1>3. ValuesBetween(L, a, k, f) = FlattenSeq(q)
  BY DEF ValuesBetween, Pieces
<1> HIDE DEF q
<1>4. <<>> \in Seq(Text)
  OBVIOUS
<1>5. QED
  BY <1>2, <1>3, <1>4, FlattenSeqAppend

LEMMA LastOfType ==
    ASSUME NEW v \in Seq(Text)
    PROVE  LastOf(v) \in Seq(Text) /\ (LastOf(v) # None => LastOf(v)[1] \in Text)
<1>1. CASE v = <<>>
  BY <1>1 DEF LastOf, None
<1>2. CASE v # <<>>
  <2>1. Len(v) \in 1..Len(v)
    BY <1>2, EmptySeq
  <2>2. v[Len(v)] \in Text
    BY <2>1, ElementOfSeq
  <2>3. LastOf(v) = <<v[Len(v)]>>
    BY <1>2 DEF LastOf, Some, Last
  <2>4. QED
    BY <2>2, <2>3
<1>3. QED
  BY <1>1, <1>2

LEMMA LastOfAppend ==
    ASSUME NEW v \in Seq(Text), NEW x \in Text
    PROVE  LastOf(Append(v, x)) = Some(x)
<1>1. Append(v, x) # <<>> /\ Append(v, x)[Len(Append(v, x))] = x
  OBVIOUS
<1>2. QED
  BY <1>1 DEF LastOf, Last

LEMMA BlankType ==
    ASSUME NEW L \in Seq(Text), NEW k \in 1..(Len(L) + 1)
    PROVE  BlankBefore(L, k) \in 0..(k - 1)
<1> DEFINE B == {0} \cup {j \in 1..(k - 1) : L[j] = <<>>}
<1>1. B \subseteq Nat /\ B # {} /\ k - 1 \in Nat /\ \A x \in B : x <= k - 1
  OBVIOUS
<1>2. Max(B) \in B
  BY <1>1, GreatestIsMax
<1>3. Max(B) \in 0..(k - 1)
  BY <1>2
<1>4. QED
  BY <1>3 DEF BlankBefore

LEMMA FrameType ==
    ASSUME NEW L \in Seq(Text), NEW k \in 1..(Len(L) + 1)
    PROVE  FrameAt(L, k) \in Frame
<1> DEFINE a == BlankBefore(L, k)
<1>1. /\ ValuesBetween(L, a, k, EventField) \in Seq(Text)
      /\ ValuesBetween(L, a, k, DataField) \in Seq(Text)
      /\ ValuesBetween(L, 0, k, IdField) \in Seq(Text)
  <2>1. a \in Nat
    BY BlankType
  <2> HIDE DEF a
  <2>2. QED
    BY <2>1, ValuesType
<1>2. PICK e \in Seq(Text) : e = LastOf(ValuesBetween(L, a, k, EventField)) /\ (e # None => e[1] \in Text)
  BY <1>1, LastOfType
<1>3. LastOf(ValuesBetween(L, 0, k, IdField)) \in Seq(Text)
  BY <1>1, LastOfType
<1>4. FrameAt(L, k) = [event |-> IF e = None THEN Default ELSE e[1],
                       data |-> ValuesBetween(L, a, k, DataField),
                       id |-> LastOf(ValuesBetween(L, 0, k, IdField))]
  BY <1>2 DEF FrameAt
<1> HIDE DEF a
<1>5. (IF e = None THEN Default ELSE e[1]) \in Text \cup {Default}
  BY <1>2
<1>6. QED
  BY <1>1, <1>3, <1>4, <1>5 DEF Frame

(* One line more: what is before it is as it was, and then it counts.      *)
LEMMA ValuesBefore ==
    ASSUME NEW L \in Seq(Text), NEW line \in Text, NEW k \in 1..(Len(L) + 1)
    PROVE  LET M == Append(L, line)
           IN  /\ \A a, f : ValuesBetween(M, a, k, f) = ValuesBetween(L, a, k, f)
               /\ BlankBefore(M, k) = BlankBefore(L, k)
               /\ FrameAt(M, k) = FrameAt(L, k)
<1> DEFINE M == Append(L, line)
<1>1. \A j \in 1..(k - 1) : M[j] = L[j]
  OBVIOUS
<1> HIDE DEF M
<1>2. ASSUME NEW a, NEW f PROVE ValuesBetween(M, a, k, f) = ValuesBetween(L, a, k, f)
  <2>1. [j \in 1..(k - 1) |-> IF j > a /\ Gives(M[j], f) THEN <<Tail(M[j])>> ELSE <<>>]
          = [j \in 1..(k - 1) |-> IF j > a /\ Gives(L[j], f) THEN <<Tail(L[j])>> ELSE <<>>]
    BY <1>1
  <2>2. QED
    BY <2>1 DEF ValuesBetween
<1>3. BlankBefore(M, k) = BlankBefore(L, k)
  <2>1. {j \in 1..(k - 1) : M[j] = <<>>} = {j \in 1..(k - 1) : L[j] = <<>>}
    BY <1>1
  <2>2. QED
    BY <2>1 DEF BlankBefore
<1>4. FrameAt(M, k) = FrameAt(L, k)
  BY <1>2, <1>3 DEF FrameAt
<1>5. QED
  BY <1>2, <1>3, <1>4 DEF M

LEMMA ValuesAppend ==
    ASSUME NEW L \in Seq(Text), NEW line \in Text, NEW a \in 0..Len(L), NEW f
    PROVE  ValuesBetween(Append(L, line), a, Len(L) + 2, f) =
              IF Gives(line, f) THEN Append(ValuesBetween(L, a, Len(L) + 1, f), Tail(line))
              ELSE ValuesBetween(L, a, Len(L) + 1, f)
<1> DEFINE M == Append(L, line)
<1>1. PICK n \in Nat : n = Len(L)
  OBVIOUS
<1>2. /\ M \in Seq(Text) /\ Len(M) = n + 1 /\ M[n + 1] = line
      /\ \A j \in 1..n : M[j] = L[j]
      /\ n \in 0..Len(L) /\ n + 1 \in 0..Len(M) /\ (n + 1) - 1 = n /\ (n + 2) - 1 = n + 1
  BY <1>1
<1> HIDE DEF M
<1> DEFINE ofM(j) == IF j > a /\ Gives(M[j], f) THEN <<Tail(M[j])>> ELSE <<>>
           ofL(j) == IF j > a /\ Gives(L[j], f) THEN <<Tail(L[j])>> ELSE <<>>
           p == Pieces(L, n, a, f)
           r == Pieces(M, n + 1, a, f)
<1>3. p \in Seq(Seq(Text)) /\ Len(p) = n
  BY <1>2, ValuePieces
<1>4. r \in Seq(Seq(Text)) /\ Len(r) = n + 1
  BY <1>2, ValuePieces
<1>5. (\A j \in 1..n : r[j] = p[j]) /\ r[n + 1] = ofM(n + 1)
  <2>1. \A j \in 1..n : j \in 1..(n + 1) /\ ofM(j) = ofL(j)
    <3>1. ASSUME NEW j \in 1..n PROVE ofM(j) = ofL(j)
      <4>1. M[j] = L[j]
        BY <1>2
      <4>2. QED
        BY <4>1
    <3>2. \A j \in 1..n : j \in 1..(n + 1)
      OBVIOUS
    <3> HIDE DEF ofM, ofL
    <3>3. QED
      BY <3>1, <3>2
  <2>2. /\ n + 1 \in 1..(n + 1)
        /\ p = [j \in 1..n |-> ofL(j)] /\ r = [j \in 1..(n + 1) |-> ofM(j)]
    BY DEF Pieces
  <2> HIDE DEF ofM, ofL, p, r
  <2>3. QED
    BY <2>1, <2>2
<1>6. /\ ValuesBetween(L, a, n + 1, f) = FlattenSeq(p)
      /\ ValuesBetween(M, a, n + 2, f) = FlattenSeq(r)
  BY <1>2 DEF ValuesBetween, Pieces
<1> HIDE DEF p, r
<1>7. FlattenSeq(r) = FlattenSeq(p) \o ofM(n + 1) /\ FlattenSeq(p) \in Seq(Text)
  BY <1>3, <1>4, <1>5, FlattenSeqNext
<1>8. n + 1 > a
  BY <1>1
<1>9. CASE Gives(line, f)
  <2>1. line # <<>>
    BY <1>9 DEF Gives
  <2>2. Tail(line) \in Text
    BY <2>1, HeadTailProperties DEF Text
  <2>3. ofM(n + 1) = <<Tail(line)>>
    BY <1>2, <1>8, <1>9
  <2>4. FlattenSeq(p) \o <<Tail(line)>> = Append(FlattenSeq(p), Tail(line))
    BY <1>7, <2>2
  <2>5. QED
    BY <1>1, <1>6, <1>7, <1>9, <2>3, <2>4 DEF M
<1>10. CASE ~Gives(line, f)
  <2>1. ofM(n + 1) = <<>>
    BY <1>2, <1>10
  <2>2. FlattenSeq(p) \o <<>> = FlattenSeq(p)
    BY <1>7
  <2>3. QED
    BY <1>1, <1>6, <1>7, <1>10, <2>1, <2>2 DEF M
<1>11. QED
  BY <1>9, <1>10

LEMMA NoValues ==
    ASSUME NEW L \in Seq(Text), NEW f
    PROVE  ValuesBetween(L, Len(L), Len(L) + 1, f) = <<>>
<1>1. PICK n \in Nat : n = Len(L) /\ n \in 0..Len(L) /\ (n + 1) - 1 = n
  OBVIOUS
<1> DEFINE r == Pieces(L, n, n, f)
<1>2. r \in Seq(Seq(Text)) /\ Len(r) = n
  BY <1>1, ValuePieces
<1>3. ASSUME NEW j \in 1..n PROVE r[j] = <<>>
  <2>1. ~(j > n)
    OBVIOUS
  <2>2. (IF j > n /\ Gives(L[j], f) THEN <<Tail(L[j])>> ELSE <<>>) = <<>>
    BY <2>1
  <2>3. QED
    BY <2>2 DEF Pieces
<1>4. ValuesBetween(L, n, n + 1, f) = FlattenSeq(r)
  BY <1>1 DEF ValuesBetween, Pieces
<1> HIDE DEF r
<1>5. PICK p \in Seq(Seq(Text)) : p = <<>>
  <2>1. <<>> \in Seq(Seq(Text))
    OBVIOUS
  <2>2. QED
    BY <2>1, Zenon
<1>6. FlattenSeq(r) = FlattenSeq(p)
  <2>1. Len(p) <= Len(r) /\ (\A i \in 1..Len(p) : r[i] = p[i])
    BY <1>2, <1>5
  <2>2. \A i \in (Len(p) + 1)..Len(r) : r[i] = <<>>
    BY <1>2, <1>3, <1>5
  <2>3. QED
    BY <1>2, <2>1, <2>2, FlattenSeqStill
<1>7. FlattenSeq(<<>>) = <<>>
  BY DEF FlattenSeq
<1>8. QED
  BY <1>1, <1>4, <1>5, <1>6, <1>7

LEMMA BlankAppend ==
    ASSUME NEW L \in Seq(Text), NEW line \in Text
    PROVE  BlankBefore(Append(L, line), Len(L) + 2) =
              IF line = <<>> THEN Len(L) + 1 ELSE BlankBefore(L, Len(L) + 1)
<1> DEFINE M == Append(L, line)
<1>1. PICK n \in Nat : n = Len(L)
  OBVIOUS
<1>2. M[n + 1] = line /\ (\A j \in 1..n : M[j] = L[j]) /\ (n + 1) - 1 = n /\ (n + 2) - 1 = n + 1
  BY <1>1
<1> HIDE DEF M
<1>3. CASE line = <<>>
  <2> DEFINE B == {0} \cup {j \in 1..(n + 1) : M[j] = <<>>}
  <2>1. B \subseteq Int /\ n + 1 \in B /\ \A x \in B : x <= n + 1
    BY <1>2, <1>3
  <2>2. Max(B) = n + 1
    BY <2>1, MaxIs
  <2>3. BlankBefore(M, n + 2) = n + 1
    BY <1>2, <2>2 DEF BlankBefore
  <2>4. QED
    BY <1>1, <1>3, <2>3 DEF M
<1>4. CASE line # <<>>
  <2>1. \A j \in 1..(n + 1) : j \in 1..n \/ j = n + 1
    OBVIOUS
  <2>2. {j \in 1..(n + 1) : M[j] = <<>>} = {j \in 1..n : L[j] = <<>>}
    BY <1>2, <1>4, <2>1
  <2>3. BlankBefore(M, n + 2) = BlankBefore(L, n + 1)
    BY <1>2, <2>2 DEF BlankBefore
  <2>4. QED
    BY <1>1, <1>4, <2>3 DEF M
<1>5. QED
  BY <1>3, <1>4

LEMMA PendingType ==
    ASSUME NEW L \in Seq(Text), NEW f
    PROVE  Pending(L, f) \in Seq(Text) /\ Ids(L) \in Seq(Text)
<1>1. Len(L) + 1 \in 1..(Len(L) + 1)
  OBVIOUS
<1>2. BlankBefore(L, Len(L) + 1) \in Nat
  BY <1>1, BlankType
<1>3. QED
  BY <1>1, <1>2, ValuesType DEF Pending, Ids

LEMMA PendingAppend ==
    ASSUME NEW L \in Seq(Text), NEW line \in Text, line # <<>>, NEW f
    PROVE  Pending(Append(L, line), f) =
              IF Gives(line, f) THEN Append(Pending(L, f), Tail(line)) ELSE Pending(L, f)
<1> DEFINE M == Append(L, line)
<1>1. Len(M) + 1 = Len(L) + 2 /\ Len(L) + 1 \in 1..(Len(L) + 1) /\ (Len(L) + 1) - 1 = Len(L)
  OBVIOUS
<1>2. BlankBefore(M, Len(L) + 2) = BlankBefore(L, Len(L) + 1)
  BY BlankAppend
<1>3. BlankBefore(L, Len(L) + 1) \in 0..Len(L)
  BY <1>1, BlankType
<1>4. ValuesBetween(M, BlankBefore(L, Len(L) + 1), Len(L) + 2, f) =
         IF Gives(line, f) THEN Append(ValuesBetween(L, BlankBefore(L, Len(L) + 1), Len(L) + 1, f), Tail(line))
         ELSE ValuesBetween(L, BlankBefore(L, Len(L) + 1), Len(L) + 1, f)
  BY <1>3, ValuesAppend
<1> HIDE DEF M
<1>5. QED
  BY <1>1, <1>2, <1>4 DEF Pending, M

LEMMA PendingBlank ==
    ASSUME NEW L \in Seq(Text), NEW f
    PROVE  Pending(Append(L, <<>>), f) = <<>>
<1> DEFINE M == Append(L, <<>>)
<1>1. <<>> \in Text
  BY DEF Text
<1>2. M \in Seq(Text) /\ Len(M) = Len(L) + 1 /\ Len(M) + 1 = Len(L) + 2
  BY <1>1
<1>3. BlankBefore(M, Len(L) + 2) = Len(L) + 1
  BY <1>1, BlankAppend
<1> HIDE DEF M
<1>4. ValuesBetween(M, Len(M), Len(M) + 1, f) = <<>>
  BY <1>2, NoValues
<1>5. QED
  BY <1>2, <1>3, <1>4 DEF Pending, M

LEMMA IdsAppend ==
    ASSUME NEW L \in Seq(Text), NEW line \in Text
    PROVE  Ids(Append(L, line)) = IF Gives(line, IdField) THEN Append(Ids(L), Tail(line)) ELSE Ids(L)
<1>1. Len(Append(L, line)) + 1 = Len(L) + 2 /\ 0 \in 0..Len(L)
  OBVIOUS
<1>2. QED
  BY <1>1, ValuesAppend DEF Ids

(* The frame that a blank line would close now.                            *)
NextFrame(lines) ==
    LET event == LastOf(Pending(lines, EventField))
    IN  [event |-> IF event = None THEN Default ELSE event[1],
         data |-> Pending(lines, DataField), id |-> LastOf(Ids(lines))]

LEMMA FramesAppend ==
    ASSUME NEW L \in Seq(Text), NEW line \in Text
    PROVE  /\ FramesIn(L) \in Seq(Frame)
           /\ FramesIn(Append(L, line)) =
                 IF line = <<>> /\ Pending(L, DataField) # <<>> THEN Append(FramesIn(L), NextFrame(L))
                 ELSE FramesIn(L)
<1> DEFINE M == Append(L, line)
           item(lines, k) == IF lines[k] = <<>> /\ FrameAt(lines, k).data # <<>>
                             THEN <<FrameAt(lines, k)>> ELSE <<>>
<1>1. PICK n \in Nat : n = Len(L) /\ DOMAIN L = 1..n
  OBVIOUS
<1>2. /\ M \in Seq(Text) /\ Len(M) = n + 1 /\ DOMAIN M = 1..(n + 1) /\ M[n + 1] = line
      /\ \A j \in 1..n : M[j] = L[j]
  BY <1>1
<1>3. /\ \A k \in 1..n : FrameAt(M, k) = FrameAt(L, k) /\ FrameAt(L, k) \in Frame
      /\ FrameAt(M, n + 1) = FrameAt(L, n + 1) /\ FrameAt(L, n + 1) \in Frame
  <2>1. \A k \in 1..(Len(L) + 1) : FrameAt(M, k) = FrameAt(L, k)
    BY ValuesBefore
  <2>2. \A k \in 1..(Len(L) + 1) : FrameAt(L, k) \in Frame
    BY FrameType
  <2>3. (\A k \in 1..n : k \in 1..(Len(L) + 1)) /\ n + 1 \in 1..(Len(L) + 1)
    BY <1>1
  <2>4. QED
    BY <2>1, <2>2, <2>3
<1>4. FrameAt(L, n + 1) = NextFrame(L)
  BY <1>1 DEF FrameAt, NextFrame, Pending, Ids
<1>5. NextFrame(L).data = Pending(L, DataField)
  BY DEF NextFrame
<1> HIDE DEF M
<1>6. \A F \in Frame : <<F>> \in Seq(Frame)
  OBVIOUS
<1>7. <<>> \in Seq(Frame)
  OBVIOUS
<1> DEFINE p == [k \in 1..n |-> item(L, k)]
           r == [k \in 1..(n + 1) |-> item(M, k)]
<1>8. p \in Seq(Seq(Frame)) /\ Len(p) = n
  <2>1. \A k \in 1..n : item(L, k) \in Seq(Frame)
    BY <1>3, <1>6, <1>7
  <2>2. p \in [1..n -> Seq(Frame)]
    BY <2>1
  <2>3. QED
    BY <2>2
<1>9. r \in Seq(Seq(Frame)) /\ Len(r) = n + 1
  <2>1. \A k \in 1..(n + 1) : k \in 1..n \/ k = n + 1
    OBVIOUS
  <2>2. \A k \in 1..(n + 1) : item(M, k) \in Seq(Frame)
    BY <1>3, <1>6, <1>7, <2>1
  <2>3. r \in [1..(n + 1) -> Seq(Frame)]
    BY <2>2
  <2>4. QED
    BY <2>3
<1>10. \A k \in 1..n : r[k] = p[k]
  <2>1. \A k \in 1..n : item(M, k) = item(L, k)
    BY <1>2, <1>3
  <2>2. \A k \in 1..n : k \in 1..(n + 1)
    OBVIOUS
  <2> HIDE DEF item
  <2>3. QED
    BY <2>1, <2>2
<1>11. r[n + 1] = IF line = <<>> /\ Pending(L, DataField) # <<>> THEN <<NextFrame(L)>> ELSE <<>>
  BY <1>2, <1>3, <1>4, <1>5
<1>12. FramesIn(L) = FlattenSeq(p) /\ FramesIn(M) = FlattenSeq(r)
  BY <1>1, <1>2, Zenon DEF FramesIn
<1> HIDE DEF p, r, item
<1>13. FlattenSeq(r) = FlattenSeq(p) \o r[n + 1] /\ FlattenSeq(p) \in Seq(Frame)
  BY <1>8, <1>9, <1>10, FlattenSeqNext
<1>14. NextFrame(L) \in Frame
  BY <1>3, <1>4
<1>15. /\ FlattenSeq(p) \o <<NextFrame(L)>> = Append(FlattenSeq(p), NextFrame(L))
       /\ FlattenSeq(p) \o <<>> = FlattenSeq(p)
  BY <1>13, <1>14
<1>16. FramesIn(M) = IF line = <<>> /\ Pending(L, DataField) # <<>> THEN Append(FramesIn(L), NextFrame(L))
                     ELSE FramesIn(L)
  BY <1>11, <1>12, <1>13, <1>15
<1>17. QED
  BY <1>12, <1>13, <1>16 DEF M

LEMMA NothingRead ==
    /\ FramesIn(<<>>) = <<>> /\ Ids(<<>>) = <<>>
    /\ \A f : Pending(<<>>, f) = <<>>
<1>1. <<>> \in Seq(Text) /\ Len(<<>>) = 0 /\ 0 + 1 = 1 /\ 1 - 1 = 0
  OBVIOUS
<1>2. \A f : ValuesBetween(<<>>, 0, 1, f) = <<>>
  BY <1>1, NoValues
<1>3. BlankBefore(<<>>, 1) = 0
  <2>1. 1 \in 1..(Len(<<>>) + 1) /\ 0..(1 - 1) = {0}
    OBVIOUS
  <2>2. QED
    BY <1>1, <2>1, BlankType
<1>4. FramesIn(<<>>) = <<>>
  BY DEF FramesIn, FlattenSeq
<1>5. QED
  BY <1>1, <1>2, <1>3, <1>4 DEF Pending, Ids

(***************************************************************************)
(* The decoder has read these lines.                                       *)
(***************************************************************************)
Reads(lines) ==
    /\ frames = FramesIn(lines)
    /\ data_lines = Pending(lines, DataField)
    /\ event_type = LastOf(Pending(lines, EventField))
    /\ last_event_id = LastOf(Ids(lines))

LEMMA FlushReads ==
    ASSUME NEW L \in Seq(Text), Reads(L), saw_data = (data_lines # <<>>),
           Flush, UNCHANGED last_event_id
    PROVE  Reads(Append(L, <<>>))'
<1>1. <<>> \in Text
  BY DEF Text
<1>2. /\ data_lines' = <<>> /\ event_type' = None
      /\ frames' = IF saw_data
                   THEN Append(frames, [event |-> IF event_type = None THEN Default ELSE event_type[1],
                                        data |-> data_lines, id |-> last_event_id])
                   ELSE frames
  BY DEF Flush, FlushThen
<1>3. [event |-> IF event_type = None THEN Default ELSE event_type[1],
       data |-> data_lines, id |-> last_event_id] = NextFrame(L)
  BY DEF Reads, NextFrame
<1>4. FramesIn(Append(L, <<>>)) = IF Pending(L, DataField) # <<>> THEN Append(FramesIn(L), NextFrame(L))
                                  ELSE FramesIn(L)
  BY <1>1, FramesAppend
<1>5. frames' = FramesIn(Append(L, <<>>))
  BY <1>2, <1>3, <1>4 DEF Reads
<1>6. /\ Pending(Append(L, <<>>), DataField) = <<>> /\ Pending(Append(L, <<>>), EventField) = <<>>
  BY PendingBlank
<1>7. LastOf(<<>>) = None
  BY DEF LastOf
<1>8. Ids(Append(L, <<>>)) = Ids(L)
  BY <1>1, IdsAppend DEF Gives
<1>9. last_event_id' = LastOf(Ids(L))
  BY DEF Reads
<1>10. QED
  BY <1>2, <1>5, <1>6, <1>7, <1>8, <1>9 DEF Reads

LEMMA FeedLineReads ==
    ASSUME NEW L \in Seq(Text), NEW line \in Text, Reads(L), saw_data = (data_lines # <<>>),
           FeedLine(line)
    PROVE  Reads(Append(L, line))'
<1>1. CASE line = <<>>
  BY <1>1, FlushReads DEF FeedLine
<1>2. CASE line # <<>>
  <2>1. Accumulate(line)
    BY <1>2 DEF FeedLine
  <2>2. Tail(line) \in Text
    BY <1>2, HeadTailProperties DEF Text
  <2>3. /\ Pending(L, DataField) \in Seq(Text) /\ Pending(L, EventField) \in Seq(Text) /\ Ids(L) \in Seq(Text)
    BY PendingType
  <2>4. frames' = FramesIn(Append(L, line))
    BY <1>2, <2>1, FramesAppend DEF Accumulate, Reads
  <2>5. data_lines' = Pending(Append(L, line), DataField)
    BY <1>2, <2>1, PendingAppend DEF Accumulate, Reads
  <2>6. event_type' = LastOf(Pending(Append(L, line), EventField))
    <3>1. event_type' = IF Gives(line, EventField) THEN Some(Tail(line)) ELSE LastOf(Pending(L, EventField))
      BY <2>1 DEF Accumulate, Reads
    <3>2. Pending(Append(L, line), EventField) =
             IF Gives(line, EventField) THEN Append(Pending(L, EventField), Tail(line)) ELSE Pending(L, EventField)
      BY <1>2, PendingAppend
    <3>3. LastOf(Append(Pending(L, EventField), Tail(line))) = Some(Tail(line))
      BY <2>2, <2>3, LastOfAppend
    <3>4. QED
      BY <3>1, <3>2, <3>3
  <2>7. last_event_id' = LastOf(Ids(Append(L, line)))
    <3>1. last_event_id' = IF Gives(line, IdField) THEN Some(Tail(line)) ELSE LastOf(Ids(L))
      BY <2>1 DEF Accumulate, Reads
    <3>2. Ids(Append(L, line)) = IF Gives(line, IdField) THEN Append(Ids(L), Tail(line)) ELSE Ids(L)
      BY IdsAppend
    <3>3. LastOf(Append(Ids(L), Tail(line))) = Some(Tail(line))
      BY <2>2, <2>3, LastOfAppend
    <3>4. QED
      BY <3>1, <3>2, <3>3
  <2>8. QED
    BY <2>4, <2>5, <2>6, <2>7 DEF Reads
<1>3. QED
  BY <1>1, <1>2

-----------------------------------------------------------------------------
(* Parts of a text. *)

(* The letters after c and up to e.                                        *)
LEMMA PartAfter ==
    ASSUME NEW s \in Text, NEW c \in Nat, NEW e \in 0..Len(s), c <= e
    PROVE  /\ SubSeq(s, c + 1, e) \in Text /\ Len(SubSeq(s, c + 1, e)) = e - c
           /\ \A k \in 1..(e - c) : SubSeq(s, c + 1, e)[k] = s[c + k]
<1>1. c + 1 \in Nat \ {0}
  OBVIOUS
<1>2. PICK b : b = SubSeq(s, c + 1, e)
  OBVIOUS
<1>3. /\ b \in Text
      /\ Len(b) = IF c + 1 <= e THEN e - (c + 1) + 1 ELSE 0
      /\ \A k \in 1..(e - (c + 1) + 1) : b[k] = s[(c + 1) + k - 1]
  BY <1>1, <1>2, PartType
<1>4. e \in Nat /\ Len(b) = e - c
  BY <1>3
<1>5. \A k \in 1..(e - c) : k \in 1..(e - (c + 1) + 1) /\ (c + 1) + k - 1 = c + k
  BY <1>4
<1>6. \A k \in 1..(e - c) : b[k] = s[c + k]
  BY <1>3, <1>5
<1>7. QED
  BY <1>2, <1>3, <1>4, <1>6

LEMMA PartOfPart ==
    ASSUME NEW s \in Text, NEW c \in 0..Len(s), NEW i \in Nat \ {0}, NEW j \in 0..(Len(s) - c)
    PROVE  SubSeq(SubSeq(s, c + 1, Len(s)), i, j) = SubSeq(s, c + i, c + j)
<1>1. PICK n \in Nat : n = Len(s) /\ c \in 0..n /\ j \in 0..(n - c)
  BY DEF Text
<1>2. PICK b : b = SubSeq(s, c + 1, n)
  OBVIOUS
<1>3. /\ b \in Text /\ Len(b) = n - c
      /\ \A k \in 1..(n - c) : b[k] = s[c + k]
  <2>1. c \in Nat /\ n \in 0..Len(s) /\ c <= n
    BY <1>1, <1>2
  <2>2. /\ b \in Text /\ Len(b) = n - c
        /\ \A k \in 1..(n - c) : b[k] = s[c + k]
    BY <1>2, <2>1, PartAfter
  <2>3. n - c = n - c
    BY <1>1
  <2>4. QED
    BY <2>2, <2>3
<1>4. j \in 0..Len(b) /\ c + i \in Nat \ {0} /\ c + j \in 0..Len(s)
  BY <1>1, <1>2, <1>3
<1>5. /\ SubSeq(b, i, j) \in Text /\ Len(SubSeq(b, i, j)) = IF i <= j THEN j - i + 1 ELSE 0
      /\ \A k \in 1..(j - i + 1) : SubSeq(b, i, j)[k] = b[i + k - 1]
  BY <1>2, <1>3, <1>4, PartType
<1>6. /\ SubSeq(s, c + i, c + j) \in Text
      /\ Len(SubSeq(s, c + i, c + j)) = IF c + i <= c + j THEN (c + j) - (c + i) + 1 ELSE 0
      /\ \A k \in 1..((c + j) - (c + i) + 1) : SubSeq(s, c + i, c + j)[k] = s[(c + i) + k - 1]
  BY <1>4, PartType
<1>7. /\ (IF c + i <= c + j THEN (c + j) - (c + i) + 1 ELSE 0) = IF i <= j THEN j - i + 1 ELSE 0
      /\ (c + j) - (c + i) + 1 = j - i + 1
  BY <1>1
<1>8. \A k \in 1..(j - i + 1) : i + k - 1 \in 1..(n - c) /\ c + (i + k - 1) = (c + i) + k - 1
  BY <1>1
<1>9. \A k \in 1..(j - i + 1) : SubSeq(b, i, j)[k] = SubSeq(s, c + i, c + j)[k]
  BY <1>2, <1>3, <1>5, <1>6, <1>7, <1>8
<1>10. \A k \in 1..Len(SubSeq(b, i, j)) : k \in 1..(j - i + 1)
  BY <1>1, <1>5
<1>11. SubSeq(b, i, j) = SubSeq(s, c + i, c + j)
  <2>1. PICK x \in Text, y \in Text : x = SubSeq(b, i, j) /\ y = SubSeq(s, c + i, c + j)
    BY <1>5, <1>6
  <2>2. Len(x) = Len(y)
    BY <1>5, <1>6, <1>7, <2>1
  <2>3. \A k \in 1..Len(x) : x[k] = y[k]
    BY <1>9, <1>10, <2>1
  <2>4. x = y
    BY <2>1, <2>2, <2>3, SeqEqual DEF Text
  <2>5. QED
    BY <2>1, <2>4
<1>12. QED
  BY <1>1, <1>2, <1>3, <1>11

LEMMA PartOfJoin ==
    ASSUME NEW u \in Text, NEW v \in Text, NEW w, w = u \o v, NEW c \in 0..Len(u)
    PROVE  /\ w \in Text /\ Len(w) = Len(u) + Len(v)
           /\ \A k \in 1..Len(u) : w[k] = u[k]
           /\ \A k \in 1..Len(v) : w[Len(u) + k] = v[k]
           /\ SubSeq(w, c + 1, Len(u)) = SubSeq(u, c + 1, Len(u))
           /\ SubSeq(w, c + 1, Len(u) + Len(v)) = SubSeq(u, c + 1, Len(u)) \o v
<1>1. PICK n \in Nat, m \in Nat : n = Len(u) /\ m = Len(v) /\ c \in 0..n
  BY DEF Text
<1>2. w \in Text
  <2>1. u \o v \in Text
    BY DEF Text
  <2>2. QED
    BY <2>1
<1>3. Len(w) = n + m
  BY <1>1, <1>2 DEF Text
<1>4. \A k \in 1..n : w[k] = u[k]
  BY <1>1, <1>2 DEF Text
<1>5. \A k \in 1..m : w[n + k] = v[k]
  BY <1>1, <1>2 DEF Text
<1>6. c + 1 \in Nat \ {0} /\ n \in 0..Len(u) /\ n \in 0..Len(w) /\ n + m \in 0..Len(w)
  BY <1>1, <1>3
<1>7. PICK b : b = SubSeq(u, c + 1, n)
  OBVIOUS
<1>8. /\ b \in Text /\ Len(b) = n - c
      /\ \A k \in 1..(n - c) : b[k] = u[c + k]
  <2>1. c \in Nat /\ n \in 0..Len(u) /\ c <= n
    BY <1>1, <1>2, <1>3
  <2>2. /\ b \in Text /\ Len(b) = n - c
        /\ \A k \in 1..(n - c) : b[k] = u[c + k]
    BY <1>7, <2>1, PartAfter
  <2>3. n - c = n - c
    BY <1>1
  <2>4. QED
    BY <2>2, <2>3
<1>9. PICK d : d = SubSeq(w, c + 1, n)
  OBVIOUS
<1>10. /\ d \in Text /\ Len(d) = n - c
      /\ \A k \in 1..(n - c) : d[k] = w[c + k]
  <2>1. c \in Nat /\ n \in 0..Len(w) /\ c <= n
    BY <1>1, <1>2, <1>3
  <2>2. /\ d \in Text /\ Len(d) = n - c
        /\ \A k \in 1..(n - c) : d[k] = w[c + k]
    BY <1>2, <1>9, <2>1, PartAfter
  <2>3. n - c = n - c
    BY <1>1
  <2>4. QED
    BY <2>2, <2>3
<1>11. PICK g : g = SubSeq(w, c + 1, n + m)
  OBVIOUS
<1>12. /\ g \in Text /\ Len(g) = (n - c) + m
      /\ \A k \in 1..((n - c) + m) : g[k] = w[c + k]
  <2>1. PICK z \in 0..Len(w) : z = n + m
    BY <1>1, <1>2, <1>3
  <2>2. c \in Nat /\ c <= z
    BY <1>1, <2>1
  <2>3. /\ SubSeq(w, c + 1, z) \in Text /\ Len(SubSeq(w, c + 1, z)) = z - c
        /\ \A k \in 1..(z - c) : SubSeq(w, c + 1, z)[k] = w[c + k]
    BY <1>2, <2>1, <2>2, PartAfter
  <2>4. z - c = (n - c) + m
    BY <1>1, <2>1
  <2>5. QED
    BY <1>11, <2>1, <2>3, <2>4
<1>13. b = d
  <2>1. \A k \in 1..(n - c) : c + k \in 1..n
    BY <1>1
  <2>2. \A k \in 1..Len(b) : b[k] = d[k]
    BY <1>4, <1>7, <1>8, <1>9, <1>10, <2>1
  <2>3. QED
    BY <1>7, <1>8, <1>9, <1>10, <2>2, SeqEqual DEF Text
<1>14. g = b \o v
  <2>1. b \o v \in Text /\ Len(b \o v) = (n - c) + m
    <3>1. b \in Seq(Letter) /\ v \in Seq(Letter) /\ Len(b) = n - c /\ Len(v) = m
      BY <1>1, <1>7, <1>8 DEF Text
    <3>2. b \o v \in Seq(Letter) /\ Len(b \o v) = Len(b) + Len(v)
      BY ONLY <3>1
    <3>3. QED
      BY <3>1, <3>2 DEF Text
  <2>2. ASSUME NEW k \in 1..(n - c) PROVE g[k] = (b \o v)[k]
    <3>1. (b \o v)[k] = b[k]
      BY <1>7, <1>8 DEF Text
    <3>2. k \in 1..((n - c) + m) /\ c + k \in 1..n
      BY <1>1
    <3>3. QED
      BY <1>4, <1>7, <1>8, <1>11, <1>12, <3>1, <3>2
  <2>3. ASSUME NEW k \in 1..m PROVE g[(n - c) + k] = (b \o v)[(n - c) + k]
    <3>1. (b \o v)[(n - c) + k] = v[k]
      <4>1. /\ b \in Seq(Letter) /\ v \in Seq(Letter) /\ k \in 1..Len(v)
            /\ Len(b) + k = (n - c) + k
        BY <1>1, <1>8 DEF Text
      <4>2. (b \o v)[Len(b) + k] = v[k]
        BY ONLY <4>1
      <4>3. QED
        BY <4>1, <4>2
    <3>2. (n - c) + k \in 1..((n - c) + m) /\ c + ((n - c) + k) = n + k
      BY <1>1
    <3>3. QED
      BY <1>5, <1>11, <1>12, <3>1, <3>2
  <2>4. \A k \in 1..((n - c) + m) : k \in 1..(n - c) \/ (k - (n - c) \in 1..m /\ k = (n - c) + (k - (n - c)))
    BY <1>1
  <2>5. \A k \in 1..((n - c) + m) : g[k] = (b \o v)[k]
    BY <2>2, <2>3, <2>4
  <2>6. QED
    BY <1>11, <1>12, <2>1, <2>5, SeqEqual DEF Text
<1>15. QED
  BY <1>1, <1>2, <1>3, <1>4, <1>5, <1>7, <1>8, <1>9, <1>10, <1>11, <1>12, <1>13, <1>14

LEMMA HeadOfJoin ==
    ASSUME NEW u \in Text, NEW v \in Text, NEW w, w = u \o v, NEW c \in 0..Len(u)
    PROVE  SubSeq(w, c + 1, Len(u)) = SubSeq(u, c + 1, Len(u))
BY PartOfJoin

LEMMA TailOfJoin ==
    ASSUME NEW u \in Text, NEW v \in Text, NEW w, w = u \o v, NEW c \in 0..Len(u)
    PROVE  SubSeq(w, c + 1, Len(u) + Len(v)) = SubSeq(u, c + 1, Len(u)) \o v
BY PartOfJoin

-----------------------------------------------------------------------------
(* Where decoded text begins and ends. *)

(* A text ends with CR only if its bytes do.                               *)
LEMMA LossyEndsInCR ==
    ASSUME NEW s \in Text, NEW t, t = LossyUtf8(s), t # <<>>, t[Len(t)] = CR
    PROVE  s # <<>> /\ s[Len(s)] = CR
<1>1. PICK n \in Nat : n = Len(s) /\ DOMAIN s = 1..n
  BY DEF Text
<1>2. PICK q \in Seq(Text) : /\ q = [i \in DOMAIN s |-> TextAt(s, i)] /\ Len(q) = n
                             /\ \A i \in 1..n : q[i] = TextAt(s, i)
  BY <1>1, PiecesType
<1>3. t = FlattenSeq(q)
  BY <1>2 DEF LossyUtf8
<1>4. n # 0
  <2>1. n = 0 => q = <<>>
    BY <1>2, EmptySeq
  <2>2. FlattenSeq(<<>>) = <<>>
    BY DEF FlattenSeq
  <2>3. QED
    BY <1>3, <2>1, <2>2
<1>5. PICK y \in Text : y = TextAt(s, n) /\ Len(y) = 1 /\ (y[1] = CR => s[n] = CR)
  <2>1. n \in DOMAIN s /\ s[n] \in Letter
    BY <1>1, <1>4 DEF Text
  <2>2. TextAt(s, n) \in Text
    BY <2>1, TextAtType
  <2>3. ~WholeAt(s, n)
    BY <1>1 DEF WholeAt
  <2>4. TextAt(s, n) \in {<<Char>>, <<Replacement>>, <<s[n]>>}
    BY <2>3 DEF TextAt
  <2>5. \A x : Len(<<x>>) = 1 /\ <<x>>[1] = x
    OBVIOUS
  <2>6. Len(TextAt(s, n)) = 1 /\ (TextAt(s, n)[1] = CR => s[n] = CR)
    BY <2>4, <2>5, Symbols
  <2>7. QED
    BY <2>2, <2>6
<1> DEFINE Good == {x \in Text : x # <<>> /\ (x[Len(x)] = CR => s[n] = CR)}
<1>6. \A x \in Text : x \o y \in Good
  <2>1. ASSUME NEW x \in Text PROVE x \o y \in Good
    <3>1. x \in Seq(Letter) /\ y \in Seq(Letter) /\ x \o y \in Text
      BY <1>5 DEF Text
    <3>2. /\ Len(x \o y) = Len(x) + Len(y) /\ Len(x) \in Nat
          /\ \A k \in 1..Len(y) : (x \o y)[Len(x) + k] = y[k]
      BY <3>1
    <3>3. Len(x \o y) = Len(x) + 1 /\ (x \o y)[Len(x \o y)] = y[1]
      BY <1>5, <3>2
    <3>4. x \o y # <<>>
      BY <3>1, <3>2, <3>3, EmptySeq
    <3>5. QED
      BY <1>5, <3>1, <3>3, <3>4
  <2>2. QED
    BY <2>1
<1>7. y \in Good
  <2>1. y \in Text /\ Len(y) = 1 /\ (y[1] = CR => s[n] = CR)
    BY <1>5
  <2>2. y \in Seq(Letter) /\ Len(y) # 0
    BY <2>1 DEF Text
  <2>3. y # <<>>
    BY <2>2, EmptySeq
  <2>4. QED
    BY <2>1, <2>3
<1>8. PICK Q : Q = [i \in 1..n |-> IF i = n THEN Good ELSE Text]
  OBVIOUS
<1>9. Good \subseteq Text
  OBVIOUS
<1> HIDE DEF Good
<1>10. q[1] \in Q[1]
  <2>1. 1 \in 1..n /\ TextAt(s, 1) \in Text
    BY <1>1, <1>4, TextAtType
  <2>2. QED
    BY <1>2, <1>5, <1>7, <1>8, <2>1
<1>11. ASSUME NEW i \in 1..n, i # 1, NEW x \in Q[i - 1] PROVE x \o q[i] \in Q[i]
  <2>1. i - 1 \in 1..n /\ i - 1 # n
    BY <1>11
  <2>2. x \in Text
    BY <1>8, <1>11, <2>1
  <2>3. q[i] = TextAt(s, i) /\ TextAt(s, i) \in Text
    BY <1>1, <1>2, TextAtType
  <2>4. x \o q[i] \in Text
    BY <2>2, <2>3 DEF Text
  <2>5. i = n => x \o q[i] \in Good
    BY <1>5, <1>6, <2>2, <2>3
  <2>6. QED
    BY <1>8, <2>4, <2>5
<1>12. FlattenSeq(q) \in Q[n]
  <2>1. n \in Nat \ {0} /\ Len(q) = n
    BY <1>2, <1>4
  <2>2. QED
    BY ONLY <2>1, <1>10, <1>11, FlattenSeqInduction
<1>13. FlattenSeq(q) \in Good
  BY <1>4, <1>8, <1>12
<1>14. s[n] = CR
  BY <1>3, <1>13 DEF Good
<1>15. s # <<>>
  BY <1>1, <1>4
<1>16. QED
  BY <1>1, <1>14, <1>15

(* A text begins with LF only if its bytes do.                             *)
LEMMA LossyBeginsWithLF ==
    ASSUME NEW s \in Text, LossyUtf8(s) # <<>>, LossyUtf8(s)[1] = LF
    PROVE  s # <<>> /\ s[1] = LF
<1>1. PICK n \in Nat : n = Len(s) /\ DOMAIN s = 1..n
  BY DEF Text
<1>2. PICK q \in Seq(Text) : /\ q = [i \in DOMAIN s |-> TextAt(s, i)] /\ Len(q) = n
                             /\ \A i \in 1..n : q[i] = TextAt(s, i)
  BY <1>1, PiecesType
<1>3. LossyUtf8(s) = FlattenSeq(q)
  BY <1>2 DEF LossyUtf8
<1>4. n # 0
  <2>1. n = 0 => q = <<>>
    BY <1>2, EmptySeq
  <2>2. FlattenSeq(<<>>) = <<>>
    BY DEF FlattenSeq
  <2>3. QED
    BY <1>3, <2>1, <2>2
<1>5. SUFFICES ASSUME s[1] # LF PROVE FALSE
  BY <1>1, <1>4
<1> DEFINE Good == {x \in Text : x # <<>> /\ x[1] # LF}
           Begun == {x \in Text : IF x = <<>> THEN WholeAt(s, 1) ELSE x[1] # LF}
<1>6. \A c \in Letter : c # LF => <<c>> \in Good
  BY DEF Text
<1>7. Char \in Letter /\ Replacement \in Letter /\ Char # LF /\ Replacement # LF
  <2>1. Char \in Letter /\ Replacement \in Letter
    BY DEF Letter
  <2>2. QED
    BY <2>1, Symbols
<1>8. q[1] \in Begun
  <2>1. ~WholeAt(s, 0)
    BY <1>1 DEF WholeAt
  <2>2. 1 - 1 = 0 /\ 1 \in 1..n
    BY <1>4
  <2>3. TextAt(s, 1) = IF WholeAt(s, 1) THEN <<>>
                       ELSE IF s[1] \in {Byte1, Byte2} THEN <<Replacement>> ELSE <<s[1]>>
    BY <2>1, <2>2 DEF TextAt
  <2>4. s[1] \in Letter /\ <<>> \in Text
    BY <1>1, <2>2 DEF Text
  <2>5. CASE WholeAt(s, 1)
    BY <1>2, <2>2, <2>3, <2>4, <2>5
  <2>6. CASE ~WholeAt(s, 1)
    <3>1. q[1] \in Good
      BY <1>2, <1>5, <1>6, <1>7, <2>2, <2>3, <2>4, <2>6
    <3>2. QED
      BY <3>1
  <2>7. QED
    BY <2>5, <2>6
<1>9. \A x \in Good, i \in 1..n : x \o q[i] \in Good
  <2>1. ASSUME NEW x \in Good, NEW i \in 1..n PROVE x \o q[i] \in Good
    <3>1. q[i] \in Text
      BY <1>1, <1>2, TextAtType
    <3>2. x \in Text /\ x # <<>> /\ x[1] # LF
      OBVIOUS
    <3>3. Len(x) \in Nat \ {0}
      BY <3>2, EmptySeq DEF Text
    <3>4. /\ x \o q[i] \in Text /\ Len(x \o q[i]) = Len(x) + Len(q[i]) /\ Len(q[i]) \in Nat
          /\ (x \o q[i])[1] = x[1]
      BY <3>1, <3>2, <3>3 DEF Text
    <3>5. x \o q[i] # <<>>
      BY <3>3, <3>4
    <3>6. QED
      BY <3>2, <3>4, <3>5
  <2>2. QED
    BY <2>1
<1>10. 2 \in 1..n => \A x \in Begun : x \o q[2] \in Good
  <2>1. ASSUME 2 \in 1..n, NEW x \in Begun PROVE x \o q[2] \in Good
    <3>1. CASE x # <<>>
      <4>1. x \in Good
        BY <3>1
      <4>2. QED
        BY <1>9, <2>1, <4>1
    <3>2. CASE x = <<>>
      <4>1. WholeAt(s, 1)
        BY <3>2
      <4>2. s[2] = Byte2 /\ ~WholeAt(s, 2)
        BY <4>1, Symbols DEF WholeAt
      <4>3. 2 - 1 = 1
        OBVIOUS
      <4>4. q[2] = <<Char>>
        BY <1>2, <2>1, <4>1, <4>2, <4>3 DEF TextAt
      <4>5. <<>> \o <<Char>> = <<Char>>
        OBVIOUS
      <4>6. QED
        BY <1>6, <1>7, <3>2, <4>4, <4>5
    <3>3. QED
      BY <3>1, <3>2
  <2>2. QED
    BY <2>1
<1>11. PICK Q : Q = [i \in 1..n |-> IF i = 1 THEN Begun ELSE Good]
  OBVIOUS
<1>12. \A x \in Good \cup Begun : x # <<>> => x[1] # LF
  OBVIOUS
<1> HIDE DEF Good, Begun
<1>13. q[1] \in Q[1]
  BY <1>4, <1>8, <1>11
<1>14. ASSUME NEW i \in 1..n, i # 1, NEW x \in Q[i - 1] PROVE x \o q[i] \in Q[i]
  <2>1. CASE i = 2
    <3>1. 2 - 1 = 1 /\ 1 \in 1..n
      BY <1>4
    <3>2. x \in Begun
      BY <1>11, <1>14, <2>1, <3>1
    <3>3. QED
      BY <1>10, <1>11, <2>1, <3>2
  <2>2. CASE i # 2
    <3>1. i - 1 \in 1..n /\ i - 1 # 1
      BY <1>14, <2>2
    <3>2. x \in Good
      BY <1>11, <1>14, <3>1
    <3>3. QED
      BY <1>9, <1>11, <1>14, <3>2
  <2>3. QED
    BY <2>1, <2>2
<1>15. FlattenSeq(q) \in Q[n]
  <2>1. n \in Nat \ {0} /\ Len(q) = n
    BY <1>2, <1>4
  <2>2. QED
    BY ONLY <2>1, <1>13, <1>14, FlattenSeqInduction
<1>16. FlattenSeq(q) \in Good \cup Begun
  BY <1>4, <1>11, <1>15
<1>17. QED
  BY <1>3, <1>12, <1>16

LEMMA LossyLF == <<LF, LF>> \in Text /\ LossyUtf8(<<LF, LF>>) = <<LF, LF>>
<1>1. LF \in Letter
  BY DEF Letter
<1>2. PICK s \in Text : s = <<LF>> /\ Len(s) = 1 /\ s[1] = LF
  <2>1. <<LF>> \in Text /\ Len(<<LF>>) = 1 /\ <<LF>>[1] = LF
    BY <1>1 DEF Text
  <2>2. QED
    BY <2>1, Zenon
<1>3. TextAt(s, 1) = <<LF>>
  <2>1. ~WholeAt(s, 1) /\ ~WholeAt(s, 1 - 1)
    BY <1>2 DEF WholeAt
  <2>2. QED
    BY <1>2, <2>1, Symbols DEF TextAt
<1>4. PICK q \in Seq(Text) : /\ q = [i \in DOMAIN s |-> TextAt(s, i)] /\ Len(q) = 1 /\ q[1] = <<LF>>
  <2>1. PICK q : q = [i \in DOMAIN s |-> TextAt(s, i)]
    OBVIOUS
  <2>2. q \in Seq(Text) /\ Len(q) = Len(s) /\ \A i \in 1..Len(s) : q[i] = TextAt(s, i)
    BY <2>1, PiecesType
  <2>3. Len(q) = 1 /\ q[1] = <<LF>>
    BY <1>2, <1>3, <2>2
  <2>4. QED
    BY <2>1, <2>2, <2>3, Zenon
<1>5. LossyUtf8(s) = <<LF>>
  <2>1. PICK Q : Q = [i \in 1..1 |-> {<<LF>>}]
    OBVIOUS
  <2>2. /\ q[1] \in Q[1] /\ 1 \in Nat \ {0}
        /\ \A i \in 1..1 : i # 1 => \A x \in Q[i - 1] : x \o q[i] \in Q[i]
    BY <1>4, <2>1
  <2>3. FlattenSeq(q) \in Q[1]
    BY ONLY <1>4, <2>2, FlattenSeqInduction
  <2>4. QED
    BY <1>4, <2>1, <2>3 DEF LossyUtf8
<1>6. LossyUtf8(s \o s) = LossyUtf8(s) \o LossyUtf8(s)
  <2>1. ~(s[Len(s)] = Byte1 /\ s[1] = Byte2)
    BY <1>2, Symbols
  <2>2. QED
    BY <2>1, LossyConcat
<1>7. <<LF>> \o <<LF>> = <<LF, LF>> /\ <<LF, LF>> \in Text
  <2>1. <<LF, LF>> \in Text
    BY <1>1 DEF Text
  <2>2. <<LF>> \o <<LF>> = <<LF, LF>>
    <3>1. <<LF>> \in Seq(Letter) /\ Len(<<LF>>) = 1 /\ <<LF>>[1] = LF
      BY <1>1
    <3>2. PICK w \in Seq(Letter) : w = <<LF>> \o <<LF>> /\ Len(w) = 2 /\ w[1] = LF /\ w[1 + 1] = LF
      <4>1. PICK x \in Seq(Letter) : x = <<LF>> /\ Len(x) = 1 /\ x[1] = LF
        BY <3>1, Zenon
      <4>2. x \o x \in Seq(Letter) /\ Len(x \o x) = 2 /\ (x \o x)[1] = x[1]
        BY <4>1
      <4>3. \A k \in 1..Len(x) : (x \o x)[Len(x) + k] = x[k]
        BY <4>1
      <4>4. (x \o x)[1 + 1] = x[1]
        BY <4>1, <4>3
      <4>5. QED
        BY <4>1, <4>2, <4>4, Zenon
    <3>3. \A k \in 1..2 : k = 1 \/ k = 1 + 1
      OBVIOUS
    <3>4. <<LF, LF>> \in Seq(Letter) /\ Len(<<LF, LF>>) = 2 /\ <<LF, LF>>[1] = LF /\ <<LF, LF>>[1 + 1] = LF
      BY <1>1
    <3>5. PICK v \in Seq(Letter) : v = <<LF, LF>> /\ Len(v) = 2 /\ v[1] = LF /\ v[1 + 1] = LF
      BY <3>4, Zenon
    <3>6. w = v
      BY <3>2, <3>3, <3>5, SeqEqual
    <3>7. QED
      BY <3>2, <3>5, <3>6
  <2>3. QED
    BY <2>1, <2>2
<1>8. QED
  BY <1>2, <1>5, <1>6, <1>7

-----------------------------------------------------------------------------
(* What has been consumed of the text, and what is still in the buffer. *)

(* More bytes: the cut stays one, and what follows it grows.               *)
LEMMA CutGrows ==
    ASSUME NEW s \in Text, NEW d \in Text,
           s # <<>> /\ d # <<>> => ~(s[Len(s)] = CR /\ d[1] = LF) /\ ~(s[Len(s)] = Byte1 /\ d[1] = Byte2),
           NEW c \in 0..Len(LossyUtf8(s)), CutAt(LossyUtf8(s), c)
    PROVE  LET t == LossyUtf8(s)
               u == LossyUtf8(s \o d)
           IN  /\ c \in 0..Len(u) /\ CutAt(u, c) /\ LinesUpTo(u, c) = LinesUpTo(t, c)
               /\ SubSeq(u, c + 1, Len(u)) = SubSeq(t, c + 1, Len(t)) \o LossyUtf8(d)
<1>1. PICK t \in Text, u \in Text : t = LossyUtf8(s) /\ u = LossyUtf8(s \o d) /\ c \in 0..Len(t) /\ CutAt(t, c)
  <2>1. s \o d \in Text
    BY DEF Text
  <2>2. LossyUtf8(s) \in Text /\ LossyUtf8(s \o d) \in Text
    BY <2>1, LossyType
  <2>3. QED
    BY <2>2, Zenon
<1>2. PICK v \in Text : v = LossyUtf8(d)
  BY LossyType
<1>3. u = t \o v
  BY <1>1, <1>2, LossyConcat
<1>4. /\ Len(u) = Len(t) + Len(v)
      /\ \A k \in 1..Len(t) : u[k] = t[k]
      /\ \A k \in 1..Len(v) : u[Len(t) + k] = v[k]
      /\ SubSeq(u, c + 1, Len(u)) = SubSeq(t, c + 1, Len(t)) \o v
  <2>1. t \in Text /\ v \in Text /\ u = t \o v /\ c \in 0..Len(t)
    BY <1>1, <1>2, <1>3
  <2>2. SubSeq(u, c + 1, Len(t) + Len(v)) = SubSeq(t, c + 1, Len(t)) \o v
    BY ONLY <2>1, TailOfJoin
  <2>3. Len(u) = Len(t) + Len(v)
    BY ONLY <2>1, PartOfJoin
  <2>4. \A k \in 1..Len(t) : u[k] = t[k]
    BY ONLY <2>1, PartOfJoin
  <2>5. \A k \in 1..Len(v) : u[Len(t) + k] = v[k]
    BY ONLY <2>1, PartOfJoin
  <2>6. QED
    BY <1>1, <2>2, <2>3, <2>4, <2>5
<1>5. Len(t) \in Nat /\ Len(v) \in Nat
  BY <1>1, <1>2 DEF Text
<1>6. c \in 0..Len(u)
  BY <1>1, <1>4, <1>5
<1>7. LinesUpTo(u, c) = LinesUpTo(t, c)
  <2>1. \A i \in 1..c : u[i] = t[i]
    BY <1>1, <1>4, <1>5
  <2>2. QED
    BY <1>1, <1>6, <2>1, LinesUpToLocal
<1>8. CutAt(u, c)
  <2>1. SUFFICES ASSUME c # 0
                 PROVE  u[c] \in {CR, LF} /\ (c < Len(u) => ~(u[c] = CR /\ u[c + 1] = LF))
    BY <1>1 DEF CutAt
  <2>2. u[c] = t[c] /\ t[c] \in {CR, LF}
    BY <1>1, <1>4, <1>5, <2>1 DEF CutAt
  <2>3. CASE c < Len(t)
    <3>1. u[c + 1] = t[c + 1]
      BY <1>1, <1>4, <1>5, <2>3
    <3>2. QED
      BY <1>1, <2>1, <2>2, <2>3, <3>1 DEF CutAt
  <2>4. CASE c = Len(t)
    <3>1. SUFFICES ASSUME c < Len(u), u[c] = CR, u[c + 1] = LF PROVE FALSE
      BY <1>1, <2>2
    <3>2. 1 \in 1..Len(v) /\ v[1] = LF
      BY <1>1, <1>4, <1>5, <2>4, <3>1
    <3>3. t # <<>> /\ t[Len(t)] = CR
      <4>1. Len(t) # 0
        BY <1>1, <2>1, <2>4
      <4>2. QED
        BY <1>1, <2>2, <2>4, <3>1, <4>1, EmptySeq DEF Text
    <3>4. s # <<>> /\ s[Len(s)] = CR
      BY <1>1, <3>3, LossyEndsInCR
    <3>5. v # <<>>
      BY <1>1, <3>2
    <3>6. d # <<>> /\ d[1] = LF
      BY <1>1, <1>2, <3>2, <3>5, LossyBeginsWithLF
    <3>7. QED
      BY <1>1, <3>4, <3>6
  <2>5. QED
    BY <1>1, <1>5, <2>3, <2>4
<1>9. QED
  BY <1>1, <1>2, <1>4, <1>6, <1>7, <1>8

LEMMA TakeType ==
    ASSUME NEW b \in Text, HasLine(b)
    PROVE  /\ FirstEnd(b) \in 1..Len(b) /\ b[FirstEnd(b)] \in {CR, LF}
           /\ \A i \in 1..(FirstEnd(b) - 1) : b[i] \notin {CR, LF}
           /\ FirstLine(b) \in Text /\ Rest(b) \in Text /\ Len(Rest(b)) <= Len(b)
<1>1. PICK n \in Nat : n = Len(b) /\ DOMAIN b = 1..n
  BY DEF Text
<1>2. Terminators(b) \subseteq Nat /\ Terminators(b) # {}
  BY <1>1 DEF Terminators, HasLine
<1>3. PICK e \in Terminators(b) : e = FirstEnd(b) /\ \A x \in Terminators(b) : e <= x
  BY <1>2, LeastIsMin DEF FirstEnd
<1>4. e \in 1..n /\ b[e] \in {CR, LF}
  BY <1>1, <1>3 DEF Terminators
<1>5. ASSUME NEW i \in 1..(e - 1) PROVE b[i] \notin {CR, LF}
  <2>1. i \in 1..n /\ ~(e <= i)
    BY <1>1, <1>4
  <2>2. i \notin Terminators(b)
    BY <1>3, <2>1
  <2>3. QED
    BY <1>1, <2>1, <2>2 DEF Terminators
<1>6. FirstLine(b) \in Text
  <2>1. e - 1 \in 0..Len(b) /\ 1 \in Nat \ {0}
    BY <1>1, <1>4
  <2>2. SubSeq(b, 1, e - 1) \in Text
    BY <2>1, PartType
  <2>3. QED
    BY <1>3, <2>2 DEF FirstLine
<1>7. PICK d \in 1..n : Rest(b) = SubSeq(b, d + 1, n)
  <2>1. CASE b[e] = CR /\ e < n /\ b[e + 1] = LF
    <3>1. Rest(b) = SubSeq(b, e + 2, n)
      BY <1>1, <1>3, <2>1 DEF Rest
    <3>2. e + 1 \in 1..n /\ (e + 1) + 1 = e + 2
      BY <1>4, <2>1
    <3>3. QED
      BY <3>1, <3>2
  <2>2. CASE ~(b[e] = CR /\ e < n /\ b[e + 1] = LF)
    <3>1. Rest(b) = SubSeq(b, e + 1, n)
      BY <1>1, <1>3, <2>2 DEF Rest
    <3>2. QED
      BY <1>4, <3>1
  <2>3. QED
    BY <2>1, <2>2
<1>8. Rest(b) \in Text /\ Len(Rest(b)) <= Len(b)
  <2>1. d \in Nat /\ n \in 0..Len(b) /\ d <= n
    BY <1>1, <1>7
  <2>2. SubSeq(b, d + 1, n) \in Text /\ Len(SubSeq(b, d + 1, n)) = n - d
    BY <2>1, PartAfter
  <2>3. n - d <= n
    BY <1>7
  <2>4. QED
    BY <1>1, <1>7, <2>2, <2>3
<1>9. QED
  BY <1>1, <1>3, <1>4, <1>5, <1>6, <1>8

(* Taking a line from the buffer moves the cut past its terminator.        *)
LEMMA LineTaken ==
    ASSUME NEW s \in Text, NEW c \in 0..Len(s), CutAt(s, c),
           NEW b \in Text, b = SubSeq(s, c + 1, Len(s)), HasLine(b)
    PROVE  \E d \in 0..Len(s) :
              /\ CutAt(s, d) /\ Rest(b) = SubSeq(s, d + 1, Len(s))
              /\ LinesUpTo(s, d) = Append(LinesUpTo(s, c), FirstLine(b))
<1>1. PICK n \in Nat : n = Len(s) /\ c \in 0..n
  BY DEF Text
<1>2. /\ Len(b) = n - c /\ \A k \in 1..(n - c) : b[k] = s[c + k]
  <2>1. c \in Nat /\ n \in 0..Len(s) /\ c <= n
    BY <1>1
  <2>2. QED
    BY <1>1, <2>1, PartAfter
<1>3. PICK f \in 1..(n - c) : /\ f = FirstEnd(b) /\ b[f] \in {CR, LF}
                              /\ \A i \in 1..(f - 1) : b[i] \notin {CR, LF}
  BY <1>2, TakeType
<1>4. PICK e \in (c + 1)..n : e = c + f
  BY <1>1, <1>3
<1>5. s[e] = b[f] /\ s[e] \in {CR, LF}
  BY <1>2, <1>3, <1>4
<1>6. ASSUME NEW i \in (c + 1)..(e - 1) PROVE s[i] \notin {CR, LF}
  <2>1. i - c \in 1..(f - 1) /\ i - c \in 1..(n - c) /\ c + (i - c) = i
    BY <1>1, <1>3, <1>4
  <2>2. QED
    BY <1>2, <1>3, <2>1
<1>7. LinesUpTo(s, e) = Append(LinesUpTo(s, c), SubSeq(s, c + 1, e - 1))
  BY <1>1, <1>4, <1>5, <1>6, NextLine
<1>8. FirstLine(b) = SubSeq(s, c + 1, e - 1)
  <2>1. 1 \in Nat \ {0} /\ f - 1 \in 0..(Len(s) - c) /\ c + (f - 1) = e - 1
    BY <1>1, <1>3, <1>4
  <2>2. SubSeq(b, 1, f - 1) = SubSeq(s, c + 1, c + (f - 1))
    BY <2>1, PartOfPart
  <2>3. QED
    BY <1>3, <2>1, <2>2 DEF FirstLine
<1>9. /\ SubSeq(b, f + 1, Len(b)) = SubSeq(s, e + 1, n)
      /\ SubSeq(b, f + 2, Len(b)) = SubSeq(s, e + 2, n)
  <2>1. ASSUME NEW k \in Nat \ {0} PROVE SubSeq(b, f + k, Len(b)) = SubSeq(s, e + k, n)
    <3>1. f + k \in Nat \ {0} /\ n - c \in 0..(Len(s) - c) /\ c + (f + k) = e + k /\ c + (n - c) = n
      BY <1>1, <1>3, <1>4
    <3>2. SubSeq(b, f + k, n - c) = SubSeq(s, c + (f + k), c + (n - c))
      BY <3>1, PartOfPart
    <3>3. QED
      BY <1>2, <3>1, <3>2
  <2>2. 1 \in Nat \ {0} /\ 2 \in Nat \ {0}
    OBVIOUS
  <2>3. QED
    BY <2>1, <2>2, Zenon
<1>10. f < Len(b) <=> e < n
  BY <1>1, <1>2, <1>3, <1>4
<1>11. e < n => b[f + 1] = s[e + 1]
  <2>1. e < n => f + 1 <= n - c /\ c + (f + 1) = e + 1
    BY <1>1, <1>3, <1>4
  <2>2. f + 1 <= n - c => f + 1 \in 1..(n - c)
    BY <1>1, <1>3
  <2>3. QED
    BY <1>2, <2>1, <2>2
<1>12. CASE s[e] = CR /\ e < n /\ s[e + 1] = LF
  <2>1. Rest(b) = SubSeq(s, e + 2, n)
    <3>1. Rest(b) = SubSeq(b, f + 2, Len(b))
      BY <1>3, <1>5, <1>10, <1>11, <1>12 DEF Rest
    <3>2. QED
      BY <1>9, <3>1
  <2>2. LinesUpTo(s, e + 1) = LinesUpTo(s, e)
    <3>1. e \in Nat \ {0} /\ e + 1 \in 1..Len(s)
      BY <1>1, <1>4, <1>12
    <3>2. QED
      BY <1>12, <3>1, CrLfIsOneEnd
  <2>3. CutAt(s, e + 1)
    BY <1>12, Symbols DEF CutAt
  <2>4. e + 1 \in 0..Len(s) /\ (e + 1) + 1 = e + 2
    BY <1>1, <1>4, <1>12
  <2>5. QED
    BY <1>1, <1>7, <1>8, <2>1, <2>2, <2>3, <2>4
<1>13. CASE ~(s[e] = CR /\ e < n /\ s[e + 1] = LF)
  <2>1. Rest(b) = SubSeq(s, e + 1, n)
    <3>1. Rest(b) = SubSeq(b, f + 1, Len(b))
      BY <1>3, <1>5, <1>10, <1>11, <1>13 DEF Rest
    <3>2. QED
      BY <1>9, <3>1
  <2>2. CutAt(s, e)
    BY <1>1, <1>5, <1>13 DEF CutAt
  <2>3. e \in 0..Len(s)
    BY <1>1, <1>4
  <2>4. QED
    BY <1>1, <1>7, <1>8, <2>1, <2>2, <2>3
<1>14. QED
  BY <1>12, <1>13

(* Once no line is left in the buffer, all lines have been taken.          *)
LEMMA NothingLeft ==
    ASSUME NEW s \in Text, NEW c \in 0..Len(s), ~HasLine(SubSeq(s, c + 1, Len(s)))
    PROVE  /\ LinesOf(s) = LinesUpTo(s, c)
           /\ \A i \in (c + 1)..Len(s) : s[i] \notin {CR, LF}
<1>1. PICK n \in Nat : n = Len(s) /\ DOMAIN s = 1..n /\ c \in 0..n
  BY DEF Text
<1>2. PICK b \in Text : /\ b = SubSeq(s, c + 1, n) /\ Len(b) = n - c
                        /\ \A k \in 1..(n - c) : b[k] = s[c + k]
  <2>1. c \in Nat /\ n \in 0..Len(s) /\ c <= n
    BY <1>1
  <2>2. QED
    BY <2>1, PartAfter
<1>3. DOMAIN b = 1..(n - c) /\ ~HasLine(b)
  BY <1>1, <1>2 DEF Text
<1>4. ASSUME NEW i \in (c + 1)..n PROVE s[i] \notin {CR, LF}
  <2>1. i - c \in 1..(n - c) /\ c + (i - c) = i
    BY <1>1
  <2>2. b[i - c] \notin {CR, LF}
    BY <1>3, <2>1 DEF HasLine, Terminators
  <2>3. QED
    BY <1>2, <2>1, <2>2
<1>5. \A i \in (c + 1)..n : i \notin LineEnds(s)
  BY <1>4 DEF LineEnds, Terminators
<1>6. LinesUpTo(s, n) = LinesUpTo(s, c)
  <2>1. n \in 0..Len(s)
    BY <1>1
  <2>2. QED
    BY <1>1, <1>5, <2>1, LinesUpToStill
<1>7. LinesOf(s) = LinesUpTo(s, n)
  BY <1>1 DEF LinesOf, LinesUpTo
<1>8. QED
  BY <1>1, <1>4, <1>6, <1>7

(* A line terminator and a blank line after the text.                      *)
LEMMA ClosedLines ==
    ASSUME NEW s \in Text, NEW c \in 0..Len(s), CutAt(s, c), ~HasLine(SubSeq(s, c + 1, Len(s)))
    PROVE  LET b == SubSeq(s, c + 1, Len(s))
               L == LinesUpTo(s, c)
           IN  LinesOf(s \o <<LF, LF>>) \in IF b # <<>> THEN {Append(Append(L, b), <<>>)}
                                            ELSE {Append(L, <<>>), Append(Append(L, <<>>), <<>>)}
<1>1. PICK w, b, L : /\ w \in Text /\ w = s \o <<LF, LF>> /\ b = SubSeq(s, c + 1, Len(s)) /\ ~HasLine(b)
                     /\ L = LinesUpTo(s, c)
  <2>1. PICK v \in Text : v = <<LF, LF>>
    BY LossyLF
  <2>2. s \o v \in Text
    BY <2>1 DEF Text
  <2>3. QED
    BY <2>1, <2>2
<1>2. PICK n \in Nat : n = Len(s) /\ c \in 0..n
  BY <1>1 DEF Text
<1>3. PICK v \in Text : v = <<LF, LF>> /\ Len(v) = 2 /\ v[1] = LF /\ v[2] = LF
  <2>1. <<LF, LF>> \in Text /\ Len(<<LF, LF>>) = 2 /\ <<LF, LF>>[1] = LF /\ <<LF, LF>>[2] = LF
    BY <1>1, LossyLF
  <2>2. QED
    BY <1>1, <2>1, Zenon
<1>4. /\ Len(w) = n + 2 /\ w[n + 1] = LF /\ w[n + 2] = LF
      /\ \A k \in 1..n : w[k] = s[k]
      /\ SubSeq(w, c + 1, n) = b
  <2>1. w = s \o v
    BY <1>1, <1>3
  <2>2. Len(w) = Len(s) + Len(v)
    BY ONLY <1>1, s \in Text, <1>3, <2>1, w \in Text DEF Text
  <2>3. \A k \in 1..Len(s) : w[k] = s[k]
    BY ONLY <1>1, s \in Text, <1>3, <2>1, w \in Text DEF Text
  <2>4. \A k \in 1..Len(v) : w[Len(s) + k] = v[k]
    BY ONLY <1>1, s \in Text, <1>3, <2>1, w \in Text DEF Text
  <2>5. SubSeq(w, c + 1, Len(s)) = SubSeq(s, c + 1, Len(s))
    BY <1>1, <1>3, <2>1, HeadOfJoin
  <2>6. 1 \in 1..Len(v) /\ 2 \in 1..Len(v)
    BY <1>1, <1>3
  <2>7. w[Len(s) + 1] = LF /\ w[Len(s) + 2] = LF
    BY <1>1, <1>3, <2>4, <2>6, Zenon
  <2>8. QED
    BY <1>1, <1>2, <1>3, <2>2, <2>3, <2>5, <2>7
<1>5. /\ DOMAIN w = 1..(n + 2)
      /\ c \in 0..Len(w) /\ n \in 0..Len(w) /\ n + 1 \in 0..Len(w) /\ n + 2 \in 0..Len(w)
  BY <1>1, <1>2, <1>4 DEF Text
<1>6. LinesOf(w) = LinesUpTo(w, n + 2)
  BY <1>1, <1>5 DEF LinesOf, LinesUpTo
<1>7. L = LinesUpTo(w, c)
  <2>1. \A k \in 1..c : w[k] = s[k]
    BY <1>1, <1>2, <1>4
  <2>2. c \in 0..Len(s)
    OBVIOUS
  <2>3. QED
    BY <1>1, <1>5, <2>1, <2>2, LinesUpToLocal
<1>8. \A i \in (c + 1)..n : w[i] \notin {CR, LF}
  <2>1. \A i \in (c + 1)..n : s[i] \notin {CR, LF}
    BY <1>1, <1>2, NothingLeft
  <2>2. \A i \in (c + 1)..n : i \in 1..n
    BY <1>1, <1>2
  <2>3. QED
    BY <1>1, <1>4, <2>1, <2>2
<1>9. LinesUpTo(w, n + 2) = Append(LinesUpTo(w, n + 1), <<>>)
  <2>1. CutAt(w, n + 1)
    BY <1>1, <1>4, Symbols DEF CutAt
  <2>2. PICK e \in Nat : e = n + 1 /\ e + 1 = n + 2 /\ e \in 0..Len(w)
    BY <1>1, <1>5
  <2>3. PICK f \in Nat : f = n + 2 /\ f \in (e + 1)..Len(w) /\ f - 1 = e /\ (e + 1)..(f - 1) = {}
    BY <1>1, <1>4, <2>2
  <2>4. w[f] \in {CR, LF} /\ \A i \in (e + 1)..(f - 1) : w[i] \notin {CR, LF}
    BY <1>1, <1>4, <2>3
  <2>5. LinesUpTo(w, f) = Append(LinesUpTo(w, e), SubSeq(w, e + 1, f - 1))
    BY <1>1, <2>1, <2>2, <2>3, <2>4, NextLine
  <2>6. SubSeq(w, e + 1, f - 1) = <<>>
    <3>1. e \in Nat /\ e \in 0..Len(w) /\ e <= e
      BY <1>1, <2>2
    <3>2. SubSeq(w, e + 1, e) \in Text /\ Len(SubSeq(w, e + 1, e)) = e - e
      BY <1>1, <3>1, PartAfter
    <3>3. SubSeq(w, e + 1, e) = <<>>
      BY <1>1, <3>1, <3>2, EmptySeq DEF Text
    <3>4. QED
      BY <1>1, <2>3, <3>3
  <2>7. QED
    BY <1>1, <2>2, <2>3, <2>5, <2>6
<1>10. CASE c # 0 /\ c = n /\ w[c] = CR
  <2>1. LinesUpTo(w, c + 1) = LinesUpTo(w, c)
    <3>1. c \in Nat \ {0} /\ c + 1 \in 1..Len(w) /\ w[c + 1] = LF
      BY <1>1, <1>2, <1>4, <1>10
    <3>2. QED
      BY <1>1, <1>10, <3>1, CrLfIsOneEnd
  <2>2. b = <<>>
    <3>1. c \in Nat /\ c \in 0..Len(s) /\ c <= c
      BY <1>1, <1>2
    <3>2. SubSeq(s, c + 1, c) \in Text /\ Len(SubSeq(s, c + 1, c)) = c - c
      BY <1>1, <3>1, PartAfter
    <3>3. SubSeq(s, c + 1, c) = <<>>
      BY <1>1, <3>1, <3>2, EmptySeq DEF Text
    <3>4. QED
      BY <1>1, <1>2, <1>10, <3>3
  <2>3. LinesOf(w) = Append(L, <<>>)
    BY <1>1, <1>6, <1>7, <1>9, <1>10, <2>1
  <2>4. QED
    BY <1>1, <2>2, <2>3
<1>11. CASE ~(c # 0 /\ c = n /\ w[c] = CR)
  <2>1. CutAt(w, c)
    <3>1. SUFFICES ASSUME c # 0
                   PROVE  w[c] \in {CR, LF} /\ (c < Len(w) => ~(w[c] = CR /\ w[c + 1] = LF))
      BY <1>1 DEF CutAt
    <3>2. w[c] = s[c] /\ s[c] \in {CR, LF}
      BY <1>1, <1>2, <1>4, <3>1 DEF CutAt
    <3>3. c = n => w[c] # CR
      BY <1>1, <1>11, <3>1
    <3>4. c # n => c < Len(s) /\ w[c + 1] = s[c + 1]
      BY <1>1, <1>2, <1>4
    <3>5. QED
      BY <1>1, <3>1, <3>2, <3>3, <3>4 DEF CutAt
  <2>2. PICK f \in Nat : f = n + 1 /\ f \in (c + 1)..Len(w) /\ f - 1 = n
    BY <1>1, <1>2, <1>4
  <2>3. w[f] \in {CR, LF} /\ \A i \in (c + 1)..(f - 1) : w[i] \notin {CR, LF}
    BY <1>1, <1>4, <1>8, <2>2
  <2>4. LinesUpTo(w, f) = Append(LinesUpTo(w, c), SubSeq(w, c + 1, f - 1))
    BY <1>1, <1>5, <2>1, <2>2, <2>3, NextLine
  <2>5. LinesOf(w) = Append(Append(L, b), <<>>)
    BY <1>1, <1>4, <1>6, <1>7, <1>9, <2>2, <2>4
  <2>6. QED
    BY <1>1, <2>5
<1>12. QED
  BY <1>1, <1>10, <1>11

(* A second blank line closes no frame.                                    *)
LEMMA BlankTwice ==
    ASSUME NEW L \in Seq(Text)
    PROVE  FramesIn(Append(Append(L, <<>>), <<>>)) = FramesIn(Append(L, <<>>))
<1>1. <<>> \in Text
  BY DEF Text
<1>2. PICK M \in Seq(Text) : M = Append(L, <<>>)
  <2>1. Append(L, <<>>) \in Seq(Text)
    BY <1>1
  <2>2. QED
    BY <2>1
<1>3. Pending(M, DataField) = <<>>
  BY <1>2, PendingBlank
<1>4. QED
  BY <1>1, <1>2, <1>3, FramesAppend

-----------------------------------------------------------------------------
(* The decoder. *)

Received == LossyUtf8(Arrived)

(* The lines up to c have been read, and the rest is in the buffer.        *)
Consumed(c) ==
    /\ CutAt(Received, c)
    /\ buffer = SubSeq(Received, c + 1, Len(Received))
    /\ Reads(LinesUpTo(Received, c))

(* The end of the body stands for a line end and a blank line.             *)
Closed == body \o <<LF, LF>>

(***************************************************************************)
(* The types, whatever the chunks are.                                     *)
(***************************************************************************)
BytesInv ==
    /\ body \in Body /\ pos \in 0..Len(body) /\ torn \in BOOLEAN
    /\ phase \in {"read", "finish", "ended", "aborted"}
    /\ buffer \in Text /\ Len(buffer) <= pos
    /\ data_lines \in Seq(Text) /\ saw_data = (data_lines # <<>>)

(***************************************************************************)
(* If no chunk tore a CRLF or a character: every line of the text received *)
(* so far has been read or is in the buffer, and after the end every line  *)
(* but the blank one that is not there has been read.                      *)
(***************************************************************************)
ReadingInv ==
    phase \in {"read", "aborted"} => /\ pos # 0 => ~Tears(pos)
                                     /\ \E c \in 0..Len(Received) : Consumed(c)

DecodeInv ==
    ~torn => /\ ReadingInv
             /\ phase = "aborted" => ~HasLine(buffer)
             /\ phase = "finish" =>
                   \E L \in Seq(Text) : Reads(L) /\ FramesIn(Append(L, <<>>)) = FramesOf(Closed)
             /\ phase = "ended" => frames = FramesOf(Closed)

LEMMA BytesInit == Init => BytesInv
<1>1. SUFFICES ASSUME Init PROVE BytesInv
  OBVIOUS
<1>2. body \in Body /\ body \in Text
  <2>1. body \in Body
    BY <1>1 DEF Init
  <2>2. QED
    BY <2>1, BodyText
<1>3. <<>> \in Text /\ <<>> \in Seq(Text) /\ Len(<<>>) = 0
  BY DEF Text
<1>4. Len(body) \in Nat /\ 0 \in 0..Len(body)
  BY <1>2 DEF Text
<1>5. /\ pos = 0 /\ torn = FALSE /\ phase = "read"
      /\ buffer = <<>> /\ data_lines = <<>> /\ saw_data = FALSE
  BY <1>1 DEF Init
<1>6. buffer \in Text /\ Len(buffer) <= pos /\ pos \in 0..Len(body)
  BY <1>3, <1>4, <1>5
<1>7. data_lines \in Seq(Text) /\ saw_data = (data_lines # <<>>)
  BY <1>3, <1>5
<1>8. QED
  BY <1>2, <1>5, <1>6, <1>7 DEF BytesInv

LEMMA ArrivedType ==
    ASSUME body \in Body, pos \in 0..Len(body)
    PROVE  /\ body \in Text /\ Arrived \in Text /\ Len(Arrived) = pos
           /\ \A k \in 1..pos : Arrived[k] = body[k]
           /\ Received \in Text
<1>1. body \in Text
  BY BodyText
<1>2. 0 \in Nat /\ 0 <= pos /\ 0 + 1 = 1 /\ pos - 0 = pos /\ \A k \in 1..pos : 0 + k = k
  OBVIOUS
<1>3. /\ SubSeq(body, 0 + 1, pos) \in Text /\ Len(SubSeq(body, 0 + 1, pos)) = pos - 0
      /\ \A k \in 1..(pos - 0) : SubSeq(body, 0 + 1, pos)[k] = body[0 + k]
  BY <1>1, <1>2, PartAfter
<1>4. /\ Arrived \in Text /\ Len(Arrived) = pos /\ \A k \in 1..pos : Arrived[k] = body[k]
  BY <1>2, <1>3 DEF Arrived
<1>5. Received \in Text
  BY <1>4, LossyType DEF Received
<1>6. QED
  BY <1>1, <1>4, <1>5

(* The bytes that a push of n appends.                                     *)
LEMMA ChunkType ==
    ASSUME body \in Body, pos \in 0..Len(body), NEW n \in Nat \ {0}, pos + n <= Len(body)
    PROVE  LET d == SubSeq(body, pos + 1, pos + n)
           IN  /\ d \in Text /\ Len(d) = n /\ d # <<>> /\ d[1] = body[pos + 1]
               /\ SubSeq(body, 1, pos + n) = Arrived \o d
<1>1. /\ body \in Text /\ Arrived \in Text /\ Len(Arrived) = pos
      /\ \A k \in 1..pos : Arrived[k] = body[k]
  BY ArrivedType
<1>2. PICK p \in Nat, e \in 0..Len(body) : p = pos /\ e = pos + n /\ e - p = n /\ e - 0 = e
  <2>1. pos \in Nat /\ pos + n \in 0..Len(body) /\ (pos + n) - pos = n /\ (pos + n) - 0 = pos + n
    BY <1>1 DEF Text
  <2>2. QED
    BY <2>1
<1>3. PICK d : d = SubSeq(body, p + 1, e)
  OBVIOUS
<1>4. d \in Text /\ Len(d) = n /\ \A k \in 1..n : d[k] = body[p + k]
  <2>1. /\ d \in Text /\ Len(d) = e - p
        /\ \A k \in 1..(e - p) : d[k] = body[p + k]
    BY <1>1, <1>2, <1>3, PartAfter
  <2>2. QED
    BY <1>2, <2>1
<1>5. PICK g : g = SubSeq(body, 0 + 1, e)
  OBVIOUS
<1>6. g \in Text /\ Len(g) = e /\ \A k \in 1..e : g[k] = body[k]
  <2>1. 0 \in Nat /\ 0 <= e
    BY <1>2
  <2>2. /\ g \in Text /\ Len(g) = e - 0
        /\ \A k \in 1..(e - 0) : g[k] = body[0 + k]
    BY <1>1, <1>2, <1>5, <2>1, PartAfter
  <2>3. \A k \in 1..e : 0 + k = k
    BY <1>2
  <2>4. QED
    BY <1>2, <2>2, <2>3
<1>7. PICK w : w = Arrived \o d
  OBVIOUS
<1>8. /\ w \in Text /\ Len(w) = p + n
      /\ \A k \in 1..p : w[k] = Arrived[k]
      /\ \A k \in 1..n : w[p + k] = d[k]
  <2>1. /\ Arrived \in Text /\ d \in Text /\ w = Arrived \o d /\ Len(Arrived) = p /\ Len(d) = n
        /\ 0 \in 0..Len(Arrived)
    BY <1>1, <1>2, <1>4, <1>7
  <2>2. w \in Text /\ Len(w) = Len(Arrived) + Len(d)
    BY ONLY <2>1, PartOfJoin
  <2>3. \A k \in 1..Len(Arrived) : w[k] = Arrived[k]
    BY ONLY <2>1, PartOfJoin
  <2>4. \A k \in 1..Len(d) : w[Len(Arrived) + k] = d[k]
    BY ONLY <2>1, PartOfJoin
  <2>5. QED
    BY <2>1, <2>2, <2>3, <2>4
<1>9. g = w
  <2>1. \A k \in 1..e : k \in 1..p \/ (k - p \in 1..n /\ k = p + (k - p))
    BY <1>2
  <2>2. \A k \in 1..e : g[k] = w[k]
    <3>1. ASSUME NEW k \in 1..p PROVE g[k] = w[k]
      <4>1. k \in 1..e /\ k \in 1..pos
        BY <1>2
      <4>2. QED
        BY <1>1, <1>6, <1>8, <4>1
    <3>2. ASSUME NEW k \in 1..n PROVE g[p + k] = w[p + k]
      <4>1. p + k \in 1..e
        BY <1>2
      <4>2. QED
        BY <1>4, <1>6, <1>8, <4>1
    <3>3. QED
      BY <2>1, <3>1, <3>2
  <2>3. Len(g) = Len(w)
    BY <1>2, <1>6, <1>8
  <2>4. QED
    BY <1>6, <1>8, <2>2, <2>3, SeqEqual DEF Text
<1>10. d # <<>> /\ d[1] = body[p + 1]
  <2>1. Len(d) # 0 /\ 1 \in 1..n
    BY <1>4
  <2>2. QED
    BY <1>4, <2>1, EmptySeq DEF Text
<1>11. 0 + 1 = 1
  OBVIOUS
<1>12. QED
  BY <1>2, <1>3, <1>4, <1>5, <1>7, <1>9, <1>10, <1>11

LEMMA FeedType ==
    ASSUME NEW line \in Text, FeedLine(line),
           data_lines \in Seq(Text), saw_data = (data_lines # <<>>)
    PROVE  data_lines' \in Seq(Text) /\ saw_data' = (data_lines' # <<>>)
<1>1. CASE line = <<>>
  <2>1. saw_data' = FALSE /\ data_lines' = <<>>
    BY <1>1 DEF FeedLine, Flush, FlushThen
  <2>2. <<>> \in Seq(Text)
    OBVIOUS
  <2>3. QED
    BY <2>1, <2>2
<1>2. CASE line # <<>> /\ Gives(line, DataField)
  <2>1. data_lines' = Append(data_lines, Tail(line)) /\ saw_data' = TRUE
    BY <1>2 DEF FeedLine, Accumulate
  <2>2. Tail(line) \in Text
    BY <1>2, HeadTailProperties DEF Text
  <2>3. Append(data_lines, Tail(line)) \in Seq(Text) /\ Append(data_lines, Tail(line)) # <<>>
    <3>1. PICK x \in Text : x = Tail(line)
      BY <2>2
    <3>2. PICK v \in Seq(Text) : v = data_lines
      OBVIOUS
    <3>3. Append(v, x) \in Seq(Text) /\ Append(v, x) # <<>>
      BY ONLY <3>1, <3>2
    <3>4. QED
      BY <3>1, <3>2, <3>3
  <2>4. QED
    BY <2>1, <2>3
<1>3. CASE line # <<>> /\ ~Gives(line, DataField)
  <2>1. data_lines' = data_lines /\ saw_data' = saw_data
    BY <1>3 DEF FeedLine, Accumulate
  <2>2. QED
    BY <2>1
<1>4. QED
  BY <1>1, <1>2, <1>3

LEMMA BytesStep == BytesInv /\ [Next]_vars => BytesInv'
<1>1. SUFFICES ASSUME BytesInv, [Next]_vars PROVE BytesInv'
  OBVIOUS
<1>2. /\ body \in Body /\ pos \in 0..Len(body) /\ torn \in BOOLEAN
      /\ phase \in {"read", "finish", "ended", "aborted"}
  BY <1>1 DEF BytesInv
<1>3. /\ buffer \in Text /\ Len(buffer) <= pos
      /\ data_lines \in Seq(Text) /\ saw_data = (data_lines # <<>>)
  BY <1>1 DEF BytesInv
<1>4. body \in Text /\ Len(body) \in Nat /\ Len(buffer) \in Nat
  <2>1. body \in Text
    BY <1>2, BodyText
  <2>2. QED
    BY <1>3, <2>1 DEF Text
<1>5. <<>> \in Text /\ Len(<<>>) = 0 /\ <<>> \in Seq(Text)
  BY DEF Text
<1>6. ASSUME NEW n \in 1..Len(body), Push(n) PROVE BytesInv'
  <2>1. /\ pos + n <= Len(body) /\ n \in Nat \ {0}
        /\ buffer' = buffer \o LossyUtf8(SubSeq(body, pos + 1, pos + n))
        /\ pos' = pos + n /\ torn' = (torn \/ Tears(pos + n))
        /\ UNCHANGED <<body, data_lines, saw_data, phase>>
    BY <1>6 DEF Push, PushOnto
  <2>2. PICK d \in Text : d = SubSeq(body, pos + 1, pos + n) /\ Len(d) = n
    BY <1>2, <2>1, ChunkType
  <2>3. PICK v \in Text : v = LossyUtf8(d) /\ Len(v) \in Nat /\ Len(v) <= n
    BY <2>2, LossyType
  <2>4. buffer \o v \in Text
    BY <1>3, <2>3 DEF Text
  <2>5. Len(buffer \o v) = Len(buffer) + Len(v)
    BY <1>3, <2>3 DEF Text
  <2>6. buffer' = buffer \o v
    BY <2>1, <2>2, <2>3
  <2>7. buffer' \in Text /\ Len(buffer') <= pos'
    <3>1. pos \in Int /\ n \in Int /\ Len(buffer) \in Int /\ Len(v) \in Int
      BY <1>2, <1>4, <2>1, <2>3
    <3>2. Len(buffer) + Len(v) <= pos + n
      BY <1>3, <2>3, <3>1
    <3>3. QED
      BY <2>1, <2>4, <2>5, <2>6, <3>2
  <2>8. pos' \in 0..Len(body')
    BY <1>2, <1>4, <2>1
  <2>9. torn' \in BOOLEAN
    BY <2>1
  <2>10. QED
    BY <1>2, <1>3, <2>1, <2>7, <2>8, <2>9 DEF BytesInv
<1>7. CASE TakeLine
  <2>1. /\ HasLine(buffer) /\ FeedLine(FirstLine(buffer)) /\ buffer' = Rest(buffer)
        /\ UNCHANGED <<body, pos, torn, phase>>
    BY <1>7 DEF TakeLine
  <2>2. FirstLine(buffer) \in Text /\ Rest(buffer) \in Text /\ Len(Rest(buffer)) <= Len(buffer)
    BY <1>3, <2>1, TakeType
  <2>3. data_lines' \in Seq(Text) /\ saw_data' = (data_lines' # <<>>)
    BY <1>3, <2>1, <2>2, FeedType
  <2>4. buffer' \in Text /\ Len(buffer') <= pos'
    <3>1. Len(Rest(buffer)) \in Nat
      BY <2>2 DEF Text
    <3>2. QED
      BY <1>2, <1>3, <1>4, <2>1, <2>2, <3>1
  <2>5. QED
    BY <1>2, <2>1, <2>3, <2>4 DEF BytesInv
<1>8. CASE Finish
  <2>1. /\ buffer' = <<>> /\ phase' = "finish" /\ UNCHANGED <<body, pos, torn>>
        /\ IF buffer = <<>> THEN UNCHANGED <<data_lines, event_type, last_event_id, saw_data, frames>>
           ELSE FeedLine(buffer)
    BY <1>8 DEF Finish
  <2>2. data_lines' \in Seq(Text) /\ saw_data' = (data_lines' # <<>>)
    <3>1. CASE buffer = <<>>
      BY <1>3, <2>1, <3>1
    <3>2. CASE buffer # <<>>
      <4>1. FeedLine(buffer)
        BY <2>1, <3>2
      <4>2. QED
        BY <1>3, <4>1, FeedType
    <3>3. QED
      BY <3>1, <3>2
  <2>3. buffer' \in Text /\ Len(buffer') <= pos'
    BY <1>2, <1>5, <2>1
  <2>4. QED
    BY <1>2, <2>1, <2>2, <2>3 DEF BytesInv
<1>9. CASE FinishFlush
  <2>1. /\ phase' = "ended" /\ UNCHANGED <<body, pos, torn, buffer>>
        /\ saw_data' = FALSE /\ data_lines' = <<>>
    BY <1>9 DEF FinishFlush, Flush, FlushThen
  <2>2. data_lines' \in Seq(Text) /\ saw_data' = (data_lines' # <<>>)
    BY <1>5, <2>1
  <2>3. QED
    BY <1>2, <1>3, <2>1, <2>2 DEF BytesInv
<1>10. CASE Abort
  BY <1>1, <1>10 DEF Abort, decoderVars, BytesInv
<1>11. CASE UNCHANGED vars
  BY <1>1, <1>11 DEF vars, decoderVars, BytesInv
<1>12. QED
  BY <1>1, <1>6, <1>7, <1>8, <1>9, <1>10, <1>11 DEF Next

LEMMA DecodeInit == Init => DecodeInv
<1>1. SUFFICES ASSUME Init PROVE DecodeInv
  OBVIOUS
<1>2. /\ pos = 0 /\ torn = FALSE /\ phase = "read" /\ buffer = <<>> /\ data_lines = <<>>
      /\ event_type = None /\ last_event_id = None /\ frames = <<>>
  BY <1>1 DEF Init
<1>3. BytesInv
  BY <1>1, BytesInit
<1>4. Arrived \in Text /\ Len(Arrived) = 0 /\ Received \in Text
  BY <1>2, <1>3, ArrivedType DEF BytesInv
<1>5. Len(Received) = 0
  BY <1>4, LossyType DEF Received
<1>6. Received = <<>>
  BY <1>4, <1>5, EmptySeq DEF Text
<1>7. LinesUpTo(Received, 0) = <<>>
  <2>1. [i \in 1..0 |-> IF i \in LineEnds(Received) THEN <<LineAt(Received, i)>> ELSE <<>>] = <<>>
    OBVIOUS
  <2>2. FlattenSeq(<<>>) = <<>>
    BY DEF FlattenSeq
  <2>3. QED
    BY <2>1, <2>2 DEF LinesUpTo
<1>8. Reads(<<>>)
  <2>1. LastOf(<<>>) = None
    BY DEF LastOf
  <2>2. QED
    BY <1>2, <2>1, NothingRead DEF Reads
<1>9. SubSeq(Received, 0 + 1, Len(Received)) = <<>>
  <2>1. 0 \in Nat /\ 0 \in 0..Len(Received) /\ 0 <= 0
    BY <1>5
  <2>2. SubSeq(Received, 0 + 1, 0) \in Text /\ Len(SubSeq(Received, 0 + 1, 0)) = 0 - 0
    BY <1>4, <2>1, PartAfter
  <2>3. QED
    BY <1>5, <2>2, EmptySeq DEF Text
<1>10. Consumed(0)
  BY <1>2, <1>7, <1>8, <1>9 DEF Consumed, CutAt
<1>11. 0 \in 0..Len(Received)
  BY <1>5
<1>12. ReadingInv
  BY <1>2, <1>10, <1>11 DEF ReadingInv
<1>13. QED
  BY <1>2, <1>12 DEF DecodeInv

(* The arrived bytes, all read: the lines read so far are the lines of them.*)
LEMMA WaitingReads ==
    ASSUME BytesInv, NEW c \in 0..Len(Received), Consumed(c), ~HasLine(buffer)
    PROVE  frames = FramesOf(Arrived)
<1>1. Received \in Text
  BY ArrivedType DEF BytesInv
<1>2. LinesOf(Received) = LinesUpTo(Received, c)
  BY <1>1, NothingLeft DEF Consumed
<1>3. FramesOf(Arrived) = FramesIn(LinesOf(Received))
  BY DEF FramesOf, Received
<1>4. QED
  BY <1>2, <1>3 DEF Consumed, Reads

LEMMA PushDecodes ==
    ASSUME BytesInv, DecodeInv, NEW n \in 1..Len(body), Push(n)
    PROVE  DecodeInv'
<1>1. /\ phase = "read" /\ phase' = "read" /\ pos + n <= Len(body) /\ n \in Nat \ {0}
      /\ buffer' = buffer \o LossyUtf8(SubSeq(body, pos + 1, pos + n))
      /\ pos' = pos + n /\ torn' = (torn \/ Tears(pos + n))
      /\ UNCHANGED <<body, data_lines, event_type, last_event_id, frames>>
  BY DEF Push, PushOnto
<1>2. SUFFICES ASSUME ~torn' PROVE ReadingInv'
  BY <1>1 DEF DecodeInv
<1>3. ~torn /\ ~Tears(pos + n)
  BY <1>1, <1>2
<1>4. body \in Body /\ pos \in 0..Len(body)
  BY DEF BytesInv
<1>5. /\ body \in Text /\ Arrived \in Text /\ Len(Arrived) = pos
      /\ \A k \in 1..pos : Arrived[k] = body[k]
      /\ Received \in Text
  BY <1>4, ArrivedType
<1>6. PICK d \in Text : /\ d = SubSeq(body, pos + 1, pos + n) /\ d # <<>> /\ d[1] = body[pos + 1]
                        /\ SubSeq(body, 1, pos + n) = Arrived \o d
  BY <1>1, <1>4, ChunkType
<1>7. Arrived' = Arrived \o d
  BY <1>1, <1>6 DEF Arrived
<1>8. PICK t \in Text, u \in Text : t = Received /\ u = LossyUtf8(Arrived \o d)
  <2>1. Arrived \o d \in Text
    BY <1>5, <1>6 DEF Text
  <2>2. LossyUtf8(Arrived \o d) \in Text
    BY <2>1, LossyType
  <2>3. QED
    BY <1>5, <2>2
<1>9. Received' = u
  BY <1>7, <1>8 DEF Received
<1>10. PICK c \in 0..Len(Received) : Consumed(c) /\ (pos # 0 => ~Tears(pos))
  BY <1>1, <1>3 DEF DecodeInv, ReadingInv
<1>11. /\ CutAt(t, c) /\ buffer = SubSeq(t, c + 1, Len(t)) /\ Reads(LinesUpTo(t, c)) /\ c \in 0..Len(t)
  BY <1>8, <1>10 DEF Consumed
<1>12. Arrived # <<>> /\ d # <<>> =>
          ~(Arrived[Len(Arrived)] = CR /\ d[1] = LF) /\ ~(Arrived[Len(Arrived)] = Byte1 /\ d[1] = Byte2)
  <2>1. SUFFICES ASSUME Arrived # <<>>
                 PROVE  ~(body[pos] = CR /\ body[pos + 1] = LF) /\ ~(body[pos] = Byte1 /\ body[pos + 1] = Byte2)
    <3>1. Arrived # <<>> => Arrived[Len(Arrived)] = body[pos]
      <4>1. Arrived # <<>> => pos \in 1..pos
        BY <1>4, <1>5, EmptySeq DEF Text
      <4>2. QED
        BY <1>5, <4>1
    <3>2. QED
      BY <1>6, <3>1
  <2>2. pos # 0
    BY <1>5, <2>1, EmptySeq DEF Text
  <2>3. pos < Len(body)
    <3>1. Len(body) \in Nat
      BY <1>5 DEF Text
    <3>2. QED
      BY <1>1, <1>4, <3>1
  <2>4. <<body[pos], body[pos + 1]>> \notin {<<CR, LF>>, <<Byte1, Byte2>>}
    BY <1>10, <2>2, <2>3 DEF Tears
  <2>5. \A x, y, a, b : <<x, y>> # <<a, b>> => ~(x = a /\ y = b)
    OBVIOUS
  <2>6. <<body[pos], body[pos + 1]>> # <<CR, LF>> /\ <<body[pos], body[pos + 1]>> # <<Byte1, Byte2>>
    BY <2>4
  <2>7. QED
    BY <2>5, <2>6, Zenon
<1>13. t = LossyUtf8(Arrived)
  BY <1>8 DEF Received
<1>14. /\ c \in 0..Len(u) /\ CutAt(u, c) /\ LinesUpTo(u, c) = LinesUpTo(t, c)
       /\ SubSeq(u, c + 1, Len(u)) = SubSeq(t, c + 1, Len(t)) \o LossyUtf8(d)
  <2>1. PICK s \in Text : s = Arrived
    BY <1>5
  <2>2. s # <<>> /\ d # <<>> => ~(s[Len(s)] = CR /\ d[1] = LF) /\ ~(s[Len(s)] = Byte1 /\ d[1] = Byte2)
    BY <1>12, <2>1
  <2>3. /\ s \in Text /\ d \in Text /\ t \in Text /\ u \in Text /\ t = LossyUtf8(s) /\ u = LossyUtf8(s \o d)
        /\ c \in 0..Len(t) /\ CutAt(t, c)
    BY <1>6, <1>8, <1>11, <1>13, <2>1
  <2>4. QED
    <3>1. c \in 0..Len(LossyUtf8(s)) /\ CutAt(LossyUtf8(s), c)
      BY <2>3
    <3>2. LET x == LossyUtf8(s)
              y == LossyUtf8(s \o d)
          IN  /\ c \in 0..Len(y) /\ CutAt(y, c) /\ LinesUpTo(y, c) = LinesUpTo(x, c)
              /\ SubSeq(y, c + 1, Len(y)) = SubSeq(x, c + 1, Len(x)) \o LossyUtf8(d)
      BY ONLY <2>2, <2>3, <3>1, CutGrows
    <3>3. QED
      BY <2>3, <3>2
<1>15. buffer' = SubSeq(u, c + 1, Len(u))
  BY <1>1, <1>6, <1>11, <1>14
<1>16. Reads(LinesUpTo(u, c))'
  BY <1>1, <1>11, <1>14 DEF Reads
<1>17. CutAt(Received, c)' /\ (c \in 0..Len(Received))'
  BY <1>9, <1>14 DEF CutAt
<1>18. Consumed(c)'
  BY <1>9, <1>15, <1>16, <1>17 DEF Consumed
<1>19. (pos # 0 => ~Tears(pos))'
  BY <1>1, <1>3 DEF Tears
<1>20. QED
  BY <1>17, <1>18, <1>19 DEF ReadingInv

LEMMA TakeDecodes ==
    ASSUME BytesInv, DecodeInv, TakeLine
    PROVE  DecodeInv'
<1>1. /\ phase = "read" /\ HasLine(buffer) /\ FeedLine(FirstLine(buffer)) /\ buffer' = Rest(buffer)
      /\ UNCHANGED <<body, pos, torn, phase>>
  BY DEF TakeLine
<1>2. SUFFICES ASSUME ~torn' PROVE ReadingInv'
  BY <1>1 DEF DecodeInv
<1>3. body \in Body /\ pos \in 0..Len(body) /\ buffer \in Text /\ saw_data = (data_lines # <<>>)
  BY DEF BytesInv
<1>4. PICK s \in Text : s = Received
  BY <1>3, ArrivedType
<1>5. Received' = s
  BY <1>1, <1>4 DEF Received, Arrived
<1>6. PICK c \in 0..Len(Received) : Consumed(c) /\ (pos # 0 => ~Tears(pos))
  BY <1>1, <1>2 DEF DecodeInv, ReadingInv
<1>7. c \in 0..Len(s) /\ CutAt(s, c) /\ buffer = SubSeq(s, c + 1, Len(s)) /\ Reads(LinesUpTo(s, c))
  BY <1>4, <1>6 DEF Consumed
<1>8. PICK d \in 0..Len(s) : /\ CutAt(s, d) /\ Rest(buffer) = SubSeq(s, d + 1, Len(s))
                             /\ LinesUpTo(s, d) = Append(LinesUpTo(s, c), FirstLine(buffer))
  BY <1>1, <1>3, <1>7, LineTaken
<1>9. FirstLine(buffer) \in Text
  BY <1>1, <1>3, TakeType
<1>10. LinesUpTo(s, c) \in Seq(Text)
  BY <1>7, LinesType
<1>11. Reads(LinesUpTo(s, d))'
  <2>1. PICK L \in Seq(Text) : L = LinesUpTo(s, c)
    BY <1>10
  <2>2. PICK line \in Text : line = FirstLine(buffer)
    BY <1>9
  <2>3. Reads(Append(L, line))'
    BY <1>1, <1>3, <1>7, <2>1, <2>2, FeedLineReads
  <2>4. LinesUpTo(s, d) = Append(L, line)
    BY <1>8, <2>1, <2>2
  <2>5. QED
    BY <2>3, <2>4 DEF Reads
<1>12. Consumed(d)' /\ (d \in 0..Len(Received))'
  BY <1>1, <1>5, <1>8, <1>11 DEF Consumed, CutAt
<1>13. (pos # 0 => ~Tears(pos))'
  BY <1>1, <1>6 DEF Tears
<1>14. QED
  BY <1>12, <1>13 DEF ReadingInv

LEMMA FinishDecodes ==
    ASSUME BytesInv, DecodeInv, Finish
    PROVE  DecodeInv'
<1>1. /\ phase = "read" /\ ~HasLine(buffer) /\ pos = Len(body)
      /\ phase' = "finish" /\ UNCHANGED <<body, pos, torn>>
      /\ IF buffer = <<>> THEN UNCHANGED <<data_lines, event_type, last_event_id, saw_data, frames>>
         ELSE FeedLine(buffer)
  BY DEF Finish
<1>2. SUFFICES ASSUME ~torn'
               PROVE  (\E L \in Seq(Text) : Reads(L) /\ FramesIn(Append(L, <<>>)) = FramesOf(Closed))'
  BY <1>1 DEF DecodeInv, ReadingInv
<1>3. body \in Body /\ pos \in 0..Len(body) /\ buffer \in Text /\ saw_data = (data_lines # <<>>)
  BY DEF BytesInv
<1>4. body \in Text /\ Received \in Text /\ Arrived = body
  <2>1. /\ body \in Text /\ Arrived \in Text /\ Len(Arrived) = pos
        /\ \A k \in 1..pos : Arrived[k] = body[k]
        /\ Received \in Text
    BY <1>3, ArrivedType
  <2>2. Arrived = body
    BY <1>1, <2>1, SeqEqual DEF Text
  <2>3. QED
    BY <2>1, <2>2
<1>5. PICK s \in Text : s = Received /\ s = LossyUtf8(body)
  BY <1>4 DEF Received
<1>6. PICK c \in 0..Len(Received) : Consumed(c)
  BY <1>1, <1>2 DEF DecodeInv, ReadingInv
<1>7. c \in 0..Len(s) /\ CutAt(s, c) /\ buffer = SubSeq(s, c + 1, Len(s)) /\ Reads(LinesUpTo(s, c))
  BY <1>5, <1>6 DEF Consumed
<1>8. PICK L \in Seq(Text) : L = LinesUpTo(s, c)
  BY <1>7, LinesType
<1>9. PICK w \in Text : w = s \o <<LF, LF>> /\ w = LossyUtf8(Closed)
  <2>1. LossyUtf8(body \o <<LF, LF>>) = LossyUtf8(body) \o LossyUtf8(<<LF, LF>>)
    <3>1. PICK v \in Text : v = <<LF, LF>> /\ v[1] # Byte2
      <4>1. <<LF, LF>> \in Text /\ <<LF, LF>>[1] # Byte2
        BY LossyLF, Symbols
      <4>2. QED
        BY <4>1, Zenon
    <3>2. LossyUtf8(body \o v) = LossyUtf8(body) \o LossyUtf8(v)
      BY <1>4, <3>1, LossyConcat
    <3>3. QED
      BY <3>1, <3>2
  <2>2. LossyUtf8(Closed) = s \o <<LF, LF>>
    BY <1>5, <2>1, LossyLF DEF Closed
  <2>3. s \o <<LF, LF>> \in Text
    <3>1. PICK v \in Text : v = <<LF, LF>>
      BY LossyLF
    <3>2. s \o v \in Text
      BY <3>1 DEF Text
    <3>3. QED
      BY <3>1, <3>2
  <2>4. QED
    BY <2>2, <2>3, Zenon
<1>10. FramesOf(Closed) = FramesIn(LinesOf(w))
  BY <1>9 DEF FramesOf
<1>11. LinesOf(w) \in IF buffer # <<>> THEN {Append(Append(L, buffer), <<>>)}
                      ELSE {Append(L, <<>>), Append(Append(L, <<>>), <<>>)}
  <2>1. /\ s \in Text /\ c \in 0..Len(s) /\ CutAt(s, c) /\ ~HasLine(buffer)
        /\ buffer = SubSeq(s, c + 1, Len(s)) /\ L = LinesUpTo(s, c)
        /\ w \in Text /\ w = s \o <<LF, LF>>
    BY <1>1, <1>5, <1>7, <1>8, <1>9
  <2>2. QED
    <3>1. ~HasLine(SubSeq(s, c + 1, Len(s)))
      BY <2>1
    <3>2. LET b == SubSeq(s, c + 1, Len(s))
              M == LinesUpTo(s, c)
          IN  LinesOf(s \o <<LF, LF>>) \in IF b # <<>> THEN {Append(Append(M, b), <<>>)}
                                           ELSE {Append(M, <<>>), Append(Append(M, <<>>), <<>>)}
      BY ONLY <2>1, <3>1, ClosedLines
    <3>3. QED
      BY <2>1, <3>2
<1>12. FramesOf(Closed)' = FramesOf(Closed)
  BY <1>1 DEF Closed
<1>13. CASE buffer # <<>>
  <2>1. PICK line \in Text : line = buffer
    BY <1>3
  <2>2. FramesIn(Append(Append(L, buffer), <<>>)) = FramesOf(Closed)
    BY <1>10, <1>11, <1>13
  <2>3. PICK M \in Seq(Text) : M = Append(L, buffer)
    <3>1. Append(L, buffer) \in Seq(Text)
      BY <1>3
    <3>2. QED
      BY <3>1
  <2>4. Reads(M)'
    <3>1. FeedLine(line) /\ Reads(L)
      BY <1>1, <1>7, <1>8, <1>13, <2>1
    <3>2. Reads(Append(L, line))'
      BY <1>3, <3>1, FeedLineReads
    <3>3. QED
      BY <2>1, <2>3, <3>2 DEF Reads
  <2>5. FramesIn(Append(M, <<>>)) = FramesOf(Closed)'
    BY <1>12, <2>2, <2>3
  <2>6. QED
    BY <2>4, <2>5
<1>14. CASE buffer = <<>>
  <2>1. Reads(L)'
    BY <1>1, <1>7, <1>8, <1>14 DEF Reads
  <2>2. FramesIn(Append(L, <<>>)) = FramesOf(Closed)
    BY <1>10, <1>11, <1>14, BlankTwice
  <2>3. QED
    BY <1>12, <2>1, <2>2
<1>15. QED
  BY <1>13, <1>14

LEMMA FlushDecodes ==
    ASSUME BytesInv, DecodeInv, FinishFlush
    PROVE  DecodeInv'
<1>1. /\ phase = "finish" /\ phase' = "ended" /\ UNCHANGED <<body, torn, last_event_id>> /\ Flush
  BY DEF FinishFlush
<1>2. SUFFICES ASSUME ~torn' PROVE frames' = FramesOf(Closed)'
  BY <1>1 DEF DecodeInv, ReadingInv
<1>3. PICK L \in Seq(Text) : Reads(L) /\ FramesIn(Append(L, <<>>)) = FramesOf(Closed)
  BY <1>1, <1>2 DEF DecodeInv
<1>4. saw_data = (data_lines # <<>>)
  BY DEF BytesInv
<1>5. Reads(Append(L, <<>>))'
  BY <1>1, <1>3, <1>4, FlushReads
<1>6. frames' = FramesIn(Append(L, <<>>))
  BY <1>5 DEF Reads
<1>7. FramesOf(Closed)' = FramesOf(Closed)
  BY <1>1 DEF Closed
<1>8. QED
  BY <1>3, <1>6, <1>7

LEMMA IdleDecodes ==
    ASSUME BytesInv, DecodeInv, Abort \/ UNCHANGED vars
    PROVE  DecodeInv'
<1>1. UNCHANGED <<body, pos, torn, buffer, data_lines, event_type, last_event_id, frames>>
  BY DEF Abort, vars, decoderVars
<1>2. (phase' = phase) \/ (phase = "read" /\ phase' = "aborted" /\ ~HasLine(buffer))
  BY DEF Abort, vars
<1>3. Received' = Received /\ Closed' = Closed
  BY <1>1 DEF Received, Arrived, Closed
<1>4. \A c : Consumed(c)' <=> Consumed(c)
  BY <1>1, <1>3 DEF Consumed, CutAt, Reads
<1>5. \A L : Reads(L)' <=> Reads(L)
  BY <1>1 DEF Reads
<1>6. (pos # 0 => ~Tears(pos))' <=> (pos # 0 => ~Tears(pos))
  BY <1>1 DEF Tears
<1>7. SUFFICES ASSUME ~torn' PROVE DecodeInv'
  BY DEF DecodeInv
<1>8. ReadingInv => ReadingInv'
  BY <1>2, <1>3, <1>4, <1>6 DEF ReadingInv
<1>9. ReadingInv /\ (phase = "aborted" => ~HasLine(buffer))
  BY <1>1, <1>7 DEF DecodeInv
<1>10. (phase = "aborted" => ~HasLine(buffer))'
  BY <1>1, <1>2, <1>9
<1>11. (phase = "finish" => \E L \in Seq(Text) : Reads(L) /\ FramesIn(Append(L, <<>>)) = FramesOf(Closed))'
  BY <1>1, <1>2, <1>3, <1>5, <1>7 DEF DecodeInv
<1>12. (phase = "ended" => frames = FramesOf(Closed))'
  BY <1>1, <1>2, <1>3, <1>7 DEF DecodeInv
<1>13. QED
  BY <1>8, <1>9, <1>10, <1>11, <1>12 DEF DecodeInv

LEMMA DecodeStep == BytesInv /\ DecodeInv /\ [Next]_vars => DecodeInv'
  BY PushDecodes, TakeDecodes, FinishDecodes, FlushDecodes, IdleDecodes DEF Next

LEMMA Decodes == Spec => [](BytesInv /\ DecodeInv)
<1>1. Init => BytesInv /\ DecodeInv
  BY BytesInit, DecodeInit
<1>2. BytesInv /\ DecodeInv /\ [Next]_vars => (BytesInv /\ DecodeInv)'
  BY BytesStep, DecodeStep
<1>3. QED
  BY <1>1, <1>2, PTL DEF Spec

-----------------------------------------------------------------------------

(***************************************************************************)
(* TypeOK: the buffer never holds more than the bytes that have arrived,   *)
(* and the flag for data agrees with the data lines.                       *)
(***************************************************************************)
THEOREM TypeCorrect == Spec => []TypeOK
<1>1. BytesInv => TypeOK
  BY DEF BytesInv, TypeOK
<1>2. QED
  BY <1>1, Decodes, PTL

(***************************************************************************)
(* DecodesWhatArrived: however SseDecoder::push cuts a body of any length, *)
(* as long as no cut falls into a CRLF or a character, the frames yielded  *)
(* are those of the bytes that have arrived.                               *)
(***************************************************************************)
THEOREM DecodesArrived == Spec => []DecodesWhatArrived
<1>1. BytesInv /\ DecodeInv => DecodesWhatArrived
  <2>1. SUFFICES ASSUME BytesInv, DecodeInv, Waiting, ~torn PROVE frames = FramesOf(Arrived)
    BY DEF DecodesWhatArrived
  <2>2. ~HasLine(buffer) /\ phase \in {"read", "aborted"}
    BY <2>1 DEF DecodeInv, Waiting
  <2>3. PICK c \in 0..Len(Received) : Consumed(c)
    BY <2>1, <2>2 DEF DecodeInv, ReadingInv
  <2>4. QED
    BY <2>1, <2>2, <2>3, WaitingReads
<1>2. QED
  BY <1>1, Decodes, PTL

(***************************************************************************)
(* TrailingFrameDispatched: the end of a body of complete lines closes its *)
(* last frame, whether or not a blank line does.                           *)
(***************************************************************************)
THEOREM TrailingFrame == Spec => []TrailingFrameDispatched
<1>1. DecodeInv => TrailingFrameDispatched
  BY DEF DecodeInv, TrailingFrameDispatched, Closed
<1>2. QED
  BY <1>1, Decodes, PTL
=============================================================================
