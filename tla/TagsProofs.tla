----------------------------- MODULE TagsProofs -----------------------------
(***************************************************************************)
(* Theorems about the tag directory: for any tags, lifetime and interval a *)
(* tag lapses only after that many refreshes in a row failed at it or      *)
(* before it, and for any records a search is sound while they change.     *)
(***************************************************************************)
EXTENDS Tags, SequenceLemmas, TLAPS

(* The part of TypeOK that is about the advertiser and the DHT.            *)
AdvertiserTypeOK ==
    /\ left \in [Tag -> 0..Lifetime]
    /\ elapsed \in 0..Interval /\ refreshing \in 0..Len(OwnTags)
    /\ misses \in [DOMAIN OwnTags -> 0..MaxMisses]

(* The refresh under way has still to advertise tag i.                     *)
Pending(i) == IF refreshing \in 1..i THEN Interval ELSE 0

(***************************************************************************)
(* The inductive invariant.  A record has lost at most the time since the  *)
(* last refresh began, an interval for a refresh that has not come to its  *)
(* tag yet, and an interval for every refresh that missed it.              *)
(***************************************************************************)
AgeInv ==
    /\ refreshing # 0 => elapsed = 0
    /\ \A i \in DOMAIN OwnTags :
          left[OwnTags[i]] + elapsed + Pending(i) + misses[i] * Interval >= Lifetime

LEMMA OwnTagsFacts ==
    /\ Len(OwnTags) \in Nat /\ DOMAIN OwnTags = 1..Len(OwnTags)
    /\ \A i \in DOMAIN OwnTags : OwnTags[i] \in Tag
    /\ Interval \in Nat \ {0} /\ Lifetime \in Nat /\ MaxMisses \in Nat
  BY TagAssumption

(* Nothing lives longer than misses are counted.                           *)
LEMMA CountedLongEnough == Lifetime <= MaxMisses * Interval
  BY TagAssumption

LEMMA NextCases ==
    ASSUME [Next]_vars
    PROVE  \/ Tick
           \/ Refresh
           \/ RefreshStep
           \/ UNCHANGED <<left, advertVars>>
  BY DEF Next, AdvertiserStep, StartSearch, FindTag, FindIn, EndSearch, PeerChanges, vars, advertVars

(***************************************************************************)
(* The records and counters of the advertiser stay in their ranges.        *)
(***************************************************************************)
THEOREM AdvertiserTypes == Spec => []AdvertiserTypeOK
<1>1. Init => AdvertiserTypeOK
  BY OwnTagsFacts DEF Init, AdvertiserTypeOK
<1>2. AdvertiserTypeOK /\ [Next]_vars => AdvertiserTypeOK'
  <2> SUFFICES ASSUME AdvertiserTypeOK, [Next]_vars PROVE AdvertiserTypeOK'
    OBVIOUS
  <2> USE OwnTagsFacts DEF AdvertiserTypeOK
  <2>1. CASE Tick
    BY <2>1 DEF Tick
  <2>2. CASE Refresh
    <3>1. 1 \in 0..Len(OwnTags)
      BY <2>2, TagAssumption DEF Refresh
    <3>2. QED BY <2>2, <3>1 DEF Refresh
  <2>3. CASE RefreshStep
    <3> DEFINE t == OwnTags[refreshing]
    <3>1. refreshing \in DOMAIN OwnTags /\ t \in Tag
      BY <2>3 DEF RefreshStep
    <3>2. (refreshing + 1) % (Len(OwnTags) + 1) \in 0..Len(OwnTags)
      OBVIOUS
    <3>3. Renewed(t) \in [Tag -> 0..Lifetime]
      BY <3>1 DEF Renewed
    <3>4. CASE AdvertiseTag(t)
      BY <3>1, <3>2, <3>3, <3>4 DEF AdvertiseTag, AdvertisedThen
    <3>5. CASE AdvertiseFails(t)
      <4>1. left' \in [Tag -> 0..Lifetime] /\ refreshing' = 0 /\ elapsed' = elapsed
        BY <3>3, <3>5 DEF AdvertiseFails
      <4>2. misses' \in [DOMAIN OwnTags -> 0..MaxMisses]
        BY <3>1, <3>5 DEF AdvertiseFails
      <4>3. QED BY <4>1, <4>2
    <3>6. QED BY <2>3, <3>4, <3>5 DEF RefreshStep
  <2>4. CASE UNCHANGED <<left, advertVars>>
    BY <2>4 DEF advertVars
  <2>5. QED BY <2>1, <2>2, <2>3, <2>4, NextCases
<1>3. QED BY <1>1, <1>2, PTL DEF Spec

-----------------------------------------------------------------------------
(* The arithmetic of the age. *)

LEMMA OneMoreMiss ==
    ASSUME NEW k \in Nat PROVE (k + 1) * Interval = k * Interval + Interval
  BY OwnTagsFacts

LEMMA MissesCoverLifetime ==
    ASSUME NEW k \in Nat, Lifetime <= (k + 1) * Interval
    PROVE  k >= (Lifetime - 1) \div Interval
  <1> DEFINE q == (Lifetime - 1) \div Interval
  <1> USE OwnTagsFacts
  <1>1. q \in Int /\ q * Interval <= Lifetime - 1
    BY Z3
  <1>2. q * Interval < (k + 1) * Interval
    BY <1>1
  <1>3. QED BY <1>1, <1>2, Z3

LEMMA AgeInductive == AdvertiserTypeOK /\ AgeInv /\ [Next]_vars => AgeInv'
  <1> SUFFICES ASSUME AdvertiserTypeOK, AgeInv, [Next]_vars PROVE AgeInv'
    OBVIOUS
  <1> USE OwnTagsFacts
  <1>1. CASE Tick
    <2>1. refreshing = 0 /\ refreshing' = 0 /\ elapsed' = elapsed + 1 /\ misses' = misses
      BY <1>1 DEF Tick
    <2>2. \A t \in Tag : left'[t] + 1 >= left[t] /\ left'[t] \in Int
      BY <1>1 DEF Tick, AdvertiserTypeOK
    <2> SUFFICES ASSUME NEW i \in DOMAIN OwnTags
                 PROVE  left'[OwnTags[i]] + elapsed' + Pending(i)' + misses'[i] * Interval >= Lifetime
      BY <2>1 DEF AgeInv
    <2>3. left[OwnTags[i]] + elapsed + 0 + misses[i] * Interval >= Lifetime
      BY <2>1 DEF AgeInv, Pending
    <2>4. Pending(i)' = 0
      BY <2>1 DEF Pending
    <2> DEFINE k == misses[i] * Interval
    <2>5. /\ k \in Nat /\ elapsed \in Nat /\ OwnTags[i] \in Tag /\ left[OwnTags[i]] \in Nat
          /\ left'[OwnTags[i]] + 1 >= left[OwnTags[i]] /\ left'[OwnTags[i]] \in Int
      BY <2>2 DEF AdvertiserTypeOK
    <2>k. k = misses'[i] * Interval
      BY <2>1
    <2>6. left[OwnTags[i]] + elapsed + 0 + k >= Lifetime
      BY <2>3
    <2> HIDE DEF k
    <2>7. left'[OwnTags[i]] + elapsed' + 0 + k >= Lifetime
      BY <2>1, <2>5, <2>6
    <2>8. QED BY <2>4, <2>7, <2>k
  <1>2. CASE Refresh
    <2>1. refreshing = 0 /\ refreshing' = 1 /\ elapsed = Interval /\ elapsed' = 0
          /\ misses' = misses /\ left' = left
      BY <1>2 DEF Refresh
    <2> SUFFICES ASSUME NEW i \in DOMAIN OwnTags
                 PROVE  left'[OwnTags[i]] + elapsed' + Pending(i)' + misses'[i] * Interval >= Lifetime
      BY <2>1 DEF AgeInv
    <2>2. Pending(i) = 0 /\ Pending(i)' = Interval
      BY <2>1 DEF Pending
    <2>3. left[OwnTags[i]] + elapsed + Pending(i) + misses[i] * Interval >= Lifetime
      BY DEF AgeInv
    <2> DEFINE k == misses[i] * Interval
    <2>4. k \in Nat /\ k = misses'[i] * Interval /\ left[OwnTags[i]] \in Nat
      BY <2>1 DEF AdvertiserTypeOK
    <2>5. left[OwnTags[i]] + Interval + 0 + k >= Lifetime
      BY <2>1, <2>2, <2>3
    <2> HIDE DEF k
    <2>6. left[OwnTags[i]] + 0 + Interval + k >= Lifetime
      BY <2>4, <2>5
    <2>7. QED BY <2>1, <2>2, <2>4, <2>6
  <1>3. CASE RefreshStep
    <2> DEFINE t == OwnTags[refreshing]
    <2>1. refreshing \in DOMAIN OwnTags /\ t \in Tag /\ elapsed = 0
      BY <1>3 DEF RefreshStep, AdvertiserTypeOK, AgeInv
    <2>2. \A u \in Tag : left'[u] >= left[u] /\ left'[u] \in Int
      <3>1. left' \in {left, Renewed(t)}
        BY <1>3 DEF RefreshStep, AdvertiseTag, AdvertisedThen, AdvertiseFails
      <3>2. \A u \in Tag : left[u] \in Int /\ left[u] <= Lifetime
        BY DEF AdvertiserTypeOK
      <3>3. \A u \in Tag : Renewed(t)[u] = IF u = t THEN Lifetime ELSE left[u]
        BY <2>1 DEF Renewed, AdvertiserTypeOK
      <3> HIDE DEF t
      <3>4. QED BY <3>1, <3>2, <3>3
    <2>3. elapsed' = 0
      BY <1>3, <2>1 DEF RefreshStep, AdvertiseTag, AdvertisedThen, AdvertiseFails
    <2> SUFFICES ASSUME NEW i \in DOMAIN OwnTags
                 PROVE  left'[OwnTags[i]] + elapsed' + Pending(i)' + misses'[i] * Interval >= Lifetime
      BY <2>3 DEF AgeInv
    <2>4. left[OwnTags[i]] + 0 + Pending(i) + misses[i] * Interval >= Lifetime
      BY <2>1 DEF AgeInv
    <2>5. CASE AdvertiseTag(t)
      <3>1. misses' = [misses EXCEPT ![refreshing] = 0] /\ left' = Renewed(t)
            /\ refreshing' = (refreshing + 1) % (Len(OwnTags) + 1)
        BY <2>5 DEF AdvertiseTag, AdvertisedThen
      <3>2. refreshing' = IF refreshing = Len(OwnTags) THEN 0 ELSE refreshing + 1
        BY <3>1, <2>1
      <3>3. CASE i = refreshing
        <4>1. left'[OwnTags[i]] = Lifetime
          BY <3>1, <3>3, <2>1 DEF Renewed, AdvertiserTypeOK
        <4>2. misses'[i] * Interval = 0
          BY <3>1, <3>3, <2>1 DEF AdvertiserTypeOK
        <4>3. Pending(i)' \in Nat
          BY DEF Pending
        <4>4. QED BY <4>1, <4>2, <4>3, <2>3
      <3>4. CASE i # refreshing
        <4>1. misses'[i] = misses[i]
          BY <3>1, <3>4 DEF AdvertiserTypeOK
        <4>2. Pending(i)' = Pending(i)
          BY <3>2, <3>4, <2>1 DEF Pending
        <4>3. Pending(i) \in Nat /\ misses[i] * Interval \in Nat
          BY DEF Pending, AdvertiserTypeOK
        <4> DEFINE k == misses[i] * Interval
        <4>4. k \in Nat /\ k = misses'[i] * Interval
          BY <4>1, <4>3
        <4>5. left'[OwnTags[i]] >= left[OwnTags[i]] /\ left'[OwnTags[i]] \in Int /\ left[OwnTags[i]] \in Nat
          BY <2>2 DEF AdvertiserTypeOK
        <4>6. left[OwnTags[i]] + 0 + Pending(i) + k >= Lifetime
          BY <2>4
        <4> HIDE DEF k
        <4>7. left'[OwnTags[i]] + 0 + Pending(i) + k >= Lifetime
          <5>1. PICK p \in Nat, j \in Nat : p = Pending(i) /\ j = k
            BY <4>3, <4>4, Zenon
          <5>2. PICK x \in Nat, y \in Int : x = left[OwnTags[i]] /\ y = left'[OwnTags[i]] /\ y >= x
            BY <4>5, Zenon
          <5>3. x + 0 + p + j >= Lifetime
            BY <4>6, <5>1, <5>2, Zenon
          <5>4. y + 0 + p + j >= Lifetime
            BY ONLY <5>2, <5>3, Lifetime \in Nat, p \in Nat, j \in Nat, x \in Nat, y \in Int
          <5>5. QED
            BY <5>1, <5>2, <5>4, Zenon
        <4>8. QED BY ONLY <4>2, <4>4, <4>7, <2>3
      <3>5. QED BY <3>3, <3>4
    <2>6. CASE AdvertiseFails(t)
      <3>1. /\ refreshing' = 0
            /\ misses'[i] = IF i < refreshing \/ misses[i] = MaxMisses THEN misses[i] ELSE misses[i] + 1
        BY <2>6 DEF AdvertiseFails
      <3>2. Pending(i)' = 0
        BY <3>1 DEF Pending
      <3>3. left'[OwnTags[i]] >= left[OwnTags[i]] /\ left'[OwnTags[i]] \in Nat /\ left[OwnTags[i]] \in Nat
        BY <2>2 DEF AdvertiserTypeOK
      <3>4. misses[i] \in Nat /\ misses[i] * Interval \in Nat
        BY DEF AdvertiserTypeOK
      <3>5. CASE i < refreshing
        <4>1. Pending(i) = 0 /\ misses'[i] = misses[i]
          BY <3>1, <3>5, <2>1 DEF Pending
        <4> DEFINE k == misses[i] * Interval
        <4>2. k \in Nat /\ k = misses'[i] * Interval
          BY <4>1, <3>4
        <4>3. left[OwnTags[i]] + 0 + 0 + k >= Lifetime
          BY <4>1, <2>4
        <4> HIDE DEF k
        <4>4. left'[OwnTags[i]] + 0 + 0 + k >= Lifetime
          BY <4>2, <4>3, <3>3
        <4>5. QED BY <4>2, <4>4, <3>2, <2>3
      <3>6. CASE ~(i < refreshing) /\ misses[i] = MaxMisses
        <4>1. misses'[i] * Interval >= Lifetime /\ misses'[i] * Interval \in Nat
          BY <3>1, <3>4, <3>6, CountedLongEnough
        <4> DEFINE k == misses'[i] * Interval
        <4>2. k \in Nat /\ k >= Lifetime
          BY <4>1
        <4> HIDE DEF k
        <4>3. left'[OwnTags[i]] + 0 + 0 + k >= Lifetime
          BY <4>2, <3>3
        <4>4. QED BY <4>3, <3>2, <2>3 DEF k
      <3>7. CASE ~(i < refreshing) /\ misses[i] # MaxMisses
        <4>1. misses'[i] * Interval = misses[i] * Interval + Interval
          BY <3>1, <3>4, <3>7, OneMoreMiss
        <4>2. Pending(i) \in 0..Interval
          BY DEF Pending
        <4>3. misses'[i] * Interval >= misses[i] * Interval + Pending(i)
          BY <4>1, <4>2, <3>4
        <4> DEFINE k == misses[i] * Interval
        <4> DEFINE k1 == misses'[i] * Interval
        <4>4. k \in Int /\ k1 \in Int /\ k1 >= k + Pending(i)
          BY <4>1, <4>3, <3>4
        <4>5. left[OwnTags[i]] + 0 + Pending(i) + k >= Lifetime
          BY <2>4
        <4> HIDE DEF k, k1
        <4>6. left'[OwnTags[i]] + 0 + 0 + k1 >= Lifetime
          BY <4>2, <4>4, <4>5, <3>3
        <4>7. QED BY <4>6, <3>2, <2>3 DEF k1
      <3>8. QED BY <3>5, <3>6, <3>7
    <2>7. QED BY <1>3, <2>5, <2>6 DEF RefreshStep
  <1>4. CASE UNCHANGED <<left, advertVars>>
    BY <1>4 DEF advertVars, AgeInv, Pending
  <1>5. QED BY <1>1, <1>2, <1>3, <1>4, NextCases

LEMMA AgeBoundsLapse == AdvertiserTypeOK /\ AgeInv => LapsesOnlyIfRefreshFailed
  <1> SUFFICES ASSUME AdvertiserTypeOK, AgeInv,
                      NEW i \in DOMAIN OwnTags, left[OwnTags[i]] = 0
               PROVE  misses[i] >= (Lifetime - 1) \div Interval
    BY DEF LapsesOnlyIfRefreshFailed
  <1> USE OwnTagsFacts
  <1>1. misses[i] \in Nat /\ misses[i] * Interval \in Nat
    BY DEF AdvertiserTypeOK
  <1>2. elapsed + Pending(i) \in 0..Interval
    BY DEF AgeInv, Pending, AdvertiserTypeOK
  <1>3. Lifetime <= misses[i] * Interval + Interval
    <2>1. left[OwnTags[i]] + elapsed + Pending(i) + misses[i] * Interval >= Lifetime
      BY DEF AgeInv
    <2>2. elapsed \in Nat /\ Pending(i) \in Nat
      BY DEF AdvertiserTypeOK, Pending
    <2> DEFINE k == misses[i] * Interval
    <2>3. k \in Nat /\ 0 + elapsed + Pending(i) + k >= Lifetime
      BY <1>1, <2>1
    <2> HIDE DEF k
    <2>4. Lifetime <= k + Interval
      BY <1>2, <2>2, <2>3
    <2>5. QED BY <2>4 DEF k
  <1>4. Lifetime <= (misses[i] + 1) * Interval
    BY <1>1, <1>3, OneMoreMiss
  <1>5. QED BY <1>1, <1>4, MissesCoverLifetime

(***************************************************************************)
(* A tag lapses only if its refreshes failed: whatever the other tags do,  *)
(* an advertised record is there until as many refreshes in a row as fit   *)
(* in its lifetime have failed at its tag or at one before it.             *)
(***************************************************************************)
THEOREM LapseNeedsFailures == Spec => []LapsesOnlyIfRefreshFailed
<1>1. Init => AgeInv
  <2> SUFFICES ASSUME Init PROVE AgeInv
    OBVIOUS
  <2> SUFFICES ASSUME NEW i \in DOMAIN OwnTags
               PROVE  left[OwnTags[i]] + elapsed + Pending(i) + misses[i] * Interval >= Lifetime
    BY DEF AgeInv, Init
  <2>1. left[OwnTags[i]] = 0 /\ elapsed = Interval /\ Pending(i) = 0 /\ misses[i] = MaxMisses
    BY OwnTagsFacts DEF Init, Pending
  <2>2. QED BY <2>1, OwnTagsFacts, CountedLongEnough
<1>2. QED BY <1>1, AgeInductive, AgeBoundsLapse, AdvertiserTypes, PTL DEF Spec

-----------------------------------------------------------------------------
(* Sequences. *)

(* The members of two sequences, one after the other.                      *)
LEMMA JoinedIs ==
    ASSUME NEW T, NEW a \in Seq(T), NEW b \in Seq(T)
    PROVE  /\ a \o b \in Seq(T) /\ Range(a \o b) = Range(a) \cup Range(b)
           /\ IsInjective(a) /\ IsInjective(b) /\ Range(a) \cap Range(b) = {}
              => IsInjective(a \o b)
<1> DEFINE c == a \o b
<1>1. /\ c \in Seq(T) /\ DOMAIN c = 1..(Len(a) + Len(b))
      /\ DOMAIN a = 1..Len(a) /\ DOMAIN b = 1..Len(b) /\ Len(a) \in Nat /\ Len(b) \in Nat
      /\ \A i \in 1..(Len(a) + Len(b)) : c[i] = IF i <= Len(a) THEN a[i] ELSE b[i - Len(a)]
  OBVIOUS
<1> HIDE DEF c
<1>2. \A x \in Range(c) : x \in Range(a) \cup Range(b)
  <2>1. ASSUME NEW i \in 1..(Len(a) + Len(b)) PROVE c[i] \in Range(a) \cup Range(b)
    <3>1. CASE i <= Len(a)
      BY <1>1, <3>1 DEF Range
    <3>2. CASE ~(i <= Len(a))
      <4>1. i - Len(a) \in 1..Len(b)
        BY <1>1, <3>2
      <4>2. QED
        BY <1>1, <3>2, <4>1 DEF Range
    <3>3. QED
      BY <3>1, <3>2
  <2>2. QED
    BY <1>1, <2>1 DEF Range
<1>3. \A x \in Range(a) : x \in Range(c)
  <2>1. ASSUME NEW i \in 1..Len(a) PROVE a[i] \in Range(c)
    <3>1. i \in 1..(Len(a) + Len(b)) /\ i <= Len(a)
      BY <1>1
    <3>2. QED
      BY <1>1, <3>1 DEF Range
  <2>2. QED
    BY <1>1, <2>1 DEF Range
<1>4. \A x \in Range(b) : x \in Range(c)
  <2>1. ASSUME NEW i \in 1..Len(b) PROVE b[i] \in Range(c)
    <3>1. i + Len(a) \in 1..(Len(a) + Len(b)) /\ ~(i + Len(a) <= Len(a)) /\ (i + Len(a)) - Len(a) = i
      BY <1>1
    <3>2. c[i + Len(a)] = b[i]
      BY <1>1, <3>1
    <3>3. QED
      BY <1>1, <3>1, <3>2 DEF Range
  <2>2. QED
    BY <1>1, <2>1 DEF Range
<1>5. ASSUME IsInjective(a), IsInjective(b), Range(a) \cap Range(b) = {}
      PROVE  IsInjective(c)
  <2> SUFFICES ASSUME NEW i \in 1..(Len(a) + Len(b)), NEW j \in 1..(Len(a) + Len(b)), c[i] = c[j]
               PROVE  i = j
    BY <1>1 DEF IsInjective
  <2>1. /\ i <= Len(a) => i \in DOMAIN a /\ c[i] = a[i] /\ c[i] \in Range(a)
        /\ j <= Len(a) => j \in DOMAIN a /\ c[j] = a[j] /\ c[j] \in Range(a)
    <3>1. /\ i <= Len(a) => i \in DOMAIN a /\ c[i] = a[i]
          /\ j <= Len(a) => j \in DOMAIN a /\ c[j] = a[j]
      BY <1>1
    <3>2. QED
      BY <3>1 DEF Range
  <2>2. /\ ~(i <= Len(a)) => i - Len(a) \in DOMAIN b /\ c[i] = b[i - Len(a)]
        /\ ~(j <= Len(a)) => j - Len(a) \in DOMAIN b /\ c[j] = b[j - Len(a)]
    BY <1>1
  <2>3. /\ ~(i <= Len(a)) => c[i] \in Range(b)
        /\ ~(j <= Len(a)) => c[j] \in Range(b)
    BY <2>2 DEF Range
  <2>4. i <= Len(a) <=> j <= Len(a)
    BY <1>5, <2>1, <2>3
  <2>5. CASE i <= Len(a)
    BY <1>5, <2>1, <2>4, <2>5 DEF IsInjective
  <2>6. CASE ~(i <= Len(a))
    <3>1. i - Len(a) = j - Len(a)
      BY <1>5, <2>2, <2>4, <2>6 DEF IsInjective
    <3>2. QED
      BY <1>1, <3>1
  <2>7. QED
    BY <2>5, <2>6
<1>6. QED
  BY <1>1, <1>2, <1>3, <1>4, <1>5 DEF c

(* What filtering a list keeps.                                            *)
LEMMA KeptIs ==
    ASSUME NEW T, NEW s \in Seq(T), NEW S
    PROVE  /\ Kept(s, S) \in Seq(T) /\ Range(Kept(s, S)) = Range(s) \cap S
           /\ IsInjective(s) => IsInjective(Kept(s, S))
<1>1. PICK n \in Nat : n = Len(s) /\ DOMAIN s = 1..n
  OBVIOUS
<1>2. PICK q : q = [i \in 1..n |-> IF s[i] \in S THEN <<s[i]>> ELSE <<>>]
  OBVIOUS
<1>3. Kept(s, S) = FlattenSeq(q) /\ Len(q) = n /\ q \in Seq(Seq(T))
  <2>1. \A i \in 1..n : s[i] \in T /\ q[i] \in Seq(T)
    BY <1>1, <1>2
  <2>2. q \in [1..n -> Seq(T)]
    BY <1>2, <2>1
  <2>3. q \in Seq(Seq(T)) /\ Len(q) = n
    BY <1>1, <2>2
  <2>4. Kept(s, S) = FlattenSeq([i \in 1..n |-> IF s[i] \in S THEN <<s[i]>> ELSE <<>>])
    BY <1>1, Zenon DEF Kept
  <2>5. QED
    BY <1>2, <2>3, <2>4
<1>4. CASE n = 0
  <2>1. s = <<>> /\ q = <<>>
    BY <1>1, <1>3, <1>4
  <2>2. FlattenSeq(q) = <<>>
    BY <2>1 DEF FlattenSeq
  <2>3. Range(<<>>) = {} /\ IsInjective(<<>>) /\ <<>> \in Seq(T)
    BY DEF Range, IsInjective
  <2>4. Kept(s, S) = <<>>
    BY <1>3, <2>2, Zenon
  <2>5. {} = {} \cap S
    OBVIOUS
  <2>6. QED
    BY <2>1, <2>3, <2>4, <2>5, Zenon
<1>5. CASE n # 0
  <2> DEFINE Upto(i) == {x \in Seq(T) : /\ Range(x) = {s[j] : j \in 1..i} \cap S
                                        /\ IsInjective(s) => IsInjective(x)}
  <2>1. PICK Q : Q = [i \in 1..n |-> Upto(i)]
    OBVIOUS
  <2>2. ASSUME NEW i \in 1..n
        PROVE  /\ q[i] \in Seq(T) /\ IsInjective(q[i]) /\ Range(q[i]) = {s[i]} \cap S
    <3>1. s[i] \in T /\ q[i] = IF s[i] \in S THEN <<s[i]>> ELSE <<>>
      BY <1>1, <1>2
    <3>2. QED
      BY <3>1 DEF Range, IsInjective
  <2>3. q[1] \in Q[1]
    <3>1. {s[j] : j \in 1..1} = {s[1]} /\ 1 \in 1..n
      BY <1>5
    <3>2. q[1] \in Upto(1)
      BY <2>2, <3>1
    <3>3. QED
      BY <2>1, <3>1, <3>2
  <2>4. ASSUME NEW i \in 1..n, i # 1, NEW x \in Q[i - 1] PROVE x \o q[i] \in Q[i]
    <3>1. i - 1 \in 1..n
      BY <2>4
    <3>2. x \in Upto(i - 1)
      BY <2>1, <2>4, <3>1
    <3>3. x \in Seq(T) /\ Range(x) = {s[j] : j \in 1..(i - 1)} \cap S
          /\ (IsInjective(s) => IsInjective(x))
      BY <3>2
    <3>4. {s[j] : j \in 1..i} = {s[j] : j \in 1..(i - 1)} \cup {s[i]}
      <4>1. 1..i = (1..(i - 1)) \cup {i}
        BY <2>4
      <4>2. QED
        BY <4>1
    <3>5. IsInjective(s) => Range(x) \cap Range(q[i]) = {}
      <4>1. \A j \in 1..(i - 1) : j \in DOMAIN s /\ i \in DOMAIN s /\ j # i
        BY <1>1
      <4>2. IsInjective(s) => s[i] \notin {s[j] : j \in 1..(i - 1)}
        BY <4>1 DEF IsInjective
      <4>3. QED
        BY <2>2, <3>3, <4>2
    <3>6. /\ x \o q[i] \in Seq(T) /\ Range(x \o q[i]) = {s[j] : j \in 1..i} \cap S
          /\ IsInjective(s) => IsInjective(x \o q[i])
      <4>1. q[i] \in Seq(T) /\ IsInjective(q[i]) /\ Range(q[i]) = {s[i]} \cap S
        BY <2>2
      <4>2. /\ x \o q[i] \in Seq(T) /\ Range(x \o q[i]) = Range(x) \cup Range(q[i])
            /\ IsInjective(x) /\ IsInjective(q[i]) /\ Range(x) \cap Range(q[i]) = {}
               => IsInjective(x \o q[i])
        BY <3>3, <4>1, JoinedIs
      <4>3. Range(x \o q[i]) = {s[j] : j \in 1..i} \cap S
        BY <3>3, <3>4, <4>1, <4>2, Zenon
      <4>4. QED
        BY <3>3, <3>5, <4>1, <4>2, <4>3
    <3>7. x \o q[i] \in Upto(i)
      BY <3>6
    <3>8. QED
      BY <2>1, <3>7
  <2> HIDE DEF Upto
  <2>5. FlattenSeq(q) \in Q[n]
    BY <1>3, <1>5, <2>3, <2>4, FlattenSeqInduction
  <2>6. FlattenSeq(q) \in Upto(n)
    BY <1>5, <2>1, <2>5
  <2>7. Range(s) = {s[j] : j \in 1..n}
    BY <1>1 DEF Range
  <2>8. QED
    BY <1>3, <2>6, <2>7 DEF Upto
<1>6. QED
  BY <1>4, <1>5

(* What a list adds to a result.                                           *)
LEMMA NewInIs ==
    ASSUME NEW T, NEW s \in Seq(T), NEW out
    PROVE  /\ NewIn(s, out) \in Seq(T) /\ Range(NewIn(s, out)) = Range(s) \ Range(out)
           /\ IsInjective(NewIn(s, out))
<1>1. PICK n \in Nat : n = Len(s) /\ DOMAIN s = 1..n
  OBVIOUS
<1> DEFINE O == Range(out)
<1> DEFINE Before(i) == {s[j] : j \in 1..(i - 1)}
<1> DEFINE Piece(i) == IF s[i] \in O \cup Before(i) THEN <<>> ELSE <<s[i]>>
<1>2. PICK q : q = [i \in 1..n |-> Piece(i)]
  OBVIOUS
<1>3. NewIn(s, out) = FlattenSeq(q)
  <2>1. NewIn(s, out) = FlattenSeq([i \in DOMAIN s |-> Piece(i)])
    BY Zenon DEF NewIn
  <2>2. QED
    BY <1>1, <1>2, <2>1, Zenon
<1> HIDE DEF O
<1>4. ASSUME NEW i \in 1..n
      PROVE  /\ q[i] \in Seq(T) /\ IsInjective(q[i])
             /\ Range(q[i]) = {s[i]} \ (O \cup Before(i))
  <2>1. s[i] \in T /\ q[i] = Piece(i)
    BY <1>1, <1>2
  <2> HIDE DEF Before
  <2>2. CASE s[i] \in O \cup Before(i)
    BY <2>1, <2>2 DEF Range, IsInjective
  <2>3. CASE s[i] \notin O \cup Before(i)
    BY <2>1, <2>3 DEF Range, IsInjective
  <2>4. QED
    BY <2>2, <2>3
<1>5. q \in Seq(Seq(T)) /\ Len(q) = n
  <2>1. q \in [1..n -> Seq(T)]
    BY <1>2, <1>4
  <2>2. QED
    BY <1>1, <2>1
<1>6. CASE n = 0
  <2>1. s = <<>> /\ q = <<>>
    BY <1>1, <1>5, <1>6
  <2>2. FlattenSeq(q) = <<>>
    BY <2>1 DEF FlattenSeq
  <2>3. Range(<<>>) = {} /\ IsInjective(<<>>) /\ <<>> \in Seq(T)
    BY DEF Range, IsInjective
  <2>4. NewIn(s, out) = <<>>
    BY <1>3, <2>2, Zenon
  <2>5. {} = {} \ Range(out)
    OBVIOUS
  <2>6. QED
    BY <2>1, <2>3, <2>4, <2>5, Zenon
<1>7. CASE n # 0
  <2> DEFINE Upto(i) == {x \in Seq(T) : Range(x) = {s[j] : j \in 1..i} \ O /\ IsInjective(x)}
  <2>1. PICK Q : Q = [i \in 1..n |-> Upto(i)]
    OBVIOUS
  <2>2. q[1] \in Q[1]
    <3>1. {s[j] : j \in 1..1} = {s[1]} /\ 1 \in 1..n /\ Before(1) = {}
      BY <1>7
    <3>2. /\ q[1] \in Seq(T) /\ IsInjective(q[1])
          /\ Range(q[1]) = {s[1]} \ (O \cup Before(1))
      BY <1>4, <3>1
    <3>3. q[1] \in Upto(1)
      BY <3>1, <3>2
    <3>4. QED
      BY <2>1, <3>1, <3>3
  <2>3. ASSUME NEW i \in 1..n, i # 1, NEW x \in Q[i - 1] PROVE x \o q[i] \in Q[i]
    <3>1. i - 1 \in 1..n
      BY <2>3
    <3>2. x \in Upto(i - 1)
      BY <2>1, <2>3, <3>1
    <3>3. x \in Seq(T) /\ Range(x) = Before(i) \ O /\ IsInjective(x)
      BY <3>2
    <3>4. {s[j] : j \in 1..i} = Before(i) \cup {s[i]}
      <4>1. 1..i = (1..(i - 1)) \cup {i}
        BY <2>3
      <4>2. QED
        BY <4>1
    <3> HIDE DEF Before
    <3>5. q[i] \in Seq(T) /\ IsInjective(q[i]) /\ Range(q[i]) = {s[i]} \ (O \cup Before(i))
      BY <1>4
    <3>6. Range(x) \cap Range(q[i]) = {}
      BY <3>3, <3>5
    <3>7. /\ x \o q[i] \in Seq(T) /\ Range(x \o q[i]) = Range(x) \cup Range(q[i])
          /\ IsInjective(x \o q[i])
      BY <3>3, <3>5, <3>6, JoinedIs
    <3>8. Range(x) \cup Range(q[i]) = (Before(i) \cup {s[i]}) \ O
      BY <3>3, <3>5
    <3>9. x \o q[i] \in Upto(i)
      BY <3>4, <3>7, <3>8, Zenon
    <3>10. QED
      BY <2>1, <3>9
  <2> HIDE DEF Upto
  <2>4. FlattenSeq(q) \in Q[n]
    BY <1>5, <1>7, <2>2, <2>3, FlattenSeqInduction
  <2>5. FlattenSeq(q) \in Upto(n)
    BY <1>7, <2>1, <2>4
  <2>6. Range(s) = {s[j] : j \in 1..n}
    BY <1>1 DEF Range
  <2>7. QED
    BY <1>3, <2>5, <2>6 DEF Upto, O
<1>8. QED
  BY <1>6, <1>7

-----------------------------------------------------------------------------
(* The search. *)

(* The part of TypeOK that is about the search.                            *)
SearchTypeOK ==
    /\ others \in [Tag -> SUBSET Peer]
    /\ mode \in {"none", "all", "any"} /\ tags \in BoundedSeq(Tag, MaxTags)
    /\ read \in 0..Len(tags) /\ acc \in Seq(Node)
    /\ seen \in [Tag -> SUBSET Node] /\ steady \in [Tag -> SUBSET Node]

(* What is between two lookups: the result is sound for the tags read.     *)
FoundInv ==
    /\ mode = "any" =>
          /\ IsInjective(acc)
          /\ \A n \in Range(acc) : \E i \in 1..read : n \in seen[tags[i]]
          /\ \A i \in 1..read : steady[tags[i]] \subseteq Range(acc)
    /\ mode = "all" =>
          /\ \A i \in 1..read : Range(acc) \subseteq seen[tags[i]]
          /\ \A n \in Node : read > 0 /\ (\A i \in 1..read : n \in steady[tags[i]])
                             => n \in Range(acc)
          /\ read = 0 => acc = <<>>

(* The records of the moment are between those of the whole search and     *)
(* those of some time of it.                                               *)
SandwichInv ==
    /\ mode = "none" => tags = <<>> /\ read = 0 /\ acc = <<>>
    /\ \A i \in 1..Len(tags) : /\ steady[tags[i]] \subseteq Having(tags[i])
                               /\ Having(tags[i]) \subseteq seen[tags[i]]

SearchInv == SearchTypeOK /\ SandwichInv /\ FoundInv

LEMMA HavingIs ==
    ASSUME NEW t \in Tag
    PROVE  Having(t) = others[t] \cup (IF left[t] > 0 THEN {Self} ELSE {})
<1>1. TagService(t)[2] = t /\ TagService(t) # BareService(t)
  BY DEF TagService, BareService
<1>2. QED
  BY <1>1 DEF Having, Providers

LEMMA HavingType ==
    ASSUME others \in [Tag -> SUBSET Peer], NEW t \in Tag
    PROVE  Having(t) \subseteq Node
<1>1. others[t] \subseteq Peer
  OBVIOUS
<1>2. Having(t) = others[t] \/ Having(t) = others[t] \cup {Self}
  BY HavingIs
<1>3. QED
  BY <1>1, <1>2 DEF Node

LEMMA TagsType ==
    ASSUME NEW s \in BoundedSeq(Tag, MaxTags)
    PROVE  /\ s \in Seq(Tag) /\ Len(s) \in Nat /\ DOMAIN s = 1..Len(s)
           /\ \A i \in 1..Len(s) : s[i] \in Tag /\ Contains(s, s[i])
<1>1. PICK m \in 0..MaxTags : s \in [1..m -> Tag]
  BY TagAssumption DEF BoundedSeq, SeqOf
<1>2. m \in Nat
  BY <1>1, TagAssumption
<1>3. s \in Seq(Tag) /\ Len(s) = m
  BY <1>1, <1>2
<1>4. QED
  BY <1>1, <1>2, <1>3 DEF Contains

(* The records change beside the search, or it takes a step of its own.    *)
LEMMA SearchCases ==
    ASSUME [Next]_vars, others \in [Tag -> SUBSET Peer]
    PROVE  \/ UNCHANGED searchVars /\ others' \in [Tag -> SUBSET Peer] /\ Observe
           \/ UNCHANGED <<left, others, searchVars, seen, steady>>
           \/ StartSearch
           \/ FindTag
           \/ EndSearch
<1>1. CASE Tick
  BY <1>1 DEF Tick
<1>2. CASE Refresh
  BY <1>2 DEF Refresh
<1>3. CASE RefreshStep
  BY <1>3 DEF RefreshStep, AdvertiseTag, AdvertisedThen, AdvertiseFails
<1>4. ASSUME NEW t \in Tag, PeerChanges(t)
      PROVE  UNCHANGED searchVars /\ others' \in [Tag -> SUBSET Peer] /\ Observe
  BY <1>4 DEF PeerChanges
<1>5. CASE UNCHANGED vars
  BY <1>5 DEF vars
<1>6. QED
  BY <1>1, <1>2, <1>3, <1>4, <1>5 DEF Next, AdvertiserStep

(* What a lookup makes of the result.                                      *)
LEMMA FindTagIs ==
    ASSUME SearchTypeOK, SandwichInv, mode = "any" => IsInjective(acc), FindTag
    PROVE  \E t \in Tag :
              /\ read + 1 \in 1..Len(tags) /\ t = tags[read + 1] /\ read' = read + 1
              /\ mode # "none" /\ UNCHANGED <<left, others, mode, tags, seen, steady>>
              /\ acc' \in Seq(Node) /\ (mode = "any" => IsInjective(acc'))
              /\ Range(acc') = IF mode = "any" THEN Range(acc) \cup Having(t)
                               ELSE IF read = 0 THEN Having(t) ELSE Range(acc) \cap Having(t)
<1>1. Len(tags) \in Nat /\ tags \in Seq(Tag) /\ \A i \in 1..Len(tags) : tags[i] \in Tag
  BY TagsType DEF SearchTypeOK
<1>2. read < Len(tags) /\ read \in Nat
  BY <1>1 DEF FindTag, FindIn, SearchTypeOK
<1>3. read + 1 \in 1..Len(tags)
  BY <1>1, <1>2
<1>4. PICK t \in Tag : t = tags[read + 1]
  BY <1>1, <1>3
<1> DEFINE H == Having(t)
<1>5. H \subseteq Node
  BY HavingType DEF SearchTypeOK
<1>6. /\ mode # "none" /\ read' = read + 1
      /\ UNCHANGED <<left, others, mode, tags, seen, steady>>
  BY DEF FindTag, FindIn
<1>7. PICK providers \in {list \in BoundedSeq(Node, MaxListed) : Range(list) = H} :
        acc' = IF mode = "any" THEN acc \o NewIn(providers, acc)
               ELSE IF read = 0 THEN providers
               ELSE Kept(acc, Range(providers))
  BY <1>4 DEF FindTag, FindIn, FindService, Having
<1> HIDE DEF H
<1>8. providers \in Seq(Node) /\ Range(providers) = H
  <2>1. PICK m \in 0..MaxListed : providers \in [1..m -> Node]
    BY <1>7, TagAssumption DEF BoundedSeq, SeqOf
  <2>2. m \in Nat
    BY <2>1, TagAssumption
  <2>3. providers \in Seq(Node)
    BY <2>1, <2>2
  <2>4. QED
    BY <1>7, <2>3
<1>9. acc \in Seq(Node)
  BY DEF SearchTypeOK
<1>10. CASE mode = "any"
  <2> DEFINE more == NewIn(providers, acc)
  <2>1. more \in Seq(Node) /\ Range(more) = H \ Range(acc) /\ IsInjective(more)
    BY <1>8, NewInIs
  <2> HIDE DEF more
  <2>2. acc' = acc \o more
    BY <1>7, <1>10 DEF more
  <2>3. Range(acc) \cap Range(more) = {}
    BY <2>1
  <2>4. acc' \in Seq(Node) /\ Range(acc') = Range(acc) \cup Range(more) /\ IsInjective(acc')
    <3>1. IsInjective(acc)
      BY <1>10
    <3>2. QED
      BY <1>9, <2>1, <2>2, <2>3, <3>1, JoinedIs
  <2>5. Range(acc) \cup Range(more) = Range(acc) \cup H
    BY <1>5, <2>1
  <2>6. QED
    BY <1>3, <1>4, <1>6, <1>10, <2>4, <2>5 DEF H
<1>11. CASE mode # "any" /\ read = 0
  BY <1>3, <1>4, <1>6, <1>7, <1>8, <1>11 DEF H
<1>12. CASE mode # "any" /\ read # 0
  <2>1. acc' = Kept(acc, Range(providers))
    BY <1>7, <1>12
  <2>2. acc' \in Seq(Node) /\ Range(acc') = Range(acc) \cap H
    BY <1>8, <1>9, <2>1, KeptIs
  <2>3. QED
    BY <1>3, <1>4, <1>6, <1>12, <2>2 DEF H
<1>13. QED
  BY <1>10, <1>11, <1>12

LEMMA SearchStart == Init => SearchInv
<1> SUFFICES ASSUME Init PROVE SearchInv
  OBVIOUS
<1>1. <<>> \in BoundedSeq(Tag, MaxTags)
  <2>1. 0 \in 0..MaxTags /\ <<>> \in [1..0 -> Tag]
    BY TagAssumption
  <2>2. QED
    BY <2>1 DEF BoundedSeq, SeqOf
<1>2. SearchTypeOK
  BY <1>1 DEF Init, SearchTypeOK, Unseen
<1>3. SandwichInv
  BY DEF Init, SandwichInv
<1>4. FoundInv
  BY DEF Init, FoundInv, IsInjective
<1>5. QED
  BY <1>2, <1>3, <1>4 DEF SearchInv

LEMMA SearchInductive == SearchInv /\ [Next]_vars => SearchInv'
<1> SUFFICES ASSUME SearchInv, [Next]_vars PROVE SearchInv'
  OBVIOUS
<1>1. SearchTypeOK /\ SandwichInv /\ FoundInv
  BY DEF SearchInv
<1>2. /\ Len(tags) \in Nat /\ \A i \in 1..Len(tags) : tags[i] \in Tag /\ Contains(tags, tags[i])
      /\ read \in 0..Len(tags) /\ read \in Nat
  <2>1. tags \in BoundedSeq(Tag, MaxTags) /\ read \in 0..Len(tags)
    BY <1>1 DEF SearchTypeOK
  <2>2. QED
    BY <2>1, TagsType
<1>3. \A t \in Tag : Having(t) \subseteq Node
  BY <1>1, HavingType DEF SearchTypeOK
<1>4. CASE UNCHANGED searchVars /\ others' \in [Tag -> SUBSET Peer] /\ Observe
  <2>1. UNCHANGED <<mode, tags, read, acc>>
    BY <1>4 DEF searchVars
  <2>2. \A t \in Tag : Having(t)' \subseteq Node
    <3>1. ASSUME others' \in [Tag -> SUBSET Peer], NEW t \in Tag PROVE Having(t)' \subseteq Node
      <4>1. (others \in [Tag -> SUBSET Peer] => Having(t) \subseteq Node)'
        BY HavingType, PTL
      <4>2. QED
        BY <3>1, <4>1
    <3>2. QED
      BY <1>4, <3>1
  <2>3. /\ seen' = [t \in Tag |-> IF Contains(tags, t) THEN seen[t] \cup Having(t)' ELSE {}]
        /\ steady' = [t \in Tag |-> steady[t] \cap Having(t)']
    BY <1>4 DEF Observe
  <2>4. SearchTypeOK'
    <3>1. seen' \in [Tag -> SUBSET Node] /\ steady' \in [Tag -> SUBSET Node]
      BY <1>1, <2>2, <2>3 DEF SearchTypeOK
    <3>2. QED
      BY <1>1, <1>4, <2>1, <3>1 DEF SearchTypeOK
  <2>5. ASSUME NEW i \in 1..Len(tags)
        PROVE  /\ seen'[tags[i]] = seen[tags[i]] \cup Having(tags[i])'
               /\ steady'[tags[i]] = steady[tags[i]] \cap Having(tags[i])'
    <3>1. tags[i] \in Tag /\ Contains(tags, tags[i])
      BY <1>2
    <3>2. PICK t \in Tag : t = tags[i] /\ Contains(tags, t)
      BY <3>1
    <3>3. seen'[t] = seen[t] \cup Having(t)' /\ steady'[t] = steady[t] \cap Having(t)'
      BY <2>3, <3>2
    <3>4. QED
      BY <2>1, <3>2, <3>3
  <2>6. SandwichInv'
    BY <1>1, <2>1, <2>5 DEF SandwichInv
  <2>7. \A i \in 1..read : /\ i \in 1..Len(tags)
                           /\ seen[tags[i]] \subseteq seen'[tags[i]]
                           /\ steady'[tags[i]] \subseteq steady[tags[i]]
    BY <1>2, <2>5
  <2>8. FoundInv'
    BY <1>1, <2>1, <2>7 DEF FoundInv
  <2>9. QED
    BY <2>4, <2>6, <2>8 DEF SearchInv
<1>5. CASE UNCHANGED <<left, others, searchVars, seen, steady>>
  <2>1. UNCHANGED <<left, others, mode, tags, read, acc, seen, steady>>
    BY <1>5 DEF searchVars
  <2>2. QED
    BY <1>1, <2>1 DEF SearchInv, SearchTypeOK, SandwichInv, FoundInv, Having, Providers
<1>6. CASE StartSearch
  <2>1. /\ mode' \in {"all", "any"} /\ tags' \in BoundedSeq(Tag, MaxTags)
        /\ read' = 0 /\ acc' = <<>> /\ UNCHANGED <<left, others>>
        /\ seen' = [t \in Tag |-> IF Contains(tags', t) THEN Having(t) ELSE {}] /\ steady' = seen'
    BY <1>6 DEF StartSearch
  <2>2. /\ Len(tags') \in Nat /\ \A i \in 1..Len(tags') : tags'[i] \in Tag /\ Contains(tags', tags'[i])
    BY <2>1, TagsType
  <2>3. seen' \in [Tag -> SUBSET Node]
    BY <1>3, <2>1
  <2>4. SearchTypeOK'
    BY <1>1, <2>1, <2>2, <2>3 DEF SearchTypeOK
  <2>5. \A t \in Tag : Having(t)' = Having(t)
    BY <2>1 DEF Having, Providers
  <2>6. SandwichInv'
    <3>1. ASSUME NEW i \in 1..Len(tags')
          PROVE  seen'[tags'[i]] = Having(tags[i])' /\ steady'[tags'[i]] = Having(tags[i])'
      <4>1. PICK t \in Tag : t = tags'[i] /\ Contains(tags', t)
        BY <2>2
      <4>2. seen'[t] = Having(t) /\ steady'[t] = Having(t) /\ Having(t)' = Having(t)
        BY <2>1, <2>5, <4>1
      <4>3. QED
        BY <4>1, <4>2
    <3>2. QED
      BY <2>1, <3>1 DEF SandwichInv
  <2>7. FoundInv'
    BY <2>1 DEF FoundInv, IsInjective, Range
  <2>8. QED
    BY <2>4, <2>6, <2>7 DEF SearchInv
<1>7. CASE FindTag
  <2>1. PICK t \in Tag :
          /\ read + 1 \in 1..Len(tags) /\ t = tags[read + 1] /\ read' = read + 1
          /\ mode # "none" /\ UNCHANGED <<left, others, mode, tags, seen, steady>>
          /\ acc' \in Seq(Node) /\ (mode = "any" => IsInjective(acc'))
          /\ Range(acc') = IF mode = "any" THEN Range(acc) \cup Having(t)
                           ELSE IF read = 0 THEN Having(t) ELSE Range(acc) \cap Having(t)
    BY <1>1, <1>7, FindTagIs DEF FoundInv
  <2>2. SearchTypeOK'
    BY <1>1, <2>1 DEF SearchTypeOK
  <2>3. SandwichInv'
    BY <1>1, <2>1 DEF SandwichInv, Having, Providers
  <2>4. steady[t] \subseteq Having(t) /\ Having(t) \subseteq seen[t]
    BY <1>1, <2>1 DEF SandwichInv
  <2>5. \A i \in 1..read' : i \in 1..read \/ (i = read + 1 /\ tags[i] = t)
    BY <1>2, <2>1
  <2>6. /\ read + 1 \in 1..read' /\ tags[read + 1] = t /\ read' # 0
        /\ \A i \in 1..read : i \in 1..read'
    BY <1>2, <2>1
  <2>7. ASSUME mode = "any" PROVE FoundInv'
    <3>1. Range(acc') = Range(acc) \cup Having(t)
      BY <2>1, <2>7
    <3>2. \A n \in Range(acc) : \E i \in 1..read : n \in seen[tags[i]]
      BY <1>1, <2>7 DEF FoundInv
    <3>3. \A i \in 1..read : steady[tags[i]] \subseteq Range(acc)
      BY <1>1, <2>7 DEF FoundInv
    <3>4. \A n \in Range(acc') : \E i \in 1..read' : n \in seen[tags[i]]
      BY <2>4, <2>6, <3>1, <3>2
    <3>5. \A i \in 1..read' : steady[tags[i]] \subseteq Range(acc')
      BY <2>4, <2>5, <3>1, <3>3
    <3>6. /\ \A n \in Range(acc') : \E i \in 1..read' : n \in seen'[tags'[i]]
          /\ \A i \in 1..read' : steady'[tags'[i]] \subseteq Range(acc')
          /\ mode' = "any" /\ mode' # "all" /\ IsInjective(acc')
      BY <2>1, <2>7, <3>4, <3>5
    <3>7. QED
      BY <3>6 DEF FoundInv
  <2>8. ASSUME mode = "all" PROVE FoundInv'
    <3>1. Range(acc') = IF read = 0 THEN Having(t) ELSE Range(acc) \cap Having(t)
      BY <2>1, <2>8
    <3>2. /\ \A i \in 1..read : Range(acc) \subseteq seen[tags[i]]
          /\ \A n \in Node : read > 0 /\ (\A i \in 1..read : n \in steady[tags[i]])
                             => n \in Range(acc)
      BY <1>1, <2>8 DEF FoundInv
    <3>3. \A i \in 1..read' : Range(acc') \subseteq seen[tags[i]]
      BY <1>2, <2>4, <2>5, <3>1, <3>2
    <3>4. ASSUME NEW n \in Node, \A i \in 1..read' : n \in steady[tags[i]]
          PROVE  n \in Range(acc')
      <4>1. n \in Having(t)
        BY <2>4, <2>6, <3>4
      <4>2. read > 0 => n \in Range(acc)
        BY <2>6, <3>2, <3>4
      <4>3. read = 0 \/ read > 0
        BY <1>2
      <4>4. QED
        BY <3>1, <4>1, <4>2, <4>3
    <3>5. /\ \A i \in 1..read' : Range(acc') \subseteq seen'[tags'[i]]
          /\ \A n \in Node : (\A i \in 1..read' : n \in steady'[tags'[i]]) => n \in Range(acc')
          /\ mode' = "all" /\ mode' # "any" /\ read' # 0
      BY <2>1, <2>6, <2>8, <3>3, <3>4
    <3>6. QED
      BY <3>5 DEF FoundInv
  <2>9. FoundInv'
    <3>1. mode \in {"none", "all", "any"}
      BY <1>1 DEF SearchTypeOK
    <3>2. mode # "none"
      BY <2>1
    <3>3. QED
      BY <2>7, <2>8, <3>1, <3>2, Zenon
  <2>10. QED
    BY <2>2, <2>3, <2>9 DEF SearchInv
<1>8. CASE EndSearch
  <2>1. /\ mode' = "none" /\ tags' = <<>> /\ read' = 0 /\ acc' = <<>>
        /\ seen' = Unseen /\ steady' = Unseen /\ UNCHANGED <<left, others>>
    BY <1>8 DEF EndSearch
  <2>2. <<>> \in BoundedSeq(Tag, MaxTags)
    <3>1. 0 \in 0..MaxTags /\ <<>> \in [1..0 -> Tag]
      BY TagAssumption
    <3>2. QED
      BY <3>1 DEF BoundedSeq, SeqOf
  <2>3. SearchTypeOK'
    BY <1>1, <2>1, <2>2 DEF SearchTypeOK, Unseen
  <2>4. SandwichInv'
    BY <2>1 DEF SandwichInv
  <2>5. FoundInv'
    BY <2>1 DEF FoundInv, IsInjective
  <2>6. QED
    BY <2>3, <2>4, <2>5 DEF SearchInv
<1>9. QED
  BY <1>1, <1>4, <1>5, <1>6, <1>7, <1>8, SearchCases DEF SearchTypeOK

LEMMA SearchReturns == SearchInv => SearchIsSound
<1> SUFFICES ASSUME SearchInv, mode # "none", read = Len(tags) PROVE SearchIsSound
  BY DEF SearchIsSound
<1>1. SearchTypeOK /\ FoundInv
  BY DEF SearchInv
<1>2. Len(tags) \in Nat /\ DOMAIN tags = 1..Len(tags) /\ tags \in Seq(Tag)
  BY <1>1, TagsType DEF SearchTypeOK
<1>3. Range(tags) = {tags[i] : i \in 1..read}
  BY <1>2 DEF Range
<1> DEFINE of(S) == {S[t] : t \in Range(tags)}
<1>4. /\ \A S \in of(seen) : \E i \in 1..read : S = seen[tags[i]]
      /\ \A i \in 1..read : seen[tags[i]] \in of(seen)
      /\ \A S \in of(steady) : \E i \in 1..read : S = steady[tags[i]]
      /\ \A i \in 1..read : steady[tags[i]] \in of(steady)
  BY <1>3
<1> HIDE DEF of
<1>5. mode = "any" => IsInjective(acc)
  BY <1>1 DEF FoundInv
<1>6. ASSUME mode = "any"
      PROVE  UNION of(steady) \subseteq Range(acc) /\ Range(acc) \subseteq UNION of(seen)
  <2>1. /\ \A n \in Range(acc) : \E i \in 1..read : n \in seen[tags[i]]
        /\ \A i \in 1..read : steady[tags[i]] \subseteq Range(acc)
    BY <1>1, <1>6 DEF FoundInv
  <2>2. QED
    BY <1>4, <2>1
<1>7. ASSUME mode = "all", NEW n \in Node
      PROVE  /\ n \in Range(acc) => tags # <<>> /\ \A S \in of(seen) : n \in S
             /\ tags # <<>> /\ (\A S \in of(steady) : n \in S) => n \in Range(acc)
  <2>1. /\ \A i \in 1..read : Range(acc) \subseteq seen[tags[i]]
        /\ read > 0 /\ (\A i \in 1..read : n \in steady[tags[i]]) => n \in Range(acc)
        /\ read = 0 => acc = <<>>
    BY <1>1, <1>7 DEF FoundInv
  <2>2. tags = <<>> => n \notin Range(acc)
    BY <2>1 DEF Range
  <2>3. tags # <<>> => read > 0
    BY <1>2
  <2>4. QED
    BY <1>4, <2>1, <2>2, <2>3
<1>8. QED
  BY <1>5, <1>6, <1>7 DEF SearchIsSound, of

(***************************************************************************)
(* Whatever records come and go between its lookups, a search returns      *)
(* nobody without the tags and leaves out nobody who had them all through  *)
(* it; find_tags_any returns nobody twice, however often a list names him. *)
(***************************************************************************)
THEOREM SearchesAreSound == Spec => []SearchIsSound
  BY SearchStart, SearchInductive, SearchReturns, PTL DEF Spec

(***************************************************************************)
(* The state of the advertiser and of a search stays well typed.           *)
(***************************************************************************)
THEOREM TypeCorrect == Spec => []TypeOK
<1>1. AdvertiserTypeOK /\ SearchInv => TypeOK
  BY DEF AdvertiserTypeOK, SearchInv, SearchTypeOK, TypeOK
<1>2. QED
  BY <1>1, AdvertiserTypes, SearchStart, SearchInductive, PTL DEF Spec
=============================================================================
