----------------------------- MODULE CallProofs -----------------------------
(***************************************************************************)
(* Theorems about Locate and Call: what a caller is returned, and what the *)
(* instances chosen for it are.                                            *)
(***************************************************************************)
EXTENDS Call, SequenceLemmas, TLAPS

(* The smaller and the greater of two integers.                            *)
LEMMA MinOfTwo ==
    ASSUME NEW a \in Int, NEW b \in Int PROVE Min({a, b}) = IF a <= b THEN a ELSE b
BY DEF Min

LEMMA MaxOfTwo ==
    ASSUME NEW a \in Int, NEW b \in Int PROVE Max({a, b}) = IF a <= b THEN b ELSE a
BY DEF Max

(* The first ones of a sequence.                                           *)
LEMMA FirstOnes ==
    ASSUME NEW S, NEW s \in Seq(S), NEW w \in Nat
    PROVE  LET t == SubSeq(s, 1, Min({w, Len(s)}))
           IN  /\ t \in Seq(S) /\ Len(t) \in Nat
               /\ Len(t) = Min({w, Len(s)}) /\ Len(t) <= w /\ Len(t) <= Len(s)
               /\ \A i \in 1..Len(t) : t[i] = s[i]
<1>1. PICK m \in Nat : m = Min({w, Len(s)}) /\ m <= w /\ m <= Len(s)
  BY MinOfTwo
<1> DEFINE t == SubSeq(s, 1, m)
<1>2. t \in Seq(S) /\ Len(t) = m
  <2>0. ASSUME NEW i \in 1..m PROVE s[i] \in S
    <3>1. i \in 1..Len(s)
      BY <1>1
    <3>2. QED
      BY <3>1, ElementOfSeq
  <2>1. m - 1 + 1 = m /\ (1 <= m \/ m = 0)
    BY <1>1
  <2>2. /\ SubSeq(s, 1, m) \in Seq(S)
        /\ Len(SubSeq(s, 1, m)) = IF 1 <= m THEN m - 1 + 1 ELSE 0
    BY <2>0, <2>1, SubSeqProperties
  <2>3. QED
    BY <2>1, <2>2
<1>3. \A i \in 1..m : t[i] = s[i]
  BY <1>1, SubSeqProperties
<1> HIDE DEF t
<1>4. /\ t \in Seq(S) /\ Len(t) \in Nat
      /\ Len(t) = m /\ Len(t) <= w /\ Len(t) <= Len(s)
      /\ \A i \in 1..Len(t) : t[i] = s[i]
  BY <1>1, <1>2, <1>3
<1>5. QED
  BY <1>1, <1>4 DEF t

LEMMA WantedType == ASSUME want \in Nat PROVE Wanted \in Nat \ {0}
BY MaxOfTwo DEF Wanted

-----------------------------------------------------------------------------
(* What is read is of its type, and what is returned is ranked by it.      *)
ReadInv ==
    /\ clock \in Nat /\ faults \in 0..MaxFaults
    /\ want \in Nat /\ now \in Nat
    /\ pc \in {"find", "atlas", "beacon", "status", "rank", "located", "failed", "returned"}
    /\ atlas \in [Node -> Entry \cup {Unknown}]
    /\ ids \subseteq Listing /\ local_id \in {Self, Unknown}
    /\ pc \in {"status", "rank", "located"} /\ ids # {} => beacon \in Beacon

RankedInv ==
    /\ instances \in Seq(Listing) /\ Len(instances) <= Wanted
    /\ pc \notin {"located", "returned"} => instances = <<>>
    /\ pc = "located" => instances \in Ranked

LEMMA CandidatesFinite ==
    ASSUME ids \subseteq Listing
    PROVE  IsFiniteSet(Candidates) /\ Candidates \subseteq Listing
BY FS_Subset, LocateAssumption DEF Candidates

(* Every result of the ranking is the beginning of an order.               *)
LEMMA RankedIs ==
    ASSUME ids \subseteq Listing, want \in Nat, NEW t \in Ranked
    PROVE  \E s \in SetToSeqs(Candidates) :
              /\ IF Spreading THEN RoundRobin(s) ELSE BestFirst(s)
              /\ t \in Seq(Listing) /\ Len(t) = Min({Wanted, Len(s)})
              /\ Len(t) <= Wanted /\ Len(t) <= Len(s)
              /\ \A i \in 1..Len(t) : t[i] = s[i]
<1>1. PICK s \in SetToSeqs(Candidates) :
         /\ t = SubSeq(s, 1, Min({Wanted, Len(s)}))
         /\ IF Spreading THEN RoundRobin(s) ELSE BestFirst(s)
  BY DEF Ranked
<1>2. s \in Seq(Listing)
  <2>1. s \in Seq(Candidates) /\ Candidates \subseteq Listing
    BY Orders, CandidatesFinite
  <2>2. QED
    BY <2>1
<1>3. QED
  BY <1>1, <1>2, FirstOnes, WantedType

LEMMA NothingRanked ==
    ASSUME ids = {}, want \in Nat
    PROVE  <<>> \in Ranked
<1>1. Candidates = {}
  BY DEF Candidates
<1>2. <<>> \in SetToSeqs({})
  <2>1. Cardinality({}) = 0
    BY FS_EmptySet
  <2>2. QED
    BY <2>1 DEF SetToSeqs
<1>3. SubSeq(<<>>, 1, Min({Wanted, Len(<<>>)})) = <<>>
  BY WantedType, MinOfTwo
<1>4. RoundRobin(<<>>) /\ BestFirst(<<>>)
  BY DEF RoundRobin, BestFirst
<1>5. QED
  BY <1>1, <1>2, <1>3, <1>4 DEF Ranked

-----------------------------------------------------------------------------
(* Until something but a new clock, fault count, status or result is read, *)
(* the ranking is the same.                                                *)
LEMMA RankedStays ==
    ASSUME UNCHANGED <<argVars, atlas, ids, beacon, now, local_id>>
    PROVE  Ranked' = Ranked /\ Wanted' = Wanted
<1>1. ASSUME NEW n PROVE /\ Score(n)' = Score(n) /\ Bucket(n)' = Bucket(n)
                         /\ Eligible(n)' = Eligible(n)
  BY DEF Score, RemoteScore, JitterOf, Age, Told, Local, Bucket, Eligible, EligibleWithin, argVars
<1>2. /\ Candidates' = Candidates /\ Wanted' = Wanted /\ Spreading' = Spreading
  BY <1>1 DEF Candidates, Wanted, Spreading, argVars
<1>3. ASSUME NEW s, NEW i PROVE Round(s, i)' = Round(s, i) /\ Place(s, i)' = Place(s, i)
  <2>1. \A k : Bucket(s[k])' = Bucket(s[k])
    BY <1>1
  <2>2. {k \in 1..(i - 1) : Bucket(s[k]) = Bucket(s[i])}'
          = {k \in 1..(i - 1) : Bucket(s[k]) = Bucket(s[i])}
    BY <2>1
  <2>3. {k \in 1..i : Bucket(s[k]) = Bucket(s[i])}' = {k \in 1..i : Bucket(s[k]) = Bucket(s[i])}
    BY <2>1
  <2>4. QED
    BY <2>2, <2>3 DEF Round, Place
<1>4. ASSUME NEW s PROVE (RoundRobin(s)' <=> RoundRobin(s)) /\ (BestFirst(s)' <=> BestFirst(s))
  <2>1. ASSUME NEW i, NEW j PROVE Before(s[j], s[i])' <=> Before(s[j], s[i])
    BY <1>1 DEF Before
  <2>2. RoundRobin(s)' <=> RoundRobin(s)
    BY <1>3, <2>1 DEF RoundRobin
  <2>3. BestFirst(s)' <=> BestFirst(s)
    BY <2>1 DEF BestFirst
  <2>4. QED
    BY <2>2, <2>3
<1>5. QED
  BY <1>2, <1>4, Zenon DEF Ranked

LEMMA ReadInvStart == Init => ReadInv
<1>1. SUFFICES ASSUME Init PROVE ReadInv
  OBVIOUS
<1>2. clock \in Nat /\ faults \in 0..MaxFaults /\ want \in Nat /\ now \in Nat
  BY <1>1, LocateAssumption DEF Init
<1>3. atlas \in [Node -> Entry \cup {Unknown}]
  BY <1>1 DEF Init, NoAtlas
<1>4. pc = "find" /\ ids = {} /\ local_id = Unknown
  BY <1>1 DEF Init
<1>5. QED
  BY <1>2, <1>3, <1>4 DEF ReadInv

LEMMA ReadInvStep == ReadInv /\ [Next]_allVars => ReadInv'
<1>1. SUFFICES ASSUME ReadInv, [Next]_allVars PROVE ReadInv'
  OBVIOUS
<1> USE <1>1, LocateAssumption DEF ReadInv, argVars
<1>2. CASE FindService
  BY <1>2 DEF FindService
<1>3. CASE Atlas
  BY <1>3 DEF Atlas
<1>4. CASE LookupFails
  BY <1>4 DEF LookupFails, Fault
<1>5. CASE ReadBeacon
  BY <1>5 DEF ReadBeacon
<1>6. CASE ReadStatus
  BY <1>6 DEF ReadStatus
<1>7. CASE Rank
  BY <1>7 DEF Rank
<1>8. CASE Tick
  BY <1>8 DEF Tick
<1>9. CASE StartCalling
  BY <1>9 DEF StartCalling, NoAtlas
<1>10. CASE NotLocated \/ GetReply \/ (\E n \in Listing : Handle(n)) \/ Finished \/ UNCHANGED allVars
  BY <1>10 DEF NotLocated, GetReply, Handle, Finished, allVars, vars
<1>11. CASE \E n \in Listing : Lose(n)
  BY <1>11 DEF Lose, Fault
<1>12. CASE AskFails
  BY <1>12 DEF AskFails, FailsOver, Fault
<1>13. QED
  BY <1>2, <1>3, <1>4, <1>5, <1>6, <1>7, <1>8, <1>9, <1>10, <1>11, <1>12
     DEF Next, Locating, LocateNext

LEMMA RankedInvStart == Init => RankedInv
<1>1. SUFFICES ASSUME Init PROVE RankedInv
  OBVIOUS
<1>2. want \in Nat
  BY <1>1, LocateAssumption DEF Init
<1>3. QED
  BY <1>1, <1>2, WantedType DEF Init, RankedInv

LEMMA RankedInvStep == ReadInv /\ RankedInv /\ [Next]_allVars => RankedInv'
<1>1. SUFFICES ASSUME ReadInv, RankedInv, [Next]_allVars PROVE RankedInv'
  OBVIOUS
<1>2. ReadInv' /\ Wanted \in Nat \ {0} /\ want' = want /\ Wanted' = Wanted
  <2>1. ReadInv' /\ Wanted \in Nat \ {0}
    BY <1>1, ReadInvStep, WantedType DEF ReadInv
  <2>2. want' = want
    BY <1>1 DEF Next, Locating, LocateNext, FindService, Atlas, LookupFails, ReadBeacon, ReadStatus,
                Rank, Tick, StartCalling, NotLocated, GetReply, Handle, Finished, Lose, AskFails,
                FailsOver, allVars, vars, argVars
  <2>3. QED
    BY <2>1, <2>2 DEF Wanted
<1>3. CASE FindService
  <2>1. pc = "find" /\ instances = <<>> /\ instances' = <<>>
    BY <1>1, <1>3 DEF FindService, RankedInv
  <2>2. pc' = "located" => ids' = {}
    BY <1>3 DEF FindService
  <2>3. ids' = {} => <<>> \in Ranked'
    <3>1. (ids = {} /\ want \in Nat => <<>> \in Ranked)'
      BY NothingRanked, PTL
    <3>2. QED
      BY <1>2, <3>1 DEF ReadInv
  <2>4. QED
    BY <1>2, <2>1, <2>2, <2>3 DEF RankedInv
<1>4. CASE Rank
  <2>1. instances' \in Ranked /\ pc' = "located" /\ UNCHANGED <<argVars, atlas, ids, beacon, now, local_id>>
    BY <1>4 DEF Rank
  <2>2. instances' \in Seq(Listing) /\ Len(instances') <= Wanted
    BY <1>1, <2>1, RankedIs DEF ReadInv
  <2>3. instances' \in Ranked'
    BY <2>1, RankedStays
  <2>4. QED
    BY <1>2, <2>1, <2>2, <2>3 DEF RankedInv
<1>5. CASE Atlas \/ LookupFails \/ ReadBeacon \/ ReadStatus \/ Tick
  BY <1>1, <1>2, <1>5 DEF Atlas, LookupFails, ReadBeacon, ReadStatus, Tick, RankedInv
<1>6. CASE StartCalling
  BY <1>1, <1>2, <1>6 DEF StartCalling, RankedInv
<1>7. ASSUME UNCHANGED <<instances, pc, argVars, atlas, ids, beacon, now, local_id>> PROVE RankedInv'
  <2>1. Ranked' = Ranked
    BY <1>7, RankedStays
  <2>2. QED
    BY <1>1, <1>2, <1>7, <2>1 DEF RankedInv
<1>8. CASE NotLocated \/ GetReply \/ (\E n \in Listing : Handle(n) \/ Lose(n)) \/ AskFails \/ Finished
           \/ UNCHANGED allVars
  BY <1>7, <1>8 DEF NotLocated, GetReply, Handle, Lose, AskFails, FailsOver, Finished, allVars,
                    vars, argVars
<1>9. QED
  BY <1>1, <1>3, <1>4, <1>5, <1>6, <1>8 DEF Next, Locating, LocateNext

-----------------------------------------------------------------------------
(* The instances were asked in their order, each one before the last in    *)
(* vain, at the cost of a fault; so was the last one once its request is   *)
(* lost, and every one when the call gives up.                             *)
AskedInOrder ==
    \A n \in Listing : request[n] # "none" <=> \E i \in 1..asked : instances[i] = n

EachFailureIsAFault ==
    /\ caller = "waiting" \/ caller \in Reply => asked # 0 /\ asked - 1 <= faults
    /\ caller = "waiting" /\ request[Asking] = "lost" => asked <= faults
    /\ caller \in Reply => caller = request[Asking]
    /\ caller = "transport error" => asked = Len(instances) /\ asked <= faults

CallInv ==
    /\ asked \in 0..Len(instances)
    /\ request \in [Listing -> Reply \cup {"none", "sent", "lost"}]
    /\ caller \in Reply \cup {"locating", "waiting", "transport error"}
    /\ caller = "locating" <=> pc # "returned" /\ ~(pc = "failed" /\ caller = "transport error")
    /\ caller = "locating" => asked = 0
    /\ AskedInOrder /\ EachFailureIsAFault

LEMMA CallInvStart == CallInit => CallInv
<1>1. SUFFICES ASSUME CallInit PROVE CallInv
  OBVIOUS
<1>2. Len(<<>>) = 0
  OBVIOUS
<1>3. QED
  BY <1>1, <1>2 DEF CallInit, Init, CallInv, AskedInOrder, EachFailureIsAFault, Reply

(* The next instance is asked, or there is none: the invariant's parts.    *)
LEMMA AskNextKeeps ==
    ASSUME instances \in Seq(Listing), asked \in 0..Len(instances), AskedInOrder,
           request \in [Listing -> Reply \cup {"none", "sent", "lost"}],
           faults' \in Nat, asked <= faults', pc' = "returned",
           AskNext, instances' = instances
    PROVE  CallInv'
<1>0. Len(instances) \in Nat /\ asked \in Nat
  OBVIOUS
<1>1. Min({asked + 1, Len(instances)}) = IF asked + 1 <= Len(instances) THEN asked + 1 ELSE Len(instances)
  BY MinOfTwo
<1>2. CASE asked < Len(instances)
  <2>1. PICK n \in Listing : n = instances[asked + 1]
    BY <1>2
  <2>2. /\ asked' = asked + 1 /\ asked' \in 1..Len(instances) /\ caller' = "waiting"
        /\ request' = [request EXCEPT ![n] = "sent"] /\ instances'[asked'] = n
    BY <1>1, <1>2, <2>1 DEF AskNext
  <2>3. /\ request' \in [Listing -> Reply \cup {"none", "sent", "lost"}] /\ request'[n] = "sent"
        /\ \A m \in Listing : m # n => request'[m] = request[m]
    BY <2>2
  <2>4. ASSUME NEW m \in Listing
        PROVE  request'[m] # "none" <=> \E i \in 1..asked' : instances'[i] = m
    <3>1. (\E i \in 1..asked' : instances'[i] = m) <=> m = n \/ \E i \in 1..asked : instances[i] = m
      <4>1. \A i \in 1..asked' : i \in 1..asked \/ i = asked + 1
        BY <2>2
      <4>2. \A i \in 1..asked : i \in 1..asked'
        BY <2>2
      <4>3. asked' \in 1..asked'
        BY <2>2
      <4>4. QED
        BY <2>1, <2>2, <4>1, <4>2, <4>3, Zenon
    <3>2. QED
      BY <2>3, <3>1 DEF AskedInOrder
  <2>5. AskedInOrder'
    BY <2>4 DEF AskedInOrder
  <2>6. EachFailureIsAFault'
    <3>1. (Asking)' = n
      BY <2>2 DEF Asking
    <3>2. asked' - 1 <= faults' /\ asked' # 0
      BY <2>2
    <3>3. QED
      BY <2>2, <2>3, <3>1, <3>2 DEF EachFailureIsAFault, Reply
  <2>7. QED
    BY <2>2, <2>3, <2>5, <2>6 DEF CallInv
<1>3. CASE asked = Len(instances)
  <2>0. Min({asked + 1, Len(instances)}) = asked /\ ~(asked < Len(instances))
    BY <1>0, <1>1, <1>3
  <2>1. /\ asked' = asked /\ caller' = "transport error" /\ request' = request
    BY <2>0 DEF AskNext
  <2>2. AskedInOrder'
    BY <2>1 DEF AskedInOrder
  <2>3. EachFailureIsAFault'
    BY <1>3, <2>1 DEF EachFailureIsAFault, Reply
  <2>4. QED
    BY <2>1, <2>2, <2>3 DEF CallInv
<1>4. QED
  BY <1>2, <1>3

(* A request that was sent is answered or lost.                            *)
LEMMA AnsweredKeeps ==
    ASSUME instances \in Seq(Listing), CallInv, NEW n \in Listing, request[n] = "sent",
           NEW r \in Reply \cup {"lost"}, request' = [request EXCEPT ![n] = r],
           faults \in Nat, faults' = IF r = "lost" THEN faults + 1 ELSE faults,
           UNCHANGED <<instances, pc, asked, caller>>
    PROVE  CallInv'
<1>1. asked \in Nat /\ asked \in 0..Len(instances) /\ Len(instances) \in Nat
  <2>1. asked \in 0..Len(instances)
    BY Zenon DEF CallInv
  <2>2. Len(instances) \in Nat
    BY LenProperties
  <2>3. QED
    BY <2>1, <2>2
<1>2. EachFailureIsAFault
  BY Zenon DEF CallInv
<1>3. caller = "waiting" \/ caller \in Reply => asked # 0 /\ asked - 1 <= faults
  BY <1>2, Zenon DEF EachFailureIsAFault
<1>4. /\ request' \in [Listing -> Reply \cup {"none", "sent", "lost"}] /\ request'[n] = r
      /\ \A m \in Listing : m # n => request'[m] = request[m]
  BY DEF CallInv
<1>5. AskedInOrder'
  BY <1>4 DEF CallInv, AskedInOrder, Reply
<1>6. caller = "waiting" \/ caller \in Reply => Asking \in Listing /\ Asking' = Asking
  <2>1. caller = "waiting" \/ caller \in Reply => asked \in 1..Len(instances)
    BY <1>1, <1>3
  <2>2. QED
    BY <2>1, ElementOfSeq DEF Asking
<1>7. EachFailureIsAFault'
  <2>1. faults' \in Nat /\ faults <= faults' /\ asked \in Nat
    <3>2. CASE r = "lost"
      BY <1>1, <3>2
    <3>3. CASE r # "lost"
      BY <1>1, <3>3
    <3>4. QED
      BY <3>2, <3>3
  <2>2. caller = "waiting" \/ caller \in Reply => asked' # 0 /\ asked' - 1 <= faults'
    BY <1>1, <1>3, <2>1
  <2>3. ASSUME caller = "waiting", request'[Asking'] = "lost" PROVE asked' <= faults'
    <3>1. CASE Asking = n
      <4>1. request[Asking] # "lost" /\ r = "lost" /\ asked - 1 <= faults
        BY <1>4, <1>6, <1>3, <2>3, <3>1
      <4>2. QED
        BY <1>1, <4>1
    <3>2. CASE Asking # n
      BY <1>4, <1>6, <2>1, <2>3, <3>2 DEF CallInv, EachFailureIsAFault
    <3>3. QED
      BY <3>1, <3>2
  <2>4. ASSUME caller \in Reply PROVE caller = request'[Asking']
    BY <1>4, <1>6, <2>4 DEF CallInv, EachFailureIsAFault, Reply
  <2>5. caller = "transport error" => asked' = Len(instances') /\ asked' <= faults'
    <3>1. caller = "transport error" => asked = Len(instances) /\ asked <= faults
      BY <1>2, Zenon DEF EachFailureIsAFault
    <3>2. asked' = asked /\ instances' = instances
      OBVIOUS
    <3>3. asked <= faults => asked <= faults'
      BY <1>1, <2>1
    <3>4. QED
      BY <3>1, <3>2, <3>3, Zenon
  <2>6. QED
    BY <2>2, <2>3, <2>4, <2>5 DEF EachFailureIsAFault
<1>8. QED
  BY <1>4, <1>5, <1>7 DEF CallInv

LEMMA CallInvStep ==
    ReadInv /\ RankedInv /\ CallInv /\ [Next]_allVars => CallInv'
<1>1. SUFFICES ASSUME ReadInv, RankedInv, CallInv, [Next]_allVars PROVE CallInv'
  OBVIOUS
<1>2. /\ instances \in Seq(Listing) /\ faults \in Nat /\ asked \in Nat /\ asked \in 0..Len(instances)
      /\ AskedInOrder /\ EachFailureIsAFault /\ Len(instances) \in Nat
      /\ request \in [Listing -> Reply \cup {"none", "sent", "lost"}]
  <2>1. MaxFaults \in Nat /\ faults \in 0..MaxFaults
    BY <1>1, LocateAssumption DEF ReadInv
  <2>2. instances \in Seq(Listing)
    BY <1>1 DEF RankedInv
  <2>3. /\ asked \in 0..Len(instances) /\ AskedInOrder /\ EachFailureIsAFault
        /\ request \in [Listing -> Reply \cup {"none", "sent", "lost"}]
    BY <1>1, Zenon DEF CallInv
  <2>4. Len(instances) \in Nat
    BY <2>2, LenProperties
  <2>5. faults \in Nat /\ asked \in Nat
    BY <2>1, <2>3, <2>4
  <2>6. QED
    BY <2>2, <2>3, <2>4, <2>5
<1>3. CASE Locating
  <2>1. /\ pc \notin {"located", "returned", "failed"} /\ pc' # "returned" /\ UNCHANGED callVars
        /\ instances = <<>> /\ faults' \in Nat
    <3>1. ReadInv' /\ MaxFaults \in Nat
      BY <1>1, ReadInvStep, LocateAssumption
    <3>2. pc \notin {"located", "returned", "failed"} /\ pc' # "returned" /\ UNCHANGED callVars
      BY <1>3 DEF Locating, LocateNext, FindService, Atlas, LookupFails, ReadBeacon, ReadStatus,
                  Rank, Tick
    <3>3. QED
      BY <1>1, <3>1, <3>2 DEF ReadInv, RankedInv
  <2>2. caller = "locating" /\ caller' = "locating" /\ asked = 0 /\ asked' = 0 /\ request' = request
    BY <1>1, <2>1 DEF CallInv, callVars
  <2>3. ASSUME NEW n \in Listing PROVE request[n] = "none"
    BY <1>2, <2>2 DEF AskedInOrder
  <2>4. AskedInOrder'
    BY <2>2, <2>3 DEF AskedInOrder
  <2>5. EachFailureIsAFault'
    BY <2>2 DEF EachFailureIsAFault, Reply
  <2>6. asked' \in 0..Len(instances')
    <3>1. instances' \in Seq(Listing)
      BY <1>1, RankedInvStep DEF RankedInv
    <3>2. QED
      BY <2>2, <3>1, LenProperties
  <2>7. QED
    BY <1>2, <2>1, <2>2, <2>4, <2>5, <2>6 DEF CallInv
<1>4. CASE StartCalling
  <2>1. AskNext /\ pc' = "returned" /\ UNCHANGED <<instances, faults>> /\ pc = "located"
    BY <1>4 DEF StartCalling
  <2>2. asked = 0
    BY <1>1, <2>1 DEF CallInv
  <2>3. faults' \in Nat /\ asked <= faults'
    BY <1>2, <2>1, <2>2
  <2>4. QED
    BY <1>2, <2>1, <2>3, AskNextKeeps
<1>5. CASE NotLocated
  <2>1. /\ pc = "failed" /\ caller = "locating" /\ caller' = "transport error" /\ asked = 0
        /\ UNCHANGED <<pc, faults, instances, asked, request>>
    BY <1>1, <1>5 DEF NotLocated, CallInv, vars
  <2>2. instances = <<>>
    BY <1>1, <2>1 DEF RankedInv
  <2>3. Len(instances) = 0
    BY <2>2
  <2>4. AskedInOrder'
    BY <1>2, <2>1 DEF AskedInOrder
  <2>5. EachFailureIsAFault'
    <3>0. faults \in Nat /\ asked = 0
      BY <1>2, <2>1, Zenon
    <3>1. asked <= faults /\ asked = Len(instances)
      BY <2>3, <3>0
    <3>2. asked' = Len(instances') /\ asked' <= faults'
      BY <2>1, <3>1, Zenon
    <3>3. QED
      BY <2>1, <3>2, Zenon DEF EachFailureIsAFault, Reply
  <2>6. QED
    BY <1>2, <2>1, <2>4, <2>5 DEF CallInv
<1>6. CASE GetReply
  <2>1. /\ caller = "waiting" /\ request[Asking] \in Reply /\ caller' = request[Asking]
        /\ UNCHANGED <<pc, faults, instances, asked, request>>
    BY <1>6 DEF GetReply, vars
  <2>2. Asking' = Asking
    BY <2>1 DEF Asking
  <2>3. asked # 0 /\ asked - 1 <= faults
    BY <1>2, <2>1 DEF EachFailureIsAFault
  <2>4. EachFailureIsAFault'
    BY <2>1, <2>2, <2>3 DEF EachFailureIsAFault, Reply
  <2>5. AskedInOrder'
    BY <1>2, <2>1 DEF AskedInOrder
  <2>6. pc' = "returned" /\ caller' \in Reply /\ caller' # "locating"
    BY <1>1, <2>1 DEF CallInv, Reply
  <2>7. QED
    BY <1>2, <2>1, <2>4, <2>5, <2>6 DEF CallInv
<1>7. CASE AskFails
  <2>1. caller = "waiting" /\ AskNext /\ UNCHANGED <<pc, instances>>
    BY <1>7 DEF AskFails, FailsOver
  <2>2. pc' = "returned"
    BY <1>1, <2>1 DEF CallInv, Reply
  <2>3. asked - 1 <= faults /\ (request[Asking] = "lost" => asked <= faults)
    BY <1>2, <2>1 DEF EachFailureIsAFault
  <2>4. (request[Asking] = "lost" /\ faults' = faults) \/ faults' = faults + 1
    BY <1>7 DEF AskFails, FailsOver, Fault
  <2>5. faults' \in Nat /\ asked <= faults'
    BY <1>2, <2>3, <2>4
  <2>6. QED
    BY <1>2, <2>1, <2>2, <2>5, AskNextKeeps
<1>8. CASE \E n \in Listing : Handle(n)
  <2>1. PICK n \in Listing, r \in Reply :
           /\ request[n] = "sent" /\ request' = [request EXCEPT ![n] = r]
           /\ UNCHANGED <<faults, instances, pc, asked, caller>>
    BY <1>8 DEF Handle, vars
  <2>2. r # "lost"
    BY DEF Reply
  <2>3. QED
    BY <1>1, <1>2, <2>1, <2>2, AnsweredKeeps
<1>9. CASE \E n \in Listing : Lose(n)
  <2>1. PICK n \in Listing :
           /\ request[n] = "sent" /\ request' = [request EXCEPT ![n] = "lost"]
           /\ faults' = faults + 1 /\ UNCHANGED <<instances, pc, asked, caller>>
    BY <1>9 DEF Lose, Fault
  <2>2. QED
    BY <1>1, <1>2, <2>1, AnsweredKeeps
<1>10. CASE Finished \/ UNCHANGED allVars
  BY <1>1, <1>10 DEF Finished, allVars, vars, callVars, CallInv, AskedInOrder, EachFailureIsAFault,
                     Asking
<1>11. QED
  BY <1>1, <1>3, <1>4, <1>5, <1>6, <1>7, <1>8, <1>9, <1>10 DEF Next

LEMMA Invariance == Spec => [](ReadInv /\ RankedInv /\ CallInv)
<1>1. CallInit => ReadInv /\ RankedInv /\ CallInv
  BY ReadInvStart, RankedInvStart, CallInvStart DEF CallInit
<1>2. ReadInv /\ RankedInv /\ CallInv /\ [Next]_allVars => (ReadInv /\ RankedInv /\ CallInv)'
  BY ReadInvStep, RankedInvStep, CallInvStep
<1>3. QED
  BY <1>1, <1>2, PTL DEF Spec

(***************************************************************************)
(* call() gives up only after it asked every located instance in vain.     *)
(***************************************************************************)
THEOREM FailoverIsComplete == Spec => []FailsOnlyIfAllFail
<1>1. ReadInv /\ RankedInv /\ CallInv => FailsOnlyIfAllFail
  <2>1. SUFFICES ASSUME ReadInv, RankedInv, CallInv, caller = "transport error"
        PROVE  (\A n \in Chosen : request[n] # "none") /\ Len(instances) <= faults
    BY DEF FailsOnlyIfAllFail
  <2>2. asked = Len(instances) /\ asked <= faults
    BY <2>1, Zenon DEF CallInv, EachFailureIsAFault
  <2>3. instances \in Seq(Listing)
    BY <2>1 DEF RankedInv
  <2>4. ASSUME NEW n \in Chosen PROVE n \in Listing /\ request[n] # "none"
    <3>1. PICK i \in 1..asked : instances[i] = n
      BY <2>2, <2>3 DEF Chosen
    <3>2. n \in Listing
      BY <2>2, <2>3, <3>1
    <3>3. QED
      BY <2>1, <3>1, <3>2, Zenon DEF CallInv, AskedInOrder
  <2>5. QED
    BY <2>2, <2>4
<1>2. QED
  BY <1>1, Invariance, PTL

(***************************************************************************)
(* The first reply ends the call and is what it returns, and no more than  *)
(* one instance for each fault and one more ever hear of the request.      *)
(***************************************************************************)
THEOREM RepliesAreFinal == Spec => []FirstReplyIsFinal
<1>1. ReadInv /\ RankedInv /\ CallInv => FirstReplyIsFinal
  <2>1. SUFFICES ASSUME ReadInv, RankedInv, CallInv PROVE FirstReplyIsFinal
    OBVIOUS
  <2>2. AskedInOrder /\ EachFailureIsAFault
    BY <2>1, Zenon DEF CallInv
  <2>3. instances \in Seq(Listing) /\ asked \in Nat /\ asked \in 0..Len(instances) /\ faults \in Nat
    <3>1. instances \in Seq(Listing) /\ asked \in 0..Len(instances)
      BY <2>1, Zenon DEF RankedInv, CallInv
    <3>2. faults \in Nat
      BY <2>1, LocateAssumption DEF ReadInv
    <3>3. QED
      BY <3>1, <3>2, LenProperties
  <2>4. asked <= faults + 1
    <3>1. /\ caller = "waiting" \/ caller \in Reply => asked - 1 <= faults
          /\ caller = "transport error" => asked <= faults
      BY <2>2, Zenon DEF EachFailureIsAFault
    <3>2. caller = "locating" => asked = 0
      BY <2>1, Zenon DEF CallInv
    <3>3. caller \in Reply \cup {"locating", "waiting", "transport error"}
      BY <2>1, Zenon DEF CallInv
    <3>4. asked - 1 <= faults \/ asked <= faults \/ asked = 0
      BY <3>1, <3>2, <3>3, Zenon
    <3>5. QED
      BY <2>3, <3>4
  <2>5. DEFINE Heard == {n \in Listing : request[n] \in Reply \cup {"sent"}}
               Asked == {instances[i] : i \in 1..asked}
  <2>6. Heard \subseteq Asked
    BY <2>2 DEF AskedInOrder, Reply
  <2>7. IsFiniteSet(Asked) /\ Cardinality(Asked) <= asked
    <3>1. IsFiniteSet(1..asked) /\ Cardinality(1..asked) = asked
      BY <2>3, FS_Interval
    <3>2. [i \in 1..asked |-> instances[i]] \in Surjection(1..asked, Asked)
      BY DEF Surjection
    <3>3. QED
      BY <3>1, <3>2, FS_Surjection
  <2>8. IsFiniteSet(Heard) /\ Cardinality(Heard) <= Cardinality(Asked)
    BY <2>6, <2>7, FS_Subset
  <2>9. Cardinality(Heard) <= faults + 1
    <3>1. Cardinality(Heard) \in Nat /\ Cardinality(Asked) \in Nat
      BY <2>7, <2>8, FS_CardinalityType
    <3>2. QED
      BY <2>3, <2>4, <2>7, <2>8, <3>1
  <2>10. caller \in Reply => caller = request[Asking]
    BY <2>2, Zenon DEF EachFailureIsAFault
  <2>11. \A n \in Listing : request[n] # "none" => \E i \in 1..asked : instances[i] = n
    BY <2>2, Zenon DEF AskedInOrder
  <2>12. QED
    BY <2>9, <2>10, <2>11, Zenon DEF FirstReplyIsFinal
<1>2. QED
  BY <1>1, Invariance, PTL

-----------------------------------------------------------------------------
(* Scores.                                                                 *)
LEMMA Product ==
    ASSUME NEW x \in Nat, NEW y \in Nat, NEW z \in Nat, x <= y
    PROVE  x * z \in Nat /\ y * z \in Nat /\ x * z <= y * z
<1>1. PICK d \in Nat : y = x + d
  <2>1. y - x \in Nat /\ y = x + (y - x)
    OBVIOUS
  <2>2. QED
    BY <2>1
<1>2. x * z \in Nat /\ d * z \in Nat /\ y * z = x * z + d * z
  BY <1>1
<1>3. QED
  BY <1>2

(* A live instance is fresh and has the tags; the local one has no tags.   *)
LEMMA Live ==
    ASSUME ReadInv, NEW n \in Candidates, ~Local(n)
    PROVE  /\ n \in Listing /\ n \in ids
           /\ Told(n) # Unknown /\ Told(n) \in Entry /\ require \subseteq Told(n).tags
           /\ Age(n) \in Nat /\ Age(n) <= MaxStale
           /\ now <= Told(n).last_seen + MaxStale
<1>1. n \in ids /\ n \in Listing /\ Eligible(n)
  BY DEF Candidates, ReadInv
<1>2. Told(n) # Unknown /\ Age(n) <= MaxStale /\ require \subseteq Told(n).tags
  BY <1>1, Zenon DEF Eligible, EligibleWithin
<1>3. Told(n) \in Entry
  <2>1. NodeOf[n] \in Node
    BY <1>1, LocateAssumption
  <2>2. QED
    BY <1>2, <2>1 DEF ReadInv, Told
<1>4. PICK seen \in Nat : seen = Told(n).last_seen
  BY <1>3, LocateAssumption
<1>5. now \in Nat /\ MaxStale \in Nat
  BY LocateAssumption DEF ReadInv
<1>6. Age(n) = IF now < seen THEN 0 ELSE now - seen
  BY <1>4 DEF Age, Monus
<1>7. Age(n) \in Nat /\ now <= seen + MaxStale
  BY <1>2, <1>5, <1>6
<1>8. QED
  BY <1>1, <1>2, <1>3, <1>4, <1>7

LEMMA JitterType ==
    ASSUME beacon \in Beacon, NEW n \in Listing
    PROVE  JitterOf(n) \in Nat /\ JitterOf(n) <= JitterMax
<1>1. NodeOf[n] \in Node /\ JitterMax \in Nat
  BY LocateAssumption
<1>2. PICK F \in [Node -> 1..JitterMax] : F = Jitter[beacon]
  BY LocateAssumption
<1>3. F[NodeOf[n]] \in 1..JitterMax
  BY <1>1, <1>2
<1>4. QED
  BY <1>1, <1>2, <1>3 DEF JitterOf

(* The merits of a live remote instance, and its score as a sum of them.   *)
LEMMA ScoreOfMerits ==
    ASSUME ReadInv, beacon \in Beacon, NEW n \in Candidates, ~Local(n)
    PROVE  \E c \in Nat, m \in Nat, age \in Nat, j \in Nat :
              /\ Merits(n) = <<c, m, 0 - age, j>>
              /\ c <= FullCores /\ m <= FullMem /\ age <= Staleness /\ j <= JitterMax
              /\ Score(n) = JitterMax * (600 * (c * FullMem + m * FullCores) * Staleness
                                         + 400 * 2 * FullCores * FullMem * (Staleness - age))
                            + 2 * FullCores * FullMem * Staleness * j
<1> DEFINE e == Told(n)
<1>1. /\ e \in Entry /\ n \in Listing /\ Age(n) \in Nat /\ Age(n) <= MaxStale
  BY Live
<1>2. /\ e.cores \in Nat /\ e.jobs \in Nat /\ e.mem \in Nat
      /\ FullCores \in Nat /\ FullMem \in Nat
  BY <1>1, LocateAssumption
<1> HIDE DEF e
<1>3. PICK free \in Nat : free = Monus(e.cores, e.jobs)
  BY <1>2 DEF Monus
<1>4. PICK c \in Nat : c = Min({free, FullCores}) /\ c <= FullCores
  BY <1>2, <1>3, MinOfTwo
<1>5. PICK m \in Nat : m = Min({e.mem, FullMem}) /\ m <= FullMem
  BY <1>2, MinOfTwo
<1>6. PICK age \in Nat : age = Age(n) /\ age <= Staleness
  <2>1. MaxStale \in Nat /\ Staleness \in Nat /\ MaxStale <= Staleness
    BY LocateAssumption, MaxOfTwo DEF Staleness
  <2>2. QED
    BY <1>1, <2>1
<1>7. PICK j \in Nat : j = JitterOf(n) /\ j <= JitterMax
  BY <1>1, JitterType
<1>8. Merits(n) = <<c, m, 0 - age, j>>
  BY <1>3, <1>4, <1>5, <1>6, <1>7, Zenon DEF Merits, e
<1>9. Capacity(e) = c * FullMem + m * FullCores
  BY <1>3, <1>4, <1>5 DEF Capacity, CapacityFrom
<1>10. Score(n) = JitterMax * (600 * Capacity(e) * Staleness
                               + 400 * 2 * FullCores * FullMem * (Staleness - age))
                  + 2 * FullCores * FullMem * Staleness * j
  BY <1>6, <1>7, Zenon DEF Score, RemoteScore, e
<1>11. QED
  BY <1>4, <1>5, <1>6, <1>7, <1>8, <1>9, <1>10

LEMMA ScoreBound ==
    ASSUME ReadInv, beacon \in Beacon, NEW n \in Candidates
    PROVE  Score(n) \in Nat /\ Score(n) \in 0..(One + One \div 1000)
<1>1. PICK st \in Nat : st = Staleness
  BY LocateAssumption, MaxOfTwo DEF Staleness
<1>2. PICK f \in Nat : f = FullCores * FullMem
  BY LocateAssumption
<1>3. FullCores \in Nat /\ FullMem \in Nat /\ JitterMax \in Nat
  BY LocateAssumption
<1>4. One = 1000 * (2 * f * st * JitterMax)
  BY <1>1, <1>2, <1>3 DEF One
<1>5. CASE Local(n)
  <2>1. Score(n) = One
    BY <1>5 DEF Score
  <2>2. One \in Nat /\ One \div 1000 \in Nat
    BY <1>3, <1>4
  <2>3. QED
    BY <2>1, <2>2
<1>6. CASE ~Local(n)
  <2>1. PICK cores \in Nat, m \in Nat, age \in Nat, j \in Nat :
           /\ cores <= FullCores /\ m <= FullMem /\ age <= st /\ j <= JitterMax
           /\ Score(n) = JitterMax * (600 * (cores * FullMem + m * FullCores) * st
                                      + 400 * 2 * FullCores * FullMem * (st - age))
                         + 2 * FullCores * FullMem * st * j
    BY <1>1, <1>6, ScoreOfMerits
  <2>2. PICK c \in Nat : c = cores * FullMem + m * FullCores /\ c <= 2 * f
    <3>1. /\ cores * FullMem \in Nat /\ cores * FullMem <= FullCores * FullMem
          /\ m * FullCores \in Nat /\ m * FullCores <= FullMem * FullCores
      BY <1>3, <2>1, Product
    <3>2. FullMem * FullCores = f
      BY <1>2, <1>3
    <3>3. QED
      BY <1>2, <3>1, <3>2
  <2>4. Score(n) = JitterMax * (600 * c * st + 400 * 2 * FullCores * FullMem * (st - age))
                   + 2 * FullCores * FullMem * st * j
    BY <2>1, <2>2
  <2>5. Score(n) = JitterMax * (600 * (c * st) + 400 * (2 * f * (st - age))) + 2 * f * st * j
    <3>1. 600 * c * st = 600 * (c * st)
      OBVIOUS
    <3>2. 2 * FullCores * FullMem = 2 * f /\ 400 * 2 * FullCores * FullMem = 400 * (2 * f)
      BY <1>2, <1>3
    <3>3. 400 * (2 * f) * (st - age) = 400 * (2 * f * (st - age))
      OBVIOUS
    <3>4. QED
      BY <2>4, <3>1, <3>2, <3>3
  <2>6. /\ f \in Nat /\ st \in Nat /\ JitterMax \in Nat /\ c \in Nat /\ age \in Nat /\ j \in Nat
        /\ c <= 2 * f /\ age <= st /\ j <= JitterMax
    BY <1>1, <1>2, <1>3, <2>1, <2>2
  <2>7. One \in Nat /\ One \div 1000 \in Nat /\ Score(n) \in 0..(One + One \div 1000)
    <3> USE <2>6
    <3>1. PICK a \in Nat : a = 2 * f
      OBVIOUS
    <3>2. PICK b \in Nat : b = a * st
      OBVIOUS
    <3>3. c * st \in Nat /\ c * st <= b
      BY <3>1, <3>2, Product
    <3>4. PICK d \in Nat : d = st - age /\ d <= st
      OBVIOUS
    <3>5. d * a \in Nat /\ d * a <= b
      <4>1. d * a \in Nat /\ d * a <= st * a
        BY <3>4, Product
      <4>2. st * a = a * st
        OBVIOUS
      <4>3. QED
        BY <3>2, <4>1, <4>2
    <3>6. PICK x \in Nat : x = 600 * (c * st) + 400 * (d * a) /\ x <= 1000 * b
      BY <3>3, <3>5
    <3>7. x * JitterMax \in Nat /\ x * JitterMax <= (1000 * b) * JitterMax
      BY <3>6, Product
    <3>8. j * b \in Nat /\ j * b <= JitterMax * b
      BY Product
    <3>9. PICK p \in Nat : p = b * JitterMax
      OBVIOUS
    <3>10. (1000 * b) * JitterMax = 1000 * p /\ JitterMax * b = p
      BY <3>9
    <3>11. x * JitterMax + j * b \in 0..(1000 * p + p)
      BY <3>7, <3>8, <3>10
    <3>12. 1000 * p \in Nat /\ (1000 * p) \div 1000 = p
      OBVIOUS
    <3>13. 2 * f * st * JitterMax = p
      BY <3>1, <3>2, <3>9
    <3>14. JitterMax * (600 * (c * st) + 400 * (2 * f * (st - age))) + 2 * f * st * j
             = x * JitterMax + j * b
      <4>1. 2 * f * (st - age) = d * a /\ 2 * f * st = b
        BY <3>1, <3>2, <3>4
      <4>2. b * j = j * b /\ JitterMax * x = x * JitterMax
        OBVIOUS
      <4>3. QED
        BY <3>6, <4>1, <4>2
    <3>15. QED
      BY <1>4, <2>5, <3>11, <3>12, <3>13, <3>14
  <2>8. QED
    BY <2>7
<1>7. QED
  BY <1>5, <1>6

(***************************************************************************)
(* Types; and no score is beyond 1.0 and the jitter, or below 0.           *)
(***************************************************************************)
THEOREM TypeCorrect == Spec => []TypeOK
<1>1. ReadInv /\ RankedInv /\ CallInv => TypeOK
  <2>1. SUFFICES ASSUME ReadInv, RankedInv, CallInv PROVE TypeOK
    OBVIOUS
  <2>2. ASSUME pc = "rank", NEW n \in Candidates PROVE Score(n) \in 0..(One + One \div 1000)
    <3>1. beacon \in Beacon
      BY <2>1, <2>2 DEF ReadInv, Candidates
    <3>2. QED
      BY <2>1, <3>1, ScoreBound
  <2>3. LocateTypeOK
    BY <2>1, <2>2, Zenon DEF LocateTypeOK, ReadInv, RankedInv
  <2>4. faults \in 0..MaxFaults
    BY <2>1, Zenon DEF ReadInv
  <2>5. /\ asked \in 0..Len(instances)
        /\ request \in [Listing -> Reply \cup {"none", "sent", "lost"}]
        /\ caller \in Reply \cup {"locating", "waiting", "transport error"}
    BY <2>1, Zenon DEF CallInv
  <2>6. QED
    BY <2>3, <2>4, <2>5, Zenon DEF TypeOK
<1>2. QED
  BY <1>1, Invariance, PTL

-----------------------------------------------------------------------------
(* The score grows with every merit. *)

LEMMA StrictProduct ==
    ASSUME NEW x \in Nat, NEW y \in Nat, NEW z \in Nat \ {0}, x < y
    PROVE  x * z < y * z
<1>1. PICK d \in Nat \ {0} : y = x + d
  <2>1. y - x \in Nat \ {0} /\ y = x + (y - x)
    OBVIOUS
  <2>2. QED
    BY <2>1
<1>2. x * z \in Nat /\ d * z \in Nat \ {0} /\ y * z = x * z + d * z
  BY <1>1
<1>3. QED
  BY <1>2

(* A sum of four merits, each times a weight.                              *)
LEMMA WeightedSum ==
    ASSUME NEW A \in Nat \ {0}, NEW B \in Nat \ {0}, NEW C \in Nat \ {0}, NEW D \in Nat \ {0},
           NEW c1 \in Nat, NEW m1 \in Nat, NEW r1 \in Nat, NEW j1 \in Nat,
           NEW c2 \in Nat, NEW m2 \in Nat, NEW r2 \in Nat, NEW j2 \in Nat,
           c2 <= c1, m2 <= m1, r2 <= r1, j2 <= j1,
           c2 < c1 \/ m2 < m1 \/ r2 < r1 \/ j2 < j1
    PROVE  c2 * A + m2 * B + r2 * C + j2 * D < c1 * A + m1 * B + r1 * C + j1 * D
<1>1. /\ c2 * A \in Nat /\ c1 * A \in Nat /\ c2 * A <= c1 * A
      /\ m2 * B \in Nat /\ m1 * B \in Nat /\ m2 * B <= m1 * B
      /\ r2 * C \in Nat /\ r1 * C \in Nat /\ r2 * C <= r1 * C
      /\ j2 * D \in Nat /\ j1 * D \in Nat /\ j2 * D <= j1 * D
  BY Product
<1>2. /\ c2 < c1 => c2 * A < c1 * A
      /\ m2 < m1 => m2 * B < m1 * B
      /\ r2 < r1 => r2 * C < r1 * C
      /\ j2 < j1 => j2 * D < j1 * D
  BY StrictProduct
<1>3. QED
  BY <1>1, <1>2

LEMMA ScoreIsWeightedSum ==
    ASSUME NEW FC \in Nat, NEW FM \in Nat, NEW JM \in Nat, NEW st \in Nat,
           NEW c \in Nat, NEW m \in Nat, NEW r \in Nat, NEW j \in Nat
    PROVE  JM * (600 * (c * FM + m * FC) * st + 400 * 2 * FC * FM * r) + 2 * FC * FM * st * j
             = c * (600 * (FM * (st * JM))) + m * (600 * (FC * (st * JM)))
               + r * (800 * (FC * (FM * JM))) + j * (2 * (FC * (FM * st)))
<1>1. JM * (600 * (c * FM + m * FC) * st)
        = c * (600 * (FM * (st * JM))) + m * (600 * (FC * (st * JM)))
  OBVIOUS
<1>2. JM * (400 * 2 * FC * FM * r) = r * (800 * (FC * (FM * JM)))
  OBVIOUS
<1>3. 2 * FC * FM * st * j = j * (2 * (FC * (FM * st)))
  OBVIOUS
<1>4. JM * (600 * (c * FM + m * FC) * st + 400 * 2 * FC * FM * r)
        = JM * (600 * (c * FM + m * FC) * st) + JM * (400 * 2 * FC * FM * r)
  OBVIOUS
<1>5. QED
  BY <1>1, <1>2, <1>3, <1>4

(* The better of two live remote instances has the higher score.           *)
LEMMA BetterIsBefore ==
    ASSUME ReadInv, pc = "located", NEW a \in Candidates, NEW b \in Candidates, Better(a, b)
    PROVE  Before(a, b)
<1>1. /\ ~Local(a) /\ ~Local(b) /\ Merits(a) # Merits(b)
      /\ \A i \in 1..4 : Merits(a)[i] >= Merits(b)[i]
  BY LocateAssumption DEF Better, Remote, Local, ReadInv
<1>2. beacon \in Beacon
  BY DEF ReadInv, Candidates
<1>3. PICK st \in Nat \ {0} : st = Staleness
  <2>1. MaxStale \in Nat
    BY LocateAssumption
  <2>2. Staleness \in Nat \ {0}
    BY <2>1, MaxOfTwo DEF Staleness
  <2>3. QED
    BY <2>2
<1>4. /\ FullCores \in Nat \ {0} /\ FullMem \in Nat \ {0} /\ JitterMax \in Nat \ {0}
  BY LocateAssumption
<1>5. PICK c1 \in Nat, m1 \in Nat, age1 \in Nat, j1 \in Nat :
         /\ Merits(a) = <<c1, m1, 0 - age1, j1>> /\ age1 <= st
         /\ Score(a) = JitterMax * (600 * (c1 * FullMem + m1 * FullCores) * st
                                    + 400 * 2 * FullCores * FullMem * (st - age1))
                       + 2 * FullCores * FullMem * st * j1
  BY <1>1, <1>2, <1>3, ScoreOfMerits
<1>6. PICK c2 \in Nat, m2 \in Nat, age2 \in Nat, j2 \in Nat :
         /\ Merits(b) = <<c2, m2, 0 - age2, j2>> /\ age2 <= st
         /\ Score(b) = JitterMax * (600 * (c2 * FullMem + m2 * FullCores) * st
                                    + 400 * 2 * FullCores * FullMem * (st - age2))
                       + 2 * FullCores * FullMem * st * j2
  BY <1>1, <1>2, <1>3, ScoreOfMerits
<1>7. PICK r1 \in Nat, r2 \in Nat : r1 = st - age1 /\ r2 = st - age2
  <2>1. st - age1 \in Nat /\ st - age2 \in Nat
    BY <1>3, <1>5, <1>6
  <2>2. QED
    BY <2>1
<1>8. c2 <= c1 /\ m2 <= m1 /\ r2 <= r1 /\ j2 <= j1
  <2>1. 1 \in 1..4 /\ 2 \in 1..4 /\ 3 \in 1..4 /\ 4 \in 1..4
    OBVIOUS
  <2>2. c1 >= c2 /\ m1 >= m2 /\ 0 - age1 >= 0 - age2 /\ j1 >= j2
    BY <1>1, <1>5, <1>6, <2>1
  <2>3. QED
    BY <1>3, <1>7, <2>2
<1>9. c2 < c1 \/ m2 < m1 \/ r2 < r1 \/ j2 < j1
  <2>1. ~(c1 = c2 /\ m1 = m2 /\ age1 = age2 /\ j1 = j2)
    BY <1>1, <1>5, <1>6
  <2>2. r1 = r2 => age1 = age2
    BY <1>3, <1>7
  <2>3. QED
    BY <1>8, <2>1, <2>2
<1>10. PICK A \in Nat \ {0}, B \in Nat \ {0}, C \in Nat \ {0}, D \in Nat \ {0} :
         /\ A = 600 * (FullMem * (st * JitterMax)) /\ B = 600 * (FullCores * (st * JitterMax))
         /\ C = 800 * (FullCores * (FullMem * JitterMax)) /\ D = 2 * (FullCores * (FullMem * st))
  <2>1. \A x, y, z \in Nat \ {0} : x * (y * z) \in Nat \ {0}
    <3>1. \A x, y \in Nat \ {0} : x * y \in Nat \ {0}
      OBVIOUS
    <3>2. QED
      BY <3>1
  <2>2. /\ FullMem * (st * JitterMax) \in Nat \ {0} /\ FullCores * (st * JitterMax) \in Nat \ {0}
        /\ FullCores * (FullMem * JitterMax) \in Nat \ {0} /\ FullCores * (FullMem * st) \in Nat \ {0}
    BY <1>3, <1>4, <2>1
  <2>3. \A x \in Nat \ {0} : 600 * x \in Nat \ {0} /\ 800 * x \in Nat \ {0} /\ 2 * x \in Nat \ {0}
    OBVIOUS
  <2>4. QED
    BY <2>2, <2>3
<1>11. Score(a) = c1 * A + m1 * B + r1 * C + j1 * D
  BY <1>3, <1>4, <1>5, <1>7, <1>10, ScoreIsWeightedSum
<1>12. Score(b) = c2 * A + m2 * B + r2 * C + j2 * D
  BY <1>3, <1>4, <1>6, <1>7, <1>10, ScoreIsWeightedSum
<1>13. c2 * A + m2 * B + r2 * C + j2 * D < c1 * A + m1 * B + r1 * C + j1 * D
  BY <1>8, <1>9, WeightedSum
<1>14. /\ c2 * A + m2 * B + r2 * C + j2 * D \in Nat /\ c1 * A + m1 * B + r1 * C + j1 * D \in Nat
  OBVIOUS
<1>15. QED
  BY <1>11, <1>12, <1>13, <1>14 DEF Before

-----------------------------------------------------------------------------
(* The places of buckets and the rounds of their members in any order s.   *)
LEMMA Places ==
    ASSUME NEW s, NEW i \in Nat \ {0}
    PROVE  /\ Place(s, i) \in 1..i /\ Bucket(s[Place(s, i)]) = Bucket(s[i])
           /\ \A k \in 1..i : Bucket(s[k]) = Bucket(s[i]) => Place(s, i) <= k
<1> DEFINE T == {k \in 1..i : Bucket(s[k]) = Bucket(s[i])}
<1>1. T \subseteq Nat /\ i \in T
  OBVIOUS
<1>2. PICK p \in T : \A k \in T : p <= k
  BY <1>1, LeastNatural
<1>3. Place(s, i) \in T /\ \A k \in T : Place(s, i) <= k
  BY <1>2 DEF Place, Min
<1>4. QED
  BY <1>3

LEMMA RoundSet ==
    ASSUME NEW s, NEW i \in Nat \ {0}
    PROVE  /\ IsFiniteSet({k \in 1..(i - 1) : Bucket(s[k]) = Bucket(s[i])})
           /\ Round(s, i) \in Nat
<1>1. IsFiniteSet(1..(i - 1))
  BY FS_Interval
<1>2. IsFiniteSet({k \in 1..(i - 1) : Bucket(s[k]) = Bucket(s[i])})
  BY <1>1, FS_Subset
<1>3. QED
  BY <1>2, FS_CardinalityType DEF Round

(* In a bucket the rounds increase, and the place stays.                   *)
LEMMA SameBucket ==
    ASSUME NEW s, NEW i \in Nat \ {0}, NEW j \in Nat \ {0}, i < j, Bucket(s[i]) = Bucket(s[j])
    PROVE  Round(s, i) < Round(s, j) /\ Place(s, i) = Place(s, j)
<1> DEFINE I == {k \in 1..(i - 1) : Bucket(s[k]) = Bucket(s[i])}
           J == {k \in 1..(j - 1) : Bucket(s[k]) = Bucket(s[j])}
<1>1. IsFiniteSet(I) /\ IsFiniteSet(J) /\ Round(s, i) \in Nat /\ Round(s, j) \in Nat
  BY RoundSet
<1>2. Round(s, i) = Cardinality(I) /\ Round(s, j) = Cardinality(J)
  BY DEF Round
<1>3. i \notin I /\ I \cup {i} \subseteq J
  OBVIOUS
<1> HIDE DEF I, J
<1>4. Cardinality(I \cup {i}) = Cardinality(I) + 1
  BY <1>1, <1>3, FS_AddElement
<1>5. Cardinality(I \cup {i}) <= Cardinality(J)
  BY <1>1, <1>3, FS_Subset
<1>6. Round(s, i) < Round(s, j)
  BY <1>1, <1>2, <1>4, <1>5
<1>7. PICK p \in 1..i : p = Place(s, i) /\ Bucket(s[p]) = Bucket(s[i])
                        /\ \A k \in 1..i : Bucket(s[k]) = Bucket(s[i]) => p <= k
  BY Places
<1>8. PICK q \in 1..j : q = Place(s, j) /\ Bucket(s[q]) = Bucket(s[j])
                        /\ \A k \in 1..j : Bucket(s[k]) = Bucket(s[j]) => q <= k
  BY Places
<1>9. q <= p
  <2>1. p \in 1..j
    BY <1>7
  <2>2. QED
    BY <1>7, <1>8, <2>1
<1>10. p <= q
  <2>1. i \in 1..j
    OBVIOUS
  <2>2. q <= i
    BY <1>8, <2>1
  <2>3. q \in 1..i
    BY <1>8, <2>2
  <2>4. QED
    BY <1>7, <1>8, <2>3
<1>11. QED
  BY <1>6, <1>7, <1>8, <1>9, <1>10

(* A bucket opens in round 0, at its place.                                *)
LEMMA Opening ==
    ASSUME NEW s, NEW i \in Nat \ {0}
    PROVE  Round(s, Place(s, i)) = 0 /\ Place(s, Place(s, i)) = Place(s, i)
<1>1. PICK p \in 1..i : p = Place(s, i) /\ Bucket(s[p]) = Bucket(s[i])
                        /\ \A k \in 1..i : Bucket(s[k]) = Bucket(s[i]) => p <= k
  BY Places
<1>2. p \in Nat \ {0}
  BY <1>1
<1>3. {k \in 1..(p - 1) : Bucket(s[k]) = Bucket(s[p])} = {}
  <2>1. SUFFICES ASSUME NEW k \in 1..(p - 1), Bucket(s[k]) = Bucket(s[p]) PROVE FALSE
    OBVIOUS
  <2>2. k \in 1..i /\ k < p
    BY <1>1
  <2>3. p <= k
    BY <1>1, <2>1, <2>2
  <2>4. QED
    BY <1>2, <2>2, <2>3
<1>4. Round(s, p) = 0
  BY <1>3, FS_EmptySet DEF Round
<1>5. Place(s, p) = Place(s, i)
  <2>1. CASE p = i
    BY <2>1
  <2>2. CASE p # i
    BY <1>1, <1>2, <2>2, SameBucket
  <2>3. QED
    BY <2>1, <2>2
<1>6. QED
  BY <1>1, <1>4, <1>5

-----------------------------------------------------------------------------
(* What was chosen is the beginning, w long, of an order s.                *)
Begins(s, w) ==
    /\ s \in SetToSeqs(Candidates) /\ w = Len(instances) /\ instances \in Seq(Listing)
    /\ w = Min({Wanted, Len(s)}) /\ w <= Len(s)
    /\ \A i \in 1..w : instances[i] = s[i]
    /\ IF Spreading THEN RoundRobin(s) ELSE BestFirst(s)

LEMMA Beginning ==
    ASSUME ReadInv, RankedInv, pc = "located"
    PROVE  \E s, w : Begins(s, w)
<1>1. ids \subseteq Listing /\ want \in Nat /\ instances \in Ranked
  BY DEF ReadInv, RankedInv
<1>2. PICK s \in SetToSeqs(Candidates) :
              /\ IF Spreading THEN RoundRobin(s) ELSE BestFirst(s)
              /\ instances \in Seq(Listing) /\ Len(instances) = Min({Wanted, Len(s)})
              /\ Len(instances) <= Wanted /\ Len(instances) <= Len(s)
              /\ \A i \in 1..Len(instances) : instances[i] = s[i]
  BY <1>1, RankedIs
<1>3. Begins(s, Len(instances))
  BY <1>2, Zenon DEF Begins
<1>4. QED
  BY <1>3

(* The chosen ones are the candidates in the first w places.               *)
LEMMA ChosenPlaces ==
    ASSUME ReadInv, NEW s, NEW w, Begins(s, w)
    PROVE  /\ w \in Nat /\ Len(s) \in Nat /\ w <= Len(s)
           /\ Len(s) = Cardinality(Candidates) /\ s \in Seq(Candidates)
           /\ \A i, j \in 1..Len(s) : s[i] = s[j] => i = j
           /\ \A n \in Candidates : \E i \in 1..Len(s) : s[i] = n
           /\ \A i \in 1..Len(s) : s[i] \in Candidates
           /\ Chosen = {s[i] : i \in 1..w}
           /\ \A i \in 1..Len(s) : s[i] \in Chosen <=> i <= w
<1>1. IsFiniteSet(Candidates)
  BY CandidatesFinite DEF ReadInv
<1>2. s \in SetToSeqs(Candidates) /\ w = Len(instances) /\ instances \in Seq(Listing) /\ w <= Len(s)
      /\ \A i \in 1..w : instances[i] = s[i]
  BY Zenon DEF Begins
<1>3. /\ s \in Seq(Candidates) /\ Len(s) = Cardinality(Candidates) /\ Len(s) \in Nat
      /\ \A i, j \in 1..Len(s) : s[i] = s[j] => i = j
      /\ \A n \in Candidates : \E i \in 1..Len(s) : s[i] = n
  BY <1>1, <1>2, Orders
<1>4. \A i \in 1..Len(s) : s[i] \in Candidates
  BY <1>3, ElementOfSeq
<1>5. w \in Nat /\ DOMAIN instances = 1..w
  BY <1>2
<1>6. Chosen = {s[i] : i \in 1..w}
  <2>1. Chosen = {instances[i] : i \in 1..w}
    BY <1>5 DEF Chosen
  <2>2. QED
    BY <1>2, <2>1
<1>7. ASSUME NEW i \in 1..Len(s) PROVE s[i] \in Chosen <=> i <= w
  <2>1. ASSUME i <= w PROVE s[i] \in Chosen
    <3>1. i \in 1..w
      BY <1>3, <1>5, <2>1
    <3>2. QED
      BY <1>6, <3>1
  <2>2. ASSUME s[i] \in Chosen PROVE i <= w
    <3>1. PICK j \in 1..w : s[i] = s[j]
      BY <1>6, <2>2
    <3>2. j \in 1..Len(s) /\ j <= w
      BY <1>2, <1>3, <1>5
    <3>3. i = j
      BY <1>3, <3>1, <3>2
    <3>4. QED
      BY <3>2, <3>3
  <2>3. QED
    BY <2>1, <2>2
<1>8. QED
  BY <1>2, <1>3, <1>4, <1>5, <1>6, <1>7

(* As many places below w, as many different members chosen.               *)
LEMMA ChosenCount ==
    ASSUME ReadInv, NEW s, NEW w, Begins(s, w)
    PROVE  Cardinality(Chosen) = w /\ IsFiniteSet(Chosen)
<1>1. w \in Nat /\ Chosen = {s[i] : i \in 1..w}
      /\ \A i, j \in 1..w : s[i] = s[j] => i = j
  <2>1. /\ w \in Nat /\ w <= Len(s) /\ Len(s) \in Nat /\ Chosen = {s[i] : i \in 1..w}
        /\ \A i, j \in 1..Len(s) : s[i] = s[j] => i = j
    BY ChosenPlaces
  <2>2. \A i \in 1..w : i \in 1..Len(s)
    BY <2>1
  <2>3. QED
    BY <2>1, <2>2
<1>2. [i \in 1..w |-> s[i]] \in Bijection(1..w, Chosen)
  BY <1>1 DEF Bijection, Injection, Surjection, IsInjective
<1>3. IsFiniteSet(1..w) /\ Cardinality(1..w) = w
  BY <1>1, FS_Interval
<1>4. QED
  BY <1>2, <1>3, FS_Bijection DEF ExistsBijection

(***************************************************************************)
(* Only live instances with the required tags are chosen, as many as there *)
(* are and are wanted, and without spreading no remote one is passed over  *)
(* for one that it is better than.                                         *)
(***************************************************************************)
THEOREM BestChosen == Spec => []BestAreChosen
<1>1. ReadInv /\ RankedInv /\ CallInv => BestAreChosen
  <2>1. SUFFICES ASSUME ReadInv, RankedInv, pc = "located"
        PROVE  /\ Complete
               /\ \A n \in Chosen \cap Remote :
                     Told(n) # Unknown /\ now <= Told(n).last_seen + MaxStale /\ require \subseteq Told(n).tags
               /\ ~Spreading =>
                     /\ \A i, j \in DOMAIN instances : i < j => ~Better(instances[j], instances[i])
                     /\ \A n \in Candidates \ Chosen : \A m \in Chosen : ~Better(n, m)
    BY Zenon DEF BestAreChosen
  <2>2. PICK s, w : Begins(s, w)
    BY <2>1, Beginning
  <2>3. /\ w \in Nat /\ Len(s) \in Nat /\ w <= Len(s)
        /\ Len(s) = Cardinality(Candidates) /\ s \in Seq(Candidates)
        /\ \A n \in Candidates : \E i \in 1..Len(s) : s[i] = n
        /\ Chosen = {s[i] : i \in 1..w}
        /\ \A i \in 1..Len(s) : s[i] \in Chosen <=> i <= w
        /\ \A i \in 1..Len(s) : s[i] \in Candidates
    BY <2>1, <2>2, ChosenPlaces
  <2>4. /\ w = Len(instances) /\ instances \in Seq(Listing) /\ w = Min({Wanted, Len(s)})
        /\ \A i \in 1..w : instances[i] = s[i]
        /\ ~Spreading => BestFirst(s)
    BY <2>2, Zenon DEF Begins
  <2>5. Complete
    <3>1. Cardinality(Chosen) = w
      BY <2>1, <2>2, ChosenCount
    <3>2. QED
      BY <2>3, <2>4, <3>1, Zenon DEF Complete
  <2>6. ASSUME NEW n \in Chosen \cap Remote
        PROVE  Told(n) # Unknown /\ now <= Told(n).last_seen + MaxStale /\ require \subseteq Told(n).tags
    <3>1. n \in Candidates /\ n \in Listing /\ NodeOf[n] # Self
      BY <2>3, <2>6 DEF Remote
    <3>2. ~Local(n)
      BY <2>1, <3>1, LocateAssumption DEF ReadInv, Local
    <3>3. QED
      BY <2>1, <3>1, <3>2, Live
  <2>7. ASSUME ~Spreading, NEW i \in 1..Len(s), NEW j \in 1..Len(s), i < j
        PROVE  ~Better(s[j], s[i])
    <3>1. BestFirst(s) /\ DOMAIN s = 1..Len(s)
      BY <2>3, <2>4, <2>7
    <3>2. ~Before(s[j], s[i])
      BY <2>7, <3>1, Zenon DEF BestFirst
    <3>3. s[i] \in Candidates /\ s[j] \in Candidates
      BY <2>3
    <3>4. QED
      BY <2>1, <3>2, <3>3, BetterIsBefore
  <2>8. ASSUME ~Spreading, NEW i \in DOMAIN instances, NEW j \in DOMAIN instances, i < j
        PROVE  ~Better(instances[j], instances[i])
    <3>0. DOMAIN instances = 1..w
      <4>1. DOMAIN instances = 1..Len(instances)
        BY <2>4, LenProperties
      <4>2. QED
        BY <2>4, <4>1, Zenon
    <3>1. i \in 1..w /\ j \in 1..w /\ i \in 1..Len(s) /\ j \in 1..Len(s)
      BY <2>3, <2>8, <3>0
    <3>2. instances[i] = s[i] /\ instances[j] = s[j]
      BY <2>4, <3>1
    <3>3. ~Better(s[j], s[i])
      BY <2>7, <2>8, <3>1
    <3>4. QED
      BY <3>2, <3>3, Zenon
  <2>9. ASSUME ~Spreading, NEW n \in Candidates \ Chosen, NEW m \in Chosen
        PROVE  ~Better(n, m)
    <3>1. PICK j \in 1..Len(s) : s[j] = n
      BY <2>3
    <3>2. PICK i \in 1..w : s[i] = m
      BY <2>3
    <3>3. i \in 1..Len(s) /\ i <= w /\ ~(j <= w)
      BY <2>3, <2>9, <3>1
    <3>4. i < j
      BY <2>3, <3>1, <3>3
    <3>5. ~Better(s[j], s[i])
      BY <2>7, <2>9, <3>3, <3>4
    <3>6. QED
      BY <3>1, <3>2, <3>5, Zenon
  <2>10. QED
    BY <2>5, <2>6, <2>8, <2>9
<1>2. QED
  BY <1>1, Invariance, PTL

-----------------------------------------------------------------------------
(* Spreading.                                                              *)
LEMMA Turns ==
    ASSUME ReadInv, Spreading, NEW s, NEW w, Begins(s, w),
           NEW i \in 1..Len(s), NEW j \in 1..Len(s), i < j
    PROVE  /\ Round(s, i) <= Round(s, j)
           /\ Place(s, j) \in {Place(s, i), j} => ~Before(s[j], s[i])
<1>1. s \in Seq(Candidates) /\ RoundRobin(s)
  BY ChosenPlaces, Zenon DEF Begins
<1>2. DOMAIN s = 1..Len(s)
  BY <1>1
<1>3. QED
  BY <1>1, <1>2, Zenon DEF RoundRobin

(* Within its bucket the best come first.                                  *)
LEMMA BucketsGiveTheirBest ==
    ASSUME ReadInv, Spreading, NEW s, NEW w, Begins(s, w),
           NEW m \in Chosen, NEW n \in Candidates \ Chosen, Bucket(m) = Bucket(n)
    PROVE  ~Before(n, m)
<1>1. PICK j \in 1..Len(s) : s[j] = n
  BY ChosenPlaces
<1>2. PICK i \in 1..w : s[i] = m
  BY ChosenPlaces
<1>3. w \in Nat /\ Len(s) \in Nat /\ w <= Len(s) /\ \A k \in 1..Len(s) : s[k] \in Chosen <=> k <= w
  BY ChosenPlaces
<1>4. i \in 1..Len(s) /\ i < j /\ i \in Nat \ {0} /\ j \in Nat \ {0}
  BY <1>1, <1>3
<1>5. Place(s, j) = Place(s, i)
  BY <1>1, <1>2, <1>4, SameBucket
<1>6. ~Before(s[j], s[i])
  BY <1>1, <1>4, <1>5, Turns
<1>7. QED
  BY <1>1, <1>2, <1>6, Zenon

(* The first choice is the best of all.                                    *)
LEMMA FirstIsBest ==
    ASSUME ReadInv, pc = "located", Spreading, NEW s, NEW w, Begins(s, w), NEW n \in Candidates
    PROVE  ~Before(n, instances[1]) /\ instances[1] \in Candidates
<1>1. PICK j \in 1..Len(s) : s[j] = n
  BY ChosenPlaces
<1>2. /\ Len(s) \in Nat /\ j \in Nat \ {0} /\ 1 \in 1..Len(s)
      /\ \A i \in 1..Len(s) : s[i] \in Candidates
  BY <1>1, ChosenPlaces
<1>3. instances[1] = s[1]
  <2>1. Wanted \in Nat \ {0}
    BY WantedType DEF ReadInv
  <2>2. w = Min({Wanted, Len(s)}) /\ \A i \in 1..w : instances[i] = s[i]
    BY Zenon DEF Begins
  <2>3. w \in Nat \ {0}
    <3>1. Len(s) \in Nat \ {0}
      BY <1>2
    <3>2. \A a, b \in Nat \ {0} : Min({a, b}) \in Nat \ {0}
      BY MinOfTwo
    <3>3. QED
      BY <2>1, <2>2, <3>1, <3>2, Zenon
  <2>4. 1 \in 1..w
    BY <2>3
  <2>5. QED
    BY <2>2, <2>4
<1>4. PICK p \in 1..j : p = Place(s, j) /\ Bucket(s[p]) = Bucket(s[j])
  BY <1>2, Places
<1>5. p \in 1..Len(s) /\ p \in Nat \ {0}
  BY <1>1, <1>2, <1>4
<1>6. beacon \in Beacon
  BY <1>1 DEF ReadInv, Candidates
<1>7. PICK score \in [1..Len(s) -> Nat] : \A i \in 1..Len(s) : score[i] = Score(s[i])
  <2>1. \A i \in 1..Len(s) : Score(s[i]) \in Nat
    BY <1>2, <1>6, ScoreBound
  <2>2. [i \in 1..Len(s) |-> Score(s[i])] \in [1..Len(s) -> Nat]
    BY <2>1
  <2>3. QED
    BY <2>2
<1>8. score[p] <= score[1]
  <2>1. CASE p = 1
    BY <1>5, <1>7, <2>1
  <2>2. CASE p # 1
    <3>1. 1 < p /\ Place(s, p) = p
      BY <1>2, <1>4, <1>5, <2>2, Opening
    <3>2. ~Before(s[p], s[1])
      BY <1>2, <1>5, <3>1, Turns
    <3>3. QED
      BY <1>2, <1>5, <1>7, <3>2 DEF Before
  <2>3. QED
    BY <2>1, <2>2
<1>9. score[j] <= score[p]
  <2>1. CASE p = j
    BY <1>5, <1>7, <2>1
  <2>2. CASE p # j
    <3>1. p < j /\ Place(s, p) = Place(s, j)
      BY <1>2, <1>4, <2>2, Opening
    <3>2. ~Before(s[j], s[p])
      BY <1>2, <1>1, <1>5, <3>1, Turns
    <3>3. QED
      BY <1>1, <1>5, <1>7, <3>2 DEF Before
  <2>3. QED
    BY <2>1, <2>2
<1>10. ~(score[j] > score[1])
  BY <1>1, <1>2, <1>5, <1>7, <1>8, <1>9
<1>11. QED
  BY <1>1, <1>2, <1>3, <1>7, <1>10 DEF Before

(* As many buckets as `want` allows give an instance.                      *)
LEMMA EveryBucketHasATurn ==
    ASSUME ReadInv, Spreading, NEW s, NEW w, Begins(s, w)
    PROVE  Cardinality(Buckets(Chosen)) = Min({Wanted, Cardinality(Buckets(Candidates))})
<1>1. /\ w \in Nat /\ Len(s) \in Nat /\ w <= Len(s) /\ Len(s) = Cardinality(Candidates)
      /\ \A n \in Candidates : \E i \in 1..Len(s) : s[i] = n
      /\ \A i \in 1..Len(s) : s[i] \in Candidates
      /\ Chosen = {s[i] : i \in 1..w}
  BY ChosenPlaces
<1>2. IsFiniteSet(Candidates) /\ IsFiniteSet(Chosen) /\ Cardinality(Chosen) = w
      /\ Chosen \subseteq Candidates
  <2>1. \A i \in 1..w : i \in 1..Len(s)
    BY <1>1
  <2>2. QED
    BY <1>1, <2>1, CandidatesFinite, ChosenCount DEF ReadInv
<1>3. PICK want1 \in Nat : want1 = Wanted
  BY WantedType DEF ReadInv
<1>4. w = IF want1 <= Len(s) THEN want1 ELSE Len(s)
  <2>1. w = Min({Wanted, Len(s)})
    BY Zenon DEF Begins
  <2>2. QED
    BY <1>1, <1>3, <2>1, MinOfTwo
<1>5. /\ IsFiniteSet(Buckets(Candidates)) /\ Cardinality(Buckets(Candidates)) <= Len(s)
      /\ IsFiniteSet(Buckets(Chosen)) /\ Cardinality(Buckets(Chosen)) <= w
  <2>1. [n \in Candidates |-> Bucket(n)] \in Surjection(Candidates, Buckets(Candidates))
    BY DEF Surjection, Buckets
  <2>2. [n \in Chosen |-> Bucket(n)] \in Surjection(Chosen, Buckets(Chosen))
    BY DEF Surjection, Buckets
  <2>3. QED
    BY <1>1, <1>2, <2>1, <2>2, FS_Surjection
<1>6. PICK all \in Nat, given \in Nat :
         /\ all = Cardinality(Buckets(Candidates)) /\ given = Cardinality(Buckets(Chosen))
         /\ given <= all /\ all <= Len(s) /\ given <= w
  <2>1. Buckets(Chosen) \subseteq Buckets(Candidates)
    BY <1>2 DEF Buckets
  <2>2. Cardinality(Buckets(Chosen)) <= Cardinality(Buckets(Candidates))
    BY <1>5, <2>1, FS_Subset
  <2>3. Cardinality(Buckets(Chosen)) \in Nat /\ Cardinality(Buckets(Candidates)) \in Nat
    BY <1>5, FS_CardinalityType
  <2>4. QED
    BY <1>5, <2>2, <2>3
<1>7. CASE \A i \in 1..w : Round(s, i) = 0
  <2>1. ASSUME NEW i \in 1..w, NEW j \in 1..w, Bucket(s[i]) = Bucket(s[j]), i < j PROVE FALSE
    <3>1. i \in Nat \ {0} /\ j \in Nat \ {0}
      BY <1>1
    <3>2. Round(s, i) < Round(s, j) /\ Round(s, i) = 0 /\ Round(s, j) = 0
      BY <1>7, <2>1, <3>1, SameBucket
    <3>3. QED
      BY <3>2
  <2>2. \A i, j \in 1..w : Bucket(s[i]) = Bucket(s[j]) => i = j
    <3>1. SUFFICES ASSUME NEW i \in 1..w, NEW j \in 1..w, Bucket(s[i]) = Bucket(s[j]) PROVE i = j
      OBVIOUS
    <3>2. ~(i < j) /\ ~(j < i)
      BY <2>1, <3>1
    <3>3. QED
      BY <1>1, <3>2
  <2>3. [i \in 1..w |-> Bucket(s[i])] \in Bijection(1..w, Buckets(Chosen))
    <3>1. Buckets(Chosen) = {Bucket(s[i]) : i \in 1..w}
      BY <1>1 DEF Buckets
    <3>2. QED
      BY <2>2, <3>1 DEF Bijection, Injection, Surjection, IsInjective
  <2>4. given = w
    <3>1. IsFiniteSet(1..w) /\ Cardinality(1..w) = w
      BY <1>1, FS_Interval
    <3>2. QED
      BY <1>6, <2>3, <3>1, FS_Bijection DEF ExistsBijection
  <2>5. given = IF want1 <= all THEN want1 ELSE all
    BY <1>1, <1>4, <1>6, <2>4
  <2>6. QED
    BY <1>3, <1>6, <2>5, MinOfTwo
<1>8. ASSUME NEW r \in 1..w, Round(s, r) # 0
      PROVE  Cardinality(Buckets(Chosen)) = Min({Wanted, Cardinality(Buckets(Candidates))})
  <2>1. r \in 1..Len(s) /\ r \in Nat \ {0} /\ r <= w
    BY <1>1
  <2>2. ASSUME NEW i \in 1..Len(s) PROVE Bucket(s[i]) \in Buckets(Chosen)
    <3>1. i \in Nat \ {0}
      BY <1>1
    <3>2. PICK p \in 1..i : p = Place(s, i) /\ Bucket(s[p]) = Bucket(s[i])
      BY <3>1, Places
    <3>3. Round(s, p) = 0 /\ p \in 1..Len(s)
      BY <1>1, <3>1, <3>2, Opening
    <3>4. ~(r < p)
      <4>1. Round(s, r) \in Nat
        BY <2>1, RoundSet
      <4>2. r < p => Round(s, r) <= Round(s, p)
        BY <2>1, <3>3, Turns
      <4>3. QED
        BY <1>8, <3>3, <4>1, <4>2
    <3>5. p \in 1..w
      BY <1>1, <2>1, <3>3, <3>4
    <3>6. s[p] \in Chosen
      BY <1>1, <3>5
    <3>7. QED
      BY <3>2, <3>6 DEF Buckets
  <2>3. Buckets(Candidates) = Buckets(Chosen)
    <3>1. ASSUME NEW n \in Candidates PROVE Bucket(n) \in Buckets(Chosen)
      <4>1. PICK i \in 1..Len(s) : s[i] = n
        BY <1>1
      <4>2. QED
        BY <2>2, <4>1, Zenon
    <3>2. QED
      BY <1>2, <3>1 DEF Buckets
  <2>4. all = given /\ all <= want1
    BY <1>1, <1>4, <1>6, <2>3
  <2>5. QED
    BY <1>3, <1>6, <2>4, MinOfTwo
<1>9. QED
  BY <1>7, <1>8

(* The chosen members of a bucket, by their places.                        *)
LEMMA PerBucketPlaces ==
    ASSUME ReadInv, NEW s, NEW w, Begins(s, w), NEW b
    PROVE  /\ IsFiniteSet({k \in 1..w : Bucket(s[k]) = b})
           /\ PerBucket(b) = Cardinality({k \in 1..w : Bucket(s[k]) = b})
           /\ PerBucket(b) \in Nat
<1> DEFINE K == {k \in 1..w : Bucket(s[k]) = b}
           M == {n \in Chosen : Bucket(n) = b}
<1>1. w \in Nat /\ Chosen = {s[i] : i \in 1..w} /\ \A i, j \in 1..w : s[i] = s[j] => i = j
  <2>1. /\ w \in Nat /\ w <= Len(s) /\ Len(s) \in Nat /\ Chosen = {s[i] : i \in 1..w}
        /\ \A i, j \in 1..Len(s) : s[i] = s[j] => i = j
    BY ChosenPlaces
  <2>2. \A i \in 1..w : i \in 1..Len(s)
    BY <2>1
  <2>3. QED
    BY <2>1, <2>2
<1>2. IsFiniteSet(K)
  <2>1. IsFiniteSet(1..w)
    BY <1>1, FS_Interval
  <2>2. QED
    BY <2>1, FS_Subset
<1>3. [k \in K |-> s[k]] \in Bijection(K, M)
  <2>1. M = {s[k] : k \in K}
    BY <1>1
  <2>2. \A i, j \in K : s[i] = s[j] => i = j
    BY <1>1
  <2> HIDE DEF M, K
  <2>3. QED
    BY <2>1, <2>2 DEF Bijection, Injection, Surjection, IsInjective
<1>4. Cardinality(M) = Cardinality(K)
  BY <1>2, <1>3, FS_Bijection DEF ExistsBijection
<1>5. QED
  BY <1>2, <1>4, FS_CardinalityType DEF PerBucket

(* No bucket gives two more than one that had another to give.             *)
LEMMA BucketsShareAlike ==
    ASSUME ReadInv, Spreading, NEW s, NEW w, Begins(s, w),
           NEW b, NEW c, NEW n \in Candidates \ Chosen, Bucket(n) = c
    PROVE  PerBucket(b) <= PerBucket(c) + 1
<1> DEFINE B == {k \in 1..w : Bucket(s[k]) = b}
           C == {k \in 1..w : Bucket(s[k]) = c}
           Left == {k \in 1..Len(s) : Bucket(s[k]) = c /\ w < k}
<1>1. /\ IsFiniteSet(B) /\ PerBucket(b) = Cardinality(B) /\ PerBucket(b) \in Nat
      /\ IsFiniteSet(C) /\ PerBucket(c) = Cardinality(C) /\ PerBucket(c) \in Nat
  BY PerBucketPlaces
<1>2. /\ w \in Nat /\ Len(s) \in Nat /\ w <= Len(s)
      /\ \A m \in Candidates : \E i \in 1..Len(s) : s[i] = m
      /\ \A i \in 1..Len(s) : s[i] \in Chosen <=> i <= w
  BY ChosenPlaces
<1>3. PICK j \in Left : \A k \in Left : j <= k
  <2>1. PICK i \in 1..Len(s) : s[i] = n
    BY <1>2
  <2>2. w < i
    BY <1>2, <2>1
  <2>3. i \in Left
    BY <2>1, <2>2
  <2>4. Left \subseteq Nat /\ Left # {}
    BY <1>2, <2>3
  <2> HIDE DEF Left
  <2>5. QED
    BY <2>4, LeastNatural
<1>4. j \in 1..Len(s) /\ j \in Nat \ {0} /\ w < j /\ Bucket(s[j]) = c
  BY <1>2, <1>3
<1>5. Round(s, j) = Cardinality(C)
  <2>1. {k \in 1..(j - 1) : Bucket(s[k]) = Bucket(s[j])} = C
    <3>1. ASSUME NEW k \in 1..(j - 1), Bucket(s[k]) = c PROVE k \in 1..w
      <4>1. k \in 1..Len(s) /\ k < j
        BY <1>2, <1>4
      <4>2. ~(w < k)
        BY <1>3, <1>4, <3>1, <4>1
      <4>3. QED
        BY <1>2, <4>1, <4>2
    <3>2. \A k \in 1..w : k \in 1..(j - 1)
      BY <1>2, <1>4
    <3>3. QED
      BY <1>4, <3>1, <3>2
  <2>2. QED
    BY <2>1 DEF Round
<1>6. ASSUME NEW i \in B PROVE Round(s, i) \in 0..PerBucket(c) /\ i \in Nat \ {0}
  <2>1. i \in 1..Len(s) /\ i \in Nat \ {0} /\ i < j
    BY <1>2, <1>4
  <2>2. Round(s, i) \in Nat /\ Round(s, i) <= Round(s, j)
    BY <1>4, <2>1, RoundSet, Turns
  <2>3. QED
    BY <1>1, <1>5, <2>1, <2>2
<1>7. ASSUME NEW i \in B, NEW k \in B, Round(s, i) = Round(s, k) PROVE i = k
  <2>1. i \in Nat \ {0} /\ k \in Nat \ {0} /\ Bucket(s[i]) = Bucket(s[k])
    BY <1>6
  <2>2. Round(s, i) \in Nat /\ Round(s, k) \in Nat
    BY <2>1, RoundSet
  <2>3. i < k => Round(s, i) < Round(s, k)
    BY <2>1, SameBucket
  <2>4. k < i => Round(s, k) < Round(s, i)
    BY <2>1, SameBucket
  <2>5. QED
    BY <1>7, <2>1, <2>2, <2>3, <2>4
<1> HIDE DEF B, C
<1>8. [i \in B |-> Round(s, i)] \in Injection(B, 0..PerBucket(c))
  BY <1>6, <1>7 DEF Injection, IsInjective
<1>9. IsFiniteSet(0..PerBucket(c)) /\ Cardinality(0..PerBucket(c)) = PerBucket(c) + 1
  <2>1. PICK q \in Nat : q = PerBucket(c)
    BY <1>1
  <2>2. IsFiniteSet(0..q) /\ Cardinality(0..q) = q + 1
    BY <2>1, FS_Interval
  <2>3. QED
    BY <2>1, <2>2
<1>10. Cardinality(B) <= PerBucket(c) + 1
  BY <1>8, <1>9, FS_Injection
<1>11. QED
  BY <1>1, <1>10

(***************************************************************************)
(* The spread over fault domains: as many domains as `want` allows, none   *)
(* favoured, each giving its best, and no remote better than the first one.*)
(***************************************************************************)
THEOREM SpreadOverDomains == Spec => []SpreadCovers
<1>1. ReadInv /\ RankedInv /\ CallInv => SpreadCovers
  <2>1. SUFFICES ASSUME ReadInv, RankedInv, pc = "located", Spreading
        PROVE  /\ Cardinality(Buckets(Chosen)) = Min({Wanted, Cardinality(Buckets(Candidates))})
               /\ \A b, c \in Buckets(Candidates) :
                     PerBucket(b) > PerBucket(c) + 1 => {n \in Candidates : Bucket(n) = c} \subseteq Chosen
               /\ \A m \in Chosen, n \in Candidates \ Chosen : Bucket(m) = Bucket(n) => ~Before(n, m)
               /\ \A n \in Candidates : ~Better(n, instances[1])
    BY Zenon DEF SpreadCovers
  <2>2. PICK s, w : Begins(s, w)
    BY <2>1, Beginning
  <2>3. Cardinality(Buckets(Chosen)) = Min({Wanted, Cardinality(Buckets(Candidates))})
    BY <2>1, <2>2, EveryBucketHasATurn
  <2>4. ASSUME NEW b, NEW c, PerBucket(b) > PerBucket(c) + 1,
               NEW n \in Candidates, Bucket(n) = c
        PROVE  n \in Chosen
    <3>1. PerBucket(b) \in Nat /\ PerBucket(c) \in Nat
      BY <2>1, <2>2, PerBucketPlaces
    <3>2. n \notin Chosen => PerBucket(b) <= PerBucket(c) + 1
      BY <2>1, <2>2, <2>4, BucketsShareAlike
    <3>3. QED
      BY <2>4, <3>1, <3>2
  <2>5. \A m \in Chosen, n \in Candidates \ Chosen : Bucket(m) = Bucket(n) => ~Before(n, m)
    BY <2>1, <2>2, BucketsGiveTheirBest
  <2>6. ASSUME NEW n \in Candidates PROVE ~Better(n, instances[1])
    <3>1. ~Before(n, instances[1]) /\ instances[1] \in Candidates
      BY <2>1, <2>2, FirstIsBest
    <3>2. QED
      BY <2>1, <3>1, BetterIsBefore
  <2>7. QED
    BY <2>3, <2>4, <2>5, <2>6
<1>2. QED
  BY <1>1, Invariance, PTL
=============================================================================
