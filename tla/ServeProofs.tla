---------------------------- MODULE ServeProofs ----------------------------
(***************************************************************************)
(* Theorems about the serve loop, alone and joined with the advertise loop *)
(* of a capability, for every set of topics, tokens and messages, every    *)
(* de-dup bound and every fault and send budget.                           *)
(***************************************************************************)
EXTENDS Provide, FiniteSetTheorems, TLAPS

(* One step of the loop, the node or the caller, disjunct by disjunct.     *)
LEMMA NextCases ==
    ASSUME [Next]_vars
    PROVE  \/ Open \/ OpenFail
           \/ \E t \in Subscribe : SubscribeTopic(t)
           \/ \E t \in Subscribe : SubscribeFail(t)
           \/ StartStreaming \/ Wake
           \/ Ignore \/ Undecodable \/ BeginHandle \/ HandlerDone \/ ReplySent \/ ReplyFail
           \/ StreamEnd \/ StreamError \/ Return
           \/ NodeCrash \/ NodeStart \/ Cut \/ Garble
           \/ \E m \in Message : Deliver(m)
           \/ ShutdownSignal
           \/ UNCHANGED vars
  BY DEF Next, LoopStep, NodeStep, Done

(* The backoff of the next round is in range: doubling is capped.          *)
LEMMA NextBackoffInRange ==
    ASSUME NEW b \in BackoffMin..BackoffMax
    PROVE  NextBackoff(b) \in BackoffMin..BackoffMax
  BY ServeAssumption DEF NextBackoff

(* What is left of the frames of a broken connection is still frames.      *)
LEMMA TruncateType ==
    ASSUME wire \in Seq(Frame), Truncate
    PROVE  wire' \in Seq(Frame)
<1>1. PICK k \in 0..Len(wire) : wire' = SubSeq(wire, 1, k)
  BY DEF Truncate
<1>2. QED
  BY <1>1

LEMMA DropStreamType ==
    ASSUME DropStream
    PROVE  wire' \in Seq(Frame) /\ attached' \in BOOLEAN
<1>1. wire' \in Seq(Frame)
  BY DEF DropStream
<1>2. attached' \in BOOLEAN
  BY Zenon DEF DropStream
<1>3. QED
  BY <1>1, <1>2

(* A fault, or a failed call, uses up the budget and nothing else.         *)
LEMMA FaultType ==
    ASSUME faults \in Nat, Fault \/ CallFails
    PROVE  faults' \in Nat
  BY DEF Fault, CallFails

(* A request worth answering carries a token.                              *)
LEMMA ToAnswerToken ==
    ASSUME NEW m, ToAnswer(m)
    PROVE  m \in Message /\ m.token \in Token /\ m.token \notin seen
  BY ServeAssumption DEF ToAnswer

LEMMA RememberType ==
    ASSUME seen \subseteq Token, NEW t \in Token
    PROVE  Remember(t) \subseteq Token /\ t \in Remember(t)
  BY DEF Remember

(* The types at the start.                                                 *)
LEMMA TypeStart == Init => TypeOK
<1> SUFFICES ASSUME Init PROVE TypeOK
  OBVIOUS
<1>1. backoff_ms \in BackoffMin..BackoffMax
  BY ServeAssumption DEF Init
<1>2. wire \in Seq(Frame)
  BY DEF Init
<1>3. handled \in [Token -> Nat] /\ replies \in [Token -> Nat]
  BY DEF Init
<1>4. QED
  BY <1>1, <1>2, <1>3 DEF Init, TypeOK

(* Every step keeps the types.                                             *)
LEMMA TypeStep == TypeOK /\ [Next]_vars => TypeOK'
<1> SUFFICES ASSUME TypeOK, [Next]_vars PROVE TypeOK'
  OBVIOUS
<1> USE DEF TypeOK
<1>1. CASE Open
  BY <1>1 DEF Open, histVars, boundVars
<1>2. CASE OpenFail
  BY <1>2, FaultType DEF OpenFail, histVars, nodeVars
<1>3. ASSUME NEW t \in Subscribe, SubscribeTopic(t) PROVE TypeOK'
  BY <1>3, ServeAssumption DEF SubscribeTopic, histVars, boundVars
<1>4. ASSUME NEW t \in Subscribe, SubscribeFail(t) PROVE TypeOK'
  BY <1>4, FaultType, ServeAssumption DEF SubscribeFail, histVars
<1>5. CASE StartStreaming
  BY <1>5, ServeAssumption DEF StartStreaming, histVars, nodeVars, boundVars
<1>6. CASE Wake
  BY <1>6, NextBackoffInRange, DropStreamType DEF Wake, histVars, boundVars
<1>7. CASE Ignore
  BY <1>7 DEF Ignore, loopVars, histVars, boundVars
<1>8. CASE Undecodable
  BY <1>8, ToAnswerToken, RememberType DEF Undecodable, histVars, boundVars
<1>9. CASE BeginHandle
  <2>1. Head(wire).token \in Token /\ Head(wire) \in Message
    BY <1>9, ToAnswerToken DEF BeginHandle
  <2>2. seen' \subseteq Token
    BY <1>9, <2>1, RememberType DEF BeginHandle
  <2>3. handled' \in [Token -> Nat]
    BY <1>9, <2>1 DEF BeginHandle
  <2>4. QED
    BY <1>9, <2>1, <2>2, <2>3 DEF BeginHandle, boundVars
<1>10. CASE HandlerDone
  BY <1>10 DEF HandlerDone, histVars, nodeVars, boundVars
<1>11. CASE ReplySent
  <2>1. replies' \in [Token -> Nat]
    BY <1>11 DEF ReplySent
  <2>2. QED
    BY <1>11, <2>1 DEF ReplySent, nodeVars, boundVars
<1>12. CASE ReplyFail
  <2>1. replies' \in [Token -> Nat]
    BY <1>12 DEF ReplyFail
  <2>2. faults' \in Nat
    BY <1>12, FaultType DEF ReplyFail
  <2>3. QED
    BY <1>12, <2>1, <2>2 DEF ReplyFail, nodeVars
<1>13. CASE StreamEnd
  BY <1>13, DropStreamType DEF StreamEnd, histVars, boundVars
<1>14. CASE StreamError
  BY <1>14, DropStreamType DEF StreamError, histVars, boundVars
<1>15. CASE Return
  BY <1>15, DropStreamType DEF Return, histVars, boundVars
<1>16. CASE NodeCrash
  <2>1. wire' \in Seq(Frame)
    BY <1>16, TruncateType DEF NodeCrash
  <2>2. QED
    BY <1>16, <2>1, FaultType DEF NodeCrash, loopVars, histVars
<1>17. CASE NodeStart
  BY <1>17 DEF NodeStart, loopVars, histVars, boundVars
<1>18. CASE Cut
  <2>1. wire' \in Seq(Frame)
    BY <1>18, TruncateType DEF Cut
  <2>2. QED
    BY <1>18, <2>1, FaultType DEF Cut, loopVars, histVars
<1>19. CASE Garble
  BY <1>19, FaultType DEF Garble, Frame, loopVars, histVars
<1>20. ASSUME NEW m \in Message, Deliver(m) PROVE TypeOK'
  BY <1>20 DEF Deliver, Frame, loopVars, histVars
<1>21. CASE ShutdownSignal
  BY <1>21 DEF ShutdownSignal, loopVars, histVars, nodeVars, boundVars
<1>22. CASE UNCHANGED vars
  BY <1>22 DEF vars, loopVars, histVars, nodeVars, boundVars
<1>23. QED
  BY NextCases, <1>1, <1>2, <1>3, <1>4, <1>5, <1>6, <1>7, <1>8, <1>9, <1>10, <1>11,
     <1>12, <1>13, <1>14, <1>15, <1>16, <1>17, <1>18, <1>19, <1>20, <1>21, <1>22

(***************************************************************************)
(* Type correctness of the loop, with the backoff within its two bounds.   *)
(***************************************************************************)
THEOREM TypeCorrect == Spec => []TypeOK
<1>1. Init => TypeOK
  BY TypeStart
<1>2. TypeOK /\ [Next]_vars => TypeOK'
  BY TypeStep
<1>3. QED
  BY <1>1, <1>2, PTL DEF Spec

-----------------------------------------------------------------------------
(***************************************************************************)
(* Why StreamingIsSubscribed holds: what this connection had confirmed is  *)
(* in force as long as the node that feeds its stream is the one that      *)
(* confirmed it.  A crash clears `subs`, but it detaches the stream too.   *)
(***************************************************************************)
SubscriptionInv ==
    /\ attached => confirmed \subseteq subs
    /\ Streaming => confirmed = Subscribe

(* Every step keeps the invariant.                                         *)
LEMMA SubscriptionStep == SubscriptionInv /\ [Next]_vars => SubscriptionInv'
<1> SUFFICES ASSUME SubscriptionInv, [Next]_vars PROVE SubscriptionInv'
  OBVIOUS
<1> USE DEF SubscriptionInv, Streaming
<1>1. CASE Open
  BY <1>1 DEF Open
<1>2. CASE OpenFail
  BY <1>2 DEF OpenFail, nodeVars
<1>3. ASSUME NEW t \in Subscribe, SubscribeTopic(t) PROVE SubscriptionInv'
  BY <1>3 DEF SubscribeTopic
<1>4. ASSUME NEW t \in Subscribe, SubscribeFail(t) PROVE SubscriptionInv'
  BY <1>4 DEF SubscribeFail
<1>5. CASE StartStreaming
  BY <1>5 DEF StartStreaming, nodeVars
<1>6. CASE Wake \/ StreamEnd \/ StreamError \/ Return
  BY <1>6 DEF Wake, StreamEnd, StreamError, Return, DropStream
<1>7. CASE Ignore \/ Undecodable \/ BeginHandle
  BY <1>7 DEF Ignore, Undecodable, BeginHandle, loopVars
<1>8. CASE HandlerDone \/ ReplySent \/ ReplyFail
  BY <1>8 DEF HandlerDone, ReplySent, ReplyFail, nodeVars
<1>9. CASE NodeCrash \/ Cut
  BY <1>9 DEF NodeCrash, Cut, loopVars
<1>10. CASE NodeStart \/ Garble \/ ShutdownSignal
  BY <1>10 DEF NodeStart, Garble, ShutdownSignal, loopVars, nodeVars
<1>11. ASSUME NEW m \in Message, Deliver(m) PROVE SubscriptionInv'
  BY <1>11 DEF Deliver, loopVars
<1>12. CASE UNCHANGED vars
  BY <1>12 DEF vars, loopVars, nodeVars
<1>13. QED
  BY NextCases, <1>1, <1>2, <1>3, <1>4, <1>5, <1>6, <1>7, <1>8, <1>9, <1>10, <1>11, <1>12

(***************************************************************************)
(* While the loop reads a stream the running node feeds, that node routes  *)
(* every topic of the service, at whatever step the node restarted.        *)
(***************************************************************************)
THEOREM StreamingSubscribed == Spec => []StreamingIsSubscribed
<1>1. Init => SubscriptionInv
  BY DEF Init, SubscriptionInv, Streaming
<1>2. SubscriptionInv /\ [Next]_vars => SubscriptionInv'
  BY SubscriptionStep
<1>3. SubscriptionInv => StreamingIsSubscribed
  BY DEF SubscriptionInv, StreamingIsSubscribed
<1>4. QED
  BY <1>1, <1>2, <1>3, PTL DEF Spec

-----------------------------------------------------------------------------
(* Every step but the two that take a request leaves `seen` alone.         *)
LEMMA SeenSteps ==
    ASSUME [Next]_vars
    PROVE  seen' = seen \/ Undecodable \/ BeginHandle
  BY NextCases DEF Open, OpenFail, SubscribeTopic, SubscribeFail, StartStreaming, Wake, Ignore,
     HandlerDone, ReplySent, ReplyFail, StreamEnd, StreamError, Return, NodeCrash, NodeStart,
     Cut, Garble, Deliver, ShutdownSignal, vars, loopVars

SeenInv == IsFiniteSet(seen) /\ SeenBounded

(* The set stays finite and within its bound.                              *)
LEMMA SeenStep == SeenInv /\ [Next]_vars => SeenInv'
<1> SUFFICES ASSUME SeenInv, [Next]_vars PROVE SeenInv'
  OBVIOUS
<1>1. CASE seen' = seen
  BY <1>1 DEF SeenInv, SeenBounded
<1>2. ASSUME NEW t, seen' = Remember(t) PROVE SeenInv'
  <2>1. IsFiniteSet({t}) /\ Cardinality({t}) = 1
    BY FS_Singleton
  <2>2. IsFiniteSet(seen \cup {t}) /\ Cardinality(seen \cup {t}) \in Nat
    BY FS_AddElement, FS_CardinalityType DEF SeenInv
  <2>3. CASE Cardinality(seen \cup {t}) > SeenCap
    BY <1>2, <2>1, <2>3, ServeAssumption DEF Remember, SeenInv, SeenBounded
  <2>4. CASE ~(Cardinality(seen \cup {t}) > SeenCap)
    BY <1>2, <2>2, <2>4, ServeAssumption DEF Remember, SeenInv, SeenBounded
  <2>5. QED
    BY <2>3, <2>4
<1>3. QED
  BY SeenSteps, <1>1, <1>2 DEF Undecodable, BeginHandle

(***************************************************************************)
(* The de-dup set of a server that runs for ever never exceeds its bound,  *)
(* for every bound: the roll-over re-inserts one token into an empty set.  *)
(***************************************************************************)
THEOREM SeenStaysBounded == Spec => []SeenBounded
<1>1. Init => SeenInv
  BY ServeAssumption, FS_EmptySet DEF Init, SeenInv, SeenBounded
<1>2. SeenInv /\ [Next]_vars => SeenInv'
  BY SeenStep
<1>3. QED
  BY <1>1, <1>2, PTL DEF Spec, SeenInv

-----------------------------------------------------------------------------
(* The tokens a server ever sees fit in its de-dup set.                    *)
TokensFit == IsFiniteSet(Token) /\ Cardinality(Token) <= SeenCap

(* Then `seen` never rolls over.                                           *)
LEMMA RememberKeeps ==
    ASSUME TokensFit, seen \subseteq Token, NEW t \in Token
    PROVE  Remember(t) = seen \cup {t}
<1>1. seen \cup {t} \subseteq Token
  OBVIOUS
<1>2. IsFiniteSet(Token) /\ Cardinality(Token) \in Nat
  BY FS_CardinalityType DEF TokensFit
<1>3. Cardinality(seen \cup {t}) \in Nat /\ Cardinality(seen \cup {t}) <= Cardinality(Token)
  BY <1>1, <1>2, FS_Subset, FS_CardinalityType
<1>4. ~(Cardinality(seen \cup {t}) > SeenCap)
  BY <1>2, <1>3, ServeAssumption DEF TokensFit
<1>5. QED
  BY <1>4 DEF Remember

(***************************************************************************)
(* Why AnsweredAtMostOnce holds: a token outside `seen` was never handled, *)
(* and the request in progress has its token in `seen` and no reply yet.   *)
(***************************************************************************)
AnswerInv ==
    /\ \A t \in Token : t \notin seen => handled[t] = 0
    /\ \A t \in Token : handled[t] <= 1 /\ replies[t] <= handled[t]
    /\ pc \in {"handle", "reply"} =>
           cur.token \in seen /\ handled[cur.token] = 1 /\ replies[cur.token] = 0

(* A reply that reaches the node, whether or not the call reports it.      *)
Replied ==
    /\ pc = "reply" /\ pc' = "stream"
    /\ replies' = [replies EXCEPT ![cur.token] = @ + 1]
    /\ UNCHANGED <<seen, handled>>

LEMMA ReplySteps ==
    ASSUME ReplySent \/ ReplyFail
    PROVE  \/ Replied
           \/ UNCHANGED <<seen, handled, replies>> /\ pc' = "stream"
  BY DEF ReplySent, ReplyFail, Replied

(* Steps that neither take a request nor reply to one.                     *)
LEMMA AnswerSteps ==
    ASSUME [Next]_vars
    PROVE  \/ Undecodable \/ BeginHandle \/ Replied
           \/ /\ UNCHANGED <<seen, handled, replies>>
              /\ pc' \in {"handle", "reply"} =>
                     pc \in {"handle", "reply"} /\ cur' = cur
  BY NextCases, ReplySteps DEF Open, OpenFail, SubscribeTopic, SubscribeFail, StartStreaming,
     Wake, Ignore, HandlerDone, StreamEnd, StreamError, Return, NodeCrash, NodeStart,
     Cut, Garble, Deliver, ShutdownSignal, vars, loopVars, histVars

(***************************************************************************)
(* A request is handled at most once and replied to at most once, however  *)
(* often it is redelivered, as long as the de-dup set never rolls over.    *)
(***************************************************************************)
THEOREM AtMostOnce == TokensFit /\ Spec => []AnsweredAtMostOnce
<1> SUFFICES ASSUME TokensFit PROVE Spec => []AnsweredAtMostOnce
  OBVIOUS
<1>1. Init => AnswerInv
  BY DEF Init, AnswerInv
<1>2. TypeOK /\ AnswerInv /\ [Next]_vars => AnswerInv'
  <2> SUFFICES ASSUME TypeOK, AnswerInv, [Next]_vars PROVE AnswerInv'
    OBVIOUS
  <2>1. CASE Undecodable
    <3>1. seen \subseteq seen'
      BY <2>1, ToAnswerToken, RememberKeeps DEF Undecodable, TypeOK
    <3>2. UNCHANGED <<pc, cur, handled, replies>>
      BY <2>1 DEF Undecodable, histVars
    <3>3. QED
      BY <3>1, <3>2 DEF AnswerInv
  <2>2. CASE BeginHandle
    <3> DEFINE k == Head(wire).token
    <3>1. k \in Token /\ k \notin seen /\ seen' = seen \cup {k}
      BY <2>2, ToAnswerToken, RememberKeeps DEF BeginHandle, TypeOK
    <3>2. /\ cur'.token = k /\ replies' = replies
          /\ handled' = [handled EXCEPT ![k] = @ + 1]
      BY <2>2 DEF BeginHandle
    <3>3. handled[k] = 0 /\ replies[k] = 0
      BY <3>1 DEF AnswerInv, TypeOK
    <3>4. handled'[k] = 1 /\ \A t \in Token : t # k => handled'[t] = handled[t]
      BY <3>1, <3>2, <3>3 DEF TypeOK
    <3> HIDE DEF k
    <3>5. QED
      BY <3>1, <3>2, <3>3, <3>4 DEF AnswerInv, TypeOK
  <2>3. CASE Replied
    <3>1. cur.token \in Token /\ handled[cur.token] = 1 /\ replies[cur.token] = 0
      BY <2>3 DEF Replied, AnswerInv, TypeOK
    <3>2. /\ UNCHANGED <<seen, handled>> /\ pc' = "stream"
          /\ replies' = [replies EXCEPT ![cur.token] = @ + 1]
      BY <2>3 DEF Replied
    <3>3. replies'[cur.token] = 1 /\ \A t \in Token : t # cur.token => replies'[t] = replies[t]
      BY <3>1, <3>2 DEF TypeOK
    <3>4. QED
      BY <3>1, <3>2, <3>3 DEF AnswerInv, TypeOK
  <2>4. CASE /\ UNCHANGED <<seen, handled, replies>>
             /\ pc' \in {"handle", "reply"} =>
                    pc \in {"handle", "reply"} /\ cur' = cur
    BY <2>4 DEF AnswerInv
  <2>5. QED
    BY AnswerSteps, <2>1, <2>2, <2>3, <2>4
<1>3. AnswerInv => AnsweredAtMostOnce
  BY DEF AnswerInv, AnsweredAtMostOnce
<1>4. QED
  BY TypeCorrect, <1>1, <1>2, <1>3, PTL DEF Spec

(* Every step keeps the request in progress remembered.                    *)
LEMMA InFlightStep == TypeOK /\ InFlightRemembered /\ [Next]_vars => InFlightRemembered'
<1> SUFFICES ASSUME TypeOK, InFlightRemembered, [Next]_vars PROVE InFlightRemembered'
  OBVIOUS
<1>1. CASE Undecodable
  BY <1>1 DEF Undecodable, InFlightRemembered
<1>2. CASE BeginHandle
  BY <1>2, ToAnswerToken, RememberType DEF BeginHandle, InFlightRemembered, TypeOK
<1>3. CASE Replied
  BY <1>3 DEF Replied, InFlightRemembered
<1>4. CASE /\ UNCHANGED <<seen, handled, replies>>
           /\ pc' \in {"handle", "reply"} =>
                  pc \in {"handle", "reply"} /\ cur' = cur
  BY <1>4 DEF InFlightRemembered
<1>5. QED
  BY AnswerSteps, <1>1, <1>2, <1>3, <1>4

(***************************************************************************)
(* With any bound, roll-over or not, a redelivery of the request that is   *)
(* being handled or replied to is recognised.                              *)
(***************************************************************************)
THEOREM InFlightIsRemembered == Spec => []InFlightRemembered
<1>1. Init => InFlightRemembered
  BY DEF Init, InFlightRemembered
<1>2. TypeOK /\ InFlightRemembered /\ [Next]_vars => InFlightRemembered'
  BY InFlightStep
<1>3. QED
  BY TypeCorrect, <1>1, <1>2, PTL DEF Spec

-----------------------------------------------------------------------------
(* Beside the advertise loop, the serve loop and its node step as they do  *)
(* alone, except that a failed advertise may use up a fault.               *)
OneFault ==
    /\ faults' \in {faults, faults + 1}
    /\ UNCHANGED <<loopVars, shutdown, histVars, nodeVars, sends>>

LEMMA ProvideSteps ==
    ASSUME [ProvideNext]_allVars PROVE [Next]_vars \/ OneFault
<1>1. CASE AdvertiseFail
  BY <1>1 DEF AdvertiseFail, AdvertiseFailsTo, CallFails, OneFault
<1>2. CASE SeeReady \/ Advertise \/ Heartbeat \/ RegReturn \/ Expire \/ ServeStep \/ UNCHANGED allVars
  BY <1>2 DEF SeeReady, SeeReadyIf, Advertise, Heartbeat, RegReturn, RegReturnFrom, Expire,
              ServeStep, allVars
<1>3. QED
  BY <1>1, <1>2 DEF ProvideNext, RegStep

(* The flag is never lowered.                                              *)
LEMMA SubscribedStays ==
    ASSUME [ProvideNext]_allVars, subscribed PROVE subscribed'
<1>1. CASE [Next]_vars
  BY <1>1, NextCases DEF Open, OpenFail, SubscribeTopic, SubscribeFail, StartStreaming, Wake,
     Ignore, Undecodable, BeginHandle, HandlerDone, ReplySent, ReplyFail, StreamEnd, StreamError,
     Return, NodeCrash, NodeStart, Cut, Garble, Deliver, ShutdownSignal, vars, loopVars
<1>2. CASE OneFault
  BY <1>2 DEF OneFault, loopVars
<1>3. QED
  BY <1>1, <1>2, ProvideSteps

LEMMA TypesBeside == TypeOK /\ [ProvideNext]_allVars => TypeOK'
<1>1. SUFFICES ASSUME TypeOK, [ProvideNext]_allVars PROVE TypeOK'
  OBVIOUS
<1>2. CASE OneFault
  BY <1>1, <1>2 DEF OneFault, TypeOK, loopVars, histVars, nodeVars
<1>3. QED
  BY <1>1, <1>2, ProvideSteps, TypeStep

(* Types of the two loops, and the flag before the first advertise.        *)
LEMMA ProvideTypeStep == ProvideTypeOK /\ [ProvideNext]_allVars => ProvideTypeOK'
<1>1. SUFFICES ASSUME ProvideTypeOK, [ProvideNext]_allVars PROVE ProvideTypeOK'
  OBVIOUS
<1>2. TypeOK' /\ subscribed \in BOOLEAN
  BY <1>1, TypesBeside DEF ProvideTypeOK, TypeOK
<1>3. subscribed => subscribed'
  BY <1>1, SubscribedStays
<1>4. CASE SeeReady
  BY <1>1, <1>2, <1>3, <1>4 DEF SeeReady, SeeReadyIf, ProvideTypeOK
<1>5. CASE Advertise
  BY <1>1, <1>2, <1>3, <1>5 DEF Advertise, ProvideTypeOK
<1>6. CASE AdvertiseFail
  BY <1>1, <1>2, <1>3, <1>6 DEF AdvertiseFail, AdvertiseFailsTo, ProvideTypeOK
<1>7. CASE Heartbeat
  BY <1>1, <1>2, <1>3, <1>7 DEF Heartbeat, ProvideTypeOK
<1>8. CASE RegReturn
  BY <1>1, <1>2, <1>3, <1>8 DEF RegReturn, RegReturnFrom, ProvideTypeOK
<1>9. CASE Expire
  BY <1>1, <1>2, <1>3, <1>9 DEF Expire, ProvideTypeOK
<1>10. CASE ServeStep \/ UNCHANGED allVars
  BY <1>1, <1>2, <1>3, <1>10 DEF ServeStep, allVars, regVars, ProvideTypeOK
<1>11. QED
  BY <1>1, <1>4, <1>5, <1>6, <1>7, <1>8, <1>9, <1>10 DEF ProvideNext, RegStep

(***************************************************************************)
(* Type correctness of a capability, and nothing of it is advertised       *)
(* before its service was once ready.                                      *)
(***************************************************************************)
THEOREM ProvideTypeCorrect == ProvideSpec => []ProvideTypeOK
<1>1. ProvideInit => ProvideTypeOK
  BY TypeStart DEF ProvideInit, ProvideTypeOK
<1>2. QED
  BY <1>1, ProvideTypeStep, PTL DEF ProvideSpec

(***************************************************************************)
(* The advertise loop takes nothing from what the serve loop promises: the *)
(* node routes the topics of the stream the loop reads, the de-dup set is  *)
(* bounded, and the request in progress is remembered.                     *)
(***************************************************************************)
THEOREM ServeKeepsItsPromises ==
    ProvideSpec => [](StreamingIsSubscribed /\ SeenBounded /\ InFlightRemembered)
<1> DEFINE Inv == TypeOK /\ SubscriptionInv /\ SeenInv /\ InFlightRemembered
<1>1. ProvideInit => Inv
  <2>1. Init => TypeOK /\ SubscriptionInv /\ InFlightRemembered
    BY TypeStart DEF Init, SubscriptionInv, Streaming, InFlightRemembered
  <2>2. Init => SeenInv
    BY ServeAssumption, FS_EmptySet DEF Init, SeenInv, SeenBounded
  <2>3. QED
    BY <2>1, <2>2 DEF ProvideInit
<1>2. Inv /\ [ProvideNext]_allVars => Inv'
  <2>1. SUFFICES ASSUME Inv, [ProvideNext]_allVars PROVE Inv'
    OBVIOUS
  <2>2. CASE [Next]_vars
    BY <2>1, <2>2, TypeStep, SubscriptionStep, SeenStep, InFlightStep
  <2>3. CASE OneFault
    <3>1. TypeOK'
      BY <2>1, TypesBeside
    <3>2. UNCHANGED <<pc, confirmed, seen, cur, subs, attached>>
      BY <2>3 DEF OneFault, loopVars, nodeVars
    <3>3. (SubscriptionInv /\ SeenInv /\ InFlightRemembered)'
      BY <2>1, <3>2 DEF SubscriptionInv, SeenInv, SeenBounded, InFlightRemembered, Streaming
    <3>4. QED
      BY <3>1, <3>3
  <2>4. QED
    BY <2>1, <2>2, <2>3, ProvideSteps
<1>3. Inv => StreamingIsSubscribed /\ SeenBounded /\ InFlightRemembered
  BY DEF SubscriptionInv, StreamingIsSubscribed, SeenInv
<1>4. QED
  BY <1>1, <1>2, <1>3, PTL DEF ProvideSpec
=============================================================================
