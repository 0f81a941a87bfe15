---------------------------- MODULE AdaptProofs ----------------------------
(***************************************************************************)
(* Proofs about Adapt, for any number of flows, any ring size and any      *)
(* traffic: the types, the settlement, and the order in both directions.   *)
(* Every step moves at most one flow, so each invariant is a predicate of  *)
(* one flow's record, shown to survive each action of that flow.           *)
(***************************************************************************)
EXTENDS Adapt, SequenceTheorems, TLAPS

(* flow is a function on Flow, so that EXCEPT changes one flow only.       *)
FlowFunction == flow = [f \in Flow |-> flow[f]]

RingsFit(s) ==
    /\ Len(s.downIn) <= RingSlots /\ Len(s.downOut) <= RingSlots
    /\ Len(s.upOut) <= RingSlots /\ Len(s.upIn) <= RingSlots

(* The relay thread is started with the loop of the main thread; on_close  *)
(* runs on the way to "close", the closes on the way to "join", and a      *)
(* relay thread that is gone does not come back.                           *)
SettledInv(s) ==
    /\ s.main \in {"offered", "unserved", "accept"} => s.relay = "idle"
    /\ s.on_close = IF s.main \in {"close", "join", "done"} THEN 1 ELSE 0
    /\ s.main \in {"join", "done"} => s.downClosed /\ s.upClosed
    /\ s.main = "done" => s.relay \in {"done", "unspawned"}

(* q holds the numbers after n, in order.                                  *)
Follows(q, n) == \A i \in 1..Len(q) : q[i] = n + i

(***************************************************************************)
(* Frames on their way through a thread: received, in the ring behind it,  *)
(* in its hand (held = 1) and in the ring before it, they are consecutive, *)
(* up to the last one sent.  Once the thread is off, only the first two    *)
(* are.                                                                    *)
(***************************************************************************)
Chain(done, ring, held, hand, rest, sent, on) ==
    /\ Follows(done, 0) /\ Follows(ring, Len(done))
    /\ on => /\ held = 1 => hand = Len(done) + Len(ring) + 1
             /\ Follows(rest, Len(done) + Len(ring) + held)
             /\ Len(done) + Len(ring) + held + Len(rest) = sent

(* The flow's thread still takes requests, or was never started.           *)
Taking(s) == s.main \in {"offered", "unserved", "accept", "recv", "intercept", "send"}

Held(s) == IF s.main \in {"intercept", "send"} THEN 1 ELSE 0

(* Requests on their way up; a denied one is followed by none.             *)
OrderInv(s) ==
    /\ Chain(s.served, s.upOut, Held(s), s.request, s.downIn, s.asked, Taking(s))
    /\ s.denied # 0 => Len(s.served) + Len(s.upOut) < s.denied
    /\ IF Taking(s) THEN s.denied = 0 ELSE s.denied # 0 \/ s.downClosed \/ s.upClosed

(* The relay thread has not stopped, or nobody has noticed it yet.         *)
Relaying(s) == s.relay \in {"idle", "unspawned", "recv", "send"} \/ ~s.downClosed

Carried(s) == IF s.relay = "send" THEN 1 ELSE 0

(* Frames on their way down.                                               *)
RelayInv(s) ==
    Chain(s.received, s.downOut, Carried(s), s.response, s.upIn, s.emitted, Relaying(s))

FlowInv(f, s) ==
    s \in FlowState(f) /\ RingsFit(s) /\ SettledInv(s) /\ OrderInv(s) /\ RelayInv(s)

IInv ==
    /\ control \in {"accept", "failed"} /\ faults \in 0..MaxFaults
    /\ FlowFunction
    /\ \A f \in Flow : FlowInv(f, flow[f])

-----------------------------------------------------------------------------
(* Steps *)

LEMMA Bounds ==
    /\ \A f \in Flow : Requests[f] \in Nat /\ Responses[f] \in Nat
    /\ RingSlots \in Nat \ {0} /\ MaxFaults \in Nat
  BY AdaptAssumption

LEMMA StepsMoveOneFlow ==
    ASSUME [Next]_vars
    PROVE  \/ flow' = flow
           \/ \E g \in Flow :
                 /\ MainStep(g) \/ RelayStep(g) \/ EndStep(g)
                 /\ \E s : flow' = [flow EXCEPT ![g] = s]
  <1>1. CASE ControlFails \/ UNCHANGED vars
    BY <1>1 DEF ControlFails, vars
  <1>2. ASSUME NEW g \in Flow, MainStep(g) PROVE \E s : flow' = [flow EXCEPT ![g] = s]
    BY <1>2 DEF MainStep, AcceptFlow, ServeFlow, Recv, RecvThen, Intercept, DenyThen, Send,
                OnClose, Close, Join, Moves, Becomes
  <1>3. ASSUME NEW g \in Flow, RelayStep(g) PROVE \E s : flow' = [flow EXCEPT ![g] = s]
    BY <1>3 DEF RelayStep, RelayRecv, RelayRecvThen, RelaySend, RelayClose, Moves, Becomes
  <1>4. ASSUME NEW g \in Flow, EndStep(g) PROVE \E s : flow' = [flow EXCEPT ![g] = s]
    BY <1>4 DEF EndStep, AppAsk, AppReceive, AppClose, NodeServe, NodeEmit, NodeClose, Moves, Becomes
  <1>5. QED BY <1>1, <1>2, <1>3, <1>4 DEF Next

LEMMA NextCases ==
    ASSUME FlowFunction, [Next]_vars, NEW f \in Flow
    PROVE  \/ flow'[f] = flow[f]
           \/ MainStep(f)
           \/ RelayStep(f)
           \/ EndStep(f)
  BY StepsMoveOneFlow DEF FlowFunction

LEMMA FlowsStay == FlowFunction /\ [Next]_vars => FlowFunction'
  BY StepsMoveOneFlow DEF FlowFunction

LEMMA Moved ==
    ASSUME FlowFunction, NEW f \in Flow, NEW s, Becomes(f, s)
    PROVE  flow'[f] = s
  BY DEF FlowFunction, Becomes

(* The end of a ring that is read, and the end that is written.            *)
LEMMA Pop ==
    ASSUME NEW S, NEW q \in Seq(S), q # <<>>
    PROVE  /\ Len(q) \in Nat /\ Tail(q) \in Seq(S) /\ Head(q) \in S /\ Head(q) = q[1]
           /\ Len(q) >= 1 /\ Len(Tail(q)) = Len(q) - 1
           /\ \A i \in 1..Len(Tail(q)) : Tail(q)[i] = q[i + 1]
  BY HeadTailProperties

LEMMA Push ==
    ASSUME NEW S, NEW q \in Seq(S), NEW x \in S
    PROVE  /\ Len(q) \in Nat /\ Append(q, x) \in Seq(S)
           /\ Len(Append(q, x)) = Len(q) + 1
           /\ \A i \in 1..Len(q) : Append(q, x)[i] = q[i]
           /\ Append(q, x)[Len(q) + 1] = x
  BY AppendProperties

LEMMA FollowsPop ==
    ASSUME NEW S, NEW q \in Seq(S), q # <<>>, NEW n \in Nat, Follows(q, n)
    PROVE  Head(q) = n + 1 /\ Follows(Tail(q), n + 1)
  BY Pop DEF Follows

LEMMA FollowsPush ==
    ASSUME NEW S, NEW q \in Seq(S), NEW n \in Nat, Follows(q, n), n + Len(q) + 1 \in S
    PROVE  Follows(Append(q, n + Len(q) + 1), n)
  BY Push DEF Follows

LEMMA SeqNat == ASSUME NEW k \in Nat, NEW q \in Seq(1..k) PROVE q \in Seq(Nat)
<1>1. 1..k \subseteq Nat
  OBVIOUS
<1>2. QED BY <1>1, SeqMonotonic

(* The thread takes a frame.                                               *)
LEMMA ChainTake ==
    ASSUME NEW done \in Seq(Nat), NEW ring \in Seq(Nat), NEW rest \in Seq(Nat), rest # <<>>,
           NEW hand, NEW sent \in Nat, Chain(done, ring, 0, hand, rest, sent, TRUE)
    PROVE  Chain(done, ring, 1, Head(rest), Tail(rest), sent, TRUE)
  <1> DEFINE m == Len(done) + Len(ring)
  <1>1. Len(done) \in Nat /\ Len(ring) \in Nat /\ m \in Nat /\ m + 0 = m
    OBVIOUS
  <1>2. Follows(rest, m) /\ m + Len(rest) = sent
    BY <1>1 DEF Chain
  <1>3. Head(rest) = m + 1 /\ Follows(Tail(rest), m + 1)
    BY <1>1, <1>2, FollowsPop
  <1>4. Len(rest) \in Nat /\ Len(Tail(rest)) = Len(rest) - 1
    BY Pop
  <1> DEFINE rest1 == Tail(rest)
  <1>5. m + 1 + Len(rest1) = sent
    <2> HIDE DEF m, rest1
    <2>1. Len(rest1) = Len(rest) - 1
      BY <1>4 DEF rest1
    <2>2. PICK l \in Nat : l = Len(rest)
      BY <1>4, Zenon
    <2>3. Len(rest1) = l - 1 /\ m + l = sent
      BY <1>2, <2>1, <2>2, Zenon
    <2>4. QED BY <1>1, <2>3
  <1>6. QED BY <1>3, <1>5 DEF Chain

(* It passes the frame on.                                                 *)
LEMMA ChainPass ==
    ASSUME NEW done \in Seq(Nat), NEW ring \in Seq(Nat), NEW rest \in Seq(Nat),
           NEW hand \in Nat, NEW sent \in Nat, Chain(done, ring, 1, hand, rest, sent, TRUE)
    PROVE  Chain(done, Append(ring, hand), 0, hand, rest, sent, TRUE)
  <1> DEFINE m == Len(done) + Len(ring)
  <1>1. Len(done) \in Nat /\ Len(ring) \in Nat /\ m \in Nat /\ Len(rest) \in Nat
    OBVIOUS
  <1>2. hand = m + 1 /\ Follows(rest, m + 1) /\ m + 1 + Len(rest) = sent
    BY DEF Chain
  <1>3. Len(Append(ring, hand)) = Len(ring) + 1
    BY Push
  <1>4. Follows(Append(ring, hand), Len(done))
    <2>1. Follows(ring, Len(done)) /\ hand = Len(done) + Len(ring) + 1
      BY <1>2 DEF Chain
    <2>2. QED BY <1>1, <2>1, FollowsPush
  <1>5. Len(done) + Len(Append(ring, hand)) + 0 = m + 1
    BY <1>1, <1>3
  <1>6. Follows(rest, Len(done) + Len(Append(ring, hand)) + 0)
    BY <1>2, <1>5
  <1>7. Len(done) + Len(Append(ring, hand)) + 0 + Len(rest) = sent
    BY <1>1, <1>2, <1>5
  <1>8. Follows(done, 0)
    BY DEF Chain
  <1>9. QED BY <1>2, <1>3, <1>4, <1>6, <1>7, <1>8 DEF Chain

(* The far end reads from the ring.                                        *)
LEMMA ChainRead ==
    ASSUME NEW done \in Seq(Nat), NEW ring \in Seq(Nat), ring # <<>>, NEW rest \in Seq(Nat),
           NEW held \in {0, 1}, NEW hand, NEW sent, NEW on,
           Chain(done, ring, held, hand, rest, sent, on)
    PROVE  /\ Chain(Append(done, Head(ring)), Tail(ring), held, hand, rest, sent, on)
           /\ Len(Append(done, Head(ring))) + Len(Tail(ring)) = Len(done) + Len(ring)
  <1> DEFINE done1 == Append(done, Head(ring))
  <1> DEFINE ring1 == Tail(ring)
  <1>1. Len(done) \in Nat /\ Len(ring) \in Nat
    OBVIOUS
  <1>2. Follows(done, 0) /\ Follows(ring, Len(done))
    BY DEF Chain
  <1>3. Head(ring) = Len(done) + 1 /\ Follows(ring1, Len(done) + 1)
    BY <1>1, <1>2, FollowsPop
  <1>4. Follows(done1, 0)
    <2>1. Head(ring) = 0 + Len(done) + 1 /\ Head(ring) \in Nat
      BY <1>1, <1>3
    <2>2. QED BY <1>2, <2>1, FollowsPush
  <1>5. Len(done1) = Len(done) + 1 /\ Len(ring1) = Len(ring) - 1
    <2>1. Head(ring) \in Nat /\ Len(ring1) = Len(ring) - 1
      BY Pop
    <2>2. QED BY <2>1, Push
  <1>6. Follows(ring1, Len(done1))
    BY <1>3, <1>5
  <1>7. Len(done1) + Len(ring1) = Len(done) + Len(ring)
    BY <1>1, <1>5
  <1> HIDE DEF done1, ring1
  <1>8. Chain(done1, ring1, held, hand, rest, sent, on)
    BY <1>4, <1>6, <1>7 DEF Chain
  <1>9. QED BY <1>7, <1>8 DEF done1, ring1

(* The near end sends one more.                                            *)
LEMMA ChainSend ==
    ASSUME NEW done \in Seq(Nat), NEW ring \in Seq(Nat), NEW rest \in Seq(Nat),
           NEW held \in {0, 1}, NEW hand, NEW sent \in Nat, NEW on,
           Chain(done, ring, held, hand, rest, sent, on)
    PROVE  Chain(done, ring, held, hand, Append(rest, sent + 1), sent + 1, on)
  <1> DEFINE m == Len(done) + Len(ring) + held
  <1>1. Len(done) \in Nat /\ Len(ring) \in Nat /\ m \in Nat /\ Len(rest) \in Nat
    OBVIOUS
  <1>2. Len(Append(rest, sent + 1)) = Len(rest) + 1
    BY Push
  <1>3. ASSUME on
        PROVE  Follows(Append(rest, sent + 1), m) /\ m + Len(Append(rest, sent + 1)) = sent + 1
    <2>1. Follows(rest, m) /\ m + Len(rest) = sent
      BY <1>3 DEF Chain
    <2>2. sent + 1 = m + Len(rest) + 1 /\ sent + 1 \in Nat
      BY <1>1, <2>1
    <2>3. Follows(Append(rest, sent + 1), m)
      BY <1>1, <2>1, <2>2, FollowsPush
    <2>4. m + Len(Append(rest, sent + 1)) = sent + 1
      BY <1>1, <1>2, <2>2
    <2>5. QED BY <2>3, <2>4
  <1>4. QED BY <1>3 DEF Chain


(* AcceptFlow: a thread is started for the flow.                           *)
LEMMA FlowStartsKeeps ==
    ASSUME NEW f \in Flow, NEW s, FlowInv(f, s), s.main = "offered"
    PROVE  FlowInv(f, [s EXCEPT !.main = "accept"])
  <1> USE Bounds
  <1>0. s \in FlowState(f) /\ RingsFit(s) /\ SettledInv(s) /\ OrderInv(s) /\ RelayInv(s)
    BY DEF FlowInv
  <1> DEFINE s1 == [s EXCEPT !.main = "accept"]
  <1>1. s1 \in FlowState(f)
    BY <1>0 DEF FlowState
  <1>2. RingsFit(s1)
    BY <1>0 DEF RingsFit, FlowState
  <1>3. SettledInv(s1)
    BY <1>0 DEF SettledInv, FlowState
  <1>4. OrderInv(s1)
    BY <1>0 DEF OrderInv, Chain, Taking, Held, FlowState
  <1>5. RelayInv(s1)
    BY <1>0 DEF RelayInv, Relaying, Carried, FlowState, Chain
  <1>6. QED BY <1>1, <1>2, <1>3, <1>4, <1>5 DEF FlowInv

(* AcceptFlow: no thread can be created, the endpoints are dropped.        *)
LEMMA FlowUnservedKeeps ==
    ASSUME NEW f \in Flow, NEW s, FlowInv(f, s), s.main = "offered"
    PROVE  FlowInv(f, [s EXCEPT !.main = "unserved", !.downClosed = TRUE, !.upClosed = TRUE])
  <1> USE Bounds
  <1>0. s \in FlowState(f) /\ RingsFit(s) /\ SettledInv(s) /\ OrderInv(s) /\ RelayInv(s)
    BY DEF FlowInv
  <1> DEFINE s1 == [s EXCEPT !.main = "unserved", !.downClosed = TRUE, !.upClosed = TRUE]
  <1>1. s1 \in FlowState(f)
    BY <1>0 DEF FlowState
  <1>2. RingsFit(s1)
    BY <1>0 DEF RingsFit, FlowState
  <1>3. SettledInv(s1)
    BY <1>0 DEF SettledInv, FlowState
  <1>4. OrderInv(s1)
    BY <1>0 DEF OrderInv, Chain, Taking, Held, FlowState
  <1>5. RelayInv(s1)
    BY <1>0 DEF RelayInv, Relaying, Carried, FlowState, Chain
  <1>6. QED BY <1>1, <1>2, <1>3, <1>4, <1>5 DEF FlowInv

(* ServeFlow: the relay thread is started.                                 *)
LEMMA ServeStartsKeeps ==
    ASSUME NEW f \in Flow, NEW s, FlowInv(f, s), s.main = "accept"
    PROVE  FlowInv(f, [s EXCEPT !.main = "recv", !.relay = "recv"])
  <1> USE Bounds
  <1>0. s \in FlowState(f) /\ RingsFit(s) /\ SettledInv(s) /\ OrderInv(s) /\ RelayInv(s)
    BY DEF FlowInv
  <1> DEFINE s1 == [s EXCEPT !.main = "recv", !.relay = "recv"]
  <1>1. s1 \in FlowState(f)
    BY <1>0 DEF FlowState
  <1>2. RingsFit(s1)
    BY <1>0 DEF RingsFit, FlowState
  <1>3. SettledInv(s1)
    BY <1>0 DEF SettledInv, FlowState
  <1>4. OrderInv(s1)
    BY <1>0 DEF OrderInv, Chain, Taking, Held, FlowState
  <1>5. RelayInv(s1)
    BY <1>0 DEF RelayInv, Relaying, Carried, SettledInv, FlowState, Chain
  <1>6. QED BY <1>1, <1>2, <1>3, <1>4, <1>5 DEF FlowInv

(* ServeFlow: the relay thread cannot be created.                          *)
LEMMA ServeUnrelayedKeeps ==
    ASSUME NEW f \in Flow, NEW s, FlowInv(f, s), s.main = "accept"
    PROVE  FlowInv(f, [s EXCEPT !.main = "recv", !.relay = "unspawned"])
  <1> USE Bounds
  <1>0. s \in FlowState(f) /\ RingsFit(s) /\ SettledInv(s) /\ OrderInv(s) /\ RelayInv(s)
    BY DEF FlowInv
  <1> DEFINE s1 == [s EXCEPT !.main = "recv", !.relay = "unspawned"]
  <1>1. s1 \in FlowState(f)
    BY <1>0 DEF FlowState
  <1>2. RingsFit(s1)
    BY <1>0 DEF RingsFit, FlowState
  <1>3. SettledInv(s1)
    BY <1>0 DEF SettledInv, FlowState
  <1>4. OrderInv(s1)
    BY <1>0 DEF OrderInv, Chain, Taking, Held, FlowState
  <1>5. RelayInv(s1)
    BY <1>0 DEF RelayInv, Relaying, Carried, SettledInv, FlowState, Chain
  <1>6. QED BY <1>1, <1>2, <1>3, <1>4, <1>5 DEF FlowInv

(* Recv: a request is taken from the ring.                                 *)
LEMMA RecvTakesKeeps ==
    ASSUME NEW f \in Flow, NEW s, FlowInv(f, s), s.main = "recv" /\ s.downIn # <<>>
    PROVE  FlowInv(f, [s EXCEPT !.main = "intercept", !.request = Head(s.downIn),
                                !.downIn = Tail(s.downIn)])
  <1> USE Bounds
  <1>0. s \in FlowState(f) /\ RingsFit(s) /\ SettledInv(s) /\ OrderInv(s) /\ RelayInv(s)
    BY DEF FlowInv
  <1> DEFINE q == Tail(s.downIn)
  <1> DEFINE h == Head(s.downIn)
  <1>a. /\ q \in Seq(1..Requests[f]) /\ h \in 1..Requests[f] /\ h = s.downIn[1]
        /\ s.downIn \in Seq(1..Requests[f]) /\ Len(s.downIn) \in Nat /\ Len(s.downIn) >= 1
        /\ Len(q) = Len(s.downIn) - 1
        /\ \A i \in 1..Len(q) : q[i] = s.downIn[i + 1]
    BY <1>0, Pop DEF FlowState
  <1>c. h \in 0..Requests[f]
    BY <1>a, Bounds
  <1> DEFINE s1 == [s EXCEPT !.main = "intercept", !.request = h, !.downIn = q]
  <1> HIDE DEF q, h
  <1>1. s1 \in FlowState(f)
    BY <1>0, <1>a, <1>c DEF FlowState
  <1>2. RingsFit(s1)
    BY <1>0, <1>a DEF RingsFit, FlowState
  <1>3. SettledInv(s1)
    BY <1>0 DEF SettledInv, FlowState
  <1>4. OrderInv(s1)
    <2>1. /\ s1.main = "intercept" /\ s1.served = s.served /\ s1.upOut = s.upOut
          /\ s1.downIn = q /\ s1.denied = s.denied /\ s1.request = h /\ s1.asked = s.asked
          /\ s1.downClosed = s.downClosed /\ s1.upClosed = s.upClosed
      BY <1>0 DEF FlowState
    <2>2. Taking(s) /\ Taking(s1) /\ Held(s) = 0 /\ Held(s1) = 1
      BY <2>1 DEF Taking, Held
    <2>3. /\ s.served \in Seq(Nat) /\ s.upOut \in Seq(Nat) /\ s.downIn \in Seq(Nat)
          /\ s.request \in Nat /\ s.asked \in Nat /\ s.denied \in Nat
      BY <1>0, SeqNat DEF FlowState
    <2>4. Chain(s.served, s.upOut, 0, s.request, s.downIn, s.asked, TRUE)
      BY <1>0, <2>2 DEF OrderInv, Chain
    <2>5. Chain(s.served, s.upOut, 1, h, q, s.asked, TRUE)
      BY <2>2, <2>3, <2>4, ChainTake DEF q, h
    <2> HIDE DEF s1
    <2>6. Chain(s1.served, s1.upOut, Held(s1), s1.request, s1.downIn, s1.asked, Taking(s1))
      BY <2>1, <2>2, <2>5 DEF Chain
    <2>7. s1.denied # 0 => Len(s1.served) + Len(s1.upOut) < s1.denied
      BY <1>0, <2>1, <2>2, <2>5 DEF OrderInv
    <2>8. IF Taking(s1) THEN s1.denied = 0 ELSE s1.denied # 0 \/ s1.downClosed \/ s1.upClosed
      BY <1>0, <2>1, <2>2 DEF OrderInv
    <2>9. QED BY <2>6, <2>7, <2>8 DEF OrderInv
  <1>5. RelayInv(s1)
    BY <1>0, <1>a DEF RelayInv, Relaying, Carried, FlowState, Chain
  <1>6. QED BY <1>1, <1>2, <1>3, <1>4, <1>5 DEF FlowInv, q, h

(* Recv: the flow is closed.                                               *)
LEMMA RecvEndsKeeps ==
    ASSUME NEW f \in Flow, NEW s, FlowInv(f, s), s.main = "recv" /\ s.downClosed
    PROVE  FlowInv(f, [s EXCEPT !.main = "closing"])
  <1> USE Bounds
  <1>0. s \in FlowState(f) /\ RingsFit(s) /\ SettledInv(s) /\ OrderInv(s) /\ RelayInv(s)
    BY DEF FlowInv
  <1> DEFINE s1 == [s EXCEPT !.main = "closing"]
  <1>1. s1 \in FlowState(f)
    BY <1>0 DEF FlowState
  <1>2. RingsFit(s1)
    BY <1>0 DEF RingsFit, FlowState
  <1>3. SettledInv(s1)
    BY <1>0 DEF SettledInv, FlowState
  <1>4. OrderInv(s1)
    BY <1>0 DEF OrderInv, Chain, Taking, Held, FlowState
  <1>5. RelayInv(s1)
    BY <1>0 DEF RelayInv, Relaying, Carried, FlowState, Chain
  <1>6. QED BY <1>1, <1>2, <1>3, <1>4, <1>5 DEF FlowInv

(* Intercept: the handler forwards.                                        *)
LEMMA ForwardKeeps ==
    ASSUME NEW f \in Flow, NEW s, FlowInv(f, s), s.main = "intercept"
    PROVE  FlowInv(f, [s EXCEPT !.main = "send"])
  <1> USE Bounds
  <1>0. s \in FlowState(f) /\ RingsFit(s) /\ SettledInv(s) /\ OrderInv(s) /\ RelayInv(s)
    BY DEF FlowInv
  <1> DEFINE s1 == [s EXCEPT !.main = "send"]
  <1>1. s1 \in FlowState(f)
    BY <1>0 DEF FlowState
  <1>2. RingsFit(s1)
    BY <1>0 DEF RingsFit, FlowState
  <1>3. SettledInv(s1)
    BY <1>0 DEF SettledInv, FlowState
  <1>4. OrderInv(s1)
    BY <1>0 DEF OrderInv, Chain, Taking, Held, FlowState
  <1>5. RelayInv(s1)
    BY <1>0 DEF RelayInv, Relaying, Carried, FlowState, Chain
  <1>6. QED BY <1>1, <1>2, <1>3, <1>4, <1>5 DEF FlowInv

(* Intercept: the handler denies.                                          *)
LEMMA DenyKeeps ==
    ASSUME NEW f \in Flow, NEW s, FlowInv(f, s), s.main = "intercept"
    PROVE  FlowInv(f, [s EXCEPT !.main = "closing", !.denied = s.request,
                                !.on_close = s.on_close + 0])
  <1> USE Bounds
  <1>0. s \in FlowState(f) /\ RingsFit(s) /\ SettledInv(s) /\ OrderInv(s) /\ RelayInv(s)
    BY DEF FlowInv
  <1> DEFINE x == s.on_close + 0
  <1>x. x \in 0..1
    BY <1>0 DEF SettledInv
  <1> DEFINE s1 == [s EXCEPT !.main = "closing", !.denied = s.request, !.on_close = s.on_close + 0]
  <1>1. s1 \in FlowState(f)
    <2> HIDE DEF x
    <2>1. [s EXCEPT !.main = "closing", !.denied = s.request, !.on_close = x] \in FlowState(f)
      BY <1>0, <1>x DEF FlowState
    <2>2. QED BY <2>1 DEF x
  <1>2. RingsFit(s1)
    BY <1>0 DEF RingsFit, FlowState
  <1>3. SettledInv(s1)
    BY <1>0 DEF SettledInv, FlowState
  <1>4. OrderInv(s1)
    BY <1>0 DEF OrderInv, Chain, Taking, Held, FlowState
  <1>5. RelayInv(s1)
    BY <1>0 DEF RelayInv, Relaying, Carried, FlowState, Chain
  <1>6. QED BY <1>1, <1>2, <1>3, <1>4, <1>5 DEF FlowInv

(* Send: the request goes into the ring to the node.                       *)
LEMMA SendPassesKeeps ==
    ASSUME NEW f \in Flow, NEW s, FlowInv(f, s),
           s.main = "send" /\ ~s.upClosed /\ Len(s.upOut) < RingSlots
    PROVE  FlowInv(f, [s EXCEPT !.main = "recv", !.upOut = Append(s.upOut, s.request)])
  <1> USE Bounds
  <1>0. s \in FlowState(f) /\ RingsFit(s) /\ SettledInv(s) /\ OrderInv(s) /\ RelayInv(s)
    BY DEF FlowInv
  <1> DEFINE p == Append(s.upOut, s.request)
  <1>a. s.request \in 1..Requests[f]
    BY <1>0 DEF OrderInv, Chain, Held, Taking, FlowState
  <1>b. /\ p \in Seq(1..Requests[f]) /\ s.upOut \in Seq(1..Requests[f])
        /\ Len(s.upOut) \in Nat /\ Len(p) = Len(s.upOut) + 1
        /\ \A i \in 1..Len(s.upOut) : p[i] = s.upOut[i]
        /\ p[Len(s.upOut) + 1] = s.request
    BY <1>0, <1>a, Push DEF FlowState
  <1> DEFINE s1 == [s EXCEPT !.main = "recv", !.upOut = p]
  <1> HIDE DEF p
  <1>1. s1 \in FlowState(f)
    BY <1>0, <1>a, <1>b DEF FlowState
  <1>2. RingsFit(s1)
    BY <1>0, <1>a, <1>b DEF RingsFit, FlowState
  <1>3. SettledInv(s1)
    BY <1>0 DEF SettledInv, FlowState
  <1>4. OrderInv(s1)
    <2>1. /\ s1.main = "recv" /\ s1.served = s.served /\ s1.upOut = p
          /\ s1.downIn = s.downIn /\ s1.denied = s.denied /\ s1.request = s.request
          /\ s1.asked = s.asked /\ s1.downClosed = s.downClosed /\ s1.upClosed = s.upClosed
      BY <1>0 DEF FlowState
    <2>2. Taking(s) /\ Taking(s1) /\ Held(s) = 1 /\ Held(s1) = 0
      BY <2>1 DEF Taking, Held
    <2>3. /\ s.served \in Seq(Nat) /\ s.upOut \in Seq(Nat) /\ s.downIn \in Seq(Nat)
          /\ s.request \in Nat /\ s.asked \in Nat /\ s.denied \in Nat
      BY <1>0, SeqNat DEF FlowState
    <2>4. Chain(s.served, s.upOut, 1, s.request, s.downIn, s.asked, TRUE)
      BY <1>0, <2>2 DEF OrderInv, Chain
    <2>5. Chain(s.served, p, 0, s.request, s.downIn, s.asked, TRUE)
      <3>1. Chain(s.served, Append(s.upOut, s.request), 0, s.request, s.downIn, s.asked, TRUE)
        BY <2>3, <2>4, ChainPass
      <3>2. QED BY <3>1 DEF p
    <2> HIDE DEF s1
    <2>6. Chain(s1.served, s1.upOut, Held(s1), s1.request, s1.downIn, s1.asked, Taking(s1))
      BY <2>1, <2>2, <2>5 DEF Chain
    <2>7. s1.denied # 0 => Len(s1.served) + Len(s1.upOut) < s1.denied
      BY <1>0, <2>1, <2>2, <2>5 DEF OrderInv
    <2>8. IF Taking(s1) THEN s1.denied = 0 ELSE s1.denied # 0 \/ s1.downClosed \/ s1.upClosed
      BY <1>0, <2>1, <2>2 DEF OrderInv
    <2>9. QED BY <2>6, <2>7, <2>8 DEF OrderInv
  <1>5. RelayInv(s1)
    BY <1>0, <1>a, <1>b DEF RelayInv, Relaying, Carried, FlowState, Chain
  <1>6. QED BY <1>1, <1>2, <1>3, <1>4, <1>5 DEF FlowInv, p

(* Send: the flow is closed.                                               *)
LEMMA SendFailsKeeps ==
    ASSUME NEW f \in Flow, NEW s, FlowInv(f, s), s.main = "send" /\ s.upClosed
    PROVE  FlowInv(f, [s EXCEPT !.main = "closing"])
  <1> USE Bounds
  <1>0. s \in FlowState(f) /\ RingsFit(s) /\ SettledInv(s) /\ OrderInv(s) /\ RelayInv(s)
    BY DEF FlowInv
  <1> DEFINE s1 == [s EXCEPT !.main = "closing"]
  <1>1. s1 \in FlowState(f)
    BY <1>0 DEF FlowState
  <1>2. RingsFit(s1)
    BY <1>0 DEF RingsFit, FlowState
  <1>3. SettledInv(s1)
    BY <1>0 DEF SettledInv, FlowState
  <1>4. OrderInv(s1)
    BY <1>0 DEF OrderInv, Chain, Taking, Held, FlowState
  <1>5. RelayInv(s1)
    BY <1>0 DEF RelayInv, Relaying, Carried, FlowState, Chain
  <1>6. QED BY <1>1, <1>2, <1>3, <1>4, <1>5 DEF FlowInv

(* OnClose: the handler is told.                                           *)
LEMMA OnCloseKeeps ==
    ASSUME NEW f \in Flow, NEW s, FlowInv(f, s), s.main = "closing"
    PROVE  FlowInv(f, [s EXCEPT !.main = "close", !.on_close = s.on_close + 1])
  <1> USE Bounds
  <1>0. s \in FlowState(f) /\ RingsFit(s) /\ SettledInv(s) /\ OrderInv(s) /\ RelayInv(s)
    BY DEF FlowInv
  <1> DEFINE x == s.on_close + 1
  <1>x. x \in 0..1
    BY <1>0 DEF SettledInv
  <1> DEFINE s1 == [s EXCEPT !.main = "close", !.on_close = s.on_close + 1]
  <1>1. s1 \in FlowState(f)
    <2> HIDE DEF x
    <2>1. [s EXCEPT !.main = "close", !.on_close = x] \in FlowState(f)
      BY <1>0, <1>x DEF FlowState
    <2>2. QED BY <2>1 DEF x
  <1>2. RingsFit(s1)
    BY <1>0 DEF RingsFit, FlowState
  <1>3. SettledInv(s1)
    BY <1>0 DEF SettledInv, FlowState
  <1>4. OrderInv(s1)
    BY <1>0 DEF OrderInv, Chain, Taking, Held, FlowState
  <1>5. RelayInv(s1)
    BY <1>0 DEF RelayInv, Relaying, Carried, FlowState, Chain
  <1>6. QED BY <1>1, <1>2, <1>3, <1>4, <1>5 DEF FlowInv

(* Close: both ends are closed.                                            *)
LEMMA CloseKeeps ==
    ASSUME NEW f \in Flow, NEW s, FlowInv(f, s), s.main = "close"
    PROVE  FlowInv(f, [s EXCEPT !.main = "join", !.downClosed = TRUE, !.upClosed = TRUE])
  <1> USE Bounds
  <1>0. s \in FlowState(f) /\ RingsFit(s) /\ SettledInv(s) /\ OrderInv(s) /\ RelayInv(s)
    BY DEF FlowInv
  <1> DEFINE s1 == [s EXCEPT !.main = "join", !.downClosed = TRUE, !.upClosed = TRUE]
  <1>1. s1 \in FlowState(f)
    BY <1>0 DEF FlowState
  <1>2. RingsFit(s1)
    BY <1>0 DEF RingsFit, FlowState
  <1>3. SettledInv(s1)
    BY <1>0 DEF SettledInv, FlowState
  <1>4. OrderInv(s1)
    BY <1>0 DEF OrderInv, Chain, Taking, Held, FlowState
  <1>5. RelayInv(s1)
    BY <1>0 DEF RelayInv, Relaying, Carried, FlowState, Chain
  <1>6. QED BY <1>1, <1>2, <1>3, <1>4, <1>5 DEF FlowInv

(* Join: the relay thread is gone.                                         *)
LEMMA JoinKeeps ==
    ASSUME NEW f \in Flow, NEW s, FlowInv(f, s),
           s.main = "join" /\ s.relay \in {"done", "unspawned"}
    PROVE  FlowInv(f, [s EXCEPT !.main = "done"])
  <1> USE Bounds
  <1>0. s \in FlowState(f) /\ RingsFit(s) /\ SettledInv(s) /\ OrderInv(s) /\ RelayInv(s)
    BY DEF FlowInv
  <1> DEFINE s1 == [s EXCEPT !.main = "done"]
  <1>1. s1 \in FlowState(f)
    BY <1>0 DEF FlowState
  <1>2. RingsFit(s1)
    BY <1>0 DEF RingsFit, FlowState
  <1>3. SettledInv(s1)
    BY <1>0 DEF SettledInv, FlowState
  <1>4. OrderInv(s1)
    BY <1>0 DEF OrderInv, Chain, Taking, Held, FlowState
  <1>5. RelayInv(s1)
    BY <1>0 DEF RelayInv, Relaying, Carried, FlowState, Chain
  <1>6. QED BY <1>1, <1>2, <1>3, <1>4, <1>5 DEF FlowInv

(* RelayRecv: a frame is taken from the ring.                              *)
LEMMA RelayTakesKeeps ==
    ASSUME NEW f \in Flow, NEW s, FlowInv(f, s), s.relay = "recv" /\ s.upIn # <<>>
    PROVE  FlowInv(f, [s EXCEPT !.relay = "send", !.response = Head(s.upIn), !.upIn = Tail(s.upIn)])
  <1> USE Bounds
  <1>0. s \in FlowState(f) /\ RingsFit(s) /\ SettledInv(s) /\ OrderInv(s) /\ RelayInv(s)
    BY DEF FlowInv
  <1> DEFINE q == Tail(s.upIn)
  <1> DEFINE h == Head(s.upIn)
  <1>a. /\ q \in Seq(1..Responses[f]) /\ h \in 1..Responses[f] /\ h = s.upIn[1]
        /\ s.upIn \in Seq(1..Responses[f]) /\ Len(s.upIn) \in Nat /\ Len(s.upIn) >= 1
        /\ Len(q) = Len(s.upIn) - 1
        /\ \A i \in 1..Len(q) : q[i] = s.upIn[i + 1]
    BY <1>0, Pop DEF FlowState
  <1>c. h \in 0..Responses[f]
    BY <1>a, Bounds
  <1> DEFINE s1 == [s EXCEPT !.relay = "send", !.response = h, !.upIn = q]
  <1> HIDE DEF q, h
  <1>1. s1 \in FlowState(f)
    BY <1>0, <1>a, <1>c DEF FlowState
  <1>2. RingsFit(s1)
    BY <1>0, <1>a DEF RingsFit, FlowState
  <1>3. SettledInv(s1)
    BY <1>0 DEF SettledInv, FlowState
  <1>4. OrderInv(s1)
    BY <1>0, <1>a DEF OrderInv, Chain, Taking, Held, FlowState
  <1>5. RelayInv(s1)
    <2>1. /\ s1.relay = "send" /\ s1.received = s.received /\ s1.downOut = s.downOut
          /\ s1.upIn = q /\ s1.response = h /\ s1.emitted = s.emitted
          /\ s1.downClosed = s.downClosed
      BY <1>0 DEF FlowState
    <2>2. Relaying(s) /\ Relaying(s1) /\ Carried(s) = 0 /\ Carried(s1) = 1
      BY <2>1 DEF Relaying, Carried
    <2>3. /\ s.received \in Seq(Nat) /\ s.downOut \in Seq(Nat) /\ s.upIn \in Seq(Nat)
          /\ s.response \in Nat /\ s.emitted \in Nat
      BY <1>0, SeqNat DEF FlowState
    <2>4. Chain(s.received, s.downOut, 0, s.response, s.upIn, s.emitted, TRUE)
      BY <1>0, <2>2 DEF RelayInv, Chain
    <2>5. Chain(s.received, s.downOut, 1, h, q, s.emitted, TRUE)
      BY <2>2, <2>3, <2>4, ChainTake DEF q, h
    <2> HIDE DEF s1
    <2>6. Chain(s1.received, s1.downOut, Carried(s1), s1.response, s1.upIn, s1.emitted, Relaying(s1))
      BY <2>1, <2>2, <2>5 DEF Chain
    <2>7. QED BY <2>6 DEF RelayInv
  <1>6. QED BY <1>1, <1>2, <1>3, <1>4, <1>5 DEF FlowInv, q, h

(* RelayRecv: the flow is closed.                                          *)
LEMMA RelayRecvEndsKeeps ==
    ASSUME NEW f \in Flow, NEW s, FlowInv(f, s), s.relay = "recv" /\ s.upClosed
    PROVE  FlowInv(f, [s EXCEPT !.relay = "close"])
  <1> USE Bounds
  <1>0. s \in FlowState(f) /\ RingsFit(s) /\ SettledInv(s) /\ OrderInv(s) /\ RelayInv(s)
    BY DEF FlowInv
  <1> DEFINE s1 == [s EXCEPT !.relay = "close"]
  <1>1. s1 \in FlowState(f)
    BY <1>0 DEF FlowState
  <1>2. RingsFit(s1)
    BY <1>0 DEF RingsFit, FlowState
  <1>3. SettledInv(s1)
    BY <1>0 DEF SettledInv, FlowState
  <1>4. OrderInv(s1)
    BY <1>0 DEF OrderInv, Chain, Taking, Held, FlowState
  <1>5. RelayInv(s1)
    BY <1>0 DEF RelayInv, Relaying, Carried, FlowState, Chain
  <1>6. QED BY <1>1, <1>2, <1>3, <1>4, <1>5 DEF FlowInv

(* RelaySend: the frame goes into the ring to the app.                     *)
LEMMA RelayPassesKeeps ==
    ASSUME NEW f \in Flow, NEW s, FlowInv(f, s),
           s.relay = "send" /\ ~s.downClosed /\ Len(s.downOut) < RingSlots
    PROVE  FlowInv(f, [s EXCEPT !.relay = "recv", !.downOut = Append(s.downOut, s.response)])
  <1> USE Bounds
  <1>0. s \in FlowState(f) /\ RingsFit(s) /\ SettledInv(s) /\ OrderInv(s) /\ RelayInv(s)
    BY DEF FlowInv
  <1> DEFINE p == Append(s.downOut, s.response)
  <1>a. s.response \in 1..Responses[f]
    BY <1>0 DEF RelayInv, Chain, Relaying, Carried, FlowState
  <1>b. /\ p \in Seq(1..Responses[f]) /\ s.downOut \in Seq(1..Responses[f])
        /\ Len(s.downOut) \in Nat /\ Len(p) = Len(s.downOut) + 1
        /\ \A i \in 1..Len(s.downOut) : p[i] = s.downOut[i]
        /\ p[Len(s.downOut) + 1] = s.response
    BY <1>0, <1>a, Push DEF FlowState
  <1> DEFINE s1 == [s EXCEPT !.relay = "recv", !.downOut = p]
  <1> HIDE DEF p
  <1>1. s1 \in FlowState(f)
    BY <1>0, <1>a, <1>b DEF FlowState
  <1>2. RingsFit(s1)
    BY <1>0, <1>a, <1>b DEF RingsFit, FlowState
  <1>3. SettledInv(s1)
    BY <1>0 DEF SettledInv, FlowState
  <1>4. OrderInv(s1)
    BY <1>0, <1>a, <1>b DEF OrderInv, Chain, Taking, Held, FlowState
  <1>5. RelayInv(s1)
    <2>1. /\ s1.relay = "recv" /\ s1.received = s.received /\ s1.downOut = p
          /\ s1.upIn = s.upIn /\ s1.response = s.response /\ s1.emitted = s.emitted
          /\ s1.downClosed = s.downClosed
      BY <1>0 DEF FlowState
    <2>2. Relaying(s) /\ Relaying(s1) /\ Carried(s) = 1 /\ Carried(s1) = 0
      BY <2>1 DEF Relaying, Carried
    <2>3. /\ s.received \in Seq(Nat) /\ s.downOut \in Seq(Nat) /\ s.upIn \in Seq(Nat)
          /\ s.response \in Nat /\ s.emitted \in Nat
      BY <1>0, SeqNat DEF FlowState
    <2>4. Chain(s.received, s.downOut, 1, s.response, s.upIn, s.emitted, TRUE)
      BY <1>0, <2>2 DEF RelayInv, Chain
    <2>5. Chain(s.received, p, 0, s.response, s.upIn, s.emitted, TRUE)
      <3>1. Chain(s.received, Append(s.downOut, s.response), 0, s.response, s.upIn, s.emitted, TRUE)
        BY <2>3, <2>4, ChainPass
      <3>2. QED BY <3>1 DEF p
    <2> HIDE DEF s1
    <2>6. Chain(s1.received, s1.downOut, Carried(s1), s1.response, s1.upIn, s1.emitted, Relaying(s1))
      BY <2>1, <2>2, <2>5 DEF Chain
    <2>7. QED BY <2>6 DEF RelayInv
  <1>6. QED BY <1>1, <1>2, <1>3, <1>4, <1>5 DEF FlowInv, p

(* RelaySend: the flow is closed.                                          *)
LEMMA RelaySendFailsKeeps ==
    ASSUME NEW f \in Flow, NEW s, FlowInv(f, s), s.relay = "send" /\ s.downClosed
    PROVE  FlowInv(f, [s EXCEPT !.relay = "close"])
  <1> USE Bounds
  <1>0. s \in FlowState(f) /\ RingsFit(s) /\ SettledInv(s) /\ OrderInv(s) /\ RelayInv(s)
    BY DEF FlowInv
  <1> DEFINE s1 == [s EXCEPT !.relay = "close"]
  <1>1. s1 \in FlowState(f)
    BY <1>0 DEF FlowState
  <1>2. RingsFit(s1)
    BY <1>0 DEF RingsFit, FlowState
  <1>3. SettledInv(s1)
    BY <1>0 DEF SettledInv, FlowState
  <1>4. OrderInv(s1)
    BY <1>0 DEF OrderInv, Chain, Taking, Held, FlowState
  <1>5. RelayInv(s1)
    BY <1>0 DEF RelayInv, Relaying, Carried, FlowState, Chain
  <1>6. QED BY <1>1, <1>2, <1>3, <1>4, <1>5 DEF FlowInv

(* RelayClose: both ends are closed.                                       *)
LEMMA RelayCloseKeeps ==
    ASSUME NEW f \in Flow, NEW s, FlowInv(f, s), s.relay = "close"
    PROVE  FlowInv(f, [s EXCEPT !.relay = "done", !.downClosed = TRUE, !.upClosed = TRUE])
  <1> USE Bounds
  <1>0. s \in FlowState(f) /\ RingsFit(s) /\ SettledInv(s) /\ OrderInv(s) /\ RelayInv(s)
    BY DEF FlowInv
  <1> DEFINE s1 == [s EXCEPT !.relay = "done", !.downClosed = TRUE, !.upClosed = TRUE]
  <1>1. s1 \in FlowState(f)
    BY <1>0 DEF FlowState
  <1>2. RingsFit(s1)
    BY <1>0 DEF RingsFit, FlowState
  <1>3. SettledInv(s1)
    BY <1>0 DEF SettledInv, FlowState
  <1>4. OrderInv(s1)
    BY <1>0 DEF OrderInv, Chain, Taking, Held, FlowState
  <1>5. RelayInv(s1)
    BY <1>0 DEF RelayInv, Relaying, Carried, FlowState, Chain
  <1>6. QED BY <1>1, <1>2, <1>3, <1>4, <1>5 DEF FlowInv

(* AppAsk: the app sends a request.                                        *)
LEMMA AppAskKeeps ==
    ASSUME NEW f \in Flow, NEW s, FlowInv(f, s),
           ~s.downClosed /\ s.asked < Requests[f] /\ Len(s.downIn) < RingSlots
    PROVE  FlowInv(f, [s EXCEPT !.asked = s.asked + 1, !.downIn = Append(s.downIn, s.asked + 1)])
  <1> USE Bounds
  <1>0. s \in FlowState(f) /\ RingsFit(s) /\ SettledInv(s) /\ OrderInv(s) /\ RelayInv(s)
    BY DEF FlowInv
  <1> DEFINE p == Append(s.downIn, s.asked + 1)
  <1>a. s.asked + 1 \in 1..Requests[f]
    BY <1>0 DEF FlowState
  <1>b. /\ p \in Seq(1..Requests[f]) /\ s.downIn \in Seq(1..Requests[f])
        /\ Len(s.downIn) \in Nat /\ Len(p) = Len(s.downIn) + 1
        /\ \A i \in 1..Len(s.downIn) : p[i] = s.downIn[i]
        /\ p[Len(s.downIn) + 1] = s.asked + 1
    BY <1>0, <1>a, Push DEF FlowState
  <1> DEFINE x == s.asked + 1
  <1>x. x \in 0..Requests[f]
    BY <1>0 DEF FlowState
  <1> DEFINE s1 == [s EXCEPT !.asked = s.asked + 1, !.downIn = p]
  <1> HIDE DEF p
  <1>1. s1 \in FlowState(f)
    <2> HIDE DEF x
    <2>1. [s EXCEPT !.asked = x, !.downIn = p] \in FlowState(f)
      BY <1>0, <1>a, <1>b, <1>x DEF FlowState
    <2>2. QED BY <2>1 DEF x
  <1>2. RingsFit(s1)
    BY <1>0, <1>a, <1>b DEF RingsFit, FlowState
  <1>3. SettledInv(s1)
    BY <1>0 DEF SettledInv, FlowState
  <1>4. OrderInv(s1)
    <2>1. /\ s1.main = s.main /\ s1.served = s.served /\ s1.upOut = s.upOut
          /\ s1.downIn = p /\ s1.denied = s.denied /\ s1.request = s.request
          /\ s1.asked = s.asked + 1 /\ s1.downClosed = s.downClosed
          /\ s1.upClosed = s.upClosed
      BY <1>0 DEF FlowState
    <2>2. Taking(s1) = Taking(s) /\ Held(s1) = Held(s) /\ Held(s) \in {0, 1}
      BY <2>1 DEF Taking, Held
    <2>3. /\ s.served \in Seq(Nat) /\ s.upOut \in Seq(Nat) /\ s.downIn \in Seq(Nat)
          /\ s.request \in Nat /\ s.asked \in Nat /\ s.denied \in Nat
      BY <1>0, SeqNat DEF FlowState
    <2>4. Chain(s.served, s.upOut, Held(s), s.request, s.downIn, s.asked, Taking(s))
      BY <1>0, <2>2 DEF OrderInv, Chain
    <2>5. Chain(s.served, s.upOut, Held(s), s.request, p, s.asked + 1, Taking(s))
      BY <2>2, <2>3, <2>4, ChainSend DEF p
    <2> HIDE DEF s1
    <2>6. Chain(s1.served, s1.upOut, Held(s1), s1.request, s1.downIn, s1.asked, Taking(s1))
      BY <2>1, <2>2, <2>5 DEF Chain
    <2>7. s1.denied # 0 => Len(s1.served) + Len(s1.upOut) < s1.denied
      BY <1>0, <2>1, <2>2, <2>5 DEF OrderInv
    <2>8. IF Taking(s1) THEN s1.denied = 0 ELSE s1.denied # 0 \/ s1.downClosed \/ s1.upClosed
      BY <1>0, <2>1, <2>2 DEF OrderInv
    <2>9. QED BY <2>6, <2>7, <2>8 DEF OrderInv
  <1>5. RelayInv(s1)
    BY <1>0, <1>a, <1>b DEF RelayInv, Relaying, Carried, FlowState, Chain
  <1>6. QED BY <1>1, <1>2, <1>3, <1>4, <1>5 DEF FlowInv, p

(* AppReceive: the app reads a frame.                                      *)
LEMMA AppReceiveKeeps ==
    ASSUME NEW f \in Flow, NEW s, FlowInv(f, s), s.downOut # <<>>
    PROVE  FlowInv(f, [s EXCEPT !.received = Append(s.received, Head(s.downOut)),
                                !.downOut = Tail(s.downOut)])
  <1> USE Bounds
  <1>0. s \in FlowState(f) /\ RingsFit(s) /\ SettledInv(s) /\ OrderInv(s) /\ RelayInv(s)
    BY DEF FlowInv
  <1> DEFINE q == Tail(s.downOut)
  <1> DEFINE h == Head(s.downOut)
  <1>a. /\ q \in Seq(1..Responses[f]) /\ h \in 1..Responses[f] /\ h = s.downOut[1]
        /\ s.downOut \in Seq(1..Responses[f]) /\ Len(s.downOut) \in Nat /\ Len(s.downOut) >= 1
        /\ Len(q) = Len(s.downOut) - 1
        /\ \A i \in 1..Len(q) : q[i] = s.downOut[i + 1]
    BY <1>0, Pop DEF FlowState
  <1> DEFINE p == Append(s.received, h)
  <1>b. /\ p \in Seq(1..Responses[f]) /\ s.received \in Seq(1..Responses[f])
        /\ Len(s.received) \in Nat /\ Len(p) = Len(s.received) + 1
        /\ \A i \in 1..Len(s.received) : p[i] = s.received[i]
        /\ p[Len(s.received) + 1] = h
    BY <1>0, <1>a, Push DEF FlowState
  <1> DEFINE s1 == [s EXCEPT !.received = p, !.downOut = q]
  <1> HIDE DEF q, h, p
  <1>1. s1 \in FlowState(f)
    BY <1>0, <1>a, <1>b DEF FlowState
  <1>2. RingsFit(s1)
    BY <1>0, <1>a, <1>b DEF RingsFit, FlowState
  <1>3. SettledInv(s1)
    BY <1>0 DEF SettledInv, FlowState
  <1>4. OrderInv(s1)
    BY <1>0, <1>a, <1>b DEF OrderInv, Chain, Taking, Held, FlowState
  <1>5. RelayInv(s1)
    <2>1. /\ s1.relay = s.relay /\ s1.received = p /\ s1.downOut = q /\ s1.upIn = s.upIn
          /\ s1.response = s.response /\ s1.emitted = s.emitted
          /\ s1.downClosed = s.downClosed
      BY <1>0 DEF FlowState
    <2>2. Relaying(s1) = Relaying(s) /\ Carried(s1) = Carried(s) /\ Carried(s) \in {0, 1}
      BY <2>1 DEF Relaying, Carried
    <2>3. /\ s.received \in Seq(Nat) /\ s.downOut \in Seq(Nat) /\ s.upIn \in Seq(Nat)
          /\ s.response \in Nat /\ s.emitted \in Nat
      BY <1>0, SeqNat DEF FlowState
    <2>4. Chain(s.received, s.downOut, Carried(s), s.response, s.upIn, s.emitted, Relaying(s))
      BY <1>0, <2>2 DEF RelayInv, Chain
    <2>5. Chain(p, q, Carried(s), s.response, s.upIn, s.emitted, Relaying(s))
      BY <2>2, <2>3, <2>4, ChainRead DEF p, q, h
    <2> HIDE DEF s1
    <2>6. Chain(s1.received, s1.downOut, Carried(s1), s1.response, s1.upIn, s1.emitted, Relaying(s1))
      BY <2>1, <2>2, <2>5 DEF Chain
    <2>7. QED BY <2>6 DEF RelayInv
  <1>6. QED BY <1>1, <1>2, <1>3, <1>4, <1>5 DEF FlowInv, q, h, p

(* AppClose: the app closes its end.                                       *)
LEMMA AppCloseKeeps ==
    ASSUME NEW f \in Flow, NEW s, FlowInv(f, s), ~s.downClosed
    PROVE  FlowInv(f, [s EXCEPT !.downClosed = TRUE])
  <1> USE Bounds
  <1>0. s \in FlowState(f) /\ RingsFit(s) /\ SettledInv(s) /\ OrderInv(s) /\ RelayInv(s)
    BY DEF FlowInv
  <1> DEFINE s1 == [s EXCEPT !.downClosed = TRUE]
  <1>1. s1 \in FlowState(f)
    BY <1>0 DEF FlowState
  <1>2. RingsFit(s1)
    BY <1>0 DEF RingsFit, FlowState
  <1>3. SettledInv(s1)
    BY <1>0 DEF SettledInv, FlowState
  <1>4. OrderInv(s1)
    BY <1>0 DEF OrderInv, Chain, Taking, Held, FlowState
  <1>5. RelayInv(s1)
    BY <1>0 DEF RelayInv, Relaying, Carried, FlowState, Chain
  <1>6. QED BY <1>1, <1>2, <1>3, <1>4, <1>5 DEF FlowInv

(* NodeServe: the node reads a request.                                    *)
LEMMA NodeServeKeeps ==
    ASSUME NEW f \in Flow, NEW s, FlowInv(f, s), s.upOut # <<>>
    PROVE  FlowInv(f, [s EXCEPT !.served = Append(s.served, Head(s.upOut)),
                                !.upOut = Tail(s.upOut)])
  <1> USE Bounds
  <1>0. s \in FlowState(f) /\ RingsFit(s) /\ SettledInv(s) /\ OrderInv(s) /\ RelayInv(s)
    BY DEF FlowInv
  <1> DEFINE q == Tail(s.upOut)
  <1> DEFINE h == Head(s.upOut)
  <1>a. /\ q \in Seq(1..Requests[f]) /\ h \in 1..Requests[f] /\ h = s.upOut[1]
        /\ s.upOut \in Seq(1..Requests[f]) /\ Len(s.upOut) \in Nat /\ Len(s.upOut) >= 1
        /\ Len(q) = Len(s.upOut) - 1
        /\ \A i \in 1..Len(q) : q[i] = s.upOut[i + 1]
    BY <1>0, Pop DEF FlowState
  <1> DEFINE p == Append(s.served, h)
  <1>b. /\ p \in Seq(1..Requests[f]) /\ s.served \in Seq(1..Requests[f])
        /\ Len(s.served) \in Nat /\ Len(p) = Len(s.served) + 1
        /\ \A i \in 1..Len(s.served) : p[i] = s.served[i]
        /\ p[Len(s.served) + 1] = h
    BY <1>0, <1>a, Push DEF FlowState
  <1> DEFINE s1 == [s EXCEPT !.served = p, !.upOut = q]
  <1> HIDE DEF q, h, p
  <1>1. s1 \in FlowState(f)
    BY <1>0, <1>a, <1>b DEF FlowState
  <1>2. RingsFit(s1)
    BY <1>0, <1>a, <1>b DEF RingsFit, FlowState
  <1>3. SettledInv(s1)
    BY <1>0 DEF SettledInv, FlowState
  <1>4. OrderInv(s1)
    <2>1. /\ s1.main = s.main /\ s1.served = p /\ s1.upOut = q /\ s1.downIn = s.downIn
          /\ s1.denied = s.denied /\ s1.request = s.request /\ s1.asked = s.asked
          /\ s1.downClosed = s.downClosed /\ s1.upClosed = s.upClosed
      BY <1>0 DEF FlowState
    <2>2. Taking(s1) = Taking(s) /\ Held(s1) = Held(s) /\ Held(s) \in {0, 1}
      BY <2>1 DEF Taking, Held
    <2>3. /\ s.served \in Seq(Nat) /\ s.upOut \in Seq(Nat) /\ s.downIn \in Seq(Nat)
          /\ s.request \in Nat /\ s.asked \in Nat /\ s.denied \in Nat
      BY <1>0, SeqNat DEF FlowState
    <2>4. Chain(s.served, s.upOut, Held(s), s.request, s.downIn, s.asked, Taking(s))
      BY <1>0, <2>2 DEF OrderInv, Chain
    <2>5. Chain(p, q, Held(s), s.request, s.downIn, s.asked, Taking(s)) /\ Len(p) + Len(q) = Len(s.served) + Len(s.upOut)
      BY <2>2, <2>3, <2>4, ChainRead DEF p, q, h
    <2> HIDE DEF s1
    <2>6. Chain(s1.served, s1.upOut, Held(s1), s1.request, s1.downIn, s1.asked, Taking(s1))
      BY <2>1, <2>2, <2>5 DEF Chain
    <2>7. s1.denied # 0 => Len(s1.served) + Len(s1.upOut) < s1.denied
      BY <1>0, <2>1, <2>2, <2>5 DEF OrderInv
    <2>8. IF Taking(s1) THEN s1.denied = 0 ELSE s1.denied # 0 \/ s1.downClosed \/ s1.upClosed
      BY <1>0, <2>1, <2>2 DEF OrderInv
    <2>9. QED BY <2>6, <2>7, <2>8 DEF OrderInv
  <1>5. RelayInv(s1)
    BY <1>0, <1>a, <1>b DEF RelayInv, Relaying, Carried, FlowState, Chain
  <1>6. QED BY <1>1, <1>2, <1>3, <1>4, <1>5 DEF FlowInv, q, h, p

(* NodeEmit: the node sends a frame.                                       *)
LEMMA NodeEmitKeeps ==
    ASSUME NEW f \in Flow, NEW s, FlowInv(f, s),
           ~s.upClosed /\ s.emitted < Responses[f] /\ Len(s.upIn) < RingSlots
    PROVE  FlowInv(f, [s EXCEPT !.emitted = s.emitted + 1, !.upIn = Append(s.upIn, s.emitted + 1)])
  <1> USE Bounds
  <1>0. s \in FlowState(f) /\ RingsFit(s) /\ SettledInv(s) /\ OrderInv(s) /\ RelayInv(s)
    BY DEF FlowInv
  <1> DEFINE p == Append(s.upIn, s.emitted + 1)
  <1>a. s.emitted + 1 \in 1..Responses[f]
    BY <1>0 DEF FlowState
  <1>b. /\ p \in Seq(1..Responses[f]) /\ s.upIn \in Seq(1..Responses[f])
        /\ Len(s.upIn) \in Nat /\ Len(p) = Len(s.upIn) + 1
        /\ \A i \in 1..Len(s.upIn) : p[i] = s.upIn[i]
        /\ p[Len(s.upIn) + 1] = s.emitted + 1
    BY <1>0, <1>a, Push DEF FlowState
  <1> DEFINE x == s.emitted + 1
  <1>x. x \in 0..Responses[f]
    BY <1>0 DEF FlowState
  <1> DEFINE s1 == [s EXCEPT !.emitted = s.emitted + 1, !.upIn = p]
  <1> HIDE DEF p
  <1>1. s1 \in FlowState(f)
    <2> HIDE DEF x
    <2>1. [s EXCEPT !.emitted = x, !.upIn = p] \in FlowState(f)
      BY <1>0, <1>a, <1>b, <1>x DEF FlowState
    <2>2. QED BY <2>1 DEF x
  <1>2. RingsFit(s1)
    BY <1>0, <1>a, <1>b DEF RingsFit, FlowState
  <1>3. SettledInv(s1)
    BY <1>0 DEF SettledInv, FlowState
  <1>4. OrderInv(s1)
    BY <1>0, <1>a, <1>b DEF OrderInv, Chain, Taking, Held, FlowState
  <1>5. RelayInv(s1)
    <2>1. /\ s1.relay = s.relay /\ s1.received = s.received /\ s1.downOut = s.downOut
          /\ s1.upIn = p /\ s1.response = s.response /\ s1.emitted = s.emitted + 1
          /\ s1.downClosed = s.downClosed
      BY <1>0 DEF FlowState
    <2>2. Relaying(s1) = Relaying(s) /\ Carried(s1) = Carried(s) /\ Carried(s) \in {0, 1}
      BY <2>1 DEF Relaying, Carried
    <2>3. /\ s.received \in Seq(Nat) /\ s.downOut \in Seq(Nat) /\ s.upIn \in Seq(Nat)
          /\ s.response \in Nat /\ s.emitted \in Nat
      BY <1>0, SeqNat DEF FlowState
    <2>4. Chain(s.received, s.downOut, Carried(s), s.response, s.upIn, s.emitted, Relaying(s))
      BY <1>0, <2>2 DEF RelayInv, Chain
    <2>5. Chain(s.received, s.downOut, Carried(s), s.response, p, s.emitted + 1, Relaying(s))
      BY <2>2, <2>3, <2>4, ChainSend DEF p
    <2> HIDE DEF s1
    <2>6. Chain(s1.received, s1.downOut, Carried(s1), s1.response, s1.upIn, s1.emitted, Relaying(s1))
      BY <2>1, <2>2, <2>5 DEF Chain
    <2>7. QED BY <2>6 DEF RelayInv
  <1>6. QED BY <1>1, <1>2, <1>3, <1>4, <1>5 DEF FlowInv, p

(* NodeClose: the node closes its end.                                     *)
LEMMA NodeCloseKeeps ==
    ASSUME NEW f \in Flow, NEW s, FlowInv(f, s), ~s.upClosed
    PROVE  FlowInv(f, [s EXCEPT !.upClosed = TRUE])
  <1> USE Bounds
  <1>0. s \in FlowState(f) /\ RingsFit(s) /\ SettledInv(s) /\ OrderInv(s) /\ RelayInv(s)
    BY DEF FlowInv
  <1> DEFINE s1 == [s EXCEPT !.upClosed = TRUE]
  <1>1. s1 \in FlowState(f)
    BY <1>0 DEF FlowState
  <1>2. RingsFit(s1)
    BY <1>0 DEF RingsFit, FlowState
  <1>3. SettledInv(s1)
    BY <1>0 DEF SettledInv, FlowState
  <1>4. OrderInv(s1)
    BY <1>0 DEF OrderInv, Chain, Taking, Held, FlowState
  <1>5. RelayInv(s1)
    BY <1>0 DEF RelayInv, Relaying, Carried, FlowState, Chain
  <1>6. QED BY <1>1, <1>2, <1>3, <1>4, <1>5 DEF FlowInv

-----------------------------------------------------------------------------
(* The invariant *)

(* Whichever thread or end moves it, a flow keeps its invariant.           *)
LEMMA FlowKeeps ==
    ASSUME NEW f \in Flow, FlowFunction, [Next]_vars, FlowInv(f, flow[f])
    PROVE  FlowInv(f, flow'[f])
  <1> DEFINE s == flow[f]
  <1>0. FlowInv(f, s)
    OBVIOUS
  <1>1. CASE flow'[f] = flow[f]
    BY <1>1
  <1>2. CASE AcceptFlow(f)
    <2>1. \/ s.main = "offered" /\ Becomes(f, [s EXCEPT !.main = "accept"])
          \/ /\ s.main = "offered"
             /\ Becomes(f, [s EXCEPT !.main = "unserved", !.downClosed = TRUE, !.upClosed = TRUE])
      BY <1>2 DEF AcceptFlow, Moves
    <2>2. CASE s.main = "offered" /\ Becomes(f, [s EXCEPT !.main = "accept"])
      <3>1. FlowInv(f, [s EXCEPT !.main = "accept"])
        BY <1>0, <2>2, FlowStartsKeeps
      <3>2. flow'[f] = [s EXCEPT !.main = "accept"]
        BY <2>2, Moved
      <3>3. QED BY <3>1, <3>2
    <2>3. CASE /\ s.main = "offered"
               /\ Becomes(f, [s EXCEPT !.main = "unserved", !.downClosed = TRUE, !.upClosed = TRUE])
      <3>1. FlowInv(f, [s EXCEPT !.main = "unserved", !.downClosed = TRUE, !.upClosed = TRUE])
        BY <1>0, <2>3, FlowUnservedKeeps
      <3>2. flow'[f] = [s EXCEPT !.main = "unserved", !.downClosed = TRUE, !.upClosed = TRUE]
        BY <2>3, Moved
      <3>3. QED BY <3>1, <3>2
    <2>4. QED BY <2>1, <2>2, <2>3
  <1>3. CASE ServeFlow(f)
    <2>1. \/ s.main = "accept" /\ Becomes(f, [s EXCEPT !.main = "recv", !.relay = "recv"])
          \/ s.main = "accept" /\ Becomes(f, [s EXCEPT !.main = "recv", !.relay = "unspawned"])
      BY <1>3 DEF ServeFlow, Moves
    <2>2. CASE s.main = "accept" /\ Becomes(f, [s EXCEPT !.main = "recv", !.relay = "recv"])
      <3>1. FlowInv(f, [s EXCEPT !.main = "recv", !.relay = "recv"])
        BY <1>0, <2>2, ServeStartsKeeps
      <3>2. flow'[f] = [s EXCEPT !.main = "recv", !.relay = "recv"]
        BY <2>2, Moved
      <3>3. QED BY <3>1, <3>2
    <2>3. CASE s.main = "accept" /\ Becomes(f, [s EXCEPT !.main = "recv", !.relay = "unspawned"])
      <3>1. FlowInv(f, [s EXCEPT !.main = "recv", !.relay = "unspawned"])
        BY <1>0, <2>3, ServeUnrelayedKeeps
      <3>2. flow'[f] = [s EXCEPT !.main = "recv", !.relay = "unspawned"]
        BY <2>3, Moved
      <3>3. QED BY <3>1, <3>2
    <2>4. QED BY <2>1, <2>2, <2>3
  <1>4. CASE Recv(f)
    <2>1. \/ /\ s.main = "recv" /\ s.downIn # <<>>
             /\ Becomes(f, [s EXCEPT !.main = "intercept", !.request = Head(s.downIn),
                                     !.downIn = Tail(s.downIn)])
          \/ s.main = "recv" /\ s.downClosed /\ Becomes(f, [s EXCEPT !.main = "closing"])
      BY <1>4 DEF Recv, RecvThen, Moves
    <2>2. CASE /\ s.main = "recv" /\ s.downIn # <<>>
               /\ Becomes(f, [s EXCEPT !.main = "intercept", !.request = Head(s.downIn),
                                       !.downIn = Tail(s.downIn)])
      <3>1. FlowInv(f, [s EXCEPT !.main = "intercept", !.request = Head(s.downIn),
                                 !.downIn = Tail(s.downIn)])
        BY <1>0, <2>2, RecvTakesKeeps
      <3>2. flow'[f] = [s EXCEPT !.main = "intercept", !.request = Head(s.downIn),
                                 !.downIn = Tail(s.downIn)]
        BY <2>2, Moved
      <3>3. QED BY <3>1, <3>2
    <2>3. CASE s.main = "recv" /\ s.downClosed /\ Becomes(f, [s EXCEPT !.main = "closing"])
      <3>1. FlowInv(f, [s EXCEPT !.main = "closing"])
        BY <1>0, <2>3, RecvEndsKeeps
      <3>2. flow'[f] = [s EXCEPT !.main = "closing"]
        BY <2>3, Moved
      <3>3. QED BY <3>1, <3>2
    <2>4. QED BY <2>1, <2>2, <2>3
  <1>5. CASE Intercept(f)
    <2>1. \/ s.main = "intercept" /\ Becomes(f, [s EXCEPT !.main = "send"])
          \/ s.main = "intercept" /\ Becomes(f, [s EXCEPT !.main = "closing", !.denied = s.request,
                                                          !.on_close = s.on_close + 0])
      BY <1>5 DEF Intercept, DenyThen, Moves
    <2>2. CASE s.main = "intercept" /\ Becomes(f, [s EXCEPT !.main = "send"])
      <3>1. FlowInv(f, [s EXCEPT !.main = "send"])
        BY <1>0, <2>2, ForwardKeeps
      <3>2. flow'[f] = [s EXCEPT !.main = "send"]
        BY <2>2, Moved
      <3>3. QED BY <3>1, <3>2
    <2>3. CASE s.main = "intercept" /\ Becomes(f, [s EXCEPT !.main = "closing",
                                                            !.denied = s.request, !.on_close = s.on_close + 0])
      <3>1. FlowInv(f, [s EXCEPT !.main = "closing", !.denied = s.request,
                                 !.on_close = s.on_close + 0])
        BY <1>0, <2>3, DenyKeeps
      <3>2. flow'[f] = [s EXCEPT !.main = "closing", !.denied = s.request,
                                 !.on_close = s.on_close + 0]
        BY <2>3, Moved
      <3>3. QED BY <3>1, <3>2
    <2>4. QED BY <2>1, <2>2, <2>3
  <1>6. CASE Send(f)
    <2>1. \/ /\ s.main = "send" /\ ~s.upClosed /\ Len(s.upOut) < RingSlots
             /\ Becomes(f, [s EXCEPT !.main = "recv", !.upOut = Append(s.upOut, s.request)])
          \/ s.main = "send" /\ s.upClosed /\ Becomes(f, [s EXCEPT !.main = "closing"])
      BY <1>6 DEF Send, Room, Moves
    <2>2. CASE /\ s.main = "send" /\ ~s.upClosed /\ Len(s.upOut) < RingSlots
               /\ Becomes(f, [s EXCEPT !.main = "recv", !.upOut = Append(s.upOut, s.request)])
      <3>1. FlowInv(f, [s EXCEPT !.main = "recv", !.upOut = Append(s.upOut, s.request)])
        BY <1>0, <2>2, SendPassesKeeps
      <3>2. flow'[f] = [s EXCEPT !.main = "recv", !.upOut = Append(s.upOut, s.request)]
        BY <2>2, Moved
      <3>3. QED BY <3>1, <3>2
    <2>3. CASE s.main = "send" /\ s.upClosed /\ Becomes(f, [s EXCEPT !.main = "closing"])
      <3>1. FlowInv(f, [s EXCEPT !.main = "closing"])
        BY <1>0, <2>3, SendFailsKeeps
      <3>2. flow'[f] = [s EXCEPT !.main = "closing"]
        BY <2>3, Moved
      <3>3. QED BY <3>1, <3>2
    <2>4. QED BY <2>1, <2>2, <2>3
  <1>7. CASE OnClose(f)
    <2>1. s.main = "closing" /\ Becomes(f, [s EXCEPT !.main = "close", !.on_close = s.on_close + 1])
      BY <1>7 DEF OnClose, Moves
    <2>2. FlowInv(f, [s EXCEPT !.main = "close", !.on_close = s.on_close + 1])
      BY <1>0, <2>1, OnCloseKeeps
    <2>3. flow'[f] = [s EXCEPT !.main = "close", !.on_close = s.on_close + 1]
      BY <2>1, Moved
    <2>4. QED BY <2>2, <2>3
  <1>8. CASE Close(f)
    <2>1. s.main = "close" /\ Becomes(f, [s EXCEPT !.main = "join", !.downClosed = TRUE,
                                                   !.upClosed = TRUE])
      BY <1>8 DEF Close, Moves
    <2>2. FlowInv(f, [s EXCEPT !.main = "join", !.downClosed = TRUE, !.upClosed = TRUE])
      BY <1>0, <2>1, CloseKeeps
    <2>3. flow'[f] = [s EXCEPT !.main = "join", !.downClosed = TRUE, !.upClosed = TRUE]
      BY <2>1, Moved
    <2>4. QED BY <2>2, <2>3
  <1>9. CASE Join(f)
    <2>1. /\ s.main = "join" /\ s.relay \in {"done", "unspawned"}
          /\ Becomes(f, [s EXCEPT !.main = "done"])
      BY <1>9 DEF Join, Moves
    <2>2. FlowInv(f, [s EXCEPT !.main = "done"])
      BY <1>0, <2>1, JoinKeeps
    <2>3. flow'[f] = [s EXCEPT !.main = "done"]
      BY <2>1, Moved
    <2>4. QED BY <2>2, <2>3
  <1>10. CASE RelayRecv(f)
    <2>1. \/ /\ s.relay = "recv" /\ s.upIn # <<>>
             /\ Becomes(f, [s EXCEPT !.relay = "send", !.response = Head(s.upIn),
                                     !.upIn = Tail(s.upIn)])
          \/ s.relay = "recv" /\ s.upClosed /\ Becomes(f, [s EXCEPT !.relay = "close"])
      BY <1>10 DEF RelayRecv, RelayRecvThen, Moves
    <2>2. CASE /\ s.relay = "recv" /\ s.upIn # <<>>
               /\ Becomes(f, [s EXCEPT !.relay = "send", !.response = Head(s.upIn),
                                       !.upIn = Tail(s.upIn)])
      <3>1. FlowInv(f, [s EXCEPT !.relay = "send", !.response = Head(s.upIn),
                                 !.upIn = Tail(s.upIn)])
        BY <1>0, <2>2, RelayTakesKeeps
      <3>2. flow'[f] = [s EXCEPT !.relay = "send", !.response = Head(s.upIn), !.upIn = Tail(s.upIn)]
        BY <2>2, Moved
      <3>3. QED BY <3>1, <3>2
    <2>3. CASE s.relay = "recv" /\ s.upClosed /\ Becomes(f, [s EXCEPT !.relay = "close"])
      <3>1. FlowInv(f, [s EXCEPT !.relay = "close"])
        BY <1>0, <2>3, RelayRecvEndsKeeps
      <3>2. flow'[f] = [s EXCEPT !.relay = "close"]
        BY <2>3, Moved
      <3>3. QED BY <3>1, <3>2
    <2>4. QED BY <2>1, <2>2, <2>3
  <1>11. CASE RelaySend(f)
    <2>1. \/ /\ s.relay = "send" /\ ~s.downClosed /\ Len(s.downOut) < RingSlots
             /\ Becomes(f, [s EXCEPT !.relay = "recv", !.downOut = Append(s.downOut, s.response)])
          \/ s.relay = "send" /\ s.downClosed /\ Becomes(f, [s EXCEPT !.relay = "close"])
      BY <1>11 DEF RelaySend, Room, Moves
    <2>2. CASE /\ s.relay = "send" /\ ~s.downClosed /\ Len(s.downOut) < RingSlots
               /\ Becomes(f, [s EXCEPT !.relay = "recv", !.downOut = Append(s.downOut, s.response)])
      <3>1. FlowInv(f, [s EXCEPT !.relay = "recv", !.downOut = Append(s.downOut, s.response)])
        BY <1>0, <2>2, RelayPassesKeeps
      <3>2. flow'[f] = [s EXCEPT !.relay = "recv", !.downOut = Append(s.downOut, s.response)]
        BY <2>2, Moved
      <3>3. QED BY <3>1, <3>2
    <2>3. CASE s.relay = "send" /\ s.downClosed /\ Becomes(f, [s EXCEPT !.relay = "close"])
      <3>1. FlowInv(f, [s EXCEPT !.relay = "close"])
        BY <1>0, <2>3, RelaySendFailsKeeps
      <3>2. flow'[f] = [s EXCEPT !.relay = "close"]
        BY <2>3, Moved
      <3>3. QED BY <3>1, <3>2
    <2>4. QED BY <2>1, <2>2, <2>3
  <1>12. CASE RelayClose(f)
    <2>1. s.relay = "close" /\ Becomes(f, [s EXCEPT !.relay = "done", !.downClosed = TRUE,
                                                    !.upClosed = TRUE])
      BY <1>12 DEF RelayClose, Moves
    <2>2. FlowInv(f, [s EXCEPT !.relay = "done", !.downClosed = TRUE, !.upClosed = TRUE])
      BY <1>0, <2>1, RelayCloseKeeps
    <2>3. flow'[f] = [s EXCEPT !.relay = "done", !.downClosed = TRUE, !.upClosed = TRUE]
      BY <2>1, Moved
    <2>4. QED BY <2>2, <2>3
  <1>13. CASE AppAsk(f)
    <2>1. /\ ~s.downClosed /\ s.asked < Requests[f] /\ Len(s.downIn) < RingSlots
          /\ Becomes(f, [s EXCEPT !.asked = s.asked + 1, !.downIn = Append(s.downIn, s.asked + 1)])
      BY <1>13 DEF AppAsk, Room, Moves
    <2>2. FlowInv(f, [s EXCEPT !.asked = s.asked + 1, !.downIn = Append(s.downIn, s.asked + 1)])
      BY <1>0, <2>1, AppAskKeeps
    <2>3. flow'[f] = [s EXCEPT !.asked = s.asked + 1, !.downIn = Append(s.downIn, s.asked + 1)]
      BY <2>1, Moved
    <2>4. QED BY <2>2, <2>3
  <1>14. CASE AppReceive(f)
    <2>1. s.downOut # <<>> /\ Becomes(f, [s EXCEPT !.received = Append(s.received, Head(s.downOut)),
                                                   !.downOut = Tail(s.downOut)])
      BY <1>14 DEF AppReceive, Moves
    <2>2. FlowInv(f, [s EXCEPT !.received = Append(s.received, Head(s.downOut)),
                               !.downOut = Tail(s.downOut)])
      BY <1>0, <2>1, AppReceiveKeeps
    <2>3. flow'[f] = [s EXCEPT !.received = Append(s.received, Head(s.downOut)),
                               !.downOut = Tail(s.downOut)]
      BY <2>1, Moved
    <2>4. QED BY <2>2, <2>3
  <1>15. CASE AppClose(f)
    <2>1. ~s.downClosed /\ Becomes(f, [s EXCEPT !.downClosed = TRUE])
      BY <1>15 DEF AppClose, Moves
    <2>2. FlowInv(f, [s EXCEPT !.downClosed = TRUE])
      BY <1>0, <2>1, AppCloseKeeps
    <2>3. flow'[f] = [s EXCEPT !.downClosed = TRUE]
      BY <2>1, Moved
    <2>4. QED BY <2>2, <2>3
  <1>16. CASE NodeServe(f)
    <2>1. s.upOut # <<>> /\ Becomes(f, [s EXCEPT !.served = Append(s.served, Head(s.upOut)),
                                                 !.upOut = Tail(s.upOut)])
      BY <1>16 DEF NodeServe, Moves
    <2>2. FlowInv(f, [s EXCEPT !.served = Append(s.served, Head(s.upOut)), !.upOut = Tail(s.upOut)])
      BY <1>0, <2>1, NodeServeKeeps
    <2>3. flow'[f] = [s EXCEPT !.served = Append(s.served, Head(s.upOut)), !.upOut = Tail(s.upOut)]
      BY <2>1, Moved
    <2>4. QED BY <2>2, <2>3
  <1>17. CASE NodeEmit(f)
    <2>1. /\ ~s.upClosed /\ s.emitted < Responses[f] /\ Len(s.upIn) < RingSlots
          /\ Becomes(f, [s EXCEPT !.emitted = s.emitted + 1,
                                  !.upIn = Append(s.upIn, s.emitted + 1)])
      BY <1>17 DEF NodeEmit, Room, Moves
    <2>2. FlowInv(f, [s EXCEPT !.emitted = s.emitted + 1, !.upIn = Append(s.upIn, s.emitted + 1)])
      BY <1>0, <2>1, NodeEmitKeeps
    <2>3. flow'[f] = [s EXCEPT !.emitted = s.emitted + 1, !.upIn = Append(s.upIn, s.emitted + 1)]
      BY <2>1, Moved
    <2>4. QED BY <2>2, <2>3
  <1>18. CASE NodeClose(f)
    <2>1. ~s.upClosed /\ Becomes(f, [s EXCEPT !.upClosed = TRUE])
      BY <1>18 DEF NodeClose, Moves
    <2>2. FlowInv(f, [s EXCEPT !.upClosed = TRUE])
      BY <1>0, <2>1, NodeCloseKeeps
    <2>3. flow'[f] = [s EXCEPT !.upClosed = TRUE]
      BY <2>1, Moved
    <2>4. QED BY <2>2, <2>3
  <1>19. QED
    BY <1>1, <1>2, <1>3, <1>4, <1>5, <1>6, <1>7, <1>8, <1>9, <1>10, <1>11, <1>12, <1>13, <1>14,
       <1>15, <1>16, <1>17, <1>18, NextCases DEF MainStep, RelayStep, EndStep

LEMMA ControlStays == ASSUME NEW f, NEW s, Becomes(f, s) PROVE control' = control
  BY DEF Becomes

LEMMA AcceptLoop ==
    ASSUME control \in {"accept", "failed"}, faults \in 0..MaxFaults, [Next]_vars
    PROVE  control' \in {"accept", "failed"} /\ faults' \in 0..MaxFaults
  <1> USE ControlStays DEF Moves
  <1>1. CASE ControlFails \/ UNCHANGED vars
    BY <1>1 DEF ControlFails, vars
  <1>2. ASSUME NEW g \in Flow, AcceptFlow(g) \/ ServeFlow(g)
        PROVE  control' = control /\ (faults' = faults \/ Fault)
    BY <1>2 DEF AcceptFlow, ServeFlow
  <1>3. ASSUME NEW g \in Flow, Recv(g) \/ Intercept(g) \/ Send(g) \/ OnClose(g) \/ Close(g) \/ Join(g)
        PROVE  control' = control /\ faults' = faults
    BY <1>3 DEF Recv, RecvThen, Intercept, DenyThen, Send, OnClose, Close, Join
  <1>4. ASSUME NEW g \in Flow, RelayStep(g) PROVE control' = control /\ faults' = faults
    BY <1>4 DEF RelayStep, RelayRecv, RelayRecvThen, RelaySend, RelayClose
  <1>5. ASSUME NEW g \in Flow, EndStep(g) PROVE control' = control /\ faults' = faults
    BY <1>5 DEF EndStep, AppAsk, AppReceive, AppClose, NodeServe, NodeEmit, NodeClose
  <1>6. Fault => faults' \in 0..MaxFaults
    BY Bounds DEF Fault
  <1>7. QED BY <1>1, <1>2, <1>3, <1>4, <1>5, <1>6 DEF Next, MainStep

LEMMA InitHolds == Init => IInv
<1> SUFFICES ASSUME Init PROVE IInv
  OBVIOUS
<1>1. ASSUME NEW f \in Flow PROVE FlowInv(f, flow[f])
  <2> DEFINE s == flow[f]
  <2>1. /\ s = [main |-> "offered", relay |-> "idle", request |-> 0, response |-> 0,
                on_close |-> 0, denied |-> 0,
                downIn |-> <<>>, downOut |-> <<>>, downClosed |-> FALSE,
                upOut |-> <<>>, upIn |-> <<>>, upClosed |-> FALSE,
                asked |-> 0, served |-> <<>>, emitted |-> 0, received |-> <<>>]
    BY DEF Init
  <2>2. s \in FlowState(f)
    BY <2>1, Bounds DEF FlowState
  <2>3. RingsFit(s) /\ SettledInv(s)
    BY <2>1, Bounds DEF RingsFit, SettledInv
  <2>4. Chain(<<>>, <<>>, 0, 0, <<>>, 0, TRUE)
    BY DEF Chain, Follows
  <2>5. /\ s.main = "offered" /\ s.relay = "idle" /\ s.denied = 0
        /\ s.served = <<>> /\ s.upOut = <<>> /\ s.request = 0 /\ s.downIn = <<>> /\ s.asked = 0
        /\ s.received = <<>> /\ s.downOut = <<>> /\ s.response = 0 /\ s.upIn = <<>> /\ s.emitted = 0
    BY <2>1
  <2>6. OrderInv(s) /\ RelayInv(s)
    <3> HIDE DEF s
    <3>1. Held(s) = 0 /\ Carried(s) = 0 /\ Taking(s) /\ Relaying(s)
      BY <2>5 DEF Held, Carried, Taking, Relaying
    <3>2. Chain(s.served, s.upOut, Held(s), s.request, s.downIn, s.asked, Taking(s))
      BY <2>4, <2>5, <3>1 DEF Chain
    <3>3. Chain(s.received, s.downOut, Carried(s), s.response, s.upIn, s.emitted, Relaying(s))
      BY <2>4, <2>5, <3>1 DEF Chain
    <3>4. QED BY <2>5, <3>1, <3>2, <3>3 DEF OrderInv, RelayInv
  <2>7. QED BY <2>2, <2>3, <2>6 DEF FlowInv
<1>2. QED BY <1>1, Bounds DEF Init, IInv, FlowFunction

LEMMA StepKeeps == IInv /\ [Next]_vars => IInv'
<1> SUFFICES ASSUME IInv, [Next]_vars PROVE IInv'
  OBVIOUS
<1>1. control' \in {"accept", "failed"} /\ faults' \in 0..MaxFaults
  BY AcceptLoop DEF IInv
<1>2. FlowFunction'
  BY FlowsStay DEF IInv
<1>3. ASSUME NEW f \in Flow PROVE FlowInv(f, flow'[f])
  BY FlowKeeps DEF IInv
<1>4. QED BY <1>1, <1>2, <1>3 DEF IInv

LEMMA Invariance == Spec => []IInv
  BY InitHolds, StepKeeps, PTL DEF Spec

(***************************************************************************)
(* The threads' positions, the rings and the counters stay in their types, *)
(* and no ring is fuller than its slots.                                   *)
(***************************************************************************)
THEOREM TypeCorrect == Spec => []TypeOK
<1>1. IInv => TypeOK
  <2> SUFFICES ASSUME IInv, NEW f \in Flow
               PROVE  /\ flow[f] \in FlowState(f)
                     
                      /\ \A ring \in {"downIn", "downOut", "upOut", "upIn"} : Len(flow[f][ring]) <= RingSlots
    BY DEF IInv, TypeOK
  <2>1. flow[f] \in FlowState(f) /\ RingsFit(flow[f])
    BY DEF IInv, FlowInv
  <2>2. QED BY <2>1 DEF RingsFit
<1>2. QED BY <1>1, Invariance, PTL

(***************************************************************************)
(* A flow whose thread has ended is settled: on_close ran exactly once,    *)
(* both ends are closed, the relay thread is gone.                         *)
(***************************************************************************)
THEOREM FlowsSettle == Spec => []SettledOnce
<1>1. IInv => SettledOnce
  BY DEF IInv, FlowInv, SettledInv, SettledOnce
<1>2. QED BY <1>1, Invariance, PTL


-----------------------------------------------------------------------------
(* What the invariant says of the frames *)

LEMMA FollowsConcat ==
    ASSUME NEW a \in Seq(Nat), NEW b \in Seq(Nat), NEW n \in Nat,
           Follows(a, n), Follows(b, n + Len(a))
    PROVE  a \o b \in Seq(Nat) /\ Len(a \o b) = Len(a) + Len(b) /\ Follows(a \o b, n)
  <1> DEFINE c == a \o b
  <1>1. /\ c \in Seq(Nat) /\ Len(c) = Len(a) + Len(b) /\ Len(a) \in Nat /\ Len(b) \in Nat
        /\ \A i \in 1..Len(a) : c[i] = a[i]
        /\ \A i \in Len(a) + 1 .. Len(a) + Len(b) : c[i] = b[i - Len(a)]
    BY ConcatProperties
  <1> HIDE DEF c
  <1>2. ASSUME NEW i \in 1..Len(c) PROVE c[i] = n + i
    <2>1. CASE i <= Len(a)
      BY <1>1, <2>1 DEF Follows
    <2>2. CASE i > Len(a)
      <3> DEFINE j == i - Len(a)
      <3>1. j \in 1..Len(b) /\ i \in Len(a) + 1 .. Len(a) + Len(b) /\ n + Len(a) + j = n + i
        BY <1>1, <2>2
      <3>2. c[i] = b[j]
        BY <1>1, <3>1
      <3>3. b[j] = n + Len(a) + j
        BY <3>1 DEF Follows
      <3>4. QED BY <3>1, <3>2, <3>3
    <2>3. QED BY <1>1, <2>1, <2>2
  <1>3. Follows(c, n)
    BY <1>2 DEF Follows
  <1>4. QED BY <1>1, <1>3 DEF c

LEMMA FollowsNumbered ==
    ASSUME NEW q \in Seq(Nat), Follows(q, 0)
    PROVE  q = Numbered(Len(q))
  <1> DEFINE k == Numbered(Len(q))
  <1>1. Len(q) \in Nat /\ k \in Seq(Nat) /\ Len(k) = Len(q)
    BY DEF Numbered
  <1>2. ASSUME NEW i \in 1..Len(q) PROVE q[i] = k[i]
    BY <1>1 DEF Follows, Numbered
  <1>3. QED BY <1>1, <1>2, SeqEqual

(* Four sequences, of m and k numbers up to the third and the fourth, that *)
(* continue each other up to the number sent.                              *)
Pieces(done, ring, b, rest, m, k, sent) ==
    /\ m = Len(done) + Len(ring) /\ k = m + Len(b) /\ sent = k + Len(rest)
    /\ Follows(done, 0) /\ Follows(ring, Len(done)) /\ Follows(b, m) /\ Follows(rest, k)

LEMMA PiecesNumbered ==
    ASSUME NEW done \in Seq(Nat), NEW ring \in Seq(Nat), NEW b \in Seq(Nat), NEW rest \in Seq(Nat),
           NEW m \in Nat, NEW k \in Nat, NEW sent \in Nat, Pieces(done, ring, b, rest, m, k, sent)
    PROVE  done \o ring \o b \o rest = Numbered(sent)
  <1> USE DEF Pieces
  <1>0. Len(done) \in Nat /\ Len(ring) \in Nat /\ Len(b) \in Nat /\ Len(rest) \in Nat
    OBVIOUS
  <1> DEFINE a == done \o ring
  <1> DEFINE c == a \o b
  <1> DEFINE d == c \o rest
  <1>1. a \in Seq(Nat) /\ Len(a) = m /\ Follows(a, 0)
    <2>1. Follows(ring, 0 + Len(done))
      BY <1>0
    <2>2. QED BY <2>1, FollowsConcat
  <1> HIDE DEF a
  <1>2. c \in Seq(Nat) /\ Len(c) = k /\ Follows(c, 0)
    <2>1. Follows(b, 0 + Len(a))
      BY <1>0, <1>1
    <2>2. c \in Seq(Nat) /\ Len(c) = Len(a) + Len(b) /\ Follows(c, 0)
      BY <1>1, <2>1, FollowsConcat
    <2>3. QED BY <1>0, <1>1, <2>2
  <1> HIDE DEF c
  <1>3. d \in Seq(Nat) /\ Follows(d, 0) /\ Len(d) = Len(c) + Len(rest)
    <2>1. Follows(rest, 0 + Len(c))
      BY <1>0, <1>2
    <2>2. QED BY <1>2, <2>1, FollowsConcat
  <1> HIDE DEF d
  <1>4. d = Numbered(Len(d))
    BY <1>3, FollowsNumbered
  <1>5. d = Numbered(sent)
    BY <1>2, <1>3, <1>4
  <1>6. QED BY <1>5 DEF a, c, d

(* While the thread is on, nothing sent is missing, its frame in hand or   *)
(* not.                                                                    *)
LEMMA HoldingNumbered ==
    ASSUME NEW done \in Seq(Nat), NEW ring \in Seq(Nat), NEW rest \in Seq(Nat),
           NEW hand \in Nat, NEW sent \in Nat,
           Chain(done, ring, 1, hand, rest, sent, TRUE)
    PROVE  done \o ring \o <<hand>> \o rest = Numbered(sent)
  <1> DEFINE b == <<hand>>
  <1> DEFINE m == Len(done) + Len(ring)
  <1>1. b \in Seq(Nat) /\ Len(b) = 1 /\ b[1] = hand /\ m \in Nat
    OBVIOUS
  <1>2. /\ Follows(done, 0) /\ Follows(ring, Len(done)) /\ hand = m + 1
        /\ Follows(rest, m + 1) /\ m + 1 + Len(rest) = sent
    BY DEF Chain
  <1> HIDE DEF b, m
  <1>3. Follows(b, m)
    BY <1>1, <1>2 DEF Follows
  <1> DEFINE k == m + Len(b)
  <1>4. k \in Nat /\ Follows(rest, k) /\ k + Len(rest) = sent
    BY <1>1, <1>2
  <1>5. m = Len(done) + Len(ring) /\ k = m + Len(b)
    BY DEF m
  <1> HIDE DEF k
  <1>6. Pieces(done, ring, b, rest, m, k, sent)
    BY <1>2, <1>3, <1>4, <1>5 DEF Pieces
  <1>7. done \o ring \o b \o rest = Numbered(sent)
    BY <1>1, <1>4, <1>6, PiecesNumbered
  <1>8. QED BY <1>7 DEF b

LEMMA EmptyHandedNumbered ==
    ASSUME NEW done \in Seq(Nat), NEW ring \in Seq(Nat), NEW rest \in Seq(Nat),
           NEW hand \in Nat, NEW sent \in Nat,
           Chain(done, ring, 0, hand, rest, sent, TRUE)
    PROVE  done \o ring \o <<>> \o rest = Numbered(sent)
  <1> DEFINE b == << >>
  <1> DEFINE m == Len(done) + Len(ring)
  <1>1. b \in Seq(Nat) /\ Len(b) = 0 /\ m \in Nat
    OBVIOUS
  <1>2. /\ Follows(done, 0) /\ Follows(ring, Len(done))
        /\ Follows(rest, m + 0) /\ m + 0 + Len(rest) = sent
    BY DEF Chain
  <1> HIDE DEF b, m
  <1>3. Follows(b, m)
    BY <1>1 DEF Follows
  <1> DEFINE k == m + Len(b)
  <1>4. k \in Nat /\ Follows(rest, k) /\ k + Len(rest) = sent
    BY <1>1, <1>2
  <1>5. m = Len(done) + Len(ring) /\ k = m + Len(b)
    BY DEF m
  <1> HIDE DEF k
  <1>6. Pieces(done, ring, b, rest, m, k, sent)
    BY <1>2, <1>3, <1>4, <1>5 DEF Pieces
  <1>7. done \o ring \o b \o rest = Numbered(sent)
    BY <1>1, <1>4, <1>6, PiecesNumbered
  <1>8. QED BY <1>7 DEF b

(***************************************************************************)
(* The node receives the app's requests in order, none skipped, repeated   *)
(* or forwarded after a Deny, and until a Deny or a close all are still on *)
(* their way.                                                              *)
(***************************************************************************)
THEOREM RequestsInOrder == Spec => []ForwardedInOrder
<1>1. IInv => ForwardedInOrder
  <2> SUFFICES ASSUME IInv, NEW f \in Flow
               PROVE  LET s == flow[f] IN
                      /\ s.served = Numbered(Len(s.served))
                      /\ s.denied # 0 => Len(s.served) < s.denied
                      /\ s.denied # 0 \/ s.downClosed \/ s.upClosed \/ ToNode(s) = Numbered(s.asked)
    BY DEF ForwardedInOrder
  <2> DEFINE s == flow[f]
  <2>1. s \in FlowState(f) /\ OrderInv(s)
    BY DEF IInv, FlowInv
  <2>2. /\ s.served \in Seq(Nat) /\ s.upOut \in Seq(Nat) /\ s.downIn \in Seq(Nat)
        /\ s.request \in Nat /\ s.asked \in Nat /\ s.denied \in Nat
    BY <2>1, Bounds, SeqNat DEF FlowState
  <2> HIDE DEF s
  <2>3. Follows(s.served, 0) /\ Chain(s.served, s.upOut, Held(s), s.request, s.downIn, s.asked, Taking(s))
    BY <2>1 DEF OrderInv, Chain
  <2>4. s.served = Numbered(Len(s.served))
    BY <2>2, <2>3, FollowsNumbered
  <2>5. s.denied # 0 => Len(s.served) < s.denied
    <3> DEFINE m == Len(s.served)
    <3> DEFINE n == Len(s.upOut)
    <3>1. m \in Nat /\ n \in Nat
      BY <2>2
    <3>2. s.denied # 0 => m + n < s.denied
      BY <2>1 DEF OrderInv
    <3> HIDE DEF m, n
    <3>3. s.denied # 0 => m < s.denied
      BY <2>2, <3>1, <3>2
    <3>4. QED BY <3>3 DEF m
  <2>6. ASSUME s.denied = 0, ~s.downClosed, ~s.upClosed PROVE ToNode(s) = Numbered(s.asked)
    <3>1. Taking(s)
      BY <2>1, <2>6 DEF OrderInv
    <3>2. CASE s.main \in {"intercept", "send"}
      <4>1. Chain(s.served, s.upOut, 1, s.request, s.downIn, s.asked, TRUE)
        BY <2>3, <3>1, <3>2 DEF Chain, Held
      <4>2. s.served \o s.upOut \o <<s.request>> \o s.downIn = Numbered(s.asked)
        BY <2>2, <4>1, HoldingNumbered
      <4>3. QED BY <3>2, <4>2 DEF ToNode
    <3>3. CASE ~(s.main \in {"intercept", "send"})
      <4>1. Chain(s.served, s.upOut, 0, s.request, s.downIn, s.asked, TRUE)
        BY <2>3, <3>1, <3>3 DEF Chain, Held
      <4>2. s.served \o s.upOut \o <<>> \o s.downIn = Numbered(s.asked)
        BY <2>2, <4>1, EmptyHandedNumbered
      <4>3. QED BY <3>3, <4>2 DEF ToNode
    <3>4. QED BY <3>2, <3>3
  <2>7. QED BY <2>4, <2>5, <2>6 DEF s
<1>2. QED BY <1>1, Invariance, PTL

(***************************************************************************)
(* The app receives the node's frames verbatim and in order, and until the *)
(* flow is torn down all that were sent are still on their way.            *)
(***************************************************************************)
THEOREM FramesVerbatim == Spec => []RelayedVerbatim
<1>1. IInv => RelayedVerbatim
  <2> SUFFICES ASSUME IInv, NEW f \in Flow
               PROVE  LET s == flow[f] IN
                      /\ s.received = Numbered(Len(s.received))
                      /\ s.downClosed \/ ToApp(s) = Numbered(s.emitted)
    BY DEF RelayedVerbatim
  <2> DEFINE s == flow[f]
  <2>1. s \in FlowState(f) /\ RelayInv(s)
    BY DEF IInv, FlowInv
  <2>2. /\ s.received \in Seq(Nat) /\ s.downOut \in Seq(Nat) /\ s.upIn \in Seq(Nat)
        /\ s.response \in Nat /\ s.emitted \in Nat
    <3>1. /\ s.received \in Seq(1..Responses[f]) /\ s.downOut \in Seq(1..Responses[f])
          /\ s.upIn \in Seq(1..Responses[f]) /\ s.response \in Nat /\ s.emitted \in Nat
      BY <2>1, Bounds DEF FlowState
    <3>2. QED BY <3>1, Bounds, SeqNat
  <2> HIDE DEF s
  <2>3. /\ Follows(s.received, 0)
        /\ Chain(s.received, s.downOut, Carried(s), s.response, s.upIn, s.emitted, Relaying(s))
    BY <2>1 DEF RelayInv, Chain
  <2>4. s.received = Numbered(Len(s.received))
    BY <2>2, <2>3, FollowsNumbered
  <2>5. ASSUME ~s.downClosed PROVE ToApp(s) = Numbered(s.emitted)
    <3>1. Relaying(s)
      BY <2>5 DEF Relaying
    <3>2. CASE s.relay = "send"
      <4>1. Chain(s.received, s.downOut, 1, s.response, s.upIn, s.emitted, TRUE)
        BY <2>3, <3>1, <3>2 DEF Chain, Carried
      <4>2. s.received \o s.downOut \o <<s.response>> \o s.upIn = Numbered(s.emitted)
        BY <2>2, <4>1, HoldingNumbered
      <4>3. QED BY <3>2, <4>2 DEF ToApp
    <3>3. CASE ~(s.relay = "send")
      <4>1. Chain(s.received, s.downOut, 0, s.response, s.upIn, s.emitted, TRUE)
        BY <2>3, <3>1, <3>3 DEF Chain, Carried
      <4>2. s.received \o s.downOut \o <<>> \o s.upIn = Numbered(s.emitted)
        BY <2>2, <4>1, EmptyHandedNumbered
      <4>3. QED BY <3>3, <4>2 DEF ToApp
    <3>4. QED BY <3>2, <3>3
  <2>6. QED BY <2>4, <2>5 DEF s
<1>2. QED BY <1>1, Invariance, PTL


=============================================================================
