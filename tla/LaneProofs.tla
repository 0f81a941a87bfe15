----------------------------- MODULE LaneProofs -----------------------------
(***************************************************************************)
(* Theorems about the lane multiplexer and the transport choice over it,   *)
(* for every number of ops and streams, every ring size and every number   *)
(* of events; the last one, that they implement MeshOp.                    *)
(***************************************************************************)
EXTENDS MeshCall, TLAPS

(* One step of a caller, a thread or the node, disjunct by disjunct.       *)
LEMMA NextCases ==
    ASSUME [Next]_vars
    PROVE  \/ \E c \in Caller : Start(c)
           \/ \E c \in Caller : CheckAlive(c)
           \/ \E c \in Caller : Insert(c)
           \/ \E c \in Caller : SendReq(c)
           \/ \E c \in Caller : Await(c)
           \/ \E c \in Caller : Cancel(c)
           \/ \E c \in Caller : PushSubscriber(c)
           \/ \E c \in Caller : Recheck(c)
           \/ ClientDrop
           \/ WriterRecv \/ WriterSend \/ WriterDead \/ WriterClose
           \/ ReadAnswer \/ ReadEvent \/ ReadEnd
           \/ ReaderDead \/ ReaderClose \/ DrainPending \/ DrainSubs
           \/ NodeTake \/ NodeEvent \/ NodeGarbage \/ NodeClose
           \/ \E f \in inbox : NodeAnswer(f)
           \/ UNCHANGED vars
  BY DEF Next, CallStep, WriterStep, ReaderStep, NodeStep

(* What the stream argument needs to know of the callers.                  *)
PcType == pc \in [Caller -> {"idle"} \cup InOp \cup InWatch \cup Returned]

(* A step moves at most one call, and none into a stream but Recheck.      *)
LEMMA PcSteps ==
    ASSUME [Next]_vars, PcType
    PROVE  /\ PcType'
           /\ \A w \in Caller : pc'[w] = "streaming" =>
                  pc[w] = "streaming" \/ (pc[w] = "recheck" /\ ~dead)
<1> USE DEF PcType, InOp, InWatch, Returned
<1>1. CASE UNCHANGED pc
  BY <1>1
<1>2. ASSUME NEW c \in Caller,
             \/ Start(c) \/ CheckAlive(c) \/ Insert(c) \/ SendReq(c) \/ Cancel(c)
             \/ PushSubscriber(c) \/ Recheck(c)
      PROVE  /\ PcType'
             /\ \A w \in Caller : pc'[w] = "streaming" =>
                    pc[w] = "streaming" \/ (pc[w] = "recheck" /\ ~dead)
  BY <1>2 DEF Start, CheckAlive, Insert, SendReq, Cancel, PushSubscriber, Recheck
<1>3. ASSUME NEW c \in Caller, Await(c)
      PROVE  /\ PcType'
             /\ \A w \in Caller : pc'[w] = "streaming" =>
                    pc[w] = "streaming" \/ (pc[w] = "recheck" /\ ~dead)
  <2> DEFINE v == AwaitResult(c)
  <2>1. v \in {"gone", "refused", "err", "push", "ok"}
    BY DEF AwaitResult
  <2>2. pc' = [pc EXCEPT ![c] = v]
    BY <1>3 DEF Await
  <2> HIDE DEF v
  <2>3. QED
    BY <2>1, <2>2
<1>4. QED
  BY NextCases, <1>1, <1>2, <1>3 DEF ClientDrop, WriterRecv, WriterSend, WriterDead,
     WriterClose, ReadAnswer, ReadEvent, ReadEnd, ReaderDead, ReaderClose, DrainPending,
     DrainSubs, NodeTake, NodeEvent, NodeGarbage, NodeClose, NodeAnswer, vars, callerVars

(* `dead` is never reset, and is set before a thread goes past its store.  *)
DeadInv ==
    /\ reader \in {"close", "drainPending", "drainSubs", "stopped"} => dead
    /\ writer \in {"close", "stopped"} => dead

LEMMA DeadSteps ==
    ASSUME [Next]_vars, DeadInv
    PROVE  DeadInv' /\ (dead => dead')
<1> USE DEF DeadInv
<1>1. CASE UNCHANGED <<dead, reader, writer>>
  BY <1>1
<1>2. CASE WriterRecv \/ WriterSend \/ WriterDead \/ WriterClose
  BY <1>2 DEF WriterRecv, WriterSend, WriterDead, WriterClose, sharedVars
<1>3. CASE ReadEnd \/ ReaderDead \/ ReaderClose \/ DrainPending \/ DrainSubs
  BY <1>3 DEF ReadEnd, ReaderDead, ReaderClose, DrainPending, DrainSubs, sharedVars
<1>4. QED
  BY NextCases, <1>1, <1>2, <1>3 DEF Start, CheckAlive, Insert, SendReq, Await, Cancel,
     PushSubscriber, Recheck, ClientDrop, ReadAnswer, ReadEvent, NodeTake, NodeEvent,
     NodeGarbage, NodeClose, NodeAnswer, vars, sharedVars, threadVars

-----------------------------------------------------------------------------
(***************************************************************************)
(* Once the reader has stopped, no stream handed out by watch_stream still *)
(* has a sender.  A watcher that registers after the drain is not yet      *)
(* "streaming", and its recheck finds `dead` set.                          *)
(***************************************************************************)
THEOREM OrphanFree == Spec => []NoOrphanStream
<1> DEFINE Inv == PcType /\ DeadInv /\ NoOrphanStream
<1>1. Init => Inv
  BY DEF Init, PcType, DeadInv, NoOrphanStream, Caller
<1>2. Inv /\ [Next]_vars => Inv'
  <2> SUFFICES ASSUME PcType, DeadInv, NoOrphanStream, [Next]_vars PROVE Inv'
    OBVIOUS
  <2>1. PcType' /\ DeadInv'
    BY PcSteps, DeadSteps
  <2>2. NoOrphanStream'
    <3> SUFFICES ASSUME NEW w \in Watchers, reader' = "stopped", pc'[w] = "streaming",
                        w \in subscribers'
                 PROVE  FALSE
      BY DEF NoOrphanStream
    <3>1. w \in Caller
      BY DEF Caller
    <3>2. reader = "stopped"
      BY NextCases DEF Start, CheckAlive, Insert, SendReq, Await, Cancel, PushSubscriber,
         Recheck, ClientDrop, WriterRecv, WriterSend, WriterDead, WriterClose, ReadAnswer,
         ReadEvent, ReadEnd, ReaderDead, ReaderClose, DrainPending, DrainSubs, NodeTake,
         NodeEvent, NodeGarbage, NodeClose, NodeAnswer, vars, threadVars
    <3>3. pc[w] = "streaming"
      BY <3>1, <3>2, PcSteps DEF DeadInv
    <3>4. w \notin subscribers
      BY <3>2, <3>3 DEF NoOrphanStream
    <3>5. PushSubscriber(w)
      BY <3>4, NextCases DEF Start, CheckAlive, Insert, SendReq, Await, Cancel, PushSubscriber,
         Recheck, ClientDrop, WriterRecv, WriterSend, WriterDead, WriterClose, ReadAnswer,
         ReadEvent, ReadEnd, ReaderDead, ReaderClose, DrainPending, DrainSubs, NodeTake,
         NodeEvent, NodeGarbage, NodeClose, NodeAnswer, vars, sharedVars
    <3>6. QED
      BY <3>3, <3>5 DEF PushSubscriber
  <2>3. QED
    BY <2>1, <2>2
<1>3. QED
  BY <1>1, <1>2, PTL DEF Spec

-----------------------------------------------------------------------------
(* The slots a drain or an answer fills.                                   *)
LEMMA SlotSteps ==
    ASSUME [Next]_vars
    PROVE  slot' = slot \/ ReadAnswer \/ DrainPending
  BY NextCases DEF Start, CheckAlive, Insert, SendReq, Await, Cancel, PushSubscriber, Recheck,
     ClientDrop, WriterRecv, WriterSend, WriterDead, WriterClose, ReadEvent, ReadEnd,
     ReaderDead, ReaderClose, DrainSubs, NodeTake, NodeEvent, NodeGarbage, NodeClose,
     NodeAnswer, vars, callerVars

(* A oneshot loses its sender only in the drain, after `dead` was set.     *)
GoneInv ==
    /\ \A c \in Caller : slot[c] = Dropped => dead
    /\ GoneMeansDead

(***************************************************************************)
(* LaneGone is only ever reported by a lane that is dead.                  *)
(***************************************************************************)
THEOREM GoneOnlyIfDead == Spec => []GoneMeansDead
<1> DEFINE Inv == PcType /\ DeadInv /\ GoneInv
<1>1. Init => Inv
  BY DEF Init, PcType, DeadInv, GoneInv, GoneMeansDead, Empty, Dropped
<1>2. Inv /\ [Next]_vars => Inv'
  <2> SUFFICES ASSUME PcType, DeadInv, GoneInv, [Next]_vars PROVE Inv'
    OBVIOUS
  <2>1. PcType' /\ DeadInv' /\ (dead => dead')
    BY PcSteps, DeadSteps
  <2>2. \A c \in Caller : slot'[c] = Dropped => dead'
    <3>1. CASE slot' = slot
      BY <2>1, <3>1 DEF GoneInv
    <3>2. CASE ReadAnswer
      <4> SUFFICES ASSUME NEW c \in Caller, slot'[c] = Dropped PROVE dead'
        OBVIOUS
      <4>1. slot'[c] = slot[c] \/ slot'[c] = [kind |-> Head(n2c).kind, op |-> Head(n2c).op]
        BY <3>2 DEF ReadAnswer
      <4>2. slot[c] = Dropped
        BY <3>2, <4>1 DEF ReadAnswer, Dropped
      <4>3. QED
        BY <2>1, <4>2 DEF GoneInv
    <3>3. CASE DrainPending
      BY <2>1, <3>3 DEF DrainPending, DeadInv
    <3>4. QED
      BY SlotSteps, <3>1, <3>2, <3>3
  <2>3. GoneMeansDead'
    <3> SUFFICES ASSUME NEW c \in Caller, pc'[c] = "gone" PROVE dead'
      BY DEF GoneMeansDead
    <3>1. CASE pc[c] = "gone"
      BY <2>1, <3>1 DEF GoneInv, GoneMeansDead
    <3>2. CASE pc[c] # "gone"
      <4>1. PICK d \in Caller : \/ CheckAlive(d) \/ SendReq(d) \/ Await(d) \/ Recheck(d)
                               \/ Start(d) \/ Insert(d) \/ Cancel(d) \/ PushSubscriber(d)
        BY <3>2, NextCases DEF ClientDrop, WriterRecv, WriterSend, WriterDead,
           WriterClose, ReadAnswer, ReadEvent, ReadEnd, ReaderDead, ReaderClose, DrainPending,
           DrainSubs, NodeTake, NodeEvent, NodeGarbage, NodeClose, NodeAnswer, vars, callerVars
      <4>2. CASE CheckAlive(d) \/ Recheck(d)
        BY <2>1, <3>2, <4>2 DEF CheckAlive, Recheck, PcType
      <4>3. CASE SendReq(d)
        BY <2>1, <3>2, <4>3 DEF SendReq, PcType, DeadInv
      <4>4. CASE Await(d)
        <5>1. d = c /\ AwaitResult(c) = "gone"
          BY <3>2, <4>4 DEF Await, PcType
        <5>2. slot[c] = Dropped
          BY <5>1 DEF AwaitResult
        <5>3. QED
          BY <2>1, <5>2 DEF GoneInv
      <4>5. CASE Start(d) \/ Insert(d) \/ Cancel(d) \/ PushSubscriber(d)
        BY <3>2, <4>5 DEF Start, Insert, Cancel, PushSubscriber, PcType
      <4>6. QED
        BY <4>1, <4>2, <4>3, <4>4, <4>5
    <3>3. QED
      BY <3>1, <3>2
  <2>4. QED
    BY <2>1, <2>2, <2>3 DEF GoneInv
<1>3. Inv => GoneMeansDead
  BY DEF GoneInv
<1>4. QED
  BY <1>1, <1>2, <1>3, PTL DEF Spec

-----------------------------------------------------------------------------
(* The parts of the type invariant a step can disturb separately.          *)
CallerType ==
    /\ id \in [Caller -> Nat]
    /\ next_id \in Nat
    /\ watch_started \in BOOLEAN
    /\ pending \subseteq Nat \X Caller

SlotType ==
    slot \in [Caller -> [kind: {"empty", "dropped", "ok", "err"}, op: Caller \cup {None}]]

FlowType ==
    /\ req \in Seq(ReqFrame)
    /\ writer \in {"recv", "send", "dead", "close", "stopped"}
    /\ out \in ReqFrame \cup {None}
    /\ writer = "send" => out \in ReqFrame
    /\ c2n \in Seq(ReqFrame)

NodeType ==
    /\ n2c \in Seq(RespFrame)
    /\ inbox \subseteq ReqFrame
    /\ executed \in [Caller -> Nat]
    /\ events \in Nat /\ garbage \in Nat

FlagType ==
    /\ subscribers \subseteq Watchers
    /\ dead \in BOOLEAN /\ dropped \in BOOLEAN
    /\ reader \in {"recv", "dead", "close", "drainPending", "drainSubs", "stopped"}
    /\ closed \in BOOLEAN
    /\ node \in {"up", "gone"}

(* Only watchers reach the steps that register a stream.                   *)
PushInv == \A c \in Caller : pc[c] = "push" => c \in Watchers

LEMMA TypeParts ==
    TypeOK <=> PcType /\ CallerType /\ SlotType /\ FlowType /\ NodeType /\ FlagType
  BY DEF TypeOK, PcType, CallerType, SlotType, FlowType, NodeType, FlagType

LEMMA CallerTypeStep ==
    ASSUME [Next]_vars, CallerType
    PROVE  CallerType'
<1> USE DEF CallerType
<1>1. CASE UNCHANGED <<id, next_id, watch_started, pending>>
  BY <1>1
<1>2. ASSUME NEW c \in Caller, Insert(c) \/ SendReq(c) PROVE CallerType'
  BY <1>2 DEF Insert, SendReq
<1>3. ASSUME NEW c \in Caller, Await(c) PROVE CallerType'
  <2>1. UNCHANGED <<id, next_id, pending>>
    BY <1>3 DEF Await, sharedVars
  <2>2. watch_started' \in BOOLEAN
    BY <1>3, Zenon DEF Await
  <2>3. QED
    BY <2>1, <2>2
<1>4. CASE ReadAnswer \/ DrainPending
  BY <1>4 DEF ReadAnswer, DrainPending
<1>5. QED
  BY NextCases, <1>1, <1>2, <1>3, <1>4 DEF Start, CheckAlive, Cancel, PushSubscriber, Recheck,
     ClientDrop, WriterRecv, WriterSend, WriterDead, WriterClose, ReadEvent, ReadEnd,
     ReaderDead, ReaderClose, DrainSubs, NodeTake, NodeEvent, NodeGarbage, NodeClose,
     NodeAnswer, vars, callerVars, sharedVars

LEMMA SlotTypeStep ==
    ASSUME [Next]_vars, SlotType, n2c \in Seq(RespFrame)
    PROVE  SlotType'
<1>1. CASE slot' = slot
  BY <1>1 DEF SlotType
<1>2. CASE ReadAnswer
  <2>1. Head(n2c) \in RespFrame /\ Head(n2c).kind \in {"ok", "err"}
    BY <1>2 DEF ReadAnswer
  <2>2. QED
    BY <1>2, <2>1 DEF ReadAnswer, SlotType, RespFrame
<1>3. CASE DrainPending
  BY <1>3 DEF DrainPending, SlotType, Dropped
<1>4. QED
  BY SlotSteps, <1>1, <1>2, <1>3

LEMMA FlowTypeStep ==
    ASSUME [Next]_vars, FlowType, CallerType
    PROVE  FlowType'
<1> USE DEF FlowType
<1>1. CASE UNCHANGED <<req, writer, out, c2n>>
  BY <1>1
<1>2. ASSUME NEW c \in Caller, SendReq(c) PROVE FlowType'
  <2>1. [id |-> id[c], op |-> c] \in ReqFrame
    BY DEF CallerType, ReqFrame
  <2>2. QED
    BY <1>2, <2>1 DEF SendReq, threadVars, ringVars
<1>3. CASE WriterRecv
  <2>1. \/ req # <<>> /\ out' = Head(req) /\ req' = Tail(req) /\ writer' = "send"
        \/ writer' = "dead" /\ UNCHANGED <<out, req>>
    BY <1>3 DEF WriterRecv
  <2>2. c2n' = c2n
    BY <1>3 DEF WriterRecv, ringVars
  <2>3. req # <<>> => Head(req) \in ReqFrame /\ Tail(req) \in Seq(ReqFrame)
    OBVIOUS
  <2>4. QED
    BY <2>1, <2>2, <2>3
<1>4. CASE WriterSend
  <2>1. req' = req /\ out' = None /\ writer' \in {"recv", "dead"} /\ c2n' \in {c2n, Append(c2n, out)}
    BY <1>4 DEF WriterSend, sharedVars
  <2>2. out \in ReqFrame
    BY <1>4 DEF WriterSend
  <2>3. c2n \in Seq(ReqFrame) /\ Append(c2n, out) \in Seq(ReqFrame)
    BY <2>2
  <2>4. c2n' \in Seq(ReqFrame) /\ writer' # "send" /\ writer' \in {"recv", "dead"}
    BY <2>1, <2>3, Zenon
  <2>5. QED
    BY <2>1, <2>4
<1>5. CASE WriterDead \/ WriterClose
  BY <1>5 DEF WriterDead, WriterClose, sharedVars, ringVars
<1>6. CASE NodeTake
  BY <1>6 DEF NodeTake, sharedVars, threadVars
<1>7. QED
  BY NextCases, <1>1, <1>2, <1>3, <1>4, <1>5, <1>6 DEF Start, CheckAlive, Insert, Await, Cancel,
     PushSubscriber, Recheck, ClientDrop, ReadAnswer, ReadEvent, ReadEnd, ReaderDead,
     ReaderClose, DrainPending, DrainSubs, NodeEvent, NodeGarbage, NodeClose, NodeAnswer,
     vars, sharedVars, threadVars, ringVars

LEMMA NodeTypeStep ==
    ASSUME [Next]_vars, NodeType, FlowType
    PROVE  NodeType'
<1> USE DEF NodeType
<1>1. CASE UNCHANGED <<n2c, inbox, executed, events, garbage>>
  BY <1>1
<1>2. CASE ReadAnswer \/ ReadEvent
  BY <1>2 DEF ReadAnswer, ReadEvent, nodeVars
<1>3. CASE NodeTake
  <2>1. Head(c2n) \in ReqFrame
    BY <1>3 DEF NodeTake, FlowType
  <2>2. executed' \in [Caller -> Nat]
    BY <1>3, <2>1 DEF NodeTake, ReqFrame
  <2>3. UNCHANGED <<n2c, events, garbage>> /\ inbox' = inbox \cup {Head(c2n)}
    BY <1>3 DEF NodeTake
  <2>4. QED
    BY <2>1, <2>2, <2>3
<1>4. CASE NodeEvent \/ NodeGarbage
  <2>1. PICK k \in {"event", "garbage"} : n2c' = Append(n2c, [kind |-> k, id |-> 0, op |-> None])
    BY <1>4 DEF NodeEvent, NodeGarbage, NodeSend
  <2>2. [kind |-> k, id |-> 0, op |-> None] \in RespFrame
    BY DEF RespFrame
  <2>3. n2c' \in Seq(RespFrame)
    BY <2>1, <2>2
  <2>4. UNCHANGED <<inbox, executed>> /\ events' \in Nat /\ garbage' \in Nat
    BY <1>4 DEF NodeEvent, NodeGarbage
  <2>5. QED
    BY <2>3, <2>4
<1>5. ASSUME NEW f \in inbox, NodeAnswer(f) PROVE NodeType'
  <2>1. \A k \in {"ok", "err"} : [kind |-> k, id |-> f.id, op |-> f.op] \in RespFrame
    BY DEF RespFrame, ReqFrame
  <2>2. QED
    BY <1>5, <2>1 DEF NodeAnswer, NodeSend
<1>6. QED
  BY NextCases, <1>1, <1>2, <1>3, <1>4, <1>5 DEF Start, CheckAlive, Insert, SendReq, Await,
     Cancel, PushSubscriber, Recheck, ClientDrop, WriterRecv, WriterSend, WriterDead,
     WriterClose, ReadEnd, ReaderDead, ReaderClose, DrainPending, DrainSubs, NodeClose,
     vars, ringVars, nodeVars

LEMMA PushInvStep ==
    ASSUME [Next]_vars, PcType, PushInv
    PROVE  PushInv'
<1> USE DEF PushInv, PcType
<1>1. CASE UNCHANGED pc
  BY <1>1
<1>2. ASSUME NEW c \in Caller,
             \/ Start(c) \/ CheckAlive(c) \/ Insert(c) \/ SendReq(c) \/ Cancel(c)
             \/ PushSubscriber(c) \/ Recheck(c)
      PROVE  PushInv'
  BY <1>2 DEF Start, CheckAlive, Insert, SendReq, Cancel, PushSubscriber, Recheck
<1>3. ASSUME NEW c \in Caller, Await(c) PROVE PushInv'
  BY <1>3 DEF Await, AwaitResult
<1>4. QED
  BY NextCases, <1>1, <1>2, <1>3 DEF ClientDrop, WriterRecv, WriterSend, WriterDead,
     WriterClose, ReadAnswer, ReadEvent, ReadEnd, ReaderDead, ReaderClose, DrainPending,
     DrainSubs, NodeTake, NodeEvent, NodeGarbage, NodeClose, NodeAnswer, vars, callerVars

LEMMA FlagTypeStep ==
    ASSUME [Next]_vars, FlagType, PushInv
    PROVE  FlagType'
<1> USE DEF FlagType
<1>1. CASE UNCHANGED <<subscribers, dead, dropped, reader, closed, node>>
  BY <1>1
<1>2. ASSUME NEW c \in Caller, PushSubscriber(c) PROVE FlagType'
  BY <1>2 DEF PushSubscriber, PushInv, threadVars, ringVars, nodeVars
<1>3. CASE ClientDrop
  BY <1>3 DEF ClientDrop, threadVars, ringVars, nodeVars
<1>4. CASE WriterDead \/ WriterClose
  BY <1>4 DEF WriterDead, WriterClose, sharedVars, ringVars, nodeVars
<1>5. CASE ReadEvent \/ ReadEnd \/ ReaderDead
  BY <1>5 DEF ReadEvent, ReadEnd, ReaderDead, sharedVars, threadVars, ringVars, nodeVars
<1>6. CASE ReaderClose \/ DrainPending \/ DrainSubs
  BY <1>6 DEF ReaderClose, DrainPending, DrainSubs, sharedVars, ringVars, nodeVars
<1>7. CASE NodeClose
  BY <1>7 DEF NodeClose, sharedVars, threadVars
<1>8. QED
  BY NextCases, <1>1, <1>2, <1>3, <1>4, <1>5, <1>6, <1>7 DEF Start, CheckAlive, Insert, SendReq,
     Await, Cancel, Recheck, WriterRecv, WriterSend, ReadAnswer, NodeTake, NodeEvent,
     NodeGarbage, NodeAnswer, vars, sharedVars, threadVars, ringVars, nodeVars

LEMMA TypeStart == Init => TypeOK /\ PushInv
<1> SUFFICES ASSUME Init PROVE TypeOK /\ PushInv
  OBVIOUS
<1>1. PcType /\ PushInv
  BY DEF Init, PcType, PushInv
<1>2. CallerType
  BY DEF Init, CallerType
<1>3. SlotType
  BY DEF Init, SlotType, Empty
<1>4. FlowType /\ NodeType
  BY LaneAssumption DEF Init, FlowType, NodeType
<1>5. FlagType
  BY Zenon DEF Init, FlagType
<1>6. QED
  BY <1>1, <1>2, <1>3, <1>4, <1>5, TypeParts

LEMMA TypeStep ==
    ASSUME TypeOK, PushInv, [Next]_vars
    PROVE  TypeOK' /\ PushInv'
<1>1. PcType /\ CallerType /\ SlotType /\ FlowType /\ NodeType /\ FlagType
  BY TypeParts
<1>2. PcType' /\ PushInv'
  BY <1>1, PcSteps, PushInvStep
<1>3. CallerType' /\ SlotType' /\ FlowType' /\ NodeType' /\ FlagType'
  BY <1>1, CallerTypeStep, SlotTypeStep, FlowTypeStep, NodeTypeStep, FlagTypeStep DEF NodeType
<1>4. TypeOK'
  BY <1>2, <1>3 DEF TypeOK, PcType, CallerType, SlotType, FlowType, NodeType, FlagType
<1>5. QED
  BY <1>2, <1>4

(***************************************************************************)
(* Type correctness of the multiplexer.                                    *)
(***************************************************************************)
THEOREM TypeCorrect == Spec => []TypeOK
<1>1. TypeOK /\ PushInv /\ [Next]_vars => TypeOK' /\ PushInv'
  BY TypeStep
<1>2. QED
  BY TypeStart, <1>1, PTL DEF Spec

-----------------------------------------------------------------------------
(* Why OwnAnswer holds.  Ids are drawn once, so an id names one op; every  *)
(* frame and every map entry carries the id of the op it belongs to.       *)
Belongs(f) == f.id = id[f.op] /\ f.id # 0

IdInv ==
    /\ next_id # 0
    /\ \A c \in Caller : id[c] < next_id
    /\ \A c, d \in Caller : id[c] = id[d] /\ id[c] # 0 => c = d
    /\ \A c \in Caller : pc[c] \in {"idle", "check", "insert"} => id[c] = 0
    /\ \A c \in Caller : pc[c] = "send" => id[c] # 0

FrameInv ==
    /\ \A p \in pending : p[1] = id[p[2]] /\ p[1] # 0
    /\ \A i \in 1..Len(req) : Belongs(req[i])
    /\ writer = "send" => Belongs(out)
    /\ \A i \in 1..Len(c2n) : Belongs(c2n[i])
    /\ \A f \in inbox : Belongs(f)
    /\ \A i \in 1..Len(n2c) : n2c[i].kind \in {"ok", "err"} =>
           n2c[i].op \in Caller /\ Belongs(n2c[i])

LEMMA IdInvStep ==
    ASSUME TypeOK, IdInv, [Next]_vars
    PROVE  /\ IdInv'
           /\ \A c \in Caller : id[c] # 0 => id'[c] = id[c]
<1> USE DEF IdInv, TypeOK
<1>1. CASE UNCHANGED <<pc, id, next_id>>
  BY <1>1
<1>2. ASSUME NEW c \in Caller, Insert(c)
      PROVE  IdInv' /\ \A d \in Caller : id[d] # 0 => id'[d] = id[d]
  <2>1. /\ id[c] = 0 /\ next_id' = next_id + 1
        /\ id' = [id EXCEPT ![c] = next_id] /\ pc' = [pc EXCEPT ![c] = "send"]
    BY <1>2 DEF Insert
  <2>2. id'[c] = next_id /\ \A d \in Caller : d # c => id'[d] = id[d]
    BY <2>1
  <2>3. pc'[c] = "send" /\ \A d \in Caller : d # c => pc'[d] = pc[d]
    BY <2>1
  <2>4. QED
    BY <2>1, <2>2, <2>3
<1>3. ASSUME NEW c \in Caller, Start(c) \/ CheckAlive(c) \/ Cancel(c) \/ SendReq(c)
                               \/ PushSubscriber(c) \/ Recheck(c)
      PROVE  IdInv' /\ \A d \in Caller : id[d] # 0 => id'[d] = id[d]
  <2>1. UNCHANGED <<id, next_id>>
    BY <1>3 DEF Start, CheckAlive, Cancel, SendReq, PushSubscriber, Recheck
  <2>2. PICK v \in {"check", "push", "insert", "gone", "cancelled", "await", "recheck", "streaming"} :
           /\ pc' = [pc EXCEPT ![c] = v]
           /\ v \in {"check", "insert"} => pc[c] \in {"idle", "check"}
    BY <1>3 DEF Start, CheckAlive, Cancel, SendReq, PushSubscriber, Recheck
  <2>3. QED
    BY <2>1, <2>2
<1>4. ASSUME NEW c \in Caller, Await(c)
      PROVE  IdInv' /\ \A d \in Caller : id[d] # 0 => id'[d] = id[d]
  <2>1. UNCHANGED <<id, next_id>>
    BY <1>4 DEF Await
  <2>2. AwaitResult(c) \in {"gone", "refused", "err", "push", "ok"}
    BY DEF AwaitResult
  <2>3. pc' = [pc EXCEPT ![c] = AwaitResult(c)]
    BY <1>4 DEF Await
  <2>4. QED
    BY <2>1, <2>2, <2>3
<1>5. QED
  BY NextCases, <1>1, <1>2, <1>3, <1>4 DEF ClientDrop, WriterRecv, WriterSend, WriterDead,
     WriterClose, ReadAnswer, ReadEvent, ReadEnd, ReaderDead, ReaderClose, DrainPending,
     DrainSubs, NodeTake, NodeEvent, NodeGarbage, NodeClose, NodeAnswer, vars, callerVars

(* An id an op holds is never drawn again, so frames keep their owner.     *)
LEMMA BelongsStays ==
    ASSUME TypeOK, IdInv, [Next]_vars, NEW f, f.op \in Caller, Belongs(f)
    PROVE  f.id = id'[f.op] /\ f.id # 0
  BY IdInvStep DEF Belongs

LEMMA PendingStep ==
    ASSUME TypeOK, IdInv, FrameInv, [Next]_vars
    PROVE  \A p \in pending' : p[1] = id'[p[2]] /\ p[1] # 0
<1>1. \A p \in pending : p[2] \in Caller /\ p[1] = id[p[2]] /\ p[1] # 0
  BY DEF TypeOK, FrameInv
<1>2. \A p \in pending : p[1] = id'[p[2]] /\ p[1] # 0
  BY <1>1, IdInvStep
<1>3. CASE pending' \subseteq pending
  BY <1>2, <1>3
<1>4. ASSUME NEW c \in Caller, Insert(c) PROVE \A p \in pending' : p[1] = id'[p[2]] /\ p[1] # 0
  <2>1. pending' \subseteq pending \cup {<<next_id, c>>} /\ id'[c] = next_id /\ next_id # 0
    BY <1>4 DEF Insert, TypeOK, IdInv
  <2>2. QED
    BY <1>2, <2>1
<1>5. QED
  BY NextCases, <1>3, <1>4 DEF Start, CheckAlive, SendReq, Await, Cancel, PushSubscriber, Recheck,
     ClientDrop, WriterRecv, WriterSend, WriterDead, WriterClose, ReadAnswer, ReadEvent, ReadEnd,
     ReaderDead, ReaderClose, DrainPending, DrainSubs, NodeTake, NodeEvent, NodeGarbage,
     NodeClose, NodeAnswer, vars, sharedVars

(* Requests keep their owner on the way to the node.                       *)
RequestsBelong ==
    /\ \A i \in 1..Len(req) : Belongs(req[i])
    /\ writer = "send" => Belongs(out)
    /\ \A i \in 1..Len(c2n) : Belongs(c2n[i])
    /\ \A f \in inbox : Belongs(f)

LEMMA RequestStep ==
    ASSUME TypeOK, IdInv, FrameInv, [Next]_vars
    PROVE  RequestsBelong'
<1> DEFINE Kept(f) == f.id = id'[f.op] /\ f.id # 0
<1>1. \A f \in ReqFrame : f.op \in Caller
  BY DEF ReqFrame
<1>2. /\ \A i \in 1..Len(req) : Kept(req[i])
      /\ writer = "send" => Kept(out)
      /\ \A i \in 1..Len(c2n) : Kept(c2n[i])
      /\ \A f \in inbox : Kept(f)
  BY <1>1, BelongsStays DEF FrameInv, TypeOK
<1>3. SUFFICES /\ \A i \in 1..Len(req') : Kept(req'[i])
               /\ writer' = "send" => Kept(out')
               /\ \A i \in 1..Len(c2n') : Kept(c2n'[i])
               /\ \A f \in inbox' : Kept(f)
  BY DEF RequestsBelong, Belongs
<1>4. req \in Seq(ReqFrame) /\ c2n \in Seq(ReqFrame)
  BY DEF TypeOK
<1> HIDE DEF Kept
<1>5. CASE UNCHANGED <<req, writer, out, c2n, inbox>>
  BY <1>2, <1>5
<1>6. ASSUME NEW c \in Caller, SendReq(c), writer # "stopped"
      PROVE  /\ \A i \in 1..Len(req') : Kept(req'[i])
             /\ writer' = "send" => Kept(out')
             /\ \A i \in 1..Len(c2n') : Kept(c2n'[i])
             /\ \A f \in inbox' : Kept(f)
  <2>1. Kept([id |-> id[c], op |-> c])
    BY <1>6 DEF SendReq, IdInv, Kept
  <2>2. req' = Append(req, [id |-> id[c], op |-> c]) /\ UNCHANGED <<writer, out, c2n, inbox>>
    BY <1>6 DEF SendReq, threadVars, ringVars, nodeVars
  <2>3. QED
    BY <1>2, <1>4, <2>1, <2>2
<1>7. CASE WriterRecv
  <2>1. UNCHANGED <<c2n, inbox>>
    BY <1>7 DEF WriterRecv, ringVars, nodeVars
  <2>2. \/ req # <<>> /\ out' = Head(req) /\ req' = Tail(req)
        \/ writer' = "dead" /\ UNCHANGED req
    BY <1>7 DEF WriterRecv
  <2>3. QED
    BY <1>2, <1>4, <2>1, <2>2
<1>8. CASE WriterSend
  <2>1. UNCHANGED <<req, inbox>> /\ writer' # "send" /\ writer = "send"
    BY <1>8 DEF WriterSend, sharedVars, nodeVars
  <2>2. c2n' = Append(c2n, out) \/ c2n' = c2n
    BY <1>8 DEF WriterSend
  <2>3. QED
    BY <1>2, <1>4, <2>1, <2>2
<1>9. CASE WriterDead \/ WriterClose
  BY <1>2, <1>9 DEF WriterDead, WriterClose, sharedVars, ringVars, nodeVars
<1>10. CASE NodeTake
  <2>1. /\ UNCHANGED <<req, writer, out>> /\ c2n # <<>>
        /\ c2n' = Tail(c2n) /\ inbox' = inbox \cup {Head(c2n)}
    BY <1>10 DEF NodeTake, sharedVars, threadVars
  <2>2. \A i \in 1..Len(c2n') : Kept(c2n'[i])
    BY <1>2, <1>4, <2>1
  <2>3. Kept(Head(c2n))
    BY <1>2, <1>4, <2>1
  <2>4. QED
    BY <1>2, <2>1, <2>2, <2>3
<1>11. CASE inbox' \subseteq inbox /\ UNCHANGED <<req, writer, out, c2n>>
  BY <1>2, <1>11
<1>12. ASSUME NEW c \in Caller, SendReq(c), writer = "stopped"
       PROVE  UNCHANGED <<req, writer, out, c2n, inbox>>
  BY <1>12 DEF SendReq, threadVars, ringVars, nodeVars
<1>13. QED
  BY NextCases, <1>5, <1>6, <1>7, <1>8, <1>9, <1>10, <1>11, <1>12 DEF Start, CheckAlive, Insert,
     Await, Cancel, PushSubscriber, Recheck, ClientDrop, ReadAnswer, ReadEvent, ReadEnd,
     ReaderDead, ReaderClose, DrainPending, DrainSubs, NodeEvent, NodeGarbage, NodeClose,
     NodeAnswer, vars, sharedVars, threadVars, ringVars, nodeVars

(* Answers carry the id and the op of the request they answer.             *)
LEMMA AnswerStep ==
    ASSUME TypeOK, IdInv, FrameInv, [Next]_vars
    PROVE  \A i \in 1..Len(n2c') : n2c'[i].kind \in {"ok", "err"} =>
               n2c'[i].op \in Caller /\ n2c'[i].id = id'[n2c'[i].op] /\ n2c'[i].id # 0
<1> DEFINE Kept(r) == r.kind \in {"ok", "err"} =>
                          r.op \in Caller /\ r.id = id'[r.op] /\ r.id # 0
<1>1. \A i \in 1..Len(n2c) : Kept(n2c[i])
  BY BelongsStays DEF FrameInv
<1>2. n2c \in Seq(RespFrame)
  BY DEF TypeOK
<1>3. SUFFICES \A i \in 1..Len(n2c') : Kept(n2c'[i])
  OBVIOUS
<1>4. CASE n2c' = n2c
  BY <1>1, <1>4
<1>5. CASE ReadAnswer \/ ReadEvent
  <2>1. n2c # <<>> /\ n2c' = Tail(n2c)
    BY <1>5 DEF ReadAnswer, ReadEvent
  <2> HIDE DEF Kept
  <2>2. QED
    BY <1>1, <1>2, <2>1
<1>6. ASSUME NEW r, Kept(r), n2c' = Append(n2c, r)
      PROVE  \A i \in 1..Len(n2c') : Kept(n2c'[i])
  <2> HIDE DEF Kept
  <2>1. QED
    BY <1>1, <1>2, <1>6
<1>7. CASE NodeEvent \/ NodeGarbage
  <2>1. PICK k \in {"event", "garbage"} : n2c' = Append(n2c, [kind |-> k, id |-> 0, op |-> None])
    BY <1>7 DEF NodeEvent, NodeGarbage, NodeSend
  <2>2. QED
    BY <2>1, <1>6
<1>8. ASSUME NEW f \in inbox, NodeAnswer(f)
      PROVE  \A i \in 1..Len(n2c') : Kept(n2c'[i])
  <2>1. PICK k \in {"ok", "err"} : n2c' = Append(n2c, [kind |-> k, id |-> f.id, op |-> f.op])
    BY <1>8 DEF NodeAnswer, NodeSend
  <2>2. f.op \in Caller /\ Belongs(f)
    BY DEF TypeOK, ReqFrame, FrameInv
  <2>3. f.id = id'[f.op] /\ f.id # 0
    BY <2>2, BelongsStays
  <2>4. QED
    BY <2>1, <2>2, <2>3, <1>6
<1>9. QED
  BY NextCases, <1>4, <1>5, <1>7, <1>8 DEF Start, CheckAlive, Insert, SendReq, Await, Cancel,
     PushSubscriber, Recheck, ClientDrop, WriterRecv, WriterSend, WriterDead, WriterClose,
     ReadEnd, ReaderDead, ReaderClose, DrainPending, DrainSubs, NodeTake, NodeClose,
     vars, ringVars

(***************************************************************************)
(* An op only ever receives the node's answer to that op, whatever the     *)
(* order of the answers and whoever gave up waiting.                       *)
(***************************************************************************)
THEOREM AnswersAreOwn == Spec => []OwnAnswer
<1> DEFINE Inv == IdInv /\ FrameInv /\ OwnAnswer
<1>1. Init => Inv
  BY DEF Init, IdInv, FrameInv, OwnAnswer, Empty
<1>2. TypeOK /\ Inv /\ [Next]_vars => Inv'
  <2> SUFFICES ASSUME TypeOK, IdInv, FrameInv, OwnAnswer, [Next]_vars PROVE Inv'
    OBVIOUS
  <2>1. IdInv'
    BY IdInvStep
  <2>2. FrameInv'
    BY PendingStep, RequestStep, AnswerStep DEF FrameInv, RequestsBelong, Belongs
  <2>3. OwnAnswer'
    <3>1. CASE slot' = slot
      BY <3>1 DEF OwnAnswer
    <3>2. CASE DrainPending
      BY <3>2 DEF DrainPending, OwnAnswer, Dropped
    <3>3. CASE ReadAnswer
      <4> DEFINE resp == Head(n2c)
      <4>1. resp.op \in Caller /\ resp.id = id[resp.op] /\ resp.id # 0
        BY <3>3 DEF ReadAnswer, FrameInv, Belongs, TypeOK
      <4>2. \A c \in Waiting(resp.id) : c = resp.op
        BY <4>1 DEF Waiting, FrameInv, IdInv
      <4>3. QED
        BY <3>3, <4>2 DEF ReadAnswer, OwnAnswer
    <3>4. QED
      BY SlotSteps, <3>1, <3>2, <3>3
  <2>4. QED
    BY <2>1, <2>2, <2>3
<1>3. QED
  BY TypeCorrect, <1>1, <1>2, PTL DEF Spec

-----------------------------------------------------------------------------
(* What the lane contributes.  A request is handed over once and sits in   *)
(* one place on its way to the node, so the node performs it at most once, *)
(* and whatever comes back for it, the node has performed it.              *)

Sent(c) == pc[c] \notin {"idle", "check", "insert", "send"}

Underway(c) == executed[c] = 0 /\ Sent(c)

UpInv ==
    /\ \A i \in 1..Len(req) : Underway(req[i].op)
    /\ \A i \in 1..Len(c2n) : Underway(c2n[i].op)
    /\ writer = "send" => Underway(out.op)

OneCopyInv ==
    /\ \A i, j \in 1..Len(req) : req[i].op = req[j].op => i = j
    /\ \A i, j \in 1..Len(c2n) : c2n[i].op = c2n[j].op => i = j
    /\ \A i \in 1..Len(req), j \in 1..Len(c2n) : req[i].op # c2n[j].op
    /\ writer = "send" =>
           /\ \A i \in 1..Len(req) : req[i].op # out.op
           /\ \A i \in 1..Len(c2n) : c2n[i].op # out.op

PerformedInv ==
    /\ \A c \in Caller : executed[c] = 0 \/ (executed[c] = 1 /\ Sent(c))
    /\ \A f \in inbox : executed[f.op] = 1
    /\ \A i \in 1..Len(n2c) : n2c[i].kind \in {"ok", "err"} => executed[n2c[i].op] = 1
    
AnsweredInv ==
    /\ \A c \in Caller : \/ slot[c] \in {Empty, Dropped}
                         \/ slot[c].kind \in {"ok", "err"} /\ executed[c] = 1
    /\ \A c \in Ops : pc[c] \in {"ok", "err"} => executed[c] = 1

OpsNeverStream == \A c \in Ops : pc[c] \notin {"push", "recheck", "streaming", "refused"}

LaneInv ==
    /\ TypeOK /\ PushInv /\ IdInv /\ FrameInv
    /\ UpInv /\ OneCopyInv /\ PerformedInv /\ AnsweredInv /\ OpsNeverStream

ChoiceInv ==
    \A c \in Ops :
       /\ http[c] \in {0, 1}
       /\ via[c] = "idle" => pc[c] = "idle" /\ http[c] = 0
       /\ via[c] = "lane" => pc[c] # "idle" /\ http[c] = 0
       /\ via[c] = "http" => pc[c] \in {"idle", "gone"}
       /\ via[c] = "done" => \/ pc[c] \in {"idle", "gone"}
                             \/ pc[c] \in {"ok", "err"} /\ http[c] = 0
       /\ via[c] = "done" <=> result[c] # "none"

LEMMA SentStays ==
    ASSUME TypeOK, [Next]_vars
    PROVE  \A c \in Caller : Sent(c) => pc'[c] \notin {"idle", "check", "insert", "send"}
<1> USE DEF Sent, TypeOK
<1>1. CASE UNCHANGED pc
  BY <1>1
<1>2. ASSUME NEW c \in Caller,
             \/ Start(c) \/ CheckAlive(c) \/ Insert(c) \/ SendReq(c) \/ Cancel(c)
             \/ PushSubscriber(c) \/ Recheck(c)
      PROVE  \A d \in Caller : Sent(d) => pc'[d] \notin {"idle", "check", "insert", "send"}
  BY <1>2 DEF Start, CheckAlive, Insert, SendReq, Cancel, PushSubscriber, Recheck
<1>3. ASSUME NEW c \in Caller, Await(c)
      PROVE  \A d \in Caller : Sent(d) => pc'[d] \notin {"idle", "check", "insert", "send"}
  <2>1. AwaitResult(c) \in {"gone", "refused", "err", "push", "ok"}
    BY DEF AwaitResult
  <2>2. pc' = [pc EXCEPT ![c] = AwaitResult(c)]
    BY <1>3 DEF Await
  <2>3. QED
    BY <2>1, <2>2
<1>4. QED
  BY NextCases, <1>1, <1>2, <1>3 DEF ClientDrop, WriterRecv, WriterSend, WriterDead,
     WriterClose, ReadAnswer, ReadEvent, ReadEnd, ReaderDead, ReaderClose, DrainPending,
     DrainSubs, NodeTake, NodeEvent, NodeGarbage, NodeClose, NodeAnswer, vars, callerVars

LEMMA ExecutedSteps ==
    ASSUME [Next]_vars
    PROVE  executed' = executed \/ NodeTake
  BY NextCases DEF Start, CheckAlive, Insert, SendReq, Await, Cancel, PushSubscriber, Recheck,
     ClientDrop, WriterRecv, WriterSend, WriterDead, WriterClose, ReadAnswer, ReadEvent, ReadEnd,
     ReaderDead, ReaderClose, DrainPending, DrainSubs, NodeEvent, NodeGarbage, NodeClose,
     NodeAnswer, vars, nodeVars

(* The node takes a request it has not performed, and performs it.         *)
LEMMA Take ==
    ASSUME TypeOK, UpInv, NodeTake
    PROVE  /\ c2n # <<>> /\ c2n' = Tail(c2n) /\ inbox' = inbox \cup {Head(c2n)}
           /\ UNCHANGED <<pc, slot, req, writer, out, n2c>>
           /\ Head(c2n).op \in Caller /\ Underway(Head(c2n).op)
           /\ executed' = [executed EXCEPT ![Head(c2n).op] = 1]
<1>1. c2n # <<>> /\ c2n \in Seq(ReqFrame)
  BY DEF NodeTake, TypeOK
<1>2. Head(c2n) = c2n[1] /\ 1 \in 1..Len(c2n) /\ Head(c2n) \in ReqFrame
  BY <1>1
<1>3. Head(c2n).op \in Caller /\ Underway(Head(c2n).op)
  BY <1>2 DEF UpInv, ReqFrame
<1>4. executed' = [executed EXCEPT ![Head(c2n).op] = 1]
  BY <1>3 DEF NodeTake, Underway, TypeOK
<1>5. QED
  BY <1>3, <1>4 DEF NodeTake, callerVars, sharedVars, threadVars

(* Ops stay under way until the node takes them.                           *)
LEMMA UnderwayStays ==
    ASSUME TypeOK, UpInv, [Next]_vars
    PROVE  \A c \in Caller :
               Underway(c) /\ ~(NodeTake /\ Head(c2n).op = c)
                   => executed'[c] = 0 /\ pc'[c] \notin {"idle", "check", "insert", "send"}
<1> SUFFICES ASSUME NEW c \in Caller, Underway(c), ~(NodeTake /\ Head(c2n).op = c)
             PROVE  executed'[c] = 0 /\ pc'[c] \notin {"idle", "check", "insert", "send"}
  OBVIOUS
<1>1. pc'[c] \notin {"idle", "check", "insert", "send"}
  BY SentStays DEF Underway
<1>2. executed'[c] = 0
  BY ExecutedSteps, Take DEF Underway, TypeOK
<1>3. QED
  BY <1>1, <1>2

LEMMA OneCopyStep ==
    ASSUME TypeOK, UpInv, OneCopyInv, [Next]_vars
    PROVE  OneCopyInv'
<1>1. req \in Seq(ReqFrame) /\ c2n \in Seq(ReqFrame) /\ (writer = "send" => out \in ReqFrame)
  BY DEF TypeOK
<1> USE DEF OneCopyInv
<1>2. CASE UNCHANGED <<req, writer, out, c2n>>
  BY <1>2
<1>3. ASSUME NEW c \in Caller, SendReq(c) PROVE OneCopyInv'
  <2>1. CASE writer = "stopped"
    BY <1>3, <2>1 DEF SendReq, threadVars, ringVars
  <2>2. CASE writer # "stopped"
    <3> DEFINE f == [id |-> id[c], op |-> c]
    <3>1. req' = Append(req, f) /\ f.op = c /\ UNCHANGED <<writer, out, c2n>>
      BY <1>3, <2>2 DEF SendReq, threadVars, ringVars
    <3>2. ~Sent(c)
      BY <1>3 DEF SendReq, Sent
    <3>3. /\ \A i \in 1..Len(req) : req[i].op # c
          /\ \A i \in 1..Len(c2n) : c2n[i].op # c
          /\ writer = "send" => out.op # c
      BY <3>2 DEF UpInv, Underway
    <3> HIDE DEF f
    <3>4. QED
      BY <1>1, <3>1, <3>3
  <2>3. QED
    BY <2>1, <2>2
<1>4. CASE WriterRecv
  <2>1. UNCHANGED c2n /\ writer = "recv"
    BY <1>4 DEF WriterRecv, ringVars
  <2>2. CASE writer' # "send"
    <3>1. UNCHANGED req
      BY <1>4, <2>2 DEF WriterRecv
    <3>2. QED
      BY <2>1, <2>2, <3>1
  <2>3. CASE writer' = "send"
    <3>1. req # <<>> /\ out' = Head(req) /\ req' = Tail(req)
      BY <1>4, <2>3 DEF WriterRecv
    <3>2. QED
      BY <1>1, <2>1, <3>1
  <2>4. QED
    BY <2>2, <2>3
<1>5. CASE WriterSend
  <2>1. UNCHANGED req /\ writer = "send" /\ writer' # "send"
    BY <1>5 DEF WriterSend, sharedVars
  <2>2. c2n' = c2n \/ c2n' = Append(c2n, out)
    BY <1>5 DEF WriterSend
  <2>3. CASE c2n' = c2n
    BY <2>1, <2>3
  <2>4. CASE c2n' = Append(c2n, out)
    <3>1. /\ Len(c2n') = Len(c2n) + 1 /\ c2n'[Len(c2n) + 1] = out
          /\ \A i \in 1..Len(c2n) : c2n'[i] = c2n[i]
      BY <1>1, <2>1, <2>4
    <3>2. Len(c2n) \in Nat
      BY <1>1
    <3>3. \A i, j \in 1..Len(c2n') : c2n'[i].op = c2n'[j].op => i = j
      BY <2>1, <3>1, <3>2
    <3>4. \A i \in 1..Len(req), j \in 1..Len(c2n') : req[i].op # c2n'[j].op
      BY <2>1, <3>1, <3>2
    <3>5. QED
      BY <2>1, <3>3, <3>4
  <2>5. QED
    BY <2>2, <2>3, <2>4
<1>6. CASE WriterDead \/ WriterClose
  BY <1>6 DEF WriterDead, WriterClose, sharedVars, ringVars
<1>7. CASE NodeTake
  <2>1. c2n # <<>> /\ c2n' = Tail(c2n) /\ UNCHANGED <<req, writer, out>>
    BY <1>7, Take
  <2>2. /\ Len(c2n') = Len(c2n) - 1 /\ Len(c2n) \in Nat
        /\ \A i \in 1..Len(c2n') : c2n'[i] = c2n[i + 1]
    BY <1>1, <2>1
  <2>3. \A i, j \in 1..Len(c2n') : c2n'[i].op = c2n'[j].op => i = j
    BY <2>2
  <2>4. QED
    BY <2>1, <2>2, <2>3
<1>8. QED
  BY NextCases, <1>2, <1>3, <1>4, <1>5, <1>6, <1>7 DEF Start, CheckAlive, Insert, Await, Cancel,
     PushSubscriber, Recheck, ClientDrop, ReadAnswer, ReadEvent, ReadEnd, ReaderDead,
     ReaderClose, DrainPending, DrainSubs, NodeEvent, NodeGarbage, NodeClose, NodeAnswer,
     vars, sharedVars, threadVars, ringVars

LEMMA UpStep ==
    ASSUME TypeOK, UpInv, OneCopyInv, PerformedInv, [Next]_vars
    PROVE  UpInv'
<1> DEFINE Later(d) == executed'[d] = 0 /\ pc'[d] \notin {"idle", "check", "insert", "send"}
<1>1. SUFFICES /\ \A i \in 1..Len(req') : Later(req'[i].op)
               /\ \A i \in 1..Len(c2n') : Later(c2n'[i].op)
               /\ writer' = "send" => Later(out'.op)
  BY DEF UpInv, Underway, Sent
<1>2. /\ req \in Seq(ReqFrame) /\ c2n \in Seq(ReqFrame)
      /\ \A f \in ReqFrame : f.op \in Caller
      /\ writer = "send" => out \in ReqFrame
  BY DEF TypeOK, ReqFrame
<1>3. CASE ~NodeTake
  <2>1. /\ \A i \in 1..Len(req) : Later(req[i].op)
        /\ \A i \in 1..Len(c2n) : Later(c2n[i].op)
        /\ writer = "send" => Later(out.op)
    BY <1>2, <1>3, UnderwayStays DEF UpInv
  <2>2. ASSUME NEW c \in Caller, SendReq(c), writer # "stopped" PROVE Later(c)
    <3>1. executed[c] = 0
      BY <2>2 DEF SendReq, PerformedInv, Sent
    <3>2. QED
      BY <1>3, <2>2, <3>1, ExecutedSteps DEF SendReq, TypeOK
  <2> HIDE DEF Later
  <2>3. CASE UNCHANGED <<req, writer, out, c2n>>
    BY <2>1, <2>3
  <2>4. ASSUME NEW c \in Caller, SendReq(c)
        PROVE  /\ \A i \in 1..Len(req') : Later(req'[i].op)
               /\ \A i \in 1..Len(c2n') : Later(c2n'[i].op)
               /\ writer' = "send" => Later(out'.op)
    <3>1. CASE writer = "stopped"
      BY <2>1, <2>4, <3>1 DEF SendReq, threadVars, ringVars
    <3>2. CASE writer # "stopped"
      <4> DEFINE f == [id |-> id[c], op |-> c]
      <4>1. req' = Append(req, f) /\ f.op = c /\ UNCHANGED <<writer, out, c2n>>
        BY <2>4, <3>2 DEF SendReq, threadVars, ringVars
      <4>2. Later(c)
        BY <2>2, <2>4, <3>2
      <4> HIDE DEF f
      <4>3. QED
        BY <1>2, <2>1, <4>1, <4>2
    <3>3. QED
      BY <3>1, <3>2
  <2>5. CASE WriterRecv
    <3>1. UNCHANGED c2n
      BY <2>5 DEF WriterRecv, ringVars
    <3>2. \/ req # <<>> /\ out' = Head(req) /\ req' = Tail(req)
          \/ writer' # "send" /\ UNCHANGED req
      BY <2>5 DEF WriterRecv
    <3>3. QED
      BY <1>2, <2>1, <3>1, <3>2
  <2>6. CASE WriterSend
    <3>1. UNCHANGED req /\ writer = "send" /\ writer' # "send"
      BY <2>6 DEF WriterSend, sharedVars
    <3>2. c2n' = c2n \/ c2n' = Append(c2n, out)
      BY <2>6 DEF WriterSend
    <3>3. QED
      BY <1>2, <2>1, <3>1, <3>2
  <2>7. CASE WriterDead \/ WriterClose
    BY <2>1, <2>7 DEF WriterDead, WriterClose, sharedVars, ringVars
  <2>8. QED
    BY NextCases, <1>3, <2>3, <2>4, <2>5, <2>6, <2>7 DEF Start, CheckAlive, Insert, Await, Cancel,
       PushSubscriber, Recheck, ClientDrop, ReadAnswer, ReadEvent, ReadEnd, ReaderDead,
       ReaderClose, DrainPending, DrainSubs, NodeEvent, NodeGarbage, NodeClose, NodeAnswer,
       vars, sharedVars, threadVars, ringVars
<1>4. CASE NodeTake
  <2> DEFINE d == Head(c2n).op
  <2>1. /\ c2n # <<>> /\ c2n' = Tail(c2n) /\ UNCHANGED <<req, writer, out>>
        /\ \A c \in Caller : Underway(c) /\ c # d => Later(c)
    BY <1>4, Take, UnderwayStays
  <2>2. /\ \A i \in 1..Len(req) : req[i].op # d
        /\ writer = "send" => out.op # d
        /\ \A i \in 1..Len(Tail(c2n)) : i + 1 \in 1..Len(c2n) /\ Tail(c2n)[i] = c2n[i + 1] /\ c2n[i + 1].op # d
    BY <1>2, <2>1 DEF OneCopyInv
  <2> HIDE DEF Later, d
  <2>3. QED
    BY <1>2, <2>1, <2>2 DEF UpInv
<1>5. QED
  BY <1>3, <1>4

LEMMA ExecutedOnceStays ==
    ASSUME TypeOK, UpInv, [Next]_vars
    PROVE  \A c \in Caller : executed[c] = 1 => executed'[c] = 1
<1>1. CASE executed' = executed
  BY <1>1
<1>2. CASE NodeTake
  BY <1>2, Take DEF Underway, TypeOK
<1>3. QED
  BY ExecutedSteps, <1>1, <1>2

(* What the ring of answers gains and loses in a step.                     *)
LEMMA AnswerRingSteps ==
    ASSUME TypeOK, [Next]_vars
    PROVE  \/ n2c' = n2c
           \/ n2c # <<>> /\ n2c' = Tail(n2c)
           \/ \E r : r.kind \in {"event", "garbage"} /\ n2c' = Append(n2c, r)
           \/ \E r : \E f \in inbox : r.op = f.op /\ n2c' = Append(n2c, r)
<1>1. CASE ReadAnswer \/ ReadEvent
  BY <1>1 DEF ReadAnswer, ReadEvent
<1>2. CASE NodeEvent
  <2> DEFINE r == [kind |-> "event", id |-> 0, op |-> None]
  <2>1. r.kind = "event" /\ n2c' = Append(n2c, r)
    BY <1>2 DEF NodeEvent, NodeSend
  <2> HIDE DEF r
  <2>2. QED
    BY <2>1
<1>3. CASE NodeGarbage
  <2> DEFINE r == [kind |-> "garbage", id |-> 0, op |-> None]
  <2>1. r.kind = "garbage" /\ n2c' = Append(n2c, r)
    BY <1>3 DEF NodeGarbage, NodeSend
  <2> HIDE DEF r
  <2>2. QED
    BY <2>1
<1>4. ASSUME NEW f \in inbox, NodeAnswer(f)
      PROVE  \E r : \E g \in inbox : r.op = g.op /\ n2c' = Append(n2c, r)
  <2>1. PICK k \in {"ok", "err"} : n2c' = Append(n2c, [kind |-> k, id |-> f.id, op |-> f.op])
    BY <1>4 DEF NodeAnswer, NodeSend
  <2> DEFINE r == [kind |-> k, id |-> f.id, op |-> f.op]
  <2>2. r.op = f.op /\ n2c' = Append(n2c, r)
    BY <2>1
  <2>3. QED
    BY <2>2, Zenon
<1>5. QED
  BY NextCases, <1>1, <1>2, <1>3, <1>4 DEF Start, CheckAlive, Insert, SendReq, Await, Cancel,
     PushSubscriber, Recheck, ClientDrop, WriterRecv, WriterSend, WriterDead, WriterClose,
     ReadEnd, ReaderDead, ReaderClose, DrainPending, DrainSubs, NodeTake, NodeClose,
     vars, ringVars

LEMMA PerformedStep ==
    ASSUME TypeOK, FrameInv, UpInv, PerformedInv, [Next]_vars
    PROVE  PerformedInv'
<1>1. \A c \in Caller : executed'[c] = 0 \/ (executed'[c] = 1 /\ Sent(c)')
  <2>1. CASE executed' = executed
    BY <2>1, SentStays DEF PerformedInv, Sent
  <2>2. CASE NodeTake
    BY <2>2, Take DEF PerformedInv, Underway, Sent, TypeOK
  <2>3. QED
    BY ExecutedSteps, <2>1, <2>2
<1>2. \A f \in inbox : f.op \in Caller /\ executed'[f.op] = 1
  BY ExecutedOnceStays DEF PerformedInv, TypeOK, ReqFrame
<1>3. \A f \in inbox' : executed'[f.op] = 1
  <2>1. CASE NodeTake
    BY <1>2, <2>1, Take DEF TypeOK
  <2>2. CASE inbox' \subseteq inbox
    BY <1>2, <2>2
  <2>3. QED
    BY NextCases, <2>1, <2>2 DEF Start, CheckAlive, Insert, SendReq, Await, Cancel,
       PushSubscriber, Recheck, ClientDrop, WriterRecv, WriterSend, WriterDead, WriterClose,
       ReadAnswer, ReadEvent, ReadEnd, ReaderDead, ReaderClose, DrainPending, DrainSubs,
       NodeEvent, NodeGarbage, NodeClose, NodeAnswer, vars, nodeVars
<1>4. \A i \in 1..Len(n2c') : n2c'[i].kind \in {"ok", "err"} => executed'[n2c'[i].op] = 1
  <2> DEFINE Ok(r) == r.kind \in {"ok", "err"} => executed'[r.op] = 1
  <2>1. \A i \in 1..Len(n2c) : Ok(n2c[i])
    <3> SUFFICES ASSUME NEW i \in 1..Len(n2c), n2c[i].kind \in {"ok", "err"}
                 PROVE  executed'[n2c[i].op] = 1
      OBVIOUS
    <3>1. executed[n2c[i].op] = 1
      BY DEF PerformedInv
    <3>2. n2c[i].op \in Caller
      BY DEF FrameInv
    <3>3. QED
      BY <3>1, <3>2, ExecutedOnceStays
  <2>2. n2c \in Seq(RespFrame)
    BY DEF TypeOK
  <2>3. SUFFICES \A i \in 1..Len(n2c') : Ok(n2c'[i])
    OBVIOUS
  <2>4. ASSUME NEW r, Ok(r), n2c' = Append(n2c, r) PROVE \A i \in 1..Len(n2c') : Ok(n2c'[i])
    <3> HIDE DEF Ok
    <3>1. QED
      BY <2>1, <2>2, <2>4
  <2>5. CASE n2c # <<>> /\ n2c' = Tail(n2c)
    <3> HIDE DEF Ok
    <3>1. QED
      BY <2>1, <2>2, <2>5
  <2>6. QED
    BY AnswerRingSteps, <1>2, <2>1, <2>4, <2>5
<1>5. QED
  BY <1>1, <1>3, <1>4 DEF PerformedInv, Sent

LEMMA AnsweredStep ==
    ASSUME TypeOK, IdInv, FrameInv, UpInv, PerformedInv, AnsweredInv, OpsNeverStream, [Next]_vars
    PROVE  AnsweredInv' /\ OpsNeverStream'
<1>1. \A c \in Caller : \/ slot'[c] \in {Empty, Dropped}
                        \/ slot'[c].kind \in {"ok", "err"} /\ executed'[c] = 1
  <2>1. CASE slot' = slot
    BY <2>1, ExecutedOnceStays DEF AnsweredInv
  <2>2. CASE DrainPending
    BY <2>2, ExecutedOnceStays DEF DrainPending, AnsweredInv
  <2>3. CASE ReadAnswer
    <3> DEFINE resp == Head(n2c)
    <3>1. n2c # <<>> /\ n2c \in Seq(RespFrame) /\ resp.kind \in {"ok", "err"}
      BY <2>3 DEF ReadAnswer, TypeOK
    <3>2. 1 \in 1..Len(n2c) /\ resp = n2c[1]
      BY <3>1
    <3>3. resp.op \in Caller /\ Belongs(resp) /\ executed[resp.op] = 1
      BY <3>1, <3>2 DEF FrameInv, PerformedInv
    <3>4. \A c \in Waiting(resp.id) : c = resp.op
      BY <3>3 DEF Waiting, FrameInv, IdInv, Belongs
    <3>5. \A c \in Waiting(resp.id) : slot'[c].kind \in {"ok", "err"} /\ executed'[c] = 1
      BY <2>3, <3>1, <3>3, <3>4, ExecutedOnceStays DEF ReadAnswer, Waiting
    <3>6. \A c \in Caller : c \notin Waiting(resp.id) => slot'[c] = slot[c]
      BY <2>3 DEF ReadAnswer
    <3>7. QED
      BY <3>5, <3>6, ExecutedOnceStays DEF AnsweredInv
  <2>4. QED
    BY SlotSteps, <2>1, <2>2, <2>3
<1>2. ASSUME NEW c \in Ops
      PROVE  /\ pc'[c] \in {"ok", "err"} => executed'[c] = 1
             /\ pc'[c] \notin {"push", "recheck", "streaming", "refused"}
  <2>1. c \in Caller /\ c \notin Watchers
    BY LaneAssumption DEF Caller
  <2>2. CASE pc'[c] = pc[c]
    BY <2>1, <2>2, ExecutedOnceStays DEF AnsweredInv, OpsNeverStream
  <2>3. CASE pc'[c] # pc[c]
    <3>1. PICK d \in Caller : \/ Start(d) \/ CheckAlive(d) \/ Insert(d) \/ SendReq(d) \/ Cancel(d)
                             \/ PushSubscriber(d) \/ Recheck(d) \/ Await(d)
      BY <2>3, NextCases DEF ClientDrop, WriterRecv, WriterSend, WriterDead,
         WriterClose, ReadAnswer, ReadEvent, ReadEnd, ReaderDead, ReaderClose, DrainPending,
         DrainSubs, NodeTake, NodeEvent, NodeGarbage, NodeClose, NodeAnswer, vars, callerVars
    <3>2. CASE \/ Start(d) \/ CheckAlive(d) \/ Insert(d) \/ SendReq(d) \/ Cancel(d)
               \/ PushSubscriber(d) \/ Recheck(d)
      BY <2>1, <2>3, <3>2 DEF Start, CheckAlive, Insert, SendReq, Cancel, PushSubscriber, Recheck,
         TypeOK, OpsNeverStream
    <3>3. CASE Await(d)
      <4>1. d = c /\ pc'[c] = AwaitResult(c) /\ slot[c] # Empty /\ executed' = executed
        BY <2>1, <2>3, <3>3 DEF Await, TypeOK, nodeVars
      <4>2. CASE slot[c] = Dropped
        BY <4>1, <4>2 DEF AwaitResult
      <4>3. CASE slot[c].kind \in {"ok", "err"} /\ executed[c] = 1
        BY <2>1, <4>1, <4>3 DEF AwaitResult, Dropped
      <4>4. QED
        BY <2>1, <4>1, <4>2, <4>3 DEF AnsweredInv
    <3>4. QED
      BY <3>1, <3>2, <3>3
  <2>4. QED
    BY <2>2, <2>3
<1>3. QED
  BY <1>1, <1>2 DEF AnsweredInv, OpsNeverStream

LEMMA LaneInvStart == Init => LaneInv
<1> SUFFICES ASSUME Init PROVE LaneInv
  OBVIOUS
<1>1. TypeOK /\ PushInv
  BY TypeStart
<1>2. IdInv /\ FrameInv
  BY DEF Init, IdInv, FrameInv
<1>3. UpInv /\ OneCopyInv /\ PerformedInv
  BY DEF Init, UpInv, OneCopyInv, PerformedInv
<1>4. AnsweredInv /\ OpsNeverStream
  BY DEF Init, AnsweredInv, OpsNeverStream, Caller
<1>5. QED
  BY <1>1, <1>2, <1>3, <1>4 DEF LaneInv

LEMMA LaneInvStep ==
    ASSUME LaneInv, [Next]_vars
    PROVE  LaneInv'
<1>1. TypeOK' /\ PushInv'
  BY TypeStep DEF LaneInv
<1>2. IdInv' /\ FrameInv'
  BY IdInvStep, PendingStep, RequestStep, AnswerStep DEF LaneInv, FrameInv, RequestsBelong, Belongs
<1>3. UpInv' /\ OneCopyInv'
  BY UpStep, OneCopyStep DEF LaneInv
<1>4. PerformedInv'
  BY PerformedStep DEF LaneInv
<1>5. AnsweredInv' /\ OpsNeverStream'
  BY AnsweredStep DEF LaneInv
<1>6. QED
  BY <1>1, <1>2, <1>3, <1>4, <1>5 DEF LaneInv

-----------------------------------------------------------------------------
(* The transport choice on top of it.                                      *)

LEMMA MeshCases ==
    ASSUME [MeshNext]_allVars
    PROVE  \/ \E c \in Caller : CallByLane(c)
           \/ \E c \in Caller : CallByHttp(c)
           \/ \E c \in Caller : LaneAnswered(c)
           \/ \E c \in Caller : FallBack(c)
           \/ \E c \in Caller : HttpPerform(c)
           \/ \E c \in Caller : HttpOk(c)
           \/ \E c \in Caller : HttpErr(c)
           \/ LaneStep
           \/ UNCHANGED allVars
  BY DEF MeshNext

(* Every step of the client is one of the lane's, or leaves the lane alone.*)
LEMMA LaneSimulated ==
    ASSUME [MeshNext]_allVars
    PROVE  [Next]_vars
<1>1. ASSUME NEW c \in Caller, CallByLane(c) PROVE Next
  BY <1>1 DEF CallByLane, Next
<1>2. CASE LaneStep
  BY <1>2 DEF LaneStep, Next
<1>3. ASSUME NEW c \in Caller,
             \/ CallByHttp(c) \/ LaneAnswered(c) \/ FallBack(c)
             \/ HttpPerform(c) \/ HttpOk(c) \/ HttpErr(c)
      PROVE  UNCHANGED vars
  BY <1>3 DEF CallByHttp, LaneAnswered, LaneAnsweredAs, FallBack, FallBackOn, HttpPerform,
     HttpOk, HttpErr, HttpReturns
<1>4. QED
  BY MeshCases, <1>1, <1>2, <1>3 DEF allVars

LEMMA MeshTypeStep ==
    ASSUME MeshTypeOK, [MeshNext]_allVars
    PROVE  MeshTypeOK'
<1> USE DEF MeshTypeOK
<1>1. ASSUME NEW c \in Caller, CallByLane(c) \/ CallByHttp(c) PROVE MeshTypeOK'
  BY <1>1 DEF CallByLane, CallByHttp, CellFilled
<1>2. ASSUME NEW c \in Caller, LaneAnswered(c) PROVE MeshTypeOK'
  <2>1. PICK r \in {"ok", "err"} : LaneAnsweredAs(c, r)
    BY <1>2, Zenon DEF LaneAnswered
  <2>2. QED
    BY <2>1 DEF LaneAnsweredAs
<1>3. ASSUME NEW c \in Caller, FallBack(c) \/ HttpPerform(c) \/ HttpOk(c) \/ HttpErr(c)
      PROVE  MeshTypeOK'
  BY <1>3 DEF FallBack, FallBackOn, HttpPerform, HttpOk, HttpErr, HttpReturns
<1>4. CASE LaneStep \/ UNCHANGED allVars
  BY <1>4 DEF LaneStep, allVars, meshVars
<1>5. QED
  BY MeshCases, <1>1, <1>2, <1>3, <1>4

(***************************************************************************)
(* Type correctness of the transport choice.                               *)
(***************************************************************************)
THEOREM MeshTypeCorrect == MeshSpec => []MeshTypeOK
<1>1. MeshInit => MeshTypeOK
  BY DEF MeshInit, MeshTypeOK
<1>2. MeshTypeOK /\ [MeshNext]_allVars => MeshTypeOK'
  BY MeshTypeStep
<1>3. QED
  BY <1>1, <1>2, PTL DEF MeshSpec

(* Only calls in progress on the lane move with its steps.                 *)
LEMMA LaneMoves ==
    ASSUME TypeOK, LaneStep, NEW c \in Caller, pc'[c] # pc[c]
    PROVE  /\ pc[c] \notin {"idle", "ok", "err", "gone", "refused", "cancelled"}
           /\ pc'[c] # "idle"
           /\ pc'[c] = "cancelled" => Cancel(c)
<1>1. PICK d \in Caller : \/ CheckAlive(d) \/ Insert(d) \/ SendReq(d) \/ Cancel(d)
                         \/ PushSubscriber(d) \/ Recheck(d) \/ Await(d)
  BY DEF LaneStep, CallStep, WriterStep, ReaderStep, NodeStep, WriterRecv, WriterSend, WriterDead,
     WriterClose, ReadAnswer, ReadEvent, ReadEnd, ReaderDead, ReaderClose, DrainPending,
     DrainSubs, NodeTake, NodeEvent, NodeGarbage, NodeClose, NodeAnswer, callerVars
<1>2. CASE CheckAlive(d) \/ Insert(d) \/ SendReq(d) \/ Cancel(d) \/ PushSubscriber(d) \/ Recheck(d)
  BY <1>2 DEF CheckAlive, Insert, SendReq, Cancel, PushSubscriber, Recheck, TypeOK
<1>3. CASE Await(d)
  <2>1. AwaitResult(d) \in {"gone", "refused", "err", "push", "ok"}
    BY DEF AwaitResult
  <2>2. pc[d] = "await" /\ pc' = [pc EXCEPT ![d] = AwaitResult(d)]
    BY <1>3 DEF Await
  <2>3. QED
    BY <2>1, <2>2 DEF TypeOK
<1>4. QED
  BY <1>1, <1>2, <1>3

LEMMA ChoiceStep ==
    ASSUME LaneInv, MeshTypeOK, ChoiceInv, [MeshNext]_allVars
    PROVE  ChoiceInv'
<1>1. Ops \subseteq Caller /\ Ops \cap Watchers = {}
  BY LaneAssumption DEF Caller
<1> USE DEF ChoiceInv, MeshTypeOK
<1>2. ASSUME NEW c \in Caller, CallByLane(c) PROVE ChoiceInv'
  <2>1. /\ via[c] = "idle" /\ via' = [via EXCEPT ![c] = "lane"] /\ UNCHANGED <<result, http>>
        /\ \E v \in {"push", "check"} : pc' = [pc EXCEPT ![c] = v]
    BY <1>2 DEF CallByLane, Start
  <2>2. QED
    BY <1>1, <2>1 DEF LaneInv, TypeOK
<1>3. ASSUME NEW c \in Caller, CallByHttp(c) PROVE ChoiceInv'
  BY <1>1, <1>3 DEF CallByHttp, vars, callerVars
<1>4. ASSUME NEW c \in Caller, LaneAnswered(c) PROVE ChoiceInv'
  <2>1. PICK r \in {"ok", "err"} : LaneAnsweredAs(c, r)
    BY <1>4, Zenon DEF LaneAnswered
  <2>2. QED
    BY <1>1, <2>1 DEF LaneAnsweredAs, vars, callerVars, LaneInv, OpsNeverStream
<1>5. ASSUME NEW c \in Caller, FallBack(c) PROVE ChoiceInv'
  BY <1>1, <1>5 DEF FallBack, FallBackOn, vars, callerVars, LaneInv, OpsNeverStream
<1>6. ASSUME NEW c \in Caller, HttpPerform(c) PROVE ChoiceInv'
  BY <1>1, <1>6 DEF HttpPerform, vars, callerVars
<1>7. ASSUME NEW c \in Caller, HttpOk(c) \/ HttpErr(c) PROVE ChoiceInv'
  BY <1>1, <1>7 DEF HttpOk, HttpErr, HttpReturns, vars, callerVars
<1>8. CASE LaneStep
  <2>1. UNCHANGED meshVars
    BY <1>8 DEF LaneStep
  <2>2. \A c \in Ops : \/ pc'[c] = pc[c]
                       \/ /\ pc[c] \notin {"idle", "ok", "err", "gone", "refused", "cancelled"}
                          /\ pc'[c] # "idle"
    BY <1>1, <1>8, LaneMoves DEF LaneInv
  <2>3. QED
    BY <1>1, <2>1, <2>2 DEF meshVars
<1>9. CASE UNCHANGED allVars
  BY <1>9 DEF allVars, vars, meshVars, callerVars
<1>10. QED
  BY MeshCases, <1>2, <1>3, <1>4, <1>5, <1>6, <1>7, <1>8, <1>9

(* The inductive invariant of the client.                                  *)
MeshInv == LaneInv /\ MeshTypeOK /\ ChoiceInv

LEMMA MeshInvHolds == MeshSpec => []MeshInv
<1>1. MeshInit => MeshInv
  <2>1. MeshInit => MeshTypeOK /\ ChoiceInv
    BY DEF MeshInit, MeshTypeOK, ChoiceInv, Init, Caller
  <2>2. MeshInit => LaneInv
    BY LaneInvStart DEF MeshInit
  <2>3. QED
    BY <2>1, <2>2 DEF MeshInv
<1>2. MeshInv /\ [MeshNext]_allVars => MeshInv'
  <2> SUFFICES ASSUME MeshInv, [MeshNext]_allVars PROVE MeshInv'
    OBVIOUS
  <2>1. LaneInv /\ MeshTypeOK /\ ChoiceInv
    BY DEF MeshInv
  <2>2. LaneInv'
    BY <2>1, LaneSimulated, LaneInvStep
  <2>3. MeshTypeOK' /\ ChoiceInv'
    BY <2>1, MeshTypeStep, ChoiceStep
  <2>4. QED
    BY <2>2, <2>3 DEF MeshInv
<1>3. QED
  BY <1>1, <1>2, PTL DEF MeshSpec

(***************************************************************************)
(* An op the node answered over the lane, with success or a refusal, was   *)
(* performed exactly once and is never repeated over HTTP.                 *)
(***************************************************************************)
THEOREM AnsweredOnce == MeshSpec => []AnsweredIsNeverRetried
<1>1. MeshInv => AnsweredIsNeverRetried
  BY DEF MeshInv, LaneInv, AnsweredInv, ChoiceInv, MeshTypeOK, AnsweredIsNeverRetried, Caller
<1>2. QED
  BY MeshInvHolds, <1>1, PTL

-----------------------------------------------------------------------------
(* The client implements MeshOp: what each step is to the caller of an op. *)

Tells(c, s, t) == CallState(c) = s /\ CallState(c)' = t

LEMMA AbstractStep ==
    ASSUME NEW c \in Ops,
           \A d \in Ops : d # c => CallState(d)' = CallState(d) /\ Performed(d)' = Performed(d),
           \/ Tells(c, "idle", "running") /\ Performed(c)' = Performed(c)
           \/ Tells(c, "running", "failed") /\ Performed(c)' = Performed(c)
           \/ Tells(c, "running", "ok") /\ Performed(c)' = Performed(c) /\ Performed(c) > 0
           \/ /\ CallState(c) # "idle" /\ CallState(c)' = CallState(c)
              /\ Performed(c) < 2 /\ Performed(c)' = Performed(c) + 1
    PROVE  Abstract!Next
<1> DEFINE state == [d \in Ops |-> CallState(d)]
           performed == [d \in Ops |-> Performed(d)]
<1>1. /\ state' = [d \in Ops |-> CallState(d)'] /\ state[c] = CallState(c)
      /\ performed' = [d \in Ops |-> Performed(d)'] /\ performed[c] = Performed(c)
  OBVIOUS
<1>2. state' = [state EXCEPT ![c] = CallState(c)']
  BY <1>1
<1>3. performed' = [performed EXCEPT ![c] = Performed(c)']
  BY <1>1
<1>4. CallState(c)' = CallState(c) => state' = state
  BY <1>1
<1>5. Performed(c)' = Performed(c) => performed' = performed
  BY <1>1
<1>6. Abstract!Invoke(c) \/ Abstract!Fail(c) \/ Abstract!Succeed(c) \/ Abstract!Perform(c)
  BY <1>1, <1>2, <1>3, <1>4, <1>5 DEF Tells, Abstract!Invoke, Abstract!Fail, Abstract!Succeed,
     Abstract!Perform
<1>7. QED
  BY <1>6 DEF Abstract!Next

(* A step that changes nothing a caller or the node can tell.              *)
Unseen(d) == CallState(d)' = CallState(d) /\ Performed(d)' = Performed(d)

LEMMA UnseenStutters ==
    ASSUME \A d \in Ops : Unseen(d)
    PROVE  UNCHANGED Abstract!vars
  BY DEF Unseen, Abstract!vars

LEMMA UntouchedIsUnseen ==
    ASSUME NEW d \in Ops, via'[d] = via[d], result'[d] = result[d], http'[d] = http[d],
           executed'[d] = executed[d], pc'[d] = pc[d]
    PROVE  Unseen(d)
  BY DEF Unseen, CallState, Performed

(* The steps of the lane: the node performs an op, or its caller gives up. *)
LEMMA LaneStepRefines ==
    ASSUME MeshInv, LaneStep
    PROVE  Abstract!Next \/ UNCHANGED Abstract!vars
<1>1. Ops \subseteq Caller /\ UNCHANGED <<via, result, http>> /\ TypeOK /\ UpInv
  BY DEF Caller, LaneStep, meshVars, MeshInv, LaneInv
<1>2. [Next]_vars
  BY LaneSimulated DEF MeshNext
<1>3. CASE NodeTake
  <2>1. PICK c \in Caller : /\ UNCHANGED pc /\ Underway(c)
                           /\ executed' = [executed EXCEPT ![c] = 1]
    BY <1>1, <1>3, Take
  <2>2. \A d \in Ops : d # c => Unseen(d)
    BY <1>1, <2>1, UntouchedIsUnseen DEF TypeOK
  <2>3. CASE c \in Ops
    <3>1. executed[c] = 0 /\ executed'[c] = 1 /\ pc[c] # "idle"
      BY <1>1, <2>1 DEF Underway, Sent, TypeOK
    <3>2. http[c] \in {0, 1} /\ http'[c] = http[c] /\ via[c] # "idle"
      BY <1>1, <2>3, <3>1 DEF MeshInv, ChoiceInv
    <3>3. Performed(c) < 2 /\ Performed(c)' = Performed(c) + 1
      BY <3>1, <3>2 DEF Performed
    <3>4. CallState(c) # "idle" /\ CallState(c)' = CallState(c)
      BY <1>1, <2>1, <3>2 DEF CallState
    <3>5. QED
      BY <2>2, <2>3, <3>3, <3>4, AbstractStep DEF Unseen
  <2>4. CASE c \notin Ops
    BY <2>2, <2>4, UnseenStutters
  <2>5. QED
    BY <2>3, <2>4
<1>4. CASE executed' = executed
  <2>1. CASE \A d \in Ops : pc'[d] = "cancelled" => pc[d] = "cancelled"
    <3>1. \A d \in Ops : pc[d] = "cancelled" => pc'[d] = "cancelled"
      BY <1>1, LaneMoves
    <3>2. \A d \in Ops : pc[d] # pc'[d] => via[d] # "idle"
      BY <1>1, LaneMoves DEF MeshInv, ChoiceInv
    <3>3. \A d \in Ops : Unseen(d)
      BY <1>1, <1>4, <2>1, <3>1, <3>2 DEF Unseen, CallState, Performed
    <3>4. QED
      BY <3>3, UnseenStutters
  <2>2. ASSUME NEW c \in Ops, pc'[c] = "cancelled", pc[c] # "cancelled" PROVE Abstract!Next
    <3>1. Cancel(c) /\ pc[c] \notin {"idle", "ok", "err", "gone", "refused", "cancelled"}
      BY <1>1, <2>2, LaneMoves
    <3>2. \A d \in Ops : d # c => Unseen(d)
      BY <1>1, <1>4, <3>1, UntouchedIsUnseen DEF Cancel, TypeOK
    <3>3. via[c] = "lane" /\ result[c] = "none"
      BY <1>1, <2>2, <3>1 DEF MeshInv, ChoiceInv, MeshTypeOK
    <3>4. Tells(c, "running", "failed") /\ Performed(c)' = Performed(c)
      BY <1>1, <1>4, <2>2, <3>3 DEF Tells, CallState, Performed
    <3>5. QED
      BY <3>2, <3>4, AbstractStep DEF Unseen
  <2>3. QED
    BY <2>1, <2>2
<1>5. QED
  BY <1>2, <1>3, <1>4, ExecutedSteps

LEMMA ChoiceRefines ==
    ASSUME MeshInv, NEW c \in Caller,
           \/ CallByLane(c) \/ CallByHttp(c) \/ LaneAnswered(c) \/ FallBack(c)
           \/ HttpPerform(c) \/ HttpOk(c) \/ HttpErr(c)
    PROVE  Abstract!Next \/ UNCHANGED Abstract!vars
<1>1. Ops \subseteq Caller /\ TypeOK /\ MeshTypeOK /\ UNCHANGED executed
  BY DEF Caller, MeshInv, LaneInv, CallByLane, Start, CallByHttp, LaneAnswered, LaneAnsweredAs,
     FallBack, FallBackOn, HttpPerform, HttpOk, HttpErr, HttpReturns, vars, nodeVars
<1>2. \A d \in Ops : d # c => Unseen(d)
  BY <1>1, UntouchedIsUnseen DEF CallByLane, Start, CallByHttp, LaneAnswered, LaneAnsweredAs,
     FallBack, FallBackOn, HttpPerform, HttpOk, HttpErr, HttpReturns, vars, callerVars,
     TypeOK, MeshTypeOK
<1>3. CASE c \notin Ops
  BY <1>2, <1>3, UnseenStutters
<1>4. CASE c \in Ops
  <2> USE DEF MeshTypeOK
  <2>1. c \in Caller /\ c \notin Watchers
    BY <1>4, LaneAssumption
  <2>2. /\ http[c] \in {0, 1} /\ executed[c] \in {0, 1}
        /\ via[c] # "done" => result[c] = "none"
        /\ pc[c] \in {"ok", "err"} => executed[c] = 1
    BY <1>1, <1>4 DEF MeshInv, LaneInv, PerformedInv, AnsweredInv, ChoiceInv
  <2>3. CASE CallByLane(c) \/ CallByHttp(c)
    <3>1. Performed(c)' = Performed(c)
      BY <1>1, <2>3 DEF CallByLane, CallByHttp, Performed
    <3>2. via'[c] \in {"lane", "http"} /\ via[c] = "idle" /\ result'[c] = "none"
      BY <1>1, <2>1, <2>2, <2>3 DEF CallByLane, CallByHttp
    <3>3. pc'[c] # "cancelled"
      BY <1>1, <1>4, <2>1, <2>3 DEF CallByLane, CallByHttp, Start, TypeOK, vars, callerVars,
         MeshInv, ChoiceInv
    <3>4. Tells(c, "idle", "running")
      BY <3>2, <3>3 DEF Tells, CallState
    <3>5. QED
      BY <1>2, <1>4, <3>1, <3>4, AbstractStep DEF Unseen
  <2>4. CASE LaneAnswered(c)
    <3>1. PICK r \in {"ok", "err"} : LaneAnsweredAs(c, r)
      BY <2>4, Zenon DEF LaneAnswered
    <3>2. Performed(c)' = Performed(c) /\ Performed(c) > 0
      BY <1>1, <1>4, <2>2, <3>1 DEF LaneAnsweredAs, Performed, MeshInv, LaneInv, OpsNeverStream
    <3>3. CallState(c) = "running" /\ CallState(c)' \in {"ok", "failed"}
      BY <1>1, <2>1, <2>2, <3>1 DEF LaneAnsweredAs, CallState
    <3>4. QED
      BY <1>2, <1>4, <3>2, <3>3, AbstractStep DEF Unseen, Tells
  <2>5. CASE FallBack(c)
    <3>1. Unseen(c)
      BY <1>1, <2>1, <2>2, <2>5 DEF FallBack, FallBackOn, Unseen, CallState, Performed,
         vars, callerVars
    <3>2. QED
      BY <1>2, <3>1, UnseenStutters
  <2>6. CASE HttpPerform(c)
    <3>1. Performed(c) < 2 /\ Performed(c)' = Performed(c) + 1
      BY <1>1, <2>1, <2>2, <2>6 DEF HttpPerform, Performed
    <3>2. CallState(c) # "idle" /\ CallState(c)' = CallState(c)
      BY <2>2, <2>6 DEF HttpPerform, CallState, vars, callerVars
    <3>3. QED
      BY <1>2, <1>4, <3>1, <3>2, AbstractStep DEF Unseen
  <2>7. CASE HttpOk(c) \/ HttpErr(c)
    <3>1. PICK r \in {"ok", "err"} : HttpReturns(c, r) /\ (r = "ok" => http[c] > 0)
      BY <2>7 DEF HttpOk, HttpErr
    <3>2. Performed(c)' = Performed(c) /\ (r = "ok" => Performed(c) > 0)
      BY <1>1, <2>2, <3>1 DEF HttpReturns, Performed
    <3>3. pc[c] # "cancelled"
      BY <1>4, <3>1 DEF HttpReturns, MeshInv, ChoiceInv
    <3>4. CallState(c) = "running" /\ CallState(c)' = IF r = "ok" THEN "ok" ELSE "failed"
      BY <1>1, <2>1, <2>2, <3>1, <3>3 DEF HttpReturns, CallState
    <3>5. QED
      BY <1>2, <1>4, <3>2, <3>4, AbstractStep DEF Unseen, Tells
  <2>8. QED
    BY <2>3, <2>4, <2>5, <2>6, <2>7
<1>5. QED
  BY <1>3, <1>4

(***************************************************************************)
(* Refinement: whichever transport carried an op and wherever the lane     *)
(* died, its caller sees MeshOp: success only for an op the node performed,*)
(* one report per call, and at most one performance per transport.         *)
(***************************************************************************)
THEOREM Refinement == MeshSpec => ImplementsMeshOp
<1>1. MeshInit => Abstract!Init
  <2> SUFFICES ASSUME MeshInit PROVE Abstract!Init
    OBVIOUS
  <2>1. \A c \in Ops : CallState(c) = "idle" /\ Performed(c) = 0
    BY DEF MeshInit, Init, CallState, Performed, Caller
  <2>2. QED
    BY <2>1 DEF Abstract!Init
<1>2. MeshInv /\ [MeshNext]_allVars => [Abstract!Next]_(Abstract!vars)
  <2> SUFFICES ASSUME MeshInv, [MeshNext]_allVars
               PROVE  Abstract!Next \/ UNCHANGED Abstract!vars
    OBVIOUS
  <2>1. CASE LaneStep
    BY <2>1, LaneStepRefines
  <2>2. CASE UNCHANGED allVars
    <3>1. \A c \in Ops : Unseen(c)
      BY <2>2 DEF Unseen, CallState, Performed, allVars, vars, meshVars, callerVars, nodeVars
    <3>2. QED
      BY <3>1, UnseenStutters
  <2>3. QED
    BY <2>1, <2>2, MeshCases, ChoiceRefines
<1>3. QED
  BY <1>1, <1>2, MeshInvHolds, PTL DEF MeshSpec, ImplementsMeshOp, Abstract!Spec
=============================================================================
