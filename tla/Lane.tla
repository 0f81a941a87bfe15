-------------------------------- MODULE Lane --------------------------------
(***************************************************************************)
(* The lane multiplexer of src/src/lane.rs.  Callers (async tasks on any   *)
(* executor) pipeline ops over one shared-memory flow; a writer thread is  *)
(* the only producer of the request ring, a reader thread the only         *)
(* consumer of the response ring.  They share the pending-op map, the list *)
(* of stream subscribers and the `dead` flag.  The rings and the node      *)
(* behind them belong to the ce-lane crate, outside the repository: a ring *)
(* is a bounded FIFO, either end may close the flow, and frames in flight  *)
(* at that moment may or may not still be read.                            *)
(***************************************************************************)
EXTENDS Integers, Sequences, FiniteSets

CONSTANTS
    Ops,            \* callers of op()
    Watchers,       \* callers of watch_stream()
    None,           \* no caller, no frame
    RingSlots,      \* slots of each ring (64 in the code)
    MaxEvents,      \* bound: events the node pushes
    MaxGarbage      \* bound: response frames that do not decode

Caller == Ops \cup Watchers

ASSUME LaneAssumption ==
    /\ Ops \cap Watchers = {}
    /\ None \notin Caller
    /\ RingSlots \in Nat \ {0}
    /\ MaxEvents \in Nat /\ MaxGarbage \in Nat

VARIABLES
    \* callers
    pc,             \* where each call is, or what it returned
    id,             \* the id its op drew from next_id
    slot,           \* the oneshot each op awaits
    next_id, watch_started,
    \* shared by callers and threads
    pending,        \* id -> waiting caller, as a set of pairs
    subscribers,    \* watchers whose stream has a live sender
    dead,
    req,            \* the std::sync::mpsc channel req_tx -> req_rx
    dropped,        \* the LaneClient was dropped, req_tx with it
    \* threads
    writer, out, reader,
    \* the flow and the node behind it
    closed, c2n, n2c, node, inbox, executed, events, garbage

callerVars == <<pc, id, slot, next_id, watch_started>>
sharedVars == <<pending, subscribers, dead, req, dropped>>
threadVars == <<writer, out, reader>>
ringVars == <<closed, c2n, n2c>>
nodeVars == <<node, inbox, executed, events, garbage>>
vars == <<callerVars, sharedVars, threadVars, ringVars, nodeVars>>

InOp == {"check", "insert", "send", "await"}
InWatch == {"push", "recheck"}
Returned == {"ok", "err", "gone", "refused", "streaming", "cancelled"}

ReqFrame == [id: Nat, op: Caller]
RespFrame == [kind: {"ok", "err", "event", "garbage"}, id: Nat, op: Caller \cup {None}]

Empty == [kind |-> "empty", op |-> None]
Dropped == [kind |-> "dropped", op |-> None]

(* Type invariant.                                                         *)
TypeOK ==
    /\ pc \in [Caller -> {"idle"} \cup InOp \cup InWatch \cup Returned]
    /\ id \in [Caller -> Nat]
    /\ slot \in [Caller -> [kind: {"empty", "dropped", "ok", "err"}, op: Caller \cup {None}]]
    /\ next_id \in Nat
    /\ watch_started \in BOOLEAN
    /\ pending \subseteq Nat \X Caller
    /\ subscribers \subseteq Watchers
    /\ dead \in BOOLEAN
    /\ req \in Seq(ReqFrame)
    /\ dropped \in BOOLEAN
    /\ writer \in {"recv", "send", "dead", "close", "stopped"}
    /\ out \in ReqFrame \cup {None}
    /\ writer = "send" => out \in ReqFrame
    /\ reader \in {"recv", "dead", "close", "drainPending", "drainSubs", "stopped"}
    /\ closed \in BOOLEAN
    /\ c2n \in Seq(ReqFrame) /\ n2c \in Seq(RespFrame)
    /\ node \in {"up", "gone"}
    /\ inbox \subseteq ReqFrame
    /\ executed \in [Caller -> Nat]
    /\ events \in Nat /\ garbage \in Nat

Init ==
    /\ pc = [c \in Caller |-> "idle"]
    /\ id = [c \in Caller |-> 0]
    /\ slot = [c \in Caller |-> Empty]
    /\ next_id = 1 /\ watch_started = FALSE
    /\ pending = {} /\ subscribers = {} /\ dead = FALSE
    /\ req = <<>> /\ dropped = FALSE
    /\ writer = "recv" /\ out = None /\ reader = "recv"
    /\ closed = FALSE /\ c2n = <<>> /\ n2c = <<>>
    /\ node = "up" /\ inbox = {}
    /\ executed = [c \in Caller |-> 0]
    /\ events = 0 /\ garbage = 0

-----------------------------------------------------------------------------
(* op(): one call per caller *)

(* A caller enters op(); a watcher first looks whether Watch already ran.  *)
Start(c) ==
    /\ pc[c] = "idle" /\ ~dropped
    /\ pc' = [pc EXCEPT ![c] = IF c \in Watchers /\ watch_started THEN "push" ELSE "check"]
    /\ UNCHANGED <<id, slot, next_id, watch_started, sharedVars, threadVars, ringVars, nodeVars>>

CheckAlive(c) ==
    /\ pc[c] = "check"
    /\ pc' = [pc EXCEPT ![c] = IF dead THEN "gone" ELSE "insert"]
    /\ UNCHANGED <<id, slot, next_id, watch_started, sharedVars, threadVars, ringVars, nodeVars>>

InsertReusesId(c) ==
    /\ pc[c] = "insert"
    /\ pc' = [pc EXCEPT ![c] = "send"]
    /\ id' = [id EXCEPT ![c] = next_id] /\ next_id' = next_id
    /\ pending' = {p \in pending : p[1] # next_id} \cup {<<next_id, c>>}
    /\ UNCHANGED <<slot, watch_started, subscribers, dead, req, dropped, threadVars, ringVars, nodeVars>>

(* Draw an id and register the oneshot under the pending lock.             *)
Insert(c) ==
    /\ pc[c] = "insert"
    /\ pc' = [pc EXCEPT ![c] = "send"]
    /\ id' = [id EXCEPT ![c] = next_id] /\ next_id' = next_id + 1
    /\ pending' = {p \in pending : p[1] # next_id} \cup {<<next_id, c>>}
    /\ UNCHANGED <<slot, watch_started, subscribers, dead, req, dropped, threadVars, ringVars, nodeVars>>

(* Hand the frame to the writer; it fails once the writer dropped req_rx.  *)
SendReq(c) ==
    /\ pc[c] = "send"
    /\ \/ /\ writer # "stopped"
          /\ req' = Append(req, [id |-> id[c], op |-> c])
          /\ pc' = [pc EXCEPT ![c] = "await"]
          /\ UNCHANGED pending
       \/ /\ writer = "stopped"
          /\ pending' = {p \in pending : p[1] # id[c]}
          /\ pc' = [pc EXCEPT ![c] = "gone"]
          /\ UNCHANGED req
    /\ UNCHANGED <<id, slot, next_id, watch_started, subscribers, dead, dropped, threadVars, ringVars, nodeVars>>

(* What a completed oneshot means: a dropped sender is LaneGone, the rest  *)
(* is the node's answer.  A watcher goes on to register its stream when    *)
(* the node accepted Watch.                                                *)
AwaitResult(c) ==
    IF slot[c] = Dropped THEN "gone"
    ELSE IF slot[c].kind = "err" THEN IF c \in Watchers THEN "refused" ELSE "err"
    ELSE IF c \in Watchers THEN "push" ELSE "ok"

(* rx.await resolves.                                                      *)
Await(c) ==
    /\ pc[c] = "await" /\ slot[c] # Empty
    /\ pc' = [pc EXCEPT ![c] = AwaitResult(c)]
    /\ watch_started' = (watch_started \/ pc'[c] = "push")
    /\ UNCHANGED <<id, slot, next_id, sharedVars, threadVars, ringVars, nodeVars>>

(* The caller drops the future it awaits, or the stream it holds.          *)
Cancel(c) ==
    /\ pc[c] \in {"await", "streaming"}
    /\ pc' = [pc EXCEPT ![c] = "cancelled"]
    /\ UNCHANGED <<id, slot, next_id, watch_started, sharedVars, threadVars, ringVars, nodeVars>>

-----------------------------------------------------------------------------
(* watch_stream(): register the stream, then look at `dead` again *)

PushSubscriber(c) ==
    /\ pc[c] = "push"
    /\ subscribers' = subscribers \cup {c}
    /\ pc' = [pc EXCEPT ![c] = "recheck"]
    /\ UNCHANGED <<id, slot, next_id, watch_started, pending, dead, req, dropped, threadVars, ringVars, nodeVars>>

RecheckNothing(c) ==
    /\ pc[c] = "recheck"
    /\ pc' = [pc EXCEPT ![c] = "streaming"]
    /\ UNCHANGED <<id, slot, next_id, watch_started, sharedVars, threadVars, ringVars, nodeVars>>

Recheck(c) ==
    /\ pc[c] = "recheck"
    /\ pc' = [pc EXCEPT ![c] = IF dead THEN "gone" ELSE "streaming"]
    /\ UNCHANGED <<id, slot, next_id, watch_started, sharedVars, threadVars, ringVars, nodeVars>>

(* The owner drops the client; no call is in progress, streams may live on.*)
ClientDrop ==
    /\ ~dropped /\ \A c \in Caller : pc[c] \notin InOp \cup InWatch
    /\ dropped' = TRUE
    /\ UNCHANGED <<callerVars, pending, subscribers, dead, req, threadVars, ringVars, nodeVars>>

-----------------------------------------------------------------------------
(* The writer thread *)

WriterRecvIgnoresEnd ==
    /\ writer = "recv"
    /\ \/ req # <<>> /\ out' = Head(req) /\ req' = Tail(req) /\ writer' = "send"
       \/ req = <<>> /\ dropped /\ writer' = "send" /\ UNCHANGED <<out, req>>
    /\ UNCHANGED <<callerVars, pending, subscribers, dead, dropped, reader, ringVars, nodeVars>>

(* req_rx.recv: the next frame, or the end once every sender is dropped.   *)
WriterRecv ==
    /\ writer = "recv"
    /\ \/ req # <<>> /\ out' = Head(req) /\ req' = Tail(req) /\ writer' = "send"
       \/ req = <<>> /\ dropped /\ writer' = "dead" /\ UNCHANGED <<out, req>>
    /\ UNCHANGED <<callerVars, pending, subscribers, dead, dropped, reader, ringVars, nodeVars>>

(* ep.send blocks while the ring is full and fails once the flow is closed.*)
WriterSend ==
    /\ writer = "send"
    /\ \/ ~closed /\ Len(c2n) < RingSlots /\ c2n' = Append(c2n, out) /\ writer' = "recv"
       \/ closed /\ writer' = "dead" /\ UNCHANGED c2n
    /\ out' = None
    /\ UNCHANGED <<callerVars, sharedVars, reader, closed, n2c, nodeVars>>

WriterDead ==
    /\ writer = "dead" /\ dead' = TRUE /\ writer' = "close"
    /\ UNCHANGED <<callerVars, pending, subscribers, req, dropped, out, reader, ringVars, nodeVars>>

(* ep.close(), then the thread ends and drops req_rx.                      *)
WriterClose ==
    /\ writer = "close" /\ closed' = TRUE /\ writer' = "stopped"
    /\ UNCHANGED <<callerVars, sharedVars, out, reader, c2n, n2c, nodeVars>>

-----------------------------------------------------------------------------
(* The reader thread *)

Waiting(i) == {c \in Caller : <<i, c>> \in pending}

(* An answer: take the waiter out of the map and complete its oneshot.     *)
ReadAnswer ==
    /\ reader = "recv" /\ n2c # <<>> /\ Head(n2c).kind \in {"ok", "err"}
    /\ LET resp == Head(n2c) IN
        /\ pending' = {p \in pending : p[1] # resp.id}
        /\ slot' = [c \in Caller |-> IF c \in Waiting(resp.id)
                                     THEN [kind |-> resp.kind, op |-> resp.op]
                                     ELSE slot[c]]
    /\ n2c' = Tail(n2c)
    /\ UNCHANGED <<pc, id, next_id, watch_started, subscribers, dead, req, dropped, threadVars, closed, c2n, nodeVars>>

(* An event: offer it to every stream, forget the streams whose receiver   *)
(* is gone.                                                                *)
ReadEvent ==
    /\ reader = "recv" /\ n2c # <<>> /\ Head(n2c).kind = "event"
    /\ subscribers' = {c \in subscribers : pc[c] \in {"recheck", "streaming"}}
    /\ n2c' = Tail(n2c)
    /\ UNCHANGED <<callerVars, pending, dead, req, dropped, threadVars, closed, c2n, nodeVars>>

(* A frame that does not decode, or a closed flow, ends the loop.          *)
ReadEnd ==
    /\ reader = "recv"
    /\ closed \/ (n2c # <<>> /\ Head(n2c).kind = "garbage")
    /\ reader' = "dead"
    /\ UNCHANGED <<callerVars, sharedVars, writer, out, ringVars, nodeVars>>

ReaderSkipsDead ==
    /\ reader = "dead" /\ reader' = "close"
    /\ UNCHANGED <<callerVars, sharedVars, writer, out, ringVars, nodeVars>>

ReaderDead ==
    /\ reader = "dead" /\ dead' = TRUE /\ reader' = "close"
    /\ UNCHANGED <<callerVars, pending, subscribers, req, dropped, writer, out, ringVars, nodeVars>>

ReaderClose ==
    /\ reader = "close" /\ closed' = TRUE /\ reader' = "drainPending"
    /\ UNCHANGED <<callerVars, sharedVars, writer, out, c2n, n2c, nodeVars>>

DrainNothing ==
    /\ reader = "drainPending" /\ reader' = "drainSubs"
    /\ UNCHANGED <<callerVars, sharedVars, writer, out, ringVars, nodeVars>>

(* Dropping the senders errors the oneshots that wait on them.             *)
DrainPending ==
    /\ reader = "drainPending" /\ reader' = "drainSubs"
    /\ slot' = [c \in Caller |-> IF \E p \in pending : p[2] = c
                                 THEN Dropped ELSE slot[c]]
    /\ pending' = {}
    /\ UNCHANGED <<pc, id, next_id, watch_started, subscribers, dead, req, dropped, writer, out, ringVars, nodeVars>>

DrainKeepsSubs ==
    /\ reader = "drainSubs" /\ reader' = "stopped"
    /\ UNCHANGED <<callerVars, sharedVars, writer, out, ringVars, nodeVars>>

(* Dropping the senders ends the streams.                                  *)
DrainSubs ==
    /\ reader = "drainSubs" /\ reader' = "stopped"
    /\ subscribers' = {}
    /\ UNCHANGED <<callerVars, pending, dead, req, dropped, writer, out, ringVars, nodeVars>>

-----------------------------------------------------------------------------
(* The node's end of the flow *)

NodeTake ==
    /\ node = "up" /\ c2n # <<>>
    /\ c2n' = Tail(c2n)
    /\ inbox' = inbox \cup {Head(c2n)}
    /\ executed' = [executed EXCEPT ![Head(c2n).op] = @ + 1]
    /\ UNCHANGED <<callerVars, sharedVars, threadVars, closed, n2c, node, events, garbage>>

NodeSend(resp) ==
    /\ node = "up" /\ ~closed /\ Len(n2c) < RingSlots
    /\ n2c' = Append(n2c, resp)

(* Pipelined ops are answered in any order, with success or a reason.      *)
NodeAnswer(f) ==
    /\ \E k \in {"ok", "err"} : NodeSend([kind |-> k, id |-> f.id, op |-> f.op])
    /\ inbox' = inbox \ {f}
    /\ UNCHANGED <<callerVars, sharedVars, threadVars, closed, c2n, node, executed, events, garbage>>

NodeEvent ==
    /\ events < MaxEvents /\ events' = events + 1
    /\ \E w \in Watchers : executed[w] > 0
    /\ NodeSend([kind |-> "event", id |-> 0, op |-> None])
    /\ UNCHANGED <<callerVars, sharedVars, threadVars, closed, c2n, node, inbox, executed, garbage>>

NodeGarbage ==
    /\ garbage < MaxGarbage /\ garbage' = garbage + 1
    /\ NodeSend([kind |-> "garbage", id |-> 0, op |-> None])
    /\ UNCHANGED <<callerVars, sharedVars, threadVars, closed, c2n, node, inbox, executed, events>>

(* The node restarts, revokes the flow, or notices that the client closed. *)
NodeClose ==
    /\ node = "up" /\ node' = "gone" /\ closed' = TRUE
    /\ UNCHANGED <<callerVars, sharedVars, threadVars, c2n, n2c, inbox, executed, events, garbage>>

-----------------------------------------------------------------------------
CallStep(c) ==
    \/ CheckAlive(c) \/ Insert(c) \/ SendReq(c) \/ Await(c)
    \/ PushSubscriber(c) \/ Recheck(c)

WriterStep == WriterRecv \/ WriterSend \/ WriterDead \/ WriterClose

ReaderStep ==
    \/ ReadAnswer \/ ReadEvent \/ ReadEnd
    \/ ReaderDead \/ ReaderClose \/ DrainPending \/ DrainSubs

NodeStep ==
    \/ NodeTake \/ NodeEvent \/ NodeGarbage \/ NodeClose
    \/ \E f \in inbox : NodeAnswer(f)

Next ==
    \/ \E c \in Caller : Start(c) \/ CallStep(c) \/ Cancel(c)
    \/ ClientDrop
    \/ WriterStep \/ ReaderStep \/ NodeStep

(* Executors poll ready tasks and the OS runs the threads.  The node owes  *)
(* nothing, and a caller may never call.                                   *)
Fairness ==
    /\ \A c \in Caller : WF_vars(CallStep(c))
    /\ WF_vars(WriterStep) /\ WF_vars(ReaderStep)

Spec == Init /\ [][Next]_vars /\ Fairness

-----------------------------------------------------------------------------
(***************************************************************************)
(* No stream outlives the lane unnoticed: once the reader has drained and  *)
(* stopped, a stream that watch_stream returned has lost its sender and    *)
(* so ends.  This is what the second look at `dead` is for.                *)
(***************************************************************************)
NoOrphanStream ==
    \A w \in Watchers : reader = "stopped" /\ pc[w] = "streaming" => w \notin subscribers

(***************************************************************************)
(* Multiplexing: what an op receives is the node's answer to that very op, *)
(* however the answers are ordered and whichever callers gave up.          *)
(***************************************************************************)
OwnAnswer == \A c \in Caller : slot[c].op # None => slot[c].op = c

(***************************************************************************)
(* LaneGone is never reported while the lane is alive: whichever of the    *)
(* three paths of op(), or the recheck, produced it, `dead` is already     *)
(* set, so the next call of the client goes to HTTP directly.              *)
(***************************************************************************)
GoneMeansDead == \A c \in Caller : pc[c] = "gone" => dead

(***************************************************************************)
(* An op whose oneshot is registered when the lane dies, before the reader *)
(* drains, is woken.                                                       *)
(***************************************************************************)
WokenOnDeath ==
    \A c \in Caller :
        (dead /\ pc[c] = "await" /\ <<id[c], c>> \in pending
              /\ reader \notin {"drainSubs", "stopped"}) ~> pc[c] # "await"

(***************************************************************************)
(* A closed flow ends every stream that is still held.                     *)
(***************************************************************************)
StreamsEnd ==
    \A w \in Watchers :
        (closed /\ pc[w] = "streaming") ~> (w \notin subscribers \/ pc[w] = "cancelled")

(***************************************************************************)
(* What the reader's comment promises: after the flow's death no caller    *)
(* waits for ever.  Violated: op() checks `dead` before it registers, and  *)
(* never again.                                                            *)
(***************************************************************************)
NoCallerWaitsForever ==
    \A c \in Caller : (dead /\ pc[c] = "await") ~> pc[c] # "await"

=============================================================================
