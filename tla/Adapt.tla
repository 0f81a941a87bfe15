------------------------------- MODULE Adapt -------------------------------
(***************************************************************************)
(* The adapter runtime of src/src/adapt.rs.  run_adapter takes the flows   *)
(* the node hands over and serves each on threads of its own: the main     *)
(* thread takes the app's requests through the handler's decision to the   *)
(* node, the relay thread carries the node's frames back verbatim, until   *)
(* either side closes.  The flows (`down` to the app, `up` to the node)    *)
(* are endpoints of the ce-lane crate, outside the repository: a bounded   *)
(* FIFO each way, and a close that both ends see.                          *)
(***************************************************************************)
EXTENDS Integers, Sequences

CONSTANTS
    Flow,           \* the flows the node interposes the adapter in
    Requests,       \* bound: requests the app of a flow sends, numbered in order
    Responses,      \* bound: frames the node sends back on it, numbered in order
    RingSlots,      \* slots of each ring
    MaxFaults       \* bound: threads that cannot be created

ASSUME AdaptAssumption ==
    /\ Requests \in [Flow -> Nat] /\ Responses \in [Flow -> Nat]
    /\ RingSlots \in Nat \ {0} /\ MaxFaults \in Nat

VARIABLES
    control,        \* run_adapter: "accept" flows, until the control socket "failed"
    faults,
    flow            \* per flow, the record FlowState describes

vars == <<control, faults, flow>>

FlowState(f) ==
    [main: {"offered", "unserved", "accept", "recv", "intercept", "send",
            "closing", "close", "join", "done"},
     relay: {"idle", "recv", "send", "close", "done", "unspawned"},
     request: 0..Requests[f],       \* what the main thread holds
     response: 0..Responses[f],     \* what the relay thread holds
     on_close: 0..1,                \* how often handler.on_close() was called
     denied: 0..Requests[f],        \* the request the handler refused, 0 if none
     downIn: Seq(1..Requests[f]), downOut: Seq(1..Responses[f]), downClosed: BOOLEAN,
     upOut: Seq(1..Requests[f]), upIn: Seq(1..Responses[f]), upClosed: BOOLEAN,
     asked: 0..Requests[f],         \* requests sent by the app
     served: Seq(1..Requests[f]),   \* requests received by the node
     emitted: 0..Responses[f],      \* frames sent by the node
     received: Seq(1..Responses[f])]    \* frames received by the app

(* Type invariant.                                                         *)
TypeOK ==
    /\ control \in {"accept", "failed"} /\ faults \in 0..MaxFaults
    /\ \A f \in Flow :
        /\ flow[f] \in FlowState(f)
        /\ \A ring \in {"downIn", "downOut", "upOut", "upIn"} : Len(flow[f][ring]) <= RingSlots

Init ==
    /\ control = "accept" /\ faults = 0
    /\ flow = [f \in Flow |->
        [main |-> "offered", relay |-> "idle", request |-> 0, response |-> 0,
         on_close |-> 0, denied |-> 0,
         downIn |-> <<>>, downOut |-> <<>>, downClosed |-> FALSE,
         upOut |-> <<>>, upIn |-> <<>>, upClosed |-> FALSE,
         asked |-> 0, served |-> <<>>, emitted |-> 0, received |-> <<>>]]

Becomes(f, s) == flow' = [flow EXCEPT ![f] = s] /\ UNCHANGED control

Moves(f, s) == Becomes(f, s) /\ UNCHANGED faults

Fault == faults < MaxFaults /\ faults' = faults + 1

Room(ring) == Len(ring) < RingSlots

-----------------------------------------------------------------------------
(* The accept loop *)

(* recv_flow hands over a flow, and a thread is started for it.  If it     *)
(* cannot be, its closure is dropped and both endpoints with it: an        *)
(* endpoint that is dropped closes its flow.                               *)
AcceptFlow(f) ==
    /\ control = "accept" /\ flow[f].main = "offered"
    /\ \/ Moves(f, [flow[f] EXCEPT !.main = "accept"])
       \/ /\ Becomes(f, [flow[f] EXCEPT !.main = "unserved", !.downClosed = TRUE, !.upClosed = TRUE])
          /\ Fault

(* recv_flow fails, run_adapter returns; the flows' threads run on.        *)
ControlFails == control = "accept" /\ control' = "failed" /\ UNCHANGED <<faults, flow>>

(* adapter.accept builds the handler, and the relay thread is started, or  *)
(* not: the error is looked at when it would be joined.                    *)
ServeFlow(f) ==
    /\ flow[f].main = "accept"
    /\ \/ Moves(f, [flow[f] EXCEPT !.main = "recv", !.relay = "recv"])
       \/ Becomes(f, [flow[f] EXCEPT !.main = "recv", !.relay = "unspawned"]) /\ Fault

-----------------------------------------------------------------------------
(* App -> node, on the flow's own thread *)

RecvThen(f, onClosed) ==
    LET s == flow[f] IN
    /\ s.main = "recv"
    /\ \/ /\ s.downIn # <<>>
          /\ Moves(f, [s EXCEPT !.main = "intercept", !.request = Head(s.downIn), !.downIn = Tail(@)])
       \/ s.downClosed /\ Moves(f, [s EXCEPT !.main = onClosed])

RecvSkipsOnClose(f) == RecvThen(f, "close")

(* down.recv_into: a frame, or an error once the flow is closed.           *)
Recv(f) == RecvThen(f, "closing")

DenyThen(f, onDeny, settled) ==
    LET s == flow[f] IN
    /\ s.main = "intercept"
    /\ \/ Moves(f, [s EXCEPT !.main = "send"])
       \/ Moves(f, [s EXCEPT !.main = onDeny, !.denied = s.request, !.on_close = @ + settled])

DenySkips(f) == DenyThen(f, "recv", 0)

DenySettlesToo(f) == DenyThen(f, "closing", 1)

(* handler.intercept: Forward goes on, Deny tears the flow down.           *)
Intercept(f) == DenyThen(f, "closing", 0)

(* up.send blocks on a full ring and fails on a closed flow.               *)
Send(f) ==
    LET s == flow[f] IN
    /\ s.main = "send"
    /\ \/ /\ ~s.upClosed /\ Room(s.upOut)
          /\ Moves(f, [s EXCEPT !.main = "recv", !.upOut = Append(@, s.request)])
       \/ s.upClosed /\ Moves(f, [s EXCEPT !.main = "closing"])

OnClose(f) ==
    /\ flow[f].main = "closing"
    /\ Moves(f, [flow[f] EXCEPT !.main = "close", !.on_close = @ + 1])

(* down.close(), up.close(); nothing waits for the time between the two.   *)
Close(f) ==
    /\ flow[f].main = "close"
    /\ Moves(f, [flow[f] EXCEPT !.main = "join", !.downClosed = TRUE, !.upClosed = TRUE])

Join(f) ==
    /\ flow[f].main = "join" /\ flow[f].relay \in {"done", "unspawned"}
    /\ Moves(f, [flow[f] EXCEPT !.main = "done"])

-----------------------------------------------------------------------------
(* Node -> app, on the relay thread *)

RelayRecvThen(f, onClosed) ==
    LET s == flow[f] IN
    /\ s.relay = "recv"
    /\ \/ /\ s.upIn # <<>>
          /\ Moves(f, [s EXCEPT !.relay = "send", !.response = Head(s.upIn), !.upIn = Tail(@)])
       \/ s.upClosed /\ Moves(f, [s EXCEPT !.relay = onClosed])

RelayResendsOnClose(f) ==
    RelayRecvThen(f, IF flow[f].response = 0 THEN "close" ELSE "send")

RelayRecv(f) == RelayRecvThen(f, "close")

RelaySend(f) ==
    LET s == flow[f] IN
    /\ s.relay = "send"
    /\ \/ /\ ~s.downClosed /\ Room(s.downOut)
          /\ Moves(f, [s EXCEPT !.relay = "recv", !.downOut = Append(@, s.response)])
       \/ s.downClosed /\ Moves(f, [s EXCEPT !.relay = "close"])

RelayClosesUpOnly(f) ==
    /\ flow[f].relay = "close"
    /\ Moves(f, [flow[f] EXCEPT !.relay = "done", !.upClosed = TRUE])

RelayClose(f) ==
    /\ flow[f].relay = "close"
    /\ Moves(f, [flow[f] EXCEPT !.relay = "done", !.downClosed = TRUE, !.upClosed = TRUE])

-----------------------------------------------------------------------------
(* The app and the node *)

AppAsk(f) ==
    LET s == flow[f] IN
    /\ ~s.downClosed /\ s.asked < Requests[f] /\ Room(s.downIn)
    /\ Moves(f, [s EXCEPT !.asked = @ + 1, !.downIn = Append(@, s.asked + 1)])

AppReceive(f) ==
    LET s == flow[f] IN
    /\ s.downOut # <<>>
    /\ Moves(f, [s EXCEPT !.received = Append(@, Head(s.downOut)), !.downOut = Tail(@)])

AppClose(f) ==
    ~flow[f].downClosed /\ Moves(f, [flow[f] EXCEPT !.downClosed = TRUE])

NodeServe(f) ==
    LET s == flow[f] IN
    /\ s.upOut # <<>>
    /\ Moves(f, [s EXCEPT !.served = Append(@, Head(s.upOut)), !.upOut = Tail(@)])

(* An answer or a pushed event.                                            *)
NodeEmit(f) ==
    LET s == flow[f] IN
    /\ ~s.upClosed /\ s.emitted < Responses[f] /\ Room(s.upIn)
    /\ Moves(f, [s EXCEPT !.emitted = @ + 1, !.upIn = Append(@, s.emitted + 1)])

NodeClose(f) ==
    ~flow[f].upClosed /\ Moves(f, [flow[f] EXCEPT !.upClosed = TRUE])

-----------------------------------------------------------------------------
MainStep(f) ==
    \/ AcceptFlow(f) \/ ServeFlow(f) \/ Recv(f) \/ Intercept(f) \/ Send(f)
    \/ OnClose(f) \/ Close(f) \/ Join(f)

RelayStep(f) == RelayRecv(f) \/ RelaySend(f) \/ RelayClose(f)

EndStep(f) ==
    \/ AppAsk(f) \/ AppReceive(f) \/ AppClose(f)
    \/ NodeServe(f) \/ NodeEmit(f) \/ NodeClose(f)

Next ==
    \/ ControlFails
    \/ \E f \in Flow : MainStep(f) \/ RelayStep(f) \/ EndStep(f)

(* The accept loop and all threads run and handlers decide; the app and    *)
(* the node read what they are sent, but need not ask, answer or close.    *)
Fairness ==
    \A f \in Flow :
        /\ WF_vars(MainStep(f)) /\ WF_vars(RelayStep(f))
        /\ WF_vars(AppReceive(f)) /\ WF_vars(NodeServe(f))

Spec == Init /\ [][Next]_vars /\ Fairness

-----------------------------------------------------------------------------
Numbered(k) == [i \in 1..k |-> i]

(* What is on its way to the node, and to the app, oldest first.           *)
ToNode(s) ==
    s.served \o s.upOut \o (IF s.main \in {"intercept", "send"} THEN <<s.request>> ELSE <<>>) \o s.downIn
ToApp(s) ==
    s.received \o s.downOut \o (IF s.relay = "send" THEN <<s.response>> ELSE <<>>) \o s.upIn

(***************************************************************************)
(* The node receives the app's requests in the order they were made, none  *)
(* skipped or repeated, and neither the denied one nor any after it; until *)
(* a Deny or a close none is lost on the way.                              *)
(***************************************************************************)
ForwardedInOrder ==
    \A f \in Flow : LET s == flow[f] IN
        /\ s.served = Numbered(Len(s.served))
        /\ s.denied # 0 => Len(s.served) < s.denied
        /\ s.denied # 0 \/ s.downClosed \/ s.upClosed \/ ToNode(s) = Numbered(s.asked)

(***************************************************************************)
(* The app receives the node's frames verbatim and in order, and until the *)
(* flow is torn down none is lost on the way.                              *)
(***************************************************************************)
RelayedVerbatim ==
    \A f \in Flow : LET s == flow[f] IN
        /\ s.received = Numbered(Len(s.received))
        /\ s.downClosed \/ ToApp(s) = Numbered(s.emitted)

(***************************************************************************)
(* Settlement: when the flow's thread ends, on_close ran exactly once,     *)
(* both ends are closed and the relay thread is gone.                      *)
(***************************************************************************)
SettledOnce ==
    \A f \in Flow : flow[f].main = "done" =>
        /\ flow[f].on_close = 1 /\ flow[f].downClosed /\ flow[f].upClosed
        /\ flow[f].relay \in {"done", "unspawned"}

Ending(f) ==
    \/ flow[f].downClosed \/ flow[f].denied # 0
    \/ flow[f].upClosed /\ flow[f].relay \notin {"idle", "unspawned"}

(***************************************************************************)
(* A close by either side, or a Deny, ends the whole flow: no thread stays *)
(* blocked on the other one's ring and the handler gets its on_close, also *)
(* when the close comes before the flow is served and while other flows    *)
(* stay open.  A flow that got no thread, or that the accept loop did not  *)
(* live to take, is never served; one that got no relay thread ends with   *)
(* the app's close or a Deny, but the node's close goes unnoticed.         *)
(***************************************************************************)
TeardownPropagates ==
    \A f \in Flow :
        Ending(f) ~> \/ flow[f].main \in {"done", "unserved"}
                     \/ flow[f].main = "offered" /\ control = "failed"

=============================================================================
