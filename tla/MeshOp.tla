------------------------------- MODULE MeshOp -------------------------------
(***************************************************************************)
(* What a mesh primitive of CeClient (send, publish, subscribe, request,   *)
(* reply) promises its caller, whatever transport carries it: success is   *)
(* reported only for an op the node performed, each call is reported once, *)
(* and the node performs it at most MaxPerforms times.                     *)
(***************************************************************************)
EXTENDS Naturals

CONSTANTS Call, MaxPerforms

VARIABLES state, performed

vars == <<state, performed>>

TypeOK ==
    /\ state \in [Call -> {"idle", "running", "ok", "failed"}]
    /\ performed \in [Call -> 0..MaxPerforms]

Init == state = [c \in Call |-> "idle"] /\ performed = [c \in Call |-> 0]

Invoke(c) ==
    /\ state[c] = "idle" /\ state' = [state EXCEPT ![c] = "running"]
    /\ UNCHANGED performed

(* The node acts.  It may do so after the caller was told of a failure.    *)
Perform(c) ==
    /\ state[c] # "idle" /\ performed[c] < MaxPerforms
    /\ performed' = [performed EXCEPT ![c] = @ + 1]
    /\ UNCHANGED state

Succeed(c) ==
    /\ state[c] = "running" /\ performed[c] > 0
    /\ state' = [state EXCEPT ![c] = "ok"]
    /\ UNCHANGED performed

Fail(c) ==
    /\ state[c] = "running" /\ state' = [state EXCEPT ![c] = "failed"]
    /\ UNCHANGED performed

Next == \E c \in Call : Invoke(c) \/ Perform(c) \/ Succeed(c) \/ Fail(c)

Spec == Init /\ [][Next]_vars
=============================================================================
