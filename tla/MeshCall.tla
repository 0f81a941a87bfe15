------------------------------ MODULE MeshCall ------------------------------
(***************************************************************************)
(* The transport choice of CeClient's mesh primitives in src/src/lib.rs:   *)
(* each call asks lane() for a live lane, rides it if there is one, and on *)
(* LaneGone repeats the op as an HTTP request.  The composition of Lane    *)
(* with the node's HTTP API, which is outside the repository.              *)
(***************************************************************************)
EXTENDS Lane

VARIABLES
    cell,       \* lane_cell: "unset" until the first call binds, or fails to
    via,        \* per call: "idle", "lane", "http", or "done"
    result,     \* what the caller was told: "none", "ok" or "err"
    http        \* how often the node performed the call's HTTP request

meshVars == <<cell, via, result, http>>
allVars == <<vars, meshVars>>

(* Type invariant of the transport choice.                                 *)
MeshTypeOK ==
    /\ cell \in {"unset", "lane", "none"}
    /\ via \in [Caller -> {"idle", "lane", "http", "done"}]
    /\ result \in [Caller -> {"none", "ok", "err"}]
    /\ http \in [Caller -> Nat]

MeshInit ==
    /\ Init
    /\ cell = "unset"
    /\ via = [c \in Caller |-> "idle"]
    /\ result = [c \in Caller |-> "none"]
    /\ http = [c \in Caller |-> 0]

(* lane(): the OnceLock is filled by the first call, then only read; a lane*)
(* that died is filtered out.                                              *)
CellFilled == cell' \in IF cell = "unset" THEN {"lane", "none"} ELSE {cell}

CallByLane(c) ==
    /\ via[c] = "idle" /\ CellFilled /\ cell' = "lane" /\ ~dead
    /\ Start(c)
    /\ via' = [via EXCEPT ![c] = "lane"]
    /\ UNCHANGED <<result, http>>

(* No lane, a dead one, or an op to a node id that has no binary form.     *)
CallByHttp(c) ==
    /\ via[c] = "idle" /\ CellFilled /\ (cell' = "none" \/ dead \/ c \in Ops)
    /\ via' = [via EXCEPT ![c] = "http"]
    /\ UNCHANGED <<vars, result, http>>

LaneAnsweredAs(c, r) ==
    /\ via[c] = "lane" /\ pc[c] \in {"ok", "err", "streaming"}
    /\ via' = [via EXCEPT ![c] = "done"] /\ result' = [result EXCEPT ![c] = r]
    /\ UNCHANGED <<vars, cell, http>>

LaneAnsweredRaw(c) == LaneAnsweredAs(c, pc[c])

(* The node's answer over the lane is final, success or refusal.           *)
LaneAnswered(c) == LaneAnsweredAs(c, IF pc[c] = "err" THEN "err" ELSE "ok")

FallBackOn(failures, c) ==
    /\ via[c] = "lane" /\ pc[c] \in failures
    /\ via' = [via EXCEPT ![c] = "http"]
    /\ UNCHANGED <<vars, cell, result, http>>

FallBackOnErr(c) == FallBackOn({"err", "gone", "refused"}, c)

(* LaneGone, a refused Watch included, falls through to the HTTP request.  *)
FallBack(c) == FallBackOn({"gone", "refused"}, c)

(* The node performs the HTTP request, at most once.                       *)
HttpPerform(c) ==
    /\ via[c] = "http" /\ http[c] = 0
    /\ http' = [http EXCEPT ![c] = @ + 1]
    /\ UNCHANGED <<vars, cell, via, result>>

HttpReturns(c, r) ==
    /\ via[c] = "http"
    /\ via' = [via EXCEPT ![c] = "done"] /\ result' = [result EXCEPT ![c] = r]
    /\ UNCHANGED <<vars, cell, http>>

HttpAssumesDone(c) == HttpReturns(c, "ok")

(* A success status with a body that decodes, of what was performed.       *)
HttpOk(c) == http[c] > 0 /\ HttpReturns(c, "ok")

(* An error status, a body that does not decode, or a lost connection: the *)
(* request was performed or not.                                           *)
HttpErr(c) == HttpReturns(c, "err")

(* The lane's own steps, its threads running once it was bound.            *)
LaneStep ==
    /\ cell = "lane"
    /\ \/ \E c \in Caller : CallStep(c) \/ Cancel(c)
       \/ WriterStep \/ ReaderStep \/ NodeStep
    /\ UNCHANGED meshVars

MeshNext ==
    \/ \E c \in Caller :
          \/ CallByLane(c) \/ CallByHttp(c) \/ LaneAnswered(c)
          \/ FallBack(c) \/ HttpPerform(c) \/ HttpOk(c) \/ HttpErr(c)
    \/ LaneStep

MeshSpec == MeshInit /\ [][MeshNext]_allVars

-----------------------------------------------------------------------------
Performed(c) == executed[c] + http[c]

CallState(c) ==
    IF via[c] = "idle" THEN "idle"
    ELSE IF result[c] # "none" THEN IF result[c] = "ok" THEN "ok" ELSE "failed"
    ELSE IF pc[c] = "cancelled" THEN "failed"
    ELSE "running"

(* The op as its caller sees it.                                           *)
Abstract == INSTANCE MeshOp WITH
    Call <- Ops, MaxPerforms <- 2,
    state <- [c \in Ops |-> CallState(c)],
    performed <- [c \in Ops |-> Performed(c)]

(***************************************************************************)
(* Refinement: whichever transport carried it and wherever the lane died,  *)
(* a call that succeeds was performed, is reported once, and was performed *)
(* at most twice: once per transport.                                      *)
(***************************************************************************)
ImplementsMeshOp == Abstract!Spec

(***************************************************************************)
(* The node's answer over the lane is authoritative: an op it answered,    *)
(* even with a refusal, was performed exactly once and is never repeated   *)
(* over HTTP, nor ever will be.                                            *)
(***************************************************************************)
AnsweredIsNeverRetried ==
    \A c \in Ops : pc[c] \in {"ok", "err"} =>
        executed[c] = 1 /\ http[c] = 0 /\ via[c] # "http"

=============================================================================
