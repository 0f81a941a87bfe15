-------------------------------- MODULE Call --------------------------------
(***************************************************************************)
(* A capability call, from end to end: call() of src/src/locate.rs locates *)
(* a few instances and sends its request to one after another until one    *)
(* replies; call_with of src/src/capability.rs decodes that reply, which   *)
(* CapHandler made of the provider's result.  A request may get lost, or   *)
(* reach its instance after the caller gave up, and a reply may get lost.  *)
(* One request is one operation here; MeshCall splits it by transport.     *)
(***************************************************************************)
EXTENDS Locate

CONSTANT MinCandidates      \* how many call() locates at least: 3

ASSUME CallAssumption == MinCandidates \in Nat \ {0}

VARIABLES
    asked,      \* how many instances call() has sent its request to
    request,    \* per listing, what became of the request sent to its node
    caller      \* "locating", "waiting", or what the caller was returned

callVars == <<asked, request, caller>>
allVars == <<vars, callVars>>

(* What CapHandler replies: the provider's result, or Wire::Err for its    *)
(* error and for a request it cannot decode; or bytes that are no Wire at  *)
(* all, from an instance that is no capability provider.                   *)
Reply == {"resp", "app error", "no wire"}

CallInit ==
    /\ Init
    /\ asked = 0 /\ caller = "locating" /\ request = [n \in Listing |-> "none"]

Locating == LocateNext /\ UNCHANGED callVars

Asking == instances[asked]

(* Sends the request to the next instance, or gives up after the last one. *)
AskNext ==
    /\ asked' = Min({asked + 1, Len(instances)})
    /\ IF asked < Len(instances)
       THEN /\ caller' = "waiting"
            /\ request' = [request EXCEPT ![instances[asked + 1]] = "sent"]
       ELSE caller' = "transport error" /\ UNCHANGED request

(* locate() returned to call(), which raised `want` before; its locals are *)
(* gone.                                                                   *)
StartCalling ==
    /\ pc = "located" /\ want >= MinCandidates /\ pc' = "returned"
    /\ AskNext
    /\ atlas' = NoAtlas /\ ids' = {} /\ beacon' = AnyBeacon /\ now' = 0 /\ local_id' = Unknown
    /\ UNCHANGED <<clock, faults, argVars, instances>>

(* call() passes on an error of locate().                                  *)
NotLocated ==
    /\ pc = "failed" /\ want >= MinCandidates /\ caller = "locating"
    /\ caller' = "transport error" /\ UNCHANGED <<vars, asked, request>>

(* The request reaches the instance, perhaps after the caller gave up on   *)
(* it, and the handler replies.                                            *)
Handle(n) ==
    /\ request[n] = "sent" /\ \E r \in Reply : request' = [request EXCEPT ![n] = r]
    /\ UNCHANGED <<vars, asked, caller>>

Lose(n) ==
    /\ request[n] = "sent" /\ Fault /\ request' = [request EXCEPT ![n] = "lost"]
    /\ UNCHANGED <<clock, argVars, pc, atlas, ids, beacon, now, local_id, instances, asked, caller>>

FailsOver(error) ==
    /\ caller = "waiting" /\ error /\ AskNext
    /\ UNCHANGED <<clock, argVars, pc, atlas, ids, beacon, now, local_id, instances>>

GetReplyOrRetry ==
    \/ FailsOver(request[Asking] = "app error" /\ UNCHANGED faults)
    \/ /\ caller = "waiting" /\ request[Asking] \in {"resp", "no wire"}
       /\ caller' = request[Asking] /\ UNCHANGED <<vars, asked, request>>

(* A reply of any kind ends the call; only then it is decoded.             *)
GetReply ==
    /\ caller = "waiting" /\ request[Asking] \in Reply
    /\ caller' = request[Asking] /\ UNCHANGED <<vars, asked, request>>

AskFailsGivesUp ==
    /\ caller = "waiting" /\ request[Asking] = "lost"
    /\ caller' = "transport error" /\ UNCHANGED <<vars, asked, request>>

(* The request fails: it was lost, or, as one more fault, it or its reply  *)
(* does not make it in time.  The next instance is asked.                  *)
AskFails ==
    \/ FailsOver(request[Asking] = "lost" /\ UNCHANGED faults)
    \/ FailsOver(request[Asking] # "lost" /\ Fault)

Returned ==
    \/ caller \notin {"locating", "waiting"}
    \/ caller = "locating" /\ pc \in {"located", "failed"} /\ want < MinCandidates

(* Not a step: without it a caller that waits for ever is a deadlock.      *)
Finished == Returned /\ UNCHANGED allVars

Next ==
    \/ Locating \/ StartCalling \/ NotLocated \/ GetReply \/ AskFails \/ Finished
    \/ \E n \in Listing : Handle(n) \/ Lose(n)

Spec == CallInit /\ [][Next]_allVars

-----------------------------------------------------------------------------
(* Type invariant.                                                         *)
TypeOK ==
    /\ LocateTypeOK /\ faults \in 0..MaxFaults
    /\ asked \in 0..Len(instances)
    /\ request \in [Listing -> Reply \cup {"none", "sent", "lost"}]
    /\ caller \in Reply \cup {"locating", "waiting", "transport error"}

(***************************************************************************)
(* call() gives up only after it asked every instance it located, each of  *)
(* them in vain: while the request to one of them and its reply get        *)
(* through, that reply is what the caller is returned.                     *)
(***************************************************************************)
FailsOnlyIfAllFail ==
    caller = "transport error" =>
        /\ \A n \in Chosen : request[n] # "none"
        /\ Len(instances) <= faults

(***************************************************************************)
(* The first reply is final, an application error like any other: what the *)
(* caller is returned is the reply of the instance asked last, no instance *)
(* after it hears of the request, and one before it handles the request    *)
(* only if its own reply was late.  So while k faults happened no more     *)
(* than k + 1 instances ever run the request.                              *)
(***************************************************************************)
FirstReplyIsFinal ==
    /\ caller \in Reply => caller = request[Asking]
    /\ \A n \in Listing : request[n] # "none" => \E i \in 1..asked : instances[i] = n
    /\ Cardinality({n \in Listing : request[n] \in Reply \cup {"sent"}}) <= faults + 1

=============================================================================
