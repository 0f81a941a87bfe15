------------------------------ MODULE Provide ------------------------------
(***************************************************************************)
(* capability::provide_with (src/src/capability.rs): the serve loop and    *)
(* the discovery loop of locate::register joined on one task, sharing the  *)
(* shutdown future and the readiness flag that holds the first advertise   *)
(* back.  A composition of Serve with the register loop and the provider   *)
(* record other nodes keep in the DHT.                                     *)
(***************************************************************************)
EXTENDS Serve

VARIABLES
    regPc,      \* "wait" for the flag, "advertise", "sleep", or "done"
    record      \* the DHT lists this node as a provider

regVars == <<regPc, record>>
allVars == <<vars, regVars>>

(* Type invariant.  Nothing is advertised before the service was ready.    *)
ProvideTypeOK ==
    /\ TypeOK
    /\ regPc \in {"wait", "advertise", "sleep", "done"} /\ record \in BOOLEAN
    /\ regPc \in {"advertise", "sleep"} \/ record => subscribed

ProvideInit == Init /\ regPc = "wait" /\ record = FALSE

SeeReadyIf(ready) ==
    /\ regPc = "wait" /\ ready
    /\ regPc' = "advertise"
    /\ UNCHANGED <<vars, record>>

SeeReadyAtOnce == SeeReadyIf(TRUE)

(* The 20 ms poll sees the flag raised.                                    *)
SeeReady == SeeReadyIf(subscribed)

(* The provider record now stands with the DHT, until it expires.          *)
Advertise ==
    /\ regPc = "advertise" /\ up
    /\ regPc' = "sleep" /\ record' = TRUE
    /\ UNCHANGED vars

AdvertiseFailsTo(next) ==
    /\ regPc = "advertise" /\ CallFails
    /\ regPc' = next
    /\ UNCHANGED <<loopVars, shutdown, histVars, nodeVars, sends, record>>

AdvertiseFailEnds == AdvertiseFailsTo("done")

(* A failed advertise is retried on the next heartbeat.                    *)
AdvertiseFail == AdvertiseFailsTo("sleep")

Heartbeat ==
    /\ regPc = "sleep"
    /\ regPc' = "advertise"
    /\ UNCHANGED <<vars, record>>

RegReturnFrom(waits) ==
    /\ regPc \in waits /\ shutdown
    /\ regPc' = "done"
    /\ UNCHANGED <<vars, record>>

RegReturnFromSleepOnly == RegReturnFrom({"sleep"})

(* The shutdown branches: before ever becoming ready, and in the sleep.    *)
RegReturn == RegReturnFrom({"wait", "sleep"})

(* Provider records expire unless they are renewed.                        *)
Expire ==
    /\ record /\ record' = FALSE
    /\ UNCHANGED <<vars, regPc>>

RegStep == SeeReady \/ Advertise \/ AdvertiseFail \/ Heartbeat \/ RegReturn

ServeStep == Next /\ UNCHANGED regVars

ProvideNext == RegStep \/ Expire \/ ServeStep

RegOwnStep == SeeReady \/ Heartbeat \/ RegReturn

(* The two loops are polled by one join, so each makes progress: again     *)
(* only where it waits for itself, for an advertise need not end either.   *)
ProvideFairness ==
    /\ WF_allVars(OwnStep /\ UNCHANGED regVars) /\ SF_allVars(Return /\ UNCHANGED regVars)
    /\ WF_allVars(RegOwnStep) /\ SF_allVars(RegReturn)

ProvideSpec == ProvideInit /\ [][ProvideNext]_allVars /\ ProvideFairness

-----------------------------------------------------------------------------
(* No call of either loop waits for ever: the hypothesis of what follows.  *)
AllCallsEnd == CallsEnd /\ []<>(regPc # "advertise")

(***************************************************************************)
(* If calls end, the future of provide_with resolves after shutdown: both  *)
(* loops notice it, in whichever wait it finds each of them, even if the   *)
(* service never became ready.  Either loop stuck in a call that does not  *)
(* end keeps the joined future from resolving.                             *)
(***************************************************************************)
StopTogether == AllCallsEnd => (shutdown ~> (pc = "done" /\ regPc = "done"))

(***************************************************************************)
(* A capability whose node stays up and answers its calls, and that is not *)
(* shut down, ends up served, and is advertised again whenever its record  *)
(* expires.                                                                *)
(***************************************************************************)
StaysLocatable ==
    AllCallsEnd /\ <>[]up /\ []~shutdown => <>[]Listening /\ []<>record

(***************************************************************************)
(* What serve.rs and capability.rs promise of the readiness flag: the      *)
(* record goes out only while the node routes the capability's topic.      *)
(* Violated: the flag is never lowered, so a heartbeat, even the first,    *)
(* may reach a node that restarted and has no subscription yet.            *)
(***************************************************************************)
AdvertisedOnlyWhenRouted == [][record' /\ ~record => Subscribe \subseteq subs]_allVars

=============================================================================
