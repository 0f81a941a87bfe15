------------------------------- MODULE Serve -------------------------------
(***************************************************************************)
(* The mesh serve loop of src/src/serve.rs (serve_where_signal and         *)
(* answer_one): one task that opens the node's inbound message stream,     *)
(* subscribes its topics, answers the requests it reads, and reconnects    *)
(* when the stream ends.  The node it talks to is outside the repository   *)
(* and is modelled from what the loop relies on: a subscription lives in   *)
(* the memory of one node process, and a stream is attached to one node    *)
(* process and dies with it.                                               *)
(***************************************************************************)
EXTENDS Integers, Sequences, FiniteSets

CONSTANTS
    Topic,          \* topics messages may carry
    Subscribe,      \* the `subscribe` argument: topics the loop subscribes
    Accept,         \* the topics the `accept` predicate is true of
    StreamTopics,   \* the `stream_topics` argument; {} asks for everything
    Token,          \* reply tokens of requests
    NoToken,        \* `reply_token: None`, a fire-and-forget message
    Message,        \* the messages peers may send to this node
    Garbled,        \* a frame the stream decoder turns into an Err item
    SeenCap,        \* de-dup bound, 100_000 in the code
    BackoffMin,     \* 250 (ms) in the code
    BackoffMax,     \* 10_000 (ms) in the code
    MaxWire,        \* bound: frames buffered between node and loop
    MaxSends,       \* bound: messages sent to the node
    MaxFaults       \* bound: crashes, cuts, failed calls and garbled frames

ASSUME ServeAssumption ==
    /\ Subscribe \subseteq Topic /\ Accept \subseteq Topic
    /\ StreamTopics \subseteq Topic
    /\ NoToken \notin Token
    /\ Message \subseteq [topic: Topic, token: Token \cup {NoToken}, ok: BOOLEAN]
    /\ Garbled \notin Message
    /\ SeenCap \in Nat \ {0}
    /\ BackoffMin \in Nat \ {0} /\ BackoffMax \in Nat
    /\ BackoffMin <= BackoffMax
    /\ MaxWire \in Nat /\ MaxSends \in Nat /\ MaxFaults \in Nat

VARIABLES
    \* the loop
    pc,             \* which await the task is suspended at
    backoff_ms,
    confirmed,      \* topics `/mesh/subscribe` confirmed on this connection
    subscribed,     \* the readiness flag handed in by capability::provide
    seen,
    cur,            \* the message whose handler or reply is in progress
    shutdown,       \* the shutdown future has resolved
    \* history: how often each request ran the handler, and was replied to
    handled, replies,
    \* the node
    up,             \* a node process is running
    subs,           \* the topics that process routes to streams
    attached,       \* that process is the one feeding the loop's stream
    wire,           \* frames sent on the stream and not yet read
    sends, faults   \* what the bounds have used up

loopVars == <<pc, backoff_ms, confirmed, subscribed, seen, cur>>
histVars == <<handled, replies>>
nodeVars == <<up, subs, attached, wire>>
boundVars == <<sends, faults>>
vars == <<loopVars, shutdown, histVars, nodeVars, boundVars>>

Frame == Message \cup {Garbled}

(***************************************************************************)
(* Type invariant.  The range of backoff_ms is the code's promise that the *)
(* delay starts at BackoffMin and never exceeds BackoffMax.                *)
(***************************************************************************)
TypeOK ==
    /\ pc \in {"open", "backoff", "subscribe", "stream", "handle", "reply", "done"}
    /\ backoff_ms \in BackoffMin..BackoffMax
    /\ confirmed \subseteq Subscribe
    /\ subscribed \in BOOLEAN
    /\ seen \subseteq Token
    /\ cur \in Message \cup {NoToken}
    /\ pc \in {"handle", "reply"} => cur \in Message /\ cur.token \in Token
    /\ shutdown \in BOOLEAN
    /\ handled \in [Token -> Nat] /\ replies \in [Token -> Nat]
    /\ up \in BOOLEAN
    /\ subs \subseteq Topic
    /\ attached \in BOOLEAN
    /\ wire \in Seq(Frame)
    /\ sends \in Nat /\ faults \in Nat

Init ==
    /\ pc = "open" /\ backoff_ms = BackoffMin
    /\ confirmed = {} /\ subscribed = FALSE
    /\ seen = {} /\ cur = NoToken
    /\ shutdown = FALSE
    /\ handled = [t \in Token |-> 0] /\ replies = [t \in Token |-> 0]
    /\ up \in BOOLEAN /\ subs = {} /\ attached = FALSE /\ wire = <<>>
    /\ sends = 0 /\ faults = 0

(* A call to a running node may still fail, at the cost of one fault.      *)
CallFails ==
    \/ ~up /\ UNCHANGED faults
    \/ up /\ faults < MaxFaults /\ faults' = faults + 1

(* The client drops its end of the stream: what was buffered is gone.      *)
DropStream == attached' = FALSE /\ wire' = <<>>

-----------------------------------------------------------------------------
(* Connecting *)

OpenKeepsConfirmed ==
    /\ pc = "open" /\ up
    /\ pc' = "subscribe"
    /\ attached' = TRUE /\ wire' = <<>>
    /\ UNCHANGED <<confirmed, backoff_ms, subscribed, seen, cur, shutdown, histVars, up, subs, boundVars>>

(* messages_stream_for succeeds: the node feeds a new stream.              *)
Open ==
    /\ pc = "open" /\ up
    /\ pc' = "subscribe" /\ confirmed' = {}
    /\ attached' = TRUE /\ wire' = <<>>
    /\ UNCHANGED <<backoff_ms, subscribed, seen, cur, shutdown, histVars, up, subs, boundVars>>

OpenFail ==
    /\ pc = "open" /\ CallFails
    /\ pc' = "backoff"
    /\ UNCHANGED <<backoff_ms, confirmed, subscribed, seen, cur, shutdown, histVars, nodeVars, sends>>

(* One ce.subscribe(t) of the for loop; the node confirms synchronously.   *)
SubscribeTopic(t) ==
    /\ pc = "subscribe" /\ t \notin confirmed /\ up
    /\ subs' = subs \cup {t} /\ confirmed' = confirmed \cup {t}
    /\ UNCHANGED <<pc, backoff_ms, subscribed, seen, cur, shutdown, histVars, up, attached, wire, boundVars>>

(* A failed subscribe leaves the for loop; the node may have applied it.   *)
SubscribeFail(t) ==
    /\ pc = "subscribe" /\ t \notin confirmed /\ CallFails
    /\ subs' \in IF up THEN {subs, subs \cup {t}} ELSE {subs}
    /\ pc' = "backoff"
    /\ UNCHANGED <<backoff_ms, confirmed, subscribed, seen, cur, shutdown, histVars, up, attached, wire, sends>>

StartStreamingEarly ==
    /\ pc = "subscribe" /\ (Subscribe = {} \/ confirmed # {})
    /\ pc' = "stream" /\ subscribed' = TRUE /\ backoff_ms' = BackoffMin
    /\ UNCHANGED <<confirmed, seen, cur, shutdown, histVars, nodeVars, boundVars>>

(* Every topic is confirmed: raise the readiness flag, reset the backoff.  *)
StartStreaming ==
    /\ pc = "subscribe" /\ confirmed = Subscribe
    /\ pc' = "stream" /\ subscribed' = TRUE /\ backoff_ms' = BackoffMin
    /\ UNCHANGED <<confirmed, seen, cur, shutdown, histVars, nodeVars, boundVars>>

NextBackoffUncapped(b) == 2 * b

NextBackoff(b) == IF 2 * b < BackoffMax THEN 2 * b ELSE BackoffMax

(* The sleep ends: `continue` drops a stream the failed subscribe left.    *)
Wake ==
    /\ pc = "backoff"
    /\ pc' = "open" /\ backoff_ms' = NextBackoff(backoff_ms)
    /\ DropStream
    /\ UNCHANGED <<confirmed, subscribed, seen, cur, shutdown, histVars, up, subs, boundVars>>

-----------------------------------------------------------------------------
(* answer_one on the next item of the stream *)

RememberUnbounded(t) == seen \cup {t}

RememberForgets(t) ==
    IF Cardinality(seen \cup {t}) > SeenCap THEN {} ELSE seen \cup {t}

(* seen.insert(token), then the roll-over that keeps the set bounded.      *)
Remember(t) ==
    IF Cardinality(seen \cup {t}) > SeenCap THEN {t} ELSE seen \cup {t}

ToAnswerNoDedup(m) ==
    /\ m \in Message
    /\ m.topic \in Accept /\ m.token # NoToken

(* The three early returns: not accepted, not a request, answered before.  *)
ToAnswer(m) ==
    /\ m \in Message
    /\ m.topic \in Accept /\ m.token # NoToken /\ m.token \notin seen

Ignore ==
    /\ pc = "stream" /\ wire # <<>> /\ Head(wire) \in Message
    /\ ~ToAnswer(Head(wire))
    /\ wire' = Tail(wire)
    /\ UNCHANGED <<loopVars, shutdown, histVars, up, subs, attached, boundVars>>

UndecodableAny ==
    /\ pc = "stream" /\ wire # <<>>
    /\ ToAnswer(Head(wire))
    /\ seen' = Remember(Head(wire).token) /\ wire' = Tail(wire)
    /\ UNCHANGED <<pc, backoff_ms, confirmed, subscribed, cur, shutdown, histVars, up, subs, attached, boundVars>>

(* A payload that is not hex: dropped, with its token already in `seen`.   *)
Undecodable ==
    /\ pc = "stream" /\ wire # <<>>
    /\ ToAnswer(Head(wire)) /\ ~Head(wire).ok
    /\ seen' = Remember(Head(wire).token) /\ wire' = Tail(wire)
    /\ UNCHANGED <<pc, backoff_ms, confirmed, subscribed, cur, shutdown, histVars, up, subs, attached, boundVars>>

BeginHandle ==
    /\ pc = "stream" /\ wire # <<>>
    /\ ToAnswer(Head(wire)) /\ Head(wire).ok
    /\ seen' = Remember(Head(wire).token) /\ wire' = Tail(wire)
    /\ pc' = "handle" /\ cur' = Head(wire)
    /\ handled' = [handled EXCEPT ![Head(wire).token] = @ + 1]
    /\ UNCHANGED <<backoff_ms, confirmed, subscribed, shutdown, replies, up, subs, attached, boundVars>>

(* handler.handle(..).await returns the reply bytes.                       *)
HandlerDone ==
    /\ pc = "handle" /\ pc' = "reply"
    /\ UNCHANGED <<backoff_ms, confirmed, subscribed, seen, cur, shutdown, histVars, nodeVars, boundVars>>

ReplySent ==
    /\ pc = "reply" /\ up
    /\ pc' = "stream" /\ replies' = [replies EXCEPT ![cur.token] = @ + 1]
    /\ UNCHANGED <<backoff_ms, confirmed, subscribed, seen, cur, shutdown, handled, nodeVars, boundVars>>

(* A failed reply is only logged, and not retried: a running node may have *)
(* sent it on all the same.                                                *)
ReplyFail ==
    /\ pc = "reply" /\ CallFails
    /\ pc' = "stream"
    /\ \/ UNCHANGED replies
       \/ up /\ replies' = [replies EXCEPT ![cur.token] = @ + 1]
    /\ UNCHANGED <<backoff_ms, confirmed, subscribed, seen, cur, shutdown, handled, nodeVars, sends>>

-----------------------------------------------------------------------------
(* Leaving the inner loop *)

(* stream.next() is None: reconnect at once.                               *)
StreamEnd ==
    /\ pc = "stream" /\ wire = <<>> /\ ~attached
    /\ pc' = "open" /\ DropStream
    /\ UNCHANGED <<backoff_ms, confirmed, subscribed, seen, cur, shutdown, histVars, up, subs, boundVars>>

(* stream.next() is Some(Err): the stream is dropped, reconnect at once.   *)
StreamError ==
    /\ pc = "stream" /\ wire # <<>> /\ Head(wire) = Garbled
    /\ pc' = "open" /\ DropStream
    /\ UNCHANGED <<backoff_ms, confirmed, subscribed, seen, cur, shutdown, histVars, up, subs, boundVars>>

ReturnFromStreamOnly ==
    /\ pc = "stream" /\ shutdown
    /\ pc' = "done" /\ DropStream
    /\ UNCHANGED <<backoff_ms, confirmed, subscribed, seen, cur, shutdown, histVars, up, subs, boundVars>>

(* The shutdown branch of the three select! calls.                         *)
Return ==
    /\ pc \in {"stream", "backoff"} /\ shutdown
    /\ pc' = "done" /\ DropStream
    /\ UNCHANGED <<backoff_ms, confirmed, subscribed, seen, cur, shutdown, histVars, up, subs, boundVars>>

-----------------------------------------------------------------------------
(* The caller and the node *)

ShutdownSignal ==
    /\ ~shutdown /\ shutdown' = TRUE
    /\ UNCHANGED <<loopVars, histVars, nodeVars, boundVars>>

Fault == faults < MaxFaults /\ faults' = faults + 1

(* The connection breaks: the frames still in flight may be lost.          *)
Truncate == \E k \in 0..Len(wire) : wire' = SubSeq(wire, 1, k)

(* The node process dies; its subscriptions lived in its memory only.      *)
NodeCrash ==
    /\ up /\ Fault
    /\ up' = FALSE /\ subs' = {} /\ attached' = FALSE /\ Truncate
    /\ UNCHANGED <<loopVars, shutdown, histVars, sends>>

NodeStart ==
    /\ ~up /\ up' = TRUE
    /\ UNCHANGED <<loopVars, shutdown, histVars, subs, attached, wire, boundVars>>

(* The stream's connection breaks while the node lives on.                 *)
Cut ==
    /\ attached /\ Fault
    /\ attached' = FALSE /\ Truncate
    /\ UNCHANGED <<loopVars, shutdown, histVars, up, subs, sends>>

(* The node emits a frame that does not decode.                            *)
Garble ==
    /\ attached /\ Len(wire) < MaxWire /\ Fault
    /\ wire' = Append(wire, Garbled)
    /\ UNCHANGED <<loopVars, shutdown, histVars, up, subs, attached, sends>>

Streamed(m) == attached /\ (StreamTopics = {} \/ m.topic \in StreamTopics)

(* A peer's message, or its redelivery, reaches the node and is put on the *)
(* stream.  A directed request arrives whether or not its topic is         *)
(* subscribed, so the subscription is not a condition here.                *)
Deliver(m) ==
    /\ Streamed(m) /\ Len(wire) < MaxWire /\ sends < MaxSends
    /\ wire' = Append(wire, m) /\ sends' = sends + 1
    /\ UNCHANGED <<loopVars, shutdown, histVars, up, subs, attached, faults>>

-----------------------------------------------------------------------------
LoopStep ==
    \/ Open \/ OpenFail
    \/ \E t \in Subscribe : SubscribeTopic(t) \/ SubscribeFail(t)
    \/ StartStreaming \/ Wake
    \/ Ignore \/ Undecodable \/ BeginHandle \/ HandlerDone \/ ReplySent \/ ReplyFail
    \/ StreamEnd \/ StreamError
    \/ Return

NodeStep ==
    \/ NodeCrash \/ NodeStart \/ Cut \/ Garble
    \/ \E m \in Message : Deliver(m)

(* The loop returned: nothing is left to happen but the node's own life.   *)
Done == pc = "done" /\ UNCHANGED vars

Next == LoopStep \/ NodeStep \/ ShutdownSignal \/ Done

(* The steps the loop takes by itself: its sleep ends, its stream has an   *)
(* item or an end, or shutdown has resolved where the loop selects on it.  *)
OwnStep ==
    \/ StartStreaming \/ Wake
    \/ Ignore \/ Undecodable \/ BeginHandle
    \/ StreamEnd \/ StreamError
    \/ Return

(***************************************************************************)
(* The executor runs the loop whenever it is ready.  select! polls its     *)
(* branches in a random order, so a shutdown that stays ready is taken     *)
(* even if the stream is always ready too: strong fairness.  No call has   *)
(* to end: the client sets no timeout, no other branch runs beside open,   *)
(* subscribe and reply, and a handler is the caller's own code.            *)
(***************************************************************************)
Fairness == WF_vars(OwnStep) /\ SF_vars(Return)

Spec == Init /\ [][Next]_vars /\ Fairness

-----------------------------------------------------------------------------
Streaming == pc \in {"stream", "handle", "reply"}

(***************************************************************************)
(* While the loop processes a stream that the running node feeds, that     *)
(* node routes every topic of the service: a restart that wipes the        *)
(* subscriptions between two subscribe calls, or at any other moment, also *)
(* ends the stream, so the loop never waits on a node that forgot it.      *)
(***************************************************************************)
StreamingIsSubscribed == Streaming /\ attached => Subscribe \subseteq subs

(***************************************************************************)
(* The de-dup set of a long-lived server stays within its bound.           *)
(***************************************************************************)
SeenBounded == Cardinality(seen) <= SeenCap

(***************************************************************************)
(* De-duplication: however often the node redelivers a request, across     *)
(* reconnects and restarts, its handler runs at most once and it is        *)
(* replied to at most once.  True while no more tokens arrive than `seen`  *)
(* holds: beyond, the clear forgets tokens that were answered.             *)
(***************************************************************************)
AnsweredAtMostOnce ==
    \A t \in Token : handled[t] <= 1 /\ replies[t] <= handled[t]

(***************************************************************************)
(* A request redelivered while its handler runs or its reply is on the way *)
(* is recognised, even when it is the very request that rolled `seen`      *)
(* over: the code re-inserts the token after it clears the set.            *)
(***************************************************************************)
InFlightRemembered == pc \in {"handle", "reply"} => cur.token \in seen

(* Waiting for the node or the handler, with nothing selected beside it.   *)
Calling == pc \in {"open", "handle", "reply"} \/ (pc = "subscribe" /\ confirmed # Subscribe)

(***************************************************************************)
(* The hypothesis of the liveness properties: no call waits for ever.  The *)
(* code does not ensure it.  What it excludes is a loop stuck in one call, *)
(* deaf to its stream and to shutdown.                                     *)
(***************************************************************************)
CallsEnd == []<>~Calling

Listening == Streaming /\ attached /\ Subscribe \subseteq subs

(***************************************************************************)
(* The service survives its node: once the node stays up, and if calls     *)
(* end, the loop comes to stream from it with every topic subscribed for   *)
(* good, or has been shut down.                                            *)
(***************************************************************************)
NeverDeaf == CallsEnd /\ <>[]up => <>[](Listening \/ pc = "done")

(***************************************************************************)
(* If calls end, shutdown is noticed wherever the loop is suspended when   *)
(* it resolves, with the node up or down: it may never come to stream and  *)
(* has to notice in the backoff.  A call that never ends keeps the loop    *)
(* from returning, for open, subscribe, handle and reply select nothing.   *)
(***************************************************************************)
ShutdownReturns == CallsEnd => (shutdown ~> pc = "done")

ServedRequest == {m \in Message : m.ok /\ m.topic \in Accept /\ m.token # NoToken}

OnWire(m) == \E i \in 1..Len(wire) : wire[i] = m

(***************************************************************************)
(* A decodable request that reaches the open stream runs its handler,      *)
(* unless the connection is lost, a bad frame makes the loop drop the      *)
(* stream, the service is shut down first, or a call ahead never ends.     *)
(***************************************************************************)
RequestsAreHandled ==
    CallsEnd =>
        \A m \in ServedRequest :
            (attached /\ OnWire(m))
                ~> (handled[m.token] > 0 \/ ~attached \/ OnWire(Garbled) \/ shutdown)

=============================================================================
