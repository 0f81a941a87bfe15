# TLA+ specifications of the CE SDK

`ce-rs` is the client library of a CE node: an application uses it to talk to the node on
its machine (over HTTP, server-sent events or a shared-memory "lane"), to serve requests
that reach the node over the mesh, to advertise and find services, and to store objects in
the node's blob store. This directory specifies the parts of the library that keep state, wait
or fail, checks them with TLC on small instances, and proves with TLAPS, for all instances, every
safety property the passing runs check.

Line numbers refer to `src/*.rs` of the repository (`src/src/` in `PROJECT.json`).

## 1. Inventory

| Part | State | Operations | Talks to |
|---|---|---|---|
| Serve loop (`serve.rs`) | position in the loop, backoff, de-dup set `seen`, readiness flag | open stream, subscribe, sleep, receive, handle, reply, return | node: `messages_stream_for`, `subscribe`, `reply`; the caller's handler, filter and shutdown |
| Capability provide (`capability.rs`, `register` of `locate.rs`) | readiness flag, shared shutdown, position of the advertise loop | poll the flag, advertise, sleep, return | serve loop (flag, shutdown), the DHT through the node |
| Lane multiplexer (`lane.rs`) | `pending` map, `subscribers`, `next_id`, `watch_started`, `dead`, request channel, the ring | `op`, `watch_stream`, writer thread, reader thread, drop | the node over a shared-memory ring; every caller of `CeClient` |
| Transport choice (`lib.rs`) | the once-only cell that holds a lane or its absence | `send_message`, `subscribe`, `publish`, `request`, `reply` | lane, HTTP |
| SSE decoder (`sse.rs`) | buffer, data lines, event type, last id, `saw_data` | `push`, `finish`, the `decode_stream` driver | response body, in chunks cut anywhere |
| Objects (`data.rs`, `put_object`/`get_object`) | chunks in flight | chunk, put, get, verify, join | the node's blob store |
| Adapter runtime (`adapt.rs`) | the control socket; per flow two rings, two threads, the handler | accept a flow, intercept, relay, settle, tear down | an app and the node |
| Locate (`locate.rs`), `call_with` of `capability.rs` | candidates, ranking, position in failover | `locate`, `spread`, `call` | DHT, atlas, beacon, status, the instances |
| Tag directory (`tags.rs`) | the advertised tags, their records' age; the result of a search so far | advertise, refresh, `find_tag`, `find_tags_all`, `find_tags_any` | DHT |
| HTTP wrappers, wire types, app install (`lib.rs`, `app.rs`) | none | one request each | node |

How they interact. `provide` runs the serve loop and the advertise loop on one shutdown and one
flag. The serve loop, and all application code, call the node through `CeClient`, which
takes the lane when it is bound and alive and HTTP otherwise. A message stream comes from the
lane (`watch_stream`) or from the SSE decoder over HTTP. `locate::call` finds instances that
`register` advertised and sends them requests that their serve loops answer; `call_with` decodes the answer.
The tag directory uses the same DHT records for several names at once. The adapter is
the other end of a lane: it stands between an app and its node.

What is hard in this code, and the property each part owes:

* **serve**: the node keeps subscriptions in memory and may crash at any moment; requests are
  redelivered; the de-dup set is bounded. Its calls have no timeout, and nothing is
  selected beside them. Owed: the loop never listens on a live stream of a node that does not route its topics and answers
  once; as long as its calls end, it comes back after every fault and stops when told.
* **provide**: two loops share a shutdown and a flag that is written once. Owed: both stop,
  as long as their calls end; an advertised service is a routed one.
* **lane**: four kinds of process (callers, writer, reader, node) share a flag and two maps
  under separate locks. Owed: answers reach their own call; on death nobody waits for ever.
* **transport choice**: a dead lane turns into an HTTP retry. Owed: a result the node gave is final
  and the retry is not visible as a second execution.
* **SSE**: the cuts of the transport must not be visible in the frames.
* **objects**: concurrent, fallible uploads and downloads against a store that is not trusted.
  Owed: no manifest without its chunks; what a get returns is what was put.
* **adapter**: two threads that can block on each other's rings. A thread may fail to start. Owed: order, no frame
  after a denial, exactly one settlement, all threads end, one flow does not hold up another.
* **locate**: five reads at five moments, saturating arithmetic, a round robin; requests that outlive
  their timeout. Owed: live instances, none passed over for a worse one, as many fault domains as possible, failover over all of
  them, and one reply.
* **tags**: a search reads several records one after another while they change; records expire unless
  a refresh renews them, and a refresh stops at its first failure. Owed: no node is found that never had
  the tags, none is missed that always had them, and a tag lapses only if its refreshes failed.

`PROJECT.json` lists each hazard at its line with the properties that watch it.

## 2. Modules

| Module | Models | How |
|---|---|---|
| `Serve` | `serve.rs`, the node's stream and subscriptions | one action per await point and per outcome; `seen`, `backoff`, `pc` as in the code |
| `ServeProofs` | theorems about `Serve` and `Provide` | section 4 |
| `Provide` | `capability.rs:190-264`, `locate.rs:208-227` | EXTENDS `Serve`, adds the advertise loop and the DHT record |
| `Lane` | `lane.rs` | one action per atomic step of `op`, `watch_stream` and the two threads |
| `LaneProofs` | theorems about `Lane` and `MeshCall`, the refinement of `MeshOp` among them | section 4 |
| `MeshOp` | what a mesh op promises its caller | the abstract specification: idle, running, ok or failed, and how often performed |
| `MeshCall` | `CeClient::lane` and the five ops | EXTENDS `Lane`, adds the cell and HTTP; implements `MeshOp` |
| `Sse` | `sse.rs` | the decoder as a state machine, against a declarative reading of the whole body |
| `SseProofs` | theorems about `Sse` | section 4 |
| `Objects` | `put_object`, `get_object`, `data.rs` | chunks are sequences of letters, a CID is the content itself; `reassemble` is the reference of a get |
| `ObjectsProofs` | theorems about `Objects` | section 4 |
| `Adapt` | `adapt.rs:70-135` | the accept loop; per flow a main and a relay thread over two rings in each direction |
| `AdaptProofs` | theorems about `Adapt` | section 4 |
| `Locate` | `locate()` and its ranking | the ranking as operators, the awaits as actions |
| `Call` | `call` of `locate.rs`, `call_with` and `CapHandler` of `capability.rs` | EXTENDS `Locate`, adds the requests to the instances and what the caller gets |
| `CallProofs` | theorems about `Locate` and `Call` | section 4 |
| `Tags` | `tags.rs` | the advertiser over ageing records, and a search over records that change |
| `TagsProofs` | theorems about `Tags` | section 4 |
| `SequenceLemmas` | least members and induction for sets of naturals, what `FlattenSeq` and orders of a set are | section 4 |
| `MC*` | the instances TLC checks | section 3 |

### How state and actions correspond to the code

**Serve.** `pc` is the await the loop stands at: `open` (messages_stream_for), `subscribe`,
`backoff`, `stream` (the inner select), `handle`, `reply`, `done`. `confirmed` holds the topics
confirmed on this connection. The node is `up`, `subs` (what it routes) and `wire` (frames on their way to
an open stream); `attached` says that the open stream is fed by the node's current life. Requests are
records of a topic, a token and whether the payload decodes. `Remember` is the insert with
its clear at the limit; a `Frame` may be `Garbled`, which is the stream's `Err` item.

A call that fails may have taken effect at the node: `SubscribeFail` and `ReplyFail` leave that
open. A call may also never end: no fairness moves the loop on from `open`, `subscribe`, `handle` or `reply` (`Calling`). A directed request arrives at the node whether or not its topic is subscribed, which is why
`Deliver` does not ask for it.

**Provide.** `regPc` is `wait` (polling the flag every 20 ms), `advertise`, `sleep` or `done`;
`record` is the provider record in the DHT, which `Expire` removes. An advertise may never end either.

**Lane.** A call's `pc` goes through `idle`, `check`, `insert`, `send`, `await`, and for a watcher on
to `push` and `recheck`, and ends in what it returned. `Insert` takes an id and registers the oneshot as one step, because the
code only uses ids as keys: it does not matter in which order two calls that drew theirs get the lock. `slot[c]` is the
content of call `c`'s oneshot. `req` is the unbounded channel to the writer, `c2n` and `n2c` the two directions of the
ring, `closed` its close flag. A closed ring still yields the frames that were in it, as `recv_into`
does. `DrainPending` and `DrainSubs` are two steps because they take two locks. `Cancel` is a future
or stream that is dropped while it waits; `ClientDrop` drops the `LaneClient`, which the code allows only when no
call borrows it.

**MeshCall.** `cell` is the `OnceLock`: unset, a bound lane, or none. `via[c]` is the transport that carries
the call now, `http[c]` the number of times HTTP performed it, `executed[c]` (of `Lane`) how often
the node performed it over the lane. `HttpOk` needs a performed request and a body that decodes, `HttpErr` needs
neither: an error answer does not say what the node did.

**Sse.** A body is a sequence of letters among `CR`, `LF`, field names, a colon, payload letters, NUL
and the two bytes of one wide character. An `Option` is a sequence of at most one value, so that an event with an empty
name is not an event without one. `Push` takes any chunk of what is left; `TakeLine` is one turn of
the loop in `push`. The properties compare the frames so far with `FramesOf`, a declarative
reading of the arrived bytes at once; `torn` records whether a cut fell inside a CRLF or a character.

**Objects.** A blob is a value, and its CID is the value: `Cid` maps equal content to equal names and
different content to different names, as SHA-256 is used here. Faults are a failed call (stored
or not), a blob that is lost, a blob that is replaced by another, among them a manifest that misstates the object's size
(`Misstated`), and an answer to the upload of a manifest with no hash or a wrong one, which `put_object` passes on
("misnamed"). `Join` is the concatenation of
`get_object`; `Reassembles` is what `data::reassemble` would accept of the same chunks.

**Adapt.** `control` is the accept loop, `flow[f]` the record of one flow: where its main thread (`main`) and its
relay thread (`relay`) are, the frame each holds, the rings and closes of its two endpoints, and what each end has
sent and received. Requests and responses are numbers in the order they were sent; the handler may
forward (whatever bytes it makes of a request, it keeps its number) or deny any request. Rings hold `RingSlots`
frames and a send into a full ring blocks until a slot is free or the ring is closed. A fault is a thread that cannot
be created: without its main thread a flow's endpoints are dropped with the closure they were moved to, which closes both
(`adapt.rs:83-86`), and one without its relay thread runs on
with the app's half (`adapt.rs:98`), and its answers stay in the ring.

**Locate.** Scores are integers: each fraction of the code is brought to a common denominator, so the order
they induce is the code's order. The sort is stable and the DHT answers in any order, so equal scores come in any order: `Ranked`
is the set of what `locate()` may return, the beginnings of all orders that fit. The jitter of `beacon_jitter` is any small value for each pair of node and
beacon (`Jitter`). What is ranked are the entries of the DHT's answer (`Listing`), each of which names a node (`NodeOf`): the
code goes through the list as it came, so a node listed twice is two candidates. `Merits` is what the ranking goes by, and `Better`
the partial order of remote instances by it that the properties speak of. Cores and memory are measured in units of their soft ceilings (`FullCores`, `FullMem`).

**Call.** `request[n]` is what became of the request to the instance listed as `n`: under way, lost, or handled with a reply.
`GetReply` takes the reply of the instance asked last; `AskFails` is a lost request, or a timeout while the request or
its reply is still under way, after which `Handle` may run at that instance beside the next one. `Reply` has a
provider's result, its error (`Wire::Err`) and bytes of somebody who is no provider: all three end the call, as
only a failed request makes it go on. `want < MinCandidates` is a caller that uses `locate` alone.

**Tags.** A record lives `Lifetime` ticks and `left[t]` counts them; `Refresh` is the app's call of `refresh()` once
per `Interval`, and `RefreshStep` one advertise of its loop, which may fail before or after the node performed it.
The node's answer lists the providers in any order and one perhaps several times (`FindService`, up to `MaxListed` ids), as the
code passes its list on; a peer's records come and go at any time. A search's lookups are one step each
(`FindTag`); `Kept` is the filter of the intersection and `NewIn` what the union appends; `seen` and `steady` record who had a tag at some time of the search, and all through it.

## 3. Runs

All passing runs finish within about two minutes on two cores. A run that expects a violation is
a disagreement between the code and what it says of itself; section 6 lists them.

| Run | Question | Bounds | Why they are enough |
|---|---|---|---|
| `serve` | Does the loop stay subscribed and answer once? If its calls end, does it recover, stop, and handle what reaches it? | 2 served topics of 3, 3 tokens of which 2 are on served topics, 4 sends, 2 faults, 2 frames on the wire, backoff 1..3, a de-dup set of 2 | two topics let a restart fall between two subscribes; two faults let the second hit the recovery from the first; four sends leave two redeliveries of a full set; requests come served, undecodable, foreign and without a token. The set is as large as the tokens that enter it, which is the hypothesis of at-most-once |
| `provide` | If their calls end, do both loops stop from any wait, and does a capability whose node stays up stay served and advertised? Is `seen` bounded, and does it keep the request in the handler? | 1 topic, 2 tokens on a de-dup set of 1, 2 sends, 2 faults | both loops pass every wait and a fault can hit each loop's call; the second token makes the set roll over |
| `provide_routed` | Does an advertise go out only while the topic is routed? | as `provide` | a violation |
| `lane` | Is the multiplexer safe, is what was registered woken, does every stream end? | 2 watchers, 1 slot, 1 event, 1 bad frame | `watch_stream` contains the whole of `op`; two of them race for `watch_started`, for `pending` and for `subscribers`; with one slot every send can block. More callers are covered by the theorems |
| `lane_stranded` | Is every waiting call woken after the flow's death? | 1 op | a violation |
| `mesh_call` | Do lane and HTTP together implement `MeshOp`? Is an answer over the lane final? | 1 op with its fallback and 1 watcher beside it | ops share nothing but the lane, and calls of both kinds are under way at once |
| `sse` | Are chunk boundaries invisible? | every body of up to 4 lines of 8 kinds, an event without a value and an id with a NUL among them, with LF, CR or CRLF ends, with and without an unterminated tail, cut in every way | four lines hold a whole frame of every shape, or two short ones, and a lead-in; a cut falls inside each line, character and terminator |
| `sse_torn` | Are they invisible wherever they fall? | bodies of up to 2 lines with a wide character | a violation |
| `objects` | Are manifests complete, gets exact? | objects of 5, 2 and 0 letters in chunks of 2, two sharing a chunk, 2 concurrent transfers, 2 faults, a manifest that misstates its size | a repeated chunk, a shared chunk, a short last chunk, no chunk, more chunks than slots; a get reaches and fails the comparison of sizes |
| `adapt` | Order, denial, settlement, teardown, also beside another flow? | a flow of 2 requests and 2 frames back, a flow that only opens and closes, one-slot rings, 1 thread that cannot be created | one slot blocks either thread with a second frame in its hand, two frames can be swapped, repeated or skipped in either direction, and a second request waits behind a denied one; flows share only the accept loop, so what one can do to another shows on a flow without traffic |
| `locate` | Are only live instances chosen, no remote one passed over for a worse one, and are they spread? Does a call try everyone, and hand out the first reply only? | 5 listings of 4 nodes, 3 of them remote and one listed twice, of 4 kinds or unknown, the local one, 2 beacons, a clock that moves once, 3 faults, `want` 2 and 3 | every mix of shared, distinct and unknown domains, ties and both ways to break them, more candidates than wanted; an instance that lacks the tag and is as good as any; all candidates of a call can fail, or be late |
| `tags` | Does a search find whom it should while records change? When does a tag lapse, and does it come back? | 2 tags of the advertiser, 1 peer, a lifetime of 5 ticks, an interval of 2, searches for up to 2 tags, answers of up to 3 ids of 2 nodes | a record outlives two failed refreshes and not three; the first tag's failure hits the second; a search of two tags, or of the same one twice, can be overtaken between its lookups |

`CHECK_DEADLOCK FALSE` is set where the system may stop: calls that were all made, bodies that were read,
flows that were torn down. In `Serve` and `Provide` the end of the loop is the explicit step `Done`, in `Call` the
end of a call is `Finished`, and `Tags` never ends: there deadlock is checked. No run uses symmetry or a state
constraint: every bound is a guard of the module (`MaxSends`, `MaxFaults`, `MaxEvents`, ...), but for `misses`
of `Tags`, a counter that stays at its bound.

### Fairness, and why the code justifies it

* `Serve`: `WF(OwnStep)`: the executor polls the loop, so what it can do by itself it does: its sleep expires, its stream
  has an item or an end, shutdown has resolved where the loop selects on it. `SF(Return)`: `select!` polls its branches in random
  order, so a shutdown that stays ready is chosen some time even if the stream is ready each time. That a broken stream
  is noticed, as an end or an error, is part of `OwnStep`.
  No call has to end: the client sets no timeout (`lib.rs:80`), opening, subscribing, handling and replying (`serve.rs:147`, 168, 237,
  238) are awaited with nothing beside them, a lane op can hang (`lane_stranded`), and a handler is the caller's. So the
  liveness properties have `CallsEnd` as a hypothesis, `[]<>~Calling`: the loop does not stay in a call for ever. Where it matters they
  also have that the node stays up.
* `Provide`: the same for each loop by itself, as both are polled by one `join`. `AllCallsEnd` adds that an
  advertise does not last for ever.
* `Lane`: executors poll ready tasks and the OS schedules both threads. The node owes no answer.
* `Adapt`: the accept loop and all threads run; the app reads what reaches it and the node serves what reaches it.
  They owe no request, no answer and no close.
* `Tags`: `WF(AdvertiserStep)`: time passes, the app calls `refresh()` whenever the interval is over, as `tags.rs`
  asks of it, and each advertise ends, which is assumed of the node as nothing in the client ends it. It may fail each time: that it does not is the hypothesis of `TagsComeBack`.
* `Sse`, `Objects`, `MeshCall` and `Call` are checked for safety only and state no fairness. That a call returns
  shows in the absence of deadlock: all its loops are bounded by the candidates.

## 4. Proofs

TLAPS checks the following for all values of the constants: every safety property of a passing run is a theorem.

**`ServeProofs`**, from `ServeAssumption` (the topic sets are subsets of `Topic`, messages are
well-formed records, the bounds are natural numbers with `BackoffMin <= BackoffMax`, `SeenCap` at least one):

* `TypeCorrect`: `Spec => []TypeOK`. `TypeOK` is inductive; the point that is not immediate is that the backoff
  stays in its range under doubling.
* `StreamingSubscribed`: `Spec => []StreamingIsSubscribed`. The property is not inductive: nothing in it says
  what holds while the loop is still subscribing. `SubscriptionInv` adds that, on an attached stream, every
  topic in `confirmed` is in the node's `subs`, and that the loop streams only when all topics are confirmed. A crash empties
  `subs` and detaches the stream in the same step, and only `Open`, which empties `confirmed`, attaches again.
* `SeenStaysBounded`: with `SeenInv`, which adds finiteness, since `Cardinality` says nothing of an infinite set.
* `InFlightIsRemembered`: the token in the handler's hands was inserted by the step that started the handler, after the clear if
  there was one.
* `AtMostOnce`: `TokensFit /\ Spec => []AnsweredAtMostOnce`. If all tokens fit the set, it is never cleared, so
  `AnswerInv` (a token outside `seen` was never handled, none was handled twice, and the one in progress has no reply yet) is inductive. Without
  `TokensFit` the claim is false (section 6).
* `ProvideTypeCorrect` and `ServeKeepsItsPromises`, for `ProvideSpec`: the steps of the advertise loop leave every variable of the
  serve loop alone but the count of faults, so what was proved of `Serve` carries over to the capability.

**`LaneProofs`**, from `LaneAssumption` (ops and watchers are disjoint, `None` is neither, the bounds are natural):

* `TypeCorrect`: `TypeOK`, split in one part per group of variables; `PushInv` (only watchers reach the push)
  is needed since ops and watchers share the actions of `op`.
* `OrphanFree`: `NoOrphanStream`, from `DeadInv` (a thread is past its store only if `dead` is
  set): a watcher that has not looked again yet may be in `subscribers`, one that holds a stream after the drain is not.
  This is where the order "push, then look" against "mark, then drain" is used; the mutant that drops the second look breaks it.
* `GoneOnlyIfDead`: `GoneMeansDead`, from `GoneInv`: a oneshot loses its sender only in the drain, after the
  reader has set `dead`.
* `AnswersAreOwn`: `OwnAnswer`, from `IdInv` (ids are unique and below `next_id`, a pending entry carries its
  caller's id) and `FrameInv` (a frame anywhere on its way, request or answer, carries the id of
  the call whose op it names).

The same module goes on to the transport choice (`MeshSpec`). A step of the client moves the lane by a step of its own or by a stutter, so
all of the above holds of the lane within it; `MeshInv` adds

* `UpInv` and `OneCopyInv`: an op has at most one copy on its way to the node, after its caller sent it and before the node performed it;
  `PerformedInv` and `AnsweredInv`: the node performed an op at most once, and exactly once if an answer to it exists anywhere;
* `ChoiceInv`: which `pc` of the lane goes with which `via` and `http` of the client.

From it follow `MeshTypeCorrect`, `AnsweredOnce` (`AnsweredIsNeverRetried`: "answered" needs a performed op, and only "gone" leads to HTTP)
and `Refinement` (`MeshSpec => ImplementsMeshOp`). The refinement maps each op to what its caller sees (`CallState`) and to how often it was
performed over either transport (`Performed`); a step of the client is `Invoke`, `Perform`, `Succeed` or `Fail` of one op, or unseen.
That a `Perform` over the lane never exceeds two in all is `PerformedInv` with `ChoiceInv`.

**`AdaptProofs`**, from `AdaptAssumption` (the bounds are natural, rings have a slot). Every step moves at most one flow,
so the invariant is a predicate of one flow's record; there is one lemma per outcome of an action (`RecvTakes`, `RecvEnds`, ...).

* `TypeCorrect`: `TypeOK`.
* `FlowsSettle`: `SettledOnce`, from `SettledInv`, which says where on the way to "done" each part of the settlement has happened.
* `RequestsInOrder` and `FramesVerbatim`: `ForwardedInOrder` and `RelayedVerbatim`, from `Chain`: what the far end has received,
  the ring before it, the frame in the thread's hand and the ring behind that continue each other and reach the last frame sent.
  The four moves of a frame keep it (`ChainTake`, `ChainPass`, `ChainRead`, `ChainSend`). Once the thread has stopped, only the
  first two continue each other: a stopped thread passes nothing on. `PiecesNumbered` turns the chain into the concatenation of the property.

**`ObjectsProofs`**, from `ObjectsAssumption` (objects are sequences, chunk size and concurrency are positive), with `ObjectsInv`:

* `ManifestsComplete`: `ManifestIsComplete`, from `CompleteInv`. Whether a blob is `Kept` (present, or damaged by the store itself) is
  stable, uploads are recorded as stored only when they are, and a manifest is sent only when all are. The point a test would miss: the manifest
  may be stored by another object with the same one, and then its chunks were too (`SameManifestSameChunks`).
* `DownloadsExact`: `GetIsExact`, from `GetInv` (what was fetched has the CIDs the manifest lists) and `ChunksRejoin`: the chunks of an
  object, joined, are the object, by induction over the chunks.
* `TypeCorrect`: `TypeOK`.

**`CallProofs`**, from `LocateAssumption` (an answer of the DHT has finitely many entries, well-formed atlas entries, a jitter of at least 1, soft ceilings that
are positive). `ReadInv` says what has been read at which await, and `RankedInv` that what is returned was ranked by what is in the
variables at the end: the clock may tick before it is read, never between the read and the ranking.

* `BestChosen`: `BestAreChosen`. An order of the candidates has each at one place (`Orders`), so its beginning has as many as wanted.
  A score is a weighted sum of the merits (`ScoreOfMerits`), so a remote that is better in some and worse in none has the higher
  score (`BetterIsBefore`). The property does not mention scores: it would not hold of a ranking that weighs a merit the wrong way.
* `SpreadOverDomains`: `SpreadCovers`. The proof reads the round robin off its definition, by the `Round` and `Place` of each member: a bucket opens in
  round 0 (`Opening`), a candidate left over is of no earlier round than any that was chosen (`BucketsShareAlike`), and places and
  chosen members are counted by a bijection (`PerBucketPlaces`, `ChosenCount`). Nothing is assumed of ties.
* `FailoverIsComplete` and `RepliesAreFinal`: `FailsOnlyIfAllFail` and `FirstReplyIsFinal`, from `CallInv`: the instances asked are a
  beginning of the list, and each one but the last has cost a fault. That counts the late handlings without following them.
* `TypeCorrect`: `TypeOK`, for which `ScoreBound` multiplies out the scores.

**`TagsProofs`**, from `TagAssumption` (the interval is shorter than the lifetime, and `MaxMisses` intervals cover it, so that a counter at its bound means a lapse):

* `LapseNeedsFailures`: `LapsesOnlyIfRefreshFailed`, from `AgeInv`: a record has lost at most the time since the last refresh began, one interval
  if the refresh under way has not come to its tag, and one interval for each refresh that missed it. The property itself says
  nothing of a record that still lives, so it is not inductive.
* `SearchesAreSound`: `SearchIsSound`, from `SandwichInv` (the records of the moment lie between those of the whole search and those of some
  time of it) and `FoundInv` (the result is sound for the tags read so far), with `KeptIs` for what the filter leaves and `NewInIs` for
  what the union appends: members of the list that are not there yet, each once. Nothing is assumed of the order or the duplicates of a list. `TypeCorrect`: `TypeOK`.

**`SseProofs`**, from `SseAssumption` (the symbols differ): `TypeCorrect`, `DecodesArrived` (`DecodesWhatArrived`) and `TrailingFrame`
(`TrailingFrameDispatched`), for bodies of any length.

* The properties speak of the moments at which the decoder waits. `DecodeInv` says what holds between: unless a chunk tore something,
  there is a cut of the text received such that all lines before it have been read (`Reads`: the decoder's state and frames are the ones these lines
  give) and the buffer is the rest.
* A push lengthens the rest: text decoded in untorn chunks is the text decoded at once (`LossyConcat`), and a cut stays a cut
  (`CutGrows`, which needs that no chunk ends between a CR and its LF).
* `TakeLine` moves the cut over one line end (`NextLine`, `LineTaken`), and one line more changes the frames as `feed_line` does
  (`FramesAppend`, `FeedLineReads`). The end of a body acts as a line end and a blank line would (`ClosedLines`), whose first is blank too when the last line is complete.

**`SequenceLemmas`** is what the others need of sequences. The library's induction theorems take an operator as a parameter, which the
provers here cannot instantiate. `NaturalInduction` states induction for a set instead ("a set with 0 and with each number the
next has all of them"), from the library's well-foundedness of `<`, and `FlattenSeqIs` derives the recursion
equation of `FlattenSeq` from it. The filters of `Tags` and the readings of `Sse` are
written with `FlattenSeq` for this reason: `SelectSeq` is opaque to the prover.

Each proof follows one plan: the invariant holds initially, `NextCases` splits a step, one step of
the proof per action, and the temporal conclusion by PTL.

**Model-checked only.** Liveness under fairness is out of the prover's reach: `NeverDeaf`, `ShutdownReturns`, `RequestsAreHandled`,
`StopTogether`, `StaysLocatable`, `WokenOnDeath`, `StreamsEnd`, `TeardownPropagates` and `TagsComeBack` stay with TLC, as do
the absence of deadlock and the three violations of section 6. Everything else the passing runs check is proved.

## 5. What is not modelled

* `app.rs` (`mesh_app_install`) and the HTTP wrappers of `lib.rs`: one request each, without state. The typed envelope of `capability.rs` and the wire types matter in whether they decode.
* `LaneClient::bind`'s socket handshake: blocking system calls. `CallByLane` and `CallByHttp` have its two outcomes.
* The `ce-lane` crate, the node, the DHT and the blob store are outside the repository. They are modelled
  as they are used and marked external in `PROJECT.json`.
* The encodings: JSON, hex, `postcard`. A payload matters only in whether it decodes.
* The lane threads' creation that fails (`.ok()` at `lane.rs:101` and `150`), and poisoned locks: no
  code panics under these locks.
* A message stream as a component of its own: `Serve` has what its loop can see of one (an open that fails, frames, an
  error item, an end, requests lost between two streams), over either transport; `Lane` and `Sse` have the transports.

## 6. Where code and documentation disagree

Three disagreements have a run that expects a violation; the trace TLC prints is the argument.

1. `lane_stranded`: `op` reads `dead` (`lane.rs:170`), then registers (175), and never looks again. If the
   reader drains in between and the writer is still blocked in `recv`, the frame is accepted and the waiter is left in a
   map nobody will drain. `lane.rs:105-106`: "no caller waits forever". `watch_stream` has the missing look, at 212.
2. `provide_routed`: the readiness flag is never lowered, so an advertise after a node restart, a heartbeat or the very first
   one, goes out while the topic is not routed; `serve.rs:120-121` says a caller can never locate such an instance.
3. `sse_torn`: a character cut between two chunks is replaced (`sse.rs:51`); `sse.rs:31-32` says "safe to feed
   arbitrary chunk boundaries".

The others were met while modelling. The actions follow the code, and the properties claim only what the code keeps:

* An op that the node performed over a lane which died before the answer was read is performed again
  over HTTP (`lib.rs:499`); `lane.rs:5-9` calls the fallback silent and the semantics identical. `MeshOp`
  allows two executions, and `AnsweredIsNeverRetried` excludes them for an op that was answered.
* A shutdown is not noticed in a call that never ends. `capability.rs:261` says of the two loops "each returns when the shared shutdown
  fires" and `serve.rs:74` has the loop serve until it resolves, but no call has a timeout (`lib.rs:80`) or a select beside it
  (`serve.rs:147`, 168, 191, 238). `ShutdownReturns` and `StopTogether` have "calls end" as their hypothesis.
* `refresh` stops at the first tag that fails (`tags.rs:114`), and the tags after it age on; `tags.rs:111` says that it
  re-advertises every tag. The hypothesis of `TagsComeBack` is "fails at this tag or before it".
* The lane's stream carries every message (`lib.rs:331`), the SSE stream only the topics asked for; `lib.rs:301-304`
  presents them as one. The serve loop filters again, so it makes no difference there: the runs of `Serve` stream all topics (`StreamTopics = {}`), foreign ones too.
* A CRLF cut between two chunks counts as two line ends (`sse.rs:132`). `DecodesWhatArrived` excludes
  exactly these cuts and the ones of item 3.
* `finish` feeds an unterminated last line to the decoder (`sse.rs:66`); its comment (`sse.rs:64-65`) says it is discarded,
  and a test's (`tests/sse_stream.rs:102`) has it as a final line. The repository disagrees with itself, so
  `TrailingFrameDispatched` claims nothing of a body that ends within a line.
* Clearing `seen` (`serve.rs:226`) forgets answered tokens, `serve.rs:79-80` says at most once.
  `AnsweredAtMostOnce` is checked and proved for tokens that fit the set.
* An established stream that ends is reopened at once, `serve.rs:78` speaks of backoff; and until it is open again a
  node that lived on is subscribed with nothing streaming, which `serve.rs:144-145` rules out.
* The manifest is not compared with the CID it was asked for (`lib.rs:439`), `lib.rs:434-436` calls the
  fetch trustless. `GetIsExact` has "was given the object's own manifest" as its hypothesis. Nor does `put_object` compare the
  hash the node reports for the manifest: any other hash, or none, is returned as the object's CID (`lib.rs:431`).
* A remote instance can come before the co-located one, whose score is fixed at 1.0 (`locate.rs:118`),
  although `locate.rs:110` prefers the local one: a remote that is just seen and wholly free scores 1.0 and its jitter. The run has
  the case, and `BestAreChosen` and `SpreadCovers` say nothing of the place of the local instance, neither what the comment says nor what
  the code does.
* Failover follows the spread over fault domains, not the score (`locate.rs:178`: "next-best"). `BestAreChosen` speaks of
  the order only without spreading.
* A node that the DHT's answer lists twice is two candidates: it takes two of the instances wanted, `call` asks it twice, and without a
  known domain it counts as two of them (`locate.rs:109`, 246-250). `find_tags_all` keeps the duplicates of its first list
  (`tags.rs:69`), as the code does of any list; only of the union do code and tests (`tests/prop.rs:241`) say that it has none, and
  `SearchIsSound` claims it of the union only.

## 7. Plan

Done: `Serve` and `Lane` first, as everything else goes through them, with their theorems; then the modules that
compose with them (`Provide`, `MeshCall`); then the self-contained parts (`Sse`, `Objects`, `Adapt`, `Locate`, `Tags`)
and `Call`, which composes `Locate` with the capability providers it asks.

The theorems came in the same order and cover every safety property of the passing runs. What is left to prove:

1. The safety cores of the liveness properties: the invariants that keep a step possible, as in "a frame that waits in a ring of a
   closed flow has a thread that will read it" for `TeardownPropagates`, or "an entry of `pending` has a waiter that is not
   past it" for `WokenOnDeath`.
2. Action properties that the invariants imply and no run states, such as that a result once returned stays.
