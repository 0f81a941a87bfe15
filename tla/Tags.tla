-------------------------------- MODULE Tags --------------------------------
(***************************************************************************)
(* The tag directory of src/src/tags.rs: a node keeps its tags in the DHT  *)
(* by advertising them again and again (TagAdvertiser), and a client looks *)
(* for the nodes with all, or any, of some tags, one lookup after another  *)
(* while the records change.  The DHT is outside the repository: a record  *)
(* expires unless it is renewed.                                           *)
(***************************************************************************)
EXTENDS Integers, Sequences, SequencesExt

CONSTANTS
    Tag,
    OwnTags,        \* the tags of the TagAdvertiser, in order
    Self, Peer,     \* the node it advertises, and the other ones
    Bare,           \* nodes that provide a service named like a tag
    Lifetime,       \* ticks a record lives
    Interval,       \* ticks between two refreshes
    MaxMisses,      \* bound of the counters in `misses`
    MaxTags,        \* bound of the number of tags looked for at once
    MaxListed       \* bound of the number of ids in the node's answer to a lookup

ASSUME TagAssumption ==
    /\ OwnTags \in Seq(Tag) /\ Self \notin Peer /\ Bare \subseteq Peer
    /\ Interval \in Nat \ {0} /\ Lifetime \in Nat /\ Interval < Lifetime
    /\ MaxMisses \in Nat /\ MaxMisses * Interval >= Lifetime
    /\ MaxTags \in Nat /\ MaxListed \in Nat

VARIABLES
    left,           \* per tag, how long the record of Self still lives
    others,         \* per tag, the peers with a record
    elapsed,        \* ticks since the last refresh began
    refreshing,     \* index of the tag refresh() is at, 0 when it does not run
    misses,         \* history: refreshes in a row that failed at or before a tag
    mode, tags,     \* the search, find_tags_all or find_tags_any, its argument,
    read, acc,      \* how many lookups it made, and the result so far
    seen, steady    \* history: per tag, nodes with a record at some time of
                    \* the search, and all through it

advertVars == <<elapsed, refreshing, misses>>
searchVars == <<mode, tags, read, acc>>
vars == <<left, others, advertVars, searchVars, seen, steady>>

Node == Peer \cup {Self}

(* The service a tag is advertised and looked for under.                   *)
TagService(t) == <<"tag", t>>

BareService(t) == <<"bare", t>>

Providers(service) ==
    LET t == service[2] IN
    IF service = BareService(t) THEN Bare
    ELSE others[t] \cup (IF left[t] > 0 THEN {Self} ELSE {})

(* find_service passes on the node's list: in any order, and one provider  *)
(* may be in it more than once.                                            *)
FindService(service) ==
    {list \in BoundedSeq(Node, MaxListed) : Range(list) = Providers(service)}

Having(t) == Providers(TagService(t))

Unseen == [t \in Tag |-> {}]

(* Every step of the DHT is seen by the search that is under way.          *)
Observe ==
    /\ seen' = [t \in Tag |-> IF Contains(tags, t) THEN seen[t] \cup Having(t)' ELSE {}]
    /\ steady' = [t \in Tag |-> steady[t] \cap Having(t)']

-----------------------------------------------------------------------------
Init ==
    /\ left = [t \in Tag |-> 0] /\ others \in [Tag -> SUBSET Peer]
    /\ elapsed = Interval /\ refreshing = 0 /\ misses = [i \in DOMAIN OwnTags |-> MaxMisses]
    /\ mode = "none" /\ tags = <<>> /\ read = 0 /\ acc = <<>>
    /\ seen = Unseen /\ steady = Unseen

(* Time passes; a refresh is short beside a tick.                          *)
Tick ==
    /\ refreshing = 0 /\ elapsed < Interval /\ elapsed' = elapsed + 1
    /\ left' = [t \in Tag |-> IF left[t] = 0 THEN 0 ELSE left[t] - 1]
    /\ UNCHANGED <<others, refreshing, misses, searchVars>> /\ Observe

PeerChanges(t) ==
    /\ others' \in {[others EXCEPT ![t] = S] : S \in SUBSET Peer} /\ others' # others
    /\ UNCHANGED <<left, advertVars, searchVars>> /\ Observe

Refresh ==
    /\ refreshing = 0 /\ elapsed = Interval /\ OwnTags # <<>>
    /\ refreshing' = 1 /\ elapsed' = 0
    /\ UNCHANGED <<left, others, misses, searchVars, seen, steady>>

Renewed(t) == [left EXCEPT ![t] = Lifetime]

AdvertisedThen(t, renewed, next) ==
    /\ left' = renewed /\ misses' = [misses EXCEPT ![refreshing] = 0] /\ refreshing' = next
    /\ UNCHANGED <<others, elapsed, searchVars>> /\ Observe

AdvertiseUnlessListed(t) ==
    AdvertisedThen(t, IF left[t] > 0 THEN left ELSE Renewed(t), (refreshing + 1) % (Len(OwnTags) + 1))

AdvertiseFirstOnly(t) == AdvertisedThen(t, Renewed(t), 0)

AdvertisePastTheEnd(t) == AdvertisedThen(t, Renewed(t), refreshing + 1)

AdvertiseTag(t) == AdvertisedThen(t, Renewed(t), (refreshing + 1) % (Len(OwnTags) + 1))

(* The call fails, perhaps after the node has performed it, and refresh()  *)
(* returns the error: the tags after this one are not advertised.          *)
AdvertiseFails(t) ==
    /\ left' \in {left, Renewed(t)} /\ refreshing' = 0
    /\ misses' = [i \in DOMAIN OwnTags |->
                    IF i < refreshing \/ misses[i] = MaxMisses THEN misses[i] ELSE misses[i] + 1]
    /\ UNCHANGED <<others, elapsed, searchVars>> /\ Observe

RefreshStep ==
    /\ refreshing # 0
    /\ LET t == OwnTags[refreshing] IN AdvertiseTag(t) \/ AdvertiseFails(t)

-----------------------------------------------------------------------------
StartSearch ==
    /\ mode = "none"
    /\ mode' \in {"all", "any"} /\ tags' \in BoundedSeq(Tag, MaxTags)
    /\ read' = 0 /\ acc' = <<>>
    /\ seen' = [t \in Tag |-> IF Contains(tags', t) THEN Having(t) ELSE {}] /\ steady' = seen'
    /\ UNCHANGED <<left, others, advertVars>>

(* The members of S that are in the list, in its order.                    *)
Kept(list, S) ==
    FlattenSeq([i \in DOMAIN list |-> IF list[i] \in S THEN <<list[i]>> ELSE <<>>])

(* What the list adds to `out`: its first mention of anybody not in it.    *)
NewIn(list, out) ==
    FlattenSeq([i \in DOMAIN list |->
        IF list[i] \in Range(out) \cup {list[j] : j \in 1..(i - 1)} THEN <<>> ELSE <<list[i]>>])

FindIn(service) ==
    /\ mode # "none" /\ read < Len(tags)
    /\ read' = read + 1
    /\ \E providers \in FindService(service) :
        acc' = IF mode = "any" THEN acc \o NewIn(providers, acc)
               ELSE IF read = 0 THEN providers
               ELSE Kept(acc, Range(providers))
    /\ UNCHANGED <<left, others, advertVars, mode, tags, seen, steady>>

FindBareTag == FindIn(BareService(tags[read + 1]))

(* One lookup: find_tag, and what it adds to or takes from the result.     *)
FindTag == FindIn(TagService(tags[read + 1]))

(* Every lookup is made, or one fails and the search with it.              *)
EndSearch ==
    /\ mode # "none" /\ mode' = "none" /\ tags' = <<>> /\ read' = 0 /\ acc' = <<>>
    /\ seen' = Unseen /\ steady' = Unseen
    /\ UNCHANGED <<left, others, advertVars>>

AdvertiserStep == Tick \/ Refresh \/ RefreshStep

Next ==
    \/ AdvertiserStep \/ StartSearch \/ FindTag \/ EndSearch
    \/ \E t \in Tag : PeerChanges(t)

(* Time passes, the app calls refresh() whenever the interval is over, and *)
(* each advertise ends, if only in an error.  The client sets no timeout,  *)
(* so that is assumed of the node: while one hangs, records lapse.         *)
Spec == Init /\ [][Next]_vars /\ WF_vars(AdvertiserStep)

-----------------------------------------------------------------------------
(* Type invariant.                                                         *)
TypeOK ==
    /\ left \in [Tag -> 0..Lifetime] /\ others \in [Tag -> SUBSET Peer]
    /\ elapsed \in 0..Interval /\ refreshing \in 0..Len(OwnTags)
    /\ misses \in [DOMAIN OwnTags -> 0..MaxMisses]
    /\ mode \in {"none", "all", "any"} /\ tags \in BoundedSeq(Tag, MaxTags)
    /\ read \in 0..Len(tags) /\ acc \in Seq(Node)
    /\ seen \in [Tag -> SUBSET Node] /\ steady \in [Tag -> SUBSET Node]

(***************************************************************************)
(* A search reads each tag's records at another moment.  What it returns   *)
(* for `all` had every tag, and for `any` one of them, at some time of the *)
(* search; a node that had them all through it is not left out, whatever   *)
(* came and went beside it.  `any` returns nobody twice, however often the *)
(* node listed it.  Nobody is found for a service of the tag's name, and   *)
(* no tags find nobody.                                                    *)
(***************************************************************************)
SearchIsSound ==
    mode # "none" /\ read = Len(tags) =>
        LET of(S) == {S[t] : t \in Range(tags)}
            found == Range(acc)
        IN  /\ mode = "any" =>
                  /\ IsInjective(acc)
                  /\ UNION of(steady) \subseteq found /\ found \subseteq UNION of(seen)
            /\ mode = "all" =>
                  \A n \in Node : /\ n \in found => tags # <<>> /\ \A S \in of(seen) : n \in S
                                  /\ tags # <<>> /\ (\A S \in of(steady) : n \in S) => n \in found

(***************************************************************************)
(* A tag once advertised lapses only after as many refreshes in a row as   *)
(* fit in a record's lifetime failed at it or at a tag before it: one      *)
(* failed refresh, or a tag after it that always fails, loses no record.   *)
(***************************************************************************)
LapsesOnlyIfRefreshFailed ==
    \A i \in DOMAIN OwnTags : left[OwnTags[i]] = 0 => misses[i] >= (Lifetime - 1) \div Interval

FailsAtOrBefore(i) == refreshing \in 1..i /\ AdvertiseFails(OwnTags[refreshing])

(***************************************************************************)
(* Unless a tag, or one before it, fails again and again for ever, the tag *)
(* comes to be found and stays so; a tag before it that always fails keeps *)
(* it out of the directory, for refresh() stops there.                     *)
(***************************************************************************)
TagsComeBack ==
    \A i \in DOMAIN OwnTags :
        []<><<FailsAtOrBefore(i)>>_vars \/ <>[](left[OwnTags[i]] > 0)

=============================================================================
