------------------------------- MODULE Locate -------------------------------
(***************************************************************************)
(* locate() of src/src/locate.rs: find the instances of a service in the   *)
(* DHT, rank the live ones by what the node's atlas says of them, and      *)
(* choose some.  Four awaits read four different views of the network.     *)
(* The node and the DHT are outside the repository.                        *)
(***************************************************************************)
EXTENDS Integers, Sequences, FiniteSets, SequencesExt

CONSTANTS
    Node, Self,     \* all nodes, and the one the client talks to
    Listing, NodeOf,\* the entries of the DHT's answer, and the node each names
    Unknown,        \* no atlas entry, no fault-domain tag, no node id
    Entry,          \* the atlas entries a remote node may have
    Capability,     \* the capability tags callers may require
    Domain,         \* the names of regions, zones and autonomous systems
    Beacon, Jitter, \* beacon hashes, and beacon_jitter of a node under each
    JitterMax,      \* jitter 1.0, on the scale of Jitter
    FullCores,      \* the capacity ceilings: 16 cores and 32_768 MiB in the
    FullMem,        \* code
    MaxStale,       \* max_stale_secs, 120 by default
    Wants,          \* values of `want`
    Now, MaxNow,    \* the clock at the start, and its bound
    MaxFaults       \* bound: failed calls

(* The kinds of fault-domain tags, widest first.                           *)
DomainKinds == <<"region", "zone", "asn">>

ASSUME LocateAssumption ==
    /\ IsFiniteSet(Listing) /\ NodeOf \in [Listing -> Node]
    /\ Self \in Node /\ Unknown \notin Node
    /\ Entry \subseteq [cores: Nat, jobs: Nat, mem: Nat, last_seen: Nat,
                        tags: SUBSET Capability,
                        domains: UNION {[K -> Domain] : K \in SUBSET Range(DomainKinds)}]
    /\ JitterMax \in Nat \ {0}
    /\ Jitter \in [Beacon -> [Node -> 1..JitterMax]]
    /\ FullCores \in Nat \ {0} /\ FullMem \in Nat \ {0} /\ MaxStale \in Nat
    /\ Wants \subseteq Nat
    /\ Now \in Nat \ {0} /\ MaxNow \in Nat /\ MaxFaults \in Nat

VARIABLES
    clock, faults,
    want, require, spread_domains,          \* the arguments, a LocateOpts
    pc,         \* "returned" once call() has taken over the result
    atlas, ids, beacon, now, local_id,      \* what locate() has read
    instances                               \* what it returns

argVars == <<want, require, spread_domains>>
vars == <<clock, faults, argVars, pc, atlas, ids, beacon, now, local_id, instances>>

Remote == {n \in Listing : NodeOf[n] # Self}

Told(n) == atlas[NodeOf[n]]

Local(n) == NodeOf[n] = local_id

-----------------------------------------------------------------------------
(* Scoring.  Scores are exact, on a scale on which 1.0 is One.             *)

Staleness == Max({MaxStale, 1})

One == 1000 * 2 * FullCores * FullMem * Staleness * JitterMax

Monus(m, n) == IF m < n THEN 0 ELSE m - n

Age(n) == Monus(now, Told(n).last_seen)

CapacityFrom(e, free) == Min({free, FullCores}) * FullMem + Min({e.mem, FullMem}) * FullCores

CapacityWraps(e) == CapacityFrom(e, e.cores - e.jobs)

(* Free cores, at least 0, and memory, half of the capacity each.          *)
Capacity(e) == CapacityFrom(e, Monus(e.cores, e.jobs))

JitterOf(n) == Jitter[beacon][NodeOf[n]]

RemoteScore(n) ==
    JitterMax * (600 * Capacity(Told(n)) * Staleness
                 + 400 * 2 * FullCores * FullMem * (Staleness - Age(n)))
    + 2 * FullCores * FullMem * Staleness * JitterOf(n)

Score(n) == IF Local(n) THEN One ELSE RemoteScore(n)

Before(m, n) == Score(m) > Score(n)

EligibleWithin(n, limit) ==
    IF Local(n) THEN require = {}
    ELSE Told(n) # Unknown /\ Age(n) <= limit /\ require \subseteq Told(n).tags

EligibleIfStale(n) == EligibleWithin(n, MaxStale + 1)

(* The local node counts as live but has no known tags; a remote one needs *)
(* a fresh atlas entry with every required tag.                            *)
Eligible(n) == EligibleWithin(n, MaxStale)

FaultDomain(e) ==
    LET kinds == SelectSeq(DomainKinds, LAMBDA k : k \in DOMAIN e.domains)
    IN  IF kinds = <<>> THEN Unknown ELSE <<Head(kinds), e.domains[Head(kinds)]>>

(* Without a known domain a listing is a bucket of its own, and so is a    *)
(* second listing of the same node.                                        *)
Bucket(n) ==
    IF Local(n) \/ FaultDomain(Told(n)) = Unknown THEN n ELSE FaultDomain(Told(n))

Candidates == {n \in ids : Eligible(n)}

Wanted == Max({want, 1})

Spreading == Wanted > 1 /\ spread_domains

(* The rankings by score.  The sort is stable and the DHT answers in any   *)
(* order, so instances with equal scores come in any order.                *)
BestFirst(s) == \A i, j \in DOMAIN s : i < j => ~Before(s[j], s[i])

(* The round of the round-robin in which the i-th instance is taken, and   *)
(* the place at which its bucket has its turn in each round.               *)
Round(s, i) == Cardinality({k \in 1..(i - 1) : Bucket(s[k]) = Bucket(s[i])})

Place(s, i) == Min({k \in 1..i : Bucket(s[k]) = Bucket(s[i])})

ByRound(s) ==
    \A i, j \in DOMAIN s : i < j =>
        /\ Round(s, i) <= Round(s, j)
        /\ Place(s, i) = Place(s, j) => ~Before(s[j], s[i])

(* Round by round, in each the buckets in the order of their best          *)
(* instances, and in each bucket the best first.                           *)
RoundRobin(s) ==
    \A i, j \in DOMAIN s : i < j =>
        /\ Round(s, i) <= Round(s, j)
        /\ Round(s, i) = Round(s, j) => Place(s, i) < Place(s, j)
        /\ Place(s, j) \in {Place(s, i), j} => ~Before(s[j], s[i])

(* What locate() may return: the first ones of an order of the candidates. *)
Ranked ==
    {SubSeq(s, 1, Min({Wanted, Len(s)})) :
        s \in {t \in SetToSeqs(Candidates) : IF Spreading THEN RoundRobin(t) ELSE BestFirst(t)}}

-----------------------------------------------------------------------------
NoAtlas == [n \in Node |-> Unknown]

AnyBeacon == CHOOSE b \in Beacon : TRUE

Init ==
    /\ clock = Now /\ faults = 0
    /\ want \in Wants /\ require \in SUBSET Capability /\ spread_domains \in BOOLEAN
    /\ pc = "find" /\ instances = <<>>
    /\ atlas = NoAtlas /\ ids = {} /\ beacon = AnyBeacon /\ now = 0 /\ local_id = Unknown

Fault == faults < MaxFaults /\ faults' = faults + 1

(* find_service: any list of providers, the dead and the unknown included, *)
(* and a node perhaps twice; an empty one ends the search.                 *)
FindService ==
    /\ pc = "find"
    /\ ids' \in SUBSET Listing /\ pc' = IF ids' = {} THEN "located" ELSE "atlas"
    /\ UNCHANGED <<clock, faults, argVars, atlas, beacon, now, local_id, instances>>

(* What the atlas says of the nodes that were found.                       *)
Atlas ==
    /\ pc = "atlas" /\ pc' = "beacon"
    /\ atlas' \in [Node -> Entry \cup {Unknown}]
    /\ \A n \in Node : n = Self \/ n \notin {NodeOf[i] : i \in ids} => atlas'[n] = Unknown
    /\ UNCHANGED <<clock, faults, argVars, ids, beacon, now, local_id, instances>>

(* Either of the two calls fails, and locate() with it.                    *)
LookupFails ==
    /\ pc \in {"find", "atlas"} /\ Fault /\ pc' = "failed"
    /\ UNCHANGED <<clock, argVars, atlas, ids, beacon, now, local_id, instances>>

(* A failed beacon is one more hash, the empty one.  Then the clock is read.*)
ReadBeacon ==
    /\ pc = "beacon" /\ pc' = "status"
    /\ beacon' \in Beacon /\ now' = clock
    /\ UNCHANGED <<clock, faults, argVars, atlas, ids, local_id, instances>>

(* Without an answer to status the local node is one more unknown node.    *)
ReadStatus ==
    /\ pc = "status" /\ local_id' \in {Self, Unknown} /\ pc' = "rank"
    /\ UNCHANGED <<clock, faults, argVars, atlas, ids, beacon, now, instances>>

Rank ==
    /\ pc = "rank" /\ pc' = "located" /\ instances' \in Ranked
    /\ UNCHANGED <<clock, faults, argVars, atlas, ids, beacon, now, local_id>>

(* Time matters between the atlas reply and the clock read.                *)
Tick ==
    /\ pc = "beacon" /\ clock < MaxNow /\ clock' = clock + 1
    /\ UNCHANGED <<faults, argVars, pc, atlas, ids, beacon, now, local_id, instances>>

LocateNext ==
    FindService \/ Atlas \/ LookupFails \/ ReadBeacon \/ ReadStatus \/ Rank \/ Tick

-----------------------------------------------------------------------------
(* Type invariant.  A score never exceeds 1.0 and the jitter; with jobs    *)
(* beyond the cores and clocks that disagree it does not fall below 0.     *)
LocateTypeOK ==
    /\ pc \in {"find", "atlas", "beacon", "status", "rank", "located", "failed",
              "returned"}
    /\ ids \subseteq Listing /\ local_id \in {Self, Unknown}
    /\ Len(instances) <= Wanted
    /\ pc = "rank" => \A n \in Candidates : Score(n) \in 0..(One + One \div 1000)

Chosen == {instances[i] : i \in DOMAIN instances}

Complete == Len(instances) = Min({Wanted, Cardinality(Candidates)})
            /\ Cardinality(Chosen) = Len(instances)

(* What the ranking goes by, and that n has the better of m in some of it  *)
(* and m of n in none.  The local node has no merits to compare.           *)
Merits(n) ==
    <<Min({Monus(Told(n).cores, Told(n).jobs), FullCores}), Min({Told(n).mem, FullMem}),
      0 - Age(n), JitterOf(n)>>

Better(n, m) ==
    /\ n \in Remote /\ m \in Remote /\ Merits(n) # Merits(m)
    /\ \A i \in 1..4 : Merits(n)[i] >= Merits(m)[i]

(***************************************************************************)
(* Only live instances with the required tags are returned, whatever was   *)
(* stale, unknown or aged between the awaits, and as many as there are, up *)
(* to `want`.  Without spreading no remote instance is left out for, or    *)
(* placed behind, one that it is better than, be it in free cores, memory, *)
(* age or jitter.  Of the place of the local one nothing is said here.     *)
(***************************************************************************)
BestAreChosen ==
    pc = "located" =>
        /\ Complete
        /\ \A n \in Chosen \cap Remote :
              Told(n) # Unknown /\ now <= Told(n).last_seen + MaxStale /\ require \subseteq Told(n).tags
        /\ ~Spreading =>
              /\ \A i, j \in DOMAIN instances : i < j => ~Better(instances[j], instances[i])
              /\ \A n \in Candidates \ Chosen : \A m \in Chosen : ~Better(n, m)

Buckets(S) == {Bucket(n) : n \in S}

PerBucket(b) == Cardinality({n \in Chosen : Bucket(n) = b})

(***************************************************************************)
(* Spreading: the chosen instances cover as many fault domains as `want`   *)
(* allows, no domain gives two more than another that had one to give, each*)
(* gives its best, and no remote is better than a remote that comes first. *)
(***************************************************************************)
SpreadCovers ==
    pc = "located" /\ Spreading /\ Candidates # {} =>
        /\ Cardinality(Buckets(Chosen)) = Min({Wanted, Cardinality(Buckets(Candidates))})
        /\ \A b, c \in Buckets(Candidates) :
              PerBucket(b) > PerBucket(c) + 1 => {n \in Candidates : Bucket(n) = c} \subseteq Chosen
        /\ \A m \in Chosen, n \in Candidates \ Chosen : Bucket(m) = Bucket(n) => ~Before(n, m)
        /\ \A n \in Candidates : ~Better(n, instances[1])

=============================================================================
