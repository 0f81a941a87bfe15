------------------------------ MODULE MCLocate ------------------------------
(* A local and three remote nodes, for TLC.                                *)
EXTENDS Call

CONSTANTS self, r1, r2, r3, gpu, east, as1, again

MCNode == {self, r1, r2, r3}

(* One of the nodes may be listed twice.                                   *)
MCListing == MCNode \cup {again}

MCNodeOf == [n \in MCListing |-> IF n = again THEN r1 ELSE n]

Region(r) == [k \in {"region"} |-> r]
ZoneAndAsn(z, a) == [k \in {"zone", "asn"} |-> IF k = "zone" THEN z ELSE a]
NoDomain == [k \in {} |-> east]

At(cores, jobs, mem, seen, tags, domains) ==
    [cores |-> cores, jobs |-> jobs, mem |-> mem, last_seen |-> seen,
     tags |-> tags, domains |-> domains]

(* At full capacity and just seen; with more jobs than cores, no memory,   *)
(* and about to become stale; without a domain, and ahead of the clock; as *)
(* good as any, but for the tag.                                           *)
MCEntry ==
    {At(2, 0, 2, 3, {gpu}, Region(east)),
     At(1, 2, 0, 1, {gpu}, ZoneAndAsn(east, as1)),
     At(1, 0, 1, 5, {gpu}, NoDomain),
     At(2, 0, 2, 3, {}, NoDomain)}

Nth(n) == CASE n = self -> 1 [] n = r1 -> 2 [] n = r2 -> 3 [] n = r3 -> 4

MCBeacon == {"up", "down"}

(* One beacon breaks every tie, the other none, as rounding may leave it.  *)
MCJitter ==
    [b \in MCBeacon |-> [n \in MCNode |-> IF b = "up" THEN Nth(n) ELSE 2]]
=============================================================================
