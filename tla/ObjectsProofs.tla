--------------------------- MODULE ObjectsProofs ----------------------------
(***************************************************************************)
(* Theorems about content-addressed objects, for every set of objects,     *)
(* every chunk size, every number of uploads in flight and any number of   *)
(* faults.                                                                 *)
(***************************************************************************)
EXTENDS Objects, SequenceLemmas, TLAPS

-----------------------------------------------------------------------------
(* Types *)

PutStates == {"idle", "chunks", "manifest", "ok", "misnamed", "err"}
GetStates == {"idle", "chunks", "ok", "err"}

(* Every variable of an object is a function on the objects.               *)
Shape ==
    /\ put \in [Object -> PutStates] /\ get \in [Object -> GetStates]
    /\ DOMAIN sent = Object /\ DOMAIN stored = Object
    /\ DOMAIN plan = Object /\ DOMAIN fetched = Object

PutInv ==
    \A o \in Object :
        /\ stored[o] \subseteq sent[o] /\ sent[o] \subseteq 1..NumChunks(o)
        /\ put[o] \in {"manifest", "ok", "misnamed"} => stored[o] = 1..NumChunks(o)

(* What a running download has is what its manifest lists.                 *)
GetInv ==
    \A o \in Object :
        /\ get[o] = "idle" => DOMAIN fetched[o] = {}
        /\ DOMAIN fetched[o] \subseteq DOMAIN plan[o].parts
        /\ get[o] \in {"chunks", "ok"} => Parses(plan[o])
        /\ \A i \in DOMAIN fetched[o] : Cid(fetched[o][i]) = plan[o].parts[i]
        /\ get[o] = "ok" => /\ DOMAIN fetched[o] = DOMAIN plan[o].parts
                            /\ Len(Joined(o)) = plan[o].size

LEMMA StepCases ==
    ASSUME [Next]_vars
    PROVE  \/ \E o \in Object : StartPut(o)
           \/ \E o \in Object : \E i \in 1..NumChunks(o) : SendChunk(o, i)
           \/ \E o \in Object : \E i \in 1..NumChunks(o) : ChunkStored(o, i)
           \/ \E o \in Object : \E i \in 1..NumChunks(o) : ChunkFails(o, i)
           \/ \E o \in Object : AllChunksStored(o)
           \/ \E o \in Object : ManifestStored(o)
           \/ \E o \in Object : ManifestFails(o)
           \/ \E o \in Object : StartGet(o)
           \/ \E o \in Object : \E i \in DOMAIN plan[o].parts : Fetch(o, i)
           \/ \E o \in Object : GetFails(o)
           \/ \E o \in Object : FinishGet(o)
           \/ \E c \in Cids : Lose(c)
           \/ \E c \in Cids : Corrupt(c)
           \/ UNCHANGED vars
  BY DEF Next, PutStep, GetStep

(* A step of put_object does not touch a download, and vice versa.         *)
LEMMA PutStepCases ==
    ASSUME [Next]_vars
    PROVE  \/ UNCHANGED putVars
           \/ UNCHANGED getVars /\ \E o \in Object :
                 \/ StartPut(o) \/ AllChunksStored(o) \/ ManifestStored(o) \/ ManifestFails(o)
                 \/ \E i \in 1..NumChunks(o) : SendChunk(o, i) \/ ChunkStored(o, i) \/ ChunkFails(o, i)
  BY StepCases DEF StartGet, Fetch, FetchIf, GetFails, FinishGet, Lose, Corrupt, vars, StartPut,
     AllChunksStored, GoesOnAfter, ManifestStored, ManifestFails, SendChunk, ChunkStored,
     StoredAmong, ChunkFails

LEMMA ShapeStep ==
    ASSUME Shape, [Next]_vars
    PROVE  Shape'
<1> USE DEF Shape, PutStates, GetStates
<1>1. CASE UNCHANGED putVars
  <2>1. CASE UNCHANGED getVars
    BY <1>1, <2>1 DEF putVars, getVars
  <2>2. ASSUME NEW o \in Object, StartGet(o) PROVE Shape'
    BY <2>2 DEF StartGet, Fails, putVars
  <2>3. ASSUME NEW o \in Object, NEW i, Fetch(o, i) PROVE Shape'
    BY <2>3 DEF Fetch, FetchIf, Fails, putVars
  <2>4. ASSUME NEW o \in Object, GetFails(o) PROVE Shape'
    BY <2>4 DEF GetFails, Fails, putVars
  <2>5. ASSUME NEW o \in Object, FinishGet(o) PROVE Shape'
    BY <2>5 DEF FinishGet, putVars
  <2>6. QED
    BY <1>1, <2>1, <2>2, <2>3, <2>4, <2>5, StepCases DEF StartPut, SendChunk, ChunkStored,
       StoredAmong, ChunkFails, AllChunksStored, GoesOnAfter, ManifestStored, ManifestFails,
       Lose, Corrupt, vars
<1>2. ASSUME UNCHANGED getVars, NEW o \in Object,
             \/ StartPut(o) \/ AllChunksStored(o) \/ ManifestStored(o) \/ ManifestFails(o)
             \/ \E i \in 1..NumChunks(o) : SendChunk(o, i) \/ ChunkStored(o, i) \/ ChunkFails(o, i)
      PROVE  Shape'
  BY <1>2 DEF StartPut, AllChunksStored, GoesOnAfter, ManifestStored, ManifestFails, SendChunk,
     ChunkStored, StoredAmong, ChunkFails, getVars
<1>3. QED
  BY <1>1, <1>2, PutStepCases

LEMMA PutInvStep ==
    ASSUME Shape, PutInv, [Next]_vars
    PROVE  PutInv'
<1> USE DEF Shape, PutInv
<1>1. CASE UNCHANGED putVars
  BY <1>1 DEF putVars
<1>2. ASSUME NEW o \in Object,
             StartPut(o) \/ AllChunksStored(o) \/ ManifestStored(o) \/ ManifestFails(o)
      PROVE  PutInv'
  <2>1. UNCHANGED <<sent, stored>>
    BY <1>2 DEF StartPut, AllChunksStored, GoesOnAfter, ManifestStored, ManifestFails
  <2>2. \A p \in Object : \/ put'[p] \notin {"manifest", "ok", "misnamed"}
                          \/ stored[p] = 1..NumChunks(p)
    BY <1>2 DEF StartPut, AllChunksStored, GoesOnAfter, ManifestStored, ManifestFails
  <2>3. QED
    BY <2>1, <2>2
<1>3. ASSUME NEW o \in Object, NEW i \in 1..NumChunks(o), SendChunk(o, i) PROVE PutInv'
  BY <1>3 DEF SendChunk
<1>4. ASSUME NEW o \in Object, NEW i \in 1..NumChunks(o), ChunkStored(o, i) PROVE PutInv'
  BY <1>4 DEF ChunkStored, StoredAmong
<1>5. ASSUME NEW o \in Object, NEW i \in 1..NumChunks(o), ChunkFails(o, i) PROVE PutInv'
  BY <1>5 DEF ChunkFails
<1>6. QED
  BY <1>1, <1>2, <1>3, <1>4, <1>5, PutStepCases

(* A download whose manifest and chunks a step leaves alone, in a state it *)
(* was in before, or failed.                                               *)
LEMMA GetKept ==
    ASSUME GetInv, NEW o \in Object, plan'[o] = plan[o], fetched'[o] = fetched[o],
           get'[o] \in {get[o], "err"}
    PROVE  /\ get'[o] = "idle" => DOMAIN fetched'[o] = {}
           /\ DOMAIN fetched'[o] \subseteq DOMAIN plan'[o].parts
           /\ get'[o] \in {"chunks", "ok"} => Parses(plan'[o])
           /\ \A i \in DOMAIN fetched'[o] : Cid(fetched'[o][i]) = plan'[o].parts[i]
           /\ get'[o] = "ok" => /\ DOMAIN fetched'[o] = DOMAIN plan'[o].parts
                                /\ Len(Joined(o)') = plan'[o].size
  BY DEF GetInv, Joined

LEMMA GetInvStep ==
    ASSUME Shape, GetInv, [Next]_vars
    PROVE  GetInv'
<1> USE DEF Shape
<1>1. ASSUME \A o \in Object : plan'[o] = plan[o] /\ fetched'[o] = fetched[o] /\ get'[o] \in {get[o], "err"}
      PROVE  GetInv'
  BY <1>1, GetKept DEF GetInv
<1>2. ASSUME NEW o \in Object, StartGet(o) PROVE GetInv'
  <2>1. CASE Fails(o)
    BY <1>1, <2>1 DEF Fails
  <2>2. CASE ~Fails(o)
    <3> DEFINE b == blobs[ObjectCid(o)]
    <3>1. /\ get[o] = "idle" /\ Parses(b) /\ UNCHANGED fetched
          /\ get' = [get EXCEPT ![o] = "chunks"] /\ plan' = [plan EXCEPT ![o] = b]
      BY <1>2, <2>2, Zenon DEF StartGet
    <3>2. /\ get'[o] = "chunks" /\ plan'[o] = b /\ DOMAIN fetched'[o] = {}
          /\ \A p \in Object : p # o => get'[p] = get[p] /\ plan'[p] = plan[p] /\ fetched'[p] = fetched[p]
      BY <3>1 DEF GetInv
    <3> HIDE DEF b
    <3>3. QED
      BY <3>1, <3>2, GetKept DEF GetInv
  <2>3. QED
    BY <2>1, <2>2
<1>3. ASSUME NEW o \in Object, NEW i \in DOMAIN plan[o].parts, Fetch(o, i) PROVE GetInv'
  <2>1. CASE Fails(o)
    BY <1>1, <2>1 DEF Fails
  <2>2. CASE ~Fails(o)
    <3> DEFINE b == blobs[plan[o].parts[i]]
               f == [j \in DOMAIN fetched[o] \cup {i} |-> IF j = i THEN b ELSE fetched[o][j]]
    <3>1. /\ get[o] = "chunks" /\ i \notin DOMAIN fetched[o] /\ Cid(b) = plan[o].parts[i]
          /\ UNCHANGED <<get, plan>> /\ fetched' = [fetched EXCEPT ![o] = f]
      BY <1>3, <2>2 DEF Fetch, FetchIf
    <3>2. /\ DOMAIN f = DOMAIN fetched[o] \cup {i}
          /\ \A j \in DOMAIN f : Cid(f[j]) = plan[o].parts[j]
      BY <3>1 DEF GetInv
    <3> HIDE DEF f
    <3>3. fetched'[o] = f /\ \A p \in Object : p # o => fetched'[p] = fetched[p]
      BY <3>1
    <3>4. QED
      BY <3>1, <3>2, <3>3, GetKept DEF GetInv
  <2>3. QED
    BY <2>1, <2>2
<1>4. ASSUME NEW o \in Object, GetFails(o) PROVE GetInv'
  BY <1>1, <1>4 DEF GetFails, Fails
<1>5. ASSUME NEW o \in Object, FinishGet(o) PROVE GetInv'
  <2>1. /\ get[o] = "chunks" /\ DOMAIN fetched[o] = DOMAIN plan[o].parts /\ UNCHANGED <<plan, fetched>>
        /\ \A p \in Object : p # o => get'[p] = get[p]
        /\ get'[o] = IF Len(Joined(o)) = plan[o].size THEN "ok" ELSE "err"
    BY <1>5 DEF FinishGet
  <2>2. Joined(o)' = Joined(o)
    BY <2>1 DEF Joined
  <2>3. QED
    BY <2>1, <2>2, GetKept DEF GetInv
<1>6. CASE UNCHANGED getVars
  BY <1>1, <1>6 DEF getVars
<1>7. QED
  BY StepCases, <1>2, <1>3, <1>4, <1>5, <1>6 DEF StartPut, SendChunk, ChunkStored, StoredAmong,
     ChunkFails, AllChunksStored, GoesOnAfter, ManifestStored, ManifestFails, Lose, Corrupt, vars,
     getVars

-----------------------------------------------------------------------------
(* The store *)

(* A blob the store had once, it has still, or damaged it itself.          *)
Kept(c) == Present(c) \/ c \in damaged

StoreInv ==
    /\ DOMAIN blobs \subseteq Cids /\ damaged \subseteq Cids
    /\ \A c \in DOMAIN blobs : Kept(c)

LEMMA StoringKeeps ==
    ASSUME NEW bs, StoreBlobs(bs)
    PROVE  /\ DOMAIN blobs' = DOMAIN blobs \cup {Cid(b) : b \in bs}
           /\ \A c : c \in {Cid(b) : b \in bs} => Present(c)'
           /\ \A c : c \notin {Cid(b) : b \in bs} => (Present(c)' = Present(c)) /\ (c \in damaged' <=> c \in damaged)
           /\ damaged' \subseteq damaged
<1> DEFINE cs == {Cid(b) : b \in bs}
<1>1. /\ blobs' = [c \in DOMAIN blobs \cup cs |->
                      IF c \in cs THEN CHOOSE b \in bs : Cid(b) = c ELSE blobs[c]]
      /\ damaged' = damaged \ cs
  BY DEF StoreBlobs
<1>2. DOMAIN blobs' = DOMAIN blobs \cup cs
  BY <1>1
<1>3. ASSUME NEW c \in cs PROVE Present(c)'
  <2>1. \E b \in bs : Cid(b) = c
    OBVIOUS
  <2>2. Cid(CHOOSE b \in bs : Cid(b) = c) = c
    BY <2>1
  <2> HIDE DEF cs
  <2>3. Cid(blobs'[c]) = c
    BY <1>1, <2>2
  <2>4. QED
    BY <1>2, <2>3 DEF Present
<1> HIDE DEF cs
<1>4. ASSUME NEW c, c \notin cs PROVE Present(c)' = Present(c)
  BY <1>1, <1>2, <1>4 DEF Present
<1>5. QED
  BY <1>1, <1>2, <1>3, <1>4 DEF cs

(* What happens to the store in a step.                                    *)
LEMMA StoreSteps ==
    ASSUME PutInv, [Next]_vars
    PROVE  \/ UNCHANGED <<blobs, damaged>>
           \/ \E o \in Object : \E js \in SUBSET (1..NumChunks(o)) : StoreBlobs({Chunk(o, j) : j \in js})
           \/ \E o \in Object : put[o] = "manifest" /\ StoreBlobs({Manifest(o)})
           \/ \E c \in Cids : c \in DOMAIN blobs /\ DOMAIN blobs' \subseteq DOMAIN blobs
                  /\ damaged' = damaged \cup {c}
                  /\ \A d \in DOMAIN blobs : d # c => d \in DOMAIN blobs' /\ blobs'[d] = blobs[d]
<1>1. ASSUME NEW o \in Object, NEW i \in 1..NumChunks(o), ChunkStored(o, i)
      PROVE  \E js \in SUBSET (1..NumChunks(o)) : StoreBlobs({Chunk(o, j) : j \in js})
  <2>1. StoreBlobs({Chunk(o, j) : j \in {i}})
    <3>1. {Chunk(o, j) : j \in {i}} = {Chunk(o, i)}
      OBVIOUS
    <3>2. QED
      BY <1>1, <3>1 DEF ChunkStored, StoredAmong
  <2>2. QED
    BY <2>1, Zenon
<1>2. ASSUME NEW o \in Object, NEW i \in 1..NumChunks(o), ChunkFails(o, i)
      PROVE  \E js \in SUBSET (1..NumChunks(o)) : StoreBlobs({Chunk(o, j) : j \in js})
  <2>1. PICK js \in SUBSET (sent[o] \ stored[o]) : StoreBlobs({Chunk(o, j) : j \in js})
    BY <1>2, Zenon DEF ChunkFails
  <2>2. js \in SUBSET (1..NumChunks(o))
    BY DEF PutInv
  <2>3. QED
    BY <2>1, <2>2, Zenon
<1>3. ASSUME NEW o \in Object, ManifestStored(o) \/ ManifestFails(o)
      PROVE  \/ UNCHANGED <<blobs, damaged>>
             \/ put[o] = "manifest" /\ StoreBlobs({Manifest(o)})
  BY <1>3 DEF ManifestStored, ManifestFails
<1>4. ASSUME NEW c \in Cids, Lose(c) \/ Corrupt(c)
      PROVE  c \in DOMAIN blobs /\ DOMAIN blobs' \subseteq DOMAIN blobs
             /\ damaged' = damaged \cup {c}
             /\ \A d \in DOMAIN blobs : d # c => d \in DOMAIN blobs' /\ blobs'[d] = blobs[d]
  BY <1>4 DEF Lose, Corrupt
<1>5. ASSUME NEW o \in Object,
             \/ StartPut(o) \/ AllChunksStored(o) \/ StartGet(o) \/ GetFails(o) \/ FinishGet(o)
             \/ \E i : SendChunk(o, i) \/ Fetch(o, i)
      PROVE  UNCHANGED <<blobs, damaged>>
  BY <1>5 DEF StartPut, AllChunksStored, GoesOnAfter, StartGet, GetFails, FinishGet, SendChunk,
     Fetch, FetchIf
<1>6. CASE UNCHANGED vars
  BY <1>6 DEF vars
<1>7. QED
  BY StepCases, <1>1, <1>2, <1>3, <1>4, <1>5, <1>6

(* Blobs stay, and appear by uploads only.                                 *)
LEMMA KeptSteps ==
    ASSUME PutInv, StoreInv, [Next]_vars
    PROVE  /\ StoreInv'
           /\ \A c : Kept(c) => Kept(c)'
           /\ \A c : Kept(c)' => \/ Kept(c)
                                 \/ \E o \in Object : \E i \in 1..NumChunks(o) : c = Cid(Chunk(o, i))
                                 \/ \E o \in Object : put[o] = "manifest" /\ c = ObjectCid(o)
<1> USE DEF StoreInv
<1>1. CASE UNCHANGED <<blobs, damaged>>
  BY <1>1 DEF Kept, Present
<1>2. ASSUME NEW bs, StoreBlobs(bs), {Cid(b) : b \in bs} \subseteq Cids
      PROVE  /\ StoreInv'
             /\ \A c : Kept(c) => Kept(c)'
             /\ \A c : Kept(c)' => Kept(c) \/ c \in {Cid(b) : b \in bs}
  BY <1>2, StoringKeeps DEF Kept
<1>3. ASSUME NEW o \in Object, NEW js \in SUBSET (1..NumChunks(o)), StoreBlobs({Chunk(o, j) : j \in js})
      PROVE  /\ StoreInv'
             /\ \A c : Kept(c) => Kept(c)'
             /\ \A c : Kept(c)' => Kept(c) \/ \E i \in 1..NumChunks(o) : c = Cid(Chunk(o, i))
  <2> DEFINE bs == {Chunk(o, j) : j \in js}
  <2>1. \A c \in {Cid(b) : b \in bs} : \E i \in 1..NumChunks(o) : c = Cid(Chunk(o, i))
    OBVIOUS
  <2>2. {Cid(b) : b \in bs} \subseteq Cids
    BY <2>1 DEF Cids
  <2> HIDE DEF bs
  <2>3. QED
    BY <1>2, <1>3, <2>1, <2>2 DEF bs
<1>4. ASSUME NEW o \in Object, put[o] = "manifest", StoreBlobs({Manifest(o)})
      PROVE  /\ StoreInv'
             /\ \A c : Kept(c) => Kept(c)'
             /\ \A c : Kept(c)' => Kept(c) \/ c = ObjectCid(o)
  <2>1. {Cid(b) : b \in {Manifest(o)}} = {ObjectCid(o)}
    BY DEF ObjectCid
  <2>2. {ObjectCid(o)} \subseteq Cids
    BY DEF Cids
  <2>3. QED
    BY <1>2, <1>4, <2>1, <2>2
<1>5. ASSUME NEW c \in Cids, c \in DOMAIN blobs, DOMAIN blobs' \subseteq DOMAIN blobs,
             damaged' = damaged \cup {c},
             \A d \in DOMAIN blobs : d # c => d \in DOMAIN blobs' /\ blobs'[d] = blobs[d]
      PROVE  StoreInv' /\ \A d : Kept(d)' = Kept(d)
  <2>1. ASSUME NEW d, d # c PROVE Kept(d)' = Kept(d)
    BY <1>5, <2>1 DEF Kept, Present
  <2>2. Kept(c) /\ Kept(c)'
    BY <1>5 DEF Kept
  <2>3. \A d : Kept(d)' = Kept(d)
    BY <2>1, <2>2 DEF Kept
  <2>4. QED
    BY <1>5, <2>3
<1>6. QED
  BY StoreSteps, <1>1, <1>3, <1>4, <1>5

(* Objects with the same manifest have the same chunks.                    *)
LEMMA SameManifestSameChunks ==
    ASSUME NEW o, NEW p, ObjectCid(o) = ObjectCid(p)
    PROVE  /\ 1..NumChunks(o) = 1..NumChunks(p)
           /\ \A i \in 1..NumChunks(o) : Cid(Chunk(o, i)) = Cid(Chunk(p, i))
<1> DEFINE parts(q) == [i \in 1..NumChunks(q) |-> Cid(Chunk(q, i))]
<1>1. Manifest(o) = Manifest(p)
  BY DEF ObjectCid, Cid
<1>2. parts(o) = parts(p)
  BY <1>1 DEF Manifest
<1>3. DOMAIN parts(o) = 1..NumChunks(o) /\ DOMAIN parts(p) = 1..NumChunks(p)
  OBVIOUS
<1>4. \A i \in 1..NumChunks(o) : parts(o)[i] = Cid(Chunk(o, i))
  OBVIOUS
<1>5. \A i \in 1..NumChunks(p) : parts(p)[i] = Cid(Chunk(p, i))
  OBVIOUS
<1> HIDE DEF parts
<1>6. QED
  BY <1>2, <1>3, <1>4, <1>5

(* The chunks a returned upload, or a manifest, speaks for are in the store.*)
CompleteInv ==
    \A o \in Object :
        /\ \A i \in stored[o] : Kept(Cid(Chunk(o, i)))
        /\ Kept(ObjectCid(o)) => \A i \in 1..NumChunks(o) : Kept(Cid(Chunk(o, i)))

LEMMA CompleteInvStep ==
    ASSUME Shape, PutInv, StoreInv, CompleteInv, [Next]_vars
    PROVE  CompleteInv'
<1>1. \A c : Kept(c) => Kept(c)'
  BY KeptSteps
<1>2. ASSUME NEW o \in Object, NEW i \in stored'[o] PROVE Kept(Cid(Chunk(o, i)))'
  <2>1. CASE i \in stored[o]
    BY <1>1, <2>1 DEF CompleteInv
  <2>2. CASE i \notin stored[o]
    <3>1. \E p \in Object : \E j \in 1..NumChunks(p) : ChunkStored(p, j)
      <4>1. stored' # stored
        BY <2>2
      <4>2. QED
        BY <4>1, PutStepCases DEF StartPut, SendChunk, ChunkFails, AllChunksStored, GoesOnAfter,
           ManifestStored, ManifestFails, putVars
    <3>2. PICK p \in Object : \E j \in 1..NumChunks(p) : ChunkStored(p, j)
      BY <3>1
    <3>3. PICK j \in 1..NumChunks(p) : ChunkStored(p, j)
      BY <3>2
    <3>4. p = o /\ j = i
      BY <2>2, <3>3 DEF ChunkStored, StoredAmong, Shape
    <3>5. StoreBlobs({Chunk(o, i)})
      BY <3>3, <3>4 DEF ChunkStored, StoredAmong
    <3>6. Present(Cid(Chunk(o, i)))'
      BY <3>5, StoringKeeps
    <3>7. QED
      BY <3>6 DEF Kept
  <2>3. QED
    BY <2>1, <2>2
<1>3. ASSUME NEW o \in Object, Kept(ObjectCid(o))', NEW i \in 1..NumChunks(o)
      PROVE  Kept(Cid(Chunk(o, i)))'
  <2>1. CASE Kept(ObjectCid(o))
    BY <1>1, <2>1 DEF CompleteInv
  <2>2. ASSUME NEW p \in Object, NEW j \in 1..NumChunks(p), ObjectCid(o) = Cid(Chunk(p, j))
        PROVE  FALSE
    BY <2>2 DEF ObjectCid, Cid, Chunk, ChunkBlob, Manifest
  <2>3. ASSUME NEW p \in Object, put[p] = "manifest", ObjectCid(o) = ObjectCid(p)
        PROVE  Kept(Cid(Chunk(o, i)))
    <3>1. i \in 1..NumChunks(p) /\ Cid(Chunk(o, i)) = Cid(Chunk(p, i))
      BY <2>3, SameManifestSameChunks
    <3>2. i \in stored[p]
      BY <2>3, <3>1 DEF PutInv
    <3>3. QED
      BY <3>1, <3>2 DEF CompleteInv
  <2>4. QED
    BY <1>1, <1>3, <2>1, <2>2, <2>3, KeptSteps
<1>4. QED
  BY <1>2, <1>3 DEF CompleteInv

-----------------------------------------------------------------------------
(* The chunks of an object, put together *)

(* Every chunk starts inside the object, and the last one ends it.         *)
LEMMA ChunkBounds ==
    ASSUME NEW o, Len(o) \in Nat
    PROVE  /\ NumChunks(o) \in Nat
           /\ \A i \in 1..NumChunks(o) : (i - 1) * ChunkSize \in Nat /\ (i - 1) * ChunkSize < Len(o)
           /\ Len(o) <= NumChunks(o) * ChunkSize
           /\ NumChunks(o) = 0 => Len(o) = 0
  BY ObjectsAssumption DEF NumChunks

(* The first i chunks of an object, put together.                          *)
Upto(o, i) == SubSeq(o, 1, Smaller(i * ChunkSize, Len(o)))

LEMMA ChunksRejoin ==
    ASSUME NEW o \in Object
    PROVE  FlattenSeq([i \in 1..NumChunks(o) |-> Chunk(o, i).parts]) = o
<1>1. o \in Seq(Range(o)) /\ Len(o) \in Nat /\ ChunkSize \in Nat \ {0}
  <2>1. o \in Seq(Range(o))
    <3>1. CASE o = <<>>
      BY <3>1, EmptySeq
    <3>2. QED
      BY <3>1, ObjectsAssumption
  <2>2. QED
    BY <2>1, LenProperties, ObjectsAssumption
<1>2. PICK L \in Nat : L = Len(o)
  BY <1>1
<1>3. PICK N \in Nat : N = NumChunks(o)
  BY <1>1, ChunkBounds
<1>4. PICK s : s = [i \in 1..N |-> Chunk(o, i).parts]
  OBVIOUS
<1>5. PICK g : g = [i \in 1..N |-> Upto(o, i)]
  OBVIOUS
<1>6. /\ \A i \in 1..N : (i - 1) * ChunkSize \in Nat /\ (i - 1) * ChunkSize < L
      /\ L <= N * ChunkSize
      /\ N = 0 => L = 0
  BY <1>1, <1>2, <1>3, ChunkBounds
<1>7. Len(s) = N /\ DOMAIN s = 1..N
  BY <1>4
<1>8. CASE N = 0
  <2>1. FlattenSeq(s) = s
    BY <1>7, <1>8 DEF FlattenSeq
  <2>2. s = <<>> /\ o = <<>>
    BY <1>1, <1>2, <1>6, <1>4, <1>8
  <2>3. QED
    BY <1>3, <1>4, <2>1, <2>2
<1>9. CASE N # 0
  <2>1. \A i \in 1..N : s[i] = SubSeq(o, (i - 1) * ChunkSize + 1, Smaller(i * ChunkSize, L))
    BY <1>2, <1>4 DEF Chunk, ChunkBlob
  <2>2. ASSUME NEW i \in 1..N, i # 1 PROVE Upto(o, i) = Upto(o, i - 1) \o s[i]
    <3>1. PICK k \in Nat : k = (i - 1) * ChunkSize /\ k < L /\ i * ChunkSize = k + ChunkSize
      BY <1>1, <1>6
    <3>2. PICK m \in k..L : m = Smaller(i * ChunkSize, L)
      BY <1>1, <3>1 DEF Smaller
    <3>3. Smaller((i - 1) * ChunkSize, L) = k
      BY <3>1 DEF Smaller
    <3>4. s[i] = SubSeq(o, k + 1, m)
      BY <2>1, <3>1, <3>2
    <3>5. SubSeq(o, 1, k) \o SubSeq(o, k + 1, m) = SubSeq(o, 1, m)
      BY <1>1, <1>2, <3>1, ConcatAdjacentSubSeq
    <3>6. QED
      BY <1>2, <3>2, <3>3, <3>4, <3>5 DEF Upto
  <2>3. Upto(o, 1) = s[1]
    <3>1. s[1] = SubSeq(o, (1 - 1) * ChunkSize + 1, Smaller(1 * ChunkSize, L))
      BY <1>9, <2>1
    <3>2. (1 - 1) * ChunkSize + 1 = 1
      BY <1>1
    <3>3. QED
      BY <1>2, <3>1, <3>2 DEF Upto
  <2>4. \A i \in 1..N : g[i] = Upto(o, i)
    BY <1>5
  <2>5. g[1] = s[1] /\ \A i \in 1..N : i # 1 => g[i] = g[i - 1] \o s[i]
    <3>1. ASSUME NEW i \in 1..N, i # 1 PROVE g[i] = g[i - 1] \o s[i]
      <4>1. i - 1 \in 1..N
        BY <3>1
      <4>2. QED
        BY <2>2, <2>4, <3>1, <4>1
    <3>2. g[1] = s[1]
      BY <1>9, <2>3, <2>4
    <3>3. QED
      BY <3>1, <3>2
  <2>6. FlattenSeq(s) = g[N]
    <3>1. PICK n \in Nat \ {0} : n = N
      BY <1>9
    <3>2. Accumulates(g, s, n)
      BY <2>5, <3>1 DEF Accumulates
    <3>3. QED
      BY <1>7, <3>1, <3>2, FlattenSeqIs
  <2>7. g[N] = Upto(o, N)
    BY <1>9, <2>4
  <2>8. Upto(o, N) = o
    BY <1>1, <1>2, <1>6, SubSeqFull DEF Upto, Smaller
  <2>9. QED
    BY <1>3, <1>4, <2>6, <2>7, <2>8
<1>10. QED
  BY <1>8, <1>9

LEMMA CidInjective ==
    ASSUME NEW b, NEW d, Cid(b) = Cid(d)
    PROVE  b = d
  BY DEF Cid

LEMMA JoinsTheObject ==
    ASSUME NEW o \in Object, plan[o] = Manifest(o),
           \A i \in DOMAIN plan[o].parts : Cid(fetched[o][i]) = plan[o].parts[i]
    PROVE  Joined(o) = o
<1>1. /\ DOMAIN plan[o].parts = 1..NumChunks(o)
      /\ \A i \in 1..NumChunks(o) : plan[o].parts[i] = Cid(Chunk(o, i))
  BY DEF Manifest
<1>2. \A i \in 1..NumChunks(o) : fetched[o][i] = Chunk(o, i)
  BY <1>1, CidInjective
<1>3. [i \in DOMAIN plan[o].parts |-> fetched[o][i].parts] = [i \in 1..NumChunks(o) |-> Chunk(o, i).parts]
  BY <1>1, <1>2
<1>4. QED
  BY <1>3, ChunksRejoin DEF Joined, Join

-----------------------------------------------------------------------------
(* The inductive invariant.                                                *)
ObjectsInv == Shape /\ PutInv /\ GetInv /\ StoreInv /\ CompleteInv

LEMMA ObjectsInvHolds == Spec => []ObjectsInv
<1>1. Init => ObjectsInv
  <2> SUFFICES ASSUME Init PROVE ObjectsInv
    OBVIOUS
  <2>1. Shape
    BY DEF Init, Shape, PutStates, GetStates
  <2>2. PutInv /\ GetInv
    BY DEF Init, PutInv, GetInv, WrongBlob
  <2>3. StoreInv /\ CompleteInv
    BY DEF Init, StoreInv, CompleteInv, Kept, Present
  <2>4. QED
    BY <2>1, <2>2, <2>3 DEF ObjectsInv
<1>2. ObjectsInv /\ [Next]_vars => ObjectsInv'
  BY ShapeStep, PutInvStep, GetInvStep, KeptSteps, CompleteInvStep DEF ObjectsInv
<1>3. QED
  BY <1>1, <1>2, PTL DEF Spec

(***************************************************************************)
(* Type correctness of the object store's clients.                         *)
(***************************************************************************)
THEOREM TypeCorrect == Spec => []TypeOK
<1>1. ObjectsInv => TypeOK
  BY DEF ObjectsInv, Shape, PutStates, GetStates, PutInv, GetInv, StoreInv, TypeOK
<1>2. QED
  BY ObjectsInvHolds, <1>1, PTL

(***************************************************************************)
(* A manifest is in the store only with every chunk it lists, but for the  *)
(* chunks the store damaged, wherever uploads fail or the client stops.    *)
(***************************************************************************)
THEOREM ManifestsComplete == Spec => []ManifestIsComplete
<1>1. ObjectsInv => ManifestIsComplete
  BY DEF ObjectsInv, CompleteInv, Kept, ManifestIsComplete
<1>2. QED
  BY ObjectsInvHolds, <1>1, PTL

(***************************************************************************)
(* A download that succeeds is what reassemble() accepts, and the object   *)
(* byte for byte when it was given the object's own manifest.              *)
(***************************************************************************)
THEOREM DownloadsExact == Spec => []GetIsExact
<1>1. ObjectsInv => GetIsExact
  <2> SUFFICES ASSUME ObjectsInv, NEW o \in Object, get[o] = "ok"
               PROVE  /\ Reassembles(plan[o], fetched[o])
                      /\ plan[o] = Manifest(o) => Joined(o) = o
    BY DEF GetIsExact
  <2>1. /\ Parses(plan[o]) /\ DOMAIN fetched[o] = DOMAIN plan[o].parts
        /\ \A i \in DOMAIN fetched[o] : Cid(fetched[o][i]) = plan[o].parts[i]
        /\ Len(Joined(o)) = plan[o].size
    BY DEF ObjectsInv, GetInv
  <2>2. QED
    BY <2>1, JoinsTheObject DEF Reassembles, Joined
<1>2. QED
  BY ObjectsInvHolds, <1>1, PTL
=============================================================================
