------------------------------ MODULE Objects ------------------------------
(***************************************************************************)
(* Content-addressed objects: chunk_object and Manifest of src/src/data.rs *)
(* and put_object / get_object of src/src/lib.rs over the node's /blobs    *)
(* store, which is outside the repository.  A CID is the hash of a blob,   *)
(* modelled as a name no other blob has.  Uploads and downloads of one     *)
(* object run concurrently, and the store, the node and the client may     *)
(* fail between any two of them.                                           *)
(***************************************************************************)
EXTENDS Integers, Sequences, FiniteSets, SequencesExt

CONSTANTS
    Object,             \* the objects, sequences of bytes
    ChunkSize,          \* DEFAULT_CHUNK_SIZE, 1 MiB in the code
    Concurrency,        \* OBJECT_CHUNK_CONCURRENCY, 8 in the code
    MaxFaults           \* bound: failed calls, lost and corrupted blobs

ASSUME ObjectsAssumption ==
    /\ \A o \in Object : o = <<>> \/ o \in Seq(Range(o))
    /\ ChunkSize \in Nat \ {0} /\ Concurrency \in Nat \ {0}
    /\ MaxFaults \in Nat

VARIABLES
    blobs,      \* what GET /blobs/:cid answers: CID -> blob, in part
    put,        \* per object: "idle", "chunks", "manifest", "ok", "misnamed", "err"
    sent,       \* per object: the chunks whose upload has been started
    stored,     \* per object: the chunks whose upload has returned
    get,        \* per object: "idle", "chunks", "ok", "err"
    plan,       \* per object: the manifest the running get parsed
    fetched,    \* per object: chunk index -> blob, in part
    damaged,    \* CIDs whose blob was lost or corrupted since it was stored
    faults

putVars == <<put, sent, stored>>
getVars == <<get, plan, fetched>>
vars == <<blobs, putVars, getVars, damaged, faults>>

-----------------------------------------------------------------------------
(* data.rs *)

Smaller(m, n) == IF m < n THEN m ELSE n

(* A blob holds the bytes of a chunk, the JSON of a manifest, or neither.  *)
ChunkBlob(bytes) == [tag |-> "chunk", size |-> Len(bytes), parts |-> bytes]
WrongBlob == [tag |-> "other", size |-> 0, parts |-> <<>>]

(* cid(): distinct blobs have distinct hashes.                             *)
Cid(blob) == [hash |-> blob]

NumChunks(o) == (Len(o) + ChunkSize - 1) \div ChunkSize

Chunk(o, i) ==
    ChunkBlob(SubSeq(o, (i - 1) * ChunkSize + 1, Smaller(i * ChunkSize, Len(o))))

(* chunk_object: the manifest of an object; its JSON is a blob of its own. *)
Manifest(o) ==
    [tag |-> "manifest", size |-> Len(o),
     parts |-> [i \in 1..NumChunks(o) |-> Cid(Chunk(o, i))]]

(* A manifest by somebody else: the chunks of o, and another size.         *)
Misstated(o) == [Manifest(o) EXCEPT !.size = @ + 1]

ObjectCid(o) == Cid(Manifest(o))

Cids == {ObjectCid(o) : o \in Object}
        \cup UNION {{Cid(Chunk(o, i)) : i \in 1..NumChunks(o)} : o \in Object}

(* from_slice and is_v1: only a manifest is one.                           *)
Parses(blob) == blob.tag = "manifest"

(* The chunks in manifest order.                                           *)
Join(manifest, chunks) == FlattenSeq([i \in DOMAIN manifest.parts |-> chunks[i].parts])

(* reassemble() accepts the chunks: each is the one listed, and together   *)
(* they have the object's size.                                            *)
Reassembles(manifest, chunks) ==
    /\ Parses(manifest)
    /\ \A i \in DOMAIN manifest.parts : Cid(chunks[i]) = manifest.parts[i]
    /\ Len(Join(manifest, chunks)) = manifest.size

-----------------------------------------------------------------------------
Init ==
    /\ blobs = [c \in {} |-> WrongBlob]
    /\ put = [o \in Object |-> "idle"]
    /\ sent = [o \in Object |-> {}] /\ stored = [o \in Object |-> {}]
    /\ get = [o \in Object |-> "idle"]
    /\ plan = [o \in Object |-> WrongBlob]
    /\ fetched = [o \in Object |-> [i \in {} |-> WrongBlob]]
    /\ damaged = {} /\ faults = 0

Fault == faults < MaxFaults /\ faults' = faults + 1

StoreBlobs(bs) ==
    /\ blobs' = [c \in DOMAIN blobs \cup {Cid(b) : b \in bs} |->
                    IF c \in {Cid(b) : b \in bs} THEN CHOOSE b \in bs : Cid(b) = c ELSE blobs[c]]
    /\ damaged' = damaged \ {Cid(b) : b \in bs}

(* put_object *)

StartPut(o) ==
    /\ put[o] = "idle" /\ put' = [put EXCEPT ![o] = "chunks"]
    /\ UNCHANGED <<blobs, sent, stored, getVars, damaged, faults>>

(* buffer_unordered starts the uploads in order, a bounded number at once. *)
SendChunk(o, i) ==
    /\ put[o] = "chunks" /\ i \notin sent[o] /\ 1..(i - 1) \subseteq sent[o]
    /\ Cardinality(sent[o] \ stored[o]) < Concurrency
    /\ sent' = [sent EXCEPT ![o] = @ \cup {i}]
    /\ UNCHANGED <<blobs, put, stored, getVars, damaged, faults>>

StoredAmong(uploads, o, i) ==
    /\ put[o] = "chunks" /\ i \in uploads \ stored[o]
    /\ StoreBlobs({Chunk(o, i)})
    /\ stored' = [stored EXCEPT ![o] = @ \cup {i}]
    /\ UNCHANGED <<put, sent, getVars, faults>>

ChunkStoredUnsent(o, i) == StoredAmong(1..NumChunks(o), o, i)

(* An upload returns the CID computed by the client: the node has the blob.*)
ChunkStored(o, i) == StoredAmong(sent[o], o, i)

(* An upload fails, or its reply has no hash or another: put_object errs,  *)
(* the other uploads are dropped, whether or not the node stored them.     *)
ChunkFails(o, i) ==
    /\ put[o] = "chunks" /\ i \in sent[o] \ stored[o] /\ Fault
    /\ put' = [put EXCEPT ![o] = "err"]
    /\ \E js \in SUBSET (sent[o] \ stored[o]) : StoreBlobs({Chunk(o, j) : j \in js})
    /\ UNCHANGED <<sent, stored, getVars>>

GoesOnAfter(uploads, o) ==
    /\ put[o] = "chunks" /\ uploads = 1..NumChunks(o)
    /\ put' = [put EXCEPT ![o] = "manifest"]
    /\ UNCHANGED <<blobs, sent, stored, getVars, damaged, faults>>

AllChunksSent(o) == GoesOnAfter(sent[o], o)

(* try_collect has seen every upload succeed.                              *)
AllChunksStored(o) == GoesOnAfter(stored[o], o)

(* The manifest's CID is the result, as the node reports it: unlike a      *)
(* chunk's it is not compared, so any other hash the reply has, or the     *)
(* empty string if it has none, is passed on as well: "misnamed".          *)
ManifestStored(o) ==
    /\ put[o] = "manifest" /\ StoreBlobs({Manifest(o)})
    /\ \/ put' = [put EXCEPT ![o] = "ok"] /\ UNCHANGED faults
       \/ put' = [put EXCEPT ![o] = "misnamed"] /\ Fault
    /\ UNCHANGED <<sent, stored, getVars>>

ManifestFails(o) ==
    /\ put[o] = "manifest" /\ Fault
    /\ put' = [put EXCEPT ![o] = "err"]
    /\ (UNCHANGED <<blobs, damaged>> \/ StoreBlobs({Manifest(o)}))
    /\ UNCHANGED <<sent, stored, getVars>>

(* get_object, of the CID put_object would return *)

Fails(o) == get' = [get EXCEPT ![o] = "err"] /\ UNCHANGED <<plan, fetched>>

(* GET the manifest blob and parse it.                                     *)
StartGet(o) ==
    /\ get[o] = "idle"
    /\ LET c == ObjectCid(o) IN
       IF c \in DOMAIN blobs /\ Parses(blobs[c])
       THEN /\ get' = [get EXCEPT ![o] = "chunks"]
            /\ plan' = [plan EXCEPT ![o] = blobs[c]]
            /\ UNCHANGED fetched
       ELSE Fails(o)
    /\ UNCHANGED <<blobs, putVars, damaged, faults>>

FetchIf(accepted, o, i) ==
    /\ get[o] = "chunks" /\ i \notin DOMAIN fetched[o]
    /\ LET c == plan[o].parts[i] IN
       IF c \in accepted
       THEN /\ fetched' = [fetched EXCEPT ![o] = [j \in DOMAIN @ \cup {i} |->
                               IF j = i THEN blobs[c] ELSE @[j]]]
            /\ UNCHANGED <<get, plan>>
       ELSE Fails(o)
    /\ UNCHANGED <<blobs, putVars, damaged, faults>>

FetchUnverified(o, i) == FetchIf(DOMAIN blobs, o, i)

(* A chunk arrives, in any order, as if all were asked for at once:        *)
(* kept if it hashes to the CID asked for.                                 *)
Fetch(o, i) == FetchIf({c \in DOMAIN blobs : Cid(blobs[c]) = c}, o, i)

GetFails(o) ==
    /\ get[o] = "chunks" /\ Fault /\ Fails(o)
    /\ UNCHANGED <<blobs, putVars, damaged>>

Joined(o) == Join(plan[o], fetched[o])

(* All chunks are here: join them and compare the size.                    *)
FinishGet(o) ==
    /\ get[o] = "chunks" /\ DOMAIN fetched[o] = DOMAIN plan[o].parts
    /\ get' = [get EXCEPT ![o] =
                  IF Len(Joined(o)) = plan[o].size THEN "ok" ELSE "err"]
    /\ UNCHANGED <<blobs, putVars, plan, fetched, damaged, faults>>

(* The store *)

Lose(c) ==
    /\ c \in DOMAIN blobs /\ Fault
    /\ blobs' = [d \in DOMAIN blobs \ {c} |-> blobs[d]]
    /\ damaged' = damaged \cup {c}
    /\ UNCHANGED <<putVars, getVars>>

(* The store answers a CID with other bytes, perhaps those of another blob,*)
(* or the CID of an object with a manifest that misstates its size.        *)
Corrupt(c) ==
    /\ c \in DOMAIN blobs /\ Fault
    /\ \E b \in {WrongBlob} \cup {blobs[d] : d \in DOMAIN blobs}
                \cup {Misstated(o) : o \in {p \in Object : ObjectCid(p) = c}} :
          b # blobs[c] /\ blobs' = [blobs EXCEPT ![c] = b]
    /\ damaged' = damaged \cup {c}
    /\ UNCHANGED <<putVars, getVars>>

-----------------------------------------------------------------------------
PutStep(o) ==
    \/ StartPut(o) \/ AllChunksStored(o) \/ ManifestStored(o) \/ ManifestFails(o)
    \/ \E i \in 1..NumChunks(o) : SendChunk(o, i) \/ ChunkStored(o, i) \/ ChunkFails(o, i)

GetStep(o) ==
    \/ StartGet(o) \/ GetFails(o) \/ FinishGet(o)
    \/ \E i \in DOMAIN plan[o].parts : Fetch(o, i)

Next ==
    \/ \E o \in Object : PutStep(o) \/ GetStep(o)
    \/ \E c \in Cids : Lose(c) \/ Corrupt(c)

Spec == Init /\ [][Next]_vars

-----------------------------------------------------------------------------
(* Type invariant.                                                         *)
TypeOK ==
    /\ DOMAIN blobs \subseteq Cids /\ damaged \subseteq Cids
    /\ \A o \in Object :
        /\ put[o] \in {"idle", "chunks", "manifest", "ok", "misnamed", "err"}
        /\ stored[o] \subseteq sent[o] /\ sent[o] \subseteq 1..NumChunks(o)
        /\ get[o] \in {"idle", "chunks", "ok", "err"}
        /\ DOMAIN fetched[o] \subseteq DOMAIN plan[o].parts

Present(c) == c \in DOMAIN blobs /\ Cid(blobs[c]) = c

(***************************************************************************)
(* A manifest never dangles: whatever upload fails, and wherever the       *)
(* client stops, a manifest is in the store only with every chunk it       *)
(* lists, unless the store itself damaged one.                             *)
(***************************************************************************)
ManifestIsComplete ==
    \A o \in Object : Present(ObjectCid(o)) =>
        \A i \in 1..NumChunks(o) :
            Present(Cid(Chunk(o, i))) \/ Cid(Chunk(o, i)) \in damaged

(***************************************************************************)
(* What get_object returns is what reassemble() makes of the same chunks   *)
(* one by one, however the downloads interleave and whichever chunk blobs  *)
(* are damaged; and it is the object, byte for byte, once it was given the *)
(* object's own manifest: that blob is not hashed against the CID asked    *)
(* for, so another manifest yields another object.                         *)
(***************************************************************************)
GetIsExact ==
    \A o \in Object : get[o] = "ok" =>
        /\ Reassembles(plan[o], fetched[o])
        /\ plan[o] = Manifest(o) => Joined(o) = o

=============================================================================
