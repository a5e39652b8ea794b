-------------------------- MODULE MicrodescResolve --------------------------
(***************************************************************************)
(* ConsensusManager::fetch_microdescriptors and parse_microdescriptors     *)
(* (src/webtor/src/consensus.rs): the ntor keys of the relays listed by a  *)
(* consensus are resolved from microdescriptors fetched in batches, and    *)
(* the relays left without a key are dropped.                              *)
(*                                                                         *)
(* A relay is its index in the consensus; tor-netdoc rejects a consensus   *)
(* whose entries are not sorted by identity, so fingerprints are unique    *)
(* and `relays.iter_mut().find(fp)` finds the relay of that index.  A      *)
(* microdescriptor is identified by its sha256 digest, which also fixes    *)
(* its ntor key: the key a relay receives is recorded as the digest of the *)
(* microdescriptor it came from.                                           *)
(*                                                                         *)
(* The directory source is an environment that answers each batch request *)
(* with a subset of what was asked for: a batch may fail as a whole (HTTP  *)
(* error, or MicrodescReader::new failing), and single microdescriptors    *)
(* may be missing or fail to parse.  These choices are fixed in Init as    *)
(* `failedBatches` and `lost`, so that a property can compare the result   *)
(* with what the source would have delivered.                              *)
(***************************************************************************)
EXTENDS Naturals, FiniteSets

CONSTANTS
    NumRelays,   \* relays listed by the consensus
    Digests,     \* microdescriptor digests
    BatchSize,   \* BATCH_SIZE (92 in the code)
    None         \* model value: the empty ntor key

ASSUME NumRelaysAssumption == NumRelays \in Nat
ASSUME BatchSizeAssumption == BatchSize \in Nat \ {0}
ASSUME NoneAssumption == None \notin Digests

Relays == 1..NumRelays

VARIABLES
    md,            \* relay -> microdescriptor_hash, from parse_consensus
    digestToFp,    \* the HashMap digest -> fingerprint
    order,         \* all_digests: the map's keys in HashMap iteration order
    batch,         \* index of the next chunk
    key,           \* relay -> ntor_onion_key (None = empty)
    usable,        \* the relays returned, once filtered
    pc,
    failedBatches, \* environment: batches whose fetch or reader fails
    lost           \* environment: microdescriptors never delivered

vars == <<md, digestToFp, order, batch, key, usable, pc, failedBatches, lost>>

(* The keys of digestToFp, and the number of chunks they are split into.   *)
MapDigests == DOMAIN digestToFp
NumBatches == (Cardinality(MapDigests) + BatchSize - 1) \div BatchSize

(* all_digests.chunks(BATCH_SIZE): the k-th chunk of `order`.              *)
Chunk(k) == {order[j] : j \in {j \in DOMAIN order :
                                 (k - 1) * BatchSize < j /\ j <= k * BatchSize}}

(* The orderings a HashMap may iterate its keys in.                        *)
Orderings(S) == {f \in [1..Cardinality(S) -> S] : \A i, j \in DOMAIN f : i # j => f[i] # f[j]}

TypeOK ==
    /\ md \in [Relays -> Digests]
    /\ digestToFp \in [MapDigests -> Relays]
    /\ MapDigests \subseteq Digests
    /\ order \in Orderings(MapDigests) \cup {<<>>}
    /\ batch \in 1..(NumBatches + 1)
    /\ key \in [Relays -> Digests \cup {None}]
    /\ usable \in SUBSET Relays
    /\ pc \in {"map", "batches", "done"}
    /\ failedBatches \in SUBSET Nat
    /\ lost \in SUBSET Digests

-----------------------------------------------------------------------------
(* parse_consensus has produced the relays with empty keys; the source's  *)
(* behaviour is fixed.  The map is still to be built.                      *)
Init ==
    /\ md \in [Relays -> Digests]
    /\ digestToFp = <<>>
    /\ order = <<>>
    /\ batch = 1
    /\ key = [i \in Relays |-> None]
    /\ usable = {}
    /\ pc = "map"
    /\ failedBatches \in SUBSET (1..NumRelays)
    /\ lost \in SUBSET Digests

(* parse_microdescriptors: every microdescriptor that parses sets the key  *)
(* of the relay its digest maps to.                                        *)
ParseMicrodescs(delivered) ==
    [i \in Relays |->
        IF \E d \in delivered : digestToFp[d] = i
          THEN CHOOSE d \in delivered : digestToFp[d] = i
          ELSE key[i]]

(* Mutants.  The map built with entry().or_insert: the first relay        *)
(* listing a digest keeps it.                                              *)
BuildMapFirstWins ==
    /\ pc = "map"
    /\ digestToFp' = [d \in {md[i] : i \in Relays} |->
                        CHOOSE i \in Relays : md[i] = d /\ \A j \in Relays : j < i => md[j] # d]
    /\ order' \in Orderings({md[i] : i \in Relays})
    /\ pc' = "batches"
    /\ UNCHANGED <<md, batch, key, usable, failedBatches, lost>>

(* A failed chunk ends the loop (`break` for `continue`).                  *)
FetchBatchStopsOnError ==
    /\ pc = "batches"
    /\ batch <= NumBatches
    /\ key' = IF batch \in failedBatches THEN key
              ELSE ParseMicrodescs(Chunk(batch) \ lost)
    /\ batch' = IF batch \in failedBatches THEN NumBatches + 1 ELSE batch + 1
    /\ UNCHANGED <<md, digestToFp, order, usable, pc, failedBatches, lost>>

(* The chunk loop bound written as `..=`: one chunk past the end.          *)
FetchBatchPastEnd ==
    /\ pc = "batches"
    /\ batch <= NumBatches + 1
    /\ key' = IF batch \in failedBatches THEN key
              ELSE ParseMicrodescs(Chunk(batch) \ lost)
    /\ batch' = batch + 1
    /\ UNCHANGED <<md, digestToFp, order, usable, pc, failedBatches, lost>>

(* digests.into_iter().map(|(fp, dig)| (dig, fp)).collect(): a later pair  *)
(* with the same digest overwrites an earlier one, so a digest maps to the *)
(* last relay listing it.  all_digests is the map's keys in some order.    *)
BuildMap ==
    /\ pc = "map"
    /\ digestToFp' = [d \in {md[i] : i \in Relays} |->
                        CHOOSE i \in Relays : md[i] = d /\ \A j \in Relays : j > i => md[j] # d]
    /\ order' \in Orderings({md[i] : i \in Relays})
    /\ pc' = "batches"
    /\ UNCHANGED <<md, batch, key, usable, failedBatches, lost>>

(* One chunk: the GET of /tor/micro/d/<d1>-<d2>-...; on an error the chunk *)
(* is skipped, otherwise its microdescriptors are parsed.                  *)
FetchBatch ==
    /\ pc = "batches"
    /\ batch <= NumBatches
    /\ key' = IF batch \in failedBatches THEN key
              ELSE ParseMicrodescs(Chunk(batch) \ lost)
    /\ batch' = batch + 1
    /\ UNCHANGED <<md, digestToFp, order, usable, pc, failedBatches, lost>>

(* After the last chunk, relays whose ntor key is still empty are dropped. *)
FilterUsable ==
    /\ pc = "batches"
    /\ batch > NumBatches
    /\ usable' = {i \in Relays : key[i] # None}
    /\ pc' = "done"
    /\ UNCHANGED <<md, digestToFp, order, batch, key, failedBatches, lost>>

Next == BuildMap \/ FetchBatch \/ FilterUsable

Spec == Init /\ [][Next]_vars /\ WF_vars(Next)

-----------------------------------------------------------------------------
(* The chunk a digest is requested in, and the digests the source          *)
(* delivers: those of chunks that did not fail, less the lost ones.        *)
BatchOf(d) == CHOOSE k \in 1..NumBatches : d \in Chunk(k)
Delivered == {d \in MapDigests : d \notin lost /\ BatchOf(d) \notin failedBatches}

(* A relay is the last in the consensus to list its digest.                *)
LastLister(i) == \A j \in Relays : j > i => md[j] # md[i]

(* The relays fetch_microdescriptors returns are exactly those whose       *)
(* microdescriptor the source delivered, in whatever chunk and whatever    *)
(* chunks failed before it, less the earlier relays sharing a digest with  *)
(* a later one (spec 4.2 step 4: a collision keeps one mapping); each      *)
(* carries the ntor key of its own microdescriptor.                        *)
ResolutionCorrect ==
    pc = "done" =>
        /\ usable = {i \in Relays : md[i] \in Delivered /\ LastLister(i)}
        /\ \A i \in usable : key[i] = md[i]

=============================================================================
