----------------------- MODULE MicrodescResolveProofs -----------------------
(***************************************************************************)
(* Proofs about MicrodescResolve for every number of relays, every set of  *)
(* digests and every batch size: fetch_microdescriptors returns exactly    *)
(* the last listers of a delivered digest, each with its own key.          *)
(*                                                                         *)
(* The argument: after BuildMap, a digest maps to the one relay that lists *)
(* it last; after the chunks before `batch`, the relays holding a key are  *)
(* those whose digest was in a chunk that did not fail and was not lost;   *)
(* and the chunks of a HashMap ordering partition its keys, so "in some    *)
(* chunk that did not fail" is "BatchOf is not a failed chunk".            *)
(***************************************************************************)
EXTENDS MicrodescResolve, FiniteSetTheorems, TLAPS

USE NumRelaysAssumption, BatchSizeAssumption, NoneAssumption

(* The digests the consensus lists.                                        *)
Listed == {md[i] : i \in Relays}

(* What BuildMap leaves in digestToFp: each listed digest maps to the      *)
(* relay that lists it last.                                               *)
MapOK ==
    /\ MapDigests = Listed
    /\ \A d \in Listed, i \in Relays : digestToFp[d] = i <=> md[i] = d /\ LastLister(i)

(* The relays resolved by the chunks before b.                             *)
Resolved(b) ==
    {i \in Relays : /\ LastLister(i)
                    /\ md[i] \notin lost
                    /\ \E k \in 1..(b - 1) : k \notin failedBatches /\ md[i] \in Chunk(k)}

IInv ==
    /\ TypeOK
    /\ pc = "map" => /\ digestToFp = <<>> /\ order = <<>>
                     /\ batch = 1 /\ usable = {}
    /\ pc # "map" => MapOK /\ order \in Orderings(Listed)
    /\ \A i \in Relays : key[i] = IF i \in Resolved(batch) THEN md[i] ELSE None
    /\ pc = "done" => /\ batch = NumBatches + 1
                      /\ usable = {i \in Relays : key[i] # None}

-----------------------------------------------------------------------------
(* chunks(B) puts position j in chunk (j - 1) \div B + 1, which is among   *)
(* the ceil(N / B) chunks, and in no other chunk.                          *)
LEMMA ChunkArith ==
    ASSUME NEW N \in Nat, NEW B \in Nat \ {0}, NEW j \in 1..N
    PROVE  /\ \E k \in 1..((N + B - 1) \div B) : (k - 1) * B < j /\ j <= k * B
           /\ \A k1, k2 \in Int : /\ (k1 - 1) * B < j /\ j <= k1 * B
                                 /\ (k2 - 1) * B < j /\ j <= k2 * B
                                 => k1 = k2
<1> DEFINE q == (j - 1) \div B
<1>1. /\ j - 1 = B * q + ((j - 1) % B)
      /\ 0 <= (j - 1) % B /\ (j - 1) % B < B
      /\ q \in Nat
  OBVIOUS
<1>2. (q + 1 - 1) * B < j /\ j <= (q + 1) * B
  BY <1>1
<1>3. q + 1 \in 1..((N + B - 1) \div B)
  <2>1. /\ N + B - 1 = B * ((N + B - 1) \div B) + ((N + B - 1) % B)
        /\ 0 <= (N + B - 1) % B /\ (N + B - 1) % B < B
    OBVIOUS
  <2>2. B * (q + 1) <= B * ((N + B - 1) \div B)
    BY <1>1, <2>1
  <2>. QED
    BY <1>1, <2>2
<1>4. ASSUME NEW k1 \in Int, NEW k2 \in Int,
             (k1 - 1) * B < j, j <= k1 * B, (k2 - 1) * B < j, j <= k2 * B
      PROVE  k1 = k2
  <2>1. (k1 - 1) * B < k2 * B /\ (k2 - 1) * B < k1 * B
    BY <1>4
  <2>2. k1 - 1 < k2 /\ k2 - 1 < k1
    BY <2>1
  <2>. QED
    BY <2>2
<1>5. \E k \in 1..((N + B - 1) \div B) : (k - 1) * B < j /\ j <= k * B
  <2>1. /\ q + 1 \in 1..((N + B - 1) \div B)
        /\ (q + 1 - 1) * B < j /\ j <= (q + 1) * B
    BY <1>2, <1>3
  <2>. WITNESS q + 1 \in 1..((N + B - 1) \div B)
  <2>. QED
    BY <2>1
<1>6. \A k1, k2 \in Int : /\ (k1 - 1) * B < j /\ j <= k1 * B
                         /\ (k2 - 1) * B < j /\ j <= k2 * B
                         => k1 = k2
  BY <1>4, Zenon
<1>. QED
  BY <1>5, <1>6

(* A digest the consensus lists has a last lister, and only one.          *)
LEMMA LastListerExists ==
    ASSUME md \in [Relays -> Digests], NEW d \in Listed
    PROVE  \E i \in Relays : md[i] = d /\ LastLister(i)
<1> DEFINE T == {n \in 0..(NumRelays - 1) : md[NumRelays - n] = d}
<1>1. T \subseteq Nat /\ T # {}
  <2>1. PICK i0 \in Relays : md[i0] = d
    BY DEF Listed
  <2>2. NumRelays - i0 \in T
    BY <2>1 DEF Relays
  <2>. QED
    BY <2>2
<1>2. PICK x \in T : \A y \in T : ~(<<y, x>> \in OpToRel(<, Nat))
  BY <1>1, NatLessThanWellFounded, WFMin
<1>3. \A y \in T : ~(y < x)
  BY <1>1, <1>2 DEF OpToRel
<1>4. NumRelays - x \in Relays /\ md[NumRelays - x] = d
  BY DEF Relays
<1>5. LastLister(NumRelays - x)
  <2> SUFFICES ASSUME NEW j \in Relays, j > NumRelays - x, md[j] = d
               PROVE  FALSE
    BY <1>4 DEF LastLister
  <2>1. NumRelays - j \in T /\ NumRelays - j < x
    BY DEF Relays
  <2>. QED
    BY <2>1, <1>3
<1>. QED
  BY <1>4, <1>5

LEMMA LastListerUnique ==
    ASSUME NEW i \in Relays, NEW j \in Relays, md[i] = md[j],
           LastLister(i), LastLister(j)
    PROVE  i = j
BY DEF LastLister, Relays

(* The chunks of a HashMap ordering of the map's keys partition them: each *)
(* key is requested in exactly one of the NumBatches chunks.               *)
LEMMA ChunkPartition ==
    ASSUME order \in Orderings(MapDigests), IsFiniteSet(MapDigests),
           NEW d \in MapDigests
    PROVE  \E k \in 1..NumBatches :
              /\ d \in Chunk(k)
              /\ \A k2 \in 1..NumBatches : d \in Chunk(k2) => k2 = k
<1> DEFINE N == Cardinality(MapDigests)
<1>1. N \in Nat
  BY FS_CardinalityType
<1>2. order \in Injection(1..N, MapDigests)
  BY DEF Orderings, Injection, IsInjective
<1>3. order \in Surjection(1..N, MapDigests)
  <2>1. IsFiniteSet(1..N) /\ Cardinality(1..N) = N
    BY <1>1, FS_Interval
  <2>. QED
    BY <1>2, <2>1, FS_Injection
<1>4. PICK j \in 1..N : order[j] = d
  BY <1>3 DEF Surjection
<1>5. ASSUME NEW k \in Int
      PROVE  d \in Chunk(k) <=> (k - 1) * BatchSize < j /\ j <= k * BatchSize
  <2>1. DOMAIN order = 1..N
    BY <1>2 DEF Injection
  <2>2. \A j2 \in 1..N : order[j2] = d => j2 = j
    BY <1>2, <1>4 DEF Injection, IsInjective
  <2>. QED
    BY <2>1, <2>2, <1>4 DEF Chunk
<1>6. /\ \E k \in 1..NumBatches : (k - 1) * BatchSize < j /\ j <= k * BatchSize
      /\ \A k1, k2 \in Int : /\ (k1 - 1) * BatchSize < j /\ j <= k1 * BatchSize
                             /\ (k2 - 1) * BatchSize < j /\ j <= k2 * BatchSize
                             => k1 = k2
  BY <1>1, ChunkArith DEF NumBatches
<1>. QED
  BY <1>5, <1>6

LEMMA ListedFinite ==
    ASSUME md \in [Relays -> Digests]
    PROVE  IsFiniteSet(Listed) /\ Cardinality(Listed) \in Nat
<1>1. md \in Surjection(Relays, Listed)
  BY DEF Surjection, Listed
<1>2. IsFiniteSet(Relays)
  BY FS_Interval DEF Relays
<1>3. IsFiniteSet(Listed)
  BY <1>1, <1>2, FS_Surjection
<1>. QED
  BY <1>3, FS_CardinalityType

LEMMA NumBatchesType ==
    ASSUME md \in [Relays -> Digests], MapDigests = Listed
    PROVE  NumBatches \in Nat
<1>1. Cardinality(MapDigests) \in Nat
  BY ListedFinite
<1>. QED
  BY <1>1 DEF NumBatches

-----------------------------------------------------------------------------
LEMMA InitIInv == Init => IInv
<1> SUFFICES ASSUME Init PROVE IInv
  OBVIOUS
<1>1. MapDigests = {} /\ Cardinality(MapDigests) = 0
  BY FS_EmptySet DEF Init, MapDigests
<1>2. NumBatches = 0
  BY <1>1 DEF NumBatches
<1>3. Resolved(1) = {}
  BY DEF Resolved
<1>4. TypeOK
  BY <1>1, <1>2 DEF Init, TypeOK, Orderings
<1>. QED
  BY <1>3, <1>4 DEF Init, IInv

(* BuildMap leaves each listed digest mapped to its last lister.           *)
LEMMA BuildMapIInv ==
    ASSUME IInv, BuildMap PROVE IInv'
<1> USE DEF IInv
<1> DEFINE M == [d \in Listed |->
                  CHOOSE i \in Relays : md[i] = d /\ \A j \in Relays : j > i => md[j] # d]
<1>1. /\ digestToFp' = M /\ order' \in Orderings(Listed) /\ pc' = "batches"
      /\ UNCHANGED <<md, batch, key, usable, failedBatches, lost>>
      /\ batch = 1 /\ md \in [Relays -> Digests]
  BY DEF BuildMap, Listed, TypeOK
<1>2. \A d \in Listed : M[d] \in Relays /\ md[M[d]] = d /\ LastLister(M[d])
  <2> TAKE d \in Listed
  <2>1. \E i \in Relays : md[i] = d /\ \A j \in Relays : j > i => md[j] # d
    BY <1>1, LastListerExists DEF LastLister
  <2>. QED
    BY <2>1 DEF LastLister
<1>3. Listed' = Listed /\ MapDigests' = Listed
  BY <1>1 DEF Listed, MapDigests
<1>4. MapOK'
  <2>1. ASSUME NEW d \in Listed, NEW i \in Relays
        PROVE  digestToFp'[d] = i <=> md'[i] = d /\ LastLister(i)'
    <3>1. digestToFp'[d] = M[d] /\ md' = md
      BY <1>1
    <3>2. LastLister(i)' <=> LastLister(i)
      BY <1>1 DEF LastLister
    <3>3. M[d] = i <=> md[i] = d /\ LastLister(i)
      BY <1>2, LastListerUnique
    <3>. QED
      BY <3>1, <3>2, <3>3
  <2>. QED
    BY <1>3, <2>1 DEF MapOK
<1>5. TypeOK'
  <2>1. Cardinality(Listed) \in Nat
    BY <1>1, ListedFinite
  <2>2. NumBatches' \in Nat
    BY <1>3, <2>1 DEF NumBatches
  <2>3. digestToFp' \in [MapDigests' -> Relays]
    BY <1>1, <1>2, <1>3
  <2>4. MapDigests' \subseteq Digests
    BY <1>1, <1>3 DEF Listed
  <2>5. order' \in Orderings(MapDigests')
    BY <1>1, <1>3
  <2>6. batch' \in 1..(NumBatches' + 1)
    <3>1. batch' = 1
      BY <1>1
    <3>. QED
      BY <3>1, <2>2 DEF NumBatches
  <2>7. /\ md' \in [Relays -> Digests]
        /\ key' \in [Relays -> Digests \cup {None}]
        /\ usable' \in SUBSET Relays
        /\ pc' \in {"map", "batches", "done"}
        /\ failedBatches' \in SUBSET Nat
        /\ lost' \in SUBSET Digests
    BY <1>1 DEF TypeOK
  <2>. QED
    BY <2>3, <2>4, <2>5, <2>6, <2>7 DEF TypeOK
<1>6. Resolved(batch)' = {} /\ Resolved(batch) = {}
  BY <1>1 DEF Resolved
<1>7. \A i \in Relays : key'[i] = IF i \in Resolved(batch)' THEN md'[i] ELSE None
  BY <1>1, <1>6
<1>. QED
  BY <1>1, <1>3, <1>4, <1>5, <1>7

(* A chunk that did not fail gives its delivered digests' last listers     *)
(* their keys and leaves every other key as it was.                        *)
LEMMA FetchBatchIInv ==
    ASSUME IInv, FetchBatch PROVE IInv'
<1> USE DEF IInv
<1>1. /\ pc = "batches" /\ batch \in 1..NumBatches
      /\ key' = IF batch \in failedBatches THEN key
                ELSE ParseMicrodescs(Chunk(batch) \ lost)
      /\ batch' = batch + 1
      /\ UNCHANGED <<md, digestToFp, order, usable, pc, failedBatches, lost>>
      /\ MapOK /\ order \in Orderings(Listed) /\ TypeOK
  BY DEF FetchBatch, TypeOK
<1>2. /\ NumBatches' = NumBatches /\ Listed' = Listed /\ MapDigests' = MapDigests
      /\ MapOK' = MapOK
      /\ \A k \in Int : Chunk(k)' = Chunk(k)
  BY <1>1 DEF NumBatches, MapDigests, Listed, Chunk, MapOK, LastLister
<1>3. Chunk(batch) \subseteq Listed
  BY <1>1 DEF Chunk, Orderings
<1>4. \A b \in Nat : Resolved(b)' = Resolved(b)
  BY <1>1, <1>2 DEF Resolved, LastLister
<1>5. Resolved(batch + 1) =
        Resolved(batch) \cup
        {i \in Relays : /\ batch \notin failedBatches /\ LastLister(i)
                        /\ md[i] \notin lost /\ md[i] \in Chunk(batch)}
  BY <1>1 DEF Resolved
<1>6. ASSUME NEW i \in Relays
      PROVE  key'[i] = IF i \in Resolved(batch + 1) THEN md[i] ELSE None
  <2>1. CASE batch \in failedBatches
    BY <1>1, <1>5, <2>1
  <2>2. CASE batch \notin failedBatches
    <3> DEFINE D == Chunk(batch) \ lost
    <3>1. key'[i] = IF \E d \in D : digestToFp[d] = i
                     THEN CHOOSE d \in D : digestToFp[d] = i
                     ELSE key[i]
      BY <1>1, <2>2 DEF ParseMicrodescs
    <3>2. \A d \in D : digestToFp[d] = i <=> md[i] = d /\ LastLister(i)
      BY <1>1, <1>3 DEF MapOK
    <3>3. CASE LastLister(i) /\ md[i] \in D
      <4>1. (CHOOSE d \in D : digestToFp[d] = i) = md[i]
        BY <3>2, <3>3
      <4>. QED
        BY <1>5, <2>2, <3>1, <3>2, <3>3, <4>1
    <3>4. CASE ~(LastLister(i) /\ md[i] \in D)
      BY <1>1, <1>5, <2>2, <3>1, <3>2, <3>4
    <3>. QED
      BY <3>3, <3>4
  <2>. QED
    BY <2>1, <2>2
<1>7. TypeOK'
  <2>1. key' \in [Relays -> Digests \cup {None}]
    <3>1. CASE batch \in failedBatches
      BY <1>1, <3>1 DEF TypeOK
    <3>2. CASE batch \notin failedBatches
      BY <1>1, <1>6, <3>2 DEF ParseMicrodescs, TypeOK
    <3>. QED
      BY <3>1, <3>2
  <2>2. batch' \in 1..(NumBatches' + 1)
    <3>1. NumBatches \in Nat
      BY <1>1, NumBatchesType DEF MapOK, TypeOK
    <3>. QED
      BY <1>1, <1>2, <3>1
  <2>3. /\ digestToFp' \in [MapDigests' -> Relays]
        /\ MapDigests' \subseteq Digests
        /\ order' \in Orderings(MapDigests') \cup {<<>>}
    BY <1>1, <1>2 DEF TypeOK
  <2>4. /\ md' \in [Relays -> Digests]
        /\ usable' \in SUBSET Relays
        /\ pc' \in {"map", "batches", "done"}
        /\ failedBatches' \in SUBSET Nat
        /\ lost' \in SUBSET Digests
    BY <1>1 DEF TypeOK
  <2>. QED
    BY <2>1, <2>2, <2>3, <2>4 DEF TypeOK
<1>. QED
  BY <1>1, <1>2, <1>4, <1>6, <1>7

(* After the last chunk the loop ends with batch = NumBatches + 1.         *)
LEMMA FilterUsableIInv ==
    ASSUME IInv, FilterUsable PROVE IInv'
<1> USE DEF IInv
<1>1. /\ pc = "batches" /\ batch > NumBatches
      /\ usable' = {i \in Relays : key[i] # None} /\ pc' = "done"
      /\ UNCHANGED <<md, digestToFp, order, batch, key, failedBatches, lost>>
      /\ MapOK /\ order \in Orderings(Listed) /\ TypeOK
  BY DEF FilterUsable
<1>2. NumBatches \in Nat
  BY <1>1, NumBatchesType DEF MapOK, TypeOK
<1>3. /\ NumBatches' = NumBatches /\ Listed' = Listed /\ MapDigests' = MapDigests
      /\ MapOK' = MapOK
      /\ Resolved(batch)' = Resolved(batch)
  BY <1>1 DEF NumBatches, MapDigests, Listed, Chunk, MapOK, LastLister, Resolved
<1>4. batch = NumBatches + 1
  BY <1>1, <1>2 DEF TypeOK
<1>5. TypeOK'
  BY <1>1, <1>3 DEF TypeOK
<1>. QED
  BY <1>1, <1>3, <1>4, <1>5

LEMMA StepIInv == IInv /\ [Next]_vars => IInv'
<1> SUFFICES ASSUME IInv, [Next]_vars PROVE IInv'
  OBVIOUS
<1>1. CASE BuildMap
  BY <1>1, BuildMapIInv
<1>2. CASE FetchBatch
  BY <1>2, FetchBatchIInv
<1>3. CASE FilterUsable
  BY <1>3, FilterUsableIInv
<1>4. CASE UNCHANGED vars
  BY <1>4 DEF vars, IInv, TypeOK, MapOK, Listed, MapDigests, Orderings,
             NumBatches, Resolved, Chunk, LastLister
<1>. QED
  BY <1>1, <1>2, <1>3, <1>4 DEF Next

(* At the end, "some chunk that did not fail requested it" is "the chunk  *)
(* BatchOf names did not fail", because the chunks partition the keys.     *)
LEMMA IInvCorrect == IInv => ResolutionCorrect
<1> SUFFICES ASSUME IInv, pc = "done"
             PROVE  /\ usable = {i \in Relays : md[i] \in Delivered /\ LastLister(i)}
                    /\ \A i \in usable : key[i] = md[i]
  BY DEF ResolutionCorrect
<1> USE DEF IInv
<1>1. /\ batch = NumBatches + 1 /\ usable = {i \in Relays : key[i] # None}
      /\ MapOK /\ order \in Orderings(Listed) /\ TypeOK
  OBVIOUS
<1>2. usable = Resolved(NumBatches + 1)
  BY <1>1, NoneAssumption DEF TypeOK, Resolved
<1>3. ASSUME NEW i \in Relays
      PROVE  (/\ md[i] \notin lost
              /\ \E k \in 1..NumBatches : k \notin failedBatches /\ md[i] \in Chunk(k))
             <=> md[i] \in Delivered
  <2>1. md[i] \in MapDigests /\ IsFiniteSet(MapDigests)
        /\ order \in Orderings(MapDigests)
    BY <1>1, ListedFinite DEF MapOK, Listed, TypeOK
  <2>2. PICK k0 \in 1..NumBatches :
               /\ md[i] \in Chunk(k0)
               /\ \A k2 \in 1..NumBatches : md[i] \in Chunk(k2) => k2 = k0
    BY <2>1, ChunkPartition
  <2>3. BatchOf(md[i]) = k0
    BY <2>2 DEF BatchOf
  <2>4. md[i] \in Delivered <=> k0 \notin failedBatches /\ md[i] \notin lost
    BY <2>1, <2>3 DEF Delivered
  <2>5. (\E k \in 1..NumBatches : k \notin failedBatches /\ md[i] \in Chunk(k))
        <=> k0 \notin failedBatches
    BY <2>2, Zenon
  <2>. QED
    BY <2>4, <2>5
<1>4. usable = {i \in Relays : md[i] \in Delivered /\ LastLister(i)}
  <2>1. NumBatches \in Nat
    BY <1>1, NumBatchesType DEF MapOK, TypeOK
  <2>2. Resolved(NumBatches + 1) =
          {i \in Relays : /\ LastLister(i)
                          /\ md[i] \notin lost
                          /\ \E k \in 1..NumBatches :
                               k \notin failedBatches /\ md[i] \in Chunk(k)}
    BY <2>1 DEF Resolved
  <2>. QED
    BY <1>2, <1>3, <2>2
<1>5. \A i \in usable : key[i] = md[i]
  BY <1>1, NoneAssumption DEF TypeOK
<1>. QED
  BY <1>4, <1>5

(* fetch_microdescriptors returns exactly the last listers of a delivered  *)
(* digest, each with the key of its own microdescriptor, for every number  *)
(* of relays, every digest collision, every batch size, every set of       *)
(* failed chunks and lost documents, and every HashMap iteration order.    *)
THEOREM ResolutionCorrectInv == Spec => []ResolutionCorrect
<1>1. Init => IInv
  BY InitIInv
<1>2. IInv /\ [Next]_vars => IInv'
  BY StepIInv
<1>3. IInv => ResolutionCorrect
  BY IInvCorrect
<1>. QED
  BY <1>1, <1>2, <1>3, PTL DEF Spec

(* The state fetch_microdescriptors keeps is well typed in every           *)
(* reachable state: keys are digests or empty, the loop index stays within *)
(* one past the last chunk, and all_digests is an ordering of the map.      *)
THEOREM TypeCorrect == Spec => []TypeOK
<1>1. IInv => TypeOK
  BY DEF IInv
<1>. QED
  BY <1>1, InitIInv, StepIInv, PTL DEF Spec

=============================================================================
