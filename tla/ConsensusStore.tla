--------------------------- MODULE ConsensusStore ---------------------------
(***************************************************************************)
(* What the consensus cache of webtor promises its callers                 *)
(* (src/webtor/src/consensus.rs, ConsensusManager), with the fallback loop *)
(* and the fetch steps hidden.  A call either is served from the cache,    *)
(* which must still be valid and is reported fresh or stale by its age, or *)
(* replaces the cache wholesale with a consensus the directory sources     *)
(* have published, stamped no later than now, and returns it, or fails     *)
(* and leaves the cache alone.  Nothing orders the stores of concurrent    *)
(* calls: the last writer wins (spec 5).                                   *)
(***************************************************************************)
EXTENDS Naturals

CONSTANTS Callers, FreshFor, ValidFor, MaxTime, MaxVersion, None

Times    == 0..MaxTime
Versions == 1..MaxVersion
Entry    == [doc : Versions, at : Times]

VARIABLES
    now,         \* Instant::now()
    netVersion,  \* the consensus the directory sources currently serve
    cache,       \* the cached CachedConsensus, or None
    result       \* what each caller's last call returned

vars == <<now, netVersion, cache, result>>

Init ==
    /\ now = 0
    /\ netVersion = 1
    /\ cache = None
    /\ result = [c \in Callers |-> None]

(* get_relays answered from a cache that is still valid.                   *)
Serve(c) ==
    /\ cache # None
    /\ now - cache.at < ValidFor
    /\ result' = [result EXCEPT ![c] =
           [kind |-> IF now - cache.at < FreshFor THEN "fresh" ELSE "stale",
            doc |-> cache.doc, at |-> cache.at]]
    /\ UNCHANGED <<now, netVersion, cache>>

(* refresh_consensus succeeded: a published consensus, fetched at some     *)
(* instant up to now, replaces the cache and is returned.                  *)
Store(c) ==
    /\ \E e \in Entry :
         /\ e.doc <= netVersion
         /\ e.at <= now
         /\ cache' = e
         /\ result' = [result EXCEPT ![c] = [kind |-> "fetched", doc |-> e.doc, at |-> e.at]]
    /\ UNCHANGED <<now, netVersion>>

(* refresh_consensus failed on every source: the cache is left alone.      *)
Fail(c) ==
    /\ result' = [result EXCEPT ![c] = [kind |-> "error"]]
    /\ UNCHANGED <<now, netVersion, cache>>

Tick ==
    /\ now < MaxTime
    /\ now' = now + 1
    /\ UNCHANGED <<netVersion, cache, result>>

NewConsensus ==
    /\ netVersion < MaxVersion
    /\ netVersion' = netVersion + 1
    /\ UNCHANGED <<now, cache, result>>

Next ==
    \/ \E c \in Callers : Serve(c) \/ Store(c) \/ Fail(c)
    \/ Tick
    \/ NewConsensus

Spec == Init /\ [][Next]_vars
=============================================================================
