----------------------- MODULE ConsensusManagerProofs -----------------------
(***************************************************************************)
(* Proofs about ConsensusManager, for every number of tasks, sources,      *)
(* window lengths and bounds: the type invariant, and the fallback         *)
(* discipline of refresh_consensus.                                        *)
(***************************************************************************)
EXTENDS ConsensusManager, TLAPS

(* What a task's loop keeps while it runs: the sources before `dir` all    *)
(* failed; last_error is None exactly at the first source and is the error *)
(* of the source before `dir` otherwise; once a consensus was fetched the  *)
(* task is at a real source with a pending entry, stamped before it is     *)
(* published.  FallbackDiscipline is not inductive without it.             *)
LoopInv ==
    \A c \in Callers :
        /\ pc[c] \in {"fetch", "micro", "publish"} => failed[c] = 1..(dir[c] - 1)
        /\ pc[c] = "fetch" =>
             /\ lastError[c] = None <=> dir[c] = 1
             /\ lastError[c] # None => lastError[c].dir = dir[c] - 1
        /\ pc[c] \in {"micro", "publish"} =>
             /\ dir[c] \in Dirs
             /\ pending[c] \in [doc : Versions, at : Times \cup {None}]
        /\ pc[c] = "publish" => pending[c] \in Entry

IInv == TypeOK /\ LoopInv /\ FallbackDiscipline

USE NumDirsAssumption, WindowAssumption, BoundsAssumption, PlatformAssumption, NoneAssumption

-----------------------------------------------------------------------------
(* The type invariant.                                                     *)
LEMMA InitTypeOK == Init => TypeOK
BY DEF Init, TypeOK, Times, Versions, PCs

-----------------------------------------------------------------------------
(* The inductive invariant.                                                *)
LEMMA InitIInv == Init => IInv
BY InitTypeOK DEF Init, IInv, LoopInv, FallbackDiscipline

(* A task entering the loop of refresh_consensus, from get_relays or      *)
(* directly, keeps the invariant.                                          *)
LEMMA StartLoopIInv ==
    ASSUME IInv, NEW c \in Callers, pc[c] = "idle", StartLoop(c),
           UNCHANGED <<now, netVersion, cache, pending, result>>
    PROVE  IInv'
<1>1. TypeOK'
  BY DEF IInv, TypeOK, StartLoop, PCs
<1>2. LoopInv'
  BY DEF IInv, TypeOK, LoopInv, StartLoop
<1>3. FallbackDiscipline'
  BY DEF IInv, TypeOK, FallbackDiscipline, StartLoop
<1>. QED
  BY <1>1, <1>2, <1>3 DEF IInv

LEMMA StepIInv == IInv /\ [Next]_vars => IInv'
<1> SUFFICES ASSUME IInv, [Next]_vars PROVE IInv'
  OBVIOUS
<1>1. ASSUME NEW c \in Callers, GetRelays(c) PROVE IInv'
  <2>1. CASE cache # None /\ IsValid(cache)
    <3> DEFINE K == IF IsFresh(cache) THEN "fresh" ELSE "stale"
               rec == [kind |-> K, doc |-> cache.doc, at |-> cache.at]
    <3>1. rec \in Results
      BY <2>1 DEF IInv, TypeOK, Results, Entry
    <3>2. /\ result' = [result EXCEPT ![c] = rec]
          /\ UNCHANGED <<now, netVersion, cache, pending, pc, dir, lastError, failed>>
      BY <1>1, <2>1 DEF GetRelays
    <3>3. TypeOK'
      BY <3>1, <3>2 DEF IInv, TypeOK
    <3>4. LoopInv'
      BY <3>2 DEF IInv, LoopInv
    <3>5. FallbackDiscipline'
      BY <3>2 DEF IInv, TypeOK, FallbackDiscipline
    <3>. QED
      BY <3>3, <3>4, <3>5 DEF IInv
  <2>2. CASE ~(cache # None /\ IsValid(cache))
    BY <1>1, <2>2, StartLoopIInv DEF GetRelays
  <2>. QED
    BY <2>1, <2>2
<1>2. ASSUME NEW c \in Callers, RefreshConsensus(c) PROVE IInv'
  BY <1>2, StartLoopIInv DEF RefreshConsensus
<1>3. ASSUME NEW c \in Callers, FetchConsensus(c) PROVE IInv'
  <2>1. PICK r \in Responses :
          IF r = "body"
            THEN /\ pending' = [pending EXCEPT ![c] = [doc |-> netVersion, at |-> None]]
                 /\ pc' = [pc EXCEPT ![c] = "micro"]
                 /\ UNCHANGED <<dir, lastError, failed>>
            ELSE /\ lastError' = [lastError EXCEPT ![c] = [dir |-> dir[c], kind |-> r]]
                 /\ failed' = [failed EXCEPT ![c] = @ \cup {dir[c]}]
                 /\ dir' = [dir EXCEPT ![c] = @ + 1]
                 /\ UNCHANGED <<pc, pending>>
    BY <1>3 DEF FetchConsensus
  <2>2. /\ pc[c] = "fetch" /\ dir[c] \in Dirs
        /\ UNCHANGED <<now, netVersion, cache, result>>
    BY <1>3 DEF FetchConsensus, IInv, TypeOK, Dirs
  <2>3. CASE r = "body"
    <3>1. /\ pending' = [pending EXCEPT ![c] = [doc |-> netVersion, at |-> None]]
          /\ pc' = [pc EXCEPT ![c] = "micro"]
          /\ UNCHANGED <<dir, lastError, failed>>
      BY <2>1, <2>3
    <3>2. TypeOK'
      BY <2>2, <3>1 DEF IInv, TypeOK, PCs, Versions
    <3>3. LoopInv'
      BY <2>2, <3>1 DEF IInv, TypeOK, LoopInv, Versions
    <3>4. FallbackDiscipline'
      BY <2>2, <3>1 DEF IInv, TypeOK, FallbackDiscipline
    <3>. QED
      BY <3>2, <3>3, <3>4 DEF IInv
  <2>4. CASE r # "body"
    <3>1. r \in FailKinds
      BY <2>4 DEF Responses, HttpFetchErrors, FailKinds
    <3>2. [dir |-> dir[c], kind |-> r] \in Errors
      BY <2>2, <3>1 DEF Errors
    <3>3. /\ lastError' = [lastError EXCEPT ![c] = [dir |-> dir[c], kind |-> r]]
          /\ failed' = [failed EXCEPT ![c] = @ \cup {dir[c]}]
          /\ dir' = [dir EXCEPT ![c] = @ + 1]
          /\ UNCHANGED <<pc, pending>>
      BY <2>1, <2>4
    <3>4. TypeOK'
      BY <2>2, <3>2, <3>3 DEF IInv, TypeOK, Dirs
    <3>5. failed'[c] = 1..(dir'[c] - 1)
      BY <2>2, <3>3 DEF IInv, TypeOK, LoopInv, Dirs
    <3>6. lastError'[c] # None /\ dir'[c] # 1 /\ lastError'[c].dir = dir'[c] - 1
      BY <2>2, <3>2, <3>3 DEF IInv, TypeOK, Dirs
    <3>7. LoopInv'
      BY <2>2, <3>3, <3>5, <3>6 DEF IInv, TypeOK, LoopInv
    <3>8. FallbackDiscipline'
      BY <2>2, <3>3 DEF IInv, TypeOK, FallbackDiscipline
    <3>. QED
      BY <3>4, <3>7, <3>8 DEF IInv
  <2>. QED
    BY <2>3, <2>4
<1>4. ASSUME NEW c \in Callers, FetchMicrodescs(c) PROVE IInv'
  <2>1. /\ pc[c] = "micro"
        /\ pending[c] \in [doc : Versions, at : Times \cup {None}]
        /\ UNCHANGED <<now, netVersion, cache, dir, lastError, failed, result>>
    BY <1>4 DEF FetchMicrodescs, IInv, LoopInv
  <2>2. CASE ~Wasm
    <3>1. /\ pending' = [pending EXCEPT ![c].at = now]
          /\ pc' = [pc EXCEPT ![c] = "publish"]
      BY <1>4, <2>2 DEF FetchMicrodescs
    <3>2. pending'[c] \in Entry
      BY <2>1, <3>1 DEF IInv, TypeOK, Entry
    <3>3. TypeOK'
      BY <2>1, <3>1, <3>2 DEF IInv, TypeOK, PCs, Entry
    <3>4. LoopInv'
      BY <2>1, <3>1, <3>2 DEF IInv, TypeOK, LoopInv
    <3>5. FallbackDiscipline'
      BY <2>1, <3>1 DEF IInv, TypeOK, FallbackDiscipline
    <3>. QED
      BY <3>3, <3>4, <3>5 DEF IInv
  <2>3. CASE Wasm
    <3>1. /\ pc' = [pc EXCEPT ![c] = "panicked"]
          /\ UNCHANGED pending
      BY <1>4, <2>3 DEF FetchMicrodescs
    <3>. QED
      BY <2>1, <3>1 DEF IInv, TypeOK, PCs, LoopInv, FallbackDiscipline
  <2>. QED
    BY <2>2, <2>3, PlatformAssumption
<1>5. ASSUME NEW c \in Callers, Publish(c) PROVE IInv'
  BY <1>5 DEF IInv, TypeOK, LoopInv, FallbackDiscipline, Publish, PCs, Entry, Results, Dirs
<1>6. ASSUME NEW c \in Callers, Exhausted(c) PROVE IInv'
  BY <1>6 DEF IInv, TypeOK, LoopInv, FallbackDiscipline, Exhausted, PCs, Results, Dirs, NoSources, Errors
<1>7. CASE Tick
  BY <1>7 DEF IInv, TypeOK, LoopInv, FallbackDiscipline, Tick, Times
<1>8. CASE NewConsensus
  BY <1>8 DEF IInv, TypeOK, LoopInv, FallbackDiscipline, NewConsensus, Versions
<1>9. CASE UNCHANGED vars
  BY <1>9 DEF IInv, TypeOK, LoopInv, FallbackDiscipline, vars
<1>10. QED
  BY <1>1, <1>2, <1>3, <1>4, <1>5, <1>6, <1>7, <1>8, <1>9 DEF Next, Step

-----------------------------------------------------------------------------
(* The theorems.                                                           *)
LEMMA IInvInvariant == Spec => []IInv
<1>1. Init => IInv
  BY InitIInv
<1>2. IInv /\ [Next]_vars => IInv'
  BY StepIInv
<1>. QED
  BY <1>1, <1>2, PTL DEF Spec

(* Every state of ConsensusManager is well typed: the task loop of         *)
(* refresh_consensus never walks past the last fallback source, a pending  *)
(* consensus always carries a version, and the cache holds a stamped entry.*)
THEOREM TypeCorrect == Spec => []TypeOK
BY IInvInvariant, PTL DEF IInv

(* The fallback discipline of refresh_consensus, for every number of       *)
(* sources and tasks: a returned consensus came from the first source that *)
(* answered, after every earlier one failed, and an error return follows   *)
(* the failure of every source and reports the last source's error (or     *)
(* "No directory sources available" when there are none).                  *)
THEOREM FallbackDisciplineInv == Spec => []FallbackDiscipline
BY IInvInvariant, PTL DEF IInv

-----------------------------------------------------------------------------
(***************************************************************************)
(* Refinement of ConsensusStore.                                           *)
(***************************************************************************)

(* A pending consensus is one the sources published (its version is at    *)
(* most the current one) and, once stamped, was stamped no later than now. *)
PendingInv ==
    \A c \in Callers :
        /\ pc[c] \in {"micro", "publish"} => pending[c].doc <= netVersion
        /\ pc[c] = "publish" => pending[c].at <= now

LEMMA InitPendingInv == Init => PendingInv
BY DEF Init, PendingInv

LEMMA StepPendingInv == IInv /\ PendingInv /\ [Next]_vars => PendingInv'
<1> SUFFICES ASSUME IInv, PendingInv, [Next]_vars PROVE PendingInv'
  OBVIOUS
<1>1. ASSUME NEW c \in Callers, GetRelays(c) \/ RefreshConsensus(c) PROVE PendingInv'
  BY <1>1 DEF GetRelays, RefreshConsensus, StartLoop, PendingInv, IInv, TypeOK
<1>2. ASSUME NEW c \in Callers, FetchConsensus(c) PROVE PendingInv'
  <2>1. PICK r \in Responses :
          IF r = "body"
            THEN /\ pending' = [pending EXCEPT ![c] = [doc |-> netVersion, at |-> None]]
                 /\ pc' = [pc EXCEPT ![c] = "micro"]
            ELSE UNCHANGED <<pc, pending>>
    BY <1>2 DEF FetchConsensus
  <2>2. UNCHANGED <<now, netVersion>>
    BY <1>2 DEF FetchConsensus
  <2>3. CASE r = "body"
    BY <2>1, <2>2, <2>3 DEF PendingInv, IInv, TypeOK, Versions
  <2>4. CASE r # "body"
    BY <2>1, <2>2, <2>4 DEF PendingInv
  <2>. QED
    BY <2>3, <2>4
<1>3. ASSUME NEW c \in Callers, FetchMicrodescs(c) PROVE PendingInv'
  <2>1. CASE ~Wasm
    <3>1. /\ pc[c] = "micro"
          /\ pending' = [pending EXCEPT ![c].at = now]
          /\ pc' = [pc EXCEPT ![c] = "publish"]
          /\ UNCHANGED <<now, netVersion>>
      BY <1>3, <2>1 DEF FetchMicrodescs
    <3>. QED
      BY <3>1 DEF PendingInv, IInv, TypeOK, LoopInv, Versions, Times
  <2>2. CASE Wasm
    BY <1>3, <2>2 DEF FetchMicrodescs, PendingInv, IInv, TypeOK
  <2>. QED
    BY <2>1, <2>2
<1>4. ASSUME NEW c \in Callers, Publish(c) \/ Exhausted(c) PROVE PendingInv'
  BY <1>4 DEF Publish, Exhausted, PendingInv, IInv, TypeOK
<1>5. CASE Tick
  BY <1>5 DEF Tick, PendingInv, IInv, TypeOK, LoopInv, Entry, Times
<1>6. CASE NewConsensus
  BY <1>6 DEF NewConsensus, PendingInv, IInv, TypeOK, LoopInv, Versions
<1>7. CASE UNCHANGED vars
  BY <1>7 DEF vars, PendingInv
<1>. QED
  BY <1>1, <1>2, <1>3, <1>4, <1>5, <1>6, <1>7 DEF Next, Step

(* What ResultBar makes of the results a step returns.                     *)
LEMMA ResultBarValues ==
    /\ ResultBar(None) = None
    /\ \A k \in {"fresh", "stale"}, v \in Versions, t \in Times :
          ResultBar([kind |-> k, doc |-> v, at |-> t]) = [kind |-> k, doc |-> v, at |-> t]
    /\ \A d \in Dirs, v \in Versions, t \in Times :
          ResultBar([kind |-> "fetched", src |-> d, doc |-> v, at |-> t])
            = [kind |-> "fetched", doc |-> v, at |-> t]
    /\ \A e \in Errors \cup {NoSources} :
          ResultBar([kind |-> "error", err |-> e]) = [kind |-> "error"]
BY DEF ResultBar, Results

(* Every step of ConsensusManager is a step of ConsensusStore under the   *)
(* mapping, or leaves the mapped state alone.                              *)
LEMMA StepRefines ==
    IInv /\ PendingInv /\ [Next]_vars => [Abstract!Next]_Abstract!vars
<1> SUFFICES ASSUME IInv, PendingInv, [Next]_vars PROVE [Abstract!Next]_Abstract!vars
  OBVIOUS
<1> USE DEF Abstract!vars
<1>1. ASSUME NEW c \in Callers, GetRelays(c) PROVE [Abstract!Next]_Abstract!vars
  <2>1. CASE cache # None /\ IsValid(cache)
    <3> DEFINE K == IF IsFresh(cache) THEN "fresh" ELSE "stale"
    <3>1. cache \in Entry
      BY <2>1 DEF IInv, TypeOK
    <3>2. /\ result' = [result EXCEPT ![c] = [kind |-> K, doc |-> cache.doc, at |-> cache.at]]
          /\ UNCHANGED <<now, netVersion, cache>>
      BY <1>1, <2>1 DEF GetRelays
    <3>3. RBar' = [RBar EXCEPT ![c] = [kind |-> K, doc |-> cache.doc, at |-> cache.at]]
      BY <3>1, <3>2, ResultBarValues DEF RBar, IInv, TypeOK, Entry
    <3>4. Abstract!Serve(c)
      BY <2>1, <3>2, <3>3 DEF Abstract!Serve, IsValid, IsFresh
    <3>. QED
      BY <3>4 DEF Abstract!Next
  <2>2. CASE ~(cache # None /\ IsValid(cache))
    BY <1>1, <2>2 DEF GetRelays, RBar
  <2>. QED
    BY <2>1, <2>2
<1>2. ASSUME NEW c \in Callers, RefreshConsensus(c) \/ FetchConsensus(c) \/ FetchMicrodescs(c)
      PROVE  UNCHANGED Abstract!vars
  BY <1>2 DEF RefreshConsensus, FetchConsensus, FetchMicrodescs, RBar
<1>3. ASSUME NEW c \in Callers, Publish(c) PROVE [Abstract!Next]_Abstract!vars
  <2>1. /\ pending[c] \in Entry
        /\ pending[c].doc <= netVersion
        /\ pending[c].at <= now
        /\ dir[c] \in Dirs
    BY <1>3 DEF Publish, IInv, LoopInv, PendingInv
  <2>2. /\ cache' = pending[c]
        /\ result' = [result EXCEPT ![c] = [kind |-> "fetched", src |-> dir[c],
                                             doc |-> pending[c].doc, at |-> pending[c].at]]
        /\ UNCHANGED <<now, netVersion>>
    BY <1>3 DEF Publish
  <2>3. RBar' = [RBar EXCEPT ![c] = [kind |-> "fetched", doc |-> pending[c].doc,
                                     at |-> pending[c].at]]
    <3>1. ResultBar(result'[c]) = [kind |-> "fetched", doc |-> pending[c].doc,
                                   at |-> pending[c].at]
      BY <2>1, <2>2, ResultBarValues DEF IInv, TypeOK, Entry
    <3>2. \A d \in Callers : d # c => result'[d] = result[d]
      BY <2>2 DEF IInv, TypeOK
    <3>. QED
      BY <3>1, <3>2 DEF RBar
  <2>4. Abstract!Store(c)
    BY <2>1, <2>2, <2>3 DEF Abstract!Store, Abstract!Entry, Entry, Abstract!Versions,
                            Versions, Abstract!Times, Times
  <2>. QED
    BY <2>4 DEF Abstract!Next
<1>4. ASSUME NEW c \in Callers, Exhausted(c) PROVE [Abstract!Next]_Abstract!vars
  <2> DEFINE E == IF lastError[c] = None THEN NoSources ELSE lastError[c]
  <2>1. E \in Errors \cup {NoSources}
    BY DEF IInv, TypeOK
  <2>2. /\ result' = [result EXCEPT ![c] = [kind |-> "error", err |-> E]]
        /\ UNCHANGED <<now, netVersion, cache>>
    BY <1>4 DEF Exhausted
  <2>3. RBar' = [RBar EXCEPT ![c] = [kind |-> "error"]]
    BY <2>1, <2>2, ResultBarValues DEF RBar, IInv, TypeOK
  <2>4. Abstract!Fail(c)
    BY <2>2, <2>3 DEF Abstract!Fail
  <2>. QED
    BY <2>4 DEF Abstract!Next
<1>5. CASE Tick
  BY <1>5 DEF Tick, Abstract!Next, Abstract!Tick, RBar
<1>6. CASE NewConsensus
  BY <1>6 DEF NewConsensus, Abstract!Next, Abstract!NewConsensus, RBar
<1>7. CASE UNCHANGED vars
  BY <1>7 DEF vars, RBar
<1>. QED
  BY <1>1, <1>2, <1>3, <1>4, <1>5, <1>6, <1>7 DEF Next, Step

(* ConsensusManager implements ConsensusStore, for every number of tasks,  *)
(* sources and bounds: get_relays serves only a valid cache, classified by *)
(* its age; refresh_consensus stores only a published consensus stamped no *)
(* later than now and returns what it stored; a failed refresh leaves the  *)
(* cache alone.  The safety part of the specification is refined; fairness *)
(* is not part of ConsensusStore.                                          *)
THEOREM Refinement == Spec => ImplementsStore
<1>1. Init => Abstract!Init
  BY DEF Init, Abstract!Init, RBar, ResultBar
<1>2. Spec => [](IInv /\ PendingInv)
  <2>1. Init => IInv /\ PendingInv
    BY InitIInv, InitPendingInv
  <2>2. IInv /\ PendingInv /\ [Next]_vars => IInv' /\ PendingInv'
    BY StepIInv, StepPendingInv
  <2>. QED
    BY <2>1, <2>2, PTL DEF Spec
<1>3. (IInv /\ PendingInv) /\ [Next]_vars => [Abstract!Next]_Abstract!vars
  BY StepRefines
<1>. QED
  BY <1>1, <1>2, <1>3, PTL DEF Spec, ImplementsStore, Abstract!Spec
=============================================================================
