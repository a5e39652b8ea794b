-------------------------- MODULE ConsensusManager --------------------------
(***************************************************************************)
(* The consensus cache of webtor (src/webtor/src/consensus.rs,             *)
(* ConsensusManager).  Several tasks share one manager; each runs          *)
(* get_relays or refresh_consensus.  The cache sits behind a tokio RwLock: *)
(* the check in get_relays is one read-locked step, the replacement in     *)
(* refresh_consensus one write-locked step.  Between them a task awaits    *)
(* the network, so the steps of different tasks interleave.                *)
(*                                                                         *)
(* A fetch from one directory source (fetch_from_directory) is two steps:  *)
(* FetchConsensus, the plaintext GET of the consensus and its parsing,     *)
(* which can fail, and FetchMicrodescs, the batched microdescriptor        *)
(* fetches, which swallow their own errors and end by stamping             *)
(* Instant::now().  The relay list itself is abstracted to the version of  *)
(* the consensus document it was built from; MicrodescResolve models how   *)
(* the list is built.                                                      *)
(***************************************************************************)
EXTENDS Naturals, FiniteSets

CONSTANTS
    Callers,     \* tasks calling into the shared manager
    NumDirs,     \* length of the directory source list (with_directories)
    FreshFor,    \* fresh_until duration (3600 s in the code)
    ValidFor,    \* valid_until duration (3 * 3600 s in the code)
    MaxTime,     \* bound on the clock
    MaxVersion,  \* bound on the consensus versions published by the network
    Wasm,        \* the build: TRUE for wasm32 (browser fetch), FALSE for native
    None         \* model value: Option::None

ASSUME NumDirsAssumption == NumDirs \in Nat
ASSUME WindowAssumption ==
    /\ FreshFor \in Nat \ {0}
    /\ ValidFor \in Nat
    /\ FreshFor <= ValidFor
ASSUME BoundsAssumption == MaxTime \in Nat /\ MaxVersion \in Nat \ {0}
ASSUME PlatformAssumption == Wasm \in BOOLEAN

Dirs     == 1..NumDirs
Times    == 0..MaxTime
Versions == 1..MaxVersion

(* Ways fetch_from_directory can fail before any microdescriptor is       *)
(* fetched: an error of http_fetch, or a parse error of MdConsensus.       *)
FailKinds == {"neterr", "httpstatus", "headerless", "malformed"}

(* The errors of http_fetch.  Both builds fail on the network (connect,    *)
(* timeout, read, write; on wasm the fetch, the Response cast or the body   *)
(* read).  The wasm build checks resp.ok() and gets the body apart from    *)
(* the headers from the Fetch API; the native build never looks at the     *)
(* status line (an error page goes on to the parser) and rejects a         *)
(* response without the "\r\n\r\n" separator as "Invalid HTTP response".  *)
HttpFetchErrors ==
    IF Wasm THEN {"neterr", "httpstatus"} ELSE {"neterr", "headerless"}

(* The outcome of the consensus GET and parse of one source.               *)
Responses == {"body", "malformed"} \cup HttpFetchErrors

(* The error a refresh ends with: the last source's error, or the generic  *)
(* "No directory sources available" error.                                 *)
NoSources == [dir |-> 0, kind |-> "nosources"]
Errors    == [dir : Dirs, kind : FailKinds]

Entry == [doc : Versions, at : Times]

Results ==
    [kind : {"fresh", "stale"}, doc : Versions, at : Times]
    \cup [kind : {"fetched"}, src : Dirs, doc : Versions, at : Times]
    \cup [kind : {"error"}, err : Errors \cup {NoSources}]

(* None is not an error, a result or an entry (it is a model value in      *)
(* every configuration).                                                   *)
ASSUME NoneAssumption == None \notin Errors \cup Entry \cup Results

VARIABLES
    now,         \* Instant::now()
    netVersion,  \* the consensus the directory sources currently serve
    cache,       \* the RwLock<Option<CachedConsensus>>
    pc,          \* where each task is
    dir,         \* index of the source the task's loop is at
    lastError,   \* last_error of refresh_consensus
    failed,      \* history: sources that failed in the task's current loop
    pending,     \* the CachedConsensus built but not yet stored
    result       \* history: what the task's last call returned

vars == <<now, netVersion, cache, pc, dir, lastError, failed, pending, result>>

PCs == {"idle", "fetch", "micro", "publish", "panicked"}

TypeOK ==
    /\ now \in Times
    /\ netVersion \in Versions
    /\ cache \in Entry \cup {None}
    /\ pc \in [Callers -> PCs]
    /\ dir \in [Callers -> 1..(NumDirs + 1)]
    /\ lastError \in [Callers -> Errors \cup {None}]
    /\ failed \in [Callers -> SUBSET Dirs]
    /\ pending \in [Callers -> [doc : Versions, at : Times \cup {None}] \cup {None}]
    /\ result \in [Callers -> Results \cup {None}]

-----------------------------------------------------------------------------
(* CachedConsensus::is_fresh and is_valid: fetched_at.elapsed() < bound.   *)
IsFresh(e) == now - e.at < FreshFor
IsValid(e) == now - e.at < ValidFor

Init ==
    /\ now = 0
    /\ netVersion = 1
    /\ cache = None
    /\ pc = [c \in Callers |-> "idle"]
    /\ dir = [c \in Callers |-> 1]
    /\ lastError = [c \in Callers |-> None]
    /\ failed = [c \in Callers |-> {}]
    /\ pending = [c \in Callers |-> None]
    /\ result = [c \in Callers |-> None]

(* Entering the loop of refresh_consensus: last_error = None, first source. *)
StartLoop(c) ==
    /\ pc' = [pc EXCEPT ![c] = "fetch"]
    /\ dir' = [dir EXCEPT ![c] = 1]
    /\ lastError' = [lastError EXCEPT ![c] = None]
    /\ failed' = [failed EXCEPT ![c] = {}]

(* Mutant: the is_valid() test dropped, an expired cache served as stale.  *)
GetRelaysServesExpired(c) ==
    /\ pc[c] = "idle"
    /\ IF cache # None
         THEN /\ result' = [result EXCEPT ![c] =
                   [kind |-> IF IsFresh(cache) THEN "fresh" ELSE "stale",
                    doc |-> cache.doc, at |-> cache.at]]
              /\ UNCHANGED <<pc, dir, lastError, failed>>
         ELSE /\ StartLoop(c)
              /\ UNCHANGED result
    /\ UNCHANGED <<now, netVersion, cache, pending>>

(* get_relays: under the read lock, serve a fresh cache, else a valid one, *)
(* else fall through to refresh_consensus.                                 *)
GetRelays(c) ==
    /\ pc[c] = "idle"
    /\ IF cache # None /\ IsValid(cache)
         THEN /\ result' = [result EXCEPT ![c] =
                   [kind |-> IF IsFresh(cache) THEN "fresh" ELSE "stale",
                    doc |-> cache.doc, at |-> cache.at]]
              /\ UNCHANGED <<pc, dir, lastError, failed>>
         ELSE /\ StartLoop(c)
              /\ UNCHANGED result
    /\ UNCHANGED <<now, netVersion, cache, pending>>

(* refresh_consensus called directly (a forced refresh).                   *)
RefreshConsensus(c) ==
    /\ pc[c] = "idle"
    /\ StartLoop(c)
    /\ UNCHANGED <<now, netVersion, cache, pending, result>>

(* Mutants of FetchConsensus, each a plausible slip in the loop.           *)
(* The `for dir in &self.directories` bound written as an off-by-one.     *)
FetchConsensusPastEnd(c) ==
    /\ pc[c] = "fetch"
    /\ dir[c] <= NumDirs + 1
    /\ \E r \in Responses :
         IF r = "body"
           THEN /\ pending' = [pending EXCEPT ![c] = [doc |-> netVersion, at |-> None]]
                /\ pc' = [pc EXCEPT ![c] = "micro"]
                /\ UNCHANGED <<dir, lastError, failed>>
           ELSE /\ lastError' = [lastError EXCEPT ![c] = [dir |-> dir[c], kind |-> r]]
                /\ failed' = [failed EXCEPT ![c] = @ \cup {dir[c]}]
                /\ dir' = [dir EXCEPT ![c] = @ + 1]
                /\ UNCHANGED <<pc, pending>>
    /\ UNCHANGED <<now, netVersion, cache, result>>

(* last_error.get_or_insert(e): the first error is kept, not the last.     *)
FetchConsensusKeepsFirstError(c) ==
    /\ pc[c] = "fetch"
    /\ dir[c] <= NumDirs
    /\ \E r \in Responses :
         IF r = "body"
           THEN /\ pending' = [pending EXCEPT ![c] = [doc |-> netVersion, at |-> None]]
                /\ pc' = [pc EXCEPT ![c] = "micro"]
                /\ UNCHANGED <<dir, lastError, failed>>
           ELSE /\ lastError' = [lastError EXCEPT ![c] =
                       IF @ = None THEN [dir |-> dir[c], kind |-> r] ELSE @]
                /\ failed' = [failed EXCEPT ![c] = @ \cup {dir[c]}]
                /\ dir' = [dir EXCEPT ![c] = @ + 1]
                /\ UNCHANGED <<pc, pending>>
    /\ UNCHANGED <<now, netVersion, cache, result>>

(* fetch_from_directory up to the microdescriptors: http_fetch of the      *)
(* consensus and parse_consensus.  On an error the loop records it as      *)
(* last_error and moves to the next source.                                *)
FetchConsensus(c) ==
    /\ pc[c] = "fetch"
    /\ dir[c] <= NumDirs
    /\ \E r \in Responses :
         IF r = "body"
           THEN /\ pending' = [pending EXCEPT ![c] = [doc |-> netVersion, at |-> None]]
                /\ pc' = [pc EXCEPT ![c] = "micro"]
                /\ UNCHANGED <<dir, lastError, failed>>
           ELSE /\ lastError' = [lastError EXCEPT ![c] = [dir |-> dir[c], kind |-> r]]
                /\ failed' = [failed EXCEPT ![c] = @ \cup {dir[c]}]
                /\ dir' = [dir EXCEPT ![c] = @ + 1]
                /\ UNCHANGED <<pc, pending>>
    /\ UNCHANGED <<now, netVersion, cache, result>>

(* fetch_microdescriptors never fails as a whole (batch errors are only    *)
(* logged); then the CachedConsensus is built with fetched_at =            *)
(* std::time::Instant::now().  On wasm32-unknown-unknown std has no clock  *)
(* and Instant::now() panics: the task is aborted there, holding no lock,  *)
(* and neither stores nor returns.                                         *)
FetchMicrodescs(c) ==
    /\ pc[c] = "micro"
    /\ IF Wasm
         THEN /\ pc' = [pc EXCEPT ![c] = "panicked"]
              /\ UNCHANGED pending
         ELSE /\ pending' = [pending EXCEPT ![c].at = now]
              /\ pc' = [pc EXCEPT ![c] = "publish"]
    /\ UNCHANGED <<now, netVersion, cache, dir, lastError, failed, result>>

(* The write lock is taken, the cache replaced, the relays returned.       *)
Publish(c) ==
    /\ pc[c] = "publish"
    /\ cache' = pending[c]
    /\ result' = [result EXCEPT ![c] =
           [kind |-> "fetched", src |-> dir[c], doc |-> pending[c].doc, at |-> pending[c].at]]
    /\ pending' = [pending EXCEPT ![c] = None]
    /\ pc' = [pc EXCEPT ![c] = "idle"]
    /\ UNCHANGED <<now, netVersion, dir, lastError, failed>>

(* Every source failed: the last error, or "No directory sources".         *)
Exhausted(c) ==
    /\ pc[c] = "fetch"
    /\ dir[c] > NumDirs
    /\ result' = [result EXCEPT ![c] =
           [kind |-> "error",
            err |-> IF lastError[c] = None THEN NoSources ELSE lastError[c]]]
    /\ pc' = [pc EXCEPT ![c] = "idle"]
    /\ UNCHANGED <<now, netVersion, cache, dir, lastError, failed, pending>>

(* The environment: time passes, the authorities publish a new consensus.  *)
Tick ==
    /\ now < MaxTime
    /\ now' = now + 1
    /\ UNCHANGED <<netVersion, cache, pc, dir, lastError, failed, pending, result>>

NewConsensus ==
    /\ netVersion < MaxVersion
    /\ netVersion' = netVersion + 1
    /\ UNCHANGED <<now, cache, pc, dir, lastError, failed, pending, result>>

(* The steps a task takes once it has called in.                           *)
Step(c) ==
    \/ FetchConsensus(c)
    \/ FetchMicrodescs(c)
    \/ Publish(c)
    \/ Exhausted(c)

Next ==
    \/ \E c \in Callers : GetRelays(c) \/ RefreshConsensus(c) \/ Step(c)
    \/ Tick
    \/ NewConsensus

(* A task that can take a step eventually does: the runtime schedules it,  *)
(* and each await is assumed to complete (the native connect has no        *)
(* timeout, see the README).  Calls themselves are made by the environment *)
(* and need not happen.                                                    *)
Fairness == \A c \in Callers : WF_vars(Step(c))

Spec == Init /\ [][Next]_vars /\ Fairness

-----------------------------------------------------------------------------
(***************************************************************************)
(* Refinement: ConsensusManager implements ConsensusStore.  The abstract   *)
(* cache, clock and network are the concrete ones; a caller's result is    *)
(* its last return without the source index and the error's detail.  The  *)
(* loop's steps (entering it, a source failing, the microdescriptor fetch) *)
(* are stutters; get_relays serving the cache is Serve, Publish is Store,  *)
(* Exhausted is Fail.                                                      *)
(***************************************************************************)
ResultBar(r) ==
    IF r = None THEN None
    ELSE IF r.kind = "error" THEN [kind |-> "error"]
    ELSE [kind |-> r.kind, doc |-> r.doc, at |-> r.at]

RBar == [c \in Callers |-> ResultBar(result[c])]

Abstract == INSTANCE ConsensusStore WITH result <- RBar

-----------------------------------------------------------------------------
(***************************************************************************)
(* Properties.                                                             *)
(***************************************************************************)

(* The fallback loop of refresh_consensus: a task that got relays from     *)
(* source k tried sources 1..k-1 first, each of which failed, and tried    *)
(* none after k; a task that got an error tried and failed every source,   *)
(* and the error it returns is the one of the last source, or the generic  *)
(* "No directory sources available" when the list is empty.                *)
FallbackDiscipline ==
    \A c \in Callers :
        pc[c] = "idle" /\ result[c] # None =>
            /\ result[c].kind = "fetched" => failed[c] = 1..(result[c].src - 1)
            /\ result[c].kind = "error" =>
                 /\ failed[c] = Dirs
                 /\ result[c].err = IF NumDirs = 0 THEN NoSources
                                    ELSE [dir |-> NumDirs, kind |-> result[c].err.kind]

(* Spec (scheduling model): a caller awaiting get_relays or refresh        *)
(* suspends "until completion or failure", on both runtimes; every call    *)
(* returns.                                                                *)
CallsReturn == \A c \in Callers : pc[c] # "idle" ~> pc[c] = "idle"

(* The cache never goes back to an older consensus than the one it holds.  *)
(* refresh_consensus stores whatever its own fetch produced, whatever was  *)
(* stored by another task in the meantime.                                 *)
CacheNeverRegresses ==
    [][cache # None => cache' # None /\ cache'.doc >= cache.doc]_cache

(* When get_relays serves a stale but valid consensus, a refresh is under  *)
(* way while that entry is still the cached one.  get_relays logs "will    *)
(* refresh in background", and spec 4.2 says a refresh should be scheduled *)
(* (leaving the mechanism to the surrounding system); nothing under src/   *)
(* starts one.                                                             *)
StaleServeSchedulesRefresh ==
    \A c \in Callers :
        (/\ pc[c] = "idle"
         /\ result[c] # None /\ result[c].kind = "stale"
         /\ cache = [doc |-> result[c].doc, at |-> result[c].at])
        => \E d \in Callers : pc[d] \in {"fetch", "micro", "publish"}

(* Spec 4.2 and 5, as ConsensusStore states them: get_relays serves only   *)
(* a cache that is still valid and says whether it is fresh by its age;    *)
(* refresh_consensus replaces the cache only with a consensus the sources  *)
(* published, stamped no later than now, and returns exactly what it       *)
(* stored; a failed refresh leaves the cache alone.                        *)
ImplementsStore == Abstract!Spec

(* A source whose response has no header/body separator is not skipped:    *)
(* spec 6 says the whole payload is then taken as the body.  Checked on    *)
(* the native build, whose http_fetch splits the headers off itself.       *)
HeaderlessTolerated ==
    \A c \in Callers : lastError[c] = None \/ lastError[c].kind # "headerless"

=============================================================================
