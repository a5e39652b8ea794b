# TLA+ models of the webtor-rs bootstrap core

This directory holds TLA+ models of the four parts of `src/webtor` that
`spec.md` calls the core:

- consensus acquisition and caching;
- key resolution from microdescriptors;
- directory fetching over a one-hop tunnel;
- WebTunnel endpoint resolution.

It also models the lock-free timestamp that tor-proto uses for liveness
decisions. Alongside the models are TLC configurations that check them on
small instances, and TLAPS proofs of the main invariants for every value of
the constants. `PROJECT.json` lists the components, runs, mutants, the map
from every definition to the source lines it translates, the findings, the
hazards and the theorems.

## The system and how its parts interact

| Part (spec name) | Source | What it does | State | Concurrency |
|---|---|---|---|---|
| ConsensusStore | `src/webtor/src/consensus.rs` | `get_relays` serves the cache if it is fresh, or stale but valid. Otherwise it calls `refresh_consensus`, which tries the fallback sources in order. For each source it runs `fetch_from_directory`: `http_fetch` of the consensus, `parse_consensus`, then `fetch_microdescriptors`. The first success is written to the cache. If every source fails, it returns the last error. | One `RwLock<Option<CachedConsensus>>` | Any number of tasks call in. Each holds the lock only to read or to write, never across a fetch. |
| Microdescriptor resolution | `consensus.rs:364-452` | Builds a `HashMap` from digest to fingerprint, splits its keys into chunks of 92, fetches each chunk, and sets the ntor key of the relay each parsed microdescriptor maps to. Relays left without a key are dropped. | Local to the call | Sequential |
| MonotonicMarker | `src/vendor/arti/crates/tor-proto/src/util/ts.rs` | One `AtomicU64`, where 0 means never set. Operations: `update` (fetch_max), `update_if_none` (compare_exchange from 0), `clear`, `time_since_update`. Native builds use coarsetime; wasm32 uses `js_sys::Date::now()`. | The atomic | Many threads, no lock, `Relaxed` ordering |
| DirectoryBridge | `src/webtor/src/directory.rs` | `fetch_consensus` over a channel: new tunnel, spawn the reactor, create the first hop, open the directory stream, write the GET, read to end, skip the headers, then `process_consensus`, which is a stub. | Local, plus the `RelayManager` | One task, plus the spawned reactor |
| TransportBridge | `src/webtor/src/webtunnel.rs` | `to_wss_url` parses the configured URL and rewrites http→ws and https→wss. `connect` hands the result to `WebSocketStream::connect`. The stream delegates everything to `WebSocketStream`. | The config, the stream | One task |

The parts interact as follows. ConsensusStore produces the relay list. The
external circuit builder uses that list, or a WebTunnel connection for the
first hop, to build a circuit. DirectoryBridge can then fetch the directory
through that circuit. The timestamp is a leaf used inside tor-proto.

## Modules

| Module | Models | State | Actions |
|---|---|---|---|
| `ConsensusManager` | `get_relays` and `refresh_consensus` on any number of tasks (`Callers`), over `NumDirs` fallback sources, with the cache, a clock and the network's current consensus version | `cache` (None or `[doc, at]`); per task: `pc`, `dir` (the loop index), `lastError`, `failed` (history), `pending`, `result` | `GetRelays`, `RefreshConsensus`, `FetchConsensus` (http_fetch plus parse_consensus, with an answer or one of three failure kinds), `FetchMicrodescs`, `Publish` (the write lock and the store), `Exhausted`; environment: `Tick`, `NewConsensus` |
| `MicrodescResolve` | `fetch_microdescriptors` and `parse_microdescriptors` for one consensus. The directory's behaviour (which batches fail, which documents are lost) is fixed in `Init`, so a property can compare the result with what was delivered. | `md`, `digestToFp`, `order` (HashMap iteration order, any permutation), `batch`, `key`, `usable` | `BuildMap`, `FetchBatch` (calls `ParseMicrodescs`), `FilterUsable` |
| `Timestamp` | `AtomicOptTimestamp` on `Threads`. Every operation that reads the clock is two steps, the clock read and then the atomic operation, because another thread can act in between. `MonotonicClock` selects coarsetime or `Date::now`. | `latest`, `clock`, per thread: `pc`, `nowRead`, `answer`; history: `maxDone`, `sawSet` | `BeginUpdate`/`UpdateTo`, `BeginUpdateIfNone`/`CompareExchange`, `Clear`, `BeginQuery`/`Load`, `ClockStep` |
| `DirectoryBridge` | `fetch_consensus`. Each `.await?` is a step that may end the fetch with its error. The response is read byte by byte over the alphabet {CR, LF, other}. `process_consensus` only logs. | `pc`, `response`, `body`, `reactor`, `err` | `NewTunnel`, `CreateFirstHop`, `BeginDirStream`, `SendRequest`, `ReadByte`, `ReadEnd`, `ProcessConsensus` |
| `WebTunnel` | `to_wss_url` (`ToWssUrl`) and `connect`. `Url::parse` is modelled by what it does: a special scheme needs a host, an explicit default port is hidden (`port()` is None), and an empty path becomes "/". | `cfg`, `pc`, `wssUrl`, `dialed`, `err` | `Resolve`, `Handshake` |
| `ConsensusStore` | The abstract specification of the cache: what a call may return and do to the cache, with the fallback loop, the fetch steps and the error detail hidden. `Serve` returns a still-valid entry, reported fresh or stale by its age. `Store` replaces the cache with a published consensus stamped no later than now. `Fail` leaves the cache alone. | `now`, `netVersion`, `cache`, `result` | `Serve`, `Store`, `Fail`, `Tick`, `NewConsensus` |
| `TimestampAtomic` | The abstract specification of `AtomicOptTimestamp`, from its doc comments: one atomic object whose operations each take effect at once, with a time the clock has shown. `Update` moves forward only, `UpdateIfNone` sets only while unset, `Clear` unsets, and `Query` answers the time since the stored update, or None. | `latest`, `clock`, `answer` | `Update`, `UpdateIfNone`, `Clear`, `Query`, `Tick` |
| `ConsensusManagerProofs`, `DirectoryBridgeProofs`, `MicrodescResolveProofs`, `TimestampProofs`, `WebTunnelProofs` | TLAPS proofs | | |

The `MC_*` modules declare the model values for callers, threads and digests.

Data is abstracted to what the properties distinguish:

- A consensus is a version number.
- A relay is its index in the consensus.
- A microdescriptor is its digest. The digest also fixes the key, so the key a relay receives is recorded as the digest it came from.
- A source's outcome is a body, `malformed` (the parse fails), or an `http_fetch` error. The errors depend on the build, selected by the constant `Wasm`:
  - both builds: `neterr` (connect, timeout, read or write; on wasm the fetch, the `Response` cast or the body read);
  - wasm: `httpstatus`, from `resp.ok()`; the Fetch API hands over the body apart from the headers;
  - native: `headerless`, the `Invalid HTTP response` for a response with no `\r\n\r\n`. The native build never reads the status line.
- URLs are records of their components.

## Runs

| Run | Checks | Bounds | Shows |
|---|---|---|---|
| `cm_safety` (pass) | `TypeOK`, `FallbackDiscipline`, `ImplementsStore` | 2 tasks, 2 sources, fresh 1 tick, valid 2, time ≤ 2, 2 versions (about 2M states, 25 s) | A fetched result comes from the first source that answered after every earlier source failed. An error result follows the failure of every source and carries the last source's error, or "no sources" when the list is empty. Both hold while the other task refreshes concurrently. Every step is a step of `ConsensusStore` under the refinement mapping (native build). |
| `cm_liveness` (violation) | `CallsReturn` | 1 task, 3 sources, wasm build | A call of `fetch_consensus` never returns on wasm, even when every await completes: `std::time::Instant::now()` panics on `wasm32-unknown-unknown` right after the fetch succeeds, and the task stops in `panicked`. |
| `cm_regress` (violation) | `CacheNeverRegresses` | 2 tasks | Two overlapping refreshes can publish an older consensus over a newer one. |
| `cm_stale` (violation) | `StaleServeSchedulesRefresh` | 1 task | A stale cache is served and no refresh starts (spec 4.2). |
| `cm_headerless` (violation) | `HeaderlessTolerated` | 1 task, native build | The native `http_fetch` rejects a headerless response (spec 6). |
| `microdesc` (pass) | `TypeOK`, `ResolutionCorrect` | 3 relays, 3 digests, batch size 2, so there are two chunks, the second partial | For every assignment of digests (collisions included), every set of failing batches and every lost document, the relays returned are exactly the last listers of a delivered digest, each with its own key. Relays in a chunk after a failed chunk still resolve. |
| `ts_native` (pass) | `TypeOK`, `LatestCoversUpdates`, `ImplementsAtomic` | 2 threads, clock ≤ 4, monotonic | Under every interleaving, `fetch_max` keeps the latest update, and no query returns a negative duration. Every step is a step of `TimestampAtomic` under the refinement mapping. |
| `ts_race` (violation) | `UpdatedReadsSome` | 2 threads, monotonic | A query that begins after an update returns None, because another thread's later update lands between the query's clock read and its load. |
| `ts_wasm` (violation) | `UpdatedReadsSome` | 1 thread, wasm clock | The same doc comment fails on wasm when `Date::now` goes back. |
| `dirbridge` (pass) | `HeadersSkipped` | responses of up to 7 bytes over {CR, LF, x} (3,280 responses) | The body is exactly what follows the first blank line, or the whole response when it has none. This is checked against a reference definition built from `Prefixes` and `IsSuffix`. 7 bytes allow two separators, a separator at the very end, and overlapping partial ones. |
| `webtunnel` (pass) | `TypeOK`, `EndpointPreserved`, `ResolveIdempotent` | schemes http/https/ws/wss/ftp, ports 80/443/8443 or none, paths "" and "/secret-path", with or without a query, with or without a host | The endpoint dialled is the configured one: TLS exactly for https/wss, the same host, port and path. Resolving a resolved URL changes nothing. The ports include both defaults crossed with both scheme families. |
| `webtunnel_ws` (violation) | `WsUrlUnchanged` | same | A ws/wss URL is not returned unchanged (spec 8): the query is dropped, and the port and path are normalised. |

Every property of a passing run has a mutant in `PROJECT.json`: an operator
defined just before the action it changes, which models a plausible slip in
that code. TLC finds the property violated under the run's own configuration.

| Mutant | What it changes |
|---|---|
| `FetchConsensusPastEnd` | Walks one source too far |
| `FetchConsensusKeepsFirstError` | Keeps the first error instead of the last |
| `BuildMapFirstWins` | Keeps the first relay for a digest instead of the last |
| `FetchBatchStopsOnError` | `break` instead of `continue` |
| `FetchBatchPastEnd` | Runs one batch past the last chunk |
| `UpdateToStore` | A plain store instead of `fetch_max` |
| `CompareExchangeStore` | `update_if_none` as a plain store, without the compare |
| `LoadNoBackwardsCheck` | Drops the clock-ran-backwards check |
| `BodyStartOffByOne` | Body starts at the separator (`+ 4` missing) |
| `BodyStartLastSep` | Takes the last separator instead of the first |
| `ToWssUrlKeepsHttps` | https passed through unchanged |
| `ToWssUrlDropsPort` | Port never written |
| `ToWssUrlUpgradesWs` | ws upgraded to wss |
| `GetRelaysServesExpired` | `get_relays` serves any cached entry, without `is_valid` |

### Bounds

- **Timestamp, wall clock:** the wasm wall clock is covered for every bound by `LatestCoversUpdatesInv`, with `MonotonicClock` free. `ts_wasm` runs that clock under TLC.
- **ConsensusManager:** two tasks and two sources are the smallest instance with concurrent refreshes and a fallback. Three sources in the single-task runs give two fallbacks. Windows of 1 and 2 ticks with time up to 2 reach fresh, stale and invalid entries.
- **MicrodescResolve:** three relays with batch size 2 give a full chunk and a partial one. Three digests allow both collisions and unique digests.
- **Timestamp:** a clock bound of 4 gives room for two updates, a clear and a query at distinct instants.
- **DirectoryBridge:** 7 bytes allow a separator followed by body bytes and a second separator.

### Fairness

`Fairness` in `ConsensusManager` is weak fairness of each task's `Step`:
fetching, resolving microdescriptors, publishing and exhausting the loop.
It is used only by `cm_liveness`, and there it only makes the violation
stronger: even when every await is assumed to complete, the wasm call does not
return, because the task panics.

The native `CallsReturn` is not checked. The code does not justify the fairness
it would need:

- The native `http_fetch` sets a 60 s read timeout (`consensus.rs:250`), but `TcpStream::connect` (`consensus.rs:247`) has none. A source that never answers the TCP handshake stalls the loop up to the OS connect timeout.
- The blocking std I/O inside an `async fn` also blocks the executor thread.

A native liveness run would hold only because the model assumes the connect
returns, so no run is spent on it.

Timestamp, DirectoryBridge and WebTunnel are checked for safety only:

- `read_to_end` on the directory stream has no timeout.
- `connection_timeout` in `WebTunnelConfig` is never applied by `connect`.
- A liveness property would therefore hold only because the model bounds it.

Runs whose system really stops set `CHECK_DEADLOCK FALSE`, and each such
cfg says why: `MicrodescResolve`, `DirectoryBridge` and `WebTunnel` model one
call, which returns.

### Refinement

`ConsensusStore` states what the cache promises, without the loop.
`ConsensusManager` instantiates it as `Abstract` with `result <- RBar`.
`RBar` maps each task's result to what the caller can see: the kind
(fresh, stale, fetched or error), the document and its stamp. The error's
source and kind are dropped. `now`, `netVersion` and `cache` map to
themselves.

- `GetRelays` answering from the cache is `Serve`, and `is_valid` is its guard.
- `Publish` is `Store`: the entry written is the pending one, whose document was published (`doc <= netVersion`) and whose stamp is not in the future.
- `Exhausted` is `Fail`.
- `RefreshConsensus`, `FetchConsensus` and `FetchMicrodescs`, and `GetRelays` entering the loop, change nothing visible and are stutters. So is the wasm task's panic in `FetchMicrodescs`.

`ImplementsStore == Abstract!Spec` is checked as a `PROPERTY` of
`cm_safety`, and proved in `ConsensusManagerProofs`.

The refinement is weak on purpose, because the code promises little. `Store` allows any published document,
older than the cache included, which is why `CacheNeverRegresses` fails
and `ImplementsStore` holds. It also allows a stamp later than the fetch
(`fetched_at` is taken after the microdescriptors arrive).

`TimestampAtomic` states what `AtomicOptTimestamp` promises in its doc
comments. `Timestamp` instantiates it as `Atomic` with `answer <- AnswerBar`.
`AnswerBar` is each thread's last `Option` result, without the history bit
`expectSome`. `latest` and `clock` map to themselves.

- The clock reads `BeginUpdate`, `BeginUpdateIfNone` and `BeginQuery` are stutters.
- `UpdateTo` (`fetch_max`) is `Update`, with the instant the thread read.
- `CompareExchange` is `UpdateIfNone`, and `Clear` is `Clear`.
- `Load` is `Query`, with the instant the thread read.
- `ClockStep` is `Tick`.

The abstract actions take any time the clock has shown (`1..clock`). So the
refinement holds only on the native build, where coarsetime never goes back,
and a thread's read is then at most the current clock (`ReadNotAhead`). On
wasm, `Date::now` may jump back, and a step of `ClockStep` is no `Tick`.
`ImplementsAtomic == Atomic!Spec` is checked as a `PROPERTY` of `ts_native`, and
proved in `TimestampProofs` under the hypothesis `MonotonicClock`.

## Findings

Each finding is what a violation run shows. Source lines are in `PROJECT.json`.

1. **Headerless responses rejected (native).** Spec 6 says a response without `\r\n\r\n` is taken whole as the body. The native `http_fetch` returns `Invalid HTTP response`, so that source fails. The wasm `http_fetch` tolerates it, and so does `DirectoryBridge`.
2. **No refresh starts for a stale cache.** `get_relays` serves a stale-but-valid cache and logs "will refresh in background". Spec 4.2 leaves the refresh to the surrounding system, and nothing under `src/` starts one. The run shows that a caller relying on the log is left with the stale cache.
3. **Cache can regress.** With two overlapping refreshes, the one that fetched the older consensus can write last. Spec 5 accepts last-writer-wins, but not the regression it implies.
4. **`time_since_update` returns None after an update.** This contradicts the doc comment "Return None if update was never called".
   - Natively, when another thread's update lands between the clock read and the load.
   - On wasm, when `Date::now()` goes back. The comments claim `performance.now()`, which is monotonic.
5. **Wasm `fetch_consensus` panics.** After a successful fetch, `fetch_consensus` stamps the cache with `std::time::Instant::now()` (`consensus.rs:142`), which panics on `wasm32-unknown-unknown`. The call never returns and the cache is never written (`cm_liveness`). Spec 5 says a caller awaiting `fetch_consensus()` on either runtime suspends "until completion or failure".
6. **`to_wss_url` does not return a ws/wss URL unchanged.** It drops the query and fragment, and normalises an explicit default port and an empty path.

Hazards that no property covers are listed in `PROJECT.json` with the reason.

- **`process_consensus` is a stub.** `fetch_consensus` reports success without parsing or loading anything (spec 2 and 4.4). There is no hand-off to check, so no run is spent on it.
- **Sentinel.** 0 is both "never set" and a tick value. Spec 4.1 asks for this to be kept. Neither clock reads 0 in practice, so the models start the clock at 1 and no hazard is listed for it.
- **Hex digests.** The microdescriptor request uses hex digests where Tor directory caches expect base64.
- **`unsafe impl Send` on native.** `WebTunnelStream` is `Send` on native builds too, against spec 9.
- **Unused WebTunnel connection timeout.** `connection_timeout` is configured but `connect` never applies it.
- **Per-read timeout.** The native read timeout applies to each read, not to `read_to_string` as a whole, so a directory that sends a byte every 59 s holds the fallback loop.
- **Status ignored on native.** The native `http_fetch` never reads the status line, so an error page goes on to the parser. The wasm build rejects it by `resp.ok()`.
- **Unchecked consensus.** `dangerously_assume_timely` and `dangerously_assume_wellsigned` accept an expired or unsigned consensus (spec 7).

## What is proved

TLAPS proves the following for every value of the constants allowed by the
modules' named assumptions (`NumDirs \in Nat`, `0 < FreshFor <= ValidFor`,
`MaxTick \in Nat \ {0}`, ...):

- **`ConsensusManagerProofs`:**
  - `TypeCorrect`: `Spec => []TypeOK`.
  - `FallbackDisciplineInv`: `Spec => []FallbackDiscipline`.
  - `Refinement`: `Spec => ImplementsStore`, for both builds.
- **`DirectoryBridgeProofs`:**
  - `HeadersSkippedInv`: `Spec => []HeadersSkipped`, for every bound `MaxLen`.
- **`MicrodescResolveProofs`:**
  - `TypeCorrect`: `Spec => []TypeOK`.
  - `ResolutionCorrectInv`: `Spec => []ResolutionCorrect`, for every batch size, number of relays and set of digests (assumption `None \notin Digests`).
- **`TimestampProofs`:**
  - `TypeCorrect`: `Spec => []TypeOK`.
  - `LatestCoversUpdatesInv`: `Spec => []LatestCoversUpdates`.
  - `Refinement`: `ASSUME MonotonicClock PROVE Spec => ImplementsAtomic` (assumption `None \notin Answers`).
- **`WebTunnelProofs`:**
  - `EndpointPreservedInv`: `Spec => []EndpointPreserved`.
  - `ResolveIdempotentInv`: `Spec => []ResolveIdempotent`.
  - `TypeCorrect`: `Spec => []TypeOK`.

`FallbackDiscipline` talks only about finished calls, so it is not inductive.
A `Publish` or `Exhausted` step would have to know what the loop did before.
The strengthening `LoopInv` states what a running task keeps:

- the sources before `dir` all failed;
- `lastError` is None exactly at the first source, and otherwise is the error of `dir - 1`;
- from the microdescriptor phase on, `dir` is a real source and a pending entry exists, stamped before it is published.

`IInv == TypeOK /\ LoopInv /\ FallbackDiscipline` was first checked with TLC
as an invariant. The proof then shows `Init => IInv` and
`IInv /\ [Next]_vars => IInv'`, with one step per action and, under it, one
step per conjunct, and ends with `PTL`. Entering the loop from `GetRelays`
and from `RefreshConsensus` shares the lemma `StartLoopIInv`.

The refinement proof shows `Init => Abstract!Init`, then that every step from
a state satisfying `IInv /\ PendingInv` is an `Abstract!Next` step or leaves
`Abstract!vars` unchanged, and combines the two with `PTL`. `PendingInv` says
that a task in the microdescriptor or publish phase holds a document already
published, and, when it publishes, a stamp not later than now. It is needed
because `Store`'s guard is about the entry being written, which was chosen
steps earlier. The lemma `ResultBarValues` gives what `ResultBar` is on each
kind of result.

For WebTunnel, the lemma `ToWssUrlFacts` proves that a URL `to_wss_url` accepts
becomes a ws/wss URL. That URL parses to itself, designates the configured
endpoint, and is a fixed point of `to_wss_url`. The inductive invariant `IInv` says that the
resolved URL is `ToWssUrl(cfg)`, and that the endpoint dialled is the one that URL parses to.
The proof rests on named assumptions: `None` is no host, port or path, the
empty path is not "/", and every scheme has a default-port entry.

For microdescriptor resolution, `ResolutionCorrect` speaks only of the end
of the call. The inductive invariant says what holds after each chunk:
- after `BuildMap`, `digestToFp` maps each listed digest to the relay that lists it last (`MapOK`);
- `order` is a HashMap ordering of those digests;
- a key is set exactly for the relays in `Resolved(batch)`: the last listers whose digest was not lost and was requested by a chunk before `batch` that did not fail.

The proof rests on three lemmas:
- `LastListerExists`: every listed digest has a last lister. This takes the least element of a set of naturals, by `WFMin` and `NatLessThanWellFounded` from `WellFoundedInduction`.
- `ChunkArith`: position `j` falls in chunk `(j - 1) \div B + 1` of the `ceil(N / B)` chunks, and in no other.
- `ChunkPartition`: the chunks of an ordering partition the map's keys. An injective ordering of `Cardinality` length is onto, by `FS_Injection`.

The type theorem `TypeCorrect` is the first conjunct of the invariant.

At the end `batch = NumBatches + 1`. There, "requested by some chunk that did
not fail" becomes "`BatchOf` names a chunk that did not fail", which is the
`Delivered` of the property.

For the header skip, the invariant is only that the response is a byte
sequence and the body is `SkipHeaders(response)` once the stream has ended.
The work is in `SkipHeadersRef`, which shows that the code's search equals the
reference for every response. The code's search takes the first window of four bytes equal to
`\r\n\r\n`, plus 4. The reference is what follows the shortest prefix ending
in the separator. `SuffixSep` shows that the prefix of length `l` ends in the
separator exactly when the window at `l - 3` is the separator. It goes through
`Reverse`, as `IsSuffix` of SequencesExt is defined. The least window, from
`NatMin`, then gives the shortest such prefix. The sequence facts come from
`SequenceTheorems` (`SubSeqProperties`, `SeqEqual`, `SubSeqFull`,
`AppendProperties`).

For the timestamp, `TypeOK /\ LatestCoversUpdates` is already inductive. The
argument is that `MaxOf` preserves `>=`, and that `CompareExchange` writes
only over 0, where `maxDone` is also 0.

The timestamp refinement needs one more invariant, `ReadNotAhead`: on a
monotonic clock, every instant a thread has read is at most `clock`. It
makes the read instant a legal argument of the abstract operation.
`StepRefines` then has one step per concrete action, each naming the
abstract action it is. The step for `Load` computes `AnswerBar'` through
`NoneAssumption`, because an answer record is never `None`.

Some things stay with TLC:

- **Liveness.** `CallsReturn` involves ENABLED and fairness, which the prover cannot handle. It is a violation run, and a counterexample is TLC's to give.
- **The violation runs.** What they show is a counterexample trace, which TLC finds and a proof cannot give.
- **The refinement for fixed bounds only.** `ImplementsStore` is proved for every bound, but it is model-checked only on the `cm_safety` instance.
- **The wasm timestamp.** It does not implement `TimestampAtomic`, because its clock goes back. `ts_wasm` shows the consequence for `time_since_update`.

## Not modelled

- **WebTunnelStream's read, write and close.** They delegate to `WebSocketStream` in `src/webtor/src/websocket.rs`, which is not in this snapshot.
- **Field extraction in `parse_consensus`** (flags, weights, addresses). This is data conversion. The model keeps only the digest and the possibility of a parse failure.
- **Signature and time validation of the consensus.** The code skips it deliberately (spec 7).
- **`needs_refresh` and `cache_status`.** They only read.
- **The integration tests.** They need the live network.

## Plan

Done so far:

- The five components above.
- Proofs of the type and main safety invariants of ConsensusManager, Timestamp, WebTunnel and MicrodescResolve, and of `HeadersSkipped` for DirectoryBridge.
- The abstract cache `ConsensusStore`, with the refinement checked and proved.
- The atomic timestamp `TimestampAtomic`, with the native build's refinement checked and proved.
- The wasm and native `http_fetch` as a platform constant.

Next:

1. **Composed fetch.** Compose `MicrodescResolve` into `ConsensusManager`'s `FetchMicrodescs`, so that the all-batches-failed case publishes an empty relay list, and check what `get_relays` then serves.
2. **DirectoryBridge followed by ConsensusStore.** Once `process_consensus` is real, a model of that hand-off in which a failed fetch keeps the old cache (spec 4.4).
