------------------------------ MODULE Timestamp ------------------------------
(***************************************************************************)
(* AtomicOptTimestamp (src/vendor/arti/crates/tor-proto/src/util/ts.rs): a *)
(* single AtomicU64 `latest`, 0 meaning "never updated", shared by         *)
(* threads that update, clear and query it without a lock.                 *)
(*                                                                         *)
(* Each operation that reads the clock does so before it touches the       *)
(* atomic, and another thread may act in between, so such an operation is  *)
(* two steps: the clock read, then the atomic operation (fetch_max,        *)
(* compare_exchange or load).  The atomic operations on the one location   *)
(* are totally ordered, which is all Ordering::Relaxed needs to give here. *)
(*                                                                         *)
(* The clock is coarsetime::Instant on native builds, which never goes     *)
(* back, and js_sys::Date::now() on wasm32, a wall clock that may be set   *)
(* back; MonotonicClock selects which.  A wasm build runs one thread, and  *)
(* its configurations use one thread.  The clock starts at 1: neither      *)
(* source reads 0 in practice (see the README on the sentinel).            *)
(***************************************************************************)
EXTENDS Naturals

CONSTANTS
    Threads,         \* threads sharing the timestamp
    MaxTick,         \* bound on the clock
    MonotonicClock,  \* TRUE: coarsetime (native); FALSE: Date::now (wasm)
    None             \* model value: Option::None

ASSUME MaxTickAssumption == MaxTick \in Nat \ {0}
ASSUME ClockAssumption == MonotonicClock \in BOOLEAN

Ticks == 1..MaxTick

VARIABLES
    latest,     \* the AtomicU64
    clock,      \* the platform clock
    pc,         \* operation in progress per thread
    nowRead,    \* the clock value a thread read for its operation
    answer,     \* history: the last time_since_update result per thread
    maxDone,    \* history: the largest instant an update stored since the last clear
    sawSet      \* history: the query began after an update, no clear since

vars == <<latest, clock, pc, nowRead, answer, maxDone, sawSet>>

MaxOf(a, b) == IF a >= b THEN a ELSE b

PCs == {"idle", "update", "ifnone", "query"}

Answers == [val : (0..MaxTick) \cup {None}, expectSome : BOOLEAN]

(* None is no query answer (it is a model value in every configuration).  *)
ASSUME NoneAssumption == None \notin Answers

TypeOK ==
    /\ latest \in 0..MaxTick
    /\ clock \in Ticks
    /\ pc \in [Threads -> PCs]
    /\ nowRead \in [Threads -> Ticks]
    /\ answer \in [Threads -> Answers \cup {None}]
    /\ maxDone \in 0..MaxTick
    /\ sawSet \in [Threads -> BOOLEAN]

-----------------------------------------------------------------------------
Init ==
    /\ latest = 0
    /\ clock = 1
    /\ pc = [t \in Threads |-> "idle"]
    /\ nowRead = [t \in Threads |-> 1]
    /\ answer = [t \in Threads |-> None]
    /\ maxDone = 0
    /\ sawSet = [t \in Threads |-> FALSE]

(* update(): Instant::now() is read ...                                    *)
BeginUpdate(t) ==
    /\ pc[t] = "idle"
    /\ pc' = [pc EXCEPT ![t] = "update"]
    /\ nowRead' = [nowRead EXCEPT ![t] = clock]
    /\ UNCHANGED <<latest, clock, answer, maxDone, sawSet>>

(* Mutant: update_to as a plain store instead of fetch_max.                *)
UpdateToStore(t) ==
    /\ pc[t] = "update"
    /\ latest' = nowRead[t]
    /\ maxDone' = MaxOf(maxDone, nowRead[t])
    /\ pc' = [pc EXCEPT ![t] = "idle"]
    /\ UNCHANGED <<clock, nowRead, answer, sawSet>>

(* ... and update_to(now) does latest.fetch_max(now).                      *)
UpdateTo(t) ==
    /\ pc[t] = "update"
    /\ latest' = MaxOf(latest, nowRead[t])
    /\ maxDone' = MaxOf(maxDone, nowRead[t])
    /\ pc' = [pc EXCEPT ![t] = "idle"]
    /\ UNCHANGED <<clock, nowRead, answer, sawSet>>

(* update_if_none(): the clock is read ...                                 *)
BeginUpdateIfNone(t) ==
    /\ pc[t] = "idle"
    /\ pc' = [pc EXCEPT ![t] = "ifnone"]
    /\ nowRead' = [nowRead EXCEPT ![t] = clock]
    /\ UNCHANGED <<latest, clock, answer, maxDone, sawSet>>

(* Mutant: update_if_none as a plain store, the compare dropped.          *)
CompareExchangeStore(t) ==
    /\ pc[t] = "ifnone"
    /\ latest' = nowRead[t]
    /\ maxDone' = nowRead[t]
    /\ pc' = [pc EXCEPT ![t] = "idle"]
    /\ UNCHANGED <<clock, nowRead, answer, sawSet>>

(* ... and compare_exchange(0, now) stores it only over the sentinel.      *)
CompareExchange(t) ==
    /\ pc[t] = "ifnone"
    /\ IF latest = 0
         THEN /\ latest' = nowRead[t]
              /\ maxDone' = nowRead[t]
         ELSE UNCHANGED <<latest, maxDone>>
    /\ pc' = [pc EXCEPT ![t] = "idle"]
    /\ UNCHANGED <<clock, nowRead, answer, sawSet>>

(* clear(): latest.store(0).  A query in progress has now seen a clear.    *)
Clear(t) ==
    /\ pc[t] = "idle"
    /\ latest' = 0
    /\ maxDone' = 0
    /\ sawSet' = [u \in Threads |-> FALSE]
    /\ UNCHANGED <<clock, pc, nowRead, answer>>

(* time_since_update(): Instant::now() is read ...                         *)
BeginQuery(t) ==
    /\ pc[t] = "idle"
    /\ pc' = [pc EXCEPT ![t] = "query"]
    /\ nowRead' = [nowRead EXCEPT ![t] = clock]
    /\ sawSet' = [sawSet EXCEPT ![t] = maxDone # 0]
    /\ UNCHANGED <<latest, clock, answer, maxDone>>

(* Mutant: the "clock ran backwards" test dropped.                        *)
LoadNoBackwardsCheck(t) ==
    /\ pc[t] = "query"
    /\ answer' = [answer EXCEPT ![t] =
          [val |-> IF latest # 0 THEN nowRead[t] - latest ELSE None,
           expectSome |-> sawSet[t]]]
    /\ pc' = [pc EXCEPT ![t] = "idle"]
    /\ UNCHANGED <<latest, clock, nowRead, maxDone, sawSet>>

(* ... and time_since_update_at(now) loads latest: Some(now - earlier) if  *)
(* now >= earlier and earlier != 0, else None.                             *)
Load(t) ==
    /\ pc[t] = "query"
    /\ answer' = [answer EXCEPT ![t] =
          [val |-> IF nowRead[t] >= latest /\ latest # 0
                     THEN nowRead[t] - latest ELSE None,
           expectSome |-> sawSet[t]]]
    /\ pc' = [pc EXCEPT ![t] = "idle"]
    /\ UNCHANGED <<latest, clock, nowRead, maxDone, sawSet>>

(* The clock: coarsetime only moves forward; Date::now may jump anywhere.  *)
ClockStep ==
    /\ IF MonotonicClock
         THEN /\ clock < MaxTick
              /\ clock' = clock + 1
         ELSE clock' \in Ticks \ {clock}
    /\ UNCHANGED <<latest, pc, nowRead, answer, maxDone, sawSet>>

Next ==
    \/ \E t \in Threads :
         \/ BeginUpdate(t) \/ UpdateTo(t)
         \/ BeginUpdateIfNone(t) \/ CompareExchange(t)
         \/ Clear(t)
         \/ BeginQuery(t) \/ Load(t)
    \/ ClockStep

Spec == Init /\ [][Next]_vars

-----------------------------------------------------------------------------
(* The contract of update_to ("update this timestamp to (at least) the     *)
(* time now"), across threads: the stored instant is never earlier than   *)
(* any instant an update stored since the last clear, so no staleness      *)
(* check ever sees an update as older than it was.                         *)
LatestCoversUpdates == latest >= maxDone

(* The doc comment of time_since_update: "Return None if update was never  *)
(* called."  A query that starts after an update, with no clear before it  *)
(* loads, returns Some.                                                    *)
UpdatedReadsSome ==
    \A t \in Threads : answer[t] # None /\ answer[t].expectSome => answer[t].val # None


-----------------------------------------------------------------------------
(***************************************************************************)
(* Refinement: Timestamp implements TimestampAtomic on the native build.   *)
(* The clock reads of update, update_if_none and time_since_update are     *)
(* stutters; each operation takes effect at its atomic instruction with    *)
(* the time its thread read, which the monotonic clock has already shown.  *)
(* A thread's answer is the Option it returned, without the history bit.   *)
(***************************************************************************)
AnswerBar == [t \in Threads |-> IF answer[t] = None THEN None ELSE answer[t].val]

Atomic == INSTANCE TimestampAtomic WITH answer <- AnswerBar

(* The doc comments of AtomicOptTimestamp, as TimestampAtomic states them, *)
(* hold of the lock-free code under every interleaving of threads: the     *)
(* timestamp moves forward only (or is cleared), is set by update_if_none  *)
(* only while unset, and a query answers the time since the stored update  *)
(* at an instant the clock had shown, or None.                             *)
ImplementsAtomic == Atomic!Spec

=============================================================================
