--------------------------- MODULE TimestampAtomic ---------------------------
(***************************************************************************)
(* What AtomicOptTimestamp (src/vendor/arti/crates/tor-proto/src/util/     *)
(* ts.rs) promises in its doc comments, as one atomic object: a timestamp  *)
(* that "can move forward in time, but never backwards", is updated "to    *)
(* (at least)" a current time, set only "if the timestamp is currently     *)
(* unset", cleared, and queried for the time since it was last updated,    *)
(* None if never or if that time is in the future.  Each operation takes  *)
(* effect at once, with a time the clock has already shown: the clock      *)
(* (coarsetime, native) never goes back.                                   *)
(***************************************************************************)
EXTENDS Naturals

CONSTANTS Threads, MaxTick, None

Ticks == 1..MaxTick

VARIABLES
    latest,   \* the time of the last update, 0 when unset
    clock,    \* the platform clock
    answer    \* what each thread's last query returned

vars == <<latest, clock, answer>>

Init ==
    /\ latest = 0
    /\ clock = 1
    /\ answer = [t \in Threads |-> None]

(* update / update_to: forward to v, never back.                           *)
Update(v) ==
    /\ latest' = IF v > latest THEN v ELSE latest
    /\ UNCHANGED <<clock, answer>>

(* update_if_none: set only while unset.                                   *)
UpdateIfNone(v) ==
    /\ latest' = IF latest = 0 THEN v ELSE latest
    /\ UNCHANGED <<clock, answer>>

(* clear: unset again.                                                     *)
Clear ==
    /\ latest' = 0
    /\ UNCHANGED <<clock, answer>>

(* time_since_update: the time from the last update to v, if any.          *)
Query(t, v) ==
    /\ answer' = [answer EXCEPT ![t] =
           IF latest # 0 /\ v >= latest THEN v - latest ELSE None]
    /\ UNCHANGED <<latest, clock>>

Tick ==
    /\ clock < MaxTick
    /\ clock' = clock + 1
    /\ UNCHANGED <<latest, answer>>

(* Every time an operation uses is one the clock has shown.                *)
Next ==
    \/ \E v \in 1..clock : Update(v) \/ UpdateIfNone(v)
    \/ Clear
    \/ \E t \in Threads, v \in 1..clock : Query(t, v)
    \/ Tick

Spec == Init /\ [][Next]_vars

=============================================================================
