--------------------------- MODULE TimestampProofs ---------------------------
(***************************************************************************)
(* Proofs about AtomicOptTimestamp, for every set of threads, every clock  *)
(* bound and both clocks: the type invariant, and that fetch_max keeps the *)
(* stored instant at or after every instant an update stored.              *)
(***************************************************************************)
EXTENDS Timestamp, TLAPS

USE MaxTickAssumption, ClockAssumption

IInv == TypeOK /\ LatestCoversUpdates

LEMMA MaxOfBounds ==
    ASSUME NEW a \in 0..MaxTick, NEW b \in 0..MaxTick
    PROVE  /\ MaxOf(a, b) \in 0..MaxTick
           /\ MaxOf(a, b) >= a /\ MaxOf(a, b) >= b
BY DEF MaxOf

LEMMA InitIInv == Init => IInv
BY DEF Init, IInv, TypeOK, LatestCoversUpdates, Ticks, Answers, PCs

LEMMA StepIInv == IInv /\ [Next]_vars => IInv'
<1> SUFFICES ASSUME IInv, [Next]_vars PROVE IInv'
  OBVIOUS
<1>1. ASSUME NEW t \in Threads, BeginUpdate(t) PROVE IInv'
  BY <1>1 DEF IInv, TypeOK, LatestCoversUpdates, BeginUpdate, PCs
<1>2. ASSUME NEW t \in Threads, UpdateTo(t) PROVE IInv'
  <2>1. nowRead[t] \in 0..MaxTick /\ latest \in 0..MaxTick /\ maxDone \in 0..MaxTick
    BY DEF IInv, TypeOK, Ticks
  <2>2. /\ MaxOf(latest, nowRead[t]) \in 0..MaxTick
        /\ MaxOf(maxDone, nowRead[t]) \in 0..MaxTick
        /\ MaxOf(latest, nowRead[t]) >= MaxOf(maxDone, nowRead[t])
    BY <2>1, MaxOfBounds DEF IInv, LatestCoversUpdates, MaxOf
  <2>. QED
    BY <1>2, <2>2 DEF IInv, TypeOK, LatestCoversUpdates, UpdateTo, PCs
<1>3. ASSUME NEW t \in Threads, BeginUpdateIfNone(t) PROVE IInv'
  BY <1>3 DEF IInv, TypeOK, LatestCoversUpdates, BeginUpdateIfNone, PCs
<1>4. ASSUME NEW t \in Threads, CompareExchange(t) PROVE IInv'
  BY <1>4 DEF IInv, TypeOK, LatestCoversUpdates, CompareExchange, PCs, Ticks
<1>5. ASSUME NEW t \in Threads, Clear(t) PROVE IInv'
  BY <1>5 DEF IInv, TypeOK, LatestCoversUpdates, Clear
<1>6. ASSUME NEW t \in Threads, BeginQuery(t) PROVE IInv'
  BY <1>6 DEF IInv, TypeOK, LatestCoversUpdates, BeginQuery, PCs
<1>7. ASSUME NEW t \in Threads, Load(t) PROVE IInv'
  <2>1. answer'[t] \in Answers
    BY <1>7 DEF IInv, TypeOK, Load, Answers, Ticks
  <2>. QED
    BY <1>7, <2>1 DEF IInv, TypeOK, LatestCoversUpdates, Load, PCs
<1>8. CASE ClockStep
  BY <1>8 DEF IInv, TypeOK, LatestCoversUpdates, ClockStep, Ticks
<1>9. CASE UNCHANGED vars
  BY <1>9 DEF IInv, TypeOK, LatestCoversUpdates, vars
<1>. QED
  BY <1>1, <1>2, <1>3, <1>4, <1>5, <1>6, <1>7, <1>8, <1>9 DEF Next

LEMMA IInvInvariant == Spec => []IInv
BY InitIInv, StepIInv, PTL DEF Spec

(* Every state of the timestamp is well typed: the atomic never holds an   *)
(* instant the clock has not reached, and every query answer is a duration *)
(* or None.                                                                *)
THEOREM TypeCorrect == Spec => []TypeOK
BY IInvInvariant, PTL DEF IInv

(* update_to's fetch_max: under any interleaving of update, update_if_none,*)
(* clear and time_since_update on any number of threads, and with either   *)
(* clock, the stored instant is never earlier than any instant an update   *)
(* stored since the last clear.                                            *)
THEOREM LatestCoversUpdatesInv == Spec => []LatestCoversUpdates
BY IInvInvariant, PTL DEF IInv


-----------------------------------------------------------------------------
(***************************************************************************)
(* Refinement of TimestampAtomic on the native build.                      *)
(***************************************************************************)

(* With a clock that never goes back, the instant a thread read is one the *)
(* clock has already shown when its atomic instruction runs.               *)
ReadNotAhead == \A t \in Threads : nowRead[t] <= clock

LEMMA InitReadNotAhead == Init => ReadNotAhead
<1> SUFFICES ASSUME Init, NEW t \in Threads PROVE nowRead[t] <= clock
  BY DEF ReadNotAhead
<1>1. nowRead[t] = 1 /\ clock = 1
  BY DEF Init
<1>. QED
  BY <1>1

LEMMA InitRefines == Init => Atomic!Init
BY NoneAssumption DEF Init, Atomic!Init, AnswerBar

LEMMA StepReadNotAhead ==
    ASSUME MonotonicClock, TypeOK, ReadNotAhead, [Next]_vars
    PROVE  ReadNotAhead'
BY DEF ReadNotAhead, TypeOK, Ticks, Next, vars, BeginUpdate, UpdateTo,
       BeginUpdateIfNone, CompareExchange, Clear, BeginQuery, Load, ClockStep

(* Each step is a step of the atomic object or leaves it unchanged: the    *)
(* clock reads are stutters, fetch_max is Update, compare_exchange is      *)
(* UpdateIfNone, store(0) is Clear, the load is Query and the coarsetime    *)
(* clock is Tick, each with the time its thread read.                      *)
LEMMA StepRefines ==
    ASSUME MonotonicClock, TypeOK, ReadNotAhead, [Next]_vars
    PROVE  [Atomic!Next]_Atomic!vars
<1> USE NoneAssumption
<1>1. ASSUME NEW t \in Threads,
             BeginUpdate(t) \/ BeginUpdateIfNone(t) \/ BeginQuery(t)
      PROVE  UNCHANGED Atomic!vars
  BY <1>1 DEF BeginUpdate, BeginUpdateIfNone, BeginQuery, AnswerBar, Atomic!vars
<1>2. ASSUME NEW t \in Threads, UpdateTo(t)
      PROVE  Atomic!Next
  <2>1. nowRead[t] \in 1..clock
    BY DEF TypeOK, ReadNotAhead, Ticks
  <2>2. Atomic!Update(nowRead[t])
    BY <1>2 DEF UpdateTo, MaxOf, Atomic!Update, AnswerBar, TypeOK, Ticks
  <2>. QED
    BY <2>1, <2>2 DEF Atomic!Next
<1>3. ASSUME NEW t \in Threads, CompareExchange(t)
      PROVE  Atomic!Next
  <2>1. nowRead[t] \in 1..clock
    BY DEF TypeOK, ReadNotAhead, Ticks
  <2>2. Atomic!UpdateIfNone(nowRead[t])
    BY <1>3 DEF CompareExchange, Atomic!UpdateIfNone, AnswerBar, TypeOK
  <2>. QED
    BY <2>1, <2>2 DEF Atomic!Next
<1>4. ASSUME NEW t \in Threads, Clear(t)
      PROVE  Atomic!Next
  BY <1>4 DEF Clear, Atomic!Next, Atomic!Clear, AnswerBar, TypeOK
<1>5. ASSUME NEW t \in Threads, Load(t)
      PROVE  Atomic!Next
  <2>1. nowRead[t] \in 1..clock
    BY DEF TypeOK, ReadNotAhead, Ticks
  <2> DEFINE v == IF nowRead[t] >= latest /\ latest # 0
                    THEN nowRead[t] - latest ELSE None
  <2>2. /\ answer' = [answer EXCEPT ![t] = [val |-> v, expectSome |-> sawSet[t]]]
        /\ UNCHANGED <<latest, clock>>
    BY <1>5 DEF Load
  <2>3. [val |-> v, expectSome |-> sawSet[t]] \in Answers
    BY <2>1 DEF TypeOK, Answers, Ticks
  <2>4. AnswerBar' = [AnswerBar EXCEPT ![t] = v]
    BY <2>2, <2>3 DEF AnswerBar, TypeOK
  <2>5. Atomic!Query(t, nowRead[t])
    BY <2>2, <2>4 DEF Atomic!Query
  <2>. QED
    BY <2>1, <2>5 DEF Atomic!Next
<1>6. CASE ClockStep
  BY <1>6 DEF ClockStep, Atomic!Next, Atomic!Tick, AnswerBar, TypeOK
<1>7. CASE UNCHANGED vars
  BY <1>7 DEF vars, AnswerBar, Atomic!vars
<1>. QED
  BY <1>1, <1>2, <1>3, <1>4, <1>5, <1>6, <1>7 DEF Next, Atomic!vars

(* ImplementsAtomic: on the native build, for every number of threads and *)
(* every clock bound, the lock-free AtomicOptTimestamp behaves as the       *)
(* atomic timestamp its doc comments describe, whatever the interleaving   *)
(* of the clock reads and the atomic instructions.                         *)
THEOREM Refinement ==
    ASSUME MonotonicClock PROVE Spec => ImplementsAtomic
<1>1. Init => ReadNotAhead
  BY InitReadNotAhead
<1>2. TypeOK /\ ReadNotAhead /\ [Next]_vars => ReadNotAhead'
  BY StepReadNotAhead
<1>3. TypeOK /\ ReadNotAhead /\ [Next]_vars => [Atomic!Next]_Atomic!vars
  BY StepRefines
<1>. QED
  BY <1>1, <1>2, <1>3, InitRefines, TypeCorrect, PTL DEF Spec, ImplementsAtomic, Atomic!Spec
=============================================================================
