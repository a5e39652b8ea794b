---------------------------- MODULE MC_Timestamp ----------------------------
(* Model-checking instances of Timestamp: native (two threads, monotonic   *)
(* clock) and wasm32 (one thread, Date::now).                              *)
EXTENDS Timestamp

CONSTANTS t1, t2

MCThreads2 == {t1, t2}
MCThreads1 == {t1}
=============================================================================
