------------------------ MODULE MC_ConsensusManager ------------------------
(* Model-checking instance of ConsensusManager: two tasks, two sources, a  *)
(* fresh window of one tick and a valid window of two, so that a cache     *)
(* goes fresh -> stale -> invalid within the clock bound.                  *)
EXTENDS ConsensusManager

CONSTANTS c1, c2

(* Two tasks for the safety runs: their fetches and stores interleave.     *)
MCCallers == {c1, c2}

(* One task for the liveness run: a task's loop holds no lock across an   *)
(* await, so whether it returns does not depend on the other tasks.        *)
MCCaller == {c1}
=============================================================================
