----------------------------- MODULE MCTaskLoop -----------------------------
(* Model values for TaskLoop: two host addresses and two byte counts.     *)
EXTENDS TaskLoop
CONSTANTS a1, a2
MCAddrs == {a1, a2}
MCCounts == {1, 2}
=============================================================================
