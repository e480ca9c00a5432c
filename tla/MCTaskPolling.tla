--------------------------- MODULE MCTaskPolling ---------------------------
(* Small instances of TaskPolling for TLC: in one of them task 2 was        *)
(* submitted a second before the legacy cutoff, and task 1, though inserted *)
(* before it, at the cutoff.                                                *)
EXTENDS TaskPolling, TLC

Recent == [t \in Tasks |-> 1800000000]

OneLegacy == [t \in Tasks |-> IF t = 2 THEN 1740182399 ELSE 1740182400]

(* The processes are alike; used where only invariants are checked. *)
Processes == Permutations(Nodes)
=============================================================================
