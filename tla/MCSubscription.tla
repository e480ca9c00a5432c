--------------------------- MODULE MCSubscription ---------------------------
(* Small instances of Subscription for TLC. *)
EXTENDS Subscription, TLC

(* The first subscription ends with the clock of the model and is too small
   for the requests; the second is reset once and outlives it. *)
EarlyEnd == [s \in Subs |-> s]
Totals == [s \in Subs |-> IF s = 1 THEN 1 ELSE 3]

(* The requests are alike; used where only invariants are checked. *)
Alike == Permutations(Requests)
=============================================================================
