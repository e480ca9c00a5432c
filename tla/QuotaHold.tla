----------------------------- MODULE QuotaHold -----------------------------
(***************************************************************************)
(* What pre-consume / settle / refund billing promises about the money of  *)
(* one account.  A request first holds some quota, may change its hold     *)
(* while it is being served, and then has exactly one outcome: its real    *)
(* cost is charged, its hold is released, or (a write that failed and was  *)
(* only logged) its hold is kept as it stands.  A request that was turned  *)
(* away never moves money, and no money moves after the outcome.           *)
(***************************************************************************)
EXTENDS Integers

CONSTANT Requests

VARIABLES phase,  \* where each request is in the life of its hold
          taken   \* the quota each request has taken from the account

vars == <<phase, taken>>

Phases == {"idle", "held", "charged", "released", "kept"}

Outcomes == {"charged", "released", "kept"}

Init == /\ phase = [r \in Requests |-> "idle"]
        /\ taken = [r \in Requests |-> 0]

(* Only r's share of the account changes, to a value in S. *)
MovesTo(r, S) == /\ taken'[r] \in S
                 /\ taken' = [taken EXCEPT ![r] = taken'[r]]

(* The request is admitted and its estimate is taken. *)
Hold(r) == /\ phase[r] = "idle"
           /\ MovesTo(r, Nat)
           /\ phase' = [phase EXCEPT ![r] = "held"]

(* The hold grows or shrinks while the request is served. *)
Adjust(r) == /\ phase[r] = "held"
             /\ MovesTo(r, Nat)
             /\ UNCHANGED phase

(* The real cost, whatever it is, replaces the hold. *)
Charge(r) == /\ phase[r] = "held"
             /\ MovesTo(r, Nat)
             /\ phase' = [phase EXCEPT ![r] = "charged"]

(* The whole hold goes back. *)
Release(r) == /\ phase[r] = "held"
              /\ MovesTo(r, {0})
              /\ phase' = [phase EXCEPT ![r] = "released"]

(* A write failed: the hold, or the part of it that could not be given *)
(* back, stays taken.                                                    *)
Keep(r) == /\ phase[r] = "held"
           /\ MovesTo(r, 0 .. taken[r])
           /\ phase' = [phase EXCEPT ![r] = "kept"]

Next == \E r \in Requests :
          Hold(r) \/ Adjust(r) \/ Charge(r) \/ Release(r) \/ Keep(r)

Spec == Init /\ [][Next]_vars
=============================================================================
