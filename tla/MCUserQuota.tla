----------------------------- MODULE MCUserQuota -----------------------------
(* A charge and a credit of different size, so that no two cancel out. *)
EXTENDS UserQuota

MCDeltas == {-2, 1}
=============================================================================
