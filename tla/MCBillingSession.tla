-------------------------- MODULE MCBillingSession --------------------------
(* Small instances of BillingSession for TLC. *)
EXTENDS BillingSession
=============================================================================
