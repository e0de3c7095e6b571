-------------------------- MODULE MCBillingAccount --------------------------
(* Small instances of BillingAccount. *)
EXTENDS BillingAccount
=============================================================================
