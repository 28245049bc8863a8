--------------------------- MODULE MCBillingState ----------------------------
(***************************************************************************)
(* An instance of BillingState for TLC.                                    *)
(***************************************************************************)
EXTENDS BillingState
=============================================================================
