---------------------------- MODULE MCRunDelivery ----------------------------
(* Small instances of RunDelivery for TLC. *)
EXTENDS RunDelivery
=============================================================================
