---------------------------- MODULE MCDelivery -----------------------------
(***************************************************************************)
(* Four messages are one more than the pipeline holds.                     *)
(***************************************************************************)
EXTENDS Delivery
=============================================================================
