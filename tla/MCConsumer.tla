------------------------------ MODULE MCConsumer -----------------------------
(* Instances of Consumer for TLC. *)
EXTENDS Consumer

AllModes == {"handler", "workers", "timeout", "retry"}
=============================================================================
