------------------------------- MODULE MCClient ------------------------------
(* Instances of Client for TLC. *)
EXTENDS Client

BothModes == {"single", "pool"}
PoolOnly  == {"pool"}
=============================================================================
