------------------------------ MODULE MCChannel ------------------------------
(* Instances of Channel for TLC. *)
EXTENDS Channel

(* One method of each kind: nothing left behind, lasting mode, state that  *)
(* another method takes back.                                              *)
DocumentedOps == {"Publish", "Confirm", "Consume", "Cancel"}
GetOps        == {"Publish", "Get", "Ack"}

=============================================================================
