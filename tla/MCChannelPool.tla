---------------------------- MODULE MCChannelPool ----------------------------
(* Instances of ChannelPool for TLC. *)
EXTENDS ChannelPool, TLC

(* Goroutines (all with the same kind of context) and channel objects are  *)
(* interchangeable; used by the safety run only.                           *)
Symmetric == Permutations(G) \cup Permutations(Chan)

AllUpsets   == Upset
NoUpsets    == {}
OnlyDiscard == {"discard"}
=============================================================================
