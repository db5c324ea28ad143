----------------------------- MODULE MCReconnect -----------------------------
(* Instances of Reconnect for TLC. *)
EXTENDS Reconnect

Policy(e, i, m, n, d, a) ==
    [Enabled |-> e, Initial |-> i, Max |-> m, Num |-> n, Den |-> d, MaxAttempts |-> a]

Default == Policy(TRUE, 1, 30, 2, 1, 0)

(* Constant delays above Max. *)
Constant == Policy(TRUE, 4, 3, 0, 1, 2)

(* Like DefaultReconnectPolicy, in seconds; a limited one; constant        *)
(* delays; delays that shrink by a third; a negative multiplier; one that  *)
(* is off.                                                                 *)
SomePolicies == {Default, Policy(TRUE, 2, 5, 3, 2, 3), Constant,
                 Policy(TRUE, 9, 5, 2, 3, 0), Policy(TRUE, 3, 20, -2, 1, 0),
                 Policy(FALSE, 1, 30, 2, 1, 0)}

DefaultOnly == {Default}
=============================================================================
