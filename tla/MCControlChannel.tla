-------------------------- MODULE MCControlChannel --------------------------
(* Small instances of ControlChannel: a denied host, then the decide rule for the rest. *)
EXTENDS ControlChannel

DenyThenDecide == <<[type |-> "deny", hosts |-> {"bad"}], [type |-> "decide", hosts |-> {}]>>

DecideAll == <<[type |-> "decide", hosts |-> {}]>>

RequestSymmetry == Permutations(Requests)
=============================================================================
