----------------------------- MODULE RequestLife -----------------------------
(***************************************************************************)
(* What the egress proxy promises about each connection of the workspace:  *)
(* it is audited from its opening to its end, judged once, and contacts    *)
(* somebody outside only after it was allowed and while it is not over.    *)
(***************************************************************************)
EXTENDS Sequences

CONSTANT Requests

VARIABLES
    trail,   \* the events about each request, in order
    outside  \* the requests that have contacted their destination

lifeVars == <<trail, outside>>

Init == trail = [r \in Requests |-> <<>>] /\ outside = {}

Emits(r, kind) == trail' = [trail EXCEPT ![r] = Append(@, kind)]

Open(r) == trail[r] = <<>> /\ Emits(r, "opened") /\ UNCHANGED outside

Judge(r) ==
    /\ trail[r] = <<"opened">>
    /\ Emits(r, "allowed") \/ Emits(r, "denied")
    /\ UNCHANGED outside

Contact(r) == trail[r] = <<"opened", "allowed">> /\ outside' = outside \cup {r} /\ UNCHANGED trail

End(r) ==
    /\ trail[r] = <<"opened", "allowed">>
    /\ Emits(r, "closed") \/ Emits(r, "failed")
    /\ UNCHANGED outside

Next == \E r \in Requests : Open(r) \/ Judge(r) \/ Contact(r) \/ End(r)

Spec == Init /\ [][Next]_lifeVars
=============================================================================
