---------------------------- MODULE EgressPolicy ----------------------------
(***************************************************************************)
(* The network policy both ends of the control channel hold: the rule walk *)
(* of the sidecar (proxy/policy.rs) and the decide rule with its           *)
(* per-session cache on the BEAM (network_policy/decider.ex).  A rule's    *)
(* hosts are the set its globs match (HostGlob is about the globs).        *)
(***************************************************************************)
EXTENDS Integers, Sequences, FiniteSetsExt

CONSTANTS
    Hosts,
    Rules,      \* the ordered rules: [type : {"allow", "deny", "decide"}, hosts : SUBSET Hosts]
    Default,    \* what happens to a host no rule is about: "allow", "deny"
    Caching     \* the decide rule's :cache

ASSUME PolicyAssumption ==
    /\ Rules \in Seq([type : {"allow", "deny", "decide"}, hosts : SUBSET Hosts])
    /\ Default \in {"allow", "deny"}
    /\ Caching \in BOOLEAN

(* Policy::evaluate: the first rule that is about the host; decide is about all. *)
Evaluate(host) ==
    LET about == {i \in DOMAIN Rules : Rules[i].type = "decide" \/ host \in Rules[i].hosts}
    IN  IF about = {} THEN Default ELSE Rules[Min(about)].type

(* Mutant: answers are asked for again although they are cached. *)
DecideUncached(cache, host, said) == [decision |-> said, cache |-> cache]

(* dispatch/5 of Decider.decide: the cached answer, or what the decider says, which
   is then cached, a failure of the decider too *)
Decide(cache, host, said) ==
    IF Caching /\ host \in DOMAIN cache
    THEN [decision |-> cache[host], cache |-> cache]
    ELSE [decision |-> said,
          cache |-> IF Caching THEN [h \in DOMAIN cache \cup {host} |->
                                        IF h = host THEN said ELSE cache[h]]
                    ELSE cache]
=============================================================================
