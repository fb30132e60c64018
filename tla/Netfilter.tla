------------------------------ MODULE Netfilter ------------------------------
(***************************************************************************)
(* The init container that installs the redirect (netfilter.rs): it        *)
(* appends its rules to the nat OUTPUT chain one by one, may stop after    *)
(* any of them, and is then run again from the first rule by the kubelet   *)
(* (restartPolicy: Always) on the chain it left behind.                    *)
(***************************************************************************)
EXTENDS Integers, Sequences, FiniteSets

CONSTANTS
    SidecarUid,    \* --sidecar-uid
    WorkspaceUids, \* users of the other containers of the pod
    ProxyPort,     \* --proxy-port
    MaxRuns        \* bound on the times the init container is started

ASSUME NetfilterAssumption ==
    SidecarUid \notin WorkspaceUids /\ ProxyPort \in Nat \ {80, 443} /\ MaxRuns \in Nat \ {0}

VARIABLES
    chain,  \* the nat OUTPUT chain of the pod's network namespace
    setup   \* the init container: [runs, next], the rule it applies next

netfilterVars == <<chain, setup>>

Uids  == WorkspaceUids \cup {SidecarUid}
Ports == {80, 443, ProxyPort}

(* Mutant: the bypass of the sidecar comes after a redirect. *)
BuildRulesLate ==
    << [out |-> {"lo"},         uid |-> Uids,         dport |-> Ports, target |-> "RETURN"],
       [out |-> {"lo", "eth0"}, uid |-> Uids,         dport |-> {80},  target |-> "REDIRECT"],
       [out |-> {"lo", "eth0"}, uid |-> {SidecarUid}, dport |-> Ports, target |-> "RETURN"],
       [out |-> {"lo", "eth0"}, uid |-> Uids,         dport |-> {443}, target |-> "REDIRECT"] >>

(* build_rules, in the order in which they are applied: what each one matches *)
BuildRules ==
    << [out |-> {"lo"},         uid |-> Uids,         dport |-> Ports, target |-> "RETURN"],
       [out |-> {"lo", "eth0"}, uid |-> {SidecarUid}, dport |-> Ports, target |-> "RETURN"],
       [out |-> {"lo", "eth0"}, uid |-> Uids,         dport |-> {80},  target |-> "REDIRECT"],
       [out |-> {"lo", "eth0"}, uid |-> Uids,         dport |-> {443}, target |-> "REDIRECT"] >>

(* A tcp connection as the chain sees it: the interface it leaves by, its owner, its port. *)
Packets == [out : {"lo", "eth0"}, uid : Uids, dport : Ports]

Matches(rule, pkt) == pkt.out \in rule.out /\ pkt.uid \in rule.uid /\ pkt.dport \in rule.dport

(* The first rule that matches decides; at the end of the chain the packet goes its way. *)
Redirected(pkt) ==
    \E i \in DOMAIN chain :
        /\ Matches(chain[i], pkt) /\ chain[i].target = "REDIRECT"
        /\ \A j \in 1..i - 1 : ~Matches(chain[j], pkt)

NetfilterInit == chain = <<>> /\ setup = [runs |-> 1, next |-> 1]

Installed == setup.next > Len(BuildRules)

(* run and run_iptables: the next rule is in *)
Append1 ==
    /\ ~Installed
    /\ chain' = Append(chain, BuildRules[setup.next])
    /\ setup' = [setup EXCEPT !.next = @ + 1]

(* iptables cannot be run, exits with an error, or the container dies, before the rule is in
   or right after: the next run starts over. *)
SetupFails ==
    /\ ~Installed /\ setup.runs < MaxRuns
    /\ setup' = [runs |-> setup.runs + 1, next |-> 1]
    /\ chain' \in {chain, Append(chain, BuildRules[setup.next])}

NetfilterNext == Append1 \/ SetupFails

-----------------------------------------------------------------------------
(* The sidecar's own connections are never sent back to it, at any point of the
   installation, after any number of interrupted ones (netfilter.rs: "the two RETURN
   bypasses must precede the REDIRECT rules or the sidecar's own egress loops back into
   itself"), and nothing inside the pod is redirected. *)
NoLoop == \A pkt \in Packets : pkt.uid = SidecarUid \/ pkt.out = "lo" => ~Redirected(pkt)
=============================================================================
