---------------------------- MODULE MCEgressPath ----------------------------
(* A small instance of EgressPath: one denied host, the decide rule for the rest.  A behaviour
   has one scope: an interrupted installation and a connection, two connections that are set
   up at once, a connection that carries data, or the globs of the policy.  Connections share
   nothing but the certificates, so that nothing is lost by taking one of these at a time. *)
EXTENDS EgressPath, HostGlob

CONSTANTS c1, c2, s1, s2

VARIABLE scope  \* [runs : starts of the init container, used : connections opened, piped : those that carry data]

Globs == [runs |-> 0, used |-> {}, piped |-> {}]

DenyThenDecide == <<[type |-> "deny", hosts |-> {"bad"}], [type |-> "decide", hosts |-> {}]>>

Scopes == { [runs |-> MaxRuns, used |-> {c1},     piped |-> {}],
            [runs |-> 1,       used |-> {c1, c2}, piped |-> {}],
            [runs |-> 1,       used |-> {c1},     piped |-> {c1}] }

MCInit ==
    /\ Init
    /\ \/ scope \in Scopes /\ pattern = <<>> /\ host = FirstHost
       \/ scope = Globs /\ GlobInit

MCNext ==
    /\ Next /\ scope # Globs
    /\ setup'.runs <= scope.runs
    /\ \A c \in Conns \ scope.used : conn'[c] = conn[c]
    /\ \A c \in Conns \ scope.piped : flow'[c] = flow[c] /\ stream'[c] = stream[c]
    /\ UNCHANGED <<scope, pattern, host>>

GlobNext == scope = Globs /\ Ask /\ UNCHANGED <<vars, scope>>

MCSpec == MCInit /\ [][MCNext \/ GlobNext]_<<vars, scope, pattern, host>> /\ Fairness
=============================================================================
