----------------------------- MODULE EgressPath -----------------------------
(***************************************************************************)
(* The way out of a session's pod: the init container's redirect           *)
(* (Netfilter), the start of the sidecar (main.rs, proxy/mod.rs), and the  *)
(* connections the workspace opens through it (ProxyConn).                 *)
(***************************************************************************)
EXTENDS Netfilter, ProxyConn

VARIABLE sidecar  \* how far the proxy has started: "down", "policy", "ca", "control", "listening"

vars == <<netfilterVars, connVars, sidecar>>

Init == NetfilterInit /\ ConnInit /\ sidecar = "down"

SetUp == NetfilterNext /\ UNCHANGED <<connVars, sidecar>>

Stages == <<"down", "policy", "ca", "control", "listening">>

(* run_async: the policy is read, the CA loaded, the control port bound, then the proxy's *)
Start ==
    /\ Installed
    /\ \E i \in 1..Len(Stages) - 1 : sidecar = Stages[i] /\ sidecar' = Stages[i + 1]
    /\ UNCHANGED <<netfilterVars, connVars>>

(* Any of these fails: main returns a failure, and the container is started again. *)
StartFails ==
    /\ sidecar \notin {"down", "listening"} /\ sidecar' = "down"
    /\ UNCHANGED <<netfilterVars, connVars>>

(* The container is killed: the connections and the certificates go with the process, the
   redirect stays. *)
Killed ==
    /\ sidecar = "listening" /\ sidecar' = "down"
    /\ conn' = [c \in Conns |-> IF At(c, "none") \/ Ended(c) THEN conn[c] ELSE [conn[c] EXCEPT !.st = "lost"]]
    /\ flow' = [c \in Conns |-> IF At(c, "none") \/ Ended(c) THEN flow[c] ELSE [d \in Dirs |-> NewFlow]]
    /\ stream' = [c \in Conns |-> [s \in Streams |-> IF s \in Live(c) THEN "dropped" ELSE stream[c][s]]]
    /\ sender' = [c \in Conns |-> Nil] /\ driver' = [c \in Conns |-> FALSE]
    /\ leaf' = [h \in Names |-> NoConfig]
    /\ lookup' = [c \in Conns |-> [st |-> "idle", host |-> NoConfig, cfg |-> NoConfig]]
    /\ UNCHANGED <<netfilterVars, trail, strail, outside>>

(* The workspace opens a connection, which the chain redirects or not; with nobody
   listening it is refused and as if it had not been. *)
Dial(c, port) ==
    /\ Installed /\ At(c, "none")
    /\ \E uid \in WorkspaceUids :
          IF Redirected([out |-> "eth0", uid |-> uid, dport |-> port])
          THEN /\ sidecar = "listening"
               /\ conn' = [conn EXCEPT ![c].st = "accepted", ![c].port = port]
               /\ UNCHANGED outside
          ELSE /\ conn' = [conn EXCEPT ![c].st = "direct", ![c].port = port]
               /\ outside' = outside \cup {c}
    /\ UNCHANGED <<netfilterVars, flow, h2Vars, trail, leafVars, sidecar>>

(* What the peers do, and what the proxy does. *)
Peers(c) ==
    \/ \E d \in Dirs : Writes(c, d) \/ PeerEnds(c, d)
    \/ \E s \in Streams : OpenStream(c, s) \/ AnswerStream(c, s) \/ ResetStream(c, s)
    \/ DriverEnds(c) \/ ServeEnds(c)

Handler(c) ==
    \/ Unreadable(c) \/ Identify(c) \/ Judge(c)
    \/ Configure(c) \/ ConfigureFails(c) \/ Handshake(c) \/ HandshakeFails(c)
    \/ Dialled(c) \/ DialFails(c) \/ UpstreamTls(c) \/ UpstreamTlsFails(c)
    \/ ReadHead(c) \/ ReadHeadEof(c) \/ ReadHeadFails(c) \/ ForwardHead(c) \/ ForwardHeadFails(c)
    \/ \E d \in Dirs : Splice(c, d) \/ SpliceEnds(c, d)
    \/ SpliceJoined(c)
    \/ StartH2(c) \/ StartH2Fails(c)
    \/ \E s \in Streams : SendStream(c, s) \/ SendFails(c, s)

Next ==
    \/ SetUp \/ Start \/ StartFails \/ Killed
    \/ \E c \in Conns, port \in {80, 443} : Dial(c, port)
    \/ \E c \in Conns : (Peers(c) \/ Handler(c)) /\ UNCHANGED <<netfilterVars, sidecar>>

Spec == Init /\ [][Next]_vars

(* The runtime polls a handler that can go on, and the kernel takes what is written to a peer
   that is there; a peer need not write, answer or end, nor the sidecar live. *)
Fairness == \A c \in Conns : WF_vars(Handler(c) /\ UNCHANGED <<netfilterVars, sidecar>>)
FairSpec == Spec /\ Fairness

-----------------------------------------------------------------------------
Life == INSTANCE RequestLife WITH Requests <- Conns

(* Whatever the workspace opens on 80 or 443, after any interrupted installation, is opened,
   judged and ended in the audit in that order, and reaches its destination only after it
   was allowed (conn.rs handle, netfilter.rs). *)
ImplementsRequestLife == Life!Spec

(* A request that is closed with neither peer having broken off has carried everything both
   peers wrote, in both directions: the head that was read apart, and what came after one
   side had already ended (conn.rs https_h1, http_forward, splice_pairs). *)
NothingDropped ==
    \A c \in Conns :
        At(c, "closed") /\ conn[c].alpn # "h2" /\ (\A d \in Dirs : flow[c][d].end # "reset")
            => \A d \in Dirs : flow[c][d].end = "eof" /\ flow[c][d].delivered = flow[c][d].wrote

(* The end of one peer reaches the other although the connection stays open in the other
   direction, and when both have ended the request is reported over. *)
EndsReachPeers ==
    \A c \in Conns :
        /\ \A d \in Dirs : At(c, "splice") /\ flow[c][d].end # "open" ~> flow[c][d].shut \/ At(c, "lost")
        /\ At(c, "splice") /\ (\A d \in Dirs : flow[c][d].end # "open") ~> Ended(c)

(* When the upstream's HTTP/2 connection is gone every stream is answered, each waiting for
   the sender in turn: no stream that was dropped keeps it (h2.rs proxy_stream). *)
StreamsAnswered ==
    \A c \in Conns : \A s \in Streams :
        At(c, "streams") /\ ~driver[c] /\ s \in Live(c) ~> s \notin Live(c)
=============================================================================
