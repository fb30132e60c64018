------------------------------ MODULE ProxyConn ------------------------------
(***************************************************************************)
(* The data path of the egress proxy: conn::handle with its peers, from    *)
(* the bytes it peeks at to the end of both directions (proxy/conn.rs,     *)
(* http1.rs, sni.rs), and the streams of an HTTP/2 connection (h2.rs).     *)
(* Bytes are counted in chunks: what one read returns.  How a decide rule  *)
(* comes to its answer is ControlChannel's subject; here it is either.     *)
(***************************************************************************)
EXTENDS LeafCache, EgressPolicy

CONSTANTS
    Streams,    \* HTTP/2 streams a connection may open
    MaxChunks,  \* bound on what each peer writes
    Nil

ASSUME ConnAssumption == Names = Hosts /\ {"ip", "cut"} \subseteq Hosts /\ Nil \notin Streams /\ MaxChunks \in Nat

VARIABLES
    conn,    \* the handlers: [st, port, host, alpn]
    flow,    \* the two directions of a connection: out, from the workspace, and in
    stream,  \* proxy_stream of each HTTP/2 stream
    sender,  \* the mutex around the upstream's SendRequest: the stream that holds it
    driver,  \* whether the upstream's HTTP/2 driver still runs
    outside, \* the connections that have contacted their destination
    trail,   \* the events emitted about a connection itself
    strail   \* the events emitted about its streams

h2Vars   == <<stream, sender, driver, strail>>
connVars == <<conn, flow, h2Vars, trail, leafVars, outside>>

Dirs     == {"out", "in"}
Other(d) == IF d = "out" THEN "in" ELSE "out"

(* One direction: what its source wrote and how it ended, what the proxy read of it and
   delivered, and whether the proxy has shut the write half to the other peer. *)
NewFlow == [wrote |-> 0, end |-> "open", read |-> 0, delivered |-> 0, shut |-> FALSE]

ConnInit ==
    /\ conn = [c \in Conns |-> [st |-> "none", port |-> 0, host |-> Nil, alpn |-> Nil]]
    /\ flow = [c \in Conns |-> [d \in Dirs |-> NewFlow]]
    /\ stream = [c \in Conns |-> [s \in Streams |-> "none"]]
    /\ sender = [c \in Conns |-> Nil] /\ driver = [c \in Conns |-> FALSE]
    /\ trail = [c \in Conns |-> <<>>]
    /\ strail = [c \in Conns |-> [s \in Streams |-> <<>>]]
    /\ outside = {}
    /\ LeafInit

At(c, st)      == conn[c].st = st
Goto(c, st)    == conn' = [conn EXCEPT ![c].st = st]
Emit(c, kind)  == trail' = [trail EXCEPT ![c] = Append(@, kind)]
Ended(c)       == conn[c].st \in {"lost", "denied", "closed", "failed"}

(* The handler returns Ok or an error: the last event, and both sockets are dropped. *)
Finish(c, kind) == Goto(c, kind) /\ Emit(c, kind)

(* The error paths of the handler: whatever it was at fails, the request with it. *)
Fails(c) == Finish(c, "failed") /\ UNCHANGED <<flow, h2Vars, leafVars, outside>>

-----------------------------------------------------------------------------
(* SO_ORIGINAL_DST or the peek fails: nobody hears of the connection. *)
Unreadable(c) == At(c, "accepted") /\ Goto(c, "lost") /\ UNCHANGED <<flow, h2Vars, trail, leafVars, outside>>

(* What is peeked of the first flight of a client that speaks tls, http or neither to a
   host: all of the name, none of it, or its beginning. *)
Peeks == [speaks : {"tls", "http", "other"}, name : Hosts \ {"ip", "cut"}, part : {"whole", "none", "cut"}]

(* sni::extract and parse_http_host: a ClientHello that is not complete does not parse, a
   Host line that is cut is taken as it is *)
SniOf(peek)      == IF peek.speaks = "tls" /\ peek.part = "whole" THEN peek.name ELSE "ip"
HttpHostOf(peek) ==
    IF peek.speaks # "http" THEN "ip"
    ELSE CASE peek.part = "whole" -> peek.name [] peek.part = "none" -> "ip" [] peek.part = "cut" -> "cut"

LooksLikeTls(peek) == peek.speaks = "tls"

(* identify_host *)
IdentifyHost(peek, port) ==
    IF port = 443 \/ LooksLikeTls(peek) THEN SniOf(peek) ELSE HttpHostOf(peek)

(* original_dst: where the connection was going when it was redirected *)
OriginalDst(c) == conn[c].port

Identify(c) ==
    /\ At(c, "accepted")
    /\ \E host \in {IdentifyHost(peek, OriginalDst(c)) : peek \in Peeks} :
          conn' = [conn EXCEPT ![c].st = "opened", ![c].host = host]
    /\ Emit(c, "opened")
    /\ UNCHANGED <<flow, h2Vars, leafVars, outside>>

(* Mutant: a denied connection is only reported. *)
JudgeReports(c) ==
    /\ At(c, "opened")
    /\ Goto(c, IF OriginalDst(c) = 443 THEN "config" ELSE "dial")
    /\ \E verdict \in IF Evaluate(conn[c].host) = "decide" THEN {"allow", "deny"}
                      ELSE {Evaluate(conn[c].host)} :
          Emit(c, IF verdict = "allow" THEN "allowed" ELSE "denied")
    /\ UNCHANGED <<flow, h2Vars, leafVars, outside>>

(* Policy::evaluate and, for a decide rule, what request_decision came to *)
Judge(c) ==
    /\ At(c, "opened")
    /\ \E verdict \in IF Evaluate(conn[c].host) = "decide" THEN {"allow", "deny"}
                      ELSE {Evaluate(conn[c].host)} :
          IF verdict = "deny" THEN Finish(c, "denied")
          ELSE Goto(c, IF OriginalDst(c) = 443 THEN "config" ELSE "dial") /\ Emit(c, "allowed")
    /\ UNCHANGED <<flow, h2Vars, leafVars, outside>>

(* https_mitm: the leaf of the host first *)
Configure(c) ==
    /\ At(c, "config")
    /\ Lookup(c, conn[c].host) \/ LeafStep(c)
    /\ UNCHANGED <<conn, flow, h2Vars, trail, outside>>

ConfigureFails(c) == At(c, "config") /\ lookup[c].st = "failed" /\ Fails(c)

(* TlsAcceptor::accept: the workspace takes the leaf, and what it wants to speak *)
Handshake(c) ==
    /\ At(c, "config") /\ lookup[c].st = "served"
    /\ \E alpn \in {"h2", "h1"} : conn' = [conn EXCEPT ![c].st = "dial", ![c].alpn = alpn]
    /\ UNCHANGED <<flow, h2Vars, trail, leafVars, outside>>

(* tls_client_rejected_ca *)
HandshakeFails(c) == At(c, "config") /\ lookup[c].st = "served" /\ Fails(c)

(* ServerName, TcpStream::connect *)
Dialled(c) ==
    /\ At(c, "dial")
    /\ Goto(c, IF OriginalDst(c) = 443 THEN "upstream" ELSE "head")
    /\ outside' = outside \cup {c}
    /\ UNCHANGED <<flow, h2Vars, trail, leafVars>>

DialFails(c) == At(c, "dial") /\ Fails(c)

(* TlsConnector::connect: HTTP/2 only when both ends speak it, a byte splice otherwise *)
UpstreamTls(c) ==
    /\ At(c, "upstream")
    /\ \E alpn \in {"h2", "h1"} :
          IF alpn = "h2" /\ conn[c].alpn = "h2" THEN Goto(c, "h2")
          ELSE conn' = [conn EXCEPT ![c].st = "head", ![c].alpn = "h1"]
    /\ UNCHANGED <<flow, h2Vars, trail, leafVars, outside>>

UpstreamTlsFails(c) == At(c, "upstream") /\ Fails(c)

-----------------------------------------------------------------------------
(* HTTP/1: the head is read and forwarded, the rest is spliced. *)
Piped(c) == conn[c].st \in {"head", "parsed", "splice"}
Flow(c, d, f) == flow' = [flow EXCEPT ![c][d] = f]

(* The peers: the workspace writes out, its destination in. *)
Writes(c, d) ==
    /\ Piped(c) /\ flow[c][d].end = "open" /\ flow[c][d].wrote < MaxChunks
    /\ Flow(c, d, [flow[c][d] EXCEPT !.wrote = @ + 1])
    /\ UNCHANGED <<conn, h2Vars, trail, leafVars, outside>>

(* A peer ends its side, or is gone altogether: then what was not read yet is lost. *)
PeerEnds(c, d) ==
    /\ Piped(c)
    /\ \E end \in CASE flow[c][d].end = "open" -> {"eof", "reset"} [] flow[c][d].end = "eof" -> {"reset"} [] OTHER -> {} :
          Flow(c, d, [flow[c][d] EXCEPT !.end = end])
    /\ UNCHANGED <<conn, h2Vars, trail, leafVars, outside>>

Unread(f) == f.read < f.wrote /\ f.end # "reset"

(* http1::parse of what was read so far: it has a head or rejects it, or wants more *)
ParseLeadsTo == {"parsed", "head"}

(* The head loop *)
ReadHead(c) ==
    /\ At(c, "head") /\ Unread(flow[c]["out"])
    /\ Flow(c, "out", [flow[c]["out"] EXCEPT !.read = @ + 1])
    /\ \E st \in ParseLeadsTo : Goto(c, st)
    /\ UNCHANGED <<h2Vars, trail, leafVars, outside>>

ReadHeadEof(c) ==
    /\ At(c, "head") /\ flow[c]["out"].end = "eof" /\ ~Unread(flow[c]["out"])
    /\ Goto(c, "parsed") /\ UNCHANGED <<flow, h2Vars, trail, leafVars, outside>>

ReadHeadFails(c) == At(c, "head") /\ flow[c]["out"].end = "reset" /\ Fails(c)

(* Mutant: the head that was read is captured and not forwarded. *)
ForwardHeadDrops(c) ==
    /\ At(c, "parsed")
    /\ Goto(c, "splice")
    /\ UNCHANGED <<flow, h2Vars, trail, leafVars, outside>>

(* uw.write_all(head_buf) *)
ForwardHead(c) ==
    /\ At(c, "parsed")
    /\ Goto(c, "splice")
    /\ Flow(c, "out", [flow[c]["out"] EXCEPT
            !.delivered = IF flow[c]["in"].end = "reset" THEN @ ELSE flow[c]["out"].read])
    /\ UNCHANGED <<h2Vars, trail, leafVars, outside>>

ForwardHeadFails(c) == At(c, "parsed") /\ flow[c]["in"].end = "reset" /\ Fails(c)

(* One direction of splice_pairs: a chunk is read and written.  A write to a peer that is
   gone is lost; it ends the direction, or the kernel has not noticed yet. *)
Splice(c, d) ==
    /\ At(c, "splice") /\ ~flow[c][d].shut /\ Unread(flow[c][d])
    /\ LET f == [flow[c][d] EXCEPT !.read = @ + 1]
       IN  IF flow[c][Other(d)].end = "reset"
           THEN \E fails \in BOOLEAN : Flow(c, d, [f EXCEPT !.shut = fails])
           ELSE Flow(c, d, [f EXCEPT !.delivered = @ + 1])
    /\ UNCHANGED <<conn, h2Vars, trail, leafVars, outside>>

(* Mutant: the write halves are shut down together, when both directions have ended. *)
SpliceEndsLate(c, d) ==
    /\ At(c, "splice") /\ ~flow[c][d].shut
    /\ \A e \in Dirs : flow[c][e].end # "open" /\ ~Unread(flow[c][e])
    /\ Flow(c, d, [flow[c][d] EXCEPT !.shut = TRUE])
    /\ UNCHANGED <<conn, h2Vars, trail, leafVars, outside>>

(* It ends with its source: the write half of the other peer is shut down. *)
SpliceEnds(c, d) ==
    /\ At(c, "splice") /\ ~flow[c][d].shut
    /\ flow[c][d].end # "open" /\ ~Unread(flow[c][d])
    /\ Flow(c, d, [flow[c][d] EXCEPT !.shut = TRUE])
    /\ UNCHANGED <<conn, h2Vars, trail, leafVars, outside>>

(* tokio::join!: the request is over when both directions are *)
SpliceJoined(c) ==
    /\ At(c, "splice") /\ \A d \in Dirs : flow[c][d].shut
    /\ Finish(c, "closed")
    /\ UNCHANGED <<flow, h2Vars, leafVars, outside>>

-----------------------------------------------------------------------------
(* HTTP/2: a thread of its own drives the connection; every stream is a task on it. *)
Live(c)            == {s \in Streams : stream[c][s] \in {"waiting", "sent"}}
EmitStream(c, s, kind) == strail' = [strail EXCEPT ![c][s] = Append(@, kind)]

(* h2::handle and drive: the thread, its runtime, the upstream's handshake *)
StartH2(c) ==
    /\ At(c, "h2")
    /\ Goto(c, "streams") /\ driver' = [driver EXCEPT ![c] = TRUE]
    /\ UNCHANGED <<flow, stream, sender, trail, strail, leafVars, outside>>

StartH2Fails(c) == At(c, "h2") /\ Fails(c)

(* proxy_stream, up to the lock *)
OpenStream(c, s) ==
    /\ At(c, "streams") /\ stream[c][s] = "none"
    /\ stream' = [stream EXCEPT ![c][s] = "waiting"]
    /\ EmitStream(c, s, "opened")
    /\ UNCHANGED <<conn, flow, sender, driver, trail, leafVars, outside>>

(* sender.lock().await, and send_request with the lock held *)
SendStream(c, s) ==
    /\ stream[c][s] = "waiting" /\ sender[c] = Nil
    /\ stream' = [stream EXCEPT ![c][s] = "sent"]
    /\ sender' = [sender EXCEPT ![c] = s]
    /\ UNCHANGED <<conn, flow, driver, trail, strail, leafVars, outside>>

StreamOver(c, s, how) ==
    /\ stream' = [stream EXCEPT ![c][s] = how]
    /\ sender' = [sender EXCEPT ![c] = Nil]
    /\ EmitStream(c, s, "closed")
    /\ UNCHANGED <<conn, flow, driver, trail, leafVars, outside>>

(* The response's head comes, or the upstream resets the stream: the lock is free, and the
   stream is reported closed. *)
AnswerStream(c, s) ==
    stream[c][s] = "sent" /\ driver[c] /\ (StreamOver(c, s, "answered") \/ StreamOver(c, s, "refused"))

(* send_request fails for want of a connection: closed too, with a 502 for the workspace *)
SendFails(c, s) == stream[c][s] = "sent" /\ ~driver[c] /\ StreamOver(c, s, "refused")

(* Mutant: the sender stays with a stream that is gone. *)
ResetStreamKeeps(c, s) ==
    /\ s \in Live(c)
    /\ stream' = [stream EXCEPT ![c][s] = "dropped"]
    /\ UNCHANGED <<conn, flow, sender, driver, trail, strail, leafVars, outside>>

(* The client resets the stream: hyper drops its task where it is, the guard with it. *)
ResetStream(c, s) ==
    /\ s \in Live(c)
    /\ stream' = [stream EXCEPT ![c][s] = "dropped"]
    /\ sender' = [sender EXCEPT ![c] = IF @ = s THEN Nil ELSE @]
    /\ UNCHANGED <<conn, flow, driver, trail, strail, leafVars, outside>>

(* The upstream's driver ends; requests sent from now on fail. *)
DriverEnds(c) ==
    /\ At(c, "streams") /\ driver[c]
    /\ driver' = [driver EXCEPT ![c] = FALSE]
    /\ UNCHANGED <<conn, flow, stream, sender, trail, strail, leafVars, outside>>

(* serve_connection returns: the runtime goes, and the tasks of the open streams with it *)
ServeEnds(c) ==
    /\ At(c, "streams")
    /\ Finish(c, "closed") \/ Finish(c, "failed")
    /\ stream' = [stream EXCEPT ![c] = [s \in Streams |-> IF s \in Live(c) THEN "dropped" ELSE @[s]]]
    /\ sender' = [sender EXCEPT ![c] = Nil] /\ driver' = [driver EXCEPT ![c] = FALSE]
    /\ UNCHANGED <<flow, strail, leafVars, outside>>
=============================================================================
