--------------------------- MODULE ControlChannel ---------------------------
(***************************************************************************)
(* How an egress request is decided: the sidecar's connection handlers     *)
(* (proxy/conn.rs), its control channel (proxy/control.rs), the            *)
(* port-forwards (port_forward.ex) and the session's control bridge on the *)
(* BEAM (control_bridge.ex).                                               *)
(*                                                                         *)
(* Every dial makes a new link: a TCP connection into the sidecar's        *)
(* control port that the pod's kernel accepts at once and the sidecar's    *)
(* accept loop later, and the port-forward process at its other end.       *)
(* Frames arrive whole: a line cut in two by the reads waits in the        *)
(* bridge's buffer for its end, and is lost with the channel.              *)
(***************************************************************************)
EXTENDS EgressPolicy, SequencesExt, TLC

CONSTANTS
    Requests,       \* connections the workspace opens
    DeciderSays,    \* what the decider may answer: "allow", "deny", "failed"
    BufferCap,      \* BUFFER_CAP
    MaxReconnects,  \* max_reconnects
    MaxLinks,       \* bound on the dials that succeed
    EarlyClose,     \* whether a close frame may come with the upgrade response
    TimeoutsRace,   \* whether a decision's timeout may race its answer
    Nil

ASSUME ChannelAssumption ==
    /\ DeciderSays \subseteq {"allow", "deny", "failed"}
    /\ BufferCap \in Nat \ {0} /\ MaxReconnects \in Nat \ {0} /\ MaxLinks \in Nat
    /\ EarlyClose \in BOOLEAN /\ TimeoutsRace \in BOOLEAN
    /\ Nil \notin Hosts \cup {"allow", "deny"}

Links == 1..MaxLinks

VARIABLES
    conn,     \* the handlers: [st, host, reason]
    pending,  \* ControlChannel.pending: the requests with a oneshot sender
    answer,   \* what was sent into each oneshot
    outq,     \* the mpsc channel of outbound frames
    serving,  \* accept_loop: the peer and which of its two loops run
    backlog,  \* links the kernel accepted and accept_loop did not
    link,     \* [st, up, down]: frames to the BEAM, decisions to the sidecar
    forward,  \* the port-forward process of each link
    bridge,   \* the control bridge
    mail,     \* the bridge's mailbox
    told,     \* the telemetry the bridge emitted for each request
    said,     \* history variable: what the decider answered for each host
    steady    \* history variable: requests that asked over a link that is still the bridge's

sidecarVars == <<conn, pending, answer, outq>>
bridgeVars  == <<bridge, told, said>>
vars == <<conn, pending, answer, outq, serving, backlog, link, forward, bridge, mail, told,
          said, steady>>

NoPeer == [link |-> 0, writing |-> FALSE, reading |-> FALSE]

Init ==
    /\ conn = [r \in Requests |-> [st |-> "new", host |-> Nil, reason |-> Nil]]
    /\ pending = {} /\ answer = [r \in Requests |-> Nil] /\ outq = <<>>
    /\ serving = NoPeer /\ backlog = <<>>
    /\ link = [c \in Links |-> [st |-> "none", up |-> <<>>, down |-> <<>>]]
    /\ forward = [c \in Links |-> "none"]
    /\ bridge = [st |-> "starting", pf |-> 0, timers |-> 0, attempts |-> 0, cache |-> <<>>]
    /\ mail = <<>>
    /\ told = [r \in Requests |-> <<>>]
    /\ said = [h \in Hosts |-> {}]
    /\ steady = {}

-----------------------------------------------------------------------------
(* The handler of one connection: conn::handle. *)
Eof         == [type |-> "eof"]
Down(c)     == [type |-> "down", link |-> c]
Data(frame) == [type |-> "data", frame |-> frame]

Event(r, kind)      == [type |-> kind, id |-> r]
DecisionRequest(r)  == [type |-> "decision_request", id |-> r]

(* emit: try_send, and a full buffer drops the event *)
Emitted(frame) == IF Len(outq) < BufferCap THEN Append(outq, frame) ELSE outq

Open(r, h) ==
    /\ conn[r].st = "new"
    /\ conn' = [conn EXCEPT ![r].st = "opened", ![r].host = h]
    /\ outq' = Emitted(Event(r, "opened"))
    /\ UNCHANGED <<pending, answer, serving, backlog, link, forward, bridgeVars, mail, steady>>

Conclude(r, allowed, reason) ==
    /\ conn' = [conn EXCEPT ![r].st = IF allowed THEN "allowed" ELSE "denied", ![r].reason = reason]
    /\ outq' = Emitted(Event(r, IF allowed THEN "allowed" ELSE "denied"))

(* A rule or the default settles it. *)
Settle(r) ==
    /\ conn[r].st = "opened" /\ Evaluate(conn[r].host) # "decide"
    /\ LET allowed == Evaluate(conn[r].host) = "allow"
       IN  Conclude(r, allowed, IF allowed THEN Nil ELSE "policy")
    /\ UNCHANGED <<pending, answer, serving, backlog, link, forward, bridgeVars, mail, steady>>

(* request_decision: register, then try_send; a full buffer is an answer of None. *)
Ask(r) ==
    /\ conn[r].st = "opened" /\ Evaluate(conn[r].host) = "decide"
    /\ IF Len(outq) < BufferCap
       THEN /\ pending' = pending \cup {r}
            /\ outq' = Append(outq, DecisionRequest(r))
            /\ conn' = [conn EXCEPT ![r].st = "asking"]
            /\ steady' = IF bridge.pf # 0 /\ link[bridge.pf].st = "up" THEN steady \cup {r} ELSE steady
       ELSE Conclude(r, FALSE, "decider_timeout") /\ UNCHANGED <<pending, steady>>
    /\ UNCHANGED <<answer, serving, backlog, link, forward, bridgeVars, mail>>

(* The oneshot resolved. *)
Answered(r) ==
    /\ conn[r].st = "asking" /\ answer[r] # Nil
    /\ Conclude(r, answer[r] = "allow", IF answer[r] = "allow" THEN Nil ELSE "decider")
    /\ UNCHANGED <<pending, answer, serving, backlog, link, forward, bridgeVars, mail, steady>>

(* Where an unanswered question still is: queued, on a link, with the bridge, or its
   decision on the link the sidecar reads or will read next. *)
UnderWay(r) ==
    \/ DecisionRequest(r) \in Range(outq)
    \/ \E c \in Links : \/ \E i \in DOMAIN link[c].up : link[c].up[i] = DecisionRequest(r)
                        \/ \E i \in DOMAIN link[c].down : link[c].down[i].id = r
    \/ \E i \in DOMAIN mail : mail[i] = Data(DecisionRequest(r))

(* tokio::time::timeout elapses and the receiver is dropped. *)
Expire(r) ==
    /\ conn[r].st = "asking" /\ answer[r] = Nil
    /\ TimeoutsRace \/ ~UnderWay(r)
    /\ conn' = [conn EXCEPT ![r].st = "expired"]
    /\ UNCHANGED <<pending, answer, outq, serving, backlog, link, forward, bridgeVars, mail, steady>>

(* Mutant: a timed-out request stays registered. *)
GiveUpLeaks(r) ==
    /\ conn[r].st = "expired"
    /\ Conclude(r, FALSE, "decider_timeout")
    /\ UNCHANGED <<pending, answer, serving, backlog, link, forward, bridgeVars, mail, steady>>

(* Mutant: no decision in time lets the request through. *)
GiveUpOpen(r) ==
    /\ conn[r].st = "expired"
    /\ pending' = pending \ {r}
    /\ Conclude(r, TRUE, Nil)
    /\ UNCHANGED <<answer, serving, backlog, link, forward, bridgeVars, mail, steady>>

(* request_decision then takes the lock and forgets the request. *)
GiveUp(r) ==
    /\ conn[r].st = "expired"
    /\ pending' = pending \ {r}
    /\ Conclude(r, FALSE, "decider_timeout")
    /\ UNCHANGED <<answer, serving, backlog, link, forward, bridgeVars, mail, steady>>

(* The forwarded request is over, cleanly or not. *)
Close(r) ==
    /\ conn[r].st = "allowed"
    /\ \E kind \in {"closed", "failed"} :
          /\ conn' = [conn EXCEPT ![r].st = kind]
          /\ outq' = Emitted(Event(r, kind))
    /\ UNCHANGED <<pending, answer, serving, backlog, link, forward, bridgeVars, mail, steady>>

-----------------------------------------------------------------------------
(* The sidecar's end of the control channel. *)

(* accept_loop: the next peer, only when both loops of the last one have ended *)
Accept ==
    /\ ~serving.writing /\ ~serving.reading /\ backlog # <<>>
    /\ serving' = [link |-> Head(backlog), writing |-> TRUE, reading |-> TRUE]
    /\ backlog' = Tail(backlog)
    /\ UNCHANGED <<sidecarVars, link, forward, bridgeVars, mail, steady>>

(* Mutant: a frame that could not be written is queued again, behind the others. *)
WriteRequeues ==
    /\ serving.writing /\ outq # <<>>
    /\ LET c == serving.link
       IN  \/ /\ link[c].st = "up" /\ outq' = Tail(outq)
              /\ link' = [link EXCEPT ![c].up = Append(@, Head(outq))]
              /\ UNCHANGED serving
           \/ /\ link[c].st = "closed" /\ outq' = Append(Tail(outq), Head(outq))
              /\ serving' = [serving EXCEPT !.writing = FALSE]
              /\ UNCHANGED link
    /\ UNCHANGED <<conn, pending, answer, backlog, forward, bridgeVars, mail, steady>>

(* write_loop: a frame written after the peer has closed is lost, and the kernel says
   so at once or only from the next write on *)
Write ==
    /\ serving.writing /\ outq # <<>>
    /\ outq' = Tail(outq)
    /\ LET c == serving.link
       IN  \/ /\ link[c].st = "up"
              /\ link' = [link EXCEPT ![c].up = Append(@, Head(outq))]
              /\ UNCHANGED serving
           \/ /\ link[c].st = "closed"
              /\ \E fails \in BOOLEAN : serving' = [serving EXCEPT !.writing = ~fails]
              /\ UNCHANGED link
    /\ UNCHANGED <<conn, pending, answer, backlog, forward, bridgeVars, mail, steady>>

(* read_loop and handle_line: a decision for whoever is still registered; one whose
   receiver is gone is sent into nothing *)
Read ==
    /\ serving.reading /\ link[serving.link].down # <<>>
    /\ LET d == Head(link[serving.link].down)
       IN  /\ pending' = pending \ {d.id}
           /\ answer' = IF d.id \in pending /\ conn[d.id].st = "asking"
                        THEN [answer EXCEPT ![d.id] = d.action] ELSE answer
    /\ link' = [link EXCEPT ![serving.link].down = Tail(@)]
    /\ UNCHANGED <<conn, outq, serving, backlog, forward, bridgeVars, mail, steady>>

ReadEnds ==
    /\ serving.reading /\ link[serving.link].st = "closed" /\ link[serving.link].down = <<>>
    /\ serving' = [serving EXCEPT !.reading = FALSE]
    /\ UNCHANGED <<sidecarVars, backlog, link, forward, bridgeVars, mail, steady>>

-----------------------------------------------------------------------------
(* Links and their port-forwards. *)

(* The link breaks; what was on its way is lost from some point on. *)
Broken(l) ==
    {[st |-> "closed", up |-> SubSeq(l.up, 1, i), down |-> SubSeq(l.down, 1, j)] :
        i \in 0..Len(l.up), j \in 0..Len(l.down)}

LinkDrops(c) ==
    /\ link[c].st = "up"
    /\ \E l \in Broken(link[c]) : link' = [link EXCEPT ![c] = l]
    /\ steady' = IF bridge.pf = c THEN {} ELSE steady
    /\ UNCHANGED <<sidecarVars, serving, backlog, forward, bridgeVars, mail>>

(* apply_frame: bytes go to the bridge as they come *)
ForwardReads(c) ==
    /\ forward[c] = "up" /\ link[c].up # <<>>
    /\ link' = [link EXCEPT ![c].up = Tail(@)]
    /\ mail' = Append(mail, Data(Head(link[c].up)))
    /\ UNCHANGED <<sidecarVars, serving, backlog, forward, bridgeVars, steady>>

(* eof/1: the socket closed; the bridge's monitor follows *)
ForwardEof(c) ==
    /\ forward[c] = "up" /\ link[c].st = "closed" /\ link[c].up = <<>>
    /\ forward' = [forward EXCEPT ![c] = "down"]
    /\ mail' = mail \o <<Eof, Down(c)>>
    /\ UNCHANGED <<sidecarVars, serving, backlog, link, bridgeVars, steady>>

(* {:stop, {:send_failed, _}, _}: no eof, only the monitor *)
ForwardFails(c) ==
    /\ forward[c] = "up" /\ link[c].st = "closed"
    /\ forward' = [forward EXCEPT ![c] = "down"]
    /\ mail' = Append(mail, Down(c))
    /\ UNCHANGED <<sidecarVars, serving, backlog, link, bridgeVars, steady>>

-----------------------------------------------------------------------------
(* The bridge. *)
Used == Cardinality({c \in Links : link[c].st # "none"})

(* A dial that succeeds, with b the bridge but for the channel.  With a close frame
   in the upgrade response init sends eof and goes on: process_initial_frames does
   not stop. *)
Connected(b) ==
    LET c == Used + 1
    IN  /\ Used < MaxLinks
        /\ bridge' = [b EXCEPT !.pf = c, !.attempts = 0]
        /\ forward' = [forward EXCEPT ![c] = "up"]
        /\ backlog' = Append(backlog, c)
        /\ \E early \in IF EarlyClose THEN BOOLEAN ELSE {FALSE} :
              /\ link' = [link EXCEPT ![c].st = IF early THEN "closed" ELSE "up"]
              /\ mail' = IF early THEN Append(mail, Eof) ELSE mail

(* init/1 *)
Start ==
    /\ bridge.st = "starting"
    /\ \/ Connected([bridge EXCEPT !.st = "up"])
       \/ /\ bridge' = [bridge EXCEPT !.st = "up", !.timers = 1]
          /\ UNCHANGED <<forward, backlog, link, mail>>
    /\ UNCHANGED <<sidecarVars, serving, told, said, steady>>

(* {:stop, :normal, _} and terminate/2, which closes the current port-forward *)
Terminate ==
    /\ bridge' = [bridge EXCEPT !.st = "stopped"]
    /\ steady' = {}
    /\ IF bridge.pf # 0 /\ forward[bridge.pf] = "up"
       THEN /\ forward' = [forward EXCEPT ![bridge.pf] = "down"]
            /\ \E l \in Broken(link[bridge.pf]) : link' = [link EXCEPT ![bridge.pf] = l]
       ELSE UNCHANGED <<forward, link>>

(* handle_info :reconnect and give_up *)
Reconnect ==
    /\ bridge.st = "up" /\ bridge.timers > 0
    /\ \/ /\ Connected([bridge EXCEPT !.timers = @ - 1])
          /\ UNCHANGED steady
       \/ /\ bridge.attempts + 1 >= MaxReconnects
          /\ Terminate
          /\ UNCHANGED <<backlog, mail>>
       \/ /\ bridge.attempts + 1 < MaxReconnects
          /\ bridge' = [bridge EXCEPT !.attempts = @ + 1]
          /\ UNCHANGED <<forward, backlog, link, mail, steady>>
    /\ UNCHANGED <<sidecarVars, serving, told, said>>

(* schedule_reconnect, which also flushes the monitor's message *)
Rescheduled == [bridge EXCEPT !.pf = 0, !.timers = @ + 1]

HandleEof ==
    /\ bridge.st = "up" /\ mail # <<>> /\ Head(mail) = Eof
    /\ bridge' = Rescheduled
    /\ mail' = RemoveFirst(Tail(mail), Down(bridge.pf))
    /\ steady' = {}
    /\ UNCHANGED <<sidecarVars, serving, backlog, link, forward, told, said>>

(* Mutant: only eof reopens the channel. *)
HandleDownIgnored ==
    /\ bridge.st = "up" /\ mail # <<>> /\ Head(mail).type = "down"
    /\ mail' = Tail(mail)
    /\ UNCHANGED <<sidecarVars, serving, backlog, link, forward, bridgeVars, steady>>

(* handle_info {:DOWN, ...}: the current port-forward's, or any other message *)
HandleDown ==
    /\ bridge.st = "up" /\ mail # <<>> /\ Head(mail).type = "down"
    /\ mail' = Tail(mail)
    /\ IF Head(mail).link = bridge.pf
       THEN bridge' = Rescheduled /\ steady' = {}
       ELSE UNCHANGED <<bridge, steady>>
    /\ UNCHANGED <<sidecarVars, serving, backlog, link, forward, told, said>>

(* send_decision: a cast to the current port-forward, if there is one *)
SendDecision(r, decision) ==
    link' = IF bridge.pf # 0 /\ forward[bridge.pf] = "up" /\ link[bridge.pf].st = "up"
            THEN [link EXCEPT ![bridge.pf].down =
                    Append(@, [id |-> r, action |-> IF decision = "allow" THEN "allow" ELSE "deny"])]
            ELSE link

(* handle_line for a whole line: telemetry for an event, a decision for a request.
   The decider runs in a process of its own and is bounded; the bridge waits for it. *)
HandleLine(frame) ==
    IF frame.type # "decision_request"
    THEN /\ told' = [told EXCEPT ![frame.id] = Append(@, frame.type)]
         /\ UNCHANGED <<bridge, link, said>>
    ELSE \E s \in DeciderSays :
            LET host == conn[frame.id].host
                d    == Decide(bridge.cache, host, s)
            IN  /\ SendDecision(frame.id, d.decision)
                /\ bridge' = [bridge EXCEPT !.cache = d.cache]
                /\ said' = [said EXCEPT ![host] = @ \cup {d.decision}]
                /\ UNCHANGED told

(* handle_info {:control_bridge_data, ...}, drain_lines *)
HandleData ==
    /\ bridge.st = "up" /\ mail # <<>> /\ Head(mail).type = "data"
    /\ mail' = Tail(mail)
    /\ HandleLine(Head(mail).frame)
    /\ UNCHANGED <<sidecarVars, serving, backlog, forward, steady>>

(* The owner's DOWN. *)
OwnerDown ==
    /\ bridge.st = "up"
    /\ Terminate
    /\ UNCHANGED <<sidecarVars, serving, backlog, mail, told, said>>

-----------------------------------------------------------------------------
Handlers(r) ==
    \/ \E h \in Hosts : Open(r, h)
    \/ Settle(r) \/ Ask(r) \/ Answered(r) \/ Expire(r) \/ GiveUp(r) \/ Close(r)

Sidecar == Accept \/ Write \/ Read \/ ReadEnds

Bridge == Start \/ Reconnect \/ HandleEof \/ HandleDown \/ HandleData

Next ==
    \/ \E r \in Requests : Handlers(r)
    \/ Sidecar \/ Bridge
    \/ \E c \in Links : LinkDrops(c) \/ ForwardReads(c) \/ ForwardEof(c) \/ ForwardFails(c)
    \/ OwnerDown

Spec == Init /\ [][Next]_vars

-----------------------------------------------------------------------------
Frames == [type : {"opened", "allowed", "denied", "closed", "failed", "decision_request"}, id : Requests]

(* The types of the channel's state, at both ends. *)
TypeOK ==
    /\ conn \in [Requests -> [st : {"new", "opened", "asking", "expired", "allowed", "denied", "closed", "failed"},
                              host : Hosts \cup {Nil}, reason : {Nil, "policy", "decider", "decider_timeout"}]]
    /\ pending \subseteq Requests /\ answer \in [Requests -> {Nil, "allow", "deny"}]
    /\ outq \in Seq(Frames) /\ Len(outq) <= BufferCap
    /\ serving \in [link : 0..MaxLinks, writing : BOOLEAN, reading : BOOLEAN]
    /\ backlog \in Seq(Links)
    /\ link \in [Links -> [st : {"none", "up", "closed"}, up : Seq(Frames),
                           down : Seq([id : Requests, action : {"allow", "deny"}])]]
    /\ forward \in [Links -> {"none", "up", "down"}]
    /\ mail \in Seq({Eof} \cup {Down(c) : c \in Links} \cup {Data(f) : f \in Frames})
    /\ bridge.st \in {"starting", "up", "stopped"} /\ bridge.pf \in 0..MaxLinks
    /\ bridge.timers \in Nat /\ bridge.attempts \in 0..MaxReconnects - 1
    /\ \A h \in DOMAIN bridge.cache : h \in Hosts /\ bridge.cache[h] \in DeciderSays
    /\ told \in [Requests -> Seq({"opened", "allowed", "denied", "closed", "failed"})]
    /\ said \in [Hosts -> SUBSET DeciderSays] /\ steady \subseteq Requests

(* However the channel fails, a connection gets through (conn.rs handle) only on a rule
   that allows its host or on a decider that did allow it: a lost question, a lost or
   late decision, a full buffer and a failing decider all deny. *)
FailClosed ==
    \A r \in Requests : conn[r].st \in {"allowed", "closed", "failed"} =>
        \/ Evaluate(conn[r].host) = "allow"
        \/ Evaluate(conn[r].host) = "decide" /\ "allow" \in said[conn[r].host]

(* With the cache on, the decisions that reach the sidecar agree on a host, through any
   number of reconnects (dispatch/5 of decider.ex, the cache kept by the bridge). *)
OneVerdictPerHost ==
    Caching => \A r, q \in Requests :
        conn[r].host = conn[q].host /\ answer[r] # Nil /\ answer[q] # Nil => answer[r] = answer[q]

(* The pending map of control.rs holds who still waits: a waiter without an answer has
   its sender there, and one that is done, by an answer or a timeout, leaves none,
   although the buffer it asks through never holds more than its capacity. *)
PendingExact ==
    Len(outq) <= BufferCap /\ \A r \in Requests :
        /\ conn[r].st = "asking" /\ answer[r] = Nil => r \in pending
        /\ r \in pending => conn[r].st \in {"asking", "expired"} /\ answer[r] = Nil

(* What the bridge reports of a request (deliver_event) is its life in order, with gaps
   where frames were lost, and never anything twice or two verdicts. *)
AuditOrdered ==
    LET rank(k) == CASE k = "opened" -> 1 [] k \in {"allowed", "denied"} -> 2 [] OTHER -> 3
    IN  \A r \in Requests : \A i, j \in DOMAIN told[r] :
            i < j => rank(told[r][i]) < rank(told[r][j])

(* "no bridge or portforward socket is orphaned" when the bridge stops
   (control_bridge.ex init): no port-forward over a live link outlives it. *)
NoOrphan ==
    bridge.st = "stopped" => \A c \in Links : ~(forward[c] = "up" /\ link[c].st = "up")

(* The bridge always has a channel or a redial scheduled, never both or two
   (schedule_reconnect, handle_info), hears of the end of the channel it has, and leaves
   none behind when it stops, unless a port-forward said eof as it was started. *)
OneChannel ==
    /\ bridge.st = "up" =>
          /\ bridge.timers = IF bridge.pf = 0 THEN 1 ELSE 0
          /\ bridge.pf # 0 /\ forward[bridge.pf] = "down" => Down(bridge.pf) \in Range(mail)
    /\ ~EarlyClose => NoOrphan

(* "subsequent requests recover once the channel is back" (control_bridge.ex): a request
   that asks while the bridge's channel is up, and stays up, does not time out, given a
   decider faster than the timeout. *)
RequestsRecover == \A r \in steady : conn[r].reason # "decider_timeout"
=============================================================================
