----------------------------- MODULE McpClient -----------------------------
(***************************************************************************)
(* A connection to an MCP server: the client process (mcp/client.ex), its  *)
(* transport (mcp/transport/stdio.ex, streamable_http.ex, http_sse.ex),    *)
(* the session that starts and stops it (mcp/registry.ex) and the workers  *)
(* that call its tools.  The session is linked to the client and does not  *)
(* trap exits; the client is linked to its transport and does.             *)
(***************************************************************************)
EXTENDS Integers, Sequences, FiniteSets, SequencesExt

CONSTANTS
    Callers,    \* processes that call a tool, once each
    MaxMail,    \* bound on the client's mailbox when the server sends
    SlowSends,  \* whether a transport may take longer over a message than its client waits
    Nil

ASSUME McpAssumption ==
    {"init", "tools_list", Nil} \cap Callers = {} /\ MaxMail \in Nat /\ SlowSends \in BOOLEAN

VARIABLES
    client,     \* %Client{}: status, next_id, pending, timers
    armed,      \* the timers that run, by request id
    mail,       \* the client's mailbox
    transport,  \* the transport process: "none", "up", "down"
    wire,       \* requests that reached the server and that it may answer
    starter,    \* start_link, in wait_for_ready: "waiting", "ready", "failed"
    session,    \* the linked session: "up", "stopping", "killed"
    caller      \* [st, got]: the state of each call, and whose answer it got

vars == <<client, armed, mail, transport, wire, starter, session, caller>>

Init ==
    /\ client = [status |-> "starting", next_id |-> 1, pending |-> <<>>, timers |-> {}]
    /\ armed = {} /\ mail = <<>> /\ transport = "none" /\ wire = {}
    /\ starter = "waiting" /\ session = "up"
    /\ caller = [c \in Callers |-> [st |-> "idle", got |-> Nil]]

Alive == client.status # "stopped"

Message(type, id, for, ok) == [type |-> type, id |-> id, for |-> for, ok |-> ok]
CallMsg(c)     == Message("call", 0, c, TRUE)
Timeout(id)    == Message("timeout", id, Nil, TRUE)
Down           == Message("down", 0, Nil, TRUE)
Exit           == Message("exit", 0, Nil, TRUE)
Stop           == Message("stop", 0, Nil, TRUE)

Waiting         == {c \in Callers : caller[c].st = "waiting"}
(* A reply; one to a caller that has given up goes nowhere. *)
Settled(cs, st) == [c \in Callers |-> IF c \in cs \cap Waiting THEN [caller[c] EXCEPT !.st = st] ELSE caller[c]]
PendingCallers  == {client.pending[id] : id \in DOMAIN client.pending} \cap Callers

With(f, id, kind) == [i \in DOMAIN f \cup {id} |-> IF i = id THEN kind ELSE f[i]]
Without(f, id)    == [i \in DOMAIN f \ {id} |-> f[i]]

-----------------------------------------------------------------------------
(* The end of the client process *)

(* report_init_error and the ready message: only the first counts *)
Told(result) == starter' = IF starter = "waiting" THEN result ELSE starter

(* Mutant: terminate leaves the transport running. *)
TerminateLeaves(answered, abnormal) ==
    /\ client' = [client EXCEPT !.status = "stopped", !.pending = <<>>, !.timers = {}]
    /\ armed' = {} /\ mail' = <<>>
    /\ caller' = [c \in Callers |->
                     IF c \notin Waiting THEN caller[c]
                     ELSE [caller[c] EXCEPT !.st = IF c \in answered THEN "error" ELSE "exited"]]
    /\ session' = IF abnormal THEN "killed" ELSE session
    /\ UNCHANGED <<transport, wire>>

(* The client ends, after answering some callers with an error: the others' calls exit,
   the transport is closed by terminate/2, and an abnormal end takes the session along. *)
Terminate(answered, abnormal) ==
    /\ client' = [client EXCEPT !.status = "stopped", !.pending = <<>>, !.timers = {}]
    /\ armed' = {} /\ mail' = <<>>
    /\ caller' = [c \in Callers |->
                     IF c \notin Waiting THEN caller[c]
                     ELSE [caller[c] EXCEPT !.st = IF c \in answered THEN "error" ELSE "exited"]]
    /\ session' = IF abnormal THEN "killed" ELSE session
    /\ transport' = IF transport = "up" THEN "down" ELSE transport
    /\ UNCHANGED wire

-----------------------------------------------------------------------------
(* Requests *)

(* Mutant: the id of a request that is over is used again. *)
SentReused(kind, b) ==
    LET id == CHOOSE i \in 1..b.next_id : i \notin DOMAIN b.pending /\ \A k \in 1..i - 1 : k \in DOMAIN b.pending
    IN  /\ client' = [b EXCEPT !.next_id = @ + 1, !.pending = With(@, id, kind),
                               !.timers = IF kind \in Callers THEN @ \cup {id} ELSE @]
        /\ armed' = IF kind \in Callers THEN armed \cup {id} ELSE armed
        /\ wire' \in {wire, wire \cup {[id |-> id, for |-> kind]}}

(* send_request, with b the client but for the request, and the timer of a tool call;
   an error the transport returns is ignored, so the request may never leave *)
Sent(kind, b) ==
    /\ client' = [b EXCEPT !.next_id = @ + 1, !.pending = With(@, b.next_id, kind),
                           !.timers = IF kind \in Callers THEN @ \cup {b.next_id} ELSE @]
    /\ armed' = IF kind \in Callers THEN armed \cup {b.next_id} ELSE armed
    /\ wire' \in {wire, wire \cup {[id |-> b.next_id, for |-> kind]}}

(* send_message is a GenServer.call of 5 s, in which http_sse.ex posts: it exits, and the
   client with it, when the transport has ended or is not done by then *)
SendExits == (transport = "down" \/ SlowSends) /\ Terminate({}, TRUE)

(* handle_continue {:start_transport, _}; it may start and end again before initialize is sent *)
StartTransport ==
    /\ client.status = "starting"
    /\ \/ /\ transport' = "up"
          /\ Sent("init", [client EXCEPT !.status = "initializing"])
          /\ UNCHANGED <<mail, starter, session, caller>>
       \/ Terminate({}, FALSE) /\ Told("failed")
       \/ Terminate({}, TRUE) /\ UNCHANGED starter

(* call_tool/4: GenServer.call, which exits when there is no client any more *)
Call(c) ==
    /\ caller[c].st = "idle"
    /\ IF Alive
       THEN caller' = [caller EXCEPT ![c].st = "waiting"] /\ mail' = Append(mail, CallMsg(c))
       ELSE caller' = [caller EXCEPT ![c].st = "exited"] /\ UNCHANGED mail
    /\ UNCHANGED <<client, armed, transport, wire, starter, session>>

(* Its own timeout, a second after the client's: for a client that is behind with its mail *)
CallerGivesUp(c) ==
    /\ c \in Waiting
    /\ caller' = Settled({c}, "exited")
    /\ UNCHANGED <<client, armed, mail, transport, wire, starter, session>>

(* The next message of a client that has started *)
Receives(type) == client.status \notin {"starting", "stopped"} /\ mail # <<>> /\ Head(mail).type = type

(* Mutant: a call has no timer of its own. *)
HandleCallUntimed ==
    /\ Receives("call")
    /\ LET c == Head(mail).for
       IN  \/ /\ client.status # "ready"
              /\ caller' = Settled({c}, "error")
              /\ UNCHANGED <<client, armed, transport, wire, session>>
           \/ /\ client.status = "ready" /\ transport = "up"
              /\ client' = [client EXCEPT !.next_id = @ + 1, !.pending = With(@, client.next_id, c)]
              /\ wire' \in {wire, wire \cup {[id |-> client.next_id, for |-> c]}}
              /\ UNCHANGED <<armed, transport, session, caller>>
    /\ mail' = Tail(mail)
    /\ UNCHANGED starter

(* handle_call {:call_tool, ...} *)
HandleCall ==
    /\ Receives("call")
    /\ LET c == Head(mail).for
       IN  \/ /\ client.status # "ready"
              /\ caller' = Settled({c}, "error") /\ mail' = Tail(mail)
              /\ UNCHANGED <<client, armed, transport, wire, session>>
           \/ /\ client.status = "ready" /\ transport = "up"
              /\ Sent(c, client) /\ mail' = Tail(mail)
              /\ UNCHANGED <<transport, session, caller>>
           \/ client.status = "ready" /\ SendExits
    /\ UNCHANGED starter

-----------------------------------------------------------------------------
(* What the mailbox brings *)

Dropped == mail' = Tail(mail) /\ UNCHANGED <<client, armed, transport, wire, starter, session, caller>>

(* The request is over; its timer is cancelled, though its message may be on the way. *)
Over(id) == [client EXCEPT !.pending = Without(@, id), !.timers = @ \ {id}]

(* handle_response for the two requests of the handshake *)
HandshakeResponse(m, kind) ==
    \/ /\ ~m.ok
       /\ Terminate({}, FALSE) /\ Told("failed")
    \/ /\ m.ok /\ kind = "init" /\ transport = "up"
       /\ Sent("tools_list", [Over(m.id) EXCEPT !.status = "listing_tools"])
       /\ mail' = Tail(mail)
       /\ UNCHANGED <<transport, starter, session, caller>>
    \/ m.ok /\ kind = "init" /\ SendExits /\ UNCHANGED starter
    \/ /\ m.ok /\ kind = "tools_list"
       /\ client' = [Over(m.id) EXCEPT !.status = "ready"]
       /\ Told("ready") /\ mail' = Tail(mail)
       /\ UNCHANGED <<armed, transport, wire, session, caller>>

(* handle_info {:mcp_message, {:response, id, result}} *)
HandleResponse ==
    /\ Receives("response")
    /\ LET m == Head(mail)
       IN  \/ m.id \notin DOMAIN client.pending /\ Dropped
           \/ /\ m.id \in DOMAIN client.pending /\ client.pending[m.id] \in {"init", "tools_list"}
              /\ HandshakeResponse(m, client.pending[m.id])
           \/ /\ m.id \in DOMAIN client.pending /\ client.pending[m.id] \in Callers
              /\ client' = Over(m.id) /\ armed' = armed \ {m.id}
              /\ caller' = [caller EXCEPT ![client.pending[m.id]] =
                              IF @.st # "waiting" THEN @
                              ELSE [st |-> IF m.ok THEN "ok" ELSE "error", got |-> m.for]]
              /\ mail' = Tail(mail)
              /\ UNCHANGED <<transport, wire, starter, session>>

(* Mutant: the timeout forgets the call without answering it. *)
HandleTimeoutForgets ==
    /\ Receives("timeout")
    /\ client' = Over(Head(mail).id) /\ mail' = Tail(mail)
    /\ UNCHANGED <<armed, transport, wire, starter, session, caller>>

(* handle_info {:mcp_request_timeout, id} *)
HandleTimeout ==
    /\ Receives("timeout")
    /\ LET id == Head(mail).id
       IN  \/ id \notin DOMAIN client.pending /\ Dropped
           \/ /\ id \in DOMAIN client.pending
              /\ client' = Over(id) /\ mail' = Tail(mail)
              /\ caller' = Settled({client.pending[id]}, "error")
              /\ UNCHANGED <<armed, transport, wire, starter, session>>

(* handle_info {:mcp_transport_down, _} and {:EXIT, transport_pid, _}: fail_pending *)
HandleDown ==
    /\ Receives("down") \/ Receives("exit")
    /\ Terminate(PendingCallers, FALSE)
    /\ IF client.status = "ready" THEN UNCHANGED starter ELSE Told("failed")

(* handle_cast :stop, which fails nobody *)
HandleStop ==
    /\ Receives("stop")
    /\ Terminate({}, FALSE) /\ UNCHANGED starter

-----------------------------------------------------------------------------
(* Around the client *)

(* The server answers a request it has, once or again. *)
ServerAnswers ==
    /\ transport = "up" /\ Alive /\ Len(mail) < MaxMail
    /\ \E w \in wire, ok \in BOOLEAN :
          LET m == Message("response", w.id, w.for, ok)
          IN  /\ m \notin Range(mail)
              /\ mail' = Append(mail, m)
              /\ wire' \in {wire, wire \ {w}}
    /\ UNCHANGED <<client, armed, transport, starter, session, caller>>

(* The transport ends: it says so and exits, or it crashes. *)
TransportEnds ==
    /\ transport = "up" /\ Alive
    /\ transport' = "down"
    /\ mail' \in {mail \o <<Down, Exit>>, Append(mail, Exit)}
    /\ UNCHANGED <<client, armed, wire, starter, session, caller>>

TimerFires ==
    /\ \E id \in armed : armed' = armed \ {id} /\ mail' = Append(mail, Timeout(id))
    /\ UNCHANGED <<client, transport, wire, starter, session, caller>>

(* wait_for_ready gives up after init_timeout. *)
InitTimeout ==
    /\ starter = "waiting" /\ session # "killed"
    /\ starter' = "failed"
    /\ mail' = IF Alive THEN Append(mail, Stop) ELSE mail
    /\ UNCHANGED <<client, armed, transport, wire, session, caller>>

(* terminate/2 of the session, stop_all/1: a cast to each client *)
SessionStops ==
    /\ session = "up" /\ starter = "ready"
    /\ session' = "stopping"
    /\ mail' = IF Alive THEN Append(mail, Stop) ELSE mail
    /\ UNCHANGED <<client, armed, transport, wire, starter, caller>>

Handle == HandleCall \/ HandleResponse \/ HandleTimeout \/ HandleDown \/ HandleStop

Next ==
    \/ StartTransport \/ Handle
    \/ \E c \in Callers : Call(c) \/ CallerGivesUp(c)
    \/ ServerAnswers \/ TransportEnds \/ TimerFires \/ InitTimeout \/ SessionStops

Spec == Init /\ [][Next]_vars

(* The client is scheduled and timers fire; the server owes nothing, and a caller is not
   counted on to give up. *)
FairSpec == Spec /\ WF_vars(StartTransport) /\ WF_vars(Handle) /\ WF_vars(TimerFires) /\ WF_vars(InitTimeout)

-----------------------------------------------------------------------------
(* The types of the client's state; the ids it knows are ids it gave out. *)
TypeOK ==
    /\ client.status \in {"starting", "initializing", "listing_tools", "ready", "stopped"}
    /\ client.next_id \in 1..Cardinality(Callers) + 3
    /\ DOMAIN client.pending \subseteq 1..client.next_id - 1
    /\ \A id \in DOMAIN client.pending : client.pending[id] \in Callers \cup {"init", "tools_list"}
    /\ client.timers \subseteq DOMAIN client.pending /\ armed \subseteq client.timers
    /\ transport \in {"none", "up", "down"} /\ starter \in {"waiting", "ready", "failed"}
    /\ session \in {"up", "stopping", "killed"}
    /\ caller \in [Callers -> [st : {"idle", "waiting", "ok", "error", "exited"},
                               got : Callers \cup {Nil}]]

(* A caller that waits is never forgotten: its call is in the mailbox, or it is pending
   under exactly one id with a timeout still to come (handle_call, handle_info). *)
CallerTracked ==
    \A c \in Waiting :
        LET ids == {id \in DOMAIN client.pending : client.pending[id] = c}
        IN  /\ Alive
            /\ \/ ids = {} /\ CallMsg(c) \in Range(mail)
               \/ /\ Cardinality(ids) = 1 /\ CallMsg(c) \notin Range(mail)
                  /\ \A id \in ids : id \in armed \/ Timeout(id) \in Range(mail)

(* Whatever is answered late, twice or out of order, a call gets the server's answer to
   its own request (send_request's next_id, Map.pop of pending). *)
OwnAnswer == \A c \in Callers : caller[c].got \in {Nil, c}

(* start_link does not leave a client behind: whoever was refused, or has stopped, ends
   with the client stopped and its transport closed (wait_for_ready, stop_all, terminate). *)
NothingLeftBehind ==
    (starter = "failed" \/ session # "up") ~> (client.status = "stopped" /\ transport # "up")

(* A tool call returns, whatever the server does (mcp_request_timeout, fail_pending). *)
CallReturns == \A c \in Callers : (caller[c].st = "waiting") ~> (caller[c].st # "waiting")

(* mcp.md: when a client loses its connection mid-run, "Outstanding tool calls fail with
   {:error, {:transport_down, _}} and the session continues." *)
SessionContinues == starter = "ready" => session # "killed"
=============================================================================
