-------------------------------- MODULE Turn --------------------------------
(***************************************************************************)
(* lib/condukt/session/turn.ex: the state of the turn a session is         *)
(* running.  References (make_ref) are numbers handed out in increasing    *)
(* order by the session, 0 standing for nil.  A recipient {:run, from} or  *)
(* {:stream, ref} is the prompt whose client waits; the kind of call is    *)
(* the worker's.  Each subscription is a client's own reference, so the    *)
(* subscribers are a set of prompts.                                       *)
(***************************************************************************)
EXTENDS History

NewTurn ==
    [streaming |-> FALSE, abort_ref |-> 0, recipient |-> Nil, worker |-> Nil,
     prompt_index |-> Nil, steering |-> <<>>, follow_up |-> <<>>, subscribers |-> {}]

(* Turn.start, and the worker pid the handlers store right after it. *)
StartTurn(t, ref, p, index) ==
    [t EXCEPT !.streaming = TRUE, !.abort_ref = ref, !.recipient = p,
              !.worker = p, !.prompt_index = index]

(* Mutant: finish forgets the worker. *)
FinishTurnKeepsWorker(t) ==
    [t EXCEPT !.streaming = FALSE, !.recipient = Nil, !.prompt_index = Nil]

FinishTurn(t) ==
    [t EXCEPT !.streaming = FALSE, !.recipient = Nil, !.worker = Nil, !.prompt_index = Nil]

(* Mutant: abort does not replace the reference. *)
AbandonTurnKeepsRef(t, ref) ==
    [t EXCEPT !.streaming = FALSE, !.recipient = Nil, !.worker = Nil, !.prompt_index = Nil]

AbandonTurn(t, ref) ==
    [t EXCEPT !.abort_ref = ref, !.streaming = FALSE, !.recipient = Nil,
              !.worker = Nil, !.prompt_index = Nil]

Subscribed(t, p) == [t EXCEPT !.subscribers = @ \cup {p}]

Unsubscribed(t, p) == [t EXCEPT !.subscribers = @ \ {p}]

Steered(t, m) == [t EXCEPT !.steering = Append(@, m)]

FollowedUp(t, m) == [t EXCEPT !.follow_up = Append(@, m)]

(* Mutant: any running turn will do. *)
CurrentIgnoresRef(t, ref) == t.streaming

(* The check_turn answer: the turn is running and this is its reference. *)
Current(t, ref) == t.streaming /\ ref = t.abort_ref
=============================================================================
