---------------------------- MODULE TurnService ----------------------------
(***************************************************************************)
(* What a session promises its clients, whatever happens inside it: it     *)
(* serves one turn at a time, refuses at once whoever comes while it is    *)
(* taken, and the client it took is answered exactly once, by the end of   *)
(* its own turn, unless it has left before.  A manual compaction takes the *)
(* session as a turn does.                                                 *)
(***************************************************************************)
CONSTANTS Clients, Nobody, Maintenance

VARIABLES owner,    \* whom the session is working for
          status    \* what each client has been told

vars == <<owner, status>>

Init ==
    /\ owner = Nobody
    /\ status = [c \in Clients |-> "idle"]

Accept(c) ==
    /\ owner = Nobody /\ status[c] = "idle"
    /\ owner' = c
    /\ status' = [status EXCEPT ![c] = "waiting"]

Refuse(c) ==
    /\ owner # Nobody /\ status[c] = "idle"
    /\ status' = [status EXCEPT ![c] = "refused"]
    /\ UNCHANGED owner

(* The turn is over, and the client hears it if it is still there. *)
End(c) ==
    /\ owner = c
    /\ owner' = Nobody
    /\ \E answer \in {"ok", "error", "aborted"} :
          status' = [status EXCEPT ![c] = IF @ = "waiting" THEN answer ELSE @]

(* A client gives up; the turn it started goes on. *)
Leave(c) ==
    /\ status[c] \in {"idle", "waiting"}
    /\ status' = [status EXCEPT ![c] = "gone"]
    /\ UNCHANGED owner

Maintain ==
    /\ owner = Nobody /\ owner' = Maintenance
    /\ UNCHANGED status

Release ==
    /\ owner = Maintenance /\ owner' = Nobody
    /\ UNCHANGED status

Next ==
    \/ \E c \in Clients : Accept(c) \/ Refuse(c) \/ End(c) \/ Leave(c)
    \/ Maintain \/ Release

Spec == Init /\ [][Next]_vars

(* What the promise comes to for a client: nobody waits for a turn that is not
   its own. *)
WaitingIsOwner == \A c \in Clients : status[c] = "waiting" => owner = c
=============================================================================
