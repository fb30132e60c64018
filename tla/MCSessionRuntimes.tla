-------------------------- MODULE MCSessionRuntimes --------------------------
(* A session on the native runtime or on another one, chosen with the first state. *)
EXTENDS MCSession

VARIABLE native

External == INSTANCE Session WITH Native <- FALSE

MCInit == Init /\ native \in BOOLEAN

(* Bound: one control call while a tool hangs, rather than MaxControls. *)
HungBound == (\E p \in Prompts, t \in ToolIds : wk'[p].tool[t] = "hung") => controls' <= 1

MCNext ==
    /\ \/ native /\ Next
       \/ ~native /\ External!Next
    /\ HungBound
    /\ UNCHANGED native

MCSpec == MCInit /\ [][MCNext]_<<vars, native>>

(* Fairness of Session, of the worker that the runtime has *)
MCFairSpec ==
    /\ MCSpec
    /\ \A p \in Prompts : /\ WF_vars(SessionHandles(p))
                          /\ WF_vars(native /\ WorkerSteps(p))
                          /\ WF_vars(~native /\ External!WorkerSteps(p))
    /\ \A p \in Prompts, t \in ToolIds : WF_vars(ToolSteps(p, t))
    /\ WF_vars(Persist)
    /\ WF_vars(TimerFires)
    /\ WF_vars(\E ref \in fired : HandleTimeout(ref))
=============================================================================
