---------------------------- MODULE Microsandbox ----------------------------
(***************************************************************************)
(* The microVM sandbox (condukt_microsandbox/src/lib.rs, and edit_file of  *)
(* microsandbox.ex): a handle on the VM that shutdown takes away, and a    *)
(* runtime behind a mutex on which every call to the guest is made.        *)
(***************************************************************************)
EXTENDS SandboxCalls

VARIABLES
    vm,        \* "running", "stopped", "stuck" when stopping it failed, "stopping" when it never ends
    handle,    \* Session.sandbox: whether the VM's handle is still there
    runtime,   \* the worker that holds Session.runtime, or Nil
    panicked,  \* a holder panicked: the mutex is poisoned
    dropped    \* nobody refers to the Session any more and it was dropped

microVars == <<vm, handle, runtime, panicked, dropped>>

(* new_session: without a VM there is no Session *)
MicroInit == vm = "running" /\ handle = TRUE /\ runtime = Nil /\ panicked = FALSE /\ dropped = FALSE

(* clone_sandbox *)
CloneSandbox(w) ==
    /\ At(w, "called") /\ Op(w) # "shutdown"
    /\ IF handle THEN Goto(w, "cloned") /\ UNCHANGED moved ELSE Return(w)
    /\ UNCHANGED <<made, file, microVars>>

(* Mutant: the guest is called without the mutex. *)
LockRuntimeShared(w) ==
    /\ call[w].pc \in {"cloned", "taken"} /\ runtime = Nil /\ ~panicked
    /\ Goto(w, IF At(w, "cloned") THEN "guest" ELSE "stopping")
    /\ UNCHANGED <<made, file, moved, microVars>>

(* session.runtime.lock(), for a call to the guest or to stop it *)
LockRuntime(w) ==
    /\ call[w].pc \in {"cloned", "taken"} /\ runtime = Nil /\ ~panicked
    /\ Goto(w, IF At(w, "cloned") THEN "guest" ELSE "stopping") /\ runtime' = w
    /\ UNCHANGED <<made, file, moved, vm, handle, panicked, dropped>>

(* poisoned: an error for a call; shutdown answers as ever, and the handle is gone *)
RuntimePoisoned(w) ==
    /\ call[w].pc \in {"cloned", "taken"} /\ panicked
    /\ Return(w) /\ UNCHANGED <<made, file, microVars>>

Finished(w) == Return(w) /\ runtime' = Nil /\ UNCHANGED <<vm, handle, panicked, dropped>>

GuestPanics(w) ==
    /\ call[w].pc \in {"guest", "parent", "stopping"}
    /\ Return(w) /\ runtime' = Nil /\ panicked' = TRUE
    /\ UNCHANGED <<made, file, vm, handle, dropped>>

(* The guest answers with an error; always, when it is stopped. *)
GuestFails(w) ==
    /\ call[w].pc \in {"guest", "parent"}
    /\ Finished(w) /\ UNCHANGED <<made, file>>

(* exec: the command is run in the directory, with the time limit, by the guest *)
GuestExec(w) ==
    /\ At(w, "guest") /\ Op(w) = "exec" /\ vm # "stopped"
    /\ call' = [call EXCEPT ![w].pc = "command", ![w].ran = TargetOf(call[w].req)]
    /\ \/ UNCHANGED <<file, moved>>
       \/ \E content \in {<<OldText, OldText>>, NoFile} : Put(w, content)
    /\ UNCHANGED <<made, microVars>>

GuestExecEnds(w) ==
    /\ At(w, "command")
    /\ Finished(w) /\ UNCHANGED <<made, file>>

(* The guest does not answer: a command, or a read, a mkdir or a write, which have no time
   limit.  The runtime stays taken. *)
GuestHangs(w) ==
    /\ At(w, "command") \/ (call[w].pc \in {"guest", "parent"} /\ Op(w) # "exec")
    /\ Goto(w, "hung") /\ UNCHANGED <<made, file, moved, microVars>>

GuestExecTimesOut(w) ==
    /\ call[w].pc \in {"command", "hung"} /\ Op(w) = "exec" /\ call[w].req.timed
    /\ Finished(w) /\ UNCHANGED <<made, file>>

(* read_file, and the first half of edit_file: a call of its own, after which a text that
   occurs once is replaced and written by another *)
GuestRead(w) ==
    /\ At(w, "guest") /\ Op(w) \in {"read", "edit"} /\ call[w].got = Nil /\ vm # "stopped"
    /\ IF Op(w) = "edit" /\ file # NoFile /\ Edited(file) # Nil
       THEN call' = [call EXCEPT ![w].pc = "edit", ![w].got = file] /\ UNCHANGED moved
       ELSE Return(w)
    /\ runtime' = Nil
    /\ UNCHANGED <<made, file, vm, handle, panicked, dropped>>

(* write_file of an edit: back to the handle *)
WriteBack(w) ==
    /\ At(w, "edit")
    /\ IF handle THEN Goto(w, "cloned") /\ UNCHANGED moved ELSE Return(w)
    /\ UNCHANGED <<made, file, microVars>>

(* write_file, also of an edit: the directory, *)
GuestMkdir(w) ==
    /\ At(w, "guest") /\ vm # "stopped"
    /\ Op(w) = "write" \/ call[w].got # Nil
    /\ Goto(w, "parent") /\ UNCHANGED <<made, file, moved, microVars>>

(* and then the file *)
GuestWrite(w) ==
    /\ At(w, "parent") /\ vm # "stopped"
    /\ call' = [call EXCEPT ![w] = Idle] /\ runtime' = Nil
    /\ Put(w, IF Op(w) = "edit" THEN Edited(call[w].got) ELSE call[w].req.text)
    /\ UNCHANGED <<made, vm, handle, panicked, dropped>>

-----------------------------------------------------------------------------
(* shutdown: take_sandbox, *)
TakeSandbox(w) ==
    /\ At(w, "called") /\ Op(w) = "shutdown"
    /\ IF handle THEN Goto(w, "taken") /\ UNCHANGED moved ELSE Return(w)
    /\ handle' = FALSE
    /\ UNCHANGED <<made, file, vm, runtime, panicked, dropped>>

(* stop_and_wait; that it fails is not told, *)
Stop(w) ==
    /\ At(w, "stopping")
    /\ vm' \in {"stopped", "stuck"}
    /\ Return(w) /\ runtime' = Nil
    /\ UNCHANGED <<made, file, handle, panicked, dropped>>

(* and it has no time limit *)
StopHangs(w) ==
    /\ At(w, "stopping")
    /\ vm' = "stopping"
    /\ Goto(w, "hung") /\ UNCHANGED <<made, file, moved, handle, runtime, panicked, dropped>>

(* Mutant: the runtime is let go and the VM forgotten. *)
DropDetaches ==
    /\ ~dropped /\ \A w \in Workers : At(w, "idle")
    /\ dropped' = TRUE /\ handle' = FALSE
    /\ UNCHANGED <<callVars, vm, runtime, panicked>>

(* Drop for Session, when the last reference to it is gone: no call is under way.  What
   shutdown has not taken is stopped on the runtime, if that can still be locked; where that
   never ends, nor does the thread that dropped the Session. *)
Drop ==
    /\ ~dropped /\ \A w \in Workers : At(w, "idle")
    /\ dropped' = TRUE /\ handle' = FALSE
    /\ IF handle /\ ~panicked THEN vm' \in {"stopped", "stuck", "stopping"} ELSE UNCHANGED vm
    /\ UNCHANGED <<callVars, runtime, panicked>>

MicroStep(w) ==
    \/ CloneSandbox(w) \/ LockRuntime(w) \/ RuntimePoisoned(w) \/ GuestPanics(w) \/ GuestFails(w)
    \/ GuestExec(w) \/ GuestExecEnds(w) \/ GuestExecTimesOut(w)
    \/ GuestRead(w) \/ WriteBack(w) \/ GuestMkdir(w) \/ GuestWrite(w)
    \/ TakeSandbox(w) \/ Stop(w)

MicroNext == Drop \/ \E w \in Workers : MicroStep(w) \/ GuestHangs(w) \/ StopHangs(w)
=============================================================================
