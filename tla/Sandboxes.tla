------------------------------ MODULE Sandboxes ------------------------------
(***************************************************************************)
(* A session's tools on one sandbox, of either native backend.             *)
(***************************************************************************)
EXTENDS Bashkit, Microsandbox

VARIABLE backend  \* "bashkit" or "microsandbox"

vars == <<callVars, bashVars, microVars, base, backend>>

(* Virtual.init keeps the :cwd it is given, nil too; normalize_base_cwd puts a default for it. *)
Init ==
    /\ CallsInit /\ BashInit /\ MicroInit
    /\ \/ backend = "bashkit" /\ base \in {"base", Nil}
       \/ backend = "microsandbox" /\ base = "base"

Ops == [ bashkit |-> InShell \cup {"read", "write", "edit"},
         microsandbox |-> {"exec", "read", "write", "edit", "shutdown"} ]

Calls(w) ==
    /\ ~dropped
    /\ \E r \in Requests : r.op \in Ops[backend] /\ Call(w, r)
    /\ UNCHANGED <<bashVars, microVars, base, backend>>

OnBashkit      == backend = "bashkit" /\ UNCHANGED <<microVars, base, backend>>
OnMicrosandbox == backend = "microsandbox" /\ UNCHANGED <<bashVars, base, backend>>

Next ==
    \/ \E w \in Workers : Calls(w)
    \/ OnBashkit /\ BashNext
    \/ OnMicrosandbox /\ MicroNext

Spec == Init /\ [][Next]_vars

(* A dirty scheduler runs a call that can go on.  Nobody takes a mutex without end from the
   others: the calls are finitely many. *)
Fairness == \A w \in Workers : WF_vars(OnBashkit /\ BashStep(w)) /\ WF_vars(OnMicrosandbox /\ MicroStep(w))
FairSpec == Spec /\ Fairness

-----------------------------------------------------------------------------
(* A command that has come past its cd runs in the directory it was given, the sandbox's own
   without one, wherever earlier commands, globs and commands that were timed out have left
   the interpreter (exec of virtual.ex and of bashkit's lib.rs). *)
ExecInItsCwd ==
    \A w \in Workers :
        At(w, "command") /\ call[w].ran # Nil
            => call[w].ran = IF call[w].req.cwd = Nil THEN base ELSE call[w].req.cwd

(* An edit of a file that nobody has changed since the edit read it replaces one occurrence
   and leaves the rest of the file as it was, however many there are: all of it on the
   microVM, all but the bytes that are not UTF-8 in the virtual sandbox (edit_file). *)
EditPrecise ==
    [][\A w \in Workers \ moved :
          call[w].got # Nil /\ call'[w].got = Nil /\ file' # file
              => /\ DOMAIN file' = DOMAIN file
                 /\ \E i \in DOMAIN file :
                       /\ file[i] = OldText /\ file'[i] = NewText
                       /\ \A j \in DOMAIN file \ {i} :
                             file'[j] = file[j] \/ (backend = "bashkit" /\ file[j] = RawText)]_vars

(* The call of w hangs, and no time limit ends it. *)
Stuck(w) == At(w, "hung") /\ ~(Op(w) = "exec" /\ call[w].req.timed)

(* Every call returns unless it hangs itself, or one without a time limit hangs that has the
   interpreter or the runtime: neither is kept by a command that was given up, by a panic, by
   a call that failed or by a file operation (exec, shutdown). *)
CallsReturn ==
    \A w \in Workers :
        ~At(w, "idle") ~> At(w, "idle") \/ Stuck(w) \/ \E v \in Workers \cap {lock, runtime} : Stuck(v)

(* The VM is not stopped under a call to the guest: shutdown waits for the one that has the
   runtime.  One that has only cloned the handle finds the VM stopped. *)
StopsAfterCalls ==
    [][vm' # vm => \A w \in Workers : call[w].pc \notin {"guest", "parent", "command", "hung"}]_vars

(* A VM that runs is somebody's to stop: the Session still holds it, or a shutdown has it.
   Only a poisoned runtime makes them let go of it (shutdown, Drop for Session). *)
VmAccounted ==
    vm = "running" => handle \/ panicked \/ \E w \in Workers : call[w].pc \in {"taken", "stopping"}
=============================================================================
