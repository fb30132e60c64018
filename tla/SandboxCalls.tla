---------------------------- MODULE SandboxCalls ----------------------------
(***************************************************************************)
(* The calls the tools of a session make on one sandbox, several at once,  *)
(* and what both native backends do alike: the edited file, a sequence of  *)
(* the texts in it, and the directory a command is to run in.  All calls   *)
(* are about one file, in the directory "sub".                             *)
(***************************************************************************)
EXTENDS Integers, Sequences, FiniteSets

CONSTANTS
    Workers,   \* the tool tasks that call
    MaxCalls,  \* bound on the calls each one makes
    Requests,  \* what they ask for: [op, cwd, timed, text]
    NoFile,
    Nil

ASSUME CallsAssumption ==
    /\ MaxCalls \in Nat /\ Nil \notin Workers \cup {"base", "sub", "mnt"}
    /\ \A r \in Requests :
          /\ DOMAIN r = {"op", "cwd", "timed", "text"} /\ r.timed \in BOOLEAN
          /\ r.op = "write" => IsFiniteSet(DOMAIN r.text)

VARIABLES
    call,  \* what each worker is at: [req, pc, got, ran]
    made,  \* how many calls it has made
    file,  \* the content of the file, or NoFile
    moved, \* the workers whose file changed after they had read it
    base   \* State.base_cwd, which never changes; Nil for a virtual sandbox given none

callVars == <<call, made, file, moved>>

OldText  == "old"
NewText  == "new"
RawText  == "raw"   \* bytes that are not UTF-8,
Replaced == "repl"  \* and what decoding makes of them: U+FFFD

Idle == [req |-> Nil, pc |-> "idle", got |-> Nil, ran |-> Nil]

CallsInit ==
    /\ call = [w \in Workers |-> Idle]
    /\ made = [w \in Workers |-> 0]
    /\ file = <<OldText>> /\ moved = {}

Op(w)      == call[w].req.op
At(w, pc)  == call[w].pc = pc
Goto(w, pc) == call' = [call EXCEPT ![w].pc = pc]

Call(w, r) ==
    /\ At(w, "idle") /\ made[w] < MaxCalls
    /\ made' = [made EXCEPT ![w] = @ + 1]
    /\ call' = [call EXCEPT ![w] = [Idle EXCEPT !.req = r, !.pc = "called"]]
    /\ UNCHANGED <<file, moved>>

(* The call returns, with a value, an error or an exception. *)
Return(w) ==
    /\ call' = [call EXCEPT ![w] = Idle]
    /\ moved' = moved \ {w}

(* A change of the file by w: whoever has read it holds an old content now. *)
Put(w, content) ==
    /\ file' = content
    /\ moved' = {v \in Workers \ {w} : call[v].got # Nil}

(* Virtual.exec, Microsandbox.exec: the directory given, or the sandbox's own *)
TargetOf(r) == IF r.cwd = Nil THEN base ELSE r.cwd

(* count_occurrences, of a text that is not empty *)
Occurrences(content, text) == Cardinality({i \in DOMAIN content : content[i] = text})

(* Mutant: every occurrence is replaced, however many there are. *)
EditedAll(content) ==
    IF Occurrences(content, OldText) = 0 THEN Nil
    ELSE [i \in DOMAIN content |-> IF content[i] = OldText THEN NewText ELSE content[i]]

(* What an edit writes: the text replaced where it occurs once; nothing otherwise *)
Edited(content) ==
    IF Occurrences(content, OldText) # 1 THEN Nil
    ELSE [i \in DOMAIN content |-> IF content[i] = OldText THEN NewText ELSE content[i]]
=============================================================================
