------------------------------- MODULE Bashkit -------------------------------
(***************************************************************************)
(* The virtual sandbox (condukt_bashkit/src/lib.rs): one interpreter       *)
(* behind a mutex.  Commands, globs and greps run in it with the mutex     *)
(* held; file operations take it only to get at the file system, and work  *)
(* on that beside whatever else is running.  The interpreter's own         *)
(* behaviour is external: its directory outlives a call, and each file     *)
(* operation is atomic.                                                    *)
(***************************************************************************)
EXTENDS SandboxCalls

VARIABLES
    lock,      \* the worker that holds the interpreter, or Nil
    poisoned,  \* a holder panicked
    pwd,       \* the interpreter's working directory
    dirs       \* the directories there are, mounted ones included

bashVars == <<lock, poisoned, pwd, dirs>>

(* build_bash: with a mount asked for or without *)
BuildBash == {{"base", "sub"}, {"base", "sub", "mnt"}}

(* new_session *)
BashInit ==
    /\ lock = Nil /\ poisoned = FALSE
    /\ pwd = "base" /\ dirs \in BuildBash

InShell == {"exec", "glob", "grep", "mount", "unmount"}

(* session.bash.lock(), to keep it or to clone the file system and let go *)
Acquire(w) ==
    /\ At(w, "called") /\ lock = Nil /\ ~poisoned
    /\ Goto(w, IF Op(w) \in InShell THEN "shell" ELSE "fs")
    /\ lock' = IF Op(w) \in InShell THEN w ELSE Nil
    /\ UNCHANGED <<made, file, moved, poisoned, pwd, dirs>>

LockPoisoned(w) ==
    /\ At(w, "called") /\ poisoned
    /\ Return(w) /\ UNCHANGED <<made, file, bashVars>>

(* build_runtime panics: with the mutex held, that poisons it *)
ShellPanics(w) ==
    /\ At(w, "shell") /\ Op(w) \in {"exec", "glob", "grep"}
    /\ Return(w) /\ poisoned' = TRUE /\ lock' = Nil
    /\ UNCHANGED <<made, file, pwd, dirs>>

FsPanics(w) ==
    /\ call[w].pc \in {"fs", "edit"}
    /\ Return(w) /\ UNCHANGED <<made, file, bashVars>>

(* A call that has the interpreter is over. *)
Done(w) == Return(w) /\ lock' = Nil

-----------------------------------------------------------------------------
(* Mutant: the command runs where the interpreter happens to be unless a directory is given. *)
ExecCdGiven(w) ==
    /\ At(w, "shell") /\ Op(w) = "exec"
    /\ call' = [call EXCEPT ![w].pc = "command"]
    /\ pwd' = IF call[w].req.cwd \in dirs THEN call[w].req.cwd ELSE pwd
    /\ UNCHANGED <<made, file, moved, lock, poisoned, dirs>>

(* exec: the script is "cd target && command"; with the directory there the command runs in it *)
ExecCd(w) ==
    /\ At(w, "shell") /\ Op(w) = "exec" /\ TargetOf(call[w].req) \in dirs
    /\ call' = [call EXCEPT ![w].pc = "command"]
    /\ pwd' = TargetOf(call[w].req)
    /\ UNCHANGED <<made, file, moved, lock, poisoned, dirs>>

(* No directory is asked for, or it is not there and the failing cd skips the first list of
   the command only (a; b, a || b, further lines): the interpreter stays where it was left. *)
ExecAstray(w) ==
    /\ At(w, "shell") /\ Op(w) = "exec" /\ TargetOf(call[w].req) \notin dirs
    /\ Goto(w, "astray") /\ UNCHANGED <<made, file, moved, bashVars>>

(* The script does not parse, or all of the command hangs on a cd that fails. *)
ExecCdFails(w) ==
    /\ At(w, "shell") /\ Op(w) = "exec"
    /\ Done(w) /\ UNCHANGED <<made, file, poisoned, pwd, dirs>>

(* The command starts; it changes files, makes or removes a directory, goes elsewhere. *)
ExecRuns(w) ==
    /\ call[w].pc \in {"command", "astray"} /\ call[w].ran = Nil
    /\ call' = [call EXCEPT ![w].ran = pwd]
    /\ \/ UNCHANGED <<file, moved, dirs, pwd>>
       \/ "sub" \in dirs /\ Put(w, <<OldText, OldText>>) /\ UNCHANGED <<dirs, pwd>>
       \/ dirs' = dirs \ {"sub"} /\ Put(w, NoFile) /\ UNCHANGED pwd
       \/ pwd' \in dirs /\ UNCHANGED <<file, moved, dirs>>
    /\ UNCHANGED <<made, lock, poisoned>>

(* It ends, with whatever exit code, or the interpreter gives it up. *)
ExecEnds(w) ==
    /\ call[w].pc \in {"command", "astray"} /\ call[w].ran # Nil
    /\ Done(w) /\ UNCHANGED <<made, file, poisoned, pwd, dirs>>

(* What runs under the lock never ends by itself: a command, or a glob, a grep or a mount,
   which have no time limit. *)
ShellHangs(w) ==
    /\ \/ call[w].pc \in {"command", "astray"} /\ call[w].ran # Nil
       \/ At(w, "shell") /\ Op(w) \in {"glob", "grep", "mount"}
    /\ Goto(w, "hung") /\ UNCHANGED <<made, file, moved, bashVars>>

(* A file of a mount does not answer: no time limit either, but no lock. *)
FsHangs(w) ==
    /\ call[w].pc \in {"fs", "parent", "edit"}
    /\ Goto(w, "hung") /\ UNCHANGED <<made, file, moved, bashVars>>

(* Mutant: the interpreter stays taken by the command that was given up. *)
ExecTimesOutKept(w) ==
    /\ call[w].pc \in {"shell", "command", "astray", "hung"} /\ Op(w) = "exec" /\ call[w].req.timed
    /\ Return(w) /\ UNCHANGED <<made, file, bashVars>>

(* tokio::time::timeout: the command is dropped where it is, and so is the guard *)
ExecTimesOut(w) ==
    /\ call[w].pc \in {"shell", "command", "astray", "hung"} /\ Op(w) = "exec" /\ call[w].req.timed
    /\ Done(w) /\ UNCHANGED <<made, file, poisoned, pwd, dirs>>

-----------------------------------------------------------------------------
(* glob: a pattern that is not safe is answered without the interpreter; otherwise it goes to
   the directory, if there is one and it is given, and stays there *)
GlobRuns(w) ==
    /\ At(w, "shell") /\ Op(w) = "glob"
    /\ \E safe \in BOOLEAN :
          pwd' = IF safe /\ call[w].req.cwd \in dirs THEN call[w].req.cwd ELSE pwd
    /\ Done(w) /\ UNCHANGED <<made, file, poisoned, dirs>>

(* grep: whatever it finds it changes nothing *)
GrepRuns(w) ==
    /\ At(w, "shell") /\ Op(w) = "grep"
    /\ Done(w) /\ UNCHANGED <<made, file, poisoned, pwd, dirs>>

(* mount: a host path that is none, a place that is taken, or it is there *)
Mount(w) ==
    /\ At(w, "shell") /\ Op(w) = "mount"
    /\ dirs' \in {dirs, dirs \cup {"mnt"}}
    /\ Done(w) /\ UNCHANGED <<made, file, poisoned, pwd>>

Unmount(w) ==
    /\ At(w, "shell") /\ Op(w) = "unmount"
    /\ dirs' = dirs \ {"mnt"}
    /\ Done(w) /\ UNCHANGED <<made, file, poisoned, pwd>>

-----------------------------------------------------------------------------
(* read_file *)
ReadFile(w) ==
    /\ At(w, "fs") /\ Op(w) = "read"
    /\ Return(w) /\ UNCHANGED <<made, file, bashVars>>

(* write_file: the directory, whether or not it can be made, *)
MakeParent(w) ==
    /\ At(w, "fs") /\ Op(w) = "write"
    /\ Goto(w, "parent")
    /\ dirs' \in {dirs, dirs \cup {"sub"}}
    /\ UNCHANGED <<made, file, moved, lock, poisoned, pwd>>

(* and then the file, if the directory is there *)
WriteFile(w) ==
    /\ At(w, "parent") /\ "sub" \in dirs
    /\ call' = [call EXCEPT ![w] = Idle]
    /\ Put(w, call[w].req.text)
    /\ UNCHANGED <<made, bashVars>>

WriteFileFails(w) ==
    /\ At(w, "parent")
    /\ Return(w) /\ UNCHANGED <<made, file, bashVars>>

(* String::from_utf8_lossy: bytes that are not UTF-8 are lost *)
Lossy(content) == [i \in DOMAIN content |-> IF content[i] = RawText THEN Replaced ELSE content[i]]

(* edit_file: the file is read; without exactly one occurrence that is all *)
EditRead(w) ==
    /\ At(w, "fs") /\ Op(w) = "edit"
    /\ IF file = NoFile \/ Edited(Lossy(file)) = Nil
       THEN Return(w)
       ELSE call' = [call EXCEPT ![w].pc = "edit", ![w].got = file] /\ UNCHANGED moved
    /\ UNCHANGED <<made, file, bashVars>>

(* and written, with what may have become of it meanwhile left out of account *)
EditWrite(w) ==
    /\ At(w, "edit") /\ "sub" \in dirs
    /\ call' = [call EXCEPT ![w] = Idle]
    /\ Put(w, Edited(Lossy(call[w].got)))
    /\ UNCHANGED <<made, bashVars>>

EditWriteFails(w) ==
    /\ At(w, "edit")
    /\ Return(w) /\ UNCHANGED <<made, file, bashVars>>

(* A step of the call w is at; one that hangs has none but for its time limit. *)
BashStep(w) ==
    \/ Acquire(w) \/ LockPoisoned(w) \/ ShellPanics(w) \/ FsPanics(w)
    \/ ExecCd(w) \/ ExecAstray(w) \/ ExecCdFails(w) \/ ExecRuns(w) \/ ExecEnds(w) \/ ExecTimesOut(w)
    \/ GlobRuns(w) \/ GrepRuns(w) \/ Mount(w) \/ Unmount(w)
    \/ ReadFile(w) \/ MakeParent(w) \/ WriteFile(w) \/ WriteFileFails(w)
    \/ EditRead(w) \/ EditWrite(w) \/ EditWriteFails(w)

BashNext == \E w \in Workers : BashStep(w) \/ ShellHangs(w) \/ FsHangs(w)
=============================================================================
