---------------------------- MODULE SandboxProofs ----------------------------
(***************************************************************************)
(* What holds of the calls on a sandbox for any number of workers, calls   *)
(* and requests.                                                           *)
(***************************************************************************)
EXTENDS Sandboxes, FiniteSetTheorems, TLAPS

(* A call is a record, and what is under way was asked for. *)
CallShape ==
    /\ DOMAIN call = Workers
    /\ \A w \in Workers :
          /\ DOMAIN call[w] = {"req", "pc", "got", "ran"}
          /\ call[w].pc # "idle" => call[w].req \in Requests
          /\ call[w].pc = "parent" => Op(w) = "write" \/ call[w].got # Nil
          /\ call[w].ran # Nil => call[w].pc \in {"command", "astray", "hung"}

(* What an edit takes a content for. *)
Decoded(content) == IF backend = "bashkit" THEN Lossy(content) ELSE content

(* The file is a number of texts, and so is whatever was read of it to be edited: one in
   which the old text occurs once. *)
FileShape ==
    /\ backend \in {"bashkit", "microsandbox"}
    /\ file = NoFile \/ IsFiniteSet(DOMAIN file)
    /\ \A w \in Workers : At(w, "edit") \/ call[w].got # Nil
          => IsFiniteSet(DOMAIN call[w].got) /\ Edited(Decoded(call[w].got)) # Nil

(* The interpreter and the runtime are held by the one call that is on them; one that hangs
   on a file has let go of the interpreter. *)
OneHolder ==
    \A w \in Workers :
        /\ backend = "bashkit" /\ call[w].pc \in {"shell", "command", "astray"} => lock = w /\ Op(w) \in InShell
        /\ backend = "bashkit" /\ call[w].pc \in {"fs", "parent", "edit"} => Op(w) \notin InShell
        /\ backend = "bashkit" /\ At(w, "hung") /\ Op(w) \in InShell => lock = w
        /\ backend = "microsandbox" /\ call[w].pc \in {"guest", "parent", "command", "hung", "stopping"}
              => runtime = w

(* Between cd and the command nobody moves the interpreter. *)
CdHolds ==
    backend = "bashkit" =>
        /\ Nil \notin dirs
        /\ \A w \in Workers : At(w, "command") /\ call[w].ran = Nil => pwd = TargetOf(call[w].req) /\ pwd # Nil

(* Only an edit keeps what it has read, and it is what the file still is unless the file
   was moved under it. *)
ReadByEdit ==
    \A w \in Workers : call[w].got # Nil =>
        /\ Op(w) = "edit"
        /\ backend = "bashkit" => call[w].pc \in {"edit", "hung"}
        /\ backend = "microsandbox" => call[w].pc \in {"edit", "cloned", "guest", "parent", "hung"}
        /\ w \notin moved => call[w].got = file

(* The virtual sandbox never touches the other one's handle. *)
HandleKept == backend = "bashkit" => handle

SandboxInv ==
    CallShape /\ FileShape /\ OneHolder /\ CdHolds /\ ReadByEdit /\ HandleKept /\ ExecInItsCwd /\ VmAccounted

(* A step of w in its call, and of nobody else in theirs. *)
Moves(w, req, pc, got, ran) ==
    /\ DOMAIN call' = Workers /\ DOMAIN call'[w] = {"req", "pc", "got", "ran"}
    /\ call'[w].req = req /\ call'[w].pc = pc /\ call'[w].got = got /\ call'[w].ran = ran
    /\ \A v \in Workers \ {w} : call'[v] = call[v]

-----------------------------------------------------------------------------
(* Going on in a call changes nothing but where it is. *)
LEMMA GotoMoves ==
    ASSUME CallShape, NEW w \in Workers, NEW pc, Goto(w, pc)
    PROVE  Moves(w, call[w].req, pc, call[w].got, call[w].ran)
BY DEF CallShape, Goto, Moves

(* A call that returns leaves its worker idle. *)
LEMMA ReturnMoves ==
    ASSUME CallShape, NEW w \in Workers, call' = [call EXCEPT ![w] = Idle]
    PROVE  Moves(w, Nil, "idle", Nil, Nil)
BY DEF CallShape, Idle, Moves

(* A call begins with nothing read and nothing run. *)
LEMMA CallMoves ==
    ASSUME CallShape, NEW w \in Workers, NEW r,
           call' = [call EXCEPT ![w] = [Idle EXCEPT !.req = r, !.pc = "called"]]
    PROVE  Moves(w, r, "called", Nil, Nil)
BY DEF CallShape, Idle, Moves

(* An edit that goes on keeps what it has read. *)
LEMMA ReadMoves ==
    ASSUME CallShape, NEW w \in Workers, call' = [call EXCEPT ![w].pc = "edit", ![w].got = file]
    PROVE  Moves(w, call[w].req, "edit", file, call[w].ran)
BY DEF CallShape, Moves

(* What a command does it does in a directory. *)
LEMMA RanMoves ==
    ASSUME CallShape, NEW w \in Workers, NEW d, call' = [call EXCEPT ![w].ran = d]
    PROVE  Moves(w, call[w].req, call[w].pc, call[w].got, d)
BY DEF CallShape, Moves

LEMMA GuestRanMoves ==
    ASSUME CallShape, NEW w \in Workers, NEW d, call' = [call EXCEPT ![w].pc = "command", ![w].ran = d]
    PROVE  Moves(w, call[w].req, "command", call[w].got, d)
BY DEF CallShape, Moves

(* An edit writes as many texts as it has read. *)
LEMMA EditedFinite ==
    ASSUME NEW content, IsFiniteSet(DOMAIN content), Edited(content) # Nil
    PROVE  IsFiniteSet(DOMAIN Edited(content))
BY DEF Edited

(* What a command writes is finite. *)
LEMMA WrittenFinite == IsFiniteSet(DOMAIN <<OldText>>) /\ IsFiniteSet(DOMAIN <<OldText, OldText>>)
<1>1. IsFiniteSet(1..1) /\ IsFiniteSet(1..2)
  <2>1. \A n \in Nat : IsFiniteSet(1..n)
    BY FS_Interval
  <2> QED BY <2>1
<1>2. DOMAIN <<OldText>> = 1..1 /\ DOMAIN <<OldText, OldText>> = 1..2
  OBVIOUS
<1> QED BY <1>1, <1>2

(* Decoding changes the bytes that are not UTF-8 and nothing else. *)
LEMMA DecodedKeeps ==
    ASSUME NEW content
    PROVE  /\ DOMAIN Decoded(content) = DOMAIN content
           /\ \A j \in DOMAIN content :
                 /\ Decoded(content)[j] = OldText <=> content[j] = OldText
                 /\ Decoded(content)[j] = content[j] \/ (backend = "bashkit" /\ content[j] = RawText)
BY DEF Decoded, Lossy, OldText, RawText, Replaced

(* A text that an edit replaces occurs at one place, and only that place changes. *)
LEMMA EditedOnce ==
    ASSUME NEW content, IsFiniteSet(DOMAIN content), Edited(content) # Nil
    PROVE  /\ DOMAIN Edited(content) = DOMAIN content
           /\ \E i \in DOMAIN content :
                 /\ content[i] = OldText /\ Edited(content)[i] = NewText
                 /\ \A j \in DOMAIN content \ {i} : Edited(content)[j] = content[j]
<1> DEFINE S == {i \in DOMAIN content : content[i] = OldText}
<1>1. Cardinality(S) = 1
  BY DEF Edited, Occurrences
<1>2. IsFiniteSet(S)
  BY FS_Subset
<1>3. PICK i : S = {i}
  BY <1>1, <1>2, FS_Singleton
<1>4. Edited(content) = [j \in DOMAIN content |-> IF content[j] = OldText THEN NewText ELSE content[j]]
  BY DEF Edited
<1>5. i \in DOMAIN content /\ content[i] = OldText /\ \A j \in DOMAIN content : content[j] = OldText <=> j = i
  BY <1>3
<1> QED BY <1>4, <1>5

-----------------------------------------------------------------------------
USE DEF Op, At

(* A new sandbox. *)
LEMMA SandboxInit == Init => SandboxInv
<1> SUFFICES ASSUME Init PROVE SandboxInv
  OBVIOUS
<1>1. \A w \in Workers : call[w] = Idle
  BY DEF Init, CallsInit
<1>2. CallShape /\ OneHolder /\ CdHolds /\ ReadByEdit /\ HandleKept /\ ExecInItsCwd /\ VmAccounted
  BY <1>1, CallsAssumption
     DEF Init, CallsInit, MicroInit, BashInit, BuildBash, Idle, CallShape, OneHolder, CdHolds, TargetOf, ReadByEdit,
         HandleKept, ExecInItsCwd, VmAccounted
<1>3. FileShape
  BY <1>1, WrittenFinite DEF Init, CallsInit, Idle, FileShape, Decoded
<1> QED BY <1>2, <1>3 DEF SandboxInv

(* A worker calls. *)
LEMMA CallsKeeps ==
    ASSUME SandboxInv, NEW w \in Workers, Calls(w)
    PROVE  SandboxInv'
<1>1. PICK r \in Requests : Call(w, r)
  BY DEF Calls
<1>2. Moves(w, r, "called", Nil, Nil)
  BY <1>1, CallMoves DEF Call, SandboxInv
<1>3. At(w, "idle") /\ UNCHANGED <<file, moved, bashVars, microVars, base, backend>>
  BY <1>1 DEF Calls, Call
<1>4. (CallShape /\ OneHolder /\ CdHolds /\ ReadByEdit /\ HandleKept)'
  BY <1>2, <1>3
     DEF SandboxInv, Moves, bashVars, microVars, CallShape, OneHolder, CdHolds, TargetOf, ReadByEdit, HandleKept
<1>5. (FileShape /\ ExecInItsCwd /\ VmAccounted)'
  BY <1>2, <1>3 DEF SandboxInv, Moves, bashVars, microVars, FileShape, Decoded, ExecInItsCwd, VmAccounted
<1> QED BY <1>4, <1>5 DEF SandboxInv

(* A call on the interpreter returns, lets go of the interpreter if it has it, and leaves it
   where it is unless it has it. *)
LEMMA BashReturnKeeps ==
    ASSUME SandboxInv, OnBashkit, NEW w \in Workers, Return(w), file' = file,
           lock' = lock \/ lock = w, pwd' = pwd \/ lock = w, Nil \notin dirs'
    PROVE  SandboxInv'
<1>1. Moves(w, Nil, "idle", Nil, Nil)
  BY ReturnMoves DEF Return, SandboxInv
<1>2. (CallShape /\ OneHolder /\ CdHolds /\ ReadByEdit /\ HandleKept)'
  BY <1>1 DEF SandboxInv, Moves, Return, OnBashkit, microVars, CallShape, OneHolder, CdHolds, TargetOf, ReadByEdit, HandleKept
<1>3. (FileShape /\ ExecInItsCwd /\ VmAccounted)'
  BY <1>1 DEF SandboxInv, Moves, Return, OnBashkit, microVars, FileShape, Decoded, ExecInItsCwd, VmAccounted, HandleKept
<1> QED BY <1>2, <1>3 DEF SandboxInv

(* The calls on the interpreter that return. *)
LEMMA BashReturns ==
    ASSUME SandboxInv, OnBashkit, NEW w \in Workers,
           \/ LockPoisoned(w) \/ ShellPanics(w) \/ FsPanics(w)
           \/ ExecCdFails(w) \/ ExecEnds(w) \/ ExecTimesOut(w)
           \/ GlobRuns(w) \/ GrepRuns(w) \/ Mount(w) \/ Unmount(w)
           \/ ReadFile(w) \/ WriteFileFails(w) \/ EditWriteFails(w)
    PROVE  SandboxInv'
<1>1. /\ call[w].pc \in {"shell", "command", "astray"} => lock = w
      /\ At(w, "hung") /\ Op(w) = "exec" => lock = w
  BY DEF SandboxInv, OneHolder, OnBashkit, InShell
<1>2. Return(w) /\ file' = file /\ (lock' = lock \/ lock = w) /\ (pwd' = pwd \/ lock = w)
  BY <1>1 DEF LockPoisoned, ShellPanics, FsPanics, ExecCdFails, ExecEnds, ExecTimesOut, GlobRuns,
              GrepRuns, Mount, Unmount, ReadFile, WriteFileFails, EditWriteFails, Done, bashVars
<1>3. dirs' \in {dirs, dirs \cup {"mnt"}, dirs \ {"mnt"}}
  BY DEF LockPoisoned, ShellPanics, FsPanics, ExecCdFails, ExecEnds, ExecTimesOut, GlobRuns,
         GrepRuns, Mount, Unmount, ReadFile, WriteFileFails, EditWriteFails, bashVars
<1>4. Nil \notin dirs'
  BY <1>3, CallsAssumption DEF SandboxInv, CdHolds, TargetOf, OnBashkit
<1> QED BY <1>2, <1>4, BashReturnKeeps

(* A call takes the interpreter, makes a directory, goes on without one, or hangs. *)
LEMMA BashGoesOn ==
    ASSUME SandboxInv, OnBashkit, NEW w \in Workers,
           Acquire(w) \/ MakeParent(w) \/ ExecAstray(w) \/ ShellHangs(w) \/ FsHangs(w)
    PROVE  SandboxInv'
<1>1. PICK next : Goto(w, next)
  BY DEF Acquire, MakeParent, ExecAstray, ShellHangs, FsHangs
<1>2. Moves(w, call[w].req, next, call[w].got, call[w].ran)
  BY <1>1, GotoMoves DEF SandboxInv
<1>3. /\ UNCHANGED <<file, moved, pwd>> /\ dirs' \in {dirs, dirs \cup {"sub"}}
      /\ \/ next = "fs" /\ At(w, "called") /\ lock' = lock /\ Op(w) \notin InShell
         \/ next = "shell" /\ At(w, "called") /\ lock = Nil /\ lock' = w /\ Op(w) \in InShell
         \/ next = "parent" /\ At(w, "fs") /\ Op(w) = "write" /\ lock' = lock
         \/ next = "astray" /\ At(w, "shell") /\ lock' = lock
         \/ next = "hung" /\ call[w].pc \in {"shell", "command", "astray", "fs", "parent", "edit"} /\ lock' = lock
  BY <1>2 DEF Acquire, MakeParent, ExecAstray, ShellHangs, FsHangs, bashVars, Moves, Goto
<1>4. (CallShape /\ ReadByEdit /\ HandleKept)'
  BY <1>2, <1>3
     DEF SandboxInv, Moves, OnBashkit, microVars, CallShape, ReadByEdit, HandleKept
<1>5. (OneHolder /\ CdHolds)'
  BY <1>2, <1>3, CallsAssumption
     DEF SandboxInv, Moves, OnBashkit, OneHolder, CdHolds, TargetOf
<1>6. (FileShape /\ ExecInItsCwd /\ VmAccounted)'
  BY <1>2, <1>3
     DEF SandboxInv, Moves, OnBashkit, microVars, FileShape, Decoded, ExecInItsCwd, VmAccounted, HandleKept
<1> QED BY <1>4, <1>5, <1>6 DEF SandboxInv

(* cd: the interpreter is where the command is to run. *)
LEMMA ExecCdKeeps ==
    ASSUME SandboxInv, OnBashkit, NEW w \in Workers, ExecCd(w)
    PROVE  SandboxInv'
<1>1. Moves(w, call[w].req, "command", call[w].got, call[w].ran)
  BY GotoMoves DEF ExecCd, SandboxInv, Goto
<1>2. /\ lock = w /\ At(w, "shell") /\ Op(w) \in InShell /\ call[w].ran = Nil
      /\ UNCHANGED <<file, moved, lock, dirs>> /\ pwd' = TargetOf(call[w].req) /\ pwd' \in dirs
  BY DEF ExecCd, SandboxInv, CallShape, OneHolder, OnBashkit
<1>3. (CallShape /\ OneHolder /\ ReadByEdit /\ HandleKept)'
  BY <1>1, <1>2
     DEF SandboxInv, Moves, OnBashkit, microVars, CallShape, OneHolder, ReadByEdit, HandleKept
<1>4. CdHolds'
  BY <1>1, <1>2 DEF SandboxInv, Moves, OnBashkit, OneHolder, CdHolds, TargetOf
<1>5. (FileShape /\ ExecInItsCwd /\ VmAccounted)'
  BY <1>1, <1>2
     DEF SandboxInv, Moves, OnBashkit, microVars, FileShape, Decoded, ExecInItsCwd, VmAccounted, HandleKept
<1> QED BY <1>3, <1>4, <1>5 DEF SandboxInv

(* The command starts, in the directory of its call. *)
LEMMA ExecRunsKeeps ==
    ASSUME SandboxInv, OnBashkit, NEW w \in Workers, ExecRuns(w)
    PROVE  SandboxInv'
<1>1. Moves(w, call[w].req, call[w].pc, call[w].got, pwd)
  BY RanMoves DEF ExecRuns, SandboxInv
<1>2. /\ lock = w /\ call[w].pc \in {"command", "astray"} /\ call[w].ran = Nil /\ lock' = lock
      /\ dirs' \in {dirs, dirs \ {"sub"}}
      /\ \/ UNCHANGED <<file, moved>>
         \/ (file' = <<OldText, OldText>> \/ file' = NoFile) /\ moved' = {v \in Workers \ {w} : call[v].got # Nil}
  BY DEF ExecRuns, SandboxInv, OneHolder, OnBashkit, Put
<1>3. At(w, "command") => pwd = TargetOf(call[w].req) /\ pwd # Nil
  BY <1>2 DEF SandboxInv, CdHolds, TargetOf, OnBashkit
<1>4. call[w].got = Nil
  BY <1>2 DEF SandboxInv, ReadByEdit, OnBashkit
<1>5. (CallShape /\ ReadByEdit /\ HandleKept)'
  BY <1>1, <1>2, <1>4
     DEF SandboxInv, Moves, OnBashkit, microVars, CallShape, ReadByEdit, HandleKept
<1>6. (OneHolder /\ CdHolds)'
  BY <1>1, <1>2, <1>3 DEF SandboxInv, Moves, OnBashkit, OneHolder, CdHolds, TargetOf
<1>7. FileShape'
  BY <1>1, <1>2, <1>4, WrittenFinite DEF SandboxInv, Moves, OnBashkit, FileShape, Decoded
<1>8. (ExecInItsCwd /\ VmAccounted)'
  BY <1>1, <1>3
     DEF SandboxInv, Moves, OnBashkit, microVars, ExecInItsCwd, VmAccounted, HandleKept, TargetOf
<1> QED BY <1>5, <1>6, <1>7, <1>8 DEF SandboxInv

(* A file is written, by write or by edit: whoever has read it holds an old content. *)
LEMMA BashPutKeeps ==
    ASSUME SandboxInv, OnBashkit, NEW w \in Workers, WriteFile(w) \/ EditWrite(w)
    PROVE  SandboxInv'
<1>1. Moves(w, Nil, "idle", Nil, Nil)
  BY ReturnMoves DEF WriteFile, EditWrite, SandboxInv
<1>2. UNCHANGED <<lock, pwd, dirs>> /\ moved' = {v \in Workers \ {w} : call[v].got # Nil}
  BY DEF WriteFile, EditWrite, Put, bashVars
<1>3. IsFiniteSet(DOMAIN file')
  <2>1. CASE WriteFile(w)
    <3>1. Op(w) = "write" /\ call[w].req \in Requests
      BY <2>1 DEF WriteFile, SandboxInv, CallShape, ReadByEdit, OnBashkit
    <3> QED BY <2>1, <3>1, CallsAssumption DEF WriteFile, Put
  <2>2. CASE EditWrite(w)
    <3>1. file' = Edited(Decoded(call[w].got))
      BY <2>2 DEF EditWrite, Put, Decoded, OnBashkit
    <3>2. IsFiniteSet(DOMAIN Decoded(call[w].got)) /\ Edited(Decoded(call[w].got)) # Nil
      BY <2>2, DecodedKeeps DEF EditWrite, SandboxInv, FileShape, Decoded
    <3> QED BY <3>1, <3>2, EditedFinite
  <2> QED BY <2>1, <2>2
<1>4. (CallShape /\ OneHolder /\ CdHolds /\ ReadByEdit /\ HandleKept)'
  BY <1>1, <1>2
     DEF SandboxInv, Moves, OnBashkit, microVars, CallShape, OneHolder, CdHolds, TargetOf, ReadByEdit, HandleKept
<1>5. (FileShape /\ ExecInItsCwd /\ VmAccounted)'
  BY <1>1, <1>2, <1>3
     DEF SandboxInv, Moves, OnBashkit, microVars, FileShape, Decoded, ExecInItsCwd, VmAccounted, HandleKept
<1> QED BY <1>4, <1>5 DEF SandboxInv

(* An edit reads the file. *)
LEMMA EditReadKeeps ==
    ASSUME SandboxInv, OnBashkit, NEW w \in Workers, EditRead(w)
    PROVE  SandboxInv'
<1>1. CASE file = NoFile \/ Edited(Lossy(file)) = Nil
  <2>1. Nil \notin dirs'
    BY DEF EditRead, bashVars, SandboxInv, CdHolds, TargetOf, OnBashkit
  <2> QED BY <1>1, <2>1, BashReturnKeeps DEF EditRead, bashVars
<1>2. CASE ~(file = NoFile \/ Edited(Lossy(file)) = Nil)
  <2>1. Moves(w, call[w].req, "edit", file, call[w].ran)
    BY <1>2, ReadMoves DEF EditRead, SandboxInv
  <2>2. UNCHANGED <<file, moved, lock, pwd, dirs>> /\ At(w, "fs") /\ Op(w) = "edit"
    BY <1>2 DEF EditRead, bashVars
  <2>3. (CallShape /\ OneHolder /\ CdHolds /\ ReadByEdit /\ HandleKept)'
    BY <2>1, <2>2
       DEF SandboxInv, Moves, OnBashkit, microVars, CallShape, OneHolder, CdHolds, TargetOf, ReadByEdit, HandleKept
  <2>4. (FileShape /\ ExecInItsCwd /\ VmAccounted)'
    BY <1>2, <2>1, <2>2
       DEF SandboxInv, Moves, OnBashkit, microVars, FileShape, Decoded, ExecInItsCwd, VmAccounted, HandleKept
  <2> QED BY <2>3, <2>4 DEF SandboxInv
<1> QED BY <1>1, <1>2

-----------------------------------------------------------------------------
(* A call on the guest returns and lets go of the runtime if it has it; the VM may be
   stopped by it, and a shutdown that gives up leaves the runtime poisoned. *)
LEMMA MicroReturnKeeps ==
    ASSUME SandboxInv, OnMicrosandbox, NEW w \in Workers, Return(w), file' = file,
           runtime' = runtime \/ runtime = w,
           vm' \in {vm, "stopped", "stuck"}, handle => handle', panicked => panicked',
           call[w].pc \in {"taken", "stopping"} => panicked' \/ vm' # "running"
    PROVE  SandboxInv'
<1>1. Moves(w, Nil, "idle", Nil, Nil)
  BY ReturnMoves DEF Return, SandboxInv
<1>2. (CallShape /\ OneHolder /\ CdHolds /\ ReadByEdit /\ HandleKept)'
  BY <1>1
     DEF SandboxInv, Moves, Return, OnMicrosandbox, bashVars, CallShape, OneHolder, CdHolds, TargetOf,
         ReadByEdit, HandleKept
<1>3. (FileShape /\ ExecInItsCwd)'
  BY <1>1 DEF SandboxInv, Moves, Return, OnMicrosandbox, FileShape, Decoded, ExecInItsCwd
<1>4. VmAccounted'
  BY <1>1 DEF SandboxInv, Moves, VmAccounted
<1> QED BY <1>2, <1>3, <1>4 DEF SandboxInv

(* The calls on the guest that return. *)
LEMMA MicroReturns ==
    ASSUME SandboxInv, OnMicrosandbox, NEW w \in Workers,
           \/ RuntimePoisoned(w) \/ GuestPanics(w) \/ GuestFails(w)
           \/ GuestExecEnds(w) \/ GuestExecTimesOut(w) \/ Stop(w)
    PROVE  SandboxInv'
<1>1. call[w].pc \in {"guest", "parent", "command", "hung", "stopping"} => runtime = w
  BY DEF SandboxInv, OneHolder, OnMicrosandbox
<1>2. /\ Return(w) /\ file' = file /\ (runtime' = runtime \/ runtime = w)
      /\ vm' \in {vm, "stopped", "stuck"} /\ (handle => handle') /\ (panicked => panicked')
      /\ call[w].pc \in {"taken", "stopping"} => panicked' \/ vm' # "running"
  BY <1>1 DEF RuntimePoisoned, GuestPanics, GuestFails, GuestExecEnds, GuestExecTimesOut, Stop,
              Finished, microVars
<1> QED BY <1>2, MicroReturnKeeps

(* A call clones the handle or takes it, takes the runtime, goes back to the handle, or hangs. *)
LEMMA MicroGoesOn ==
    ASSUME SandboxInv, OnMicrosandbox, NEW w \in Workers, NEW next, Goto(w, next),
           UNCHANGED <<file, moved, panicked>>, vm' = vm \/ vm' = "stopping",
           \/ next = "cloned" /\ call[w].pc \in {"called", "edit"} /\ UNCHANGED <<runtime, handle>>
           \/ next = "guest" /\ At(w, "cloned") /\ runtime = Nil /\ runtime' = w /\ handle' = handle
           \/ next = "stopping" /\ At(w, "taken") /\ runtime = Nil /\ runtime' = w /\ handle' = handle
           \/ next = "taken" /\ At(w, "called") /\ runtime' = runtime
           \/ /\ next = "parent" /\ At(w, "guest") /\ UNCHANGED <<runtime, handle>>
              /\ Op(w) = "write" \/ call[w].got # Nil
           \/ /\ next = "hung" /\ call[w].pc \in {"guest", "parent", "command", "stopping"}
              /\ UNCHANGED <<runtime, handle>> /\ (At(w, "stopping") => vm' = "stopping")
    PROVE  SandboxInv'
<1>1. Moves(w, call[w].req, next, call[w].got, call[w].ran)
  BY GotoMoves DEF SandboxInv
<1>2. (CallShape /\ OneHolder /\ CdHolds /\ ReadByEdit /\ HandleKept)'
  BY <1>1, CallsAssumption
     DEF SandboxInv, Moves, OnMicrosandbox, bashVars, CallShape, OneHolder, CdHolds, TargetOf, ReadByEdit, HandleKept
<1>3. (FileShape /\ ExecInItsCwd)'
  BY <1>1 DEF SandboxInv, Moves, OnMicrosandbox, FileShape, Decoded, ExecInItsCwd, ReadByEdit
<1>4. VmAccounted'
  BY <1>1 DEF SandboxInv, Moves, VmAccounted
<1> QED BY <1>2, <1>3, <1>4 DEF SandboxInv

(* clone_sandbox, for a call or for the second half of an edit, and take_sandbox: without the
   handle the call returns. *)
LEMMA HandleStepKeeps ==
    ASSUME SandboxInv, OnMicrosandbox, NEW w \in Workers,
           CloneSandbox(w) \/ WriteBack(w) \/ TakeSandbox(w)
    PROVE  SandboxInv'
<1>1. CASE CloneSandbox(w) \/ WriteBack(w)
  <2>1. CASE handle
    BY <1>1, <2>1, MicroGoesOn DEF CloneSandbox, WriteBack, microVars
  <2>2. CASE ~handle
    BY <1>1, <2>2, MicroReturnKeeps DEF CloneSandbox, WriteBack, microVars
  <2> QED BY <2>1, <2>2
<1>2. CASE TakeSandbox(w)
  <2>1. CASE handle
    BY <1>2, <2>1, MicroGoesOn DEF TakeSandbox
  <2>2. CASE ~handle
    BY <1>2, <2>2, MicroReturnKeeps DEF TakeSandbox
  <2> QED BY <2>1, <2>2
<1> QED BY <1>1, <1>2

(* The runtime is taken, the guest makes a directory, or a call hangs on it. *)
LEMMA RuntimeStepKeeps ==
    ASSUME SandboxInv, OnMicrosandbox, NEW w \in Workers,
           LockRuntime(w) \/ GuestMkdir(w) \/ GuestHangs(w) \/ StopHangs(w)
    PROVE  SandboxInv'
<1>1. CASE LockRuntime(w) /\ At(w, "cloned")
  BY <1>1, MicroGoesOn DEF LockRuntime
<1>2. CASE LockRuntime(w) /\ At(w, "taken")
  BY <1>2, MicroGoesOn DEF LockRuntime
<1>3. CASE GuestMkdir(w)
  BY <1>3, MicroGoesOn DEF GuestMkdir, microVars
<1>4. CASE GuestHangs(w)
  BY <1>4, MicroGoesOn DEF GuestHangs, microVars
<1>5. CASE StopHangs(w)
  BY <1>5, MicroGoesOn DEF StopHangs
<1> QED BY <1>1, <1>2, <1>3, <1>4, <1>5 DEF LockRuntime

(* The guest runs a command in the directory of its call. *)
LEMMA GuestExecKeeps ==
    ASSUME SandboxInv, OnMicrosandbox, NEW w \in Workers, GuestExec(w)
    PROVE  SandboxInv'
<1>1. Moves(w, call[w].req, "command", call[w].got, TargetOf(call[w].req))
  BY GuestRanMoves DEF GuestExec, SandboxInv
<1>2. /\ At(w, "guest") /\ UNCHANGED <<vm, handle, runtime, panicked>>
      /\ \/ UNCHANGED <<file, moved>>
         \/ (file' = <<OldText, OldText>> \/ file' = NoFile) /\ moved' = {v \in Workers \ {w} : call[v].got # Nil}
  BY DEF GuestExec, Put, microVars
<1>3. call[w].got = Nil
  BY DEF GuestExec, SandboxInv, ReadByEdit, OnMicrosandbox
<1>4. (CallShape /\ OneHolder /\ CdHolds /\ ReadByEdit /\ HandleKept)'
  BY <1>1, <1>2, <1>3
     DEF SandboxInv, Moves, OnMicrosandbox, bashVars, CallShape, OneHolder, CdHolds, TargetOf, ReadByEdit, HandleKept
<1>5. FileShape'
  BY <1>1, <1>2, <1>3, WrittenFinite DEF SandboxInv, Moves, OnMicrosandbox, FileShape, Decoded
<1>6. (ExecInItsCwd /\ VmAccounted)'
  BY <1>1, <1>2 DEF SandboxInv, Moves, OnMicrosandbox, ExecInItsCwd, VmAccounted, TargetOf
<1> QED BY <1>4, <1>5, <1>6 DEF SandboxInv

(* The guest reads the file, for a read or for the first half of an edit. *)
LEMMA GuestReadKeeps ==
    ASSUME SandboxInv, OnMicrosandbox, NEW w \in Workers, GuestRead(w)
    PROVE  SandboxInv'
<1>0. runtime = w /\ At(w, "guest")
  BY DEF GuestRead, SandboxInv, OneHolder, OnMicrosandbox
<1>1. CASE Op(w) = "edit" /\ file # NoFile /\ Edited(file) # Nil
  <2>1. Moves(w, call[w].req, "edit", file, call[w].ran)
    BY <1>1, ReadMoves DEF GuestRead, SandboxInv
  <2>2. UNCHANGED <<file, moved, vm, handle, panicked>> /\ runtime' = Nil
    BY <1>1 DEF GuestRead
  <2>3. (CallShape /\ OneHolder /\ CdHolds /\ ReadByEdit /\ HandleKept)'
    BY <1>0, <1>1, <2>1, <2>2
       DEF SandboxInv, Moves, OnMicrosandbox, bashVars, CallShape, OneHolder, CdHolds, TargetOf, ReadByEdit, HandleKept
  <2>4. (FileShape /\ ExecInItsCwd /\ VmAccounted)'
    BY <1>0, <1>1, <2>1, <2>2
       DEF SandboxInv, Moves, OnMicrosandbox, FileShape, Decoded, ExecInItsCwd, VmAccounted
  <2> QED BY <2>3, <2>4 DEF SandboxInv
<1>2. CASE ~(Op(w) = "edit" /\ file # NoFile /\ Edited(file) # Nil)
  BY <1>0, <1>2, MicroReturnKeeps DEF GuestRead
<1> QED BY <1>1, <1>2

(* The guest writes the file, for a write or for the second half of an edit. *)
LEMMA GuestWriteKeeps ==
    ASSUME SandboxInv, OnMicrosandbox, NEW w \in Workers, GuestWrite(w)
    PROVE  SandboxInv'
<1>0. runtime = w /\ At(w, "parent")
  BY DEF GuestWrite, SandboxInv, OneHolder, OnMicrosandbox
<1>1. Moves(w, Nil, "idle", Nil, Nil)
  BY ReturnMoves DEF GuestWrite, SandboxInv
<1>2. /\ UNCHANGED <<vm, handle, panicked>> /\ runtime' = Nil
      /\ moved' = {v \in Workers \ {w} : call[v].got # Nil}
  BY DEF GuestWrite, Put
<1>3. IsFiniteSet(DOMAIN file')
  <2>1. CASE Op(w) = "edit"
    <3>1. call[w].got # Nil /\ file' = Edited(Decoded(call[w].got))
      BY <1>0, <2>1 DEF GuestWrite, Put, SandboxInv, CallShape, Decoded, OnMicrosandbox
    <3>2. IsFiniteSet(DOMAIN Decoded(call[w].got)) /\ Edited(Decoded(call[w].got)) # Nil
      BY <3>1, DecodedKeeps DEF SandboxInv, FileShape, Decoded
    <3> QED BY <3>1, <3>2, EditedFinite
  <2>2. CASE Op(w) # "edit"
    <3>1. Op(w) = "write" /\ file' = call[w].req.text
      BY <1>0, <2>2 DEF GuestWrite, Put, SandboxInv, CallShape, ReadByEdit, OnMicrosandbox
    <3> QED BY <1>0, <3>1, CallsAssumption DEF SandboxInv, CallShape
  <2> QED BY <2>1, <2>2
<1>4. (CallShape /\ OneHolder /\ CdHolds /\ ReadByEdit /\ HandleKept)'
  BY <1>0, <1>1, <1>2
     DEF SandboxInv, Moves, OnMicrosandbox, bashVars, CallShape, OneHolder, CdHolds, TargetOf, ReadByEdit, HandleKept
<1>5. (FileShape /\ ExecInItsCwd /\ VmAccounted)'
  BY <1>0, <1>1, <1>2, <1>3
     DEF SandboxInv, Moves, OnMicrosandbox, FileShape, Decoded, ExecInItsCwd, VmAccounted
<1> QED BY <1>4, <1>5 DEF SandboxInv

(* The Session is dropped: nobody has taken the VM from it and not stopped it. *)
LEMMA DropKeeps ==
    ASSUME SandboxInv, OnMicrosandbox, Drop
    PROVE  SandboxInv'
<1>1. (CallShape /\ OneHolder /\ CdHolds /\ ReadByEdit /\ HandleKept)'
  BY DEF Drop, SandboxInv, OnMicrosandbox, callVars, bashVars, CallShape, OneHolder, CdHolds, TargetOf, ReadByEdit, HandleKept
<1>2. (FileShape /\ ExecInItsCwd)'
  BY DEF Drop, SandboxInv, OnMicrosandbox, callVars, FileShape, Decoded, ExecInItsCwd
<1>3. VmAccounted'
  BY DEF Drop, SandboxInv, callVars, VmAccounted
<1> QED BY <1>1, <1>2, <1>3 DEF SandboxInv

(* The sandbox's control state, on either backend, for any number of concurrent calls: every
   step of bashkit's and of microsandbox's lib.rs keeps it. *)
THEOREM SandboxInvariant == Spec => []SandboxInv
<1>1. Init => SandboxInv
  BY SandboxInit
<1>2. SandboxInv /\ [Next]_vars => SandboxInv'
  <2> SUFFICES ASSUME SandboxInv, [Next]_vars PROVE SandboxInv'
    OBVIOUS
  <2>1. ASSUME NEW w \in Workers, Calls(w) PROVE SandboxInv'
    BY <2>1, CallsKeeps
  <2>2. ASSUME OnBashkit, NEW w \in Workers, BashStep(w) \/ ShellHangs(w) \/ FsHangs(w) PROVE SandboxInv'
    BY <2>2, BashReturns, BashGoesOn, ExecCdKeeps, ExecRunsKeeps, BashPutKeeps, EditReadKeeps DEF BashStep
  <2>3. ASSUME OnMicrosandbox, NEW w \in Workers, MicroStep(w) \/ GuestHangs(w) \/ StopHangs(w) PROVE SandboxInv'
    BY <2>3, MicroReturns, HandleStepKeeps, RuntimeStepKeeps, GuestExecKeeps, GuestReadKeeps, GuestWriteKeeps
       DEF MicroStep
  <2>4. CASE OnMicrosandbox /\ Drop
    BY <2>4, DropKeeps
  <2>5. CASE UNCHANGED vars
    <3>1. UNCHANGED <<call, file, moved, lock, pwd, dirs, vm, handle, runtime, panicked, base, backend>>
      BY <2>5 DEF vars, callVars, bashVars, microVars
    <3> QED BY <3>1 DEF SandboxInv, CallShape, FileShape, OneHolder, CdHolds, ReadByEdit, HandleKept,
                        Decoded, TargetOf, ExecInItsCwd, VmAccounted
  <2> QED BY <2>1, <2>2, <2>3, <2>4, <2>5 DEF Next, BashNext, MicroNext
<1> QED BY <1>1, <1>2, PTL DEF Spec

(* Every command that has come past its cd runs in its own directory, whatever ran, moved
   about, timed out or panicked on the interpreter before (exec of bashkit's lib.rs: "cd
   target && command" under one lock; exec of microsandbox's). *)
THEOREM CommandsInTheirCwd == Spec => []ExecInItsCwd
BY SandboxInvariant, PTL DEF SandboxInv

(* No interleaving of shutdown, calls, panics and the drop of the Session forgets a VM that
   runs, but for a runtime that is poisoned (shutdown, Drop for Session). *)
THEOREM VmIsAccountedFor == Spec => []VmAccounted
BY SandboxInvariant, PTL DEF SandboxInv

(* The VM is stopped when no call has the runtime: shutdown waits for the runtime, and a Session is
   dropped when nobody calls (shutdown, Drop for Session). *)
THEOREM VmStopsAfterCalls == Spec => StopsAfterCalls
<1> DEFINE Quiet == vm' # vm => \A w \in Workers : call[w].pc \notin {"guest", "parent", "command", "hung"}
<1>1. SandboxInv /\ [Next]_vars => [Quiet]_vars
  <2> SUFFICES ASSUME SandboxInv, Next, vm' # vm,
                      NEW w \in Workers, call[w].pc \in {"guest", "parent", "command", "hung"}
               PROVE  FALSE
    BY DEF vars
  <2>1. OnMicrosandbox /\ MicroNext
    BY DEF Next, Calls, OnBashkit, microVars
  <2>2. runtime = w
    BY <2>1 DEF SandboxInv, OneHolder, OnMicrosandbox
  <2>3. ~Drop
    BY DEF Drop
  <2>4. PICK v \in Workers : Stop(v) \/ StopHangs(v)
    BY <2>1, <2>3 DEF MicroNext, MicroStep, CloneSandbox, LockRuntime, RuntimePoisoned, GuestPanics,
       GuestFails, GuestExec, GuestExecEnds, GuestExecTimesOut, GuestRead, WriteBack, GuestMkdir, GuestWrite,
       TakeSandbox, GuestHangs, Finished, microVars
  <2>5. At(v, "stopping") /\ runtime = v
    BY <2>1, <2>4 DEF Stop, StopHangs, SandboxInv, OneHolder, OnMicrosandbox
  <2> QED BY <2>2, <2>5
<1> QED BY <1>1, SandboxInvariant, PTL DEF Spec, StopsAfterCalls

(* An edit of a file nobody has changed since it was read replaces the one occurrence and
   keeps the rest, but for bytes that are not UTF-8 in the virtual sandbox, beside any other
   call (edit_file of bashkit's lib.rs, edit of microsandbox.ex). *)
THEOREM EditsArePrecise == Spec => EditPrecise
<1> DEFINE PreciseTo(f) ==
        /\ DOMAIN f = DOMAIN file
        /\ \E i \in DOMAIN file :
              /\ file[i] = OldText /\ f[i] = NewText
              /\ \A j \in DOMAIN file \ {i} : f[j] = file[j] \/ (backend = "bashkit" /\ file[j] = RawText)
           Precise ==
        \A w \in Workers \ moved : call[w].got # Nil /\ call'[w].got = Nil /\ file' # file => PreciseTo(file')
<1>1. SandboxInv /\ [Next]_vars => [Precise]_vars
  <2> SUFFICES ASSUME SandboxInv, Next, NEW w \in Workers \ moved,
                      call[w].got # Nil, call'[w].got = Nil, file' # file
               PROVE  PreciseTo(file')
    BY DEF vars
  <2>1. call[w].got = file /\ IsFiniteSet(DOMAIN file) /\ Edited(Decoded(file)) # Nil
    BY DEF SandboxInv, ReadByEdit, FileShape, Decoded
  <2>2. file' = Edited(Decoded(call[w].got))
    <3>0. Op(w) = "edit"
      BY DEF SandboxInv, ReadByEdit
    <3>1. ASSUME OnBashkit, NEW v \in Workers, BashStep(v) \/ ShellHangs(v) \/ FsHangs(v)
          PROVE  file' = Edited(Decoded(call[w].got))
      <4>1. ExecRuns(v) \/ WriteFile(v) \/ EditWrite(v)
        BY <3>1 DEF BashStep, Acquire, LockPoisoned, ShellPanics, FsPanics, ExecCd, ExecAstray, ExecCdFails,
           ExecEnds, ExecTimesOut, GlobRuns, GrepRuns, Mount, Unmount, ReadFile, MakeParent, WriteFileFails,
           EditRead, EditWriteFails, ShellHangs, FsHangs
      <4>2. v = w
        BY <4>1 DEF ExecRuns, WriteFile, EditWrite, SandboxInv, CallShape
      <4>3. call[w].pc \in {"edit", "hung"}
        BY <3>1 DEF OnBashkit, SandboxInv, ReadByEdit
      <4>4. EditWrite(w)
        BY <4>1, <4>2, <4>3 DEF ExecRuns, WriteFile
      <4> QED BY <3>1, <4>4 DEF EditWrite, Put, Decoded, OnBashkit
    <3>2. ASSUME OnMicrosandbox, NEW v \in Workers, MicroStep(v) \/ GuestHangs(v) \/ StopHangs(v)
          PROVE  file' = Edited(Decoded(call[w].got))
      <4>1. GuestExec(v) \/ GuestWrite(v)
        BY <3>2 DEF MicroStep, CloneSandbox, LockRuntime, RuntimePoisoned, GuestPanics, GuestFails,
           GuestExecEnds, GuestExecTimesOut, GuestRead, WriteBack, GuestMkdir, TakeSandbox, Stop, GuestHangs,
           StopHangs
      <4>2. v = w
        BY <4>1 DEF GuestExec, GuestWrite, SandboxInv, CallShape
      <4>3. GuestWrite(w)
        BY <3>0, <4>1, <4>2 DEF GuestExec
      <4> QED BY <3>0, <3>2, <4>3 DEF GuestWrite, Put, Decoded, OnMicrosandbox
    <3>3. ASSUME NEW v \in Workers, Calls(v) PROVE FALSE
      BY <3>3 DEF Calls, Call
    <3>4. ~Drop
      BY DEF Drop, callVars
    <3> QED BY <3>1, <3>2, <3>3, <3>4 DEF Next, BashNext, MicroNext
  <2>3. IsFiniteSet(DOMAIN Decoded(file))
    BY <2>1, DecodedKeeps
  <2>4. PICK i \in DOMAIN Decoded(file) :
          /\ Decoded(file)[i] = OldText /\ file'[i] = NewText /\ DOMAIN file' = DOMAIN Decoded(file)
          /\ \A j \in DOMAIN Decoded(file) \ {i} : file'[j] = Decoded(file)[j]
    BY <2>1, <2>2, <2>3, EditedOnce
  <2> QED BY <2>4, DecodedKeeps
<1> QED BY <1>1, SandboxInvariant, PTL DEF Spec, EditPrecise
=============================================================================
