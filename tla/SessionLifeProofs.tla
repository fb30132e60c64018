------------------------- MODULE SessionLifeProofs -------------------------
(***************************************************************************)
(* What a session does with turns that are over, with its streams and with *)
(* the prompt of the running turn, for every set of prompts, every bound   *)
(* and every configuration.  The control invariant of SessionProofs is     *)
(* what all of it rests on.                                                *)
(***************************************************************************)
EXTENDS SessionProofs

(* A replacement that waits to be adopted was made of the prefix the task was given. *)
Adopts(c) == c.result # Nil /\ c.result.ok => compaction.task # 0 /\ c.prefix = compaction.prefix

(* What waits to be adopted is the list the compactor was given or a summary of it. *)
Replaces(c) ==
    c.result # Nil /\ c.result.ok => c.result.messages \in {c.prefix, Summarise(c.prefix)}

(* A task's result and its timeout are both the end of the compaction under way. *)
LEMMA CompactionEnds ==
    ASSUME IInv, CompactionDone \/ \E ref \in fired : HandleTimeout(ref)
    PROVE  \/ UNCHANGED <<sessionVars, lastRef, wk, compactCall>>
           \/ \E c : /\ Fits(c) /\ c.waiter = compaction.waiter /\ c.task = 0
                     /\ Adopts(c) /\ Replaces(c)
                     /\ CompactionFinished(c)
<1>0. Fits(compaction) /\ compaction \in Compactions
  BY Typed DEF IInv
<1>1. CASE CompactionDone
  <2>1. PICK r \in CompactResults(compaction.prefix) :
          CompactionFinished(CompleteCompaction(compaction, r))
    BY <1>1 DEF CompactionDone
  <2>2. compaction.prefix \in Histories
    BY <1>0, <1>1 DEF Fits, CompactionDone
  <2>3. r \in Results /\ (r.ok /\ compaction.prefix = <<>> => r.messages = <<>>)
    BY <2>2, CompactResultType
  <2> DEFINE c1 == [compaction EXCEPT !.task = 0]
             c == [c1 EXCEPT !.result = r]
  <2>4. CompactionFinished(c)
    BY <2>1 DEF CompleteCompaction
  <2>5. /\ c1 \in Compactions /\ c1.task = 0 /\ c1.waiter = compaction.waiter
        /\ c1.prefix = compaction.prefix
    BY <1>0, WithTask
  <2> HIDE DEF c1
  <2>6. /\ c \in Compactions /\ c.task = 0 /\ c.waiter = compaction.waiter
        /\ c.prefix = compaction.prefix /\ c.result = r
    BY <2>3, <2>5, WithResult
  <2> HIDE DEF c
  <2>7. Fits(c)
    BY <2>2, <2>3, <2>6 DEF Fits
  <2>8. Replaces(c)
    <3>1. r.ok => r.messages \in {compaction.prefix, Summarise(compaction.prefix)}
      BY CompactResultIs
    <3> QED BY <2>6, <3>1 DEF Replaces
  <2> QED BY <1>1, <2>4, <2>6, <2>7, <2>8 DEF CompactionDone, Adopts
<1>2. ASSUME NEW ref \in fired, HandleTimeout(ref), compaction.task = ref
      PROVE  \E c : /\ Fits(c) /\ c.waiter = compaction.waiter /\ c.task = 0
                    /\ Adopts(c) /\ Replaces(c)
                    /\ CompactionFinished(c)
  <2> DEFINE c0 == CancelCompaction(compaction)
             e == ErrorResult("timeout")
             c == [c0 EXCEPT !.result = e]
  <2>1. CompactionFinished(c)
    BY <1>2 DEF HandleTimeout
  <2>2. c0 \in Compactions /\ c0.task = 0 /\ c0.waiter = compaction.waiter
    BY <1>0, CancelType DEF Fits
  <2>3. e \in Results /\ ~e.ok
    BY EmptyHistory, SMT DEF ErrorResult, Results
  <2> HIDE DEF c0, e
  <2>4. c \in Compactions /\ c.task = 0 /\ c.waiter = compaction.waiter /\ c.result = e
    BY <2>2, <2>3, WithResult
  <2> HIDE DEF c
  <2>5. Fits(c)
    BY <2>3, <2>4 DEF Fits
  <2> QED BY <2>1, <2>3, <2>4, <2>5 DEF Adopts, Replaces
<1>3. ASSUME NEW ref \in fired, HandleTimeout(ref), compaction.task # ref
      PROVE  UNCHANGED <<sessionVars, lastRef, wk, compactCall>>
  BY <1>3 DEF HandleTimeout
<1> QED BY <1>1, <1>2, <1>3

-----------------------------------------------------------------------------
(* The worker starts no inference and no tool it was not already at. *)
NoNewWork(w, v) ==
    /\ v.pc = "infer" => w.pc = "infer"
    /\ \A t \in ToolIds : v.tool[t] = "running" => w.tool[t] = "running"

Quiet == \A q \in Prompts : NoNewWork(wk[q], wk'[q])

(* A worker's own step gives it no new work if its record does not. *)
LEMMA StepQuiet ==
    ASSUME IInv, NEW p \in Prompts, NEW w, NEW sends, Step(p, w, sends), NoNewWork(wk[p], w)
    PROVE  Quiet
<1>1. wk \in [Prompts -> Workers] /\ wk' = [wk EXCEPT ![p] = w]
  BY Typed DEF Step
<1>2. \A q \in Prompts : wk'[q] = IF q = p THEN w ELSE wk[q]
  BY <1>1
<1>3. \A q \in Prompts : NoNewWork(wk[q], wk[q])
  BY DEF NoNewWork
<1> QED BY <1>2, <1>3 DEF Quiet

(* What the session does to no worker gives no worker new work. *)
LEMMA SameQuiet ==
    ASSUME wk' = wk
    PROVE  Quiet
BY DEF Quiet, NoNewWork

(* A worker goes on by itself, but never into an inference nor to a tool. *)
LEMMA WorkerStepsQuiet ==
    ASSUME IInv, NEW p \in Prompts, WorkerSteps(p)
    PROVE  Quiet
<1>0. wk[p] \in Workers
  BY WorkerOf
<1>1. ASSUME NEW pc \in {"loop", "dead", "failed", "done", "checkpoint", "wait"}, NEW s,
             Step(p, [wk[p] EXCEPT !.pc = pc], s)
      PROVE  Quiet
  <2>1. NoNewWork(wk[p], [wk[p] EXCEPT !.pc = pc])
    BY <1>0, SMT DEF NoNewWork, Workers
  <2> QED BY <1>1, <2>1, StepQuiet
<1>2. CASE WorkerStarts(p) \/ ToolTimesOut(p) \/ BackoffAborted(p)
  BY <1>1, <1>2 DEF WorkerStarts, ToolTimesOut, BackoffAborted
<1>3. CASE RuntimeAnswers(p)
  <2>1. PICK ms, s : Step(p, [wk[p] EXCEPT !.pc = "done", !.msgs = ms], s)
    BY <1>3 DEF RuntimeAnswers
  <2>2. NoNewWork(wk[p], [wk[p] EXCEPT !.pc = "done", !.msgs = ms])
    BY <1>0, SMT DEF NoNewWork, Workers
  <2> QED BY <2>1, <2>2, StepQuiet
<1>4. CASE WorkerLoops(p) \/ WorkerFails(p) \/ ProviderFails(p)
  BY <1>1, <1>4 DEF WorkerLoops, WorkerFails, ProviderFails, Finish, Ask
<1>5. CASE WorkerProceeds(p)
  <2>1. PICK ms, s : Step(p, [[wk[p] EXCEPT !.msgs = ms, !.attempt = 1, !.emitted = FALSE] EXCEPT !.pc = "attempt"], s)
    BY <1>5 DEF WorkerProceeds, Ask
  <2>2. NoNewWork(wk[p], [[wk[p] EXCEPT !.msgs = ms, !.attempt = 1, !.emitted = FALSE] EXCEPT !.pc = "attempt"])
    BY <1>0, SMT DEF NoNewWork, Workers
  <2> QED BY <2>1, <2>2, StepQuiet
<1>6. CASE ProviderStreams(p)
  <2>1. NoNewWork(wk[p], [wk[p] EXCEPT !.emitted = TRUE])
    BY <1>0, SMT DEF NoNewWork, Workers
  <2> QED BY <1>6, <2>1, StepQuiet DEF ProviderStreams
<1>7. CASE ProviderAnswers(p)
  <2>1. PICK r, s : Step(p, [[wk[p] EXCEPT !.reply = r] EXCEPT !.pc = "after"], s)
    BY <1>7 DEF ProviderAnswers, Ask
  <2>2. NoNewWork(wk[p], [[wk[p] EXCEPT !.reply = r] EXCEPT !.pc = "after"])
    BY <1>0, SMT DEF NoNewWork, Workers
  <2> QED BY <2>1, <2>2, StepQuiet
<1>8. CASE BackoffElapses(p)
  <2>1. PICK n, s : Step(p, [[wk[p] EXCEPT !.attempt = n] EXCEPT !.pc = "attempt"], s)
    BY <1>8 DEF BackoffElapses, Ask
  <2>2. NoNewWork(wk[p], [[wk[p] EXCEPT !.attempt = n] EXCEPT !.pc = "attempt"])
    BY <1>0, SMT DEF NoNewWork, Workers
  <2> QED BY <2>1, <2>2, StepQuiet
<1>9. CASE WorkerRecords(p)
  <2>1. PICK ms, s :
          \/ Step(p, [[wk[p] EXCEPT !.msgs = ms] EXCEPT !.pc = "tools", !.tool = [t \in ToolIds |-> "asking"]], s)
          \/ Step(p, [[wk[p] EXCEPT !.msgs = ms] EXCEPT !.pc = "done"], s)
    BY <1>9, Zenon DEF WorkerRecords
  <2>2. PICK a : a = [t \in ToolIds |-> "asking"]
    OBVIOUS
  <2>3. NoNewWork(wk[p], [[wk[p] EXCEPT !.msgs = ms] EXCEPT !.pc = "tools", !.tool = a])
    <3>1. \A t \in ToolIds : a[t] # "running"
      BY <2>2
    <3> QED BY <1>0, <3>1, SMT DEF NoNewWork, Workers
  <2>4. NoNewWork(wk[p], [[wk[p] EXCEPT !.msgs = ms] EXCEPT !.pc = "done"])
    BY <1>0, SMT DEF NoNewWork, Workers
  <2> QED BY <2>1, <2>2, <2>3, <2>4, StepQuiet
<1>10. CASE ToolsReturned(p)
  <2>1. PICK n, i, ms, s : /\ i = [t \in ToolIds |-> "idle"]
                           /\ Step(p, [wk[p] EXCEPT !.pc = "loop", !.round = n, !.tool = i, !.msgs = ms], s)
    BY <1>10 DEF ToolsReturned
  <2>2. \A t \in ToolIds : i[t] # "running"
    BY <2>1
  <2>3. NoNewWork(wk[p], [wk[p] EXCEPT !.pc = "loop", !.round = n, !.tool = i, !.msgs = ms])
    BY <1>0, <2>2, SMT DEF NoNewWork, Workers
  <2> QED BY <2>1, <2>3, StepQuiet
<1> QED BY <1>2, <1>3, <1>4, <1>5, <1>6, <1>7, <1>8, <1>9, <1>10 DEF WorkerSteps

(* Who is stopped, fails or waits elsewhere has no new work either. *)
LEMMA MovedQuiet ==
    ASSUME NEW w, NEW v, v.pc \in {w.pc, "failed", "checkpointed"}, v.tool = w.tool
    PROVE  NoNewWork(w, v)
BY DEF NoNewWork

(* abort_turn lets a held worker fail, and wakes it. *)
LEMMA AbortQuiet ==
    ASSUME IInv, NEW heard, NEW c, AbortTurn(heard, c)
    PROVE  Quiet
<1> SUFFICES ASSUME NEW q \in Prompts PROVE NoNewWork(wk[q], wk'[q])
  BY DEF Quiet
<1>1. wk'[q] = [wk[q] EXCEPT !.woken = @ \/ q = turn.worker,
                             !.pc = IF HeldAtCheckpoint(q) THEN "failed" ELSE @]
  BY DEF AbortTurn
<1>2. wk[q] \in Workers
  BY WorkerOf
<1>3. wk'[q].pc \in {wk[q].pc, "failed"} /\ wk'[q].tool = wk[q].tool
  BY <1>1, <1>2, SMT DEF Workers
<1> QED BY <1>3, MovedQuiet

(* The answer at a checkpoint moves its worker on to the list it was given, or to its failure. *)
LEMMA ReplyQuiet ==
    ASSUME IInv, NEW c0, NEW ms0, NEW from, NEW phase, CheckpointReply(c0, ms0, from, phase),
           from \in Prompts \/ phase = "manual"
    PROVE  Quiet
<1>1. \/ wk' = wk
      \/ from \in Prompts /\ \E ms : wk' = [wk EXCEPT ![from].pc = "checkpointed", ![from].msgs = ms]
      \/ from \in Prompts /\ wk' = [wk EXCEPT ![from].pc = "failed"]
  BY DEF CheckpointReply
<1>2. wk \in [Prompts -> Workers]
  BY Typed
<1>3. \A q \in Prompts : wk[q] \in Workers
  BY <1>2
<1>4. \A q \in Prompts :
         \/ wk'[q] = wk[q]
         \/ wk'[q].pc \in {"checkpointed", "failed"} /\ wk'[q].tool = wk[q].tool
  <2>1. CASE wk' = wk
    BY <2>1
  <2>2. CASE from \in Prompts /\ \E ms : wk' = [wk EXCEPT ![from].pc = "checkpointed", ![from].msgs = ms]
    <3>1. PICK ms : wk' = [wk EXCEPT ![from].pc = "checkpointed", ![from].msgs = ms]
      BY <2>2
    <3>2. /\ wk'[from] = [wk[from] EXCEPT !.pc = "checkpointed", !.msgs = ms]
          /\ \A q \in Prompts \ {from} : wk'[q] = wk[q]
      BY <1>2, <2>2, <3>1
    <3>3. wk[from] \in Workers
      BY <1>3, <2>2
    <3>4. PICK w : w = wk[from]
      OBVIOUS
    <3>5. PICK v : v = [w EXCEPT !.pc = "checkpointed", !.msgs = ms] /\ v = wk'[from]
      BY <3>2, <3>4
    <3>6. v.pc = "checkpointed" /\ v.tool = w.tool
      BY <3>3, <3>4, <3>5, SMT DEF Workers
    <3> QED BY <3>2, <3>4, <3>5, <3>6
  <2>3. CASE from \in Prompts /\ wk' = [wk EXCEPT ![from].pc = "failed"]
    <3>1. /\ wk'[from] = [wk[from] EXCEPT !.pc = "failed"]
          /\ \A q \in Prompts \ {from} : wk'[q] = wk[q]
      BY <1>2, <2>3
    <3>2. wk'[from].pc = "failed" /\ wk'[from].tool = wk[from].tool
      BY <1>3, <2>3, <3>1, SMT DEF Workers
    <3> QED BY <3>1, <3>2
  <2> QED BY <1>1, <2>1, <2>2, <2>3
<1> QED BY <1>4, MovedQuiet DEF Quiet, NoNewWork

(* A compaction that ends leaves work as it is. *)
LEMMA FinishedQuiet ==
    ASSUME IInv, NEW c, c.waiter = compaction.waiter, CompactionFinished(c)
    PROVE  Quiet
<1>1. CASE c.waiter # Nil
  <2>1. CheckpointReply([c EXCEPT !.waiter = Nil], messages, c.waiter.from, c.waiter.phase)
    BY <1>1 DEF CompactionFinished
  <2>2. c.waiter.from \in Prompts \/ c.waiter.phase = "manual"
    BY <1>1 DEF IInv, Waiting
  <2> QED BY <2>1, <2>2, ReplyQuiet
<1>2. CASE c.waiter = Nil
  BY <1>2, SameQuiet DEF CompactionFinished
<1> QED BY <1>1, <1>2

(* A turn begins for a prompt that had none. *)
LEMMA BeginQuiet ==
    ASSUME IInv, NEW p \in Prompts, NEW kind, BeginTurn(p, kind), call[p] \in {"idle", "subscribed"},
           NEW q \in Prompts, wk[q].pc # "none"
    PROVE  NoNewWork(wk[q], wk'[q])
<1>1. wk[p].pc = "none"
  BY DEF IInv, Calls, Refs
<1>2. wk'[q] = wk[q]
  BY <1>1 DEF BeginTurn
<1> QED BY <1>2 DEF NoNewWork

(* The session grants an inference or a tool to the running turn alone. *)
LEMMA AdmissionStep ==
    ASSUME IInv, Next, NEW q \in Prompts, wk[q].pc # "none",
           ~(turn.streaming /\ turn.recipient = q)
    PROVE  NoNewWork(wk[q], wk'[q])
<1>0. wk \in [Prompts -> Workers] /\ wk[q] \in Workers
  BY Typed, WorkerOf
<1>q. Quiet => NoNewWork(wk[q], wk'[q])
  BY DEF Quiet
<1>r. turn.streaming => turn.recipient # q
  OBVIOUS
<1>1. ASSUME NEW p \in Prompts, Run(p) \/ Stream(p)
      PROVE  NoNewWork(wk[q], wk'[q])
  <2>1. call[p] \in {"idle", "subscribed"} /\ (wk' = wk \/ \E kind : BeginTurn(p, kind))
    BY <1>1 DEF Run, Stream
  <2> QED BY <1>q, <2>1, BeginQuiet, SameQuiet
<1>2. ASSUME NEW p \in Prompts, RunTimeout(p) \/ Subscribe(p) \/ Unsubscribe(p) \/ SubscriberDown(p)
      PROVE  NoNewWork(wk[q], wk'[q])
  BY <1>2, <1>q, SameQuiet DEF RunTimeout, Subscribe, Unsubscribe, SubscriberDown, workerVars
<1>3. CASE Abort \/ Clear
  BY <1>3, <1>q, AbortQuiet DEF Abort, Clear
<1>4. CASE Compact \/ Steer \/ TimerFires \/ Persist
  BY <1>4, <1>q, SameQuiet DEF Compact, Steer, TimerFires, Persist, workerVars
<1>5. ASSUME NEW p \in Prompts, SessionHandles(p)
      PROVE  NoNewWork(wk[q], wk'[q])
  <2>1. CASE HandleEvent(p)
    BY <1>q, <2>1, AbortQuiet, SameQuiet DEF HandleEvent
  <2>2. CASE HandleUsage(p) \/ HandleComplete(p)
    BY <1>q, <2>2, SameQuiet DEF HandleUsage, HandleComplete
  <2>3. CASE HandleCheck(p)
    <3>1. p = q => ~Current(turn, wk[p].ref)
      <4>1. wk[p].ref = turn.abort_ref => turn.recipient = p
        BY <2>3, Popped DEF HandleCheck, HeadIs
      <4> QED BY <1>r, <4>1 DEF Current
    <3>2. wk'[q] = wk[q] \/ wk'[q] = [wk[q] EXCEPT !.pc = "failed"]
      BY <1>0, <2>3, <3>1 DEF HandleCheck
    <3> QED BY <1>0, <3>2, SMT DEF NoNewWork, Workers
  <2>4. CASE HandleCheckpoint(p)
    <3>1. CASE Current(turn, wk[p].ref)
      BY <1>q, <2>4, <3>1, ReplyQuiet DEF HandleCheckpoint
    <3>2. CASE ~Current(turn, wk[p].ref)
      <4>1. wk'[q] = wk[q] \/ wk'[q] = [wk[q] EXCEPT !.pc = "failed"]
        BY <1>0, <2>4, <3>2 DEF HandleCheckpoint
      <4> QED BY <1>0, <4>1, SMT DEF NoNewWork, Workers
    <3> QED BY <3>1, <3>2
  <2> QED BY <1>5, <2>1, <2>2, <2>3, <2>4 DEF SessionHandles
<1>6. ASSUME NEW p \in Prompts, WorkerSteps(p)
      PROVE  NoNewWork(wk[q], wk'[q])
  BY <1>6, <1>q, WorkerStepsQuiet
<1>7. ASSUME NEW p \in Prompts, NEW t \in ToolIds, ToolSteps(p, t)
      PROVE  NoNewWork(wk[q], wk'[q])
  <2>1. PICK h \in {"running", "refused", "done", "hung"} :
           /\ wk' = [wk EXCEPT ![p].tool[t] = h]
           /\ h = "running" => Current(turn, wk[p].ref) /\ wk[p].pc = "tools"
    BY <1>0, <1>7 DEF ToolSteps, AdmitTool, ToolReturns, Step, At
  <2>2. p = q => h # "running"
    BY <1>r, <2>1 DEF Current, IInv, Owners, Refs
  <2>3. CASE p # q
    BY <1>0, <2>1, <2>3 DEF NoNewWork
  <2>4. CASE p = q
    <3>1. wk'[q] = [wk[q] EXCEPT !.tool[t] = h]
      BY <1>0, <2>1, <2>4
    <3>2. wk[q].tool \in ToolStates
      BY WorkerOf
    <3> QED BY <1>0, <2>2, <2>4, <3>1, <3>2, SMT DEF NoNewWork, Workers, ToolStates
  <2> QED BY <2>3, <2>4
<1>8. CASE CompactionDone \/ \E ref \in fired : HandleTimeout(ref)
  BY <1>8, <1>q, CompactionEnds, FinishedQuiet, SameQuiet
<1> QED BY <1>1, <1>2, <1>3, <1>4, <1>5, <1>6, <1>7, <1>8 DEF Next, ClientSteps

(* No inference and no tool starts for a turn that is over, whenever it was stopped and
   whatever of it is still under way (check_turn and compaction_checkpoint). *)
THEOREM NothingStartsLate == Spec => NoLateAdmission
<1> DEFINE A == \A p \in Prompts : wk[p].pc # "none" /\ ~(turn.streaming /\ turn.recipient = p) =>
                   /\ wk'[p].pc = "infer" => wk[p].pc = "infer"
                   /\ \A t \in ToolIds : wk'[p].tool[t] = "running" => wk[p].tool[t] = "running"
<1>1. IInv /\ [Next]_vars => [A]_vars
  BY AdmissionStep DEF NoNewWork
<1>2. NoLateAdmission <=> [][A]_vars
  BY DEF NoLateAdmission
<1> QED BY <1>1, <1>2, SessionInvariant, PTL DEF Spec

-----------------------------------------------------------------------------
(* Streams. *)

Over(p) == wk[p].pc # "none" /\ wk[p].kind = "stream" /\ turn.recipient # p

Published(p) == {i \in 1..Len(notified) : notified[i] = p}

PublishedOnce ==
    \A p \in Prompts : IF Over(p) THEN \E i \in Published(p) : Published(p) = {i} ELSE Published(p) = {}

(* Nothing has ended this list of events yet; nothing follows its end; it told of an error. *)
Open(s) == \A i \in 1..Len(s) : s[i] # "done"

Ended(s) == \A i \in 1..Len(s) : s[i] = "done" => i = Len(s)

HasError(s) == \E i \in 1..Len(s) : s[i] = "error"

(* A completion with an error comes after the event that says so. *)
Warned(s) ==
    \A i \in 1..Len(s) : s[i].type = "complete" /\ s[i].arg = FALSE =>
        \E j \in 1..(i - 1) : s[j].type = "event" /\ s[j].arg = "error"

(* A client that is still subscribed: it has not left, it streams, the running turn tells it of an
   error before it ends, and if its turn is over it has heard so. *)
Listening(p) ==
    /\ call[p] \notin {"idle", "gone"}
    /\ wk[p].pc # "none" => wk[p].kind = "stream"
    /\ turn.recipient = p => Warned(out[p]) \/ HasError(inbox[p])
    /\ call[p] \notin {"subscribed", "waiting"} =>
          /\ inbox[p] # <<>> /\ Last(inbox[p]) = "done"
          /\ call[p] # "ok" => HasError(inbox[p])

Heard(p) ==
    /\ Ended(inbox[p])
    /\ call[p] \in {"idle", "subscribed"} => inbox[p] = <<>>
    /\ turn.recipient = p => Open(inbox[p])
    /\ p \in turn.subscribers => Listening(p)

StreamInv == PublishedOnce /\ \A p \in Prompts : Heard(p)

(* What events do to what was heard. *)
LEMMA OpenConcat ==
    ASSUME NEW S, NEW s \in Seq(S), NEW t \in Seq(S), Open(s), Open(t)
    PROVE  /\ Open(s \o t)
           /\ HasError(s) \/ HasError(t) => HasError(s \o t)
<1>1. /\ Len(s \o t) = Len(s) + Len(t) /\ Len(s) \in Nat /\ Len(t) \in Nat
      /\ \A i \in 1..(Len(s) + Len(t)) : (s \o t)[i] = IF i <= Len(s) THEN s[i] ELSE t[i - Len(s)]
  BY ConcatProperties, LenProperties
<1>2. Open(s \o t)
  BY <1>1 DEF Open
<1>3. HasError(s) => HasError(s \o t)
  BY <1>1 DEF HasError
<1>4. ASSUME NEW i \in 1..Len(t), t[i] = "error"
      PROVE  HasError(s \o t)
  <2>1. Len(s) + i \in 1..Len(s \o t) /\ (s \o t)[Len(s) + i] = t[i]
    BY <1>1
  <2> QED BY <1>4, <2>1 DEF HasError
<1> QED BY <1>2, <1>3, <1>4 DEF HasError

(* A stream that heard nothing is open, and an open one is not closed twice. *)
LEMMA OpenEnded ==
    /\ \A s : Open(s) => Ended(s)
    /\ Open(<<>>) /\ Ended(<<>>)
BY DEF Open, Ended

(* The end of an open stream closes it, and only once. *)
LEMMA Closed ==
    ASSUME NEW S, NEW s \in Seq(S), Open(s), NEW u, u = s \o <<"done">>, "done" \in S
    PROVE  /\ Ended(u) /\ u # <<>> /\ Last(u) = "done"
           /\ HasError(s) => HasError(u)
<1>1. /\ Len(u) = Len(s) + 1 /\ Len(s) \in Nat
      /\ \A i \in 1..(Len(s) + 1) : u[i] = IF i <= Len(s) THEN s[i] ELSE "done"
  <2>1. <<"done">> \in Seq(S) /\ Len(<<"done">>) = 1 /\ <<"done">>[1] = "done"
    OBVIOUS
  <2>2. /\ Len(u) = Len(s) + Len(<<"done">>) /\ Len(s) \in Nat
        /\ \A i \in 1..(Len(s) + Len(<<"done">>)) :
              u[i] = IF i <= Len(s) THEN s[i] ELSE <<"done">>[i - Len(s)]
    BY <2>1, ConcatProperties, LenProperties
  <2> QED BY <2>1, <2>2
<1>2. Ended(u)
  BY <1>1 DEF Ended, Open
<1>3. u # <<>> /\ Last(u) = "done"
  BY <1>1 DEF Last
<1>4. HasError(s) => HasError(u)
  BY <1>1 DEF HasError
<1> QED BY <1>2, <1>3, <1>4

(* An error before the end is heard by whoever hears the end. *)
LEMMA ClosedWithError ==
    ASSUME NEW S, NEW s \in Seq(S), Open(s), NEW u, u = s \o <<"error", "done">>,
           {"error", "done"} \subseteq S
    PROVE  Ended(u) /\ u # <<>> /\ Last(u) = "done" /\ HasError(u)
<1>1. /\ Len(u) = Len(s) + 2 /\ Len(s) \in Nat
      /\ \A i \in 1..(Len(s) + 2) :
            u[i] = IF i <= Len(s) THEN s[i] ELSE IF i = Len(s) + 1 THEN "error" ELSE "done"
  <2> DEFINE t == <<"error", "done">>
  <2>1. t \in Seq(S) /\ Len(t) = 2 /\ t[1] = "error" /\ t[2] = "done"
    OBVIOUS
  <2> HIDE DEF t
  <2>2. /\ Len(u) = Len(s) + Len(t) /\ Len(s) \in Nat
        /\ \A i \in 1..(Len(s) + Len(t)) : u[i] = IF i <= Len(s) THEN s[i] ELSE t[i - Len(s)]
    BY <2>1, ConcatProperties, LenProperties DEF t
  <2> QED BY <2>1, <2>2
<1>2. Ended(u)
  BY <1>1 DEF Ended, Open
<1>3. u # <<>> /\ Last(u) = "done"
  BY <1>1 DEF Last
<1>4. HasError(u)
  <2>1. Len(s) + 1 \in 1..Len(u) /\ u[Len(s) + 1] = "error"
    BY <1>1
  <2> QED BY <2>1 DEF HasError
<1> QED BY <1>2, <1>3, <1>4

(* What a worker sends and the session reads does to the warning. *)
LEMMA WarnedConcat ==
    ASSUME NEW S, NEW s \in Seq(S), NEW t \in Seq(S), Warned(s), Warned(t)
    PROVE  Warned(s \o t)
<1>1. /\ Len(s \o t) = Len(s) + Len(t) /\ Len(s) \in Nat /\ Len(t) \in Nat
      /\ \A i \in 1..(Len(s) + Len(t)) : (s \o t)[i] = IF i <= Len(s) THEN s[i] ELSE t[i - Len(s)]
  BY ConcatProperties, LenProperties
<1> DEFINE u == s \o t
<1> HIDE DEF u
<1>2. ASSUME NEW i \in 1..Len(u), u[i].type = "complete" /\ u[i].arg = FALSE
      PROVE  \E j \in 1..(i - 1) : u[j].type = "event" /\ u[j].arg = "error"
  <2>1. CASE i <= Len(s)
    <3>1. i \in 1..Len(s) /\ u[i] = s[i]
      BY <1>1, <2>1 DEF u
    <3>2. PICK j \in 1..(i - 1) : s[j].type = "event" /\ s[j].arg = "error"
      BY <1>2, <3>1 DEF Warned
    <3>3. u[j] = s[j]
      BY <1>1, <3>1 DEF u
    <3> QED BY <3>2, <3>3
  <2>2. CASE i > Len(s)
    <3>1. i - Len(s) \in 1..Len(t) /\ u[i] = t[i - Len(s)]
      BY <1>1, <2>2 DEF u
    <3>2. PICK j \in 1..(i - Len(s) - 1) : t[j].type = "event" /\ t[j].arg = "error"
      BY <1>2, <3>1 DEF Warned
    <3>3. Len(s) + j \in 1..(i - 1) /\ u[Len(s) + j] = t[j]
      BY <1>1, <2>2, <3>1 DEF u
    <3> QED BY <3>2, <3>3
  <2> QED BY <1>1, <2>1, <2>2 DEF u
<1> QED BY <1>2 DEF Warned, u

(* Reading what was warned of takes no warning away that is still needed. *)
LEMMA WarnedTail ==
    ASSUME NEW S, NEW s \in Seq(S), s # <<>>, Warned(s),
           ~(Head(s).type = "event" /\ Head(s).arg = "error")
    PROVE  Warned(Tail(s)) /\ ~(Head(s).type = "complete" /\ Head(s).arg = FALSE)
<1> DEFINE u == Tail(s)
<1>1. /\ Len(s) \in Nat /\ Len(s) >= 1 /\ Len(u) = Len(s) - 1 /\ Head(s) = s[1]
      /\ \A i \in 1..Len(u) : u[i] = s[i + 1]
  BY HeadTailProperties, LenProperties, EmptySeq
<1> HIDE DEF u
<1>2. ASSUME NEW i \in 1..Len(u), u[i].type = "complete" /\ u[i].arg = FALSE
      PROVE  \E j \in 1..(i - 1) : u[j].type = "event" /\ u[j].arg = "error"
  <2>1. i + 1 \in 1..Len(s) /\ u[i] = s[i + 1]
    BY <1>1
  <2>2. PICK j \in 1..i : s[j].type = "event" /\ s[j].arg = "error"
    BY <1>2, <2>1 DEF Warned
  <2>3. j # 1
    BY <1>1, <2>2
  <2>4. j - 1 \in 1..(i - 1) /\ u[j - 1] = s[j]
    BY <1>1, <2>1, <2>2, <2>3
  <2> QED BY <2>2, <2>4
<1>3. ~(s[1].type = "complete" /\ s[1].arg = FALSE)
  <2>1. 1 \in 1..Len(s) /\ ~\E j \in 1..(1 - 1) : s[j].type = "event" /\ s[j].arg = "error"
    BY <1>1
  <2> QED BY <2>1 DEF Warned
<1> QED BY <1>1, <1>2, <1>3 DEF Warned, u

(* Without a failed completion there is nothing to warn of. *)
LEMMA PlainWarned ==
    ASSUME NEW s, \A i \in 1..Len(s) : s[i].type # "complete" \/ s[i].arg # FALSE
    PROVE  Warned(s)
BY DEF Warned

(* The lists a worker sends: casts, a question, a good end, a failure that was told before. *)
LEMMA SentWarned ==
    /\ \A s : Plain(s) => s \in Seq(Wires) /\ Warned(s)
    /\ \A s : Plain(s) => Append(s, Asking) \in Seq(Wires) /\ Warned(Append(s, Asking))
    /\ \A s : Plain(s) => s \o <<Complete(TRUE)>> \in Seq(Wires) /\ Warned(s \o <<Complete(TRUE)>>)
    /\ \A s : Plain(s) => Append(s, Complete(TRUE)) = s \o <<Complete(TRUE)>>
<1>1. ASSUME NEW s, Plain(s) PROVE s \in Seq(Wires) /\ Warned(s)
  BY <1>1, PlainWarned DEF Plain
<1>2. Asking \in Wires /\ Asking.type = "call" /\ Complete(TRUE) \in Wires /\ Complete(TRUE).arg = TRUE
  BY WireTypes DEF Complete
<1>3. ASSUME NEW m \in Wires, m.type # "complete" \/ m.arg = TRUE
      PROVE  <<m>> \in Seq(Wires) /\ Warned(<<m>>)
  <2>1. <<m>> \in Seq(Wires) /\ Len(<<m>>) = 1 /\ <<m>>[1] = m
    OBVIOUS
  <2>2. m.arg = TRUE => m.arg # FALSE
    BY Zenon
  <2>3. m.type # "complete" \/ m.arg # FALSE
    BY <1>3, <2>2, Zenon
  <2> DEFINE s == <<m>>
  <2> HIDE DEF s
  <2>4. \A i \in 1..Len(s) : s[i] = m
    BY <2>1 DEF s
  <2>5. Warned(s)
    BY <2>3, <2>4, PlainWarned, Zenon
  <2> QED BY <2>1, <2>5 DEF s
<1>4. ASSUME NEW s, Plain(s), NEW m \in Wires, m.type # "complete" \/ m.arg = TRUE
      PROVE  /\ s \o <<m>> \in Seq(Wires) /\ Warned(s \o <<m>>) /\ Append(s, m) = s \o <<m>>
  <2>1. s \in Seq(Wires) /\ Warned(s) /\ <<m>> \in Seq(Wires) /\ Warned(<<m>>)
    BY <1>1, <1>3, <1>4
  <2>2. Warned(s \o <<m>>)
    BY <2>1, WarnedConcat
  <2>3. s \o <<m>> \in Seq(Wires) /\ Append(s, m) = s \o <<m>>
    BY <2>1, <1>4, ConcatProperties, AppendIsConcat
  <2> QED BY <2>2, <2>3
<1>5. ASSUME NEW s, Plain(s)
      PROVE  /\ Append(s, Asking) \in Seq(Wires) /\ Warned(Append(s, Asking))
             /\ s \o <<Complete(TRUE)>> \in Seq(Wires) /\ Warned(s \o <<Complete(TRUE)>>)
             /\ Append(s, Complete(TRUE)) = s \o <<Complete(TRUE)>>
  <2>1. /\ s \o <<Asking>> \in Seq(Wires) /\ Warned(s \o <<Asking>>) /\ Append(s, Asking) = s \o <<Asking>>
    BY <1>2, <1>4, <1>5
  <2> QED BY <1>2, <1>4, <1>5, <2>1
<1> QED BY <1>1, <1>5

(* A worker that fails casts its error event before its completion. *)
LEMMA FailureWarned ==
    /\ Append(Append(<<Event("error")>>, Event("agent_end")), Complete(FALSE)) \in Seq(Wires)
    /\ Warned(Append(Append(<<Event("error")>>, Event("agent_end")), Complete(FALSE)))
    /\ \A ok \in BOOLEAN : /\ Append(<<Event("error")>>, Complete(ok)) \in Seq(Wires)
                           /\ Warned(Append(<<Event("error")>>, Complete(ok)))
<1>1. /\ Event("error") \in Wires /\ Event("agent_end") \in Wires
      /\ Event("error").type = "event" /\ Event("error").arg = "error" /\ Event("agent_end").type = "event"
      /\ \A ok \in BOOLEAN : Complete(ok) \in Wires /\ Complete(ok).type = "complete"
  BY WireTypes DEF Event, StreamEvents
<1> DEFINE First(s) == s \in Seq(Wires) /\ Len(s) >= 1 /\ s[1] = Event("error")
<1>2. First(<<Event("error")>>)
  BY <1>1
<1>3. ASSUME NEW s, First(s), NEW m \in Wires
      PROVE  First(Append(s, m))
  BY <1>3, AppendProperties, LenProperties
<1>4. ASSUME NEW s, First(s)
      PROVE  s \in Seq(Wires) /\ Warned(s)
  <2>1. ASSUME NEW i \in 1..Len(s), s[i].type = "complete"
        PROVE  1 \in 1..(i - 1)
    <3>1. i # 1
      BY <1>1, <1>4, <2>1
    <3> QED BY <3>1
  <2> QED BY <1>1, <1>4, <2>1 DEF Warned
<1> HIDE DEF First
<1> QED BY <1>1, <1>2, <1>3, <1>4

-----------------------------------------------------------------------------
(* What keeps the streams' invariant. *)

(* Nobody's turn ended and nothing was published. *)
LEMMA PublishedSame ==
    ASSUME PublishedOnce, notified' = notified, \A q \in Prompts : Over(q)' <=> Over(q)
    PROVE  PublishedOnce'
<1>1. \A q \in Prompts : Published(q)' = Published(q)
  BY DEF Published
<1> SUFFICES ASSUME NEW q \in Prompts
             PROVE  IF Over(q)' THEN \E i \in Published(q)' : Published(q)' = {i} ELSE Published(q)' = {}
  BY DEF PublishedOnce
<1>2. IF Over(q) THEN \E i \in Published(q) : Published(q) = {i} ELSE Published(q) = {}
  BY DEF PublishedOnce
<1> QED BY <1>1, <1>2

(* One stream ended and was published, once. *)
LEMMA PublishedMore ==
    ASSUME PublishedOnce, notified \in Seq(Prompts), NEW r \in Prompts, notified' = Append(notified, r),
           ~Over(r), Over(r)', \A q \in Prompts \ {r} : Over(q)' <=> Over(q)
    PROVE  PublishedOnce'
<1>1. /\ Len(notified) \in Nat /\ Len(notified') = Len(notified) + 1
      /\ \A i \in 1..Len(notified) : notified'[i] = notified[i]
      /\ notified'[Len(notified) + 1] = r
  BY AppendProperties, LenProperties
<1>2. \A q \in Prompts \ {r} : Published(q)' = Published(q)
  BY <1>1 DEF Published
<1>3. Published(r) = {}
  BY DEF PublishedOnce
<1>4. Published(r)' = {Len(notified) + 1}
  BY <1>1, <1>3 DEF Published
<1> SUFFICES ASSUME NEW q \in Prompts
             PROVE  IF Over(q)' THEN \E i \in Published(q)' : Published(q)' = {i} ELSE Published(q)' = {}
  BY DEF PublishedOnce
<1>5. IF Over(q) THEN \E i \in Published(q) : Published(q) = {i} ELSE Published(q) = {}
  BY DEF PublishedOnce
<1>6. CASE q = r
  BY <1>4, <1>6
<1>7. CASE q # r
  BY <1>2, <1>5, <1>7
<1> QED BY <1>6, <1>7

(* A step that neither tells a client anything nor ends a turn. *)
LEMMA StillHeard ==
    ASSUME StreamInv, UNCHANGED <<inbox, notified, call>>,
           turn'.recipient = turn.recipient, turn'.subscribers = turn.subscribers,
           \A q \in Prompts : /\ wk'[q].kind = wk[q].kind
                              /\ wk'[q].pc = "none" <=> wk[q].pc = "none",
           \A q \in Prompts : q \in turn.subscribers /\ turn.recipient = q /\ Warned(out[q]) => Warned(out'[q])
    PROVE  StreamInv'
<1>1. \A q \in Prompts : Over(q)' <=> Over(q)
  BY DEF Over
<1>2. PublishedOnce'
  BY <1>1, PublishedSame DEF StreamInv
<1>3. ASSUME NEW q \in Prompts PROVE Heard(q)'
  <2>1. Heard(q)
    BY DEF StreamInv
  <2>2. q \in turn.subscribers => Listening(q)'
    BY <2>1 DEF Heard, Listening
  <2> QED BY <2>1, <2>2 DEF Heard
<1> QED BY <1>2, <1>3 DEF StreamInv

(* A step of a worker. *)
LEMMA StepHeard ==
    ASSUME IInv, StreamInv, NEW p \in Prompts, NEW v, NEW s \in Seq(Wires), Step(p, v, s),
           wk[p].pc # "none", v.pc # "none", v.kind = wk[p].kind, wk[p].kind = "stream" => Warned(s)
    PROVE  StreamInv'
<1>1. /\ wk \in [Prompts -> Workers] /\ out \in [Prompts -> Seq(Wires)]
      /\ wk' = [wk EXCEPT ![p] = v] /\ out' = [out EXCEPT ![p] = @ \o s]
  BY Typed DEF Step
<1>2. \A q \in Prompts : /\ wk'[q].kind = wk[q].kind
                         /\ wk'[q].pc = "none" <=> wk[q].pc = "none"
  BY <1>1
<1>3. ASSUME NEW q \in Prompts, q \in turn.subscribers, turn.recipient = q, Warned(out[q])
      PROVE  Warned(out'[q])
  <2>1. CASE q # p
    BY <1>1, <1>3, <2>1
  <2>2. CASE q = p
    <3>1. Warned(s)
      BY <1>3, <2>2 DEF StreamInv, Heard, Listening
    <3>2. out'[q] = out[q] \o s /\ out[q] \in Seq(Wires)
      BY <1>1, <2>2
    <3> QED BY <1>3, <3>1, <3>2, WarnedConcat
  <2> QED BY <2>1, <2>2
<1> QED BY <1>2, <1>3, StillHeard DEF Step, sessionVars, clientVars

(* A worker's own step tells its client nothing; what it casts is read later. *)
LEMMA WorkerStepsHeard ==
    ASSUME IInv, StreamInv, NEW p \in Prompts, WorkerSteps(p)
    PROVE  StreamInv'
<1>0. wk[p] \in Workers /\ wk[p].kind \in {"run", "stream"} /\ wk[p].msgs \in Histories
  BY WorkerOf
<1>n. wk[p].pc # "none"
  BY DEF WorkerSteps, At, WorkerStarts, RuntimeAnswers, WorkerLoops, WorkerProceeds, ProviderStreams,
         ProviderAnswers, ProviderFails, BackoffElapses, BackoffAborted, WorkerFails, WorkerRecords,
         ToolTimesOut, ToolsReturned
<1>e. \A s : wk[p].kind = "stream" => Emits(p, s) = s
  BY DEF Emits
<1>p. /\ Plain(<<>>)
      /\ \A ev \in StreamEvents : Plain(Emits(p, <<Event(ev)>>)) /\ Plain(<<Event(ev)>>)
      /\ \A ev, fv \in StreamEvents : Plain(Emits(p, <<Event(ev), Event(fv)>>))
  BY PlainEmpty, EventPlain, TwoEventsPlain, EmitsPlain
<1>v. StreamEvents = {"agent_start", "turn_start", "text", "turn_end", "tool_call", "tool_result",
                      "agent_end", "error"}
  BY DEF StreamEvents
<1>1. ASSUME NEW pc \in PCs \ {"none"}, NEW s \in Seq(Wires), wk[p].kind = "stream" => Warned(s),
             Step(p, [wk[p] EXCEPT !.pc = pc], s)
      PROVE  StreamInv'
  <2>1. PICK v : v = [wk[p] EXCEPT !.pc = pc]
    OBVIOUS
  <2>2. v.pc = pc /\ v.kind = wk[p].kind
    BY <1>0, <2>1, WorkerPc
  <2> QED BY <1>1, <1>n, <2>1, <2>2, StepHeard
<1>s. {"loop", "failed", "dead", "done", "wait", "checkpoint"} \subseteq PCs \ {"none"}
  BY DEF PCs
<1>2. CASE WorkerStarts(p)
  <2>1. Plain(Emits(p, <<Event("agent_start")>>))
    BY <1>p, <1>v
  <2>2. Step(p, [wk[p] EXCEPT !.pc = "loop"], Emits(p, <<Event("agent_start")>>))
    BY <1>2 DEF WorkerStarts
  <2> QED BY <1>1, <1>s, <2>1, <2>2, SentWarned
<1>3. CASE ToolTimesOut(p) \/ BackoffAborted(p)
  <2>1. \E pc \in {"failed", "dead"} : Step(p, [wk[p] EXCEPT !.pc = pc], <<>>)
    BY <1>3 DEF ToolTimesOut, BackoffAborted
  <2> QED BY <1>1, <1>p, <1>s, <2>1, SentWarned
<1>4. CASE RuntimeAnswers(p)
  <2>0. PICK ok \in BOOLEAN :
          \E ms : Step(p, [wk[p] EXCEPT !.pc = "done", !.msgs = ms],
                       Append(Emits(p, <<Event("error")>>), Complete(ok)))
    BY <1>4 DEF RuntimeAnswers
  <2>1. PICK ms : Step(p, [wk[p] EXCEPT !.pc = "done", !.msgs = ms],
                       Append(Emits(p, <<Event("error")>>), Complete(ok)))
    BY <2>0
  <2>2. PICK v : v = [wk[p] EXCEPT !.pc = "done", !.msgs = ms]
    OBVIOUS
  <2>3. v.pc = "done" /\ v.kind = wk[p].kind
    BY <1>0, <2>2, SMT DEF Workers
  <2> DEFINE s == Append(Emits(p, <<Event("error")>>), Complete(ok))
  <2>4. s \in Seq(Wires) /\ (wk[p].kind = "stream" => Warned(s))
    <3>1. Plain(Emits(p, <<Event("error")>>)) /\ Complete(ok) \in Wires
      BY <1>p, <1>v, WireTypes
    <3>2. s \in Seq(Wires)
      BY <3>1, AppendProperties DEF Plain
    <3> QED BY <1>e, <3>2, FailureWarned
  <2>5. Step(p, v, s)
    BY <2>1, <2>2
  <2> HIDE DEF s
  <2> QED BY <1>n, <2>3, <2>4, <2>5, StepHeard
<1>5. CASE WorkerLoops(p) \/ ProviderFails(p)
  <2>1. \/ Finish(p, wk[p], TRUE, <<>>)
        \/ \E pc \in {"checkpoint", "wait"} : Step(p, [wk[p] EXCEPT !.pc = pc], Append(<<>>, Asking))
        \/ Step(p, [wk[p] EXCEPT !.pc = "failed"], <<>>)
    BY <1>5 DEF WorkerLoops, ProviderFails, Ask
  <2>2. CASE Finish(p, wk[p], TRUE, <<>>)
    <3>1. Append(<<>>, Event("agent_end")) = <<Event("agent_end")>>
      BY SMT
    <3>2. Plain(Emits(p, Append(<<>>, Event("agent_end"))))
      BY <1>p, <1>v, <3>1
    <3> QED BY <1>1, <1>s, <2>2, <3>2, SentWarned DEF Finish
  <2>3. CASE \E pc \in {"checkpoint", "wait"} : Step(p, [wk[p] EXCEPT !.pc = pc], Append(<<>>, Asking))
    BY <1>1, <1>p, <1>s, <2>3, SentWarned
  <2>4. CASE Step(p, [wk[p] EXCEPT !.pc = "failed"], <<>>)
    BY <1>1, <1>p, <1>s, <2>4, SentWarned
  <2> QED BY <2>1, <2>2, <2>3, <2>4
<1>6. CASE WorkerFails(p)
  <2> DEFINE e == Append(<<Event("error")>>, Event("agent_end"))
             s == Append(Emits(p, e), Complete(FALSE))
  <2>1. Step(p, [wk[p] EXCEPT !.pc = "done"], s)
    BY <1>6 DEF WorkerFails, Finish
  <2>2. s \in Seq(Wires) /\ (wk[p].kind = "stream" => Warned(s))
    <3>1. wk[p].kind = "stream" => s \in Seq(Wires) /\ Warned(s)
      BY <1>e, FailureWarned
    <3>2. wk[p].kind = "run" => s = Append(<<>>, Complete(FALSE))
      BY DEF Emits
    <3>3. Append(<<>>, Complete(FALSE)) \in Seq(Wires)
      BY WireTypes, EmptySeq, AppendProperties
    <3> QED BY <1>0, <3>1, <3>2, <3>3
  <2> HIDE DEF s
  <2> QED BY <1>1, <1>s, <2>1, <2>2
<1>7. ASSUME NEW v, NEW s, Plain(s), v.pc # "none", v.kind = wk[p].kind,
             \/ Step(p, v, s) \/ Step(p, v, Append(s, Asking)) \/ Step(p, v, s \o <<Complete(TRUE)>>)
      PROVE  StreamInv'
  BY <1>7, <1>n, SentWarned, StepHeard
<1>8. CASE WorkerProceeds(p)
  <2>1. PICK ms : Step(p, [[wk[p] EXCEPT !.msgs = ms, !.attempt = 1, !.emitted = FALSE] EXCEPT !.pc = "attempt"],
                       Append(Emits(p, <<Event("turn_start")>>), Asking))
    BY <1>8 DEF WorkerProceeds, Ask
  <2>2. PICK v : v = [[wk[p] EXCEPT !.msgs = ms, !.attempt = 1, !.emitted = FALSE] EXCEPT !.pc = "attempt"]
    OBVIOUS
  <2>3. v.pc = "attempt" /\ v.kind = wk[p].kind
    BY <1>0, <2>2, SMT DEF Workers
  <2>4. Plain(Emits(p, <<Event("turn_start")>>))
    BY <1>p, <1>v
  <2>5. v.pc # "none" /\ Step(p, v, Append(Emits(p, <<Event("turn_start")>>), Asking))
    BY <2>1, <2>2, <2>3
  <2> QED BY <1>7, <2>3, <2>4, <2>5
<1>9. CASE ProviderStreams(p)
  <2>1. Step(p, [wk[p] EXCEPT !.emitted = TRUE], <<Event("text")>>)
    BY <1>9 DEF ProviderStreams
  <2>2. PICK v : v = [wk[p] EXCEPT !.emitted = TRUE]
    OBVIOUS
  <2>3. v.pc = wk[p].pc /\ v.kind = wk[p].kind
    BY <1>0, <2>2, SMT DEF Workers
  <2>4. Plain(<<Event("text")>>)
    BY <1>p, <1>v
  <2> QED BY <1>7, <1>n, <2>1, <2>2, <2>3, <2>4
<1>10. CASE ProviderAnswers(p)
  <2>1. PICK r : Step(p, [[wk[p] EXCEPT !.reply = r] EXCEPT !.pc = "after"], Append(<<>>, Asking))
    BY <1>10 DEF ProviderAnswers, Ask
  <2>2. PICK v : v = [[wk[p] EXCEPT !.reply = r] EXCEPT !.pc = "after"]
    OBVIOUS
  <2>3. v.pc = "after" /\ v.kind = wk[p].kind
    BY <1>0, <2>2, SMT DEF Workers
  <2> QED BY <1>7, <1>p, <2>1, <2>2, <2>3
<1>11. CASE BackoffElapses(p)
  <2>1. PICK n : Step(p, [[wk[p] EXCEPT !.attempt = n] EXCEPT !.pc = "attempt"], Append(<<>>, Asking))
    BY <1>11 DEF BackoffElapses, Ask
  <2>2. PICK v : v = [[wk[p] EXCEPT !.attempt = n] EXCEPT !.pc = "attempt"]
    OBVIOUS
  <2>3. v.pc = "attempt" /\ v.kind = wk[p].kind
    BY <1>0, <2>2, SMT DEF Workers
  <2> QED BY <1>7, <1>p, <2>1, <2>2, <2>3
<1>12. CASE WorkerRecords(p)
  <2>1. PICK skew, ms :
          /\ skew \in IF Policy THEN UsageSkews ELSE {0}
          /\ LET usage == IF Policy THEN <<Usage(wk[p].msgs, skew)>> ELSE <<>>
                 said  == [wk[p] EXCEPT !.msgs = ms]
             IN  \/ Step(p, [said EXCEPT !.pc = "tools", !.tool = [t \in ToolIds |-> "asking"]],
                         usage \o Emits(p, <<Event("turn_end"), Event("tool_call")>>))
                 \/ Step(p, [said EXCEPT !.pc = "done"],
                         usage \o Emits(p, <<Event("turn_end"), Event("agent_end")>>) \o <<Complete(TRUE)>>)
    BY <1>12, Zenon DEF WorkerRecords
  <2> DEFINE usage == IF Policy THEN <<Usage(wk[p].msgs, skew)>> ELSE <<>>
             ended == Emits(p, <<Event("turn_end"), Event("agent_end")>>)
             calling == Emits(p, <<Event("turn_end"), Event("tool_call")>>)
  <2>2. Plain(usage)
    <3>1. skew \in Nat
      BY <2>1, SessionAssumption
    <3>2. Plain(<<Usage(wk[p].msgs, skew)>>)
      BY <1>0, <3>1, WireTypes, OnePlain
    <3> QED BY <3>2, PlainEmpty
  <2>3. Plain(ended) /\ Plain(calling)
    BY <1>p, <1>v
  <2>4. PICK v, w, a : /\ v = [[wk[p] EXCEPT !.msgs = ms] EXCEPT !.pc = "tools", !.tool = a]
                       /\ w = [[wk[p] EXCEPT !.msgs = ms] EXCEPT !.pc = "done"]
                       /\ a = [t \in ToolIds |-> "asking"]
    OBVIOUS
  <2>5. v.pc = "tools" /\ v.kind = wk[p].kind /\ w.pc = "done" /\ w.kind = wk[p].kind
    BY <1>0, <2>4, SMT DEF Workers
  <2>6. Step(p, v, usage \o calling) \/ Step(p, w, usage \o ended \o <<Complete(TRUE)>>)
    BY <2>1, <2>4
  <2> HIDE DEF usage, ended, calling
  <2>7. Plain(usage \o calling) /\ Plain(usage \o ended)
    BY <2>2, <2>3, PlainConcat
  <2> QED BY <1>7, <2>5, <2>6, <2>7
<1>13. CASE ToolsReturned(p)
  <2>1. PICK n, i, ms : Step(p, [wk[p] EXCEPT !.pc = "loop", !.round = n, !.tool = i, !.msgs = ms],
                             Emits(p, <<Event("tool_result")>>))
    BY <1>13 DEF ToolsReturned
  <2>2. PICK v : v = [wk[p] EXCEPT !.pc = "loop", !.round = n, !.tool = i, !.msgs = ms]
    OBVIOUS
  <2>3. v.pc = "loop" /\ v.kind = wk[p].kind
    BY <1>0, <2>2, SMT DEF Workers
  <2>4. Plain(Emits(p, <<Event("tool_result")>>))
    BY <1>p, <1>v
  <2> QED BY <1>7, <2>1, <2>2, <2>3, <2>4
<1> QED BY <1>2, <1>3, <1>4, <1>5, <1>6, <1>8, <1>9, <1>10, <1>11, <1>12, <1>13 DEF WorkerSteps

(* Tools say nothing to clients. *)
LEMMA ToolStepsHeard ==
    ASSUME IInv, StreamInv, NEW p \in Prompts, NEW t \in ToolIds, ToolSteps(p, t)
    PROVE  StreamInv'
<1>0. wk \in [Prompts -> Workers] /\ wk[p] \in Workers /\ out \in [Prompts -> Seq(Wires)]
  BY Typed, WorkerOf
<1>1. PICK h : wk' = [wk EXCEPT ![p].tool[t] = h]
  BY DEF ToolSteps, AdmitTool, ToolReturns, Step
<1>2. /\ UNCHANGED <<inbox, notified, call, turn>>
      /\ \A q \in Prompts : out'[q] = out[q]
  <2>1. out' = out \/ out' = [out EXCEPT ![p] = @ \o <<>>]
    BY DEF ToolSteps, AdmitTool, ToolReturns, Step
  <2>2. \A q \in Prompts : out[q] \o <<>> = out[q]
    BY <1>0, ConcatEmptySeq
  <2>3. UNCHANGED <<inbox, notified, call, turn>>
    BY DEF ToolSteps, AdmitTool, ToolReturns, Step, sessionVars, clientVars
  <2> QED BY <1>0, <2>1, <2>2, <2>3
<1>3. /\ \A q \in Prompts \ {p} : wk'[q] = wk[q]
      /\ wk'[p] = [wk[p] EXCEPT !.tool[t] = h]
  BY <1>0, <1>1
<1>4. wk'[p].kind = wk[p].kind /\ wk'[p].pc = wk[p].pc
  BY <1>0, <1>3, SMT DEF Workers
<1>5. \A q \in Prompts : wk'[q].kind = wk[q].kind /\ (wk'[q].pc = "none" <=> wk[q].pc = "none")
  BY <1>3, <1>4
<1> QED BY <1>2, <1>5, StillHeard

(* The client of the running turn still waits, if it listens. *)
LEMMA RecipientWaits ==
    ASSUME IInv, StreamInv, NEW p \in Prompts, turn.recipient = p
    PROVE  /\ wk[p].pc # "none" /\ call[p] \notin {"idle", "subscribed"}
           /\ p \in turn.subscribers => call[p] = "waiting"
<1>1. wk[p].pc # "none" /\ call[p] \notin {"idle", "subscribed"}
  BY DEF IInv, Owners, Refs, Calls
<1>2. ASSUME p \in turn.subscribers, call[p] # "waiting" PROVE FALSE
  <2>1. Open(inbox[p]) /\ inbox[p] # <<>> /\ Last(inbox[p]) = "done"
    BY <1>1, <1>2 DEF StreamInv, Heard, Listening
  <2>2. inbox[p] \in Seq(StreamEvents \cup {"done"})
    BY Typed
  <2>3. Len(inbox[p]) \in 1..Len(inbox[p])
    BY <2>1, <2>2, LenProperties, EmptySeq
  <2> QED BY <2>1, <2>3 DEF Open, Last
<1> QED BY <1>1, <1>2

(* The running turn ends, with an answer or without. *)
LEMMA EndHeard ==
    ASSUME IInv, StreamInv, NEW p \in Prompts, turn.recipient = p, turn'.recipient = Nil,
           turn'.subscribers = turn.subscribers,
           \A q \in Prompts : /\ wk'[q].kind = wk[q].kind
                              /\ wk'[q].pc = "none" <=> wk[q].pc = "none",
           \A q \in Prompts \ {p} : inbox'[q] = inbox[q] /\ call'[q] = call[q],
           call'[p] \in {"ok", "error", "aborted", call[p]}, call'[p] # "waiting",
           notified' = IF wk[p].kind = "stream" THEN Append(notified, p) ELSE notified,
           p \notin turn.subscribers => inbox'[p] = inbox[p],
           p \in turn.subscribers => /\ Ended(inbox'[p])
                                     /\ inbox'[p] # <<>> /\ Last(inbox'[p]) = "done"
                                     /\ call'[p] # "ok" => HasError(inbox'[p])
    PROVE  StreamInv'
<1>0. Nil \notin Prompts /\ notified \in Seq(Prompts)
  BY Typed
<1>1. wk[p].pc # "none" /\ call[p] \notin {"idle", "subscribed"} /\ (p \in turn.subscribers => call[p] = "waiting")
  BY RecipientWaits
<1>2. PublishedOnce'
  <2>1. ~Over(p) /\ (Over(p)' <=> wk[p].kind = "stream")
    BY <1>0, <1>1 DEF Over
  <2>2. \A q \in Prompts \ {p} : Over(q)' <=> Over(q)
    BY <1>0 DEF Over
  <2>3. CASE wk[p].kind = "stream"
    BY <1>0, <2>1, <2>2, <2>3, PublishedMore DEF StreamInv
  <2>4. CASE wk[p].kind # "stream"
    <3>1. \A q \in Prompts : Over(q)' <=> Over(q)
      BY <2>1, <2>2, <2>4
    <3> QED BY <2>4, <3>1, PublishedSame DEF StreamInv
  <2> QED BY <2>3, <2>4
<1>3. ASSUME NEW q \in Prompts \ {p} PROVE Heard(q)'
  <2>1. Heard(q)
    BY DEF StreamInv
  <2>2. q \in turn.subscribers => Listening(q)'
    BY <1>0, <2>1 DEF Heard, Listening
  <2> QED BY <1>0, <2>1, <2>2 DEF Heard
<1>4. Heard(p)'
  <2>1. Heard(p)
    BY DEF StreamInv
  <2>2. Ended(inbox'[p])
    BY <2>1 DEF Heard
  <2>3. call'[p] \notin {"idle", "subscribed"}
    BY <1>1
  <2>4. p \in turn.subscribers => Listening(p)'
    BY <1>0, <1>1, <2>1 DEF Heard, Listening
  <2> QED BY <1>0, <2>2, <2>3, <2>4 DEF Heard
<1> QED BY <1>2, <1>3, <1>4 DEF StreamInv

(* The listeners outlive the turn. *)
LEMMA SubscribersStay ==
    ASSUME NEW t \in Turns
    PROVE  /\ FinishTurn(t).subscribers = t.subscribers /\ FinishTurn(t).recipient = Nil
           /\ \A ref : AbandonTurn(t, ref).subscribers = t.subscribers /\ AbandonTurn(t, ref).recipient = Nil
           /\ \A i : [t EXCEPT !.prompt_index = i].subscribers = t.subscribers
           /\ \A q : Subscribed(t, q).subscribers = t.subscribers \cup {q}
           /\ \A q : Unsubscribed(t, q).subscribers = t.subscribers \ {q}
           /\ \A m : Steered(t, m).subscribers = t.subscribers /\ Steered(t, m).recipient = t.recipient
           /\ \A m : FollowedUp(t, m).subscribers = t.subscribers /\ FollowedUp(t, m).recipient = t.recipient
<1>1. FinishTurn(t).subscribers = t.subscribers /\ FinishTurn(t).recipient = Nil
  BY SMT DEF FinishTurn, Turns
<1>2. ASSUME NEW ref PROVE AbandonTurn(t, ref).subscribers = t.subscribers /\ AbandonTurn(t, ref).recipient = Nil
  BY SMT DEF AbandonTurn, Turns
<1>3. ASSUME NEW i PROVE [t EXCEPT !.prompt_index = i].subscribers = t.subscribers
  BY SMT DEF Turns
<1>4. ASSUME NEW q PROVE Subscribed(t, q).subscribers = t.subscribers \cup {q}
  BY SMT DEF Subscribed, Turns
<1>5. ASSUME NEW q PROVE Unsubscribed(t, q).subscribers = t.subscribers \ {q}
  BY SMT DEF Unsubscribed, Turns
<1>6. ASSUME NEW m PROVE Steered(t, m).subscribers = t.subscribers /\ Steered(t, m).recipient = t.recipient
  BY SMT DEF Steered, Turns
<1>7. ASSUME NEW m PROVE FollowedUp(t, m).subscribers = t.subscribers /\ FollowedUp(t, m).recipient = t.recipient
  BY SMT DEF FollowedUp, Turns
<1> QED BY <1>1, <1>2, <1>3, <1>4, <1>5, <1>6, <1>7

(* abort_turn closes the running stream with an error and its end, after what it has just heard. *)
LEMMA AbortHeard ==
    ASSUME IInv, StreamInv, NEW heard, NEW c, AbortTurn(heard, c),
           \A q \in Prompts : /\ heard[q] \in Seq(StreamEvents)
                              /\ q # turn.recipient => heard[q] = <<>>
    PROVE  StreamInv'
<1> DEFINE E == StreamEvents \cup {"done"}
<1>0. /\ turn \in Turns /\ Nil \notin Prompts /\ turn.recipient \in Prompts \cup {Nil}
      /\ inbox \in [Prompts -> Seq(E)] /\ call \in [Prompts -> Answers]
      /\ \A q \in Prompts : wk[q] \in Workers
  BY Typed, WorkerOf
<1>1. turn'.recipient = Nil /\ turn'.subscribers = turn.subscribers
  BY <1>0, SubscribersStay DEF AbortTurn
<1>2. ASSUME NEW q \in Prompts
      PROVE  wk'[q].kind = wk[q].kind /\ (wk'[q].pc = "none" <=> wk[q].pc = "none")
  <2>1. wk'[q] = [wk[q] EXCEPT !.woken = @ \/ q = turn.worker,
                               !.pc = IF HeldAtCheckpoint(q) THEN "failed" ELSE @]
    BY DEF AbortTurn
  <2>2. /\ wk'[q].kind = wk[q].kind
        /\ wk'[q].pc = IF HeldAtCheckpoint(q) THEN "failed" ELSE wk[q].pc
    BY <1>0, <2>1, SMT DEF Workers
  <2>3. HeldAtCheckpoint(q) => wk[q].pc = "checkpoint"
    BY DEF HeldAtCheckpoint, IInv, Waiting
  <2> QED BY <2>2, <2>3
<1>3. ASSUME NEW q \in Prompts, q # turn.recipient
      PROVE  inbox'[q] = inbox[q] /\ call'[q] = call[q]
  <2>1. heard[q] = <<>> /\ Closing(q) = <<>> /\ inbox[q] \in Seq(E)
    BY <1>0, <1>3 DEF Closing
  <2>2. inbox[q] \o <<>> \o <<>> = inbox[q]
    BY <2>1, ConcatEmptySeq
  <2> QED BY <1>3, <2>1, <2>2 DEF AbortTurn, AbortAnswer
<1>4. CASE turn.recipient = Nil
  <2>1. inbox' = inbox /\ call' = call /\ notified' = notified
    <3>1. \A q \in Prompts : inbox'[q] = inbox[q] /\ call'[q] = call[q]
      BY <1>0, <1>3, <1>4
    <3>2. /\ inbox' = [q \in Prompts |-> inbox'[q]] /\ inbox = [q \in Prompts |-> inbox[q]]
          /\ call' = [q \in Prompts |-> call'[q]] /\ call = [q \in Prompts |-> call[q]]
      BY <1>0 DEF AbortTurn
    <3>3. inbox' = inbox /\ call' = call
      BY <3>1, <3>2, Zenon
    <3> QED BY <1>4, <3>3 DEF AbortTurn
  <2>2. \A q \in Prompts : turn.recipient # q
    BY <1>0, <1>4
  <2> QED BY <1>1, <1>2, <1>4, <2>1, <2>2, StillHeard
<1>5. CASE turn.recipient \in Prompts
  <2>1. PICK r \in Prompts : turn.recipient = r
    BY <1>5
  <2>2. notified' = IF wk[r].kind = "stream" THEN Append(notified, r) ELSE notified
    BY <1>0, <2>1 DEF AbortTurn
  <2>3. call'[r] = IF call[r] = "waiting" THEN "aborted" ELSE call[r]
    BY <2>1 DEF AbortTurn, AbortAnswer
  <2>4. r \notin turn.subscribers => inbox'[r] = inbox[r]
    BY DEF AbortTurn
  <2>5. ASSUME r \in turn.subscribers
        PROVE  Ended(inbox'[r]) /\ inbox'[r] # <<>> /\ Last(inbox'[r]) = "done" /\ HasError(inbox'[r])
    <3>1. inbox'[r] = inbox[r] \o heard[r] \o <<"error", "done">>
      BY <2>1, <2>5 DEF AbortTurn, Closing
    <3>2. inbox[r] \in Seq(E) /\ heard[r] \in Seq(StreamEvents) /\ Open(inbox[r])
      BY <1>0, <2>1 DEF StreamInv, Heard
    <3>3. heard[r] \in Seq(E) /\ Open(heard[r])
      <4>1. heard[r] \in Seq(E)
        BY <3>2, SeqMonotonic
      <4>2. \A i \in 1..Len(heard[r]) : heard[r][i] \in StreamEvents
        BY <3>2, ElementOfSeq
      <4> QED BY <4>1, <4>2 DEF Open, StreamEvents
    <3>4. Open(inbox[r] \o heard[r]) /\ inbox[r] \o heard[r] \in Seq(E)
      BY <3>2, <3>3, OpenConcat, ConcatProperties
    <3>5. {"error", "done"} \subseteq E
      BY DEF StreamEvents
    <3> HIDE DEF E
    <3> QED BY <3>1, <3>4, <3>5, ClosedWithError
  <2>6. call'[r] \in {"ok", "error", "aborted", call[r]} /\ call'[r] # "waiting"
    BY <2>3
  <2> QED BY <1>1, <1>2, <1>3, <2>1, <2>2, <2>4, <2>5, <2>6, EndHeard
<1> QED BY <1>0, <1>4, <1>5

(* broadcast_event reaches the listener of the running turn, an error before its completion. *)
LEMMA HandleEventHeard ==
    ASSUME IInv, StreamInv, NEW p \in Prompts, HandleEvent(p)
    PROVE  StreamInv'
<1> DEFINE ev == Head(out[p]).arg
           E == StreamEvents \cup {"done"}
<1>0. /\ out[p] # <<>> /\ Pop(p) /\ Head(out[p]).type = "event"
  BY DEF HandleEvent, HeadIs
<1>1. /\ ev \in StreamEvents /\ out \in [Prompts -> Seq(Wires)] /\ inbox \in [Prompts -> Seq(E)]
      /\ turn.recipient \in Prompts \cup {Nil} /\ Nil \notin Prompts
  BY <1>0, Popped, WireArgs, Typed
<1>2. /\ \A q \in Prompts : q # p => out'[q] = out[q]
      /\ wk[p].ref = turn.abort_ref => turn.recipient = p
      /\ out'[p] = Tail(out[p])
  BY <1>0, <1>1, Popped DEF Pop
<1>3. turn.recipient = p => wk[p].ref = turn.abort_ref
  BY DEF IInv, Owners
<1>4. CASE /\ wk[p].ref # turn.abort_ref
           /\ UNCHANGED <<turn, lastRef, compaction, wk, clientVars, compactCall, controls>>
  <2>1. turn.recipient # p
    BY <1>3, <1>4
  <2>2. \A q \in Prompts : turn.recipient = q => out'[q] = out[q]
    BY <1>2, <2>1
  <2> QED BY <1>4, <2>2, StillHeard DEF clientVars
<1>5. CASE /\ wk[p].ref = turn.abort_ref
           /\ Broadcast(p, <<ev>>)
           /\ UNCHANGED <<turn, lastRef, compaction, wk, call, notified, compactCall, controls>>
  <2>1. turn.recipient = p
    BY <1>2, <1>5
  <2>2. PublishedOnce'
    <3>1. \A q \in Prompts : Over(q)' <=> Over(q)
      BY <1>5 DEF Over
    <3> QED BY <1>5, <3>1, PublishedSame DEF StreamInv
  <2>3. /\ \A q \in Prompts \ {p} : inbox'[q] = inbox[q]
        /\ inbox'[p] = IF p \in turn.subscribers THEN inbox[p] \o <<ev>> ELSE inbox[p]
    BY <1>1, <1>5 DEF Broadcast
  <2>4. ASSUME NEW q \in Prompts \ {p} PROVE Heard(q)'
    <3>1. Heard(q)
      BY DEF StreamInv
    <3>2. q \in turn.subscribers => Listening(q)'
      BY <1>5, <2>1, <2>3, <3>1 DEF Heard, Listening
    <3> QED BY <1>5, <2>1, <2>3, <3>1, <3>2 DEF Heard
  <2>5. Heard(p)'
    <3>1. Heard(p) /\ Open(inbox[p]) /\ inbox[p] \in Seq(E) /\ out[p] \in Seq(Wires)
      BY <1>1, <2>1 DEF StreamInv, Heard
    <3>2. call[p] \notin {"idle", "subscribed"} /\ (p \in turn.subscribers => call[p] = "waiting")
      BY <2>1, RecipientWaits
    <3>3. CASE p \notin turn.subscribers
      BY <1>5, <2>3, <3>1, <3>2, <3>3 DEF Heard
    <3>4. CASE p \in turn.subscribers
      <4> DEFINE e == <<ev>>
      <4>1. e \in Seq(E) /\ Open(e) /\ (ev = "error" => HasError(e))
        <5> HIDE DEF ev
        <5>1. Len(e) = 1 /\ e[1] = ev /\ e \in Seq(E)
          BY <1>1
        <5>2. ev # "done"
          BY <1>1 DEF StreamEvents
        <5> HIDE DEF e
        <5> QED BY <5>1, <5>2 DEF Open, HasError
      <4> HIDE DEF e
      <4>2. inbox'[p] = inbox[p] \o e
        BY <2>3, <3>4 DEF e
      <4>3. Open(inbox'[p]) /\ (HasError(inbox[p]) \/ HasError(e) => HasError(inbox'[p]))
        <5> HIDE DEF E
        <5> QED BY <3>1, <4>1, <4>2, OpenConcat
      <4>4. Warned(out'[p]) \/ HasError(inbox'[p])
        <5>1. Warned(out[p]) \/ HasError(inbox[p])
          BY <2>1, <3>1, <3>4 DEF Heard, Listening
        <5>2. CASE ev = "error"
          BY <4>1, <4>3, <5>2
        <5>3. CASE ev # "error" /\ Warned(out[p])
          <6>1. Warned(Tail(out[p]))
            BY <1>0, <3>1, <5>3, WarnedTail
          <6> QED BY <1>2, <6>1
        <5>4. CASE HasError(inbox[p])
          BY <4>3, <5>4
        <5> QED BY <5>1, <5>2, <5>3, <5>4
      <4>5. Ended(inbox'[p])
        BY <4>3, OpenEnded
      <4>6. Listening(p)'
        BY <1>5, <3>1, <3>2, <3>4, <4>4 DEF Heard, Listening
      <4> QED BY <1>5, <3>2, <4>3, <4>5, <4>6 DEF Heard
    <3> QED BY <3>3, <3>4
  <2> QED BY <2>2, <2>4, <2>5 DEF StreamInv
<1>6. CASE /\ wk[p].ref = turn.abort_ref
           /\ AbortTurn([NothingHeard EXCEPT ![p] = <<ev>>], compaction)
  <2> DEFINE heard == [NothingHeard EXCEPT ![p] = <<ev>>]
  <2>1. turn.recipient = p
    BY <1>2, <1>6
  <2>2. <<ev>> \in Seq(StreamEvents) /\ <<>> \in Seq(StreamEvents)
    <3> HIDE DEF ev
    <3> QED BY <1>1
  <2>3. \A q \in Prompts : heard[q] = IF q = p THEN <<ev>> ELSE <<>>
    <3> HIDE DEF ev
    <3> QED BY DEF NothingHeard
  <2>4. \A q \in Prompts : heard[q] \in Seq(StreamEvents) /\ (q # turn.recipient => heard[q] = <<>>)
    <3> HIDE DEF heard, ev
    <3> QED BY <2>1, <2>2, <2>3
  <2> HIDE DEF heard
  <2>5. AbortTurn(heard, compaction)
    BY <1>6 DEF heard
  <2> QED BY <2>4, <2>5, AbortHeard
<1> QED BY <1>4, <1>5, <1>6 DEF HandleEvent

(* The completion casts close the stream they belong to, and no other. *)
LEMMA HandleCompleteHeard ==
    ASSUME IInv, StreamInv, NEW p \in Prompts, HandleComplete(p)
    PROVE  StreamInv'
<1> DEFINE ok == Head(out[p]).arg
           answer == IF ok THEN "ok" ELSE "error"
           E == StreamEvents \cup {"done"}
<1>0. /\ out[p] # <<>> /\ Pop(p) /\ Head(out[p]).type = "complete" /\ wk' = wk
  BY DEF HandleComplete, HeadIs
<1>1. /\ ok \in BOOLEAN /\ out \in [Prompts -> Seq(Wires)] /\ inbox \in [Prompts -> Seq(E)]
      /\ turn \in Turns /\ Nil \notin Prompts /\ call \in [Prompts -> Answers]
  BY <1>0, Popped, WireArgs, Typed
<1>2. /\ \A q \in Prompts : q # p => out'[q] = out[q]
      /\ wk[p].ref = turn.abort_ref => turn.recipient = p
      /\ wk[p].pc = "done"
  BY <1>0, Popped
<1>3. turn.recipient = p => wk[p].ref = turn.abort_ref
  BY DEF IInv, Owners
<1>4. CASE wk[p].ref # turn.abort_ref
  <2>1. UNCHANGED <<sessionVars, clientVars>>
    BY <1>4 DEF HandleComplete
  <2>2. \A q \in Prompts : turn.recipient = q => out'[q] = out[q]
    BY <1>2, <1>3, <1>4
  <2> QED BY <1>0, <2>1, <2>2, StillHeard DEF clientVars, sessionVars
<1>5. CASE wk[p].ref = turn.abort_ref
  <2>1. turn.recipient = p /\ Heard(p)
    BY <1>2, <1>5 DEF StreamInv
  <2>2. turn' = FinishTurn(turn) /\ Reply(p, answer)
    BY <1>5 DEF HandleComplete, RunComplete, StreamComplete
  <2>3. turn'.recipient = Nil /\ turn'.subscribers = turn.subscribers
    BY <1>1, <2>2, SubscribersStay
  <2>4. /\ \A q \in Prompts \ {p} : call'[q] = call[q]
        /\ call'[p] = IF call[p] = "waiting" THEN answer ELSE call[p]
    BY <1>1, <2>2 DEF Reply
  <2>5. answer \in {"ok", "error"} /\ (answer = "error" => ok = FALSE)
    BY <1>1, Zenon
  <2> HIDE DEF answer, ok
  <2>6. call'[p] \in {"ok", "error", "aborted", call[p]} /\ call'[p] # "waiting"
    BY <2>4, <2>5
  <2>7. CASE wk[p].kind = "run"
    <3>1. inbox' = inbox /\ notified' = notified
      BY <1>5, <2>7 DEF HandleComplete, RunComplete
    <3>2. p \notin turn.subscribers
      BY <1>2, <2>1, <2>7 DEF Heard, Listening
    <3> QED BY <1>0, <2>1, <2>3, <2>4, <2>6, <2>7, <3>1, <3>2, EndHeard
  <2>8. CASE wk[p].kind = "stream"
    <3>1. Broadcast(p, <<"done">>) /\ notified' = Append(notified, p)
      BY <1>5, <2>8 DEF HandleComplete, StreamComplete
    <3>2. /\ \A q \in Prompts \ {p} : inbox'[q] = inbox[q]
          /\ inbox'[p] = IF p \in turn.subscribers THEN inbox[p] \o <<"done">> ELSE inbox[p]
      BY <1>1, <3>1 DEF Broadcast
    <3>3. ASSUME p \in turn.subscribers
          PROVE  /\ Ended(inbox'[p]) /\ inbox'[p] # <<>> /\ Last(inbox'[p]) = "done"
                 /\ call'[p] # "ok" => HasError(inbox'[p])
      <4>1. inbox[p] \in Seq(E) /\ Open(inbox[p]) /\ "done" \in E
        BY <1>1, <2>1 DEF Heard
      <4>2. inbox'[p] = inbox[p] \o <<"done">>
        BY <3>2, <3>3
      <4>3. /\ Ended(inbox'[p]) /\ inbox'[p] # <<>> /\ Last(inbox'[p]) = "done"
            /\ HasError(inbox[p]) => HasError(inbox'[p])
        <5> HIDE DEF E
        <5> QED BY <4>1, <4>2, Closed
      <4>4. ok = FALSE => HasError(inbox[p])
        <5>1. Warned(out[p]) \/ HasError(inbox[p])
          BY <2>1, <3>3 DEF Heard, Listening
        <5>2. ASSUME Warned(out[p]) PROVE ok # FALSE
          BY <1>0, <1>1, <5>2, WarnedTail DEF ok
        <5> QED BY <5>1, <5>2
      <4>5. call[p] = "waiting"
        BY <2>1, <3>3, RecipientWaits
      <4>6. call'[p] # "ok" => ok = FALSE
        BY <2>4, <2>5, <4>5
      <4> QED BY <4>3, <4>4, <4>6
    <3> QED BY <1>0, <2>1, <2>3, <2>4, <2>6, <2>8, <3>1, <3>2, <3>3, EndHeard
  <2> QED BY <2>7, <2>8, WorkerOf
<1> QED BY <1>4, <1>5

(* Other messages of a worker tell no client anything. *)
LEMMA PoppedWarned ==
    ASSUME IInv, NEW p \in Prompts, out[p] # <<>>, Pop(p), Head(out[p]).type # "event",
           NEW q \in Prompts, Warned(out[q])
    PROVE  Warned(out'[q])
<1>1. out \in [Prompts -> Seq(Wires)]
  BY Typed
<1>2. out'[p] = Tail(out[p]) /\ (q # p => out'[q] = out[q])
  BY <1>1 DEF Pop
<1> QED BY <1>1, <1>2, WarnedTail

(* The answer at a checkpoint tells the worker, and no client. *)
LEMMA ReplyHeard ==
    ASSUME IInv, StreamInv, NEW c0, NEW ms0, NEW from, NEW phase, CheckpointReply(c0, ms0, from, phase),
           phase = "manual" \/ (from \in Prompts /\ wk[from].pc # "none"), UNCHANGED clientVars,
           \A q \in Prompts : Warned(out[q]) => Warned(out'[q])
    PROVE  StreamInv'
<1>0. turn \in Turns /\ wk \in [Prompts -> Workers] /\ \A q \in Prompts : wk[q] \in Workers
  BY Typed, WorkerOf
<1>1. turn'.recipient = turn.recipient /\ turn'.subscribers = turn.subscribers
  <2>1. PICK i : turn' = [turn EXCEPT !.prompt_index = i]
    BY DEF CheckpointReply
  <2> QED BY <1>0, <2>1, ReplyKeepsRecipient, SubscribersStay
<1>2. PICK ms, pc : \/ wk' = wk
                    \/ /\ from \in Prompts /\ wk[from].pc # "none" /\ pc # "none"
                       /\ \/ wk' = [wk EXCEPT ![from].pc = pc, ![from].msgs = ms]
                          \/ wk' = [wk EXCEPT ![from].pc = pc]
  BY DEF CheckpointReply
<1>3. \A q \in Prompts : wk'[q].kind = wk[q].kind /\ (wk'[q].pc = "none" <=> wk[q].pc = "none")
  <2>1. CASE wk' = wk
    BY <2>1
  <2>2. CASE /\ from \in Prompts /\ wk[from].pc # "none" /\ pc # "none"
             /\ \/ wk' = [wk EXCEPT ![from].pc = pc, ![from].msgs = ms]
                \/ wk' = [wk EXCEPT ![from].pc = pc]
    <3>1. PICK w : w = wk[from]
      OBVIOUS
    <3>2. PICK v : v = wk'[from]
      OBVIOUS
    <3>3. /\ v = [w EXCEPT !.pc = pc, !.msgs = ms] \/ v = [w EXCEPT !.pc = pc]
          /\ \A q \in Prompts \ {from} : wk'[q] = wk[q]
      BY <1>0, <2>2, <3>1, <3>2
    <3>4. w \in Workers
      BY <1>0, <2>2, <3>1
    <3>5. v.kind = w.kind /\ v.pc = pc
      <4>1. CASE v = [w EXCEPT !.pc = pc, !.msgs = ms]
        BY <3>4, <4>1, SMT DEF Workers
      <4>2. CASE v = [w EXCEPT !.pc = pc]
        BY <3>4, <4>2, SMT DEF Workers
      <4> QED BY <3>3, <4>1, <4>2
    <3> QED BY <2>2, <3>1, <3>2, <3>3, <3>5
  <2> QED BY <1>2, <2>1, <2>2
<1> QED BY <1>1, <1>3, StillHeard DEF clientVars

(* Usage, checks and checkpoints are answered to the worker and not to its client. *)
LEMMA AsksHeard ==
    ASSUME IInv, StreamInv, NEW p \in Prompts,
           HandleUsage(p) \/ HandleCheck(p) \/ HandleCheckpoint(p)
    PROVE  StreamInv'
<1>0. wk \in [Prompts -> Workers] /\ wk[p] \in Workers
  BY Typed, WorkerOf
<1>1. out[p] # <<>> /\ Pop(p) /\ Head(out[p]).type # "event" /\ UNCHANGED clientVars
  BY DEF HandleUsage, HandleCheck, HandleCheckpoint, HeadIs
<1>2. \A q \in Prompts : Warned(out[q]) => Warned(out'[q])
  BY <1>1, PoppedWarned
<1>3. wk[p].pc # "none"
  BY <1>1, Popped
<1>4. CASE turn' = turn /\ wk' = wk
  BY <1>1, <1>2, <1>4, StillHeard DEF clientVars
<1>5. ASSUME NEW pc, pc # "none", turn' = turn, wk' = [wk EXCEPT ![p].pc = pc]
      PROVE  StreamInv'
  <2>1. PICK v : v = [wk[p] EXCEPT !.pc = pc] /\ v = wk'[p]
    BY <1>0, <1>5
  <2>2. v.pc = pc /\ v.kind = wk[p].kind
    BY <1>0, <2>1, SMT DEF Workers
  <2>3. \A q \in Prompts : wk'[q].kind = wk[q].kind /\ (wk'[q].pc = "none" <=> wk[q].pc = "none")
    BY <1>0, <1>3, <1>5, <2>1, <2>2
  <2> QED BY <1>1, <1>2, <1>5, <2>3, StillHeard DEF clientVars
<1>6. CASE HandleUsage(p)
  BY <1>4, <1>6 DEF HandleUsage
<1>7. CASE HandleCheck(p)
  <2> DEFINE pc == IF Current(turn, wk[p].ref) THEN Granted(wk[p].pc) ELSE "failed"
  <2>1. wk' = [wk EXCEPT ![p].pc = pc] /\ turn' = turn
    BY <1>7 DEF HandleCheck, sessionVars
  <2>2. wk[p].pc \in {"checkpoint", "attempt", "wait", "after"}
    BY <1>1, <1>7, Popped DEF HandleCheck, HeadIs, Asks
  <2>3. pc # "none"
    BY <2>2 DEF Granted
  <2> HIDE DEF pc
  <2> QED BY <1>5, <2>1, <2>3
<1>8. CASE HandleCheckpoint(p)
  <2>1. CASE Current(turn, wk[p].ref)
    BY <1>1, <1>2, <1>3, <1>8, <2>1, ReplyHeard DEF HandleCheckpoint
  <2>2. CASE ~Current(turn, wk[p].ref)
    <3>1. wk' = [wk EXCEPT ![p].pc = "failed"] /\ turn' = turn
      BY <1>8, <2>2 DEF HandleCheckpoint, sessionVars
    <3> QED BY <1>5, <3>1
  <2> QED BY <2>1, <2>2
<1> QED BY <1>6, <1>7, <1>8

(* The end of a compaction is heard by its waiter and by no client. *)
LEMMA CompactionHeard ==
    ASSUME IInv, StreamInv, CompactionDone \/ \E ref \in fired : HandleTimeout(ref)
    PROVE  StreamInv'
<1>1. out' = out /\ UNCHANGED clientVars
  BY DEF CompactionDone, HandleTimeout
<1>2. CASE UNCHANGED <<sessionVars, lastRef, wk, compactCall>>
  BY <1>1, <1>2, StillHeard DEF sessionVars, clientVars
<1>3. ASSUME NEW c, c.waiter = compaction.waiter, CompactionFinished(c)
      PROVE  StreamInv'
  <2>1. CASE c.waiter # Nil
    <3>1. CheckpointReply([c EXCEPT !.waiter = Nil], messages, c.waiter.from, c.waiter.phase)
      BY <1>3, <2>1 DEF CompactionFinished
    <3>2. c.waiter.phase = "manual" \/ (c.waiter.from \in Prompts /\ wk[c.waiter.from].pc # "none")
      BY <1>3, <2>1 DEF IInv, Waiting
    <3> QED BY <1>1, <3>1, <3>2, ReplyHeard
  <2>2. CASE c.waiter = Nil
    BY <1>1, <1>3, <2>2, StillHeard DEF CompactionFinished, clientVars
  <2> QED BY <2>1, <2>2
<1> QED BY <1>2, <1>3, CompactionEnds

-----------------------------------------------------------------------------
(* The clients' own steps. *)

(* A turn begins: its client has heard nothing yet, and its worker said nothing. *)
LEMMA BeginHeard ==
    ASSUME IInv, StreamInv, NEW p \in Prompts, NEW kind \in {"run", "stream"}, BeginTurn(p, kind), ~Busy,
           call[p] \in {"idle", "subscribed"}, call[p] = "subscribed" => kind = "stream",
           UNCHANGED <<inbox, notified, out>>
    PROVE  StreamInv'
<1>0. /\ turn \in Turns /\ wk \in [Prompts -> Workers] /\ call \in [Prompts -> Answers]
      /\ Nil \notin Prompts /\ turn.recipient = Nil /\ lastRef \in Nat /\ messages \in Histories
  BY Typed DEF Busy
<1>1. turn'.recipient = p /\ turn'.subscribers = turn.subscribers
  <2>1. PICK i : i = Len(messages)
    OBVIOUS
  <2>2. turn' = StartTurn(turn, lastRef + 1, p, i) /\ i \in Int /\ lastRef + 1 \in Nat
    BY <1>0, <2>1, HistoryIsSeq, LenProperties DEF BeginTurn
  <2> QED BY <1>0, <2>2, StartTurnType
<1>2. wk[p].pc = "none" /\ out[p] = <<>>
  BY DEF IInv, Calls, Refs, Queues
<1>3. /\ \A q \in Prompts \ {p} : wk'[q] = wk[q] /\ call'[q] = call[q]
      /\ call'[p] = "waiting" /\ wk'[p] = Worker(p, kind, lastRef + 1)
  BY <1>0 DEF BeginTurn
<1>4. wk'[p].kind = kind
  <2>1. \A ms : [Idle EXCEPT !.pc = "start", !.kind = kind, !.ref = lastRef + 1, !.base = ms, !.msgs = ms].kind = kind
    BY SMT DEF Idle
  <2> QED BY <1>3, <2>1, Zenon DEF Worker
<1>5. PublishedOnce'
  <2>1. \A q \in Prompts : Over(q)' <=> Over(q)
    BY <1>0, <1>1, <1>2, <1>3 DEF Over
  <2> QED BY <2>1, PublishedSame DEF StreamInv
<1>6. ASSUME NEW q \in Prompts \ {p} PROVE Heard(q)'
  <2>1. Heard(q)
    BY DEF StreamInv
  <2>2. q \in turn.subscribers => Listening(q)'
    BY <1>1, <1>3, <2>1 DEF Heard, Listening
  <2> QED BY <1>1, <1>3, <2>1, <2>2 DEF Heard
<1>7. Heard(p)'
  <2>1. inbox[p] = <<>> /\ (p \in turn.subscribers => call[p] = "subscribed")
    BY DEF StreamInv, Heard, Listening
  <2>2. Warned(<<>>)
    BY DEF Warned
  <2>3. p \in turn.subscribers => Listening(p)'
    BY <1>2, <1>3, <1>4, <2>1, <2>2 DEF Listening
  <2>4. inbox'[p] = <<>> /\ call'[p] = "waiting"
    BY <1>3, <2>1
  <2> QED BY <1>1, <2>3, <2>4, OpenEnded DEF Heard
<1> QED BY <1>5, <1>6, <1>7 DEF StreamInv

(* A client's own call, its subscription and what it hears change, nothing of the turn that runs. *)
LEMMA OwnHeard ==
    ASSUME IInv, StreamInv, NEW p \in Prompts, UNCHANGED <<wk, out, notified>>,
           turn'.recipient = turn.recipient,
           \A q \in Prompts \ {p} : /\ call'[q] = call[q] /\ inbox'[q] = inbox[q]
                                    /\ q \in turn'.subscribers <=> q \in turn.subscribers,
           Heard(p)'
    PROVE  StreamInv'
<1>1. PublishedOnce'
  <2>1. \A q \in Prompts : Over(q)' <=> Over(q)
    BY DEF Over
  <2> QED BY <2>1, PublishedSame DEF StreamInv
<1>2. ASSUME NEW q \in Prompts \ {p} PROVE Heard(q)'
  <2>1. Heard(q)
    BY DEF StreamInv
  <2>2. q \in turn.subscribers => Listening(q)'
    BY <2>1 DEF Heard, Listening
  <2> QED BY <2>1, <2>2 DEF Heard
<1> QED BY <1>1, <1>2 DEF StreamInv

(* What clients do: begin, subscribe, leave, or be refused. *)
LEMMA ClientHeard ==
    ASSUME IInv, StreamInv, NEW p \in Prompts,
           Run(p) \/ RunTimeout(p) \/ Subscribe(p) \/ Stream(p) \/ Unsubscribe(p) \/ SubscriberDown(p)
    PROVE  StreamInv'
<1> DEFINE E == StreamEvents \cup {"done"}
<1>0. /\ turn \in Turns /\ call \in [Prompts -> Answers] /\ inbox \in [Prompts -> Seq(E)]
      /\ Nil \notin Prompts /\ Heard(p)
  BY Typed DEF StreamInv
<1>1. call[p] \in {"idle", "subscribed"} =>
         turn.recipient # p /\ wk[p].pc = "none" /\ inbox[p] = <<>>
  BY <1>0 DEF IInv, Calls, Owners, Refs, Heard
<1>2. CASE Run(p)
  <2>1. CASE Busy
    <3>1. /\ call[p] = "idle" /\ call' = [call EXCEPT ![p] = "busy"]
          /\ UNCHANGED <<turn, wk, out, inbox, notified>>
      BY <1>2, <2>1 DEF Run
    <3>2. p \notin turn.subscribers
      BY <1>0, <3>1 DEF Heard, Listening
    <3>3. call'[p] = "busy" /\ \A q \in Prompts \ {p} : call'[q] = call[q]
      BY <1>0, <3>1
    <3>4. Heard(p)'
      BY <1>0, <1>1, <3>1, <3>2, <3>3 DEF Heard
    <3> QED BY <3>1, <3>3, <3>4, OwnHeard
  <2>2. CASE ~Busy
    <3>1. BeginTurn(p, "run") /\ call[p] = "idle" /\ UNCHANGED <<inbox, notified, out>>
      BY <1>2, <2>2 DEF Run
    <3> QED BY <2>2, <3>1, BeginHeard
  <2> QED BY <2>1, <2>2
<1>3. CASE RunTimeout(p)
  <2>1. /\ call[p] = "waiting" /\ wk[p].kind = "run" /\ call' = [call EXCEPT ![p] = "gone"]
        /\ UNCHANGED <<turn, wk, out, inbox, notified>>
    BY <1>3 DEF RunTimeout, sessionVars, workerVars
  <2>2. turn.recipient = p
    BY <2>1 DEF IInv, Calls
  <2>3. p \notin turn.subscribers
    BY <1>0, <2>1, <2>2, RecipientWaits DEF Heard, Listening
  <2>4. call'[p] = "gone" /\ \A q \in Prompts \ {p} : call'[q] = call[q]
    BY <1>0, <2>1
  <2>5. Heard(p)'
    BY <1>0, <2>1, <2>3, <2>4 DEF Heard
  <2> QED BY <2>1, <2>4, <2>5, OwnHeard
<1>4. CASE Subscribe(p)
  <2>1. /\ call[p] = "idle" /\ call' = [call EXCEPT ![p] = "subscribed"]
        /\ turn' = Subscribed(turn, p) /\ UNCHANGED <<wk, out, inbox, notified>>
    BY <1>4 DEF Subscribe, workerVars
  <2>2. turn'.recipient = turn.recipient /\ turn'.subscribers = turn.subscribers \cup {p}
    BY <1>0, <2>1, SubscribersStay, SubscribersType
  <2>3. call'[p] = "subscribed" /\ \A q \in Prompts \ {p} : call'[q] = call[q]
    BY <1>0, <2>1
  <2>4. Listening(p)'
    BY <1>1, <2>1, <2>2, <2>3 DEF Listening
  <2>5. Heard(p)'
    BY <1>0, <1>1, <2>1, <2>2, <2>3, <2>4 DEF Heard
  <2> QED BY <2>1, <2>2, <2>3, <2>5, OwnHeard
<1>5. CASE Stream(p)
  <2>1. CASE Busy
    <3>1. /\ call[p] = "subscribed" /\ call' = [call EXCEPT ![p] = "busy"]
          /\ Broadcast(p, <<"error", "done">>) /\ UNCHANGED <<turn, wk, out, notified>>
      BY <1>5, <2>1 DEF Stream
    <3>2. call'[p] = "busy" /\ \A q \in Prompts \ {p} : call'[q] = call[q] /\ inbox'[q] = inbox[q]
      BY <1>0, <3>1 DEF Broadcast
    <3>3. inbox'[p] = IF p \in turn.subscribers THEN inbox[p] \o <<"error", "done">> ELSE inbox[p]
      BY <1>0, <3>1 DEF Broadcast
    <3>4. ASSUME p \in turn.subscribers
          PROVE  Ended(inbox'[p]) /\ inbox'[p] # <<>> /\ Last(inbox'[p]) = "done" /\ HasError(inbox'[p])
      <4>1. inbox[p] \in Seq(E) /\ Open(inbox[p]) /\ {"error", "done"} \subseteq E
        BY <1>0, <1>1, <3>1, OpenEnded DEF StreamEvents
      <4> HIDE DEF E
      <4> QED BY <3>3, <3>4, <4>1, ClosedWithError
    <3>5. Heard(p)'
      <4>1. p \in turn.subscribers => Listening(p)'
        BY <1>1, <3>1, <3>2, <3>4 DEF Listening
      <4>2. Ended(inbox'[p])
        BY <1>0, <3>3, <3>4 DEF Heard
      <4> QED BY <1>1, <3>1, <3>2, <4>1, <4>2 DEF Heard
    <3> QED BY <3>1, <3>2, <3>5, OwnHeard
  <2>2. CASE ~Busy
    <3>1. BeginTurn(p, "stream") /\ call[p] = "subscribed" /\ UNCHANGED <<inbox, notified, out>>
      BY <1>5, <2>2 DEF Stream
    <3> QED BY <2>2, <3>1, BeginHeard
  <2> QED BY <2>1, <2>2
<1>6. CASE Unsubscribe(p) \/ SubscriberDown(p)
  <2>1. /\ call' = call \/ call' = [call EXCEPT ![p] = "gone"]
        /\ turn' = Unsubscribed(turn, p) /\ UNCHANGED <<wk, out, inbox, notified>>
    BY <1>6 DEF Unsubscribe, SubscriberDown, workerVars
  <2>2. turn'.recipient = turn.recipient /\ turn'.subscribers = turn.subscribers \ {p}
    BY <1>0, <2>1, SubscribersStay, SubscribersType
  <2>3. call'[p] \in {call[p], "gone"} /\ \A q \in Prompts \ {p} : call'[q] = call[q]
    BY <1>0, <2>1
  <2>4. Heard(p)'
    BY <1>0, <2>1, <2>2, <2>3 DEF Heard
  <2> QED BY <2>1, <2>2, <2>3, <2>4, OwnHeard
<1> QED BY <1>2, <1>3, <1>4, <1>5, <1>6

(* At the start nobody listens and nothing was published. *)
LEMMA StreamStarts == Init => StreamInv
<1> SUFFICES ASSUME Init PROVE StreamInv
  OBVIOUS
<1>1. /\ turn = NewTurn /\ notified = <<>> /\ \A p \in Prompts : wk[p] = Idle /\ call[p] = "idle" /\ inbox[p] = <<>>
  BY DEF Init
<1>2. turn.subscribers = {} /\ turn.recipient = Nil /\ Idle.pc = "none" /\ Nil \notin Prompts
  BY <1>1, SessionAssumption DEF NewTurn, Idle
<1>3. \A p \in Prompts : ~Over(p) /\ Published(p) = {}
  BY <1>1, <1>2 DEF Over, Published
<1>4. \A p \in Prompts : Heard(p)
  BY <1>1, <1>2, OpenEnded DEF Heard
<1> QED BY <1>3, <1>4 DEF StreamInv, PublishedOnce

(* Every step keeps what the clients of streams heard in agreement with the session. *)
LEMMA StreamStep ==
    ASSUME IInv, StreamInv, [Next]_vars
    PROVE  StreamInv'
<1>0. turn \in Turns
  BY Typed
<1>1. ASSUME NEW p \in Prompts, Run(p) \/ RunTimeout(p) \/ Subscribe(p) \/ Stream(p)
                                \/ Unsubscribe(p) \/ SubscriberDown(p)
      PROVE  StreamInv'
  BY <1>1, ClientHeard
<1>2. CASE Abort \/ Clear
  <2>1. \A q \in Prompts : NothingHeard[q] \in Seq(StreamEvents) /\ NothingHeard[q] = <<>>
    BY DEF NothingHeard
  <2> QED BY <1>2, <2>1, AbortHeard DEF Abort, Clear
<1>3. CASE Compact \/ TimerFires \/ Persist \/ UNCHANGED vars
  <2>1. UNCHANGED <<turn, wk, out, call, inbox, notified>>
    BY <1>3 DEF Compact, TimerFires, Persist, vars, sessionVars, workerVars, clientVars
  <2> QED BY <2>1, StillHeard
<1>4. CASE Steer
  <2>1. /\ UNCHANGED <<wk, out, call, inbox, notified>>
        /\ turn' = Steered(turn, controls) \/ turn' = FollowedUp(turn, controls)
    BY <1>4 DEF Steer, workerVars, clientVars
  <2>2. turn'.recipient = turn.recipient /\ turn'.subscribers = turn.subscribers
    BY <1>0, <2>1, SubscribersStay
  <2> QED BY <2>1, <2>2, StillHeard
<1>5. ASSUME NEW p \in Prompts, SessionHandles(p)
      PROVE  StreamInv'
  BY <1>5, HandleEventHeard, AsksHeard, HandleCompleteHeard DEF SessionHandles
<1>6. ASSUME NEW p \in Prompts, WorkerSteps(p)
      PROVE  StreamInv'
  BY <1>6, WorkerStepsHeard
<1>7. ASSUME NEW p \in Prompts, NEW t \in ToolIds, ToolSteps(p, t)
      PROVE  StreamInv'
  BY <1>7, ToolStepsHeard
<1>8. CASE CompactionDone \/ \E ref \in fired : HandleTimeout(ref)
  BY <1>8, CompactionHeard
<1> QED BY <1>1, <1>2, <1>3, <1>4, <1>5, <1>6, <1>7, <1>8 DEF Next, ClientSteps

(* What the clients of streams have heard fits what the session is doing, in every reachable state
   (broadcast_subscribers, subscribe, stream, the completion casts and abort_turn). *)
THEOREM StreamInvariant == Spec => []StreamInv
<1>1. IInv /\ StreamInv /\ [Next]_vars => StreamInv'
  BY StreamStep
<1> QED BY <1>1, StreamStarts, SessionInvariant, PTL DEF Spec

(* Every stream is closed exactly once, hears nothing afterwards, and is told of its failure first;
   the notifier sees one end of each, and none of those that were refused. *)
THEOREM StreamsCloseOnce == Spec => []StreamClosedOnce
<1>1. IInv /\ StreamInv => StreamClosedOnce
  <2> SUFFICES ASSUME IInv, StreamInv, NEW p \in Prompts
               PROVE  /\ IF Over(p) THEN \E i \in Published(p) : Published(p) = {i} ELSE Published(p) = {}
                      /\ Ended(inbox[p])
                      /\ p \in turn.subscribers /\ call[p] \notin {"subscribed", "waiting"} =>
                            /\ inbox[p] # <<>> /\ Last(inbox[p]) = "done"
                            /\ call[p] # "ok" => HasError(inbox[p])
    BY DEF StreamClosedOnce, Over, Published, Ended, HasError
  <2> QED BY DEF StreamInv, PublishedOnce, Heard, Listening
<1> QED BY <1>1, StreamInvariant, SessionInvariant, PTL

-----------------------------------------------------------------------------
(* The active prompt. *)

(* The prompt of a turn is at this index, counted from zero. *)
PromptAt(ms, i, p) == Len(ms) > i /\ ms[i + 1] = Msg(p, 1, "user")

(* What a compaction is working on lies in front of this index. *)
InFront(c, i) == c.task # 0 \/ (c.result # Nil /\ c.result.ok) => Policy /\ Len(c.prefix) <= i

(* The boundary of a prefix is not behind what it protects. *)
LEMMA PrefixShort ==
    ASSUME NEW ms \in Histories, NEW keep \in Nat, NEW j \in 0..Len(ms)
    PROVE  Len(PrefixOf(ms, keep, Len(ms) - j)) <= j
<1>0. Len(ms) \in Nat /\ Len(ms) - j \in Int
  BY HistoryIsSeq
<1>1. PICK k \in 0..Len(ms) : /\ PrefixOf(ms, keep, Len(ms) - j) = Take(ms, k)
                              /\ k = 0 \/ k <= Len(ms) - (Len(ms) - j)
  BY <1>0, PrefixBoundary
<1>2. Len(Take(ms, k)) = k
  BY TakeType
<1>3. k <= j
  BY <1>0, <1>1
<1> QED BY <1>1, <1>2, <1>3

(* start works on the prefix it is given. *)
LEMMA StartPrefix ==
    ASSUME NEW c, c \in Compactions, NEW ref \in Nat, NEW prefix \in Histories,
           NEW d, d = StartCompaction(c, ref, prefix)
    PROVE  d.prefix = prefix
<1> DEFINE c0 == CancelCompaction(c)
           c1 == [c0 EXCEPT !.task = ref]
           c2 == [c1 EXCEPT !.prefix = prefix]
<1>1. d = [c2 EXCEPT !.attempted = prefix]
  BY DEF StartCompaction
<1>2. c0 \in Compactions
  BY CancelType DEF Fits
<1> HIDE DEF c0
<1>3. c1 \in Compactions
  BY <1>2, WithTask
<1> HIDE DEF c1
<1>4. c2 \in Compactions /\ c2.prefix = prefix
  BY <1>3, WithPrefix
<1> HIDE DEF c2
<1> QED BY <1>1, <1>4, WithAttempted

(* background starts in front of the index that is protected. *)
LEMMA BackgroundFront ==
    ASSUME NEW c, Fits(c), NEW ref \in Nat \ {0}, NEW ms \in Histories,
           NEW j \in 0..Len(ms), InFront(c, j), Policy
    PROVE  InFront(Background(c, ref, ms, Len(ms) - j), j)
<1> DEFINE prefix == PrefixOf(ms, KeepRecent, Len(ms) - j)
           d == StartCompaction(c, ref, prefix)
<1>0. Len(ms) - j \in Int
  BY HistoryIsSeq
<1>1. prefix \in Histories /\ Len(prefix) <= j
  BY <1>0, PrefixType, PrefixShort, PolicyAssumption
<1>2. \/ Background(c, ref, ms, Len(ms) - j) = d
      \/ Background(c, ref, ms, Len(ms) - j) = c
  BY Zenon DEF Background
<1> HIDE DEF prefix
<1>3. d.prefix = prefix
  BY <1>1, StartPrefix DEF Fits
<1> QED BY <1>1, <1>2, <1>3 DEF InFront

(* A waiter is no part of what is worked on. *)
LEMMA WaiterFront ==
    ASSUME NEW d, Fits(d), NEW from \in Prompts \cup {Nil}, NEW phase \in {"manual", "background", "fallback"},
           NEW j, InFront(d, j)
    PROVE  InFront([d EXCEPT !.waiter = [from |-> from, phase |-> phase]], j)
<1> DEFINE w == [from |-> from, phase |-> phase]
           e == [d EXCEPT !.waiter = w]
<1>1. w \in Waiters
  BY SMT DEF Waiters
<1> HIDE DEF w
<1>2. e.prefix = d.prefix /\ e.task = d.task /\ e.result = d.result
  BY <1>1, WithWaiter DEF Fits
<1> QED BY <1>2 DEF InFront, w

(* block holds its caller for a task in front of the index. *)
LEMMA BlockFront ==
    ASSUME NEW c, Fits(c), NEW ref \in Nat \ {0}, NEW ms \in Histories,
           NEW from \in Prompts, NEW phase \in {"background", "fallback"},
           NEW j \in 0..Len(ms), InFront(c, j), Policy,
           NEW r, r = Block(c, ref, ms, from, phase, Len(ms) - j)
    PROVE  InFront(r.c, j) /\ r.messages = ms
<1> DEFINE prefix == PrefixOf(ms, 0, Len(ms) - j)
           d == StartCompaction(c, ref, prefix)
<1>0. Len(ms) - j \in Int
  BY HistoryIsSeq
<1>1. prefix \in Histories /\ Len(prefix) <= j
  BY <1>0, PrefixType, PrefixShort
<1>2. \/ r = [tag |-> "wait", error |-> Nil, messages |-> ms,
              c |-> [c EXCEPT !.waiter = [from |-> from, phase |-> "background"]]]
      \/ r = [tag |-> "wait", error |-> Nil, messages |-> ms,
              c |-> [d EXCEPT !.waiter = [from |-> from, phase |-> "fallback"]]]
      \/ r = [tag |-> "error", error |-> "context_limit", c |-> c, messages |-> ms]
  BY Zenon DEF Block
<1> HIDE DEF prefix
<1>3. Fits(d) /\ d.prefix = prefix
  BY <1>1, StartPrefix, StartType DEF Fits
<1> HIDE DEF d
<1>4. InFront(d, j)
  BY <1>1, <1>3 DEF InFront
<1>5. /\ InFront([c EXCEPT !.waiter = [from |-> from, phase |-> "background"]], j)
      /\ InFront([d EXCEPT !.waiter = [from |-> from, phase |-> "fallback"]], j)
  BY <1>3, <1>4, WaiterFront
<1> QED BY <1>2, <1>5

(* A replacement in front of the prompt moves it and nothing else. *)
LEMMA ReplacedFront ==
    ASSUME NEW prefix \in Histories, NEW new \in Histories, NEW ms \in Histories,
           NEW i \in Nat, NEW p, PromptAt(ms, i, p), Len(prefix) <= i,
           NEW u, u = new \o Drop(ms, Len(prefix)), u \in Histories,
           NEW j, j = i + Len(u) - Len(ms)
    PROVE  j \in Nat /\ PromptAt(u, j, p)
<1> DEFINE k == Len(prefix)
           d == Drop(ms, k)
<1>0. Len(ms) \in Nat /\ k \in Nat /\ Len(new) \in Nat /\ i + 1 \in 1..Len(ms)
  BY HistoryIsSeq DEF PromptAt
<1>1. /\ d \in Seq(Messages) /\ Len(d) = Len(ms) - k
      /\ \A n \in 1..(Len(ms) - k) : d[n] = ms[k + n]
  BY <1>0, HistoryIsSeq, SMT DEF Drop
<1> HIDE DEF d
<1>2. /\ Len(u) = Len(new) + Len(d)
      /\ \A n \in 1..(Len(new) + Len(d)) : u[n] = IF n <= Len(new) THEN new[n] ELSE d[n - Len(new)]
  BY <1>1, HistoryIsSeq, ConcatProperties DEF d
<1>l. Len(d) = Len(ms) - k /\ Len(u) = Len(new) + Len(d) /\ k <= i
  BY <1>1, <1>2
<1> HIDE DEF k
<1>3. /\ j = i + Len(new) - k /\ j \in Nat /\ Len(u) > j
      /\ j + 1 \in 1..(Len(new) + Len(d)) /\ ~(j + 1 <= Len(new)) /\ (j + 1) - Len(new) = i + 1 - k
  BY <1>0, <1>l
<1>4. u[j + 1] = d[i + 1 - k]
  BY <1>2, <1>3
<1>5. d[i + 1 - k] = ms[i + 1]
  <2>1. i + 1 - k \in 1..(Len(ms) - k) /\ k + (i + 1 - k) = i + 1
    BY <1>0, <1>l
  <2> QED BY <1>1, <2>1
<1> QED BY <1>3, <1>4, <1>5 DEF PromptAt

(* take_result moves the prompt with the list in front of it, and settles what it took. *)
LEMMA TakeFront ==
    ASSUME NEW c, Fits(c), NEW ms \in Histories, NEW i \in Nat, NEW p, PromptAt(ms, i, p), InFront(c, i),
           NEW r, r = TakeResult(c, ms), NEW j, j = i + Len(r.messages) - Len(ms)
    PROVE  /\ j \in Nat /\ PromptAt(r.messages, j, p) /\ InFront(r.c, j)
           /\ Len(r.messages) - j = Len(ms) - i
<1>0. Len(ms) \in Nat /\ r.messages \in Histories /\ Len(r.messages) \in Nat
  BY TakeResultType, HistoryIsSeq
<1>1. CASE c.result = Nil
  <2>1. r = [c |-> c, messages |-> ms, error |-> Nil]
    BY <1>1, Zenon DEF TakeResult
  <2>2. r.c = c /\ r.messages = ms
    BY <2>1
  <2> QED BY <1>0, <2>2
<1>2. CASE c.result # Nil
  <2> DEFINE updated == IF c.result.ok /\ IsPrefix(c.prefix, ms)
                        THEN c.result.messages \o Drop(ms, Len(c.prefix))
                        ELSE ms
             d == [c EXCEPT !.prefix = Nil, !.result = Nil,
                            !.usage = IF c.result.ok /\ updated # ms THEN Nil ELSE @]
  <2>1. r = [c |-> d, messages |-> updated, error |-> c.result.reason]
    BY <1>2, Zenon DEF TakeResult
  <2>2. r.messages = updated
    BY <2>1
  <2>3. r.c.task = 0 /\ r.c.result = Nil
    BY <1>2, TakeResultType DEF Fits
  <2>4. InFront(r.c, j)
    BY <2>3 DEF InFront
  <2>5. CASE c.result.ok /\ IsPrefix(c.prefix, ms)
    <3>1. c.prefix \in Histories /\ c.result.messages \in Histories
      <4>1. c.result \in Results /\ c.prefix \in Histories
        BY <1>2, <2>5, SMT DEF Fits, Compactions
      <4> QED BY <4>1, SMT DEF Results
    <3>2. Len(c.prefix) <= i
      BY <1>2, <2>5 DEF InFront
    <3>3. r.messages = c.result.messages \o Drop(ms, Len(c.prefix))
      BY <2>2, <2>5
    <3> HIDE DEF updated, d
    <3>4. j \in Nat /\ PromptAt(r.messages, j, p)
      <4>1. PICK prefix \in Histories, new \in Histories :
               prefix = c.prefix /\ new = c.result.messages
        BY <3>1
      <4>2. PICK u \in Histories : u = r.messages
        BY <1>0
      <4>3. u = new \o Drop(ms, Len(prefix)) /\ Len(prefix) <= i /\ j = i + Len(u) - Len(ms)
        BY <3>2, <3>3, <4>1, <4>2
      <4> QED BY <4>2, <4>3, ReplacedFront
    <3> QED BY <1>0, <2>4, <3>4
  <2>6. CASE ~(c.result.ok /\ IsPrefix(c.prefix, ms))
    <3>1. r.messages = ms
      BY <2>2, <2>6
    <3> QED BY <1>0, <2>4, <3>1
  <2> QED BY <2>5, <2>6
<1> QED BY <1>1, <1>2

(* A checkpoint leaves the prompt at its shifted index and starts nothing behind it. *)
LEMMA CheckpointFront ==
    ASSUME NEW c, Fits(c), NEW ref \in Nat \ {0}, NEW ms \in Histories, NEW from \in Prompts,
           NEW phase \in {"background", "fallback"}, NEW i \in Nat, NEW p, PromptAt(ms, i, p),
           InFront(c, i), Policy,
           NEW r, r = Checkpoint(c, ref, ms, from, phase, Len(ms) - i),
           NEW j, j = i + Len(r.messages) - Len(ms)
    PROVE  j \in Nat /\ PromptAt(r.messages, j, p) /\ InFront(r.c, j)
<1> DEFINE prot == Len(ms) - i
           taken == TakeResult(c, ms)
           tc == taken.c
           tm == taken.messages
           next == Background(tc, ref, tm, prot)
           held == Block(tc, ref, tm, from, phase, prot)
<1>1. \/ r = [tag |-> "error", error |-> taken.error, c |-> tc, messages |-> tm]
      \/ r = [tag |-> "continue", error |-> Nil, c |-> tc, messages |-> tm]
      \/ r = held
      \/ r = [tag |-> "continue", error |-> Nil, c |-> next, messages |-> tm]
  BY Zenon DEF Checkpoint
<1>2. Fits(tc) /\ tm \in Histories
  BY TakeResultType
<1>3. PICK k : k = i + Len(tm) - Len(ms)
  OBVIOUS
<1>4. k \in Nat /\ PromptAt(tm, k, p) /\ InFront(tc, k) /\ Len(tm) - k = prot
  BY <1>3, TakeFront
<1> HIDE DEF taken, tc, tm
<1>5. k \in 0..Len(tm)
  BY <1>2, <1>4, HistoryIsSeq DEF PromptAt
<1>6. InFront(next, k)
  BY <1>2, <1>4, <1>5, BackgroundFront
<1>7. InFront(held.c, k) /\ held.messages = tm
  <2>1. held = Block(tc, ref, tm, from, phase, Len(tm) - k)
    BY <1>4
  <2> QED BY <1>2, <1>4, <1>5, <2>1, BlockFront
<1> HIDE DEF next, held
<1>8. r.messages = tm /\ InFront(r.c, k)
  BY <1>1, <1>4, <1>6, <1>7
<1> QED BY <1>3, <1>4, <1>8

-----------------------------------------------------------------------------
(* The worker has nothing but a failure left to deliver. *)
NoGood(s) == \A i \in 1..Len(s) : s[i].type = "complete" => s[i].arg = FALSE

Lost(w, s) == w.pc = "failed" \/ (w.pc = "done" /\ NoGood(s))

(* The history and the worker's list hold the prompt at the index, but for a list that is
   never used again: the one of a worker that waits at a checkpoint, whose messages the session
   has taken over, and the one of a worker that failed. *)
Placed(i, p) ==
    /\ i \in Nat
    /\ ~Policy => Len(messages) <= i
    /\ Policy => i <= Len(messages) /\ (Len(messages) > i => PromptAt(messages, i, p))
    /\ Policy => IF compaction.waiter # Nil THEN PromptAt(messages, i, p)
                 ELSE PromptAt(wk[p].msgs, i, p) \/ Lost(wk[p], out[p])

PromptInv ==
    /\ InFront(compaction, IF turn.streaming THEN turn.prompt_index ELSE Len(messages))
    /\ turn.streaming => Placed(turn.prompt_index, turn.recipient)

(* A list that grows keeps its prompt. *)
LEMMA PromptStays ==
    ASSUME NEW S, NEW s \in Seq(S), NEW t \in Seq(S), NEW i \in Nat, NEW p, PromptAt(s, i, p)
    PROVE  PromptAt(s \o t, i, p)
<1>1. /\ Len(s \o t) = Len(s) + Len(t) /\ Len(s) \in Nat /\ Len(t) \in Nat
      /\ \A n \in 1..(Len(s) + Len(t)) : (s \o t)[n] = IF n <= Len(s) THEN s[n] ELSE t[n - Len(s)]
  BY ConcatProperties, LenProperties
<1>2. Len(s) > i /\ i + 1 \in 1..(Len(s) + Len(t)) /\ i + 1 <= Len(s)
  BY <1>1 DEF PromptAt
<1> QED BY <1>1, <1>2 DEF PromptAt

(* The prompt is the last message a turn begins with. *)
LEMMA PromptAppended ==
    ASSUME NEW S, NEW s \in Seq(S), NEW p, Msg(p, 1, "user") \in S
    PROVE  PromptAt(Append(s, Msg(p, 1, "user")), Len(s), p)
BY AppendProperties, LenProperties DEF PromptAt

(* Nothing that is sent with a failure is a success, and reading takes nothing back. *)
LEMMA NoGoodTail ==
    ASSUME NEW S, NEW s \in Seq(S), s # <<>>, NoGood(s)
    PROVE  NoGood(Tail(s)) /\ (Head(s).type = "complete" => Head(s).arg = FALSE)
<1>1. /\ Len(s) \in Nat /\ Len(s) >= 1 /\ Len(Tail(s)) = Len(s) - 1 /\ Head(s) = s[1]
      /\ \A i \in 1..(Len(s) - 1) : Tail(s)[i] = s[i + 1]
  BY HeadTailProperties, LenProperties, EmptySeq
<1>2. \A i \in 1..(Len(s) - 1) : i + 1 \in 1..Len(s)
  BY <1>1
<1> QED BY <1>1, <1>2 DEF NoGood

(* A list that replaces this one still has its prompt where it was. *)
Carries(ms, new, p) == \A i \in Nat : PromptAt(ms, i, p) => PromptAt(new, i, p)

(* One more message, or several, carry the prompt along. *)
LEMMA GrownCarries ==
    ASSUME NEW ms \in Histories, NEW p
    PROVE  /\ Carries(ms, ms, p)
           /\ \A m \in BaseMessages : Carries(ms, Append(ms, m), p)
           /\ \A t \in Seq(BaseMessages) : Carries(ms, ms \o t, p)
<1>1. ms \in Seq(Messages)
  BY HistoryIsSeq
<1>2. ASSUME NEW t \in Seq(BaseMessages) PROVE Carries(ms, ms \o t, p)
  <2>1. t \in Seq(Messages)
    BY BaseIsHistory, HistoryIsSeq
  <2> QED BY <1>1, <2>1, PromptStays DEF Carries
<1>3. ASSUME NEW m \in BaseMessages PROVE Carries(ms, Append(ms, m), p)
  <2>1. /\ Len(Append(ms, m)) = Len(ms) + 1 /\ Len(ms) \in Nat
        /\ \A i \in 1..Len(ms) : Append(ms, m)[i] = ms[i]
    <3>1. m \in Messages
      BY DEF Messages
    <3> QED BY <1>1, <3>1, AppendProperties, LenProperties
  <2>2. ASSUME NEW i \in Nat, PromptAt(ms, i, p) PROVE PromptAt(Append(ms, m), i, p)
    <3>1. i + 1 \in 1..Len(ms)
      BY <2>1, <2>2 DEF PromptAt
    <3> QED BY <2>1, <2>2, <3>1 DEF PromptAt
  <2> QED BY <2>2 DEF Carries
<1> QED BY <1>2, <1>3 DEF Carries

(* A step that leaves the turn, the history and the compaction's work alone, and in which the worker
   of the running turn keeps its prompt. *)
LEMMA StillPlaced ==
    ASSUME PromptInv, turn'.streaming = turn.streaming, turn'.prompt_index = turn.prompt_index,
           turn'.recipient = turn.recipient, messages' = messages,
           \A i : InFront(compaction, i) => InFront(compaction', i),
           compaction'.waiter = compaction.waiter,
           turn.streaming /\ Policy /\ compaction.waiter = Nil =>
              \A i \in Nat : PromptAt(wk[turn.recipient].msgs, i, turn.recipient)
                                \/ Lost(wk[turn.recipient], out[turn.recipient])
                             => PromptAt(wk'[turn.recipient].msgs, i, turn.recipient)
                                \/ Lost(wk'[turn.recipient], out'[turn.recipient])
    PROVE  PromptInv'
<1>1. InFront(compaction', IF turn.streaming THEN turn.prompt_index ELSE Len(messages))
  BY DEF PromptInv
<1>2. turn.streaming => Placed(turn.prompt_index, turn.recipient)'
  <2>1. turn.streaming => Placed(turn.prompt_index, turn.recipient)
    BY DEF PromptInv
  <2> QED BY <2>1 DEF Placed
<1> QED BY <1>1, <1>2 DEF PromptInv

(* A worker's own step. *)
LEMMA StepPlaced ==
    ASSUME IInv, PromptInv, NEW p \in Prompts, NEW w, NEW s, Step(p, w, s),
           \/ w.pc = "failed"
           \/ wk[p].pc \notin {"failed", "done"} /\ (Policy => Carries(wk[p].msgs, w.msgs, p))
           \/ wk[p].pc = "failed" /\ w.pc = "done" /\ NoGood(out[p] \o s)
    PROVE  PromptInv'
<1>0. /\ wk \in [Prompts -> Workers] /\ out \in [Prompts -> Seq(Wires)]
      /\ turn.recipient \in Prompts \cup {Nil} /\ (turn.streaming <=> turn.recipient # Nil)
  BY Typed
<1>1. /\ wk' = [wk EXCEPT ![p] = w] /\ out' = [out EXCEPT ![p] = out[p] \o s]
      /\ UNCHANGED <<turn, messages, compaction>>
  BY DEF Step, sessionVars
<1>2. wk'[p] = w /\ out'[p] = out[p] \o s /\ \A q \in Prompts \ {p} : wk'[q] = wk[q] /\ out'[q] = out[q]
  BY <1>0, <1>1
<1>3. ASSUME Policy, NEW i \in Nat, PromptAt(wk[p].msgs, i, p) \/ Lost(wk[p], out[p])
      PROVE  PromptAt(w.msgs, i, p) \/ Lost(w, out[p] \o s)
  <2>1. CASE w.pc = "failed"
    BY <2>1 DEF Lost
  <2>2. CASE wk[p].pc \notin {"failed", "done"} /\ Carries(wk[p].msgs, w.msgs, p)
    BY <1>3, <2>2 DEF Lost, Carries
  <2>3. CASE wk[p].pc = "failed" /\ w.pc = "done" /\ NoGood(out[p] \o s)
    BY <2>3 DEF Lost
  <2> QED BY <1>3, <2>1, <2>2, <2>3
<1>4. \A q \in Prompts, i \in Nat :
         Policy /\ (PromptAt(wk[q].msgs, i, q) \/ Lost(wk[q], out[q])) =>
            PromptAt(wk'[q].msgs, i, q) \/ Lost(wk'[q], out'[q])
  BY <1>2, <1>3
<1> QED BY <1>0, <1>1, <1>4, StillPlaced

(* What a worker that fails sends holds no success. *)
LEMMA FailureNoGood ==
    ASSUME NEW q, Queue(q, "failed"), NEW s, Plain(s)
    PROVE  NoGood(q \o Append(s, Complete(FALSE)))
<1> DEFINE t == Append(s, Complete(FALSE))
<1>0. q \in Seq(Wires) /\ s \in Seq(Wires) /\ Complete(FALSE) \in Wires
  BY WireTypes DEF Queue, Plain
<1>a. Complete(FALSE).arg = FALSE
  BY DEF Complete
<1>1. /\ t \in Seq(Wires) /\ Len(t) = Len(s) + 1 /\ Len(s) \in Nat
      /\ \A i \in 1..Len(s) : t[i] = s[i]
      /\ t[Len(s) + 1] = Complete(FALSE)
  <2>1. PICK m \in Wires : m = Complete(FALSE)
    BY <1>0
  <2>2. /\ Append(s, m) \in Seq(Wires) /\ Len(Append(s, m)) = Len(s) + 1
        /\ \A i \in 1..Len(s) : Append(s, m)[i] = s[i]
        /\ Append(s, m)[Len(s) + 1] = m
    BY <1>0, AppendProperties
  <2>3. Len(s) \in Nat
    BY <1>0, LenProperties
  <2> QED BY <2>1, <2>2, <2>3
<1>2. NoGood(t)
  <2> SUFFICES ASSUME NEW i \in 1..Len(t), t[i].type = "complete" PROVE t[i].arg = FALSE
    BY DEF NoGood
  <2>1. CASE i = Len(s) + 1
    BY <1>1, <1>a, <2>1
  <2>2. CASE i # Len(s) + 1
    <3>1. i \in 1..Len(s)
      BY <1>1, <2>2
    <3>2. t[i].type \in {"event", "usage"}
      BY <1>1, <3>1 DEF Plain
    <3> QED BY <3>2
  <2> QED BY <2>1, <2>2
<1> HIDE DEF t
<1>3. /\ Len(q \o t) = Len(q) + Len(t) /\ Len(q) \in Nat /\ Len(t) \in Nat
      /\ \A i \in 1..(Len(q) + Len(t)) : (q \o t)[i] = IF i <= Len(q) THEN q[i] ELSE t[i - Len(q)]
  BY <1>0, <1>1, ConcatProperties, LenProperties
<1>4. NoGood(q \o t)
  <2> SUFFICES ASSUME NEW i \in 1..(Len(q) + Len(t)), (q \o t)[i].type = "complete"
               PROVE  (q \o t)[i].arg = FALSE
    BY <1>3 DEF NoGood
  <2>1. CASE i <= Len(q)
    <3>1. i \in 1..Len(q) /\ (q \o t)[i] = q[i]
      BY <1>3, <2>1
    <3> QED BY <3>1 DEF Queue
  <2>2. CASE ~(i <= Len(q))
    <3>1. i - Len(q) \in 1..Len(t) /\ (q \o t)[i] = t[i - Len(q)]
      BY <1>3, <2>2
    <3> QED BY <1>2, <3>1 DEF NoGood
  <2> QED BY <2>1, <2>2
<1> QED BY <1>4 DEF t

(* What a worker does to its list: it adds to it, or leaves it. *)
LEMMA WorkerStepsPlaced ==
    ASSUME IInv, PromptInv, NEW p \in Prompts, WorkerSteps(p)
    PROVE  PromptInv'
<1>0. wk[p] \in Workers /\ wk[p].msgs \in Histories
  BY WorkerOf
<1>m. /\ Carries(wk[p].msgs, wk[p].msgs, p)
      /\ \A m \in BaseMessages : Carries(wk[p].msgs, Append(wk[p].msgs, m), p)
      /\ \A t \in Seq(BaseMessages) : Carries(wk[p].msgs, wk[p].msgs \o t, p)
  BY <1>0, GrownCarries
<1>1. ASSUME wk[p].pc \notin {"failed", "done"}, NEW v, NEW s, Step(p, v, s), v.msgs = wk[p].msgs
      PROVE  PromptInv'
  BY <1>1, <1>m, StepPlaced
<1>2. ASSUME wk[p].pc \notin {"failed", "done"}, NEW pc, NEW s, Step(p, [wk[p] EXCEPT !.pc = pc], s)
      PROVE  PromptInv'
  <2>1. PICK v : v = [wk[p] EXCEPT !.pc = pc]
    OBVIOUS
  <2>2. v.msgs = wk[p].msgs
    BY <1>0, <2>1, SMT DEF Workers
  <2> QED BY <1>1, <1>2, <2>1, <2>2
<1>3. CASE WorkerStarts(p) \/ ToolTimesOut(p) \/ BackoffAborted(p) \/ WorkerLoops(p) \/ ProviderFails(p)
  <2>1. wk[p].pc \notin {"failed", "done"}
    BY <1>3 DEF WorkerStarts, ToolTimesOut, BackoffAborted, WorkerLoops, ProviderFails, At
  <2>2. \E pc, s : Step(p, [wk[p] EXCEPT !.pc = pc], s)
    BY <1>3 DEF WorkerStarts, ToolTimesOut, BackoffAborted, WorkerLoops, ProviderFails, Finish, Ask
  <2> QED BY <1>2, <2>1, <2>2
<1>4. CASE RuntimeAnswers(p)
  <2>1. PICK ms, s : /\ Step(p, [wk[p] EXCEPT !.pc = "done", !.msgs = ms], s)
                     /\ ms = wk[p].msgs \/ ms = Append(wk[p].msgs, Msg(p, 2, "assistant"))
    BY <1>4 DEF RuntimeAnswers
  <2>2. PICK v : v = [wk[p] EXCEPT !.pc = "done", !.msgs = ms]
    OBVIOUS
  <2>3. v.msgs = ms
    BY <1>0, <2>2, SMT DEF Workers
  <2>4. Msg(p, 2, "assistant") \in BaseMessages
    BY MsgType DEF Roles
  <2>5. Carries(wk[p].msgs, v.msgs, p)
    BY <1>m, <2>1, <2>3, <2>4
  <2>6. wk[p].pc = "start"
    BY <1>4 DEF RuntimeAnswers, At
  <2> QED BY <2>1, <2>2, <2>5, <2>6, StepPlaced
<1>5. CASE WorkerProceeds(p)
  <2>1. PICK ms, s : /\ Step(p, [[wk[p] EXCEPT !.msgs = ms, !.attempt = 1, !.emitted = FALSE] EXCEPT !.pc = "attempt"], s)
                     /\ Policy => ms = wk[p].msgs
    BY <1>5 DEF WorkerProceeds, Ask
  <2>2. PICK v : v = [[wk[p] EXCEPT !.msgs = ms, !.attempt = 1, !.emitted = FALSE] EXCEPT !.pc = "attempt"]
    OBVIOUS
  <2>3. v.msgs = ms
    BY <1>0, <2>2, SMT DEF Workers
  <2>4. wk[p].pc = "checkpointed"
    BY <1>5 DEF WorkerProceeds, At
  <2> QED BY <1>m, <2>1, <2>2, <2>3, <2>4, StepPlaced
<1>6. CASE ProviderStreams(p)
  <2>1. PICK v : v = [wk[p] EXCEPT !.emitted = TRUE]
    OBVIOUS
  <2>2. v.msgs = wk[p].msgs
    BY <1>0, <2>1, SMT DEF Workers
  <2> QED BY <1>1, <1>6, <2>1, <2>2 DEF ProviderStreams, At
<1>7. CASE ProviderAnswers(p)
  <2>1. PICK r, s : Step(p, [[wk[p] EXCEPT !.reply = r] EXCEPT !.pc = "after"], s)
    BY <1>7 DEF ProviderAnswers, Ask
  <2>2. PICK v : v = [[wk[p] EXCEPT !.reply = r] EXCEPT !.pc = "after"]
    OBVIOUS
  <2>3. v.msgs = wk[p].msgs
    BY <1>0, <2>2, SMT DEF Workers
  <2>4. wk[p].pc = "infer"
    BY <1>7 DEF ProviderAnswers, At
  <2> QED BY <1>1, <2>1, <2>2, <2>3, <2>4
<1>8. CASE BackoffElapses(p)
  <2>1. PICK n, s : Step(p, [[wk[p] EXCEPT !.attempt = n] EXCEPT !.pc = "attempt"], s)
    BY <1>8 DEF BackoffElapses, Ask
  <2>2. PICK v : v = [[wk[p] EXCEPT !.attempt = n] EXCEPT !.pc = "attempt"]
    OBVIOUS
  <2>3. v.msgs = wk[p].msgs
    BY <1>0, <2>2, SMT DEF Workers
  <2>4. wk[p].pc = "backoff"
    BY <1>8 DEF BackoffElapses, At
  <2> QED BY <1>1, <2>1, <2>2, <2>3, <2>4
<1>9. CASE WorkerFails(p)
  <2> DEFINE e == Emits(p, Append(<<Event("error")>>, Event("agent_end")))
  <2>1. Step(p, [wk[p] EXCEPT !.pc = "done"], Append(e, Complete(FALSE)))
    BY <1>9 DEF WorkerFails, Finish
  <2>2. wk[p].pc = "failed" /\ Queue(out[p], "failed")
    BY <1>9 DEF WorkerFails, At, IInv, Queues
  <2>3. Plain(e)
    <3>1. "error" \in StreamEvents /\ "agent_end" \in StreamEvents
      BY DEF StreamEvents
    <3>2. Event("agent_end") \in Wires /\ Event("agent_end").type \in {"event", "usage"}
      BY <3>1, WireTypes
    <3> QED BY <3>1, <3>2, EventPlain, PlainAppend, EmitsPlain
  <2> HIDE DEF e
  <2>4. NoGood(out[p] \o Append(e, Complete(FALSE)))
    BY <2>2, <2>3, FailureNoGood
  <2>5. PICK v : v = [wk[p] EXCEPT !.pc = "done"]
    OBVIOUS
  <2>6. v.pc = "done"
    BY <1>0, <2>5, SMT DEF Workers
  <2> QED BY <2>1, <2>2, <2>4, <2>5, <2>6, StepPlaced
<1>10. CASE WorkerRecords(p)
  <2> DEFINE ms == Append(wk[p].msgs, Msg(p, NextN(p), wk[p].reply))
  <2>1. wk[p].pc = "answered"
    BY <1>10 DEF WorkerRecords, At
  <2>2. Carries(wk[p].msgs, ms, p)
    <3>1. wk[p].reply \in Roles
      BY <2>1 DEF Roles, IInv, Answered
    <3>2. Msg(p, NextN(p), wk[p].reply) \in BaseMessages
      BY <1>0, <3>1, NextNType, MsgType
    <3> QED BY <1>m, <3>2
  <2>3. \E s, a : \/ Step(p, [[wk[p] EXCEPT !.msgs = ms] EXCEPT !.pc = "tools", !.tool = a], s)
                  \/ Step(p, [[wk[p] EXCEPT !.msgs = ms] EXCEPT !.pc = "done"], s)
    BY <1>10, Zenon DEF WorkerRecords
  <2> HIDE DEF ms
  <2>4. PICK s, a : \/ Step(p, [[wk[p] EXCEPT !.msgs = ms] EXCEPT !.pc = "tools", !.tool = a], s)
                    \/ Step(p, [[wk[p] EXCEPT !.msgs = ms] EXCEPT !.pc = "done"], s)
    BY <2>3
  <2>5. PICK v, w : /\ v = [[wk[p] EXCEPT !.msgs = ms] EXCEPT !.pc = "tools", !.tool = a]
                    /\ w = [[wk[p] EXCEPT !.msgs = ms] EXCEPT !.pc = "done"]
    OBVIOUS
  <2>6. v.msgs = ms /\ w.msgs = ms
    BY <1>0, <2>5, SMT DEF Workers
  <2>7. Step(p, v, s) \/ Step(p, w, s)
    BY <2>4, <2>5
  <2> QED BY <2>1, <2>2, <2>6, <2>7, StepPlaced
<1>11. CASE ToolsReturned(p)
  <2> DEFINE results == [t \in ToolIds |-> Msg(p, NextN(p) + t - 1, "tool_result")]
             ms == wk[p].msgs \o results
  <2>1. wk[p].pc = "tools" /\ \E s, i, n : Step(p, [wk[p] EXCEPT !.pc = "loop", !.round = n, !.tool = i, !.msgs = ms], s)
    BY <1>11 DEF ToolsReturned, At
  <2>2. Carries(wk[p].msgs, ms, p)
    <3>1. NextN(p) \in Nat \ {0} /\ Tools \in Nat
      BY <1>0, NextNType, SessionAssumption
    <3> DEFINE n == NextN(p)
    <3> HIDE DEF n
    <3>2. \A t \in 1..Tools : n + t - 1 \in Nat
      BY <3>1 DEF n
    <3>3. \A t \in 1..Tools : Msg(p, n + t - 1, "tool_result") \in BaseMessages
      BY <3>2, MsgType DEF Roles
    <3>4. results = [t \in 1..Tools |-> Msg(p, n + t - 1, "tool_result")]
      BY DEF ToolIds, n
    <3> HIDE DEF results
    <3>5. results \in Seq(BaseMessages)
      BY <3>1, <3>3, <3>4, IsASeq
    <3> QED BY <1>m, <3>5
  <2> HIDE DEF ms
  <2>3. PICK s, i, n : Step(p, [wk[p] EXCEPT !.pc = "loop", !.round = n, !.tool = i, !.msgs = ms], s)
    BY <2>1
  <2>4. PICK v : v = [wk[p] EXCEPT !.pc = "loop", !.round = n, !.tool = i, !.msgs = ms]
    OBVIOUS
  <2>5. v.msgs = ms
    BY <1>0, <2>4, SMT DEF Workers
  <2> QED BY <2>1, <2>2, <2>3, <2>4, <2>5, StepPlaced
<1> QED BY <1>3, <1>4, <1>5, <1>6, <1>7, <1>8, <1>9, <1>10, <1>11 DEF WorkerSteps

-----------------------------------------------------------------------------
(* What lies in front of an index lies in front of a later one; without background compaction
   there is nothing to adopt anywhere. *)
LEMMA FrontGrows ==
    ASSUME NEW c, Fits(c), NEW i \in Int, NEW j \in Int, Policy => i <= j, InFront(c, i)
    PROVE  InFront(c, j)
<1> SUFFICES ASSUME c.task # 0 \/ (c.result # Nil /\ c.result.ok)
             PROVE  Policy /\ Len(c.prefix) <= j
  BY DEF InFront
<1>1. Policy /\ Len(c.prefix) <= i
  BY DEF InFront
<1>2. c.prefix \in Histories
  BY DEF Fits
<1>3. Len(c.prefix) \in Nat
  BY <1>2, HistoryIsSeq
<1> QED BY <1>1, <1>3

(* With no task and no replacement nothing is in the way. *)
LEMMA SettledFront ==
    ASSUME NEW c, c.task = 0, c.result = Nil, NEW i
    PROVE  InFront(c, i)
BY DEF InFront

(* Whatever compaction works on is part of the history. *)
LEMMA IdleFront ==
    ASSUME IInv, PromptInv
    PROVE  InFront(compaction, Len(messages))
<1>0. Fits(compaction) /\ messages \in Histories /\ Len(messages) \in Nat
  BY Typed, HistoryIsSeq DEF IInv
<1>1. CASE turn.streaming
  <2>1. /\ InFront(compaction, turn.prompt_index) /\ turn.prompt_index \in Nat
        /\ Policy => turn.prompt_index <= Len(messages)
    BY <1>1 DEF PromptInv, Placed
  <2> QED BY <1>0, <2>1, FrontGrows
<1>2. CASE ~turn.streaming
  BY <1>2 DEF PromptInv
<1> QED BY <1>1, <1>2

(* abort, clear and stop end the turn and leave a compaction within the history, or cancel it. *)
LEMMA AbortPlaced ==
    ASSUME IInv, PromptInv, NEW heard, NEW c, AbortTurn(heard, c),
           \/ c = compaction /\ messages' = messages
           \/ Fits(c) /\ c.task = 0 /\ c.result = Nil
    PROVE  PromptInv'
<1>0. turn \in Turns /\ lastRef + 1 \in Nat /\ Fits(compaction)
  BY Typed DEF IInv
<1>1. ~turn'.streaming
  <2>1. turn' = AbandonTurn(turn, lastRef + 1)
    BY DEF AbortTurn
  <2> QED BY <1>0, <2>1, AbandonTurnType
<1>2. PICK d : d = [c EXCEPT !.waiter = Nil] /\ compaction' = d
  BY DEF AbortTurn
<1>3. d.task = c.task /\ d.result = c.result /\ d.prefix = c.prefix
  BY <1>0, <1>2, WithWaiter DEF Fits
<1>4. InFront(compaction', Len(messages'))
  <2>1. CASE c = compaction /\ messages' = messages
    BY <1>2, <1>3, <2>1, IdleFront DEF InFront
  <2>2. CASE c.task = 0 /\ c.result = Nil
    BY <1>2, <1>3, <2>2, SettledFront
  <2> QED BY <2>1, <2>2
<1> QED BY <1>1, <1>4 DEF PromptInv

(* abort and clear. *)
LEMMA AbortClearPlaced ==
    ASSUME IInv, PromptInv, Abort \/ Clear
    PROVE  PromptInv'
<1>1. CASE Abort
  BY <1>1, AbortPlaced DEF Abort
<1>2. CASE Clear
  <2> DEFINE c0 == CancelCompaction(compaction)
             c1 == [c0 EXCEPT !.attempted = Nil]
             c2 == [c1 EXCEPT !.usage = Nil]
  <2>1. AbortTurn(NothingHeard, c2)
    BY <1>2 DEF Clear
  <2>2. c0 \in Compactions /\ c0.task = 0 /\ c0.result = Nil
    BY Typed, CancelType DEF Fits
  <2> HIDE DEF c0
  <2>3. c1 \in Compactions /\ c1.task = 0 /\ c1.result = Nil
    BY <2>2, WithAttempted
  <2> HIDE DEF c1
  <2>4. c2 \in Compactions /\ c2.task = 0 /\ c2.result = Nil
    BY <2>3, WithUsage
  <2> HIDE DEF c2
  <2>5. Fits(c2)
    BY <2>4 DEF Fits
  <2> QED BY <2>1, <2>4, <2>5, AbortPlaced
<1> QED BY <1>1, <1>2

(* A turn begins: its prompt is the message after the history its worker captured. *)
LEMMA BeginPlaced ==
    ASSUME IInv, PromptInv, NEW p \in Prompts, NEW kind \in {"run", "stream"}, BeginTurn(p, kind),
           ~Busy, UNCHANGED <<messages, compaction>>
    PROVE  PromptInv'
<1>0. /\ turn \in Turns /\ wk \in [Prompts -> Workers] /\ lastRef + 1 \in Nat
      /\ messages \in Histories /\ messages \in Seq(Messages) /\ Len(messages) \in Nat
  BY Typed, HistoryIsSeq
<1>1. turn'.streaming /\ turn'.recipient = p /\ turn'.prompt_index = Len(messages)
  <2>1. PICK i \in Int : i = Len(messages)
    BY <1>0
  <2>2. turn' = StartTurn(turn, lastRef + 1, p, i)
    BY <2>1 DEF BeginTurn
  <2> QED BY <1>0, <2>1, <2>2, StartTurnType
<1>2. compaction.waiter = Nil /\ InFront(compaction, Len(messages))
  BY IdleFront DEF Busy
<1>3. wk'[p].msgs = Append(messages, Msg(p, 1, "user"))
  <2>1. wk'[p] = Worker(p, kind, lastRef + 1)
    BY <1>0 DEF BeginTurn
  <2>2. \A ms : [Idle EXCEPT !.pc = "start", !.kind = kind, !.ref = lastRef + 1, !.base = ms, !.msgs = ms].msgs = ms
    BY SMT DEF Idle
  <2> QED BY <2>1, <2>2, Zenon DEF Worker
<1>4. PromptAt(wk'[p].msgs, Len(messages), p)
  <2>1. Msg(p, 1, "user") \in Messages
    BY MsgType DEF Roles, Messages
  <2> QED BY <1>0, <1>3, <2>1, PromptAppended
<1>5. Placed(Len(messages), p)'
  BY <1>0, <1>2, <1>4 DEF Placed
<1> QED BY <1>1, <1>2, <1>5 DEF PromptInv

(* The answer at a checkpoint: the history and the worker's list agree on where the prompt is. *)
LEMMA ReplyPlaced ==
    ASSUME IInv, PromptInv, NEW c0, Fits(c0), c0.waiter = Nil, NEW ms0 \in Histories, NEW from,
           NEW phase \in {"manual", "background", "fallback"},
           CheckpointReply(c0, ms0, from, phase),
           phase = "manual" => ~turn.streaming /\ c0.task = 0,
           phase # "manual" => /\ turn.streaming /\ turn.recipient = from /\ Policy
                               /\ PromptAt(ms0, turn.prompt_index, from)
                               /\ InFront(c0, turn.prompt_index)
    PROVE  PromptInv'
<1>0. /\ lastRef \in Nat /\ turn.prompt_index \in Int \cup {Nil} /\ turn \in Turns
      /\ wk \in [Prompts -> Workers] /\ Nil \notin Prompts /\ Nil \notin Int /\ Nil \notin Waiters
      /\ turn.recipient \in Prompts \cup {Nil} /\ (turn.streaming <=> turn.recipient # Nil)
  BY Typed, SessionAssumption
<1> DEFINE protected == IF turn.prompt_index = Nil THEN 1 ELSE Len(ms0) - turn.prompt_index
           ref == lastRef + 1
           r == Checkpoint(c0, ref, ms0, from, phase, protected)
<1>1. protected \in Int /\ ref \in Nat \ {0}
  BY <1>0, HistoryIsSeq
<1>2. /\ compaction' = r.c /\ messages' = r.messages
      /\ turn' = [turn EXCEPT !.prompt_index = Shifted(@, ms0, r.messages)]
      /\ wk' = IF phase = "manual" \/ r.tag = "wait" THEN wk
               ELSE IF r.tag = "continue"
               THEN [wk EXCEPT ![from].pc = "checkpointed", ![from].msgs = r.messages]
               ELSE [wk EXCEPT ![from].pc = "failed"]
  BY DEF CheckpointReply
<1> HIDE DEF protected, ref
<1>p. phase # "manual" => from \in Prompts
  BY <1>0
<1>3. Decided(r, c0, ref, from) /\ (phase = "manual" => r.tag # "wait")
  BY <1>1, <1>p, CheckpointType
<1>4. CASE phase = "manual"
  <2> DEFINE taken == TakeResult(c0, ms0)
  <2>1. r.c = taken.c
    <3>1. \/ r = [tag |-> "error", error |-> taken.error, c |-> taken.c, messages |-> taken.messages]
          \/ r = [tag |-> "continue", error |-> Nil, c |-> taken.c, messages |-> taken.messages]
      BY <1>4, Zenon DEF Checkpoint
    <3> HIDE DEF r, taken
    <3> QED BY <3>1
  <2>2. taken.c.task = 0 /\ taken.c.result = Nil
    BY <1>4, TakeResultType
  <2> HIDE DEF r, taken
  <2>3. ~turn'.streaming
    <3>1. PICK i : turn' = [turn EXCEPT !.prompt_index = i]
      BY <1>2
    <3> QED BY <1>0, <1>4, <3>1, SMT DEF Turns
  <2>4. InFront(compaction', Len(messages'))
    BY <1>2, <2>1, <2>2, SettledFront
  <2> QED BY <2>3, <2>4 DEF PromptInv
<1>5. CASE phase # "manual"
  <2> DEFINE i == turn.prompt_index
             j == i + Len(r.messages) - Len(ms0)
  <2>1. i \in Nat /\ phase \in {"background", "fallback"} /\ protected = Len(ms0) - i /\ from \in Prompts
    BY <1>0, <1>5, <1>p DEF PromptInv, Placed, protected
  <2>2. r = Checkpoint(c0, ref, ms0, from, phase, Len(ms0) - i)
    BY <2>1
  <2> HIDE DEF r
  <2>3. j \in Nat /\ PromptAt(r.messages, j, from) /\ InFront(r.c, j)
    <3> HIDE DEF i
    <3> DEFINE k == i + Len(r.messages) - Len(ms0)
    <3>1. PromptAt(ms0, i, from) /\ InFront(c0, i)
      BY <1>5 DEF i
    <3> QED BY <1>1, <1>5, <2>1, <2>2, <3>1, CheckpointFront
  <2>4. turn'.streaming /\ turn'.recipient = from /\ turn'.prompt_index = j
    <3>1. Shifted(i, ms0, r.messages) = j
      BY <1>0, <2>1 DEF Shifted
    <3> HIDE DEF j
    <3>2. turn' = [turn EXCEPT !.prompt_index = j]
      BY <1>2, <3>1
    <3>3. j \in Int \cup {Nil}
      BY <2>3
    <3> QED BY <1>0, <1>5, <3>2, <3>3, TurnPromptIndex
  <2> HIDE DEF i, j
  <2>5. r.messages \in Histories /\ Len(r.messages) \in Nat /\ Len(r.messages) > j
    BY <1>3, <2>3, HistoryIsSeq DEF Decided, PromptAt
  <2>6. compaction'.waiter # Nil \/ PromptAt(wk'[from].msgs, j, from) \/ Lost(wk'[from], out'[from])
    <3>1. CASE r.tag = "wait"
      BY <1>0, <1>2, <1>3, <3>1 DEF Decided
    <3>2. CASE r.tag = "continue"
      <4>1. wk' = [wk EXCEPT ![from].pc = "checkpointed", ![from].msgs = r.messages]
        BY <1>2, <1>5, <3>2
      <4>2. PICK w \in Workers : w = wk[from]
        BY <1>0, <2>1
      <4>3. PICK ms : ms = r.messages
        OBVIOUS
      <4>4. wk'[from] = [w EXCEPT !.pc = "checkpointed", !.msgs = ms]
        BY <1>0, <2>1, <4>1, <4>2, <4>3
      <4>5. PICK v : v = [w EXCEPT !.pc = "checkpointed", !.msgs = ms]
        OBVIOUS
      <4>6. v.msgs = ms
        BY <4>2, <4>5, SMT DEF Workers
      <4> QED BY <2>3, <4>3, <4>4, <4>5, <4>6
    <3>3. CASE r.tag = "error"
      <4>1. wk' = [wk EXCEPT ![from].pc = "failed"]
        BY <1>2, <1>5, <3>3
      <4>2. wk'[from].pc = "failed"
        BY <1>0, <2>1, <4>1
      <4> QED BY <4>2 DEF Lost
    <3> QED BY <1>3, <3>1, <3>2, <3>3 DEF Decided
  <2>7. PICK k : k = j
    OBVIOUS
  <2>8. Placed(k, from)'
    <3>1. Policy /\ messages' = r.messages /\ PromptAt(messages', k, from) /\ k \in Nat /\ k <= Len(messages')
      BY <1>2, <1>5, <2>3, <2>5, <2>7
    <3> QED BY <2>6, <2>7, <3>1 DEF Placed
  <2>9. InFront(compaction', k) /\ turn'.prompt_index = k
    BY <1>2, <2>3, <2>4, <2>7
  <2> QED BY <2>4, <2>8, <2>9 DEF PromptInv
<1> QED BY <1>4, <1>5

(* A worker's message is taken from its queue: a list that is of no more use stays so. *)
LEMMA PoppedLost ==
    ASSUME IInv, NEW p \in Prompts, out[p] # <<>>, Pop(p), NEW q \in Prompts, Lost(wk[q], out[q])
    PROVE  Lost(wk[q], out'[q])
<1>1. out \in [Prompts -> Seq(Wires)]
  BY Typed
<1>2. out'[p] = Tail(out[p]) /\ (q # p => out'[q] = out[q])
  BY <1>1 DEF Pop
<1>3. NoGood(out[p]) => NoGood(Tail(out[p]))
  BY <1>1, NoGoodTail
<1> QED BY <1>2, <1>3 DEF Lost

(* The worker of the running turn that still has something to say is not held at a checkpoint. *)
LEMMA SpeakerFree ==
    ASSUME IInv, NEW p \in Prompts, out[p] # <<>>, turn.recipient = p
    PROVE  compaction.waiter = Nil
BY Typed DEF IInv, Waiting

(* A worker is answered and its list stays: it had something left to do. *)
LEMMA MovedPlaced ==
    ASSUME IInv, PromptInv, NEW p \in Prompts, NEW pc, out[p] # <<>>, Pop(p), wk[p].pc \in Asks,
           wk' = [wk EXCEPT ![p].pc = pc], UNCHANGED sessionVars
    PROVE  PromptInv'
<1>0. wk \in [Prompts -> Workers] /\ wk[p] \in Workers /\ turn.recipient \in Prompts \cup {Nil}
      /\ (turn.streaming <=> turn.recipient # Nil)
  BY Typed, WorkerOf
<1>1. PICK v : v = [wk[p] EXCEPT !.pc = pc] /\ v = wk'[p]
  BY <1>0
<1>2. v.msgs = wk[p].msgs
  BY <1>0, <1>1, SMT DEF Workers
<1>3. \A q \in Prompts \ {p} : wk'[q] = wk[q]
  BY <1>0
<1>4. ~Lost(wk[p], out[p])
  BY DEF Lost, Asks
<1>5. \A q \in Prompts, i \in Nat :
         PromptAt(wk[q].msgs, i, q) \/ Lost(wk[q], out[q]) =>
            PromptAt(wk'[q].msgs, i, q) \/ Lost(wk'[q], out'[q])
  BY <1>1, <1>2, <1>3, <1>4, PoppedLost
<1> QED BY <1>0, <1>5, StillPlaced DEF sessionVars

(* compaction_checkpoint: the session takes over a list that holds the prompt. *)
LEMMA HandleCheckpointPlaced ==
    ASSUME IInv, PromptInv, NEW p \in Prompts, HandleCheckpoint(p)
    PROVE  PromptInv'
<1>0. /\ out[p] # <<>> /\ Pop(p) /\ Head(out[p]).type = "call" /\ wk[p].pc = "checkpoint" /\ Policy
  BY DEF HandleCheckpoint, HeadIs
<1>1. CASE Current(turn, wk[p].ref)
  <2>1. turn.recipient = p /\ turn.streaming
    BY <1>0, <1>1, Popped DEF Current
  <2>2. compaction.waiter = Nil /\ Fits(compaction) /\ wk[p].msgs \in Histories
    BY <1>0, <2>1, SpeakerFree, WorkerOf DEF IInv
  <2>3. PromptAt(wk[p].msgs, turn.prompt_index, p) /\ InFront(compaction, turn.prompt_index)
    <3>1. ~Lost(wk[p], out[p])
      BY <1>0 DEF Lost
    <3> QED BY <1>0, <2>1, <2>2, <3>1 DEF PromptInv, Placed
  <2>4. CheckpointReply(compaction, wk[p].msgs, p, "background")
    BY <1>1 DEF HandleCheckpoint
  <2>5. PICK c0, ms0 : c0 = compaction /\ ms0 = wk[p].msgs
    OBVIOUS
  <2> QED BY <1>0, <2>1, <2>2, <2>3, <2>4, <2>5, ReplyPlaced
<1>2. CASE ~Current(turn, wk[p].ref)
  <2>1. wk' = [wk EXCEPT ![p].pc = "failed"] /\ UNCHANGED sessionVars
    BY <1>2 DEF HandleCheckpoint
  <2> QED BY <1>0, <2>1, MovedPlaced DEF Asks
<1> QED BY <1>1, <1>2

(* check_turn and the usage report. *)
LEMMA HandleCheckPlaced ==
    ASSUME IInv, PromptInv, NEW p \in Prompts, HandleCheck(p) \/ HandleUsage(p)
    PROVE  PromptInv'
<1>1. CASE HandleCheck(p)
  <2>1. PICK pc : wk' = [wk EXCEPT ![p].pc = pc]
    BY <1>1 DEF HandleCheck
  <2>2. out[p] # <<>> /\ Pop(p) /\ Head(out[p]).type = "call" /\ UNCHANGED sessionVars
    BY <1>1 DEF HandleCheck, HeadIs
  <2>3. wk[p].pc \in Asks
    BY <2>2, Popped
  <2> QED BY <2>1, <2>2, <2>3, MovedPlaced
<1>2. CASE HandleUsage(p)
  <2> DEFINE u == Head(out[p]).arg
  <2>1. /\ out[p] # <<>> /\ Pop(p) /\ Head(out[p]).type = "usage" /\ UNCHANGED <<turn, messages, wk>>
        /\ compaction' = compaction \/ compaction' = [compaction EXCEPT !.usage = u]
    BY <1>2 DEF HandleUsage, HeadIs
  <2>2. u \in Usages /\ compaction \in Compactions
    BY <2>1, Popped, WireArgs, Typed
  <2> HIDE DEF u
  <2>3. /\ compaction'.task = compaction.task /\ compaction'.result = compaction.result
        /\ compaction'.prefix = compaction.prefix /\ compaction'.waiter = compaction.waiter
    BY <2>1, <2>2, WithUsage
  <2>4. \A i : InFront(compaction, i) => InFront(compaction', i)
    BY <2>3 DEF InFront
  <2>5. \A q \in Prompts : Lost(wk[q], out[q]) => Lost(wk'[q], out'[q])
    BY <2>1, PoppedLost
  <2>6. turn.recipient \in Prompts \cup {Nil} /\ (turn.streaming <=> turn.recipient # Nil)
    BY Typed
  <2> QED BY <2>1, <2>3, <2>4, <2>5, <2>6, StillPlaced
<1> QED BY <1>1, <1>2

(* compaction_finished: with a waiter, in a running turn, and between turns. *)
LEMMA CompactionPlaced ==
    ASSUME IInv, PromptInv, CompactionDone \/ \E ref \in fired : HandleTimeout(ref)
    PROVE  PromptInv'
<1>0. /\ messages \in Histories /\ turn.recipient \in Prompts \cup {Nil}
      /\ (turn.streaming <=> turn.recipient # Nil) /\ out' = out
  BY Typed DEF CompactionDone, HandleTimeout
<1>1. CASE UNCHANGED <<sessionVars, lastRef, wk, compactCall>>
  BY <1>0, <1>1, StillPlaced DEF sessionVars
<1>2. ASSUME NEW c, Fits(c), c.waiter = compaction.waiter, c.task = 0, Adopts(c), CompactionFinished(c)
      PROVE  PromptInv'
  <2>0. \A i : InFront(compaction, i) => InFront(c, i)
    BY <1>2 DEF InFront, Adopts
  <2>1. CASE c.waiter # Nil
    <3>1. PICK d : d = [c EXCEPT !.waiter = Nil]
      OBVIOUS
    <3>2. /\ d \in Compactions /\ d.waiter = Nil /\ d.task = 0 /\ d.result = c.result /\ d.prefix = c.prefix
      BY <1>2, <3>1, WithWaiter DEF Fits
    <3>3. Fits(d) /\ \A i : InFront(compaction, i) => InFront(d, i)
      BY <1>2, <2>0, <3>2 DEF Fits, InFront
    <3>4. PICK from, phase : from = c.waiter.from /\ phase = c.waiter.phase
      OBVIOUS
    <3>5. PICK ms0 \in Histories : ms0 = messages
      BY <1>0
    <3>6. CheckpointReply(d, ms0, from, phase)
      BY <1>2, <2>1, <3>1, <3>4, <3>5 DEF CompactionFinished
    <3>7. phase \in {"manual", "background", "fallback"}
      <4>1. c.waiter \in Waiters
        BY <1>2, <2>1, SMT DEF Fits, Compactions
      <4> QED BY <3>4, <4>1, SMT DEF Waiters
    <3>8. phase = "manual" => ~turn.streaming
      BY <1>0, <1>2, <2>1, <3>4 DEF IInv, Waiting
    <3>9. phase # "manual" => /\ turn.streaming /\ turn.recipient = from /\ Policy
                              /\ PromptAt(ms0, turn.prompt_index, from) /\ InFront(d, turn.prompt_index)
      <4> SUFFICES ASSUME phase # "manual"
                   PROVE  /\ turn.streaming /\ turn.recipient = from /\ Policy
                          /\ PromptAt(ms0, turn.prompt_index, from) /\ InFront(d, turn.prompt_index)
        OBVIOUS
      <4>1. turn.recipient = from /\ from \in Prompts /\ compaction.task # 0
        BY <1>2, <2>1, <3>4 DEF IInv, Waiting
      <4>2. turn.streaming
        BY <1>0, <4>1, Typed
      <4>3. InFront(compaction, turn.prompt_index) /\ Placed(turn.prompt_index, from)
        BY <4>1, <4>2 DEF PromptInv
      <4>4. Policy
        BY <4>1, <4>3 DEF InFront
      <4> QED BY <1>2, <2>1, <3>3, <3>5, <4>1, <4>2, <4>3, <4>4 DEF Placed
    <3> QED BY <3>2, <3>3, <3>6, <3>7, <3>8, <3>9, ReplyPlaced
  <2>2. CASE c.waiter = Nil /\ turn.streaming
    <3>1. compaction' = c /\ UNCHANGED <<messages, turn, wk>>
      BY <1>2, <2>2 DEF CompactionFinished
    <3> QED BY <1>0, <1>2, <2>0, <3>1, StillPlaced
  <2>3. CASE c.waiter = Nil /\ ~turn.streaming
    <3>1. compaction' = TakeResult(c, messages).c /\ turn' = turn
      BY <1>2, <2>3 DEF CompactionFinished
    <3>2. compaction'.task = 0 /\ compaction'.result = Nil
      BY <1>0, <1>2, <3>1, TakeResultType
    <3>3. InFront(compaction', Len(messages'))
      BY <3>2, SettledFront
    <3> QED BY <2>3, <3>1, <3>3 DEF PromptInv
  <2> QED BY <2>1, <2>2, <2>3
<1> QED BY <1>1, <1>2, CompactionEnds

(* A compacted list is not longer than the one it replaces. *)
LEMMA AppliedShort ==
    ASSUME NEW ms \in Histories, NEW new \in Applied(ms)
    PROVE  Len(new) <= Len(ms)
<1>0. Len(ms) \in Nat /\ (ms # <<>> => Len(ms) >= 1)
  BY HistoryIsSeq, EmptySeq, LenProperties
<1>1. new \in {ms, Summarise(ms)}
  BY AppliedIs
<1>3. Len(Summarise(ms)) <= Len(ms)
  <2>1. CASE ms = <<>>
    BY <1>0, <2>1 DEF Summarise
  <2>2. CASE ms # <<>>
    <3>1. PICK m : Summarise(ms) = <<m>>
      BY <2>2 DEF Summarise
    <3>2. Len(<<m>>) = 1
      OBVIOUS
    <3> QED BY <1>0, <2>2, <3>1, <3>2
  <2> QED BY <2>1, <2>2
<1> QED BY <1>0, <1>1, <1>3

(* compact: it may shorten the history of a session without background compaction, whose turn
   then goes on with its own list; with it, it works only between turns. *)
LEMMA CompactPlaced ==
    ASSUME IInv, PromptInv, Compact
    PROVE  PromptInv'
<1>0. /\ messages \in Histories /\ Len(messages) \in Nat /\ lastRef + 1 \in Nat \ {0}
      /\ compaction \in Compactions /\ Fits(compaction) /\ UNCHANGED <<turn, wk, out>>
      /\ turn.recipient \in Prompts \cup {Nil} /\ (turn.streaming <=> turn.recipient # Nil)
  BY Typed, HistoryIsSeq DEF IInv, Compact, workerVars
<1>1. CASE ~Policy
  <2>1. messages' \in Applied(messages) /\ compaction' = compaction
    BY <1>1 DEF Compact, MaybeCompact
  <2>2. Len(messages') <= Len(messages) /\ Len(messages') \in Nat
    BY <1>0, <2>1, AppliedShort, AppliedType, HistoryIsSeq
  <2>3. InFront(compaction', IF turn.streaming THEN turn.prompt_index ELSE Len(messages'))
    BY <1>1, <2>1 DEF PromptInv, InFront
  <2>4. ASSUME turn.streaming PROVE Placed(turn.prompt_index, turn.recipient)'
    <3>1. turn.prompt_index \in Nat /\ Len(messages) <= turn.prompt_index
      BY <1>1, <2>4 DEF PromptInv, Placed
    <3>2. Len(messages') <= turn.prompt_index
      BY <1>0, <2>2, <3>1
    <3> QED BY <1>0, <1>1, <3>1, <3>2 DEF Placed
  <2> QED BY <1>0, <2>3, <2>4 DEF PromptInv
<1>2. CASE Policy /\ Busy
  <2>1. UNCHANGED <<messages, compaction>>
    BY <1>2 DEF Compact
  <2> QED BY <1>0, <2>1, StillPlaced
<1>3. CASE Policy /\ ~Busy
  <2> DEFINE ref == lastRef + 1
             d == StartCompaction(compaction, ref, messages)
             w == [from |-> Nil, phase |-> "manual"]
  <2>1. compaction' = [d EXCEPT !.waiter = w] /\ messages' = messages /\ ~turn.streaming
    BY <1>3 DEF Compact, Busy
  <2> HIDE DEF ref
  <2>2. Fits(d) /\ d.prefix = messages /\ d \in Compactions
    BY <1>0, StartType, StartPrefix DEF Fits, ref
  <2>3. w \in Waiters
    BY SMT DEF Waiters
  <2> HIDE DEF d, w
  <2>4. compaction'.prefix = messages
    BY <2>1, <2>2, <2>3, WithWaiter
  <2>5. InFront(compaction', Len(messages'))
    BY <1>0, <1>3, <2>1, <2>4 DEF InFront
  <2> QED BY <1>0, <2>1, <2>5 DEF PromptInv
<1> QED BY <1>1, <1>2, <1>3

(* maybe_compact after a turn: its result is adopted in front of the prompt, and a new task is given
   what lies in front of the last message. *)
LEMMA SettlePlaced ==
    ASSUME IInv, PromptInv, Policy, turn.streaming, NEW p, turn.recipient = p, NEW ms \in Histories,
           PromptAt(ms, turn.prompt_index, p), MaybeCompact(ms)
    PROVE  InFront(compaction', Len(messages'))
<1>0. /\ Fits(compaction) /\ lastRef + 1 \in Nat \ {0} /\ turn.prompt_index \in Nat
      /\ InFront(compaction, turn.prompt_index)
  BY Typed DEF IInv, PromptInv, Placed
<1>1. PICK i \in Nat : i = turn.prompt_index
  BY <1>0
<1> DEFINE taken == TakeResult(compaction, ms)
           c0 == taken.c
           m0 == taken.messages
           j == i + Len(m0) - Len(ms)
           k == Len(m0) - 1
<1>2. messages' = m0 /\ compaction' = Background(c0, lastRef + 1, m0, 1)
  BY DEF MaybeCompact
<1>3. j \in Nat /\ PromptAt(m0, j, p) /\ InFront(c0, j)
  BY <1>0, <1>1, TakeFront
<1>4. Fits(c0) /\ m0 \in Histories /\ Len(m0) \in Nat
  BY <1>0, TakeResultType, HistoryIsSeq
<1> HIDE DEF taken, c0, m0, j
<1>5. k \in 0..Len(m0) /\ j <= k /\ k \in Int /\ j \in Int /\ Len(m0) - k = 1 /\ k <= Len(m0)
  BY <1>3, <1>4 DEF PromptAt
<1> HIDE DEF k
<1>6. InFront(c0, k)
  BY <1>3, <1>4, <1>5, FrontGrows
<1>7. InFront(Background(c0, lastRef + 1, m0, Len(m0) - k), k)
  BY <1>0, <1>4, <1>5, <1>6, BackgroundFront
<1>8. InFront(compaction', k)
  BY <1>2, <1>5, <1>7
<1>9. Fits(compaction')
  <2>1. 1 \in Int
    OBVIOUS
  <2> QED BY <1>0, <1>2, <1>4, <2>1, BackgroundType
<1> QED BY <1>2, <1>4, <1>5, <1>8, <1>9, FrontGrows

(* The completion casts. *)
LEMMA HandleCompletePlaced ==
    ASSUME IInv, PromptInv, NEW p \in Prompts, HandleComplete(p)
    PROVE  PromptInv'
<1> DEFINE ok == Head(out[p]).arg
<1>0. /\ out[p] # <<>> /\ Pop(p) /\ Head(out[p]).type = "complete" /\ wk' = wk
  BY DEF HandleComplete, HeadIs
<1>1. /\ ok \in BOOLEAN /\ turn \in Turns /\ out \in [Prompts -> Seq(Wires)]
      /\ turn.recipient \in Prompts \cup {Nil} /\ (turn.streaming <=> turn.recipient # Nil)
      /\ Nil \notin Prompts /\ wk[p].msgs \in Histories
  BY <1>0, Popped, WireArgs, Typed, WorkerOf
<1>2. CASE wk[p].ref # turn.abort_ref
  <2>1. UNCHANGED sessionVars
    BY <1>2 DEF HandleComplete
  <2>2. \A q \in Prompts : Lost(wk[q], out[q]) => Lost(wk'[q], out'[q])
    BY <1>0, PoppedLost
  <2> QED BY <1>0, <1>1, <2>1, <2>2, StillPlaced DEF sessionVars
<1>3. CASE wk[p].ref = turn.abort_ref
  <2>1. turn.recipient = p /\ turn.streaming /\ wk[p].pc = "done"
    BY <1>0, <1>1, <1>3, Popped
  <2>2. ~turn'.streaming
    <3>1. turn' = FinishTurn(turn)
      BY <1>3 DEF HandleComplete, RunComplete, StreamComplete
    <3> QED BY <1>1, <3>1, FinishTurnType
  <2>3. \/ ok /\ MaybeCompact(wk[p].msgs)
        \/ ~Policy /\ compaction' = compaction
        \/ UNCHANGED <<messages, compaction>>
    BY <1>1, <1>3 DEF HandleComplete, RunComplete, StreamComplete, RunList, MaybeCompact
  <2>4. InFront(compaction', Len(messages'))
    <3>1. CASE Policy /\ ok /\ MaybeCompact(wk[p].msgs)
      <4>1. ~NoGood(out[p])
        BY <1>0, <1>1, <3>1, NoGoodTail
      <4>2. compaction.waiter = Nil /\ ~Lost(wk[p], out[p])
        BY <1>0, <2>1, <4>1, SpeakerFree DEF Lost
      <4>3. PromptAt(wk[p].msgs, turn.prompt_index, p)
        BY <2>1, <3>1, <4>2 DEF PromptInv, Placed
      <4>4. PICK ms \in Histories : ms = wk[p].msgs
        BY <1>1
      <4> QED BY <2>1, <3>1, <4>3, <4>4, SettlePlaced
    <3>2. CASE ~Policy /\ compaction' = compaction
      BY <3>2 DEF PromptInv, InFront
    <3>3. CASE UNCHANGED <<messages, compaction>>
      BY <3>3, IdleFront
    <3>4. ~Policy /\ MaybeCompact(wk[p].msgs) => compaction' = compaction
      BY DEF MaybeCompact
    <3> QED BY <2>3, <3>1, <3>2, <3>3, <3>4
  <2> QED BY <2>2, <2>4 DEF PromptInv
<1> QED BY <1>2, <1>3

(* broadcast_event: dropped, passed on, or the end of the turn. *)
LEMMA HandleEventPlaced ==
    ASSUME IInv, PromptInv, NEW p \in Prompts, HandleEvent(p)
    PROVE  PromptInv'
<1>0. out[p] # <<>> /\ Pop(p) /\ messages' = messages
  BY DEF HandleEvent, HeadIs
<1>1. turn.recipient \in Prompts \cup {Nil} /\ (turn.streaming <=> turn.recipient # Nil)
  BY Typed
<1>2. CASE UNCHANGED <<turn, compaction, wk>>
  <2>1. \A q \in Prompts : Lost(wk[q], out[q]) => Lost(wk'[q], out'[q])
    BY <1>0, <1>2, PoppedLost
  <2> QED BY <1>0, <1>1, <1>2, <2>1, StillPlaced
<1>3. ASSUME NEW heard, AbortTurn(heard, compaction)
      PROVE  PromptInv'
  BY <1>0, <1>3, AbortPlaced
<1> QED BY <1>2, <1>3 DEF HandleEvent

(* The tools of a worker leave its list alone. *)
LEMMA ToolStepsPlaced ==
    ASSUME IInv, PromptInv, NEW p \in Prompts, NEW t \in ToolIds, ToolSteps(p, t)
    PROVE  PromptInv'
<1>0. /\ wk \in [Prompts -> Workers] /\ wk[p] \in Workers /\ wk[p].msgs \in Histories /\ wk[p].pc = "tools"
      /\ turn.recipient \in Prompts \cup {Nil} /\ (turn.streaming <=> turn.recipient # Nil)
  BY Typed, WorkerOf DEF ToolSteps, AdmitTool, ToolReturns, At
<1>1. ASSUME NEW how, NEW v, v = [wk[p] EXCEPT !.tool[t] = how] PROVE v.msgs = wk[p].msgs /\ v.pc = wk[p].pc
  BY <1>0, <1>1, SMT DEF Workers
<1>2. CASE AdmitTool(p, t)
  <2>1. PICK how : wk' = [wk EXCEPT ![p].tool[t] = how]
    BY <1>2 DEF AdmitTool
  <2>2. PICK v : v = [wk[p] EXCEPT !.tool[t] = how]
    OBVIOUS
  <2>3. wk'[p] = v /\ \A q \in Prompts \ {p} : wk'[q] = wk[q]
    BY <1>0, <2>1, <2>2
  <2>4. \A q \in Prompts : wk'[q].msgs = wk[q].msgs /\ wk'[q].pc = wk[q].pc
    BY <1>1, <2>2, <2>3
  <2>5. UNCHANGED <<turn, messages, compaction, out>>
    BY <1>2 DEF AdmitTool, sessionVars
  <2>6. \A q \in Prompts : Lost(wk[q], out[q]) => Lost(wk'[q], out'[q])
    BY <2>4, <2>5 DEF Lost
  <2> QED BY <1>0, <2>4, <2>5, <2>6, StillPlaced
<1>3. CASE ToolReturns(p, t)
  <2>1. PICK how : Step(p, [wk[p] EXCEPT !.tool[t] = how], <<>>)
    BY <1>3 DEF ToolReturns
  <2>2. PICK v : v = [wk[p] EXCEPT !.tool[t] = how]
    OBVIOUS
  <2>3. v.msgs = wk[p].msgs
    BY <1>1, <2>2
  <2>4. Carries(wk[p].msgs, v.msgs, p)
    BY <1>0, <2>3, GrownCarries
  <2> QED BY <1>0, <2>1, <2>2, <2>4, StepPlaced
<1> QED BY <1>2, <1>3 DEF ToolSteps

(* What clients do moves no prompt but the one that begins. *)
LEMMA ClientPlaced ==
    ASSUME IInv, PromptInv, NEW p \in Prompts,
           Run(p) \/ RunTimeout(p) \/ Subscribe(p) \/ Stream(p) \/ Unsubscribe(p) \/ SubscriberDown(p)
    PROVE  PromptInv'
<1>0. turn \in Turns
  BY Typed
<1>1. UNCHANGED <<messages, compaction, out>>
  BY DEF Run, RunTimeout, Subscribe, Stream, Unsubscribe, SubscriberDown, sessionVars, workerVars
<1>2. ASSUME turn'.streaming = turn.streaming, turn'.prompt_index = turn.prompt_index,
             turn'.recipient = turn.recipient, wk' = wk
      PROVE  PromptInv'
  BY <1>1, <1>2, StillPlaced
<1>3. CASE Subscribe(p) \/ Unsubscribe(p) \/ SubscriberDown(p)
  <2>1. wk' = wk /\ (turn' = Subscribed(turn, p) \/ turn' = Unsubscribed(turn, p))
    BY <1>3 DEF Subscribe, Unsubscribe, SubscriberDown, workerVars
  <2> QED BY <1>0, <1>2, <2>1, SubscribersType
<1>4. CASE RunTimeout(p)
  BY <1>2, <1>4 DEF RunTimeout, sessionVars, workerVars
<1>5. CASE Run(p) \/ Stream(p)
  <2>1. CASE Busy
    BY <1>2, <1>5, <2>1 DEF Run, Stream
  <2>2. CASE ~Busy
    <3>1. BeginTurn(p, "run") \/ BeginTurn(p, "stream")
      BY <1>5, <2>2 DEF Run, Stream
    <3> QED BY <1>1, <2>2, <3>1, BeginPlaced
  <2> QED BY <2>1, <2>2
<1> QED BY <1>3, <1>4, <1>5

(* A new session has nothing to protect. *)
LEMMA PromptStarts == Init => PromptInv
<1> SUFFICES ASSUME Init PROVE PromptInv
  OBVIOUS
<1>1. ~turn.streaming /\ compaction.task = 0 /\ compaction.result = Nil
  BY DEF Init, NewTurn, NewCompaction
<1> QED BY <1>1, SettledFront DEF PromptInv

(* Every step keeps the prompt of the running turn in its place. *)
LEMMA PromptStep ==
    ASSUME IInv, PromptInv, [Next]_vars
    PROVE  PromptInv'
<1>1. CASE TimerFires \/ Persist \/ UNCHANGED vars
  <2>1. UNCHANGED <<turn, messages, compaction, wk, out>>
    BY <1>1 DEF TimerFires, Persist, vars, sessionVars, workerVars
  <2> QED BY <2>1, StillPlaced
<1>2. CASE Steer
  <2>1. /\ UNCHANGED <<messages, compaction, wk, out>>
        /\ turn' = Steered(turn, controls) \/ turn' = FollowedUp(turn, controls)
    BY <1>2 DEF Steer, workerVars
  <2>2. turn \in Turns /\ controls \in Nat
    BY Typed
  <2>3. /\ turn'.streaming = turn.streaming /\ turn'.recipient = turn.recipient
        /\ turn'.prompt_index = turn.prompt_index
    BY <2>1, <2>2, SteeredType
  <2> QED BY <2>1, <2>3, StillPlaced
<1>3. ASSUME NEW p \in Prompts, SessionHandles(p)
      PROVE  PromptInv'
  BY <1>3, HandleEventPlaced, HandleCheckPlaced, HandleCheckpointPlaced, HandleCompletePlaced
     DEF SessionHandles
<1> QED BY <1>1, <1>2, <1>3, ClientPlaced, AbortClearPlaced, CompactPlaced, WorkerStepsPlaced,
           ToolStepsPlaced, CompactionPlaced DEF Next, ClientSteps

(* In every reachable state the history and the list of the running turn's worker hold the prompt at
   prompt_index, and no compaction works on anything behind it (Turn.start, put_compacted_messages,
   protected_count, take_result and the completion casts). *)
THEOREM PromptInvariant == Spec => []PromptInv
<1>1. IInv /\ PromptInv /\ [Next]_vars => PromptInv'
  BY PromptStep
<1> QED BY <1>1, PromptStarts, SessionInvariant, PTL DEF Spec

(* The running turn's prompt is where prompt_index says, however often the list in front of it is
   replaced: no compaction touches the active prompt or what follows it. *)
THEOREM ActivePromptIsKept == Spec => []ActivePromptKept
<1>1. IInv /\ PromptInv => ActivePromptKept
  <2> SUFFICES ASSUME IInv, PromptInv, turn.streaming PROVE ActivePromptKept
    BY DEF ActivePromptKept
  <2>1. Placed(turn.prompt_index, turn.recipient)
    BY DEF PromptInv
  <2>2. Len(messages) \in Nat
    BY Typed, HistoryIsSeq
  <2> QED BY <2>1, <2>2 DEF Placed, PromptAt, ActivePromptKept
<1> QED BY <1>1, PromptInvariant, SessionInvariant, PTL
=============================================================================
