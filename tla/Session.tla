------------------------------ MODULE Session ------------------------------
(***************************************************************************)
(* lib/condukt/session.ex: the session process, the unlinked worker task   *)
(* of every turn it ever started (workers of aborted turns live on), the   *)
(* tool tasks of a worker, the clients of run and stream, and the          *)
(* compaction task.                                                        *)
(*                                                                         *)
(* A worker and the session talk through the worker's messages to the      *)
(* session, a FIFO queue per worker (Erlang orders messages per pair of    *)
(* processes): casts are handled in order, and a synchronous call is the   *)
(* last message of the queue until it is answered, the answer moving the   *)
(* worker on.  A prompt is submitted at most once and names its client,    *)
(* its worker and its turn.                                                *)
(***************************************************************************)
EXTENDS Turn, Compaction, FiniteSets

CONSTANTS
    Native,        \* whether the runtime is AgentRuntimes.Native
    HasCompactor,  \* whether a :compactor is configured
    Policy,        \* whether :background_compaction is on (Compaction.enabled?)
    CompactorDoes, \* what the compactor may do: "summary", "same", "error"
    MaxTurns,      \* opts[:max_turns]
    MaxAttempts,   \* retry.max_attempts
    Tools,         \* the tool calls of one assistant message
    ToolsHang,     \* whether an admitted tool may never return
    UsageSkews,    \* by how much a provider's count may exceed the estimate
    Kinds,         \* the calls clients make: "run", "stream"
    Controls,      \* other calls: "abort", "clear", "compact", "follow_up", "leave",
                   \* and "stop", handle_event's answer {:stop, _, _}
    MaxControls    \* bound on how many of those calls are made

ASSUME SessionAssumption ==
    /\ Native \in BOOLEAN /\ HasCompactor \in BOOLEAN /\ Policy \in BOOLEAN
    /\ Policy => HasCompactor
    /\ ToolsHang \in BOOLEAN
    /\ MaxTurns \in Nat /\ MaxAttempts \in Nat \ {0} /\ MaxControls \in Nat
    /\ UsageSkews \subseteq Nat /\ Tools \in Nat \ {0}
    /\ Kinds \subseteq {"run", "stream"}
    /\ CompactorDoes \subseteq {"summary", "same", "error"}
    /\ Nil \notin Prompts \cup Int /\ Nil \notin Waiters /\ Nil \notin Histories
    /\ "maintenance" \notin Prompts \cup {Nil}

VARIABLES
    turn,         \* state.turn
    messages,     \* state.messages
    compaction,   \* state.compaction
    store,        \* the session store: the snapshot's messages or Nil; whether the handler
                  \* at work has answered and has yet to save (due); which operations
                  \* failed since one last went through (failed)
    lastRef,      \* the last reference make_ref handed out
    fired,        \* compaction timeouts in the session's mailbox
    wk,           \* the workers
    out,          \* messages of each worker to the session
    call,         \* what each client knows about its call
    inbox,        \* events each stream client has received
    notified,     \* the turns whose :done the notifier has published, in order
    compactCall,  \* the client of compact
    controls,     \* calls made so far, for MaxControls
    cleared       \* history variable: the turns that began before the last clear

sessionVars == <<turn, messages, compaction, store>>
workerVars  == <<wk, out>>
clientVars  == <<call, inbox, notified>>
vars == <<turn, messages, compaction, store, lastRef, fired, wk, out, call, inbox,
          notified, compactCall, controls, cleared>>

ToolIds == 1..Tools

Idle == [pc |-> "none", kind |-> "run", ref |-> 0, base |-> <<>>, msgs |-> <<>>,
         round |-> 0, attempt |-> 0, emitted |-> FALSE, reply |-> Nil,
         tool |-> [t \in ToolIds |-> "idle"], woken |-> FALSE]

Init ==
    /\ turn = NewTurn
    /\ messages = <<>>
    /\ compaction = NewCompaction
    /\ store = [snapshot |-> Nil, due |-> FALSE, failed |-> {}]
    /\ lastRef = 0
    /\ fired = {}
    /\ wk = [p \in Prompts |-> Idle]
    /\ out = [p \in Prompts |-> <<>>]
    /\ call = [p \in Prompts |-> "idle"]
    /\ inbox = [p \in Prompts |-> <<>>]
    /\ notified = <<>>
    /\ compactCall = "idle"
    /\ controls = 0
    /\ cleared = {}

-----------------------------------------------------------------------------
(* Messages a worker sends: casts, and the last one may be a call. *)
Event(ev)       == [type |-> "event", arg |-> ev]
Complete(ok)    == [type |-> "complete", arg |-> ok]
Usage(ms, skew) == [type |-> "usage", arg |-> [tokens |-> Len(ms) + skew, messages |-> ms]]
Asking          == [type |-> "call", arg |-> Nil]

(* Mutant: a manual compaction does not count. *)
BusyIgnoresWaiter == turn.streaming

Busy == turn.streaming \/ compaction.waiter # Nil

(* GenServer.reply: a run client that gave up has dropped its alias. *)
Reply(p, answer) ==
    call' = [call EXCEPT ![p] = IF @ = "waiting" THEN answer ELSE @]

(* broadcast_subscribers: send to the listeners under this reference. *)
Broadcast(p, events) ==
    inbox' = [inbox EXCEPT ![p] = IF p \in turn.subscribers THEN @ \o events ELSE @]

(* What the compactor may return for a list. *)
CompactResults(ms) ==
    {CASE how = "summary" -> OkResult(Summarise(ms))
       [] how = "same"    -> OkResult(ms)
       [] how = "error"   -> ErrorResult("failed") : how \in CompactorDoes}

(* Compaction.apply: a failed compaction leaves the list as it was. *)
Applied(ms) ==
    IF ~HasCompactor THEN {ms}
    ELSE {IF r.ok THEN r.messages ELSE ms : r \in CompactResults(ms)}

(* The reference a handler used if it started a compaction task. *)
RefUsed(c) == IF c.task = lastRef + 1 THEN lastRef + 1 ELSE lastRef

(* maybe_compact on a history the handler has just settled. *)
MaybeCompact(ms) ==
    IF Policy
    THEN LET taken == TakeResult(compaction, ms)
             c     == Background(taken.c, lastRef + 1, taken.messages, 1)
         IN  /\ messages' = taken.messages
             /\ compaction' = c
             /\ lastRef' = RefUsed(c)
    ELSE /\ messages' \in Applied(ms)
         /\ UNCHANGED <<compaction, lastRef>>

(* The session process is one process: it takes its next message when the handler at
   work has returned, and run_complete and stream_complete answer before they save. *)
Ready == ~store.due

(* persist_snapshot: the save goes through, or its error is only logged. *)
SaveSnapshot(ms) ==
    store' \in {[snapshot |-> ms, due |-> FALSE, failed |-> {}],
               [store EXCEPT !.due = FALSE, !.failed = @ \cup {"save"}]}

(* persist_or_clear_snapshot(state, :clear): likewise *)
ClearSnapshot ==
    store' \in {[store EXCEPT !.snapshot = Nil, !.failed = {}],
               [store EXCEPT !.failed = @ \cup {"clear"}]}

(* put_compacted_messages saves a list that is not the one before. *)
SaveIfChanged(ms, old) == IF ms = old THEN UNCHANGED store ELSE SaveSnapshot(ms)

-----------------------------------------------------------------------------
(* Client calls. *)

(* A new worker captures the session's state with the turn's reference. *)
Worker(p, kind, ref) ==
    LET ms == Append(messages, Msg(p, 1, "user"))
    IN  [Idle EXCEPT !.pc = "start", !.kind = kind, !.ref = ref, !.base = ms, !.msgs = ms]

BeginTurn(p, kind) ==
    /\ lastRef' = lastRef + 1
    /\ turn' = StartTurn(turn, lastRef + 1, p, Len(messages))
    /\ wk' = [wk EXCEPT ![p] = Worker(p, kind, lastRef + 1)]
    /\ call' = [call EXCEPT ![p] = "waiting"]

(* handle_call {:run, prompt, opts} *)
Run(p) ==
    /\ "run" \in Kinds /\ call[p] = "idle" /\ Ready
    /\ IF Busy
       THEN /\ call' = [call EXCEPT ![p] = "busy"]
            /\ UNCHANGED <<turn, lastRef, wk>>
       ELSE BeginTurn(p, "run")
    /\ UNCHANGED <<messages, compaction, store, fired, out, inbox, notified, compactCall, controls, cleared>>

(* call_session: the after clause of the client's receive *)
RunTimeout(p) ==
    /\ "leave" \in Controls /\ controls < MaxControls
    /\ call[p] = "waiting" /\ wk[p].kind = "run"
    /\ call' = [call EXCEPT ![p] = "gone"]
    /\ controls' = controls + 1
    /\ UNCHANGED <<sessionVars, lastRef, fired, workerVars, inbox, notified, compactCall, cleared>>

(* handle_call {:subscribe, pid, ref} *)
Subscribe(p) ==
    /\ "stream" \in Kinds /\ call[p] = "idle" /\ Ready
    /\ turn' = Subscribed(turn, p)
    /\ call' = [call EXCEPT ![p] = "subscribed"]
    /\ UNCHANGED <<messages, compaction, store, lastRef, fired, workerVars, inbox, notified,
                   compactCall, controls, cleared>>

(* handle_cast {:stream, prompt, opts, subscriber_ref}, both clauses *)
Stream(p) ==
    /\ call[p] = "subscribed" /\ Ready
    /\ IF Busy
       THEN /\ call' = [call EXCEPT ![p] = "busy"]
            /\ Broadcast(p, <<"error", "done">>)
            /\ UNCHANGED <<turn, lastRef, wk>>
       ELSE /\ BeginTurn(p, "stream")
            /\ UNCHANGED inbox
    /\ UNCHANGED <<messages, compaction, store, fired, out, notified, compactCall, controls, cleared>>

(* handle_cast {:unsubscribe, ...}: the consumer halted, after :done or before *)
Unsubscribe(p) ==
    /\ p \in turn.subscribers /\ call[p] # "subscribed" /\ Ready
    /\ \/ call[p] # "waiting" /\ UNCHANGED <<call, controls>>
       \/ /\ "leave" \in Controls /\ controls < MaxControls
          /\ call[p] = "waiting"
          /\ call' = [call EXCEPT ![p] = "gone"]
          /\ controls' = controls + 1
    /\ turn' = Unsubscribed(turn, p)
    /\ UNCHANGED <<messages, compaction, store, lastRef, fired, workerVars, inbox, notified,
                   compactCall, cleared>>

(* handle_info {:DOWN, monitor, ...} for a stream client that crashed *)
SubscriberDown(p) ==
    /\ "leave" \in Controls /\ controls < MaxControls
    /\ p \in turn.subscribers /\ call[p] \in {"subscribed", "waiting"} /\ Ready
    /\ call' = [call EXCEPT ![p] = "gone"]
    /\ turn' = Unsubscribed(turn, p)
    /\ controls' = controls + 1
    /\ UNCHANGED <<messages, compaction, store, lastRef, fired, workerVars, inbox, notified,
                   compactCall, cleared>>

-----------------------------------------------------------------------------
(* abort_turn: the caller held at a compaction checkpoint is answered
   {:error, :aborted}, the worker is sent {:abort, ref}, the recipient is
   answered, and the reference is replaced.  heard is what the same handler has
   broadcast before, c the compaction state but for its waiter.  Only stream clients are subscribed. *)
(* Mutant: release_compaction_waiter forgets its caller. *)
HeldAtCheckpointLost(p) == FALSE

HeldAtCheckpoint(p) ==
    compaction.waiter # Nil /\ compaction.waiter.phase # "manual" /\ compaction.waiter.from = p

(* Mutant: the caller of an aborted run is not answered. *)
AbortAnswerLost(p) == call[p]

AbortAnswer(p) == IF p = turn.recipient /\ call[p] = "waiting" THEN "aborted" ELSE call[p]

Closing(p) == IF p = turn.recipient THEN <<"error", "done">> ELSE <<>>

AbortTurn(heard, c) ==
    /\ wk' = [p \in Prompts |->
                [wk[p] EXCEPT !.woken = @ \/ p = turn.worker,
                              !.pc = IF HeldAtCheckpoint(p) THEN "failed" ELSE @]]
    /\ compaction' = [c EXCEPT !.waiter = Nil]
    /\ compactCall' = IF compaction.waiter # Nil /\ compaction.waiter.phase = "manual"
                      THEN "aborted" ELSE compactCall
    /\ call' = [p \in Prompts |-> AbortAnswer(p)]
    /\ inbox' = [p \in Prompts |->
                   IF p \in turn.subscribers THEN inbox[p] \o heard[p] \o Closing(p) ELSE inbox[p]]
    /\ notified' = IF turn.recipient # Nil /\ wk[turn.recipient].kind = "stream"
                   THEN Append(notified, turn.recipient) ELSE notified
    /\ lastRef' = lastRef + 1
    /\ turn' = AbandonTurn(turn, lastRef + 1)

NothingHeard == [p \in Prompts |-> <<>>]

(* handle_call :abort *)
Abort ==
    /\ "abort" \in Controls /\ controls < MaxControls /\ Ready
    /\ controls' = controls + 1
    /\ AbortTurn(NothingHeard, compaction)
    /\ UNCHANGED <<messages, store, fired, out, cleared>>

(* handle_call :clear *)
Clear ==
    /\ "clear" \in Controls /\ controls < MaxControls /\ Ready
    /\ controls' = controls + 1
    /\ AbortTurn(NothingHeard,
                 [CancelCompaction(compaction) EXCEPT !.attempted = Nil, !.usage = Nil])
    /\ messages' = <<>>
    /\ ClearSnapshot
    /\ cleared' = {p \in Prompts : wk[p].pc # "none"}
    /\ UNCHANGED <<fired, out>>

(* handle_call :compact *)
Compact ==
    /\ "compact" \in Controls /\ controls < MaxControls /\ Ready
    /\ compactCall # "waiting"
    /\ controls' = controls + 1
    /\ IF ~Policy
       THEN /\ MaybeCompact(messages)
            /\ SaveSnapshot(messages')
            /\ compactCall' = "ok"
       ELSE IF Busy
       THEN compactCall' = "busy" /\ UNCHANGED <<messages, compaction, store, lastRef>>
       ELSE /\ compaction' = [StartCompaction(compaction, lastRef + 1, messages)
                                EXCEPT !.waiter = [from |-> Nil, phase |-> "manual"]]
            /\ lastRef' = lastRef + 1
            /\ compactCall' = "waiting"
            /\ UNCHANGED <<messages, store>>
    /\ UNCHANGED <<turn, fired, workerVars, clientVars, cleared>>

(* handle_call {:steer, message} and {:follow_up, message} *)
Steer ==
    /\ "follow_up" \in Controls /\ controls < MaxControls /\ Ready
    /\ controls' = controls + 1
    /\ \E t \in {Steered(turn, controls), FollowedUp(turn, controls)} : turn' = t
    /\ UNCHANGED <<messages, compaction, store, lastRef, fired, workerVars, clientVars,
                   compactCall, cleared>>

-----------------------------------------------------------------------------
(* The session handles the oldest message of some worker. *)

HeadIs(p, type) == Ready /\ out[p] # <<>> /\ Head(out[p]).type = type

Pop(p) == out' = [out EXCEPT ![p] = Tail(@)]

(* handle_cast {:broadcast_event, ...}: broadcast, then the agent's handle_event,
   whose {:stop, ...} aborts the turn. *)
HandleEvent(p) ==
    /\ HeadIs(p, "event")
    /\ Pop(p)
    /\ LET ev == Head(out[p]).arg
       IN  \/ /\ wk[p].ref # turn.abort_ref
              /\ UNCHANGED <<turn, lastRef, compaction, wk, clientVars, compactCall, controls>>
           \/ /\ wk[p].ref = turn.abort_ref
              /\ Broadcast(p, <<ev>>)
              /\ UNCHANGED <<turn, lastRef, compaction, wk, call, notified, compactCall, controls>>
           \/ /\ wk[p].ref = turn.abort_ref
              /\ "stop" \in Controls /\ controls < MaxControls
              /\ controls' = controls + 1
              /\ AbortTurn([NothingHeard EXCEPT ![p] = <<ev>>], compaction)
    /\ UNCHANGED <<messages, store, fired, cleared>>

(* handle_cast {:compaction_usage, ...} *)
HandleUsage(p) ==
    /\ HeadIs(p, "usage")
    /\ Pop(p)
    /\ compaction' = IF wk[p].ref = turn.abort_ref
                     THEN [compaction EXCEPT !.usage = Head(out[p]).arg]
                     ELSE compaction
    /\ UNCHANGED <<turn, messages, store, lastRef, fired, wk, clientVars,
                   compactCall, controls, cleared>>

(* handle_call {:check_turn, ref} from the worker *)
Asks == {"checkpoint", "attempt", "wait", "after"}

Granted(pc) == CASE pc = "checkpoint" -> "checkpointed" [] pc = "attempt" -> "infer"
                 [] pc = "wait" -> "backoff" [] pc = "after" -> "answered"

HandleCheck(p) ==
    /\ HeadIs(p, "call")
    /\ ~(Policy /\ wk[p].pc = "checkpoint")
    /\ Pop(p)
    /\ wk' = [wk EXCEPT ![p].pc =
                 IF Current(turn, wk[p].ref) THEN Granted(@) ELSE "failed"]
    /\ UNCHANGED <<sessionVars, lastRef, fired, clientVars, compactCall, controls, cleared>>

(* handle_call {:check_turn, ref} from a tool task, before it runs the tool *)
AdmitTool(p, t) ==
    /\ wk[p].pc = "tools" /\ wk[p].tool[t] = "asking" /\ Ready
    /\ wk' = [wk EXCEPT ![p].tool[t] =
                 IF Current(turn, wk[p].ref) THEN "running" ELSE "refused"]
    /\ UNCHANGED <<sessionVars, lastRef, fired, out, clientVars, compactCall, controls, cleared>>

(* Mutant: the prompt's index is not moved when the list in front of it shrinks. *)
NotShifted(index, old, new) == index

(* The prompt's index after put_compacted_messages *)
Shifted(index, old, new) == IF index = Nil THEN Nil ELSE index + Len(new) - Len(old)

(* compaction_checkpoint_reply and put_compacted_messages: decide, store the
   decision's messages with the prompt's shifted index, answer whoever asked. *)
CheckpointReply(c0, ms0, from, phase) ==
    LET protected == IF turn.prompt_index = Nil THEN 1 ELSE Len(ms0) - turn.prompt_index
        r         == Checkpoint(c0, lastRef + 1, ms0, from, phase, protected)
        answer    == IF r.tag = "continue" THEN "ok" ELSE "error"
    IN  /\ compaction' = r.c
        /\ lastRef' = RefUsed(r.c)
        /\ messages' = r.messages
        /\ turn' = [turn EXCEPT !.prompt_index = Shifted(@, ms0, r.messages)]
        /\ SaveIfChanged(r.messages, ms0)
        /\ compactCall' = IF phase = "manual" /\ r.tag # "wait" THEN answer ELSE compactCall
        /\ wk' = IF phase = "manual" \/ r.tag = "wait" THEN wk
                 ELSE IF r.tag = "continue"
                 THEN [wk EXCEPT ![from].pc = "checkpointed", ![from].msgs = r.messages]
                 ELSE [wk EXCEPT ![from].pc = "failed"]

(* handle_call {:compaction_checkpoint, ref, messages, ctx}: the session takes
   over the worker's list before it decides. *)
HandleCheckpoint(p) ==
    /\ HeadIs(p, "call")
    /\ Policy /\ wk[p].pc = "checkpoint"
    /\ Pop(p)
    /\ IF Current(turn, wk[p].ref)
       THEN CheckpointReply(compaction, wk[p].msgs, p, "background")
       ELSE /\ wk' = [wk EXCEPT ![p].pc = "failed"]
            /\ UNCHANGED <<sessionVars, lastRef, compactCall>>
    /\ UNCHANGED <<fired, clientVars, controls, cleared>>

(* Mutant: a failed run restores the list it captured. *)
RunListRestored(p, ok) == IF ok THEN wk[p].msgs ELSE wk[p].base

(* The list a finished run leaves: a failed one may have adopted a replacement at
   a checkpoint, and must not restore what that discarded. *)
RunList(p, ok) == IF ok THEN wk[p].msgs ELSE IF Policy THEN messages ELSE wk[p].base

(* Mutant: run_complete answers and saves nothing. *)
RunCompleteUnsaved(p, ok) ==
    LET ms == RunList(p, ok)
    IN  /\ Reply(p, IF ok THEN "ok" ELSE "error")
        /\ turn' = FinishTurn(turn)
        /\ IF ok \/ ~Policy
           THEN MaybeCompact(ms)
           ELSE messages' = ms /\ UNCHANGED <<compaction, lastRef>>
        /\ UNCHANGED <<store, inbox, notified>>

(* handle_cast {:run_complete, ...}: the caller is answered first, persist_snapshot
   comes last. *)
RunComplete(p, ok) ==
    LET ms == RunList(p, ok)
    IN  /\ Reply(p, IF ok THEN "ok" ELSE "error")
        /\ turn' = FinishTurn(turn)
        /\ IF ok \/ ~Policy
           THEN MaybeCompact(ms)
           ELSE messages' = ms /\ UNCHANGED <<compaction, lastRef>>
        /\ store' = [store EXCEPT !.due = TRUE]
        /\ UNCHANGED <<inbox, notified>>

(* handle_cast {:stream_complete, ...}, both clauses: :done first, the save last *)
StreamComplete(p, ok) ==
    /\ Reply(p, IF ok THEN "ok" ELSE "error")
    /\ Broadcast(p, <<"done">>)
    /\ notified' = Append(notified, p)
    /\ turn' = FinishTurn(turn)
    /\ IF ok
       THEN MaybeCompact(wk[p].msgs) /\ store' = [store EXCEPT !.due = TRUE]
       ELSE UNCHANGED <<messages, compaction, store, lastRef>>

HandleComplete(p) ==
    /\ HeadIs(p, "complete")
    /\ Pop(p)
    /\ IF wk[p].ref # turn.abort_ref
       THEN UNCHANGED <<sessionVars, lastRef, clientVars>>
       ELSE IF wk[p].kind = "run"
       THEN RunComplete(p, Head(out[p]).arg)
       ELSE StreamComplete(p, Head(out[p]).arg)
    /\ UNCHANGED <<fired, wk, compactCall, controls, cleared>>

(* The end of run_complete and of stream_complete *)
Persist ==
    /\ store.due
    /\ SaveSnapshot(messages)
    /\ UNCHANGED <<turn, messages, compaction, lastRef, fired, workerVars, clientVars, compactCall,
                   controls, cleared>>

-----------------------------------------------------------------------------
(* The compaction task. *)

(* compaction_finished *)
CompactionFinished(c) ==
    IF c.waiter # Nil
    THEN CheckpointReply([c EXCEPT !.waiter = Nil], messages, c.waiter.from, c.waiter.phase)
    ELSE /\ IF turn.streaming
            THEN compaction' = c /\ UNCHANGED <<messages, store>>
            ELSE LET taken == TakeResult(c, messages)
                 IN  /\ compaction' = taken.c
                     /\ messages' = taken.messages
                     /\ SaveIfChanged(taken.messages, messages)
         /\ UNCHANGED <<turn, lastRef, wk, compactCall>>

(* handle_info {ref, result} and {:DOWN, ref, ...} of the task *)
CompactionDone ==
    /\ compaction.task # 0 /\ Ready
    /\ \E r \in CompactResults(compaction.prefix) :
          CompactionFinished(CompleteCompaction(compaction, r))
    /\ UNCHANGED <<fired, out, clientVars, controls, cleared>>

(* Process.send_after: the armed timer puts its message in the mailbox *)
TimerFires ==
    /\ compaction.task # 0 /\ compaction.task \notin fired
    /\ fired' = fired \cup {compaction.task}
    /\ UNCHANGED <<sessionVars, lastRef, workerVars, clientVars, compactCall, controls, cleared>>

(* Mutant: the timeout is never acted on. *)
HandleTimeoutDropped(ref) ==
    /\ ref \in fired /\ Ready
    /\ fired' = fired \ {ref}
    /\ UNCHANGED <<sessionVars, lastRef, workerVars, clientVars, compactCall, controls, cleared>>

(* handle_info {:compaction_timeout, ref}; the catch-all clause drops one whose
   task is no longer the current one *)
HandleTimeout(ref) ==
    /\ ref \in fired /\ Ready
    /\ fired' = fired \ {ref}
    /\ IF compaction.task = ref
       THEN CompactionFinished([CancelCompaction(compaction) EXCEPT !.result = ErrorResult("timeout")])
       ELSE UNCHANGED <<sessionVars, lastRef, wk, compactCall>>
    /\ UNCHANGED <<out, clientVars, controls, cleared>>

-----------------------------------------------------------------------------
(* The worker of a turn: do_run, do_stream and the agent loop. *)

Emits(p, events) == IF wk[p].kind = "run" THEN <<>> ELSE events

(* One step of a worker that sends these messages to the session. *)
Step(p, record, sends) ==
    /\ wk' = [wk EXCEPT ![p] = record]
    /\ out' = [out EXCEPT ![p] = @ \o sends]
    /\ UNCHANGED <<sessionVars, lastRef, fired, clientVars, compactCall, controls, cleared>>

At(p, pc) == wk[p].pc = pc

Ask(p, record, pc, sends) == Step(p, [record EXCEPT !.pc = pc], Append(sends, Asking))

(* The worker's last act: the {:run_complete, ...} or {:stream_complete, ...} cast. *)
Finish(p, record, ok, events) ==
    Step(p, [record EXCEPT !.pc = "done"],
         Append(Emits(p, Append(events, Event("agent_end"))), Complete(ok)))

(* do_native_run and do_native_stream up to the loop *)
WorkerStarts(p) ==
    /\ Native /\ At(p, "start")
    /\ Step(p, [wk[p] EXCEPT !.pc = "loop"], Emits(p, <<Event("agent_start")>>))

(* do_runtime_run, and do_stream's refusal for a runtime that is not native *)
RuntimeAnswers(p) ==
    /\ ~Native /\ At(p, "start")
    /\ \E ok \in BOOLEAN :
          /\ wk[p].kind = "stream" => ~ok
          /\ Step(p, [wk[p] EXCEPT !.pc = "done",
                        !.msgs = IF ok THEN Append(@, Msg(p, 2, "assistant")) ELSE @],
                  Append(Emits(p, <<Event("error")>>), Complete(ok)))

(* agent_loop and streaming_loop: the turn bound, then the checkpoint *)
WorkerLoops(p) ==
    /\ At(p, "loop")
    /\ IF wk[p].round >= MaxTurns
       THEN Finish(p, wk[p], TRUE, <<>>)
       ELSE Ask(p, wk[p], "checkpoint", <<>>)

(* The checkpoint was passed; without a policy the worker compacts its own list. *)
WorkerProceeds(p) ==
    /\ At(p, "checkpointed")
    /\ \E ms \in IF Policy THEN {wk[p].msgs} ELSE Applied(wk[p].msgs) :
          Ask(p, [wk[p] EXCEPT !.msgs = ms, !.attempt = 1, !.emitted = FALSE],
              "attempt", Emits(p, <<Event("turn_start")>>))

(* A chunk of a streamed answer: tracked_emit *)
ProviderStreams(p) ==
    /\ At(p, "infer") /\ wk[p].kind = "stream" /\ ~wk[p].emitted
    /\ Step(p, [wk[p] EXCEPT !.emitted = TRUE], <<Event("text")>>)

(* The provider answers (external): the turn is checked again before use. *)
ProviderAnswers(p) ==
    /\ At(p, "infer")
    /\ \E reply \in {"assistant", "calls"} : Ask(p, [wk[p] EXCEPT !.reply = reply], "after", <<>>)

(* The attempt fails: do_with_retry waits and tries again, or gives the error up. *)
ProviderFails(p) ==
    /\ At(p, "infer")
    /\ \E retryable \in BOOLEAN :
          IF retryable /\ ~wk[p].emitted /\ wk[p].attempt < MaxAttempts
          THEN Ask(p, wk[p], "wait", <<>>)
          ELSE Step(p, [wk[p] EXCEPT !.pc = "failed"], <<>>)

(* wait_for_retry: the delay passed and no {:abort, ref} is in the mailbox *)
BackoffElapses(p) ==
    /\ At(p, "backoff") /\ ~wk[p].woken
    /\ Ask(p, [wk[p] EXCEPT !.attempt = @ + 1], "attempt", <<>>)

BackoffAborted(p) ==
    /\ At(p, "backoff") /\ wk[p].woken
    /\ Step(p, [wk[p] EXCEPT !.pc = "failed"], <<>>)

(* Any {:error, reason} of the loop: reported, and the run's list is the one
   it began with. *)
WorkerFails(p) ==
    /\ At(p, "failed")
    /\ Finish(p, wk[p], FALSE, <<Event("error")>>)

(* The place of the next message in the worker's turn. *)
NextN(p) ==
    LET e == Expand(wk[p].msgs)
    IN  Cardinality({i \in 1..Len(e) : e[i].turn = p}) + 1

(* After inference: usage, the assistant message, then tools or the end. *)
WorkerRecords(p) ==
    /\ At(p, "answered")
    /\ \E skew \in IF Policy THEN UsageSkews ELSE {0} :
          LET usage == IF Policy THEN <<Usage(wk[p].msgs, skew)>> ELSE <<>>
              said  == [wk[p] EXCEPT !.msgs = Append(@, Msg(p, NextN(p), wk[p].reply))]
          IN  IF wk[p].reply = "calls"
              THEN Step(p, [said EXCEPT !.pc = "tools", !.tool = [t \in ToolIds |-> "asking"]],
                        usage \o Emits(p, <<Event("turn_end"), Event("tool_call")>>))
              ELSE Step(p, [said EXCEPT !.pc = "done"],
                        usage \o Emits(p, <<Event("turn_end"), Event("agent_end")>>)
                              \o <<Complete(TRUE)>>)

(* An admitted tool returns, its turn aborted or not, or it never does. *)
ToolReturns(p, t) ==
    /\ At(p, "tools") /\ wk[p].tool[t] = "running"
    /\ \E how \in IF ToolsHang THEN {"done", "hung"} ELSE {"done"} :
          Step(p, [wk[p] EXCEPT !.tool[t] = how], <<>>)

(* Task.async_stream gives up on a task by exiting its caller (on_timeout: :exit):
   the worker, which nobody monitors. *)
ToolTimesOut(p) ==
    /\ At(p, "tools") /\ \E t \in ToolIds : wk[p].tool[t] = "hung"
    /\ Step(p, [wk[p] EXCEPT !.pc = "dead"], <<>>)

(* execute_tool_calls ends: the results join the list in the order of the calls. *)
ToolsReturned(p) ==
    /\ At(p, "tools") /\ \A t \in ToolIds : wk[p].tool[t] \in {"done", "refused"}
    /\ Step(p, [wk[p] EXCEPT !.pc = "loop", !.round = @ + 1,
                  !.tool = [t \in ToolIds |-> "idle"],
                  !.msgs = @ \o [t \in ToolIds |-> Msg(p, NextN(p) + t - 1, "tool_result")]],
            Emits(p, <<Event("tool_result")>>))

-----------------------------------------------------------------------------
SessionHandles(p) ==
    \/ HandleEvent(p) \/ HandleUsage(p) \/ HandleCheck(p)
    \/ HandleCheckpoint(p) \/ HandleComplete(p)

WorkerSteps(p) ==
    \/ WorkerStarts(p) \/ RuntimeAnswers(p) \/ WorkerLoops(p) \/ WorkerProceeds(p)
    \/ ProviderStreams(p) \/ ProviderAnswers(p) \/ ProviderFails(p)
    \/ BackoffElapses(p) \/ BackoffAborted(p) \/ WorkerFails(p) \/ WorkerRecords(p)
    \/ ToolTimesOut(p) \/ ToolsReturned(p)

ToolSteps(p, t) == AdmitTool(p, t) \/ ToolReturns(p, t)

ClientSteps ==
    \/ \E p \in Prompts : \/ Run(p) \/ RunTimeout(p) \/ Subscribe(p) \/ Stream(p)
                          \/ Unsubscribe(p) \/ SubscriberDown(p)
    \/ Abort \/ Clear \/ Compact \/ Steer

Next ==
    \/ ClientSteps
    \/ \E p \in Prompts : SessionHandles(p) \/ WorkerSteps(p)
    \/ \E p \in Prompts, t \in ToolIds : ToolSteps(p, t)
    \/ Persist
    \/ CompactionDone
    \/ TimerFires
    \/ \E ref \in fired : HandleTimeout(ref)

(* The scheduler runs every process that can run, a provider call ends (its
   HTTP client has a timeout), an armed timer fires.  Nothing is assumed of
   clients, of the compactor, nor that a tool returns rather than hangs. *)
Fairness ==
    /\ \A p \in Prompts : WF_vars(SessionHandles(p)) /\ WF_vars(WorkerSteps(p))
    /\ \A p \in Prompts, t \in ToolIds : WF_vars(ToolSteps(p, t))
    /\ WF_vars(Persist)
    /\ WF_vars(TimerFires)
    /\ WF_vars(\E ref \in fired : HandleTimeout(ref))

Spec == Init /\ [][Next]_vars

FairSpec == Spec /\ Fairness

-----------------------------------------------------------------------------
(* Properties. *)

PCs == {"none", "start", "loop", "checkpoint", "checkpointed", "attempt", "infer", "wait",
        "backoff", "after", "answered", "tools", "failed", "done", "dead"}

Answers == {"idle", "subscribed", "waiting", "ok", "error", "busy", "aborted", "gone"}

ToolStates == [ToolIds -> {"idle", "asking", "running", "refused", "done", "hung"}]

Workers == [pc : PCs, kind : {"run", "stream"}, ref : Nat, base : Histories,
            msgs : Histories, round : Nat, attempt : Nat, emitted : BOOLEAN,
            reply : {Nil, "assistant", "calls"},
            tool : ToolStates, woken : BOOLEAN]

Stores == [snapshot : Histories \cup {Nil}, due : BOOLEAN, failed : SUBSET {"save", "clear"}]

Queued == Seq(Nat)

Listeners == SUBSET Prompts

Turns == [streaming : BOOLEAN, abort_ref : Nat, recipient : Prompts \cup {Nil},
          worker : Prompts \cup {Nil}, prompt_index : Int \cup {Nil},
          steering : Queued, follow_up : Queued, subscribers : Listeners]

StreamEvents == {"agent_start", "turn_start", "text", "turn_end", "tool_call", "tool_result",
                 "agent_end", "error"}

Wires == [type : {"event"}, arg : StreamEvents] \cup [type : {"complete"}, arg : BOOLEAN]
            \cup [type : {"usage"}, arg : Usages] \cup [type : {"call"}, arg : {Nil}]

TurnTypeOK ==
    /\ turn \in Turns
    /\ turn.streaming <=> turn.recipient # Nil
    /\ turn.streaming <=> turn.prompt_index # Nil
    /\ turn.worker = turn.recipient

DataTypeOK ==
    /\ messages \in Histories
    /\ compaction \in Compactions
    /\ store \in Stores
    /\ lastRef \in Nat
    /\ fired \subseteq Nat

WorkerTypeOK ==
    /\ wk \in [Prompts -> Workers]
    /\ out \in [Prompts -> Seq(Wires)]

ClientTypeOK ==
    /\ call \in [Prompts -> Answers]
    /\ inbox \in [Prompts -> Seq(StreamEvents \cup {"done"})]
    /\ notified \in Seq(Prompts)
    /\ compactCall \in {"idle", "waiting", "ok", "error", "busy", "aborted"}
    /\ controls \in Nat
    /\ cleared \subseteq Prompts

(* The types of the session's own state, its workers and its clients, with what
   Turn.start, finish and abort keep together: a turn is running exactly when it
   has a recipient, a worker and a prompt boundary. *)
TypeOK == TurnTypeOK /\ DataTypeOK /\ WorkerTypeOK /\ ClientTypeOK

(* Every client that waits is the one the running turn will answer: no abort,
   clear, stop or completion ever leaves a caller behind (abort_turn and the
   completion casts of session.ex). *)
CallerHasTurn ==
    \A p \in Prompts : call[p] = "waiting" =>
        turn.recipient = p /\ turn.abort_ref = wk[p].ref

(* A stream is closed once and hears nothing after :done, however many of its
   worker's events are still on their way (broadcast_event and stream_complete are
   dropped by their reference), and a stream that failed was told so first; the notifier
   sees one :done of it before the next turn runs, and none of a stream that was refused. *)
StreamClosedOnce ==
    \A p \in Prompts :
        /\ LET dones == {i \in 1..Len(notified) : notified[i] = p}
               over  == wk[p].pc # "none" /\ wk[p].kind = "stream" /\ turn.recipient # p
           IN  IF over THEN \E i \in dones : dones = {i} ELSE dones = {}
        /\ \A i \in 1..Len(inbox[p]) : inbox[p][i] = "done" => i = Len(inbox[p])
        /\ p \in turn.subscribers /\ call[p] \notin {"subscribed", "waiting"} =>
              /\ inbox[p] # <<>> /\ Last(inbox[p]) = "done"
              /\ call[p] # "ok" => \E i \in 1..Len(inbox[p]) : inbox[p][i] = "error"

(* The conversation survives every interleaving of turns, aborts, compactions and
   their late results: no message is lost, repeated or out of place, and no tool
   batch is cut in two; nor in the store, however many saves and clears fail there,
   and unless a clear failed what is stored is the history as it was or still is. *)
HistoryIntact ==
    /\ Intact(messages) /\ BatchesWhole(messages, Tools)
    /\ store.snapshot # Nil =>
          /\ Intact(store.snapshot) /\ BatchesWhole(store.snapshot, Tools)
          /\ "clear" \notin store.failed => IsPrefix(Expand(store.snapshot), Expand(messages))

(* A turn that was answered {:ok, _} is whole in the history until that is cleared;
   and whole in the store too, unless the session is between the answer and the save or
   the save failed, which makes nothing but a later save good. *)
AnsweredTurnKept ==
    \A p \in Prompts : call[p] = "ok" /\ p \notin cleared =>
        /\ OfTurn(messages, p) # <<>>
        /\ OfTurn(messages, p) = OfTurn(wk[p].msgs, p)
        /\ Ready /\ store.failed = {} =>
              store.snapshot # Nil /\ OfTurn(store.snapshot, p) = OfTurn(messages, p)

(* Nothing of a turn that began before clear is ever seen in the history again, whatever
   its worker, its tools or a compaction of the old history still deliver, nor in
   the store once a clear or a later save went through there. *)
ClearedStaysCleared ==
    \A p \in cleared :
        /\ OfTurn(messages, p) = <<>>
        /\ store.snapshot # Nil /\ "clear" \notin store.failed => OfTurn(store.snapshot, p) = <<>>

(* The running turn's prompt is where prompt_index says, however often the list in
   front of it is replaced: compaction never touches the active prompt and what
   follows it (put_compacted_messages, protected_count). *)
ActivePromptKept ==
    turn.streaming =>
        /\ turn.prompt_index >= 0
        /\ Policy => turn.prompt_index <= Len(messages)
        /\ Len(messages) > turn.prompt_index =>
              messages[turn.prompt_index + 1] = Msg(turn.recipient, 1, "user")

(* With background compaction, what a replacement discarded stays discarded until the
   history is cleared: no late list of a worker restores it (run_complete's comment
   on failed runs). *)
Discarded(ms) == IF ms # <<>> /\ ms[1].role = "summary" THEN ms[1].covers ELSE <<>>

DiscardedStaysDiscarded ==
    [][Policy /\ messages' # <<>> => IsPrefix(Discarded(messages), Discarded(messages'))]_vars

(* A caller held at a checkpoint is the running turn's worker, still waiting there,
   and something is going to release it: a compaction task is running. *)
WaiterHasTask ==
    compaction.waiter # Nil =>
        /\ compaction.task # 0
        /\ IF compaction.waiter.phase = "manual"
           THEN ~turn.streaming /\ compactCall = "waiting"
           ELSE turn.recipient = compaction.waiter.from /\ At(turn.recipient, "checkpoint")

(* A turn that is not the current one is given nothing new to do: no provider call
   and no tool starts for it unless it was admitted before (check_turn). *)
NoLateAdmission ==
    [][\A p \in Prompts : wk[p].pc # "none" /\ ~(turn.streaming /\ turn.recipient = p) =>
          /\ wk'[p].pc = "infer" => wk[p].pc = "infer"
          /\ \A t \in ToolIds : wk'[p].tool[t] = "running" => wk[p].tool[t] = "running"]_vars

(* Once a turn is aborted the history never gains another message of it, and loses what it
   has of it only to clear. *)
AbortedTurnFrozen ==
    [][\A p \in Prompts : wk[p].woken =>
          OfTurn(messages', p) = OfTurn(messages, p) \/ messages' = <<>>]_vars

(* Every accepted call is answered: by its worker, or by an abort. *)
CallAnswered == \A p \in Prompts : call[p] = "waiting" ~> call[p] # "waiting"

(* Every worker ends, the ones nobody waits for too. *)
WorkerEnds == \A p \in Prompts : wk[p].pc = "start" ~> wk[p].pc = "done"

(* Nobody is held at a compaction checkpoint for ever, even by a compactor that
   never returns. *)
WaiterReleased == compaction.waiter # Nil ~> compaction.waiter = Nil

(* "Bounded by the session's own timeout" (session.ex, tool_timeout): a turn one of
   whose tools never returns still ends.  It does not: the timeout exits the worker,
   and without its completion cast the turn stays the running one. *)
HungToolEndsTurn ==
    \A p \in Prompts : (\E t \in ToolIds : wk[p].tool[t] = "hung") ~> turn.recipient # p

-----------------------------------------------------------------------------
(* The session implements TurnService: its owner is the recipient of the running
   turn, or the manual compaction that holds the waiter's place. *)
Owner ==
    IF turn.recipient # Nil THEN turn.recipient
    ELSE IF compaction.waiter # Nil THEN "maintenance" ELSE Nil

(* What a client has been told, the subscription of a stream left out. *)
Told(answer) == CASE answer = "subscribed" -> "idle"
                  [] answer = "busy" -> "refused"
                  [] OTHER -> answer

Status == [p \in Prompts |-> Told(call[p])]

Service == INSTANCE TurnService
             WITH Clients <- Prompts, Nobody <- Nil, Maintenance <- "maintenance",
                  owner <- Owner, status <- Status

(* Every step of the session is a step of the service or changes nothing a client
   can tell: one turn at a time, at most one answer to each call, and it is the
   answer of its own turn. *)
ImplementsTurnService == Service!Spec
=============================================================================
