# Condukt in TLA+

Condukt is an Elixir framework for agents: a session process runs the loop of
prompts, model calls and tool calls, inside a sandbox whose network traffic a
Rust sidecar controls. This directory specifies the parts of it whose
correctness depends on the order in which things happen, checks them with TLC on
small instances, and proves their safety properties, all but those of the globs, with
TLAPS for every instance.

Paths below are relative to the repository (`src/` in `PROJECT.json`).

## The system

| Component | State | Operations | Talks to |
|---|---|---|---|
| Session (`lib/condukt/session.ex`, `session/turn.ex`) | history, running turn (reference, recipient, worker, subscribers), compaction state | run, stream, abort, clear, compact, steer, follow_up; casts of workers; timers | a worker task per turn, clients, store, compactor task, notifier |
| Compaction (`session/compaction.ex`, `compactor*.ex`) | task, prefix, result, waiter, usage | checkpoint, background, block, complete, take_result, cancel | session (a value inside it), a task process |
| Host-driven session (`host_session.ex`) | history, what it awaits, iterations | submit, receive_completion, receive_tool_outputs | none: a value the host keeps |
| Control channel (`native/condukt_egress/src/proxy/{conn,control}.rs`, `network_policy/k8s/{control_bridge,port_forward}.ex`) | connections, pending decisions, outbound buffer, peers; the bridge's channel, timer, cache | open, decide, emit, accept, read, write; connect, reconnect, give up | two machines over a port-forward that may break |
| Policy rules (`proxy/policy.rs`, `network_policy/{hosts,decider}.ex`) | decision cache | evaluate, matches, decide | conn.rs and the bridge |
| MCP client (`mcp/client.ex`, `mcp/transport/*`, `mcp/registry.ex`) | status, pending requests, timers | handshake, call_tool, timeout, transport down, stop | transport, session (links), tool workers |
| Subagents and operations (`tools/subagent.ex`, `operation.ex`) | child sessions | start, run, terminate | session, supervisor |
| Session store (`session_store/*`, `sessions.ex`) | snapshots on disk or in memory | save, load, delete, list | session |
| Kubernetes sandbox (`sandbox/kubernetes*`, `network_policy/k8s*`) | pod, secrets, policy objects | create, wait, exec, delete | Kubernetes API, control bridge |
| Proxy data path (`native/condukt_egress/src`: `netfilter.rs`, `main.rs`, `proxy/{mod,conn,tls,h2,http1,sni,orig_dst}.rs`) | the nat chain, leaf certificates, connections with two directions, HTTP/2 streams and their shared sender | install, start, identify, judge, mint, dial, forward, splice | the workspace, its destinations, control channel, kubelet |
| Native sandboxes (`native/condukt_{bashkit,microsandbox}/src/lib.rs`, `sandbox/{virtual,microsandbox}.ex`) | an interpreter behind a mutex and its directory; a VM handle and a runtime behind mutexes | exec, read, write, edit, glob, grep, mount, unmount, shutdown, drop | several tool tasks at once |
| Local sandbox, tools, secrets, plug, telemetry, website | none between calls | I/O | |

What is hard in it: workers of aborted turns go on casting into a session that
has moved on; compaction works on a prefix of a history that changes under it;
every wait has a timeout that races its answer; links between processes and
machines break between any two messages; and what was lost must fail closed; a redirect
is installed rule by rule and a sidecar restarted under open connections; and tool tasks
share one interpreter, one VM and one file.
`PROJECT.json` lists each such hazard at its line with the property that guards it.

What makes each component correct, in a sentence: a session answers every call
once, by its own turn, and keeps exactly the conversation that was answered;
compaction replaces a closed prefix and nothing else; a host-driven transcript is
always one a provider accepts and is bounded; nothing leaves the sandbox without
an allowing rule or decision, and neither end of the channel leaks; a connection that was
allowed carries every byte both ways, and its ends; an MCP call gets its own answer or an
error and nothing outlives the session; a sandbox call returns, acts where it was told to,
and no VM is stopped under it or left behind.

## Modules

| Module | Models |
|---|---|
| `History` | Messages, their expansion through summaries, and what an intact history is |
| `Turn` | `Condukt.Session.Turn`, a value: start, finish, abort, subscribers, queues |
| `Compaction` | `Condukt.Session.Compaction`, a value: thresholds, prefix, task, result, waiter |
| `Session` | The session process with its workers, tool tasks, clients, compaction task and timer |
| `TurnService` | The abstract promise of a session to its clients |
| `SessionProofs`, `SessionLifeProofs`, `HistoryProofs` | Theorems about the session: its compaction and its control; its streams and its active prompt; the contents of its history |
| `HostSession` | `Condukt.HostSession` under a host that calls anything at any time |
| `EgressPolicy` | The rule walk and the decide rule with its cache |
| `ControlChannel` | Sidecar handlers and control loops, links, port-forwards, bridge |
| `HostSessionProofs`, `ControlChannelProofs` | Theorems about the two |
| `HostGlob` | Both glob matchers, the recursive one of Rust and the regular expression of Elixir |
| `Netfilter` | The nat OUTPUT chain and the init container that appends to it, interrupted and run again |
| `LeafCache` | The certificate cache of `tls.rs`: looked up and filled under a lock, minted outside of it |
| `ProxyConn` | `conn::handle` from the peek to the end of both directions, and the streams of `h2.rs` |
| `EgressPath` | Composition of the three with the start and the death of the sidecar |
| `RequestLife` | The abstract promise of the proxy about each connection |
| `EgressProofs` | Theorems about the chain, the certificates, the connections and `RequestLife` |
| `McpClient`, `McpClientProofs` | The MCP client with its transport, starter, callers and linked session; theorems |
| `SandboxCalls` | The calls of several tool tasks on one sandbox, and what an edit does |
| `Bashkit`, `Microsandbox` | The two native backends, with their mutexes |
| `Sandboxes`, `SandboxProofs` | A session's tools on either backend, and the properties of both; theorems |
| `MCSession`, `MCSessionRuntimes`, `MCControlChannel`, `MCEgressPath`, `MCSandboxes` | Values of constants, symmetry, and which instances one run takes together |

### Session

`Session` composes `Turn` and `Compaction` (values inside the GenServer's state)
with the processes around it. One action is one message handled by the session,
or one step of a worker between two messages. A worker's messages to the session
are a FIFO queue per worker, as Erlang orders them per pair of processes; a
synchronous call is the last message of the queue until it is answered. References
made with `make_ref` are numbers that are never used again. A prompt is submitted
once and names its client, worker and turn, so "which turn does this message
belong to" is visible in the history.

| Action | Code |
|---|---|
| `Run`, `Stream`, `Subscribe`, `Unsubscribe`, `RunTimeout`, `SubscriberDown` | client side and `handle_call`/`handle_info` of a run or a stream |
| `Abort`, `Clear`, `Compact`, `Steer` | the calls of the same names; the first two through `abort_turn` |
| `HandleEvent`, `HandleUsage`, `HandleCheck`, `HandleCheckpoint`, `HandleComplete` | what workers cast and ask; `HandleEvent` includes a `{:stop, _, _}` of `handle_event` |
| `WorkerStarts` ... `WorkerRecords` | the loop of the turn: checkpoint, retries, inference, recording |
| `AdmitTool`, `ToolReturns`, `ToolTimesOut`, `ToolsReturned` | `execute_tool_calls` with its parallel tasks |
| `CompactionDone`, `TimerFires`, `HandleTimeout` | the compaction task and its timer |
| `Persist` | the save at the end of `run_complete` and `stream_complete` |

The store is the last snapshot written, and which operations failed since one went through.
A save or a clear that fails is only logged (`persist_snapshot`, `persist_or_clear_snapshot`), so
every save and every clear here may fail and the session goes on; a session without a store is
one whose saves all fail. `run_complete` and `stream_complete` answer before they save: the answer
leaves a save due, other processes may run, and `Persist` is the rest of the handler, before which
the session takes no other message (`Ready`). Elsewhere the save and the answer of a handler are one
step, since nobody is answered before the save.

Data is abstracted: a message is its turn, its place and its role; a token
estimate is one per message (plus a provider's deviation); a compactor returns a
summary that stands for the messages it covers, the same list, or an error; a
provider answers with text or a batch of tool calls, streams a delta first if the
turn is a stream, or fails with or without permission to retry.

`TurnService` says what of this a client sees: one owner at a time, a refusal at
once for whoever comes meanwhile, and one answer, of its own turn. The refinement
mapping takes the recipient of the turn (or a manual compaction) for the owner and
the clients' answers for their status.

### Host-driven session

The value's three fields and its history; `Next` is any of the three calls with
any completion and any outputs (missing, twice, foreign, in any order), an error
leaving the value as the host still has it.

### Control channel

Each dial makes a new link: the connection the pod's kernel accepts at once, the
peer the accept loop takes only when both loops of the last one are over, and the
port-forward process at the other end. A link breaks at any point and loses any
suffix of what is on it in each direction. A write to a closed peer is lost, and
fails at once or only from the next write on, as a kernel does. `Expire` and
`GiveUp` are the two steps of a timeout in `request_decision`, between which a
decision may arrive. The decider answers or fails, which counts as a denial and is
cached like one. `EarlyClose` adds the case in which the upgrade response already
holds a close frame; `TimeoutsRace` says whether a timeout may elapse while a
question is still under way.

### Globs

`MatchTokens` follows `match_tokens` of `policy.rs` and `RegexMatches` the regular
expression `hosts.ex` compiles to, each as the set of suffixes of a host that can
remain. Both are compared with each other and with the documented meaning on
label-aligned patterns.

### The way out of the pod

`EgressPath` follows a connection of the workspace through everything that is not the
control channel. `Netfilter` keeps the chain as the sequence of rules that `build_rules`
lists, each with what it matches; `SetupFails` stops the init container before or after
any rule, and the next one appends from the first rule again, as the code does. `Start`
goes through the stages of `run_async`, each of which may fail; `Killed` takes the
process with its connections and certificates and leaves the chain. `ProxyConn` has one
action for every await of `handle`, `https_mitm`, `https_h1`, `http_forward` and
`splice_pairs`, and one for its failure. A direction of a connection counts what its
source wrote, what the proxy read and what it delivered, in chunks; peers write, end
their side or break off at any time, which loses what was not read. What is peeked may
hold all, none or a part of the name. The decide rule is either answer here, because
how it comes about is `ControlChannel`'s subject. In HTTP/2 a stream waits for the sender,
holds it until the response's head, and may be dropped by its client at any point.

`RequestLife` says what of this matters outside: opened, judged, ended, in that order and
once, and nobody contacted before the verdict or after the end. The mapping is the
identity on the events and the contacts.

### Sandboxes

A worker is a tool task; two of them make calls on one sandbox and one file. `Bashkit` has
the mutex of the interpreter, which `exec`, `glob`, `grep`, `mount` and `unmount` keep and
the file calls only pass through, so that edits run beside everything. The directory of
the interpreter is state that outlives a call. `exec` runs `cd target && command`: with the
directory there the command runs in it (`ExecCd`); without it, or with no directory to go to
(`cwd: nil`, a `base` of `Nil`), all or the rest of a command that is several lists runs where the
interpreter is (`ExecAstray`), or nothing does (`ExecCdFails`). A file is a sequence of texts, one of
which stands for bytes that are not UTF-8 and is lost when an edit decodes it (`Lossy`). The text
to be replaced is not empty: the backends count an empty one differently.
`Microsandbox` has the handle that `shutdown` takes, the runtime's mutex, on which every call to
the guest is made, and `Drop`. A panic with a mutex held poisons it. Whatever has no time limit
may never end: commands, globs, greps and mounts with the interpreter held (`ShellHangs`), file
operations without it (`FsHangs`), reads, mkdirs, writes and the stop of the VM with the runtime held
(`GuestHangs`, `StopHangs`). What a command exports is not modelled.

### MCP client

The client's mailbox is one sequence. The server answers any request that reached
it, once, again, or never; the transport ends with or without saying so. A message to the
transport is a call of five seconds, in which the one of `http_sse.ex` posts: it exits, and the
client with it, if the transport has ended or, with `SlowSends`, is not done by then. A caller has
a timeout of its own, a second after the client's, and may give up (`CallerGivesUp`). The call for
`:request_timeout` that comes before `call_tool` changes nothing and is left out. The three
transports are one in this. The session is linked to the client and does not trap
exits; the client is linked to the transport and does.

## Runs

| Run | Question | Bounds |
|---|---|---|
| `session_turns` | Is every call, stream and turn closed exactly once, and is what was answered kept and what was stopped or cleared gone, on the native and on other runtimes? | 2 prompts, runs or streams; 1 round of 2 parallel tools; 2 attempts; synchronous compactor; 1 abort, clear, compact, follow-up, departure or stop |
| `session_compaction` | Does the history survive background compaction, on either runtime? | 2 runs, 2 parallel tools that may hang, 2 rounds; thresholds 3 and 5, 2 messages kept; 2 of abort, clear, compact, 1 while a tool hangs |
| `session_liveness` | Is every call answered, does every worker end, is every waiter released? | 2 runs, 1 abort, thresholds 2 and 4, either runtime |
| `session_hung_tool` (violation) | Does a tool that never returns end its turn? | 1 tool |
| `host_session` | Is the transcript sound and bounded whatever the host does, and does a turn end? | 2 calls per batch, 3 iterations, 2 prompts |
| `control_channel` | Does the channel fail closed, agree with itself, and leak nothing? | 2 connections to 2 hosts, 2 links, buffer of 2, 2 redials |
| `control_channel_recovery` (violation) | Does a request asked after the channel is back get decided? | 2 connections, 2 links |
| `control_channel_orphan` (violation) | Does the bridge leave no port-forward behind? | 3 links, early close |
| `egress_path` | Does everything go through the proxy and nothing of the proxy's own, is each connection judged once and carried whole, do its ends get through, do streams share their sender, and do the two glob matchers agree? | 2 runs of the init container; 2 connections; 2 chunks each way; 2 streams; globs and hosts up to 5 characters over 2 letters |
| `mcp_client` | Is no caller forgotten or given another's answer, does every call return and everything stop? | 2 callers, 1 unread message when the server answers, slow sends |
| `mcp_client_links` (violation) | Does the session survive the end of a transport? | 1 caller, no slow sends |
| `sandbox_calls` | Do commands run where they should, are edits precise, do calls return, is the VM stopped in time and by somebody? | 2 tool tasks with 2 calls each out of 12, on either backend |

Why these bounds are enough. In the session, an interference needs the worker of a
stopped turn, one live turn and one event that separates them; two prompts and one
control call give all orders, two control calls the ones in which a manual
compaction or a second abort meets a leftover. The compaction thresholds are set so
that a first turn starts a background task and the second one meets the blocking
threshold with its result still out, while a turn with tools still fits below it, and
so that the boundary of a prefix falls inside a batch of results and has to move. On the channel a second link is what a
stale frame, eof or monitor message needs, and a buffer of two fills up with the
events of one connection. On the way out, a second run of the init container puts the
whole chain after any beginning of it, and further runs repeat what is there; two
connections are what a race for a certificate needs; two chunks are a head and what
follows it, or two pieces of a head. Connections share nothing but the certificates, and
`MCEgressPath` therefore takes one scope per behaviour: an interrupted installation with a
connection, two connections set up at once, or one that carries data; the globs are a
fourth. Two sandbox calls of two workers make every overlap of two calls after any third
one has left its traces, and more would only repeat them. Hosts of five characters hold three labels, and patterns
of five characters every combination of two stars with a dot and a letter. The
mailbox bound of `mcp_client` restricts only when the server's answers come in: calls (one of each
caller), timeouts, the transport's end and stop queue up whatever is there, and because messages are handled one at a time an answer held
back until the mailbox is short is handled in the same places.

`session_turns`, `session_compaction` and `control_channel` use
the symmetry of prompts or connections; the runs with liveness use none. Deadlock is
checked where the system never stops (`HostSession`); elsewhere a state in which all
prompts, connections or calls are used up is a legitimate end.

`MCEgressPath`, `MCSandboxes` and `MCSessionRuntimes` choose an instance in the initial
state, so that one run covers what the instances have in common. Not reached, and not
meant to be, is the branch of `Dial` in which the chain lets a connection of the workspace
out beside the proxy: `ImplementsRequestLife` would fail there.

### Fairness

- `Session`: weak fairness of the session's handlers, the save that ends one included, of
  each worker and tool task, and of timers. The BEAM schedules every runnable process, a
  provider's HTTP call has a timeout, a store answers or fails, and an armed timer fires. Nothing
  is assumed of clients or of the compactor, which may never return. `session_liveness` has tools
  that return (`ToolsHang = FALSE`): the one that does not is `session_hung_tool`.
- `HostSession`: weak fairness of a call that moves the session on, which is the
  host's part of the contract; used for `TurnEnds` only.
- `EgressPath`: weak fairness of the handler of each connection, and of what a peer's kernel
  takes from it. Tokio polls a task that can go on. The peers owe nothing: they need not
  write, answer or end; nor need the sidecar live.
- `Sandboxes`: weak fairness of each call under way, on its dirty scheduler, of which there
  are assumed to be enough. The mutexes are not fair and need not be, since the calls are
  finitely many. What has no time limit may hang, and `CallsReturn` makes an exception of
  exactly that: the call itself, or one without a limit that holds what the others wait for. A
  time limit is assumed to work: the interpreter yields to tokio's timer, the guest keeps the
  limit it is given.
- `McpClient`: weak fairness of the client, its timers and `wait_for_ready`'s
  timeout. Starting a transport is assumed to end. The server owes nothing, the transport may
  end or stay, and a caller is not counted on to give up.

## Proofs

Every theorem holds for all values of the constants that satisfy the named assumptions
(`SessionAssumption`, `PolicyAssumption`, `HostAssumption`, `ChannelAssumption`,
`CallsAssumption` and their like, in the module that declares the constants): types, `Nil`
outside the values and the histories, a background policy only with a compactor, finitely many positions in a
text that is written. TLC evaluates them on every run. Each module has one inductive
invariant, found with TLC on the constants of the runs before it was proved; one lemma per
action and under it one step per conjunct the action can disturb; and lemmas for what the
sequence operators and the record updates of the model do, which all of these share.

| Theorem | Property of a run | Rests on |
|---|---|---|
| `PrefixBoundary` | | what `PrefixOf` returns |
| `SessionInvariant` | | `IInv` |
| `SessionTypes`, `CallersHaveTurns`, `WaitersHaveTasks` | `TypeOK`, `CallerHasTurn`, `WaiterHasTask` | `IInv` |
| `SessionImplementsService` | `ImplementsTurnService` | `IInv` |
| `NothingStartsLate` | `NoLateAdmission` | `IInv` |
| `StreamInvariant`, `StreamsCloseOnce` | `StreamClosedOnce` | `IInv`, `StreamInv` |
| `PromptInvariant`, `ActivePromptIsKept` | `ActivePromptKept` | `IInv`, `PromptInv` |
| `HistoryInvariant`, `HistoryIsIntact`, `AnsweredTurnsKept`, `ClearedStayCleared` | `HistoryIntact`, `AnsweredTurnKept`, `ClearedStaysCleared` | `IInv`, `PromptInv`, `HistInv` |
| `AbortedTurnsFrozen`, `DiscardedStay` | `AbortedTurnFrozen`, `DiscardedStaysDiscarded` | the same, and `Settled` |
| `HostInvariant`, `TranscriptIsSound`, `RepliesAreBounded` | `TranscriptSound`, `RepliesBounded` | `HostInv` |
| `ChannelInvariant`, `ChannelFailsClosed`, `VerdictsAgree`, `PendingIsExact` | `FailClosed`, `OneVerdictPerHost`, `PendingExact` | `ChannelInv` |
| `ChannelIsOne`, `AuditIsOrdered` | `OneChannel`, `AuditOrdered` | `ChannelInv`, `OneLink`, `AuditInv`, and `~EarlyClose` |
| `EgressInvariant`, `SidecarNeverLoops`, `LeafIsShared`, `CarriedWhole` | `NoLoop`, `OneLeafPerHost`, `NothingDropped` | `ChainInv`, `LeafInv`, `PathInv` |
| `EgressImplementsRequestLife` | `ImplementsRequestLife` | the same |
| `McpInvariant`, `CallersAreTracked`, `AnswersAreOwn` | `CallerTracked`, `OwnAnswer` | `McpInv` |
| `SandboxInvariant`, `CommandsInTheirCwd`, `VmIsAccountedFor` | `ExecInItsCwd`, `VmAccounted` | `SandboxInv` |
| `VmStopsAfterCalls`, `EditsArePrecise` | `StopsAfterCalls`, `EditPrecise` | `SandboxInv` |

### Session

`PrefixBoundary` says that the prefix a compaction takes ends before the active prompt and
never leaves a tool batch cut in two. The invariants of the session are not inductive alone.
`CallerHasTurn` survives a completion only if the reference it carries belongs to no other
turn, `WaiterHasTask` survives a timeout only if the timer's reference is the task's, and both
need to know what a worker at a given place can have in its queue. `IInv` adds:

- `Refs`: references handed out are at most `lastRef`, and two started workers never
  share one;
- `Queues`: the queue of a worker ends in a call or a completion exactly where its
  place in the code says so;
- `Owners`: the recipient of the running turn holds its reference, and a worker that
  still holds it without being the recipient has nothing left to say;
- `Calls`: who waits is the recipient;
- `Waiting`: the waiter of a checkpoint stands at it, and a task runs for it;
- `Fits`: the parts of a compaction agree (a task or a result has its prefix, and
  there is never both a task and a result);
- `Answered`: what a worker records is an answer.

The worker's steps share the lemmas `WorkerKeeps`, `StepKeeps`, `AskKeeps` and the handlers
`PoppedKeeps`. The refinement rests on `IInv` in the same shape, each action being shown a
step of the service or unseen (`...Seen`).

`StreamInv` relates what a stream's client has heard to what its worker has still to say: the
notifier published exactly the streams that are over; an inbox is open while its turn runs and
ends with its only `:done` afterwards; and a completion that failed has an error before it, in
the inbox or in front of it in the queue (`Warned`). The last is what makes "told of its
failure first" inductive: the error and the completion are two messages.

`PromptInv` says where the prompt is in the two lists that may become the history: in
`messages`, and in the worker's own list, at the same index, unless that list can no longer be
used (its worker failed, or waits at a checkpoint where the session has taken the list over);
and that a task, or a replacement that waits to be adopted, has only what lies in front of the
index (`InFront`). Without the second part a background result could be adopted over the
prompt; without the first, a completion or a checkpoint could put a list in place whose prompt
is elsewhere. Without background compaction the history stays shorter than the index until the
turn is over, which `AppliedShort` keeps for a `compact` in the middle of a turn.

`HistInv` says what every list in the system has to do with every other one. The messages of a
turn pass through up to five of them (what its worker captured, the worker's list, the session's
history, the store, a replacement that a compaction made), each of which may be older than the
others or compacted where they are not, so no property of the history is inductive alone. All of
it is said of what a list expands to, place by place:

- `Lists`: a worker's list is what it captured, its prompt, and consecutive messages of its own turn,
  with no batch open but the one whose tools it is running;
- `Ahead`: the list of the running turn says what the history says and after that speaks of its own
  turn only; with background compaction it begins with the history as it is, unless it can no
  longer be used (`Lost`), and while a checkpoint is held the two say the same;
- `Work`: a replacement stands for the prefix it was made from (`Replaces`), and the prefix ends
  where no tool result follows (`Cuts`);
- `Stands`: history and store are intact with whole batches, the history speaks only of turns that
  began since the last clear, and the store is not ahead of it unless a clear failed;
- `Retired`: a turn that was aborted, cleared or answered is not the running one;
- `Kept`: an answered turn is in the history as its worker has it, and so in the store when that
  was written (`Written`: no save is due and nothing failed since one went through).

What a step may do to the store is one lemma for all actions but clear (`Recorded`): it writes the
history, or leaves the snapshot and then, if it touched the store at all, a save due or failed.

`HistoryIntact` needs `Ahead` and `Work`, because a completion and an adopted result replace the
whole history; `ClearedStaysCleared` needs that the running turn is never a cleared one; and
`AnsweredTurnKept` that later turns only add after it. The two properties of steps rest on one more
fact, shown with the invariant for each action: a step leaves the history empty, or a summary
(`Condensed`) of a list that goes on from the old history with messages of the running turn alone
(`Settled`). `OfTurn` gives the messages of a turn at their places, so that what is said of an
aborted or an answered turn is also that it stays at its place.

### Host-driven session

`HostInv`: one thing is awaited at a time, and a session at rest ends with a final answer
(`Awaits`); `TranscriptSound` with the batch that is still awaited left out, and the end of the
transcript is what is awaited (`Sound`); each turn has at most `MaxIterations` replies, and the one
in progress has used an iteration for each reply it has and for the one it awaits (`Counted`).
While a batch is awaited the transcript does not answer it yet, which is why `Sound` has to say
where the open batch is, and that it is the last.

### Control channel

`ChannelInv`: what may be in a queue or on a link (`QueuesOK`), the peers, the bridge and the
audit trail (`PeersOK`, `BridgeOK`, `ReportsOK`), and for each request why it is where it is
(`RequestsOK`). Its core is `SoundVerdict`: a decision, wherever it is, was said by the decider
about the host of its request and is the one the bridge has cached. `FailClosed` needs it of
every link, because a decision reaches a handler long after it was made; `PendingExact` needs
that nothing answered is still registered.

`OneChannel` and `AuditOrdered` hold only if a port-forward says eof once, so their theorems
assume `~EarlyClose`: with it they are false, which is what `control_channel_orphan` finds, and
the run that checks them sets it to `FALSE`. `OneLink` says that only the bridge's own
port-forward runs and that the end of a channel is the last thing in the mailbox; `AuditInv` that
the events of a request in the trail, the mailbox, the link and the buffer follow each other in
the order of its life.

### The way out of the pod

`ChainInv` says that no redirect stands in the chain without both bypasses before it, however
often an installation was broken off, and that the rules the init container is past are in.
`LeafInv` says that whoever is served a certificate has the one in the cache, whoever minted
first. `PathInv` has, for each connection, what its place in `handle` implies about the events
reported and the two directions: untouched before the upstream is there, nothing delivered while
the head is read, delivered as far as read from then on, shut only because the source has ended
and all of it was read or because the other peer is gone. The refinement of `RequestLife` follows
from it, action by action.

### MCP client

`McpInv`: the pending ids were given out, and only a pending call has a timer (`ClientOK`); a call
in the mailbox is there once and is that of a caller who has called and is not pending; an answer, on
its way or there, is for whoever is pending under its id (`MailOK`); who waits is in the mailbox
or pending, who is pending has called, though it may have given up since, and has a timeout to
come, and nobody is pending twice (`Tracked`). `OwnAnswer` is inductive only with the part about answers on their way: ids are
never given out twice, so a late answer finds no entry or its own.

### Sandboxes

`SandboxInv`: what a call carries (`CallShape`, `FileShape`), that the interpreter and the runtime
are held by the one call that is on them, hung or not (`OneHolder`), that nobody moves the interpreter
between `cd` and its command and that no directory is a directory there is (`CdHolds`), and that
what an edit has read is what the file is unless the file was changed under it, with the old text
in it once as the backend decodes it (`ReadByEdit`, `FileShape`, `Decoded`); `ExecInItsCwd` and
`VmAccounted` are parts of it.
`StopsAfterCalls` and `EditPrecise` are about steps and follow action by action; the latter needs
a finite number of texts in the file, which `CallsAssumption` asks of what is written.

### Only model-checked

- Liveness, which the installed provers do not have: `CallAnswered`, `WorkerEnds`,
  `WaiterReleased`, `TurnEnds`, `CallReturns`, `CallsReturn`, `NothingLeftBehind`,
  `EndsReachPeers`, `StreamsAnswered`.
- `AlignedGlobsAgree` and `SidecarNarrower`: the matchers of `HostGlob` are recursive, and what
  they compute takes an induction over the text.
- `TypeOK` of `HostSession`, which no run lists: that every result has an error flag follows from
  a count of the outputs (`Answers`) with `SelectSeq`, which is recursive. `TypeOK` of `ControlChannel` is proved (`ChannelTypes`), that
  of `McpClient` only where `McpInv` needs it; no run lists these either.
- The four runs that expect a violation.

## What the checks found

- `session_hung_tool`: a tool over its timeout exits the worker (`Task.async_stream`
  keeps `on_timeout: :exit`); nothing monitors it, so the session stays streaming
  and refuses every run until it is aborted.
- `control_channel_recovery`: the sidecar notices a dead peer only by writing to it,
  so the first requests after a reconnect are written to the old one and denied.
- `control_channel_orphan`: a close frame in the upgrade response makes a port-forward
  say eof twice, and the second one makes the bridge forget its next port-forward.
- `mcp_client_links`: a tool call handled between the end of the transport and the
  news of it crashes the client and, through the link, the session.

`PROJECT.json` quotes the sentence each of these disagrees with. Seen while modelling
and kept in the models, without a run of its own: nothing reads the queues of `steer`
and `follow_up`; a new control peer waits until a write to the old one fails; a star
inside a label matches less in the sidecar than on the BEAM (`SidecarNarrower` states
the direction); an exhausted `HostSession` awaits tools that no outputs can satisfy and
can only be thrown away; `splice_pairs` returns what went out first, and both its callers take
it for `bytes_in`; an HTTP/2 stream that its client resets has an opened event and no
closed one (`h2.rs:10` speaks of one of each); `glob` of the virtual sandbox without a
directory, or with one that is not there, lists wherever the interpreter was left
(`sandbox.ex:96`), and `grep` without a path searches `/` (`sandbox.ex:105`); a
command of the virtual sandbox whose directory is not there runs, but for its first list,
where an earlier call left the interpreter, and so does all of one without a directory to go to
(`virtual.ex:98-99`; `virtual.ex:22-23` calls each `exec` stateless); nothing
resets what a command exports; a `Host` line that is cut in the
first segment is judged as it stands; of two edits of a file at once one may be
lost, which `EditPrecise` leaves out with the edits whose file changed since they read it; an
edit in the virtual sandbox replaces every byte of the file that is not UTF-8; a
second `shutdown` returns before the first has stopped the VM; a clear of the store that fails
leaves the conversation there, and the session says it is cleared; a slow POST of the SSE
transport crashes the client like a lost one; a stream that breaks in the middle is
reported `request_closed` (`conn.rs:330`, `349`), where `event.rs:31-34` and
`network-policy.md:185-186` promise `request_failed`.

### What the properties do not say

- `RequestLife` takes a request to end as closed or as failed, so it does not see the last of
  these. It rests on the sidecar's uid not being one the workspace runs as, which
  `pod_spec.ex` does not enforce.
- `StreamsAnswered` lets a stream wait as long as the upstream lives and does not answer, and
  the streams behind it wait too.
- `VmAccounted` leaves out a poisoned runtime, with which the VM stays, and counts a stop
  that failed as over.
- `StopsAfterCalls` protects the call that holds the runtime. One that has only cloned the
  handle, and an edit between its read and its write, find the VM stopped.
- `ExecInItsCwd` speaks of commands that have come past their `cd`. The others run wherever
  the interpreter is (`ExecAstray`).

## Not modelled

Of the session: assigns, telemetry, redaction, translation of messages and most of what
`init/1` opens. Of compaction: the weights of tokens and the individual strategies. Of the
channel: the framing codec, restarts of a crashed bridge. Of the data path: the bodies of
HTTP/2 streams, which hyper carries, and what is in certificates and events. Of MCP: parsing
and authentication of the transports, several servers started in turn. Of the sandboxes: the
local one, single calls of `File` and `Port`, and the parsing of grep's output. Of other
runtimes: the command lines of external programs. The disk store writes one file per session
with one call, and what a crash leaves of it is the file system's; subagents, the objects of
the Kubernetes sandbox and the registry of sessions are left for later. Tools, secrets, plug,
telemetry and the website are adapters without state between calls; the session has them as
a tool, a runtime or a provider that answers, fails or hangs.

## Plan

Done: the session and its compaction on both kinds of runtimes; the host-driven session; the
control channel with its policy; the globs; the way out of the pod; the native sandboxes; the
MCP client; and proofs about all of them but the globs. Next, in this order:

1. The Kubernetes sandbox: objects of a session created, waited for and deleted, with
   failures in between, composed with the bridge.
2. Subagents and operations: child sessions, their supervisor, structured results.
3. The codecs (port-forward frames, SSE) and retry delays as operators against a
   reference definition.
