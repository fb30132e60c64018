---------------------------- MODULE HostSession ----------------------------
(***************************************************************************)
(* lib/condukt/host_session.ex: the agent loop as a value the host         *)
(* advances.  A call either returns a new session or an error and none, in *)
(* which case the host goes on with the one it has.  The host may call     *)
(* anything at any time, and answer tools with anything.                   *)
(***************************************************************************)
EXTENDS Integers, Sequences, FiniteSets, SequencesExt

CONSTANTS
    CallIds,       \* identifiers of tool calls
    MaxIterations, \* @max_iterations
    MaxBatch,      \* bound on the tool calls of one reply
    MaxPrompts,    \* bound on the prompts submitted
    None           \* nil

ASSUME HostAssumption ==
    /\ MaxIterations \in Nat \ {0} /\ MaxBatch \in Nat /\ MaxPrompts \in Nat
    /\ None \notin Seq(CallIds)

VARIABLES
    history, awaiting_completion, awaiting_tools, iterations,  \* %HostSession{}
    returned,   \* what the last call gave the host
    prompts     \* prompts accepted so far, for MaxPrompts

session == <<history, awaiting_completion, awaiting_tools, iterations>>
vars == <<session, returned, prompts>>

(* The replies a provider may give: distinct identifiers, none for a final answer. *)
Batches == {s \in SeqOf(CallIds, MaxBatch) : IsInjective(s)}

(* What a host may hand back: any outputs, right or wrong, in any order. *)
Outputs == SeqOf([id : CallIds, error : BOOLEAN], MaxBatch)

User              == [role |-> "user", calls |-> <<>>, id |-> None, error |-> FALSE]
Assistant(calls)  == [role |-> "assistant", calls |-> calls, id |-> None, error |-> FALSE]
Result(id, error) == [role |-> "tool", calls |-> <<>>, id |-> id, error |-> error]

Init ==
    /\ history = <<>>
    /\ awaiting_completion = FALSE /\ awaiting_tools = None /\ iterations = 0
    /\ returned = "new" /\ prompts = 0

InProgress == awaiting_completion \/ awaiting_tools # None

Refused(error) == returned' = error /\ UNCHANGED <<session, prompts>>

(* Mutant: the bound lets one request too many through. *)
NextRequestLate(ms, n) ==
    IF n > MaxIterations
    THEN Refused("iteration_limit")
    ELSE /\ history' = ms /\ iterations' = n + 1
         /\ awaiting_completion' = TRUE /\ awaiting_tools' = None
         /\ returned' = "request"

(* next_request on a session with these messages and iterations, no tools awaited;
   its error carries no session *)
NextRequest(ms, n) ==
    IF n >= MaxIterations
    THEN Refused("iteration_limit")
    ELSE /\ history' = ms /\ iterations' = n + 1
         /\ awaiting_completion' = TRUE /\ awaiting_tools' = None
         /\ returned' = "request"

(* submit/2 *)
Submit ==
    /\ prompts < MaxPrompts
    /\ IF InProgress
       THEN Refused("turn_in_progress")
       ELSE /\ NextRequest(Append(history, User), 0)
            /\ prompts' = prompts + 1

(* receive_completion/2 with a reply of the assistant or of another role *)
ReceiveCompletion ==
    \/ /\ ~awaiting_completion
       /\ Refused("not_waiting_for_completion")
    \/ /\ awaiting_completion
       /\ Refused("invalid_response_role")
    \/ /\ awaiting_completion
       /\ \E calls \in Batches :
             /\ awaiting_completion' = FALSE
             /\ history' = Append(history, Assistant(calls))
             /\ awaiting_tools' = IF calls = <<>> THEN awaiting_tools ELSE calls
             /\ returned' = IF calls = <<>> THEN "complete" ELSE "run_tools"
       /\ UNCHANGED <<iterations, prompts>>

(* Mutant: the identifiers are compared with the outputs themselves. *)
AnswersUnmapped(calls, outputs) == calls = <<>> /\ outputs = <<>>

(* answers?/2: the same identifiers, each as often *)
Answers(calls, outputs) ==
    /\ Len(calls) = Len(outputs)
    /\ \A id \in CallIds : Len(SelectSeq(calls, LAMBDA c : c = id)) =
                           Len(SelectSeq(outputs, LAMBDA o : o.id = id))

(* Mutant: the results keep the order in which they came. *)
ResultsAsGiven(calls, outputs) == [k \in DOMAIN outputs |-> Result(outputs[k].id, outputs[k].error)]

(* append_results/3: one result per call, in the order of the calls *)
Results(calls, outputs) ==
    [k \in DOMAIN calls |->
        LET o == CHOOSE i \in DOMAIN outputs : outputs[i].id = calls[k]
        IN  Result(calls[k], outputs[o].error)]

(* receive_tool_outputs/2 *)
ReceiveToolOutputs ==
    \/ /\ awaiting_tools = None
       /\ Refused("not_waiting_for_tools")
    \/ /\ awaiting_tools # None
       /\ \E outputs \in Outputs :
             IF Answers(awaiting_tools, outputs)
             THEN NextRequest(history \o Results(awaiting_tools, outputs), iterations)
             ELSE Refused("invalid_tool_results")
       /\ UNCHANGED prompts

Next == Submit \/ ReceiveCompletion \/ ReceiveToolOutputs

(* A host that goes on: it gets every request completed and every tool run. *)
Advances == (ReceiveCompletion \/ ReceiveToolOutputs) /\ session' # session

Spec == Init /\ [][Next]_vars

FairSpec == Spec /\ WF_vars(Advances)

-----------------------------------------------------------------------------
Messages == [role : {"user", "assistant", "tool"}, calls : Seq(CallIds),
             id : CallIds \cup {None}, error : BOOLEAN]

(* The types of %HostSession{}; iterations never pass the bound of next_request. *)
TypeOK ==
    /\ history \in Seq(Messages)
    /\ awaiting_completion \in BOOLEAN
    /\ awaiting_tools \in Seq(CallIds) \cup {None}
    /\ iterations \in 0..MaxIterations
    /\ prompts \in 0..MaxPrompts

(* The messages that follow i answer its calls, one each and in their order. *)
Answered(i) ==
    LET calls == history[i].calls
    IN  /\ i + Len(calls) <= Len(history)
        /\ \A k \in 1..Len(calls) :
              history[i + k].role = "tool" /\ history[i + k].id = calls[k]

(* Whatever the host sends, in whatever order, the transcript is one a provider accepts:
   a prompt follows a final answer, every assistant message follows a prompt or a whole
   batch of results, every batch of calls but one still awaited is answered in order, and
   nothing else is a tool result. *)
TranscriptSound ==
    LET ends == {i \in 1..Len(history) : history[i].role = "assistant"}
        pending == IF awaiting_tools = None THEN {} ELSE {Len(history)}
    IN  /\ \A i \in ends \ pending : Answered(i)
        /\ \A i \in 1..Len(history) : history[i].role = "tool" =>
              \E j \in ends \ pending : j < i /\ i <= j + Len(history[j].calls)
        /\ \A i \in 2..Len(history) : history[i].role = "user" => history[i - 1] = Assistant(<<>>)
        /\ \A i \in ends : i > 1 /\ history[i - 1].role \in {"user", "tool"}
        /\ awaiting_tools # None => Last(history) = Assistant(awaiting_tools)
        /\ awaiting_completion => history # <<>> /\ Last(history).role \in {"user", "tool"}

(* The turn a message belongs to: how many prompts there are up to it. *)
TurnOf(i) == Cardinality({j \in 1..i : history[j].role = "user"})

(* "a model that keeps asking for tools cannot run forever unattended": no turn has more
   than MaxIterations replies, whatever is refused and tried again in between. *)
RepliesBounded ==
    \A t \in 1..prompts :
        Cardinality({i \in 1..Len(history) : history[i].role = "assistant" /\ TurnOf(i) = t})
            <= MaxIterations

(* The last iteration asked for tools. *)
Exhausted == awaiting_tools # None /\ iterations = MaxIterations

(* A turn of a host that does its part ends, or exhausts its iterations. *)
TurnEnds == InProgress ~> (~InProgress \/ Exhausted)
=============================================================================
