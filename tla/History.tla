------------------------------ MODULE History ------------------------------
(***************************************************************************)
(* The conversation history of a session (lib/condukt/message.ex and the   *)
(* message lists session.ex passes around), reduced to what the session's  *)
(* control distinguishes: a message's role, the turn it belongs to and its *)
(* place in that turn.  A compactor's replacement is one "summary" message *)
(* that remembers the messages it stands for, so that what a history says  *)
(* (Expand) can be compared before and after compaction.                   *)
(***************************************************************************)
EXTENDS Integers, Sequences, SequencesExt

CONSTANTS Prompts,   \* the prompts clients submit, each at most once
          Nil        \* Elixir's nil

Roles == {"user", "calls", "assistant", "tool_result"}

(* Message.user, Message.assistant and Message.tool_result: "calls" is an
   assistant message with tool calls (Message.has_tool_calls?). *)
Msg(p, n, role) == [turn |-> p, n |-> n, role |-> role, covers |-> <<>>]

BaseMessages == [turn : Prompts, n : Nat, role : Roles, covers : {<<>>}]

Summaries == [turn : {Nil}, n : {0}, role : {"summary"}, covers : Seq(BaseMessages)]

Messages == BaseMessages \cup Summaries

(* The lists a session holds: a replacement always stands for the oldest
   messages, so only the head of a list may be a summary. *)
Histories == {ms \in Seq(Messages) : \A i \in 2..Len(ms) : ms[i] \in BaseMessages}

(* What a message list says: its summary read as what it stands for. *)
Expand(ms) ==
    IF ms # <<>> /\ ms[1].role = "summary" THEN ms[1].covers \o Tail(ms) ELSE ms

(* The replacement a compactor returns for a list (external plugin: the
   built-in ones drop old messages or blank old tool results). *)
Summarise(ms) ==
    IF ms = <<>> THEN <<>>
    ELSE <<[turn |-> Nil, n |-> 0, role |-> "summary", covers |-> Expand(ms)]>>

Drop(ms, k) == SubSeq(ms, k + 1, Len(ms))

Take(ms, k) == SubSeq(ms, 1, k)

(* The messages of one turn, at the places a reader of the history finds them. *)
OfTurn(ms, p) ==
    LET e == Expand(ms)
    IN  [i \in {j \in 1..Len(e) : e[j].turn = p} |-> e[i]]

(* What every reader of a history relies on: each turn is one contiguous block
   that starts with its prompt and has no gap and no repetition. *)
Intact(ms) ==
    LET e == Expand(ms)
    IN  \A i \in 1..Len(e) :
           /\ e[i].n = 1 <=> e[i].role = "user"
           /\ e[i].n > 1 => i > 1 /\ e[i-1].turn = e[i].turn /\ e[i-1].n = e[i].n - 1
           /\ \A j \in 1..Len(e) : e[j].turn = e[i].turn /\ e[j].n = e[i].n => j = i

(* A provider refuses a tool result whose call is gone, and a call that has
   no result: batches are whole in the list as it is sent. *)
BatchesWhole(ms, results) ==
    \A i \in 1..Len(ms) :
       /\ ms[i].role = "tool_result" => i > 1 /\ ms[i-1].role \in {"calls", "tool_result"}
       /\ ms[i].role = "calls" =>
             /\ i + results <= Len(ms)
             /\ \A k \in 1..results : ms[i+k].role = "tool_result"
=============================================================================
