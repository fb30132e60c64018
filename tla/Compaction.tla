----------------------------- MODULE Compaction -----------------------------
(***************************************************************************)
(* lib/condukt/session/compaction.ex: the compaction state a session owns, *)
(* as the pure functions the handlers of session.ex call.                  *)
(*                                                                         *)
(* Every message weighs one token, and the context window's thresholds are *)
(* given as token counts.  A task is known by its reference; its timer is  *)
(* armed exactly as long as the task is (start, complete and cancel set    *)
(* and clear both).  A result is [ok, messages] or [not ok, reason].       *)
(***************************************************************************)
EXTENDS History

CONSTANTS
    BackgroundTokens,   \* window * background_threshold
    BlockingTokens,     \* window * blocking_threshold
    KeepRecent,         \* keep_recent_tokens
    Overhead            \* tokens of the system prompt, the tools and the reply

ASSUME PolicyAssumption ==
    /\ BackgroundTokens \in Nat /\ BlockingTokens \in Nat
    /\ BackgroundTokens < BlockingTokens
    /\ KeepRecent \in Nat /\ Overhead \in Nat

Results == [ok : BOOLEAN, messages : Histories, reason : {Nil, "failed", "timeout"}]

Waiters == [from : Prompts \cup {Nil}, phase : {"manual", "background", "fallback"}]

Usages == [tokens : Nat, messages : Histories]

Compactions ==
    [task : Nat, prefix : Histories \cup {Nil}, result : Results \cup {Nil},
     waiter : Waiters \cup {Nil}, attempted : Histories \cup {Nil}, usage : Usages \cup {Nil}]

NewCompaction ==
    [task |-> 0, prefix |-> Nil, result |-> Nil, waiter |-> Nil,
     attempted |-> Nil, usage |-> Nil]

OkResult(ms) == [ok |-> TRUE, messages |-> ms, reason |-> Nil]

ErrorResult(reason) == [ok |-> FALSE, messages |-> <<>>, reason |-> reason]

(* The provider's count of the list it was sent, until the list changes. *)
Tokens(c, ms) ==
    IF c.usage # Nil /\ IsPrefix(c.usage.messages, ms)
    THEN c.usage.tokens + Len(ms) - Len(c.usage.messages)
    ELSE Len(ms) + Overhead

Due(c, ms, threshold) == Tokens(c, ms) >= threshold

(* Mutant: a boundary may fall before a tool result. *)
PrefixOfSplits(ms, keep, protected) ==
    LET n    == Len(ms)
        cut  == IF n > keep THEN n - keep ELSE 0
        room == IF n > protected THEN n - protected ELSE 0
    IN  Take(ms, IF cut < room THEN cut ELSE room)

(* Walking back from the end until keep tokens are left out, a boundary may
   precede anything but a tool result; the protected suffix is never cut.   *)
PrefixOf(ms, keep, protected) ==
    LET n    == Len(ms)
        kept == {k \in 1..n : k >= keep /\ ms[n - k + 1].role # "tool_result"}
        cut  == IF kept = {} THEN 0 ELSE n - Min(kept)
        room == IF n > protected THEN n - protected ELSE 0
    IN  Take(ms, IF cut < room THEN cut ELSE room)

CancelCompaction(c) == [c EXCEPT !.task = 0, !.prefix = Nil, !.result = Nil]

StartCompaction(c, ref, prefix) ==
    [CancelCompaction(c) EXCEPT !.task = ref, !.prefix = prefix, !.attempted = prefix]

CompleteCompaction(c, result) == [c EXCEPT !.task = 0, !.result = result]

(* take_result: a replacement is adopted only over the prefix it was made of. *)
TakeResult(c, ms) ==
    LET updated == IF c.result.ok /\ IsPrefix(c.prefix, ms)
                   THEN c.result.messages \o Drop(ms, Len(c.prefix))
                   ELSE ms
    IN  IF c.result = Nil
        THEN [c |-> c, messages |-> ms, error |-> Nil]
        ELSE [c |-> [c EXCEPT !.prefix = Nil, !.result = Nil,
                              !.usage = IF c.result.ok /\ updated # ms THEN Nil ELSE @],
              messages |-> updated,
              error |-> c.result.reason]

Background(c, ref, ms, protected) ==
    LET prefix == PrefixOf(ms, KeepRecent, protected)
    IN  IF /\ c.task = 0 /\ c.result = Nil
           /\ prefix # <<>> /\ prefix # c.attempted
           /\ Due(c, ms, BackgroundTokens)
        THEN StartCompaction(c, ref, prefix)
        ELSE c

Block(c, ref, ms, from, phase, protected) ==
    LET prefix == PrefixOf(ms, 0, protected)
        wait(d, ph) == [tag |-> "wait", error |-> Nil, messages |-> ms,
                        c |-> [d EXCEPT !.waiter = [from |-> from, phase |-> ph]]]
    IN  IF phase # "fallback" /\ c.task # 0 THEN wait(c, "background")
        ELSE IF phase # "fallback" /\ prefix # <<>>
             THEN wait(StartCompaction(c, ref, prefix), "fallback")
        ELSE [tag |-> "error", error |-> "context_limit", c |-> c, messages |-> ms]

(* The decision at a point where inference may start: go on with these
   messages, keep the caller waiting for a task, or refuse. *)
Checkpoint(c0, ref, ms0, from, phase, protected) ==
    LET taken == TakeResult(c0, ms0)
        c     == taken.c
        ms    == taken.messages
        continue(d) == [tag |-> "continue", error |-> Nil, c |-> d, messages |-> ms]
    IN  IF phase \in {"fallback", "manual"} /\ taken.error # Nil
        THEN [tag |-> "error", error |-> taken.error, c |-> c, messages |-> ms]
        ELSE IF phase = "manual" THEN continue(c)
        ELSE IF Due(c, ms, BlockingTokens)
             THEN Block(c, ref, ms, from, phase, protected)
        ELSE continue(Background(c, ref, ms, protected))
=============================================================================
