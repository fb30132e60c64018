---------------------------- MODULE SessionProofs ----------------------------
(***************************************************************************)
(* What the compaction coordinator's operations keep and the session's     *)
(* control invariant, for every set of prompts, every bound and every      *)
(* configuration.                                                          *)
(***************************************************************************)
EXTENDS Session, SequenceTheorems, WellFoundedInduction, FiniteSetTheorems, TLAPS

(* The least member of a set of naturals is a member and a bound. *)
LEMMA MinOfNats ==
    ASSUME NEW S, S \subseteq Nat, S # {}
    PROVE  Min(S) \in S /\ \A k \in S : Min(S) <= k
<1> DEFINE Less == OpToRel(<, Nat)
<1>1. PICK x \in S : \A y \in S : <<y, x>> \notin Less
  <2> HIDE DEF Less
  <2> QED BY NatLessThanWellFounded, WFMin, Zenon DEF Less
<1>2. \A y \in S : ~(y < x)
  BY <1>1 DEF OpToRel
<1>3. \A y \in S : x <= y
  BY <1>2, SMT
<1> QED BY <1>3, Zenon DEF Min

-----------------------------------------------------------------------------
(* Lists of messages. *)

(* A list without a summary is a history. *)
LEMMA BaseIsHistory ==
    ASSUME NEW t \in Seq(BaseMessages)
    PROVE  t \in Histories
BY SMT DEF Histories, Messages

(* What a history is, position by position. *)
LEMMA HistoryIsSeq ==
    ASSUME NEW ms \in Histories
    PROVE  /\ ms \in Seq(Messages)
           /\ Len(ms) \in Nat
           /\ \A i \in 2..Len(ms) : ms[i] \in BaseMessages
           /\ \A i \in 1..Len(ms) : ms[i] \in Messages
BY SMT DEF Histories

(* The empty list is a history. *)
LEMMA EmptyHistory == <<>> \in Histories
BY SMT DEF Histories

(* Enum.take of a history is a history of that length. *)
LEMMA TakeType ==
    ASSUME NEW ms \in Histories, NEW k \in 0..Len(ms)
    PROVE  Take(ms, k) \in Histories /\ Len(Take(ms, k)) = k
<1>1. k \in Nat /\ \A i \in 1..k : ms[i] \in Messages
  BY HistoryIsSeq
<1>2. /\ SubSeq(ms, 1, k) \in Seq(Messages)
      /\ Len(SubSeq(ms, 1, k)) = k
      /\ \A i \in 1..k : SubSeq(ms, 1, k)[i] = ms[i]
  BY <1>1, SubSeqProperties
<1>3. \A i \in 2..k : ms[i] \in BaseMessages
  BY HistoryIsSeq
<1> DEFINE t == SubSeq(ms, 1, k)
<1>4. \A i \in 2..k : t[i] \in BaseMessages
  BY <1>1, <1>2, <1>3
<1>5. Take(ms, k) = t
  BY DEF Take
<1> HIDE DEF t
<1>6. t \in Seq(Messages) /\ Len(t) = k
  BY <1>2 DEF t
<1>7. t \in Histories
  BY <1>4, <1>6 DEF Histories
<1> QED
  BY <1>5, <1>6, <1>7

(* Enum.drop of one or more messages leaves only original messages. *)
LEMMA DropType ==
    ASSUME NEW ms \in Histories, NEW k \in 1..Len(ms)
    PROVE  Drop(ms, k) \in Seq(BaseMessages) /\ Len(Drop(ms, k)) = Len(ms) - k
<1>1. \A i \in (k + 1)..Len(ms) : ms[i] \in BaseMessages
  BY SMT DEF Histories
<1> QED
  BY <1>1, HistoryIsSeq, SMT DEF Drop

(* A history may go on with original messages. *)
LEMMA ConcatType ==
    ASSUME NEW ms \in Histories, NEW t \in Seq(BaseMessages)
    PROVE  ms \o t \in Histories /\ Len(ms \o t) = Len(ms) + Len(t)
<1>1. t \in Seq(Messages)
  BY BaseIsHistory, HistoryIsSeq
<1>2. /\ ms \o t \in Seq(Messages)
      /\ Len(ms \o t) = Len(ms) + Len(t)
      /\ \A i \in 1..Len(ms) + Len(t) :
            (ms \o t)[i] = IF i <= Len(ms) THEN ms[i] ELSE t[i - Len(ms)]
  BY <1>1, HistoryIsSeq, ConcatProperties
<1>3. \A i \in 2..Len(ms) + Len(t) : (ms \o t)[i] \in BaseMessages
  BY <1>2, HistoryIsSeq, LenProperties, ElementOfSeq
<1> QED
  BY <1>2, <1>3 DEF Histories

(* A history grows by original messages. *)
LEMMA AppendType ==
    ASSUME NEW ms \in Histories, NEW m \in BaseMessages
    PROVE  Append(ms, m) \in Histories
<1>1. m \in Messages
  BY DEF Messages
<1>2. /\ Append(ms, m) \in Seq(Messages)
      /\ Len(Append(ms, m)) = Len(ms) + 1
      /\ \A i \in 1..Len(ms) : Append(ms, m)[i] = ms[i]
      /\ Append(ms, m)[Len(ms) + 1] = m
  BY <1>1, HistoryIsSeq, AppendProperties
<1>3. \A i \in 2..Len(ms) + 1 : Append(ms, m)[i] \in BaseMessages
  BY <1>2, HistoryIsSeq
<1> QED
  BY <1>2, <1>3 DEF Histories

(* What a history stands for is a list of original messages. *)
LEMMA ExpandOfNonEmpty ==
    ASSUME NEW ms \in Histories, ms # <<>>
    PROVE  Expand(ms) \in Seq(BaseMessages)
<1>1. ms[1] \in Messages /\ Tail(ms) \in Seq(BaseMessages)
  <2>1. Len(ms) \in Nat \ {0}
    BY HistoryIsSeq, EmptySeq
  <2>2. Tail(ms) = SubSeq(ms, 2, Len(ms))
    BY HistoryIsSeq, TailIsSubSeq
  <2>3. ms[1] \in Messages /\ \A i \in 2..Len(ms) : ms[i] \in BaseMessages
    BY <2>1, HistoryIsSeq
  <2>4. SubSeq(ms, 2, Len(ms)) \in Seq(BaseMessages)
    BY <2>1, <2>3, SubSeqProperties
  <2> QED BY <2>2, <2>3, <2>4
<1>2. CASE ms[1].role = "summary"
  <2>1. ms[1] \in Summaries
    BY <1>1, <1>2, SMT DEF Messages, BaseMessages, Roles
  <2> QED BY <1>1, <1>2, <2>1, SMT DEF Expand, Summaries
<1>3. CASE ms[1].role # "summary"
  <2>1. ms[1] \in BaseMessages
    BY <1>1, <1>3, SMT DEF Messages, Summaries
  <2>2. \A i \in 1..Len(ms) : ms[i] \in BaseMessages
    BY <2>1, HistoryIsSeq, SMT
  <2> QED BY <1>3, <2>2, HistoryIsSeq, SMT DEF Expand
<1> QED BY <1>2, <1>3

(* A summary of a history is a history, and nothing has no summary. *)
LEMMA SummariseType ==
    ASSUME NEW ms \in Histories
    PROVE  Summarise(ms) \in Histories /\ (ms = <<>> => Summarise(ms) = <<>>)
<1>2. CASE ms = <<>>
  BY <1>2, EmptyHistory, SMT DEF Summarise
<1>3. CASE ms # <<>>
  <2> DEFINE s == [turn |-> Nil, n |-> 0, role |-> "summary", covers |-> Expand(ms)]
  <2>1. s \in Messages
    BY <1>3, ExpandOfNonEmpty, SMT DEF Messages, Summaries
  <2>2. <<s>> \in Histories
    <3> HIDE DEF s
    <3> QED BY <2>1, SMT DEF Histories
  <2> QED BY <1>3, <2>2, SMT DEF Summarise
<1> QED BY <1>2, <1>3

-----------------------------------------------------------------------------
(* What may be compacted. *)

(* The boundary prefix/3 picks: within the list, outside the protected suffix, and
   never between an assistant's tool calls and their results, unless the protected
   suffix, of more than one message, itself begins there. *)
THEOREM PrefixBoundary ==
    ASSUME NEW ms \in Histories, NEW keep \in Nat, NEW protected \in Int
    PROVE  \E k \in 0..Len(ms) :
              /\ PrefixOf(ms, keep, protected) = Take(ms, k)
              /\ k = 0 \/ k <= Len(ms) - protected
              /\ \/ k = 0 \/ ms[k + 1].role # "tool_result"
                 \/ k = Len(ms) - protected /\ protected > 1
<1> DEFINE n    == Len(ms)
           kept == {k \in 1..n : k >= keep /\ ms[n - k + 1].role # "tool_result"}
           cut  == IF kept = {} THEN 0 ELSE n - Min(kept)
           room == IF n > protected THEN n - protected ELSE 0
           len  == IF cut < room THEN cut ELSE room
<1>0. n \in Nat
  BY HistoryIsSeq
<1>1. PrefixOf(ms, keep, protected) = Take(ms, len)
  BY Zenon DEF PrefixOf
<1>2. /\ cut \in 0..n /\ (cut = 0 \/ cut <= n - 1)
      /\ cut = 0 \/ ms[cut + 1].role # "tool_result"
  <2>1. CASE kept = {}
    <3>1. cut = 0  BY <2>1
    <3> QED BY <3>1, <1>0, SMT
  <2>2. CASE kept # {}
    <3>1. Min(kept) \in kept
      <4>1. kept \subseteq Nat  BY <1>0, SMT
      <4> HIDE DEF kept
      <4> QED BY <2>2, <4>1, MinOfNats
    <3>2. cut = n - Min(kept)  BY <2>2
    <3>3. PICK k \in 1..n : k = Min(kept) /\ ms[n - k + 1].role # "tool_result"
      BY <3>1
    <3>4. cut = n - k  BY <3>2, <3>3
    <3>5. cut + 1 = n - k + 1  BY <3>4, <1>0, SMT
    <3> HIDE DEF cut
    <3> QED BY <3>3, <3>4, <3>5, <1>0, SMT
  <2> QED BY <2>1, <2>2
<1> HIDE DEF cut
<1>3. len \in 0..n
  BY <1>0, <1>2, SMT
<1>4. len = 0 \/ len <= n - protected
  BY <1>0, <1>2, SMT
<1>5. \/ len = 0 \/ ms[len + 1].role # "tool_result"
      \/ len = n - protected /\ protected > 1
  <2>1. CASE cut < room
    BY <2>1, <1>2
  <2>2. CASE ~(cut < room) /\ protected > 1
    BY <2>2, <1>0, <1>2, SMT
  <2>3. CASE ~(cut < room) /\ ~(protected > 1)
    <3>1. len = 0 \/ len = cut
      BY <2>3, <1>0, <1>2, SMT
    <3> QED BY <3>1, <1>2
  <2> QED BY <2>1, <2>2, <2>3
<1> HIDE DEF len
<1> QED BY <1>1, <1>3, <1>4, <1>5

(* prefix cuts a history in front of the active prompt. *)
LEMMA PrefixType ==
    ASSUME NEW ms \in Histories, NEW keep \in Nat, NEW protected \in Int
    PROVE  PrefixOf(ms, keep, protected) \in Histories
BY PrefixBoundary, TakeType, Zenon

-----------------------------------------------------------------------------
(* The compaction state between two handlers: a running task or an adopted result
   has the prefix it was made of, and there is never both a task and a result. *)
Fits(c) ==
    /\ c \in Compactions
    /\ c.task # 0 => c.prefix \in Histories /\ c.result = Nil
    /\ c.result # Nil /\ c.result.ok =>
          /\ c.prefix \in Histories
          /\ c.prefix = <<>> => c.result.messages = <<>>

(* Replacing one field of a compaction state. *)
LEMMA WithTask ==
    ASSUME NEW c \in Compactions, NEW v \in Nat,
           NEW d, d = [c EXCEPT !.task = v]
    PROVE  /\ d \in Compactions /\ d.task = v /\ d.prefix = c.prefix /\ d.result = c.result
           /\ d.waiter = c.waiter /\ d.attempted = c.attempted /\ d.usage = c.usage
BY SMT DEF Compactions

(* Replacing the prefix of a compaction state changes nothing else. *)
LEMMA WithPrefix ==
    ASSUME NEW c \in Compactions, NEW v \in Histories \cup {Nil},
           NEW d, d = [c EXCEPT !.prefix = v]
    PROVE  /\ d \in Compactions /\ d.task = c.task /\ d.prefix = v /\ d.result = c.result
           /\ d.waiter = c.waiter /\ d.attempted = c.attempted /\ d.usage = c.usage
BY SMT DEF Compactions

(* Replacing the result of a compaction state changes nothing else. *)
LEMMA WithResult ==
    ASSUME NEW c \in Compactions, NEW v \in Results \cup {Nil},
           NEW d, d = [c EXCEPT !.result = v]
    PROVE  /\ d \in Compactions /\ d.task = c.task /\ d.prefix = c.prefix /\ d.result = v
           /\ d.waiter = c.waiter /\ d.attempted = c.attempted /\ d.usage = c.usage
BY SMT DEF Compactions

(* Replacing the waiter of a compaction state changes nothing else. *)
LEMMA WithWaiter ==
    ASSUME NEW c \in Compactions, NEW v \in Waiters \cup {Nil},
           NEW d, d = [c EXCEPT !.waiter = v]
    PROVE  /\ d \in Compactions /\ d.task = c.task /\ d.prefix = c.prefix /\ d.result = c.result
           /\ d.waiter = v /\ d.attempted = c.attempted /\ d.usage = c.usage
BY SMT DEF Compactions

(* Replacing the last attempted prefix changes nothing else. *)
LEMMA WithAttempted ==
    ASSUME NEW c \in Compactions, NEW v \in Histories \cup {Nil},
           NEW d, d = [c EXCEPT !.attempted = v]
    PROVE  /\ d \in Compactions /\ d.task = c.task /\ d.prefix = c.prefix /\ d.result = c.result
           /\ d.waiter = c.waiter /\ d.attempted = v /\ d.usage = c.usage
BY SMT DEF Compactions

(* Replacing the reported usage changes nothing else. *)
LEMMA WithUsage ==
    ASSUME NEW c \in Compactions, NEW v \in Usages \cup {Nil},
           NEW d, d = [c EXCEPT !.usage = v]
    PROVE  /\ d \in Compactions /\ d.task = c.task /\ d.prefix = c.prefix /\ d.result = c.result
           /\ d.waiter = c.waiter /\ d.attempted = c.attempted /\ d.usage = v
BY SMT DEF Compactions

(* take_result leaves a history, the task and the waiter alone, and no result. *)
LEMMA TakeResultType ==
    ASSUME NEW c, Fits(c), NEW ms \in Histories
    PROVE  LET r == TakeResult(c, ms)
           IN  /\ Fits(r.c) /\ r.c.result = Nil
               /\ r.c.task = c.task /\ r.c.waiter = c.waiter
               /\ r.messages \in Histories
<1> DEFINE updated == IF c.result.ok /\ IsPrefix(c.prefix, ms)
                      THEN c.result.messages \o Drop(ms, Len(c.prefix))
                      ELSE ms
<1>1. CASE c.result = Nil
  <2>1. TakeResult(c, ms) = [c |-> c, messages |-> ms, error |-> Nil]
    BY <1>1, Zenon DEF TakeResult
  <2> QED BY <2>1, <1>1
<1>2. CASE c.result # Nil
  <2>1. c.result \in Results /\ c.task = 0
    BY <1>2, SMT DEF Fits, Compactions
  <2>2. updated \in Histories
    <3>1. CASE c.result.ok /\ IsPrefix(c.prefix, ms)
      <4>1. c.prefix \in Histories /\ Len(c.prefix) \in Nat /\ Len(c.prefix) <= Len(ms)
        BY <3>1, <1>2, HistoryIsSeq DEF Fits, IsPrefix
      <4>2. c.result.messages \in Histories
        BY <2>1, SMT DEF Results
      <4>3. CASE c.prefix = <<>>
        <5>1. c.result.messages = <<>> /\ Len(c.prefix) = 0
          BY <4>3, <3>1, <1>2 DEF Fits
        <5>2. Drop(ms, 0) = ms
          BY HistoryIsSeq, SubSeqFull, SMT DEF Drop
        <5>3. <<>> \o ms = ms
          BY HistoryIsSeq, ConcatEmptySeq
        <5> QED BY <5>1, <5>2, <5>3, <3>1
      <4>4. CASE c.prefix # <<>>
        <5>1. Len(c.prefix) \in 1..Len(ms)
          BY <4>1, <4>4, HistoryIsSeq, EmptySeq
        <5> QED BY <5>1, <4>2, <3>1, DropType, ConcatType
      <4> QED BY <4>3, <4>4
    <3>2. CASE ~(c.result.ok /\ IsPrefix(c.prefix, ms))
      BY <3>2
    <3> QED BY <3>1, <3>2
  <2> HIDE DEF updated
  <2> DEFINE d == [c EXCEPT !.prefix = Nil, !.result = Nil,
                            !.usage = IF c.result.ok /\ updated # ms THEN Nil ELSE @]
  <2>3. TakeResult(c, ms) = [c |-> d, messages |-> updated, error |-> c.result.reason]
    BY <1>2, Zenon DEF TakeResult, updated
  <2>4. /\ d \in Compactions /\ d.result = Nil
        /\ d.task = c.task /\ d.waiter = c.waiter
    <3> DEFINE u == IF c.result.ok /\ updated # ms THEN Nil ELSE c.usage
    <3>1. c \in Compactions
      BY DEF Fits
    <3>2. u \in Usages \cup {Nil}
      BY <3>1, SMT DEF Compactions
    <3> DEFINE c1 == [c EXCEPT !.prefix = Nil]
               c2 == [c1 EXCEPT !.result = Nil]
    <3>3. d = [c2 EXCEPT !.usage = u]
      OBVIOUS
    <3> HIDE DEF u, d
    <3>4. c1 \in Compactions /\ c1.task = c.task /\ c1.waiter = c.waiter
      BY <3>1, WithPrefix
    <3> HIDE DEF c1
    <3>5. /\ c2 \in Compactions /\ c2.result = Nil
          /\ c2.task = c.task /\ c2.waiter = c.waiter
      BY <3>4, WithResult
    <3> HIDE DEF c2
    <3> QED BY <3>2, <3>3, <3>5, WithUsage
  <2>5. Fits(d)
    BY <2>4, <2>1 DEF Fits
  <2> HIDE DEF d
  <2> QED BY <2>2, <2>3, <2>4, <2>5
<1> QED BY <1>1, <1>2

(* cancel forgets the task and its result and keeps the waiter. *)
LEMMA CancelType ==
    ASSUME NEW c, c \in Compactions, NEW d, d = CancelCompaction(c)
    PROVE  Fits(d) /\ d.task = 0 /\ d.result = Nil /\ d.waiter = c.waiter
<1> DEFINE c1 == [c EXCEPT !.task = 0]
           c2 == [c1 EXCEPT !.prefix = Nil]
<1>1. d = [c2 EXCEPT !.result = Nil]
  BY DEF CancelCompaction
<1>2. c1 \in Compactions /\ c1.task = 0 /\ c1.waiter = c.waiter
  BY WithTask
<1> HIDE DEF c1
<1>3. c2 \in Compactions /\ c2.task = 0 /\ c2.waiter = c.waiter
  BY <1>2, WithPrefix
<1> HIDE DEF c2
<1>4. d \in Compactions /\ d.task = 0 /\ d.result = Nil /\ d.waiter = c.waiter
  BY <1>1, <1>3, WithResult
<1> QED BY <1>4 DEF Fits

(* start runs one task, for the prefix it was given. *)
LEMMA StartType ==
    ASSUME NEW c, c \in Compactions, NEW ref \in Nat \ {0}, NEW prefix \in Histories,
           NEW d, d = StartCompaction(c, ref, prefix)
    PROVE  Fits(d) /\ d.task = ref /\ d.waiter = c.waiter
<1> DEFINE c0 == CancelCompaction(c)
           c1 == [c0 EXCEPT !.task = ref]
           c2 == [c1 EXCEPT !.prefix = prefix]
<1>1. d = [c2 EXCEPT !.attempted = prefix]
  BY DEF StartCompaction
<1>2. c0 \in Compactions /\ c0.waiter = c.waiter /\ c0.result = Nil
  BY CancelType DEF Fits
<1> HIDE DEF c0
<1>3. c1 \in Compactions /\ c1.task = ref /\ c1.waiter = c.waiter /\ c1.result = Nil
  BY <1>2, WithTask
<1> HIDE DEF c1
<1>4. /\ c2 \in Compactions /\ c2.task = ref /\ c2.waiter = c.waiter /\ c2.result = Nil
      /\ c2.prefix = prefix
  BY <1>3, WithPrefix
<1> HIDE DEF c2
<1>5. /\ d \in Compactions /\ d.task = ref /\ d.waiter = c.waiter /\ d.result = Nil
      /\ d.prefix = prefix
  BY <1>1, <1>4, WithAttempted
<1> QED BY <1>5 DEF Fits

(* maybe_background starts a task with a new reference or changes no task. *)
LEMMA BackgroundType ==
    ASSUME NEW c, Fits(c), NEW ref \in Nat \ {0},
           NEW ms \in Histories, NEW protected \in Int
    PROVE  LET d == Background(c, ref, ms, protected)
           IN  Fits(d) /\ d.task \in {c.task, ref} /\ d.waiter = c.waiter
<1> DEFINE prefix == PrefixOf(ms, KeepRecent, protected)
<1>1. prefix \in Histories
  BY PrefixType, PolicyAssumption
<1>2. \/ Background(c, ref, ms, protected) = StartCompaction(c, ref, prefix)
      \/ Background(c, ref, ms, protected) = c
  BY Zenon DEF Background
<1> HIDE DEF prefix
<1>3. c \in Compactions
  BY DEF Fits
<1> QED
  BY <1>1, <1>2, <1>3, StartType

(* What a checkpoint decides: a caller is kept waiting only for a running task, and
   only in the phases that a finishing task will resume. *)
Decided(r, c, ref, from) ==
    /\ Fits(r.c) /\ r.messages \in Histories
    /\ r.c.task \in {c.task, ref}
    /\ r.tag \in {"continue", "wait", "error"}
    /\ r.tag = "wait" =>
          /\ r.c.task # 0
          /\ r.c.waiter \in Waiters /\ r.c.waiter.from = from
          /\ r.c.waiter.phase \in {"background", "fallback"}
    /\ r.tag # "wait" => r.c.waiter = c.waiter

(* A decision that holds nobody is sound whatever its tag. *)
LEMMA DecidedWithout ==
    ASSUME NEW r, NEW c, NEW d, NEW ms \in Histories, NEW ref, NEW from, NEW tag, NEW error,
           r = [tag |-> tag, error |-> error, c |-> d, messages |-> ms],
           tag \in {"continue", "error"},
           Fits(d), d.task \in {c.task, ref}, d.waiter = c.waiter
    PROVE  Decided(r, c, ref, from) /\ r.tag # "wait"
<1>1. r.tag = tag /\ r.c = d /\ r.messages = ms
  OBVIOUS
<1>2. r.tag # "wait" /\ r.tag \in {"continue", "wait", "error"}
  BY <1>1
<1> QED BY <1>1, <1>2 DEF Decided

(* A decision to wait holds the caller for the task that runs. *)
LEMMA DecidedWait ==
    ASSUME NEW r, NEW c, NEW d, Fits(d), NEW ms \in Histories, NEW ref, NEW from \in Prompts,
           NEW phase \in {"background", "fallback"},
           r = [tag |-> "wait", error |-> Nil, messages |-> ms,
                c |-> [d EXCEPT !.waiter = [from |-> from, phase |-> phase]]],
           d.task \in {c.task, ref}, d.task # 0
    PROVE  Decided(r, c, ref, from)
<1> DEFINE w == [from |-> from, phase |-> phase]
           e == [d EXCEPT !.waiter = w]
<1>1. w \in Waiters /\ w.from = from /\ w.phase \in {"background", "fallback"}
  BY SMT DEF Waiters
<1> HIDE DEF w
<1>2. /\ e \in Compactions /\ e.waiter = w
      /\ e.task = d.task /\ e.prefix = d.prefix /\ e.result = d.result
  BY <1>1, WithWaiter DEF Fits
<1>3. r.tag = "wait" /\ r.c = e /\ r.messages = ms
  BY DEF w
<1> HIDE DEF e
<1>4. Fits(e)
  BY <1>2 DEF Fits
<1> QED BY <1>1, <1>2, <1>3, <1>4 DEF Decided

(* The blocking part of a checkpoint decides soundly. *)
LEMMA BlockType ==
    ASSUME NEW c, Fits(c), NEW ref \in Nat \ {0}, NEW ms \in Histories,
           NEW from \in Prompts, NEW phase \in {"background", "fallback"},
           NEW protected \in Int
    PROVE  Decided(Block(c, ref, ms, from, phase, protected), c, ref, from)
<1> DEFINE prefix == PrefixOf(ms, 0, protected)
           d == StartCompaction(c, ref, prefix)
           r == Block(c, ref, ms, from, phase, protected)
<1>1. prefix \in Histories
  BY PrefixType
<1>2. c \in Compactions
  BY DEF Fits
<1>3. Fits(d) /\ d.task = ref
  <2> HIDE DEF prefix
  <2> QED BY <1>1, <1>2, StartType
<1>4. \/ /\ c.task # 0
         /\ r = [tag |-> "wait", error |-> Nil, messages |-> ms,
                 c |-> [c EXCEPT !.waiter = [from |-> from, phase |-> "background"]]]
      \/ r = [tag |-> "wait", error |-> Nil, messages |-> ms,
              c |-> [d EXCEPT !.waiter = [from |-> from, phase |-> "fallback"]]]
      \/ r = [tag |-> "error", error |-> "context_limit", c |-> c, messages |-> ms]
  BY Zenon DEF Block
<1> HIDE DEF r, d
<1>5. Decided(r, c, ref, from)
  BY <1>3, <1>4, DecidedWait, DecidedWithout
<1> QED BY <1>5 DEF r

(* checkpoint decides soundly in every phase, and a manual compaction never waits twice. *)
LEMMA CheckpointType ==
    ASSUME NEW c, Fits(c), NEW ref \in Nat \ {0}, NEW ms \in Histories,
           NEW from, NEW phase \in {"manual", "background", "fallback"},
           phase # "manual" => from \in Prompts,
           NEW protected \in Int
    PROVE  /\ Decided(Checkpoint(c, ref, ms, from, phase, protected), c, ref, from)
           /\ phase = "manual" =>
                 Checkpoint(c, ref, ms, from, phase, protected).tag # "wait"
<1> DEFINE taken == TakeResult(c, ms)
           tc == taken.c
           tm == taken.messages
           r == Checkpoint(c, ref, ms, from, phase, protected)
           next == Background(tc, ref, tm, protected)
           held == Block(tc, ref, tm, from, phase, protected)
<1>1. Fits(tc) /\ tc.task = c.task /\ tc.waiter = c.waiter /\ tm \in Histories
  BY TakeResultType
<1>4. \/ r = [tag |-> "error", error |-> taken.error, c |-> tc, messages |-> tm]
      \/ r = [tag |-> "continue", error |-> Nil, c |-> tc, messages |-> tm]
      \/ phase # "manual" /\ r = held
      \/ r = [tag |-> "continue", error |-> Nil, c |-> next, messages |-> tm]
  BY Zenon DEF Checkpoint
<1> HIDE DEF tc, tm, taken
<1>2. Fits(next) /\ next.task \in {c.task, ref} /\ next.waiter = c.waiter
  BY <1>1, BackgroundType
<1>3. ASSUME phase # "manual" PROVE Decided(held, c, ref, from)
  <2>1. phase \in {"background", "fallback"}
    BY <1>3
  <2>2. Decided(held, tc, ref, from)
    BY <1>1, <2>1, <1>3, BlockType
  <2> QED BY <2>2, <1>1 DEF Decided
<1> HIDE DEF next, held, r
<1>5. Decided(r, c, ref, from) /\ (phase = "manual" => r.tag # "wait")
  BY <1>1, <1>2, <1>3, <1>4, DecidedWithout
<1> QED BY <1>5 DEF r

-----------------------------------------------------------------------------
(* Records, field by field. *)

(* Replacing streaming of a turn changes nothing else. *)
LEMMA TurnStreaming ==
    ASSUME NEW t \in Turns, NEW v \in BOOLEAN,
           NEW d, d = [t EXCEPT !.streaming = v]
    PROVE  /\ d \in Turns /\ d.streaming = v /\ d.abort_ref = t.abort_ref /\ d.recipient = t.recipient
           /\ d.worker = t.worker /\ d.prompt_index = t.prompt_index /\ d.steering = t.steering
           /\ d.follow_up = t.follow_up /\ d.subscribers = t.subscribers
BY SMT DEF Turns

(* Replacing abort_ref of a turn changes nothing else. *)
LEMMA TurnAbortRef ==
    ASSUME NEW t \in Turns, NEW v \in Nat,
           NEW d, d = [t EXCEPT !.abort_ref = v]
    PROVE  /\ d \in Turns /\ d.streaming = t.streaming /\ d.abort_ref = v /\ d.recipient = t.recipient
           /\ d.worker = t.worker /\ d.prompt_index = t.prompt_index /\ d.steering = t.steering
           /\ d.follow_up = t.follow_up /\ d.subscribers = t.subscribers
BY SMT DEF Turns

(* Replacing recipient of a turn changes nothing else. *)
LEMMA TurnRecipient ==
    ASSUME NEW t \in Turns, NEW v \in Prompts \cup {Nil},
           NEW d, d = [t EXCEPT !.recipient = v]
    PROVE  /\ d \in Turns /\ d.streaming = t.streaming /\ d.abort_ref = t.abort_ref /\ d.recipient = v
           /\ d.worker = t.worker /\ d.prompt_index = t.prompt_index /\ d.steering = t.steering
           /\ d.follow_up = t.follow_up /\ d.subscribers = t.subscribers
BY SMT DEF Turns

(* Replacing worker of a turn changes nothing else. *)
LEMMA TurnWorker ==
    ASSUME NEW t \in Turns, NEW v \in Prompts \cup {Nil},
           NEW d, d = [t EXCEPT !.worker = v]
    PROVE  /\ d \in Turns /\ d.streaming = t.streaming /\ d.abort_ref = t.abort_ref /\ d.recipient = t.recipient
           /\ d.worker = v /\ d.prompt_index = t.prompt_index /\ d.steering = t.steering
           /\ d.follow_up = t.follow_up /\ d.subscribers = t.subscribers
BY SMT DEF Turns

(* Replacing prompt_index of a turn changes nothing else. *)
LEMMA TurnPromptIndex ==
    ASSUME NEW t \in Turns, NEW v \in Int \cup {Nil},
           NEW d, d = [t EXCEPT !.prompt_index = v]
    PROVE  /\ d \in Turns /\ d.streaming = t.streaming /\ d.abort_ref = t.abort_ref /\ d.recipient = t.recipient
           /\ d.worker = t.worker /\ d.prompt_index = v /\ d.steering = t.steering /\ d.follow_up = t.follow_up
           /\ d.subscribers = t.subscribers
BY SMT DEF Turns

(* Replacing steering of a turn changes nothing else. *)
LEMMA TurnSteering ==
    ASSUME NEW t \in Turns, NEW v \in Queued,
           NEW d, d = [t EXCEPT !.steering = v]
    PROVE  /\ d \in Turns /\ d.streaming = t.streaming /\ d.abort_ref = t.abort_ref /\ d.recipient = t.recipient
           /\ d.worker = t.worker /\ d.prompt_index = t.prompt_index /\ d.steering = v
           /\ d.follow_up = t.follow_up /\ d.subscribers = t.subscribers
BY SMT DEF Turns

(* Replacing follow_up of a turn changes nothing else. *)
LEMMA TurnFollowUp ==
    ASSUME NEW t \in Turns, NEW v \in Queued,
           NEW d, d = [t EXCEPT !.follow_up = v]
    PROVE  /\ d \in Turns /\ d.streaming = t.streaming /\ d.abort_ref = t.abort_ref /\ d.recipient = t.recipient
           /\ d.worker = t.worker /\ d.prompt_index = t.prompt_index /\ d.steering = t.steering
           /\ d.follow_up = v /\ d.subscribers = t.subscribers
BY SMT DEF Turns

(* Replacing subscribers of a turn changes nothing else. *)
LEMMA TurnSubscribers ==
    ASSUME NEW t \in Turns, NEW v \in Listeners,
           NEW d, d = [t EXCEPT !.subscribers = v]
    PROVE  /\ d \in Turns /\ d.streaming = t.streaming /\ d.abort_ref = t.abort_ref /\ d.recipient = t.recipient
           /\ d.worker = t.worker /\ d.prompt_index = t.prompt_index /\ d.steering = t.steering
           /\ d.follow_up = t.follow_up /\ d.subscribers = v
BY SMT DEF Turns

(* Replacing pc of a worker's state changes nothing else. *)
LEMMA WorkerPc ==
    ASSUME NEW w \in Workers, NEW v \in PCs,
           NEW d, d = [w EXCEPT !.pc = v]
    PROVE  /\ d \in Workers /\ d.pc = v /\ d.kind = w.kind /\ d.ref = w.ref /\ d.base = w.base
           /\ d.msgs = w.msgs /\ d.round = w.round /\ d.attempt = w.attempt /\ d.emitted = w.emitted
           /\ d.reply = w.reply /\ d.tool = w.tool /\ d.woken = w.woken
BY SMT DEF Workers

(* Replacing kind of a worker's state changes nothing else. *)
LEMMA WorkerKind ==
    ASSUME NEW w \in Workers, NEW v \in {"run", "stream"},
           NEW d, d = [w EXCEPT !.kind = v]
    PROVE  /\ d \in Workers /\ d.pc = w.pc /\ d.kind = v /\ d.ref = w.ref /\ d.base = w.base
           /\ d.msgs = w.msgs /\ d.round = w.round /\ d.attempt = w.attempt /\ d.emitted = w.emitted
           /\ d.reply = w.reply /\ d.tool = w.tool /\ d.woken = w.woken
BY SMT DEF Workers

(* Replacing ref of a worker's state changes nothing else. *)
LEMMA WorkerRef ==
    ASSUME NEW w \in Workers, NEW v \in Nat,
           NEW d, d = [w EXCEPT !.ref = v]
    PROVE  /\ d \in Workers /\ d.pc = w.pc /\ d.kind = w.kind /\ d.ref = v /\ d.base = w.base
           /\ d.msgs = w.msgs /\ d.round = w.round /\ d.attempt = w.attempt /\ d.emitted = w.emitted
           /\ d.reply = w.reply /\ d.tool = w.tool /\ d.woken = w.woken
BY SMT DEF Workers

(* Replacing base of a worker's state changes nothing else. *)
LEMMA WorkerBase ==
    ASSUME NEW w \in Workers, NEW v \in Histories,
           NEW d, d = [w EXCEPT !.base = v]
    PROVE  /\ d \in Workers /\ d.pc = w.pc /\ d.kind = w.kind /\ d.ref = w.ref /\ d.base = v
           /\ d.msgs = w.msgs /\ d.round = w.round /\ d.attempt = w.attempt /\ d.emitted = w.emitted
           /\ d.reply = w.reply /\ d.tool = w.tool /\ d.woken = w.woken
BY SMT DEF Workers

(* Replacing msgs of a worker's state changes nothing else. *)
LEMMA WorkerMsgs ==
    ASSUME NEW w \in Workers, NEW v \in Histories,
           NEW d, d = [w EXCEPT !.msgs = v]
    PROVE  /\ d \in Workers /\ d.pc = w.pc /\ d.kind = w.kind /\ d.ref = w.ref /\ d.base = w.base
           /\ d.msgs = v /\ d.round = w.round /\ d.attempt = w.attempt /\ d.emitted = w.emitted
           /\ d.reply = w.reply /\ d.tool = w.tool /\ d.woken = w.woken
BY SMT DEF Workers

(* Replacing round of a worker's state changes nothing else. *)
LEMMA WorkerRound ==
    ASSUME NEW w \in Workers, NEW v \in Nat,
           NEW d, d = [w EXCEPT !.round = v]
    PROVE  /\ d \in Workers /\ d.pc = w.pc /\ d.kind = w.kind /\ d.ref = w.ref /\ d.base = w.base
           /\ d.msgs = w.msgs /\ d.round = v /\ d.attempt = w.attempt /\ d.emitted = w.emitted
           /\ d.reply = w.reply /\ d.tool = w.tool /\ d.woken = w.woken
BY SMT DEF Workers

(* Replacing attempt of a worker's state changes nothing else. *)
LEMMA WorkerAttempt ==
    ASSUME NEW w \in Workers, NEW v \in Nat,
           NEW d, d = [w EXCEPT !.attempt = v]
    PROVE  /\ d \in Workers /\ d.pc = w.pc /\ d.kind = w.kind /\ d.ref = w.ref /\ d.base = w.base
           /\ d.msgs = w.msgs /\ d.round = w.round /\ d.attempt = v /\ d.emitted = w.emitted
           /\ d.reply = w.reply /\ d.tool = w.tool /\ d.woken = w.woken
BY SMT DEF Workers

(* Replacing emitted of a worker's state changes nothing else. *)
LEMMA WorkerEmitted ==
    ASSUME NEW w \in Workers, NEW v \in BOOLEAN,
           NEW d, d = [w EXCEPT !.emitted = v]
    PROVE  /\ d \in Workers /\ d.pc = w.pc /\ d.kind = w.kind /\ d.ref = w.ref /\ d.base = w.base
           /\ d.msgs = w.msgs /\ d.round = w.round /\ d.attempt = w.attempt /\ d.emitted = v
           /\ d.reply = w.reply /\ d.tool = w.tool /\ d.woken = w.woken
BY SMT DEF Workers

(* Replacing reply of a worker's state changes nothing else. *)
LEMMA WorkerReply ==
    ASSUME NEW w \in Workers, NEW v \in {Nil, "assistant", "calls"},
           NEW d, d = [w EXCEPT !.reply = v]
    PROVE  /\ d \in Workers /\ d.pc = w.pc /\ d.kind = w.kind /\ d.ref = w.ref /\ d.base = w.base
           /\ d.msgs = w.msgs /\ d.round = w.round /\ d.attempt = w.attempt /\ d.emitted = w.emitted
           /\ d.reply = v /\ d.tool = w.tool /\ d.woken = w.woken
BY SMT DEF Workers

(* Replacing tool of a worker's state changes nothing else. *)
LEMMA WorkerTool ==
    ASSUME NEW w \in Workers, NEW v \in ToolStates,
           NEW d, d = [w EXCEPT !.tool = v]
    PROVE  /\ d \in Workers /\ d.pc = w.pc /\ d.kind = w.kind /\ d.ref = w.ref /\ d.base = w.base
           /\ d.msgs = w.msgs /\ d.round = w.round /\ d.attempt = w.attempt /\ d.emitted = w.emitted
           /\ d.reply = w.reply /\ d.tool = v /\ d.woken = w.woken
BY SMT DEF Workers

(* Replacing woken of a worker's state changes nothing else. *)
LEMMA WorkerWoken ==
    ASSUME NEW w \in Workers, NEW v \in BOOLEAN,
           NEW d, d = [w EXCEPT !.woken = v]
    PROVE  /\ d \in Workers /\ d.pc = w.pc /\ d.kind = w.kind /\ d.ref = w.ref /\ d.base = w.base
           /\ d.msgs = w.msgs /\ d.round = w.round /\ d.attempt = w.attempt /\ d.emitted = w.emitted
           /\ d.reply = w.reply /\ d.tool = w.tool /\ d.woken = v
BY SMT DEF Workers

-----------------------------------------------------------------------------
(* The messages a worker has sent: its completion, or a call it is held in, is
   always the last one. *)

Plain(s) == s \in Seq(Wires) /\ \A i \in 1..Len(s) : s[i].type \in {"event", "usage"}

Queue(s, pc) ==
    /\ s \in Seq(Wires)
    /\ \A i \in 1..Len(s) :
          /\ s[i].type = "complete" => i = Len(s) /\ pc = "done"
          /\ s[i].type = "call" => i = Len(s) /\ pc \in Asks

(* The four kinds of message. *)
LEMMA WireTypes ==
    /\ \A ev \in StreamEvents : Event(ev) \in Wires /\ Event(ev).type = "event"
    /\ \A ok \in BOOLEAN : Complete(ok) \in Wires /\ Complete(ok).type = "complete"
    /\ Asking \in Wires /\ Asking.type = "call"
    /\ \A ms \in Histories, skew \in Nat :
          Usage(ms, skew) \in Wires /\ Usage(ms, skew).type = "usage"
<1>1. \A ev \in StreamEvents : Event(ev) \in Wires /\ Event(ev).type = "event"
  BY SMT DEF Event, Wires
<1>2. \A ok \in BOOLEAN : Complete(ok) \in Wires /\ Complete(ok).type = "complete"
  BY SMT DEF Complete, Wires
<1>3. Asking \in Wires /\ Asking.type = "call"
  BY SMT DEF Asking, Wires
<1>4. ASSUME NEW ms \in Histories, NEW skew \in Nat
      PROVE  Usage(ms, skew) \in Wires /\ Usage(ms, skew).type = "usage"
  <2> DEFINE u == [tokens |-> Len(ms) + skew, messages |-> ms]
  <2>1. Len(ms) + skew \in Nat
    BY HistoryIsSeq
  <2>2. u \in Usages
    BY <2>1, SMT DEF Usages
  <2>3. Usage(ms, skew) = [type |-> "usage", arg |-> u]
    BY DEF Usage
  <2> HIDE DEF u
  <2> QED BY <2>2, <2>3, SMT DEF Wires
<1> QED BY <1>1, <1>2, <1>3, <1>4

(* What a message carries, by its type. *)
LEMMA WireArgs ==
    ASSUME NEW m \in Wires
    PROVE  /\ m.type \in {"event", "complete", "usage", "call"}
           /\ m.type = "event" => m.arg \in StreamEvents
           /\ m.type = "complete" => m.arg \in BOOLEAN
           /\ m.type = "usage" => m.arg \in Usages
BY SMT DEF Wires

(* Building a queue: plain messages first, then at most one that ends it. *)
LEMMA PlainConcat ==
    ASSUME NEW s, NEW t, Plain(s), Plain(t)
    PROVE  Plain(s \o t)
<1>1. /\ s \o t \in Seq(Wires)
      /\ Len(s \o t) = Len(s) + Len(t)
      /\ \A i \in 1..Len(s) + Len(t) :
            (s \o t)[i] = IF i <= Len(s) THEN s[i] ELSE t[i - Len(s)]
  BY ConcatProperties DEF Plain
<1>2. Len(s) \in Nat /\ Len(t) \in Nat
  BY LenProperties DEF Plain
<1>3. ASSUME NEW i \in 1..Len(s) + Len(t)
      PROVE  (s \o t)[i].type \in {"event", "usage"}
  <2>1. CASE i <= Len(s)
    BY <1>1, <1>2, <2>1 DEF Plain
  <2>2. CASE ~(i <= Len(s))
    <3>1. i - Len(s) \in 1..Len(t)
      BY <1>2, <2>2
    <3> QED BY <1>1, <1>2, <2>2, <3>1 DEF Plain
  <2> QED BY <2>1, <2>2
<1> QED BY <1>1, <1>3 DEF Plain

(* One more cast keeps a list free of calls. *)
LEMMA PlainAppend ==
    ASSUME NEW s, Plain(s), NEW m \in Wires
    PROVE  /\ m.type \in {"event", "usage"} => Plain(Append(s, m))
           /\ m.type = "complete" => Queue(Append(s, m), "done")
           /\ \A pc \in Asks : m.type = "call" => Queue(Append(s, m), pc)
<1>1. /\ Append(s, m) \in Seq(Wires)
      /\ Len(Append(s, m)) = Len(s) + 1
      /\ \A i \in 1..Len(s) : Append(s, m)[i] = s[i]
      /\ Append(s, m)[Len(s) + 1] = m
  BY AppendProperties DEF Plain
<1>2. Len(s) \in Nat
  BY LenProperties DEF Plain
<1> DEFINE a == Append(s, m)
<1> HIDE DEF a
<1>3. /\ a \in Seq(Wires) /\ Len(a) = Len(s) + 1 /\ a[Len(s) + 1] = m
      /\ \A i \in 1..Len(s) : a[i].type \in {"event", "usage"}
  BY <1>1 DEF Plain, a
<1>4. ASSUME NEW i \in 1..Len(a)
      PROVE  i = Len(a) \/ a[i].type \in {"event", "usage"}
  BY <1>2, <1>3
<1>5. a[Len(a)] = m
  BY <1>3
<1>6. m.type \in {"event", "usage"} => Plain(a)
  BY <1>3, <1>4, <1>5 DEF Plain
<1>7. m.type = "complete" => Queue(a, "done")
  BY <1>3, <1>4, <1>5 DEF Queue
<1>8. ASSUME NEW pc \in Asks, m.type = "call"
      PROVE  Queue(a, pc)
  BY <1>3, <1>4, <1>5, <1>8 DEF Queue
<1> QED BY <1>6, <1>7, <1>8 DEF a

(* Nothing sent is no call sent. *)
LEMMA PlainEmpty == Plain(<<>>)
BY SMT DEF Plain

(* Casts alone are a proper queue, and the only one of a worker that asks nothing. *)
LEMMA PlainQueue ==
    ASSUME NEW s, NEW pc
    PROVE  /\ Plain(s) => Queue(s, pc)
           /\ Queue(s, pc) /\ pc # "done" /\ pc \notin Asks => Plain(s)
<1>1. Plain(s) => Queue(s, pc)
  BY DEF Plain, Queue
<1>2. ASSUME Queue(s, pc), pc # "done", pc \notin Asks PROVE Plain(s)
  <2>1. ASSUME NEW i \in 1..Len(s) PROVE s[i].type \in {"event", "usage"}
    <3>1. s[i] \in Wires
      BY <1>2, ElementOfSeq DEF Queue
    <3> QED BY <1>2, <3>1, WireArgs DEF Queue
  <2> QED BY <1>2, <2>1 DEF Plain, Queue
<1> QED BY <1>1, <1>2

(* Handling the oldest message. *)
LEMMA QueueTail ==
    ASSUME NEW s, NEW pc, Queue(s, pc), s # <<>>
    PROVE  /\ Head(s) \in Wires
           /\ Queue(Tail(s), pc)
           /\ Head(s).type \in {"complete", "call"} => Tail(s) = <<>>
           /\ Head(s).type = "complete" => pc = "done"
           /\ Head(s).type = "call" => pc \in Asks
<1>1. s \in Seq(Wires) /\ Len(s) \in Nat \ {0}
  BY LenProperties, EmptySeq DEF Queue
<1>2. Head(s) = s[1] /\ s[1] \in Wires
  BY <1>1, HeadTailProperties, ElementOfSeq
<1>3. /\ Tail(s) \in Seq(Wires) /\ Len(Tail(s)) = Len(s) - 1
      /\ \A i \in 1..Len(Tail(s)) : Tail(s)[i] = s[i + 1]
  BY <1>1, HeadTailProperties
<1> DEFINE t == Tail(s)
<1> HIDE DEF t
<1>4. /\ t \in Seq(Wires) /\ Len(t) = Len(s) - 1
      /\ \A i \in 1..Len(t) : t[i] = s[i + 1]
  BY <1>3 DEF t
<1>5. Queue(t, pc)
  <2>1. ASSUME NEW i \in 1..Len(t)
        PROVE  /\ t[i].type = "complete" => i = Len(t) /\ pc = "done"
               /\ t[i].type = "call" => i = Len(t) /\ pc \in Asks
    <3>1. t[i] = s[i + 1]
      BY <1>4
    <3>2. i + 1 \in 1..Len(s) /\ (i + 1 = Len(s) => i = Len(t))
      BY <1>1, <1>4
    <3>3. /\ s[i + 1].type = "complete" => i + 1 = Len(s) /\ pc = "done"
          /\ s[i + 1].type = "call" => i + 1 = Len(s) /\ pc \in Asks
      BY <3>2 DEF Queue
    <3> QED BY <3>1, <3>2, <3>3
  <2> QED BY <1>4, <2>1 DEF Queue
<1>6. ASSUME Head(s).type \in {"complete", "call"}
      PROVE  t = <<>>
  <2>1. 1 \in 1..Len(s)
    BY <1>1
  <2>2. s[1].type = "complete" \/ s[1].type = "call"
    BY <1>2, <1>6
  <2>3. Len(t) = 0
    BY <1>1, <1>4, <2>1, <2>2 DEF Queue
  <2> QED BY <1>4, <2>3, EmptySeq
<1>7. /\ Head(s).type = "complete" => pc = "done"
      /\ Head(s).type = "call" => pc \in Asks
  BY <1>1, <1>2 DEF Queue
<1> QED BY <1>2, <1>5, <1>6, <1>7 DEF t

(* A proper queue may follow casts. *)
LEMMA QueueConcat ==
    ASSUME NEW s, NEW t, NEW pc, Plain(s), Queue(t, pc)
    PROVE  Queue(s \o t, pc)
<1>1. /\ s \o t \in Seq(Wires)
      /\ Len(s \o t) = Len(s) + Len(t)
      /\ \A i \in 1..Len(s) + Len(t) :
            (s \o t)[i] = IF i <= Len(s) THEN s[i] ELSE t[i - Len(s)]
  BY ConcatProperties DEF Plain, Queue
<1>2. Len(s) \in Nat /\ Len(t) \in Nat
  BY LenProperties DEF Plain, Queue
<1> DEFINE a == s \o t
<1>3. ASSUME NEW i \in 1..Len(s) + Len(t)
      PROVE  /\ a[i].type = "complete" => i = Len(s) + Len(t) /\ pc = "done"
             /\ a[i].type = "call" => i = Len(s) + Len(t) /\ pc \in Asks
  <2>1. CASE i <= Len(s)
    BY <1>1, <1>2, <2>1 DEF Plain
  <2>2. CASE ~(i <= Len(s))
    <3>1. i - Len(s) \in 1..Len(t) /\ a[i] = t[i - Len(s)]
      BY <1>1, <1>2, <2>2
    <3>2. i - Len(s) = Len(t) => i = Len(s) + Len(t)
      BY <1>2
    <3> HIDE DEF a
    <3> QED BY <3>1, <3>2 DEF Queue
  <2> QED BY <2>1, <2>2
<1> QED BY <1>1, <1>3 DEF Queue

-----------------------------------------------------------------------------
(* The inductive invariant. *)

(* References are fresh: no two workers share one, and none is ahead of the clock. *)
Refs ==
    /\ turn.abort_ref <= lastRef
    /\ \A p \in Prompts : wk[p].ref <= lastRef /\ (wk[p].pc = "none" <=> wk[p].ref = 0)
    /\ \A p, q \in Prompts : p # q /\ wk[p].ref = wk[q].ref => wk[p].ref = 0

Queues ==
    \A p \in Prompts : Queue(out[p], wk[p].pc) /\ (wk[p].pc = "none" => out[p] = <<>>)

(* The turn's reference is its recipient's; a worker whose reference is still the
   turn's but which is no longer the recipient has nothing left to say. *)
Owners ==
    \A p \in Prompts :
       /\ turn.recipient = p => wk[p].ref = turn.abort_ref /\ wk[p].ref # 0
       /\ wk[p].ref # 0 /\ wk[p].ref = turn.abort_ref /\ turn.recipient # p =>
             out[p] = <<>> /\ wk[p].pc = "done"

Calls ==
    \A p \in Prompts :
       /\ call[p] \in {"idle", "subscribed"} => wk[p].ref = 0
       /\ call[p] = "waiting" => turn.recipient = p

(* Whoever is held waits for a task that runs, and is where the session will
   look for it. *)
Waiting ==
    compaction.waiter # Nil =>
        /\ compaction.task # 0
        /\ compaction.waiter.phase = "manual" =>
              turn.recipient = Nil /\ compactCall = "waiting"
        /\ compaction.waiter.phase # "manual" =>
              /\ compaction.waiter.from \in Prompts
              /\ turn.recipient = compaction.waiter.from
              /\ wk[compaction.waiter.from].pc = "checkpoint"
              /\ out[compaction.waiter.from] = <<>>

(* A worker that has an answer to record has one. *)
Answered == \A p \in Prompts : wk[p].pc \in {"after", "answered"} => wk[p].reply \in {"assistant", "calls"}

IInv ==
    /\ TypeOK
    /\ Fits(compaction)
    /\ Refs
    /\ Queues
    /\ Owners
    /\ Calls
    /\ Waiting
    /\ Answered

(* One worker moves on and its queue changes, nothing else. *)
LEMMA WorkerKeeps ==
    ASSUME IInv, NEW p \in Prompts, NEW w \in Workers, NEW s,
           wk' = [wk EXCEPT ![p] = w], out' = [out EXCEPT ![p] = s],
           Queue(s, w.pc), w.ref = wk[p].ref, w.pc # "none",
           wk[p].pc \notin {"none", "done"},
           wk[p].pc = "checkpoint" => out[p] # <<>>,
           w.pc \in {"after", "answered"} => w.reply \in {"assistant", "calls"},
           UNCHANGED <<sessionVars, lastRef, fired, clientVars, compactCall, controls, cleared>>
    PROVE  IInv'
<1>0. /\ wk \in [Prompts -> Workers] /\ out \in [Prompts -> Seq(Wires)]
      /\ wk'[p] = w /\ out'[p] = s
      /\ \A q \in Prompts \ {p} : wk'[q] = wk[q] /\ out'[q] = out[q]
  BY DEF IInv, TypeOK, WorkerTypeOK
<1>1. TypeOK'
  <2>1. WorkerTypeOK'
    BY <1>0 DEF WorkerTypeOK, Queue
  <2>2. TurnTypeOK' /\ DataTypeOK' /\ ClientTypeOK'
    BY DEF IInv, TypeOK, TurnTypeOK, DataTypeOK, ClientTypeOK, sessionVars, clientVars
  <2> QED BY <2>1, <2>2 DEF TypeOK
<1>2. Fits(compaction)'
  BY DEF IInv, sessionVars
<1>3. Refs'
  BY <1>0 DEF IInv, Refs, sessionVars
<1>4. Queues'
  BY <1>0 DEF IInv, Queues
<1>5. Owners'
  BY <1>0 DEF IInv, Owners, Refs, sessionVars
<1>6. Calls'
  BY <1>0 DEF IInv, Calls, sessionVars, clientVars
<1>7. Waiting'
  BY <1>0 DEF IInv, Waiting, sessionVars
<1>8. Answered'
  BY <1>0 DEF IInv, Answered
<1> QED BY <1>1, <1>2, <1>3, <1>4, <1>5, <1>6, <1>7, <1>8 DEF IInv

(* A step of a worker that is not held in a call. *)
LEMMA StepKeeps ==
    ASSUME IInv, NEW p \in Prompts, NEW w \in Workers, NEW sends, Step(p, w, sends),
           wk[p].pc \notin Asks \cup {"none", "done"},
           w.ref = wk[p].ref, w.pc \in {"after", "answered"} => w.reply \in {"assistant", "calls"},
           w.pc # "none", Queue(sends, w.pc)
    PROVE  IInv'
<1> DEFINE s == out[p] \o sends
<1>1. Plain(out[p])
  BY PlainQueue DEF IInv, Queues
<1>2. Queue(s, w.pc)
  BY <1>1, QueueConcat
<1>3. out' = [out EXCEPT ![p] = s] /\ wk' = [wk EXCEPT ![p] = w]
  BY DEF Step
<1>4. wk[p].pc \notin {"none", "done", "checkpoint"}
  BY DEF Asks
<1> HIDE DEF s
<1> QED BY <1>2, <1>3, <1>4, WorkerKeeps DEF Step

(* What a worker sends: nothing or some events, for a run nothing at all. *)
LEMMA EmitsPlain ==
    ASSUME NEW p \in Prompts, NEW s, Plain(s)
    PROVE  Plain(Emits(p, s))
BY PlainEmpty, Zenon DEF Emits

(* One cast is a list free of calls. *)
LEMMA OnePlain ==
    ASSUME NEW m \in Wires, m.type \in {"event", "usage"}
    PROVE  Plain(<<m>>)
<1>1. Append(<<>>, m) = <<m>>
  BY SMT
<1> QED BY <1>1, PlainEmpty, PlainAppend

(* An event is a cast. *)
LEMMA EventPlain ==
    ASSUME NEW ev \in StreamEvents
    PROVE  Plain(<<Event(ev)>>)
BY WireTypes, OnePlain

(* Two casts are a list free of calls. *)
LEMMA TwoPlain ==
    ASSUME NEW m \in Wires, NEW n \in Wires,
           m.type \in {"event", "usage"}, n.type \in {"event", "usage"}
    PROVE  Plain(<<m, n>>)
<1>1. <<m, n>> \in Seq(Wires)
  BY SMT
<1> QED BY <1>1, SMT DEF Plain

(* Two events are two casts. *)
LEMMA TwoEventsPlain ==
    ASSUME NEW ev \in StreamEvents, NEW fv \in StreamEvents
    PROVE  Plain(<<Event(ev), Event(fv)>>)
BY WireTypes, TwoPlain

(* A synchronous call to the session. *)
LEMMA AskKeeps ==
    ASSUME IInv, NEW p \in Prompts, NEW w \in Workers, NEW pc \in Asks, NEW sends,
           Ask(p, w, pc, sends), Plain(sends),
           wk[p].pc \notin Asks \cup {"none", "done"}, w.ref = wk[p].ref,
           pc = "after" => w.reply \in {"assistant", "calls"}
    PROVE  IInv'
<1> DEFINE d == [w EXCEPT !.pc = pc]
           s == Append(sends, Asking)
<1>1. pc \in PCs /\ pc # "none" /\ pc # "answered"
  BY DEF Asks, PCs
<1>2. d \in Workers /\ d.ref = w.ref /\ d.pc = pc /\ d.reply = w.reply
  BY <1>1, WorkerPc
<1>3. Queue(s, pc)
  BY WireTypes, PlainAppend
<1>4. Step(p, d, s)
  BY DEF Ask
<1> HIDE DEF d, s
<1> QED BY <1>1, <1>2, <1>3, <1>4, StepKeeps

(* The completion cast. *)
LEMMA FinishKeeps ==
    ASSUME IInv, NEW p \in Prompts, NEW w \in Workers, NEW ok \in BOOLEAN, NEW events,
           Finish(p, w, ok, events), Plain(events),
           wk[p].pc \notin Asks \cup {"none", "done"}, w.ref = wk[p].ref
    PROVE  IInv'
<1> DEFINE d == [w EXCEPT !.pc = "done"]
           e == Emits(p, Append(events, Event("agent_end")))
           s == Append(e, Complete(ok))
<1>1. "done" \in PCs
  BY DEF PCs
<1>2. d \in Workers /\ d.ref = w.ref /\ d.pc = "done"
  BY <1>1, WorkerPc
<1>3. Plain(Append(events, Event("agent_end")))
  <2>1. "agent_end" \in StreamEvents
    BY DEF StreamEvents
  <2>2. Event("agent_end") \in Wires /\ Event("agent_end").type \in {"event", "usage"}
    BY <2>1, WireTypes
  <2> QED BY <2>2, PlainAppend
<1>4. Plain(e)
  BY <1>3, EmitsPlain
<1>5. Step(p, d, s)
  BY DEF Finish
<1> HIDE DEF d, e
<1>6. Queue(s, "done")
  BY <1>4, WireTypes, PlainAppend
<1> HIDE DEF s
<1> QED BY <1>2, <1>5, <1>6, StepKeeps

(* The messages a worker adds to its list. *)
LEMMA MsgType ==
    ASSUME NEW p \in Prompts, NEW n \in Nat, NEW role \in Roles
    PROVE  Msg(p, n, role) \in BaseMessages
BY SMT DEF Msg, BaseMessages

(* What a history stands for is a list of original messages. *)
LEMMA ExpandType ==
    ASSUME NEW ms \in Histories
    PROVE  Expand(ms) \in Seq(BaseMessages)
<1>1. CASE ms = <<>>
  BY <1>1, EmptySeq DEF Expand
<1>2. CASE ms # <<>>
  BY <1>2, ExpandOfNonEmpty
<1> QED BY <1>1, <1>2

(* The next place in a turn is a positive number. *)
LEMMA NextNType ==
    ASSUME NEW p \in Prompts, wk[p].msgs \in Histories
    PROVE  NextN(p) \in Nat \ {0}
<1> DEFINE e == Expand(wk[p].msgs)
           S == {i \in 1..Len(e) : e[i].turn = p}
<1>1. Len(e) \in Nat
  BY ExpandType, LenProperties
<1>2. IsFiniteSet(1..Len(e))
  BY <1>1, FS_Interval
<1>3. IsFiniteSet(S)
  <2>1. S \subseteq 1..Len(e)
    OBVIOUS
  <2> HIDE DEF S
  <2> QED BY <1>2, <2>1, FS_Subset
<1>4. NextN(p) = Cardinality(S) + 1
  BY DEF NextN
<1> HIDE DEF S
<1> QED BY <1>3, <1>4, FS_CardinalityType

-----------------------------------------------------------------------------
(* The steps of a worker and of its tools. *)

(* Every worker has the type of a worker, and its queue that of a queue. *)
LEMMA WorkerOf ==
    ASSUME IInv, NEW p \in Prompts
    PROVE  /\ wk[p] \in Workers /\ wk[p].msgs \in Histories /\ wk[p].base \in Histories
           /\ wk[p].pc \in PCs /\ wk[p].ref \in Nat /\ wk[p].kind \in {"run", "stream"}
           /\ wk[p].round \in Nat /\ wk[p].attempt \in Nat
           /\ wk[p].reply \in {Nil, "assistant", "calls"} /\ wk[p].tool \in ToolStates
<1>1. wk[p] \in Workers
  BY DEF IInv, TypeOK, WorkerTypeOK
<1> QED BY <1>1, SMT DEF Workers

(* A tool task that is admitted or refused, returns or hangs keeps the invariant. *)
LEMMA ProgressKeeps ==
    ASSUME IInv, NEW p \in Prompts, NEW t \in ToolIds,
           AdmitTool(p, t) \/ ToolReturns(p, t)
    PROVE  IInv'
<1> DEFINE S == {"idle", "asking", "running", "refused", "done", "hung"}
<1>0. wk[p] \in Workers /\ wk[p].tool \in [ToolIds -> S]
  BY WorkerOf DEF ToolStates
<1>1. ASSUME NEW how \in S, wk' = [wk EXCEPT ![p] = [wk[p] EXCEPT !.tool[t] = how]]
      PROVE  \E w \in Workers : /\ wk' = [wk EXCEPT ![p] = w]
                                /\ w.ref = wk[p].ref /\ w.pc = wk[p].pc
  <2> DEFINE v == [wk[p].tool EXCEPT ![t] = how]
             w == [wk[p] EXCEPT !.tool = v]
  <2>1. v \in ToolStates
    BY <1>0 DEF ToolStates
  <2>2. [wk[p] EXCEPT !.tool[t] = how] = w
    OBVIOUS
  <2> HIDE DEF v
  <2>3. w \in Workers /\ w.ref = wk[p].ref /\ w.pc = wk[p].pc
    BY <1>0, <2>1, WorkerTool
  <2> HIDE DEF w
  <2> QED BY <1>1, <2>2, <2>3
<1>2. /\ \E how \in S : wk' = [wk EXCEPT ![p] = [wk[p] EXCEPT !.tool[t] = how]]
      /\ wk[p].pc = "tools"
      /\ out' = [out EXCEPT ![p] = out[p]]
      /\ UNCHANGED <<sessionVars, lastRef, fired, clientVars, compactCall, controls, cleared>>
  <2>1. CASE AdmitTool(p, t)
    <3>1. out' = [out EXCEPT ![p] = out[p]]
      BY <2>1 DEF AdmitTool, IInv, TypeOK, WorkerTypeOK
    <3>2. \E how \in S : wk' = [wk EXCEPT ![p] = [wk[p] EXCEPT !.tool[t] = how]]
      BY <2>1, Zenon DEF AdmitTool
    <3> QED BY <2>1, <3>1, <3>2 DEF AdmitTool
  <2>2. CASE ToolReturns(p, t)
    <3>1. \A s \in Seq(Wires) : s \o <<>> = s
      BY ConcatEmptySeq
    <3>2. out' = [out EXCEPT ![p] = out[p]]
      BY <2>2, <3>1 DEF ToolReturns, Step, IInv, TypeOK, WorkerTypeOK
    <3>3. PICK how \in {"done", "hung"} : Step(p, [wk[p] EXCEPT !.tool[t] = how], <<>>)
      BY <2>2, Zenon DEF ToolReturns
    <3>4. how \in S /\ wk' = [wk EXCEPT ![p] = [wk[p] EXCEPT !.tool[t] = how]]
      BY <3>3 DEF Step
    <3> QED BY <2>2, <3>2, <3>3, <3>4 DEF ToolReturns, Step, At
  <2> QED BY <2>1, <2>2
<1>3. /\ Queue(out[p], wk[p].pc)
      /\ wk[p].pc \notin {"none", "done", "checkpoint", "after", "answered"}
  BY <1>2 DEF IInv, Queues
<1> HIDE DEF S
<1>4. PICK w \in Workers : /\ wk' = [wk EXCEPT ![p] = w]
                           /\ w.ref = wk[p].ref /\ w.pc = wk[p].pc
  BY <1>1, <1>2
<1> QED BY <1>2, <1>3, <1>4, WorkerKeeps

(* What Compaction.apply may leave of a list. *)
LEMMA CompactResultType ==
    ASSUME NEW ms \in Histories, NEW r \in CompactResults(ms)
    PROVE  r \in Results /\ (r.ok /\ ms = <<>> => r.messages = <<>>)
<1>1. \/ r = OkResult(Summarise(ms))
      \/ r = OkResult(ms)
      \/ r = ErrorResult("failed")
  <2>1. PICK how \in CompactorDoes :
          r = CASE how = "summary" -> OkResult(Summarise(ms))
                [] how = "same"    -> OkResult(ms)
                [] how = "error"   -> ErrorResult("failed")
    BY Zenon DEF CompactResults
  <2>2. how \in {"summary", "same", "error"}
    BY SessionAssumption
  <2> QED BY <2>1, <2>2
<1>2. Summarise(ms) \in Histories /\ (ms = <<>> => Summarise(ms) = <<>>)
  BY SummariseType
<1>3. \A h \in Histories : /\ OkResult(h) \in Results /\ OkResult(h).messages = h
  BY SMT DEF OkResult, Results
<1>4. ErrorResult("failed") \in Results /\ ~ErrorResult("failed").ok
  BY EmptyHistory, SMT DEF ErrorResult, Results
<1> QED BY <1>1, <1>2, <1>3, <1>4

(* What a compactor returns is the list it was given or a summary of it. *)
LEMMA CompactResultIs ==
    ASSUME NEW ms, NEW r \in CompactResults(ms), r.ok
    PROVE  r.messages \in {ms, Summarise(ms)}
<1>1. r = OkResult(Summarise(ms)) \/ r = OkResult(ms) \/ r = ErrorResult("failed")
  <2>1. PICK how \in CompactorDoes :
           r = CASE how = "summary" -> OkResult(Summarise(ms))
                 [] how = "same"    -> OkResult(ms)
                 [] how = "error"   -> ErrorResult("failed")
    BY DEF CompactResults
  <2>2. how \in {"summary", "same", "error"}
    BY SessionAssumption
  <2> QED BY <2>1, <2>2
<1>2. PICK s : s = Summarise(ms)
  OBVIOUS
<1>3. r = OkResult(s) \/ r = OkResult(ms) \/ r = ErrorResult("failed")
  BY <1>1, <1>2
<1>4. r.messages = s \/ r.messages = ms
  BY <1>3 DEF OkResult, ErrorResult
<1> QED BY <1>2, <1>4

(* Compaction.apply leaves the list as it was or puts a summary of it in its place. *)
LEMMA AppliedIs ==
    ASSUME NEW ms, NEW new \in Applied(ms)
    PROVE  new \in {ms, Summarise(ms)}
<1>1. CASE ~HasCompactor
  BY <1>1 DEF Applied
<1>2. CASE HasCompactor
  <2>1. PICK r \in CompactResults(ms) : new = IF r.ok THEN r.messages ELSE ms
    BY <1>2 DEF Applied
  <2> QED BY <2>1, CompactResultIs
<1> QED BY <1>1, <1>2

(* Compaction.apply returns a history. *)
LEMMA AppliedType ==
    ASSUME NEW ms \in Histories, NEW new \in Applied(ms)
    PROVE  new \in Histories
<1>1. CASE ~HasCompactor
  BY <1>1 DEF Applied
<1>2. CASE HasCompactor
  <2>1. PICK r \in CompactResults(ms) : new = IF r.ok THEN r.messages ELSE ms
    BY <1>2, Zenon DEF Applied
  <2>2. r \in Results
    BY CompactResultType
  <2>3. r.messages \in Histories
    BY <2>2, SMT DEF Results
  <2> QED BY <2>1, <2>3
<1> QED BY <1>1, <1>2

(* Recording an answer and its usage keeps the invariant. *)
LEMMA WorkerRecordsKeeps ==
    ASSUME IInv, NEW p \in Prompts, WorkerRecords(p)
    PROVE  IInv'
<1>0. /\ wk[p] \in Workers /\ wk[p].msgs \in Histories
      /\ wk[p].reply \in {Nil, "assistant", "calls"}
  BY WorkerOf
<1> DEFINE role == wk[p].reply
           said == [wk[p] EXCEPT !.msgs = Append(@, Msg(p, NextN(p), wk[p].reply))]
           ended == Emits(p, <<Event("turn_end"), Event("agent_end")>>)
           calling == Emits(p, <<Event("turn_end"), Event("tool_call")>>)
           asking == [t \in ToolIds |-> "asking"]
<1>1. PICK skew \in IF Policy THEN UsageSkews ELSE {0} :
        LET usage == IF Policy THEN <<Usage(wk[p].msgs, skew)>> ELSE <<>>
        IN  IF role = "calls"
            THEN Step(p, [said EXCEPT !.pc = "tools", !.tool = asking], usage \o calling)
            ELSE Step(p, [said EXCEPT !.pc = "done"],
                      usage \o ended \o <<Complete(TRUE)>>)
  BY Zenon DEF WorkerRecords
<1> DEFINE usage == IF Policy THEN <<Usage(wk[p].msgs, skew)>> ELSE <<>>
<1>2. Plain(usage)
  <2>1. skew \in Nat
    BY SessionAssumption
  <2>2. Plain(<<Usage(wk[p].msgs, skew)>>)
    BY <1>0, <2>1, WireTypes, OnePlain
  <2> QED BY <2>2, PlainEmpty
<1>3. Plain(ended) /\ Plain(calling)
  BY TwoEventsPlain, EmitsPlain DEF StreamEvents
<1>4. wk[p].pc = "answered"
  BY DEF WorkerRecords, At
<1>6. wk[p].pc \notin Asks \cup {"none", "done"}
  BY <1>4 DEF Asks
<1>7. said \in Workers /\ said.ref = wk[p].ref
  <2>1. role \in Roles
    BY <1>0, <1>4 DEF Roles, IInv, Answered
  <2>2. Append(wk[p].msgs, Msg(p, NextN(p), role)) \in Histories
    BY <1>0, <2>1, NextNType, MsgType, AppendType
  <2> DEFINE ms == Append(wk[p].msgs, Msg(p, NextN(p), role))
  <2>3. said = [wk[p] EXCEPT !.msgs = ms]
    OBVIOUS
  <2> HIDE DEF ms, said
  <2>4. ms \in Histories
    BY <2>2 DEF ms
  <2> QED BY <1>0, <2>3, <2>4, WorkerMsgs
<1>8. CASE role = "calls"
  <2> DEFINE u == [said EXCEPT !.pc = "tools"]
             w == [u EXCEPT !.tool = asking]
  <2>1. Step(p, w, usage \o calling)
    BY <1>1, <1>8
  <2> HIDE DEF said
  <2>2. u \in Workers /\ u.ref = wk[p].ref /\ u.pc = "tools"
    BY <1>7, WorkerPc DEF PCs
  <2>3. asking \in ToolStates
    BY DEF ToolStates
  <2> HIDE DEF u, asking
  <2>4. w \in Workers /\ w.ref = wk[p].ref /\ w.pc = "tools"
    BY <2>2, <2>3, WorkerTool
  <2> HIDE DEF w, usage, calling
  <2>5. Queue(usage \o calling, "tools")
    BY <1>2, <1>3, PlainConcat, PlainQueue
  <2> QED BY <1>6, <2>1, <2>4, <2>5, StepKeeps
<1>9. CASE role # "calls"
  <2> DEFINE w == [said EXCEPT !.pc = "done"]
             s == usage \o ended \o <<Complete(TRUE)>>
  <2>1. Step(p, w, s)
    BY <1>1, <1>9
  <2> HIDE DEF said
  <2>2. w \in Workers /\ w.ref = wk[p].ref /\ w.pc = "done"
    BY <1>7, WorkerPc DEF PCs
  <2> HIDE DEF w, usage, ended
  <2>3. Queue(<<Complete(TRUE)>>, "done")
    <3>1. Complete(TRUE) \in Wires /\ Complete(TRUE).type = "complete"
      BY WireTypes
    <3>2. Append(<<>>, Complete(TRUE)) = <<Complete(TRUE)>>
      BY SMT
    <3> QED BY <3>1, <3>2, PlainEmpty, PlainAppend
  <2>4. Queue(s, "done")
    BY <1>2, <1>3, <2>3, PlainConcat, QueueConcat
  <2> HIDE DEF s
  <2> QED BY <1>6, <2>1, <2>2, <2>4, StepKeeps
<1> QED BY <1>8, <1>9

(* Joining the tool results keeps the invariant. *)
LEMMA ToolsReturnedKeeps ==
    ASSUME IInv, NEW p \in Prompts, ToolsReturned(p)
    PROVE  IInv'
<1>0. wk[p] \in Workers /\ wk[p].msgs \in Histories /\ wk[p].round \in Nat
  BY WorkerOf
<1> DEFINE idle == [t \in ToolIds |-> "idle"]
           results == [t \in ToolIds |-> Msg(p, NextN(p) + t - 1, "tool_result")]
           ms == wk[p].msgs \o results
           w1 == [wk[p] EXCEPT !.pc = "loop"]
           w2 == [w1 EXCEPT !.round = wk[p].round + 1]
           w3 == [w2 EXCEPT !.tool = idle]
           w4 == [w3 EXCEPT !.msgs = ms]
           s  == Emits(p, <<Event("tool_result")>>)
<1>1. Step(p, w4, s)
  BY DEF ToolsReturned
<1>2. ms \in Histories
  <2>1. NextN(p) \in Nat \ {0} /\ Tools \in Nat
    BY <1>0, NextNType, SessionAssumption
  <2> DEFINE n == NextN(p)
  <2> HIDE DEF n
  <2>2. n \in Nat \ {0}
    BY <2>1 DEF n
  <2>3. \A t \in 1..Tools : Msg(p, n + t - 1, "tool_result") \in BaseMessages
    <3>1. \A t \in 1..Tools : n + t - 1 \in Nat
      BY <2>1, <2>2
    <3> QED BY <3>1, MsgType DEF Roles
  <2>4. results = [t \in 1..Tools |-> Msg(p, n + t - 1, "tool_result")]
    BY DEF ToolIds, n
  <2> HIDE DEF results
  <2>5. results \in Seq(BaseMessages)
    BY <2>1, <2>3, <2>4, IsASeq
  <2> QED BY <1>0, <2>5, ConcatType
<1>3. w1 \in Workers /\ w1.pc = "loop" /\ w1.ref = wk[p].ref
  BY <1>0, WorkerPc DEF PCs
<1> HIDE DEF ms, w1
<1>4. w2 \in Workers /\ w2.pc = "loop" /\ w2.ref = wk[p].ref
  BY <1>0, <1>3, WorkerRound
<1> HIDE DEF w2
<1>5. w3 \in Workers /\ w3.pc = "loop" /\ w3.ref = wk[p].ref
  <2>1. idle \in ToolStates
    BY DEF ToolStates
  <2> HIDE DEF idle
  <2> QED BY <1>4, <2>1, WorkerTool
<1> HIDE DEF w3
<1>6. w4 \in Workers /\ w4.pc = "loop" /\ w4.ref = wk[p].ref
  BY <1>2, <1>5, WorkerMsgs
<1>7. Plain(s)
  BY EventPlain, EmitsPlain DEF StreamEvents
<1>8. wk[p].pc \notin Asks \cup {"none", "done"}
  BY DEF ToolsReturned, At, Asks
<1> HIDE DEF w4, s
<1> QED BY <1>1, <1>6, <1>7, <1>8, PlainQueue, StepKeeps

(* Every step of a worker keeps the invariant. *)
LEMMA WorkerStepsKeep ==
    ASSUME IInv, NEW p \in Prompts, WorkerSteps(p)
    PROVE  IInv'
<1>0. /\ wk[p] \in Workers /\ wk[p].msgs \in Histories /\ wk[p].attempt \in Nat
      /\ wk[p].round \in Nat /\ wk[p].reply \in {Nil, "assistant", "calls"}
  BY WorkerOf
<1>s. Asks \cup {"none", "done"} = {"checkpoint", "attempt", "wait", "after", "none", "done"}
  BY DEF Asks
<1>p. {"loop", "failed", "done", "dead", "tools", "infer"} \subseteq PCs
  BY DEF PCs
<1>1. CASE WorkerStarts(p)
  <2> DEFINE w == [wk[p] EXCEPT !.pc = "loop"]
             s == Emits(p, <<Event("agent_start")>>)
  <2>1. Step(p, w, s) /\ wk[p].pc = "start"
    BY <1>1 DEF WorkerStarts, At
  <2>2. w \in Workers /\ w.ref = wk[p].ref /\ w.pc = "loop"
    BY <1>0, <1>p, WorkerPc
  <2>3. Plain(s)
    BY EventPlain, EmitsPlain DEF StreamEvents
  <2> HIDE DEF w, s
  <2> QED BY <1>s, <2>1, <2>2, <2>3, PlainQueue, StepKeeps
<1>2. CASE RuntimeAnswers(p)
  <2>1. PICK ok \in BOOLEAN :
          Step(p, [wk[p] EXCEPT !.pc = "done",
                     !.msgs = IF ok THEN Append(@, Msg(p, 2, "assistant")) ELSE @],
               Append(Emits(p, <<Event("error")>>), Complete(ok)))
    BY <1>2 DEF RuntimeAnswers
  <2> DEFINE u == [wk[p] EXCEPT !.pc = "done"]
             ms == IF ok THEN Append(wk[p].msgs, Msg(p, 2, "assistant")) ELSE wk[p].msgs
             w == [u EXCEPT !.msgs = ms]
             e == Emits(p, <<Event("error")>>)
             s == Append(e, Complete(ok))
  <2>2. Step(p, w, s)
    BY <2>1
  <2>3. ms \in Histories
    BY <1>0, MsgType, AppendType DEF Roles
  <2>4. u \in Workers /\ u.ref = wk[p].ref /\ u.pc = "done"
    BY <1>0, <1>p, WorkerPc
  <2> HIDE DEF ms, u
  <2>5. w \in Workers /\ w.ref = wk[p].ref /\ w.pc = "done"
    BY <2>3, <2>4, WorkerMsgs
  <2>6. Plain(e)
    BY EventPlain, EmitsPlain DEF StreamEvents
  <2> HIDE DEF e
  <2>7. Queue(s, "done")
    BY <2>6, WireTypes, PlainAppend
  <2>8. wk[p].pc = "start"
    BY <1>2 DEF RuntimeAnswers, At
  <2> HIDE DEF w, s
  <2> QED BY <1>s, <2>2, <2>5, <2>7, <2>8, StepKeeps
<1>3. CASE WorkerLoops(p)
  <2>1. wk[p].pc \notin Asks \cup {"none", "done"}
    BY <1>3, <1>s DEF WorkerLoops, At
  <2>2. Finish(p, wk[p], TRUE, <<>>) \/ Ask(p, wk[p], "checkpoint", <<>>)
    BY <1>3 DEF WorkerLoops
  <2>3. "checkpoint" \in Asks
    BY DEF Asks
  <2> QED BY <1>0, <2>1, <2>2, <2>3, PlainEmpty, FinishKeeps, AskKeeps
<1>4. CASE WorkerProceeds(p)
  <2>1. PICK ms \in IF Policy THEN {wk[p].msgs} ELSE Applied(wk[p].msgs) :
          Ask(p, [wk[p] EXCEPT !.msgs = ms, !.attempt = 1, !.emitted = FALSE],
              "attempt", Emits(p, <<Event("turn_start")>>))
    BY <1>4 DEF WorkerProceeds
  <2>2. ms \in Histories
    BY <1>0, <2>1, AppliedType
  <2> DEFINE u == [wk[p] EXCEPT !.msgs = ms]
             v == [u EXCEPT !.attempt = 1]
             w == [v EXCEPT !.emitted = FALSE]
             s == Emits(p, <<Event("turn_start")>>)
  <2>3. Ask(p, w, "attempt", s)
    BY <2>1
  <2>4. u \in Workers /\ u.ref = wk[p].ref
    BY <1>0, <2>2, WorkerMsgs
  <2> HIDE DEF u
  <2>5. v \in Workers /\ v.ref = wk[p].ref
    BY <2>4, WorkerAttempt
  <2> HIDE DEF v
  <2>6. w \in Workers /\ w.ref = wk[p].ref
    BY <2>5, WorkerEmitted
  <2>7. Plain(s)
    BY EventPlain, EmitsPlain DEF StreamEvents
  <2>8. wk[p].pc \notin Asks \cup {"none", "done"} /\ "attempt" \in Asks
    BY <1>4, <1>s DEF WorkerProceeds, At, Asks
  <2> HIDE DEF w, s
  <2> QED BY <2>3, <2>6, <2>7, <2>8, AskKeeps
<1>5. CASE ProviderStreams(p)
  <2> DEFINE w == [wk[p] EXCEPT !.emitted = TRUE]
             s == <<Event("text")>>
  <2>1. Step(p, w, s) /\ wk[p].pc = "infer"
    BY <1>5 DEF ProviderStreams, At
  <2>2. w \in Workers /\ w.ref = wk[p].ref /\ w.pc = "infer"
    BY <1>0, <2>1, WorkerEmitted
  <2>3. Plain(s)
    BY EventPlain DEF StreamEvents
  <2> HIDE DEF w, s
  <2> QED BY <1>s, <2>1, <2>2, <2>3, PlainQueue, StepKeeps
<1>6. CASE ProviderAnswers(p)
  <2>1. PICK reply \in {"assistant", "calls"} :
          Ask(p, [wk[p] EXCEPT !.reply = reply], "after", <<>>)
    BY <1>6 DEF ProviderAnswers
  <2> DEFINE w == [wk[p] EXCEPT !.reply = reply]
  <2>2. w \in Workers /\ w.ref = wk[p].ref /\ w.reply = reply
    BY <1>0, WorkerReply
  <2>3. wk[p].pc \notin Asks \cup {"none", "done"} /\ "after" \in Asks
    BY <1>6, <1>s DEF ProviderAnswers, At, Asks
  <2> HIDE DEF w
  <2>4. Ask(p, w, "after", <<>>)
    BY <2>1 DEF w
  <2> QED BY <2>2, <2>3, <2>4, PlainEmpty, AskKeeps
<1>7. CASE ProviderFails(p)
  <2> DEFINE w == [wk[p] EXCEPT !.pc = "failed"]
  <2>1. Ask(p, wk[p], "wait", <<>>) \/ Step(p, w, <<>>)
    BY <1>7 DEF ProviderFails
  <2>2. w \in Workers /\ w.ref = wk[p].ref /\ w.pc = "failed"
    BY <1>0, <1>p, WorkerPc
  <2>3. wk[p].pc \notin Asks \cup {"none", "done"} /\ "wait" \in Asks
    BY <1>7, <1>s DEF ProviderFails, At, Asks
  <2> HIDE DEF w
  <2> QED BY <1>0, <2>1, <2>2, <2>3, PlainEmpty, PlainQueue, AskKeeps, StepKeeps
<1>8. CASE BackoffElapses(p)
  <2> DEFINE w == [wk[p] EXCEPT !.attempt = wk[p].attempt + 1]
  <2>1. Ask(p, w, "attempt", <<>>)
    BY <1>8 DEF BackoffElapses
  <2>4. wk[p].attempt + 1 \in Nat
    BY <1>0
  <2>2. w \in Workers /\ w.ref = wk[p].ref
    BY <1>0, <2>4, WorkerAttempt
  <2>3. wk[p].pc \notin Asks \cup {"none", "done"} /\ "attempt" \in Asks
    BY <1>8, <1>s DEF BackoffElapses, At, Asks
  <2> HIDE DEF w
  <2> QED BY <2>1, <2>2, <2>3, PlainEmpty, AskKeeps
<1>9. CASE BackoffAborted(p)
  <2> DEFINE w == [wk[p] EXCEPT !.pc = "failed"]
  <2>1. Step(p, w, <<>>) /\ wk[p].pc = "backoff"
    BY <1>9 DEF BackoffAborted, At
  <2>2. w \in Workers /\ w.ref = wk[p].ref /\ w.pc = "failed"
    BY <1>0, <1>p, WorkerPc
  <2> HIDE DEF w
  <2> QED BY <1>s, <2>1, <2>2, PlainEmpty, PlainQueue, StepKeeps
<1>10. CASE WorkerFails(p)
  <2>1. Plain(<<Event("error")>>)
    BY EventPlain DEF StreamEvents
  <2>2. wk[p].pc = "failed" /\ Finish(p, wk[p], FALSE, <<Event("error")>>)
    BY <1>10 DEF WorkerFails, At
  <2> QED BY <1>0, <1>s, <2>1, <2>2, FinishKeeps
<1>11. CASE WorkerRecords(p)
  BY <1>11, WorkerRecordsKeeps
<1>12. CASE ToolTimesOut(p)
  <2> DEFINE w == [wk[p] EXCEPT !.pc = "dead"]
  <2>1. Step(p, w, <<>>) /\ wk[p].pc = "tools"
    BY <1>12 DEF ToolTimesOut, At
  <2>2. w \in Workers /\ w.ref = wk[p].ref /\ w.pc = "dead"
    BY <1>0, <1>p, WorkerPc
  <2> HIDE DEF w
  <2> QED BY <1>s, <2>1, <2>2, PlainEmpty, PlainQueue, StepKeeps
<1>13. CASE ToolsReturned(p)
  BY <1>13, ToolsReturnedKeeps
<1> QED BY <1>1, <1>2, <1>3, <1>4, <1>5, <1>6, <1>7, <1>8, <1>9, <1>10, <1>11, <1>12, <1>13
        DEF WorkerSteps

(* A worker begins with the session's history and its own prompt. *)
LEMMA WorkerType ==
    ASSUME NEW p \in Prompts, NEW kind \in {"run", "stream"}, NEW ref \in Nat,
           messages \in Histories, NEW w, w = Worker(p, kind, ref)
    PROVE  w \in Workers /\ w.pc = "start" /\ w.ref = ref
<1> DEFINE ms == Append(messages, Msg(p, 1, "user"))
           idle == [t \in ToolIds |-> "idle"]
<1>1. ms \in Histories
  BY MsgType, AppendType DEF Roles
<1>2. idle \in ToolStates /\ {"start", "none"} \subseteq PCs
  BY DEF ToolStates, PCs
<1>3. Idle \in Workers
  <2>1. Idle = [pc |-> "none", kind |-> "run", ref |-> 0, base |-> <<>>, msgs |-> <<>>,
                round |-> 0, attempt |-> 0, emitted |-> FALSE, reply |-> Nil,
                tool |-> idle, woken |-> FALSE]
    BY DEF Idle
  <2> HIDE DEF idle
  <2> QED BY <1>2, <2>1, EmptyHistory, SMT DEF Workers
<1> DEFINE w1 == [Idle EXCEPT !.pc = "start"]
           w2 == [w1 EXCEPT !.kind = kind]
           w3 == [w2 EXCEPT !.ref = ref]
           w4 == [w3 EXCEPT !.base = ms]
<1>4. w = [w4 EXCEPT !.msgs = ms]
  BY DEF Worker
<1> HIDE DEF ms
<1>5. w1 \in Workers /\ w1.pc = "start"
  BY <1>2, <1>3, WorkerPc
<1> HIDE DEF w1
<1>6. w2 \in Workers /\ w2.pc = "start"
  BY <1>5, WorkerKind
<1> HIDE DEF w2
<1>7. w3 \in Workers /\ w3.pc = "start" /\ w3.ref = ref
  BY <1>6, WorkerRef
<1> HIDE DEF w3
<1>8. w4 \in Workers /\ w4.pc = "start" /\ w4.ref = ref
  BY <1>1, <1>7, WorkerBase
<1> HIDE DEF w4
<1> QED BY <1>1, <1>4, <1>8, WorkerMsgs

-----------------------------------------------------------------------------
(* The operations of turn.ex, field by field. *)

(* Turn.start makes the client the recipient of a turn with the new reference. *)
LEMMA StartTurnType ==
    ASSUME NEW t \in Turns, NEW ref \in Nat, NEW p \in Prompts, NEW i \in Int,
           NEW d, d = StartTurn(t, ref, p, i)
    PROVE  /\ d \in Turns /\ d.streaming /\ d.abort_ref = ref /\ d.recipient = p
           /\ d.worker = p /\ d.prompt_index = i /\ d.subscribers = t.subscribers
<1> DEFINE t1 == [t EXCEPT !.streaming = TRUE]
           t2 == [t1 EXCEPT !.abort_ref = ref]
           t3 == [t2 EXCEPT !.recipient = p]
           t4 == [t3 EXCEPT !.worker = p]
<1>0. d = [t4 EXCEPT !.prompt_index = i]
  BY DEF StartTurn
<1>1. t1 \in Turns /\ t1.streaming /\ t1.subscribers = t.subscribers
  BY TurnStreaming
<1> HIDE DEF t1
<1>2. /\ t2 \in Turns /\ t2.streaming /\ t2.subscribers = t.subscribers
      /\ t2.abort_ref = ref
  BY <1>1, TurnAbortRef
<1> HIDE DEF t2
<1>3. /\ t3 \in Turns /\ t3.streaming /\ t3.subscribers = t.subscribers
      /\ t3.abort_ref = ref /\ t3.recipient = p
  BY <1>2, TurnRecipient
<1> HIDE DEF t3
<1>4. /\ t4 \in Turns /\ t4.streaming /\ t4.subscribers = t.subscribers
      /\ t4.abort_ref = ref /\ t4.recipient = p /\ t4.worker = p
  BY <1>3, TurnWorker
<1> HIDE DEF t4
<1> QED BY <1>0, <1>4, TurnPromptIndex

(* Turn.finish leaves no recipient and keeps the reference. *)
LEMMA FinishTurnType ==
    ASSUME NEW t \in Turns, NEW d, d = FinishTurn(t)
    PROVE  /\ d \in Turns /\ ~d.streaming /\ d.abort_ref = t.abort_ref
           /\ d.recipient = Nil /\ d.worker = Nil /\ d.prompt_index = Nil
<1> DEFINE t1 == [t EXCEPT !.streaming = FALSE]
           t2 == [t1 EXCEPT !.recipient = Nil]
           t3 == [t2 EXCEPT !.worker = Nil]
<1>0. d = [t3 EXCEPT !.prompt_index = Nil]
  BY DEF FinishTurn
<1>1. t1 \in Turns /\ ~t1.streaming /\ t1.abort_ref = t.abort_ref
  BY TurnStreaming
<1> HIDE DEF t1
<1>2. t2 \in Turns /\ ~t2.streaming /\ t2.abort_ref = t.abort_ref /\ t2.recipient = Nil
  BY <1>1, TurnRecipient
<1> HIDE DEF t2
<1>3. /\ t3 \in Turns /\ ~t3.streaming /\ t3.abort_ref = t.abort_ref
      /\ t3.recipient = Nil /\ t3.worker = Nil
  BY <1>2, TurnWorker
<1> HIDE DEF t3
<1> QED BY <1>0, <1>3, TurnPromptIndex

(* Turn.abort leaves no recipient and replaces the reference. *)
LEMMA AbandonTurnType ==
    ASSUME NEW t \in Turns, NEW ref \in Nat, NEW d, d = AbandonTurn(t, ref)
    PROVE  /\ d \in Turns /\ ~d.streaming /\ d.abort_ref = ref
           /\ d.recipient = Nil /\ d.worker = Nil /\ d.prompt_index = Nil
<1> DEFINE t0 == [t EXCEPT !.abort_ref = ref]
<1>1. t0 \in Turns /\ t0.abort_ref = ref
  BY TurnAbortRef
<1>2. d = FinishTurn(t0)
  BY DEF AbandonTurn, FinishTurn
<1> HIDE DEF t0
<1> QED BY <1>1, <1>2, FinishTurnType

(* Listeners come and go without touching the running turn. *)
LEMMA SubscribersType ==
    ASSUME NEW t \in Turns, NEW p \in Prompts, NEW d,
           d = Subscribed(t, p) \/ d = Unsubscribed(t, p)
    PROVE  /\ d \in Turns /\ d.streaming = t.streaming /\ d.abort_ref = t.abort_ref
           /\ d.recipient = t.recipient /\ d.worker = t.worker
           /\ d.prompt_index = t.prompt_index
<1>1. t.subscribers \in Listeners
  BY SMT DEF Turns
<1> DEFINE s == t.subscribers \cup {p}
           u == t.subscribers \ {p}
<1>2. s \in Listeners /\ u \in Listeners
  BY <1>1 DEF Listeners
<1>3. d = [t EXCEPT !.subscribers = s] \/ d = [t EXCEPT !.subscribers = u]
  BY DEF Subscribed, Unsubscribed
<1> HIDE DEF s, u
<1> QED BY <1>2, <1>3, TurnSubscribers

-----------------------------------------------------------------------------
(* Client calls. *)

(* A client's own state changes, and the turn at most in what leaves the running
   turn alone. *)
LEMMA ClientKeeps ==
    ASSUME IInv, ClientTypeOK', turn' \in Turns,
           turn'.streaming = turn.streaming, turn'.abort_ref = turn.abort_ref,
           turn'.recipient = turn.recipient, turn'.worker = turn.worker,
           turn'.prompt_index = turn.prompt_index,
           \A p \in Prompts : call'[p] = call[p] \/ call'[p] \in {"busy", "gone", "ok", "error"}
                              \/ (call'[p] = "subscribed" /\ call[p] = "idle"),
           UNCHANGED <<messages, compaction, store, lastRef, fired, wk, out, compactCall>>
    PROVE  IInv'
<1>1. TypeOK'
  BY DEF IInv, TypeOK, TurnTypeOK, DataTypeOK, WorkerTypeOK
<1>2. Fits(compaction)' /\ Queues' /\ Answered'
  BY DEF IInv, Queues, Answered
<1>3. Refs' /\ Owners'
  BY DEF IInv, Refs, Owners
<1>4. Calls'
  BY DEF IInv, Calls
<1>5. Waiting'
  BY DEF IInv, Waiting
<1> QED BY <1>1, <1>2, <1>3, <1>4, <1>5 DEF IInv

(* The parts of the type invariant the proofs below use. *)
LEMMA Typed ==
    ASSUME IInv
    PROVE  /\ turn \in Turns /\ turn.abort_ref \in Nat /\ turn.recipient \in Prompts \cup {Nil}
           /\ turn.streaming <=> turn.recipient # Nil
           /\ turn.worker = turn.recipient
           /\ turn.prompt_index \in Int \cup {Nil}
           /\ call \in [Prompts -> Answers] /\ controls \in Nat /\ lastRef \in Nat
           /\ notified \in Seq(Prompts) /\ cleared \subseteq Prompts
           /\ inbox \in [Prompts -> Seq(StreamEvents \cup {"done"})]
           /\ compactCall \in {"idle", "waiting", "ok", "error", "busy", "aborted"}
           /\ wk \in [Prompts -> Workers] /\ out \in [Prompts -> Seq(Wires)]
           /\ messages \in Histories /\ store \in Stores /\ fired \subseteq Nat
           /\ compaction \in Compactions /\ Nil \notin Prompts
<1>1. turn \in Turns
  BY DEF IInv, TypeOK, TurnTypeOK
<1>2. /\ turn.abort_ref \in Nat /\ turn.recipient \in Prompts \cup {Nil}
      /\ turn.prompt_index \in Int \cup {Nil}
  BY <1>1, SMT DEF Turns
<1> QED BY <1>1, <1>2, SessionAssumption
        DEF IInv, TypeOK, TurnTypeOK, DataTypeOK, WorkerTypeOK, ClientTypeOK

(* A save, due or not, and a clear leave a store, whether they go through or fail. *)
LEMMA StoreWritten ==
    ASSUME store \in Stores, NEW ms \in Histories,
           \/ SaveSnapshot(ms) \/ ClearSnapshot
           \/ store' = [store EXCEPT !.due = TRUE] \/ UNCHANGED store
    PROVE  store' \in Stores
<1>1. /\ store = [snapshot |-> store.snapshot, due |-> store.due, failed |-> store.failed]
      /\ store.snapshot \in Histories \cup {Nil} /\ store.due \in BOOLEAN
      /\ store.failed \in SUBSET {"save", "clear"}
  BY SMT DEF Stores
<1>2. ASSUME NEW h \in Histories \cup {Nil}, NEW d \in BOOLEAN, NEW f \in SUBSET {"save", "clear"}
      PROVE  [snapshot |-> h, due |-> d, failed |-> f] \in Stores
  BY SMT DEF Stores
<1> DEFINE saved == [snapshot |-> ms, due |-> FALSE, failed |-> {}]
           unsaved == [snapshot |-> store.snapshot, due |-> FALSE,
                       failed |-> store.failed \cup {"save"}]
           emptied == [snapshot |-> Nil, due |-> store.due, failed |-> {}]
           held == [snapshot |-> store.snapshot, due |-> store.due,
                    failed |-> store.failed \cup {"clear"}]
           owed == [snapshot |-> store.snapshot, due |-> TRUE, failed |-> store.failed]
<1>3. SaveSnapshot(ms) => store' \in {saved, unsaved}
  BY <1>1 DEF SaveSnapshot
<1>4. ClearSnapshot => store' \in {emptied, held}
  BY <1>1 DEF ClearSnapshot
<1>5. store' = [store EXCEPT !.due = TRUE] => store' = owed
  BY <1>1
<1>6. /\ {} \in SUBSET {"save", "clear"} /\ store.failed \cup {"save"} \in SUBSET {"save", "clear"}
      /\ store.failed \cup {"clear"} \in SUBSET {"save", "clear"}
  BY <1>1
<1>7. saved \in Stores /\ unsaved \in Stores
  BY <1>1, <1>2, <1>6, Zenon
<1>8. emptied \in Stores /\ held \in Stores /\ owed \in Stores
  BY <1>1, <1>2, <1>6, Zenon
<1> HIDE DEF saved, unsaved, emptied, held, owed
<1> QED BY <1>3, <1>4, <1>5, <1>7, <1>8

(* What the clients may be told. *)
LEMMA AnswersHold ==
    {"idle", "subscribed", "waiting", "ok", "error", "busy", "aborted", "gone"} \subseteq Answers
BY DEF Answers

(* A new turn begins. *)
LEMMA BeginKeeps ==
    ASSUME IInv, NEW p \in Prompts, NEW kind \in {"run", "stream"}, BeginTurn(p, kind),
           ~Busy, call[p] \in {"idle", "subscribed"},
           UNCHANGED <<messages, compaction, store, fired, out, inbox, notified, compactCall,
                       controls, cleared>>
    PROVE  IInv'
<1>0. /\ lastRef \in Nat /\ turn \in Turns /\ messages \in Histories
      /\ call \in [Prompts -> Answers] /\ Nil \notin Prompts
      /\ wk \in [Prompts -> Workers] /\ out \in [Prompts -> Seq(Wires)]
      /\ turn.recipient \in Prompts \cup {Nil} /\ (turn.streaming <=> turn.recipient # Nil)
  BY Typed
<1>1. turn.recipient = Nil /\ compaction.waiter = Nil
  BY <1>0 DEF Busy
<1>2. \A q \in Prompts : call[q] # "waiting"
  BY <1>0, <1>1 DEF IInv, Calls
<1>3. wk[p].ref = 0 /\ wk[p].pc = "none" /\ out[p] = <<>>
  BY DEF IInv, Calls, Refs, Queues
<1> DEFINE w == Worker(p, kind, lastRef + 1)
<1>4. /\ w \in Workers /\ w.pc = "start" /\ w.ref = lastRef + 1
  BY <1>0, WorkerType
<1> HIDE DEF w
<1>5. /\ lastRef' = lastRef + 1
      /\ wk' = [wk EXCEPT ![p] = w]
      /\ call' = [call EXCEPT ![p] = "waiting"]
  BY DEF BeginTurn, w
<1>6. /\ turn' \in Turns /\ turn'.streaming /\ turn'.abort_ref = lastRef + 1
      /\ turn'.recipient = p /\ turn'.worker = p /\ turn'.prompt_index = Len(messages)
  <2>1. Len(messages) \in Nat /\ lastRef + 1 \in Nat
    BY <1>0, HistoryIsSeq
  <2>2. Len(messages) \in Int
    BY <2>1
  <2> DEFINE n == Len(messages)
             ref == lastRef + 1
  <2>3. turn' = StartTurn(turn, ref, p, n)
    BY DEF BeginTurn
  <2> HIDE DEF n, ref
  <2>4. n \in Int /\ ref \in Nat
    BY <2>1, <2>2 DEF n, ref
  <2>5. /\ turn' \in Turns /\ turn'.streaming /\ turn'.abort_ref = ref
        /\ turn'.recipient = p /\ turn'.worker = p /\ turn'.prompt_index = n
    <3>1. turn \in Turns
      BY <1>0
    <3>2. ASSUME NEW d, d = StartTurn(turn, ref, p, n)
          PROVE  /\ d \in Turns /\ d.streaming /\ d.abort_ref = ref
                 /\ d.recipient = p /\ d.worker = p /\ d.prompt_index = n
      BY <2>4, <3>1, <3>2, StartTurnType
    <3> QED BY <2>3, <3>2
  <2> QED BY <2>5 DEF n, ref
<1>7. TypeOK'
  <2>1. TurnTypeOK'
    <3>1. Len(messages) # Nil
      BY <1>0, HistoryIsSeq, SessionAssumption
    <3> QED BY <1>0, <1>6, <3>1 DEF TurnTypeOK
  <2>2. DataTypeOK'
    BY <1>0, <1>5 DEF IInv, TypeOK, DataTypeOK
  <2>3. WorkerTypeOK'
    BY <1>0, <1>4, <1>5 DEF WorkerTypeOK
  <2>4. ClientTypeOK'
    BY <1>0, <1>5, AnswersHold DEF IInv, TypeOK, ClientTypeOK
  <2> QED BY <2>1, <2>2, <2>3, <2>4 DEF TypeOK
<1>8. Fits(compaction)'
  BY DEF IInv
<1>9. /\ wk'[p] = w /\ \A q \in Prompts \ {p} : wk'[q] = wk[q]
      /\ call'[p] = "waiting" /\ \A q \in Prompts \ {p} : call'[q] = call[q]
  BY <1>0, <1>5
<1>r. \A q \in Prompts : wk[q].ref \in Nat
  BY WorkerOf
<1>10. Refs'
  BY <1>0, <1>4, <1>5, <1>6, <1>9, <1>r DEF IInv, Refs
<1>11. Queues'
  <2>1. Queue(<<>>, "start")
    BY PlainEmpty, PlainQueue
  <2> QED BY <1>3, <1>4, <1>9, <2>1 DEF IInv, Queues
<1>12. Owners'
  BY <1>0, <1>4, <1>6, <1>9, <1>r DEF IInv, Owners, Refs
<1>13. Calls'
  BY <1>2, <1>6, <1>9 DEF IInv, Calls
<1>14. Waiting'
  BY <1>1 DEF Waiting
<1>15. Answered'
  BY <1>4, <1>9 DEF IInv, Answered
<1> QED BY <1>7, <1>8, <1>10, <1>11, <1>12, <1>13, <1>14, <1>15 DEF IInv

(* Events reach a subscriber's mailbox. *)
LEMMA BroadcastType ==
    ASSUME NEW p \in Prompts, NEW events \in Seq(StreamEvents \cup {"done"}),
           inbox \in [Prompts -> Seq(StreamEvents \cup {"done"})], Broadcast(p, events)
    PROVE  inbox' \in [Prompts -> Seq(StreamEvents \cup {"done"})]
<1> DEFINE E == StreamEvents \cup {"done"}
<1> HIDE DEF E
<1>1. /\ events \in Seq(E) /\ inbox \in [Prompts -> Seq(E)]
      /\ inbox' = [inbox EXCEPT ![p] =
                      IF p \in turn.subscribers THEN inbox[p] \o events ELSE inbox[p]]
  BY DEF E, Broadcast
<1>2. inbox[p] \o events \in Seq(E)
  BY <1>1, ConcatProperties
<1>3. inbox' \in [Prompts -> Seq(E)]
  BY <1>1, <1>2
<1> QED BY <1>3 DEF E

(* Queueing a steering or follow-up message leaves the turn as it is. *)
LEMMA SteeredType ==
    ASSUME NEW m \in Nat, turn \in Turns, NEW d,
           d = Steered(turn, m) \/ d = FollowedUp(turn, m)
    PROVE  /\ d \in Turns /\ d.streaming = turn.streaming /\ d.abort_ref = turn.abort_ref
           /\ d.recipient = turn.recipient /\ d.worker = turn.worker
           /\ d.prompt_index = turn.prompt_index
<1>1. turn.steering \in Queued /\ turn.follow_up \in Queued
  BY SMT DEF Turns
<1> DEFINE s == Append(turn.steering, m)
           f == Append(turn.follow_up, m)
<1>2. s \in Queued /\ f \in Queued
  BY <1>1, AppendProperties DEF Queued
<1>3. d = [turn EXCEPT !.steering = s] \/ d = [turn EXCEPT !.follow_up = f]
  BY DEF Steered, FollowedUp
<1> HIDE DEF s, f
<1> QED BY <1>2, <1>3, TurnSteering, TurnFollowUp

(* run, stream, subscribe, unsubscribe and a client that leaves keep the invariant. *)
LEMMA ClientStepKeeps ==
    ASSUME IInv, NEW p \in Prompts,
           Run(p) \/ RunTimeout(p) \/ Subscribe(p) \/ Stream(p) \/ Unsubscribe(p)
           \/ SubscriberDown(p)
    PROVE  IInv'
<1>0. /\ turn \in Turns /\ call \in [Prompts -> Answers] /\ controls \in Nat
      /\ inbox \in [Prompts -> Seq(StreamEvents \cup {"done"})]
  BY Typed
<1>t. ASSUME NEW a \in {"busy", "gone", "subscribed"}
      PROVE  /\ [call EXCEPT ![p] = a] \in [Prompts -> Answers]
             /\ \A q \in Prompts : [call EXCEPT ![p] = a][q] = IF q = p THEN a ELSE call[q]
  BY <1>0, <1>t, AnswersHold
<1>s. ASSUME turn' = Subscribed(turn, p) \/ turn' = Unsubscribed(turn, p)
      PROVE  /\ turn' \in Turns /\ turn'.streaming = turn.streaming
             /\ turn'.abort_ref = turn.abort_ref
             /\ turn'.recipient = turn.recipient /\ turn'.worker = turn.worker
             /\ turn'.prompt_index = turn.prompt_index
  BY <1>0, <1>s, SubscribersType
<1>1. CASE Run(p)
  <2>1. CASE Busy
    <3>1. /\ call' = [call EXCEPT ![p] = "busy"]
          /\ UNCHANGED <<turn, lastRef, wk, messages, compaction, store, fired, out, inbox,
                         notified, compactCall, controls, cleared>>
      BY <1>1, <2>1 DEF Run
    <3>2. ClientTypeOK'
      BY <1>t, <3>1 DEF IInv, TypeOK, ClientTypeOK
    <3> QED BY <1>0, <1>t, <3>1, <3>2, ClientKeeps
  <2>2. CASE ~Busy
    BY <1>1, <2>2, BeginKeeps DEF Run
  <2> QED BY <2>1, <2>2
<1>2. CASE RunTimeout(p)
  <2>1. /\ call' = [call EXCEPT ![p] = "gone"] /\ controls' = controls + 1
        /\ UNCHANGED <<turn, messages, compaction, store, lastRef, fired, wk, out, inbox,
                       notified, compactCall, cleared>>
    BY <1>2 DEF RunTimeout, sessionVars, workerVars
  <2>2. ClientTypeOK'
    BY <1>0, <1>t, <2>1 DEF IInv, TypeOK, ClientTypeOK
  <2> QED BY <1>0, <1>t, <2>1, <2>2, ClientKeeps
<1>3. CASE Subscribe(p)
  <2>1. /\ call' = [call EXCEPT ![p] = "subscribed"] /\ call[p] = "idle"
        /\ UNCHANGED <<messages, compaction, store, lastRef, fired, wk, out, inbox,
                       notified, compactCall, controls, cleared>>
    BY <1>3 DEF Subscribe, workerVars
  <2>2. ClientTypeOK'
    BY <1>0, <1>t, <2>1 DEF IInv, TypeOK, ClientTypeOK
  <2>3. turn' = Subscribed(turn, p)
    BY <1>3 DEF Subscribe
  <2> QED BY <1>s, <1>t, <2>1, <2>2, <2>3, ClientKeeps
<1>4. CASE Stream(p)
  <2>1. CASE Busy
    <3>1. /\ call' = [call EXCEPT ![p] = "busy"] /\ Broadcast(p, <<"error", "done">>)
          /\ UNCHANGED <<turn, lastRef, wk, messages, compaction, store, fired, out,
                         notified, compactCall, controls, cleared>>
      BY <1>4, <2>1 DEF Stream
    <3>2. inbox' \in [Prompts -> Seq(StreamEvents \cup {"done"})]
      <4>1. <<"error", "done">> \in Seq(StreamEvents \cup {"done"})
        BY SMT DEF StreamEvents
      <4> QED BY <1>0, <3>1, <4>1, BroadcastType
    <3>3. ClientTypeOK'
      BY <1>t, <3>1, <3>2 DEF IInv, TypeOK, ClientTypeOK
    <3> QED BY <1>0, <1>t, <3>1, <3>3, ClientKeeps
  <2>2. CASE ~Busy
    <3>1. /\ BeginTurn(p, "stream") /\ call[p] = "subscribed"
          /\ UNCHANGED <<messages, compaction, store, fired, out, inbox, notified,
                         compactCall, controls, cleared>>
      BY <1>4, <2>2 DEF Stream
    <3> QED BY <2>2, <3>1, BeginKeeps
  <2> QED BY <2>1, <2>2
<1>5. CASE Unsubscribe(p)
  <2>1. /\ \/ call' = call /\ controls' = controls
           \/ call' = [call EXCEPT ![p] = "gone"] /\ controls' = controls + 1
        /\ UNCHANGED <<messages, compaction, store, lastRef, fired, wk, out, inbox,
                       notified, compactCall, cleared>>
    BY <1>5 DEF Unsubscribe, workerVars
  <2>2. ClientTypeOK'
    <3>1. call' \in [Prompts -> Answers] /\ controls' \in Nat
      BY <1>0, <1>t, <2>1
    <3> QED BY <2>1, <3>1 DEF IInv, TypeOK, ClientTypeOK
  <2>3. turn' = Unsubscribed(turn, p)
    BY <1>5 DEF Unsubscribe
  <2> QED BY <1>s, <1>t, <2>1, <2>2, <2>3, ClientKeeps
<1>6. CASE SubscriberDown(p)
  <2>1. /\ call' = [call EXCEPT ![p] = "gone"] /\ controls' = controls + 1
        /\ UNCHANGED <<messages, compaction, store, lastRef, fired, wk, out, inbox,
                       notified, compactCall, cleared>>
    BY <1>6 DEF SubscriberDown, workerVars
  <2>2. ClientTypeOK'
    BY <1>0, <1>t, <2>1 DEF IInv, TypeOK, ClientTypeOK
  <2>3. turn' = Unsubscribed(turn, p)
    BY <1>6 DEF SubscriberDown
  <2> QED BY <1>s, <1>t, <2>1, <2>2, <2>3, ClientKeeps
<1> QED BY <1>1, <1>2, <1>3, <1>4, <1>5, <1>6

(* steer and follow_up keep the invariant. *)
LEMMA SteerKeeps ==
    ASSUME IInv, Steer
    PROVE  IInv'
<1>0. turn \in Turns /\ controls \in Nat
  BY Typed
<1>1. turn' = Steered(turn, controls) \/ turn' = FollowedUp(turn, controls)
  BY DEF Steer
<1>2. /\ turn' \in Turns /\ turn'.streaming = turn.streaming
      /\ turn'.abort_ref = turn.abort_ref
      /\ turn'.recipient = turn.recipient /\ turn'.worker = turn.worker
      /\ turn'.prompt_index = turn.prompt_index
  BY <1>0, <1>1, SteeredType
<1>3. /\ controls' = controls + 1
      /\ UNCHANGED <<messages, compaction, store, lastRef, fired, wk, out, call, inbox,
                     notified, compactCall, cleared>>
  BY DEF Steer, workerVars, clientVars
<1>4. ClientTypeOK'
  BY <1>0, <1>3 DEF IInv, TypeOK, ClientTypeOK
<1> QED BY <1>2, <1>3, <1>4, ClientKeeps

-----------------------------------------------------------------------------
(* abort_turn, and the handlers that call it.  A worker is woken and, if it was held
   at a checkpoint, sent on to fail. *)
LEMMA AbortedWorker ==
    ASSUME IInv, NEW p \in Prompts, NEW w,
           w = [wk[p] EXCEPT !.woken = @ \/ p = turn.worker,
                             !.pc = IF HeldAtCheckpoint(p) THEN "failed" ELSE @]
    PROVE  /\ w \in Workers /\ w.ref = wk[p].ref /\ w.reply = wk[p].reply
           /\ w.pc = IF HeldAtCheckpoint(p) THEN "failed" ELSE wk[p].pc
<1>1. wk[p] \in Workers /\ wk[p].pc \in PCs
  BY WorkerOf
<1> DEFINE b == wk[p].woken \/ p = turn.worker
           v == [wk[p] EXCEPT !.woken = b]
           pc == IF HeldAtCheckpoint(p) THEN "failed" ELSE wk[p].pc
<1>2. b \in BOOLEAN
  OBVIOUS
<1>3. v.pc = wk[p].pc /\ v \in Workers /\ v.ref = wk[p].ref /\ v.reply = wk[p].reply
  <2>1. \A c \in BOOLEAN : \A d : d = [wk[p] EXCEPT !.woken = c] =>
           d.pc = wk[p].pc /\ d \in Workers /\ d.ref = wk[p].ref /\ d.reply = wk[p].reply
    BY <1>1, WorkerWoken
  <2> QED BY <1>2, <2>1, Zenon
<1>4. pc \in PCs
  BY <1>1 DEF PCs
<1>5. w = [v EXCEPT !.pc = pc]
  <2>1. w = [v EXCEPT !.pc = IF HeldAtCheckpoint(p) THEN "failed" ELSE v.pc]
    OBVIOUS
  <2> HIDE DEF v
  <2> QED BY <1>3, <2>1
<1> HIDE DEF v
<1> QED
  <2>1. w.pc = pc /\ w \in Workers /\ w.ref = v.ref /\ w.reply = v.reply
    <3>1. \A c \in PCs : \A d : d = [v EXCEPT !.pc = c] =>
             d.pc = c /\ d \in Workers /\ d.ref = v.ref /\ d.reply = v.reply
      BY <1>3, WorkerPc
    <3> HIDE DEF pc
    <3> QED BY <1>4, <1>5, <3>1, Zenon
  <2> QED BY <1>3, <2>1

(* abort_turn keeps the invariant: the released worker fails, nobody is left waiting. *)
LEMMA AbortKeeps ==
    ASSUME IInv, NEW heard, NEW c, Fits(c), AbortTurn(heard, c),
           \A p \in Prompts : heard[p] \in Seq(StreamEvents \cup {"done"}),
           out' \in [Prompts -> Seq(Wires)],
           \A p \in Prompts : /\ Queue(out'[p], wk[p].pc)
                              /\ out[p] = <<>> => out'[p] = <<>>,
           messages' \in Histories, store' \in Stores, fired' = fired,
           controls' \in Nat, cleared' \subseteq Prompts
    PROVE  IInv'
<1>0. /\ lastRef \in Nat /\ turn \in Turns /\ fired \subseteq Nat
      /\ call \in [Prompts -> Answers] /\ notified \in Seq(Prompts)
      /\ compactCall \in {"idle", "waiting", "ok", "error", "busy", "aborted"}
      /\ inbox \in [Prompts -> Seq(StreamEvents \cup {"done"})]
      /\ turn.recipient \in Prompts \cup {Nil} /\ Nil \notin Prompts
  BY Typed
<1>1. /\ lastRef' = lastRef + 1 /\ turn' = AbandonTurn(turn, lastRef + 1)
      /\ compaction' = [c EXCEPT !.waiter = Nil]
      /\ call' = [p \in Prompts |-> AbortAnswer(p)]
      /\ compactCall' \in {compactCall, "aborted"}
      /\ notified' \in {notified, Append(notified, turn.recipient)}
      /\ turn.recipient = Nil => notified' = notified
  BY DEF AbortTurn
<1>2. ASSUME NEW p \in Prompts
      PROVE  /\ wk'[p] \in Workers /\ wk'[p].ref = wk[p].ref /\ wk'[p].reply = wk[p].reply
             /\ wk'[p].pc = IF HeldAtCheckpoint(p) THEN "failed" ELSE wk[p].pc
  <2>1. wk'[p] = [wk[p] EXCEPT !.woken = @ \/ p = turn.worker,
                               !.pc = IF HeldAtCheckpoint(p) THEN "failed" ELSE @]
    BY DEF AbortTurn
  <2> QED BY <2>1, AbortedWorker
<1>3. /\ turn' \in Turns /\ ~turn'.streaming /\ turn'.abort_ref = lastRef + 1
      /\ turn'.recipient = Nil /\ turn'.worker = Nil /\ turn'.prompt_index = Nil
  <2> DEFINE ref == lastRef + 1
  <2>1. ref \in Nat /\ turn' = AbandonTurn(turn, ref)
    BY <1>0, <1>1
  <2> HIDE DEF ref
  <2>2. /\ turn' \in Turns /\ ~turn'.streaming /\ turn'.abort_ref = ref
        /\ turn'.recipient = Nil /\ turn'.worker = Nil /\ turn'.prompt_index = Nil
    <3>1. turn \in Turns
      BY <1>0
    <3> QED BY <2>1, <3>1, AbandonTurnType
  <2> QED BY <2>2 DEF ref
<1>4. Fits(compaction)' /\ compaction'.waiter = Nil
  <2>1. c \in Compactions
    BY DEF Fits
  <2>2. /\ compaction' \in Compactions /\ compaction'.waiter = Nil
        /\ compaction'.task = c.task /\ compaction'.prefix = c.prefix
        /\ compaction'.result = c.result
    <3>1. compaction' = [c EXCEPT !.waiter = Nil] /\ Nil \in Waiters \cup {Nil}
      BY <1>1
    <3>2. PICK d : d = compaction'
      OBVIOUS
    <3>3. /\ d \in Compactions /\ d.waiter = Nil /\ d.task = c.task /\ d.prefix = c.prefix
          /\ d.result = c.result
      BY <2>1, <3>1, <3>2, WithWaiter, ZenonT(60)
    <3> QED BY <3>2, <3>3
  <2> QED BY <2>2 DEF Fits
<1>5. \A p \in Prompts : call'[p] \in Answers /\ call'[p] # "waiting"
                         /\ (call'[p] \in {"idle", "subscribed"} => call'[p] = call[p])
  <2> SUFFICES ASSUME NEW p \in Prompts
               PROVE  call'[p] \in Answers /\ call'[p] # "waiting"
                      /\ (call'[p] \in {"idle", "subscribed"} => call'[p] = call[p])
    OBVIOUS
  <2>1. call'[p] = IF p = turn.recipient /\ call[p] = "waiting" THEN "aborted" ELSE call[p]
    BY <1>1 DEF AbortAnswer
  <2>2. call[p] = "waiting" => p = turn.recipient
    BY DEF IInv, Calls
  <2> QED BY <1>0, <2>1, <2>2, AnswersHold
<1>6. inbox' \in [Prompts -> Seq(StreamEvents \cup {"done"})]
  <2> DEFINE E == StreamEvents \cup {"done"}
  <2>1. \A p \in Prompts : Closing(p) \in Seq(E)
    <3>1. <<"error", "done">> \in Seq(E) /\ <<>> \in Seq(E)
      BY SMT DEF StreamEvents
    <3> QED BY <3>1, Zenon DEF Closing
  <2> HIDE DEF E
  <2>2. /\ inbox \in [Prompts -> Seq(E)]
        /\ \A p \in Prompts : heard[p] \in Seq(E)
        /\ inbox' = [p \in Prompts |->
                       IF p \in turn.subscribers THEN inbox[p] \o heard[p] \o Closing(p)
                       ELSE inbox[p]]
    BY <1>0 DEF E, AbortTurn
  <2>3. \A p \in Prompts : inbox[p] \o heard[p] \o Closing(p) \in Seq(E)
    BY <2>1, <2>2, ConcatProperties
  <2>4. inbox' \in [Prompts -> Seq(E)]
    BY <2>2, <2>3
  <2> QED BY <2>4 DEF E
<1>7. TypeOK'
  <2>1. TurnTypeOK'
    BY <1>3 DEF TurnTypeOK
  <2>2. DataTypeOK'
    BY <1>0, <1>1, <1>4 DEF DataTypeOK, Fits
  <2>3. WorkerTypeOK'
    <3>1. DOMAIN wk' = Prompts /\ wk' = [p \in Prompts |-> wk'[p]]
      BY DEF AbortTurn
    <3> QED BY <1>2, <3>1 DEF WorkerTypeOK
  <2>4. ClientTypeOK'
    <3>1. notified' \in Seq(Prompts)
      <4>1. notified' = notified
            \/ (turn.recipient \in Prompts /\ notified' = Append(notified, turn.recipient))
        BY <1>0, <1>1
      <4>2. notified \in Seq(Prompts)
        BY <1>0
      <4> QED BY <4>1, <4>2, AppendProperties
    <3>2. call' \in [Prompts -> Answers]
      <4>1. call' = [p \in Prompts |-> call'[p]]
        BY <1>1
      <4> QED BY <1>5, <4>1
    <3> QED BY <1>0, <1>1, <1>6, <3>1, <3>2 DEF ClientTypeOK
  <2> QED BY <2>1, <2>2, <2>3, <2>4 DEF TypeOK
<1>h. \A p \in Prompts : HeldAtCheckpoint(p) => wk[p].pc = "checkpoint" /\ out[p] = <<>>
  BY DEF HeldAtCheckpoint, IInv, Waiting
<1>r. \A p \in Prompts : wk[p].ref \in Nat /\ wk[p].ref <= lastRef
  BY WorkerOf DEF IInv, Refs
<1>8. Refs'
  <2>1. turn'.abort_ref <= lastRef'
    BY <1>0, <1>1, <1>3
  <2>2. ASSUME NEW p \in Prompts
        PROVE  wk'[p].ref <= lastRef' /\ (wk'[p].pc = "none" <=> wk'[p].ref = 0)
    <3>1. wk[p].ref <= lastRef + 1
      BY <1>0, <1>r
    <3>2. (wk[p].pc = "none" <=> wk[p].ref = 0)
      BY DEF IInv, Refs
    <3> QED BY <1>1, <1>2, <1>h, <3>1, <3>2
  <2>3. ASSUME NEW p \in Prompts, NEW q \in Prompts, p # q, wk'[p].ref = wk'[q].ref
        PROVE  wk'[p].ref = 0
    BY <1>2, <2>3 DEF IInv, Refs
  <2> QED BY <2>1, <2>2, <2>3 DEF Refs
<1>9. Queues'
  <2> SUFFICES ASSUME NEW p \in Prompts
               PROVE  Queue(out'[p], wk'[p].pc) /\ (wk'[p].pc = "none" => out'[p] = <<>>)
    BY DEF Queues
  <2>1. CASE HeldAtCheckpoint(p)
    <3>1. out'[p] = <<>> /\ wk'[p].pc = "failed"
      BY <1>2, <1>h, <2>1
    <3> QED BY <3>1, PlainEmpty, PlainQueue
  <2>2. CASE ~HeldAtCheckpoint(p)
    BY <1>2, <2>2 DEF IInv, Queues
  <2> QED BY <2>1, <2>2
<1>10. Owners'
  <2>1. ASSUME NEW p \in Prompts
        PROVE  turn'.recipient # p /\ wk'[p].ref # turn'.abort_ref
    <3>1. wk'[p].ref = wk[p].ref /\ wk[p].ref \in Nat /\ wk[p].ref <= lastRef
      BY <1>2, <1>r
    <3> QED BY <1>0, <1>3, <3>1
  <2> QED BY <2>1 DEF Owners
<1>11. Calls'
  BY <1>2, <1>5 DEF IInv, Calls
<1>12. Waiting'
  BY <1>4 DEF Waiting
<1>13. Answered'
  BY <1>2 DEF IInv, Answered
<1> QED BY <1>4, <1>7, <1>8, <1>9, <1>10, <1>11, <1>12, <1>13 DEF IInv

(* Nothing was heard before an abort or a clear. *)
LEMMA NothingHeardType ==
    \A p \in Prompts : NothingHeard[p] \in Seq(StreamEvents \cup {"done"})
BY SMT DEF NothingHeard

(* abort and clear keep the invariant. *)
LEMMA AbortClearKeeps ==
    ASSUME IInv, Abort \/ Clear
    PROVE  IInv'
<1>0. /\ out \in [Prompts -> Seq(Wires)] /\ controls \in Nat /\ cleared \subseteq Prompts
      /\ messages \in Histories /\ store \in Stores
      /\ compaction \in Compactions
  BY Typed
<1>1. out' = out /\ fired' = fired /\ controls' = controls + 1
  BY DEF Abort, Clear
<1>2. out' \in [Prompts -> Seq(Wires)] /\ controls' \in Nat
  BY <1>0, <1>1
<1>3. \A p \in Prompts : Queue(out'[p], wk[p].pc) /\ (out[p] = <<>> => out'[p] = <<>>)
  BY <1>1 DEF IInv, Queues
<1>4. CASE Abort
  <2>1. AbortTurn(NothingHeard, compaction) /\ messages' = messages /\ store' = store
        /\ cleared' = cleared
    BY <1>4 DEF Abort
  <2>2. Fits(compaction)
    BY DEF IInv
  <2>3. messages' \in Histories /\ store' \in Stores /\ cleared' \subseteq Prompts
    BY <1>0, <2>1
  <2> QED BY <1>1, <1>2, <1>3, <2>1, <2>2, <2>3, NothingHeardType, AbortKeeps
<1>5. CASE Clear
  <2> DEFINE c0 == CancelCompaction(compaction)
             c1 == [c0 EXCEPT !.attempted = Nil]
             c2 == [c1 EXCEPT !.usage = Nil]
  <2>1. AbortTurn(NothingHeard, c2) /\ messages' = <<>> /\ ClearSnapshot
        /\ cleared' \subseteq Prompts
    BY <1>5 DEF Clear
  <2>2. c0 \in Compactions /\ c0.task = 0 /\ c0.result = Nil
    BY <1>0, CancelType DEF Fits
  <2> HIDE DEF c0
  <2>3. c1 \in Compactions /\ c1.task = 0 /\ c1.result = Nil
    BY <2>2, WithAttempted
  <2> HIDE DEF c1
  <2>4. c2 \in Compactions /\ c2.task = 0 /\ c2.result = Nil
    BY <2>3, WithUsage
  <2> HIDE DEF c2
  <2>5. Fits(c2)
    BY <2>4 DEF Fits
  <2>6. messages' \in Histories /\ store' \in Stores
    BY <1>0, <2>1, EmptyHistory, StoreWritten
  <2> QED BY <1>1, <1>2, <1>3, <2>1, <2>5, <2>6, NothingHeardType, AbortKeeps
<1> QED BY <1>4, <1>5

-----------------------------------------------------------------------------
(* The session handles a message of a worker. *)

(* What the session knows of a worker whose message it handles. *)
LEMMA Popped ==
    ASSUME IInv, NEW p \in Prompts, out[p] # <<>>, Pop(p)
    PROVE  /\ out' \in [Prompts -> Seq(Wires)]
           /\ \A q \in Prompts : /\ Queue(out'[q], wk[q].pc)
                                 /\ out[q] = <<>> => out'[q] = <<>>
                                 /\ q # p => out'[q] = out[q]
           /\ Head(out[p]) \in Wires
           /\ Head(out[p]).type \in {"complete", "call"} => out'[p] = <<>>
           /\ Head(out[p]).type = "complete" => wk[p].pc = "done"
           /\ Head(out[p]).type = "call" => wk[p].pc \in Asks
           /\ wk[p].ref # 0 /\ wk[p].pc # "none"
           /\ wk[p].ref = turn.abort_ref => turn.recipient = p
<1>1. out \in [Prompts -> Seq(Wires)]
  BY Typed
<1>2. out'[p] = Tail(out[p]) /\ \A q \in Prompts : q # p => out'[q] = out[q]
  BY <1>1 DEF Pop
<1>3. \A q \in Prompts : Queue(out[q], wk[q].pc)
  BY DEF IInv, Queues
<1>4. /\ Head(out[p]) \in Wires
      /\ Queue(Tail(out[p]), wk[p].pc)
      /\ Head(out[p]).type \in {"complete", "call"} => Tail(out[p]) = <<>>
      /\ Head(out[p]).type = "complete" => wk[p].pc = "done"
      /\ Head(out[p]).type = "call" => wk[p].pc \in Asks
  BY <1>3, QueueTail
<1>5. out' \in [Prompts -> Seq(Wires)]
  <2>1. Tail(out[p]) \in Seq(Wires)
    BY <1>4 DEF Queue
  <2> QED BY <1>1, <2>1 DEF Pop
<1>6. wk[p].ref # 0 /\ wk[p].pc # "none"
  BY DEF IInv, Queues, Refs
<1>7. wk[p].ref = turn.abort_ref => turn.recipient = p
  BY <1>6 DEF IInv, Owners
<1> QED BY <1>2, <1>3, <1>4, <1>5, <1>6, <1>7

(* A message is handled that leaves the turn, the workers and the calls alone. *)
LEMMA PoppedKeeps ==
    ASSUME IInv, NEW p \in Prompts, out[p] # <<>>, Pop(p), ClientTypeOK', DataTypeOK',
           Fits(compaction)', compaction'.task = compaction.task,
           compaction'.waiter = compaction.waiter,
           UNCHANGED <<turn, lastRef, wk, call, compactCall>>
    PROVE  IInv'
<1>1. /\ out' \in [Prompts -> Seq(Wires)]
      /\ \A q \in Prompts : Queue(out'[q], wk[q].pc) /\ (out[q] = <<>> => out'[q] = <<>>)
  BY Popped
<1>2. TypeOK'
  BY <1>1 DEF IInv, TypeOK, TurnTypeOK, WorkerTypeOK
<1>3. Refs' /\ Calls' /\ Answered'
  BY DEF IInv, Refs, Calls, Answered
<1>4. Queues'
  BY <1>1 DEF IInv, Queues
<1>5. Owners'
  BY <1>1 DEF IInv, Owners
<1>6. Waiting'
  BY <1>1 DEF IInv, Waiting
<1> QED BY <1>2, <1>3, <1>4, <1>5, <1>6 DEF IInv

(* broadcast_event keeps the invariant, also when handle_event stops the turn. *)
LEMMA HandleEventKeeps ==
    ASSUME IInv, NEW p \in Prompts, HandleEvent(p)
    PROVE  IInv'
<1> DEFINE ev == Head(out[p]).arg
<1>0. /\ out[p] # <<>> /\ Pop(p) /\ Head(out[p]).type = "event"
      /\ UNCHANGED <<messages, store, fired, cleared>>
  BY DEF HandleEvent, HeadIs
<1>1. ev \in StreamEvents
  BY <1>0, Popped, WireArgs
<1>2. <<ev>> \in Seq(StreamEvents \cup {"done"})
  <2> HIDE DEF ev
  <2> QED BY <1>1
<1>3. \/ /\ UNCHANGED <<turn, lastRef, compaction, wk, clientVars, compactCall>>
      \/ /\ Broadcast(p, <<ev>>)
         /\ UNCHANGED <<turn, lastRef, compaction, wk, call, notified, compactCall>>
      \/ AbortTurn([NothingHeard EXCEPT ![p] = <<ev>>], compaction)
  BY DEF HandleEvent
<1>4. controls' \in Nat
  BY Typed DEF HandleEvent
<1>5. CASE UNCHANGED <<turn, lastRef, compaction, wk, clientVars, compactCall>>
  <2>1. ClientTypeOK' /\ DataTypeOK' /\ Fits(compaction)' /\ call' = call
    BY <1>0, <1>5, <1>4 DEF IInv, TypeOK, ClientTypeOK, DataTypeOK, clientVars
  <2> QED BY <1>0, <1>5, <2>1, PoppedKeeps
<1>6. CASE /\ Broadcast(p, <<ev>>)
           /\ UNCHANGED <<turn, lastRef, compaction, wk, call, notified, compactCall>>
  <2>1. inbox' \in [Prompts -> Seq(StreamEvents \cup {"done"})]
    BY <1>2, <1>6, Typed, BroadcastType
  <2>2. ClientTypeOK' /\ DataTypeOK' /\ Fits(compaction)'
    BY <1>0, <1>6, <1>4, <2>1 DEF IInv, TypeOK, ClientTypeOK, DataTypeOK
  <2> QED BY <1>0, <1>6, <2>2, PoppedKeeps
<1>7. CASE AbortTurn([NothingHeard EXCEPT ![p] = <<ev>>], compaction)
  <2> DEFINE heard == [NothingHeard EXCEPT ![p] = <<ev>>]
  <2>1. \A q \in Prompts : heard[q] \in Seq(StreamEvents \cup {"done"})
    <3>1. \A q \in Prompts : heard[q] = IF q = p THEN <<ev>> ELSE NothingHeard[q]
      <4> HIDE DEF ev
      <4> QED BY DEF NothingHeard
    <3> HIDE DEF ev, heard
    <3> QED BY <1>2, <3>1, NothingHeardType
  <2> HIDE DEF heard
  <2>2. Fits(compaction) /\ AbortTurn(heard, compaction)
    BY <1>7 DEF IInv, heard
  <2>3. /\ messages' \in Histories /\ store' \in Stores
        /\ controls' \in Nat /\ cleared' \subseteq Prompts /\ fired' = fired
    BY <1>0, <1>4, Typed
  <2>4. /\ out' \in [Prompts -> Seq(Wires)]
        /\ \A q \in Prompts : Queue(out'[q], wk[q].pc) /\ (out[q] = <<>> => out'[q] = <<>>)
    BY <1>0, Popped
  <2> QED BY <2>1, <2>2, <2>3, <2>4, AbortKeeps
<1> QED BY <1>3, <1>5, <1>6, <1>7

(* compaction_usage keeps the invariant. *)
LEMMA HandleUsageKeeps ==
    ASSUME IInv, NEW p \in Prompts, HandleUsage(p)
    PROVE  IInv'
<1> DEFINE u == Head(out[p]).arg
<1>0. /\ out[p] # <<>> /\ Pop(p) /\ Head(out[p]).type = "usage"
      /\ compaction' = compaction \/ compaction' = [compaction EXCEPT !.usage = u]
      /\ UNCHANGED <<turn, messages, store, lastRef, fired, wk, call, inbox, notified,
                     compactCall, controls, cleared>>
  BY DEF HandleUsage, HeadIs, clientVars
<1>1. u \in Usages
  BY <1>0, Popped, WireArgs
<1>2. compaction \in Compactions /\ Fits(compaction)
  BY DEF IInv, Fits
<1>3. /\ compaction' \in Compactions /\ compaction'.task = compaction.task
      /\ compaction'.prefix = compaction.prefix /\ compaction'.result = compaction.result
      /\ compaction'.waiter = compaction.waiter
  <2> HIDE DEF u
  <2>1. compaction' = compaction \/ compaction' = [compaction EXCEPT !.usage = u]
    BY <1>0
  <2> QED BY <1>1, <1>2, <2>1, WithUsage
<1>4. Fits(compaction)'
  BY <1>2, <1>3 DEF Fits
<1>5. ClientTypeOK' /\ DataTypeOK'
  BY <1>0, <1>3 DEF IInv, TypeOK, ClientTypeOK, DataTypeOK
<1> QED BY <1>0, <1>3, <1>4, <1>5, PoppedKeeps

(* Answering check_turn keeps the invariant. *)
LEMMA HandleCheckKeeps ==
    ASSUME IInv, NEW p \in Prompts, HandleCheck(p)
    PROVE  IInv'
<1>0. /\ out[p] # <<>> /\ Pop(p) /\ Head(out[p]).type = "call"
      /\ UNCHANGED <<sessionVars, lastRef, fired, clientVars, compactCall, controls, cleared>>
  BY DEF HandleCheck, HeadIs
<1>1. wk[p].pc \in Asks /\ out'[p] = <<>> /\ wk[p] \in Workers
  BY <1>0, Popped, WorkerOf
<1> DEFINE pc == IF Current(turn, wk[p].ref) THEN Granted(wk[p].pc) ELSE "failed"
           w == [wk[p] EXCEPT !.pc = pc]
<1>2. wk' = [wk EXCEPT ![p] = w]
  BY DEF HandleCheck
<1>3. /\ pc \in {"checkpointed", "infer", "backoff", "answered", "failed"}
      /\ pc = "answered" => wk[p].pc = "after"
  <2>1. wk[p].pc \in {"checkpoint", "attempt", "wait", "after"}
    BY <1>1 DEF Asks
  <2> QED BY <2>1 DEF Granted
<1> HIDE DEF pc
<1>4. w \in Workers /\ w.ref = wk[p].ref /\ w.pc = pc /\ w.reply = wk[p].reply
  <2>1. pc \in PCs
    BY <1>3 DEF PCs
  <2> QED BY <1>1, <2>1, WorkerPc
<1> HIDE DEF w
<1>5. out' = [out EXCEPT ![p] = <<>>]
  BY <1>0, <1>1, Typed DEF Pop
<1>6. Queue(<<>>, w.pc)
  BY PlainEmpty, PlainQueue
<1>7. w.pc # "none" /\ wk[p].pc \notin {"none", "done"} /\ w.pc # "after"
  BY <1>1, <1>3, <1>4 DEF Asks
<1>8. w.pc \in {"after", "answered"} => w.reply \in {"assistant", "calls"}
  BY <1>3, <1>4, <1>7 DEF IInv, Answered
<1> QED BY <1>0, <1>2, <1>4, <1>5, <1>6, <1>7, <1>8, WorkerKeeps

(* maybe_compact keeps the history a history and touches no waiter. *)
LEMMA MaybeCompactType ==
    ASSUME IInv, NEW ms \in Histories, MaybeCompact(ms)
    PROVE  /\ messages' \in Histories /\ Fits(compaction)'
           /\ compaction'.waiter = compaction.waiter
           /\ lastRef' \in {lastRef, lastRef + 1}
<1>0. Fits(compaction) /\ lastRef \in Nat
  BY Typed DEF IInv
<1>1. CASE Policy
  <2> DEFINE taken == TakeResult(compaction, ms)
             c0 == taken.c
             m0 == taken.messages
             ref == lastRef + 1
             c == Background(c0, ref, m0, 1)
  <2>1. messages' = m0 /\ compaction' = c /\ lastRef' = RefUsed(c)
    BY <1>1 DEF MaybeCompact
  <2>2. Fits(c0) /\ c0.waiter = compaction.waiter /\ m0 \in Histories
    BY <1>0, TakeResultType
  <2> HIDE DEF taken, c0, m0
  <2>3. ref \in Nat \ {0}
    BY <1>0
  <2> HIDE DEF ref
  <2>4. Fits(c) /\ c.waiter = compaction.waiter
    BY <2>2, <2>3, BackgroundType
  <2> HIDE DEF c
  <2>5. RefUsed(c) \in {lastRef, lastRef + 1}
    BY DEF RefUsed
  <2> QED BY <2>1, <2>2, <2>4, <2>5
<1>2. CASE ~Policy
  BY <1>0, <1>2, AppliedType DEF MaybeCompact
<1> QED BY <1>1, <1>2

(* The running turn ends: its client is answered, the next one may come. *)
LEMMA EndKeeps ==
    ASSUME IInv, NEW p \in Prompts, NEW answer \in {"ok", "error"},
           out[p] # <<>>, Pop(p), Head(out[p]).type = "complete",
           wk[p].ref = turn.abort_ref, turn' = FinishTurn(turn), Reply(p, answer),
           messages' \in Histories, store' \in Stores, Fits(compaction)',
           compaction'.waiter = compaction.waiter, lastRef' \in {lastRef, lastRef + 1},
           inbox' \in [Prompts -> Seq(StreamEvents \cup {"done"})], notified' \in Seq(Prompts),
           UNCHANGED <<fired, wk, compactCall, controls, cleared>>
    PROVE  IInv'
<1>0. /\ turn \in Turns /\ lastRef \in Nat /\ turn.abort_ref \in Nat
      /\ call \in [Prompts -> Answers] /\ Nil \notin Prompts
      /\ turn.recipient \in Prompts \cup {Nil}
  BY Typed
<1>1. /\ out' \in [Prompts -> Seq(Wires)]
      /\ \A q \in Prompts : Queue(out'[q], wk[q].pc) /\ (out[q] = <<>> => out'[q] = <<>>)
      /\ out'[p] = <<>> /\ wk[p].pc = "done" /\ turn.recipient = p /\ wk[p].ref # 0
  BY Popped
<1>2. compaction.waiter = Nil
  BY <1>0, <1>1 DEF IInv, Waiting
<1>3. /\ turn' \in Turns /\ ~turn'.streaming /\ turn'.abort_ref = turn.abort_ref
      /\ turn'.recipient = Nil /\ turn'.worker = Nil /\ turn'.prompt_index = Nil
  <2>1. turn \in Turns
    BY <1>0
  <2> QED BY <2>1, FinishTurnType
<1>4. call' = [call EXCEPT ![p] = IF call[p] = "waiting" THEN answer ELSE call[p]]
  BY DEF Reply
<1>5. /\ call' \in [Prompts -> Answers]
      /\ \A q \in Prompts : q # p => call'[q] = call[q]
      /\ call'[p] # "waiting" /\ (call'[p] \in {"idle", "subscribed"} => call'[p] = call[p])
  BY <1>0, <1>4, AnswersHold
<1>6. TypeOK'
  <2>1. TurnTypeOK'
    BY <1>3 DEF TurnTypeOK
  <2>2. DataTypeOK'
    BY <1>0 DEF IInv, TypeOK, DataTypeOK, Fits
  <2>3. WorkerTypeOK' /\ ClientTypeOK'
    BY <1>1, <1>5 DEF IInv, TypeOK, WorkerTypeOK, ClientTypeOK
  <2> QED BY <2>1, <2>2, <2>3 DEF TypeOK
<1>7. Refs'
  <2>1. turn'.abort_ref <= lastRef'
    BY <1>0, <1>3 DEF IInv, Refs
  <2>2. \A q \in Prompts : wk[q].ref \in Nat /\ wk[q].ref <= lastRef
    BY WorkerOf DEF IInv, Refs
  <2>3. \A q \in Prompts : wk[q].ref <= lastRef'
    BY <1>0, <2>2
  <2> QED BY <2>1, <2>3 DEF IInv, Refs
<1>8. Queues'
  BY <1>1 DEF IInv, Queues
<1>9. Owners'
  BY <1>0, <1>1, <1>3 DEF IInv, Owners, Refs
<1>10. Calls'
  BY <1>1, <1>3, <1>5 DEF IInv, Calls
<1>11. Waiting'
  BY <1>2 DEF Waiting
<1>12. Answered'
  BY DEF IInv, Answered
<1> QED BY <1>6, <1>7, <1>8, <1>9, <1>10, <1>11, <1>12 DEF IInv

(* run_complete and stream_complete keep the invariant. *)
LEMMA HandleCompleteKeeps ==
    ASSUME IInv, NEW p \in Prompts, HandleComplete(p)
    PROVE  IInv'
<1> DEFINE ok == Head(out[p]).arg
           answer == IF ok THEN "ok" ELSE "error"
<1>0. /\ out[p] # <<>> /\ Pop(p) /\ Head(out[p]).type = "complete"
      /\ UNCHANGED <<fired, wk, compactCall, controls, cleared>>
  BY DEF HandleComplete, HeadIs
<1>1. ok \in BOOLEAN
  BY <1>0, Popped, WireArgs
<1>2. answer \in {"ok", "error"}
  BY Zenon
<1>3. /\ wk[p].msgs \in Histories /\ wk[p].base \in Histories /\ messages \in Histories
      /\ store \in Stores /\ notified \in Seq(Prompts)
      /\ inbox \in [Prompts -> Seq(StreamEvents \cup {"done"})]
      /\ Fits(compaction)
  BY WorkerOf, Typed DEF IInv
<1>4. CASE wk[p].ref # turn.abort_ref
  <2>1. UNCHANGED <<sessionVars, lastRef, clientVars>>
    BY <1>4 DEF HandleComplete
  <2>2. /\ ClientTypeOK' /\ DataTypeOK' /\ Fits(compaction)'
        /\ UNCHANGED <<turn, lastRef, wk, call, compactCall, compaction>>
    BY <1>0, <2>1 DEF IInv, TypeOK, ClientTypeOK, DataTypeOK, sessionVars, clientVars
  <2> QED BY <1>0, <2>2, PoppedKeeps
<1>5. CASE wk[p].ref = turn.abort_ref /\ wk[p].kind = "run"
  <2> DEFINE ms == RunList(p, ok)
  <2>1. /\ turn' = FinishTurn(turn) /\ Reply(p, answer)
        /\ store' = [store EXCEPT !.due = TRUE]
        /\ MaybeCompact(ms) \/ (messages' = ms /\ UNCHANGED <<compaction, lastRef>>)
        /\ inbox' = inbox /\ notified' = notified
    BY <1>5 DEF HandleComplete, RunComplete
  <2>2. ms \in Histories
    BY <1>3, Zenon DEF RunList
  <2> HIDE DEF ms, answer
  <2>3. /\ messages' \in Histories /\ Fits(compaction)'
        /\ compaction'.waiter = compaction.waiter /\ lastRef' \in {lastRef, lastRef + 1}
    <3>1. CASE MaybeCompact(ms)
      BY <2>2, <3>1, MaybeCompactType
    <3>2. CASE messages' = ms /\ UNCHANGED <<compaction, lastRef>>
      BY <1>3, <2>2, <3>2
    <3> QED BY <2>1, <3>1, <3>2
  <2>4. store' \in Stores
    BY <1>3, <2>1, StoreWritten
  <2> QED BY <1>0, <1>2, <1>3, <1>5, <2>1, <2>3, <2>4, EndKeeps
<1>6. CASE wk[p].ref = turn.abort_ref /\ wk[p].kind # "run"
  <2>1. StreamComplete(p, ok)
    BY <1>6 DEF HandleComplete
  <2>2. /\ turn' = FinishTurn(turn) /\ Reply(p, answer)
        /\ Broadcast(p, <<"done">>) /\ notified' = Append(notified, p)
        /\ \/ MaybeCompact(wk[p].msgs) /\ store' = [store EXCEPT !.due = TRUE]
           \/ UNCHANGED <<messages, compaction, store, lastRef>>
    BY <2>1 DEF StreamComplete
  <2> HIDE DEF answer
  <2>3. /\ messages' \in Histories /\ Fits(compaction)'
        /\ compaction'.waiter = compaction.waiter /\ lastRef' \in {lastRef, lastRef + 1}
        /\ store' \in Stores
    <3>1. CASE MaybeCompact(wk[p].msgs) /\ store' = [store EXCEPT !.due = TRUE]
      BY <1>3, <3>1, MaybeCompactType, StoreWritten
    <3>2. CASE UNCHANGED <<messages, compaction, store, lastRef>>
      BY <1>3, <3>2
    <3> QED BY <2>2, <3>1, <3>2
  <2>4. inbox' \in [Prompts -> Seq(StreamEvents \cup {"done"})]
    <3>1. <<"done">> \in Seq(StreamEvents \cup {"done"})
      OBVIOUS
    <3> QED BY <1>3, <2>2, <3>1, BroadcastType
  <2>5. notified' \in Seq(Prompts)
    BY <1>3, <2>2, AppendProperties
  <2> QED BY <1>0, <1>2, <1>6, <2>2, <2>3, <2>4, <2>5, EndKeeps
<1> QED BY <1>4, <1>5, <1>6

-----------------------------------------------------------------------------
(* The compaction checkpoint. *)

(* The list in front of the prompt is replaced and its index follows. *)
LEMMA ShiftedTurn ==
    ASSUME IInv, NEW old \in Histories, NEW new \in Histories, NEW t,
           t = [turn EXCEPT !.prompt_index = Shifted(@, old, new)]
    PROVE  /\ t \in Turns /\ t.streaming = turn.streaming /\ t.abort_ref = turn.abort_ref
           /\ t.recipient = turn.recipient /\ t.worker = turn.worker
           /\ t.prompt_index = Nil <=> turn.prompt_index = Nil
<1>0. turn \in Turns /\ turn.prompt_index \in Int \cup {Nil} /\ Nil \notin Int
  BY Typed, SessionAssumption
<1> DEFINE i == Shifted(turn.prompt_index, old, new)
<1>1. i \in Int \cup {Nil} /\ (i = Nil <=> turn.prompt_index = Nil)
  <2>1. CASE turn.prompt_index = Nil
    BY <2>1 DEF Shifted
  <2>2. CASE turn.prompt_index # Nil
    <3>1. i = turn.prompt_index + Len(new) - Len(old)
      BY <2>2 DEF Shifted
    <3>2. Len(new) \in Int /\ Len(old) \in Int /\ turn.prompt_index \in Int
      BY <1>0, <2>2, HistoryIsSeq
    <3>3. turn.prompt_index + Len(new) - Len(old) \in Int
      BY <3>2
    <3> HIDE DEF i
    <3> QED BY <1>0, <2>2, <3>1, <3>3
  <2> QED BY <2>1, <2>2
<1>2. t = [turn EXCEPT !.prompt_index = i]
  OBVIOUS
<1> HIDE DEF i
<1> QED
  <2>1. turn \in Turns /\ i \in Int \cup {Nil}
    BY <1>0, <1>1
  <2>2. /\ t \in Turns /\ t.streaming = turn.streaming /\ t.abort_ref = turn.abort_ref
        /\ t.recipient = turn.recipient /\ t.worker = turn.worker /\ t.prompt_index = i
    BY <1>2, <2>1, TurnPromptIndex
  <2> QED BY <1>1, <2>2

(* compaction_checkpoint_reply keeps the invariant, whoever asked. *)
LEMMA CheckpointReplyKeeps ==
    ASSUME IInv, NEW c0, Fits(c0), c0.waiter = Nil, NEW ms0 \in Histories, NEW from,
           NEW phase \in {"manual", "background", "fallback"},
           phase # "manual" => /\ from \in Prompts /\ turn.recipient = from
                               /\ wk[from].pc = "checkpoint" /\ out'[from] = <<>>,
           phase = "manual" => turn.recipient = Nil,
           CheckpointReply(c0, ms0, from, phase),
           out' \in [Prompts -> Seq(Wires)],
           \A q \in Prompts : /\ Queue(out'[q], wk[q].pc)
                              /\ out[q] = <<>> => out'[q] = <<>>,
           fired' \subseteq Nat, UNCHANGED <<clientVars, controls, cleared>>
    PROVE  IInv'
<1>0. /\ lastRef \in Nat /\ turn.prompt_index \in Int \cup {Nil}
      /\ store \in Stores /\ wk \in [Prompts -> Workers]
      /\ compactCall \in {"idle", "waiting", "ok", "error", "busy", "aborted"}
      /\ Nil \notin Prompts
  BY Typed
<1> DEFINE protected == IF turn.prompt_index = Nil THEN 1 ELSE Len(ms0) - turn.prompt_index
           ref == lastRef + 1
           r == Checkpoint(c0, ref, ms0, from, phase, protected)
<1>1. protected \in Int /\ ref \in Nat \ {0}
  BY <1>0, HistoryIsSeq
<1>2. /\ compaction' = r.c /\ lastRef' = RefUsed(r.c) /\ messages' = r.messages
      /\ turn' = [turn EXCEPT !.prompt_index = Shifted(@, ms0, r.messages)]
      /\ SaveSnapshot(r.messages) \/ UNCHANGED store
      /\ compactCall' \in {compactCall, "ok", "error"}
      /\ r.tag = "wait" => compactCall' = compactCall
      /\ wk' = IF phase = "manual" \/ r.tag = "wait" THEN wk
               ELSE IF r.tag = "continue"
               THEN [wk EXCEPT ![from].pc = "checkpointed", ![from].msgs = r.messages]
               ELSE [wk EXCEPT ![from].pc = "failed"]
  BY DEF CheckpointReply, SaveIfChanged
<1> HIDE DEF protected, ref
<1>3. Decided(r, c0, ref, from) /\ (phase = "manual" => r.tag # "wait")
  BY <1>1, CheckpointType
<1> HIDE DEF r
<1>4. /\ Fits(compaction)' /\ messages' \in Histories
      /\ lastRef' \in {lastRef, lastRef + 1}
      /\ store' \in Stores
  <2>1. r.messages \in Histories
    BY <1>3 DEF Decided
  <2>2. store' \in Stores
    BY <1>0, <1>2, <2>1, StoreWritten
  <2> QED BY <1>0, <1>2, <1>3, <2>2 DEF Decided, RefUsed
<1>5. /\ turn' \in Turns /\ turn'.streaming = turn.streaming
      /\ turn'.abort_ref = turn.abort_ref /\ turn'.recipient = turn.recipient
      /\ turn'.worker = turn.worker
      /\ turn'.prompt_index = Nil <=> turn.prompt_index = Nil
  <2>1. r.messages \in Histories
    BY <1>3 DEF Decided
  <2>2. turn' = [turn EXCEPT !.prompt_index = Shifted(@, ms0, r.messages)]
    BY <1>2
  <2>3. PICK t, new : t = turn' /\ new = r.messages
    OBVIOUS
  <2>4. new \in Histories /\ t = [turn EXCEPT !.prompt_index = Shifted(@, ms0, new)]
    BY <2>1, <2>2, <2>3
  <2>5. /\ t \in Turns /\ t.streaming = turn.streaming /\ t.abort_ref = turn.abort_ref
        /\ t.recipient = turn.recipient /\ t.worker = turn.worker
        /\ t.prompt_index = Nil <=> turn.prompt_index = Nil
    BY <2>4, ShiftedTurn, ZenonT(60)
  <2> QED BY <2>3, <2>5
<1>6. /\ wk' \in [Prompts -> Workers]
      /\ \A q \in Prompts : wk'[q].ref = wk[q].ref
      /\ \A q \in Prompts : \/ wk'[q] = wk[q]
                            \/ /\ q = from /\ phase # "manual"
                               /\ wk'[q].pc \in {"checkpointed", "failed"}
      /\ phase = "manual" \/ r.tag = "wait" => wk' = wk
  <2>1. CASE phase = "manual" \/ r.tag = "wait"
    BY <1>0, <1>2, <2>1
  <2>2. CASE ~(phase = "manual" \/ r.tag = "wait")
    <3>1. from \in Prompts /\ wk[from] \in Workers /\ r.messages \in Histories
      BY <1>3, <2>2, WorkerOf DEF Decided
    <3> DEFINE w1 == [wk[from] EXCEPT !.pc = "checkpointed"]
               w2 == [w1 EXCEPT !.msgs = r.messages]
               w3 == [wk[from] EXCEPT !.pc = "failed"]
    <3>2. wk' = [wk EXCEPT ![from] = w2] \/ wk' = [wk EXCEPT ![from] = w3]
      <4>1. CASE r.tag = "continue"
        <5>1. wk' = [wk EXCEPT ![from].pc = "checkpointed", ![from].msgs = r.messages]
          BY <1>2, <2>2, <4>1
        <5>2. wk' = [[wk EXCEPT ![from] = w1] EXCEPT ![from].msgs = r.messages]
          BY <5>1
        <5> DEFINE f == [wk EXCEPT ![from] = w1]
        <5>3. f[from] = w1 /\ f \in [Prompts -> Workers]
          <6>1. w1 \in Workers
            BY <3>1, WorkerPc DEF PCs
          <6> HIDE DEF w1
          <6> QED BY <1>0, <3>1, <6>1
        <5>4. wk' = [f EXCEPT ![from] = [f[from] EXCEPT !.msgs = r.messages]]
          BY <5>2
        <5>5. wk' = [f EXCEPT ![from] = w2]
          BY <5>3, <5>4, Zenon
        <5>6. [f EXCEPT ![from] = w2] = [wk EXCEPT ![from] = w2]
          <6> HIDE DEF w2, w1
          <6> QED BY <1>0, <3>1
        <5> QED BY <5>5, <5>6, Zenon
      <4>2. CASE r.tag # "continue"
        BY <1>2, <2>2, <4>2
      <4> QED BY <4>1, <4>2
    <3>3. w1 \in Workers /\ w1.ref = wk[from].ref /\ w1.pc = "checkpointed"
      BY <3>1, WorkerPc DEF PCs
    <3>4. w3 \in Workers /\ w3.ref = wk[from].ref /\ w3.pc = "failed"
      BY <3>1, WorkerPc DEF PCs
    <3> HIDE DEF w1, w3
    <3>5. w2 \in Workers /\ w2.ref = wk[from].ref /\ w2.pc = "checkpointed"
      BY <3>1, <3>3, WorkerMsgs
    <3> HIDE DEF w2
    <3> QED BY <1>0, <2>2, <3>1, <3>2, <3>4, <3>5
  <2> QED BY <2>1, <2>2
<1>7. TypeOK'
  <2>1. TurnTypeOK'
    BY <1>5 DEF IInv, TypeOK, TurnTypeOK
  <2>2. DataTypeOK'
    BY <1>0, <1>4 DEF DataTypeOK, Fits
  <2>3. WorkerTypeOK'
    BY <1>6 DEF WorkerTypeOK
  <2>4. ClientTypeOK'
    BY <1>0, <1>2 DEF IInv, TypeOK, ClientTypeOK, clientVars
  <2> QED BY <2>1, <2>2, <2>3, <2>4 DEF TypeOK
<1>8. Refs'
  <2>1. \A q \in Prompts : wk[q].ref \in Nat /\ wk[q].ref <= lastRef
    BY WorkerOf DEF IInv, Refs
  <2>2. \A q \in Prompts : wk'[q].ref <= lastRef'
    BY <1>0, <1>4, <1>6, <2>1
  <2>3. turn'.abort_ref <= lastRef'
    <3>1. turn.abort_ref \in Nat /\ turn.abort_ref <= lastRef
      BY Typed DEF IInv, Refs
    <3> QED BY <1>0, <1>4, <1>5, <3>1
  <2>4. \A q \in Prompts : wk'[q].pc = "none" <=> wk'[q].ref = 0
    BY <1>6 DEF IInv, Refs
  <2>5. \A p, q \in Prompts : p # q /\ wk'[p].ref = wk'[q].ref => wk'[p].ref = 0
    BY <1>6 DEF IInv, Refs
  <2> QED BY <2>2, <2>3, <2>4, <2>5 DEF Refs
<1>9. Queues'
  <2> SUFFICES ASSUME NEW q \in Prompts
               PROVE  Queue(out'[q], wk'[q].pc) /\ (wk'[q].pc = "none" => out'[q] = <<>>)
    BY DEF Queues
  <2>1. CASE wk'[q] = wk[q]
    BY <2>1 DEF IInv, Queues
  <2>2. CASE q = from /\ phase # "manual" /\ wk'[q].pc \in {"checkpointed", "failed"}
    BY <2>2, PlainEmpty, PlainQueue
  <2> QED BY <1>6, <2>1, <2>2
<1>10. Owners'
  <2> SUFFICES ASSUME NEW q \in Prompts
               PROVE  /\ turn'.recipient = q => wk'[q].ref = turn'.abort_ref /\ wk'[q].ref # 0
                      /\ wk'[q].ref # 0 /\ wk'[q].ref = turn'.abort_ref /\ turn'.recipient # q
                         => out'[q] = <<>> /\ wk'[q].pc = "done"
    BY DEF Owners
  <2>1. CASE wk'[q] = wk[q]
    BY <1>5, <2>1 DEF IInv, Owners
  <2>2. CASE q = from /\ phase # "manual"
    BY <1>5, <1>6, <2>2 DEF IInv, Owners
  <2> QED BY <1>6, <2>1, <2>2
<1>11. Calls'
  BY <1>5, <1>6 DEF IInv, Calls, clientVars
<1>12. Waiting'
  <2>1. CASE r.tag = "wait"
    <3>1. /\ phase # "manual" /\ wk' = wk
          /\ compaction'.task # 0 /\ compaction'.waiter.from = from
          /\ compaction'.waiter.phase \in {"background", "fallback"}
      BY <1>2, <1>3, <1>6, <2>1 DEF Decided
    <3> QED BY <1>5, <3>1 DEF Waiting
  <2>2. CASE r.tag # "wait"
    <3>1. compaction'.waiter = Nil
      BY <1>2, <1>3, <2>2 DEF Decided
    <3> QED BY <3>1 DEF Waiting
  <2> QED BY <2>1, <2>2
<1>13. Answered'
  BY <1>6 DEF IInv, Answered
<1> QED BY <1>4, <1>7, <1>8, <1>9, <1>10, <1>11, <1>12, <1>13 DEF IInv

(* compaction_checkpoint keeps the invariant. *)
LEMMA HandleCheckpointKeeps ==
    ASSUME IInv, NEW p \in Prompts, HandleCheckpoint(p)
    PROVE  IInv'
<1>0. /\ out[p] # <<>> /\ Pop(p) /\ Head(out[p]).type = "call"
      /\ wk[p].pc = "checkpoint"
      /\ UNCHANGED <<fired, clientVars, controls, cleared>>
  BY DEF HandleCheckpoint, HeadIs
<1>1. /\ out' \in [Prompts -> Seq(Wires)]
      /\ \A q \in Prompts : Queue(out'[q], wk[q].pc) /\ (out[q] = <<>> => out'[q] = <<>>)
      /\ out'[p] = <<>>
      /\ wk[p].ref = turn.abort_ref => turn.recipient = p
  BY <1>0, Popped
<1>2. /\ wk[p] \in Workers /\ wk[p].msgs \in Histories /\ fired \subseteq Nat
      /\ out \in [Prompts -> Seq(Wires)] /\ Nil \notin Prompts
  BY WorkerOf, Typed
<1>3. CASE Current(turn, wk[p].ref)
  <2>1. turn.recipient = p
    BY <1>1, <1>3 DEF Current
  <2>2. compaction.waiter = Nil
    BY <1>0, <1>2, <2>1 DEF IInv, Waiting
  <2>3. CheckpointReply(compaction, wk[p].msgs, p, "background")
    BY <1>3 DEF HandleCheckpoint
  <2>4. Fits(compaction) /\ fired' \subseteq Nat
    BY <1>0, <1>2 DEF IInv
  <2> QED BY <1>0, <1>1, <1>2, <2>1, <2>2, <2>3, <2>4, CheckpointReplyKeeps
<1>4. CASE ~Current(turn, wk[p].ref)
  <2> DEFINE w == [wk[p] EXCEPT !.pc = "failed"]
  <2>1. wk' = [wk EXCEPT ![p] = w] /\ UNCHANGED <<sessionVars, lastRef, compactCall>>
    BY <1>4 DEF HandleCheckpoint
  <2>2. w \in Workers /\ w.ref = wk[p].ref /\ w.pc = "failed"
    BY <1>2, WorkerPc DEF PCs
  <2> HIDE DEF w
  <2>3. out' = [out EXCEPT ![p] = <<>>]
    BY <1>0, <1>1, <1>2 DEF Pop
  <2>4. Queue(<<>>, w.pc)
    BY PlainEmpty, PlainQueue
  <2> QED BY <1>0, <2>1, <2>2, <2>3, <2>4, WorkerKeeps
<1> QED BY <1>3, <1>4

-----------------------------------------------------------------------------
(* The compaction task ends, by its answer or by its timeout. *)

(* compaction_finished keeps the invariant, with and without a waiter. *)
LEMMA CompactionFinishedKeeps ==
    ASSUME IInv, NEW c, Fits(c), c.task = 0, c.waiter = compaction.waiter,
           CompactionFinished(c), fired' \subseteq Nat,
           UNCHANGED <<out, clientVars, controls, cleared>>
    PROVE  IInv'
<1>0. /\ messages \in Histories /\ store \in Stores /\ lastRef \in Nat
      /\ out \in [Prompts -> Seq(Wires)] /\ c \in Compactions
  BY Typed DEF Fits
<1>1. /\ out' \in [Prompts -> Seq(Wires)]
      /\ \A q \in Prompts : Queue(out'[q], wk[q].pc) /\ (out[q] = <<>> => out'[q] = <<>>)
  BY <1>0 DEF IInv, Queues
<1>2. CASE c.waiter # Nil
  <2> DEFINE c1 == [c EXCEPT !.waiter = Nil]
             from == c.waiter.from
             phase == c.waiter.phase
  <2>1. CheckpointReply(c1, messages, from, phase)
    BY <1>2 DEF CompactionFinished
  <2>2. Fits(c1) /\ c1.waiter = Nil
    <3>1. Nil \in Waiters \cup {Nil}
      OBVIOUS
    <3>2. /\ c1 \in Compactions /\ c1.waiter = Nil /\ c1.task = c.task
          /\ c1.prefix = c.prefix /\ c1.result = c.result
      BY <1>0, <3>1, WithWaiter, ZenonT(60)
    <3> HIDE DEF c1
    <3> QED BY <3>2 DEF Fits
  <2>3. phase \in {"manual", "background", "fallback"}
    <3>1. c.waiter \in Waiters
      BY <1>0, <1>2, SMT DEF Compactions
    <3> QED BY <3>1, SMT DEF Waiters
  <2>4. /\ phase # "manual" => /\ from \in Prompts /\ turn.recipient = from
                               /\ wk[from].pc = "checkpoint" /\ out'[from] = <<>>
        /\ phase = "manual" => turn.recipient = Nil
    BY <1>2 DEF IInv, Waiting
  <2> HIDE DEF c1, from, phase
  <2> QED BY <1>0, <1>1, <2>1, <2>2, <2>3, <2>4, CheckpointReplyKeeps
<1>3. CASE c.waiter = Nil
  <2>1. /\ \/ compaction' = c /\ UNCHANGED <<messages, store>>
           \/ /\ compaction' = TakeResult(c, messages).c
              /\ messages' = TakeResult(c, messages).messages
              /\ SaveSnapshot(TakeResult(c, messages).messages) \/ UNCHANGED store
        /\ UNCHANGED <<turn, lastRef, wk, compactCall>>
    BY <1>3 DEF CompactionFinished, SaveIfChanged
  <2> DEFINE d == TakeResult(c, messages).c
             ms == TakeResult(c, messages).messages
  <2>2. Fits(d) /\ d.waiter = c.waiter /\ ms \in Histories
    BY <1>0, TakeResultType
  <2>3. \/ compaction' = c /\ UNCHANGED <<messages, store>>
        \/ compaction' = d /\ messages' = ms /\ (SaveSnapshot(ms) \/ UNCHANGED store)
    BY <2>1
  <2> HIDE DEF d, ms
  <2>4. /\ Fits(compaction)' /\ compaction'.waiter = Nil /\ messages' \in Histories
        /\ store' \in Stores
    BY <1>0, <1>3, <2>2, <2>3, StoreWritten
  <2>5. DataTypeOK'
    BY <1>0, <2>1, <2>4 DEF DataTypeOK, Fits
  <2>6. TypeOK'
    BY <2>1, <2>5 DEF IInv, TypeOK, TurnTypeOK, WorkerTypeOK, ClientTypeOK, clientVars
  <2>7. Refs' /\ Queues' /\ Owners' /\ Answered'
    BY <2>1 DEF IInv, Refs, Queues, Owners, Answered
  <2>8. Calls' /\ Waiting'
    BY <2>1, <2>4 DEF IInv, Calls, Waiting, clientVars
  <2> QED BY <2>4, <2>6, <2>7, <2>8 DEF IInv
<1> QED BY <1>2, <1>3

(* The compaction task's result keeps the invariant. *)
LEMMA CompactionDoneKeeps ==
    ASSUME IInv, CompactionDone
    PROVE  IInv'
<1>0. Fits(compaction) /\ compaction \in Compactions /\ fired \subseteq Nat
  BY Typed DEF IInv
<1>1. PICK r \in CompactResults(compaction.prefix) :
        CompactionFinished(CompleteCompaction(compaction, r))
  BY DEF CompactionDone
<1>2. compaction.task # 0 /\ UNCHANGED <<fired, out, clientVars, controls, cleared>>
  BY DEF CompactionDone
<1>3. compaction.prefix \in Histories
  BY <1>0, <1>2 DEF Fits
<1>4. r \in Results /\ (r.ok /\ compaction.prefix = <<>> => r.messages = <<>>)
  BY <1>3, CompactResultType
<1> DEFINE c1 == [compaction EXCEPT !.task = 0]
           c == [c1 EXCEPT !.result = r]
<1>5. CompactionFinished(c)
  BY <1>1 DEF CompleteCompaction
<1>6. /\ c1 \in Compactions /\ c1.task = 0 /\ c1.waiter = compaction.waiter
      /\ c1.prefix = compaction.prefix
  BY <1>0, WithTask
<1> HIDE DEF c1
<1>7. /\ c \in Compactions /\ c.task = 0 /\ c.waiter = compaction.waiter
      /\ c.prefix = compaction.prefix /\ c.result = r
  BY <1>4, <1>6, WithResult
<1> HIDE DEF c
<1>8. Fits(c)
  BY <1>3, <1>4, <1>7 DEF Fits
<1> QED BY <1>0, <1>2, <1>5, <1>7, <1>8, CompactionFinishedKeeps

(* Nothing but the store and the timers in the mailbox changes. *)
LEMMA StoreKeeps ==
    ASSUME IInv, fired' \subseteq Nat, store' \in Stores,
           UNCHANGED <<turn, messages, compaction, lastRef, workerVars, clientVars, compactCall,
                       controls, cleared>>
    PROVE  IInv'
<1>1. TypeOK'
  BY DEF IInv, TypeOK, TurnTypeOK, DataTypeOK, WorkerTypeOK, ClientTypeOK, workerVars, clientVars
<1>2. Fits(compaction)' /\ Refs' /\ Queues' /\ Owners' /\ Answered'
  BY DEF IInv, Refs, Queues, Owners, Answered, workerVars
<1>3. Calls' /\ Waiting'
  BY DEF IInv, Calls, Waiting, workerVars, clientVars
<1> QED BY <1>1, <1>2, <1>3 DEF IInv

(* Nothing but the timers in the mailbox changes. *)
LEMMA FiredKeeps ==
    ASSUME IInv, fired' \subseteq Nat,
           UNCHANGED <<sessionVars, lastRef, workerVars, clientVars, compactCall, controls,
                       cleared>>
    PROVE  IInv'
<1>1. store' \in Stores /\ UNCHANGED <<turn, messages, compaction>>
  BY Typed DEF sessionVars
<1> QED BY <1>1, StoreKeeps

(* The end of a completion's handler keeps the invariant: the snapshot is saved or not. *)
LEMMA PersistKeeps ==
    ASSUME IInv, Persist
    PROVE  IInv'
<1>1. /\ messages \in Histories /\ store \in Stores /\ SaveSnapshot(messages)
      /\ fired' \subseteq Nat
      /\ UNCHANGED <<turn, messages, compaction, lastRef, workerVars, clientVars, compactCall,
                     controls, cleared>>
  BY Typed DEF Persist
<1>2. store' \in Stores
  BY <1>1, StoreWritten
<1> QED BY <1>1, <1>2, StoreKeeps

(* A timer that fires keeps the invariant. *)
LEMMA TimerFiresKeeps ==
    ASSUME IInv, TimerFires
    PROVE  IInv'
<1>1. compaction \in Compactions /\ fired \subseteq Nat
  BY Typed
<1>2. compaction.task \in Nat
  BY <1>1, SMT DEF Compactions
<1>3. fired' \subseteq Nat
  BY <1>1, <1>2 DEF TimerFires
<1> QED BY <1>3, FiredKeeps DEF TimerFires

(* compaction_timeout keeps the invariant, stale or not. *)
LEMMA HandleTimeoutKeeps ==
    ASSUME IInv, NEW ref \in fired, HandleTimeout(ref)
    PROVE  IInv'
<1>0. compaction \in Compactions /\ fired \subseteq Nat
  BY Typed
<1>1. fired' \subseteq Nat /\ UNCHANGED <<out, clientVars, controls, cleared>>
  BY <1>0 DEF HandleTimeout
<1>2. CASE compaction.task = ref
  <2> DEFINE c0 == CancelCompaction(compaction)
             e == ErrorResult("timeout")
             c == [c0 EXCEPT !.result = e]
  <2>1. CompactionFinished(c)
    BY <1>2 DEF HandleTimeout
  <2>2. c0 \in Compactions /\ c0.task = 0 /\ c0.waiter = compaction.waiter
    BY <1>0, CancelType DEF Fits
  <2>3. e \in Results /\ ~e.ok
    BY EmptyHistory, SMT DEF ErrorResult, Results
  <2> HIDE DEF c0, e
  <2>4. c \in Compactions /\ c.task = 0 /\ c.waiter = compaction.waiter /\ c.result = e
    BY <2>2, <2>3, WithResult
  <2> HIDE DEF c
  <2>5. Fits(c)
    BY <2>3, <2>4 DEF Fits
  <2> QED BY <1>1, <2>1, <2>4, <2>5, CompactionFinishedKeeps
<1>3. CASE compaction.task # ref
  <2>1. UNCHANGED <<sessionVars, lastRef, wk, compactCall>>
    BY <1>3 DEF HandleTimeout
  <2> QED BY <1>1, <2>1, FiredKeeps DEF workerVars
<1> QED BY <1>2, <1>3

(* compact keeps the invariant. *)
LEMMA CompactKeeps ==
    ASSUME IInv, Compact
    PROVE  IInv'
<1>0. /\ messages \in Histories /\ store \in Stores /\ lastRef \in Nat
      /\ compaction \in Compactions /\ controls \in Nat /\ Fits(compaction)
      /\ turn.streaming <=> turn.recipient # Nil
  BY Typed DEF IInv
<1>1. /\ controls' = controls + 1
      /\ UNCHANGED <<turn, fired, workerVars, clientVars, cleared>>
  BY DEF Compact
<1>2. ASSUME messages' \in Histories, store' \in Stores, Fits(compaction)',
             lastRef' \in {lastRef, lastRef + 1}, Waiting',
             compactCall' \in {"ok", "busy", "waiting"}
      PROVE  IInv'
  <2>1. DataTypeOK' /\ ClientTypeOK'
    BY <1>0, <1>1, <1>2 DEF IInv, TypeOK, DataTypeOK, ClientTypeOK, Fits, clientVars
  <2>2. TypeOK'
    BY <1>1, <2>1 DEF IInv, TypeOK, TurnTypeOK, WorkerTypeOK, workerVars
  <2>3. Refs'
    <3>1. \A q \in Prompts : wk[q].ref \in Nat /\ wk[q].ref <= lastRef
      BY WorkerOf DEF IInv, Refs
    <3>2. \A q \in Prompts : wk[q].ref <= lastRef'
      BY <1>0, <1>2, <3>1
    <3>3. turn.abort_ref \in Nat /\ turn.abort_ref <= lastRef
      BY Typed DEF IInv, Refs
    <3>4. turn.abort_ref <= lastRef'
      BY <1>0, <1>2, <3>3
    <3> QED BY <1>1, <3>2, <3>4 DEF IInv, Refs, workerVars
  <2>4. Queues' /\ Owners' /\ Answered' /\ Calls'
    BY <1>1 DEF IInv, Queues, Owners, Answered, Calls, workerVars, clientVars
  <2> QED BY <1>2, <2>2, <2>3, <2>4 DEF IInv
<1>3. CASE ~Policy
  <2>1. MaybeCompact(messages) /\ SaveSnapshot(messages') /\ compactCall' = "ok"
    BY <1>3 DEF Compact
  <2>2. /\ messages' \in Histories /\ Fits(compaction)'
        /\ lastRef' \in {lastRef, lastRef + 1}
    BY <1>0, <2>1, MaybeCompactType
  <2>4. store' \in Stores
    <3>1. PICK ms : ms = messages'
      OBVIOUS
    <3>2. ms \in Histories /\ SaveSnapshot(ms)
      BY <2>1, <2>2, <3>1
    <3> QED BY <1>0, <3>2, StoreWritten
  <2>3. Waiting'
    <3>1. compaction' = compaction
      BY <1>3, <2>1 DEF MaybeCompact
    <3>2. compaction.waiter # Nil /\ compaction.waiter.phase = "manual" =>
             compactCall = "waiting"
      BY DEF IInv, Waiting
    <3>3. compactCall # "waiting"
      BY DEF Compact
    <3> QED BY <1>1, <3>1, <3>2, <3>3 DEF IInv, Waiting, workerVars
  <2> QED BY <1>2, <2>1, <2>2, <2>3, <2>4
<1>4. CASE Policy /\ Busy
  <2>1. compactCall' = "busy" /\ UNCHANGED <<messages, compaction, store, lastRef>>
    BY <1>4 DEF Compact
  <2>2. Waiting'
    <3>1. compaction.waiter # Nil /\ compaction.waiter.phase = "manual" =>
             compactCall = "waiting"
      BY DEF IInv, Waiting
    <3>2. compactCall # "waiting"
      BY DEF Compact
    <3> QED BY <1>1, <2>1, <3>1, <3>2 DEF IInv, Waiting, workerVars
  <2> QED BY <1>0, <1>2, <2>1, <2>2
<1>5. CASE Policy /\ ~Busy
  <2> DEFINE ref == lastRef + 1
             d == StartCompaction(compaction, ref, messages)
             w == [from |-> Nil, phase |-> "manual"]
  <2>1. /\ compaction' = [d EXCEPT !.waiter = w] /\ lastRef' = lastRef + 1
        /\ compactCall' = "waiting" /\ UNCHANGED <<messages, store>>
    BY <1>5 DEF Compact
  <2>2. ref \in Nat \ {0}
    BY <1>0
  <2> HIDE DEF ref
  <2>3. Fits(d) /\ d.task = ref /\ d \in Compactions
    BY <1>0, <2>2, StartType DEF Fits
  <2>4. w \in Waiters /\ w.phase = "manual"
    BY SMT DEF Waiters
  <2> HIDE DEF d, w
  <2>5. /\ compaction' \in Compactions /\ compaction'.waiter = w /\ compaction'.task = ref
        /\ compaction'.prefix = d.prefix /\ compaction'.result = d.result
    BY <2>1, <2>3, <2>4, WithWaiter
  <2>6. Fits(compaction)'
    BY <2>3, <2>5 DEF Fits
  <2>7. turn.recipient = Nil
    BY <1>0, <1>5 DEF Busy
  <2>8. Waiting'
    BY <1>1, <2>1, <2>2, <2>4, <2>5, <2>7 DEF Waiting
  <2> QED BY <1>0, <1>2, <2>1, <2>6, <2>8
<1> QED BY <1>3, <1>4, <1>5

-----------------------------------------------------------------------------
(* The session keeps its invariant. *)

(* A new session satisfies the invariant. *)
LEMMA InitInv == Init => IInv
<1> SUFFICES ASSUME Init PROVE IInv
  OBVIOUS
<1>1. TurnTypeOK /\ turn.abort_ref = 0 /\ turn.recipient = Nil
  <2>1. NewTurn \in Turns
    <3>1. <<>> \in Queued /\ {} \in Listeners
      BY DEF Queued, Listeners
    <3> QED BY <3>1, SMT DEF NewTurn, Turns
  <2>2. /\ ~NewTurn.streaming /\ NewTurn.recipient = Nil /\ NewTurn.prompt_index = Nil
        /\ NewTurn.worker = Nil /\ NewTurn.abort_ref = 0
    BY DEF NewTurn
  <2> QED BY <2>1, <2>2 DEF Init, TurnTypeOK
<1>2. compaction \in Compactions /\ Fits(compaction) /\ compaction.waiter = Nil
  <2>1. /\ NewCompaction \in Compactions /\ NewCompaction.waiter = Nil
        /\ NewCompaction.task = 0 /\ NewCompaction.result = Nil
    BY SMT DEF NewCompaction, Compactions
  <2> QED BY <2>1 DEF Init, Fits
<1>3. DataTypeOK
  <2>1. [snapshot |-> Nil, due |-> FALSE, failed |-> {}] \in Stores
    BY SMT DEF Stores
  <2> QED BY <1>2, <2>1, EmptyHistory DEF Init, DataTypeOK
<1>4. /\ Idle \in Workers /\ Idle.pc = "none" /\ Idle.ref = 0
  <2> DEFINE idle == [t \in ToolIds |-> "idle"]
  <2>1. idle \in ToolStates /\ "none" \in PCs
    BY DEF ToolStates, PCs
  <2>2. Idle = [pc |-> "none", kind |-> "run", ref |-> 0, base |-> <<>>, msgs |-> <<>>,
                round |-> 0, attempt |-> 0, emitted |-> FALSE, reply |-> Nil,
                tool |-> idle, woken |-> FALSE]
    BY DEF Idle
  <2> HIDE DEF idle
  <2> QED BY <2>1, <2>2, EmptyHistory, SMT DEF Workers
<1>5. WorkerTypeOK /\ \A p \in Prompts : wk[p] = Idle /\ out[p] = <<>>
  <2> HIDE DEF Idle
  <2> QED BY <1>4 DEF Init, WorkerTypeOK
<1>6. ClientTypeOK /\ \A p \in Prompts : call[p] = "idle"
  BY AnswersHold DEF Init, ClientTypeOK
<1>7. Refs
  BY <1>1, <1>4, <1>5 DEF Init, Refs
<1>8. Queues
  BY <1>5, PlainEmpty, PlainQueue DEF Queues
<1>9. Owners /\ Calls /\ Answered
  BY <1>1, <1>4, <1>5, <1>6, SessionAssumption DEF Owners, Calls, Answered
<1>10. Waiting
  BY <1>2 DEF Waiting
<1> QED BY <1>1, <1>2, <1>3, <1>5, <1>6, <1>7, <1>8, <1>9, <1>10 DEF IInv, TypeOK

(* Every step of the system keeps the invariant. *)
LEMMA NextInv == IInv /\ [Next]_vars => IInv'
<1> SUFFICES ASSUME IInv, [Next]_vars PROVE IInv'
  OBVIOUS
<1>1. ASSUME NEW p \in Prompts, Run(p) \/ RunTimeout(p) \/ Subscribe(p) \/ Stream(p)
                                \/ Unsubscribe(p) \/ SubscriberDown(p)
      PROVE  IInv'
  BY <1>1, ClientStepKeeps
<1>2. CASE Abort \/ Clear
  BY <1>2, AbortClearKeeps
<1>3. CASE Compact
  BY <1>3, CompactKeeps
<1>4. CASE Steer
  BY <1>4, SteerKeeps
<1>5. ASSUME NEW p \in Prompts, SessionHandles(p)
      PROVE  IInv'
  BY <1>5, HandleEventKeeps, HandleUsageKeeps, HandleCheckKeeps, HandleCheckpointKeeps,
     HandleCompleteKeeps DEF SessionHandles
<1>6. ASSUME NEW p \in Prompts, WorkerSteps(p)
      PROVE  IInv'
  BY <1>6, WorkerStepsKeep
<1>7. ASSUME NEW p \in Prompts, NEW t \in ToolIds, ToolSteps(p, t)
      PROVE  IInv'
  BY <1>7, ProgressKeeps DEF ToolSteps
<1>8. CASE CompactionDone
  BY <1>8, CompactionDoneKeeps
<1>9. CASE TimerFires
  BY <1>9, TimerFiresKeeps
<1>10. ASSUME NEW ref \in fired, HandleTimeout(ref)
       PROVE  IInv'
  BY <1>10, HandleTimeoutKeeps
<1>12. CASE Persist
  BY <1>12, PersistKeeps
<1>11. CASE UNCHANGED vars
  <2>1. /\ UNCHANGED <<sessionVars, lastRef, workerVars, clientVars, compactCall, controls,
                       cleared>>
        /\ fired' = fired
    BY <1>11 DEF vars, sessionVars, workerVars, clientVars
  <2>2. fired' \subseteq Nat
    BY <2>1, Typed
  <2> QED BY <2>1, <2>2, FiredKeeps
<1> QED BY <1>1, <1>2, <1>3, <1>4, <1>5, <1>6, <1>7, <1>8, <1>9, <1>10, <1>11, <1>12
        DEF Next, ClientSteps

(* The control invariant holds in every reachable state of every session: what
   handle_call, handle_cast and handle_info keep between any two messages. *)
THEOREM SessionInvariant == Spec => []IInv
BY InitInv, NextInv, PTL DEF Spec

(* The session's state, its workers' and its clients' are what the code says they are,
   whatever is called, aborted, compacted or delayed. *)
THEOREM SessionTypes == Spec => []TypeOK
<1>1. IInv => TypeOK
  BY DEF IInv
<1> QED BY <1>1, SessionInvariant, PTL

(* No caller of run or stream is ever left behind: whoever waits is the one the running
   turn will answer (abort_turn, clear and the completion casts). *)
THEOREM CallersHaveTurns == Spec => []CallerHasTurn
<1>1. IInv => CallerHasTurn
  BY DEF IInv, Calls, Owners, CallerHasTurn
<1> QED BY <1>1, SessionInvariant, PTL

(* Whoever the session holds at a compaction checkpoint waits for a task that runs,
   and is the running turn's worker (compaction_checkpoint_reply, abort_turn). *)
THEOREM WaitersHaveTasks == Spec => []WaiterHasTask
<1>1. IInv => WaiterHasTask
  <2> SUFFICES ASSUME IInv PROVE WaiterHasTask
    OBVIOUS
  <2>1. turn.streaming <=> turn.recipient # Nil
    BY Typed
  <2> QED BY <2>1 DEF IInv, Waiting, WaiterHasTask, At
<1> QED BY <1>1, SessionInvariant, PTL

(* A checkpoint's answer leaves the turn with its recipient. *)
LEMMA ReplyKeepsRecipient ==
    ASSUME IInv, NEW c0, NEW ms0, NEW from, NEW phase, CheckpointReply(c0, ms0, from, phase)
    PROVE  turn'.recipient = turn.recipient
<1>1. \E i : turn' = [turn EXCEPT !.prompt_index = i]
  BY DEF CheckpointReply
<1>2. turn \in Turns
  BY Typed
<1> QED BY <1>1, <1>2, SMT DEF Turns

(* A manual compaction is answered once and holds nobody any more. *)
LEMMA ManualReplyReleases ==
    ASSUME IInv, NEW c0, Fits(c0), c0.waiter = Nil, NEW ms0 \in Histories, NEW from,
           NEW phase, phase = "manual", CheckpointReply(c0, ms0, from, phase)
    PROVE  compaction'.waiter = Nil
<1> DEFINE protected == IF turn.prompt_index = Nil THEN 1 ELSE Len(ms0) - turn.prompt_index
           ref == lastRef + 1
           r == Checkpoint(c0, ref, ms0, from, phase, protected)
<1>1. protected \in Int /\ ref \in Nat \ {0}
  BY Typed, HistoryIsSeq
<1>2. compaction' = r.c
  BY DEF CheckpointReply
<1> HIDE DEF protected, ref
<1>3. Decided(r, c0, ref, from) /\ r.tag # "wait"
  BY <1>1, CheckpointType
<1> HIDE DEF r
<1> QED BY <1>2, <1>3 DEF Decided

-----------------------------------------------------------------------------
(* The session implements TurnService. *)

(* What the service sees of a step. *)
LEMMA ToldOf ==
    /\ Told("idle") = "idle" /\ Told("subscribed") = "idle" /\ Told("waiting") = "waiting"
    /\ Told("busy") = "refused" /\ Told("gone") = "gone" /\ Told("ok") = "ok"
    /\ Told("error") = "error" /\ Told("aborted") = "aborted"
BY DEF Told

(* A step that keeps the recipient, the waiter and the calls changes nothing the service shows. *)
LEMMA Unseen ==
    ASSUME turn'.recipient = turn.recipient, compaction'.waiter = compaction.waiter,
           call' = call
    PROVE  UNCHANGED Service!vars
BY DEF Service!vars, Owner, Status

(* Telling one client something changes its status alone. *)
LEMMA StatusChange ==
    ASSUME NEW p \in Prompts, NEW answer, call \in [Prompts -> Answers],
           call' = [call EXCEPT ![p] = answer]
    PROVE  Status' = [Status EXCEPT ![p] = Told(answer)]
<1>1. \A q \in Prompts : call'[q] = IF q = p THEN answer ELSE call[q]
  OBVIOUS
<1>2. Status' = [q \in Prompts |-> Told(call'[q])]
  BY DEF Status
<1>3. [Status EXCEPT ![p] = Told(answer)] =
        [q \in Prompts |-> IF q = p THEN Told(answer) ELSE Told(call[q])]
  BY DEF Status
<1>4. \A q \in Prompts :
         Told(call'[q]) = IF q = p THEN Told(answer) ELSE Told(call[q])
  BY <1>1, Zenon
<1> QED BY <1>2, <1>3, <1>4

(* Whom the session works for, and that it is busy exactly then. *)
LEMMA Owned ==
    ASSUME IInv
    PROVE  /\ turn.recipient # Nil => Owner = turn.recipient
           /\ turn.recipient = Nil /\ compaction.waiter # Nil => Owner = "maintenance"
           /\ turn.recipient = Nil /\ compaction.waiter = Nil => Owner = Nil
           /\ Busy <=> Owner # Nil
           /\ \A p \in Prompts : Owner = p <=> turn.recipient = p
<1>1. "maintenance" \notin Prompts \cup {Nil} /\ Nil \notin Prompts
  BY SessionAssumption
<1>2. turn.recipient \in Prompts \cup {Nil} /\ (turn.streaming <=> turn.recipient # Nil)
  BY Typed
<1> QED BY <1>1, <1>2 DEF Owner, Busy

(* Beginning a turn is the service accepting its client. *)
LEMMA BeginSeen ==
    ASSUME IInv, NEW p \in Prompts, NEW kind, BeginTurn(p, kind), ~Busy,
           call[p] \in {"idle", "subscribed"}
    PROVE  Service!Accept(p)
<1>0. turn \in Turns /\ call \in [Prompts -> Answers] /\ Nil \notin Prompts
  BY Typed
<1>1. Owner = Nil
  BY Owned
<1>2. Owner' = p
  <2>1. turn'.recipient = p
    <3>1. turn' = StartTurn(turn, lastRef + 1, p, Len(messages))
      BY DEF BeginTurn
    <3>2. \A a, b : StartTurn(turn, a, p, b).recipient = p
      BY <1>0, SMT DEF StartTurn, Turns
    <3> QED BY <3>1, <3>2
  <2> QED BY <1>0, <2>1 DEF Owner
<1>3. Status[p] = "idle" /\ Status' = [Status EXCEPT ![p] = "waiting"]
  <2>1. call' = [call EXCEPT ![p] = "waiting"]
    BY DEF BeginTurn
  <2>2. Status[p] = "idle"
    BY ToldOf DEF Status
  <2>3. Status' = [Status EXCEPT ![p] = Told("waiting")]
    BY <1>0, <2>1, StatusChange
  <2> QED BY <2>2, <2>3, ToldOf
<1> QED BY <1>1, <1>2, <1>3 DEF Service!Accept

(* Answering busy is the service refusing. *)
LEMMA RefuseSeen ==
    ASSUME IInv, NEW p \in Prompts, call' = [call EXCEPT ![p] = "busy"], Busy,
           call[p] \in {"idle", "subscribed"}, UNCHANGED <<turn, compaction>>
    PROVE  Service!Refuse(p)
<1>1. Owner # Nil /\ Owner' = Owner
  BY Owned DEF Owner
<1>2. Status[p] = "idle"
  BY ToldOf DEF Status
<1>3. Status' = [Status EXCEPT ![p] = "refused"]
  <2>1. call \in [Prompts -> Answers]
    BY Typed
  <2>2. Status' = [Status EXCEPT ![p] = Told("busy")]
    BY <2>1, StatusChange
  <2> QED BY <2>2, ToldOf
<1> QED BY <1>1, <1>2, <1>3 DEF Service!Refuse

(* A client that gives up leaves the service, and its turn goes on. *)
LEMMA LeaveSeen ==
    ASSUME IInv, NEW p \in Prompts, call' = [call EXCEPT ![p] = "gone"],
           call[p] \in {"subscribed", "waiting"},
           turn'.recipient = turn.recipient, UNCHANGED compaction
    PROVE  Service!Leave(p)
<1>1. Owner' = Owner
  BY DEF Owner
<1>2. Status[p] \in {"idle", "waiting"}
  BY ToldOf DEF Status
<1>3. Status' = [Status EXCEPT ![p] = "gone"]
  <2>1. call \in [Prompts -> Answers]
    BY Typed
  <2>2. Status' = [Status EXCEPT ![p] = Told("gone")]
    BY <2>1, StatusChange
  <2> QED BY <2>2, ToldOf
<1> QED BY <1>1, <1>2, <1>3 DEF Service!Leave

(* What a client does is a step of the service or none. *)
LEMMA ClientStepSeen ==
    ASSUME IInv, NEW p \in Prompts,
           Run(p) \/ RunTimeout(p) \/ Subscribe(p) \/ Stream(p) \/ Unsubscribe(p)
           \/ SubscriberDown(p)
    PROVE  [Service!Next]_Service!vars
<1>0. turn \in Turns /\ call \in [Prompts -> Answers]
  BY Typed
<1>s. turn' = Subscribed(turn, p) \/ turn' = Unsubscribed(turn, p) =>
         turn'.recipient = turn.recipient
  BY <1>0, SubscribersType
<1>1. CASE Run(p) \/ Stream(p)
  <2>1. call[p] \in {"idle", "subscribed"}
    BY <1>1 DEF Run, Stream
  <2>2. CASE Busy
    <3>1. call' = [call EXCEPT ![p] = "busy"] /\ UNCHANGED <<turn, compaction>>
      BY <1>1, <2>2 DEF Run, Stream
    <3> QED BY <2>1, <2>2, <3>1, RefuseSeen DEF Service!Next
  <2>3. CASE ~Busy
    <3>1. BeginTurn(p, "run") \/ BeginTurn(p, "stream")
      BY <1>1, <2>3 DEF Run, Stream
    <3> QED BY <2>1, <2>3, <3>1, BeginSeen DEF Service!Next
  <2> QED BY <2>2, <2>3
<1>2. CASE RunTimeout(p)
  <2>1. call[p] = "waiting" /\ call' = [call EXCEPT ![p] = "gone"] /\ UNCHANGED <<turn, compaction>>
    BY <1>2 DEF RunTimeout, sessionVars
  <2> QED BY <2>1, LeaveSeen DEF Service!Next
<1>3. CASE SubscriberDown(p)
  <2>1. /\ call[p] \in {"subscribed", "waiting"} /\ call' = [call EXCEPT ![p] = "gone"]
        /\ turn' = Unsubscribed(turn, p) /\ UNCHANGED compaction
    BY <1>3 DEF SubscriberDown
  <2> QED BY <1>s, <2>1, LeaveSeen DEF Service!Next
<1>4. CASE Unsubscribe(p)
  <2>1. /\ \/ call' = call
           \/ call[p] = "waiting" /\ call' = [call EXCEPT ![p] = "gone"]
        /\ turn' = Unsubscribed(turn, p) /\ UNCHANGED compaction
    BY <1>4 DEF Unsubscribe
  <2> QED BY <1>s, <2>1, LeaveSeen, Unseen DEF Service!Next
<1>5. CASE Subscribe(p)
  <2>1. /\ call[p] = "idle" /\ call' = [call EXCEPT ![p] = "subscribed"]
        /\ turn' = Subscribed(turn, p) /\ UNCHANGED compaction
    BY <1>5 DEF Subscribe
  <2>2. Status' = [Status EXCEPT ![p] = "idle"] /\ Status[p] = "idle"
    <3>1. Status[p] = "idle"
      BY <2>1, ToldOf DEF Status
    <3>2. Status' = [Status EXCEPT ![p] = Told("subscribed")]
      BY <1>0, <2>1, StatusChange
    <3> QED BY <3>1, <3>2, ToldOf
  <2>3. Status' = Status
    BY <2>2 DEF Status
  <2>4. Owner' = Owner
    BY <1>s, <2>1 DEF Owner
  <2> QED BY <2>3, <2>4 DEF Service!vars
<1> QED BY <1>1, <1>2, <1>3, <1>4, <1>5

(* The owner's turn ends with an answer, if the owner is still there to hear it. *)
LEMMA EndSeen ==
    ASSUME IInv, NEW p \in Prompts, NEW answer \in {"ok", "error", "aborted"},
           turn.recipient = p, turn'.recipient = Nil, compaction'.waiter = Nil,
           \A q \in Prompts : call'[q] = IF q = p /\ call[q] = "waiting" THEN answer ELSE call[q]
    PROVE  Service!End(p)
<1>1. Owner = p /\ Owner' = Nil
  BY Owned DEF Owner
<1>2. Status' = [Status EXCEPT ![p] = IF Status[p] = "waiting" THEN answer ELSE Status[p]]
  <2>1. call \in [Prompts -> Answers]
    BY Typed
  <2>2. Status[p] = "waiting" <=> call[p] = "waiting"
    BY <2>1 DEF Status, Told
  <2>3. \A q \in Prompts : Told(call'[q]) =
           IF q = p THEN (IF Status[p] = "waiting" THEN answer ELSE Status[p]) ELSE Told(call[q])
    <3> SUFFICES ASSUME NEW q \in Prompts
                 PROVE  Told(call'[q]) =
                          IF q = p THEN (IF Status[p] = "waiting" THEN answer ELSE Status[p])
                          ELSE Told(call[q])
      OBVIOUS
    <3>1. Told(answer) = answer
      BY ToldOf
    <3>2. Status[p] = Told(call[p])
      BY DEF Status
    <3> QED BY <2>2, <3>1, <3>2
  <2> QED BY <2>3 DEF Status
<1> QED BY <1>1, <1>2 DEF Service!End

(* abort_turn ends the turn or the manual compaction it finds. *)
LEMMA AbortSeen ==
    ASSUME IInv, NEW heard, NEW c, c \in Compactions, AbortTurn(heard, c)
    PROVE  [Service!Next]_Service!vars
<1>0. /\ turn \in Turns /\ turn.recipient \in Prompts \cup {Nil} /\ Nil \notin Prompts
      /\ call \in [Prompts -> Answers]
  BY Typed
<1>1. turn'.recipient = Nil
  <2>1. turn' = AbandonTurn(turn, lastRef + 1)
    BY DEF AbortTurn
  <2>2. \A a : AbandonTurn(turn, a).recipient = Nil
    BY <1>0, SMT DEF AbandonTurn, Turns
  <2> QED BY <2>1, <2>2
<1>2. compaction'.waiter = Nil
  <2>1. compaction' = [c EXCEPT !.waiter = Nil] /\ Nil \in Waiters \cup {Nil}
    BY DEF AbortTurn
  <2> QED BY <2>1, WithWaiter
<1>3. call' = [q \in Prompts |-> IF q = turn.recipient /\ call[q] = "waiting"
                                 THEN "aborted" ELSE call[q]]
  BY DEF AbortTurn, AbortAnswer
<1>4. CASE turn.recipient # Nil
  <2>1. turn.recipient \in Prompts
    BY <1>0, <1>4
  <2>2. Service!End(turn.recipient)
    BY <1>1, <1>2, <1>3, <2>1, EndSeen
  <2> QED BY <2>1, <2>2 DEF Service!Next
<1>5. CASE turn.recipient = Nil
  <2>1. call' = call
    <3>1. \A q \in Prompts : q # Nil
      BY <1>0
    <3> QED BY <1>0, <1>3, <1>5, <3>1
  <2>2. Status' = Status /\ Owner' = Nil
    BY <1>1, <1>2, <2>1 DEF Status, Owner
  <2>3. CASE compaction.waiter # Nil
    <3>1. Service!Release
      BY <1>5, <2>2, <2>3, Owned DEF Service!Release
    <3> QED BY <3>1 DEF Service!Next
  <2>4. CASE compaction.waiter = Nil
    BY <1>5, <2>2, <2>4, Owned DEF Service!vars
  <2> QED BY <2>3, <2>4
<1> QED BY <1>4, <1>5

(* Handling a worker's message ends its turn or is not seen. *)
LEMMA HandlerSeen ==
    ASSUME IInv, NEW p \in Prompts, SessionHandles(p)
    PROVE  [Service!Next]_Service!vars
<1>0. /\ turn \in Turns /\ compaction \in Compactions /\ call \in [Prompts -> Answers]
      /\ Nil \notin Prompts
  BY Typed
<1>1. CASE HandleEvent(p)
  <2>1. \/ turn' = turn /\ compaction' = compaction /\ call' = call
        \/ AbortTurn([NothingHeard EXCEPT ![p] = <<Head(out[p]).arg>>], compaction)
    BY <1>1 DEF HandleEvent, clientVars
  <2>2. CASE turn' = turn /\ compaction' = compaction /\ call' = call
    BY <2>2, Unseen
  <2>3. CASE AbortTurn([NothingHeard EXCEPT ![p] = <<Head(out[p]).arg>>], compaction)
    <3> DEFINE heard == [NothingHeard EXCEPT ![p] = <<Head(out[p]).arg>>]
    <3> HIDE DEF heard
    <3>1. AbortTurn(heard, compaction)
      BY <2>3 DEF heard
    <3> QED BY <1>0, <3>1, AbortSeen
  <2> QED BY <2>1, <2>2, <2>3
<1>2. CASE HandleUsage(p)
  <2> DEFINE u == Head(out[p]).arg
  <2>1. turn' = turn /\ call' = call
    BY <1>2 DEF HandleUsage, clientVars
  <2>2. compaction' = compaction \/ compaction' = [compaction EXCEPT !.usage = u]
    BY <1>2 DEF HandleUsage
  <2>3. u \in Usages \cup {Nil}
    BY <1>2, Popped, WireArgs DEF HandleUsage, HeadIs
  <2> HIDE DEF u
  <2>4. compaction'.waiter = compaction.waiter
    <3>1. compaction \in Compactions
      BY <1>0
    <3> QED BY <2>2, <2>3, <3>1, WithUsage
  <2> QED BY <2>1, <2>4, Unseen
<1>3. CASE HandleCheck(p)
  BY <1>3, Unseen DEF HandleCheck, sessionVars, clientVars
<1>4. CASE HandleCheckpoint(p)
  <2>1. call' = call
    BY <1>4 DEF HandleCheckpoint, clientVars
  <2>2. CASE ~Current(turn, wk[p].ref)
    BY <1>4, <2>1, <2>2, Unseen DEF HandleCheckpoint, sessionVars
  <2>3. CASE Current(turn, wk[p].ref)
    <3>1. turn.recipient = p
      <4>1. out[p] # <<>> /\ Pop(p)
        BY <1>4 DEF HandleCheckpoint, HeadIs
      <4>2. wk[p].ref = turn.abort_ref => turn.recipient = p
        BY <4>1, Popped
      <4> QED BY <2>3, <4>2 DEF Current
    <3>2. CheckpointReply(compaction, wk[p].msgs, p, "background")
      BY <1>4, <2>3 DEF HandleCheckpoint
    <3>3. turn'.recipient = turn.recipient
      BY <3>2, ReplyKeepsRecipient
    <3>4. Owner' = Owner /\ Status' = Status
      BY <1>0, <2>1, <3>1, <3>3 DEF Owner, Status
    <3> QED BY <3>4 DEF Service!vars
  <2> QED BY <2>2, <2>3
<1>5. CASE HandleComplete(p)
  <2>1. out[p] # <<>> /\ Pop(p) /\ Head(out[p]).type = "complete"
    BY <1>5 DEF HandleComplete, HeadIs
  <2>2. wk[p].pc = "done" /\ (wk[p].ref = turn.abort_ref => turn.recipient = p)
    BY <2>1, Popped
  <2>3. CASE wk[p].ref # turn.abort_ref
    BY <1>5, <2>3, Unseen DEF HandleComplete, sessionVars, clientVars
  <2>4. CASE wk[p].ref = turn.abort_ref
    <3> DEFINE ok == Head(out[p]).arg
               answer == IF ok THEN "ok" ELSE "error"
    <3>1. turn.recipient = p /\ compaction.waiter = Nil
      BY <1>0, <2>2, <2>4 DEF IInv, Waiting
    <3>2. /\ turn' = FinishTurn(turn) /\ Reply(p, answer)
          /\ \/ \E ms \in Histories : MaybeCompact(ms)
             \/ compaction' = compaction
      <4>1. RunComplete(p, ok) \/ StreamComplete(p, ok)
        BY <1>5, <2>4 DEF HandleComplete
      <4>2. /\ wk[p].msgs \in Histories /\ wk[p].base \in Histories /\ messages \in Histories
        BY WorkerOf, Typed
      <4>3. RunList(p, ok) \in Histories
        BY <4>2, Zenon DEF RunList
      <4>4. CASE RunComplete(p, ok)
        BY <4>3, <4>4 DEF RunComplete
      <4>5. CASE StreamComplete(p, ok)
        BY <4>2, <4>5 DEF StreamComplete
      <4> QED BY <4>1, <4>4, <4>5
    <3>3. answer \in {"ok", "error", "aborted"}
      BY Zenon
    <3> HIDE DEF answer
    <3>4. compaction'.waiter = Nil
      BY <3>1, <3>2, MaybeCompactType
    <3>5. turn'.recipient = Nil
      BY <1>0, <3>2, FinishTurnType
    <3>6. \A q \in Prompts : call'[q] =
             IF q = p /\ call[q] = "waiting" THEN answer ELSE call[q]
      BY <1>0, <3>2 DEF Reply
    <3>7. Service!End(p)
      BY <3>1, <3>3, <3>4, <3>5, <3>6, EndSeen
    <3> QED BY <3>7 DEF Service!Next
  <2> QED BY <2>3, <2>4
<1> QED BY <1>1, <1>2, <1>3, <1>4, <1>5 DEF SessionHandles

(* A finished compaction releases a manual one or is not seen. *)
LEMMA FinishedSeen ==
    ASSUME IInv, NEW c, Fits(c), c.waiter = compaction.waiter, CompactionFinished(c),
           call' = call
    PROVE  [Service!Next]_Service!vars
<1>0. messages \in Histories /\ c \in Compactions
  BY Typed DEF Fits
<1>1. Status' = Status
  BY DEF Status
<1>2. CASE c.waiter # Nil
  <2> DEFINE c1 == [c EXCEPT !.waiter = Nil]
  <2>1. CheckpointReply(c1, messages, c.waiter.from, c.waiter.phase)
    BY <1>2 DEF CompactionFinished
  <2>2. turn'.recipient = turn.recipient
    BY <2>1, ReplyKeepsRecipient
  <2>3. CASE c.waiter.phase # "manual"
    <3>1. turn.recipient # Nil
      BY <1>2, <2>3, SessionAssumption DEF IInv, Waiting
    <3> QED BY <1>1, <2>2, <3>1 DEF Service!vars, Owner
  <2>4. CASE c.waiter.phase = "manual"
    <3>1. turn.recipient = Nil
      BY <1>2, <2>4 DEF IInv, Waiting
    <3>2. Fits(c1) /\ c1.waiter = Nil
      <4>1. /\ c1 \in Compactions /\ c1.waiter = Nil /\ c1.task = c.task
            /\ c1.prefix = c.prefix /\ c1.result = c.result
        BY <1>0, WithWaiter
      <4> HIDE DEF c1
      <4> QED BY <4>1 DEF Fits
    <3> HIDE DEF c1
    <3>3. compaction'.waiter = Nil
      BY <1>0, <2>1, <2>4, <3>2, ManualReplyReleases
    <3>4. Owner = "maintenance" /\ Owner' = Nil
      BY <1>2, <2>2, <3>1, <3>3, Owned DEF Owner
    <3>5. Service!Release
      BY <1>1, <3>4 DEF Service!Release
    <3> QED BY <3>5 DEF Service!Next
  <2> QED BY <2>3, <2>4
<1>3. CASE c.waiter = Nil
  <2>1. /\ compaction' = c \/ compaction' = TakeResult(c, messages).c
        /\ turn' = turn
    BY <1>3 DEF CompactionFinished
  <2>2. TakeResult(c, messages).c.waiter = c.waiter
    BY <1>0, TakeResultType
  <2> QED BY <2>1, <2>2, Unseen
<1> QED BY <1>2, <1>3

(* The steps of workers, tools and timers happen behind the service. *)
LEMMA InnerSteps ==
    ASSUME NEW p \in Prompts, NEW t \in ToolIds,
           WorkerSteps(p) \/ ToolSteps(p, t) \/ TimerFires
    PROVE  UNCHANGED Service!vars
<1>1. ASSUME NEW record, NEW sends, Step(p, record, sends)
      PROVE  UNCHANGED <<turn, compaction, call>>
  BY <1>1 DEF Step, sessionVars, clientVars
<1>2. ASSUME NEW record, NEW pc, NEW sends, Ask(p, record, pc, sends)
      PROVE  UNCHANGED <<turn, compaction, call>>
  BY <1>1, <1>2 DEF Ask
<1>3. ASSUME NEW record, NEW ok, NEW events, Finish(p, record, ok, events)
      PROVE  UNCHANGED <<turn, compaction, call>>
  BY <1>1, <1>3 DEF Finish
<1>4. CASE WorkerStarts(p) \/ RuntimeAnswers(p) \/ WorkerLoops(p) \/ WorkerProceeds(p)
  BY <1>1, <1>2, <1>3, <1>4, Unseen
     DEF WorkerStarts, RuntimeAnswers, WorkerLoops, WorkerProceeds
<1>5. CASE ProviderStreams(p) \/ ProviderAnswers(p) \/ ProviderFails(p)
  BY <1>1, <1>2, <1>5, Unseen DEF ProviderStreams, ProviderAnswers, ProviderFails
<1>6. CASE BackoffElapses(p) \/ BackoffAborted(p) \/ WorkerFails(p)
  BY <1>1, <1>2, <1>3, <1>6, Unseen DEF BackoffElapses, BackoffAborted, WorkerFails
<1>7. CASE WorkerRecords(p) \/ ToolTimesOut(p) \/ ToolsReturned(p)
  BY <1>1, <1>7, Unseen DEF WorkerRecords, ToolTimesOut, ToolsReturned
<1>8. CASE ToolSteps(p, t)
  BY <1>1, <1>8, Unseen DEF ToolSteps, AdmitTool, ToolReturns, sessionVars, clientVars
<1>9. CASE TimerFires
  BY <1>9, Unseen DEF TimerFires, sessionVars, clientVars
<1> QED BY <1>4, <1>5, <1>6, <1>7, <1>8, <1>9 DEF WorkerSteps

(* abort and clear end the running turn or release a manual compaction. *)
LEMMA AbortClearSeen ==
    ASSUME IInv, Abort \/ Clear
    PROVE  [Service!Next]_Service!vars
<1>0. compaction \in Compactions
  BY Typed
<1>1. CASE Abort
  <2>1. AbortTurn(NothingHeard, compaction)
    BY <1>1 DEF Abort
  <2> QED BY <1>0, <2>1, AbortSeen
<1>2. CASE Clear
  <2> DEFINE c0 == CancelCompaction(compaction)
             c1 == [c0 EXCEPT !.attempted = Nil]
             c2 == [c1 EXCEPT !.usage = Nil]
  <2>1. AbortTurn(NothingHeard, c2)
    BY <1>2 DEF Clear
  <2>2. c0 \in Compactions
    BY <1>0, CancelType DEF Fits
  <2> HIDE DEF c0
  <2>3. c1 \in Compactions
    BY <2>2, WithAttempted
  <2> HIDE DEF c1
  <2>4. c2 \in Compactions
    BY <2>3, WithUsage
  <2> HIDE DEF c2
  <2> QED BY <2>1, <2>4, AbortSeen
<1> QED BY <1>1, <1>2

(* compact takes the session when it starts a task somebody waits for. *)
LEMMA CompactSeen ==
    ASSUME IInv, Compact
    PROVE  [Service!Next]_Service!vars
<1>0. compaction \in Compactions /\ messages \in Histories /\ lastRef \in Nat
  BY Typed
<1>1. turn' = turn /\ call' = call
  BY DEF Compact, clientVars
<1>2. CASE ~Policy
  <2>1. compaction' = compaction
    BY <1>2 DEF Compact, MaybeCompact
  <2> QED BY <1>1, <2>1, Unseen
<1>3. CASE Policy /\ Busy
  <2>1. compaction' = compaction
    BY <1>3 DEF Compact
  <2> QED BY <1>1, <2>1, Unseen
<1>4. CASE Policy /\ ~Busy
  <2> DEFINE ref == lastRef + 1
             d == StartCompaction(compaction, ref, messages)
             w == [from |-> Nil, phase |-> "manual"]
  <2>1. compaction' = [d EXCEPT !.waiter = w]
    BY <1>4 DEF Compact
  <2>2. ref \in Nat \ {0}
    BY <1>0
  <2> HIDE DEF ref
  <2>3. d \in Compactions
    BY <1>0, <2>2, StartType DEF Fits
  <2>4. w \in Waiters
    BY SMT DEF Waiters
  <2>w. w # Nil
    BY <2>4, SessionAssumption
  <2> HIDE DEF d, w
  <2>5. compaction'.waiter = w
    BY <2>1, <2>3, <2>4, WithWaiter
  <2>6. turn.recipient = Nil /\ Owner = Nil
    BY <1>4, Typed, Owned DEF Busy
  <2>7. Owner' = "maintenance"
    BY <1>1, <2>5, <2>6, <2>w DEF Owner
  <2>8. Status' = Status
    BY <1>1 DEF Status
  <2>9. Service!Maintain
    BY <2>6, <2>7, <2>8 DEF Service!Maintain
  <2> QED BY <2>9 DEF Service!Next
<1> QED BY <1>2, <1>3, <1>4

(* The end of the compaction task, and its timeout. *)
LEMMA CompactionDoneSeen ==
    ASSUME IInv, CompactionDone
    PROVE  [Service!Next]_Service!vars
<1>0. Fits(compaction) /\ compaction \in Compactions
  BY Typed DEF IInv
<1>1. PICK r \in CompactResults(compaction.prefix) :
        CompactionFinished(CompleteCompaction(compaction, r))
  BY DEF CompactionDone
<1>2. compaction.task # 0 /\ call' = call
  BY DEF CompactionDone, clientVars
<1>3. compaction.prefix \in Histories
  BY <1>0, <1>2 DEF Fits
<1>4. r \in Results /\ (r.ok /\ compaction.prefix = <<>> => r.messages = <<>>)
  BY <1>3, CompactResultType
<1> DEFINE c1 == [compaction EXCEPT !.task = 0]
           c == [c1 EXCEPT !.result = r]
<1>5. CompactionFinished(c)
  BY <1>1 DEF CompleteCompaction
<1>6. /\ c1 \in Compactions /\ c1.task = 0 /\ c1.waiter = compaction.waiter
      /\ c1.prefix = compaction.prefix
  BY <1>0, WithTask
<1> HIDE DEF c1
<1>7. /\ c \in Compactions /\ c.task = 0 /\ c.waiter = compaction.waiter
      /\ c.prefix = compaction.prefix /\ c.result = r
  BY <1>4, <1>6, WithResult
<1> HIDE DEF c
<1>8. Fits(c)
  BY <1>3, <1>4, <1>7 DEF Fits
<1> QED BY <1>2, <1>5, <1>7, <1>8, FinishedSeen

(* A compaction timeout is seen as the end of its task. *)
LEMMA HandleTimeoutSeen ==
    ASSUME IInv, NEW ref \in fired, HandleTimeout(ref)
    PROVE  [Service!Next]_Service!vars
<1>0. compaction \in Compactions
  BY Typed
<1>1. call' = call
  BY DEF HandleTimeout, clientVars
<1>2. CASE compaction.task = ref
  <2> DEFINE c0 == CancelCompaction(compaction)
             e == ErrorResult("timeout")
             c == [c0 EXCEPT !.result = e]
  <2>1. CompactionFinished(c)
    BY <1>2 DEF HandleTimeout
  <2>2. c0 \in Compactions /\ c0.task = 0 /\ c0.waiter = compaction.waiter
    BY <1>0, CancelType DEF Fits
  <2>3. e \in Results /\ ~e.ok
    BY EmptyHistory, SMT DEF ErrorResult, Results
  <2> HIDE DEF c0, e
  <2>4. c \in Compactions /\ c.task = 0 /\ c.waiter = compaction.waiter /\ c.result = e
    BY <2>2, <2>3, WithResult
  <2> HIDE DEF c
  <2>5. Fits(c)
    BY <2>3, <2>4 DEF Fits
  <2> QED BY <1>1, <2>1, <2>4, <2>5, FinishedSeen
<1>3. CASE compaction.task # ref
  BY <1>1, <1>3, Unseen DEF HandleTimeout, sessionVars
<1> QED BY <1>2, <1>3

(* A new session serves nobody. *)
LEMMA InitSeen == Init => Service!Init
<1> SUFFICES ASSUME Init PROVE Service!Init
  OBVIOUS
<1>1. turn.recipient = Nil /\ compaction.waiter = Nil /\ call = [p \in Prompts |-> "idle"]
  BY DEF Init, NewTurn, NewCompaction
<1>2. Owner = Nil
  BY <1>1 DEF Owner
<1>3. \A p \in Prompts : Told(call[p]) = "idle"
  BY <1>1, ToldOf
<1>4. Status = [p \in Prompts |-> "idle"]
  BY <1>3 DEF Status
<1> QED BY <1>2, <1>4 DEF Service!Init

(* Every step of the session is a step of the service, or none. *)
LEMMA NextSeen == IInv /\ [Next]_vars => [Service!Next]_Service!vars
<1> SUFFICES ASSUME IInv, [Next]_vars PROVE [Service!Next]_Service!vars
  OBVIOUS
<1>1. ASSUME NEW p \in Prompts, Run(p) \/ RunTimeout(p) \/ Subscribe(p) \/ Stream(p)
                                \/ Unsubscribe(p) \/ SubscriberDown(p)
      PROVE  [Service!Next]_Service!vars
  BY <1>1, ClientStepSeen
<1>2. CASE Abort \/ Clear
  BY <1>2, AbortClearSeen
<1>3. CASE Compact
  BY <1>3, CompactSeen
<1>4. CASE Steer
  <2>1. \/ turn' = Steered(turn, controls)
        \/ turn' = FollowedUp(turn, controls)
    BY <1>4 DEF Steer
  <2>2. turn'.recipient = turn.recipient
    BY <2>1, Typed, SteeredType
  <2> QED BY <1>4, <2>2, Unseen DEF Steer, clientVars
<1>5. ASSUME NEW p \in Prompts, SessionHandles(p)
      PROVE  [Service!Next]_Service!vars
  BY <1>5, HandlerSeen
<1>6. ASSUME NEW p \in Prompts, WorkerSteps(p)
      PROVE  [Service!Next]_Service!vars
  <2>1. 1 \in ToolIds
    BY SessionAssumption DEF ToolIds
  <2> QED BY <1>6, <2>1, InnerSteps
<1>7. ASSUME NEW p \in Prompts, NEW t \in ToolIds, ToolSteps(p, t)
      PROVE  [Service!Next]_Service!vars
  BY <1>7, InnerSteps
<1>8. CASE CompactionDone
  BY <1>8, CompactionDoneSeen
<1>9. CASE TimerFires \/ Persist
  BY <1>9, Unseen DEF TimerFires, Persist, sessionVars, clientVars
<1>10. ASSUME NEW ref \in fired, HandleTimeout(ref)
       PROVE  [Service!Next]_Service!vars
  BY <1>10, HandleTimeoutSeen
<1>11. CASE UNCHANGED vars
  BY <1>11, Unseen DEF vars
<1> QED BY <1>1, <1>2, <1>3, <1>4, <1>5, <1>6, <1>7, <1>8, <1>9, <1>10, <1>11
        DEF Next, ClientSteps

(* The session, with every worker, tool, client and compaction task running at once,
   keeps what TurnService promises its clients: one turn at a time, and at most one
   answer to each call, the one of its own turn (run, stream, abort_turn, clear,
   run_complete, stream_complete and compact of session.ex). *)
THEOREM SessionImplementsService == Spec => ImplementsTurnService
<1>1. Init => Service!Init
  BY InitSeen
<1>2. IInv /\ [Next]_vars => [Service!Next]_Service!vars
  BY NextSeen
<1>3. Spec => []IInv
  BY SessionInvariant
<1> QED BY <1>1, <1>2, <1>3, PTL DEF Spec, ImplementsTurnService, Service!Spec
=============================================================================
