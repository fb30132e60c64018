------------------------- MODULE HostSessionProofs --------------------------
(***************************************************************************)
(* What holds of a host-driven session for any set of call identifiers and *)
(* any bounds, whatever the host calls and whatever it answers.            *)
(***************************************************************************)
EXTENDS HostSession, SequenceTheorems, FiniteSetTheorems, TLAPS

-----------------------------------------------------------------------------
(* The messages of a transcript, with whatever error flag append_results finds. *)
Flags == BOOLEAN \cup {Results(c, o)[k].error : c \in Seq(CallIds), o \in Outputs, k \in Nat}
Transcript == [role : {"user", "assistant", "tool"}, calls : Seq(CallIds),
               id : CallIds \cup {None}, error : Flags]

(* One thing is awaited at a time, and what is awaited was asked for; a session at rest
   ends with a final answer. *)
Awaits ==
    /\ history \in Seq(Transcript)
    /\ awaiting_completion \in BOOLEAN /\ iterations \in 0..MaxIterations /\ prompts \in Nat
    /\ awaiting_tools # None => /\ awaiting_tools \in Seq(CallIds) /\ awaiting_tools # <<>>
                                /\ ~awaiting_completion /\ history # <<>>
    /\ ~InProgress => history = <<>> \/ Last(history) = Assistant(<<>>)

(* The prompts up to message i of h, and the replies of turn t. *)
Users(h, i)   == {j \in 1..i : h[j].role = "user"}
Replies(h, t) == {i \in 1..Len(h) : h[i].role = "assistant" /\ Cardinality(Users(h, i)) = t}

(* Every prompt is in the transcript; the turn in progress has used an iteration for each
   reply it has and for the one it awaits. *)
Counted ==
    /\ Cardinality(Users(history, Len(history))) = prompts
    /\ \A t \in 1..prompts : Cardinality(Replies(history, t)) <= MaxIterations
    /\ Cardinality(Replies(history, prompts)) + (IF awaiting_completion THEN 1 ELSE 0) <= iterations

(* TranscriptSound of a transcript h whose batches at the places in open are awaited. *)
AnsweredIn(h, i) ==
    /\ i + Len(h[i].calls) <= Len(h)
    /\ \A k \in 1..Len(h[i].calls) : h[i + k].role = "tool" /\ h[i + k].id = h[i].calls[k]
BatchesAnswered(h, open) ==
    \A i \in 1..Len(h) : h[i].role = "assistant" /\ i \notin open => AnsweredIn(h, i)
ToolsFollow(h, open) ==
    \A i \in 1..Len(h) : h[i].role = "tool" =>
        \E j \in 1..Len(h) : /\ h[j].role = "assistant" /\ j \notin open
                             /\ j < i /\ i <= j + Len(h[j].calls)
PromptsFollow(h) == \A i \in 2..Len(h) : h[i].role = "user" => h[i - 1] = Assistant(<<>>)
RepliesFollow(h) == \A i \in 1..Len(h) : h[i].role = "assistant" =>
                        i > 1 /\ h[i - 1].role \in {"user", "tool"}

Open == IF awaiting_tools = None THEN {} ELSE {Len(history)}
Sound ==
    /\ BatchesAnswered(history, Open) /\ ToolsFollow(history, Open)
    /\ PromptsFollow(history) /\ RepliesFollow(history)
    /\ awaiting_tools # None => Last(history) = Assistant(awaiting_tools)
    /\ awaiting_completion => history # <<>> /\ Last(history).role \in {"user", "tool"}

HostInv == Awaits /\ Sound /\ Counted

-----------------------------------------------------------------------------
(* g begins with h. *)
Begins(h, g) == Len(h) <= Len(g) /\ \A i \in 1..Len(h) : g[i] = h[i]

LEMMA UsersFinite ==
    ASSUME NEW h, NEW i \in Nat
    PROVE  IsFiniteSet(Users(h, i)) /\ Cardinality(Users(h, i)) \in Nat
<1>1. IsFiniteSet(1..i)
  BY FS_Interval
<1>2. Users(h, i) \in SUBSET (1..i)
  BY DEF Users
<1>3. IsFiniteSet(Users(h, i))
  BY <1>1, <1>2, FS_Subset
<1> QED BY <1>3, FS_CardinalityType

LEMMA RepliesFinite ==
    ASSUME NEW h, Len(h) \in Nat, NEW t
    PROVE  IsFiniteSet(Replies(h, t)) /\ Cardinality(Replies(h, t)) \in Nat
<1>1. IsFiniteSet(1..Len(h))
  BY FS_Interval
<1>2. Replies(h, t) \in SUBSET (1..Len(h))
  BY DEF Replies
<1>3. IsFiniteSet(Replies(h, t))
  BY <1>1, <1>2, FS_Subset
<1> QED BY <1>3, FS_CardinalityType

(* What was counted stays counted in the same turn. *)
LEMMA UsersKept ==
    ASSUME NEW h, NEW g, Len(h) \in Nat, Begins(h, g), NEW i \in 0..Len(h)
    PROVE  Users(g, i) = Users(h, i)
BY DEF Begins, Users

(* A turn's number grows along the transcript. *)
LEMMA UsersGrow ==
    ASSUME NEW h, NEW i \in Nat, NEW n \in Nat, i <= n
    PROVE  Cardinality(Users(h, i)) <= Cardinality(Users(h, n))
<1>1. Users(h, i) \in SUBSET Users(h, n)
  BY DEF Users
<1> QED BY <1>1, UsersFinite, FS_Subset

(* Results of tools start no turn and reply to none. *)
LEMMA ResultsCount ==
    ASSUME NEW h, NEW g, Len(h) \in Nat, Len(g) \in Nat, Begins(h, g),
           \A i \in Len(h) + 1..Len(g) : g[i].role = "tool"
    PROVE  /\ Users(g, Len(g)) = Users(h, Len(h))
           /\ \A t : Replies(g, t) = Replies(h, t)
<1>1. Users(g, Len(g)) = Users(h, Len(h))
  BY DEF Users, Begins
<1>2. ASSUME NEW t PROVE Replies(g, t) = Replies(h, t)
  <2>1. \A i \in 1..Len(h) : Users(g, i) = Users(h, i) /\ g[i] = h[i] /\ i \in 1..Len(g)
    BY UsersKept DEF Begins
  <2>2. \A i \in 1..Len(g) : g[i].role = "assistant" => i \in 1..Len(h)
    BY DEF Begins
  <2> QED BY <2>1, <2>2 DEF Replies
<1> QED BY <1>1, <1>2

(* A prompt starts a turn that has no replies yet, *)
LEMMA UserCounts ==
    ASSUME NEW h, NEW g, Len(h) \in Nat, Len(g) = Len(h) + 1, Begins(h, g), g[Len(g)].role = "user"
    PROVE  /\ Cardinality(Users(g, Len(g))) = Cardinality(Users(h, Len(h))) + 1
           /\ \A t : Replies(g, t) = Replies(h, t)
           /\ Replies(g, Cardinality(Users(g, Len(g)))) = {}
<1>1. Users(g, Len(g)) = Users(h, Len(h)) \cup {Len(g)} /\ Len(g) \notin Users(h, Len(h))
  BY DEF Users, Begins
<1>2. Cardinality(Users(g, Len(g))) = Cardinality(Users(h, Len(h))) + 1
  BY <1>1, UsersFinite, FS_AddElement
<1>3. ASSUME NEW t PROVE Replies(g, t) = Replies(h, t)
  <2>1. \A i \in 1..Len(h) : Users(g, i) = Users(h, i) /\ g[i] = h[i] /\ i \in 1..Len(g)
    BY UsersKept DEF Begins
  <2>2. \A i \in 1..Len(g) : g[i].role = "assistant" => i \in 1..Len(h)
    OBVIOUS
  <2> QED BY <2>1, <2>2 DEF Replies
<1>4. Replies(h, Cardinality(Users(g, Len(g)))) = {}
  <2> SUFFICES ASSUME NEW i \in 1..Len(h), Cardinality(Users(h, i)) = Cardinality(Users(g, Len(g))) PROVE FALSE
    BY DEF Replies
  <2>1. Cardinality(Users(h, i)) <= Cardinality(Users(h, Len(h))) /\ Cardinality(Users(h, Len(h))) \in Nat
    BY UsersGrow, UsersFinite
  <2> QED BY <1>2, <2>1
<1> QED BY <1>2, <1>3, <1>4

(* and a reply belongs to the last turn. *)
LEMMA ReplyCounts ==
    ASSUME NEW h, NEW g, Len(h) \in Nat, Len(g) = Len(h) + 1, Begins(h, g), g[Len(g)].role = "assistant"
    PROVE  /\ Users(g, Len(g)) = Users(h, Len(h))
           /\ \A t : t # Cardinality(Users(h, Len(h))) => Replies(g, t) = Replies(h, t)
           /\ Cardinality(Replies(g, Cardinality(Users(h, Len(h)))))
                = Cardinality(Replies(h, Cardinality(Users(h, Len(h))))) + 1
<1>1. Users(g, Len(g)) = Users(h, Len(h))
  BY DEF Users, Begins
<1>2. \A i \in 1..Len(h) : Users(g, i) = Users(h, i) /\ g[i] = h[i] /\ i \in 1..Len(g)
  BY UsersKept DEF Begins
<1>3. \A i \in 1..Len(g) : i = Len(g) \/ i \in 1..Len(h)
  OBVIOUS
<1>4. ASSUME NEW t, t # Cardinality(Users(h, Len(h))) PROVE Replies(g, t) = Replies(h, t)
  BY <1>1, <1>2, <1>3, <1>4 DEF Replies
<1>5. PICK t : t = Cardinality(Users(h, Len(h)))
  OBVIOUS
<1>6. Replies(g, t) = Replies(h, t) \cup {Len(g)} /\ Len(g) \notin Replies(h, t)
  <2>1. Len(g) \in 1..Len(g) /\ Len(g) \notin 1..Len(h)
    OBVIOUS
  <2> QED BY <1>1, <1>2, <1>3, <1>5, <2>1 DEF Replies
<1>7. Cardinality(Replies(g, t)) = Cardinality(Replies(h, t)) + 1
  BY <1>6, RepliesFinite, FS_AddElement
<1> QED BY <1>1, <1>4, <1>5, <1>7

-----------------------------------------------------------------------------
(* A transcript that grows by one message or by many, *)
LEMMA Grown ==
    ASSUME NEW h \in Seq(Transcript), NEW m \in Transcript
    PROVE  /\ Append(h, m) \in Seq(Transcript) /\ Append(h, m) # <<>> /\ Len(h) \in Nat
           /\ Len(Append(h, m)) = Len(h) + 1 /\ Begins(h, Append(h, m))
           /\ Append(h, m)[Len(h) + 1] = m /\ Last(Append(h, m)) = m
<1>1. /\ Append(h, m) \in Seq(Transcript) /\ Append(h, m) # <<>> /\ Len(h) \in Nat
      /\ Len(Append(h, m)) = Len(h) + 1 /\ Append(h, m)[Len(h) + 1] = m
      /\ \A i \in 1..Len(h) : Append(h, m)[i] = h[i]
  BY AppendProperties, LenProperties
<1> QED BY <1>1 DEF Begins, Last

LEMMA GrownBy ==
    ASSUME NEW h \in Seq(Transcript), NEW r \in Seq(Transcript)
    PROVE  /\ h \o r \in Seq(Transcript) /\ Len(h \o r) = Len(h) + Len(r)
           /\ \A i \in 1..Len(h) + Len(r) : (h \o r)[i] = IF i <= Len(h) THEN h[i] ELSE r[i - Len(h)]
BY ConcatProperties

(* and what the results of a batch are. *)
LEMMA ResultsShape ==
    ASSUME NEW calls \in Seq(CallIds), NEW outputs \in Outputs
    PROVE  /\ Results(calls, outputs) \in Seq(Transcript) /\ Len(Results(calls, outputs)) = Len(calls)
           /\ \A k \in 1..Len(calls) : /\ Results(calls, outputs)[k].role = "tool"
                                       /\ Results(calls, outputs)[k].id = calls[k]
<1> DEFINE r == Results(calls, outputs)
           n == Len(calls)
<1>1. n \in Nat /\ DOMAIN calls = 1..n /\ \A k \in 1..n : calls[k] \in CallIds /\ k \in Nat
  BY LenProperties
<1>2. DOMAIN r = 1..n /\ r = [k \in 1..n |-> r[k]]
  BY <1>1 DEF Results
<1>3. ASSUME NEW k \in 1..n
      PROVE  r[k].role = "tool" /\ r[k].id = calls[k] /\ r[k] \in Transcript
  <2>1. \E e : r[k] = Result(calls[k], e)
    BY <1>1 DEF Results
  <2>2. PICK e : r[k] = Result(calls[k], e)
    BY <2>1
  <2>3. r[k].role = "tool" /\ r[k].id = calls[k] /\ r[k].error = e
    BY <2>2 DEF Result
  <2>4. r[k].error \in Flags
    BY <1>1 DEF Flags
  <2>5. <<>> \in Seq(CallIds)
    OBVIOUS
  <2>6. r[k] \in Transcript
    BY <1>1, <2>2, <2>3, <2>4, <2>5 DEF Result, Transcript
  <2> QED BY <2>3, <2>6
<1> HIDE DEF r, n
<1>4. r \in [1..n -> Transcript]
  BY <1>2, <1>3
<1>5. r \in Seq(Transcript) /\ Len(r) = n
  BY <1>1, <1>2, <1>4
<1> QED BY <1>3, <1>5 DEF r, n

LEMMA HostStarts == Init => HostInv
<1> SUFFICES ASSUME Init PROVE HostInv
  OBVIOUS
<1>1. Awaits
  <2>1. history = <<>> /\ history \in Seq(Transcript) /\ awaiting_completion = FALSE
    BY DEF Init
  <2>2. iterations \in 0..MaxIterations /\ prompts \in Nat /\ awaiting_tools = None
    BY HostAssumption DEF Init
  <2> QED BY <2>1, <2>2 DEF Awaits
<1>2. Sound
  BY DEF Init, Sound, BatchesAnswered, ToolsFollow, PromptsFollow, RepliesFollow
<1>3. Counted
  <2>1. Len(history) = 0 /\ Users(history, Len(history)) = {} /\ Replies(history, prompts) = {}
    BY DEF Init, Users, Replies
  <2> QED BY <2>1, FS_EmptySet DEF Init, Counted
<1> QED BY <1>1, <1>2, <1>3 DEF HostInv

LEMMA RefusedKeeps ==
    ASSUME HostInv, UNCHANGED <<session, prompts>>
    PROVE  HostInv'
<1>1. UNCHANGED <<history, awaiting_completion, awaiting_tools, iterations, prompts>>
  BY DEF session
<1>2. Awaits'
  BY <1>1 DEF HostInv, Awaits, InProgress
<1>3. Counted'
  BY <1>1 DEF HostInv, Counted
<1>4. Sound'
  BY <1>1 DEF HostInv, Sound, Open
<1> QED BY <1>2, <1>3, <1>4 DEF HostInv

(* What was in order in a transcript stays in order when it grows. *)
LEMMA EarlierKept ==
    ASSUME NEW h \in Seq(Transcript), NEW g, Len(g) \in Nat, Begins(h, g), NEW i \in 1..Len(h)
    PROVE  /\ g[i] = h[i] /\ i \in 1..Len(g)
           /\ AnsweredIn(h, i) => AnsweredIn(g, i)
           /\ PromptsFollow(h) /\ i > 1 /\ g[i].role = "user" => g[i - 1] = Assistant(<<>>)
           /\ RepliesFollow(h) /\ g[i].role = "assistant" => i > 1 /\ g[i - 1].role \in {"user", "tool"}
           /\ \A open : ToolsFollow(h, open) /\ g[i].role = "tool" =>
                 \E j \in 1..Len(h) : /\ g[j].role = "assistant" /\ j \notin open
                                      /\ j < i /\ i <= j + Len(g[j].calls)
<1> DEFINE n == Len(h)
<1>1. n \in Nat /\ (\A k \in 1..n : g[k] = h[k]) /\ n <= Len(g) /\ i \in 1..Len(g)
  BY LenProperties DEF Begins
<1>2. AnsweredIn(h, i) => AnsweredIn(g, i)
  <2> SUFFICES ASSUME AnsweredIn(h, i) PROVE AnsweredIn(g, i)
    OBVIOUS
  <2>1. h[i] \in Transcript
    BY <1>1
  <2>2. Len(h[i].calls) \in Nat
    BY <2>1, LenProperties DEF Transcript
  <2>3. \A k \in 1..Len(h[i].calls) : i + k \in 1..n
    BY <1>1, <2>2 DEF AnsweredIn
  <2> QED BY <1>1, <2>2, <2>3 DEF AnsweredIn
<1>3. PromptsFollow(h) /\ i > 1 /\ g[i].role = "user" => g[i - 1] = Assistant(<<>>)
  <2>1. i > 1 => i \in 2..n /\ i - 1 \in 1..n
    BY <1>1
  <2> QED BY <1>1, <2>1 DEF PromptsFollow
<1>4. RepliesFollow(h) /\ g[i].role = "assistant" => i > 1 /\ g[i - 1].role \in {"user", "tool"}
  <2>1. i > 1 => i - 1 \in 1..n
    BY <1>1
  <2> QED BY <1>1, <2>1 DEF RepliesFollow
<1>5. ASSUME NEW open, ToolsFollow(h, open), g[i].role = "tool"
      PROVE  \E j \in 1..n : /\ g[j].role = "assistant" /\ j \notin open
                             /\ j < i /\ i <= j + Len(g[j].calls)
  BY <1>1, <1>5 DEF ToolsFollow
<1> QED BY <1>1, <1>2, <1>3, <1>4, <1>5

(* submit/2 on a session at rest. *)
LEMMA SubmitKeeps ==
    ASSUME HostInv, Submit
    PROVE  HostInv'
<1>1. CASE InProgress
  BY <1>1, RefusedKeeps DEF Submit, Refused
<1>2. CASE ~InProgress
  <2>1. /\ history' = Append(history, User) /\ iterations' = 1 /\ awaiting_completion' = TRUE
        /\ awaiting_tools' = None /\ prompts' = prompts + 1
    <3>1. ~(0 >= MaxIterations)
      BY HostAssumption
    <3> QED BY <1>2, <3>1 DEF Submit, NextRequest
  <2>2. User \in Transcript /\ User.role = "user"
    <3>1. FALSE \in Flags /\ <<>> \in Seq(CallIds)
      BY DEF Flags
    <3> QED BY <3>1 DEF User, Transcript
  <2> DEFINE h == history
             g == Append(h, User)
             n == Len(h)
  <2>3. /\ h \in Seq(Transcript) /\ prompts \in Nat /\ awaiting_tools = None
        /\ h = <<>> \/ Last(h) = Assistant(<<>>)
    BY <1>2 DEF HostInv, Awaits, InProgress
  <2>4. /\ g \in Seq(Transcript) /\ g # <<>> /\ n \in Nat /\ Len(g) = n + 1
        /\ Begins(h, g) /\ g[n + 1] = User /\ Last(g) = User
    BY <2>2, <2>3, Grown
  <2>5. \A i \in 1..n : g[i] = h[i]
    BY <2>4 DEF Begins
  <2>6. n = 0 \/ h[n] = Assistant(<<>>)
    <3>1. h = <<>> => n = 0
      OBVIOUS
    <3> QED BY <2>3, <3>1 DEF Last
  <2>7. /\ BatchesAnswered(h, {}) /\ ToolsFollow(h, {}) /\ PromptsFollow(h) /\ RepliesFollow(h)
    BY <2>3 DEF HostInv, Sound, Open
  <2>8. Awaits'
    BY <2>1, <2>3, <2>4, HostAssumption DEF Awaits, InProgress
  <2>9. Counted'
    <3>1. /\ Cardinality(Users(g, Len(g))) = Cardinality(Users(h, n)) + 1
          /\ \A t : Replies(g, t) = Replies(h, t)
          /\ Replies(g, Cardinality(Users(g, Len(g)))) = {}
      BY <2>2, <2>4, UserCounts
    <3>2. Cardinality(Users(h, n)) = prompts /\ \A t \in 1..prompts : Cardinality(Replies(h, t)) <= MaxIterations
      BY DEF HostInv, Counted
    <3>3. Replies(g, prompts + 1) = {} /\ Cardinality(Replies(g, prompts + 1)) = 0
      BY <3>1, <3>2, FS_EmptySet
    <3>4. \A t \in 1..prompts + 1 : Cardinality(Replies(g, t)) <= MaxIterations
      <4>1. ASSUME NEW t \in 1..prompts + 1, t # prompts + 1 PROVE t \in 1..prompts
        BY <2>3, <4>1
      <4> QED BY <3>1, <3>2, <3>3, <4>1, HostAssumption
    <3> HIDE DEF g, h, n
    <3>5. history' = g
      BY <2>1 DEF g, h
    <3> QED BY <2>1, <2>3, <3>1, <3>2, <3>3, <3>4, <3>5 DEF Counted
  <2>10. Sound'
    <3>0. \A i \in 1..Len(g) : i = n + 1 \/ i \in 1..n
      BY <2>4
    <3>1. BatchesAnswered(g, {})
      BY <2>2, <2>3, <2>4, <2>7, <3>0, EarlierKept DEF BatchesAnswered
    <3>2. ToolsFollow(g, {})
      <4> SUFFICES ASSUME NEW i \in 1..Len(g), g[i].role = "tool"
                   PROVE  \E j \in 1..Len(g) : g[j].role = "assistant" /\ j < i /\ i <= j + Len(g[j].calls)
        BY DEF ToolsFollow
      <4>1. i \in 1..n
        BY <2>2, <2>4, <3>0
      <4>2. PICK open : open = {}
        OBVIOUS
      <4>3. ToolsFollow(h, open) /\ Len(g) \in Nat
        BY <2>4, <2>7, <4>2
      <4> HIDE DEF g
      <4>4. \E j \in 1..n : g[j].role = "assistant" /\ j < i /\ i <= j + Len(g[j].calls)
        BY <2>3, <2>4, <4>1, <4>3, EarlierKept
      <4> QED BY <2>4, <4>4
    <3>3. PromptsFollow(g)
      <4> SUFFICES ASSUME NEW i \in 2..Len(g), g[i].role = "user" PROVE g[i - 1] = Assistant(<<>>)
        BY DEF PromptsFollow
      <4>1. CASE i = n + 1
        BY <2>4, <2>5, <2>6, <4>1
      <4>2. CASE i \in 1..n
        BY <2>3, <2>4, <2>7, <4>2, EarlierKept
      <4> QED BY <3>0, <4>1, <4>2
    <3>4. RepliesFollow(g)
      BY <2>2, <2>3, <2>4, <2>7, <3>0, EarlierKept DEF RepliesFollow
    <3>5. history' = g /\ Open' = {}
      BY <2>1 DEF Open
    <3> HIDE DEF g
    <3> QED BY <2>1, <2>2, <2>4, <3>1, <3>2, <3>3, <3>4, <3>5 DEF Sound
  <2> QED BY <2>8, <2>9, <2>10 DEF HostInv
<1> QED BY <1>1, <1>2

(* A reply follows a prompt or a batch of results; it is answered if it asks for nothing. *)
LEMMA ReplySound ==
    ASSUME NEW h \in Seq(Transcript), NEW g, NEW n, n = Len(h), Len(g) = n + 1, Begins(h, g),
           NEW m, g[n + 1] = m, m.role = "assistant", NEW calls, m.calls = calls,
           n >= 1, h[n].role \in {"user", "tool"}, NEW open, n + 1 \in open \/ Len(calls) = 0,
           open \subseteq {n + 1}, BatchesAnswered(h, {}), ToolsFollow(h, {}), PromptsFollow(h), RepliesFollow(h)
    PROVE  BatchesAnswered(g, open) /\ ToolsFollow(g, open) /\ PromptsFollow(g) /\ RepliesFollow(g)
<1>1. n \in Nat /\ Len(g) \in Nat /\ \A i \in 1..Len(g) : i = n + 1 \/ i \in 1..n
  BY LenProperties
<1>2. \A i \in 1..n : i \in 1..Len(g) /\ i # n + 1 /\ g[i] = h[i]
  BY <1>1 DEF Begins
<1>3. BatchesAnswered(g, open)
  <2> SUFFICES ASSUME NEW i \in 1..Len(g), g[i].role = "assistant", i \notin open PROVE AnsweredIn(g, i)
    BY DEF BatchesAnswered
  <2>1. CASE i = n + 1
    <3>1. Len(g[i].calls) = 0
      BY <2>1
    <3>2. i + 0 <= Len(g) /\ \A k \in 1..0 : FALSE
      BY <1>1, <2>1
    <3> QED BY <3>1, <3>2 DEF AnsweredIn
  <2>2. CASE i \in 1..n
    <3>1. AnsweredIn(h, i)
      BY <1>2, <2>2 DEF BatchesAnswered
    <3> QED BY <1>1, <2>2, <3>1, EarlierKept
  <2> QED BY <1>1, <2>1, <2>2
<1>4. ToolsFollow(g, open)
  <2> SUFFICES ASSUME NEW i \in 1..Len(g), g[i].role = "tool"
               PROVE  \E j \in 1..Len(g) : /\ g[j].role = "assistant" /\ j \notin open
                                           /\ j < i /\ i <= j + Len(g[j].calls)
    BY DEF ToolsFollow
  <2>1. i \in 1..n
    BY <1>1
  <2>2. PICK j \in 1..n : g[j].role = "assistant" /\ j < i /\ i <= j + Len(g[j].calls)
    BY <1>2, <2>1 DEF ToolsFollow
  <2> QED BY <1>2, <2>2
<1>5. PromptsFollow(g)
  <2> SUFFICES ASSUME NEW i \in 2..Len(g), g[i].role = "user" PROVE g[i - 1] = Assistant(<<>>)
    BY DEF PromptsFollow
  <2>1. i \in 1..n /\ i > 1
    BY <1>1
  <2> QED BY <1>1, <2>1, EarlierKept
<1>6. RepliesFollow(g)
  <2> SUFFICES ASSUME NEW i \in 1..Len(g), g[i].role = "assistant"
               PROVE  i > 1 /\ g[i - 1].role \in {"user", "tool"}
    BY DEF RepliesFollow
  <2>1. CASE i = n + 1
    BY <1>1, <1>2, <2>1
  <2>2. CASE i \in 1..n
    BY <1>1, <2>2, EarlierKept
  <2> QED BY <1>1, <2>1, <2>2
<1> QED BY <1>3, <1>4, <1>5, <1>6

(* receive_completion/2 with a reply of the assistant. *)
LEMMA ReplyKeeps ==
    ASSUME HostInv, awaiting_completion, NEW calls \in Seq(CallIds),
           awaiting_completion' = FALSE, history' = Append(history, Assistant(calls)),
           awaiting_tools' = (IF calls = <<>> THEN awaiting_tools ELSE calls),
           UNCHANGED <<iterations, prompts>>
    PROVE  HostInv'
<1> DEFINE h == history
           g == Append(h, Assistant(calls))
           n == Len(h)
<1>1. /\ h \in Seq(Transcript) /\ prompts \in Nat /\ awaiting_tools = None /\ iterations \in 0..MaxIterations
      /\ h # <<>> /\ Last(h).role \in {"user", "tool"}
  BY DEF HostInv, Awaits, Sound
<1>2. Assistant(calls) \in Transcript /\ Assistant(calls).role = "assistant" /\ Assistant(calls).calls = calls
  <2>1. FALSE \in Flags
    BY DEF Flags
  <2> QED BY <2>1 DEF Assistant, Transcript
<1>3. /\ g \in Seq(Transcript) /\ g # <<>> /\ n \in Nat /\ Len(g) = n + 1
      /\ Begins(h, g) /\ g[n + 1] = Assistant(calls) /\ Last(g) = Assistant(calls)
  BY <1>1, <1>2, Grown
<1>4. n >= 1 /\ g[n] = h[n] /\ h[n].role \in {"user", "tool"}
  BY <1>1, <1>3 DEF Begins, Last
<1>5. /\ BatchesAnswered(h, {}) /\ ToolsFollow(h, {}) /\ PromptsFollow(h) /\ RepliesFollow(h)
  BY <1>1 DEF HostInv, Sound, Open
<1>6. calls # None
  BY HostAssumption
<1>7. Awaits'
  <2>1. history' = g
    OBVIOUS
  <2>2. calls = <<>> => Last(g) = Assistant(<<>>)
    BY <1>3
  <2> HIDE DEF g
  <2> QED BY <1>1, <1>3, <1>6, <2>1, <2>2 DEF Awaits, InProgress
<1>8. Counted'
  <2>1. /\ Users(g, Len(g)) = Users(h, n)
        /\ \A t : t # Cardinality(Users(h, n)) => Replies(g, t) = Replies(h, t)
        /\ Cardinality(Replies(g, Cardinality(Users(h, n)))) = Cardinality(Replies(h, Cardinality(Users(h, n)))) + 1
    BY <1>2, <1>3, ReplyCounts
  <2>2. /\ Cardinality(Users(h, n)) = prompts
        /\ \A t \in 1..prompts : Cardinality(Replies(h, t)) <= MaxIterations
        /\ Cardinality(Replies(h, prompts)) + 1 <= iterations
    BY DEF HostInv, Counted
  <2>3. Cardinality(Replies(g, prompts)) = Cardinality(Replies(h, prompts)) + 1
    BY <2>1, <2>2
  <2>4. Cardinality(Replies(h, prompts)) \in Nat
    BY <1>3, RepliesFinite
  <2>5. Cardinality(Replies(g, prompts)) <= iterations /\ Cardinality(Replies(g, prompts)) <= MaxIterations
    BY <1>1, <2>2, <2>3, <2>4, HostAssumption
  <2>6. \A t \in 1..prompts : Cardinality(Replies(g, t)) <= MaxIterations
    BY <2>1, <2>2, <2>5
  <2>7. history' = g /\ Cardinality(Replies(g, prompts)) \in Nat
    BY <2>3, <2>4
  <2> HIDE DEF g, h, n
  <2> QED BY <2>1, <2>2, <2>5, <2>6, <2>7 DEF Counted
<1>9. Sound'
  <2> DEFINE open == IF calls = <<>> THEN {} ELSE {n + 1}
  <2>0. history' = g
    OBVIOUS
  <2> HIDE DEF g
  <2>1. n + 1 \in open \/ Len(calls) = 0
    OBVIOUS
  <2>2. open \subseteq {n + 1}
    OBVIOUS
  <2> HIDE DEF open
  <2>3. BatchesAnswered(g, open) /\ ToolsFollow(g, open) /\ PromptsFollow(g) /\ RepliesFollow(g)
    BY <1>1, <1>2, <1>3, <1>4, <1>5, <2>1, <2>2, ReplySound
  <2>6. Open' = open
    BY <1>1, <1>3, <1>6, <2>0 DEF Open, open
  <2>7. awaiting_tools' # None => Last(g) = Assistant(awaiting_tools')
    BY <1>1, <1>3
  <2> QED BY <2>0, <2>3, <2>6, <2>7 DEF Sound
<1> QED BY <1>7, <1>8, <1>9 DEF HostInv

LEMMA ReceiveCompletionKeeps ==
    ASSUME HostInv, ReceiveCompletion
    PROVE  HostInv'
<1>1. CASE UNCHANGED <<session, prompts>>
  BY <1>1, RefusedKeeps
<1>2. CASE awaiting_completion /\ ~UNCHANGED <<session, prompts>>
  <2>1. PICK calls \in Batches :
           /\ awaiting_completion' = FALSE
           /\ history' = Append(history, Assistant(calls))
           /\ awaiting_tools' = IF calls = <<>> THEN awaiting_tools ELSE calls
           /\ UNCHANGED <<iterations, prompts>>
    BY <1>2 DEF ReceiveCompletion, Refused
  <2>2. calls \in Seq(CallIds)
    BY DEF Batches, SeqOf
  <2> QED BY <1>2, <2>1, <2>2, ReplyKeeps
<1> QED BY <1>1, <1>2 DEF ReceiveCompletion, Refused

(* receive_tool_outputs/2 with outputs that answer the batch. *)
LEMMA ResultsKeep ==
    ASSUME HostInv, awaiting_tools # None, NEW outputs \in Outputs, iterations < MaxIterations,
           history' = history \o Results(awaiting_tools, outputs), iterations' = iterations + 1,
           awaiting_completion' = TRUE, awaiting_tools' = None, prompts' = prompts
    PROVE  HostInv'
<1> DEFINE h == history
           calls == awaiting_tools
           r == Results(calls, outputs)
           g == h \o r
           n == Len(h)
           l == Len(calls)
<1>1. /\ h \in Seq(Transcript) /\ prompts \in Nat /\ iterations \in 0..MaxIterations /\ ~awaiting_completion
      /\ calls \in Seq(CallIds) /\ calls # <<>> /\ h # <<>> /\ Last(h) = Assistant(calls)
  BY DEF HostInv, Awaits, Sound
<1>2. /\ r \in Seq(Transcript) /\ Len(r) = l
      /\ \A k \in 1..l : r[k].role = "tool" /\ r[k].id = calls[k]
  BY <1>1, ResultsShape
<1>3. l \in Nat /\ l >= 1 /\ n \in Nat /\ n >= 1 /\ h[n] = Assistant(calls)
  BY <1>1, LenProperties, EmptySeq DEF Last
<1>4. /\ BatchesAnswered(h, {n}) /\ ToolsFollow(h, {n}) /\ PromptsFollow(h) /\ RepliesFollow(h)
  BY DEF HostInv, Sound, Open
<1> HIDE DEF r
<1>5. /\ g \in Seq(Transcript) /\ Len(g) = n + l
      /\ \A i \in 1..n : g[i] = h[i]
      /\ \A k \in 1..l : g[n + k] = r[k]
  <2>1. /\ g \in Seq(Transcript) /\ Len(g) = n + l
        /\ \A i \in 1..n + l : g[i] = IF i <= n THEN h[i] ELSE r[i - n]
    <3>1. h \in Seq(Transcript) /\ r \in Seq(Transcript) /\ Len(r) = l
      BY <1>1, <1>2
    <3> HIDE DEF h, l
    <3> QED BY <3>1, GrownBy
  <2> HIDE DEF g
  <2>2. \A k \in 1..l : n + k \in 1..n + l /\ ~(n + k <= n) /\ (n + k) - n = k
    BY <1>3
  <2> QED BY <1>3, <2>1, <2>2
<1> HIDE DEF g
<1>6. Begins(h, g) /\ Len(g) \in Nat
  BY <1>3, <1>5 DEF Begins
<1>7. \A i \in 1..Len(g) : i \in 1..n \/ \E k \in 1..l : i = n + k
  <2> SUFFICES ASSUME NEW i \in 1..Len(g), i \notin 1..n PROVE i - n \in 1..l /\ i = n + (i - n)
    OBVIOUS
  <2> QED BY <1>3, <1>5
<1>8. history' = g
  BY DEF g, r
<1>9. \A k \in 1..l : g[n + k].role = "tool" /\ g[n + k].id = calls[k]
  BY <1>2, <1>5
<1>10. g # <<>> /\ Last(g).role = "tool"
  BY <1>3, <1>5, <1>9 DEF Last
<1>11. Awaits'
  BY <1>1, <1>5, <1>8, HostAssumption DEF Awaits, InProgress
<1>12. Counted'
  <2>1. \A i \in n + 1..Len(g) : g[i].role = "tool"
    <3> SUFFICES ASSUME NEW i \in n + 1..Len(g) PROVE g[i].role = "tool"
      OBVIOUS
    <3>1. i \in 1..Len(g) /\ i \notin 1..n
      BY <1>3
    <3> QED BY <1>7, <1>9, <3>1
  <2>2. Users(g, Len(g)) = Users(h, n) /\ \A t : Replies(g, t) = Replies(h, t)
    BY <1>3, <1>6, <2>1, ResultsCount
  <2>3. /\ Cardinality(Users(h, n)) = prompts
        /\ \A t \in 1..prompts : Cardinality(Replies(h, t)) <= MaxIterations
        /\ Cardinality(Replies(h, prompts)) + 0 <= iterations
    BY <1>1 DEF HostInv, Counted
  <2>4. Cardinality(Replies(h, prompts)) \in Nat
    BY <1>3, RepliesFinite
  <2>5. Cardinality(Replies(h, prompts)) + 1 <= iterations + 1
    BY <1>1, <2>3, <2>4
  <2> HIDE DEF h, n
  <2> QED BY <1>8, <2>2, <2>3, <2>5 DEF Counted
<1>13. Sound'
  <2>1. BatchesAnswered(g, {})
    <3> SUFFICES ASSUME NEW i \in 1..Len(g), g[i].role = "assistant" PROVE AnsweredIn(g, i)
      BY DEF BatchesAnswered
    <3>1. i \in 1..n
      BY <1>7, <1>9
    <3>2. CASE i = n
      <4>1. g[i].calls = calls
        BY <1>3, <1>5, <3>1, <3>2 DEF Assistant
      <4> QED BY <1>5, <1>9, <3>2, <4>1 DEF AnsweredIn
    <3>3. CASE i # n
      BY <1>1, <1>4, <1>6, <3>1, <3>3, EarlierKept DEF BatchesAnswered
    <3> QED BY <3>2, <3>3
  <2>2. ToolsFollow(g, {})
    <3> SUFFICES ASSUME NEW i \in 1..Len(g), g[i].role = "tool"
                 PROVE  \E j \in 1..Len(g) : g[j].role = "assistant" /\ j < i /\ i <= j + Len(g[j].calls)
      BY DEF ToolsFollow
    <3>1. CASE i \in 1..n
      <4>1. \E j \in 1..n : g[j].role = "assistant" /\ j < i /\ i <= j + Len(g[j].calls)
        BY <1>1, <1>4, <1>6, <3>1, EarlierKept
      <4> QED BY <1>3, <1>5, <4>1
    <3>2. CASE i \notin 1..n
      <4>1. PICK k \in 1..l : i = n + k
        BY <1>7, <3>2
      <4>0. n \in 1..n
        BY <1>3
      <4>2. g[n] = Assistant(calls)
        BY <1>3, <1>5, <4>0
      <4>3. n \in 1..Len(g) /\ g[n].role = "assistant" /\ g[n].calls = calls
        BY <1>3, <1>5, <4>2 DEF Assistant
      <4>4. n < i /\ i <= n + Len(g[n].calls)
        BY <1>3, <4>1, <4>3
      <4> QED BY <4>3, <4>4
    <3> QED BY <3>1, <3>2
  <2>3. PromptsFollow(g)
    <3> SUFFICES ASSUME NEW i \in 2..Len(g), g[i].role = "user" PROVE g[i - 1] = Assistant(<<>>)
      BY DEF PromptsFollow
    <3>1. i \in 1..n
      <4>1. i \in 1..Len(g)
        OBVIOUS
      <4> QED BY <1>7, <1>9, <4>1
    <3> QED BY <1>1, <1>4, <1>6, <3>1, EarlierKept
  <2>4. RepliesFollow(g)
    <3> SUFFICES ASSUME NEW i \in 1..Len(g), g[i].role = "assistant"
                 PROVE  i > 1 /\ g[i - 1].role \in {"user", "tool"}
      BY DEF RepliesFollow
    <3>1. i \in 1..n
      BY <1>7, <1>9
    <3> QED BY <1>1, <1>4, <1>6, <3>1, EarlierKept
  <2>5. Open' = {}
    BY DEF Open
  <2> QED BY <1>8, <1>10, <2>1, <2>2, <2>3, <2>4, <2>5 DEF Sound
<1> QED BY <1>11, <1>12, <1>13 DEF HostInv

LEMMA ReceiveToolOutputsKeeps ==
    ASSUME HostInv, ReceiveToolOutputs
    PROVE  HostInv'
<1>1. CASE UNCHANGED <<session, prompts>>
  BY <1>1, RefusedKeeps
<1>2. CASE awaiting_tools # None /\ ~UNCHANGED <<session, prompts>>
  <2>1. PICK outputs \in Outputs :
           /\ NextRequest(history \o Results(awaiting_tools, outputs), iterations)
           /\ prompts' = prompts
    BY <1>2 DEF ReceiveToolOutputs, Refused
  <2>2. ~(iterations >= MaxIterations)
    BY <1>2, <2>1 DEF NextRequest, Refused
  <2>3. iterations < MaxIterations
    BY <2>2, HostAssumption DEF HostInv, Awaits
  <2> QED BY <1>2, <2>1, <2>2, <2>3, ResultsKeep DEF NextRequest
<1> QED BY <1>1, <1>2 DEF ReceiveToolOutputs, Refused

LEMMA HostKeeps == HostInv /\ [Next]_vars => HostInv'
<1> SUFFICES ASSUME HostInv, [Next]_vars PROVE HostInv'
  OBVIOUS
<1>1. CASE Submit
  BY <1>1, SubmitKeeps
<1>2. CASE ReceiveCompletion
  BY <1>2, ReceiveCompletionKeeps
<1>3. CASE ReceiveToolOutputs
  BY <1>3, ReceiveToolOutputsKeeps
<1>4. CASE UNCHANGED vars
  BY <1>4, RefusedKeeps DEF vars
<1> QED BY <1>1, <1>2, <1>3, <1>4 DEF Next

-----------------------------------------------------------------------------
(* The session's invariant: one thing is awaited at a time, what is awaited is what the
   transcript ends with, and every reply has used one of the turn's iterations. *)
THEOREM HostInvariant == Spec => []HostInv
BY HostStarts, HostKeeps, PTL DEF Spec

(* The transcript is one a provider accepts, whatever the host sends and in whatever order
   (answers?/2 and append_results/3). *)
THEOREM TranscriptIsSound == Spec => []TranscriptSound
<1>1. HostInv => TranscriptSound
  <2> SUFFICES ASSUME HostInv PROVE TranscriptSound
    OBVIOUS
  <2>1. \A i : AnsweredIn(history, i) <=> Answered(i)
    BY DEF AnsweredIn, Answered
  <2>2. BatchesAnswered(history, Open) /\ ToolsFollow(history, Open)
    BY DEF HostInv, Sound
  <2>3. \A i \in {k \in 1..Len(history) : history[k].role = "assistant"} \ Open : Answered(i)
    BY <2>1, <2>2 DEF BatchesAnswered
  <2>4. \A i \in 1..Len(history) : history[i].role = "tool" =>
           \E j \in {k \in 1..Len(history) : history[k].role = "assistant"} \ Open :
              j < i /\ i <= j + Len(history[j].calls)
    BY <2>2 DEF ToolsFollow
  <2>5. \A i \in 2..Len(history) : history[i].role = "user" => history[i - 1] = Assistant(<<>>)
    BY DEF HostInv, Sound, PromptsFollow
  <2>6. \A i \in {k \in 1..Len(history) : history[k].role = "assistant"} :
           i > 1 /\ history[i - 1].role \in {"user", "tool"}
    BY DEF HostInv, Sound, RepliesFollow
  <2>7. /\ awaiting_tools # None => Last(history) = Assistant(awaiting_tools)
        /\ awaiting_completion => history # <<>> /\ Last(history).role \in {"user", "tool"}
    BY DEF HostInv, Sound
  <2> HIDE DEF Answered
  <2> QED BY <2>3, <2>4, <2>5, <2>6, <2>7, Zenon DEF TranscriptSound, Open
<1> QED BY <1>1, HostInvariant, PTL

(* No turn has more than MaxIterations replies (next_request's bound). *)
THEOREM RepliesAreBounded == Spec => []RepliesBounded
<1>1. HostInv => RepliesBounded
  <2> SUFFICES ASSUME HostInv, NEW t \in 1..prompts
               PROVE  Cardinality({i \in 1..Len(history) : history[i].role = "assistant" /\ TurnOf(i) = t})
                        <= MaxIterations
    BY DEF RepliesBounded
  <2>1. {i \in 1..Len(history) : history[i].role = "assistant" /\ TurnOf(i) = t} = Replies(history, t)
    BY DEF Replies, Users, TurnOf
  <2> QED BY <2>1 DEF HostInv, Counted
<1> QED BY <1>1, HostInvariant, PTL
=============================================================================
