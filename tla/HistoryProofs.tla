--------------------------- MODULE HistoryProofs ---------------------------
(***************************************************************************)
(* Proofs about the conversation of lib/condukt/session.ex: what the       *)
(* session's history, its store and the lists of the workers have to do    *)
(* with each other, whatever turns, aborts, clears and compactions come    *)
(* between.  The invariant, HistInv, relates what each list says (Expand)  *)
(* to the history; on the way, every step is shown to be Settled: the new  *)
(* history condenses a list that goes on from the old one, or is empty.    *)
(***************************************************************************)
EXTENDS SessionLifeProofs

-----------------------------------------------------------------------------
(* What a list says, and lists whose front was replaced. *)

(* An original message is no summary. *)
LEMMA BaseRole ==
    ASSUME NEW m \in BaseMessages
    PROVE  m.role # "summary" /\ m.role \in Roles
BY SMT DEF BaseMessages, Roles

(* One list begins with another exactly when they agree on its places. *)
LEMMA PrefixByPlaces ==
    ASSUME NEW S, NEW s \in Seq(S), NEW t \in Seq(S)
    PROVE  IsPrefix(s, t) <=> Len(s) <= Len(t) /\ \A i \in 1..Len(s) : t[i] = s[i]
<1>0. Len(s) \in Nat /\ Len(t) \in Nat
  BY LenProperties
<1>1. SubSeq(s, 1, Len(s)) = s
  BY SubSeqFull
<1> DEFINE u == SubSeq(t, 1, Len(s))
<1>2. ASSUME Len(s) <= Len(t)
      PROVE  u \in Seq(S) /\ Len(u) = Len(s) /\ \A i \in 1..Len(s) : u[i] = t[i]
  <2>1. \A i \in 1..Len(s) : t[i] \in S
    BY <1>0, <1>2, ElementOfSeq
  <2> QED BY <1>0, <2>1, SubSeqProperties
<1>3. ASSUME Len(s) <= Len(t), \A i \in 1..Len(s) : t[i] = s[i] PROVE u = s
  <2> HIDE DEF u
  <2> QED BY <1>2, <1>3, SeqEqual
<1>4. IsPrefix(s, t) <=> Len(s) <= Len(t) /\ s = u
  BY <1>1 DEF IsPrefix
<1> HIDE DEF u
<1> QED BY <1>2, <1>3, <1>4

(* A history that goes on says what it said, and then what was added. *)
LEMMA ExpandConcat ==
    ASSUME NEW ms \in Histories, NEW t \in Seq(BaseMessages)
    PROVE  Expand(ms \o t) = Expand(ms) \o t
<1>0. ms \in Seq(Messages) /\ t \in Seq(Messages)
  BY HistoryIsSeq, BaseIsHistory
<1>1. CASE ms = <<>>
  <2>1. ms \o t = t /\ Expand(ms) \o t = t
    BY <1>0, <1>1, ConcatEmptySeq DEF Expand
  <2>2. t # <<>> => t[1] \in BaseMessages
    BY EmptySeq, ElementOfSeq
  <2>3. Expand(t) = t
    BY <2>2, BaseRole DEF Expand
  <2> QED BY <2>1, <2>3
<1>2. CASE ms # <<>>
  <2>0. Len(ms) \in Nat /\ Len(ms) >= 1 /\ Len(t) \in Nat
    BY <1>0, <1>2, EmptySeq, LenProperties
  <2>1. /\ ms \o t \in Seq(Messages) /\ Len(ms \o t) = Len(ms) + Len(t)
        /\ \A i \in 1..(Len(ms) + Len(t)) : (ms \o t)[i] = IF i <= Len(ms) THEN ms[i] ELSE t[i - Len(ms)]
    BY <1>0, ConcatProperties
  <2>2. ms \o t # <<>> /\ (ms \o t)[1] = ms[1]
    BY <2>0, <2>1, EmptySeq
  <2>3. Tail(ms \o t) = Tail(ms) \o t
    <3>1. /\ Tail(ms) \in Seq(Messages) /\ Len(Tail(ms)) = Len(ms) - 1
          /\ \A i \in 1..(Len(ms) - 1) : Tail(ms)[i] = ms[i + 1]
      BY <1>0, <1>2, HeadTailProperties
    <3>2. /\ Tail(ms \o t) \in Seq(Messages) /\ Len(Tail(ms \o t)) = Len(ms) + Len(t) - 1
          /\ \A i \in 1..(Len(ms) + Len(t) - 1) : Tail(ms \o t)[i] = (ms \o t)[i + 1]
      BY <2>1, <2>2, HeadTailProperties
    <3> DEFINE u == Tail(ms)
               v == Tail(ms \o t)
    <3>3. /\ u \o t \in Seq(Messages) /\ Len(u \o t) = Len(u) + Len(t)
          /\ \A i \in 1..(Len(u) + Len(t)) : (u \o t)[i] = IF i <= Len(u) THEN u[i] ELSE t[i - Len(u)]
      BY <1>0, <3>1, ConcatProperties
    <3>4. ASSUME NEW i \in 1..Len(v) PROVE v[i] = (u \o t)[i]
      <4>1. v[i] = IF i + 1 <= Len(ms) THEN ms[i + 1] ELSE t[(i + 1) - Len(ms)]
        BY <2>0, <2>1, <3>2
      <4>2. (u \o t)[i] = IF i <= Len(ms) - 1 THEN u[i] ELSE t[i - (Len(ms) - 1)]
        BY <2>0, <3>1, <3>2, <3>3
      <4>3. i <= Len(ms) - 1 => u[i] = ms[i + 1]
        BY <2>0, <3>1
      <4>4. (i + 1 <= Len(ms) <=> i <= Len(ms) - 1) /\ (i + 1) - Len(ms) = i - (Len(ms) - 1)
        BY <2>0
      <4> QED BY <4>1, <4>2, <4>3, <4>4
    <3>5. Len(v) = Len(u \o t)
      BY <2>0, <3>1, <3>2, <3>3
    <3> HIDE DEF u, v
    <3>6. v \in Seq(Messages) /\ u \o t \in Seq(Messages)
      BY <3>2, <3>3 DEF v
    <3>7. v = u \o t
      BY <3>4, <3>5, <3>6, SeqEqual
    <3> QED BY <3>7 DEF u, v
  <2>4. CASE ms[1].role = "summary"
    <3>1. ms[1].covers \in Seq(Messages) /\ Tail(ms) \in Seq(Messages)
      <4>1. ms[1] \in Messages
        BY <2>0, HistoryIsSeq
      <4>2. ms[1] \in Summaries
        BY <2>4, <4>1, BaseRole DEF Messages
      <4>3. ms[1].covers \in Seq(BaseMessages)
        BY <4>2, SMT DEF Summaries
      <4> QED BY <1>0, <1>2, <4>3, BaseIsHistory, HistoryIsSeq, HeadTailProperties
    <3>2. Expand(ms) = ms[1].covers \o Tail(ms) /\ Expand(ms \o t) = ms[1].covers \o (Tail(ms) \o t)
      BY <1>2, <2>2, <2>3, <2>4 DEF Expand
    <3>3. PICK c \in Seq(Messages), u \in Seq(Messages) : c = ms[1].covers /\ u = Tail(ms)
      BY <3>1
    <3>4. (c \o u) \o t = c \o (u \o t)
      BY <1>0, ConcatAssociative
    <3> QED BY <3>2, <3>3, <3>4
  <2>5. CASE ms[1].role # "summary"
    BY <2>2, <2>5 DEF Expand
  <2> QED BY <2>4, <2>5
<1> QED BY <1>1, <1>2

(* One more message is one more thing said. *)
LEMMA ExpandAppend ==
    ASSUME NEW ms \in Histories, NEW m \in BaseMessages
    PROVE  Expand(Append(ms, m)) = Append(Expand(ms), m)
<1>1. <<m>> \in Seq(BaseMessages)
  OBVIOUS
<1>2. m \in Messages /\ ms \in Seq(Messages)
  BY HistoryIsSeq DEF Messages
<1>3. Append(ms, m) = ms \o <<m>>
  BY <1>2, AppendIsConcat
<1>4. Append(Expand(ms), m) = Expand(ms) \o <<m>>
  BY ExpandType, AppendIsConcat
<1> QED BY <1>1, <1>3, <1>4, ExpandConcat

(* A summary says what it stands for. *)
LEMMA ExpandSummary ==
    ASSUME NEW ms \in Histories
    PROVE  Expand(Summarise(ms)) = Expand(ms)
<1>1. CASE ms = <<>>
  BY <1>1 DEF Summarise
<1>2. CASE ms # <<>>
  <2>1. PICK s : s = [turn |-> Nil, n |-> 0, role |-> "summary", covers |-> Expand(ms)]
    OBVIOUS
  <2>2. s.role = "summary" /\ s.covers = Expand(ms) /\ Summarise(ms) = <<s>>
    BY <1>2, <2>1 DEF Summarise
  <2>3. <<s>> # <<>> /\ <<s>>[1] = s /\ Tail(<<s>>) = <<>>
    OBVIOUS
  <2>4. Expand(<<s>>) = Expand(ms) \o <<>>
    BY <2>2, <2>3 DEF Expand
  <2> QED BY <2>2, <2>4, ExpandType, ConcatEmptySeq
<1> QED BY <1>1, <1>2

-----------------------------------------------------------------------------
(* The front of a list is replaced by its summary, at a place where no tool result follows, or the
   list stays as it is. *)
Condensed(ms, new) ==
    \/ new = ms
    \/ \E k \in 1..Len(ms) :
          /\ new = Summarise(Take(ms, k)) \o Drop(ms, k)
          /\ k < Len(ms) => ms[k + 1].role # "tool_result"

(* The first k messages have become one, which stands for them. *)
FrontIsSummary(ms, k, new) ==
    /\ new \in Histories /\ Len(new) = 1 + Len(ms) - k
    /\ new[1].role = "summary" /\ new[1].covers = Expand(Take(ms, k))
    /\ \A i \in 2..Len(new) : new[i] = ms[k + i - 1]
    /\ Expand(new) = Expand(ms)

(* The places of a list whose front was replaced. *)
LEMMA CondensedPlaces ==
    ASSUME NEW ms \in Histories, NEW k \in 1..Len(ms),
           NEW new, new = Summarise(Take(ms, k)) \o Drop(ms, k)
    PROVE  FrontIsSummary(ms, k, new)
<1>0. Len(ms) \in Nat /\ ms \in Seq(Messages)
  BY HistoryIsSeq
<1> DEFINE t == Take(ms, k)
           d == Drop(ms, k)
<1>1. t \in Histories /\ Len(t) = k /\ t # <<>>
  BY <1>0, TakeType, EmptySeq
<1>2. d \in Seq(BaseMessages) /\ Len(d) = Len(ms) - k
  BY DropType
<1>3. \A i \in 1..(Len(ms) - k) : d[i] = ms[k + i]
  <2>1. \A i \in (k + 1)..Len(ms) : ms[i] \in Messages
    BY <1>0, HistoryIsSeq
  <2>2. \A i \in 1..(Len(ms) - (k + 1) + 1) : SubSeq(ms, k + 1, Len(ms))[i] = ms[(k + 1) + i - 1]
    BY <1>0, <2>1, SubSeqProperties
  <2> QED BY <1>0, <2>2 DEF Drop
<1>4. ms = t \o d
  <2>1. SubSeq(ms, 1, k) \o SubSeq(ms, k + 1, Len(ms)) = SubSeq(ms, 1, Len(ms))
    BY <1>0, ConcatAdjacentSubSeq
  <2> QED BY <1>0, <2>1, SubSeqFull DEF Take, Drop
<1> HIDE DEF t, d
<1>5. new = Summarise(t) \o d
  BY DEF t, d
<1>6. PICK s : s = [turn |-> Nil, n |-> 0, role |-> "summary", covers |-> Expand(t)]
  OBVIOUS
<1>7. s.role = "summary" /\ s.covers = Expand(t) /\ Summarise(t) = <<s>>
  BY <1>1, <1>6 DEF Summarise
<1>8. Summarise(t) \in Histories /\ Expand(Summarise(t)) = Expand(t)
  BY <1>1, SummariseType, ExpandSummary
<1>9. new \in Histories /\ Expand(new) = Expand(t) \o d /\ Expand(ms) = Expand(t) \o d
  BY <1>1, <1>2, <1>4, <1>5, <1>8, ConcatType, ExpandConcat
<1>10. /\ Len(new) = 1 + Len(d)
       /\ \A i \in 1..(1 + Len(d)) : new[i] = IF i <= 1 THEN s ELSE d[i - 1]
  <2>1. d \in Seq(Messages) /\ <<s>> \in Seq(Messages) /\ Len(<<s>>) = 1 /\ <<s>>[1] = s
    BY <1>2, <1>7, <1>8, BaseIsHistory, HistoryIsSeq
  <2>2. PICK u \in Seq(Messages) : u = <<s>> /\ Len(u) = 1 /\ u[1] = s
    BY <2>1
  <2>3. new = u \o d
    BY <1>5, <1>7, <2>2
  <2>4. /\ Len(u \o d) = Len(u) + Len(d)
        /\ \A i \in 1..(Len(u) + Len(d)) : (u \o d)[i] = IF i <= Len(u) THEN u[i] ELSE d[i - Len(u)]
    BY <2>1, ConcatProperties
  <2>5. ASSUME NEW i \in 1..(1 + Len(d)) PROVE new[i] = IF i <= 1 THEN s ELSE d[i - 1]
    <3>1. i \in 1..(Len(u) + Len(d))
      BY <2>2
    <3>2. new[i] = IF i <= 1 THEN u[i] ELSE d[i - 1]
      BY <2>2, <2>3, <2>4, <3>1
    <3>3. i <= 1 => i = 1
      OBVIOUS
    <3> QED BY <2>2, <3>2, <3>3
  <2> QED BY <2>2, <2>3, <2>4, <2>5
<1>11. ASSUME NEW i \in 2..Len(new) PROVE new[i] = ms[k + i - 1]
  <2>1. i - 1 \in 1..(Len(ms) - k) /\ i \in 1..(1 + Len(d)) /\ ~(i <= 1) /\ k + (i - 1) = k + i - 1
    BY <1>0, <1>2, <1>10
  <2> QED BY <1>3, <1>10, <2>1
<1>12. new[1] = s
  <2>1. 1 \in 1..(1 + Len(d)) /\ 1 <= 1
    BY <1>0, <1>2
  <2> QED BY <1>10, <2>1
<1>13. Len(new) = 1 + Len(ms) - k
  BY <1>0, <1>2, <1>10
<1> QED BY <1>7, <1>9, <1>11, <1>12, <1>13 DEF t, FrontIsSummary

(* A replacement changes nothing of what the history says, cuts no tool batch, and forgets the
   originals of no less than before. *)
LEMMA CondensedSays ==
    ASSUME NEW ms \in Histories, NEW new, Condensed(ms, new)
    PROVE  /\ new \in Histories /\ Expand(new) = Expand(ms) /\ (new = <<>> <=> ms = <<>>)
           /\ \A results \in Nat : BatchesWhole(ms, results) => BatchesWhole(new, results)
<1>0. Len(ms) \in Nat
  BY HistoryIsSeq
<1>1. CASE new = ms
  BY <1>1
<1>2. ASSUME NEW k \in 1..Len(ms), new = Summarise(Take(ms, k)) \o Drop(ms, k),
             k < Len(ms) => ms[k + 1].role # "tool_result"
      PROVE  /\ new \in Histories /\ Expand(new) = Expand(ms) /\ (new = <<>> <=> ms = <<>>)
             /\ \A results \in Nat : BatchesWhole(ms, results) => BatchesWhole(new, results)
  <2>1. /\ new \in Histories /\ Len(new) = 1 + Len(ms) - k
        /\ new[1].role = "summary"
        /\ \A i \in 2..Len(new) : new[i] = ms[k + i - 1]
        /\ Expand(new) = Expand(ms)
    <3>1. new = Summarise(Take(ms, k)) \o Drop(ms, k)
      BY <1>2
    <3>2. FrontIsSummary(ms, k, new)
      BY <3>1, CondensedPlaces
    <3> QED BY <3>2 DEF FrontIsSummary
  <2>2. new # <<>> /\ ms # <<>>
    BY <1>0, <2>1, EmptySeq
  <2>3. ASSUME NEW results \in Nat, BatchesWhole(ms, results) PROVE BatchesWhole(new, results)
    <3> SUFFICES ASSUME NEW i \in 1..Len(new)
                 PROVE  /\ new[i].role = "tool_result" => i > 1 /\ new[i-1].role \in {"calls", "tool_result"}
                        /\ new[i].role = "calls" =>
                              /\ i + results <= Len(new)
                              /\ \A j \in 1..results : new[i+j].role = "tool_result"
      BY DEF BatchesWhole
    <3>1. CASE i = 1
      BY <2>1, <3>1
    <3>2. CASE i > 1
      <4> DEFINE m == k + i - 1
      <4>1. i \in 2..Len(new) /\ m \in 2..Len(ms) /\ m - 1 \in 1..Len(ms) /\ i - 1 \in 1..Len(new)
        BY <1>0, <2>1, <3>2
      <4>2. new[i] = ms[m]
        BY <2>1, <4>1
      <4>3. ASSUME new[i].role = "tool_result" PROVE new[i-1].role \in {"calls", "tool_result"}
        <5>1. i # 2
          BY <1>0, <1>2, <2>1, <4>2, <4>3
        <5>2. i - 1 \in 2..Len(new) /\ k + (i - 1) - 1 = m - 1
          BY <3>2, <4>1, <5>1
        <5>3. new[i - 1] = ms[m - 1]
          BY <2>1, <5>2
        <5>4. ms[m - 1].role \in {"calls", "tool_result"}
          BY <2>3, <4>1, <4>2, <4>3 DEF BatchesWhole
        <5> QED BY <5>3, <5>4
      <4>4. ASSUME new[i].role = "calls"
            PROVE  /\ i + results <= Len(new)
                   /\ \A j \in 1..results : new[i+j].role = "tool_result"
        <5>1. m \in 1..Len(ms)
          BY <4>1
        <5>2. m + results <= Len(ms) /\ \A j \in 1..results : ms[m + j].role = "tool_result"
          BY <2>3, <4>2, <4>4, <5>1 DEF BatchesWhole
        <5>3. i + results <= Len(new)
          BY <1>0, <2>1, <5>2
        <5>4. ASSUME NEW j \in 1..results PROVE new[i + j].role = "tool_result"
          <6>1. i + j \in 2..Len(new) /\ k + (i + j) - 1 = m + j
            <7>1. Len(new) \in Int /\ k \in Int /\ i \in Int /\ i >= 2
              BY <1>0, <2>1, <4>1
            <7> QED BY <5>3, <7>1
          <6>2. new[i + j] = ms[m + j]
            BY <2>1, <6>1
          <6> QED BY <5>2, <6>2
        <5> QED BY <5>3, <5>4
      <4> QED BY <3>2, <4>3, <4>4
    <3> QED BY <3>1, <3>2
  <2> QED BY <2>1, <2>2, <2>3
<1> QED BY <1>1, <1>2 DEF Condensed

(* Nothing a replacement covers is uncovered by the next one. *)
LEMMA CondensedCovers ==
    ASSUME NEW ms \in Histories, NEW new, Condensed(ms, new), ms # <<>>
    PROVE  /\ new # <<>>
           /\ ms[1].role = "summary" => new[1].role = "summary" /\ IsPrefix(ms[1].covers, new[1].covers)
<1>0. Len(ms) \in Nat /\ ms \in Seq(Messages) /\ Len(ms) >= 1 /\ ms[1] \in Messages
  BY HistoryIsSeq, EmptySeq
<1>1. new # <<>>
  BY CondensedSays
<1>2. ASSUME ms[1].role = "summary" PROVE ms[1].covers \in Seq(BaseMessages)
  <2>1. ms[1] \in Summaries
    BY <1>0, <1>2, BaseRole DEF Messages
  <2> QED BY <2>1, SMT DEF Summaries
<1>3. CASE new = ms
  <2>1. ASSUME ms[1].role = "summary" PROVE IsPrefix(ms[1].covers, ms[1].covers)
    <3>1. PICK c \in Seq(BaseMessages) : c = ms[1].covers
      BY <1>2, <2>1
    <3>2. Len(c) \in Nat
      BY LenProperties
    <3> QED BY <3>1, <3>2, PrefixByPlaces
  <2> QED BY <1>1, <1>3, <2>1
<1>4. ASSUME NEW k \in 1..Len(ms), new = Summarise(Take(ms, k)) \o Drop(ms, k), ms[1].role = "summary"
      PROVE  new[1].role = "summary" /\ IsPrefix(ms[1].covers, new[1].covers)
  <2> DEFINE t == Take(ms, k)
  <2>1. new[1].role = "summary" /\ new[1].covers = Expand(t)
    BY <1>4, CondensedPlaces DEF FrontIsSummary
  <2>2. t \in Histories /\ Len(t) = k
    BY <1>0, TakeType
  <2>3. t[1] = ms[1] /\ t # <<>>
    <3>1. \A i \in 1..k : ms[i] \in Messages
      BY <1>0, HistoryIsSeq
    <3>2. \A i \in 1..(k - 1 + 1) : t[i] = ms[1 + i - 1]
      BY <1>0, <3>1, SubSeqProperties DEF Take
    <3>3. 1 \in 1..(k - 1 + 1) /\ 1 + 1 - 1 = 1
      OBVIOUS
    <3>4. t[1] = ms[1]
      BY <3>2, <3>3
    <3> HIDE DEF t
    <3> QED BY <2>2, <3>4, EmptySeq
  <2> HIDE DEF t
  <2>4. Expand(t) = ms[1].covers \o Tail(t)
    BY <1>4, <2>3 DEF Expand
  <2>5. PICK c \in Seq(BaseMessages) : c = ms[1].covers
    BY <1>2, <1>4
  <2>6. PICK u \in Seq(BaseMessages) : u = Tail(t)
    <3>1. t \in Seq(Messages) /\ Len(t) \in Nat
      BY <2>2, HistoryIsSeq
    <3>2. Tail(t) \in Seq(Messages) /\ Len(Tail(t)) = Len(t) - 1 /\ \A i \in 1..(Len(t) - 1) : Tail(t)[i] = t[i + 1]
      BY <2>3, <3>1, HeadTailProperties
    <3>3. \A i \in 2..Len(t) : t[i] \in BaseMessages
      BY <2>2, HistoryIsSeq
    <3>4. Tail(t) = SubSeq(t, 2, Len(t))
      BY <2>3, <3>1, TailIsSubSeq
    <3>5. SubSeq(t, 2, Len(t)) \in Seq(BaseMessages)
      BY <3>1, <3>3, SubSeqProperties
    <3> QED BY <3>4, <3>5
  <2>7. c \o u \in Seq(BaseMessages) /\ Len(c) \in Nat /\ Len(u) \in Nat
    BY ConcatProperties, LenProperties
  <2>8. /\ Len(c \o u) = Len(c) + Len(u)
        /\ \A i \in 1..(Len(c) + Len(u)) : (c \o u)[i] = IF i <= Len(c) THEN c[i] ELSE u[i - Len(c)]
    BY ConcatProperties
  <2>9. \A i \in 1..Len(c) : (c \o u)[i] = c[i]
    BY <2>7, <2>8
  <2>10. IsPrefix(c, c \o u)
    <3>1. PICK v \in Seq(BaseMessages) : v = c \o u
      BY <2>7
    <3>2. Len(c) <= Len(v) /\ \A i \in 1..Len(c) : v[i] = c[i]
      BY <2>7, <2>8, <2>9, <3>1
    <3> QED BY <3>1, <3>2, PrefixByPlaces
  <2> QED BY <2>1, <2>4, <2>5, <2>6, <2>10
<1> QED BY <1>1, <1>3, <1>4 DEF Condensed

(* A list that begins with a prefix is that prefix and what follows it. *)
LEMMA PrefixSplits ==
    ASSUME NEW ms \in Histories, NEW prefix \in Histories, IsPrefix(prefix, ms)
    PROVE  /\ Len(prefix) \in 0..Len(ms) /\ Take(ms, Len(prefix)) = prefix
           /\ prefix \o Drop(ms, Len(prefix)) = ms
<1>0. /\ ms \in Seq(Messages) /\ prefix \in Seq(Messages) /\ Len(ms) \in Nat /\ Len(prefix) \in Nat
  BY HistoryIsSeq
<1>1. Len(prefix) <= Len(ms) /\ SubSeq(prefix, 1, Len(prefix)) = SubSeq(ms, 1, Len(prefix))
  BY DEF IsPrefix
<1>2. SubSeq(prefix, 1, Len(prefix)) = prefix /\ SubSeq(ms, 1, Len(ms)) = ms
  BY <1>0, SubSeqFull
<1>3. PICK k \in 0..Len(ms) : k = Len(prefix)
  BY <1>0, <1>1
<1>4. SubSeq(ms, 1, k) \o SubSeq(ms, k + 1, Len(ms)) = SubSeq(ms, 1, Len(ms))
  <2>1. 1 \in 1..(Len(ms) + 1) /\ k \in (1 - 1)..Len(ms) /\ Len(ms) \in k..Len(ms)
    BY <1>0
  <2> QED BY <1>0, <2>1, ConcatAdjacentSubSeq
<1> QED BY <1>0, <1>1, <1>2, <1>3, <1>4 DEF Take, Drop

(* What a compaction works on ends, in this list, where no tool result follows. *)
Cuts(c, ms) ==
    (c.task # 0 \/ (c.result # Nil /\ c.result.ok)) /\ Len(c.prefix) < Len(ms) =>
        ms[Len(c.prefix) + 1].role # "tool_result"

(* take_result condenses the list it is given. *)
LEMMA TakeCondenses ==
    ASSUME NEW c, Fits(c), Replaces(c), NEW ms \in Histories, Cuts(c, ms), NEW r, r = TakeResult(c, ms)
    PROVE  /\ Condensed(ms, r.messages)
           /\ Replaces(r.c) /\ Cuts(r.c, r.messages)
<1>1. CASE c.result = Nil
  <2>1. r = [c |-> c, messages |-> ms, error |-> Nil]
    BY <1>1, Zenon DEF TakeResult
  <2>2. r.c = c /\ r.messages = ms
    BY <2>1
  <2> QED BY <2>2 DEF Condensed
<1>2. CASE c.result # Nil
  <2> DEFINE updated == IF c.result.ok /\ IsPrefix(c.prefix, ms)
                        THEN c.result.messages \o Drop(ms, Len(c.prefix))
                        ELSE ms
             d == [c EXCEPT !.prefix = Nil, !.result = Nil,
                            !.usage = IF c.result.ok /\ updated # ms THEN Nil ELSE @]
  <2>1. r = [c |-> d, messages |-> updated, error |-> c.result.reason]
    BY <1>2, Zenon DEF TakeResult
  <2>2. r.messages = updated
    BY <2>1
  <2>3. r.c.task = 0 /\ r.c.result = Nil
    BY <1>2, TakeResultType DEF Fits
  <2>4. Replaces(r.c) /\ Cuts(r.c, r.messages)
    BY <2>3 DEF Replaces, Cuts
  <2>5. CASE c.result.ok /\ IsPrefix(c.prefix, ms)
    <3>1. PICK prefix \in Histories : prefix = c.prefix
      BY <1>2, <2>5 DEF Fits
    <3>2. r.messages = c.result.messages \o Drop(ms, Len(prefix))
      BY <2>2, <2>5, <3>1
    <3> HIDE DEF updated, d
    <3>3. /\ Len(prefix) \in 0..Len(ms) /\ Take(ms, Len(prefix)) = prefix
          /\ prefix \o Drop(ms, Len(prefix)) = ms
      BY <2>5, <3>1, PrefixSplits
    <3>4. c.result.messages = prefix \/ c.result.messages = Summarise(prefix)
      BY <1>2, <2>5, <3>1 DEF Replaces
    <3>5. CASE c.result.messages = prefix \/ prefix = <<>>
      <4>1. c.result.messages = prefix
        BY <3>4, <3>5 DEF Summarise
      <4> QED BY <2>4, <3>2, <3>3, <4>1 DEF Condensed
    <3>6. CASE c.result.messages = Summarise(prefix) /\ prefix # <<>>
      <4>1. PICK k \in 1..Len(ms) : k = Len(prefix)
        BY <3>3, <3>6, HistoryIsSeq, EmptySeq
      <4>2. r.messages = Summarise(Take(ms, k)) \o Drop(ms, k)
        BY <3>2, <3>3, <3>6, <4>1
      <4>3. k < Len(ms) => ms[k + 1].role # "tool_result"
        BY <1>2, <2>5, <3>1, <4>1 DEF Cuts
      <4> QED BY <2>4, <4>2, <4>3 DEF Condensed
    <3> QED BY <3>4, <3>5, <3>6
  <2>6. CASE ~(c.result.ok /\ IsPrefix(c.prefix, ms))
    <3>1. r.messages = ms
      BY <2>2, <2>6
    <3> QED BY <2>4, <3>1 DEF Condensed
  <2> QED BY <2>5, <2>6
<1> QED BY <1>1, <1>2

-----------------------------------------------------------------------------
(* The lists of the turns. *)

(* The second list is the first one and messages of one turn after it. *)
Grown(s, t, q) ==
    /\ Len(s) <= Len(t)
    /\ \A i \in 1..Len(s) : t[i] = s[i]
    /\ \A i \in (Len(s) + 1)..Len(t) : t[i].turn = q

(* A worker's list says what it captured, the prompt of its turn at the end of that, and after it
   one message of the turn after the other. *)
Own(w, p) ==
    LET b == Expand(w.base)
        e == Expand(w.msgs)
    IN  /\ 1 <= Len(b) /\ Len(b) <= Len(e)
        /\ \A i \in 1..Len(b) : e[i] = b[i]
        /\ \A i \in 1..(Len(b) - 1) : b[i].turn # p
        /\ \A i \in Len(b)..Len(e) :
              e[i].turn = p /\ e[i].n = i - Len(b) + 1 /\ (e[i].role = "user" <=> i = Len(b))

(* The batches of the first n messages are whole. *)
WholeTo(ms, n) ==
    \A i \in 1..n :
       /\ ms[i].role = "tool_result" => i > 1 /\ ms[i-1].role \in {"calls", "tool_result"}
       /\ ms[i].role = "calls" => i + Tools <= n /\ \A k \in 1..Tools : ms[i+k].role = "tool_result"

(* The list ends with the calls whose results are being waited for. *)
Pending(ms) == ms # <<>> /\ ms[Len(ms)].role = "calls" /\ WholeTo(ms, Len(ms) - 1)

(* A list is whole but for the calls its worker is busy with. *)
OwnList(w, p) ==
    /\ Own(w, p) /\ Intact(w.base) /\ BatchesWhole(w.base, Tools)
    /\ w.pc = "start" => w.msgs = w.base
    /\ IF w.pc \in {"tools", "dead"} THEN Pending(w.msgs) ELSE BatchesWhole(w.msgs, Tools)

(* The length of what a history says, and its places. *)
LEMMA ExpandPlaces ==
    ASSUME NEW ms \in Histories
    PROVE  /\ Len(Expand(ms)) \in Nat
           /\ \A i \in 1..Len(Expand(ms)) : Expand(ms)[i] \in BaseMessages
<1>1. Expand(ms) \in Seq(BaseMessages)
  BY ExpandType
<1> QED BY <1>1, LenProperties, ElementOfSeq

(* The places of two lists one after the other. *)
LEMMA ConcatPlaces ==
    ASSUME NEW S, NEW s \in Seq(S), NEW t \in Seq(S)
    PROVE  /\ s \o t \in Seq(S) /\ Len(s) \in Nat /\ Len(t) \in Nat /\ Len(s \o t) = Len(s) + Len(t)
           /\ \A i \in 1..Len(s) : (s \o t)[i] = s[i]
           /\ \A i \in (Len(s) + 1)..(Len(s) + Len(t)) : (s \o t)[i] = t[i - Len(s)]
<1>1. Len(s) \in Nat /\ Len(t) \in Nat
  BY LenProperties
<1>2. /\ s \o t \in Seq(S) /\ Len(s \o t) = Len(s) + Len(t)
      /\ \A i \in 1..(Len(s) + Len(t)) : (s \o t)[i] = IF i <= Len(s) THEN s[i] ELSE t[i - Len(s)]
  BY ConcatProperties
<1>3. \A i \in 1..Len(s) : i \in 1..(Len(s) + Len(t)) /\ i <= Len(s)
  BY <1>1
<1>4. \A i \in (Len(s) + 1)..(Len(s) + Len(t)) : i \in 1..(Len(s) + Len(t)) /\ ~(i <= Len(s))
  BY <1>1
<1> QED BY <1>1, <1>2, <1>3, <1>4

(* One message is a list of one. *)
LEMMA AppendOne ==
    ASSUME NEW ms \in Histories, NEW m \in BaseMessages
    PROVE  /\ <<m>> \in Seq(BaseMessages) /\ Len(<<m>>) = 1 /\ <<m>>[1] = m
           /\ Append(ms, m) = ms \o <<m>>
<1>1. ms \in Seq(Messages) /\ m \in Messages
  BY HistoryIsSeq DEF Messages
<1> QED BY <1>1, AppendIsConcat

(* An answer or a prompt breaks no batch. *)
LEMMA AnswerWhole ==
    ASSUME NEW ms \in Histories, BatchesWhole(ms, Tools), NEW m \in BaseMessages
    PROVE  /\ m.role \notin {"calls", "tool_result"} => BatchesWhole(Append(ms, m), Tools)
           /\ m.role = "calls" => Pending(Append(ms, m))
<1> DEFINE u == Append(ms, m)
           n == Len(ms)
<1>0. n \in Nat /\ Tools \in Nat /\ Tools >= 1 /\ ms \in Seq(Messages) /\ m \in Messages
  BY HistoryIsSeq, SessionAssumption DEF Messages
<1>1. /\ Len(u) = n + 1 /\ u[n + 1] = m /\ \A i \in 1..n : u[i] = ms[i]
  BY <1>0, AppendProperties
<1>w. u # <<>>
  BY <1>0, <1>1
<1> HIDE DEF u
<1>2. WholeTo(u, n)
  <2> SUFFICES ASSUME NEW i \in 1..n
               PROVE  /\ u[i].role = "tool_result" => i > 1 /\ u[i-1].role \in {"calls", "tool_result"}
                      /\ u[i].role = "calls" => i + Tools <= n /\ \A k \in 1..Tools : u[i+k].role = "tool_result"
    BY DEF WholeTo
  <2>1. /\ ms[i].role = "tool_result" => i > 1 /\ ms[i-1].role \in {"calls", "tool_result"}
        /\ ms[i].role = "calls" => i + Tools <= n /\ \A k \in 1..Tools : ms[i+k].role = "tool_result"
    BY DEF BatchesWhole
  <2>2. u[i] = ms[i] /\ (i > 1 => u[i-1] = ms[i-1])
    BY <1>0, <1>1
  <2>3. i + Tools <= n => \A k \in 1..Tools : u[i+k] = ms[i+k]
    BY <1>0, <1>1
  <2> QED BY <2>1, <2>2, <2>3
<1>3. ASSUME m.role \notin {"calls", "tool_result"} PROVE BatchesWhole(u, Tools)
  <2> SUFFICES ASSUME NEW i \in 1..(n + 1)
               PROVE  /\ u[i].role = "tool_result" => i > 1 /\ u[i-1].role \in {"calls", "tool_result"}
                      /\ u[i].role = "calls" =>
                            /\ i + Tools <= n + 1
                            /\ \A k \in 1..Tools : u[i+k].role = "tool_result"
    BY <1>1 DEF BatchesWhole
  <2>1. CASE i = n + 1
    BY <1>1, <1>3, <2>1
  <2>2. CASE i # n + 1
    <3>1. i \in 1..n /\ (i + Tools <= n => i + Tools <= n + 1)
      BY <1>0, <2>2
    <3> QED BY <1>2, <3>1 DEF WholeTo
  <2> QED BY <2>1, <2>2
<1>4. ASSUME m.role = "calls" PROVE Pending(u)
  <2>1. Len(u) - 1 = n /\ u[Len(u)] = m
    BY <1>0, <1>1
  <2> QED BY <1>2, <1>4, <1>w, <2>1 DEF Pending
<1> QED BY <1>3, <1>4 DEF u

(* The results of all calls make the batch whole. *)
LEMMA ResultsWhole ==
    ASSUME NEW ms \in Histories, Pending(ms), NEW t \in Seq(BaseMessages), Len(t) = Tools,
           \A k \in 1..Tools : t[k].role = "tool_result"
    PROVE  BatchesWhole(ms \o t, Tools)
<1> DEFINE u == ms \o t
           n == Len(ms)
<1>0. n \in Nat /\ Tools \in Nat /\ Tools >= 1 /\ ms \in Seq(Messages) /\ t \in Seq(Messages) /\ n >= 1
  <2>1. ms \in Seq(Messages) /\ t \in Seq(Messages) /\ ms # <<>>
    BY HistoryIsSeq, BaseIsHistory DEF Pending
  <2>2. Len(ms) \in Nat /\ Len(ms) # 0
    BY <2>1, LenProperties, EmptySeq
  <2> QED BY <2>1, <2>2, SessionAssumption
<1>1. /\ Len(u) = n + Tools /\ (\A i \in 1..n : u[i] = ms[i])
      /\ \A i \in (n + 1)..(n + Tools) : u[i] = t[i - n]
  BY <1>0, ConcatPlaces
<1> HIDE DEF u
<1>2. \A i \in (n + 1)..(n + Tools) : u[i].role = "tool_result"
  <2> SUFFICES ASSUME NEW i \in (n + 1)..(n + Tools) PROVE u[i].role = "tool_result"
    OBVIOUS
  <2>1. i - n \in 1..Tools
    BY <1>0
  <2> QED BY <1>1, <2>1
<1>3. u[n].role = "calls" /\ WholeTo(ms, n - 1)
  BY <1>0, <1>1 DEF Pending
<1> SUFFICES ASSUME NEW i \in 1..(n + Tools)
             PROVE  /\ u[i].role = "tool_result" => i > 1 /\ u[i-1].role \in {"calls", "tool_result"}
                    /\ u[i].role = "calls" =>
                          /\ i + Tools <= n + Tools
                          /\ \A k \in 1..Tools : u[i+k].role = "tool_result"
  BY <1>1 DEF BatchesWhole, u
<1>4. CASE i < n
  <2>0. i \in 1..(n - 1) /\ i \in 1..n /\ (i > 1 => i - 1 \in 1..n)
    BY <1>0, <1>4
  <2>1. /\ ms[i].role = "tool_result" => i > 1 /\ ms[i-1].role \in {"calls", "tool_result"}
        /\ ms[i].role = "calls" => i + Tools <= n - 1 /\ \A k \in 1..Tools : ms[i+k].role = "tool_result"
    BY <1>3, <2>0 DEF WholeTo
  <2>2. u[i] = ms[i] /\ (i > 1 => u[i-1] = ms[i-1])
    BY <1>1, <2>0
  <2>3. i + Tools <= n - 1 => i + Tools <= n + Tools /\ \A k \in 1..Tools : u[i+k] = ms[i+k]
    BY <1>0, <1>1
  <2> QED BY <2>1, <2>2, <2>3
<1>5. CASE i = n
  <2>1. \A k \in 1..Tools : n + k \in (n + 1)..(n + Tools)
    BY <1>0
  <2> QED BY <1>0, <1>2, <1>3, <1>5, <2>1
<1>6. CASE i > n
  <2>1. u[i].role = "tool_result" /\ i > 1
    BY <1>0, <1>2, <1>6
  <2>2. i - 1 = n \/ i - 1 \in (n + 1)..(n + Tools)
    BY <1>0, <1>6
  <2> QED BY <1>2, <1>3, <2>1, <2>2
<1> QED BY <1>0, <1>4, <1>5, <1>6

(* These messages follow the n-th one of a turn. *)
Continues(t, p, n) ==
    \A k \in 1..Len(t) : t[k].turn = p /\ t[k].n = n + k /\ t[k].role # "user"

(* The place in its turn of the last message of a worker's list. *)
LastN(w) == Len(Expand(w.msgs)) - Len(Expand(w.base)) + 1

(* The last place in its turn of what a worker has, and the messages it may add. *)
LEMMA OwnGrows ==
    ASSUME NEW w \in Workers, NEW v \in Workers, NEW p, Own(w, p), v.base = w.base,
           NEW t \in Seq(BaseMessages), v.msgs = w.msgs \o t,
           Continues(t, p, LastN(w))
    PROVE  Own(v, p)
<1>0. w.base \in Histories /\ w.msgs \in Histories
  BY SMT DEF Workers
<1> DEFINE b == Expand(w.base)
           e == Expand(w.msgs)
           f == Expand(v.msgs)
<1>1. b \in Seq(BaseMessages) /\ e \in Seq(BaseMessages) /\ f = e \o t
  BY <1>0, ExpandType, ExpandConcat
<1>o. /\ 1 <= Len(b) /\ Len(b) <= Len(e)
      /\ \A i \in 1..Len(b) : e[i] = b[i]
      /\ \A i \in 1..(Len(b) - 1) : b[i].turn # p
      /\ \A i \in Len(b)..Len(e) :
            e[i].turn = p /\ e[i].n = i - Len(b) + 1 /\ (e[i].role = "user" <=> i = Len(b))
  BY DEF Own
<1>n. LastN(w) = Len(e) - Len(b) + 1 /\ Expand(v.base) = b
  BY DEF LastN
<1> HIDE DEF b, e, f
<1>l. Len(b) \in Nat
  BY <1>1, LenProperties
<1>2. /\ Len(e) \in Nat /\ Len(t) \in Nat /\ Len(f) = Len(e) + Len(t)
      /\ \A i \in 1..Len(e) : f[i] = e[i]
      /\ \A i \in (Len(e) + 1)..(Len(e) + Len(t)) : f[i] = t[i - Len(e)]
  BY <1>1, ConcatPlaces
<1>j. Len(e) \in Nat /\ LastN(w) = Len(e) - Len(b) + 1
  BY <1>n, <1>2
<1>k. PICK n \in Int : n = LastN(w)
  <2>1. LastN(w) \in Int
    BY <1>l, <1>j
  <2> QED BY <2>1
<1>a. /\ Len(b) \in Nat /\ Len(e) \in Nat /\ Len(t) \in Nat /\ Len(b) <= Len(e)
      /\ Len(f) = Len(e) + Len(t) /\ n = Len(e) - Len(b) + 1
  BY <1>l, <1>k, <1>n, <1>2, <1>o
<1>3. Len(b) <= Len(f) /\ \A i \in 1..Len(b) : f[i] = b[i]
  BY <1>l, <1>2, <1>o
<1>4. ASSUME NEW i \in Len(b)..Len(f)
      PROVE  f[i].turn = p /\ f[i].n = i - Len(b) + 1 /\ (f[i].role = "user" <=> i = Len(b))
  <2>1. CASE i <= Len(e)
    <3>1. i \in Len(b)..Len(e) /\ i \in 1..Len(e)
      BY <1>l, <1>2, <1>o, <2>1
    <3> QED BY <1>2, <1>o, <3>1
  <2>2. CASE ~(i <= Len(e))
    <3>0. i \in Int /\ i <= Len(f) /\ n \in Int
      BY <1>a
    <3>1. i \in (Len(e) + 1)..(Len(e) + Len(t)) /\ i - Len(e) \in 1..Len(t) /\ i # Len(b)
      BY <1>a, <2>2, <3>0
    <3>2. n + (i - Len(e)) = i - Len(b) + 1
      BY <1>a, <3>0
    <3>3. t[i - Len(e)].turn = p /\ t[i - Len(e)].n = n + (i - Len(e)) /\ t[i - Len(e)].role # "user"
      BY <1>k, <3>1 DEF Continues
    <3> QED BY <1>2, <3>1, <3>2, <3>3
  <2> QED BY <2>1, <2>2
<1> QED BY <1>3, <1>4, <1>o, <1>n DEF Own, f

(* What a worker's list says decides whether it is its own. *)
LEMMA OwnSame ==
    ASSUME NEW w, NEW v, NEW p, Own(w, p), Expand(v.base) = Expand(w.base), Expand(v.msgs) = Expand(w.msgs)
    PROVE  Own(v, p)
BY DEF Own

(* The next place in the turn of a worker's list. *)
LEMMA NextPlace ==
    ASSUME NEW p, wk[p] \in Workers, Own(wk[p], p)
    PROVE  NextN(p) = Len(Expand(wk[p].msgs)) - Len(Expand(wk[p].base)) + 2
<1> DEFINE b == Expand(wk[p].base)
           e == Expand(wk[p].msgs)
           S == {i \in 1..Len(e) : e[i].turn = p}
<1>0. wk[p].base \in Histories /\ wk[p].msgs \in Histories
  BY SMT DEF Workers
<1>1. Len(b) \in Nat /\ Len(e) \in Nat
  BY <1>0, ExpandPlaces
<1>2. /\ 1 <= Len(b) /\ Len(b) <= Len(e)
      /\ \A i \in 1..Len(b) : e[i] = b[i]
      /\ \A i \in 1..(Len(b) - 1) : b[i].turn # p
      /\ \A i \in Len(b)..Len(e) : e[i].turn = p
  BY DEF Own
<1>3. NextN(p) = Cardinality(S) + 1
  BY DEF NextN
<1> HIDE DEF b, e
<1>4. S = Len(b)..Len(e)
  <2>1. ASSUME NEW i \in S PROVE i \in Len(b)..Len(e)
    <3>1. i \in 1..Len(e) /\ e[i].turn = p
      OBVIOUS
    <3>2. ~(i <= Len(b) - 1)
      <4> SUFFICES ASSUME i <= Len(b) - 1 PROVE FALSE
        OBVIOUS
      <4>1. i \in 1..(Len(b) - 1) /\ i \in 1..Len(b)
        BY <1>1, <3>1
      <4> QED BY <1>2, <3>1, <4>1
    <3> QED BY <1>1, <3>1, <3>2
  <2>2. ASSUME NEW i \in Len(b)..Len(e) PROVE i \in S
    <3>1. i \in 1..Len(e)
      BY <1>1, <1>2
    <3> QED BY <1>2, <3>1
  <2> QED BY <2>1, <2>2
<1> HIDE DEF S
<1>5. Cardinality(Len(b)..Len(e)) = Len(e) - Len(b) + 1
  <2>1. PICK i \in Int, j \in Int : i = Len(b) /\ j = Len(e) /\ i <= j
    BY <1>1, <1>2
  <2>2. Cardinality(i..j) = IF i > j THEN 0 ELSE j - i + 1
    BY FS_Interval
  <2> QED BY <2>1, <2>2
<1>6. NextN(p) = Len(e) - Len(b) + 2
  BY <1>1, <1>3, <1>4, <1>5
<1> QED BY <1>6 DEF b, e

(* What a history says decides whether it is intact. *)
LEMMA IntactSame ==
    ASSUME NEW ms, NEW new, Expand(new) = Expand(ms), Intact(ms)
    PROVE  Intact(new)
BY DEF Intact

(* A worker's list is as intact as what it captured. *)
LEMMA OwnIntact ==
    ASSUME NEW w \in Workers, NEW p, Own(w, p), Intact(w.base)
    PROVE  Intact(w.msgs)
<1> DEFINE b == Expand(w.base)
           e == Expand(w.msgs)
<1>0. w.base \in Histories /\ w.msgs \in Histories
  BY SMT DEF Workers
<1>1. Len(b) \in Nat /\ Len(e) \in Nat
  BY <1>0, ExpandPlaces
<1>2. /\ 1 <= Len(b) /\ Len(b) <= Len(e)
      /\ \A i \in 1..Len(b) : e[i] = b[i]
      /\ \A i \in 1..(Len(b) - 1) : b[i].turn # p
      /\ \A i \in Len(b)..Len(e) :
            e[i].turn = p /\ e[i].n = i - Len(b) + 1 /\ (e[i].role = "user" <=> i = Len(b))
  BY DEF Own
<1>3. \A i \in 1..Len(b) :
         /\ b[i].n = 1 <=> b[i].role = "user"
         /\ b[i].n > 1 => i > 1 /\ b[i-1].turn = b[i].turn /\ b[i-1].n = b[i].n - 1
         /\ \A j \in 1..Len(b) : b[j].turn = b[i].turn /\ b[j].n = b[i].n => j = i
  BY DEF Intact
<1> HIDE DEF b, e
<1>4. ASSUME NEW i \in 1..Len(e)
      PROVE  /\ e[i].n = 1 <=> e[i].role = "user"
             /\ e[i].n > 1 => i > 1 /\ e[i-1].turn = e[i].turn /\ e[i-1].n = e[i].n - 1
             /\ \A j \in 1..Len(e) : e[j].turn = e[i].turn /\ e[j].n = e[i].n => j = i
  <2>1. CASE i < Len(b)
    <3>1. i \in 1..(Len(b) - 1) /\ i \in 1..Len(b) /\ (i > 1 => i - 1 \in 1..Len(b))
      BY <1>1, <2>1
    <3>2. e[i] = b[i] /\ (i > 1 => e[i-1] = b[i-1]) /\ e[i].turn # p
      BY <1>2, <3>1
    <3>3. ASSUME NEW j \in 1..Len(e), e[j].turn = e[i].turn, e[j].n = e[i].n PROVE j = i
      <4>1. CASE j <= Len(b)
        <5>1. j \in 1..Len(b)
          BY <1>1, <4>1
        <5>2. e[j] = b[j]
          BY <1>2, <5>1
        <5> QED BY <1>3, <3>1, <3>2, <3>3, <5>1, <5>2
      <4>2. CASE ~(j <= Len(b))
        <5>1. j \in Len(b)..Len(e)
          BY <1>1, <4>2
        <5> QED BY <1>2, <3>2, <3>3, <5>1
      <4> QED BY <4>1, <4>2
    <3>4. /\ e[i].n = 1 <=> e[i].role = "user"
          /\ e[i].n > 1 => i > 1 /\ e[i-1].turn = e[i].turn /\ e[i-1].n = e[i].n - 1
      BY <1>3, <3>1, <3>2
    <3> QED BY <3>3, <3>4
  <2>2. CASE ~(i < Len(b))
    <3>1. i \in Len(b)..Len(e) /\ (i # Len(b) => i - 1 \in Len(b)..Len(e) /\ i > 1)
      BY <1>1, <1>2, <2>2
    <3>2. e[i].turn = p /\ e[i].n = i - Len(b) + 1 /\ (e[i].role = "user" <=> i = Len(b))
      BY <1>2, <3>1
    <3>3. e[i].n = 1 <=> i = Len(b)
      BY <1>1, <3>1, <3>2
    <3>4. ASSUME e[i].n > 1 PROVE i > 1 /\ e[i-1].turn = e[i].turn /\ e[i-1].n = e[i].n - 1
      <4>1. i # Len(b)
        BY <3>3, <3>4
      <4>2. e[i-1].turn = p /\ e[i-1].n = (i - 1) - Len(b) + 1
        BY <1>2, <3>1, <4>1
      <4> QED BY <1>1, <3>1, <3>2, <4>1, <4>2
    <3>5. ASSUME NEW j \in 1..Len(e), e[j].turn = e[i].turn, e[j].n = e[i].n PROVE j = i
      <4>1. ~(j < Len(b))
        <5> SUFFICES ASSUME j < Len(b) PROVE FALSE
          OBVIOUS
        <5>1. j \in 1..(Len(b) - 1) /\ j \in 1..Len(b)
          BY <1>1
        <5> QED BY <1>2, <3>2, <3>5, <5>1
      <4>2. j \in Len(b)..Len(e)
        BY <1>1, <4>1
      <4>3. e[j].n = j - Len(b) + 1
        BY <1>2, <4>2
      <4> QED BY <1>1, <3>2, <3>5, <4>3
    <3> QED BY <3>2, <3>3, <3>4, <3>5
  <2> QED BY <2>1, <2>2
<1> QED BY <1>4 DEF Intact, e

(* A prompt that is new to a history makes the list of a new worker. *)
LEMMA BeginOwn ==
    ASSUME NEW ms \in Histories, NEW p \in Prompts, Intact(ms), BatchesWhole(ms, Tools),
           \A i \in 1..Len(Expand(ms)) : Expand(ms)[i].turn # p,
           NEW w, w.base = Append(ms, Msg(p, 1, "user")), w.msgs = w.base
    PROVE  /\ Own(w, p) /\ Intact(w.base) /\ BatchesWhole(w.base, Tools)
           /\ Grown(Expand(ms), Expand(w.base), p) /\ IsPrefix(ms, w.base)
<1> DEFINE m == Msg(p, 1, "user")
           s == Expand(ms)
           e == Expand(w.base)
<1>0. m \in BaseMessages /\ m.turn = p /\ m.n = 1 /\ m.role = "user" /\ m \in Messages
  <2>1. m \in BaseMessages
    BY MsgType DEF Roles
  <2> QED BY <2>1 DEF Msg, Messages
<1> HIDE DEF m
<1>b. w.base = Append(ms, m)
  BY DEF m
<1>1. s \in Seq(BaseMessages) /\ e = Append(s, m)
  BY <1>0, <1>b, ExpandType, ExpandAppend
<1>2. /\ Len(s) \in Nat /\ Len(e) = Len(s) + 1 /\ e[Len(s) + 1] = m
      /\ \A i \in 1..Len(s) : e[i] = s[i]
  BY <1>0, <1>1, AppendProperties, LenProperties
<1>3. \A i \in 1..Len(s) : s[i].turn # p
  OBVIOUS
<1>i. \A i \in 1..Len(s) :
         /\ s[i].n = 1 <=> s[i].role = "user"
         /\ s[i].n > 1 => i > 1 /\ s[i-1].turn = s[i].turn /\ s[i-1].n = s[i].n - 1
         /\ \A j \in 1..Len(s) : s[j].turn = s[i].turn /\ s[j].n = s[i].n => j = i
  BY DEF Intact
<1>m. Expand(w.msgs) = e
  OBVIOUS
<1> HIDE DEF s, e
<1>4. Own(w, p)
  <2>1. 1 <= Len(e) /\ Len(e) <= Len(e) /\ Len(e) \in Nat
    BY <1>2
  <2>2. \A i \in 1..(Len(e) - 1) : e[i].turn # p
    <3>1. Len(e) - 1 = Len(s)
      BY <1>2
    <3> QED BY <1>2, <1>3, <3>1
  <2>3. \A i \in Len(e)..Len(e) :
            e[i].turn = p /\ e[i].n = i - Len(e) + 1 /\ (e[i].role = "user" <=> i = Len(e))
    <3>1. \A i \in Len(e)..Len(e) : i = Len(e) /\ i - Len(e) + 1 = 1
      BY <2>1
    <3> QED BY <1>0, <1>2, <3>1
  <2> QED BY <1>m, <2>1, <2>2, <2>3 DEF Own, e
<1>5. Intact(w.base)
  <2> SUFFICES ASSUME NEW i \in 1..Len(e)
               PROVE  /\ e[i].n = 1 <=> e[i].role = "user"
                      /\ e[i].n > 1 => i > 1 /\ e[i-1].turn = e[i].turn /\ e[i-1].n = e[i].n - 1
                      /\ \A j \in 1..Len(e) : e[j].turn = e[i].turn /\ e[j].n = e[i].n => j = i
    BY DEF Intact, e
  <2>1. CASE i = Len(s) + 1
    <3>1. e[i] = m
      BY <1>2, <2>1
    <3>2. ASSUME NEW j \in 1..Len(e), e[j].turn = p PROVE j = i
      <4>1. j \in 1..Len(s) => e[j].turn # p
        BY <1>2, <1>3
      <4> QED BY <1>2, <2>1, <3>2, <4>1
    <3> QED BY <1>0, <3>1, <3>2
  <2>2. CASE i # Len(s) + 1
    <3>1. i \in 1..Len(s) /\ (i > 1 => i - 1 \in 1..Len(s))
      BY <1>2, <2>2
    <3>2. e[i] = s[i] /\ (i > 1 => e[i-1] = s[i-1]) /\ e[i].turn # p
      BY <1>2, <1>3, <3>1
    <3>3. ASSUME NEW j \in 1..Len(e), e[j].turn = e[i].turn, e[j].n = e[i].n PROVE j = i
      <4>1. j # Len(s) + 1
        BY <1>0, <1>2, <3>2, <3>3
      <4>2. j \in 1..Len(s)
        BY <1>2, <4>1
      <4>3. e[j] = s[j]
        BY <1>2, <4>2
      <4> QED BY <1>i, <3>1, <3>2, <3>3, <4>2, <4>3
    <3>4. /\ e[i].n = 1 <=> e[i].role = "user"
          /\ e[i].n > 1 => i > 1 /\ e[i-1].turn = e[i].turn /\ e[i-1].n = e[i].n - 1
      BY <1>i, <3>1, <3>2
    <3> QED BY <3>3, <3>4
  <2> QED BY <2>1, <2>2
<1>6. BatchesWhole(w.base, Tools)
  BY <1>0, <1>b, AnswerWhole
<1>7. Grown(s, e, p)
  <2>1. \A i \in (Len(s) + 1)..Len(e) : i = Len(s) + 1
    BY <1>2
  <2> QED BY <1>0, <1>2, <2>1 DEF Grown
<1>8. IsPrefix(ms, w.base)
  <2>1. ms \in Seq(Messages) /\ Append(ms, m) \in Seq(Messages)
    BY <1>0, HistoryIsSeq, AppendProperties
  <2>2. /\ Len(Append(ms, m)) = Len(ms) + 1 /\ Len(ms) \in Nat
        /\ \A i \in 1..Len(ms) : Append(ms, m)[i] = ms[i]
    BY <1>0, <2>1, AppendProperties, LenProperties
  <2>3. Len(ms) <= Len(Append(ms, m))
    BY <2>2
  <2> QED BY <1>b, <2>1, <2>2, <2>3, PrefixByPlaces
<1> QED BY <1>4, <1>5, <1>6, <1>7, <1>8 DEF s, e

-----------------------------------------------------------------------------
(* What the lists of the session, of its store and of its workers have to do with each other. *)

(* Every worker's list is its own. *)
Lists == \A p \in Prompts : wk[p].pc # "none" => OwnList(wk[p], p)

(* The running turn's list is the history and messages of its own turn after it.  Where the history
   was compacted only in the worker's list or only in the session's, they still say the same; with
   background compaction a list that will be used again begins with the history as it is. *)
AheadOf(q) ==
    /\ Grown(Expand(messages), Expand(wk[q].msgs), q)
    /\ ~Policy => Grown(Expand(messages), Expand(wk[q].base), q)
    /\ Policy /\ compaction.waiter = Nil => IsPrefix(messages, wk[q].msgs) \/ Lost(wk[q], out[q])
    /\ compaction.waiter # Nil => Expand(messages) = Expand(wk[q].msgs)

Ahead == turn.streaming => AheadOf(turn.recipient)

(* A compaction stands for what it replaces and ends where no tool result follows. *)
Work == Replaces(compaction) /\ Cuts(compaction, messages)

(* A turn the history may speak of. *)
Known(p) == p \in Prompts /\ wk[p].pc # "none" /\ p \notin cleared

(* The history is in order and speaks of known turns only; the snapshot is in order, and is not
   ahead of the history unless a clear failed. *)
Stands ==
    /\ Intact(messages) /\ BatchesWhole(messages, Tools)
    /\ \A i \in 1..Len(Expand(messages)) : Known(Expand(messages)[i].turn)
    /\ store.snapshot # Nil =>
          /\ Intact(store.snapshot) /\ BatchesWhole(store.snapshot, Tools)
          /\ "clear" \notin store.failed => IsPrefix(Expand(store.snapshot), Expand(messages))

(* A turn that was aborted, cleared or answered is not the running one. *)
Retired ==
    \A p \in Prompts :
       /\ wk[p].woken \/ p \in cleared \/ call[p] = "ok" => turn.recipient # p /\ wk[p].pc # "none"
       /\ call[p] = "ok" => wk[p].pc = "done"

(* A list begins with what a turn's worker has, and says nothing of the turn after that. *)
HoldsTurn(ms, m, p) ==
    /\ Len(Expand(m)) <= Len(Expand(ms))
    /\ \A i \in 1..Len(Expand(m)) : Expand(ms)[i] = Expand(m)[i]
    /\ \A i \in (Len(Expand(m)) + 1)..Len(Expand(ms)) : Expand(ms)[i].turn # p

(* The last thing that was to be written to the store was written. *)
Written == ~store.due /\ store.failed = {}

(* An answered turn is in the history as its worker has it, and in the store if that was written. *)
Kept ==
    \A p \in Prompts : call[p] = "ok" /\ p \notin cleared =>
        /\ HoldsTurn(messages, wk[p].msgs, p)
        /\ Written => store.snapshot # Nil /\ HoldsTurn(store.snapshot, wk[p].msgs, p)

(* What a step that does not clear does to the store: it writes the history, or leaves the snapshot
   and, if it touched the store at all, a save that is due or has failed. *)
Recorded ==
    \/ store'.snapshot = messages'
    \/ /\ store'.snapshot = store.snapshot
       /\ "clear" \in store.failed => "clear" \in store'.failed
       /\ store' = store \/ store'.due \/ store'.failed # {}

(* The inductive invariant. *)
HistInv == Lists /\ Ahead /\ Work /\ Stands /\ Retired /\ Kept

(* A list the history may be replaced by: it says the same, or more of the running turn. *)
Settles(ms) ==
    /\ ms \in Histories /\ Intact(ms) /\ BatchesWhole(ms, Tools)
    /\ \/ Expand(ms) = Expand(messages)
       \/ turn.streaming /\ Grown(Expand(messages), Expand(ms), turn.recipient)

(* What a step does to the history: it condenses a list that goes on from it, or clears it. *)
Follows == \E ms : Settles(ms) /\ Condensed(ms, messages') /\ (Policy => IsPrefix(messages, ms))

Settled == Follows \/ messages' = <<>>

(* Every step of the session but clear records what it should. *)
LEMMA StoreRecorded ==
    ASSUME store \in Stores,
           \/ UNCHANGED store \/ SaveSnapshot(messages') \/ store' = [store EXCEPT !.due = TRUE]
    PROVE  Recorded /\ (store' = [store EXCEPT !.due = TRUE] => store'.due)
<1>1. PICK h, d, f : store = [snapshot |-> h, due |-> d, failed |-> f]
  BY SMT DEF Stores
<1>2. PICK new, st : new = messages' /\ st = store'
  OBVIOUS
<1>3. CASE UNCHANGED store
  BY <1>1, <1>3 DEF Recorded
<1>4. CASE SaveSnapshot(messages')
  <2>1. \/ st = [snapshot |-> new, due |-> FALSE, failed |-> {}]
        \/ st = [snapshot |-> h, due |-> FALSE, failed |-> f \cup {"save"}]
    BY <1>1, <1>2, <1>4 DEF SaveSnapshot
  <2>2. \/ st.snapshot = new
        \/ st.snapshot = h /\ st.failed = f \cup {"save"}
    BY <2>1
  <2>3. "save" \in f \cup {"save"} /\ ("clear" \in f => "clear" \in f \cup {"save"})
    OBVIOUS
  <2>4. Recorded
    BY <1>1, <1>2, <2>2, <2>3 DEF Recorded
  <2>5. store' = [store EXCEPT !.due = TRUE] => store'.due
    BY <1>1
  <2> QED BY <2>4, <2>5
<1>5. CASE store' = [store EXCEPT !.due = TRUE]
  <2>1. st = [snapshot |-> h, due |-> TRUE, failed |-> f]
    BY <1>1, <1>2, <1>5
  <2>2. st.snapshot = h /\ st.due /\ st.failed = f
    BY <2>1
  <2> QED BY <1>1, <1>2, <2>2 DEF Recorded
<1> QED BY <1>3, <1>4, <1>5

(* The worker of the running turn is one that has started and is not over. *)
LEMMA RunningKnown ==
    ASSUME IInv, HistInv, turn.streaming
    PROVE  Known(turn.recipient) /\ turn.recipient \in Prompts /\ call[turn.recipient] # "ok"
<1>1. turn.recipient \in Prompts
  BY Typed
<1>2. wk[turn.recipient].pc # "none"
  BY <1>1 DEF IInv, Owners, Refs
<1> QED BY <1>1, <1>2 DEF HistInv, Retired, Known

(* Places of lists that grow. *)
LEMMA GrownPlaces ==
    ASSUME NEW ms \in Histories, NEW new \in Histories, NEW q,
           Expand(new) = Expand(ms) \/ Grown(Expand(ms), Expand(new), q)
    PROVE  /\ Len(Expand(ms)) \in Nat /\ Len(Expand(new)) \in Nat /\ Len(Expand(ms)) <= Len(Expand(new))
           /\ \A i \in 1..Len(Expand(ms)) : Expand(new)[i] = Expand(ms)[i]
           /\ \A i \in 1..Len(Expand(new)) : i \in 1..Len(Expand(ms)) \/ Expand(new)[i].turn = q
<1>0. Len(Expand(ms)) \in Nat /\ Len(Expand(new)) \in Nat
  BY ExpandPlaces
<1>1. CASE Expand(new) = Expand(ms)
  BY <1>0, <1>1
<1>2. CASE Grown(Expand(ms), Expand(new), q)
  <2>1. \A i \in 1..Len(Expand(new)) : i \in 1..Len(Expand(ms)) \/ i \in (Len(Expand(ms)) + 1)..Len(Expand(new))
    BY <1>0
  <2> QED BY <1>0, <1>2, <2>1 DEF Grown
<1> QED BY <1>1, <1>2

(* A history that goes on holds the turns it held, but for the one it goes on with. *)
LEMMA HoldsMore ==
    ASSUME NEW ms \in Histories, NEW new \in Histories, NEW m \in Histories, NEW q, NEW p,
           Expand(new) = Expand(ms) \/ (Grown(Expand(ms), Expand(new), q) /\ q # p),
           HoldsTurn(ms, m, p)
    PROVE  HoldsTurn(new, m, p)
<1> DEFINE e == Expand(ms)
           f == Expand(new)
           d == Expand(m)
<1>1. CASE f = e
  BY <1>1 DEF HoldsTurn
<1>2. CASE f # e
  <2>0. Grown(e, f, q) /\ q # p
    BY <1>2
  <2>1. /\ Len(e) \in Nat /\ Len(f) \in Nat /\ Len(e) <= Len(f)
        /\ \A i \in 1..Len(e) : f[i] = e[i]
        /\ \A i \in 1..Len(f) : i \in 1..Len(e) \/ f[i].turn = q
    BY <2>0, GrownPlaces
  <2>2. /\ Len(d) \in Nat /\ Len(d) <= Len(e) /\ (\A i \in 1..Len(d) : e[i] = d[i])
        /\ \A i \in (Len(d) + 1)..Len(e) : e[i].turn # p
    BY ExpandPlaces DEF HoldsTurn
  <2> HIDE DEF e, f, d
  <2>3. Len(d) <= Len(f) /\ \A i \in 1..Len(d) : f[i] = d[i]
    BY <2>1, <2>2
  <2>4. ASSUME NEW i \in (Len(d) + 1)..Len(f) PROVE f[i].turn # p
    <3>1. i \in 1..Len(f)
      BY <2>1, <2>2
    <3>2. CASE i \in 1..Len(e)
      <4>1. i \in (Len(d) + 1)..Len(e)
        BY <2>1, <2>2, <3>2
      <4> QED BY <2>1, <2>2, <3>2, <4>1
    <3>3. CASE i \notin 1..Len(e)
      BY <2>0, <2>1, <3>1, <3>3
    <3> QED BY <3>2, <3>3
  <2> QED BY <2>3, <2>4 DEF HoldsTurn, e, f, d
<1> QED BY <1>1, <1>2

(* A history that is condensed stands, with what it holds of the turns that were answered. *)
LEMMA SettledKeeps ==
    ASSUME IInv, HistInv, NEW ms, Settles(ms), Condensed(ms, messages'),
           Recorded, cleared' = cleared,
           \A p \in Prompts : wk[p].pc # "none" => wk'[p].pc # "none",
           \A p \in Prompts : call[p] = "ok" => wk'[p].msgs = wk[p].msgs,
           \A p \in Prompts : wk'[p].msgs \in Histories,
           \A p \in Prompts : call'[p] = "ok" =>
              call[p] = "ok" \/ (Expand(ms) = Expand(wk'[p].msgs) /\ store'.due)
    PROVE  Stands' /\ Kept'
<1> DEFINE held == store.snapshot
<1>0. /\ messages \in Histories /\ held \in Histories \cup {Nil} /\ ms \in Histories /\ Nil \notin Histories
      /\ Tools \in Nat
  <2>1. held \in Histories \cup {Nil}
    BY Typed, SMT DEF Stores
  <2> QED BY <2>1, Typed, SessionAssumption DEF Settles
<1>1. PICK new : new = messages'
  OBVIOUS
<1>2. /\ new \in Histories /\ Expand(new) = Expand(ms) /\ BatchesWhole(new, Tools) /\ Intact(new)
  <2>1. Condensed(ms, new) /\ BatchesWhole(ms, Tools) /\ Intact(ms)
    BY <1>1 DEF Settles
  <2>2. new \in Histories /\ Expand(new) = Expand(ms) /\ BatchesWhole(new, Tools)
    BY <1>0, <2>1, CondensedSays
  <2> QED BY <2>1, <2>2, IntactSame
<1> DEFINE q == turn.recipient
           e == Expand(messages)
           f == Expand(new)
<1>3. f = e \/ (turn.streaming /\ Grown(e, f, q))
  BY <1>2 DEF Settles
<1>4. /\ Len(e) \in Nat /\ Len(f) \in Nat /\ Len(e) <= Len(f)
      /\ \A i \in 1..Len(e) : f[i] = e[i]
      /\ f # e => \A i \in 1..Len(f) : i \in 1..Len(e) \/ f[i].turn = q
  BY <1>0, <1>2, <1>3, GrownPlaces
<1>5. \A p \in Prompts : Known(p) => Known(p)'
  BY DEF Known
<1>k. \A p : Known(p) => Known(p)'
  BY <1>5 DEF Known
<1>6. ASSUME NEW i \in 1..Len(f) PROVE Known(f[i].turn)'
  <2>1. CASE i \in 1..Len(e)
    <3>1. Known(e[i].turn)
      BY <2>1 DEF HistInv, Stands
    <3> QED BY <1>4, <1>k, <2>1, <3>1
  <2>2. CASE i \notin 1..Len(e)
    <3>1. f # e /\ f[i].turn = q /\ turn.streaming
      BY <1>3, <1>4, <2>2
    <3> QED BY <1>k, <3>1, RunningKnown
  <2> QED BY <2>1, <2>2
<1>7. ASSUME held # Nil, "clear" \notin store.failed PROVE IsPrefix(Expand(held), f)
  <2>1. held \in Histories /\ IsPrefix(Expand(held), e)
    BY <1>0, <1>7 DEF HistInv, Stands
  <2>2. Expand(held) \in Seq(BaseMessages) /\ e \in Seq(BaseMessages) /\ f \in Seq(BaseMessages)
    BY <1>0, <1>2, <2>1, ExpandType
  <2> DEFINE s == Expand(held)
  <2> HIDE DEF e, f, s
  <2>3. Len(s) <= Len(e) /\ (\A i \in 1..Len(s) : e[i] = s[i]) /\ Len(s) \in Nat
    BY <2>1, <2>2, PrefixByPlaces, LenProperties DEF s
  <2>4. Len(s) <= Len(f) /\ \A i \in 1..Len(s) : f[i] = s[i]
    BY <1>4, <2>3
  <2> QED BY <2>2, <2>4, PrefixByPlaces DEF s
<1>8. IsPrefix(f, f)
  <2>1. f \in Seq(BaseMessages)
    BY <1>2, ExpandType
  <2>2. Len(f) <= Len(f)
    BY <1>4
  <2> QED BY <2>1, <2>2, PrefixByPlaces
<1>9. Stands'
  <2>0. PICK now : now = store'.snapshot
    OBVIOUS
  <2>1. now # Nil => /\ Intact(now) /\ BatchesWhole(now, Tools)
                     /\ "clear" \notin store'.failed => IsPrefix(Expand(now), f)
    <3>1. CASE now = new
      BY <1>2, <1>8, <3>1
    <3>2. CASE now = held /\ ("clear" \in store.failed => "clear" \in store'.failed)
      BY <1>7, <3>2 DEF HistInv, Stands
    <3> QED BY <1>1, <2>0, <3>1, <3>2 DEF Recorded
  <2>2. \A i \in 1..Len(Expand(messages)') :
           LET p == Expand(messages)'[i].turn
           IN  p \in Prompts /\ wk'[p].pc # "none" /\ p \notin cleared'
    BY <1>1, <1>6 DEF Known
  <2> QED BY <1>1, <1>2, <2>0, <2>1, <2>2 DEF Stands, Known
<1>10. ASSUME NEW p \in Prompts, call'[p] = "ok", p \notin cleared'
       PROVE  /\ HoldsTurn(messages', wk'[p].msgs, p)
              /\ Written' => store'.snapshot # Nil /\ HoldsTurn(store'.snapshot, wk'[p].msgs, p)
  <2>1. CASE call[p] = "ok"
    <3>1. /\ HoldsTurn(messages, wk[p].msgs, p)
          /\ Written => held # Nil /\ HoldsTurn(held, wk[p].msgs, p)
      BY <1>10, <2>1 DEF HistInv, Kept
    <3>2. q # p /\ wk'[p].msgs = wk[p].msgs
      BY <2>1 DEF HistInv, Retired
    <3>3. wk'[p].msgs \in Histories
      OBVIOUS
    <3>4. HoldsTurn(new, wk'[p].msgs, p) /\ new # Nil
      BY <1>0, <1>2, <1>3, <3>1, <3>2, <3>3, HoldsMore
    <3>5. ASSUME Written' PROVE store'.snapshot = new \/ (store'.snapshot = held /\ Written)
      BY <1>1, <3>5 DEF Recorded, Written
    <3> QED BY <1>1, <3>1, <3>2, <3>4, <3>5
  <2>2. CASE call[p] # "ok"
    <3>1. Expand(wk'[p].msgs) = f /\ ~Written'
      BY <1>2, <1>10, <2>2 DEF Written
    <3>2. HoldsTurn(new, wk'[p].msgs, p)
      <4>1. Len(f) <= Len(f) /\ (Len(f) + 1)..Len(f) = {}
        BY <1>4
      <4> QED BY <3>1, <4>1 DEF HoldsTurn
    <3> QED BY <1>1, <3>1, <3>2
  <2> QED BY <2>1, <2>2
<1> QED BY <1>9, <1>10 DEF Kept

(* A list begins with itself. *)
LEMMA PrefixSelf ==
    ASSUME NEW ms \in Histories
    PROVE  IsPrefix(ms, ms)
<1>1. ms \in Seq(Messages) /\ Len(ms) \in Nat
  BY HistoryIsSeq
<1>2. Len(ms) <= Len(ms)
  BY <1>1
<1> QED BY <1>1, <1>2, PrefixByPlaces

(* A list begins with what a list it begins with begins with. *)
LEMMA PrefixTrans ==
    ASSUME NEW a \in Histories, NEW b \in Histories, NEW c \in Histories, IsPrefix(a, b), IsPrefix(b, c)
    PROVE  IsPrefix(a, c)
<1>1. /\ a \in Seq(Messages) /\ b \in Seq(Messages) /\ c \in Seq(Messages)
      /\ Len(a) \in Nat /\ Len(b) \in Nat /\ Len(c) \in Nat
  BY HistoryIsSeq
<1>2. /\ Len(a) <= Len(b) /\ (\A i \in 1..Len(a) : b[i] = a[i])
      /\ Len(b) <= Len(c) /\ (\A i \in 1..Len(b) : c[i] = b[i])
  BY <1>1, PrefixByPlaces
<1>3. Len(a) <= Len(c) /\ \A i \in 1..Len(a) : c[i] = a[i]
  BY <1>1, <1>2
<1> QED BY <1>1, <1>3, PrefixByPlaces

(* Lists that grow with the same turn. *)
LEMMA GrownTrans ==
    ASSUME NEW a \in Histories, NEW b \in Histories, NEW c \in Histories, NEW q,
           Grown(Expand(a), Expand(b), q), Grown(Expand(b), Expand(c), q)
    PROVE  Grown(Expand(a), Expand(c), q)
<1> DEFINE x == Expand(a)
           y == Expand(b)
           z == Expand(c)
<1>0. Len(x) \in Nat /\ Len(y) \in Nat /\ Len(z) \in Nat
  BY ExpandPlaces
<1>g. Grown(x, y, q) /\ Grown(y, z, q)
  OBVIOUS
<1> HIDE DEF x, y, z
<1>1. Len(x) <= Len(y) /\ Len(y) <= Len(z)
  BY <1>g DEF Grown
<1>2. Len(x) <= Len(z) /\ \A i \in 1..Len(x) : z[i] = x[i]
  <2>1. \A i \in 1..Len(x) : i \in 1..Len(y)
    BY <1>0, <1>1
  <2>2. Len(x) <= Len(z)
    BY <1>0, <1>1
  <2> QED BY <1>g, <2>1, <2>2 DEF Grown
<1>3. ASSUME NEW i \in (Len(x) + 1)..Len(z) PROVE z[i].turn = q
  <2>1. (i \in (Len(x) + 1)..Len(y) /\ i \in 1..Len(y)) \/ i \in (Len(y) + 1)..Len(z)
    BY <1>0, <1>1
  <2> QED BY <1>g, <2>1 DEF Grown
<1> QED BY <1>2, <1>3 DEF Grown, x, y, z

(* A list that says the same has grown by nothing. *)
LEMMA GrownSame ==
    ASSUME NEW ms \in Histories, NEW new, Expand(new) = Expand(ms), NEW q
    PROVE  Grown(Expand(ms), Expand(new), q)
<1>1. Len(Expand(ms)) \in Nat
  BY ExpandPlaces
<1>2. Len(Expand(ms)) <= Len(Expand(ms)) /\ (Len(Expand(ms)) + 1)..Len(Expand(ms)) = {}
  BY <1>1
<1> QED BY <1>2 DEF Grown

(* The messages a worker adds to its list. *)
LEMMA GrowsOwn ==
    ASSUME NEW w \in Workers, NEW v \in Workers, NEW p, Own(w, p), v.base = w.base,
           NEW t \in Seq(BaseMessages), v.msgs = w.msgs \o t, Continues(t, p, LastN(w))
    PROVE  Own(v, p) /\ Grown(Expand(w.msgs), Expand(v.msgs), p) /\ IsPrefix(w.msgs, v.msgs)
<1>0. w.msgs \in Histories
  BY SMT DEF Workers
<1>1. Own(v, p)
  BY OwnGrows
<1> DEFINE e == Expand(w.msgs)
           f == Expand(v.msgs)
<1>2. e \in Seq(BaseMessages) /\ f = e \o t
  BY <1>0, ExpandType, ExpandConcat
<1> HIDE DEF e, f
<1>3. /\ Len(e) \in Nat /\ Len(t) \in Nat /\ Len(f) = Len(e) + Len(t)
      /\ \A i \in 1..Len(e) : f[i] = e[i]
      /\ \A i \in (Len(e) + 1)..(Len(e) + Len(t)) : f[i] = t[i - Len(e)]
  BY <1>2, ConcatPlaces
<1>4. Grown(e, f, p)
  <2>1. Len(e) <= Len(f)
    BY <1>3
  <2>2. ASSUME NEW i \in (Len(e) + 1)..Len(f) PROVE f[i].turn = p
    <3>1. i - Len(e) \in 1..Len(t) /\ i \in (Len(e) + 1)..(Len(e) + Len(t))
      BY <1>3
    <3> QED BY <1>3, <3>1 DEF Continues
  <2> QED BY <1>3, <2>1, <2>2 DEF Grown
<1>5. IsPrefix(w.msgs, v.msgs)
  <2>1. w.msgs \in Seq(Messages) /\ t \in Seq(Messages)
    BY <1>0, BaseIsHistory, HistoryIsSeq
  <2>2. PICK a \in Seq(Messages) : a = w.msgs
    BY <2>1
  <2>3. /\ a \o t \in Seq(Messages) /\ Len(a) \in Nat /\ Len(t) \in Nat /\ Len(a \o t) = Len(a) + Len(t)
        /\ \A i \in 1..Len(a) : (a \o t)[i] = a[i]
    BY <2>1, ConcatPlaces
  <2>4. Len(a) <= Len(a \o t)
    BY <2>3
  <2>5. IsPrefix(a, a \o t)
    BY <2>3, <2>4, PrefixByPlaces
  <2> QED BY <2>2, <2>5
<1> QED BY <1>1, <1>4, <1>5 DEF e, f

-----------------------------------------------------------------------------
(* Steps that leave the history alone. *)

(* The history may be replaced by itself. *)
LEMMA SelfSettles ==
    ASSUME IInv, HistInv
    PROVE  Settles(messages) /\ IsPrefix(messages, messages)
<1>1. messages \in Histories
  BY Typed
<1> QED BY <1>1, PrefixSelf DEF Settles, HistInv, Stands

(* A step that leaves the history and the store alone. *)
LEMMA UnmovedStands ==
    ASSUME IInv, HistInv, UNCHANGED <<messages, store, cleared>>,
           \A p \in Prompts : wk[p].pc # "none" => wk'[p].pc # "none",
           \A p \in Prompts : call[p] = "ok" => wk'[p].msgs = wk[p].msgs,
           \A p \in Prompts : wk'[p].msgs \in Histories,
           \A p \in Prompts : call'[p] = "ok" => call[p] = "ok"
    PROVE  Stands' /\ Kept' /\ Settled
<1>1. Settles(messages) /\ IsPrefix(messages, messages) /\ Condensed(messages, messages')
  BY SelfSettles DEF Condensed
<1>2. Settled
  BY <1>1 DEF Settled, Follows
<1>3. Recorded
  BY DEF Recorded
<1>4. Stands' /\ Kept'
  BY <1>1, <1>3, SettledKeeps
<1> QED BY <1>2, <1>4

(* A worker keeps its lists, and its place among the workers that wait for tools or not. *)
SameList(w, v) ==
    /\ v.msgs = w.msgs /\ v.base = w.base
    /\ v.pc = "none" <=> w.pc = "none"
    /\ v.pc = "start" => w.pc = "start"
    /\ v.pc \in {"tools", "dead"} <=> w.pc \in {"tools", "dead"}
    /\ w.pc = "done" => v.pc = "done"

(* A worker whose list stays owns it as before. *)
LEMMA OwnListSame ==
    ASSUME NEW w, NEW v, NEW p, SameList(w, v), OwnList(w, p)
    PROVE  OwnList(v, p)
<1>1. Own(v, p)
  BY OwnSame DEF SameList, OwnList
<1> QED BY <1>1 DEF SameList, OwnList

(* A step that moves no list. *)
LEMMA QuietHistory ==
    ASSUME IInv, HistInv, UNCHANGED <<messages, store, cleared>>,
           compaction'.task = compaction.task, compaction'.result = compaction.result,
           compaction'.prefix = compaction.prefix, compaction'.waiter = compaction.waiter,
           turn'.streaming = turn.streaming, turn'.recipient = turn.recipient,
           \A p \in Prompts : SameList(wk[p], wk'[p]) /\ wk'[p].woken = wk[p].woken,
           \A p \in Prompts : Lost(wk[p], out[p]) => Lost(wk'[p], out'[p]),
           \A p \in Prompts : call'[p] = "ok" => call[p] = "ok"
    PROVE  HistInv' /\ Settled
<1>0. \A p \in Prompts : wk[p].msgs \in Histories
  BY WorkerOf
<1>1. Stands' /\ Kept' /\ Settled
  <2>1. \A p \in Prompts : (wk[p].pc # "none" => wk'[p].pc # "none") /\ wk'[p].msgs = wk[p].msgs
    BY DEF SameList
  <2> QED BY <1>0, <2>1, UnmovedStands
<1>2. Lists'
  <2>1. ASSUME NEW p \in Prompts, wk'[p].pc # "none" PROVE OwnList(wk'[p], p)
    <3>1. OwnList(wk[p], p)
      BY <2>1 DEF HistInv, Lists, SameList
    <3> QED BY <3>1, OwnListSame
  <2> QED BY <2>1 DEF Lists
<1>3. Ahead'
  <2> SUFFICES ASSUME turn.streaming PROVE AheadOf(turn.recipient)'
    BY DEF Ahead
  <2>1. turn.recipient \in Prompts /\ AheadOf(turn.recipient)
    BY RunningKnown DEF HistInv, Ahead
  <2> QED BY <2>1 DEF AheadOf, SameList
<1>4. Work'
  BY DEF HistInv, Work, Replaces, Cuts
<1>5. Retired'
  BY DEF HistInv, Retired, SameList
<1> QED BY <1>1, <1>2, <1>3, <1>4, <1>5 DEF HistInv

(* A worker that is running is not held at a checkpoint. *)
LEMMA FreeWorker ==
    ASSUME IInv, NEW p \in Prompts, turn.recipient = p, wk[p].pc # "checkpoint"
    PROVE  compaction.waiter = Nil
BY Typed DEF IInv, Waiting

(* A worker's own step: its list stays or grows with messages of its turn. *)
LEMMA StepHistory ==
    ASSUME IInv, HistInv, NEW p \in Prompts, NEW w \in Workers, NEW s, Step(p, w, s),
           wk[p].pc \notin Asks \cup {"none", "done"}, w.pc # "none",
           w.base = wk[p].base, w.woken = wk[p].woken, OwnList(w, p),
           Grown(Expand(wk[p].msgs), Expand(w.msgs), p),
           Policy => IsPrefix(wk[p].msgs, w.msgs),
           \/ w.pc = "failed" \/ wk[p].pc # "failed"
           \/ w.pc = "done" /\ NoGood(out[p] \o s)
    PROVE  HistInv' /\ Settled
<1>0. /\ wk \in [Prompts -> Workers] /\ out \in [Prompts -> Seq(Wires)] /\ messages \in Histories
      /\ wk[p].msgs \in Histories /\ w.msgs \in Histories
      /\ \A q \in Prompts : wk[q].msgs \in Histories
  <2>1. w.msgs \in Histories
    BY SMT DEF Workers
  <2> QED BY <2>1, Typed, WorkerOf
<1>1. /\ wk' = [wk EXCEPT ![p] = w] /\ out' = [out EXCEPT ![p] = out[p] \o s]
      /\ UNCHANGED <<turn, messages, compaction, store, call, cleared>>
  BY DEF Step, sessionVars, clientVars
<1>2. wk'[p] = w /\ out'[p] = out[p] \o s /\ \A q \in Prompts \ {p} : wk'[q] = wk[q] /\ out'[q] = out[q]
  BY <1>0, <1>1
<1>3. call[p] # "ok"
  BY DEF HistInv, Retired
<1>4. Stands' /\ Kept' /\ Settled
  <2>1. /\ \A q \in Prompts : wk[q].pc # "none" => wk'[q].pc # "none"
        /\ \A q \in Prompts : call[q] = "ok" => wk'[q].msgs = wk[q].msgs
        /\ \A q \in Prompts : wk'[q].msgs \in Histories
    BY <1>0, <1>2, <1>3
  <2> QED BY <1>1, <2>1, UnmovedStands
<1>5. Lists'
  BY <1>2 DEF HistInv, Lists
<1>6. Ahead'
  <2> SUFFICES ASSUME turn.streaming PROVE AheadOf(turn.recipient)'
    BY <1>1 DEF Ahead
  <2>1. turn.recipient \in Prompts /\ AheadOf(turn.recipient)
    BY RunningKnown DEF HistInv, Ahead
  <2>2. CASE turn.recipient # p
    BY <1>1, <1>2, <2>1, <2>2 DEF AheadOf
  <2>3. CASE turn.recipient = p
    <3>1. compaction.waiter = Nil
      BY <2>3, FreeWorker DEF Asks
    <3>2. Grown(Expand(messages), Expand(w.msgs), p)
      BY <1>0, <2>1, <2>3, GrownTrans DEF AheadOf
    <3>3. Policy => IsPrefix(messages, w.msgs) \/ Lost(w, out[p] \o s)
      <4> SUFFICES ASSUME Policy PROVE IsPrefix(messages, w.msgs) \/ Lost(w, out[p] \o s)
        OBVIOUS
      <4>1. CASE w.pc = "failed" \/ (w.pc = "done" /\ NoGood(out[p] \o s))
        BY <4>1 DEF Lost
      <4>2. CASE wk[p].pc # "failed"
        <5>1. IsPrefix(messages, wk[p].msgs)
          BY <2>1, <2>3, <3>1, <4>2 DEF AheadOf, Lost
        <5> QED BY <1>0, <5>1, PrefixTrans
      <4> QED BY <4>1, <4>2
    <3>4. ~Policy => Grown(Expand(messages), Expand(w.base), p)
      BY <2>1, <2>3 DEF AheadOf
    <3> QED BY <1>1, <1>2, <2>3, <3>1, <3>2, <3>3, <3>4 DEF AheadOf
  <2> QED BY <2>2, <2>3
<1>7. Work'
  BY <1>1 DEF HistInv, Work
<1>8. Retired'
  BY <1>1, <1>2, <1>3 DEF HistInv, Retired
<1> QED BY <1>4, <1>5, <1>6, <1>7, <1>8 DEF HistInv

-----------------------------------------------------------------------------
(* The workers' own steps. *)

(* A worker's own step that leaves its list as it was. *)
LEMMA SameStepHistory ==
    ASSUME IInv, HistInv, NEW p \in Prompts, NEW w \in Workers, NEW s, Step(p, w, s),
           wk[p].pc \notin Asks \cup {"none", "done"}, SameList(wk[p], w), w.woken = wk[p].woken,
           \/ w.pc = "failed" \/ wk[p].pc # "failed"
           \/ w.pc = "done" /\ NoGood(out[p] \o s)
    PROVE  HistInv' /\ Settled
<1>0. wk[p].msgs \in Histories /\ w.msgs = wk[p].msgs /\ w.base = wk[p].base /\ w.pc # "none"
  BY WorkerOf DEF SameList
<1>1. OwnList(w, p)
  BY OwnListSame DEF HistInv, Lists
<1>2. Grown(Expand(wk[p].msgs), Expand(w.msgs), p) /\ IsPrefix(wk[p].msgs, w.msgs)
  BY <1>0, GrownSame, PrefixSelf
<1> QED BY <1>0, <1>1, <1>2, StepHistory

(* The next message of a worker's turn is an answer of the provider. *)
Answer(m, w, p) == m.turn = p /\ m.n = LastN(w) + 1 /\ m.role \in {"assistant", "calls"}

(* A worker's own step that adds an answer to its list. *)
LEMMA AnswerHistory ==
    ASSUME IInv, HistInv, NEW p \in Prompts, NEW w \in Workers, NEW s, Step(p, w, s),
           wk[p].pc \in {"start", "answered"}, w.pc \in {"done", "tools"},
           w.base = wk[p].base, w.woken = wk[p].woken,
           NEW m \in BaseMessages, Answer(m, wk[p], p), w.msgs = Append(wk[p].msgs, m),
           w.pc = "tools" <=> m.role = "calls"
    PROVE  HistInv' /\ Settled
<1>0. wk[p] \in Workers /\ wk[p].msgs \in Histories
  BY WorkerOf
<1>1. OwnList(wk[p], p)
  BY DEF HistInv, Lists
<1>2. BatchesWhole(wk[p].msgs, Tools)
  BY <1>1 DEF OwnList
<1>3. PICK t \in Seq(BaseMessages) : Len(t) = 1 /\ t[1] = m /\ w.msgs = wk[p].msgs \o t
  BY <1>0, AppendOne
<1>4. Continues(t, p, LastN(wk[p]))
  <2>1. \A k \in 1..1 : k = 1
    OBVIOUS
  <2> QED BY <1>3, <2>1 DEF Continues, Answer
<1>5. Own(w, p) /\ Grown(Expand(wk[p].msgs), Expand(w.msgs), p) /\ IsPrefix(wk[p].msgs, w.msgs)
  BY <1>0, <1>1, <1>3, <1>4, GrowsOwn DEF OwnList
<1>6. IF w.pc \in {"tools", "dead"} THEN Pending(w.msgs) ELSE BatchesWhole(w.msgs, Tools)
  BY <1>0, <1>2, AnswerWhole DEF Answer
<1>7. OwnList(w, p)
  BY <1>1, <1>5, <1>6 DEF OwnList
<1>8. wk[p].pc \notin Asks \cup {"none", "done"} /\ w.pc # "none" /\ wk[p].pc # "failed"
  BY DEF Asks
<1> QED BY <1>5, <1>7, <1>8, StepHistory

(* A summary of a whole list condenses it. *)
LEMMA SummaryCondenses ==
    ASSUME NEW ms \in Histories
    PROVE  Condensed(ms, Summarise(ms))
<1>0. ms \in Seq(Messages) /\ Len(ms) \in Nat
  BY HistoryIsSeq
<1>1. CASE ms = <<>>
  BY <1>1 DEF Condensed, Summarise
<1>2. CASE ms # <<>>
  <2>1. PICK k \in 1..Len(ms) : k = Len(ms)
    BY <1>0, <1>2, EmptySeq
  <2>2. Take(ms, k) = ms
    BY <1>0, <2>1, SubSeqFull DEF Take
  <2>3. PICK new \in Histories : new = Summarise(ms)
    BY SummariseType
  <2>4. Drop(ms, k) = <<>>
    <3>1. Len(ms) + 1 > Len(ms)
      BY <1>0
    <3> QED BY <1>0, <2>1, <3>1, SubSeqEmpty DEF Drop
  <2>5. new \o <<>> = new
    BY <2>3, HistoryIsSeq, ConcatEmptySeq
  <2>6. Summarise(ms) = Summarise(Take(ms, k)) \o Drop(ms, k)
    BY <2>2, <2>3, <2>4, <2>5
  <2>7. ~(k < Len(ms))
    BY <1>0, <2>1
  <2> QED BY <2>6, <2>7 DEF Condensed
<1> QED BY <1>1, <1>2

(* Compaction.apply condenses its list. *)
LEMMA AppliedCondenses ==
    ASSUME NEW ms \in Histories, NEW new \in Applied(ms)
    PROVE  Condensed(ms, new)
BY AppliedIs, SummaryCondenses DEF Condensed

(* Without background compaction a worker condenses its own list before it calls the provider. *)
LEMMA ProceedsHistory ==
    ASSUME IInv, HistInv, NEW p \in Prompts, WorkerProceeds(p)
    PROVE  HistInv' /\ Settled
<1>0. wk[p] \in Workers /\ wk[p].msgs \in Histories /\ wk[p].pc = "checkpointed" /\ Tools \in Nat
  BY WorkerOf, SessionAssumption DEF WorkerProceeds, At
<1>1. PICK ms \in IF Policy THEN {wk[p].msgs} ELSE Applied(wk[p].msgs) :
        Ask(p, [wk[p] EXCEPT !.msgs = ms, !.attempt = 1, !.emitted = FALSE],
            "attempt", Emits(p, <<Event("turn_start")>>))
  BY DEF WorkerProceeds
<1>2. Condensed(wk[p].msgs, ms) /\ (Policy => ms = wk[p].msgs)
  BY <1>0, <1>1, AppliedCondenses DEF Condensed
<1>3. /\ ms \in Histories /\ Expand(ms) = Expand(wk[p].msgs)
      /\ BatchesWhole(wk[p].msgs, Tools) => BatchesWhole(ms, Tools)
  BY <1>0, <1>2, CondensedSays
<1> DEFINE u == [wk[p] EXCEPT !.msgs = ms]
           v == [u EXCEPT !.attempt = 1]
           x == [v EXCEPT !.emitted = FALSE]
           w == [x EXCEPT !.pc = "attempt"]
           s == Append(Emits(p, <<Event("turn_start")>>), Asking)
<1>4. Step(p, w, s)
  BY <1>1 DEF Ask
<1>5. u \in Workers /\ u.msgs = ms /\ u.base = wk[p].base /\ u.woken = wk[p].woken
  BY <1>0, <1>3, WorkerMsgs
<1> HIDE DEF u
<1>6. v \in Workers /\ v.msgs = ms /\ v.base = wk[p].base /\ v.woken = wk[p].woken
  BY <1>5, WorkerAttempt
<1> HIDE DEF v
<1>7. x \in Workers /\ x.msgs = ms /\ x.base = wk[p].base /\ x.woken = wk[p].woken
  <2>1. PICK y : y = x
    OBVIOUS
  <2>2. y = [v EXCEPT !.emitted = FALSE]
    BY <2>1
  <2> HIDE DEF x
  <2>3. y \in Workers /\ y.msgs = v.msgs /\ y.base = v.base /\ y.woken = v.woken
    <3>1. PICK u0 : u0 = v
      OBVIOUS
    <3>2. u0 \in Workers /\ y = [u0 EXCEPT !.emitted = FALSE]
      BY <1>6, <2>2, <3>1
    <3>3. y \in Workers /\ y.msgs = u0.msgs /\ y.base = u0.base /\ y.woken = u0.woken
      BY <3>2, WorkerEmitted, ZenonT(60)
    <3> QED BY <3>1, <3>3
  <2> QED BY <1>6, <2>1, <2>3
<1> HIDE DEF x
<1>8. w \in Workers /\ w.msgs = ms /\ w.base = wk[p].base /\ w.woken = wk[p].woken /\ w.pc = "attempt"
  <2>1. "attempt" \in PCs
    BY DEF PCs
  <2> QED BY <1>7, <2>1, WorkerPc
<1> HIDE DEF w, s
<1>9. OwnList(w, p)
  <2>1. OwnList(wk[p], p)
    BY <1>0 DEF HistInv, Lists
  <2>2. Own(w, p)
    BY <1>3, <1>8, <2>1, OwnSame DEF OwnList
  <2> QED BY <1>0, <1>3, <1>8, <2>1, <2>2 DEF OwnList
<1>10. Grown(Expand(wk[p].msgs), Expand(w.msgs), p) /\ (Policy => IsPrefix(wk[p].msgs, w.msgs))
  BY <1>0, <1>2, <1>3, <1>8, GrownSame, PrefixSelf
<1>11. wk[p].pc \notin Asks \cup {"none", "done", "failed"}
  BY <1>0 DEF Asks
<1> QED BY <1>4, <1>8, <1>9, <1>10, <1>11, StepHistory

(* The answer of the provider is the next message of the turn. *)
LEMMA RecordsHistory ==
    ASSUME IInv, HistInv, NEW p \in Prompts, WorkerRecords(p)
    PROVE  HistInv' /\ Settled
<1>0. wk[p] \in Workers /\ wk[p].msgs \in Histories /\ wk[p].pc = "answered"
  BY WorkerOf DEF WorkerRecords, At
<1>1. wk[p].reply \in {"assistant", "calls"}
  BY <1>0 DEF IInv, Answered
<1>2. PICK m \in BaseMessages : m = Msg(p, NextN(p), wk[p].reply)
  <2>1. wk[p].reply \in Roles
    BY <1>1 DEF Roles
  <2> QED BY <1>0, <2>1, NextNType, MsgType
<1>3. Answer(m, wk[p], p) /\ (m.role = "calls" <=> wk[p].reply = "calls")
  <2>1. Own(wk[p], p)
    BY <1>0 DEF HistInv, Lists, OwnList
  <2>2. PICK n : n = NextN(p)
    OBVIOUS
  <2>3. m.turn = p /\ m.n = n /\ m.role = wk[p].reply
    BY <1>2, <2>2 DEF Msg
  <2>4. n = LastN(wk[p]) + 1
    <3>1. wk[p].base \in Histories
      BY <1>0, SMT DEF Workers
    <3>2. Len(Expand(wk[p].msgs)) \in Nat /\ Len(Expand(wk[p].base)) \in Nat
      BY <1>0, <3>1, ExpandPlaces
    <3>3. n = Len(Expand(wk[p].msgs)) - Len(Expand(wk[p].base)) + 2
      BY <1>0, <2>1, <2>2, NextPlace
    <3> QED BY <3>2, <3>3 DEF LastN
  <2> QED BY <1>1, <2>3, <2>4 DEF Answer
<1> DEFINE ms == Append(wk[p].msgs, m)
           u == [wk[p] EXCEPT !.msgs = ms]
           asking == [t \in ToolIds |-> "asking"]
           v == [u EXCEPT !.pc = "tools"]
           w == [v EXCEPT !.tool = asking]
           d == [u EXCEPT !.pc = "done"]
<1>4. \E s : \/ wk[p].reply = "calls" /\ Step(p, w, s)
             \/ wk[p].reply # "calls" /\ Step(p, d, s)
  <2>1. \E s, a : \/ wk[p].reply = "calls" /\ Step(p, [[wk[p] EXCEPT !.msgs = ms] EXCEPT !.pc = "tools", !.tool = asking], s)
                  \/ wk[p].reply # "calls" /\ Step(p, [[wk[p] EXCEPT !.msgs = ms] EXCEPT !.pc = "done"], s)
    BY <1>2, Zenon DEF WorkerRecords
  <2> QED BY <2>1
<1>5. ms \in Histories
  BY <1>0, AppendType
<1>6. asking \in ToolStates
  BY DEF ToolStates
<1> HIDE DEF asking, ms
<1>7. u \in Workers /\ u.msgs = ms /\ u.base = wk[p].base /\ u.woken = wk[p].woken
  BY <1>0, <1>5, WorkerMsgs
<1> HIDE DEF u
<1>p. {"tools", "done"} \subseteq PCs
  BY DEF PCs
<1>8. d \in Workers /\ d.msgs = ms /\ d.base = wk[p].base /\ d.woken = wk[p].woken /\ d.pc = "done"
  BY <1>7, <1>p, WorkerPc
<1>9. v \in Workers /\ v.msgs = ms /\ v.base = wk[p].base /\ v.woken = wk[p].woken /\ v.pc = "tools"
  BY <1>7, <1>p, WorkerPc
<1> HIDE DEF v, d
<1>10. w \in Workers /\ w.msgs = ms /\ w.base = wk[p].base /\ w.woken = wk[p].woken /\ w.pc = "tools"
  BY <1>6, <1>9, WorkerTool
<1> HIDE DEF w
<1>11. PICK s : \/ wk[p].reply = "calls" /\ Step(p, w, s)
                \/ wk[p].reply # "calls" /\ Step(p, d, s)
  BY <1>4
<1>12. CASE wk[p].reply = "calls" /\ Step(p, w, s)
  BY <1>0, <1>3, <1>10, <1>12, AnswerHistory DEF ms
<1>13. CASE wk[p].reply # "calls" /\ Step(p, d, s)
  BY <1>0, <1>3, <1>8, <1>13, AnswerHistory DEF ms
<1> QED BY <1>11, <1>12, <1>13

(* A runtime that is not native answers right after the prompt. *)
LEMMA RuntimeHistory ==
    ASSUME IInv, HistInv, NEW p \in Prompts, RuntimeAnswers(p)
    PROVE  HistInv' /\ Settled
<1>0. wk[p] \in Workers /\ wk[p].msgs \in Histories /\ wk[p].pc = "start"
  BY WorkerOf DEF RuntimeAnswers, At
<1>1. PICK m \in BaseMessages : m = Msg(p, 2, "assistant")
  BY MsgType DEF Roles
<1>2. Answer(m, wk[p], p) /\ m.role = "assistant"
  <2>1. wk[p].msgs = wk[p].base
    BY <1>0 DEF HistInv, Lists, OwnList
  <2>2. Len(Expand(wk[p].msgs)) \in Nat
    BY <1>0, ExpandPlaces
  <2>3. LastN(wk[p]) + 1 = 2
    BY <2>1, <2>2 DEF LastN
  <2> QED BY <1>1, <2>3 DEF Answer, Msg
<1> DEFINE u == [wk[p] EXCEPT !.pc = "done"]
           ms == Append(wk[p].msgs, m)
           w == [u EXCEPT !.msgs = ms]
<1>3. \E s : Step(p, w, s) \/ Step(p, [u EXCEPT !.msgs = wk[p].msgs], s)
  BY <1>1, Zenon DEF RuntimeAnswers
<1>4. /\ u \in Workers /\ u.pc = "done" /\ u.base = wk[p].base /\ u.msgs = wk[p].msgs /\ u.woken = wk[p].woken
  <2>1. "done" \in PCs
    BY DEF PCs
  <2> QED BY <1>0, <2>1, WorkerPc
<1> HIDE DEF u
<1>5. ms \in Histories
  BY <1>0, AppendType
<1> HIDE DEF ms
<1>6. /\ w \in Workers /\ w.pc = "done" /\ w.base = wk[p].base /\ w.msgs = ms
      /\ w.woken = wk[p].woken
  BY <1>4, <1>5, WorkerMsgs
<1> HIDE DEF w
<1>7. PICK d : d = [u EXCEPT !.msgs = wk[p].msgs]
  OBVIOUS
<1>8. /\ d \in Workers /\ d.pc = "done" /\ d.base = wk[p].base /\ d.msgs = wk[p].msgs
      /\ d.woken = wk[p].woken
  BY <1>0, <1>4, <1>7, WorkerMsgs
<1>9. PICK s : Step(p, w, s) \/ Step(p, d, s)
  BY <1>3, <1>7
<1>10. CASE Step(p, w, s)
  BY <1>0, <1>2, <1>6, <1>10, AnswerHistory DEF ms
<1>11. CASE Step(p, d, s)
  <2>1. SameList(wk[p], d) /\ wk[p].pc \notin Asks \cup {"none", "done"}
    BY <1>0, <1>8 DEF SameList, Asks
  <2> QED BY <1>0, <1>8, <1>11, <2>1, SameStepHistory
<1> QED BY <1>9, <1>10, <1>11

(* The results of a batch follow its calls. *)
LEMMA ResultsHistory ==
    ASSUME IInv, HistInv, NEW p \in Prompts, ToolsReturned(p)
    PROVE  HistInv' /\ Settled
<1>0. wk[p] \in Workers /\ wk[p].msgs \in Histories /\ wk[p].round \in Nat /\ wk[p].pc = "tools" /\ Tools \in Nat
  BY WorkerOf, SessionAssumption DEF ToolsReturned, At
<1> DEFINE idle == [t \in ToolIds |-> "idle"]
           n == NextN(p)
           results == [t \in ToolIds |-> Msg(p, n + t - 1, "tool_result")]
           ms == wk[p].msgs \o results
           w1 == [wk[p] EXCEPT !.pc = "loop"]
           w2 == [w1 EXCEPT !.round = wk[p].round + 1]
           w3 == [w2 EXCEPT !.tool = idle]
           w4 == [w3 EXCEPT !.msgs = ms]
           s  == Emits(p, <<Event("tool_result")>>)
<1>1. Step(p, w4, s)
  BY DEF ToolsReturned
<1>l. OwnList(wk[p], p)
  BY <1>0 DEF HistInv, Lists
<1>n. n \in Nat \ {0}
  BY <1>0, NextNType
<1>a. LastN(wk[p]) \in Int /\ n = LastN(wk[p]) + 1
  <2>1. wk[p].base \in Histories
    BY <1>0, SMT DEF Workers
  <2>2. Len(Expand(wk[p].msgs)) \in Nat /\ Len(Expand(wk[p].base)) \in Nat
    BY <1>0, <2>1, ExpandPlaces
  <2>3. n = Len(Expand(wk[p].msgs)) - Len(Expand(wk[p].base)) + 2
    BY <1>0, <1>l, NextPlace DEF OwnList
  <2> HIDE DEF n
  <2> QED BY <2>2, <2>3 DEF LastN
<1> HIDE DEF n
<1>2. /\ results \in Seq(BaseMessages) /\ Len(results) = Tools
      /\ \A k \in 1..Tools : results[k] = Msg(p, n + k - 1, "tool_result")
  <2>1. \A t \in 1..Tools : n + t - 1 \in Nat
    BY <1>0, <1>n
  <2>2. \A t \in 1..Tools : Msg(p, n + t - 1, "tool_result") \in BaseMessages
    BY <2>1, MsgType DEF Roles
  <2>3. results = [t \in 1..Tools |-> Msg(p, n + t - 1, "tool_result")]
    BY DEF ToolIds
  <2> HIDE DEF results
  <2>4. results \in Seq(BaseMessages)
    BY <1>0, <2>2, <2>3, IsASeq
  <2>5. Len(results) = Tools
    BY <1>0, <2>3, <2>4, LenProperties
  <2> QED BY <2>3, <2>4, <2>5
<1>3. PICK t \in Seq(BaseMessages) : t = results
  BY <1>2
<1>4. Len(t) = Tools /\ \A k \in 1..Tools : t[k] = Msg(p, n + k - 1, "tool_result")
  BY <1>2, <1>3
<1>5. ms = wk[p].msgs \o t
  BY <1>3
<1> HIDE DEF results, ms
<1>6. Len(t) = Tools /\ \A k \in 1..Tools : t[k].turn = p /\ t[k].n = n + k - 1 /\ t[k].role = "tool_result"
  BY <1>4 DEF Msg
<1>7. Continues(t, p, LastN(wk[p]))
  <2>1. \A k \in 1..Tools : n + k - 1 = LastN(wk[p]) + k
    BY <1>0, <1>a
  <2> QED BY <1>6, <2>1 DEF Continues
<1>8. ms \in Histories
  BY <1>0, <1>5, ConcatType
<1>9. w1 \in Workers /\ w1.pc = "loop" /\ w1.base = wk[p].base /\ w1.woken = wk[p].woken
  BY <1>0, WorkerPc DEF PCs
<1> HIDE DEF w1
<1>10. w2 \in Workers /\ w2.pc = "loop" /\ w2.base = wk[p].base /\ w2.woken = wk[p].woken
  <2>1. PICK i \in Nat : i = wk[p].round + 1
    BY <1>0
  <2>2. PICK y : y = w2 /\ y = [w1 EXCEPT !.round = i]
    BY <2>1
  <2> HIDE DEF w2
  <2>3. y \in Workers /\ y.pc = w1.pc /\ y.base = w1.base /\ y.woken = w1.woken
    BY <1>9, <2>2, WorkerRound
  <2> QED BY <1>9, <2>2, <2>3
<1> HIDE DEF w2
<1>11. w3 \in Workers /\ w3.pc = "loop" /\ w3.base = wk[p].base /\ w3.woken = wk[p].woken
  <2>1. idle \in ToolStates
    BY DEF ToolStates
  <2> HIDE DEF idle
  <2> QED BY <1>10, <2>1, WorkerTool
<1> HIDE DEF w3
<1>12. w4 \in Workers /\ w4.pc = "loop" /\ w4.base = wk[p].base /\ w4.woken = wk[p].woken /\ w4.msgs = ms
  BY <1>8, <1>11, WorkerMsgs
<1> HIDE DEF w4, s
<1>13. Own(w4, p) /\ Grown(Expand(wk[p].msgs), Expand(w4.msgs), p) /\ IsPrefix(wk[p].msgs, w4.msgs)
  BY <1>0, <1>5, <1>7, <1>12, <1>l, GrowsOwn DEF OwnList
<1>14. BatchesWhole(w4.msgs, Tools)
  <2>1. Pending(wk[p].msgs)
    BY <1>0, <1>l DEF OwnList
  <2> QED BY <1>0, <1>5, <1>6, <1>12, <2>1, ResultsWhole
<1>15. OwnList(w4, p)
  BY <1>12, <1>13, <1>14, <1>l DEF OwnList
<1>16. wk[p].pc \notin Asks \cup {"none", "done", "failed"}
  BY <1>0 DEF Asks
<1> QED BY <1>1, <1>12, <1>13, <1>15, <1>16, StepHistory

(* What a worker does leaves the history alone and its own list in order. *)
LEMMA WorkerStepsHistory ==
    ASSUME IInv, HistInv, NEW p \in Prompts, WorkerSteps(p)
    PROVE  HistInv' /\ Settled
<1>0. /\ wk[p] \in Workers /\ wk[p].attempt \in Nat
      /\ {"loop", "failed", "done", "dead", "checkpoint", "wait", "after", "attempt"} \subseteq PCs
  BY WorkerOf DEF PCs
<1>1. ASSUME NEW v \in Workers, NEW s, Step(p, v, s), v.msgs = wk[p].msgs, v.base = wk[p].base,
             v.woken = wk[p].woken,
             \/ /\ wk[p].pc \in {"start", "loop", "infer", "backoff"}
                /\ v.pc \in {"loop", "checkpoint", "done", "failed", "wait", "after", "attempt", "infer"}
             \/ wk[p].pc = "tools" /\ v.pc = "dead"
             \/ wk[p].pc = "failed" /\ v.pc = "done" /\ NoGood(out[p] \o s)
      PROVE  HistInv' /\ Settled
  <2>1. SameList(wk[p], v) /\ wk[p].pc \notin Asks \cup {"none", "done"}
    BY <1>1 DEF SameList, Asks
  <2>2. v.pc = "failed" \/ wk[p].pc # "failed" \/ (v.pc = "done" /\ NoGood(out[p] \o s))
    BY <1>1
  <2> QED BY <1>1, <2>1, <2>2, SameStepHistory
<1>2. ASSUME NEW pc \in PCs, NEW s, Step(p, [wk[p] EXCEPT !.pc = pc], s),
             \/ /\ wk[p].pc \in {"start", "loop", "infer", "backoff"}
                /\ pc \in {"loop", "checkpoint", "done", "failed", "wait"}
             \/ wk[p].pc = "tools" /\ pc = "dead"
             \/ wk[p].pc = "failed" /\ pc = "done" /\ NoGood(out[p] \o s)
      PROVE  HistInv' /\ Settled
  <2>1. PICK v : v = [wk[p] EXCEPT !.pc = pc]
    OBVIOUS
  <2>2. v \in Workers /\ v.pc = pc /\ v.msgs = wk[p].msgs /\ v.base = wk[p].base /\ v.woken = wk[p].woken
    BY <1>0, <2>1, WorkerPc
  <2> QED BY <1>1, <1>2, <2>1, <2>2
<1>3. CASE WorkerStarts(p)
  <2>1. wk[p].pc = "start" /\ \E s : Step(p, [wk[p] EXCEPT !.pc = "loop"], s)
    BY <1>3 DEF WorkerStarts, At
  <2> QED BY <1>0, <1>2, <2>1
<1>4. CASE WorkerLoops(p)
  <2>1. wk[p].pc = "loop" /\ \E s : \/ Step(p, [wk[p] EXCEPT !.pc = "done"], s)
                                    \/ Step(p, [wk[p] EXCEPT !.pc = "checkpoint"], s)
    BY <1>4 DEF WorkerLoops, At, Finish, Ask
  <2> QED BY <1>0, <1>2, <2>1
<1>5. CASE ProviderFails(p)
  <2>1. wk[p].pc = "infer" /\ \E s : \/ Step(p, [wk[p] EXCEPT !.pc = "wait"], s)
                                     \/ Step(p, [wk[p] EXCEPT !.pc = "failed"], s)
    BY <1>5 DEF ProviderFails, At, Ask
  <2> QED BY <1>0, <1>2, <2>1
<1>6. CASE BackoffAborted(p)
  <2>1. wk[p].pc = "backoff" /\ \E s : Step(p, [wk[p] EXCEPT !.pc = "failed"], s)
    BY <1>6 DEF BackoffAborted, At
  <2> QED BY <1>0, <1>2, <2>1
<1>7. CASE ToolTimesOut(p)
  <2>1. wk[p].pc = "tools" /\ \E s : Step(p, [wk[p] EXCEPT !.pc = "dead"], s)
    BY <1>7 DEF ToolTimesOut, At
  <2> QED BY <1>0, <1>2, <2>1
<1>8. CASE ProviderStreams(p)
  <2>1. PICK b \in BOOLEAN : b /\ wk[p].pc = "infer" /\ Step(p, [wk[p] EXCEPT !.emitted = b], <<Event("text")>>)
    BY <1>8 DEF ProviderStreams, At
  <2>2. PICK v : v = [wk[p] EXCEPT !.emitted = b]
    OBVIOUS
  <2>3. v \in Workers /\ v.pc = wk[p].pc /\ v.msgs = wk[p].msgs /\ v.base = wk[p].base /\ v.woken = wk[p].woken
    BY <1>0, <2>2, WorkerEmitted
  <2> QED BY <1>1, <2>1, <2>2, <2>3
<1>9. CASE ProviderAnswers(p)
  <2>0. PICK r \in {"assistant", "calls"} : Ask(p, [wk[p] EXCEPT !.reply = r], "after", <<>>)
    BY <1>9, Zenon DEF ProviderAnswers
  <2>1. PICK s : Step(p, [[wk[p] EXCEPT !.reply = r] EXCEPT !.pc = "after"], s)
    BY <2>0, Zenon DEF Ask
  <2>2. PICK u : u = [wk[p] EXCEPT !.reply = r]
    OBVIOUS
  <2>3. u \in Workers /\ u.msgs = wk[p].msgs /\ u.base = wk[p].base /\ u.woken = wk[p].woken
    BY <1>0, <2>0, <2>2, WorkerReply
  <2>4. PICK v : v = [u EXCEPT !.pc = "after"]
    OBVIOUS
  <2>5. v \in Workers /\ v.pc = "after" /\ v.msgs = wk[p].msgs /\ v.base = wk[p].base /\ v.woken = wk[p].woken
    BY <1>0, <2>3, <2>4, WorkerPc
  <2>6. wk[p].pc = "infer"
    BY <1>9 DEF ProviderAnswers, At
  <2> QED BY <1>1, <2>1, <2>2, <2>4, <2>5, <2>6
<1>10. CASE BackoffElapses(p)
  <2>1. PICK s : Step(p, [[wk[p] EXCEPT !.attempt = wk[p].attempt + 1] EXCEPT !.pc = "attempt"], s)
    BY <1>10 DEF BackoffElapses, Ask
  <2>n. PICK n \in Nat : n = wk[p].attempt + 1
    BY <1>0
  <2>2. PICK u : u = [wk[p] EXCEPT !.attempt = n]
    OBVIOUS
  <2>3. u \in Workers /\ u.msgs = wk[p].msgs /\ u.base = wk[p].base /\ u.woken = wk[p].woken
    BY <1>0, <2>2, WorkerAttempt
  <2>4. PICK v : v = [u EXCEPT !.pc = "attempt"]
    OBVIOUS
  <2>5. v \in Workers /\ v.pc = "attempt" /\ v.msgs = wk[p].msgs /\ v.base = wk[p].base /\ v.woken = wk[p].woken
    BY <1>0, <2>3, <2>4, WorkerPc
  <2>6. wk[p].pc = "backoff"
    BY <1>10 DEF BackoffElapses, At
  <2>7. Step(p, v, s)
    BY <2>1, <2>n, <2>2, <2>4
  <2> QED BY <1>1, <2>5, <2>6, <2>7
<1>11. CASE WorkerFails(p)
  <2> DEFINE e == Emits(p, Append(<<Event("error")>>, Event("agent_end")))
  <2>1. Step(p, [wk[p] EXCEPT !.pc = "done"], Append(e, Complete(FALSE)))
    BY <1>11 DEF WorkerFails, Finish
  <2>2. wk[p].pc = "failed" /\ Queue(out[p], "failed")
    BY <1>11 DEF WorkerFails, At, IInv, Queues
  <2>3. Plain(e)
    <3>1. "error" \in StreamEvents /\ "agent_end" \in StreamEvents
      BY DEF StreamEvents
    <3>2. Event("agent_end") \in Wires /\ Event("agent_end").type \in {"event", "usage"}
      BY <3>1, WireTypes
    <3> QED BY <3>1, <3>2, EventPlain, PlainAppend, EmitsPlain
  <2> HIDE DEF e
  <2>4. NoGood(out[p] \o Append(e, Complete(FALSE)))
    BY <2>2, <2>3, FailureNoGood
  <2> QED BY <1>0, <1>2, <2>1, <2>2, <2>4
<1> QED BY <1>3, <1>4, <1>5, <1>6, <1>7, <1>8, <1>9, <1>10, <1>11, ProceedsHistory, RecordsHistory,
           RuntimeHistory, ResultsHistory DEF WorkerSteps

(* The tools of a worker leave the lists alone. *)
LEMMA ToolStepsHistory ==
    ASSUME IInv, HistInv, NEW p \in Prompts, NEW t \in ToolIds, ToolSteps(p, t)
    PROVE  HistInv' /\ Settled
<1>0. wk \in [Prompts -> Workers] /\ wk[p] \in Workers /\ wk[p].pc = "tools"
  BY Typed, WorkerOf DEF ToolSteps, AdmitTool, ToolReturns, At
<1>1. ASSUME NEW how, NEW v, v = [wk[p] EXCEPT !.tool[t] = how]
      PROVE  v.msgs = wk[p].msgs /\ v.base = wk[p].base /\ v.pc = wk[p].pc /\ v.woken = wk[p].woken
  BY <1>0, <1>1, SMT DEF Workers
<1>2. \E how \in {"running", "refused", "done", "hung"} : wk' = [wk EXCEPT ![p] = [wk[p] EXCEPT !.tool[t] = how]]
  BY <1>0 DEF ToolSteps, AdmitTool, ToolReturns, Step
<1>3. PICK how : wk' = [wk EXCEPT ![p] = [wk[p] EXCEPT !.tool[t] = how]]
  BY <1>2
<1>4. PICK v : v = [wk[p] EXCEPT !.tool[t] = how]
  OBVIOUS
<1>5. wk'[p] = v /\ \A q \in Prompts \ {p} : wk'[q] = wk[q]
  BY <1>0, <1>3, <1>4
<1>6. \A q \in Prompts : /\ wk'[q].msgs = wk[q].msgs /\ wk'[q].base = wk[q].base /\ wk'[q].pc = wk[q].pc
                         /\ wk'[q].woken = wk[q].woken
  BY <1>1, <1>4, <1>5
<1>7. \A q \in Prompts : SameList(wk[q], wk'[q]) /\ wk'[q].woken = wk[q].woken
  BY <1>6 DEF SameList
<1>8. /\ UNCHANGED <<turn, messages, compaction, store, call, cleared>>
      /\ out' = [out EXCEPT ![p] = @ \o <<>>] \/ out' = out
  BY DEF ToolSteps, AdmitTool, ToolReturns, Step, sessionVars, clientVars
<1>9. out' = out
  <2>1. out \in [Prompts -> Seq(Wires)]
    BY Typed
  <2>2. out[p] \o <<>> = out[p]
    BY <2>1, ConcatEmptySeq
  <2> QED BY <1>8, <2>1, <2>2
<1>10. \A q \in Prompts : Lost(wk[q], out[q]) => Lost(wk'[q], out'[q])
  BY <1>6, <1>9 DEF Lost
<1> QED BY <1>7, <1>8, <1>10, QuietHistory

-----------------------------------------------------------------------------
(* What compaction does to the history. *)

(* No tool result follows the first k messages. *)
Boundary(ms, k) == k < Len(ms) => ms[k + 1].role # "tool_result"

(* The part that may not be cut does not begin with a tool result. *)
Protects(ms, protected) == protected > 1 => ms[Len(ms) - protected + 1].role # "tool_result"

(* What prefix/3 picks ends where no tool result follows. *)
LEMMA PrefixCuts ==
    ASSUME NEW ms \in Histories, NEW keep \in Nat, NEW protected \in Int, Protects(ms, protected),
           NEW prefix, prefix = PrefixOf(ms, keep, protected), prefix # <<>>
    PROVE  prefix \in Histories /\ Boundary(ms, Len(prefix))
<1>0. Len(ms) \in Nat /\ ms \in Seq(Messages)
  BY HistoryIsSeq
<1>1. PICK k \in 0..Len(ms) : /\ prefix = Take(ms, k)
                              /\ \/ k = 0 \/ ms[k + 1].role # "tool_result"
                                 \/ k = Len(ms) - protected /\ protected > 1
  BY PrefixBoundary
<1>2. Take(ms, k) \in Histories /\ Len(Take(ms, k)) = k
  BY TakeType
<1>3. k # 0
  <2>1. prefix \in Seq(Messages) /\ Len(prefix) = k
    BY <1>1, <1>2, HistoryIsSeq
  <2> QED BY <2>1, EmptySeq
<1>4. k < Len(ms) => ms[k + 1].role # "tool_result"
  <2>1. CASE k = Len(ms) - protected /\ protected > 1
    <3>1. k + 1 = Len(ms) - protected + 1
      BY <1>0, <2>1
    <3> QED BY <2>1, <3>1 DEF Protects
  <2> QED BY <1>1, <1>3, <2>1
<1> QED BY <1>1, <1>2, <1>4 DEF Boundary

(* A task that starts has nothing to be adopted, and works up to the boundary it was given. *)
LEMMA StartCuts ==
    ASSUME NEW c, Fits(c), NEW ref \in Nat \ {0}, NEW ms, NEW prefix \in Histories,
           Boundary(ms, Len(prefix)), NEW d, d = StartCompaction(c, ref, prefix)
    PROVE  Fits(d) /\ Replaces(d) /\ Cuts(d, ms)
<1>1. Fits(d) /\ d.task = ref
  BY StartType DEF Fits
<1>2. d.prefix = prefix
  <2>1. ref \in Nat /\ c \in Compactions
    BY DEF Fits
  <2> QED BY <2>1, StartPrefix
<1>3. d.result = Nil
  BY <1>1 DEF Fits
<1> QED BY <1>1, <1>2, <1>3 DEF Replaces, Cuts, Boundary

(* background works up to a boundary of the list. *)
LEMMA BackgroundCuts ==
    ASSUME NEW c, Fits(c), Replaces(c), NEW ref \in Nat \ {0}, NEW ms \in Histories, Cuts(c, ms),
           NEW protected \in Int, Protects(ms, protected), NEW d, d = Background(c, ref, ms, protected)
    PROVE  Replaces(d) /\ Cuts(d, ms)
<1> DEFINE prefix == PrefixOf(ms, KeepRecent, protected)
<1>1. \/ prefix # <<>> /\ d = StartCompaction(c, ref, prefix)
      \/ d = c
  BY Zenon DEF Background
<1>2. prefix # <<>> => prefix \in Histories /\ Boundary(ms, Len(prefix))
  BY PrefixCuts, PolicyAssumption
<1> HIDE DEF prefix
<1>3. CASE prefix # <<>> /\ d = StartCompaction(c, ref, prefix)
  BY <1>2, <1>3, StartCuts
<1> QED BY <1>1, <1>3

(* Nor does it matter who waits for it. *)
LEMMA WaiterCuts ==
    ASSUME NEW c, Fits(c), Replaces(c), NEW ms, Cuts(c, ms), NEW from \in Prompts \cup {Nil},
           NEW phase \in {"manual", "background", "fallback"},
           NEW d, d = [c EXCEPT !.waiter = [from |-> from, phase |-> phase]]
    PROVE  Replaces(d) /\ Cuts(d, ms)
<1>1. PICK w : w = [from |-> from, phase |-> phase]
  OBVIOUS
<1>2. w \in Waiters
  BY <1>1, SMT DEF Waiters
<1>3. d = [c EXCEPT !.waiter = w]
  BY <1>1
<1>4. d.prefix = c.prefix /\ d.task = c.task /\ d.result = c.result
  BY <1>2, <1>3, WithWaiter DEF Fits
<1> QED BY <1>4 DEF Replaces, Cuts

(* block works up to a boundary of the list. *)
LEMMA BlockCuts ==
    ASSUME NEW c, Fits(c), Replaces(c), NEW ref \in Nat \ {0}, NEW ms \in Histories, Cuts(c, ms),
           NEW from \in Prompts, NEW phase, NEW protected \in Int, Protects(ms, protected),
           NEW r, r = Block(c, ref, ms, from, phase, protected)
    PROVE  r.messages = ms /\ Replaces(r.c) /\ Cuts(r.c, ms)
<1> DEFINE prefix == PrefixOf(ms, 0, protected)
           d == StartCompaction(c, ref, prefix)
           a == [c EXCEPT !.waiter = [from |-> from, phase |-> "background"]]
           b == [d EXCEPT !.waiter = [from |-> from, phase |-> "fallback"]]
<1>1. \/ r = [tag |-> "wait", error |-> Nil, messages |-> ms, c |-> a]
      \/ prefix # <<>> /\ r = [tag |-> "wait", error |-> Nil, messages |-> ms, c |-> b]
      \/ r = [tag |-> "error", error |-> "context_limit", c |-> c, messages |-> ms]
  BY Zenon DEF Block
<1>2. prefix # <<>> => prefix \in Histories /\ Boundary(ms, Len(prefix))
  BY PrefixCuts
<1> HIDE DEF prefix
<1>3. prefix # <<>> => Fits(d) /\ Replaces(d) /\ Cuts(d, ms)
  BY <1>2, StartCuts
<1> HIDE DEF d
<1>4. Replaces(a) /\ Cuts(a, ms)
  BY WaiterCuts
<1>5. prefix # <<>> => Replaces(b) /\ Cuts(b, ms)
  BY <1>3, WaiterCuts
<1> HIDE DEF a, b
<1> QED BY <1>1, <1>4, <1>5

(* The active prompt protects itself and what follows it. *)
LEMMA PromptProtects ==
    ASSUME NEW ms \in Histories, NEW i \in Nat, NEW p, PromptAt(ms, i, p)
    PROVE  Protects(ms, Len(ms) - i)
<1>1. Len(ms) - (Len(ms) - i) + 1 = i + 1
  BY HistoryIsSeq
<1>2. ms[i + 1].role # "tool_result"
  BY DEF PromptAt, Msg
<1> QED BY <1>1, <1>2 DEF Protects

(* A checkpoint condenses the list it is given and works up to a boundary of the new one. *)
LEMMA CheckpointCondenses ==
    ASSUME NEW c, Fits(c), Replaces(c), NEW ref \in Nat \ {0}, NEW ms \in Histories, Cuts(c, ms),
           NEW from, NEW phase, NEW protected,
           phase # "manual" =>
              /\ from \in Prompts
              /\ \E i, p : i \in Nat /\ PromptAt(ms, i, p) /\ InFront(c, i) /\ protected = Len(ms) - i,
           NEW r, r = Checkpoint(c, ref, ms, from, phase, protected)
    PROVE  Condensed(ms, r.messages) /\ Replaces(r.c) /\ Cuts(r.c, r.messages)
<1> DEFINE taken == TakeResult(c, ms)
           tc == taken.c
           tm == taken.messages
           next == Background(tc, ref, tm, protected)
           held == Block(tc, ref, tm, from, phase, protected)
<1>1. \/ r = [tag |-> "error", error |-> taken.error, c |-> tc, messages |-> tm]
      \/ r = [tag |-> "continue", error |-> Nil, c |-> tc, messages |-> tm]
      \/ phase # "manual" /\ r = held
      \/ phase # "manual" /\ r = [tag |-> "continue", error |-> Nil, c |-> next, messages |-> tm]
  BY Zenon DEF Checkpoint
<1>2. Fits(tc) /\ tm \in Histories
  BY TakeResultType
<1>3. Condensed(ms, tm) /\ Replaces(tc) /\ Cuts(tc, tm)
  BY TakeCondenses
<1>4. ASSUME phase # "manual"
      PROVE  /\ Replaces(next) /\ Cuts(next, tm)
             /\ held.messages = tm /\ Replaces(held.c) /\ Cuts(held.c, tm)
  <2>1. PICK i, p : i \in Nat /\ PromptAt(ms, i, p) /\ InFront(c, i) /\ protected = Len(ms) - i
    BY <1>4
  <2>2. PICK k : k = i + Len(tm) - Len(ms)
    OBVIOUS
  <2>3. k \in Nat /\ PromptAt(tm, k, p) /\ Len(tm) - k = protected
    BY <2>1, <2>2, TakeFront
  <2> HIDE DEF taken, tc, tm
  <2>4. Protects(tm, protected)
    BY <1>2, <2>3, PromptProtects
  <2>5. protected \in Int
    BY <2>1, HistoryIsSeq
  <2>6. Replaces(next) /\ Cuts(next, tm)
    BY <1>2, <1>3, <2>4, <2>5, BackgroundCuts
  <2>7. held.messages = tm /\ Replaces(held.c) /\ Cuts(held.c, tm)
    BY <1>2, <1>3, <1>4, <2>4, <2>5, BlockCuts
  <2> QED BY <2>6, <2>7
<1> HIDE DEF taken, tc, tm, next, held
<1>5. r.messages = tm /\ Replaces(r.c) /\ Cuts(r.c, tm)
  BY <1>1, <1>3, <1>4
<1> QED BY <1>3, <1>5

(* A worker's list that goes on from the history is cut where the history is, or in front of the
   prompt. *)
LEMMA CutsAhead ==
    ASSUME NEW c, Fits(c), NEW ms \in Histories, NEW new \in Histories, IsPrefix(ms, new), Cuts(c, ms),
           NEW i \in Nat, NEW p, PromptAt(new, i, p), InFront(c, i), i <= Len(ms)
    PROVE  Cuts(c, new)
<1> SUFFICES ASSUME c.task # 0 \/ (c.result # Nil /\ c.result.ok), Len(c.prefix) < Len(new)
             PROVE  new[Len(c.prefix) + 1].role # "tool_result"
  BY DEF Cuts
<1>0. /\ Len(ms) \in Nat /\ Len(new) \in Nat /\ ms \in Seq(Messages) /\ new \in Seq(Messages)
      /\ c.prefix \in Histories /\ Len(c.prefix) \in Nat
  BY HistoryIsSeq DEF Fits
<1>1. PICK k \in Nat : k = Len(c.prefix)
  BY <1>0
<1>2. k <= i
  BY <1>1 DEF InFront
<1>3. CASE k < Len(ms)
  <2>1. ms[k + 1].role # "tool_result"
    BY <1>1, <1>3 DEF Cuts
  <2>2. k + 1 \in 1..Len(ms)
    BY <1>0, <1>3
  <2>3. new[k + 1] = ms[k + 1]
    BY <1>0, <2>2, PrefixByPlaces
  <2> QED BY <1>1, <2>1, <2>3
<1>4. CASE ~(k < Len(ms))
  <2>1. k = i
    BY <1>0, <1>2, <1>4
  <2> QED BY <1>1, <2>1 DEF PromptAt, Msg
<1> QED BY <1>3, <1>4

-----------------------------------------------------------------------------
(* Turns begin and are aborted. *)

(* The lists a new worker has. *)
LEMMA WorkerLists ==
    ASSUME NEW p \in Prompts, NEW kind \in {"run", "stream"}, NEW ref \in Nat, messages \in Histories,
           NEW w, w = Worker(p, kind, ref)
    PROVE  /\ w \in Workers /\ w.pc = "start" /\ w.base = Append(messages, Msg(p, 1, "user"))
           /\ w.msgs = w.base /\ ~w.woken
<1>1. w \in Workers /\ w.pc = "start"
  BY WorkerType
<1>2. ASSUME NEW ms, NEW v, v = [Idle EXCEPT !.pc = "start", !.kind = kind, !.ref = ref, !.base = ms, !.msgs = ms]
      PROVE  v.base = ms /\ v.msgs = ms /\ v.woken = FALSE
  BY <1>2, SMT DEF Idle
<1>3. PICK ms : ms = Append(messages, Msg(p, 1, "user"))
  OBVIOUS
<1>4. w = [Idle EXCEPT !.pc = "start", !.kind = kind, !.ref = ref, !.base = ms, !.msgs = ms]
  BY <1>3, Zenon DEF Worker
<1>5. w.base = ms /\ w.msgs = ms /\ w.woken = FALSE
  BY <1>2, <1>4
<1> QED BY <1>1, <1>3, <1>5

(* A turn begins with the history and its prompt. *)
LEMMA BeginHistory ==
    ASSUME IInv, HistInv, NEW p \in Prompts, NEW kind \in {"run", "stream"}, BeginTurn(p, kind), ~Busy,
           call[p] \in {"idle", "subscribed"},
           UNCHANGED <<messages, compaction, store, out, cleared>>
    PROVE  HistInv' /\ Settled
<1>0. /\ turn \in Turns /\ wk \in [Prompts -> Workers] /\ lastRef + 1 \in Nat /\ messages \in Histories
      /\ Len(messages) \in Nat /\ call \in [Prompts -> Answers]
  BY Typed, HistoryIsSeq
<1>1. turn'.streaming /\ turn'.recipient = p
  <2>1. PICK i \in Int : i = Len(messages)
    BY <1>0
  <2>2. PICK ref \in Nat : ref = lastRef + 1
    BY <1>0
  <2>3. PICK d : d = turn'
    OBVIOUS
  <2>4. d = StartTurn(turn, ref, p, i)
    BY <2>1, <2>2, <2>3 DEF BeginTurn
  <2>5. d.streaming /\ d.recipient = p
    BY <1>0, <2>1, <2>2, <2>4, StartTurnType
  <2> QED BY <2>3, <2>5
<1>2. compaction.waiter = Nil /\ wk[p].pc = "none"
  BY DEF Busy, IInv, Calls, Refs
<1>3. PICK w : w = Worker(p, kind, lastRef + 1)
  OBVIOUS
<1>4. /\ w \in Workers /\ w.pc = "start" /\ w.base = Append(messages, Msg(p, 1, "user"))
      /\ w.msgs = w.base /\ ~w.woken
  BY <1>0, <1>3, WorkerLists
<1>5. wk'[p] = w /\ \A q \in Prompts \ {p} : wk'[q] = wk[q]
  BY <1>0, <1>3 DEF BeginTurn
<1>6. call'[p] = "waiting" /\ \A q \in Prompts \ {p} : call'[q] = call[q]
  BY <1>0 DEF BeginTurn
<1>7. /\ Own(w, p) /\ Intact(w.base) /\ BatchesWhole(w.base, Tools)
      /\ Grown(Expand(messages), Expand(w.base), p) /\ IsPrefix(messages, w.base)
  <2>1. \A i \in 1..Len(Expand(messages)) : Expand(messages)[i].turn # p
    BY <1>2 DEF HistInv, Stands, Known
  <2>2. Intact(messages) /\ BatchesWhole(messages, Tools)
    BY DEF HistInv, Stands
  <2> QED BY <1>0, <1>4, <2>1, <2>2, BeginOwn
<1>8. Stands' /\ Kept' /\ Settled
  <2>0. w.msgs \in Histories
    <3>1. w \in Workers
      BY <1>4
    <3> QED BY <3>1, SMT DEF Workers
  <2>a. \A q \in Prompts : wk[q].msgs \in Histories
    BY WorkerOf
  <2>1. /\ \A q \in Prompts : wk[q].pc # "none" => wk'[q].pc # "none"
        /\ \A q \in Prompts : call[q] = "ok" => wk'[q].msgs = wk[q].msgs
        /\ \A q \in Prompts : wk'[q].msgs \in Histories
        /\ \A q \in Prompts : call'[q] = "ok" => call[q] = "ok"
    BY <1>4, <1>5, <1>6, <2>0, <2>a
  <2> QED BY <2>1, UnmovedStands
<1>9. Lists'
  <2>1. OwnList(w, p)
    BY <1>4, <1>7 DEF OwnList
  <2> QED BY <1>5, <2>1 DEF HistInv, Lists
<1>10. Ahead'
  BY <1>1, <1>2, <1>4, <1>5, <1>7 DEF Ahead, AheadOf
<1>11. Work'
  BY DEF HistInv, Work
<1>12. Retired'
  <2>1. p \notin cleared
    BY <1>2 DEF HistInv, Retired
  <2>2. ASSUME NEW q \in Prompts, q # p, wk'[q].woken \/ q \in cleared' \/ call'[q] = "ok"
        PROVE  turn'.recipient # q /\ wk'[q].pc # "none"
    BY <1>1, <1>5, <1>6, <2>2 DEF HistInv, Retired
  <2>3. ~(wk'[p].woken \/ p \in cleared' \/ call'[p] = "ok")
    BY <1>4, <1>5, <1>6, <2>1
  <2>4. \A q \in Prompts : call'[q] = "ok" => wk'[q].pc = "done"
    BY <1>5, <1>6 DEF HistInv, Retired
  <2> QED BY <2>2, <2>3, <2>4 DEF Retired
<1> QED BY <1>8, <1>9, <1>10, <1>11, <1>12 DEF HistInv

(* An abort leaves a worker its lists. *)
LEMMA AbortedLists ==
    ASSUME IInv, NEW p \in Prompts, NEW w,
           w = [wk[p] EXCEPT !.woken = @ \/ p = turn.worker,
                             !.pc = IF HeldAtCheckpoint(p) THEN "failed" ELSE @]
    PROVE  SameList(wk[p], w) /\ (w.woken => wk[p].woken \/ p = turn.recipient)
<1>0. wk[p] \in Workers /\ turn.worker = turn.recipient
  BY WorkerOf, Typed
<1>1. PICK b \in BOOLEAN : b = (wk[p].woken \/ p = turn.worker)
  OBVIOUS
<1>2. PICK pc : pc = IF HeldAtCheckpoint(p) THEN "failed" ELSE wk[p].pc
  OBVIOUS
<1>3. w = [[wk[p] EXCEPT !.woken = b] EXCEPT !.pc = pc]
  <2> DEFINE v == [wk[p] EXCEPT !.woken = wk[p].woken \/ p = turn.worker]
  <2>1. w = [v EXCEPT !.pc = IF HeldAtCheckpoint(p) THEN "failed" ELSE v.pc]
    OBVIOUS
  <2>2. v = [wk[p] EXCEPT !.woken = b]
    BY <1>1, Zenon
  <2>3. v.pc = wk[p].pc
    BY <1>0, <1>1, <2>2, SMT DEF Workers
  <2> HIDE DEF v
  <2> QED BY <1>2, <2>1, <2>2, <2>3
<1>4. "failed" \in PCs
  BY DEF PCs
<1>5. pc \in PCs
  BY <1>2, <1>4, WorkerOf
<1>6. w.msgs = wk[p].msgs /\ w.base = wk[p].base /\ w.woken = b /\ w.pc = pc
  <2>1. PICK u \in Workers : u = wk[p]
    BY <1>0
  <2>2. PICK d : d = [[u EXCEPT !.woken = b] EXCEPT !.pc = pc]
    OBVIOUS
  <2>3. d.msgs = u.msgs /\ d.base = u.base /\ d.woken = b /\ d.pc = pc
    BY <1>5, <2>2, SMT DEF Workers
  <2>4. w = d
    BY <1>3, <2>1, <2>2, Zenon
  <2> QED BY <2>1, <2>3, <2>4, Zenon
<1>7. HeldAtCheckpoint(p) => wk[p].pc = "checkpoint"
  BY DEF HeldAtCheckpoint, IInv, Waiting
<1>8. SameList(wk[p], w)
  BY <1>2, <1>6, <1>7 DEF SameList
<1>9. w.woken => wk[p].woken \/ p = turn.recipient
  BY <1>0, <1>1, <1>6
<1> QED BY <1>8, <1>9

(* abort_turn leaves every worker its list, and nobody the recipient. *)
LEMMA AbortLeaves ==
    ASSUME IInv, HistInv, NEW heard, NEW c, AbortTurn(heard, c),
           cleared' \subseteq cleared \cup {p \in Prompts : wk[p].pc # "none"}
    PROVE  /\ Lists' /\ Ahead' /\ Retired'
           /\ \A p \in Prompts : SameList(wk[p], wk'[p])
           /\ \A p \in Prompts : call'[p] = "ok" => call[p] = "ok"
<1>0. turn \in Turns /\ lastRef + 1 \in Nat /\ turn.recipient \in Prompts \cup {Nil} /\ Nil \notin Prompts
  BY Typed
<1>1. ~turn'.streaming /\ turn'.recipient = Nil
  <2>1. turn' = AbandonTurn(turn, lastRef + 1)
    BY DEF AbortTurn
  <2> QED BY <1>0, <2>1, AbandonTurnType
<1>2. ASSUME NEW p \in Prompts
      PROVE  SameList(wk[p], wk'[p]) /\ (wk'[p].woken => wk[p].woken \/ p = turn.recipient)
  <2>1. wk'[p] = [wk[p] EXCEPT !.woken = @ \/ p = turn.worker,
                               !.pc = IF HeldAtCheckpoint(p) THEN "failed" ELSE @]
    BY DEF AbortTurn
  <2> QED BY <2>1, AbortedLists
<1>3. \A p \in Prompts : call'[p] = "ok" => call[p] = "ok"
  BY DEF AbortTurn, AbortAnswer
<1>4. Lists'
  <2>1. ASSUME NEW p \in Prompts, wk'[p].pc # "none" PROVE OwnList(wk'[p], p)
    <3>1. SameList(wk[p], wk'[p])
      BY <1>2
    <3>2. OwnList(wk[p], p)
      BY <2>1, <3>1 DEF HistInv, Lists, SameList
    <3> QED BY <3>1, <3>2, OwnListSame
  <2> QED BY <2>1 DEF Lists
<1>5. Ahead'
  BY <1>1 DEF Ahead
<1>6. Retired'
  <2>1. ASSUME NEW p \in Prompts, wk'[p].woken \/ p \in cleared' \/ call'[p] = "ok"
        PROVE  wk[p].pc # "none"
    <3>1. turn.recipient = p => wk[p].pc # "none"
      BY DEF IInv, Owners, Refs
    <3> QED BY <1>2, <1>3, <2>1, <3>1 DEF HistInv, Retired
  <2>2. ASSUME NEW p \in Prompts
        PROVE  /\ wk[p].pc # "none" => wk'[p].pc # "none"
               /\ wk[p].pc = "done" => wk'[p].pc = "done"
    BY <1>2 DEF SameList
  <2>3. ASSUME NEW p \in Prompts, call'[p] = "ok" PROVE wk[p].pc = "done"
    BY <1>3, <2>3 DEF HistInv, Retired
  <2> QED BY <1>0, <1>1, <2>1, <2>2, <2>3 DEF Retired
<1> QED BY <1>2, <1>3, <1>4, <1>5, <1>6

(* An abort leaves the history as it is. *)
LEMMA AbortHistory ==
    ASSUME IInv, HistInv, NEW heard, AbortTurn(heard, compaction), UNCHANGED <<messages, store, cleared>>
    PROVE  HistInv' /\ Settled
<1>1. /\ Lists' /\ Ahead' /\ Retired'
      /\ \A p \in Prompts : SameList(wk[p], wk'[p])
      /\ \A p \in Prompts : call'[p] = "ok" => call[p] = "ok"
  BY AbortLeaves
<1>2. Stands' /\ Kept' /\ Settled
  <2>1. \A p \in Prompts : wk[p].msgs \in Histories
    BY WorkerOf
  <2>2. \A p \in Prompts : (wk[p].pc # "none" => wk'[p].pc # "none") /\ wk'[p].msgs = wk[p].msgs
    BY <1>1 DEF SameList
  <2> QED BY <1>1, <2>1, <2>2, UnmovedStands
<1>3. Work'
  <2>1. PICK c : c = [compaction EXCEPT !.waiter = Nil] /\ compaction' = c
    BY DEF AbortTurn
  <2>2. c.task = compaction.task /\ c.result = compaction.result /\ c.prefix = compaction.prefix
    BY <2>1, Typed, WithWaiter
  <2> QED BY <2>1, <2>2 DEF HistInv, Work, Replaces, Cuts
<1> QED BY <1>1, <1>2, <1>3 DEF HistInv

(* clear forgets the history and remembers the turns that began before it. *)
LEMMA ClearHistory ==
    ASSUME IInv, HistInv, Clear
    PROVE  HistInv' /\ Settled
<1> DEFINE c0 == CancelCompaction(compaction)
           c1 == [c0 EXCEPT !.attempted = Nil]
           c2 == [c1 EXCEPT !.usage = Nil]
<1>1. /\ AbortTurn(NothingHeard, c2) /\ messages' = <<>> /\ ClearSnapshot
      /\ cleared' = {p \in Prompts : wk[p].pc # "none"}
  BY DEF Clear
<1>2. c0 \in Compactions /\ c0.task = 0 /\ c0.result = Nil
  BY Typed, CancelType DEF Fits
<1> HIDE DEF c0
<1>3. c1 \in Compactions /\ c1.task = 0 /\ c1.result = Nil
  BY <1>2, WithAttempted
<1> HIDE DEF c1
<1>4. c2 \in Compactions /\ c2.task = 0 /\ c2.result = Nil
  BY <1>3, WithUsage
<1> HIDE DEF c2
<1>5. /\ Lists' /\ Ahead' /\ Retired'
      /\ \A p \in Prompts : call'[p] = "ok" => call[p] = "ok"
  BY <1>1, AbortLeaves
<1>6. Work'
  <2>1. PICK d : d = [c2 EXCEPT !.waiter = Nil] /\ compaction' = d
    BY <1>1 DEF AbortTurn
  <2>2. d.task = 0 /\ d.result = Nil
    BY <1>4, <2>1, WithWaiter
  <2> QED BY <2>1, <2>2 DEF Work, Replaces, Cuts
<1>7. Stands'
  <2>1. PICK ms : ms = <<>>
    OBVIOUS
  <2>2. Expand(ms) = <<>> /\ Len(ms) = 0 /\ 1..0 = {}
    BY <2>1 DEF Expand
  <2>3. Intact(ms) /\ BatchesWhole(ms, Tools) /\ Len(Expand(ms)) = 0
    BY <2>1, <2>2 DEF Intact, BatchesWhole
  <2>4. \/ store'.snapshot = Nil
        \/ store'.snapshot = store.snapshot /\ "clear" \in store'.failed
    <3>1. PICK h, d, f : store = [snapshot |-> h, due |-> d, failed |-> f]
      BY Typed, SMT DEF Stores
    <3>2. PICK st : st = store'
      OBVIOUS
    <3>3. \/ st = [snapshot |-> Nil, due |-> d, failed |-> {}]
          \/ st = [snapshot |-> h, due |-> d, failed |-> f \cup {"clear"}]
      BY <1>1, <3>1, <3>2 DEF ClearSnapshot
    <3>4. st.snapshot = Nil \/ (st.snapshot = h /\ st.failed = f \cup {"clear"})
      BY <3>3
    <3>5. "clear" \in f \cup {"clear"}
      OBVIOUS
    <3> QED BY <3>1, <3>2, <3>4, <3>5
  <2> QED BY <1>1, <2>1, <2>2, <2>3, <2>4 DEF HistInv, Stands
<1>8. Kept'
  <2>1. \A p \in Prompts : call'[p] = "ok" => p \in cleared'
    BY <1>1, <1>5 DEF HistInv, Retired
  <2> QED BY <2>1 DEF Kept
<1> QED BY <1>1, <1>5, <1>6, <1>7, <1>8 DEF HistInv, Settled

-----------------------------------------------------------------------------
(* Steps of clients and answers to workers that move no list. *)

(* A step that leaves the workers alone. *)
LEMMA StillHistory ==
    ASSUME IInv, HistInv, UNCHANGED <<messages, store, cleared, wk>>,
           compaction'.task = compaction.task, compaction'.result = compaction.result,
           compaction'.prefix = compaction.prefix, compaction'.waiter = compaction.waiter,
           turn'.streaming = turn.streaming, turn'.recipient = turn.recipient,
           \A p \in Prompts : Lost(wk[p], out[p]) => Lost(wk[p], out'[p]),
           \A p \in Prompts : call'[p] = "ok" => call[p] = "ok"
    PROVE  HistInv' /\ Settled
<1>1. \A p \in Prompts : SameList(wk[p], wk'[p]) /\ wk'[p].woken = wk[p].woken
  BY DEF SameList
<1>2. \A p \in Prompts : Lost(wk[p], out[p]) => Lost(wk'[p], out'[p])
  OBVIOUS
<1> QED BY <1>1, <1>2, QuietHistory

(* What clients do moves no list but the one that begins. *)
LEMMA ClientHistory ==
    ASSUME IInv, HistInv, NEW p \in Prompts,
           Run(p) \/ RunTimeout(p) \/ Subscribe(p) \/ Stream(p) \/ Unsubscribe(p) \/ SubscriberDown(p)
    PROVE  HistInv' /\ Settled
<1>0. turn \in Turns /\ call \in [Prompts -> Answers]
  BY Typed
<1>1. UNCHANGED <<messages, compaction, store, out, cleared>>
  BY DEF Run, RunTimeout, Subscribe, Stream, Unsubscribe, SubscriberDown, sessionVars, workerVars
<1>2. ASSUME turn'.streaming = turn.streaming, turn'.recipient = turn.recipient, wk' = wk,
             call' = call \/ \E a \in {"gone", "busy", "subscribed"} : call' = [call EXCEPT ![p] = a]
      PROVE  HistInv' /\ Settled
  <2>1. \A q \in Prompts : call'[q] = "ok" => call[q] = "ok"
    BY <1>0, <1>2
  <2>2. \A q \in Prompts : Lost(wk[q], out[q]) => Lost(wk[q], out'[q])
    BY <1>1
  <2> QED BY <1>1, <1>2, <2>1, <2>2, StillHistory
<1>3. CASE Subscribe(p) \/ Unsubscribe(p) \/ SubscriberDown(p)
  <2>1. wk' = wk /\ (turn' = Subscribed(turn, p) \/ turn' = Unsubscribed(turn, p))
    BY <1>3 DEF Subscribe, Unsubscribe, SubscriberDown, workerVars
  <2>2. call' = call \/ \E a \in {"gone", "busy", "subscribed"} : call' = [call EXCEPT ![p] = a]
    BY <1>3 DEF Subscribe, Unsubscribe, SubscriberDown
  <2> QED BY <1>0, <1>2, <2>1, <2>2, SubscribersType
<1>4. CASE RunTimeout(p)
  BY <1>2, <1>4 DEF RunTimeout, sessionVars, workerVars
<1>5. CASE Run(p) \/ Stream(p)
  <2>1. CASE Busy
    BY <1>2, <1>5, <2>1 DEF Run, Stream
  <2>2. CASE ~Busy
    <3>1. (BeginTurn(p, "run") \/ BeginTurn(p, "stream")) /\ call[p] \in {"idle", "subscribed"}
      BY <1>5, <2>2 DEF Run, Stream
    <3> QED BY <1>1, <2>2, <3>1, BeginHistory
  <2> QED BY <2>1, <2>2
<1> QED BY <1>3, <1>4, <1>5

(* steer, follow_up, the timer, and nothing at all. *)
LEMMA IdleHistory ==
    ASSUME IInv, HistInv, Steer \/ TimerFires \/ UNCHANGED vars
    PROVE  HistInv' /\ Settled
<1>1. UNCHANGED <<messages, compaction, store, wk, out, call, cleared>>
  BY DEF Steer, TimerFires, vars, sessionVars, workerVars, clientVars
<1>2. turn'.streaming = turn.streaming /\ turn'.recipient = turn.recipient
  <2>1. CASE Steer
    <3>1. turn' = Steered(turn, controls) \/ turn' = FollowedUp(turn, controls)
      BY <2>1 DEF Steer
    <3>2. turn \in Turns /\ controls \in Nat
      BY Typed
    <3> QED BY <3>1, <3>2, SteeredType
  <2>2. CASE TimerFires \/ UNCHANGED vars
    BY <2>2 DEF TimerFires, vars, sessionVars
  <2> QED BY <2>1, <2>2
<1>3. \A q \in Prompts : Lost(wk[q], out[q]) => Lost(wk[q], out'[q])
  BY <1>1
<1>4. \A q \in Prompts : call'[q] = "ok" => call[q] = "ok"
  BY <1>1
<1> QED BY <1>1, <1>2, <1>3, <1>4, StillHistory

(* A worker is answered and its list stays. *)
LEMMA MovedHistory ==
    ASSUME IInv, HistInv, NEW p \in Prompts, NEW pc \in {"checkpointed", "infer", "backoff", "answered", "failed"},
           out[p] # <<>>, Pop(p), wk[p].pc \in Asks,
           wk' = [wk EXCEPT ![p].pc = pc], UNCHANGED <<sessionVars, call, cleared>>
    PROVE  HistInv' /\ Settled
<1>0. wk \in [Prompts -> Workers] /\ wk[p] \in Workers
  BY Typed, WorkerOf
<1>1. PICK w \in Workers : w = wk[p]
  BY <1>0
<1>2. PICK v : v = [w EXCEPT !.pc = pc] /\ v = wk'[p]
  BY <1>0, <1>1
<1>3. v.msgs = w.msgs /\ v.base = w.base /\ v.woken = w.woken /\ v.pc = pc
  BY <1>2, SMT DEF Workers
<1>4. \A q \in Prompts \ {p} : wk'[q] = wk[q]
  BY <1>0
<1>5. \A q \in Prompts : SameList(wk[q], wk'[q]) /\ wk'[q].woken = wk[q].woken
  <2>1. SameList(w, v)
    BY <1>1, <1>3 DEF SameList, Asks
  <2>2. \A q \in Prompts \ {p} : SameList(wk[q], wk'[q])
    BY <1>4 DEF SameList
  <2> QED BY <1>1, <1>2, <1>3, <1>4, <2>1, <2>2
<1>6. ~Lost(wk[p], out[p])
  BY DEF Lost, Asks
<1>7. \A q \in Prompts : Lost(wk[q], out[q]) => Lost(wk'[q], out'[q])
  BY <1>4, <1>6, PoppedLost
<1>8. UNCHANGED <<turn, messages, compaction, store>>
  BY DEF sessionVars
<1> QED BY <1>5, <1>7, <1>8, QuietHistory

(* check_turn and the usage report. *)
LEMMA HandleCheckHistory ==
    ASSUME IInv, HistInv, NEW p \in Prompts, HandleCheck(p) \/ HandleUsage(p)
    PROVE  HistInv' /\ Settled
<1>1. CASE HandleCheck(p)
  <2>1. out[p] # <<>> /\ Pop(p) /\ Head(out[p]).type = "call" /\ UNCHANGED <<sessionVars, call, cleared>>
    BY <1>1 DEF HandleCheck, HeadIs, clientVars
  <2>2. wk[p].pc \in Asks
    BY <2>1, Popped
  <2>3. PICK pc : pc = IF Current(turn, wk[p].ref) THEN Granted(wk[p].pc) ELSE "failed"
    OBVIOUS
  <2>4. wk' = [wk EXCEPT ![p].pc = pc]
    BY <1>1, <2>3 DEF HandleCheck
  <2>5. pc \in {"checkpointed", "infer", "backoff", "answered", "failed"}
    BY <2>2, <2>3 DEF Granted, Asks
  <2> QED BY <2>1, <2>2, <2>4, <2>5, MovedHistory
<1>2. CASE HandleUsage(p)
  <2> DEFINE u == Head(out[p]).arg
  <2>1. /\ out[p] # <<>> /\ Pop(p) /\ Head(out[p]).type = "usage"
        /\ UNCHANGED <<turn, messages, store, wk, call, cleared>>
        /\ compaction' = compaction \/ compaction' = [compaction EXCEPT !.usage = u]
    BY <1>2 DEF HandleUsage, HeadIs, clientVars
  <2>2. u \in Usages /\ compaction \in Compactions
    BY <2>1, Popped, WireArgs, Typed
  <2> HIDE DEF u
  <2>3. /\ compaction'.task = compaction.task /\ compaction'.result = compaction.result
        /\ compaction'.prefix = compaction.prefix /\ compaction'.waiter = compaction.waiter
    BY <2>1, <2>2, WithUsage
  <2>4. \A q \in Prompts : Lost(wk[q], out[q]) => Lost(wk[q], out'[q])
    BY <2>1, PoppedLost
  <2>5. \A q \in Prompts : call'[q] = "ok" => call[q] = "ok"
    BY <2>1
  <2> QED BY <2>1, <2>3, <2>4, <2>5, StillHistory
<1> QED BY <1>1, <1>2

(* broadcast_event: dropped, passed on, or the end of the turn. *)
LEMMA HandleEventHistory ==
    ASSUME IInv, HistInv, NEW p \in Prompts, HandleEvent(p)
    PROVE  HistInv' /\ Settled
<1>0. out[p] # <<>> /\ Pop(p) /\ UNCHANGED <<messages, store, cleared>>
  BY DEF HandleEvent, HeadIs
<1>1. CASE UNCHANGED <<turn, compaction, wk, call>>
  <2>1. \A q \in Prompts : Lost(wk[q], out[q]) => Lost(wk[q], out'[q])
    BY <1>0, PoppedLost
  <2>2. \A q \in Prompts : call'[q] = "ok" => call[q] = "ok"
    BY <1>1
  <2> QED BY <1>0, <1>1, <2>1, <2>2, StillHistory
<1>2. ASSUME NEW heard, AbortTurn(heard, compaction)
      PROVE  HistInv' /\ Settled
  BY <1>0, <1>2, AbortHistory
<1> QED BY <1>1, <1>2 DEF HandleEvent, clientVars

-----------------------------------------------------------------------------
(* Compaction replaces the front of the history. *)

(* The workers' lists are what they were. *)
LEMMA SameLists ==
    ASSUME HistInv, UNCHANGED <<wk, call, cleared>>, turn'.recipient = turn.recipient
    PROVE  Lists' /\ Retired'
BY DEF HistInv, Lists, Retired

(* A history that is condensed, and what compaction does next. *)
LEMMA CondenseHistory ==
    ASSUME IInv, HistInv, NEW ms, Settles(ms), Condensed(ms, messages'), Policy => IsPrefix(messages, ms),
           Recorded, cleared' = cleared,
           Replaces(compaction'), Cuts(compaction', messages'),
           \A p \in Prompts : wk[p].pc # "none" => wk'[p].pc # "none",
           \A p \in Prompts : call[p] = "ok" => wk'[p].msgs = wk[p].msgs,
           \A p \in Prompts : wk'[p].msgs \in Histories,
           \A p \in Prompts : call'[p] = "ok" =>
              call[p] = "ok" \/ (Expand(ms) = Expand(wk'[p].msgs) /\ store'.due)
    PROVE  Stands' /\ Kept' /\ Work' /\ Settled
<1>1. Stands' /\ Kept'
  BY SettledKeeps
<1>2. Settled
  BY DEF Settled, Follows
<1>3. Work'
  BY DEF Work, Replaces, Cuts
<1> QED BY <1>1, <1>2, <1>3

(* Without background compaction there is no task and nothing to adopt. *)
LEMMA NoTask ==
    ASSUME PromptInv, ~Policy, NEW ms
    PROVE  Replaces(compaction) /\ Cuts(compaction, ms)
BY DEF PromptInv, InFront, Replaces, Cuts

(* The save at the end of a completion's handler, whether it goes through or not. *)
LEMMA PersistHistory ==
    ASSUME IInv, HistInv, Persist
    PROVE  HistInv' /\ Settled
<1>1. /\ UNCHANGED <<turn, messages, compaction, wk, out, call, cleared>> /\ SaveSnapshot(messages')
      /\ \A p \in Prompts : wk[p].msgs \in Histories
  BY WorkerOf DEF Persist, workerVars, clientVars
<1>2. Recorded
  BY <1>1, Typed, StoreRecorded
<1>3. Settles(messages) /\ IsPrefix(messages, messages) /\ Condensed(messages, messages')
  BY <1>1, SelfSettles DEF Condensed
<1>4. Replaces(compaction') /\ Cuts(compaction', messages')
  BY <1>1 DEF HistInv, Work
<1>5. Stands' /\ Kept' /\ Work' /\ Settled
  BY <1>1, <1>2, <1>3, <1>4, CondenseHistory
<1>6. Lists' /\ Retired'
  BY <1>1, SameLists
<1>7. Ahead'
  BY <1>1 DEF HistInv, Ahead, AheadOf
<1> QED BY <1>5, <1>6, <1>7 DEF HistInv

(* compact, in place or as a task of its own. *)
LEMMA CompactHistory ==
    ASSUME IInv, PromptInv, HistInv, Compact
    PROVE  HistInv' /\ Settled
<1>0. /\ messages \in Histories /\ lastRef + 1 \in Nat \ {0} /\ Len(messages) \in Nat
      /\ Fits(compaction) /\ compaction \in Compactions /\ UNCHANGED <<turn, wk, out, call, cleared>>
      /\ \A p \in Prompts : wk[p].msgs \in Histories
  BY Typed, WorkerOf, HistoryIsSeq DEF IInv, Compact, workerVars, clientVars
<1>l. Lists' /\ Retired'
  BY <1>0, SameLists
<1>1. CASE ~Policy
  <2>1. messages' \in Applied(messages) /\ compaction' = compaction /\ Recorded
    <3>1. messages' \in Applied(messages) /\ compaction' = compaction /\ SaveSnapshot(messages')
      BY <1>1 DEF Compact, MaybeCompact
    <3> QED BY <3>1, Typed, StoreRecorded
  <2>2. PICK new : new = messages'
    OBVIOUS
  <2>3. Condensed(messages, new) /\ Expand(new) = Expand(messages)
    <3>1. Condensed(messages, new)
      BY <1>0, <2>1, <2>2, AppliedCondenses
    <3> QED BY <1>0, <3>1, CondensedSays
  <2>4. Settles(messages)
    BY SelfSettles
  <2>5. Stands' /\ Kept' /\ Work' /\ Settled
    <3>1. Replaces(compaction') /\ Cuts(compaction', messages')
      BY <1>1, <2>1, NoTask
    <3> QED BY <1>0, <1>1, <2>1, <2>2, <2>3, <2>4, <3>1, CondenseHistory
  <2>6. Ahead'
    <3> SUFFICES ASSUME turn.streaming PROVE AheadOf(turn.recipient)'
      BY <1>0 DEF Ahead
    <3>1. AheadOf(turn.recipient)
      BY DEF HistInv, Ahead
    <3> QED BY <1>0, <1>1, <2>1, <2>2, <2>3, <3>1 DEF AheadOf
  <2> QED BY <1>l, <2>5, <2>6 DEF HistInv
<1>2. CASE Policy /\ Busy
  <2>1. UNCHANGED <<messages, compaction, store>>
    BY <1>2 DEF Compact
  <2>2. /\ \A q \in Prompts : Lost(wk[q], out[q]) => Lost(wk[q], out'[q])
        /\ \A q \in Prompts : call'[q] = "ok" => call[q] = "ok"
    BY <1>0
  <2> QED BY <1>0, <2>1, <2>2, StillHistory
<1>3. CASE Policy /\ ~Busy
  <2> DEFINE ref == lastRef + 1
             d == StartCompaction(compaction, ref, messages)
  <2>1. /\ compaction' = [d EXCEPT !.waiter = [from |-> Nil, phase |-> "manual"]]
        /\ UNCHANGED <<messages, store>> /\ ~turn.streaming
    BY <1>3 DEF Compact, Busy
  <2> HIDE DEF ref
  <2>2. Boundary(messages, Len(messages))
    BY <1>0 DEF Boundary
  <2>3. Fits(d) /\ Replaces(d) /\ Cuts(d, messages)
    BY <1>0, <2>2, StartCuts DEF ref
  <2> HIDE DEF d
  <2>4. Replaces(compaction') /\ Cuts(compaction', messages)
    BY <2>1, <2>3, WaiterCuts
  <2>5. Work'
    BY <2>1, <2>4 DEF Work, Replaces, Cuts
  <2>6. Stands' /\ Kept' /\ Settled
    BY <1>0, <2>1, UnmovedStands
  <2>7. Ahead'
    BY <1>0, <2>1 DEF Ahead
  <2> QED BY <1>l, <2>5, <2>6, <2>7 DEF HistInv
<1> QED BY <1>1, <1>2, <1>3

(* What the answer at a checkpoint makes of the worker that asked: it goes on with the new list,
   waits with the one it has, or fails. *)
Moved(w, v, new, waits) ==
    /\ v.base = w.base /\ v.woken = w.woken
    /\ \/ v = w /\ waits
       \/ v.msgs = new /\ v.pc = "checkpointed"
       \/ v.msgs = w.msgs /\ v.pc = "failed"

(* The list of a worker that is answered at a checkpoint. *)
LEMMA MovedList ==
    ASSUME NEW w \in Workers, NEW v \in Workers, NEW p, OwnList(w, p), w.pc = "checkpoint",
           NEW new \in Histories, Expand(new) = Expand(w.msgs), BatchesWhole(new, Tools),
           NEW waits, Moved(w, v, new, waits)
    PROVE  OwnList(v, p) /\ Expand(v.msgs) = Expand(w.msgs) /\ v.pc # "none"
<1>1. v.base = w.base /\ Expand(v.msgs) = Expand(w.msgs) /\ v.pc \in {"checkpoint", "checkpointed", "failed"}
  BY DEF Moved
<1>2. Own(v, p)
  <2>1. Own(w, p)
    BY DEF OwnList
  <2> QED BY <1>1, <2>1, OwnSame
<1>3. BatchesWhole(v.msgs, Tools)
  BY DEF Moved, OwnList
<1> QED BY <1>1, <1>2, <1>3 DEF OwnList

(* The answer at a checkpoint condenses the list the session has taken over. *)
LEMMA ReplyHistory ==
    ASSUME IInv, PromptInv, HistInv, NEW c0, Fits(c0), Replaces(c0), c0.waiter = Nil,
           NEW ms0 \in Histories, Cuts(c0, ms0), Settles(ms0), IsPrefix(messages, ms0), NEW from,
           NEW phase \in {"manual", "background", "fallback"},
           CheckpointReply(c0, ms0, from, phase), UNCHANGED <<call, cleared>>,
           phase = "manual" => ~turn.streaming,
           phase # "manual" => /\ turn.streaming /\ turn.recipient = from /\ Policy
                               /\ PromptAt(ms0, turn.prompt_index, from)
                               /\ InFront(c0, turn.prompt_index)
                               /\ wk[from].pc = "checkpoint" /\ Expand(ms0) = Expand(wk[from].msgs)
    PROVE  HistInv' /\ Settled
<1>0. /\ lastRef \in Nat /\ turn.prompt_index \in Int \cup {Nil} /\ turn \in Turns
      /\ wk \in [Prompts -> Workers] /\ Nil \notin Prompts /\ Nil \notin Int /\ Nil \notin Waiters
      /\ turn.recipient \in Prompts \cup {Nil} /\ (turn.streaming <=> turn.recipient # Nil)
      /\ \A p \in Prompts : wk[p].msgs \in Histories
      /\ Tools \in Nat
  BY Typed, WorkerOf, SessionAssumption
<1> DEFINE protected == IF turn.prompt_index = Nil THEN 1 ELSE Len(ms0) - turn.prompt_index
           ref == lastRef + 1
           r == Checkpoint(c0, ref, ms0, from, phase, protected)
<1>1. protected \in Int /\ ref \in Nat \ {0}
  BY <1>0, HistoryIsSeq
<1>2. /\ compaction' = r.c /\ messages' = r.messages
      /\ turn' = [turn EXCEPT !.prompt_index = Shifted(@, ms0, r.messages)]
      /\ SaveSnapshot(messages') \/ UNCHANGED store
      /\ wk' = IF phase = "manual" \/ r.tag = "wait" THEN wk
               ELSE IF r.tag = "continue"
               THEN [wk EXCEPT ![from].pc = "checkpointed", ![from].msgs = r.messages]
               ELSE [wk EXCEPT ![from].pc = "failed"]
  BY DEF CheckpointReply, SaveIfChanged
<1>s. Recorded
  BY <1>2, Typed, StoreRecorded
<1>p. phase # "manual" => /\ from \in Prompts /\ turn.prompt_index \in Nat
                          /\ protected = Len(ms0) - turn.prompt_index
  BY <1>0 DEF PromptInv, Placed
<1> HIDE DEF protected, ref
<1>3. Decided(r, c0, ref, from) /\ (phase = "manual" => r.tag # "wait")
  BY <1>1, <1>p, CheckpointType
<1>4. Condensed(ms0, r.messages) /\ Replaces(r.c) /\ Cuts(r.c, r.messages)
  <2>1. PICK q : q = r
    OBVIOUS
  <2>2. phase # "manual" =>
           /\ from \in Prompts
           /\ \E i, p : i \in Nat /\ PromptAt(ms0, i, p) /\ InFront(c0, i) /\ protected = Len(ms0) - i
    BY <1>p
  <2> HIDE DEF r
  <2>3. Condensed(ms0, q.messages) /\ Replaces(q.c) /\ Cuts(q.c, q.messages)
    BY <1>1, <2>1, <2>2, CheckpointCondenses DEF r
  <2> QED BY <2>1, <2>3
<1> HIDE DEF r
<1>5. PICK new : new = r.messages
  OBVIOUS
<1>6. new \in Histories /\ Expand(new) = Expand(ms0) /\ BatchesWhole(new, Tools)
  BY <1>0, <1>4, <1>5, CondensedSays DEF Settles
<1>7. turn'.streaming = turn.streaming /\ turn'.recipient = turn.recipient
  <2>1. PICK i : turn' = [turn EXCEPT !.prompt_index = i]
    BY <1>2
  <2> QED BY <1>0, <2>1, SMT DEF Turns
<1>8. CASE phase = "manual"
  <2>1. wk' = wk
    BY <1>2, <1>8
  <2>2. Stands' /\ Kept' /\ Work' /\ Settled
    BY <1>0, <1>2, <1>s, <1>4, <2>1, CondenseHistory
  <2>3. Lists' /\ Retired'
    BY <1>7, <2>1, SameLists
  <2>4. Ahead'
    BY <1>7, <1>8 DEF Ahead
  <2> QED BY <2>2, <2>3, <2>4 DEF HistInv
<1>9. CASE phase # "manual"
  <2>0. PICK w \in Workers : w = wk[from]
    BY <1>0, <1>9, <1>p
  <2>1. PICK v : v = wk'[from]
    OBVIOUS
  <2>2. /\ \A q \in Prompts \ {from} : wk'[q] = wk[q]
        /\ v \in Workers /\ Moved(w, v, new, r.tag = "wait") /\ (v.pc = "failed" \/ v.msgs = new \/ r.tag = "wait")
    <3>1. CASE r.tag = "wait"
      BY <1>0, <1>2, <1>p, <1>9, <2>0, <2>1, <3>1 DEF Moved
    <3>2. CASE r.tag = "continue"
      <4>1. wk' = [wk EXCEPT ![from].pc = "checkpointed", ![from].msgs = new]
        BY <1>2, <1>5, <1>9, <3>2
      <4>2. v = [w EXCEPT !.pc = "checkpointed", !.msgs = new] /\ \A q \in Prompts \ {from} : wk'[q] = wk[q]
        BY <1>0, <1>p, <1>9, <2>0, <2>1, <4>1
      <4>3. "checkpointed" \in PCs
        BY DEF PCs
      <4>4. PICK u : u = [w EXCEPT !.pc = "checkpointed"]
        OBVIOUS
      <4>5. u \in Workers /\ u.pc = "checkpointed" /\ u.base = w.base /\ u.woken = w.woken
        BY <4>3, <4>4, WorkerPc
      <4>6. v = [u EXCEPT !.msgs = new]
        BY <4>2, <4>4
      <4>7. v \in Workers /\ v.msgs = new /\ v.pc = "checkpointed" /\ v.base = w.base /\ v.woken = w.woken
        BY <1>6, <4>5, <4>6, WorkerMsgs
      <4> QED BY <4>2, <4>7 DEF Moved
    <3>3. CASE r.tag = "error"
      <4>1. wk' = [wk EXCEPT ![from].pc = "failed"]
        BY <1>2, <1>9, <3>3
      <4>2. v = [w EXCEPT !.pc = "failed"] /\ \A q \in Prompts \ {from} : wk'[q] = wk[q]
        BY <1>0, <1>p, <1>9, <2>0, <2>1, <4>1
      <4>3. v.msgs = w.msgs /\ v.pc = "failed" /\ v.base = w.base /\ v.woken = w.woken
        BY <4>2, SMT DEF Workers
      <4>4. v \in Workers
        <5>1. "failed" \in PCs
          BY DEF PCs
        <5> QED BY <4>2, <5>1, SMT DEF Workers
      <4> QED BY <4>2, <4>3, <4>4 DEF Moved
    <3> QED BY <1>3, <3>1, <3>2, <3>3 DEF Decided
  <2>3. OwnList(v, from) /\ Expand(v.msgs) = Expand(w.msgs) /\ v.pc # "none" /\ Expand(new) = Expand(w.msgs)
    <3>1. OwnList(w, from) /\ w.pc = "checkpoint" /\ Expand(new) = Expand(w.msgs)
      BY <1>6, <1>9, <1>p, <2>0 DEF HistInv, Lists
    <3>2. PICK b : b = (r.tag = "wait")
      OBVIOUS
    <3> QED BY <1>6, <2>2, <3>1, <3>2, MovedList
  <2>m. v.msgs \in Histories
    <3>1. v \in Workers
      BY <2>2
    <3> QED BY <3>1, SMT DEF Workers
  <2>4. call[from] # "ok"
    BY <1>9, <1>p, RunningKnown
  <2>5. Stands' /\ Kept' /\ Work' /\ Settled
    <3>1. /\ \A p \in Prompts : wk[p].pc # "none" => wk'[p].pc # "none"
          /\ \A p \in Prompts : call[p] = "ok" => wk'[p].msgs = wk[p].msgs
          /\ \A p \in Prompts : wk'[p].msgs \in Histories
      BY <1>0, <2>1, <2>2, <2>3, <2>m, <2>4
    <3> QED BY <1>2, <1>s, <1>4, <3>1, CondenseHistory
  <2>6. Lists'
    BY <2>1, <2>2, <2>3 DEF HistInv, Lists
  <2>7. Retired'
    <3>1. v.woken = w.woken /\ w.pc = "checkpoint" /\ w.woken = wk[from].woken
      BY <1>9, <2>0, <2>2 DEF Moved
    <3> QED BY <1>7, <2>0, <2>1, <2>2, <2>3, <2>4, <3>1 DEF HistInv, Retired
  <2>8. AheadOf(from)'
    <3>1. Grown(Expand(new), Expand(v.msgs), from)
      BY <1>6, <2>3, GrownSame
    <3>2. compaction'.waiter = Nil => IsPrefix(new, v.msgs) \/ Lost(v, out'[from])
      <4>1. r.tag = "wait" => compaction'.waiter # Nil
        BY <1>0, <1>2, <1>3 DEF Decided
      <4>2. IsPrefix(new, new)
        BY <1>6, PrefixSelf
      <4> QED BY <2>2, <4>1, <4>2 DEF Lost
    <3> QED BY <1>2, <1>5, <1>9, <2>1, <2>3, <3>1, <3>2 DEF AheadOf
  <2>9. Ahead'
    BY <1>7, <1>9, <2>8 DEF Ahead
  <2> QED BY <2>5, <2>6, <2>7, <2>9 DEF HistInv
<1> QED BY <1>8, <1>9

(* The list of the running turn's worker, once its batches are whole, may become the history. *)
LEMMA WorkerSettles ==
    ASSUME IInv, HistInv, turn.streaming, NEW p \in Prompts, turn.recipient = p,
           wk[p].pc \notin {"none", "tools", "dead"}
    PROVE  Settles(wk[p].msgs)
<1>1. wk[p] \in Workers /\ wk[p].msgs \in Histories /\ OwnList(wk[p], p)
  BY WorkerOf DEF HistInv, Lists
<1>2. Own(wk[p], p) /\ Intact(wk[p].base) /\ BatchesWhole(wk[p].msgs, Tools)
  BY <1>1 DEF OwnList
<1>3. Intact(wk[p].msgs)
  <2>1. PICK w \in Workers : w = wk[p]
    BY <1>1
  <2> QED BY <1>2, <2>1, OwnIntact
<1>4. Grown(Expand(messages), Expand(wk[p].msgs), p)
  BY DEF HistInv, Ahead, AheadOf
<1> QED BY <1>1, <1>2, <1>3, <1>4 DEF Settles

(* With background compaction the list that will be used begins with the history, and the
   compaction ends at a boundary of it. *)
LEMMA WorkerContinues ==
    ASSUME IInv, PromptInv, HistInv, Policy, turn.streaming, NEW p \in Prompts, turn.recipient = p,
           compaction.waiter = Nil, ~Lost(wk[p], out[p])
    PROVE  /\ IsPrefix(messages, wk[p].msgs) /\ Cuts(compaction, wk[p].msgs)
           /\ turn.prompt_index \in Nat /\ PromptAt(wk[p].msgs, turn.prompt_index, p)
           /\ InFront(compaction, turn.prompt_index)
<1>1. IsPrefix(messages, wk[p].msgs)
  BY DEF HistInv, Ahead, AheadOf
<1>2. /\ turn.prompt_index \in Nat /\ PromptAt(wk[p].msgs, turn.prompt_index, p)
      /\ InFront(compaction, turn.prompt_index) /\ turn.prompt_index <= Len(messages)
  BY DEF PromptInv, Placed
<1>3. Cuts(compaction, wk[p].msgs)
  <2>1. /\ Fits(compaction) /\ messages \in Histories /\ wk[p].msgs \in Histories
        /\ Cuts(compaction, messages)
    BY Typed, WorkerOf DEF IInv, HistInv, Work
  <2> QED BY <1>1, <1>2, <2>1, CutsAhead
<1> QED BY <1>1, <1>2, <1>3

(* compaction_checkpoint: the session takes over the worker's list. *)
LEMMA HandleCheckpointHistory ==
    ASSUME IInv, PromptInv, HistInv, NEW p \in Prompts, HandleCheckpoint(p)
    PROVE  HistInv' /\ Settled
<1>0. /\ out[p] # <<>> /\ Pop(p) /\ Head(out[p]).type = "call" /\ wk[p].pc = "checkpoint" /\ Policy
      /\ UNCHANGED <<call, cleared>>
  BY DEF HandleCheckpoint, HeadIs, clientVars
<1>1. CASE Current(turn, wk[p].ref)
  <2>1. turn.recipient = p /\ turn.streaming
    BY <1>0, <1>1, Popped DEF Current
  <2>2. /\ compaction.waiter = Nil /\ Fits(compaction) /\ Replaces(compaction)
        /\ wk[p].msgs \in Histories /\ ~Lost(wk[p], out[p])
    BY <1>0, <2>1, SpeakerFree, WorkerOf DEF IInv, HistInv, Work, Lost
  <2>3. /\ IsPrefix(messages, wk[p].msgs) /\ Cuts(compaction, wk[p].msgs)
        /\ PromptAt(wk[p].msgs, turn.prompt_index, p) /\ InFront(compaction, turn.prompt_index)
    BY <1>0, <2>1, <2>2, WorkerContinues
  <2>4. Settles(wk[p].msgs)
    BY <1>0, <2>1, WorkerSettles
  <2>5. CheckpointReply(compaction, wk[p].msgs, p, "background")
    BY <1>1 DEF HandleCheckpoint
  <2>6. PICK c0, ms0 : c0 = compaction /\ ms0 = wk[p].msgs
    OBVIOUS
  <2> QED BY <1>0, <2>1, <2>2, <2>3, <2>4, <2>5, <2>6, ReplyHistory
<1>2. CASE ~Current(turn, wk[p].ref)
  <2>1. wk' = [wk EXCEPT ![p].pc = "failed"] /\ UNCHANGED sessionVars
    BY <1>2 DEF HandleCheckpoint
  <2> QED BY <1>0, <2>1, MovedHistory DEF Asks
<1> QED BY <1>1, <1>2

(* compaction_finished: with a waiter, in a running turn, and between turns. *)
LEMMA CompactionHistory ==
    ASSUME IInv, PromptInv, HistInv, CompactionDone \/ \E ref \in fired : HandleTimeout(ref)
    PROVE  HistInv' /\ Settled
<1>0. /\ messages \in Histories /\ turn.recipient \in Prompts \cup {Nil}
      /\ (turn.streaming <=> turn.recipient # Nil) /\ UNCHANGED <<out, call, cleared>>
      /\ \A p \in Prompts : wk[p].msgs \in Histories
  BY Typed, WorkerOf DEF CompactionDone, HandleTimeout, clientVars
<1>1. CASE UNCHANGED <<sessionVars, lastRef, wk, compactCall>>
  <2>1. UNCHANGED <<turn, messages, compaction, store, wk>>
    BY <1>1 DEF sessionVars
  <2>2. /\ \A q \in Prompts : Lost(wk[q], out[q]) => Lost(wk[q], out'[q])
        /\ \A q \in Prompts : call'[q] = "ok" => call[q] = "ok"
    BY <1>0
  <2> QED BY <1>0, <2>1, <2>2, StillHistory
<1>2. ASSUME NEW c, Fits(c), c.waiter = compaction.waiter, c.task = 0, Adopts(c), Replaces(c),
             CompactionFinished(c)
      PROVE  HistInv' /\ Settled
  <2>0. Cuts(c, messages) /\ \A i : InFront(compaction, i) => InFront(c, i)
    BY <1>2 DEF InFront, Adopts, HistInv, Work, Cuts
  <2>1. CASE c.waiter # Nil
    <3>1. PICK d : d = [c EXCEPT !.waiter = Nil]
      OBVIOUS
    <3>2. /\ d \in Compactions /\ d.waiter = Nil /\ d.task = 0 /\ d.result = c.result /\ d.prefix = c.prefix
      BY <1>2, <3>1, WithWaiter DEF Fits
    <3>3. /\ Fits(d) /\ Replaces(d) /\ Cuts(d, messages)
          /\ \A i : InFront(compaction, i) => InFront(d, i)
      BY <1>2, <2>0, <3>2 DEF Fits, InFront, Replaces, Cuts
    <3>4. PICK from, phase : from = c.waiter.from /\ phase = c.waiter.phase
      OBVIOUS
    <3>5. PICK ms0 \in Histories : ms0 = messages
      BY <1>0
    <3>6. CheckpointReply(d, ms0, from, phase)
      BY <1>2, <2>1, <3>1, <3>4, <3>5 DEF CompactionFinished
    <3>7. phase \in {"manual", "background", "fallback"}
      <4>1. c.waiter \in Waiters
        BY <1>2, <2>1, SMT DEF Fits, Compactions
      <4> QED BY <3>4, <4>1, SMT DEF Waiters
    <3>8. phase = "manual" => ~turn.streaming
      BY <1>0, <1>2, <2>1, <3>4 DEF IInv, Waiting
    <3>9. phase # "manual" => /\ turn.streaming /\ turn.recipient = from /\ Policy
                              /\ PromptAt(ms0, turn.prompt_index, from) /\ InFront(d, turn.prompt_index)
                              /\ wk[from].pc = "checkpoint" /\ Expand(ms0) = Expand(wk[from].msgs)
      <4> SUFFICES ASSUME phase # "manual"
                   PROVE  /\ turn.streaming /\ turn.recipient = from /\ Policy
                          /\ PromptAt(ms0, turn.prompt_index, from) /\ InFront(d, turn.prompt_index)
                          /\ wk[from].pc = "checkpoint" /\ Expand(ms0) = Expand(wk[from].msgs)
        OBVIOUS
      <4>1. /\ turn.recipient = from /\ from \in Prompts /\ compaction.task # 0
            /\ wk[from].pc = "checkpoint"
        BY <1>2, <2>1, <3>4 DEF IInv, Waiting
      <4>2. turn.streaming
        BY <1>0, <4>1, Typed
      <4>3. InFront(compaction, turn.prompt_index) /\ Placed(turn.prompt_index, from)
        BY <4>1, <4>2 DEF PromptInv
      <4>4. Policy
        BY <4>1, <4>3 DEF InFront
      <4>5. Expand(messages) = Expand(wk[from].msgs)
        BY <1>2, <2>1, <4>1, <4>2 DEF HistInv, Ahead, AheadOf
      <4> QED BY <1>2, <2>1, <3>3, <3>5, <4>1, <4>2, <4>3, <4>4, <4>5 DEF Placed
    <3>10. Settles(ms0) /\ IsPrefix(messages, ms0) /\ Cuts(d, ms0)
      BY <3>3, <3>5, SelfSettles
    <3> QED BY <1>0, <3>2, <3>3, <3>6, <3>7, <3>8, <3>9, <3>10, ReplyHistory
  <2>2. CASE c.waiter = Nil /\ turn.streaming
    <3>1. compaction' = c /\ UNCHANGED <<messages, store, turn, wk>>
      BY <1>2, <2>2 DEF CompactionFinished
    <3>2. Stands' /\ Kept' /\ Settled
      BY <1>0, <3>1, UnmovedStands
    <3>3. Lists' /\ Retired'
      BY <1>0, <3>1, SameLists
    <3>4. Work'
      BY <1>2, <2>0, <3>1 DEF Work, Replaces, Cuts
    <3>5. Ahead'
      <4>1. AheadOf(turn.recipient)
        BY <2>2 DEF HistInv, Ahead
      <4> QED BY <1>0, <1>2, <3>1, <4>1 DEF Ahead, AheadOf
    <3> QED BY <3>2, <3>3, <3>4, <3>5 DEF HistInv
  <2>3. CASE c.waiter = Nil /\ ~turn.streaming
    <3>0. PICK taken : taken = TakeResult(c, messages)
      OBVIOUS
    <3>1. /\ compaction' = taken.c /\ messages' = taken.messages /\ UNCHANGED <<turn, wk>>
          /\ SaveSnapshot(messages') \/ UNCHANGED store
      BY <1>2, <2>3, <3>0 DEF CompactionFinished, SaveIfChanged
    <3>s. Recorded
      BY <3>1, Typed, StoreRecorded
    <3>2. Condensed(messages, taken.messages) /\ Replaces(taken.c) /\ Cuts(taken.c, taken.messages)
      BY <1>0, <1>2, <2>0, <3>0, TakeCondenses
    <3>3. Settles(messages) /\ IsPrefix(messages, messages)
      BY SelfSettles
    <3>4. Stands' /\ Kept' /\ Work' /\ Settled
      BY <1>0, <3>1, <3>s, <3>2, <3>3, CondenseHistory
    <3>5. Lists' /\ Retired'
      BY <1>0, <3>1, SameLists
    <3>6. Ahead'
      BY <2>3, <3>1 DEF Ahead
    <3> QED BY <3>4, <3>5, <3>6 DEF HistInv
  <2> QED BY <2>1, <2>2, <2>3
<1> QED BY <1>1, <1>2, CompactionEnds

(* maybe_compact condenses the list the handler has settled. *)
LEMMA SettleCondenses ==
    ASSUME IInv, PromptInv, HistInv, NEW ms \in Histories, MaybeCompact(ms), Policy => Cuts(compaction, ms)
    PROVE  Condensed(ms, messages') /\ Replaces(compaction') /\ Cuts(compaction', messages')
<1>0. Fits(compaction) /\ Replaces(compaction) /\ lastRef + 1 \in Nat \ {0}
  BY Typed DEF IInv, HistInv, Work
<1>1. CASE ~Policy
  <2>1. messages' \in Applied(ms) /\ compaction' = compaction
    BY <1>1 DEF MaybeCompact
  <2>2. PICK new \in Applied(ms) : new = messages'
    BY <2>1
  <2>3. Condensed(ms, new)
    BY AppliedCondenses
  <2>4. Replaces(compaction) /\ Cuts(compaction, new)
    BY <1>1, NoTask
  <2> QED BY <2>1, <2>2, <2>3, <2>4
<1>2. CASE Policy
  <2>1. PICK taken : taken = TakeResult(compaction, ms)
    OBVIOUS
  <2>2. PICK c0, m0 : c0 = taken.c /\ m0 = taken.messages
    OBVIOUS
  <2>3. messages' = m0 /\ compaction' = Background(c0, lastRef + 1, m0, 1)
    BY <1>2, <2>1, <2>2 DEF MaybeCompact
  <2>4. Condensed(ms, m0) /\ Replaces(c0) /\ Cuts(c0, m0)
    BY <1>0, <1>2, <2>1, <2>2, TakeCondenses
  <2>5. Fits(c0) /\ m0 \in Histories
    BY <1>0, <2>1, <2>2, TakeResultType
  <2>6. 1 \in Int /\ Protects(m0, 1)
    BY DEF Protects
  <2>7. PICK d : d = Background(c0, lastRef + 1, m0, 1)
    OBVIOUS
  <2>8. Replaces(d) /\ Cuts(d, m0)
    BY <1>0, <2>4, <2>5, <2>6, <2>7, BackgroundCuts
  <2> QED BY <2>3, <2>4, <2>7, <2>8
<1> QED BY <1>1, <1>2

(* A turn ends: the history condenses what its handler settled on. *)
LEMMA FinishHistory ==
    ASSUME IInv, HistInv, NEW p \in Prompts, wk[p].pc = "done", turn' = FinishTurn(turn),
           UNCHANGED <<wk, cleared>>, NEW ok \in BOOLEAN, Reply(p, IF ok THEN "ok" ELSE "error"),
           NEW ms, Settles(ms), Policy => IsPrefix(messages, ms), Condensed(ms, messages'),
           Replaces(compaction'), Cuts(compaction', messages'),
           Recorded, ok => ms = wk[p].msgs /\ store'.due
    PROVE  HistInv' /\ Settled
<1>0. /\ turn \in Turns /\ call \in [Prompts -> Answers] /\ Nil \notin Prompts
      /\ \A q \in Prompts : wk[q].msgs \in Histories
  BY Typed, WorkerOf
<1>1. ~turn'.streaming /\ turn'.recipient = Nil
  BY <1>0, FinishTurnType
<1>2. \A q \in Prompts : call'[q] = "ok" => call[q] = "ok" \/ (q = p /\ ok)
  BY <1>0 DEF Reply
<1>3. Stands' /\ Kept' /\ Work' /\ Settled
  <2>1. \A q \in Prompts : call'[q] = "ok" =>
           call[q] = "ok" \/ (Expand(ms) = Expand(wk'[q].msgs) /\ store'.due)
    BY <1>2
  <2> QED BY <1>0, <2>1, CondenseHistory
<1>4. Lists'
  BY DEF HistInv, Lists
<1>5. Ahead'
  BY <1>1 DEF Ahead
<1>6. Retired'
  BY <1>0, <1>1, <1>2 DEF HistInv, Retired
<1> QED BY <1>3, <1>4, <1>5, <1>6 DEF HistInv

(* The completion casts. *)
LEMMA HandleCompleteHistory ==
    ASSUME IInv, PromptInv, HistInv, NEW p \in Prompts, HandleComplete(p)
    PROVE  HistInv' /\ Settled
<1> DEFINE ok == Head(out[p]).arg
<1>0. /\ out[p] # <<>> /\ Pop(p) /\ Head(out[p]).type = "complete" /\ UNCHANGED <<wk, cleared>>
  BY DEF HandleComplete, HeadIs
<1>1. /\ ok \in BOOLEAN /\ out \in [Prompts -> Seq(Wires)]
      /\ turn.recipient \in Prompts \cup {Nil} /\ (turn.streaming <=> turn.recipient # Nil)
      /\ Nil \notin Prompts /\ wk[p].msgs \in Histories /\ wk[p].base \in Histories
  BY <1>0, Popped, WireArgs, Typed, WorkerOf
<1>2. CASE wk[p].ref # turn.abort_ref
  <2>1. UNCHANGED <<turn, messages, compaction, store, call>>
    BY <1>2 DEF HandleComplete, sessionVars, clientVars
  <2>2. /\ \A q \in Prompts : Lost(wk[q], out[q]) => Lost(wk[q], out'[q])
        /\ \A q \in Prompts : call'[q] = "ok" => call[q] = "ok"
    BY <1>0, <2>1, PoppedLost
  <2> QED BY <1>0, <2>1, <2>2, StillHistory
<1>3. CASE wk[p].ref = turn.abort_ref
  <2>1. turn.recipient = p /\ turn.streaming /\ wk[p].pc = "done"
    BY <1>0, <1>1, <1>3, Popped
  <2>2. /\ turn' = FinishTurn(turn) /\ Reply(p, IF ok THEN "ok" ELSE "error")
        /\ \/ ok /\ MaybeCompact(wk[p].msgs)
           \/ ~ok /\ ~Policy /\ MaybeCompact(wk[p].base)
           \/ ~ok /\ UNCHANGED <<messages, compaction>>
        /\ store' = [store EXCEPT !.due = TRUE] \/ (~ok /\ UNCHANGED store)
    BY <1>1, <1>3 DEF HandleComplete, RunComplete, StreamComplete, RunList
  <2>3. Settles(wk[p].msgs)
    BY <2>1, WorkerSettles
  <2>4. Settles(messages) /\ IsPrefix(messages, messages) /\ Condensed(messages, messages)
    BY SelfSettles DEF Condensed
  <2>5. PICK b \in BOOLEAN : b = ok
    BY <1>1
  <2>s. Recorded /\ (ok => store'.due)
    BY <2>2, Typed, StoreRecorded
  <2> HIDE DEF ok
  <2>6. CASE ok /\ MaybeCompact(wk[p].msgs)
    <3>1. Policy => IsPrefix(messages, wk[p].msgs) /\ Cuts(compaction, wk[p].msgs)
      <4>1. ~NoGood(out[p])
        BY <1>0, <1>1, <2>6, NoGoodTail DEF ok
      <4>2. compaction.waiter = Nil /\ ~Lost(wk[p], out[p])
        BY <1>0, <2>1, <4>1, SpeakerFree DEF Lost
      <4> QED BY <2>1, <4>2, WorkerContinues
    <3>2. PICK ms \in Histories : ms = wk[p].msgs
      BY <1>1
    <3>3. Condensed(ms, messages') /\ Replaces(compaction') /\ Cuts(compaction', messages')
      BY <2>6, <3>1, <3>2, SettleCondenses
    <3> QED BY <1>0, <2>1, <2>2, <2>3, <2>5, <2>s, <2>6, <3>1, <3>2, <3>3, FinishHistory
  <2>7. CASE ~ok /\ ~Policy /\ MaybeCompact(wk[p].base)
    <3>1. PICK ms \in Histories : ms = wk[p].base
      BY <1>1
    <3>2. Settles(ms)
      <4>1. Intact(ms) /\ BatchesWhole(ms, Tools)
        BY <2>1, <3>1 DEF HistInv, Lists, OwnList
      <4>2. Grown(Expand(messages), Expand(ms), p)
        BY <2>1, <2>7, <3>1 DEF HistInv, Ahead, AheadOf
      <4> QED BY <2>1, <4>1, <4>2 DEF Settles
    <3>3. Condensed(ms, messages') /\ Replaces(compaction') /\ Cuts(compaction', messages')
      BY <2>7, <3>1, SettleCondenses
    <3> QED BY <1>0, <2>1, <2>2, <2>5, <2>s, <2>7, <3>2, <3>3, FinishHistory
  <2>8. CASE ~ok /\ UNCHANGED <<messages, compaction>>
    <3>1. Replaces(compaction') /\ Cuts(compaction', messages')
      BY <2>8 DEF HistInv, Work
    <3>2. PICK ms : ms = messages
      OBVIOUS
    <3> QED BY <1>0, <2>1, <2>2, <2>4, <2>5, <2>s, <2>8, <3>1, <3>2, FinishHistory
  <2> QED BY <2>2, <2>6, <2>7, <2>8
<1> QED BY <1>2, <1>3

-----------------------------------------------------------------------------
(* A new session has said nothing. *)
LEMMA HistoryStarts == Init => HistInv
<1> SUFFICES ASSUME Init PROVE HistInv
  OBVIOUS
<1>1. /\ ~turn.streaming /\ compaction.task = 0 /\ compaction.result = Nil /\ store.snapshot = Nil /\ cleared = {}
      /\ messages = <<>>
  BY DEF Init, NewTurn, NewCompaction
<1>2. \A p \in Prompts : wk[p].pc = "none" /\ ~wk[p].woken /\ call[p] = "idle"
  BY DEF Init, Idle
<1>3. Stands
  <2>1. Expand(messages) = <<>> /\ Len(messages) = 0 /\ 1..0 = {}
    BY <1>1 DEF Expand
  <2>2. Intact(messages) /\ BatchesWhole(messages, Tools) /\ Len(Expand(messages)) = 0
    BY <1>1, <2>1 DEF Intact, BatchesWhole
  <2> QED BY <1>1, <2>1, <2>2 DEF Stands
<1>4. Lists /\ Ahead /\ Retired /\ Kept
  BY <1>1, <1>2 DEF Lists, Ahead, Retired, Kept
<1>5. Work
  BY <1>1 DEF Work, Replaces, Cuts
<1> QED BY <1>3, <1>4, <1>5 DEF HistInv

(* Every step keeps the lists in order and settles the history. *)
LEMMA HistoryStep ==
    ASSUME IInv, PromptInv, HistInv, [Next]_vars
    PROVE  HistInv' /\ Settled
<1>1. CASE Abort
  BY <1>1, AbortHistory DEF Abort
<1>2. ASSUME NEW p \in Prompts, SessionHandles(p)
      PROVE  HistInv' /\ Settled
  BY <1>2, HandleEventHistory, HandleCheckHistory, HandleCheckpointHistory, HandleCompleteHistory
     DEF SessionHandles
<1> QED BY <1>1, <1>2, ClientHistory, IdleHistory, ClearHistory, CompactHistory, WorkerStepsHistory,
           PersistHistory, ToolStepsHistory, CompactionHistory DEF Next, ClientSteps

(* The lists of the session, of its store and of its workers agree in every reachable state: the
   running turn's list goes on from the history, a compaction stands for what it replaces, the history
   speaks of the turns that began since the last clear, and answered turns are in it, whatever saves
   and clears of the store fail (the completion casts, take_result, the checkpoints, abort_turn,
   clear and persist_snapshot of session.ex). *)
THEOREM HistoryInvariant == Spec => []HistInv
<1>1. IInv /\ PromptInv /\ HistInv /\ [Next]_vars => HistInv'
  BY HistoryStep
<1> QED BY <1>1, HistoryStarts, SessionInvariant, PromptInvariant, PTL DEF Spec

(* The conversation survives every interleaving of turns, aborts, compactions and their late results,
   in the session and in its store, whose saves and clears may fail. *)
THEOREM HistoryIsIntact == Spec => []HistoryIntact
<1>1. HistInv => HistoryIntact
  BY DEF HistInv, Stands, HistoryIntact
<1> QED BY <1>1, HistoryInvariant, PTL

(* What a list has of a turn it holds is what the turn's worker has of it. *)
LEMMA HeldTurn ==
    ASSUME NEW ms \in Histories, NEW m \in Histories, NEW p, HoldsTurn(ms, m, p)
    PROVE  OfTurn(ms, p) = OfTurn(m, p)
<1> DEFINE e == Expand(ms)
           d == Expand(m)
           S == {j \in 1..Len(e) : e[j].turn = p}
           T == {j \in 1..Len(d) : d[j].turn = p}
<1>0. Len(e) \in Nat /\ Len(d) \in Nat
  BY ExpandPlaces
<1>1. /\ Len(d) <= Len(e) /\ (\A i \in 1..Len(d) : e[i] = d[i])
      /\ \A i \in (Len(d) + 1)..Len(e) : e[i].turn # p
  BY DEF HoldsTurn
<1>2. OfTurn(ms, p) = [i \in S |-> e[i]] /\ OfTurn(m, p) = [i \in T |-> d[i]]
  BY DEF OfTurn
<1> HIDE DEF e, d
<1>3. \A j : j \in 1..Len(e) <=> j \in 1..Len(d) \/ j \in (Len(d) + 1)..Len(e)
  BY <1>0, <1>1
<1>4. S = T
  BY <1>1, <1>3
<1>5. \A i \in T : e[i] = d[i]
  BY <1>1
<1> QED BY <1>2, <1>4, <1>5

(* A history that says nothing of a turn. *)
LEMMA SaysNothing ==
    ASSUME NEW ms, NEW p, \A i \in 1..Len(Expand(ms)) : Expand(ms)[i].turn # p
    PROVE  OfTurn(ms, p) = <<>>
<1> DEFINE e == Expand(ms)
<1>1. {j \in 1..Len(e) : e[j].turn = p} = {}
  OBVIOUS
<1>2. OfTurn(ms, p) = [i \in {} |-> e[i]]
  BY <1>1 DEF OfTurn
<1> HIDE DEF e
<1>3. [i \in {} |-> e[i]] = <<>>
  OBVIOUS
<1> QED BY <1>2, <1>3

(* A worker's list says something of its turn. *)
LEMMA SaysSomething ==
    ASSUME NEW w \in Workers, NEW p, Own(w, p)
    PROVE  OfTurn(w.msgs, p) # <<>>
<1> DEFINE b == Expand(w.base)
           e == Expand(w.msgs)
           S == {j \in 1..Len(e) : e[j].turn = p}
<1>0. w.base \in Histories /\ w.msgs \in Histories
  BY SMT DEF Workers
<1>1. Len(b) \in Nat /\ Len(e) \in Nat
  BY <1>0, ExpandPlaces
<1>2. 1 <= Len(b) /\ Len(b) <= Len(e) /\ \A i \in Len(b)..Len(e) : e[i].turn = p
  BY DEF Own
<1>3. OfTurn(w.msgs, p) = [i \in S |-> e[i]]
  BY DEF OfTurn
<1> HIDE DEF b, e
<1>4. Len(b) \in S
  BY <1>1, <1>2
<1> HIDE DEF S
<1>5. DOMAIN [i \in S |-> e[i]] = S /\ DOMAIN <<>> = {}
  OBVIOUS
<1> QED BY <1>3, <1>4, <1>5

(* A turn that was answered {:ok, _} is whole in the history until clear, and in the store but for
   a save that is still to come or has failed. *)
THEOREM AnsweredTurnsKept == Spec => []AnsweredTurnKept
<1>1. IInv /\ HistInv => AnsweredTurnKept
  <2> SUFFICES ASSUME IInv, HistInv, NEW p \in Prompts, call[p] = "ok", p \notin cleared
               PROVE  /\ OfTurn(messages, p) # <<>>
                      /\ OfTurn(messages, p) = OfTurn(wk[p].msgs, p)
                      /\ Ready /\ store.failed = {} =>
                            store.snapshot # Nil /\ OfTurn(store.snapshot, p) = OfTurn(messages, p)
    BY DEF AnsweredTurnKept
  <2>0. /\ messages \in Histories /\ store.snapshot \in Histories \cup {Nil}
        /\ wk[p] \in Workers /\ wk[p].msgs \in Histories
    <3>1. store.snapshot \in Histories \cup {Nil}
      BY Typed, SMT DEF Stores
    <3> QED BY <3>1, Typed, WorkerOf
  <2>1. /\ HoldsTurn(messages, wk[p].msgs, p)
        /\ Ready /\ store.failed = {} =>
              store.snapshot # Nil /\ HoldsTurn(store.snapshot, wk[p].msgs, p)
    BY DEF HistInv, Kept, Written, Ready
  <2>2. OfTurn(messages, p) = OfTurn(wk[p].msgs, p)
    BY <2>0, <2>1, HeldTurn
  <2>3. Own(wk[p], p)
    BY DEF HistInv, Retired, Lists, OwnList
  <2>4. OfTurn(wk[p].msgs, p) # <<>>
    BY <2>0, <2>3, SaysSomething
  <2>5. ASSUME Ready, store.failed = {} PROVE OfTurn(store.snapshot, p) = OfTurn(wk[p].msgs, p)
    <3>1. store.snapshot \in Histories /\ HoldsTurn(store.snapshot, wk[p].msgs, p)
      BY <2>0, <2>1, <2>5
    <3> QED BY <2>0, <3>1, HeldTurn
  <2> QED BY <2>1, <2>2, <2>4, <2>5
<1> QED BY <1>1, HistoryInvariant, SessionInvariant, PTL

(* Nothing of a turn that began before clear is seen again in the history, nor in the store once a
   clear or a later save went through. *)
THEOREM ClearedStayCleared == Spec => []ClearedStaysCleared
<1>1. IInv /\ HistInv => ClearedStaysCleared
  <2> SUFFICES ASSUME IInv, HistInv, NEW p \in cleared
               PROVE  /\ OfTurn(messages, p) = <<>>
                      /\ store.snapshot # Nil /\ "clear" \notin store.failed =>
                            OfTurn(store.snapshot, p) = <<>>
    BY DEF ClearedStaysCleared
  <2> DEFINE e == Expand(messages)
             s == Expand(store.snapshot)
  <2>0. messages \in Histories /\ store.snapshot \in Histories \cup {Nil}
    <3>1. store.snapshot \in Histories \cup {Nil}
      BY Typed, SMT DEF Stores
    <3> QED BY <3>1, Typed
  <2>1. \A i \in 1..Len(e) : e[i].turn # p
    BY DEF HistInv, Stands, Known
  <2>2. OfTurn(messages, p) = <<>>
    BY <2>1, SaysNothing
  <2>3. ASSUME store.snapshot # Nil, "clear" \notin store.failed
        PROVE  OfTurn(store.snapshot, p) = <<>>
    <3>1. IsPrefix(s, e) /\ s \in Seq(BaseMessages) /\ e \in Seq(BaseMessages)
      BY <2>0, <2>3, ExpandType DEF HistInv, Stands
    <3>2. Len(s) \in Nat /\ Len(e) \in Nat
      BY <3>1, LenProperties
    <3> HIDE DEF e, s
    <3>3. Len(s) <= Len(e) /\ \A i \in 1..Len(s) : e[i] = s[i]
      BY <3>1, PrefixByPlaces
    <3>4. \A i \in 1..Len(s) : s[i].turn # p
      BY <2>1, <3>2, <3>3
    <3> QED BY <3>4, SaysNothing DEF s
  <2> QED BY <2>2, <2>3
<1> QED BY <1>1, HistoryInvariant, SessionInvariant, PTL

(* Once a turn is aborted the history gains no message of it, and loses what it has of it only to
   clear: late lists of its worker, its tools and a compaction are of no effect. *)
THEOREM AbortedTurnsFrozen == Spec => AbortedTurnFrozen
<1> DEFINE Frozen == \A p \in Prompts : wk[p].woken =>
                        OfTurn(messages', p) = OfTurn(messages, p) \/ messages' = <<>>
<1>1. ASSUME IInv, PromptInv, HistInv, [Next]_vars
      PROVE  Frozen
  <2> SUFFICES ASSUME NEW p \in Prompts, wk[p].woken, messages' # <<>>
               PROVE  OfTurn(messages', p) = OfTurn(messages, p)
    OBVIOUS
  <2>0. messages \in Histories
    BY <1>1, Typed
  <2>1. PICK ms : Settles(ms) /\ Condensed(ms, messages')
    BY <1>1, HistoryStep DEF Settled, Follows
  <2>2. PICK new : new = messages'
    OBVIOUS
  <2>3. new \in Histories /\ Expand(new) = Expand(ms)
    BY <2>1, <2>2, CondensedSays DEF Settles
  <2>4. turn.recipient # p
    BY <1>1 DEF HistInv, Retired
  <2>5. Expand(new) = Expand(messages) \/ Grown(Expand(messages), Expand(new), turn.recipient)
    BY <2>1, <2>3 DEF Settles
  <2>6. HoldsTurn(messages, messages, p)
    <3>1. Len(Expand(messages)) \in Nat
      BY <2>0, ExpandPlaces
    <3> QED BY <3>1 DEF HoldsTurn
  <2>7. HoldsTurn(new, messages, p)
    BY <2>0, <2>3, <2>4, <2>5, <2>6, HoldsMore
  <2> QED BY <2>0, <2>2, <2>3, <2>7, HeldTurn
<1>2. IInv /\ PromptInv /\ HistInv /\ [Next]_vars => [Frozen]_vars
  BY <1>1
<1> QED BY <1>2, HistoryInvariant, SessionInvariant, PromptInvariant, PTL DEF Spec, AbortedTurnFrozen

(* With background compaction, what a replacement discarded stays discarded until clear: no late
   list of a worker restores it. *)
THEOREM DiscardedStay == Spec => DiscardedStaysDiscarded
<1> DEFINE Stays == Policy /\ messages' # <<>> => IsPrefix(Discarded(messages), Discarded(messages'))
<1>1. ASSUME IInv, PromptInv, HistInv, [Next]_vars
      PROVE  Stays
  <2> SUFFICES ASSUME Policy, messages' # <<>>
               PROVE  IsPrefix(Discarded(messages), Discarded(messages'))
    OBVIOUS
  <2>0. messages \in Histories /\ messages \in Seq(Messages) /\ Len(messages) \in Nat
    BY <1>1, Typed, HistoryIsSeq
  <2>1. PICK ms : Settles(ms) /\ Condensed(ms, messages') /\ IsPrefix(messages, ms)
    BY <1>1, HistoryStep DEF Settled, Follows
  <2>2. PICK new : new = messages'
    OBVIOUS
  <2>3. ms \in Histories /\ new \in Histories /\ new # <<>> /\ ms # <<>>
    BY <2>1, <2>2, CondensedSays DEF Settles
  <2>4. CASE messages # <<>> /\ messages[1].role = "summary"
    <3>1. ms[1] = messages[1]
      <4>1. Len(messages) >= 1
        BY <2>0, <2>4, EmptySeq
      <4>2. ms \in Seq(Messages)
        BY <2>3, HistoryIsSeq
      <4> QED BY <2>0, <2>1, <4>1, <4>2, PrefixByPlaces
    <3>2. new[1].role = "summary" /\ IsPrefix(ms[1].covers, new[1].covers)
      BY <2>1, <2>2, <2>3, <2>4, <3>1, CondensedCovers
    <3> QED BY <2>2, <2>3, <2>4, <3>1, <3>2 DEF Discarded
  <2>5. CASE ~(messages # <<>> /\ messages[1].role = "summary")
    <3>1. Discarded(messages) = <<>>
      BY <2>5 DEF Discarded
    <3>2. Discarded(new) \in Seq(BaseMessages)
      <4>1. new[1] \in Messages
        <5>1. new \in Seq(Messages) /\ Len(new) \in Nat
          BY <2>3, HistoryIsSeq
        <5>2. 1 \in 1..Len(new)
          BY <2>3, <5>1, EmptySeq
        <5> QED BY <5>1, <5>2, ElementOfSeq
      <4>2. new[1].role = "summary" => new[1].covers \in Seq(BaseMessages)
        BY <4>1, BaseRole, SMT DEF Messages, Summaries
      <4> QED BY <4>2 DEF Discarded
    <3>3. PICK s \in Seq(BaseMessages) : s = <<>>
      BY EmptySeq
    <3>4. PICK t \in Seq(BaseMessages) : t = Discarded(new)
      BY <3>2
    <3>5. Len(s) = 0 /\ Len(t) \in Nat
      BY <3>3, LenProperties
    <3>6. Len(s) <= Len(t) /\ \A i \in 1..Len(s) : t[i] = s[i]
      BY <3>5
    <3>7. IsPrefix(s, t)
      BY <3>6, PrefixByPlaces
    <3> QED BY <2>2, <3>1, <3>3, <3>4, <3>7
  <2> QED BY <2>4, <2>5
<1>2. IInv /\ PromptInv /\ HistInv /\ [Next]_vars => [Stays]_vars
  BY <1>1
<1> QED BY <1>2, HistoryInvariant, SessionInvariant, PromptInvariant, PTL DEF Spec, DiscardedStaysDiscarded
=============================================================================
