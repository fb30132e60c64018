------------------------ MODULE ControlChannelProofs ------------------------
(***************************************************************************)
(* What holds of the control channel for every set of requests and hosts,  *)
(* every policy and decider, and any number of links and reconnects.       *)
(***************************************************************************)
EXTENDS ControlChannel, SequenceTheorems, FiniteSetTheorems, WellFoundedInduction, TLAPS

-----------------------------------------------------------------------------
(* The decision a on r's host is one the decider gave, and the one it will always get
   while answers are cached. *)
SoundVerdict(r, a) ==
    /\ conn[r].st # "new"
    /\ a = "allow" => "allow" \in said[conn[r].host]
    /\ Caching => /\ conn[r].host \in DOMAIN bridge.cache
                  /\ a = "allow" <=> bridge.cache[conn[r].host] = "allow"

(* What may be on its way: questions of requests that were opened, and sound decisions. *)
AskedFrames    == {f \in Frames : f.type = "decision_request" => conn[f.id].st # "new"}
Decisions      == [id : Requests, action : {"allow", "deny"}]
SoundDecisions == {d \in Decisions : SoundVerdict(d.id, d.action)}
LinksOf(F, D)  == [st : {"none", "up", "closed"}, up : Seq(F), down : Seq(D)]
MailOf(F)      == {Eof} \cup {Down(c) : c \in Links} \cup {Data(f) : f \in F}

QueuesOK ==
    /\ outq \in Seq(AskedFrames) /\ Len(outq) <= BufferCap
    /\ link \in [Links -> LinksOf(AskedFrames, SoundDecisions)]
    /\ mail \in Seq(MailOf(AskedFrames))

PeersOK ==
    /\ serving \in [link : 0..MaxLinks, writing : BOOLEAN, reading : BOOLEAN]
    /\ serving.writing \/ serving.reading => serving.link \in Links
    /\ backlog \in Seq(Links)
    /\ forward \in [Links -> {"none", "up", "down"}]

BridgeOK ==
    /\ DOMAIN bridge = {"st", "pf", "timers", "attempts", "cache"}
    /\ bridge.st \in {"starting", "up", "stopped"} /\ bridge.pf \in 0..MaxLinks
    /\ bridge.timers \in Nat /\ bridge.attempts \in 0..MaxReconnects - 1
    /\ \A h \in DOMAIN bridge.cache : h \in Hosts /\ bridge.cache[h] \in DeciderSays

ReportsOK ==
    /\ told \in [Requests -> Seq({"opened", "allowed", "denied", "closed", "failed"})]
    /\ said \in [Hosts -> SUBSET DeciderSays] /\ steady \subseteq Requests

ConnStates == [st : {"new", "opened", "asking", "expired", "allowed", "denied", "closed", "failed"},
               host : Hosts \cup {Nil}, reason : {Nil, "policy", "decider", "decider_timeout"}]

(* One request: why it is where it is, whether it is registered, and what it was answered. *)
RequestOK(r) ==
    /\ conn[r].st # "new" => conn[r].host \in Hosts
    /\ conn[r].st \in {"asking", "expired"} => Evaluate(conn[r].host) = "decide"
    /\ conn[r].st \in {"allowed", "closed", "failed"} =>
          \/ Evaluate(conn[r].host) = "allow"
          \/ Evaluate(conn[r].host) = "decide" /\ "allow" \in said[conn[r].host]
    /\ answer[r] # Nil => SoundVerdict(r, answer[r])
    /\ conn[r].st \in {"new", "opened"} => answer[r] = Nil
    /\ conn[r].st = "asking" /\ answer[r] = Nil => r \in pending
    /\ r \in pending => conn[r].st \in {"asking", "expired"} /\ answer[r] = Nil

RequestsOK ==
    /\ conn \in [Requests -> ConnStates]
    /\ pending \subseteq Requests /\ answer \in [Requests -> {Nil, "allow", "deny"}]
    /\ \A r \in Requests : RequestOK(r)

ChannelInv == QueuesOK /\ PeersOK /\ BridgeOK /\ ReportsOK /\ RequestsOK

-----------------------------------------------------------------------------
(* Where a request is in its life, and which part of it an event reports. *)
Rank(k) == CASE k = "opened" -> 1 [] k \in {"allowed", "denied"} -> 2 [] OTHER -> 3

StageRank(r) == CASE conn[r].st = "new" -> 0
                  [] conn[r].st \in {"opened", "asking", "expired"} -> 1
                  [] conn[r].st \in {"allowed", "denied"} -> 2
                  [] OTHER -> 3

(* The rank of a frame or message about r, 0 for every other. *)
FrameRank(f, r) == IF f.type # "decision_request" /\ f.id = r THEN Rank(f.type) ELSE 0

RankOf(m, r) == CASE m.type = "data" -> FrameRank(m.frame, r)
                  [] m.type \in {"eof", "down"} -> 0
                  [] OTHER -> FrameRank(m, r)

(* The events of a queue come in the order of r's life, after lo and not past hi. *)
Rising(s, r, lo, hi) ==
    /\ \A i \in DOMAIN s : RankOf(s[i], r) # 0 => lo < RankOf(s[i], r) /\ RankOf(s[i], r) <= hi
    /\ \A i, j \in DOMAIN s : i < j /\ RankOf(s[i], r) # 0 /\ RankOf(s[j], r) # 0 => RankOf(s[i], r) < RankOf(s[j], r)

(* What was told of r goes up to a, *)
ToldUpTo(r, a) ==
    /\ \A i \in DOMAIN told[r] : Rank(told[r][i]) <= a
    /\ \A i, j \in DOMAIN told[r] : i < j => Rank(told[r][i]) < Rank(told[r][j])

(* and what is in the mailbox, on the link and in the buffer follow it and each other. *)
AuditOf(r, a, b, c) ==
    /\ a <= b /\ b <= c /\ c <= StageRank(r)
    /\ ToldUpTo(r, a)
    /\ Rising(mail, r, a, b)
    /\ bridge.pf # 0 /\ forward[bridge.pf] = "up" => Rising(link[bridge.pf].up, r, b, c)
    /\ Rising(outq, r, c, StageRank(r))

AuditInv == \A r \in Requests : \E a, b, c \in 0..3 : AuditOf(r, a, b, c)

(* The links are dialled one after the other, and a fresh one is empty. *)
UsedUpTo(n) == \A c \in Links : link[c].st # "none" <=> c <= n

(* The end of a channel is the last thing in the mailbox, and the bridge's own. *)
EndsLast ==
    /\ \A i \in DOMAIN mail : mail[i].type = "down" =>
          i = Len(mail) /\ bridge.pf # 0 /\ mail[i].link = bridge.pf /\ forward[bridge.pf] = "down"
    /\ \A i \in DOMAIN mail : mail[i].type = "eof" => i = Len(mail) - 1 /\ mail[i + 1] = Down(bridge.pf)
    /\ bridge.pf # 0 /\ forward[bridge.pf] = "down" => Len(mail) > 0 /\ mail[Len(mail)] = Down(bridge.pf)

(* Only the bridge's own port-forward runs, and it has that or a redial. *)
OneLink ==
    /\ \E n \in 0..MaxLinks : UsedUpTo(n)
    /\ \A c \in Links : /\ forward[c] = "none" <=> link[c].st = "none"
                        /\ forward[c] = "none" => link[c].up = <<>>
                        /\ forward[c] = "up" => bridge.st = "up" /\ c = bridge.pf
    /\ bridge.st = "starting" => bridge.pf = 0 /\ bridge.timers = 0 /\ mail = <<>>
    /\ bridge.st = "up" => bridge.timers = IF bridge.pf = 0 THEN 1 ELSE 0
    /\ bridge.st = "up" => EndsLast

OneLinkInv == ChannelInv /\ OneLink /\ AuditInv
-----------------------------------------------------------------------------
(* Nothing has been said or sent. *)
LEMMA ChannelStarts == Init => ChannelInv
<1> SUFFICES ASSUME Init PROVE ChannelInv
  OBVIOUS
<1>1. QueuesOK
  BY ChannelAssumption DEF Init, QueuesOK, LinksOf
<1>2. PeersOK
  BY ChannelAssumption DEF Init, PeersOK, NoPeer, Links
<1>3. BridgeOK
  BY ChannelAssumption DEF Init, BridgeOK
<1>4. ReportsOK
  BY DEF Init, ReportsOK
<1>5. RequestsOK
  BY DEF Init, RequestsOK, RequestOK, ConnStates
<1> QED BY <1>1, <1>2, <1>3, <1>4, <1>5 DEF ChannelInv

(* Time only adds: a request that was opened keeps its host, a host its cached answer. *)
Later ==
    /\ \A r \in Requests : conn[r].st # "new" => conn'[r].st # "new" /\ conn'[r].host = conn[r].host
    /\ \A h \in Hosts : said[h] \subseteq said'[h]
    /\ \A h \in DOMAIN bridge.cache : h \in DOMAIN bridge'.cache /\ bridge'.cache[h] = bridge.cache[h]

(* so a decision that was sound stays sound. *)
LEMMA VerdictStays ==
    ASSUME RequestsOK, Later, NEW r \in Requests, NEW a, SoundVerdict(r, a)
    PROVE  SoundVerdict(r, a)'
<1>1. conn[r].st # "new" /\ conn[r].host \in Hosts /\ conn'[r].st # "new" /\ conn'[r].host = conn[r].host
  BY DEF SoundVerdict, RequestsOK, RequestOK, Later
<1> QED BY <1>1 DEF SoundVerdict, Later

(* and so does everything that is on its way. *)
LEMMA QueuesStay ==
    ASSUME QueuesOK, RequestsOK, Later
    PROVE  /\ AskedFrames \subseteq AskedFrames' /\ SoundDecisions \subseteq SoundDecisions'
           /\ outq \in Seq(AskedFrames') /\ mail \in Seq(MailOf(AskedFrames'))
           /\ link \in [Links -> LinksOf(AskedFrames', SoundDecisions')]
<1>1. AskedFrames \subseteq AskedFrames'
  BY DEF AskedFrames, Later, Frames
<1>2. SoundDecisions \subseteq SoundDecisions'
  BY VerdictStays DEF SoundDecisions, Decisions
<1>3. outq \in Seq(AskedFrames')
  BY <1>1, SeqMonotonic DEF QueuesOK
<1>4. mail \in Seq(MailOf(AskedFrames'))
  <2>1. MailOf(AskedFrames) \subseteq MailOf(AskedFrames')
    BY <1>1 DEF MailOf
  <2> QED BY <2>1, SeqMonotonic DEF QueuesOK
<1>5. ASSUME NEW c \in Links PROVE link[c] \in LinksOf(AskedFrames', SoundDecisions')
  <2>1. link[c].up \in Seq(AskedFrames') /\ link[c].down \in Seq(SoundDecisions')
    BY <1>1, <1>2, SeqMonotonic DEF QueuesOK, LinksOf
  <2> QED BY <2>1 DEF QueuesOK, LinksOf
<1> QED BY <1>1, <1>2, <1>3, <1>4, <1>5 DEF QueuesOK

(* A step that leaves a request alone leaves it as it was. *)
LEMMA RequestStays ==
    ASSUME RequestsOK, Later, NEW r \in Requests, conn'[r] = conn[r], answer'[r] = answer[r],
           r \in pending' <=> r \in pending
    PROVE  RequestOK(r)'
<1>1. answer[r] # Nil => SoundVerdict(r, answer[r])'
  BY VerdictStays DEF RequestsOK, RequestOK
<1> QED BY <1>1 DEF RequestsOK, RequestOK, Later

(* An event that is emitted, or dropped. *)
LEMMA EmitKeeps ==
    ASSUME NEW S, outq \in Seq(S), Len(outq) <= BufferCap, NEW f \in S
    PROVE  Emitted(f) \in Seq(S) /\ Len(Emitted(f)) <= BufferCap
BY ChannelAssumption DEF Emitted

(* A step of the handler of r, which writes nothing but its own state, its registration and
   the buffer. *)
HandlerStep(r) ==
    /\ conn' \in [Requests -> ConnStates]
    /\ \A q \in Requests \ {r} : conn'[q] = conn[q] /\ (q \in pending' <=> q \in pending)
    /\ conn[r].st # "new" => conn'[r].st # "new" /\ conn'[r].host = conn[r].host
    /\ pending' \subseteq Requests /\ steady' \subseteq Requests
    /\ UNCHANGED <<answer, serving, backlog, link, forward, bridgeVars, mail>>

LEMMA HandlerLater ==
    ASSUME ChannelInv, NEW r \in Requests, HandlerStep(r)
    PROVE  Later
BY DEF HandlerStep, Later, bridgeVars, ChannelInv, RequestsOK

LEMMA HandlerKeeps ==
    ASSUME ChannelInv, NEW r \in Requests, HandlerStep(r),
           outq' \in Seq(AskedFrames'), Len(outq') <= BufferCap, RequestOK(r)'
    PROVE  ChannelInv'
<1>1. Later
  BY HandlerLater
<1>2. QueuesOK'
  BY <1>1, QueuesStay DEF ChannelInv, QueuesOK, HandlerStep
<1>3. PeersOK' /\ BridgeOK' /\ ReportsOK'
  BY DEF ChannelInv, PeersOK, BridgeOK, ReportsOK, HandlerStep, bridgeVars
<1>4. ASSUME NEW q \in Requests PROVE RequestOK(q)'
  BY <1>1, RequestStays DEF ChannelInv, HandlerStep
<1>5. RequestsOK'
  BY <1>4 DEF ChannelInv, RequestsOK, HandlerStep
<1> QED BY <1>2, <1>3, <1>5 DEF ChannelInv

(* A handler that emits an event. *)
LEMMA EmitterKeeps ==
    ASSUME ChannelInv, NEW r \in Requests, HandlerStep(r), RequestOK(r)',
           NEW k \in {"opened", "allowed", "denied", "closed", "failed"}, outq' = Emitted(Event(r, k))
    PROVE  ChannelInv'
<1>1. Later
  BY HandlerLater
<1>2. Event(r, k) \in AskedFrames'
  BY DEF Event, AskedFrames, Frames
<1>3. outq \in Seq(AskedFrames') /\ Len(outq) <= BufferCap
  BY <1>1, QueuesStay DEF ChannelInv, QueuesOK
<1> QED BY <1>2, <1>3, EmitKeeps, HandlerKeeps

LEMMA OpenKeeps ==
    ASSUME ChannelInv, NEW r \in Requests, NEW h \in Hosts, Open(r, h)
    PROVE  ChannelInv'
<1>1. conn \in [Requests -> ConnStates]
  BY DEF ChannelInv, RequestsOK
<1>2. /\ conn' \in [Requests -> ConnStates] /\ conn'[r].st = "opened" /\ conn'[r].host = h
      /\ \A q \in Requests \ {r} : conn'[q] = conn[q]
  BY <1>1 DEF Open, ConnStates
<1>3. HandlerStep(r)
  BY <1>2 DEF Open, HandlerStep, ChannelInv, RequestsOK, ReportsOK
<1>4. RequestOK(r)'
  BY <1>2 DEF Open, RequestOK, ChannelInv, RequestsOK
<1> QED BY <1>3, <1>4, EmitterKeeps DEF Open

(* The handler concludes: what it did and why. *)
LEMMA ConcludeSteps ==
    ASSUME ChannelInv, NEW r \in Requests, NEW allowed \in BOOLEAN,
           NEW reason \in {Nil, "policy", "decider", "decider_timeout"}, Conclude(r, allowed, reason)
    PROVE  /\ conn' \in [Requests -> ConnStates] /\ conn'[r].host = conn[r].host
           /\ conn'[r].st = IF allowed THEN "allowed" ELSE "denied"
           /\ \A q \in Requests \ {r} : conn'[q] = conn[q]
           /\ \E k \in {"allowed", "denied"} :
                 outq' = Emitted(Event(r, k)) /\ k = IF allowed THEN "allowed" ELSE "denied"
<1>1. conn \in [Requests -> ConnStates]
  BY DEF ChannelInv, RequestsOK
<1> QED BY <1>1 DEF Conclude, ConnStates

LEMMA SettleKeeps ==
    ASSUME ChannelInv, NEW r \in Requests, Settle(r)
    PROVE  ChannelInv'
<1> DEFINE ok == Evaluate(conn[r].host) = "allow"
<1>1. Conclude(r, ok, IF ok THEN Nil ELSE "policy")
  BY DEF Settle
<1>2. /\ conn' \in [Requests -> ConnStates] /\ conn'[r].host = conn[r].host
      /\ conn'[r].st = IF ok THEN "allowed" ELSE "denied"
      /\ \A q \in Requests \ {r} : conn'[q] = conn[q]
      /\ \E k \in {"allowed", "denied"} : outq' = Emitted(Event(r, k))
  BY <1>1, ConcludeSteps
<1>3. HandlerStep(r)
  BY <1>2 DEF Settle, HandlerStep, ChannelInv, RequestsOK, ReportsOK
<1>4. RequestOK(r)'
  <2> HIDE DEF ok
  <2>1. RequestOK(r) /\ conn[r].st = "opened" /\ answer' = answer /\ pending' = pending /\ said' = said
    BY DEF Settle, ChannelInv, RequestsOK, bridgeVars
  <2> QED BY <1>2, <2>1 DEF RequestOK, ok
<1> QED BY <1>2, <1>3, <1>4, EmitterKeeps

LEMMA AnsweredKeeps ==
    ASSUME ChannelInv, NEW r \in Requests, Answered(r)
    PROVE  ChannelInv'
<1> DEFINE ok == answer[r] = "allow"
<1>1. Conclude(r, ok, IF ok THEN Nil ELSE "decider")
  BY DEF Answered
<1>2. /\ conn' \in [Requests -> ConnStates] /\ conn'[r].host = conn[r].host
      /\ conn'[r].st = IF ok THEN "allowed" ELSE "denied"
      /\ \A q \in Requests \ {r} : conn'[q] = conn[q]
      /\ \E k \in {"allowed", "denied"} : outq' = Emitted(Event(r, k))
  BY <1>1, ConcludeSteps
<1>3. HandlerStep(r)
  BY <1>2 DEF Answered, HandlerStep, ChannelInv, RequestsOK, ReportsOK
<1>4. RequestOK(r)'
  <2> HIDE DEF ok
  <2>1. /\ RequestOK(r) /\ conn[r].st = "asking" /\ answer' = answer /\ pending' = pending
        /\ said' = said /\ bridge' = bridge /\ answer[r] # Nil
    BY DEF Answered, ChannelInv, RequestsOK, bridgeVars
  <2>2. SoundVerdict(r, answer[r])'
    BY <1>3, <2>1, HandlerLater, VerdictStays DEF RequestOK, ChannelInv
  <2> QED BY <1>2, <2>1, <2>2 DEF RequestOK, ok, SoundVerdict
<1> QED BY <1>2, <1>3, <1>4, EmitterKeeps

LEMMA GiveUpKeeps ==
    ASSUME ChannelInv, NEW r \in Requests, GiveUp(r)
    PROVE  ChannelInv'
<1>2. /\ conn' \in [Requests -> ConnStates] /\ conn'[r].host = conn[r].host
      /\ conn'[r].st = "denied"
      /\ \A q \in Requests \ {r} : conn'[q] = conn[q]
      /\ \E k \in {"allowed", "denied"} : outq' = Emitted(Event(r, k))
  BY ConcludeSteps DEF GiveUp
<1>3. HandlerStep(r)
  BY <1>2 DEF GiveUp, HandlerStep, ChannelInv, RequestsOK, ReportsOK
<1>4. RequestOK(r)'
  <2>1. RequestOK(r) /\ conn[r].st = "expired" /\ answer' = answer /\ r \notin pending'
    BY DEF GiveUp, ChannelInv, RequestsOK
  <2>2. answer[r] # Nil => SoundVerdict(r, answer[r])'
    BY <1>3, <2>1, HandlerLater, VerdictStays DEF RequestOK, ChannelInv
  <2> QED BY <1>2, <2>1, <2>2 DEF RequestOK
<1> QED BY <1>2, <1>3, <1>4, EmitterKeeps

LEMMA AskKeeps ==
    ASSUME ChannelInv, NEW r \in Requests, Ask(r)
    PROVE  ChannelInv'
<1>0. RequestOK(r) /\ conn[r].st = "opened" /\ Evaluate(conn[r].host) = "decide" /\ answer' = answer
      /\ conn \in [Requests -> ConnStates] /\ said' = said
  BY DEF Ask, ChannelInv, RequestsOK, bridgeVars
<1>1. CASE Len(outq) < BufferCap
  <2>1. /\ conn' \in [Requests -> ConnStates] /\ conn'[r].host = conn[r].host /\ conn'[r].st = "asking"
        /\ \A q \in Requests \ {r} : conn'[q] = conn[q]
    BY <1>0, <1>1 DEF Ask, ConnStates
  <2>2. HandlerStep(r)
    BY <1>1, <2>1 DEF Ask, HandlerStep, ChannelInv, RequestsOK, ReportsOK
  <2>3. RequestOK(r)'
    BY <1>0, <1>1, <2>1 DEF Ask, RequestOK
  <2>4. DecisionRequest(r) \in AskedFrames'
    BY <2>1 DEF DecisionRequest, AskedFrames, Frames
  <2>5. outq \in Seq(AskedFrames') /\ outq' = Append(outq, DecisionRequest(r))
    BY <1>1, <2>2, HandlerLater, QueuesStay DEF ChannelInv, Ask
  <2>6. outq' \in Seq(AskedFrames') /\ Len(outq') <= BufferCap
    BY <1>1, <2>4, <2>5, ChannelAssumption
  <2> QED BY <2>2, <2>3, <2>6, HandlerKeeps
<1>2. CASE ~(Len(outq) < BufferCap)
  <2>1. /\ conn' \in [Requests -> ConnStates] /\ conn'[r].host = conn[r].host
        /\ conn'[r].st = "denied"
        /\ \A q \in Requests \ {r} : conn'[q] = conn[q]
        /\ \E k \in {"allowed", "denied"} : outq' = Emitted(Event(r, k))
    BY <1>2, ConcludeSteps DEF Ask
  <2>2. HandlerStep(r)
    BY <1>2, <2>1 DEF Ask, HandlerStep, ChannelInv, RequestsOK, ReportsOK
  <2>3. RequestOK(r)'
    BY <1>0, <1>2, <2>1 DEF Ask, RequestOK
  <2> QED BY <2>1, <2>2, <2>3, EmitterKeeps
<1> QED BY <1>1, <1>2

LEMMA ExpireKeeps ==
    ASSUME ChannelInv, NEW r \in Requests, Expire(r)
    PROVE  ChannelInv'
<1>0. RequestOK(r) /\ conn \in [Requests -> ConnStates]
  BY DEF ChannelInv, RequestsOK
<1>1. /\ conn' \in [Requests -> ConnStates] /\ conn'[r].host = conn[r].host /\ conn'[r].st = "expired"
      /\ \A q \in Requests \ {r} : conn'[q] = conn[q]
  BY <1>0 DEF Expire, ConnStates
<1>2. HandlerStep(r)
  BY <1>1 DEF Expire, HandlerStep, ChannelInv, RequestsOK, ReportsOK
<1>3. RequestOK(r)'
  BY <1>0, <1>1 DEF Expire, RequestOK
<1>4. outq' \in Seq(AskedFrames') /\ Len(outq') <= BufferCap
  BY <1>2, HandlerLater, QueuesStay DEF ChannelInv, QueuesOK, Expire
<1> QED BY <1>2, <1>3, <1>4, HandlerKeeps

LEMMA CloseKeeps ==
    ASSUME ChannelInv, NEW r \in Requests, Close(r)
    PROVE  ChannelInv'
<1>0. RequestOK(r) /\ conn \in [Requests -> ConnStates] /\ conn[r].st = "allowed"
      /\ answer' = answer /\ pending' = pending /\ said' = said
  BY DEF ChannelInv, RequestsOK, Close, bridgeVars
<1>1. PICK k \in {"closed", "failed"} : conn' = [conn EXCEPT ![r].st = k] /\ outq' = Emitted(Event(r, k))
  BY DEF Close
<1>2. /\ conn' \in [Requests -> ConnStates] /\ conn'[r].host = conn[r].host /\ conn'[r].st = k
      /\ \A q \in Requests \ {r} : conn'[q] = conn[q]
  BY <1>0, <1>1 DEF ConnStates
<1>3. HandlerStep(r)
  BY <1>2 DEF Close, HandlerStep, ChannelInv, RequestsOK, ReportsOK
<1>4. RequestOK(r)'
  <2>1. answer[r] # Nil => SoundVerdict(r, answer[r])'
    BY <1>0, <1>3, HandlerLater, VerdictStays DEF RequestOK, ChannelInv
  <2> QED BY <1>0, <1>2, <2>1 DEF RequestOK
<1> QED BY <1>1, <1>3, <1>4, EmitterKeeps

LEMMA HandlersKeep ==
    ASSUME ChannelInv, NEW r \in Requests, Handlers(r)
    PROVE  ChannelInv'
BY OpenKeeps, SettleKeeps, AskKeeps, AnsweredKeeps, ExpireKeeps, GiveUpKeeps, CloseKeeps DEF Handlers

-----------------------------------------------------------------------------
(* A link, seen by its fields. *)
LEMMA LinkFields ==
    ASSUME QueuesOK, NEW c \in Links
    PROVE  /\ link[c].st \in {"none", "up", "closed"} /\ DOMAIN link[c] = {"st", "up", "down"}
           /\ link[c].up \in Seq(AskedFrames) /\ link[c].down \in Seq(SoundDecisions)
BY DEF QueuesOK, LinksOf

(* A step in which no request moves, and what is on its way stays as sound as it was. *)
LEMMA StillKeeps ==
    ASSUME ChannelInv, UNCHANGED <<conn, answer, pending>>, Later, QueuesOK', PeersOK', BridgeOK', ReportsOK'
    PROVE  ChannelInv'
<1>1. ASSUME NEW r \in Requests PROVE RequestOK(r)'
  BY RequestStays DEF ChannelInv
<1> QED BY <1>1 DEF ChannelInv, RequestsOK

(* Nobody learns anything. *)
LEMMA SameSets ==
    ASSUME UNCHANGED <<conn, said>>, bridge'.cache = bridge.cache
    PROVE  Later /\ AskedFrames' = AskedFrames /\ SoundDecisions' = SoundDecisions
BY DEF Later, AskedFrames, SoundDecisions, SoundVerdict

LEMMA AcceptKeeps ==
    ASSUME ChannelInv, Accept
    PROVE  ChannelInv'
<1>1. Later /\ AskedFrames' = AskedFrames /\ SoundDecisions' = SoundDecisions
  BY SameSets DEF Accept, sidecarVars, bridgeVars
<1>2. QueuesOK' /\ BridgeOK' /\ ReportsOK'
  BY <1>1 DEF Accept, sidecarVars, bridgeVars, ChannelInv, QueuesOK, BridgeOK, ReportsOK
<1>3. Head(backlog) \in Links /\ Tail(backlog) \in Seq(Links)
  BY DEF Accept, ChannelInv, PeersOK
<1>4. PeersOK'
  BY <1>3 DEF Accept, ChannelInv, PeersOK, Links
<1> QED BY <1>1, <1>2, <1>4, StillKeeps DEF Accept, sidecarVars

LEMMA WriteKeeps ==
    ASSUME ChannelInv, Write
    PROVE  ChannelInv'
<1>1. Later /\ AskedFrames' = AskedFrames /\ SoundDecisions' = SoundDecisions
  BY SameSets DEF Write, bridgeVars
<1>2. BridgeOK' /\ ReportsOK'
  BY <1>1 DEF Write, bridgeVars, ChannelInv, BridgeOK, ReportsOK
<1>3. serving.link \in Links
  BY DEF Write, ChannelInv, PeersOK
<1>4. /\ Head(outq) \in AskedFrames /\ Tail(outq) \in Seq(AskedFrames) /\ Len(Tail(outq)) <= BufferCap
  BY ChannelAssumption DEF Write, ChannelInv, QueuesOK
<1>5. PeersOK'
  BY <1>3 DEF Write, ChannelInv, PeersOK
<1>6. link' \in [Links -> LinksOf(AskedFrames, SoundDecisions)]
  <2>1. CASE link' = [link EXCEPT ![serving.link].up = Append(@, Head(outq))]
    <3>1. Append(link[serving.link].up, Head(outq)) \in Seq(AskedFrames)
      BY <1>3, <1>4, LinkFields DEF ChannelInv
    <3> QED BY <1>3, <2>1, <3>1 DEF ChannelInv, QueuesOK, LinksOf
  <2>2. CASE link' = link
    BY <2>2 DEF ChannelInv, QueuesOK
  <2> QED BY <2>1, <2>2 DEF Write
<1>7. QueuesOK'
  BY <1>1, <1>4, <1>6 DEF Write, ChannelInv, QueuesOK
<1> QED BY <1>1, <1>2, <1>5, <1>7, StillKeeps DEF Write

LEMMA ReadEndsKeeps ==
    ASSUME ChannelInv, ReadEnds
    PROVE  ChannelInv'
<1>1. Later /\ AskedFrames' = AskedFrames /\ SoundDecisions' = SoundDecisions
  BY SameSets DEF ReadEnds, sidecarVars, bridgeVars
<1>2. QueuesOK' /\ BridgeOK' /\ ReportsOK'
  BY <1>1 DEF ReadEnds, sidecarVars, bridgeVars, ChannelInv, QueuesOK, BridgeOK, ReportsOK
<1>3. PeersOK'
  BY DEF ReadEnds, ChannelInv, PeersOK
<1> QED BY <1>1, <1>2, <1>3, StillKeeps DEF ReadEnds, sidecarVars

(* A decision that is read is for whoever still waits, and it is sound. *)
LEMMA ReadKeeps ==
    ASSUME ChannelInv, Read
    PROVE  ChannelInv'
<1> DEFINE c == serving.link
           d == Head(link[c].down)
<1>1. Later /\ AskedFrames' = AskedFrames /\ SoundDecisions' = SoundDecisions
  BY SameSets DEF Read, bridgeVars
<1>2. BridgeOK' /\ ReportsOK' /\ PeersOK'
  BY <1>1 DEF Read, bridgeVars, ChannelInv, BridgeOK, ReportsOK, PeersOK
<1>3. c \in Links
  BY DEF Read, ChannelInv, PeersOK
<1>4. d \in SoundDecisions /\ Tail(link[c].down) \in Seq(SoundDecisions)
  BY <1>3, LinkFields DEF Read, ChannelInv
<1>5. link' \in [Links -> LinksOf(AskedFrames, SoundDecisions)]
  BY <1>3, <1>4 DEF Read, ChannelInv, QueuesOK, LinksOf
<1>6. QueuesOK'
  BY <1>1, <1>5 DEF Read, ChannelInv, QueuesOK
<1>7. PICK x \in Requests, a \in {"allow", "deny"} :
      /\ SoundVerdict(x, a)
      /\ pending' = pending \ {x}
      /\ answer' = IF x \in pending /\ conn[x].st = "asking"
                   THEN [answer EXCEPT ![x] = a] ELSE answer
  BY <1>4 DEF SoundDecisions, Decisions, Read
<1>8. ASSUME NEW r \in Requests, r # x PROVE RequestOK(r)'
  <2>1. answer'[r] = answer[r] /\ (r \in pending' <=> r \in pending) /\ conn'[r] = conn[r]
    BY <1>7, <1>8 DEF ChannelInv, RequestsOK, Read
  <2> QED BY <1>1, <2>1, RequestStays DEF ChannelInv
<1>9. RequestOK(x)'
  <2>1. RequestOK(x) /\ a # Nil /\ conn' = conn /\ said' = said
    BY <1>7, ChannelAssumption DEF ChannelInv, RequestsOK, Read, bridgeVars
  <2>2. SoundVerdict(x, a)'
    BY <1>1, <1>7, VerdictStays DEF ChannelInv
  <2>3. CASE x \in pending /\ conn[x].st = "asking"
    BY <1>7, <2>1, <2>2, <2>3 DEF RequestOK, ChannelInv, RequestsOK
  <2>4. CASE ~(x \in pending /\ conn[x].st = "asking")
    <3>1. answer[x] # Nil => SoundVerdict(x, answer[x])'
      BY <1>1, <1>7, <2>1, VerdictStays DEF RequestOK, ChannelInv
    <3> QED BY <1>7, <2>1, <2>4, <3>1 DEF RequestOK
  <2> QED BY <2>3, <2>4
<1>10. answer' \in [Requests -> {Nil, "allow", "deny"}] /\ pending' \subseteq Requests
  BY <1>7 DEF ChannelInv, RequestsOK
<1>11. RequestsOK'
  BY <1>8, <1>9, <1>10 DEF Read, ChannelInv, RequestsOK
<1> QED BY <1>2, <1>6, <1>11 DEF ChannelInv

LEMMA SidecarKeeps ==
    ASSUME ChannelInv, Sidecar
    PROVE  ChannelInv'
BY AcceptKeeps, WriteKeeps, ReadKeeps, ReadEndsKeeps DEF Sidecar

-----------------------------------------------------------------------------
(* What is left on a broken link is the beginning of what was there. *)
LEMMA BrokenLink ==
    ASSUME NEW F, NEW D, NEW l \in LinksOf(F, D), NEW b \in Broken(l)
    PROVE  /\ b \in LinksOf(F, D) /\ b.st = "closed" /\ Len(b.up) <= Len(l.up)
           /\ \A k \in 1..Len(b.up) : b.up[k] = l.up[k]
<1>1. PICK i \in 0..Len(l.up), j \in 0..Len(l.down) :
          b = [st |-> "closed", up |-> SubSeq(l.up, 1, i), down |-> SubSeq(l.down, 1, j)]
  BY DEF Broken
<1>2. l.up \in Seq(F) /\ l.down \in Seq(D)
  BY DEF LinksOf
<1>3. /\ SubSeq(l.up, 1, i) \in Seq(F) /\ Len(SubSeq(l.up, 1, i)) = i
      /\ \A k \in 1..i : SubSeq(l.up, 1, i)[k] = l.up[k]
  <2>1. i \in Int /\ \A k \in 1..i : l.up[k] \in F
    BY <1>2
  <2>2. /\ SubSeq(l.up, 1, i) \in Seq(F) /\ Len(SubSeq(l.up, 1, i)) = IF 1 <= i THEN i - 1 + 1 ELSE 0
        /\ \A k \in 1..i - 1 + 1 : SubSeq(l.up, 1, i)[k] = l.up[1 + k - 1]
    BY <2>1, SubSeqProperties
  <2> QED BY <2>2
<1>4. SubSeq(l.down, 1, j) \in Seq(D)
  <2>1. j \in Int /\ \A k \in 1..j : l.down[k] \in D
    BY <1>2
  <2> QED BY <2>1, SubSeqProperties
<1> QED BY <1>1, <1>2, <1>3, <1>4 DEF LinksOf

LEMMA LinkDropsKeeps ==
    ASSUME ChannelInv, NEW c \in Links, LinkDrops(c)
    PROVE  ChannelInv'
<1>1. Later /\ AskedFrames' = AskedFrames /\ SoundDecisions' = SoundDecisions
  BY SameSets DEF LinkDrops, sidecarVars, bridgeVars
<1>2. PeersOK' /\ BridgeOK' /\ ReportsOK'
  BY DEF LinkDrops, bridgeVars, ChannelInv, PeersOK, BridgeOK, ReportsOK
<1>3. link' \in [Links -> LinksOf(AskedFrames, SoundDecisions)]
  BY BrokenLink DEF LinkDrops, ChannelInv, QueuesOK
<1>4. QueuesOK'
  BY <1>1, <1>3 DEF LinkDrops, sidecarVars, ChannelInv, QueuesOK
<1> QED BY <1>1, <1>2, <1>4, StillKeeps DEF LinkDrops, sidecarVars

LEMMA ForwardReadsKeeps ==
    ASSUME ChannelInv, NEW c \in Links, ForwardReads(c)
    PROVE  ChannelInv'
<1>1. Later /\ AskedFrames' = AskedFrames /\ SoundDecisions' = SoundDecisions
  BY SameSets DEF ForwardReads, sidecarVars, bridgeVars
<1>2. PeersOK' /\ BridgeOK' /\ ReportsOK'
  BY DEF ForwardReads, bridgeVars, ChannelInv, PeersOK, BridgeOK, ReportsOK
<1>3. Head(link[c].up) \in AskedFrames /\ Tail(link[c].up) \in Seq(AskedFrames)
  BY LinkFields DEF ForwardReads, ChannelInv
<1>4. link' \in [Links -> LinksOf(AskedFrames, SoundDecisions)]
  BY <1>3 DEF ForwardReads, ChannelInv, QueuesOK, LinksOf
<1>5. mail' \in Seq(MailOf(AskedFrames))
  <2>1. Data(Head(link[c].up)) \in MailOf(AskedFrames)
    BY <1>3 DEF MailOf
  <2> QED BY <2>1, AppendProperties DEF ForwardReads, ChannelInv, QueuesOK
<1>6. QueuesOK'
  BY <1>1, <1>4, <1>5 DEF ForwardReads, sidecarVars, ChannelInv, QueuesOK
<1> QED BY <1>1, <1>2, <1>6, StillKeeps DEF ForwardReads, sidecarVars

LEMMA ForwardEndsKeeps ==
    ASSUME ChannelInv, NEW c \in Links, ForwardEof(c) \/ ForwardFails(c)
    PROVE  ChannelInv'
<1>1. Later /\ AskedFrames' = AskedFrames /\ SoundDecisions' = SoundDecisions
  BY SameSets DEF ForwardEof, ForwardFails, sidecarVars, bridgeVars
<1>2. PeersOK' /\ BridgeOK' /\ ReportsOK'
  BY DEF ForwardEof, ForwardFails, bridgeVars, ChannelInv, PeersOK, BridgeOK, ReportsOK
<1>3. mail' \in Seq(MailOf(AskedFrames))
  <2> DEFINE M == MailOf(AskedFrames)
  <2>1. Eof \in M /\ Down(c) \in M
    BY DEF MailOf
  <2>2. mail \in Seq(M) /\ (mail' = mail \o <<Eof, Down(c)>> \/ mail' = Append(mail, Down(c)))
    BY DEF ForwardEof, ForwardFails, ChannelInv, QueuesOK
  <2> HIDE DEF M
  <2>3. <<Eof, Down(c)>> \in Seq(M)
    BY <2>1
  <2>4. mail \o <<Eof, Down(c)>> \in Seq(M)
    BY <2>2, <2>3, ConcatProperties
  <2>5. Append(mail, Down(c)) \in Seq(M)
    BY <2>1, <2>2, AppendProperties
  <2>6. mail' \in Seq(M)
    BY <2>2, <2>4, <2>5
  <2> QED BY <2>6 DEF M
<1>4. QueuesOK'
  BY <1>1, <1>3 DEF ForwardEof, ForwardFails, sidecarVars, ChannelInv, QueuesOK
<1> QED BY <1>1, <1>2, <1>4, StillKeeps DEF ForwardEof, ForwardFails, sidecarVars

-----------------------------------------------------------------------------
(* The next link is one of the links. *)
LEMMA UsedType == Used \in Nat
<1>1. IsFiniteSet(1..MaxLinks)
  BY FS_Interval, ChannelAssumption
<1>2. IsFiniteSet({c \in Links : link[c].st # "none"})
  BY <1>1, FS_Subset DEF Links
<1> QED BY <1>2, FS_CardinalityType DEF Used

(* A dial that succeeds. *)
LEMMA ConnectedKeeps ==
    ASSUME ChannelInv, NEW b, Connected(b), DOMAIN b = DOMAIN bridge, b.st = "up",
           b.timers \in Nat, b.cache = bridge.cache,
           UNCHANGED <<sidecarVars, serving, told, said, steady>>
    PROVE  ChannelInv'
<1>1. Used + 1 \in Links /\ Used + 1 \in 0..MaxLinks
  BY UsedType, ChannelAssumption DEF Connected, Links
<1>2. /\ DOMAIN bridge' = DOMAIN b /\ bridge'.st = b.st /\ bridge'.pf = Used + 1 /\ bridge'.attempts = 0
      /\ bridge'.timers = b.timers /\ bridge'.cache = bridge.cache
  BY DEF Connected, ChannelInv, BridgeOK
<1>3. BridgeOK' /\ ReportsOK'
  BY <1>1, <1>2, ChannelAssumption DEF ChannelInv, BridgeOK, ReportsOK
<1>4. PeersOK'
  BY <1>1 DEF Connected, ChannelInv, PeersOK
<1>5. Later /\ AskedFrames' = AskedFrames /\ SoundDecisions' = SoundDecisions
  BY <1>2, SameSets DEF sidecarVars
<1>6. link' \in [Links -> LinksOf(AskedFrames, SoundDecisions)]
  BY <1>1 DEF Connected, ChannelInv, QueuesOK, LinksOf
<1>7. mail' \in Seq(MailOf(AskedFrames))
  <2>1. Eof \in MailOf(AskedFrames)
    BY DEF MailOf
  <2> QED BY <2>1, AppendProperties DEF Connected, ChannelInv, QueuesOK
<1>8. QueuesOK'
  BY <1>5, <1>6, <1>7 DEF ChannelInv, QueuesOK, sidecarVars
<1> QED BY <1>3, <1>4, <1>5, <1>8, StillKeeps DEF sidecarVars

(* A step of the bridge alone: its record, and less mail. *)
LEMMA BridgeStepKeeps ==
    ASSUME ChannelInv, BridgeOK', bridge'.cache = bridge.cache, mail' \in Seq(MailOf(AskedFrames)),
           steady' \subseteq Requests, UNCHANGED <<sidecarVars, serving, backlog, link, forward, told, said>>
    PROVE  ChannelInv'
<1>1. Later /\ AskedFrames' = AskedFrames /\ SoundDecisions' = SoundDecisions
  BY SameSets DEF sidecarVars
<1>2. QueuesOK' /\ PeersOK' /\ ReportsOK'
  BY <1>1 DEF ChannelInv, QueuesOK, PeersOK, ReportsOK, sidecarVars
<1> QED BY <1>1, <1>2, StillKeeps DEF sidecarVars

LEMMA TerminateKeeps ==
    ASSUME ChannelInv, Terminate, UNCHANGED <<sidecarVars, serving, backlog, mail, told, said>>
    PROVE  ChannelInv'
<1>1. BridgeOK' /\ bridge'.cache = bridge.cache
  BY DEF Terminate, ChannelInv, BridgeOK
<1>2. Later /\ AskedFrames' = AskedFrames /\ SoundDecisions' = SoundDecisions
  BY <1>1, SameSets DEF sidecarVars
<1>3. ReportsOK' /\ PeersOK'
  BY DEF Terminate, ChannelInv, ReportsOK, PeersOK
<1>4. link' \in [Links -> LinksOf(AskedFrames, SoundDecisions)]
  <2>1. bridge.pf # 0 => bridge.pf \in Links
    BY ChannelAssumption DEF ChannelInv, BridgeOK, Links
  <2> QED BY <2>1, BrokenLink DEF Terminate, ChannelInv, QueuesOK
<1>5. QueuesOK'
  BY <1>2, <1>4 DEF ChannelInv, QueuesOK, sidecarVars
<1> QED BY <1>1, <1>2, <1>3, <1>5, StillKeeps DEF sidecarVars

LEMMA StartKeeps ==
    ASSUME ChannelInv, Start
    PROVE  ChannelInv'
<1>1. CASE Connected([bridge EXCEPT !.st = "up"])
  <2> DEFINE b == [bridge EXCEPT !.st = "up"]
  <2>1. DOMAIN b = DOMAIN bridge /\ b.st = "up" /\ b.timers \in Nat /\ b.cache = bridge.cache
    BY DEF ChannelInv, BridgeOK
  <2> HIDE DEF b
  <2> QED BY <1>1, <2>1, ConnectedKeeps DEF Start, b
<1>2. CASE /\ bridge' = [bridge EXCEPT !.st = "up", !.timers = 1]
           /\ UNCHANGED <<forward, backlog, link, mail>>
  <2>1. BridgeOK' /\ bridge'.cache = bridge.cache
    BY <1>2 DEF ChannelInv, BridgeOK
  <2> QED BY <1>2, <2>1, BridgeStepKeeps DEF Start, ChannelInv, QueuesOK, ReportsOK
<1> QED BY <1>1, <1>2 DEF Start

LEMMA ReconnectKeeps ==
    ASSUME ChannelInv, Reconnect
    PROVE  ChannelInv'
<1>1. CASE Connected([bridge EXCEPT !.timers = @ - 1]) /\ UNCHANGED steady
  <2> DEFINE b == [bridge EXCEPT !.timers = @ - 1]
  <2>1. DOMAIN b = DOMAIN bridge /\ b.st = "up" /\ b.timers \in Nat /\ b.cache = bridge.cache
    BY DEF ChannelInv, BridgeOK, Reconnect
  <2> HIDE DEF b
  <2> QED BY <1>1, <2>1, ConnectedKeeps DEF Reconnect, b
<1>2. CASE Terminate /\ UNCHANGED <<backlog, mail>>
  BY <1>2, TerminateKeeps DEF Reconnect
<1>3. CASE /\ bridge.attempts + 1 < MaxReconnects
           /\ bridge' = [bridge EXCEPT !.attempts = @ + 1]
           /\ UNCHANGED <<forward, backlog, link, mail, steady>>
  <2>1. BridgeOK' /\ bridge'.cache = bridge.cache
    BY <1>3, ChannelAssumption DEF ChannelInv, BridgeOK
  <2> QED BY <1>3, <2>1, BridgeStepKeeps DEF Reconnect, ChannelInv, QueuesOK, ReportsOK
<1> QED BY <1>1, <1>2, <1>3 DEF Reconnect

(* The least of a set of positions is one of them. *)
LEMMA MinOf ==
    ASSUME NEW S, S \subseteq Nat, S # {}
    PROVE  Min(S) \in S
<1> DEFINE Less == OpToRel(<, Nat)
<1>1. PICK x \in S : \A y \in S : <<y, x>> \notin Less
  <2> HIDE DEF Less
  <2> QED BY NatLessThanWellFounded, WFMin, Zenon DEF Less
<1>2. \A y \in S : x <= y
  <2>1. \A y \in S : ~(y < x)
    BY <1>1 DEF OpToRel
  <2> QED BY <2>1, SMT
<1> QED BY <1>2 DEF Min

(* A message taken out of the mailbox leaves the others. *)
LEMMA RemoveKeeps ==
    ASSUME NEW S, NEW s \in Seq(S), NEW e
    PROVE  RemoveFirst(s, e) \in Seq(S)
<1>1. CASE \E i \in 1..Len(s) : s[i] = e
  <2> DEFINE k == SelectInSeq(s, LAMBDA v : v = e)
  <2>1. k \in 1..Len(s)
    <3> DEFINE I == {i \in 1..Len(s) : s[i] = e}
    <3>1. I # {} /\ I \subseteq Nat /\ k = IF I # {} THEN Min(I) ELSE 0
      BY <1>1 DEF SelectInSeq
    <3> HIDE DEF k
    <3>2. k \in I
      <4> HIDE DEF I
      <4> QED BY <3>1, MinOf
    <3> QED BY <3>2
  <2> HIDE DEF k
  <2>2. SubSeq(s, 1, k - 1) \in Seq(S) /\ SubSeq(s, k + 1, Len(s)) \in Seq(S)
    <3>1. Len(s) \in Nat /\ \A i \in 1..Len(s) : s[i] \in S
      OBVIOUS
    <3> QED BY <2>1, <3>1, SubSeqProperties
  <2>3. RemoveAt(s, k) \in Seq(S)
    BY <2>2, ConcatProperties DEF RemoveAt
  <2> QED BY <1>1, <2>3 DEF RemoveFirst, k
<1>2. CASE ~ \E i \in 1..Len(s) : s[i] = e
  BY <1>2 DEF RemoveFirst
<1> QED BY <1>1, <1>2

(* The channel is lost, and a redial is scheduled. *)
LEMMA RescheduledKeeps ==
    ASSUME ChannelInv, bridge' = Rescheduled
    PROVE  BridgeOK' /\ bridge'.cache = bridge.cache
BY ChannelAssumption DEF ChannelInv, BridgeOK, Rescheduled

LEMMA HandleEofKeeps ==
    ASSUME ChannelInv, HandleEof
    PROVE  ChannelInv'
<1>1. Tail(mail) \in Seq(MailOf(AskedFrames))
  BY HeadTailProperties DEF HandleEof, ChannelInv, QueuesOK
<1>2. mail' \in Seq(MailOf(AskedFrames))
  BY <1>1, RemoveKeeps DEF HandleEof
<1> QED BY <1>2, RescheduledKeeps, BridgeStepKeeps DEF HandleEof

LEMMA HandleDownKeeps ==
    ASSUME ChannelInv, HandleDown
    PROVE  ChannelInv'
<1>1. mail' \in Seq(MailOf(AskedFrames))
  BY HeadTailProperties DEF HandleDown, ChannelInv, QueuesOK
<1>2. BridgeOK' /\ bridge'.cache = bridge.cache
  BY RescheduledKeeps DEF HandleDown, ChannelInv, BridgeOK
<1>3. steady' \subseteq Requests
  BY DEF HandleDown, ChannelInv, ReportsOK
<1> QED BY <1>1, <1>2, <1>3, BridgeStepKeeps DEF HandleDown

(* The message is a frame of a request. *)
LEMMA HeadIsData ==
    ASSUME ChannelInv, mail # <<>>, Head(mail).type = "data"
    PROVE  \E f \in AskedFrames : Head(mail) = Data(f)
<1>1. Head(mail) \in MailOf(AskedFrames)
  BY HeadTailProperties DEF ChannelInv, QueuesOK
<1> QED BY <1>1 DEF MailOf, Eof, Down

(* What a decision does to the cache: an answer that is there stays. *)
LEMMA DecideFacts ==
    ASSUME ChannelInv, NEW h \in Hosts, NEW s \in DeciderSays
    PROVE  LET d == Decide(bridge.cache, h, s)
           IN  /\ d.decision \in DeciderSays
               /\ \A g \in DOMAIN bridge.cache : g \in DOMAIN d.cache /\ d.cache[g] = bridge.cache[g]
               /\ \A g \in DOMAIN d.cache : g \in Hosts /\ d.cache[g] \in DeciderSays
               /\ Caching => h \in DOMAIN d.cache /\ d.cache[h] = d.decision
BY DEF Decide, ChannelInv, BridgeOK

(* The decision is sent to the link that is there, or to none. *)
LEMMA SendKeeps ==
    ASSUME NEW F, NEW D, link \in [Links -> LinksOf(F, D)], bridge.pf \in 0..MaxLinks,
           NEW r, NEW decision, SendDecision(r, decision),
           [id |-> r, action |-> IF decision = "allow" THEN "allow" ELSE "deny"] \in D
    PROVE  link' \in [Links -> LinksOf(F, D)]
<1> DEFINE d == [id |-> r, action |-> IF decision = "allow" THEN "allow" ELSE "deny"]
           c == bridge.pf
<1>0. d \in D
  OBVIOUS
<1>1. CASE c # 0 /\ forward[c] = "up" /\ link[c].st = "up"
  <2>1. c \in Links /\ link' = [link EXCEPT ![c].down = Append(@, d)]
    BY <1>1, ChannelAssumption DEF SendDecision, Links
  <2> HIDE DEF d, c
  <2>2. Append(link[c].down, d) \in Seq(D)
    BY <1>0, <2>1 DEF LinksOf
  <2> QED BY <2>1, <2>2 DEF LinksOf
<1>2. CASE ~(c # 0 /\ forward[c] = "up" /\ link[c].st = "up")
  BY <1>2 DEF SendDecision
<1> QED BY <1>1, <1>2

LEMMA HandleDataKeeps ==
    ASSUME ChannelInv, HandleData
    PROVE  ChannelInv'
<1>0. PICK f \in AskedFrames : Head(mail) = Data(f)
  BY HeadIsData DEF HandleData
<1>1. HandleLine(f)
  BY <1>0 DEF HandleData, Data
<1>2. f \in Frames /\ f.id \in Requests
  BY DEF AskedFrames, Frames
<1>3. CASE f.type # "decision_request"
  <2>1. told' = [told EXCEPT ![f.id] = Append(@, f.type)] /\ UNCHANGED <<bridge, link, said>>
    BY <1>1, <1>3 DEF HandleLine
  <2>2. Later /\ AskedFrames' = AskedFrames /\ SoundDecisions' = SoundDecisions
    BY <2>1, SameSets DEF HandleData, sidecarVars
  <2>3. PeersOK' /\ BridgeOK'
    BY <2>1 DEF HandleData, ChannelInv, PeersOK, BridgeOK
  <2>4. Tail(mail) \in Seq(MailOf(AskedFrames))
    BY HeadTailProperties DEF HandleData, ChannelInv, QueuesOK
  <2>5. QueuesOK'
    BY <2>1, <2>2, <2>4 DEF HandleData, ChannelInv, QueuesOK, sidecarVars
  <2>6. ReportsOK'
    <3>1. f.type \in {"opened", "allowed", "denied", "closed", "failed"}
      BY <1>2, <1>3 DEF Frames
    <3> QED BY <1>2, <2>1, <3>1 DEF HandleData, ChannelInv, ReportsOK
  <2> QED BY <2>2, <2>3, <2>5, <2>6, StillKeeps DEF HandleData, sidecarVars
<1>4. CASE f.type = "decision_request"
  <2>0. PICK h : h = conn[f.id].host
    OBVIOUS
  <2>1. PICK s \in DeciderSays :
          /\ SendDecision(f.id, Decide(bridge.cache, h, s).decision)
          /\ bridge' = [bridge EXCEPT !.cache = Decide(bridge.cache, h, s).cache]
          /\ said' = [said EXCEPT ![h] = @ \cup {Decide(bridge.cache, h, s).decision}]
          /\ UNCHANGED told
    BY <1>1, <1>4, <2>0 DEF HandleLine
  <2>2. conn[f.id].st # "new" /\ h \in Hosts
    BY <1>2, <1>4, <2>0 DEF AskedFrames, ChannelInv, RequestsOK, RequestOK
  <2>3. PICK d : d = Decide(bridge.cache, h, s)
    OBVIOUS
  <2>4. /\ d.decision \in DeciderSays
        /\ \A g \in DOMAIN bridge.cache : g \in DOMAIN d.cache /\ d.cache[g] = bridge.cache[g]
        /\ \A g \in DOMAIN d.cache : g \in Hosts /\ d.cache[g] \in DeciderSays
        /\ Caching => h \in DOMAIN d.cache /\ d.cache[h] = d.decision
    BY <2>2, <2>3, DecideFacts
  <2>5. /\ SendDecision(f.id, d.decision) /\ bridge' = [bridge EXCEPT !.cache = d.cache]
        /\ said' = [said EXCEPT ![h] = @ \cup {d.decision}]
    BY <2>1, <2>3
  <2>6. BridgeOK' /\ bridge'.cache = d.cache
    BY <2>4, <2>5 DEF ChannelInv, BridgeOK
  <2>7. said' \in [Hosts -> SUBSET DeciderSays] /\ d.decision \in said'[h] /\ \A g \in Hosts : said[g] \subseteq said'[g]
    BY <2>2, <2>4, <2>5 DEF ChannelInv, ReportsOK
  <2>8. Later
    BY <2>4, <2>6, <2>7 DEF Later, HandleData, sidecarVars
  <2> DEFINE a == IF d.decision = "allow" THEN "allow" ELSE "deny"
  <2>9. SoundVerdict(f.id, a)'
    BY <2>0, <2>2, <2>4, <2>6, <2>7 DEF SoundVerdict, HandleData, sidecarVars
  <2>10. [id |-> f.id, action |-> a] \in SoundDecisions'
    BY <1>2, <2>9 DEF SoundDecisions, Decisions
  <2>11. link' \in [Links -> LinksOf(AskedFrames', SoundDecisions')]
    BY <2>5, <2>8, <2>10, QueuesStay, SendKeeps DEF ChannelInv, BridgeOK
  <2>12. QueuesOK'
    <3>1. mail' \in Seq(MailOf(AskedFrames'))
      BY <2>8, QueuesStay, HeadTailProperties DEF HandleData, ChannelInv
    <3> QED BY <2>8, <2>11, <3>1, QueuesStay DEF HandleData, ChannelInv, QueuesOK, sidecarVars
  <2>13. PeersOK' /\ ReportsOK'
    BY <2>1, <2>7 DEF HandleData, ChannelInv, PeersOK, ReportsOK
  <2> QED BY <2>6, <2>8, <2>12, <2>13, StillKeeps DEF HandleData, sidecarVars
<1> QED BY <1>3, <1>4

LEMMA ChannelStep ==
    ASSUME ChannelInv, Next
    PROVE  ChannelInv'
<1>1. CASE \E r \in Requests : Handlers(r)
  BY <1>1, HandlersKeep
<1>2. CASE Sidecar
  BY <1>2, SidecarKeeps
<1>3. CASE Bridge
  BY <1>3, StartKeeps, ReconnectKeeps, HandleEofKeeps, HandleDownKeeps, HandleDataKeeps DEF Bridge
<1>4. CASE \E c \in Links : LinkDrops(c) \/ ForwardReads(c) \/ ForwardEof(c) \/ ForwardFails(c)
  BY <1>4, LinkDropsKeeps, ForwardReadsKeeps, ForwardEndsKeeps
<1>5. CASE OwnerDown
  BY <1>5, TerminateKeeps DEF OwnerDown
<1> QED BY <1>1, <1>2, <1>3, <1>4, <1>5 DEF Next

LEMMA ChannelStutters ==
    ASSUME ChannelInv, UNCHANGED vars
    PROVE  ChannelInv'
<1>1. Later /\ AskedFrames' = AskedFrames /\ SoundDecisions' = SoundDecisions
  BY SameSets DEF vars
<1>2. QueuesOK' /\ PeersOK' /\ BridgeOK' /\ ReportsOK'
  BY <1>1 DEF vars, ChannelInv, QueuesOK, PeersOK, BridgeOK, ReportsOK
<1> QED BY <1>1, <1>2, StillKeeps DEF vars

(* Every question on its way is one that was asked and every decision on its way one that the
   decider gave for that host, at both ends of a channel that fails in any way it can; who is
   registered is who waits (control.rs, control_bridge.ex). *)
THEOREM ChannelInvariant == Spec => []ChannelInv
<1>1. ChannelInv /\ [Next]_vars => ChannelInv'
  BY ChannelStep, ChannelStutters
<1> QED BY <1>1, ChannelStarts, PTL DEF Spec

(* What is known of the queues and the records implies their types. *)
LEMMA ChannelTyped ==
    ASSUME ChannelInv
    PROVE  TypeOK
<1>1. outq \in Seq(Frames) /\ mail \in Seq(MailOf(Frames))
  <2>1. AskedFrames \subseteq Frames /\ MailOf(AskedFrames) \subseteq MailOf(Frames)
    BY DEF AskedFrames, MailOf
  <2> QED BY <2>1, SeqMonotonic DEF ChannelInv, QueuesOK
<1>2. ASSUME NEW c \in Links PROVE link[c] \in LinksOf(Frames, Decisions)
  <2>1. AskedFrames \subseteq Frames /\ SoundDecisions \subseteq Decisions
    BY DEF AskedFrames, SoundDecisions
  <2>2. link[c].up \in Seq(Frames) /\ link[c].down \in Seq(Decisions)
    BY <2>1, LinkFields, SeqMonotonic DEF ChannelInv
  <2> QED BY <2>2 DEF ChannelInv, QueuesOK, LinksOf
<1>3. link \in [Links -> LinksOf(Frames, Decisions)]
  BY <1>2 DEF ChannelInv, QueuesOK
<1>4. conn \in [Requests -> ConnStates] /\ pending \subseteq Requests
      /\ answer \in [Requests -> {Nil, "allow", "deny"}] /\ Len(outq) <= BufferCap
  BY DEF ChannelInv, RequestsOK, QueuesOK
<1> QED BY <1>1, <1>3, <1>4 DEF ChannelInv, PeersOK, BridgeOK, ReportsOK, TypeOK, LinksOf, MailOf, Decisions, ConnStates

(* The types of the channel's state, at both ends, for any number of links and requests. *)
THEOREM ChannelTypes == Spec => []TypeOK
BY ChannelInvariant, ChannelTyped, PTL

(* A lost question, a lost or late decision, a full buffer and a failing decider all deny, for
   any policy and any number of reconnects (conn.rs handle, control.rs request_decision). *)
THEOREM ChannelFailsClosed == Spec => []FailClosed
<1>1. ChannelInv => FailClosed
  BY DEF ChannelInv, RequestsOK, RequestOK, FailClosed
<1> QED BY <1>1, ChannelInvariant, PTL

(* While answers are cached, all who are answered about a host are answered alike (dispatch/5
   of decider.ex). *)
THEOREM VerdictsAgree == Spec => []OneVerdictPerHost
<1>1. ChannelInv => OneVerdictPerHost
  <2> SUFFICES ASSUME ChannelInv, Caching, NEW r \in Requests, NEW q \in Requests,
                      conn[r].host = conn[q].host, answer[r] # Nil, answer[q] # Nil
               PROVE  answer[r] = answer[q]
    BY DEF OneVerdictPerHost
  <2>1. SoundVerdict(r, answer[r]) /\ SoundVerdict(q, answer[q])
    BY DEF ChannelInv, RequestsOK, RequestOK
  <2>2. answer[r] \in {"allow", "deny"} /\ answer[q] \in {"allow", "deny"}
    BY DEF ChannelInv, RequestsOK
  <2> QED BY <2>1, <2>2 DEF SoundVerdict
<1> QED BY <1>1, ChannelInvariant, PTL

(* The pending map is exact whatever is lost, late or expired (control.rs). *)
THEOREM PendingIsExact == Spec => []PendingExact
<1>1. ChannelInv => PendingExact
  BY DEF ChannelInv, RequestsOK, RequestOK, QueuesOK, PendingExact
<1> QED BY <1>1, ChannelInvariant, PTL

-----------------------------------------------------------------------------
(* One channel at a time, when no port-forward says eof as it is started. *)
LEMMA OneLinkStarts == Init => OneLink
<1> SUFFICES ASSUME Init PROVE OneLink
  OBVIOUS
<1>1. UsedUpTo(0) /\ 0 \in 0..MaxLinks
  BY ChannelAssumption DEF Init, UsedUpTo, Links
<1> QED BY <1>1 DEF Init, OneLink

(* What the sidecar and the network do to the links in use is nothing to the bridge. *)
LEMMA LinksSame ==
    ASSUME OneLink, UNCHANGED <<forward, bridge, mail>>,
           \A c \in Links : /\ link'[c].st = "none" <=> link[c].st = "none"
                            /\ link[c].st = "none" => link'[c].up = link[c].up
    PROVE  OneLink'
<1>1. PICK n \in 0..MaxLinks : UsedUpTo(n)
  BY DEF OneLink
<1>2. UsedUpTo(n)'
  BY <1>1 DEF UsedUpTo
<1>3. bridge.st = "up" => EndsLast'
  BY DEF OneLink, EndsLast
<1> QED BY <1>2, <1>3 DEF OneLink

LEMMA SidecarOneLink ==
    ASSUME ChannelInv, OneLink, Sidecar
    PROVE  OneLink'
<1>0. serving.writing \/ serving.reading => serving.link \in Links
  BY DEF ChannelInv, PeersOK
<1>1. CASE Accept \/ ReadEnds
  BY <1>1, LinksSame DEF Accept, ReadEnds, bridgeVars
<1>2. CASE Read
  <2>1. \A c \in Links : link'[c].st = link[c].st /\ link'[c].up = link[c].up
    BY <1>0, <1>2 DEF Read, ChannelInv, QueuesOK, LinksOf
  <2> QED BY <1>2, <2>1, LinksSame DEF Read, bridgeVars
<1>3. CASE Write
  <2>1. \A c \in Links : link'[c].st = link[c].st /\ (link[c].st = "none" => link'[c].up = link[c].up)
    BY <1>0, <1>3 DEF Write, ChannelInv, QueuesOK, LinksOf
  <2> QED BY <1>3, <2>1, LinksSame DEF Write, bridgeVars
<1> QED BY <1>1, <1>2, <1>3 DEF Sidecar

LEMMA LinkDropsOneLink ==
    ASSUME ChannelInv, OneLink, NEW c \in Links, LinkDrops(c)
    PROVE  OneLink'
<1>1. PICK l \in Broken(link[c]) : link' = [link EXCEPT ![c] = l]
  BY DEF LinkDrops
<1>2. l.st = "closed" /\ link[c].st = "up"
  BY BrokenLink DEF LinkDrops, ChannelInv, QueuesOK
<1>3. \A d \in Links : link'[d] = IF d = c THEN l ELSE link[d]
  BY <1>1 DEF ChannelInv, QueuesOK
<1> QED BY <1>2, <1>3, LinksSame DEF LinkDrops, bridgeVars

(* No end is announced while the channel is up, or gone. *)
NoEnds == \A i \in DOMAIN mail : mail[i].type = "data"

LEMMA MailType ==
    ASSUME ChannelInv
    PROVE  /\ Len(mail) \in Nat /\ DOMAIN mail = 1..Len(mail)
           /\ \A i \in DOMAIN mail : mail[i].type \in {"eof", "down", "data"}
<1>1. Len(mail) \in Nat /\ DOMAIN mail = 1..Len(mail) /\ \A i \in DOMAIN mail : mail[i] \in MailOf(AskedFrames)
  BY LenProperties, ElementOfSeq DEF ChannelInv, QueuesOK
<1>2. \A m \in MailOf(AskedFrames) : m.type \in {"eof", "down", "data"}
  BY DEF MailOf, Eof, Down, Data
<1> QED BY <1>1, <1>2

LEMMA EndsAreLast ==
    ASSUME ChannelInv, EndsLast, bridge.pf = 0 \/ forward[bridge.pf] # "down"
    PROVE  NoEnds
<1> SUFFICES ASSUME NEW i \in DOMAIN mail PROVE mail[i].type = "data"
  BY DEF NoEnds
<1>1. mail[i].type # "down"
  BY DEF EndsLast
<1>2. mail[i].type # "eof"
  <2> SUFFICES ASSUME mail[i].type = "eof" PROVE FALSE
    OBVIOUS
  <2>1. i = Len(mail) - 1 /\ mail[i + 1] = Down(bridge.pf)
    BY DEF EndsLast
  <2>2. i + 1 \in DOMAIN mail /\ mail[i + 1].type = "down"
    BY <2>1, MailType DEF Down
  <2> QED BY <2>2 DEF EndsLast
<1> QED BY <1>1, <1>2, MailType

LEMMA ForwardOneLink ==
    ASSUME ChannelInv, OneLink, NEW c \in Links, ForwardReads(c) \/ ForwardEof(c) \/ ForwardFails(c)
    PROVE  OneLink'
<1>1. bridge.st = "up" /\ c = bridge.pf /\ forward[c] = "up" /\ c # 0 /\ link[c].st # "none"
  BY ChannelAssumption DEF ForwardReads, ForwardEof, ForwardFails, OneLink, Links
<1>2. NoEnds
  BY <1>1, EndsAreLast DEF OneLink
<1>3. bridge' = bridge
  BY DEF ForwardReads, ForwardEof, ForwardFails, bridgeVars
<1>4. mail \in Seq(MailOf(AskedFrames)) /\ forward \in [Links -> {"none", "up", "down"}]
  BY DEF ChannelInv, QueuesOK, PeersOK
<1> DEFINE M == MailOf(AskedFrames)
<1>5. CASE ForwardReads(c)
  <2>1. \A d \in Links : link'[d].st = link[d].st /\ (d # c => link'[d] = link[d])
    BY <1>5 DEF ForwardReads, ChannelInv, QueuesOK, LinksOf
  <2>2. Data(Head(link[c].up)) \in M
    BY <1>5, LinkFields DEF ForwardReads, ChannelInv, MailOf
  <2> HIDE DEF M
  <2>3. /\ Len(mail') = Len(mail) + 1 /\ mail'[Len(mail) + 1] = Data(Head(link[c].up))
        /\ \A i \in 1..Len(mail) : mail'[i] = mail[i]
        /\ DOMAIN mail' = 1..Len(mail) + 1
    BY <1>4, <1>5, <2>2 DEF ForwardReads, M
  <2>4. \A i \in DOMAIN mail' : mail'[i].type = "data"
    BY <1>2, <2>3, MailType DEF NoEnds, Data
  <2>5. EndsLast'
    BY <1>1, <1>3, <1>5, <2>4 DEF EndsLast, ForwardReads
  <2>6. PICK n \in 0..MaxLinks : UsedUpTo(n)
    BY DEF OneLink
  <2>7. UsedUpTo(n)'
    BY <2>1, <2>6 DEF UsedUpTo
  <2>8. \A d \in Links : /\ forward[d] = "none" <=> link[d].st = "none"
                         /\ forward[d] = "none" => link[d].up = <<>>
                         /\ forward[d] = "up" => bridge.st = "up" /\ d = bridge.pf
    BY DEF OneLink
  <2>9. forward' = forward
    BY <1>5 DEF ForwardReads
  <2> QED BY <1>1, <1>3, <2>1, <2>5, <2>7, <2>8, <2>9 DEF OneLink
<1>6. CASE ForwardEof(c) \/ ForwardFails(c)
  <2>1. link' = link /\ forward' = [forward EXCEPT ![c] = "down"]
    BY <1>6 DEF ForwardEof, ForwardFails
  <2>2. Eof \in M /\ Down(c) \in M
    BY DEF MailOf
  <2>3. EndsLast'
    <3>1. CASE ForwardEof(c)
      <4> HIDE DEF M
      <4>1. <<Eof, Down(c)>> \in Seq(M) /\ Len(<<Eof, Down(c)>>) = 2
        BY <2>2
      <4>2. /\ Len(mail') = Len(mail) + 2 /\ DOMAIN mail' = 1..Len(mail) + 2
            /\ \A i \in 1..Len(mail) : mail'[i] = mail[i]
            /\ mail'[Len(mail) + 1] = Eof /\ mail'[Len(mail) + 2] = Down(c)
        BY <1>4, <3>1, <4>1, ConcatProperties DEF ForwardEof, M
      <4>3. \A i \in 1..Len(mail) : mail'[i].type = "data"
        BY <1>2, <4>2, MailType DEF NoEnds
      <4> QED BY <1>1, <1>3, <1>4, <2>1, <4>2, <4>3, MailType DEF EndsLast, Eof, Down
    <3>2. CASE ForwardFails(c)
      <4> HIDE DEF M
      <4>1. /\ Len(mail') = Len(mail) + 1 /\ DOMAIN mail' = 1..Len(mail) + 1
            /\ \A i \in 1..Len(mail) : mail'[i] = mail[i]
            /\ mail'[Len(mail) + 1] = Down(c)
        BY <1>4, <2>2, <3>2 DEF ForwardFails, M
      <4>2. \A i \in 1..Len(mail) : mail'[i].type = "data"
        BY <1>2, <4>1, MailType DEF NoEnds
      <4> QED BY <1>1, <1>3, <1>4, <2>1, <4>1, <4>2, MailType DEF EndsLast, Eof, Down
    <3> QED BY <1>6, <3>1, <3>2
  <2>4. PICK n \in 0..MaxLinks : UsedUpTo(n)
    BY DEF OneLink
  <2>5. UsedUpTo(n)'
    BY <2>1, <2>4 DEF UsedUpTo
  <2>6. \A d \in Links : /\ forward'[d] = "none" <=> link'[d].st = "none"
                         /\ forward'[d] = "none" => link'[d].up = <<>>
                         /\ forward'[d] = "up" => bridge'.st = "up" /\ d = bridge'.pf
    BY <1>1, <1>3, <1>4, <2>1 DEF OneLink
  <2> QED BY <1>1, <1>3, <2>3, <2>5, <2>6 DEF OneLink
<1> QED BY <1>5, <1>6

(* The next link is the first one that was not used. *)
LEMMA NextLink ==
    ASSUME NEW n \in 0..MaxLinks, UsedUpTo(n)
    PROVE  Used = n
<1>1. {c \in Links : link[c].st # "none"} = 1..n
  BY ChannelAssumption DEF UsedUpTo, Links
<1>2. Cardinality(1..n) = n
  BY FS_Interval, ChannelAssumption
<1> QED BY <1>1, <1>2 DEF Used

(* A dial that succeeds, from a bridge that has no channel. *)
LEMMA ConnectedOneLink ==
    ASSUME ~EarlyClose, ChannelInv, OneLink, NEW b, Connected(b), DOMAIN b = DOMAIN bridge,
           b.st = "up", b.timers = 0, bridge.pf = 0, NoEnds
    PROVE  OneLink'
<1>1. PICK n \in 0..MaxLinks : UsedUpTo(n)
  BY DEF OneLink
<1> DEFINE c == n + 1
<1>2. Used = n /\ c \in Links /\ n + 1 \in 0..MaxLinks /\ link[c].st = "none" /\ forward[c] = "none"
  <2>1. Used = n
    BY <1>1, NextLink
  <2>2. c \in Links /\ n + 1 \in 0..MaxLinks
    BY <2>1, ChannelAssumption DEF Connected, Links
  <2>3. link[c].st = "none"
    BY <1>1, <2>2, ChannelAssumption DEF UsedUpTo
  <2> QED BY <2>1, <2>2, <2>3 DEF OneLink
<1>3. /\ bridge'.st = "up" /\ bridge'.pf = c /\ bridge'.timers = 0
      /\ forward' = [forward EXCEPT ![c] = "up"] /\ mail' = mail
      /\ link' = [link EXCEPT ![c].st = "up"]
  BY <1>2 DEF Connected, ChannelInv, BridgeOK
<1>4. \A d \in Links : link'[d].up = link[d].up /\ link'[d].st = IF d = c THEN "up" ELSE link[d].st
  BY <1>2, <1>3 DEF ChannelInv, QueuesOK, LinksOf
<1>5. UsedUpTo(n + 1)'
  BY <1>1, <1>2, <1>4, ChannelAssumption DEF UsedUpTo, Links
<1>6. \A d \in Links : forward[d] # "up"
  BY ChannelAssumption DEF OneLink, Links
<1>7. \A d \in Links : forward'[d] = IF d = c THEN "up" ELSE forward[d]
  BY <1>2, <1>3 DEF ChannelInv, PeersOK
<1>8. \A d \in Links : /\ forward'[d] = "none" <=> link'[d].st = "none"
                       /\ forward'[d] = "none" => link'[d].up = <<>>
                       /\ forward'[d] = "up" => d = c
  BY <1>4, <1>6, <1>7 DEF OneLink
<1>9. EndsLast'
  <2>1. \A i \in DOMAIN mail : mail'[i].type = "data"
    BY <1>3 DEF NoEnds
  <2> QED BY <1>2, <1>3, <1>7, <2>1 DEF EndsLast
<1>10. n + 1 # 0
  BY ChannelAssumption
<1> QED BY <1>2, <1>3, <1>5, <1>8, <1>9, <1>10 DEF OneLink

(* A bridge that stops leaves no port-forward behind. *)
LEMMA TerminateOneLink ==
    ASSUME ChannelInv, OneLink, Terminate
    PROVE  OneLink'
<1>1. bridge'.st = "stopped"
  BY DEF Terminate, ChannelInv, BridgeOK
<1>2. bridge.pf # 0 => bridge.pf \in Links
  BY ChannelAssumption DEF ChannelInv, BridgeOK, Links
<1>3. \A d \in Links : forward'[d] # "up" /\ (forward'[d] = "none" <=> forward[d] = "none")
  BY <1>2, ChannelAssumption DEF Terminate, OneLink, ChannelInv, PeersOK, Links
<1>4. \A d \in Links : /\ link'[d].st = "none" <=> link[d].st = "none"
                       /\ link[d].st = "none" => link'[d].up = link[d].up
  <2>1. CASE bridge.pf # 0 /\ forward[bridge.pf] = "up"
    <3>1. PICK l \in Broken(link[bridge.pf]) : link' = [link EXCEPT ![bridge.pf] = l]
      BY <2>1 DEF Terminate
    <3>2. l.st = "closed" /\ link[bridge.pf].st # "none"
      BY <1>2, <2>1, BrokenLink DEF ChannelInv, QueuesOK, OneLink
    <3>3. \A d \in Links : link'[d] = IF d = bridge.pf THEN l ELSE link[d]
      BY <1>2, <2>1, <3>1 DEF ChannelInv, QueuesOK
    <3> QED BY <3>2, <3>3
  <2>2. CASE ~(bridge.pf # 0 /\ forward[bridge.pf] = "up")
    BY <2>2 DEF Terminate
  <2> QED BY <2>1, <2>2
<1>5. PICK n \in 0..MaxLinks : UsedUpTo(n)
  BY DEF OneLink
<1>6. UsedUpTo(n)'
  BY <1>4, <1>5 DEF UsedUpTo
<1>7. \A d \in Links : /\ forward'[d] = "none" <=> link'[d].st = "none"
                       /\ forward'[d] = "none" => link'[d].up = <<>>
  BY <1>3, <1>4 DEF OneLink
<1> QED BY <1>1, <1>3, <1>6, <1>7 DEF OneLink

LEMMA StartOneLink ==
    ASSUME ~EarlyClose, ChannelInv, OneLink, Start
    PROVE  OneLink'
<1>0. bridge.pf = 0 /\ bridge.timers = 0 /\ mail = <<>> /\ NoEnds
  BY DEF OneLink, Start, NoEnds
<1>1. CASE Connected([bridge EXCEPT !.st = "up"])
  <2> DEFINE b == [bridge EXCEPT !.st = "up"]
  <2>1. DOMAIN b = DOMAIN bridge /\ b.st = "up" /\ b.timers = 0
    BY <1>0 DEF ChannelInv, BridgeOK
  <2> HIDE DEF b
  <2> QED BY <1>0, <1>1, <2>1, ConnectedOneLink DEF b
<1>2. CASE /\ bridge' = [bridge EXCEPT !.st = "up", !.timers = 1]
           /\ UNCHANGED <<forward, backlog, link, mail>>
  <2>1. bridge'.st = "up" /\ bridge'.timers = 1 /\ bridge'.pf = 0
    BY <1>0, <1>2 DEF ChannelInv, BridgeOK
  <2>2. EndsLast'
    BY <1>0, <1>2, <2>1 DEF EndsLast
  <2>3. PICK n \in 0..MaxLinks : UsedUpTo(n)
    BY DEF OneLink
  <2>4. UsedUpTo(n)'
    BY <1>2, <2>3 DEF UsedUpTo
  <2>5. \A d \in Links : forward[d] # "up"
    BY <1>0, ChannelAssumption DEF OneLink, Links
  <2> QED BY <1>2, <2>1, <2>2, <2>4, <2>5 DEF OneLink
<1> QED BY <1>1, <1>2 DEF Start

LEMMA ReconnectOneLink ==
    ASSUME ~EarlyClose, ChannelInv, OneLink, Reconnect
    PROVE  OneLink'
<1>0. bridge.st = "up" /\ bridge.pf = 0 /\ bridge.timers = 1 /\ EndsLast
  BY DEF OneLink, Reconnect, ChannelInv, BridgeOK
<1>1. CASE Connected([bridge EXCEPT !.timers = @ - 1])
  <2> DEFINE b == [bridge EXCEPT !.timers = @ - 1]
  <2>1. DOMAIN b = DOMAIN bridge /\ b.st = "up" /\ b.timers = 0
    BY <1>0 DEF ChannelInv, BridgeOK
  <2>2. NoEnds
    BY <1>0, EndsAreLast
  <2> HIDE DEF b
  <2> QED BY <1>0, <1>1, <2>1, <2>2, ConnectedOneLink DEF b
<1>2. CASE Terminate
  BY <1>2, TerminateOneLink
<1>3. CASE /\ bridge' = [bridge EXCEPT !.attempts = @ + 1]
           /\ UNCHANGED <<forward, backlog, link, mail, steady>>
  <2>1. bridge'.st = bridge.st /\ bridge'.timers = bridge.timers /\ bridge'.pf = bridge.pf
    BY <1>3 DEF ChannelInv, BridgeOK
  <2>2. EndsLast'
    BY <1>0, <1>3, <2>1 DEF EndsLast
  <2>3. PICK n \in 0..MaxLinks : UsedUpTo(n)
    BY DEF OneLink
  <2>4. UsedUpTo(n)'
    BY <1>3, <2>3 DEF UsedUpTo
  <2> QED BY <1>0, <1>3, <2>1, <2>2, <2>4 DEF OneLink
<1> QED BY <1>1, <1>2, <1>3 DEF Reconnect

(* The end of the channel was the only message, and a redial follows. *)
LEMMA RescheduledOneLink ==
    ASSUME ChannelInv, OneLink, bridge.st = "up", bridge.pf # 0, forward[bridge.pf] = "down",
           bridge' = Rescheduled, mail' = <<>>, UNCHANGED <<link, forward>>
    PROVE  OneLink'
<1>1. bridge'.st = "up" /\ bridge'.timers = 1 /\ bridge'.pf = 0
  BY DEF ChannelInv, BridgeOK, OneLink, Rescheduled
<1>2. EndsLast'
  BY <1>1 DEF EndsLast
<1>3. PICK n \in 0..MaxLinks : UsedUpTo(n)
  BY DEF OneLink
<1>4. UsedUpTo(n)'
  BY <1>3 DEF UsedUpTo
<1>5. \A d \in Links : forward[d] # "up"
  BY DEF OneLink
<1> QED BY <1>1, <1>2, <1>4, <1>5 DEF OneLink

(* A sequence of one message, without that message. *)
LEMMA RemoveOnly ==
    ASSUME NEW S, NEW s \in Seq(S), NEW e, Len(s) = 1, s[1] = e
    PROVE  RemoveFirst(s, e) = <<>>
<1> DEFINE k == SelectInSeq(s, LAMBDA v : v = e)
           I == {i \in 1..Len(s) : s[i] = e}
<1>1. I = {1} /\ k = IF I # {} THEN Min(I) ELSE 0
  BY DEF SelectInSeq
<1>2. Min({1}) = 1
  BY MinOf
<1>3. k = 1
  BY <1>1, <1>2
<1>4. RemoveFirst(s, e) = RemoveAt(s, k)
  BY DEF RemoveFirst
<1> HIDE DEF k
<1>5. RemoveAt(s, 1) = SubSeq(s, 1, 0) \o SubSeq(s, 2, 1)
  BY DEF RemoveAt
<1>6. SubSeq(s, 1, 0) = <<>> /\ SubSeq(s, 2, 1) = <<>>
  BY SubSeqEmpty
<1>7. <<>> \o <<>> = <<>>
  BY EmptySeq, ConcatEmptySeq
<1> QED BY <1>3, <1>4, <1>5, <1>6, <1>7

(* The end that is handled is the channel's own, and nothing is behind it. *)
LEMMA EndTaken ==
    ASSUME ChannelInv, OneLink, HandleEof \/ HandleDown
    PROVE  /\ bridge.st = "up" /\ bridge.pf # 0 /\ forward[bridge.pf] = "down"
           /\ mail' = <<>> /\ bridge' = Rescheduled
<1>0. bridge.st = "up" /\ EndsLast /\ mail # <<>> /\ mail \in Seq(MailOf(AskedFrames))
  BY DEF HandleEof, HandleDown, OneLink, ChannelInv, QueuesOK
<1> DEFINE M == MailOf(AskedFrames)
<1>1. 1 \in DOMAIN mail /\ Head(mail) = mail[1] /\ Tail(mail) \in Seq(M) /\ Len(Tail(mail)) = Len(mail) - 1
      /\ (\A i \in 1..Len(Tail(mail)) : Tail(mail)[i] = mail[i + 1])
  <2> HIDE DEF M
  <2> QED BY <1>0, HeadTailProperties DEF M
<1> HIDE DEF M
<1>2. CASE HandleEof
  <2>1. mail[1].type = "eof"
    BY <1>1, <1>2 DEF HandleEof, Eof
  <2>2. Len(mail) = 2 /\ mail[2] = Down(bridge.pf)
    BY <1>0, <1>1, <2>1, MailType DEF EndsLast
  <2>3. bridge.pf # 0 /\ forward[bridge.pf] = "down"
    BY <1>0, <2>2, MailType DEF EndsLast, Down
  <2>4. mail' = <<>>
    <3>1. Len(Tail(mail)) = 1 /\ Tail(mail)[1] = Down(bridge.pf)
      BY <1>1, <2>2
    <3>2. RemoveFirst(Tail(mail), Down(bridge.pf)) = <<>>
      BY <1>1, <3>1, RemoveOnly
    <3> QED BY <1>2, <3>2 DEF HandleEof
  <2> QED BY <1>0, <1>2, <2>3, <2>4 DEF HandleEof
<1>3. CASE HandleDown
  <2>1. mail[1].type = "down"
    BY <1>1, <1>3 DEF HandleDown
  <2>2. Len(mail) = 1 /\ bridge.pf # 0 /\ mail[1].link = bridge.pf /\ forward[bridge.pf] = "down"
    BY <1>0, <1>1, <2>1, MailType DEF EndsLast
  <2>3. mail' = <<>> /\ bridge' = Rescheduled
    BY <1>0, <1>1, <1>3, <2>2 DEF HandleDown
  <2> QED BY <1>0, <2>2, <2>3
<1> QED BY <1>2, <1>3

LEMMA HandleEndOneLink ==
    ASSUME ChannelInv, OneLink, HandleEof \/ HandleDown
    PROVE  OneLink'
BY EndTaken, RescheduledOneLink DEF HandleEof, HandleDown

LEMMA HandleDataOneLink ==
    ASSUME ChannelInv, OneLink, HandleData
    PROVE  OneLink'
<1>0. bridge.st = "up" /\ EndsLast /\ mail # <<>> /\ mail \in Seq(MailOf(AskedFrames))
  BY DEF HandleData, OneLink, ChannelInv, QueuesOK
<1> DEFINE M == MailOf(AskedFrames)
<1>1. /\ 1 \in DOMAIN mail /\ Head(mail) = mail[1] /\ mail' = Tail(mail) /\ mail[1].type = "data"
      /\ Len(mail') = Len(mail) - 1 /\ DOMAIN mail' = 1..Len(mail) - 1
      /\ \A i \in 1..Len(mail) - 1 : mail'[i] = mail[i + 1]
  <2> HIDE DEF M
  <2> QED BY <1>0, HeadTailProperties DEF M, HandleData
<1>2. bridge'.st = bridge.st /\ bridge'.timers = bridge.timers /\ bridge'.pf = bridge.pf /\ forward' = forward
  BY DEF HandleData, HandleLine, ChannelInv, BridgeOK
<1>3. EndsLast'
  <2>1. ASSUME NEW i \in DOMAIN mail', mail'[i].type = "down"
        PROVE  i = Len(mail') /\ bridge.pf # 0 /\ mail'[i].link = bridge.pf /\ forward[bridge.pf] = "down"
    <3>1. i + 1 \in DOMAIN mail /\ mail[i + 1].type = "down"
      BY <1>1, <2>1, MailType
    <3> QED BY <1>0, <1>1, <3>1, MailType DEF EndsLast
  <2>2. ASSUME NEW i \in DOMAIN mail', mail'[i].type = "eof"
        PROVE  i = Len(mail') - 1 /\ mail'[i + 1] = Down(bridge.pf)
    <3>1. i + 1 \in DOMAIN mail /\ mail[i + 1].type = "eof"
      BY <1>1, <2>2, MailType
    <3>2. i + 1 = Len(mail) - 1 /\ mail[i + 1 + 1] = Down(bridge.pf)
      BY <1>0, <3>1 DEF EndsLast
    <3> QED BY <1>1, <3>2, MailType
  <2>3. ASSUME bridge.pf # 0, forward[bridge.pf] = "down"
        PROVE  Len(mail') > 0 /\ mail'[Len(mail')] = Down(bridge.pf)
    <3>1. Len(mail) > 0 /\ mail[Len(mail)] = Down(bridge.pf)
      BY <1>0, <2>3 DEF EndsLast
    <3>2. Len(mail) # 1
      BY <1>1, <3>1 DEF Down
    <3> QED BY <1>1, <3>1, <3>2, MailType
  <2> QED BY <1>2, <2>1, <2>2, <2>3 DEF EndsLast
<1>4. \A c \in Links : link'[c].st = link[c].st /\ link'[c].up = link[c].up
  <2>1. link \in [Links -> LinksOf(AskedFrames, SoundDecisions)]
    BY DEF ChannelInv, QueuesOK
  <2>2. \/ link' = link
        \/ \E d : link' = [link EXCEPT ![bridge.pf].down = Append(@, d)]
    BY DEF HandleData, HandleLine, SendDecision
  <2>3. ASSUME NEW d, link' = [link EXCEPT ![bridge.pf].down = Append(@, d)], NEW c \in Links
        PROVE  link'[c].st = link[c].st /\ link'[c].up = link[c].up
    <3>1. DOMAIN link[c] = {"st", "up", "down"}
      BY LinkFields DEF ChannelInv
    <3>2. CASE c = bridge.pf
      BY <2>1, <2>3, <3>1, <3>2
    <3>3. CASE c # bridge.pf
      BY <2>1, <2>3, <3>3
    <3> QED BY <3>2, <3>3
  <2> QED BY <2>2, <2>3
<1>5. PICK n \in 0..MaxLinks : UsedUpTo(n)
  BY DEF OneLink
<1>6. UsedUpTo(n)'
  BY <1>4, <1>5 DEF UsedUpTo
<1>7. \A d \in Links : /\ forward'[d] = "none" <=> link'[d].st = "none"
                       /\ forward'[d] = "none" => link'[d].up = <<>>
                       /\ forward'[d] = "up" => bridge'.st = "up" /\ d = bridge'.pf
  BY <1>2, <1>4 DEF OneLink
<1> QED BY <1>0, <1>2, <1>3, <1>6, <1>7 DEF OneLink

LEMMA OneLinkStep ==
    ASSUME ~EarlyClose, ChannelInv, OneLink, [Next]_vars
    PROVE  OneLink'
<1>1. CASE \E r \in Requests : Handlers(r)
  BY <1>1, LinksSame DEF Handlers, Open, Settle, Ask, Answered, Expire, GiveUp, Close, bridgeVars
<1>2. CASE Sidecar
  BY <1>2, SidecarOneLink
<1>3. CASE Bridge
  BY <1>3, StartOneLink, ReconnectOneLink, HandleEndOneLink, HandleDataOneLink DEF Bridge
<1>4. CASE \E c \in Links : LinkDrops(c) \/ ForwardReads(c) \/ ForwardEof(c) \/ ForwardFails(c)
  BY <1>4, LinkDropsOneLink, ForwardOneLink
<1>5. CASE OwnerDown
  BY <1>5, TerminateOneLink DEF OwnerDown
<1>6. CASE UNCHANGED vars
  BY <1>6, LinksSame DEF vars
<1> QED BY <1>1, <1>2, <1>3, <1>4, <1>5, <1>6 DEF Next

(* The bridge has a channel or a redial, never both or two, hears of the end of the channel it
   has and leaves none behind, through any number of links, drops and reconnects, where no
   port-forward says eof as it is started (schedule_reconnect, handle_info, terminate). *)
THEOREM ChannelIsOne == ~EarlyClose => (Spec => []OneChannel)
<1> SUFFICES ASSUME ~EarlyClose PROVE Spec => []OneChannel
  OBVIOUS
<1>1. ChannelInv /\ OneLink => OneChannel
  <2> SUFFICES ASSUME ChannelInv, OneLink PROVE OneChannel
    OBVIOUS
  <2>1. ASSUME bridge.st = "up", bridge.pf # 0, forward[bridge.pf] = "down"
        PROVE  Down(bridge.pf) \in Range(mail)
    <3>1. Len(mail) > 0 /\ mail[Len(mail)] = Down(bridge.pf)
      BY <2>1 DEF OneLink, EndsLast
    <3>2. Len(mail) \in DOMAIN mail
      BY <3>1, MailType
    <3> QED BY <3>1, <3>2 DEF Range
  <2>2. NoOrphan
    BY DEF NoOrphan, OneLink
  <2> QED BY <2>1, <2>2 DEF OneChannel, OneLink
<1>2. Init => ChannelInv /\ OneLink
  BY ChannelStarts, OneLinkStarts
<1>3. ChannelInv /\ OneLink /\ [Next]_vars => ChannelInv' /\ OneLink'
  BY ChannelStep, ChannelStutters, OneLinkStep
<1> QED BY <1>1, <1>2, <1>3, PTL DEF Spec

-----------------------------------------------------------------------------
(* What the bridge reports of a request is its life in order. *)
LEMMA RankTypes ==
    ASSUME NEW r \in Requests, NEW f \in Frames, NEW c \in Links
    PROVE  /\ FrameRank(f, r) \in 0..3 /\ RankOf(f, r) = FrameRank(f, r)
           /\ RankOf(Data(f), r) = FrameRank(f, r) /\ RankOf(Eof, r) = 0 /\ RankOf(Down(c), r) = 0
BY DEF Frames, FrameRank, RankOf, Rank, Data, Eof, Down

LEMMA MailRanks ==
    ASSUME NEW r \in Requests, NEW m \in MailOf(Frames)
    PROVE  RankOf(m, r) \in 0..3
BY DEF MailOf, Frames, FrameRank, RankOf, Rank, Data, Eof, Down

LEMMA StageType ==
    ASSUME ChannelInv, NEW r \in Requests
    PROVE  StageRank(r) \in 0..3
BY DEF ChannelInv, RequestsOK, ConnStates, StageRank

(* An event that is later than all in the queue, or none of r's, may follow them. *)
LEMMA RisingAppend ==
    ASSUME NEW S, NEW s \in Seq(S), NEW e \in S, NEW r, \A x \in S : RankOf(x, r) \in 0..3,
           NEW lo \in 0..3, NEW hi \in 0..3, NEW top \in 0..3, lo <= hi, hi <= top,
           Rising(s, r, lo, hi), RankOf(e, r) # 0 => hi < RankOf(e, r) /\ RankOf(e, r) <= top
    PROVE  Rising(Append(s, e), r, lo, top)
<1> DEFINE t == Append(s, e)
           n == Len(s)
<1>1. n \in Nat /\ DOMAIN s = 1..n /\ DOMAIN t = 1..n + 1 /\ t[n + 1] = e /\ \A i \in 1..n : t[i] = s[i]
  BY AppendProperties
<1>2. \A i \in 1..n : RankOf(s[i], r) \in 0..3
  OBVIOUS
<1>3. \A i \in DOMAIN s : RankOf(s[i], r) # 0 => lo < RankOf(s[i], r) /\ RankOf(s[i], r) <= hi
  BY DEF Rising
<1>4. \A i, j \in DOMAIN s : i < j /\ RankOf(s[i], r) # 0 /\ RankOf(s[j], r) # 0 => RankOf(s[i], r) < RankOf(s[j], r)
  BY DEF Rising
<1>5. RankOf(e, r) \in 0..3
  OBVIOUS
<1> HIDE DEF t, n
<1>6. \A i \in DOMAIN t : RankOf(t[i], r) # 0 => lo < RankOf(t[i], r) /\ RankOf(t[i], r) <= top
  BY <1>1, <1>2, <1>3, <1>5
<1>7. ASSUME NEW i \in DOMAIN t, NEW j \in DOMAIN t, i < j, RankOf(t[i], r) # 0, RankOf(t[j], r) # 0
      PROVE  RankOf(t[i], r) < RankOf(t[j], r)
  <2>1. i \in 1..n /\ t[i] = s[i]
    BY <1>1, <1>7
  <2>2. CASE j \in 1..n
    BY <1>1, <1>4, <1>7, <2>1, <2>2
  <2>3. CASE j = n + 1
    <3>1. RankOf(s[i], r) <= hi /\ RankOf(s[i], r) \in 0..3
      BY <1>1, <1>2, <1>3, <1>7, <2>1
    <3> QED BY <1>1, <1>5, <1>7, <2>1, <2>3, <3>1
  <2> QED BY <1>1, <2>2, <2>3
<1>8. Rising(t, r, lo, top)
  BY <1>6, <1>7 DEF Rising
<1> QED BY <1>8 DEF t

(* What follows the first event comes after it. *)
LEMMA RisingTail ==
    ASSUME NEW S, NEW s \in Seq(S), s # <<>>, NEW r, \A x \in S : RankOf(x, r) \in 0..3,
           NEW lo \in 0..3, NEW hi \in 0..3, lo <= hi, Rising(s, r, lo, hi)
    PROVE  \E mid \in 0..3 :
              /\ lo <= mid /\ mid <= hi /\ Rising(Tail(s), r, mid, hi)
              /\ RankOf(Head(s), r) # 0 => lo < RankOf(Head(s), r) /\ RankOf(Head(s), r) = mid
<1> DEFINE t == Tail(s)
           n == Len(s)
           e == Head(s)
<1>1. n \in Nat \ {0} /\ DOMAIN s = 1..n /\ DOMAIN t = 1..n - 1 /\ e = s[1] /\ \A i \in 1..n - 1 : t[i] = s[i + 1]
  BY HeadTailProperties
<1>2. \A i \in 1..n : RankOf(s[i], r) \in 0..3
  OBVIOUS
<1>3. \A i \in DOMAIN s : RankOf(s[i], r) # 0 => lo < RankOf(s[i], r) /\ RankOf(s[i], r) <= hi
  BY DEF Rising
<1>4. \A i, j \in DOMAIN s : i < j /\ RankOf(s[i], r) # 0 /\ RankOf(s[j], r) # 0 => RankOf(s[i], r) < RankOf(s[j], r)
  BY DEF Rising
<1> HIDE DEF t, n, e
<1>5. ASSUME NEW i \in DOMAIN t, NEW j \in DOMAIN t, i < j, RankOf(t[i], r) # 0, RankOf(t[j], r) # 0
      PROVE  RankOf(t[i], r) < RankOf(t[j], r)
  <2>1. i + 1 \in DOMAIN s /\ j + 1 \in DOMAIN s /\ t[i] = s[i + 1] /\ t[j] = s[j + 1] /\ i + 1 < j + 1
    BY <1>1, <1>5
  <2> QED BY <1>4, <1>5, <2>1
<1>6. CASE RankOf(e, r) = 0
  <2>1. Rising(t, r, lo, hi)
    BY <1>1, <1>3, <1>5 DEF Rising
  <2> QED BY <1>6, <2>1 DEF t, e
<1>7. CASE RankOf(e, r) # 0
  <2>1. lo < RankOf(e, r) /\ RankOf(e, r) <= hi /\ RankOf(e, r) \in 0..3
    BY <1>1, <1>2, <1>3, <1>7
  <2>2. Rising(t, r, RankOf(e, r), hi)
    BY <1>1, <1>3, <1>4, <1>5, <1>7 DEF Rising
  <2> QED BY <2>1, <2>2 DEF t, e
<1> QED BY <1>6, <1>7

(* The beginning of a queue, or an empty one. *)
LEMMA RisingPrefix ==
    ASSUME NEW S, NEW s \in Seq(S), NEW t \in Seq(S), Len(t) <= Len(s), \A k \in 1..Len(t) : t[k] = s[k],
           NEW r, NEW lo, NEW hi, Rising(s, r, lo, hi)
    PROVE  Rising(t, r, lo, hi)
BY DEF Rising

LEMMA RisingEmpty ==
    ASSUME NEW r, NEW lo, NEW hi
    PROVE  Rising(<<>>, r, lo, hi)
BY DEF Rising

(* A request that goes on has more room for its events. *)
LEMMA RisingWider ==
    ASSUME NEW S, NEW s \in Seq(S), NEW r, \A x \in S : RankOf(x, r) \in 0..3, NEW lo \in 0..3,
           NEW hi \in 0..3, NEW top \in 0..3, hi <= top, Rising(s, r, lo, hi)
    PROVE  Rising(s, r, lo, top)
<1>1. \A i \in DOMAIN s : RankOf(s[i], r) \in 0..3
  OBVIOUS
<1> QED BY <1>1 DEF Rising

(* The queues of r hold frames, or messages, of known ranks. *)
LEMMA QueueRanks ==
    ASSUME ChannelInv, NEW r \in Requests
    PROVE  /\ outq \in Seq(Frames) /\ mail \in Seq(MailOf(Frames))
           /\ \A c \in Links : link[c].up \in Seq(Frames)
           /\ \A f \in Frames : RankOf(f, r) \in 0..3 /\ RankOf(f, r) = FrameRank(f, r)
           /\ \A m \in MailOf(Frames) : RankOf(m, r) \in 0..3
<1>1. TypeOK
  BY ChannelTyped
<1>2. \A f \in Frames : RankOf(f, r) \in 0..3 /\ RankOf(f, r) = FrameRank(f, r)
  BY DEF Frames, FrameRank, RankOf, Rank
<1> QED BY <1>1, <1>2, MailRanks DEF TypeOK, MailOf

LEMMA AuditStarts == Init => AuditInv
<1> SUFFICES ASSUME Init, NEW r \in Requests PROVE AuditOf(r, 0, 0, 0)
  BY DEF AuditInv
<1>1. StageRank(r) = 0 /\ told[r] = <<>> /\ mail = <<>> /\ outq = <<>> /\ bridge.pf = 0
  BY DEF Init, StageRank
<1> QED BY <1>1, RisingEmpty DEF AuditOf, ToldUpTo

(* The handler of some request takes a step and emits what it now is, or nothing. *)
LEMMA HandlerAudit ==
    ASSUME ChannelInv, ChannelInv', AuditInv, UNCHANGED <<told, mail, bridge, forward, link>>,
           \A q \in Requests : StageRank(q) <= StageRank(q)',
           \/ outq' = outq
           \/ \E e \in Frames :
                 /\ outq' = Append(outq, e)
                 /\ \A q \in Requests : FrameRank(e, q) # 0 =>
                       StageRank(q) < FrameRank(e, q) /\ FrameRank(e, q) <= StageRank(q)'
    PROVE  AuditInv'
<1> SUFFICES ASSUME NEW r \in Requests PROVE \E a, b, c \in 0..3 : AuditOf(r, a, b, c)'
  BY DEF AuditInv
<1>1. PICK a \in 0..3, b \in 0..3, c \in 0..3 : AuditOf(r, a, b, c)
  BY DEF AuditInv
<1>2. PICK x \in 0..3, y \in 0..3 : x = StageRank(r) /\ y = StageRank(r)' /\ x <= y
  <2>1. StageRank(r)' \in 0..3
    BY StageType DEF ChannelInv, RequestsOK, ConnStates, StageRank
  <2> QED BY <2>1, StageType
<1>3. Rising(outq, r, c, x) /\ c <= x
  BY <1>1, <1>2 DEF AuditOf
<1>4. Rising(outq', r, c, y)
  <2>1. CASE outq' = outq
    BY <1>2, <1>3, <2>1, QueueRanks, RisingWider
  <2>2. ASSUME NEW e \in Frames, outq' = Append(outq, e),
               FrameRank(e, r) # 0 => x < FrameRank(e, r) /\ FrameRank(e, r) <= y
        PROVE  Rising(outq', r, c, y)
    BY <1>2, <1>3, <2>2, QueueRanks, RisingAppend
  <2> QED BY <1>2, <2>1, <2>2
<1>5. c <= y
  BY <1>2, <1>3
<1>6. AuditOf(r, a, b, c)'
  BY <1>1, <1>2, <1>4, <1>5 DEF AuditOf, ToldUpTo, Rising
<1> QED BY <1>6

(* Which frame each handler emits, and how far it takes its request. *)
LEMMA StageSteps ==
    ASSUME ChannelInv, NEW r \in Requests, Handlers(r)
    PROVE  /\ UNCHANGED <<told, mail, bridge, forward, link>>
           /\ \A q \in Requests : StageRank(q) <= StageRank(q)'
           /\ \/ outq' = outq
              \/ \E e \in Frames :
                    /\ outq' = Append(outq, e)
                    /\ \A q \in Requests : FrameRank(e, q) # 0 =>
                          StageRank(q) < FrameRank(e, q) /\ FrameRank(e, q) <= StageRank(q)'
<1>0. conn \in [Requests -> ConnStates]
  BY DEF ChannelInv, RequestsOK
<1>1. UNCHANGED <<told, mail, bridge, forward, link>>
  BY DEF Handlers, Open, Settle, Ask, Answered, Expire, GiveUp, Close, bridgeVars
<1>2. ASSUME NEW k \in {"opened", "allowed", "denied", "closed", "failed"},
             outq' = Emitted(Event(r, k)), StageRank(r) < Rank(k), StageRank(r)' = Rank(k),
             \A q \in Requests \ {r} : StageRank(q)' = StageRank(q)
      PROVE  /\ \A q \in Requests : StageRank(q) <= StageRank(q)'
             /\ \/ outq' = outq
                \/ \E e \in Frames :
                    /\ outq' = Append(outq, e)
                    /\ \A q \in Requests : FrameRank(e, q) # 0 =>
                          StageRank(q) < FrameRank(e, q) /\ FrameRank(e, q) <= StageRank(q)'
  <2>1. Event(r, k) \in Frames
    BY DEF Event, Frames
  <2>2. \A q \in Requests : FrameRank(Event(r, k), q) = IF q = r THEN Rank(k) ELSE 0
    BY DEF Event, FrameRank
  <2>3. Rank(k) \in 0..3 /\ \A q \in Requests : StageRank(q) \in 0..3
    BY StageType DEF Rank
  <2>4. \A q \in Requests : StageRank(q) <= StageRank(q)'
    BY <1>2, <2>3
  <2>5. outq' = outq \/ outq' = Append(outq, Event(r, k))
    BY <1>2 DEF Emitted
  <2>6. \A q \in Requests : FrameRank(Event(r, k), q) # 0 =>
           StageRank(q) < FrameRank(Event(r, k), q) /\ FrameRank(Event(r, k), q) <= StageRank(q)'
    BY <1>2, <2>2, <2>3
  <2> QED BY <2>1, <2>4, <2>5, <2>6
<1>3. ASSUME NEW ok \in BOOLEAN, NEW reason \in {Nil, "policy", "decider", "decider_timeout"},
             Conclude(r, ok, reason), conn[r].st \in {"opened", "asking", "expired"}
      PROVE  \E k \in {"allowed", "denied"} :
                /\ outq' = Emitted(Event(r, k)) /\ StageRank(r) < Rank(k) /\ StageRank(r)' = Rank(k)
                /\ \A q \in Requests \ {r} : StageRank(q)' = StageRank(q)
  BY <1>3, ConcludeSteps DEF StageRank, Rank
<1>4. CASE \E h \in Hosts : Open(r, h)
  <2>1. conn[r].st = "new" /\ conn'[r].st = "opened" /\ \A q \in Requests \ {r} : conn'[q] = conn[q]
    BY <1>0, <1>4 DEF Open, ConnStates
  <2>2. /\ outq' = Emitted(Event(r, "opened")) /\ StageRank(r) < Rank("opened") /\ StageRank(r)' = Rank("opened")
        /\ \A q \in Requests \ {r} : StageRank(q)' = StageRank(q)
    <3>1. outq' = Emitted(Event(r, "opened"))
      BY <1>4 DEF Open
    <3>2. StageRank(r) = 0 /\ StageRank(r)' = 1 /\ Rank("opened") = 1
      BY <2>1 DEF StageRank, Rank
    <3>3. \A q \in Requests \ {r} : StageRank(q)' = StageRank(q)
      BY <2>1 DEF StageRank
    <3> QED BY <3>1, <3>2, <3>3
  <2> QED BY <1>1, <1>2, <2>2
<1>5. CASE Settle(r)
  <2>1. \E ok \in BOOLEAN, reason \in {Nil, "policy", "decider", "decider_timeout"} : Conclude(r, ok, reason)
    BY <1>5 DEF Settle
  <2>2. conn[r].st = "opened"
    BY <1>5 DEF Settle
  <2> QED BY <1>1, <1>2, <1>3, <2>1, <2>2
<1>6. CASE Answered(r) \/ GiveUp(r)
  <2>1. \E ok \in BOOLEAN, reason \in {Nil, "policy", "decider", "decider_timeout"} : Conclude(r, ok, reason)
    BY <1>6 DEF Answered, GiveUp
  <2>2. conn[r].st \in {"asking", "expired"}
    BY <1>6 DEF Answered, GiveUp
  <2> QED BY <1>1, <1>2, <1>3, <2>1, <2>2
<1>7. CASE Ask(r)
  <2>1. conn[r].st = "opened"
    BY <1>7 DEF Ask
  <2>2. CASE Len(outq) < BufferCap
    <3>1. conn'[r].st = "asking" /\ \A q \in Requests \ {r} : conn'[q] = conn[q]
      BY <1>0, <1>7, <2>2 DEF Ask, ConnStates
    <3>2. \A q \in Requests : StageRank(q)' = StageRank(q)
      BY <2>1, <3>1 DEF StageRank
    <3>3. outq' = Append(outq, DecisionRequest(r)) /\ DecisionRequest(r) \in Frames
      BY <1>7, <2>2 DEF Ask, DecisionRequest, Frames
    <3>4. \A q \in Requests : FrameRank(DecisionRequest(r), q) = 0
      BY DEF FrameRank, DecisionRequest
    <3> QED BY <1>1, <3>2, <3>3, <3>4, StageType
  <2>3. CASE ~(Len(outq) < BufferCap)
    <3>1. Conclude(r, FALSE, "decider_timeout")
      BY <1>7, <2>3 DEF Ask
    <3> QED BY <1>1, <1>2, <1>3, <2>1, <3>1
  <2> QED BY <2>2, <2>3
<1>8. CASE Expire(r)
  <2>1. conn[r].st = "asking" /\ conn'[r].st = "expired" /\ \A q \in Requests \ {r} : conn'[q] = conn[q]
    BY <1>0, <1>8 DEF Expire, ConnStates
  <2>2. \A q \in Requests : StageRank(q)' = StageRank(q)
    BY <2>1 DEF StageRank
  <2> QED BY <1>1, <1>8, <2>2, StageType DEF Expire
<1>9. CASE Close(r)
  <2>1. PICK k \in {"closed", "failed"} : conn' = [conn EXCEPT ![r].st = k] /\ outq' = Emitted(Event(r, k))
    BY <1>9 DEF Close
  <2>2. conn[r].st = "allowed" /\ conn'[r].st = k /\ \A q \in Requests \ {r} : conn'[q] = conn[q]
    BY <1>0, <1>9, <2>1 DEF Close, ConnStates
  <2>3. /\ StageRank(r) < Rank(k) /\ StageRank(r)' = Rank(k)
        /\ \A q \in Requests \ {r} : StageRank(q)' = StageRank(q)
    BY <2>2 DEF StageRank, Rank
  <2> QED BY <1>1, <1>2, <2>1, <2>3
<1> QED BY <1>4, <1>5, <1>6, <1>7, <1>8, <1>9 DEF Handlers

(* A step that reports nothing and emits nothing. *)
LEMMA AuditSame ==
    ASSUME NEW r \in Requests, NEW a, NEW b, NEW c, AuditOf(r, a, b, c), UNCHANGED <<conn, told, outq>>,
           Rising(mail', r, a, b),
           bridge'.pf # 0 /\ forward'[bridge'.pf] = "up" => Rising(link'[bridge'.pf].up, r, b, c)
    PROVE  AuditOf(r, a, b, c)'
<1>1. StageRank(r)' = StageRank(r)
  BY DEF StageRank
<1> QED BY <1>1 DEF AuditOf, ToldUpTo, Rising

(* The write loop moves the first frame of the buffer to the end of the link. *)
LEMMA WriteAudit ==
    ASSUME ChannelInv, AuditInv, Write
    PROVE  AuditInv'
<1> SUFFICES ASSUME NEW r \in Requests PROVE \E a, b, c \in 0..3 : AuditOf(r, a, b, c)'
  BY DEF AuditInv
<1>1. PICK a \in 0..3, b \in 0..3, c \in 0..3 : AuditOf(r, a, b, c)
  BY DEF AuditInv
<1>2. PICK x \in 0..3 : x = StageRank(r)
  BY StageType
<1>3. Rising(outq, r, c, x) /\ a <= b /\ b <= c /\ c <= x
  BY <1>1, <1>2 DEF AuditOf
<1>4. outq \in Seq(Frames) /\ outq # <<>> /\ outq' = Tail(outq) /\ Head(outq) \in Frames
  BY QueueRanks DEF Write
<1>5. PICK mid \in 0..3 :
          /\ c <= mid /\ mid <= x /\ Rising(Tail(outq), r, mid, x)
          /\ RankOf(Head(outq), r) # 0 => c < RankOf(Head(outq), r) /\ RankOf(Head(outq), r) = mid
  BY <1>3, <1>4, QueueRanks, RisingTail
<1>6. UNCHANGED <<conn, told, mail, bridge, forward>> /\ StageRank(r)' = x
  BY <1>2 DEF Write, bridgeVars, StageRank
<1>7. ASSUME bridge.pf # 0, forward[bridge.pf] = "up" PROVE Rising(link'[bridge.pf].up, r, b, mid)
  <2>1. bridge.pf \in Links
    BY <1>7, ChannelAssumption DEF ChannelInv, BridgeOK, Links
  <2>2. Rising(link[bridge.pf].up, r, b, c) /\ link[bridge.pf].up \in Seq(Frames)
    BY <1>1, <1>7, <2>1, QueueRanks DEF AuditOf
  <2>3. CASE link'[bridge.pf].up = Append(link[bridge.pf].up, Head(outq))
    <3>1. Rising(Append(link[bridge.pf].up, Head(outq)), r, b, mid)
      BY <1>3, <1>4, <1>5, <2>2, QueueRanks, RisingAppend
    <3> QED BY <2>3, <3>1
  <2>4. CASE link'[bridge.pf].up = link[bridge.pf].up
    BY <1>5, <2>2, <2>4, QueueRanks, RisingWider
  <2>5. \/ link'[bridge.pf].up = Append(link[bridge.pf].up, Head(outq))
        \/ link'[bridge.pf].up = link[bridge.pf].up
    <3>1. link' = [link EXCEPT ![serving.link].up = Append(@, Head(outq))] \/ link' = link
      BY DEF Write
    <3>2. DOMAIN link = Links /\ DOMAIN link[bridge.pf] = {"st", "up", "down"}
      BY <2>1, LinkFields DEF ChannelInv, QueuesOK
    <3> QED BY <2>1, <3>1, <3>2
  <2> QED BY <2>3, <2>4, <2>5
<1>8. b <= mid
  BY <1>3, <1>5
<1>9. AuditOf(r, a, b, mid)'
  <2>1. ToldUpTo(r, a)' /\ Rising(mail, r, a, b)'
    BY <1>1, <1>6 DEF AuditOf, ToldUpTo, Rising
  <2>2. Rising(outq', r, mid, x)
    BY <1>4, <1>5
  <2> QED BY <1>3, <1>5, <1>6, <1>7, <1>8, <2>1, <2>2 DEF AuditOf, Rising
<1> QED BY <1>9

(* The port-forward moves the first frame of the link to the end of the mailbox. *)
LEMMA ForwardReadsAudit ==
    ASSUME ChannelInv, OneLink, AuditInv, NEW l \in Links, ForwardReads(l)
    PROVE  AuditInv'
<1> SUFFICES ASSUME NEW r \in Requests PROVE \E a, b, c \in 0..3 : AuditOf(r, a, b, c)'
  BY DEF AuditInv
<1>0. l = bridge.pf /\ l # 0 /\ forward[l] = "up"
  BY ChannelAssumption DEF ForwardReads, OneLink, Links
<1>1. PICK a \in 0..3, b \in 0..3, c \in 0..3 : AuditOf(r, a, b, c)
  BY DEF AuditInv
<1>2. a <= b /\ b <= c /\ c <= StageRank(r) /\ Rising(mail, r, a, b) /\ Rising(link[l].up, r, b, c)
  BY <1>0, <1>1 DEF AuditOf
<1>3. link[l].up \in Seq(Frames) /\ link[l].up # <<>> /\ Head(link[l].up) \in Frames
  BY QueueRanks DEF ForwardReads
<1>4. PICK mid \in 0..3 :
          /\ b <= mid /\ mid <= c /\ Rising(Tail(link[l].up), r, mid, c)
          /\ RankOf(Head(link[l].up), r) # 0 => b < RankOf(Head(link[l].up), r) /\ RankOf(Head(link[l].up), r) = mid
  BY <1>2, <1>3, QueueRanks, RisingTail
<1>5. UNCHANGED <<conn, told, outq, bridge, forward>> /\ StageRank(r)' = StageRank(r)
  BY DEF ForwardReads, bridgeVars, sidecarVars, StageRank
<1>6. link'[l].up = Tail(link[l].up)
  BY LinkFields DEF ForwardReads, ChannelInv, QueuesOK
<1>7. Rising(mail', r, a, mid)
  <2> DEFINE e == Data(Head(link[l].up))
  <2>1. e \in MailOf(Frames) /\ RankOf(e, r) = RankOf(Head(link[l].up), r) /\ mail' = Append(mail, e)
    BY <1>3, RankTypes DEF MailOf, ForwardReads
  <2> HIDE DEF e
  <2> QED BY <1>2, <1>4, <2>1, QueueRanks, RisingAppend
<1>8. AuditOf(r, a, mid, c)'
  <2>1. ToldUpTo(r, a)' /\ Rising(outq', r, c, StageRank(r)')
    BY <1>1, <1>5 DEF AuditOf, ToldUpTo, Rising
  <2>2. a <= mid
    BY <1>2, <1>4
  <2>3. Rising(link'[bridge'.pf].up, r, mid, c)
    BY <1>0, <1>4, <1>5, <1>6
  <2> QED BY <1>2, <1>4, <1>5, <1>7, <2>1, <2>2, <2>3 DEF AuditOf, Rising
<1> QED BY <1>8

(* The bridge reports the first event of its mailbox. *)
LEMMA HandleDataAudit ==
    ASSUME ChannelInv, OneLink, AuditInv, HandleData
    PROVE  AuditInv'
<1> SUFFICES ASSUME NEW r \in Requests PROVE \E a, b, c \in 0..3 : AuditOf(r, a, b, c)'
  BY DEF AuditInv
<1>1. PICK a \in 0..3, b \in 0..3, c \in 0..3 : AuditOf(r, a, b, c)
  BY DEF AuditInv
<1>2. a <= b /\ b <= c /\ c <= StageRank(r) /\ Rising(mail, r, a, b) /\ ToldUpTo(r, a)
  BY <1>1 DEF AuditOf
<1>3. PICK f \in Frames : Head(mail) = Data(f) /\ HandleLine(f)
  BY HeadIsData DEF HandleData, AskedFrames, Data
<1>4. RankOf(Head(mail), r) = FrameRank(f, r) /\ FrameRank(f, r) \in 0..3
  BY <1>3 DEF Frames, FrameRank, RankOf, Rank, Data
<1>5. PICK mid \in 0..3 :
          /\ a <= mid /\ mid <= b /\ Rising(Tail(mail), r, mid, b)
          /\ FrameRank(f, r) # 0 => a < FrameRank(f, r) /\ FrameRank(f, r) = mid
  BY <1>2, <1>4, QueueRanks, RisingTail DEF HandleData
<1>6. /\ UNCHANGED <<conn, outq, forward>> /\ StageRank(r)' = StageRank(r) /\ mail' = Tail(mail)
      /\ bridge'.pf = bridge.pf
  BY DEF HandleData, HandleLine, sidecarVars, StageRank, ChannelInv, BridgeOK
<1>7. \A d \in Links : link'[d].up = link[d].up
  <2>1. \/ link' = link
        \/ \E d : link' = [link EXCEPT ![bridge.pf].down = Append(@, d)]
    BY DEF HandleData, HandleLine, SendDecision
  <2>2. ASSUME NEW d, link' = [link EXCEPT ![bridge.pf].down = Append(@, d)], NEW l \in Links
        PROVE  link'[l].up = link[l].up
    <3>1. DOMAIN link = Links /\ DOMAIN link[l] = {"st", "up", "down"}
      BY LinkFields DEF ChannelInv, QueuesOK
    <3>2. CASE l = bridge.pf
      BY <2>2, <3>1, <3>2
    <3>3. CASE l # bridge.pf
      BY <2>2, <3>1, <3>3
    <3> QED BY <3>2, <3>3
  <2> QED BY <2>1, <2>2
<1>8. ToldUpTo(r, mid)'
  <2>1. told[r] \in Seq({"opened", "allowed", "denied", "closed", "failed"})
    BY DEF ChannelInv, ReportsOK
  <2>2. CASE FrameRank(f, r) = 0
    <3>1. told'[r] = told[r]
      BY <1>3, <2>2 DEF HandleLine, FrameRank, Rank, ChannelInv, ReportsOK
    <3>2. \A i \in DOMAIN told[r] : Rank(told[r][i]) \in 0..3
      BY <2>1 DEF Rank
    <3> QED BY <1>2, <1>5, <3>1, <3>2 DEF ToldUpTo
  <2>3. CASE FrameRank(f, r) # 0
    <3>1. f.type # "decision_request" /\ f.id = r /\ FrameRank(f, r) = Rank(f.type)
      BY <2>3 DEF FrameRank
    <3>2. told'[r] = Append(told[r], f.type)
      BY <1>3, <3>1 DEF HandleLine, ChannelInv, ReportsOK
    <3> DEFINE n == Len(told[r])
    <3>3. /\ n \in Nat /\ DOMAIN told[r] = 1..n /\ DOMAIN told'[r] = 1..n + 1 /\ told'[r][n + 1] = f.type
          /\ \A i \in 1..n : told'[r][i] = told[r][i]
      <4>1. f.type \in {"opened", "allowed", "denied", "closed", "failed"}
        BY <3>1 DEF Frames
      <4> QED BY <2>1, <3>2, <4>1, AppendProperties
    <3>4. \A i \in 1..n : Rank(told[r][i]) <= a /\ Rank(told[r][i]) \in 0..3
      BY <1>2, <2>1, <3>3 DEF ToldUpTo, Rank
    <3>5. a < Rank(f.type) /\ Rank(f.type) = mid
      BY <1>5, <2>3, <3>1
    <3> HIDE DEF n
    <3>6. \A i \in DOMAIN told'[r] : Rank(told'[r][i]) <= mid
      BY <3>3, <3>4, <3>5
    <3>7. ASSUME NEW i \in DOMAIN told'[r], NEW j \in DOMAIN told'[r], i < j
          PROVE  Rank(told'[r][i]) < Rank(told'[r][j])
      <4>1. i \in 1..n /\ told'[r][i] = told[r][i]
        BY <3>3, <3>7
      <4>2. CASE j \in 1..n
        BY <1>2, <3>3, <3>7, <4>1, <4>2 DEF ToldUpTo
      <4>3. CASE j = n + 1
        BY <3>3, <3>4, <3>5, <4>1, <4>3
      <4> QED BY <3>3, <4>2, <4>3
    <3> QED BY <3>6, <3>7 DEF ToldUpTo
  <2> QED BY <2>2, <2>3
<1>9. AuditOf(r, mid, b, c)'
  <2>1. Rising(outq', r, c, StageRank(r)')
    BY <1>1, <1>6 DEF AuditOf
  <2>2. Rising(mail', r, mid, b)
    BY <1>5, <1>6
  <2>3. bridge.pf # 0 /\ forward[bridge.pf] = "up" => Rising(link'[bridge.pf].up, r, b, c)
    <3>1. bridge.pf # 0 => bridge.pf \in Links
      BY ChannelAssumption DEF ChannelInv, BridgeOK, Links
    <3> QED BY <1>1, <1>7, <3>1 DEF AuditOf
  <2> QED BY <1>2, <1>5, <1>6, <1>8, <2>1, <2>2, <2>3 DEF AuditOf, Rising
<1> QED BY <1>9

(* Every other step leaves the order alone. *)
LEMMA QuietAudit ==
    ASSUME ~EarlyClose, ChannelInv, OneLink, OneLink', AuditInv, UNCHANGED <<conn, told, outq>>,
           \/ mail' = mail \/ mail' = <<>>
           \/ \E l \in Links : mail' = mail \o <<Eof, Down(l)>> \/ mail' = Append(mail, Down(l)),
           \/ bridge'.pf = 0 \/ forward'[bridge'.pf] # "up"
           \/ bridge'.pf \in Links /\ link'[bridge'.pf].up = <<>>
           \/ /\ bridge'.pf = bridge.pf /\ forward' = forward /\ link'[bridge.pf].up \in Seq(Frames)
              /\ Len(link'[bridge.pf].up) <= Len(link[bridge.pf].up)
              /\ \A k \in 1..Len(link'[bridge.pf].up) : link'[bridge.pf].up[k] = link[bridge.pf].up[k]
    PROVE  AuditInv'
<1> SUFFICES ASSUME NEW r \in Requests PROVE \E a, b, c \in 0..3 : AuditOf(r, a, b, c)'
  BY DEF AuditInv
<1>1. PICK a \in 0..3, b \in 0..3, c \in 0..3 : AuditOf(r, a, b, c)
  BY DEF AuditInv
<1>2. a <= b /\ Rising(mail, r, a, b)
  BY <1>1 DEF AuditOf
<1>3. Rising(mail', r, a, b)
  <2>1. CASE mail' = mail
    BY <1>2, <2>1
  <2>2. CASE mail' = <<>>
    BY <2>2, RisingEmpty
  <2>3. ASSUME NEW l \in Links, mail' = mail \o <<Eof, Down(l)>> \/ mail' = Append(mail, Down(l))
        PROVE  Rising(mail', r, a, b)
    <3> DEFINE M == MailOf(Frames)
    <3>1. Eof \in M /\ Down(l) \in M /\ RankOf(Eof, r) = 0 /\ RankOf(Down(l), r) = 0
      BY DEF MailOf, RankOf, Eof, Down
    <3>2. mail \in Seq(M) /\ \A m \in M : RankOf(m, r) \in 0..3
      BY QueueRanks
    <3> HIDE DEF M
    <3>3. Rising(Append(mail, Down(l)), r, a, b)
      BY <1>2, <3>1, <3>2, RisingAppend
    <3>4. PICK q \in Seq(M) : q = Append(mail, Eof) /\ Rising(q, r, a, b)
      <4>1. Append(mail, Eof) \in Seq(M)
        BY <3>1, <3>2, AppendProperties
      <4>2. Rising(Append(mail, Eof), r, a, b)
        BY <1>2, <3>1, <3>2, RisingAppend
      <4> QED BY <4>1, <4>2
    <3>5. Rising(Append(Append(mail, Eof), Down(l)), r, a, b)
      <4>1. Rising(q, r, a, b) /\ Down(l) \in M
        BY <3>1, <3>4
      <4>2. RankOf(Down(l), r) = 0 /\ \A m \in M : RankOf(m, r) \in 0..3
        BY <3>1, <3>2
      <4>3. Rising(Append(q, Down(l)), r, a, b)
        BY <1>2, <4>1, <4>2, RisingAppend
      <4> QED BY <3>4, <4>3
    <3>6. mail \o <<Eof, Down(l)>> = Append(Append(mail, Eof), Down(l))
      <4> DEFINE s == mail \o <<Eof, Down(l)>>
                 t == Append(Append(mail, Eof), Down(l))
      <4>1. <<Eof, Down(l)>> \in Seq(M)
        BY <3>1
      <4>2. /\ s \in Seq(M) /\ Len(s) = Len(mail) + 2
            /\ \A i \in 1..Len(mail) + 2 : s[i] = IF i <= Len(mail) THEN mail[i] ELSE <<Eof, Down(l)>>[i - Len(mail)]
        BY <3>2, <4>1, ConcatProperties
      <4>3. /\ t \in Seq(M) /\ Len(t) = Len(mail) + 2 /\ \A i \in 1..Len(mail) : t[i] = mail[i]
            /\ t[Len(mail) + 1] = Eof /\ t[Len(mail) + 2] = Down(l)
        BY <3>1, <3>2, AppendProperties
      <4>4. \A i \in 1..Len(s) : s[i] = t[i]
        BY <3>2, <4>2, <4>3
      <4> HIDE DEF s, t
      <4>5. s = t
        BY <4>2, <4>3, <4>4, SeqEqual
      <4> QED BY <4>5 DEF s, t
    <3> QED BY <2>3, <3>3, <3>5, <3>6
  <2> QED BY <2>1, <2>2, <2>3
<1>4. ASSUME bridge'.pf # 0, forward'[bridge'.pf] = "up" PROVE Rising(link'[bridge'.pf].up, r, b, c)
  <2>1. CASE link'[bridge'.pf].up = <<>>
    BY <2>1, RisingEmpty
  <2>2. CASE /\ bridge'.pf = bridge.pf /\ forward' = forward /\ link'[bridge.pf].up \in Seq(Frames)
             /\ Len(link'[bridge.pf].up) <= Len(link[bridge.pf].up)
             /\ \A k \in 1..Len(link'[bridge.pf].up) : link'[bridge.pf].up[k] = link[bridge.pf].up[k]
    <3>1. Rising(link[bridge.pf].up, r, b, c)
      BY <1>1, <1>4, <2>2 DEF AuditOf
    <3>2. bridge.pf \in Links
      BY <1>4, <2>2, ChannelAssumption DEF ChannelInv, BridgeOK, Links
    <3>3. link[bridge.pf].up \in Seq(Frames)
      BY <3>2, QueueRanks
    <3>4. Rising(link'[bridge.pf].up, r, b, c)
      BY <2>2, <3>1, <3>3, RisingPrefix
    <3> QED BY <2>2, <3>4
  <2> QED BY <1>4, <2>1, <2>2
<1>5. AuditOf(r, a, b, c)'
  BY <1>1, <1>3, <1>4, AuditSame
<1> QED BY <1>5

(* The bridge's next channel has carried nothing. *)
LEMMA ConnectedAudit ==
    ASSUME ~EarlyClose, ChannelInv, OneLink, OneLink', AuditInv, NEW b, Connected(b),
           DOMAIN b = DOMAIN bridge, UNCHANGED <<conn, told, outq>>
    PROVE  AuditInv'
<1>1. PICK n \in 0..MaxLinks : UsedUpTo(n)
  BY DEF OneLink
<1>2. Used = n
  BY <1>1, NextLink
<1>3. n + 1 \in Links /\ link[n + 1].st = "none" /\ link[n + 1].up = <<>>
  <2>1. n + 1 \in Links
    BY <1>2, ChannelAssumption DEF Connected, Links
  <2>2. link[n + 1].st = "none"
    BY <1>1, <2>1, ChannelAssumption DEF UsedUpTo
  <2> QED BY <2>1, <2>2 DEF OneLink
<1>4. bridge'.pf = n + 1 /\ mail' = mail /\ link' = [link EXCEPT ![n + 1].st = "up"]
  BY <1>2 DEF Connected, ChannelInv, BridgeOK
<1>5. link'[n + 1].up = <<>>
  BY <1>3, <1>4, LinkFields DEF ChannelInv, QueuesOK
<1> QED BY <1>3, <1>4, <1>5, QuietAudit

(* A bridge that stops reads no more. *)
LEMMA TerminateAudit ==
    ASSUME ~EarlyClose, ChannelInv, OneLink, OneLink', AuditInv, Terminate, UNCHANGED <<conn, told, outq, mail>>
    PROVE  AuditInv'
<1>1. bridge'.pf = bridge.pf
  BY DEF Terminate, ChannelInv, BridgeOK
<1>2. bridge.pf # 0 => forward'[bridge.pf] # "up"
  <2>1. bridge.pf # 0 => bridge.pf \in Links
    BY ChannelAssumption DEF ChannelInv, BridgeOK, Links
  <2> QED BY <2>1 DEF Terminate, ChannelInv, PeersOK
<1> QED BY <1>1, <1>2, QuietAudit

(* The link of the bridge's channel carries what it carried, or the beginning of it. *)
LEMMA UpSame ==
    ASSUME ~EarlyClose, ChannelInv, OneLink, OneLink', AuditInv, UNCHANGED <<conn, told, outq, mail, forward>>,
           bridge'.pf = bridge.pf, \A c \in Links : link'[c].up = link[c].up
    PROVE  AuditInv'
<1>1. CASE bridge.pf = 0
  BY <1>1, QuietAudit
<1>2. CASE bridge.pf # 0
  <2>1. bridge.pf \in Links
    BY <1>2, ChannelAssumption DEF ChannelInv, BridgeOK, Links
  <2>2. link'[bridge.pf].up = link[bridge.pf].up /\ link[bridge.pf].up \in Seq(Frames)
    <3>1. TypeOK
      BY ChannelTyped
    <3> QED BY <2>1, <3>1 DEF TypeOK
  <2>3. /\ link'[bridge.pf].up \in Seq(Frames) /\ Len(link'[bridge.pf].up) <= Len(link[bridge.pf].up)
        /\ \A k \in 1..Len(link'[bridge.pf].up) : link'[bridge.pf].up[k] = link[bridge.pf].up[k]
    BY <2>2
  <2> QED BY <2>3, QuietAudit
<1> QED BY <1>1, <1>2

LEMMA LinkDropsAudit ==
    ASSUME ~EarlyClose, ChannelInv, OneLink, OneLink', AuditInv, NEW c \in Links, LinkDrops(c)
    PROVE  AuditInv'
<1>0. UNCHANGED <<conn, told, outq, mail, forward, bridge>>
  BY DEF LinkDrops, sidecarVars, bridgeVars
<1>1. PICK l \in Broken(link[c]) : link' = [link EXCEPT ![c] = l]
  BY DEF LinkDrops
<1>2. \A d \in Links : link'[d] = IF d = c THEN l ELSE link[d]
  BY <1>1 DEF ChannelInv, QueuesOK
<1>3. CASE bridge.pf = c
  <2>1. link[c] \in LinksOf(Frames, Decisions)
    <3>1. TypeOK
      BY ChannelTyped
    <3> QED BY <3>1 DEF TypeOK, LinksOf, Decisions
  <2>2. l \in LinksOf(Frames, Decisions) /\ Len(l.up) <= Len(link[c].up) /\ \A k \in 1..Len(l.up) : l.up[k] = link[c].up[k]
    BY <2>1, BrokenLink
  <2>3. l.up \in Seq(Frames)
    BY <2>2 DEF LinksOf
  <2> QED BY <1>0, <1>2, <1>3, <2>2, <2>3, QuietAudit
<1>4. CASE bridge.pf # c
  <2>1. CASE bridge.pf = 0
    BY <1>0, <2>1, QuietAudit
  <2>2. CASE bridge.pf # 0
    <3>1. bridge.pf \in Links
      BY <2>2, ChannelAssumption DEF ChannelInv, BridgeOK, Links
    <3>2. link'[bridge.pf] = link[bridge.pf] /\ link[bridge.pf].up \in Seq(Frames)
      <4>1. TypeOK
        BY ChannelTyped
      <4> QED BY <1>2, <1>4, <3>1, <4>1 DEF TypeOK
    <3>3. /\ link'[bridge.pf].up \in Seq(Frames) /\ Len(link'[bridge.pf].up) <= Len(link[bridge.pf].up)
          /\ \A k \in 1..Len(link'[bridge.pf].up) : link'[bridge.pf].up[k] = link[bridge.pf].up[k]
      BY <3>2
    <3> QED BY <1>0, <3>3, QuietAudit
  <2> QED BY <2>1, <2>2
<1> QED BY <1>3, <1>4

LEMMA ReadAudit ==
    ASSUME ~EarlyClose, ChannelInv, OneLink, OneLink', AuditInv, Accept \/ Read \/ ReadEnds
    PROVE  AuditInv'
<1>1. UNCHANGED <<conn, told, outq, mail, forward, bridge>>
  BY DEF Accept, Read, ReadEnds, sidecarVars, bridgeVars
<1>2. \A c \in Links : link'[c].up = link[c].up
  <2>1. link' = link \/ link' = [link EXCEPT ![serving.link].down = Tail(@)]
    BY DEF Accept, Read, ReadEnds
  <2>2. \A c \in Links : DOMAIN link[c] = {"st", "up", "down"}
    BY LinkFields DEF ChannelInv
  <2>3. DOMAIN link = Links
    BY DEF ChannelInv, QueuesOK
  <2>4. ASSUME NEW c \in Links, link' = [link EXCEPT ![serving.link].down = Tail(@)]
        PROVE  link'[c].up = link[c].up
    <3>1. CASE c = serving.link
      BY <2>2, <2>3, <2>4, <3>1
    <3>2. CASE c # serving.link
      BY <2>3, <2>4, <3>2
    <3> QED BY <3>1, <3>2
  <2> QED BY <2>1, <2>4
<1> QED BY <1>1, <1>2, UpSame

LEMMA EndsAudit ==
    ASSUME ~EarlyClose, ChannelInv, OneLink, OneLink', AuditInv,
           \/ \E c \in Links : ForwardEof(c) \/ ForwardFails(c)
           \/ HandleEof \/ HandleDown
    PROVE  AuditInv'
<1>1. ASSUME NEW c \in Links, ForwardEof(c) \/ ForwardFails(c) PROVE AuditInv'
  <2>1. bridge' = bridge /\ UNCHANGED <<conn, told, outq>>
    BY <1>1 DEF ForwardEof, ForwardFails, sidecarVars, bridgeVars
  <2>2. c = bridge.pf
    BY <1>1 DEF ForwardEof, ForwardFails, OneLink
  <2>3. forward'[c] # "up"
    BY <1>1 DEF ForwardEof, ForwardFails, ChannelInv, PeersOK
  <2>4. mail' = mail \o <<Eof, Down(c)>> \/ mail' = Append(mail, Down(c))
    BY <1>1 DEF ForwardEof, ForwardFails
  <2> QED BY <2>1, <2>2, <2>3, <2>4, QuietAudit
<1>2. ASSUME HandleEof \/ HandleDown PROVE AuditInv'
  <2>1. mail' = <<>> /\ bridge'.pf = 0
    BY <1>2, EndTaken DEF Rescheduled, ChannelInv, BridgeOK
  <2>2. UNCHANGED <<conn, told, outq>>
    BY <1>2 DEF HandleEof, HandleDown, sidecarVars
  <2> QED BY <2>1, <2>2, QuietAudit
<1> QED BY <1>1, <1>2

LEMMA DialAudit ==
    ASSUME ~EarlyClose, ChannelInv, OneLink, OneLink', AuditInv, Start \/ Reconnect
    PROVE  AuditInv'
<1>0. UNCHANGED <<conn, told, outq>>
  BY DEF Start, Reconnect, sidecarVars
<1>1. ASSUME NEW b, Connected(b), DOMAIN b = DOMAIN bridge PROVE AuditInv'
  BY <1>0, <1>1, ConnectedAudit
<1>2. CASE Connected([bridge EXCEPT !.st = "up"]) \/ Connected([bridge EXCEPT !.timers = @ - 1])
  BY <1>1, <1>2
<1>3. CASE Terminate /\ UNCHANGED mail
  BY <1>0, <1>3, TerminateAudit
<1>4. CASE /\ bridge' = [bridge EXCEPT !.st = "up", !.timers = 1] \/ bridge' = [bridge EXCEPT !.attempts = @ + 1]
           /\ UNCHANGED <<forward, backlog, link, mail>>
  <2>1. bridge'.pf = bridge.pf
    BY <1>4 DEF ChannelInv, BridgeOK
  <2> QED BY <1>0, <1>4, <2>1, UpSame
<1> QED BY <1>2, <1>3, <1>4 DEF Start, Reconnect

LEMMA AuditStep ==
    ASSUME ~EarlyClose, ChannelInv, ChannelInv', OneLink, OneLink', AuditInv, [Next]_vars
    PROVE  AuditInv'
<1>1. CASE \E r \in Requests : Handlers(r)
  BY <1>1, StageSteps, HandlerAudit
<1>2. CASE Sidecar
  BY <1>2, WriteAudit, ReadAudit DEF Sidecar
<1>3. CASE Bridge
  BY <1>3, DialAudit, EndsAudit, HandleDataAudit DEF Bridge
<1>4. CASE \E c \in Links : LinkDrops(c) \/ ForwardReads(c) \/ ForwardEof(c) \/ ForwardFails(c)
  BY <1>4, LinkDropsAudit, ForwardReadsAudit, EndsAudit
<1>5. CASE OwnerDown
  BY <1>5, TerminateAudit DEF OwnerDown, sidecarVars
<1>6. CASE UNCHANGED vars
  BY <1>6, UpSame DEF vars
<1> QED BY <1>1, <1>2, <1>3, <1>4, <1>5, <1>6 DEF Next

(* What the bridge reports of a request is its life in order, with gaps and without repeats,
   through any number of links that break at any point, where no port-forward says eof as it is
   started (write_loop, apply_frame, deliver_event). *)
THEOREM AuditIsOrdered == ~EarlyClose => (Spec => []AuditOrdered)
<1> SUFFICES ASSUME ~EarlyClose PROVE Spec => []AuditOrdered
  OBVIOUS
<1>1. AuditInv => AuditOrdered
  BY DEF AuditInv, AuditOf, ToldUpTo, AuditOrdered, Rank
<1>2. Init => ChannelInv /\ OneLink /\ AuditInv
  BY ChannelStarts, OneLinkStarts, AuditStarts
<1>3. ChannelInv /\ OneLink /\ AuditInv /\ [Next]_vars => ChannelInv' /\ OneLink' /\ AuditInv'
  BY ChannelStep, ChannelStutters, OneLinkStep, AuditStep
<1> QED BY <1>1, <1>2, <1>3, PTL DEF Spec
=============================================================================
