---------------------------- MODULE EgressProofs ----------------------------
(***************************************************************************)
(* What holds of the way out of a pod for every set of users, connections, *)
(* streams, rules and any number of interrupted installations.             *)
(***************************************************************************)
EXTENDS EgressPath, SequenceTheorems, WellFoundedInduction, TLAPS

-----------------------------------------------------------------------------
(* The chain holds nothing but the rules; no redirect without both bypasses before it; and
   the rules the init container is past are in. *)
Has(k, i) == chain[i] = BuildRules[k]

ChainInv ==
    /\ DOMAIN setup = {"runs", "next"} /\ setup.next \in 1..5
    /\ chain \in Seq({BuildRules[k] : k \in 1..4})
    /\ \A i \in DOMAIN chain : Has(3, i) \/ Has(4, i) =>
          (\E j \in 1..i - 1 : Has(1, j)) /\ (\E j \in 1..i - 1 : Has(2, j))
    /\ \A k \in 1..4 : k < setup.next => \E i \in DOMAIN chain : Has(k, i)

-----------------------------------------------------------------------------
(* A caller that asks has a host, and what it is served is what the cache holds. *)
LeafInv ==
    /\ leaf \in [Names -> Conns \cup {NoConfig}]
    /\ DOMAIN lookup = Conns
    /\ \A c \in Conns :
          /\ DOMAIN lookup[c] = {"st", "host", "cfg"}
          /\ lookup[c].st \in {"minting", "minted", "served"} => lookup[c].host \in Names
          /\ lookup[c].st = "served" => lookup[c].cfg = leaf[lookup[c].host] /\ lookup[c].cfg # NoConfig

-----------------------------------------------------------------------------
(* The stages at which a connection has been allowed and is not over. *)
AllowedAt == {"config", "dial", "upstream", "head", "parsed", "splice", "h2", "streams"}
EndedAt   == {"lost", "denied", "closed", "failed"}

(* Where a handler is, and what was reported so far: none is on its way past the proxy. *)
StageOf(c) ==
    /\ DOMAIN conn[c] = {"st", "port", "host", "alpn"}
    /\ conn[c].st \in {"none", "accepted", "opened"} \cup AllowedAt \cup EndedAt
    /\ conn[c].st \in {"opened"} \cup AllowedAt => conn[c].host \in Hosts
    /\ conn[c].st \in {"h2", "streams"} => conn[c].alpn = "h2"
    /\ conn[c].st \in {"none", "accepted"} => trail[c] = <<>>
    /\ conn[c].st = "opened" => trail[c] = <<"opened">>
    /\ conn[c].st \in AllowedAt => trail[c] = <<"opened", "allowed">>

(* One direction: nothing is read that was not written. *)
FlowShape(f) ==
    /\ DOMAIN f = {"wrote", "end", "read", "delivered", "shut"}
    /\ f.wrote \in Nat /\ f.read \in Nat /\ f.delivered \in Nat /\ f.read <= f.wrote
    /\ f.end \in {"open", "eof", "reset"}

(* A direction that is spliced: what was read is delivered unless the other peer is gone, and
   it is shut because its source has ended and all of it was read, or because the other peer
   is gone. *)
Carried(f, other) ==
    /\ other # "reset" => f.delivered = f.read
    /\ f.shut /\ other # "reset" => f.end # "open" /\ ~Unread(f)

(* The two directions: untouched before the upstream is there, nothing delivered while the
   head is read, carried from then on, and everything carried when it is over. *)
FlowOf(c) ==
    /\ DOMAIN flow[c] = Dirs /\ \A d \in Dirs : FlowShape(flow[c][d])
    /\ conn[c].st \notin {"head", "parsed", "splice"} \cup EndedAt => \A d \in Dirs : flow[c][d] = NewFlow
    /\ conn[c].st \in {"head", "parsed"} =>
          flow[c]["in"].read = 0 /\ \A d \in Dirs : flow[c][d].delivered = 0 /\ ~flow[c][d].shut
    /\ conn[c].st = "splice" => \A d \in Dirs : Carried(flow[c][d], flow[c][Other(d)].end)
    /\ At(c, "closed") /\ conn[c].alpn # "h2" /\ (\A d \in Dirs : flow[c][d].end # "reset")
          => \A d \in Dirs : flow[c][d].end = "eof" /\ flow[c][d].delivered = flow[c][d].wrote

PathInv ==
    /\ DOMAIN conn = Conns /\ DOMAIN trail = Conns /\ DOMAIN flow = Conns
    /\ \A c \in Conns : StageOf(c) /\ FlowOf(c)

EgressInv == ChainInv /\ LeafInv /\ PathInv

-----------------------------------------------------------------------------
(* What each of the four rules matches, and where it leads. *)
LEMMA RuleFacts ==
    /\ Len(BuildRules) = 4
    /\ BuildRules[1].target = "RETURN" /\ BuildRules[2].target = "RETURN"
    /\ BuildRules[3].target = "REDIRECT" /\ BuildRules[4].target = "REDIRECT"
    /\ \A pkt \in Packets :
          /\ Matches(BuildRules[1], pkt) <=> pkt.out = "lo"
          /\ Matches(BuildRules[2], pkt) <=> pkt.uid = SidecarUid
          /\ Matches(BuildRules[3], pkt) <=> pkt.dport = 80
          /\ Matches(BuildRules[4], pkt) <=> pkt.dport = 443
BY DEF BuildRules, Matches, Packets, Uids, Ports

(* The least of a set of positions. *)
LEMMA LeastOf ==
    ASSUME NEW S, S \subseteq Nat, S # {}
    PROVE  \E x \in S : \A y \in S : x <= y
<1> DEFINE Less == OpToRel(<, Nat)
<1>1. PICK x \in S : \A y \in S : <<y, x>> \notin Less
  <2> HIDE DEF Less
  <2> QED BY NatLessThanWellFounded, WFMin, Zenon DEF Less
<1>2. \A y \in S : ~(y < x)
  BY <1>1 DEF OpToRel
<1> QED BY <1>2, SMT

(* A chain with no rule yet. *)
LEMMA ChainInit == NetfilterInit => ChainInv
BY DEF NetfilterInit, ChainInv

(* A rule that is appended finds both bypasses before it, if it is a redirect. *)
LEMMA AppendKeeps ==
    ASSUME ChainInv, ~Installed, chain' = Append(chain, BuildRules[setup.next])
    PROVE  /\ chain' \in Seq({BuildRules[k] : k \in 1..4})
           /\ \A i \in DOMAIN chain' : (Has(3, i) \/ Has(4, i))' =>
                 (\E j \in 1..i - 1 : Has(1, j)') /\ (\E j \in 1..i - 1 : Has(2, j)')
           /\ \A k \in 1..4 : k <= setup.next => \E i \in DOMAIN chain' : Has(k, i)'
<1> DEFINE n == Len(chain)
           R == {BuildRules[k] : k \in 1..4}
           rule == BuildRules[setup.next]
<1>0. setup.next \in 1..4
  BY RuleFacts DEF ChainInv, Installed
<1>1. rule \in R /\ chain \in Seq(R)
  BY <1>0 DEF ChainInv
<1>2. chain' \in Seq(R) /\ Len(chain') = n + 1 /\ n \in Nat /\ chain'[n + 1] = rule
      /\ (\A i \in 1..n : chain'[i] = chain[i]) /\ DOMAIN chain = 1..n /\ DOMAIN chain' = 1..n + 1
  <2> HIDE DEF R, rule
  <2> QED BY <1>1 DEF rule
<1>3. BuildRules[3] # BuildRules[1] /\ BuildRules[3] # BuildRules[2]
      /\ BuildRules[4] # BuildRules[1] /\ BuildRules[4] # BuildRules[2]
  BY RuleFacts
<1>4. \A k \in 1..4 : k < setup.next => \E i \in 1..n : chain[i] = BuildRules[k]
  BY <1>2 DEF ChainInv, Has
<1>5. ASSUME NEW i \in 1..n + 1, chain'[i] = BuildRules[3] \/ chain'[i] = BuildRules[4]
      PROVE  /\ \E j \in 1..i - 1 : chain'[j] = BuildRules[1]
             /\ \E j \in 1..i - 1 : chain'[j] = BuildRules[2]
  <2>1. CASE i \in 1..n
    <3>1. /\ \E j \in 1..i - 1 : chain[j] = BuildRules[1]
          /\ \E j \in 1..i - 1 : chain[j] = BuildRules[2]
      BY <1>2, <1>5, <2>1 DEF ChainInv, Has
    <3> QED BY <1>2, <2>1, <3>1
  <2>2. CASE i = n + 1
    <3>1. setup.next \in {3, 4}
      BY <1>0, <1>2, <1>3, <1>5, <2>2
    <3>2. (\E j \in 1..n : chain[j] = BuildRules[1]) /\ (\E j \in 1..n : chain[j] = BuildRules[2])
      BY <1>4, <3>1
    <3> QED BY <1>2, <2>2, <3>2
  <2> QED BY <1>2, <2>1, <2>2
<1>6. ASSUME NEW k \in 1..4, k <= setup.next
      PROVE  \E i \in 1..n + 1 : chain'[i] = BuildRules[k]
  <2>1. CASE k < setup.next
    BY <1>2, <1>4, <2>1
  <2>2. CASE k = setup.next
    BY <1>2, <2>2
  <2> QED BY <1>0, <1>6, <2>1, <2>2
<1> QED BY <1>2, <1>5, <1>6 DEF Has

(* The init container goes on, fails, or starts over. *)
LEMMA SetUpKeeps ==
    ASSUME ChainInv, NetfilterNext
    PROVE  ChainInv'
<1>0. setup.next \in 1..4
  BY RuleFacts DEF ChainInv, NetfilterNext, Append1, SetupFails, Installed
<1>1. CASE Append1
  <2>1. setup'.next = setup.next + 1 /\ DOMAIN setup' = {"runs", "next"}
    BY <1>1 DEF Append1, ChainInv
  <2>2. \A k \in 1..4 : k < setup'.next <=> k <= setup.next
    BY <1>0, <2>1
  <2> QED BY <1>0, <1>1, <2>1, <2>2, AppendKeeps DEF Append1, ChainInv
<1>2. CASE SetupFails
  <2>1. setup'.next = 1 /\ DOMAIN setup' = {"runs", "next"}
    BY <1>2 DEF SetupFails
  <2>2. CASE chain' = chain
    BY <2>1, <2>2 DEF ChainInv, Has
  <2>3. CASE chain' = Append(chain, BuildRules[setup.next])
    BY <1>2, <2>1, <2>3, AppendKeeps DEF ChainInv, SetupFails
  <2> QED BY <1>2, <2>2, <2>3 DEF SetupFails
<1> QED BY <1>1, <1>2 DEF NetfilterNext

(* No redirect is reached by what a bypass matches. *)
LEMMA ChainNoLoop == ChainInv => NoLoop
<1> SUFFICES ASSUME ChainInv, NEW pkt \in Packets, pkt.uid = SidecarUid \/ pkt.out = "lo", Redirected(pkt)
             PROVE  FALSE
  BY DEF NoLoop
<1>1. PICK i \in DOMAIN chain :
          /\ chain[i].target = "REDIRECT"
          /\ \A j \in 1..i - 1 : ~Matches(chain[j], pkt)
  BY DEF Redirected
<1>2. Has(1, i) \/ Has(2, i) \/ Has(3, i) \/ Has(4, i)
  BY DEF ChainInv, Has
<1>3. Has(3, i) \/ Has(4, i)
  BY <1>1, <1>2, RuleFacts DEF Has
<1>4. (\E j \in 1..i - 1 : Has(1, j)) /\ (\E j \in 1..i - 1 : Has(2, j))
  BY <1>3 DEF ChainInv
<1> QED BY <1>1, <1>4, RuleFacts DEF Has

(* Once the rules are in, whatever the workspace sends to the web goes to the proxy. *)
LEMMA ChainCaptures ==
    ASSUME ChainInv, Installed, NEW pkt \in Packets,
           pkt.out # "lo", pkt.uid # SidecarUid, pkt.dport \in {80, 443}
    PROVE  Redirected(pkt)
<1> DEFINE S == {i \in DOMAIN chain : Matches(chain[i], pkt)}
<1>2. (\E i \in DOMAIN chain : Has(3, i)) /\ (\E i \in DOMAIN chain : Has(4, i))
  BY RuleFacts DEF ChainInv, Installed
<1>3. DOMAIN chain = 1..Len(chain) /\ Len(chain) \in Nat
  BY DEF ChainInv
<1>4. S # {}
  BY <1>2, RuleFacts DEF Has
<1>5. PICK i \in S : \A j \in S : i <= j
  <2>1. S \subseteq Nat
    BY <1>3
  <2> HIDE DEF S
  <2> QED BY <1>4, <2>1, LeastOf
<1>6. Has(1, i) \/ Has(2, i) \/ Has(3, i) \/ Has(4, i)
  BY <1>5 DEF ChainInv, Has
<1>7. chain[i].target = "REDIRECT"
  BY <1>5, <1>6, RuleFacts DEF Has
<1>8. \A j \in 1..i - 1 : ~Matches(chain[j], pkt)
  BY <1>3, <1>5
<1> QED BY <1>5, <1>7, <1>8 DEF Redirected

-----------------------------------------------------------------------------
(* An empty cache, and nobody asking. *)
LEMMA LeafStarts == LeafInit => LeafInv
BY DEF LeafInit, LeafInv

(* A lookup, a certificate minted or not, and the first one stored: no other is put over it. *)
LEMMA LeafKeeps ==
    ASSUME LeafInv, NEW c \in Conns, NEW host \in Names, Lookup(c, host) \/ LeafStep(c)
    PROVE  LeafInv'
<1>1. CASE Lookup(c, host)
  BY <1>1 DEF LeafInv, Lookup
<1>2. CASE Mint(c) \/ MintFails(c)
  BY <1>2 DEF LeafInv, Mint, MintFails
<1>3. CASE Store(c)
  <2> DEFINE h == lookup[c].host
  <2>1. h \in Names /\ leaf' = [leaf EXCEPT ![h] = IF @ = NoConfig THEN c ELSE @]
    BY <1>3 DEF Store, LeafInv
  <2>2. leaf' \in [Names -> Conns \cup {NoConfig}] /\ leaf'[h] # NoConfig
    BY <2>1, LeafAssumption DEF LeafInv
  <2>3. \A g \in Names : leaf[g] # NoConfig => leaf'[g] = leaf[g]
    BY <2>1 DEF LeafInv
  <2>4. /\ DOMAIN lookup' = Conns /\ DOMAIN lookup'[c] = {"st", "host", "cfg"}
        /\ lookup'[c].st = "served" /\ lookup'[c].host = h /\ lookup'[c].cfg = leaf'[h]
        /\ \A d \in Conns \ {c} : lookup'[d] = lookup[d]
    BY <1>3 DEF Store, LeafInv
  <2> QED BY <2>1, <2>2, <2>3, <2>4 DEF LeafInv
<1> QED BY <1>1, <1>2, <1>3 DEF LeafStep

(* Whoever is served a host is served what the cache holds for it. *)
LEMMA LeafShared == LeafInv => OneLeafPerHost
BY DEF LeafInv, OneLeafPerHost

-----------------------------------------------------------------------------
USE DEF At

(* A step of c in its handler. *)
StepsTo(c, st, host, alpn) ==
    /\ DOMAIN conn' = Conns /\ DOMAIN conn'[c] = {"st", "port", "host", "alpn"}
    /\ conn'[c].st = st /\ conn'[c].host = host /\ conn'[c].alpn = alpn
    /\ \A b \in Conns \ {c} : conn'[b] = conn[b]

(* What is reported of c. *)
Reports(c, events) ==
    DOMAIN trail' = Conns /\ trail'[c] = events /\ \A b \in Conns \ {c} : trail'[b] = trail[b]

(* A connection is as sound as its own handler left it. *)
LEMMA OthersKeep ==
    ASSUME PathInv, NEW c \in Conns, DOMAIN conn' = Conns, DOMAIN trail' = Conns, DOMAIN flow' = Conns,
           \A b \in Conns \ {c} : conn'[b] = conn[b] /\ trail'[b] = trail[b] /\ flow'[b] = flow[b],
           StageOf(c)', FlowOf(c)'
    PROVE  PathInv'
<1>1. ASSUME NEW b \in Conns \ {c} PROVE StageOf(b)' /\ FlowOf(b)'
  <2>1. StageOf(b) /\ FlowOf(b) /\ conn'[b] = conn[b] /\ trail'[b] = trail[b] /\ flow'[b] = flow[b]
    BY DEF PathInv
  <2> QED BY <2>1 DEF StageOf, FlowOf
<1> QED BY <1>1 DEF PathInv

(* Going on changes nothing but the stage. *)
LEMMA GotoStepsTo ==
    ASSUME PathInv, NEW c \in Conns, NEW st, Goto(c, st)
    PROVE  StepsTo(c, st, conn[c].host, conn[c].alpn)
BY DEF PathInv, StageOf, Goto, StepsTo

(* An event is added at the end of one connection's. *)
LEMMA EmitReports ==
    ASSUME PathInv, NEW c \in Conns, NEW kind, Emit(c, kind)
    PROVE  Reports(c, Append(trail[c], kind))
BY DEF PathInv, Emit, Reports

(* What is peeked of a connection names a host the policy knows of. *)
LEMMA IdentifiedHost ==
    ASSUME NEW peek \in Peeks, NEW port
    PROVE  IdentifyHost(peek, port) \in Hosts
BY ConnAssumption DEF Peeks, IdentifyHost, SniOf, HttpHostOf

(* A connection that is over for want of anything left to do is not one that was closed. *)
LEMMA EndKeeps ==
    ASSUME PathInv, NEW c \in Conns, NEW st \in {"lost", "denied", "failed"}, Goto(c, st),
           DOMAIN trail' = Conns, \A b \in Conns \ {c} : trail'[b] = trail[b], flow' = flow
    PROVE  PathInv'
<1>1. StepsTo(c, st, conn[c].host, conn[c].alpn)
  BY GotoStepsTo
<1>2. StageOf(c)'
  BY <1>1 DEF StepsTo, StageOf, EndedAt, AllowedAt
<1>3. FlowOf(c)'
  BY <1>1 DEF PathInv, StepsTo, FlowOf, EndedAt
<1> QED BY <1>1, <1>2, <1>3, OthersKeep DEF StepsTo, PathInv

(* The error paths. *)
LEMMA FailsKeeps ==
    ASSUME PathInv, NEW c \in Conns, Fails(c)
    PROVE  PathInv'
BY EndKeeps, EmitReports DEF Fails, Finish, Reports

(* A stage follows another in which nothing is carried. *)
LEMMA StageKeeps ==
    ASSUME PathInv, NEW c \in Conns, NEW st, NEW host, NEW alpn, StepsTo(c, st, host, alpn),
           DOMAIN trail' = Conns, \A b \in Conns \ {c} : trail'[b] = trail[b], flow' = flow,
           conn[c].st \notin {"head", "parsed", "splice"} \cup EndedAt,
           \/ st = "accepted" /\ trail'[c] = <<>>
           \/ st = "opened" /\ host \in Hosts /\ trail'[c] = <<"opened">>
           \/ /\ st \in AllowedAt \ {"parsed", "splice"} /\ host \in Hosts
              /\ trail'[c] = <<"opened", "allowed">>
              /\ st \in {"h2", "streams"} => alpn = "h2"
    PROVE  PathInv'
<1>1. StageOf(c)'
  BY DEF StepsTo, StageOf, EndedAt, AllowedAt
<1>2. \A d \in Dirs : flow[c][d] = NewFlow
  BY DEF PathInv, FlowOf
<1>3. FlowOf(c)'
  BY <1>2 DEF PathInv, StepsTo, FlowOf, EndedAt, AllowedAt, NewFlow, Dirs, FlowShape
<1> QED BY <1>1, <1>3, OthersKeep DEF StepsTo, PathInv

(* An event after the first one. *)
LEMMA AppendPair ==
    ASSUME NEW a, NEW b
    PROVE  Append(<<a>>, b) = <<a, b>>
<1>1. <<a>> \in Seq({a, b}) /\ <<a, b>> \in Seq({a, b}) /\ Len(<<a>>) = 1 /\ Len(<<a, b>>) = 2
  OBVIOUS
<1>2. Append(<<a>>, b) \in Seq({a, b}) /\ Len(Append(<<a>>, b)) = 2
  BY <1>1, AppendProperties
<1>3. \A i \in 1..2 : Append(<<a>>, b)[i] = <<a, b>>[i]
  OBVIOUS
<1> QED BY <1>1, <1>2, <1>3, SeqEqual

(* The stages up to the upstream, and HTTP/2's: nothing is carried yet. *)
LEMMA StagesKeep ==
    ASSUME PathInv, NEW c \in Conns,
           Identify(c) \/ Judge(c) \/ Handshake(c) \/ Dialled(c) \/ UpstreamTls(c) \/ StartH2(c) \/ Unreadable(c)
    PROVE  PathInv'
<1>0. StageOf(c) /\ DOMAIN conn = Conns /\ DOMAIN trail = Conns
  BY DEF PathInv
<1>1. CASE Identify(c)
  <2>1. PICK host \in {IdentifyHost(peek, OriginalDst(c)) : peek \in Peeks} :
            conn' = [conn EXCEPT ![c].st = "opened", ![c].host = host]
    BY <1>1 DEF Identify
  <2>2. StepsTo(c, "opened", host, conn[c].alpn) /\ host \in Hosts
    BY <1>0, <2>1, IdentifiedHost DEF StageOf, StepsTo
  <2>3. Reports(c, <<"opened">>)
    <3>1. trail[c] = <<>> /\ Emit(c, "opened")
      BY <1>0, <1>1 DEF Identify, StageOf
    <3>2. Append(<<>>, "opened") = <<"opened">>
      OBVIOUS
    <3> QED BY <3>1, <3>2, EmitReports, Zenon
  <2> QED BY <1>1, <2>2, <2>3, StageKeeps DEF Identify, Reports, EndedAt
<1>2. CASE Judge(c)
  <2>1. CASE Finish(c, "denied")
    BY <1>2, <2>1, EndKeeps, EmitReports DEF Judge, Finish, Reports
  <2>2. CASE Goto(c, IF OriginalDst(c) = 443 THEN "config" ELSE "dial") /\ Emit(c, "allowed")
    <3>1. PICK st \in {"config", "dial"} : Goto(c, st)
      BY <2>2
    <3>2. StepsTo(c, st, conn[c].host, conn[c].alpn)
      BY <3>1, GotoStepsTo
    <3>3. Reports(c, <<"opened", "allowed">>)
      <4>1. trail[c] = <<"opened">> /\ Emit(c, "allowed")
        BY <1>0, <1>2, <2>2 DEF Judge, StageOf
      <4>2. Append(<<"opened">>, "allowed") = <<"opened", "allowed">>
        BY AppendPair
      <4> QED BY <4>1, <4>2, EmitReports, Zenon
    <3> QED BY <1>0, <1>2, <3>2, <3>3, StageKeeps DEF Judge, StageOf, Reports, EndedAt, AllowedAt
  <2> QED BY <1>2, <2>1, <2>2 DEF Judge
<1>3. CASE Handshake(c)
  <2>1. PICK alpn : conn' = [conn EXCEPT ![c].st = "dial", ![c].alpn = alpn]
    BY <1>3 DEF Handshake
  <2>2. StepsTo(c, "dial", conn[c].host, alpn)
    BY <1>0, <2>1 DEF StageOf, StepsTo
  <2> QED BY <1>0, <1>3, <2>2, StageKeeps DEF Handshake, StageOf, EndedAt, AllowedAt
<1>4. CASE Dialled(c)
  <2>1. PICK st \in {"upstream", "head"} : Goto(c, st)
    BY <1>4 DEF Dialled
  <2>2. StepsTo(c, st, conn[c].host, conn[c].alpn)
    BY <2>1, GotoStepsTo
  <2> QED BY <1>0, <1>4, <2>2, StageKeeps DEF Dialled, StageOf, EndedAt, AllowedAt
<1>5. CASE UpstreamTls(c)
  <2>1. CASE Goto(c, "h2") /\ conn[c].alpn = "h2"
    <3>1. StepsTo(c, "h2", conn[c].host, conn[c].alpn)
      BY <2>1, GotoStepsTo
    <3> QED BY <1>0, <1>5, <2>1, <3>1, StageKeeps DEF UpstreamTls, StageOf, EndedAt, AllowedAt
  <2>2. CASE conn' = [conn EXCEPT ![c].st = "head", ![c].alpn = "h1"]
    <3>1. StepsTo(c, "head", conn[c].host, "h1")
      BY <1>0, <2>2 DEF StageOf, StepsTo
    <3> QED BY <1>0, <1>5, <3>1, StageKeeps DEF UpstreamTls, StageOf, EndedAt, AllowedAt
  <2> QED BY <1>5, <2>1, <2>2 DEF UpstreamTls
<1>6. CASE StartH2(c)
  <2>1. StepsTo(c, "streams", conn[c].host, conn[c].alpn)
    BY <1>6, GotoStepsTo DEF StartH2
  <2> QED BY <1>0, <1>6, <2>1, StageKeeps DEF StartH2, StageOf, EndedAt, AllowedAt
<1>7. CASE Unreadable(c)
  BY <1>0, <1>7, EndKeeps DEF Unreadable
<1> QED BY <1>1, <1>2, <1>3, <1>4, <1>5, <1>6, <1>7

(* serve_connection returns. *)
LEMMA ServeEndsKeeps ==
    ASSUME PathInv, NEW c \in Conns, ServeEnds(c)
    PROVE  PathInv'
<1>1. PICK st \in {"closed", "failed"} : Finish(c, st)
  BY DEF ServeEnds
<1>2. StepsTo(c, st, conn[c].host, conn[c].alpn)
  BY <1>1, GotoStepsTo DEF Finish
<1>3. Reports(c, Append(trail[c], st))
  BY <1>1, EmitReports DEF Finish
<1>4. StageOf(c)'
  BY <1>2 DEF StepsTo, StageOf, EndedAt, AllowedAt
<1>5. conn[c].alpn = "h2" /\ flow' = flow
  BY DEF ServeEnds, PathInv, StageOf
<1>6. FlowOf(c)'
  BY <1>2, <1>5 DEF PathInv, StepsTo, FlowOf, EndedAt
<1> QED BY <1>2, <1>3, <1>4, <1>5, <1>6, OthersKeep DEF StepsTo, Reports, PathInv

-----------------------------------------------------------------------------
(* One direction of one connection changes. *)
FlowsTo(c, d, f) ==
    /\ DOMAIN flow' = Conns /\ DOMAIN flow'[c] = Dirs
    /\ flow'[c][d] = f /\ flow'[c][Other(d)] = flow[c][Other(d)]
    /\ \A b \in Conns \ {c} : flow'[b] = flow[b]

LEMMA DirsFacts ==
    ASSUME NEW d \in Dirs
    PROVE  Other(d) \in Dirs /\ Other(d) # d /\ Other(Other(d)) = d /\ Dirs = {d, Other(d)}
BY DEF Dirs, Other

(* The other direction stays as it is. *)
LEMMA FlowFlowsTo ==
    ASSUME PathInv, NEW c \in Conns, NEW d \in Dirs, NEW f, Flow(c, d, f)
    PROVE  FlowsTo(c, d, f)
BY DirsFacts DEF PathInv, FlowOf, Flow, FlowsTo

(* A direction changes, and with it what is known of both: enough that each of the two is
   still carried, while nothing of the stage has changed. *)
LEMMA DirectionKeeps ==
    ASSUME PathInv, NEW c \in Conns, NEW d \in Dirs, NEW f, Flow(c, d, f), FlowShape(f),
           UNCHANGED <<conn, trail>>, conn[c].st \in {"head", "parsed", "splice"},
           conn[c].st # "splice" =>
              f.read = flow[c][d].read /\ f.delivered = flow[c][d].delivered /\ ~f.shut,
           At(c, "splice") =>
              /\ Carried(f, flow[c][Other(d)].end)
              /\ f.end = "reset" \/ f.end = flow[c][d].end \/ flow[c][d].end = "open"
              /\ flow[c][d].end # "reset" \/ f.end = "reset"
    PROVE  PathInv'
<1> DEFINE e == Other(d)
<1>1. FlowsTo(c, d, f) /\ e \in Dirs /\ e # d /\ Other(e) = d /\ Dirs = {d, e}
  BY FlowFlowsTo, DirsFacts
<1>2. StageOf(c)' /\ DOMAIN conn' = Conns /\ DOMAIN trail' = Conns
  BY DEF PathInv, StageOf
<1>3. FlowOf(c)
  BY DEF PathInv
<1>4. \A b \in Dirs : FlowShape(flow'[c][b])
  BY <1>1, <1>3 DEF FlowOf, FlowsTo
<1>5. FlowOf(c)'
  <2>1. CASE conn[c].st \in {"head", "parsed"}
    <3>1. flow[c]["in"].read = 0 /\ \A b \in Dirs : flow[c][b].delivered = 0 /\ ~flow[c][b].shut
      BY <1>3, <2>1 DEF FlowOf
    <3>2. flow'[c]["in"].read = 0
      BY <1>1, <2>1, <3>1 DEF FlowsTo, Dirs
    <3>3. \A b \in Dirs : flow'[c][b].delivered = 0 /\ ~flow'[c][b].shut
      BY <1>1, <2>1, <3>1 DEF FlowsTo
    <3>4. DOMAIN flow'[c] = Dirs /\ conn'[c].st = conn[c].st
      BY <1>1 DEF FlowsTo
    <3> QED BY <1>4, <2>1, <3>2, <3>3, <3>4 DEF FlowOf, EndedAt
  <2>2. CASE At(c, "splice")
    <3>1. Carried(flow[c][e], flow[c][d].end)
      BY <1>1, <1>3, <2>2 DEF FlowOf
    <3>2. Carried(flow'[c][e], flow'[c][d].end)
      BY <1>1, <2>2, <3>1 DEF FlowsTo, Carried
    <3>3. Carried(flow'[c][d], flow'[c][e].end)
      BY <1>1, <2>2 DEF FlowsTo
    <3> QED BY <1>1, <1>3, <1>4, <2>2, <3>2, <3>3 DEF FlowOf, FlowsTo, EndedAt
  <2> QED BY <2>1, <2>2
<1> QED BY <1>1, <1>2, <1>5, OthersKeep DEF FlowsTo

(* The peers write and end. *)
LEMMA PeersKeep ==
    ASSUME PathInv, NEW c \in Conns, NEW d \in Dirs, Writes(c, d) \/ PeerEnds(c, d)
    PROVE  PathInv'
<1> DEFINE g == flow[c][d]
<1>0. FlowShape(g) /\ FlowOf(c) /\ Piped(c)
  BY DEF PathInv, FlowOf, Writes, PeerEnds
<1>1. conn[c].st # "splice" => ~g.shut
  BY <1>0 DEF FlowOf, Piped
<1>2. At(c, "splice") => Carried(g, flow[c][Other(d)].end)
  BY <1>0 DEF FlowOf
<1>3. CASE Writes(c, d)
  <2> DEFINE f == [g EXCEPT !.wrote = @ + 1]
  <2>1. Flow(c, d, f) /\ g.end = "open"
    BY <1>3 DEF Writes
  <2>2. /\ DOMAIN f = DOMAIN g /\ f.wrote = g.wrote + 1 /\ f.read = g.read /\ f.delivered = g.delivered
        /\ f.end = g.end /\ f.shut = g.shut
    BY <1>0 DEF FlowShape
  <2> HIDE DEF f
  <2>3. FlowShape(f)
    BY <1>0, <2>2 DEF FlowShape
  <2>4. At(c, "splice") => Carried(f, flow[c][Other(d)].end)
    BY <1>2, <2>1, <2>2 DEF Carried
  <2> QED BY <1>0, <1>1, <1>3, <2>1, <2>2, <2>3, <2>4, DirectionKeeps DEF Writes, Piped
<1>4. CASE PeerEnds(c, d)
  <2>1. PICK end \in {"eof", "reset"} :
            /\ Flow(c, d, [g EXCEPT !.end = end])
            /\ g.end = "open" \/ (g.end = "eof" /\ end = "reset")
    <3>1. CASE g.end = "open"
      BY <1>4, <3>1 DEF PeerEnds
    <3>2. CASE g.end = "eof"
      BY <1>4, <3>2 DEF PeerEnds
    <3>3. g.end # "reset"
      BY <1>4 DEF PeerEnds
    <3> QED BY <1>0, <3>1, <3>2, <3>3 DEF FlowShape
  <2> DEFINE f == [g EXCEPT !.end = end]
  <2>2. /\ DOMAIN f = DOMAIN g /\ f.wrote = g.wrote /\ f.read = g.read /\ f.delivered = g.delivered
        /\ f.end = end /\ f.shut = g.shut /\ Flow(c, d, f)
    BY <1>0, <2>1 DEF FlowShape
  <2> HIDE DEF f
  <2>3. FlowShape(f)
    BY <1>0, <2>2 DEF FlowShape
  <2>4. At(c, "splice") => Carried(f, flow[c][Other(d)].end)
    BY <1>2, <2>1, <2>2 DEF Carried, Unread
  <2> QED BY <1>0, <1>1, <1>4, <2>1, <2>2, <2>3, <2>4, DirectionKeeps DEF PeerEnds, Piped
<1> QED BY <1>3, <1>4

(* A chunk is carried from one peer to the other, or a direction ends. *)
LEMMA SpliceKeeps ==
    ASSUME PathInv, NEW c \in Conns, NEW d \in Dirs, Splice(c, d) \/ SpliceEnds(c, d)
    PROVE  PathInv'
<1> DEFINE g == flow[c][d]
           other == flow[c][Other(d)].end
<1>0. FlowShape(g) /\ FlowOf(c) /\ At(c, "splice") /\ ~g.shut /\ UNCHANGED <<conn, trail>>
  BY DEF PathInv, FlowOf, Splice, SpliceEnds
<1>1. Carried(g, other)
  BY <1>0 DEF FlowOf
<1>2. CASE Splice(c, d) /\ other = "reset"
  <2>1. PICK fails \in BOOLEAN : Flow(c, d, [[g EXCEPT !.read = @ + 1] EXCEPT !.shut = fails])
    BY <1>2 DEF Splice
  <2> DEFINE f == [[g EXCEPT !.read = @ + 1] EXCEPT !.shut = fails]
  <2>2. /\ DOMAIN f = DOMAIN g /\ f.wrote = g.wrote /\ f.read = g.read + 1 /\ f.delivered = g.delivered
        /\ f.end = g.end /\ Flow(c, d, f)
    BY <1>0, <2>1 DEF FlowShape
  <2> HIDE DEF f
  <2>3. FlowShape(f)
    <3>1. g.read < g.wrote
      BY <1>2 DEF Splice, Unread
    <3> HIDE DEF g
    <3> QED BY <1>0, <2>2, <3>1 DEF FlowShape
  <2>4. Carried(f, other)
    BY <1>2 DEF Carried
  <2> QED BY <1>0, <2>2, <2>3, <2>4, DirectionKeeps
<1>3. CASE Splice(c, d) /\ other # "reset"
  <2> DEFINE f == [[g EXCEPT !.read = @ + 1] EXCEPT !.delivered = @ + 1]
  <2>1. Flow(c, d, f)
    BY <1>3 DEF Splice
  <2>2. /\ DOMAIN f = DOMAIN g /\ f.wrote = g.wrote /\ f.read = g.read + 1 /\ f.delivered = g.delivered + 1
        /\ f.end = g.end /\ f.shut = g.shut
    BY <1>0 DEF FlowShape
  <2> HIDE DEF f
  <2>3. FlowShape(f)
    BY <1>0, <1>3, <2>2 DEF FlowShape, Splice, Unread
  <2>4. Carried(f, other)
    BY <1>0, <1>1, <1>3, <2>2 DEF Carried
  <2> QED BY <1>0, <2>1, <2>2, <2>3, <2>4, DirectionKeeps
<1>4. CASE SpliceEnds(c, d)
  <2> DEFINE f == [g EXCEPT !.shut = TRUE]
  <2>1. /\ DOMAIN f = DOMAIN g /\ f.wrote = g.wrote /\ f.read = g.read /\ f.delivered = g.delivered
        /\ f.end = g.end /\ Flow(c, d, f)
    BY <1>0, <1>4 DEF FlowShape, SpliceEnds
  <2>2. g.end # "open" /\ ~Unread(g)
    BY <1>4 DEF SpliceEnds
  <2> HIDE DEF f
  <2>3. FlowShape(f)
    BY <1>0, <2>1 DEF FlowShape
  <2>4. Carried(f, other)
    BY <1>1, <2>1, <2>2 DEF Carried, Unread
  <2> QED BY <1>0, <2>1, <2>3, <2>4, DirectionKeeps
<1> QED BY <1>2, <1>3, <1>4

(* The head is read: nothing of it is delivered yet. *)
LEMMA ReadHeadKeeps ==
    ASSUME PathInv, NEW c \in Conns, ReadHead(c) \/ ReadHeadEof(c)
    PROVE  PathInv'
<1> DEFINE g == flow[c]["out"]
           f == [g EXCEPT !.read = @ + 1]
<1>0. FlowShape(g) /\ FlowOf(c) /\ StageOf(c) /\ At(c, "head") /\ trail' = trail
  BY DEF PathInv, FlowOf, Dirs, ReadHead, ReadHeadEof
<1>1. PICK st \in {"head", "parsed"} : StepsTo(c, st, conn[c].host, conn[c].alpn)
  BY GotoStepsTo DEF ReadHead, ReadHeadEof, ParseLeadsTo
<1>2. StageOf(c)'
  BY <1>0, <1>1 DEF StepsTo, StageOf, AllowedAt
<1>3. DOMAIN flow' = Conns /\ FlowOf(c)' /\ \A b \in Conns \ {c} : flow'[b] = flow[b]
  <2>1. CASE ReadHeadEof(c)
    BY <1>0, <1>1, <2>1 DEF ReadHeadEof, PathInv, StepsTo, FlowOf, EndedAt
  <2>2. CASE ReadHead(c)
    <3>1. FlowsTo(c, "out", f) /\ Other("out") = "in" /\ Dirs = {"out", "in"}
      BY <2>2, FlowFlowsTo DEF ReadHead, Dirs, Other
    <3>2. /\ DOMAIN f = DOMAIN g /\ f.wrote = g.wrote /\ f.read = g.read + 1 /\ f.delivered = g.delivered
          /\ f.end = g.end /\ f.shut = g.shut
      BY <1>0 DEF FlowShape
    <3>3. g.read < g.wrote
      BY <2>2 DEF ReadHead, Unread
    <3> HIDE DEF f, g
    <3>4. FlowShape(f)
      BY <1>0, <3>2, <3>3 DEF FlowShape
    <3>5. flow'[c]["in"] = flow[c]["in"] /\ flow'[c]["out"] = f /\ DOMAIN flow'[c] = Dirs
      BY <3>1 DEF FlowsTo
    <3>6. f.delivered = 0 /\ ~f.shut
      BY <1>0, <3>1, <3>2 DEF FlowOf, g
    <3>7. FlowOf(c)'
      BY <1>0, <1>1, <3>1, <3>4, <3>5, <3>6 DEF FlowOf, StepsTo, EndedAt
    <3> QED BY <3>1, <3>7 DEF FlowsTo
  <2> QED BY <2>1, <2>2
<1> QED BY <1>0, <1>1, <1>2, <1>3, OthersKeep DEF StepsTo, PathInv

(* The head is forwarded, all of what was read of it. *)
LEMMA ForwardHeadKeeps ==
    ASSUME PathInv, NEW c \in Conns, ForwardHead(c)
    PROVE  PathInv'
<1> DEFINE g == flow[c]["out"]
           f == [g EXCEPT !.delivered = IF flow[c]["in"].end = "reset" THEN @ ELSE g.read]
<1>0. FlowShape(g) /\ FlowOf(c) /\ StageOf(c) /\ At(c, "parsed") /\ trail' = trail
  BY DEF PathInv, FlowOf, Dirs, ForwardHead
<1>1. StepsTo(c, "splice", conn[c].host, conn[c].alpn)
  BY GotoStepsTo DEF ForwardHead
<1>2. StageOf(c)'
  BY <1>0, <1>1 DEF StepsTo, StageOf, AllowedAt
<1>3. FlowsTo(c, "out", f) /\ Other("out") = "in" /\ Other("in") = "out" /\ Dirs = {"out", "in"}
  BY FlowFlowsTo DEF ForwardHead, Dirs, Other
<1>4. /\ DOMAIN f = DOMAIN g /\ f.wrote = g.wrote /\ f.read = g.read /\ f.end = g.end /\ f.shut = g.shut
      /\ f.delivered = IF flow[c]["in"].end = "reset" THEN g.delivered ELSE g.read
  BY <1>0 DEF FlowShape
<1>5. /\ flow[c]["in"].read = 0 /\ flow[c]["in"].delivered = 0 /\ ~flow[c]["in"].shut
      /\ ~g.shut /\ FlowShape(flow[c]["in"])
  BY <1>0, <1>3 DEF FlowOf
<1> HIDE DEF f, g
<1>6. FlowShape(f)
  BY <1>0, <1>4 DEF FlowShape
<1>7. flow'[c]["in"] = flow[c]["in"] /\ flow'[c]["out"] = f /\ DOMAIN flow'[c] = Dirs
  BY <1>3 DEF FlowsTo
<1>8. Carried(f, flow[c]["in"].end) /\ Carried(flow[c]["in"], f.end)
  BY <1>4, <1>5 DEF Carried
<1>9. FlowOf(c)'
  BY <1>1, <1>3, <1>5, <1>6, <1>7, <1>8 DEF FlowOf, StepsTo, EndedAt
<1> QED BY <1>0, <1>1, <1>2, <1>3, <1>9, OthersKeep DEF StepsTo, FlowsTo, PathInv

(* Both directions have ended: each carried everything, if neither peer is gone. *)
LEMMA SpliceJoinedKeeps ==
    ASSUME PathInv, NEW c \in Conns, SpliceJoined(c)
    PROVE  PathInv'
<1>0. FlowOf(c) /\ At(c, "splice") /\ flow' = flow /\ \A d \in Dirs : flow[c][d].shut
  BY DEF PathInv, SpliceJoined
<1>1. StepsTo(c, "closed", conn[c].host, conn[c].alpn)
  BY GotoStepsTo DEF SpliceJoined, Finish
<1>2. Reports(c, Append(trail[c], "closed"))
  BY EmitReports DEF SpliceJoined, Finish
<1>3. StageOf(c)'
  BY <1>1 DEF StepsTo, StageOf, EndedAt, AllowedAt
<1>4. ASSUME \A d \in Dirs : flow[c][d].end # "reset", NEW d \in Dirs
      PROVE  flow[c][d].end = "eof" /\ flow[c][d].delivered = flow[c][d].wrote
  <2>1. FlowShape(flow[c][d]) /\ Carried(flow[c][d], flow[c][Other(d)].end) /\ Other(d) \in Dirs
    BY <1>0, DirsFacts DEF FlowOf
  <2> QED BY <1>0, <1>4, <2>1 DEF FlowShape, Carried, Unread
<1>5. FlowOf(c)'
  BY <1>0, <1>1, <1>4 DEF StepsTo, FlowOf, EndedAt
<1> QED BY <1>0, <1>1, <1>2, <1>3, <1>5, OthersKeep DEF StepsTo, Reports, PathInv

-----------------------------------------------------------------------------
(* The workspace opens a connection: it is the proxy's. *)
LEMMA DialKeeps ==
    ASSUME EgressInv, NEW c \in Conns, NEW port \in {80, 443}, Dial(c, port)
    PROVE  EgressInv' /\ UNCHANGED <<trail, outside>>
<1>1. /\ conn' = [conn EXCEPT ![c].st = "accepted", ![c].port = port]
      /\ UNCHANGED <<chain, setup, flow, trail, leaf, lookup, outside>>
  <2>1. ChainInv /\ Installed
    BY DEF EgressInv, Dial
  <2>2. PICK pkt \in Packets :
            /\ pkt.out # "lo" /\ pkt.uid # SidecarUid /\ pkt.dport \in {80, 443}
            /\ IF Redirected(pkt)
               THEN conn' = [conn EXCEPT ![c].st = "accepted", ![c].port = port] /\ UNCHANGED outside
               ELSE TRUE
    <3>1. PICK user \in WorkspaceUids :
              IF Redirected([out |-> "eth0", uid |-> user, dport |-> port])
              THEN conn' = [conn EXCEPT ![c].st = "accepted", ![c].port = port] /\ UNCHANGED outside
              ELSE TRUE
      BY DEF Dial
    <3> DEFINE pkt == [out |-> "eth0", uid |-> user, dport |-> port]
    <3>2. pkt \in Packets /\ pkt.out # "lo" /\ pkt.uid # SidecarUid /\ pkt.dport \in {80, 443}
      BY NetfilterAssumption DEF Packets, Uids, Ports
    <3> HIDE DEF pkt
    <3>3. IF Redirected(pkt)
          THEN conn' = [conn EXCEPT ![c].st = "accepted", ![c].port = port] /\ UNCHANGED outside
          ELSE TRUE
      BY <3>1 DEF pkt
    <3> QED BY <3>2, <3>3
  <2>3. Redirected(pkt)
    BY <2>1, <2>2, ChainCaptures
  <2> QED BY <2>2, <2>3 DEF Dial, netfilterVars, leafVars
<1>2. StepsTo(c, "accepted", conn[c].host, conn[c].alpn)
  BY <1>1 DEF EgressInv, PathInv, StageOf, StepsTo
<1>3. At(c, "none") /\ StageOf(c) /\ DOMAIN trail = Conns
  BY DEF Dial, EgressInv, PathInv
<1>4. PathInv'
  BY <1>1, <1>2, <1>3, StageKeeps DEF EgressInv, StageOf, EndedAt
<1>5. ChainInv' /\ LeafInv'
  BY <1>1 DEF EgressInv, ChainInv, LeafInv, Has
<1> QED BY <1>1, <1>4, <1>5 DEF EgressInv

(* The sidecar is killed: its connections are lost, the audit stays. *)
LEMMA KilledKeeps ==
    ASSUME EgressInv, Killed
    PROVE  EgressInv' /\ UNCHANGED <<trail, outside>>
<1>1. ChainInv' /\ LeafInv' /\ UNCHANGED <<trail, outside>>
  <2>1. UNCHANGED <<chain, setup, trail, outside>>
    BY DEF Killed, netfilterVars
  <2>2. ChainInv'
    BY <2>1 DEF EgressInv, ChainInv, Has
  <2>3. LeafInv'
    BY DEF Killed, LeafInv
  <2> QED BY <2>1, <2>2, <2>3
<1>2. DOMAIN conn' = Conns /\ DOMAIN trail' = Conns /\ DOMAIN flow' = Conns
  BY DEF EgressInv, PathInv, Killed
<1>3. ASSUME NEW c \in Conns PROVE StageOf(c)' /\ FlowOf(c)'
  <2>0. StageOf(c) /\ FlowOf(c)
    BY DEF EgressInv, PathInv
  <2>1. CASE At(c, "none") \/ Ended(c)
    <3>1. conn'[c] = conn[c] /\ flow'[c] = flow[c] /\ trail' = trail
      BY <2>1 DEF Killed
    <3> QED BY <2>0, <3>1 DEF StageOf, FlowOf
  <2>2. CASE ~(At(c, "none") \/ Ended(c))
    <3>1. conn'[c] = [conn[c] EXCEPT !.st = "lost"] /\ flow'[c] = [d \in Dirs |-> NewFlow]
      BY <2>2 DEF Killed
    <3>2. conn'[c].st = "lost" /\ DOMAIN conn'[c] = {"st", "port", "host", "alpn"}
      BY <2>0, <3>1 DEF StageOf
    <3>3. StageOf(c)'
      BY <3>2 DEF StageOf, EndedAt, AllowedAt
    <3>4. FlowShape(NewFlow)
      BY DEF FlowShape, NewFlow
    <3>5. FlowOf(c)'
      BY <3>1, <3>2, <3>4 DEF FlowOf, EndedAt
    <3> QED BY <3>3, <3>5
  <2> QED BY <2>1, <2>2
<1>4. PathInv'
  BY <1>2, <1>3 DEF PathInv
<1> QED BY <1>1, <1>4 DEF EgressInv

(* The steps about a certificate or a stream leave the handler where it is. *)
LEMMA AsideKeeps ==
    ASSUME EgressInv, NEW c \in Conns,
           \/ Configure(c) \/ DriverEnds(c)
           \/ \E s \in Streams : OpenStream(c, s) \/ AnswerStream(c, s) \/ ResetStream(c, s)
                                 \/ SendStream(c, s) \/ SendFails(c, s)
    PROVE  PathInv' /\ LeafInv' /\ UNCHANGED <<trail, outside>>
<1>1. UNCHANGED <<conn, flow, trail, outside>>
  BY DEF Configure, DriverEnds, OpenStream, AnswerStream, ResetStream, SendStream, SendFails, StreamOver
<1>2. PathInv'
  BY <1>1 DEF EgressInv, PathInv, StageOf, FlowOf
<1>3. CASE Configure(c)
  <2>1. conn[c].host \in Names
    BY <1>3, ConnAssumption DEF Configure, EgressInv, PathInv, StageOf, AllowedAt
  <2>2. LeafInv'
    BY <1>3, <2>1, LeafKeeps DEF Configure, EgressInv
  <2> QED BY <1>1, <1>2, <2>2
<1>4. CASE ~Configure(c)
  <2>1. UNCHANGED <<leaf, lookup>>
    BY <1>4 DEF DriverEnds, OpenStream, AnswerStream, ResetStream, SendStream, SendFails, StreamOver, leafVars
  <2>2. LeafInv'
    BY <2>1 DEF EgressInv, LeafInv
  <2> QED BY <1>1, <1>2, <2>2
<1> QED BY <1>3, <1>4

(* The handler's failures: the request was allowed, and is over. *)
FailSteps(c) ==
    \/ ConfigureFails(c) \/ HandshakeFails(c) \/ DialFails(c) \/ UpstreamTlsFails(c)
    \/ ReadHeadFails(c) \/ ForwardHeadFails(c) \/ StartH2Fails(c)

(* The steps of the peers and of the handler, sorted by what they change. *)
LEMMA ConnSteps ==
    ASSUME NEW c \in Conns, Peers(c) \/ Handler(c)
    PROVE  \/ FailSteps(c)
           \/ Configure(c) \/ DriverEnds(c)
           \/ \E s \in Streams : OpenStream(c, s) \/ AnswerStream(c, s) \/ ResetStream(c, s)
                                 \/ SendStream(c, s) \/ SendFails(c, s)
           \/ Identify(c) \/ Judge(c) \/ Handshake(c) \/ Dialled(c) \/ UpstreamTls(c) \/ StartH2(c) \/ Unreadable(c)
           \/ ServeEnds(c) \/ ReadHead(c) \/ ReadHeadEof(c) \/ ForwardHead(c) \/ SpliceJoined(c)
           \/ \E d \in Dirs : Writes(c, d) \/ PeerEnds(c, d) \/ Splice(c, d) \/ SpliceEnds(c, d)
BY DEF Peers, Handler, FailSteps

(* The other steps leave the certificates alone. *)
LEMMA ConnKeeps ==
    ASSUME EgressInv, NEW c \in Conns, Peers(c) \/ Handler(c)
    PROVE  PathInv' /\ LeafInv'
<1>0. PathInv /\ LeafInv
  BY DEF EgressInv
<1>1. CASE FailSteps(c)
  <2>1. Fails(c)
    BY <1>1 DEF FailSteps, ConfigureFails, HandshakeFails, DialFails, UpstreamTlsFails, ReadHeadFails,
                ForwardHeadFails, StartH2Fails
  <2> QED BY <1>0, <2>1, FailsKeeps DEF Fails, LeafInv, leafVars
<1>2. CASE \/ Configure(c) \/ DriverEnds(c)
           \/ \E s \in Streams : OpenStream(c, s) \/ AnswerStream(c, s) \/ ResetStream(c, s)
                                 \/ SendStream(c, s) \/ SendFails(c, s)
  BY <1>2, AsideKeeps
<1>3. CASE Identify(c) \/ Judge(c) \/ Handshake(c) \/ Dialled(c) \/ UpstreamTls(c) \/ StartH2(c) \/ Unreadable(c)
  <2>1. UNCHANGED <<leaf, lookup>>
    BY <1>3 DEF Identify, Judge, Handshake, Dialled, UpstreamTls, StartH2, Unreadable, leafVars
  <2> QED BY <1>0, <1>3, <2>1, StagesKeep DEF LeafInv
<1>4. CASE ServeEnds(c) \/ ReadHead(c) \/ ReadHeadEof(c) \/ ForwardHead(c) \/ SpliceJoined(c)
  <2>1. UNCHANGED <<leaf, lookup>>
    BY <1>4 DEF ServeEnds, ReadHead, ReadHeadEof, ForwardHead, SpliceJoined, leafVars
  <2> QED BY <1>0, <1>4, <2>1, ServeEndsKeeps, ReadHeadKeeps, ForwardHeadKeeps, SpliceJoinedKeeps DEF LeafInv
<1>5. ASSUME NEW d \in Dirs, Writes(c, d) \/ PeerEnds(c, d) \/ Splice(c, d) \/ SpliceEnds(c, d)
      PROVE  PathInv' /\ LeafInv'
  <2>1. UNCHANGED <<leaf, lookup>>
    BY <1>5 DEF Writes, PeerEnds, Splice, SpliceEnds, leafVars
  <2> QED BY <1>0, <1>5, <2>1, PeersKeep, SpliceKeeps DEF LeafInv
<1> QED BY <1>1, <1>2, <1>3, <1>4, <1>5, ConnSteps

-----------------------------------------------------------------------------
(* What the init container, the sidecar and all connections keep between them, whatever is
   interrupted: netfilter.rs, tls.rs, conn.rs and h2.rs in one pod. *)
THEOREM EgressInvariant == Spec => []EgressInv
<1>1. Init => EgressInv
  <2> SUFFICES ASSUME Init PROVE EgressInv
    OBVIOUS
  <2>1. ChainInv /\ LeafInv
    BY ChainInit, LeafStarts DEF Init, ConnInit
  <2>2. \A c \in Conns : StageOf(c)
    BY DEF Init, ConnInit, StageOf, EndedAt, AllowedAt
  <2>3. FlowShape(NewFlow)
    BY DEF FlowShape, NewFlow
  <2>4. \A c \in Conns : FlowOf(c)
    BY <2>3 DEF Init, ConnInit, FlowOf, EndedAt
  <2>5. DOMAIN conn = Conns /\ DOMAIN trail = Conns /\ DOMAIN flow = Conns
    BY DEF Init, ConnInit
  <2> QED BY <2>1, <2>2, <2>4, <2>5 DEF EgressInv, PathInv
<1>2. EgressInv /\ [Next]_vars => EgressInv'
  <2> SUFFICES ASSUME EgressInv, [Next]_vars PROVE EgressInv'
    OBVIOUS
  <2>1. ASSUME UNCHANGED <<conn, flow, trail, leaf, lookup>> PROVE PathInv' /\ LeafInv'
    BY <2>1 DEF EgressInv, PathInv, StageOf, FlowOf, LeafInv
  <2>2. ASSUME UNCHANGED <<chain, setup>> PROVE ChainInv'
    BY <2>2 DEF EgressInv, ChainInv, Has
  <2>3. CASE SetUp
    BY <2>1, <2>3, SetUpKeeps DEF SetUp, EgressInv, connVars, leafVars
  <2>4. CASE Start \/ StartFails \/ UNCHANGED vars
    BY <2>1, <2>2, <2>4 DEF Start, StartFails, vars, EgressInv, netfilterVars, connVars, leafVars
  <2>5. CASE Killed
    BY <2>5, KilledKeeps
  <2>6. ASSUME NEW c \in Conns, NEW port \in {80, 443}, Dial(c, port) PROVE EgressInv'
    BY <2>6, DialKeeps
  <2>7. ASSUME NEW c \in Conns, Peers(c) \/ Handler(c), UNCHANGED <<netfilterVars, sidecar>> PROVE EgressInv'
    BY <2>2, <2>7, ConnKeeps DEF EgressInv, netfilterVars
  <2> QED BY <2>3, <2>4, <2>5, <2>6, <2>7 DEF Next
<1> QED BY <1>1, <1>2, PTL DEF Spec

(* The sidecar never talks to itself: after any number of installations broken off at any
   rule, no redirect of the chain is reached by its own connections or by the pod's
   (build_rules and run of netfilter.rs). *)
THEOREM SidecarNeverLoops == Spec => []NoLoop
BY EgressInvariant, ChainNoLoop, PTL DEF EgressInv

(* However many connections mint a certificate for a host at once, all are served the same
   one (server_config_for of tls.rs). *)
THEOREM LeafIsShared == Spec => []OneLeafPerHost
BY EgressInvariant, LeafShared, PTL DEF EgressInv

(* A request that is reported closed, with both peers there to the end, was carried whole in
   both directions, whatever the order of reads, ends and shutdowns (https_h1, http_forward
   and splice_pairs of conn.rs). *)
THEOREM CarriedWhole == Spec => []NothingDropped
<1>1. EgressInv => NothingDropped
  BY DEF EgressInv, PathInv, FlowOf, NothingDropped
<1> QED BY <1>1, EgressInvariant, PTL

(* The handler's steps, as the audit of its connection sees them. *)
LEMMA ConnSeen ==
    ASSUME EgressInv, NEW c \in Conns, Peers(c) \/ Handler(c)
    PROVE  Life!Next \/ UNCHANGED <<trail, outside>>
<1>0. StageOf(c)
  BY DEF EgressInv, PathInv
<1>1. CASE FailSteps(c)
  <2>1. Emit(c, "failed") /\ outside' = outside /\ conn[c].st \in AllowedAt
    BY <1>1 DEF FailSteps, ConfigureFails, HandshakeFails, DialFails, UpstreamTlsFails, ReadHeadFails,
                ForwardHeadFails, StartH2Fails, Fails, Finish, AllowedAt
  <2>2. Life!End(c)
    BY <1>0, <2>1 DEF StageOf, Life!End, Life!Emits, Emit
  <2> QED BY <2>2 DEF Life!Next
<1>2. CASE \/ Configure(c) \/ DriverEnds(c)
           \/ \E s \in Streams : OpenStream(c, s) \/ AnswerStream(c, s) \/ ResetStream(c, s)
                                 \/ SendStream(c, s) \/ SendFails(c, s)
  BY <1>2, AsideKeeps
<1>3. CASE Identify(c)
  <2>1. Life!Open(c)
    BY <1>0, <1>3 DEF Identify, StageOf, Life!Open, Life!Emits, Emit
  <2> QED BY <2>1 DEF Life!Next
<1>4. CASE Judge(c)
  <2>1. Life!Judge(c)
    BY <1>0, <1>4 DEF Judge, Finish, StageOf, Life!Judge, Life!Emits, Emit
  <2> QED BY <2>1 DEF Life!Next
<1>5. CASE Dialled(c)
  <2>1. Life!Contact(c)
    BY <1>0, <1>5 DEF Dialled, StageOf, AllowedAt, Life!Contact
  <2> QED BY <2>1 DEF Life!Next
<1>6. CASE ServeEnds(c) \/ SpliceJoined(c)
  <2>1. (Emit(c, "closed") \/ Emit(c, "failed")) /\ outside' = outside /\ conn[c].st \in AllowedAt
    BY <1>6 DEF ServeEnds, SpliceJoined, Finish, AllowedAt
  <2>2. Life!End(c)
    BY <1>0, <2>1 DEF StageOf, Life!End, Life!Emits, Emit
  <2> QED BY <2>2 DEF Life!Next
<1>7. CASE Handshake(c) \/ UpstreamTls(c) \/ StartH2(c) \/ Unreadable(c) \/ ReadHead(c) \/ ReadHeadEof(c) \/ ForwardHead(c)
  BY <1>7 DEF Handshake, UpstreamTls, StartH2, Unreadable, ReadHead, ReadHeadEof, ForwardHead
<1>8. ASSUME NEW d \in Dirs, Writes(c, d) \/ PeerEnds(c, d) \/ Splice(c, d) \/ SpliceEnds(c, d)
      PROVE  UNCHANGED <<trail, outside>>
  BY <1>8 DEF Writes, PeerEnds, Splice, SpliceEnds
<1> QED BY <1>1, <1>2, <1>3, <1>4, <1>5, <1>6, <1>7, <1>8, ConnSteps

(* Every connection the workspace opens to the web is opened, judged and ended in the audit in
   that order and contacts its destination only after it was allowed: none gets round the
   proxy, whatever is interrupted, killed or started again (handle of conn.rs, build_rules of
   netfilter.rs). *)
THEOREM EgressImplementsRequestLife == Spec => ImplementsRequestLife
<1>1. Init => Life!Init
  BY DEF Init, ConnInit, Life!Init
<1>2. EgressInv /\ [Next]_vars => [Life!Next]_Life!lifeVars
  <2> SUFFICES ASSUME EgressInv, [Next]_vars
               PROVE  Life!Next \/ UNCHANGED <<trail, outside>>
    BY DEF Life!lifeVars
  <2>1. CASE SetUp \/ Start \/ StartFails \/ UNCHANGED vars
    BY <2>1 DEF SetUp, Start, StartFails, vars, connVars
  <2>2. CASE Killed
    BY <2>2, KilledKeeps
  <2>3. ASSUME NEW c \in Conns, NEW port \in {80, 443}, Dial(c, port) PROVE UNCHANGED <<trail, outside>>
    BY <2>3, DialKeeps
  <2>4. ASSUME NEW c \in Conns, Peers(c) \/ Handler(c) PROVE Life!Next \/ UNCHANGED <<trail, outside>>
    BY <2>4, ConnSeen
  <2> QED BY <2>1, <2>2, <2>3, <2>4 DEF Next
<1> QED BY <1>1, <1>2, EgressInvariant, PTL DEF Spec, ImplementsRequestLife, Life!Spec
=============================================================================
