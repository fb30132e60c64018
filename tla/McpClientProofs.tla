-------------------------- MODULE McpClientProofs ---------------------------
(***************************************************************************)
(* What holds of an MCP client for any number of callers, whatever the     *)
(* server sends and whenever its transport ends.                           *)
(***************************************************************************)
EXTENDS McpClient, SequenceTheorems, FiniteSetTheorems, TLAPS

-----------------------------------------------------------------------------
Kinds == Callers \cup {"init", "tools_list"}

Messages == [type : {"call", "response", "timeout", "down", "exit", "stop"}, id : Nat,
             for : Kinds \cup {Nil}, ok : BOOLEAN]

(* The ids that are pending were given out; only a call has a timer, and it is pending. *)
ClientOK ==
    /\ DOMAIN client = {"status", "next_id", "pending", "timers"}
    /\ client.next_id \in Nat \ {0}
    /\ DOMAIN client.pending \subseteq 1..client.next_id - 1
    /\ \A id \in DOMAIN client.pending : client.pending[id] \in Kinds
    /\ armed \subseteq DOMAIN client.pending
    /\ \A id \in armed : client.pending[id] \in Callers

(* No call is in the mailbox twice. *)
CallsOnce(s) == \A i, j \in DOMAIN s : s[i].type = "call" /\ s[i] = s[j] => i = j

(* Whoever has called: it waits, has its answer or has given up. *)
Called == {c \in Callers : caller[c].st # "idle"}

(* A call in the mailbox is that of a caller who is not pending, a timeout is of
   an id that was given out and whose timer is over, *)
InMail(m) ==
    /\ m.type = "call" => /\ m.for \in Callers /\ m = CallMsg(m.for) /\ m.for \in Called
                          /\ \A id \in DOMAIN client.pending : client.pending[id] # m.for
    /\ m.type = "timeout" => m = Timeout(m.id) /\ m.id < client.next_id /\ m.id \notin armed

(* and an answer, on its way or there, is of an id that was given out, to whoever is pending
   under it. *)
AnswerOf(m) ==
    /\ m.id \in 1..client.next_id - 1 /\ m.for \in Kinds
    /\ m.id \in DOMAIN client.pending => client.pending[m.id] = m.for

MailOK ==
    /\ mail \in Seq(Messages) /\ CallsOnce(mail)
    /\ \A m \in Range(mail) : InMail(m) /\ (m.type = "response" => AnswerOf(m))
    /\ \A w \in wire : AnswerOf(w)

CallersOK ==
    /\ caller \in [Callers -> [st : {"idle", "waiting", "ok", "error", "exited"}, got : Callers \cup {Nil}]]
    /\ \A c \in Callers : caller[c].got \in {Nil, c}

(* Who waits has its call in the mailbox or is pending; who is pending has called, and its
   timeout will come; nobody is pending twice. *)
Tracked ==
    /\ \A c \in Waiting : /\ Alive
                          /\ \/ CallMsg(c) \in Range(mail)
                             \/ \E id \in DOMAIN client.pending : client.pending[id] = c
    /\ \A id \in DOMAIN client.pending : client.pending[id] \in Callers =>
          /\ client.pending[id] \in Called
          /\ id \in armed \/ Timeout(id) \in Range(mail)
    /\ \A i, j \in DOMAIN client.pending :
          client.pending[i] = client.pending[j] /\ client.pending[i] \in Callers => i = j

McpInv == ClientOK /\ MailOK /\ CallersOK /\ Tracked

-----------------------------------------------------------------------------
(* A message is taken from the mailbox, *)
LEMMA MailTail ==
    ASSUME NEW s \in Seq(Messages), s # <<>>, CallsOnce(s)
    PROVE  /\ Head(s) \in Messages /\ Tail(s) \in Seq(Messages) /\ CallsOnce(Tail(s))
           /\ Range(s) = Range(Tail(s)) \cup {Head(s)}
           /\ Head(s).type = "call" => Head(s) \notin Range(Tail(s))
<1> DEFINE t == Tail(s)
           n == Len(s)
<1>1. /\ n \in Nat \ {0} /\ DOMAIN s = 1..n /\ t \in Seq(Messages) /\ DOMAIN t = 1..n - 1
      /\ Head(s) = s[1] /\ Head(s) \in Messages /\ \A i \in 1..n - 1 : t[i] = s[i + 1]
  BY HeadTailProperties, LenProperties
<1> HIDE DEF t, n
<1>2. CallsOnce(t)
  <2> SUFFICES ASSUME NEW i \in DOMAIN t, NEW j \in DOMAIN t, t[i].type = "call", t[i] = t[j] PROVE i = j
    BY DEF CallsOnce
  <2>1. i + 1 \in DOMAIN s /\ j + 1 \in DOMAIN s /\ s[i + 1] = s[j + 1] /\ s[i + 1].type = "call"
    BY <1>1
  <2> QED BY <1>1, <2>1 DEF CallsOnce
<1>3. Range(s) = Range(t) \cup {Head(s)}
  <2>1. ASSUME NEW i \in DOMAIN s PROVE s[i] \in Range(t) \cup {Head(s)}
    <3>1. i = 1 \/ (i - 1 \in DOMAIN t /\ t[i - 1] = s[i])
      BY <1>1
    <3> QED BY <1>1, <3>1 DEF Range
  <2>2. ASSUME NEW i \in DOMAIN t PROVE t[i] \in Range(s)
    BY <1>1 DEF Range
  <2>3. Head(s) \in Range(s)
    BY <1>1 DEF Range
  <2> QED BY <2>1, <2>2, <2>3 DEF Range
<1>4. Head(s).type = "call" => Head(s) \notin Range(t)
  <2> SUFFICES ASSUME Head(s).type = "call", NEW i \in DOMAIN t, t[i] = Head(s) PROVE FALSE
    BY DEF Range
  <2>1. i + 1 \in DOMAIN s /\ 1 \in DOMAIN s /\ s[1] = s[i + 1] /\ s[1].type = "call"
    BY <1>1
  <2> QED BY <1>1, <2>1 DEF CallsOnce
<1> QED BY <1>1, <1>2, <1>3, <1>4 DEF t

(* or put into it. *)
LEMMA MailAppend ==
    ASSUME NEW s \in Seq(Messages), CallsOnce(s), NEW m \in Messages, m.type = "call" => m \notin Range(s)
    PROVE  /\ Append(s, m) \in Seq(Messages) /\ CallsOnce(Append(s, m))
           /\ Range(Append(s, m)) = Range(s) \cup {m}
<1> DEFINE t == Append(s, m)
           n == Len(s)
<1>1. /\ n \in Nat /\ DOMAIN s = 1..n /\ t \in Seq(Messages) /\ DOMAIN t = 1..n + 1
      /\ t[n + 1] = m /\ \A i \in 1..n : t[i] = s[i]
  BY AppendProperties, LenProperties
<1> HIDE DEF t, n
<1>2. \A i \in 1..n : s[i] \in Range(s)
  BY <1>1 DEF Range
<1>3. CallsOnce(t)
  <2> SUFFICES ASSUME NEW i \in DOMAIN t, NEW j \in DOMAIN t, t[i].type = "call", t[i] = t[j] PROVE i = j
    BY DEF CallsOnce
  <2>1. CASE i \in 1..n /\ j \in 1..n
    BY <1>1, <2>1 DEF CallsOnce
  <2>2. CASE ~(i \in 1..n /\ j \in 1..n)
    BY <1>1, <1>2, <2>2
  <2> QED BY <2>1, <2>2
<1>4. Range(t) = Range(s) \cup {m}
  BY <1>1 DEF Range
<1> QED BY <1>1, <1>3, <1>4 DEF t

LEMMA McpStarts == Init => McpInv
<1> SUFFICES ASSUME Init PROVE McpInv
  OBVIOUS
<1>1. ClientOK /\ CallersOK
  BY DEF Init, ClientOK, CallersOK
<1>2. MailOK
  BY DEF Init, MailOK, CallsOnce, Range
<1>3. Tracked
  BY DEF Init, Tracked, Waiting, Called
<1> QED BY <1>1, <1>2, <1>3 DEF McpInv

(* A client that ends leaves nobody waiting. *)
LEMMA TerminateKeeps ==
    ASSUME McpInv, NEW answered, NEW abnormal, Terminate(answered, abnormal)
    PROVE  McpInv'
<1>1. /\ DOMAIN client' = {"status", "next_id", "pending", "timers"} /\ client'.next_id = client.next_id
      /\ client'.pending = <<>> /\ client'.status = "stopped" /\ armed' = {} /\ mail' = <<>> /\ wire' = wire
  BY DEF Terminate, McpInv, ClientOK
<1>2. ClientOK'
  BY <1>1 DEF McpInv, ClientOK
<1>3. MailOK'
  BY <1>1 DEF McpInv, MailOK, CallsOnce, Range, AnswerOf
<1>4. CallersOK' /\ \A c \in Callers : caller'[c].st # "waiting"
  BY DEF Terminate, McpInv, CallersOK, Waiting
<1>5. Tracked'
  BY <1>1, <1>4 DEF Tracked, Waiting
<1> QED BY <1>2, <1>3, <1>4, <1>5 DEF McpInv

(* A new request: its id was not given out, so nothing on its way is about it. *)
LEMMA SentFacts ==
    ASSUME NEW kind, NEW b, Sent(kind, b), DOMAIN b = {"status", "next_id", "pending", "timers"}
    PROVE  /\ DOMAIN client' = {"status", "next_id", "pending", "timers"}
           /\ client'.next_id = b.next_id + 1 /\ client'.status = b.status
           /\ DOMAIN client'.pending = DOMAIN b.pending \cup {b.next_id}
           /\ client'.pending[b.next_id] = kind
           /\ \A id \in DOMAIN b.pending \ {b.next_id} : client'.pending[id] = b.pending[id]
           /\ armed' = IF kind \in Callers THEN armed \cup {b.next_id} ELSE armed
           /\ wire' \subseteq wire \cup {[id |-> b.next_id, for |-> kind]}
<1> DEFINE p == With(b.pending, b.next_id, kind)
<1>1. /\ DOMAIN p = DOMAIN b.pending \cup {b.next_id} /\ p[b.next_id] = kind
      /\ \A id \in DOMAIN b.pending \ {b.next_id} : p[id] = b.pending[id]
  BY DEF With
<1>2. client' = [b EXCEPT !.next_id = @ + 1, !.pending = p, !.timers = IF kind \in Callers THEN @ \cup {b.next_id} ELSE @]
  BY DEF Sent
<1> HIDE DEF p
<1>3. /\ DOMAIN client' = {"status", "next_id", "pending", "timers"} /\ client'.next_id = b.next_id + 1
      /\ client'.status = b.status /\ client'.pending = p
  BY <1>2
<1> QED BY <1>1, <1>3 DEF Sent


(* The request is over: the others stay. *)
LEMMA OverFacts ==
    ASSUME McpInv, NEW id
    PROVE  /\ DOMAIN Over(id) = {"status", "next_id", "pending", "timers"}
           /\ Over(id).next_id = client.next_id /\ Over(id).status = client.status
           /\ DOMAIN Over(id).pending = DOMAIN client.pending \ {id}
           /\ \A i \in DOMAIN client.pending \ {id} : Over(id).pending[i] = client.pending[i]
BY DEF McpInv, ClientOK, Over, Without

(* An answer is still of the id it was of. *)
LEMMA AnswerStays ==
    ASSUME NEW m, AnswerOf(m), client.next_id \in Nat, client'.next_id \in Nat, client.next_id <= client'.next_id,
           \A id \in DOMAIN client'.pending : id < client.next_id =>
              id \in DOMAIN client.pending /\ client'.pending[id] = client.pending[id]
    PROVE  AnswerOf(m)'
BY DEF AnswerOf

(* A request is sent, for a caller that was not pending, or in place of one that is over. *)
LEMMA SentKeeps ==
    ASSUME McpInv, NEW kind \in Kinds, NEW b, Sent(kind, b), caller' = caller,
           DOMAIN b = {"status", "next_id", "pending", "timers"}, b.status # "stopped",
           b.next_id = client.next_id, DOMAIN b.pending \subseteq DOMAIN client.pending,
           \A id \in DOMAIN b.pending : b.pending[id] = client.pending[id],
           \A id \in DOMAIN client.pending \ DOMAIN b.pending : client.pending[id] \notin Callers,
           mail' \in Seq(Messages), CallsOnce(mail'), Range(mail') \subseteq Range(mail),
           \A m \in Range(mail) : m.type = "timeout" => m \in Range(mail'),
           \A c \in Callers \ {kind} : CallMsg(c) \in Range(mail) => CallMsg(c) \in Range(mail'),
           kind \in Callers => /\ kind \in Called /\ CallMsg(kind) \notin Range(mail')
                               /\ \A id \in DOMAIN client.pending : client.pending[id] # kind
    PROVE  McpInv'
<1> DEFINE n == client.next_id
<1>1. /\ DOMAIN client' = {"status", "next_id", "pending", "timers"}
      /\ client'.next_id = n + 1 /\ client'.status = b.status
      /\ DOMAIN client'.pending = DOMAIN b.pending \cup {n} /\ client'.pending[n] = kind
      /\ \A id \in DOMAIN b.pending \ {n} : client'.pending[id] = b.pending[id]
      /\ armed' = IF kind \in Callers THEN armed \cup {n} ELSE armed
      /\ wire' \subseteq wire \cup {[id |-> n, for |-> kind]}
  BY SentFacts
<1>2. /\ n \in Nat \ {0} /\ DOMAIN client.pending \subseteq 1..n - 1
      /\ \A id \in DOMAIN client.pending : id \in Nat /\ id < n
      /\ \A id \in armed : id \in DOMAIN b.pending
  BY DEF McpInv, ClientOK
<1>3. \A id \in DOMAIN b.pending : id < n /\ id # n /\ client'.pending[id] = client.pending[id]
  BY <1>1, <1>2
<1> HIDE DEF n
<1>4. ClientOK'
  <2>1. DOMAIN client'.pending \subseteq 1..client'.next_id - 1 /\ client'.next_id \in Nat \ {0}
    BY <1>1, <1>2
  <2>2. \A id \in DOMAIN client'.pending : client'.pending[id] \in Kinds
    BY <1>1, <1>3 DEF McpInv, ClientOK
  <2>3. armed' \subseteq DOMAIN client'.pending /\ \A id \in armed' : client'.pending[id] \in Callers
    BY <1>1, <1>2, <1>3 DEF McpInv, ClientOK
  <2> QED BY <1>1, <2>1, <2>2, <2>3 DEF ClientOK
<1>5. MailOK'
  <2>1. ASSUME NEW m, AnswerOf(m) PROVE AnswerOf(m)'
    BY <1>1, <1>2, <1>3, <2>1, AnswerStays DEF n
  <2>2. ASSUME NEW w \in wire' PROVE AnswerOf(w)'
    <3>1. CASE w \in wire
      BY <2>1, <3>1 DEF McpInv, MailOK
    <3>2. CASE w = [id |-> n, for |-> kind]
      BY <1>1, <1>2, <3>2 DEF AnswerOf
    <3> QED BY <1>1, <3>1, <3>2
  <2>3. ASSUME NEW m \in Range(mail') PROVE InMail(m)' /\ (m.type = "response" => AnswerOf(m)')
    <3>1. InMail(m) /\ (m.type = "response" => AnswerOf(m)) /\ m \in Messages
      <4>1. m \in Range(mail) /\ Range(mail) \subseteq Messages
        BY RangeOfSeq DEF McpInv, MailOK
      <4> QED BY <4>1 DEF McpInv, MailOK
    <3>2. m.type = "call" => \A id \in DOMAIN client'.pending : client'.pending[id] # m.for
      BY <1>1, <1>3, <3>1 DEF InMail
    <3>3. m.type = "timeout" => m.id < client'.next_id /\ m.id \notin armed'
      BY <1>1, <1>2, <3>1 DEF InMail, Messages, n
    <3> QED BY <2>1, <3>1, <3>2, <3>3 DEF InMail, Called
  <2> QED BY <2>2, <2>3 DEF MailOK
<1>6. CallersOK'
  BY DEF McpInv, CallersOK
<1>7. Tracked'
  <2>1. ASSUME NEW c \in Waiting'
        PROVE  /\ Alive'
               /\ \/ CallMsg(c) \in Range(mail')
                  \/ \E id \in DOMAIN client'.pending : client'.pending[id] = c
    <3>1. c \in Waiting /\ c \in Callers
      BY DEF Waiting
    <3>2. CASE c = kind
      BY <1>1, <3>2 DEF Alive
    <3>3. CASE c # kind /\ CallMsg(c) \in Range(mail)
      BY <1>1, <3>1, <3>3 DEF Alive
    <3>4. CASE \E id \in DOMAIN client.pending : client.pending[id] = c
      BY <1>1, <1>3, <3>1, <3>4 DEF Alive
    <3> QED BY <3>1, <3>2, <3>3, <3>4 DEF McpInv, Tracked
  <2>2. ASSUME NEW id \in DOMAIN client'.pending, client'.pending[id] \in Callers
        PROVE  client'.pending[id] \in Called' /\ (id \in armed' \/ Timeout(id) \in Range(mail'))
    <3>1. CASE id = n
      BY <1>1, <2>2, <3>1 DEF Called
    <3>2. CASE id # n
      <4>1. id \in DOMAIN client.pending /\ client'.pending[id] = client.pending[id]
        BY <1>1, <1>3, <3>2
      <4>2. client.pending[id] \in Called /\ (id \in armed \/ Timeout(id) \in Range(mail))
        BY <2>2, <4>1 DEF McpInv, Tracked
      <4>3. Timeout(id).type = "timeout"
        BY DEF Timeout, Message
      <4> QED BY <1>1, <4>1, <4>2, <4>3 DEF Called
    <3> QED BY <3>1, <3>2
  <2>3. ASSUME NEW i \in DOMAIN client'.pending, NEW j \in DOMAIN client'.pending,
               client'.pending[i] = client'.pending[j], client'.pending[i] \in Callers
        PROVE  i = j
    BY <1>1, <1>3, <2>3 DEF McpInv, Tracked
  <2> QED BY <2>1, <2>2, <2>3 DEF Tracked
<1> QED BY <1>4, <1>5, <1>6, <1>7 DEF McpInv

(* A request is over: whoever was pending under it, and only that one, has been answered. *)
LEMMA OverKeeps ==
    ASSUME McpInv, mail # <<>>, mail' = Tail(mail), wire' = wire,
           NEW id, Head(mail).type # "call", Head(mail).type = "timeout" => Head(mail) = Timeout(id),
           DOMAIN client' = {"status", "next_id", "pending", "timers"}, client'.next_id = client.next_id,
           client'.status # "stopped", client'.pending = Over(id).pending, armed' = armed \ {id},
           CallersOK', id \in DOMAIN client.pending,
           \A c \in Callers : c # client.pending[id] => caller'[c].st = caller[c].st,
           client.pending[id] \in Callers => caller'[client.pending[id]].st # "waiting"
    PROVE  McpInv'
<1>1. /\ DOMAIN client'.pending = DOMAIN client.pending \ {id}
      /\ \A i \in DOMAIN client'.pending : client'.pending[i] = client.pending[i]
  BY OverFacts
<1>2. /\ mail' \in Seq(Messages) /\ CallsOnce(mail') /\ Range(mail) = Range(mail') \cup {Head(mail)}
  BY MailTail DEF McpInv, MailOK
<1>3. ClientOK'
  BY <1>1 DEF McpInv, ClientOK
<1>4. MailOK'
  <2>1. ASSUME NEW m, AnswerOf(m) PROVE AnswerOf(m)'
    BY <1>1, <2>1 DEF AnswerOf
  <2>2. ASSUME NEW m \in Range(mail') PROVE InMail(m)' /\ (m.type = "response" => AnswerOf(m)')
    <3>1. InMail(m) /\ (m.type = "response" => AnswerOf(m))
      BY <1>2 DEF McpInv, MailOK
    <3>2. m.type = "call" => m.for \in Called'
      BY <3>1 DEF InMail, Called
    <3> QED BY <1>1, <2>1, <3>1, <3>2 DEF InMail
  <2> QED BY <1>2, <2>1, <2>2 DEF McpInv, MailOK
<1>5. Tracked'
  <2>1. ASSUME NEW c \in Waiting'
        PROVE  /\ Alive'
               /\ \/ CallMsg(c) \in Range(mail')
                  \/ \E i \in DOMAIN client'.pending : client'.pending[i] = c
    <3>1. c \in Callers /\ c # client.pending[id] /\ c \in Waiting
      BY DEF Waiting
    <3>2. CASE CallMsg(c) \in Range(mail)
      BY <1>2, <3>2 DEF Alive, CallMsg, Message
    <3>3. CASE \E i \in DOMAIN client.pending : client.pending[i] = c
      BY <1>1, <3>1, <3>3 DEF Alive
    <3> QED BY <3>1, <3>2, <3>3 DEF McpInv, Tracked
  <2>2. ASSUME NEW i \in DOMAIN client'.pending, client'.pending[i] \in Callers
        PROVE  client'.pending[i] \in Called' /\ (i \in armed' \/ Timeout(i) \in Range(mail'))
    <3>1. i \in DOMAIN client.pending /\ i # id /\ client'.pending[i] = client.pending[i]
      BY <1>1
    <3>2. client.pending[i] \in Called /\ (i \in armed \/ Timeout(i) \in Range(mail))
      BY <2>2, <3>1 DEF McpInv, Tracked
    <3>3. client.pending[i] # client.pending[id]
      BY <2>2, <3>1 DEF McpInv, Tracked
    <3>4. Timeout(i) # Head(mail)
      BY <3>1 DEF Timeout, Message
    <3> QED BY <1>2, <2>2, <3>1, <3>2, <3>3, <3>4 DEF Called
  <2>3. \A i, j \in DOMAIN client'.pending :
           client'.pending[i] = client'.pending[j] /\ client'.pending[i] \in Callers => i = j
    BY <1>1 DEF McpInv, Tracked
  <2> QED BY <2>1, <2>2, <2>3 DEF Tracked
<1> QED BY <1>3, <1>4, <1>5 DEF McpInv

(* Something comes that is neither a call nor a timeout. *)
LEMMA PostKeeps ==
    ASSUME McpInv, UNCHANGED <<client, armed, caller>>, wire' \subseteq wire,
           mail' \in Seq(Messages), CallsOnce(mail'), NEW N, Range(mail') = Range(mail) \cup N,
           \A m \in N : m.type \notin {"call", "timeout"} /\ (m.type = "response" => AnswerOf(m))
    PROVE  McpInv'
<1>1. ClientOK' /\ CallersOK'
  BY DEF McpInv, ClientOK, CallersOK
<1>2. MailOK'
  <2>1. ASSUME NEW m, AnswerOf(m) PROVE AnswerOf(m)'
    BY <2>1 DEF AnswerOf
  <2>2. ASSUME NEW m \in Range(mail') PROVE InMail(m)' /\ (m.type = "response" => AnswerOf(m)')
    BY <2>1 DEF McpInv, MailOK, InMail, Called
  <2> QED BY <2>1, <2>2 DEF McpInv, MailOK
<1>3. Tracked'
  BY DEF McpInv, Tracked, Waiting, Called, Alive
<1> QED BY <1>1, <1>2, <1>3 DEF McpInv

LEMMA SignalKeeps ==
    ASSUME McpInv, UNCHANGED <<client, armed, caller>>, wire' \subseteq wire,
           NEW m \in Messages, mail' = Append(mail, m),
           m.type \notin {"call", "timeout"}, m.type = "response" => AnswerOf(m)
    PROVE  McpInv'
<1>1. mail' \in Seq(Messages) /\ CallsOnce(mail') /\ Range(mail') = Range(mail) \cup {m}
  BY MailAppend DEF McpInv, MailOK
<1>2. PICK N : N = {m}
  OBVIOUS
<1>3. Range(mail') = Range(mail) \cup N
  BY <1>1, <1>2
<1>4. \A x \in N : x.type \notin {"call", "timeout"} /\ (x.type = "response" => AnswerOf(x))
  BY <1>2
<1> QED BY <1>1, <1>3, <1>4, PostKeeps

LEMMA Signals ==
    /\ Down \in Messages /\ Down.type = "down" /\ Exit \in Messages /\ Exit.type = "exit"
    /\ Stop \in Messages /\ Stop.type = "stop"
BY DEF Down, Exit, Stop, Message, Messages

LEMMA StartKeeps ==
    ASSUME McpInv, StartTransport
    PROVE  McpInv'
<1>1. CASE Sent("init", [client EXCEPT !.status = "initializing"]) /\ UNCHANGED <<mail, caller>>
  <2> DEFINE b == [client EXCEPT !.status = "initializing"]
  <2>1. /\ DOMAIN b = {"status", "next_id", "pending", "timers"} /\ b.status = "initializing"
        /\ b.next_id = client.next_id /\ b.pending = client.pending
    BY DEF McpInv, ClientOK
  <2>2. "init" \in Kinds /\ "init" \notin Callers
    BY McpAssumption DEF Kinds
  <2> HIDE DEF b
  <2> QED BY <1>1, <2>1, <2>2, SentKeeps DEF McpInv, MailOK, b
<1>2. CASE Terminate({}, FALSE) \/ Terminate({}, TRUE)
  BY <1>2, TerminateKeeps
<1> QED BY <1>1, <1>2 DEF StartTransport

LEMMA CallKeeps ==
    ASSUME McpInv, NEW c \in Callers, Call(c)
    PROVE  McpInv'
<1>1. /\ caller \in [Callers -> [st : {"idle", "waiting", "ok", "error", "exited"}, got : Callers \cup {Nil}]]
      /\ caller[c].st = "idle"
  BY DEF McpInv, CallersOK, Call
<1>2. ASSUME NEW st \in {"waiting", "exited"}, caller' = [caller EXCEPT ![c].st = st]
      PROVE  /\ CallersOK' /\ caller'[c].st = st
             /\ \A d \in Callers \ {c} : caller'[d] = caller[d]
  BY <1>1, <1>2 DEF McpInv, CallersOK
<1>3. ClientOK' /\ client' = client /\ armed' = armed /\ wire' = wire
  BY DEF Call, McpInv, ClientOK
<1>4. /\ \A id \in DOMAIN client.pending : client.pending[id] # c
      /\ CallMsg(c) \notin Range(mail)
  <2>1. \A id \in DOMAIN client.pending : client.pending[id] # c
    BY <1>1 DEF McpInv, Tracked, Called
  <2>2. CallMsg(c).type = "call" /\ CallMsg(c).for = c
    BY DEF CallMsg, Message
  <2>3. CallMsg(c) \notin Range(mail)
    BY <1>1, <2>2 DEF McpInv, MailOK, InMail, Called
  <2> QED BY <2>1, <2>3
<1>5. CASE Alive
  <2>1. /\ caller'[c].st = "waiting" /\ CallersOK' /\ \A d \in Callers \ {c} : caller'[d] = caller[d]
    BY <1>2, <1>5 DEF Call
  <2>2. CallMsg(c) \in Messages /\ CallMsg(c).type = "call" /\ CallMsg(c).for = c
    BY DEF CallMsg, Message, Messages, Kinds
  <2>3. mail' \in Seq(Messages) /\ CallsOnce(mail') /\ Range(mail') = Range(mail) \cup {CallMsg(c)}
    BY <1>4, <1>5, <2>2, MailAppend DEF Call, McpInv, MailOK
  <2>4. MailOK'
    <3>1. ASSUME NEW m, AnswerOf(m) PROVE AnswerOf(m)'
      BY <1>3, <3>1 DEF AnswerOf
    <3>2. ASSUME NEW m \in Range(mail') PROVE InMail(m)' /\ (m.type = "response" => AnswerOf(m)')
      <4>1. CASE m = CallMsg(c)
        BY <1>3, <1>4, <2>1, <2>2, <4>1 DEF InMail, Called
      <4>2. CASE m \in Range(mail)
        <5>1. InMail(m) /\ (m.type = "response" => AnswerOf(m))
          BY <4>2 DEF McpInv, MailOK
        <5>2. m.type = "call" => m.for \in Called'
          BY <2>1, <5>1 DEF InMail, Called
        <5> QED BY <1>3, <3>1, <5>1, <5>2 DEF InMail
      <4> QED BY <2>3, <4>1, <4>2
    <3> QED BY <1>3, <2>3, <3>1, <3>2 DEF McpInv, MailOK
  <2>5. Tracked'
    <3>1. \A d \in Waiting' : d = c \/ d \in Waiting
      BY <2>1 DEF Waiting
    <3>2. \A d \in Called : d \in Called'
      BY <2>1 DEF Called
    <3> QED BY <1>3, <1>5, <2>3, <3>1, <3>2 DEF McpInv, Tracked, Alive
  <2> QED BY <1>3, <2>1, <2>4, <2>5 DEF McpInv
<1>6. CASE ~Alive
  <2>1. /\ caller'[c].st = "exited" /\ CallersOK' /\ \A d \in Callers \ {c} : caller'[d] = caller[d]
        /\ mail' = mail
    BY <1>2, <1>6 DEF Call
  <2>2. MailOK'
    <3>1. ASSUME NEW m, AnswerOf(m) PROVE AnswerOf(m)'
      BY <1>3, <3>1 DEF AnswerOf
    <3>2. ASSUME NEW m \in Range(mail) PROVE InMail(m)' /\ (m.type = "response" => AnswerOf(m)')
      BY <1>1, <1>3, <2>1, <3>1 DEF McpInv, MailOK, InMail, Called
    <3> QED BY <1>3, <2>1, <3>1, <3>2 DEF McpInv, MailOK
  <2>3. Tracked'
    <3>1. Waiting' = Waiting /\ Called \subseteq Called'
      BY <1>1, <2>1 DEF Waiting, Called
    <3> QED BY <1>3, <2>1, <3>1 DEF McpInv, Tracked, Alive
  <2> QED BY <1>3, <2>1, <2>2, <2>3 DEF McpInv
<1> QED BY <1>5, <1>6

(* A caller that gives up is waited for no more; its call goes on without it. *)
LEMMA CallerGivesUpKeeps ==
    ASSUME McpInv, NEW c \in Callers, CallerGivesUp(c)
    PROVE  McpInv'
<1>1. UNCHANGED <<client, armed, mail, wire>>
  BY DEF CallerGivesUp
<1>2. CallersOK' /\ Waiting' = Waiting \ {c} /\ Called' = Called
  BY DEF CallerGivesUp, Settled, Waiting, Called, McpInv, CallersOK
<1>3. ClientOK'
  BY <1>1 DEF McpInv, ClientOK
<1>4. MailOK'
  BY <1>1, <1>2 DEF McpInv, MailOK, InMail, AnswerOf
<1>5. Tracked'
  BY <1>1, <1>2 DEF McpInv, Tracked, Alive
<1> QED BY <1>2, <1>3, <1>4, <1>5 DEF McpInv

(* The call at the head of the mailbox. *)
LEMMA HandleCallKeeps ==
    ASSUME McpInv, HandleCall
    PROVE  McpInv'
<1>1. /\ mail # <<>> /\ Head(mail).type = "call" /\ client.status \notin {"starting", "stopped"}
  BY DEF HandleCall, Receives
<1>2. /\ Tail(mail) \in Seq(Messages) /\ CallsOnce(Tail(mail)) /\ Range(mail) = Range(Tail(mail)) \cup {Head(mail)}
      /\ Head(mail) \notin Range(Tail(mail))
  BY <1>1, MailTail DEF McpInv, MailOK
<1>3. PICK c \in Callers : /\ Head(mail) = CallMsg(c) /\ Head(mail).for = c /\ c \in Called
                           /\ \A id \in DOMAIN client.pending : client.pending[id] # c
  BY <1>1, <1>2 DEF McpInv, MailOK, InMail
<1>4. CASE /\ caller' = Settled({c}, "error") /\ mail' = Tail(mail)
           /\ UNCHANGED <<client, armed, transport, wire, session>>
  <2>1. /\ CallersOK' /\ caller'[c].st # "waiting" /\ \A d \in Callers \ {c} : caller'[d] = caller[d]
        /\ Called \subseteq Called'
    BY <1>4 DEF McpInv, CallersOK, Settled, Waiting, Called
  <2>2. ClientOK'
    BY <1>4 DEF McpInv, ClientOK
  <2>3. MailOK'
    <3>1. ASSUME NEW m, AnswerOf(m) PROVE AnswerOf(m)'
      BY <1>4, <3>1 DEF AnswerOf
    <3>2. ASSUME NEW m \in Range(mail') PROVE InMail(m)' /\ (m.type = "response" => AnswerOf(m)')
      <4>1. InMail(m) /\ (m.type = "response" => AnswerOf(m)) /\ m # CallMsg(c)
        BY <1>2, <1>3, <1>4 DEF McpInv, MailOK
      <4>2. m.type = "call" => m.for # c
        BY <4>1 DEF InMail
      <4> QED BY <1>4, <2>1, <3>1, <4>1, <4>2 DEF InMail
    <3> QED BY <1>2, <1>4, <3>1, <3>2 DEF McpInv, MailOK
  <2>4. Tracked'
    <3>1. \A d \in Callers : d \in Waiting' <=> d \in Waiting /\ d # c
      BY <2>1 DEF Waiting
    <3>2. \A d \in Callers : CallMsg(d).for = d
      BY DEF CallMsg, Message
    <3>3. \A d \in Callers : d # c /\ CallMsg(d) \in Range(mail) => CallMsg(d) \in Range(mail')
      BY <1>2, <1>3, <1>4, <3>2
    <3>4. \A id : Timeout(id) \in Range(mail) => Timeout(id) \in Range(mail')
      BY <1>1, <1>2, <1>4 DEF Timeout, Message
    <3>5. Waiting' \subseteq Callers
      BY DEF Waiting
    <3> QED BY <1>3, <1>4, <2>1, <3>1, <3>3, <3>4, <3>5 DEF McpInv, Tracked, Alive
  <2> QED BY <2>1, <2>2, <2>3, <2>4 DEF McpInv
<1>5. CASE Sent(c, client) /\ mail' = Tail(mail) /\ UNCHANGED <<transport, session, caller>>
  <2>1. /\ c \in Kinds /\ c \in Called
        /\ DOMAIN client = {"status", "next_id", "pending", "timers"} /\ client.status # "stopped"
    BY <1>1, <1>3 DEF Kinds, McpInv, ClientOK
  <2>2. \A m \in Range(mail) : m.type = "timeout" => m \in Range(mail')
    BY <1>1, <1>2, <1>5
  <2>3. \A d \in Callers \ {c} : CallMsg(d) \in Range(mail) => CallMsg(d) \in Range(mail')
    BY <1>2, <1>3, <1>5 DEF CallMsg, Message
  <2> QED BY <1>2, <1>3, <1>5, <2>1, <2>2, <2>3, SentKeeps
<1>6. CASE Terminate({}, TRUE)
  BY <1>6, TerminateKeeps
<1> QED BY <1>3, <1>4, <1>5, <1>6 DEF HandleCall, SendExits

(* A message about a request that is over is dropped. *)
LEMMA DroppedKeeps ==
    ASSUME McpInv, mail # <<>>, Head(mail).type # "call", Dropped,
           \A id \in DOMAIN client.pending : Head(mail) # Timeout(id)
    PROVE  McpInv'
<1>1. /\ mail' \in Seq(Messages) /\ CallsOnce(mail') /\ Range(mail) = Range(mail') \cup {Head(mail)}
      /\ UNCHANGED <<client, armed, wire, caller>>
  BY MailTail DEF Dropped, McpInv, MailOK
<1>2. ClientOK' /\ CallersOK'
  BY <1>1 DEF McpInv, ClientOK, CallersOK
<1>3. MailOK'
  BY <1>1 DEF McpInv, MailOK, InMail, AnswerOf, Called
<1>4. Tracked'
  <2>1. \A c : CallMsg(c) # Head(mail)
    BY DEF CallMsg, Message
  <2> QED BY <1>1, <2>1 DEF McpInv, Tracked, Waiting, Called, Alive
<1> QED BY <1>2, <1>3, <1>4 DEF McpInv

LEMMA HandleResponseKeeps ==
    ASSUME McpInv, HandleResponse
    PROVE  McpInv'
<1> DEFINE m == Head(mail)
           id == Head(mail).id
<1>1. /\ mail # <<>> /\ m.type = "response" /\ client.status \notin {"starting", "stopped"}
      /\ m \in Range(mail) /\ \A i : m # Timeout(i)
  <2>1. mail # <<>> /\ m.type = "response" /\ client.status \notin {"starting", "stopped"}
    BY DEF HandleResponse, Receives
  <2>2. m \in Range(mail)
    BY <2>1, MailTail DEF McpInv, MailOK
  <2> QED BY <2>1, <2>2 DEF Timeout, Message
<1>2. AnswerOf(m)
  BY <1>1 DEF McpInv, MailOK
<1>3. /\ Tail(mail) \in Seq(Messages) /\ CallsOnce(Tail(mail)) /\ Range(mail) = Range(Tail(mail)) \cup {m}
  BY <1>1, MailTail DEF McpInv, MailOK
<1>4. CASE Dropped
  BY <1>1, <1>4, DroppedKeeps
<1>5. CASE /\ id \in DOMAIN client.pending /\ client.pending[id] \in {"init", "tools_list"}
           /\ HandshakeResponse(m, client.pending[id])
  <2>1. client.pending[id] \notin Callers /\ id \notin armed
    BY <1>5, McpAssumption DEF McpInv, ClientOK
  <2>2. CASE Terminate({}, FALSE) \/ Terminate({}, TRUE)
    BY <2>2, TerminateKeeps
  <2>3. CASE /\ Sent("tools_list", [Over(id) EXCEPT !.status = "listing_tools"])
             /\ mail' = Tail(mail) /\ caller' = caller
    <3> DEFINE o == Over(id)
               b == [o EXCEPT !.status = "listing_tools"]
    <3>1. /\ DOMAIN o = {"status", "next_id", "pending", "timers"}
          /\ o.next_id = client.next_id
          /\ DOMAIN o.pending = DOMAIN client.pending \ {id}
          /\ \A i \in DOMAIN client.pending \ {id} : o.pending[i] = client.pending[i]
      BY OverFacts
    <3> HIDE DEF o
    <3>2. /\ DOMAIN b = {"status", "next_id", "pending", "timers"} /\ b.status = "listing_tools"
          /\ b.next_id = client.next_id /\ b.pending = o.pending
      BY <3>1
    <3>3. Sent("tools_list", b)
      BY <2>3 DEF o
    <3>4. "tools_list" \in Kinds /\ "tools_list" \notin Callers
      BY McpAssumption DEF Kinds
    <3>5. \A i \in DOMAIN client.pending \ DOMAIN b.pending : client.pending[i] \notin Callers
      BY <2>1, <3>1, <3>2
    <3>6. \A x \in Range(mail) : x.type = "timeout" => x \in Range(mail')
      BY <1>1, <1>3, <2>3
    <3>7. \A c \in Callers : CallMsg(c) \in Range(mail) => CallMsg(c) \in Range(mail')
      BY <1>1, <1>3, <2>3 DEF CallMsg, Message
    <3>8. /\ DOMAIN b.pending \subseteq DOMAIN client.pending
          /\ \A i \in DOMAIN b.pending : b.pending[i] = client.pending[i]
      BY <3>1, <3>2
    <3> HIDE DEF b
    <3> QED BY <1>3, <2>3, <3>2, <3>3, <3>4, <3>5, <3>6, <3>7, <3>8, SentKeeps
  <2>4. CASE /\ client' = [Over(id) EXCEPT !.status = "ready"] /\ mail' = Tail(mail)
             /\ UNCHANGED <<armed, transport, wire, session, caller>>
    <3> DEFINE o == Over(id)
    <3>1. DOMAIN o = {"status", "next_id", "pending", "timers"} /\ o.next_id = client.next_id
      BY OverFacts
    <3>2. client' = [o EXCEPT !.status = "ready"]
      BY <2>4
    <3> HIDE DEF o
    <3>3. /\ DOMAIN client' = {"status", "next_id", "pending", "timers"} /\ client'.next_id = client.next_id
          /\ client'.status = "ready" /\ client'.pending = o.pending
      BY <3>1, <3>2
    <3>4. CallersOK' /\ armed' = armed \ {id}
      BY <2>1, <2>4 DEF McpInv, CallersOK
    <3> QED BY <1>1, <1>5, <2>1, <2>4, <3>3, <3>4, OverKeeps DEF o
  <2> QED BY <1>5, <2>2, <2>3, <2>4 DEF HandshakeResponse, SendExits
<1>6. CASE /\ id \in DOMAIN client.pending /\ client.pending[id] \in Callers
           /\ client' = Over(id) /\ armed' = armed \ {id}
           /\ caller' = [caller EXCEPT ![client.pending[id]] =
                           IF @.st # "waiting" THEN @
                           ELSE [st |-> IF m.ok THEN "ok" ELSE "error", got |-> m.for]]
           /\ mail' = Tail(mail)
           /\ UNCHANGED <<transport, wire, starter, session>>
  <2>1. PICK c \in Callers : c = client.pending[id]
    BY <1>6
  <2>2. m.for = c
    BY <1>2, <1>6, <2>1 DEF AnswerOf
  <2>3. /\ CallersOK' /\ caller'[c].st # "waiting" /\ \A d \in Callers : d # c => caller'[d].st = caller[d].st
    BY <1>6, <2>1, <2>2 DEF McpInv, CallersOK
  <2>4. /\ DOMAIN client' = {"status", "next_id", "pending", "timers"} /\ client'.next_id = client.next_id
        /\ client'.status # "stopped" /\ client'.pending = Over(id).pending
    BY <1>1, <1>6, OverFacts
  <2> QED BY <1>1, <1>6, <2>1, <2>3, <2>4, OverKeeps
<1> QED BY <1>4, <1>5, <1>6 DEF HandleResponse

LEMMA HandleTimeoutKeeps ==
    ASSUME McpInv, HandleTimeout
    PROVE  McpInv'
<1> DEFINE m == Head(mail)
           id == Head(mail).id
<1>1. mail # <<>> /\ m.type = "timeout" /\ client.status \notin {"starting", "stopped"}
  BY DEF HandleTimeout, Receives
<1>2. m = Timeout(id) /\ id \notin armed
  <2>1. m \in Range(mail)
    BY <1>1, MailTail DEF McpInv, MailOK
  <2> QED BY <1>1, <2>1 DEF McpInv, MailOK, InMail
<1>3. CASE id \notin DOMAIN client.pending /\ Dropped
  <2>1. \A i \in DOMAIN client.pending : m # Timeout(i)
    BY <1>3 DEF Timeout, Message
  <2> QED BY <1>1, <1>3, <2>1, DroppedKeeps
<1>4. CASE /\ id \in DOMAIN client.pending /\ client' = Over(id) /\ mail' = Tail(mail)
           /\ caller' = Settled({client.pending[id]}, "error")
           /\ UNCHANGED <<armed, transport, wire, starter, session>>
  <2>1. PICK c : c = client.pending[id]
    OBVIOUS
  <2>2. /\ CallersOK' /\ (c \in Callers => caller'[c].st # "waiting")
        /\ \A d \in Callers : d # c => caller'[d].st = caller[d].st
    BY <1>4, <2>1 DEF McpInv, CallersOK, Settled, Waiting
  <2>3. /\ DOMAIN client' = {"status", "next_id", "pending", "timers"} /\ client'.next_id = client.next_id
        /\ client'.status # "stopped" /\ client'.pending = Over(id).pending /\ armed' = armed \ {id}
    BY <1>1, <1>2, <1>4, OverFacts
  <2> QED BY <1>1, <1>2, <1>4, <2>1, <2>2, <2>3, OverKeeps
<1> QED BY <1>3, <1>4 DEF HandleTimeout

(* A timer that runs out leaves its message where the timer was. *)
LEMMA TimerFiresKeeps ==
    ASSUME McpInv, TimerFires
    PROVE  McpInv'
<1>1. PICK id \in armed : armed' = armed \ {id} /\ mail' = Append(mail, Timeout(id))
  BY DEF TimerFires
<1>2. client' = client /\ wire' = wire /\ caller' = caller
  BY DEF TimerFires
<1>3. id \in DOMAIN client.pending /\ id \in Nat /\ id < client.next_id
  BY DEF McpInv, ClientOK
<1>4. Timeout(id) \in Messages /\ Timeout(id).type = "timeout" /\ Timeout(id).id = id
  BY <1>3 DEF Timeout, Message, Messages
<1>5. mail' \in Seq(Messages) /\ CallsOnce(mail') /\ Range(mail') = Range(mail) \cup {Timeout(id)}
  BY <1>1, <1>4, MailAppend DEF McpInv, MailOK
<1>6. ClientOK' /\ CallersOK'
  BY <1>1, <1>2 DEF McpInv, ClientOK, CallersOK
<1>7. MailOK'
  <2>1. ASSUME NEW m, AnswerOf(m) PROVE AnswerOf(m)'
    BY <1>2, <2>1 DEF AnswerOf
  <2>2. ASSUME NEW m \in Range(mail') PROVE InMail(m)' /\ (m.type = "response" => AnswerOf(m)')
    <3>1. CASE m = Timeout(id)
      BY <1>1, <1>2, <1>3, <1>4, <3>1 DEF InMail
    <3>2. CASE m \in Range(mail)
      BY <1>1, <1>2, <2>1, <3>2 DEF McpInv, MailOK, InMail, Called
    <3> QED BY <1>5, <3>1, <3>2
  <2> QED BY <1>2, <1>5, <2>1, <2>2 DEF McpInv, MailOK
<1>8. Tracked'
  BY <1>1, <1>2, <1>5 DEF McpInv, Tracked, Waiting, Called, Alive
<1> QED BY <1>6, <1>7, <1>8 DEF McpInv

LEMMA ServerAnswersKeeps ==
    ASSUME McpInv, ServerAnswers
    PROVE  McpInv'
<1>1. PICK w \in wire, ok \in BOOLEAN :
         /\ mail' = Append(mail, Message("response", w.id, w.for, ok))
         /\ wire' \in {wire, wire \ {w}}
  BY DEF ServerAnswers
<1>2. PICK m : m = Message("response", w.id, w.for, ok)
  OBVIOUS
<1>3. AnswerOf(w)
  BY DEF McpInv, MailOK
<1>4. /\ m \in Messages /\ m.type = "response" /\ AnswerOf(m)
  <2>1. m.type = "response" /\ m.id = w.id /\ m.for = w.for /\ client.next_id \in Nat
    BY <1>2 DEF Message, McpInv, ClientOK
  <2>2. AnswerOf(m)
    BY <1>3, <2>1 DEF AnswerOf
  <2>3. w.id \in Nat /\ w.for \in Kinds
    BY <1>3, <2>1 DEF AnswerOf
  <2>4. m \in Messages
    BY <1>2, <2>3 DEF Message, Messages
  <2> QED BY <2>1, <2>2, <2>4
<1>5. UNCHANGED <<client, armed, caller>> /\ wire' \subseteq wire
  BY <1>1 DEF ServerAnswers
<1> QED BY <1>1, <1>2, <1>4, <1>5, SignalKeeps

LEMMA TransportEndsKeeps ==
    ASSUME McpInv, TransportEnds
    PROVE  McpInv'
<1>1. UNCHANGED <<client, armed, caller>> /\ wire' \subseteq wire
  BY DEF TransportEnds
<1>2. CASE mail' = Append(mail, Exit)
  BY <1>1, <1>2, Signals, SignalKeeps
<1>3. CASE mail' = mail \o <<Down, Exit>>
  <2>1. mail \in Seq(Messages) /\ CallsOnce(mail)
    BY DEF McpInv, MailOK
  <2> DEFINE s == Append(mail, Down)
  <2>2. s \in Seq(Messages) /\ CallsOnce(s) /\ Range(s) = Range(mail) \cup {Down}
    BY <2>1, Signals, MailAppend
  <2> HIDE DEF s
  <2> DEFINE t == Append(s, Exit)
  <2>3. t \in Seq(Messages) /\ CallsOnce(t) /\ Range(t) = Range(s) \cup {Exit}
    BY <2>2, Signals, MailAppend
  <2>4. mail' = t
    <3>1. Down \in Messages /\ Exit \in Messages
      BY Signals
    <3> HIDE DEF Down, Exit
    <3> QED BY <1>3, <2>1, <3>1 DEF s
  <2> HIDE DEF t
  <2>5. PICK N : N = {Down, Exit}
    OBVIOUS
  <2>6. Range(mail') = Range(mail) \cup N
    BY <2>2, <2>3, <2>4, <2>5
  <2>7. \A m \in N : m.type \notin {"call", "timeout"} /\ (m.type = "response" => AnswerOf(m))
    BY <2>5, Signals
  <2> QED BY <1>1, <2>3, <2>4, <2>6, <2>7, PostKeeps
<1> QED BY <1>2, <1>3 DEF TransportEnds

LEMMA NothingSaid ==
    ASSUME McpInv, UNCHANGED <<client, armed, mail, wire, caller>>
    PROVE  McpInv'
BY DEF McpInv, ClientOK, MailOK, InMail, AnswerOf, CallersOK, Tracked, Waiting, Called, Alive

LEMMA McpKeeps == McpInv /\ [Next]_vars => McpInv'
<1> SUFFICES ASSUME McpInv, [Next]_vars PROVE McpInv'
  OBVIOUS
<1>1. CASE StartTransport
  BY <1>1, StartKeeps
<1>2. CASE HandleCall
  BY <1>2, HandleCallKeeps
<1>3. CASE HandleResponse
  BY <1>3, HandleResponseKeeps
<1>4. CASE HandleTimeout
  BY <1>4, HandleTimeoutKeeps
<1>5. CASE HandleDown
  BY <1>5, TerminateKeeps DEF HandleDown
<1>6. CASE HandleStop
  BY <1>6, TerminateKeeps DEF HandleStop
<1>7. ASSUME NEW c \in Callers, Call(c) \/ CallerGivesUp(c) PROVE McpInv'
  BY <1>7, CallKeeps, CallerGivesUpKeeps
<1>8. CASE ServerAnswers
  BY <1>8, ServerAnswersKeeps
<1>9. CASE TransportEnds
  BY <1>9, TransportEndsKeeps
<1>10. CASE TimerFires
  BY <1>10, TimerFiresKeeps
<1>11. CASE InitTimeout \/ SessionStops
  <2>1. UNCHANGED <<client, armed, wire, caller>>
    BY <1>11 DEF InitTimeout, SessionStops
  <2>2. CASE mail' = mail
    BY <2>1, <2>2, NothingSaid
  <2>3. CASE mail' = Append(mail, Stop)
    BY <2>1, <2>3, Signals, SignalKeeps
  <2> QED BY <1>11, <2>2, <2>3 DEF InitTimeout, SessionStops
<1>12. CASE UNCHANGED vars
  BY <1>12, NothingSaid DEF vars
<1> QED BY <1>1, <1>2, <1>3, <1>4, <1>5, <1>6, <1>7, <1>8, <1>9, <1>10, <1>11, <1>12 DEF Next, Handle

-----------------------------------------------------------------------------
(* The client's bookkeeping: what is in its mailbox, what is pending and what the callers
   wait for agree, whatever comes late, twice or out of order (client.ex's pending and
   timers). *)
THEOREM McpInvariant == Spec => []McpInv
BY McpStarts, McpKeeps, PTL DEF Spec

(* A call that waits is in the mailbox, or pending under one id with a timeout to come. *)
THEOREM CallersAreTracked == Spec => []CallerTracked
<1>1. McpInv => CallerTracked
  <2> SUFFICES ASSUME McpInv, NEW c \in Waiting
               PROVE  LET ids == {id \in DOMAIN client.pending : client.pending[id] = c}
                      IN  /\ Alive
                          /\ \/ ids = {} /\ CallMsg(c) \in Range(mail)
                             \/ /\ Cardinality(ids) = 1 /\ CallMsg(c) \notin Range(mail)
                                /\ \A id \in ids : id \in armed \/ Timeout(id) \in Range(mail)
    BY DEF CallerTracked
  <2> DEFINE ids == {id \in DOMAIN client.pending : client.pending[id] = c}
  <2>1. c \in Callers /\ Alive
    BY DEF McpInv, Tracked, Waiting
  <2>2. CASE ids = {}
    BY <2>1, <2>2 DEF McpInv, Tracked
  <2>3. CASE ids # {}
    <3>1. PICK n \in DOMAIN client.pending : client.pending[n] = c
      BY <2>3
    <3>2. ids = {n}
      BY <2>1, <3>1 DEF McpInv, Tracked
    <3>3. Cardinality(ids) = 1
      BY <3>2, FS_Singleton
    <3>4. CallMsg(c).type = "call" /\ CallMsg(c).for = c
      BY DEF CallMsg, Message
    <3>5. CallMsg(c) \notin Range(mail)
      BY <3>1, <3>4 DEF McpInv, MailOK, InMail
    <3>6. \A id \in ids : id \in armed \/ Timeout(id) \in Range(mail)
      BY <2>1, <3>1, <3>2 DEF McpInv, Tracked
    <3> QED BY <2>1, <3>3, <3>5, <3>6
  <2> QED BY <2>2, <2>3
<1> QED BY <1>1, McpInvariant, PTL

(* A call gets the answer to its own request and to no other. *)
THEOREM AnswersAreOwn == Spec => []OwnAnswer
<1>1. McpInv => OwnAnswer
  BY DEF McpInv, CallersOK, OwnAnswer
<1> QED BY <1>1, McpInvariant, PTL
=============================================================================
