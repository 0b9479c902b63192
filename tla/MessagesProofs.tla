--------------------------- MODULE MessagesProofs ---------------------------
(***************************************************************************)
(* What MCMessages checks on small instances, proved for every number of   *)
(* clients, services, talkers, members, groups, runs, texts and requests:  *)
(* the invariants MCTypeOK, LabAnswers, Chats and HandedOver.  Each        *)
(* program has an inductive invariant of its own, that of the lab in       *)
(* LabProofs; one of them runs.                                            *)
(***************************************************************************)
EXTENDS LabProofs

-----------------------------------------------------------------------------
(* 07-messageQ.                                                              *)

QueueNext ==
  Queue!StartServer \/ Queue!Server \/ \E c \in Talkers : Queue!Client(c) \/ Queue!Kill(c)

Datas == [kind : {"join", "leave", "text"}, from : Talkers, text : Nat]
Mails == [type : Talkers \cup {0}, data : Datas]
Kept  == [type : Talkers \cup {0}, data : Datas \cup {Queue!NoText}]

QueueTypes ==
  /\ queue \in [id : Nat, messages : Seq(Mails)]
  /\ spc \in {"off", "receive", "send", "done"}
  /\ pids \in Seq(Talkers)
  /\ out \in [data : Datas \cup {Queue!NoText}, to : Seq(Talkers)]
  /\ typed \in Nat
  /\ msq_id \in [Talkers -> Nat]
  /\ wpc \in [Talkers -> {"off", "join", "write", "type", "type-leave", "send", "send-leave",
                          "left", "dead"}]
  /\ m \in [Talkers -> Kept]

\* A message for a client is somebody else's text.
NotOwn(msg) == msg.type # 0 => msg.data.kind = "text" /\ msg.data.from # msg.type

\* A client that is to join is not known yet, one that is to leave has left; w and p stand for
\* wpc and pids.
Fit(msg, w, p) ==
  /\ NotOwn(msg)
  /\ msg.data.kind = "join" => /\ msg.data.text = 0
                               /\ w[msg.data.from] \notin {"off", "join"}
                               /\ msg.data.from \notin Range(p)
  /\ msg.data.kind = "leave" => w[msg.data.from] \in {"left", "dead"}
Fitting(q, w, p) == \A i \in 1 .. Len(q) : Fit(q[i], w, p)

\* A client joins once.
Joins(msg, c) == msg.data.kind = "join" /\ msg.data.from = c
JoinsOnce(q) ==
  \A i, j \in 1 .. Len(q) : \A c \in Talkers : Joins(q[i], c) /\ Joins(q[j], c) => i = j

\* What a client is about to send.
Buffered(msg, pc, c) ==
  /\ pc = "join" => msg = Queue!Message(0, Queue!Command("join", c))
  /\ pc \in {"type", "send"} => msg.data.kind = "text"
  /\ pc \in {"type-leave", "send-leave"} =>
       \/ msg.data.kind = "text"
       \/ msg.data.kind = "leave" /\ msg.data.from = c
  /\ pc \in {"send", "send-leave"} => NotOwn(msg)
Buffers == \A c \in Talkers : Buffered(m[c], wpc[c], c)

\* The text that the server sends on goes to others than its author.
Forwards(o) ==
  /\ o.to # <<>>
  /\ o.data.kind = "text"
  /\ \A i \in 1 .. Len(o.to) : o.to[i] # o.data.from
Forwarding == spc = "send" => Forwards(out)

\* Who is known, and who is not yet.
Known(c, q, p) == c \in Range(p) \/ \E i \in 1 .. Len(q) : Joins(q[i], c)
Membership ==
  /\ IsInjective(pids)
  /\ \A c \in Talkers : c \in Range(pids) => wpc[c] \notin {"off", "join"}
  /\ spc \in {"receive", "send"} =>
       \A c \in Talkers : msq_id[c] = queue.id /\ wpc[c] \in {"write", "type", "send"}
                          => Known(c, queue.messages, pids)
Numbers == \A c \in Talkers : msq_id[c] <= queue.id

QueueInv ==
  /\ QueueTypes
  /\ Len(queue.messages) <= QUEUE_MAX
  /\ Fitting(queue.messages, wpc, pids)
  /\ JoinsOnce(queue.messages)
  /\ Buffers
  /\ Forwarding
  /\ Membership
  /\ Numbers

\* The operators of the sequences are those of the program's module, too.
LEMMA SameInQueue ==
  ASSUME NEW ss
  PROVE  /\ \A k : Queue!RemoveAt(ss, k) = RemoveAt(ss, k)
         /\ \A e : Queue!RemoveFirst(ss, e) = RemoveFirst(ss, e)
         /\ Queue!FlattenSeq(ss) = FlattenSeq(ss)
         /\ Queue!Range(ss) = Range(ss)
         /\ Queue!IsInjective(ss) <=> IsInjective(ss)
<1>1. \A k : Queue!RemoveAt(ss, k) = RemoveAt(ss, k)
  BY DEF Queue!RemoveAt, RemoveAt
<1>2. \A e : Queue!RemoveFirst(ss, e) = RemoveFirst(ss, e)
  BY DEF Queue!RemoveFirst, RemoveFirst, Queue!SelectInSeq, SelectInSeq, Queue!RemoveAt, RemoveAt,
         Queue!Min, Min
<1>3. Queue!FlattenSeq(ss) = FlattenSeq(ss)
  BY DEF Queue!FlattenSeq, FlattenSeq
<1>4. Queue!Range(ss) = Range(ss)
  BY DEF Queue!Range, Range
<1>5. Queue!IsInjective(ss) <=> IsInjective(ss)
  BY DEF Queue!IsInjective, IsInjective
<1> QED BY <1>1, <1>2, <1>3, <1>4, <1>5

\* The program starts so.
LEMMA QueueInit == ASSUME Queue!QueueAssumption, Queue!Init PROVE QueueInv
<1>1. queue = [id |-> 0, messages |-> <<>>] /\ QUEUE_MAX \in Nat
  BY DEF Queue!QueueAssumption, Queue!Init
<1>2. QueueTypes
  BY DEF Queue!Init, QueueTypes, Kept, Queue!Message, Queue!NoText, Queue!Command,
         Queue!ServerType
<1>3. Len(queue.messages) <= QUEUE_MAX /\ \A i \in 1 .. Len(queue.messages) : FALSE
  BY <1>1
<1>4. Fitting(queue.messages, wpc, pids) /\ JoinsOnce(queue.messages)
  BY <1>3 DEF Fitting, JoinsOnce
<1>5. Buffers /\ Forwarding
  BY DEF Queue!Init, Buffers, Buffered, Forwarding
<1>6. Membership
  <2>1. pids = <<>> /\ spc = "off"
    BY DEF Queue!Init
  <2>2. IsInjective(pids) /\ Range(pids) = {}
    BY <2>1 DEF IsInjective, Range
  <2> QED BY <2>1, <2>2 DEF Membership
<1>7. Numbers
  BY <1>1 DEF Queue!Init, Numbers
<1> QED BY <1>2, <1>3, <1>4, <1>5, <1>6, <1>7 DEF QueueInv

\* msgrcv gives the first message of its type.
LEMMA FirstIs ==
  ASSUME QueueTypes, NEW t, Queue!OfType(t) # {}
  PROVE  /\ Queue!FirstOf(t) \in 1 .. Len(queue.messages)
         /\ queue.messages[Queue!FirstOf(t)].type = t
<1>1. queue.messages \in Seq(Mails)
  BY DEF QueueTypes
<1>2. PICK I : I = Queue!OfType(t)
  OBVIOUS
<1>3. I \subseteq Nat /\ I # {}
  BY <1>1, <1>2 DEF Queue!OfType
<1>4. Queue!FirstOf(t) = Least(I)
  BY <1>2 DEF Queue!FirstOf, Least
<1>5. Least(I) \in I
  BY ONLY <1>3, LeastIs
<1> QED BY <1>1, <1>2, <1>4, <1>5 DEF Queue!OfType

\* What a removal from the queue leaves.
LEMMA MailsRemoved ==
  ASSUME NEW q \in Seq(Mails), NEW k \in 1 .. Len(q), NEW r, r = RemoveAt(q, k), NEW w, NEW p
  PROVE  /\ r \in Seq(Mails) /\ Len(r) <= Len(q)
         /\ Fitting(q, w, p) => Fitting(r, w, p)
         /\ JoinsOnce(q) => JoinsOnce(r)
         /\ \A c \in Talkers : JoinsOnce(q) /\ Joins(q[k], c) =>
              \A i \in 1 .. Len(r) : ~ Joins(r[i], c)
         /\ \A c \in Talkers : ~ Joins(q[k], c) /\ Known(c, q, p) => Known(c, r, p)
<1>1. r \in Seq(Mails) /\ Len(r) = Len(q) - 1
  BY RemoveAtIs
<1>23. LeftOver(q, k, r)
  BY RemovedRest
<1>2. \A i \in 1 .. Len(r) : \E j \in 1 .. Len(q) : j # k /\ r[i] = q[j]
  BY <1>23 DEF LeftOver
<1>3. \A j \in 1 .. Len(q) : j # k => \E i \in 1 .. Len(r) : r[i] = q[j]
  BY <1>23 DEF LeftOver
<1>4. Len(r) <= Len(q)
  BY <1>1
<1>5. Fitting(q, w, p) => Fitting(r, w, p)
  BY <1>2 DEF Fitting
<1>6. ASSUME JoinsOnce(q) PROVE JoinsOnce(r)
  <2>1. SUFFICES ASSUME NEW i \in 1 .. Len(r), NEW j \in 1 .. Len(r), NEW c \in Talkers,
                        Joins(r[i], c), Joins(r[j], c), i < j
                 PROVE  FALSE
    <3>1. \A i, j \in 1 .. Len(r) : i # j => i < j \/ j < i
      BY <1>1
    <3> QED BY <3>1 DEF JoinsOnce
  <2>2. PICK x \in 1 .. Len(q), y \in 1 .. Len(q) : x < y /\ r[i] = q[x] /\ r[j] = q[y]
    BY <2>1, RemovedPairs
  <2>3. x = y
    BY <1>6, <2>1, <2>2 DEF JoinsOnce
  <2> QED BY <2>2, <2>3
<1>7. ASSUME NEW c \in Talkers, JoinsOnce(q), Joins(q[k], c), NEW i \in 1 .. Len(r)
      PROVE  ~ Joins(r[i], c)
  BY <1>2, <1>7 DEF JoinsOnce
<1>8. ASSUME NEW c \in Talkers, ~ Joins(q[k], c), Known(c, q, p) PROVE Known(c, r, p)
  BY <1>3, <1>8 DEF Known
<1> QED BY <1>1, <1>4, <1>5, <1>6, <1>7, <1>8

\* What a message more brings.
LEMMA MailsAppended ==
  ASSUME NEW q \in Seq(Mails), NEW msg \in Mails, NEW r, r = Append(q, msg), NEW w, NEW p
  PROVE  /\ r \in Seq(Mails) /\ Len(r) = Len(q) + 1
         /\ Fitting(q, w, p) /\ Fit(msg, w, p) => Fitting(r, w, p)
         /\ JoinsOnce(q) /\ (\A c \in Talkers : Joins(msg, c) =>
                               \A i \in 1 .. Len(q) : ~ Joins(q[i], c)) => JoinsOnce(r)
         /\ \A c \in Talkers : Known(c, q, p) \/ Joins(msg, c) => Known(c, r, p)
<1>1. /\ r \in Seq(Mails) /\ Len(r) = Len(q) + 1 /\ Len(q) \in Nat
      /\ \A i \in 1 .. Len(q) : r[i] = q[i]
      /\ r[Len(q) + 1] = msg
  OBVIOUS
<1>2. \A i \in 1 .. Len(r) : i \in 1 .. Len(q) \/ i = Len(r)
  BY <1>1
<1>3. r[Len(r)] = msg /\ Len(r) \in 1 .. Len(r) /\ \A i \in 1 .. Len(q) : i \in 1 .. Len(r)
  BY <1>1
<1>4. ASSUME Fitting(q, w, p), Fit(msg, w, p) PROVE Fitting(r, w, p)
  BY <1>1, <1>2, <1>3, <1>4 DEF Fitting
<1>5. ASSUME JoinsOnce(q),
             \A c \in Talkers : Joins(msg, c) => \A i \in 1 .. Len(q) : ~ Joins(q[i], c)
      PROVE  JoinsOnce(r)
  BY <1>1, <1>2, <1>3, <1>5 DEF JoinsOnce
<1>6. \A c \in Talkers : Known(c, q, p) \/ Joins(msg, c) => Known(c, r, p)
  BY <1>1, <1>3 DEF Known
<1> QED BY <1>1, <1>4, <1>5, <1>6

\* What a client does later does not make a message unfit.
Onward(w, u) ==
  \A c \in Talkers : /\ w[c] \notin {"off", "join"} => u[c] \notin {"off", "join"}
                     /\ w[c] \in {"left", "dead"} => u[c] \in {"left", "dead"}

\* The messages still fit when the clients have gone on.
LEMMA FittingOnward ==
  ASSUME NEW q \in Seq(Mails), NEW w, NEW u, NEW p, Fitting(q, w, p), Onward(w, u)
  PROVE  Fitting(q, u, p)
<1>1. ASSUME NEW i \in 1 .. Len(q) PROVE Fit(q[i], u, p)
  <2>1. Fit(q[i], w, p) /\ q[i] \in Mails
    BY DEF Fitting
  <2>2. q[i].data.from \in Talkers
    BY <2>1 DEF Mails, Datas
  <2> QED BY <2>1, <2>2 DEF Fit, Onward
<1> QED BY <1>1 DEF Fitting

Places == {"off", "join", "write", "type", "type-leave", "send", "send-leave", "left", "dead"}

\* A step of a client that leaves the queue alone.
LEMMA ClientSteps ==
  ASSUME QueueInv, NEW c \in Talkers, NEW x \in Places, NEW v \in Kept, NEW y \in Nat,
         UNCHANGED <<queue, spc, pids, out>>, typed' \in Nat,
         wpc' = [wpc EXCEPT ![c] = x],
         m' = [m EXCEPT ![c] = v],
         msq_id' = [msq_id EXCEPT ![c] = y],
         wpc[c] \notin {"off", "join"} => x \notin {"off", "join"},
         wpc[c] \in {"left", "dead"} => x \in {"left", "dead"},
         x \in {"write", "type", "send"} => wpc[c] \in {"write", "type", "send"} /\ y = msq_id[c],
         Buffered(v, x, c), y <= queue.id
  PROVE  QueueInv'
<1>1. QueueTypes'
  BY DEF QueueInv, QueueTypes, Places
<1>2. /\ \A d \in Talkers \ {c} : wpc'[d] = wpc[d] /\ m'[d] = m[d] /\ msq_id'[d] = msq_id[d]
      /\ wpc'[c] = x /\ m'[c] = v /\ msq_id'[c] = y
  BY DEF QueueInv, QueueTypes
<1>3. Onward(wpc, wpc')
  BY <1>2 DEF Onward
<1>4. Fitting(queue.messages, wpc', pids)
  <2>1. queue.messages \in Seq(Mails) /\ Fitting(queue.messages, wpc, pids)
    BY DEF QueueInv, QueueTypes
  <2> QED BY <1>3, <2>1, FittingOnward
<1>5. Fitting(queue.messages, wpc, pids)' /\ JoinsOnce(queue.messages)'
      /\ (Len(queue.messages) <= QUEUE_MAX)' /\ Forwarding'
  BY <1>4 DEF QueueInv, Fitting, JoinsOnce, Forwarding
<1>6. Buffers'
  <2>1. ASSUME NEW d \in Talkers PROVE Buffered(m'[d], wpc'[d], d)
    <3>1. CASE d = c
      BY <1>2, <3>1
    <3>2. CASE d # c
      BY <1>2, <3>2 DEF QueueInv, Buffers
    <3> QED BY <3>1, <3>2
  <2> QED BY <2>1 DEF Buffers
<1>7. Membership'
  <2>1. IsInjective(pids)'
    BY DEF QueueInv, Membership
  <2>2. \A d \in Talkers : d \in Range(pids) => wpc'[d] \notin {"off", "join"}
    BY <1>3 DEF QueueInv, Membership, Onward
  <2>3. ASSUME spc' \in {"receive", "send"}, NEW d \in Talkers, msq_id'[d] = queue.id,
               wpc'[d] \in {"write", "type", "send"}
        PROVE  Known(d, queue.messages, pids)
    <3>1. msq_id[d] = queue.id /\ wpc[d] \in {"write", "type", "send"}
      BY <1>2, <2>3
    <3> QED BY <2>3, <3>1 DEF QueueInv, Membership
  <2> QED BY <2>1, <2>2, <2>3 DEF Membership, Known
<1>8. Numbers'
  BY <1>2 DEF QueueInv, Numbers
<1> QED BY <1>1, <1>5, <1>6, <1>7, <1>8 DEF QueueInv

\* StartClient, WriteText, WriteLeave, SetType and Kill are such steps.
LEMMA StartClientStays ==
  ASSUME QueueInv, NEW c \in Talkers, Queue!StartClient(c) PROVE QueueInv'
<1>1. PICK v : v = Queue!Message(0, Queue!Command("join", c))
  OBVIOUS
<1>2. v \in Kept
  BY <1>1 DEF Kept, Datas, Queue!Message, Queue!Command
<1>3. queue.id \in Nat /\ queue.id <= queue.id /\ typed \in Nat
  BY DEF QueueInv, QueueTypes
<1>4. Buffered(v, "join", c)
  BY <1>1 DEF Buffered
<1>5. /\ UNCHANGED <<queue, spc, pids, out, typed>> /\ wpc[c] = "off"
      /\ wpc' = [wpc EXCEPT ![c] = "join"]
      /\ m' = [m EXCEPT ![c] = v] /\ msq_id' = [msq_id EXCEPT ![c] = queue.id]
  BY <1>1 DEF Queue!StartClient, Queue!ServerType
<1>6. "join" \in Places
  BY DEF Places
<1> QED BY <1>2, <1>3, <1>4, <1>5, <1>6, ClientSteps

\* The queue that a client uses, when it stays.
LEMMA SameQueue ==
  ASSUME QueueInv, NEW c \in Talkers, msq_id' = msq_id
  PROVE  /\ msq_id[c] \in Nat /\ msq_id[c] <= queue.id
         /\ msq_id' = [msq_id EXCEPT ![c] = msq_id[c]]
<1>1. msq_id \in [Talkers -> Nat]
  BY DEF QueueInv, QueueTypes
<1> QED BY <1>1 DEF QueueInv, Numbers

\* A client's writer types a text, ...
LEMMA WriteTextStays ==
  ASSUME QueueInv, NEW c \in Talkers, Queue!WriteText(c) PROVE QueueInv'
<1>0. typed \in Nat /\ m[c] \in Kept
  BY DEF QueueInv, QueueTypes
<1>1. PICK v : v = [m[c] EXCEPT !.data = Queue!Text(c, typed')]
  OBVIOUS
<1>2. typed' \in Nat
  BY <1>0 DEF Queue!WriteText
<1>3. v \in Kept /\ v.data.kind = "text"
  BY <1>0, <1>1, <1>2 DEF Kept, Datas, Queue!Text
<1>4. Buffered(v, "type", c)
  BY <1>3 DEF Buffered
<1>5. /\ UNCHANGED <<queue, spc, pids, out, msq_id>> /\ wpc[c] = "write"
      /\ wpc' = [wpc EXCEPT ![c] = "type"]
      /\ m' = [m EXCEPT ![c] = v]
  BY <1>1 DEF Queue!WriteText
<1>6. "type" \in Places
  BY DEF Places
<1> QED BY <1>2, <1>3, <1>4, <1>5, <1>6, SameQueue, ClientSteps

\* ... or that it leaves, ...
LEMMA WriteLeaveStays ==
  ASSUME QueueInv, NEW c \in Talkers, Queue!WriteLeave(c) PROVE QueueInv'
<1>0. typed \in Nat /\ m[c] \in Kept
  BY DEF QueueInv, QueueTypes
<1>1. PICK v : v = [m[c] EXCEPT !.data = Queue!Command("leave", c)]
  OBVIOUS
<1>3. v \in Kept /\ v.data.kind = "leave" /\ v.data.from = c
  BY <1>0, <1>1 DEF Kept, Datas, Queue!Command
<1>4. Buffered(v, "type-leave", c)
  BY <1>3 DEF Buffered
<1>5. /\ UNCHANGED <<queue, spc, pids, out, typed, msq_id>> /\ wpc[c] = "write"
      /\ wpc' = [wpc EXCEPT ![c] = "type-leave"]
      /\ m' = [m EXCEPT ![c] = v]
  BY <1>1 DEF Queue!WriteLeave
<1>6. "type-leave" \in Places
  BY DEF Places
<1> QED BY <1>0, <1>3, <1>4, <1>5, <1>6, SameQueue, ClientSteps

\* ... and the message gets its type.
LEMMA SetTypeStays ==
  ASSUME QueueInv, NEW c \in Talkers, Queue!SetType(c) PROVE QueueInv'
<1>0. typed \in Nat /\ m[c] \in Kept /\ Buffered(m[c], wpc[c], c) /\ wpc \in [Talkers -> Places]
  BY DEF QueueInv, QueueTypes, Buffers, Places
<1>1. PICK v : v = [m[c] EXCEPT !.type = 0]
  OBVIOUS
<1>2. PICK x : x = IF wpc[c] = "type" THEN "send" ELSE "send-leave"
  OBVIOUS
<1>3. v \in Kept /\ v.type = 0 /\ v.data = m[c].data
  BY <1>0, <1>1 DEF Kept
<1>5. /\ UNCHANGED <<queue, spc, pids, out, typed, msq_id>> /\ wpc[c] \in {"type", "type-leave"}
      /\ wpc' = [wpc EXCEPT ![c] = x]
      /\ m' = [m EXCEPT ![c] = v]
  BY <1>0, <1>1, <1>2 DEF Queue!SetType, Queue!ServerType
<1>4. Buffered(v, x, c)
  BY <1>0, <1>2, <1>3, <1>5 DEF Buffered, NotOwn
<1>6. x \in Places /\ x \notin {"off", "join"} /\ (x \in {"write", "type", "send"} => wpc[c] = "type")
  BY <1>2 DEF Places
<1> QED BY <1>0, <1>3, <1>4, <1>5, <1>6, SameQueue, ClientSteps

\* A client is killed.
LEMMA KillStays ==
  ASSUME QueueInv, NEW c \in Talkers, Queue!Kill(c) PROVE QueueInv'
<1>0. typed \in Nat
  BY DEF QueueInv, QueueTypes
<1>1. PICK v : v = Queue!Message(0, Queue!NoText)
  OBVIOUS
<1>3. v \in Kept
  BY <1>1 DEF Kept, Queue!Message
<1>4. Buffered(v, "dead", c)
  BY DEF Buffered
<1>5. /\ UNCHANGED <<queue, spc, pids, out, typed, msq_id>>
      /\ wpc' = [wpc EXCEPT ![c] = "dead"]
      /\ m' = [m EXCEPT ![c] = v]
  BY <1>1 DEF Queue!Kill, Queue!ServerType
<1>6. "dead" \in Places
  BY DEF Places
<1> QED BY <1>0, <1>3, <1>4, <1>5, <1>6, SameQueue, ClientSteps

\* A client that sends what it has in its buffer.
LEMMA ClientSendsStays ==
  ASSUME Queue!QueueAssumption, QueueInv, NEW c \in Talkers, NEW next \in Places,
         Queue!ClientSends(c, next),
         UNCHANGED <<spc, pids, out, typed, msq_id, m>>,
         m[c] \in Mails, NotOwn(m[c]), next \notin {"off", "join"},
         wpc[c] \notin {"off", "left", "dead"},
         next \in {"write", "type", "send"} =>
           \/ next = "write" /\ wpc[c] \in {"write", "type", "send"}
           \/ Joins(m[c], c),
         m[c].data.kind = "join" => wpc[c] = "join" /\ m[c].data.from = c /\ m[c].data.text = 0,
         m[c].data.kind = "leave" => next = "left" /\ m[c].data.from = c,
         Buffered(m[c], next, c)
  PROVE  QueueInv'
<1>1. CASE msq_id[c] # queue.id
  <2>1. UNCHANGED <<queue, spc, pids, out, typed, msq_id, m>> /\ wpc' = [wpc EXCEPT ![c] = "dead"]
    BY <1>1 DEF Queue!ClientSends
  <2>2. m[c] \in Kept /\ typed \in Nat /\ m' = [m EXCEPT ![c] = m[c]]
    BY <2>1 DEF QueueInv, QueueTypes
  <2>3. "dead" \in Places /\ Buffered(m[c], "dead", c)
    BY DEF Places, Buffered
  <2> QED BY <2>1, <2>2, <2>3, SameQueue, ClientSteps
<1>2. CASE msq_id[c] = queue.id
  <2> DEFINE q == queue.messages
             r == queue'.messages
  <2>0. /\ queue \in [id : Nat, messages : Seq(Mails)] /\ q \in Seq(Mails)
        /\ wpc \in [Talkers -> Places] /\ Fitting(q, wpc, pids) /\ JoinsOnce(q)
    BY DEF QueueInv, QueueTypes, Places
  <2>1. /\ Len(q) < QUEUE_MAX /\ queue' = [queue EXCEPT !.messages = Append(@, m[c])]
        /\ wpc' = [wpc EXCEPT ![c] = next]
    BY <1>2 DEF Queue!ClientSends, Queue!HasRoom, Queue!Put
  <2>2. r = Append(q, m[c]) /\ queue'.id = queue.id /\ queue' \in [id : Nat, messages : Seq(Mails)]
    <3>1. PICK z : z = Append(q, m[c])
      OBVIOUS
    <3>2. z \in Seq(Mails)
      BY <2>0, <3>1
    <3>3. queue' = [queue EXCEPT !.messages = z]
      BY <2>1, <3>1
    <3> QED BY <2>0, <3>1, <3>2, <3>3
  <2>3. wpc'[c] = next /\ \A d \in Talkers \ {c} : wpc'[d] = wpc[d]
    BY <2>0, <2>1
  <2>4. Onward(wpc, wpc')
    <3>1. wpc[c] \in Places
      BY <2>0
    <3>2. wpc[c] \notin {"left", "dead"} /\ next \notin {"off", "join"}
      OBVIOUS
    <3> QED BY <2>3, <3>2 DEF Onward
  <2>5. QueueTypes'
    BY <2>1, <2>2 DEF QueueInv, QueueTypes, Places
  <2>6. Fit(m[c], wpc', pids)
    <3>1. m[c].data.kind = "join" => c \notin Range(pids)
      BY DEF QueueInv, Membership
    <3>2. m[c].data.kind = "join" => m[c].data.from = c /\ next \notin {"off", "join"}
      OBVIOUS
    <3>3. m[c].data.kind = "leave" => m[c].data.from = c /\ next = "left"
      OBVIOUS
    <3> QED BY <2>3, <3>1, <3>2, <3>3 DEF Fit
  <2>7. \A d \in Talkers : Joins(m[c], d) => \A i \in 1 .. Len(q) : ~ Joins(q[i], d)
    <3>1. SUFFICES ASSUME NEW d \in Talkers, Joins(m[c], d), NEW i \in 1 .. Len(q), Joins(q[i], d)
                   PROVE  FALSE
      OBVIOUS
    <3>2. d = c /\ wpc[c] = "join"
      BY <3>1 DEF Joins
    <3>3. Fit(q[i], wpc, pids)
      BY <2>0 DEF Fitting
    <3> QED BY <3>1, <3>2, <3>3 DEF Joins, Fit
  <2>8. Fitting(q, wpc', pids)
    BY <2>0, <2>4, FittingOnward
  <2>9. /\ Fitting(r, wpc', pids) /\ JoinsOnce(r) /\ Len(r) = Len(q) + 1
        /\ \A d \in Talkers : Known(d, q, pids) \/ Joins(m[c], d) => Known(d, r, pids)
    <3> HIDE DEF q, r
    <3> QED BY <2>0, <2>2, <2>6, <2>7, <2>8, MailsAppended
  <2>10. (Len(queue.messages) <= QUEUE_MAX)' /\ Fitting(queue.messages, wpc, pids)'
         /\ JoinsOnce(queue.messages)'
    <3>1. Len(q) \in Nat /\ QUEUE_MAX \in Nat
      BY <2>0 DEF Queue!QueueAssumption
    <3>2. Len(r) <= QUEUE_MAX
      BY <2>1, <2>9, <3>1
    <3> QED BY <2>9, <3>2 DEF Fitting, JoinsOnce
  <2>11. Forwarding'
    BY DEF QueueInv, Forwarding
  <2>12. Buffers'
    BY <2>3 DEF QueueInv, Buffers
  <2>13. Membership'
    <3>1. IsInjective(pids)'
      BY DEF QueueInv, Membership
    <3>2. \A d \in Talkers : d \in Range(pids) => wpc'[d] \notin {"off", "join"}
      BY <2>4 DEF QueueInv, Membership, Onward
    <3>3. ASSUME spc' \in {"receive", "send"}, NEW d \in Talkers, msq_id'[d] = queue'.id,
                 wpc'[d] \in {"write", "type", "send"}
          PROVE  Known(d, r, pids)
      <4>1. CASE d = c /\ Joins(m[c], c)
        BY <2>9, <4>1
      <4>2. CASE ~ (d = c /\ Joins(m[c], c))
        <5>1. wpc[d] \in {"write", "type", "send"} /\ msq_id[d] = queue.id
          BY <2>2, <2>3, <3>3, <4>2
        <5>2. Known(d, q, pids)
          BY <3>3, <5>1 DEF QueueInv, Membership
        <5> QED BY <2>9, <5>2
      <4> QED BY <4>1, <4>2
    <3>4. pids' = pids
      OBVIOUS
    <3> QED BY <3>1, <3>2, <3>3, <3>4 DEF Membership, Known
  <2>14. Numbers'
    BY <2>2 DEF QueueInv, Numbers
  <2> QED BY <2>5, <2>10, <2>11, <2>12, <2>13, <2>14 DEF QueueInv
<1> QED BY <1>1, <1>2

\* A client sends that it joins, ...
LEMMA SendJoinStays ==
  ASSUME Queue!QueueAssumption, QueueInv, NEW c \in Talkers, Queue!SendJoin(c) PROVE QueueInv'
<1>1. /\ wpc[c] = "join" /\ Queue!ClientSends(c, "write")
      /\ UNCHANGED <<spc, pids, out, typed, msq_id, m>>
  BY DEF Queue!SendJoin
<1>2. m[c] = Queue!Message(0, Queue!Command("join", c))
  BY <1>1 DEF QueueInv, Buffers, Buffered
<1>3. /\ m[c] \in Mails /\ m[c].type = 0 /\ m[c].data.kind = "join" /\ m[c].data.from = c
      /\ m[c].data.text = 0
  BY <1>2 DEF Mails, Datas, Queue!Message, Queue!Command
<1>4. NotOwn(m[c]) /\ Joins(m[c], c) /\ Buffered(m[c], "write", c) /\ "write" \in Places
  BY <1>3 DEF NotOwn, Joins, Buffered, Places
<1> QED BY <1>1, <1>3, <1>4, ClientSendsStays

\* ... and what was typed.
LEMMA SendTextStays ==
  ASSUME Queue!QueueAssumption, QueueInv, NEW c \in Talkers, Queue!SendText(c) PROVE QueueInv'
<1>1. PICK next : next = IF wpc[c] = "send" THEN "write" ELSE "left"
  OBVIOUS
<1>2. /\ wpc[c] \in {"send", "send-leave"} /\ Queue!ClientSends(c, next)
      /\ UNCHANGED <<spc, pids, out, typed, msq_id, m>>
  BY <1>1 DEF Queue!SendText
<1>3. Buffered(m[c], wpc[c], c) /\ m[c] \in Kept
  BY DEF QueueInv, QueueTypes, Buffers
<1>4. /\ m[c].data.kind = "text" \/ m[c].data.kind = "leave"
      /\ m[c].data.kind = "leave" => next = "left" /\ m[c].data.from = c
      /\ NotOwn(m[c])
  BY <1>1, <1>2, <1>3 DEF Buffered
<1>5. m[c] \in Mails
  BY <1>3, <1>4 DEF Kept, Mails, Queue!NoText, Queue!Command
<1>6. /\ next \in Places /\ next \notin {"off", "join"} /\ Buffered(m[c], next, c)
      /\ next \in {"write", "type", "send"} => next = "write" /\ wpc[c] = "send"
  BY <1>1, <1>2 DEF Places, Buffered
<1> QED BY <1>2, <1>4, <1>5, <1>6, ClientSendsStays

\* The reader of a client takes somebody else's text.
LEMMA ReaderStays ==
  ASSUME Queue!QueueAssumption, QueueInv, NEW c \in Talkers, Queue!Reader(c) PROVE QueueInv'
<1> DEFINE q == queue.messages
           r == queue'.messages
<1>0. /\ queue \in [id : Nat, messages : Seq(Mails)] /\ q \in Seq(Mails)
      /\ m \in [Talkers -> Kept] /\ Fitting(q, wpc, pids) /\ JoinsOnce(q)
      /\ Len(q) <= QUEUE_MAX
  BY DEF QueueInv, QueueTypes
<1>1. PICK k : k = Queue!FirstOf(c)
  OBVIOUS
<1>2. /\ UNCHANGED <<spc, pids, out, typed, msq_id, wpc>>
      /\ queue' = [queue EXCEPT !.messages = RemoveAt(@, k)]
      /\ m' = [m EXCEPT ![c] = q[k]]
      /\ wpc[c] \notin {"off", "join", "dead"}
  <2>1. /\ UNCHANGED <<spc, pids, out, typed, msq_id, wpc>>
        /\ Queue!Take(c)
        /\ m' = [m EXCEPT ![c] = q[k]]
        /\ wpc[c] \notin {"off", "join", "dead"}
    BY <1>1 DEF Queue!Reader
  <2>2. queue' = [queue EXCEPT !.messages = RemoveAt(@, k)]
    <3>1. queue' = [queue EXCEPT !.messages = Queue!RemoveAt(@, Queue!FirstOf(c))]
      BY <2>1 DEF Queue!Take
    <3> QED BY <1>1, <3>1, SameInQueue
  <2> QED BY <2>1, <2>2
<1>3. k \in 1 .. Len(q) /\ q[k].type = c
  BY <1>1, FirstIs DEF QueueInv, Queue!Reader
<1>4. r = RemoveAt(q, k) /\ queue'.id = queue.id
  BY <1>0, <1>2
<1>5. /\ r \in Seq(Mails) /\ Len(r) <= Len(q) /\ Fitting(r, wpc, pids) /\ JoinsOnce(r)
      /\ \A d \in Talkers : ~ Joins(q[k], d) /\ Known(d, q, pids) => Known(d, r, pids)
  <2> HIDE DEF q, r
  <2> QED BY <1>0, <1>3, <1>4, MailsRemoved
<1>6. q[k] \in Mails /\ q[k].data.kind = "text" /\ NotOwn(q[k])
  <2>1. c # 0
    BY DEF Queue!QueueAssumption, Queue!ServerType
  <2>2. q[k] \in Mails /\ Fit(q[k], wpc, pids)
    BY <1>0, <1>3 DEF Fitting
  <2> QED BY <1>3, <2>1, <2>2 DEF Fit, NotOwn
<1>7. q[k] \in Kept
  BY <1>6 DEF Mails, Kept
<1>8. QueueTypes'
  <2>1. queue' \in [id : Nat, messages : Seq(Mails)]
    BY <1>0, <1>2, <1>4, <1>5
  <2>2. m' \in [Talkers -> Kept]
    BY <1>0, <1>2, <1>7
  <2> QED BY <1>2, <2>1, <2>2 DEF QueueInv, QueueTypes
<1>9. (Len(queue.messages) <= QUEUE_MAX)' /\ Fitting(queue.messages, wpc, pids)'
      /\ JoinsOnce(queue.messages)'
  <2>1. Len(r) <= QUEUE_MAX
    BY <1>0, <1>5 DEF Queue!QueueAssumption
  <2> QED BY <1>2, <1>5, <2>1 DEF Fitting, JoinsOnce
<1>10. Forwarding'
  BY <1>2 DEF QueueInv, Forwarding
<1>11. Buffers'
  <2>1. ASSUME NEW d \in Talkers PROVE Buffered(m'[d], wpc'[d], d)
    <3>1. CASE d = c
      <4>1. m'[d] = q[k] /\ wpc'[d] = wpc[c] /\ wpc[c] # "join"
        BY <1>0, <1>2, <3>1
      <4> QED BY <1>6, <4>1 DEF Buffered
    <3>2. CASE d # c
      BY <1>0, <1>2, <3>2 DEF QueueInv, Buffers
    <3> QED BY <3>1, <3>2
  <2> QED BY <2>1 DEF Buffers
<1>12. Membership'
  <2>1. \A d \in Talkers : ~ Joins(q[k], d)
    BY <1>6 DEF Joins
  <2>2. \A d \in Talkers : Known(d, q, pids) => Known(d, r, pids)
    BY <1>5, <2>1
  <2>3. IsInjective(pids) /\ \A d \in Talkers : d \in Range(pids) => wpc[d] \notin {"off", "join"}
    BY DEF QueueInv, Membership
  <2>4. ASSUME spc' \in {"receive", "send"}, NEW d \in Talkers, msq_id'[d] = queue'.id,
               wpc'[d] \in {"write", "type", "send"}
        PROVE  Known(d, r, pids)
    <3>1. Known(d, q, pids)
      BY <1>2, <1>4, <2>4 DEF QueueInv, Membership
    <3> QED BY <2>2, <3>1
  <2> QED BY <1>2, <2>3, <2>4 DEF Membership, Known
<1>13. Numbers'
  BY <1>2, <1>4 DEF QueueInv, Numbers
<1> QED BY <1>8, <1>9, <1>10, <1>11, <1>12, <1>13 DEF QueueInv

\* The server makes the queue.
LEMMA StartServerStays ==
  ASSUME Queue!QueueAssumption, QueueInv, Queue!StartServer PROVE QueueInv'
<1>1. /\ queue' = [id |-> queue.id + 1, messages |-> <<>>] /\ spc' = "receive"
      /\ UNCHANGED <<pids, out, typed, msq_id, wpc, m>>
      /\ queue.id \in Nat /\ QUEUE_MAX \in Nat
  BY DEF Queue!StartServer, QueueInv, QueueTypes, Queue!QueueAssumption
<1>2. queue'.messages = <<>> /\ queue'.id = queue.id + 1 /\ \A i \in 1 .. 0 : FALSE
  BY <1>1
<1>3. QueueTypes'
  BY <1>1 DEF QueueInv, QueueTypes
<1>4. (Len(queue.messages) <= QUEUE_MAX)' /\ Fitting(queue.messages, wpc, pids)'
      /\ JoinsOnce(queue.messages)'
  BY <1>1, <1>2 DEF Fitting, JoinsOnce
<1>5. Buffers' /\ Forwarding'
  BY <1>1 DEF QueueInv, Buffers, Forwarding
<1>6. \A d \in Talkers : msq_id[d] \in Nat /\ msq_id[d] <= queue.id
  BY DEF QueueInv, QueueTypes, Numbers
<1>7. \A d \in Talkers : msq_id'[d] < queue'.id
  BY <1>1, <1>2, <1>6
<1>8. Numbers' /\ \A d \in Talkers : msq_id'[d] # queue'.id
  <2>1. \A d \in Talkers : msq_id'[d] \in Nat /\ queue'.id \in Nat
    BY <1>1, <1>2, <1>6
  <2> QED BY <1>7, <2>1 DEF Numbers
<1>9. Membership'
  BY <1>1, <1>8 DEF QueueInv, Membership
<1> QED BY <1>3, <1>4, <1>5, <1>8, <1>9 DEF QueueInv

\* The server takes the message k from the queue, and knows other clients then.
LEMMA ReceiveTakes ==
  ASSUME Queue!QueueAssumption, QueueInv, spc = "receive", spc' \in {"receive", "send"},
         NEW k \in 1 .. Len(queue.messages),
         queue' = [queue EXCEPT !.messages = RemoveAt(@, k)],
         UNCHANGED <<typed, msq_id, wpc, m>>,
         pids' \in Seq(Talkers), IsInjective(pids'),
         out' \in [data : Datas \cup {Queue!NoText}, to : Seq(Talkers)], Forwarding',
         \A c \in Talkers : c \in Range(pids') =>
             \/ c \in Range(pids)
             \/ Joins(queue.messages[k], c),
         \A c \in Talkers : c \in Range(pids) =>
             c \in Range(pids') \/ wpc[c] \in {"left", "dead"},
         \A c \in Talkers : Joins(queue.messages[k], c) => c \in Range(pids')
  PROVE  QueueInv'
<1> DEFINE q == queue.messages
           r == queue'.messages
<1>0. /\ queue \in [id : Nat, messages : Seq(Mails)] /\ q \in Seq(Mails)
      /\ Fitting(q, wpc, pids) /\ JoinsOnce(q) /\ Len(q) <= QUEUE_MAX /\ QUEUE_MAX \in Nat
  BY DEF QueueInv, QueueTypes, Queue!QueueAssumption
<1>1. r = RemoveAt(q, k) /\ queue'.id = queue.id
  BY <1>0
<1>2. /\ r \in Seq(Mails) /\ Len(r) <= Len(q) /\ Fitting(r, wpc, pids) /\ JoinsOnce(r)
      /\ \A d \in Talkers : Joins(q[k], d) => \A i \in 1 .. Len(r) : ~ Joins(r[i], d)
      /\ \A d \in Talkers : ~ Joins(q[k], d) /\ Known(d, q, pids) => Known(d, r, pids)
  <2>1. k \in 1 .. Len(q)
    OBVIOUS
  <2> HIDE DEF q, r
  <2> QED BY <1>0, <1>1, <2>1, MailsRemoved
<1>3. QueueTypes'
  <2>1. queue' \in [id : Nat, messages : Seq(Mails)]
    BY <1>0, <1>1, <1>2
  <2> QED BY <2>1 DEF QueueInv, QueueTypes
<1>4. Fitting(r, wpc, pids')
  <2>1. ASSUME NEW i \in 1 .. Len(r) PROVE Fit(r[i], wpc, pids')
    <3>1. Fit(r[i], wpc, pids) /\ r[i] \in Mails
      BY <1>2 DEF Fitting
    <3>2. r[i].data.kind = "join" => r[i].data.from \notin Range(pids')
      <4>1. SUFFICES ASSUME r[i].data.kind = "join", r[i].data.from \in Range(pids')
                     PROVE  FALSE
        OBVIOUS
      <4>2. r[i].data.from \in Talkers /\ r[i].data.from \notin Range(pids)
        BY <3>1, <4>1 DEF Fit, Mails, Datas
      <4>3. Joins(q[k], r[i].data.from)
        BY <4>1, <4>2
      <4>4. Joins(r[i], r[i].data.from)
        BY <4>1 DEF Joins
      <4> QED BY <1>2, <4>2, <4>3, <4>4
    <3> HIDE DEF r
    <3> QED BY <3>1, <3>2 DEF Fit
  <2> QED BY <2>1 DEF Fitting
<1>5. (Len(queue.messages) <= QUEUE_MAX)' /\ Fitting(queue.messages, wpc, pids)'
      /\ JoinsOnce(queue.messages)'
  <2>1. Len(r) <= QUEUE_MAX
    BY <1>0, <1>2
  <2>2. wpc' = wpc
    OBVIOUS
  <2> QED BY <1>2, <1>4, <2>1, <2>2 DEF Fitting, JoinsOnce
<1>6. Buffers' /\ Numbers'
  BY <1>1 DEF QueueInv, Buffers, Numbers
<1>7. Membership'
  <2>1. \A d \in Talkers : d \in Range(pids') => wpc[d] \notin {"off", "join"}
    <3>1. ASSUME NEW d \in Talkers, Joins(q[k], d) PROVE wpc[d] \notin {"off", "join"}
      <4>1. Fit(q[k], wpc, pids)
        BY <1>0 DEF Fitting
      <4> QED BY <3>1, <4>1 DEF Fit, Joins
    <3> QED BY <3>1 DEF QueueInv, Membership
  <2>2. ASSUME NEW d \in Talkers, msq_id[d] = queue.id, wpc[d] \in {"write", "type", "send"}
        PROVE  Known(d, r, pids')
    <3>1. Known(d, q, pids)
      BY <2>2 DEF QueueInv, Membership
    <3>2. CASE Joins(q[k], d)
      BY <3>2 DEF Known
    <3>3. CASE ~ Joins(q[k], d)
      <4>1. Known(d, r, pids)
        BY <1>2, <3>1, <3>3
      <4> QED BY <2>2, <4>1 DEF Known
    <3> QED BY <3>2, <3>3
  <2> QED BY <1>1, <2>1, <2>2 DEF Membership
<1> QED BY <1>3, <1>5, <1>6, <1>7 DEF QueueInv

\* Whom a text goes to.
LEMMA OthersAre ==
  ASSUME QueueInv, NEW c
  PROVE  /\ Queue!Others(c) \in Seq(Talkers)
         /\ \A i \in 1 .. Len(Queue!Others(c)) : Queue!Others(c)[i] # c
<1>1. PICK ss : ss = [i \in DOMAIN pids |-> IF pids[i] = c THEN <<>> ELSE <<pids[i]>>]
  OBVIOUS
<1>2. pids \in Seq(Talkers)
  BY DEF QueueInv, QueueTypes
<1>3. ss \in Seq(Seq(Talkers \ {c}))
  <2>1. \A i \in DOMAIN pids : pids[i] \in Talkers /\ DOMAIN pids = 1 .. Len(pids)
    BY <1>2
  <2>2. ASSUME NEW i \in DOMAIN pids PROVE ss[i] \in Seq(Talkers \ {c})
    <3>1. pids[i] \in Talkers
      BY <2>1
    <3>2. CASE pids[i] = c
      <4>1. ss[i] = <<>>
        BY <1>1, <3>2
      <4> QED BY <4>1
    <3>3. CASE pids[i] # c
      <4>1. ss[i] = <<pids[i]>> /\ pids[i] \in Talkers \ {c}
        BY <1>1, <3>1, <3>3
      <4> QED BY <4>1
    <3> QED BY <3>2, <3>3
  <2>3. ss \in [1 .. Len(pids) -> Seq(Talkers \ {c})] /\ Len(pids) \in Nat
    BY <1>1, <1>2, <2>1, <2>2
  <2> QED BY <2>3
<1>4. FlattenSeq(ss) \in Seq(Talkers \ {c})
  BY <1>3, FlattenType
<1>5. Queue!Others(c) = FlattenSeq(ss)
  BY <1>1, SameInQueue DEF Queue!Others
<1> QED BY <1>4, <1>5

\* The server receives a message and does what it says.
LEMMA ReceiveStays ==
  ASSUME Queue!QueueAssumption, QueueInv, Queue!Receive PROVE QueueInv'
<1>1. PICK k : k = Queue!FirstOf(0)
  OBVIOUS
<1>2. k \in 1 .. Len(queue.messages) /\ queue.messages[k].type = 0
  BY <1>1, FirstIs DEF QueueInv, Queue!Receive, Queue!ServerType
<1>3. PICK msg : msg = queue.messages[k]
  OBVIOUS
<1>4. msg \in Mails /\ msg.data.from \in Talkers /\ Fit(msg, wpc, pids)
  <2>1. queue.messages \in Seq(Mails) /\ Fitting(queue.messages, wpc, pids)
    BY DEF QueueInv, QueueTypes
  <2>2. msg \in Mails /\ Fit(msg, wpc, pids)
    BY <1>2, <1>3, <2>1 DEF Fitting
  <2> QED BY <2>2 DEF Mails, Datas
<1>5. /\ spc = "receive" /\ UNCHANGED <<typed, msq_id, wpc, m>>
      /\ IF spc' = "done" THEN queue' = [id |-> queue.id + 1, messages |-> <<>>]
                          ELSE queue' = [queue EXCEPT !.messages = RemoveAt(@, k)]
  BY <1>1, SameInQueue DEF Queue!Receive, Queue!Take, Queue!ServerType
<1>6. /\ pids \in Seq(Talkers) /\ IsInjective(pids)
      /\ out \in [data : Datas \cup {Queue!NoText}, to : Seq(Talkers)]
  BY DEF QueueInv, QueueTypes, Membership
<1>7. CASE msg.data.kind = "join" /\ Queue!Join(msg.data.from)
  <2>1. PICK c : c = msg.data.from
    OBVIOUS
  <2>2. pids' = Append(pids, c) /\ spc' = "receive" /\ out' = out /\ c \in Talkers
    BY <1>4, <1>5, <1>7, <2>1 DEF Queue!Join
  <2>3. c \notin Range(pids)
    BY <1>4, <1>7, <2>1 DEF Fit
  <2>4. pids' \in Seq(Talkers) /\ Len(pids') = Len(pids) + 1 /\ Len(pids) \in Nat
        /\ pids'[Len(pids) + 1] = c /\ \A i \in 1 .. Len(pids) : pids'[i] = pids[i]
    BY <1>6, <2>2
  <2>5. \A x : x \in Range(pids) <=> \E i \in 1 .. Len(pids) : pids[i] = x
    BY <1>6 DEF Range
  <2>6. \A x : x \in Range(pids') <=> \E i \in 1 .. Len(pids') : pids'[i] = x
    BY <2>4 DEF Range
  <2>7. \A i \in 1 .. Len(pids') : i \in 1 .. Len(pids) \/ i = Len(pids) + 1
    BY <2>4
  <2>8. \A x : x \in Range(pids') <=> x \in Range(pids) \/ x = c
    <3>1. ASSUME NEW x, x \in Range(pids') PROVE x \in Range(pids) \/ x = c
      BY <2>4, <2>5, <2>6, <2>7, <3>1
    <3>2. ASSUME NEW x, x \in Range(pids) PROVE x \in Range(pids')
      BY <2>4, <2>5, <2>6, <3>2
    <3>3. c \in Range(pids')
      BY <2>4, <2>6
    <3> QED BY <3>1, <3>2, <3>3
  <2>9. IsInjective(pids')
    <3>1. \A i, j \in 1 .. Len(pids) : pids[i] = pids[j] => i = j
      BY <1>6 DEF IsInjective
    <3>2. \A i \in 1 .. Len(pids) : pids[i] # c
      BY <2>3, <2>5
    <3>3. \A i, j \in 1 .. Len(pids') : pids'[i] = pids'[j] => i = j
      BY <2>4, <2>7, <3>1, <3>2
    <3>4. DOMAIN pids' = 1 .. Len(pids')
      BY <2>4
    <3> QED BY <3>3, <3>4 DEF IsInjective
  <2>10. Forwarding' /\ \A d \in Talkers : Joins(queue.messages[k], d) <=> d = c
    BY <1>3, <1>7, <2>1, <2>2 DEF Forwarding, Joins
  <2>11. queue' = [queue EXCEPT !.messages = RemoveAt(@, k)]
    BY <1>5, <2>2
  <2>12. /\ \A d \in Talkers : d \in Range(pids') =>
               d \in Range(pids) \/ Joins(queue.messages[k], d)
         /\ \A d \in Talkers : d \in Range(pids) =>
               d \in Range(pids') \/ wpc[d] \in {"left", "dead"}
         /\ \A d \in Talkers : Joins(queue.messages[k], d) => d \in Range(pids')
    BY <2>8, <2>10
  <2> QED BY <1>2, <1>5, <1>6, <2>2, <2>4, <2>9, <2>10, <2>11, <2>12, ReceiveTakes
<1>8. CASE msg.data.kind = "leave" /\ Queue!Leave(msg.data.from)
  <2>1. PICK c : c = msg.data.from
    OBVIOUS
  <2>2. /\ pids' = RemoveFirst(pids, c) /\ out' = out /\ c \in Talkers
        /\ spc' = IF pids' = <<>> THEN "done" ELSE "receive"
        /\ wpc[c] \in {"left", "dead"}
    BY <1>4, <1>8, <2>1, SameInQueue DEF Queue!Leave, Queue!Without, Fit
  <2>3. pids' \in Seq(Talkers) /\ IsInjective(pids') /\ Range(pids') = Range(pids) \ {c}
    BY <1>6, <2>2, RemoveFirstIs
  <2>4. Forwarding' /\ \A d \in Talkers : ~ Joins(queue.messages[k], d)
    BY <1>3, <1>8, <2>2 DEF Forwarding, Joins
  <2>5. CASE spc' = "done"
    <3>1. /\ queue' = [id |-> queue.id + 1, messages |-> <<>>]
          /\ queue.id \in Nat /\ QUEUE_MAX \in Nat
      BY <1>5, <2>5 DEF QueueInv, QueueTypes, Queue!QueueAssumption
    <3>2. queue'.messages = <<>> /\ queue'.id = queue.id + 1 /\ \A i \in 1 .. 0 : FALSE
      BY <3>1
    <3>3. QueueTypes'
      BY <1>5, <1>6, <2>2, <2>3, <2>5, <3>1 DEF QueueInv, QueueTypes
    <3>4. (Len(queue.messages) <= QUEUE_MAX)' /\ Fitting(queue.messages, wpc, pids)'
          /\ JoinsOnce(queue.messages)'
      BY <3>1, <3>2 DEF Fitting, JoinsOnce
    <3>5. Buffers' /\ Numbers'
      <4>1. \A d \in Talkers : msq_id[d] \in Nat /\ msq_id[d] <= queue.id
        BY DEF QueueInv, QueueTypes, Numbers
      <4>2. \A d \in Talkers : msq_id'[d] <= queue'.id
        BY <1>5, <3>1, <3>2, <4>1
      <4> QED BY <1>5, <4>2 DEF QueueInv, Buffers, Numbers
    <3>6. Membership'
      BY <1>5, <2>3, <2>5 DEF QueueInv, Membership
    <3> QED BY <2>4, <3>3, <3>4, <3>5, <3>6 DEF QueueInv
  <2>6. CASE spc' # "done"
    <3>1. spc' = "receive" /\ queue' = [queue EXCEPT !.messages = RemoveAt(@, k)]
      BY <1>5, <2>2, <2>6
    <3> QED BY <1>2, <1>5, <1>6, <2>2, <2>3, <2>4, <3>1, ReceiveTakes
  <2> QED BY <2>5, <2>6
<1>9. CASE msg.data.kind = "text" /\ Queue!SendOn(msg.data)
  <2>1. PICK data : data = msg.data
    OBVIOUS
  <2>2. PICK o : o = Queue!Others(data.from)
    OBVIOUS
  <2>3. o \in Seq(Talkers) /\ \A i \in 1 .. Len(o) : o[i] # data.from
    BY <2>2, OthersAre
  <2>4. /\ out' = IF o = <<>> THEN out ELSE [data |-> data, to |-> o]
        /\ spc' = IF o = <<>> THEN "receive" ELSE "send"
        /\ pids' = pids
    BY <1>9, <2>1, <2>2 DEF Queue!SendOn
  <2>5. data \in Datas /\ data.kind = "text"
    BY <1>4, <1>9, <2>1 DEF Mails
  <2>6. out' \in [data : Datas \cup {Queue!NoText}, to : Seq(Talkers)]
    BY <1>6, <2>3, <2>4, <2>5
  <2>7. Forwarding'
    <3>1. CASE o = <<>>
      BY <2>4, <3>1 DEF Forwarding
    <3>2. CASE o # <<>>
      <4>1. out'.to = o /\ out'.data = data
        BY <2>4, <3>2
      <4> QED BY <2>3, <2>5, <3>2, <4>1 DEF Forwarding, Forwards
    <3> QED BY <3>1, <3>2
  <2>8. \A d \in Talkers : ~ Joins(queue.messages[k], d)
    BY <1>3, <1>9 DEF Joins
  <2>9. /\ spc' \in {"receive", "send"} /\ pids' \in Seq(Talkers) /\ IsInjective(pids')
        /\ queue' = [queue EXCEPT !.messages = RemoveAt(@, k)]
    BY <1>5, <1>6, <2>4
  <2>10. Range(pids') = Range(pids)
    BY <2>4
  <2> QED BY <1>2, <1>5, <2>6, <2>7, <2>8, <2>9, <2>10, ReceiveTakes
<1> QED BY <1>1, <1>3, <1>7, <1>8, <1>9 DEF Queue!Receive, Queue!ServerType

\* The server sends a text on to one of its recipients.
LEMMA SendStays ==
  ASSUME Queue!QueueAssumption, QueueInv, Queue!Send PROVE QueueInv'
<1> DEFINE q == queue.messages
           r == queue'.messages
           msg == Queue!Message(Head(out.to), out.data)
<1>0. /\ queue \in [id : Nat, messages : Seq(Mails)] /\ q \in Seq(Mails)
      /\ Fitting(q, wpc, pids) /\ JoinsOnce(q) /\ QUEUE_MAX \in Nat
      /\ out \in [data : Datas \cup {Queue!NoText}, to : Seq(Talkers)]
      /\ spc = "send" /\ Forwards(out)
  BY DEF QueueInv, QueueTypes, Queue!QueueAssumption, Forwarding, Queue!Send
<1>1. /\ Len(q) < QUEUE_MAX /\ queue' = [queue EXCEPT !.messages = Append(@, msg)]
      /\ out' = IF Len(out.to) = 1 THEN [data |-> Queue!NoText, to |-> <<>>]
                                   ELSE [out EXCEPT !.to = Tail(@)]
      /\ spc' = IF Len(out.to) = 1 THEN "receive" ELSE "send"
      /\ UNCHANGED <<pids, typed, msq_id, wpc, m>>
  BY DEF Queue!Send, Queue!HasRoom, Queue!Put
<1>2. /\ out.to \in Seq(Talkers) /\ out.to # <<>> /\ Head(out.to) = out.to[1]
      /\ 1 \in 1 .. Len(out.to) /\ out.to[1] \in Talkers /\ Len(out.to) \in Nat
  BY <1>0 DEF Forwards
<1>3. out.data \in Datas /\ out.data.kind = "text" /\ out.to[1] # out.data.from
  <2>1. out.data.kind = "text" /\ out.to[1] # out.data.from
    BY <1>0, <1>2 DEF Forwards
  <2> QED BY <1>0, <2>1 DEF Queue!NoText, Queue!Command
<1>4. msg \in Mails /\ Fit(msg, wpc, pids) /\ \A c \in Talkers : ~ Joins(msg, c)
  BY <1>2, <1>3 DEF Mails, Fit, NotOwn, Joins, Queue!Message
<1>5. r = Append(q, msg) /\ queue'.id = queue.id
  <2>1. PICK z : z = Append(q, msg)
    OBVIOUS
  <2>2. queue' = [queue EXCEPT !.messages = z]
    BY <1>1, <2>1
  <2> QED BY <1>0, <2>1, <2>2
<1>6. /\ r \in Seq(Mails) /\ Len(r) = Len(q) + 1 /\ Fitting(r, wpc, pids) /\ JoinsOnce(r)
      /\ \A c \in Talkers : Known(c, q, pids) => Known(c, r, pids)
  <2> HIDE DEF q, r, msg
  <2> QED BY <1>0, <1>4, <1>5, MailsAppended
<1>7. /\ out' \in [data : Datas \cup {Queue!NoText}, to : Seq(Talkers)]
      /\ spc' = "send" => Forwards(out')
  <2>1. CASE Len(out.to) = 1
    <3>1. out' = [data |-> Queue!NoText, to |-> <<>>] /\ spc' = "receive" /\ <<>> \in Seq(Talkers)
      BY <1>1, <2>1
    <3> QED BY <3>1
  <2>2. CASE Len(out.to) # 1
    <3>1. PICK o : o = Tail(out.to)
      OBVIOUS
    <3>2. out' = [out EXCEPT !.to = o]
      BY <1>1, <2>2, <3>1
    <3>3. /\ o \in Seq(Talkers) /\ Len(o) = Len(out.to) - 1 /\ Len(o) # 0
          /\ \A i \in 1 .. Len(o) : o[i] = out.to[i+1] /\ i + 1 \in 1 .. Len(out.to)
      BY <1>2, <2>2, <3>1
    <3>7. out \in [data : Datas \cup {Queue!NoText}, to : Seq(Talkers)]
      BY <1>0
    <3>4. out'.to = o /\ out'.data = out.data /\ o # <<>>
      <4>1. out'.to = o /\ out'.data = out.data
        BY <3>2, <3>7
      <4>2. o # <<>>
        <5>1. Len(o) # 0
          BY <3>3
        <5> QED BY ONLY <5>1
      <4> QED BY <4>1, <4>2
    <3>5. \A i \in 1 .. Len(o) : o[i] # out.data.from
      BY <1>0, <3>3 DEF Forwards
    <3>6. Forwards(out')
      BY <1>3, <3>4, <3>5 DEF Forwards
    <3> QED BY <1>0, <3>2, <3>3, <3>6
  <2> QED BY <2>1, <2>2
<1>8. QueueTypes'
  <2>1. queue' \in [id : Nat, messages : Seq(Mails)]
    <3>1. queue' = [queue EXCEPT !.messages = r]
      BY <1>1, <1>5
    <3> HIDE DEF r
    <3> QED BY <1>0, <1>6, <3>1
  <2>2. spc' \in {"receive", "send"}
    BY <1>1
  <2> QED BY <1>1, <1>7, <2>1, <2>2 DEF QueueInv, QueueTypes
<1>9. (Len(queue.messages) <= QUEUE_MAX)' /\ Fitting(queue.messages, wpc, pids)'
      /\ JoinsOnce(queue.messages)'
  <2>1. Len(q) \in Nat
    BY <1>0
  <2>2. Len(r) <= QUEUE_MAX
    BY <1>0, <1>1, <1>6, <2>1
  <2> QED BY <1>1, <1>6, <2>2 DEF Fitting, JoinsOnce
<1>10. Buffers' /\ Numbers' /\ Forwarding'
  BY <1>1, <1>5, <1>7 DEF QueueInv, Buffers, Numbers, Forwarding
<1>11. Membership'
  <2>1. IsInjective(pids) /\ \A d \in Talkers : d \in Range(pids) => wpc[d] \notin {"off", "join"}
    BY DEF QueueInv, Membership
  <2>2. ASSUME NEW d \in Talkers, msq_id[d] = queue.id, wpc[d] \in {"write", "type", "send"}
        PROVE  Known(d, r, pids)
    <3>1. Known(d, q, pids)
      BY <1>0, <2>2 DEF QueueInv, Membership
    <3> QED BY <1>6, <3>1
  <2> QED BY <1>1, <1>5, <2>1, <2>2 DEF Membership, Known
<1> QED BY <1>8, <1>9, <1>10, <1>11 DEF QueueInv

\* The invariant is inductive ...
LEMMA QueueStays ==
  ASSUME Queue!QueueAssumption, QueueInv, QueueNext \/ UNCHANGED Queue!mqVars PROVE QueueInv'
<1>1. CASE Queue!StartServer
  BY <1>1, StartServerStays
<1>2. CASE Queue!Server
  BY <1>2, ReceiveStays, SendStays DEF Queue!Server
<1>3. ASSUME NEW c \in Talkers, Queue!Client(c) \/ Queue!Kill(c) PROVE QueueInv'
  <2>1. CASE Queue!StartClient(c)
    BY <2>1, StartClientStays
  <2>2. CASE Queue!SendJoin(c)
    BY <2>2, SendJoinStays
  <2>3. CASE Queue!Writer(c)
    BY <2>3, WriteTextStays, WriteLeaveStays, SetTypeStays, SendTextStays DEF Queue!Writer
  <2>4. CASE Queue!Reader(c)
    BY <2>4, ReaderStays
  <2>5. CASE Queue!Kill(c)
    BY <2>5, KillStays
  <2> QED BY <1>3, <2>1, <2>2, <2>3, <2>4, <2>5 DEF Queue!Client
<1>4. CASE UNCHANGED Queue!mqVars
  BY <1>4 DEF Queue!mqVars, QueueInv, QueueTypes, Fitting, JoinsOnce, Buffers, Forwarding,
              Membership, Numbers
<1> QED BY <1>1, <1>2, <1>3, <1>4 DEF QueueNext

\* ... and implies what the chat promises.
LEMMA QueueHandsOver ==
  ASSUME QueueInv PROVE Queue!TypeOK /\ Queue!NotBack /\ Queue!MembersExact
<1> DEFINE q == queue.messages
<1>0. q \in Seq(Mails) /\ Fitting(q, wpc, pids) /\ DOMAIN q = 1 .. Len(q)
  <2>1. q \in Seq(Mails) /\ Fitting(q, wpc, pids)
    BY DEF QueueInv, QueueTypes
  <2> QED BY <2>1
<1>1. \A i \in DOMAIN q : q[i].type \in Talkers \cup {0} /\ Fit(q[i], wpc, pids) /\ q[i] \in Mails
  <2>1. SUFFICES ASSUME NEW i \in DOMAIN q
                 PROVE  q[i].type \in Talkers \cup {0} /\ Fit(q[i], wpc, pids) /\ q[i] \in Mails
    OBVIOUS
  <2>2. q[i] \in Mails
    BY <1>0
  <2>3. Fit(q[i], wpc, pids)
    BY <1>0 DEF Fitting
  <2> QED BY <2>2, <2>3 DEF Mails
<1>2. Queue!TypeOK
  BY <1>1 DEF QueueInv, QueueTypes, Forwarding, Forwards, Queue!TypeOK, Queue!ServerType
<1>3. Queue!NotBack
  BY <1>1 DEF Queue!NotBack, Queue!ServerType, Fit, NotOwn
<1>4. \A c \in Talkers : Queue!JoinPending(c) <=> \E i \in 1 .. Len(q) : Joins(q[i], c)
  <2>1. SUFFICES ASSUME NEW c \in Talkers
                 PROVE  Queue!JoinPending(c) <=> \E i \in 1 .. Len(q) : Joins(q[i], c)
    OBVIOUS
  <2>2. PICK msg : msg = Queue!Message(0, Queue!Command("join", c))
    OBVIOUS
  <2>3. Queue!JoinPending(c) <=> \E i \in 1 .. Len(q) : q[i] = msg
    BY <1>0, <2>2 DEF Queue!JoinPending, Queue!Range, Queue!ServerType
  <2>4. ASSUME NEW i \in 1 .. Len(q) PROVE Joins(q[i], c) <=> q[i] = msg
    <3>1. CASE Joins(q[i], c)
      <4>1. q[i].data.kind = "join" /\ q[i].data.from = c /\ q[i].data.text = 0 /\ q[i].type = 0
        BY <1>0, <1>1, <3>1 DEF Joins, Fit, NotOwn
      <4>2. q[i] \in Mails /\ q[i].data \in Datas
        BY <1>0, <1>1 DEF Mails
      <4>3. q[i].data = Queue!Command("join", c)
        BY <4>1, <4>2 DEF Datas, Queue!Command
      <4> QED BY <2>2, <3>1, <4>1, <4>2, <4>3 DEF Mails, Queue!Message
    <3>2. CASE q[i] = msg
      BY <2>2, <3>2 DEF Joins, Queue!Message, Queue!Command
    <3> QED BY <3>1, <3>2
  <2> QED BY <2>3, <2>4
<1>5. Queue!MembersExact
  <2>1. /\ IsInjective(pids) /\ pids \in Seq(Talkers)
        /\ \A c \in Talkers : c \in Range(pids) => wpc[c] \notin {"off", "join"}
        /\ spc \in {"receive", "send"} =>
             \A c \in Talkers : msq_id[c] = queue.id /\ wpc[c] \in {"write", "type", "send"}
                                => Known(c, q, pids)
    BY DEF QueueInv, QueueTypes, Membership
  <2>2. \A c : c \in Range(pids) => c \in Talkers
    BY <2>1 DEF Range
  <2>3. Queue!IsInjective(pids) /\ Queue!Range(pids) = Range(pids)
    BY <2>1, SameInQueue
  <2>4. \A c \in Range(pids) : ~ Queue!JoinPending(c)
    BY <1>0, <1>1, <1>4, <2>2 DEF Joins, Fit
  <2>5. spc \in {"receive", "send"} =>
          \A c \in Talkers : msq_id[c] = queue.id /\ wpc[c] \in {"write", "type", "send"}
                             => c \in Range(pids) \/ Queue!JoinPending(c)
    BY <1>4, <2>1 DEF Known
  <2> QED BY <2>1, <2>2, <2>3, <2>4, <2>5 DEF Queue!MembersExact
<1> QED BY <1>2, <1>3, <1>5

-----------------------------------------------------------------------------
(* 03-Echo+FIFO+Sem and 05-signal+groupchat.                                 *)

FifoNext == Fifo!Server \/ Fifo!ClientSteps \/ \E c \in Members : Fifo!Kill(c)

Words == [from : Members, group : GROUPS, text : Nat]
Relays == [at : {"open", "write"}, left : SUBSET Members, batch : Seq(Words)]

FifoTypes ==
  /\ variant \in {"chat", "group"}
  /\ running \subseteq Members /\ writing \subseteq running /\ deaf \subseteq running
  /\ choice \in [Members -> Fifo!Groups]
  /\ typed \in Nat
  /\ ffo \in [Fifo!Groups -> Seq(Words)]
  /\ cpipe \in [Members -> Seq(Words)]
  /\ got \in [Members -> Seq(Seq(Words))]
  /\ process \in [Fifo!Groups -> SUBSET (Members \cup {0})]
  /\ revents \subseteq Fifo!Groups
  /\ relay \in {Fifo!Idle, Fifo!Down} \cup Relays
  /\ wfds \in 0 .. OPEN_MAX
  /\ files \in [Members -> 1 .. OPEN_MAX]

\* The texts of a FIFO are of its group and stand in the order they were typed, the latest
\* of all at the end.
Typed(q, g, n) ==
  /\ \A i \in 1 .. Len(q) : q[i].group = g /\ q[i].text <= n
  /\ \A i, j \in 1 .. Len(q) : i < j => q[i].text < q[j].text
Fifos == \A g \in Fifo!Groups : Typed(ffo[g], g, typed)

\* The server writes one text at a time, to clients it has heard of in its group and other
\* than its author; what is in the FIFO of the group was typed later.
Relaying(r, p, q, n, G) ==
  r.at \in {"open", "write"} =>
    /\ r.left # {}
    /\ Len(r.batch) <= 1
    /\ \A b \in 1 .. Len(r.batch) :
         LET w == r.batch[b]
         IN  /\ w.group \in G /\ w.from \notin r.left /\ r.left \subseteq p[w.group]
             /\ w.text <= n
             /\ \A j \in 1 .. Len(q[w.group]) : w.text < q[w.group][j].text

\* What reaches client c, and is it next to what it is still to get.
Proper(ss, c, r, p, q, n, G) ==
  /\ \A i \in 1 .. Len(ss) :
       /\ ss[i].group \in G /\ c # ss[i].from /\ c \in p[ss[i].group] /\ ss[i].text <= n
       /\ \A j \in 1 .. Len(q[ss[i].group]) : ss[i].text < q[ss[i].group][j].text
       /\ r.at \in {"open", "write"} /\ c \in r.left =>
            \A b \in 1 .. Len(r.batch) :
              r.batch[b].group = ss[i].group => ss[i].text < r.batch[b].text
  /\ \A i, j \in 1 .. Len(ss) : i < j /\ ss[i].group = ss[j].group => ss[i].text < ss[j].text

FifoInv ==
  /\ FifoTypes
  /\ Fifos
  /\ Relaying(relay, process, ffo, typed, Fifo!Groups)
  /\ \A c \in Members : Proper(Fifo!Reaching(c), c, relay, process, ffo, typed, Fifo!Groups)

\* The operators of the sequences are those of the program's module, too.
LEMMA SameInFifo == ASSUME NEW ss PROVE Fifo!FlattenSeq(ss) = FlattenSeq(ss)
  BY DEF Fifo!FlattenSeq, FlattenSeq

\* What has reached a member, as one sequence.
LEMMA ReachingIs ==
  ASSUME FifoTypes, NEW c \in Members
  PROVE  /\ FlattenSeq(got[c]) \in Seq(Words) /\ cpipe[c] \in Seq(Words)
         /\ Fifo!Reaching(c) = FlattenSeq(got[c]) \o cpipe[c]
         /\ Fifo!Reaching(c) \in Seq(Words)
<1>1. got[c] \in Seq(Seq(Words)) /\ cpipe[c] \in Seq(Words)
  BY DEF FifoTypes
<1>2. FlattenSeq(got[c]) \in Seq(Words)
  BY <1>1, FlattenType
<1>3. Fifo!Reaching(c) = FlattenSeq(got[c]) \o cpipe[c]
  BY SameInFifo DEF Fifo!Reaching
<1>4. FlattenSeq(got[c]) \o cpipe[c] \in Seq(Words)
  BY <1>1, <1>2
<1> QED BY <1>1, <1>2, <1>3, <1>4

\* The program starts so.
LEMMA FifoInit == ASSUME Fifo!ChatAssumption, Fifo!Init PROVE FifoInv
<1>1. 0 \in Fifo!Groups /\ Fifo!Groups \subseteq GROUPS
  BY DEF Fifo!ChatAssumption, Fifo!Init, Fifo!Groups
<1>2. FifoTypes
  <2>1. OPEN_MAX \in Nat /\ 1 \in 1 .. OPEN_MAX /\ 0 \in 0 .. OPEN_MAX
    BY DEF Fifo!ChatAssumption
  <2> QED BY <1>1, <2>1 DEF Fifo!Init, FifoTypes
<1>3. \A i \in 1 .. Len(<<>>) : FALSE
  OBVIOUS
<1>4. Fifos
  BY <1>3 DEF Fifo!Init, Fifos, Typed
<1>5. Relaying(relay, process, ffo, typed, Fifo!Groups)
  BY DEF Fifo!Init, Fifo!Idle, Relaying
<1>6. ASSUME NEW c \in Members
      PROVE  Proper(Fifo!Reaching(c), c, relay, process, ffo, typed, Fifo!Groups)
  <2>1. got[c] = <<>> /\ cpipe[c] = <<>>
    BY DEF Fifo!Init
  <2>2. FlattenSeq(<<>>) = <<>>
    BY DEF FlattenSeq
  <2>3. Fifo!Reaching(c) = <<>>
    <3>1. Fifo!Reaching(c) = FlattenSeq(got[c]) \o cpipe[c]
      BY <1>2, ReachingIs
    <3>2. Fifo!Reaching(c) = <<>> \o <<>>
      BY <2>1, <2>2, <3>1
    <3>3. <<>> \o <<>> = <<>>
      OBVIOUS
    <3> QED BY <3>2, <3>3
  <2> QED BY <1>3, <2>3 DEF Proper
<1> QED BY <1>2, <1>4, <1>5, <1>6 DEF FifoInv

\* When nothing but the types is at stake.
LEMMA FifoFrame ==
  ASSUME FifoInv, FifoTypes', UNCHANGED <<variant, relay, process, ffo, typed>>,
         \A c \in Members : Fifo!Reaching(c)' = Fifo!Reaching(c)
  PROVE  FifoInv'
<1>1. Fifo!Groups' = Fifo!Groups
  BY DEF Fifo!Groups
<1>2. Fifos' /\ Relaying(relay, process, ffo, typed, Fifo!Groups)'
  BY <1>1 DEF FifoInv, Fifos, Relaying
<1>3. ASSUME NEW c \in Members
      PROVE  Proper(Fifo!Reaching(c)', c, relay', process', ffo', typed', Fifo!Groups')
  BY <1>1 DEF FifoInv
<1> QED BY <1>2, <1>3 DEF FifoInv, Proper

\* The recipients become fewer.
Narrower(r, u) ==
  u.at \in {"open", "write"} =>
    r.at \in {"open", "write"} /\ u.left # {} /\ u.left \subseteq r.left /\ u.batch = r.batch

\* A relay of less is right where one of more was.
LEMMA Narrows ==
  ASSUME NEW r, NEW u, Narrower(r, u), NEW p, NEW q, NEW n, NEW G
  PROVE  /\ Relaying(r, p, q, n, G) => Relaying(u, p, q, n, G)
         /\ \A ss, c : Proper(ss, c, r, p, q, n, G) => Proper(ss, c, u, p, q, n, G)
<1>1. ASSUME Relaying(r, p, q, n, G) PROVE Relaying(u, p, q, n, G)
  BY <1>1 DEF Relaying, Narrower
<1>2. ASSUME NEW ss, NEW c, Proper(ss, c, r, p, q, n, G) PROVE Proper(ss, c, u, p, q, n, G)
  <2>1. ASSUME NEW i \in 1 .. Len(ss), u.at \in {"open", "write"}, c \in u.left,
               NEW b \in 1 .. Len(u.batch), u.batch[b].group = ss[i].group
        PROVE  ss[i].text < u.batch[b].text
    <3>1. r.at \in {"open", "write"} /\ c \in r.left /\ u.batch = r.batch
      BY <2>1 DEF Narrower
    <3> QED BY <1>2, <2>1, <3>1 DEF Proper
  <2> QED BY <1>2, <2>1 DEF Proper
<1> QED BY <1>1, <1>2

\* A FIFO is emptied.
LEMMA Empties ==
  ASSUME NEW G, NEW q \in [G -> Seq(Words)], NEW g \in G, NEW u, u = [q EXCEPT ![g] = <<>>],
         NEW r, NEW p, NEW n
  PROVE  /\ (\A z \in G : Typed(q[z], z, n)) => \A z \in G : Typed(u[z], z, n)
         /\ Relaying(r, p, q, n, G) => Relaying(r, p, u, n, G)
         /\ \A ss, c : Proper(ss, c, r, p, q, n, G) => Proper(ss, c, r, p, u, n, G)
<1>1. /\ \A z \in G : z # g => u[z] = q[z]
      /\ u[g] = <<>> /\ \A i \in 1 .. Len(u[g]) : FALSE
  OBVIOUS
<1>2. ASSUME \A z \in G : Typed(q[z], z, n), NEW z \in G PROVE Typed(u[z], z, n)
  BY <1>1, <1>2 DEF Typed
<1>3. ASSUME Relaying(r, p, q, n, G) PROVE Relaying(r, p, u, n, G)
  <2>1. ASSUME r.at \in {"open", "write"}, NEW b \in 1 .. Len(r.batch),
               NEW j \in 1 .. Len(u[r.batch[b].group])
        PROVE  r.batch[b].text < u[r.batch[b].group][j].text
    <3>1. r.batch[b].group \in G
      BY <1>3, <2>1 DEF Relaying
    <3>2. u[r.batch[b].group] = q[r.batch[b].group]
      BY <1>1, <2>1, <3>1
    <3> QED BY <1>3, <2>1, <3>2 DEF Relaying
  <2> QED BY <1>3, <2>1 DEF Relaying
<1>4. ASSUME NEW ss, NEW c, Proper(ss, c, r, p, q, n, G) PROVE Proper(ss, c, r, p, u, n, G)
  <2>1. ASSUME NEW i \in 1 .. Len(ss), NEW j \in 1 .. Len(u[ss[i].group])
        PROVE  ss[i].text < u[ss[i].group][j].text
    <3>1. ss[i].group \in G
      BY <1>4, <2>1 DEF Proper
    <3>2. u[ss[i].group] = q[ss[i].group]
      BY <1>1, <2>1, <3>1
    <3> QED BY <1>4, <2>1, <3>2 DEF Proper
  <2> QED BY <1>4, <2>1 DEF Proper
<1> QED BY <1>2, <1>3, <1>4

\* A user types a text.
LEMMA Types ==
  ASSUME NEW G, NEW q \in [G -> Seq(Words)], NEW g \in G, NEW n \in Nat,
         NEW w \in Words, w.group = g, w.text = n + 1,
         NEW u, u = [q EXCEPT ![g] = Append(q[g], w)] \/ u = q,
         NEW r \in {Fifo!Idle, Fifo!Down} \cup Relays, NEW p
  PROVE  /\ (\A z \in G : Typed(q[z], z, n)) => \A z \in G : Typed(u[z], z, n + 1)
         /\ Relaying(r, p, q, n, G) => Relaying(r, p, u, n + 1, G)
         /\ \A ss \in Seq(Words) : \A c :
              Proper(ss, c, r, p, q, n, G) => Proper(ss, c, r, p, u, n + 1, G)
<1>1. ASSUME NEW z \in G, NEW j \in 1 .. Len(u[z])
      PROVE  /\ u[z][j] \in Words
             /\ \/ j \in 1 .. Len(q[z]) /\ u[z][j] = q[z][j]
                \/ z = g /\ j = Len(q[z]) + 1 /\ u[z][j] = w
  <2>1. q[z] \in Seq(Words)
    OBVIOUS
  <2>2. CASE u[z] = q[z]
    BY <1>1, <2>1, <2>2
  <2>3. CASE z = g /\ u[z] = Append(q[z], w)
    <3>1. PICK t : t = q[z]
      OBVIOUS
    <3>2. t \in Seq(Words) /\ j \in 1 .. Len(Append(t, w)) /\ u[z] = Append(t, w)
      BY <1>1, <2>1, <2>3, <3>1
    <3>3. /\ Append(t, w)[j] \in Words
          /\ \/ j \in 1 .. Len(t) /\ Append(t, w)[j] = t[j]
             \/ j = Len(t) + 1 /\ Append(t, w)[j] = w
      BY <3>2
    <3> QED BY <2>3, <3>1, <3>2, <3>3
  <2>4. u[z] = q[z] \/ (z = g /\ u[z] = Append(q[z], w))
    <3>1. CASE u = q
      BY <3>1
    <3>2. CASE u = [q EXCEPT ![g] = Append(q[g], w)]
      BY <3>2
    <3> QED BY <3>1, <3>2
  <2> QED BY <2>2, <2>3, <2>4
<1>2. \A x \in Nat : x <= n => x < n + 1 /\ x <= n + 1
  OBVIOUS
<1>3. \A z \in G : \A j \in 1 .. Len(q[z]) : q[z][j] \in Words /\ q[z][j].text \in Nat
  <2>1. ASSUME NEW z \in G, NEW j \in 1 .. Len(q[z]) PROVE q[z][j] \in Words
    <3>1. q[z] \in Seq(Words)
      OBVIOUS
    <3> QED BY <3>1
  <2> QED BY <2>1 DEF Words
<1>4. ASSUME \A z \in G : Typed(q[z], z, n), NEW z \in G PROVE Typed(u[z], z, n + 1)
  <2>1. ASSUME NEW i \in 1 .. Len(u[z]) PROVE u[z][i].group = z /\ u[z][i].text <= n + 1
    <3>1. CASE i \in 1 .. Len(q[z]) /\ u[z][i] = q[z][i]
      BY <1>2, <1>3, <1>4, <3>1 DEF Typed
    <3>2. CASE z = g /\ u[z][i] = w
      <4>1. n + 1 <= n + 1
        OBVIOUS
      <4> QED BY <3>2, <4>1
    <3> QED BY <1>1, <3>1, <3>2
  <2>2. ASSUME NEW i \in 1 .. Len(u[z]), NEW j \in 1 .. Len(u[z]), i < j
        PROVE  u[z][i].text < u[z][j].text
    <3>0. q[z] \in Seq(Words) /\ Len(q[z]) \in Nat /\ i \in Int /\ j \in Int
      BY <1>1, <2>2
    <3>1. CASE i \in 1 .. Len(q[z]) /\ u[z][i] = q[z][i] /\ j \in 1 .. Len(q[z]) /\ u[z][j] = q[z][j]
      BY <1>4, <2>2, <3>1 DEF Typed
    <3>2. CASE i \in 1 .. Len(q[z]) /\ u[z][i] = q[z][i] /\ u[z][j] = w
      BY <1>2, <1>3, <1>4, <3>2 DEF Typed
    <3>3. CASE i = Len(q[z]) + 1
      <4>1. j <= Len(q[z]) + 1
        BY <1>1, <2>2, <3>0
      <4> QED BY <2>2, <3>0, <3>3, <4>1
    <3> QED BY <1>1, <2>2, <3>1, <3>2, <3>3
  <2> QED BY <2>1, <2>2 DEF Typed
<1>5. ASSUME NEW x \in Nat, NEW z \in G, x <= n, \A j \in 1 .. Len(q[z]) : x < q[z][j].text,
             NEW j \in 1 .. Len(u[z])
      PROVE  x < u[z][j].text
  BY <1>1, <1>2, <1>5
<1>6. ASSUME Relaying(r, p, q, n, G) PROVE Relaying(r, p, u, n + 1, G)
  <2>1. SUFFICES ASSUME r.at \in {"open", "write"}, NEW b \in 1 .. Len(r.batch)
                 PROVE  /\ r.batch[b].text <= n + 1
                        /\ \A j \in 1 .. Len(u[r.batch[b].group]) :
                             r.batch[b].text < u[r.batch[b].group][j].text
    BY <1>6 DEF Relaying
  <2>2. r \in Relays
    BY <2>1 DEF Fifo!Idle, Fifo!Down
  <2>3. r.batch \in Seq(Words)
    BY <2>2 DEF Relays
  <2>6. r.batch[b] \in Words
    BY <2>1, <2>3
  <2>4. r.batch[b] \in Words /\ r.batch[b].text \in Nat
    BY <2>6 DEF Words
  <2>5. /\ r.batch[b].group \in G /\ r.batch[b].text <= n
        /\ \A j \in 1 .. Len(q[r.batch[b].group]) :
             r.batch[b].text < q[r.batch[b].group][j].text
    BY <1>6, <2>1 DEF Relaying
  <2> QED BY <1>2, <1>5, <2>4, <2>5
<1>7. ASSUME NEW ss \in Seq(Words), NEW c, Proper(ss, c, r, p, q, n, G)
      PROVE  Proper(ss, c, r, p, u, n + 1, G)
  <2>1. ASSUME NEW i \in 1 .. Len(ss)
        PROVE  /\ ss[i].text <= n + 1
               /\ \A j \in 1 .. Len(u[ss[i].group]) : ss[i].text < u[ss[i].group][j].text
    <3>3. ss[i] \in Words
      BY <2>1
    <3>1. ss[i] \in Words /\ ss[i].text \in Nat
      BY <3>3 DEF Words
    <3>2. /\ ss[i].group \in G /\ ss[i].text <= n
          /\ \A j \in 1 .. Len(q[ss[i].group]) : ss[i].text < q[ss[i].group][j].text
      BY <1>7, <2>1 DEF Proper
    <3> QED BY <1>2, <1>5, <3>1, <3>2
  <2> QED BY <1>7, <2>1 DEF Proper
<1> QED BY <1>4, <1>6, <1>7

\* The steps of the clients.
LEMMA StartStays ==
  ASSUME FifoInv, NEW c \in Members, Fifo!Start(c) PROVE FifoInv'
<1>1. /\ UNCHANGED <<variant, typed, ffo, cpipe, process, revents, relay, wfds, files, writing,
                     deaf, got>>
      /\ running' = running \cup {c}
      /\ \E g \in Fifo!Groups : choice' = [choice EXCEPT ![c] = g]
  BY DEF Fifo!Start, Fifo!clientFiles
<1>2. Fifo!Groups' = Fifo!Groups
  BY <1>1 DEF Fifo!Groups
<1>3. FifoTypes'
  BY <1>1, <1>2 DEF FifoInv, FifoTypes
<1>4. \A d \in Members : Fifo!Reaching(d)' = Fifo!Reaching(d)
  BY <1>1 DEF Fifo!Reaching
<1> QED BY <1>1, <1>3, <1>4, FifoFrame

\* What waits in the FIFO of a client that has been killed may be lost.
LEMMA FifoKillStays ==
  ASSUME Fifo!ChatAssumption, FifoInv, NEW c \in Members, Fifo!Kill(c) PROVE FifoInv'
<1>1. /\ UNCHANGED <<variant, choice, typed, ffo, process, revents, relay, wfds, got>>
      /\ running' = running \ {c} /\ files' = [files EXCEPT ![c] = 1]
      /\ writing' = writing \ {c} /\ deaf' = deaf \ {c}
      /\ cpipe' = [cpipe EXCEPT ![c] = <<>>] \/ cpipe' = cpipe
  BY DEF Fifo!Kill
<1>2. Fifo!Groups' = Fifo!Groups
  BY <1>1 DEF Fifo!Groups
<1>3. FifoTypes'
  <2>1. 1 \in 1 .. OPEN_MAX
    BY DEF Fifo!ChatAssumption
  <2>2. cpipe' \in [Members -> Seq(Words)]
    <3>1. CASE cpipe' = cpipe
      BY <3>1 DEF FifoInv, FifoTypes
    <3>2. CASE cpipe' = [cpipe EXCEPT ![c] = <<>>]
      BY <3>2 DEF FifoInv, FifoTypes
    <3> QED BY <1>1, <3>1, <3>2
  <2>3. files' \in [Members -> 1 .. OPEN_MAX]
    BY <1>1, <2>1 DEF FifoInv, FifoTypes
  <2>4. writing' \subseteq running' /\ deaf' \subseteq running' /\ running' \subseteq Members
    BY <1>1 DEF FifoInv, FifoTypes
  <2> QED BY <1>1, <1>2, <2>2, <2>3, <2>4 DEF FifoInv, FifoTypes
<1>4. Fifos' /\ Relaying(relay, process, ffo, typed, Fifo!Groups)'
  BY <1>1, <1>2 DEF FifoInv, Fifos, Relaying
<1>5. ASSUME NEW d \in Members
      PROVE  Proper(Fifo!Reaching(d)', d, relay, process, ffo, typed, Fifo!Groups)
  <2>1. PICK u : u = FlattenSeq(got[d])
    OBVIOUS
  <2>2. PICK v : v = cpipe[d]
    OBVIOUS
  <2>3. PICK z : z = cpipe'[d]
    OBVIOUS
  <2>4. u \in Seq(Words) /\ v \in Seq(Words) /\ Fifo!Reaching(d) = u \o v
    BY <2>1, <2>2, ReachingIs DEF FifoInv
  <2>5. Fifo!Reaching(d)' = u \o z
    BY <1>1, <2>1, <2>3, SameInFifo DEF Fifo!Reaching
  <2>6. z = v \/ z = <<>>
    BY <1>1, <2>2, <2>3 DEF FifoInv, FifoTypes
  <2>7. Proper(u \o v, d, relay, process, ffo, typed, Fifo!Groups)
    BY <2>4 DEF FifoInv
  <2>8. CASE z = <<>>
    <3>1. u \o z = u
      BY <2>4, <2>8
    <3>2. /\ Len(u) \in Nat /\ Len(u \o v) \in Nat /\ Len(u) <= Len(u \o v)
          /\ \A i \in 1 .. Len(u) : (u \o v)[i] = u[i]
      BY <2>4
    <3>3. Proper(u, d, relay, process, ffo, typed, Fifo!Groups)
      <4>1. PICK t : t = u \o v
        OBVIOUS
      <4>2. /\ Len(u) \in Nat /\ Len(t) \in Nat /\ Len(u) <= Len(t)
            /\ \A i \in 1 .. Len(u) : t[i] = u[i] /\ i \in 1 .. Len(t)
        BY <3>2, <4>1
      <4>3. Proper(t, d, relay, process, ffo, typed, Fifo!Groups)
        BY <2>7, <4>1
      <4> QED BY <4>2, <4>3 DEF Proper
    <3> QED BY <2>5, <3>1, <3>3
  <2>9. CASE z = v
    BY <2>5, <2>7, <2>9
  <2> QED BY <2>6, <2>8, <2>9
<1>6. \A d \in Members : Proper(Fifo!Reaching(d), d, relay, process, ffo, typed, Fifo!Groups)'
  BY <1>1, <1>2, <1>5
<1> QED BY <1>3, <1>4, <1>6 DEF FifoInv

\* A member writes into its group's FIFO.
LEMMA WfStays ==
  ASSUME Fifo!ChatAssumption, FifoInv, NEW c \in Members, Fifo!Wf(c) PROVE FifoInv'
<1>0. FifoTypes
  BY DEF FifoInv
<1>1. PICK g : g = choice[c]
  OBVIOUS
<1>2. g \in Fifo!Groups /\ Fifo!Groups \subseteq GROUPS
  <2>1. g \in Fifo!Groups
    BY <1>0, <1>1 DEF FifoTypes
  <2>2. Fifo!Groups \subseteq GROUPS
    BY DEF Fifo!Groups, Fifo!ChatAssumption
  <2> QED BY <2>1, <2>2
<1>3. PICK w : w = [from |-> c, group |-> g, text |-> typed + 1]
  OBVIOUS
<1>4. typed \in Nat /\ w \in Words /\ w.group = g /\ w.text = typed + 1
  BY <1>0, <1>2, <1>3 DEF FifoTypes, Words
<1>5. /\ UNCHANGED <<variant, running, choice, cpipe, process, revents, relay, wfds, deaf, got>>
      /\ c \in running /\ typed' = typed + 1
      /\ \/ /\ files[c] < OPEN_MAX /\ files' = [files EXCEPT ![c] = @ + 1]
            /\ writing' = writing \cup {c}
            /\ ffo' = [ffo EXCEPT ![g] = Append(ffo[g], w)]
         \/ UNCHANGED <<files, writing, ffo>>
  BY <1>1, <1>3 DEF Fifo!Wf
<1>6. ffo \in [Fifo!Groups -> Seq(Words)] /\ relay \in {Fifo!Idle, Fifo!Down} \cup Relays
  BY <1>0 DEF FifoTypes
<1>7. Fifo!Groups' = Fifo!Groups
  BY <1>5 DEF Fifo!Groups
<1>8. FifoTypes'
  <2>1. ffo' \in [Fifo!Groups -> Seq(Words)]
    <3>1. Append(ffo[g], w) \in Seq(Words)
      BY <1>2, <1>4, <1>6
    <3>2. CASE ffo' = ffo
      BY <1>6, <3>2
    <3>3. CASE ffo' = [ffo EXCEPT ![g] = Append(ffo[g], w)]
      BY <1>6, <3>1, <3>3
    <3> QED BY <1>5, <3>2, <3>3
  <2>2. files' \in [Members -> 1 .. OPEN_MAX]
    <3>1. files \in [Members -> 1 .. OPEN_MAX] /\ OPEN_MAX \in Nat
      BY <1>0 DEF FifoTypes, Fifo!ChatAssumption
    <3>2. files[c] < OPEN_MAX => files[c] + 1 \in 1 .. OPEN_MAX
      BY <3>1
    <3> QED BY <1>5, <3>1, <3>2
  <2>3. writing' \subseteq running' /\ typed' \in Nat
    BY <1>0, <1>4, <1>5 DEF FifoTypes
  <2> QED BY <1>0, <1>5, <1>7, <2>1, <2>2, <2>3 DEF FifoTypes
<1>9. /\ (\A z \in Fifo!Groups : Typed(ffo[z], z, typed)) =>
            \A z \in Fifo!Groups : Typed(ffo'[z], z, typed + 1)
      /\ Relaying(relay, process, ffo, typed, Fifo!Groups) =>
            Relaying(relay, process, ffo', typed + 1, Fifo!Groups)
      /\ \A ss \in Seq(Words) : \A d :
           Proper(ss, d, relay, process, ffo, typed, Fifo!Groups) =>
             Proper(ss, d, relay, process, ffo', typed + 1, Fifo!Groups)
  <2>1. PICK u : u = ffo'
    OBVIOUS
  <2>2. u = [ffo EXCEPT ![g] = Append(ffo[g], w)] \/ u = ffo
    BY <1>5, <2>1
  <2>3. /\ (\A z \in Fifo!Groups : Typed(ffo[z], z, typed)) =>
              \A z \in Fifo!Groups : Typed(u[z], z, typed + 1)
        /\ Relaying(relay, process, ffo, typed, Fifo!Groups) =>
              Relaying(relay, process, u, typed + 1, Fifo!Groups)
        /\ \A ss \in Seq(Words) : \A d :
             Proper(ss, d, relay, process, ffo, typed, Fifo!Groups) =>
               Proper(ss, d, relay, process, u, typed + 1, Fifo!Groups)
    BY <1>2, <1>4, <1>6, <2>2, Types
  <2> QED BY <2>1, <2>3
<1>10. Fifos' /\ Relaying(relay', process', ffo', typed', Fifo!Groups')
  BY <1>5, <1>7, <1>9 DEF FifoInv, Fifos
<1>11. ASSUME NEW d \in Members
       PROVE  Proper(Fifo!Reaching(d)', d, relay', process', ffo', typed', Fifo!Groups')
  <2>1. Fifo!Reaching(d)' = Fifo!Reaching(d)
    BY <1>5 DEF Fifo!Reaching
  <2>2. Fifo!Reaching(d) \in Seq(Words)
    BY <1>0, ReachingIs
  <2>3. Proper(Fifo!Reaching(d), d, relay, process, ffo, typed, Fifo!Groups)
    BY DEF FifoInv
  <2>4. PICK ss : ss = Fifo!Reaching(d)
    OBVIOUS
  <2>5. Proper(ss, d, relay, process, ffo', typed + 1, Fifo!Groups)
    BY <1>9, <2>2, <2>3, <2>4
  <2> QED BY <1>5, <1>7, <2>1, <2>4, <2>5
<1> QED BY <1>8, <1>10, <1>11 DEF FifoInv

\* What is read is no longer in the FIFO of the client.
LEMMA RfStays ==
  ASSUME Fifo!ChatAssumption, FifoInv, NEW c \in Members, Fifo!Rf(c) PROVE FifoInv'
<1>0. FifoTypes
  BY DEF FifoInv
<1>1. /\ UNCHANGED <<variant, running, choice, typed, ffo, process, revents, relay, wfds, writing>>
      /\ c \in running
      /\ got' = [got EXCEPT ![c] = Append(got[c], cpipe[c])]
      /\ cpipe' = [cpipe EXCEPT ![c] = <<>>]
      /\ \/ files[c] < OPEN_MAX /\ files' = [files EXCEPT ![c] = @ + 1] /\ UNCHANGED deaf
         \/ deaf' = deaf \cup {c} /\ UNCHANGED files
  BY DEF Fifo!Rf
<1>2. Fifo!Groups' = Fifo!Groups
  BY <1>1 DEF Fifo!Groups
<1>3. got[c] \in Seq(Seq(Words)) /\ cpipe[c] \in Seq(Words)
  BY <1>0 DEF FifoTypes
<1>4. FifoTypes'
  <2>1. Append(got[c], cpipe[c]) \in Seq(Seq(Words)) /\ <<>> \in Seq(Words)
    BY <1>3
  <2>2. got' \in [Members -> Seq(Seq(Words))] /\ cpipe' \in [Members -> Seq(Words)]
    BY <1>0, <1>1, <2>1 DEF FifoTypes
  <2>3. files' \in [Members -> 1 .. OPEN_MAX]
    <3>1. files \in [Members -> 1 .. OPEN_MAX] /\ OPEN_MAX \in Nat
      BY <1>0 DEF FifoTypes, Fifo!ChatAssumption
    <3>2. files[c] < OPEN_MAX => files[c] + 1 \in 1 .. OPEN_MAX
      BY <3>1
    <3> QED BY <1>1, <3>1, <3>2
  <2> QED BY <1>0, <1>1, <1>2, <2>2, <2>3 DEF FifoTypes
<1>5. ASSUME NEW d \in Members PROVE Fifo!Reaching(d)' = Fifo!Reaching(d)
  <2>1. CASE d # c
    <3>1. got'[d] = got[d] /\ cpipe'[d] = cpipe[d]
      BY <1>0, <1>1, <2>1 DEF FifoTypes
    <3> QED BY <3>1 DEF Fifo!Reaching
  <2>2. CASE d = c
    <3>1. got'[d] = Append(got[c], cpipe[c]) /\ cpipe'[d] = <<>>
      BY <1>0, <1>1, <2>2 DEF FifoTypes
    <3>2. Fifo!Reaching(d)' = FlattenSeq(Append(got[c], cpipe[c])) \o <<>>
      BY <3>1, SameInFifo DEF Fifo!Reaching
    <3>3. FlattenSeq(Append(got[c], cpipe[c])) = FlattenSeq(got[c]) \o cpipe[c]
      BY <1>3, FlattenAppend
    <3>4. PICK t : t = FlattenSeq(got[c]) \o cpipe[c]
      OBVIOUS
    <3>5. t \in Seq(Words) /\ Fifo!Reaching(d) = t
      BY <1>0, <2>2, <3>4, ReachingIs
    <3>6. t \o <<>> = t
      BY <3>5
    <3> QED BY <3>2, <3>3, <3>4, <3>5, <3>6
  <2> QED BY <2>1, <2>2
<1> QED BY <1>1, <1>4, <1>5, FifoFrame

\* The steps of the server.
LEMMA PollStays ==
  ASSUME FifoInv, Fifo!Poll PROVE FifoInv'
<1>1. /\ UNCHANGED <<variant, running, choice, typed, ffo, cpipe, process, relay, wfds, files,
                     writing, deaf, got>>
      /\ revents' \subseteq Fifo!Groups
  BY DEF Fifo!Poll, Fifo!Waiting, Fifo!clientFiles
<1>2. Fifo!Groups' = Fifo!Groups
  BY <1>1 DEF Fifo!Groups
<1>3. FifoTypes'
  BY <1>1, <1>2 DEF FifoInv, FifoTypes
<1>4. \A d \in Members : Fifo!Reaching(d)' = Fifo!Reaching(d)
  BY <1>1 DEF Fifo!Reaching
<1> QED BY <1>1, <1>3, <1>4, FifoFrame

\* The server has read what was in the FIFO of group g.
LEMMA BeginStays ==
  ASSUME Fifo!ChatAssumption, FifoInv, NEW g \in Fifo!Groups,
         relay = Fifo!Idle, Fifo!BeginWrite(g, ffo[g]), ffo' = [ffo EXCEPT ![g] = <<>>],
         UNCHANGED <<variant, running, choice, typed, cpipe, wfds, files, writing, deaf, got>>,
         revents' \subseteq Fifo!Groups
  PROVE  FifoInv'
<1>0. FifoTypes /\ Fifos /\ Relaying(relay, process, ffo, typed, Fifo!Groups)
  BY DEF FifoInv
<1>1. PICK batch : batch = ffo[g]
  OBVIOUS
<1>2. /\ ffo \in [Fifo!Groups -> Seq(Words)] /\ batch \in Seq(Words)
      /\ process \in [Fifo!Groups -> SUBSET (Members \cup {0})] /\ Typed(batch, g, typed)
  BY <1>0, <1>1 DEF FifoTypes, Fifos
<1>3. Fifo!Groups' = Fifo!Groups
  BY DEF Fifo!Groups
<1>4. ffo' \in [Fifo!Groups -> Seq(Words)] /\ ffo'[g] = <<>> /\ Len(<<>>) = 0
  BY <1>2
<1>5. /\ \A z \in Fifo!Groups : Typed(ffo'[z], z, typed)
      /\ \A p, r : Relaying(r, p, ffo, typed, Fifo!Groups) =>
                     Relaying(r, p, ffo', typed, Fifo!Groups)
      /\ \A p, r : \A ss, d : Proper(ss, d, r, p, ffo, typed, Fifo!Groups) =>
                                Proper(ss, d, r, p, ffo', typed, Fifo!Groups)
  <2>1. PICK u : u = ffo'
    OBVIOUS
  <2>2. u = [ffo EXCEPT ![g] = <<>>] /\ ffo \in [Fifo!Groups -> Seq(Words)]
    BY <1>2, <2>1
  <2>3. (\A z \in Fifo!Groups : Typed(ffo[z], z, typed)) =>
           \A z \in Fifo!Groups : Typed(u[z], z, typed)
    BY <2>2, Empties
  <2>4. ASSUME NEW p, NEW r
        PROVE  /\ Relaying(r, p, ffo, typed, Fifo!Groups) => Relaying(r, p, u, typed, Fifo!Groups)
               /\ \A ss, d : Proper(ss, d, r, p, ffo, typed, Fifo!Groups) =>
                                Proper(ss, d, r, p, u, typed, Fifo!Groups)
    BY <2>2, Empties
  <2> QED BY <1>0, <2>1, <2>3, <2>4 DEF Fifos
<1>6. \A d \in Members : Fifo!Reaching(d)' = Fifo!Reaching(d)
  BY DEF Fifo!Reaching
<1>7. \A d \in Members : /\ Proper(Fifo!Reaching(d), d, relay, process, ffo, typed, Fifo!Groups)
                         /\ Fifo!Reaching(d) \in Seq(Words)
  BY <1>0, ReachingIs DEF FifoInv
<1>8. CASE Fifo!ProcID(batch) = Fifo!NoClient
  <2>1. UNCHANGED <<process, relay>>
    BY <1>1, <1>8 DEF Fifo!BeginWrite
  <2>2. FifoTypes'
    BY <1>0, <1>3, <1>4, <2>1 DEF FifoTypes
  <2>3. Fifos' /\ Relaying(relay', process', ffo', typed', Fifo!Groups')
    BY <1>0, <1>3, <1>5, <2>1 DEF Fifos
  <2>4. \A d \in Members :
          Proper(Fifo!Reaching(d)', d, relay', process', ffo', typed', Fifo!Groups')
    BY <1>3, <1>5, <1>6, <1>7, <2>1
  <2> QED BY <2>2, <2>3, <2>4 DEF FifoInv
<1>9. CASE Fifo!ProcID(batch) # Fifo!NoClient
  <2>1. PICK id : id = Fifo!ProcID(batch)
    OBVIOUS
  <2>2. \/ Len(batch) = 0 /\ id = 0
        \/ Len(batch) = 1 /\ id = batch[1].from
    <3>1. Len(batch) \in Nat
      BY <1>2
    <3>2. CASE Len(batch) = 0
      BY <2>1, <3>2 DEF Fifo!ProcID
    <3>3. CASE Len(batch) = 1
      <4>1. id = Head(batch).from
        BY <2>1, <3>3 DEF Fifo!ProcID
      <4>2. batch # <<>>
        BY ONLY <3>3
      <4>3. Head(batch) = batch[1]
        BY <1>2, <4>2
      <4> QED BY <3>3, <4>1, <4>3
    <3>4. Len(batch) = 0 \/ Len(batch) = 1
      BY <1>9, <3>1 DEF Fifo!ProcID
    <3> QED BY <3>2, <3>3, <3>4
  <2>3. Len(batch) = 1 => batch[1] \in Words /\ batch[1].from \in Members
    <3>1. Len(batch) = 1 => batch[1] \in Words
      <4>1. SUFFICES ASSUME Len(batch) = 1 PROVE batch[1] \in Words
        OBVIOUS
      <4>2. 1 \in 1 .. Len(batch) /\ batch \in Seq(Words)
        BY <1>2, <4>1
      <4> QED BY ONLY <4>2
    <3> QED BY <3>1 DEF Words
  <2>4. id \in Members \cup {0}
    BY <2>2, <2>3
  <2>5. PICK left : left = (process[g] \cup {id}) \ {0, id}
    OBVIOUS
  <2>6. process' = [process EXCEPT ![g] = process[g] \cup {id}]
    BY <1>1, <1>9, <2>1 DEF Fifo!BeginWrite
  <2>7. process'[g] = process[g] \cup {id} /\ \A z \in Fifo!Groups : process[z] \subseteq process'[z]
    BY <1>2, <2>6
  <2>8. relay' = IF left = {} THEN Fifo!Idle
                              ELSE [at |-> "open", left |-> left, batch |-> batch]
    BY <1>1, <1>9, <2>1, <2>5, <2>7 DEF Fifo!BeginWrite, Fifo!WriteTo
  <2>9. left \subseteq Members /\ id \notin left /\ left \subseteq process'[g]
    BY <1>2, <2>5, <2>7
  <2>10. FifoTypes'
    <3>1. process' \in [Fifo!Groups -> SUBSET (Members \cup {0})]
      BY <1>2, <2>4, <2>6
    <3>2. relay' \in {Fifo!Idle, Fifo!Down} \cup Relays
      BY <1>2, <2>8, <2>9 DEF Relays
    <3> QED BY <1>0, <1>3, <1>4, <3>1, <3>2 DEF FifoTypes
  <2>11. Fifos'
    BY <1>3, <1>5 DEF Fifos
  <2>12. \A b \in 1 .. Len(batch) : b = 1 /\ Len(batch) = 1
    <3>1. PICK k : k = Len(batch)
      OBVIOUS
    <3>2. k = 0 \/ k = 1
      BY <2>2, <3>1
    <3> QED BY ONLY <3>1, <3>2
  <2>13. \A b \in 1 .. Len(batch) :
           /\ batch[b].group = g /\ batch[b].from = id /\ batch[b].text <= typed
    BY <1>2, <2>2, <2>12 DEF Typed
  <2>14. CASE left = {}
    <3>1. relay' = relay /\ relay = Fifo!Idle /\ ~ (relay.at \in {"open", "write"})
      BY <2>8, <2>14 DEF Fifo!Idle
    <3>2. Relaying(relay', process', ffo', typed', Fifo!Groups')
      BY <3>1 DEF Relaying
    <3>3. ASSUME NEW d \in Members
          PROVE  Proper(Fifo!Reaching(d)', d, relay', process', ffo', typed', Fifo!Groups')
      <4>1. PICK ss : ss = Fifo!Reaching(d)
        OBVIOUS
      <4>2. Proper(ss, d, relay, process, ffo', typed, Fifo!Groups)
        BY <1>5, <1>7, <4>1
      <4>3. Proper(ss, d, relay, process', ffo', typed, Fifo!Groups)
        BY <2>7, <4>2 DEF Proper
      <4> QED BY <1>3, <1>6, <3>1, <4>1, <4>3
    <3> QED BY <2>10, <2>11, <3>2, <3>3 DEF FifoInv
  <2>15. CASE left # {}
    <3>1. relay'.at = "open" /\ relay'.left = left /\ relay'.batch = batch
      BY <2>8, <2>15
    <3>2. Relaying(relay', process', ffo', typed, Fifo!Groups)
      <4>1. ASSUME NEW b \in 1 .. Len(batch)
            PROVE  /\ batch[b].group \in Fifo!Groups /\ batch[b].from \notin left
                   /\ left \subseteq process'[batch[b].group] /\ batch[b].text <= typed
                   /\ \A j \in 1 .. Len(ffo'[batch[b].group]) :
                        batch[b].text < ffo'[batch[b].group][j].text
        <5>1. \A j \in 1 .. Len(ffo'[g]) : FALSE
          BY <1>4
        <5> QED BY <2>9, <2>13, <5>1
      <4>2. Len(batch) <= 1
        <5>1. PICK k : k = Len(batch)
          OBVIOUS
        <5>2. k = 0 \/ k = 1
          BY <2>2, <5>1
        <5>3. k <= 1
          BY ONLY <5>2
        <5> QED BY <5>1, <5>3
      <4> QED BY <2>15, <3>1, <4>1, <4>2 DEF Relaying
    <3>3. ASSUME NEW d \in Members
          PROVE  Proper(Fifo!Reaching(d)', d, relay', process', ffo', typed', Fifo!Groups')
      <4>1. PICK ss : ss = Fifo!Reaching(d)
        OBVIOUS
      <4>2. /\ Proper(ss, d, relay, process, ffo', typed, Fifo!Groups)
            /\ Proper(ss, d, relay, process, ffo, typed, Fifo!Groups)
        BY <1>5, <1>7, <4>1
      <4>3. ASSUME NEW i \in 1 .. Len(ss), NEW b \in 1 .. Len(batch), batch[b].group = ss[i].group
            PROVE  ss[i].text < batch[b].text
        <5>1. ss[i].group = g
          BY <2>13, <4>3
        <5> QED BY <1>1, <4>2, <4>3, <5>1 DEF Proper
      <4>4. Proper(ss, d, relay', process', ffo', typed, Fifo!Groups)
        <5>1. PICK r : r = relay'
          OBVIOUS
        <5>2. PICK p : p = process'
          OBVIOUS
        <5>3. r.batch = batch /\ \A z \in Fifo!Groups : process[z] \subseteq p[z]
          BY <2>7, <3>1, <5>1, <5>2
        <5>4. Proper(ss, d, r, p, ffo', typed, Fifo!Groups)
          BY <4>2, <4>3, <5>3 DEF Proper
        <5> QED BY <5>1, <5>2, <5>4
      <4> QED BY <1>3, <1>6, <4>1, <4>4
    <3> QED BY <1>3, <2>10, <2>11, <3>2, <3>3 DEF FifoInv
  <2> QED BY <2>14, <2>15
<1> QED BY <1>8, <1>9

\* The server reads the FIFO of a group, ...
LEMMA ReadStays ==
  ASSUME Fifo!ChatAssumption, FifoInv, Fifo!Read PROVE FifoInv'
<1>1. 0 \in Fifo!Groups
  BY DEF Fifo!Read, Fifo!Groups
<1>2. revents' \subseteq Fifo!Groups
  BY DEF Fifo!Read, FifoInv, FifoTypes
<1> QED BY <1>1, <1>2, BeginStays DEF Fifo!Read, Fifo!clientFiles

\* ... or of the first group that has something, ...
LEMMA VisitStays ==
  ASSUME Fifo!ChatAssumption, FifoInv, Fifo!Visit PROVE FifoInv'
<1>1. revents \subseteq Fifo!Groups /\ revents # {} /\ Fifo!Groups \subseteq Nat
  BY DEF Fifo!Visit, FifoInv, FifoTypes, Fifo!Groups, Fifo!ChatAssumption
<1>2. PICK g : g = Least(revents)
  OBVIOUS
<1>3. g \in revents
  BY <1>1, <1>2, LeastIs
<1>4. /\ relay = Fifo!Idle /\ Fifo!BeginWrite(g, ffo[g]) /\ ffo' = [ffo EXCEPT ![g] = <<>>]
      /\ revents' = revents \ {g}
      /\ UNCHANGED <<variant, running, choice, typed, cpipe, wfds, files, writing, deaf, got>>
  BY <1>2 DEF Fifo!Visit, Least, Fifo!clientFiles
<1> QED BY <1>1, <1>3, <1>4, BeginStays

\* The next recipient is one, and without it there are fewer.
LEMMA NextIs ==
  ASSUME Fifo!ChatAssumption, FifoInv, relay.at \in {"open", "write"}
  PROVE  /\ relay \in Relays /\ Fifo!Recipient \in relay.left
         /\ Fifo!NextRecipient \in {Fifo!Idle, Fifo!Down} \cup Relays
         /\ Narrower(relay, Fifo!NextRecipient)
         /\ Fifo!NextRecipient.at \in {"open", "write"} =>
              Fifo!Recipient \notin Fifo!NextRecipient.left
<1>1. relay \in Relays /\ relay.left # {}
  BY DEF FifoInv, FifoTypes, Relaying, Fifo!Idle, Fifo!Down
<1>2. PICK I : I = relay.left
  OBVIOUS
<1>3. I \subseteq Members /\ I # {} /\ I \subseteq Nat
  <2>1. I \subseteq Members /\ I # {}
    BY <1>1, <1>2 DEF Relays
  <2>2. Members \subseteq Nat
    BY DEF Fifo!ChatAssumption
  <2> QED BY <2>1, <2>2
<1>4. Fifo!Recipient = Least(I)
  BY <1>2 DEF Fifo!Recipient, Least
<1>5. Fifo!Recipient \in I
  BY <1>3, <1>4, LeastIs
<1>6. PICK u : u = Fifo!NextRecipient
  OBVIOUS
<1>7. PICK left : left = I \ {Fifo!Recipient}
  OBVIOUS
<1>8. u = IF left = {} THEN Fifo!Idle ELSE [at |-> "open", left |-> left, batch |-> relay.batch]
  BY <1>2, <1>6, <1>7 DEF Fifo!NextRecipient, Fifo!WriteTo
<1>9. u \in {Fifo!Idle, Fifo!Down} \cup Relays
  BY <1>1, <1>3, <1>7, <1>8 DEF Relays
<1>10. u.at \in {"open", "write"} =>
         u.left = left /\ left # {} /\ u.batch = relay.batch /\ relay.at \in {"open", "write"}
  BY <1>8 DEF Fifo!Idle
<1>11. Narrower(relay, u)
  BY <1>2, <1>7, <1>10 DEF Narrower
<1> QED BY <1>1, <1>2, <1>5, <1>6, <1>7, <1>9, <1>10, <1>11

\* ... opens the FIFO of a recipient, ...
LEMMA OpenStays ==
  ASSUME Fifo!ChatAssumption, FifoInv, Fifo!Open PROVE FifoInv'
<1>0. FifoTypes /\ relay.at = "open" /\ relay \in Relays
  BY NextIs DEF FifoInv, Fifo!Open
<1>1. UNCHANGED <<variant, running, choice, typed, ffo, cpipe, process, revents, files, writing,
                  deaf, got>>
  BY DEF Fifo!Open, Fifo!clientFiles
<1>2. Narrower(relay, relay') /\ relay' \in {Fifo!Idle, Fifo!Down} \cup Relays
  <2>1. CASE wfds < OPEN_MAX
    <3>1. relay' = [relay EXCEPT !.at = "write"]
      BY <2>1 DEF Fifo!Open
    <3>2. relay'.left = relay.left /\ relay'.batch = relay.batch /\ relay' \in Relays
      BY <1>0, <3>1 DEF Relays
    <3>3. relay.left # {}
      BY <1>0 DEF FifoInv, Relaying
    <3> QED BY <1>0, <3>2, <3>3 DEF Narrower
  <2>2. CASE ~ (wfds < OPEN_MAX)
    <3>1. relay' = Fifo!NextRecipient
      BY <2>2 DEF Fifo!Open
    <3> QED BY <1>0, <3>1, NextIs
  <2> QED BY <2>1, <2>2
<1>3. wfds' \in 0 .. OPEN_MAX
  <2>1. wfds \in 0 .. OPEN_MAX /\ OPEN_MAX \in Nat
    BY <1>0 DEF FifoTypes, Fifo!ChatAssumption
  <2>2. wfds < OPEN_MAX => wfds + 1 \in 0 .. OPEN_MAX
    BY <2>1
  <2> QED BY <2>1, <2>2 DEF Fifo!Open
<1>4. Fifo!Groups' = Fifo!Groups
  BY <1>1 DEF Fifo!Groups
<1>5. FifoTypes'
  BY <1>0, <1>1, <1>2, <1>3, <1>4 DEF FifoTypes
<1>6. Fifos'
  BY <1>1, <1>4 DEF FifoInv, Fifos
<1>7. PICK u : u = relay'
  OBVIOUS
<1>8. Relaying(u, process, ffo, typed, Fifo!Groups)
  BY <1>2, <1>7, Narrows DEF FifoInv
<1>9. \A d \in Members : Proper(Fifo!Reaching(d), d, u, process, ffo, typed, Fifo!Groups)
  BY <1>2, <1>7, Narrows DEF FifoInv
<1>10. \A d \in Members : Fifo!Reaching(d)' = Fifo!Reaching(d)
  BY <1>1 DEF Fifo!Reaching
<1>11. /\ Relaying(relay', process', ffo', typed', Fifo!Groups')
       /\ \A d \in Members :
            Proper(Fifo!Reaching(d)', d, relay', process', ffo', typed', Fifo!Groups')
  BY <1>1, <1>4, <1>7, <1>8, <1>9, <1>10
<1> QED BY <1>5, <1>6, <1>11 DEF FifoInv

\* A text that comes last, is somebody else's and was typed later.
LEMMA ProperAppended ==
  ASSUME NEW ss \in Seq(Words), NEW b \in Words, NEW c \in Members, NEW r, NEW u, NEW p, NEW q,
         NEW n, NEW G,
         Proper(ss, c, r, p, q, n, G), Relaying(r, p, q, n, G), r.at \in {"open", "write"},
         r.batch = <<b>>, c \in r.left, u.at \in {"open", "write"} => c \notin u.left
  PROVE  Proper(Append(ss, b), c, u, p, q, n, G)
<1>1. PICK t : t = Append(ss, b)
  OBVIOUS
<1>2. /\ Len(ss) \in Nat /\ Len(t) = Len(ss) + 1 /\ t[Len(ss) + 1] = b
      /\ \A i \in 1 .. Len(ss) : t[i] = ss[i]
  BY <1>1
<1>3. \A i \in 1 .. Len(t) : i \in 1 .. Len(ss) \/ i = Len(ss) + 1
  BY <1>2
<1>4. /\ b.group \in G /\ b.from \notin r.left /\ r.left \subseteq p[b.group]
      /\ b.text <= n /\ \A j \in 1 .. Len(q[b.group]) : b.text < q[b.group][j].text
  <2>1. r.batch[1] = b /\ 1 \in 1 .. Len(r.batch)
    OBVIOUS
  <2> QED BY <2>1 DEF Relaying
<1>5. \A i \in 1 .. Len(ss) : ss[i].group = b.group => ss[i].text < b.text
  <2>1. r.batch[1] = b /\ 1 \in 1 .. Len(r.batch)
    OBVIOUS
  <2> QED BY <2>1 DEF Proper
<1>6. ASSUME NEW i \in 1 .. Len(t)
      PROVE  /\ t[i].group \in G /\ c # t[i].from /\ c \in p[t[i].group] /\ t[i].text <= n
             /\ \A j \in 1 .. Len(q[t[i].group]) : t[i].text < q[t[i].group][j].text
  <2>1. CASE i \in 1 .. Len(ss)
    BY <1>2, <2>1 DEF Proper
  <2>2. CASE i = Len(ss) + 1
    BY <1>2, <1>4, <2>2
  <2> QED BY <1>3, <2>1, <2>2
<1>7. ASSUME NEW i \in 1 .. Len(t), NEW j \in 1 .. Len(t), i < j, t[i].group = t[j].group
      PROVE  t[i].text < t[j].text
  <2>1. i \in 1 .. Len(ss)
    BY <1>2, <1>7
  <2>2. CASE j \in 1 .. Len(ss)
    BY <1>2, <1>7, <2>1, <2>2 DEF Proper
  <2>3. CASE j = Len(ss) + 1
    BY <1>2, <1>5, <1>7, <2>1, <2>3
  <2> QED BY <1>3, <2>2, <2>3
<1> QED BY <1>1, <1>6, <1>7 DEF Proper

\* ... and writes what it has read.
LEMMA WriteStays ==
  ASSUME Fifo!ChatAssumption, FifoInv, Fifo!Write PROVE FifoInv'
<1>0. FifoTypes /\ relay.at = "write"
  BY DEF FifoInv, Fifo!Write
<1>1. UNCHANGED <<variant, running, choice, typed, ffo, process, revents, wfds, files, writing,
                  deaf, got>>
  BY DEF Fifo!Write, Fifo!clientFiles
<1>2. PICK R : R = Fifo!Recipient
  OBVIOUS
<1>3. PICK u : u = relay'
  OBVIOUS
<1>4. PICK batch : batch = relay.batch
  OBVIOUS
<1>5. /\ relay \in Relays /\ R \in relay.left /\ R \in Members /\ batch \in Seq(Words)
      /\ Len(batch) <= 1
  <2>1. relay \in Relays /\ R \in relay.left
    BY <1>0, <1>2, NextIs
  <2>2. Len(batch) <= 1
    BY <1>0, <1>4 DEF FifoInv, Relaying
  <2> QED BY <1>4, <2>1, <2>2 DEF Relays
<1>6. Fifo!Groups' = Fifo!Groups
  BY <1>1 DEF Fifo!Groups
<1>7. /\ u \in {Fifo!Idle, Fifo!Down} \cup Relays /\ Narrower(relay, u)
      /\ u.at \in {"open", "write"} => R \notin u.left
      /\ cpipe' = cpipe \/ cpipe' = [cpipe EXCEPT ![R] = cpipe[R] \o batch]
  <2>1. CASE relay' = Fifo!NextRecipient /\ cpipe' = [cpipe EXCEPT ![R] = cpipe[R] \o batch]
    BY <1>0, <1>2, <1>3, <2>1, NextIs
  <2>2. CASE relay' = Fifo!Down /\ cpipe' = cpipe
    BY <1>3, <2>2 DEF Narrower, Fifo!Down
  <2>3. \/ relay' = Fifo!NextRecipient /\ cpipe' = [cpipe EXCEPT ![R] = cpipe[R] \o batch]
        \/ relay' = Fifo!Down /\ cpipe' = cpipe
    BY <1>2, <1>4 DEF Fifo!Write
  <2> QED BY <2>1, <2>2, <2>3
<1>8. FifoTypes'
  <2>1. cpipe' \in [Members -> Seq(Words)]
    <3>1. cpipe[R] \o batch \in Seq(Words)
      BY <1>0, <1>5 DEF FifoTypes
    <3>2. CASE cpipe' = cpipe
      BY <1>0, <3>2 DEF FifoTypes
    <3>3. CASE cpipe' = [cpipe EXCEPT ![R] = cpipe[R] \o batch]
      BY <1>0, <3>1, <3>3 DEF FifoTypes
    <3> QED BY <1>7, <3>2, <3>3
  <2> QED BY <1>0, <1>1, <1>3, <1>6, <1>7, <2>1 DEF FifoTypes
<1>9. Fifos'
  BY <1>1, <1>6 DEF FifoInv, Fifos
<1>10. Relaying(u, process, ffo, typed, Fifo!Groups)
  BY <1>7, Narrows DEF FifoInv
<1>11. \A d \in Members : Proper(Fifo!Reaching(d), d, u, process, ffo, typed, Fifo!Groups)
  BY <1>7, Narrows DEF FifoInv
<1>12. ASSUME NEW d \in Members
       PROVE  Proper(Fifo!Reaching(d)', d, u, process, ffo, typed, Fifo!Groups)
  <2>1. CASE cpipe'[d] = cpipe[d]
    <3>1. Fifo!Reaching(d)' = Fifo!Reaching(d)
      BY <1>1, <2>1 DEF Fifo!Reaching
    <3> QED BY <1>11, <3>1
  <2>2. CASE cpipe'[d] # cpipe[d]
    <3>1. d = R /\ cpipe'[d] = cpipe[R] \o batch
      BY <1>0, <1>5, <1>7, <2>2 DEF FifoTypes
    <3>2. cpipe[R] \in Seq(Words) /\ FlattenSeq(got[R]) \in Seq(Words)
          /\ Fifo!Reaching(R) = FlattenSeq(got[R]) \o cpipe[R]
      BY <1>0, <1>5, ReachingIs
    <3>3. Len(batch) # 0
      <4>1. SUFFICES ASSUME Len(batch) = 0 PROVE FALSE
        OBVIOUS
      <4>2. batch = <<>>
        BY <1>5, <4>1
      <4>3. cpipe[R] \o <<>> = cpipe[R]
        BY <3>2
      <4> QED BY <2>2, <3>1, <4>2, <4>3
    <3>4. PICK b : b = batch[1]
      OBVIOUS
    <3>5. Len(batch) = 1 /\ b \in Words
      <4>1. batch \in Seq(Words) /\ Len(batch) <= 1
        BY <1>5
      <4>2. Len(batch) = 1
        <5>1. PICK k : k = Len(batch)
          OBVIOUS
        <5>2. k \in Nat
          BY ONLY <4>1, <5>1
        <5> QED BY ONLY <3>3, <4>1, <5>1, <5>2
      <4>3. b \in Words
        BY ONLY <3>4, <4>1, <4>2
      <4> QED BY <4>2, <4>3
    <3>6. batch = <<b>>
      BY <1>5, <3>4, <3>5
    <3>7. PICK x : x = FlattenSeq(got[R])
      OBVIOUS
    <3>8. PICK y : y = cpipe[R]
      OBVIOUS
    <3>9. x \in Seq(Words) /\ y \in Seq(Words) /\ Fifo!Reaching(R) = x \o y
      BY <3>2, <3>7, <3>8
    <3>10. Fifo!Reaching(R)' = x \o (y \o <<b>>)
      BY <1>1, <3>1, <3>6, <3>7, <3>8, SameInFifo DEF Fifo!Reaching
    <3>11. x \o (y \o <<b>>) = Append(x \o y, b)
      <4>1. y \o <<b>> = Append(y, b) /\ Append(y, b) \in Seq(Words)
        BY <3>5, <3>9, AppendIsConcat
      <4>2. <<b>> \in Seq(Words) /\ x \o y \in Seq(Words)
        BY <3>5, <3>9
      <4>3. x \o (y \o <<b>>) = (x \o y) \o <<b>>
        BY ONLY <3>9, <4>2, ConcatAssociative
      <4>4. (x \o y) \o <<b>> = Append(x \o y, b)
        <5>1. PICK z : z = x \o y
          OBVIOUS
        <5>2. z \in Seq(Words)
          BY <4>2, <5>1
        <5>3. z \o <<b>> = Append(z, b)
          BY <3>5, <5>2, AppendIsConcat
        <5> QED BY <5>1, <5>3
      <4> QED BY <4>3, <4>4
    <3>12. PICK ss : ss = x \o y
      OBVIOUS
    <3>13. ss \in Seq(Words) /\ Proper(ss, R, relay, process, ffo, typed, Fifo!Groups)
      <4>1. ss \in Seq(Words) /\ ss = Fifo!Reaching(R)
        BY <3>9, <3>12
      <4>2. Proper(Fifo!Reaching(R), R, relay, process, ffo, typed, Fifo!Groups)
        BY <1>5 DEF FifoInv
      <4> QED BY <4>1, <4>2
    <3>14. Proper(Append(ss, b), R, u, process, ffo, typed, Fifo!Groups)
      <4>1. relay.batch = <<b>> /\ relay.at \in {"open", "write"}
        BY <1>0, <1>4, <3>6
      <4>2. Relaying(relay, process, ffo, typed, Fifo!Groups)
        BY DEF FifoInv
      <4> QED BY <1>5, <1>7, <3>5, <3>13, <4>1, <4>2, ProperAppended
    <3> QED BY <3>1, <3>10, <3>11, <3>12, <3>14
  <2> QED BY <2>1, <2>2
<1>13. /\ Relaying(relay', process', ffo', typed', Fifo!Groups')
       /\ \A d \in Members :
            Proper(Fifo!Reaching(d)', d, relay', process', ffo', typed', Fifo!Groups')
  BY <1>1, <1>3, <1>6, <1>10, <1>12
<1> QED BY <1>8, <1>9, <1>13 DEF FifoInv

\* The invariant is inductive ...
LEMMA FifoStays ==
  ASSUME Fifo!ChatAssumption, FifoInv, FifoNext \/ UNCHANGED Fifo!chatVars PROVE FifoInv'
<1>1. CASE Fifo!Server
  BY <1>1, ReadStays, PollStays, VisitStays, OpenStays, WriteStays DEF Fifo!Server
<1>2. ASSUME NEW c, Fifo!Program(c) PROVE FifoInv'
  BY <1>2, StartStays, WfStays, RfStays DEF Fifo!Program
<1>3. CASE Fifo!ClientSteps
  BY <1>2, <1>3 DEF Fifo!ClientSteps, Fifo!ChatClients, Fifo!GroupClients,
     Fifo!ChatClient1, Fifo!ChatClient2, Fifo!ChatClient3, Fifo!ChatClient4, Fifo!ChatClient5,
     Fifo!GroupClient1, Fifo!GroupClient2, Fifo!GroupClient3, Fifo!GroupClient4,
     Fifo!GroupClient5
<1>4. ASSUME NEW c \in Members, Fifo!Kill(c) PROVE FifoInv'
  BY <1>4, FifoKillStays
<1>5. CASE UNCHANGED Fifo!chatVars
  <2>1. UNCHANGED <<variant, running, choice, typed, ffo, cpipe, process, revents, relay, wfds,
                    files, writing, deaf, got>>
    BY <1>5 DEF Fifo!chatVars, Fifo!clientFiles
  <2>2. Fifo!Groups' = Fifo!Groups
    BY <2>1 DEF Fifo!Groups
  <2>3. FifoTypes'
    BY <2>1, <2>2 DEF FifoInv, FifoTypes
  <2>4. \A d \in Members : Fifo!Reaching(d)' = Fifo!Reaching(d)
    BY <2>1 DEF Fifo!Reaching
  <2> QED BY <2>1, <2>3, <2>4, FifoFrame
<1> QED BY <1>1, <1>3, <1>4, <1>5 DEF FifoNext

\* ... and implies what the chats promise.
LEMMA FifoHandsOver ==
  ASSUME FifoInv PROVE Fifo!TypeOK /\ Fifo!InGroup /\ Fifo!InTypedOrder
<1>0. FifoTypes
  BY DEF FifoInv
<1>1. Fifo!TypeOK
  <2>1. \A g \in Fifo!Groups : process[g] \subseteq Members \cup {0}
    BY <1>0 DEF FifoTypes
  <2>2. relay.at \in {"open", "write"} => relay.left # {} /\ relay.left \subseteq Members
    BY <1>0 DEF FifoInv, FifoTypes, Relaying, Relays, Fifo!Idle, Fifo!Down
  <2>3. wfds <= OPEN_MAX /\ \A c \in Members : files[c] \in 1 .. OPEN_MAX
    BY <1>0 DEF FifoTypes
  <2> QED BY <1>0, <2>1, <2>2, <2>3 DEF FifoTypes, Fifo!TypeOK
<1>2. \A c \in Members : /\ Fifo!Reaching(c) \in Seq(Words)
                         /\ Proper(Fifo!Reaching(c), c, relay, process, ffo, typed, Fifo!Groups)
  BY <1>0, ReachingIs DEF FifoInv
<1>3. Fifo!InGroup
  <2>1. SUFFICES ASSUME NEW c \in Members, NEW i \in DOMAIN Fifo!Reaching(c)
                 PROVE  c # Fifo!Reaching(c)[i].from /\ c \in process[Fifo!Reaching(c)[i].group]
    BY DEF Fifo!InGroup
  <2>2. i \in 1 .. Len(Fifo!Reaching(c))
    BY <1>2
  <2> QED BY <1>2, <2>2 DEF Proper
<1>4. Fifo!InTypedOrder
  <2>1. SUFFICES ASSUME NEW c \in Members, NEW i \in DOMAIN Fifo!Reaching(c),
                        NEW j \in DOMAIN Fifo!Reaching(c), i < j,
                        Fifo!Reaching(c)[i].group = Fifo!Reaching(c)[j].group
                 PROVE  Fifo!Reaching(c)[i].text < Fifo!Reaching(c)[j].text
    BY DEF Fifo!InTypedOrder
  <2>2. i \in 1 .. Len(Fifo!Reaching(c)) /\ j \in 1 .. Len(Fifo!Reaching(c))
    BY <1>2
  <2> QED BY <1>2, <2>1, <2>2 DEF Proper
<1> QED BY <1>1, <1>3, <1>4

-----------------------------------------------------------------------------
(* 13-Bypass.                                                                *)

PassNext == Pass!Server \/ Pass!P7 \/ \E c \in Clients : Pass!GroupOne(c)

PassTypes ==
  /\ inbox \in Seq(Pass!Names \cup {"57579"})
  /\ buff \in Pass!Names \cup {"none", "other"}
  /\ bound \subseteq Clients /\ peer \subseteq bound
  /\ g1 \in [Clients -> {"name", "address", "bind", "listen", "accept", "start", "recv", "send"}]
  /\ g2 \in {"wait", "connect", "greet", "recv", "send", "killed"}
  /\ toG1 \in Nat /\ toG2 \in Nat

\* One client has the port, and only the one that has accepted on it talks.
OnePeer ==
  /\ \A c, d \in bound : c = d
  /\ \A c \in Clients : g1[c] \in {"start", "recv", "send"} => c \in peer

PassInv == PassTypes /\ OnePeer /\ Pass!OneWord

\* The texts under way, and who has the word.
Under(n, two, one) == n + (IF two THEN 1 ELSE 0) + (IF one THEN 1 ELSE 0)
Two == g2 \in {"greet", "send"}
One == \E c \in peer : g1[c] = "send"

\* OneWord in the form that the steps are checked in.
Word ==
  /\ g2 \in {"greet", "recv", "send"} =>
       \/ toG1 + toG2 = 1 /\ ~ Two /\ ~ One
       \/ toG1 = 0 /\ toG2 = 0 /\ (Two <=> ~ One)
  /\ g2 \notin {"greet", "recv", "send"} => toG1 = 0 /\ toG2 = 0 /\ ~ Two /\ ~ One

\* The two forms say the same.
LEMMA WordIs == PassTypes => (Pass!OneWord <=> Word)
<1> SUFFICES ASSUME PassTypes PROVE Pass!OneWord <=> Word
  OBVIOUS
<1>1. PICK u : u = Under(toG1 + toG2, Two, One)
  OBVIOUS
<1>2. Pass!OneWord <=> (g2 \in {"greet", "recv", "send"} <=> u = 1) /\ u <= 1
  BY <1>1 DEF Pass!OneWord, Under, Two, One
<1>3. PICK n : n = toG1 + toG2
  OBVIOUS
<1>4. n \in Nat /\ (n = 0 <=> toG1 = 0 /\ toG2 = 0)
  BY <1>3 DEF PassTypes
<1>5. /\ ~ Two /\ ~ One => u = n
      /\ (Two <=> ~ One) => u = n + 1
      /\ Two /\ One => u = n + 2
  BY <1>1, <1>3, <1>4 DEF Under
<1>6. u \in Nat /\ (Two /\ One => u >= 2)
  BY <1>4, <1>5
<1>7. Two => g2 \in {"greet", "recv", "send"}
  BY DEF Two
<1> QED BY <1>2, <1>3, <1>4, <1>5, <1>6, <1>7 DEF Word

\* The invariant of the bypass.
LEMMA PassInit == Pass!Init => PassInv
<1> SUFFICES ASSUME Pass!Init PROVE PassInv
  OBVIOUS
<1>1. PassTypes
  BY DEF Pass!Init, PassTypes
<1>2. OnePeer
  BY DEF Pass!Init, OnePeer
<1>3. ~ Two /\ ~ One
  BY DEF Pass!Init, Two, One
<1>4. toG1 = 0 /\ toG2 = 0 /\ g2 = "wait"
  BY DEF Pass!Init
<1>5. Pass!OneWord
  BY <1>1, <1>3, <1>4, WordIs DEF Word
<1> QED BY <1>1, <1>2, <1>5 DEF PassInv

\* The types after a step.
LEMMA PassTypesStay == PassTypes /\ PassNext => PassTypes'
<1> SUFFICES ASSUME PassTypes, PassNext PROVE PassTypes'
  OBVIOUS
<1> USE DEF PassTypes
<1>1. CASE Pass!ReadName
  <2>1. Head(inbox) \in Pass!Names \cup {"57579"} /\ Tail(inbox) \in Seq(Pass!Names \cup {"57579"})
    BY <1>1 DEF Pass!ReadName
  <2>2. buff' \in Pass!Names \cup {"none", "other"}
    BY <1>1, <2>1 DEF Pass!ReadName, Pass!IsName
  <2> QED BY <1>1, <2>1, <2>2 DEF Pass!ReadName, Pass!talkVars
<1>2. CASE Pass!ReadAddress
  BY <1>2 DEF Pass!ReadAddress, Pass!talkVars
<1>3. CASE Pass!P7
  BY <1>3 DEF Pass!P7, Pass!P7Runs, Pass!RecvAddress, Pass!Connect, Pass!Greet, Pass!RecvText,
     Pass!SendText, Pass!udpVars, Pass!talkVars
<1>4. ASSUME NEW c \in Clients, Pass!GroupOne(c) PROVE PassTypes'
  <2>1. CASE Pass!SendChoice(c)
    <3>1. PICK n \in Pass!Names : inbox' = Append(inbox, n)
      BY <2>1 DEF Pass!SendChoice
    <3>2. inbox' \in Seq(Pass!Names \cup {"57579"})
      BY <3>1
    <3> QED BY <2>1, <3>2 DEF Pass!SendChoice, Pass!talkVars
  <2>2. CASE Pass!SendAddress(c)
    <3>1. inbox' \in Seq(Pass!Names \cup {"57579"})
      BY <2>2 DEF Pass!SendAddress
    <3> QED BY <2>2, <3>1 DEF Pass!SendAddress, Pass!talkVars
  <2>3. CASE Pass!Bind(c) \/ Pass!Listen(c)
    BY <2>3 DEF Pass!Bind, Pass!Listen, Pass!udpVars, Pass!talkVars
  <2>4. CASE Pass!Accept(c) \/ Pass!Recv(c) \/ Pass!Send(c)
    BY <2>4 DEF Pass!Accept, Pass!Recv, Pass!Send, Pass!udpVars, Pass!talkVars
  <2> QED BY <1>4, <2>1, <2>2, <2>3, <2>4 DEF Pass!GroupOne, Pass!GroupOneRuns
<1> QED BY <1>1, <1>2, <1>3, <1>4 DEF PassNext, Pass!Server

\* After a step, too, only one client has the port.
LEMMA OnePeerStays == PassInv /\ PassNext => OnePeer'
<1> SUFFICES ASSUME PassInv, PassNext PROVE OnePeer'
  OBVIOUS
<1> USE DEF PassTypes, PassInv, OnePeer
<1>1. CASE Pass!Server
  BY <1>1 DEF Pass!Server, Pass!ReadName, Pass!ReadAddress, Pass!talkVars
<1>2. CASE Pass!P7
  BY <1>2 DEF Pass!P7, Pass!P7Runs, Pass!RecvAddress, Pass!Connect, Pass!Greet, Pass!RecvText,
     Pass!SendText, Pass!udpVars, Pass!talkVars
<1>3. ASSUME NEW c \in Clients, Pass!GroupOne(c) PROVE OnePeer'
  <2>1. CASE Pass!SendChoice(c) \/ Pass!SendAddress(c)
    BY <2>1 DEF Pass!SendChoice, Pass!SendAddress, Pass!talkVars
  <2>2. CASE Pass!Bind(c)
    BY <2>2 DEF Pass!Bind, Pass!udpVars, Pass!talkVars
  <2>3. CASE Pass!Listen(c)
    BY <2>3 DEF Pass!Listen, Pass!udpVars, Pass!talkVars
  <2>4. CASE Pass!Accept(c)
    BY <2>4 DEF Pass!Accept, Pass!udpVars, Pass!talkVars
  <2>5. CASE Pass!Recv(c)
    BY <2>5 DEF Pass!Recv, Pass!udpVars, Pass!talkVars
  <2>6. CASE Pass!Send(c)
    BY <2>6 DEF Pass!Send, Pass!udpVars, Pass!talkVars
  <2> QED BY <1>3, <2>1, <2>2, <2>3, <2>4, <2>5, <2>6 DEF Pass!GroupOne, Pass!GroupOneRuns
<1> QED BY <1>1, <1>2, <1>3 DEF PassNext

\* The texts on the connection and the word in the next state.
LEMMA OneWordStays ==  PassInv /\ PassNext => Pass!OneWord'
<1> SUFFICES ASSUME PassInv, PassNext PROVE Pass!OneWord'
  OBVIOUS
<1>1. PassTypes'
  BY PassTypesStay DEF PassInv
<1>2. Word
  BY WordIs DEF PassInv
<1>3. Word' => Pass!OneWord'
  BY <1>1, WordIs, PTL
<1> SUFFICES Word'
  BY <1>3
<1> USE DEF Word
<1>4. ASSUME UNCHANGED <<g1, g2, peer, toG1, toG2>> PROVE Word'
  BY <1>2, <1>4 DEF Two, One
<1>5. CASE Pass!Server
  BY <1>4, <1>5 DEF Pass!Server, Pass!ReadName, Pass!ReadAddress, Pass!talkVars
<1>6. CASE Pass!P7
  <2>1. One' <=> One
    BY <1>6 DEF Pass!P7, Pass!P7Runs, Pass!RecvAddress, Pass!Connect, Pass!Greet, Pass!RecvText,
     Pass!SendText, Pass!udpVars, Pass!talkVars, One
  <2>2. CASE Pass!RecvAddress \/ Pass!Connect
    BY <1>2, <2>1, <2>2 DEF Pass!RecvAddress, Pass!Connect, Pass!udpVars, Pass!talkVars, Two
  <2>3. CASE Pass!Greet
    BY <1>2, <2>1, <2>3, <1>1 DEF Pass!Greet, Two, PassTypes, PassInv
  <2>4. CASE Pass!RecvText
    BY <1>2, <2>1, <2>4, <1>1 DEF Pass!RecvText, Two, PassTypes, PassInv
  <2>5. CASE Pass!SendText
    BY <1>2, <2>1, <2>5, <1>1 DEF Pass!SendText, Two, PassTypes, PassInv
  <2> QED BY <1>6, <2>2, <2>3, <2>4, <2>5 DEF Pass!P7, Pass!P7Runs
<1>7. ASSUME NEW c \in Clients, Pass!GroupOne(c) PROVE Word'
  <2>0. c \in Clients /\ (g1[c] \in {"start", "recv", "send"} => peer = {c})
    BY <1>7 DEF PassInv, OnePeer, PassTypes
  <2>1. (Two' <=> Two) /\ g2' = g2
    BY <1>7 DEF Pass!GroupOne, Pass!GroupOneRuns, Pass!SendChoice, Pass!SendAddress, Pass!Bind,
       Pass!Listen, Pass!Accept, Pass!Recv, Pass!Send, Pass!udpVars, Pass!talkVars, Two
  <2>2. CASE Pass!SendChoice(c) \/ Pass!SendAddress(c) \/ Pass!Bind(c) \/ Pass!Listen(c)
    <3>1. One' <=> One
      BY <2>2 DEF Pass!SendChoice, Pass!SendAddress, Pass!Bind,
       Pass!Listen, One, PassInv, PassTypes, Pass!udpVars, Pass!talkVars
    <3> QED BY <1>2, <2>1, <2>2, <3>1 DEF Pass!SendChoice, Pass!SendAddress, Pass!Bind,
       Pass!Listen, Pass!udpVars, Pass!talkVars
  <2>3. CASE Pass!Accept(c)
    <3>1. ~ One /\ ~ One'
      BY <2>3 DEF Pass!Accept, One, PassInv, PassTypes, OnePeer
    <3> QED BY <1>2, <2>1, <2>3, <3>1 DEF Pass!Accept, Pass!talkVars
  <2>4. CASE Pass!Recv(c)
    <3>1. One' /\ (One <=> g1[c] = "send")
      BY <2>0, <2>4 DEF Pass!Recv, One, PassInv, PassTypes
    <3> QED BY <1>2, <2>1, <2>4, <3>1 DEF Pass!Recv, PassInv, PassTypes
  <2>5. CASE Pass!Send(c)
    <3>1. ~ One' /\ One
      BY <2>0, <2>5 DEF Pass!Send, One, PassInv, PassTypes
    <3> QED BY <1>2, <2>1, <2>5, <3>1 DEF Pass!Send, PassInv, PassTypes
  <2> QED BY <1>7, <2>2, <2>3, <2>4, <2>5 DEF Pass!GroupOne, Pass!GroupOneRuns
<1> QED BY <1>5, <1>6, <1>7 DEF PassNext

\* Every step keeps the invariant.
LEMMA PassStays == PassInv /\ (PassNext \/ UNCHANGED Pass!bypassVars) => PassInv'
<1>1. PassInv /\ PassNext => PassInv'
  BY PassTypesStay, OnePeerStays, OneWordStays DEF PassInv
<1>2. PassInv /\ UNCHANGED Pass!bypassVars => PassInv'
  BY DEF PassInv, PassTypes, OnePeer, Pass!OneWord, Pass!bypassVars, Pass!udpVars, Pass!talkVars
<1> QED BY <1>1, <1>2

-----------------------------------------------------------------------------
(* 16-UnixSockets/writingToSameFile and socketpair.                          *)

FileNext == \E r \in Runs : File!ServerRuns(r) \/ File!ClientRuns(r)

Authors == {File!Old} \cup {File!Server(r) : r \in Runs} \cup {File!Client(r) : r \in Runs}

FileTypes ==
  /\ way \in {"socket", "pair"}
  /\ text \in Seq(Authors)
  /\ offset \in [Runs -> Nat]
  /\ holders \in [Runs -> SUBSET (Authors \cup {File!InTransit})]
  /\ address \in Runs \cup {File!Nobody}
  /\ backlog \in [Runs -> Seq(Runs)]
  /\ to \in [Runs -> Runs \cup {File!Nobody}]
  /\ from \in [Runs -> Runs \cup {File!Nobody}]
  /\ server \in [Runs -> {"bind", "accept", "open", "write", "send", "close", "end"}]
  /\ client \in [Runs -> {"connect", "recv", "write", "close", "end"}]

\* A client has a server as soon as it is connected, and its descriptor only when the server
\* has written.
Connected ==
  /\ \A c \in Runs : client[c] \in {"recv", "write", "close"} => from[c] \in Runs
  /\ \A s \in Runs : File!InTransit \in holders[s] => File!Written(s)
  /\ \A c \in Runs : client[c] = "write" => File!Written(from[c])

\* There is a text of x in the file.
HasText(t, x) == \E i \in DOMAIN t : t[i] = x

\* With O_APPEND.
Appended ==
  /\ \A r \in Runs : /\ from[r] = r /\ to[r] = r
                     /\ client[r] # "connect" /\ server[r] \notin {"bind", "accept"}
  /\ OldTexts <= Len(text)
  /\ \A i \in 1 .. OldTexts : text[i] = File!Old
  /\ \A r \in Runs : /\ File!Written(r) <=> HasText(text, File!Server(r))
                     /\ client[r] \in {"close", "end"} <=> HasText(text, File!Client(r))

\* At the offset of the open file: who writes first writes at the beginning.
InPlace ==
  \A r \in Runs :
    /\ offset[r] <= Len(text)
    /\ File!Written(r) => offset[r] >= 1
    /\ ~ File!Written(r) => offset[r] = 0
    /\ \A i \in DOMAIN text : /\ text[i] = File!Server(r) => i = 1
                              /\ text[i] = File!Client(r) => i # 1

FileInv ==
  /\ FileTypes /\ Connected
  /\ way = "pair" => Appended
  /\ way = "socket" => InPlace

\* The names of the authors differ.
LEMMA AuthorsDiffer ==
  /\ \A r, s \in Runs : /\ File!Server(r) = File!Server(s) => r = s
                        /\ File!Client(r) = File!Client(s) => r = s
                        /\ File!Server(r) # File!Client(s)
  /\ \A r \in Runs : /\ File!Old # File!Server(r) /\ File!Old # File!Client(r)
                     /\ File!InTransit # File!Server(r) /\ File!InTransit # File!Client(r)
                     /\ File!Server(r) \in Authors /\ File!Client(r) \in Authors
BY DEF File!Server, File!Client, File!Old, File!InTransit, Authors

\* What a write does at the end of the file, and in place.
LEMMA PutAtEnd ==
  ASSUME FileTypes, way = "pair", NEW s \in Runs, NEW w \in Authors, File!Put(s, w)
  PROVE  text' = Append(text, w) /\ offset' \in [Runs -> Nat]
<1>1. Len(text) \in Nat /\ File!At(s) = Len(text) + 1
  BY DEF FileTypes, File!At
<1>2. File!At(s) > Len(text) /\ File!At(s) \in Nat
  BY <1>1
<1> QED BY <1>2 DEF File!Put, FileTypes

\* A write at an offset inside the file.
LEMMA PutInside ==
  ASSUME FileTypes, way = "socket", NEW s \in Runs, NEW w \in Authors, File!Put(s, w),
         offset[s] <= Len(text)
  PROVE  /\ text' \in Seq(Authors)
         /\ offset' = [offset EXCEPT ![s] = offset[s] + 1] /\ offset' \in [Runs -> Nat]
         /\ Len(text') \in Nat /\ Len(text') >= Len(text) /\ Len(text') >= offset[s] + 1
         /\ \A i \in DOMAIN text' : \/ i = offset[s] + 1 /\ text'[i] = w
                                    \/ i \in DOMAIN text /\ text'[i] = text[i]
<1>1. File!At(s) = offset[s] + 1
  BY DEF File!At
<1>2. PICK p : p = offset[s] + 1
  OBVIOUS
<1>3. p \in Nat /\ p >= 1 /\ Len(text) \in Nat /\ p <= Len(text) + 1 /\ offset[s] \in Nat
  BY <1>2 DEF FileTypes
<1>4. /\ offset' = [offset EXCEPT ![s] = p]
      /\ text' = IF p > Len(text) THEN Append(text, w) ELSE [text EXCEPT ![p] = w]
  BY <1>1, <1>2 DEF File!Put
<1>5. offset' \in [Runs -> Nat]
  BY <1>3, <1>4 DEF FileTypes
<1>6. text \in Seq(Authors)
  BY DEF FileTypes
<1>7. CASE p > Len(text)
  <2>1. p = Len(text) + 1
    BY <1>3, <1>7
  <2>2. /\ text' \in Seq(Authors) /\ Len(text') = Len(text) + 1
        /\ \A i \in 1 .. Len(text) : text'[i] = text[i]
        /\ text'[Len(text) + 1] = w
    BY <1>4, <1>6, <1>7
  <2>3. \A i \in DOMAIN text' : i \in 1 .. Len(text) \/ i = Len(text) + 1
    BY <1>3, <2>2
  <2>4. DOMAIN text = 1 .. Len(text)
    BY <1>6
  <2> QED BY <1>2, <1>3, <1>4, <1>5, <2>1, <2>2, <2>3, <2>4
<1>8. CASE p <= Len(text)
  <2>1. p \in 1 .. Len(text) /\ ~ (p > Len(text))
    BY <1>3, <1>8
  <2>2. /\ text' \in Seq(Authors) /\ Len(text') = Len(text)
        /\ \A j \in 1 .. Len(text) : text'[j] = IF j = p THEN w ELSE text[j]
    BY <1>4, <1>6, <2>1, ExceptSeq
  <2>3. DOMAIN text = 1 .. Len(text) /\ DOMAIN text' = 1 .. Len(text)
    BY <1>6, <2>2
  <2>4. Len(text') \in Nat /\ Len(text') >= Len(text) /\ Len(text') >= p
    BY <1>3, <1>8, <2>2
  <2>5. ASSUME NEW i \in DOMAIN text'
        PROVE  \/ i = p /\ text'[i] = w
               \/ i \in DOMAIN text /\ text'[i] = text[i]
    BY <2>2, <2>3
  <2> QED BY <1>2, <1>4, <1>5, <2>2, <2>4, <2>5
<1> QED BY <1>3, <1>7, <1>8

\* The invariant holds at first.
LEMMA FileInit == File!RunsAssumption /\ File!Init => FileInv
<1> SUFFICES ASSUME File!RunsAssumption, File!Init PROVE FileInv
  OBVIOUS
<1>1. OldTexts \in Nat /\ File!Nobody \notin Runs
  BY DEF File!RunsAssumption
<1>2. /\ text \in Seq(Authors) /\ Len(text) = OldTexts /\ DOMAIN text = 1 .. OldTexts
      /\ \A i \in 1 .. OldTexts : text[i] = File!Old
  <2>1. text = [i \in 1 .. OldTexts |-> File!Old]
    BY DEF File!Init
  <2>2. text \in [1 .. OldTexts -> Authors]
    BY <2>1 DEF Authors
  <2>3. text \in Seq(Authors) /\ Len(text) = OldTexts
    BY <1>1, <2>2
  <2> QED BY <2>1, <2>3
<1>3. way \in {"socket", "pair"}
  BY DEF File!Init
<1>4. /\ offset = [r \in Runs |-> 0] /\ holders = [r \in Runs |-> {}]
      /\ address = File!Nobody /\ backlog = [r \in Runs |-> <<>>]
  BY DEF File!Init
<1>5. CASE way = "pair"
  <2>1. /\ server = [r \in Runs |-> "open"] /\ client = [r \in Runs |-> "recv"]
        /\ to = [r \in Runs |-> r] /\ from = [r \in Runs |-> r]
    BY <1>5 DEF File!Init
  <2>2. backlog \in [Runs -> Seq(Runs)]
    BY <1>4
  <2>3. FileTypes
    BY <1>2, <1>3, <1>4, <2>1, <2>2 DEF FileTypes
  <2>4. Connected
    BY <1>4, <2>1 DEF Connected
  <2>5. Appended
    BY <1>1, <1>2, <2>1, AuthorsDiffer DEF Appended, HasText, File!Written
  <2> QED BY <1>5, <2>3, <2>4, <2>5 DEF FileInv
<1>6. CASE way = "socket"
  <2>1. /\ server = [r \in Runs |-> "bind"] /\ client = [r \in Runs |-> "connect"]
        /\ to = [r \in Runs |-> File!Nobody] /\ from = [r \in Runs |-> File!Nobody]
    BY <1>6 DEF File!Init
  <2>2. backlog \in [Runs -> Seq(Runs)]
    BY <1>4
  <2>3. FileTypes
    BY <1>2, <1>3, <1>4, <2>1, <2>2 DEF FileTypes
  <2>4. Connected
    BY <1>4, <2>1 DEF Connected
  <2>5. InPlace
    BY <1>1, <1>2, <1>4, <2>1, AuthorsDiffer DEF InPlace, File!Written
  <2> QED BY <1>6, <2>3, <2>4, <2>5 DEF FileInv
<1> QED BY <1>3, <1>5, <1>6

\* Types.
LEMMA FileTypesStay == FileInv /\ FileNext => FileTypes'
<1> SUFFICES ASSUME FileInv, FileNext PROVE FileTypes'
  OBVIOUS
<1>0. FileTypes
  BY DEF FileInv
<1>1. PICK r \in Runs : File!ServerRuns(r) \/ File!ClientRuns(r)
  BY DEF FileNext
<1>2. /\ File!Server(r) \in Authors /\ File!Client(r) \in Authors
  BY AuthorsDiffer
<1>3. ASSUME NEW s \in Runs, NEW w \in Authors, File!Put(s, w)
      PROVE  text' \in Seq(Authors) /\ offset' \in [Runs -> Nat]
  <2>1. CASE way = "pair"
    <3>1. text' = Append(text, w) /\ offset' \in [Runs -> Nat]
      BY <1>0, <1>3, <2>1, PutAtEnd
    <3>2. text \in Seq(Authors)
      BY <1>0 DEF FileTypes
    <3> QED BY <3>1, <3>2
  <2>2. CASE way = "socket"
    <3>1. offset[s] <= Len(text)
      BY <2>2 DEF FileInv, InPlace
    <3> QED BY <1>0, <1>3, <2>2, <3>1, PutInside
  <2> QED BY <1>0, <2>1, <2>2 DEF FileTypes
<1> USE DEF FileTypes
<1>4. CASE File!Bind(r)
  BY <1>0, <1>4 DEF File!Bind
<1>5. CASE File!Accept(r)
  <2>1. Head(backlog[r]) \in Runs /\ Tail(backlog[r]) \in Seq(Runs)
    BY <1>0, <1>5 DEF File!Accept
  <2> QED BY <1>0, <1>5, <2>1 DEF File!Accept
<1>6. CASE File!Open(r)
  BY <1>0, <1>2, <1>6 DEF File!Open, File!socketVars
<1>7. CASE File!Write(r)
  <2>1. text' \in Seq(Authors) /\ offset' \in [Runs -> Nat]
    BY <1>2, <1>3, <1>7 DEF File!Write
  <2> QED BY <1>0, <1>7, <2>1 DEF File!Write, File!socketVars
<1>8. CASE File!SendFd(r)
  <2>1. holders[r] \cup {File!InTransit} \in SUBSET (Authors \cup {File!InTransit})
    BY <1>0
  <2>2. holders' = [holders EXCEPT ![r] = holders[r] \cup {File!InTransit}]
    BY <1>8 DEF File!SendFd, File!PassOn
  <2>3. holders' \in [Runs -> SUBSET (Authors \cup {File!InTransit})]
    BY <1>0, <2>1, <2>2
  <2> QED BY <1>0, <1>8, <2>3 DEF File!SendFd, File!socketVars
<1>13. CASE File!Close(r)
  <2>1. holders[r] \ {File!Server(r)} \in SUBSET (Authors \cup {File!InTransit})
    BY <1>0
  <2>2. holders' = [holders EXCEPT ![r] = holders[r] \ {File!Server(r)}]
    BY <1>13 DEF File!Close
  <2>3. holders' \in [Runs -> SUBSET (Authors \cup {File!InTransit})]
    BY <1>0, <2>1, <2>2
  <2> QED BY <1>0, <1>13, <2>3 DEF File!Close, File!socketVars
<1>9. CASE File!Connect(r)
  <2>1. CASE address # File!Nobody /\ server[address] # "end"
    <3>1. address \in Runs
      BY <1>0, <2>1
    <3>2. backlog' \in [Runs -> Seq(Runs)]
      <4>1. Append(backlog[address], r) \in Seq(Runs)
        BY <1>0, <3>1
      <4>2. backlog' = [backlog EXCEPT ![address] = Append(backlog[address], r)]
        BY <1>9, <2>1 DEF File!Connect
      <4>3. backlog \in [Runs -> Seq(Runs)]
        BY <1>0
      <4> QED BY <3>1, <4>1, <4>2, <4>3
    <3> QED BY <1>0, <1>9, <2>1, <3>1, <3>2 DEF File!Connect
  <2>2. CASE ~ (address # File!Nobody /\ server[address] # "end")
    BY <1>0, <1>9, <2>2 DEF File!Connect
  <2> QED BY <2>1, <2>2
<1>10. CASE File!RecvFd(r)
  <2>1. client[r] = "recv" /\ from[r] \in Runs
    BY <1>10 DEF File!RecvFd, FileInv, Connected
  <2>2. holders' \in [Runs -> SUBSET (Authors \cup {File!InTransit})]
    <3>1. CASE to[from[r]] = r
      <4>1. holders' = [holders EXCEPT ![from[r]] =
                          (@ \ {File!InTransit}) \cup {File!Client(r)}]
        BY <1>10, <3>1 DEF File!RecvFd, File!TakeOver
      <4>2. (holders[from[r]] \ {File!InTransit}) \cup {File!Client(r)}
              \in SUBSET (Authors \cup {File!InTransit})
        BY <1>0, <1>2, <2>1
      <4> QED BY <1>0, <4>1, <4>2
    <3>2. CASE to[from[r]] # r
      BY <1>0, <1>10, <3>2 DEF File!RecvFd
    <3> QED BY <3>1, <3>2
  <2>3. client' \in [Runs -> {"connect", "recv", "write", "close", "end"}]
    BY <1>0, <1>10 DEF File!RecvFd
  <2> QED BY <1>0, <1>10, <2>2, <2>3 DEF File!RecvFd, File!socketVars
<1>11. CASE File!ClientWrite(r)
  <2>1. from[r] \in Runs
    BY <1>11 DEF File!ClientWrite, FileInv, Connected
  <2>2. text' \in Seq(Authors) /\ offset' \in [Runs -> Nat]
    BY <1>2, <1>3, <1>11, <2>1 DEF File!ClientWrite
  <2> QED BY <1>0, <1>11, <2>2 DEF File!ClientWrite, File!socketVars
<1>12. CASE File!ClientClose(r)
  BY <1>0, <1>12 DEF File!ClientClose, File!socketVars
<1> QED BY <1>1, <1>4, <1>5, <1>6, <1>7, <1>8, <1>9, <1>10, <1>11, <1>12, <1>13
           DEF File!ServerRuns, File!ClientRuns

\* Who is connected, and who has the descriptor.
LEMMA ConnectedStays == FileInv /\ FileNext => Connected'
<1> SUFFICES ASSUME FileInv, FileNext PROVE Connected'
  OBVIOUS
<1>1. PICK r \in Runs : File!ServerRuns(r) \/ File!ClientRuns(r)
  BY DEF FileNext
<1>2. \A s \in Runs : File!Server(s) # File!InTransit /\ File!Client(s) # File!InTransit
  BY AuthorsDiffer
<1> USE DEF FileTypes, FileInv, Connected, File!Written
<1>4. CASE File!Bind(r)
  BY <1>4 DEF File!Bind
<1>5. CASE File!Accept(r)
  BY <1>5 DEF File!Accept
<1>6. CASE File!Open(r)
  BY <1>2, <1>6 DEF File!Open, File!socketVars
<1>7. CASE File!Write(r)
  BY <1>7 DEF File!Write, File!socketVars
<1>8. CASE File!SendFd(r)
  BY <1>8 DEF File!SendFd, File!PassOn, File!socketVars
<1>9. CASE File!Close(r)
  BY <1>9 DEF File!Close, File!socketVars
<1>10. CASE File!Connect(r)
  <2>1. UNCHANGED <<text, holders, server>>
    BY <1>10 DEF File!Connect
  <2>2. CASE address # File!Nobody /\ server[address] # "end"
    <3>1. address \in Runs
      BY <2>2
    <3>2. from' = [from EXCEPT ![r] = address] /\ client' = [client EXCEPT ![r] = "recv"]
      BY <1>10, <2>2 DEF File!Connect
    <3> QED BY <2>1, <3>1, <3>2
  <2>3. CASE ~ (address # File!Nobody /\ server[address] # "end")
    <3>1. client' = [client EXCEPT ![r] = "end"] /\ from' = from
      BY <1>10, <2>3 DEF File!Connect
    <3> QED BY <2>1, <3>1
  <2> QED BY <2>2, <2>3
<1>11. CASE File!RecvFd(r)
  <2>1. client[r] = "recv" /\ from[r] \in Runs
    BY <1>11 DEF File!RecvFd
  <2>2. CASE to[from[r]] = r
    BY <1>2, <1>11, <2>1, <2>2 DEF File!RecvFd, File!TakeOver, File!socketVars
  <2>3. CASE to[from[r]] # r
    BY <1>11, <2>1, <2>3 DEF File!RecvFd, File!socketVars
  <2> QED BY <2>2, <2>3
<1>12. CASE File!ClientWrite(r)
  BY <1>12 DEF File!ClientWrite, File!socketVars
<1>13. CASE File!ClientClose(r)
  BY <1>2, <1>13 DEF File!ClientClose, File!socketVars
<1> QED BY <1>1, <1>4, <1>5, <1>6, <1>7, <1>8, <1>9, <1>10, <1>11, <1>12, <1>13
           DEF File!ServerRuns, File!ClientRuns

\* A write at the end leaves what was there, and is the author's first.
LEMMA AppendedBy ==
  ASSUME FileTypes, Appended, NEW w \in Authors, text' = Append(text, w), OldTexts \in Nat
  PROVE  /\ OldTexts <= Len(text') /\ \A i \in 1 .. OldTexts : text'[i] = File!Old
         /\ \A x : HasText(text', x) <=> (x = w \/ HasText(text, x))
<1>1. text \in Seq(Authors) /\ Len(text) \in Nat /\ DOMAIN text = 1 .. Len(text)
  BY DEF FileTypes
<1>2. /\ Len(text') = Len(text) + 1 /\ DOMAIN text' = 1 .. Len(text) + 1
      /\ \A i \in 1 .. Len(text) : text'[i] = text[i]
      /\ text'[Len(text) + 1] = w
  BY <1>1
<1>3. OldTexts <= Len(text) /\ \A i \in 1 .. OldTexts : text[i] = File!Old
  BY DEF Appended
<1>4. \A i \in 1 .. OldTexts : i \in 1 .. Len(text)
  BY <1>1, <1>3
<1>5. \A i \in 1 .. Len(text) + 1 : i \in 1 .. Len(text) \/ i = Len(text) + 1
  BY <1>1
<1>6. Len(text) + 1 \in 1 .. Len(text) + 1 /\ \A i \in 1 .. Len(text) : i \in 1 .. Len(text) + 1
  BY <1>1
<1>7. OldTexts <= Len(text')
  BY <1>1, <1>2, <1>3
<1>8. ASSUME NEW x PROVE HasText(text', x) <=> (x = w \/ HasText(text, x))
  BY <1>1, <1>2, <1>5, <1>6 DEF HasText
<1>9. \A i \in 1 .. OldTexts : text'[i] = File!Old
  BY <1>2, <1>3, <1>4
<1> QED BY <1>7, <1>8, <1>9

\* With O_APPEND, what is written follows what was there.
LEMMA AppendedStays ==
  File!RunsAssumption /\ FileInv /\ FileNext /\ way = "pair" => Appended' /\ way' = way
<1> SUFFICES ASSUME File!RunsAssumption, FileInv, FileNext, way = "pair"
             PROVE  Appended' /\ way' = way
  OBVIOUS
<1>1. PICK r \in Runs : File!ServerRuns(r) \/ File!ClientRuns(r)
  BY DEF FileNext
<1>2. FileTypes /\ Appended /\ Connected /\ OldTexts \in Nat
  BY DEF FileInv, File!RunsAssumption
<1>3. way' = way
  BY <1>1 DEF File!ServerRuns, File!ClientRuns, File!Bind, File!Accept, File!Open, File!Write,
     File!SendFd, File!Close, File!Connect, File!RecvFd, File!ClientWrite, File!ClientClose
<1>4. /\ from[r] = r /\ to[r] = r /\ client[r] # "connect"
      /\ server[r] \notin {"bind", "accept"}
  BY <1>2 DEF Appended
<1>5. File!Server(r) \in Authors /\ File!Client(r) \in Authors
  BY AuthorsDiffer
<1> USE DEF FileTypes, File!Written
<1>6. CASE File!Bind(r) \/ File!Accept(r) \/ File!Connect(r)
  BY <1>4, <1>6 DEF File!Bind, File!Accept, File!Connect
<1>7. CASE File!Open(r) \/ File!SendFd(r) \/ File!Close(r)
  <2>1. UNCHANGED <<text, client, from, to>>
    BY <1>7 DEF File!Open, File!SendFd, File!Close, File!socketVars
  <2>2. \A s \in Runs : (File!Written(s)' <=> File!Written(s))
                        /\ server'[s] \notin {"bind", "accept"}
    BY <1>2, <1>7 DEF File!Open, File!SendFd, File!Close, File!socketVars, Appended
  <2> QED BY <1>2, <1>3, <2>1, <2>2 DEF Appended, HasText
<1>8. CASE File!RecvFd(r) \/ File!ClientClose(r)
  <2>1. UNCHANGED <<text, server, from, to>>
    BY <1>8 DEF File!RecvFd, File!ClientClose, File!socketVars
  <2>2. \A c \in Runs : /\ client'[c] \in {"close", "end"} <=> client[c] \in {"close", "end"}
                        /\ client'[c] # "connect"
    BY <1>2, <1>4, <1>8 DEF File!RecvFd, File!ClientClose, Appended
  <2>3. /\ \A s \in Runs : File!Written(s)' <=> File!Written(s)
        /\ \A x : HasText(text', x) <=> HasText(text, x)
    BY <2>1 DEF HasText
  <2> HIDE DEF FileTypes
  <2> QED BY <1>2, <1>3, <2>1, <2>2, <2>3 DEF Appended
<1>9. CASE File!Write(r)
  <2>1. text' = Append(text, File!Server(r))
    BY <1>2, <1>5, <1>9, PutAtEnd DEF File!Write
  <2>2. UNCHANGED <<client, from, to>>
    BY <1>9 DEF File!Write, File!socketVars
  <2>3. \A s \in Runs : /\ File!Written(s)' <=> (s = r \/ File!Written(s))
                        /\ server'[s] \notin {"bind", "accept"}
    BY <1>2, <1>9 DEF File!Write, Appended
  <2>4. /\ OldTexts <= Len(text') /\ \A i \in 1 .. OldTexts : text'[i] = File!Old
        /\ \A x : HasText(text', x) <=> (x = File!Server(r) \/ HasText(text, x))
    BY <1>2, <1>5, <2>1, AppendedBy
  <2>5. \A s \in Runs : /\ File!Server(s) = File!Server(r) <=> s = r
                        /\ File!Client(s) # File!Server(r)
    BY AuthorsDiffer
  <2> HIDE DEF FileTypes
  <2>6. ASSUME NEW s \in Runs
        PROVE  /\ File!Written(s)' <=> HasText(text', File!Server(s))
               /\ client'[s] \in {"close", "end"} <=> HasText(text', File!Client(s))
    <3>1. /\ File!Written(s) <=> HasText(text, File!Server(s))
          /\ client[s] \in {"close", "end"} <=> HasText(text, File!Client(s))
      BY <1>2 DEF Appended
    <3> QED BY <2>2, <2>3, <2>4, <2>5, <3>1
  <2> QED BY <1>2, <1>3, <2>2, <2>3, <2>4, <2>6 DEF Appended
<1>10. CASE File!ClientWrite(r)
  <2>1. text' = Append(text, File!Client(r))
    BY <1>2, <1>4, <1>5, <1>10, PutAtEnd DEF File!ClientWrite
  <2>2. UNCHANGED <<server, from, to>>
    BY <1>10 DEF File!ClientWrite, File!socketVars
  <2>3. \A c \in Runs : /\ client'[c] \in {"close", "end"} <=>
                              (c = r \/ client[c] \in {"close", "end"})
                        /\ client'[c] # "connect"
    BY <1>2, <1>10 DEF File!ClientWrite, Appended
  <2>4. /\ OldTexts <= Len(text') /\ \A i \in 1 .. OldTexts : text'[i] = File!Old
        /\ \A x : HasText(text', x) <=> (x = File!Client(r) \/ HasText(text, x))
    BY <1>2, <1>5, <2>1, AppendedBy
  <2>5. \A s \in Runs : /\ File!Client(s) = File!Client(r) <=> s = r
                        /\ File!Server(s) # File!Client(r)
    BY AuthorsDiffer
  <2>7. \A s \in Runs : File!Written(s)' <=> File!Written(s)
    BY <2>2
  <2> HIDE DEF FileTypes
  <2>6. ASSUME NEW s \in Runs
        PROVE  /\ File!Written(s)' <=> HasText(text', File!Server(s))
               /\ client'[s] \in {"close", "end"} <=> HasText(text', File!Client(s))
    <3>1. /\ File!Written(s) <=> HasText(text, File!Server(s))
          /\ client[s] \in {"close", "end"} <=> HasText(text, File!Client(s))
      BY <1>2 DEF Appended
    <3> QED BY <2>3, <2>4, <2>5, <2>7, <3>1
  <2>8. \A s \in Runs : server'[s] \notin {"bind", "accept"}
    BY <1>2, <2>2 DEF Appended
  <2> QED BY <1>2, <1>3, <2>2, <2>3, <2>4, <2>6, <2>8 DEF Appended
<1> QED BY <1>1, <1>6, <1>7, <1>8, <1>9, <1>10 DEF File!ServerRuns, File!ClientRuns

\* A write in place: the server's is at the beginning, and its client's behind it.
LEMMA InPlaceStays ==
  FileInv /\ FileNext /\ way = "socket" => InPlace' /\ way' = way
<1> SUFFICES ASSUME FileInv, FileNext, way = "socket"
             PROVE  InPlace' /\ way' = way
  OBVIOUS
<1>1. PICK r \in Runs : File!ServerRuns(r) \/ File!ClientRuns(r)
  BY DEF FileNext
<1>2. FileTypes /\ InPlace /\ Connected
  BY DEF FileInv
<1>3. way' = way
  BY <1>1 DEF File!ServerRuns, File!ClientRuns, File!Bind, File!Accept, File!Open, File!Write,
     File!SendFd, File!Close, File!Connect, File!RecvFd, File!ClientWrite, File!ClientClose
<1>4. File!Server(r) \in Authors /\ File!Client(r) \in Authors
  BY AuthorsDiffer
<1>5. ASSUME UNCHANGED <<text, offset>>, \A s \in Runs : File!Written(s)' <=> File!Written(s)
      PROVE  InPlace'
  BY <1>2, <1>5 DEF InPlace
<1> USE DEF FileTypes, File!Written
<1>6. CASE File!Bind(r) \/ File!Accept(r) \/ File!Open(r) \/ File!SendFd(r) \/ File!Close(r)
  <2>1. UNCHANGED <<text, offset>> /\ \A s \in Runs : File!Written(s)' <=> File!Written(s)
    BY <1>2, <1>6 DEF File!Bind, File!Accept, File!Open, File!SendFd, File!Close,
       File!socketVars
  <2> QED BY <1>3, <1>5, <2>1
<1>7. CASE File!Connect(r) \/ File!RecvFd(r) \/ File!ClientClose(r)
  <2>1. UNCHANGED <<text, offset, server>>
    BY <1>7 DEF File!Connect, File!RecvFd, File!ClientClose
  <2> QED BY <1>3, <1>5, <2>1
<1>8. ASSUME NEW s \in Runs, NEW w \in Authors, File!Put(s, w),
             \/ w = File!Server(s) /\ offset[s] = 0
             \/ (\E c \in Runs : w = File!Client(c)) /\ offset[s] >= 1,
             \A q \in Runs : File!Written(q)' <=> (q = s \/ File!Written(q))
      PROVE  InPlace'
  <2>1. offset[s] <= Len(text) /\ offset[s] \in Nat /\ Len(text) \in Nat
    BY <1>2 DEF InPlace
  <2>2. /\ offset' = [offset EXCEPT ![s] = offset[s] + 1]
        /\ Len(text') \in Nat /\ Len(text') >= Len(text) /\ Len(text') >= offset[s] + 1
        /\ \A i \in DOMAIN text' : \/ i = offset[s] + 1 /\ text'[i] = w
                                   \/ i \in DOMAIN text /\ text'[i] = text[i]
    BY <1>2, <1>8, <2>1, PutInside
  <2>3. \A q \in Runs : offset[q] \in Nat /\ offset'[q] = IF q = s THEN offset[s] + 1 ELSE offset[q]
    BY <1>2, <2>2
  <2>4. ASSUME NEW q \in Runs
        PROVE  /\ offset'[q] <= Len(text')
               /\ File!Written(q)' => offset'[q] >= 1
               /\ ~ File!Written(q)' => offset'[q] = 0
    <3> HIDE DEF File!Written, FileTypes
    <3>1. /\ offset[q] <= Len(text) /\ (File!Written(q) => offset[q] >= 1)
          /\ (~ File!Written(q) => offset[q] = 0)
      BY <1>2 DEF InPlace
    <3>2. CASE q = s
      <4>1. offset'[q] = offset[s] + 1 /\ File!Written(q)'
        BY <1>8, <2>3, <3>2
      <4> QED BY <2>1, <2>2, <4>1
    <3>3. CASE q # s
      <4>1. offset'[q] = offset[q] /\ (File!Written(q)' <=> File!Written(q))
        BY <1>8, <2>3, <3>3
      <4> QED BY <2>1, <2>2, <2>3, <3>1, <4>1
    <3> QED BY <3>2, <3>3
  <2>5. ASSUME NEW q \in Runs, NEW i \in DOMAIN text'
        PROVE  /\ text'[i] = File!Server(q) => i = 1
               /\ text'[i] = File!Client(q) => i # 1
    <3>1. CASE i \in DOMAIN text /\ text'[i] = text[i]
      BY <1>2, <3>1 DEF InPlace
    <3>2. CASE i = offset[s] + 1 /\ text'[i] = w
      <4>1. CASE w = File!Server(s) /\ offset[s] = 0
        BY <3>2, <4>1, AuthorsDiffer
      <4>2. CASE (\E c \in Runs : w = File!Client(c)) /\ offset[s] >= 1
        <5>1. i # 1
          BY <2>1, <3>2, <4>2
        <5>2. w # File!Server(q)
          BY <4>2, AuthorsDiffer
        <5> QED BY <3>2, <5>1, <5>2
      <4> QED BY <1>8, <4>1, <4>2
    <3> QED BY <2>2, <3>1, <3>2
  <2> QED BY <2>4, <2>5 DEF InPlace
<1>9. CASE File!Write(r)
  <2>1. offset[r] = 0
    BY <1>2, <1>9 DEF InPlace, File!Write
  <2>2. \A q \in Runs : File!Written(q)' <=> (q = r \/ File!Written(q))
    BY <1>2, <1>9 DEF File!Write
  <2>3. File!Put(r, File!Server(r))
    BY <1>9 DEF File!Write
  <2>4. InPlace'
    BY <1>4, <1>8, <2>1, <2>2, <2>3
  <2> QED BY <1>3, <2>4
<1>10. CASE File!ClientWrite(r)
  <2>1. from[r] \in Runs /\ File!Written(from[r])
    BY <1>2, <1>10 DEF File!ClientWrite, Connected
  <2>2. offset[from[r]] >= 1
    BY <1>2, <2>1 DEF InPlace
  <2>3. \A q \in Runs : File!Written(q)' <=> (q = from[r] \/ File!Written(q))
    BY <1>2, <1>10, <2>1 DEF File!ClientWrite
  <2> QED BY <1>3, <1>4, <1>8, <1>10, <2>1, <2>2, <2>3 DEF File!ClientWrite
<1> QED BY <1>1, <1>3, <1>6, <1>7, <1>9, <1>10 DEF File!ServerRuns, File!ClientRuns

\* Every step keeps the invariant.
LEMMA FileStays ==
  ASSUME File!RunsAssumption
  PROVE  FileInv /\ (FileNext \/ UNCHANGED File!fileVars) => FileInv'
<1>1. ASSUME FileInv, FileNext PROVE FileInv'
  <2>1. way \in {"pair", "socket"}
    BY <1>1 DEF FileInv, FileTypes
  <2> QED BY <1>1, <2>1, FileTypesStay, ConnectedStays, AppendedStays, InPlaceStays DEF FileInv
<1>2. FileInv /\ UNCHANGED File!fileVars => FileInv'
  BY DEF FileInv, FileTypes, Connected, Appended, HasText, InPlace, File!Written, File!fileVars,
     File!socketVars
<1> QED BY <1>1, <1>2

\* What the invariant is for.
LEMMA FileHandedOver == File!RunsAssumption /\ FileInv => File!AfterServer
<1> SUFFICES ASSUME File!RunsAssumption, FileInv PROVE File!AfterServer
  OBVIOUS
<1>1. CASE way = "pair"
  <2>1. \A r \in Runs : File!HasWritten(r) <=> client[r] \in {"close", "end"}
    BY <1>1 DEF FileInv, Appended, File!HasWritten, File!RunsAssumption
  <2> QED BY <1>1, <2>1 DEF FileInv, Appended, HasText, File!AfterServer, File!Places
<1>2. CASE way = "socket"
  BY <1>2 DEF FileInv, InPlace, File!AfterServer, File!Places
<1> QED BY <1>1, <1>2 DEF FileInv, FileTypes

-----------------------------------------------------------------------------
(* 16-UnixSockets/passingTCPSocket.                                          *)

ConnNext == Connection!Server \/ Connection!Sender \/ Connection!Receiver

\* The pieces of replies.
Replies == [to : Nat, piece : Nat]

ConnTypes ==
  /\ asked \in Nat /\ toServer \in Seq(Nat)
  /\ toUser \in Seq(Replies) /\ shown \in Seq(Replies)
  /\ sender \in {"connect", "send", "recv", "accept", "close", "end"}
  /\ receiver \in {"connect", "wait", "send", "recv", "end"}

\* Where the descriptor is.
Descriptors ==
  /\ sender \notin {"connect", "end"} => "sender" \in holders
  /\ "transit" \in holders => sender \in {"close", "end"}
  /\ receiver \in {"send", "recv"} => "receiver" \in holders /\ sender \in {"close", "end"}
  /\ sender \in {"close", "end"} /\ receiver = "wait" => "transit" \in holders
  /\ sender \in {"close", "end"} => receiver # "connect"

\* The texts on their way are later than those that were replied to.
AllReplies == shown \o toUser
Ordered(q) ==
  \A i \in DOMAIN q :
    i > 1 => \/ q[i].to > q[i-1].to /\ q[i].piece = 1
             \/ q[i].to = q[i-1].to /\ q[i].piece = q[i-1].piece + 1
InOrder ==
  /\ \A j \in DOMAIN toServer : /\ toServer[j] <= asked
                                /\ \A k \in DOMAIN toServer : j < k => toServer[j] < toServer[k]
  /\ \A i \in DOMAIN AllReplies : /\ AllReplies[i].to <= asked
                                  /\ \A j \in DOMAIN toServer : AllReplies[i].to < toServer[j]
  /\ Ordered(AllReplies)

ConnInv == ConnTypes /\ Descriptors /\ InOrder

\* What one recv takes is moved from the one end to the other.
LEMMA ReceiveMoves ==
  ASSUME ConnTypes, Connection!Receive
  PROVE  /\ toUser' \in Seq(Replies) /\ shown' \in Seq(Replies)
         /\ AllReplies' = AllReplies
         /\ UNCHANGED <<asked, toServer>>
<1>1. PICK n \in 1 .. Len(toUser) :
        /\ shown' = shown \o SubSeq(toUser, 1, n)
        /\ toUser' = SubSeq(toUser, n + 1, Len(toUser))
        /\ UNCHANGED <<asked, toServer>>
  BY DEF Connection!Receive
<1>2. Len(toUser) \in Nat /\ n \in Nat /\ n >= 1 /\ n <= Len(toUser)
  BY DEF ConnTypes
<1>3. /\ 1 \in 1 .. Len(toUser) + 1 /\ n \in 1 - 1 .. Len(toUser)
      /\ Len(toUser) \in n .. Len(toUser)
  BY <1>2
<1>4. SubSeq(toUser, 1, n) \o SubSeq(toUser, n + 1, Len(toUser)) = toUser
  BY <1>3, ConcatAdjacentSubSeq, SubSeqFull DEF ConnTypes
<1>5. SubSeq(toUser, 1, n) \in Seq(Replies) /\ SubSeq(toUser, n + 1, Len(toUser)) \in Seq(Replies)
  BY <1>2 DEF ConnTypes
<1>6. (shown \o SubSeq(toUser, 1, n)) \o SubSeq(toUser, n + 1, Len(toUser)) = shown \o toUser
  <2>1. shown \in Seq(Replies)
    BY DEF ConnTypes
  <2>2. (shown \o SubSeq(toUser, 1, n)) \o SubSeq(toUser, n + 1, Len(toUser))
          = shown \o (SubSeq(toUser, 1, n) \o SubSeq(toUser, n + 1, Len(toUser)))
    <3>1. PICK u : u = SubSeq(toUser, 1, n)
      OBVIOUS
    <3>2. PICK v : v = SubSeq(toUser, n + 1, Len(toUser))
      OBVIOUS
    <3>3. (shown \o u) \o v = shown \o (u \o v)
      <4>1. u \in Seq(Replies) /\ v \in Seq(Replies)
        BY <1>5, <3>1, <3>2
      <4> QED BY ONLY <2>1, <4>1, ConcatAssociative, SMTT(20)
    <3> QED BY <3>1, <3>2, <3>3
  <2> QED BY <1>4, <2>2
<1>7. shown' \in Seq(Replies)
  BY <1>1, <1>5 DEF ConnTypes
<1> QED BY <1>1, <1>5, <1>6, <1>7 DEF AllReplies

\* A reply comes behind all others.
LEMMA EchoAppends ==
  ASSUME ConnInv, NEW n \in Nat, toServer # <<>>,
         toUser' = toUser \o Connection!Reply(toServer, n), shown' = shown,
         toServer' = <<>>, asked' = asked
  PROVE  toUser' \in Seq(Replies) /\ InOrder'
<1> DEFINE R == Connection!Reply(toServer, n)
<1>1. Head(toServer) = toServer[1] /\ 1 \in DOMAIN toServer /\ toServer[1] \in Nat
  BY DEF ConnInv, ConnTypes
<1>2. /\ R \in Seq(Replies) /\ Len(R) = n
      /\ \A i \in 1 .. n : R[i].to = toServer[1] /\ R[i].piece = i
  <2>1. R = [i \in 1 .. n |-> [to |-> toServer[1], piece |-> i]]
    BY <1>1 DEF Connection!Reply
  <2>2. R \in [1 .. n -> Replies]
    BY <1>1, <2>1 DEF Replies
  <2>3. R \in Seq(Replies) /\ Len(R) = n
    BY <2>2
  <2>4. \A i \in 1 .. n : R[i] = [to |-> toServer[1], piece |-> i]
    BY <2>1
  <2> QED BY <2>3, <2>4
<1> HIDE DEF R
<1>3. toUser' \in Seq(Replies) /\ toUser' = toUser \o R
  <2>1. toUser' = toUser \o R
    BY DEF R
  <2>2. toUser \in Seq(Replies)
    BY DEF ConnInv, ConnTypes
  <2> QED BY <1>2, <2>1, <2>2
<1>4. AllReplies' = AllReplies \o R /\ AllReplies \in Seq(Replies)
  <2>1. shown \in Seq(Replies) /\ toUser \in Seq(Replies)
    BY DEF ConnInv, ConnTypes
  <2>2. shown \o (toUser \o R) = (shown \o toUser) \o R
    BY <1>2, <2>1, ConcatAssociative, SMTT(20)
  <2> QED BY <1>3, <2>1, <2>2 DEF AllReplies
<1>5. PICK q : q = AllReplies
  OBVIOUS
<1>6. q \in Seq(Replies) /\ Len(q) \in Nat /\ DOMAIN q = 1 .. Len(q)
  BY <1>4, <1>5
<1>7. PICK z : z = AllReplies'
  OBVIOUS
<1>8. /\ z \in Seq(Replies) /\ Len(z) = Len(q) + n /\ DOMAIN z = 1 .. Len(q) + n
      /\ \A i \in 1 .. Len(q) + n : z[i] = IF i <= Len(q) THEN q[i] ELSE R[i - Len(q)]
  BY <1>2, <1>4, <1>5, <1>6, <1>7, ConcatProperties
<1>9. \A i \in 1 .. Len(q) : /\ q[i] \in Replies /\ q[i].to \in Nat /\ q[i].piece \in Nat
                             /\ q[i].to <= asked /\ q[i].to < toServer[1]
  <2> TAKE i \in 1 .. Len(q)
  <2>1. q[i] \in Replies
    BY <1>6
  <2>2. i \in DOMAIN AllReplies /\ q[i] = AllReplies[i]
    BY <1>5, <1>6
  <2>3. q[i].to <= asked /\ q[i].to < toServer[1]
    BY <1>1, <2>2 DEF ConnInv, InOrder
  <2>4. q[i].to \in Nat /\ q[i].piece \in Nat
    BY <2>1 DEF Replies
  <2> QED BY <2>1, <2>3, <2>4
<1>10. toServer[1] <= asked
  BY <1>1 DEF ConnInv, InOrder
<1>11. Ordered(q)
  BY <1>5 DEF ConnInv, InOrder
<1>12. ASSUME NEW i \in 1 .. Len(q) + n PROVE z[i].to <= asked
  <2>1. CASE i <= Len(q)
    BY <1>6, <1>8, <1>9, <2>1
  <2>2. CASE i > Len(q)
    <3>1. i - Len(q) \in 1 .. n /\ ~ (i <= Len(q))
      BY <1>6, <2>2
    <3>2. z[i] = R[i - Len(q)]
      BY <1>8, <3>1
    <3> QED BY <1>2, <1>10, <3>1, <3>2
  <2> QED BY <1>6, <2>1, <2>2
<1>13. ASSUME NEW i \in 1 .. Len(q) + n, i > 1
       PROVE  \/ z[i].to > z[i-1].to /\ z[i].piece = 1
              \/ z[i].to = z[i-1].to /\ z[i].piece = z[i-1].piece + 1
  <2>0. i - 1 \in 1 .. Len(q) + n
    BY <1>6, <1>13
  <2>1. CASE i <= Len(q)
    <3>1. z[i] = q[i] /\ z[i-1] = q[i-1] /\ i \in DOMAIN q
      BY <1>6, <1>8, <2>0, <2>1
    <3> QED BY <1>11, <1>13, <3>1 DEF Ordered
  <2>2. CASE i = Len(q) + 1
    <3>1. /\ 1 \in 1 .. n /\ i - 1 \in 1 .. Len(q) /\ i - 1 <= Len(q)
          /\ ~ (i <= Len(q)) /\ i - Len(q) = 1
      BY <1>6, <1>13, <2>2
    <3>2. z[i] = R[1] /\ z[i-1] = q[i-1]
      BY <1>8, <1>13, <2>0, <3>1
    <3>3. q[i-1].to < toServer[1] /\ q[i-1].to \in Nat
      BY <1>9, <3>1
    <3>4. R[1].to = toServer[1] /\ R[1].piece = 1
      BY <1>2, <3>1
    <3> QED BY <1>1, <3>2, <3>3, <3>4
  <2>3. CASE i > Len(q) + 1
    <3>1. PICK k : k = i - Len(q)
      OBVIOUS
    <3>2. /\ k \in 1 .. n /\ k - 1 \in 1 .. n /\ i - 1 - Len(q) = k - 1 /\ k - 1 + 1 = k
          /\ ~ (i <= Len(q)) /\ ~ (i - 1 <= Len(q))
      BY <1>6, <2>3, <3>1
    <3>3. z[i] = R[k] /\ z[i-1] = R[k - 1]
      BY <1>8, <1>13, <2>0, <3>1, <3>2
    <3>4. R[k].to = R[k-1].to /\ R[k].piece = k /\ R[k-1].piece = k - 1
      BY <1>2, <3>2
    <3> QED BY <3>2, <3>3, <3>4
  <2>4. i <= Len(q) \/ i = Len(q) + 1 \/ i > Len(q) + 1
    BY <1>6
  <2> QED BY <2>1, <2>2, <2>3, <2>4
<1>14. Ordered(z)
  BY <1>8, <1>13 DEF Ordered
<1>15. DOMAIN (toServer') = {}
  OBVIOUS
<1> QED BY <1>3, <1>7, <1>8, <1>12, <1>14, <1>15 DEF InOrder

\* Types and the order of the replies.
LEMMA AskLater ==
  ASSUME ConnInv, Connection!Ask
  PROVE  asked' \in Nat /\ toServer' \in Seq(Nat) /\ InOrder' /\ UNCHANGED <<toUser, shown>>
<1>1. PICK n \in Nat : n = asked + 1 /\ asked' = n /\ toServer' = Append(toServer, n)
  BY DEF Connection!Ask, ConnInv, ConnTypes
<1>2. asked \in Nat /\ asked <= n /\ asked < n
  BY <1>1 DEF ConnInv, ConnTypes
<1>3. PICK t : t = toServer
  OBVIOUS
<1>4. /\ t \in Seq(Nat) /\ Len(t) \in Nat /\ DOMAIN t = 1 .. Len(t)
      /\ \A j \in 1 .. Len(t) : t[j] \in Nat
  BY <1>3 DEF ConnInv, ConnTypes
<1>5. PICK z : z = toServer'
  OBVIOUS
<1>6. /\ z \in Seq(Nat) /\ DOMAIN z = 1 .. Len(t) + 1 /\ z[Len(t) + 1] = n
      /\ \A j \in 1 .. Len(t) : z[j] = t[j]
  BY <1>1, <1>3, <1>4, <1>5
<1>7. AllReplies' = AllReplies
  BY DEF AllReplies, Connection!Ask
<1>8. \A j \in 1 .. Len(t) : t[j] <= asked /\ \A k \in 1 .. Len(t) : j < k => t[j] < t[k]
  BY <1>3, <1>4 DEF ConnInv, InOrder
<1>9. ASSUME NEW j \in 1 .. Len(t) + 1
      PROVE  z[j] <= n /\ \A k \in 1 .. Len(t) + 1 : j < k => z[j] < z[k]
  <2>1. CASE j = Len(t) + 1
    <3>1. \A k \in 1 .. Len(t) + 1 : ~ (j < k)
      BY <1>4, <2>1
    <3> QED BY <1>1, <1>6, <2>1, <3>1
  <2>2. CASE j \in 1 .. Len(t)
    <3>1. z[j] = t[j] /\ t[j] \in Nat /\ t[j] <= asked
      BY <1>4, <1>6, <1>8, <2>2
    <3>2. z[j] \in Nat /\ z[j] <= n /\ z[j] < n
      BY <1>2, <3>1
    <3>3. ASSUME NEW k \in 1 .. Len(t) + 1, j < k PROVE z[j] < z[k]
      <4>1. CASE k = Len(t) + 1
        BY <1>6, <3>2, <4>1
      <4>2. CASE k \in 1 .. Len(t)
        BY <1>6, <1>8, <2>2, <3>3, <4>2
      <4> QED BY <1>4, <4>1, <4>2
    <3> QED BY <3>2, <3>3
  <2> QED BY <1>4, <2>1, <2>2
<1>10. ASSUME NEW i \in DOMAIN AllReplies
       PROVE  /\ AllReplies[i].to <= n
              /\ \A j \in 1 .. Len(t) + 1 : AllReplies[i].to < z[j]
  <2>1. AllReplies[i].to \in Nat
    <3>1. AllReplies \in Seq(Replies)
      BY DEF AllReplies, ConnInv, ConnTypes
    <3>2. AllReplies[i] \in Replies
      BY <3>1
    <3> QED BY <3>2 DEF Replies
  <2>2. AllReplies[i].to <= asked /\ \A j \in 1 .. Len(t) : AllReplies[i].to < t[j]
    BY <1>3, <1>4 DEF ConnInv, InOrder
  <2>3. AllReplies[i].to < n /\ AllReplies[i].to <= n
    BY <1>2, <2>1, <2>2
  <2>4. \A j \in 1 .. Len(t) + 1 : j \in 1 .. Len(t) \/ j = Len(t) + 1
    BY <1>4
  <2> QED BY <1>6, <2>2, <2>3, <2>4
<1>11. Ordered(AllReplies)
  BY DEF ConnInv, InOrder
<1>12. UNCHANGED <<toUser, shown>>
  BY DEF Connection!Ask
<1>13. InOrder'
  BY <1>1, <1>5, <1>6, <1>7, <1>9, <1>10, <1>11 DEF InOrder
<1> QED BY <1>1, <1>5, <1>6, <1>12, <1>13

\* InOrder is about these variables only.
LEMMA OrderStays ==
  ASSUME ConnInv, UNCHANGED <<asked, toServer>>, AllReplies' = AllReplies
  PROVE  InOrder'
BY DEF ConnInv, InOrder

\* The program starts so.
LEMMA ConnInit == Connection!Init => ConnInv
<1> SUFFICES ASSUME Connection!Init PROVE ConnInv
  OBVIOUS
<1>1. ConnTypes
  <2>1. <<>> \in Seq(Nat) /\ <<>> \in Seq(Replies)
    OBVIOUS
  <2> QED BY <2>1 DEF ConnTypes, Connection!Init
<1>2. Descriptors
  BY DEF Descriptors, Connection!Init
<1>3. toServer = <<>> /\ AllReplies = <<>>
  BY DEF AllReplies, Connection!Init
<1>4. InOrder
  BY <1>3 DEF InOrder, Ordered
<1> QED BY <1>1, <1>2, <1>4 DEF ConnInv

\* ConnTypes and InOrder in every step.
LEMMA RepliesStay ==
  ASSUME Pieces \subseteq Nat
  PROVE  ConnInv /\ ConnNext => ConnTypes' /\ InOrder'
<1> SUFFICES ASSUME ConnInv, ConnNext PROVE ConnTypes' /\ InOrder'
  OBVIOUS
<1>0. ConnTypes
  BY DEF ConnInv
<1>1. ASSUME UNCHANGED <<asked, toServer, toUser, shown>>
      PROVE  /\ InOrder' /\ asked' \in Nat /\ toServer' \in Seq(Nat)
             /\ toUser' \in Seq(Replies) /\ shown' \in Seq(Replies)
  BY <1>0, <1>1, OrderStays DEF ConnTypes, AllReplies
<1>2. ASSUME Connection!Ask
      PROVE  /\ InOrder' /\ asked' \in Nat /\ toServer' \in Seq(Nat)
             /\ toUser' \in Seq(Replies) /\ shown' \in Seq(Replies)
  BY <1>0, <1>2, AskLater DEF ConnTypes
<1>3. ASSUME Connection!Receive
      PROVE  /\ InOrder' /\ asked' \in Nat /\ toServer' \in Seq(Nat)
             /\ toUser' \in Seq(Replies) /\ shown' \in Seq(Replies)
  BY <1>0, <1>3, ReceiveMoves, OrderStays DEF ConnTypes
<1>4. CASE Connection!AcceptConnection
  BY <1>0, <1>1, <1>4 DEF Connection!AcceptConnection, ConnTypes
<1>5. CASE Connection!Echo
  <2>1. PICK n \in Pieces : toUser' = toUser \o Connection!Reply(toServer, n)
    BY <1>5 DEF Connection!Echo
  <2>2. InOrder' /\ toUser' \in Seq(Replies)
    BY <1>5, <2>1, EchoAppends DEF Connection!Echo
  <2> QED BY <1>0, <1>5, <2>2 DEF Connection!Echo, ConnTypes
<1>6. CASE Connection!SenderConnect \/ Connection!Listen \/ Connection!SendFd
             \/ Connection!Close \/ Connection!ReceiverConnect \/ Connection!RecvFd
             \/ Connection!ReceiverDone
  BY <1>0, <1>1, <1>6 DEF Connection!SenderConnect, Connection!Listen, Connection!SendFd,
     Connection!Close, Connection!ReceiverConnect, Connection!RecvFd, Connection!ReceiverDone,
     ConnTypes
<1>7. CASE Connection!SenderAsk \/ Connection!ReceiverAsk
  BY <1>0, <1>2, <1>7 DEF Connection!SenderAsk, Connection!ReceiverAsk, ConnTypes
<1>8. CASE Connection!SenderReceive \/ Connection!ReceiverReceive
  BY <1>0, <1>3, <1>8 DEF Connection!SenderReceive, Connection!ReceiverReceive, ConnTypes
<1> QED BY <1>4, <1>5, <1>6, <1>7, <1>8 DEF ConnNext, Connection!Server, Connection!Sender,
           Connection!Receiver

\* The descriptor stays where the two programs believe it to be.
LEMMA DescriptorsStay == ConnInv /\ ConnNext => Descriptors'
<1> SUFFICES ASSUME ConnInv, ConnNext PROVE Descriptors'
  OBVIOUS
<1> USE DEF ConnInv, ConnTypes, Descriptors
<1>1. CASE Connection!Server
  BY <1>1 DEF Connection!Server, Connection!AcceptConnection, Connection!Echo
<1>2. CASE Connection!Sender
  BY <1>2 DEF Connection!Sender, Connection!SenderConnect, Connection!SenderAsk,
     Connection!SenderReceive, Connection!Listen, Connection!SendFd, Connection!Close
<1>3. CASE Connection!Receiver
  BY <1>3 DEF Connection!Receiver, Connection!ReceiverConnect, Connection!RecvFd,
     Connection!ReceiverAsk, Connection!ReceiverReceive, Connection!ReceiverDone
<1> QED BY <1>1, <1>2, <1>3 DEF ConnNext

\* Every step keeps the invariant.
LEMMA ConnStays ==
  ASSUME Pieces \subseteq Nat
  PROVE  ConnInv /\ (ConnNext \/ UNCHANGED Connection!connVars) => ConnInv'
<1>1. ConnInv /\ ConnNext => ConnInv'
  BY RepliesStay, DescriptorsStay DEF ConnInv
<1>2. ConnInv /\ UNCHANGED Connection!connVars => ConnInv'
  BY DEF ConnInv, ConnTypes, Descriptors, InOrder, AllReplies, Ordered, Connection!connVars
<1> QED BY <1>1, <1>2

\* What the invariant is for.
LEMMA ConnHandedOver == ConnInv => Connection!InTurn /\ Connection!OneUser
<1>1. ConnInv => Connection!InTurn
  BY DEF ConnInv, InOrder, Ordered, AllReplies, Connection!InTurn
<1>2. ConnInv => Connection!OneUser
  BY DEF ConnInv, ConnTypes, Descriptors, Connection!OneUser
<1> QED BY <1>1, <1>2

-----------------------------------------------------------------------------
(* One of the programs runs.                                                 *)

MessagesInv ==
  /\ program = "lab" => LabInv
  /\ program = "queue" => QueueInv
  /\ program = "fifo" => FifoInv
  /\ program = "bypass" => PassInv
  /\ program = "file" => FileInv
  /\ program = "connection" => ConnInv

\* A step of MCNext is one of the program that runs.
LEMMA OneProgram ==
  ASSUME MCNext \/ UNCHANGED allVars
  PROVE  /\ program' = program
         /\ program = "lab" => LabNext \/ UNCHANGED labVars
         /\ program = "queue" => QueueNext \/ UNCHANGED Queue!mqVars
         /\ program = "fifo" => FifoNext \/ UNCHANGED Fifo!chatVars
         /\ program = "bypass" => PassNext \/ UNCHANGED Pass!bypassVars
         /\ program = "file" => FileNext \/ UNCHANGED File!fileVars
         /\ program = "connection" => ConnNext \/ UNCHANGED Connection!connVars
<1>1. CASE LabStep
  BY <1>1 DEF LabStep, LabRest, LabNext
<1>2. CASE QueueStep
  BY <1>2 DEF QueueStep, QueueRest, Shared, QueueNext
<1>3. CASE FifoStep
  BY <1>3 DEF FifoStep, FifoRest, Shared, FifoNext
<1>4. CASE PassStep
  BY <1>4 DEF PassStep, PassRest, Shared, PassNext
<1>5. CASE FileStep
  BY <1>5 DEF FileStep, FileRest, FileNext
<1>6. CASE ConnectionStep
  BY <1>6 DEF ConnectionStep, ConnRest, ConnNext
<1>7. CASE UNCHANGED allVars
  <2>1. /\ program' = program
        /\ UNCHANGED <<labVars, typed, holders, queueOwn, fifoOwn, passOwn, fileOwn, connOwn>>
    BY <1>7 DEF allVars
  <2>2. UNCHANGED <<inbox, backlog, server, asked, got>>
    BY <2>1 DEF labVars, udpVars, tcpVars, clientVars
  <2>3. UNCHANGED Queue!mqVars
    BY <2>1 DEF queueOwn, Queue!mqVars
  <2>4. UNCHANGED Fifo!chatVars
    BY <2>1, <2>2 DEF fifoOwn, Fifo!chatVars, Fifo!clientFiles
  <2>5. UNCHANGED Pass!bypassVars
    BY <2>1, <2>2 DEF passOwn, Pass!bypassVars, Pass!udpVars, Pass!talkVars
  <2>6. UNCHANGED File!fileVars
    BY <2>1, <2>2 DEF fileOwn, File!fileVars, File!socketVars
  <2>7. UNCHANGED Connection!connVars
    BY <2>1, <2>2 DEF connOwn, Connection!connVars
  <2> QED BY <2>1, <2>3, <2>4, <2>5, <2>6, <2>7
<1> QED BY <1>1, <1>2, <1>3, <1>4, <1>5, <1>6, <1>7 DEF MCNext

\* Whichever program starts, it starts in its invariant.
LEMMA MessagesInit == ASSUME MCInit PROVE MessagesInv
<1>1. CASE program = "lab"
  <2>1. Init
    BY <1>1 DEF MCInit
  <2>2. LabInv
    BY <2>1, LabInit, LinesAssumption
  <2> QED BY <1>1, <2>2 DEF MessagesInv
<1>2. CASE program = "queue"
  <2>1. Queue!Init
    BY <1>2 DEF MCInit
  <2>2. QueueInv
    BY <2>1, QueueInit, MessagesAssumption
  <2> QED BY <1>2, <2>2 DEF MessagesInv
<1>3. CASE program = "fifo"
  <2>1. Fifo!Init
    BY <1>3 DEF MCInit
  <2>2. FifoInv
    BY <2>1, FifoInit, MessagesAssumption
  <2> QED BY <1>3, <2>2 DEF MessagesInv
<1>4. CASE program = "bypass"
  <2>1. Pass!Init
    BY <1>4 DEF MCInit
  <2>2. PassInv
    BY <2>1, PassInit
  <2> QED BY <1>4, <2>2 DEF MessagesInv
<1>5. CASE program = "file"
  <2>1. File!Init
    BY <1>5 DEF MCInit
  <2>2. FileInv
    BY <2>1, FileInit, MessagesAssumption
  <2> QED BY <1>5, <2>2 DEF MessagesInv
<1>6. CASE program = "connection"
  <2>1. Connection!Init
    BY <1>6 DEF MCInit
  <2>2. ConnInv
    BY <2>1, ConnInit
  <2> QED BY <1>6, <2>2 DEF MessagesInv
<1> QED BY <1>1, <1>2, <1>3, <1>4, <1>5, <1>6 DEF MessagesInv

\* Every step keeps it.
LEMMA MessagesStay ==
  ASSUME MessagesInv, MCNext \/ UNCHANGED allVars PROVE MessagesInv'
<1>0. program' = program
  BY OneProgram
<1>1. ASSUME program = "lab" PROVE LabInv'
  <2>1. LabInv /\ (LabNext \/ UNCHANGED labVars)
    BY <1>1, OneProgram DEF MessagesInv
  <2> QED BY <2>1, LabStays, LinesAssumption
<1>2. ASSUME program = "queue" PROVE QueueInv'
  <2>1. QueueInv /\ (QueueNext \/ UNCHANGED Queue!mqVars)
    BY <1>2, OneProgram DEF MessagesInv
  <2> QED BY <2>1, QueueStays, MessagesAssumption
<1>3. ASSUME program = "fifo" PROVE FifoInv'
  <2>1. FifoInv /\ (FifoNext \/ UNCHANGED Fifo!chatVars)
    BY <1>3, OneProgram DEF MessagesInv
  <2> QED BY <2>1, FifoStays, MessagesAssumption
<1>4. ASSUME program = "bypass" PROVE PassInv'
  <2>1. PassInv /\ (PassNext \/ UNCHANGED Pass!bypassVars)
    BY <1>4, OneProgram DEF MessagesInv
  <2> QED BY <2>1, PassStays
<1>5. ASSUME program = "file" PROVE FileInv'
  <2>1. FileInv /\ (FileNext \/ UNCHANGED File!fileVars)
    BY <1>5, OneProgram DEF MessagesInv
  <2> QED BY <2>1, FileStays, MessagesAssumption
<1>6. ASSUME program = "connection" PROVE ConnInv'
  <2>1. ConnInv /\ (ConnNext \/ UNCHANGED Connection!connVars)
    BY <1>6, OneProgram DEF MessagesInv
  <2> QED BY <2>1, ConnStays, MessagesAssumption
<1> QED BY <1>0, <1>1, <1>2, <1>3, <1>4, <1>5, <1>6 DEF MessagesInv

\* MessagesInv is an invariant.
LEMMA MessagesInvariant == MCSpec => []MessagesInv
<1>1. MCInit => MessagesInv
  BY MessagesInit
<1>2. MessagesInv /\ [MCNext]_allVars => MessagesInv'
  BY MessagesStay
<1> QED BY <1>1, <1>2, PTL DEF MCSpec

\* What is kept where has its type: F's services are different, no more than it has room for,
\* and the ones that were started; a thread stands for a client that was accepted; the chats'
\* files and queues hold what their users typed, and the two peers talk on what they opened.
THEOREM MessagesTypes == MCSpec => []MCTypeOK
<1>1. MessagesInv => MCTypeOK
  <2>1. PassInv => Pass!TypeOK
    BY DEF PassInv, PassTypes, Pass!TypeOK
  <2> QED BY <2>1, LabHandsOver, QueueHandsOver, FifoHandsOver DEF MessagesInv, MCTypeOK
<1> QED BY <1>1, MessagesInvariant, PTL

\* 17-LABMID: whoever is given an answer, it is to a client of the same service that was
\* accepted no later; no request is answered twice; a review that F puts into the message
\* queue is for the service whose user wrote it.
THEOREM LabAnswersHold == MCSpec => []LabAnswers
<1>1. MessagesInv => LabAnswers
  BY LabHandsOver DEF MessagesInv, LabAnswers
<1> QED BY <1>1, MessagesInvariant, PTL

\* 07-messageQ, 03-Echo+FIFO+Sem and 05-signal+groupchat: nobody is sent his own text, the
\* server knows who takes part, a text stays in its group, and those of one author arrive in
\* the order they were typed in, each once.
THEOREM ChatsHold == MCSpec => []Chats
<1>1. MessagesInv => Chats
  BY QueueHandsOver, FifoHandsOver DEF MessagesInv, Chats
<1> QED BY <1>1, MessagesInvariant, PTL

\* 13-Bypass and 16-UnixSockets: the two peers talk in turns, who gets an open file writes
\* after the server, and a passed connection has one user at a time, who goes on where the
\* one before it left off.
THEOREM HandedOverHolds == MCSpec => []HandedOver
<1>1. MessagesInv => HandedOver
  BY FileHandedOver, ConnHandedOver, MessagesAssumption DEF MessagesInv, PassInv, HandedOver
<1> QED BY <1>1, MessagesInvariant, PTL
=============================================================================
