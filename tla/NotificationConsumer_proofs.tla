--------------------- MODULE NotificationConsumer_proofs ---------------------
(***************************************************************************)
(* Proofs about NotificationConsumer, for any consumers, connections,      *)
(* channels and bounds: connections are returned clean, and between LISTEN *)
(* and UNLISTEN no notification is passed over or handled out of order.    *)
(***************************************************************************)
EXTENDS NotificationConsumer, SequenceTheorems, TLAPS

-----------------------------------------------------------------------------
(* The inductive invariant.                                                *)

(* The log is numbered, and what a connection holds of it is in order, the *)
(* buffer before what the server still has.                                *)
Before(s, t) == \A i \in DOMAIN s, j \in DOMAIN t : s[i].id < t[j].id

Log == Len(sent) <= MaxEvents /\ \A i \in DOMAIN sent : sent[i].id = i

Wire(k) ==
    /\ Genuine(buffer[k]) /\ Genuine(queue[k])
    /\ Increasing(buffer[k]) /\ Increasing(queue[k])
    /\ Before(buffer[k], queue[k])

Clean(k) == listens[k] = {} /\ queue[k] = <<>>

Exclusive == \A p, q \in Consumers : p # q /\ conn[p] # NoConn => conn[q] # conn[p]

(* A Listen between LISTEN and Return: the buffer of its connection is     *)
(* from before, the queue from since, and every event of the channel since *)
(* is handled or in the queue, until Listen leaves; what is handled comes  *)
(* before all that is not.                                                 *)
Waiting(p) == pc[p] \in {"wait", "handle"}

Handled(p) ==
    /\ Genuine(handled[p]) /\ Increasing(handled[p])
    /\ \A j \in DOMAIN handled[p] : Own(p, handled[p][j])
    /\ Before(handled[p], buffer[conn[p]]) /\ Before(handled[p], queue[conn[p]])

Complete(p) ==
    \A i \in (from[p] + 1)..Len(sent) : sent[i].channel = channel[p] =>
        /\ Waiting(p) => i \in Ids(handled[p]) \cup Ids(queue[conn[p]])
        /\ \A j \in DOMAIN handled[p] : i <= handled[p][j].id => i \in Ids(handled[p])

Following(p) ==
    /\ listens[conn[p]] \subseteq {channel[p]}
    /\ Waiting(p) => channel[p] \in listens[conn[p]]
    /\ from[p] <= Len(sent)
    /\ \A i \in DOMAIN buffer[conn[p]] : buffer[conn[p]][i].id <= from[p]
    /\ \A i \in DOMAIN queue[conn[p]] :
          queue[conn[p]][i].id > from[p] /\ queue[conn[p]][i].channel = channel[p]
    /\ Handled(p)
    /\ Complete(p)

Session(p) ==
    /\ conn[p] = NoConn <=> pc[p] \in {"idle", "acquire", "done"}
    /\ pc[p] \notin {"idle", "done"} => channel[p] \in Channels
    /\ pc[p] = "listen" => Clean(conn[p])
    /\ IF pc[p] \in {"wait", "handle", "unlisten"} THEN Following(p) ELSE handled[p] = <<>>

ConsumerInv ==
    /\ TypeOK /\ Log /\ Exclusive
    /\ \A k \in Conns : Wire(k)
    /\ \A k \in Idle : Clean(k)
    /\ \A p \in Consumers : Session(p)

-----------------------------------------------------------------------------
(* Sequences of events.                                                    *)

LEMMA EventsOf ==
    ASSUME NEW s \in Seq(Event)
    PROVE  /\ DOMAIN s = 1..Len(s) /\ Len(s) \in Nat
           /\ \A i \in DOMAIN s : s[i] \in Event /\ s[i].id \in Nat /\ s[i].channel \in Channels
<1>1. DOMAIN s = 1..Len(s) /\ Len(s) \in Nat
  BY LenProperties
<1>2. \A i \in DOMAIN s : s[i] \in Event
  BY <1>1, ElementOfSeq
<1>3. \A e \in Event : e.id \in Nat /\ e.channel \in Channels
  BY BoundsAssumption DEF Event
<1> QED BY <1>1, <1>2, <1>3

(* What is left when the first event is taken.                             *)
LEMMA TailFacts ==
    ASSUME NEW s \in Seq(Event), s # <<>>
    PROVE  /\ Tail(s) \in Seq(Event) /\ Head(s) = s[1] /\ 1 \in DOMAIN s
           /\ \A i \in DOMAIN Tail(s) : i + 1 \in DOMAIN s /\ Tail(s)[i] = s[i + 1]
           /\ \A i \in DOMAIN s : i # 1 => i - 1 \in DOMAIN Tail(s) /\ s[i] = Tail(s)[i - 1]
           /\ Ids(s) = {Head(s).id} \cup Ids(Tail(s))
           /\ Genuine(s) => Genuine(Tail(s))
           /\ Increasing(s) =>
                 Increasing(Tail(s)) /\ \A i \in DOMAIN Tail(s) : Head(s).id < Tail(s)[i].id
<1>1. /\ Tail(s) \in Seq(Event) /\ Head(s) = s[1] /\ Len(s) \in Nat /\ Len(s) >= 1
      /\ Len(Tail(s)) = Len(s) - 1
      /\ DOMAIN s = 1..Len(s) /\ DOMAIN Tail(s) = 1..(Len(s) - 1)
      /\ \A i \in 1..(Len(s) - 1) : Tail(s)[i] = s[i + 1]
  BY HeadTailProperties, EmptySeq, LenProperties
<1>2. \A i \in DOMAIN Tail(s) : i + 1 \in DOMAIN s /\ Tail(s)[i] = s[i + 1]
  BY <1>1
<1>3. \A i \in DOMAIN s : i # 1 => i - 1 \in DOMAIN Tail(s) /\ s[i] = Tail(s)[i - 1]
  BY <1>1
<1>4. 1 \in DOMAIN s
  BY <1>1
<1>5. Ids(s) = {Head(s).id} \cup Ids(Tail(s))
  <2>1. \A i \in DOMAIN s : s[i].id \in {Head(s).id} \cup Ids(Tail(s))
    BY <1>1, <1>3 DEF Ids
  <2>2. Head(s).id \in Ids(s)
    BY <1>1, <1>4 DEF Ids
  <2>3. \A i \in DOMAIN Tail(s) : Tail(s)[i].id \in Ids(s)
    BY <1>2 DEF Ids
  <2> QED BY <2>1, <2>2, <2>3 DEF Ids
<1>6. Genuine(s) => Genuine(Tail(s))
  BY <1>2 DEF Genuine
<1>7. Increasing(s) =>
        Increasing(Tail(s)) /\ \A i \in DOMAIN Tail(s) : Head(s).id < Tail(s)[i].id
  BY <1>1, <1>2, <1>4 DEF Increasing
<1> QED BY <1>1, <1>2, <1>3, <1>4, <1>5, <1>6, <1>7

(* What an event adds to a sequence.                                       *)
LEMMA AppendFacts ==
    ASSUME NEW s \in Seq(Event), NEW e \in Event
    PROVE  /\ Append(s, e) \in Seq(Event)
           /\ DOMAIN Append(s, e) = 1..(Len(s) + 1)
           /\ \A i \in DOMAIN s : i \in DOMAIN Append(s, e) /\ Append(s, e)[i] = s[i]
           /\ Len(s) + 1 \in DOMAIN Append(s, e) /\ Append(s, e)[Len(s) + 1] = e
           /\ \A i \in DOMAIN Append(s, e) : i \in DOMAIN s \/ i = Len(s) + 1
           /\ Ids(Append(s, e)) = Ids(s) \cup {e.id}
           /\ Increasing(s) /\ (\A i \in DOMAIN s : s[i].id < e.id) => Increasing(Append(s, e))
<1>1. /\ Append(s, e) \in Seq(Event) /\ Len(s) \in Nat
      /\ DOMAIN s = 1..Len(s) /\ DOMAIN Append(s, e) = 1..(Len(s) + 1)
      /\ \A i \in 1..Len(s) : Append(s, e)[i] = s[i]
      /\ Append(s, e)[Len(s) + 1] = e
  BY AppendProperties, LenProperties
<1>2. \A i \in DOMAIN Append(s, e) : i \in DOMAIN s \/ i = Len(s) + 1
  BY <1>1
<1>3. Ids(Append(s, e)) = Ids(s) \cup {e.id}
  <2>1. \A i \in DOMAIN s : i \in DOMAIN Append(s, e)
    BY <1>1
  <2> QED BY <1>1, <1>2, <2>1 DEF Ids
<1>4. Increasing(s) /\ (\A i \in DOMAIN s : s[i].id < e.id) => Increasing(Append(s, e))
  BY <1>1 DEF Increasing
<1> QED BY <1>1, <1>2, <1>3, <1>4

(* A first part of the queue moved behind the buffer.                      *)
LEMMA DrainFacts ==
    ASSUME NEW b \in Seq(Event), NEW q \in Seq(Event), NEW n \in 0..Len(q),
           Genuine(b), Genuine(q), Increasing(b), Increasing(q), Before(b, q)
    PROVE  /\ b \o SubSeq(q, 1, n) \in Seq(Event)
           /\ Genuine(b \o SubSeq(q, 1, n)) /\ Increasing(b \o SubSeq(q, 1, n))
<1> DEFINE r == SubSeq(q, 1, n)
           s == b \o r
<1>1. /\ r \in Seq(Event) /\ Len(r) = n /\ DOMAIN r = 1..n
      /\ \A i \in 1..n : r[i] = q[i] /\ i \in DOMAIN q
      /\ DOMAIN b = 1..Len(b) /\ Len(b) \in Nat /\ n \in Nat /\ DOMAIN q = 1..Len(q)
  BY SubSeqProperties, LenProperties
<1> HIDE DEF r
<1>2. /\ s \in Seq(Event) /\ DOMAIN s = 1..(Len(b) + n)
      /\ \A i \in 1..Len(b) : s[i] = b[i]
      /\ \A i \in (Len(b) + 1)..(Len(b) + n) : s[i] = r[i - Len(b)]
  <2>1. s \in Seq(Event) /\ Len(s) = Len(b) + n
    BY <1>1, ConcatProperties
  <2>2. \A i \in 1..Len(s) : s[i] = IF i <= Len(b) THEN b[i] ELSE r[i - Len(b)]
    BY <1>1, ConcatProperties
  <2>3. DOMAIN s = 1..Len(s)
    BY <2>1, LenProperties
  <2> QED BY <1>1, <2>1, <2>2, <2>3
<1> HIDE DEF s
<1>3. \A i \in DOMAIN s :
         \/ i \in Int /\ i <= Len(b) /\ i \in DOMAIN b /\ s[i] = b[i]
         \/ i \in Int /\ i > Len(b) /\ i - Len(b) \in DOMAIN q /\ s[i] = q[i - Len(b)]
  <2> TAKE i \in DOMAIN s
  <2>1. CASE i \in 1..Len(b)
    BY <1>1, <1>2, <2>1
  <2>2. CASE i \in (Len(b) + 1)..(Len(b) + n)
    <3>1. i - Len(b) \in 1..n
      BY <1>1, <2>2
    <3> QED BY <1>1, <1>2, <2>2, <3>1
  <2> QED BY <1>1, <1>2, <2>1, <2>2
<1>4. Genuine(s)
  BY <1>3 DEF Genuine
<1>5. ASSUME NEW i \in DOMAIN s, NEW j \in DOMAIN s, i < j PROVE s[i].id < s[j].id
  <2>1. CASE j <= Len(b)
    BY <1>1, <1>3, <1>5, <2>1 DEF Increasing
  <2>2. CASE i <= Len(b) /\ j > Len(b)
    BY <1>1, <1>3, <2>2 DEF Before
  <2>3. CASE i > Len(b)
    <3>1. /\ i - Len(b) \in DOMAIN q /\ s[i] = q[i - Len(b)]
          /\ j - Len(b) \in DOMAIN q /\ s[j] = q[j - Len(b)]
          /\ i - Len(b) < j - Len(b)
      BY <1>1, <1>3, <1>5, <2>3
    <3> QED BY <3>1 DEF Increasing
  <2> QED BY <1>1, <1>3, <2>1, <2>2, <2>3
<1> QED BY <1>2, <1>4, <1>5 DEF s, r, Increasing

-----------------------------------------------------------------------------
(* Types.                                                                  *)

(* Whoever is at work on a connection has one.                             *)
LEMMA AtWork ==
    ASSUME ConsumerInv, NEW p \in Consumers
    PROVE  /\ conn[p] \in Conns <=> pc[p] \in {"listen", "wait", "handle", "unlisten"}
           /\ conn[p] \in Conns =>
                 /\ queue[conn[p]] \in Seq(Event) /\ buffer[conn[p]] \in Seq(Event)
                 /\ channel[p] \in Channels /\ Wire(conn[p])
           /\ handled[p] \in Seq(Event) /\ sent \in Seq(Event)
  BY NamesAssumption DEF ConsumerInv, TypeOK, Session

LEMMA ReturnType ==
    ASSUME TypeOK, NEW p \in Consumers, NEW o \in {"none", "err"}, Return(p, o),
           UNCHANGED <<channel, sent>>, calls' \in 0..MaxListens,
           listens' \in [Conns -> SUBSET Channels],
           queue' \in [Conns -> Seq(Event)], buffer' \in [Conns -> Seq(Event)]
    PROVE  TypeOK'
  BY EmptySeq, BoundsAssumption DEF TypeOK, Return, Goto

(* The head of buffer and queue is what Take takes.                        *)
LEMMA Taken ==
    ASSUME NEW k \in Conns, buffer \in [Conns -> Seq(Event)], queue \in [Conns -> Seq(Event)],
           Take(k)
    PROVE  \/ /\ buffer[k] # <<>> /\ First(k) = Head(buffer[k])
              /\ buffer' = [buffer EXCEPT ![k] = Tail(@)] /\ UNCHANGED queue
           \/ /\ buffer[k] = <<>> /\ queue[k] # <<>> /\ First(k) = Head(queue[k])
              /\ queue' = [queue EXCEPT ![k] = Tail(@)] /\ UNCHANGED buffer
<1>1. buffer[k] \in Seq(Event) /\ queue[k] \in Seq(Event)
  OBVIOUS
<1>2. CASE buffer[k] = <<>>
  BY <1>1, <1>2, ConcatEmptySeq DEF Take, First
<1>3. CASE buffer[k] # <<>>
  <2>1. buffer[k] \o queue[k] \in Seq(Event) /\ buffer[k] \o queue[k] # <<>>
        /\ (buffer[k] \o queue[k])[1] = buffer[k][1]
    BY <1>1, <1>3, ConcatProperties, EmptySeq
  <2>2. Head(buffer[k] \o queue[k]) = (buffer[k] \o queue[k])[1] /\ Head(buffer[k]) = buffer[k][1]
    BY <1>1, <1>3, <2>1, TailFacts
  <2> QED BY <1>3, <2>1, <2>2 DEF Take, First
<1> QED BY <1>2, <1>3

LEMMA TakeType ==
    ASSUME NEW k \in Conns, buffer \in [Conns -> Seq(Event)], queue \in [Conns -> Seq(Event)],
           Take(k)
    PROVE  /\ buffer' \in [Conns -> Seq(Event)] /\ queue' \in [Conns -> Seq(Event)]
           /\ First(k) \in Event
<1>1. buffer[k] \in Seq(Event) /\ queue[k] \in Seq(Event)
  OBVIOUS
<1>2. \A s \in Seq(Event) : s # <<>> => Tail(s) \in Seq(Event) /\ Head(s) \in Event
  <2> SUFFICES ASSUME NEW s \in Seq(Event), s # <<>>
               PROVE  Tail(s) \in Seq(Event) /\ Head(s) \in Event
    OBVIOUS
  <2>1. Tail(s) \in Seq(Event) /\ Head(s) = s[1] /\ 1 \in DOMAIN s
    BY TailFacts
  <2> QED BY <2>1, EventsOf
<1>3. CASE buffer' = [buffer EXCEPT ![k] = Tail(@)] /\ UNCHANGED queue
           /\ buffer[k] # <<>> /\ First(k) = Head(buffer[k])
  BY <1>1, <1>2, <1>3
<1>4. CASE queue' = [queue EXCEPT ![k] = Tail(@)] /\ UNCHANGED buffer
           /\ queue[k] # <<>> /\ First(k) = Head(queue[k])
  BY <1>1, <1>2, <1>4
<1> QED BY <1>3, <1>4, Taken

LEMMA StepType ==
    ASSUME ConsumerInv, NEW p \in Consumers,
           Listen(p) \/ Step(p) \/ ExecListenFails(p) \/ ConnBreaks(p) \/ Cancel(p)
    PROVE  TypeOK'
<1>1. TypeOK /\ Log
  BY DEF ConsumerInv
<1>2. CASE Listen(p)
  <2>1. calls' \in 0..MaxListens
    BY <1>1, <1>2, BoundsAssumption DEF Listen, TypeOK
  <2>2. CASE Return(p, "err")
    BY <1>1, <1>2, <2>1, <2>2, ReturnType DEF Listen, TypeOK
  <2> QED BY <1>1, <1>2, <2>1, <2>2 DEF Listen, TypeOK, Goto
<1>3. CASE Acquire(p)
  <2>1. CASE Return(p, "err")
    BY <1>1, <1>3, <2>1, ReturnType DEF Acquire, TypeOK
  <2> QED BY <1>1, <1>3, <2>1 DEF Acquire, TypeOK, Goto, Idle
<1>4. CASE ExecListen(p)
  <2>1. conn[p] \in Conns /\ channel[p] \in Channels
    BY <1>4, AtWork DEF ExecListen
  <2>2. Len(sent) \in 0..MaxEvents
    BY <1>1, BoundsAssumption DEF TypeOK, Log
  <2> QED BY <1>1, <1>4, <2>1, <2>2 DEF ExecListen, TypeOK, Goto
<1>5. CASE ExecListenFails(p)
  BY <1>1, <1>5, ReturnType DEF ExecListenFails, TypeOK
<1>6. CASE Receive(p)
  <2>1. conn[p] \in Conns /\ queue[conn[p]] \in Seq(Event) /\ buffer[conn[p]] \in Seq(Event)
    BY <1>6, AtWork DEF Receive
  <2>2. /\ buffer' \in [Conns -> Seq(Event)] /\ queue' \in [Conns -> Seq(Event)]
        /\ First(conn[p]) \in Event
    BY <1>1, <1>6, <2>1, TakeType DEF Receive, TypeOK
  <2>3. Append(handled[p], First(conn[p])) \in Seq(Event)
    BY <1>1, <2>2, AppendFacts DEF TypeOK
  <2> QED BY <1>1, <1>6, <2>2, <2>3 DEF Receive, TypeOK, Goto, Leave
<1>7. CASE WaitCancelled(p) \/ Handle(p) \/ Cancel(p)
  BY <1>1, <1>7 DEF WaitCancelled, Handle, Cancel, TypeOK, Goto, Leave
<1>8. CASE ConnBreaks(p)
  BY <1>1, <1>8, EmptySeq DEF ConnBreaks, TypeOK, Goto, Leave
<1>9. CASE Unlisten(p)
  <2>1. conn[p] \in Conns /\ queue[conn[p]] \in Seq(Event) /\ buffer[conn[p]] \in Seq(Event)
    BY <1>9, AtWork DEF Unlisten
  <2>2. buffer' \in [Conns -> Seq(Event)]
    <3>1. PICK n \in 0..Len(queue[conn[p]]) :
             buffer' = [buffer EXCEPT ![conn[p]] = @ \o SubSeq(queue[conn[p]], 1, n)]
      BY <1>9 DEF Unlisten
    <3>2. buffer[conn[p]] \o SubSeq(queue[conn[p]], 1, n) \in Seq(Event)
      BY <1>9, <2>1, AtWork, DrainFacts DEF Wire
    <3> QED BY <1>1, <3>1, <3>2 DEF TypeOK
  <2>3. queue' \in [Conns -> Seq(Event)] /\ listens' \in [Conns -> SUBSET Channels]
    BY <1>1, <1>9, EmptySeq DEF Unlisten, TypeOK
  <2>4. outcome[p] \in {"none", "err"} /\ calls' \in 0..MaxListens
    BY <1>1, <1>9 DEF Unlisten, TypeOK
  <2> QED BY <1>1, <1>9, <2>2, <2>3, <2>4, ReturnType DEF Unlisten
<1> QED BY <1>2, <1>3, <1>4, <1>5, <1>6, <1>7, <1>8, <1>9 DEF Step

-----------------------------------------------------------------------------
(* What a step of one consumer leaves as it was.                           *)

LEMMA WireFrame ==
    ASSUME NEW k \in Conns, Wire(k), UNCHANGED <<sent, buffer[k], queue[k]>>
    PROVE  Wire(k)'
  BY DEF Wire, Genuine, Increasing, Before

LEMMA SessionFrame ==
    ASSUME NEW q \in Consumers, Session(q), conn[q] \in Conns \cup {NoConn},
           UNCHANGED <<channel, sent, pc[q], conn[q], from[q], handled[q]>>,
           conn[q] \in Conns =>
               /\ listens'[conn[q]] = listens[conn[q]]
               /\ queue'[conn[q]] = queue[conn[q]] /\ buffer'[conn[q]] = buffer[conn[q]]
    PROVE  Session(q)'
<1>1. CASE conn[q] = NoConn
  BY <1>1 DEF Session
<1>2. CASE conn[q] \in Conns
  <2> DEFINE k == conn[q]
  <2>1. /\ listens'[conn'[q]] = listens[conn[q]] /\ queue'[conn'[q]] = queue[conn[q]]
        /\ buffer'[conn'[q]] = buffer[conn[q]]
    BY <1>2
  <2>2. Clean(conn[q]) => Clean(conn[q])'
    BY <2>1 DEF Clean
  <2>3. Handled(q) => Handled(q)'
    BY <2>1 DEF Handled, Genuine, Increasing, Before, Own
  <2>4. Complete(q) => Complete(q)'
    BY <2>1 DEF Complete, Waiting, Ids
  <2>5. Following(q) => Following(q)'
    BY <2>1, <2>3, <2>4 DEF Following, Waiting
  <2> QED BY <2>2, <2>5 DEF Session
<1> QED BY <1>1, <1>2

(* A step of p is at work on the connection of p, or takes an idle one, or *)
(* gives its own back.                                                     *)
LEMMA LocalStep ==
    ASSUME ConsumerInv, TypeOK', NEW p \in Consumers, UNCHANGED <<channel, sent>>,
           \A q \in Consumers \ {p} :
               UNCHANGED <<pc[q], conn[q], from[q], handled[q]>>,
           \A k \in Conns \ {conn[p]} :
               UNCHANGED <<listens[k], queue[k], buffer[k]>>,
           conn'[p] \in {conn[p], NoConn} \cup Idle,
           \A k \in Conns : k = conn[p] => Wire(k)' /\ (conn'[p] # k => Clean(k)'),
           Session(p)'
    PROVE  ConsumerInv'
<1>1. TypeOK /\ Log /\ Exclusive /\ (\A k \in Conns : Wire(k)) /\ (\A k \in Idle : Clean(k))
      /\ \A q \in Consumers : Session(q)
  BY DEF ConsumerInv
<1>2. \A q \in Consumers : conn[q] \in Conns \cup {NoConn}
  BY <1>1 DEF TypeOK
<1>3. Log'
  BY <1>1 DEF Log
<1>4. Exclusive'
  BY <1>1, <1>2, NamesAssumption DEF Exclusive, Idle
<1>5. ASSUME NEW k \in Conns PROVE Wire(k)'
  <2>1. CASE k = conn[p]
    BY <2>1
  <2>2. CASE k # conn[p]
    BY <1>1, <2>2, WireFrame
  <2> QED BY <2>1, <2>2
<1>6. ASSUME NEW k \in Conns, k \notin {conn'[q] : q \in Consumers} PROVE Clean(k)'
  <2>1. CASE k = conn[p]
    BY <1>6, <2>1
  <2>2. CASE k # conn[p]
    <3>1. \A q \in Consumers : conn[q] # k
      BY <1>6, <2>2
    <3>2. k \in Idle
      BY <3>1 DEF Idle
    <3> QED BY <1>1, <2>2, <3>2 DEF Clean
  <2> QED BY <2>1, <2>2
<1>7. ASSUME NEW q \in Consumers, q # p PROVE Session(q)'
  <2>1. conn[q] \in Conns => conn[q] # conn[p]
    BY <1>1, <1>2, <1>7, NamesAssumption DEF Exclusive
  <2> QED BY <1>1, <1>2, <1>7, <2>1, SessionFrame
<1> QED BY <1>3, <1>4, <1>5, <1>6, <1>7 DEF ConsumerInv, Idle

-----------------------------------------------------------------------------
(* The operations of Listen.                                               *)

LEMMA Returned ==
    ASSUME TypeOK, NEW p \in Consumers, NEW o, Return(p, o)
    PROVE  Session(p)' /\ conn'[p] = NoConn
  BY DEF TypeOK, Return, Goto, Session

LEMMA ListenInv ==
    ASSUME ConsumerInv, NEW p \in Consumers, Listen(p)
    PROVE  ConsumerInv'
<1>1. TypeOK'
  BY StepType
<1>2. TypeOK /\ Session(p) /\ conn[p] = NoConn
  BY DEF ConsumerInv, Listen, Session
<1>3. Session(p)' /\ conn'[p] = NoConn
  <2>1. CASE Return(p, "err")
    BY <1>2, <2>1, Returned
  <2>2. CASE channel[p] # Unquotable /\ Goto(p, "acquire") /\ UNCHANGED <<conn, handled>>
    <3>1. channel'[p] \in Channels
      BY <1>2, <2>2, AssignmentsAssumption DEF Listen, TypeOK
    <3> QED BY <1>2, <2>2, <3>1 DEF Listen, Session, Goto, TypeOK
  <2> QED BY <2>1, <2>2 DEF Listen
<1> QED BY <1>1, <1>2, <1>3, NamesAssumption, LocalStep DEF Listen, Return, Goto, TypeOK

(* The connection comes from the idle ones, which are clean.               *)
LEMMA AcquireInv ==
    ASSUME ConsumerInv, NEW p \in Consumers, Acquire(p)
    PROVE  ConsumerInv'
<1>1. TypeOK'
  BY StepType DEF Step
<1>2. TypeOK /\ Session(p) /\ conn[p] = NoConn /\ \A k \in Idle : Clean(k)
  BY DEF ConsumerInv, Acquire, Session
<1>3. Session(p)' /\ conn'[p] \in Idle \cup {NoConn}
  <2>1. CASE Return(p, "err")
    BY <1>2, <2>1, Returned
  <2>2. CASE (\E k \in Idle : conn' = [conn EXCEPT ![p] = k]) /\ Goto(p, "listen")
             /\ UNCHANGED handled
    <3>1. conn'[p] \in Idle /\ conn'[p] \in Conns /\ pc'[p] = "listen" /\ handled'[p] = <<>>
          /\ channel'[p] \in Channels
      BY <1>2, <2>2 DEF Acquire, Session, Goto, TypeOK, Idle
    <3>2. Clean(conn[p])'
      BY <1>2, <3>1 DEF Acquire, Clean
    <3> QED BY <3>1, <3>2, NamesAssumption DEF Session
  <2> QED BY <2>1, <2>2 DEF Acquire
<1> QED BY <1>1, <1>2, <1>3, NamesAssumption, LocalStep DEF Acquire, Return, Goto, TypeOK

(* From here on the events of the channel count: all that the buffer holds *)
(* was sent before.                                                        *)
LEMMA ExecListenInv ==
    ASSUME ConsumerInv, NEW p \in Consumers, ExecListen(p)
    PROVE  ConsumerInv'
<1> DEFINE k == conn[p]
<1>1. TypeOK'
  BY StepType DEF Step
<1>2. /\ TypeOK /\ Session(p) /\ conn[p] \in Conns /\ Wire(conn[p]) /\ Clean(conn[p])
      /\ queue[conn[p]] = <<>> /\ buffer[conn[p]] \in Seq(Event) /\ channel[p] \in Channels
      /\ handled[p] = <<>> /\ sent \in Seq(Event)
  BY AtWork DEF ConsumerInv, ExecListen, Session, Clean
<1>3. /\ conn'[p] = conn[p] /\ pc'[p] = "wait" /\ from'[p] = Len(sent)
      /\ UNCHANGED <<channel, queue, buffer, sent, conn, handled>>
      /\ listens'[conn[p]] = {channel[p]}
  BY <1>2 DEF ExecListen, Goto, TypeOK, Clean
<1>4. Session(p)'
  <2>1. \A i \in DOMAIN buffer[conn[p]] : buffer[conn[p]][i].id <= Len(sent)
    BY <1>2, EventsOf DEF Wire, Genuine
  <2>2. DOMAIN <<>> = {} /\ Len(sent) \in Nat
    BY <1>2, EventsOf
  <2>3. Handled(p)'
    BY <1>2, <1>3, <2>2 DEF Handled, Genuine, Increasing, Before
  <2>4. Complete(p)'
    BY <1>2, <1>3, <2>2 DEF Complete
  <2>5. Following(p)'
    BY <1>2, <1>3, <2>1, <2>2, <2>3, <2>4 DEF Following
  <2> QED BY <1>2, <1>3, <2>5, NamesAssumption DEF Session
<1>5. Wire(conn[p])'
  BY <1>2, <1>3 DEF Wire, Genuine, Increasing, Before
<1>6. \A l \in Conns \ {conn[p]} : UNCHANGED <<listens[l], queue[l], buffer[l]>>
  BY <1>2, <1>3 DEF ExecListen, TypeOK
<1>7. \A q \in Consumers \ {p} : UNCHANGED <<pc[q], conn[q], from[q], handled[q]>>
  BY <1>2, <1>3 DEF ExecListen, TypeOK, Goto
<1>8. \A l \in Conns : l = conn[p] => Wire(l)' /\ (conn'[p] # l => Clean(l)')
  BY <1>3, <1>5
<1> QED BY <1>1, <1>3, <1>4, <1>6, <1>7, <1>8, LocalStep

LEMMA ExecListenFailsInv ==
    ASSUME ConsumerInv, NEW p \in Consumers, ExecListenFails(p)
    PROVE  ConsumerInv'
<1>1. TypeOK'
  BY StepType
<1>2. TypeOK /\ Session(p) /\ conn[p] \in Conns /\ Wire(conn[p]) /\ Clean(conn[p])
  BY AtWork DEF ConsumerInv, ExecListenFails, Session
<1>3. Session(p)' /\ conn'[p] = NoConn
  BY <1>2, Returned DEF ExecListenFails
<1>4. \A l \in Conns : l = conn[p] => Wire(l)' /\ Clean(l)'
  BY <1>2 DEF ExecListenFails, Clean, Wire, Genuine, Increasing, Before
<1> QED BY <1>1, <1>2, <1>3, <1>4, LocalStep DEF ExecListenFails, Return, Goto, TypeOK

(* Listen waits, handles, is cancelled or gives up on what it holds.       *)
LEMMA QuietInv ==
    ASSUME ConsumerInv, NEW p \in Consumers, WaitCancelled(p) \/ Handle(p) \/ Cancel(p)
    PROVE  ConsumerInv'
<1>1. TypeOK'
  BY StepType DEF Step
<1>2. TypeOK /\ Session(p) /\ \A k \in Conns : Wire(k)
  BY DEF ConsumerInv
<1>3. UNCHANGED <<channel, listens, queue, buffer, sent, conn, from, handled>>
  BY DEF WaitCancelled, Handle, Cancel
<1>4. /\ pc[p] \in {"wait", "handle"} /\ pc'[p] \in {"wait", "handle", "unlisten"}
      \/ UNCHANGED pc[p]
  BY <1>2 DEF WaitCancelled, Handle, Cancel, Goto, Leave, TypeOK
<1>5. \A q \in Consumers \ {p} : UNCHANGED pc[q]
  BY <1>2 DEF WaitCancelled, Handle, Cancel, Goto, Leave, TypeOK
<1>6. Session(p)'
  <2>1. CASE UNCHANGED pc[p]
    BY <1>2, <1>3, <2>1, SessionFrame DEF TypeOK
  <2>2. CASE pc[p] \in {"wait", "handle"} /\ pc'[p] \in {"wait", "handle", "unlisten"}
    <3>1. Following(p)
      BY <1>2, <2>2 DEF Session
    <3>2. Handled(p)'
      BY <1>3, <3>1 DEF Following, Handled, Genuine, Increasing, Before, Own
    <3>3. Complete(p)'
      BY <1>3, <2>2, <3>1 DEF Following, Complete, Waiting, Ids
    <3>4. Following(p)'
      BY <1>3, <2>2, <3>1, <3>2, <3>3 DEF Following, Waiting
    <3> QED BY <1>2, <1>3, <2>2, <3>4 DEF Session
  <2> QED BY <1>4, <2>1, <2>2
<1>7. \A k \in Conns : Wire(k)'
  BY <1>2, <1>3, WireFrame
<1> QED BY <1>1, <1>3, <1>5, <1>6, <1>7, LocalStep

(* The session is gone, and with it all it had not delivered.              *)
LEMMA ConnBreaksInv ==
    ASSUME ConsumerInv, NEW p \in Consumers, ConnBreaks(p)
    PROVE  ConsumerInv'
<1>1. TypeOK'
  BY StepType
<1>2. /\ TypeOK /\ conn[p] \in Conns /\ Wire(conn[p]) /\ Following(p) /\ Session(p)
      /\ buffer[conn[p]] = <<>>
  BY AtWork DEF ConsumerInv, ConnBreaks, Session
<1>3. /\ UNCHANGED <<channel, buffer, sent, conn, from, handled>>
      /\ pc'[p] = "unlisten" /\ queue'[conn[p]] = <<>> /\ listens'[conn[p]] = {}
  BY <1>2 DEF ConnBreaks, Leave, Goto, TypeOK
<1>4. DOMAIN <<>> = {}
  OBVIOUS
<1>5. Session(p)'
  <2>1. Handled(p)'
    BY <1>2, <1>3, <1>4 DEF Following, Handled, Genuine, Increasing, Before, Own
  <2>2. Complete(p)'
    BY <1>2, <1>3 DEF Following, Complete, Waiting, Ids
  <2>3. Following(p)'
    BY <1>2, <1>3, <1>4, <2>1, <2>2 DEF Following, Waiting
  <2> QED BY <1>2, <1>3, <2>3, NamesAssumption DEF Session
<1>6. Wire(conn[p])'
  BY <1>2, <1>3, <1>4 DEF Wire, Genuine, Increasing, Before
<1>7. \A l \in Conns \ {conn[p]} : UNCHANGED <<listens[l], queue[l], buffer[l]>>
  BY <1>2 DEF ConnBreaks, TypeOK
<1>8. \A q \in Consumers \ {p} : UNCHANGED <<pc[q], conn[q], from[q], handled[q]>>
  BY <1>2 DEF ConnBreaks, Leave, Goto, TypeOK
<1>9. \A l \in Conns : l = conn[p] => Wire(l)' /\ (conn'[p] # l => Clean(l)')
  BY <1>3, <1>6
<1> QED BY <1>1, <1>3, <1>5, <1>7, <1>8, <1>9, LocalStep

(* The session listened to the consumer's channel at most; what the server *)
(* still had for it is dropped or buffered, in order.                      *)
LEMMA UnlistenInv ==
    ASSUME ConsumerInv, NEW p \in Consumers, Unlisten(p)
    PROVE  ConsumerInv'
<1>1. TypeOK'
  BY StepType DEF Step
<1>2. /\ TypeOK /\ conn[p] \in Conns /\ Wire(conn[p]) /\ Following(p)
      /\ queue[conn[p]] \in Seq(Event) /\ buffer[conn[p]] \in Seq(Event)
  BY AtWork DEF ConsumerInv, Unlisten, Session
<1>3. Session(p)' /\ conn'[p] = NoConn
  BY <1>2, Returned DEF Unlisten
<1>4. listens'[conn[p]] = {} /\ queue'[conn[p]] = <<>>
  BY <1>2 DEF Unlisten, Following, TypeOK
<1>5. Genuine(buffer'[conn[p]]) /\ Increasing(buffer'[conn[p]])
  <2>1. PICK n \in 0..Len(queue[conn[p]]) :
           buffer' = [buffer EXCEPT ![conn[p]] = @ \o SubSeq(queue[conn[p]], 1, n)]
    BY DEF Unlisten
  <2>2. buffer'[conn[p]] = buffer[conn[p]] \o SubSeq(queue[conn[p]], 1, n)
    BY <1>2, <2>1 DEF TypeOK
  <2> QED BY <1>2, <2>2, DrainFacts DEF Wire
<1>6. \A l \in Conns : l = conn[p] => Wire(l)' /\ Clean(l)'
  <2>1. DOMAIN <<>> = {}
    OBVIOUS
  <2>2. UNCHANGED sent
    BY DEF Unlisten
  <2>3. \A l \in Conns : l = conn[p] => Genuine(buffer[l])' /\ Increasing(buffer[l])'
    BY <1>5, <2>2 DEF Genuine, Increasing
  <2> QED BY <1>4, <2>1, <2>3 DEF Wire, Clean, Genuine, Increasing, Before
<1>7. \A l \in Conns \ {conn[p]} : UNCHANGED <<listens[l], queue[l], buffer[l]>>
  BY <1>2 DEF Unlisten, TypeOK
<1>8. \A q \in Consumers \ {p} : UNCHANGED <<pc[q], conn[q], from[q], handled[q]>>
  BY <1>2 DEF Unlisten, Return, Goto, TypeOK
<1>9. UNCHANGED <<channel, sent>>
  BY DEF Unlisten
<1> QED BY <1>1, <1>3, <1>6, <1>7, <1>8, <1>9, LocalStep

(* What WaitForNotification returns comes after all that was handled and   *)
(* before all that is left; it is the next event of the channel, or one    *)
(* that the connection held before the LISTEN.                             *)
NextUp(p, k, e) ==
    /\ e \in Event /\ e.id \in DOMAIN sent /\ e = sent[e.id] /\ Own(p, e)
    /\ \A j \in DOMAIN handled[p] : handled[p][j].id < e.id
    /\ \A i \in DOMAIN buffer'[k] :
          e.id < buffer'[k][i].id /\ buffer'[k][i].id <= from[p]
    /\ \A i \in DOMAIN queue'[k] :
          /\ e.id < queue'[k][i].id /\ queue'[k][i].id > from[p]
          /\ queue'[k][i].channel = channel[p]
    /\ Ids(queue[k]) \subseteq {e.id} \cup Ids(queue'[k])
    /\ \A i \in Ids(queue[k]) : i > from[p] => i >= e.id
    /\ Genuine(buffer'[k]) /\ Genuine(queue'[k])
    /\ Increasing(buffer'[k]) /\ Increasing(queue'[k]) /\ Before(buffer'[k], queue'[k])
    /\ Before(handled[p], buffer'[k]) /\ Before(handled[p], queue'[k])
LEMMA TakenFacts ==
    ASSUME ConsumerInv, NEW p \in Consumers, pc[p] = "wait", Take(conn[p]), UNCHANGED sent,
           NEW k, k = conn[p], NEW e, e = First(k)
    PROVE  NextUp(p, k, e)
<1>1. /\ TypeOK /\ k \in Conns /\ Wire(k) /\ Following(p)
      /\ queue[k] \in Seq(Event) /\ buffer[k] \in Seq(Event) /\ handled[p] \in Seq(Event)
      /\ sent \in Seq(Event)
  BY AtWork DEF ConsumerInv, Session
<1>2. /\ \A i \in DOMAIN buffer[k] : buffer[k][i].id <= from[p]
      /\ \A i \in DOMAIN queue[k] : queue[k][i].id > from[p] /\ queue[k][i].channel = channel[p]
      /\ Before(handled[p], buffer[k]) /\ Before(handled[p], queue[k])
      /\ from[p] \in Nat /\ e \in Event /\ e.id \in Nat
  <2>1. e \in Event
    BY <1>1, TakeType DEF TypeOK
  <2>2. from[p] \in Nat /\ e.id \in Nat
    BY <1>1, <2>1, BoundsAssumption DEF TypeOK, Event
  <2> QED BY <1>1, <2>1, <2>2 DEF Following, Handled
<1>3. /\ \A i \in DOMAIN buffer[k] : buffer[k][i].id \in Nat
      /\ \A i \in DOMAIN queue[k] : queue[k][i].id \in Nat
      /\ \A i \in DOMAIN handled[p] : handled[p][i].id \in Nat
  BY <1>1, EventsOf
<1>4. DOMAIN <<>> = {}
  OBVIOUS
<1>5. CASE /\ buffer[k] # <<>> /\ e = Head(buffer[k])
           /\ buffer' = [buffer EXCEPT ![k] = Tail(@)] /\ UNCHANGED queue
  <2>1. buffer'[k] = Tail(buffer[k]) /\ queue'[k] = queue[k]
    BY <1>1, <1>5 DEF TypeOK
  <2>a. /\ Head(buffer[k]) = buffer[k][1] /\ 1 \in DOMAIN buffer[k]
        /\ \A i \in DOMAIN Tail(buffer[k]) : i + 1 \in DOMAIN buffer[k] /\ Tail(buffer[k])[i] = buffer[k][i + 1]
        /\ Genuine(Tail(buffer[k])) /\ Increasing(Tail(buffer[k]))
        /\ \A i \in DOMAIN Tail(buffer[k]) : Head(buffer[k]).id < Tail(buffer[k])[i].id
    <3>1. buffer[k] \in Seq(Event) /\ buffer[k] # <<>> /\ Genuine(buffer[k]) /\ Increasing(buffer[k])
      BY <1>1, <1>5 DEF Wire
    <3> QED BY <3>1, TailFacts
  <2>2. /\ e = buffer[k][1] /\ 1 \in DOMAIN buffer[k]
        /\ \A i \in DOMAIN buffer'[k] : i + 1 \in DOMAIN buffer[k] /\ buffer'[k][i] = buffer[k][i + 1]
        /\ Genuine(buffer'[k]) /\ Increasing(buffer'[k])
        /\ \A i \in DOMAIN buffer'[k] : e.id < buffer'[k][i].id
    BY <1>5, <2>1, <2>a
  <2>3. e.id \in DOMAIN sent /\ e = sent[e.id] /\ e.id <= from[p]
    BY <1>1, <1>2, <2>2 DEF Wire, Genuine
  <2>4. Own(p, e)
    BY <1>2, <2>3 DEF Own
  <2>5. \A j \in DOMAIN handled[p] : handled[p][j].id < e.id
    BY <1>2, <2>2 DEF Before
  <2>6. \A i \in DOMAIN buffer'[k] : buffer'[k][i].id <= from[p]
    BY <1>2, <2>2
  <2>7. \A i \in DOMAIN queue'[k] :
           /\ e.id < queue'[k][i].id /\ queue'[k][i].id > from[p]
           /\ queue'[k][i].channel = channel[p]
    BY <1>1, <1>2, <2>1, <2>2 DEF Wire, Before
  <2>8. Ids(queue[k]) \subseteq {e.id} \cup Ids(queue'[k])
    BY <2>1
  <2>9. \A i \in Ids(queue[k]) : i >= e.id
    BY <1>1, <1>2, <1>3, <2>2 DEF Wire, Before, Ids
  <2>10. Genuine(queue'[k]) /\ Increasing(queue'[k]) /\ Before(buffer'[k], queue'[k])
    BY <1>1, <2>1, <2>2 DEF Wire, Before
  <2>11. Before(handled[p], buffer'[k]) /\ Before(handled[p], queue'[k])
    BY <1>2, <2>1, <2>2 DEF Before
  <2> QED BY <1>2, <2>2, <2>3, <2>4, <2>5, <2>6, <2>7, <2>8, <2>9, <2>10, <2>11 DEF NextUp
<1>6. CASE /\ buffer[k] = <<>> /\ queue[k] # <<>> /\ e = Head(queue[k])
           /\ queue' = [queue EXCEPT ![k] = Tail(@)] /\ UNCHANGED buffer
  <2>1. queue'[k] = Tail(queue[k]) /\ buffer'[k] = <<>>
    BY <1>1, <1>6 DEF TypeOK
  <2>a. /\ Head(queue[k]) = queue[k][1] /\ 1 \in DOMAIN queue[k]
        /\ \A i \in DOMAIN Tail(queue[k]) : i + 1 \in DOMAIN queue[k] /\ Tail(queue[k])[i] = queue[k][i + 1]
        /\ Genuine(Tail(queue[k])) /\ Increasing(Tail(queue[k]))
        /\ \A i \in DOMAIN Tail(queue[k]) : Head(queue[k]).id < Tail(queue[k])[i].id
        /\ Ids(queue[k]) = {Head(queue[k]).id} \cup Ids(Tail(queue[k]))
    <3>1. queue[k] \in Seq(Event) /\ queue[k] # <<>> /\ Genuine(queue[k]) /\ Increasing(queue[k])
      BY <1>1, <1>6 DEF Wire
    <3> QED BY <3>1, TailFacts
  <2>2. /\ e = queue[k][1] /\ 1 \in DOMAIN queue[k]
        /\ \A i \in DOMAIN queue'[k] : i + 1 \in DOMAIN queue[k] /\ queue'[k][i] = queue[k][i + 1]
        /\ Genuine(queue'[k]) /\ Increasing(queue'[k])
        /\ \A i \in DOMAIN queue'[k] : e.id < queue'[k][i].id
        /\ Ids(queue[k]) = {e.id} \cup Ids(queue'[k])
    BY <1>6, <2>1, <2>a
  <2>3. e.id \in DOMAIN sent /\ e = sent[e.id]
    BY <1>1, <2>2 DEF Wire, Genuine
  <2>4. Own(p, e)
    BY <1>2, <2>2 DEF Own
  <2>5. \A j \in DOMAIN handled[p] : handled[p][j].id < e.id
    BY <1>2, <2>2 DEF Before
  <2>6. \A i \in DOMAIN queue'[k] :
           /\ e.id < queue'[k][i].id /\ queue'[k][i].id > from[p]
           /\ queue'[k][i].channel = channel[p]
    BY <1>2, <2>2
  <2>7. \A i \in Ids(queue[k]) : i >= e.id
    <3>1. \A i \in DOMAIN queue'[k] : queue'[k][i].id >= e.id
      <4> SUFFICES ASSUME NEW i \in DOMAIN queue'[k] PROVE queue'[k][i].id >= e.id
        OBVIOUS
      <4>1. queue'[k][i].id \in Nat /\ e.id < queue'[k][i].id
        BY <1>3, <2>2
      <4> QED BY <1>2, <4>1
    <3> QED BY <1>2, <2>2, <3>1 DEF Ids
  <2>8. Genuine(buffer'[k]) /\ Increasing(buffer'[k]) /\ Before(buffer'[k], queue'[k])
    BY <1>4, <2>1 DEF Genuine, Increasing, Before
  <2>9. Before(handled[p], buffer'[k]) /\ Before(handled[p], queue'[k])
    BY <1>2, <1>4, <2>1, <2>2 DEF Before
  <2>10. \A i \in DOMAIN buffer'[k] : e.id < buffer'[k][i].id /\ buffer'[k][i].id <= from[p]
    BY <1>4, <2>1
  <2> QED BY <1>2, <2>2, <2>3, <2>4, <2>5, <2>6, <2>7, <2>8, <2>9, <2>10 DEF NextUp
<1>7. \/ /\ buffer[k] # <<>> /\ First(k) = Head(buffer[k])
         /\ buffer' = [buffer EXCEPT ![k] = Tail(@)] /\ UNCHANGED queue
      \/ /\ buffer[k] = <<>> /\ queue[k] # <<>> /\ First(k) = Head(queue[k])
         /\ queue' = [queue EXCEPT ![k] = Tail(@)] /\ UNCHANGED buffer
  BY <1>1, Taken DEF TypeOK
<1> QED BY <1>5, <1>6, <1>7

LEMMA ReceiveInv ==
    ASSUME ConsumerInv, NEW p \in Consumers, Receive(p)
    PROVE  ConsumerInv'
<1>1. TypeOK'
  BY StepType DEF Step
<1>2. /\ TypeOK /\ conn[p] \in Conns /\ Following(p) /\ Session(p) /\ handled[p] \in Seq(Event)
      /\ pc[p] = "wait" /\ sent \in Seq(Event)
  BY AtWork DEF ConsumerInv, Receive, Session
<1>3. PICK k : k = conn[p]
  OBVIOUS
<1>4. PICK e : e = First(k)
  OBVIOUS
<1>5. UNCHANGED <<channel, listens, sent, conn, from>>
  BY DEF Receive
<1>6. NextUp(p, k, e)
  <2>1. pc[p] = "wait" /\ Take(conn[p]) /\ UNCHANGED sent
    BY DEF Receive
  <2> QED BY <1>3, <1>4, <2>1, TakenFacts
<1>7. \/ pc'[p] = "unlisten" /\ handled'[p] = handled[p]
      \/ pc'[p] = "handle" /\ handled'[p] = Append(handled[p], e)
  BY <1>2, <1>3, <1>4 DEF Receive, Leave, Goto, TypeOK
<1>8. Handled(p)'
  <2>1. CASE handled'[p] = handled[p]
    BY <1>2, <1>3, <1>5, <1>6, <2>1
       DEF NextUp, Following, Handled, Genuine, Increasing, Before, Own
  <2>2. CASE handled'[p] = Append(handled[p], e)
    <3> DEFINE h == Append(handled[p], e)
    <3>1. /\ \A i \in DOMAIN handled[p] : h[i] = handled[p][i]
          /\ \A i \in DOMAIN h : i \in DOMAIN handled[p] \/ h[i] = e
          /\ Increasing(h)
      <4>1. Increasing(handled[p])
        BY <1>2 DEF Following, Handled
      <4>2. handled[p] \in Seq(Event) /\ e \in Event
            /\ \A j \in DOMAIN handled[p] : handled[p][j].id < e.id
        BY <1>2, <1>6 DEF NextUp
      <4> QED BY <4>1, <4>2, AppendFacts
    <3> HIDE DEF h
    <3>2. Genuine(h) /\ \A j \in DOMAIN h : Own(p, h[j])
      BY <1>2, <1>6, <3>1 DEF NextUp, Following, Handled, Genuine
    <3>3. Before(h, buffer'[k]) /\ Before(h, queue'[k])
      BY <1>6, <3>1 DEF NextUp, Before
    <3>4. handled'[p] = h
      BY <2>2 DEF h
    <3> QED BY <1>3, <1>5, <3>1, <3>2, <3>3, <3>4
            DEF Handled, Genuine, Increasing, Before, Own
  <2> QED BY <1>7, <2>1, <2>2
<1>9. Complete(p)'
  <2> SUFFICES ASSUME NEW i \in (from[p] + 1)..Len(sent), sent[i].channel = channel[p]
               PROVE  /\ Waiting(p)' => i \in Ids(handled'[p]) \cup Ids(queue'[k])
                      /\ \A j \in DOMAIN handled'[p] :
                            i <= handled'[p][j].id => i \in Ids(handled'[p])
    BY <1>3, <1>5 DEF Complete, Ids
  <2>1. /\ i \in Ids(handled[p]) \cup Ids(queue[k])
        /\ \A j \in DOMAIN handled[p] : i <= handled[p][j].id => i \in Ids(handled[p])
    BY <1>2, <1>3 DEF Following, Complete, Waiting
  <2>2. CASE pc'[p] = "unlisten" /\ handled'[p] = handled[p]
    BY <2>1, <2>2 DEF Waiting
  <2>3. CASE handled'[p] = Append(handled[p], e)
    <3>1. Ids(handled'[p]) = Ids(handled[p]) \cup {e.id}
      BY <1>2, <1>6, <2>3, AppendFacts DEF NextUp
    <3>2. \A j \in DOMAIN handled'[p] :
             (j \in DOMAIN handled[p] /\ handled'[p][j] = handled[p][j]) \/ handled'[p][j] = e
      BY <1>2, <1>6, <2>3, AppendFacts DEF NextUp
    <3>3. from[p] \in Nat /\ Len(sent) \in Nat /\ i \in Int /\ i > from[p] /\ e.id \in Nat
      <4>1. from[p] \in Nat /\ Len(sent) \in Nat /\ e.id \in Nat
        BY <1>2, <1>6, BoundsAssumption, EventsOf DEF NextUp, TypeOK, Event
      <4> QED BY <4>1
    <3>4. i <= e.id => i \in Ids(handled'[p])
      BY <1>6, <2>1, <3>1, <3>3 DEF NextUp
    <3>5. i \in Ids(handled'[p]) \cup Ids(queue'[k])
      BY <1>6, <2>1, <3>1 DEF NextUp
    <3>6. \A j \in DOMAIN handled'[p] : i <= handled'[p][j].id => i \in Ids(handled'[p])
      BY <2>1, <3>1, <3>2, <3>4
    <3> QED BY <3>5, <3>6
  <2> QED BY <1>7, <2>2, <2>3
<1>10. Session(p)'
  <2>1. Following(p)'
    BY <1>2, <1>3, <1>5, <1>6, <1>8, <1>9 DEF NextUp, Following, Waiting
  <2> QED BY <1>2, <1>5, <1>7, <2>1, NamesAssumption DEF Session
<1>11. \A l \in Conns : l = conn[p] => Wire(l)' /\ (conn'[p] # l => Clean(l)')
  BY <1>3, <1>5, <1>6 DEF NextUp, Wire, Genuine, Increasing, Before
<1>12. \A l \in Conns \ {conn[p]} : UNCHANGED <<listens[l], queue[l], buffer[l]>>
  BY <1>2 DEF Receive, Take, TypeOK
<1>13. \A q \in Consumers \ {p} : UNCHANGED <<pc[q], conn[q], from[q], handled[q]>>
  BY <1>2 DEF Receive, Leave, Goto, TypeOK
<1> QED BY <1>1, <1>5, <1>10, <1>11, <1>12, <1>13, LocalStep

(* Every session that listens to the channel, and no other, gets the new   *)
(* event, behind all that it has.                                          *)
LEMMA NotifyInv ==
    ASSUME ConsumerInv, NEW c \in Channels, NEW ok \in BOOLEAN, Notify(c, ok)
    PROVE  ConsumerInv'
<1> DEFINE new == [id |-> Len(sent) + 1, channel |-> c, json |-> ok]
<1>1. PICK e : e = new
  OBVIOUS
<1> HIDE DEF new
<1>2. /\ TypeOK /\ Log /\ Exclusive /\ sent \in Seq(Event) /\ Len(sent) \in Nat
      /\ DOMAIN sent = 1..Len(sent)
      /\ \A k \in Conns : Wire(k) /\ queue[k] \in Seq(Event) /\ buffer[k] \in Seq(Event)
      /\ \A k \in Idle : Clean(k)
      /\ \A q \in Consumers : Session(q) /\ handled[q] \in Seq(Event)
  <2>1. TypeOK /\ Log /\ Exclusive /\ (\A k \in Conns : Wire(k)) /\ (\A k \in Idle : Clean(k))
        /\ (\A q \in Consumers : Session(q))
    BY DEF ConsumerInv
  <2>2. sent \in Seq(Event) /\ Len(sent) \in Nat /\ DOMAIN sent = 1..Len(sent)
    BY <2>1, EventsOf DEF TypeOK
  <2> QED BY <2>1, <2>2 DEF TypeOK
<1>3. /\ e.id = Len(sent) + 1 /\ e.channel = c /\ e \in Event
      /\ Len(sent) < MaxEvents /\ sent' = Append(sent, e)
      /\ queue' = [k \in Conns |-> IF c \in listens[k] THEN Append(queue[k], e) ELSE queue[k]]
      /\ UNCHANGED <<channel, listens, buffer, pc, conn, from, handled>>
  <2>1. e.id = Len(sent) + 1 /\ e.channel = c /\ e.json = ok
    BY <1>1 DEF new
  <2>2. Len(sent) < MaxEvents
    BY DEF Notify
  <2>3. Len(sent) + 1 \in 1..MaxEvents
    BY <1>2, <2>2, BoundsAssumption
  <2> QED BY <1>1, <2>2, <2>3 DEF new, Notify, Event
<1>4. /\ sent' \in Seq(Event) /\ DOMAIN sent' = 1..(Len(sent) + 1) /\ Len(sent') = Len(sent) + 1
      /\ \A i \in DOMAIN sent : i \in DOMAIN sent' /\ sent'[i] = sent[i]
      /\ e.id \in DOMAIN sent' /\ sent'[e.id] = e
  <2>1. Len(Append(sent, e)) = Len(sent) + 1
    BY <1>2, <1>3, AppendProperties
  <2> QED BY <1>2, <1>3, <2>1, AppendFacts
<1>5. \A k \in Conns :
         /\ queue'[k] \in Seq(Event)
         /\ \A i \in DOMAIN queue'[k] :
               \/ i \in DOMAIN queue[k] /\ queue'[k][i] = queue[k][i]
               \/ c \in listens[k] /\ queue'[k][i] = e
         /\ Ids(queue[k]) \subseteq Ids(queue'[k])
         /\ c \in listens[k] => e.id \in Ids(queue'[k])
         /\ Increasing(queue'[k])
  <2> SUFFICES ASSUME NEW k \in Conns
               PROVE  /\ queue'[k] \in Seq(Event)
                      /\ \A i \in DOMAIN queue'[k] :
                            \/ i \in DOMAIN queue[k] /\ queue'[k][i] = queue[k][i]
                            \/ c \in listens[k] /\ queue'[k][i] = e
                      /\ Ids(queue[k]) \subseteq Ids(queue'[k])
                      /\ c \in listens[k] => e.id \in Ids(queue'[k])
                      /\ Increasing(queue'[k])
    OBVIOUS
  <2>1. Increasing(queue[k]) /\ queue[k] \in Seq(Event)
    BY <1>2 DEF Wire
  <2>2. CASE c \in listens[k]
    <3>1. queue'[k] = Append(queue[k], e)
      BY <1>3, <2>2
    <3>2. \A i \in DOMAIN queue[k] : queue[k][i].id < e.id
      BY <1>2, <1>3 DEF Wire, Genuine
    <3>3. /\ Append(queue[k], e) \in Seq(Event)
          /\ \A i \in DOMAIN Append(queue[k], e) :
                \/ i \in DOMAIN queue[k] /\ Append(queue[k], e)[i] = queue[k][i]
                \/ Append(queue[k], e)[i] = e
          /\ Ids(Append(queue[k], e)) = Ids(queue[k]) \cup {e.id}
          /\ Increasing(Append(queue[k], e))
      BY <1>3, <2>1, <3>2, AppendFacts
    <3> QED BY <2>2, <3>1, <3>3
  <2>3. CASE c \notin listens[k]
    BY <1>3, <2>1, <2>3
  <2> QED BY <2>2, <2>3
<1>6. TypeOK'
  <2>1. queue' \in [Conns -> Seq(Event)]
    BY <1>2, <1>3, <1>5
  <2> QED BY <1>2, <1>3, <1>4, <2>1 DEF Notify, TypeOK
<1>7. Log'
  BY <1>2, <1>3, <1>4, BoundsAssumption DEF Log
<1>8. ASSUME NEW k \in Conns PROVE Wire(k)'
  <2>1. Genuine(buffer[k])'
    BY <1>2, <1>3, <1>4 DEF Wire, Genuine
  <2>2. Genuine(queue[k])'
    BY <1>2, <1>4, <1>5 DEF Wire, Genuine
  <2>3. Increasing(buffer[k])' /\ Increasing(queue[k])'
    BY <1>2, <1>3, <1>5 DEF Wire, Increasing
  <2>4. Before(buffer[k], queue[k])'
    BY <1>2, <1>3, <1>5 DEF Wire, Genuine, Before
  <2> QED BY <2>1, <2>2, <2>3, <2>4 DEF Wire
<1>9. \A k \in Idle : Clean(k)'
  BY <1>2, <1>3 DEF Idle, Clean
<1>10. ASSUME NEW q \in Consumers PROVE Session(q)'
  <2>1. /\ conn[q] \in Conns \cup {NoConn} /\ Session(q) /\ handled[q] \in Seq(Event)
        /\ UNCHANGED <<channel, pc[q], conn[q], from[q], handled[q]>>
        /\ from[q] \in Nat
    BY <1>2, <1>3, BoundsAssumption DEF TypeOK
  <2>2. CASE pc[q] \notin {"wait", "handle", "unlisten"}
    <3>1. pc[q] = "listen" => conn[q] \in Conns
      BY <2>1 DEF Session
    <3>2. pc[q] = "listen" => Clean(conn[q])'
      BY <1>3, <2>1, <3>1 DEF Session, Clean
    <3> QED BY <2>1, <2>2, <3>2 DEF Session
  <2>3. CASE pc[q] \in {"wait", "handle", "unlisten"}
    <3>1. PICK k \in Conns : k = conn[q]
      BY <2>1, <2>3 DEF Session
    <3>2. Following(q) /\ Wire(k)
      BY <1>2, <2>1, <2>3 DEF Session
    <3>3. c \in listens[k] => c = channel[q]
      BY <3>1, <3>2 DEF Following
    <3>4. \A j \in DOMAIN handled[q] :
             handled[q][j].id \in DOMAIN sent /\ handled[q][j] = sent[handled[q][j].id]
      BY <3>2 DEF Following, Handled, Genuine
    <3>a. \A i \in DOMAIN queue'[k] :
             \/ i \in DOMAIN queue[k] /\ queue'[k][i] = queue[k][i]
             \/ c \in listens[k] /\ queue'[k][i] = e
      BY <1>5
    <3>b. k = conn'[q]
      BY <2>1, <3>1
    <3>5. Handled(q)'
      <4>1. Before(handled[q], queue'[k])
        <5>1. \A j \in DOMAIN handled[q] : handled[q][j].id < e.id
          BY <1>2, <1>3, <3>4
        <5>2. Before(handled[q], queue[k])
          BY <3>1, <3>2 DEF Following, Handled
        <5> QED BY <3>a, <5>1, <5>2 DEF Before
      <4> QED BY <1>3, <1>4, <2>1, <3>1, <3>2, <3>4, <4>1
              DEF Following, Handled, Genuine, Increasing, Before, Own
    <3>6. Complete(q)'
      <4> SUFFICES ASSUME NEW i \in (from[q] + 1)..Len(sent'), sent'[i].channel = channel[q]
                   PROVE  /\ Waiting(q) => i \in Ids(handled[q]) \cup Ids(queue'[k])
                          /\ \A j \in DOMAIN handled[q] :
                                i <= handled[q][j].id => i \in Ids(handled[q])
        <5>1. Ids(handled[q])' = Ids(handled[q]) /\ Ids(queue[conn[q]])' = Ids(queue'[k])
          BY <2>1, <3>b DEF Ids
        <5>2. /\ UNCHANGED <<from[q], channel[q], handled[q]>>
              /\ Waiting(q)' <=> Waiting(q)
          BY <2>1 DEF Waiting
        <5> QED BY <5>1, <5>2 DEF Complete
      <4>1. CASE i = Len(sent) + 1
        <5>1. channel[q] = c
          BY <1>3, <1>4, <4>1
        <5>2. Waiting(q) => i \in Ids(queue'[k])
          BY <1>3, <1>5, <3>1, <3>2, <4>1, <5>1 DEF Following
        <5>3. \A j \in DOMAIN handled[q] : ~(i <= handled[q][j].id)
          BY <1>2, <3>4, <4>1
        <5> QED BY <5>2, <5>3
      <4>2. CASE i # Len(sent) + 1
        <5>1. i \in (from[q] + 1)..Len(sent) /\ i \in DOMAIN sent
          BY <1>2, <1>4, <2>1, <4>2
        <5>2. sent[i].channel = channel[q]
          BY <1>4, <5>1
        <5> QED BY <1>5, <3>1, <3>2, <5>1, <5>2 DEF Following, Complete
      <4> QED BY <4>1, <4>2
    <3>7. Following(q)'
      <4>1. from[q] <= Len(sent')
        BY <1>2, <1>4, <2>1, <3>2 DEF Following
      <4>2. \A i \in DOMAIN queue'[k] :
               queue'[k][i].id > from[q] /\ queue'[k][i].channel = channel[q]
        <5>1. e.id > from[q]
          BY <1>2, <1>3, <2>1, <3>2 DEF Following
        <5> QED BY <1>3, <3>a, <3>1, <3>2, <3>3, <5>1 DEF Following
      <4> QED BY <1>3, <2>1, <3>1, <3>2, <3>5, <3>6, <4>1, <4>2 DEF Following, Waiting
    <3> QED BY <1>3, <2>1, <2>3, <3>7 DEF Session
  <2> QED BY <2>2, <2>3
<1> QED BY <1>2, <1>3, <1>6, <1>7, <1>8, <1>9, <1>10 DEF ConsumerInv, Exclusive, Idle

-----------------------------------------------------------------------------
LEMMA InitInv == Init => ConsumerInv
<1> SUFFICES ASSUME Init PROVE ConsumerInv
  OBVIOUS
<1>1. <<>> \in Seq(Event) /\ DOMAIN <<>> = {} /\ Len(<<>>) = 0
  BY EmptySeq
<1>2. TypeOK
  BY <1>1, BoundsAssumption DEF Init, TypeOK
<1>3. Log
  BY <1>1, BoundsAssumption DEF Init, Log
<1>4. \A k \in Conns : Wire(k) /\ Clean(k)
  BY <1>1 DEF Init, Wire, Genuine, Increasing, Before, Clean
<1>5. \A p \in Consumers : Session(p)
  BY <1>1 DEF Init, Session
<1> QED BY <1>2, <1>3, <1>4, <1>5 DEF Init, ConsumerInv, Exclusive, Idle

LEMMA NextInv == ConsumerInv /\ [Next]_vars => ConsumerInv'
<1> SUFFICES ASSUME ConsumerInv, [Next]_vars PROVE ConsumerInv'
  OBVIOUS
<1>1. ASSUME NEW p \in Consumers,
             Listen(p) \/ Step(p) \/ ExecListenFails(p) \/ ConnBreaks(p) \/ Cancel(p)
      PROVE  ConsumerInv'
  BY <1>1, ListenInv, AcquireInv, ExecListenInv, ExecListenFailsInv, QuietInv, ConnBreaksInv,
     UnlistenInv, ReceiveInv DEF Step
<1>2. ASSUME NEW c \in Channels, NEW ok \in BOOLEAN, Notify(c, ok) PROVE ConsumerInv'
  BY <1>2, NotifyInv
<1>3. CASE UNCHANGED vars
  <2>1. TypeOK' /\ Log' /\ Exclusive' /\ \A k \in Idle' : Clean(k)'
    BY <1>3 DEF vars, ConsumerInv, TypeOK, Log, Exclusive, Idle, Clean
  <2>2. \A k \in Conns : Wire(k)'
    BY <1>3, WireFrame DEF vars, ConsumerInv
  <2>3. \A p \in Consumers : Session(p)'
    BY <1>3, SessionFrame DEF vars, ConsumerInv, TypeOK
  <2> QED BY <1>3, <2>1, <2>2, <2>3 DEF vars, ConsumerInv, Idle
<1> QED BY <1>1, <1>2, <1>3 DEF Next

(* Every reachable state of the consumers, with or without fairness.       *)
LEMMA ConsumerInvariant == Spec => []ConsumerInv
<1> QED BY InitInv, NextInv, PTL DEF Spec

(* The variables keep their types; this is what makes an event's id a      *)
(* position in what PostgreSQL sent, and a working Listen have a           *)
(* connection of the pool.                                                 *)
THEOREM ConsumerTypes == Spec => []TypeOK
<1>1. ConsumerInv => TypeOK
  BY DEF ConsumerInv
<1> QED BY <1>1, ConsumerInvariant, PTL

(* Whatever the pool, the callers and the server do, Listen passes over no *)
(* notification of its channel that was sent after its LISTEN, and hands   *)
(* none to its handler twice or out of order.                              *)
THEOREM NothingIsMissed == Spec => []NothingMissed
<1>1. ConsumerInv => NothingMissed
  <2> SUFFICES ASSUME ConsumerInv, NEW p \in Consumers, pc[p] \in {"wait", "handle", "unlisten"}
               PROVE  /\ Genuine(handled[p]) /\ Increasing(handled[p])
                      /\ \A j \in DOMAIN handled[p] :
                            /\ Own(p, handled[p][j])
                            /\ \A i \in (from[p] + 1)..handled[p][j].id :
                                  sent[i].channel = channel[p] => i \in Ids(handled[p])
    BY DEF NothingMissed
  <2>1. Following(p) /\ sent \in Seq(Event) /\ from[p] \in Nat
    BY BoundsAssumption DEF ConsumerInv, Session, TypeOK
  <2>2. ASSUME NEW j \in DOMAIN handled[p], NEW i \in (from[p] + 1)..handled[p][j].id,
               sent[i].channel = channel[p]
        PROVE  i \in Ids(handled[p])
    <3>1. handled[p][j].id \in 1..Len(sent) /\ Len(sent) \in Nat
      BY <2>1, EventsOf DEF Following, Handled, Genuine
    <3>2. i \in (from[p] + 1)..Len(sent) /\ i <= handled[p][j].id
      BY <2>1, <3>1
    <3> QED BY <2>1, <2>2, <3>2 DEF Following, Complete
  <2> QED BY <2>1, <2>2 DEF Following, Handled
<1> QED BY <1>1, ConsumerInvariant, PTL

(* Listen gives no connection back to the pool that still listens, however *)
(* it ends, and no connection in use listens to another's channel.         *)
THEOREM SessionsStayClean == Spec => []SessionsClean
<1>1. ConsumerInv => SessionsClean
  <2> SUFFICES ASSUME ConsumerInv, NEW p \in Consumers, conn[p] # NoConn
               PROVE  listens[conn[p]] \subseteq {channel[p]}
    BY DEF ConsumerInv, SessionsClean, Clean
  <2>1. Session(p) /\ pc[p] \in {"listen", "wait", "handle", "unlisten"}
    BY DEF ConsumerInv, TypeOK, Session
  <2> QED BY <2>1 DEF Session, Following, Clean
<1> QED BY <1>1, ConsumerInvariant, PTL
=============================================================================
