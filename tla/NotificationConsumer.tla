------------------------ MODULE NotificationConsumer ------------------------
(***************************************************************************)
(* Consumers of PostgreSQL notifications (src/notification/consumer.go)    *)
(* over the connections of one DataSource.  A Consumer may Listen again    *)
(* after a Listen has returned, on whichever connection the pool gives it. *)
(*                                                                         *)
(* External, modelled from how Listen uses them: the server queues a       *)
(* notification for every session that listens to its channel; the client  *)
(* library keeps what it reads from the wire in a buffer of the            *)
(* connection, and the buffer stays with the connection when that goes     *)
(* back to the pool.  The Config has no notification hook: with one the    *)
(* library returns a nil notification, which Listen does not expect.       *)
(***************************************************************************)
EXTENDS Integers, Sequences

CONSTANTS
    Consumers,
    Conns,          \* connections of the pool
    Channels,
    Unquotable,     \* a channel name quoteIdentifier refuses
    NoConn,
    Assignments,    \* the channels the consumers may have been created with
    MaxListens,     \* bound: calls of Listen, of all consumers together
    MaxEvents       \* bound: notifications sent

ASSUME BoundsAssumption == MaxListens \in Nat /\ MaxEvents \in Nat
ASSUME NamesAssumption == Unquotable \notin Channels /\ NoConn \notin Conns
ASSUME AssignmentsAssumption == Assignments \subseteq [Consumers -> Channels \cup {Unquotable}]

VARIABLES
    channel,    \* the channel of each consumer
    listens,    \* the channels each session listens to, at the server
    queue,      \* notifications the server has for each session
    buffer,     \* notifications the client library holds for each connection
    sent,       \* history: all notifications, in order
    pc, conn, cancelled, calls,
    from,       \* history: notifications sent before the LISTEN took effect
    handled,    \* history: the events this Listen gave to its handler
    outcome     \* how the last Listen ended

vars == <<channel, listens, queue, buffer, sent, pc, conn, cancelled, calls, from, handled, outcome>>

(* An event carries its position in "sent"; json tells whether its payload *)
(* can be decoded (anybody may NOTIFY, with any payload).                  *)
Event == [id : 1..MaxEvents, channel : Channels, json : BOOLEAN]
NoEvent == [id |-> 0]

TypeOK ==
    /\ channel \in Assignments
    /\ listens \in [Conns -> SUBSET Channels]
    /\ queue \in [Conns -> Seq(Event)]
    /\ buffer \in [Conns -> Seq(Event)]
    /\ sent \in Seq(Event)
    /\ pc \in [Consumers -> {"idle", "acquire", "listen", "wait", "handle", "unlisten", "done"}]
    /\ conn \in [Consumers -> Conns \cup {NoConn}]
    /\ cancelled \in [Consumers -> BOOLEAN]
    /\ calls \in 0..MaxListens
    /\ from \in [Consumers -> 0..MaxEvents]
    /\ handled \in [Consumers -> Seq(Event)]
    /\ outcome \in [Consumers -> {"none", "err"}]

-----------------------------------------------------------------------------
Idle == Conns \ {conn[p] : p \in Consumers}

Goto(p, l) == pc' = [pc EXCEPT ![p] = l]

(* Listen returns; it has given its connection back, and its history ends. *)
Return(p, o) ==
    /\ Goto(p, "done")
    /\ outcome' = [outcome EXCEPT ![p] = o]
    /\ conn' = [conn EXCEPT ![p] = NoConn]
    /\ cancelled' = [cancelled EXCEPT ![p] = FALSE]
    /\ from' = [from EXCEPT ![p] = 0]
    /\ handled' = [handled EXCEPT ![p] = <<>>]

(* Listen is about to return: its deferred UNLISTEN comes next.            *)
Leave(p, o) ==
    /\ Goto(p, "unlisten")
    /\ outcome' = [outcome EXCEPT ![p] = o]

Init ==
    /\ channel \in Assignments
    /\ listens = [k \in Conns |-> {}]
    /\ queue = [k \in Conns |-> <<>>]
    /\ buffer = [k \in Conns |-> <<>>]
    /\ sent = <<>>
    /\ pc = [p \in Consumers |-> "idle"]
    /\ conn = [p \in Consumers |-> NoConn]
    /\ cancelled = [p \in Consumers |-> FALSE]
    /\ calls = 0
    /\ from = [p \in Consumers |-> 0]
    /\ handled = [p \in Consumers |-> <<>>]
    /\ outcome = [p \in Consumers |-> "none"]

Listen(p) ==
    /\ pc[p] \in {"idle", "done"}
    /\ calls < MaxListens
    /\ calls' = calls + 1
    /\ \/ channel[p] = Unquotable /\ Return(p, "err")
       \/ /\ channel[p] # Unquotable
          /\ Goto(p, "acquire") /\ UNCHANGED <<conn, cancelled, from, handled, outcome>>
    /\ UNCHANGED <<channel, listens, queue, buffer, sent>>

Acquire(p) ==
    /\ pc[p] = "acquire"
    /\ \/ /\ \E k \in Idle : conn' = [conn EXCEPT ![p] = k]
          /\ Goto(p, "listen") /\ UNCHANGED <<cancelled, from, handled, outcome>>
       \/ cancelled[p] /\ Return(p, "err")
    /\ UNCHANGED <<channel, listens, queue, buffer, sent, calls>>

(* Mutant: an unquoted channel name is folded to another one.              *)
ExecListenFolded(p) ==
    /\ pc[p] = "listen"
    /\ \E c \in Channels : listens' = [listens EXCEPT ![conn[p]] = @ \cup {c}]
    /\ from' = [from EXCEPT ![p] = Len(sent)]
    /\ Goto(p, "wait")
    /\ UNCHANGED <<channel, queue, buffer, sent, conn, cancelled, calls, handled, outcome>>

(* LISTEN; then ready is closed.                                           *)
ExecListen(p) ==
    /\ pc[p] = "listen"
    /\ listens' = [listens EXCEPT ![conn[p]] = @ \cup {channel[p]}]
    /\ from' = [from EXCEPT ![p] = Len(sent)]
    /\ Goto(p, "wait")
    /\ UNCHANGED <<channel, queue, buffer, sent, conn, cancelled, calls, handled, outcome>>

(* LISTEN fails: there is nothing to undo.                                 *)
ExecListenFails(p) ==
    /\ pc[p] = "listen"
    /\ Return(p, "err")
    /\ UNCHANGED <<channel, listens, queue, buffer, sent, calls>>

(* WaitForNotification: the buffer first, then the wire.                   *)
Take(k) ==
    \/ buffer[k] # <<>> /\ buffer' = [buffer EXCEPT ![k] = Tail(@)] /\ UNCHANGED queue
    \/ /\ buffer[k] = <<>> /\ queue[k] # <<>>
       /\ queue' = [queue EXCEPT ![k] = Tail(@)] /\ UNCHANGED buffer

First(k) == Head(buffer[k] \o queue[k])

(* Mutant: a payload that cannot be decoded is skipped.                    *)
ReceiveSkipping(p) ==
    /\ pc[p] = "wait"
    /\ Take(conn[p])
    /\ IF First(conn[p]).json
         THEN Goto(p, "handle") /\ handled' = [handled EXCEPT ![p] = Append(@, First(conn[p]))]
         ELSE UNCHANGED <<pc, handled>>
    /\ UNCHANGED <<channel, listens, sent, conn, cancelled, calls, from, outcome>>

(* An event whose payload is not JSON ends the Listen.                     *)
Receive(p) ==
    /\ pc[p] = "wait"
    /\ Take(conn[p])
    /\ \/ /\ ~First(conn[p]).json
          /\ Leave(p, "err") /\ UNCHANGED handled
       \/ /\ First(conn[p]).json
          /\ Goto(p, "handle") /\ UNCHANGED outcome
          /\ handled' = [handled EXCEPT ![p] = Append(@, First(conn[p]))]
    /\ UNCHANGED <<channel, listens, sent, conn, cancelled, calls, from>>

(* Mutant: Listen goes on waiting after WaitForNotification has failed.    *)
WaitCancelledIgnored(p) ==
    /\ pc[p] = "wait" /\ cancelled[p] /\ buffer[conn[p]] = <<>>
    /\ UNCHANGED vars

(* The context has ended; the library looks at it once its buffer is empty.*)
WaitCancelled(p) ==
    /\ pc[p] = "wait" /\ cancelled[p] /\ buffer[conn[p]] = <<>>
    /\ Leave(p, "err")
    /\ UNCHANGED <<channel, listens, queue, buffer, sent, conn, cancelled, calls, from, handled>>

(* Mutant: the error of WaitForNotification is not looked at.              *)
ConnBreaksUnnoticed(p) ==
    /\ pc[p] = "wait" /\ buffer[conn[p]] = <<>>
    /\ Goto(p, "handle")
    /\ handled' = [handled EXCEPT ![p] = Append(@, NoEvent)]
    /\ listens' = [listens EXCEPT ![conn[p]] = {}]
    /\ queue' = [queue EXCEPT ![conn[p]] = <<>>]
    /\ UNCHANGED <<channel, buffer, sent, conn, cancelled, calls, from, outcome>>

(* The connection breaks while Listen waits: the session is gone, and the  *)
(* pool makes a new connection of it when it is released.                  *)
ConnBreaks(p) ==
    /\ pc[p] = "wait" /\ buffer[conn[p]] = <<>>
    /\ Leave(p, "err")
    /\ listens' = [listens EXCEPT ![conn[p]] = {}]
    /\ queue' = [queue EXCEPT ![conn[p]] = <<>>]
    /\ UNCHANGED <<channel, buffer, sent, conn, cancelled, calls, from, handled>>

Handle(p) ==
    /\ pc[p] = "handle"
    /\ \/ Goto(p, "wait") /\ UNCHANGED outcome
       \/ Leave(p, "err")
    /\ UNCHANGED <<channel, listens, queue, buffer, sent, conn, cancelled, calls, from, handled>>

(* Mutant: the connection is released as it is.                            *)
UnlistenForgotten(p) ==
    /\ pc[p] = "unlisten"
    /\ Return(p, outcome[p])
    /\ UNCHANGED <<channel, listens, queue, buffer, sent, calls>>

(* UNLISTEN and Release.  Of what the server still had for the session,    *)
(* any first part reaches the connection before the answer to UNLISTEN.    *)
Unlisten(p) ==
    LET k == conn[p] IN
    /\ pc[p] = "unlisten"
    /\ listens' = [listens EXCEPT ![k] = @ \ {channel[p]}]
    /\ \E n \in 0..Len(queue[k]) :
          buffer' = [buffer EXCEPT ![k] = @ \o SubSeq(queue[k], 1, n)]
    /\ queue' = [queue EXCEPT ![k] = <<>>]
    /\ Return(p, outcome[p])
    /\ UNCHANGED <<channel, sent, calls>>

(* The caller of Listen ends its context.                                  *)
Cancel(p) ==
    /\ pc[p] \notin {"idle", "done"} /\ ~cancelled[p]
    /\ cancelled' = [cancelled EXCEPT ![p] = TRUE]
    /\ UNCHANGED <<channel, listens, queue, buffer, sent, pc, conn, calls, from, handled, outcome>>

(* pg_notify, by an installed trigger or by any other client.              *)
Notify(c, ok) ==
    LET e == [id |-> Len(sent) + 1, channel |-> c, json |-> ok] IN
    /\ Len(sent) < MaxEvents
    /\ sent' = Append(sent, e)
    /\ queue' = [k \in Conns |-> IF c \in listens[k] THEN Append(queue[k], e) ELSE queue[k]]
    /\ UNCHANGED <<channel, listens, buffer, pc, conn, cancelled, calls, from, handled, outcome>>

Step(p) ==
    Acquire(p) \/ ExecListen(p) \/ Receive(p) \/ WaitCancelled(p) \/ Handle(p) \/ Unlisten(p)

Next ==
    \/ \E p \in Consumers : Listen(p) \/ Step(p) \/ ExecListenFails(p) \/ ConnBreaks(p) \/ Cancel(p)
    \/ \E c \in Channels, ok \in BOOLEAN : Notify(c, ok)

Spec == Init /\ [][Next]_vars

(* A Listen that runs keeps running, handlers return, and the pool serves  *)
(* its waiters in turn.                                                    *)
FairSpec == Spec /\ \A p \in Consumers : SF_vars(Step(p))

-----------------------------------------------------------------------------
(* From the moment "ready" is closed nothing is missed: a Listen gives its *)
(* handler what was sent, in the order sent and each event at most once,   *)
(* and passes over no event of its channel since; what it finds buffered   *)
(* of other channels is from before.                                       *)
Increasing(s) == \A i, j \in DOMAIN s : i < j => s[i].id < s[j].id

Genuine(s) == \A i \in DOMAIN s : s[i].id \in DOMAIN sent /\ s[i] = sent[s[i].id]

Ids(s) == {s[i].id : i \in DOMAIN s}

Own(p, e) == e.id > from[p] => e.channel = channel[p]

NothingMissed ==
    \A p \in Consumers : pc[p] \in {"wait", "handle", "unlisten"} =>
        /\ Genuine(handled[p]) /\ Increasing(handled[p])
        /\ \A j \in DOMAIN handled[p] :
              /\ Own(p, handled[p][j])
              /\ \A i \in (from[p] + 1)..handled[p][j].id :
                    sent[i].channel = channel[p] => i \in Ids(handled[p])

(* A connection that goes back to the pool listens to nothing, so no other *)
(* user of the pool pays for a consumer; one in use listens to no other    *)
(* channel than its consumer's.                                            *)
SessionsClean ==
    /\ \A k \in Idle : listens[k] = {} /\ queue[k] = <<>>
    /\ \A p \in Consumers : conn[p] # NoConn => listens[conn[p]] \subseteq {channel[p]}

(* A notification sent while a Listen waits reaches its handler, or the    *)
(* Listen ends.                                                            *)
Delivered ==
    \A p \in Consumers, i \in 1..MaxEvents :
        /\ Len(sent) = i /\ sent[i].channel = channel[p]
        /\ pc[p] \in {"wait", "handle"} /\ from[p] < i
        ~> \/ pc[p] = "done"
           \/ \E j \in 1..Len(handled[p]) : handled[p][j].id = i

(* "Listen receives events until ctx is canceled": then it returns.        *)
CancelEnds == \A p \in Consumers : cancelled[p] ~> pc[p] = "done"

(* "Consumer listens on one PostgreSQL channel": its handler sees no event *)
(* of another one.                                                         *)
OwnChannelOnly ==
    \A p \in Consumers : \A i \in 1..Len(handled[p]) : handled[p][i].channel = channel[p]
=============================================================================
