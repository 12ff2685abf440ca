---------------------------- MODULE Notification ----------------------------
(***************************************************************************)
(* Events on their way to a notification: mq.Publisher of the services     *)
(* that publish them, the queues of RabbitMQ, mq.Worker with one consumer  *)
(* goroutine for each queue and its reconnection (service/pkg/mq), and the *)
(* handlers of the Notification service, which look for a duplicate and    *)
(* then insert (service/notification).                                     *)
(*                                                                         *)
(* The connections a worker opens are numbered: 0 is the one of Start, and *)
(* each reconnection opens another and starts consumers of its own on it,  *)
(* without closing what came before. A restart of the process opens one    *)
(* too, after everything before it is gone.                                *)
(*                                                                         *)
(* Abstracted: an event is the sequence of the notices its handler writes  *)
(* (a malformed one, none); delays; tracing.  RabbitMQ is modelled by its  *)
(* contract: unacknowledged messages go back to the head of the queue.     *)
(***************************************************************************)
EXTENDS Integers, SequencesExt

CONSTANTS
  Msgs,        \* the events that may be published
  Queues,      \* the queues, in the order the worker starts their consumers
  QueueOf,     \* the queue an event is routed to
  Notices,     \* what the handler of an event makes of it, in order
  Unstorable,  \* notices whose INSERT violates a constraint
  NoUser,      \* the empty user id
  MaxConn,     \* bound on the connections opened after the first
  MaxDials,    \* maxRetries of reconnect
  MaxLosses,   \* bound on the connections lost
  MaxFaults    \* bound on the other failures

QueueSet == {Queues[i] : i \in DOMAIN Queues}
Keys == UNION {{Notices[m][i] : i \in DOMAIN Notices[m]} : m \in Msgs}
Conns == 0 .. MaxConn
Consumers == QueueSet \X Conns
NoMsg == "none"

ASSUME MsgsAssumption   == IsFiniteSet(Msgs) /\ NoMsg \notin Msgs
ASSUME QueueAssumption  == /\ Queues \in Seq(QueueSet) /\ IsInjective(Queues)
                           /\ QueueOf \in [Msgs -> QueueSet]
\* The type of a notice, and what it is about, tell the queue of its event.
ASSUME NoticeAssumption ==
  /\ Notices \in [Msgs -> Seq(Keys)] /\ Unstorable \subseteq Keys
  /\ \A m, n \in Msgs : \A i \in DOMAIN Notices[m], j \in DOMAIN Notices[n] :
       Notices[m][i] = Notices[n][j] => QueueOf[m] = QueueOf[n]
ASSUME BoundsAssumption == {MaxConn, MaxLosses, MaxFaults} \subseteq Nat /\ MaxDials \in Nat \ {0}

VARIABLES
  pubUp,      \* whether the connection of the publisher is up
  pending,    \* events whose goroutine is about to publish them
  dropped,    \* events given up by their goroutine
  ready,      \* the messages in each queue
  acked,      \* the messages acknowledged
  unread,     \* rows of notifications with is_read = false, for each notice
  read,       \* those with is_read = true
  open,       \* connections of the worker that are up
  conn,       \* the connection in w.conn
  cancelled,  \* connections whose consumers run with a cancelled context
  pc,         \* where each consumer goroutine is
  job,        \* the message it handles
  at,         \* which notice of it
  token,      \* whether reconnectC holds a signal
  watch,      \* where watchConnection is
  tried,      \* its failed dials, or the consumers it has started
  losses,     \* connections lost so far
  faults,     \* other failures so far
  orphaned    \* messages whose connection was lost while they were handled

source  == <<pubUp, pending, dropped>>
table   == <<unread, read>>
handler == <<pc, job, at>>
watcher == <<open, conn, cancelled, token, watch, tried>>
counts  == <<losses, faults, orphaned>>
vars    == <<source, ready, acked, table, handler, watcher, counts>>

Init ==
  /\ pubUp = TRUE
  /\ pending = {} /\ dropped = {}
  /\ ready = [q \in QueueSet |-> <<>>]
  /\ acked = {}
  /\ unread = [k \in Keys |-> 0]
  /\ read = [k \in Keys |-> 0]
  /\ open = {0} /\ conn = 0 /\ cancelled = {}
  /\ pc = [c \in Consumers |-> IF c[2] = 0 THEN "idle" ELSE "off"]
  /\ job = [c \in Consumers |-> NoMsg]
  /\ at = [c \in Consumers |-> 1]
  /\ token = FALSE /\ watch = "idle" /\ tried = 0
  /\ losses = 0 /\ faults = 0 /\ orphaned = {}

Fault == faults < MaxFaults /\ faults' = faults + 1 /\ UNCHANGED <<losses, orphaned>>

Copies(k) == unread[k] + read[k]

-----------------------------------------------------------------------------
(* Publishing. *)

InQueue(m) == \E i \in DOMAIN ready[QueueOf[m]] : ready[QueueOf[m]][i] = m
Handled(m) == {c \in Consumers : job[c] = m /\ c[2] \in open}
Accepted(m) == m \in acked \/ InQueue(m) \/ Handled(m) # {}

\* PublishAsync starts a goroutine and returns: there is no order among them.
PublishAsync(m) ==
  /\ m \notin pending \cup dropped /\ ~Accepted(m)
  /\ pending' = pending \cup {m}
  /\ UNCHANGED <<pubUp, dropped, ready, acked, table, handler, watcher, counts>>

\* The goroutine publishes, or logs that the connection is closed.
PublishRaw(m) ==
  /\ m \in pending
  /\ pending' = pending \ {m}
  /\ \/ pubUp /\ ready' = [ready EXCEPT ![QueueOf[m]] = Append(@, m)] /\ UNCHANGED dropped
     \/ ~pubUp /\ dropped' = dropped \cup {m} /\ UNCHANGED ready
  /\ UNCHANGED <<pubUp, acked, table, handler, watcher, counts>>

\* The publisher's connection closes, and is never opened again.
PublisherLost ==
  /\ pubUp /\ Fault
  /\ pubUp' = FALSE
  /\ UNCHANGED <<pending, dropped, ready, acked, table, handler, watcher>>

-----------------------------------------------------------------------------
(* Consuming: the loop of Worker.consume. *)

Goto(c, label) == pc' = [pc EXCEPT ![c] = label]
Requeued(q, m) == [ready EXCEPT ![q] = <<m>> \o @]

\* One message at a time: PrefetchCount is 1.
Deliver(c) ==
  /\ pc[c] = "idle" /\ c[2] \in open /\ ready[c[1]] # <<>>
  /\ job' = [job EXCEPT ![c] = Head(ready[c[1]])]
  /\ ready' = [ready EXCEPT ![c[1]] = Tail(@)]
  /\ Goto(c, "check")
  /\ UNCHANGED <<source, acked, table, at, watcher, counts>>

Notice(c) == Notices[job[c]][at[c]]
Cancelled(c) == c[2] \in cancelled
NextNotice(c) == at' = [at EXCEPT ![c] = @ + 1]

\* A handler that takes a duplicate for an error.
CheckDuplicateBug(c) ==
  /\ pc[c] = "check"
  /\ \/ /\ at[c] > Len(Notices[job[c]]) /\ Goto(c, "ack") /\ UNCHANGED at
     \/ /\ at[c] <= Len(Notices[job[c]])
        /\ Goto(c, IF Cancelled(c) \/ Copies(Notice(c)) > 0 THEN "nack" ELSE "insert")
        /\ UNCHANGED at
  /\ UNCHANGED <<source, ready, acked, table, job, watcher, counts>>

\* A handler that does not look for a duplicate.
NoCheckBug(c) ==
  /\ pc[c] = "check"
  /\ \/ /\ at[c] > Len(Notices[job[c]]) /\ Goto(c, "ack") /\ UNCHANGED at
     \/ /\ at[c] <= Len(Notices[job[c]])
        /\ Goto(c, IF Cancelled(c) THEN "nack" ELSE "insert")
        /\ UNCHANGED at
  /\ UNCHANGED <<source, ready, acked, table, job, watcher, counts>>

\* NotificationService.Create, up to CheckDuplicate, for the next notice: no
\* user is an error, one's own action and a duplicate are nothing to do.
CheckDuplicate(c) ==
  /\ pc[c] = "check"
  /\ \/ /\ at[c] > Len(Notices[job[c]]) /\ Goto(c, "ack") /\ UNCHANGED at
     \/ /\ at[c] <= Len(Notices[job[c]])
        /\ LET n == Notice(c)
           IN  \/ n.user = NoUser /\ Goto(c, "nack") /\ UNCHANGED at
               \/ n.user # NoUser /\ n.user = n.actor /\ NextNotice(c) /\ UNCHANGED pc
               \/ /\ n.user \notin {NoUser, n.actor}
                  /\ \/ Cancelled(c) /\ Goto(c, "nack") /\ UNCHANGED at
                     \/ ~Cancelled(c) /\ Copies(n) > 0 /\ NextNotice(c) /\ UNCHANGED pc
                     \/ ~Cancelled(c) /\ Copies(n) = 0 /\ Goto(c, "insert") /\ UNCHANGED at
  /\ UNCHANGED <<source, ready, acked, table, job, watcher, counts>>

\* NotificationService.Create, from the INSERT on. No constraint stops a copy.
Insert(c) ==
  /\ pc[c] = "insert"
  /\ \/ /\ ~Cancelled(c) /\ Notice(c) \notin Unstorable
        /\ unread' = [unread EXCEPT ![Notice(c)] = @ + 1]
        /\ NextNotice(c) /\ Goto(c, "check")
     \/ /\ Cancelled(c) \/ Notice(c) \in Unstorable
        /\ Goto(c, "nack") /\ UNCHANGED <<unread, at>>
  /\ UNCHANGED <<source, ready, acked, read, job, watcher, counts>>

\* The database fails one of the two statements.
HandlerFails(c) ==
  /\ \/ pc[c] = "insert"
     \/ pc[c] = "check" /\ at[c] <= Len(Notices[job[c]]) /\ Notice(c).user \notin {NoUser, Notice(c).actor}
  /\ Fault
  /\ Goto(c, "nack")
  /\ UNCHANGED <<source, ready, acked, table, job, at, watcher>>

\* A worker that publishes again what it could not handle, and requeues it too.
SettleBug(c) ==
  /\ pc[c] \in {"ack", "nack"}
  /\ LET m == job[c]
     IN  \/ c[2] \notin open /\ UNCHANGED <<acked, ready>>
         \/ c[2] \in open /\ pc[c] = "ack" /\ acked' = acked \cup {m} /\ UNCHANGED ready
         \/ /\ c[2] \in open /\ pc[c] = "nack" /\ UNCHANGED acked
            /\ ready' = [ready EXCEPT ![c[1]] = <<m>> \o Append(@, m)]
  /\ job' = [job EXCEPT ![c] = NoMsg]
  /\ at' = [at EXCEPT ![c] = 1]
  /\ Goto(c, "idle")
  /\ UNCHANGED <<source, table, watcher, counts>>

\* A worker that drops what it could not handle: Nack without requeue.
DropBug(c) ==
  /\ pc[c] \in {"ack", "nack"}
  /\ LET m == job[c]
     IN  \/ c[2] \in open /\ pc[c] = "ack" /\ acked' = acked \cup {m} /\ UNCHANGED ready
         \/ ~(c[2] \in open /\ pc[c] = "ack") /\ UNCHANGED <<acked, ready>>
  /\ job' = [job EXCEPT ![c] = NoMsg]
  /\ at' = [at EXCEPT ![c] = 1]
  /\ Goto(c, "idle")
  /\ UNCHANGED <<source, table, watcher, counts>>

\* Ack, or Nack with requeue; the error of either on a closed channel is ignored.
Settle(c) ==
  /\ pc[c] \in {"ack", "nack"}
  /\ LET m == job[c]
     IN  \/ c[2] \notin open /\ UNCHANGED <<acked, ready>>
         \/ c[2] \in open /\ pc[c] = "ack" /\ acked' = acked \cup {m} /\ UNCHANGED ready
         \/ c[2] \in open /\ pc[c] = "nack" /\ ready' = Requeued(c[1], m) /\ UNCHANGED acked
  /\ job' = [job EXCEPT ![c] = NoMsg]
  /\ at' = [at EXCEPT ![c] = 1]
  /\ Goto(c, "idle")
  /\ UNCHANGED <<source, table, watcher, counts>>

\* The deliveries of a closed connection end: the goroutine leaves a signal,
\* unless there is one, and returns.
SeeClosed(c) ==
  /\ pc[c] = "idle" /\ c[2] \notin open
  /\ token' = TRUE
  /\ Goto(c, "gone")
  /\ UNCHANGED <<source, ready, acked, table, job, at, open, conn, cancelled, watch, tried, counts>>

Consume(c) == Deliver(c) \/ CheckDuplicate(c) \/ Insert(c) \/ Settle(c) \/ SeeClosed(c)

-----------------------------------------------------------------------------
(* Connections. *)

\* The messages handled on connection g, back at the head of their queues.
Returned(g) ==
  [q \in QueueSet |-> IF job[<<q, g>>] = NoMsg THEN ready[q] ELSE <<job[<<q, g>>]>> \o ready[q]]

\* The broker or the network closes a connection. Handlers run on.
ConnectionLost(g) ==
  /\ g \in open /\ losses < MaxLosses
  /\ open' = open \ {g}
  /\ ready' = Returned(g)
  /\ losses' = losses + 1
  /\ orphaned' = orphaned \cup ({job[<<q, g>>] : q \in QueueSet} \ {NoMsg})
  /\ UNCHANGED <<source, acked, table, handler, conn, cancelled, token, watch, tried, faults>>

\* watchConnection takes the signal and calls reconnect.
Watch ==
  /\ watch = "idle" /\ token
  /\ token' = FALSE /\ watch' = "dial" /\ tried' = 0
  /\ UNCHANGED <<source, ready, acked, table, handler, open, conn, cancelled, counts>>

\* connect opens a connection and a channel and forgets the ones before.
Connect ==
  /\ watch = "dial" /\ conn < MaxConn
  /\ conn' = conn + 1
  /\ open' = open \cup {conn + 1}
  /\ watch' = "start" /\ tried' = 0
  /\ UNCHANGED <<source, ready, acked, table, handler, cancelled, token, counts>>

\* A dial too many.
ConnectFailsBug ==
  /\ watch = "dial" /\ Fault
  /\ tried' = tried + 1
  /\ watch' = IF tried >= MaxDials THEN "idle" ELSE "dial"
  /\ UNCHANGED <<source, ready, acked, table, handler, open, conn, cancelled, token>>

\* After MaxDials failures reconnect gives up, and waits for the next signal.
ConnectFails ==
  /\ watch = "dial" /\ Fault
  /\ tried' = tried + 1
  /\ watch' = IF tried + 1 >= MaxDials THEN "idle" ELSE "dial"
  /\ UNCHANGED <<source, ready, acked, table, handler, open, conn, cancelled, token>>

\* startConsumer, for the queues in order; an error is logged, no more.
StartConsumer ==
  /\ watch = "start" /\ tried < Len(Queues)
  /\ tried' = tried + 1
  /\ \/ conn \in open /\ Goto(<<Queues[tried + 1], conn>>, "idle") /\ UNCHANGED counts
     \/ conn \notin open /\ UNCHANGED <<pc, counts>>
     \/ Fault /\ UNCHANGED pc
  /\ UNCHANGED <<source, ready, acked, table, job, at, open, conn, cancelled, token, watch>>

\* cancel(), although the consumers run with the context it cancels.
Reconnected ==
  /\ watch = "start" /\ tried = Len(Queues)
  /\ cancelled' = cancelled \cup {conn}
  /\ watch' = "idle" /\ tried' = 0
  /\ UNCHANGED <<source, ready, acked, table, handler, open, conn, token, counts>>

Reconnect == Watch \/ Connect \/ StartConsumer \/ Reconnected

\* The process stops anywhere, and Start runs again in a new one.
Restart ==
  /\ conn < MaxConn /\ Fault
  /\ conn' = conn + 1 /\ open' = {conn + 1}
  /\ token' = FALSE /\ watch' = "idle" /\ tried' = 0
  /\ ready' = [q \in QueueSet |-> SetToSeq({job[<<q, g>>] : g \in open} \ {NoMsg}) \o ready[q]]
  /\ pc' = [c \in Consumers |-> IF c[2] = conn + 1 THEN "idle"
                                ELSE IF c[2] <= conn THEN "gone" ELSE "off"]
  /\ job' = [c \in Consumers |-> NoMsg]
  /\ at' = [c \in Consumers |-> 1]
  /\ UNCHANGED <<source, acked, table, cancelled>>

-----------------------------------------------------------------------------
(* Reading. *)

\* MarkAsReadByUser: one notification.
MarkAsRead(k) ==
  /\ unread[k] > 0
  /\ unread' = [unread EXCEPT ![k] = @ - 1]
  /\ read' = [read EXCEPT ![k] = @ + 1]
  /\ UNCHANGED <<source, ready, acked, handler, watcher, counts>>

\* MarkAllAsRead: those of a user.
MarkAllAsRead(u) ==
  /\ \E k \in Keys : k.user = u /\ unread[k] > 0
  /\ unread' = [k \in Keys |-> IF k.user = u THEN 0 ELSE unread[k]]
  /\ read' = [k \in Keys |-> IF k.user = u THEN Copies(k) ELSE read[k]]
  /\ UNCHANGED <<source, ready, acked, handler, watcher, counts>>

Next ==
  \/ \E m \in Msgs : PublishAsync(m) \/ PublishRaw(m)
  \/ \E c \in Consumers : Consume(c) \/ HandlerFails(c)
  \/ Reconnect \/ ConnectFails
  \/ PublisherLost \/ Restart \/ \E g \in Conns : ConnectionLost(g)
  \/ \E k \in Keys : MarkAsRead(k) \/ MarkAllAsRead(k.user)

Spec == Init /\ [][Next]_vars

\* Goroutines that can run are run, and a dial that can succeed does in the end.
Fairness == WF_vars(Reconnect) /\ \A c \in Consumers : WF_vars(Consume(c))

FairSpec == Spec /\ Fairness

-----------------------------------------------------------------------------
(* Properties. *)

TypeOK ==
  /\ pubUp \in BOOLEAN
  /\ pending \subseteq Msgs /\ dropped \subseteq Msgs
  /\ ready \in [QueueSet -> Seq(Msgs)]
  /\ acked \subseteq Msgs
  /\ unread \in [Keys -> Nat] /\ read \in [Keys -> Nat]
  /\ open \subseteq 0 .. conn /\ conn \in Conns /\ cancelled \subseteq 0 .. conn
  /\ pc \in [Consumers -> {"off", "idle", "check", "insert", "ack", "nack", "gone"}]
  /\ job \in [Consumers -> Msgs \cup {NoMsg}]
  /\ \A c \in Consumers : (job[c] = NoMsg) <=> (pc[c] \in {"off", "idle", "gone"})
  /\ at \in [Consumers -> Nat]
  /\ token \in BOOLEAN /\ watch \in {"idle", "dial", "start"} /\ tried \in Nat
  /\ (watch = "dial" => tried < MaxDials) /\ (watch = "start" => tried <= Len(Queues))
  /\ losses \in 0 .. MaxLosses /\ faults \in 0 .. MaxFaults /\ orphaned \subseteq Msgs

\* What the broker took it keeps in one place: a message is in its queue once,
\* with one consumer of a connection that is up, or acknowledged.
ExactlyOnePlace ==
  \A m \in Msgs :
    Cardinality({i \in DOMAIN ready[QueueOf[m]] : ready[QueueOf[m]][i] = m})
      + Cardinality(Handled(m)) + (IF m \in acked THEN 1 ELSE 0)
      + (IF m \in pending \cup dropped THEN 1 ELSE 0) <= 1

\* However often a message is delivered and the process restarted, a notice is
\* written once, unless a connection was lost under a handler at work.
OnceUnlessOrphaned == orphaned = {} => \A k \in Keys : Copies(k) <= 1

\* The notices that make up an event, but for those of one's own actions.
Needs == [m \in Msgs |-> {k \in {Notices[m][i] : i \in DOMAIN Notices[m]} : k.user # k.actor}]

D == INSTANCE Delivery WITH
       accepted <- {m \in Msgs : Accepted(m)}, lost <- dropped, settled <- acked,
       copies <- [k \in Keys |-> Copies(k)]

\* Delivery at least once: whatever is lost, reconnected, cancelled or restarted,
\* an event the broker took stays with it until it is acknowledged, with its
\* notices; even a handler without a connection works for such an event.
AtLeastOnce == D!Spec

\* A queue all of whose messages can be handled: none is requeued for ever
\* before the others.
Healthy(q) ==
  \A m \in Msgs : QueueOf[m] = q => \A i \in DOMAIN Notices[m] :
    Notices[m][i].user # NoUser /\ Notices[m][i] \notin Unstorable

\* As long as no connection is lost, an accepted event becomes a notification,
\* whatever fails on the way, if no event in its queue is one that cannot.
EventuallyNotified ==
  \A m \in Msgs : Healthy(QueueOf[m]) /\ Accepted(m) ~> (m \in acked \/ losses > 0)

\* The worker reconnects by itself and goes on: an accepted event is
\* acknowledged in the end, if every event in its queue can be handled. Refuted:
\* the handlers of a new connection run with the context that reconnect cancels.
ResumesAfterReconnect ==
  \A m \in Msgs : Healthy(QueueOf[m]) /\ Accepted(m) ~> m \in acked
=============================================================================
