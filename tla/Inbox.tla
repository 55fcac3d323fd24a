------------------------------- MODULE Inbox -------------------------------
(***************************************************************************)
(* The transactional inbox: consumers of the protocol queue                *)
(* (scripts/consume_inbox.py, infrastructure/inbox.py) and the quorum      *)
(* queue they read, with its redelivery counter, its delivery limit and    *)
(* its dead-letter queue (infrastructure/broker.py declares it).           *)
(*                                                                         *)
(* A consumer takes one message at a time (prefetch 1), finishes a         *)
(* database transaction and only then settles the message with the         *)
(* broker.  The broker gives a message back to the queue, or to the        *)
(* dead-letter queue once the limit is exceeded, whenever the consumer's   *)
(* connection is gone; the consumer may not notice before it settles.      *)
(*                                                                         *)
(* A message is one published copy of an event; copies of an event have    *)
(* the same content, as the relay sends one stored payload.                *)
(* Definitions named Faulty... are bugs that could be introduced there; no *)
(* specification uses them.                                                *)
(***************************************************************************)
EXTENDS Naturals, FiniteSets

CONSTANTS
  Message,        \* copies published to the queue
  Event,          \* event ids
  EventOf,        \* the event of a message
  Quality,        \* what a consumer finds in a message of that event
  Known,          \* events whose process and protocol have rows
  Consumer,       \* inbox consumers
  MaxAttempts,    \* outbox.MAX_ATTEMPTS, 4 in the code
  DeliveryLimit,  \* broker.DELIVERY_LIMIT, 4 in the code
  MaxPublished,   \* bound: messages published in a history
  NoMessage       \* a consumer without a message

\* "bad": a payload that does not parse or has another digest; "anonymous": an
\* empty event, process or protocol id.
QualityKind == {"good", "bad", "anonymous"}

ASSUME InboxAssumption ==
  /\ EventOf \in [Message -> Event]
  /\ Quality \in [Event -> QualityKind]
  /\ Known \subseteq Event
  /\ MaxAttempts \in Nat \ {0} /\ DeliveryLimit \in Nat /\ MaxPublished \in Nat
  /\ NoMessage \notin Message

VARIABLES
  place,    \* of a message: unsent, queue, held, acked, dead
  count,    \* of a message: x-delivery-count
  holder,   \* the broker's view: the message a consumer has unsettled
  cons,     \* the consumer's own view of its message
  inbox,    \* table integration_inbox
  effects   \* RECEIVED rows ever inserted for an event

vars == <<place, count, holder, cons, inbox, effects>>

Place == {"unsent", "queue", "held", "acked", "dead"}
Action == {"none", "ACK", "NACK_REQUEUE", "NACK_DEAD_LETTER"}
Session == [phase: {"idle", "received", "committed"},
            msg: Message \cup {NoMessage}, attempt: Nat, action: Action]
IdleSession == [phase |-> "idle", msg |-> NoMessage, attempt |-> 0,
                action |-> "none"]
NoRow == [status |-> "none", attempts |-> 0]
InboxRow == {NoRow} \cup [status: {"RECEIVED", "POISON"}, attempts: 1..MaxAttempts]

Content(m) == Quality[EventOf[m]]

Init ==
  /\ place = [m \in Message |-> "unsent"]
  /\ count = [m \in Message |-> 0]
  /\ holder = [c \in Consumer |-> NoMessage]
  /\ cons = [c \in Consumer |-> IdleSession]
  /\ inbox = [e \in Event |-> NoRow]
  /\ effects = [e \in Event |-> 0]

-----------------------------------------------------------------------------
(* The broker.                                                             *)

\* The relay, or another producer, publishes a message.
Publish(m) ==
  /\ place[m] = "unsent"
  /\ Cardinality({n \in Message : place[n] # "unsent"}) < MaxPublished
  /\ place' = [place EXCEPT ![m] = "queue"]
  /\ UNCHANGED <<count, holder, cons, inbox, effects>>

\* A message that is given back counts one more delivery and is dead-lettered
\* once the limit is exceeded (protocol_queue_arguments, RabbitMQ 3.13).
Returned(m) == IF count[m] + 1 > DeliveryLimit THEN "dead" ELSE "queue"

GiveBack(c, m) ==
  /\ place' = [place EXCEPT ![m] = Returned(m)]
  /\ count' = [count EXCEPT ![m] = @ + 1]
  /\ holder' = [holder EXCEPT ![c] = NoMessage]

\* Only a consumer whose session is open and idle asks for a message.
Deliver(c, m) ==
  /\ cons[c].phase = "idle" /\ holder[c] = NoMessage
  /\ place[m] = "queue"
  /\ place' = [place EXCEPT ![m] = "held"]
  /\ holder' = [holder EXCEPT ![c] = m]
  \* delivery_attempt: the header counts failed deliveries
  /\ cons' = [cons EXCEPT ![c] = [phase |-> "received", msg |-> m,
                                  attempt |-> count[m] + 1, action |-> "none"]]
  /\ UNCHANGED <<count, inbox, effects>>

\* The connection breaks under a consumer that is busy with its database.
Drop(c) ==
  /\ holder[c] # NoMessage
  /\ GiveBack(c, holder[c])
  /\ UNCHANGED <<cons, inbox, effects>>

-----------------------------------------------------------------------------
(* The consumer.                                                           *)

\* classify_inbox_delivery
FaultyClassify(m, n) ==   \* poisons at the first failure
  IF Content(m) = "good" THEN "ACK" ELSE "NACK_DEAD_LETTER"
Classify(m, n) ==
  CASE Content(m) = "good" -> "ACK"
    [] Content(m) # "good" /\ n < MaxAttempts -> "NACK_REQUEUE"
    [] Content(m) # "good" /\ n >= MaxAttempts -> "NACK_DEAD_LETTER"

\* The row of that delivery; without one the transaction is rolled back.
FaultyRowFor(m, n) ==   \* counts failed deliveries, not attempts
  IF Content(m) = "good" THEN [status |-> "RECEIVED", attempts |-> 1]
  ELSE IF n + 1 >= MaxAttempts THEN [status |-> "POISON", attempts |-> MaxAttempts]
  ELSE NoRow
RowFor(m, n) ==
  LET attempts == IF n < MaxAttempts THEN n ELSE MaxAttempts IN
  CASE Content(m) = "good" -> [status |-> "RECEIVED", attempts |-> attempts]
    [] Content(m) = "bad" /\ n >= MaxAttempts ->
         [status |-> "POISON", attempts |-> MaxAttempts]
    [] OTHER -> NoRow

\* insert_inbox: ON CONFLICT (event_id) DO NOTHING.
FaultyFresh(m) == TRUE   \* no primary key to conflict with
Fresh(m) == inbox[EventOf[m]] = NoRow

Insert(m, row) ==
  IF row # NoRow /\ Fresh(m)
  THEN /\ inbox' = [inbox EXCEPT ![EventOf[m]] = row]
       /\ effects' = IF row.status = "RECEIVED"
                     THEN [effects EXCEPT ![EventOf[m]] = @ + 1] ELSE effects
  ELSE UNCHANGED <<inbox, effects>>

\* The foreign keys of the row (schema.sql): an event of an unknown process or
\* protocol raises, at every delivery.
Insertable(m, n) == EventOf[m] \in Known \/ RowFor(m, n) = NoRow

\* persist_inbox_delivery: the transaction commits, or has nothing to keep.
Persist(c) ==
  LET m == cons[c].msg
      n == cons[c].attempt IN
  /\ cons[c].phase = "received"
  /\ Insertable(m, n)
  /\ Insert(m, RowFor(m, n))
  /\ cons' = [cons EXCEPT ![c].phase = "committed", ![c].action = Classify(m, n)]
  /\ UNCHANGED <<place, count, holder>>

\* The session ends and its connection closes: what it holds is given back.
FaultyEndSession(c) ==   \* the next session keeps the connection open
  /\ cons' = [cons EXCEPT ![c] = IdleSession]
  /\ UNCHANGED <<place, count, holder>>
EndSession(c) ==
  /\ cons' = [cons EXCEPT ![c] = IdleSession]
  /\ IF holder[c] # NoMessage THEN GiveBack(c, holder[c])
     ELSE UNCHANGED <<place, count, holder>>

\* The database fails, before the commit or with its result unknown; the
\* exception escapes the session.
PersistFails(c) ==
  LET m == cons[c].msg
      n == cons[c].attempt IN
  /\ cons[c].phase = "received"
  /\ \/ UNCHANGED <<inbox, effects>>
     \/ Insertable(m, n) /\ Insert(m, RowFor(m, n))
  /\ EndSession(c)

\* settle_async_inbox_delivery: the settlement frame is awaited after the
\* commit.  It reaches the broker only if the delivery is still the consumer's.
FaultySettledAs(a) == IF a = "NACK_REQUEUE" THEN "queue" ELSE "acked"
SettledAs(a) == IF a = "ACK" THEN "acked" ELSE "dead"

Settle(c) ==
  /\ cons[c].phase = "committed"
  /\ holder[c] = cons[c].msg
  /\ IF cons[c].action = "NACK_REQUEUE"
     THEN GiveBack(c, cons[c].msg)
     ELSE /\ place' = [place EXCEPT ![cons[c].msg] = SettledAs(cons[c].action)]
          /\ holder' = [holder EXCEPT ![c] = NoMessage]
          /\ UNCHANGED count
  /\ cons' = [cons EXCEPT ![c] = IdleSession]
  /\ UNCHANGED <<inbox, effects>>

\* The delivery tag is of a connection that is gone: the exception escapes.
SettleStale(c) ==
  /\ cons[c].phase = "committed"
  /\ holder[c] # cons[c].msg
  /\ EndSession(c)
  /\ UNCHANGED <<inbox, effects>>

\* The consumer process dies or is stopped with a message in its hands.
Crash(c) ==
  /\ cons[c].phase # "idle"
  /\ EndSession(c)
  /\ UNCHANGED <<inbox, effects>>

-----------------------------------------------------------------------------
Handle(c) == Persist(c) \/ PersistFails(c) \/ Settle(c) \/ SettleStale(c)

Next ==
  \/ \E m \in Message : Publish(m)
  \/ \E c \in Consumer :
       \/ Handle(c) \/ Drop(c) \/ Crash(c)
       \/ \E m \in Message : Deliver(c, m)

Spec == Init /\ [][Next]_vars

\* A consumer session that failed is opened again (InboxConsumerWorker), so
\* a waiting message finds a consumer, and a consumer ends what it started.
\* Nothing is assumed about databases or connections that work.
Fairness ==
  /\ \A c \in Consumer : WF_vars(Handle(c))
  /\ \A m \in Message : WF_vars(\E c \in Consumer : Deliver(c, m))

FairSpec == Spec /\ Fairness

-----------------------------------------------------------------------------
(* Safety.                                                                 *)

\* Shape of the variables; the row's attempts respect the CHECK of schema.sql.
TypeOK ==
  /\ place \in [Message -> Place]
  /\ count \in [Message -> 0..(DeliveryLimit + 1)]
  /\ holder \in [Consumer -> Message \cup {NoMessage}]
  /\ cons \in [Consumer -> Session]
  /\ inbox \in [Event -> InboxRow]
  /\ effects \in [Event -> Nat]

\* Exactly-once effect (inbox.py:1): however often an event is published and
\* redelivered, and to however many consumers at once, its effect happens at
\* most once, and exactly once when its row says RECEIVED.
EffectOnce ==
  \A e \in Event : effects[e] = IF inbox[e].status = "RECEIVED" THEN 1 ELSE 0

\* A message leaves the broker by ACK only with its effect committed: no crash,
\* stale session or unknown commit between the two loses it.
AckedIsReceived ==
  \A m \in Message : place[m] = "acked" => inbox[EventOf[m]].status = "RECEIVED"

\* An unreadable message keeps a copy at the broker for an operator, also when
\* its POISON row already exists (ADR-0012): it is in the queue, with a consumer
\* or in the dead-letter queue, never acknowledged away.
UnreadableIsKept ==
  \A m \in Message : Content(m) # "good" => place[m] # "acked"

\* A message is given up only after its budget of deliveries, and the row says
\* so: a POISON row means MaxAttempts parses failed, on one copy of the event.
PoisonedAfterBudget ==
  \A e \in Event : inbox[e].status = "POISON" =>
    /\ Quality[e] = "bad"
    /\ \E m \in Message : EventOf[m] = e /\ count[m] + 1 >= MaxAttempts

\* The dead-letter queue holds only messages with a row, unnamed ones, and
\* those whose deliveries were used up by failing sessions.
DeadIsAccountedFor ==
  \A m \in Message : place[m] = "dead" =>
    \/ inbox[EventOf[m]] # NoRow
    \/ Content(m) = "anonymous" /\ count[m] + 1 >= MaxAttempts
    \/ count[m] > DeliveryLimit

-----------------------------------------------------------------------------
(* The abstract specification.                                             *)

\* Where the copy is, seen by someone who does not care who holds it.
ViewOf(where) ==
  CASE where = "unsent" -> "unsent"
    [] where \in {"queue", "held"} -> "pending"
    [] where = "acked" -> "confirmed"
    [] where = "dead" -> "buried"

Copy == [m \in Message |-> ViewOf(place[m])]
Effect == [e \in Event |-> inbox[e].status]

Abstract == INSTANCE OnceEffect WITH copy <- Copy, effect <- Effect

\* Queue, consumers and table together do what ADR-0012 promises: the effect is
\* recorded once, is never rewritten by another copy or a stale session, and
\* confirms only copies whose event was received.
ImplementsOnceEffect == Abstract!Spec

-----------------------------------------------------------------------------
(* Liveness.                                                               *)

\* No message circulates for ever, whatever fails: the delivery limit bounds
\* the redeliveries.
QueueDrains ==
  \A m \in Message : place[m] = "queue" ~> place[m] \in {"acked", "dead"}

=============================================================================
