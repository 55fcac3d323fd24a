---------------------------- MODULE InboxProofs ----------------------------
(***************************************************************************)
(* Proofs about Inbox for any messages, consumers, contents and limits.    *)
(*                                                                         *)
(* The step that needs an invariant is Settle: between the commit and the  *)
(* frame anything may have happened to the message and to the row, so the  *)
(* session has to carry enough (Sessions) and the row of a readable event  *)
(* can only say RECEIVED (RowMatches).                                     *)
(***************************************************************************)
EXTENDS Inbox, TLAPS

\* A message some consumer has unsettled is held, by that consumer alone, and
\* a message still at the broker has not used up its deliveries.
Holding ==
  /\ \A c \in Consumer : holder[c] # NoMessage => place[holder[c]] = "held"
  /\ \A c, d \in Consumer : holder[c] = holder[d] /\ holder[c] # NoMessage => c = d
  /\ \A m \in Message : place[m] \in {"unsent", "queue", "held"} => count[m] <= DeliveryLimit

\* A readable event has no POISON row, another one no RECEIVED row.
RowMatches ==
  \A e \in Event : /\ inbox[e].status = "RECEIVED" => Quality[e] = "good"
                   /\ inbox[e].status = "POISON" => Quality[e] = "bad"

\* What a session that is not idle knows: its message was published, its
\* attempt number was counted, and after the commit the row is there.
Sessions ==
  \A c \in Consumer : cons[c].phase # "idle" =>
    LET m == cons[c].msg IN
    /\ m \in Message /\ place[m] # "unsent" /\ holder[c] \in {m, NoMessage}
    /\ cons[c].attempt # 0 /\ cons[c].attempt <= count[m] + 1
    /\ cons[c].phase = "committed" =>
         \/ cons[c].action = "ACK" /\ inbox[EventOf[m]].status = "RECEIVED"
         \/ cons[c].action = "NACK_REQUEUE"
         \/ /\ cons[c].action = "NACK_DEAD_LETTER" /\ Content(m) # "good"
            /\ cons[c].attempt >= MaxAttempts
            /\ Content(m) = "bad" => inbox[EventOf[m]] # NoRow

IInv ==
  /\ TypeOK
  /\ Holding
  /\ RowMatches
  /\ Sessions
  /\ EffectOnce
  /\ AckedIsReceived
  /\ PoisonedAfterBudget
  /\ DeadIsAccountedFor

-----------------------------------------------------------------------------
(* Initially nothing is published.                                         *)

\* The initial state satisfies the invariant.
LEMMA InitInv == Init => IInv
<1> SUFFICES ASSUME Init PROVE IInv
  OBVIOUS
<1> USE InboxAssumption DEF Init
<1>1. TypeOK
  BY DEF TypeOK, Place, Session, IdleSession, InboxRow, Action
<1>2. Holding /\ RowMatches /\ Sessions
  BY DEF Holding, RowMatches, Sessions, IdleSession, NoRow
<1>3. EffectOnce /\ AckedIsReceived /\ PoisonedAfterBudget /\ DeadIsAccountedFor
  BY DEF EffectOnce, AckedIsReceived, PoisonedAfterBudget, DeadIsAccountedFor, NoRow
<1> QED
  BY <1>1, <1>2, <1>3 DEF IInv

-----------------------------------------------------------------------------
(* The three things a step is made of: a message moves, a row is inserted, *)
(* a session changes.                                                      *)

\* A given-back message counts one delivery more and is in the queue, or dead
\* with its deliveries used up; nobody has it any longer, others keep theirs.
LEMMA GiveBackFacts ==
  ASSUME IInv, NEW c \in Consumer, holder[c] # NoMessage, GiveBack(c, holder[c])
  PROVE  /\ place' \in [Message -> Place]
         /\ count' \in [Message -> 0..(DeliveryLimit + 1)]
         /\ holder' \in [Consumer -> Message \cup {NoMessage}]
         /\ Holding' /\ holder' = [holder EXCEPT ![c] = NoMessage]
         /\ \A m \in Message : /\ count[m] <= count'[m]
                               /\ place[m] # "unsent" => place'[m] # "unsent"
                               /\ place'[m] = "acked" => place[m] = "acked"
                               /\ place'[m] = "dead" => \/ place[m] = "dead"
                                                        \/ count'[m] > DeliveryLimit
<1> USE InboxAssumption
<1>1. PICK m \in Message : m = holder[c]
  BY DEF IInv, TypeOK
<1>2. /\ place[m] = "held" /\ count[m] \in 0..DeliveryLimit
      /\ place' = [place EXCEPT ![m] = Returned(m)]
      /\ count' = [count EXCEPT ![m] = count[m] + 1]
      /\ holder' = [holder EXCEPT ![c] = NoMessage]
  BY <1>1 DEF IInv, TypeOK, Holding, GiveBack
<1>3. Returned(m) \in {"queue", "dead"} /\ (Returned(m) = "dead" <=> count[m] + 1 > DeliveryLimit)
  BY DEF Returned
<1>4. /\ place' \in [Message -> Place] /\ count' \in [Message -> 0..(DeliveryLimit + 1)]
      /\ holder' \in [Consumer -> Message \cup {NoMessage}]
  BY <1>2, <1>3 DEF IInv, TypeOK, Place
<1>5. Holding'
  <2>1. \A d \in Consumer : holder'[d] # NoMessage =>
          d # c /\ holder'[d] = holder[d] /\ holder[d] # m
    BY <1>1, <1>2 DEF IInv, TypeOK, Holding
  <2>2. \A d \in Consumer : holder'[d] # NoMessage => place'[holder'[d]] = "held"
    BY <1>2, <2>1 DEF IInv, TypeOK, Holding
  <2>3. \A d, f \in Consumer : holder'[d] = holder'[f] /\ holder'[d] # NoMessage => d = f
    BY <2>1 DEF IInv, Holding
  <2>4. \A n \in Message : place'[n] \in {"unsent", "queue", "held"} => count'[n] <= DeliveryLimit
    BY <1>2, <1>3 DEF IInv, TypeOK, Holding
  <2> QED
    BY <2>2, <2>3, <2>4 DEF Holding
<1>6. ASSUME NEW n \in Message
      PROVE  /\ count[n] <= count'[n]
             /\ place[n] # "unsent" => place'[n] # "unsent"
             /\ place'[n] = "acked" => place[n] = "acked"
             /\ place'[n] = "dead" => \/ place[n] = "dead"
                                      \/ count'[n] > DeliveryLimit
  BY <1>2, <1>3 DEF IInv, TypeOK
<1> QED
  BY <1>2, <1>4, <1>5, <1>6

\* An insertion writes an absent row only, and counts its effect.
LEMMA InsertFacts ==
  ASSUME IInv, NEW m \in Message, NEW n \in Nat \ {0}, n <= count[m] + 1,
         Insert(m, RowFor(m, n))
  PROVE  /\ inbox' \in [Event -> InboxRow] /\ effects' \in [Event -> Nat]
         /\ RowMatches' /\ EffectOnce'
         /\ \A e \in Event : inbox[e] # NoRow => inbox'[e] = inbox[e]
         /\ \A e \in Event : inbox'[e].status = "POISON" =>
              \/ inbox[e].status = "POISON"
              \/ e = EventOf[m] /\ n >= MaxAttempts /\ Content(m) = "bad"
         /\ Content(m) = "good" => inbox'[EventOf[m]].status = "RECEIVED"
         /\ Content(m) = "bad" /\ n >= MaxAttempts => inbox'[EventOf[m]] # NoRow
<1> DEFINE row == RowFor(m, n)
<1> USE InboxAssumption
<1>0. PICK e \in Event : e = EventOf[m]
  OBVIOUS
<1>1. /\ row \in InboxRow
      /\ Content(m) = "good" => row.status = "RECEIVED" /\ row # NoRow
      /\ Content(m) = "bad" /\ n >= MaxAttempts => row.status = "POISON" /\ row # NoRow
      /\ row = NoRow \/ Content(m) = "good" \/ (Content(m) = "bad" /\ n >= MaxAttempts)
  BY DEF RowFor, InboxRow, NoRow
<1>2. CASE row # NoRow /\ Fresh(m)
  <2>1. /\ inbox' = [inbox EXCEPT ![e] = row] /\ inbox[e] = NoRow
        /\ effects' = IF row.status = "RECEIVED"
                      THEN [effects EXCEPT ![e] = effects[e] + 1] ELSE effects
    BY <1>0, <1>2 DEF Insert, Fresh
  <2>2. effects[e] = 0 /\ inbox[e].status = "none"
    BY <2>1 DEF IInv, EffectOnce, NoRow
  <2>3. inbox' \in [Event -> InboxRow] /\ effects' \in [Event -> Nat]
    BY <1>1, <2>1 DEF IInv, TypeOK
  <2>4. RowMatches' /\ EffectOnce'
    BY <1>0, <1>1, <1>2, <2>1, <2>2 DEF IInv, TypeOK, RowMatches, EffectOnce, Content
  <2> QED
    BY <1>0, <1>1, <1>2, <2>1, <2>3, <2>4 DEF IInv, TypeOK
<1>3. CASE ~(row # NoRow /\ Fresh(m))
  <2>1. UNCHANGED <<inbox, effects>>
    BY <1>3 DEF Insert
  <2>2. inbox[e] = NoRow \/ inbox[e].status \in {"RECEIVED", "POISON"}
    BY DEF IInv, TypeOK, InboxRow
  <2>3. row # NoRow => inbox[e] # NoRow
    BY <1>0, <1>3 DEF Fresh
  <2>4. Content(m) = "good" => inbox[e].status = "RECEIVED"
    BY <1>0, <1>1, <2>2, <2>3 DEF IInv, RowMatches, Content
  <2> QED
    BY <1>0, <1>1, <2>1, <2>3, <2>4 DEF IInv, TypeOK, RowMatches, EffectOnce
<1> QED
  BY <1>2, <1>3

-----------------------------------------------------------------------------
(* Putting a step together.                                                *)

\* A step in which messages and rows only move forward keeps the invariant if
\* what it acknowledges, buries or poisons is justified and its own session is.
LEMMA StepInv ==
  ASSUME IInv, NEW c \in Consumer,
         place' \in [Message -> Place], count' \in [Message -> 0..(DeliveryLimit + 1)],
         holder' \in [Consumer -> Message \cup {NoMessage}],
         cons' \in [Consumer -> Session],
         inbox' \in [Event -> InboxRow], effects' \in [Event -> Nat],
         Holding', RowMatches', EffectOnce',
         \A m \in Message : count[m] <= count'[m] /\ (place[m] # "unsent" => place'[m] # "unsent"),
         \A e \in Event : inbox[e] # NoRow => inbox'[e] = inbox[e],
         \A m \in Message : place'[m] = "acked" =>
            place[m] = "acked" \/ inbox'[EventOf[m]].status = "RECEIVED",
         \A m \in Message : place'[m] = "dead" =>
            \/ place[m] = "dead" \/ count'[m] > DeliveryLimit
            \/ inbox'[EventOf[m]] # NoRow
            \/ Content(m) = "anonymous" /\ count'[m] + 1 >= MaxAttempts,
         \A e \in Event : inbox'[e].status = "POISON" =>
            \/ inbox[e].status = "POISON"
            \/ \E m \in Message : EventOf[m] = e /\ count'[m] + 1 >= MaxAttempts,
         \A d \in Consumer : d # c => cons'[d] = cons[d] /\ holder'[d] = holder[d],
         cons'[c].phase = "idle" \/
           LET m == cons'[c].msg IN
           /\ m \in Message /\ place'[m] # "unsent" /\ holder'[c] \in {m, NoMessage}
           /\ cons'[c].attempt # 0 /\ cons'[c].attempt <= count'[m] + 1
           /\ cons'[c].phase = "committed" =>
                \/ cons'[c].action = "ACK" /\ inbox'[EventOf[m]].status = "RECEIVED"
                \/ cons'[c].action = "NACK_REQUEUE"
                \/ /\ cons'[c].action = "NACK_DEAD_LETTER" /\ Content(m) # "good"
                   /\ cons'[c].attempt >= MaxAttempts
                   /\ Content(m) = "bad" => inbox'[EventOf[m]] # NoRow
  PROVE  IInv'
<1> USE InboxAssumption
<1>1. /\ count \in [Message -> Nat] /\ count' \in [Message -> Nat]
      /\ \A d \in Consumer : cons[d].attempt \in Nat
  BY DEF IInv, TypeOK, Session
<1>2. \A e \in Event : inbox[e].status \in {"RECEIVED", "POISON"} => inbox'[e] = inbox[e]
  BY DEF NoRow
<1>3. TypeOK'
  BY DEF TypeOK
<1>4. Sessions'
  <2>1. ASSUME NEW d \in Consumer, d # c, cons'[d].phase # "idle"
        PROVE  LET m == cons[d].msg IN
               /\ m \in Message /\ place'[m] # "unsent" /\ holder'[d] \in {m, NoMessage}
               /\ cons[d].attempt # 0 /\ cons[d].attempt <= count'[m] + 1
               /\ cons[d].phase = "committed" =>
                    \/ cons[d].action = "ACK" /\ inbox'[EventOf[m]].status = "RECEIVED"
                    \/ cons[d].action = "NACK_REQUEUE"
                    \/ /\ cons[d].action = "NACK_DEAD_LETTER" /\ Content(m) # "good"
                       /\ cons[d].attempt >= MaxAttempts
                       /\ Content(m) = "bad" => inbox'[EventOf[m]] # NoRow
    <3> DEFINE m == cons[d].msg
    <3>1. cons[d].phase # "idle" /\ m \in Message /\ EventOf[m] \in Event
      BY <2>1 DEF IInv, Sessions
    <3>2. /\ cons[d].attempt # 0 /\ cons[d].attempt <= count'[m] + 1
          /\ place'[m] # "unsent" /\ holder'[d] \in {m, NoMessage}
      BY <1>1, <2>1, <3>1 DEF IInv, Sessions
    <3> QED
      BY <1>2, <2>1, <3>1, <3>2 DEF IInv, Sessions
  <2> QED
    BY <2>1 DEF Sessions, Content
<1>5. AckedIsReceived'
  BY <1>2 DEF IInv, AckedIsReceived
<1>6. PoisonedAfterBudget'
  <2>1. ASSUME NEW e \in Event, inbox'[e].status = "POISON"
        PROVE  \E m \in Message : EventOf[m] = e /\ count'[m] + 1 >= MaxAttempts
    <3>1. CASE inbox[e].status = "POISON"
      <4>1. PICK m \in Message : EventOf[m] = e /\ count[m] + 1 >= MaxAttempts
        BY <3>1 DEF IInv, PoisonedAfterBudget
      <4>2. count'[m] + 1 >= MaxAttempts
        BY <1>1, <4>1
      <4> QED
        BY <4>1, <4>2
    <3> QED
      BY <2>1, <3>1
  <2> QED
    BY <2>1 DEF PoisonedAfterBudget, RowMatches
<1>7. DeadIsAccountedFor'
  <2>1. ASSUME NEW m \in Message, place'[m] = "dead", place[m] = "dead"
        PROVE  \/ inbox'[EventOf[m]] # NoRow
               \/ Content(m) = "anonymous" /\ count'[m] + 1 >= MaxAttempts
               \/ count'[m] > DeliveryLimit
    <3>1. CASE inbox[EventOf[m]] # NoRow
      BY <3>1
    <3>2. CASE inbox[EventOf[m]] = NoRow
      <4>1. \/ Content(m) = "anonymous" /\ count[m] + 1 >= MaxAttempts
            \/ count[m] > DeliveryLimit
        BY <2>1, <3>2 DEF IInv, DeadIsAccountedFor
      <4> QED
        BY <1>1, <4>1
    <3> QED
      BY <3>1, <3>2
  <2> QED
    BY <2>1 DEF DeadIsAccountedFor, Content
<1> QED
  BY <1>3, <1>4, <1>5, <1>6, <1>7 DEF IInv

\* A session that ends, with or without a message to give back, is idle; the
\* rows may have been inserted in the same step.
LEMMA EndSessionInv ==
  ASSUME IInv, NEW c \in Consumer, EndSession(c),
         inbox' \in [Event -> InboxRow], effects' \in [Event -> Nat],
         RowMatches', EffectOnce',
         \A e \in Event : inbox[e] # NoRow => inbox'[e] = inbox[e],
         \A e \in Event : inbox'[e].status = "POISON" =>
            \/ inbox[e].status = "POISON"
            \/ \E m \in Message : EventOf[m] = e /\ count[m] + 1 >= MaxAttempts
  PROVE  IInv'
<1> USE InboxAssumption
<1>1. /\ cons' \in [Consumer -> Session] /\ cons'[c].phase = "idle"
      /\ \A d \in Consumer : d # c => cons'[d] = cons[d]
  BY DEF EndSession, IInv, TypeOK, Session, IdleSession, Action
<1>2. CASE holder[c] # NoMessage
  <2>1. GiveBack(c, holder[c])
    BY <1>2 DEF EndSession
  <2>2. /\ place' \in [Message -> Place] /\ count' \in [Message -> 0..(DeliveryLimit + 1)]
        /\ holder' \in [Consumer -> Message \cup {NoMessage}] /\ Holding'
        /\ holder' = [holder EXCEPT ![c] = NoMessage]
        /\ \A m \in Message : /\ count[m] <= count'[m]
                              /\ place[m] # "unsent" => place'[m] # "unsent"
                              /\ place'[m] = "acked" => place[m] = "acked"
                              /\ place'[m] = "dead" => \/ place[m] = "dead"
                                                       \/ count'[m] > DeliveryLimit
    BY <1>2, <2>1, GiveBackFacts
  <2>3. \A m \in Message : count[m] + 1 >= MaxAttempts => count'[m] + 1 >= MaxAttempts
    BY <2>2 DEF IInv, TypeOK
  <2> QED
    BY <1>1, <2>2, <2>3, StepInv
<1>3. CASE holder[c] = NoMessage
  <2>1. UNCHANGED <<place, count, holder>>
    BY <1>3 DEF EndSession
  <2> QED
    BY <1>1, <2>1, StepInv DEF IInv, TypeOK, Holding
<1> QED
  BY <1>2, <1>3

-----------------------------------------------------------------------------
(* The steps.                                                              *)

\* A message that moves between the broker and a consumer's hands.
LEMMA BrokerInv ==
  ASSUME IInv, NEW m \in Message, NEW c \in Consumer,
         Deliver(c, m) \/ Drop(c)
  PROVE  IInv'
<1> USE InboxAssumption
<1>1. UNCHANGED <<inbox, effects>> /\ RowMatches' /\ EffectOnce'
  BY DEF IInv, Deliver, Drop, RowMatches, EffectOnce
<1>2. CASE Deliver(c, m)
  <2>1. /\ place' = [place EXCEPT ![m] = "held"] /\ place[m] = "queue"
        /\ holder' = [holder EXCEPT ![c] = m] /\ holder[c] = NoMessage
        /\ cons' = [cons EXCEPT ![c] = [phase |-> "received", msg |-> m,
                       attempt |-> count[m] + 1, action |-> "none"]]
        /\ UNCHANGED count
    BY <1>2 DEF Deliver
  <2>2. place' \in [Message -> Place] /\ holder' \in [Consumer -> Message \cup {NoMessage}]
    BY <2>1 DEF IInv, TypeOK, Place
  <2>3. count[m] \in Nat
    BY DEF IInv, TypeOK
  <2>4. /\ cons' \in [Consumer -> Session] /\ cons'[c].phase = "received"
        /\ cons'[c].msg = m /\ cons'[c].attempt = count[m] + 1
        /\ \A d \in Consumer : d # c => cons'[d] = cons[d]
    BY <2>1, <2>3 DEF IInv, TypeOK, Session, Action
  <2>5. Holding'
    BY <2>1 DEF IInv, TypeOK, Holding
  <2>6. place'[m] = "held"
    BY <2>1 DEF IInv, TypeOK
  <2>7. \A n \in Message : /\ place[n] # "unsent" => place'[n] # "unsent"
                           /\ place'[n] \in {"acked", "dead"} => place'[n] = place[n]
    BY <2>1 DEF IInv, TypeOK
  <2> QED
    BY <1>1, <2>1, <2>2, <2>3, <2>4, <2>5, <2>6, <2>7, StepInv DEF IInv, TypeOK
<1>3. CASE Drop(c)
  <2>1. holder[c] # NoMessage /\ GiveBack(c, holder[c]) /\ UNCHANGED cons
    BY <1>3 DEF Drop
  <2>2. /\ place' \in [Message -> Place] /\ count' \in [Message -> 0..(DeliveryLimit + 1)]
        /\ holder' \in [Consumer -> Message \cup {NoMessage}] /\ Holding'
        /\ holder' = [holder EXCEPT ![c] = NoMessage]
        /\ \A n \in Message : /\ count[n] <= count'[n]
                              /\ place[n] # "unsent" => place'[n] # "unsent"
                              /\ place'[n] = "acked" => place[n] = "acked"
                              /\ place'[n] = "dead" => \/ place[n] = "dead"
                                                       \/ count'[n] > DeliveryLimit
    BY <2>1, GiveBackFacts
  <2>3. cons[c].phase # "idle" => cons[c].attempt <= count'[cons[c].msg] + 1
    <3> SUFFICES ASSUME cons[c].phase # "idle"
                 PROVE  cons[c].attempt <= count'[cons[c].msg] + 1
      OBVIOUS
    <3>1. PICK n \in Message : n = cons[c].msg
      BY DEF IInv, Sessions
    <3>2. cons[c].attempt \in Nat /\ cons[c].attempt <= count[n] + 1
      BY <3>1 DEF IInv, Sessions, TypeOK, Session
    <3>3. count[n] \in Nat /\ count'[n] \in Nat /\ count[n] <= count'[n]
      BY <2>2 DEF IInv, TypeOK
    <3> QED
      BY <3>1, <3>2, <3>3
  <2> QED
    BY <1>1, <2>1, <2>2, <2>3, StepInv DEF IInv, TypeOK, Sessions
<1> QED
  BY <1>2, <1>3

\* After the commit the session knows that the row its settlement needs exists.
LEMMA PersistInv ==
  ASSUME IInv, NEW c \in Consumer, Persist(c)
  PROVE  IInv'
<1> USE InboxAssumption
<1>1. PICK m \in Message, n \in Nat \ {0} :
        /\ m = cons[c].msg /\ n = cons[c].attempt /\ n <= count[m] + 1
        /\ place[m] # "unsent" /\ holder[c] \in {m, NoMessage}
  BY DEF Persist, IInv, Sessions, TypeOK, Session
<1>2. /\ Insert(m, RowFor(m, n)) /\ UNCHANGED <<place, count, holder>>
      /\ cons' = [cons EXCEPT ![c].phase = "committed", ![c].action = Classify(m, n)]
  BY <1>1 DEF Persist
<1>3. /\ inbox' \in [Event -> InboxRow] /\ effects' \in [Event -> Nat]
      /\ RowMatches' /\ EffectOnce'
      /\ \A e \in Event : inbox[e] # NoRow => inbox'[e] = inbox[e]
      /\ \A e \in Event : inbox'[e].status = "POISON" =>
           \/ inbox[e].status = "POISON"
           \/ e = EventOf[m] /\ n >= MaxAttempts /\ Content(m) = "bad"
      /\ Content(m) = "good" => inbox'[EventOf[m]].status = "RECEIVED"
      /\ Content(m) = "bad" /\ n >= MaxAttempts => inbox'[EventOf[m]] # NoRow
  BY <1>1, <1>2, InsertFacts
<1>4. /\ cons' \in [Consumer -> Session]
      /\ cons'[c].phase = "committed" /\ cons'[c].msg = m /\ cons'[c].attempt = n
      /\ cons'[c].action = Classify(m, n)
      /\ \A d \in Consumer : d # c => cons'[d] = cons[d]
  <2> DEFINE s == [cons[c] EXCEPT !.phase = "committed", !.action = Classify(m, n)]
  <2>1. Classify(m, n) \in Action
    BY DEF Classify, Action
  <2>2. cons[c] \in Session
    BY DEF IInv, TypeOK
  <2>3. s \in Session
    BY <2>1, <2>2 DEF Session
  <2>4. s.phase = "committed" /\ s.action = Classify(m, n)
    BY <2>2 DEF Session
  <2>5. s.msg = m /\ s.attempt = n
    BY <1>1, <2>2 DEF Session
  <2>6. cons' = [cons EXCEPT ![c] = s]
    BY <1>2 DEF IInv, TypeOK
  <2> QED
    BY <2>3, <2>4, <2>5, <2>6 DEF IInv, TypeOK
<1>5. \/ Classify(m, n) = "ACK" /\ Content(m) = "good"
      \/ Classify(m, n) = "NACK_REQUEUE"
      \/ Classify(m, n) = "NACK_DEAD_LETTER" /\ Content(m) # "good" /\ n >= MaxAttempts
  BY DEF Classify
<1>6. Holding' /\ count[m] \in Nat
  BY <1>2 DEF IInv, TypeOK, Holding
<1>7. n >= MaxAttempts => count[m] + 1 >= MaxAttempts
  BY <1>1, <1>6
<1> QED
  BY <1>1, <1>2, <1>3, <1>4, <1>5, <1>6, <1>7, StepInv, SMTT(20) DEF IInv, TypeOK

\* A failing database leaves the row out or in, and the session ends.
LEMMA PersistFailsInv ==
  ASSUME IInv, NEW c \in Consumer, PersistFails(c)
  PROVE  IInv'
<1> USE InboxAssumption
<1>1. PICK m \in Message, n \in Nat \ {0} :
        /\ m = cons[c].msg /\ n = cons[c].attempt /\ n <= count[m] + 1
  BY DEF PersistFails, IInv, Sessions, TypeOK, Session
<1>2. EndSession(c)
  BY DEF PersistFails
<1>3. CASE UNCHANGED <<inbox, effects>>
  BY <1>2, <1>3, EndSessionInv DEF IInv, TypeOK, RowMatches, EffectOnce
<1>4. CASE Insert(m, RowFor(m, n))
  <2>1. /\ inbox' \in [Event -> InboxRow] /\ effects' \in [Event -> Nat]
        /\ RowMatches' /\ EffectOnce'
        /\ \A e \in Event : inbox[e] # NoRow => inbox'[e] = inbox[e]
        /\ \A e \in Event : inbox'[e].status = "POISON" =>
             \/ inbox[e].status = "POISON"
             \/ e = EventOf[m] /\ n >= MaxAttempts /\ Content(m) = "bad"
    BY <1>1, <1>4, InsertFacts
  <2>2. n >= MaxAttempts => count[m] + 1 >= MaxAttempts
    BY <1>1 DEF IInv, TypeOK
  <2> QED
    BY <1>2, <2>1, <2>2, EndSessionInv
<1> QED
  BY <1>1, <1>3, <1>4 DEF PersistFails

\* The frame acknowledges or buries the message the session knows about.
LEMMA SettleInv ==
  ASSUME IInv, NEW c \in Consumer, Settle(c)
  PROVE  IInv'
<1> USE InboxAssumption
<1>1. PICK m \in Message : m = cons[c].msg /\ holder[c] = m /\ place[m] = "held"
  BY DEF Settle, IInv, Sessions, Holding
<1>2. /\ cons[c].phase = "committed" /\ holder[c] # NoMessage
      /\ UNCHANGED <<inbox, effects>> /\ RowMatches' /\ EffectOnce'
  BY <1>1 DEF Settle, IInv, RowMatches, EffectOnce
<1>3. /\ cons' \in [Consumer -> Session] /\ cons'[c].phase = "idle"
      /\ \A d \in Consumer : d # c => cons'[d] = cons[d]
  BY DEF Settle, IInv, TypeOK, Session, IdleSession, Action
<1>4. CASE cons[c].action = "NACK_REQUEUE"
  <2>1. EndSession(c)
    BY <1>1, <1>2, <1>4 DEF Settle, EndSession
  <2> QED
    BY <1>2, <2>1, EndSessionInv DEF IInv, TypeOK
<1>5. CASE cons[c].action # "NACK_REQUEUE"
  <2>1. /\ place' = [place EXCEPT ![m] = SettledAs(cons[c].action)]
        /\ holder' = [holder EXCEPT ![c] = NoMessage] /\ UNCHANGED count
    BY <1>1, <1>5 DEF Settle
  <2>2. /\ SettledAs(cons[c].action) \in {"acked", "dead"}
        /\ SettledAs(cons[c].action) = "acked" => inbox[EventOf[m]].status = "RECEIVED"
        /\ SettledAs(cons[c].action) = "dead" =>
             /\ Content(m) # "good" /\ cons[c].attempt >= MaxAttempts
             /\ Content(m) = "bad" => inbox[EventOf[m]] # NoRow
    BY <1>1, <1>2, <1>5 DEF SettledAs, IInv, Sessions
  <2>3. place' \in [Message -> Place] /\ holder' \in [Consumer -> Message \cup {NoMessage}]
    BY <2>1, <2>2 DEF IInv, TypeOK, Place
  <2>4. Holding'
    <3>1. \A d \in Consumer : holder'[d] # NoMessage =>
            d # c /\ holder'[d] = holder[d] /\ holder[d] # m /\ holder[d] \in Message
      BY <1>1, <2>1 DEF IInv, TypeOK, Holding
    <3>2. \A q \in Message : q # m => place'[q] = place[q]
      BY <2>1 DEF IInv, TypeOK
    <3>3. place'[m] \in {"acked", "dead"}
      BY <2>1, <2>2 DEF IInv, TypeOK
    <3> QED
      BY <2>1, <3>1, <3>2, <3>3 DEF IInv, Holding
  <2>5. Content(m) \in QualityKind /\ cons[c].attempt \in Nat /\ count[m] \in Nat
        /\ cons[c].attempt <= count[m] + 1
    BY <1>1, <1>2 DEF Content, IInv, TypeOK, Session, Sessions
  <2>6. SettledAs(cons[c].action) = "dead" =>
          \/ inbox'[EventOf[m]] # NoRow
          \/ Content(m) = "anonymous" /\ count'[m] + 1 >= MaxAttempts
    BY <1>2, <2>1, <2>2, <2>5 DEF QualityKind
  <2>7. \A q \in Message :
          /\ count[q] <= count'[q] /\ (place[q] # "unsent" => place'[q] # "unsent")
          /\ place'[q] = "acked" =>
               place[q] = "acked" \/ inbox'[EventOf[q]].status = "RECEIVED"
          /\ place'[q] = "dead" =>
               \/ place[q] = "dead" \/ inbox'[EventOf[q]] # NoRow
               \/ Content(q) = "anonymous" /\ count'[q] + 1 >= MaxAttempts
    <3>1. /\ \A q \in Message : q # m => place'[q] = place[q]
          /\ place'[m] = SettledAs(cons[c].action)
      BY <2>1 DEF IInv, TypeOK
    <3>2. \A q \in Message : count[q] <= count'[q]
      BY <2>1 DEF IInv, TypeOK
    <3> QED
      BY <1>2, <2>2, <2>6, <3>1, <3>2
  <2> QED
    BY <1>2, <1>3, <2>1, <2>3, <2>4, <2>7, StepInv DEF IInv, TypeOK
<1> QED
  BY <1>4, <1>5

\* Every step keeps the invariant.
LEMMA NextInv == IInv /\ [Next]_vars => IInv'
<1> SUFFICES ASSUME IInv, [Next]_vars PROVE IInv'
  OBVIOUS
<1>1. ASSUME NEW m \in Message, Publish(m) PROVE IInv'
  <2>1. TypeOK' /\ Holding'
    BY <1>1 DEF Publish, IInv, TypeOK, Place, Holding
  <2>2. RowMatches' /\ EffectOnce' /\ Sessions'
    BY <1>1 DEF Publish, IInv, TypeOK, RowMatches, EffectOnce, Sessions, Content
  <2>3. AckedIsReceived' /\ PoisonedAfterBudget' /\ DeadIsAccountedFor'
    BY <1>1 DEF Publish, IInv, TypeOK, AckedIsReceived, PoisonedAfterBudget, DeadIsAccountedFor, Content
  <2> QED
    BY <2>1, <2>2, <2>3 DEF IInv
<1>2. ASSUME NEW c \in Consumer, NEW m \in Message, Deliver(c, m) PROVE IInv'
  BY <1>2, BrokerInv
<1>3. ASSUME NEW c \in Consumer, Drop(c) PROVE IInv'
  <2>1. PICK m \in Message : TRUE
    BY <1>3 DEF Drop, IInv, TypeOK
  <2> QED
    BY <1>3, <2>1, BrokerInv
<1>4. ASSUME NEW c \in Consumer, Handle(c) \/ Crash(c) PROVE IInv'
  <2>1. CASE SettleStale(c) \/ Crash(c)
    BY <2>1, EndSessionInv DEF SettleStale, Crash, IInv, TypeOK, RowMatches, EffectOnce
  <2> QED
    BY <1>4, <2>1, PersistInv, PersistFailsInv, SettleInv DEF Handle
<1>5. CASE UNCHANGED vars
  BY <1>5 DEF vars, IInv, TypeOK, Holding, RowMatches, Sessions, EffectOnce,
     AckedIsReceived, PoisonedAfterBudget, DeadIsAccountedFor, Content
<1> QED
  BY <1>1, <1>2, <1>3, <1>4, <1>5 DEF Next

-----------------------------------------------------------------------------
(* Theorems.                                                               *)

\* IInv is an inductive invariant.
THEOREM Invariance == Spec => []IInv
<1> QED
  BY InitInv, NextInv, PTL DEF Spec

\* Exactly-once effect for any number of copies, redeliveries and consumers.
THEOREM EffectHappensOnce == Spec => []EffectOnce
<1> QED
  BY Invariance, PTL DEF IInv

\* ACK after commit: nothing acknowledged without its effect.
THEOREM NothingAckedUnreceived == Spec => []AckedIsReceived
<1> QED
  BY Invariance, PTL DEF IInv

\* An unreadable message is never acknowledged away: its event has no RECEIVED
\* row, so nothing justifies the ACK.
THEOREM UnreadableKept == Spec => []UnreadableIsKept
<1>1. IInv => UnreadableIsKept
  BY InboxAssumption DEF IInv, AckedIsReceived, RowMatches, UnreadableIsKept, Content
<1> QED
  BY <1>1, Invariance, PTL

\* An event is poisoned only after its message used up its budget.
THEOREM PoisonIsLast == Spec => []PoisonedAfterBudget
<1> QED
  BY Invariance, PTL DEF IInv

\* A dead-lettered message has a row, or no identity and no attempts left, or used
\* up its deliveries.
THEOREM DeadAccounted == Spec => []DeadIsAccountedFor
<1> QED
  BY Invariance, PTL DEF IInv

\* The shape of queue, sessions and rows.
THEOREM TypeCorrect == Spec => []TypeOK
<1> QED
  BY Invariance, PTL DEF IInv

-----------------------------------------------------------------------------
(* Refinement: Inbox implements OnceEffect.                                *)

\* A message that moves alone moves alone in the abstract view.
LEMMA MoveView ==
  ASSUME IInv, NEW m \in Message, NEW where \in Place,
         place' = [place EXCEPT ![m] = where]
  PROVE  Copy' = [Copy EXCEPT ![m] = ViewOf(where)]
BY DEF Copy, IInv, TypeOK

\* A given-back message is the abstract one pending still, or buried.
LEMMA GiveBackView ==
  ASSUME IInv, NEW c \in Consumer, NEW m \in Message, m = holder[c],
         GiveBack(c, m)
  PROVE  Abstract!Bury(m) \/ UNCHANGED Copy
<1> USE InboxAssumption
<1>1. place[m] = "held" /\ Copy[m] = "pending"
  BY DEF IInv, TypeOK, Holding, Copy, ViewOf
<1>2. PICK where \in {"queue", "dead"} : place' = [place EXCEPT ![m] = where]
  BY DEF GiveBack, Returned
<1>3. Copy' = [Copy EXCEPT ![m] = ViewOf(where)]
  BY <1>2, MoveView DEF Place
<1>4. CASE where = "queue"
  <2>1. ViewOf(where) = Copy[m]
    BY <1>1, <1>4 DEF ViewOf
  <2> QED
    BY <1>3, <2>1 DEF Copy
<1>5. CASE where = "dead"
  <2>1. ViewOf(where) = "buried"
    BY <1>5 DEF ViewOf
  <2> QED
    BY <1>1, <1>3, <2>1 DEF Abstract!Bury
<1> QED
  BY <1>2, <1>4, <1>5

\* An insertion records the effect of the event, or changes nothing.
LEMMA InsertView ==
  ASSUME IInv, NEW m \in Message, NEW n, Insert(m, RowFor(m, n))
  PROVE  Abstract!Record(EventOf[m]) \/ UNCHANGED Effect
<1> DEFINE row == RowFor(m, n)
<1> USE InboxAssumption
<1>1. CASE row # NoRow /\ Fresh(m)
  <2>1. row.status \in {"RECEIVED", "POISON"}
    BY <1>1 DEF RowFor, NoRow
  <2>2. inbox' = [inbox EXCEPT ![EventOf[m]] = row] /\ inbox[EventOf[m]].status = "none"
    BY <1>1 DEF Insert, Fresh, NoRow
  <2> HIDE DEF row
  <2>3. Effect' = [Effect EXCEPT ![EventOf[m]] = row.status]
    BY <2>2 DEF Effect, IInv, TypeOK
  <2>4. Effect[EventOf[m]] = "none"
    BY <2>2 DEF Effect
  <2> QED
    BY <2>1, <2>3, <2>4 DEF Abstract!Record
<1>2. CASE ~(row # NoRow /\ Fresh(m))
  BY <1>2 DEF Insert, Effect
<1> QED
  BY <1>1, <1>2

\* A session acts on a message that was published.
LEMMA AttemptView ==
  ASSUME IInv, NEW c \in Consumer, cons[c].phase # "idle",
         Abstract!Record(EventOf[cons[c].msg]) \/ UNCHANGED Effect,
         Abstract!Bury(cons[c].msg) \/ UNCHANGED Copy
  PROVE  \E m \in Message : Abstract!Attempt(m)
<1>1. cons[c].msg \in Message /\ place[cons[c].msg] # "unsent"
  BY DEF IInv, Sessions
<1>2. Copy[cons[c].msg] # "unsent"
  BY <1>1 DEF Copy, ViewOf, IInv, TypeOK, Place
<1> QED
  BY <1>1, <1>2 DEF Abstract!Attempt

\* Every step of the inbox is a step of OnceEffect, or leaves its view alone.
\* A session that ends may hold another message than the one it processed, or
\* none: then the row of its message exists already or its step only buries.
LEMMA StepRefines ==
  IInv /\ [Next]_vars => [Abstract!Next]_<<Copy, Effect>>
<1> SUFFICES ASSUME IInv, [Next]_vars
             PROVE  Abstract!Next \/ UNCHANGED <<Copy, Effect>>
  OBVIOUS
<1> USE InboxAssumption
<1>1. ASSUME NEW m \in Message, Publish(m) PROVE Abstract!Next
  <2>1. Copy' = [Copy EXCEPT ![m] = "pending"]
    BY <1>1, MoveView DEF Publish, Place, ViewOf
  <2>2. Copy[m] = "unsent" /\ UNCHANGED Effect
    BY <1>1 DEF Publish, Copy, Effect, ViewOf
  <2> QED
    BY <2>1, <2>2 DEF Abstract!Next, Abstract!Send
<1>2. ASSUME NEW c \in Consumer, NEW m \in Message, Deliver(c, m)
      PROVE  UNCHANGED <<Copy, Effect>>
  <2>1. place[m] = "queue" /\ Copy' = [Copy EXCEPT ![m] = "pending"]
    BY <1>2, MoveView DEF Deliver, Place, ViewOf
  <2>2. Copy[m] = "pending"
    BY <2>1 DEF Copy, ViewOf
  <2> QED
    BY <1>2, <2>1, <2>2 DEF Deliver, Copy, Effect
<1>3. ASSUME NEW c \in Consumer, Drop(c)
      PROVE  Abstract!Next \/ UNCHANGED <<Copy, Effect>>
  <2>1. PICK m \in Message : m = holder[c] /\ GiveBack(c, m)
    BY <1>3 DEF Drop, IInv, TypeOK
  <2>2. Copy[m] # "unsent" /\ UNCHANGED Effect
    BY <1>3, <2>1 DEF Drop, IInv, TypeOK, Holding, Copy, ViewOf, Effect
  <2>3. Abstract!Bury(m) \/ UNCHANGED Copy
    BY <2>1, GiveBackView
  <2> QED
    BY <2>2, <2>3 DEF Abstract!Next, Abstract!Attempt
<1>4. ASSUME NEW c \in Consumer, Persist(c) PROVE Abstract!Next
  <2>1. Abstract!Record(EventOf[cons[c].msg]) \/ UNCHANGED Effect
    BY <1>4, InsertView DEF Persist, IInv, Sessions
  <2>2. UNCHANGED Copy /\ cons[c].phase # "idle"
    BY <1>4 DEF Persist, Copy
  <2> QED
    BY <2>1, <2>2, AttemptView DEF Abstract!Next
<1>5. ASSUME NEW c \in Consumer, Settle(c)
      PROVE  Abstract!Next \/ UNCHANGED <<Copy, Effect>>
  <2>1. PICK m \in Message : m = cons[c].msg /\ m = holder[c] /\ place[m] = "held"
    BY <1>5 DEF Settle, IInv, Sessions, Holding
  <2>2. Copy[m] = "pending" /\ UNCHANGED Effect /\ cons[c].phase # "idle"
    BY <1>5, <2>1 DEF Settle, Copy, Effect, ViewOf
  <2>3. CASE cons[c].action = "NACK_REQUEUE"
    <3>1. Abstract!Bury(m) \/ UNCHANGED Copy
      BY <1>5, <2>1, <2>3, GiveBackView DEF Settle
    <3> QED
      BY <2>1, <2>2, <3>1, AttemptView DEF Abstract!Next
  <2>4. CASE cons[c].action = "ACK"
    <3>1. place' = [place EXCEPT ![m] = "acked"]
      BY <1>5, <2>1, <2>4 DEF Settle, SettledAs
    <3>2. Copy' = [Copy EXCEPT ![m] = "confirmed"]
      BY <3>1, MoveView DEF Place, ViewOf
    <3>3. inbox[EventOf[m]].status = "RECEIVED"
      BY <1>5, <2>1, <2>4 DEF Settle, IInv, Sessions
    <3> QED
      BY <2>2, <3>2, <3>3 DEF Abstract!Next, Abstract!Confirm, Effect
  <2>5. CASE cons[c].action = "NACK_DEAD_LETTER"
    <3>1. place' = [place EXCEPT ![m] = "dead"]
      BY <1>5, <2>1, <2>5 DEF Settle, SettledAs
    <3>2. Copy' = [Copy EXCEPT ![m] = "buried"]
      BY <3>1, MoveView DEF Place, ViewOf
    <3> QED
      BY <2>1, <2>2, <3>2, AttemptView DEF Abstract!Next, Abstract!Bury
  <2> QED
    BY <1>5, <2>3, <2>4, <2>5 DEF Settle, IInv, Sessions
<1>6. ASSUME NEW c \in Consumer, EndSession(c), UNCHANGED inbox
      PROVE  Abstract!Next \/ UNCHANGED <<Copy, Effect>>
  <2>1. CASE holder[c] = NoMessage
    BY <1>6, <2>1 DEF EndSession, Copy, Effect
  <2>2. CASE holder[c] # NoMessage
    <3>1. PICK m \in Message : m = holder[c] /\ GiveBack(c, m)
      BY <1>6, <2>2 DEF EndSession, IInv, TypeOK
    <3>2. Copy[m] # "unsent" /\ UNCHANGED Effect
      BY <1>6, <3>1 DEF IInv, TypeOK, Holding, Copy, ViewOf, Effect
    <3>3. Abstract!Bury(m) \/ UNCHANGED Copy
      BY <3>1, GiveBackView
    <3> QED
      BY <3>2, <3>3 DEF Abstract!Next, Abstract!Attempt
  <2> QED
    BY <2>1, <2>2
<1>7. ASSUME NEW c \in Consumer, PersistFails(c)
      PROVE  Abstract!Next \/ UNCHANGED <<Copy, Effect>>
  <2>1. CASE UNCHANGED <<inbox, effects>>
    BY <1>6, <1>7, <2>1 DEF PersistFails
  <2>2. CASE Insert(cons[c].msg, RowFor(cons[c].msg, cons[c].attempt))
    <3>1. Abstract!Record(EventOf[cons[c].msg]) \/ UNCHANGED Effect
      BY <1>7, <2>2, InsertView DEF PersistFails, IInv, Sessions
    <3>2. Abstract!Bury(cons[c].msg) \/ UNCHANGED Copy
      <4>1. CASE holder[c] = NoMessage
        BY <1>7, <4>1 DEF PersistFails, EndSession, Copy
      <4>2. CASE holder[c] # NoMessage
        <5>1. PICK m \in Message : m = holder[c] /\ GiveBack(c, m)
          BY <1>7, <4>2 DEF PersistFails, EndSession, IInv, TypeOK
        <5>2. m = cons[c].msg
          BY <1>7, <4>2, <5>1 DEF PersistFails, IInv, Sessions
        <5> QED
          BY <5>1, <5>2, GiveBackView
      <4> QED
        BY <4>1, <4>2
    <3> QED
      BY <1>7, <3>1, <3>2, AttemptView DEF Abstract!Next, PersistFails
  <2> QED
    BY <1>7, <2>1, <2>2 DEF PersistFails
<1>8. ASSUME NEW c \in Consumer, SettleStale(c) \/ Crash(c)
      PROVE  Abstract!Next \/ UNCHANGED <<Copy, Effect>>
  BY <1>6, <1>8 DEF SettleStale, Crash
<1>9. CASE UNCHANGED vars
  BY <1>9 DEF vars, Copy, Effect
<1> QED
  BY <1>1, <1>2, <1>3, <1>4, <1>5, <1>7, <1>8, <1>9 DEF Next, Handle

\* The queue, the consumers and the table implement the promise of ADR-0012.
THEOREM Refinement == Spec => ImplementsOnceEffect
<1>1. Init => Abstract!Init
  BY DEF Init, Abstract!Init, Copy, Effect, ViewOf, NoRow
<1> QED
  BY <1>1, StepRefines, Invariance, PTL DEF Spec, ImplementsOnceEffect, Abstract!Spec

=============================================================================
