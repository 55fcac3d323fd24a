------------------------ MODULE PipelineWorkerProofs ------------------------
(***************************************************************************)
(* Proofs about PipelineWorker for any processes, threads and submits.     *)
(*                                                                         *)
(* Two facts carry everything.  A set Event that is still registered means *)
(* that the latest submit was answered (Counters), and that needs every    *)
(* submit to have one item only (Unique), so that no second item of an     *)
(* answered submit starts another run (NotYetRun).  A waiting thread read  *)
(* Event and generation together, so an unchanged generation means an      *)
(* unchanged Event (Waiters).                                              *)
(***************************************************************************)
EXTENDS PipelineWorker, SequenceTheorems, TLAPS

\* The Event of a process exists once something was submitted; when it is set
\* the latest submit was answered, and Events to come are not set.
Counters ==
  \A p \in Process :
    /\ event[p] = 0 <=> generation[p] = 0
    /\ ran[p] <= generation[p]
    /\ Fired(p) => ran[p] = generation[p]
    /\ \A n \in Nat : <<p, n>> \in fired => n <= event[p]

\* What a thread that is not idle knows.
Knows(s) ==
  /\ s.at \in {"put", "read", "blocked", "check"} => s.id \in Process
  /\ s.at \in {"put", "blocked", "check"} => s.gen <= generation[s.id]
  /\ s.at \in {"blocked", "check"} =>
       /\ s.ev <= event[s.id]
       /\ s.gen = generation[s.id] => s.ev = event[s.id]
Waiters == \A c \in Client : Knows(client[c])

\* Items are of submits that happened.
Items ==
  /\ \A i \in 1..Len(queue) : queue[i][2] <= generation[queue[i][1]]
  /\ worker.at = "get" => worker.item = NoItem
  /\ worker.at # "get" => /\ worker.item \in Item
                          /\ worker.item[2] <= generation[worker.item[1]]

Putting(c) == client[c].at = "put"

\* A submit has one item, in one place.
Unique ==
  /\ \A i, j \in 1..Len(queue) : queue[i] = queue[j] => i = j
  /\ \A i \in 1..Len(queue) : queue[i] # worker.item
  /\ \A c \in Client : Putting(c) =>
       /\ ItemOf(c) # worker.item
       /\ \A i \in 1..Len(queue) : queue[i] # ItemOf(c)
       /\ \A d \in Client : Putting(d) /\ ItemOf(d) = ItemOf(c) => d = c

\* As long as the item of the latest submit has not run, it is not answered.
NotYetRun ==
  /\ \A i \in 1..Len(queue) :
       queue[i][2] = generation[queue[i][1]] => ran[queue[i][1]] < queue[i][2]
  /\ \A c \in Client : Putting(c) /\ client[c].gen = generation[client[c].id]
                         => ran[client[c].id] < client[c].gen
  /\ worker.at \in {"check", "run"} /\ Latest(worker.item)
       => ran[worker.item[1]] < worker.item[2]

\* The Event of a process that is being run is not set, and at the end of the
\* run its generation is the one answered.
AtWork ==
  /\ worker.at \in {"run", "finish"} => ~Fired(worker.item[1])
  /\ worker.at = "finish" => ran[worker.item[1]] = worker.item[2]

IInv ==
  /\ TypeOK
  /\ Counters
  /\ Waiters
  /\ Items
  /\ Unique
  /\ NotYetRun
  /\ AtWork
  /\ NobodyForgotten

-----------------------------------------------------------------------------
\* A thread without a call is in a well-formed state.
LEMMA IdleIsState == IdleClient \in ClientState /\ IdleClient.at = "idle"
  BY DEF IdleClient, ClientState, Unseen

\* Initially nothing is submitted.
LEMMA InitInv == Init => IInv
<1> SUFFICES ASSUME Init PROVE IInv
  OBVIOUS
<1> USE WorkerAssumption DEF Init
<1>0. queue \in Seq(Item) /\ Len(queue) = 0
  BY EmptySeq
<1>1. TypeOK
  BY <1>0, IdleIsState DEF TypeOK, NoItem
<1>2. Counters /\ Items /\ AtWork /\ NotYetRun
  BY <1>0, IdleIsState DEF Counters, Items, AtWork, NotYetRun, Fired, Putting
<1>3. Waiters /\ Unique
  BY <1>0, IdleIsState DEF Waiters, Knows, Unique, Putting
<1>4. NobodyForgotten
  BY DEF NobodyForgotten, Registered
<1> QED
  BY <1>1, <1>2, <1>3, <1>4 DEF IInv

-----------------------------------------------------------------------------
(* wait and wait_all change nothing but the thread's own variables.        *)

\* A step inside wait or wait_all keeps the invariant if what the thread knows
\* afterwards is true.
LEMMA ThreadStep ==
  ASSUME IInv, NEW c \in Client, NEW x \in ClientState, x.at # "put",
         client[c].at # "put", client' = [client EXCEPT ![c] = x],
         UNCHANGED Shared, Knows(x)
  PROVE  IInv'
<1>1. /\ client' \in [Client -> ClientState]
      /\ \A d \in Client : client'[d] = IF d = c THEN x ELSE client[d]
  BY DEF IInv, TypeOK
<1>2. TypeOK'
  BY <1>1 DEF IInv, TypeOK, Shared
<1>3. Counters' /\ Items' /\ AtWork'
  BY DEF IInv, Counters, Items, AtWork, Shared, Fired
<1>4. Waiters'
  BY <1>1 DEF IInv, Waiters, Knows, Shared
<1>5. \A d \in Client : Putting(d)' => Putting(d) /\ client'[d] = client[d]
  BY <1>1 DEF Putting
<1>6. Unique'
  BY <1>5 DEF IInv, Unique, Shared, ItemOf
<1>7. NotYetRun'
  BY <1>5 DEF IInv, NotYetRun, Shared, Latest
<1>8. NobodyForgotten'
  <2> SUFFICES ASSUME NEW p \in Registered', ~Fired(p)'
               PROVE  Underway(<<p, generation[p]>>)'
    BY DEF NobodyForgotten, Shared
  <2>1. Underway(<<p, generation[p]>>)
    BY DEF IInv, NobodyForgotten, Registered, Fired, Shared
  <2>2. \A d \in Client : Putting(d) => client'[d] = client[d]
    BY <1>1 DEF Putting
  <2> QED
    BY <2>1, <2>2 DEF Underway, Putting, ItemOf, Shared
<1> QED
  BY <1>2, <1>3, <1>4, <1>6, <1>7, <1>8 DEF IInv

\* Where wait goes back to, in wait and in wait_all.
LEMMA ReturnFacts ==
  ASSUME IInv, NEW c \in Client, Return(c)
  PROVE  \E x \in ClientState : /\ x.at \in {"idle", "next"}
                                /\ client' = [client EXCEPT ![c] = x]
<1>1. client[c] \in ClientState
  BY DEF IInv, TypeOK
<1> DEFINE y == [client[c] EXCEPT !.at = "next", !.id = NoProcess, !.gen = 0, !.ev = 0]
<1>2. y \in ClientState /\ y.at = "next"
  BY <1>1 DEF ClientState
<1>3. CASE client[c].all
  <2>1. client' = [client EXCEPT ![c] = y]
    BY <1>3 DEF Return
  <2> QED
    BY <1>2, <2>1
<1>4. CASE ~client[c].all
  BY <1>4, IdleIsState DEF Return
<1> QED
  BY <1>3, <1>4

\* Starting to wait is such a step.
LEMMA StartStep ==
  ASSUME IInv, NEW c \in Client,
         StartWaitAll(c) \/ \E p \in Process : StartWait(c, p)
  PROVE  IInv'
<1>1. CASE StartWaitAll(c)
  <2> DEFINE x == [IdleClient EXCEPT !.at = "scan", !.all = TRUE]
  <2>1. x \in ClientState /\ x.at = "scan"
    BY DEF IdleClient, ClientState, Unseen
  <2>2. Knows(x)
    BY <2>1 DEF Knows
  <2> HIDE DEF x
  <2> QED
    BY <1>1, <2>1, <2>2, ThreadStep DEF StartWaitAll, x
<1>2. ASSUME NEW p \in Process, StartWait(c, p) PROVE IInv'
  <2> DEFINE x == [IdleClient EXCEPT !.at = "read", !.id = p]
  <2>1. x \in ClientState /\ x.at = "read" /\ x.id = p
    BY DEF IdleClient, ClientState, Unseen
  <2>2. Knows(x)
    BY <2>1 DEF Knows
  <2> HIDE DEF x
  <2> QED
    BY <1>2, <2>1, <2>2, ThreadStep DEF StartWait, x
<1> QED
  BY <1>1, <1>2

\* So is every step inside wait and wait_all.
LEMMA WaitingStep ==
  ASSUME IInv, NEW c \in Client, Waiting(c)
  PROVE  IInv'
<1>1. client[c] \in ClientState /\ Knows(client[c])
  BY DEF IInv, TypeOK, Waiters
<1>2. ASSUME Return(c), UNCHANGED Shared, client[c].at # "put" PROVE IInv'
  <2>1. PICK x \in ClientState : /\ x.at \in {"idle", "next"}
                                 /\ client' = [client EXCEPT ![c] = x]
    BY <1>2, ReturnFacts
  <2>2. Knows(x)
    BY <2>1 DEF Knows
  <2> QED
    BY <1>2, <2>1, <2>2, ThreadStep
<1>3. CASE WaitRead(c)
  <2>1. CASE event[client[c].id] = 0
    BY <1>2, <1>3, <2>1 DEF WaitRead
  <2>2. CASE event[client[c].id] # 0
    <3> DEFINE p == client[c].id
               x == [client[c] EXCEPT !.at = "blocked", !.gen = generation[p], !.ev = event[p]]
    <3>1. p \in Process /\ generation[p] \in Nat /\ event[p] \in Nat
      BY <1>1, <1>3 DEF WaitRead, Knows, IInv, TypeOK
    <3>2. /\ x \in ClientState /\ x.at = "blocked" /\ x.id = p
          /\ x.gen = generation[p] /\ x.ev = event[p]
      BY <1>1, <3>1 DEF ClientState
    <3>3. client[c].at # "put" /\ client' = [client EXCEPT ![c] = x] /\ UNCHANGED Shared
      BY <1>3, <2>2 DEF WaitRead
    <3> HIDE DEF x
    <3>4. Knows(x)
      BY <3>1, <3>2 DEF Knows
    <3> QED
      BY <3>2, <3>3, <3>4, ThreadStep
  <2> QED
    BY <2>1, <2>2
<1>4. ASSUME NEW where \in {"read", "check"}, client[c].at \in {"blocked", "check"},
             client' = [client EXCEPT ![c] = [client[c] EXCEPT !.at = where]],
             UNCHANGED Shared
      PROVE  IInv'
  <2> DEFINE x == [client[c] EXCEPT !.at = where]
  <2>1. /\ x \in ClientState /\ x.at = where /\ x.id = client[c].id
        /\ x.gen = client[c].gen /\ x.ev = client[c].ev
    BY <1>1 DEF ClientState
  <2>2. client' = [client EXCEPT ![c] = x]
    BY <1>4
  <2> HIDE DEF x
  <2>3. Knows(x)
    BY <1>1, <1>4, <2>1 DEF Knows
  <2> QED
    BY <1>4, <2>1, <2>2, <2>3, ThreadStep
<1>5. CASE WaitWoken(c)
  BY <1>4, <1>5 DEF WaitWoken
<1>6. CASE WaitCheck(c)
  BY <1>2, <1>4, <1>6 DEF WaitCheck
<1>7. ASSUME NEW x \in ClientState, x.at \in {"idle", "scan", "next"},
             client[c].at # "put", client' = [client EXCEPT ![c] = x], UNCHANGED Shared
      PROVE  IInv'
  <2>1. Knows(x)
    BY <1>7 DEF Knows
  <2> QED
    BY <1>7, <2>1, ThreadStep
<1>8. CASE WaitAllScan(c)
  <2> DEFINE y == [client[c] EXCEPT !.at = "next", !.todo = Registered, !.seen = generation]
  <2>1. y \in ClientState /\ y.at = "next"
    BY <1>1 DEF ClientState, Registered, IInv, TypeOK
  <2> QED
    BY <1>7, <1>8, <2>1, IdleIsState DEF WaitAllScan
<1>9. CASE WaitAllNext(c)
  <2>1. PICK p \in client[c].todo :
          client' = [client EXCEPT ![c] = [client[c] EXCEPT !.at = "read", !.id = p,
                                             !.todo = client[c].todo \ {p}]]
    BY <1>9 DEF WaitAllNext
  <2> DEFINE x == [client[c] EXCEPT !.at = "read", !.id = p, !.todo = client[c].todo \ {p}]
  <2>2. p \in Process
    BY <1>1 DEF ClientState
  <2>3. x \in ClientState /\ x.at = "read" /\ x.id = p
    BY <1>1, <2>2 DEF ClientState
  <2>4. client' = [client EXCEPT ![c] = x] /\ client[c].at # "put" /\ UNCHANGED Shared
    BY <1>9, <2>1 DEF WaitAllNext
  <2> HIDE DEF x
  <2>5. Knows(x)
    BY <2>2, <2>3 DEF Knows
  <2> QED
    BY <2>3, <2>4, <2>5, ThreadStep
<1>10. CASE WaitAllCheck(c)
  <2> DEFINE y == [client[c] EXCEPT !.at = "scan"]
  <2>1. y \in ClientState /\ y.at = "scan"
    BY <1>1 DEF ClientState
  <2> QED
    BY <1>7, <1>10, <2>1, IdleIsState DEF WaitAllCheck
<1> QED
  BY <1>3, <1>5, <1>6, <1>8, <1>9, <1>10 DEF Waiting

-----------------------------------------------------------------------------
(* submit.                                                                 *)

\* The new item is of a generation that no other item has, and a set Event is
\* replaced by one that is not set.
LEMMA SubmitStep ==
  ASSUME IInv, NEW c \in Client, NEW p \in Process, Submit(c, p)
  PROVE  IInv'
<1>1. generation[p] \in Nat /\ event[p] \in Nat
  BY DEF IInv, TypeOK
<1>1a. PICK g \in Nat : g = generation[p] + 1
  BY <1>1
<1>1b. PICK e \in Nat : e = EventFor(p) /\ event[p] <= e /\ e # 0
  BY <1>1 DEF EventFor
<1> DEFINE x == [IdleClient EXCEPT !.at = "put", !.id = p, !.gen = g]
<1>2. x \in ClientState /\ x.at = "put" /\ x.id = p /\ x.gen = g
  BY <1>1 DEF IdleClient, ClientState, Unseen
<1>3. client' = [client EXCEPT ![c] = x]
  BY <1>1a DEF Submit
<1> HIDE DEF x
<1>4. \A d \in Client : client'[d] = IF d = c THEN x ELSE client[d]
  BY <1>3 DEF IInv, TypeOK
<1>5. /\ generation' = [generation EXCEPT ![p] = g]
      /\ event' = [event EXCEPT ![p] = e]
      /\ UNCHANGED <<fired, queue, worker, ran>>
  BY <1>1a, <1>1b DEF Submit
<1>6. generation \in [Process -> Nat] /\ event \in [Process -> Nat]
  BY DEF IInv, TypeOK
<1>7a. /\ generation'[p] = g
       /\ \A q \in Process \ {p} : generation'[q] = generation[q]
  BY <1>5, <1>6
<1>7b. /\ event'[p] = e
       /\ \A q \in Process \ {p} : event'[q] = event[q]
  BY <1>5, <1>6
<1>7. \A q \in Process : /\ generation'[q] = IF q = p THEN g ELSE generation[q]
                         /\ event'[q] = IF q = p THEN e ELSE event[q]
  BY <1>7a, <1>7b
<1>8. TypeOK'
  BY <1>1a, <1>1b, <1>2, <1>3, <1>5 DEF IInv, TypeOK, Submit
<1>9. ~Fired(p)'
  <2>1. event'[p] = e /\ fired' = fired
    BY <1>5, <1>7
  <2>2. CASE Fired(p) \/ event[p] = 0
    BY <1>1, <1>1b, <2>1, <2>2 DEF EventFor, Fired, IInv, Counters
  <2>3. CASE ~Fired(p) /\ event[p] # 0
    BY <1>1b, <2>1, <2>3 DEF EventFor, Fired
  <2> QED
    BY <2>2, <2>3
<1>10. Counters'
  <2> SUFFICES ASSUME NEW q \in Process
               PROVE  /\ event'[q] = 0 <=> generation'[q] = 0
                      /\ ran'[q] <= generation'[q]
                      /\ Fired(q)' => ran'[q] = generation'[q]
                      /\ \A n \in Nat : <<q, n>> \in fired' => n <= event'[q]
    BY DEF Counters
  <2>1. CASE q = p
    <3>1. ran'[p] \in Nat /\ ran'[p] <= generation[p]
      BY <1>5 DEF IInv, Counters, TypeOK
    <3>2. \A n \in Nat : <<p, n>> \in fired' => n <= event[p]
      BY <1>5 DEF IInv, Counters
    <3> QED
      BY <1>1, <1>1a, <1>1b, <1>7, <1>9, <2>1, <3>1, <3>2
  <2>2. CASE q # p
    <3>1. event'[q] = event[q] /\ generation'[q] = generation[q] /\ fired' = fired /\ ran' = ran
      BY <1>5, <1>7, <2>2
    <3> QED
      BY <3>1 DEF IInv, Counters, Fired
  <2> QED
    BY <2>1, <2>2
<1>11. Waiters'
  <2> SUFFICES ASSUME NEW d \in Client PROVE Knows(client[d])'
    BY DEF Waiters
  <2>1. CASE d = c
    BY <1>1a, <1>1b, <1>2, <1>4, <1>7, <2>1 DEF Knows
  <2>2. CASE d # c
    <3>1. client'[d] = client[d] /\ Knows(client[d]) /\ client[d] \in ClientState
      BY <1>4, <2>2 DEF IInv, Waiters, TypeOK
    <3>2. client[d].gen \in Nat /\ client[d].ev \in Nat
      BY <3>1 DEF ClientState
    <3> QED
      <4>1. \A q \in Process : /\ generation[q] \in Nat /\ event[q] \in Nat
                               /\ generation[q] <= generation'[q] /\ generation'[q] \in Nat
                               /\ event[q] <= event'[q] /\ event'[q] \in Nat
                               /\ q # p => generation'[q] = generation[q] /\ event'[q] = event[q]
                               /\ q = p => generation[q] < generation'[q]
        BY <1>1, <1>1a, <1>1b, <1>7 DEF IInv, TypeOK
      <4>2. PICK s \in ClientState : s = client[d]
        BY <3>1
      <4>3. client'[d] = s /\ Knows(s) /\ s.gen \in Nat /\ s.ev \in Nat
        BY <3>1, <3>2, <4>2
      <4>4. Knows(s)'
        <5>1. CASE s.id \in Process
          BY <4>1, <4>3, <5>1 DEF Knows
        <5>2. CASE s.id \notin Process
          BY <4>3, <5>2 DEF Knows
        <5> QED
          BY <5>1, <5>2
      <4> QED
        BY <4>3, <4>4 DEF Knows
  <2> QED
    BY <2>1, <2>2
<1>12. \A i \in 1..Len(queue) : queue[i] \in Item
  BY ElementOfSeq DEF IInv, TypeOK
<1>12a. \A q \in Process : generation[q] \in Nat /\ generation'[q] \in Nat
                             /\ generation[q] <= generation'[q]
  BY <1>1, <1>1a, <1>7 DEF IInv, TypeOK
<1>13. Items'
  <2>1. \A i \in 1..Len(queue) : queue[i][2] <= generation'[queue[i][1]]
    BY <1>12, <1>12a DEF IInv, Items, Item
  <2>2. worker.at # "get" => worker.item[2] <= generation'[worker.item[1]]
    BY <1>12a DEF IInv, Items, Item
  <2> QED
    BY <1>5, <2>1, <2>2 DEF IInv, Items
<1>14. \A i \in 1..Len(queue) : queue[i] # <<p, g>>
  BY <1>1, <1>1a, <1>12 DEF IInv, Items, Item
<1>15. worker.item # <<p, g>>
  BY <1>1, <1>1a, WorkerAssumption DEF IInv, Items, TypeOK, NoItem
<1>16. \A d \in Client : Putting(d) => client[d].id \in Process /\ client[d].gen \in Nat
                           /\ client[d].gen <= generation[client[d].id]
  BY DEF IInv, Waiters, Knows, Putting, TypeOK, ClientState
<1>17. \A d \in Client : Putting(d) => ItemOf(d) # <<p, g>>
  BY <1>1, <1>1a, <1>16 DEF ItemOf
<1>18. ASSUME NEW d \in Client, d # c
       PROVE  (Putting(d)' <=> Putting(d)) /\ ItemOf(d)' = ItemOf(d)
  BY <1>4, <1>18 DEF Putting, ItemOf
<1>19. ItemOf(c)' = <<p, g>> /\ Putting(c)' /\ ~Putting(c)
  BY <1>2, <1>4 DEF ItemOf, Putting, Submit
<1>20. Unique'
  BY <1>5, <1>14, <1>15, <1>17, <1>18, <1>19 DEF IInv, Unique
<1>21. NotYetRun'
  <2>1. ran[p] \in Nat /\ ran[p] < g
    BY <1>1, <1>1a DEF IInv, Counters, TypeOK
  <2>2. \A i \in 1..Len(queue)' : queue'[i][2] = generation'[queue'[i][1]]
                                     => ran'[queue'[i][1]] < queue'[i][2]
    BY <1>1, <1>1a, <1>5, <1>7, <1>12, <2>1 DEF IInv, NotYetRun, Item
  <2>3. ASSUME NEW d \in Client, Putting(d)', client'[d].gen = generation'[client'[d].id]
        PROVE  ran'[client'[d].id] < client'[d].gen
    <3>1. CASE d = c
      BY <1>2, <1>4, <1>5, <2>1, <3>1
    <3>2. CASE d # c
      <4>1. client'[d] = client[d] /\ Putting(d)
        BY <1>4, <1>18, <2>3, <3>2
      <4>2. client[d].id # p
        BY <1>1, <1>1a, <1>7, <1>16, <2>3, <4>1
      <4> QED
        BY <1>5, <1>7, <1>16, <2>3, <4>1, <4>2 DEF IInv, NotYetRun
    <3> QED
      BY <3>1, <3>2
  <2>4. worker'.at \in {"check", "run"} /\ Latest(worker.item)'
          => ran'[worker'.item[1]] < worker'.item[2]
    BY <1>1, <1>1a, <1>5, <1>7, <2>1 DEF IInv, NotYetRun, Latest, Items, Item
  <2> QED
    BY <2>2, <2>3, <2>4 DEF NotYetRun
<1>22. AtWork'
  <2>1. worker.at # "get" => worker.item[1] \in Process
    BY DEF IInv, Items, Item
  <2>2. worker.at \in {"run", "finish"} => ~Fired(worker.item[1])'
    BY <1>5, <1>7, <1>9, <2>1 DEF IInv, AtWork, Fired
  <2> QED
    BY <1>5, <2>2 DEF IInv, AtWork
<1>23. NobodyForgotten'
  <2> SUFFICES ASSUME NEW q \in Registered', ~Fired(q)'
               PROVE  Underway(<<q, generation[q]>>)'
    BY DEF NobodyForgotten
  <2>1. CASE q = p
    <3>1. ItemOf(c)' = <<q, generation'[q]>>
      BY <1>7, <1>19, <2>1
    <3> QED
      BY <1>19, <3>1 DEF Underway, Putting
  <2>2. CASE q # p
    <3>1. q \in Registered /\ ~Fired(q) /\ generation'[q] = generation[q]
      BY <1>5, <1>7, <2>2 DEF Registered, Fired
    <3>2. Underway(<<q, generation[q]>>)
      BY <3>1 DEF IInv, NobodyForgotten
    <3> QED
      BY <1>5, <1>18, <1>19, <3>1, <3>2 DEF Underway, Putting
  <2> QED
    BY <2>1, <2>2
<1> QED
  BY <1>8, <1>10, <1>11, <1>13, <1>20, <1>21, <1>22, <1>23 DEF IInv

\* The item moves from the thread to the end of the queue.
LEMMA PutStep ==
  ASSUME IInv, NEW c \in Client, Put(c)
  PROVE  IInv'
<1> DEFINE it == ItemOf(c)
<1>1. /\ client[c].id \in Process /\ client[c].gen \in Nat
      /\ client[c].gen <= generation[client[c].id] /\ Putting(c)
  BY DEF Put, Putting, IInv, Waiters, Knows, TypeOK, ClientState
<1>2. it \in Item /\ it[1] = client[c].id /\ it[2] = client[c].gen
  BY <1>1 DEF ItemOf, Item
<1> HIDE DEF it
<1>3. /\ queue' = Append(queue, it) /\ client' = [client EXCEPT ![c] = IdleClient]
      /\ UNCHANGED <<generation, event, fired, started, worker, ran>>
  BY DEF Put, it
<1>4. /\ queue \in Seq(Item) /\ queue' \in Seq(Item) /\ Len(queue') = Len(queue) + 1
      /\ \A i \in 1..Len(queue) : queue'[i] = queue[i]
      /\ queue'[Len(queue) + 1] = it /\ Len(queue) \in Nat
  BY <1>2, <1>3, AppendProperties DEF IInv, TypeOK
<1>5. \A d \in Client : client'[d] = IF d = c THEN IdleClient ELSE client[d]
  BY <1>3 DEF IInv, TypeOK
<1>6. \A i \in 1..Len(queue') : i \in 1..Len(queue) \/ i = Len(queue) + 1
  BY <1>4
<1>7. TypeOK'
  BY <1>3, <1>4, IdleIsState DEF IInv, TypeOK
<1>8. Counters' /\ AtWork'
  BY <1>3 DEF IInv, Counters, AtWork, Fired
<1>9. Waiters'
  BY <1>3, <1>5, IdleIsState DEF IInv, Waiters, Knows
<1>10. Items'
  BY <1>1, <1>2, <1>3, <1>4, <1>6 DEF IInv, Items
<1>11. ~Putting(c)'
  BY <1>5, IdleIsState DEF Putting
<1>11a. ASSUME NEW d \in Client, d # c
        PROVE  /\ Putting(d)' <=> Putting(d)
               /\ ItemOf(d)' = ItemOf(d) /\ client'[d] = client[d]
  BY <1>5, <1>11a DEF Putting, ItemOf
<1>12. Unique'
  <2>1. \A i \in 1..Len(queue) : queue[i] # it
    BY <1>1 DEF IInv, Unique, it
  <2>2. it # worker.item
    BY <1>1 DEF IInv, Unique, it
  <2>3. \A d \in Client : Putting(d)' => ItemOf(d)' # it
    BY <1>1, <1>11, <1>11a DEF IInv, Unique, it
  <2>4. \A i, j \in 1..Len(queue') : queue'[i] = queue'[j] => i = j
    BY <1>4, <1>6, <2>1 DEF IInv, Unique
  <2> QED
    BY <1>3, <1>4, <1>6, <1>11, <1>11a, <2>2, <2>3, <2>4 DEF IInv, Unique
<1>13. NotYetRun'
  BY <1>1, <1>2, <1>3, <1>4, <1>6, <1>11, <1>11a DEF IInv, NotYetRun, Putting, Latest
<1>14. NobodyForgotten'
  <2> SUFFICES ASSUME NEW q \in Registered', ~Fired(q)'
               PROVE  Underway(<<q, generation[q]>>)'
    BY DEF NobodyForgotten
  <2>1. Underway(<<q, generation[q]>>) /\ generation'[q] = generation[q]
    BY <1>3 DEF IInv, NobodyForgotten, Registered, Fired
  <2>2. CASE \E d \in Client : Putting(d) /\ ItemOf(d) = <<q, generation[q]>>
    <3>1. PICK d \in Client : Putting(d) /\ ItemOf(d) = <<q, generation[q]>>
      BY <2>2
    <3>2. CASE d = c
      <4>1. queue'[Len(queue) + 1] = <<q, generation'[q]>> /\ Len(queue) + 1 \in 1..Len(queue')
        BY <1>4, <2>1, <3>1, <3>2 DEF it
      <4> QED
        BY <4>1 DEF Underway
    <3>3. CASE d # c
      BY <1>11a, <2>1, <3>1, <3>3 DEF Underway, Putting
    <3> QED
      BY <3>2, <3>3
  <2>3. CASE \E i \in 1..Len(queue) : queue[i] = <<q, generation[q]>>
    BY <1>4, <2>1, <2>3 DEF Underway
  <2>4. CASE worker.item = <<q, generation[q]>>
    BY <1>3, <2>1, <2>4 DEF Underway
  <2> QED
    BY <2>1, <2>2, <2>3, <2>4 DEF Underway, Putting
<1> QED
  BY <1>7, <1>8, <1>9, <1>10, <1>12, <1>13, <1>14 DEF IInv

-----------------------------------------------------------------------------
(* _loop and _finish.                                                      *)

\* Items have a process, so none is NoItem.
LEMMA RealItems ==
  ASSUME IInv
  PROVE  /\ NoItem \notin Item
         /\ \A i \in 1..Len(queue) : queue[i] \in Item
         /\ \A c \in Client : Putting(c) => ItemOf(c) \in Item
<1>1. NoItem \notin Item
  BY WorkerAssumption DEF Item, NoItem
<1>2. \A i \in 1..Len(queue) : queue[i] \in Item
  BY ElementOfSeq DEF IInv, TypeOK
<1>3. ASSUME NEW c \in Client, Putting(c) PROVE ItemOf(c) \in Item
  <2>1. client[c].id \in Process /\ client[c].gen \in Nat
    BY <1>3 DEF IInv, Waiters, Knows, Putting, TypeOK, ClientState
  <2> QED
    BY <2>1 DEF ItemOf, Item
<1> QED
  BY <1>1, <1>2, <1>3

\* The item moves from the queue to the loop.
LEMMA GetStep ==
  ASSUME IInv, Get
  PROVE  IInv'
<1>1. /\ queue \in Seq(Item) /\ queue # <<>> /\ worker.at = "get" /\ worker.item = NoItem
      /\ UNCHANGED <<generation, event, fired, started, client, ran>>
  BY DEF Get, IInv, TypeOK, Items
<1>2. PICK it \in Item : it = queue[1] /\ it = Head(queue)
  BY <1>1, HeadTailProperties
<1>3. /\ queue' = Tail(queue) /\ queue' \in Seq(Item)
      /\ worker' = [at |-> "check", item |-> it]
  BY <1>1, <1>2, HeadTailProperties DEF Get
<1>4. /\ Len(queue) \in Nat /\ Len(queue) # 0 /\ Len(queue') = Len(queue) - 1
      /\ \A i \in 1..Len(queue') : queue'[i] = queue[i + 1]
  BY <1>1, <1>3, HeadTailProperties
<1>5. worker'.at = "check" /\ worker'.item = it
  BY <1>3
<1>6. \A i \in 1..Len(queue') : i + 1 \in 1..Len(queue) /\ i + 1 # 1
  BY <1>4
<1>7. 1 \in 1..Len(queue)
  BY <1>4
<1>8. TypeOK'
  BY <1>1, <1>3 DEF IInv, TypeOK
<1>9. Counters' /\ Waiters' /\ AtWork'
  BY <1>1, <1>5 DEF IInv, Counters, Waiters, Knows, AtWork, Fired
<1>10. Items'
  BY <1>1, <1>2, <1>4, <1>5, <1>6, <1>7 DEF IInv, Items
<1>11. Unique'
  <2>1. \A i, j \in 1..Len(queue') : queue'[i] = queue'[j] => i = j
    BY <1>4, <1>6 DEF IInv, Unique
  <2>2. \A i \in 1..Len(queue') : queue'[i] # it
    BY <1>2, <1>4, <1>6, <1>7 DEF IInv, Unique
  <2>3. \A c \in Client : Putting(c) =>
          /\ ItemOf(c) # it
          /\ \A i \in 1..Len(queue') : queue'[i] # ItemOf(c)
    BY <1>2, <1>4, <1>6, <1>7 DEF IInv, Unique
  <2> QED
    BY <1>1, <1>5, <2>1, <2>2, <2>3 DEF IInv, Unique, Putting, ItemOf
<1>12. NotYetRun'
  <2>1. \A i \in 1..Len(queue') : queue'[i][2] = generation[queue'[i][1]]
                                   => ran[queue'[i][1]] < queue'[i][2]
    BY <1>4, <1>6 DEF IInv, NotYetRun
  <2>2. it[2] = generation[it[1]] => ran[it[1]] < it[2]
    BY <1>2, <1>7 DEF IInv, NotYetRun
  <2> QED
    BY <1>1, <1>5, <2>1, <2>2 DEF IInv, NotYetRun, Putting, Latest
<1>13. NobodyForgotten'
  <2> SUFFICES ASSUME NEW q \in Registered', ~Fired(q)'
               PROVE  Underway(<<q, generation[q]>>)'
    BY DEF NobodyForgotten
  <2> DEFINE mine == <<q, generation[q]>>
  <2>1. Underway(mine) /\ mine' = mine /\ q \in Process
    BY <1>1 DEF IInv, NobodyForgotten, Registered, Fired
  <2>2. worker.item # mine
    BY <1>1, <2>1, WorkerAssumption DEF NoItem
  <2>3. CASE \E i \in 1..Len(queue) : queue[i] = mine
    <3>1. PICK i \in 1..Len(queue) : queue[i] = mine
      BY <2>3
    <3>2. CASE i = 1
      BY <1>2, <1>5, <2>1, <3>1, <3>2 DEF Underway
    <3>3. CASE i # 1
      <4>1. i - 1 \in 1..Len(queue') /\ queue'[i - 1] = mine
        BY <1>4, <3>1, <3>3
      <4> QED
        BY <2>1, <4>1 DEF Underway
    <3> QED
      BY <3>2, <3>3
  <2>4. CASE \E c \in Client : client[c].at = "put" /\ ItemOf(c) = mine
    BY <1>1, <2>1, <2>4 DEF Underway, ItemOf
  <2> QED
    BY <2>1, <2>2, <2>3, <2>4 DEF Underway
<1> QED
  BY <1>8, <1>9, <1>10, <1>11, <1>12, <1>13 DEF IInv

\* The loop is back at the queue; its item was answered or superseded.
LEMMA BackToQueue ==
  ASSUME IInv, worker.at # "get", worker' = [at |-> "get", item |-> NoItem],
         UNCHANGED <<generation, event, queue, started, client, ran>>,
         fired' \in SUBSET (Process \X Nat), Counters',
         \A q \in Process : Fired(q) => Fired(q)',
         \A q \in Process : worker.item = <<q, generation[q]>> => Fired(q)'
  PROVE  IInv'
<1>1. worker'.at = "get" /\ worker'.item = NoItem
  OBVIOUS
<1>2. TypeOK'
  BY DEF IInv, TypeOK
<1>3. Waiters' /\ Items' /\ AtWork'
  BY <1>1 DEF IInv, Waiters, Knows, Items, AtWork
<1>4. Unique'
  <2>1. \A i \in 1..Len(queue) : queue[i] # NoItem
    BY RealItems
  <2>2. \A c \in Client : Putting(c) => ItemOf(c) # NoItem
    BY RealItems
  <2> QED
    BY <1>1, <2>1, <2>2 DEF IInv, Unique, Putting, ItemOf
<1>5. NotYetRun'
  BY <1>1 DEF IInv, NotYetRun, Putting
<1>6. NobodyForgotten'
  <2> SUFFICES ASSUME NEW q \in Registered', ~Fired(q)'
               PROVE  Underway(<<q, generation[q]>>)'
    BY DEF NobodyForgotten
  <2> DEFINE mine == <<q, generation[q]>>
  <2>1. Underway(mine) /\ mine' = mine
    BY DEF IInv, NobodyForgotten, Registered
  <2>2. worker.item # mine
    BY DEF Registered
  <2> QED
    BY <2>1, <2>2 DEF Underway, ItemOf
<1> QED
  BY <1>2, <1>3, <1>4, <1>5, <1>6 DEF IInv

\* A run starts only for the latest submit, which was not answered.
LEMMA CheckStep ==
  ASSUME IInv, Check
  PROVE  IInv'
<1>1. CASE ~Latest(worker.item)
  <2>1. Counters' /\ \A q \in Process : Fired(q) => Fired(q)'
    BY DEF Check, IInv, Counters, Fired
  <2>2. \A q \in Process : worker.item # <<q, generation[q]>>
    BY <1>1 DEF Latest
  <2> QED
    BY <1>1, <2>1, <2>2, BackToQueue DEF Check, IInv, TypeOK
<1>2. CASE Latest(worker.item)
  <2>1. /\ worker.at = "check" /\ worker'.at = "run" /\ worker'.item = worker.item
        /\ UNCHANGED <<generation, event, fired, queue, started, client, ran>>
    BY <1>2 DEF Check, IInv, TypeOK
  <2>2. TypeOK'
    BY <1>2 DEF Check, IInv, TypeOK
  <2>3. Counters' /\ Waiters' /\ Items' /\ Unique'
    BY <2>1 DEF IInv, Counters, Waiters, Knows, Items, Unique, Fired, Putting, ItemOf
  <2>4. NotYetRun'
    BY <2>1 DEF IInv, NotYetRun, Putting, Latest
  <2>5. AtWork'
    <3>1. worker.item[1] \in Process /\ worker.item[2] \in Nat
      BY <2>1 DEF IInv, Items, Item
    <3>2. ran[worker.item[1]] < worker.item[2] /\ generation[worker.item[1]] = worker.item[2]
      BY <1>2, <2>1 DEF IInv, NotYetRun, Latest
    <3>3. ~Fired(worker.item[1])
      BY <3>1, <3>2 DEF IInv, Counters, TypeOK
    <3> QED
      BY <2>1, <3>3 DEF AtWork, Fired
  <2>6. NobodyForgotten'
    BY <2>1 DEF IInv, NobodyForgotten, Registered, Fired, Underway, ItemOf
  <2> QED
    BY <2>2, <2>3, <2>4, <2>5, <2>6 DEF IInv
<1> QED
  BY <1>1, <1>2

\* The end of a run leaves what is queued for its process unanswered.
LEMMA RunEndsStep ==
  ASSUME IInv, RunEnds
  PROVE  IInv'
<1>1. PICK it \in Item : it = worker.item
  BY DEF RunEnds, IInv, Items
<1>2. PICK r \in Process, g \in Nat : it = <<r, g>>
  BY <1>1 DEF Item
<1>3. /\ worker.at = "run" /\ worker'.at = "finish" /\ worker'.item = it
      /\ ran' = [ran EXCEPT ![r] = g]
      /\ UNCHANGED <<generation, event, fired, queue, started, client>>
  <2>1. worker'.at = "finish" /\ worker'.item = worker.item
    BY DEF RunEnds, IInv, TypeOK
  <2>2. worker.item[1] = r /\ worker.item[2] = g
    BY <1>1, <1>2
  <2> QED
    BY <1>1, <2>1, <2>2 DEF RunEnds
<1>4. /\ ran'[r] = g
      /\ \A q \in Process \ {r} : ran'[q] = ran[q]
  BY <1>3 DEF IInv, TypeOK
<1>5. g <= generation[r] /\ ~Fired(r) /\ \A q \in Process : generation[q] \in Nat
  BY <1>1, <1>2, <1>3 DEF IInv, Items, AtWork, TypeOK
<1>6. TypeOK'
  BY <1>3 DEF RunEnds, IInv, TypeOK
<1>7. Counters'
  BY <1>3, <1>4, <1>5 DEF IInv, Counters, Fired
<1>8. Waiters' /\ Items' /\ Unique'
  BY <1>1, <1>3 DEF IInv, Waiters, Knows, Items, Unique, Putting, ItemOf
<1>9. AtWork'
  BY <1>2, <1>3, <1>4, <1>5 DEF AtWork, Fired
<1>10. NotYetRun'
  <2>1. ASSUME NEW i \in 1..Len(queue), queue[i][2] = generation[queue[i][1]]
        PROVE  ran'[queue[i][1]] < queue[i][2]
    <3>1. PICK q \in Process, n \in Nat : queue[i] = <<q, n>>
      BY RealItems DEF Item
    <3>2. n # g \/ q # r
      BY <1>1, <1>2, <3>1 DEF IInv, Unique
    <3> QED
      BY <1>4, <1>5, <2>1, <3>1, <3>2 DEF IInv, NotYetRun
  <2>2. ASSUME NEW c \in Client, Putting(c), client[c].gen = generation[client[c].id]
        PROVE  ran'[client[c].id] < client[c].gen
    <3>1. PICK q \in Process, n \in Nat : client[c].id = q /\ client[c].gen = n
      BY <2>2 DEF IInv, Waiters, Knows, Putting, TypeOK, ClientState
    <3>2. n # g \/ q # r
      BY <1>1, <1>2, <2>2, <3>1 DEF IInv, Unique, ItemOf
    <3> QED
      BY <1>4, <1>5, <2>2, <3>1, <3>2 DEF IInv, NotYetRun
  <2> QED
    BY <1>3, <2>1, <2>2 DEF NotYetRun, Putting
<1>11. NobodyForgotten'
  BY <1>1, <1>3 DEF IInv, NobodyForgotten, Registered, Fired, Underway, ItemOf
<1> QED
  BY <1>6, <1>7, <1>8, <1>9, <1>10, <1>11 DEF IInv

\* The Event that is set is the one of the generation just answered.
LEMMA FinishStep ==
  ASSUME IInv, Finish
  PROVE  IInv'
<1>1. PICK it \in Item : it = worker.item
  BY DEF Finish, IInv, Items
<1>2. PICK r \in Process, g \in Nat : it = <<r, g>>
  BY <1>1 DEF Item
<1>3. /\ ran[r] = g /\ event[r] \in Nat
      /\ \A q \in Process : event[q] \in Nat
  BY <1>1, <1>2 DEF Finish, IInv, AtWork, TypeOK
<1>4. /\ worker.at # "get" /\ worker' = [at |-> "get", item |-> NoItem]
      /\ UNCHANGED <<generation, event, queue, started, client, ran>>
  BY DEF Finish
<1>5. CASE ~Latest(worker.item)
  <2>1. Counters' /\ fired' = fired /\ \A q \in Process : Fired(q) => Fired(q)'
    BY <1>4, <1>5 DEF Finish, IInv, Counters, Fired, Wakes
  <2>2. \A q \in Process : worker.item # <<q, generation[q]>>
    BY <1>5 DEF Latest
  <2> QED
    BY <1>4, <2>1, <2>2, BackToQueue DEF IInv, TypeOK
<1>6. CASE Latest(worker.item)
  <2>1. fired' = fired \cup {<<r, event[r]>>} /\ generation[r] = g
    BY <1>1, <1>2, <1>6 DEF Finish, Wakes, Latest
  <2>2. Fired(r)' /\ \A q \in Process : Fired(q)' <=> Fired(q) \/ q = r
    BY <1>4, <2>1 DEF Fired
  <2>3. \A q \in Process, n \in Nat : <<q, n>> \in fired' => n <= event[q]
    BY <1>3, <2>1 DEF IInv, Counters
  <2>4. Counters'
    BY <1>3, <1>4, <2>1, <2>2, <2>3 DEF IInv, Counters
  <2>5. fired' \in SUBSET (Process \X Nat)
    BY <1>3, <2>1 DEF IInv, TypeOK
  <2>6. ASSUME NEW q \in Process, worker.item = <<q, generation[q]>>
        PROVE  Fired(q)'
    <3>1. PICK n : n = generation[q]
      OBVIOUS
    <3>2. <<r, g>> = <<q, n>>
      BY <1>1, <1>2, <2>6, <3>1
    <3>3. q = r
      BY <3>2
    <3> QED
      BY <2>2, <3>3
  <2> QED
    BY <1>4, <2>2, <2>4, <2>5, <2>6, BackToQueue
<1> QED
  BY <1>5, <1>6

-----------------------------------------------------------------------------
(* The theorems.                                                           *)

\* Every step keeps the invariant.
LEMMA StepInv == IInv /\ [Next]_vars => IInv'
<1> SUFFICES ASSUME IInv, [Next]_vars PROVE IInv'
  OBVIOUS
<1>1. CASE Loop
  BY <1>1, GetStep, CheckStep, RunEndsStep, FinishStep DEF Loop
<1>2. ASSUME NEW c \in Client,
             \/ Put(c) \/ Waiting(c) \/ StartWaitAll(c)
             \/ \E p \in Process : Submit(c, p) \/ StartWait(c, p)
      PROVE  IInv'
  BY <1>2, PutStep, WaitingStep, StartStep, SubmitStep
<1>3. CASE UNCHANGED vars
  BY <1>3 DEF vars, IInv, TypeOK, Counters, Waiters, Knows, Items, Unique, NotYetRun, AtWork,
              NobodyForgotten, Registered, Fired, Underway, ItemOf, Putting, Latest
<1> QED
  BY <1>1, <1>2, <1>3 DEF Next

\* The invariant holds for any processes, request threads and submits.
THEOREM Invariance == Spec => []IInv
  BY InitInv, StepInv, PTL DEF Spec

\* The variables keep their shape.
THEOREM TypeCorrect == Spec => []TypeOK
  BY Invariance, PTL DEF IInv

\* An unset Event always has the item that will set it on its way.
THEOREM NobodyIsForgotten == Spec => []NobodyForgotten
  BY Invariance, PTL DEF IInv

\* Where wait returns, the latest submit was answered.
LEMMA ReturnIsAnswered ==
  ASSUME IInv, NEW c \in Client, client[c].id \in Process,
         event[client[c].id] = 0 \/ (client[c].at = "check" /\ Answered(c))
  PROVE  ran[client[c].id] = generation[client[c].id]
<1>1. PICK q \in Process : q = client[c].id
  OBVIOUS
<1>2. ran[q] \in Nat /\ generation[q] \in Nat
  BY DEF IInv, TypeOK
<1>3. CASE event[q] = 0
  BY <1>1, <1>2, <1>3 DEF IInv, Counters
<1>4. CASE client[c].at = "check" /\ Answered(c)
  <2>1. client[c].ev = event[q]
    BY <1>1, <1>4 DEF IInv, Waiters, Knows, Answered
  <2> QED
    BY <1>1, <1>4, <2>1 DEF IInv, Counters, Fired, Answered
<1> QED
  BY <1>1, <1>3, <1>4

\* The steps that take a thread out of the state it is in are its own.
LEMMA OthersStay ==
  ASSUME IInv, NEW c \in Client, [Next]_vars, client'[c] # client[c]
  PROVE  Put(c) \/ Waiting(c) \/ client[c].at = "idle"
<1>1. CASE Loop
  BY <1>1 DEF Loop, Get, Check, RunEnds, Finish
<1>2. ASSUME NEW d \in Client, d # c, Put(d) \/ Waiting(d) \/ StartWaitAll(d)
      PROVE  FALSE
  BY <1>2 DEF IInv, TypeOK, Put, Waiting, StartWaitAll, WaitRead, WaitWoken, WaitCheck,
              WaitAllScan, WaitAllNext, WaitAllCheck, Return
<1>3. ASSUME NEW d \in Client, d # c, NEW p \in Process, Submit(d, p) \/ StartWait(d, p)
      PROVE  FALSE
  BY <1>3 DEF IInv, TypeOK, Submit, StartWait
<1>4. CASE UNCHANGED vars
  BY <1>4 DEF vars
<1> QED
  BY <1>1, <1>2, <1>3, <1>4 DEF Next, Submit, StartWait, StartWaitAll

\* wait() never returns on an Event of an earlier submit.
THEOREM WaitSeesLatestRun == Spec => WaitMeansRun
<1>1. IInv /\ [Next]_vars
        => [\A c \in Client :
              client[c].at \in {"read", "check"} /\ client'[c].at \in {"idle", "next"}
                => ran[client[c].id] = generation[client[c].id]]_vars
  <2> SUFFICES ASSUME IInv, [Next]_vars, NEW c \in Client,
                      client[c].at \in {"read", "check"}, client'[c].at \in {"idle", "next"}
               PROVE  ran[client[c].id] = generation[client[c].id]
    OBVIOUS
  <2>1. client[c].id \in Process /\ client'[c] # client[c]
    BY DEF IInv, Waiters, Knows
  <2>2. Waiting(c)
    BY <2>1, OthersStay DEF Put
  <2>3. CASE WaitRead(c)
    <3> DEFINE p == client[c].id
               x == [client[c] EXCEPT !.at = "blocked", !.gen = generation[p], !.ev = event[p]]
    <3>1. event[p] = 0
      <4>1. client[c] \in ClientState /\ generation[p] \in Nat /\ event[p] \in Nat
        BY <2>1 DEF IInv, TypeOK
      <4>2. x \in ClientState /\ x.at = "blocked"
        BY <4>1 DEF ClientState
      <4>3. event[p] = 0 \/ client' = [client EXCEPT ![c] = x]
        BY <2>3 DEF WaitRead
      <4> HIDE DEF x
      <4> QED
        BY <4>2, <4>3 DEF IInv, TypeOK
    <3> QED
      BY <2>1, <3>1, ReturnIsAnswered
  <2>4. CASE WaitCheck(c)
    <3>1. client[c].at = "check" /\ Answered(c)
      BY <2>4 DEF WaitCheck, IInv, TypeOK, ClientState
    <3> QED
      BY <2>1, <3>1, ReturnIsAnswered
  <2> QED
    BY <2>2, <2>3, <2>4 DEF Waiting, WaitWoken, WaitAllScan, WaitAllNext, WaitAllCheck
<1> QED
  BY <1>1, Invariance, PTL DEF Spec, WaitMeansRun

\* wait_all() returns only when every submitted process has its run.
THEOREM WaitAllSeesEveryRun == Spec => WaitAllMeansIdle
<1>1. IInv /\ [Next]_vars
        => [\A c \in Client :
              client[c].at \in {"scan", "next"} /\ client'[c].at = "idle"
                => \A p \in Process : ran[p] = generation[p]]_vars
  <2> SUFFICES ASSUME IInv, [Next]_vars, NEW c \in Client,
                      client[c].at \in {"scan", "next"}, client'[c].at = "idle"
               PROVE  \A p \in Process : ran[p] = generation[p]
    OBVIOUS
  <2>1. Waiting(c)
    BY OthersStay DEF Put
  <2>2. AllIdle
    <3>1. CASE WaitAllScan(c)
      BY <3>1 DEF WaitAllScan, IInv, TypeOK, ClientState
    <3>2. ~WaitAllNext(c)
      BY DEF WaitAllNext, IInv, TypeOK, ClientState
    <3>3. CASE WaitAllCheck(c)
      BY <3>3 DEF WaitAllCheck, StillIdle, IInv, TypeOK, ClientState
    <3> QED
      BY <2>1, <3>1, <3>2, <3>3 DEF Waiting, WaitRead, WaitWoken, WaitCheck
  <2>3. ASSUME NEW p \in Process PROVE ran[p] = generation[p]
    <3>1. ran[p] \in Nat /\ generation[p] \in Nat
      BY DEF IInv, TypeOK
    <3> QED
      BY <2>2, <3>1 DEF AllIdle, Registered, IInv, Counters
  <2> QED
    BY <2>3
<1> QED
  BY <1>1, Invariance, PTL DEF Spec, WaitAllMeansIdle

\* One run at a time, each for the latest submit, none repeated.
THEOREM Refinement == Spec => ImplementsRunService
<1> USE DEF Service!Init, Service!Next, Service!vars, Service!Request, Service!Begin,
            Service!End, Running
<1>1. Init => Service!Init
  BY DEF Init
<1>2. IInv /\ [Next]_vars => [Service!Next]_Service!vars
  <2> SUFFICES ASSUME IInv, [Next]_vars PROVE [Service!Next]_Service!vars
    OBVIOUS
  <2>1. CASE UNCHANGED vars
    BY <2>1 DEF vars
  <2>2. CASE \E c \in Client : Put(c) \/ Waiting(c) \/ StartWaitAll(c)
                                 \/ \E p \in Process : StartWait(c, p)
    <3>1. UNCHANGED <<generation, worker, ran>>
      BY <2>2 DEF Put, Waiting, StartWaitAll, StartWait, Shared, WaitRead, WaitWoken,
                  WaitCheck, WaitAllScan, WaitAllNext, WaitAllCheck
    <3> QED
      BY <3>1
  <2>3. ASSUME NEW c \in Client, NEW p \in Process, Submit(c, p)
        PROVE  Service!Next
    BY <2>3 DEF Submit
  <2>4. CASE Get \/ Finish
    BY <2>4 DEF Get, Finish
  <2>5. CASE Check /\ ~Latest(worker.item)
    BY <2>5 DEF Check
  <2>6. CASE Check /\ Latest(worker.item)
    <3>1. PICK p \in Process, g \in Nat : worker.item = <<p, g>>
      BY <2>6 DEF Check, IInv, Items, Item
    <3>2. /\ worker.at = "check" /\ worker'.at = "run" /\ worker'.item = worker.item
          /\ UNCHANGED <<generation, ran>>
      BY <2>6 DEF Check, IInv, TypeOK
    <3>3. generation[p] = g /\ ran[p] < g
      BY <2>6, <3>1, <3>2 DEF Latest, IInv, NotYetRun
    <3>4. Service!Begin(p)
      BY <3>1, <3>2, <3>3
    <3> QED
      BY <3>4
  <2>7. CASE RunEnds
    <3>1. PICK p \in Process, g \in Nat : worker.item = <<p, g>>
      BY <2>7 DEF RunEnds, IInv, Items, Item
    <3>2. /\ worker.at = "run" /\ worker'.at = "finish"
          /\ ran' = [ran EXCEPT ![p] = g] /\ UNCHANGED generation
      BY <2>7, <3>1 DEF RunEnds, IInv, TypeOK
    <3>3. Service!End
      BY <3>1, <3>2, WorkerAssumption
    <3> QED
      BY <3>3
  <2> QED
    BY <2>1, <2>2, <2>3, <2>4, <2>5, <2>6, <2>7 DEF Next, Loop
<1> QED
  BY <1>1, <1>2, Invariance, PTL DEF Spec, ImplementsRunService, Service!Spec

=============================================================================
