--------------------------- MODULE PipelineWorker ---------------------------
(***************************************************************************)
(* The thread that runs the comparison pipeline                            *)
(* (application/pipeline_worker.py): request threads submit processes and  *)
(* wait for their runs, one daemon thread takes them from a FIFO queue.    *)
(*                                                                         *)
(* A step is one `with self._lock' section, one queue operation, one wake  *)
(* up from an Event or the end of a run.  Between two of them any other    *)
(* thread may act; in particular submit() puts its item after the lock is  *)
(* released, so items may enter the queue out of order.                    *)
(*                                                                         *)
(* The Event objects registered for a process are numbered; 0 is none.     *)
(* Whether a run succeeds or raises, its end is the same here.             *)
(* Definitions named Faulty... are bugs that could be introduced there; no *)
(* specification uses them.                                                *)
(***************************************************************************)
EXTENDS Naturals, Sequences

CONSTANTS
  Process,    \* process ids
  Client,     \* request threads
  NoProcess,  \* no process id
  MaxSubmit   \* bound: submits of a process

ASSUME WorkerAssumption == MaxSubmit \in Nat /\ NoProcess \notin Process

VARIABLES
  generation,  \* _generation: submits of a process so far
  event,       \* _pending: the Event object registered for a process
  fired,       \* the Event objects that are set
  queue,       \* _queue: items <<process id, generation>>
  started,     \* the loop thread exists
  worker,      \* where the loop thread is, with its item
  client,      \* where each request thread is, with its local variables
  ran          \* generation answered by the last run of a process that ended

vars == <<generation, event, fired, queue, started, worker, client, ran>>

Item == Process \X Nat
NoItem == <<NoProcess, 0>>

\* at: submit's "put"; wait's "read", "blocked", "check"; wait_all's "scan",
\* "next".  In wait_all, todo are the ids left to wait for, seen the
\* generations of its scan.
ClientState ==
  [at: {"idle", "put", "read", "blocked", "check", "scan", "next"},
   id: Process \cup {NoProcess}, gen: Nat, ev: Nat,
   all: BOOLEAN, todo: SUBSET Process, seen: [Process -> Nat]]

Unseen == [p \in Process |-> 0]
IdleClient == [at |-> "idle", id |-> NoProcess, gen |-> 0, ev |-> 0,
               all |-> FALSE, todo |-> {}, seen |-> Unseen]

Init ==
  /\ generation = [p \in Process |-> 0]
  /\ event = [p \in Process |-> 0]
  /\ fired = {}
  /\ queue = <<>>
  /\ started = FALSE
  /\ worker = [at |-> "get", item |-> NoItem]
  /\ client = [c \in Client |-> IdleClient]
  /\ ran = [p \in Process |-> 0]

Fired(p) == <<p, event[p]>> \in fired
Registered == {p \in Process : event[p] # 0}

-----------------------------------------------------------------------------
(* submit                                                                  *)

\* A process with an unset Event keeps it, so that one run wakes everybody.
FaultyEventFor(p) == event[p] + 1        \* a new Event for every submit
EventFor(p) == IF event[p] = 0 \/ Fired(p) THEN event[p] + 1 ELSE event[p]

Submit(c, p) ==
  /\ client[c].at = "idle"
  /\ generation[p] < MaxSubmit
  /\ event' = [event EXCEPT ![p] = EventFor(p)]
  /\ generation' = [generation EXCEPT ![p] = @ + 1]
  /\ started' = TRUE   \* _ensure_thread
  /\ client' = [client EXCEPT ![c] = [IdleClient EXCEPT !.at = "put", !.id = p,
                                        !.gen = generation[p] + 1]]
  /\ UNCHANGED <<fired, queue, worker, ran>>

FaultyItemOf(c) == <<client[c].gen, client[c].id>>   \* swapped
ItemOf(c) == <<client[c].id, client[c].gen>>

FaultyPut(c) ==   \* a process already queued is not put again
  /\ client[c].at = "put"
  /\ queue' = IF \E i \in 1..Len(queue) : queue[i][1] = client[c].id
              THEN queue ELSE Append(queue, ItemOf(c))
  /\ client' = [client EXCEPT ![c] = IdleClient]
  /\ UNCHANGED <<generation, event, fired, started, worker, ran>>
Put(c) ==
  /\ client[c].at = "put"
  /\ queue' = Append(queue, ItemOf(c))
  /\ client' = [client EXCEPT ![c] = IdleClient]
  /\ UNCHANGED <<generation, event, fired, started, worker, ran>>

-----------------------------------------------------------------------------
(* wait and wait_all                                                       *)

Shared == <<generation, event, fired, queue, started, worker, ran>>

StartWait(c, p) ==
  /\ client[c].at = "idle"
  /\ client' = [client EXCEPT ![c] = [IdleClient EXCEPT !.at = "read", !.id = p]]
  /\ UNCHANGED Shared

StartWaitAll(c) ==
  /\ client[c].at = "idle"
  /\ client' = [client EXCEPT ![c] = [IdleClient EXCEPT !.at = "scan", !.all = TRUE]]
  /\ UNCHANGED Shared

\* wait returns, to the request or to the loop of wait_all.
Return(c) ==
  client' = [client EXCEPT ![c] =
    IF client[c].all
    THEN [client[c] EXCEPT !.at = "next", !.id = NoProcess, !.gen = 0, !.ev = 0]
    ELSE IdleClient]

WaitRead(c) ==
  LET p == client[c].id IN
  /\ client[c].at = "read"
  /\ IF event[p] = 0
     THEN Return(c)
     ELSE client' = [client EXCEPT ![c] = [client[c] EXCEPT !.at = "blocked",
                                             !.gen = generation[p], !.ev = event[p]]]
  /\ UNCHANGED Shared

WaitWoken(c) ==
  /\ client[c].at = "blocked"
  /\ <<client[c].id, client[c].ev>> \in fired
  /\ client' = [client EXCEPT ![c] = [client[c] EXCEPT !.at = "check"]]
  /\ UNCHANGED Shared

\* The event a thread waited for answers the generation it read only if
\* nothing was submitted in between.
FaultyAnswered(c) == <<client[c].id, client[c].ev>> \in fired
Answered(c) ==
  /\ generation[client[c].id] = client[c].gen
  /\ <<client[c].id, client[c].ev>> \in fired

WaitCheck(c) ==
  /\ client[c].at = "check"
  /\ IF Answered(c) THEN Return(c)
     ELSE client' = [client EXCEPT ![c] = [client[c] EXCEPT !.at = "read"]]
  /\ UNCHANGED Shared

AllIdle == \A p \in Registered : Fired(p)

WaitAllScan(c) ==
  /\ client[c].at = "scan"
  /\ client' = [client EXCEPT ![c] =
       IF AllIdle THEN IdleClient
       ELSE [client[c] EXCEPT !.at = "next", !.todo = Registered,
                              !.seen = generation]]
  /\ UNCHANGED Shared

\* The next id to wait for, in whatever order the dict has.
WaitAllNext(c) ==
  /\ client[c].at = "next"
  /\ \E p \in client[c].todo :
       client' = [client EXCEPT ![c] = [client[c] EXCEPT !.at = "read", !.id = p,
                                          !.todo = client[c].todo \ {p}]]
  /\ UNCHANGED Shared

StillIdle(c) == AllIdle /\ generation = client[c].seen

WaitAllCheck(c) ==
  /\ client[c].at = "next" /\ client[c].todo = {}
  /\ client' = [client EXCEPT ![c] =
       IF StillIdle(c) THEN IdleClient ELSE [client[c] EXCEPT !.at = "scan"]]
  /\ UNCHANGED Shared

-----------------------------------------------------------------------------
(* _loop and _finish                                                       *)

Get ==
  /\ started /\ worker.at = "get"
  /\ queue # <<>>
  /\ worker' = [at |-> "check", item |-> Head(queue)]
  /\ queue' = Tail(queue)
  /\ UNCHANGED <<generation, event, fired, started, client, ran>>

\* An item superseded by a later submit is dropped.
FaultyLatest(item) == item # NoItem
Latest(item) == generation[item[1]] = item[2]

Check ==
  /\ worker.at = "check"
  /\ worker' = IF Latest(worker.item) THEN [worker EXCEPT !.at = "run"]
               ELSE [at |-> "get", item |-> NoItem]
  /\ UNCHANGED <<generation, event, fired, queue, started, client, ran>>

\* self._run returned or raised.
RunEnds ==
  /\ worker.at = "run"
  /\ worker' = [worker EXCEPT !.at = "finish"]
  /\ ran' = [ran EXCEPT ![worker.item[1]] = worker.item[2]]
  /\ UNCHANGED <<generation, event, fired, queue, started, client>>

\* A run superseded while it was in progress wakes nobody.
FaultyWakes(item) == TRUE   \* sets the Event whatever was submitted since
Wakes(item) == Latest(item)

Finish ==
  LET p == worker.item[1] IN
  /\ worker.at = "finish"
  /\ fired' = IF Wakes(worker.item) THEN fired \cup {<<p, event[p]>>} ELSE fired
  /\ worker' = [at |-> "get", item |-> NoItem]
  /\ UNCHANGED <<generation, event, queue, started, client, ran>>

-----------------------------------------------------------------------------
Waiting(c) == WaitRead(c) \/ WaitWoken(c) \/ WaitCheck(c) \/ WaitAllScan(c)
                \/ WaitAllNext(c) \/ WaitAllCheck(c)
Loop == Get \/ Check \/ RunEnds \/ Finish

Next ==
  \/ Loop
  \/ \E c \in Client :
       \/ Put(c) \/ Waiting(c) \/ StartWaitAll(c)
       \/ \E p \in Process : Submit(c, p) \/ StartWait(c, p)

Spec == Init /\ [][Next]_vars

\* Threads are scheduled and runs end.  Nobody has to submit or wait.
Fairness ==
  /\ WF_vars(Loop)
  /\ \A c \in Client : WF_vars(Put(c)) /\ WF_vars(Waiting(c))

FairSpec == Spec /\ Fairness

-----------------------------------------------------------------------------
(* Safety.                                                                 *)

\* Shape of the variables.
TypeOK ==
  /\ generation \in [Process -> Nat]
  /\ event \in [Process -> Nat]
  /\ fired \subseteq Process \X Nat
  /\ queue \in Seq(Item)
  /\ started \in BOOLEAN
  /\ worker \in [at: {"get", "check", "run", "finish"}, item: Item \cup {NoItem}]
  /\ client \in [Client -> ClientState]
  /\ ran \in [Process -> Nat]

\* Where the item of a submit can be until the loop drops or finishes it.
Underway(item) ==
  \/ \E c \in Client : client[c].at = "put" /\ ItemOf(c) = item
  \/ \E i \in 1..Len(queue) : queue[i] = item
  \/ worker.item = item

\* Nobody waits for an Event that no step will set: as long as the Event of a
\* process is unset, the item of its latest submit is on its way, whatever the
\* order in which the items were put.
NobodyForgotten ==
  \A p \in Registered : Fired(p) \/ Underway(<<p, generation[p]>>)

\* A reader that waited sees the result of a run that began after the last
\* submit: wait() never returns on an Event of an earlier submit, nor while a
\* superseded run is all that ended (ProcessWorkspace.get relies on it).
WaitMeansRun ==
  [][\A c \in Client :
       client[c].at \in {"read", "check"} /\ client'[c].at \in {"idle", "next"}
         => ran[client[c].id] = generation[client[c].id]]_vars

\* wait_all() returns at a moment when no submitted process is without its run,
\* although it looked at them one after the other.
WaitAllMeansIdle ==
  [][\A c \in Client :
       client[c].at \in {"scan", "next"} /\ client'[c].at = "idle"
         => \A p \in Process : ran[p] = generation[p]]_vars

-----------------------------------------------------------------------------
(* The abstract specification.                                             *)

Running == worker.at = "run"

Service == INSTANCE RunService WITH
  requested <- generation, covered <- ran,
  current <- IF Running THEN worker.item[1] ELSE NoProcess,
  upTo <- IF Running THEN worker.item[2] ELSE 0

\* Stale and reordered items start nothing: a run answers the latest submit of
\* its process, and no submit is run twice.
ImplementsRunService == Service!Spec

-----------------------------------------------------------------------------
(* Liveness.                                                               *)

\* No submit is lost by the coalescing: a run that answers it, or a later
\* submit of the same process, ends.
EverySubmitIsRun ==
  \A p \in Process : \A g \in 1..MaxSubmit :
    (generation[p] >= g) ~> (ran[p] >= g)

\* Every thread that waits is released, once submits stop coming.
WaitersReturn ==
  \A c \in Client : (client[c].at # "idle") ~> (client[c].at = "idle")

=============================================================================
