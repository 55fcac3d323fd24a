----------------------------- MODULE Protocols -----------------------------
(***************************************************************************)
(* Finalization: how the cards of a process become a numbered protocol     *)
(* (application/runtime.py finalize and unfinalize, infrastructure/db/     *)
(* process_store.py materialize_finalized).                                *)
(*                                                                         *)
(* Requests are threads of one API server that share the record of a       *)
(* process in memory without a lock.  Every call to the store is a         *)
(* connection of its own, so the version is asked for in one transaction   *)
(* and used in another.  A record and a row are reduced to what decides    *)
(* here: state, current protocol, and a digest of the cards.  All states   *)
(* before COMPLETED count as COMPLETED with cards that still change.       *)
(* Definitions named Faulty... are bugs that could be introduced there; no *)
(* specification uses them.                                                *)
(***************************************************************************)
EXTENDS Naturals, FiniteSets

CONSTANTS
  Object,       \* building objects
  Process,      \* processes, several of an object
  ObjectOf,     \* the object of a process
  Content,      \* digests of the cards of a process
  Client,       \* requests that may run at the same time
  NoProtocol,   \* protocol_id is None
  MaxVersion,   \* bound: versions of an object
  MaxRequest    \* bound: requests in a behaviour

ASSUME ProtocolsAssumption ==
  /\ ObjectOf \in [Process -> Object]
  /\ Process # {} /\ Content # {}
  /\ MaxVersion \in Nat /\ MaxRequest \in Nat
  /\ NoProtocol \notin Process \X (Nat \ {0})

VARIABLES
  memory,     \* the record of a process: state, protocol_id
  cards,      \* digest of the cards of a process
  table,      \* table processes: state, protocol_id
  protocols,  \* table protocols
  outbox,     \* table integration_outbox: the payload each row announces
  request,    \* of a client: where its request is
  answered,   \* protocols a finalize request was answered with
  disturbed,  \* processes whose memory and row nobody promises to agree
  requests    \* requests so far

stored == <<table, protocols, outbox>>
vars == <<memory, cards, table, protocols, outbox, request, answered,
          disturbed, requests>>

Versions(o) == {r.version : r \in {q \in protocols : q.object = o}}

\* protocol_identity: "protocol-<p>" and "protocol-<p>-v<n>" name one pair each.
Identity(p, v) == <<p, v>>
ProtocolId == Process \X (Nat \ {0})

State == {"COMPLETED", "FINALIZED"}
Record == [state: State, protocol: ProtocolId \cup {NoProtocol}]
Row == [object: Object, process: Process, version: Nat \ {0}, content: Content]

Phase == {"idle", "check", "assign", "number", "assemble", "snapshot",
          "commit", "undo", "persist", "write"}
Request == [phase: Phase, process: Process, before: Record, snapshot: Record,
            version: Nat, content: Content, status: State]

Blank == [state |-> "COMPLETED", protocol |-> NoProtocol]
Idle == [phase |-> "idle", process |-> CHOOSE p \in Process : TRUE,
         before |-> Blank, snapshot |-> Blank, version |-> 0,
         content |-> CHOOSE x \in Content : TRUE, status |-> "COMPLETED"]

Init ==
  /\ memory = [p \in Process |-> Blank]
  /\ cards \in [Process -> Content]
  /\ table = [p \in Process |-> Blank]
  /\ protocols = {} /\ outbox = {}
  /\ request = [c \in Client |-> Idle]
  /\ answered = {} /\ disturbed = {} /\ requests = 0

-----------------------------------------------------------------------------
Busy(p) == \E c \in Client : request[c].phase # "idle" /\ request[c].process = p

\* A new request; two at a time on one process share its record.
Begin(c, p, phase) ==
  /\ request[c].phase = "idle" /\ requests < MaxRequest
  /\ requests' = requests + 1
  /\ request' = [request EXCEPT ![c] =
       [Idle EXCEPT !.phase = phase, !.process = p, !.before = memory[p]]]
  /\ disturbed' = IF Busy(p) THEN disturbed \cup {p} ELSE disturbed

Go(c, phase) == request' = [request EXCEPT ![c].phase = phase]
End(c) == request' = [request EXCEPT ![c] = Idle]

(* finalize *)

\* What a failure puts back is read first.
StartFinalize(c, p) ==
  /\ Begin(c, p, "check")
  /\ UNCHANGED <<memory, cards, stored, answered>>

\* finalize_process: only COMPLETED is finalized.  Its audit write may fail.
Check(c) ==
  LET r == request[c] IN
  /\ r.phase = "check"
  /\ \/ memory[r.process].state = "COMPLETED" /\ Go(c, "assign")
     \/ Go(c, "undo")
  /\ UNCHANGED <<memory, cards, stored, answered, disturbed, requests>>

Assign(c) ==
  LET r == request[c] IN
  /\ r.phase = "assign"
  /\ memory' = [memory EXCEPT ![r.process].state = "FINALIZED"]
  /\ Go(c, "number")
  /\ UNCHANGED <<cards, stored, answered, disturbed, requests>>

\* SELECT MAX(version) + 1
IsNext(o, v) ==
  /\ v - 1 \in Versions(o) \cup {0}
  /\ \A w \in Versions(o) : w < v

Number(c, v) ==
  LET r == request[c] IN
  /\ r.phase = "number" /\ IsNext(ObjectOf[r.process], v)
  /\ request' = [request EXCEPT ![c].phase = "assemble", ![c].version = v]
  /\ UNCHANGED <<memory, cards, stored, answered, disturbed, requests>>

\* The payload says what memory says now; the identity goes into the record.
Assemble(c) ==
  LET r == request[c] IN
  /\ r.phase = "assemble"
  /\ memory' = [memory EXCEPT ![r.process].protocol =
                  Identity(r.process, r.version)]
  /\ request' = [request EXCEPT ![c].phase = "snapshot",
                   ![c].content = cards[r.process],
                   ![c].status = memory[r.process].state]
  /\ UNCHANGED <<cards, stored, answered, disturbed, requests>>

TakeSnapshot(c, next) ==
  /\ request' = [request EXCEPT ![c].phase = next,
                   ![c].snapshot = memory[request[c].process]]
  /\ UNCHANGED <<memory, cards, stored, answered, disturbed, requests>>

Snapshot(c) == request[c].phase = "snapshot" /\ TakeSnapshot(c, "commit")

\* validate_snapshot and _reject_unsafe_protocol_payload
Safe(r) ==
  /\ r.snapshot.state = "FINALIZED" /\ r.status = "FINALIZED"
  /\ r.snapshot.protocol = Identity(r.process, r.version)

RowOf(r) == [object |-> ObjectOf[r.process], process |-> r.process,
             version |-> r.version, content |-> r.content]

\* INSERT ... ON CONFLICT (id) DO NOTHING under the lock of the object: the
\* same protocol again must say the same, UNIQUE(object, version) refuses
\* the protocol of another process.
FaultyInsertable(r) ==   \* a row with that id is taken for the same protocol
  \A q \in protocols :
    q.object = ObjectOf[r.process] /\ q.version = r.version
      => q.process = r.process
FaultyUnique(r) ==       \* no UNIQUE(object_id, version)
  \A q \in protocols :
    q.process = r.process /\ q.version = r.version => q = RowOf(r)
Insertable(r) ==
  \A q \in protocols :
    q.object = ObjectOf[r.process] /\ q.version = r.version => q = RowOf(r)

Inserted(r) ==
  {q \in {RowOf(r)} :
     ~ \E s \in protocols : s.process = q.process /\ s.version = q.version}

\* _write_process and the outbox row (ON CONFLICT DO NOTHING) go with it.
Store(r) ==
  /\ protocols' = protocols \cup Inserted(r)
  /\ outbox' = outbox \cup Inserted(r)
  /\ table' = [table EXCEPT ![r.process] = r.snapshot]

Commit(c) ==
  LET r == request[c] IN
  /\ r.phase = "commit" /\ Safe(r) /\ Insertable(r)
  /\ Store(r) /\ End(c)
  /\ answered' = answered \cup {RowOf(r)}
  /\ UNCHANGED <<memory, cards, disturbed, requests>>

\* The commit arrives, its confirmation does not.
CommitInDoubt(c) ==
  LET r == request[c] IN
  /\ r.phase = "commit" /\ Safe(r) /\ Insertable(r)
  /\ Store(r) /\ Go(c, "undo")
  /\ disturbed' = disturbed \cup {r.process}
  /\ UNCHANGED <<memory, cards, answered, requests>>

\* Refused (unsafe, ProtocolConflictError) or failed: rolled back.
Rollback(c) ==
  /\ request[c].phase = "commit"
  /\ Go(c, "undo")
  /\ UNCHANGED <<memory, cards, stored, answered, disturbed, requests>>

\* except Exception: put back what this call found.
FaultyPutBack(p, r) == [memory[p] EXCEPT !.state = r.before.state]   \* the id stays
PutBack(p, r) == r.before

Undo(c) ==
  LET r == request[c] IN
  /\ r.phase = "undo"
  /\ memory' = [memory EXCEPT ![r.process] = PutBack(r.process, r)]
  /\ End(c)
  /\ UNCHANGED <<cards, stored, answered, disturbed, requests>>

-----------------------------------------------------------------------------
(* Everything else that writes the row.                                    *)

\* unfinalize with a reason, before any export was requested
Unfinalize(c, p) ==
  /\ memory[p].state = "FINALIZED"
  /\ Begin(c, p, "persist")
  /\ memory' = [memory EXCEPT ![p] = Blank]
  /\ UNCHANGED <<cards, stored, answered>>

\* A review, an upload with its run: the cards change, the row is saved.
Change(c, p, x) ==
  /\ memory[p].state # "FINALIZED"
  /\ Begin(c, p, "persist")
  /\ cards' = [cards EXCEPT ![p] = x]
  /\ UNCHANGED <<memory, stored, answered>>

Persist(c) == request[c].phase = "persist" /\ TakeSnapshot(c, "write")

\* save refuses FINALIZED: that row comes from materialize_finalized only.
FaultySaveable(s) == s.state = "FINALIZED" => s.protocol # NoProtocol
Saveable(s) == s.state # "FINALIZED"

Write(c) ==
  LET r == request[c] IN
  /\ r.phase = "write" /\ Saveable(r.snapshot)
  /\ table' = [table EXCEPT ![r.process] = r.snapshot]
  /\ End(c)
  /\ UNCHANGED <<memory, cards, protocols, outbox, answered, disturbed, requests>>

WriteFails(c) ==
  /\ request[c].phase = "write"
  /\ End(c)
  /\ disturbed' = disturbed \cup {request[c].process}
  /\ UNCHANGED <<memory, cards, stored, answered, requests>>

\* The server restarts: requests are gone, records come back from the table.
Restart ==
  /\ \E c \in Client : request[c].phase # "idle"
  /\ memory' = table
  /\ request' = [c \in Client |-> Idle]
  /\ disturbed' = {}
  /\ UNCHANGED <<cards, stored, answered, requests>>

FinalizeStep(c) ==
  \/ Check(c) \/ Assign(c) \/ Assemble(c) \/ Snapshot(c)
  \/ \E v \in 1..MaxVersion : Number(c, v)
  \/ Commit(c) \/ CommitInDoubt(c) \/ Rollback(c) \/ Undo(c)

OtherStep(c) == Persist(c) \/ Write(c) \/ WriteFails(c)

Next ==
  \/ \E c \in Client, p \in Process :
       StartFinalize(c, p) \/ Unfinalize(c, p) \/ \E x \in Content : Change(c, p, x)
  \/ \E c \in Client : FinalizeStep(c) \/ OtherStep(c)
  \/ Restart

Spec == Init /\ [][Next]_vars

-----------------------------------------------------------------------------
TypeOK ==
  /\ memory \in [Process -> Record] /\ table \in [Process -> Record]
  /\ cards \in [Process -> Content]
  /\ protocols \subseteq Row /\ outbox \subseteq Row /\ answered \subseteq Row
  /\ request \in [Client -> Request]
  /\ disturbed \subseteq Process /\ requests \in Nat

\* The protocols of an object form an append-only series 1, 2, 3 ..., although
\* the number is read in one transaction and used in another
\* (next_protocol_version, materialize_finalized).
Series == INSTANCE ProtocolVersions WITH published <- protocols
ImplementsProtocolVersions == Series!Spec

\* What finalize answered is stored for good, with the cards it was answered
\* for, and its outbox row announces exactly that payload.
AnsweredIsStored == answered \subseteq protocols /\ outbox = protocols

\* A row of processes that says FINALIZED names a protocol of that process
\* that was materialized, whatever overlapped, failed or restarted.
FinalizedHasProtocol ==
  \A p \in Process : table[p].state = "FINALIZED" =>
    \E q \in protocols :
      q.process = p /\ table[p].protocol = Identity(q.process, q.version)

\* A finalization that loses the race for the number, is refused or fails is
\* undone completely: with no request on it, a process is in memory what its
\* row says, unless two requests shared its record or a write went wrong.
RefusedIsUndone ==
  \A p \in Process \ disturbed : Busy(p) \/ memory[p] = table[p]

=============================================================================
