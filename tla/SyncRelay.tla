----------------------------- MODULE SyncRelay -----------------------------
(***************************************************************************)
(* The transactional outbox and its relay workers, together with the       *)
(* state of the API process that finalizes and unfinalizes protocols.      *)
(*                                                                         *)
(* Committed PostgreSQL state: `proc' (table processes), `outbox' (table   *)
(* integration_outbox), `versions' (table protocols) and `audit'           *)
(* (audit_log).  The API keeps its own copy of a process in memory (`mem', *)
(* a ProcessRecord of application/runtime.py) and checks requests against  *)
(* that copy only.  A relay cycle is one database transaction: what it     *)
(* writes is invisible until Commit, the row it claimed and the process it *)
(* updated stay locked, and the broker is called in the middle of it.      *)
(*                                                                         *)
(* Request handlers are atomic here.  Each process is the only one of its  *)
(* object, so protocol versions count per process.                         *)
(* Definitions named Faulty... are bugs one could introduce at that place  *)
(* of the code; no specification uses them.  Checking the properties with  *)
(* one of them in place of the definition below it shows that the property *)
(* notices the bug.                                                        *)
(***************************************************************************)
EXTENDS Naturals, FiniteSets, Statuses

CONSTANTS
  Process,      \* process ids
  Worker,       \* relay workers (scripts/relay_outbox.py), one or more
  MaxAttempts,  \* outbox.MAX_ATTEMPTS, 4 in the code
  Reopenable,   \* processes whose finalization an inspector may cancel
  Corrupt,      \* protocols whose stored payload lost its digest
  NotLoaded,    \* a process with no ProcessRecord in the API's memory
  MaxVersion,   \* bound: protocols finalized per process
  MaxCrash,     \* bound: relay transactions lost before their commit
  MaxRetry,     \* bound: manual retries
  MaxRequest,   \* bound: sync_attempts a record reaches by sync requests
  MaxRestart    \* bound: restarts of the API process

ASSUME AttemptsAssumption == MaxAttempts \in Nat \ {0}
ASSUME BoundsAssumption ==
  /\ MaxVersion \in Nat /\ MaxCrash \in Nat /\ MaxRetry \in Nat
  /\ MaxRequest \in Nat /\ MaxRestart \in Nat
  /\ Reopenable \subseteq Process /\ Corrupt \subseteq Process \X (1..MaxVersion)

VARIABLES
  proc,      \* processes: state, sync_state, sync_attempts, protocol_id
  outbox,    \* integration_outbox, one row per finalized protocol
  versions,  \* highest protocols.version of the process's object
  rows,      \* rows ever inserted into the outbox, the clock of created_at
  audit,     \* ids of the sync rows of audit_log
  mem,       \* the API's ProcessRecord of a process, or NotLoaded
  job,       \* the open transaction of each relay worker
  accepted,  \* copies of an event the broker has stored
  doubt,     \* publishes whose acceptance no committed transaction records
  crashes, retries, restarts   \* counters of the bounded events

db == <<proc, outbox, versions, rows, audit>>
relay == <<job, accepted, doubt>>
bounds == <<crashes, retries, restarts>>
vars == <<proc, outbox, versions, rows, audit, mem, job, accepted, doubt,
          crashes, retries, restarts>>

-----------------------------------------------------------------------------
(* Types.  Protocol <<p, v>> is version v of process p; version 0 of a     *)
(* process row is the SQL NULL of protocol_id.                             *)

Protocol == Process \X (1..MaxVersion)
NoProtocol == "none"

ProcRow == [state: {"COMPLETED", "FINALIZED"}, sync: SyncState,
            attempts: Nat, protocol: 0..MaxVersion]

OutboxRow == [status: OutboxStatus \cup {"ABSENT"}, attempts: 0..MaxAttempts,
              due: BOOLEAN, created: Nat]
NoRow == [status |-> "ABSENT", attempts |-> 0, due |-> FALSE, created |-> 0]

Phase == {"idle", "claimed", "syncing", "settled"}
Outcome == {"none", "DELIVERED", "PENDING", "FAILED_TERMINAL"}
Job == [phase: Phase, row: Protocol \cup {NoProtocol}, outcome: Outcome,
        stored: BOOLEAN]
Idle == [phase |-> "idle", row |-> NoProtocol, outcome |-> "none",
         stored |-> FALSE]

AuditId == {"SYNC_RETRY_EXHAUSTED", "SYNC_MANUAL_RETRY"} \X Protocol

Current(r) == proc[r[1]].state = "FINALIZED" /\ proc[r[1]].protocol = r[2]

-----------------------------------------------------------------------------
(* Locks.  A claimed row is locked FOR UPDATE; a process row is locked     *)
(* from the SYNCING update until the end of the transaction.               *)

FaultyRowLocked(r) == FALSE   \* claim without FOR UPDATE SKIP LOCKED
RowLocked(r) == \E w \in Worker : job[w].phase # "idle" /\ job[w].row = r
FaultyProcLocked(p) == FALSE  \* SYNCING committed in a transaction of its own
ProcLocked(p) == \E w \in Worker : /\ job[w].phase \in {"syncing", "settled"}
                                   /\ job[w].row[1] = p

Init ==
  /\ proc = [p \in Process |-> [state |-> "COMPLETED", sync |-> "NOT_REQUESTED",
                                attempts |-> 0, protocol |-> 0]]
  /\ outbox = [r \in Protocol |-> NoRow]
  /\ versions = [p \in Process |-> 0]
  /\ rows = 0
  /\ audit = {}
  /\ mem = proc
  /\ job = [w \in Worker |-> Idle]
  /\ accepted = [r \in Protocol |-> 0]
  /\ doubt = [r \in Protocol |-> 0]
  /\ crashes = 0 /\ retries = 0 /\ restarts = 0

-----------------------------------------------------------------------------
(* The API process.                                                        *)

\* runtime.finalize and materialize_finalized: the memory gate, then one
\* transaction that writes protocol, process and outbox row.  The snapshot
\* carries the record's own sync state.  The transaction waits for a relay
\* that holds the process row.
Finalize(p) ==
  /\ mem[p] # NotLoaded /\ mem[p].state = "COMPLETED"
  /\ ~ProcLocked(p)
  /\ versions[p] < MaxVersion
  /\ versions' = [versions EXCEPT ![p] = @ + 1]
  /\ mem' = [mem EXCEPT ![p].state = "FINALIZED", ![p].protocol = versions[p] + 1]
  /\ proc' = [proc EXCEPT ![p] = mem'[p]]
  /\ rows' = rows + 1
  /\ outbox' = [outbox EXCEPT ![<<p, versions[p] + 1>>] =
                  [status |-> "PENDING", attempts |-> 0, due |-> TRUE,
                   created |-> rows + 1]]
  /\ UNCHANGED <<audit, relay, bounds>>

FaultyCanUnfinalize(p) == mem[p].state = "FINALIZED"
CanUnfinalize(p) ==
  mem[p].sync = "NOT_REQUESTED" /\ mem[p].state = "FINALIZED"

\* runtime.unfinalize: the guard reads the record's sync state, the write
\* overwrites the one in the table.  protocols and the outbox stay.
Unfinalize(p) ==
  /\ p \in Reopenable
  /\ mem[p] # NotLoaded /\ CanUnfinalize(p)
  /\ ~ProcLocked(p)
  /\ mem' = [mem EXCEPT ![p].state = "COMPLETED", ![p].protocol = 0]
  /\ proc' = [proc EXCEPT ![p] = mem'[p]]
  /\ UNCHANGED <<outbox, versions, rows, audit, relay, bounds>>

\* retry_policy.next_sync_attempt: the state asked for after n attempts.
NextSyncState(n) == IF n > MaxAttempts - 1 THEN "PENDING_SYNC" ELSE "RETRY_WAIT"

\* runtime.request_sync: the record changes first, then save() refuses a
\* FINALIZED snapshot (process_store.py:804), so the table keeps its row.
RequestSync(p) ==
  /\ mem[p] # NotLoaded /\ mem[p].state = "FINALIZED"
  /\ mem[p].attempts < MaxRequest
  /\ mem' = IF mem[p].sync = "NOT_REQUESTED"
            THEN [mem EXCEPT ![p].sync = "PENDING_SYNC"]
            ELSE [mem EXCEPT ![p].attempts = mem[p].attempts + 1,
                             ![p].sync = NextSyncState(mem[p].attempts + 1)]
  /\ UNCHANGED <<db, relay, bounds>>

\* The process restarts with empty memory; a record is hydrated from the
\* table when a request first asks for it (runtime.get, _hydrate).
Restart ==
  /\ restarts < MaxRestart
  /\ restarts' = restarts + 1
  /\ mem' = [p \in Process |-> NotLoaded]
  /\ UNCHANGED <<db, relay, crashes, retries>>

Hydrate(p) ==
  /\ mem[p] = NotLoaded
  /\ mem' = [mem EXCEPT ![p] = proc[p]]
  /\ UNCHANGED <<db, relay, bounds>>

-----------------------------------------------------------------------------
(* A relay worker: outbox_worker.run_once around                           *)
(* sync_relay.relay_once_postgres_with_sync.                               *)

Claimable(r) ==
  /\ outbox[r].status \in {"PENDING", "DELIVERING"}
  /\ outbox[r].due
  /\ outbox[r].attempts < MaxAttempts
  /\ ~RowLocked(r)

\* CLAIM_OUTBOX_SQL: the oldest claimable row, rows locked by others skipped.
Claim(w) ==
  /\ job[w].phase = "idle"
  /\ \E r \in Protocol :
       /\ Claimable(r)
       /\ \A s \in Protocol : Claimable(s) => outbox[r].created <= outbox[s].created
       /\ job' = [job EXCEPT ![w] = [phase |-> "claimed", row |-> r,
                                     outcome |-> "none", stored |-> FALSE]]
  /\ UNCHANGED <<db, mem, accepted, doubt, bounds>>

\* record_sync_claimed: SYNCING on the process row, once its lock is free.
\* No row matches when the protocol is not the process's current one:
\* SyncLifecycleError, and the whole transaction rolls back.
MarkSyncing(w) ==
  LET r == job[w].row IN
  /\ job[w].phase = "claimed"
  /\ ~ProcLocked(r[1])
  /\ job' = IF Current(r) THEN [job EXCEPT ![w].phase = "syncing"]
            ELSE [job EXCEPT ![w] = Idle]
  /\ UNCHANGED <<db, mem, accepted, doubt, bounds>>

\* mark_postgres_failed: retry_delay gives up at the last attempt.
FaultyGivesUpEarly(r) ==
  IF outbox[r].attempts + 2 >= MaxAttempts THEN "FAILED_TERMINAL" ELSE "PENDING"
FaultyNeverGivesUp(r) ==
  IF outbox[r].attempts + 1 > MaxAttempts THEN "FAILED_TERMINAL" ELSE "PENDING"
FailureOutcome(r) ==
  IF outbox[r].attempts + 1 >= MaxAttempts THEN "FAILED_TERMINAL" ELSE "PENDING"

Settle(w, out, sent) ==
  LET r == job[w].row IN
  /\ job[w].phase = "syncing"
  /\ job' = [job EXCEPT ![w].phase = "settled", ![w].outcome = out,
                        ![w].stored = sent]
  /\ accepted' = IF sent THEN [accepted EXCEPT ![r] = @ + 1] ELSE accepted
  /\ UNCHANGED <<db, mem, doubt, bounds>>

\* Confirmed by the broker.
Publish(w) == job[w].row \notin Corrupt /\ Settle(w, "DELIVERED", TRUE)

\* PublishError: refused or unreachable, or (sent) stored by the broker
\* while the confirm never arrived.
PublishFails(w) ==
  /\ job[w].row \notin Corrupt
  /\ \E sent \in BOOLEAN : Settle(w, FailureOutcome(job[w].row), sent)

\* The stored payload does not have the digest of the outbox row: terminal
\* at once, nothing is published.
DigestMismatch(w) ==
  job[w].row \in Corrupt /\ Settle(w, "FAILED_TERMINAL", FALSE)

\* record_sync_outcome: the process state that mirrors an outbox status.
FaultySyncOf(status) == IF status = "DELIVERED" THEN "SYNCING" ELSE "RETRY_WAIT"
SyncOf(status) ==
  CASE status = "DELIVERED" -> "SYNCING"
    [] status = "PENDING" -> "RETRY_WAIT"
    [] status = "FAILED_TERMINAL" -> "PENDING_SYNC"

\* Commit: outbox row, process row and audit row become visible together.
Commit(w) ==
  LET r == job[w].row
      out == job[w].outcome
      n == outbox[r].attempts + 1
  IN
  /\ job[w].phase = "settled"
  /\ outbox' = [outbox EXCEPT ![r].status = out, ![r].attempts = n, ![r].due = FALSE]
  /\ proc' = [proc EXCEPT ![r[1]].sync = SyncOf(out), ![r[1]].attempts = n]
  /\ audit' = IF out = "FAILED_TERMINAL"
              THEN audit \cup {<<"SYNC_RETRY_EXHAUSTED", r>>} ELSE audit
  /\ doubt' = IF job[w].stored /\ out # "DELIVERED"
              THEN [doubt EXCEPT ![r] = @ + 1] ELSE doubt
  /\ job' = [job EXCEPT ![w] = Idle]
  /\ UNCHANGED <<versions, rows, mem, accepted, bounds>>

\* The worker, its connection or its commit fails: the transaction is gone,
\* the copy the broker may have stored is not.
Crash(w) ==
  /\ crashes < MaxCrash
  /\ job[w].phase # "idle"
  /\ crashes' = crashes + 1
  /\ doubt' = IF job[w].stored THEN [doubt EXCEPT ![job[w].row] = @ + 1]
              ELSE doubt
  /\ job' = [job EXCEPT ![w] = Idle]
  /\ UNCHANGED <<db, mem, accepted, retries, restarts>>

\* available_at of a row waiting for its retry is reached.
BackoffElapses(r) ==
  /\ outbox[r].status = "PENDING" /\ ~outbox[r].due
  /\ outbox' = [outbox EXCEPT ![r].due = TRUE]
  /\ UNCHANGED <<proc, versions, rows, audit, mem, relay, bounds>>

-----------------------------------------------------------------------------
(* sync_relay.retry_failed_sync: every failed row of the process is reset, *)
(* then the one the database returned first must be the current protocol.  *)

FaultyFailedRows(p) == {r \in Protocol : r[1] = p /\ outbox[r].status # "ABSENT"}
FailedRows(p) ==
  {r \in Protocol : r[1] = p /\ outbox[r].status = "FAILED_TERMINAL"}

ManualRetry(p) ==
  /\ retries < MaxRetry
  /\ ~ProcLocked(p)
  /\ \E first \in FailedRows(p) :
       /\ Current(first)
       /\ audit' = audit \cup {<<"SYNC_MANUAL_RETRY", first>>}
  /\ outbox' = [r \in Protocol |->
                  IF r \in FailedRows(p)
                  THEN [outbox[r] EXCEPT !.status = "PENDING", !.attempts = 0,
                                         !.due = TRUE]
                  ELSE outbox[r]]
  /\ proc' = [proc EXCEPT ![p].sync = "PENDING_SYNC", ![p].attempts = 0]
  /\ retries' = retries + 1
  /\ UNCHANGED <<versions, rows, mem, relay, crashes, restarts>>

-----------------------------------------------------------------------------
Api(p) == Finalize(p) \/ Unfinalize(p) \/ RequestSync(p) \/ Hydrate(p)
            \/ ManualRetry(p)

Cycle(w) == Claim(w) \/ MarkSyncing(w) \/ Publish(w) \/ PublishFails(w)
              \/ DigestMismatch(w) \/ Commit(w)

Next ==
  \/ \E p \in Process : Api(p)
  \/ Restart
  \/ \E w \in Worker : Cycle(w) \/ Crash(w)
  \/ \E r \in Protocol : BackoffElapses(r)

Spec == Init /\ [][Next]_vars

\* run_forever polls as long as the worker lives, and time passes.
Fairness ==
  /\ \A w \in Worker : WF_vars(Cycle(w))
  /\ \A r \in Protocol : WF_vars(BackoffElapses(r))

FairSpec == Spec /\ Fairness

-----------------------------------------------------------------------------
(* Safety.                                                                 *)

\* Shape of the variables, and the CHECK constraints of schema.sql on
\* sync_attempts (0..4) and on sync_state (only after FINALIZED).
TypeOK ==
  /\ proc \in [Process -> ProcRow]
  /\ outbox \in [Protocol -> OutboxRow]
  /\ versions \in [Process -> 0..MaxVersion]
  /\ rows \in Nat
  /\ audit \subseteq AuditId
  /\ mem \in [Process -> ProcRow \cup {NotLoaded}]
  /\ job \in [Worker -> Job]
  /\ accepted \in [Protocol -> Nat] /\ doubt \in [Protocol -> Nat]
  /\ crashes \in Nat /\ retries \in Nat /\ restarts \in Nat
  /\ \A p \in Process : /\ proc[p].attempts <= MaxAttempts
                        /\ proc[p].sync # "NOT_REQUESTED" => proc[p].state = "FINALIZED"

\* The sync state an inspector sees is the state of the outbox row of the
\* current protocol, attempt number included, whatever the workers, crashes,
\* restarts, cancelled finalizations and manual retries in between (ADR-0011:
\* outbox and process change in one transaction).
Mirrors(p) ==
  LET row == outbox[<<p, proc[p].protocol>>] IN
  /\ proc[p].attempts = row.attempts
  /\ \/ row.status = "PENDING" /\ row.attempts = 0
           /\ proc[p].sync \in {"NOT_REQUESTED", "PENDING_SYNC"}
     \/ row.status = "PENDING" /\ row.attempts > 0 /\ proc[p].sync = "RETRY_WAIT"
     \/ row.status = "DELIVERED" /\ proc[p].sync = "SYNCING"
     \/ row.status = "FAILED_TERMINAL" /\ proc[p].sync = "PENDING_SYNC"
MirrorsOutbox ==
  \A p \in Process : proc[p].state = "FINALIZED" => Mirrors(p)

\* A second copy of an event reaches the broker only after a publish whose
\* acceptance no transaction recorded (lost confirm, crash before commit):
\* two workers never publish one row, a delivered row is not published again.
ExactUnlessInDoubt ==
  \A r \in Protocol : /\ accepted[r] <= doubt[r] + 1
                      /\ outbox[r].status = "DELIVERED" => accepted[r] = doubt[r] + 1

\* A row is given up only after the whole budget of attempts or for a wrong
\* digest, and never silently: the administrator's signal is in the audit.
ExhaustionSignalled ==
  \A r \in Protocol : outbox[r].status = "FAILED_TERMINAL" =>
    /\ outbox[r].attempts = MaxAttempts \/ r \in Corrupt
    /\ <<"SYNC_RETRY_EXHAUSTED", r>> \in audit

\* While a worker talks to the broker, the protocol it sends is the current
\* finalized protocol of its process: a cancelled version is never sent.
OnlyCurrentIsSent ==
  \A w \in Worker : job[w].phase \in {"syncing", "settled"} => Current(job[w].row)

\* Nothing takes a delivered event back: neither a manual retry of the
\* process's other versions nor a cancelled finalization.
DeliveredIsFinal ==
  [][\A r \in Protocol : outbox[r].status = "DELIVERED"
                           => outbox'[r].status = "DELIVERED"]_vars

-----------------------------------------------------------------------------
(* Liveness.                                                               *)

Settled(r) == outbox[r].status \in {"DELIVERED", "FAILED_TERMINAL"}

\* A finalized protocol is delivered to the broker or given up, unless its
\* finalization is cancelled first.
CurrentSettles ==
  \A r \in Protocol : Current(r) ~> (Settled(r) \/ ~Current(r))

\* A row whose protocol was cancelled and that still waits to be sent.
BlockedBy(r) == outbox[r].status = "PENDING" /\ ~Current(r)

\* sync_relay.py:62-160: as long as no cancelled row waits in the outbox, every
\* finalized protocol is delivered, given up or cancelled, although workers die,
\* locks are skipped, payloads are corrupt and the broker fails.
SettlesUnlessBlocked ==
  \A r \in Protocol :
    Current(r) ~> \/ Settled(r)
                  \/ ~Current(r)
                  \/ \E s \in Protocol : BlockedBy(s)

-----------------------------------------------------------------------------
(* What the repository says of the program and the code does not do.       *)

\* runtime.py:977 and the trigger protocols_guard_finalized: a protocol whose
\* export is running or awaited is not cancelled.
UnfinalizeOnlyBeforeExport ==
  [][\A p \in Process : proc[p].state = "FINALIZED" /\ proc'[p].state = "COMPLETED"
                           => proc[p].sync = "NOT_REQUESTED"]_vars

=============================================================================
