-------------------------- MODULE SyncRelayProofs --------------------------
(***************************************************************************)
(* Proofs about SyncRelay for any set of processes and workers, any        *)
(* attempt budget and any bounds.                                          *)
(*                                                                         *)
(* None of the safety properties is inductive alone.  MirrorsOutbox needs  *)
(* to know that the row a worker commits is still the current one          *)
(* (OnlyCurrentIsSent), still pending (HeldRow) and held by nobody else    *)
(* (OneHolder); a new row starts with attempts 0 because a record that can *)
(* be finalized never asked for a sync (Unasked); and a new row never      *)
(* lands on an old one (Versions).                                         *)
(***************************************************************************)
EXTENDS SyncRelay, TLAPS

\* The variables have their shape.
Types ==
  /\ proc \in [Process -> ProcRow]
  /\ outbox \in [Protocol -> OutboxRow]
  /\ versions \in [Process -> 0..MaxVersion]
  /\ rows \in Nat
  /\ audit \subseteq AuditId
  /\ mem \in [Process -> ProcRow \cup {NotLoaded}]
  /\ job \in [Worker -> Job]
  /\ accepted \in [Protocol -> Nat] /\ doubt \in [Protocol -> Nat]
  /\ crashes \in Nat /\ retries \in Nat /\ restarts \in Nat

\* A copy of a process, in the table or in memory, whose export was never
\* asked for or tried has no attempts, and one without protocol none at all.
UnaskedRow(c) ==
  /\ c.sync = "NOT_REQUESTED" => c.attempts = 0
  /\ c.state = "COMPLETED" => c.sync = "NOT_REQUESTED"
Unasked ==
  /\ \A p \in Process : UnaskedRow(proc[p])
  /\ \A p \in Process : mem[p] # NotLoaded => UnaskedRow(mem[p])

\* A finalized process names a protocol; the versions above the highest one
\* of an object have no outbox row.
Versions ==
  /\ \A p \in Process : proc[p].state = "FINALIZED" => proc[p].protocol # 0
  /\ \A r \in Protocol : r[2] > versions[r[1]] => outbox[r].status = "ABSENT"

\* The row in a worker's transaction is still to be sent, and the outcome it
\* is about to commit agrees with the attempts made.
Held(w) == job[w].phase # "idle"
HeldRow ==
  \A w \in Worker : Held(w) =>
    LET r == job[w].row IN
    /\ r \in Protocol
    /\ outbox[r].status \in {"PENDING", "DELIVERING"}
    /\ outbox[r].attempts < MaxAttempts
    /\ job[w].phase # "settled" => ~job[w].stored
    /\ job[w].phase = "settled" =>
         \/ job[w].outcome = "DELIVERED" /\ job[w].stored
         \/ job[w].outcome = "PENDING" /\ outbox[r].attempts + 1 < MaxAttempts
         \/ /\ job[w].outcome = "FAILED_TERMINAL"
            /\ outbox[r].attempts + 1 = MaxAttempts \/ r \in Corrupt

OneHolder ==
  \A v, w \in Worker : Held(v) /\ Held(w) /\ job[v].row = job[w].row => v = w

\* How many copies the broker has of an event, held or not.
Copies ==
  /\ \A r \in Protocol : outbox[r].status = "DELIVERED" => accepted[r] = doubt[r] + 1
  /\ \A w \in Worker : Held(w) =>
       accepted[job[w].row] = doubt[job[w].row] + (IF job[w].stored THEN 1 ELSE 0)
  /\ \A r \in Protocol : outbox[r].status # "DELIVERED" /\ ~RowLocked(r)
                           => accepted[r] = doubt[r]

IInv ==
  /\ Types
  /\ Unasked
  /\ Versions
  /\ HeldRow
  /\ OneHolder
  /\ OnlyCurrentIsSent
  /\ MirrorsOutbox
  /\ ExhaustionSignalled
  /\ Copies

-----------------------------------------------------------------------------
(* The initial state, and the steps that change the API's memory only.     *)

\* No worker holds anything, no row exists, no process is finalized.
LEMMA InitInv == Init => IInv
<1> SUFFICES ASSUME Init PROVE IInv
  OBVIOUS
<1> USE AttemptsAssumption, BoundsAssumption DEF Init
<1>1. Types
  BY DEF Types, ProcRow, OutboxRow, OutboxStatus, NoRow, SyncState, Job, Idle,
         Phase, Outcome
<1>2. Unasked
  BY DEF Unasked, UnaskedRow
<1>3. Versions
  BY DEF Versions, NoRow
<1>4. HeldRow /\ OneHolder /\ OnlyCurrentIsSent
  BY DEF HeldRow, OneHolder, OnlyCurrentIsSent, Held, Idle
<1>5. MirrorsOutbox
  BY DEF MirrorsOutbox
<1>6. ExhaustionSignalled
  BY DEF ExhaustionSignalled, NoRow
<1>7. Copies
  BY DEF Copies, Held, Idle, NoRow
<1> QED
  BY <1>1, <1>2, <1>3, <1>4, <1>5, <1>6, <1>7 DEF IInv

\* The invariant reads the API's memory only for its shape and for the sync
\* state of a record, so a step that keeps these keeps the invariant.
LEMMA MemStep ==
  ASSUME IInv, UNCHANGED <<db, relay>>,
         mem' \in [Process -> ProcRow \cup {NotLoaded}],
         \A p \in Process : mem'[p] # NotLoaded => UnaskedRow(mem'[p]),
         crashes' \in Nat, retries' \in Nat, restarts' \in Nat
  PROVE  IInv'
<1> USE DEF IInv, db, relay
<1>1. Types'
  BY DEF Types
<1>2. Unasked'
  BY DEF Unasked
<1>3. Versions'
  BY DEF Versions
<1>4. HeldRow' /\ OneHolder' /\ OnlyCurrentIsSent'
  BY DEF HeldRow, OneHolder, OnlyCurrentIsSent, Held, Current
<1>5. MirrorsOutbox' /\ ExhaustionSignalled'
  BY DEF MirrorsOutbox, Mirrors, ExhaustionSignalled
<1>6. Copies'
  BY DEF Copies, Held, RowLocked
<1> QED
  BY <1>1, <1>2, <1>3, <1>4, <1>5, <1>6

\* Asking for a sync again changes the record in memory, never to NOT_REQUESTED.
LEMMA RequestSyncInv ==
  ASSUME IInv, NEW p \in Process, RequestSync(p)
  PROVE  IInv'
<1>1. mem[p] \in ProcRow /\ mem[p].state = "FINALIZED"
  BY DEF IInv, Types, RequestSync
<1>2. /\ mem' \in [Process -> ProcRow \cup {NotLoaded}]
      /\ \A q \in Process : q # p => mem'[q] = mem[q]
      /\ mem'[p].state = "FINALIZED" /\ mem'[p].sync # "NOT_REQUESTED"
  <2>1. CASE mem[p].sync = "NOT_REQUESTED"
    BY <1>1, <2>1 DEF IInv, Types, RequestSync, ProcRow, SyncState
  <2>2. CASE mem[p].sync # "NOT_REQUESTED"
    <3> DEFINE n == mem[p].attempts + 1
               c == [mem[p] EXCEPT !.attempts = n, !.sync = NextSyncState(n)]
    <3>1. NextSyncState(n) \in {"PENDING_SYNC", "RETRY_WAIT"} /\ n \in Nat
      BY <1>1 DEF NextSyncState, ProcRow
    <3>2. c \in ProcRow /\ c.state = "FINALIZED" /\ c.sync # "NOT_REQUESTED"
      BY <1>1, <3>1 DEF ProcRow, SyncState
    <3>3. mem' = [mem EXCEPT ![p] = c]
      BY <2>2, <1>1 DEF RequestSync, IInv, Types
    <3> QED
      BY <3>2, <3>3 DEF IInv, Types
  <2> QED
    BY <2>1, <2>2
<1>3. \A q \in Process : mem'[q] # NotLoaded => UnaskedRow(mem'[q])
  BY <1>2 DEF IInv, Types, Unasked, UnaskedRow
<1>4. crashes' \in Nat /\ retries' \in Nat /\ restarts' \in Nat
  BY DEF RequestSync, bounds, IInv, Types
<1> QED
  BY <1>2, <1>3, <1>4, MemStep DEF RequestSync

\* A record hydrated from the table is as good as the row.
LEMMA HydrateInv ==
  ASSUME IInv, NEW p \in Process, Hydrate(p)
  PROVE  IInv'
<1>1. mem' \in [Process -> ProcRow \cup {NotLoaded}]
  BY DEF IInv, Types, Hydrate
<1>2. \A q \in Process : mem'[q] # NotLoaded => UnaskedRow(mem'[q])
  BY DEF IInv, Types, Unasked, Hydrate
<1>3. crashes' \in Nat /\ retries' \in Nat /\ restarts' \in Nat
  BY DEF Hydrate, bounds, IInv, Types
<1> QED
  BY <1>1, <1>2, <1>3, MemStep DEF Hydrate

\* A restart empties the memory.
LEMMA RestartInv ==
  ASSUME IInv, Restart
  PROVE  IInv'
<1>1. mem' \in [Process -> ProcRow \cup {NotLoaded}]
  BY DEF Restart
<1>2. \A q \in Process : mem'[q] # NotLoaded => UnaskedRow(mem'[q])
  BY DEF Restart
<1>3. crashes' \in Nat /\ retries' \in Nat /\ restarts' \in Nat
  BY DEF Restart, IInv, Types
<1> QED
  BY <1>1, <1>2, <1>3, MemStep DEF Restart

-----------------------------------------------------------------------------
(* The steps of the API that write the tables.                             *)

\* The row of the new protocol was absent, so nobody held it, and the process
\* row was not locked, so no worker is sending an older protocol.
LEMMA FinalizeInv ==
  ASSUME IInv, NEW p \in Process, Finalize(p)
  PROVE  IInv'
<1> DEFINE n == versions[p] + 1
           new == <<p, n>>
           c == [mem[p] EXCEPT !.state = "FINALIZED", !.protocol = n]
           row == [status |-> "PENDING", attempts |-> 0, due |-> TRUE,
                   created |-> rows + 1]
<1> USE BoundsAssumption, AttemptsAssumption
<1>1. n \in 1..MaxVersion /\ new \in Protocol
  BY DEF IInv, Types, Finalize, Protocol
<1>2. mem[p] \in ProcRow /\ mem[p].sync = "NOT_REQUESTED" /\ mem[p].attempts = 0
  BY DEF IInv, Types, Unasked, UnaskedRow, Finalize
<1>3. /\ c \in ProcRow /\ c.sync = "NOT_REQUESTED" /\ c.attempts = 0
      /\ c.state = "FINALIZED" /\ c.protocol = n
  <2>1. n \in 0..MaxVersion
    BY <1>1
  <2>2. c \in ProcRow
    BY <1>2, <2>1 DEF ProcRow
  <2>3. c.sync = "NOT_REQUESTED" /\ c.attempts = 0
    BY <1>2 DEF ProcRow
  <2>4. c.state = "FINALIZED" /\ c.protocol = n
    BY <1>2 DEF ProcRow
  <2> QED
    BY <2>2, <2>3, <2>4
<1>4. mem' = [mem EXCEPT ![p] = c]
  BY <1>2 DEF Finalize, IInv, Types
<1>5. proc' = [proc EXCEPT ![p] = c]
  BY <1>4 DEF Finalize, IInv, Types
<1>6. outbox' = [outbox EXCEPT ![new] = row] /\ row \in OutboxRow
  BY DEF Finalize, OutboxRow, OutboxStatus, IInv, Types
<1>7. versions' = [versions EXCEPT ![p] = n] /\ rows' = rows + 1
  BY DEF Finalize
<1>8. UNCHANGED <<audit, job, accepted, doubt, crashes, retries, restarts>>
  BY DEF Finalize, relay, bounds
<1>9. outbox[new].status = "ABSENT"
  BY <1>1 DEF IInv, Types, Versions
<1>10. \A w \in Worker : Held(w) => job[w].row # new
  BY <1>9 DEF IInv, HeldRow
<1>11. Types'
  BY <1>1, <1>3, <1>4, <1>5, <1>6, <1>7, <1>8 DEF IInv, Types
<1>12. Unasked'
  BY <1>3, <1>4, <1>5 DEF IInv, Types, Unasked, UnaskedRow
<1>13. Versions'
  BY <1>1, <1>3, <1>5, <1>6, <1>7 DEF IInv, Types, Versions, Protocol
<1>14. HeldRow' /\ OneHolder'
  BY <1>6, <1>8, <1>10 DEF IInv, Types, HeldRow, OneHolder, Held
<1>15. OnlyCurrentIsSent'
  BY <1>5, <1>8 DEF IInv, Types, OnlyCurrentIsSent, Current, Finalize, ProcLocked
<1>16. MirrorsOutbox'
  BY <1>1, <1>3, <1>5, <1>6 DEF IInv, Types, MirrorsOutbox, Mirrors, Versions, Protocol, ProcRow
<1>17. ExhaustionSignalled'
  BY <1>1, <1>6, <1>8 DEF IInv, Types, ExhaustionSignalled
<1>18. Copies'
  BY <1>1, <1>6, <1>8, <1>9, <1>10 DEF IInv, Types, Copies, Held, RowLocked
<1> QED
  BY <1>11, <1>12, <1>13, <1>14, <1>15, <1>16, <1>17, <1>18 DEF IInv

\* Cancelling the finalization removes the process from the reach of
\* MirrorsOutbox; no worker is sending its protocol, or the process row
\* would be locked.
LEMMA UnfinalizeInv ==
  ASSUME IInv, NEW p \in Process, Unfinalize(p)
  PROVE  IInv'
<1> DEFINE c == [mem[p] EXCEPT !.state = "COMPLETED", !.protocol = 0]
<1> USE BoundsAssumption
<1>1. mem[p] \in ProcRow /\ mem[p].sync = "NOT_REQUESTED" /\ mem[p].attempts = 0
  BY DEF IInv, Types, Unasked, UnaskedRow, Unfinalize, CanUnfinalize
<1>2. c \in ProcRow /\ UnaskedRow(c) /\ c.state = "COMPLETED"
  <2>1. 0 \in 0..MaxVersion
    OBVIOUS
  <2>2. c \in ProcRow
    BY <1>1, <2>1 DEF ProcRow
  <2>3. c.sync = "NOT_REQUESTED" /\ c.attempts = 0 /\ c.state = "COMPLETED"
    BY <1>1 DEF ProcRow
  <2> QED
    BY <2>2, <2>3 DEF UnaskedRow
<1>3. mem' = [mem EXCEPT ![p] = c]
  BY <1>1 DEF Unfinalize, IInv, Types
<1>4. proc' = [proc EXCEPT ![p] = c]
  BY <1>3 DEF Unfinalize, IInv, Types
<1>5. UNCHANGED <<outbox, versions, rows, audit, job, accepted, doubt, crashes,
                  retries, restarts>>
  BY DEF Unfinalize, relay, bounds
<1>6. Types' /\ Unasked'
  BY <1>2, <1>3, <1>4, <1>5 DEF IInv, Types, Unasked
<1>7. Versions' /\ ExhaustionSignalled' /\ Copies'
  BY <1>2, <1>4, <1>5 DEF IInv, Types, Versions, ExhaustionSignalled, Copies, Held, RowLocked
<1>8. HeldRow' /\ OneHolder'
  BY <1>5 DEF IInv, HeldRow, OneHolder, Held
<1>9. OnlyCurrentIsSent'
  BY <1>4, <1>5 DEF IInv, Types, OnlyCurrentIsSent, Current, Unfinalize, ProcLocked
<1>10. MirrorsOutbox'
  BY <1>2, <1>4, <1>5 DEF IInv, Types, MirrorsOutbox, Mirrors
<1> QED
  BY <1>6, <1>7, <1>8, <1>9, <1>10 DEF IInv

-----------------------------------------------------------------------------
(* The steps of a relay worker.                                            *)

\* A step inside a worker's transaction: the tables and the memory stay, so
\* only what the invariant says of the workers has to be shown again.
LEMMA JobStep ==
  ASSUME IInv, UNCHANGED <<db, mem>>,
         job' \in [Worker -> Job],
         accepted' \in [Protocol -> Nat], doubt' \in [Protocol -> Nat],
         crashes' \in Nat, retries' \in Nat, restarts' \in Nat,
         HeldRow', OneHolder', OnlyCurrentIsSent', Copies'
  PROVE  IInv'
<1>1. Types'
  BY DEF IInv, Types, db
<1>2. Unasked' /\ Versions'
  BY DEF IInv, Unasked, Versions, db
<1>3. MirrorsOutbox' /\ ExhaustionSignalled'
  BY DEF IInv, MirrorsOutbox, Mirrors, ExhaustionSignalled, db
<1> QED
  BY <1>1, <1>2, <1>3 DEF IInv

\* The claimed row was pending and unlocked: no other worker holds it, and the
\* broker has no copy of it that is not in doubt.
LEMMA ClaimInv ==
  ASSUME IInv, NEW w \in Worker, Claim(w)
  PROVE  IInv'
<1>1. PICK r \in Protocol :
        /\ Claimable(r)
        /\ job' = [job EXCEPT ![w] = [phase |-> "claimed", row |-> r,
                                      outcome |-> "none", stored |-> FALSE]]
  BY DEF Claim
<1>2. job' \in [Worker -> Job]
  BY <1>1 DEF IInv, Types, Job, Phase, Outcome
<1>3. /\ \A v \in Worker : v # w => job'[v] = job[v]
      /\ job'[w].phase = "claimed" /\ job'[w].row = r /\ ~job'[w].stored
      /\ job[w].phase = "idle"
  BY <1>1 DEF IInv, Types, Claim
<1>4. UNCHANGED <<proc, outbox, versions, rows, audit, mem, accepted, doubt,
                  crashes, retries, restarts>>
  BY DEF Claim, db, bounds
<1>5. \A v \in Worker : Held(v) => job[v].row # r
  BY <1>1 DEF Claimable, RowLocked, Held
<1>6. HeldRow'
  BY <1>1, <1>3, <1>4 DEF IInv, HeldRow, Held, Claimable
<1>7. OneHolder'
  BY <1>3, <1>5 DEF IInv, OneHolder, Held
<1>8. OnlyCurrentIsSent'
  BY <1>3, <1>4 DEF IInv, OnlyCurrentIsSent, Current
<1>9. Copies'
  <2>1. accepted[r] = doubt[r]
    BY <1>1 DEF IInv, Copies, Claimable
  <2>2. \A s \in Protocol : RowLocked(s) => RowLocked(s)'
    BY <1>3 DEF RowLocked
  <2>3. \A v \in Worker : Held(v)' =>
          accepted'[job'[v].row] = doubt'[job'[v].row] + (IF job'[v].stored THEN 1 ELSE 0)
    BY <2>1, <1>3, <1>4 DEF IInv, Types, Copies, Held
  <2> QED
    BY <2>2, <2>3, <1>4 DEF IInv, Copies
<1> QED
  BY <1>2, <1>4, <1>6, <1>7, <1>8, <1>9, JobStep DEF db, IInv, Types

\* The lifecycle update either finds the protocol current, or gives the row back.
LEMMA MarkSyncingInv ==
  ASSUME IInv, NEW w \in Worker, MarkSyncing(w)
  PROVE  IInv'
<1> DEFINE r == job[w].row
<1>1. UNCHANGED <<proc, outbox, versions, rows, audit, mem, accepted, doubt,
                  crashes, retries, restarts>>
  BY DEF MarkSyncing, db, bounds
<1>2. r \in Protocol /\ job[w].phase = "claimed" /\ ~job[w].stored
  BY DEF IInv, HeldRow, Held, MarkSyncing
<1>3. CASE Current(r)
  <2>1. job' = [job EXCEPT ![w].phase = "syncing"]
    BY <1>3 DEF MarkSyncing
  <2>2. job' \in [Worker -> Job]
    BY <2>1 DEF IInv, Types, Job, Phase
  <2>3. /\ \A v \in Worker : v # w => job'[v] = job[v]
        /\ job'[w].phase = "syncing" /\ job'[w].row = r
        /\ job'[w].stored = job[w].stored
    BY <2>1 DEF IInv, Types, Job
  <2>4. HeldRow' /\ OneHolder'
    BY <1>1, <1>2, <2>3 DEF IInv, HeldRow, OneHolder, Held
  <2>5. OnlyCurrentIsSent'
    BY <1>1, <1>3, <2>3 DEF IInv, OnlyCurrentIsSent, Current
  <2>6. Copies'
    <3>1. \A s \in Protocol : RowLocked(s)' <=> RowLocked(s)
      BY <1>2, <2>3 DEF RowLocked
    <3> QED
      BY <1>1, <1>2, <2>3, <3>1 DEF IInv, Copies, Held
  <2> QED
    BY <1>1, <2>2, <2>4, <2>5, <2>6, JobStep DEF db, IInv, Types
<1>4. CASE ~Current(r)
  <2>1. job' = [job EXCEPT ![w] = Idle]
    BY <1>4 DEF MarkSyncing
  <2>2. job' \in [Worker -> Job]
    BY <2>1 DEF IInv, Types, Job, Phase, Idle, Outcome
  <2>3. /\ \A v \in Worker : v # w => job'[v] = job[v]
        /\ job'[w].phase = "idle"
    BY <2>1 DEF IInv, Types, Idle
  <2>4. HeldRow' /\ OneHolder' /\ OnlyCurrentIsSent'
    BY <1>1, <2>3 DEF IInv, HeldRow, OneHolder, OnlyCurrentIsSent, Current, Held
  <2>5. Copies'
    <3>1. accepted[r] = doubt[r]
      BY <1>2 DEF IInv, Types, Copies, Held
    <3>2. \A s \in Protocol : s # r /\ RowLocked(s) => RowLocked(s)'
      BY <2>3 DEF RowLocked
    <3> QED
      BY <1>1, <2>3, <3>1, <3>2 DEF IInv, Copies, Held
  <2> QED
    BY <1>1, <2>2, <2>4, <2>5, JobStep DEF db, IInv, Types
<1> QED
  BY <1>3, <1>4

\* What the broker call leaves behind agrees with the outcome to be committed.
LEMMA SettleInv ==
  ASSUME IInv, NEW w \in Worker, NEW out, NEW sent \in BOOLEAN,
         Settle(w, out, sent),
         \/ out = "DELIVERED" /\ sent
         \/ out = FailureOutcome(job[w].row)
         \/ out = "FAILED_TERMINAL" /\ job[w].row \in Corrupt
  PROVE  IInv'
<1> DEFINE r == job[w].row
<1> USE AttemptsAssumption
<1>1. UNCHANGED <<proc, outbox, versions, rows, audit, mem, doubt, crashes,
                  retries, restarts>>
  BY DEF Settle, db, bounds
<1>2. /\ r \in Protocol /\ job[w].phase = "syncing" /\ ~job[w].stored
      /\ outbox[r].attempts < MaxAttempts
  BY DEF IInv, HeldRow, Held, Settle
<1>3. out \in Outcome
  BY DEF Outcome, FailureOutcome
<1>4. job' \in [Worker -> Job]
  <2> DEFINE j == [job[w] EXCEPT !.phase = "settled", !.outcome = out, !.stored = sent]
  <2>1. j \in Job
    BY <1>3 DEF IInv, Types, Job, Phase
  <2>2. job' = [job EXCEPT ![w] = j]
    BY DEF Settle, IInv, Types
  <2> QED
    BY <2>1, <2>2 DEF IInv, Types
<1>5. /\ \A v \in Worker : v # w => job'[v] = job[v]
      /\ job'[w].phase = "settled" /\ job'[w].row = r
      /\ job'[w].outcome = out /\ job'[w].stored = sent
  BY DEF Settle, IInv, Types, Job
<1>6. accepted' \in [Protocol -> Nat]
  BY <1>2 DEF Settle, IInv, Types
<1>7. HeldRow'
  <2>1. outbox[r].attempts \in Nat
    BY <1>2 DEF IInv, Types, OutboxRow
  <2> QED
    BY <1>1, <1>2, <1>5, <2>1 DEF IInv, HeldRow, Held, FailureOutcome
<1>8. OneHolder'
  BY <1>2, <1>5 DEF IInv, OneHolder, Held
<1>9. OnlyCurrentIsSent'
  BY <1>1, <1>2, <1>5 DEF IInv, OnlyCurrentIsSent, Current
<1>10. Copies'
  <2>1. \A s \in Protocol : RowLocked(s)' <=> RowLocked(s)
    BY <1>2, <1>5 DEF RowLocked
  <2>2. /\ accepted[r] = doubt[r]
        /\ accepted'[r] = doubt'[r] + (IF sent THEN 1 ELSE 0)
        /\ \A s \in Protocol : s # r => accepted'[s] = accepted[s]
    BY <1>1, <1>2 DEF IInv, Types, Copies, Held, Settle
  <2>3. RowLocked(r) /\ outbox[r].status # "DELIVERED"
    BY <1>2 DEF RowLocked, IInv, HeldRow, Held
  <2>4. \A v \in Worker : Held(v)' =>
          accepted'[job'[v].row] = doubt'[job'[v].row] + (IF job'[v].stored THEN 1 ELSE 0)
    BY <1>1, <1>2, <1>5, <2>2 DEF IInv, HeldRow, OneHolder, Copies, Held
  <2> QED
    BY <1>1, <2>1, <2>2, <2>3, <2>4 DEF IInv, Copies
<1> QED
  BY <1>1, <1>4, <1>6, <1>7, <1>8, <1>9, <1>10, JobStep, SMTT(20) DEF db, IInv, Types

\* Everything of the transaction becomes visible at once: the row is the one of
\* the current protocol, so the process row that is written beside it mirrors
\* it; no other worker holds it, so nobody else's knowledge of it is lost.
LEMMA CommitInv ==
  ASSUME IInv, NEW w \in Worker, Commit(w)
  PROVE  IInv'
<1> USE AttemptsAssumption
<1>1. PICK r \in Protocol, p \in Process :
        /\ r = job[w].row /\ p = r[1] /\ r = <<p, r[2]>>
        /\ job[w].phase = "settled" /\ Held(w)
  BY DEF IInv, HeldRow, Held, Commit, Protocol
<1> DEFINE out == job[w].outcome
           n == outbox[r].attempts + 1
           sync == SyncOf(out)
<1>2. /\ outbox[r].status \in {"PENDING", "DELIVERING"}
      /\ outbox[r].attempts \in Nat /\ outbox[r].attempts < MaxAttempts
      /\ n \in 1..MaxAttempts
  BY <1>1 DEF IInv, Types, HeldRow, OutboxRow
<1>3. \/ out = "DELIVERED" /\ job[w].stored
      \/ out = "PENDING" /\ n < MaxAttempts
      \/ out = "FAILED_TERMINAL" /\ (n = MaxAttempts \/ r \in Corrupt)
  BY <1>1 DEF IInv, HeldRow
<1>4. /\ outbox[r] \in OutboxRow
      /\ outbox' = [outbox EXCEPT ![r].status = out, ![r].attempts = n, ![r].due = FALSE]
      /\ proc' = [proc EXCEPT ![p].sync = sync, ![p].attempts = n]
      /\ job' = [job EXCEPT ![w] = Idle]
      /\ UNCHANGED <<versions, rows, mem, accepted, crashes, retries, restarts>>
  BY <1>1 DEF Commit, bounds, IInv, Types
<1>5. /\ outbox' \in [Protocol -> OutboxRow]
      /\ \A s \in Protocol : s # r => outbox'[s] = outbox[s]
      /\ outbox'[r].status = out /\ outbox'[r].attempts = n
  <2> DEFINE row == [outbox[r] EXCEPT !.status = out, !.attempts = n, !.due = FALSE]
  <2>1. out \in OutboxStatus \cup {"ABSENT"} /\ n \in 0..MaxAttempts
    BY <1>2, <1>3 DEF OutboxStatus
  <2>2. row \in OutboxRow
    <3> HIDE DEF out, n
    <3> QED
      BY <1>4, <2>1 DEF OutboxRow
  <2>3. row.status = out /\ row.attempts = n
    BY <1>4 DEF OutboxRow
  <2>4. outbox' = [outbox EXCEPT ![r] = row]
    BY <1>1, <1>4 DEF IInv, Types
  <2> QED
    BY <1>1, <2>2, <2>3, <2>4 DEF IInv, Types
<1>6. sync \in {"SYNCING", "RETRY_WAIT", "PENDING_SYNC"}
  BY <1>3 DEF SyncOf
<1>7. /\ proc' \in [Process -> ProcRow]
      /\ \A q \in Process : q # p => proc'[q] = proc[q]
      /\ proc'[p].sync = sync /\ proc'[p].attempts = n
      /\ proc'[p].state = proc[p].state /\ proc'[p].protocol = proc[p].protocol
  <2> DEFINE c == [proc[p] EXCEPT !.sync = sync, !.attempts = n]
  <2>1. proc[p] \in ProcRow /\ n \in Nat /\ sync \in SyncState
    BY <1>1, <1>2, <1>6 DEF IInv, Types, SyncState
  <2>2. c \in ProcRow
    BY <2>1 DEF ProcRow
  <2>3. c.sync = sync /\ c.attempts = n
    BY <2>1 DEF ProcRow
  <2>4. c.state = proc[p].state /\ c.protocol = proc[p].protocol
    BY <2>1 DEF ProcRow
  <2>5. proc' = [proc EXCEPT ![p] = c]
    BY <1>1, <1>4 DEF IInv, Types
  <2> QED
    BY <1>1, <2>2, <2>3, <2>4, <2>5 DEF IInv, Types
<1>8. proc[p].state = "FINALIZED" /\ proc[p].protocol = r[2]
  BY <1>1 DEF IInv, OnlyCurrentIsSent, Current
<1>9. /\ \A v \in Worker : v # w => job'[v] = job[v]
      /\ job'[w].phase = "idle" /\ job' \in [Worker -> Job]
  BY <1>4 DEF IInv, Types, Idle, Job, Phase, Outcome
<1>10. \A v \in Worker : v # w /\ Held(v) => job[v].row # r
  BY <1>1 DEF IInv, OneHolder
<1>11. Types'
  <2>1. audit' \subseteq AuditId
    BY <1>1 DEF Commit, IInv, Types, AuditId
  <2>2. doubt' \in [Protocol -> Nat]
    BY <1>1 DEF Commit, IInv, Types
  <2> QED
    BY <1>4, <1>5, <1>7, <1>9, <2>1, <2>2 DEF IInv, Types
<1>12. Unasked'
  BY <1>4, <1>6, <1>7, <1>8 DEF IInv, Unasked, UnaskedRow
<1>13. Versions'
  <2>1. ~(r[2] > versions[r[1]])
    BY <1>2 DEF IInv, Versions
  <2>2. \A s \in Protocol : s[2] > versions[s[1]] => outbox'[s].status = "ABSENT"
    BY <1>5, <2>1 DEF IInv, Versions
  <2>3. \A q \in Process : proc'[q].state = "FINALIZED" => proc'[q].protocol # 0
    BY <1>7 DEF IInv, Versions
  <2> QED
    BY <1>4, <2>2, <2>3 DEF Versions
<1>14. HeldRow' /\ OneHolder'
  BY <1>5, <1>9, <1>10 DEF IInv, HeldRow, OneHolder, Held
<1>15. OnlyCurrentIsSent'
  <2>1. \A v \in Worker : job'[v].phase \in {"syncing", "settled"} =>
          /\ v # w /\ job'[v] = job[v] /\ Held(v) /\ Current(job[v].row)
          /\ job[v].row[1] \in Process
    BY <1>9 DEF IInv, OnlyCurrentIsSent, HeldRow, Held, Protocol
  <2>2. \A q \in Process : /\ proc'[q].state = proc[q].state
                           /\ proc'[q].protocol = proc[q].protocol
    BY <1>7
  <2> QED
    BY <2>1, <2>2 DEF OnlyCurrentIsSent, Current
<1>16. MirrorsOutbox'
  <2>1. Mirrors(p)'
    <3>1. <<p, proc'[p].protocol>> = r
      BY <1>1, <1>7, <1>8
    <3> QED
      BY <1>2, <1>3, <1>5, <1>7, <3>1 DEF Mirrors, SyncOf
  <2>2. ASSUME NEW q \in Process, q # p, proc[q].state = "FINALIZED" PROVE Mirrors(q)'
    <3>1. proc[q].protocol \in 1..MaxVersion
      BY <2>2 DEF IInv, Types, ProcRow, Versions
    <3>2. <<q, proc[q].protocol>> \in Protocol /\ <<q, proc[q].protocol>> # r
      BY <1>1, <2>2, <3>1 DEF Protocol
    <3> QED
      BY <1>5, <1>7, <2>2, <3>2 DEF IInv, MirrorsOutbox, Mirrors
  <2> QED
    BY <1>7, <2>1, <2>2 DEF MirrorsOutbox
<1>17. ExhaustionSignalled'
  BY <1>1, <1>3, <1>5 DEF IInv, ExhaustionSignalled, Commit
<1>18. Copies'
  <2>1. accepted[r] = doubt[r] + (IF job[w].stored THEN 1 ELSE 0)
    BY <1>1 DEF IInv, Copies
  <2>2. /\ out = "DELIVERED" => doubt'[r] = doubt[r] /\ accepted[r] = doubt[r] + 1
        /\ out # "DELIVERED" => accepted[r] = doubt'[r]
        /\ \A s \in Protocol : s # r => doubt'[s] = doubt[s]
    <3>1. doubt' = IF job[w].stored /\ out # "DELIVERED"
                   THEN [doubt EXCEPT ![r] = doubt[r] + 1] ELSE doubt
      BY <1>1 DEF Commit
    <3>2. doubt \in [Protocol -> Nat] /\ accepted \in [Protocol -> Nat]
          /\ job[w].stored \in BOOLEAN
      BY <1>1 DEF IInv, Types, Job
    <3>3. CASE job[w].stored /\ out # "DELIVERED"
      BY <1>1, <2>1, <3>1, <3>2, <3>3
    <3>4. CASE ~(job[w].stored /\ out # "DELIVERED")
      BY <1>1, <1>3, <2>1, <3>1, <3>2, <3>4
    <3> QED
      BY <3>3, <3>4
  <2>3. \A s \in Protocol : s # r /\ RowLocked(s) => RowLocked(s)'
    BY <1>1, <1>9 DEF RowLocked
  <2>4. \A v \in Worker : Held(v)' => v # w /\ Held(v) /\ job'[v] = job[v]
                                     /\ job[v].row # r /\ job[v].row \in Protocol
    BY <1>9, <1>10 DEF Held, IInv, HeldRow
  <2>5. \A s \in Protocol : outbox'[s].status = "DELIVERED" => accepted'[s] = doubt'[s] + 1
    BY <1>4, <1>5, <2>2 DEF IInv, Copies
  <2>6. \A v \in Worker : Held(v)' =>
          accepted'[job'[v].row] = doubt'[job'[v].row] + (IF job'[v].stored THEN 1 ELSE 0)
    BY <1>4, <2>2, <2>4 DEF IInv, Copies
  <2>7. \A s \in Protocol : outbox'[s].status # "DELIVERED" /\ ~RowLocked(s)'
                             => accepted'[s] = doubt'[s]
    BY <1>4, <1>5, <2>2, <2>3 DEF IInv, Copies
  <2> QED
    BY <2>5, <2>6, <2>7 DEF Copies
<1> QED
  BY <1>11, <1>12, <1>13, <1>14, <1>15, <1>16, <1>17, <1>18 DEF IInv

\* A lost transaction leaves a copy in doubt exactly when the broker had it.
LEMMA CrashInv ==
  ASSUME IInv, NEW w \in Worker, Crash(w)
  PROVE  IInv'
<1>1. /\ UNCHANGED <<proc, outbox, versions, rows, audit, mem, accepted, retries, restarts>>
      /\ crashes' \in Nat
  BY DEF Crash, db, IInv, Types
<1>2. PICK r \in Protocol : r = job[w].row /\ Held(w)
  BY DEF IInv, HeldRow, Held, Crash
<1>3. /\ \A v \in Worker : v # w => job'[v] = job[v]
      /\ job'[w].phase = "idle" /\ job' \in [Worker -> Job]
  BY DEF Crash, IInv, Types, Idle, Job, Phase, Outcome
<1>4. doubt' \in [Protocol -> Nat]
  BY <1>2 DEF Crash, IInv, Types
<1>5. HeldRow' /\ OneHolder' /\ OnlyCurrentIsSent'
  BY <1>1, <1>3 DEF IInv, HeldRow, OneHolder, OnlyCurrentIsSent, Current, Held
<1>6. Copies'
  <2>1. \A v \in Worker : v # w /\ Held(v) => job[v].row # r
    BY <1>2 DEF IInv, OneHolder
  <2>2. accepted[r] = doubt[r] + (IF job[w].stored THEN 1 ELSE 0)
    BY <1>2 DEF IInv, Copies
  <2>3. accepted[r] = doubt'[r] /\ \A s \in Protocol : s # r => doubt'[s] = doubt[s]
    <3>1. doubt' = IF job[w].stored THEN [doubt EXCEPT ![r] = doubt[r] + 1] ELSE doubt
      BY <1>2 DEF Crash
    <3>2. doubt \in [Protocol -> Nat]
      BY DEF IInv, Types
    <3> QED
      BY <1>2, <2>2, <3>1, <3>2
  <2>4. \A s \in Protocol : s # r /\ RowLocked(s) => RowLocked(s)'
    BY <1>2, <1>3 DEF RowLocked
  <2>5. outbox[r].status # "DELIVERED"
    BY <1>2 DEF IInv, HeldRow
  <2>6. \A v \in Worker : Held(v)' => v # w /\ Held(v) /\ job'[v] = job[v]
                                     /\ job[v].row # r /\ job[v].row \in Protocol
    BY <1>3, <2>1 DEF Held, IInv, HeldRow
  <2>7. \A v \in Worker : Held(v)' =>
          accepted'[job'[v].row] = doubt'[job'[v].row] + (IF job'[v].stored THEN 1 ELSE 0)
    BY <1>1, <2>3, <2>6 DEF IInv, Copies
  <2> QED
    BY <1>1, <2>3, <2>4, <2>5, <2>7 DEF IInv, Copies
<1> QED
  BY <1>1, <1>3, <1>4, <1>5, <1>6, JobStep DEF db, IInv, Types

-----------------------------------------------------------------------------
(* The clock, the administrator, and the theorems.                         *)

\* A row that becomes due again is otherwise the row it was.
LEMMA BackoffElapsesInv ==
  ASSUME IInv, NEW r \in Protocol, BackoffElapses(r)
  PROVE  IInv'
<1>1. /\ outbox' \in [Protocol -> OutboxRow]
      /\ \A s \in Protocol : /\ outbox'[s].status = outbox[s].status
                             /\ outbox'[s].attempts = outbox[s].attempts
  <2> DEFINE row == [outbox[r] EXCEPT !.due = TRUE]
  <2>1. outbox[r] \in OutboxRow
    BY DEF IInv, Types
  <2>2. row \in OutboxRow /\ row.status = outbox[r].status
                         /\ row.attempts = outbox[r].attempts
    BY <2>1 DEF OutboxRow
  <2>3. outbox' = [outbox EXCEPT ![r] = row]
    BY DEF BackoffElapses, IInv, Types
  <2> QED
    BY <2>2, <2>3 DEF IInv, Types
<1>2. UNCHANGED <<proc, versions, rows, audit, mem, job, accepted, doubt, crashes,
                  retries, restarts>>
  BY DEF BackoffElapses, relay, bounds
<1>3. Types' /\ Unasked' /\ Versions'
  BY <1>1, <1>2 DEF IInv, Types, Unasked, Versions
<1>4. HeldRow' /\ OneHolder' /\ OnlyCurrentIsSent'
  BY <1>1, <1>2 DEF IInv, HeldRow, OneHolder, OnlyCurrentIsSent, Current, Held
<1>5. MirrorsOutbox'
  <2>1. ASSUME NEW q \in Process, proc[q].state = "FINALIZED" PROVE Mirrors(q)'
    <3>1. <<q, proc[q].protocol>> \in Protocol
      BY <2>1 DEF IInv, Types, ProcRow, Versions, Protocol
    <3> QED
      BY <1>1, <1>2, <2>1, <3>1 DEF IInv, MirrorsOutbox, Mirrors
  <2> QED
    BY <1>2, <2>1 DEF MirrorsOutbox
<1>6. ExhaustionSignalled' /\ Copies'
  BY <1>1, <1>2 DEF IInv, ExhaustionSignalled, Copies, Held, RowLocked
<1> QED
  BY <1>3, <1>4, <1>5, <1>6 DEF IInv

\* Only failed rows are reset, and nobody holds one; the current protocol is
\* among them, so the process row is reset to what mirrors it.
LEMMA ManualRetryInv ==
  ASSUME IInv, NEW p \in Process, ManualRetry(p)
  PROVE  IInv'
<1> USE AttemptsAssumption
<1>1. PICK first \in FailedRows(p) :
        /\ Current(first)
        /\ audit' = audit \cup {<<"SYNC_MANUAL_RETRY", first>>}
  BY DEF ManualRetry
<1>2. /\ first \in Protocol /\ first = <<p, proc[p].protocol>>
      /\ proc[p].state = "FINALIZED"
  BY <1>1 DEF FailedRows, Current, Protocol
<1>3. /\ outbox' \in [Protocol -> OutboxRow]
      /\ \A s \in Protocol :
           IF s \in FailedRows(p)
           THEN outbox'[s].status = "PENDING" /\ outbox'[s].attempts = 0
           ELSE outbox'[s] = outbox[s]
  <2>1. ASSUME NEW s \in Protocol
        PROVE  LET row == [outbox[s] EXCEPT !.status = "PENDING", !.attempts = 0,
                                            !.due = TRUE]
               IN row \in OutboxRow /\ row.status = "PENDING" /\ row.attempts = 0
    <3> DEFINE row == [outbox[s] EXCEPT !.status = "PENDING", !.attempts = 0,
                                        !.due = TRUE]
    <3>1. outbox[s] \in OutboxRow /\ 0 \in 0..MaxAttempts
      BY <2>1 DEF IInv, Types
    <3>2. row \in OutboxRow
      BY <3>1 DEF OutboxRow, OutboxStatus
    <3>3. row.status = "PENDING" /\ row.attempts = 0
      BY <3>1 DEF OutboxRow
    <3> QED
      BY <3>2, <3>3
  <2> QED
    BY <2>1 DEF ManualRetry, IInv, Types
<1>4. /\ proc' \in [Process -> ProcRow]
      /\ \A q \in Process : q # p => proc'[q] = proc[q]
      /\ proc'[p].sync = "PENDING_SYNC" /\ proc'[p].attempts = 0
      /\ proc'[p].state = proc[p].state /\ proc'[p].protocol = proc[p].protocol
  <2> DEFINE c == [proc[p] EXCEPT !.sync = "PENDING_SYNC", !.attempts = 0]
  <2>1. proc[p] \in ProcRow
    BY DEF IInv, Types
  <2>2. c \in ProcRow
    BY <2>1 DEF ProcRow, SyncState
  <2>3. c.sync = "PENDING_SYNC" /\ c.attempts = 0
    BY <2>1 DEF ProcRow
  <2>4. c.state = proc[p].state /\ c.protocol = proc[p].protocol
    BY <2>1 DEF ProcRow
  <2>5. proc' = [proc EXCEPT ![p] = c]
    BY DEF ManualRetry, IInv, Types
  <2> QED
    BY <2>2, <2>3, <2>4, <2>5 DEF IInv, Types
<1>5. UNCHANGED <<versions, rows, mem, job, accepted, doubt, crashes, restarts>>
  BY DEF ManualRetry, relay
<1>6. \A w \in Worker : Held(w) => job[w].row \notin FailedRows(p)
  BY DEF IInv, HeldRow, FailedRows
<1>7. Types'
  <2>1. <<"SYNC_MANUAL_RETRY", first>> \in AuditId
    BY <1>2 DEF AuditId
  <2>2. audit' \subseteq AuditId
    BY <1>1, <2>1 DEF IInv, Types
  <2>3. retries' \in Nat
    <3>1. retries' = retries + 1
      BY DEF ManualRetry
    <3>2. retries \in Nat
      BY DEF IInv, Types
    <3> QED
      BY <3>1, <3>2
  <2> QED
    BY <1>3, <1>4, <1>5, <2>2, <2>3 DEF IInv, Types
<1>8. Unasked'
  BY <1>2, <1>4, <1>5 DEF IInv, Unasked, UnaskedRow
<1>9. Versions'
  BY <1>3, <1>4, <1>5 DEF IInv, Versions, FailedRows
<1>10. HeldRow' /\ OneHolder'
  BY <1>3, <1>5, <1>6 DEF IInv, HeldRow, OneHolder, Held
<1>11. OnlyCurrentIsSent'
  BY <1>4, <1>5 DEF IInv, OnlyCurrentIsSent, HeldRow, Held, Current, Protocol
<1>12. MirrorsOutbox'
  <2>1. Mirrors(p)'
    <3>1. <<p, proc'[p].protocol>> = first
      BY <1>2, <1>4
    <3> QED
      BY <1>1, <1>2, <1>3, <1>4, <3>1 DEF Mirrors
  <2>2. ASSUME NEW q \in Process, q # p, proc[q].state = "FINALIZED" PROVE Mirrors(q)'
    <3>1. <<q, proc[q].protocol>> \in Protocol
      BY <2>2 DEF IInv, Types, ProcRow, Versions, Protocol
    <3>2. <<q, proc[q].protocol>> \notin FailedRows(p)
      BY <2>2 DEF FailedRows
    <3> QED
      BY <1>3, <1>4, <2>2, <3>1, <3>2 DEF IInv, MirrorsOutbox, Mirrors
  <2> QED
    BY <1>4, <2>1, <2>2 DEF MirrorsOutbox
<1>13. ExhaustionSignalled'
  BY <1>1, <1>3 DEF IInv, ExhaustionSignalled
<1>14. Copies'
  <2>1. \A s \in FailedRows(p) : outbox[s].status # "DELIVERED" /\ ~RowLocked(s)
    BY <1>6 DEF FailedRows, RowLocked, Held
  <2>2. \A s \in Protocol : RowLocked(s)' <=> RowLocked(s)
    BY <1>5 DEF RowLocked
  <2> QED
    BY <1>3, <1>5, <2>1, <2>2 DEF IInv, Copies, Held
<1> QED
  BY <1>7, <1>8, <1>9, <1>10, <1>11, <1>12, <1>13, <1>14 DEF IInv

\* Every step of the specification keeps the invariant.
LEMMA NextInv == IInv /\ [Next]_vars => IInv'
<1> SUFFICES ASSUME IInv, [Next]_vars PROVE IInv'
  OBVIOUS
<1>1. ASSUME NEW p \in Process, Api(p) PROVE IInv'
  BY <1>1, FinalizeInv, UnfinalizeInv, RequestSyncInv, HydrateInv, ManualRetryInv DEF Api
<1>2. CASE Restart
  BY <1>2, RestartInv
<1>3. ASSUME NEW w \in Worker, Cycle(w) \/ Crash(w) PROVE IInv'
  <2>1. CASE Claim(w) \/ MarkSyncing(w) \/ Commit(w) \/ Crash(w)
    BY <2>1, ClaimInv, MarkSyncingInv, CommitInv, CrashInv
  <2>2. CASE Publish(w)
    BY <2>2, SettleInv DEF Publish
  <2>3. CASE PublishFails(w)
    BY <2>3, SettleInv DEF PublishFails
  <2>4. CASE DigestMismatch(w)
    BY <2>4, SettleInv DEF DigestMismatch
  <2> QED
    BY <1>3, <2>1, <2>2, <2>3, <2>4 DEF Cycle
<1>4. ASSUME NEW r \in Protocol, BackoffElapses(r) PROVE IInv'
  BY <1>4, BackoffElapsesInv
<1>5. CASE UNCHANGED vars
  <2>1. UNCHANGED <<db, relay>> /\ UNCHANGED <<mem, crashes, retries, restarts>>
    BY <1>5 DEF vars, db, relay
  <2> QED
    BY <2>1, MemStep DEF IInv, Types, Unasked
<1> QED
  BY <1>1, <1>2, <1>3, <1>4, <1>5 DEF Next

\* IInv is an inductive invariant.
THEOREM Invariance == Spec => []IInv
<1> QED
  BY InitInv, NextInv, PTL DEF Spec

\* The variables have their types, and the CHECK constraints of the processes
\* table hold: sync_attempts never exceeds the budget although three handlers
\* write it, and a sync state other than NOT_REQUESTED implies FINALIZED.
THEOREM TypeCorrect == Spec => []TypeOK
<1>1. IInv => TypeOK
  <2> SUFFICES ASSUME IInv PROVE TypeOK
    OBVIOUS
  <2>1. ASSUME NEW p \in Process
        PROVE  /\ proc[p].attempts <= MaxAttempts
               /\ proc[p].sync # "NOT_REQUESTED" => proc[p].state = "FINALIZED"
    <3>1. proc[p] \in ProcRow
      BY DEF IInv, Types
    <3>2. CASE proc[p].state = "FINALIZED"
      <4>1. <<p, proc[p].protocol>> \in Protocol
        BY <3>1, <3>2 DEF IInv, Versions, ProcRow, Protocol
      <4> QED
        BY <3>2, <4>1, AttemptsAssumption
           DEF IInv, Types, MirrorsOutbox, Mirrors, OutboxRow
    <3>3. CASE proc[p].state # "FINALIZED"
      BY <3>1, <3>3, AttemptsAssumption DEF IInv, Unasked, UnaskedRow, ProcRow
    <3> QED
      BY <3>2, <3>3
  <2> QED
    BY <2>1 DEF IInv, Types, TypeOK
<1> QED
  BY <1>1, Invariance, PTL

\* What an inspector sees of the export is what the outbox has.
THEOREM ProcessMirrorsOutbox == Spec => []MirrorsOutbox
<1> QED
  BY Invariance, PTL DEF IInv

\* No copy beyond the publishes in doubt: FOR UPDATE SKIP LOCKED and the single
\* transaction are enough for any number of workers.
THEOREM AtMostOnceBeyondDoubt == Spec => []ExactUnlessInDoubt
<1>1. IInv => ExactUnlessInDoubt
  <2> SUFFICES ASSUME IInv, NEW r \in Protocol
               PROVE  /\ accepted[r] <= doubt[r] + 1
                      /\ outbox[r].status = "DELIVERED" => accepted[r] = doubt[r] + 1
    BY DEF ExactUnlessInDoubt
  <2>1. accepted[r] \in Nat /\ doubt[r] \in Nat
    BY DEF IInv, Types
  <2>2. CASE RowLocked(r)
    <3>1. PICK w \in Worker : Held(w) /\ job[w].row = r
      BY <2>2 DEF RowLocked, Held
    <3>2. accepted[r] = doubt[r] + (IF job[w].stored THEN 1 ELSE 0)
      BY <3>1 DEF IInv, Copies
    <3> QED
      BY <2>1, <3>2 DEF IInv, Copies
  <2>3. CASE ~RowLocked(r)
    BY <2>1, <2>3 DEF IInv, Copies
  <2> QED
    BY <2>2, <2>3
<1> QED
  BY <1>1, Invariance, PTL

\* Nothing is given up early or without the administrator's signal.
THEOREM GivenUpIsSignalled == Spec => []ExhaustionSignalled
<1> QED
  BY Invariance, PTL DEF IInv

\* A protocol whose finalization was cancelled is never on its way to the
\* broker, although its outbox row stays and is claimed again and again.
THEOREM CancelledIsNotSent == Spec => []OnlyCurrentIsSent
<1> QED
  BY Invariance, PTL DEF IInv

\* A delivered row stays delivered: nobody holds it, a new row replaces only
\* an absent one, and a manual retry resets only failed ones.
THEOREM DeliveredStays == Spec => DeliveredIsFinal
<1> DEFINE Kept == \A r \in Protocol : outbox[r].status = "DELIVERED"
                                        => outbox'[r].status = "DELIVERED"
<1>1. ASSUME IInv, [Next]_vars PROVE [Kept]_vars
  <2> SUFFICES ASSUME IInv, Next PROVE Kept
    BY <1>1
  <2>1. ASSUME UNCHANGED outbox PROVE Kept
    BY <2>1
  <2>2. ASSUME NEW p \in Process, Api(p) PROVE Kept
    <3>1. CASE Finalize(p)
      <4>1. outbox[<<p, versions[p] + 1>>].status = "ABSENT"
        BY <3>1, BoundsAssumption DEF Finalize, IInv, Types, Versions, Protocol
      <4> QED
        BY <3>1, <4>1 DEF Finalize, IInv, Types
    <3>2. CASE ManualRetry(p)
      BY <3>2 DEF ManualRetry, FailedRows
    <3>3. CASE Unfinalize(p) \/ RequestSync(p) \/ Hydrate(p)
      BY <3>3, <2>1 DEF Unfinalize, RequestSync, Hydrate, db
    <3> QED
      BY <2>2, <3>1, <3>2, <3>3 DEF Api
  <2>3. ASSUME NEW w \in Worker, Cycle(w) \/ Crash(w) PROVE Kept
    <3>1. CASE Commit(w)
      <4>1. outbox[job[w].row].status # "DELIVERED"
        BY <3>1 DEF Commit, IInv, HeldRow, Held
      <4> QED
        BY <3>1, <4>1 DEF Commit, IInv, Types
    <3>2. CASE ~Commit(w)
      BY <2>1, <2>3, <3>2 DEF Cycle, Crash, Claim, MarkSyncing, Publish,
         PublishFails, DigestMismatch, Settle, db
    <3> QED
      BY <3>1, <3>2
  <2>4. ASSUME NEW r \in Protocol, BackoffElapses(r) PROVE Kept
    BY <2>4 DEF BackoffElapses, IInv, Types
  <2>5. CASE Restart
    BY <2>1, <2>5 DEF Restart, db
  <2> QED
    BY <2>2, <2>3, <2>4, <2>5 DEF Next
<1> QED
  BY <1>1, Invariance, PTL DEF Spec, DeliveredIsFinal

=============================================================================
