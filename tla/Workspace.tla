----------------------------- MODULE Workspace -----------------------------
(***************************************************************************)
(* One verification process in the API (application/runtime.py, the        *)
(* endpoints of presentation/api.py and application/review.py): the record *)
(* in memory, its rows in PostgreSQL, the requests that change it and the  *)
(* background run of the matrix.  The run queue is the abstract            *)
(* RunService, which PipelineWorker implements.                            *)
(*                                                                         *)
(* Inspector endpoints are plain functions on the thread pool and overlap  *)
(* freely; the upload endpoint is a coroutine, so two uploads interleave   *)
(* only while one awaits its body, and while one is in its code no request *)
(* is taken from the socket; the run has a thread of its own.  A           *)
(* thread gives way where the code does I/O: a step is the code between    *)
(* two calls of the database or of the object store.  A snapshot is taken  *)
(* in one step and written in a later one.                                 *)
(*                                                                         *)
(* An upload carries one file.  Archives that expand into files, the       *)
(* declared predecessor of a file and the synchronisation state (SyncRelay *)
(* has it) are left out.  Definitions named Faulty... are bugs one could   *)
(* introduce at that place; no behaviour of Spec uses them.                *)
(***************************************************************************)
EXTENDS Naturals, Statuses

CONSTANTS
  File, Key, Value, Client,
  Compare(_, _, _),   \* the finding under a key, from the files compared and
                      \* the files the inspector selected
  Worker,             \* the thread of the pipeline
  NoOne, NoRecord, NoFinding, Unsigned, None,
  MaxParse,           \* parse_attempts the table accepts (8 in the code)
  MaxRequest, MaxFault, MaxRestart      \* bounds of the model

Actor == Client \cup {Worker}

\* assert_machine_only: what a run may return.
Machine == FindingStatus \ HumanOnlyStatuses

ASSUME Actors == Worker \notin Client /\ NoOne \notin Actor
\* A card that nobody decided about carries no value as its signature.
ASSUME NoSignature == \A v \in Value : v # Unsigned
ASSUME Bounds == MaxParse \in Nat /\ MaxRequest \in Nat /\ MaxFault \in Nat
                   /\ MaxRestart \in Nat
ASSUME CompareType ==
  \A k \in Key, F, A \in SUBSET File :
    Compare(k, F, A) \in [status : Machine, value : Value, signed : {Unsigned}]

VARIABLES
  heap,       \* ProcessRecord objects, under the client that made them
  item,       \* whose record _items holds, or NoOne
  table,      \* the process, its findings, groups and selections in the
              \* database and its bodies in the object store
  protocol,   \* the record the last materialized protocol was made from
  job,        \* what each thread is doing
  requested, covered, current, upTo,    \* RunService
  clash,      \* which requests were past their wait at the same time:
              \* "none", those of "inspectors", or an "upload" and another
  cut,        \* a failure or a restart stopped something half-way
  requests, faults, restarts

runVars == <<requested, covered, current, upTo>>
data == <<heap, item, table, protocol>>
history == <<clash, cut, requests, faults, restarts>>
vars == <<data, job, runVars, history>>

P == "process"
Runs == INSTANCE RunService WITH Process <- {P}, NoProcess <- "none"

-----------------------------------------------------------------------------
Finding ==
  [status : FindingStatus, value : Value, signed : Value \cup {Unsigned}]

Record ==
  [state : ProcessState, files : SUBSET File, blobs : SUBSET File,
   findings : [Key -> Finding \cup {NoFinding}], approved : SUBSET File,
   groups : SUBSET File, attempts : Nat]

ASSUME Absent == NoRecord \notin Record

Ops == {"create", "upload", "review", "confirm", "select", "verify",
        "complete", "finalize", "unfinalize", "run"}
Steps == {"idle", "get", "install", "body", "attach", "blob", "reopen",
          "sign", "save", "open", "assign", "assemble", "materialize",
          "audited", "compute", "replace", "clear", "regroup", "write",
          "groups", "settle"}

Job == [pc : Steps, op : Ops \cup {"none"}, rec : Actor \cup {NoOne},
        held : Record \cup {NoRecord}, arg : File \cup Key \cup {None},
        cards : UNION {[K -> Finding] : K \in SUBSET Key}, next : Steps]

Idle == [pc |-> "idle", op |-> "none", rec |-> NoOne, held |-> NoRecord,
         arg |-> None, cards |-> <<>>, next |-> "idle"]

Fresh ==
  [state |-> "PARSING", files |-> {}, blobs |-> {},
   findings |-> [k \in Key |-> NoFinding], approved |-> {},
   groups |-> {}, attempts |-> 0]

Init ==
  /\ heap = [c \in Client |-> NoRecord] /\ item = NoOne
  /\ table = NoRecord /\ protocol = NoRecord
  /\ job = [a \in Actor |-> Idle]
  /\ Runs!Init
  /\ clash = "none" /\ cut = FALSE
  /\ requests = 0 /\ faults = 0 /\ restarts = 0

-----------------------------------------------------------------------------
\* The record a thread works on, and the ends of a step.
Mine(a) == heap[job[a].rec]

Change(a, r) == heap' = [heap EXCEPT ![job[a].rec] = r]

GoTo(a, pc) == job' = [job EXCEPT ![a].pc = pc]

Return(a) ==
  /\ job' = [job EXCEPT ![a] = Idle]
  /\ IF a = Worker THEN Runs!End ELSE UNCHANGED runVars

\* A bug: it leaves the files of the row as they are.
FaultyRow(base, r) ==
  [base EXCEPT !.state = r.state, !.attempts = r.attempts]

\* The columns of the process row.
Row(base, r) == [base EXCEPT !.state = r.state, !.files = r.files,
                             !.attempts = r.attempts]

\* _persist(record): the snapshot is taken here and written by Write.
Persist(a, r, next) ==
  /\ Change(a, r)
  /\ job' = [job EXCEPT ![a].pc = "write", ![a].next = next,
                        ![a].held = Row(Fresh, r)]

Candidates(r) ==
  {k \in Key : r.findings[k] # NoFinding /\ r.findings[k].status = "CANDIDATE"}

\* A bug: it looks only for confirmed violations.
FaultyUndecided(r) ==
  \A k \in Key :
    r.findings[k] # NoFinding => r.findings[k].status # "CONFIRMED_VIOLATION"

Undecided(r) ==
  \A k \in Key : r.findings[k] # NoFinding => r.findings[k].signed = Unsigned

Uploading(c) == job[c].op \in {"create", "upload"}

\* The event loop is in the code of another upload.
LoopTaken(c) ==
  \E d \in Client \ {c} : Uploading(d) /\ job[d].pc # "body"

InFlight(c) == job[c].pc \notin {"idle", "get"}

Quiet == requested = covered /\ \A a \in Actor : job[a].pc = "idle"

-----------------------------------------------------------------------------
\* A request arrives.  Only an upload makes a process; it waits for nothing,
\* and its answer is what tells the clients the name of the process.
Arrive(c, op) ==
  /\ job[c].pc = "idle" /\ requests < MaxRequest
  /\ requests' = requests + 1
  /\ \A d \in Client : job[d].op # "create"
  /\ IF op = "create" THEN item = NoOne /\ table = NoRecord
                      ELSE table # NoRecord
  /\ ~ LoopTaken(c)
  /\ job' = [job EXCEPT ![c].op = op,
                        ![c].pc = IF op = "create" THEN "body" ELSE "get"]
  /\ UNCHANGED <<data, runVars, clash, cut, faults, restarts>>

\* get: wait for the runs asked for, then take the record in memory or load
\* it.  A review looks only at the processes in memory.
Get(c) ==
  /\ job[c].pc = "get" /\ covered = requested
  /\ IF item # NoOne
       THEN /\ job' = [job EXCEPT ![c].pc = "body", ![c].rec = item]
            /\ UNCHANGED heap
       ELSE IF job[c].op = "review"
       THEN job' = [job EXCEPT ![c] = Idle] /\ UNCHANGED heap
       ELSE /\ heap' = [heap EXCEPT ![c] =
                         [table EXCEPT !.blobs = @ \cap table.files]]
            /\ job' = [job EXCEPT ![c].pc = "install", ![c].rec = c]
  /\ LET others == {d \in Client \ {c} : InFlight(d)} IN
       clash' = IF others = {} THEN clash
                ELSE IF \E d \in others \cup {c} : Uploading(d) THEN "upload"
                ELSE IF clash = "none" THEN "inspectors" ELSE clash
  /\ UNCHANGED <<item, table, protocol, runVars, cut, requests, faults, restarts>>

Install(c) ==
  /\ job[c].pc = "install"
  /\ item' = c
  /\ GoTo(c, "body")
  /\ UNCHANGED <<heap, table, protocol, runVars, history>>

\* A request that the code refuses (state, role, comment, unknown card or
\* file), or that has nothing to do.
Reject(c) ==
  /\ job[c].pc = "body" /\ job[c].op # "create"
  /\ Return(c)
  /\ UNCHANGED <<data, history>>

-----------------------------------------------------------------------------
\* The upload of a new process and of one that exists.
Create(c) ==
  /\ job[c].pc = "body" /\ job[c].op = "create" /\ ~ LoopTaken(c)
  /\ item' = c
  /\ heap' = [heap EXCEPT ![c] = Fresh]
  /\ job' = [job EXCEPT ![c].pc = "write", ![c].next = "attach",
                        ![c].rec = c, ![c].held = Fresh]
  /\ UNCHANGED <<table, protocol, runVars, history>>

\* attach_file: a file the record has is not attached again.
Attach(c, f) ==
  /\ \/ job[c].pc = "attach"
     \/ /\ job[c].pc = "body" /\ job[c].op = "upload" /\ ~ LoopTaken(c)
        /\ Mine(c).state # "FINALIZED"
  /\ f \notin Mine(c).files
  /\ LET r == [Mine(c) EXCEPT !.files = @ \cup {f}] IN
     /\ Change(c, r)
     /\ job' = [job EXCEPT ![c].pc = "write", ![c].next = "blob",
                           ![c].arg = f, ![c].held = Row(Fresh, r)]
  /\ UNCHANGED <<item, table, protocol, runVars, history>>

\* keep_blob: the body goes to the object store, then the snapshot again.
KeepBlob(c) ==
  /\ job[c].pc = "blob"
  /\ table' = [table EXCEPT !.blobs = @ \cup {job[c].arg}]
  /\ Persist(c, [Mine(c) EXCEPT !.blobs = @ \cup {job[c].arg}], "reopen")
  /\ UNCHANGED <<item, protocol, runVars, history>>

\* A bug: it reopens only a process nobody verified yet.
FaultyReopened(op, s) == IF op = "upload" /\ s = "READY" THEN "PARSING" ELSE s

\* The state an upload leaves behind: a new process is in PARSING already.
Reopened(op, s) ==
  IF op = "upload" /\ <<s, "PARSING">> \in ProcessTransitions THEN "PARSING" ELSE s

\* reopen_for_upload and schedule_matrix_pipeline.
Reopen(c) ==
  /\ job[c].pc = "reopen"
  /\ IF Mine(c).state = "FINALIZED" /\ job[c].op = "upload"
       THEN UNCHANGED <<heap, runVars>>
       ELSE /\ Change(c, [Mine(c) EXCEPT !.state = Reopened(job[c].op, @)])
            /\ Runs!Request(P)
  /\ job' = [job EXCEPT ![c] = Idle]
  /\ UNCHANGED <<item, table, protocol, history>>

-----------------------------------------------------------------------------
\* review and confirm_candidates: the new cards are made first, then signed
\* and saved one by one.
Signed(f, to) == [f EXCEPT !.status = to, !.signed = f.value]

Decide(c, cards) ==
  /\ heap[item].state # "FINALIZED"
  /\ job' = [job EXCEPT ![c].pc = "sign", ![c].rec = item, ![c].cards = cards]
  /\ UNCHANGED <<data, runVars, history>>

Review(c) ==
  /\ job[c].pc = "body" /\ job[c].op = "review"
  /\ \E k \in Key,
        to \in HumanOnlyStatuses \cup {"CLARIFICATION_REQUIRED"} :
       LET f == heap[item].findings[k] IN
         /\ f # NoFinding /\ <<f.status, to>> \in FindingTransitions
         /\ Decide(c, [x \in {k} |-> Signed(f, to)])

Confirm(c) ==
  /\ job[c].pc = "body" /\ job[c].op = "confirm"
  /\ \E K \in (SUBSET Candidates(heap[item])) \ {{}} :
       Decide(c, [k \in K |-> Signed(heap[item].findings[k],
                                     "CONFIRMED_VIOLATION")])

\* A bug: it carries the signature over to other numbers.
FaultyCarry(previous, fresh) ==
  IF /\ previous # NoFinding
     /\ previous.status \in HumanOnlyStatuses
     /\ fresh.status = "CANDIDATE"
    THEN [fresh EXCEPT !.status = previous.status, !.signed = previous.signed]
    ELSE fresh

\* _carry_inspector_decision: the same numbers keep the decision.
Carry(previous, fresh) ==
  IF /\ previous # NoFinding
     /\ previous.status \in HumanOnlyStatuses
     /\ fresh.status = "CANDIDATE"
     /\ previous.value = fresh.value
    THEN [fresh EXCEPT !.status = previous.status, !.signed = previous.signed]
    ELSE fresh

\* A card goes into memory: signed by a request, or put by the run.
Sign(a) ==
  /\ job[a].pc = "sign"
  /\ \E k \in DOMAIN job[a].cards :
       LET card == job[a].cards[k]
           new == IF a = Worker THEN Carry(Mine(a).findings[k], card) ELSE card
       IN /\ Change(a, [Mine(a) EXCEPT !.findings[k] = new])
          /\ job' = [job EXCEPT ![a].pc = "save", ![a].arg = k,
                                ![a].cards[k] = new]
  /\ UNCHANGED <<item, table, protocol, runVars, history>>

\* save_finding.
Save(a) ==
  /\ job[a].pc = "save"
  /\ LET k == job[a].arg
         rest == DOMAIN job[a].cards \ {k}
         after == IF a = Worker THEN "regroup" ELSE "open"
     IN /\ table' = [table EXCEPT !.findings[k] = job[a].cards[k]]
        /\ job' = [job EXCEPT
                    ![a].cards = [x \in rest |-> job[a].cards[x]],
                    ![a].arg = None,
                    ![a].pc = IF rest = {} THEN after ELSE "sign"]
  /\ UNCHANGED <<heap, item, protocol, runVars, history>>

\* The first decision opens the verification.
Open(c) ==
  /\ job[c].pc = "open"
  /\ IF Mine(c).state = "READY"
       THEN GoTo(c, "assign") ELSE job' = [job EXCEPT ![c] = Idle]
  /\ UNCHANGED <<data, runVars, history>>

-----------------------------------------------------------------------------
\* verify, complete, finalize and unfinalize: the state is checked, the audit
\* is written, and only then the state is assigned.
Source(op) ==
  CASE op = "complete" -> "VERIFYING" [] op = "finalize" -> "COMPLETED"
    [] op = "unfinalize" -> "FINALIZED" [] OTHER -> "READY"

Target(op) ==
  CASE op \in {"complete", "unfinalize"} -> "COMPLETED"
    [] op = "finalize" -> "FINALIZED" [] OTHER -> "VERIFYING"

\* A bug: it looks only at the cards an inspector has touched.
FaultyCanFinalize(r) ==
  \A k \in Candidates(r) : r.findings[k].signed = Unsigned

CanFinalize(r) == Candidates(r) = {}

Check(c) ==
  /\ job[c].pc = "body"
  /\ job[c].op \in {"verify", "complete", "finalize", "unfinalize"}
  /\ heap[item].state = Source(job[c].op)
  /\ job[c].op \in {"complete", "finalize"} => CanFinalize(heap[item])
  /\ job' = [job EXCEPT ![c].pc = "assign", ![c].rec = item]
  /\ UNCHANGED <<data, runVars, history>>

Assign(c) ==
  /\ job[c].pc = "assign"
  /\ LET r == [Mine(c) EXCEPT !.state = Target(job[c].op)] IN
       IF job[c].op = "finalize"
         THEN Change(c, r) /\ GoTo(c, "assemble")
         ELSE Persist(c, r, "idle")
  /\ UNCHANGED <<item, table, protocol, runVars, history>>

\* finalize after next_protocol_version: the payload is made from memory.
Assemble(c) ==
  /\ job[c].pc = "assemble"
  /\ job' = [job EXCEPT ![c].pc = "materialize", ![c].held = Mine(c)]
  /\ UNCHANGED <<data, runVars, history>>

\* finalize, on any exception: the state it found comes back.
RollBack(c) == Change(c, [Mine(c) EXCEPT !.state = "COMPLETED"])

\* materialize_finalized: protocol and process in one transaction, if the
\* snapshot still says FINALIZED.
Materialize(c) ==
  /\ job[c].pc = "materialize"
  /\ IF job[c].held.attempts <= MaxParse /\ job[c].held.state = "FINALIZED"
       THEN /\ table' = Row(table, job[c].held)
            /\ protocol' = job[c].held
            /\ UNCHANGED heap
       ELSE RollBack(c) /\ UNCHANGED <<table, protocol>>
  /\ job' = [job EXCEPT ![c] = Idle]
  /\ UNCHANGED <<item, runVars, history>>

-----------------------------------------------------------------------------
\* What a matrix run is given of a record.
Input(r) == [Fresh EXCEPT !.files = r.files, !.approved = r.approved]

\* select_revision runs the matrix inside the request.
Select(c) ==
  /\ job[c].pc = "body" /\ job[c].op = "select"
  /\ heap[item].state \in {"READY", "VERIFYING"}
  /\ Undecided(heap[item])
  /\ \E f \in heap[item].files \cap table.blobs :
       /\ heap' = [heap EXCEPT ![item].approved = @ \cup {f},
                               ![item].blobs = @ \cup {f}]
       /\ job' = [job EXCEPT ![c].pc = "audited", ![c].rec = item,
                             ![c].arg = f]
  /\ UNCHANGED <<item, table, protocol, runVars, history>>

Audited(c) ==
  /\ job[c].pc = "audited"
  /\ table' = [table EXCEPT !.approved = @ \cup {job[c].arg}]
  /\ job' = [job EXCEPT ![c].pc = "compute", ![c].arg = None,
                        ![c].held = Input(Mine(c))]
  /\ UNCHANGED <<heap, item, protocol, runVars, history>>

\* _run_scheduled: only a process in PARSING is run.
Begin ==
  /\ Runs!Begin(P)
  /\ job' = [job EXCEPT ![Worker] =
       IF item # NoOne /\ heap[item].state = "PARSING"
         THEN [Idle EXCEPT !.pc = "compute", !.op = "run", !.rec = item,
                           !.held = Input(heap[item])]
         ELSE Idle]
  /\ UNCHANGED <<data, history>>

Skip ==
  /\ current # "none" /\ job[Worker].pc = "idle"
  /\ Runs!End
  /\ UNCHANGED <<data, job, history>>

\* run_process_pipeline: the files listed at the start whose body is there.
Compute(a) ==
  /\ job[a].pc = "compute"
  /\ LET F == job[a].held.files \cap Mine(a).blobs
         A == job[a].held.approved
     IN job' = [job EXCEPT
                 ![a].pc = IF a = Worker THEN "sign" ELSE "replace",
                 ![a].held = [Fresh EXCEPT !.files = F],
                 ![a].cards = [k \in Key |-> Compare(k, F, A)]]
  /\ UNCHANGED <<data, runVars, history>>

\* _replace_machine_findings, in memory and then in the database.
Replace(c) ==
  /\ job[c].pc = "replace"
  /\ Change(c, [Mine(c) EXCEPT !.findings = job[c].cards])
  /\ GoTo(c, "clear")
  /\ UNCHANGED <<item, table, protocol, runVars, history>>

Clear(c) ==
  /\ job[c].pc = "clear"
  /\ table' = [table EXCEPT !.findings = job[c].cards]
  /\ job' = [job EXCEPT ![c].pc = "regroup", ![c].cards = <<>>]
  /\ UNCHANGED <<heap, item, protocol, runVars, history>>

Regroup(a) ==
  /\ job[a].pc = "regroup"
  /\ Persist(a, [Mine(a) EXCEPT !.groups = job[a].held.files], "groups")
  /\ UNCHANGED <<item, table, protocol, runVars, history>>

\* save_evidence_groups; a run of the worker uses up a parse attempt.
SaveGroups(a) ==
  /\ job[a].pc = "groups"
  /\ table' = [table EXCEPT !.groups = Mine(a).groups]
  /\ Change(a, [Mine(a) EXCEPT !.attempts = IF a = Worker THEN @ + 1 ELSE @])
  /\ GoTo(a, "settle")
  /\ UNCHANGED <<item, protocol, runVars, history>>

Settle(a) ==
  /\ job[a].pc = "settle"
  /\ Persist(a, [Mine(a) EXCEPT !.state =
                   IF a = Worker /\ @ = "PARSING" THEN "READY" ELSE @], "idle")
  /\ UNCHANGED <<item, table, protocol, runVars, history>>

-----------------------------------------------------------------------------
\* A bug: it does not check the number of attempts.
FaultyAccepted(r) == r.state # "FINALIZED"

\* save: a finalized snapshot and one past the attempts are refused.
Accepted(r) == r.state # "FINALIZED" /\ r.attempts <= MaxParse

Write(a) ==
  /\ job[a].pc = "write"
  /\ IF Accepted(job[a].held)
       THEN /\ table' = Row(IF table = NoRecord THEN Fresh ELSE table,
                            job[a].held)
            /\ IF job[a].next = "idle" THEN Return(a)
                 ELSE /\ job' = [job EXCEPT ![a].pc = job[a].next,
                                 ![a].next = "idle", ![a].held = NoRecord]
                      /\ UNCHANGED runVars
       ELSE Return(a) /\ UNCHANGED table
  /\ UNCHANGED <<heap, item, protocol, history>>

\* The database, the object store or the matrix raises; finalize puts the
\* state back.
Fault(a) ==
  /\ faults < MaxFault
  /\ job[a].pc \notin {"idle", "get", "body"}
  /\ IF job[a].pc \in {"assemble", "materialize"}
       THEN RollBack(a)
       ELSE UNCHANGED heap
  /\ Return(a)
  /\ faults' = faults + 1 /\ cut' = TRUE
  /\ UNCHANGED <<item, table, protocol, clash, requests, restarts>>

\* The API process dies: memory and queue are lost, nothing is rescheduled.
Restart ==
  /\ restarts < MaxRestart
  /\ heap' = [c \in Client |-> NoRecord] /\ item' = NoOne
  /\ job' = [a \in Actor |-> Idle]
  /\ requested' = [p \in {P} |-> 0] /\ covered' = [p \in {P} |-> 0]
  /\ current' = "none" /\ upTo' = 0
  /\ restarts' = restarts + 1 /\ cut' = (cut \/ ~ Quiet)
  /\ UNCHANGED <<table, protocol, clash, requests, faults>>

Handler(c) ==
  \/ Get(c) \/ Install(c) \/ Reject(c)
  \/ Create(c) \/ (\E f \in File : Attach(c, f)) \/ KeepBlob(c) \/ Reopen(c)
  \/ Review(c) \/ Confirm(c) \/ Open(c)
  \/ Check(c) \/ Assign(c) \/ Assemble(c) \/ Materialize(c)
  \/ Select(c) \/ Audited(c) \/ Replace(c) \/ Clear(c)

Thread(a) ==
  \/ Sign(a) \/ Save(a) \/ Compute(a)
  \/ Regroup(a) \/ SaveGroups(a) \/ Settle(a) \/ Write(a)

Next ==
  \/ \E c \in Client : Handler(c) \/ \E op \in Ops \ {"run"} : Arrive(c, op)
  \/ \E a \in Actor : Thread(a) \/ Fault(a)
  \/ Begin \/ Skip \/ Restart

Spec == Init /\ [][Next]_vars

-----------------------------------------------------------------------------
\* Every variable has the shape the code and schema.sql give it.
TypeOK ==
  /\ heap \in [Client -> Record \cup {NoRecord}] /\ item \in Client \cup {NoOne}
  /\ table \in Record \cup {NoRecord} /\ protocol \in Record \cup {NoRecord}
  /\ table # NoRecord => table.attempts <= MaxParse
  /\ job \in [Actor -> Job]
  /\ requested \in [{P} -> Nat] /\ covered \in [{P} -> Nat]
  /\ current \in {P, "none"} /\ upTo \in Nat
  /\ clash \in {"none", "inspectors", "upload"} /\ cut \in BOOLEAN
  /\ requests \in 0..MaxRequest /\ faults \in 0..MaxFault /\ restarts \in 0..MaxRestart

Cards(r) == IF r = NoRecord THEN {}
            ELSE {r.findings[k] : k \in Key} \ {NoFinding}

\* ADR-0001: a human-only status stands, in memory, in the table and in the
\* protocol, only on the numbers an inspector decided about, whatever runs,
\* requests and restarts do at the same time.
SignedForValue ==
  \A r \in {heap[c] : c \in Client} \cup {table, protocol} :
    \A f \in Cards(r) : f.status \in HumanOnlyStatuses => f.signed = f.value

\* If no upload overlaps another request: outside an upload, a process past
\* PARSING whose rows the table still accepts has every file it lists in its
\* evidence (api.py _upload_documents, runtime.py _run_scheduled).
EveryFileCompared ==
  (/\ clash # "upload" /\ ~ cut /\ item # NoOne
   /\ \A c \in Client : ~ Uploading(c)
   /\ heap[item].attempts <= MaxParse)
    => (heap[item].state # "PARSING"
          => heap[item].files \subseteq heap[item].groups)

\* Requests one after another: the protocol of a finalized process lists the
\* files of the process, all of them compared, says what the table says of
\* every card, and leaves no candidate open (runtime.py finalize).
ProtocolIsClosed ==
  (clash = "none" /\ ~ cut /\ table # NoRecord /\ table.state = "FINALIZED")
    => /\ protocol.files = table.files /\ protocol.files = protocol.groups
       /\ protocol.findings = table.findings
       /\ Candidates(protocol) = {}

\* Requests one after another: when nothing is in progress the record in
\* memory is the one a restart would load (runtime.py _persist, _hydrate).
MemoryMatchesTable ==
  (clash = "none" /\ ~ cut /\ Quiet /\ item # NoOne)
    => (heap[item].attempts <= MaxParse => heap[item] = table)

\* Requests one after another, nothing cut short: a decision leaves the table
\* only for a card of the machine, and only for one with other numbers or one
\* that is no candidate (runtime.py _carry_inspector_decision,
\* select_revision).
DecisionKept ==
  [][\A k \in Key :
       (/\ clash' = "none" /\ ~ cut' /\ table # NoRecord
        /\ table.findings[k] # NoFinding
        /\ table.findings[k].status \in HumanOnlyStatuses
        /\ table'.findings[k] # table.findings[k])
       => /\ table'.findings[k].status \in Machine
          /\ \/ table'.findings[k].value # table.findings[k].value
             \/ table'.findings[k].status # "CANDIDATE"]_vars

\* docs/TZ_TRACEABILITY.md:21: "новый файл — полный прогон", whatever the
\* other requests do.
NewFileIsRun ==
  (~ cut /\ Quiet /\ item # NoOne /\ heap[item].state # "PARSING")
    => heap[item].files \subseteq heap[item].groups

=============================================================================
