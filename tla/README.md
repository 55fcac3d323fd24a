# Kontur: verification project

Kontur compares the stages of a building's documentation (project, working,
as-built) by a matrix of rules and prepares a protocol that an inspector signs and
that is sent to an external information system. This directory holds TLA+
modules of the parts of the backend in which order matters, TLC configurations
that check them on small instances, and TLAPS proofs of what matters most for
any instance. Paths below are relative to `src/backend/src/kontur/` unless they
start with `src/`.

Contents: 1 the system, 2 modules and code, 3 runs, 4 proofs, 5 findings,
6 not modelled, 7 plan, 8 how to run.

## 1. The system

### Parts, their state and operations

| Part | State | Operations |
|---|---|---|
| Process workspace (`application/runtime.py`, `application/review.py`) | `_items`: one `ProcessRecord` per process (state, files, bodies, findings, evidence groups, selections, attempts, sync state) in the memory of the API process; rows in PostgreSQL, bodies in an object store | create, attach a file, reopen, run the matrix, review, bulk confirm, select a revision, verify, complete, finalize, unfinalize, request sync, hydrate after a restart |
| Endpoints (`presentation/api.py`) | none of their own | the upload coroutine on the event loop; every inspector endpoint a plain function on the thread pool |
| Pipeline worker (`application/pipeline_worker.py`) | queue, generation and Event of each process, one daemon thread | submit, wait, wait_all, loop, finish |
| Process store (`infrastructure/db/process_store.py`, `schema.sql`) | tables of processes, files, findings, protocols, outbox, audit | save, save_finding, replace_findings, save_evidence_groups, materialize_finalized |
| Outbox relay (`infrastructure/sync_relay.py`, `outbox.py`, `outbox_worker.py`, `src/scripts/relay_outbox.py`) | outbox rows, sync columns of processes | claim with lease, mark SYNCING, publish, record the outcome, back off, give up, manual retry |
| Broker and inbox (`infrastructure/broker.py`, `inbox.py`, `inbox_worker.py`, `src/scripts/consume_inbox.py`) | quorum queue, dead-letter queue, delivery counts, inbox rows | publish, deliver, classify, persist, settle, return, dead-letter |
| Status tables (`domain/statuses.py`, `domain/state_machines.py`) | none | transition tables, human-only statuses |
| Matrix run (`application/process_pipeline.py`, `evaluate.py`, `pipeline.py`, `comparators.py`, `room_compare.py`, extractors, `revision_resolver.py`, ...) | none between calls | files and selections in, findings and evidence out |
| Reader (`application/process_pipeline.py`, `infrastructure/pdf_guard.py`, `ocr_tesseract.py`, `ocr_rapid.py`, `pdfium_tokens.py`) | one child process per PDF, a second one for scanned pages with its pool of workers, a deadline and a count of repeats | read a file, repeat, give up, close a pool, make a passport |
| Passports (`application/passport.py`) | none | cipher, revision, sheet, stage and approval of a document |
| Intake and limits (`application/intake.py`, `archive_expand.py`, `presentation/upload_limits.py`) | none | accept or refuse a file, expand an archive |
| Access (`presentation/auth.py`, `rbac.py`, `infrastructure/access_control.py`) | none | token to subject, roles of an operation, access to an object |
| Protocol assembly and export (`application/protocol.py`, `protocol_export.py`) | none | payload, DOCX, XML, PDF |
| Inspector's page (`src/web/src/LiveWorkspace.tsx`, `LiveUpload.tsx`, `live.ts`) | the findings, documents, status, card, protocol, marks and comment on the screen; one press at a time | upload, choose an etalon, open a card, decide, confirm the marked ones, finalize, download |
| Caches, storage integrity, RiN client, gateway, offline evaluation | see section 6 | |

### How they interact

An upload attaches files to the record, writes bodies and rows, sets the process
to `PARSING` and submits it to the pipeline worker. The worker runs the matrix in
its own thread on the same record, without a lock, and sets `READY`. An inspector
reviews findings and moves the process `READY -> VERIFYING -> COMPLETED ->
FINALIZED`; finalizing asks the store for the next version of the building object,
then writes the process, an immutable protocol and an outbox
row in one transaction. A relay worker, another operating-system process, claims
the row, publishes it and commits the outcome together with the sync columns of
the process. A consumer, again another process, receives the message, writes an
inbox row and settles the message after the commit. The API never learns of the
relay's writes except by loading the process again. The inspector's page sends the
requests of one press one after another and keeps what their answers say; a card
loads beside them, and colleagues call the same endpoints. A run reads its files one
by one; each PDF is parsed in a child process that is killed at a deadline, and
its scanned pages go to a second child with a pool of its own.

### What is hard

* Interleaving without a lock: endpoints on a thread pool, a coroutine, the run
  thread and calls to the database between a check and the assignment it guards.
* Two copies of everything: memory and table, stale after the relay wrote or
  after a restart.
* At-least-once everything: leases, crashes between a publish and its commit,
  redelivery counted by the broker, sessions that outlive their connection.
* Budgets: four attempts of the relay, four returns of the broker, eight parse
  attempts of a process.
* Several processes of one object that share a series of protocol versions.
* Loss inside a run: a file that cannot be parsed in time is missing from it, and a
  scan whose OCR was too slow has lost its cipher, so another document may be the
  last one of its chain.
* Children that hang, die, break their pool or raise, each with its own repeat rule,
  while the run must end and must not give one file the words of another.
* A page that lags behind its service: an answer lost before or after its request was
  handled, a late card, a colleague's step between two requests of one press.
* Numbers read out of a table: a window around a label also holds the cells of its
  neighbours, and joining, units and preferences decide which number it is.
* Coalescing: submits of one process answered by one run, with items that enter
  the queue in another order than their generations.

### What makes each part correct

* Workspace: a signature stands only on the numbers it was given for; no process
  gets past `PARSING` with a file nothing compared; the protocol says what the
  tables say; what was decided survives a run with the same numbers; a restart
  loads what was shown.
* Worker: nobody waits on an Event nothing will set; a wait returns only after a
  run that began after the latest submit; one run at a time, no submit run twice.
* Protocols: the versions of an object are a series without gaps that nothing
  changes; an inspector who got an answer finds that protocol in it; a refusal
  leaves no trace.
* Matrix run: a document is compared against the last revision of its chain, or the
  one the inspector chose; a verdict follows from what those documents say; one
  room has one verdict; a choice in one chain moves nothing in another.
* Numbers: the number of a rule is a cell of its page that stands beside the label and
  not one of another row, a citation or a row number.
* Changes between revisions: what the inspector sees as changed was read in both; the
  catalogue calls current what the run compares against.
* Reader: a document reads as it would alone; every file is answered, read or refused; a
  run ends however children behave.
* Page and paper: an idle page shows what the service has; what it calls the protocol is
  the final one; screen and files say the same.
* Intake: every file of a request is attached or answered with a reason, none twice.
* Relay: process row and outbox row agree; one copy per event except after a
  publish nobody recorded; nothing given up early or silently; nothing cancelled
  is sent; every finalized protocol is delivered or given up.
* Inbox: an effect happens once; nothing is acknowledged without it; an unreadable
  message keeps a copy; no message circulates for ever.

`PROJECT.json` lists the places in the code where each of these could break.

## 2. Modules and code

| Module | Models |
|---|---|
| `Statuses` | the status sets and transition tables of the domain |
| `SyncRelay` | outbox, relay workers, the finalizing side of the API, manual retry |
| `OnceEffect` | abstract: an effect recorded once, copies confirmed only after it |
| `Inbox` | broker queue and inbox consumers; implements `OnceEffect` |
| `RunService` | abstract: one run at a time, each for everything asked before it |
| `PipelineWorker` | the worker's queue, Events, thread; implements `RunService` |
| `Workspace` | one process: memory, tables, requests, run; uses `RunService` as its queue |
| `ProtocolVersions` | abstract: an append-only series of protocol versions |
| `Protocols` | finalizations and cancellations of several processes of one object; implements `ProtocolVersions` |
| `Picking` | operators: what is left of a list when some of its places are kept |
| `OcrPage` | operators: the words of a page, from its text layer or from two engines and three turns |
| `Passports` | operators: what a document says it is |
| `Reader` | how a run reads its files through children, pools, deadlines and repeats; uses `Passports` |
| `Revisions` | operators: which revision is the etalon of a chain |
| `Comparators` | operators: rounding, tolerances, classes, ranges, normative bounds |
| `Measures` | operators: printed numbers, separators, units, conversion |
| `Numbers` | operators: the number beside a label, its two readings and when they agree |
| `Provisions` | operators: the clause "room N is provided with ..." and the sheet that is silent about it |
| `Rooms` | operators: the rooms of a sheet and the one verdict per room |
| `RuleCascade` | operators: the gates of one rule, from its pages to its card |
| `Intake` | operators: what an upload request accepts and answers |
| `Package` | a process and its package: uploads, archives, supersedes links, runs, choices; uses the eight operator modules above |
| `RevisionDiff` | operators on a `Package`: the shadow run of a replaced etalon and the changes it shows |
| `Catalog` | operators on a `Package`: the list of documents of the page |
| `Access` | operators: tokens, roles, objects |
| `Paper` | operators: the protocol, what RiN gets and what its three files show |
| `InspectorApi` | operators: each endpoint of the page as an answer and a next state; uses `Access`, `Paper` |
| `LiveClient` | the inspector's page, its requests, lost answers and a colleague; uses `InspectorApi` |
| `MCSyncRelay`, `MCInbox`, `MCWorkspace`, `MCProtocols`, `MCPackage`, `MCReader`, `MCLiveClient` | model values, pages and small matrices for TLC |
| `SyncRelayProofs`, `InboxProofs`, `PipelineWorkerProofs`, `WorkspaceProofs`, `ProtocolsProofs`, `PackageProofs`, `ReaderProofs`, `LiveClientProofs` | theorems |

`PipelineWorker` and `Workspace` meet in `RunService`: the first is shown to
implement it, the second uses its `Request`, `Begin` and `End` where the code calls
`submit`, starts a run and ends one, and `covered = requested` where it waits.

**Grain.** A step is what one thread does between two points at which another can
act.

* `SyncRelay`: a relay cycle is one transaction, but the broker is called inside
  it, so `Claim`, `MarkSyncing`, `Publish` (or `PublishFails`, `DigestMismatch`)
  and `Commit` are steps; the row claimed and the process updated are locked
  between them and their writes invisible. `Publish` also has the outcomes in which
  the broker stored the message and the confirm was lost. API handlers are atomic here; `mem` is the API's copy,
  loaded by `Hydrate` after `Restart`. `BackoffElapses` is the clock.
* `Inbox`: `Deliver`, `Persist` or `PersistFails` and `Settle` are steps; `Drop`
  takes the message from a consumer that does not know it, `Crash` ends a session.
  `count` is the broker's `x-delivery-count`.
* `PipelineWorker`: one `with self._lock` section, one queue operation, one wake-up
  or the end of a run is a step; `submit` puts its item after its section.
* `Workspace`: a step is the code between two calls of the database or object
  store. A snapshot is taken in one step and written by `Write` in a later one.
  Upload is a coroutine: while one is in its code (`LoopTaken`) no request is
  taken from the socket, so it interleaves only with handlers already on the pool
  and with the run. `heap` holds the record objects under the client that made or
  loaded them and `item` says which of them `_items` holds, since two requests can
  load the same process. `Fault` is any call that raises.

* `Protocols`: a call to the store is a step, a transaction of the store is atomic
  (it holds the advisory lock of the object to its end), and what an endpoint does
  between two calls is a step. `DoubtfulCommit` is a commit whose answer is lost.
* `Package`: an upload request, a run and a choice are steps; what happens between
  them is in `Workspace` and `PipelineWorker`. Everything a run computes is
  operators: it takes the last revisions (`Revisions`), runs every rule on them
  (`RuleCascade`, `Numbers`, `Comparators`, `Rooms`, `Provisions`), and keeps the cards
  in `last`. `RunEnds` picks the files it lost and the ones it read blindly.
  What each rule reads in each file follows from the tokens of its pages alone;
  `readings` holds it from `Init` on, so that it is computed once, and no action
  changes it.
* `Reader`: a step takes a file, starts, answers, kills or loses a child, ends its repeat, or
  makes the passport. The deadline is an action (`Expire`) that may come whenever the
  run polls; a child that hangs is one that takes no more steps. What pages say is computed by `OcrPage` and `Passports`
  when the child answers.
* `LiveClient`: a press becomes a job, the requests it still has to send; answering
  the first of them (handler, and what the page does up to the next request) is a
  step. A click on a finding sets no `busy`, so its card loads beside the job and
  arrives at any time. `Lost` loses an answer before or after the handler ran;
  `Other` is a colleague's request. In `InspectorApi` a handler is atomic: what
  overlapping handlers do to each other is in `Workspace`.

**Definitions named `Faulty...`** stand before the definition they would replace and are
bugs one could introduce at that place. No specification uses them; putting one
in shows that a property notices it.

`PROJECT.json` "map" names the source lines behind every definition.

## 3. Runs

All runs disable the deadlock check: requests, crashes and retries are bounded, so
a model stops when they are used up and everything is settled. The exception is
`worker`, where it is on: an idle thread can always call `wait_all` again.

| Run | Instance | Shows |
|---|---|---|
| `relay` | 1 process, 2 workers, 2 versions (the payload of the second is corrupt), 4 attempts, 2 crashes, 2 manual retries, 1 sync request, 1 restart | shape and CHECK constraints; `MirrorsOutbox`; `ExactUnlessInDoubt`; `ExhaustionSignalled`; `OnlyCurrentIsSent`; and under fairness `SettlesUnlessBlocked`: every finalized protocol is delivered or given up unless a row of a cancelled one stands before it |
| `relay_blocked` (violated) | 2 processes, 1 worker, one finalization may be cancelled | finding 2 |
| `relay_unfinalize` (violated) | 1 process, 1 worker | finding 3 |
| `inbox` | a readable event published twice, one without identity, an unreadable one; 2 consumers, two messages of any of them published; `PersistFails` covers the event of a protocol that has no row | `DeadIsAccountedFor`, `UnreadableIsKept`, `PoisonedAfterBudget`, the refinement of `OnceEffect`, and `QueueDrains` although databases and connections may fail for ever |
| `worker` | 2 processes, 2 threads, 2 submits each | `WaitMeansRun`, the refinement of `RunService`, `EverySubmitIsRun`, `WaitersReturn` |
| `workspace_calm` | 1 client, 7 requests, 3 files, 2 parse attempts, 1 failing call, 1 restart | `TypeOK`, `ProtocolIsClosed`, `MemoryMatchesTable`, `DecisionKept` for requests one after another while runs, a failure and a restart happen anywhere |
| `workspace_overlap` | 2 clients, 6 overlapping requests, 2 files | `SignedForValue` and `EveryFileCompared` under overlap |
| `workspace_forgotten` (violated) | 2 clients, 3 requests | finding 1 |
| `protocols` | 2 processes of 1 object, 2 clients, 4 requests, 3 versions | `AnsweredIsStored`, `FinalizedHasProtocol`, `RefusedIsUndone`, the refinement of `ProtocolVersions` |
| `package` | 3 designs, 3 working documents (one in an archive), 3 files to refuse; requests of up to 2 files, 3 files attached, 1 file lost per run, 2 choices; pages of tokens | `EtalonIsLast`, `VerdictIsGrounded`, `OneVerdictPerRoom`, `NumberIsACell`, `ChangesAreRead`, `CatalogAgrees`, `OthersUnmoved` |
| `reader` | 4 packages out of 11 files (scans of one and three pages, a print, text, an archive and its member, torn, absent and odd ones), 3 parse attempts, 2 faults of children | `TypeOK`, `ReadAsAlone`, `EveryFileAnswered` and, under fairness, `RunEnds` |
| `client` | 1 page, 4 tokens and stores, 2 documents, 2 findings, 2 processes; 3 presses, 1 card loading beside them, 1 lost answer or step of a colleague | `TypeOK`, `IdleShowsServer`, `DownloadedIsFinal`, `FilesShowScreen` |

`TypeOK` of `Inbox`, `PipelineWorker`, `Protocols` and `Package` and the invariants
`EffectOnce` and `NobodyForgotten` are in no run: their theorems (section 4) hold for
every instance, these ones included.

**Bounds.** `MaxAttempts = 4`, `DeliveryLimit = 4` and the `ParseAttempts = 3` of
`reader` are the code's; `relay_blocked` and `relay_unfinalize` use 2 attempts,
since neither counterexample needs more. Two workers or
consumers are what a lock, a lease or a stale session needs; two versions are what
a cancelled and repeated finalization needs; two submits per process, from two
threads, are what reordering needs. `MaxParse` is 8 in the code; `workspace_calm`
uses 2 so that the limit is reached within seven requests, `workspace_overlap`
keeps 8. Seven serial requests hold create, upload, a decision, a selection or a
repeated upload, and the three steps to a protocol. Three files are what one file
known, one selected and one new need. `MaxCrash`, `MaxRetry`, `MaxPublished`, `MaxRequest`,
`MaxFault`, `MaxRestart`, `MaxVersion`, `MaxSubmit`, `MaxPress`, `MaxTrouble`,
`MaxLoads`, `MaxChoices` and `MaxUnread` bound only how often the environment acts. Two processes and two requests are what a race
for a version needs, four requests hold a finalization, its cancellation and a
second finalization against another process. In `package` three designs of two
identities, one of them approved, give a chain with a last revision, a superseded
one and a second volume; the working documents are two revisions by name and one
inside an archive; two choices are what replacing a chosen etalon needs; the rules of
`MCPackage` reach every comparator and every gate at least once, and its pages hold
a label with its cell, another row beside it, a grouped number, a unit and a
standard. In `reader` two faults let a child and its repeat fail, or a child of each
kind. Three presses in `client` hold an upload, a decision and a finalization or a download;
one trouble is a lost answer or a colleague, anywhere between their requests. Sizes count in units of a bound of 3 per file and 5 per
request, so a file may be too large alone or only together.
The matrix of `MCWorkspace` reads the first file, or the selected
ones, so that a second file changes a finding in some histories and not in others.

**Symmetry** is used for the clients of `workspace_overlap` and `workspace_forgotten`
only. No run with a temporal property that needs fairness has it.

**Conditions in the Workspace properties.** `clash` records whether requests were
past their wait at the same time, and `cut` whether a failure or restart stopped
something half-way. `SignedForValue` needs neither. `EveryFileCompared` holds
however inspectors overlap, as long as no upload overlaps them; what happens then
is finding 1. `ProtocolIsClosed`, `MemoryMatchesTable` and `DecisionKept` are
for requests one after another (the run of the matrix still overlaps them): two
overlapping writes of one row keep the later one by design of the store. Apart from
`SignedForValue` all exclude histories with `cut`, since no code restores a half-done
step; the hazards list says so. Proving them showed two conditions that the runs
were too small to ask for:

* past `MaxParse` attempts the table takes no snapshot any more, so memory lists files
  that no row and no evidence has: `EveryFileCompared`, like `MemoryMatchesTable`, is
  about records within the limit;
* `put_finding` precedes `save_finding`. A save that fails leaves the card of the run in
  memory and the decision in the table; the next run looks for a decision in memory
  only, and may overwrite one about the same numbers. And a machine card need not be
  `AUTO_NO_DIFFERENCE` to replace a decision: any status but `CANDIDATE` does, with the
  same numbers too. `DecisionKept` excludes the first and says the second.

**Fairness.** `SyncRelay`: `run_forever` polls as long as the worker lives (`WF` of each
worker's cycle) and time passes (`WF` of each back-off); a crash is bounded, since
a worker that always dies delivers nothing. Publishing successfully is not assumed:
the budget ends the attempts. `Inbox`: `InboxConsumerWorker.run_forever` opens a
failed session again, so a waiting message is delivered and a consumer ends what it
started; nothing is assumed about databases or connections that work.
`PipelineWorker`: threads are scheduled and runs end; nobody has to submit or wait.
`Reader`: the thread of the run goes on, and the deadline of `poll` comes for a child
that hangs; no child has to answer.

**Conditions in the other properties.** `SettlesUnlessBlocked` leaves out what
finding 2 shows. `ReadAsAlone` leaves out files whose OCR was given up or
raised on a page. `ChangesAreRead` is about one etalon with a
predecessor per group (section 5). `IdleShowsServer` is about a page nothing
disturbed since its last refresh: a lost answer and a colleague's step are known to
it only with the next one.

## 4. Proofs

Each theorem holds for every value of the constants (any processes, workers,
messages, threads, files, rules, budgets, bounds), from the `ASSUME`s of its module,
which type the constants; `Workspace` also assumes that a run of the matrix returns
statuses a machine may set (`CompareType`; `assert_machine_only` in
`application/process_pipeline.py` raises on any other) and that the absence of a
signature is no value (`NoSignature`), and `LiveClient` that a matrix knows finitely many
rules and that a token names one of the two objects of the model or none. `Package`
assumes that no rule of the matrix is one of the free search, that tolerances are not
negative (those of `data/matrix` are not), that what a document says of rooms stands on
numbered pages and its tables have numbered lines, and that a token counts its brackets
and its number, if any, has digits (`TypedRow`); that what the number extractor finds is
a number again is proved (`ExtractedTyped`). `Reader` assumes that ids are
made as `IdAssumption` says and that layers and engines return lists of words with a
place on their page (`Page`). Each rests on one inductive
invariant `IInv`, with a lemma per action, and follows from `Spec => []IInv`. TLC
checked each `IInv` on instances like those of section 3 before it was proved.

* `SyncRelayProofs`: `TypeOK`, `MirrorsOutbox`, `ExactUnlessInDoubt`,
  `ExhaustionSignalled`, `OnlyCurrentIsSent`, `DeliveredIsFinal`. `MirrorsOutbox` is
  not inductive: what a worker commits must be about the row that is still current,
  still to be sent (`HeldRow`) and held by nobody else (`OneHolder`); a new row
  starts at zero attempts because a record that can be finalized never asked for
  a sync (`Unasked`); it lands on no old row (`Versions`). `Copies` counts what the
  broker has for a row held, waiting or delivered.
* `InboxProofs`: `TypeOK`, `EffectOnce`, `AckedIsReceived`, `UnreadableIsKept`,
  `PoisonedAfterBudget`, `DeadIsAccountedFor` and the refinement of `OnceEffect`.
  Between a session's commit and its settlement anything may happen to message
  and row, so `Sessions` says what a committed session still knows, and
  `RowMatches` that the row of a readable event can only say RECEIVED.
* `PipelineWorkerProofs`: `TypeOK`, `NobodyForgotten`, `WaitMeansRun`,
  `WaitAllMeansIdle` and the refinement of `RunService`. `Counters`: a registered
  Event that is set means the latest submit was answered, which needs every submit
  to have one item in one place (`Unique`), so that none runs twice (`NotYetRun`).
  `Waiters`: a thread read Event and generation together, so an unchanged
  generation means an unchanged Event.
* `ProtocolsProofs`: `TypeOK`, `AnsweredIsStored`, `FinalizedHasProtocol`,
  `RefusedIsUndone` and the refinement of `ProtocolVersions`. What a request may
  still roll back depends on what it copied before it waited, so the invariant says
  for each phase what its copies know of record and row.
* `PackageProofs`: `HeadIsLast`, about the operator that chooses etalons, for any
  pool whose links are mutual: the etalon of a chain may be one, nothing in the
  pool replaces it unless it was chosen, and it is an unapproved design only where no
  other revision of its identity is approved. `AcceptedInOrder` and `EveryFileAnswered`
  about the operators of `Intake`, for every request; `TypeOK` (the links of the
  attached files stay mutual through uploads, archives and supersedes links) and, from
  it and `HeadIsLast`, `EtalonIsLast`. Then facts about whole runs of the matrix.
  `OneVerdictPerRoom`: every step that collects what the volumes say of rooms keeps at
  most one card of a kind for a room (`OneEach`), the kinds share no room they both judge
  (`RoomsApart`), and a card's code tells which rule and which room it is of.
  `CatalogAgrees`: the list of the inspector parses the files without the links the
  upload made, so it agrees with the run where neither a link nor a lost file comes
  between them (`SamePool`); there a document is in one chain only (`OneIdentity`) and a
  chain shows one document as current (`OneHead`). `OthersUnmoved`: a step compares two
  pools, and a chain comes about in three ways (`Home`); one none of whose documents is
  near a moved document (`Apart`) is a chain of both pools with the same etalon
  (`ChainStays`).
  Last, `VerdictIsGrounded`, about the cascade itself. The gates of a rule stand in lists
  of lists, and the first that fails closes the rule with a status that is no verdict
  (`FirstFailing`, `AnyGate`); so a verdict on a value comes from a rule all of whose gates
  passed, and then what is left of the volumes of each stage could be read and is not
  one file (`Compares`, `PairedTyped`). Each comparator accuses only of different numbers,
  whatever its rounding and tolerances (`ValuesDiffer`, `TablesDiffer`), but for the
  operators `ne`, `lt`, `gt` and `range`, which may accuse equal ones. A blind page has
  no reading (`PagesRead`), the cards of rooms have rooms (`RoomsNot`), and the free search
  only suspects. The invariant adds that the readings are those of the files (`Known`)
  and that a run opens no archive twice, so the heads it compared stay those of the
  process (`ExpandTwice`).
  `NumberIsACell` adds what such a reading is, for pages of any tokens. The depth that
  `_note_flags` keeps and clamps at zero is the most that was opened since any token
  before (`DepthIsMost`), so a note is a number in brackets (`NotesInBrackets`), also
  where brackets are nested or a closing one stands alone. A candidate that stands in
  the row of its label and is no note comes from the cells of that label, and a label
  with cells always has such a candidate (`CandidateOfSpan`); since the ranks have a
  least one (`BestOf`), the number found is a cell wherever any label has one
  (`ExtractedIsACell`). Then the verdict, being grounded, compared it.
* `ReaderProofs`: `EveryFileAnswered`. While a run goes on, every file it knows of is
  in exactly one place (`Partition`): waiting, at hand, read, opened or refused. The step
  that needs care is opening an archive, whose members must be new; `IdAssumption` says
  how ids are made. A run that fails loses the file at hand and is left out. And
  `ReadAsAlone`: `Reading` says of every step of thread and child how far the pages at
  hand are on the way to those of the file read alone: a child has to read exactly the
  pages without a layer (`Targets`), what it has filled in is what OCR makes of them
  unless one raised, and it answers when none is left. A child that hangs, dies or
  loses its pool is thrown away with all it filled in, and the pages start from the
  layer again. For that what stands on the pages is never looked at.
  `TypeOK` does look at it. Whatever words a layer or an engine returns, folded, turned
  or cleared of hidden text, are words in a row (`VectorTyped`, `OcrTyped`); of some words
  one is read first, by page, height, column and place (`FirstIs`); so each field of a
  passport is a value that was read, the name's, the index's or none (`PassportTyped`,
  `ManifestTyped`). The invariant adds what a child may have filled in when it hangs,
  dies or answers (`ChildShape`).
* `WorkspaceProofs`: `TypeOK` and `SignedForValue`. A signature can only be right in
  the table if it was right in every place it passed through: the record in memory,
  the cards a request or a run carries, and the records copied for a protocol. So
  `GoodFinding` is part of the shape of all of them (`Types`), and `Knows` says which
  fields of a job a thread may rely on at each of its steps: which record it works
  on, that the record and the row are still there, what it carries. `Keeps` is what
  every step but a restart guarantees the other threads: no record goes away.
  Its second part: `EveryFileCompared`, `ProtocolIsClosed`, `MemoryMatchesTable` and
  `DecisionKept`, all about states in which something has ended, so a second invariant
  says what holds in the middle. It has three layers, each proved inductive with those
  before it. `Turns`: a request past its wait excludes runs, an upload excludes every
  other request unless `clash` says otherwise, and which requests come to which
  steps. `Files`: what record, row and run know of the files. Between uploads and runs
  every file is in its row, has a body and, past `PARSING`, is in the evidence
  (`Settled`); an upload and a run break that and restore it step by step (`UploadStep`,
  `RunStep`), and an inspector must not break it however many overlap (`Tame`).
  `Agree`: the fields in which record and row may differ at each step of a request or
  a run (`ClientDiffers`, `RunDiffers`), what a finalized row needs of its protocol
  (`Closed`) and what a run may put in the place of a decision (`Keeping`). `Made` says
  that a record in memory has a row, except while its upload makes it.
* `LiveClientProofs`: `TypeOK`, `IdleShowsServer`, `DownloadedIsFinal` and
  `FilesShowScreen`. First the service alone: every endpoint, whoever calls it, leaves
  good processes good (`GoodProcess`). A version in force is on a paper, every paper of
  that number is the one made from the findings as they are now (`InForce`), and a
  finalized process has no candidates. That is why a new number must be above every
  old one. Then the page. None of the properties is inductive, since each is about
  the end of a sequence of requests: `Todo` says that what a press still has to ask is
  a rest of one of the sequences of the code, whatever the answers were; `FreshOK` that
  the parts a refresh has brought are of the process as it still is; `SureOK` and
  `ProtocolOK` what a press of the protocol knows between its requests, undisturbed;
  and `ScreenOK` that the screen is right unless the page is `unsure` or its job `dirty`.

Only model-checked:

* liveness (`SettlesUnlessBlocked`, `CurrentSettles`, `QueueDrains`, `EverySubmitIsRun`,
  `WaitersReturn`, `RunEnds`): the prover handles neither fairness nor ENABLED;
* `ChangesAreRead` of `Package`, which is no theorem of every instance: it tells a
  change from the numbers of the two revisions alone. A change is ambiguous where a
  reading disagrees with itself, and lists rooms where the rule compares nothing else;
  a predecessor of another cipher stays an etalon of its own and its value is then shown
  as removed; and without the etalon the second run may find a conflict of names that the
  recorded link had settled (section 5), so that nothing of the predecessor is shown. The
  pages of the run have none of these.

## 5. Findings

1. `workspace_forgotten`: an upload between an inspector endpoint's check and its
   assignment has its `PARSING` overwritten; the run is skipped and the file is
   never compared (`application/runtime.py:528`, `application/review.py:105`).
2. `relay_blocked`: the outbox row of a cancelled protocol is claimed first for
   ever and rolled back; rows behind it neither go out nor are given up
   (`infrastructure/sync_relay.py:82`, `infrastructure/outbox.py:34`).
3. `relay_unfinalize`: `unfinalize` decides on a stale copy of the sync state
   (`application/runtime.py:976`).

Observed while modelling, without a run of their own:

* Two inspectors complete a process at once: the snapshot of one is taken before and
  written after the finalization the other goes on to, and the finalized row is
  `COMPLETED` again (`application/runtime.py:312`, `domain/state_machines.py:168`).
  The protocol stays in its series.
* `B22,5` passes the pattern of a concrete class, but the ladder does not have it, so
  `compare_class_not_lower` raises, the run raises and the process stays in
  `PARSING` (`application/comparators.py:217`).
* A run adds its findings and removes none of earlier runs, while a choice of a
  revision replaces the machine's (`application/runtime.py:585`, `735`).
* A newer revision that cannot be parsed is not in the pool, so its predecessor is the
  etalon; a scan whose OCR timed out loses its cipher and leaves its chain. The answer of
  `check_stale_revision` is read nowhere (`application/revision_resolver.py:505`).
* `_pipeline_files` passes no manifest section, so a choice compares without the
  sections the upload gave (`application/runtime.py:744`).
* Losing the value of one of two volumes turns a request for clarification into a
  verdict on the other (`application/evaluate.py:1140`).

Numbers (`application/extractors/number.py`, `application/normalize.py`):

* Windows of overlapping anchors take tokens on the left of a label into the reading:
  `100 200 Площадь` reads 100, `12 500 площадь` reads 12, and `100 см площадь` reads 100 m,
  where `normalize.py:322` and `number.py:335` promise the number of the label with its unit.
* `м2` as one token gives the number 2; adjacent cells `12` and `500` are joined to 12500.
* The second reading compares its first and last number only, so 5, 7, 5 agrees with 5
  although `number.py:7` says both readings must give the same.
* A standard cited right of the number (`100 см СП 54.13330.2022`) makes the second
  reading 2022, and the card asks for clarification.

Reading of a package (`application/process_pipeline.py`, `infrastructure/pdf_guard.py`):

* Second opinions on a cipher run the engines in the thread of the run, without a
  child or a deadline (`process_pipeline.py:346`, against `pdf_guard.py:3`).
* A child that dies closes its pipe; `poll` is true, `recv` raises `EOFError`, and the
  whole run fails instead of the file (`pdf_guard.py:103`). A child that is killed
  leaves the workers of its pool behind.
* OCR that was given up can turn a refused approval into none, so a refused design may
  become an etalon. The cipher comes from the first page that has one, second
  opinions from the last. Lines of a page and vector ciphers are not folded to Cyrillic.

Page and paper:

* A decision goes to another process when the id of the finding exists there too
  (`application/runtime.py:627`, against its docstring; `presentation/api.py:197`).
* The open card is not loaded again after an upload or a choice (`LiveWorkspace.tsx:368`);
  marks and comment survive a change of process.
* `decide` reports that a decision was not taken when only the next card failed to load.
  A stale status leads `finalizeProtocol` to a draft.
* `sessionFromToken` takes a whole token as the subject, which the decision endpoint
  refuses with 403.
* `request_sync` changes memory before the store refuses it with 409
  (`infrastructure/db/process_store.py:804`).
* `LiveWorkspace.tsx:612` says there is no bulk confirmation; `confirmChecked` is one.
* The check of a DOCX for forbidden words looks into compressed bytes.
  `MemoryProcessStore.clear` keeps its full protocols. `detect_scenario` never answers FULL.

Catalogue, changes and clauses:

* The list of documents is made without recorded links and without OCR
  (`presentation/api.py:555`), so a document may be current in it and no etalon of the run.
* A finding that only the earlier revision had is never shown as removed.
* The run after an upload drops the fragments of earlier revisions, and the endpoint of
  the changes answers 409 until an etalon is chosen again.
* Two etalons with predecessors in one group of evidence overwrite each other
  (`application/runtime.py:837`), which `ChangesAreRead` leaves out; of a rule only the
  first group of the shadow run counts; of a table the line that decided is compared
  with one that may be another line.
* The second run takes the etalon out of its chain. Two earlier files of one cipher
  whose names give one number are then no longer held together by its link, their names
  conflict (`application/revision_resolver.py:399`, `471`), and no value of the
  predecessor is shown: every parameter of the etalon looks added.
* A shadow run that raises answers an error after the findings were replaced. A choice
  does not attach the members of an archive.

## 6. Not modelled

* Numbers: 8 of the 100 numeric rules have a regular expression of their own; a token
  holds at most one number; how a word or a unit is spelled is given.
* The text and geometry extractors, `element_match` and suspicion scores: given to
  `Package` as what a document says.
* Manifest sections, `completeness_catalog` and scenarios of the matrix; 7z and rar,
  which a run does not expand either; the text of docx and xml.
* OCR engines, images, strokes and layout: external libraries; `OcrPage` starts at the
  words they answer.
* The demo kit and its declared predecessors, audit and usability endpoints.
* `MemoryProcessStore` and `claim_memory` as stores of relay and protocols: the
  service runs PostgreSQL.
* How a JWT is verified: `Access` starts at the answer of PyJWT.
* Of the page: page images, zoom, confidence chips and the recorder. Of the paper:
  layout, rationale, the section on revision changes and the choice of an older version.
* Redis caches and the storage integrity walk: not reached by the processes here.
* RiN client and gateway: stateless translation of one request.
* Offline evaluation, scoring, submission tools and migrations: batch programs.

## 7. Plan

1. Done: relay, inbox, worker, workspace, protocols and the matrix over a package,
   the reading of a package and the inspector's page, with proofs.
2. `Delivery`: relay and inbox together, from a finalized protocol to one effect.
3. `Workspace`: the liveness of `PARSING ~> READY` without failures.

## 8. How to run

    tlc -workers 2 -config relay.cfg MCSyncRelay
    tlc -workers 2 -config worker.cfg PipelineWorker
    tlc -workers 2 -config package.cfg MCPackage
    tlapm PipelineWorkerProofs.tla

Each run ends within about two and a half minutes on two cores.
