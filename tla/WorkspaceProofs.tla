-------------------------- MODULE WorkspaceProofs --------------------------
(***************************************************************************)
(* Proofs about Workspace for any files, rules, matrix, clients and        *)
(* bounds.  The first part: the shape of the variables, and that a         *)
(* signature of an inspector stands only on the numbers it was given for.  *)
(* The second: memory, table and protocol agree as long as requests do     *)
(* not overlap, and every file is compared as long as no upload overlaps   *)
(* another request.                                                        *)
(*                                                                         *)
(* SignedForValue alone is not inductive: the cards a thread is about to   *)
(* put into memory or into the table, and the records it has copied, must  *)
(* be signed rightly too.  Here that is part of the shape of a card        *)
(* (GoodFinding), and Knows says which of its fields a thread may rely on  *)
(* at each of its steps.                                                   *)
(*                                                                         *)
(* The properties of the second part speak of quiet states; that they hold *)
(* there rests on what holds in the middle of a request or a run.  The     *)
(* invariant has three layers, each inductive with the help of those       *)
(* below it:                                                               *)
(*   Turns    who can be under way together with whom,                     *)
(*   Files    which of its files a record, its row and a run have, after   *)
(*            which step,                                                  *)
(*   Agree    in which fields a record may differ from its row, at which   *)
(*            step.                                                        *)
(* Made, between the last two, says that a record in memory has a row.     *)
(***************************************************************************)
EXTENDS Workspace, TLAPS

GoodFinding ==
  {f \in Finding : f.status \in HumanOnlyStatuses => f.signed = f.value}

GoodCards == UNION {[K -> GoodFinding] : K \in SUBSET Key}

GoodRecord ==
  [state : ProcessState, files : SUBSET File, blobs : SUBSET File,
   findings : [Key -> GoodFinding \cup {NoFinding}], approved : SUBSET File,
   groups : SUBSET File, attempts : Nat]

GoodJob ==
  [pc : Steps, op : Ops \cup {"none"}, rec : Client \cup {NoOne},
   held : GoodRecord \cup {NoRecord}, arg : File \cup Key \cup {None},
   cards : GoodCards, next : Steps]

\* The variables have their shape, and every card is signed rightly.
Types ==
  /\ heap \in [Client -> GoodRecord \cup {NoRecord}]
  /\ item \in Client \cup {NoOne}
  /\ table \in GoodRecord \cup {NoRecord}
  /\ protocol \in GoodRecord \cup {NoRecord}
  /\ table # NoRecord => table.attempts <= MaxParse
  /\ job \in [Actor -> GoodJob]

RunsOK ==
  /\ requested \in [{P} -> Nat] /\ covered \in [{P} -> Nat]
  /\ current \in {P, "none"} /\ upTo \in Nat

HistoryOK ==
  /\ clash \in {"none", "inspectors", "upload"} /\ cut \in BOOLEAN
  /\ requests \in 0..MaxRequest /\ faults \in 0..MaxFault
  /\ restarts \in 0..MaxRestart

\* A request that makes the process has not written its row yet.
Making(j) ==
  j.op = "create" /\ (j.pc = "body" \/ (j.pc = "write" /\ j.next = "attach"))

\* What a thread in job j can rely on, with h, i and t for heap, item, table.
KnowsOf(a, j, h, i, t) ==
  /\ j.pc # "idle" => t \in GoodRecord \/ Making(j)
  /\ j.pc \notin {"idle", "get"} /\ (j.pc = "body" => j.op # "create")
       => j.rec \in Client /\ h[j.rec] \in GoodRecord
  /\ j.pc = "body" /\ j.op # "create" => i \in Client
  /\ j.pc = "install" => j.rec = a
  /\ j.pc \in {"write", "compute", "regroup", "materialize", "replace", "clear"}
       => j.held \in GoodRecord
  /\ j.pc \in {"sign", "save"} /\ a = Worker => j.held \in GoodRecord
  /\ j.pc \in {"blob", "audited"} \/ (j.pc = "write" /\ j.next = "blob")
       => j.arg \in File
  /\ j.pc = "save" => j.arg \in DOMAIN j.cards
  /\ j.pc \in {"replace", "clear"} => j.cards \in [Key -> GoodFinding]
  /\ j.pc = "write" => j.next \in {"idle", "attach", "blob", "reopen", "groups"}

Knows(a, j) == KnowsOf(a, j, heap, item, table)

Threads == \A a \in Actor : Knows(a, job[a])

\* The record that requests find is there, and runs are asked for only when
\* the process has a row.
Loaded == item \in Client => heap[item] \in GoodRecord
Asked == requested[P] # 0 => table \in GoodRecord

IInv ==
  /\ Types
  /\ RunsOK
  /\ HistoryOK
  /\ Threads
  /\ Loaded
  /\ Asked

-----------------------------------------------------------------------------
(* Cards and records.                                                      *)

\* The cards of a job are cards under some of the keys.
LEMMA CardsFacts ==
  ASSUME NEW x \in GoodCards
  PROVE DOMAIN x \in SUBSET Key /\ x \in [DOMAIN x -> GoodFinding]
BY DEF GoodCards

LEMMA CardsIntro ==
  ASSUME NEW K \in SUBSET Key, NEW x \in [K -> GoodFinding]
  PROVE x \in GoodCards
BY DEF GoodCards

\* A record with rightly signed cards is a record, and there.
LEMMA GoodIsRecord == GoodRecord \subseteq Record /\ NoRecord \notin GoodRecord
<1>1. [Key -> GoodFinding \cup {NoFinding}] \subseteq [Key -> Finding \cup {NoFinding}]
  BY DEF GoodFinding
<1>2. GoodRecord \subseteq Record
  BY <1>1 DEF GoodRecord, Record
<1> QED
  BY <1>2, Absent

\* A job without cards.
LEMMA NoCards == <<>> \in GoodCards
<1>1. <<>> \in [{} -> GoodFinding]
  OBVIOUS
<1> QED
  BY <1>1, CardsIntro

\* A thread that does nothing has a well-formed job and relies on nothing.
LEMMA IdleJob == Idle \in GoodJob /\ \A a \in Actor : Knows(a, Idle)
BY NoCards DEF Idle, GoodJob, Steps, Ops, Knows, KnowsOf

\* A new record, and a record of which one part is exchanged.
LEMMA FreshRecord == Fresh \in GoodRecord /\ Fresh.attempts = 0
BY DEF Fresh, GoodRecord, ProcessState

LEMMA RecordParts ==
  ASSUME NEW r \in GoodRecord
  PROVE /\ \A s \in ProcessState : [r EXCEPT !.state = s] \in GoodRecord
        /\ \A F \in SUBSET File : /\ [r EXCEPT !.files = F] \in GoodRecord
                                  /\ [r EXCEPT !.blobs = F] \in GoodRecord
                                  /\ [r EXCEPT !.groups = F] \in GoodRecord
                                  /\ [r EXCEPT !.approved = F] \in GoodRecord
        /\ \A n \in Nat : [r EXCEPT !.attempts = n] \in GoodRecord
        /\ \A c \in [Key -> GoodFinding] : [r EXCEPT !.findings = c] \in GoodRecord
<1>1. [Key -> GoodFinding] \subseteq [Key -> GoodFinding \cup {NoFinding}]
  OBVIOUS
<1> QED
  BY <1>1 DEF GoodRecord

\* One card is exchanged.
LEMMA RecordCard ==
  ASSUME NEW r \in GoodRecord, NEW k \in Key, NEW f \in GoodFinding
  PROVE [r EXCEPT !.findings[k] = f] \in GoodRecord
<1> DEFINE new == [r.findings EXCEPT ![k] = f]
<1>1. new \in [Key -> GoodFinding \cup {NoFinding}]
  BY DEF GoodRecord
<1>2. [r EXCEPT !.findings[k] = f] = [r EXCEPT !.findings = new]
  OBVIOUS
<1> QED
  BY <1>1, <1>2 DEF GoodRecord

\* Row copies the columns of a record.
LEMMA RowRecord ==
  ASSUME NEW base \in GoodRecord, NEW r \in GoodRecord
  PROVE Row(base, r) \in GoodRecord /\ Row(base, r).attempts = r.attempts
BY DEF Row, GoodRecord

-----------------------------------------------------------------------------
(* What every step of a thread does.                                       *)

\* No record, once it is there, goes away or loses its shape.
Keeps ==
  /\ heap' \in [Client -> GoodRecord \cup {NoRecord}]
  /\ \A c \in Client : heap[c] \in GoodRecord => heap'[c] \in GoodRecord
  /\ item' \in Client \cup {NoOne}
  /\ item \in Client => item' \in Client
  /\ item' \in Client => heap'[item'] \in GoodRecord
  /\ table' \in GoodRecord \cup {NoRecord}
  /\ table \in GoodRecord => table' \in GoodRecord
  /\ table' # NoRecord => table'.attempts <= MaxParse
  /\ protocol' \in GoodRecord \cup {NoRecord}

\* What thread a relies on holds of its own job.
LEMMA Mine1 ==
  ASSUME IInv, NEW a \in Actor
  PROVE job[a] \in GoodJob /\ KnowsOf(a, job[a], heap, item, table)
BY DEF IInv, Types, Threads, Knows

\* A step of a that keeps the records disturbs no other thread.
LEMMA ThreadStep ==
  ASSUME IInv, NEW a \in Actor, Keeps, RunsOK', HistoryOK', Asked',
         job' = [job EXCEPT ![a] = job'[a]], job'[a] \in GoodJob,
         KnowsOf(a, job'[a], heap', item', table')
  PROVE IInv'
<1>1. Types'
  BY DEF IInv, Types, Keeps
<1>2. Threads'
  <2> SUFFICES ASSUME NEW b \in Actor PROVE KnowsOf(b, job'[b], heap', item', table')
    BY DEF Threads, Knows
  <2>1. CASE b = a
    BY <2>1
  <2>2. CASE b # a
    <3>1. job'[b] = job[b] /\ job[b] \in GoodJob
      BY <2>2 DEF IInv, Types
    <3>2. KnowsOf(b, job[b], heap, item, table)
      BY Mine1
    <3> QED
      BY <3>1, <3>2 DEF KnowsOf, Keeps, Making
  <2> QED
    BY <2>1, <2>2
<1>3. Loaded'
  BY DEF Loaded, Keeps
<1> QED
  BY <1>1, <1>2, <1>3 DEF IInv

\* A step that leaves the runs alone.
LEMMA QuietRuns ==
  ASSUME IInv, Keeps, UNCHANGED runVars
  PROVE RunsOK' /\ Asked'
BY DEF IInv, Keeps, RunsOK, Asked, runVars

\* The end of a call.
LEMMA ReturnStep ==
  ASSUME IInv, NEW a \in Actor, Keeps, HistoryOK', Return(a)
  PROVE IInv'
<1>1. RunsOK' /\ Asked'
  <2>1. CASE a = Worker
    BY <2>1 DEF Return, Runs!End, IInv, RunsOK, Asked, Keeps
  <2>2. CASE a # Worker
    BY <2>2, QuietRuns DEF Return
  <2> QED
    BY <2>1, <2>2
<1>2. job' = [job EXCEPT ![a] = Idle] /\ job'[a] = Idle
  BY DEF Return, IInv, Types
<1>3. KnowsOf(a, Idle, heap', item', table')
  BY DEF KnowsOf, Idle
<1> QED
  BY <1>1, <1>2, <1>3, IdleJob, ThreadStep

\* Nothing but the job of a thread changes.
LEMMA KeepData ==
  ASSUME IInv, UNCHANGED data
  PROVE Keeps
BY DEF IInv, Types, Loaded, Keeps, data

LEMMA KeepHistory ==
  ASSUME IInv, UNCHANGED history
  PROVE HistoryOK'
BY DEF IInv, HistoryOK, history

\* Change exchanges one record.
LEMMA KeepHeap ==
  ASSUME IInv, NEW a \in Actor, NEW r \in GoodRecord,
         job[a].rec \in Client, Change(a, r), UNCHANGED <<item, table, protocol>>
  PROVE Keeps
BY DEF IInv, Types, Loaded, Keeps, Change

\* The table changes to a record with no more attempts than it accepts.
LEMMA KeepTable ==
  ASSUME IInv, table' \in GoodRecord, table'.attempts <= MaxParse,
         UNCHANGED <<heap, item, protocol>>
  PROVE Keeps
BY DEF IInv, Types, Loaded, Keeps

-----------------------------------------------------------------------------
(* The initial state.                                                      *)

LEMMA InitInv == Init => IInv
<1> SUFFICES ASSUME Init PROVE IInv
  OBVIOUS
<1> USE DEF Init
<1>1. Types
  BY IdleJob DEF Types
<1>2. RunsOK /\ HistoryOK
  <2>1. cut \in BOOLEAN
    OBVIOUS
  <2>2. clash \in {"none", "inspectors", "upload"}
    OBVIOUS
  <2>3. requests \in 0..MaxRequest /\ faults \in 0..MaxFault /\ restarts \in 0..MaxRestart
    BY Bounds
  <2>4. RunsOK
    BY DEF RunsOK, Runs!Init
  <2> QED
    BY <2>1, <2>2, <2>3, <2>4 DEF HistoryOK
<1>3. Threads
  BY IdleJob DEF Threads, Knows, KnowsOf, Idle
<1>4. Loaded /\ Asked
  BY Actors DEF Loaded, Asked, Runs!Init, Actor
<1> QED
  BY <1>1, <1>2, <1>3, <1>4 DEF IInv

-----------------------------------------------------------------------------
(* Requests arrive, wait and find the record.                              *)

LEMMA ArriveInv ==
  ASSUME IInv, NEW c \in Client, NEW op \in Ops \ {"run"}, Arrive(c, op)
  PROVE IInv'
<1> DEFINE j == [job[c] EXCEPT !.op = op,
                               !.pc = IF op = "create" THEN "body" ELSE "get"]
<1>a. c \in Actor
  BY DEF Actor
<1>1. job[c] \in GoodJob /\ KnowsOf(c, job[c], heap, item, table)
  BY <1>a, Mine1
<1>2. j \in GoodJob /\ j.op = op
        /\ j.pc = (IF op = "create" THEN "body" ELSE "get")
  BY <1>1 DEF GoodJob, Steps
<1>3. job' = [job EXCEPT ![c] = j] /\ job'[c] = j
  BY <1>a DEF Arrive, IInv, Types
<1> HIDE DEF j
<1>4. Keeps /\ UNCHANGED runVars
  BY KeepData DEF Arrive
<1>5. HistoryOK'
  BY Bounds DEF Arrive, IInv, HistoryOK
<1>6. op # "create" => table \in GoodRecord
  BY DEF Arrive, IInv, Types
<1>7. UNCHANGED <<heap, item, table>>
  BY DEF Arrive, data
<1>8. KnowsOf(c, j, heap', item', table')
  BY <1>2, <1>6, <1>7 DEF KnowsOf, Making
<1> QED
  BY <1>a, <1>2, <1>3, <1>4, <1>5, <1>8, QuietRuns, ThreadStep

LEMMA GetInv ==
  ASSUME IInv, NEW c \in Client, Get(c)
  PROVE IInv'
<1>a. c \in Actor
  BY DEF Actor
<1>b. NoOne \notin Client
  BY Actors DEF Actor
<1>1. job[c] \in GoodJob /\ KnowsOf(c, job[c], heap, item, table)
  BY <1>a, Mine1
<1>2. HistoryOK'
  <2>1. clash' \in {"none", "inspectors", "upload"}
    BY DEF Get, IInv, HistoryOK
  <2> QED
    BY <2>1 DEF Get, IInv, HistoryOK
<1>3. UNCHANGED <<item, table, protocol, runVars>> /\ table \in GoodRecord
  BY <1>1 DEF Get, KnowsOf, Making
<1>4. CASE item # NoOne
  <2> DEFINE j == [job[c] EXCEPT !.pc = "body", !.rec = item]
  <2>1. item \in Client /\ heap[item] \in GoodRecord
    BY <1>4 DEF IInv, Types, Loaded
  <2>2. j \in GoodJob /\ j.pc = "body" /\ j.rec = item
    BY <1>1, <2>1 DEF GoodJob, Steps
  <2>3. job' = [job EXCEPT ![c] = j] /\ job'[c] = j /\ UNCHANGED heap
    BY <1>a, <1>4 DEF Get, IInv, Types
  <2> HIDE DEF j
  <2>4. Keeps
    BY <1>3, <2>3, KeepData DEF data
  <2>5. KnowsOf(c, j, heap', item', table')
    BY <1>3, <2>1, <2>2, <2>3 DEF KnowsOf
  <2> QED
    BY <1>a, <1>2, <1>3, <2>2, <2>3, <2>4, <2>5, QuietRuns, ThreadStep
<1>5. CASE item = NoOne /\ job[c].op = "review"
  <2>1. job' = [job EXCEPT ![c] = Idle] /\ UNCHANGED heap
    BY <1>5 DEF Get
  <2>2. Keeps
    BY <1>3, <2>1, KeepData DEF data
  <2>3. Return(c)
    BY <1>3, <2>1, Actors DEF Return, Actor
  <2> QED
    BY <1>a, <1>2, <2>2, <2>3, ReturnStep
<1>6. CASE item = NoOne /\ job[c].op # "review"
  <2> DEFINE j == [job[c] EXCEPT !.pc = "install", !.rec = c]
             r == [table EXCEPT !.blobs = @ \cap table.files]
  <2>1. r \in GoodRecord
    BY <1>3 DEF GoodRecord
  <2>2. j \in GoodJob /\ j.pc = "install" /\ j.rec = c
    BY <1>1 DEF GoodJob, Steps
  <2>3. /\ job' = [job EXCEPT ![c] = j] /\ job'[c] = j
        /\ heap' = [heap EXCEPT ![c] = r]
    BY <1>a, <1>6 DEF Get, IInv, Types
  <2> HIDE DEF j, r
  <2>4. Keeps /\ heap'[c] \in GoodRecord
    BY <1>3, <1>6, <1>b, <2>1, <2>3 DEF Keeps, IInv, Types
  <2>5. KnowsOf(c, j, heap', item', table')
    BY <1>3, <2>2, <2>4 DEF KnowsOf
  <2> QED
    BY <1>a, <1>2, <1>3, <2>2, <2>3, <2>4, <2>5, QuietRuns, ThreadStep
<1> QED
  BY <1>4, <1>5, <1>6

LEMMA InstallInv ==
  ASSUME IInv, NEW c \in Client, Install(c)
  PROVE IInv'
<1> DEFINE j == [job[c] EXCEPT !.pc = "body"]
<1>a. c \in Actor
  BY DEF Actor
<1>1. job[c] \in GoodJob /\ KnowsOf(c, job[c], heap, item, table)
  BY <1>a, Mine1
<1>2. job[c].rec = c /\ heap[c] \in GoodRecord /\ table \in GoodRecord
  BY <1>1 DEF Install, KnowsOf, Making
<1>3. j \in GoodJob /\ j.pc = "body" /\ j.rec = c
  BY <1>1, <1>2 DEF GoodJob, Steps
<1>4. job' = [job EXCEPT ![c] = j] /\ job'[c] = j
  BY <1>a DEF Install, GoTo, IInv, Types
<1> HIDE DEF j
<1>5. Keeps /\ UNCHANGED <<heap, table, runVars>> /\ item' = c
  BY <1>2 DEF Install, Keeps, IInv, Types
<1>6. KnowsOf(c, j, heap', item', table')
  BY <1>2, <1>3, <1>5 DEF KnowsOf
<1>7. HistoryOK'
  BY KeepHistory DEF Install
<1> QED
  BY <1>a, <1>3, <1>4, <1>5, <1>6, <1>7, QuietRuns, ThreadStep

LEMMA RejectInv ==
  ASSUME IInv, NEW c \in Client, Reject(c)
  PROVE IInv'
BY KeepData, KeepHistory, ReturnStep DEF Reject, Actor

-----------------------------------------------------------------------------
(* The two ways most steps end.                                            *)

\* A step that changes records and the job of its thread only.
LEMMA PlainStep ==
  ASSUME IInv, NEW a \in Actor, Keeps, UNCHANGED runVars, UNCHANGED history,
         job' = [job EXCEPT ![a] = job'[a]], job'[a] \in GoodJob,
         KnowsOf(a, job'[a], heap', item', table')
  PROVE IInv'
BY QuietRuns, KeepHistory, ThreadStep

\* _persist: the snapshot is a record.
LEMMA PersistStep ==
  ASSUME IInv, NEW a \in Actor, NEW r \in GoodRecord,
         NEW next \in {"idle", "reopen", "groups"}, Persist(a, r, next),
         job[a].rec \in Client, Keeps, table' \in GoodRecord,
         UNCHANGED runVars, UNCHANGED history
  PROVE IInv'
<1> DEFINE j == [job[a] EXCEPT !.pc = "write", !.next = next,
                               !.held = Row(Fresh, r)]
<1>1. Row(Fresh, r) \in GoodRecord
  BY FreshRecord, RowRecord
<1>2. /\ j \in GoodJob /\ j.pc = "write" /\ j.next = next
      /\ j.held = Row(Fresh, r) /\ j.rec = job[a].rec
  BY <1>1, Mine1 DEF GoodJob, Steps
<1>3. job' = [job EXCEPT ![a] = j] /\ job'[a] = j
  BY DEF Persist, IInv, Types
<1> HIDE DEF j
<1>4. heap'[job[a].rec] = r
  BY DEF Persist, Change, IInv, Types
<1>5. KnowsOf(a, j, heap', item', table')
  BY <1>1, <1>2, <1>4 DEF KnowsOf
<1> QED
  BY <1>2, <1>3, <1>5, PlainStep

-----------------------------------------------------------------------------
(* Uploads.                                                                *)

LEMMA CreateInv ==
  ASSUME IInv, NEW c \in Client, Create(c)
  PROVE IInv'
<1> DEFINE j == [job[c] EXCEPT !.pc = "write", !.next = "attach", !.rec = c,
                               !.held = Fresh]
<1>a. c \in Actor
  BY DEF Actor
<1>1. /\ j \in GoodJob /\ j.pc = "write" /\ j.next = "attach" /\ j.rec = c
      /\ j.held = Fresh /\ j.op = "create"
  BY <1>a, Mine1, FreshRecord DEF Create, GoodJob, Steps
<1>2. job' = [job EXCEPT ![c] = j] /\ job'[c] = j
  BY <1>a DEF Create, IInv, Types
<1> HIDE DEF j
<1>3. Keeps /\ heap'[c] = Fresh
  BY FreshRecord DEF Create, Keeps, IInv, Types
<1>4. KnowsOf(c, j, heap', item', table')
  BY <1>1, <1>3, FreshRecord DEF KnowsOf, Making
<1>5. UNCHANGED runVars /\ UNCHANGED history
  BY DEF Create
<1> QED
  BY <1>a, <1>1, <1>2, <1>3, <1>4, <1>5, PlainStep

LEMMA AttachInv ==
  ASSUME IInv, NEW c \in Client, NEW f \in File, Attach(c, f)
  PROVE IInv'
<1> DEFINE r == [Mine(c) EXCEPT !.files = @ \cup {f}]
           j == [job[c] EXCEPT !.pc = "write", !.next = "blob", !.arg = f,
                               !.held = Row(Fresh, r)]
<1>a. c \in Actor
  BY DEF Actor
<1>1. job[c] \in GoodJob /\ KnowsOf(c, job[c], heap, item, table)
  BY <1>a, Mine1
<1>2. job[c].rec \in Client /\ Mine(c) \in GoodRecord /\ table \in GoodRecord
  BY <1>1 DEF Attach, KnowsOf, Making, Mine
<1>3. r \in GoodRecord
  <2>1. Mine(c).files \cup {f} \in SUBSET File
    BY <1>2 DEF GoodRecord
  <2> QED
    BY <1>2, <2>1, RecordParts
<1>4. Row(Fresh, r) \in GoodRecord
  BY <1>3, FreshRecord, RowRecord
<1>5. /\ j \in GoodJob /\ j.pc = "write" /\ j.next = "blob" /\ j.arg = f
      /\ j.held = Row(Fresh, r) /\ j.rec = job[c].rec
  BY <1>1, <1>4 DEF GoodJob, Steps
<1>6. job' = [job EXCEPT ![c] = j] /\ job'[c] = j /\ Change(c, r)
  BY <1>a DEF Attach, IInv, Types
<1> HIDE DEF j, r
<1>7. Keeps
  BY <1>a, <1>2, <1>3, <1>6, KeepHeap DEF Attach
<1>8. UNCHANGED table /\ heap'[job[c].rec] = r
  BY <1>2, <1>6 DEF Attach, Change, IInv, Types
<1>9. KnowsOf(c, j, heap', item', table')
  BY <1>2, <1>3, <1>4, <1>5, <1>8 DEF KnowsOf
<1> QED
  BY <1>a, <1>5, <1>6, <1>7, <1>9, PlainStep DEF Attach

LEMMA KeepBlobInv ==
  ASSUME IInv, NEW c \in Client, KeepBlob(c)
  PROVE IInv'
<1> DEFINE r == [Mine(c) EXCEPT !.blobs = @ \cup {job[c].arg}]
<1>a. c \in Actor
  BY DEF Actor
<1>1. job[c] \in GoodJob /\ KnowsOf(c, job[c], heap, item, table)
  BY <1>a, Mine1
<1>2. /\ job[c].rec \in Client /\ Mine(c) \in GoodRecord
      /\ table \in GoodRecord /\ job[c].arg \in File
  BY <1>1 DEF KeepBlob, KnowsOf, Making, Mine
<1>3. r \in GoodRecord
  <2>1. Mine(c).blobs \cup {job[c].arg} \in SUBSET File
    BY <1>2 DEF GoodRecord
  <2> QED
    BY <1>2, <2>1, RecordParts
<1>4. Persist(c, r, "reopen")
  BY DEF KeepBlob
<1> HIDE DEF r
<1>5. table' \in GoodRecord /\ table'.attempts = table.attempts
  <2>1. table.blobs \cup {job[c].arg} \in SUBSET File
    BY <1>2 DEF GoodRecord
  <2>2. table' = [table EXCEPT !.blobs = table.blobs \cup {job[c].arg}]
    BY DEF KeepBlob
  <2> QED
    BY <1>2, <2>1, <2>2 DEF GoodRecord
<1>6. Keeps
  <2>1. heap' = [heap EXCEPT ![job[c].rec] = r] /\ UNCHANGED <<item, protocol>>
    BY <1>4 DEF KeepBlob, Persist, Change
  <2>2. table'.attempts <= MaxParse
    BY <1>2, <1>5, GoodIsRecord DEF IInv, Types
  <2>3. heap \in [Client -> GoodRecord \cup {NoRecord}]
    BY DEF IInv, Types
  <2>4. \A d \in Client : heap[d] \in GoodRecord => heap'[d] \in GoodRecord
    BY <1>2, <1>3, <2>1, <2>3
  <2>5. heap' \in [Client -> GoodRecord \cup {NoRecord}]
    BY <1>2, <1>3, <2>1, <2>3
  <2> QED
    BY <1>5, <2>1, <2>2, <2>4, <2>5 DEF Keeps, IInv, Types, Loaded
<1> QED
  BY <1>a, <1>2, <1>3, <1>4, <1>5, <1>6, PersistStep DEF KeepBlob

LEMMA ReopenInv ==
  ASSUME IInv, NEW c \in Client, Reopen(c)
  PROVE IInv'
<1>a. c \in Actor
  BY DEF Actor
<1>1. job[c] \in GoodJob /\ KnowsOf(c, job[c], heap, item, table)
  BY <1>a, Mine1
<1>2. job[c].rec \in Client /\ Mine(c) \in GoodRecord /\ table \in GoodRecord
  BY <1>1 DEF Reopen, KnowsOf, Making, Mine
<1>3. HistoryOK' /\ job' = [job EXCEPT ![c] = Idle] /\ UNCHANGED table
  BY KeepHistory DEF Reopen
<1>4. job'[c] = Idle
  BY <1>a, <1>3 DEF IInv, Types
<1>5. Keeps
  <2>1. CASE UNCHANGED heap
    BY <2>1, KeepData DEF Reopen, data
  <2>2. CASE Change(c, [Mine(c) EXCEPT !.state = Reopened(job[c].op, @)])
    <3>1. Reopened(job[c].op, Mine(c).state) \in ProcessState
      BY <1>2 DEF Reopened, ProcessState, GoodRecord
    <3>2. [Mine(c) EXCEPT !.state = Reopened(job[c].op, @)] \in GoodRecord
      BY <1>2, <3>1, RecordParts
    <3> QED
      BY <1>a, <1>2, <2>2, <3>2, KeepHeap DEF Reopen
  <2> QED
    BY <2>1, <2>2 DEF Reopen
<1>6. RunsOK'
  BY DEF Reopen, IInv, RunsOK, Runs!Request, runVars
<1>7. Asked'
  BY <1>2, <1>3 DEF Asked
<1>8. KnowsOf(c, Idle, heap', item', table')
  BY DEF KnowsOf, Idle
<1> QED
  BY <1>a, <1>3, <1>4, <1>5, <1>6, <1>7, <1>8, IdleJob, ThreadStep

-----------------------------------------------------------------------------
(* Decisions of inspectors, and cards that go into memory and the table.   *)

\* A decision signs the numbers of its card.
LEMMA SignedGood ==
  ASSUME NEW f \in GoodFinding, NEW to \in FindingStatus
  PROVE Signed(f, to) \in GoodFinding
BY DEF Signed, GoodFinding, Finding

\* A kept decision stands on the same numbers.
LEMMA CarryGood ==
  ASSUME NEW p \in GoodFinding \cup {NoFinding}, NEW f \in GoodFinding
  PROVE Carry(p, f) \in GoodFinding
<1>1. CASE Carry(p, f) = f
  BY <1>1
<1>2. CASE Carry(p, f) # f
  <2>1. /\ p \in GoodFinding /\ p.status \in HumanOnlyStatuses
        /\ p.value = f.value
        /\ Carry(p, f) = [f EXCEPT !.status = p.status, !.signed = p.signed]
    BY <1>2 DEF Carry
  <2> QED
    BY <2>1 DEF GoodFinding, Finding
<1> QED
  BY <1>1, <1>2

\* What every step that starts from an open handler knows.
LEMMA AtBody ==
  ASSUME IInv, NEW c \in Client, job[c].pc = "body", job[c].op # "create"
  PROVE /\ item \in Client /\ heap[item] \in GoodRecord
        /\ table \in GoodRecord /\ job[c] \in GoodJob
<1>1. c \in Actor
  BY DEF Actor
<1>2. job[c] \in GoodJob /\ KnowsOf(c, job[c], heap, item, table)
  BY <1>1, Mine1
<1> QED
  BY <1>2 DEF KnowsOf, Making, IInv, Loaded

LEMMA DecideInv ==
  ASSUME IInv, NEW c \in Client, NEW x \in GoodCards, Decide(c, x),
         job[c].pc = "body", job[c].op # "create"
  PROVE IInv'
<1> DEFINE j == [job[c] EXCEPT !.pc = "sign", !.rec = item, !.cards = x]
<1>a. c \in Actor /\ c # Worker
  BY Actors DEF Actor
<1>1. /\ item \in Client /\ heap[item] \in GoodRecord
      /\ table \in GoodRecord /\ job[c] \in GoodJob
  BY AtBody
<1>2. j \in GoodJob /\ j.pc = "sign" /\ j.rec = item
  BY <1>1 DEF GoodJob, Steps
<1>3. job' = [job EXCEPT ![c] = j] /\ job'[c] = j
  BY <1>a DEF Decide, IInv, Types
<1> HIDE DEF j
<1>4. Keeps /\ UNCHANGED <<heap, item, table>>
  BY KeepData DEF Decide, data
<1>5. KnowsOf(c, j, heap', item', table')
  BY <1>a, <1>1, <1>2, <1>4 DEF KnowsOf
<1>6. UNCHANGED runVars /\ UNCHANGED history
  BY DEF Decide
<1> QED
  BY <1>a, <1>2, <1>3, <1>4, <1>5, <1>6, PlainStep

LEMMA ReviewInv ==
  ASSUME IInv, NEW c \in Client, Review(c)
  PROVE IInv'
<1>1. job[c].pc = "body" /\ job[c].op = "review"
  BY DEF Review
<1>2. heap[item] \in GoodRecord
  BY <1>1, AtBody
<1>3. PICK k \in Key, to \in HumanOnlyStatuses \cup {"CLARIFICATION_REQUIRED"} :
        /\ heap[item].findings[k] # NoFinding
        /\ Decide(c, [x \in {k} |-> Signed(heap[item].findings[k], to)])
  BY DEF Review
<1>4. heap[item].findings[k] \in GoodFinding
  BY <1>2, <1>3 DEF GoodRecord
<1>5. to \in FindingStatus
  BY DEF HumanOnlyStatuses, FindingStatus
<1>6. [x \in {k} |-> Signed(heap[item].findings[k], to)] \in GoodCards
  BY <1>4, <1>5, SignedGood, CardsIntro
<1> QED
  BY <1>1, <1>3, <1>6, DecideInv

LEMMA ConfirmInv ==
  ASSUME IInv, NEW c \in Client, Confirm(c)
  PROVE IInv'
<1>1. job[c].pc = "body" /\ job[c].op = "confirm"
  BY DEF Confirm
<1>2. heap[item] \in GoodRecord
  BY <1>1, AtBody
<1>3. PICK K \in SUBSET Candidates(heap[item]) :
        Decide(c, [k \in K |-> Signed(heap[item].findings[k], "CONFIRMED_VIOLATION")])
  BY DEF Confirm
<1> DEFINE x == [k \in K |-> Signed(heap[item].findings[k], "CONFIRMED_VIOLATION")]
<1>4. K \in SUBSET Key /\ \A k \in K : heap[item].findings[k] \in GoodFinding
  BY <1>2, <1>3 DEF Candidates, GoodRecord
<1>5. "CONFIRMED_VIOLATION" \in FindingStatus
  BY DEF FindingStatus
<1>6. x \in [K -> GoodFinding]
  BY <1>4, <1>5, SignedGood
<1>7. x \in GoodCards
  BY <1>4, <1>6, CardsIntro
<1> QED
  BY <1>1, <1>3, <1>7, DecideInv

LEMMA SignInv ==
  ASSUME IInv, NEW a \in Actor, Sign(a)
  PROVE IInv'
<1>1. job[a] \in GoodJob /\ KnowsOf(a, job[a], heap, item, table)
  BY Mine1
<1>2. /\ job[a].pc = "sign" /\ job[a].rec \in Client /\ Mine(a) \in GoodRecord
      /\ table \in GoodRecord /\ (a = Worker => job[a].held \in GoodRecord)
  BY <1>1 DEF Sign, KnowsOf, Making, Mine
<1> DEFINE x == job[a].cards
           New(k) == IF a = Worker THEN Carry(Mine(a).findings[k], x[k]) ELSE x[k]
           J(k) == [job[a] EXCEPT !.pc = "save", !.arg = k, !.cards[k] = New(k)]
<1>3. PICK k \in DOMAIN x : /\ Change(a, [Mine(a) EXCEPT !.findings[k] = New(k)])
                            /\ job' = [job EXCEPT ![a].pc = "save", ![a].arg = k,
                                                  ![a].cards[k] = New(k)]
  BY DEF Sign
<1>4. k \in Key /\ DOMAIN x \in SUBSET Key /\ x \in [DOMAIN x -> GoodFinding]
  BY <1>1, <1>3, CardsFacts DEF GoodJob
<1>5. New(k) \in GoodFinding
  <2>1. x[k] \in GoodFinding
    BY <1>3, <1>4
  <2>2. Mine(a).findings[k] \in GoodFinding \cup {NoFinding}
    BY <1>2, <1>4 DEF GoodRecord
  <2> QED
    BY <2>1, <2>2, CarryGood
<1> DEFINE new == New(k)
           y == [x EXCEPT ![k] = new]
           j == [job[a] EXCEPT !.pc = "save", !.arg = k, !.cards = y]
           r == [Mine(a) EXCEPT !.findings[k] = new]
<1>6. y \in [DOMAIN x -> GoodFinding] /\ DOMAIN y = DOMAIN x
  BY <1>4, <1>5
<1>7. y \in GoodCards
  BY <1>4, <1>6, CardsIntro
<1>8. /\ j \in GoodJob /\ j.pc = "save" /\ j.rec = job[a].rec
      /\ j.held = job[a].held /\ j.arg = k /\ j.cards = y
  BY <1>1, <1>4, <1>7 DEF GoodJob, Steps
<1>9. job' = [job EXCEPT ![a] = j] /\ job'[a] = j
  BY <1>1, <1>3 DEF IInv, Types, GoodJob
<1>10. r \in GoodRecord
  BY <1>2, <1>4, <1>5, RecordCard
<1> HIDE DEF j, y
<1>11. Keeps
  BY <1>2, <1>3, <1>10, KeepHeap DEF Sign
<1>12. heap'[job[a].rec] = r /\ UNCHANGED table
  BY <1>2, <1>3 DEF Sign, Change, IInv, Types
<1>13. KnowsOf(a, j, heap', item', table')
  BY <1>2, <1>3, <1>6, <1>8, <1>10, <1>12 DEF KnowsOf
<1>14. UNCHANGED runVars /\ UNCHANGED history
  BY DEF Sign
<1> QED
  BY <1>8, <1>9, <1>11, <1>13, <1>14, PlainStep

LEMMA SaveInv ==
  ASSUME IInv, NEW a \in Actor, Save(a)
  PROVE IInv'
<1>1. job[a] \in GoodJob /\ KnowsOf(a, job[a], heap, item, table)
  BY Mine1
<1>2. /\ job[a].rec \in Client /\ heap[job[a].rec] \in GoodRecord
      /\ table \in GoodRecord /\ (a = Worker => job[a].held \in GoodRecord)
      /\ job[a].arg \in DOMAIN job[a].cards
  BY <1>1 DEF Save, KnowsOf, Making
<1> DEFINE x == job[a].cards
           k == job[a].arg
           rest == DOMAIN x \ {k}
           y == [z \in rest |-> x[z]]
           after == IF a = Worker THEN "regroup" ELSE "open"
           pc == IF rest = {} THEN after ELSE "sign"
           j == [job[a] EXCEPT !.cards = y, !.arg = None, !.pc = pc]
           t == [table EXCEPT !.findings[k] = x[k]]
<1>3. DOMAIN x \in SUBSET Key /\ x \in [DOMAIN x -> GoodFinding]
  BY <1>1, CardsFacts DEF GoodJob
<1>4. y \in GoodCards
  <2>1. rest \in SUBSET Key /\ y \in [rest -> GoodFinding]
    BY <1>3
  <2> QED
    BY <2>1, CardsIntro
<1>5. /\ j \in GoodJob /\ j.pc = (IF rest = {} THEN after ELSE "sign")
      /\ j.rec = job[a].rec /\ j.held = job[a].held
  <2>1. pc \in Steps
    BY DEF Steps
  <2> HIDE DEF y, pc
  <2>2. j \in GoodJob /\ j.pc = pc /\ j.rec = job[a].rec /\ j.held = job[a].held
    BY <1>1, <1>4, <2>1 DEF GoodJob
  <2> QED BY <2>2 DEF pc
<1>6. job' = [job EXCEPT ![a] = j] /\ job'[a] = j /\ table' = t
  BY DEF Save, IInv, Types
<1>7. k \in Key /\ x[k] \in GoodFinding
  BY <1>2, <1>3
<1>8. t \in GoodRecord
  BY <1>2, <1>7, RecordCard
<1>9. t.attempts = table.attempts
  BY <1>2 DEF GoodRecord
<1> HIDE DEF j, t, y
<1>10. t.attempts <= MaxParse
  BY <1>2, <1>9, GoodIsRecord DEF IInv, Types
<1>11. Keeps
  BY <1>6, <1>8, <1>10, KeepTable DEF Save
<1>12. UNCHANGED <<heap, item>>
  BY DEF Save
<1>13. KnowsOf(a, j, heap', item', table')
  BY <1>2, <1>5, <1>6, <1>8, <1>12 DEF KnowsOf
<1>14. UNCHANGED runVars /\ UNCHANGED history
  BY DEF Save
<1> QED
  BY <1>5, <1>6, <1>11, <1>13, <1>14, PlainStep

LEMMA OpenInv ==
  ASSUME IInv, NEW c \in Client, Open(c)
  PROVE IInv'
<1>a. c \in Actor /\ c # Worker
  BY Actors DEF Actor
<1>1. job[c] \in GoodJob /\ KnowsOf(c, job[c], heap, item, table)
  BY <1>a, Mine1
<1>2. /\ job[c].rec \in Client /\ heap[job[c].rec] \in GoodRecord
      /\ table \in GoodRecord
  BY <1>1 DEF Open, KnowsOf, Making
<1>3. Keeps /\ UNCHANGED <<heap, item, table>>
  BY KeepData DEF Open, data
<1>4. HistoryOK'
  BY KeepHistory DEF Open
<1>5. CASE Mine(c).state = "READY"
  <2> DEFINE j == [job[c] EXCEPT !.pc = "assign"]
  <2>1. j \in GoodJob /\ j.pc = "assign" /\ j.rec = job[c].rec
    BY <1>1 DEF GoodJob, Steps
  <2>2. job' = [job EXCEPT ![c] = j] /\ job'[c] = j
    BY <1>a, <1>5 DEF Open, GoTo, IInv, Types
  <2> HIDE DEF j
  <2>3. KnowsOf(c, j, heap', item', table')
    BY <1>2, <1>3, <2>1 DEF KnowsOf
  <2>4. UNCHANGED runVars /\ UNCHANGED history
    BY DEF Open
  <2> QED
    BY <1>a, <1>3, <2>1, <2>2, <2>3, <2>4, PlainStep
<1>6. CASE Mine(c).state # "READY"
  <2>1. Return(c)
    BY <1>a, <1>6 DEF Open, Return
  <2> QED
    BY <1>a, <1>3, <1>4, <2>1, ReturnStep
<1> QED
  BY <1>5, <1>6

-----------------------------------------------------------------------------
(* Changes of the state by an inspector.                                   *)

LEMMA CheckInv ==
  ASSUME IInv, NEW c \in Client, Check(c)
  PROVE IInv'
<1> DEFINE j == [job[c] EXCEPT !.pc = "assign", !.rec = item]
<1>a. c \in Actor
  BY DEF Actor
<1>1. /\ item \in Client /\ heap[item] \in GoodRecord
      /\ table \in GoodRecord /\ job[c] \in GoodJob
  BY AtBody DEF Check
<1>2. j \in GoodJob /\ j.pc = "assign" /\ j.rec = item
  BY <1>1 DEF GoodJob, Steps
<1>3. job' = [job EXCEPT ![c] = j] /\ job'[c] = j
  BY <1>a DEF Check, IInv, Types
<1> HIDE DEF j
<1>4. Keeps /\ UNCHANGED <<heap, item, table>>
  BY KeepData DEF Check, data
<1>5. KnowsOf(c, j, heap', item', table')
  BY <1>1, <1>2, <1>4 DEF KnowsOf
<1>6. UNCHANGED runVars /\ UNCHANGED history
  BY DEF Check
<1> QED
  BY <1>a, <1>2, <1>3, <1>4, <1>5, <1>6, PlainStep

LEMMA AssignInv ==
  ASSUME IInv, NEW c \in Client, Assign(c)
  PROVE IInv'
<1> DEFINE r == [Mine(c) EXCEPT !.state = Target(job[c].op)]
<1>a. c \in Actor
  BY DEF Actor
<1>1. job[c] \in GoodJob /\ KnowsOf(c, job[c], heap, item, table)
  BY <1>a, Mine1
<1>2. job[c].rec \in Client /\ Mine(c) \in GoodRecord /\ table \in GoodRecord
  BY <1>1 DEF Assign, KnowsOf, Making, Mine
<1>3. Target(job[c].op) \in ProcessState
  BY DEF Target, ProcessState
<1>4. r \in GoodRecord
  BY <1>2, <1>3, RecordParts
<1>5. UNCHANGED runVars /\ UNCHANGED history /\ UNCHANGED <<item, table, protocol>>
  BY DEF Assign
<1>6. CASE job[c].op = "finalize"
  <2> DEFINE j == [job[c] EXCEPT !.pc = "assemble"]
  <2>1. j \in GoodJob /\ j.pc = "assemble" /\ j.rec = job[c].rec
    BY <1>1 DEF GoodJob, Steps
  <2>2. job' = [job EXCEPT ![c] = j] /\ job'[c] = j /\ Change(c, r)
    BY <1>a, <1>6 DEF Assign, GoTo, IInv, Types
  <2> HIDE DEF j, r
  <2>3. Keeps
    BY <1>a, <1>2, <1>4, <1>5, <2>2, KeepHeap
  <2>4. heap'[job[c].rec] = r
    BY <1>2, <2>2 DEF Change, IInv, Types
  <2>5. KnowsOf(c, j, heap', item', table')
    BY <1>2, <1>4, <1>5, <2>1, <2>4 DEF KnowsOf
  <2> QED
    BY <1>a, <1>5, <2>1, <2>2, <2>3, <2>5, PlainStep
<1>7. CASE job[c].op # "finalize"
  <2>1. Persist(c, r, "idle")
    BY <1>7 DEF Assign
  <2> HIDE DEF r
  <2>2. Change(c, r)
    BY <2>1 DEF Persist
  <2>3. Keeps
    BY <1>a, <1>2, <1>4, <1>5, <2>2, KeepHeap
  <2> QED
    BY <1>a, <1>2, <1>4, <1>5, <2>1, <2>3, PersistStep
<1> QED
  BY <1>6, <1>7

LEMMA AssembleInv ==
  ASSUME IInv, NEW c \in Client, Assemble(c)
  PROVE IInv'
<1> DEFINE j == [job[c] EXCEPT !.pc = "materialize", !.held = Mine(c)]
<1>a. c \in Actor
  BY DEF Actor
<1>1. job[c] \in GoodJob /\ KnowsOf(c, job[c], heap, item, table)
  BY <1>a, Mine1
<1>2. job[c].rec \in Client /\ Mine(c) \in GoodRecord /\ table \in GoodRecord
  BY <1>1 DEF Assemble, KnowsOf, Making, Mine
<1>3. /\ j \in GoodJob /\ j.pc = "materialize" /\ j.rec = job[c].rec
      /\ j.held \in GoodRecord
  BY <1>1, <1>2 DEF GoodJob, Steps
<1>4. job' = [job EXCEPT ![c] = j] /\ job'[c] = j
  BY <1>a DEF Assemble, IInv, Types
<1> HIDE DEF j
<1>5. Keeps /\ UNCHANGED <<heap, item, table>>
  BY KeepData DEF Assemble, data
<1>6. KnowsOf(c, j, heap', item', table')
  BY <1>2, <1>3, <1>5 DEF KnowsOf, Mine
<1>7. UNCHANGED runVars /\ UNCHANGED history
  BY DEF Assemble
<1> QED
  BY <1>a, <1>3, <1>4, <1>5, <1>6, <1>7, PlainStep

\* The state that comes back makes a record.
LEMMA RollBackKeeps ==
  ASSUME IInv, NEW a \in Actor, RollBack(a), job[a].rec \in Client,
         Mine(a) \in GoodRecord, UNCHANGED <<item, table, protocol>>
  PROVE Keeps
<1>1. "COMPLETED" \in ProcessState
  BY DEF ProcessState
<1>2. [Mine(a) EXCEPT !.state = "COMPLETED"] \in GoodRecord
  BY <1>1, RecordParts
<1> QED
  BY <1>2, KeepHeap DEF RollBack

LEMMA MaterializeInv ==
  ASSUME IInv, NEW c \in Client, Materialize(c)
  PROVE IInv'
<1>a. c \in Actor /\ c # Worker
  BY Actors DEF Actor
<1>1. job[c] \in GoodJob /\ KnowsOf(c, job[c], heap, item, table)
  BY <1>a, Mine1
<1>2. /\ job[c].rec \in Client /\ Mine(c) \in GoodRecord
      /\ table \in GoodRecord /\ job[c].held \in GoodRecord
  BY <1>1 DEF Materialize, KnowsOf, Making, Mine
<1>3. Return(c)
  BY <1>a DEF Materialize, Return
<1>4. HistoryOK'
  BY KeepHistory DEF Materialize
<1>5. Keeps
  <2>1. CASE job[c].held.attempts <= MaxParse /\ job[c].held.state = "FINALIZED"
    <3>1. /\ table' = Row(table, job[c].held) /\ protocol' = job[c].held
          /\ UNCHANGED <<heap, item>>
      BY <2>1 DEF Materialize
    <3>2. table' \in GoodRecord /\ table'.attempts <= MaxParse
      BY <1>2, <2>1, <3>1, RowRecord
    <3> QED
      BY <1>2, <3>1, <3>2 DEF Keeps, IInv, Types, Loaded
  <2>2. CASE ~ (job[c].held.attempts <= MaxParse /\ job[c].held.state = "FINALIZED")
    <3>1. RollBack(c) /\ UNCHANGED <<item, table, protocol>>
      BY <2>2 DEF Materialize
    <3> QED
      BY <1>a, <1>2, <3>1, RollBackKeeps
  <2> QED
    BY <2>1, <2>2
<1> QED
  BY <1>a, <1>3, <1>4, <1>5, ReturnStep

-----------------------------------------------------------------------------
(* Runs of the matrix.                                                     *)

\* What a run is given is a record without cards.
LEMMA InputRecord ==
  ASSUME NEW r \in GoodRecord
  PROVE Input(r) \in GoodRecord
BY FreshRecord DEF Input, GoodRecord

LEMMA SelectInv ==
  ASSUME IInv, NEW c \in Client, Select(c)
  PROVE IInv'
<1>a. c \in Actor
  BY DEF Actor
<1>1. /\ item \in Client /\ heap[item] \in GoodRecord
      /\ table \in GoodRecord /\ job[c] \in GoodJob
  BY AtBody DEF Select
<1>2. PICK f \in heap[item].files \cap table.blobs :
        /\ heap' = [heap EXCEPT ![item].approved = @ \cup {f},
                                ![item].blobs = @ \cup {f}]
        /\ job' = [job EXCEPT ![c].pc = "audited", ![c].rec = item, ![c].arg = f]
  BY DEF Select
<1>3. f \in File
  BY <1>1, <1>2 DEF GoodRecord
<1> DEFINE j == [job[c] EXCEPT !.pc = "audited", !.rec = item, !.arg = f]
           r1 == [heap[item] EXCEPT !.approved = heap[item].approved \cup {f}]
           r == [r1 EXCEPT !.blobs = heap[item].blobs \cup {f}]
<1>4. r \in GoodRecord
  <2>1. /\ heap[item].approved \cup {f} \in SUBSET File
        /\ heap[item].blobs \cup {f} \in SUBSET File
    BY <1>1, <1>3 DEF GoodRecord
  <2>2. r1 \in GoodRecord
    BY <1>1, <2>1, RecordParts
  <2> HIDE DEF r1
  <2> QED
    BY <2>1, <2>2, RecordParts
<1>5. heap' = [heap EXCEPT ![item] = r]
  BY <1>1, <1>2 DEF IInv, Types, GoodRecord
<1>6. /\ j \in GoodJob /\ j.pc = "audited" /\ j.rec = item /\ j.arg = f
  BY <1>1, <1>3 DEF GoodJob, Steps
<1>7. job' = [job EXCEPT ![c] = j] /\ job'[c] = j
  BY <1>a, <1>2 DEF IInv, Types
<1>8. UNCHANGED <<item, table, protocol>> /\ UNCHANGED runVars /\ UNCHANGED history
  BY DEF Select
<1> HIDE DEF j, r
<1>9. Keeps
  BY <1>1, <1>4, <1>5, <1>8 DEF IInv, Types, Loaded, Keeps
<1>10. heap'[item] = r
  BY <1>1, <1>5 DEF IInv, Types
<1>11. KnowsOf(c, j, heap', item', table')
  BY <1>1, <1>3, <1>4, <1>6, <1>8, <1>10 DEF KnowsOf
<1> QED
  BY <1>a, <1>6, <1>7, <1>8, <1>9, <1>11, PlainStep

LEMMA AuditedInv ==
  ASSUME IInv, NEW c \in Client, Audited(c)
  PROVE IInv'
<1> DEFINE j == [job[c] EXCEPT !.pc = "compute", !.arg = None,
                               !.held = Input(Mine(c))]
           t == [table EXCEPT !.approved = table.approved \cup {job[c].arg}]
<1>a. c \in Actor
  BY DEF Actor
<1>1. job[c] \in GoodJob /\ KnowsOf(c, job[c], heap, item, table)
  BY <1>a, Mine1
<1>2. /\ job[c].rec \in Client /\ Mine(c) \in GoodRecord
      /\ table \in GoodRecord /\ job[c].arg \in File
  BY <1>1 DEF Audited, KnowsOf, Making, Mine
<1>3. /\ j \in GoodJob /\ j.pc = "compute" /\ j.rec = job[c].rec
      /\ j.held \in GoodRecord
  BY <1>1, <1>2, InputRecord DEF GoodJob, Steps
<1>4. job' = [job EXCEPT ![c] = j] /\ job'[c] = j /\ table' = t
  BY <1>a DEF Audited, IInv, Types
<1>5. t \in GoodRecord /\ t.attempts = table.attempts
  <2>1. table.approved \cup {job[c].arg} \in SUBSET File
    BY <1>2 DEF GoodRecord
  <2> QED
    BY <1>2, <2>1 DEF GoodRecord
<1> HIDE DEF j, t
<1>6. t.attempts <= MaxParse
  BY <1>2, <1>5, GoodIsRecord DEF IInv, Types
<1>7. Keeps
  BY <1>4, <1>5, <1>6, KeepTable DEF Audited
<1>8. UNCHANGED <<heap, item>> /\ UNCHANGED runVars /\ UNCHANGED history
  BY DEF Audited
<1>9. KnowsOf(c, j, heap', item', table')
  BY <1>2, <1>3, <1>4, <1>5, <1>8 DEF KnowsOf, Mine
<1> QED
  BY <1>a, <1>3, <1>4, <1>7, <1>8, <1>9, PlainStep

LEMMA BeginInv == IInv /\ Begin => IInv'
<1> SUFFICES ASSUME IInv, Begin PROVE IInv'
  OBVIOUS
<1>a. Worker \in Actor /\ NoOne \notin Client
  BY Actors DEF Actor
<1>1. Keeps /\ HistoryOK' /\ UNCHANGED <<heap, item, table>>
  BY KeepData, KeepHistory DEF Begin, data
<1>2. table \in GoodRecord
  BY DEF Begin, Runs!Begin, IInv, Asked, RunsOK
<1>3. RunsOK' /\ Asked'
  BY <1>1, <1>2 DEF Begin, Runs!Begin, IInv, RunsOK, Asked
<1>4. CASE item # NoOne /\ heap[item].state = "PARSING"
  <2> DEFINE j == [Idle EXCEPT !.pc = "compute", !.op = "run", !.rec = item,
                               !.held = Input(heap[item])]
  <2>1. item \in Client /\ heap[item] \in GoodRecord
    BY <1>4 DEF IInv, Types, Loaded
  <2>2. /\ j \in GoodJob /\ j.pc = "compute" /\ j.rec = item
        /\ j.held \in GoodRecord
    BY <2>1, IdleJob, InputRecord DEF GoodJob, Steps, Ops
  <2>3. job' = [job EXCEPT ![Worker] = j] /\ job'[Worker] = j
    BY <1>a, <1>4 DEF Begin, IInv, Types
  <2> HIDE DEF j
  <2>4. KnowsOf(Worker, j, heap', item', table')
    BY <1>1, <1>2, <2>1, <2>2 DEF KnowsOf
  <2> QED
    BY <1>a, <1>1, <1>3, <2>2, <2>3, <2>4, ThreadStep
<1>5. CASE ~ (item # NoOne /\ heap[item].state = "PARSING")
  <2>1. job' = [job EXCEPT ![Worker] = Idle] /\ job'[Worker] = Idle
    BY <1>a, <1>5 DEF Begin, IInv, Types
  <2>2. KnowsOf(Worker, Idle, heap', item', table')
    BY DEF KnowsOf, Idle
  <2> QED
    BY <1>a, <1>1, <1>3, <2>1, <2>2, IdleJob, ThreadStep
<1> QED
  BY <1>4, <1>5

LEMMA SkipInv == IInv /\ Skip => IInv'
<1> SUFFICES ASSUME IInv, Skip PROVE IInv'
  OBVIOUS
<1>1. Keeps /\ HistoryOK' /\ UNCHANGED <<data, job>>
  BY KeepData, KeepHistory DEF Skip
<1>2. RunsOK' /\ Asked'
  BY <1>1 DEF Skip, Runs!End, IInv, RunsOK, Asked, data
<1>3. Types' /\ Loaded' /\ Threads'
  BY <1>1 DEF IInv, Types, Loaded, Threads, Knows, data
<1> QED
  BY <1>1, <1>2, <1>3 DEF IInv

LEMMA ComputeInv ==
  ASSUME IInv, NEW a \in Actor, Compute(a)
  PROVE IInv'
<1>1. job[a] \in GoodJob /\ KnowsOf(a, job[a], heap, item, table)
  BY Mine1
<1>2. /\ job[a].rec \in Client /\ Mine(a) \in GoodRecord
      /\ table \in GoodRecord /\ job[a].held \in GoodRecord
  BY <1>1 DEF Compute, KnowsOf, Making, Mine
<1> DEFINE F == job[a].held.files \cap Mine(a).blobs
           A == job[a].held.approved
           x == [k \in Key |-> Compare(k, F, A)]
           h == [Fresh EXCEPT !.files = F]
           j == [job[a] EXCEPT !.pc = IF a = Worker THEN "sign" ELSE "replace",
                               !.held = h, !.cards = x]
<1>3. F \in SUBSET File /\ A \in SUBSET File
  BY <1>2 DEF GoodRecord
<1>4. x \in [Key -> GoodFinding]
  <2> SUFFICES ASSUME NEW k \in Key PROVE Compare(k, F, A) \in GoodFinding
    OBVIOUS
  <2>1. Compare(k, F, A) \in [status : Machine, value : Value, signed : {Unsigned}]
    BY <1>3, CompareType
  <2>2. Machine \subseteq FindingStatus /\ Machine \cap HumanOnlyStatuses = {}
    BY DEF Machine
  <2> HIDE DEF F, A
  <2> QED
    BY <2>1, <2>2 DEF GoodFinding, Finding
<1>5. h \in GoodRecord
  BY <1>3, FreshRecord, RecordParts
<1>6. x \in GoodCards
  BY <1>4, CardsIntro
<1>7. job' = [job EXCEPT ![a] = j] /\ job'[a] = j
  BY DEF Compute, IInv, Types
<1> HIDE DEF x, h, F, A
<1>8. /\ j \in GoodJob /\ j.pc = (IF a = Worker THEN "sign" ELSE "replace")
      /\ j.rec = job[a].rec /\ j.held = h /\ j.cards = x
  BY <1>1, <1>5, <1>6 DEF GoodJob, Steps
<1> HIDE DEF j
<1>9. Keeps /\ UNCHANGED <<heap, item, table>>
  BY KeepData DEF Compute, data
<1>10. KnowsOf(a, j, heap', item', table')
  BY <1>2, <1>4, <1>5, <1>8, <1>9 DEF KnowsOf, Mine
<1>11. UNCHANGED runVars /\ UNCHANGED history
  BY DEF Compute
<1> QED
  BY <1>7, <1>8, <1>9, <1>10, <1>11, PlainStep

LEMMA ReplaceInv ==
  ASSUME IInv, NEW c \in Client, Replace(c)
  PROVE IInv'
<1> DEFINE r == [Mine(c) EXCEPT !.findings = job[c].cards]
           j == [job[c] EXCEPT !.pc = "clear"]
<1>a. c \in Actor
  BY DEF Actor
<1>1. job[c] \in GoodJob /\ KnowsOf(c, job[c], heap, item, table)
  BY <1>a, Mine1
<1>2. /\ job[c].rec \in Client /\ Mine(c) \in GoodRecord /\ table \in GoodRecord
      /\ job[c].held \in GoodRecord /\ job[c].cards \in [Key -> GoodFinding]
  BY <1>1 DEF Replace, KnowsOf, Making, Mine
<1>3. r \in GoodRecord
  BY <1>2, RecordParts
<1>4. /\ j \in GoodJob /\ j.pc = "clear" /\ j.rec = job[c].rec
      /\ j.held = job[c].held /\ j.cards = job[c].cards
  BY <1>1 DEF GoodJob, Steps
<1>5. job' = [job EXCEPT ![c] = j] /\ job'[c] = j /\ Change(c, r)
  BY <1>a DEF Replace, GoTo, IInv, Types
<1>6. UNCHANGED runVars /\ UNCHANGED history /\ UNCHANGED <<item, table, protocol>>
  BY DEF Replace
<1> HIDE DEF j, r
<1>7. Keeps
  BY <1>a, <1>2, <1>3, <1>5, <1>6, KeepHeap
<1>8. heap'[job[c].rec] = r
  BY <1>2, <1>5 DEF Change, IInv, Types
<1>9. KnowsOf(c, j, heap', item', table')
  BY <1>2, <1>3, <1>4, <1>6, <1>8 DEF KnowsOf
<1> QED
  BY <1>a, <1>4, <1>5, <1>6, <1>7, <1>9, PlainStep

LEMMA ClearInv ==
  ASSUME IInv, NEW c \in Client, Clear(c)
  PROVE IInv'
<1> DEFINE t == [table EXCEPT !.findings = job[c].cards]
           j == [job[c] EXCEPT !.pc = "regroup", !.cards = <<>>]
<1>a. c \in Actor
  BY DEF Actor
<1>1. job[c] \in GoodJob /\ KnowsOf(c, job[c], heap, item, table)
  BY <1>a, Mine1
<1>2. /\ job[c].rec \in Client /\ heap[job[c].rec] \in GoodRecord
      /\ table \in GoodRecord
      /\ job[c].held \in GoodRecord /\ job[c].cards \in [Key -> GoodFinding]
  BY <1>1 DEF Clear, KnowsOf, Making
<1>3. t \in GoodRecord /\ t.attempts = table.attempts
  BY <1>2, RecordParts DEF GoodRecord
<1>4. /\ j \in GoodJob /\ j.pc = "regroup" /\ j.rec = job[c].rec
      /\ j.held = job[c].held
  BY <1>1, NoCards DEF GoodJob, Steps
<1>5. job' = [job EXCEPT ![c] = j] /\ job'[c] = j /\ table' = t
  BY <1>a DEF Clear, IInv, Types
<1> HIDE DEF j, t
<1>6. t.attempts <= MaxParse
  BY <1>2, <1>3, GoodIsRecord DEF IInv, Types
<1>7. Keeps
  BY <1>3, <1>5, <1>6, KeepTable DEF Clear
<1>8. UNCHANGED <<heap, item>> /\ UNCHANGED runVars /\ UNCHANGED history
  BY DEF Clear
<1>9. KnowsOf(c, j, heap', item', table')
  BY <1>2, <1>3, <1>4, <1>5, <1>8 DEF KnowsOf
<1> QED
  BY <1>a, <1>4, <1>5, <1>7, <1>8, <1>9, PlainStep

LEMMA RegroupInv ==
  ASSUME IInv, NEW a \in Actor, Regroup(a)
  PROVE IInv'
<1> DEFINE r == [Mine(a) EXCEPT !.groups = job[a].held.files]
<1>1. job[a] \in GoodJob /\ KnowsOf(a, job[a], heap, item, table)
  BY Mine1
<1>2. /\ job[a].rec \in Client /\ Mine(a) \in GoodRecord
      /\ table \in GoodRecord /\ job[a].held \in GoodRecord
  BY <1>1 DEF Regroup, KnowsOf, Making, Mine
<1>3. r \in GoodRecord
  <2>1. job[a].held.files \in SUBSET File
    BY <1>2 DEF GoodRecord
  <2> QED
    BY <1>2, <2>1, RecordParts
<1>4. Persist(a, r, "groups") /\ UNCHANGED <<item, table, protocol>>
      /\ UNCHANGED runVars /\ UNCHANGED history
  BY DEF Regroup
<1> HIDE DEF r
<1>5. Keeps
  BY <1>2, <1>3, <1>4, KeepHeap DEF Persist
<1> QED
  BY <1>2, <1>3, <1>4, <1>5, PersistStep

LEMMA SaveGroupsInv ==
  ASSUME IInv, NEW a \in Actor, SaveGroups(a)
  PROVE IInv'
<1> DEFINE n == IF a = Worker THEN Mine(a).attempts + 1 ELSE Mine(a).attempts
           r == [Mine(a) EXCEPT !.attempts = n]
           t == [table EXCEPT !.groups = Mine(a).groups]
           j == [job[a] EXCEPT !.pc = "settle"]
<1>1. job[a] \in GoodJob /\ KnowsOf(a, job[a], heap, item, table)
  BY Mine1
<1>2. /\ job[a].rec \in Client /\ Mine(a) \in GoodRecord
      /\ table \in GoodRecord
  BY <1>1 DEF SaveGroups, KnowsOf, Making, Mine
<1>3. r \in GoodRecord
  <2>1. n \in Nat
    BY <1>2 DEF GoodRecord
  <2> HIDE DEF n
  <2> QED
    BY <1>2, <2>1, RecordParts
<1>4. t \in GoodRecord /\ t.attempts = table.attempts
  <2>1. Mine(a).groups \in SUBSET File
    BY <1>2 DEF GoodRecord
  <2>2. t \in GoodRecord
    BY <1>2, <2>1, RecordParts
  <2>3. t.attempts = table.attempts
    BY <1>2 DEF GoodRecord
  <2> QED
    BY <2>2, <2>3
<1>5. j \in GoodJob /\ j.pc = "settle" /\ j.rec = job[a].rec
  BY <1>1 DEF GoodJob, Steps
<1>6. job' = [job EXCEPT ![a] = j] /\ job'[a] = j
  BY DEF SaveGroups, GoTo, IInv, Types
<1>7. heap' = [heap EXCEPT ![job[a].rec] = r] /\ table' = t
      /\ UNCHANGED <<item, protocol>>
  BY DEF SaveGroups, Change
<1> HIDE DEF j, r, t
<1>8. t.attempts <= MaxParse
  BY <1>2, <1>4, GoodIsRecord DEF IInv, Types
<1>9. heap' \in [Client -> GoodRecord \cup {NoRecord}] /\ heap'[job[a].rec] = r
  BY <1>2, <1>3, <1>7 DEF IInv, Types
<1>10. \A c \in Client : heap[c] \in GoodRecord => heap'[c] \in GoodRecord
  BY <1>2, <1>3, <1>7 DEF IInv, Types
<1>11. Keeps
  BY <1>4, <1>7, <1>8, <1>9, <1>10 DEF Keeps, IInv, Types, Loaded
<1>12. KnowsOf(a, j, heap', item', table')
  BY <1>2, <1>3, <1>4, <1>5, <1>7, <1>9 DEF KnowsOf
<1>13. UNCHANGED runVars /\ UNCHANGED history
  BY DEF SaveGroups
<1> QED
  BY <1>5, <1>6, <1>11, <1>12, <1>13, PlainStep

LEMMA SettleInv ==
  ASSUME IInv, NEW a \in Actor, Settle(a)
  PROVE IInv'
<1> DEFINE s == IF a = Worker /\ Mine(a).state = "PARSING"
                  THEN "READY" ELSE Mine(a).state
           r == [Mine(a) EXCEPT !.state = s]
<1>1. job[a] \in GoodJob /\ KnowsOf(a, job[a], heap, item, table)
  BY Mine1
<1>2. /\ job[a].rec \in Client /\ Mine(a) \in GoodRecord
      /\ table \in GoodRecord
  BY <1>1 DEF Settle, KnowsOf, Making, Mine
<1>3. r \in GoodRecord
  <2>1. s \in ProcessState
    BY <1>2 DEF GoodRecord, ProcessState
  <2> HIDE DEF s
  <2> QED
    BY <1>2, <2>1, RecordParts
<1>4. Persist(a, r, "idle") /\ UNCHANGED <<item, table, protocol>>
      /\ UNCHANGED runVars /\ UNCHANGED history
  BY DEF Settle
<1> HIDE DEF r
<1>5. Keeps
  BY <1>2, <1>3, <1>4, KeepHeap DEF Persist
<1> QED
  BY <1>2, <1>3, <1>4, <1>5, PersistStep

-----------------------------------------------------------------------------
(* Writes, failures and restarts.                                          *)

LEMMA WriteInv ==
  ASSUME IInv, NEW a \in Actor, Write(a)
  PROVE IInv'
<1>1. job[a] \in GoodJob /\ KnowsOf(a, job[a], heap, item, table)
  BY Mine1
<1>2. /\ job[a].pc = "write" /\ job[a].rec \in Client
      /\ heap[job[a].rec] \in GoodRecord /\ job[a].held \in GoodRecord
      /\ job[a].next \in {"idle", "attach", "blob", "reopen", "groups"}
      /\ (job[a].next = "blob" => job[a].arg \in File)
  BY <1>1 DEF Write, KnowsOf
<1>3. HistoryOK' /\ UNCHANGED <<heap, item, protocol>>
  BY KeepHistory DEF Write
<1>4. CASE Accepted(job[a].held)
  <2> DEFINE base == IF table = NoRecord THEN Fresh ELSE table
  <2>1. base \in GoodRecord
    BY FreshRecord DEF IInv, Types
  <2>2. table' = Row(base, job[a].held)
    BY <1>4 DEF Write
  <2> HIDE DEF base
  <2>3. table' \in GoodRecord /\ table'.attempts <= MaxParse
    BY <1>2, <1>4, <2>1, <2>2, RowRecord DEF Accepted
  <2>4. Keeps
    BY <1>3, <2>3, KeepTable
  <2>5. CASE job[a].next = "idle"
    <3>1. Return(a)
      BY <1>4, <2>5 DEF Write
    <3> QED
      BY <1>3, <2>4, <3>1, ReturnStep
  <2>6. CASE job[a].next # "idle"
    <3> DEFINE j == [job[a] EXCEPT !.pc = job[a].next, !.next = "idle",
                                   !.held = NoRecord]
    <3>1. /\ j \in GoodJob /\ j.pc = job[a].next /\ j.rec = job[a].rec
          /\ j.arg = job[a].arg
      BY <1>1, <1>2, <2>6 DEF GoodJob, Steps
    <3>2. job' = [job EXCEPT ![a] = j] /\ job'[a] = j /\ UNCHANGED runVars
      BY <1>4, <2>6 DEF Write, IInv, Types
    <3> HIDE DEF j
    <3>3. KnowsOf(a, j, heap', item', table')
      BY <1>2, <1>3, <2>3, <2>6, <3>1 DEF KnowsOf
    <3>4. UNCHANGED history
      BY DEF Write
    <3> QED
      BY <2>4, <3>1, <3>2, <3>3, <3>4, PlainStep
  <2> QED
    BY <2>5, <2>6
<1>5. CASE ~ Accepted(job[a].held)
  <2>1. Return(a) /\ UNCHANGED table
    BY <1>5 DEF Write
  <2>2. Keeps
    BY <1>3, <2>1, KeepData DEF data
  <2> QED
    BY <1>3, <2>1, <2>2, ReturnStep
<1> QED
  BY <1>4, <1>5

LEMMA FaultInv ==
  ASSUME IInv, NEW a \in Actor, Fault(a)
  PROVE IInv'
<1>1. job[a] \in GoodJob /\ KnowsOf(a, job[a], heap, item, table)
  BY Mine1
<1>2. Return(a) /\ UNCHANGED <<item, table, protocol>>
  BY DEF Fault
<1>3. Keeps
  <2>1. CASE job[a].pc \in {"assemble", "materialize"}
    <3>1. job[a].rec \in Client /\ Mine(a) \in GoodRecord
      BY <1>1, <2>1 DEF KnowsOf, Mine
    <3>2. RollBack(a)
      BY <2>1 DEF Fault
    <3> QED
      BY <1>2, <3>1, <3>2, RollBackKeeps
  <2>2. CASE job[a].pc \notin {"assemble", "materialize"}
    BY <1>2, <2>2, KeepData DEF Fault, data
  <2> QED
    BY <2>1, <2>2
<1>4. HistoryOK'
  <2>1. cut' \in BOOLEAN /\ clash' \in {"none", "inspectors", "upload"}
    BY DEF Fault, IInv, HistoryOK
  <2>2. /\ requests' \in 0..MaxRequest /\ faults' \in 0..MaxFault
        /\ restarts' \in 0..MaxRestart
    BY Bounds DEF Fault, IInv, HistoryOK
  <2> QED
    BY <2>1, <2>2 DEF HistoryOK
<1> QED
  BY <1>2, <1>3, <1>4, ReturnStep

LEMMA RestartInv == IInv /\ Restart => IInv'
<1> SUFFICES ASSUME IInv, Restart PROVE IInv'
  OBVIOUS
<1>a. NoOne \notin Client
  BY Actors DEF Actor
<1>1. /\ heap' = [c \in Client |-> NoRecord] /\ item' = NoOne
      /\ job' = [a \in Actor |-> Idle] /\ UNCHANGED <<table, protocol>>
  BY DEF Restart
<1>2. Types'
  BY <1>1, IdleJob DEF IInv, Types
<1>3. RunsOK' /\ requested'[P] = 0
  BY DEF Restart, RunsOK
<1>4. HistoryOK'
  <2>1. cut' = (cut \/ ~ Quiet) /\ UNCHANGED clash
    BY DEF Restart
  <2>2. cut' \in BOOLEAN /\ clash' \in {"none", "inspectors", "upload"}
    BY <2>1 DEF IInv, HistoryOK
  <2>3. /\ requests' \in 0..MaxRequest /\ faults' \in 0..MaxFault
        /\ restarts' \in 0..MaxRestart
    BY Bounds DEF Restart, IInv, HistoryOK
  <2> QED
    BY <2>2, <2>3 DEF HistoryOK
<1>5. Threads'
  BY <1>1 DEF Threads, Knows, KnowsOf, Idle
<1>6. Loaded' /\ Asked'
  BY <1>a, <1>1, <1>3 DEF Loaded, Asked
<1> QED
  BY <1>2, <1>3, <1>4, <1>5, <1>6 DEF IInv

-----------------------------------------------------------------------------
(* The theorems.                                                           *)

LEMMA StutterInv == IInv /\ UNCHANGED vars => IInv'
BY DEF vars, data, runVars, history, IInv, Types, RunsOK, HistoryOK, Threads,
       Knows, Loaded, Asked

LEMMA HandlerInv ==
  ASSUME IInv, NEW c \in Client, Handler(c)
  PROVE IInv'
BY GetInv, InstallInv, RejectInv, CreateInv, AttachInv, KeepBlobInv, ReopenInv,
   ReviewInv, ConfirmInv, OpenInv, CheckInv, AssignInv, AssembleInv,
   MaterializeInv, SelectInv, AuditedInv, ReplaceInv, ClearInv DEF Handler

LEMMA ThreadInv ==
  ASSUME IInv, NEW a \in Actor, Thread(a)
  PROVE IInv'
BY SignInv, SaveInv, ComputeInv, RegroupInv, SaveGroupsInv, SettleInv, WriteInv
   DEF Thread

LEMMA NextInv == IInv /\ [Next]_vars => IInv'
BY ArriveInv, HandlerInv, ThreadInv, FaultInv, BeginInv, SkipInv, RestartInv,
   StutterInv DEF Next

\* The invariant holds in every behaviour.
THEOREM Invariance == Spec => []IInv
BY InitInv, NextInv, PTL DEF Spec

LEMMA IInvTyped == IInv => TypeOK
<1> SUFFICES ASSUME IInv PROVE TypeOK
  OBVIOUS
<1>1. GoodFinding \subseteq Finding
  BY DEF GoodFinding
<1>2. GoodCards \subseteq UNION {[K -> Finding] : K \in SUBSET Key}
  <2> SUFFICES ASSUME NEW x \in GoodCards
               PROVE x \in UNION {[K -> Finding] : K \in SUBSET Key}
    OBVIOUS
  <2>1. DOMAIN x \in SUBSET Key /\ x \in [DOMAIN x -> GoodFinding]
    BY CardsFacts
  <2>2. x \in [DOMAIN x -> Finding]
    BY <1>1, <2>1
  <2> QED
    BY <2>1, <2>2
<1>3. GoodJob \subseteq Job
  BY <1>2, GoodIsRecord DEF GoodJob, Job, Actor
<1>4. /\ heap \in [Client -> Record \cup {NoRecord}]
      /\ table \in Record \cup {NoRecord} /\ protocol \in Record \cup {NoRecord}
  BY GoodIsRecord DEF IInv, Types
<1>5. job \in [Actor -> Job]
  BY <1>3 DEF IInv, Types
<1> QED
  BY <1>4, <1>5 DEF TypeOK, IInv, Types, RunsOK, HistoryOK

\* Every variable keeps its shape: whatever requests, runs, failures and
\* restarts do, rows and records stay well-formed, and the table never holds
\* more parse attempts than it accepts.
THEOREM TypeCorrect == Spec => []TypeOK
BY Invariance, IInvTyped, PTL

LEMMA IInvSigned == IInv => SignedForValue
<1> SUFFICES ASSUME IInv,
                    NEW r \in {heap[c] : c \in Client} \cup {table, protocol},
                    NEW f \in Cards(r), f.status \in HumanOnlyStatuses
             PROVE f.signed = f.value
  BY DEF SignedForValue
<1>1. r \in GoodRecord
  BY DEF IInv, Types, Cards
<1>2. f \in GoodFinding
  BY <1>1 DEF Cards, GoodRecord
<1> QED
  BY <1>2 DEF GoodFinding

\* ADR-0001: no interleaving of requests, runs, failures and restarts leaves
\* a human-only status, in memory, in the table or in a protocol, on numbers
\* that no inspector decided about.
THEOREM SignedOnItsValue == Spec => []SignedForValue
BY Invariance, IInvSigned, PTL

-----------------------------------------------------------------------------
(* The first layer: who can be under way together with whom.               *)

\* A run is for requests that came before it; only the worker runs.
RunTurns ==
  /\ covered[P] <= requested[P]
  /\ IF current = "none" THEN job[Worker].pc = "idle"
                         ELSE covered[P] < upTo /\ upTo <= requested[P]

OpTurns ==
  \A a \in Actor :
    /\ job[a].pc = "idle" => job[a].op = "none"
    /\ job[a].op \in Ops => (job[a].op = "run" <=> a = Worker)

\* Which requests come to which steps.
At(j) ==
  /\ j.pc \in {"attach", "blob", "reopen"} => j.op \in {"create", "upload"}
  /\ j.pc \in {"sign", "save"} => j.op \in {"review", "confirm", "run"}
  /\ j.pc = "open" => j.op \in {"review", "confirm"}
  /\ j.pc = "assign" => j.op \in {"review", "confirm", "verify", "complete",
                                  "finalize", "unfinalize"}
  /\ j.pc \in {"assemble", "materialize"} => j.op = "finalize"
  /\ j.pc \in {"audited", "replace", "clear"} => j.op = "select"
  /\ j.pc \in {"compute", "regroup", "groups", "settle"} => j.op \in {"select", "run"}
  /\ j.pc = "write" =>
       \/ j.next = "attach" /\ j.op = "create"
       \/ j.next \in {"blob", "reopen"} /\ j.op \in {"create", "upload"}
       \/ j.next = "groups" /\ j.op \in {"select", "run"}
       \/ j.next = "idle" /\ j.op \notin {"create", "upload", "finalize", "none"}

PlaceTurns == \A a \in Actor : At(job[a])

\* While a process is made there is nothing else to do.
CreateTurns ==
  \A a \in Actor : job[a].op = "create" =>
    /\ requested[P] = covered[P] /\ job[a].pc \notin {"get", "install"}
    /\ job[a].pc = "body" => item = NoOne /\ table = NoRecord
    /\ \A b \in Actor \ {a} : job[b].pc = "idle"

\* With no record in memory a request can only be bringing one.
ItemTurns ==
  \A a \in Actor : item = NoOne /\ InFlight(a) =>
    \/ job[a].pc = "install" /\ job[a].rec = a
    \/ job[a].pc = "body" /\ job[a].op = "create"

\* Until an upload has overlapped another request: a request under way has
\* waited for the runs asked for, and an upload under way is alone.
UploadTurns ==
  clash # "upload" =>
    \A c \in Client : InFlight(c) =>
      /\ requested[P] = covered[P]
      /\ Uploading(c) => \A d \in Client \ {c} : ~ InFlight(d)

\* Until requests have overlapped, one is under way at a time.
RequestTurns ==
  clash = "none" =>
    \A c, d \in Client : InFlight(c) /\ InFlight(d) => c = d

Turns ==
  /\ RunTurns
  /\ OpTurns
  /\ PlaceTurns
  /\ CreateTurns
  /\ ItemTurns
  /\ UploadTurns
  /\ RequestTurns

\* The table still accepts the number of parse attempts of the record.
Within(r) == r.attempts <= MaxParse

LEMMA InitTurns == Init => Turns
<1> SUFFICES ASSUME Init PROVE Turns
  OBVIOUS
<1>1. \A a \in Actor : job[a] = Idle
  BY DEF Init
<1>2. Worker \in Actor /\ Client \subseteq Actor
  BY DEF Actor
<1>3. requested[P] = 0 /\ covered[P] = 0 /\ current = "none"
  BY DEF Init, Runs!Init
<1> QED
  BY <1>1, <1>2, <1>3 DEF Turns, RunTurns, OpTurns, PlaceTurns, At, CreateTurns,
     ItemTurns, UploadTurns, RequestTurns, InFlight, Idle, Ops

\* The job of one thread changes.
Only(a) == job' = [job EXCEPT ![a] = job'[a]]

LEMMA OnlyFacts ==
  ASSUME IInv, NEW a \in Actor, Only(a)
  PROVE \A b \in Actor : b # a => job'[b] = job[b]
BY DEF IInv, Types, Only

\* A step in the middle of a request or a run.
LEMMA MiddleTurns ==
  ASSUME IInv, Turns, NEW a \in Actor, Only(a), InFlight(a),
         job[a].pc # "install",
         job[a].pc = "body" => job[a].op # "create",
         job'[a].op = job[a].op,
         job'[a].pc \notin {"idle", "get", "install", "body"}, At(job'[a]),
         UNCHANGED runVars, UNCHANGED item, UNCHANGED clash
  PROVE Turns'
<1>1. \A b \in Actor : b # a => job'[b] = job[b]
  BY OnlyFacts
<1>2. Worker \in Actor /\ Client \subseteq Actor
  BY DEF Actor
<1>3. item # NoOne
  BY DEF Turns, ItemTurns, InFlight
<1>4. \A b \in Actor : job'[b].op = job[b].op /\ (InFlight(b)' <=> InFlight(b))
  BY <1>1 DEF InFlight
<1>5. \A b \in Actor : job'[b].pc = "idle" <=> job[b].pc = "idle"
  BY <1>1 DEF InFlight
<1>6. RunTurns' /\ OpTurns'
  BY <1>2, <1>4, <1>5 DEF Turns, RunTurns, OpTurns, runVars
<1>7. CreateTurns'
  <2> SUFFICES ASSUME NEW b \in Actor, job'[b].op = "create"
               PROVE /\ requested'[P] = covered'[P] /\ job'[b].pc \notin {"get", "install"}
                     /\ job'[b].pc = "body" => item' = NoOne /\ table' = NoRecord
                     /\ \A d \in Actor \ {b} : job'[d].pc = "idle"
    BY DEF CreateTurns
  <2>1. job[b].op = "create"
    BY <1>4
  <2>2. b = a
    BY <2>1 DEF Turns, CreateTurns, InFlight
  <2> QED
    BY <1>5, <2>1, <2>2 DEF Turns, CreateTurns, runVars
<1>8. ItemTurns' /\ PlaceTurns'
  BY <1>1, <1>3 DEF ItemTurns, Turns, PlaceTurns
<1>9. UploadTurns' /\ RequestTurns'
  BY <1>2, <1>4 DEF Turns, UploadTurns, RequestTurns, Uploading, runVars
<1> QED
  BY <1>6, <1>7, <1>8, <1>9 DEF Turns

\* The end of a request or a run.
LEMMA ReturnTurns ==
  ASSUME IInv, Turns, NEW a \in Actor, InFlight(a), Return(a),
         UNCHANGED item, UNCHANGED clash
  PROVE Turns'
<1>1. job'[a] = Idle /\ \A b \in Actor : b # a => job'[b] = job[b]
  BY DEF Return, IInv, Types
<1>2. Worker \in Actor /\ Client \subseteq Actor /\ Worker \notin Client
  BY Actors DEF Actor
<1>3. /\ Idle.op = "none" /\ Idle.pc = "idle" /\ "none" \notin Ops
      /\ "none" \notin {"create", "upload"}
  BY DEF Idle, Ops
<1>4. \A b \in Actor : InFlight(b)' => InFlight(b) /\ b # a
  BY <1>1, <1>3 DEF InFlight
<1>5. /\ requested' = requested /\ covered[P] <= covered'[P]
      /\ covered'[P] <= requested[P]
      /\ a # Worker => UNCHANGED runVars
      /\ a = Worker => current' = "none" /\ requested[P] # covered[P]
  BY DEF Return, Runs!End, runVars, IInv, RunsOK, Turns, RunTurns
<1>6. RunTurns'
  BY <1>1, <1>2, <1>3, <1>5 DEF Turns, RunTurns, runVars
<1>7. OpTurns'
  BY <1>1, <1>3 DEF Turns, OpTurns
<1>8. CreateTurns'
  <2> SUFFICES ASSUME NEW b \in Actor, job'[b].op = "create" PROVE FALSE
    BY DEF CreateTurns
  <2>1. b # a /\ job[b].op = "create"
    BY <1>1, <1>3
  <2> QED
    BY <2>1 DEF Turns, CreateTurns, InFlight
<1>9. ItemTurns' /\ PlaceTurns'
  BY <1>1, <1>3, <1>4 DEF Turns, ItemTurns, PlaceTurns, At
<1>10. UploadTurns'
  <2> SUFFICES ASSUME clash # "upload", NEW c \in Client, InFlight(c)'
               PROVE /\ requested'[P] = covered'[P]
                     /\ Uploading(c)' => \A d \in Client \ {c} : ~ InFlight(d)'
    BY DEF UploadTurns
  <2>1. InFlight(c) /\ job'[c] = job[c]
    BY <1>1, <1>2, <1>4
  <2> QED
    BY <1>2, <1>4, <1>5, <2>1 DEF Turns, UploadTurns, Uploading, runVars
<1>11. RequestTurns'
  BY <1>2, <1>4 DEF Turns, RequestTurns
<1> QED
  BY <1>6, <1>7, <1>8, <1>9, <1>10, <1>11 DEF Turns

-----------------------------------------------------------------------------
(* What the steps do, as far as the three layers look at it.               *)

\* A step in the middle of a request or a run of thread a, to pc.
Goes(a, pc) ==
  /\ Only(a) /\ InFlight(a)
  /\ job'[a].pc = pc /\ job'[a].op = job[a].op
  /\ UNCHANGED runVars /\ UNCHANGED history /\ UNCHANGED item

\* The record of thread a becomes r, no other record changes.
Alters(a, r) ==
  /\ heap'[job[a].rec] = r
  /\ \A x \in Client : x # job[a].rec => heap'[x] = heap[x]

LEMMA ChangeAlters ==
  ASSUME IInv, NEW a \in Actor, NEW r, job[a].rec \in Client, Change(a, r)
  PROVE Alters(a, r)
BY DEF IInv, Types, Change, Alters

\* A thread in the middle of its work has a record, and there is a row.
LEMMA AtWork ==
  ASSUME IInv, NEW a \in Actor,
         job[a].pc \notin {"idle", "get", "install", "body"}
  PROVE /\ job[a].rec \in Client /\ Mine(a) \in GoodRecord
        /\ job[a] \in GoodJob /\ InFlight(a)
        /\ table \in GoodRecord \/ Making(job[a])
BY Mine1 DEF KnowsOf, Mine, InFlight

LEMMA GoesTurns ==
  ASSUME IInv, Turns, NEW a \in Actor, NEW pc, Goes(a, pc),
         job[a].pc # "install", job[a].pc = "body" => job[a].op # "create",
         pc \notin {"idle", "get", "install", "body"}, At(job'[a])
  PROVE Turns'
BY MiddleTurns DEF Goes, history

LEMMA ReviewEffect ==
  ASSUME IInv, NEW c \in Client, Review(c)
  PROVE /\ Goes(c, "sign") /\ job'[c].rec = item /\ UNCHANGED data
        /\ heap[item].state # "FINALIZED"
        /\ \A k \in DOMAIN job'[c].cards :
             /\ k \in Key /\ heap[item].findings[k] # NoFinding
             /\ heap[item].findings[k].status \notin HumanOnlyStatuses
<1>1. PICK k \in Key, to \in HumanOnlyStatuses \cup {"CLARIFICATION_REQUIRED"} :
        /\ heap[item].findings[k] # NoFinding
        /\ <<heap[item].findings[k].status, to>> \in FindingTransitions
        /\ Decide(c, [x \in {k} |-> Signed(heap[item].findings[k], to)])
  BY DEF Review
<1>2. job[c].pc = "body" /\ c \in Actor
  BY DEF Review, Actor
<1>3. heap[item].findings[k].status \notin HumanOnlyStatuses
  BY <1>1 DEF FindingTransitions, HumanOnlyStatuses
<1> DEFINE y == [x \in {k} |-> Signed(heap[item].findings[k], to)]
<1>4. DOMAIN y = {k}
  OBVIOUS
<1>5. Decide(c, y)
  BY <1>1
<1> HIDE DEF y
<1>6. Goes(c, "sign") /\ job'[c].rec = item /\ job'[c].cards = y
  BY <1>2, <1>5 DEF Decide, Goes, Only, InFlight, IInv, Types, GoodJob, data
<1> QED
  BY <1>1, <1>3, <1>4, <1>5, <1>6 DEF Decide

LEMMA ConfirmEffect ==
  ASSUME IInv, NEW c \in Client, Confirm(c)
  PROVE /\ Goes(c, "sign") /\ job'[c].rec = item /\ UNCHANGED data
        /\ heap[item].state # "FINALIZED"
        /\ \A k \in DOMAIN job'[c].cards :
             /\ k \in Key /\ heap[item].findings[k] # NoFinding
             /\ heap[item].findings[k].status \notin HumanOnlyStatuses
<1>1. PICK K \in SUBSET Candidates(heap[item]) :
        Decide(c, [k \in K |-> Signed(heap[item].findings[k], "CONFIRMED_VIOLATION")])
  BY DEF Confirm
<1>2. job[c].pc = "body" /\ c \in Actor
  BY DEF Confirm, Actor
<1> DEFINE y == [k \in K |-> Signed(heap[item].findings[k], "CONFIRMED_VIOLATION")]
<1>3. DOMAIN y = K
  OBVIOUS
<1>4. Decide(c, y)
  BY <1>1
<1> HIDE DEF y
<1>5. Goes(c, "sign") /\ job'[c].rec = item /\ job'[c].cards = y
  BY <1>2, <1>4 DEF Decide, Goes, Only, InFlight, IInv, Types, GoodJob, data
<1> QED
  BY <1>1, <1>3, <1>4, <1>5 DEF Decide, Candidates, HumanOnlyStatuses

LEMMA SignEffect ==
  ASSUME IInv, NEW a \in Actor, Sign(a)
  PROVE /\ Goes(a, "save") /\ UNCHANGED <<item, table, protocol>>
        /\ job'[a].rec = job[a].rec /\ job'[a].held = job[a].held
        /\ LET k == job'[a].arg IN
             /\ k \in DOMAIN job[a].cards
             /\ DOMAIN job'[a].cards = DOMAIN job[a].cards
             /\ \A x \in DOMAIN job[a].cards :
                  x # k => job'[a].cards[x] = job[a].cards[x]
             /\ job'[a].cards[k] = IF a = Worker
                                     THEN Carry(Mine(a).findings[k], job[a].cards[k])
                                     ELSE job[a].cards[k]
             /\ Alters(a, [Mine(a) EXCEPT !.findings[k] = job'[a].cards[k]])
<1>1. job[a] \in GoodJob /\ job[a].rec \in Client
  BY AtWork DEF Sign
<1> DEFINE x == job[a].cards
           New(k) == IF a = Worker THEN Carry(Mine(a).findings[k], x[k]) ELSE x[k]
           J(k) == [job[a] EXCEPT !.pc = "save", !.arg = k, !.cards = [x EXCEPT ![k] = New(k)]]
<1>2. PICK k \in DOMAIN x : /\ Change(a, [Mine(a) EXCEPT !.findings[k] = New(k)])
                            /\ job' = [job EXCEPT ![a].pc = "save", ![a].arg = k,
                                                  ![a].cards[k] = New(k)]
  BY DEF Sign
<1>3. job' = [job EXCEPT ![a] = J(k)] /\ job'[a] = J(k)
  BY <1>1, <1>2 DEF IInv, Types, GoodJob
<1>4. /\ J(k).pc = "save" /\ J(k).arg = k /\ J(k).op = job[a].op
      /\ J(k).rec = job[a].rec /\ J(k).held = job[a].held
      /\ J(k).cards = [x EXCEPT ![k] = New(k)]
  BY <1>1 DEF GoodJob
<1> HIDE DEF J
<1>5. Goes(a, "save")
  BY <1>3, <1>4 DEF Goes, Only, Sign, InFlight
<1>6. job'[a].cards[k] = New(k)
  BY <1>2, <1>3, <1>4
<1>7. Alters(a, [Mine(a) EXCEPT !.findings[k] = job'[a].cards[k]])
  BY <1>1, <1>2, <1>6, ChangeAlters
<1> QED
  BY <1>2, <1>3, <1>4, <1>5, <1>6, <1>7 DEF Sign

LEMMA SaveEffect ==
  ASSUME IInv, NEW a \in Actor, Save(a)
  PROVE LET k == job[a].arg
            rest == DOMAIN job[a].cards \ {k}
        IN /\ \/ Goes(a, "sign") /\ rest # {}
              \/ Goes(a, IF a = Worker THEN "regroup" ELSE "open") /\ rest = {}
           /\ job'[a].rec = job[a].rec /\ job'[a].held = job[a].held
           /\ DOMAIN job'[a].cards = rest
           /\ \A x \in rest : job'[a].cards[x] = job[a].cards[x]
           /\ table' = [table EXCEPT !.findings[k] = job[a].cards[k]]
           /\ UNCHANGED <<heap, item, protocol>>
<1>1. job[a] \in GoodJob /\ job[a].rec \in Client /\ InFlight(a)
  BY AtWork DEF Save
<1> DEFINE x == job[a].cards
           k == job[a].arg
           rest == DOMAIN x \ {k}
           y == [z \in rest |-> x[z]]
           to == IF rest = {} THEN IF a = Worker THEN "regroup" ELSE "open" ELSE "sign"
           j == [job[a] EXCEPT !.cards = y, !.arg = None, !.pc = to]
<1>2. job' = [job EXCEPT ![a] = j] /\ job'[a] = j
  BY DEF Save, IInv, Types
<1>3. j.pc = to /\ j.op = job[a].op /\ j.rec = job[a].rec /\ j.held = job[a].held
      /\ j.cards = y
  BY <1>1 DEF GoodJob
<1> HIDE DEF j
<1>4. Goes(a, to)
  BY <1>1, <1>2, <1>3 DEF Goes, Only, Save
<1> QED
  BY <1>2, <1>3, <1>4 DEF Save

\* Steps that change nothing but the place of a thread, its record or row.
LEMMA OpenEffect ==
  ASSUME IInv, NEW c \in Client, Open(c)
  PROVE /\ UNCHANGED data /\ UNCHANGED history
        /\ \/ /\ Goes(c, "assign") /\ Mine(c).state = "READY"
              /\ job'[c].rec = job[c].rec
           \/ Return(c) /\ InFlight(c)
<1>1. c \in Actor /\ c # Worker
  BY Actors DEF Actor
<1>2. job[c] \in GoodJob /\ InFlight(c)
  BY <1>1, AtWork DEF Open
<1>3. CASE Mine(c).state = "READY"
  <2>1. Goes(c, "assign") /\ job'[c].rec = job[c].rec
    BY <1>1, <1>2, <1>3 DEF Open, GoTo, Goes, Only, IInv, Types, GoodJob, data
  <2> QED
    BY <1>3, <2>1 DEF Open
<1>4. CASE Mine(c).state # "READY"
  BY <1>1, <1>2, <1>4 DEF Open, Return
<1> QED
  BY <1>3, <1>4

LEMMA CheckEffect ==
  ASSUME IInv, NEW c \in Client, Check(c)
  PROVE /\ Goes(c, "assign") /\ job'[c].rec = item /\ UNCHANGED data
        /\ job[c].op \in {"verify", "complete", "finalize", "unfinalize"}
        /\ heap[item].state = Source(job[c].op)
        /\ job[c].op \in {"complete", "finalize"} => Candidates(heap[item]) = {}
<1>1. c \in Actor
  BY DEF Actor
<1>2. Goes(c, "assign") /\ job'[c].rec = item
  BY <1>1 DEF Check, Goes, Only, InFlight, IInv, Types, GoodJob, data
<1> QED
  BY <1>2 DEF Check, CanFinalize

\* _persist.
LEMMA PersistEffect ==
  ASSUME IInv, NEW a \in Actor, NEW r, NEW next, Persist(a, r, next),
         job[a].pc \notin {"idle", "get", "install", "body"},
         UNCHANGED <<item, runVars, history>>
  PROVE /\ Goes(a, "write") /\ job'[a].rec = job[a].rec /\ Alters(a, r)
        /\ job'[a].next = next /\ job'[a].held = Row(Fresh, r)
        /\ job'[a].arg = job[a].arg
<1>1. job[a] \in GoodJob /\ job[a].rec \in Client /\ InFlight(a)
  BY AtWork
<1>2. Alters(a, r)
  BY <1>1, ChangeAlters DEF Persist
<1> QED
  BY <1>1, <1>2 DEF Persist, Goes, Only, IInv, Types, GoodJob

LEMMA AssignEffect ==
  ASSUME IInv, NEW c \in Client, Assign(c)
  PROVE LET r == [Mine(c) EXCEPT !.state = Target(job[c].op)] IN
        /\ Alters(c, r) /\ job'[c].rec = job[c].rec
        /\ \/ Goes(c, "assemble") /\ job[c].op = "finalize"
           \/ /\ Goes(c, "write") /\ job[c].op # "finalize"
              /\ job'[c].next = "idle" /\ job'[c].held = Row(Fresh, r)
        /\ UNCHANGED <<item, table, protocol>>
<1> DEFINE r == [Mine(c) EXCEPT !.state = Target(job[c].op)]
<1>1. c \in Actor
  BY DEF Actor
<1>2. job[c] \in GoodJob /\ job[c].rec \in Client /\ InFlight(c)
  BY <1>1, AtWork DEF Assign
<1>3. CASE job[c].op = "finalize"
  <2>1. Change(c, r) /\ GoTo(c, "assemble")
    BY <1>3 DEF Assign
  <2> HIDE DEF r
  <2>2. Alters(c, r)
    BY <1>1, <1>2, <2>1, ChangeAlters
  <2>3. Goes(c, "assemble") /\ job'[c].rec = job[c].rec
    BY <1>1, <1>2, <2>1 DEF GoTo, Goes, Only, Assign, IInv, Types, GoodJob
  <2> USE DEF r
  <2> QED
    BY <1>3, <2>2, <2>3 DEF Assign
<1>4. CASE job[c].op # "finalize"
  <2>1. Persist(c, r, "idle") /\ UNCHANGED <<item, runVars, history>>
    BY <1>4 DEF Assign
  <2>2. /\ Goes(c, "write") /\ job'[c].rec = job[c].rec /\ Alters(c, r)
        /\ job'[c].next = "idle" /\ job'[c].held = Row(Fresh, r)
    BY <1>1, <2>1, PersistEffect DEF Assign
  <2> QED
    BY <1>4, <2>2 DEF Assign
<1> QED
  BY <1>3, <1>4

LEMMA AssembleEffect ==
  ASSUME IInv, NEW c \in Client, Assemble(c)
  PROVE /\ Goes(c, "materialize") /\ job'[c].rec = job[c].rec
        /\ job'[c].held = Mine(c) /\ UNCHANGED data
<1>1. c \in Actor
  BY DEF Actor
<1>2. job[c] \in GoodJob /\ InFlight(c)
  BY <1>1, AtWork DEF Assemble
<1> QED
  BY <1>1, <1>2 DEF Assemble, Goes, Only, IInv, Types, GoodJob, data

LEMMA MaterializeEffect ==
  ASSUME IInv, NEW c \in Client, Materialize(c)
  PROVE /\ InFlight(c) /\ Return(c) /\ UNCHANGED item /\ UNCHANGED history
        /\ LET h == job[c].held IN
           \/ /\ Within(h) /\ h.state = "FINALIZED"
              /\ table' = Row(table, h) /\ protocol' = h /\ UNCHANGED heap
           \/ /\ ~ (Within(h) /\ h.state = "FINALIZED")
              /\ Alters(c, [Mine(c) EXCEPT !.state = "COMPLETED"])
              /\ UNCHANGED <<table, protocol>>
<1>1. c \in Actor /\ c # Worker
  BY Actors DEF Actor
<1>2. job[c] \in GoodJob /\ job[c].rec \in Client /\ InFlight(c)
  BY <1>1, AtWork DEF Materialize
<1>3. Return(c)
  BY <1>1 DEF Materialize, Return
<1>4. RollBack(c) => Alters(c, [Mine(c) EXCEPT !.state = "COMPLETED"])
  BY <1>1, <1>2, ChangeAlters DEF RollBack
<1> QED
  BY <1>2, <1>3, <1>4 DEF Materialize, Within

LEMMA SelectEffect ==
  ASSUME IInv, NEW c \in Client, Select(c)
  PROVE /\ Goes(c, "audited") /\ job[c].op = "select" /\ job'[c].rec = item
        /\ heap[item].state \in {"READY", "VERIFYING"} /\ Undecided(heap[item])
        /\ LET f == job'[c].arg IN
             /\ f \in heap[item].files /\ f \in table.blobs
             /\ heap'[item] = [heap[item] EXCEPT !.approved = @ \cup {f},
                                                 !.blobs = @ \cup {f}]
        /\ \A x \in Client : x # item => heap'[x] = heap[x]
        /\ UNCHANGED <<item, table, protocol>>
<1>1. c \in Actor
  BY DEF Actor
<1>2. item \in Client /\ heap[item] \in GoodRecord
  BY AtBody DEF Select
<1>3. PICK f \in heap[item].files \cap table.blobs :
        /\ heap' = [heap EXCEPT ![item].approved = @ \cup {f},
                                ![item].blobs = @ \cup {f}]
        /\ job' = [job EXCEPT ![c].pc = "audited", ![c].rec = item, ![c].arg = f]
  BY DEF Select
<1>4. Goes(c, "audited") /\ job'[c].rec = item /\ job'[c].arg = f
  <2>1. job[c] \in GoodJob /\ job[c].pc = "body" /\ job[c].op = "select" /\ job \in [Actor -> GoodJob]
    BY <1>1 DEF Select, IInv, Types
  <2>2. job'[c] = [job[c] EXCEPT !.pc = "audited", !.rec = item, !.arg = f]
    BY <1>1, <1>3, <2>1
  <2> QED BY <1>1, <1>3, <2>1, <2>2 DEF Select, Goes, Only, InFlight, GoodJob
<1>5. /\ heap'[item] = [heap[item] EXCEPT !.approved = @ \cup {f},
                                          !.blobs = @ \cup {f}]
      /\ \A x \in Client : x # item => heap'[x] = heap[x]
  BY <1>2, <1>3 DEF IInv, Types, GoodRecord
<1> QED
  BY <1>3, <1>4, <1>5 DEF Select

LEMMA AuditedEffect ==
  ASSUME IInv, NEW c \in Client, Audited(c)
  PROVE /\ Goes(c, "compute") /\ job'[c].rec = job[c].rec
        /\ job'[c].held = Input(Mine(c))
        /\ table' = [table EXCEPT !.approved = @ \cup {job[c].arg}]
        /\ UNCHANGED <<heap, item, protocol>>
<1>1. c \in Actor
  BY DEF Actor
<1>2. job[c] \in GoodJob /\ InFlight(c)
  BY <1>1, AtWork DEF Audited
<1> QED
  BY <1>1, <1>2 DEF Audited, Goes, Only, IInv, Types, GoodJob

LEMMA ComputeEffect ==
  ASSUME IInv, NEW a \in Actor, Compute(a)
  PROVE /\ Goes(a, IF a = Worker THEN "sign" ELSE "replace")
        /\ job'[a].rec = job[a].rec /\ UNCHANGED data
        /\ job'[a].held.files = job[a].held.files \cap Mine(a).blobs
        /\ DOMAIN job'[a].cards = Key
        /\ \A k \in Key : job'[a].cards[k] \in GoodFinding
                            /\ job'[a].cards[k].status \in Machine
<1>1. job[a] \in GoodJob /\ InFlight(a)
  BY AtWork DEF Compute
<1>2. Mine(a) \in GoodRecord /\ job[a].held \in GoodRecord
  BY Mine1 DEF Compute, KnowsOf, Mine
<1> DEFINE F == job[a].held.files \cap Mine(a).blobs
           A == job[a].held.approved
           x == [k \in Key |-> Compare(k, F, A)]
           h == [Fresh EXCEPT !.files = F]
           to == IF a = Worker THEN "sign" ELSE "replace"
           j == [job[a] EXCEPT !.pc = to, !.held = h, !.cards = x]
<1>3. F \in SUBSET File /\ A \in SUBSET File
  BY <1>2 DEF GoodRecord
<1>4. job' = [job EXCEPT ![a] = j] /\ job'[a] = j
  BY DEF Compute, IInv, Types
<1>5. j.pc = to /\ j.op = job[a].op /\ j.rec = job[a].rec /\ j.held = h /\ j.cards = x
  BY <1>1 DEF GoodJob
<1>6. \A k \in Key : x[k] \in GoodFinding /\ x[k].status \in Machine
  <2> SUFFICES ASSUME NEW k \in Key
               PROVE Compare(k, F, A) \in GoodFinding /\ Compare(k, F, A).status \in Machine
    OBVIOUS
  <2>1. Compare(k, F, A) \in [status : Machine, value : Value, signed : {Unsigned}]
    BY <1>3, CompareType
  <2>2. Machine \subseteq FindingStatus /\ Machine \cap HumanOnlyStatuses = {}
    BY DEF Machine
  <2> HIDE DEF F, A
  <2> QED
    BY <2>1, <2>2 DEF GoodFinding, Finding
<1>7. h.files = F /\ DOMAIN x = Key
  BY DEF Fresh
<1> HIDE DEF j, h, x, F
<1>8. Goes(a, to)
  BY <1>1, <1>4, <1>5 DEF Goes, Only, Compute, data
<1> USE DEF F
<1> QED
  BY <1>4, <1>5, <1>6, <1>7, <1>8 DEF Compute

LEMMA ReplaceEffect ==
  ASSUME IInv, NEW c \in Client, Replace(c)
  PROVE /\ Goes(c, "clear") /\ job'[c].rec = job[c].rec
        /\ job'[c].held = job[c].held /\ job'[c].cards = job[c].cards
        /\ Alters(c, [Mine(c) EXCEPT !.findings = job[c].cards])
        /\ UNCHANGED <<item, table, protocol>>
<1>1. c \in Actor
  BY DEF Actor
<1>2. job[c] \in GoodJob /\ job[c].rec \in Client /\ InFlight(c)
  BY <1>1, AtWork DEF Replace
<1>3. Alters(c, [Mine(c) EXCEPT !.findings = job[c].cards])
  BY <1>1, <1>2, ChangeAlters DEF Replace
<1> QED
  BY <1>1, <1>2, <1>3 DEF Replace, GoTo, Goes, Only, IInv, Types, GoodJob

LEMMA ClearEffect ==
  ASSUME IInv, NEW c \in Client, Clear(c)
  PROVE /\ Goes(c, "regroup") /\ job'[c].rec = job[c].rec
        /\ job'[c].held = job[c].held
        /\ table' = [table EXCEPT !.findings = job[c].cards]
        /\ UNCHANGED <<heap, item, protocol>>
<1>1. c \in Actor
  BY DEF Actor
<1>2. job[c] \in GoodJob /\ InFlight(c)
  BY <1>1, AtWork DEF Clear
<1> QED
  BY <1>1, <1>2 DEF Clear, Goes, Only, IInv, Types, GoodJob

LEMMA RegroupEffect ==
  ASSUME IInv, NEW a \in Actor, Regroup(a)
  PROVE LET r == [Mine(a) EXCEPT !.groups = job[a].held.files] IN
        /\ Goes(a, "write") /\ job'[a].rec = job[a].rec /\ Alters(a, r)
        /\ job'[a].next = "groups" /\ job'[a].held = Row(Fresh, r)
        /\ UNCHANGED <<item, table, protocol>>
<1> DEFINE r == [Mine(a) EXCEPT !.groups = job[a].held.files]
<1>1. Persist(a, r, "groups") /\ UNCHANGED <<item, table, protocol, runVars, history>>
  BY DEF Regroup
<1>2. job[a].pc = "regroup"
  BY DEF Regroup
<1> HIDE DEF r
<1>3. /\ Goes(a, "write") /\ job'[a].rec = job[a].rec /\ Alters(a, r)
      /\ job'[a].next = "groups" /\ job'[a].held = Row(Fresh, r)
  BY <1>1, <1>2, PersistEffect
<1> QED
  BY <1>1, <1>3 DEF r

LEMMA SaveGroupsEffect ==
  ASSUME IInv, NEW a \in Actor, SaveGroups(a)
  PROVE /\ Goes(a, "settle") /\ job'[a].rec = job[a].rec
        /\ Alters(a, [Mine(a) EXCEPT !.attempts = IF a = Worker THEN @ + 1 ELSE @])
        /\ table' = [table EXCEPT !.groups = Mine(a).groups]
        /\ UNCHANGED <<item, protocol>>
<1>1. job[a] \in GoodJob /\ job[a].rec \in Client /\ InFlight(a)
  BY AtWork DEF SaveGroups
<1>2. Alters(a, [Mine(a) EXCEPT !.attempts = IF a = Worker THEN @ + 1 ELSE @])
  BY <1>1, ChangeAlters DEF SaveGroups
<1> QED
  BY <1>1, <1>2 DEF SaveGroups, GoTo, Goes, Only, IInv, Types, GoodJob

LEMMA SettleEffect ==
  ASSUME IInv, NEW a \in Actor, Settle(a)
  PROVE LET r == [Mine(a) EXCEPT !.state = IF a = Worker /\ @ = "PARSING"
                                             THEN "READY" ELSE @] IN
        /\ Goes(a, "write") /\ job'[a].rec = job[a].rec /\ Alters(a, r)
        /\ job'[a].next = "idle" /\ job'[a].held = Row(Fresh, r)
        /\ UNCHANGED <<item, table, protocol>>
<1> DEFINE r == [Mine(a) EXCEPT !.state = IF a = Worker /\ @ = "PARSING"
                                            THEN "READY" ELSE @]
<1>1. Persist(a, r, "idle") /\ UNCHANGED <<item, table, protocol, runVars, history>>
  BY DEF Settle
<1>2. job[a].pc = "settle"
  BY DEF Settle
<1> HIDE DEF r
<1>3. /\ Goes(a, "write") /\ job'[a].rec = job[a].rec /\ Alters(a, r)
      /\ job'[a].next = "idle" /\ job'[a].held = Row(Fresh, r)
  BY <1>1, <1>2, PersistEffect
<1> QED
  BY <1>1, <1>3 DEF r

\* save: the row is written and the call goes on, or it ends.
LEMMA WriteEffect ==
  ASSUME IInv, NEW a \in Actor, Write(a)
  PROVE LET h == job[a].held IN
        /\ InFlight(a) /\ UNCHANGED <<heap, item, protocol, history>>
        /\ \/ /\ h.state # "FINALIZED" /\ Within(h)
              /\ table' = Row(IF table = NoRecord THEN Fresh ELSE table, h)
              /\ \/ job[a].next = "idle" /\ Return(a)
                 \/ /\ job[a].next # "idle" /\ Goes(a, job[a].next)
                    /\ job'[a].rec = job[a].rec /\ job'[a].arg = job[a].arg
           \/ /\ ~ (h.state # "FINALIZED" /\ Within(h))
              /\ Return(a) /\ UNCHANGED table
<1>1. job[a] \in GoodJob /\ InFlight(a)
  BY AtWork DEF Write
<1>2. CASE Accepted(job[a].held) /\ job[a].next # "idle"
  <2>1. /\ Goes(a, job[a].next)
        /\ job'[a].rec = job[a].rec /\ job'[a].arg = job[a].arg
    BY <1>1, <1>2 DEF Write, Goes, Only, IInv, Types, GoodJob
  <2> QED
    BY <1>1, <1>2, <2>1 DEF Write, Accepted, Within
<1>3. CASE Accepted(job[a].held) /\ job[a].next = "idle"
  BY <1>1, <1>3 DEF Write, Accepted, Within
<1>4. CASE ~ Accepted(job[a].held)
  BY <1>1, <1>4 DEF Write, Accepted, Within
<1> QED
  BY <1>2, <1>3, <1>4

LEMMA ArriveEffect ==
  ASSUME IInv, NEW c \in Client, NEW op \in Ops \ {"run"}, Arrive(c, op)
  PROVE /\ job[c].pc = "idle" /\ Only(c) /\ job'[c].op = op
        /\ job'[c].pc = IF op = "create" THEN "body" ELSE "get"
        /\ UNCHANGED data /\ UNCHANGED runVars /\ UNCHANGED <<clash, cut>>
        /\ \A d \in Client : job[d].op # "create"
        /\ op = "create" => item = NoOne /\ table = NoRecord
<1>1. c \in Actor
  BY DEF Actor
<1>2. job[c] \in GoodJob
  BY <1>1 DEF IInv, Types
<1> QED
  BY <1>1, <1>2 DEF Arrive, Only, IInv, Types, GoodJob

LEMMA GetEffect ==
  ASSUME IInv, NEW c \in Client, Get(c)
  PROVE /\ job[c].pc = "get" /\ covered = requested
        /\ UNCHANGED <<item, table, protocol, cut>> /\ UNCHANGED runVars
        /\ \/ /\ item # NoOne /\ UNCHANGED heap /\ Only(c)
              /\ job'[c].pc = "body" /\ job'[c].rec = item
              /\ job'[c].op = job[c].op
           \/ /\ item = NoOne /\ UNCHANGED heap /\ job[c].op = "review"
              /\ job' = [job EXCEPT ![c] = Idle]
           \/ /\ item = NoOne /\ Only(c) /\ job'[c].pc = "install"
              /\ job'[c].rec = c /\ job'[c].op = job[c].op
              /\ heap'[c] = [table EXCEPT !.blobs = @ \cap table.files]
              /\ \A x \in Client : x # c => heap'[x] = heap[x]
<1>1. c \in Actor
  BY DEF Actor
<1>2. job[c] \in GoodJob
  BY <1>1 DEF IInv, Types
<1>3. CASE item # NoOne
  BY <1>1, <1>2, <1>3 DEF Get, Only, IInv, Types, GoodJob
<1>4. CASE item = NoOne /\ job[c].op = "review"
  BY <1>4 DEF Get
<1>5. CASE item = NoOne /\ job[c].op # "review"
  BY <1>1, <1>2, <1>5 DEF Get, Only, IInv, Types, GoodJob
<1> QED
  BY <1>3, <1>4, <1>5

\* When the wait of a request ends beside that of another, it is noted.
LEMMA GetClash ==
  ASSUME IInv, NEW c \in Client, Get(c)
  PROVE /\ clash' = "none" => clash = "none" /\ \A d \in Client \ {c} : ~ InFlight(d)
        /\ clash' # "upload" =>
             /\ clash # "upload"
             /\ \A d \in Client \ {c} : InFlight(d) => ~ Uploading(c) /\ ~ Uploading(d)
<1> DEFINE others == {d \in Client \ {c} : InFlight(d)}
<1>1. clash' = IF others = {} THEN clash
               ELSE IF \E d \in others \cup {c} : Uploading(d) THEN "upload"
               ELSE IF clash = "none" THEN "inspectors" ELSE clash
  BY DEF Get
<1>2. \A d \in Client \ {c} : InFlight(d) => d \in others
  OBVIOUS
<1> HIDE DEF others
<1> QED
  BY <1>1, <1>2

LEMMA InstallEffect ==
  ASSUME IInv, NEW c \in Client, Install(c)
  PROVE /\ job[c].pc = "install" /\ job[c].rec = c /\ item' = c
        /\ Only(c) /\ job'[c].pc = "body" /\ job'[c].rec = c
        /\ job'[c].op = job[c].op
        /\ UNCHANGED <<heap, table, protocol>> /\ UNCHANGED runVars
        /\ UNCHANGED history
<1>1. c \in Actor
  BY DEF Actor
<1>2. job[c] \in GoodJob /\ KnowsOf(c, job[c], heap, item, table)
  BY <1>1, Mine1
<1> QED
  BY <1>1, <1>2 DEF Install, GoTo, Only, IInv, Types, GoodJob, KnowsOf

LEMMA RejectEffect ==
  ASSUME IInv, NEW c \in Client, Reject(c)
  PROVE /\ InFlight(c) /\ Return(c) /\ UNCHANGED data /\ UNCHANGED history
        /\ job[c].pc = "body" /\ job[c].op # "create"
BY DEF Reject, InFlight

LEMMA CreateEffect ==
  ASSUME IInv, NEW c \in Client, Create(c)
  PROVE /\ job[c].pc = "body" /\ job[c].op = "create" /\ Only(c)
        /\ job'[c].pc = "write" /\ job'[c].next = "attach" /\ job'[c].rec = c
        /\ job'[c].op = "create" /\ job'[c].held = Fresh
        /\ item' = c /\ heap'[c] = Fresh
        /\ \A x \in Client : x # c => heap'[x] = heap[x]
        /\ UNCHANGED <<table, protocol>> /\ UNCHANGED runVars /\ UNCHANGED history
<1>1. c \in Actor
  BY DEF Actor
<1>2. job[c] \in GoodJob
  BY <1>1 DEF IInv, Types
<1> QED
  BY <1>1, <1>2 DEF Create, Only, IInv, Types, GoodJob

LEMMA AttachEffect ==
  ASSUME IInv, NEW c \in Client, NEW f \in File, Attach(c, f)
  PROVE LET r == [Mine(c) EXCEPT !.files = @ \cup {f}] IN
        /\ \/ job[c].pc = "attach"
           \/ /\ job[c].pc = "body" /\ job[c].op = "upload"
              /\ Mine(c).state # "FINALIZED"
        /\ job[c].rec \in Client /\ Mine(c) \in GoodRecord /\ table \in GoodRecord
        /\ Goes(c, "write") /\ job'[c].rec = job[c].rec /\ job'[c].next = "blob"
        /\ job'[c].arg = f /\ job'[c].held = Row(Fresh, r) /\ Alters(c, r)
        /\ UNCHANGED <<item, table, protocol>>
<1> DEFINE r == [Mine(c) EXCEPT !.files = @ \cup {f}]
<1>1. c \in Actor
  BY DEF Actor
<1>2. job[c] \in GoodJob /\ KnowsOf(c, job[c], heap, item, table)
  BY <1>1, Mine1
<1>3. job[c].rec \in Client /\ Mine(c) \in GoodRecord /\ table \in GoodRecord
  BY <1>2 DEF Attach, KnowsOf, Making, Mine
<1>4. Change(c, r)
  BY DEF Attach
<1>5. Alters(c, r)
  BY <1>1, <1>3, <1>4, ChangeAlters
<1>6. /\ Goes(c, "write") /\ job'[c].rec = job[c].rec /\ job'[c].next = "blob"
      /\ job'[c].arg = f /\ job'[c].held = Row(Fresh, r)
  BY <1>1, <1>2 DEF Attach, Goes, Only, InFlight, IInv, Types, GoodJob
<1> QED
  BY <1>3, <1>5, <1>6 DEF Attach

LEMMA KeepBlobEffect ==
  ASSUME IInv, NEW c \in Client, KeepBlob(c)
  PROVE LET r == [Mine(c) EXCEPT !.blobs = @ \cup {job[c].arg}] IN
        /\ Goes(c, "write") /\ job'[c].rec = job[c].rec /\ job'[c].next = "reopen"
        /\ job'[c].held = Row(Fresh, r) /\ Alters(c, r)
        /\ table' = [table EXCEPT !.blobs = @ \cup {job[c].arg}]
        /\ UNCHANGED <<item, protocol>>
<1> DEFINE r == [Mine(c) EXCEPT !.blobs = @ \cup {job[c].arg}]
<1>1. Persist(c, r, "reopen") /\ UNCHANGED <<item, runVars, history>>
  BY DEF KeepBlob
<1>2. job[c].pc = "blob" /\ c \in Actor
  BY DEF KeepBlob, Actor
<1>3. /\ Goes(c, "write") /\ job'[c].rec = job[c].rec /\ job'[c].next = "reopen"
      /\ job'[c].held = Row(Fresh, r) /\ Alters(c, r)
  BY <1>1, <1>2, PersistEffect
<1> QED
  BY <1>3 DEF KeepBlob

LEMMA ReopenEffect ==
  ASSUME IInv, NEW c \in Client, Reopen(c)
  PROVE /\ job[c].pc = "reopen" /\ InFlight(c) /\ job[c].rec \in Client
        /\ job' = [job EXCEPT ![c] = Idle]
        /\ \/ /\ Mine(c).state = "FINALIZED" /\ job[c].op = "upload"
              /\ UNCHANGED heap /\ UNCHANGED runVars
           \/ /\ Alters(c, [Mine(c) EXCEPT !.state = Reopened(job[c].op, @)])
              /\ requested' = [requested EXCEPT ![P] = @ + 1]
              /\ UNCHANGED <<covered, current, upTo>>
        /\ UNCHANGED <<item, table, protocol>> /\ UNCHANGED history
<1>1. c \in Actor
  BY DEF Actor
<1>2. job[c].rec \in Client /\ InFlight(c)
  BY <1>1, AtWork DEF Reopen
<1>3. Change(c, [Mine(c) EXCEPT !.state = Reopened(job[c].op, @)])
        => Alters(c, [Mine(c) EXCEPT !.state = Reopened(job[c].op, @)])
  BY <1>1, <1>2, ChangeAlters
<1> QED
  BY <1>1, <1>2, <1>3 DEF Reopen, Runs!Request

LEMMA BeginEffect ==
  ASSUME IInv, Begin
  PROVE /\ current = "none" /\ covered[P] < requested[P]
        /\ current' = P /\ upTo' = requested[P] /\ UNCHANGED <<requested, covered>>
        /\ Only(Worker) /\ UNCHANGED data /\ UNCHANGED history
        /\ \/ /\ item # NoOne /\ heap[item].state = "PARSING"
              /\ job'[Worker].pc = "compute" /\ job'[Worker].op = "run"
              /\ job'[Worker].rec = item /\ job'[Worker].held = Input(heap[item])
           \/ /\ ~ (item # NoOne /\ heap[item].state = "PARSING")
              /\ job'[Worker] = Idle
<1>1. Worker \in Actor
  BY DEF Actor
<1> QED
  BY <1>1, IdleJob DEF Begin, Runs!Begin, Only, IInv, Types, GoodJob

-----------------------------------------------------------------------------
(* The first layer is an invariant.                                        *)

LEMMA ArriveTurns ==
  ASSUME IInv, Turns, NEW c \in Client, NEW op \in Ops \ {"run"}, Arrive(c, op)
  PROVE Turns'
<1>1. /\ job[c].pc = "idle" /\ Only(c) /\ job'[c].op = op
      /\ job'[c].pc = (IF op = "create" THEN "body" ELSE "get")
      /\ UNCHANGED <<heap, item, table, protocol>> /\ UNCHANGED runVars
      /\ UNCHANGED <<clash, cut>>
      /\ \A d \in Client : job[d].op # "create"
      /\ op = "create" => item = NoOne /\ table = NoRecord
  BY ArriveEffect DEF data
<1>2. c \in Actor /\ c # Worker /\ Worker \in Actor /\ Client \subseteq Actor
  BY Actors DEF Actor
<1>3. \A b \in Actor : b # c => job'[b] = job[b]
  BY <1>1, <1>2, OnlyFacts
<1>4. \A b \in Actor : table = NoRecord => job[b].pc = "idle"
  <2> SUFFICES ASSUME NEW b \in Actor, table = NoRecord, job[b].pc # "idle"
               PROVE FALSE
    OBVIOUS
  <2>1. KnowsOf(b, job[b], heap, item, table)
    BY Mine1
  <2>2. Making(job[b])
    BY <2>1, GoodIsRecord DEF KnowsOf
  <2> QED
    BY <1>1, <2>2 DEF Making, Turns, OpTurns, Ops, Actor
<1>5. table = NoRecord => requested[P] = 0 /\ covered[P] = 0
  BY GoodIsRecord DEF IInv, Asked, RunsOK, Turns, RunTurns
<1>6. \A b \in Actor : b # c => (InFlight(b)' <=> InFlight(b))
  BY <1>3 DEF InFlight
<1>7. InFlight(c)' => op = "create" /\ \A b \in Actor : b # c => ~ InFlight(b)
  BY <1>1, <1>4 DEF InFlight
<1>8. RunTurns' /\ OpTurns'
  BY <1>1, <1>2, <1>3 DEF Turns, RunTurns, OpTurns, runVars, Ops
<1>9. CreateTurns'
  <2> SUFFICES ASSUME NEW b \in Actor, job'[b].op = "create"
               PROVE /\ requested'[P] = covered'[P] /\ job'[b].pc \notin {"get", "install"}
                     /\ job'[b].pc = "body" => item' = NoOne /\ table' = NoRecord
                     /\ \A d \in Actor \ {b} : job'[d].pc = "idle"
    BY DEF CreateTurns
  <2>1. b = c
    BY <1>1, <1>3 DEF Turns, OpTurns, Ops, Actor
  <2> QED
    BY <1>1, <1>3, <1>4, <1>5, <2>1 DEF runVars
<1>10. ItemTurns' /\ PlaceTurns'
  BY <1>1, <1>3, <1>6 DEF Turns, ItemTurns, InFlight, PlaceTurns, At
<1>11. UploadTurns'
  <2> SUFFICES ASSUME clash # "upload", NEW d \in Client, InFlight(d)'
               PROVE /\ requested'[P] = covered'[P]
                     /\ Uploading(d)' => \A e \in Client \ {d} : ~ InFlight(e)'
    BY <1>1 DEF UploadTurns
  <2>1. CASE d = c
    BY <1>1, <1>2, <1>5, <1>6, <1>7, <2>1 DEF runVars
  <2>2. CASE d # c
    <3>1. InFlight(d) /\ ~ InFlight(c)' /\ job'[d] = job[d]
      BY <1>2, <1>3, <1>6, <1>7, <2>2
    <3> QED
      BY <1>1, <1>2, <1>6, <3>1 DEF Turns, UploadTurns, Uploading, runVars
  <2> QED
    BY <2>1, <2>2
<1>12. RequestTurns'
  BY <1>1, <1>2, <1>6, <1>7 DEF Turns, RequestTurns
<1> QED
  BY <1>8, <1>9, <1>10, <1>11, <1>12 DEF Turns

LEMMA GetTurns ==
  ASSUME IInv, Turns, NEW c \in Client, Get(c)
  PROVE Turns'
<1>1. /\ job[c].pc = "get" /\ covered = requested
      /\ UNCHANGED item /\ UNCHANGED table /\ UNCHANGED runVars
      /\ \/ /\ item # NoOne /\ Only(c) /\ job'[c].pc = "body"
            /\ job'[c].op = job[c].op
         \/ /\ item = NoOne /\ job' = [job EXCEPT ![c] = Idle]
         \/ /\ item = NoOne /\ Only(c) /\ job'[c].pc = "install"
            /\ job'[c].rec = c /\ job'[c].op = job[c].op
  BY GetEffect
<1>2. c \in Actor /\ c # Worker /\ Worker \in Actor /\ Client \subseteq Actor
  BY Actors DEF Actor
<1>3. \A b \in Actor : b # c => job'[b] = job[b]
  BY <1>1, <1>2, OnlyFacts DEF IInv, Types
<1>4. \/ /\ job'[c].pc \in {"body", "install"} /\ job'[c].op = job[c].op
      \/ job'[c] = Idle
  BY <1>1, <1>2 DEF IInv, Types
<1>5. Idle.pc = "idle" /\ Idle.op = "none" /\ "none" \notin Ops \cup {"create", "upload"}
  BY DEF Idle, Ops
<1>6. /\ clash' = "none" => clash = "none" /\ \A d \in Client \ {c} : ~ InFlight(d)
      /\ clash' # "upload" =>
           /\ clash # "upload"
           /\ \A d \in Client \ {c} : InFlight(d) => ~ Uploading(c) /\ ~ Uploading(d)
  BY GetClash
<1>7. \A b \in Actor : b # c => (InFlight(b)' <=> InFlight(b))
  BY <1>3 DEF InFlight
<1>8. job[c].op # "create"
  BY <1>1, <1>2 DEF Turns, CreateTurns
<1>9. RunTurns' /\ OpTurns'
  BY <1>1, <1>2, <1>3, <1>4, <1>5 DEF Turns, RunTurns, OpTurns, runVars
<1>10. CreateTurns'
  <2> SUFFICES ASSUME NEW b \in Actor, job'[b].op = "create" PROVE FALSE
    BY DEF CreateTurns
  <2>1. b # c /\ job[b].op = "create"
    BY <1>3, <1>4, <1>5, <1>8
  <2> QED
    BY <1>1, <1>2, <2>1 DEF Turns, CreateTurns
<1>11. ItemTurns' /\ PlaceTurns'
  <2>1. ItemTurns'
    BY <1>1, <1>3, <1>7, <1>5 DEF Turns, ItemTurns, InFlight, IInv, Types
  <2>2. PlaceTurns'
    BY <1>3, <1>4, <1>5 DEF Turns, PlaceTurns, At
  <2> QED
    BY <2>1, <2>2
<1>12. UploadTurns'
  <2> SUFFICES ASSUME clash' # "upload", NEW d \in Client, InFlight(d)'
               PROVE /\ requested'[P] = covered'[P]
                     /\ Uploading(d)' => \A e \in Client \ {d} : ~ InFlight(e)'
    BY DEF UploadTurns
  <2>1. requested'[P] = covered'[P]
    BY <1>1 DEF runVars
  <2>2. CASE d = c
    BY <1>2, <1>4, <1>5, <1>6, <1>7, <2>1, <2>2 DEF Uploading
  <2>3. CASE d # c
    <3>1. InFlight(d) /\ job'[d] = job[d] /\ ~ Uploading(d)
      BY <1>1, <1>2, <1>3, <1>6, <1>7, <2>3
    <3> QED
      BY <2>1, <3>1 DEF Uploading
  <2> QED
    BY <2>2, <2>3
<1>13. RequestTurns'
  BY <1>2, <1>6, <1>7 DEF RequestTurns
<1> QED
  BY <1>9, <1>10, <1>11, <1>12, <1>13 DEF Turns

LEMMA InstallTurns ==
  ASSUME IInv, Turns, NEW c \in Client, Install(c)
  PROVE Turns'
<1>1. /\ job[c].pc = "install" /\ item' = c /\ Only(c)
      /\ job'[c].pc = "body" /\ job'[c].op = job[c].op
      /\ UNCHANGED runVars /\ UNCHANGED <<table, clash>>
  BY InstallEffect DEF history
<1>2. c \in Actor /\ Worker \in Actor /\ Client \subseteq Actor /\ c # NoOne
  BY Actors DEF Actor
<1>3. \A b \in Actor : b # c => job'[b] = job[b]
  BY <1>1, <1>2, OnlyFacts
<1>4. \A b \in Actor : /\ job'[b].op = job[b].op
                       /\ InFlight(b)' <=> InFlight(b)
                       /\ job'[b].pc = "idle" <=> job[b].pc = "idle"
  BY <1>1, <1>3 DEF InFlight
<1>5. job[c].op # "create"
  BY <1>1, <1>2 DEF Turns, CreateTurns
<1>6. RunTurns' /\ OpTurns'
  BY <1>1, <1>2, <1>4 DEF Turns, RunTurns, OpTurns, runVars
<1>7. CreateTurns'
  <2> SUFFICES ASSUME NEW b \in Actor, job'[b].op = "create" PROVE FALSE
    BY DEF CreateTurns
  <2> QED
    BY <1>1, <1>2, <1>4, <1>5 DEF Turns, CreateTurns
<1>8. ItemTurns' /\ PlaceTurns'
  BY <1>1, <1>2, <1>3 DEF ItemTurns, Turns, PlaceTurns, At
<1>9. UploadTurns' /\ RequestTurns'
  BY <1>1, <1>2, <1>4 DEF Turns, UploadTurns, RequestTurns, Uploading, runVars
<1> QED
  BY <1>6, <1>7, <1>8, <1>9 DEF Turns

LEMMA CreateStepTurns ==
  ASSUME IInv, Turns, NEW c \in Client, Create(c)
  PROVE Turns'
<1>1. /\ job[c].pc = "body" /\ job[c].op = "create" /\ item' = c /\ Only(c)
      /\ job'[c].pc = "write" /\ job'[c].op = "create" /\ job'[c].next = "attach"
      /\ UNCHANGED runVars /\ UNCHANGED <<table, clash>>
  BY CreateEffect DEF history
<1>2. c \in Actor /\ Worker \in Actor /\ Client \subseteq Actor /\ c # NoOne
  BY Actors DEF Actor
<1>3. \A b \in Actor : b # c => job'[b] = job[b] /\ job[b].pc = "idle"
  BY <1>1, <1>2, OnlyFacts DEF Turns, CreateTurns
<1>4. \A b \in Actor : b # c => ~ InFlight(b)'
  BY <1>3 DEF InFlight
<1>5. requested[P] = covered[P]
  BY <1>1, <1>2 DEF Turns, CreateTurns
<1>6. RunTurns' /\ OpTurns'
  BY <1>1, <1>2, <1>3 DEF Turns, RunTurns, OpTurns, runVars
<1>7. CreateTurns'
  BY <1>1, <1>3, <1>5 DEF Turns, CreateTurns, OpTurns, runVars
<1>8. ItemTurns' /\ PlaceTurns'
  BY <1>1, <1>2, <1>3 DEF ItemTurns, Turns, PlaceTurns, At
<1>9. UploadTurns' /\ RequestTurns'
  BY <1>1, <1>2, <1>4, <1>5 DEF UploadTurns, RequestTurns, runVars
<1> QED
  BY <1>6, <1>7, <1>8, <1>9 DEF Turns

LEMMA ReopenTurns ==
  ASSUME IInv, Turns, NEW c \in Client, Reopen(c)
  PROVE Turns'
<1>1. /\ job[c].pc = "reopen" /\ InFlight(c)
      /\ job' = [job EXCEPT ![c] = Idle]
      /\ \/ UNCHANGED runVars
         \/ /\ requested' = [requested EXCEPT ![P] = @ + 1]
            /\ UNCHANGED <<covered, current, upTo>>
      /\ UNCHANGED item /\ UNCHANGED clash
  BY ReopenEffect DEF history
<1>2. c \in Actor /\ c # Worker /\ Worker \in Actor /\ Client \subseteq Actor
  BY Actors DEF Actor
<1>3. CASE UNCHANGED runVars
  <2>1. Return(c)
    BY <1>1, <1>2, <1>3 DEF Return
  <2> QED
    BY <1>1, <1>2, <2>1, ReturnTurns
<1>4. CASE /\ requested' = [requested EXCEPT ![P] = @ + 1]
           /\ UNCHANGED <<covered, current, upTo>>
  <2>1. job'[c] = Idle /\ \A b \in Actor : b # c => job'[b] = job[b]
    BY <1>1, <1>2 DEF IInv, Types
  <2>2. /\ Idle.op = "none" /\ Idle.pc = "idle" /\ "none" \notin Ops
        /\ "none" \notin {"create", "upload"}
    BY DEF Idle, Ops
  <2>3. \A b \in Actor : InFlight(b)' => InFlight(b) /\ b # c
    BY <2>1, <2>2 DEF InFlight
  <2>4. requested'[P] = requested[P] + 1
    BY <1>4 DEF IInv, RunsOK
  <2>5. RunTurns'
    BY <1>1, <1>2, <1>4, <2>1, <2>4 DEF Turns, RunTurns, IInv, RunsOK
  <2>6. OpTurns' /\ ItemTurns' /\ PlaceTurns'
    BY <1>1, <2>1, <2>2, <2>3 DEF Turns, OpTurns, ItemTurns, PlaceTurns, At
  <2>7. CreateTurns'
    <3> SUFFICES ASSUME NEW b \in Actor, job'[b].op = "create" PROVE FALSE
      BY DEF CreateTurns
    <3> QED
      BY <1>1, <1>2, <2>1, <2>2 DEF Turns, CreateTurns
  <2>8. UploadTurns'
    <3> SUFFICES ASSUME clash # "upload", NEW d \in Client, InFlight(d)' PROVE FALSE
      BY <1>1 DEF UploadTurns
    <3>1. InFlight(d) /\ d # c
      BY <1>2, <2>3
    <3> QED
      BY <1>1, <1>2, <3>1 DEF Turns, UploadTurns, PlaceTurns, At, Uploading
  <2>9. RequestTurns'
    BY <1>1, <1>2, <2>3 DEF Turns, RequestTurns
  <2> QED
    BY <2>5, <2>6, <2>7, <2>8, <2>9 DEF Turns
<1> QED
  BY <1>1, <1>3, <1>4

LEMMA BeginTurns == IInv /\ Turns /\ Begin => Turns'
<1> SUFFICES ASSUME IInv, Turns, Begin PROVE Turns'
  OBVIOUS
<1>1. /\ current = "none" /\ covered[P] < requested[P]
      /\ current' = P /\ upTo' = requested[P] /\ UNCHANGED <<requested, covered>>
      /\ Only(Worker) /\ UNCHANGED <<item, table, clash>>
      /\ \/ /\ item # NoOne
            /\ job'[Worker].pc = "compute" /\ job'[Worker].op = "run"
         \/ job'[Worker] = Idle
  BY BeginEffect DEF data, history
<1>2. Worker \in Actor /\ Client \subseteq Actor /\ Worker \notin Client
  BY Actors DEF Actor
<1>3. \A b \in Actor : b # Worker => job'[b] = job[b]
  BY <1>1, <1>2, OnlyFacts
<1>4. Idle.pc = "idle" /\ Idle.op = "none" /\ "none" \notin Ops \cup {"create", "upload"}
  BY DEF Idle, Ops
<1>5. \A c \in Client : job'[c] = job[c] /\ (InFlight(c)' <=> InFlight(c))
  BY <1>2, <1>3 DEF InFlight
<1>6. RunTurns'
  BY <1>1, <1>2, <1>4 DEF RunTurns, IInv, RunsOK, P
<1>7. OpTurns'
  BY <1>1, <1>3, <1>4 DEF Turns, OpTurns
<1>8. CreateTurns'
  <2> SUFFICES ASSUME NEW b \in Actor, job'[b].op = "create" PROVE FALSE
    BY DEF CreateTurns
  <2>1. b # Worker /\ job[b].op = "create"
    BY <1>1, <1>3, <1>4
  <2> QED
    BY <1>1, <2>1 DEF Turns, CreateTurns, IInv, RunsOK
<1>9. ItemTurns' /\ PlaceTurns'
  BY <1>1, <1>3, <1>4 DEF Turns, ItemTurns, InFlight, PlaceTurns, At
<1>10. UploadTurns' /\ RequestTurns'
  BY <1>1, <1>5 DEF Turns, UploadTurns, RequestTurns, Uploading
<1> QED
  BY <1>6, <1>7, <1>8, <1>9, <1>10 DEF Turns

LEMMA SkipTurns == IInv /\ Turns /\ Skip => Turns'
<1> SUFFICES ASSUME IInv, Turns, Skip PROVE Turns'
  OBVIOUS
<1>1. /\ current # "none" /\ job[Worker].pc = "idle" /\ UNCHANGED <<job, item, table>>
      /\ requested' = requested /\ covered[P] <= covered'[P]
      /\ covered'[P] <= requested[P] /\ current' = "none"
      /\ requested[P] # covered[P] /\ UNCHANGED clash
  BY DEF Skip, Runs!End, data, history, IInv, RunsOK, Turns, RunTurns
<1>2. RunTurns' /\ OpTurns' /\ PlaceTurns' /\ ItemTurns' /\ RequestTurns'
  BY <1>1 DEF Turns, RunTurns, OpTurns, PlaceTurns, ItemTurns, RequestTurns, InFlight
<1>3. CreateTurns'
  BY <1>1 DEF Turns, CreateTurns
<1>4. UploadTurns'
  BY <1>1 DEF Turns, UploadTurns, InFlight
<1> QED
  BY <1>2, <1>3, <1>4 DEF Turns

LEMMA RestartTurns == Restart => Turns'
<1> SUFFICES ASSUME Restart PROVE Turns'
  OBVIOUS
<1>1. Worker \in Actor /\ Client \subseteq Actor
  BY DEF Actor
<1>2. /\ \A a \in Actor : job'[a] = Idle
      /\ requested'[P] = 0 /\ covered'[P] = 0 /\ current' = "none"
  BY DEF Restart
<1>3. \A a \in Actor : ~ InFlight(a)'
  BY <1>2 DEF InFlight, Idle
<1> QED
  BY <1>1, <1>2, <1>3 DEF Turns, RunTurns, OpTurns, PlaceTurns, At, CreateTurns,
     ItemTurns, UploadTurns, RequestTurns, Idle, Ops

\* What a thread at work is for.
LEMMA AtFacts ==
  ASSUME Turns, NEW a \in Actor
  PROVE At(job[a])
BY DEF Turns, PlaceTurns

LEMMA InspectorTurns ==
  ASSUME IInv, Turns, NEW c \in Client,
         Review(c) \/ Confirm(c) \/ Open(c) \/ Check(c) \/ Assign(c) \/ Assemble(c)
           \/ Materialize(c) \/ Reject(c)
  PROVE Turns'
<1>1. c \in Actor /\ At(job[c])
  BY AtFacts DEF Actor
<1>2. CASE Review(c)
  BY <1>1, <1>2, ReviewEffect, GoesTurns DEF Review, At, Goes
<1>3. CASE Confirm(c)
  BY <1>1, <1>3, ConfirmEffect, GoesTurns DEF Confirm, At, Goes
<1>4. CASE Open(c)
  <2>1. UNCHANGED item /\ UNCHANGED clash
    BY <1>4, OpenEffect DEF data, history
  <2>2. CASE Goes(c, "assign")
    BY <1>1, <1>4, <2>2, GoesTurns DEF Open, At, Goes
  <2>3. CASE Return(c) /\ InFlight(c)
    BY <1>1, <2>1, <2>3, ReturnTurns
  <2> QED
    BY <1>4, <2>2, <2>3, OpenEffect
<1>5. CASE Check(c)
  BY <1>1, <1>5, CheckEffect, GoesTurns DEF Check, At, Goes
<1>6. CASE Assign(c)
  <2>1. CASE Goes(c, "assemble") /\ job[c].op = "finalize"
    BY <1>1, <1>6, <2>1, GoesTurns DEF Assign, At, Goes
  <2>2. CASE Goes(c, "write") /\ job[c].op # "finalize" /\ job'[c].next = "idle"
    BY <1>1, <1>6, <2>2, GoesTurns DEF Assign, At, Goes
  <2> QED
    BY <1>6, <2>1, <2>2, AssignEffect
<1>7. CASE Assemble(c)
  BY <1>1, <1>7, AssembleEffect, GoesTurns DEF Assemble, At, Goes
<1>8. CASE Materialize(c)
  BY <1>1, <1>8, MaterializeEffect, ReturnTurns DEF history
<1>9. CASE Reject(c)
  BY <1>1, <1>9, RejectEffect, ReturnTurns DEF data, history
<1> QED
  BY <1>2, <1>3, <1>4, <1>5, <1>6, <1>7, <1>8, <1>9

LEMMA SelectTurns ==
  ASSUME IInv, Turns, NEW c \in Client,
         Select(c) \/ Audited(c) \/ Replace(c) \/ Clear(c)
  PROVE Turns'
<1>1. c \in Actor /\ At(job[c])
  BY AtFacts DEF Actor
<1>2. CASE Select(c)
  BY <1>1, <1>2, SelectEffect, GoesTurns DEF Select, At, Goes
<1>3. CASE Audited(c)
  BY <1>1, <1>3, AuditedEffect, GoesTurns DEF Audited, At, Goes
<1>4. CASE Replace(c)
  BY <1>1, <1>4, ReplaceEffect, GoesTurns DEF Replace, At, Goes
<1>5. CASE Clear(c)
  BY <1>1, <1>5, ClearEffect, GoesTurns DEF Clear, At, Goes
<1> QED
  BY <1>2, <1>3, <1>4, <1>5

LEMMA UploadStepTurns ==
  ASSUME IInv, Turns, NEW c \in Client,
         (\E f \in File : Attach(c, f)) \/ KeepBlob(c)
  PROVE Turns'
<1>1. c \in Actor /\ At(job[c])
  BY AtFacts DEF Actor
<1>2. CASE \E f \in File : Attach(c, f)
  <2> PICK f \in File : Attach(c, f)
    BY <1>2
  <2>1. /\ Goes(c, "write") /\ job'[c].next = "blob" /\ UNCHANGED item
        /\ job[c].pc # "attach" => job[c].pc = "body" /\ job[c].op = "upload"
    BY AttachEffect
  <2> QED
    BY <1>1, <2>1, GoesTurns DEF At, Goes
<1>3. CASE KeepBlob(c)
  <2>1. Goes(c, "write") /\ job'[c].next = "reopen" /\ UNCHANGED item
    BY <1>3, KeepBlobEffect
  <2> QED
    BY <1>1, <1>3, <2>1, GoesTurns DEF At, Goes, KeepBlob
<1> QED
  BY <1>2, <1>3

LEMMA ThreadTurns ==
  ASSUME IInv, Turns, NEW a \in Actor, Thread(a)
  PROVE Turns'
<1>1. At(job[a])
  BY AtFacts
<1>9. job[a].op \in Ops => (job[a].op = "run" <=> a = Worker)
  BY DEF Turns, OpTurns
<1>2. CASE Sign(a)
  BY <1>1, <1>2, SignEffect, GoesTurns DEF Sign, At, Goes
<1>3. CASE Save(a)
  <2>1. CASE Goes(a, "sign")
    BY <1>1, <1>3, <2>1, GoesTurns DEF Save, At, Goes
  <2>2. CASE Goes(a, IF a = Worker THEN "regroup" ELSE "open")
    <3>1. CASE a = Worker /\ Goes(a, "regroup")
      BY <1>1, <1>9, <1>3, <3>1, GoesTurns DEF Save, At, Goes, Ops
    <3>2. CASE a # Worker /\ Goes(a, "open")
      BY <1>1, <1>9, <1>3, <3>2, GoesTurns DEF Save, At, Goes, Ops
    <3> QED
      BY <2>2, <3>1, <3>2
  <2> QED
    BY <1>3, <2>1, <2>2, SaveEffect
<1>4. CASE Compute(a)
  <2>1. Goes(a, IF a = Worker THEN "sign" ELSE "replace")
    BY <1>4, ComputeEffect
  <2>2. CASE a = Worker /\ Goes(a, "sign")
    BY <1>1, <1>9, <1>4, <2>2, GoesTurns DEF Compute, At, Goes, Ops
  <2>3. CASE a # Worker /\ Goes(a, "replace")
    BY <1>1, <1>9, <1>4, <2>3, GoesTurns DEF Compute, At, Goes, Ops
  <2> QED
    BY <2>1, <2>2, <2>3
<1>5. CASE Regroup(a)
  BY <1>1, <1>5, RegroupEffect, GoesTurns DEF Regroup, At, Goes
<1>6. CASE SaveGroups(a)
  BY <1>1, <1>6, SaveGroupsEffect, GoesTurns DEF SaveGroups, At, Goes
<1>7. CASE Settle(a)
  BY <1>1, <1>7, SettleEffect, GoesTurns DEF Settle, At, Goes
<1>8. CASE Write(a)
  <2>1. UNCHANGED item /\ UNCHANGED clash /\ InFlight(a)
    BY <1>8, WriteEffect DEF history
  <2>2. CASE Return(a)
    BY <2>1, <2>2, ReturnTurns
  <2>3. CASE job[a].next # "idle" /\ Goes(a, job[a].next)
    BY <1>1, <1>8, <2>3, GoesTurns DEF Write, At, Goes
  <2> QED
    BY <1>8, <2>2, <2>3, WriteEffect
<1> QED
  BY <1>2, <1>3, <1>4, <1>5, <1>6, <1>7, <1>8 DEF Thread

LEMMA NextTurns == IInv /\ Turns /\ [Next]_vars => Turns'
<1> SUFFICES ASSUME IInv, Turns, [Next]_vars PROVE Turns'
  OBVIOUS
<1>1. ASSUME NEW c \in Client, Handler(c) PROVE Turns'
  BY <1>1, GetTurns, InstallTurns, CreateStepTurns, ReopenTurns, InspectorTurns,
     SelectTurns, UploadStepTurns DEF Handler
<1>2. ASSUME NEW a \in Actor, Fault(a) PROVE Turns'
  <2>1. Return(a) /\ InFlight(a) /\ UNCHANGED item /\ UNCHANGED clash
    BY <1>2 DEF Fault, InFlight
  <2> QED
    BY <2>1, ReturnTurns
<1>3. ASSUME UNCHANGED vars PROVE Turns'
  BY <1>3 DEF vars, data, runVars, history, Turns, RunTurns, OpTurns, PlaceTurns,
     CreateTurns, ItemTurns, UploadTurns, RequestTurns, InFlight, Uploading
<1> QED
  BY <1>1, <1>2, <1>3, ArriveTurns, ThreadTurns, BeginTurns, SkipTurns,
     RestartTurns DEF Next

-----------------------------------------------------------------------------
(* The second layer: the files of a record, of its row and of a run.       *)

\* Every file has its body; past PARSING every file is in the evidence.
Whole(r) == r.files \subseteq r.blobs
Compared(r) == r.state # "PARSING" => r.groups = r.files

\* What a record and its row say between uploads and runs.
Settled(r, t) ==
  Within(r) => /\ r.files = t.files /\ Whole(r) /\ Compared(r)
               /\ r.state # "PARSING" => t.groups = t.files

\* An upload c has begun to change the files of the process.
Changing(c) == Uploading(c) /\ job[c].pc \notin {"get", "install", "body"}

Calm == requested[P] = covered[P] /\ \A c \in Client : ~ Changing(c)

\* The records that somebody will still look at.
Live(x) == x = item \/ \E c \in Client : InFlight(c) /\ job[c].rec = x

RestFiles ==
  Calm /\ table # NoRecord =>
    /\ Whole(table) /\ Compared(table)
    /\ \A x \in Client : Live(x) => Settled(heap[x], table)

\* An upload with job j, i, r and t for item, its record and the row.
UploadStep(j, i, r, t) ==
  LET writes(next) == j.pc = "write" /\ j.next = next IN
  /\ j.pc # "install" /\ (j.pc = "body" => j.op = "upload") => j.rec = i
  /\ j.pc = "write" => j.held = Row(Fresh, r)
  /\ j.pc \in {"write", "blob", "reopen"} =>
       r.state # "FINALIZED" /\ (j.op = "create" => r.state = "PARSING")
  /\ writes("attach") => r = Fresh /\ t = NoRecord
  /\ j.pc = "attach" => r = Fresh /\ t = Fresh
  /\ writes("blob") =>
       /\ Whole(t) /\ Compared(t) /\ j.arg \in r.files
       /\ Within(r) => /\ r.files = t.files \cup {j.arg}
                       /\ r.files \subseteq r.blobs \cup {j.arg}
  /\ j.pc = "blob" =>
       /\ Within(r) /\ r.files = t.files /\ j.arg \in r.files
       /\ r.files \subseteq r.blobs \cup {j.arg}
       /\ t.files \subseteq t.blobs \cup {j.arg}
  /\ writes("reopen") \/ j.pc = "reopen" =>
       Within(r) /\ r.files = t.files /\ Whole(r) /\ Whole(t)

UploadFiles ==
  \A c \in Client : InFlight(c) /\ Uploading(c) =>
    UploadStep(job[c], item, heap[job[c].rec], table)

\* Any other request: it works on a process past PARSING.
InspectStep(j, r) ==
  /\ j.pc \in {"assign", "assemble", "materialize", "audited", "compute",
               "replace", "clear", "regroup", "groups", "settle", "write"}
       => r.state # "PARSING"
  /\ j.pc \in {"write", "materialize"} =>
       /\ j.held.files = r.files /\ j.held.attempts = r.attempts
       /\ j.held.state # "PARSING"
  /\ j.pc \in {"compute", "replace", "clear", "regroup"} /\ Within(r)
       => j.held.files = r.files
  /\ j.pc = "groups" => Within(r)

InspectFiles ==
  \A c \in Client : InFlight(c) /\ ~ Uploading(c) =>
    InspectStep(job[c], heap[job[c].rec])

\* The run, on a process in PARSING whose files are those of the row.
RunStep(j, i, r, t) ==
  LET writes(next) == j.pc = "write" /\ j.next = next IN
  /\ j.rec = i
  /\ j.pc \in {"compute", "sign", "save", "regroup"} => j.held.files = r.files
  /\ j.pc = "write" => j.held = Row(Fresh, r)
  /\ r.state = IF writes("idle") THEN "READY" ELSE "PARSING"
  /\ Within(r) \/ j.pc = "settle" \/ writes("idle")
  /\ j.pc \in {"groups", "settle", "write"} => r.groups = r.files
  /\ j.pc \in {"groups", "settle"} \/ writes("idle") => t.state = "PARSING"
  /\ j.pc = "settle" \/ writes("idle") => t.groups = t.files

RunFiles ==
  /\ current # "none" => job[Worker].pc # "idle" /\ upTo = requested[P]
  /\ requested[P] # covered[P] =>
       /\ item \in Client /\ heap[item].files = table.files
       /\ Whole(heap[item]) /\ Whole(table)
       /\ IF job[Worker].pc = "idle"
            THEN heap[item].state = "PARSING" /\ Within(heap[item])
            ELSE RunStep(job[Worker], item, heap[item], table)

\* No upload has overlapped another request, and nothing stopped half-way.
InOrder == clash # "upload" /\ ~ cut

Files == InOrder => RestFiles /\ UploadFiles /\ InspectFiles /\ RunFiles

-----------------------------------------------------------------------------
(* The second layer: what a step has to show.                              *)

\* Nobody is under way.
LEMMA RestShows ==
  ASSUME IInv', Turns', InOrder' =>
           /\ \A c \in Client : ~ InFlight(c)'
           /\ requested'[P] = covered'[P]
           /\ table' # NoRecord => Whole(table') /\ Compared(table')
           /\ table' # NoRecord /\ item' \in Client => Settled(heap'[item'], table')
  PROVE Files'
<1> SUFFICES ASSUME InOrder'
             PROVE RestFiles' /\ UploadFiles' /\ InspectFiles' /\ RunFiles'
  BY DEF Files
<1>1. current' = "none"
  BY DEF Turns, RunTurns, IInv, RunsOK
<1> QED
  BY <1>1 DEF RestFiles, Live, UploadFiles, InspectFiles, RunFiles

\* An upload is under way.
LEMMA UploadShows ==
  ASSUME IInv', Turns', NEW c \in Client, InOrder' =>
           /\ InFlight(c)' /\ Uploading(c)'
           /\ UploadStep(job'[c], item', heap'[job'[c].rec], table')
           /\ job'[c].pc \in {"install", "body"} /\ table' # NoRecord =>
                /\ Whole(table') /\ Compared(table')
                /\ \A x \in Client :
                     x \in {item', job'[c].rec} => Settled(heap'[x], table')
  PROVE Files'
<1> SUFFICES ASSUME InOrder'
             PROVE RestFiles' /\ UploadFiles' /\ InspectFiles' /\ RunFiles'
  BY DEF Files
<1>1. clash' # "upload" /\ c \in Client
  BY DEF InOrder
<1>2. requested'[P] = covered'[P] /\ \A d \in Client \ {c} : ~ InFlight(d)'
  BY <1>1 DEF Turns, UploadTurns
<1>3. current' = "none"
  BY <1>2 DEF Turns, RunTurns, IInv, RunsOK
<1>4. RestFiles'
  <2> SUFFICES ASSUME Calm', table' # NoRecord
               PROVE /\ Whole(table') /\ Compared(table')
                     /\ \A x \in Client : Live(x)' => Settled(heap'[x], table')
    BY DEF RestFiles
  <2>1. job'[c].pc \in {"install", "body"}
    BY DEF Calm, Changing, InFlight
  <2> QED
    BY <1>2, <2>1 DEF Live
<1> QED
  BY <1>2, <1>3, <1>4 DEF UploadFiles, InspectFiles, RunFiles

\* A run is asked for or under way.
LEMMA RunShows ==
  ASSUME IInv', Turns', InOrder' =>
           /\ requested'[P] # covered'[P]
           /\ current' # "none" => job'[Worker].pc # "idle" /\ upTo' = requested'[P]
           /\ item' \in Client /\ heap'[item'].files = table'.files
           /\ Whole(heap'[item']) /\ Whole(table')
           /\ IF job'[Worker].pc = "idle"
                THEN heap'[item'].state = "PARSING" /\ Within(heap'[item'])
                ELSE RunStep(job'[Worker], item', heap'[item'], table')
  PROVE Files'
<1> SUFFICES ASSUME InOrder'
             PROVE RestFiles' /\ UploadFiles' /\ InspectFiles' /\ RunFiles'
  BY DEF Files
<1>1. \A c \in Client : ~ InFlight(c)'
  BY DEF InOrder, Turns, UploadTurns
<1> QED
  BY <1>1 DEF RestFiles, Calm, UploadFiles, InspectFiles, RunFiles

-----------------------------------------------------------------------------
(* The second layer: what a step can rely on.                              *)

\* An upload.
LEMMA UploadKnows ==
  ASSUME IInv, Turns, Files, InOrder, NEW c \in Client, InFlight(c), Uploading(c)
  PROVE /\ requested[P] = covered[P] /\ current = "none"
        /\ \A d \in Client \ {c} : ~ InFlight(d)
        /\ UploadStep(job[c], item, heap[job[c].rec], table)
        /\ job[c].pc \in {"install", "body"} /\ table # NoRecord =>
             /\ Whole(table) /\ Compared(table)
             /\ \A x \in Client : x \in {item, job[c].rec} => Settled(heap[x], table)
<1>1. requested[P] = covered[P] /\ \A d \in Client \ {c} : ~ InFlight(d)
  BY DEF InOrder, Turns, UploadTurns
<1>2. current = "none"
  BY <1>1 DEF Turns, RunTurns, IInv, RunsOK
<1>3. \A d \in Client \ {c} : ~ Changing(d)
  <2> SUFFICES ASSUME NEW d \in Client \ {c}, Changing(d) PROVE FALSE
    OBVIOUS
  <2>1. job[d].pc = "idle"
    BY <1>1 DEF Changing, InFlight
  <2> QED
    BY <2>1 DEF Turns, OpTurns, Changing, Uploading, Actor
<1>4. job[c].pc \in {"install", "body"} => Calm
  BY <1>1, <1>3 DEF Calm, Changing
<1> QED
  BY <1>1, <1>2, <1>4 DEF Files, RestFiles, Live, UploadFiles

\* Another request.
LEMMA InspectorKnows ==
  ASSUME IInv, Turns, Files, InOrder, NEW c \in Client, InFlight(c), ~ Uploading(c)
  PROVE /\ requested[P] = covered[P] /\ current = "none"
        /\ \A d \in Client : InFlight(d) => ~ Uploading(d)
        /\ table \in GoodRecord /\ Whole(table) /\ Compared(table)
        /\ \A x \in Client : Live(x) => Settled(heap[x], table)
        /\ InspectStep(job[c], heap[job[c].rec])
<1>1. requested[P] = covered[P] /\ \A d \in Client : InFlight(d) => ~ Uploading(d)
  BY DEF InOrder, Turns, UploadTurns
<1>2. current = "none"
  BY <1>1 DEF Turns, RunTurns, IInv, RunsOK
<1>3. Calm
  <2> SUFFICES ASSUME NEW d \in Client, Changing(d) PROVE FALSE
    BY <1>1 DEF Calm
  <2>1. job[d].pc = "idle"
    BY <1>1 DEF Changing, InFlight
  <2> QED
    BY <2>1 DEF Turns, OpTurns, Changing, Uploading, Actor
<1>4. table \in GoodRecord
  <2>1. c \in Actor
    BY DEF Actor
  <2>2. KnowsOf(c, job[c], heap, item, table)
    BY <2>1, Mine1
  <2> QED
    BY <2>2 DEF KnowsOf, Making, Uploading, InFlight
<1>5. table # NoRecord
  BY <1>4, GoodIsRecord
<1> QED
  BY <1>1, <1>2, <1>3, <1>4, <1>5 DEF Files, RestFiles, InspectFiles

\* The run.
LEMMA RunKnows ==
  ASSUME IInv, Turns, Files, InOrder, job[Worker].pc # "idle"
  PROVE /\ requested[P] # covered[P] /\ current = P /\ upTo = requested[P]
        /\ \A c \in Client : ~ InFlight(c)
        /\ item \in Client /\ heap[item].files = table.files
        /\ heap[item] \in GoodRecord /\ table \in GoodRecord
        /\ Whole(heap[item]) /\ Whole(table) /\ job[Worker].rec = item
        /\ RunStep(job[Worker], item, heap[item], table)
<1>1. current = P /\ requested[P] # covered[P]
  BY DEF Turns, RunTurns, IInv, RunsOK
<1>2. current # "none"
  BY <1>1 DEF P
<1>3. RunFiles
  BY DEF Files
<1>4. \A c \in Client : ~ InFlight(c)
  BY <1>1 DEF InOrder, Turns, UploadTurns
<1>5. requested[P] # 0
  BY <1>1 DEF Turns, RunTurns, IInv, RunsOK
<1>6. table \in GoodRecord
  BY <1>5 DEF IInv, Asked
<1> QED
  BY <1>1, <1>2, <1>3, <1>4, <1>6 DEF RunFiles, RunStep, IInv, Loaded

\* A step leaves what other requests rely on in record x.
Tame(x) ==
  /\ heap'[x].files = heap[x].files /\ heap'[x].attempts = heap[x].attempts
  /\ heap[x].state # "PARSING" => heap'[x].state # "PARSING"

\* A request that is no upload, or that ends or begins.
LEMMA InspectorShows ==
  ASSUME IInv', Turns', Files, NEW c \in Client, InOrder' =>
           /\ InOrder /\ requested'[P] = covered'[P]
           /\ \A d \in Client \ {c} :
                /\ job'[d] = job[d]
                /\ InFlight(d) => ~ Uploading(d) /\ Tame(job[d].rec)
           /\ InFlight(c)' => /\ ~ Uploading(c)'
                              /\ InspectStep(job'[c], heap'[job'[c].rec])
           /\ table' # NoRecord =>
                /\ Whole(table') /\ Compared(table')
                /\ \A x \in Client : Live(x)' => Settled(heap'[x], table')
  PROVE Files'
<1> SUFFICES ASSUME InOrder'
             PROVE RestFiles' /\ UploadFiles' /\ InspectFiles' /\ RunFiles'
  BY DEF Files
<1>1. \A d \in Client \ {c} : /\ InFlight(d)' <=> InFlight(d)
                              /\ Uploading(d)' <=> Uploading(d)
  BY DEF InFlight, Uploading
<1>2. current' = "none"
  BY DEF Turns, RunTurns, IInv, RunsOK
<1>3. UploadFiles'
  BY <1>1 DEF UploadFiles
<1>4. InspectFiles'
  <2> SUFFICES ASSUME NEW d \in Client, InFlight(d)', ~ Uploading(d)'
               PROVE InspectStep(job'[d], heap'[job'[d].rec])
    BY DEF InspectFiles
  <2>1. CASE d = c
    BY <2>1
  <2>2. CASE d # c
    <3>1. /\ InspectStep(job[d], heap[job[d].rec]) /\ Tame(job[d].rec)
          /\ job'[d] = job[d]
      BY <1>1, <2>2 DEF Files, InspectFiles
    <3> QED
      BY <3>1 DEF InspectStep, Tame, Within
  <2> QED
    BY <2>1, <2>2
<1> QED
  BY <1>2, <1>3, <1>4 DEF RestFiles, RunFiles

\* A step changes one record x, or none, and the row, but no file of them,
\* and evidence is what there is of files.
Orderly(x) ==
  /\ \A y \in Client : y # x => heap'[y] = heap[y]
  /\ heap'[x].files = heap[x].files /\ heap'[x].attempts = heap[x].attempts
  /\ heap[x].blobs \subseteq heap'[x].blobs
  /\ heap'[x].state # "PARSING" <=> heap[x].state # "PARSING"
  /\ Within(heap[x]) => \/ heap'[x].groups = heap[x].groups
                        \/ heap'[x].groups = heap[x].files
  /\ table'.files = table.files /\ table'.blobs = table.blobs
  /\ table'.groups = table.groups \/ table'.groups = table.files
  /\ table'.state # "PARSING" => table'.groups = table.files

LEMMA InspectorStep ==
  ASSUME IInv, IInv', Turns, Turns', Files, NEW c \in Client, InFlight(c),
         ~ Uploading(c), UNCHANGED item, UNCHANGED clash, UNCHANGED cut,
         UNCHANGED runVars,
         \A d \in Client \ {c} : job'[d] = job[d],
         InFlight(c)' => /\ job'[c].op = job[c].op
                         /\ job'[c].rec \in {item, job[c].rec},
         InOrder =>
           /\ \E x \in Client : Orderly(x)
           /\ InFlight(c)' => InspectStep(job'[c], heap'[job'[c].rec])
  PROVE Files'
<1>1. InOrder' => InOrder
  BY DEF InOrder
<1>2. ASSUME InOrder'
      PROVE /\ requested'[P] = covered'[P]
            /\ \A d \in Client \ {c} : InFlight(d) => ~ Uploading(d) /\ Tame(job[d].rec)
            /\ InFlight(c)' => ~ Uploading(c)'
            /\ Whole(table') /\ Compared(table')
            /\ \A x \in Client : Live(x)' => Settled(heap'[x], table')
  <2>1. InOrder
    BY <1>1, <1>2
  <2>2. /\ requested[P] = covered[P] /\ Whole(table) /\ Compared(table)
        /\ \A d \in Client : InFlight(d) => ~ Uploading(d)
        /\ \A x \in Client : Live(x) => Settled(heap[x], table)
    BY <2>1, InspectorKnows
  <2>3. PICK x \in Client : Orderly(x)
    BY <2>1
  <2>4. \A y \in Client : Tame(y)
    BY <2>3 DEF Orderly, Tame
  <2>5. \A d \in Client \ {c} : InFlight(d) => job[d].rec \in Client
    <3> SUFFICES ASSUME NEW d \in Client, InFlight(d) PROVE job[d].rec \in Client
      OBVIOUS
    <3>1. d \in Actor
      BY DEF Actor
    <3> QED
      BY <2>2, <3>1, Mine1 DEF KnowsOf, InFlight, Uploading
  <2>6. Whole(table') /\ Compared(table')
    BY <2>2, <2>3 DEF Whole, Compared, Orderly
  <2>7. ASSUME NEW y \in Client, Live(y)' PROVE Settled(heap'[y], table')
    <3>1. Live(y)
      BY <2>7 DEF Live, InFlight
    <3> QED
      BY <2>2, <2>3, <3>1 DEF Settled, Whole, Compared, Orderly, Within
  <2> QED
    BY <2>2, <2>4, <2>5, <2>6, <2>7 DEF runVars, Uploading
<1> QED
  BY <1>1, <1>2, InspectorShows

-----------------------------------------------------------------------------
(* The second layer: requests other than uploads.                          *)

LEMMA QuietOrderly ==
  ASSUME NEW c \in Client, Compared(table), UNCHANGED <<heap, table>>
  PROVE \E x \in Client : Orderly(x)
BY DEF Orderly, Compared

\* The others keep their jobs.
LEMMA OtherJobs ==
  ASSUME IInv, NEW c \in Client, Only(c) \/ Return(c)
  PROVE \A d \in Client \ {c} : job'[d] = job[d]
BY DEF IInv, Types, Only, Return, Actor

LEMMA NoFlight ==
  ASSUME IInv, NEW c \in Client, Return(c)
  PROVE ~ InFlight(c)' /\ UNCHANGED runVars
BY Actors DEF IInv, Types, Return, InFlight, Idle, Actor

\* The end of a request that changed nothing in this step.
LEMMA InspectorEnds ==
  ASSUME IInv, IInv', Turns, Turns', Files, NEW c \in Client, InFlight(c),
         ~ Uploading(c), Return(c), UNCHANGED <<heap, table, item, clash, cut>>
  PROVE Files'
<1>1. InOrder => \E x \in Client : Orderly(x)
  BY InspectorKnows, QuietOrderly
<1> QED
  BY <1>1, NoFlight, OtherJobs, InspectorStep

\* A step to pc that changes no row and no record.
LEMMA InspectorMoves ==
  ASSUME IInv, IInv', Turns, Turns', Files, NEW c \in Client, NEW pc,
         Goes(c, pc), ~ Uploading(c), UNCHANGED <<heap, table>>,
         job'[c].rec \in {item, job[c].rec},
         InOrder => InspectStep(job'[c], heap[job'[c].rec])
  PROVE Files'
<1>1. InOrder => \E x \in Client : Orderly(x)
  BY InspectorKnows, QuietOrderly DEF Goes
<1>2. \A d \in Client \ {c} : job'[d] = job[d]
  BY OtherJobs DEF Goes
<1> QED
  BY <1>1, <1>2, InspectorStep DEF Goes, history

LEMMA DecideFiles ==
  ASSUME IInv, IInv', Turns, Turns', Files, NEW c \in Client,
         Review(c) \/ Confirm(c) \/ Open(c) \/ Check(c)
  PROVE Files'
<1>1. c \in Actor /\ At(job[c])
  BY AtFacts DEF Actor
<1>2. CASE Review(c)
  BY <1>2, ReviewEffect, InspectorMoves DEF Review, Uploading, data, Goes, InspectStep
<1>3. CASE Confirm(c)
  BY <1>3, ConfirmEffect, InspectorMoves DEF Confirm, Uploading, data, Goes, InspectStep
<1>4. CASE Open(c)
  <2>1. UNCHANGED <<heap, table, item, clash, cut>> /\ ~ Uploading(c)
    BY <1>1, <1>4, OpenEffect DEF data, history, Open, At, Uploading
  <2>2. CASE Return(c) /\ InFlight(c)
    BY <2>1, <2>2, InspectorEnds
  <2>3. CASE /\ Goes(c, "assign") /\ Mine(c).state = "READY"
             /\ job'[c].rec = job[c].rec
    BY <2>1, <2>3, InspectorMoves DEF Goes, InspectStep, Mine
  <2> QED
    BY <1>4, <2>2, <2>3, OpenEffect
<1>5. CASE Check(c)
  <2>1. heap[item].state # "PARSING"
    BY <1>5, CheckEffect DEF Source
  <2> QED
    BY <1>5, <2>1, CheckEffect, InspectorMoves DEF Uploading, data, Goes, InspectStep
<1> QED
  BY <1>2, <1>3, <1>4, <1>5

LEMMA AssignFiles ==
  ASSUME IInv, IInv', Turns, Turns', Files, NEW c \in Client, Assign(c)
  PROVE Files'
<1> DEFINE r == [Mine(c) EXCEPT !.state = Target(job[c].op)]
           x == job[c].rec
<1>1. c \in Actor /\ At(job[c]) /\ job[c].pc = "assign"
  BY AtFacts DEF Actor, Assign
<1>2. x \in Client /\ Mine(c) \in GoodRecord /\ InFlight(c) /\ ~ Uploading(c)
  BY <1>1, AtWork DEF At, Uploading
<1>3. /\ Alters(c, r) /\ job'[c].rec = x /\ UNCHANGED <<item, table, protocol>>
      /\ \/ Goes(c, "assemble")
         \/ Goes(c, "write") /\ job'[c].held = Row(Fresh, r)
  BY AssignEffect
<1>4. Only(c) /\ UNCHANGED runVars /\ UNCHANGED <<clash, cut>> /\ job'[c].op = job[c].op
  BY <1>3 DEF Goes, history
<1>5. Target(job[c].op) # "PARSING"
  BY DEF Target
<1>6. /\ r.files = Mine(c).files /\ r.attempts = Mine(c).attempts
      /\ r.blobs = Mine(c).blobs /\ r.groups = Mine(c).groups
      /\ r.state # "PARSING"
  BY <1>2, <1>5 DEF GoodRecord
<1>7. Row(Fresh, r).files = r.files /\ Row(Fresh, r).attempts = r.attempts
        /\ Row(Fresh, r).state = r.state
  BY DEF Row, Fresh
<1> HIDE DEF r
<1>8. ASSUME InOrder PROVE (\E y \in Client : Orderly(y)) /\ InspectStep(job'[c], heap'[x])
  <2>1. Compared(table) /\ InspectStep(job[c], Mine(c))
    BY <1>2, <1>8, InspectorKnows DEF Mine
  <2>2. Orderly(x)
    BY <1>1, <1>2, <1>3, <1>6, <2>1 DEF Alters, Orderly, InspectStep, Compared, Mine
  <2>3. InspectStep(job'[c], heap'[x])
    BY <1>3, <1>6, <1>7 DEF InspectStep, Alters, Goes
  <2> QED
    BY <1>2, <2>2, <2>3
<1> QED
  BY <1>2, <1>3, <1>4, <1>8, OtherJobs, InspectorStep

LEMMA AssembleFiles ==
  ASSUME IInv, IInv', Turns, Turns', Files, NEW c \in Client, Assemble(c)
  PROVE Files'
<1>1. c \in Actor /\ At(job[c]) /\ job[c].pc = "assemble"
  BY AtFacts DEF Actor, Assemble
<1>2. InFlight(c) /\ ~ Uploading(c)
  BY <1>1, AtWork DEF At, Uploading
<1>3. /\ Goes(c, "materialize") /\ job'[c].rec = job[c].rec
      /\ job'[c].held = Mine(c) /\ UNCHANGED <<heap, table>>
  BY AssembleEffect DEF data
<1>4. InOrder => InspectStep(job[c], Mine(c))
  BY <1>2, InspectorKnows DEF Mine
<1>5. InOrder => InspectStep(job'[c], heap[job'[c].rec])
  BY <1>1, <1>3, <1>4 DEF InspectStep, Goes, Mine
<1> QED
  BY <1>2, <1>3, <1>5, InspectorMoves

LEMMA MaterializeFiles ==
  ASSUME IInv, IInv', Turns, Turns', Files, NEW c \in Client, Materialize(c)
  PROVE Files'
<1> DEFINE h == job[c].held
           x == job[c].rec
           r == [Mine(c) EXCEPT !.state = "COMPLETED"]
<1>1. c \in Actor /\ At(job[c]) /\ job[c].pc = "materialize"
  BY AtFacts DEF Actor, Materialize
<1>2. x \in Client /\ Mine(c) \in GoodRecord /\ InFlight(c) /\ ~ Uploading(c)
  BY <1>1, AtWork DEF At, Uploading
<1>3. /\ Return(c) /\ UNCHANGED <<item, clash, cut>>
      /\ \/ table' = Row(table, h) /\ UNCHANGED heap
         \/ Alters(c, r) /\ UNCHANGED table
  BY MaterializeEffect DEF history
<1>4. ASSUME InOrder PROVE \E y \in Client : Orderly(y)
  <2>1. /\ Compared(table) /\ table \in GoodRecord /\ InspectStep(job[c], Mine(c))
        /\ Settled(Mine(c), table)
    BY <1>2, <1>4, InspectorKnows DEF Mine, Live
  <2>2. CASE table' = Row(table, h) /\ Within(h) /\ UNCHANGED heap
    <3>1. /\ table'.files = h.files /\ table'.blobs = table.blobs
          /\ table'.groups = table.groups /\ table'.state = h.state
      BY <2>1, <2>2 DEF Row, GoodRecord
    <3>2. h.files = table.files /\ table.groups = table.files
      BY <1>1, <2>1, <2>2 DEF InspectStep, Settled, Within
    <3> QED
      BY <1>2, <2>2, <3>1, <3>2 DEF Orderly
  <2>3. CASE Alters(c, r) /\ UNCHANGED table
    <3>1. /\ r.files = Mine(c).files /\ r.attempts = Mine(c).attempts
          /\ r.blobs = Mine(c).blobs /\ r.groups = Mine(c).groups
          /\ r.state # "PARSING"
      BY <1>2 DEF GoodRecord
    <3> HIDE DEF r
    <3> QED
      BY <1>1, <1>2, <2>1, <2>3, <3>1 DEF Alters, Orderly, InspectStep, Compared, Mine
  <2> QED
    BY <2>2, <2>3, MaterializeEffect
<1> QED
  BY <1>2, <1>3, <1>4, NoFlight, OtherJobs, InspectorStep

\* A request that is no upload, in a step of its thread.
LEMMA InspectorAt ==
  ASSUME IInv, Turns, NEW c \in Client,
         job[c].pc \notin {"idle", "get", "install", "body"}, ~ Uploading(c)
  PROVE /\ c \in Actor /\ c # Worker /\ At(job[c]) /\ InFlight(c)
        /\ job[c].rec \in Client /\ Mine(c) \in GoodRecord
        /\ InOrder /\ Files => /\ InspectStep(job[c], Mine(c))
                               /\ Settled(Mine(c), table) /\ Compared(table)
                               /\ table \in GoodRecord
<1>1. c \in Actor /\ c # Worker
  BY Actors DEF Actor
<1>2. InFlight(c) /\ job[c].rec \in Client /\ Mine(c) \in GoodRecord
  BY <1>1, AtWork
<1>3. InOrder /\ Files => /\ InspectStep(job[c], Mine(c))
                          /\ Settled(Mine(c), table) /\ Compared(table)
                          /\ table \in GoodRecord
  BY <1>2, InspectorKnows DEF Mine, Live
<1> QED
  BY <1>1, <1>2, <1>3, AtFacts

\* The record of a request changes, its row does not.
LEMMA InspectorAlters ==
  ASSUME IInv, IInv', Turns, Turns', Files, NEW c \in Client, NEW pc, NEW r,
         job[c].pc \notin {"idle", "get", "install", "body"}, ~ Uploading(c),
         Goes(c, pc), job'[c].rec = job[c].rec, Alters(c, r), UNCHANGED table,
         r.files = Mine(c).files, r.attempts = Mine(c).attempts,
         r.blobs = Mine(c).blobs,
         r.state # "PARSING" <=> Mine(c).state # "PARSING",
         InOrder => /\ Within(r) => \/ r.groups = Mine(c).groups
                                    \/ r.groups = Mine(c).files
                    /\ InspectStep(job'[c], r)
  PROVE Files'
<1>1. /\ c \in Actor /\ InFlight(c) /\ job[c].rec \in Client
      /\ InOrder => Compared(table)
  BY InspectorAt
<1>2. ASSUME InOrder
      PROVE (\E x \in Client : Orderly(x)) /\ InspectStep(job'[c], heap'[job'[c].rec])
  <2>1. Orderly(job[c].rec)
    BY <1>1, <1>2 DEF Orderly, Alters, Compared, Within, Mine
  <2> QED
    BY <1>1, <1>2, <2>1 DEF Alters
<1> QED
  BY <1>1, <1>2, OtherJobs, InspectorStep DEF Goes, history

\* The row changes, but not in its files, and no record does.
LEMMA InspectorRow ==
  ASSUME IInv, IInv', Turns, Turns', Files, NEW c \in Client, NEW pc,
         job[c].pc \notin {"idle", "get", "install", "body"}, ~ Uploading(c),
         Goes(c, pc), job'[c].rec = job[c].rec, UNCHANGED heap,
         InOrder => /\ table'.files = table.files /\ table'.blobs = table.blobs
                    /\ table'.groups = table.groups \/ table'.groups = table.files
                    /\ table'.state # "PARSING" => table'.groups = table.files
                    /\ InspectStep(job'[c], Mine(c))
  PROVE Files'
<1>1. /\ c \in Actor /\ InFlight(c) /\ job[c].rec \in Client
      /\ InOrder => Compared(table)
  BY InspectorAt
<1>2. ASSUME InOrder
      PROVE (\E x \in Client : Orderly(x)) /\ InspectStep(job'[c], heap'[job'[c].rec])
  <2>1. Orderly(job[c].rec)
    BY <1>1, <1>2 DEF Orderly, Compared
  <2> QED
    BY <1>1, <1>2, <2>1 DEF Mine
<1> QED
  BY <1>1, <1>2, OtherJobs, InspectorStep DEF Goes, history

LEMMA SelectFiles ==
  ASSUME IInv, IInv', Turns, Turns', Files, NEW c \in Client, Select(c)
  PROVE Files'
<1>1. InFlight(c) /\ ~ Uploading(c)
  BY DEF Select, InFlight, Uploading
<1>2. /\ Goes(c, "audited") /\ job[c].op = "select" /\ job'[c].rec = item
      /\ heap[item].state \in {"READY", "VERIFYING"} /\ UNCHANGED <<item, table>>
      /\ heap'[item] = [heap[item] EXCEPT !.approved = @ \cup {job'[c].arg},
                                          !.blobs = @ \cup {job'[c].arg}]
      /\ \A x \in Client : x # item => heap'[x] = heap[x]
  BY SelectEffect
<1>3. item \in Client /\ heap[item] \in GoodRecord
  BY AtBody DEF Select
<1>4. /\ heap'[item].files = heap[item].files
      /\ heap'[item].attempts = heap[item].attempts
      /\ heap'[item].groups = heap[item].groups
      /\ heap'[item].state = heap[item].state
      /\ heap[item].blobs \subseteq heap'[item].blobs
  BY <1>2, <1>3 DEF GoodRecord
<1>5. InOrder => \E x \in Client : Orderly(x)
  <2>1. InOrder => Compared(table)
    BY <1>1, InspectorKnows
  <2> QED
    BY <1>2, <1>3, <1>4, <2>1 DEF Orderly, Compared
<1>6. InspectStep(job'[c], heap'[job'[c].rec])
  BY <1>2, <1>4 DEF InspectStep, Goes
<1> QED
  BY <1>1, <1>2, <1>5, <1>6, OtherJobs, InspectorStep DEF Goes, history

LEMMA SelectionFiles ==
  ASSUME IInv, IInv', Turns, Turns', Files, NEW c \in Client,
         Audited(c) \/ Replace(c) \/ Clear(c)
  PROVE Files'
<1> DEFINE x == job[c].rec
<1>1. /\ job[c].pc \in {"audited", "replace", "clear"}
      /\ job[c].pc \notin {"idle", "get", "install", "body"}
  BY DEF Audited, Replace, Clear
<1>2. ~ Uploading(c)
  BY <1>1, AtFacts DEF At, Uploading, Actor
<1>3. /\ c \in Actor /\ x \in Client /\ Mine(c) \in GoodRecord
      /\ InOrder => /\ InspectStep(job[c], Mine(c)) /\ Compared(table)
                    /\ table \in GoodRecord
  BY <1>1, <1>2, InspectorAt
<1>4. CASE Audited(c)
  <2>1. /\ Goes(c, "compute") /\ job'[c].rec = x /\ job'[c].held = Input(Mine(c))
        /\ table' = [table EXCEPT !.approved = @ \cup {job[c].arg}] /\ UNCHANGED heap
    BY <1>4, AuditedEffect
  <2>2. ASSUME InOrder
        PROVE /\ table'.files = table.files /\ table'.blobs = table.blobs
              /\ table'.groups = table.groups
              /\ table'.state # "PARSING" => table'.groups = table.files
              /\ InspectStep(job'[c], Mine(c))
    <3>1. Input(Mine(c)).files = Mine(c).files
      BY DEF Input, Fresh
    <3>2. InspectStep(job'[c], Mine(c))
      BY <1>3, <1>4, <2>1, <2>2, <3>1 DEF InspectStep, Goes, Audited
    <3> QED
      BY <1>3, <2>1, <2>2, <3>2 DEF Compared, GoodRecord
  <2> QED
    BY <1>1, <1>2, <2>1, <2>2, InspectorRow
<1>5. CASE Replace(c)
  <2> DEFINE r == [Mine(c) EXCEPT !.findings = job[c].cards]
  <2>1. /\ Goes(c, "clear") /\ job'[c].rec = x /\ job'[c].held = job[c].held
        /\ Alters(c, r) /\ UNCHANGED table
    BY <1>5, ReplaceEffect
  <2>2. /\ r.files = Mine(c).files /\ r.attempts = Mine(c).attempts
        /\ r.blobs = Mine(c).blobs /\ r.groups = Mine(c).groups
        /\ r.state = Mine(c).state
    BY <1>3 DEF GoodRecord
  <2> HIDE DEF r
  <2>3. InOrder => InspectStep(job'[c], r)
    BY <1>3, <1>5, <2>1, <2>2 DEF InspectStep, Goes, Within, Replace
  <2> QED
    BY <1>1, <1>2, <2>1, <2>2, <2>3, InspectorAlters
<1>6. CASE Clear(c)
  <2>1. /\ Goes(c, "regroup") /\ job'[c].rec = x /\ job'[c].held = job[c].held
        /\ table' = [table EXCEPT !.findings = job[c].cards] /\ UNCHANGED heap
    BY <1>6, ClearEffect
  <2>2. ASSUME InOrder
        PROVE /\ table'.files = table.files /\ table'.blobs = table.blobs
              /\ table'.groups = table.groups
              /\ table'.state # "PARSING" => table'.groups = table.files
              /\ InspectStep(job'[c], Mine(c))
    <3>1. InspectStep(job'[c], Mine(c))
      BY <1>3, <1>6, <2>1, <2>2 DEF InspectStep, Goes, Clear
    <3> QED
      BY <1>3, <2>1, <2>2, <3>1 DEF Compared, GoodRecord
  <2> QED
    BY <1>1, <1>2, <2>1, <2>2, InspectorRow
<1> QED
  BY <1>4, <1>5, <1>6

LEMMA InspectorSignSave ==
  ASSUME IInv, IInv', Turns, Turns', Files, NEW c \in Client,
         Sign(c) \/ Save(c) \/ Compute(c), ~ Uploading(c)
  PROVE Files'
<1>1. /\ job[c].pc \in {"sign", "save", "compute"}
      /\ job[c].pc \notin {"idle", "get", "install", "body"}
  BY DEF Sign, Save, Compute
<1>2. /\ c \in Actor /\ c # Worker /\ job[c].rec \in Client /\ Mine(c) \in GoodRecord
      /\ InOrder => /\ InspectStep(job[c], Mine(c)) /\ Compared(table)
                    /\ table \in GoodRecord /\ Settled(Mine(c), table)
  BY <1>1, InspectorAt
<1>3. CASE Sign(c)
  <2> DEFINE k == job'[c].arg
             r == [Mine(c) EXCEPT !.findings[k] = job'[c].cards[k]]
  <2>1. /\ Goes(c, "save") /\ job'[c].rec = job[c].rec /\ Alters(c, r)
        /\ UNCHANGED table
    BY <1>2, <1>3, SignEffect
  <2>2. /\ r.files = Mine(c).files /\ r.attempts = Mine(c).attempts
        /\ r.blobs = Mine(c).blobs /\ r.groups = Mine(c).groups
        /\ r.state = Mine(c).state
    BY <1>2 DEF GoodRecord
  <2> HIDE DEF r
  <2>3. InspectStep(job'[c], r)
    BY <2>1 DEF InspectStep, Goes
  <2> QED
    BY <1>1, <2>1, <2>2, <2>3, InspectorAlters
<1>4. CASE Save(c)
  <2>1. /\ \E pc \in {"sign", "open"} : Goes(c, pc)
        /\ job'[c].rec = job[c].rec /\ UNCHANGED heap
        /\ table' = [table EXCEPT !.findings[job[c].arg] = job[c].cards[job[c].arg]]
    BY <1>2, <1>4, SaveEffect
  <2>2. PICK pc \in {"sign", "open"} : Goes(c, pc)
    BY <2>1
  <2>3. ASSUME InOrder
        PROVE /\ table'.files = table.files /\ table'.blobs = table.blobs
              /\ table'.groups = table.groups
              /\ table'.state # "PARSING" => table'.groups = table.files
              /\ InspectStep(job'[c], Mine(c))
    <3>1. InspectStep(job'[c], Mine(c))
      BY <2>2 DEF InspectStep, Goes
    <3> QED
      BY <1>2, <2>1, <2>3, <3>1 DEF Compared, GoodRecord
  <2> QED
    BY <1>1, <2>1, <2>2, <2>3, InspectorRow
<1>5. CASE Compute(c)
  <2>1. /\ Goes(c, "replace") /\ job'[c].rec = job[c].rec
        /\ UNCHANGED <<heap, table>>
        /\ job'[c].held.files = job[c].held.files \cap Mine(c).blobs
    BY <1>2, <1>5, ComputeEffect DEF data
  <2>2. InOrder => InspectStep(job'[c], heap[job'[c].rec])
    BY <1>2, <1>5, <2>1 DEF InspectStep, Goes, Compute, Settled, Whole, Mine
  <2> QED
    BY <2>1, <2>2, InspectorMoves
<1> QED
  BY <1>3, <1>4, <1>5

LEMMA InspectorRegroup ==
  ASSUME IInv, IInv', Turns, Turns', Files, NEW c \in Client,
         Regroup(c) \/ SaveGroups(c) \/ Settle(c)
  PROVE Files'
<1>1. /\ job[c].pc \in {"regroup", "groups", "settle"}
      /\ job[c].pc \notin {"idle", "get", "install", "body"}
  BY DEF Regroup, SaveGroups, Settle
<1>2. ~ Uploading(c)
  BY <1>1, AtFacts DEF At, Uploading, Actor
<1>3. /\ c \in Actor /\ c # Worker /\ job[c].rec \in Client /\ Mine(c) \in GoodRecord
      /\ InOrder => /\ InspectStep(job[c], Mine(c)) /\ Compared(table)
                    /\ table \in GoodRecord /\ Settled(Mine(c), table)
  BY <1>1, <1>2, InspectorAt
<1>4. \A r : /\ Row(Fresh, r).files = r.files /\ Row(Fresh, r).state = r.state
             /\ Row(Fresh, r).attempts = r.attempts
  BY DEF Row, Fresh
<1>5. CASE Regroup(c)
  <2> DEFINE r == [Mine(c) EXCEPT !.groups = job[c].held.files]
  <2>1. /\ Goes(c, "write") /\ job'[c].rec = job[c].rec /\ Alters(c, r)
        /\ job'[c].held = Row(Fresh, r) /\ UNCHANGED table
    BY <1>3, <1>5, RegroupEffect
  <2>2. /\ r.files = Mine(c).files /\ r.attempts = Mine(c).attempts
        /\ r.blobs = Mine(c).blobs /\ r.groups = job[c].held.files
        /\ r.state = Mine(c).state
    BY <1>3 DEF GoodRecord
  <2> HIDE DEF r
  <2>3. InOrder => /\ Within(r) => r.groups = Mine(c).files
                   /\ InspectStep(job'[c], r)
    BY <1>3, <1>4, <1>5, <2>1, <2>2 DEF InspectStep, Goes, Regroup, Within
  <2> QED
    BY <1>1, <1>2, <2>1, <2>2, <2>3, InspectorAlters
<1>6. CASE SaveGroups(c)
  <2> DEFINE r == [Mine(c) EXCEPT !.attempts = IF c = Worker THEN @ + 1 ELSE @]
  <2>1. /\ Goes(c, "settle") /\ job'[c].rec = job[c].rec /\ Alters(c, r)
        /\ table' = [table EXCEPT !.groups = Mine(c).groups] /\ UNCHANGED item
    BY <1>3, <1>6, SaveGroupsEffect
  <2>2. r = Mine(c)
    BY <1>3 DEF GoodRecord
  <2> HIDE DEF r
  <2>3. \A x \in Client : heap'[x] = heap[x]
    BY <2>1, <2>2 DEF Alters, Mine
  <2>4. ASSUME InOrder
        PROVE (\E x \in Client : Orderly(x)) /\ InspectStep(job'[c], heap'[job'[c].rec])
    <3>1. /\ table'.files = table.files /\ table'.blobs = table.blobs
          /\ table'.groups = Mine(c).groups /\ table'.state = table.state
      BY <1>3, <2>1, <2>4 DEF GoodRecord
    <3>2. Mine(c).groups = Mine(c).files /\ Mine(c).files = table.files
            /\ Mine(c).state # "PARSING"
      BY <1>3, <1>6, <2>4 DEF InspectStep, Settled, Compared, SaveGroups
    <3>3. Orderly(job[c].rec)
      BY <1>3, <2>3, <3>1, <3>2 DEF Orderly
    <3>4. InspectStep(job'[c], heap'[job'[c].rec])
      BY <1>3, <2>1, <2>3, <3>2 DEF InspectStep, Goes, Mine
    <3> QED
      BY <1>3, <3>3, <3>4
  <2>5. InFlight(c)
    BY <1>1 DEF InFlight
  <2> QED
    BY <1>2, <2>1, <2>4, <2>5, OtherJobs, InspectorStep DEF Goes, history
<1>7. CASE Settle(c)
  <2> DEFINE r == [Mine(c) EXCEPT !.state = IF c = Worker /\ @ = "PARSING"
                                              THEN "READY" ELSE @]
  <2>1. /\ Goes(c, "write") /\ job'[c].rec = job[c].rec /\ Alters(c, r)
        /\ job'[c].held = Row(Fresh, r) /\ UNCHANGED table
    BY <1>3, <1>7, SettleEffect
  <2>2. r = Mine(c)
    BY <1>3 DEF GoodRecord
  <2> HIDE DEF r
  <2>3. InOrder => InspectStep(job'[c], r)
    BY <1>3, <1>4, <1>7, <2>1, <2>2 DEF InspectStep, Goes, Settle
  <2> QED
    BY <1>1, <1>2, <2>1, <2>2, <2>3, InspectorAlters
<1> QED
  BY <1>5, <1>6, <1>7

LEMMA InspectorWrite ==
  ASSUME IInv, IInv', Turns, Turns', Files, NEW c \in Client, Write(c), ~ Uploading(c)
  PROVE Files'
<1> DEFINE h == job[c].held
<1>1. job[c].pc = "write" /\ job[c].pc \notin {"idle", "get", "install", "body"}
  BY DEF Write
<1>2. /\ c \in Actor /\ c # Worker /\ At(job[c]) /\ InFlight(c)
      /\ job[c].rec \in Client /\ Mine(c) \in GoodRecord
      /\ InOrder => /\ InspectStep(job[c], Mine(c)) /\ Compared(table)
                    /\ table \in GoodRecord /\ Settled(Mine(c), table)
  BY <1>1, InspectorAt
<1>3. UNCHANGED <<heap, item, clash, cut>>
  BY <1>2, WriteEffect DEF history
<1>4. CASE Return(c) /\ UNCHANGED table
  BY <1>2, <1>3, <1>4, InspectorEnds
<1>5. ASSUME InOrder, Within(h), NEW base, base = IF table = NoRecord THEN Fresh ELSE table,
             table' = Row(base, h)
      PROVE /\ table'.files = table.files /\ table'.blobs = table.blobs
            /\ table'.groups = table.groups
            /\ table'.state # "PARSING" => table'.groups = table.files
            /\ Within(Mine(c)) /\ Mine(c).state # "PARSING"
  <2>1. base = table
    BY <1>2, <1>5, GoodIsRecord
  <2>2. /\ table'.files = h.files /\ table'.blobs = table.blobs
        /\ table'.groups = table.groups /\ table'.state = h.state
    BY <1>2, <1>5, <2>1 DEF Row, GoodRecord
  <2> QED
    BY <1>1, <1>2, <1>5, <2>2 DEF InspectStep, Settled, Within
<1>6. CASE /\ Within(h)
           /\ table' = Row(IF table = NoRecord THEN Fresh ELSE table, h)
           /\ job[c].next = "idle" /\ Return(c)
  <2>1. InOrder => \E x \in Client : Orderly(x)
    BY <1>2, <1>3, <1>5, <1>6 DEF Orderly
  <2> QED
    BY <1>2, <1>3, <1>6, <2>1, NoFlight, OtherJobs, InspectorStep
<1>7. CASE /\ Within(h)
           /\ table' = Row(IF table = NoRecord THEN Fresh ELSE table, h)
           /\ job[c].next # "idle" /\ Goes(c, job[c].next)
           /\ job'[c].rec = job[c].rec
  <2>1. job[c].next = "groups"
    BY <1>1, <1>2, <1>7 DEF At, Uploading
  <2>2. Goes(c, "groups")
    BY <1>7, <2>1
  <2>3. InOrder => /\ table'.files = table.files /\ table'.blobs = table.blobs
                   /\ table'.groups = table.groups
                   /\ table'.state # "PARSING" => table'.groups = table.files
                   /\ InspectStep(job'[c], Mine(c))
    BY <1>5, <1>7, <2>2 DEF InspectStep, Goes
  <2> QED
    BY <1>1, <1>3, <1>7, <2>2, <2>3, InspectorRow
<1> QED
  BY <1>2, <1>4, <1>6, <1>7, WriteEffect

-----------------------------------------------------------------------------
(* The second layer: how requests begin and how uploads go on.             *)

LEMMA InitFiles == Init => Files
<1> SUFFICES ASSUME Init PROVE Files
  OBVIOUS
<1>1. \A c \in Client : ~ InFlight(c)
  BY DEF Init, InFlight, Idle, Actor
<1>2. requested[P] = covered[P] /\ current = "none" /\ table = NoRecord
  BY DEF Init, Runs!Init
<1> QED
  BY <1>1, <1>2 DEF Files, RestFiles, UploadFiles, InspectFiles, RunFiles

\* A step outside the records and outside the requests under way.
LEMMA QuietFiles ==
  ASSUME IInv, Turns, Turns', Files, UNCHANGED data, UNCHANGED runVars,
         UNCHANGED <<clash, cut>>, job'[Worker] = job[Worker],
         \A c \in Client : InFlight(c) \/ InFlight(c)' => job'[c] = job[c]
  PROVE Files'
<1>1. \A c \in Client : /\ InFlight(c)' <=> InFlight(c)
                        /\ InFlight(c) => (Uploading(c)' <=> Uploading(c))
  BY DEF InFlight, Uploading
<1>2. \A c \in Client : ~ InFlight(c) => ~ Changing(c) /\ ~ Changing(c)'
  <2> SUFFICES ASSUME NEW c \in Client, ~ InFlight(c)
               PROVE ~ Changing(c) /\ ~ Changing(c)'
    OBVIOUS
  <2>1. /\ job[c].pc \in {"idle", "get"} /\ job'[c].pc \in {"idle", "get"}
        /\ job[c].pc = "idle" => job[c].op = "none"
        /\ job'[c].pc = "idle" => job'[c].op = "none"
    BY <1>1 DEF InFlight, Turns, OpTurns, Actor
  <2> QED
    BY <2>1 DEF Changing, Uploading
<1>3. Calm' => Calm
  BY <1>1, <1>2 DEF Calm, Changing, runVars, Uploading
<1>4. \A x \in Client : Live(x)' => Live(x)
  BY <1>1 DEF Live, data
<1>5. RestFiles /\ UploadFiles /\ InspectFiles /\ RunFiles
        => RestFiles' /\ UploadFiles' /\ InspectFiles' /\ RunFiles'
  BY <1>1, <1>3, <1>4 DEF RestFiles, UploadFiles, InspectFiles, RunFiles, data, runVars
<1> QED
  BY <1>5 DEF Files, InOrder

LEMMA ArriveFiles ==
  ASSUME IInv, IInv', Turns, Turns', Files, NEW c \in Client,
         NEW op \in Ops \ {"run"}, Arrive(c, op)
  PROVE Files'
<1>1. /\ job[c].pc = "idle" /\ Only(c) /\ job'[c].op = op
      /\ job'[c].pc = IF op = "create" THEN "body" ELSE "get"
      /\ UNCHANGED data /\ UNCHANGED runVars /\ UNCHANGED <<clash, cut>>
      /\ op = "create" => table = NoRecord
  BY ArriveEffect
<1>2. CASE op = "create"
  <2>1. InFlight(c)' /\ Uploading(c)' /\ table' = NoRecord
    BY <1>1, <1>2 DEF InFlight, Uploading, data
  <2>2. UploadStep(job'[c], item', heap'[job'[c].rec], table')
    BY <1>1, <1>2 DEF UploadStep
  <2> QED
    BY <2>1, <2>2, UploadShows
<1>3. CASE op # "create"
  <2>1. job'[Worker] = job[Worker] /\ \A d \in Client \ {c} : job'[d] = job[d]
    BY <1>1, OnlyFacts, Actors DEF Actor
  <2>2. ~ InFlight(c) /\ ~ InFlight(c)'
    BY <1>1, <1>3 DEF InFlight
  <2> QED
    BY <1>1, <2>1, <2>2, QuietFiles
<1> QED
  BY <1>2, <1>3

\* A record as get loads it.
LEMMA LoadedSettled ==
  ASSUME IInv, table \in GoodRecord, Whole(table), Compared(table), NEW r,
         r = [table EXCEPT !.blobs = @ \cap table.files]
  PROVE Settled(r, table)
<1>1. /\ r.files = table.files /\ r.blobs = table.blobs \cap table.files
      /\ r.groups = table.groups /\ r.state = table.state
  BY DEF GoodRecord
<1> QED
  BY <1>1 DEF Settled, Whole, Compared

\* When the requests under way are no uploads and no run is asked for, what
\* holds at rest holds.
LEMMA CalmKnows ==
  ASSUME IInv, Turns, Files, InOrder, requested[P] = covered[P], table # NoRecord,
         \A d \in Client : InFlight(d) => ~ Uploading(d)
  PROVE /\ table \in GoodRecord /\ Whole(table) /\ Compared(table)
        /\ \A x \in Client : Live(x) => Settled(heap[x], table)
<1>1. \A d \in Client : ~ Changing(d)
  <2> SUFFICES ASSUME NEW d \in Client, Changing(d) PROVE FALSE
    OBVIOUS
  <2>1. job[d].pc = "idle"
    BY DEF Changing, InFlight
  <2> QED
    BY <2>1 DEF Turns, OpTurns, Changing, Uploading, Actor
<1> QED
  BY <1>1 DEF Files, RestFiles, Calm, IInv, Types

LEMMA GetFiles ==
  ASSUME IInv, IInv', Turns, Turns', Files, NEW c \in Client, Get(c)
  PROVE Files'
<1>1. /\ job[c].pc = "get" /\ covered = requested /\ c \in Actor
      /\ UNCHANGED <<item, table, protocol, cut>> /\ UNCHANGED runVars
      /\ \A d \in Client \ {c} : job'[d] = job[d]
  <2>1. Only(c) \/ job' = [job EXCEPT ![c] = Idle]
    BY GetEffect
  <2> QED
    BY <2>1, GetEffect, OtherJobs DEF Actor, IInv, Types
<1>2. table \in GoodRecord /\ table # NoRecord
  BY <1>1, Mine1, GoodIsRecord DEF KnowsOf, Making
<1>3. ~ InFlight(c)
  BY <1>1 DEF InFlight
<1>4. ASSUME InOrder'
      PROVE /\ InOrder
            /\ \A d \in Client \ {c} : InFlight(d) => ~ Uploading(c) /\ ~ Uploading(d)
            /\ Whole(table) /\ Compared(table)
            /\ \A x \in Client : Live(x) => Settled(heap[x], table)
  <2>1. /\ InOrder
        /\ \A d \in Client \ {c} : InFlight(d) => ~ Uploading(c) /\ ~ Uploading(d)
    BY <1>1, <1>4, GetClash DEF InOrder
  <2> QED
    BY <1>1, <1>2, <1>3, <2>1, CalmKnows
<1>5. NoOne \notin Client
  BY Actors DEF Actor
<1>6. ASSUME InOrder', NEW x \in Client, Live(x)' PROVE Settled(heap'[x], table')
  <2>1. ASSUME UNCHANGED heap, InFlight(c)' => job'[c].rec = item
        PROVE Settled(heap'[x], table')
    <3>1. Live(x)
      BY <1>1, <1>6, <2>1 DEF Live, InFlight
    <3> QED
      BY <1>1, <1>4, <1>6, <2>1, <3>1
  <2>2. ASSUME job'[c].rec = c,
               heap'[c] = [table EXCEPT !.blobs = @ \cap table.files],
               \A y \in Client : y # c => heap'[y] = heap[y]
        PROVE Settled(heap'[x], table')
    <3>1. CASE x = c
      BY <1>1, <1>2, <1>4, <1>6, <2>2, <3>1, LoadedSettled
    <3>2. CASE x # c
      <4>1. Live(x)
        BY <1>1, <1>6, <2>2, <3>2 DEF Live, InFlight
      <4> QED
        BY <1>1, <1>4, <1>6, <2>2, <3>2, <4>1
    <3> QED
      BY <3>1, <3>2
  <2>3. job' = [job EXCEPT ![c] = Idle] => ~ InFlight(c)'
    BY <1>1 DEF IInv, Types, Idle, InFlight
  <2>4. CASE UNCHANGED heap /\ job'[c].rec = item
    BY <2>1, <2>4
  <2>5. CASE UNCHANGED heap /\ job' = [job EXCEPT ![c] = Idle]
    BY <2>1, <2>3, <2>5
  <2>6. CASE /\ job'[c].rec = c
             /\ heap'[c] = [table EXCEPT !.blobs = @ \cap table.files]
             /\ \A y \in Client : y # c => heap'[y] = heap[y]
    BY <2>2, <2>6
  <2> QED
    BY <2>4, <2>5, <2>6, GetEffect
<1>7. CASE Uploading(c)
  <2>1. /\ Only(c) /\ job'[c].pc \in {"install", "body"} /\ job'[c].op = job[c].op
        /\ job'[c].pc = "body" => job'[c].rec = item
    BY <1>7, GetEffect DEF Uploading
  <2>2. InFlight(c)' /\ Uploading(c)'
    BY <1>7, <2>1 DEF InFlight, Uploading
  <2>3. UploadStep(job'[c], item', heap'[job'[c].rec], table')
    BY <1>1, <2>1 DEF UploadStep
  <2>4. InOrder' => \A x \in Client :
                      x \in {item', job'[c].rec} => Settled(heap'[x], table')
    BY <1>6, <2>2 DEF Live
  <2> QED
    BY <1>1, <1>4, <2>2, <2>3, <2>4, UploadShows
<1>8. CASE ~ Uploading(c)
  <2>1. /\ InFlight(c)' => /\ ~ Uploading(c)' /\ job'[c].pc \in {"install", "body"}
    BY <1>8, GetEffect, <1>1 DEF InFlight, Uploading, Idle, IInv, Types
  <2>2. InFlight(c)' => InspectStep(job'[c], heap'[job'[c].rec])
    BY <2>1 DEF InspectStep
  <2>3. ASSUME InOrder', NEW d \in Client \ {c}, InFlight(d) PROVE Tame(job[d].rec)
    <3>1. item = NoOne => job[d].rec = d
      BY <1>4, <2>3 DEF Turns, ItemTurns, Actor, Uploading
    <3>2. \A x \in Client : x # c \/ item # NoOne => heap'[x] = heap[x]
      BY GetEffect
    <3>3. job[d].rec \in Client
      <4>1. d \in Actor
        BY DEF Actor
      <4> QED
        BY <1>4, <2>3, <4>1, Mine1 DEF KnowsOf, InFlight, Uploading
    <3> QED
      BY <3>1, <3>2, <3>3 DEF Tame
  <2> QED
    BY <1>1, <1>4, <1>6, <2>1, <2>2, <2>3, InspectorShows DEF runVars
<1> QED
  BY <1>7, <1>8

LEMMA InstallFiles ==
  ASSUME IInv, IInv', Turns, Turns', Files, NEW c \in Client, Install(c)
  PROVE Files'
<1>1. /\ job[c].pc = "install" /\ job[c].rec = c /\ item' = c
      /\ Only(c) /\ job'[c].pc = "body" /\ job'[c].rec = c /\ job'[c].op = job[c].op
      /\ UNCHANGED <<heap, table>> /\ UNCHANGED runVars /\ UNCHANGED <<clash, cut>>
  BY InstallEffect DEF history
<1>2. InFlight(c) /\ InFlight(c)' /\ (Uploading(c)' <=> Uploading(c))
  BY <1>1 DEF InFlight, Uploading
<1>3. InOrder' => InOrder
  BY <1>1 DEF InOrder
<1>4. CASE Uploading(c)
  <2>1. UploadStep(job'[c], item', heap'[job'[c].rec], table')
    BY <1>1 DEF UploadStep
  <2>2. InOrder' /\ table # NoRecord =>
          /\ Whole(table) /\ Compared(table) /\ Settled(heap[c], table)
    BY <1>1, <1>2, <1>3, <1>4, UploadKnows
  <2> QED
    BY <1>1, <1>2, <1>4, <2>1, <2>2, UploadShows
<1>5. CASE ~ Uploading(c)
  <2>1. InspectStep(job'[c], heap'[job'[c].rec])
    BY <1>1 DEF InspectStep
  <2>2. \A d \in Client \ {c} : job'[d] = job[d]
    BY <1>1, OtherJobs
  <2>3. \A x \in Client : Live(x)' => Live(x)
    BY <1>1, <1>2, <2>2 DEF Live, InFlight
  <2>4. \A x : Tame(x)
    BY <1>1 DEF Tame
  <2> QED
    BY <1>1, <1>2, <1>3, <1>5, <2>1, <2>2, <2>3, <2>4, InspectorKnows, InspectorShows
       DEF runVars
<1> QED
  BY <1>4, <1>5

LEMMA RejectFiles ==
  ASSUME IInv, IInv', Turns, Turns', Files, NEW c \in Client, Reject(c)
  PROVE Files'
<1>1. /\ InFlight(c) /\ Return(c) /\ UNCHANGED <<heap, table, item, clash, cut>>
      /\ job[c].pc = "body" /\ ~ InFlight(c)' /\ UNCHANGED runVars
      /\ \A d \in Client \ {c} : job'[d] = job[d]
  BY RejectEffect, NoFlight, OtherJobs DEF data, history
<1>2. CASE Uploading(c)
  <2>1. InOrder' => InOrder
    BY <1>1 DEF InOrder
  <2>2. InOrder' =>
          /\ \A d \in Client : ~ InFlight(d)'
          /\ requested'[P] = covered'[P]
          /\ table' # NoRecord => Whole(table') /\ Compared(table')
          /\ table' # NoRecord /\ item' \in Client => Settled(heap'[item'], table')
    BY <1>1, <1>2, <2>1, UploadKnows DEF InFlight, runVars
  <2> QED
    BY <2>2, RestShows
<1>3. CASE ~ Uploading(c)
  BY <1>1, <1>3, InspectorEnds
<1> QED
  BY <1>2, <1>3

LEMMA CreateFiles ==
  ASSUME IInv, IInv', Turns, Turns', Files, NEW c \in Client, Create(c)
  PROVE Files'
<1>1. /\ job[c].pc = "body" /\ job[c].op = "create" /\ job'[c].pc = "write"
      /\ job'[c].next = "attach" /\ job'[c].rec = c /\ job'[c].op = "create"
      /\ job'[c].held = Fresh /\ item' = c /\ heap'[c] = Fresh /\ table' = table
  BY CreateEffect
<1>2. table = NoRecord
  BY <1>1 DEF Turns, CreateTurns, Actor
<1>3. Fresh = Row(Fresh, Fresh) /\ Fresh.state = "PARSING"
  BY DEF Row, Fresh
<1>4. UploadStep(job'[c], item', heap'[job'[c].rec], table')
  BY <1>1, <1>2, <1>3 DEF UploadStep
<1> QED
  BY <1>1, <1>4, UploadShows DEF InFlight, Uploading

\* What an upload in the middle of its work can rely on, and what it has to
\* show before its next step.
LEMMA UploadAt ==
  ASSUME IInv, Turns, NEW c \in Client, Uploading(c),
         job[c].pc \notin {"idle", "get", "install", "body"}
  PROVE /\ c \in Actor /\ c # Worker /\ At(job[c]) /\ InFlight(c)
        /\ job[c].rec \in Client /\ Mine(c) \in GoodRecord
        /\ table \in GoodRecord \/ (job[c].pc = "write" /\ job[c].next = "attach")
        /\ InOrder /\ Files => /\ UploadStep(job[c], item, Mine(c), table)
                               /\ requested[P] = covered[P] /\ current = "none"
                               /\ job[c].rec = item
<1>1. c \in Actor /\ c # Worker
  BY Actors DEF Actor
<1>2. InFlight(c)
  BY DEF InFlight
<1> QED
  BY <1>1, <1>2, AtWork, AtFacts, UploadKnows DEF Mine, Making, UploadStep

LEMMA UploadMoves ==
  ASSUME IInv, IInv', Turns', NEW c \in Client, NEW pc, NEW r, Goes(c, pc),
         pc \notin {"idle", "get", "install", "body"}, Uploading(c),
         job[c].rec \in Client, job'[c].rec = job[c].rec, heap'[job[c].rec] = r,
         InOrder => UploadStep(job'[c], item, r, table')
  PROVE Files'
<1>1. InFlight(c)' /\ Uploading(c)' /\ job'[c].pc \notin {"install", "body"}
  BY DEF Goes, InFlight, Uploading
<1>2. InOrder' => UploadStep(job'[c], item', heap'[job'[c].rec], table')
  BY DEF Goes, InOrder, history
<1> QED
  BY <1>1, <1>2, UploadShows

LEMMA AttachFiles ==
  ASSUME IInv, IInv', Turns, Turns', Files, NEW c \in Client,
         NEW f \in File, Attach(c, f)
  PROVE Files'
<1> DEFINE r == [Mine(c) EXCEPT !.files = @ \cup {f}]
<1>1. /\ \/ job[c].pc = "attach"
         \/ /\ job[c].pc = "body" /\ job[c].op = "upload"
            /\ Mine(c).state # "FINALIZED"
      /\ job[c].rec \in Client /\ Mine(c) \in GoodRecord /\ table \in GoodRecord
      /\ Goes(c, "write") /\ job'[c].rec = job[c].rec /\ job'[c].next = "blob"
      /\ job'[c].arg = f /\ job'[c].held = Row(Fresh, r) /\ Alters(c, r)
      /\ UNCHANGED table
  BY AttachEffect
<1>2. /\ r.files = Mine(c).files \cup {f} /\ r.state = Mine(c).state
      /\ r.blobs = Mine(c).blobs /\ r.attempts = Mine(c).attempts
  BY <1>1 DEF GoodRecord
<1> HIDE DEF r
<1>3. Uploading(c) /\ InFlight(c)
  BY <1>1, AtFacts DEF At, Uploading, Actor, InFlight
<1>4. ASSUME InOrder PROVE UploadStep(job'[c], item, r, table')
  <2>1. /\ UploadStep(job[c], item, Mine(c), table)
        /\ job[c].pc = "body" =>
             Whole(table) /\ Compared(table) /\ Settled(Mine(c), table)
    BY <1>1, <1>3, <1>4, UploadKnows, GoodIsRecord DEF Mine
  <2>2. job[c].rec = item
    BY <1>1, <2>1 DEF UploadStep
  <2>3. CASE job[c].pc = "attach"
    <3>1. Mine(c) = Fresh /\ table = Fresh
      BY <2>1, <2>3 DEF UploadStep
    <3>2. /\ Fresh.files = {} /\ Fresh.blobs = {} /\ Fresh.state = "PARSING"
      BY DEF Fresh
    <3> QED
      BY <1>1, <1>2, <2>2, <3>1, <3>2 DEF UploadStep, Goes, Whole, Compared
  <2>4. CASE job[c].pc = "body"
    BY <1>1, <1>2, <2>1, <2>2, <2>4 DEF UploadStep, Goes, Whole, Settled, Within
  <2> QED
    BY <1>1, <2>3, <2>4
<1> QED
  BY <1>1, <1>3, <1>4, UploadMoves DEF Alters

LEMMA KeepBlobFiles ==
  ASSUME IInv, IInv', Turns, Turns', Files, NEW c \in Client, KeepBlob(c)
  PROVE Files'
<1> DEFINE f == job[c].arg
           r == [Mine(c) EXCEPT !.blobs = @ \cup {f}]
<1>1. job[c].pc = "blob" /\ job[c].pc \notin {"idle", "get", "install", "body"}
  BY DEF KeepBlob
<1>2. Uploading(c)
  BY <1>1, AtFacts DEF At, Uploading, Actor
<1>3. /\ job[c].rec \in Client /\ Mine(c) \in GoodRecord /\ table \in GoodRecord
      /\ InOrder => UploadStep(job[c], item, Mine(c), table) /\ job[c].rec = item
  BY <1>1, <1>2, UploadAt
<1>4. /\ Goes(c, "write") /\ job'[c].rec = job[c].rec /\ job'[c].next = "reopen"
      /\ job'[c].held = Row(Fresh, r) /\ Alters(c, r)
      /\ table' = [table EXCEPT !.blobs = @ \cup {f}]
  BY KeepBlobEffect
<1>5. /\ r.files = Mine(c).files /\ r.state = Mine(c).state
      /\ r.blobs = Mine(c).blobs \cup {f} /\ r.attempts = Mine(c).attempts
      /\ table'.files = table.files /\ table'.blobs = table.blobs \cup {f}
  BY <1>3, <1>4 DEF GoodRecord
<1> HIDE DEF r
<1>6. InOrder => UploadStep(job'[c], item, r, table')
  BY <1>1, <1>3, <1>4, <1>5 DEF UploadStep, Goes, Whole, Within
<1> QED
  BY <1>2, <1>3, <1>4, <1>6, UploadMoves DEF Alters

\* The snapshot of an upload is written, or refused after too many runs.
LEMMA UploadWrite ==
  ASSUME IInv, IInv', Turns, Turns', Files, NEW c \in Client, Write(c), Uploading(c)
  PROVE Files'
<1> DEFINE h == job[c].held
           r == Mine(c)
           n == job[c].next
<1>1. job[c].pc = "write" /\ job[c].pc \notin {"idle", "get", "install", "body"}
  BY DEF Write
<1>2. /\ c \in Actor /\ c # Worker /\ At(job[c]) /\ InFlight(c)
      /\ job[c].rec \in Client /\ r \in GoodRecord
      /\ table \in GoodRecord \/ n = "attach"
      /\ InOrder => /\ UploadStep(job[c], item, r, table) /\ job[c].rec = item
                    /\ requested[P] = covered[P]
  BY <1>1, UploadAt
<1>3. UNCHANGED <<heap, item, clash, cut>>
  BY <1>2, WriteEffect DEF history
<1>4. n \in {"attach", "blob", "reopen"}
  BY <1>1, <1>2 DEF At, Uploading
<1>5. InOrder => /\ h.files = r.files /\ h.state = r.state
                 /\ h.attempts = r.attempts /\ r.state # "FINALIZED"
  BY <1>1, <1>2 DEF UploadStep, Row, Fresh
<1>6. CASE /\ ~ (h.state # "FINALIZED" /\ Within(h))
           /\ Return(c) /\ UNCHANGED table
  <2>1. ASSUME InOrder' PROVE n = "blob" /\ ~ Within(r) /\ UploadStep(job[c], item, r, table)
    <3>1. InOrder /\ ~ Within(r)
      BY <1>3, <1>5, <1>6, <2>1 DEF InOrder, Within
    <3>2. n # "attach"
      BY <1>1, <1>2, <3>1, Bounds, FreshRecord DEF UploadStep, Within
    <3>3. n # "reopen"
      BY <1>1, <1>2, <3>1 DEF UploadStep
    <3> QED
      BY <1>2, <1>4, <3>1, <3>2, <3>3
  <2>2. \A d \in Client : InOrder' => ~ InFlight(d)'
    <3>1. InOrder' => \A d \in Client \ {c} : ~ InFlight(d)
      BY <1>2, <1>3, UploadKnows DEF InOrder
    <3> QED
      BY <1>6, <3>1, NoFlight, OtherJobs DEF InFlight
  <2>3. InOrder' => /\ Whole(table) /\ Compared(table) /\ Settled(heap[item], table)
                    /\ requested[P] = covered[P]
    BY <1>1, <1>2, <1>3, <2>1 DEF UploadStep, Settled, InOrder, Mine
  <2> QED
    BY <1>3, <1>6, <2>2, <2>3, NoFlight, RestShows DEF runVars
<1>7. CASE /\ Within(h)
           /\ table' = Row(IF table = NoRecord THEN Fresh ELSE table, h)
           /\ Goes(c, n) /\ job'[c].rec = job[c].rec /\ job'[c].arg = job[c].arg
  <2>1. ASSUME InOrder PROVE UploadStep(job'[c], item, r, table')
    <3>1. CASE n = "attach"
      <4>1. r = Fresh /\ table = NoRecord /\ h = Row(Fresh, Fresh)
        BY <1>1, <1>2, <2>1, <3>1 DEF UploadStep
      <4>2. table' = Fresh
        BY <1>7, <4>1 DEF Row, Fresh
      <4> QED
        BY <1>2, <1>7, <2>1, <3>1, <4>1, <4>2 DEF UploadStep, Goes
    <3>2. CASE n # "attach"
      <4>1. table # NoRecord /\ table \in GoodRecord
        BY <1>2, <3>2, GoodIsRecord
      <4>2. table'.files = h.files /\ table'.blobs = table.blobs
        BY <1>7, <4>1 DEF Row, GoodRecord
      <4>3. r.files = table'.files /\ Within(r)
        BY <1>5, <1>7, <2>1, <4>2 DEF Within
      <4>4. CASE n = "blob"
        BY <1>1, <1>2, <1>7, <2>1, <4>2, <4>3, <4>4 DEF UploadStep, Goes, Whole
      <4>5. CASE n = "reopen"
        BY <1>1, <1>2, <1>7, <2>1, <4>2, <4>3, <4>5 DEF UploadStep, Goes, Whole
      <4> QED
        BY <1>4, <3>2, <4>4, <4>5
    <3> QED
      BY <3>1, <3>2
  <2>2. heap'[job[c].rec] = r
    BY <1>3 DEF Mine
  <2>3. n \notin {"idle", "get", "install", "body"}
    BY <1>4
  <2> HIDE DEF r
  <2> QED
    BY <1>2, <1>7, <2>1, <2>2, <2>3, UploadMoves
<1> QED
  BY <1>2, <1>4, <1>6, <1>7, WriteEffect

LEMMA ReopenFiles ==
  ASSUME IInv, IInv', Turns, Turns', Files, NEW c \in Client, Reopen(c)
  PROVE Files'
<1> DEFINE s == Mine(c).state
           r == [Mine(c) EXCEPT !.state = Reopened(job[c].op, @)]
<1>1. /\ job[c].pc = "reopen" /\ job[c].pc \notin {"idle", "get", "install", "body"}
      /\ job' = [job EXCEPT ![c] = Idle]
      /\ UNCHANGED <<item, table>> /\ UNCHANGED <<clash, cut>>
  BY ReopenEffect DEF history
<1>2. Uploading(c)
  BY <1>1, AtFacts DEF At, Uploading, Actor
<1>3. /\ c \in Actor /\ c # Worker /\ job[c].rec \in Client /\ Mine(c) \in GoodRecord
      /\ InOrder => /\ UploadStep(job[c], item, Mine(c), table)
                    /\ requested[P] = covered[P] /\ current = "none"
                    /\ job[c].rec = item
  BY <1>1, <1>2, UploadAt
<1>4. ASSUME InOrder'
      PROVE /\ requested'[P] # covered'[P] /\ current' = "none" /\ item' \in Client
            /\ heap'[item'].files = table'.files
            /\ Whole(heap'[item']) /\ Whole(table')
            /\ heap'[item'].state = "PARSING" /\ Within(heap'[item'])
            /\ job'[Worker].pc = "idle"
  <2>1. InOrder
    BY <1>1, <1>4 DEF InOrder
  <2>2. /\ s # "FINALIZED" /\ (job[c].op = "create" => s = "PARSING")
        /\ Within(Mine(c)) /\ Mine(c).files = table.files
        /\ Whole(Mine(c)) /\ Whole(table)
    BY <1>1, <1>3, <2>1 DEF UploadStep
  <2>3. /\ Alters(c, r) /\ requested' = [requested EXCEPT ![P] = @ + 1]
        /\ UNCHANGED <<covered, current, upTo>>
    BY <2>2, ReopenEffect
  <2>4. requested'[P] # covered'[P]
    BY <1>3, <2>1, <2>3 DEF IInv, RunsOK
  <2>5. Reopened(job[c].op, s) = "PARSING"
    <3>1. s \in {"PENDING", "PARSING", "READY", "VERIFYING", "COMPLETED"}
      BY <1>3, <2>2 DEF GoodRecord, ProcessState
    <3>2. job[c].op \in {"create", "upload"}
      BY <1>2 DEF Uploading
    <3> QED
      BY <2>2, <3>1, <3>2 DEF Reopened, ProcessTransitions
  <2>6. /\ r.files = Mine(c).files /\ r.blobs = Mine(c).blobs
        /\ r.attempts = Mine(c).attempts /\ r.state = "PARSING"
    BY <1>3, <2>5 DEF GoodRecord
  <2> HIDE DEF r
  <2>7. heap'[item'] = r /\ item' \in Client
    BY <1>1, <1>3, <2>1, <2>3 DEF Alters
  <2>8. job'[Worker].pc = "idle"
    BY <1>1, <1>3, <2>1 DEF Turns, RunTurns, IInv, Types, Actor
  <2> QED
    BY <1>1, <1>3, <2>1, <2>2, <2>3, <2>4, <2>6, <2>7, <2>8 DEF Whole, Within
<1> QED
  BY <1>4, RunShows

-----------------------------------------------------------------------------
(* The second layer: the run.                                              *)

\* A step of the run to pc, that makes its record r.
LEMMA RunMoves ==
  ASSUME IInv, IInv', Turns, Turns', Files, NEW pc, NEW r, Goes(Worker, pc),
         job[Worker].pc # "idle", pc # "idle", Alters(Worker, r),
         r.files = Mine(Worker).files, r.blobs = Mine(Worker).blobs,
         InOrder => /\ table'.files = table.files /\ table'.blobs = table.blobs
                    /\ RunStep(job'[Worker], item, r, table')
  PROVE Files'
<1>1. /\ InOrder' => InOrder
      /\ UNCHANGED item /\ UNCHANGED runVars /\ job'[Worker].pc = pc
  BY DEF Goes, InOrder, history
<1>2. InOrder' =>
        /\ requested'[P] # covered'[P]
        /\ current' # "none" => job'[Worker].pc # "idle" /\ upTo' = requested'[P]
        /\ item' \in Client /\ heap'[item'] = r /\ r.files = table'.files
        /\ Whole(r) /\ Whole(table')
        /\ RunStep(job'[Worker], item', heap'[item'], table')
  BY <1>1, RunKnows DEF runVars, Alters, Mine, Whole
<1> QED
  BY <1>1, <1>2, RunShows

\* Such a step that leaves the records alone.
LEMMA RunLooks ==
  ASSUME IInv, IInv', Turns, Turns', Files, NEW pc, Goes(Worker, pc),
         job[Worker].pc # "idle", pc # "idle", UNCHANGED heap,
         InOrder => /\ table'.files = table.files /\ table'.blobs = table.blobs
                    /\ RunStep(job'[Worker], item, Mine(Worker), table')
  PROVE Files'
<1>1. Alters(Worker, Mine(Worker))
  BY DEF Alters, Mine
<1> QED
  BY <1>1, RunMoves

\* What the run can rely on at a step that has a record.
LEMMA RunAt ==
  ASSUME IInv, Turns, job[Worker].pc \notin {"idle", "get", "install", "body"}
  PROVE /\ job[Worker].rec \in Client /\ Mine(Worker) \in GoodRecord
        /\ job[Worker].op = "run" /\ At(job[Worker])
        /\ InOrder /\ Files => /\ RunStep(job[Worker], item, Mine(Worker), table)
                               /\ Mine(Worker).files = table.files
                               /\ Whole(Mine(Worker)) /\ table \in GoodRecord
                               /\ job[Worker].rec = item /\ table # NoRecord
                               /\ requested[P] # covered[P] /\ upTo = requested[P]
                               /\ current = P
<1>1. Worker \in Actor
  BY DEF Actor
<1>2. At(job[Worker]) /\ job[Worker].rec \in Client /\ Mine(Worker) \in GoodRecord
  BY <1>1, AtFacts, AtWork
<1>3. job[Worker].op \in Ops
  BY <1>1, <1>2 DEF At, IInv, Types, GoodJob, Steps, Ops
<1> QED
  BY <1>1, <1>2, <1>3, RunKnows, GoodIsRecord DEF Turns, OpTurns, Mine

LEMMA RunComputeFiles ==
  ASSUME IInv, IInv', Turns, Turns', Files,
         Compute(Worker) \/ Sign(Worker) \/ Save(Worker)
  PROVE Files'
<1>1. /\ job[Worker].pc \in {"compute", "sign", "save"} /\ Worker \in Actor
      /\ job[Worker].pc \notin {"idle", "get", "install", "body"}
  BY DEF Compute, Sign, Save, Actor
<1>2. /\ Mine(Worker) \in GoodRecord
      /\ InOrder => /\ RunStep(job[Worker], item, Mine(Worker), table)
                    /\ Whole(Mine(Worker)) /\ table \in GoodRecord
  BY <1>1, RunAt
<1>3. CASE Compute(Worker)
  <2>1. /\ Goes(Worker, "sign") /\ job'[Worker].rec = job[Worker].rec
        /\ UNCHANGED <<heap, table>>
        /\ job'[Worker].held.files = job[Worker].held.files \cap Mine(Worker).blobs
    BY <1>1, <1>3, ComputeEffect DEF data
  <2>2. InOrder => RunStep(job'[Worker], item, Mine(Worker), table')
    BY <1>2, <1>3, <2>1 DEF RunStep, Goes, Compute, Whole
  <2> QED
    BY <1>1, <2>1, <2>2, RunLooks
<1>4. CASE Sign(Worker)
  <2> DEFINE r == [Mine(Worker) EXCEPT
                     !.findings[job'[Worker].arg] = job'[Worker].cards[job'[Worker].arg]]
  <2>1. /\ Goes(Worker, "save") /\ job'[Worker].rec = job[Worker].rec
        /\ job'[Worker].held = job[Worker].held /\ UNCHANGED table
        /\ Alters(Worker, r)
    BY <1>1, <1>4, SignEffect
  <2>2. /\ r.files = Mine(Worker).files /\ r.blobs = Mine(Worker).blobs
        /\ r.state = Mine(Worker).state /\ r.attempts = Mine(Worker).attempts
    BY <1>2 DEF GoodRecord
  <2> HIDE DEF r
  <2>3. InOrder => RunStep(job'[Worker], item, r, table')
    BY <1>2, <1>4, <2>1, <2>2 DEF RunStep, Goes, Sign, Within
  <2> QED
    BY <1>1, <2>1, <2>2, <2>3, RunMoves
<1>5. CASE Save(Worker)
  <2>1. /\ Goes(Worker, "sign") \/ Goes(Worker, "regroup")
        /\ job'[Worker].rec = job[Worker].rec /\ job'[Worker].held = job[Worker].held
        /\ table' = [table EXCEPT !.findings[job[Worker].arg] =
                                    job[Worker].cards[job[Worker].arg]]
        /\ UNCHANGED heap
    BY <1>1, <1>5, SaveEffect
  <2>2. InOrder => table'.files = table.files /\ table'.blobs = table.blobs
    BY <1>2, <2>1 DEF GoodRecord
  <2>3. InOrder => RunStep(job'[Worker], item, Mine(Worker), table')
    BY <1>2, <1>5, <2>1 DEF RunStep, Goes, Save
  <2> QED
    BY <1>1, <2>1, <2>2, <2>3, RunLooks
<1> QED
  BY <1>3, <1>4, <1>5

LEMMA RunRegroupFiles ==
  ASSUME IInv, IInv', Turns, Turns', Files,
         Regroup(Worker) \/ SaveGroups(Worker) \/ Settle(Worker)
  PROVE Files'
<1>1. /\ job[Worker].pc \in {"regroup", "groups", "settle"} /\ Worker \in Actor
      /\ job[Worker].pc \notin {"idle", "get", "install", "body"}
  BY DEF Regroup, SaveGroups, Settle, Actor
<1>2. /\ Mine(Worker) \in GoodRecord
      /\ InOrder => /\ RunStep(job[Worker], item, Mine(Worker), table)
                    /\ Mine(Worker).files = table.files /\ table \in GoodRecord
  BY <1>1, RunAt
<1>3. CASE Regroup(Worker)
  <2> DEFINE r == [Mine(Worker) EXCEPT !.groups = job[Worker].held.files]
  <2>1. /\ Goes(Worker, "write") /\ job'[Worker].rec = job[Worker].rec
        /\ job'[Worker].next = "groups" /\ job'[Worker].held = Row(Fresh, r)
        /\ Alters(Worker, r) /\ UNCHANGED table
    BY <1>1, <1>3, RegroupEffect
  <2>2. /\ r.files = Mine(Worker).files /\ r.blobs = Mine(Worker).blobs
        /\ r.state = Mine(Worker).state /\ r.attempts = Mine(Worker).attempts
        /\ r.groups = job[Worker].held.files
    BY <1>2 DEF GoodRecord
  <2> HIDE DEF r
  <2>3. InOrder => RunStep(job'[Worker], item, r, table')
    BY <1>2, <1>3, <2>1, <2>2 DEF RunStep, Goes, Regroup, Within
  <2> QED
    BY <1>1, <2>1, <2>2, <2>3, RunMoves
<1>4. CASE SaveGroups(Worker)
  <2> DEFINE r == [Mine(Worker) EXCEPT !.attempts = @ + 1]
  <2>1. /\ Goes(Worker, "settle") /\ job'[Worker].rec = job[Worker].rec
        /\ Alters(Worker, [Mine(Worker) EXCEPT
                             !.attempts = IF Worker = Worker THEN @ + 1 ELSE @])
        /\ table' = [table EXCEPT !.groups = Mine(Worker).groups]
    BY <1>1, <1>4, SaveGroupsEffect
  <2>2. /\ r.files = Mine(Worker).files /\ r.blobs = Mine(Worker).blobs
        /\ r.state = Mine(Worker).state /\ r.groups = Mine(Worker).groups
        /\ Alters(Worker, r)
    BY <1>2, <2>1 DEF GoodRecord
  <2>3. InOrder => /\ table'.files = table.files /\ table'.blobs = table.blobs
                   /\ table'.groups = Mine(Worker).groups /\ table'.state = table.state
    BY <1>2, <2>1 DEF GoodRecord
  <2> HIDE DEF r
  <2>4. InOrder => RunStep(job'[Worker], item, r, table')
    BY <1>2, <1>4, <2>1, <2>2, <2>3 DEF RunStep, Goes, SaveGroups
  <2> QED
    BY <1>1, <2>1, <2>2, <2>3, <2>4, RunMoves
<1>5. CASE Settle(Worker)
  <2> DEFINE s == IF Worker = Worker /\ Mine(Worker).state = "PARSING"
                    THEN "READY" ELSE Mine(Worker).state
             r == [Mine(Worker) EXCEPT !.state = s]
  <2>1. /\ Goes(Worker, "write") /\ job'[Worker].rec = job[Worker].rec
        /\ job'[Worker].next = "idle" /\ job'[Worker].held = Row(Fresh, r)
        /\ Alters(Worker, r) /\ UNCHANGED table
    BY <1>1, <1>5, SettleEffect
  <2>2. /\ r.files = Mine(Worker).files /\ r.blobs = Mine(Worker).blobs
        /\ r.state = s /\ r.groups = Mine(Worker).groups
    BY <1>2 DEF GoodRecord
  <2> HIDE DEF r
  <2>3. InOrder => RunStep(job'[Worker], item, r, table')
    BY <1>2, <1>5, <2>1, <2>2 DEF RunStep, Goes, Settle
  <2> QED
    BY <1>1, <2>1, <2>2, <2>3, RunMoves
<1> QED
  BY <1>3, <1>4, <1>5

\* The run writes its row: after the comparison, and at its end.
LEMMA RunWriteFiles ==
  ASSUME IInv, IInv', Turns, Turns', Files, Write(Worker)
  PROVE Files'
<1> DEFINE h == job[Worker].held
           r == Mine(Worker)
           n == job[Worker].next
<1>1. /\ job[Worker].pc = "write" /\ Worker \in Actor
      /\ job[Worker].pc \notin {"idle", "get", "install", "body"}
  BY DEF Write, Actor
<1>2. /\ r \in GoodRecord /\ n \in {"groups", "idle"}
      /\ InOrder => /\ RunStep(job[Worker], item, r, table)
                    /\ r.files = table.files /\ Whole(r)
                    /\ table \in GoodRecord /\ table # NoRecord
                    /\ job[Worker].rec = item /\ upTo = requested[P]
                    /\ requested[P] # covered[P] /\ current = P
  BY <1>1, RunAt DEF At
<1>3. /\ InOrder' => InOrder
      /\ UNCHANGED <<heap, item>>
  BY <1>1, WriteEffect DEF InOrder, history
<1>4. InOrder => /\ h.files = r.files /\ h.state = r.state /\ h.attempts = r.attempts
                 /\ r.state # "FINALIZED" /\ r.groups = r.files
  BY <1>1, <1>2 DEF RunStep, Row, Fresh
<1>5. ASSUME InOrder', Return(Worker)
      PROVE /\ \A c \in Client : ~ InFlight(c)'
            /\ requested'[P] = covered'[P]
  <2>1. \A c \in Client : job'[c] = job[c] /\ ~ InFlight(c)
    BY <1>1, <1>3, <1>5, RunKnows, Actors DEF Return, IInv, Types, Actor
  <2>2. requested' = requested /\ covered' = [covered EXCEPT ![P] = upTo]
    BY <1>2, <1>3, <1>5 DEF Return, Runs!End
  <2> QED
    BY <1>2, <1>3, <1>5, <2>1, <2>2 DEF InFlight, IInv, RunsOK
<1>6. CASE /\ ~ (h.state # "FINALIZED" /\ Within(h)) /\ Return(Worker)
           /\ UNCHANGED table
  <2>1. ASSUME InOrder' PROVE ~ Within(r) /\ Compared(table) /\ Whole(table)
    <3>1. ~ Within(r)
      BY <1>3, <1>4, <1>6, <2>1 DEF Within
    <3>2. n = "idle" /\ table.state = "PARSING"
      BY <1>1, <1>2, <1>3, <2>1, <3>1 DEF RunStep
    <3> QED
      BY <1>1, <1>3, <2>1, <3>1, <3>2, RunKnows DEF Compared
  <2>2. InOrder' => Settled(heap'[item'], table')
    BY <1>2, <1>3, <2>1 DEF Settled, Mine
  <2> QED
    BY <1>5, <1>6, <2>1, <2>2, RestShows
<1>7. ASSUME InOrder, table' = Row(IF table = NoRecord THEN Fresh ELSE table, h)
      PROVE /\ table'.files = r.files /\ table'.state = r.state
            /\ table'.blobs = table.blobs /\ table'.groups = table.groups
            /\ table'.attempts = r.attempts /\ Whole(table)
  <2>1. table' = Row(table, h)
    BY <1>2, <1>7
  <2> QED
    BY <1>1, <1>2, <1>4, <1>7, <2>1, RunKnows DEF Row, GoodRecord
<1>8. CASE /\ Within(h)
           /\ table' = Row(IF table = NoRecord THEN Fresh ELSE table, h)
           /\ n = "idle" /\ Return(Worker)
  <2>1. ASSUME InOrder'
        PROVE Whole(table') /\ Compared(table') /\ Settled(heap'[item'], table')
    <3>1. table.groups = table.files
      BY <1>1, <1>2, <1>3, <1>8, <2>1 DEF RunStep
    <3> QED
      BY <1>2, <1>3, <1>4, <1>7, <1>8, <2>1, <3>1 DEF Whole, Compared, Settled, Mine
  <2> QED
    BY <1>5, <1>8, <2>1, RestShows
<1>9. CASE /\ Within(h)
           /\ table' = Row(IF table = NoRecord THEN Fresh ELSE table, h)
           /\ n # "idle" /\ Goes(Worker, n) /\ job'[Worker].rec = job[Worker].rec
  <2>1. n = "groups"
    BY <1>2, <1>9
  <2>2. Goes(Worker, "groups")
    BY <1>9, <2>1
  <2>3. ASSUME InOrder
        PROVE /\ table'.files = table.files /\ table'.blobs = table.blobs
              /\ RunStep(job'[Worker], item, r, table')
    <3>1. r.state = "PARSING"
      BY <1>1, <1>2, <2>1, <2>3 DEF RunStep
    <3> QED
      BY <1>1, <1>2, <1>4, <1>7, <1>9, <2>2, <2>3, <3>1 DEF RunStep, Goes, Within
  <2> QED
    BY <1>1, <1>3, <1>9, <2>2, <2>3, RunLooks
<1> QED
  BY <1>1, <1>6, <1>8, <1>9, WriteEffect

LEMMA BeginFiles == IInv /\ IInv' /\ Turns /\ Turns' /\ Files /\ Begin => Files'
<1> SUFFICES ASSUME IInv, IInv', Turns, Turns', Files, Begin PROVE Files'
  OBVIOUS
<1>1. /\ current = "none" /\ covered[P] < requested[P]
      /\ upTo' = requested[P] /\ UNCHANGED <<requested, covered>>
      /\ UNCHANGED <<heap, item, table>> /\ UNCHANGED <<clash, cut>>
      /\ \/ /\ job'[Worker].pc = "compute" /\ job'[Worker].rec = item
            /\ job'[Worker].held = Input(heap[item])
         \/ ~ (item # NoOne /\ heap[item].state = "PARSING")
  BY BeginEffect DEF data, history
<1>2. covered[P] # requested[P] /\ job[Worker].pc = "idle"
  BY <1>1 DEF IInv, RunsOK, Turns, RunTurns
<1>3. ASSUME InOrder'
      PROVE /\ item \in Client /\ item # NoOne /\ heap[item].files = table.files
            /\ Whole(heap[item]) /\ Whole(table)
            /\ heap[item].state = "PARSING" /\ Within(heap[item])
    BY <1>1, <1>2, <1>3, Actors DEF Files, InOrder, RunFiles, Actor
<1>4. Input(heap[item]).files = heap[item].files
  BY DEF Input, Fresh
<1>5. InOrder' => RunStep(job'[Worker], item', heap'[item'], table')
  BY <1>1, <1>3, <1>4 DEF RunStep
<1>6. InOrder' => job'[Worker].pc = "compute"
  BY <1>1, <1>3
<1> QED
  BY <1>1, <1>2, <1>3, <1>5, <1>6, RunShows

LEMMA SkipFiles == IInv /\ IInv' /\ Turns /\ Files /\ Skip => Files'
<1> SUFFICES ASSUME IInv, Turns, Files, Skip PROVE Files'
  OBVIOUS
<1>1. ~ InOrder
  BY DEF Files, RunFiles, Skip, Turns, RunTurns, IInv, RunsOK
<1> QED
  BY <1>1 DEF Files, InOrder, Skip, history

LEMMA FaultFiles ==
  ASSUME NEW a \in Actor, Fault(a)
  PROVE Files'
BY DEF Files, InOrder, Fault

LEMMA RestartFiles ==
  IInv /\ IInv' /\ Turns /\ Turns' /\ Files /\ Restart => Files'
<1> SUFFICES ASSUME IInv, IInv', Turns, Turns', Files, Restart PROVE Files'
  OBVIOUS
<1>1. /\ item' = NoOne /\ table' = table /\ NoOne \notin Client /\ clash' = clash
      /\ requested'[P] = covered'[P] /\ \A c \in Client : ~ InFlight(c)'
  BY Actors DEF Restart, InFlight, Idle, Actor
<1>2. ASSUME InOrder', table # NoRecord PROVE Whole(table) /\ Compared(table)
  <2>1. InOrder /\ Quiet
    BY <1>1, <1>2 DEF InOrder, Restart, IInv, HistoryOK
  <2>2. Calm
    BY <2>1 DEF Quiet, Calm, Changing, Uploading, Turns, OpTurns, Actor
  <2> QED
    BY <1>2, <2>1, <2>2 DEF Files, RestFiles
<1> QED
  BY <1>1, <1>2, RestShows

LEMMA HandlerFiles ==
  ASSUME IInv, IInv', Turns, Turns', Files, NEW c \in Client, Handler(c)
  PROVE Files'
<1>1. CASE Get(c) \/ Install(c) \/ Reject(c) \/ Create(c)
  BY <1>1, GetFiles, InstallFiles, RejectFiles, CreateFiles
<1>2. CASE (\E f \in File : Attach(c, f)) \/ KeepBlob(c) \/ Reopen(c)
  BY <1>2, AttachFiles, KeepBlobFiles, ReopenFiles
<1>3. CASE Review(c) \/ Confirm(c) \/ Open(c) \/ Check(c)
  BY <1>3, DecideFiles
<1>4. CASE Assign(c) \/ Assemble(c) \/ Materialize(c)
  BY <1>4, AssignFiles, AssembleFiles, MaterializeFiles
<1>5. CASE Select(c) \/ Audited(c) \/ Replace(c) \/ Clear(c)
  BY <1>5, SelectFiles, SelectionFiles
<1> QED
  BY <1>1, <1>2, <1>3, <1>4, <1>5 DEF Handler

LEMMA ThreadFiles ==
  ASSUME IInv, IInv', Turns, Turns', Files, NEW a \in Actor, Thread(a)
  PROVE Files'
<1>1. CASE a = Worker
  BY <1>1, RunComputeFiles, RunRegroupFiles, RunWriteFiles DEF Thread
<1>2. CASE a \in Client /\ ~ Uploading(a)
  BY <1>2, InspectorSignSave, InspectorRegroup, InspectorWrite DEF Thread
<1>3. CASE a \in Client /\ Uploading(a)
  <2>1. At(job[a])
    BY <1>3, AtFacts
  <2>2. Write(a)
    BY <1>3, <2>1 DEF Thread, At, Uploading, Sign, Save, Compute, Regroup, SaveGroups,
       Settle
  <2> QED
    BY <1>3, <2>2, UploadWrite
<1> QED
  BY <1>1, <1>2, <1>3 DEF Actor

LEMMA NextFiles ==
  IInv /\ IInv' /\ Turns /\ Turns' /\ Files /\ [Next]_vars => Files'
<1> SUFFICES ASSUME IInv, IInv', Turns, Turns', Files, [Next]_vars PROVE Files'
  OBVIOUS
<1>1. CASE \E c \in Client : Handler(c) \/ \E op \in Ops \ {"run"} : Arrive(c, op)
  BY <1>1, HandlerFiles, ArriveFiles
<1>2. CASE \E a \in Actor : Thread(a) \/ Fault(a)
  BY <1>2, ThreadFiles, FaultFiles
<1>3. CASE Begin
  BY <1>3, BeginFiles
<1>4. CASE Skip \/ Restart
  BY <1>4, SkipFiles, RestartFiles
<1>5. CASE UNCHANGED vars
  BY <1>5, QuietFiles DEF vars, history
<1> QED
  BY <1>1, <1>2, <1>3, <1>4, <1>5 DEF Next

\* A process in memory has its row, unless an upload is just making it.
Made == InOrder /\ item \in Client /\ table = NoRecord =>
          \E c \in Client : Changing(c)

LEMMA NextMade ==
  IInv /\ IInv' /\ Turns /\ Turns' /\ Files /\ Made /\ [Next]_vars => Made'
<1> SUFFICES ASSUME IInv, IInv', Turns, Turns', Files, Made, [Next]_vars,
                    InOrder', item' \in Client, table' = NoRecord
             PROVE \E c \in Client : Changing(c)'
  BY DEF Made
<1>1. \A a \in Actor : job'[a].pc = "idle" \/ Making(job'[a])
  <2> SUFFICES ASSUME NEW a \in Actor PROVE job'[a].pc = "idle" \/ Making(job'[a])
    OBVIOUS
  <2>1. KnowsOf(a, job'[a], heap', item', table')
    BY DEF IInv, Threads, Knows
  <2> QED
    BY <2>1, GoodIsRecord DEF KnowsOf
<1>2. \A a \in Actor : /\ job[a] \in GoodJob
                       /\ job[a].pc \notin {"idle", "body", "write"} => table \in GoodRecord
                       /\ job[a].pc = "body" /\ job[a].op # "create" => table \in GoodRecord
                       /\ job[a].pc = "write" /\ job[a].next # "attach" => table \in GoodRecord
  <2> SUFFICES ASSUME NEW a \in Actor
               PROVE job[a] \in GoodJob /\ KnowsOf(a, job[a], heap, item, table)
    BY DEF KnowsOf, Making
  <2> QED
    BY Mine1
<1>3. NoRecord \notin GoodRecord /\ NoOne \notin Client /\ Client \subseteq Actor
  BY GoodIsRecord, Actors DEF Actor
<1>4. ASSUME NEW a \in Actor, table \in GoodRecord, NEW h \in GoodRecord,
             table' = Row(table, h)
      PROVE FALSE
  BY <1>3, <1>4, RowRecord
<1>5. ASSUME NEW c \in Client, Handler(c) PROVE \E d \in Client : Changing(d)'
  <2>1. c \in Actor
    BY <1>3
  <2>2. CASE Create(c)
    BY <2>2, CreateEffect DEF Changing, Uploading
  <2>3. CASE Materialize(c)
    <3>1. job[c].held \in GoodRecord /\ table \in GoodRecord
      BY <1>2, <2>1, <2>3, Mine1 DEF Materialize, KnowsOf
    <3> QED
      BY <1>3, <1>4, <2>1, <2>3, <3>1, MaterializeEffect
  <2>4. CASE KeepBlob(c) \/ Audited(c) \/ Clear(c)
    <3>1. \/ job'[c].pc \in {"compute", "regroup"}
          \/ job'[c].pc = "write" /\ job'[c].next = "reopen"
      BY <2>4, KeepBlobEffect, AuditedEffect, ClearEffect DEF Goes
    <3> QED
      BY <1>1, <2>1, <3>1 DEF Making
  <2>5. CASE Get(c) \/ Install(c) \/ Reject(c) \/ (\E f \in File : Attach(c, f)) \/ Reopen(c)
    <3>1. table' = table
      BY <2>5 DEF Get, Install, Reject, Attach, Reopen, data
    <3>2. job[c].pc \notin {"idle", "body", "write"} \/ job[c].op # "create"
      BY <2>5 DEF Get, Install, Reject, Attach, Reopen
    <3>3. job[c].pc \notin {"idle", "write"}
      BY <2>5 DEF Get, Install, Reject, Attach, Reopen
    <3> QED
      BY <1>2, <1>3, <2>1, <3>1, <3>2, <3>3
  <2>6. CASE Review(c) \/ Confirm(c) \/ Open(c) \/ Check(c) \/ Assign(c) \/ Assemble(c)
               \/ Select(c) \/ Replace(c)
    <3>1. table' = table
      BY <2>6 DEF Review, Confirm, Decide, Open, Check, Assign, Assemble, Select, Replace,
         data, Persist
    <3>2. job[c].pc \notin {"idle", "body", "write"} \/ job[c].op # "create"
      BY <2>6 DEF Review, Confirm, Open, Check, Assign, Assemble, Select, Replace
    <3>3. job[c].pc \notin {"idle", "write"}
      BY <2>6 DEF Review, Confirm, Open, Check, Assign, Assemble, Select, Replace
    <3> QED
      BY <1>2, <1>3, <2>1, <3>1, <3>2, <3>3
  <2> QED
    BY <1>5, <2>2, <2>3, <2>4, <2>5, <2>6 DEF Handler
<1>6. ASSUME NEW c \in Client, NEW op \in Ops \ {"run"}, Arrive(c, op) PROVE FALSE
  BY <1>3, <1>6 DEF Arrive, data
<1>7. ASSUME NEW a \in Actor, Thread(a) PROVE FALSE
  <2>1. CASE Write(a)
    <3> DEFINE h == job[a].held
    <3>1. h \in GoodRecord /\ job[a].pc = "write"
      BY <2>1, <1>7, Mine1 DEF Write, KnowsOf
    <3>2. (IF table = NoRecord THEN Fresh ELSE table) \in GoodRecord
      BY FreshRecord DEF IInv, Types
    <3>3. table' # Row(IF table = NoRecord THEN Fresh ELSE table, h)
      BY <1>3, <3>1, <3>2, RowRecord
    <3>4. UNCHANGED table /\ ~ (h.state # "FINALIZED" /\ Within(h)) /\ InFlight(a)
            /\ UNCHANGED history
      BY <1>7, <2>1, <3>3, WriteEffect
    <3>5. job[a].next = "attach" /\ job[a].op = "create"
      BY <1>2, <1>3, <1>7, <3>1, <3>4, AtFacts DEF At
    <3>6. a \in Client /\ Uploading(a)
      BY <1>7, <3>5 DEF Turns, OpTurns, Ops, Uploading, Actor
    <3>7. InOrder
      BY <3>4 DEF InOrder, history
    <3>8. h = Row(Fresh, Fresh)
      BY <3>1, <3>4, <3>5, <3>6, <3>7, UploadKnows DEF UploadStep
    <3>9. h.state = "PARSING" /\ h.attempts = 0
      BY <3>8 DEF Row, Fresh
    <3> QED
      BY <3>4, <3>9, Bounds DEF Within
  <2>2. CASE Save(a) \/ SaveGroups(a)
    <3>1. job'[a].pc \in {"sign", "regroup", "open", "settle"}
      BY <1>7, <2>2, SaveEffect, SaveGroupsEffect DEF Goes
    <3> QED
      BY <1>1, <1>7, <3>1 DEF Making
  <2>3. CASE Sign(a) \/ Compute(a) \/ Regroup(a) \/ Settle(a)
    <3>1. table' = table /\ job[a].pc \notin {"idle", "body", "write"}
      BY <2>3 DEF Sign, Compute, Regroup, Settle, data
    <3> QED
      BY <1>2, <1>3, <1>7, <3>1
  <2> QED
    BY <1>7, <2>1, <2>2, <2>3 DEF Thread
<1>8. ASSUME NEW a \in Actor, Fault(a) PROVE FALSE
  BY <1>8 DEF Fault, InOrder
<1>9. CASE Begin \/ Skip \/ UNCHANGED vars
  <2>1. /\ UNCHANGED <<item, table, clash, cut>>
        /\ \A c \in Client : job'[c] = job[c]
    <3>1. CASE Begin
      BY <3>1, BeginEffect, OnlyFacts, Actors DEF data, history, Actor
    <3>2. CASE Skip \/ UNCHANGED vars
      BY <3>2 DEF Skip, vars, data, history
    <3> QED
      BY <1>9, <3>1, <3>2
  <2> QED
    BY <2>1 DEF Made, InOrder, Changing, Uploading
<1>10. CASE Restart
  BY <1>3, <1>10 DEF Restart
<1> QED
  BY <1>5, <1>6, <1>7, <1>8, <1>9, <1>10 DEF Next

-----------------------------------------------------------------------------
(* The third layer: in which fields a record may differ from its row.      *)

Human(f) == f # NoFinding /\ f.status \in HumanOnlyStatuses

\* Record r and row t agree but for the fields in D.  Past the attempts the
\* table accepts, no row is written any more and only the cards agree.
SameBut(r, t, D) ==
  /\ "state" \in D \/ r.state = t.state
  /\ "files" \in D \/ r.files = t.files
  /\ "approved" \in D \/ r.approved = t.approved
  /\ "groups" \in D \/ r.groups = t.groups
  /\ "attempts" \in D \/ r.attempts = t.attempts
  /\ r.blobs = t.blobs

Agrees(r, t, D) ==
  /\ "findings" \in D \/ r.findings = t.findings
  /\ Within(r) => SameBut(r, t, D)
  /\ ~ Within(r) => t.state # "FINALIZED"

\* The protocol p of a finalized process with row t.
Closed(t, p) ==
  /\ p.files = t.files /\ p.files = p.groups
  /\ p.findings = t.findings
  /\ Candidates(p) = {}

\* The fields a request with job j has changed in memory and not yet in the
\* row, or in the row and not yet in memory.
ClientDiffers(j) ==
  CASE j.pc = "write" /\ j.next = "blob" -> {"files"}
    [] j.pc \in {"save", "clear"} -> {"findings"}
    [] j.pc = "audited" -> {"approved"}
    [] j.pc = "groups" \/ (j.pc = "write" /\ j.next = "groups") -> {"groups"}
    [] j.pc \in {"assemble", "materialize"}
         \/ (j.pc = "write" /\ j.next = "idle" /\ j.op # "select") -> {"state"}
    [] OTHER -> {}

\* The run works on a row in PARSING, or in the state before the upload.
RunDiffers(j) ==
  CASE j.pc = "save" -> {"state", "findings"}
    [] j.pc = "write" /\ j.next = "groups" -> {"state", "groups"}
    [] j.pc = "groups" -> {"groups"}
    [] j.pc = "settle" -> {"attempts"}
    [] j.pc = "write" /\ j.next = "idle" -> {"attempts", "state"}
    [] OTHER -> {"state"}

ClientStep(j, i, r, t) ==
  /\ j.pc # "install" => j.rec = i
  /\ Agrees(r, t, ClientDiffers(j))
  /\ j.pc \in {"sign", "save"} => \A k \in DOMAIN j.cards : ~ Human(t.findings[k])
  /\ j.pc = "save" => r.findings = [t.findings EXCEPT ![j.arg] = j.cards[j.arg]]
  /\ j.pc \in {"audited", "compute", "replace", "clear"} =>
       \A k \in Key : ~ Human(t.findings[k])
  /\ j.pc = "clear" => r.findings = j.cards
  /\ j.pc = "audited" /\ Within(r) => r.approved = t.approved \cup {j.arg}
  /\ j.pc = "assign" => r.state = Source(j.op)
  /\ j.pc \in {"assemble", "materialize"} => r.state = "FINALIZED"
  /\ "state" \in ClientDiffers(j) /\ Within(r) => t.state = Source(j.op)
  /\ j.pc \in {"assign", "assemble", "materialize"} /\ j.op = "finalize" =>
       Candidates(r) = {}
  /\ j.pc = "materialize" => j.held = r
  /\ j.pc = "write" => j.held = Row(Fresh, r)
  /\ j.pc \notin {"install", "body", "assign", "assemble", "materialize"} =>
       r.state # "FINALIZED"

\* What a run may put in the place of card f.
Keeping(f, g) ==
  Human(f) /\ g # f =>
    g.status \in Machine /\ (g.value # f.value \/ g.status # "CANDIDATE")

RunAgrees(j, r, t) ==
  /\ Agrees(r, t, RunDiffers(j))
  /\ t.state # "FINALIZED"
  /\ j.pc = "sign" => \A k \in DOMAIN j.cards : j.cards[k].status \in Machine
  /\ j.pc = "save" =>
       /\ \A k \in DOMAIN j.cards \ {j.arg} : j.cards[k].status \in Machine
       /\ r.findings = [t.findings EXCEPT ![j.arg] = j.cards[j.arg]]
       /\ Keeping(t.findings[j.arg], j.cards[j.arg])
  /\ j.pc = "settle" \/ (j.pc = "write" /\ j.next = "idle") =>
       r.attempts = t.attempts + 1

TableAgrees ==
  table # NoRecord =>
    /\ table.blobs \subseteq table.files
    /\ table.state = "FINALIZED" =>
         requested[P] = covered[P] /\ Closed(table, protocol)

RestAgrees ==
  requested[P] = covered[P] /\ item \in Client /\ table # NoRecord
    /\ (\A c \in Client : ~ InFlight(c))
    => Agrees(heap[item], table, {})

ClientsAgree ==
  \A c \in Client : InFlight(c) /\ ~ Making(job[c]) =>
    ClientStep(job[c], item, heap[job[c].rec], table)

RunsAgree ==
  requested[P] # covered[P] =>
    IF job[Worker].pc = "idle" THEN Agrees(heap[item], table, {"state"})
                               ELSE RunAgrees(job[Worker], heap[item], table)

\* No requests have overlapped, and nothing stopped half-way.
InLine == clash = "none" /\ ~ cut

Agree == InLine => TableAgrees /\ RestAgrees /\ ClientsAgree /\ RunsAgree

-----------------------------------------------------------------------------
(* The third layer: what a step has to show and what it can rely on.       *)

LEMMA LineOrder == (InLine => InOrder) /\ (InLine' => InOrder')
BY DEF InLine, InOrder

LEMMA RestAgreeShows ==
  ASSUME Turns', InLine' =>
           /\ \A c \in Client : ~ InFlight(c)'
           /\ requested'[P] = covered'[P] /\ TableAgrees'
           /\ item' \in Client /\ table' # NoRecord => Agrees(heap'[item'], table', {})
  PROVE Agree'
BY DEF Agree, RestAgrees, ClientsAgree, RunsAgree

LEMMA ClientShows ==
  ASSUME Turns', NEW c \in Client, InLine' =>
           /\ InFlight(c)' /\ TableAgrees'
           /\ ~ Making(job'[c]) => ClientStep(job'[c], item', heap'[job'[c].rec], table')
  PROVE Agree'
<1> SUFFICES ASSUME InLine'
             PROVE TableAgrees' /\ RestAgrees' /\ ClientsAgree' /\ RunsAgree'
  BY DEF Agree
<1>1. /\ requested'[P] = covered'[P]
      /\ \A d \in Client : InFlight(d)' => d = c
  BY DEF InLine, Turns, UploadTurns, RequestTurns
<1> QED
  BY <1>1 DEF RestAgrees, ClientsAgree, RunsAgree

LEMMA RunShowsAgree ==
  ASSUME Turns', InLine' =>
           /\ requested'[P] # covered'[P] /\ TableAgrees'
           /\ IF job'[Worker].pc = "idle"
                THEN Agrees(heap'[item'], table', {"state"})
                ELSE RunAgrees(job'[Worker], heap'[item'], table')
  PROVE Agree'
<1> SUFFICES ASSUME InLine'
             PROVE TableAgrees' /\ RestAgrees' /\ ClientsAgree' /\ RunsAgree'
  BY DEF Agree
<1>1. \A d \in Client : ~ InFlight(d)'
  BY DEF InLine, Turns, UploadTurns
<1> QED
  BY <1>1 DEF RestAgrees, ClientsAgree, RunsAgree

LEMMA ClientKnows ==
  ASSUME IInv, Turns, Agree, InLine, NEW c \in Client, InFlight(c)
  PROVE /\ requested[P] = covered[P]
        /\ \A d \in Client \ {c} : ~ InFlight(d)
        /\ TableAgrees
        /\ ~ Making(job[c]) => /\ ClientStep(job[c], item, heap[job[c].rec], table)
                               /\ table \in GoodRecord /\ table # NoRecord
<1>1. /\ requested[P] = covered[P]
      /\ \A d \in Client \ {c} : ~ InFlight(d)
  BY DEF InLine, Turns, UploadTurns, RequestTurns
<1>2. ~ Making(job[c]) => table \in GoodRecord
  <2>1. c \in Actor
    BY DEF Actor
  <2> QED
    BY <2>1, Mine1 DEF KnowsOf, InFlight
<1> QED
  BY <1>1, <1>2, GoodIsRecord DEF Agree, ClientsAgree

LEMMA RestKnows ==
  ASSUME IInv, Turns, Agree, InLine, requested[P] = covered[P],
         \A c \in Client : ~ InFlight(c)
  PROVE /\ TableAgrees
        /\ item \in Client /\ table # NoRecord => Agrees(heap[item], table, {})
BY DEF Agree, RestAgrees

\* A record that agrees with a row not finalized is not finalized.
LEMMA NotFinal ==
  ASSUME NEW r, NEW t, NEW D, Agrees(r, t, D), "state" \notin D, r.state # "FINALIZED"
  PROVE t.state # "FINALIZED"
BY DEF Agrees, SameBut

\* The row changes and is not finalized, or not in what the protocol shows.
LEMMA TableShows ==
  ASSUME table' # NoRecord => /\ table'.blobs \subseteq table'.files
                              /\ table'.state # "FINALIZED"
  PROVE TableAgrees'
BY DEF TableAgrees

LEMMA TableStays ==
  ASSUME TableAgrees, UNCHANGED <<table, protocol>>, UNCHANGED runVars
  PROVE TableAgrees'
BY DEF TableAgrees, runVars

-----------------------------------------------------------------------------
(* The third layer: how requests begin.                                    *)

LEMMA InitAgree == Init => Agree
<1> SUFFICES ASSUME Init PROVE Agree
  OBVIOUS
<1>1. \A c \in Client : ~ InFlight(c)
  BY DEF Init, InFlight, Idle, Actor
<1>2. requested[P] = covered[P] /\ table = NoRecord
  BY DEF Init, Runs!Init
<1> QED
  BY <1>1, <1>2 DEF Agree, TableAgrees, RestAgrees, ClientsAgree, RunsAgree

LEMMA QuietAgree ==
  ASSUME Agree, UNCHANGED data, UNCHANGED runVars, UNCHANGED <<clash, cut>>,
         job'[Worker] = job[Worker],
         \A c \in Client : InFlight(c) \/ InFlight(c)' => job'[c] = job[c]
  PROVE Agree'
<1>1. \A c \in Client : InFlight(c)' <=> InFlight(c)
  BY DEF InFlight
<1>2. TableAgrees => TableAgrees'
  BY DEF TableAgrees, data, runVars
<1>3. RestAgrees => RestAgrees'
  BY <1>1 DEF RestAgrees, data, runVars
<1>4. ClientsAgree => ClientsAgree'
  BY <1>1 DEF ClientsAgree, data
<1>5. RunsAgree => RunsAgree'
  BY DEF RunsAgree, data, runVars
<1> QED
  BY <1>2, <1>3, <1>4, <1>5 DEF Agree, InLine

LEMMA ArriveAgree ==
  ASSUME IInv, Turns', Agree, NEW c \in Client, NEW op \in Ops \ {"run"}, Arrive(c, op)
  PROVE Agree'
<1>1. /\ job[c].pc = "idle" /\ Only(c) /\ job'[c].op = op
      /\ job'[c].pc = IF op = "create" THEN "body" ELSE "get"
      /\ UNCHANGED data /\ UNCHANGED runVars /\ UNCHANGED <<clash, cut>>
      /\ op = "create" => table = NoRecord
  BY ArriveEffect
<1>2. CASE op = "create"
  <2>1. InFlight(c)' /\ Making(job'[c]) /\ TableAgrees'
    BY <1>1, <1>2 DEF InFlight, Making, TableAgrees, data
  <2> QED
    BY <2>1, ClientShows
<1>3. CASE op # "create"
  <2>1. job'[Worker] = job[Worker] /\ \A d \in Client \ {c} : job'[d] = job[d]
    BY <1>1, OnlyFacts, Actors DEF Actor
  <2>2. ~ InFlight(c) /\ ~ InFlight(c)'
    BY <1>1, <1>3 DEF InFlight
  <2> QED
    BY <1>1, <2>1, <2>2, QuietAgree
<1> QED
  BY <1>2, <1>3

\* A record as get loads it agrees with its row.
LEMMA LoadedAgrees ==
  ASSUME table \in GoodRecord, TableAgrees, IInv, NEW r,
         r = [table EXCEPT !.blobs = @ \cap table.files]
  PROVE Agrees(r, table, {})
<1>1. /\ r.files = table.files /\ r.blobs = table.blobs \cap table.files
      /\ r.groups = table.groups /\ r.state = table.state
      /\ r.findings = table.findings /\ r.approved = table.approved
      /\ r.attempts = table.attempts
  BY DEF GoodRecord
<1>2. table # NoRecord
  BY GoodIsRecord
<1>3. r.blobs = table.blobs
  BY <1>1, <1>2 DEF TableAgrees
<1>4. Within(r)
  BY <1>1, <1>2 DEF Within, IInv, Types
<1> QED
  BY <1>1, <1>3, <1>4 DEF Agrees, SameBut

LEMMA GetAgree ==
  ASSUME IInv, IInv', Turns, Turns', Agree, NEW c \in Client, Get(c)
  PROVE Agree'
<1>1. /\ job[c].pc = "get" /\ covered = requested /\ c \in Actor
      /\ UNCHANGED <<item, table, protocol, cut>> /\ UNCHANGED runVars
      /\ \A d \in Client \ {c} : job'[d] = job[d]
  <2>1. Only(c) \/ job' = [job EXCEPT ![c] = Idle]
    BY GetEffect
  <2> QED
    BY <2>1, GetEffect, OtherJobs DEF Actor, IInv, Types
<1>2. table \in GoodRecord /\ table # NoRecord /\ job[c].op # "create"
  BY <1>1, Mine1, GoodIsRecord DEF KnowsOf, Making, Turns, CreateTurns
<1>3. ~ InFlight(c)
  BY <1>1 DEF InFlight
<1>4. ASSUME InLine'
      PROVE /\ InLine /\ \A d \in Client : ~ InFlight(d)
            /\ requested[P] = covered[P] /\ TableAgrees /\ TableAgrees'
            /\ item \in Client => Agrees(heap[item], table, {})
  <2>1. InLine /\ \A d \in Client : ~ InFlight(d)
    BY <1>1, <1>3, <1>4, GetClash DEF InLine
  <2> QED
    BY <1>1, <1>2, <2>1, RestKnows, TableStays
<1>5. CASE /\ item # NoOne /\ UNCHANGED heap /\ job'[c].pc = "body"
           /\ job'[c].rec = item /\ job'[c].op = job[c].op
  <2>1. InFlight(c)' /\ item \in Client /\ ClientDiffers(job'[c]) = {}
    BY <1>5 DEF InFlight, IInv, Types, ClientDiffers
  <2>2. InLine' => ClientStep(job'[c], item', heap'[job'[c].rec], table')
    BY <1>1, <1>4, <1>5, <2>1 DEF ClientStep
  <2> QED
    BY <1>4, <2>1, <2>2, ClientShows
<1>6. CASE /\ item = NoOne /\ UNCHANGED heap /\ job[c].op = "review"
           /\ job' = [job EXCEPT ![c] = Idle]
  <2>1. ~ InFlight(c)' /\ item \notin Client
    BY <1>1, <1>6, Actors DEF InFlight, Idle, IInv, Types, Actor
  <2>2. \A d \in Client : InFlight(d)' => InFlight(d)
    BY <1>1, <2>1 DEF InFlight
  <2> QED
    BY <1>1, <1>4, <2>1, <2>2, RestAgreeShows DEF runVars
<1>7. CASE /\ item = NoOne /\ job'[c].pc = "install"
           /\ job'[c].rec = c /\ job'[c].op = job[c].op
           /\ heap'[c] = [table EXCEPT !.blobs = @ \cap table.files]
  <2>1. InFlight(c)' /\ ClientDiffers(job'[c]) = {}
    BY <1>7 DEF InFlight, ClientDiffers
  <2>2. InLine' => Agrees(heap'[c], table', {})
    BY <1>1, <1>2, <1>4, <1>7, LoadedAgrees
  <2>3. InLine' => ClientStep(job'[c], item', heap'[job'[c].rec], table')
    BY <1>7, <2>1, <2>2 DEF ClientStep
  <2> QED
    BY <1>4, <2>1, <2>3, ClientShows
<1> QED
  BY <1>5, <1>6, <1>7, GetEffect

LEMMA InstallAgree ==
  ASSUME IInv, Turns, Turns', Agree, NEW c \in Client, Install(c)
  PROVE Agree'
<1>1. /\ job[c].pc = "install" /\ job[c].rec = c /\ item' = c
      /\ job'[c].pc = "body" /\ job'[c].rec = c /\ job'[c].op = job[c].op
      /\ UNCHANGED <<heap, table, protocol>> /\ UNCHANGED runVars
      /\ UNCHANGED <<clash, cut>>
  BY InstallEffect DEF history
<1>2. InFlight(c) /\ InFlight(c)' /\ ~ Making(job[c])
  BY <1>1 DEF InFlight, Making
<1>3. ClientDiffers(job[c]) = {} /\ ClientDiffers(job'[c]) = {}
  BY <1>1 DEF ClientDiffers
<1>4. InLine' => /\ TableAgrees'
                 /\ ClientStep(job'[c], item', heap'[job'[c].rec], table')
  BY <1>1, <1>2, <1>3, ClientKnows, TableStays DEF InLine, ClientStep
<1> QED
  BY <1>2, <1>4, ClientShows

-----------------------------------------------------------------------------
(* The third layer: the steps of a request.                                *)

LEMMA ClientAt ==
  ASSUME IInv, Turns, NEW c \in Client,
         job[c].pc \notin {"idle", "get", "install", "body"}
  PROVE /\ c \in Actor /\ c # Worker /\ At(job[c]) /\ InFlight(c)
        /\ job[c].rec \in Client /\ Mine(c) \in GoodRecord
        /\ InLine /\ Agree /\ ~ Making(job[c]) =>
             /\ ClientStep(job[c], item, Mine(c), table) /\ TableAgrees
             /\ table \in GoodRecord /\ table # NoRecord
             /\ requested[P] = covered[P]
<1>1. c \in Actor /\ c # Worker
  BY Actors DEF Actor
<1>2. InFlight(c)
  BY DEF InFlight
<1> QED
  BY <1>1, <1>2, AtWork, AtFacts, ClientKnows DEF Mine

\* At the body of a request that is not to make the process.
LEMMA ClientAtBody ==
  ASSUME IInv, Turns, NEW c \in Client, job[c].pc = "body", job[c].op # "create"
  PROVE /\ c \in Actor /\ c # Worker /\ InFlight(c)
        /\ item \in Client /\ heap[item] \in GoodRecord
        /\ table \in GoodRecord /\ table # NoRecord
        /\ InLine /\ Agree => /\ Agrees(heap[item], table, {}) /\ TableAgrees
                              /\ job[c].rec = item /\ requested[P] = covered[P]
<1>1. c \in Actor /\ c # Worker
  BY Actors DEF Actor
<1>2. InFlight(c) /\ ~ Making(job[c]) /\ ClientDiffers(job[c]) = {}
  BY DEF InFlight, Making, ClientDiffers
<1>3. /\ item \in Client /\ heap[item] \in GoodRecord
      /\ table \in GoodRecord /\ table # NoRecord
  BY AtBody, GoodIsRecord
<1> QED
  BY <1>1, <1>2, <1>3, ClientKnows DEF ClientStep

LEMMA ClientMoves ==
  ASSUME Turns', NEW c \in Client, NEW pc, NEW r, Goes(c, pc),
         pc \notin {"idle", "get"}, heap'[job'[c].rec] = r,
         InLine => TableAgrees' /\ ClientStep(job'[c], item, r, table')
  PROVE Agree'
<1>1. InFlight(c)' /\ (InLine' => InLine) /\ UNCHANGED item
  BY DEF Goes, InFlight, InLine, history
<1> QED
  BY <1>1, ClientShows

LEMMA ClientEnds ==
  ASSUME IInv, Turns, Turns', Agree, NEW c \in Client, InFlight(c), Return(c),
         UNCHANGED <<item, clash, cut>>,
         InLine => /\ TableAgrees'
                   /\ item \in Client => Agrees(heap'[item], table', {})
  PROVE Agree'
<1>1. /\ ~ InFlight(c)' /\ UNCHANGED runVars
      /\ \A d \in Client \ {c} : job'[d] = job[d]
  BY NoFlight, OtherJobs
<1>2. InLine' => /\ InLine /\ requested'[P] = covered'[P]
                 /\ \A d \in Client : ~ InFlight(d)'
  BY <1>1, ClientKnows DEF InLine, InFlight, runVars
<1> QED
  BY <1>2, RestAgreeShows

LEMMA RejectAgree ==
  ASSUME IInv, Turns, Turns', Agree, NEW c \in Client, Reject(c)
  PROVE Agree'
<1>1. /\ InFlight(c) /\ Return(c) /\ UNCHANGED data /\ UNCHANGED history
      /\ job[c].pc = "body" /\ job[c].op # "create" /\ UNCHANGED runVars
  BY RejectEffect, NoFlight
<1>2. InLine => /\ TableAgrees'
                /\ item \in Client => Agrees(heap'[item], table', {})
  BY <1>1, ClientAtBody, TableStays DEF data
<1> QED
  BY <1>1, <1>2, ClientEnds DEF data, history

LEMMA CreateAgree ==
  ASSUME IInv, Turns, Turns', NEW c \in Client, Create(c)
  PROVE Agree'
<1>1. /\ job[c].pc = "body" /\ job[c].op = "create" /\ job'[c].pc = "write"
      /\ job'[c].next = "attach" /\ job'[c].op = "create" /\ table' = table
  BY CreateEffect
<1>2. table' = NoRecord
  BY <1>1 DEF Turns, CreateTurns, Actor
<1> QED
  BY <1>1, <1>2, ClientShows DEF InFlight, Making, TableAgrees

LEMMA AttachAgree ==
  ASSUME IInv, Turns, Turns', Files, Agree, NEW c \in Client,
         NEW f \in File, Attach(c, f)
  PROVE Agree'
<1> DEFINE r == [Mine(c) EXCEPT !.files = @ \cup {f}]
<1>1. /\ \/ job[c].pc = "attach"
         \/ /\ job[c].pc = "body" /\ job[c].op = "upload"
            /\ Mine(c).state # "FINALIZED"
      /\ job[c].rec \in Client /\ Mine(c) \in GoodRecord /\ table \in GoodRecord
      /\ Goes(c, "write") /\ job'[c].rec = job[c].rec /\ job'[c].next = "blob"
      /\ job'[c].held = Row(Fresh, r) /\ Alters(c, r)
      /\ UNCHANGED <<table, protocol>> /\ UNCHANGED runVars
  BY AttachEffect DEF Goes
<1>2. /\ r.files = Mine(c).files \cup {f} /\ r.state = Mine(c).state
      /\ r.blobs = Mine(c).blobs /\ r.attempts = Mine(c).attempts
      /\ r.findings = Mine(c).findings /\ r.approved = Mine(c).approved
      /\ r.groups = Mine(c).groups
  BY <1>1 DEF GoodRecord
<1> HIDE DEF r
<1>3. ASSUME InLine PROVE TableAgrees' /\ ClientStep(job'[c], item, r, table')
  <2>1. InFlight(c) /\ ~ Making(job[c]) /\ ClientDiffers(job[c]) = {}
    BY <1>1 DEF InFlight, Making, ClientDiffers
  <2>2. /\ Agrees(Mine(c), table, {}) /\ TableAgrees /\ job[c].rec = item
        /\ job[c].pc = "attach" => Mine(c).state # "FINALIZED"
    BY <1>1, <1>3, <2>1, ClientKnows DEF ClientStep, Mine
  <2>3. Agrees(r, table, {"files"}) /\ r.state # "FINALIZED"
    BY <1>1, <1>2, <2>2 DEF Agrees, SameBut, Within
  <2>4. ClientDiffers(job'[c]) = {"files"} /\ job'[c].pc = "write"
    BY <1>1 DEF ClientDiffers, Goes
  <2> QED
    BY <1>1, <2>2, <2>3, <2>4, TableStays DEF ClientStep
<1> QED
  BY <1>1, <1>3, ClientMoves DEF Alters

LEMMA KeepBlobAgree ==
  ASSUME IInv, Turns, Turns', Files, Agree, NEW c \in Client, KeepBlob(c)
  PROVE Agree'
<1> DEFINE f == job[c].arg
           r == [Mine(c) EXCEPT !.blobs = @ \cup {f}]
<1>1. job[c].pc = "blob" /\ job[c].pc \notin {"idle", "get", "install", "body"}
        /\ ~ Making(job[c]) /\ ClientDiffers(job[c]) = {}
  BY DEF KeepBlob, Making, ClientDiffers
<1>2. Uploading(c)
  BY <1>1, AtFacts DEF At, Uploading, Actor
<1>3. /\ job[c].rec \in Client /\ Mine(c) \in GoodRecord
      /\ InLine => /\ ClientStep(job[c], item, Mine(c), table) /\ TableAgrees
                   /\ table \in GoodRecord /\ table # NoRecord
                   /\ UploadStep(job[c], item, Mine(c), table)
  BY <1>1, <1>2, ClientAt, UploadAt, LineOrder
<1>4. /\ Goes(c, "write") /\ job'[c].rec = job[c].rec /\ job'[c].next = "reopen"
      /\ job'[c].held = Row(Fresh, r) /\ Alters(c, r)
      /\ table' = [table EXCEPT !.blobs = @ \cup {f}]
  BY KeepBlobEffect
<1>5. /\ r.files = Mine(c).files /\ r.state = Mine(c).state
      /\ r.blobs = Mine(c).blobs \cup {f} /\ r.attempts = Mine(c).attempts
      /\ r.findings = Mine(c).findings /\ r.approved = Mine(c).approved
      /\ r.groups = Mine(c).groups
  BY <1>3 DEF GoodRecord
<1> HIDE DEF r
<1>6. ASSUME InLine PROVE TableAgrees' /\ ClientStep(job'[c], item, r, table')
  <2>1. /\ table'.files = table.files /\ table'.blobs = table.blobs \cup {f}
        /\ table'.state = table.state /\ table'.findings = table.findings
        /\ table'.approved = table.approved /\ table'.groups = table.groups
        /\ table'.attempts = table.attempts
    BY <1>3, <1>4, <1>6 DEF GoodRecord
  <2>2. /\ Agrees(Mine(c), table, {}) /\ job[c].rec = item
        /\ Mine(c).state # "FINALIZED" /\ f \in table.files
    BY <1>1, <1>3, <1>6 DEF ClientStep, UploadStep
  <2>3. Agrees(r, table', {})
    BY <1>5, <2>1, <2>2 DEF Agrees, SameBut, Within
  <2>4. TableAgrees'
    BY <1>3, <1>6, <2>1, <2>2, NotFinal, TableShows DEF TableAgrees
  <2>5. ClientDiffers(job'[c]) = {} /\ job'[c].pc = "write"
    BY <1>4 DEF ClientDiffers, Goes
  <2> QED
    BY <1>4, <1>5, <2>2, <2>3, <2>4, <2>5 DEF ClientStep
<1> QED
  BY <1>3, <1>4, <1>6, ClientMoves DEF Alters

LEMMA ReopenAgree ==
  ASSUME IInv, Turns, Turns', Files, Agree, NEW c \in Client, Reopen(c)
  PROVE Agree'
<1> DEFINE s == Reopened(job[c].op, Mine(c).state)
           r == [Mine(c) EXCEPT !.state = s]
<1>1. /\ job[c].pc = "reopen" /\ job[c].pc \notin {"idle", "get", "install", "body"}
      /\ ~ Making(job[c]) /\ ClientDiffers(job[c]) = {}
      /\ job' = [job EXCEPT ![c] = Idle]
      /\ UNCHANGED <<item, table, protocol>> /\ UNCHANGED <<clash, cut>>
  BY ReopenEffect DEF history, Making, ClientDiffers
<1>2. /\ c \in Actor /\ c # Worker
      /\ job[c].rec \in Client /\ Mine(c) \in GoodRecord
      /\ InLine => /\ ClientStep(job[c], item, Mine(c), table) /\ TableAgrees
                   /\ requested[P] = covered[P]
  BY <1>1, ClientAt
<1>3. /\ r.files = Mine(c).files /\ r.blobs = Mine(c).blobs
      /\ r.attempts = Mine(c).attempts /\ r.groups = Mine(c).groups
      /\ r.findings = Mine(c).findings /\ r.approved = Mine(c).approved
  BY <1>2 DEF GoodRecord
<1> HIDE DEF r
<1>4. ASSUME InLine
      PROVE /\ requested'[P] # covered'[P] /\ TableAgrees'
            /\ job'[Worker].pc = "idle" /\ Agrees(heap'[item'], table', {"state"})
  <2>1. /\ Agrees(Mine(c), table, {}) /\ job[c].rec = item
        /\ Mine(c).state # "FINALIZED"
    BY <1>1, <1>2, <1>4 DEF ClientStep
  <2>2. /\ Alters(c, r) /\ requested' = [requested EXCEPT ![P] = @ + 1]
        /\ UNCHANGED <<covered, current, upTo>>
    BY <2>1, ReopenEffect DEF r
  <2>3. requested'[P] # covered'[P]
    BY <1>2, <1>4, <2>2 DEF IInv, RunsOK
  <2>4. table.state # "FINALIZED"
    BY <2>1, NotFinal
  <2>5. TableAgrees'
    BY <1>1, <1>2, <1>4, <2>4, TableShows DEF TableAgrees
  <2>6. job'[Worker].pc = "idle"
    <3>1. current = "none"
      BY <1>2, <1>4 DEF Turns, RunTurns, IInv, RunsOK
    <3> QED
      BY <1>1, <1>2, <3>1 DEF Turns, RunTurns, IInv, Types, Actor
  <2>7. heap'[item'] = r
    BY <1>1, <1>2, <2>1, <2>2 DEF Alters
  <2>8. Agrees(r, table, {"state"})
    BY <1>3, <2>1 DEF Agrees, SameBut, Within
  <2> QED
    BY <1>1, <2>3, <2>5, <2>6, <2>7, <2>8
<1> QED
  BY <1>1, <1>4, RunShowsAgree DEF InLine

LEMMA DecideAgree ==
  ASSUME IInv, Turns, Turns', Agree, NEW c \in Client, Review(c) \/ Confirm(c)
  PROVE Agree'
<1>1. /\ Goes(c, "sign") /\ job'[c].rec = item
      /\ UNCHANGED <<heap, table, protocol>> /\ UNCHANGED runVars
      /\ heap[item].state # "FINALIZED"
      /\ \A k \in DOMAIN job'[c].cards : ~ Human(heap[item].findings[k])
  BY ReviewEffect, ConfirmEffect DEF data, Human, Goes
<1>2. job[c].pc = "body" /\ job[c].op # "create"
  BY DEF Review, Confirm
<1>3. job'[c].pc = "sign" /\ ClientDiffers(job'[c]) = {}
  BY <1>1 DEF Goes, ClientDiffers
<1>4. ASSUME InLine
      PROVE TableAgrees' /\ ClientStep(job'[c], item, heap[item], table')
  <2>1. Agrees(heap[item], table, {}) /\ TableAgrees
    BY <1>2, <1>4, ClientAtBody
  <2>2. \A k \in DOMAIN job'[c].cards : ~ Human(table.findings[k])
    BY <1>1, <2>1 DEF Agrees
  <2> QED
    BY <1>1, <1>3, <2>1, <2>2, TableStays DEF ClientStep
<1> QED
  BY <1>1, <1>4, ClientMoves

LEMMA OpenAgree ==
  ASSUME IInv, Turns, Turns', Agree, NEW c \in Client, Open(c)
  PROVE Agree'
<1>1. /\ job[c].pc = "open" /\ job[c].pc \notin {"idle", "get", "install", "body"}
      /\ ~ Making(job[c]) /\ ClientDiffers(job[c]) = {}
      /\ UNCHANGED <<heap, item, table, protocol>> /\ UNCHANGED <<clash, cut>>
  BY OpenEffect DEF Open, Making, ClientDiffers, data, history
<1>2. /\ job[c].op \in {"review", "confirm"} /\ InFlight(c)
      /\ InLine => /\ ClientStep(job[c], item, Mine(c), table) /\ TableAgrees
  BY <1>1, ClientAt DEF At
<1>3. InLine => Agrees(Mine(c), table, {}) /\ job[c].rec = item
  BY <1>1, <1>2 DEF ClientStep
<1>4. CASE Return(c)
  <2>1. UNCHANGED runVars
    BY <1>4, NoFlight
  <2>2. InLine => /\ TableAgrees'
                  /\ item \in Client => Agrees(heap'[item], table', {})
    BY <1>1, <1>2, <1>3, <2>1, TableStays DEF Mine
  <2> QED
    BY <1>1, <1>2, <1>4, <2>2, ClientEnds
<1>5. CASE Goes(c, "assign") /\ Mine(c).state = "READY" /\ job'[c].rec = job[c].rec
  <2>1. /\ job'[c].pc = "assign" /\ job'[c].op = job[c].op
        /\ ClientDiffers(job'[c]) = {}
    BY <1>5 DEF Goes, ClientDiffers
  <2>2. Source(job[c].op) = "READY" /\ job[c].op # "finalize"
    BY <1>2 DEF Source
  <2>3. InLine => TableAgrees' /\ ClientStep(job'[c], item, Mine(c), table')
    BY <1>1, <1>2, <1>3, <1>5, <2>1, <2>2, TableStays DEF ClientStep, Goes
  <2>4. heap'[job'[c].rec] = Mine(c)
    BY <1>1, <1>5 DEF Mine
  <2> QED
    BY <1>5, <2>3, <2>4, ClientMoves
<1> QED
  BY <1>4, <1>5, OpenEffect

LEMMA CheckAgree ==
  ASSUME IInv, Turns, Turns', Agree, NEW c \in Client, Check(c)
  PROVE Agree'
<1>1. /\ Goes(c, "assign") /\ job'[c].rec = item
      /\ UNCHANGED <<heap, table, protocol>> /\ UNCHANGED runVars
      /\ heap[item].state = Source(job[c].op)
      /\ job[c].op \in {"complete", "finalize"} => Candidates(heap[item]) = {}
  BY CheckEffect DEF data, Goes
<1>2. job[c].pc = "body" /\ job[c].op # "create"
  BY DEF Check
<1>3. /\ job'[c].pc = "assign" /\ job'[c].op = job[c].op
      /\ ClientDiffers(job'[c]) = {}
  BY <1>1 DEF Goes, ClientDiffers
<1>4. InLine => TableAgrees' /\ ClientStep(job'[c], item, heap[item], table')
  BY <1>1, <1>2, <1>3, ClientAtBody, TableStays DEF ClientStep
<1> QED
  BY <1>1, <1>4, ClientMoves

LEMMA AssignAgree ==
  ASSUME IInv, Turns, Turns', Agree, NEW c \in Client, Assign(c)
  PROVE Agree'
<1> DEFINE s == Target(job[c].op)
           r == [Mine(c) EXCEPT !.state = s]
<1>1. /\ job[c].pc = "assign" /\ job[c].pc \notin {"idle", "get", "install", "body"}
      /\ ~ Making(job[c]) /\ ClientDiffers(job[c]) = {}
  BY DEF Assign, Making, ClientDiffers
<1>2. /\ job[c].rec \in Client /\ Mine(c) \in GoodRecord
      /\ job[c].op \in {"review", "confirm", "verify", "complete", "finalize",
                        "unfinalize"}
      /\ InLine => /\ ClientStep(job[c], item, Mine(c), table) /\ TableAgrees
                   /\ job[c].rec = item
  BY <1>1, ClientAt DEF At, ClientStep
<1>3. /\ Alters(c, r) /\ job'[c].rec = job[c].rec
      /\ \/ Goes(c, "assemble") /\ job[c].op = "finalize"
         \/ /\ Goes(c, "write") /\ job[c].op # "finalize"
            /\ job'[c].next = "idle" /\ job'[c].held = Row(Fresh, r)
      /\ UNCHANGED <<item, table, protocol>>
  BY AssignEffect
<1>4. /\ r.files = Mine(c).files /\ r.blobs = Mine(c).blobs
      /\ r.attempts = Mine(c).attempts /\ r.groups = Mine(c).groups
      /\ r.findings = Mine(c).findings /\ r.approved = Mine(c).approved
      /\ r.state = s
  BY <1>2 DEF GoodRecord
<1> HIDE DEF r
<1>5. ASSUME InLine
      PROVE /\ Agrees(r, table, {"state"})
            /\ Within(r) => table.state = Source(job[c].op)
            /\ job[c].op = "finalize" => Candidates(r) = {}
  <2>1. /\ Agrees(Mine(c), table, {}) /\ Mine(c).state = Source(job[c].op)
        /\ job[c].op = "finalize" => Candidates(Mine(c)) = {}
    BY <1>1, <1>2, <1>5 DEF ClientStep
  <2>2. Agrees(r, table, {"state"}) /\ (Within(r) => table.state = Source(job[c].op))
    BY <1>4, <2>1 DEF Agrees, SameBut, Within
  <2>3. Candidates(r) = Candidates(Mine(c))
    BY <1>4 DEF Candidates
  <2> QED
    BY <2>1, <2>2, <2>3
<1>6. InLine /\ UNCHANGED runVars => TableAgrees'
  BY <1>2, <1>3, TableStays
<1>7. CASE Goes(c, "assemble") /\ job[c].op = "finalize"
  <2>1. /\ ClientDiffers(job'[c]) = {"state"} /\ job'[c].pc = "assemble"
        /\ job'[c].op = job[c].op /\ s = "FINALIZED"
    BY <1>7 DEF ClientDiffers, Goes, Target
  <2>2. InLine => TableAgrees' /\ ClientStep(job'[c], item, r, table')
    BY <1>2, <1>3, <1>4, <1>5, <1>6, <1>7, <2>1 DEF ClientStep, Goes
  <2> QED
    BY <1>3, <1>7, <2>2, ClientMoves DEF Alters
<1>8. CASE /\ Goes(c, "write") /\ job[c].op # "finalize"
           /\ job'[c].next = "idle" /\ job'[c].held = Row(Fresh, r)
  <2>1. /\ ClientDiffers(job'[c]) = {"state"} /\ job'[c].pc = "write"
        /\ job'[c].op = job[c].op /\ s # "FINALIZED"
    BY <1>2, <1>8 DEF ClientDiffers, Goes, Target
  <2>2. InLine => TableAgrees' /\ ClientStep(job'[c], item, r, table')
    BY <1>2, <1>3, <1>4, <1>5, <1>6, <1>8, <2>1 DEF ClientStep, Goes
  <2> QED
    BY <1>3, <1>8, <2>2, ClientMoves DEF Alters
<1> QED
  BY <1>3, <1>7, <1>8

LEMMA AssembleAgree ==
  ASSUME IInv, Turns, Turns', Agree, NEW c \in Client, Assemble(c)
  PROVE Agree'
<1>1. /\ job[c].pc = "assemble" /\ job[c].pc \notin {"idle", "get", "install", "body"}
      /\ ~ Making(job[c]) /\ ClientDiffers(job[c]) = {"state"}
  BY DEF Assemble, Making, ClientDiffers
<1>2. /\ InLine => /\ ClientStep(job[c], item, Mine(c), table) /\ TableAgrees
  BY <1>1, ClientAt
<1>3. /\ Goes(c, "materialize") /\ job'[c].rec = job[c].rec
      /\ job'[c].held = Mine(c) /\ UNCHANGED <<heap, table, protocol>>
  BY AssembleEffect DEF data
<1>4. ClientDiffers(job'[c]) = {"state"} /\ job'[c].pc = "materialize"
        /\ job'[c].op = job[c].op
  BY <1>3 DEF ClientDiffers, Goes
<1>5. InLine => TableAgrees' /\ ClientStep(job'[c], item, Mine(c), table')
  BY <1>1, <1>2, <1>3, <1>4, TableStays DEF ClientStep, Goes
<1>6. heap'[job'[c].rec] = Mine(c)
  BY <1>3 DEF Mine
<1> QED
  BY <1>3, <1>5, <1>6, ClientMoves

\* The protocol is made from a record without candidates, whose files have
\* all been compared, and the row gets the state of that record.
LEMMA MaterializeAgree ==
  ASSUME IInv, Turns, Turns', Files, Agree, NEW c \in Client, Materialize(c)
  PROVE Agree'
<1> DEFINE h == job[c].held
           r == Mine(c)
<1>1. /\ job[c].pc = "materialize"
      /\ job[c].pc \notin {"idle", "get", "install", "body"}
      /\ ~ Making(job[c]) /\ ClientDiffers(job[c]) = {"state"}
  BY DEF Materialize, Making, ClientDiffers
<1>2. /\ job[c].rec \in Client /\ r \in GoodRecord /\ job[c].op = "finalize"
      /\ InFlight(c) /\ ~ Uploading(c)
      /\ InLine => /\ ClientStep(job[c], item, r, table) /\ TableAgrees
                   /\ table \in GoodRecord /\ table # NoRecord
                   /\ requested[P] = covered[P]
  BY <1>1, ClientAt DEF At, Uploading
<1>3. InLine => /\ Agrees(r, table, {"state"}) /\ h = r /\ r.state = "FINALIZED"
                /\ job[c].rec = item /\ Candidates(r) = {}
  BY <1>1, <1>2 DEF ClientStep
<1>4. InLine => Compared(r) \/ ~ Within(r)
  BY <1>1, <1>2, InspectorAt, LineOrder DEF Settled
<1>5. /\ Return(c) /\ UNCHANGED runVars /\ UNCHANGED <<item, clash, cut>>
  BY <1>2, MaterializeEffect, NoFlight DEF history
<1>6. CASE /\ Within(h) /\ h.state = "FINALIZED"
           /\ table' = Row(table, h) /\ protocol' = h /\ UNCHANGED heap
  <2>1. ASSUME InLine
        PROVE TableAgrees' /\ Agrees(heap'[item], table', {})
    <3>1. /\ table'.state = r.state /\ table'.files = r.files
          /\ table'.attempts = r.attempts /\ table'.blobs = table.blobs
          /\ table'.findings = table.findings /\ table'.approved = table.approved
          /\ table'.groups = table.groups
      BY <1>2, <1>3, <1>6, <2>1 DEF Row, GoodRecord
    <3>2. /\ r.findings = table.findings /\ Within(r)
          /\ SameBut(r, table, {"state"})
      BY <1>3, <1>6, <2>1 DEF Agrees
    <3>3. Agrees(r, table', {})
      BY <3>1, <3>2 DEF Agrees, SameBut
    <3>4. Closed(table', protocol')
      BY <1>3, <1>4, <1>6, <2>1, <3>1, <3>2 DEF Closed, Compared
    <3>5. table'.blobs \subseteq table'.files
      BY <1>2, <2>1, <3>1, <3>2 DEF TableAgrees, SameBut
    <3>6. requested'[P] = covered'[P]
      BY <1>2, <1>5, <2>1 DEF runVars
    <3> QED
      BY <1>3, <1>6, <2>1, <3>3, <3>4, <3>5, <3>6 DEF TableAgrees, Mine
  <2> QED
    BY <1>2, <1>5, <2>1, ClientEnds
<1>7. CASE /\ ~ (Within(h) /\ h.state = "FINALIZED")
           /\ Alters(c, [Mine(c) EXCEPT !.state = "COMPLETED"])
           /\ UNCHANGED <<table, protocol>>
  <2>1. ASSUME InLine
        PROVE TableAgrees' /\ Agrees(heap'[item], table', {})
    <3> DEFINE q == [Mine(c) EXCEPT !.state = "COMPLETED"]
    <3>1. q.findings = r.findings /\ q.attempts = r.attempts
      BY <1>2 DEF GoodRecord
    <3>2. heap'[item] = q
      BY <1>3, <1>7, <2>1 DEF Alters
    <3> HIDE DEF q
    <3>3. ~ Within(r)
      BY <1>3, <1>7, <2>1
    <3>4. Agrees(q, table, {})
      BY <1>3, <2>1, <3>1, <3>3 DEF Agrees, Within
    <3> QED
      BY <1>2, <1>5, <1>7, <2>1, <3>2, <3>4, TableStays
  <2> QED
    BY <1>2, <1>5, <2>1, ClientEnds
<1> QED
  BY <1>6, <1>7, MaterializeEffect

\* A selection is made only when nobody has decided about a card.
LEMMA SelectAgree ==
  ASSUME IInv, Turns, Turns', Agree, NEW c \in Client, Select(c)
  PROVE Agree'
<1> DEFINE f == job'[c].arg
           r == [heap[item] EXCEPT !.approved = @ \cup {f}, !.blobs = @ \cup {f}]
<1>1. /\ Goes(c, "audited") /\ job[c].op = "select" /\ job'[c].rec = item
      /\ heap[item].state \in {"READY", "VERIFYING"} /\ Undecided(heap[item])
      /\ f \in table.blobs /\ heap'[item] = r
      /\ UNCHANGED <<item, table, protocol>> /\ UNCHANGED runVars
  BY SelectEffect DEF Goes
<1>2. job[c].pc = "body" /\ job[c].op # "create"
  BY DEF Select
<1>3. heap[item] \in GoodRecord
  BY <1>2, ClientAtBody
<1>4. /\ r.files = heap[item].files /\ r.state = heap[item].state
      /\ r.blobs = heap[item].blobs \cup {f} /\ r.attempts = heap[item].attempts
      /\ r.findings = heap[item].findings /\ r.groups = heap[item].groups
      /\ r.approved = heap[item].approved \cup {f}
  BY <1>3 DEF GoodRecord
<1> HIDE DEF r
<1>5. /\ job'[c].pc = "audited" /\ ClientDiffers(job'[c]) = {"approved"}
  BY <1>1 DEF Goes, ClientDiffers
<1>6. ASSUME NEW k \in Key PROVE ~ Human(heap[item].findings[k])
  <2> SUFFICES ASSUME Human(heap[item].findings[k]) PROVE FALSE
    OBVIOUS
  <2>1. heap[item].findings[k] \in GoodFinding
    BY <1>3 DEF GoodRecord, Human
  <2>2. heap[item].findings[k].signed \in Value
    BY <2>1 DEF GoodFinding, Finding, Human
  <2> QED
    BY <1>1, <2>2, NoSignature DEF Undecided, Human
<1>7. ASSUME InLine PROVE TableAgrees' /\ ClientStep(job'[c], item, r, table')
  <2>1. Agrees(heap[item], table, {}) /\ TableAgrees
    BY <1>2, <1>7, ClientAtBody
  <2>2. \A k \in Key : ~ Human(table.findings[k])
    BY <1>6, <2>1 DEF Agrees
  <2>3. /\ Agrees(r, table, {"approved"})
        /\ Within(r) => r.approved = table.approved \cup {f}
    BY <1>1, <1>4, <2>1 DEF Agrees, SameBut, Within
  <2> QED
    BY <1>1, <1>4, <1>5, <2>1, <2>2, <2>3, TableStays DEF ClientStep
<1> QED
  BY <1>1, <1>7, ClientMoves

LEMMA AuditedAgree ==
  ASSUME IInv, Turns, Turns', Agree, NEW c \in Client, Audited(c)
  PROVE Agree'
<1>1. /\ job[c].pc = "audited" /\ job[c].pc \notin {"idle", "get", "install", "body"}
      /\ ~ Making(job[c]) /\ ClientDiffers(job[c]) = {"approved"}
  BY DEF Audited, Making, ClientDiffers
<1>2. /\ InLine => /\ ClientStep(job[c], item, Mine(c), table) /\ TableAgrees
                   /\ table \in GoodRecord /\ table # NoRecord
  BY <1>1, ClientAt
<1>3. /\ Goes(c, "compute") /\ job'[c].rec = job[c].rec
      /\ table' = [table EXCEPT !.approved = @ \cup {job[c].arg}]
      /\ UNCHANGED <<heap, protocol>>
  BY AuditedEffect
<1>4. ClientDiffers(job'[c]) = {} /\ job'[c].pc = "compute"
  BY <1>3 DEF ClientDiffers, Goes
<1>5. ASSUME InLine PROVE TableAgrees' /\ ClientStep(job'[c], item, Mine(c), table')
  <2>1. /\ table'.files = table.files /\ table'.blobs = table.blobs
        /\ table'.state = table.state /\ table'.findings = table.findings
        /\ table'.attempts = table.attempts /\ table'.groups = table.groups
        /\ table'.approved = table.approved \cup {job[c].arg}
    BY <1>2, <1>3, <1>5 DEF GoodRecord
  <2>2. /\ Agrees(Mine(c), table, {"approved"}) /\ Mine(c).state # "FINALIZED"
        /\ Within(Mine(c)) => Mine(c).approved = table.approved \cup {job[c].arg}
        /\ \A k \in Key : ~ Human(table.findings[k])
        /\ job[c].rec = item
    BY <1>1, <1>2, <1>5 DEF ClientStep
  <2>3. Agrees(Mine(c), table', {})
    BY <2>1, <2>2 DEF Agrees, SameBut
  <2>4. TableAgrees'
    BY <1>2, <1>5, <2>1, <2>2, NotFinal, TableShows DEF TableAgrees
  <2> QED
    BY <1>3, <1>4, <2>1, <2>2, <2>3, <2>4 DEF ClientStep
<1>6. heap'[job'[c].rec] = Mine(c)
  BY <1>3 DEF Mine
<1> QED
  BY <1>3, <1>5, <1>6, ClientMoves

LEMMA ReplaceAgree ==
  ASSUME IInv, Turns, Turns', Agree, NEW c \in Client, Replace(c) \/ Compute(c)
  PROVE Agree'
<1>1. /\ job[c].pc \in {"replace", "compute"}
      /\ job[c].pc \notin {"idle", "get", "install", "body"}
      /\ ~ Making(job[c]) /\ ClientDiffers(job[c]) = {}
  BY DEF Replace, Compute, Making, ClientDiffers
<1>2. /\ c \in Actor /\ c # Worker /\ Mine(c) \in GoodRecord
      /\ InLine => /\ ClientStep(job[c], item, Mine(c), table) /\ TableAgrees
  BY <1>1, ClientAt
<1>3. InLine => /\ Agrees(Mine(c), table, {}) /\ job[c].rec = item
                /\ Mine(c).state # "FINALIZED"
                /\ \A k \in Key : ~ Human(table.findings[k])
  BY <1>1, <1>2 DEF ClientStep
<1>4. CASE Compute(c)
  <2>1. /\ Goes(c, "replace") /\ job'[c].rec = job[c].rec
        /\ UNCHANGED <<heap, table, protocol>>
    BY <1>2, <1>4, ComputeEffect DEF data
  <2>2. ClientDiffers(job'[c]) = {} /\ job'[c].pc = "replace"
    BY <2>1 DEF ClientDiffers, Goes
  <2>3. InLine => TableAgrees' /\ ClientStep(job'[c], item, Mine(c), table')
    BY <1>2, <1>3, <2>1, <2>2, TableStays DEF ClientStep, Goes
  <2>4. heap'[job'[c].rec] = Mine(c)
    BY <2>1 DEF Mine
  <2> QED
    BY <2>1, <2>3, <2>4, ClientMoves
<1>5. CASE Replace(c)
  <2> DEFINE r == [Mine(c) EXCEPT !.findings = job[c].cards]
  <2>1. /\ Goes(c, "clear") /\ job'[c].rec = job[c].rec /\ job'[c].cards = job[c].cards
        /\ Alters(c, r) /\ UNCHANGED <<table, protocol>>
    BY <1>5, ReplaceEffect
  <2>2. /\ r.files = Mine(c).files /\ r.state = Mine(c).state
        /\ r.blobs = Mine(c).blobs /\ r.attempts = Mine(c).attempts
        /\ r.findings = job[c].cards /\ r.groups = Mine(c).groups
        /\ r.approved = Mine(c).approved
    BY <1>2 DEF GoodRecord
  <2> HIDE DEF r
  <2>3. ClientDiffers(job'[c]) = {"findings"} /\ job'[c].pc = "clear"
    BY <2>1 DEF ClientDiffers, Goes
  <2>4. InLine => Agrees(r, table, {"findings"})
    BY <1>3, <2>2 DEF Agrees, SameBut, Within
  <2>5. InLine => TableAgrees' /\ ClientStep(job'[c], item, r, table')
    BY <1>2, <1>3, <2>1, <2>2, <2>3, <2>4, TableStays DEF ClientStep, Goes
  <2> QED
    BY <2>1, <2>5, ClientMoves DEF Alters
<1> QED
  BY <1>4, <1>5

LEMMA ClearAgree ==
  ASSUME IInv, Turns, Turns', Agree, NEW c \in Client, Clear(c)
  PROVE Agree'
<1>1. /\ job[c].pc = "clear" /\ job[c].pc \notin {"idle", "get", "install", "body"}
      /\ ~ Making(job[c]) /\ ClientDiffers(job[c]) = {"findings"}
  BY DEF Clear, Making, ClientDiffers
<1>2. InLine => /\ ClientStep(job[c], item, Mine(c), table) /\ TableAgrees
                /\ table \in GoodRecord /\ table # NoRecord
  BY <1>1, ClientAt
<1>3. /\ Goes(c, "regroup") /\ job'[c].rec = job[c].rec
      /\ table' = [table EXCEPT !.findings = job[c].cards]
      /\ UNCHANGED <<heap, protocol>>
  BY ClearEffect
<1>4. ClientDiffers(job'[c]) = {} /\ job'[c].pc = "regroup"
  BY <1>3 DEF ClientDiffers, Goes
<1>5. ASSUME InLine PROVE TableAgrees' /\ ClientStep(job'[c], item, Mine(c), table')
  <2>1. /\ table'.files = table.files /\ table'.blobs = table.blobs
        /\ table'.state = table.state /\ table'.findings = job[c].cards
        /\ table'.attempts = table.attempts /\ table'.groups = table.groups
        /\ table'.approved = table.approved
    BY <1>2, <1>3, <1>5 DEF GoodRecord
  <2>2. /\ Agrees(Mine(c), table, {"findings"}) /\ Mine(c).state # "FINALIZED"
        /\ Mine(c).findings = job[c].cards /\ job[c].rec = item
    BY <1>1, <1>2, <1>5 DEF ClientStep
  <2>3. Agrees(Mine(c), table', {})
    BY <2>1, <2>2 DEF Agrees, SameBut
  <2>4. TableAgrees'
    BY <1>2, <1>5, <2>1, <2>2, NotFinal, TableShows DEF TableAgrees
  <2> QED
    BY <1>3, <1>4, <2>2, <2>3, <2>4 DEF ClientStep
<1>6. heap'[job'[c].rec] = Mine(c)
  BY <1>3 DEF Mine
<1> QED
  BY <1>3, <1>5, <1>6, ClientMoves

\* A decision goes into memory, and then into the table.
LEMMA SignAgree ==
  ASSUME IInv, Turns, Turns', Agree, NEW c \in Client, Sign(c)
  PROVE Agree'
<1> DEFINE k == job'[c].arg
           new == job'[c].cards[k]
           r == [Mine(c) EXCEPT !.findings[k] = new]
<1>1. /\ job[c].pc = "sign" /\ job[c].pc \notin {"idle", "get", "install", "body"}
      /\ ~ Making(job[c]) /\ ClientDiffers(job[c]) = {}
  BY DEF Sign, Making, ClientDiffers
<1>2. /\ c \in Actor /\ Mine(c) \in GoodRecord
      /\ InLine => /\ ClientStep(job[c], item, Mine(c), table) /\ TableAgrees
  BY <1>1, ClientAt
<1>3. /\ Goes(c, "save") /\ UNCHANGED <<table, protocol>>
      /\ job'[c].rec = job[c].rec /\ Alters(c, r)
      /\ DOMAIN job'[c].cards = DOMAIN job[c].cards
  BY <1>2, SignEffect
<1>4. /\ r.files = Mine(c).files /\ r.state = Mine(c).state
      /\ r.blobs = Mine(c).blobs /\ r.attempts = Mine(c).attempts
      /\ r.findings = [Mine(c).findings EXCEPT ![k] = new]
      /\ r.groups = Mine(c).groups /\ r.approved = Mine(c).approved
  BY <1>2 DEF GoodRecord
<1> HIDE DEF r
<1>5. ClientDiffers(job'[c]) = {"findings"} /\ job'[c].pc = "save"
  BY <1>3 DEF ClientDiffers, Goes
<1>6. ASSUME InLine PROVE TableAgrees' /\ ClientStep(job'[c], item, r, table')
  <2>1. /\ Agrees(Mine(c), table, {}) /\ Mine(c).state # "FINALIZED"
        /\ \A x \in DOMAIN job[c].cards : ~ Human(table.findings[x])
        /\ job[c].rec = item
    BY <1>1, <1>2, <1>6 DEF ClientStep
  <2>2. Agrees(r, table, {"findings"}) /\ Mine(c).findings = table.findings
    BY <1>4, <2>1 DEF Agrees, SameBut, Within
  <2> QED
    BY <1>2, <1>3, <1>4, <1>5, <1>6, <2>1, <2>2, TableStays DEF ClientStep, Goes
<1> QED
  BY <1>3, <1>6, ClientMoves DEF Alters

LEMMA SaveAgree ==
  ASSUME IInv, Turns, Turns', Agree, NEW c \in Client, Save(c)
  PROVE Agree'
<1> DEFINE k == job[c].arg
           new == job[c].cards[k]
<1>1. /\ job[c].pc = "save" /\ job[c].pc \notin {"idle", "get", "install", "body"}
      /\ ~ Making(job[c]) /\ ClientDiffers(job[c]) = {"findings"}
  BY DEF Save, Making, ClientDiffers
<1>2. /\ c \in Actor /\ c # Worker /\ job[c] \in GoodJob /\ k \in DOMAIN job[c].cards
      /\ InLine => /\ ClientStep(job[c], item, Mine(c), table) /\ TableAgrees
                   /\ table \in GoodRecord /\ table # NoRecord
  BY <1>1, ClientAt, Mine1 DEF KnowsOf
<1>3. /\ Goes(c, "sign") \/ Goes(c, "open")
      /\ job'[c].rec = job[c].rec
      /\ DOMAIN job'[c].cards = DOMAIN job[c].cards \ {k}
      /\ table' = [table EXCEPT !.findings[k] = new]
      /\ UNCHANGED <<heap, protocol>>
  BY <1>2, SaveEffect
<1>4. ClientDiffers(job'[c]) = {} /\ job'[c].pc \in {"sign", "open"}
  BY <1>3 DEF ClientDiffers, Goes
<1>5. ASSUME InLine PROVE TableAgrees' /\ ClientStep(job'[c], item, Mine(c), table')
  <2>1. /\ table'.files = table.files /\ table'.blobs = table.blobs
        /\ table'.state = table.state /\ table'.attempts = table.attempts
        /\ table'.findings = [table.findings EXCEPT ![k] = new]
        /\ table'.groups = table.groups /\ table'.approved = table.approved
    BY <1>2, <1>3, <1>5 DEF GoodRecord
  <2>2. /\ Agrees(Mine(c), table, {"findings"}) /\ Mine(c).state # "FINALIZED"
        /\ Mine(c).findings = [table.findings EXCEPT ![k] = new] /\ job[c].rec = item
        /\ \A x \in DOMAIN job[c].cards : ~ Human(table.findings[x])
    BY <1>1, <1>2, <1>5 DEF ClientStep
  <2>3. Agrees(Mine(c), table', {})
    BY <2>1, <2>2 DEF Agrees, SameBut
  <2>4. TableAgrees'
    BY <1>2, <1>5, <2>1, <2>2, NotFinal, TableShows DEF TableAgrees
  <2>5. \A x \in DOMAIN job'[c].cards : ~ Human(table'.findings[x])
    <3> SUFFICES ASSUME NEW x \in DOMAIN job'[c].cards PROVE ~ Human(table'.findings[x])
      OBVIOUS
    <3>1. x # k /\ x \in DOMAIN job[c].cards
      BY <1>3
    <3>2. table'.findings[x] = table.findings[x]
      BY <1>2, <1>5, <2>1, <3>1, CardsFacts DEF GoodRecord, GoodJob
    <3> QED
      BY <2>2, <3>1, <3>2
  <2> QED
    BY <1>3, <1>4, <2>2, <2>3, <2>4, <2>5 DEF ClientStep
<1>6. heap'[job'[c].rec] = Mine(c)
  BY <1>3 DEF Mine
<1>7. CASE Goes(c, "sign")
  BY <1>5, <1>6, <1>7, ClientMoves
<1>8. CASE Goes(c, "open")
  BY <1>5, <1>6, <1>8, ClientMoves
<1> QED
  BY <1>3, <1>7, <1>8

LEMMA RegroupAgree ==
  ASSUME IInv, Turns, Turns', Agree, NEW c \in Client,
         Regroup(c) \/ SaveGroups(c) \/ Settle(c)
  PROVE Agree'
<1>1. /\ job[c].pc \in {"regroup", "groups", "settle"}
      /\ job[c].pc \notin {"idle", "get", "install", "body"}
      /\ ~ Making(job[c])
  BY DEF Regroup, SaveGroups, Settle, Making
<1>2. /\ c \in Actor /\ c # Worker /\ Mine(c) \in GoodRecord /\ job[c].op = "select"
      /\ InLine => /\ ClientStep(job[c], item, Mine(c), table) /\ TableAgrees
                   /\ table \in GoodRecord /\ table # NoRecord
  BY <1>1, ClientAt DEF At, Turns, OpTurns, Ops
<1>3. InLine => /\ Agrees(Mine(c), table, ClientDiffers(job[c])) /\ job[c].rec = item
                /\ Mine(c).state # "FINALIZED"
  BY <1>1, <1>2 DEF ClientStep
<1>4. CASE Regroup(c)
  <2> DEFINE r == [Mine(c) EXCEPT !.groups = job[c].held.files]
  <2>1. /\ Goes(c, "write") /\ job'[c].rec = job[c].rec /\ Alters(c, r)
        /\ job'[c].next = "groups" /\ job'[c].held = Row(Fresh, r)
        /\ UNCHANGED <<item, table, protocol>>
    BY <1>2, <1>4, RegroupEffect
  <2>2. /\ r.files = Mine(c).files /\ r.state = Mine(c).state
        /\ r.blobs = Mine(c).blobs /\ r.attempts = Mine(c).attempts
        /\ r.findings = Mine(c).findings /\ r.approved = Mine(c).approved
    BY <1>2 DEF GoodRecord
  <2> HIDE DEF r
  <2>3. /\ ClientDiffers(job[c]) = {} /\ ClientDiffers(job'[c]) = {"groups"}
        /\ job'[c].pc = "write"
    BY <1>4, <2>1 DEF ClientDiffers, Goes, Regroup
  <2>4. InLine => Agrees(r, table, {"groups"})
    BY <1>3, <2>2, <2>3 DEF Agrees, SameBut, Within
  <2>5. InLine => TableAgrees' /\ ClientStep(job'[c], item, r, table')
    BY <1>2, <1>3, <2>1, <2>2, <2>3, <2>4, TableStays DEF ClientStep, Goes
  <2> QED
    BY <2>1, <2>5, ClientMoves DEF Alters
<1>5. CASE SaveGroups(c)
  <2>1. /\ Goes(c, "settle") /\ job'[c].rec = job[c].rec
        /\ Alters(c, [Mine(c) EXCEPT !.attempts = IF c = Worker THEN @ + 1 ELSE @])
        /\ table' = [table EXCEPT !.groups = Mine(c).groups]
        /\ UNCHANGED <<item, protocol>>
    BY <1>2, <1>5, SaveGroupsEffect
  <2>2. heap'[job'[c].rec] = Mine(c)
    BY <1>2, <2>1 DEF Alters, GoodRecord
  <2>3. /\ ClientDiffers(job[c]) = {"groups"} /\ ClientDiffers(job'[c]) = {}
        /\ job'[c].pc = "settle"
    BY <1>5, <2>1 DEF ClientDiffers, Goes, SaveGroups
  <2>4. ASSUME InLine PROVE TableAgrees' /\ ClientStep(job'[c], item, Mine(c), table')
    <3>1. /\ table'.files = table.files /\ table'.blobs = table.blobs
          /\ table'.state = table.state /\ table'.findings = table.findings
          /\ table'.attempts = table.attempts /\ table'.groups = Mine(c).groups
          /\ table'.approved = table.approved
      BY <1>2, <2>1, <2>4 DEF GoodRecord
    <3>2. Agrees(Mine(c), table', {})
      BY <1>3, <2>3, <2>4, <3>1 DEF Agrees, SameBut
    <3>3. TableAgrees'
      BY <1>2, <1>3, <2>3, <2>4, <3>1, NotFinal, TableShows DEF TableAgrees
    <3> QED
      BY <1>3, <2>1, <2>3, <2>4, <3>2, <3>3 DEF ClientStep
  <2> QED
    BY <2>1, <2>2, <2>4, ClientMoves
<1>6. CASE Settle(c)
  <2> DEFINE r == [Mine(c) EXCEPT !.state = IF c = Worker /\ @ = "PARSING"
                                              THEN "READY" ELSE @]
  <2>1. /\ Goes(c, "write") /\ job'[c].rec = job[c].rec /\ Alters(c, r)
        /\ job'[c].next = "idle" /\ job'[c].held = Row(Fresh, r)
        /\ UNCHANGED <<item, table, protocol>>
    BY <1>2, <1>6, SettleEffect
  <2>2. r = Mine(c)
    BY <1>2 DEF GoodRecord
  <2> HIDE DEF r
  <2>3. /\ ClientDiffers(job[c]) = {} /\ ClientDiffers(job'[c]) = {}
        /\ job'[c].pc = "write"
    BY <1>2, <1>6, <2>1 DEF ClientDiffers, Goes, Settle
  <2>4. InLine => TableAgrees' /\ ClientStep(job'[c], item, r, table')
    BY <1>2, <1>3, <2>1, <2>2, <2>3, TableStays DEF ClientStep, Goes
  <2> QED
    BY <2>1, <2>4, ClientMoves DEF Alters
<1> QED
  BY <1>4, <1>5, <1>6

\* A snapshot that is the row of a record is written.
LEMMA RowWritten ==
  ASSUME NEW r \in GoodRecord, NEW D, table \in GoodRecord, Agrees(r, table, D),
         Within(r), table' = Row(table, Row(Fresh, r))
  PROVE /\ table'.state = r.state /\ table'.files = r.files
        /\ table'.attempts = r.attempts /\ table'.blobs = table.blobs
        /\ table'.findings = table.findings /\ table'.approved = table.approved
        /\ table'.groups = table.groups
        /\ Agrees(r, table', D \ {"state", "files", "attempts"})
<1>1. /\ table'.state = r.state /\ table'.files = r.files
      /\ table'.attempts = r.attempts /\ table'.blobs = table.blobs
      /\ table'.findings = table.findings /\ table'.approved = table.approved
      /\ table'.groups = table.groups
  BY DEF Row, Fresh, GoodRecord
<1> QED
  BY <1>1 DEF Agrees, SameBut

LEMMA WriteAgree ==
  ASSUME IInv, Turns, Turns', Files, Agree, NEW c \in Client, Write(c)
  PROVE Agree'
<1> DEFINE h == job[c].held
           r == Mine(c)
           n == job[c].next
<1>1. job[c].pc = "write" /\ job[c].pc \notin {"idle", "get", "install", "body"}
  BY DEF Write
<1>2. /\ c \in Actor /\ c # Worker /\ At(job[c]) /\ InFlight(c)
      /\ job[c].rec \in Client /\ r \in GoodRecord
      /\ InLine /\ ~ Making(job[c]) =>
           /\ ClientStep(job[c], item, r, table) /\ TableAgrees
           /\ table \in GoodRecord /\ table # NoRecord
  BY <1>1, ClientAt
<1>3. UNCHANGED <<heap, item, protocol>> /\ UNCHANGED <<clash, cut>>
  BY <1>2, WriteEffect DEF history
<1>4. InLine /\ Uploading(c) => UploadStep(job[c], item, r, table) /\ job[c].rec = item
  BY <1>1, UploadAt, LineOrder
<1>5. Making(job[c]) <=> n = "attach"
  BY <1>1, <1>2 DEF Making, At
<1>6. Making(job[c]) => Uploading(c)
  BY DEF Making, Uploading
<1>7. InLine => h = Row(Fresh, r) /\ job[c].rec = item /\ r.state # "FINALIZED"
  BY <1>1, <1>2, <1>4, <1>6 DEF ClientStep, UploadStep
<1>8. Row(Fresh, r).state = r.state /\ Row(Fresh, r).attempts = r.attempts
  BY DEF Row, Fresh
<1>9. InLine /\ ~ Making(job[c]) =>
        /\ Agrees(r, table, ClientDiffers(job[c]))
        /\ ClientDiffers(job[c]) = IF n = "blob" THEN {"files"}
                                   ELSE IF n = "groups" THEN {"groups"}
                                   ELSE IF n = "idle" /\ job[c].op # "select"
                                     THEN {"state"} ELSE {}
  BY <1>1, <1>2 DEF ClientStep, ClientDiffers
<1>10. CASE ~ (h.state # "FINALIZED" /\ Within(h)) /\ Return(c) /\ UNCHANGED table
  <2>1. UNCHANGED runVars
    BY <1>10, NoFlight
  <2>2. ASSUME InLine PROVE TableAgrees' /\ Agrees(heap'[item], table', {})
    <3>1. ~ Within(r)
      BY <1>7, <1>8, <1>10, <2>2 DEF Within
    <3>2. n # "attach"
      <4> SUFFICES ASSUME n = "attach" PROVE FALSE
        OBVIOUS
      <4>1. r = Fresh
        BY <1>1, <1>4, <1>5, <1>6, <2>2 DEF UploadStep
      <4> QED
        BY <3>1, <4>1, FreshRecord, Bounds DEF Within
    <3>3. Agrees(r, table, {}) /\ TableAgrees
      BY <1>2, <1>5, <1>9, <2>2, <3>1, <3>2 DEF Agrees
    <3> QED
      BY <1>3, <1>7, <1>10, <2>1, <2>2, <3>3, TableStays DEF Mine
  <2> QED
    BY <1>2, <1>3, <1>10, <2>2, ClientEnds
<1>11. ASSUME InLine, ~ Making(job[c]), Within(h),
              table' = Row(IF table = NoRecord THEN Fresh ELSE table, h)
       PROVE /\ TableAgrees' /\ Within(r)
             /\ Agrees(r, table', IF n = "groups" THEN {"groups"} ELSE {})
  <2> DEFINE D == ClientDiffers(job[c])
  <2>1. Within(r) /\ table' = Row(table, Row(Fresh, r))
    BY <1>2, <1>7, <1>8, <1>11 DEF Within
  <2>2. Agrees(r, table, D)
    BY <1>9, <1>11
  <2> HIDE DEF D
  <2>3. /\ table'.state = r.state /\ table'.files = r.files
        /\ table'.blobs = table.blobs
        /\ Agrees(r, table', D \ {"state", "files", "attempts"})
    BY <1>2, <1>11, <2>1, <2>2, RowWritten
  <2>4. D \ {"state", "files", "attempts"} = IF n = "groups" THEN {"groups"} ELSE {}
    BY <1>9, <1>11 DEF D
  <2>5. table.files \subseteq r.files
    <3>1. CASE n = "blob"
      <4>1. Uploading(c)
        BY <1>1, <1>2, <3>1 DEF At, Uploading
      <4> QED
        BY <1>1, <1>4, <1>11, <2>1, <3>1, <4>1 DEF UploadStep
    <3>2. CASE n # "blob"
      <4>1. "files" \notin D
        BY <1>9, <1>11, <3>2 DEF D
      <4> QED
        BY <2>1, <2>2, <4>1 DEF Agrees, SameBut
    <3> QED
      BY <3>1, <3>2
  <2>6. TableAgrees'
    BY <1>2, <1>7, <1>11, <2>3, <2>5, TableShows DEF TableAgrees
  <2> QED
    BY <2>1, <2>3, <2>4, <2>6
<1>12. CASE /\ h.state # "FINALIZED" /\ Within(h)
            /\ table' = Row(IF table = NoRecord THEN Fresh ELSE table, h)
            /\ n = "idle" /\ Return(c)
  <2>1. ~ Making(job[c]) /\ heap'[job[c].rec] = r
    BY <1>3, <1>5, <1>12 DEF Mine
  <2>2. InLine => TableAgrees' /\ Agrees(heap'[item], table', {})
    BY <1>7, <1>11, <1>12, <2>1
  <2> QED
    BY <1>2, <1>3, <1>12, <2>2, ClientEnds
<1>13. CASE /\ h.state # "FINALIZED" /\ Within(h)
            /\ table' = Row(IF table = NoRecord THEN Fresh ELSE table, h)
            /\ n # "idle" /\ Goes(c, n) /\ job'[c].rec = job[c].rec
  <2>1. n \in {"attach", "blob", "reopen", "groups"} /\ heap'[job'[c].rec] = r
    BY <1>1, <1>2, <1>3, <1>13 DEF At, Mine
  <2>2. /\ job'[c].pc = n /\ job'[c].op = job[c].op
        /\ ClientDiffers(job'[c]) = IF n = "groups" THEN {"groups"} ELSE {}
    BY <1>13, <2>1 DEF Goes, ClientDiffers
  <2>3. CASE n = "attach"
    <3>1. ASSUME InLine PROVE TableAgrees' /\ ClientStep(job'[c], item, r, table')
      <4>1. r = Fresh /\ table = NoRecord
        BY <1>1, <1>4, <1>5, <1>6, <2>3, <3>1 DEF UploadStep
      <4>2. table' = Fresh
        BY <1>7, <1>13, <3>1, <4>1 DEF Row, Fresh
      <4>3. Agrees(Fresh, Fresh, {}) /\ Fresh.blobs = {} /\ Fresh.state = "PARSING"
        BY Bounds DEF Agrees, SameBut, Fresh, Within
      <4>4. TableAgrees'
        BY <4>2, <4>3, TableShows
      <4> QED
        BY <1>7, <1>13, <2>2, <2>3, <3>1, <4>1, <4>2, <4>3, <4>4 DEF ClientStep
    <3> QED
      BY <1>13, <2>1, <3>1, ClientMoves
  <2>4. CASE n # "attach"
    <3>1. InLine => TableAgrees' /\ ClientStep(job'[c], item, r, table')
      BY <1>5, <1>7, <1>11, <1>13, <2>1, <2>2, <2>4 DEF ClientStep
    <3> QED
      BY <1>13, <2>1, <3>1, ClientMoves
  <2> QED
    BY <2>3, <2>4
<1> QED
  BY <1>2, <1>10, <1>12, <1>13, WriteEffect

-----------------------------------------------------------------------------
(* The third layer: the run.                                               *)

LEMMA RunAtAgrees ==
  ASSUME IInv, Turns, Files, Agree, InLine,
         job[Worker].pc \notin {"idle", "get", "install", "body"}
  PROVE /\ RunAgrees(job[Worker], Mine(Worker), table)
        /\ RunStep(job[Worker], item, Mine(Worker), table)
        /\ TableAgrees /\ job[Worker].rec = item /\ table \in GoodRecord
        /\ table # NoRecord /\ requested[P] # covered[P]
<1>1. /\ RunStep(job[Worker], item, Mine(Worker), table)
      /\ job[Worker].rec = item /\ table \in GoodRecord
      /\ table # NoRecord /\ requested[P] # covered[P]
  BY RunAt, LineOrder
<1> QED
  BY <1>1 DEF Agree, RunsAgree, Mine

LEMMA RunMovesAgree ==
  ASSUME IInv, Turns, Turns', Files, Agree, NEW pc, NEW r, Goes(Worker, pc),
         job[Worker].pc \notin {"idle", "get", "install", "body"},
         pc # "idle", heap'[job[Worker].rec] = r,
         InLine => TableAgrees' /\ RunAgrees(job'[Worker], r, table')
  PROVE Agree'
<1>1. /\ InLine' => InLine
      /\ UNCHANGED item /\ UNCHANGED runVars /\ job'[Worker].pc = pc
  BY DEF Goes, InLine, history
<1> QED
  BY <1>1, RunAtAgrees, RunShowsAgree DEF runVars

LEMMA BeginAgree == IInv /\ Turns /\ Turns' /\ Files /\ Agree /\ Begin => Agree'
<1> SUFFICES ASSUME IInv, Turns, Turns', Files, Agree, Begin PROVE Agree'
  OBVIOUS
<1>1. /\ current = "none" /\ covered[P] < requested[P]
      /\ UNCHANGED <<requested, covered>>
      /\ UNCHANGED <<heap, item, table, protocol>> /\ UNCHANGED <<clash, cut>>
      /\ job'[Worker].pc \in {"idle", "compute"}
  <2>1. Idle.pc = "idle"
    BY DEF Idle
  <2> QED
    BY <2>1, BeginEffect DEF data, history
<1>2. covered[P] # requested[P] /\ job[Worker].pc = "idle"
  BY <1>1 DEF IInv, RunsOK, Turns, RunTurns
<1>3. ASSUME InLine'
      PROVE /\ Agrees(heap[item], table, {"state"}) /\ TableAgrees
            /\ requested[P] # covered[P] /\ table \in GoodRecord /\ table # NoRecord
  <2>1. InLine
    BY <1>1, <1>3 DEF InLine
  <2>2. requested[P] # 0
    BY <1>1, <1>2 DEF IInv, RunsOK
  <2> QED
    BY <1>2, <2>1, <2>2, GoodIsRecord DEF Agree, RunsAgree, IInv, Asked
<1>4. InLine' => TableAgrees' /\ table.state # "FINALIZED"
  BY <1>1, <1>3 DEF TableAgrees
<1>5. job'[Worker].pc = "compute" => RunDiffers(job'[Worker]) = {"state"}
  BY DEF RunDiffers
<1>6. InLine' /\ job'[Worker].pc = "compute"
        => RunAgrees(job'[Worker], heap'[item'], table')
  BY <1>1, <1>3, <1>4, <1>5 DEF RunAgrees
<1> QED
  BY <1>1, <1>3, <1>4, <1>6, RunShowsAgree

LEMMA RunComputeAgree ==
  ASSUME IInv, Turns, Turns', Files, Agree, Compute(Worker)
  PROVE Agree'
<1>1. /\ job[Worker].pc = "compute" /\ Worker \in Actor
      /\ job[Worker].pc \notin {"idle", "get", "install", "body"}
      /\ RunDiffers(job[Worker]) = {"state"}
  BY DEF Compute, Actor, RunDiffers
<1>2. /\ Goes(Worker, "sign") /\ UNCHANGED <<heap, table, protocol>>
      /\ DOMAIN job'[Worker].cards = Key /\ UNCHANGED runVars
      /\ \A k \in Key : job'[Worker].cards[k].status \in Machine
  BY <1>1, ComputeEffect DEF data, Goes
<1>3. job'[Worker].pc = "sign" /\ RunDiffers(job'[Worker]) = {"state"}
  BY <1>2 DEF Goes, RunDiffers
<1>4. InLine => TableAgrees' /\ RunAgrees(job'[Worker], Mine(Worker), table')
  BY <1>1, <1>2, <1>3, RunAtAgrees, TableStays DEF RunAgrees
<1>5. heap'[job[Worker].rec] = Mine(Worker)
  BY <1>2 DEF Mine
<1> QED
  BY <1>1, <1>2, <1>4, <1>5, RunMovesAgree

\* A card the run puts in the place of a decision is that decision, or has
\* other numbers, or no contradiction.
LEMMA CarryKeeps ==
  ASSUME NEW p \in GoodFinding \cup {NoFinding}, NEW f \in GoodFinding,
         f.status \in Machine
  PROVE Keeping(p, Carry(p, f))
<1> SUFFICES ASSUME Human(p) PROVE Keeping(p, Carry(p, f))
  BY DEF Keeping
<1>1. p \in GoodFinding /\ p # NoFinding /\ p.status \in HumanOnlyStatuses
  BY DEF Human
<1>2. CASE f.status = "CANDIDATE" /\ p.value = f.value
  <2>1. Carry(p, f) = [f EXCEPT !.status = p.status, !.signed = p.signed]
    BY <1>1, <1>2 DEF Carry
  <2>2. Carry(p, f) = p
    BY <1>1, <1>2, <2>1 DEF GoodFinding, Finding
  <2> QED
    BY <2>2 DEF Keeping
<1>3. CASE ~ (f.status = "CANDIDATE" /\ p.value = f.value)
  <2>1. Carry(p, f) = f
    BY <1>3 DEF Carry
  <2> QED
    BY <1>3, <2>1 DEF Keeping
<1> QED
  BY <1>2, <1>3

LEMMA RunSignAgree ==
  ASSUME IInv, Turns, Turns', Files, Agree, Sign(Worker)
  PROVE Agree'
<1> DEFINE k == job'[Worker].arg
           new == job'[Worker].cards[k]
           r == [Mine(Worker) EXCEPT !.findings[k] = new]
<1>1. /\ job[Worker].pc = "sign" /\ Worker \in Actor
      /\ job[Worker].pc \notin {"idle", "get", "install", "body"}
      /\ RunDiffers(job[Worker]) = {"state"}
  BY DEF Sign, Actor, RunDiffers
<1>2. Mine(Worker) \in GoodRecord /\ job[Worker] \in GoodJob
  BY <1>1, RunAt, Mine1
<1>3. /\ Goes(Worker, "save") /\ UNCHANGED <<table, protocol>> /\ UNCHANGED runVars
      /\ k \in DOMAIN job[Worker].cards
      /\ DOMAIN job'[Worker].cards = DOMAIN job[Worker].cards
      /\ \A x \in DOMAIN job[Worker].cards :
           x # k => job'[Worker].cards[x] = job[Worker].cards[x]
      /\ new = Carry(Mine(Worker).findings[k], job[Worker].cards[k])
      /\ Alters(Worker, r)
  BY <1>1, SignEffect DEF Goes
<1>4. /\ r.files = Mine(Worker).files /\ r.state = Mine(Worker).state
      /\ r.blobs = Mine(Worker).blobs /\ r.attempts = Mine(Worker).attempts
      /\ r.findings = [Mine(Worker).findings EXCEPT ![k] = new]
      /\ r.groups = Mine(Worker).groups /\ r.approved = Mine(Worker).approved
  BY <1>2 DEF GoodRecord
<1>5. /\ job[Worker].cards[k] \in GoodFinding /\ k \in Key
      /\ Mine(Worker).findings[k] \in GoodFinding \cup {NoFinding}
  BY <1>2, <1>3, CardsFacts DEF GoodJob, GoodRecord
<1>6. heap'[job[Worker].rec] = r
  BY <1>3 DEF Alters
<1>7. job'[Worker].pc = "save" /\ RunDiffers(job'[Worker]) = {"state", "findings"}
  BY <1>3 DEF Goes, RunDiffers
<1> HIDE DEF r
<1>8. ASSUME InLine PROVE TableAgrees' /\ RunAgrees(job'[Worker], r, table')
  <2>1. /\ Agrees(Mine(Worker), table, {"state"}) /\ table.state # "FINALIZED"
        /\ \A x \in DOMAIN job[Worker].cards : job[Worker].cards[x].status \in Machine
        /\ TableAgrees
    BY <1>1, <1>8, RunAtAgrees DEF RunAgrees
  <2>2. /\ Agrees(r, table, {"state", "findings"})
        /\ Mine(Worker).findings = table.findings
    BY <1>4, <2>1 DEF Agrees, SameBut, Within
  <2>3. Keeping(table.findings[k], new)
    BY <1>3, <1>5, <2>1, <2>2, CarryKeeps
  <2> QED
    BY <1>3, <1>4, <1>7, <2>1, <2>2, <2>3, TableStays DEF RunAgrees
<1> QED
  BY <1>1, <1>3, <1>6, <1>8, RunMovesAgree

LEMMA RunSaveAgree ==
  ASSUME IInv, Turns, Turns', Files, Agree, Save(Worker)
  PROVE Agree'
<1> DEFINE k == job[Worker].arg
           new == job[Worker].cards[k]
<1>1. /\ job[Worker].pc = "save" /\ Worker \in Actor
      /\ job[Worker].pc \notin {"idle", "get", "install", "body"}
      /\ RunDiffers(job[Worker]) = {"state", "findings"}
  BY DEF Save, Actor, RunDiffers
<1>2. /\ Goes(Worker, "sign") \/ Goes(Worker, "regroup")
      /\ DOMAIN job'[Worker].cards = DOMAIN job[Worker].cards \ {k}
      /\ \A x \in DOMAIN job[Worker].cards \ {k} :
           job'[Worker].cards[x] = job[Worker].cards[x]
      /\ table' = [table EXCEPT !.findings[k] = new]
      /\ UNCHANGED <<heap, protocol>>
  BY <1>1, SaveEffect
<1>3. /\ job'[Worker].pc \in {"sign", "regroup"}
      /\ RunDiffers(job'[Worker]) = {"state"}
  BY <1>2 DEF Goes, RunDiffers
<1>4. ASSUME InLine PROVE TableAgrees' /\ RunAgrees(job'[Worker], Mine(Worker), table')
  <2>1. /\ Agrees(Mine(Worker), table, {"state", "findings"})
        /\ table.state # "FINALIZED"
        /\ Mine(Worker).findings = [table.findings EXCEPT ![k] = new]
        /\ \A x \in DOMAIN job[Worker].cards \ {k} :
             job[Worker].cards[x].status \in Machine
        /\ TableAgrees /\ table \in GoodRecord /\ table # NoRecord
    BY <1>1, <1>4, RunAtAgrees DEF RunAgrees
  <2>2. /\ table'.files = table.files /\ table'.blobs = table.blobs
        /\ table'.state = table.state /\ table'.attempts = table.attempts
        /\ table'.findings = [table.findings EXCEPT ![k] = new]
        /\ table'.groups = table.groups /\ table'.approved = table.approved
    BY <1>2, <2>1 DEF GoodRecord
  <2>3. Agrees(Mine(Worker), table', {"state"})
    BY <2>1, <2>2 DEF Agrees, SameBut
  <2>4. TableAgrees'
    BY <2>1, <2>2, TableShows DEF TableAgrees
  <2>5. \A x \in DOMAIN job'[Worker].cards : job'[Worker].cards[x].status \in Machine
    BY <1>2, <2>1
  <2> QED
    BY <1>3, <2>1, <2>2, <2>3, <2>4, <2>5 DEF RunAgrees
<1>5. heap'[job[Worker].rec] = Mine(Worker)
  BY <1>2 DEF Mine
<1>6. CASE Goes(Worker, "sign")
  BY <1>1, <1>4, <1>5, <1>6, RunMovesAgree
<1>7. CASE Goes(Worker, "regroup")
  BY <1>1, <1>4, <1>5, <1>7, RunMovesAgree
<1> QED
  BY <1>2, <1>6, <1>7

LEMMA RunRegroupAgree ==
  ASSUME IInv, Turns, Turns', Files, Agree,
         Regroup(Worker) \/ SaveGroups(Worker) \/ Settle(Worker)
  PROVE Agree'
<1> DEFINE q == Mine(Worker)
<1>1. /\ job[Worker].pc \in {"regroup", "groups", "settle"} /\ Worker \in Actor
      /\ job[Worker].pc \notin {"idle", "get", "install", "body"}
  BY DEF Regroup, SaveGroups, Settle, Actor
<1>2. q \in GoodRecord
  BY <1>1, RunAt
<1>3. InLine => /\ Agrees(q, table, RunDiffers(job[Worker]))
                /\ table.state # "FINALIZED" /\ TableAgrees
                /\ table \in GoodRecord /\ table # NoRecord
  BY <1>1, RunAtAgrees DEF RunAgrees
<1>4. CASE Regroup(Worker)
  <2> DEFINE r == [q EXCEPT !.groups = job[Worker].held.files]
  <2>1. /\ Goes(Worker, "write") /\ job'[Worker].next = "groups"
        /\ Alters(Worker, r) /\ UNCHANGED <<table, protocol>> /\ UNCHANGED runVars
    BY <1>1, <1>4, RegroupEffect DEF Goes
  <2>2. /\ r.files = q.files /\ r.state = q.state
        /\ r.blobs = q.blobs /\ r.attempts = q.attempts
        /\ r.findings = q.findings /\ r.approved = q.approved
    BY <1>2 DEF GoodRecord
  <2> HIDE DEF r
  <2>3. /\ RunDiffers(job[Worker]) = {"state"} /\ job'[Worker].pc = "write"
        /\ RunDiffers(job'[Worker]) = {"state", "groups"}
    BY <1>4, <2>1 DEF Goes, RunDiffers, Regroup
  <2>4. InLine => Agrees(r, table, {"state", "groups"})
    BY <1>3, <2>2, <2>3 DEF Agrees, SameBut, Within
  <2>5. InLine => TableAgrees' /\ RunAgrees(job'[Worker], r, table')
    BY <1>3, <2>1, <2>3, <2>4, TableStays DEF RunAgrees
  <2> QED
    BY <1>1, <2>1, <2>5, RunMovesAgree DEF Alters
<1>5. CASE SaveGroups(Worker)
  <2> DEFINE r == [q EXCEPT !.attempts = @ + 1]
  <2>1. /\ Goes(Worker, "settle")
        /\ Alters(Worker, [q EXCEPT !.attempts = IF Worker = Worker THEN @ + 1 ELSE @])
        /\ table' = [table EXCEPT !.groups = q.groups] /\ UNCHANGED protocol
    BY <1>1, <1>5, SaveGroupsEffect
  <2>2. /\ r.files = q.files /\ r.state = q.state
        /\ r.blobs = q.blobs /\ r.attempts = q.attempts + 1 /\ r.groups = q.groups
        /\ r.findings = q.findings /\ r.approved = q.approved
        /\ q.attempts \in Nat /\ heap'[job[Worker].rec] = r
    BY <1>2, <2>1 DEF GoodRecord, Alters
  <2> HIDE DEF r
  <2>3. /\ RunDiffers(job[Worker]) = {"groups"} /\ job'[Worker].pc = "settle"
        /\ RunDiffers(job'[Worker]) = {"attempts"}
    BY <1>5, <2>1 DEF Goes, RunDiffers, SaveGroups
  <2>4. ASSUME InLine PROVE TableAgrees' /\ RunAgrees(job'[Worker], r, table')
    <3>1. /\ table'.files = table.files /\ table'.blobs = table.blobs
          /\ table'.state = table.state /\ table'.attempts = table.attempts
          /\ table'.findings = table.findings /\ table'.groups = q.groups
          /\ table'.approved = table.approved
      BY <1>3, <2>1, <2>4 DEF GoodRecord
    <3>2. Within(q)
      BY <1>1, <1>5, <2>4, RunAtAgrees DEF RunStep, SaveGroups
    <3>3. SameBut(q, table, {"groups"}) /\ q.findings = table.findings
      BY <1>3, <2>3, <2>4, <3>2 DEF Agrees
    <3>4. Agrees(r, table', {"attempts"}) /\ r.attempts = table'.attempts + 1
      BY <1>3, <2>2, <2>4, <3>1, <3>3 DEF Agrees, SameBut
    <3>5. TableAgrees'
      BY <1>3, <2>4, <3>1, TableShows DEF TableAgrees
    <3> QED
      BY <1>3, <2>3, <2>4, <3>1, <3>4, <3>5 DEF RunAgrees
  <2> QED
    BY <1>1, <2>1, <2>2, <2>4, RunMovesAgree
<1>6. CASE Settle(Worker)
  <2> DEFINE s == IF Worker = Worker /\ q.state = "PARSING" THEN "READY" ELSE q.state
             r == [q EXCEPT !.state = s]
  <2>1. /\ Goes(Worker, "write") /\ job'[Worker].next = "idle"
        /\ Alters(Worker, r) /\ UNCHANGED <<table, protocol>> /\ UNCHANGED runVars
    BY <1>1, <1>6, SettleEffect DEF Goes
  <2>2. /\ r.files = q.files /\ r.groups = q.groups
        /\ r.blobs = q.blobs /\ r.attempts = q.attempts
        /\ r.findings = q.findings /\ r.approved = q.approved
    BY <1>2 DEF GoodRecord
  <2> HIDE DEF r
  <2>3. /\ RunDiffers(job[Worker]) = {"attempts"} /\ job'[Worker].pc = "write"
        /\ RunDiffers(job'[Worker]) = {"attempts", "state"}
    BY <1>6, <2>1 DEF Goes, RunDiffers, Settle
  <2>4. InLine => Agrees(r, table, {"attempts", "state"})
    BY <1>3, <2>2, <2>3 DEF Agrees, SameBut, Within
  <2>5. InLine => r.attempts = table.attempts + 1
    BY <1>1, <1>6, <2>2, RunAtAgrees DEF RunAgrees, Settle
  <2>6. InLine => TableAgrees' /\ RunAgrees(job'[Worker], r, table')
    BY <1>3, <2>1, <2>3, <2>4, <2>5, TableStays DEF RunAgrees
  <2> QED
    BY <1>1, <2>1, <2>6, RunMovesAgree DEF Alters
<1> QED
  BY <1>4, <1>5, <1>6

LEMMA RunWriteAgree ==
  ASSUME IInv, Turns, Turns', Files, Agree, Write(Worker)
  PROVE Agree'
<1> DEFINE h == job[Worker].held
           r == Mine(Worker)
           n == job[Worker].next
<1>1. /\ job[Worker].pc = "write" /\ Worker \in Actor
      /\ job[Worker].pc \notin {"idle", "get", "install", "body"}
  BY DEF Write, Actor
<1>2. r \in GoodRecord /\ n \in {"groups", "idle"}
  BY <1>1, RunAt DEF At
<1>3. /\ InLine' => InLine
      /\ UNCHANGED <<heap, item, protocol>>
  BY <1>1, WriteEffect DEF InLine, history
<1>4. InLine => /\ RunStep(job[Worker], item, r, table)
                /\ RunAgrees(job[Worker], r, table) /\ TableAgrees
                /\ h = Row(Fresh, r) /\ r.state \in {"PARSING", "READY"}
                /\ table \in GoodRecord /\ table # NoRecord
                /\ job[Worker].rec = item
  BY <1>1, RunAtAgrees DEF RunStep
<1>5. Row(Fresh, r).state = r.state /\ Row(Fresh, r).attempts = r.attempts
  BY DEF Row, Fresh
<1>6. RunDiffers(job[Worker]) = IF n = "groups" THEN {"state", "groups"}
                                                ELSE {"attempts", "state"}
  BY <1>1, <1>2 DEF RunDiffers
<1>7. ASSUME InLine', Return(Worker)
      PROVE /\ \A c \in Client : ~ InFlight(c)'
            /\ requested'[P] = covered'[P]
  <2>1. \A c \in Client : job'[c] = job[c] /\ ~ InFlight(c)
    BY <1>1, <1>3, <1>7, RunKnows, Actors, LineOrder DEF Return, IInv, Types, Actor
  <2>2. requested' = requested /\ covered' = [covered EXCEPT ![P] = upTo]
          /\ upTo = requested[P]
    BY <1>1, <1>3, <1>7, RunAt, LineOrder DEF Return, Runs!End
  <2> QED
    BY <2>1, <2>2 DEF InFlight, IInv, RunsOK
<1>8. CASE /\ ~ (h.state # "FINALIZED" /\ Within(h)) /\ Return(Worker)
           /\ UNCHANGED table
  <2>1. ASSUME InLine' PROVE TableAgrees' /\ Agrees(heap'[item'], table', {})
    <3>1. ~ Within(r)
      BY <1>3, <1>4, <1>5, <1>8, <2>1 DEF Within
    <3>2. Agrees(r, table, {}) /\ table.state # "FINALIZED"
      BY <1>3, <1>4, <1>6, <2>1, <3>1 DEF RunAgrees, Agrees
    <3> QED
      BY <1>3, <1>4, <1>8, <2>1, <3>2, TableShows DEF TableAgrees, Mine
  <2> QED
    BY <1>7, <1>8, <2>1, RestAgreeShows
<1>9. ASSUME InLine, Within(h),
             table' = Row(IF table = NoRecord THEN Fresh ELSE table, h)
      PROVE /\ TableAgrees' /\ table'.state # "FINALIZED"
            /\ Agrees(r, table', IF n = "groups" THEN {"groups"} ELSE {})
  <2> DEFINE D == RunDiffers(job[Worker])
  <2>1. Within(r) /\ table' = Row(table, Row(Fresh, r)) /\ Agrees(r, table, D)
    BY <1>4, <1>5, <1>9 DEF Within, RunAgrees
  <2> HIDE DEF D
  <2>2. /\ table'.state = r.state /\ table'.files = r.files
        /\ table'.blobs = table.blobs
        /\ Agrees(r, table', D \ {"state", "files", "attempts"})
    BY <1>2, <1>4, <1>9, <2>1, RowWritten
  <2>3. /\ D \ {"state", "files", "attempts"} = IF n = "groups" THEN {"groups"} ELSE {}
        /\ "files" \notin D
    BY <1>2, <1>6 DEF D
  <2>4. TableAgrees'
    BY <1>4, <1>9, <2>1, <2>2, <2>3, TableShows DEF TableAgrees, Agrees, SameBut
  <2> QED
    BY <1>4, <1>9, <2>2, <2>3, <2>4
<1>10. CASE /\ Within(h)
            /\ table' = Row(IF table = NoRecord THEN Fresh ELSE table, h)
            /\ n = "idle" /\ Return(Worker)
  <2>1. InLine' => TableAgrees' /\ Agrees(heap'[item'], table', {})
    BY <1>3, <1>4, <1>9, <1>10 DEF Mine
  <2> QED
    BY <1>7, <1>10, <2>1, RestAgreeShows
<1>11. CASE /\ Within(h)
            /\ table' = Row(IF table = NoRecord THEN Fresh ELSE table, h)
            /\ n # "idle" /\ Goes(Worker, n)
  <2>1. n = "groups" /\ heap'[job[Worker].rec] = r
    BY <1>2, <1>3, <1>11 DEF Mine
  <2>2. Goes(Worker, "groups")
    BY <1>11, <2>1
  <2>3. job'[Worker].pc = "groups" /\ RunDiffers(job'[Worker]) = {"groups"}
    BY <2>2 DEF Goes, RunDiffers
  <2>4. InLine => TableAgrees' /\ RunAgrees(job'[Worker], r, table')
    BY <1>9, <1>11, <2>1, <2>3 DEF RunAgrees
  <2> QED
    BY <1>1, <2>1, <2>2, <2>4, RunMovesAgree
<1> QED
  BY <1>1, <1>8, <1>10, <1>11, WriteEffect

LEMMA SkipAgree == IInv /\ Turns /\ Files /\ Skip => Agree'
<1> SUFFICES ASSUME IInv, Turns, Files, Skip PROVE Agree'
  OBVIOUS
<1>1. ~ InOrder
  BY DEF Files, RunFiles, Skip, Turns, RunTurns, IInv, RunsOK
<1> QED
  BY <1>1 DEF Agree, InLine, InOrder, Skip, history

LEMMA FaultAgree ==
  ASSUME NEW a \in Actor, Fault(a)
  PROVE Agree'
BY DEF Agree, InLine, Fault

LEMMA RestartAgree == IInv /\ Turns /\ Turns' /\ Agree /\ Restart => Agree'
<1> SUFFICES ASSUME IInv, Turns, Turns', Agree, Restart PROVE Agree'
  OBVIOUS
<1>1. /\ item' = NoOne /\ UNCHANGED <<table, protocol>> /\ NoOne \notin Client
      /\ requested'[P] = covered'[P] /\ \A c \in Client : ~ InFlight(c)'
  BY Actors DEF Restart, InFlight, Idle, Actor
<1>2. InLine' => TableAgrees
  BY DEF InLine, Restart, IInv, HistoryOK, Agree
<1>3. TableAgrees => TableAgrees'
  BY <1>1 DEF TableAgrees
<1> QED
  BY <1>1, <1>2, <1>3, RestAgreeShows

LEMMA HandlerAgree ==
  ASSUME IInv, IInv', Turns, Turns', Files, Agree, NEW c \in Client, Handler(c)
  PROVE Agree'
<1>1. CASE Get(c) \/ Install(c) \/ Reject(c) \/ Create(c)
  BY <1>1, GetAgree, InstallAgree, RejectAgree, CreateAgree
<1>2. CASE (\E f \in File : Attach(c, f)) \/ KeepBlob(c) \/ Reopen(c)
  BY <1>2, AttachAgree, KeepBlobAgree, ReopenAgree
<1>3. CASE Review(c) \/ Confirm(c) \/ Open(c) \/ Check(c)
  BY <1>3, DecideAgree, OpenAgree, CheckAgree
<1>4. CASE Assign(c) \/ Assemble(c) \/ Materialize(c)
  BY <1>4, AssignAgree, AssembleAgree, MaterializeAgree
<1>5. CASE Select(c) \/ Audited(c) \/ Replace(c) \/ Clear(c)
  BY <1>5, SelectAgree, AuditedAgree, ReplaceAgree, ClearAgree
<1> QED
  BY <1>1, <1>2, <1>3, <1>4, <1>5 DEF Handler

LEMMA ThreadAgree ==
  ASSUME IInv, Turns, Turns', Files, Agree, NEW a \in Actor, Thread(a)
  PROVE Agree'
<1>1. CASE a = Worker
  BY <1>1, RunComputeAgree, RunSignAgree, RunSaveAgree, RunRegroupAgree,
     RunWriteAgree DEF Thread
<1>2. CASE a \in Client
  BY <1>2, SignAgree, SaveAgree, ReplaceAgree, RegroupAgree, WriteAgree DEF Thread
<1> QED
  BY <1>1, <1>2 DEF Actor

LEMMA NextAgree ==
  IInv /\ IInv' /\ Turns /\ Turns' /\ Files /\ Agree /\ [Next]_vars => Agree'
<1> SUFFICES ASSUME IInv, IInv', Turns, Turns', Files, Agree, [Next]_vars PROVE Agree'
  OBVIOUS
<1>1. CASE \E c \in Client : Handler(c) \/ \E op \in Ops \ {"run"} : Arrive(c, op)
  BY <1>1, HandlerAgree, ArriveAgree
<1>2. CASE \E a \in Actor : Thread(a) \/ Fault(a)
  BY <1>2, ThreadAgree, FaultAgree
<1>3. CASE Begin
  BY <1>3, BeginAgree
<1>4. CASE Skip \/ Restart
  BY <1>4, SkipAgree, RestartAgree
<1>5. CASE UNCHANGED vars
  BY <1>5, QuietAgree DEF vars, history
<1> QED
  BY <1>1, <1>2, <1>3, <1>4, <1>5 DEF Next

-----------------------------------------------------------------------------
(* The three layers hold in every behaviour.                               *)

AgreementInv == IInv /\ Turns /\ Files /\ Made /\ Agree

LEMMA InitAgreement == Init => AgreementInv
<1>1. Init => Made
  BY Actors DEF Init, Made, Actor
<1> QED
  BY <1>1, InitInv, InitTurns, InitFiles, InitAgree DEF AgreementInv

LEMMA NextAgreement == AgreementInv /\ [Next]_vars => AgreementInv'
<1> SUFFICES ASSUME AgreementInv, [Next]_vars PROVE AgreementInv'
  OBVIOUS
<1>1. IInv /\ Turns /\ Files /\ Made /\ Agree
  BY DEF AgreementInv
<1>2. IInv'
  BY <1>1, NextInv
<1>3. Turns'
  BY <1>1, NextTurns
<1>4. Files'
  BY <1>1, <1>2, <1>3, NextFiles
<1>5. Made'
  BY <1>1, <1>2, <1>3, NextMade
<1>6. Agree'
  BY <1>1, <1>2, <1>3, NextAgree
<1> QED
  BY <1>2, <1>3, <1>4, <1>5, <1>6 DEF AgreementInv

\* Whatever requests, runs, failures and restarts do: who is under way together
\* with whom, which files a record, its row and a run have, and in which fields
\* memory and table may differ is, at each step, as the three layers say.
THEOREM Agreement == Spec => []AgreementInv
BY InitAgreement, NextAgreement, PTL DEF Spec

-----------------------------------------------------------------------------
(* The properties.                                                         *)

LEMMA InvCompared == AgreementInv => EveryFileCompared
<1> SUFFICES ASSUME AgreementInv, InOrder, item # NoOne,
                    \A c \in Client : ~ Uploading(c),
                    heap[item].attempts <= MaxParse, heap[item].state # "PARSING"
             PROVE heap[item].files \subseteq heap[item].groups
  BY DEF EveryFileCompared, InOrder
<1>1. IInv /\ Turns /\ Files /\ Made
  BY DEF AgreementInv
<1>2. item \in Client /\ Worker \in Actor
  BY <1>1 DEF IInv, Types, Actor
<1>3. CASE requested[P] = covered[P]
  <2>1. table # NoRecord
    BY <1>1, <1>2 DEF Made, Changing
  <2>2. Calm /\ Live(item)
    BY <1>3 DEF Calm, Changing, Live
  <2>3. Settled(heap[item], table)
    BY <1>1, <1>2, <2>1, <2>2 DEF Files, RestFiles
  <2> QED
    BY <2>3 DEF Settled, Within, Compared
<1>4. CASE requested[P] # covered[P]
  <2>1. /\ job[Worker].pc # "idle"
        /\ RunStep(job[Worker], item, heap[item], table)
    BY <1>1, <1>4 DEF Files, RunFiles
  <2>2. job[Worker].pc = "write" /\ job[Worker].next = "idle"
    BY <2>1 DEF RunStep
  <2> QED
    BY <2>1, <2>2 DEF RunStep
<1> QED
  BY <1>3, <1>4

\* As long as no upload overlaps another request and nothing stops half-way: a
\* file that was uploaded is compared before its process leaves PARSING, in
\* every order of uploads, reviews, selections of a revision and runs.
THEOREM FilesAreCompared == Spec => []EveryFileCompared
BY Agreement, InvCompared, PTL

LEMMA InvClosed == AgreementInv => ProtocolIsClosed
BY DEF AgreementInv, Agree, InLine, TableAgrees, Closed, ProtocolIsClosed

\* Requests one after another: the protocol that a finalized process has shows
\* the files and the cards of the table, all files compared and no candidate
\* open, and no run, upload or decision after it makes that untrue.
THEOREM ProtocolStaysClosed == Spec => []ProtocolIsClosed
BY Agreement, InvClosed, PTL

LEMMA InvMatches == AgreementInv => MemoryMatchesTable
<1> SUFFICES ASSUME AgreementInv, InLine, Quiet, item # NoOne,
                    heap[item].attempts <= MaxParse
             PROVE heap[item] = table
  BY DEF MemoryMatchesTable, InLine
<1>1. IInv /\ Turns /\ Made /\ Agree /\ InOrder
  BY LineOrder DEF AgreementInv
<1>2. item \in Client /\ heap[item] \in GoodRecord
  BY <1>1 DEF IInv, Types, Loaded
<1>3. \A c \in Client : job[c].pc = "idle" /\ job[c].op = "none"
  <2> SUFFICES ASSUME NEW c \in Client PROVE job[c].pc = "idle" /\ job[c].op = "none"
    OBVIOUS
  <2>1. c \in Actor
    BY DEF Actor
  <2>2. job[c].pc = "idle"
    BY <2>1 DEF Quiet
  <2>3. OpTurns
    BY <1>1 DEF Turns
  <2> QED
    BY <2>1, <2>2, <2>3 DEF OpTurns
<1>4. \A c \in Client : ~ InFlight(c) /\ ~ Changing(c)
  BY <1>3 DEF InFlight, Changing, Uploading
<1>5. table \in GoodRecord
  BY <1>1, <1>2, <1>4 DEF Made, IInv, Types
<1>6. Agrees(heap[item], table, {})
  BY <1>1, <1>2, <1>4, <1>5, GoodIsRecord, RestKnows DEF Quiet
<1>7. /\ heap[item].findings = table.findings /\ SameBut(heap[item], table, {})
  BY <1>6 DEF Agrees, Within
<1> QED
  BY <1>2, <1>5, <1>7 DEF SameBut, GoodRecord

\* Requests one after another: once everything asked for is done, a restart
\* loads exactly the record that was in memory.
THEOREM RestartLosesNothing == Spec => []MemoryMatchesTable
BY Agreement, InvMatches, PTL

-----------------------------------------------------------------------------
(* Which steps change the cards of the table.                              *)

CardsStay == table # NoRecord => table'.findings = table.findings

LEMMA HandlerCards ==
  ASSUME IInv, NEW c \in Client, Handler(c)
  PROVE CardsStay \/ Clear(c)
<1>1. table # NoRecord => table \in GoodRecord
  BY DEF IInv, Types
<1>2. CASE Get(c) \/ Install(c) \/ Reject(c) \/ Create(c)
           \/ (\E f \in File : Attach(c, f)) \/ Reopen(c)
  BY <1>2 DEF Get, Install, Reject, Create, Attach, Reopen, data, CardsStay
<1>3. CASE Review(c) \/ Confirm(c) \/ Open(c) \/ Check(c) \/ Assign(c)
           \/ Assemble(c) \/ Select(c) \/ Replace(c)
  BY <1>3 DEF Review, Confirm, Decide, Open, Check, Assign, Assemble, Select,
     Replace, data, CardsStay
<1>4. CASE KeepBlob(c) \/ Audited(c)
  BY <1>1, <1>4 DEF KeepBlob, Audited, GoodRecord, CardsStay
<1>5. CASE Materialize(c)
  BY <1>1, <1>5 DEF Materialize, Row, GoodRecord, CardsStay
<1> QED
  BY <1>2, <1>3, <1>4, <1>5 DEF Handler

LEMMA ThreadCards ==
  ASSUME IInv, NEW a \in Actor, Thread(a)
  PROVE CardsStay \/ Save(a)
<1>1. table # NoRecord => table \in GoodRecord
  BY DEF IInv, Types
<1>2. CASE Sign(a) \/ Compute(a) \/ Regroup(a) \/ Settle(a)
  BY <1>2 DEF Sign, Compute, Regroup, Settle, data, CardsStay
<1>3. CASE SaveGroups(a)
  BY <1>1, <1>3 DEF SaveGroups, GoodRecord, CardsStay
<1>4. CASE Write(a)
  BY <1>1, <1>4 DEF Write, Row, GoodRecord, CardsStay
<1> QED
  BY <1>2, <1>3, <1>4 DEF Thread

\* select_revision puts its cards in the place of all, none of them decided.
LEMMA ClearKeeps ==
  ASSUME IInv, Turns, Agree, InLine, NEW c \in Client, Clear(c), NEW k \in Key
  PROVE ~ Human(table.findings[k])
<1>1. /\ job[c].pc = "clear" /\ job[c].pc \notin {"idle", "get", "install", "body"}
      /\ ~ Making(job[c])
  BY DEF Clear, Making
<1>2. ClientStep(job[c], item, Mine(c), table)
  BY <1>1, ClientAt
<1> QED
  BY <1>1, <1>2 DEF ClientStep

\* save_finding exchanges one card.
LEMMA SaveKeeps ==
  ASSUME IInv, Turns, Files, Agree, InLine, NEW a \in Actor, Save(a),
         table \in GoodRecord, NEW k \in Key
  PROVE Keeping(table.findings[k], table'.findings[k])
<1> DEFINE x == job[a].arg
<1>1. /\ job[a].pc = "save" /\ job[a].pc \notin {"idle", "get", "install", "body"}
      /\ ~ Making(job[a])
  BY DEF Save, Making
<1>2. table'.findings = [table.findings EXCEPT ![x] = job[a].cards[x]]
  BY SaveEffect DEF GoodRecord
<1>3. job[a] \in GoodJob /\ x \in DOMAIN job[a].cards
  BY <1>1, Mine1 DEF KnowsOf
<1>4. x \in Key
  BY <1>3, CardsFacts DEF GoodJob
<1>5. Keeping(table.findings[x], job[a].cards[x])
  <2>1. CASE a = Worker
    <3>1. RunAgrees(job[Worker], Mine(Worker), table)
      BY <1>1, <2>1, RunAtAgrees
    <3> QED
      BY <1>1, <2>1, <3>1 DEF RunAgrees
  <2>2. CASE a \in Client
    <3>1. ClientStep(job[a], item, Mine(a), table)
      BY <1>1, <2>2, ClientAt
    <3> QED
      BY <1>1, <1>3, <3>1 DEF ClientStep, Keeping
  <2> QED
    BY <2>1, <2>2 DEF Actor
<1>6. CASE k = x
  BY <1>2, <1>4, <1>5, <1>6 DEF GoodRecord
<1>7. CASE k # x
  BY <1>2, <1>7 DEF GoodRecord, Keeping
<1> QED
  BY <1>6, <1>7

LEMMA InLineBefore ==
  ASSUME IInv, NEW a \in Actor, Save(a) \/ Clear(a), InLine'
  PROVE InLine
<1>1. UNCHANGED history
  BY DEF Save, Clear
<1> QED
  BY <1>1 DEF InLine, history

LEMMA StepKeeps ==
  ASSUME IInv, Turns, Files, Agree, Next, InLine', table # NoRecord, NEW k \in Key
  PROVE Keeping(table.findings[k], table'.findings[k])
<1>1. table \in GoodRecord
  BY DEF IInv, Types
<1>2. CASE CardsStay
  BY <1>2 DEF CardsStay, Keeping
<1>3. ASSUME NEW c \in Client, Clear(c) PROVE ~ Human(table.findings[k])
  BY <1>3, InLineBefore, ClearKeeps DEF Actor
<1>4. ASSUME NEW a \in Actor, Save(a)
      PROVE Keeping(table.findings[k], table'.findings[k])
  BY <1>1, <1>4, InLineBefore, SaveKeeps
<1>5. CASE \E c \in Client : Handler(c)
  BY <1>2, <1>3, <1>5, HandlerCards DEF Keeping
<1>6. CASE \E a \in Actor : Thread(a)
  BY <1>2, <1>4, <1>6, ThreadCards
<1>7. CASE \E c \in Client : \E op \in Ops \ {"run"} : Arrive(c, op)
  BY <1>2, <1>7 DEF Arrive, data, CardsStay
<1>8. CASE (\E a \in Actor : Fault(a)) \/ Begin \/ Skip \/ Restart
  BY <1>2, <1>8 DEF Fault, Begin, Skip, Restart, data, CardsStay
<1> QED
  BY <1>5, <1>6, <1>7, <1>8 DEF Next

LEMMA StepDecision ==
  ASSUME AgreementInv, [Next]_vars, NEW k \in Key,
         clash' = "none", ~ cut', table # NoRecord,
         table.findings[k] # NoFinding,
         table.findings[k].status \in HumanOnlyStatuses,
         table'.findings[k] # table.findings[k]
  PROVE /\ table'.findings[k].status \in Machine
        /\ \/ table'.findings[k].value # table.findings[k].value
           \/ table'.findings[k].status # "CANDIDATE"
<1>1. Next
  BY DEF vars, data
<1>2. IInv /\ Turns /\ Files /\ Agree /\ InLine'
  BY DEF AgreementInv, InLine
<1>3. Keeping(table.findings[k], table'.findings[k])
  BY <1>1, <1>2, StepKeeps
<1> QED
  BY <1>3 DEF Keeping, Human

\* Requests one after another and nothing cut short: a step that takes a decision
\* of an inspector out of the table puts a card of the machine there, with other
\* numbers or without a contradiction; a decision about the same contradiction
\* is never lost or changed by a run or by another selection of a revision.
THEOREM DecisionsAreKept == Spec => DecisionKept
<1>1. AgreementInv /\ [Next]_vars =>
        [\A k \in Key :
           (/\ clash' = "none" /\ ~ cut' /\ table # NoRecord
            /\ table.findings[k] # NoFinding
            /\ table.findings[k].status \in HumanOnlyStatuses
            /\ table'.findings[k] # table.findings[k])
           => /\ table'.findings[k].status \in Machine
              /\ \/ table'.findings[k].value # table.findings[k].value
                 \/ table'.findings[k].status # "CANDIDATE"]_vars
  BY StepDecision
<1> QED
  BY <1>1, Agreement, PTL DEF Spec, DecisionKept
=============================================================================
