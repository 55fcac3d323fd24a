-------------------------- MODULE LiveClientProofs --------------------------
(***************************************************************************)
(* Proofs about LiveClient for any files, findings, matrix, tokens, stores *)
(* and bounds: what the idle page shows is what the service has, what the  *)
(* page calls the protocol is final and says what the screen says, and so  *)
(* do the files.                                                           *)
(*                                                                         *)
(* The first part is the service: every endpoint keeps the processes good  *)
(* (GoodProcess), and the paper of a good process says what its findings   *)
(* say.  The second part is the page: what its job still has to ask is     *)
(* always a rest of one of the sequences of requests of the code (Todo),   *)
(* and between the requests of a refresh the page has the parts of one and *)
(* the same state of the service, unless it knows better (FreshOK).        *)
(***************************************************************************)
EXTENDS LiveClient, FiniteSetTheorems, SequenceTheorems, WellFoundedInduction, TLAPS

-----------------------------------------------------------------------------
(* The service.                                                            *)

\* A protocol that is in force is the one the findings make.
InForce(r) ==
  /\ r.state = "FINALIZED" <=> r.protocol # 0
  /\ r.protocol # 0 => \E paper \in r.papers : paper.version = r.protocol
  /\ \A paper \in r.papers :
       r.protocol # 0 /\ paper.version = r.protocol => paper = AssembleProtocol(r, r.protocol)

\* A process: nobody but a person says that something is violated, or is not.
GoodProcess ==
  {r \in Process :
     /\ r.state = "FINALIZED" => Candidates(r) = {}
     /\ r.sync # "NOT_REQUESTED" => r.state = "FINALIZED"
     /\ \A i \in Findings(r) :
          r.findings[i].status \in HumanOnlyStatuses => r.findings[i].decided
     /\ InForce(r) /\ IsFiniteSet(r.papers)}

ServiceOK == srv \in Seq(GoodProcess) /\ Len(srv) <= MaxProcess

-----------------------------------------------------------------------------
(* The requests of a press.                                                *)

Reads == {"documents", "findings", "status"}
OpsOf ==
  [upload |-> Reads \cup {"upload"}, kit |-> Reads \cup {"kit"},
   etalon |-> Reads \cup {"select"}, confirm |-> Reads \cup {"confirm"},
   decide |-> Reads \cup {"review", "card"},
   protocol |-> Reads \cup {"verify", "complete", "finalize", "protocol", "audit"},
   file |-> {"file"}, sync |-> Reads \cup {"sync"}, open |-> Reads]
Kind == DOMAIN OpsOf

\* What is asked after an answer; which answers may be the last ones.
After ==
  [upload |-> {"upload", "documents"}, kit |-> {"documents"}, select |-> {"documents"},
   confirm |-> {"documents"}, review |-> {"documents"}, sync |-> {"documents"},
   verify |-> {"complete"}, complete |-> {"finalize"}, finalize |-> {"protocol"},
   protocol |-> {"audit"}, audit |-> {"documents"}, documents |-> {"findings"},
   findings |-> {"status"}, status |-> {"card"}, card |-> {}, file |-> {}]
Ends == {"status", "card", "file"}

ArgOK(step) ==
  CASE step.op = "upload" -> step.arg \in File
    [] step.op = "review" -> step.arg[2] \in DOMAIN Target
    [] step.op = "card" -> step.arg \in Id
    [] OTHER -> TRUE

Todo(kind, todo) ==
  /\ todo # <<>> /\ todo \in Seq({todo[k] : k \in DOMAIN todo})
  /\ \A k \in DOMAIN todo :
       /\ todo[k].op \in OpsOf[kind] /\ ArgOK(todo[k])
       /\ IF k = Len(todo) THEN todo[k].op \in Ends ELSE todo[k + 1].op \in After[todo[k].op]

JobField ==
  {"kind", "todo", "at", "next", "documents", "findings", "protocol", "sure", "fresh", "dirty"}
JobOK ==
  /\ DOMAIN job = JobField
  /\ Busy => job.kind \in Kind /\ Todo(job.kind, job.todo) /\ job.at = process
  /\ ~Busy => job.todo = <<>> /\ ~job.dirty
  /\ job.next \in Id \cup {0}
  /\ job.findings \in [Id -> Finding \cup {NoFinding}]
  /\ {job.sure, job.fresh, job.dirty} \subseteq BOOLEAN
  /\ Busy /\ (Due.op = "kit" \/ (Due.op = "upload" /\ job.at = 0)) => Len(srv) < MaxProcess
  /\ Busy /\ Due.op \in {"file", "card"} => ~job.dirty
  /\ Busy /\ (Due.op = "file" \/ job.kind = "protocol") => process # 0

\* The page.
PageOK ==
  /\ site \in Sites
  /\ process \in 0..MaxProcess
  /\ screen.findings \in [Id -> Finding \cup {NoFinding}]
  /\ active \in Id \cup {0} /\ card.process \in 0..MaxProcess /\ card.id \in Id \cup {0}
  /\ form \in BOOLEAN /\ checked \subseteq Id
  /\ note \in {"protocol", "other"}  /\ unsure \in BOOLEAN
  /\ loads \subseteq [process : 1..MaxProcess, id : Id]

-----------------------------------------------------------------------------
(* What the page knows.                                                    *)

\* The process p is at rest, and v is what there is to see of it.
View(p) ==
  [of |-> p, documents |-> Documents(srv[p]), findings |-> srv[p].findings,
   status |-> StatusOf(srv[p])]
Rests(p) == p \in DOMAIN srv /\ srv[p].state # "PARSING"
Shows == Rests(process) /\ screen = View(process)

\* The screen is right unless the page knows better.
ScreenOK == process # 0 /\ ~unsure /\ ~job.dirty => Shows

\* So is what the refresh under way has brought.
FreshOK ==
  Busy /\ job.fresh /\ Due.op \in {"findings", "status"} =>
    /\ Rests(job.at) /\ job.documents = Documents(srv[job.at])
    /\ Due.op = "status" => job.findings = srv[job.at].findings

\* Nobody else was at work since the press.
SureOK ==
  Busy /\ job.sure => ~unsure /\ (Due.op \in {"findings", "status"} => job.fresh)

\* The press that makes the protocol has it when the process is finalized.
ProtocolOK ==
  Busy /\ job.sure /\ job.kind = "protocol" =>
    /\ Due.op \in Reads \cup {"protocol", "audit"} =>
         process \in DOMAIN srv /\ srv[process].state = "FINALIZED"
    /\ Due.op \in Reads \cup {"audit"} => job.protocol = ProtocolDocument(srv[process])

IInv == ServiceOK /\ JobOK /\ PageOK /\ ScreenOK /\ FreshOK /\ SureOK /\ ProtocolOK
-----------------------------------------------------------------------------
(* Largest elements, sequences.                                            *)

\* A finite set of numbers has a largest one, and Last is that.
LEMMA LastIsLargest ==
  ASSUME NEW S \in SUBSET Nat, IsFiniteSet(S), S # {}
  PROVE  Last(S) \in S /\ \A x \in S : x <= Last(S)
<1> DEFINE Bad == {U \in SUBSET S : U # {} /\ ~(\E x \in U : \A y \in U : y <= x)}
<1>1. Bad \subseteq FiniteSubsetsOf(S)
  BY FS_Subset DEF FiniteSubsetsOf
<1>2. Bad = {}
  <2>1. SUFFICES ASSUME Bad # {} PROVE FALSE
    OBVIOUS
  <2>2. PICK U \in Bad : \A V \in Bad : ~(<<V, U>> \in StrictSubsetOrdering(S))
    <3> HIDE DEF Bad
    <3> QED BY <2>1, <1>1, FS_StrictSubsetOrderingWellFounded, WFMin
  <2>3. PICK u \in U : TRUE
    OBVIOUS
  <2>4. U \ {u} \notin Bad /\ U \subseteq Nat
    BY <2>2, <2>3 DEF StrictSubsetOrdering
  <2>5. CASE U \ {u} = {}
    <3>1. U = {u} /\ u <= u
      BY <2>3, <2>4, <2>5
    <3> QED BY <3>1
  <2>6. CASE U \ {u} # {}
    <3>1. PICK m \in U \ {u} : \A y \in U \ {u} : y <= m
      BY <2>4, <2>6
    <3>2. CASE u <= m
      BY <3>1, <3>2
    <3>3. CASE ~(u <= m)
      <4>1. \A y \in U : y <= u
        BY <3>1, <3>3, <2>3, <2>4
      <4> QED BY <4>1, <2>3
    <3> QED BY <3>2, <3>3
  <2> QED BY <2>5, <2>6
<1>3. \E x \in S : \A y \in S : y <= x
  BY <1>2
<1> QED BY <1>3 DEF Last

LEMMA LastProcess ==
  ASSUME NEW n \in Nat, NEW S \in SUBSET (1..n), S # {}
  PROVE  Last(S) \in S
<1>1. IsFiniteSet(1..n)
  BY FS_Interval
<1>2. IsFiniteSet(S)
  BY <1>1, FS_Subset
<1>3. S \in SUBSET Nat
  OBVIOUS
<1> QED BY <1>2, <1>3, LastIsLargest

LEMMA OneChanged ==
  ASSUME NEW G, NEW s \in Seq(G), NEW p \in DOMAIN s, NEW r \in G
  PROVE  /\ [s EXCEPT ![p] = r] \in Seq(G) /\ Len([s EXCEPT ![p] = r]) = Len(s)
         /\ DOMAIN [s EXCEPT ![p] = r] = DOMAIN s
OBVIOUS

LEMMA OneMore ==
  ASSUME NEW G, NEW s \in Seq(G), NEW r \in G
  PROVE  Append(s, r) \in Seq(G) /\ Len(Append(s, r)) = Len(s) + 1
OBVIOUS

-----------------------------------------------------------------------------
(* Processes.                                                              *)

\* A process without a protocol in force owes nothing to its papers.
LEMMA OpenIsGood ==
  ASSUME NEW r \in Process, r.state # "FINALIZED", r.protocol = 0, r.sync = "NOT_REQUESTED",
         IsFiniteSet(r.papers),
         \A i \in Findings(r) : r.findings[i].status \in HumanOnlyStatuses => r.findings[i].decided
  PROVE  r \in GoodProcess
BY DEF GoodProcess, InForce

LEMMA OpenIsPlain ==
  ASSUME NEW r \in GoodProcess, r.state # "FINALIZED"
  PROVE  r \in Process /\ r.protocol = 0 /\ r.sync = "NOT_REQUESTED" /\ IsFiniteSet(r.papers)
BY DEF GoodProcess, InForce

\* What a run may find.
LEMMA RunFinds ==
  ASSUME NEW files \in SUBSET File, NEW etalons \in SUBSET File, NEW i \in Id
  PROVE  /\ Machine[<<files, etalons>>] \in [Id -> Finding \cup {NoFinding}]
         /\ \/ Machine[<<files, etalons>>][i] = NoFinding
            \/ /\ Machine[<<files, etalons>>][i] \in Finding
               /\ Machine[<<files, etalons>>][i].status \notin HumanOnlyStatuses
<1>1. Machine[<<files, etalons>>] \in [Id -> Computed \cup {NoFinding}]
  BY ClientAssumption
<1>2. Computed \subseteq Finding /\ \A f \in Computed : f.status \notin HumanOnlyStatuses
  BY DEF Computed, Finding
<1> QED BY <1>1, <1>2

LEMMA NewIsGood ==
  ASSUME NEW object \in {"mine", "theirs"}, NEW files \in SUBSET File
  PROVE  New(object, files) \in GoodProcess /\ New(object, files).state = "PARSING"
<1>1. New(object, files) \in Process
  BY DEF New, Process, ProcessState
<1>2. Findings(New(object, files)) = {} /\ IsFiniteSet({})
  BY FS_EmptySet DEF Findings, New
<1> QED BY <1>1, <1>2, OpenIsGood DEF New

LEMMA RunIsGood ==
  ASSUME NEW r \in GoodProcess, r.state = "PARSING"
  PROVE  Run(r) \in GoodProcess /\ Run(r).state = "READY"
<1> DEFINE found == [i \in Id |-> IF Machine[<<r.files, r.etalons>>][i] = NoFinding THEN r.findings[i]
                                  ELSE Carry(r.findings[i], Machine[<<r.files, r.etalons>>][i])]
<1>1. r \in Process /\ r.protocol = 0 /\ r.sync = "NOT_REQUESTED" /\ IsFiniteSet(r.papers)
  BY OpenIsPlain
<1>2. /\ r.findings \in [Id -> Finding \cup {NoFinding}]
      /\ r.files \in SUBSET File /\ r.etalons \in SUBSET File
  BY <1>1 DEF Process
<1>3. ASSUME NEW i \in Id
      PROVE  /\ found[i] \in Finding \cup {NoFinding}
             /\ found[i] # NoFinding /\ found[i].status \in HumanOnlyStatuses => found[i].decided
  <2>1. r.findings[i] # NoFinding /\ r.findings[i].status \in HumanOnlyStatuses
           => r.findings[i].decided
    BY DEF GoodProcess, Findings
  <2> QED BY <1>2, <2>1, RunFinds DEF Carry
<1>4. found \in [Id -> Finding \cup {NoFinding}]
  BY <1>3
<1>5. Run(r) = [r EXCEPT !.state = "READY", !.findings = found]
  BY DEF Run
<1> HIDE DEF found
<1>6. /\ Run(r) \in Process /\ Run(r).state = "READY" /\ Run(r).findings = found
      /\ Run(r).protocol = 0 /\ Run(r).sync = "NOT_REQUESTED" /\ Run(r).papers = r.papers
  BY <1>1, <1>4, <1>5 DEF Process, ProcessState
<1> QED BY <1>1, <1>3, <1>6, OpenIsGood DEF Findings

\* A decision; the findings of a process in which one may be taken.
LEMMA DecidedIsGood ==
  ASSUME NEW r \in GoodProcess, r.state # "FINALIZED",
         NEW ids \in SUBSET Findings(r), NEW action \in DOMAIN Target
  PROVE  Decided(r, ids, action) \in GoodProcess
<1> DEFINE mark(f) == [f EXCEPT !.status = Target[action], !.decided = TRUE]
           findings == [i \in Id |-> IF i \in ids THEN mark(r.findings[i]) ELSE r.findings[i]]
           state == IF r.state = "READY" THEN "VERIFYING" ELSE r.state
<1>1. r \in Process /\ r.protocol = 0 /\ r.sync = "NOT_REQUESTED" /\ IsFiniteSet(r.papers)
  BY OpenIsPlain
<1>2. /\ r.findings \in [Id -> Finding \cup {NoFinding}]
      /\ state \in ProcessState \ {"PENDING"} /\ state # "FINALIZED"
  BY <1>1 DEF Process, ProcessState
<1>3. Target[action] \in FindingStatus
  BY DEF Target, FindingStatus
<1>4. ASSUME NEW f \in Finding
      PROVE  mark(f) \in Finding /\ mark(f).decided
  BY <1>3 DEF Finding
<1>5. ASSUME NEW i \in Id
      PROVE  /\ findings[i] \in Finding \cup {NoFinding}
             /\ findings[i] # NoFinding /\ findings[i].status \in HumanOnlyStatuses => findings[i].decided
  <2>1. r.findings[i] # NoFinding /\ r.findings[i].status \in HumanOnlyStatuses
           => r.findings[i].decided
    BY DEF GoodProcess, Findings
  <2>2. i \in ids => r.findings[i] \in Finding
    BY <1>2 DEF Findings
  <2>3. CASE i \in ids
    <3>1. findings[i] = mark(r.findings[i])
      BY <2>3
    <3> HIDE DEF findings, mark
    <3> QED BY <2>2, <2>3, <3>1, <1>4
  <2>4. CASE i \notin ids
    <3>1. findings[i] = r.findings[i]
      BY <2>4
    <3> HIDE DEF findings
    <3> QED BY <2>1, <3>1, <1>2
  <2> QED BY <2>3, <2>4
<1>6. findings \in [Id -> Finding \cup {NoFinding}]
  <2> HIDE DEF mark
  <2> QED BY <1>5
<1>7. Decided(r, ids, action) = [r EXCEPT !.findings = findings, !.state = state]
  BY DEF Decided
<1> HIDE DEF findings, state
<1>8. /\ Decided(r, ids, action) \in Process /\ Decided(r, ids, action).state = state
      /\ Decided(r, ids, action).findings = findings /\ Decided(r, ids, action).papers = r.papers
      /\ Decided(r, ids, action).protocol = 0 /\ Decided(r, ids, action).sync = "NOT_REQUESTED"
  BY <1>1, <1>2, <1>6, <1>7 DEF Process
<1> QED BY <1>1, <1>2, <1>5, <1>8, OpenIsGood DEF Findings

\* A file is attached.
LEMMA AttachedIsGood ==
  ASSUME NEW r \in GoodProcess, r.state # "FINALIZED", NEW f \in File
  PROVE  [r EXCEPT !.files = @ \cup {f}, !.state = "PARSING"] \in GoodProcess
<1> DEFINE q == [r EXCEPT !.files = @ \cup {f}, !.state = "PARSING"]
<1>1. r \in Process /\ r.protocol = 0 /\ r.sync = "NOT_REQUESTED" /\ IsFiniteSet(r.papers)
  BY OpenIsPlain
<1>2. /\ q \in Process /\ q.state = "PARSING" /\ q.findings = r.findings /\ q.papers = r.papers
      /\ q.protocol = 0 /\ q.sync = "NOT_REQUESTED"
  BY <1>1 DEF Process, ProcessState
<1>3. \A i \in Findings(q) : q.findings[i].status \in HumanOnlyStatuses => q.findings[i].decided
  BY <1>2 DEF Findings, GoodProcess
<1> HIDE DEF q
<1>4. q \in GoodProcess
  BY <1>1, <1>2, <1>3, OpenIsGood
<1> QED BY <1>4 DEF q

\* A file becomes the etalon, and the matrix has run.
LEMMA SelectedIsGood ==
  ASSUME NEW r \in GoodProcess, r.state # "FINALIZED", NEW etalons \in SUBSET File
  PROVE  [r EXCEPT !.etalons = etalons, !.findings = Machine[<<r.files, etalons>>]] \in GoodProcess
<1> DEFINE found == Machine[<<r.files, etalons>>]
           q == [r EXCEPT !.etalons = etalons, !.findings = found]
<1>1. r \in Process /\ r.protocol = 0 /\ r.sync = "NOT_REQUESTED" /\ IsFiniteSet(r.papers)
  BY OpenIsPlain
<1>2. r.files \in SUBSET File
  BY <1>1 DEF Process
<1>3. /\ found \in [Id -> Finding \cup {NoFinding}]
      /\ \A i \in Id : found[i] # NoFinding => found[i].status \notin HumanOnlyStatuses
  <2>1. ASSUME NEW i \in Id
        PROVE  /\ found \in [Id -> Finding \cup {NoFinding}]
               /\ found[i] # NoFinding => found[i].status \notin HumanOnlyStatuses
    BY <1>2, RunFinds
  <2>2. found \in [Id -> Computed \cup {NoFinding}] /\ Computed \subseteq Finding
    BY <1>2, ClientAssumption DEF Computed, Finding
  <2> HIDE DEF found
  <2> QED BY <2>1, <2>2
<1> HIDE DEF found
<1>4. /\ q \in Process /\ q.state = r.state /\ q.findings = found /\ q.papers = r.papers
      /\ q.protocol = 0 /\ q.sync = "NOT_REQUESTED"
  BY <1>1, <1>3 DEF Process
<1>5. \A i \in Findings(q) : q.findings[i].status \in HumanOnlyStatuses => q.findings[i].decided
  BY <1>3, <1>4 DEF Findings
<1> HIDE DEF q
<1>6. q \in GoodProcess
  BY <1>1, <1>4, <1>5, OpenIsGood
<1> QED BY <1>6 DEF q, found

\* A step to the next state, short of the last.
LEMMA AdvancedIsGood ==
  ASSUME NEW r \in GoodProcess, r.state # "FINALIZED", NEW to \in {"VERIFYING", "COMPLETED"}
  PROVE  [r EXCEPT !.state = to] \in GoodProcess
<1> DEFINE q == [r EXCEPT !.state = to]
<1>1. r \in Process /\ r.protocol = 0 /\ r.sync = "NOT_REQUESTED" /\ IsFiniteSet(r.papers)
  BY OpenIsPlain
<1>2. /\ q \in Process /\ q.state = to /\ q.findings = r.findings /\ q.papers = r.papers
      /\ q.protocol = 0 /\ q.sync = "NOT_REQUESTED"
  BY <1>1 DEF Process, ProcessState
<1>3. \A i \in Findings(q) : q.findings[i].status \in HumanOnlyStatuses => q.findings[i].decided
  BY <1>2 DEF Findings, GoodProcess
<1> HIDE DEF q
<1>4. q \in GoodProcess
  BY <1>1, <1>2, <1>3, OpenIsGood
<1> QED BY <1>4 DEF q

\* And back from it.
LEMMA ReopenedIsGood ==
  ASSUME NEW r \in GoodProcess, r.sync = "NOT_REQUESTED"
  PROVE  [r EXCEPT !.state = "COMPLETED", !.protocol = 0] \in GoodProcess
<1> DEFINE q == [r EXCEPT !.state = "COMPLETED", !.protocol = 0]
<1>1. r \in Process /\ IsFiniteSet(r.papers)
  BY DEF GoodProcess
<1>2. /\ q \in Process /\ q.state = "COMPLETED" /\ q.findings = r.findings /\ q.papers = r.papers
      /\ q.protocol = 0 /\ q.sync = "NOT_REQUESTED"
  BY <1>1 DEF Process, ProcessState
<1>3. \A i \in Findings(q) : q.findings[i].status \in HumanOnlyStatuses => q.findings[i].decided
  BY <1>2 DEF Findings, GoodProcess
<1> HIDE DEF q
<1>4. q \in GoodProcess
  BY <1>1, <1>2, <1>3, OpenIsGood
<1> QED BY <1>4 DEF q

-----------------------------------------------------------------------------
(* Papers.                                                                 *)

\* A paper is made of findings, files and state.
LEMMA SamePaper ==
  ASSUME NEW r, NEW q, r.findings = q.findings, r.files = q.files, r.state = q.state, NEW v
  PROVE  AssembleProtocol(r, v) = AssembleProtocol(q, v)
<1>1. Findings(r) = Findings(q)
  BY DEF Findings
<1>2. Completeness(r) = Completeness(q)
  BY DEF Completeness
<1>3. DetectScenario(r) = DetectScenario(q) /\ CompletenessRows(r) = CompletenessRows(q)
  BY <1>2 DEF DetectScenario, CompletenessRows
<1>4. {Row(i, r.findings[i]) : i \in Findings(r)} = {Row(i, q.findings[i]) : i \in Findings(q)}
  BY <1>1
<1> QED BY <1>2, <1>3, <1>4 DEF AssembleProtocol

\* The rows of a paper, and its tables.
RowsOf(r) == {Row(i, r.findings[i]) : i \in Findings(r)}
SectionsOf(r) ==
  [name \in Tables \cup {Pocket} |-> {row \in RowsOf(r) : SectionOf(row.status) = name}]

LEMMA PaperParts ==
  ASSUME NEW r, NEW v
  PROVE  AssembleProtocol(r, v) =
           [version |-> v, status |-> ProtocolStatus[r.state], scenario |-> DetectScenario(r),
            upload |-> Completeness(r), completeness |-> CompletenessRows(r),
            sections |-> SectionsOf(r),
            violations |-> Cardinality({row \in RowsOf(r) : SectionOf(row.status) = "confirmed"})]
BY DEF AssembleProtocol, RowsOf, SectionsOf

\* The image of a finite set.
LEMMA ImageIsFinite ==
  ASSUME NEW S, IsFiniteSet(S), NEW f, NEW T, T = {f[x] : x \in S}
  PROVE  IsFiniteSet(T)
<1> DEFINE g == [x \in S |-> f[x]]
<1>1. g \in Surjection(S, T)
  BY DEF Surjection
<1> QED BY <1>1, FS_Surjection DEF ExistsSurjection

LEMMA RowsAreFinite ==
  ASSUME NEW r, NEW R \in SUBSET RowsOf(r)
  PROVE  IsFiniteSet(R)
<1> DEFINE f == [i \in Findings(r) |-> Row(i, r.findings[i])]
<1>1. IsFiniteSet(Findings(r))
  BY ClientAssumption, FS_Subset DEF Findings
<1>2. RowsOf(r) = {f[i] : i \in Findings(r)}
  BY DEF RowsOf
<1> HIDE DEF f
<1>3. IsFiniteSet(RowsOf(r))
  BY <1>1, <1>2, ImageIsFinite
<1> QED BY <1>3, FS_Subset

LEMMA PaperIsTyped ==
  ASSUME NEW r \in Process, r.state = "FINALIZED", NEW v \in Nat
  PROVE  AssembleProtocol(r, v) \in Protocol
<1> DEFINE cell == [id : Id, status : FindingStatus, value : Value, decided : BOOLEAN]
           confirmed == {row \in RowsOf(r) : SectionOf(row.status) = "confirmed"}
<1>1. ProtocolStatus[r.state] = "PROTOCOL_FINALIZED"
  BY DEF ProtocolStatus
<1>2. DetectScenario(r) \in
        {"PARTIALLY_LOADED", "PD_RD_ONLY", "PD_ID_ONLY", "RD_ID_ONLY", "SINGLE_ONLY"}
  BY DEF DetectScenario
<1>3. Completeness(r) \in [DocStage -> {"UPLOADED", "MISSING"}]
  BY DEF Completeness
<1>4. CompletenessRows(r) \in
        SUBSET [id : Catalog, status : {"MISSING", "STAGE_UPLOADED_NOT_VERIFIED"}]
  BY DEF CompletenessRows
<1>5. SectionsOf(r) \in [Tables \cup {Pocket} -> SUBSET cell]
  <2>1. RowsOf(r) \in SUBSET cell
    BY DEF RowsOf, Row, Findings, Process, Finding
  <2> HIDE DEF cell
  <2> QED BY <2>1 DEF SectionsOf
<1>6. Cardinality(confirmed) \in Nat
  <2>1. IsFiniteSet(confirmed)
    BY RowsAreFinite
  <2> QED BY <2>1, FS_CardinalityType
<1>7. AssembleProtocol(r, v) =
        [version |-> v, status |-> "PROTOCOL_FINALIZED", scenario |-> DetectScenario(r),
         upload |-> Completeness(r), completeness |-> CompletenessRows(r),
         sections |-> SectionsOf(r), violations |-> Cardinality(confirmed)]
  BY <1>1, PaperParts
<1> HIDE DEF confirmed
<1> QED BY <1>2, <1>3, <1>4, <1>5, <1>6, <1>7 DEF Protocol

\* A new version is above every version the object has.
LEMMA VersionIsNew ==
  ASSUME NEW s \in Seq(GoodProcess), NEW p \in DOMAIN s
  PROVE  /\ NextVersion(s, s[p].object) \in Nat \ {0}
         /\ \A paper \in s[p].papers : paper.version < NextVersion(s, s[p].object)
<1> DEFINE of == {q \in DOMAIN s : s[q].object = s[p].object}
           papers == UNION {s[q].papers : q \in of}
           versions == {paper.version : paper \in papers}
<1>1. \A q \in DOMAIN s : s[q] \in Process /\ IsFiniteSet(s[q].papers)
  BY DEF GoodProcess
<1>2. IsFiniteSet(of)
  <2>1. DOMAIN s = 1..Len(s) /\ Len(s) \in Nat
    OBVIOUS
  <2>2. IsFiniteSet(1..Len(s))
    BY <2>1, FS_Interval
  <2> QED BY <2>1, <2>2, FS_Subset
<1>3. IsFiniteSet(papers)
  <2> DEFINE f == [q \in of |-> s[q].papers]
             all == {f[q] : q \in of}
  <2>1. IsFiniteSet(all)
    <3> HIDE DEF f, of
    <3> QED BY <1>2, ImageIsFinite
  <2>2. \A T \in all : IsFiniteSet(T)
    BY <1>1
  <2>3. IsFiniteSet(UNION all)
    <3> HIDE DEF all
    <3> QED BY <2>1, <2>2, FS_UNION
  <2> QED BY <2>3
<1>4. \A paper \in papers : paper.version \in Nat
  BY <1>1 DEF Process, Protocol
<1>5. IsFiniteSet(versions)
  <2> DEFINE f == [paper \in papers |-> paper.version]
  <2>1. IsFiniteSet({f[paper] : paper \in papers})
    <3> HIDE DEF f, papers
    <3> QED BY <1>3, ImageIsFinite
  <2> QED BY <2>1
<1>6. versions \in SUBSET Nat
  BY <1>4
<1>7. \A paper \in s[p].papers : paper.version \in versions
  OBVIOUS
<1>8. NextVersion(s, s[p].object) = IF versions = {} THEN 1 ELSE Last(versions) + 1
  BY DEF NextVersion
<1> HIDE DEF versions
<1>9. versions # {} => Last(versions) \in Nat /\ \A x \in versions : x <= Last(versions)
  BY <1>5, <1>6, LastIsLargest
<1>10. CASE versions = {}
  <2>1. NextVersion(s, s[p].object) = 1 /\ s[p].papers = {}
    BY <1>7, <1>8, <1>10
  <2> QED BY <2>1
<1>11. CASE versions # {}
  <2> DEFINE last == Last(versions)
  <2>1. last \in Nat /\ NextVersion(s, s[p].object) = last + 1
    BY <1>8, <1>9, <1>11
  <2>2. \A paper \in s[p].papers : paper.version \in Nat /\ paper.version <= last
    BY <1>6, <1>7, <1>9, <1>11
  <2> HIDE DEF last
  <2> QED BY <2>1, <2>2
<1> QED BY <1>10, <1>11

\* Finalize leaves a consistent, finalized process in p's place.
Finalizes(s, p) ==
  \E r \in GoodProcess : /\ Finalize(s, p) = Answer(200, [s EXCEPT ![p] = r], p)
                         /\ r.state = "FINALIZED"

\* A process is finalized.
LEMMA FinalizedIsGood ==
  ASSUME NEW s \in Seq(GoodProcess), NEW p \in DOMAIN s, Finalize(s, p).code = 200
  PROVE  s[p].state = "COMPLETED" /\ Finalizes(s, p)
<1> DEFINE version == NextVersion(s, s[p].object)
           paper == AssembleProtocol([s[p] EXCEPT !.state = "FINALIZED"], version)
           done == Advance(s, p, "COMPLETED", "FINALIZED", CanFinalize(s[p]))
           papers == s[p].papers \cup {paper}
           r == [s[p] EXCEPT !.state = "FINALIZED", !.protocol = version, !.papers = papers]
<1>1. done.code = 200
  BY DEF Finalize
<1>2. s[p].state = "COMPLETED" /\ CanFinalize(s[p])
  BY <1>1 DEF Advance, Deny, Answer
<1>3. done = Answer(200, [s EXCEPT ![p].state = "FINALIZED"], p)
  BY <1>2 DEF Advance
<1>4. s[p] \in Process /\ IsFiniteSet(s[p].papers) /\ s[p].sync = "NOT_REQUESTED"
  BY <1>2, OpenIsPlain
<1>5. version \in Nat \ {0} /\ \A old \in s[p].papers : old.version < version /\ old.version \in Nat
  BY <1>4, VersionIsNew DEF Process, Protocol
<1>6. paper \in Protocol /\ paper.version = version
  <2> DEFINE q == [s[p] EXCEPT !.state = "FINALIZED"]
  <2>1. q \in Process /\ q.state = "FINALIZED"
    BY <1>4 DEF Process, ProcessState
  <2> HIDE DEF q, version
  <2>2. AssembleProtocol(q, version) \in Protocol
    BY <1>5, <2>1, PaperIsTyped
  <2>3. AssembleProtocol(q, version).version = version
    BY DEF AssembleProtocol
  <2> QED BY <2>2, <2>3 DEF q
<1>7. papers \in SUBSET Protocol /\ IsFiniteSet(papers)
  <2>1. IsFiniteSet(s[p].papers \cup {paper})
    <3> DEFINE old == s[p].papers
    <3>1. IsFiniteSet(old)
      BY <1>4
    <3> HIDE DEF paper, old
    <3>2. IsFiniteSet(old \cup {paper})
      BY <3>1, FS_AddElement
    <3> QED BY <3>2 DEF old
  <2> QED BY <1>4, <1>6, <2>1 DEF Process
<1>8. Finalize(s, p) = Answer(200, [s EXCEPT ![p] = r], p)
  <2> DEFINE one == [s[p] EXCEPT !.state = "FINALIZED"]
             t == [s EXCEPT ![p] = one]
             two == [one EXCEPT !.protocol = version, !.papers = @ \cup {paper}]
  <2>1. Finalize(s, p) =
          Answer(200, [done.srv EXCEPT ![p].protocol = version, ![p].papers = @ \cup {paper}], p)
    BY <1>1 DEF Finalize
  <2> HIDE DEF version, paper, done
  <2>2. done.srv = t
    BY <1>3 DEF Answer
  <2>3. one \in Process /\ one.papers = s[p].papers
    BY <1>4 DEF Process, ProcessState
  <2>4. two = r
    BY <1>4 DEF Process
  <2> HIDE DEF one
  <2>5. t = [q \in DOMAIN s |-> IF q = p THEN one ELSE s[q]]
    OBVIOUS
  <2>6. [t EXCEPT ![p].protocol = version, ![p].papers = @ \cup {paper}] = [s EXCEPT ![p] = two]
    <3>1. t[p] = one
      BY <2>5
    <3>2. [t EXCEPT ![p].protocol = version, ![p].papers = @ \cup {paper}] =
            [t EXCEPT ![p] = [t[p] EXCEPT !.protocol = version, !.papers = @ \cup {paper}]]
      BY <2>3, <2>5, <3>1 DEF Process
    <3>3. [t EXCEPT ![p] = two] = [s EXCEPT ![p] = two]
      BY <2>5
    <3> QED BY <3>1, <3>2, <3>3
  <2> QED BY <2>1, <2>2, <2>4, <2>6
<1> HIDE DEF version, papers
<1>9. /\ r \in Process /\ r.state = "FINALIZED" /\ r.protocol = version /\ r.papers = papers
      /\ r.findings = s[p].findings /\ r.files = s[p].files /\ r.sync = "NOT_REQUESTED"
  BY <1>4, <1>5, <1>7 DEF Process, ProcessState
<1>10. paper = AssembleProtocol(r, version)
  <2> DEFINE q == [s[p] EXCEPT !.state = "FINALIZED"]
  <2>1. q.findings = r.findings /\ q.files = r.files /\ q.state = r.state
    BY <1>4, <1>9 DEF Process
  <2> HIDE DEF q, r
  <2>2. AssembleProtocol(q, version) = AssembleProtocol(r, version)
    BY <2>1, SamePaper
  <2> QED BY <2>2 DEF q
<1>11. /\ paper \in r.papers
       /\ \A other \in r.papers : other.version = version => other = paper
  BY <1>5, <1>9 DEF papers
<1> HIDE DEF r, paper
<1>12. InForce(r)
  BY <1>5, <1>6, <1>9, <1>10, <1>11 DEF InForce
<1>13. Candidates(r) = {} /\ Findings(r) = Findings(s[p])
  BY <1>2, <1>9 DEF CanFinalize, Candidates, Findings
<1>14. \A i \in Findings(r) : r.findings[i].status \in HumanOnlyStatuses => r.findings[i].decided
  BY <1>9, <1>13 DEF GoodProcess
<1>15. r \in GoodProcess
  BY <1>7, <1>9, <1>12, <1>13, <1>14 DEF GoodProcess
<1>16. Finalizes(s, p)
  BY <1>8, <1>9, <1>15 DEF Finalizes
<1> QED BY <1>2, <1>16

\* RiN is asked to take it.
LEMMA AskedIsGood ==
  ASSUME NEW r \in GoodProcess, r.state = "FINALIZED", NEW sync \in {"PENDING_SYNC", "RETRY_WAIT"}
  PROVE  [r EXCEPT !.sync = sync] \in GoodProcess
<1> DEFINE q == [r EXCEPT !.sync = sync]
<1>1. r \in Process
  BY DEF GoodProcess
<1>2. /\ q \in Process /\ q.state = "FINALIZED" /\ q.findings = r.findings /\ q.papers = r.papers
      /\ q.protocol = r.protocol /\ q.files = r.files
  BY <1>1 DEF Process
<1> HIDE DEF q
<1>3. Findings(q) = Findings(r) /\ Candidates(q) = Candidates(r)
  BY <1>2 DEF Findings, Candidates
<1>4. AssembleProtocol(q, q.protocol) = AssembleProtocol(r, r.protocol)
  BY <1>2, SamePaper
<1>5. q \in GoodProcess
  BY <1>2, <1>3, <1>4 DEF GoodProcess, InForce
<1> QED BY <1>5 DEF q

-----------------------------------------------------------------------------
(* Endpoints.                                                              *)

LEMMA AnswerParts ==
  ASSUME NEW code, NEW s, NEW p
  PROVE  /\ Answer(code, s, p).code = code /\ Answer(code, s, p).srv = s
         /\ Answer(code, s, p).process = p
         /\ Deny(code, s).code = code /\ Deny(code, s).srv = s
BY DEF Answer, Deny

\* Who passes the checks asks for a process there is.
LEMMA AllowedExists ==
  ASSUME NEW op, NEW c, NEW s, NEW p, CodeFor(op, c, s, p) = 200
  PROVE  p \in DOMAIN s
BY DEF CodeFor

LEMMA DeciderExists ==
  ASSUME NEW op, NEW subject, NEW c, NEW s, NEW p, CodeAs(op, subject, c, s, p) = 200
  PROVE  p \in DOMAIN s
BY DEF CodeFor, CodeAs

\* The processes are good, and as many as before.
Keeps(a, s) == a.srv \in Seq(GoodProcess) /\ Len(a.srv) = Len(s) /\ DOMAIN a.srv = DOMAIN s

LEMMA DenyKeeps ==
  ASSUME NEW s \in Seq(GoodProcess), NEW code
  PROVE  Keeps(Deny(code, s), s)
BY AnswerParts DEF Keeps

LEMMA ChangeKeeps ==
  ASSUME NEW s \in Seq(GoodProcess), NEW p \in DOMAIN s, NEW r \in GoodProcess, NEW q, NEW code
  PROVE  Keeps(Answer(code, [s EXCEPT ![p] = r], q), s)
BY OneChanged, AnswerParts DEF Keeps

LEMMA AttachKeeps ==
  ASSUME NEW s \in Seq(GoodProcess), NEW p \in DOMAIN s, NEW f \in File
  PROVE  /\ Keeps(Attach(s, p, f), s)
         /\ Attach(s, p, f).code = 200 => Attach(s, p, f).process = p
<1>1. s[p] \in GoodProcess
  OBVIOUS
<1>2. CASE s[p].state = "FINALIZED"
  <2>1. Attach(s, p, f) = Deny(409, s)
    BY <1>2 DEF Attach
  <2> QED BY <2>1, DenyKeeps DEF Deny, Answer
<1>3. CASE s[p].state # "FINALIZED" /\ f \in s[p].files
  <2>1. Attach(s, p, f) = Answer(200, s, p)
    BY <1>3 DEF Attach
  <2> QED BY <2>1, AnswerParts DEF Keeps
<1>4. CASE s[p].state # "FINALIZED" /\ f \notin s[p].files
  <2> DEFINE r == [s[p] EXCEPT !.files = @ \cup {f}, !.state = "PARSING"]
  <2>1. r \in GoodProcess
    BY <1>1, <1>4, AttachedIsGood
  <2>2. [s EXCEPT ![p].files = @ \cup {f}, ![p].state = "PARSING"] = [s EXCEPT ![p] = r]
    OBVIOUS
  <2>3. Attach(s, p, f) = Answer(200, [s EXCEPT ![p] = r], p)
    BY <1>4, <2>2 DEF Attach
  <2> HIDE DEF r
  <2> QED BY <2>1, <2>3, ChangeKeeps, AnswerParts
<1> QED BY <1>2, <1>3, <1>4

\* The first file makes a process, every other goes to the one it names.
Receives(a, s, p) ==
  /\ a.srv \in Seq(GoodProcess)
  /\ a.code = 200 /\ p = 0 => Len(a.srv) = Len(s) + 1 /\ a.process = Len(s) + 1
  /\ ~(a.code = 200 /\ p = 0) => Keeps(a, s)
  /\ a.code = 200 /\ p # 0 => a.process = p /\ p \in DOMAIN s

LEMMA UploadKeeps ==
  ASSUME NEW s \in Seq(GoodProcess), NEW c, NEW object \in {"mine", "theirs"}, NEW p,
         NEW f \in File
  PROVE  Receives(Upload(c, s, object, p, f), s, p)
<1> DEFINE a == Upload(c, s, object, p, f)
<1>1. \/ \E code : a = Deny(code, s) /\ code # 200
      \/ p = 0 /\ a = Answer(200, Append(s, New(object, {f})), Len(s) + 1)
      \/ p # 0 /\ p \in DOMAIN s /\ a = Attach(s, p, f)
  BY DEF Upload
<1> HIDE DEF a
<1>2. CASE \E code : a = Deny(code, s) /\ code # 200
  <2>1. PICK code : a = Deny(code, s) /\ code # 200
    BY <1>2
  <2>2. Keeps(a, s) /\ a.code # 200
    BY <2>1, DenyKeeps DEF Deny, Answer
  <2> QED BY <2>2 DEF Receives, Keeps, a
<1>3. CASE p = 0 /\ a = Answer(200, Append(s, New(object, {f})), Len(s) + 1)
  <2>1. New(object, {f}) \in GoodProcess
    BY NewIsGood
  <2>2. /\ Append(s, New(object, {f})) \in Seq(GoodProcess)
        /\ Len(Append(s, New(object, {f}))) = Len(s) + 1
    BY <2>1, OneMore
  <2> QED BY <1>3, <2>2 DEF Receives, a, Answer
<1>4. CASE p # 0 /\ p \in DOMAIN s /\ a = Attach(s, p, f)
  BY <1>4, AttachKeeps DEF Receives, Keeps, a
<1> QED BY <1>1, <1>2, <1>3, <1>4

LEMMA LoadKitKeeps ==
  ASSUME NEW s \in Seq(GoodProcess), NEW object \in {"mine", "theirs"}
  PROVE  LoadKit(s, object) \in Seq(GoodProcess) /\ Len(LoadKit(s, object)) = Len(s) + 1
<1>1. New(object, Kit) \in GoodProcess /\ New(object, Kit).state = "PARSING"
  BY NewIsGood, ClientAssumption
<1>2. Run(New(object, Kit)) \in GoodProcess
  BY <1>1, RunIsGood
<1> QED BY <1>2, OneMore DEF LoadKit

LEMMA DemoKitKeeps ==
  ASSUME NEW s \in Seq(GoodProcess), NEW c, c.object \in {"mine", "theirs", NoObject}
  PROVE  LET a == DemoKit(c, s) IN
         /\ a.srv \in Seq(GoodProcess)
         /\ a.code = 200 => Len(a.srv) = Len(s) + 1 /\ a.process = Len(s) + 1
         /\ a.code # 200 => Keeps(a, s)
<1> DEFINE a == DemoKit(c, s)
<1>1. \/ \E code : a = Deny(code, s) /\ code # 200
      \/ c.object \in {"mine", "theirs"} /\ a = Answer(200, LoadKit(s, c.object), Len(s) + 1)
  BY DEF DemoKit
<1> HIDE DEF a
<1>2. CASE \E code : a = Deny(code, s) /\ code # 200
  <2>1. PICK code : a = Deny(code, s) /\ code # 200
    BY <1>2
  <2>2. Keeps(a, s) /\ a.code # 200
    BY <2>1, DenyKeeps DEF Deny, Answer
  <2> QED BY <2>2 DEF Keeps, a
<1>3. CASE c.object \in {"mine", "theirs"} /\ a = Answer(200, LoadKit(s, c.object), Len(s) + 1)
  BY <1>3, LoadKitKeeps, AnswerParts DEF a
<1> QED BY <1>1, <1>2, <1>3

LEMMA ReviewKeeps ==
  ASSUME NEW s \in Seq(GoodProcess), NEW c, NEW subject, NEW i, NEW action \in DOMAIN Target
  PROVE  Keeps(Review(c, s, subject, i, action), s)
<1> DEFINE having == {p \in DOMAIN s : i \in Findings(s[p])}
           taking == {p \in having : Takes(s[p], i, action)}
           p == Locate(s, i, action)
<1>1. having # {} => p \in having
  <2>1. having \in SUBSET (1..Len(s)) /\ taking \in SUBSET (1..Len(s)) /\ Len(s) \in Nat
    OBVIOUS
  <2>2. p = IF having = {} THEN 0 ELSE IF taking # {} THEN Last(taking) ELSE Last(having)
    BY DEF Locate
  <2>3. taking \subseteq having
    OBVIOUS
  <2> HIDE DEF having, taking, p
  <2> QED BY <2>1, <2>2, <2>3, LastProcess
<1>2. having = {} => p = 0
  BY DEF Locate
<1> DEFINE a == Review(c, s, subject, i, action)
<1>3. \/ \E code : a = Deny(code, s)
      \/ /\ p # 0 /\ s[p].state # "FINALIZED"
         /\ a = Answer(200, [s EXCEPT ![p] = Decided(@, {i}, action)], p)
  BY DEF Review
<1> HIDE DEF a
<1>4. CASE \E code : a = Deny(code, s)
  BY <1>4, DenyKeeps DEF a
<1>5. CASE /\ p # 0 /\ s[p].state # "FINALIZED"
           /\ a = Answer(200, [s EXCEPT ![p] = Decided(@, {i}, action)], p)
  <2>1. p \in DOMAIN s /\ i \in Findings(s[p])
    BY <1>1, <1>2, <1>5
  <2>2. s[p] \in GoodProcess /\ {i} \in SUBSET Findings(s[p])
    BY <2>1
  <2> HIDE DEF p
  <2>3. Decided(s[p], {i}, action) \in GoodProcess
    BY <1>5, <2>2, DecidedIsGood
  <2>4. a = Answer(200, [s EXCEPT ![p] = Decided(s[p], {i}, action)], p)
    BY <1>5
  <2> QED BY <2>1, <2>3, <2>4, ChangeKeeps DEF a
<1> QED BY <1>3, <1>4, <1>5

LEMMA ConfirmKeeps ==
  ASSUME NEW s \in Seq(GoodProcess), NEW c, NEW subject, NEW p, NEW ids
  PROVE  Keeps(Confirm(c, s, subject, p, ids), s)
<1> DEFINE a == Confirm(c, s, subject, p, ids)
           code == CodeAs("confirmCandidates", subject, c, s, p)
<1>1. \/ \E no : a = Deny(no, s)
      \/ /\ code = 200 /\ s[p].state # "FINALIZED" /\ ids \subseteq Candidates(s[p])
         /\ a = Answer(200, [s EXCEPT ![p] = Decided(@, ids, "CONFIRM")], p)
  BY DEF Confirm, MayConfirm
<1> HIDE DEF a, code
<1>2. CASE \E no : a = Deny(no, s)
  BY <1>2, DenyKeeps DEF a
<1>3. CASE /\ code = 200 /\ s[p].state # "FINALIZED" /\ ids \subseteq Candidates(s[p])
           /\ a = Answer(200, [s EXCEPT ![p] = Decided(@, ids, "CONFIRM")], p)
  <2>1. p \in DOMAIN s /\ "CONFIRM" \in DOMAIN Target
    BY <1>3, DeciderExists DEF code, Target
  <2>2. s[p] \in GoodProcess /\ ids \in SUBSET Findings(s[p])
    BY <1>3, <2>1 DEF Candidates
  <2>3. Decided(s[p], ids, "CONFIRM") \in GoodProcess
    BY <1>3, <2>1, <2>2, DecidedIsGood
  <2>4. a = Answer(200, [s EXCEPT ![p] = Decided(s[p], ids, "CONFIRM")], p)
    BY <1>3
  <2> QED BY <2>1, <2>3, <2>4, ChangeKeeps DEF a
<1> QED BY <1>1, <1>2, <1>3

LEMMA SelectKeeps ==
  ASSUME NEW s \in Seq(GoodProcess), NEW c, NEW subject, NEW p, NEW f
  PROVE  Keeps(Select(c, s, subject, p, f), s)
<1> DEFINE a == Select(c, s, subject, p, f)
           code == CodeAs("selectRevision", subject, c, s, p)
           etalons == s[p].etalons \cup {f}
           t == [s EXCEPT ![p].etalons = etalons, ![p].findings = Machine[<<s[p].files, etalons>>]]
<1>1. \/ \E no : a = Deny(no, s)
      \/ /\ code = 200 /\ s[p].state # "FINALIZED" /\ f \in s[p].files
         /\ a = Answer(200, t, p)
  BY DEF Select
<1> HIDE DEF a, code, t
<1>2. CASE \E no : a = Deny(no, s)
  BY <1>2, DenyKeeps DEF a
<1>3. CASE /\ code = 200 /\ s[p].state # "FINALIZED" /\ f \in s[p].files
           /\ a = Answer(200, t, p)
  <2> DEFINE r == [s[p] EXCEPT !.etalons = etalons, !.findings = Machine[<<s[p].files, etalons>>]]
  <2>1. p \in DOMAIN s
    BY <1>3, DeciderExists DEF code
  <2>2. s[p] \in GoodProcess /\ etalons \in SUBSET File
    BY <1>3, <2>1 DEF GoodProcess, Process
  <2> HIDE DEF etalons
  <2>3. r \in GoodProcess
    BY <1>3, <2>2, SelectedIsGood
  <2>4. t = [s EXCEPT ![p] = r]
    BY DEF t
  <2> HIDE DEF r
  <2> QED BY <1>3, <2>1, <2>3, <2>4, ChangeKeeps DEF a
<1> QED BY <1>1, <1>2, <1>3

LEMMA AdvanceKeeps ==
  ASSUME NEW s \in Seq(GoodProcess), NEW p \in DOMAIN s, NEW open \in BOOLEAN,
         NEW from, from # "FINALIZED", NEW to \in {"VERIFYING", "COMPLETED"}
  PROVE  Keeps(Advance(s, p, from, to, open), s)
<1> DEFINE a == Advance(s, p, from, to, open)
<1>1. \/ a = Deny(409, s)
      \/ s[p].state # "FINALIZED" /\ a = Answer(200, [s EXCEPT ![p].state = to], p)
  BY DEF Advance
<1> HIDE DEF a
<1>2. CASE a = Deny(409, s)
  BY <1>2, DenyKeeps DEF a
<1>3. CASE s[p].state # "FINALIZED" /\ a = Answer(200, [s EXCEPT ![p].state = to], p)
  <2> DEFINE r == [s[p] EXCEPT !.state = to]
  <2>1. r \in GoodProcess
    <3> DEFINE q == s[p]
    <3>1. q \in GoodProcess /\ q.state = s[p].state /\ q.sync = s[p].sync
      OBVIOUS
    <3> HIDE DEF q
    <3>2. [q EXCEPT !.state = to] \in GoodProcess
      BY <1>3, <3>1, AdvancedIsGood
    <3> QED BY <3>2 DEF q
  <2>2. [s EXCEPT ![p].state = to] = [s EXCEPT ![p] = r]
    OBVIOUS
  <2> HIDE DEF r
  <2> QED BY <1>3, <2>1, <2>2, ChangeKeeps DEF a
<1> QED BY <1>1, <1>2, <1>3

\* A press that finalizes ends in a finalized process.
LEMMA HumanActionKeeps ==
  ASSUME NEW s \in Seq(GoodProcess), NEW c, NEW subject, NEW p,
         NEW action \in {"verify", "complete", "finalize"}
  PROVE  LET a == HumanAction(c, s, subject, p, action) IN
         /\ Keeps(a, s)
         /\ action = "finalize" /\ a.code = 200 => p \in DOMAIN s /\ a.srv[p].state = "FINALIZED"
<1> DEFINE a == HumanAction(c, s, subject, p, action)
           op == [verify |-> "startVerification", complete |-> "completeVerification",
                  finalize |-> "finalizeProtocol"][action]
           code == CodeAs(op, subject, c, s, p)
<1>1. CASE code # 200
  <2>1. a = Deny(code, s)
    BY <1>1 DEF HumanAction
  <2> HIDE DEF a, code
  <2>2. Keeps(a, s) /\ a.code # 200
    BY <1>1, <2>1, DenyKeeps DEF Deny, Answer
  <2> QED BY <2>2 DEF a
<1>2. CASE code = 200
  <2>1. p \in DOMAIN s
    <3> HIDE DEF op
    <3> QED BY <1>2, DeciderExists
  <2>2. CASE action = "verify"
    <3>1. a = Advance(s, p, "READY", "VERIFYING", TRUE)
      BY <1>2, <2>2 DEF HumanAction
    <3> HIDE DEF a
    <3> QED BY <2>1, <2>2, <3>1, AdvanceKeeps DEF a
  <2>3. CASE action = "complete"
    <3>1. a = Advance(s, p, "VERIFYING", "COMPLETED", CanFinalize(s[p]))
      BY <1>2, <2>3 DEF HumanAction
    <3>2. CanFinalize(s[p]) \in BOOLEAN
      BY DEF CanFinalize
    <3> HIDE DEF a
    <3> QED BY <2>1, <2>3, <3>1, <3>2, AdvanceKeeps DEF a
  <2>4. CASE action = "finalize"
    <3>1. a = Finalize(s, p)
      BY <1>2, <2>4 DEF HumanAction
    <3> HIDE DEF a
    <3>2. CASE Finalize(s, p).code = 200
      <4>1. PICK r \in GoodProcess : /\ a = Answer(200, [s EXCEPT ![p] = r], p)
                                     /\ r.state = "FINALIZED"
        <5>1. Finalizes(s, p)
          BY <2>1, <3>2, FinalizedIsGood
        <5> QED BY <3>1, <5>1 DEF Finalizes
      <4>2. Keeps(a, s) /\ a.srv = [s EXCEPT ![p] = r]
        BY <2>1, <4>1, ChangeKeeps, AnswerParts
      <4> QED BY <2>1, <4>1, <4>2 DEF a
    <3>3. CASE Finalize(s, p).code # 200
      <4> DEFINE done == Advance(s, p, "COMPLETED", "FINALIZED", CanFinalize(s[p]))
      <4>1. Finalize(s, p) = done
        BY <3>3 DEF Finalize, Answer
      <4>2. done = Deny(409, s)
        BY <3>3, <4>1 DEF Advance, Answer
      <4>3. Keeps(a, s)
        BY <3>1, <4>1, <4>2, DenyKeeps
      <4> QED BY <3>1, <3>3, <4>3 DEF a
    <3> QED BY <3>2, <3>3
  <2> QED BY <2>2, <2>3, <2>4
<1> QED BY <1>1, <1>2

LEMMA UnfinalizeKeeps ==
  ASSUME NEW s \in Seq(GoodProcess), NEW c, NEW subject, NEW p
  PROVE  Keeps(Unfinalize(c, s, subject, p), s)
<1> DEFINE a == Unfinalize(c, s, subject, p)
           code == CodeAs("unfinalizeProtocol", subject, c, s, p)
           t == [s EXCEPT ![p].state = "COMPLETED", ![p].protocol = 0]
<1>1. \/ \E no : a = Deny(no, s)
      \/ code = 200 /\ s[p].sync = "NOT_REQUESTED" /\ a = Answer(200, t, p)
  BY DEF Unfinalize
<1> HIDE DEF a, code, t
<1>2. CASE \E no : a = Deny(no, s)
  BY <1>2, DenyKeeps DEF a
<1>3. CASE code = 200 /\ s[p].sync = "NOT_REQUESTED" /\ a = Answer(200, t, p)
  <2> DEFINE r == [s[p] EXCEPT !.state = "COMPLETED", !.protocol = 0]
  <2>1. p \in DOMAIN s
    BY <1>3, DeciderExists DEF code
  <2>2. r \in GoodProcess
    <3> DEFINE q == s[p]
    <3>1. q \in GoodProcess /\ q.state = s[p].state /\ q.sync = s[p].sync
      BY <2>1
    <3> HIDE DEF q
    <3>2. [q EXCEPT !.state = "COMPLETED", !.protocol = 0] \in GoodProcess
      BY <1>3, <2>1, <3>1, ReopenedIsGood
    <3> QED BY <3>2 DEF q
  <2>3. t = [s EXCEPT ![p] = r]
    BY DEF t
  <2> HIDE DEF r
  <2> QED BY <1>3, <2>1, <2>2, <2>3, ChangeKeeps DEF a
<1> QED BY <1>1, <1>2, <1>3

LEMMA SyncKeeps ==
  ASSUME NEW s \in Seq(GoodProcess), NEW c, NEW p, NEW durable
  PROVE  Keeps(SyncInspection(c, s, p, durable), s)
<1> DEFINE a == SyncInspection(c, s, p, durable)
           code == CodeFor("syncInspection", c, s, p)
           sync == IF s[p].sync = "NOT_REQUESTED" THEN "PENDING_SYNC" ELSE "RETRY_WAIT"
           asked == [s EXCEPT ![p].sync = IF @ = "NOT_REQUESTED" THEN "PENDING_SYNC" ELSE "RETRY_WAIT"]
<1>1. \/ \E no : a = Deny(no, s)
      \/ /\ code = 200 /\ s[p].state = "FINALIZED"
         /\ a = Deny(409, asked) \/ a = Answer(200, asked, p)
  BY DEF SyncInspection
<1> HIDE DEF a, code, asked
<1>2. CASE \E no : a = Deny(no, s)
  BY <1>2, DenyKeeps DEF a
<1>3. CASE /\ code = 200 /\ s[p].state = "FINALIZED"
           /\ a = Deny(409, asked) \/ a = Answer(200, asked, p)
  <2> DEFINE r == [s[p] EXCEPT !.sync = sync]
  <2>1. p \in DOMAIN s
    BY <1>3, AllowedExists DEF code
  <2>2. asked = [s EXCEPT ![p] = r]
    BY <2>1 DEF asked
  <2>3. sync \in {"PENDING_SYNC", "RETRY_WAIT"}
    OBVIOUS
  <2> HIDE DEF sync
  <2>4. r \in GoodProcess
    <3> DEFINE q == s[p]
    <3>1. q \in GoodProcess /\ q.state = s[p].state /\ q.sync = s[p].sync
      BY <2>1
    <3> HIDE DEF q
    <3>2. [q EXCEPT !.sync = sync] \in GoodProcess
      BY <1>3, <2>1, <2>3, <3>1, AskedIsGood
    <3> QED BY <3>2 DEF q
  <2> HIDE DEF r
  <2>5. a = Answer(409, asked, 0) \/ a = Answer(200, asked, p)
    BY <1>3 DEF Deny
  <2> QED BY <2>1, <2>2, <2>4, <2>5, ChangeKeeps DEF a
<1> QED BY <1>1, <1>2, <1>3

\* Reading changes nothing.
LEMMA ReadKeeps ==
  ASSUME NEW s \in Seq(GoodProcess), NEW op, NEW c, NEW p
  PROVE  /\ Read(op, c, s, p).srv = s /\ (Read(op, c, s, p).code = 200 => p \in DOMAIN s)
         /\ ReadProtocol(c, s, p).srv = s /\ ReadFile(c, s, p).srv = s
<1>1. \A name : Read(name, c, s, p).srv = s /\ (Read(name, c, s, p).code = 200 => p \in DOMAIN s)
  <2> TAKE name
  <2>1. CodeFor(name, c, s, p) = 200 => p \in DOMAIN s
    BY AllowedExists
  <2> QED BY <2>1 DEF Read, Deny, Answer
<1>2. ReadProtocol(c, s, p).srv = s
  BY <1>1 DEF ReadProtocol, Deny, Answer
<1> QED BY <1>1, <1>2 DEF ReadFile, Deny, Answer

-----------------------------------------------------------------------------
(* What papers and files of a good process say.                            *)

\* The table of a status.
LEMMA SectionFacts ==
  ASSUME NEW status \in FindingStatus
  PROVE  /\ status # "AUTO_NO_DIFFERENCE" => SectionOf(status) \in Tables
         /\ status = "AUTO_NO_DIFFERENCE" => SectionOf(status) = Pocket
         /\ SectionOf(status) = "confirmed" <=> status = "CONFIRMED_VIOLATION"
         /\ SectionOf(status) = "negative_verified" <=> status = "NEGATIVE_VERIFIED"
         /\ SectionOf(status) = "candidates" <=> status = "CANDIDATE"
         /\ Pocket \notin Tables
BY DEF SectionOf, FindingStatus, Tables, Pocket

LEMMA RowFacts ==
  ASSUME NEW r \in GoodProcess, NEW i \in Findings(r)
  PROVE  /\ i \in Id /\ r.findings[i] \in Finding /\ r.findings[i].status \in FindingStatus
         /\ Row(i, r.findings[i]).id = i /\ Row(i, r.findings[i]).status = r.findings[i].status
         /\ Row(i, r.findings[i]).value = r.findings[i].value
         /\ Row(i, r.findings[i]).decided = r.findings[i].decided
BY DEF GoodProcess, Process, Findings, Row, Finding

\* The document of a process is assembled from what it found, now or then.
TablesOf(r) == [name \in Tables |-> {row \in RowsOf(r) : SectionOf(row.status) = name}]

LEMMA DocumentParts ==
  ASSUME NEW r \in GoodProcess
  PROVE  /\ ProtocolDocument(r).sections = TablesOf(r)
         /\ ProtocolDocument(r).status = ProtocolStatus[r.state]
         /\ ProtocolDocument(r).violations =
              Cardinality({row \in RowsOf(r) : SectionOf(row.status) = "confirmed"})
<1> DEFINE paper == IF r.state = "FINALIZED" THEN Stored(r) ELSE AssembleProtocol(r, 1)
<1>1. \E v : paper = AssembleProtocol(r, v)
  <2>1. CASE r.state = "FINALIZED"
    <3>1. PICK p \in r.papers : p.version = r.protocol
      BY <2>1 DEF GoodProcess, InForce
    <3>2. Stored(r) \in r.papers /\ Stored(r).version = r.protocol
      BY <3>1 DEF Stored
    <3>3. Stored(r) = AssembleProtocol(r, r.protocol)
      BY <2>1, <3>2 DEF GoodProcess, InForce
    <3> QED BY <2>1, <3>3
  <2>2. CASE r.state # "FINALIZED"
    BY <2>2
  <2> QED BY <2>1, <2>2
<1>2. PICK v : paper = AssembleProtocol(r, v)
  BY <1>1
<1>3. ProtocolDocument(r) = ProtocolForHttp(paper)
  BY DEF ProtocolDocument
<1> HIDE DEF paper
<1> DEFINE count == Cardinality({row \in RowsOf(r) : SectionOf(row.status) = "confirmed"})
<1>4. paper = [version |-> v, status |-> ProtocolStatus[r.state], scenario |-> DetectScenario(r),
               upload |-> Completeness(r), completeness |-> CompletenessRows(r),
               sections |-> SectionsOf(r), violations |-> count]
  BY <1>2, PaperParts
<1>5. [name \in Tables |-> SectionsOf(r)[name]] = TablesOf(r)
  BY DEF SectionsOf, TablesOf
<1> HIDE DEF count
<1>6. ProtocolForHttp(paper) = [paper EXCEPT !.sections = [name \in Tables |-> paper.sections[name]]]
  BY DEF ProtocolForHttp
<1>7. /\ ProtocolForHttp(paper).sections = TablesOf(r)
      /\ ProtocolForHttp(paper).status = ProtocolStatus[r.state]
      /\ ProtocolForHttp(paper).violations = count
  BY <1>4, <1>5, <1>6
<1> QED BY <1>3, <1>7 DEF count

\* The row of a table is a finding under a status of that table.
LEMMA TableFacts ==
  ASSUME NEW r \in GoodProcess, NEW name \in Tables, NEW row
  PROVE  row \in TablesOf(r)[name] <=>
           \E i \in Findings(r) : /\ row = Row(i, r.findings[i])
                                  /\ SectionOf(r.findings[i].status) = name
<1>1. TablesOf(r)[name] = {x \in RowsOf(r) : SectionOf(x.status) = name}
  BY DEF TablesOf
<1>2. \A i \in Findings(r) : Row(i, r.findings[i]).status = r.findings[i].status
  BY RowFacts
<1> QED BY <1>1, <1>2 DEF RowsOf

\* No renderer refuses it.
LEMMA NothingRefused ==
  ASSUME NEW r \in GoodProcess
  PROVE  ~Refuses(ProtocolDocument(r))
<1> DEFINE d == ProtocolDocument(r)
<1>1. d.sections = TablesOf(r) /\ Pocket \notin DOMAIN d.sections
  BY DocumentParts DEF TablesOf, Tables, Pocket
<1>2. ASSUME NEW name \in Tables, NEW row \in d.sections[name]
      PROVE  row.status # "AUTO_NO_DIFFERENCE"
  <2>1. PICK i \in Findings(r) : /\ row = Row(i, r.findings[i])
                                 /\ SectionOf(r.findings[i].status) = name
    BY <1>1, <1>2, TableFacts
  <2>2. row.status = r.findings[i].status /\ row.status \in FindingStatus
    BY <2>1, RowFacts
  <2> QED BY <2>1, <2>2, SectionFacts
<1> HIDE DEF d
<1>3. ~Refuses(d)
  BY <1>1, <1>2 DEF Refuses
<1> QED BY <1>3 DEF d

\* Each file shows every finding somebody has to look at, with its value.
LEMMA FileShows ==
  ASSUME NEW r \in GoodProcess, NEW kind \in {"docx", "xml", "pdf"}
  PROVE  LET file == FileOf(kind, r)
             shown == UNION {file.tables[name] : name \in Tables} IN
         /\ shown = {[id |-> i, status |-> r.findings[i].status] :
                        i \in {j \in Findings(r) : r.findings[j].status # "AUTO_NO_DIFFERENCE"}}
         /\ \A name \in Tables : \A c \in file.cards[name] : c.fact = r.findings[c.id].value
<1> DEFINE paper == ProtocolDocument(r)
           cards == CardsFromGroups(paper, r)
           file == FileOf(kind, r)
           cell(row) == [id |-> row.id, status |-> row.status]
           shown == UNION {file.tables[name] : name \in Tables}
           seen == {j \in Findings(r) : r.findings[j].status # "AUTO_NO_DIFFERENCE"}
<1>1. file = RenderDocx(paper, cards)
  BY DEF FileOf, RenderXml, RenderPdf
<1>2. paper.sections = TablesOf(r)
  BY DocumentParts
<1> HIDE DEF paper, cards, file
<1>3. /\ file.tables = [name \in Tables |-> {cell(row) : row \in TablesOf(r)[name]}]
      /\ file.cards = [name \in Tables |-> {[id |-> row.id, fact |-> FactPairs(row, cards)] :
                                              row \in TablesOf(r)[name]}]
  BY <1>1, <1>2 DEF RenderDocx
<1>4. ASSUME NEW x PROVE x \in shown <=> x \in {[id |-> i, status |-> r.findings[i].status] : i \in seen}
  <2>1. ASSUME x \in shown PROVE \E i \in seen : x = [id |-> i, status |-> r.findings[i].status]
    <3>1. PICK name \in Tables : \E row \in TablesOf(r)[name] : x = cell(row)
      BY <1>3, <2>1
    <3>2. PICK row \in TablesOf(r)[name] : x = cell(row)
      BY <3>1
    <3>3. PICK i \in Findings(r) : /\ row = Row(i, r.findings[i])
                                   /\ SectionOf(r.findings[i].status) = name
      BY <3>2, TableFacts
    <3>4. row.id = i /\ row.status = r.findings[i].status /\ row.status \in FindingStatus
      BY <3>3, RowFacts
    <3>5. i \in seen
      BY <3>3, <3>4, SectionFacts
    <3> QED BY <3>2, <3>4, <3>5
  <2>2. ASSUME NEW i \in seen, x = [id |-> i, status |-> r.findings[i].status] PROVE x \in shown
    <3> DEFINE row == Row(i, r.findings[i])
               name == SectionOf(r.findings[i].status)
    <3>1. row.id = i /\ row.status = r.findings[i].status /\ row.status \in FindingStatus
      BY RowFacts
    <3>2. name \in Tables
      BY <3>1, SectionFacts
    <3> HIDE DEF row, name
    <3>3. row \in TablesOf(r)[name]
      BY <3>2, TableFacts DEF row, name
    <3>4. x = cell(row)
      BY <2>2, <3>1
    <3>5. x \in file.tables[name]
      BY <1>3, <3>2, <3>3, <3>4
    <3> QED BY <3>2, <3>5
  <2> QED BY <2>1, <2>2
<1>5. ASSUME NEW name \in Tables, NEW c \in file.cards[name] PROVE c.fact = r.findings[c.id].value
  <2>1. PICK row \in TablesOf(r)[name] : c = [id |-> row.id, fact |-> FactPairs(row, cards)]
    BY <1>3
  <2>2. PICK i \in Findings(r) : row = Row(i, r.findings[i])
    BY <2>1, TableFacts
  <2>3. row.id = i /\ row.value = r.findings[i].value
    BY <2>2, RowFacts
  <2>4. \A k \in DOMAIN cards : cards[k] = r.findings[k].value
    BY DEF cards, CardsFromGroups
  <2> QED BY <2>1, <2>3, <2>4 DEF FactPairs
<1>6. shown = {[id |-> i, status |-> r.findings[i].status] : i \in seen}
  <2> HIDE DEF shown, seen
  <2> QED BY <1>4
<1> QED BY <1>5, <1>6 DEF file

\* A finalized process says on paper what is on the screen.
LEMMA FinalSays ==
  ASSUME NEW r \in GoodProcess, r.state = "FINALIZED", NEW shown, shown.findings = r.findings
  PROVE  LET paper == ProtocolDocument(r)
             rin == ProtocolForRin(paper).sections IN
         /\ paper.status = "PROTOCOL_FINALIZED" /\ Says(paper, shown)
         /\ paper.sections["candidates"] = {}
         /\ \A row \in rin["confirmed"] \cup rin["negative_verified"] : row.decided
<1> DEFINE paper == ProtocolDocument(r)
           rin == ProtocolForRin(paper).sections
           seen == {i \in Id : /\ shown.findings[i] # NoFinding
                               /\ shown.findings[i].status # "AUTO_NO_DIFFERENCE"}
           in(name) == {j \in seen : SectionOf(shown.findings[j].status) = name}
           confirmed == {row \in RowsOf(r) : SectionOf(row.status) = "confirmed"}
           violations == {i \in seen : shown.findings[i].status = "CONFIRMED_VIOLATION"}
<1>1. /\ paper.sections = TablesOf(r) /\ paper.status = "PROTOCOL_FINALIZED"
      /\ paper.violations = Cardinality(confirmed)
  BY DocumentParts DEF ProtocolStatus
<1>2. /\ seen \subseteq Findings(r)
      /\ \A i \in Findings(r) : i \in seen <=> r.findings[i].status # "AUTO_NO_DIFFERENCE"
  BY DEF Findings
<1> HIDE DEF paper, seen
<1>3. ASSUME NEW name \in Tables
      PROVE  paper.sections[name] = {Row(i, shown.findings[i]) : i \in in(name)}
  <2>1. ASSUME NEW row PROVE row \in TablesOf(r)[name] <=> \E i \in in(name) : row = Row(i, r.findings[i])
    <3>1. \A i \in Findings(r) : SectionOf(r.findings[i].status) = name => i \in seen
      BY <1>2, RowFacts, SectionFacts
    <3>2. \A i : i \in in(name) <=> i \in Findings(r) /\ SectionOf(r.findings[i].status) = name
      BY <1>2, <3>1
    <3> HIDE DEF in
    <3> QED BY <3>2, TableFacts
  <2>2. {Row(i, shown.findings[i]) : i \in in(name)} = {Row(i, r.findings[i]) : i \in in(name)}
    OBVIOUS
  <2>3. TablesOf(r)[name] = {Row(i, r.findings[i]) : i \in in(name)}
    <3> HIDE DEF in
    <3> QED BY <2>1
  <2> QED BY <1>1, <2>2, <2>3
<1>4. DOMAIN paper.sections = Tables
  BY <1>1 DEF TablesOf
<1>5. paper.violations = Cardinality(violations)
  <2> DEFINE f == [i \in violations |-> Row(i, r.findings[i])]
  <2>1. \A i \in Findings(r) : i \in violations <=> SectionOf(r.findings[i].status) = "confirmed"
    BY <1>2, RowFacts, SectionFacts
  <2>2. violations \subseteq Findings(r)
    BY <1>2
  <2>3. \A i \in Findings(r) : Row(i, r.findings[i]).id = i /\ Row(i, r.findings[i]).status = r.findings[i].status
    BY RowFacts
  <2> HIDE DEF violations
  <2>4. f \in [violations -> confirmed]
    BY <2>1, <2>2, <2>3 DEF RowsOf
  <2>5. \A i, j \in violations : f[i] = f[j] => i = j
    BY <2>2, <2>3
  <2>6. \A row \in confirmed : \E i \in violations : f[i] = row
    BY <2>1, <2>3 DEF RowsOf
  <2>7. IsFiniteSet(violations)
    BY <2>2, ClientAssumption, FS_Subset DEF Findings
  <2> HIDE DEF f, confirmed
  <2>8. f \in Bijection(violations, confirmed)
    BY <2>4, <2>5, <2>6 DEF Bijection, Injection, Surjection, IsInjective
  <2> QED BY <1>1, <2>7, <2>8, FS_Bijection DEF ExistsBijection
<1>6. paper.sections["candidates"] = {}
  <2>1. Candidates(r) = {} /\ "candidates" \in Tables
    BY DEF GoodProcess, Tables
  <2>2. ASSUME NEW row \in TablesOf(r)["candidates"] PROVE FALSE
    <3>1. PICK i \in Findings(r) : SectionOf(r.findings[i].status) = "candidates"
      BY <2>1, <2>2, TableFacts
    <3>2. r.findings[i].status = "CANDIDATE"
      BY <3>1, RowFacts, SectionFacts
    <3> QED BY <2>1, <3>2 DEF Candidates
  <2> QED BY <1>1, <2>2
<1>7. ASSUME NEW row \in rin["confirmed"] \cup rin["negative_verified"] PROVE row.decided
  <2>1. \E name \in {"confirmed", "negative_verified"} :
          row \in paper.sections[name] /\ row.status \in HumanOnlyStatuses
    BY <1>7 DEF ProtocolForRin, RinSectionAllowlist, HumanOnlyStatuses
  <2>2. PICK name \in {"confirmed", "negative_verified"} :
          row \in TablesOf(r)[name] /\ row.status \in HumanOnlyStatuses
    BY <1>1, <2>1
  <2>3. PICK i \in Findings(r) : row = Row(i, r.findings[i])
    BY <2>2, TableFacts DEF Tables
  <2>4. row.decided = r.findings[i].decided /\ r.findings[i].status \in HumanOnlyStatuses
    BY <2>2, <2>3, RowFacts
  <2> QED BY <2>4 DEF GoodProcess
<1>8. Says(paper, shown)
  BY <1>3, <1>4, <1>5 DEF Says, seen
<1> QED BY <1>1, <1>6, <1>7, <1>8 DEF paper

-----------------------------------------------------------------------------
(* Sequences of requests.                                                  *)

LEMMA SeqOfItsOwn ==
  ASSUME NEW S, NEW s \in Seq(S)
  PROVE  s \in Seq({s[k] : k \in DOMAIN s})
OBVIOUS

\* The request that is due, and what is left when it has been answered.
LEMMA DueOfTodo ==
  ASSUME NEW kind \in Kind, NEW todo, Todo(kind, todo)
  PROVE  /\ Head(todo).op \in OpsOf[kind] /\ ArgOK(Head(todo))
         /\ Len(todo) = 1 => Head(todo).op \in Ends
<1>1. 1 \in DOMAIN todo /\ Head(todo) = todo[1] /\ Len(todo) \in Nat
  BY DEF Todo
<1> QED BY <1>1 DEF Todo

LEMMA RestOfTodo ==
  ASSUME NEW kind \in Kind, NEW todo, Todo(kind, todo), Len(todo) # 1
  PROVE  /\ Todo(kind, Tail(todo)) /\ Head(Tail(todo)).op \in After[Head(todo).op]
         /\ Tail(todo) # <<>>
<1> DEFINE S == {todo[k] : k \in DOMAIN todo}
           rest == Tail(todo)
           n == Len(todo)
<1>1. todo \in Seq(S) /\ todo # <<>>
  BY DEF Todo
<1> HIDE DEF S
<1>2. n \in Nat /\ n > 1
  BY <1>1
<1>3. /\ rest \in Seq(S) /\ Len(rest) = n - 1 /\ DOMAIN rest = 1..(n - 1)
      /\ \A k \in 1..(n - 1) : rest[k] = todo[k + 1]
  BY <1>1, <1>2
<1>4. Head(todo) = todo[1] /\ Head(rest) = todo[2] /\ DOMAIN todo = 1..n /\ rest # <<>>
  <2>1. 1 \in 1..(n - 1) /\ 1 + 1 = 2
    BY <1>2
  <2> HIDE DEF rest, n
  <2>2. rest[1] = todo[1 + 1]
    BY <1>3, <2>1
  <2>3. Len(rest) # 0 /\ rest # <<>> /\ Head(rest) = rest[1]
    BY <1>2, <1>3
  <2> QED BY <1>1, <2>1, <2>2, <2>3 DEF n
<1>5. rest \in Seq({rest[k] : k \in DOMAIN rest})
  <2>1. rest \in Seq(S)
    BY <1>3
  <2> HIDE DEF rest
  <2> QED BY <2>1, SeqOfItsOwn
<1>6. \A k \in DOMAIN todo :
        /\ todo[k].op \in OpsOf[kind] /\ ArgOK(todo[k])
        /\ IF k = n THEN todo[k].op \in Ends ELSE todo[k + 1].op \in After[todo[k].op]
  BY DEF Todo
<1>7. todo[2].op \in After[todo[1].op]
  BY <1>2, <1>4, <1>6
<1> HIDE DEF rest, n
<1>8. ASSUME NEW k \in 1..(n - 1)
      PROVE  /\ rest[k].op \in OpsOf[kind] /\ ArgOK(rest[k])
             /\ IF k = n - 1 THEN rest[k].op \in Ends ELSE rest[k + 1].op \in After[rest[k].op]
  <2>1. k + 1 \in DOMAIN todo /\ rest[k] = todo[k + 1] /\ (k # n - 1 => rest[k + 1] = todo[k + 2])
    BY <1>2, <1>3, <1>4
  <2>2. k + 1 = n <=> k = n - 1
    BY <1>2
  <2>3. (k + 1) + 1 = k + 2
    OBVIOUS
  <2> QED BY <1>6, <2>1, <2>2, <2>3
<1>9. Todo(kind, rest)
  BY <1>3, <1>4, <1>5, <1>8 DEF Todo
<1> QED BY <1>4, <1>7, <1>9 DEF rest

\* Requests that change something, and the refresh.
Leads(kind, pre) ==
  \A k \in 1..Len(pre) :
    /\ pre[k].op \in OpsOf[kind] /\ ArgOK(pre[k])
    /\ IF k = Len(pre) THEN "documents" \in After[pre[k].op] ELSE pre[k + 1].op \in After[pre[k].op]

LEMMA RefreshFacts ==
  /\ Len(Refresh) = 3 /\ Refresh \in Seq({Refresh[1], Refresh[2], Refresh[3]})
  /\ Refresh[1].op = "documents" /\ Refresh[2].op = "findings" /\ Refresh[3].op = "status"
  /\ \A k \in 1..3 : ArgOK(Refresh[k])
BY DEF Refresh, Step, ArgOK

Refreshes(kind, todo, pre) ==
  /\ Todo(kind, todo) /\ Len(todo) = Len(pre) + 3
  /\ todo[Len(todo)].op = "status"
  /\ IF Len(pre) = 0 THEN Head(todo).op = "documents" ELSE Head(todo) = pre[1]

LEMMA ThenRefresh ==
  ASSUME NEW kind \in Kind, Reads \subseteq OpsOf[kind], NEW S, NEW pre \in Seq(S), Leads(kind, pre)
  PROVE  Refreshes(kind, pre \o Refresh, pre)
<1> DEFINE todo == pre \o Refresh
           n == Len(pre)
           R == {Refresh[1], Refresh[2], Refresh[3]}
<1>1. n \in Nat /\ pre \in Seq(S \cup R) /\ Refresh \in Seq(S \cup R) /\ Len(Refresh) = 3
  <2>1. Refresh \in Seq(R)
    BY RefreshFacts
  <2> HIDE DEF R
  <2> QED BY <2>1, RefreshFacts
<1>2. /\ todo \in Seq(S \cup R) /\ Len(todo) = n + 3 /\ DOMAIN todo = 1..(n + 3)
      /\ \A k \in 1..(n + 3) : todo[k] = IF k <= n THEN pre[k] ELSE Refresh[k - n]
  <2> DEFINE T == S \cup R
  <2>1. pre \in Seq(T) /\ Refresh \in Seq(T) /\ n \in Nat /\ Len(Refresh) = 3
    BY <1>1
  <2> HIDE DEF T
  <2>2. /\ pre \o Refresh \in Seq(T)
        /\ Len(pre \o Refresh) = Len(pre) + Len(Refresh)
        /\ \A k \in 1..(Len(pre) + Len(Refresh)) :
             (pre \o Refresh)[k] = IF k <= Len(pre) THEN pre[k] ELSE Refresh[k - Len(pre)]
    BY <2>1, ConcatProperties
  <2> HIDE DEF todo
  <2>3. /\ todo \in Seq(T) /\ Len(todo) = n + 3
        /\ \A k \in 1..(n + 3) : todo[k] = IF k <= n THEN pre[k] ELSE Refresh[k - n]
    BY <2>1, <2>2 DEF todo
  <2> QED BY <2>3 DEF T
<1>3. todo \in Seq({todo[k] : k \in DOMAIN todo})
  <2> HIDE DEF R, todo
  <2> QED BY <1>2, SeqOfItsOwn
<1> HIDE DEF R, todo
<1>4. /\ todo[n + 1] = Refresh[1] /\ todo[n + 2] = Refresh[2] /\ todo[n + 3] = Refresh[3]
      /\ \A k \in 1..n : todo[k] = pre[k]
  <2>1. (n + 1) - n = 1 /\ (n + 2) - n = 2 /\ (n + 3) - n = 3
    BY <1>1
  <2>2. \A k \in {n + 1, n + 2, n + 3} : k \in 1..(n + 3) /\ ~(k <= n)
    BY <1>1
  <2> QED BY <1>1, <1>2, <2>1, <2>2
<1> HIDE DEF n
<1>5. ASSUME NEW k \in 1..n
      PROVE  /\ todo[k].op \in OpsOf[kind] /\ ArgOK(todo[k]) /\ k # n + 3
             /\ todo[k + 1].op \in After[todo[k].op]
  <2>1. /\ pre[k].op \in OpsOf[kind] /\ ArgOK(pre[k])
        /\ IF k = n THEN "documents" \in After[pre[k].op] ELSE pre[k + 1].op \in After[pre[k].op]
    BY DEF Leads, n
  <2>2. CASE k = n
    BY <1>1, <1>4, <2>1, <2>2, RefreshFacts
  <2>3. CASE k # n
    <3>1. k + 1 \in 1..n
      BY <1>1, <2>3
    <3> QED BY <1>1, <1>4, <2>1, <2>3, <3>1
  <2> QED BY <2>2, <2>3
<1>6. /\ After["documents"] = {"findings"} /\ After["findings"] = {"status"} /\ "status" \in Ends
      /\ {"documents", "findings", "status"} \subseteq OpsOf[kind]
  BY DEF After, Ends, Reads
<1>7. ASSUME NEW k \in {n + 1, n + 2, n + 3}
      PROVE  /\ todo[k].op \in OpsOf[kind] /\ ArgOK(todo[k])
             /\ IF k = n + 3 THEN todo[k].op \in Ends ELSE todo[k + 1].op \in After[todo[k].op]
  <2>1. (n + 1) + 1 = n + 2 /\ (n + 2) + 1 = n + 3 /\ n + 1 # n + 3 /\ n + 2 # n + 3
    BY <1>1
  <2>2. ArgOK(todo[n + 1]) /\ ArgOK(todo[n + 2]) /\ ArgOK(todo[n + 3])
    BY <1>4, RefreshFacts
  <2> QED BY <1>4, <1>6, <2>1, <2>2, RefreshFacts
<1>8. \A k \in 1..(n + 3) : k \in 1..n \/ k \in {n + 1, n + 2, n + 3}
  BY <1>1
<1>9. todo # <<>>
  BY <1>1, <1>2
<1>10. Todo(kind, todo)
  BY <1>2, <1>3, <1>5, <1>7, <1>8, <1>9 DEF Todo
<1>11. todo[n + 3].op = "status"
  BY <1>4, RefreshFacts
<1>12. Head(todo) = todo[1] /\ (n # 0 => 1 \in 1..n) /\ (n = 0 => n + 1 = 1)
  BY <1>1, <1>2
<1>13. IF n = 0 THEN Head(todo).op = "documents" ELSE Head(todo) = pre[1]
  BY <1>4, <1>12, RefreshFacts
<1> QED BY <1>2, <1>10, <1>11, <1>13 DEF Refreshes, todo, n

\* The card of the next finding is asked for after a refresh.
LEMMA ThenCard ==
  ASSUME NEW kind \in Kind, "card" \in OpsOf[kind], NEW todo, Todo(kind, todo),
         todo[Len(todo)].op = "status", NEW i \in Id
  PROVE  LET more == todo \o <<Step("card", i)>> IN Todo(kind, more) /\ Head(more) = Head(todo)
<1> DEFINE more == todo \o <<Step("card", i)>>
           n == Len(todo)
           S == {todo[k] : k \in DOMAIN todo}
           T == S \cup {Step("card", i)}
<1>1. todo \in Seq(S) /\ todo # <<>>
  BY DEF Todo
<1> HIDE DEF S
<1>2. /\ more \in Seq(T) /\ Len(more) = n + 1 /\ DOMAIN more = 1..(n + 1) /\ n \in Nat \ {0}
      /\ \A k \in 1..n : more[k] = todo[k]
      /\ more[n + 1] = Step("card", i) /\ DOMAIN todo = 1..n /\ Head(more) = Head(todo)
  BY <1>1
<1>3. more \in Seq({more[k] : k \in DOMAIN more})
  <2> HIDE DEF more, T
  <2> QED BY <1>2, SeqOfItsOwn
<1> HIDE DEF more
<1>4. /\ Step("card", i).op = "card" /\ ArgOK(Step("card", i)) /\ "card" \in Ends
      /\ After["status"] = {"card"}
  BY DEF Step, ArgOK, Ends, After
<1>5. \A k \in 1..n :
        /\ todo[k].op \in OpsOf[kind] /\ ArgOK(todo[k])
        /\ IF k = n THEN todo[k].op \in Ends ELSE todo[k + 1].op \in After[todo[k].op]
  BY <1>2 DEF Todo
<1>6. todo[n].op = "status"
  OBVIOUS
<1> HIDE DEF n
<1>7. ASSUME NEW k \in 1..(n + 1)
      PROVE  /\ more[k].op \in OpsOf[kind] /\ ArgOK(more[k])
             /\ IF k = n + 1 THEN more[k].op \in Ends ELSE more[k + 1].op \in After[more[k].op]
  <2>1. CASE k = n + 1
    BY <1>2, <1>4, <2>1
  <2>2. CASE k = n
    <3>1. k \in 1..n /\ k # n + 1
      BY <1>2, <2>2
    <3>2. more[k].op = "status" /\ more[k + 1].op = "card"
      BY <1>2, <1>4, <1>6, <2>2, <3>1
    <3>3. more[k].op \in OpsOf[kind] /\ ArgOK(more[k])
      BY <1>2, <1>5, <3>1
    <3> QED BY <1>4, <3>1, <3>2, <3>3
  <2>3. CASE k \in 1..n /\ k # n
    <3>1. k + 1 \in 1..n /\ k # n + 1
      BY <1>2, <2>3
    <3> QED BY <1>2, <1>5, <2>3, <3>1
  <2> QED BY <1>2, <2>1, <2>2, <2>3
<1>8. more # <<>>
  BY <1>2
<1>9. Todo(kind, more)
  BY <1>2, <1>3, <1>7, <1>8 DEF Todo
<1> QED BY <1>2, <1>9 DEF more

-----------------------------------------------------------------------------
(* The job.                                                                *)

LEMMA IdleFacts ==
  /\ Idle = [kind |-> "idle", todo |-> <<>>, at |-> 0, next |-> 0, documents |-> Blank.documents,
             findings |-> NoFindings, protocol |-> NoPaper, sure |-> FALSE, fresh |-> FALSE,
             dirty |-> FALSE]
  /\ NoFindings \in [Id -> Finding \cup {NoFinding}]
BY DEF Idle, NoFindings

LEMMA JobFacts ==
  ASSUME JobOK, Busy
  PROVE  /\ DOMAIN job = JobField
         /\ job.kind \in Kind /\ Todo(job.kind, job.todo) /\ job.at = process
         /\ Due.op \in OpsOf[job.kind] /\ ArgOK(Due)
<1>1. DOMAIN job = JobField /\ job.kind \in Kind /\ Todo(job.kind, job.todo) /\ job.at = process
  BY DEF JobOK
<1> QED BY <1>1, DueOfTodo DEF Due

\* A job without a job is idle.
LEMMA IdleIsOK ==
  ASSUME job' = Idle
  PROVE  ~Busy' /\ JobOK' /\ FreshOK' /\ SureOK' /\ ProtocolOK' /\ ~job'.dirty
<1>1. DOMAIN Idle = JobField /\ Idle.kind = "idle" /\ Idle.todo = <<>> /\ Idle.next = 0 /\ Idle.findings = NoFindings
  BY IdleFacts DEF JobField
<1>2. ~Idle.sure /\ ~Idle.fresh /\ ~Idle.dirty /\ {Idle.sure, Idle.fresh, Idle.dirty} \subseteq BOOLEAN
  BY IdleFacts
<1>3. ~Busy'
  BY <1>1 DEF Busy
<1>4. JobOK'
  BY <1>1, <1>2, <1>3, IdleFacts DEF JobOK
<1>5. ~job'.dirty
  BY <1>2
<1> QED BY <1>3, <1>4, <1>5 DEF FreshOK, SureOK, ProtocolOK

\* An answer is followed by the next request, or by nothing.
LEMMA Proceeds ==
  ASSUME JobOK, Busy, NEW j, DOMAIN j = JobField, j.kind = job.kind, j.todo = job.todo,
         job' = Proceed(j)
  PROVE  \/ job' = Idle /\ Due.op \in Ends
         \/ /\ DOMAIN job' = JobField /\ job'.kind = job.kind /\ job'.todo = Tail(job.todo)
            /\ job'.at = j.at /\ job'.next = j.next /\ job'.documents = j.documents
            /\ job'.findings = j.findings /\ job'.protocol = j.protocol /\ job'.sure = j.sure
            /\ job'.fresh = j.fresh /\ job'.dirty = j.dirty
            /\ Busy' /\ Todo(job.kind, Tail(job.todo)) /\ Due'.op \in After[Due.op]
<1>1. job.kind \in Kind /\ Todo(job.kind, job.todo)
  BY JobFacts
<1>2. CASE Len(job.todo) = 1
  BY <1>1, <1>2, DueOfTodo DEF Proceed, Due
<1>3. CASE Len(job.todo) # 1
  <2>1. job' = [j EXCEPT !.todo = Tail(@)]
    BY <1>3 DEF Proceed
  <2>2. Todo(job.kind, Tail(job.todo)) /\ Head(Tail(job.todo)).op \in After[Head(job.todo).op]
    BY <1>1, <1>3, RestOfTodo
  <2>3. /\ DOMAIN job' = JobField /\ job'.kind = job.kind /\ job'.todo = Tail(job.todo)
        /\ job'.at = j.at /\ job'.next = j.next /\ job'.documents = j.documents
        /\ job'.findings = j.findings /\ job'.protocol = j.protocol /\ job'.sure = j.sure
        /\ job'.fresh = j.fresh /\ job'.dirty = j.dirty
    BY <2>1 DEF JobField
  <2>4. Busy'
    BY <2>3 DEF Busy, JobOK
  <2> QED BY <2>2, <2>3, <2>4 DEF Due
<1> QED BY <1>2, <1>3

LEMMA NextRequest ==
  ASSUME NEW op, NEW next, next \in After[op], op \in DOMAIN After
  PROVE  /\ next \notin {"kit", "file"} /\ (next = "upload" => op = "upload")
         /\ (next = "card" => op = "status") /\ (next = "status" => op = "findings")
         /\ (next = "findings" => op = "documents") /\ (next = "protocol" => op = "finalize")
         /\ (next = "audit" => op = "protocol")
BY DEF After

LEMMA OpIsKnown ==
  ASSUME NEW kind \in Kind, NEW op \in OpsOf[kind]
  PROVE  /\ op \in DOMAIN After
         /\ (op = "kit" => kind = "kit") /\ (op = "upload" => kind = "upload")
         /\ (kind = "protocol" => op \in Reads \cup {"verify", "complete", "finalize", "protocol", "audit"})
<1>1. Kind = {"upload", "kit", "etalon", "confirm", "decide", "protocol", "file", "sync", "open"}
  BY DEF Kind, OpsOf
<1> QED BY <1>1 DEF OpsOf, After, Reads

LEMMA JobGoesOn ==
  ASSUME JobOK, Busy, NEW j, DOMAIN j = JobField, j.kind = job.kind, j.todo = job.todo,
         job' = Proceed(j), j.next = job.next, j.sure = job.sure,
         j.findings \in [Id -> Finding \cup {NoFinding}], {j.fresh, j.dirty} \subseteq BOOLEAN,
         j.at = process', process # 0 => process' # 0,
         Due.op = "upload" => process' # 0, Due.op = "status" => ~j.dirty
  PROVE  JobOK'
<1>1. CASE job' = Idle
  BY <1>1, IdleIsOK
<1>2. CASE /\ DOMAIN job' = JobField /\ job'.kind = job.kind /\ job'.todo = Tail(job.todo)
           /\ job'.at = j.at /\ job'.next = j.next /\ job'.documents = j.documents
           /\ job'.findings = j.findings /\ job'.protocol = j.protocol /\ job'.sure = j.sure
           /\ job'.fresh = j.fresh /\ job'.dirty = j.dirty
           /\ Busy' /\ Todo(job.kind, Tail(job.todo)) /\ Due'.op \in After[Due.op]
  <2>1. job.kind \in Kind /\ Due.op \in DOMAIN After /\ job.next \in Id \cup {0} /\ job.sure \in BOOLEAN
    BY JobFacts, OpIsKnown DEF JobOK
  <2>2. /\ Due'.op \notin {"kit", "file"} /\ (Due'.op = "upload" => process' # 0)
        /\ (Due'.op = "card" => ~j.dirty)
    BY <1>2, <2>1, NextRequest
  <2>3. job.kind = "protocol" => process # 0
    BY DEF JobOK
  <2>4. job'.next \in Id \cup {0} /\ {job'.sure, job'.fresh, job'.dirty} \subseteq BOOLEAN
    BY <1>2, <2>1
  <2> QED BY <1>2, <2>1, <2>2, <2>3, <2>4 DEF JobOK
<1> QED BY <1>1, <1>2, Proceeds

-----------------------------------------------------------------------------
(* What the service replies to the page.                                   *)

LEMMA CallerFacts ==
  ASSUME PageOK
  PROVE  Caller.object \in {"mine", "theirs", NoObject} /\ Session.object \in {"mine", "theirs"}
<1>1. site.token.object \in {"mine", "theirs", NoObject}
  BY ClientAssumption DEF PageOK
<1>2. Caller.object \in {site.token.object, NoObject}
  BY DEF Caller, ParseBearer, JwtContext, LegacyContext, Refused, Context
<1>3. Session.object \in {"mine", "theirs"}
  BY <1>1 DEF Session
<1> QED BY <1>1, <1>2, <1>3

LEMMA Handles ==
  ASSUME NEW p
  PROVE  /\ Due.op = "upload" => Handle(Due, p) = Upload(Caller, srv, Session.object, p, Due.arg)
         /\ Due.op = "kit" => Handle(Due, p) = DemoKit(Caller, srv)
         /\ Due.op = "select" => Handle(Due, p) = Select(Caller, srv, Session.subject, p, Due.arg)
         /\ Due.op = "confirm" => Handle(Due, p) = Confirm(Caller, srv, Session.subject, p, Due.arg)
         /\ Due.op = "review" =>
              Handle(Due, p) = Review(Caller, srv, Session.subject, Due.arg[1], Due.arg[2])
         /\ Due.op \in {"verify", "complete", "finalize"} =>
              Handle(Due, p) = HumanAction(Caller, srv, Session.subject, p, Due.op)
         /\ Due.op = "sync" => Handle(Due, p) = SyncInspection(Caller, srv, p, site.durable)
         /\ Due.op = "documents" => Handle(Due, p) = Read("getProcessDocuments", Caller, srv, p)
         /\ Due.op = "findings" => Handle(Due, p) = Read("listProcessFindings", Caller, srv, p)
         /\ Due.op = "status" => Handle(Due, p) = Read("getProcessStatus", Caller, srv, p)
         /\ Due.op = "protocol" => Handle(Due, p) = ReadProtocol(Caller, srv, p)
         /\ Due.op = "file" => Handle(Due, p) = ReadFile(Caller, srv, p)
         /\ Due.op = "audit" => Handle(Due, p) = Read("getAuditLog", Caller, srv, p)
         /\ Due.op = "card" =>
              Handle(Due, p) = IF HasCard(srv, p, Due.arg) THEN Read("getEvidenceCard", Caller, srv, p)
                               ELSE Deny(404, srv)
BY DEF Handle

Makes == {"upload", "kit"}
Changes == {"select", "confirm", "review", "verify", "complete", "finalize", "sync"}
Asks == {"documents", "findings", "status", "protocol", "file", "audit", "card"}

LEMMA OpsAre ==
  ASSUME NEW kind \in Kind, NEW op \in OpsOf[kind]
  PROVE  op \in Makes \cup Changes \cup Asks
<1>1. Kind = {"upload", "kit", "etalon", "confirm", "decide", "protocol", "file", "sync", "open"}
  BY DEF Kind, OpsOf
<1> QED BY <1>1 DEF OpsOf, Makes, Changes, Asks, Reads

LEMMA MakesReplies ==
  ASSUME ServiceOK, JobOK, PageOK, Busy, Due.op \in Makes
  PROVE  /\ Reply.srv \in Seq(GoodProcess) /\ Len(Reply.srv) <= MaxProcess
         /\ Reply.code = 200 => Reply.process \in 1..MaxProcess
<1>1. /\ srv \in Seq(GoodProcess) /\ Len(srv) <= MaxProcess /\ MaxProcess \in Nat /\ Len(srv) \in Nat
      /\ job.at \in Nat /\ ArgOK(Due) /\ Session.object \in {"mine", "theirs"}
      /\ Caller.object \in {"mine", "theirs", NoObject}
  <2>1. job.at = process /\ process \in 0..MaxProcess /\ MaxProcess \in Nat /\ ArgOK(Due)
    BY JobFacts, ClientAssumption DEF PageOK
  <2>2. srv \in Seq(GoodProcess) /\ Len(srv) <= MaxProcess
    BY DEF ServiceOK
  <2> QED BY <2>1, <2>2, CallerFacts
<1>2. CASE Due.op = "upload"
  <2>1. Due.arg \in File /\ Reply = Upload(Caller, srv, Session.object, job.at, Due.arg)
    BY <1>1, <1>2, Handles DEF ArgOK, Reply
  <2>2. job.at = 0 => Len(srv) < MaxProcess
    BY <1>2 DEF JobOK
  <2> DEFINE a == Upload(Caller, srv, Session.object, job.at, Due.arg)
  <2>3. /\ a.srv \in Seq(GoodProcess)
        /\ a.code = 200 /\ job.at = 0 => Len(a.srv) = Len(srv) + 1 /\ a.process = Len(srv) + 1
        /\ ~(a.code = 200 /\ job.at = 0) => Keeps(a, srv)
        /\ a.code = 200 /\ job.at # 0 => a.process = job.at /\ job.at \in DOMAIN srv
    <3>1. Receives(a, srv, job.at)
      BY <1>1, <2>1, UploadKeeps
    <3> QED BY <3>1 DEF Receives
  <2>4. Reply = a
    BY <2>1
  <2> HIDE DEF a
  <2>5. /\ Reply.srv \in Seq(GoodProcess)
        /\ Reply.code = 200 /\ job.at = 0 =>
             Len(Reply.srv) = Len(srv) + 1 /\ Reply.process = Len(srv) + 1
        /\ ~(Reply.code = 200 /\ job.at = 0) => Len(Reply.srv) = Len(srv)
        /\ Reply.code = 200 /\ job.at # 0 => Reply.process = job.at /\ job.at \in 1..Len(srv)
    BY <1>1, <2>3, <2>4 DEF Keeps
  <2> HIDE DEF Reply
  <2> QED BY <1>1, <2>2, <2>5
<1>3. CASE Due.op = "kit"
  <2> DEFINE a == DemoKit(Caller, srv)
  <2>1. Reply = a
    BY <1>3, Handles DEF Reply
  <2>2. Len(srv) < MaxProcess
    BY <1>3 DEF JobOK
  <2>3. /\ a.srv \in Seq(GoodProcess)
        /\ a.code = 200 => Len(a.srv) = Len(srv) + 1 /\ a.process = Len(srv) + 1
        /\ a.code # 200 => Keeps(a, srv)
    BY <1>1, DemoKitKeeps
  <2> HIDE DEF a
  <2>4. /\ Reply.srv \in Seq(GoodProcess)
        /\ Reply.code = 200 => Len(Reply.srv) = Len(srv) + 1 /\ Reply.process = Len(srv) + 1
        /\ Reply.code # 200 => Len(Reply.srv) = Len(srv)
    BY <2>1, <2>3 DEF Keeps
  <2> HIDE DEF Reply
  <2> QED BY <1>1, <2>2, <2>4
<1> QED BY <1>2, <1>3 DEF Makes

LEMMA ChangesReply ==
  ASSUME ServiceOK, JobOK, PageOK, Busy, Due.op \in Changes
  PROVE  /\ Keeps(Reply, srv)
         /\ Due.op = "finalize" /\ Reply.code = 200 =>
              job.at \in DOMAIN srv /\ Reply.srv[job.at].state = "FINALIZED"
<1>1. srv \in Seq(GoodProcess) /\ ArgOK(Due)
  BY JobFacts DEF ServiceOK
<1>2. CASE Due.op = "select"
  BY <1>1, <1>2, Handles, SelectKeeps DEF Reply
<1>3. CASE Due.op = "confirm"
  BY <1>1, <1>3, Handles, ConfirmKeeps DEF Reply
<1>4. CASE Due.op = "review"
  <2>1. Due.arg[2] \in DOMAIN Target
    BY <1>1, <1>4 DEF ArgOK
  <2> QED BY <1>1, <1>4, <2>1, Handles, ReviewKeeps DEF Reply
<1>5. CASE Due.op \in {"verify", "complete", "finalize"}
  BY <1>1, <1>5, Handles, HumanActionKeeps DEF Reply
<1>6. CASE Due.op = "sync"
  BY <1>1, <1>6, Handles, SyncKeeps DEF Reply
<1> QED BY <1>2, <1>3, <1>4, <1>5, <1>6 DEF Changes

LEMMA AsksReply ==
  ASSUME ServiceOK, Due.op \in Asks
  PROVE  /\ Reply.srv = srv
         /\ Due.op \in Reads /\ Reply.code = 200 => job.at \in DOMAIN srv
<1>1. srv \in Seq(GoodProcess)
  BY DEF ServiceOK
<1>2. CASE Due.op \in Reads
  BY <1>1, <1>2, Handles, ReadKeeps DEF Reply, Reads
<1>3. CASE Due.op \in {"protocol", "file", "audit"}
  BY <1>1, <1>3, Handles, ReadKeeps DEF Reply, Reads
<1>4. CASE Due.op = "card"
  BY <1>1, <1>4, Handles, ReadKeeps, AnswerParts DEF Reply, Reads
<1> QED BY <1>2, <1>3, <1>4 DEF Asks, Reads

\* Whatever is asked, good processes stay good, and their number within the bound.
LEMMA RepliesAreGood ==
  ASSUME ServiceOK, JobOK, PageOK, Busy
  PROVE  Reply.srv \in Seq(GoodProcess) /\ Len(Reply.srv) <= MaxProcess
<1>1. Due.op \in Makes \cup Changes \cup Asks
  BY JobFacts, OpsAre
<1>2. srv \in Seq(GoodProcess) /\ Len(srv) <= MaxProcess
  BY DEF ServiceOK
<1>3. CASE Due.op \in Makes
  BY <1>3, MakesReplies
<1>4. CASE Due.op \in Changes
  BY <1>2, <1>4, ChangesReply DEF Keeps
<1>5. CASE Due.op \in Asks
  BY <1>2, <1>5, AsksReply
<1> QED BY <1>1, <1>3, <1>4, <1>5

-----------------------------------------------------------------------------
(* Answers.                                                                *)

\* What every answer finds.
LEMMA AnswerFinds ==
  ASSUME IInv, NEW ops, Answered(ops)
  PROVE  /\ ServiceOK /\ JobOK /\ PageOK /\ Busy /\ Due.op \in ops /\ Reply.code = 200
         /\ job.kind \in Kind /\ Due.op \in OpsOf[job.kind] /\ Due.op \in DOMAIN After
         /\ job.at = process /\ {job.fresh, job.dirty} \subseteq BOOLEAN /\ DOMAIN job = JobField
         /\ job.findings \in [Id -> Finding \cup {NoFinding}]
         /\ Due.op \notin {"review", "kit"} => Waits(srv, job.at)
<1>1. ServiceOK /\ JobOK /\ PageOK /\ Busy
  BY DEF IInv, Answered
<1>2. Due.op \in DOMAIN After
  BY <1>1, JobFacts, OpIsKnown
<1>3. Due.op \notin {"review", "kit"} => Waits(srv, job.at)
  BY DEF Answered, Handled
<1> QED BY <1>1, <1>2, <1>3, JobFacts DEF Answered, JobOK

LEMMA ReceiptKeeps ==
  ASSUME IInv, ReceiptArrives
  PROVE  IInv'
<1> DEFINE at == Reply.process
           j == [job EXCEPT !.at = at, !.dirty = TRUE]
<1>1. SureOK /\ Answered({"upload", "kit"})
  BY DEF IInv, ReceiptArrives
<1>2. /\ ServiceOK /\ JobOK /\ PageOK /\ Busy /\ Due.op \in {"upload", "kit"} /\ Reply.code = 200
      /\ job.kind \in Kind /\ Due.op \in OpsOf[job.kind] /\ Due.op \in DOMAIN After
      /\ {job.fresh, job.dirty} \subseteq BOOLEAN /\ DOMAIN job = JobField
      /\ job.findings \in [Id -> Finding \cup {NoFinding}]
  BY <1>1, AnswerFinds
<1>3. Reply.srv \in Seq(GoodProcess) /\ Len(Reply.srv) <= MaxProcess /\ at \in 1..MaxProcess
  BY <1>2, MakesReplies DEF Makes
<1>4. /\ srv' = Reply.srv /\ process' = at /\ unsure' = unsure /\ note' \in {note, "other"}
      /\ job' = Proceed(j)
      /\ site' = site /\ screen' = screen /\ active' = active /\ card' = card /\ form' = form
      /\ checked' = checked /\ loads' = loads
  BY DEF ReceiptArrives, bounds, fixed, work
<1>5. at # 0 /\ at \in 0..MaxProcess
  BY <1>3
<1> HIDE DEF at
<1>6. /\ DOMAIN j = JobField /\ j.kind = job.kind /\ j.todo = job.todo /\ j.next = job.next
      /\ j.sure = job.sure /\ j.findings = job.findings /\ j.at = at /\ j.fresh = job.fresh
      /\ j.dirty
  BY <1>2 DEF JobField
<1>7. {j.fresh, j.dirty} \subseteq BOOLEAN
  BY <1>2, <1>6
<1> HIDE DEF j
<1>8. ServiceOK'
  BY <1>3, <1>4 DEF ServiceOK
<1>9. JobOK'
  BY <1>2, <1>4, <1>5, <1>6, <1>7, JobGoesOn
<1>10. PageOK'
  BY <1>2, <1>4, <1>5 DEF PageOK
<1>11. /\ job'.dirty /\ (job'.sure <=> job.sure) /\ job'.kind = job.kind
       /\ Busy' /\ Due'.op \in After[Due.op]
  BY <1>2, <1>4, <1>6, Proceeds DEF Ends
<1>12. Due'.op \notin {"findings", "status"} /\ job.kind # "protocol"
  BY <1>2, <1>11, NextRequest, OpIsKnown
<1>13. ScreenOK' /\ FreshOK' /\ SureOK' /\ ProtocolOK'
  BY <1>1, <1>2, <1>4, <1>11, <1>12 DEF ScreenOK, FreshOK, SureOK, ProtocolOK
<1> QED BY <1>8, <1>9, <1>10, <1>13 DEF IInv

LEMMA ChangeArrivesKeeps ==
  ASSUME IInv, ChangeArrives
  PROVE  IInv'
<1> DEFINE j == [job EXCEPT !.dirty = TRUE]
<1>1. SureOK /\ Answered(Changes)
  BY DEF IInv, ChangeArrives, Changes
<1>2. /\ ServiceOK /\ JobOK /\ PageOK /\ Busy /\ Due.op \in Changes /\ Reply.code = 200
      /\ job.kind \in Kind /\ Due.op \in OpsOf[job.kind] /\ Due.op \in DOMAIN After
      /\ {job.fresh, job.dirty} \subseteq BOOLEAN /\ DOMAIN job = JobField
      /\ job.findings \in [Id -> Finding \cup {NoFinding}] /\ job.at = process
  BY <1>1, AnswerFinds
<1>3. /\ Reply.srv \in Seq(GoodProcess) /\ Len(Reply.srv) = Len(srv) /\ DOMAIN Reply.srv = DOMAIN srv
      /\ Due.op = "finalize" => job.at \in DOMAIN srv /\ Reply.srv[job.at].state = "FINALIZED"
  BY <1>2, ChangesReply DEF Keeps
<1>4. /\ srv' = Reply.srv /\ process' = process /\ unsure' = unsure /\ note' = note
      /\ job' = Proceed(j)
      /\ site' = site /\ screen' = screen /\ active' = active /\ card' = card /\ form' = form
      /\ checked' \in {checked, {}} /\ loads' = loads
  BY DEF ChangeArrives, bounds, fixed, work
<1>5. Due.op \notin {"upload", "status", "card", "file"}
  BY <1>2 DEF Changes
<1>6. /\ DOMAIN j = JobField /\ j.kind = job.kind /\ j.todo = job.todo /\ j.next = job.next
      /\ j.sure = job.sure /\ j.findings = job.findings /\ j.at = process' /\ j.fresh = job.fresh
      /\ j.dirty
  BY <1>2, <1>4 DEF JobField
<1>7. {j.fresh, j.dirty} \subseteq BOOLEAN
  BY <1>2, <1>6
<1> HIDE DEF j
<1>8. ServiceOK'
  BY <1>2, <1>3, <1>4 DEF ServiceOK
<1>9. JobOK'
  BY <1>2, <1>4, <1>5, <1>6, <1>7, JobGoesOn
<1>10. PageOK'
  BY <1>2, <1>4 DEF PageOK
<1>11. /\ job'.dirty /\ (job'.sure <=> job.sure) /\ job'.kind = job.kind
       /\ Busy' /\ Due'.op \in After[Due.op]
  BY <1>2, <1>4, <1>5, <1>6, Proceeds DEF Ends
<1>12. /\ Due'.op \notin {"findings", "status", "audit"}
       /\ Due'.op = "protocol" => Due.op = "finalize"
  BY <1>2, <1>11, NextRequest DEF Changes
<1>13. job.kind = "protocol" => Due'.op # "documents"
  <2>1. job.kind = "protocol" => Due.op \in {"verify", "complete", "finalize"}
    BY <1>2, OpIsKnown DEF Reads, Changes
  <2> QED BY <1>11, <2>1 DEF After
<1>14. ScreenOK' /\ FreshOK' /\ SureOK'
  BY <1>1, <1>2, <1>4, <1>11, <1>12 DEF ScreenOK, FreshOK, SureOK
<1>15. ProtocolOK'
  BY <1>2, <1>3, <1>4, <1>11, <1>12, <1>13 DEF ProtocolOK, Reads
<1> QED BY <1>8, <1>9, <1>10, <1>14, <1>15 DEF IInv

LEMMA DownloadKeeps ==
  ASSUME IInv, DownloadArrives
  PROVE  IInv'
<1> DEFINE ops == {"protocol", "file", "audit"}
           j == IF Due.op = "protocol" THEN [job EXCEPT !.protocol = ProtocolDocument(srv[job.at])]
                ELSE job
<1>1. SureOK /\ ProtocolOK /\ ScreenOK /\ Answered(ops)
  BY DEF IInv, DownloadArrives
<1>2. /\ ServiceOK /\ JobOK /\ PageOK /\ Busy /\ Due.op \in ops /\ Reply.code = 200
      /\ job.kind \in Kind /\ Due.op \in OpsOf[job.kind] /\ Due.op \in DOMAIN After
      /\ {job.fresh, job.dirty} \subseteq BOOLEAN /\ DOMAIN job = JobField
      /\ job.findings \in [Id -> Finding \cup {NoFinding}] /\ job.at = process
  BY <1>1, AnswerFinds
<1>3. /\ srv' = srv /\ process' = process /\ unsure' = unsure /\ note' \in {note, "other"}
      /\ job' = Proceed(j)
      /\ site' = site /\ screen' = screen /\ active' = active /\ card' = card /\ form' = form
      /\ checked' = checked /\ loads' = loads
  BY DEF DownloadArrives, bounds, fixed, work
<1>4. /\ DOMAIN j = JobField /\ j.kind = job.kind /\ j.todo = job.todo /\ j.next = job.next
      /\ j.sure = job.sure /\ j.findings = job.findings /\ j.at = process' /\ j.fresh = job.fresh
      /\ j.dirty = job.dirty
      /\ j.protocol = IF Due.op = "protocol" THEN ProtocolDocument(srv[job.at]) ELSE job.protocol
  BY <1>2, <1>3 DEF JobField
<1>5. {j.fresh, j.dirty} \subseteq BOOLEAN
  BY <1>2, <1>4
<1> HIDE DEF j
<1>6. JobOK'
  BY <1>2, <1>3, <1>4, <1>5, JobGoesOn
<1>7. ServiceOK' /\ PageOK'
  BY <1>2, <1>3 DEF ServiceOK, PageOK
<1>8. CASE job' = Idle /\ Due.op \in Ends
  <2>1. Due.op = "file" /\ ~job.dirty
    <3>1. Due.op = "file"
      BY <1>2, <1>8 DEF Ends
    <3> QED BY <1>2, <3>1 DEF JobOK
  <2>2. ScreenOK'
    BY <1>1, <1>3, <2>1 DEF ScreenOK, Shows, Rests, View
  <2> QED BY <1>6, <1>7, <1>8, <2>2, IdleIsOK DEF IInv
<1>9. CASE /\ job'.at = j.at /\ job'.protocol = j.protocol /\ job'.kind = job.kind
           /\ job'.sure = j.sure /\ job'.dirty = j.dirty
           /\ Busy' /\ Due'.op \in After[Due.op]
  <2>1. Due.op # "file" /\ Due'.op \in {"audit", "documents"}
    BY <1>2, <1>9 DEF After
  <2>2. Due'.op = "audit" => Due.op = "protocol"
    BY <1>2, <1>9, NextRequest
  <2>3. ScreenOK' /\ FreshOK' /\ SureOK'
    BY <1>1, <1>2, <1>3, <1>4, <1>9, <2>1 DEF ScreenOK, FreshOK, SureOK, Shows, Rests, View
  <2>4. ProtocolOK'
    BY <1>1, <1>2, <1>3, <1>4, <1>9, <2>1 DEF ProtocolOK, Reads
  <2> QED BY <1>6, <1>7, <2>3, <2>4 DEF IInv
<1> QED BY <1>2, <1>3, <1>4, <1>8, <1>9, Proceeds

LEMMA ListKeeps ==
  ASSUME IInv, ListArrives
  PROVE  IInv'
<1> DEFINE ops == {"documents", "findings"}
           j == IF Due.op = "documents"
                THEN [job EXCEPT !.documents = Documents(srv[job.at]), !.fresh = TRUE]
                ELSE [job EXCEPT !.findings = srv[job.at].findings]
<1>1. SureOK /\ ProtocolOK /\ ScreenOK /\ FreshOK /\ Answered(ops)
  BY DEF IInv, ListArrives
<1>2. /\ ServiceOK /\ JobOK /\ PageOK /\ Busy /\ Due.op \in ops /\ Reply.code = 200
      /\ job.kind \in Kind /\ Due.op \in OpsOf[job.kind] /\ Due.op \in DOMAIN After
      /\ {job.fresh, job.dirty} \subseteq BOOLEAN /\ DOMAIN job = JobField
      /\ job.findings \in [Id -> Finding \cup {NoFinding}] /\ job.at = process
      /\ Waits(srv, job.at)
  BY <1>1, AnswerFinds
<1>3. Rests(job.at)
  BY <1>2, AsksReply DEF Asks, Reads, Rests, Waits
<1>4. srv[job.at].findings \in [Id -> Finding \cup {NoFinding}]
  BY <1>2, <1>3 DEF Rests, ServiceOK, GoodProcess, Process
<1>5. /\ srv' = srv /\ process' = process /\ unsure' = unsure /\ note' = note
      /\ job' = Proceed(j)
      /\ site' = site /\ screen' = screen /\ active' = active /\ card' = card /\ form' = form
      /\ checked' = checked /\ loads' = loads
  BY DEF ListArrives, bounds, fixed, work
<1>6. /\ DOMAIN j = JobField /\ j.kind = job.kind /\ j.todo = job.todo /\ j.next = job.next
      /\ j.sure = job.sure /\ j.at = process'
      /\ j.dirty = job.dirty /\ j.protocol = job.protocol
      /\ Due.op = "documents" =>
           j.documents = Documents(srv[job.at]) /\ j.fresh /\ j.findings = job.findings
      /\ Due.op # "documents" =>
           j.documents = job.documents /\ j.fresh = job.fresh /\ j.findings = srv[job.at].findings
  BY <1>2, <1>5 DEF JobField
<1>7. {j.fresh, j.dirty} \subseteq BOOLEAN
  BY <1>2, <1>6
<1> HIDE DEF j
<1>8. j.findings \in [Id -> Finding \cup {NoFinding}]
  BY <1>2, <1>4, <1>6
<1>9. JobOK'
  BY <1>2, <1>5, <1>6, <1>7, <1>8, JobGoesOn
<1>10. ServiceOK' /\ PageOK'
  BY <1>2, <1>5 DEF ServiceOK, PageOK
<1>11. /\ job'.at = j.at /\ job'.documents = j.documents /\ job'.findings = j.findings
       /\ job'.protocol = j.protocol /\ job'.kind = job.kind
       /\ job'.sure = j.sure /\ job'.fresh = j.fresh /\ job'.dirty = j.dirty
       /\ Busy' /\ Due'.op \in After[Due.op]
  BY <1>2, <1>5, <1>6, Proceeds DEF Ends
<1>12. /\ Due.op = "documents" => Due'.op = "findings"
       /\ Due.op = "findings" => Due'.op = "status"
       /\ Due.op = "documents" \/ Due.op = "findings"
  BY <1>2, <1>11 DEF After
<1>13. ScreenOK' /\ SureOK'
  <2>1. ScreenOK'
    BY <1>1, <1>5, <1>6, <1>11 DEF ScreenOK, Shows, Rests, View
  <2>2. Due.op = "findings" => (job'.fresh <=> job.fresh)
    BY <1>6, <1>11
  <2>3. Due.op = "documents" => job'.fresh
    BY <1>6, <1>11
  <2>4. job'.sure <=> job.sure
    BY <1>6, <1>11
  <2>5. SureOK'
    BY <1>1, <1>2, <1>5, <1>12, <2>2, <2>3, <2>4 DEF SureOK
  <2> QED BY <2>1, <2>5
<1>14. FreshOK'
  <2>1. Rests(job.at)' /\ job'.at = job.at
    BY <1>2, <1>3, <1>5, <1>6, <1>11 DEF Rests
  <2>2. CASE Due.op = "documents"
    <3>1. job'.documents = Documents(srv[job.at]) /\ Due'.op # "status"
      BY <1>6, <1>11, <1>12, <2>2
    <3> QED BY <1>5, <2>1, <3>1 DEF FreshOK
  <2>3. CASE Due.op = "findings"
    <3>1. /\ job'.documents = job.documents /\ job'.findings = srv[job.at].findings
          /\ job'.fresh <=> job.fresh
      BY <1>6, <1>11, <2>3
    <3>2. job.fresh => job.documents = Documents(srv[job.at])
      BY <1>1, <1>2, <2>3 DEF FreshOK
    <3> QED BY <1>5, <2>1, <3>1, <3>2 DEF FreshOK
  <2> QED BY <1>12, <2>2, <2>3
<1>15. ProtocolOK'
  BY <1>1, <1>2, <1>5, <1>6, <1>11, <1>12 DEF ProtocolOK, Reads
<1> QED BY <1>9, <1>10, <1>13, <1>14, <1>15 DEF IInv

LEMMA StatusKeeps ==
  ASSUME IInv, StatusArrives
  PROVE  IInv'
<1> DEFINE j == [job EXCEPT !.dirty = FALSE]
<1>1. SureOK /\ ProtocolOK /\ FreshOK /\ Answered({"status"})
  BY DEF IInv, StatusArrives
<1>2. /\ ServiceOK /\ JobOK /\ PageOK /\ Busy /\ Due.op = "status" /\ Reply.code = 200
      /\ job.kind \in Kind /\ Due.op \in OpsOf[job.kind] /\ Due.op \in DOMAIN After
      /\ {job.fresh, job.dirty} \subseteq BOOLEAN /\ DOMAIN job = JobField
      /\ job.findings \in [Id -> Finding \cup {NoFinding}] /\ job.at = process
      /\ job.next \in Id \cup {0}
  BY <1>1, AnswerFinds DEF JobOK
<1>3. /\ srv' = srv /\ process' = process /\ (unsure' <=> ~job.fresh) /\ unsure' \in BOOLEAN
      /\ note' \in {note, "protocol", "other"}
      /\ job' = Proceed(j)
      /\ screen' = [of |-> job.at, documents |-> job.documents, findings |-> job.findings,
                    status |-> StatusOf(srv[job.at])]
      /\ site' = site /\ active' \in {active, job.next} /\ card' = card /\ form' \in BOOLEAN
      /\ checked' = checked /\ loads' = loads
  BY DEF StatusArrives, bounds, fixed, work
<1>4. /\ DOMAIN j = JobField /\ j.kind = job.kind /\ j.todo = job.todo /\ j.next = job.next
      /\ j.sure = job.sure /\ j.findings = job.findings /\ j.at = process' /\ j.fresh = job.fresh
      /\ ~j.dirty
  BY <1>2, <1>3 DEF JobField
<1>5. {j.fresh, j.dirty} \subseteq BOOLEAN
  <2>1. j.dirty = FALSE
    BY <1>2 DEF JobField
  <2> QED BY <1>2, <1>4, <2>1
<1> HIDE DEF j
<1>6. JobOK'
  BY <1>2, <1>3, <1>4, <1>5, JobGoesOn
<1>7. screen'.findings = job.findings
  BY <1>3
<1>8. ServiceOK' /\ PageOK'
  BY <1>2, <1>3, <1>7 DEF ServiceOK, PageOK
<1>9. ScreenOK'
  <2>1. SUFFICES ASSUME job.fresh PROVE Shows'
    BY <1>3 DEF ScreenOK
  <2>2. Rests(job.at) /\ job.documents = Documents(srv[job.at]) /\ job.findings = srv[job.at].findings
    BY <1>1, <1>2, <2>1 DEF FreshOK
  <2> QED BY <1>2, <1>3, <2>2 DEF Shows, Rests, View
<1>10. CASE job' = Idle
  BY <1>6, <1>8, <1>9, <1>10, IdleIsOK DEF IInv
<1>11. CASE /\ job'.kind = job.kind /\ job'.sure = j.sure /\ Busy' /\ Due'.op \in After[Due.op]
  <2>1. Due'.op = "card" /\ Due'.op \notin Reads \cup {"protocol", "audit"}
    BY <1>2, <1>11 DEF After, Reads
  <2>2. job.sure => job.fresh
    BY <1>1, <1>2 DEF SureOK
  <2>3. FreshOK' /\ SureOK' /\ ProtocolOK'
    BY <1>3, <1>4, <1>11, <2>1, <2>2 DEF FreshOK, SureOK, ProtocolOK, Reads
  <2> QED BY <1>6, <1>8, <1>9, <2>3 DEF IInv
<1> QED BY <1>2, <1>3, <1>4, <1>10, <1>11, Proceeds

LEMMA NextCardKeeps ==
  ASSUME IInv, NextCardArrives
  PROVE  IInv'
<1>1. ScreenOK /\ Answered({"card"})
  BY DEF IInv, NextCardArrives
<1>2. /\ ServiceOK /\ JobOK /\ PageOK /\ Busy /\ Due.op = "card" /\ job.at = process
      /\ DOMAIN job = JobField
  BY <1>1, AnswerFinds
<1>3. /\ srv' = srv /\ process' = process /\ unsure' = unsure /\ note' = note
      /\ job' = Proceed(job) /\ card' = [process |-> job.at, id |-> Due.arg]
      /\ site' = site /\ screen' = screen /\ active' = active /\ form' = form
      /\ checked' = checked /\ loads' = loads
  BY DEF NextCardArrives, bounds, fixed, work
<1>4. job' = Idle
  BY <1>2, <1>3, Proceeds DEF After
<1>5. ~job.dirty
  BY <1>2 DEF JobOK
<1>6. ScreenOK'
  BY <1>1, <1>3, <1>5 DEF ScreenOK, Shows, Rests, View
<1>7. Due.arg \in Id /\ process \in 0..MaxProcess
  BY <1>2, JobFacts DEF ArgOK, PageOK
<1>8. card'.process \in 0..MaxProcess /\ card'.id \in Id \cup {0}
  BY <1>2, <1>3, <1>7
<1>9. ServiceOK' /\ PageOK'
  BY <1>2, <1>3, <1>8 DEF ServiceOK, PageOK
<1> QED BY <1>4, <1>6, <1>9, IdleIsOK DEF IInv

\* A job that fails leaves the page unsure of what it may have changed.
LEMMA FailKeeps ==
  ASSUME IInv, NEW s \in Seq(GoodProcess), Len(s) <= MaxProcess, Fail(s)
  PROVE  IInv'
<1>1. ServiceOK /\ JobOK /\ PageOK /\ ScreenOK
  BY DEF IInv
<1>2. /\ srv' = s /\ job' = Idle /\ unsure' = (unsure \/ job.dirty \/ s # srv)
      /\ site' = site /\ process' = process /\ screen' = screen /\ note' = note
      /\ active' = active /\ card' = card /\ form' = form /\ checked' = checked /\ loads' = loads
  BY DEF Fail, work
<1>3. unsure' \in BOOLEAN
  BY <1>2
<1>4. ServiceOK' /\ PageOK'
  BY <1>1, <1>2, <1>3 DEF ServiceOK, PageOK
<1>5. ScreenOK'
  <2>1. SUFFICES ASSUME process # 0, ~unsure' PROVE Shows'
    BY <1>2 DEF ScreenOK
  <2>2. ~unsure /\ ~job.dirty /\ srv' = srv
    BY <1>2, <2>1
  <2> QED BY <1>1, <1>2, <2>1, <2>2 DEF ScreenOK, Shows, Rests, View
<1> QED BY <1>2, <1>4, <1>5, IdleIsOK DEF IInv

LEMMA RefusalKeeps ==
  ASSUME IInv, Refusal
  PROVE  IInv'
<1>1. Busy /\ Fail(Reply.srv) /\ ServiceOK /\ JobOK /\ PageOK
  BY DEF Refusal, IInv
<1>2. Reply.srv \in Seq(GoodProcess) /\ Len(Reply.srv) <= MaxProcess
  BY <1>1, RepliesAreGood
<1> DEFINE s == Reply.srv
<1> HIDE DEF s
<1>3. s \in Seq(GoodProcess) /\ Len(s) <= MaxProcess /\ Fail(s)
  BY <1>1, <1>2 DEF s
<1> QED BY <1>3, FailKeeps

LEMMA LostKeeps ==
  ASSUME IInv, Lost
  PROVE  IInv'
<1>1. Busy /\ ServiceOK /\ JobOK /\ PageOK /\ (Fail(srv) \/ Fail(Reply.srv))
  BY DEF Lost, IInv
<1>2. PICK s \in Seq(GoodProcess) : Len(s) <= MaxProcess /\ Fail(s)
  <2>1. CASE Fail(srv)
    BY <1>1, <2>1 DEF ServiceOK
  <2>2. CASE Fail(Reply.srv)
    BY <1>1, <2>2, RepliesAreGood
  <2> QED BY <1>1, <2>1, <2>2
<1> QED BY <1>2, FailKeeps

-----------------------------------------------------------------------------
(* The service beside the page.                                            *)

LEMMA RunEndsKeeps ==
  ASSUME IInv, NEW p \in DOMAIN srv, RunEnds(p)
  PROVE  IInv'
<1>1. ServiceOK /\ JobOK /\ PageOK /\ ScreenOK /\ FreshOK /\ SureOK /\ ProtocolOK
  BY DEF IInv
<1>2. /\ srv[p].state = "PARSING" /\ srv' = [srv EXCEPT ![p] = Run(srv[p])]
      /\ job' = job /\ unsure' = unsure
      /\ site' = site /\ process' = process /\ screen' = screen /\ note' = note
      /\ active' = active /\ card' = card /\ form' = form /\ checked' = checked /\ loads' = loads
  BY DEF RunEnds, bounds, fixed, work
<1>3. srv \in Seq(GoodProcess) /\ srv[p] \in GoodProcess /\ Run(srv[p]) \in GoodProcess
  BY <1>1, <1>2, RunIsGood DEF ServiceOK
<1>4. /\ srv' \in Seq(GoodProcess) /\ Len(srv') = Len(srv) /\ DOMAIN srv' = DOMAIN srv
  BY <1>2, <1>3, OneChanged
<1>5. \A q \in DOMAIN srv : q # p => srv'[q] = srv[q]
  BY <1>2
<1>6. ServiceOK' /\ PageOK'
  BY <1>1, <1>2, <1>4 DEF ServiceOK, PageOK
<1>7. Busy' = Busy /\ Due' = Due
  BY <1>2 DEF Busy, Due
<1>8. JobOK'
  BY <1>1, <1>2, <1>4, <1>7 DEF JobOK
<1>9. \A q : Rests(q) => Rests(q)' /\ srv'[q] = srv[q] /\ q # p
  BY <1>2, <1>4, <1>5 DEF Rests
<1>10. ScreenOK'
  BY <1>1, <1>2, <1>9 DEF ScreenOK, Shows, View
<1>11. FreshOK' /\ SureOK'
  BY <1>1, <1>2, <1>7, <1>9 DEF FreshOK, SureOK
<1>12. ProtocolOK'
  <2>1. process \in DOMAIN srv /\ srv[process].state = "FINALIZED" =>
          process \in DOMAIN srv' /\ srv'[process] = srv[process]
    BY <1>2, <1>4, <1>5
  <2>2. Reads \cup {"audit"} \subseteq Reads \cup {"protocol", "audit"}
    OBVIOUS
  <2> QED BY <1>1, <1>2, <1>7, <2>1, <2>2 DEF ProtocolOK
<1> QED BY <1>6, <1>8, <1>10, <1>11, <1>12 DEF IInv

\* What the other person does keeps the processes good, and their number below the
\* bound when the page is about to make one.
LEMMA OthersAreGood ==
  ASSUME ServiceOK, JobOK, Other
  PROVE  /\ srv' \in Seq(GoodProcess)
         /\ \/ Len(srv') = Len(srv)
            \/ Len(srv) + Creating < MaxProcess /\ Len(srv') = Len(srv) + 1
<1>1. srv \in Seq(GoodProcess)
  BY DEF ServiceOK
<1>2. CASE \E i \in Id, action \in DOMAIN Target :
             srv' = Review(Colleague, srv, Colleague.subject, i, action).srv
  BY <1>1, <1>2, ReviewKeeps DEF Keeps
<1>3. CASE \E p \in DOMAIN srv, f \in File : srv' = Upload(Colleague, srv, "mine", p, f).srv
  <2>1. PICK p \in DOMAIN srv, f \in File : srv' = Upload(Colleague, srv, "mine", p, f).srv
    BY <1>3
  <2>2. "mine" \in {"mine", "theirs"} /\ p # 0
    BY <1>1
  <2>3. Receives(Upload(Colleague, srv, "mine", p, f), srv, p)
    BY <1>1, <2>2, UploadKeeps
  <2> QED BY <2>1, <2>2, <2>3 DEF Receives, Keeps
<1>4. CASE \E p \in DOMAIN srv : srv' = Unfinalize(Colleague, srv, Colleague.subject, p).srv
  BY <1>1, <1>4, UnfinalizeKeeps DEF Keeps
<1>5. CASE Len(srv) + Creating < MaxProcess /\ srv' = LoadKit(srv, "theirs")
  <2>1. "theirs" \in {"mine", "theirs"}
    OBVIOUS
  <2> QED BY <1>1, <1>5, <2>1, LoadKitKeeps
<1> QED BY <1>2, <1>3, <1>4, <1>5 DEF Other

LEMMA OtherKeeps ==
  ASSUME IInv, Other
  PROVE  IInv'
<1>1. ServiceOK /\ JobOK /\ PageOK
  BY DEF IInv
<1>2. /\ unsure' = TRUE /\ job' = [job EXCEPT !.sure = FALSE, !.fresh = FALSE]
      /\ site' = site /\ process' = process /\ screen' = screen /\ note' = note
      /\ active' = active /\ card' = card /\ form' = form /\ checked' = checked /\ loads' = loads
  BY DEF Other, work
<1>3. /\ srv' \in Seq(GoodProcess)
      /\ \/ Len(srv') = Len(srv)
         \/ Len(srv) + Creating < MaxProcess /\ Len(srv') = Len(srv) + 1
  BY <1>1, OthersAreGood
<1>4. Len(srv) \in Nat /\ Len(srv) <= MaxProcess /\ MaxProcess \in Nat /\ Creating \in {0, 1}
  BY <1>1, ClientAssumption DEF ServiceOK, Creating
<1>5. ServiceOK'
  BY <1>3, <1>4 DEF ServiceOK
<1>6. unsure' /\ unsure' \in BOOLEAN
  BY <1>2
<1>7. PageOK'
  BY <1>1, <1>2, <1>6 DEF PageOK
<1>8. /\ DOMAIN job' = JobField /\ job'.kind = job.kind /\ job'.todo = job.todo
      /\ job'.at = job.at /\ job'.next = job.next /\ job'.findings = job.findings
      /\ job'.dirty = job.dirty /\ ~job'.sure /\ ~job'.fresh
      /\ job'.sure = FALSE /\ job'.fresh = FALSE
  BY <1>1, <1>2 DEF JobOK, JobField
<1>9. (Busy' <=> Busy) /\ Due' = Due
  BY <1>8 DEF Busy, Due
<1>10. Busy /\ (Due.op = "kit" \/ (Due.op = "upload" /\ job.at = 0)) => Len(srv') < MaxProcess
  <2>1. SUFFICES ASSUME Busy, Due.op = "kit" \/ (Due.op = "upload" /\ job.at = 0)
                 PROVE  Len(srv') < MaxProcess
    OBVIOUS
  <2>2. job.kind \in Kind /\ Due.op \in OpsOf[job.kind]
    BY <1>1, <2>1, JobFacts
  <2>3. (Due.op = "kit" => job.kind = "kit") /\ (Due.op = "upload" => job.kind = "upload")
    BY <2>2, OpIsKnown
  <2>4. Creating = 1
    BY <2>1, <2>3 DEF Creating
  <2>5. Len(srv) < MaxProcess
    BY <1>1, <2>1 DEF JobOK
  <2> QED BY <1>3, <1>4, <2>4, <2>5
<1>11. {job'.sure, job'.fresh, job'.dirty} \subseteq BOOLEAN
  BY <1>1, <1>8 DEF JobOK
<1>12. JobOK'
  BY <1>1, <1>2, <1>8, <1>9, <1>10, <1>11 DEF JobOK
<1>13. ScreenOK' /\ FreshOK' /\ SureOK' /\ ProtocolOK'
  BY <1>6, <1>8 DEF ScreenOK, FreshOK, SureOK, ProtocolOK
<1> QED BY <1>5, <1>7, <1>12, <1>13 DEF IInv

-----------------------------------------------------------------------------
(* What may be done while requests are under way.                          *)

\* Everything but the page's own fields is as it was.
LEMMA QuietKeeps ==
  ASSUME IInv, PageOK',
         srv' = srv, process' = process, screen' = screen, job' = job, unsure' = unsure
  PROVE  IInv'
<1>1. ServiceOK /\ JobOK /\ ScreenOK /\ FreshOK /\ SureOK /\ ProtocolOK
  BY DEF IInv
<1>2. Busy' = Busy /\ Due' = Due
  BY DEF Busy, Due
<1>3. ServiceOK' /\ JobOK'
  BY <1>1, <1>2 DEF ServiceOK, JobOK
<1>4. ScreenOK' /\ FreshOK' /\ SureOK' /\ ProtocolOK'
  BY <1>1, <1>2 DEF ScreenOK, FreshOK, SureOK, ProtocolOK, Shows, Rests, View
<1> QED BY <1>3, <1>4 DEF IInv

LEMMA ToggleKeeps ==
  ASSUME IInv, NEW i \in Id, Toggle(i)
  PROVE  IInv'
<1>1. PageOK
  BY DEF IInv
<1>2. PageOK'
  BY <1>1 DEF PageOK, Toggle, bounds, fixed
<1> QED BY <1>2, QuietKeeps DEF Toggle

LEMMA FillInKeeps ==
  ASSUME IInv, FillIn
  PROVE  IInv'
<1>1. PageOK
  BY DEF IInv
<1>2. PageOK'
  BY <1>1 DEF PageOK, FillIn, bounds, fixed
<1> QED BY <1>2, QuietKeeps DEF FillIn

LEMMA OpenFindingKeeps ==
  ASSUME IInv, NEW i \in Id, OpenFinding(i)
  PROVE  IInv'
<1>1. PageOK /\ process # 0 /\ MaxProcess \in Nat
  BY ClientAssumption DEF IInv, OpenFinding
<1>2. [process |-> process, id |-> i] \in [process : 1..MaxProcess, id : Id]
  BY <1>1 DEF PageOK
<1>3. PageOK'
  BY <1>1, <1>2 DEF PageOK, OpenFinding, bounds, fixed
<1> QED BY <1>3, QuietKeeps DEF OpenFinding

LEMMA CardLoadedKeeps ==
  ASSUME IInv, NEW l \in loads, CardLoaded(l)
  PROVE  IInv'
<1>1. PageOK /\ MaxProcess \in Nat
  BY ClientAssumption DEF IInv
<1>2. l.process \in 0..MaxProcess /\ l.id \in Id \cup {0}
  BY <1>1 DEF PageOK
<1>3. loads' \subseteq loads /\ card' \in {l, card}
  BY DEF CardLoaded
<1>4. /\ site' = site /\ process' = process /\ screen' = screen /\ active' = active /\ form' = form
      /\ checked' = checked /\ note' = note /\ unsure' = unsure
  BY DEF CardLoaded, bounds, fixed
<1>5. card'.process \in 0..MaxProcess /\ card'.id \in Id \cup {0}
  BY <1>1, <1>2, <1>3 DEF PageOK
<1>6. PageOK'
  BY <1>1, <1>3, <1>4, <1>5 DEF PageOK
<1> QED BY <1>6, QuietKeeps DEF CardLoaded

-----------------------------------------------------------------------------
(* Presses.                                                                *)

IsNew(j, kind, todo, at) ==
  /\ DOMAIN j = JobField /\ j.kind = kind /\ j.todo = todo /\ j.at = at
  /\ j.findings = NoFindings /\ (j.sure <=> ~unsure) /\ j.sure \in BOOLEAN /\ j.fresh = FALSE

LEMMA JobParts ==
  ASSUME NEW kind, NEW todo, NEW at
  PROVE  LET j == Job(kind, todo, at) IN IsNew(j, kind, todo, at) /\ j.next = 0 /\ j.dirty = FALSE
<1> DEFINE j == Job(kind, todo, at)
<1>1. j = [Idle EXCEPT !.kind = kind, !.todo = todo, !.at = at, !.sure = ~unsure]
  BY DEF Job
<1>2. /\ DOMAIN Idle = JobField /\ Idle.next = 0 /\ Idle.findings = NoFindings
      /\ Idle.fresh = FALSE /\ Idle.dirty = FALSE
  BY IdleFacts DEF JobField
<1> HIDE DEF j
<1>3. /\ DOMAIN j = JobField /\ j.kind = kind /\ j.todo = todo /\ j.at = at /\ j.next = 0
      /\ j.findings = NoFindings
  BY <1>1, <1>2 DEF JobField
<1>4. j.fresh = FALSE /\ j.dirty = FALSE
  BY <1>1, <1>2 DEF JobField
<1>5. j.sure = ~unsure
  BY <1>1, <1>2 DEF JobField
<1>6. (j.sure <=> ~unsure) /\ j.sure \in BOOLEAN
  BY <1>5
<1> QED BY <1>3, <1>4, <1>6 DEF IsNew, j

\* What a press may start.
MayBegin(j) ==
  /\ DOMAIN j = JobField /\ j.kind \in Kind /\ Todo(j.kind, j.todo) /\ j.at = process'
  /\ j.next \in Id \cup {0} /\ j.findings = NoFindings /\ (j.sure <=> ~unsure) /\ ~j.fresh
  /\ {j.sure, j.fresh, j.dirty} \subseteq BOOLEAN
  /\ process' = process \/ j.dirty
  /\ LET op == Head(j.todo).op IN
     /\ op \notin {"findings", "status"}
     /\ op = "kit" \/ (op = "upload" /\ process' = 0) => Len(srv) < MaxProcess
     /\ op \in {"file", "card"} => ~j.dirty
     /\ op = "file" \/ j.kind = "protocol" => process' # 0
     /\ j.kind = "protocol" /\ op \in Reads \cup {"protocol", "audit"} =>
          /\ op = "protocol" /\ process' = process
          /\ screen.status.state \notin {"READY", "VERIFYING", "COMPLETED"}

LEMMA StartKeeps ==
  ASSUME IInv, NEW j, ~Busy, job' = j, MayBegin(j), PageOK',
         srv' = srv, screen' = screen, unsure' = unsure
  PROVE  IInv'
<1>1. ServiceOK /\ JobOK /\ PageOK /\ ScreenOK /\ ~job.dirty
  BY DEF IInv, JobOK
<1>2. /\ Busy' /\ Due' = Head(j.todo)
      /\ DOMAIN j = JobField /\ j.kind \in Kind /\ Todo(j.kind, j.todo) /\ j.at = process'
      /\ j.next \in Id \cup {0} /\ j.findings \in [Id -> Finding \cup {NoFinding}]
      /\ {j.sure, j.fresh, j.dirty} \subseteq BOOLEAN
  <2>1. j.kind \in Kind => j.kind # "idle"
    BY DEF Kind, OpsOf
  <2> QED BY <2>1, IdleFacts DEF MayBegin, Busy, Due
<1>3. /\ process' = process \/ j.dirty
      /\ Due'.op \notin {"findings", "status"}
      /\ Due'.op = "kit" \/ (Due'.op = "upload" /\ process' = 0) => Len(srv) < MaxProcess
      /\ Due'.op \in {"file", "card"} => ~j.dirty
      /\ Due'.op = "file" \/ j.kind = "protocol" => process' # 0
      /\ j.kind = "protocol" /\ Due'.op \in Reads \cup {"protocol", "audit"} =>
           /\ Due'.op = "protocol" /\ process' = process
           /\ screen.status.state \notin {"READY", "VERIFYING", "COMPLETED"}
  BY <1>2 DEF MayBegin
<1>4. j.sure <=> ~unsure
  BY DEF MayBegin
<1>5. ServiceOK'
  BY <1>1 DEF ServiceOK
<1>6. JobOK'
  BY <1>2, <1>3 DEF JobOK
<1>7. ScreenOK'
  <2>1. SUFFICES ASSUME process' # 0, ~unsure, ~j.dirty PROVE Shows'
    BY DEF ScreenOK
  <2>2. process' = process /\ Shows
    BY <1>1, <1>3, <2>1 DEF ScreenOK
  <2> QED BY <2>2 DEF Shows, Rests, View
<1>8. FreshOK' /\ SureOK'
  BY <1>3, <1>4 DEF FreshOK, SureOK
<1>9. ProtocolOK'
  <2>1. SUFFICES ASSUME ~unsure, j.kind = "protocol", Due'.op \in Reads \cup {"protocol", "audit"}
                 PROVE  /\ process \in DOMAIN srv /\ srv[process].state = "FINALIZED"
                        /\ process' = process /\ Due'.op = "protocol"
    BY <1>4 DEF ProtocolOK, Reads
  <2>2. /\ Due'.op = "protocol" /\ process' = process /\ process # 0
        /\ screen.status.state \notin {"READY", "VERIFYING", "COMPLETED"}
    BY <1>3, <2>1
  <2>3. Shows
    BY <1>1, <2>1, <2>2 DEF ScreenOK
  <2>4. screen.status.state = srv[process].state /\ process \in DOMAIN srv
        /\ srv[process].state # "PARSING"
    BY <2>3 DEF Shows, Rests, View, StatusOf
  <2>5. srv[process].state \in ProcessState \ {"PENDING"}
    BY <1>1, <2>4 DEF ServiceOK, GoodProcess, Process
  <2> QED BY <2>2, <2>4, <2>5 DEF ProcessState
<1> QED BY <1>5, <1>6, <1>7, <1>8, <1>9 DEF IInv

\* A request, and the refresh.
LEMMA OneThenRefresh ==
  ASSUME NEW op \in {"kit", "select", "confirm", "review", "sync"}, NEW kind \in Kind,
         op \in OpsOf[kind], Reads \subseteq OpsOf[kind], NEW arg, ArgOK(Step(op, arg))
  PROVE  LET todo == <<Step(op, arg)>> \o Refresh IN
         Todo(kind, todo) /\ Head(todo).op = op /\ todo[Len(todo)].op = "status"
<1> DEFINE pre == <<Step(op, arg)>>
<1>1. pre \in Seq({Step(op, arg)}) /\ Len(pre) = 1 /\ pre[1] = Step(op, arg) /\ Step(op, arg).op = op
  BY DEF Step
<1>2. "documents" \in After[op]
  BY DEF After
<1>3. Leads(kind, pre)
  BY <1>1, <1>2 DEF Leads
<1> HIDE DEF pre
<1>4. Refreshes(kind, pre \o Refresh, pre)
  BY <1>1, <1>3, ThenRefresh
<1> QED BY <1>1, <1>4 DEF Refreshes, pre

\* The files of an upload, one a stage.
LEMMA UploadsLead ==
  ASSUME NEW chosen \in SUBSET File, chosen # {}
  PROVE  /\ Leads("upload", Uploads(chosen)) /\ Len(Uploads(chosen)) # 0
         /\ Uploads(chosen) \in Seq({Step("upload", f) : f \in File})
         /\ Uploads(chosen)[1].op = "upload"
<1> DEFINE S == {Step("upload", f) : f \in File}
           a == UploadOf(chosen, "PD")
           b == UploadOf(chosen, "RD")
           c == UploadOf(chosen, "ID")
<1>1. ASSUME NEW stage
      PROVE  /\ UploadOf(chosen, stage) \in Seq(S)
             /\ (\E f \in chosen : FileStage[f] = stage) => Len(UploadOf(chosen, stage)) = 1
  <2> DEFINE of == {f \in chosen : FileStage[f] = stage}
  <2>1. CASE of = {}
    BY <2>1 DEF UploadOf
  <2>2. CASE of # {}
    <3>1. (CHOOSE f \in of : TRUE) \in File
      BY <2>2
    <3>2. Step("upload", CHOOSE f \in of : TRUE) \in S
      BY <3>1
    <3>3. UploadOf(chosen, stage) = <<Step("upload", CHOOSE f \in of : TRUE)>>
      BY <2>2 DEF UploadOf
    <3> HIDE DEF of, S
    <3> QED BY <3>2, <3>3
  <2> QED BY <2>1, <2>2
<1>2. \E f \in chosen : FileStage[f] \in {"PD", "RD", "ID"}
  BY ClientAssumption
<1>3. a \in Seq(S) /\ b \in Seq(S) /\ c \in Seq(S) /\ (Len(a) = 1 \/ Len(b) = 1 \/ Len(c) = 1)
  BY <1>1, <1>2
<1>4. Uploads(chosen) = (a \o b) \o c
  BY DEF Uploads
<1> HIDE DEF S, a, b, c
<1>5. a \o b \in Seq(S) /\ Len(a \o b) = Len(a) + Len(b) /\ Len(a) \in Nat /\ Len(b) \in Nat
  BY <1>3
<1>6. Uploads(chosen) \in Seq(S) /\ Len(Uploads(chosen)) = Len(a) + Len(b) + Len(c) /\ Len(c) \in Nat
  BY <1>3, <1>4, <1>5
<1>7. Len(Uploads(chosen)) \in Nat \ {0}
  BY <1>3, <1>5, <1>6
<1>8. \A k \in 1..Len(Uploads(chosen)) : Uploads(chosen)[k] \in S
  BY <1>6
<1>9. \A x \in S : x.op = "upload" /\ ArgOK(x)
  BY DEF S, Step, ArgOK
<1>10. {"upload", "documents"} \subseteq After["upload"] /\ "upload" \in OpsOf["upload"]
  BY DEF After, OpsOf
<1> DEFINE n == Len(Uploads(chosen))
<1>11. ASSUME NEW k \in 1..n
       PROVE  /\ Uploads(chosen)[k].op = "upload" /\ ArgOK(Uploads(chosen)[k])
              /\ k # n => Uploads(chosen)[k + 1].op = "upload"
  <2>1. k # n => k + 1 \in 1..n
    BY <1>7
  <2> QED BY <1>8, <1>9, <2>1
<1>12. Leads("upload", Uploads(chosen))
  BY <1>10, <1>11 DEF Leads
<1>13. 1 \in 1..n
  BY <1>7
<1> QED BY <1>6, <1>7, <1>11, <1>12, <1>13 DEF S

LEMMA KindFacts ==
  /\ {"upload", "kit", "etalon", "confirm", "decide", "protocol", "file", "sync", "open"} \subseteq Kind
  /\ \A kind \in Kind \ {"file"} : Reads \subseteq OpsOf[kind]
  /\ "upload" \in OpsOf["upload"] /\ "kit" \in OpsOf["kit"] /\ "select" \in OpsOf["etalon"]
  /\ "confirm" \in OpsOf["confirm"] /\ "review" \in OpsOf["decide"] /\ "card" \in OpsOf["decide"]
  /\ "sync" \in OpsOf["sync"]
<1>1. Kind = {"upload", "kit", "etalon", "confirm", "decide", "protocol", "file", "sync", "open"}
  BY DEF Kind, OpsOf
<1>2. \A kind \in Kind \ {"file"} : Reads \subseteq OpsOf[kind]
  BY <1>1 DEF OpsOf
<1> QED BY <1>1, <1>2 DEF OpsOf

\* A press for one request and the refresh, or for the card of the next finding too.
LEMMA BeginIsAllowed ==
  ASSUME IInv, NEW kind \in Kind \ {"protocol"}, NEW todo, Todo(kind, todo), NEW next \in Id \cup {0},
         NEW j, IsNew(j, kind, todo, process'), j.next = next, j.dirty \in BOOLEAN, process' = process \/ j.dirty,
         Head(todo).op \notin {"findings", "status"},
         Head(todo).op = "kit" \/ (Head(todo).op = "upload" /\ process' = 0) => Len(srv) < MaxProcess,
         Head(todo).op \in {"file", "card"} => ~j.dirty,
         Head(todo).op = "file" => process' # 0
  PROVE  MayBegin(j)
<1>1. {j.sure, j.fresh, j.dirty} \subseteq BOOLEAN /\ ~j.fresh
  BY DEF IsNew
<1> QED BY <1>1 DEF MayBegin, IsNew

LEMMA UploadKitKeeps ==
  ASSUME IInv, UploadKit
  PROVE  IInv'
<1>1. PageOK /\ (process # 0 \/ Len(srv) < MaxProcess)
  BY DEF UploadKit, IInv
<1>2. PICK chosen \in (SUBSET File) \ {{}} : Start(Job("upload", Uploads(chosen) \o Refresh, process))
  BY DEF UploadKit
<1> DEFINE todo == Uploads(chosen) \o Refresh
           j == Job("upload", todo, process)
<1>3. /\ srv' = srv /\ process' = process /\ screen' = screen /\ unsure' = unsure /\ note' = note
      /\ site' = site /\ active' = active /\ card' = card /\ form' = form /\ checked' = checked
      /\ loads' = loads
  BY DEF UploadKit, fixed, work
<1>4. /\ Leads("upload", Uploads(chosen)) /\ Len(Uploads(chosen)) # 0
      /\ Uploads(chosen) \in Seq({Step("upload", f) : f \in File})
      /\ Uploads(chosen)[1].op = "upload"
  <2>1. chosen \in SUBSET File /\ chosen # {}
    OBVIOUS
  <2> QED BY <2>1, UploadsLead
<1>5. "upload" \in Kind \ {"protocol"} /\ Reads \subseteq OpsOf["upload"]
  BY KindFacts
<1>6. Refreshes("upload", todo, Uploads(chosen))
  BY <1>4, <1>5, ThenRefresh
<1>7. ~Busy /\ job' = j
  BY <1>2 DEF Start
<1> HIDE DEF todo
<1>8. Todo("upload", todo) /\ Head(todo).op = "upload"
  BY <1>4, <1>6 DEF Refreshes
<1>9. IsNew(j, "upload", todo, process) /\ j.next = 0 /\ j.dirty = FALSE
  BY JobParts
<1> HIDE DEF j
<1>10. MayBegin(j)
  BY <1>1, <1>3, <1>5, <1>8, <1>9, BeginIsAllowed
<1>11. PageOK'
  BY <1>3 DEF PageOK, IInv
<1> QED BY <1>3, <1>7, <1>10, <1>11, StartKeeps

\* A press that leaves the process and what the screen shows alone.
PageStays ==
  /\ srv' = srv /\ process' = process /\ screen' = screen /\ unsure' = unsure /\ site' = site
  /\ active' \in {active, 0} /\ card' \in {card, NoCard} /\ form' = form /\ checked' = checked
  /\ note' \in {note, "other"} /\ loads' = loads

LEMMA PageStaysOK ==
  ASSUME IInv, PageStays
  PROVE  PageOK'
<1>1. PageOK /\ MaxProcess \in Nat
  BY ClientAssumption DEF IInv
<1>2. active' \in Id \cup {0} /\ card'.process \in 0..MaxProcess /\ card'.id \in Id \cup {0}
  BY <1>1 DEF PageOK, PageStays, NoCard
<1> QED BY <1>1, <1>2 DEF PageOK, PageStays

LEMMA OneRequestKeeps ==
  ASSUME IInv, PageStays, NEW op \in {"kit", "select", "confirm", "sync"}, NEW kind \in Kind \ {"protocol", "file"},
         op \in OpsOf[kind], NEW arg, Start(Job(kind, <<Step(op, arg)>> \o Refresh, process)),
         op = "kit" => Len(srv) < MaxProcess
  PROVE  IInv'
<1> DEFINE todo == <<Step(op, arg)>> \o Refresh
           j == Job(kind, todo, process)
<1>1. ArgOK(Step(op, arg)) /\ Reads \subseteq OpsOf[kind]
  BY KindFacts DEF ArgOK, Step
<1>2. Todo(kind, todo) /\ Head(todo).op = op
  BY <1>1, OneThenRefresh
<1>3. ~Busy /\ job' = j
  BY DEF Start
<1> HIDE DEF todo
<1>4. IsNew(j, kind, todo, process) /\ j.next = 0 /\ j.dirty = FALSE
  BY JobParts
<1> HIDE DEF j
<1>5. MayBegin(j)
  BY <1>2, <1>4, BeginIsAllowed DEF PageStays
<1> QED BY <1>3, <1>5, PageStaysOK, StartKeeps DEF PageStays

LEMMA LoadTutorialKitKeeps ==
  ASSUME IInv, LoadTutorialKit
  PROVE  IInv'
<1>1. PageStays
  BY DEF LoadTutorialKit, PageStays, fixed
<1>2. Start(Job("kit", <<Step("kit", 0)>> \o Refresh, process)) /\ Len(srv) < MaxProcess
  BY DEF LoadTutorialKit
<1> QED BY <1>1, <1>2, KindFacts, OneRequestKeeps

LEMMA AssignEtalonKeeps ==
  ASSUME IInv, AssignEtalon
  PROVE  IInv'
<1>1. PageStays
  BY DEF AssignEtalon, PageStays, fixed, work
<1>2. PICK f : Start(Job("etalon", <<Step("select", f)>> \o Refresh, process))
  BY DEF AssignEtalon
<1> QED BY <1>1, <1>2, KindFacts, OneRequestKeeps

LEMMA ConfirmCheckedKeeps ==
  ASSUME IInv, ConfirmChecked
  PROVE  IInv'
<1>1. PageStays
  BY DEF ConfirmChecked, PageStays, fixed, work
<1>2. Start(Job("confirm", <<Step("confirm", checked)>> \o Refresh, process))
  BY DEF ConfirmChecked
<1> QED BY <1>1, <1>2, KindFacts, OneRequestKeeps

LEMMA QueueRinMockKeeps ==
  ASSUME IInv, QueueRinMock
  PROVE  IInv'
<1>1. PageStays
  BY DEF QueueRinMock, PageStays, fixed, work
<1>2. Start(Job("sync", <<Step("sync", 0)>> \o Refresh, process))
  BY DEF QueueRinMock
<1> QED BY <1>1, <1>2, KindFacts, OneRequestKeeps

LEMMA DecideKeeps ==
  ASSUME IInv, Decide
  PROVE  IInv'
<1>1. PageStays
  BY DEF Decide, PageStays, fixed, work
<1> DEFINE Todos(action, next) ==
             <<Step("review", <<active, action>>)>> \o Refresh
               \o (IF next = 0 THEN <<>> ELSE <<Step("card", next)>>)
<1>2. PICK action \in DOMAIN Target, next \in Nexts :
        Start([Job("decide", Todos(action, next), process) EXCEPT !.next = next])
  BY DEF Decide
<1> DEFINE arg == <<active, action>>
           plain == <<Step("review", arg)>> \o Refresh
           todo == Todos(action, next)
           k == Job("decide", todo, process)
           j == [k EXCEPT !.next = next]
<1>3. ~Busy /\ job' = j
  BY <1>2 DEF Start
<1>4. next \in Id \cup {0}
  BY DEF Nexts, Shown
<1>5. ArgOK(Step("review", arg))
  <2>1. arg[2] \in DOMAIN Target
    OBVIOUS
  <2> HIDE DEF arg
  <2> QED BY <2>1 DEF ArgOK, Step
<1> HIDE DEF arg
<1>6. Todo("decide", plain) /\ Head(plain).op = "review" /\ plain[Len(plain)].op = "status"
  BY <1>5, KindFacts, OneThenRefresh
<1>7. Todo("decide", todo) /\ Head(todo).op = "review"
  <2>1. CASE next = 0
    <3>1. todo = plain \o <<>>
      BY <2>1 DEF arg
    <3>2. plain \in Seq({plain[i] : i \in DOMAIN plain})
      BY <1>6 DEF Todo
    <3> HIDE DEF plain, todo
    <3>3. todo = plain
      BY <3>1, <3>2
    <3> QED BY <1>6, <3>3
  <2>2. CASE next # 0
    <3>1. todo = plain \o <<Step("card", next)>> /\ next \in Id
      BY <1>4, <2>2 DEF arg
    <3> HIDE DEF plain, todo
    <3>2. Todo("decide", plain \o <<Step("card", next)>>)
          /\ Head(plain \o <<Step("card", next)>>) = Head(plain)
      BY <1>6, <3>1, KindFacts, ThenCard
    <3> QED BY <1>6, <3>1, <3>2
  <2> QED BY <2>1, <2>2
<1> HIDE DEF todo, plain
<1>8. IsNew(k, "decide", todo, process) /\ k.dirty = FALSE
  BY JobParts
<1> HIDE DEF k
<1>9. IsNew(j, "decide", todo, process) /\ j.next = next /\ j.dirty = FALSE
  BY <1>8 DEF IsNew, JobField
<1> HIDE DEF j
<1>10. "decide" \in Kind \ {"protocol"}
  BY KindFacts
<1>11. MayBegin(j)
  BY <1>1, <1>4, <1>7, <1>9, <1>10, BeginIsAllowed DEF PageStays
<1> QED BY <1>1, <1>3, <1>11, PageStaysOK, StartKeeps DEF PageStays

LEMMA DownloadProtocolKeeps ==
  ASSUME IInv, DownloadProtocol
  PROVE  IInv'
<1> DEFINE todo == <<Step("file", 0)>>
           j == Job("file", todo, process)
<1>1. PageStays /\ process # 0
  BY DEF DownloadProtocol, PageStays, fixed, work
<1>2. ~Busy /\ job' = j
  BY DEF DownloadProtocol, Start
<1>3. Todo("file", todo) /\ Head(todo).op = "file"
  <2>1. Len(todo) = 1 /\ DOMAIN todo = {1} /\ todo[1] = Step("file", 0) /\ Head(todo) = todo[1]
    OBVIOUS
  <2>2. todo \in Seq({Step("file", 0)}) /\ todo # <<>>
    OBVIOUS
  <2>3. Step("file", 0).op = "file" /\ ArgOK(Step("file", 0))
    BY DEF Step, ArgOK
  <2>4. "file" \in OpsOf["file"] /\ "file" \in Ends
    BY DEF OpsOf, Ends
  <2> HIDE DEF todo
  <2>5. todo \in Seq({todo[i] : i \in DOMAIN todo})
    BY <2>2, SeqOfItsOwn
  <2> QED BY <2>1, <2>2, <2>3, <2>4, <2>5 DEF Todo
<1> HIDE DEF todo
<1>4. IsNew(j, "file", todo, process) /\ j.next = 0 /\ j.dirty = FALSE
  BY JobParts
<1> HIDE DEF j
<1>5. MayBegin(j)
  BY <1>1, <1>3, <1>4, KindFacts, BeginIsAllowed DEF PageStays
<1> QED BY <1>1, <1>2, <1>5, PageStaysOK, StartKeeps DEF PageStays

LEMMA OpenProcessKeeps ==
  ASSUME IInv, NEW p \in 1..MaxProcess, OpenProcess(p)
  PROVE  IInv'
<1> DEFINE k == Job("open", Refresh, p)
           j == [k EXCEPT !.dirty = TRUE]
<1>1. ~Busy /\ job' = j /\ process' = p
  BY DEF OpenProcess, Start
<1>2. /\ srv' = srv /\ screen' = screen /\ unsure' = unsure /\ site' = site
      /\ card' = NoCard /\ active' = 0 /\ form' = form /\ checked' = checked /\ note' = note
      /\ loads' = loads
  BY DEF OpenProcess, fixed
<1>3. Todo("open", Refresh) /\ Head(Refresh).op = "documents"
  <2>1. <<>> \in Seq({}) /\ Len(<<>>) = 0
    OBVIOUS
  <2>2. Leads("open", <<>>)
    BY <2>1 DEF Leads
  <2>3. Refreshes("open", <<>> \o Refresh, <<>>)
    BY <2>1, <2>2, KindFacts, ThenRefresh
  <2>4. <<>> \o Refresh = Refresh
    BY RefreshFacts
  <2> QED BY <2>1, <2>3, <2>4 DEF Refreshes
<1>4. IsNew(k, "open", Refresh, p) /\ k.next = 0
  BY JobParts
<1> HIDE DEF k
<1>5. IsNew(j, "open", Refresh, p) /\ j.next = 0 /\ j.dirty = TRUE
  BY <1>4 DEF IsNew, JobField
<1>6. j.dirty /\ j.dirty \in BOOLEAN
  BY <1>5
<1> HIDE DEF j
<1>7. "open" \in Kind \ {"protocol"} /\ process' # 0
  BY <1>1, KindFacts
<1>8. MayBegin(j)
  BY <1>1, <1>3, <1>5, <1>6, <1>7, BeginIsAllowed
<1>9. PageOK'
  <2>1. PageOK /\ MaxProcess \in Nat
    BY ClientAssumption DEF IInv
  <2>2. process' \in 0..MaxProcess /\ active' \in Id \cup {0}
        /\ card'.process \in 0..MaxProcess /\ card'.id \in Id \cup {0}
    BY <1>1, <1>2, <2>1 DEF NoCard
  <2> QED BY <1>2, <2>1, <2>2 DEF PageOK
<1> QED BY <1>1, <1>2, <1>8, <1>9, StartKeeps

\* The steps to the protocol: the first one is the protocol if the process is final.
StepsOf(steps) == [k \in DOMAIN steps |-> Step(steps[k], 0)]

LEMMA Followed ==
  ASSUME NEW S, NEW s \in Seq(S), NEW n \in Nat, Len(s) = n
  PROVE  LET t == s \o <<"protocol", "audit">> IN
         /\ DOMAIN t = 1..(n + 2) /\ \A k \in 1..n : t[k] = s[k]
         /\ t[n + 1] = "protocol" /\ t[n + 2] = "audit"
<1> DEFINE a == <<"protocol", "audit">>
           T == S \cup {"protocol", "audit"}
           t == s \o a
<1>1. s \in Seq(T) /\ a \in Seq(T) /\ Len(a) = 2 /\ a[1] = "protocol" /\ a[2] = "audit"
  OBVIOUS
<1> HIDE DEF T, a
<1>2. /\ t \in Seq(T) /\ Len(t) = n + 2
      /\ \A k \in 1..(n + 2) : t[k] = IF k <= n THEN s[k] ELSE a[k - n]
  <2>1. /\ s \o a \in Seq(T) /\ Len(s \o a) = Len(s) + Len(a)
        /\ \A k \in 1..(Len(s) + Len(a)) : (s \o a)[k] = IF k <= Len(s) THEN s[k] ELSE a[k - Len(s)]
    BY <1>1, ConcatProperties
  <2> HIDE DEF t
  <2> QED BY <1>1, <2>1 DEF t
<1> HIDE DEF t
<1>3. (n + 1) - n = 1 /\ (n + 2) - n = 2 /\ ~(n + 1 <= n) /\ ~(n + 2 <= n)
      /\ n + 1 \in 1..(n + 2) /\ n + 2 \in 1..(n + 2)
  OBVIOUS
<1>4. t[n + 1] = "protocol" /\ t[n + 2] = "audit"
  BY <1>1, <1>2, <1>3
<1>5. DOMAIN t = 1..(n + 2) /\ \A k \in 1..n : t[k] = s[k]
  BY <1>2
<1> QED BY <1>4, <1>5 DEF t, a

LEMMA ProtocolSteps ==
  ASSUME NEW state
  PROVE  LET steps == Steps(state) \o <<"protocol", "audit">> IN
         \/ /\ DOMAIN steps = 1..5 /\ steps[1] = "verify" /\ steps[2] = "complete"
            /\ steps[3] = "finalize" /\ steps[4] = "protocol" /\ steps[5] = "audit"
         \/ /\ DOMAIN steps = 1..4 /\ steps[1] = "complete" /\ steps[2] = "finalize"
            /\ steps[3] = "protocol" /\ steps[4] = "audit"
         \/ /\ DOMAIN steps = 1..3 /\ steps[1] = "finalize" /\ steps[2] = "protocol"
            /\ steps[3] = "audit"
         \/ /\ state \notin {"READY", "VERIFYING", "COMPLETED"}
            /\ DOMAIN steps = 1..2 /\ steps[1] = "protocol" /\ steps[2] = "audit"
<1> DEFINE s == Steps(state)
           t == s \o <<"protocol", "audit">>
           S == {"verify", "complete", "finalize"}
<1>1. CASE state = "READY"
  <2>1. s \in Seq(S) /\ Len(s) = 3 /\ s[1] = "verify" /\ s[2] = "complete" /\ s[3] = "finalize"
    BY <1>1 DEF Steps
  <2> HIDE DEF s
  <2>2. DOMAIN t = 1..(3 + 2) /\ (\A k \in 1..3 : t[k] = s[k]) /\ t[3 + 1] = "protocol" /\ t[3 + 2] = "audit"
    BY <2>1, Followed
  <2> HIDE DEF t
  <2>3. DOMAIN t = 1..5 /\ t[1] = "verify" /\ t[2] = "complete" /\ t[3] = "finalize"
        /\ t[4] = "protocol" /\ t[5] = "audit"
    BY <2>1, <2>2
  <2> QED BY <2>3 DEF t, s
<1>2. CASE state = "VERIFYING"
  <2>1. s \in Seq(S) /\ Len(s) = 2 /\ s[1] = "complete" /\ s[2] = "finalize"
    BY <1>2 DEF Steps
  <2> HIDE DEF s
  <2>2. DOMAIN t = 1..(2 + 2) /\ (\A k \in 1..2 : t[k] = s[k]) /\ t[2 + 1] = "protocol" /\ t[2 + 2] = "audit"
    BY <2>1, Followed
  <2> HIDE DEF t
  <2>3. DOMAIN t = 1..4 /\ t[1] = "complete" /\ t[2] = "finalize" /\ t[3] = "protocol" /\ t[4] = "audit"
    BY <2>1, <2>2
  <2> QED BY <2>3 DEF t, s
<1>3. CASE state = "COMPLETED"
  <2>1. s \in Seq(S) /\ Len(s) = 1 /\ s[1] = "finalize"
    BY <1>3 DEF Steps
  <2> HIDE DEF s
  <2>2. DOMAIN t = 1..(1 + 2) /\ (\A k \in 1..1 : t[k] = s[k]) /\ t[1 + 1] = "protocol" /\ t[1 + 2] = "audit"
    BY <2>1, Followed
  <2> HIDE DEF t
  <2>3. DOMAIN t = 1..3 /\ t[1] = "finalize" /\ t[2] = "protocol" /\ t[3] = "audit"
    BY <2>1, <2>2
  <2> QED BY <2>3 DEF t, s
<1>4. CASE state \notin {"READY", "VERIFYING", "COMPLETED"}
  <2>1. s \in Seq(S) /\ Len(s) = 0
    BY <1>4 DEF Steps
  <2> HIDE DEF s
  <2>2. DOMAIN t = 1..(0 + 2) /\ t[0 + 1] = "protocol" /\ t[0 + 2] = "audit"
    BY <2>1, Followed
  <2> HIDE DEF t
  <2>3. DOMAIN t = 1..2 /\ t[1] = "protocol" /\ t[2] = "audit"
    BY <2>2
  <2> QED BY <1>4, <2>3 DEF t, s
<1> QED BY <1>1, <1>2, <1>3, <1>4

LEMMA ProtocolLeads ==
  ASSUME NEW steps, NEW n \in Nat \ {0}, DOMAIN steps = 1..n,
         \A k \in 1..n : /\ steps[k] \in {"verify", "complete", "finalize", "protocol", "audit"}
                         /\ IF k = n THEN steps[k] = "audit" ELSE steps[k + 1] \in After[steps[k]]
  PROVE  /\ Leads("protocol", StepsOf(steps)) /\ Len(StepsOf(steps)) = n
         /\ StepsOf(steps) \in Seq({Step(op, 0) : op \in OpsOf["protocol"]})
         /\ StepsOf(steps)[1].op = steps[1]
<1> DEFINE pre == StepsOf(steps)
           S == {Step(op, 0) : op \in OpsOf["protocol"]}
<1>1. {"verify", "complete", "finalize", "protocol", "audit"} \subseteq OpsOf["protocol"]
  BY DEF OpsOf
<1>2. pre = [k \in 1..n |-> Step(steps[k], 0)]
  BY DEF StepsOf
<1>3. \A k \in 1..n : pre[k] = Step(steps[k], 0) /\ pre[k] \in S
  BY <1>1, <1>2
<1> HIDE DEF S
<1>4. pre \in Seq(S) /\ Len(pre) = n
  <2>1. pre \in [1..n -> S]
    BY <1>2, <1>3
  <2> HIDE DEF pre
  <2> QED BY <2>1
<1>5. \A k \in 1..n : pre[k].op = steps[k] /\ ArgOK(pre[k])
  <2>1. \A op \in {"verify", "complete", "finalize", "protocol", "audit"} :
          Step(op, 0).op = op /\ ArgOK(Step(op, 0))
    BY DEF Step, ArgOK
  <2> HIDE DEF pre
  <2> QED BY <1>3, <2>1
<1>6. "documents" \in After["audit"]
  BY DEF After
<1> HIDE DEF pre
<1>7. ASSUME NEW k \in 1..n
      PROVE  /\ pre[k].op \in OpsOf["protocol"] /\ ArgOK(pre[k])
             /\ IF k = n THEN "documents" \in After[pre[k].op] ELSE pre[k + 1].op \in After[pre[k].op]
  <2>1. CASE k = n
    BY <1>1, <1>5, <1>6, <2>1
  <2>2. CASE k # n
    <3>1. k + 1 \in 1..n
      BY <2>2
    <3> QED BY <1>1, <1>5, <2>2, <3>1
  <2> QED BY <2>1, <2>2
<1>8. Leads("protocol", pre)
  BY <1>4, <1>7 DEF Leads
<1>9. 1 \in 1..n
  OBVIOUS
<1> QED BY <1>4, <1>5, <1>8, <1>9 DEF pre, S

LEMMA ProtocolTodo ==
  ASSUME NEW state
  PROVE  LET steps == Steps(state) \o <<"protocol", "audit">>
             todo == StepsOf(steps) \o Refresh IN
         /\ Todo("protocol", todo)
         /\ Head(todo).op \in {"verify", "complete", "finalize", "protocol"}
         /\ Head(todo).op = "protocol" => state \notin {"READY", "VERIFYING", "COMPLETED"}
<1> DEFINE steps == Steps(state) \o <<"protocol", "audit">>
           pre == StepsOf(steps)
           todo == pre \o Refresh
<1>1. PICK n \in Nat \ {0} :
        /\ DOMAIN steps = 1..n
        /\ \A k \in 1..n : /\ steps[k] \in {"verify", "complete", "finalize", "protocol", "audit"}
                           /\ IF k = n THEN steps[k] = "audit" ELSE steps[k + 1] \in After[steps[k]]
        /\ steps[1] \in {"verify", "complete", "finalize", "protocol"}
        /\ steps[1] = "protocol" => state \notin {"READY", "VERIFYING", "COMPLETED"}
  <2>1. /\ After["verify"] = {"complete"} /\ After["complete"] = {"finalize"}
        /\ After["finalize"] = {"protocol"} /\ After["protocol"] = {"audit"}
    BY DEF After
  <2>2. CASE /\ DOMAIN steps = 1..5 /\ steps[1] = "verify" /\ steps[2] = "complete"
             /\ steps[3] = "finalize" /\ steps[4] = "protocol" /\ steps[5] = "audit"
    <3> HIDE DEF steps
    <3> WITNESS 5 \in Nat \ {0}
    <3> QED BY <2>1, <2>2
  <2>3. CASE /\ DOMAIN steps = 1..4 /\ steps[1] = "complete" /\ steps[2] = "finalize"
             /\ steps[3] = "protocol" /\ steps[4] = "audit"
    <3> HIDE DEF steps
    <3> WITNESS 4 \in Nat \ {0}
    <3> QED BY <2>1, <2>3
  <2>4. CASE /\ DOMAIN steps = 1..3 /\ steps[1] = "finalize" /\ steps[2] = "protocol"
             /\ steps[3] = "audit"
    <3> HIDE DEF steps
    <3> WITNESS 3 \in Nat \ {0}
    <3> QED BY <2>1, <2>4
  <2>5. CASE /\ state \notin {"READY", "VERIFYING", "COMPLETED"}
             /\ DOMAIN steps = 1..2 /\ steps[1] = "protocol" /\ steps[2] = "audit"
    <3> HIDE DEF steps
    <3> WITNESS 2 \in Nat \ {0}
    <3> QED BY <2>1, <2>5
  <2> QED BY <2>2, <2>3, <2>4, <2>5, ProtocolSteps
<1> HIDE DEF steps
<1>2. /\ Leads("protocol", pre) /\ Len(pre) = n
      /\ pre \in Seq({Step(op, 0) : op \in OpsOf["protocol"]})
      /\ pre[1].op = steps[1]
  BY <1>1, ProtocolLeads
<1> HIDE DEF pre
<1>3. Refreshes("protocol", todo, pre)
  BY <1>2, KindFacts, ThenRefresh
<1> HIDE DEF todo
<1>4. Todo("protocol", todo) /\ Head(todo).op = steps[1]
  BY <1>1, <1>2, <1>3 DEF Refreshes
<1> QED BY <1>1, <1>4 DEF todo, pre, steps

LEMMA FinalizeProtocolKeeps ==
  ASSUME IInv, FinalizeProtocol
  PROVE  IInv'
<1> DEFINE steps == Steps(screen.status.state) \o <<"protocol", "audit">>
           todo == StepsOf(steps) \o Refresh
           j == Job("protocol", todo, process)
<1>1. PageStays /\ process # 0
  BY DEF FinalizeProtocol, PageStays, fixed, work
<1>2. ~Busy /\ job' = j
  BY DEF FinalizeProtocol, Start, StepsOf
<1>3. /\ Todo("protocol", todo)
      /\ Head(todo).op \in {"verify", "complete", "finalize", "protocol"}
      /\ Head(todo).op = "protocol" => screen.status.state \notin {"READY", "VERIFYING", "COMPLETED"}
  BY ProtocolTodo
<1> HIDE DEF todo
<1>4. IsNew(j, "protocol", todo, process) /\ j.next = 0 /\ j.dirty = FALSE
  BY JobParts
<1> HIDE DEF j
<1>5. {j.sure, j.fresh, j.dirty} \subseteq BOOLEAN /\ ~j.fresh
  BY <1>4 DEF IsNew
<1>6. MayBegin(j)
  BY <1>1, <1>3, <1>4, <1>5, KindFacts DEF MayBegin, IsNew, PageStays, Reads
<1> QED BY <1>1, <1>2, <1>6, PageStaysOK, StartKeeps DEF PageStays

-----------------------------------------------------------------------------
(* The invariant.                                                          *)

LEMMA InitInv == Init => IInv
<1> SUFFICES ASSUME Init PROVE IInv
  OBVIOUS
<1>1. /\ site \in Sites /\ srv = <<>> /\ process = 0 /\ screen = Blank /\ active = 0
      /\ card = NoCard /\ form = FALSE /\ checked = {} /\ note = "other" /\ job = Idle
      /\ loads = {} /\ unsure = FALSE /\ MaxProcess \in Nat
  BY ClientAssumption DEF Init
<1>2. /\ DOMAIN Idle = JobField /\ Idle.kind = "idle" /\ Idle.todo = <<>> /\ Idle.next = 0
      /\ Idle.findings = NoFindings
  BY IdleFacts DEF JobField
<1>3. ~Idle.sure /\ ~Idle.fresh /\ ~Idle.dirty /\ {Idle.sure, Idle.fresh, Idle.dirty} \subseteq BOOLEAN
  BY IdleFacts
<1>4. ServiceOK
  BY <1>1 DEF ServiceOK
<1>5. ~Busy
  BY <1>1, <1>2 DEF Busy
<1>6. JobOK
  BY <1>1, <1>2, <1>3, <1>5, IdleFacts DEF JobOK
<1>7. PageOK
  <2>1. screen.findings \in [Id -> Finding \cup {NoFinding}]
    BY <1>1, IdleFacts DEF Blank
  <2>2. form \in BOOLEAN /\ unsure \in BOOLEAN
    BY <1>1
  <2> QED BY <1>1, <2>1, <2>2 DEF PageOK, NoCard
<1>8. ScreenOK /\ FreshOK /\ SureOK /\ ProtocolOK
  BY <1>1, <1>5 DEF ScreenOK, FreshOK, SureOK, ProtocolOK
<1> QED BY <1>4, <1>6, <1>7, <1>8 DEF IInv

LEMMA StayKeeps ==
  ASSUME IInv, UNCHANGED vars
  PROVE  IInv'
<1>1. /\ site' = site /\ srv' = srv /\ process' = process /\ screen' = screen /\ active' = active
      /\ card' = card /\ form' = form /\ checked' = checked /\ note' = note /\ job' = job
      /\ loads' = loads /\ unsure' = unsure
  BY DEF vars
<1>2. PageOK'
  BY <1>1 DEF PageOK, IInv
<1> QED BY <1>1, <1>2, QuietKeeps

LEMMA NextInv == IInv /\ [Next]_vars => IInv'
<1> SUFFICES ASSUME IInv, [Next]_vars PROVE IInv'
  OBVIOUS
<1>1. CASE UNCHANGED vars
  BY <1>1, StayKeeps
<1>2. CASE UploadKit \/ LoadTutorialKit \/ AssignEtalon \/ ConfirmChecked \/ Decide
  BY <1>2, UploadKitKeeps, LoadTutorialKitKeeps, AssignEtalonKeeps, ConfirmCheckedKeeps, DecideKeeps
<1>3. CASE FinalizeProtocol \/ DownloadProtocol \/ QueueRinMock \/ \E p \in 1..MaxProcess : OpenProcess(p)
  BY <1>3, FinalizeProtocolKeeps, DownloadProtocolKeeps, QueueRinMockKeeps, OpenProcessKeeps
<1>4. CASE \/ \E i \in Id : Toggle(i) \/ OpenFinding(i)
           \/ FillIn \/ \E l \in loads : CardLoaded(l)
  BY <1>4, ToggleKeeps, OpenFindingKeeps, FillInKeeps, CardLoadedKeeps
<1>5. CASE ReceiptArrives \/ ChangeArrives \/ DownloadArrives \/ ListArrives \/ StatusArrives
  BY <1>5, ReceiptKeeps, ChangeArrivesKeeps, DownloadKeeps, ListKeeps, StatusKeeps
<1>6. CASE NextCardArrives \/ Refusal \/ Lost
  BY <1>6, NextCardKeeps, RefusalKeeps, LostKeeps
<1>7. CASE (\E p \in DOMAIN srv : RunEnds(p)) \/ Other
  BY <1>7, RunEndsKeeps, OtherKeeps
<1> QED BY <1>1, <1>2, <1>3, <1>4, <1>5, <1>6, <1>7 DEF Next

-----------------------------------------------------------------------------
(* The theorems.                                                           *)

LEMMA InvHolds == Spec => []IInv
<1> QED BY InitInv, NextInv, PTL DEF Spec

LEMMA InvIsTyped == IInv => TypeOK
<1> SUFFICES ASSUME IInv PROVE TypeOK
  OBVIOUS
<1>1. ServiceOK /\ JobOK /\ PageOK
  BY DEF IInv
<1>2. srv \in Seq(GoodProcess) /\ Len(srv) <= MaxProcess
  BY <1>1 DEF ServiceOK
<1>3. srv \in Seq(Process)
  <2>1. GoodProcess \subseteq Process
    BY DEF GoodProcess
  <2> QED BY <1>2, <2>1, SeqMonotonic
<1>4. Busy <=> job.todo # <<>>
  <2>1. CASE Busy
    BY <1>1, <2>1 DEF JobOK, Todo
  <2>2. CASE ~Busy
    BY <1>1, <2>2 DEF JobOK
  <2> QED BY <2>1, <2>2
<1>5. ASSUME NEW p \in DOMAIN srv
      PROVE  /\ srv[p].state = "FINALIZED" => Candidates(srv[p]) = {}
             /\ srv[p].sync # "NOT_REQUESTED" => srv[p].state = "FINALIZED"
             /\ srv[p].state = "FINALIZED" <=> srv[p].protocol # 0
             /\ srv[p].protocol # 0 => \E paper \in srv[p].papers : paper.version = srv[p].protocol
  <2>1. srv[p] \in GoodProcess
    BY <1>2
  <2> QED BY <2>1 DEF GoodProcess, InForce
<1> QED BY <1>1, <1>2, <1>3, <1>4, <1>5 DEF TypeOK, PageOK

\* The page is well typed, a job is under way exactly while it has requests to send,
\* and every process of the service is one that may be: no candidate is left in a
\* finalized one, only a finalized one was asked to RiN, and the protocol in force is
\* stored (LiveWorkspace.tsx, runtime.py).
THEOREM PageIsTyped == Spec => []TypeOK
<1> QED BY InvHolds, InvIsTyped, PTL

LEMMA InvShows == IInv => IdleShowsServer
<1> SUFFICES ASSUME IInv, ~Busy, process # 0, ~unsure
             PROVE  /\ process \in DOMAIN srv
                    /\ screen = [of |-> process, documents |-> Documents(srv[process]),
                                 findings |-> srv[process].findings,
                                 status |-> StatusOf(srv[process])]
  BY DEF IdleShowsServer
<1>1. ~job.dirty
  BY DEF IInv, JobOK
<1> QED BY <1>1 DEF IInv, ScreenOK, Shows, Rests, View

\* A page with nothing under way shows the documents, the findings and the status its
\* process has, whatever was pressed and answered before, unless it could not know
\* better (LiveWorkspace.tsx:213-226).
THEOREM IdlePageShowsServer == Spec => []IdleShowsServer
<1> QED BY InvHolds, InvShows, PTL

\* Only the refresh of the press for the protocol makes the page speak of one.
LEMMA WhoSpeaks ==
  ASSUME [Next]_vars, note' = "protocol", note # "protocol"
  PROVE  StatusArrives /\ job.kind = "protocol"
<1>1. ~UNCHANGED note
  OBVIOUS
<1>2. Next
  BY <1>1 DEF vars
<1>3. CASE \/ UploadKit \/ LoadTutorialKit \/ AssignEtalon \/ ConfirmChecked \/ Decide
           \/ FinalizeProtocol \/ DownloadProtocol \/ QueueRinMock
           \/ \E p \in 1..MaxProcess : OpenProcess(p)
  BY <1>3 DEF UploadKit, LoadTutorialKit, AssignEtalon, ConfirmChecked, Decide, FinalizeProtocol,
              DownloadProtocol, QueueRinMock, OpenProcess
<1>4. CASE (\E i \in Id : Toggle(i) \/ OpenFinding(i)) \/ FillIn \/ \E l \in loads : CardLoaded(l)
  BY <1>4 DEF Toggle, OpenFinding, FillIn, CardLoaded
<1>5. CASE ReceiptArrives \/ ChangeArrives \/ DownloadArrives \/ ListArrives \/ NextCardArrives
  BY <1>5 DEF ReceiptArrives, ChangeArrives, DownloadArrives, ListArrives, NextCardArrives
<1>6. CASE Refusal \/ Lost
  BY <1>6 DEF Refusal, Lost, Fail
<1>7. CASE (\E p \in DOMAIN srv : RunEnds(p)) \/ Other
  BY <1>7 DEF RunEnds, Other
<1>8. CASE StatusArrives
  <2>1. note' = CASE job.kind = "protocol" -> "protocol" [] job.kind = "sync" -> "other" [] OTHER -> note
    BY <1>8 DEF StatusArrives
  <2> QED BY <1>8, <2>1
<1> QED BY <1>2, <1>3, <1>4, <1>5, <1>6, <1>7, <1>8 DEF Next

LEMMA StepIsFinal ==
  ASSUME IInv, [Next]_vars, note' = "protocol", note # "protocol", job.sure
  PROVE  LET rin == ProtocolForRin(job.protocol).sections IN
         /\ screen'.status.state = "FINALIZED" /\ ~screen'.status.open
         /\ job.protocol.status = "PROTOCOL_FINALIZED" /\ Says(job.protocol, screen')
         /\ job.protocol.sections["candidates"] = {}
         /\ \A row \in rin["confirmed"] \cup rin["negative_verified"] : row.decided
<1>1. StatusArrives /\ job.kind = "protocol"
  BY WhoSpeaks
<1>2. Busy /\ Due.op = "status" /\ job.at = process
  BY <1>1, AnswerFinds DEF StatusArrives
<1>3. job.fresh
  BY <1>2 DEF IInv, SureOK
<1>4. Rests(process) /\ job.findings = srv[process].findings
  BY <1>2, <1>3 DEF IInv, FreshOK
<1>5. srv[process].state = "FINALIZED" /\ job.protocol = ProtocolDocument(srv[process])
  BY <1>1, <1>2 DEF IInv, ProtocolOK, Reads
<1> DEFINE r == srv[process]
           shown == screen'
<1>6. r \in GoodProcess /\ r.state = "FINALIZED"
  BY <1>4, <1>5 DEF IInv, ServiceOK, Rests
<1>7. shown.findings = r.findings /\ shown.status = StatusOf(r)
  BY <1>1, <1>2, <1>4 DEF StatusArrives
<1>8. Candidates(r) = {}
  BY <1>6 DEF GoodProcess
<1>9. shown.status.state = "FINALIZED" /\ ~shown.status.open
  <2> HIDE DEF r, shown
  <2>1. StatusOf(r) = [state |-> r.state, open |-> Candidates(r) # {}, sync |-> r.sync]
    BY DEF StatusOf
  <2>2. StatusOf(r).state = r.state /\ (StatusOf(r).open = (Candidates(r) # {}))
    BY <2>1
  <2>3. ~StatusOf(r).open
    BY <1>8, <2>2
  <2> QED BY <1>6, <1>7, <2>2, <2>3
<1> HIDE DEF r, shown
<1>10. LET paper == ProtocolDocument(r)
           rin == ProtocolForRin(paper).sections IN
       /\ paper.status = "PROTOCOL_FINALIZED" /\ Says(paper, shown)
       /\ paper.sections["candidates"] = {}
       /\ \A row \in rin["confirmed"] \cup rin["negative_verified"] : row.decided
  BY <1>6, <1>7, FinalSays
<1>11. job.protocol = ProtocolDocument(r)
  BY <1>5 DEF r
<1> QED BY <1>9, <1>10, <1>11 DEF shown

\* What the page calls the protocol is that of a finalized process and says what the
\* screen says, from whichever state and through however many requests the press led
\* it there; what of it goes to RiN is what persons decided (LiveWorkspace.tsx:474-523,
\* protocol.py).
THEOREM ProtocolIsFinal == Spec => DownloadedIsFinal
<1>1. IInv /\ [Next]_vars =>
        [note' = "protocol" /\ note # "protocol" /\ job.sure =>
           LET rin == ProtocolForRin(job.protocol).sections IN
           /\ screen'.status.state = "FINALIZED" /\ ~screen'.status.open
           /\ job.protocol.status = "PROTOCOL_FINALIZED" /\ Says(job.protocol, screen')
           /\ job.protocol.sections["candidates"] = {}
           /\ \A row \in rin["confirmed"] \cup rin["negative_verified"] : row.decided]_vars
  BY StepIsFinal
<1> QED BY <1>1, InvHolds, PTL DEF Spec, DownloadedIsFinal

LEMMA CodesAre ==
  ASSUME NEW op, NEW c, NEW s, NEW p
  PROVE  CodeFor(op, c, s, p) \in {200, 401, 403, 404}
BY DEF CodeFor, Authorize

LEMMA StepShows ==
  ASSUME IInv, Busy, Due.op = "file", job.sure
  PROVE  /\ Reply.code # 500
         /\ \A kind \in {"docx", "xml", "pdf"} :
              LET file == FileOf(kind, srv[job.at])
                  shown == UNION {file.tables[name] : name \in Tables} IN
              /\ shown = {[id |-> i, status |-> screen.findings[i].status] :
                             i \in {j \in Shown : screen.findings[j].status # "AUTO_NO_DIFFERENCE"}}
              /\ \A name \in Tables : \A c \in file.cards[name] :
                   c.fact = screen.findings[c.id].value
<1>1. process # 0 /\ ~job.dirty /\ ~unsure /\ job.at = process
  BY DEF IInv, JobOK, SureOK
<1>2. Shows
  BY <1>1 DEF IInv, ScreenOK
<1> DEFINE r == srv[process]
<1>3. r \in GoodProcess
  BY <1>2 DEF IInv, ServiceOK, Shows, Rests
<1>4. screen.findings = r.findings /\ Shown = Findings(r)
  BY <1>2 DEF Shows, View, Shown, Findings
<1>5. Reply.code # 500
  <2>1. Reply = ReadFile(Caller, srv, process)
    BY <1>1, Handles DEF Reply
  <2>2. ~Refuses(ProtocolDocument(srv[process]))
    BY <1>3, NothingRefused
  <2>3. Read("getProtocol", Caller, srv, process).code \in {200, 401, 403, 404}
    BY CodesAre, AnswerParts DEF Read
  <2>4. ReadProtocol(Caller, srv, process).code \in {200, 401, 403, 404}
    BY <2>3, AnswerParts DEF ReadProtocol
  <2>5. ReadFile(Caller, srv, process) = ReadProtocol(Caller, srv, process)
    BY <2>2 DEF ReadFile
  <2> QED BY <2>1, <2>4, <2>5
<1> HIDE DEF r
<1>6. ASSUME NEW kind \in {"docx", "xml", "pdf"}
      PROVE  LET file == FileOf(kind, r)
                 shown == UNION {file.tables[name] : name \in Tables} IN
             /\ shown = {[id |-> i, status |-> screen.findings[i].status] :
                            i \in {j \in Shown : screen.findings[j].status # "AUTO_NO_DIFFERENCE"}}
             /\ \A name \in Tables : \A c \in file.cards[name] : c.fact = screen.findings[c.id].value
  BY <1>3, <1>4, FileShows
<1>7. srv[job.at] = r
  BY <1>1 DEF r
<1> QED BY <1>5, <1>6, <1>7

\* The three files can be made whenever the page asks for one, and each shows the
\* findings of the screen, with their values (LiveWorkspace.tsx:525-542).
THEOREM FilesAgree == Spec => FilesShowScreen
<1>1. IInv /\ [Next]_vars =>
        [Busy /\ Due.op = "file" /\ Handled /\ job.sure /\ job' = Idle =>
           /\ Reply.code # 500
           /\ \A kind \in {"docx", "xml", "pdf"} :
                LET file == FileOf(kind, srv[job.at])
                    shown == UNION {file.tables[name] : name \in Tables} IN
                /\ shown = {[id |-> i, status |-> screen.findings[i].status] :
                               i \in {j \in Shown : screen.findings[j].status # "AUTO_NO_DIFFERENCE"}}
                /\ \A name \in Tables : \A c \in file.cards[name] :
                     c.fact = screen.findings[c.id].value]_vars
  BY StepShows
<1> QED BY <1>1, InvHolds, PTL DEF Spec, FilesShowScreen

=============================================================================
