----------------------------- MODULE LiveClient -----------------------------
(***************************************************************************)
(* The inspector's screen (web/src/LiveWorkspace.tsx): what it shows, what *)
(* may be pressed and typed while requests are under way, and the requests *)
(* one press sends, against the endpoints of InspectorApi.                 *)
(*                                                                         *)
(* A press that sets busy is a job: the requests it still has to send.     *)
(* Answering the first of them is one action: the handler, and what the    *)
(* screen does with the answer up to the next request.  A click on a       *)
(* finding sets no busy, so cards load beside the job and in any order.    *)
(* Answers may be lost, before or after the request was handled; another   *)
(* person works with the same service.                                     *)
(*                                                                         *)
(* Which findings the list shows depends on band and section, which any    *)
(* press may find changed.  Page images, zoom, the record of clicks and    *)
(* the audit of the screen (postUi) change nothing here and are left out.  *)
(* Definitions named Faulty... are bugs that could be introduced; no       *)
(* specification uses them.                                                *)
(***************************************************************************)
EXTENDS InspectorApi

CONSTANTS
  NoPaper,    \* the job has read no protocol
  Sites,      \* [token, durable]: what the page was built with, and the store
  Colleague,  \* context of the other person
  MaxProcess, \* bound: processes of the service
  MaxLoads,   \* bound: cards loading at a time
  MaxPress,   \* bound: presses that start a job
  MaxTrouble  \* bound: lost answers and steps of the other person

ASSUME ClientAssumption ==
  /\ FileStage \in [File -> {"PD", "RD", "ID"}] /\ Unapproved \subseteq File /\ Kit \subseteq File
  /\ NoFinding \notin Finding /\ 0 \notin Id /\ IsFiniteSet(Id) /\ MayStart
  /\ \A s \in Sites : s.token.object \in {"mine", "theirs", NoObject}
  /\ \A files, etalons \in SUBSET File :
       Machine[<<files, etalons>>] \in [Id -> Computed \cup {NoFinding}]
  /\ {MaxProcess, MaxLoads, MaxPress, MaxTrouble} \subseteq Nat

VARIABLES
  site,    \* the page's token and the service's store
  srv,     \* processes of the service
  process, \* processId, 0 without one
  screen,  \* documents, findings and status, as the last refresh set them
  active,  \* activeId, 0 without one
  card,    \* the evidence card on the screen: [process, id], or none
  form,    \* whether the comment under the card is filled in
  checked, \* findings with a tick
  note,    \* protocolNote
  job,     \* what busy waits for
  loads,   \* cards a click asked for: [process, id]
  unsure,  \* the service has changed, or may have, since the screen was set
  presses,
  troubles
vars ==
  <<site, srv, process, screen, active, card, form, checked, note, job, loads, unsure,
    presses, troubles>>
-----------------------------------------------------------------------------
Caller == ParseBearer(site.token)

\* sessionFromToken reads the legacy grammar; a token without an object is given
\* that of the demo, a JWT is taken for a subject.
Session ==
  [subject |-> IF site.token.dotted THEN "token" ELSE site.token.subject,
   object |-> IF site.token.dotted \/ site.token.object = NoObject THEN "mine"
              ELSE site.token.object]

NoCard == [process |-> 0, id |-> 0]
NoFindings == [i \in Id |-> NoFinding]
Blank ==
  [of |-> 0, documents |-> [files |-> {}, etalons |-> {}], findings |-> NoFindings,
   status |-> [state |-> "NONE", open |-> FALSE, sync |-> "NONE"]]

Step(op, arg) == [op |-> op, arg |-> arg]
Refresh == <<Step("documents", 0), Step("findings", 0), Step("status", 0)>>
Idle ==
  [kind |-> "idle", todo |-> <<>>, at |-> 0, next |-> 0, documents |-> Blank.documents,
   findings |-> NoFindings, protocol |-> NoPaper, sure |-> FALSE, fresh |-> FALSE,
   dirty |-> FALSE]
Busy == job.kind # "idle"
Job(kind, todo, at) == [Idle EXCEPT !.kind = kind, !.todo = todo, !.at = at, !.sure = ~unsure]
Proceed(j) == IF Len(j.todo) = 1 THEN Idle ELSE [j EXCEPT !.todo = Tail(@)]

\* What the screen says of the finding it has active (LiveWorkspace.tsx:207).
Shown == {i \in Id : screen.findings[i] # NoFinding}
Reviewable(i) ==
  i \in Shown /\ screen.findings[i].status \in {"CANDIDATE", "CLARIFICATION_REQUIRED", "SUSPICION"}

Init ==
  /\ site \in Sites
  /\ srv = <<>> /\ process = 0 /\ screen = Blank /\ active = 0 /\ card = NoCard
  /\ form = FALSE /\ checked = {} /\ note = "other"
  /\ job = Idle /\ loads = {} /\ unsure = FALSE /\ presses = 0 /\ troubles = 0

-----------------------------------------------------------------------------
(* Presses.                                                                *)

fixed == <<site, troubles>>
bounds == <<fixed, presses>>
work == <<active, card, form, checked>>

Start(j) == ~Busy /\ presses < MaxPress /\ presses' = presses + 1 /\ job' = j

\* uploadKit: the chosen files, one a stage, in the order of the stages.
UploadOf(chosen, stage) ==
  LET of == {f \in chosen : FileStage[f] = stage} IN
  IF of = {} THEN <<>> ELSE <<Step("upload", CHOOSE f \in of : TRUE)>>
Uploads(chosen) == UploadOf(chosen, "PD") \o UploadOf(chosen, "RD") \o UploadOf(chosen, "ID")
UploadKit ==
  /\ process # 0 \/ Len(srv) < MaxProcess
  /\ \E chosen \in (SUBSET File) \ {{}} :
       /\ \A f, g \in chosen : FileStage[f] = FileStage[g] => f = g
       /\ Start(Job("upload", Uploads(chosen) \o Refresh, process))
  /\ UNCHANGED <<fixed, srv, process, screen, work, note, loads, unsure>>

LoadTutorialKit ==
  /\ Len(srv) < MaxProcess
  /\ Start(Job("kit", <<Step("kit", 0)>> \o Refresh, process))
  /\ card' = NoCard /\ active' = 0
  /\ UNCHANGED <<fixed, srv, process, screen, form, checked, note, loads, unsure>>

AssignEtalon ==
  /\ process # 0 /\ screen.status.state = "READY"
  /\ \E f \in screen.documents.files \ Unapproved :
       Start(Job("etalon", <<Step("select", f)>> \o Refresh, process))
  /\ UNCHANGED <<fixed, srv, process, screen, work, note, loads, unsure>>

\* confirmChecked: the button is there while the list shows a candidate.
ConfirmChecked ==
  /\ process # 0 /\ checked # {} /\ form
  /\ \E i \in Shown : screen.findings[i].status = "CANDIDATE"
  /\ Start(Job("confirm", <<Step("confirm", checked)>> \o Refresh, process))
  /\ UNCHANGED <<fixed, srv, process, screen, work, note, loads, unsure>>

\* nextAfterDecision: another finding of the list, which band and section make.
Nexts == {0} \cup (Shown \ {active})

\* decide, by button or by key; the keys work without the card (onKey).  The reason
\* of a rejection stands and falls with the comment.
Decide ==
  /\ process # 0 /\ Reviewable(active) /\ form
  /\ \E action \in DOMAIN Target, next \in Nexts :
       Start([Job("decide",
                  <<Step("review", <<active, action>>)>> \o Refresh
                    \o (IF next = 0 THEN <<>> ELSE <<Step("card", next)>>),
                  process) EXCEPT !.next = next])
  /\ UNCHANGED <<fixed, srv, process, screen, work, note, loads, unsure>>

\* finalizeProtocol: the steps the state on the screen leaves (each answer is the
\* state the next step starts from), then protocol and audit.
FaultySteps(state) ==
  IF state = "READY" THEN <<"verify">> ELSE IF state = "VERIFYING" THEN <<"complete">>
  ELSE IF state = "COMPLETED" THEN <<"finalize">> ELSE <<>>
Steps(state) ==
  IF state = "READY" THEN <<"verify", "complete", "finalize">>
  ELSE IF state = "VERIFYING" THEN <<"complete", "finalize">>
  ELSE IF state = "COMPLETED" THEN <<"finalize">> ELSE <<>>
FinalizeProtocol ==
  /\ process # 0 /\ ~screen.status.open
  /\ LET steps == Steps(screen.status.state) \o <<"protocol", "audit">> IN
     Start(Job("protocol", [k \in DOMAIN steps |-> Step(steps[k], 0)] \o Refresh, process))
  /\ note' = "other"
  /\ UNCHANGED <<fixed, srv, process, screen, work, loads, unsure>>

\* Which of the three formats makes no difference here.
DownloadProtocol ==
  /\ process # 0 /\ Start(Job("file", <<Step("file", 0)>>, process))
  /\ UNCHANGED <<fixed, srv, process, screen, work, note, loads, unsure>>

QueueRinMock ==
  /\ process # 0 /\ screen.status.state = "FINALIZED" /\ screen.status.sync = "NOT_REQUESTED"
  /\ Start(Job("sync", <<Step("sync", 0)>> \o Refresh, process))
  /\ UNCHANGED <<fixed, srv, process, screen, work, note, loads, unsure>>

\* The button that opens a process by its id: the lists stay until the refresh.
OpenProcess(p) ==
  /\ Start([Job("open", Refresh, p) EXCEPT !.dirty = TRUE])
  /\ process' = p /\ card' = NoCard /\ active' = 0
  /\ UNCHANGED <<fixed, srv, screen, form, checked, note, loads, unsure>>

-----------------------------------------------------------------------------
(* What may be done while requests are under way.                          *)

Toggle(i) ==
  /\ i \in Shown /\ screen.findings[i].status = "CANDIDATE"
  /\ checked' = IF i \in checked THEN checked \ {i} ELSE checked \cup {i}
  /\ UNCHANGED <<bounds, srv, process, screen, active, card, form, note, job, loads, unsure>>

\* The fields stand under the card, for a finding that may be reviewed.
FillIn ==
  /\ card # NoCard /\ Reviewable(active) /\ ~form
  /\ form' = TRUE
  /\ UNCHANGED <<bounds, srv, process, screen, active, card, checked, note, job, loads, unsure>>

OpenFinding(i) ==
  /\ process # 0 /\ i \in Shown /\ Cardinality(loads) < MaxLoads
  /\ active' = i /\ form' = FALSE
  /\ loads' = loads \cup {[process |-> process, id |-> i]}
  /\ UNCHANGED <<bounds, srv, process, screen, card, checked, note, job, unsure>>

\* The card of a click arrives, whatever has been opened since; nobody handles
\* its refusal.
CardLoaded(l) ==
  /\ l \in loads /\ Waits(srv, l.process)
  /\ loads' = loads \ {l}
  /\ card' = IF /\ CodeFor("getEvidenceCard", Caller, srv, l.process) = 200
                /\ HasCard(srv, l.process, l.id)
             THEN l ELSE card
  /\ UNCHANGED <<bounds, srv, process, screen, active, form, checked, note, job, unsure>>

-----------------------------------------------------------------------------
(* Answers.                                                                *)

Handle(step, p) ==
  CASE step.op = "upload" -> Upload(Caller, srv, Session.object, p, step.arg)
    [] step.op = "kit" -> DemoKit(Caller, srv)
    [] step.op = "select" -> Select(Caller, srv, Session.subject, p, step.arg)
    [] step.op = "confirm" -> Confirm(Caller, srv, Session.subject, p, step.arg)
    [] step.op = "review" -> Review(Caller, srv, Session.subject, step.arg[1], step.arg[2])
    [] step.op \in {"verify", "complete", "finalize"} ->
         HumanAction(Caller, srv, Session.subject, p, step.op)
    [] step.op = "sync" -> SyncInspection(Caller, srv, p, site.durable)
    [] step.op = "documents" -> Read("getProcessDocuments", Caller, srv, p)
    [] step.op = "findings" -> Read("listProcessFindings", Caller, srv, p)
    [] step.op = "status" -> Read("getProcessStatus", Caller, srv, p)
    [] step.op = "protocol" -> ReadProtocol(Caller, srv, p)
    [] step.op = "file" -> ReadFile(Caller, srv, p)
    [] step.op = "audit" -> Read("getAuditLog", Caller, srv, p)
    [] step.op = "card" -> IF HasCard(srv, p, step.arg) THEN Read("getEvidenceCard", Caller, srv, p)
                           ELSE Deny(404, srv)
Due == Head(job.todo)
Reply == Handle(Due, job.at)

\* review waits for every run, an endpoint of a process for the run of it.
Handled ==
  IF Due.op = "review" THEN \A p \in DOMAIN srv : Waits(srv, p)
  ELSE Due.op = "kit" \/ Waits(srv, job.at)
Answered(ops) == Busy /\ Due.op \in ops /\ Handled /\ Reply.code = 200

\* The receipt names the process the page goes on with.
ReceiptArrives ==
  /\ Answered({"upload", "kit"})
  /\ srv' = Reply.srv /\ process' = Reply.process
  /\ note' = IF Due.op = "kit" THEN "other" ELSE note
  /\ job' = Proceed([job EXCEPT !.at = Reply.process, !.dirty = TRUE])
  /\ UNCHANGED <<bounds, screen, work, loads, unsure>>

ChangeArrives ==
  /\ Answered({"select", "confirm", "review", "verify", "complete", "finalize", "sync"})
  /\ srv' = Reply.srv
  /\ checked' = IF Due.op = "confirm" THEN {} ELSE checked
  /\ job' = Proceed([job EXCEPT !.dirty = TRUE])
  /\ UNCHANGED <<bounds, process, screen, active, card, form, note, loads, unsure>>

DownloadArrives ==
  /\ Answered({"protocol", "file", "audit"})
  /\ note' = IF Due.op = "file" THEN "other" ELSE note
  /\ job' = Proceed(IF Due.op = "protocol"
                    THEN [job EXCEPT !.protocol = ProtocolDocument(srv[job.at])] ELSE job)
  /\ UNCHANGED <<bounds, srv, process, screen, work, loads, unsure>>

ListArrives ==
  /\ Answered({"documents", "findings"})
  /\ job' = Proceed(IF Due.op = "documents"
                    THEN [job EXCEPT !.documents = Documents(srv[job.at]), !.fresh = TRUE]
                    ELSE [job EXCEPT !.findings = srv[job.at].findings])
  /\ UNCHANGED <<bounds, srv, process, screen, work, note, loads, unsure>>

\* The last answer of a refresh sets the three parts of the screen at once. decide
\* opens the next finding then, or none.
StatusArrives ==
  /\ Answered({"status"})
  /\ screen' = [of |-> job.at, documents |-> job.documents, findings |-> job.findings,
                status |-> StatusOf(srv[job.at])]
  /\ unsure' = ~job.fresh
  /\ note' = CASE job.kind = "protocol" -> "protocol" [] job.kind = "sync" -> "other" [] OTHER -> note
  /\ active' = IF job.kind = "decide" THEN job.next ELSE active
  /\ form' = (form /\ job.next = 0)
  /\ job' = Proceed([job EXCEPT !.dirty = FALSE])
  /\ UNCHANGED <<bounds, srv, process, card, checked, loads>>

NextCardArrives ==
  /\ Answered({"card"})
  /\ card' = [process |-> job.at, id |-> Due.arg] /\ job' = Proceed(job)
  /\ UNCHANGED <<bounds, srv, process, screen, active, form, checked, note, loads, unsure>>

\* catch and finally: nothing waits any more.
Fail(s) ==
  /\ srv' = s /\ job' = Idle
  /\ unsure' = (unsure \/ job.dirty \/ s # srv)
  /\ UNCHANGED <<site, presses, process, screen, work, note, loads>>

Refusal == Busy /\ Handled /\ Reply.code # 200 /\ Fail(Reply.srv) /\ UNCHANGED troubles

\* The request or its answer is lost on the way.
Lost ==
  /\ Busy /\ troubles < MaxTrouble /\ troubles' = troubles + 1
  /\ \/ Fail(srv)
     \/ Handled /\ Fail(Reply.srv)

-----------------------------------------------------------------------------
(* The service beside the page.                                            *)

RunEnds(p) ==
  /\ srv[p].state = "PARSING"
  /\ srv' = [srv EXCEPT ![p] = Run(@)]
  /\ UNCHANGED <<bounds, process, screen, work, note, job, loads, unsure>>

\* Another inspector decides, sends a file or cancels; one of another object loads
\* the kit, whose findings have the same ids.
Creating == IF job.kind = "kit" \/ (job.kind = "upload" /\ job.at = 0) THEN 1 ELSE 0
Other ==
  /\ troubles < MaxTrouble /\ troubles' = troubles + 1
  /\ \/ \E i \in Id, action \in DOMAIN Target :
          LET answer == Review(Colleague, srv, Colleague.subject, i, action) IN
          /\ \A p \in DOMAIN srv : Waits(srv, p)
          /\ answer.code = 200 /\ srv' = answer.srv
     \/ \E p \in DOMAIN srv, f \in File :
          LET answer == Upload(Colleague, srv, "mine", p, f) IN
          Waits(srv, p) /\ answer.code = 200 /\ srv' = answer.srv
     \/ \E p \in DOMAIN srv :
          LET answer == Unfinalize(Colleague, srv, Colleague.subject, p) IN
          Waits(srv, p) /\ answer.code = 200 /\ srv' = answer.srv
     \/ Len(srv) + Creating < MaxProcess /\ srv' = LoadKit(srv, "theirs")
  /\ unsure' = TRUE /\ job' = [job EXCEPT !.sure = FALSE, !.fresh = FALSE]
  /\ UNCHANGED <<site, presses, process, screen, work, note, loads>>

Next ==
  \/ UploadKit \/ LoadTutorialKit \/ AssignEtalon \/ ConfirmChecked \/ Decide
  \/ FinalizeProtocol \/ DownloadProtocol \/ QueueRinMock
  \/ \E p \in 1..MaxProcess : OpenProcess(p)
  \/ \E i \in Id : Toggle(i) \/ OpenFinding(i)
  \/ FillIn
  \/ \E l \in loads : CardLoaded(l)
  \/ ReceiptArrives \/ ChangeArrives \/ DownloadArrives \/ ListArrives \/ StatusArrives
  \/ NextCardArrives \/ Refusal \/ Lost
  \/ \E p \in DOMAIN srv : RunEnds(p)
  \/ Other

Spec == Init /\ [][Next]_vars

-----------------------------------------------------------------------------
(* Correctness.                                                            *)

\* The shape of the state; what a finalized process and an export presuppose.
TypeOK ==
  /\ site \in Sites
  /\ srv \in Seq(Process) /\ Len(srv) <= MaxProcess
  /\ process \in 0..MaxProcess
  /\ screen.findings \in [Id -> Finding \cup {NoFinding}]
  /\ active \in Id \cup {0} /\ card.process \in 0..MaxProcess /\ card.id \in Id \cup {0}
  /\ form \in BOOLEAN /\ checked \subseteq Id
  /\ note \in {"protocol", "other"}  /\ unsure \in BOOLEAN
  /\ Busy <=> job.todo # <<>>
  /\ loads \subseteq [process : 1..MaxProcess, id : Id]
  /\ \A p \in DOMAIN srv :
       /\ srv[p].state = "FINALIZED" => Candidates(srv[p]) = {}
       /\ srv[p].sync # "NOT_REQUESTED" => srv[p].state = "FINALIZED"
       /\ srv[p].state = "FINALIZED" <=> srv[p].protocol # 0
       /\ srv[p].protocol # 0 => \E paper \in srv[p].papers : paper.version = srv[p].protocol

\* LiveWorkspace.tsx:213-226 against api.py:509-603: when nothing is under way, the
\* page shows the documents, the findings and the status its process has, although
\* uploads are answered before their run and a refresh is three requests.  Excluded
\* is what no page can know: a lost answer, a request that failed half-way, and
\* what somebody else has done since.
IdleShowsServer ==
  ~Busy /\ process # 0 /\ ~unsure =>
    /\ process \in DOMAIN srv
    /\ screen = [of |-> process, documents |-> Documents(srv[process]),
                 findings |-> srv[process].findings, status |-> StatusOf(srv[process])]

\* What the paper says is what the screen says: every finding the inspector sees,
\* under the status he sees, in the table of that status; and only violations that
\* were confirmed are counted.
Says(paper, shown) ==
  LET seen == {i \in Id : /\ shown.findings[i] # NoFinding
                          /\ shown.findings[i].status # "AUTO_NO_DIFFERENCE"} IN
  /\ DOMAIN paper.sections = Tables
  /\ \A name \in Tables :
       paper.sections[name] = {Row(i, shown.findings[i]) : i \in {j \in seen :
                                 SectionOf(shown.findings[j].status) = name}}
  /\ paper.violations =
       Cardinality({i \in seen : shown.findings[i].status = "CONFIRMED_VIOLATION"})

\* LiveWorkspace.tsx:474-523 against protocol.py: what the page calls the protocol
\* is the stored one of a finalized process and says what the screen says, from
\* whichever state and through however many steps the press had to lead it there;
\* no candidate is left in it, and what of it goes to RiN is what persons decided.
\* Excluded: the page was out of date when it was pressed, or somebody else was at
\* work meanwhile.
DownloadedIsFinal ==
  [][note' = "protocol" /\ note # "protocol" /\ job.sure =>
       LET rin == ProtocolForRin(job.protocol).sections IN
       /\ screen'.status.state = "FINALIZED" /\ ~screen'.status.open
       /\ job.protocol.status = "PROTOCOL_FINALIZED" /\ Says(job.protocol, screen')
       /\ job.protocol.sections["candidates"] = {}
       /\ \A row \in rin["confirmed"] \cup rin["negative_verified"] : row.decided]_vars

\* LiveWorkspace.tsx:525-542, and the page's line "DOCX, XML и PDF собираются из
\* того же JSON": the three files can be made in every state in which there is a
\* protocol, and each shows the findings of the screen, with their values.
FilesShowScreen ==
  [][Busy /\ Due.op = "file" /\ Handled /\ job.sure /\ job' = Idle =>
       /\ Reply.code # 500
       /\ \A kind \in {"docx", "xml", "pdf"} :
            LET file == FileOf(kind, srv[job.at])
                shown == UNION {file.tables[name] : name \in Tables} IN
            /\ shown = {[id |-> i, status |-> screen.findings[i].status] :
                           i \in {j \in Shown : screen.findings[j].status # "AUTO_NO_DIFFERENCE"}}
            /\ \A name \in Tables : \A c \in file.cards[name] :
                 c.fact = screen.findings[c.id].value]_vars

=============================================================================
