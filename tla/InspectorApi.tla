---------------------------- MODULE InspectorApi ----------------------------
(***************************************************************************)
(* The endpoints the inspector's screen calls (presentation/api.py with    *)
(* application/runtime.py and review.py behind it), each as the answer it  *)
(* gives to one request: a code and the state of the service after it.     *)
(*                                                                         *)
(* s is the sequence of the processes in the order the service holds them, *)
(* c the context of the caller's token, p a process, by its number.        *)
(* Overlapping requests and failing calls are in Workspace; here a request *)
(* is one step, and what matters is what it shows and changes.             *)
(* Definitions named Faulty... are bugs that could be introduced; no       *)
(* specification uses them.                                                *)
(***************************************************************************)
EXTENDS Access, Paper, Sequences

CONSTANTS
  Unapproved,  \* files whose stamp refuses approval
  Kit,         \* the files of the demo kit
  Machine      \* [<<files, etalons>> -> what a run finds: [Id -> Computed or NoFinding]]

Finding == [status : FindingStatus, value : Value, decided : BOOLEAN]
Computed == [status : FindingStatus \ HumanOnlyStatuses, value : Value, decided : {FALSE}]
Protocol ==
  [version : Nat, status : {"PROTOCOL_FINALIZED"},
   scenario : {"PARTIALLY_LOADED", "PD_RD_ONLY", "PD_ID_ONLY", "RD_ID_ONLY", "SINGLE_ONLY"},
   upload : [DocStage -> {"UPLOADED", "MISSING"}],
   completeness : SUBSET [id : Catalog, status : {"MISSING", "STAGE_UPLOADED_NOT_VERIFIED"}],
   sections : [Tables \cup {Pocket} ->
                 SUBSET [id : Id, status : FindingStatus, value : Value, decided : BOOLEAN]],
   violations : Nat]
Process ==
  [object : {"mine", "theirs"}, state : ProcessState \ {"PENDING"}, files : SUBSET File,
   etalons : SUBSET File, sync : {"NOT_REQUESTED", "PENDING_SYNC", "RETRY_WAIT"},
   findings : [Id -> Finding \cup {NoFinding}],
   protocol : Nat,             \* version of the protocol in force; 0: none
   papers : SUBSET Protocol]   \* what was materialized, none is ever removed

Candidates(r) == {i \in Findings(r) : r.findings[i].status = "CANDIDATE"}

Answer(code, s, p) == [code |-> code, srv |-> s, process |-> p]
Deny(code, s) == Answer(code, s, 0)

\* _record_for_access: workspace.get waits for the run of the process; peek, its
\* neighbour, does not.
FaultyWaits(s, p) == TRUE
Waits(s, p) == p \in DOMAIN s => s[p].state # "PARSING"
CodeFor(op, c, s, p) ==
  IF Authorize(op, c) # 200 THEN Authorize(op, c)
  ELSE IF p \notin DOMAIN s THEN 404
  ELSE IF ~MayAccess(s[p].object, c) THEN 403 ELSE 200
\* Endpoints that decide compare the inspector_id of the body with the token's.
CodeAs(op, subject, c, s, p) ==
  IF Authorize(op, c) = 200 /\ subject # c.subject THEN 403 ELSE CodeFor(op, c, s, p)

-----------------------------------------------------------------------------
(* Runs.                                                                   *)

Carry(old, fresh) ==
  IF /\ old # NoFinding /\ old.decided /\ old.value = fresh.value
     /\ fresh.status = "CANDIDATE" /\ old.status \in HumanOnlyStatuses
  THEN old ELSE fresh

\* run_matrix_pipeline: put_finding overwrites and removes nothing.
Run(r) ==
  [r EXCEPT !.state = "READY",
            !.findings = [i \in Id |-> IF Machine[<<r.files, r.etalons>>][i] = NoFinding
                                       THEN r.findings[i]
                                       ELSE Carry(r.findings[i], Machine[<<r.files, r.etalons>>][i])]]

New(object, files) ==
  [object |-> object, state |-> "PARSING", files |-> files, etalons |-> {},
   sync |-> "NOT_REQUESTED", findings |-> [i \in Id |-> NoFinding], protocol |-> 0, papers |-> {}]

-----------------------------------------------------------------------------
(* Uploads.                                                                *)

Attach(s, p, f) ==
  IF s[p].state = "FINALIZED" THEN Deny(409, s)
  ELSE IF f \in s[p].files THEN Answer(200, s, p)
  ELSE Answer(200, [s EXCEPT ![p].files = @ \cup {f}, ![p].state = "PARSING"], p)

\* p = 0: the form has no process_id yet.
Upload(c, s, object, p, f) ==
  IF Authorize("uploadDocuments", c) # 200 THEN Deny(Authorize("uploadDocuments", c), s)
  ELSE IF ~MayAccess(object, c) THEN Deny(403, s)
  ELSE IF p = 0 THEN Answer(200, Append(s, New(object, {f})), Len(s) + 1)
  ELSE IF p \notin DOMAIN s THEN Deny(404, s)
  ELSE IF ~MayAccess(s[p].object, c) THEN Deny(403, s)
  ELSE IF s[p].object # object THEN Deny(409, s)
  ELSE Attach(s, p, f)

\* install_demo_kit runs the matrix before it answers and appoints no etalon.
LoadKit(s, object) == Append(s, Run(New(object, Kit)))
DemoKit(c, s) ==
  IF ~InsecureAuthPermitted THEN Deny(404, s)
  ELSE IF Authorize("loadDemoKit", c) # 200 THEN Deny(Authorize("loadDemoKit", c), s)
  ELSE IF c.object = NoObject THEN Deny(403, s)
  ELSE Answer(200, LoadKit(s, c.object), Len(s) + 1)

-----------------------------------------------------------------------------
(* Decisions.                                                              *)

Target ==
  [CONFIRM |-> "CONFIRMED_VIOLATION", REJECT |-> "NEGATIVE_VERIFIED",
   REQUEST_CLARIFICATION |-> "CLARIFICATION_REQUIRED"]
Takes(r, i, action) == <<r.findings[i].status, Target[action]>> \in FindingTransitions

\* locate_finding: the last process whose finding can take the decision, else
\* the last that has the id.
Last(set) == CHOOSE p \in set : \A q \in set : q <= p
Locate(s, i, action) ==
  LET having == {p \in DOMAIN s : i \in Findings(s[p])}
      taking == {p \in having : Takes(s[p], i, action)} IN
  IF having = {} THEN 0 ELSE IF taking # {} THEN Last(taking) ELSE Last(having)

Decided(r, ids, action) ==
  [r EXCEPT !.findings = [i \in Id |-> IF i \in ids
                                       THEN [@[i] EXCEPT !.status = Target[action], !.decided = TRUE]
                                       ELSE @[i]],
            !.state = IF @ = "READY" THEN "VERIFYING" ELSE @]

Review(c, s, subject, i, action) ==
  LET p == Locate(s, i, action) IN
  IF Authorize("reviewFinding", c) # 200 THEN Deny(Authorize("reviewFinding", c), s)
  ELSE IF subject # c.subject THEN Deny(403, s)
  ELSE IF p = 0 THEN Deny(404, s)
  ELSE IF ~MayAccess(s[p].object, c) THEN Deny(403, s)
  ELSE IF s[p].state = "FINALIZED" \/ ~Takes(s[p], i, action) THEN Deny(409, s)
  ELSE Answer(200, [s EXCEPT ![p] = Decided(@, {i}, action)], p)

\* confirm_candidates: the whole batch is looked at before the first is changed.
MayConfirm(r, ids) == ids # {} /\ ids \subseteq Candidates(r)
Confirm(c, s, subject, p, ids) ==
  LET code == CodeAs("confirmCandidates", subject, c, s, p) IN
  IF code # 200 THEN Deny(code, s)
  ELSE IF s[p].state = "FINALIZED" THEN Deny(409, s)
  ELSE IF ids \ Findings(s[p]) # {} THEN Deny(404, s)
  ELSE IF ~MayConfirm(s[p], ids) THEN Deny(409, s)
  ELSE Answer(200, [s EXCEPT ![p] = Decided(@, ids, "CONFIRM")], p)

\* select_revision: an etalon is appointed before the first decision; the matrix
\* runs at once and its findings replace all there were.
Select(c, s, subject, p, f) ==
  LET code == CodeAs("selectRevision", subject, c, s, p)
      etalons == s[p].etalons \cup {f} IN
  IF code # 200 THEN Deny(code, s)
  ELSE IF \/ s[p].state \notin {"READY", "VERIFYING"}
          \/ \E i \in Findings(s[p]) : s[p].findings[i].decided THEN Deny(409, s)
  ELSE IF f \notin s[p].files THEN Deny(404, s)
  ELSE IF f \in Unapproved THEN Deny(409, s)
  ELSE Answer(200, [s EXCEPT ![p].etalons = etalons,
                             ![p].findings = Machine[<<s[p].files, etalons>>]], p)

-----------------------------------------------------------------------------
(* Ways of a process to its protocol.                                      *)

FaultyCanFinalize(r) == Cardinality(Candidates(r)) < 2
CanFinalize(r) == Candidates(r) = {}

Advance(s, p, from, to, open) ==
  IF s[p].state # from \/ ~open THEN Deny(409, s)
  ELSE Answer(200, [s EXCEPT ![p].state = to], p)
\* finalize: the next version of the object is assembled as finalized, and stored.
NextVersion(s, object) ==
  LET of == {q \in DOMAIN s : s[q].object = object}
      versions == {paper.version : paper \in UNION {s[q].papers : q \in of}} IN
  IF versions = {} THEN 1 ELSE Last(versions) + 1
Finalize(s, p) ==
  LET version == NextVersion(s, s[p].object)
      paper == AssembleProtocol([s[p] EXCEPT !.state = "FINALIZED"], version)
      done == Advance(s, p, "COMPLETED", "FINALIZED", CanFinalize(s[p])) IN
  IF done.code # 200 THEN done
  ELSE Answer(200, [done.srv EXCEPT ![p].protocol = version, ![p].papers = @ \cup {paper}], p)

HumanAction(c, s, subject, p, action) ==
  LET code == CodeAs([verify |-> "startVerification", complete |-> "completeVerification",
                        finalize |-> "finalizeProtocol"][action], subject, c, s, p) IN
  IF code # 200 THEN Deny(code, s)
  ELSE CASE action = "verify" -> Advance(s, p, "READY", "VERIFYING", TRUE)
         [] action = "complete" -> Advance(s, p, "VERIFYING", "COMPLETED", CanFinalize(s[p]))
         [] action = "finalize" -> Finalize(s, p)

Unfinalize(c, s, subject, p) ==
  LET code == CodeAs("unfinalizeProtocol", subject, c, s, p) IN
  IF code # 200 THEN Deny(code, s)
  ELSE IF s[p].sync # "NOT_REQUESTED" \/ s[p].state # "FINALIZED" THEN Deny(409, s)
  ELSE Answer(200, [s EXCEPT ![p].state = "COMPLETED", ![p].protocol = 0], p)

\* request_sync changes the record first; the durable store refuses to save a
\* FINALIZED snapshot (process_store.py:804), and the request fails.
SyncInspection(c, s, p, durable) ==
  LET code == CodeFor("syncInspection", c, s, p)
      asked == [s EXCEPT ![p].sync = IF @ = "NOT_REQUESTED" THEN "PENDING_SYNC" ELSE "RETRY_WAIT"] IN
  IF code # 200 THEN Deny(code, s)
  ELSE IF s[p].state # "FINALIZED" THEN Deny(409, s)
  ELSE IF durable THEN Deny(409, asked) ELSE Answer(200, asked, p)

-----------------------------------------------------------------------------
(* Reading.                                                                *)

Read(op, c, s, p) ==
  LET code == CodeFor(op, c, s, p) IN IF code # 200 THEN Deny(code, s) ELSE Answer(200, s, p)
Documents(r) == [files |-> r.files, etalons |-> r.etalons]
StatusOf(r) == [state |-> r.state, open |-> Candidates(r) # {}, sync |-> r.sync]
HasCard(s, p, i) == p \in DOMAIN s /\ i \in Findings(s[p])

\* 404 while there is no protocol; a renderer of a file that refuses answers 500.
ReadProtocol(c, s, p) ==
  LET answer == Read("getProtocol", c, s, p) IN
  IF answer.code = 200 /\ s[p].state \notin DOMAIN ProtocolStatus THEN Deny(404, s) ELSE answer
ReadFile(c, s, p) ==
  LET answer == ReadProtocol(c, s, p) IN
  IF answer.code = 200 /\ Refuses(ProtocolDocument(s[p])) THEN Deny(500, s) ELSE answer
FileOf(kind, r) ==
  LET paper == ProtocolDocument(r)
      cards == CardsFromGroups(paper, r) IN
  CASE kind = "docx" -> RenderDocx(paper, cards)
    [] kind = "xml" -> RenderXml(paper, cards)
    [] kind = "pdf" -> RenderPdf(paper, cards)
=============================================================================
