------------------------------- MODULE Paper -------------------------------
(***************************************************************************)
(* The protocol of a process: what is assembled from its findings          *)
(* (application/protocol.py, scenarios.py, completeness_catalog.py), what  *)
(* of it the API shows, what the outbox sends to RiN, and what the files   *)
(* the inspector downloads say (application/protocol_export.py).           *)
(*                                                                         *)
(* r is a process with its state, its files, its findings and the          *)
(* protocols it materialized.  A row of the protocol is a finding: its id, *)
(* status and value, and whether a person decided it; rule references,     *)
(* rationale and hashes are left out, and so is the order of the rows.     *)
(* Definitions named Faulty... are bugs that could be introduced; no       *)
(* specification uses them.                                                *)
(***************************************************************************)
EXTENDS Statuses, Naturals, FiniteSets

CONSTANTS
  File,        \* what an inspector has on disk, one stage each
  FileStage,   \* [File -> "PD", "RD", "ID"]
  Id,          \* finding ids: the same in every process
  Value,
  NoFinding,
  Catalog      \* {[section, stage]}: documents sections.json expects

DocStage == {"PD", "RD", "ID"}
Findings(r) == {i \in Id : r.findings[i] # NoFinding}

-----------------------------------------------------------------------------
(* Assembly.                                                               *)

ProtocolStatus ==
  [READY |-> "READY", VERIFYING |-> "VERIFYING", COMPLETED |-> "VERIFICATION_COMPLETED",
   FINALIZED |-> "PROTOCOL_FINALIZED"]

\* A finding stands in one table; what no person has to look at goes to a pocket
\* that leaves the service in no form.
SectionOf(status) ==
  CASE status = "CANDIDATE" -> "candidates"
    [] status = "CONFIRMED_VIOLATION" -> "confirmed"
    [] status = "NEGATIVE_VERIFIED" -> "negative_verified"
    [] status = "SUSPICION" -> "suspicions"
    [] status = "MISSING_EVIDENCE" -> "missing_evidence"
    [] status = "AUTO_NO_DIFFERENCE" -> "preliminary_no_difference"
    [] OTHER -> "needs_attention"
Tables ==
  {"candidates", "confirmed", "negative_verified", "suspicions", "missing_evidence",
   "needs_attention"}
Pocket == "preliminary_no_difference"

\* attach_file: a stage is uploaded from its first file on; nothing makes it partial.
Completeness(r) ==
  [s \in DocStage |-> IF \E f \in r.files : FileStage[f] = s THEN "UPLOADED" ELSE "MISSING"]
\* The expected composition is declared nowhere: three stages are no full package.
DetectScenario(r) ==
  LET present == {s \in DocStage : Completeness(r)[s] # "MISSING"} IN
  CASE present = DocStage -> "PARTIALLY_LOADED"
    [] present = {"PD", "RD"} -> "PD_RD_ONLY"
    [] present = {"PD", "ID"} -> "PD_ID_ONLY"
    [] present = {"RD", "ID"} -> "RD_ID_ONLY"
    [] OTHER -> "SINGLE_ONLY"

\* What the catalogue expects, by the stage alone: no section is called present.
CompletenessRows(r) ==
  {[id |-> c, status |-> IF Completeness(r)[c.stage] = "MISSING" THEN "MISSING"
                         ELSE "STAGE_UPLOADED_NOT_VERIFIED"] : c \in Catalog}

Row(i, f) == [id |-> i, status |-> f.status, value |-> f.value, decided |-> f.decided]

AssembleProtocol(r, version) ==
  LET rows == {Row(i, r.findings[i]) : i \in Findings(r)}
      section(name) == {row \in rows : SectionOf(row.status) = name} IN
  [version |-> version, status |-> ProtocolStatus[r.state], scenario |-> DetectScenario(r),
   upload |-> Completeness(r), completeness |-> CompletenessRows(r),
   sections |-> [name \in Tables \cup {Pocket} |-> section(name)],
   violations |-> Cardinality(section("confirmed"))]

-----------------------------------------------------------------------------
(* What leaves the service.                                                *)

FaultyProtocolForHttp(p) == p
ProtocolForHttp(p) == [p EXCEPT !.sections = [name \in Tables |-> @[name]]]

\* By what may go, not by what may not: confirmed and rejected violations.
RinSectionAllowlist ==
  [confirmed |-> {"CONFIRMED_VIOLATION"}, negative_verified |-> {"NEGATIVE_VERIFIED"}]
ProtocolForRin(p) ==
  LET kept == [name \in DOMAIN RinSectionAllowlist |->
                 {row \in p.sections[name] : row.status \in RinSectionAllowlist[name]}] IN
  [p EXCEPT !.sections = kept, !.violations = Cardinality(kept.confirmed)]

\* A finalized process shows the protocol it materialized, any other what its
\* findings make now.
Stored(r) == CHOOSE p \in r.papers : p.version = r.protocol
ProtocolDocument(r) ==
  ProtocolForHttp(IF r.state = "FINALIZED" THEN Stored(r) ELSE AssembleProtocol(r, 1))

-----------------------------------------------------------------------------
(* Files.  The evidence of a row is read from the process once more, when  *)
(* the protocol has been read: the value stands for it.                    *)

CardsFromGroups(p, r) ==
  [i \in {row.id : row \in UNION {p.sections[name] : name \in Tables}} \cap Findings(r) |->
     r.findings[i].value]

\* What a row says of its facts: the card before the row.
FactPairs(row, cards) == IF row.id \in DOMAIN cards THEN cards[row.id] ELSE row.value

\* A renderer refuses the pocket, and a status of it in any table.
Refuses(p) ==
  \/ Pocket \in DOMAIN p.sections
  \/ \E name \in Tables : \E row \in p.sections[name] : row.status = "AUTO_NO_DIFFERENCE"

RenderDocx(p, cards) ==
  [head |-> <<p.status, p.upload, p.scenario, p.violations>>, completeness |-> p.completeness,
   tables |-> [name \in Tables |-> {[id |-> row.id, status |-> row.status] : row \in p.sections[name]}],
   cards |-> [name \in Tables |-> {[id |-> row.id, fact |-> FactPairs(row, cards)] :
                                     row \in p.sections[name]}]]
\* The schema of the XML (protocol-export.xsd) accepts any text in these places.
RenderXml(p, cards) == RenderDocx(p, cards)
RenderPdf(p, cards) == RenderDocx(p, cards)
=============================================================================
