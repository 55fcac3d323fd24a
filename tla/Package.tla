------------------------------ MODULE Package ------------------------------
(***************************************************************************)
(* A process and its package of documents: uploads with and without a      *)
(* predecessor, runs of the matrix, and the inspector's choice of an       *)
(* etalon (presentation/api.py, application/runtime.py,                    *)
(* application/process_pipeline.py).  What a request accepts is in Intake, *)
(* what a run decides in RuleCascade and the modules below it; who waits   *)
(* for a run, what a restart keeps and what decisions block is in          *)
(* Workspace and PipelineWorker.                                           *)
(*                                                                         *)
(* A file is named by its content.  A run may lose a file (it cannot be    *)
(* parsed in time or at all) and may read a scanned file blindly (its OCR  *)
(* times out): then only its name speaks.                                  *)
(* Definitions named Faulty... are bugs that could be introduced there; no *)
(* specification uses them.                                                *)
(***************************************************************************)
EXTENDS RuleCascade, Intake

CONSTANTS
  ParcelOf,    \* [Content -> the file as it is sent]
  Members,     \* [File -> documents in it]: none unless it is a zip archive
  Passport,    \* [File -> what the document says it is]
  Says,        \* [File -> what it says to the rules]
  Rows,        \* [File -> the tokens of its page]
  Crops,       \* [File -> what the engines find on the crop of a value]
  Raster,      \* the files that need OCR
  Matrix,      \* rules
  FreeSearch,  \* rules outside the matrix
  MaxBatch,    \* bound: files of a request
  MaxFiles,    \* bound: uploaded files of the process
  MaxUnread,   \* bound: files one run loses or reads blindly
  MaxChoices,  \* bound: etalons the inspector chooses
  NoRun        \* there are no cards of the attached files

\* The tokens of a page: their brackets are counted, and a number has its digits.
TypedToken(t) ==
  /\ t.opens \in Nat /\ t.closes \in Nat
  /\ t.numeral # NoNumber =>
       t.numeral \in [whole : Nat, size : Nat, sep : STRING, frac : Nat, places : Nat]
TypedRow(ts) ==
  Len(ts) \in Nat /\ DOMAIN ts = 1..Len(ts) /\ \A k \in DOMAIN ts : TypedToken(ts[k])
\* What is given of the extractors other than that of numbers is a number.
Measured(reading) == reading.kind = "hit" => {reading.value, reading.second} \subseteq Int
TypedRule(rule) ==
  /\ rule.required \in Seq(DocStage) /\ DOMAIN rule.ladder \subseteq Nat
  /\ {rule.abs, rule.rel} \subseteq Nat \cup {NoBound} /\ rule.value \in Int \cup {NoBound}
TypedSpeech(says) ==
  /\ {"kind", "value", "second", "crops"} \subseteq DOMAIN says.reading /\ Measured(says.reading)
  /\ says.table # Unparsed =>
       DOMAIN says.table \subseteq Nat /\ \A line \in DOMAIN says.table : says.table[line] \in Int
  /\ \A q \in says.sheets \cup says.phrases \cup says.texts : q.page \in Nat
  /\ \A q \in says.sheets : DOMAIN q.labels \subseteq Nat

ASSUME PackageAssumption ==
  /\ MaxBatch \in Nat /\ MaxFiles \in Nat /\ MaxUnread \in Nat /\ MaxChoices \in Nat
  /\ Content \subseteq File /\ Raster \subseteq File
  /\ ParcelOf \in [Content -> Parcel] /\ \A f \in Content : ParcelOf[f].content = f
  /\ Members \in [File -> SUBSET (File \ Content)]
  /\ \A f, g \in File : f # g => Members[f] \cap Members[g] = {}
  /\ \A r, q \in Matrix \cup FreeSearch : r.code = q.code => r = q
  /\ Matrix \cap FreeSearch = {}
  /\ \A rule \in Matrix : TypedRule(rule)
  /\ \A f \in File : TypedSpeech(Says[f])
  /\ \A f \in File : TypedRow(Rows[f])
  /\ DOMAIN Passport = File /\ DOMAIN Says = File
  /\ DOMAIN Rows = File /\ DOMAIN Crops = File
  /\ \A f \in File :
       /\ Passport[f].stage \in DocStage
       /\ \A m \in Members[f] : Passport[m].stage = Passport[f].stage /\ Members[m] = {}
       /\ Passport[f].key \in Key \cup {Blank} /\ Passport[f].nameKey \in Key \cup {Blank}
       /\ Passport[f].approval \in ApprovalStatus
       /\ Passport[f].volume \in Volume \cup {Blank}
       /\ Passport[f].marks \in SUBSET {"change", "correction"}
       /\ Passport[f].number \in Nat \cup {Unread} /\ Passport[f].title \in Nat \cup {Unread}
       /\ Passport[f].titleKind \in {"change", "correction", "none"}

VARIABLES
  attached,  \* files with their recorded links
  selected,  \* inspector_approved_file_ids
  state,     \* VERIFYING behaves as READY here
  scheduled, \* a run is due
  last,      \* the last run of the attached files, or NoRun
  readings   \* what each rule reads in each file: fixed by the tokens, and kept
             \* here to be computed once
vars == <<attached, selected, state, scheduled, last, readings>>

FilesOf(files) == {a.file : a \in files}
Files == FilesOf(attached)
Unlinked(f) == [file |-> f, pred |-> NoFile, succ |-> NoFile]

-----------------------------------------------------------------------------
(* What a run reads.                                                       *)

\* Members of an archive join the files when a run opens it, without links.
Expand(files, lost) ==
  LET inside == UNION {Members[f] : f \in FilesOf(files) \ lost} IN
  files \cup {Unlinked(m) : m \in inside \ FilesOf(files)}

\* A blind file keeps what its name says; its stamp is not read.
DocumentOf(a, blind) ==
  LET says == Passport[a.file]
      approval == IF a.file \in blind THEN "UNKNOWN" ELSE says.approval IN
  [file |-> a.file, stage |-> says.stage,
   key |-> IF a.file \in blind THEN says.nameKey ELSE says.key,
   approval |-> approval, basis |-> IF approval = "UNKNOWN" THEN "UNPROVEN" ELSE "TITLE_BLOCK",
   pred |-> a.pred, succ |-> a.succ,
   volume |-> says.volume, marks |-> says.marks, number |-> says.number,
   title |-> IF a.file \in blind THEN Unread ELSE says.title,
   titleKind |-> IF a.file \in blind THEN "none" ELSE says.titleKind]

\* _pages_from_blobs
Pool(files, sel, run) ==
  PoolOf({DocumentOf(a, run.blind) : a \in {b \in Expand(files, run.lost) :
                                              b.file \notin run.lost /\ Members[b.file] = {}}}, sel)

\* What the rules read on a page nobody could read.
Unseen(of) ==
  [code \in DOMAIN of |->
     [of[code] EXCEPT !.kind = "none", !.value = NoValue, !.second = NoValue, !.crops = {}]]
ReadBy(code, f) == readings[f][code]

HeadPage(d, blind) ==
  LET says == Says[d.file]
      unread == d.file \in blind IN
  [doc |-> d, discipline |-> says.discipline, sound |-> TRUE,
   readings |-> IF unread THEN Unseen(readings[d.file]) ELSE readings[d.file],
   table |-> IF unread THEN Unparsed ELSE says.table,
   sheets |-> IF unread THEN {} ELSE says.sheets,
   phrases |-> IF unread THEN {} ELSE says.phrases,
   texts |-> IF unread THEN {} ELSE says.texts]

\* _stages_from_heads
Pages(pool, sel, run) ==
  {HeadPage(d, run.blind) : d \in UNION {StageHeads(pool, s, sel) : s \in DocStage}}

\* run_process_pipeline
CardsOf(pages, present, pool, sel) ==
  (UNION {EvaluateRule(rule, pages, present, pool, sel) : rule \in Matrix})
  \cup UNION {EvaluateFreeSearch(rule, pages) : rule \in FreeSearch}
OverPool(files, pool, sel, run) ==
  CardsOf(Pages(pool, sel, run), {Passport[f].stage : f \in FilesOf(files)}, pool, sel)
Cards(files, sel, run) == OverPool(files, Pool(files, sel, run), sel, run)

Raises(cards) == \E c \in cards : c.status = "RAISED"

Unreading ==
  LET files == FilesOf(Expand(attached, {})) IN
  {run \in [lost : SUBSET files, blind : SUBSET (files \cap Raster)] :
     Cardinality(run.lost \cup run.blind) <= MaxUnread}

-----------------------------------------------------------------------------
Readings(f) ==
  [code \in {rule.code : rule \in Matrix} |->
     ReadingOf(CHOOSE rule \in Matrix : rule.code = code, Says[f], Rows[f], Crops[f])]

Init ==
  /\ attached = {} /\ selected = {} /\ state = "NONE"
  /\ scheduled = FALSE /\ last = NoRun
  /\ readings = [f \in File |-> Readings(f)]

\* _attach_new_files
Link(files, new, prior) ==
  {[a EXCEPT !.succ = IF a.file = prior THEN CHOOSE f \in new : TRUE ELSE @] : a \in files}
  \cup {[Unlinked(f) EXCEPT !.pred = prior] : f \in new}

\* supersedes_file_id goes with one accepted file and names a file of the process
\* and of the stage that nothing replaced yet.
MayReplace(request, prior) ==
  \/ prior = NoFile
  \/ /\ Cardinality(request.accepted) = 1
     /\ \E a \in attached : a.file = prior /\ a.succ = NoFile
     /\ Passport[prior].stage = request.stage

\* The requests of one stage, by what they get accepted.
AcceptedFrom(batch) ==
  {p.content : p \in Decision([i \in DOMAIN batch |-> ParcelOf[batch[i]]]).accepted}
Batches(stage) ==
  {batch \in UNION {[1..n -> Content] : n \in 1..MaxBatch} :
     \A i \in DOMAIN batch : Passport[batch[i]].stage = stage}
Requests ==
  UNION {{[stage |-> s, accepted |-> AcceptedFrom(batch)] : batch \in Batches(s)} : s \in DocStage}

\* _upload_documents; what the process has already is not attached again.
Upload(request, prior) ==
  LET new == request.accepted \ Files IN
  /\ new # {} /\ Cardinality(Files \cap Content) + Cardinality(new) <= MaxFiles
  /\ MayReplace(request, prior)
  /\ attached' = Link(attached, new, prior)
  /\ state' = "PARSING" /\ scheduled' = TRUE /\ last' = NoRun
  /\ UNCHANGED <<selected, readings>>

Outcome(sel, run) ==
  [lost |-> run.lost, blind |-> run.blind, selected |-> sel, cards |-> Cards(attached, sel, run)]

\* run_matrix_pipeline by the worker: one rule that raises fails the run, and
\* the process stays in PARSING without the members of its archives.
RunEnds(outcome) ==
  IF Raises(outcome.cards) THEN UNCHANGED <<attached, state, last>>
  ELSE /\ attached' = Expand(attached, outcome.lost)
       /\ state' = "READY" /\ last' = outcome
Run(run) ==
  /\ scheduled /\ state = "PARSING"
  /\ scheduled' = FALSE
  /\ RunEnds(Outcome(selected, run))
  /\ UNCHANGED <<selected, readings>>

\* select_revision: the stamp is read anew and without OCR, and is UNKNOWN where
\* it cannot be read; the choice stays also where the run it starts raises.
Stamps(f) == {Passport[f].approval, "UNKNOWN"}
MayBeEtalon(f) == \E stamp \in Stamps(f) : stamp # "NOT_APPROVED"
ChoiceEnds(outcome) == IF Raises(outcome.cards) THEN UNCHANGED last ELSE last' = outcome
Select(f, run) ==
  /\ state = "READY"
  /\ f \notin selected /\ Cardinality(selected) < MaxChoices
  /\ MayBeEtalon(f)
  /\ selected' = selected \cup {f}
  /\ ChoiceEnds(Outcome(selected \cup {f}, run))
  /\ UNCHANGED <<attached, state, scheduled, readings>>

Next ==
  \/ \E request \in Requests, prior \in Files \cup {NoFile} : Upload(request, prior)
  \/ \E run \in Unreading : Run(run)
  \/ \E f \in Files, run \in Unreading : Select(f, run)

Spec == Init /\ [][Next]_vars

-----------------------------------------------------------------------------
(* Correctness.                                                            *)

LastPool == Pool(attached, last.selected, last)
LastHeads == UNION {StageHeads(LastPool, s, last.selected) : s \in DocStage}

\* Links are mutual and join files of one stage; the pool and the cards of a run
\* have their shape (AcceptedFile, DocumentRef, Finding).
TypeOK ==
  /\ attached \in SUBSET [file : File, pred : File \cup {NoFile}, succ : File \cup {NoFile}]
  /\ \A a, b \in attached : a.file = b.file => a = b
  /\ \A a, b \in attached : a.succ = b.file <=> b.pred = a.file
  /\ \A a \in attached : {a.pred, a.succ} \subseteq Files \cup {NoFile}
  /\ selected \subseteq Files
  /\ state \in {"NONE", "PARSING", "READY"} /\ scheduled \in BOOLEAN
  /\ last # NoRun => /\ last.lost \cup last.blind \subseteq File
                     /\ last.selected \subseteq selected
                     /\ LastPool \subseteq DocumentRef

\* What a run compares is, as far as the run could read, the last revision of its
\* document, or the one the inspector chose; never one that is not approved; and
\* an unstamped design only where no other revision of it is approved
\* (resolve_revision, ADR-0003: an obsolete revision is no etalon).
EtalonIsLast ==
  last # NoRun =>
    \A h \in LastHeads : \E g \in LastPool :
      /\ g.file = h.file
      /\ h.file \in last.blind \/ Passport[h.file].approval # "NOT_APPROVED"
      /\ h.file \notin last.selected => \A d \in LastPool : ~Replaces(d, g)
      /\ h.stage = "PD" /\ h.approval # "APPROVED" =>
           /\ SoleHead /\ h.basis = "SOLE_HEAD"
           /\ h.key # Blank =>
                \A d \in LastPool : d.stage = "PD" /\ d.key = h.key => d.approval # "APPROVED"

\* A verdict on a value names a page of the design and a page of the working
\* documentation that the run compared, that it could read and that its second
\* reading agrees with, and two different values where it accuses of a difference (ne, lt,
\* gt and range can accuse equal ones); a rule whose coverage forbids accusations
\* makes none (evaluate_rule).
VerdictIsGrounded ==
  last # NoRun =>
    \A c \in last.cards :
      c.status \in {"CANDIDATE", "AUTO_NO_DIFFERENCE"} /\ c.room = NoRoom =>
        \E rule \in Matrix, p, r \in LastHeads :
          /\ rule.code = c.rule /\ c.pd = p.file /\ c.rd = r.file
          /\ p.stage = "PD" /\ r.stage = "RD" /\ p.file # r.file
          /\ {p.file, r.file} \cap last.blind = {}
          /\ rule.kind \notin {"element_table", "multi_field"} =>
               \A f \in {p.file, r.file} :
                 LET reading == ReadBy(c.rule, f) IN
                 reading.kind = "hit" /\ reading.value = reading.second
          /\ c.status = "CANDIDATE" =>
               /\ rule.coverage \notin NonCandidateCoverage
               /\ rule.operator \notin {"ne", "lt", "gt", "range"} => c.expected # c.actual

\* A token is in brackets when it opens one, or when more were opened before it
\* than were closed, counted from the start of the row or from any later token.
Balance(ts) ==
  LET balance[k \in 0..Len(ts)] ==
        IF k = 0 THEN 0 ELSE balance[k - 1] + ts[k].opens - ts[k].closes
  IN balance
InBrackets(ts, k) ==
  LET balance == Balance(ts) IN
  ts[k].opens > 0 \/ \E j \in 0..(k - 1) : balance[k - 1] > balance[j]
CellsOf(row, rule) == {r \in NumbersIn(row, rule) : ~InBrackets(row, r.at)}
RightOf(ts, span, rule) == CellsOf(RowAfter(ts, span), rule)
LeftOf(ts, span, rule) == CellsOf(RowBefore(ts, span), rule)

\* The first and the last cell to the right say it, or else the nearest to the left.
IsACell(value, ts, rule) ==
  LET spans == AnchorSpans(ts, rule) IN
  \/ \A span \in spans : RightOf(ts, span, rule) \cup LeftOf(ts, span, rule) = {}
  \/ \E span \in spans :
       LET right == RightOf(ts, span, rule)
           left == LeftOf(ts, span, rule) IN
       \/ right # {} /\ value = Leftmost(right).value /\ value = Rightmost(right).value
       \/ right = {} /\ left # {} /\ value = Rightmost(left).value

NoCells ==
  [code \in {rule.code : rule \in {r \in Matrix : r.kind = "number"}} |->
     {f \in File : LET rule == CHOOSE r \in Matrix : r.code = code IN
                  ~IsACell(ExtractNumber(Rows[f], rule).value, Rows[f], rule)}]

\* A rule compares the number of a cell beside its label: a note in brackets, or
\* a number of another row, only where no label of the rule has a cell
\* (_candidate_from_span, extract_number).
NumberIsACell ==
  last # NoRun =>
    \A c \in last.cards :
      /\ c.status \in {"CANDIDATE", "AUTO_NO_DIFFERENCE"} /\ c.room = NoRoom
      /\ c.rule \in DOMAIN NoCells
      => {c.pd, c.rd} \cap NoCells[c.rule] = {}

\* A rule says at most one thing about a room, however many volumes and sheets
\* show it (collapse_room_diffs).
OneVerdictPerRoom ==
  last # NoRun =>
    \A c, d \in last.cards : c.rule = d.rule /\ c.room = d.room /\ c.room # NoRoom => c = d

\* The documents an upload or a choice of f is about: its identity, its volume,
\* what it is linked with, before or after.
Concerned(f, group) ==
  \E d \in group, g \in {f} \cup Members[f] :
    \/ d.file = g \/ g \in {d.pred, d.succ}
    \/ d.stage = Passport[g].stage /\ (\/ d.key = Passport[g].key /\ d.key # Blank
                                       \/ d.volume = Passport[g].volume /\ d.volume # Blank)
Chains(files, sel) ==
  LET pool == Pool(files, sel, [lost |-> {}, blind |-> {}]) IN
  UNION {ResolveHeadsByIdentity(pool, s, sel) : s \in DocStage}
ChainsApart(chains, moved) ==
  {[group |-> {d.file : d \in i.group}, status |-> i.resolution.status,
    head |-> {d.file : d \in i.resolution.doc}] :
     i \in {j \in chains : \A f \in moved : ~Concerned(f, j.group)}}

\* An upload, or a choice of an etalon, moves the chain it belongs to and no
\* other (resolve_heads_by_identity).
OthersUnmoved ==
  [][LET new == (Files' \ Files) \cup (selected' \ selected)
         moved == new \cup ({a.pred : a \in {b \in attached' : b.file \in new}} \ {NoFile}) IN
     new # {} => ChainsApart(Chains(attached, selected), moved) \subseteq
                 ChainsApart(Chains(attached', selected'), {})]_vars

=============================================================================
