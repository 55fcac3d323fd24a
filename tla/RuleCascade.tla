---------------------------- MODULE RuleCascade ----------------------------
(***************************************************************************)
(* One rule of the matrix on the pages of a run: the cascade L1-L7 of      *)
(* application/evaluate.py over application/pipeline.py, with the pool of  *)
(* revisions a process always passes.  The first gate that fails closes    *)
(* the rule with its status; only what passes every gate is compared.      *)
(*                                                                         *)
(* A page is the head document of a stage and what it says to the rule:    *)
(*   discipline  the marks of its section where the cipher is blank        *)
(*   sound       file id, hash and page numbers are in order               *)
(*   readings    for each rule the value next to its anchor, read twice    *)
(*   table       marks and values, or Unparsed                             *)
(*   sheets      its drawings (Rooms)                                      *)
(*   phrases, texts  what it promises for rooms, and what its sheets say    *)
(*               of them (Provisions)                                      *)
(* Every rule of data/matrix/rules maps its failures to the same statuses; *)
(* they are written out here.                                              *)
(* Definitions named Faulty... are bugs that could be introduced there; no *)
(* specification uses them.                                                *)
(***************************************************************************)
EXTENDS Revisions, Numbers, Rooms, Provisions

CONSTANTS
  KindTokens,  \* [Key -> marks of sections in cipher and discipline]
  Cipher,      \* [Key -> cipher]: sheets and disciplines of one cipher differ
  Unparsed,    \* no table or fields could be read
  NoRooms      \* the rule compares no rooms

ASSUME RuleCascadeAssumption ==
  /\ DOMAIN KindTokens = Key /\ DOMAIN Cipher = Key

TextKinds == {"enum", "text_regex", "exact_field", "presence"}
ExtractorTypes ==
  TextKinds \cup {"number", "geometry", "contour_area", "element_table", "multi_field", "room_compare"}
NonCandidateCoverage == {"advisory", "source_missing", "not_applicable"}

ValidOperators(kind) ==
  CASE kind = "exact_field" -> ExactFieldOperators
    [] kind \in TextKinds \ {"exact_field"} -> TextOperators
    [] OTHER -> NumericOperators

Required(rule) == {rule.required[i] : i \in DOMAIN rule.required}

-----------------------------------------------------------------------------
(* The pages of the rule.                                                  *)

PageKindTokens(p) ==
  IF p.doc.key = Blank THEN p.discipline ELSE KindTokens[p.doc.key]
PageCipher(p) == IF p.doc.key = Blank THEN Blank ELSE Cipher[p.doc.key]
Volumes(pages, s) == {p \in pages : p.doc.stage = s}

\* bind_stage_page: one head serves every rule, of several only those of the
\* section of the rule, unless two of them have one cipher.
Matching(rule, s, volumes) == {p \in volumes : PageKindTokens(p) \cap rule.wanted[s] # {}}
BoundVolumes(rule, pages, s) ==
  LET volumes == Volumes(pages, s) IN
  IF s \in Required(rule)
  THEN IF Cardinality(volumes) = 1 THEN volumes ELSE Matching(rule, s, volumes)
  ELSE IF Cardinality(volumes) = 1 THEN volumes ELSE {}
BindConflict(rule, pages, s) ==
  LET matched == Matching(rule, s, Volumes(pages, s)) IN
  /\ Cardinality(Volumes(pages, s)) > 1
  /\ \/ matched = {}
     \/ Cardinality(matched) > 1 /\ Cardinality({PageCipher(p) : p \in matched}) = 1

\* Every chain of the section of the rule is unresolved.
OfSection(rule, s, chains) ==
  {i \in chains : \E d \in i.group : d.key # Blank /\ KindTokens[d.key] \cap rule.wanted[s] # {}}
NoneResolved(chains) == chains # {} /\ \A i \in chains : i.resolution.status # "RESOLVED"
SectionUnresolved(rule, pool, s, selected) ==
  NoneResolved(OfSection(rule, s, ResolveHeadsByIdentity(pool, s, selected)))

\* The pages of a stage are resolved again, each on its own chain.
Resolutions(pool, s, volumes, selected) ==
  IF volumes = {} THEN {[anchor |-> NoFile, of |-> ResolveRevision(pool, s, {}, selected)]}
  ELSE {[anchor |-> p.doc.file, of |-> ResolveRevision(pool, s, {p.doc}, selected)] : p \in volumes}
NotLastRevision(r) ==
  \/ r.of.status \in {"CONFLICT", "CLARIFICATION_REQUIRED"}
  \/ r.of.status = "RESOLVED" /\ r.anchor # NoFile /\ \A d \in r.of.doc : d.file # r.anchor

-----------------------------------------------------------------------------
(* Gates.                                                                  *)

\* also: what a failure brings along besides its card.
Gate(fails, layer, status, also) ==
  [fails |-> fails, layer |-> layer, status |-> status, also |-> also]

\* Gates stand in lists, one stage after another; the first that fails is the one
\* that counts.
Places(lists) == UNION {{<<i, j>> : j \in DOMAIN lists[i]} : i \in DOMAIN lists}
NotAfter(p, q) == p[1] < q[1] \/ (p[1] = q[1] /\ p[2] <= q[2])
Failed(lists) ==
  LET failing == {p \in Places(lists) : lists[p[1]][p[2]].fails}
      first == CHOOSE p \in failing : \A q \in failing : NotAfter(p, q) IN
  IF failing = {} THEN <<>> ELSE <<lists[first[1]][first[2]]>>

ShapeGates(rule) ==
  <<Gate(rule.kind \notin ExtractorTypes, "L6", "CLARIFICATION_REQUIRED", "nothing"),
    Gate(rule.operator \notin ValidOperators(rule.kind), "L6", "CLARIFICATION_REQUIRED", "nothing")>>

CompletenessGate(present, s) ==
  <<Gate(s \notin present, "L2", "MISSING_EVIDENCE", "nothing")>>

SectionGate(rule, pool, s, selected) ==
  <<Gate(SectionUnresolved(rule, pool, s, selected), "L4", "CLARIFICATION_REQUIRED", "nothing")>>

RevisionGates(resolutions) ==
  <<Gate(\E r \in resolutions : r.of.status = "MISSING_EVIDENCE", "L4", "MISSING_EVIDENCE", "nothing"),
    Gate(\E r \in resolutions : NotLastRevision(r), "L4", "CLARIFICATION_REQUIRED", "nothing")>>

\* The gates every kind of rule passes before it reads a value.
CommonGates(rule, pages, present, pool, selected) ==
  LET stage == rule.required
      bound == UNION {BoundVolumes(rule, pages, s) : s \in DocStage} IN
  <<ShapeGates(rule)>>
  \o [i \in DOMAIN stage |-> CompletenessGate(present, stage[i])]
  \o [i \in DOMAIN stage |-> SectionGate(rule, pool, stage[i], selected)]
  \o <<<<Gate(\E s \in Required(rule) : BindConflict(rule, pages, s),
              "L4", "CLARIFICATION_REQUIRED", "nothing"),
         Gate(\E p \in bound : ~p.sound, "L1", "CLARIFICATION_REQUIRED", "nothing")>>>>
  \o [i \in DOMAIN stage |-> RevisionGates(
         Resolutions(pool, stage[i], BoundVolumes(rule, pages, stage[i]), selected))]

\* The reading of a number comes from the tokens of the page and those the
\* engines find on the crop of the value; what other extractors read is given.
NumberRead(given, hit, crops) ==
  [given EXCEPT !.kind = hit.kind, !.value = hit.value, !.second = hit.second, !.crops = crops]
ReadingOf(rule, says, tokens, crops) ==
  IF rule.kind # "number" THEN says.reading
  ELSE NumberRead(says.reading, ExtractNumber(tokens, rule),
                  UNION {CropNumber(crop, rule) : crop \in crops})
Reading(rule, p) == p.readings[rule.code]

\* geometry_after_printed_miss and the detail of the geometric extractors.
MeasurementRequired(rule, p) ==
  \/ rule.kind = "number" /\ rule.family = "graphic"
  \/ rule.kind = "number" /\ rule.family = "printed" /\ Reading(rule, p).kind = "none"
  \/ rule.kind \in {"geometry", "contour_area"} /\ Reading(rule, p).kind = "measure"

HasExtractedValue(rule, p) ==
  IF rule.kind \in {"element_table", "multi_field"} THEN p.table # Unparsed
  ELSE Reading(rule, p).kind = "hit"

\* _narrow_volumes: of several volumes the one that has a value.
Found(rule, volumes) == {p \in volumes : HasExtractedValue(rule, p)}
Narrowed(rule, volumes) == IF Cardinality(volumes) > 1 THEN Found(rule, volumes) ELSE volumes
VolumeGates(rule, volumes, also) ==
  <<Gate(Cardinality(volumes) > 1 /\ Cardinality(Found(rule, volumes)) > 1,
         "L4", "CLARIFICATION_REQUIRED", "nothing"),
    Gate(Cardinality(volumes) > 1 /\ Found(rule, volumes) = {}, "L2", "LOW_QUALITY", also),
    Gate(volumes = {}, "L2", "MISSING_EVIDENCE", "nothing")>>

FaultyReadingGates(rule, volumes) ==   \* the second reading is not looked at
  <<Gate(Cardinality(volumes) > 1, "L4", "CLARIFICATION_REQUIRED", "nothing"),
    Gate(volumes = {}, "L2", "MISSING_EVIDENCE", "nothing"),
    Gate(\E p \in volumes : Reading(rule, p).kind # "hit", "L2", "LOW_QUALITY", "nothing")>>
\* _ocr_region_agrees: the numbers the engines read on the crop of the value, if
\* they ran and read one, all equal the value.
CropsDisagree(reading) == reading.crops \ {reading.value} # {}

\* The reading of one stage of a text or a numeric rule.
ReadingGates(rule, volumes) ==
  LET numeric == rule.kind \notin TextKinds
      rooms == IF numeric THEN "rooms" ELSE "nothing"
      page == Narrowed(rule, volumes)
      read == {Reading(rule, p) : p \in page} IN
  VolumeGates(rule, volumes, rooms) \o
  <<Gate(numeric /\ \E p \in page : MeasurementRequired(rule, p), "L2", "NOT_COMPARABLE", "nothing"),
    Gate(\E r \in read : r.kind # "hit", "L2", "LOW_QUALITY", rooms),
    Gate(\E r \in read : r.stamped, "L2", "LOW_QUALITY", "nothing"),
    Gate(rule.dual /\ \E r \in read : r.value # r.second, "L2", "ABSTAIN",
         IF numeric THEN "reads" ELSE "nothing"),
    Gate(numeric /\ rule.kind # "geometry" /\ rule.dual /\ \E r \in read : CropsDisagree(r),
         "L2", "ABSTAIN", "nothing"),
    Gate(\E r \in read : ~r.grounded \/ r.value # r.second, "L2", "LOW_QUALITY", "nothing"),
    Gate(\E r \in read : ~r.localized, "L3", "LOW_QUALITY", "nothing")>>

\* A table is narrowed to the volume that has one, fields are not.
ElementTableGates(rule, volumes) ==
  VolumeGates(rule, volumes, "nothing") \o
  <<Gate(\E p \in Narrowed(rule, volumes) : p.table = Unparsed, "L2", "LOW_QUALITY", "nothing")>>
MultiFieldGates(volumes) ==
  <<Gate(volumes = {}, "L2", "MISSING_EVIDENCE", "nothing"),
    Gate(Cardinality(volumes) > 1, "L2", "LOW_QUALITY", "nothing"),
    Gate(\E p \in volumes : p.table = Unparsed, "L2", "LOW_QUALITY", "nothing")>>

OneFile(pd, rd) == \E p \in pd, r \in rd : p.doc.file = r.doc.file
PairGates(rule, pd, rd) ==
  <<Gate(OneFile(pd, rd), "L5", "NOT_COMPARABLE", "nothing"),
    Gate(~({"PD", "RD"} \subseteq Required(rule)), "L5", "NOT_COMPARABLE", "nothing")>>

-----------------------------------------------------------------------------
(* Cards.                                                                  *)

Card(rule, layer, status, pd, rd, room, expected, actual) ==
  [rule |-> rule.code, layer |-> layer, status |-> status, pd |-> pd, rd |-> rd,
   room |-> room, expected |-> expected, actual |-> actual]
HaltedCard(rule, layer, status) ==
  Card(rule, layer, status, NoFile, NoFile, NoRoom, NoValue, NoValue)

\* _downgrade_for_coverage
DowngradeForCoverage(rule, status) ==
  IF status = "CANDIDATE" /\ rule.coverage \in NonCandidateCoverage THEN "LOW_QUALITY" ELSE status

FindingFromComparison(rule, c, pd, rd) ==
  Card(rule, "L7", DowngradeForCoverage(rule, c.status), pd, rd, NoRoom, c.expected, c.actual)

\* _dual_read_suspicion: next to the refusal, on the page whose readings differ.
DualReadSuspicion(rule, volumes) ==
  {Card(rule, "L7", "SUSPICION", p.doc.file, p.doc.file, NoRoom, Reading(rule, p).value, Reading(rule, p).second) :
     p \in {q \in volumes : Reading(rule, q).value # Reading(rule, q).second}}

\* _room_evaluation: a verdict on a room of one stage has no pair.
StatusOfDiff(kind) ==
  CASE kind = "candidate" -> "CANDIDATE" [] kind = "suspicion" -> "SUSPICION"
    [] kind = "match" -> "AUTO_NO_DIFFERENCE"
RoomEvaluation(rule, d) ==
  IF d.kind = "abstain" \/ NoSpot \in {d.pd, d.rd} THEN HaltedCard(rule, "L5", "ABSTAIN")
  ELSE Card(rule, "L7", StatusOfDiff(d.kind), d.pd.file, d.rd.file, d.room, NoValue, NoValue)

Sheets(p) == {[file |-> p.doc.file, page |-> s.page, labels |-> s.labels, features |-> s.features] :
                s \in p.sheets}
RoomsOf(rule, pd, rd) ==
  RoomDiffs({Sheets(p) : p \in pd}, {Sheets(p) : p \in rd}, rule.rooms)

RoomRule(rule, pd, rd, diffs) ==
  CASE rule.rooms = NoRooms -> {HaltedCard(rule, "L6", "CLARIFICATION_REQUIRED")}
    [] rule.rooms # NoRooms /\ {} \in {pd, rd} -> {HaltedCard(rule, "L4", "CLARIFICATION_REQUIRED")}
    [] OTHER -> IF diffs = {} THEN {HaltedCard(rule, "L2", "LOW_QUALITY")}
                ELSE {RoomEvaluation(rule, d) : d \in diffs}

\* _room_pass_findings: only differences; a refusal does not replace the number.
RoomPass(rule, pd, rd, diffs) ==
  IF ~rule.roomPass \/ rule.rooms = NoRooms \/ {} \in {pd, rd} THEN {}
  ELSE {RoomEvaluation(rule, d) : d \in {e \in diffs : e.kind \in {"candidate", "suspicion"}}}

-----------------------------------------------------------------------------
(* evaluate_rule and evaluate_free_search: sets of cards.                  *)

\* Tables and fields that cannot be aligned are not compared.
ComparedTables(rule, p, r) ==
  IF Aligned(p.table, r.table)
  THEN FindingFromComparison(rule, AlignTables(p.table, r.table, rule), p.doc.file, r.doc.file)
  ELSE HaltedCard(rule, "L2", "LOW_QUALITY")
ComparedPair(rule, pd, rd) ==
  LET p == CHOOSE x \in pd : TRUE
      r == CHOOSE x \in rd : TRUE IN
  IF rule.kind \in {"element_table", "multi_field"} THEN ComparedTables(rule, p, r)
  ELSE FindingFromComparison(rule, CompareValues(Reading(rule, p).value, Reading(rule, r).value, rule),
                             p.doc.file, r.doc.file)

\* The gates of the readings of each stage, then those of the pair.
StageGates(rule, volumes) ==
  CASE rule.kind = "element_table" -> ElementTableGates(rule, volumes)
    [] rule.kind = "multi_field" -> MultiFieldGates(volumes)
    [] OTHER -> ReadingGates(rule, volumes)
PairedGates(rule, volumes) ==
  [i \in DOMAIN rule.required |-> StageGates(rule, volumes[rule.required[i]])]
  \o <<PairGates(rule, Narrowed(rule, volumes["PD"]), Narrowed(rule, volumes["RD"]))>>

\* What a failure of a reading brings along: the rooms, or the two readings of
\* the first stage that differ.
Disagreeing(rule, volumes) ==
  \E p \in volumes : Reading(rule, p).value # Reading(rule, p).second
Also(rule, what, pd, rd, diffs) ==
  CASE what = "rooms" -> RoomPass(rule, pd, rd, diffs)
    [] what = "reads" -> DualReadSuspicion(rule, IF Disagreeing(rule, Narrowed(rule, pd))
                                                 THEN Narrowed(rule, pd) ELSE Narrowed(rule, rd))
    [] OTHER -> {}

\* The cards of a rule that passed the common gates.
ReadCards(rule, pd, rd, diffs, failed) ==
  IF failed # <<>>
  THEN {HaltedCard(rule, failed[1].layer, failed[1].status)} \cup Also(rule, failed[1].also, pd, rd, diffs)
  ELSE {ComparedPair(rule, Narrowed(rule, pd), Narrowed(rule, rd))}
       \cup (IF rule.kind \in TextKinds \cup {"element_table", "multi_field"} THEN {}
             ELSE RoomPass(rule, pd, rd, diffs))
RuleCards(rule, volumes, diffs, common) ==
  CASE common # <<>> -> {HaltedCard(rule, common[1].layer, common[1].status)}
    [] common = <<>> /\ rule.kind = "room_compare" ->
         RoomRule(rule, volumes["PD"], volumes["RD"], diffs)
    [] OTHER -> ReadCards(rule, volumes["PD"], volumes["RD"], diffs, Failed(PairedGates(rule, volumes)))
OverVolumes(rule, volumes, common) ==
  RuleCards(rule, volumes, RoomsOf(rule, volumes["PD"], volumes["RD"]), common)
EvaluateRule(rule, pages, present, pool, selected) ==
  OverVolumes(rule, [s \in DocStage |-> BoundVolumes(rule, pages, s)],
              Failed(CommonGates(rule, pages, present, pool, selected)))

\* Outside the matrix: whatever the rooms say is a suspicion.
Suspected(cards) ==
  {[c EXCEPT !.status = "SUSPICION"] :
     c \in {d \in cards : d.pd # NoFile /\ d.status \in {"CANDIDATE", "SUSPICION"}}}
OverRooms(rule, pd, rd) == Suspected(RoomRule(rule, pd, rd, RoomsOf(rule, pd, rd)))

\* _isolate_sheets: every sheet of every volume on its own, with its file.
PhrasesOf(p) ==
  {[file |-> p.doc.file, page |-> q.page, rooms |-> q.rooms, goesOn |-> q.goesOn,
    next |-> q.next, element |-> q.element, words |-> q.words] : q \in p.phrases}
TextsOf(p) ==
  {[file |-> p.doc.file, page |-> t.page, alone |-> t.alone, within |-> t.within,
    words |-> t.words] : t \in p.texts}

\* _provision_evaluations: only differences, each a suspicion with a pair.
ProvisionEvaluation(rule, hit) ==
  Card(rule, "L7", "SUSPICION", hit.phrase.file, hit.sheet.file, hit.room, hit.phrase.element, NoValue)
ProvisionEvaluations(rule, pd, rd) ==
  {ProvisionEvaluation(rule, hit) :
     hit \in ProvisionHits(UNION {PhrasesOf(p) : p \in pd}, UNION {TextsOf(p) : p \in rd})}

\* A room the drawings already accuse is not named again for a phrase.
AndProvisions(rule, kept, extras) ==
  kept \cup {c \in extras : rule.provision /\ c.room \notin {k.room : k \in kept}}
EvaluateFreeSearch(rule, pages) ==
  LET pd == Volumes(pages, "PD") rd == Volumes(pages, "RD") IN
  AndProvisions(rule, OverRooms(rule, pd, rd), ProvisionEvaluations(rule, pd, rd))

=============================================================================
