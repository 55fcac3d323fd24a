---------------------------- MODULE RevisionDiff ----------------------------
(***************************************************************************)
(* What the choice of an etalon adds to the evidence: the values of the    *)
(* revision it replaces, from a second run of the matrix with the earlier  *)
(* revision in its place (application/runtime.py), and the changes between *)
(* the two that the protocol and the screen show                           *)
(* (application/revision_diff.py, presentation/api.py).  Package is the    *)
(* process; a run after an upload adds no earlier revision.                *)
(*                                                                         *)
(* A group of evidence is a card with a pair of files; its fragments are   *)
(* what each of the two says.  Pages, units and grounding are left out.    *)
(* Definitions named Faulty... are bugs that could be introduced there; no *)
(* specification uses them.                                                *)
(***************************************************************************)
EXTENDS Package

Seqs == INSTANCE SequencesExt

Groups(cards) == {c \in cards : c.pd # NoFile}

RuleOf(c) == CHOOSE rule \in Matrix \cup FreeSearch : rule.code = c.rule

\* The fragments of a group: of a room its number, or the element the design
\* promises; of a table the line that decided; of a reading that disagrees with
\* itself both values.  What is compared may be rounded, what is shown is not.
Fragment(file, value) == [file |-> file, value |-> value]
RoomFragments(c) ==
  {Fragment(c.pd, IF c.expected = NoValue THEN <<"room", c.room>> ELSE <<"element", c.expected>>),
   Fragment(c.rd, <<"room", c.room>>)}
TableFragments(c) ==
  LET line == DecidingLine(Says[c.pd].table, Says[c.rd].table, RuleOf(c)) IN
  {Fragment(f, <<"value", Says[f].table[line]>>) : f \in {c.pd, c.rd}}
ValueFragments(c) == {Fragment(f, <<"value", ReadBy(c.rule, f).value>>) : f \in {c.pd, c.rd}}
ReadFragments(c) ==
  {Fragment(c.pd, <<"value", v>>) : v \in {ReadBy(c.rule, c.pd).value, ReadBy(c.rule, c.pd).second}}
Fragments(c) ==
  CASE c.room # NoRoom -> RoomFragments(c)
    [] c.room = NoRoom /\ c.status = "SUSPICION" -> ReadFragments(c)
    [] c.room = NoRoom /\ c.status # "SUSPICION" ->
         IF RuleOf(c).kind \in {"element_table", "multi_field"} THEN TableFragments(c)
         ELSE ValueFragments(c)

-----------------------------------------------------------------------------
(* _with_prior_revisions                                                   *)

\* The chosen files whose predecessor is in the process.
Succeeding(files, sel) == {a \in files : a.file \in sel /\ a.pred \in FilesOf(files)}

\* The second run reads the package without the etalon, and its predecessor as
\* the chosen one that nothing replaced.
ShadowFiles(files, etalon) ==
  {IF b.file = etalon.pred THEN [b EXCEPT !.succ = NoFile] ELSE b :
     b \in {c \in files : c.file # etalon.file}}
ShadowChoice(sel, etalon) == (sel \ {etalon.file}) \cup {etalon.pred}
Shadow(files, sel, etalon, run) ==
  Cards(ShadowFiles(files, etalon), ShadowChoice(sel, etalon), run)

\* Of the groups of one rule that show the predecessor only the first counts: its
\* value comes before its rooms.
Showing(groups, code, file) == {g \in groups : g.rule = code /\ file \in {g.pd, g.rd}}
FirstGroup(groups) ==
  IF \E g \in groups : g.room = NoRoom THEN CHOOSE g \in groups : g.room = NoRoom
  ELSE CHOOSE g \in groups : TRUE
PriorByRule(shadow, code, prior) ==
  LET showing == Showing(shadow, code, prior) IN
  IF showing = {} THEN {}
  ELSE {x \in Fragments(FirstGroup(showing)) : x.file = prior}

\* A group has room for one prior revision: of two etalons of one group the last
\* stays, and the document of the other without its values.
Plain(g) == [of |-> g, docs |-> {g.pd, g.rd}, prior |-> {}]
WithPrior(g, etalon, prior) ==
  IF etalon.file \notin g.docs \/ prior = {} THEN g
  ELSE [g EXCEPT !.docs = @ \cup {etalon.pred}, !.prior = prior]
WithPriorRevisions(groups, etalons, shadow) ==
  LET with[i \in 0..Len(etalons)] ==
        IF i = 0 THEN {Plain(g) : g \in groups}
        ELSE {WithPrior(g, etalons[i], PriorByRule(shadow[i], g.of.rule, etalons[i].pred)) :
                g \in with[i - 1]}
  IN with[Len(etalons)]

\* What a choice leaves as evidence, where the second runs read the files as run says.
Evidence(files, sel, cards, run) ==
  LET etalons == Seqs!SetToSeq(Succeeding(files, sel)) IN
  WithPriorRevisions(Groups(cards), etalons,
                     [i \in DOMAIN etalons |-> Groups(Shadow(files, sel, etalons[i], run))])

-----------------------------------------------------------------------------
(* diff_revisions                                                          *)

FaultyValues(groups, code, file) ==   \* the values of every file of the group
  UNION {{x.value : x \in Fragments(g.of) \cup g.prior} :
           g \in {h \in groups : h.of.rule = code /\ file \in {h.of.pd, h.of.rd}}}
Values(groups, code, file) ==
  UNION {{x.value : x \in {y \in Fragments(g.of) \cup g.prior : y.file = file}} :
           g \in {h \in groups : h.of.rule = code}}

ChangeKind(old, new) ==
  CASE Cardinality(old) > 1 \/ Cardinality(new) > 1 -> "AMBIGUOUS"
    [] Cardinality(new) = 1 /\ old = {} -> "ADDED"
    [] Cardinality(old) = 1 /\ new = {} -> "REMOVED"
    [] Cardinality(old) = 1 /\ Cardinality(new) = 1 /\ old = new -> "UNCHANGED"
    [] OTHER -> "CHANGED"
ParameterChange(code, old, new) ==
  [rule |-> code, kind |-> ChangeKind(old, new), old |-> old, new |-> new]
DiffRevisions(groups, old, new) ==
  {ParameterChange(code, Values(groups, code, old), Values(groups, code, new)) :
     code \in {g.of.rule : g \in {h \in groups :
       Values(groups, h.of.rule, old) \cup Values(groups, h.of.rule, new) # {}}}}

\* documents_in
DocumentsIn(groups) == UNION {g.docs : g \in groups}

\* get_revision_diff: 404, 409 or the changes of a recorded pair.
GetRevisionDiff(files, groups, file) ==
  LET documents == DocumentsIn(groups)
      new == {a \in files : a.file = file} IN
  CASE new = {} -> "NOT_FOUND"
    [] new # {} /\ ~(\E a \in new : {a.file, a.pred} \subseteq documents) -> "CONFLICT"
    [] OTHER -> "OK"

\* revision_changes: the pairs of the protocol, without what did not change.
RevisionChanges(files, groups) ==
  {[old |-> a.pred, new |-> a.file,
    changes |-> {c \in DiffRevisions(groups, a.pred, a.file) : c.kind # "UNCHANGED"}] :
     a \in {b \in files : {b.file, b.pred} \subseteq DocumentsIn(groups)}}

-----------------------------------------------------------------------------
(* Correctness.                                                            *)

OneValue(rule) == rule.kind \notin {"element_table", "multi_field"} /\ ~rule.roomPass
SaysValue(code, file) == {<<"value", ReadBy(code, file).value>>}
CanBeRead(code, file) ==
  /\ Passport[file].approval # "NOT_APPROVED"
  /\ ReadBy(code, file).kind = "hit"
  /\ ReadBy(code, file).value = ReadBy(code, file).second

\* A change of a rule that reads one value is what the two documents say: two
\* different values, or a value where the earlier revision has none to show.
ChangeIsRead(old, new, c, run) ==
  /\ c.new = SaysValue(c.rule, new)
  /\ \/ c.kind = "CHANGED" /\ c.old = SaysValue(c.rule, old) /\ c.old # c.new
     \/ c.kind = "ADDED" /\ ~(CanBeRead(c.rule, old) /\ run.lost \cup run.blind = {})

\* Where both revisions can be read every difference is shown.
DifferencesShown(etalon, groups, changes) ==
  \A g \in groups, rule \in Matrix :
    /\ rule.code = g.of.rule /\ OneValue(rule) /\ etalon.file \in g.docs
    /\ CanBeRead(rule.code, etalon.pred)
    /\ SaysValue(rule.code, etalon.pred) # SaysValue(rule.code, etalon.file)
    => \E pair \in changes : /\ pair.old = etalon.pred /\ pair.new = etalon.file
                            /\ \E c \in pair.changes : c.rule = rule.code

\* What a choice shows as changes between an etalon and the revision it replaces
\* is what the two documents say, however the second run reads the package and
\* whatever else is chosen, as long as no other chosen file has a predecessor;
\* and what the protocol lists the screen can open (_with_prior_revisions,
\* revision_changes, get_revision_diff).
ChangesAreRead ==
  last # NoRun =>
    \A etalon \in Succeeding(attached, last.selected), run \in Unreading :
      Succeeding(attached, last.selected) = {etalon}
        /\ ~Raises(Shadow(attached, last.selected, etalon, run)) =>
      LET groups == Evidence(attached, last.selected, last.cards, run)
          changes == RevisionChanges(attached, groups) IN
      /\ \A pair \in changes : \A c \in pair.changes, rule \in Matrix :
           rule.code = c.rule /\ OneValue(rule) => ChangeIsRead(pair.old, pair.new, c, run)
      /\ \A pair \in changes : GetRevisionDiff(attached, groups, pair.new) = "OK"
      /\ run.lost \cup run.blind = {} => DifferencesShown(etalon, groups, changes)

=============================================================================
