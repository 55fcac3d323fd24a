----------------------------- MODULE Passports -----------------------------
(***************************************************************************)
(* What a document says it is (application/passport.py): cipher, revision, *)
(* sheet, stage and approval from the title block of its pages, a second   *)
(* opinion on the cipher, and what its name and the index of the package   *)
(* add.  Pure operators over the words of OcrPage.                         *)
(***************************************************************************)
EXTENDS OcrPage

CONSTANTS File, MaxApprovalGap   \* columns between a label and its person

ASSUME PassportAssumption ==
  /\ Blank \notin File /\ File \cap Value = {} /\ MaxApprovalGap \in Nat

Stage == {"PD", "RD", "ID"}

\* The order in which the words are read: by page, then from top to bottom, then
\* from left to right (reading_key), then as they come.
Height == [top |-> 0, left |-> 1, right |-> 1, bottom |-> 2]
ReadingKey(p, i, word) == <<p, Height[word.edge], word.row, word.column, i>>

\* flatten_tokens, and the words of one engine in the order it gives them.
Flatten(pages) ==
  UNION {{[page |-> p, word |-> pages[p][i], key |-> ReadingKey(p, i, pages[p][i])] :
            i \in DOMAIN pages[p]} : p \in DOMAIN pages}
AsTheyCome(words) ==
  {[page |-> 1, word |-> words[i], key |-> <<i>>] : i \in DOMAIN words}

\* What a pattern finds first in the text _join makes of tokens.
Precedes(a, b) ==
  \E n \in DOMAIN a : a[n] < b[n] /\ \A m \in 1..(n - 1) : a[m] = b[m]
FirstOf(tokens) == CHOOSE t \in tokens : \A u \in tokens : ~Precedes(u.key, t.key)

Says(tokens, kinds) == {t \in tokens : t.word.kind \in kinds}
FirstValue(tokens, kinds) ==
  LET said == Says(tokens, kinds) IN IF said = {} THEN Blank ELSE FirstOf(said).word.value

-----------------------------------------------------------------------------
(* The title block.                                                        *)

\* _stamp_tokens: the bottom of the first page, what there is of that page if its
\* bottom is empty, and what there is at all if the first page is empty.
Low(token) == token.word.edge = "bottom"
StampTokens(tokens) ==
  LET first == {t \in tokens : t.page = 1}
      pool == IF first # {} THEN first ELSE tokens
      bottom == {t \in pool : Low(t)}
  IN IF bottom # {} THEN bottom ELSE pool

\* _designation: the most frequent one, or none if there is a tie.
Count(tokens, v) == Cardinality({t \in tokens : t.word.value = v})
OnlyOne(values) == IF Cardinality(values) = 1 THEN CHOOSE v \in values : TRUE ELSE Blank
Designation(tokens) ==
  LET said == Says(tokens, {"designation"})
      values == {t.word.value : t \in said}
  IN OnlyOne({v \in values : \A u \in values : Count(said, v) >= Count(said, u)})

\* cipher_from_text: one with a label, else one without, else a designation.
CipherFromText(tokens) ==
  IF Says(tokens, {"cipher"}) # {} THEN FirstValue(tokens, {"cipher"})
  ELSE IF Says(tokens, {"bare"}) # {} THEN FirstValue(tokens, {"bare"})
  ELSE Designation(tokens)

\* cipher_reads_agree, for the stamp and the second opinions there are.
CipherReadsAgree(code, alternates) == Cardinality(({code} \cup alternates) \ {Blank}) <= 1

RevisionMark(tokens) ==
  LET said == Says(tokens, {"change", "correction"}) IN
  IF said = {} THEN [number |-> Blank, kind |-> ""]
  ELSE [number |-> FirstOf(said).word.value, kind |-> FirstOf(said).word.kind]

\* A stage with its label goes before a stage without.
StageFromText(tokens) ==
  IF Says(tokens, {"stage"}) # {} THEN FirstValue(tokens, {"stage"}) ELSE FirstValue(tokens, {"stageMark"})

\* _title_block_approval: a label with a person in its own cell, or on its row,
\* not left of it and not far; the first page that says something decides.
OnItsRow(label, other) ==
  /\ other.row = label.row
  /\ other.column > label.column /\ other.column - label.column <= MaxApprovalGap
SignedIn(tokens) ==
  \E label \in Says(tokens, {"approves"}) :
    \/ label.word.value # Blank
    \/ \E other \in Says(tokens, {"person"}) : OnItsRow(label.word, other.word)
PageApproval(tokens) ==
  IF Says(tokens, {"draft"}) # {} THEN "NOT_APPROVED"
  ELSE IF SignedIn(tokens) THEN "APPROVED" ELSE "UNKNOWN"
TitleBlockApproval(tokens) ==
  LET low == {t \in tokens : Low(t)}
      On(p) == {t \in low : t.page = p}
      decided == {p \in {t.page : t \in low} : PageApproval(On(p)) # "UNKNOWN"}
  IN IF decided = {} THEN "UNKNOWN"
     ELSE PageApproval(On(CHOOSE p \in decided : \A q \in decided : p <= q))

Approval(tokens, stamp) ==
  IF Says(stamp, {"draft"}) # {} THEN "NOT_APPROVED" ELSE TitleBlockApproval(tokens)

-----------------------------------------------------------------------------
(* The name of the file: the ciphers and marks of sections found in it, its *)
(* stem, and a stage.                                                       *)

CipherFromFilename(name) == OnlyOne(name.ciphers)
SectionMarkFromFilename(name) == OnlyOne(name.sections)

\* Whose cipher is the key of the document: the stamp's, else the name's.
IdentityOf(code, name) ==
  CASE code # Blank -> [key |-> code, basis |-> "STAMP"]
    [] code = Blank /\ CipherFromFilename(name) # Blank ->
         [key |-> CipherFromFilename(name), basis |-> "FILENAME"]
    [] code = Blank /\ CipherFromFilename(name) = Blank /\ SectionMarkFromFilename(name) # Blank ->
         [key |-> name.stem, basis |-> "FILENAME"]
    [] OTHER -> [key |-> Blank, basis |-> "NONE"]

Conflict(a, b) == a # Blank /\ b # Blank /\ a # b

\* read_passport; alternates are the ciphers of the second opinions.
ReadPassport(tokens, name, alternates) ==
  LET stamp == StampTokens(tokens)
      read == CipherFromText(stamp)
      code == IF CipherReadsAgree(read, alternates) THEN read ELSE Blank
      mark == RevisionMark(stamp)
      stage == StageFromText(stamp)
      identity == IdentityOf(code, name)
      approval == Approval(tokens, stamp)
  IN [code |-> code, key |-> identity.key, basis |-> identity.basis,
      revision |-> mark.number, revisionKind |-> mark.kind,
      sheet |-> FirstValue(stamp, {"sheet"}),
      stage |-> IF Conflict(stage, name.stage) THEN Blank
                ELSE IF stage = Blank THEN name.stage ELSE stage,
      approval |-> approval,
      approvalBasis |-> IF approval = "UNKNOWN" THEN "UNPROVEN" ELSE "TITLE_BLOCK",
      discipline |-> IF code = Blank THEN SectionMarkFromFilename(name) ELSE Blank,
      needs |-> \/ ~CipherReadsAgree(read, alternates)
                \/ Conflict(stage, name.stage)
                \/ tokens # {} /\ code = Blank
                \/ Conflict(code, CipherFromFilename(name))]

\* apply_manifest_section: the index adds a section and, where nothing else names
\* the document, a key of its own; it contradicts nothing that is there.
Marks(entry) == ({entry.section} \cup entry.path) \ {Blank}
ApplyManifestSection(passport, entry, f) ==
  IF Marks(entry) = {} \/ Marks(entry) = {passport.discipline} THEN passport
  ELSE IF Cardinality(Marks(entry)) > 1 \/ passport.discipline # Blank
  THEN [passport EXCEPT !.needs = TRUE]
  ELSE [passport EXCEPT !.discipline = OnlyOne(Marks(entry)),
                        !.key = IF @ = Blank THEN f ELSE @,
                        !.basis = IF passport.key = Blank THEN "MANIFEST_PATH" ELSE @]

Passport ==
  [code : Value \cup {Blank}, key : Value \cup File \cup {Blank},
   basis : {"STAMP", "FILENAME", "MANIFEST_PATH", "NONE"},
   revision : Value \cup {Blank}, revisionKind : {"", "change", "correction"},
   sheet : Value \cup {Blank}, stage : Value \cup {Blank},
   approval : {"APPROVED", "NOT_APPROVED", "UNKNOWN"}, approvalBasis : {"TITLE_BLOCK", "UNPROVEN"},
   discipline : Value \cup {Blank}, needs : BOOLEAN]

=============================================================================
