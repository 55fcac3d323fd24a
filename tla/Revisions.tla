----------------------------- MODULE Revisions -----------------------------
(***************************************************************************)
(* Which revision of a document is the etalon of a comparison              *)
(* (application/revision_resolver.py) and which pages of a stage a run     *)
(* compares (application/process_pipeline.py).  Pure operators; Package is *)
(* the process that uses them.                                             *)
(*                                                                         *)
(* A document is what its passport says: key stands for cipher, sheet and  *)
(* discipline, Blank where the cipher was not read; volume is its name     *)
(* without revision marks, Blank for an unnamed file; marks and number are *)
(* what the name says of its revision, title and titleKind what the title  *)
(* block says.  Two documents of a stage have different contents: an       *)
(* upload of the same content is a duplicate and attaches nothing.         *)
(* Definitions named Faulty... are bugs that could be introduced there; no *)
(* specification uses them.                                                *)
(***************************************************************************)
EXTENDS Integers, FiniteSets

CONSTANTS
  File,      \* file ids
  Key,       \* identities: cipher, sheet, discipline
  Volume,    \* names without revision marks
  Blank,     \* no cipher, no name
  NoFile,    \* no predecessor or successor
  Unread,    \* no revision number
  SoleHead   \* KONTUR_ETALON_POLICY is "sole_head", not "strict"

ASSUME RevisionsAssumption ==
  /\ Blank \notin Key \cup Volume /\ NoFile \notin File /\ Unread \notin Nat
  /\ SoleHead \in BOOLEAN /\ IsFiniteSet(File)

DocStage == {"PD", "RD", "ID"}
ApprovalStatus == {"APPROVED", "NOT_APPROVED", "UNKNOWN"}
ApprovalBasis == {"UNPROVEN", "TITLE_BLOCK", "INSPECTOR_SELECT", "SOLE_HEAD"}

DocumentRef ==
  [file: File, stage: DocStage, key: Key \cup {Blank},
   approval: ApprovalStatus, basis: ApprovalBasis,
   pred: File \cup {NoFile}, succ: File \cup {NoFile},
   volume: Volume \cup {Blank}, marks: SUBSET {"change", "correction"},
   number: Nat \cup {Unread}, title: Nat \cup {Unread},
   titleKind: {"change", "correction", "none"}]

OfStage(docs, s) == {d \in docs : d.stage = s}

-----------------------------------------------------------------------------
(* One chain by the names of the files.                                    *)

\* The number of the title block comes before the name; a name without a mark
\* is revision 0, two scales in one name are not added up.
NameMark(d) ==
  CASE d.title # Unread ->
         [kind |-> IF d.titleKind = "none" THEN "correction" ELSE d.titleKind,
          number |-> d.title]
    [] d.title = Unread /\ Cardinality(d.marks) > 1 ->
         [kind |-> "mixed", number |-> Unread]
    [] d.title = Unread /\ Cardinality(d.marks) = 1 ->
         [kind |-> CHOOSE k \in d.marks : TRUE, number |-> d.number]
    [] OTHER -> [kind |-> "none", number |-> IF d.volume = Blank THEN Unread ELSE 0]

\* Scales that do not order one another, a number that was not read, one number
\* on two files.
ChainConflict(group) ==
  LET kinds == {NameMark(d).kind : d \in group} IN
  \/ "mixed" \in kinds
  \/ {"change", "correction"} \subseteq kinds
  \/ \E d \in group : NameMark(d).number = Unread
  \/ \E d, e \in group : d # e /\ NameMark(d).number = NameMark(e).number

\* The neighbour of d in the order of the numbers, below or above it.
Below(d, group) == {e \in group : NameMark(e).number < NameMark(d).number}
Above(d, group) == {e \in group : NameMark(e).number > NameMark(d).number}
Previous(d, group) ==
  IF Below(d, group) = {} THEN NoFile
  ELSE (CHOOSE e \in Below(d, group) : Below(d, group) \cap Above(e, group) = {}).file
Following(d, group) ==
  IF Above(d, group) = {} THEN NoFile
  ELSE (CHOOSE e \in Above(d, group) : Above(d, group) \cap Below(e, group) = {}).file

ChainByFilename(group) ==
  {[d EXCEPT !.pred = Previous(d, group), !.succ = Following(d, group)] : d \in group}

-----------------------------------------------------------------------------
(* Documents of one identity.                                              *)

\* Blank ciphers hang together only by recorded links, in either direction.
Linked(d, e) == e.file \in {d.pred, d.succ} \/ d.file \in {e.pred, e.succ}
Closed(c, blanks) == \A d \in c : \A e \in blanks : Linked(d, e) => e \in c
ComponentOf(d, blanks) ==
  {e \in blanks : \A c \in SUBSET blanks : d \in c /\ Closed(c, blanks) => e \in c}
BlankComponents(blanks) == {ComponentOf(d, blanks) : d \in blanks}

\* Single named files of one volume are one chain, unless their names conflict;
\* acts (ID) never replace one another.
Loose(blanks) ==
  {d \in blanks : d.volume # Blank /\ ComponentOf(d, blanks) = {d}}
NameCluster(v, blanks) == {d \in Loose(blanks) : d.volume = v}
BlankFilenameGroups(blanks, s) ==
  IF s = "ID" THEN BlankComponents(blanks)
  ELSE {ComponentOf(d, blanks) : d \in blanks \ Loose(blanks)} \cup
       {LET group == NameCluster(d.volume, blanks) IN
        IF Cardinality(group) = 1 \/ ChainConflict(group) THEN group
        ELSE ChainByFilename(group) : d \in Loose(blanks)}

FaultyIdentityGroups(docs, s) == {OfStage(docs, s)}   \* one chain per stage
IdentityGroups(docs, s) ==
  LET ofStage == OfStage(docs, s)
      keyed == {d \in ofStage : d.key # Blank} IN
  {{d \in keyed : d.key = e.key} : e \in keyed} \cup
  BlankFilenameGroups(ofStage \ keyed, s)

\* Unlinked files of one volume whose names conflict, also where the cipher
\* was read.
FilenameGroupConflict(group, s) ==
  /\ s # "ID" /\ Cardinality(group) > 1
  /\ \A d, e \in group : d.volume = e.volume /\ d.volume # Blank
  /\ \A d \in group : d.pred = NoFile /\ d.succ = NoFile
  /\ ChainConflict(group)

-----------------------------------------------------------------------------
(* The etalon of a chain.                                                  *)

Eligible(docs) == {d \in docs : d.approval # "NOT_APPROVED"}

\* approval_with_basis: a choice of the inspector approves what no stamp
\* denies, and leaves the basis of a stamp that approves.
FaultyApprovalWithBasis(d, selected) ==   \* overrides the stamp
  IF selected THEN [d EXCEPT !.approval = "APPROVED", !.basis = "INSPECTOR_SELECT"] ELSE d
ApprovalWithBasis(d, selected) ==
  IF selected /\ d.approval = "UNKNOWN"
  THEN [d EXCEPT !.approval = "APPROVED", !.basis = "INSPECTOR_SELECT"] ELSE d

Resolved(d) == [status |-> "RESOLVED", doc |-> {d}]
MissingEvidence == [status |-> "MISSING_EVIDENCE", doc |-> {}]
Clarification == [status |-> "CLARIFICATION_REQUIRED", doc |-> {}]
RevisionConflict == [status |-> "CONFLICT", doc |-> {}]

FinishHead(d, eligible, selected) ==
  LET pending == d.stage = "PD" /\ d.approval = "UNKNOWN"
      approvedOther == \E e \in eligible : e.file # d.file /\ e.approval = "APPROVED" IN
  CASE pending /\ selected -> Resolved(ApprovalWithBasis(d, TRUE))
    [] pending /\ ~selected /\ SoleHead /\ ~approvedOther ->
         Resolved([d EXCEPT !.basis = "SOLE_HEAD"])
    [] pending /\ ~selected /\ (~SoleHead \/ approvedOther) -> Clarification
    [] OTHER -> Resolved(d)

MixedIdentities(docs) ==
  LET known == {d.key : d \in docs} \ {Blank} IN
  Cardinality(known) > 1 \/ (known # {} /\ \E d \in docs : d.key = Blank)

Heads(eligible) ==
  {d \in eligible : d.succ \notin {e.file : e \in eligible}}

\* resolve_revision on the documents of one identity.
ResolveChain(chain, selected) ==
  LET eligible == Eligible(chain)
      chosen == {d \in eligible : d.file \in selected}
      heads == Heads(eligible) IN
  CASE chain = {} -> MissingEvidence
    [] chain # {} /\ eligible = {} -> Clarification
    [] eligible # {} /\ (MixedIdentities(chain) \/ Cardinality(chosen) > 1) ->
         RevisionConflict
    [] eligible # {} /\ ~MixedIdentities(chain) /\ Cardinality(chosen) = 1 ->
         FinishHead(CHOOSE d \in chosen : TRUE, eligible, TRUE)
    [] eligible # {} /\ ~MixedIdentities(chain) /\ chosen = {} ->
         IF Cardinality(heads) = 1
         THEN FinishHead(CHOOSE d \in heads : TRUE, eligible, FALSE)
         ELSE RevisionConflict   \* a cycle, or several heads

\* The documents an anchor stands for: its identity, or its component where
\* its cipher is blank.
Anchored(docs, s, anchor) ==
  LET ofStage == OfStage(docs, s) IN
  IF anchor.key # Blank THEN {d \in ofStage : d.key = anchor.key}
  ELSE LET blanks == {d \in ofStage : d.key = Blank} IN
       {d \in blanks : \E c \in BlankComponents(blanks) :
          d \in c /\ \E e \in c : e.file = anchor.file}

\* resolve_revision with an anchor, or with none where anchors is empty.
ResolveRevision(docs, s, anchors, selected) ==
  IF anchors = {} THEN ResolveChain(OfStage(docs, s), selected)
  ELSE LET anchor == CHOOSE a \in anchors : TRUE IN
       IF anchor.stage # s THEN MissingEvidence
       ELSE ResolveChain(Anchored(docs, s, anchor), selected)

\* resolve_heads_by_identity: every chain on its own; a conflict of names
\* comes before the choice of the inspector.
ResolveGroup(group, s, selected) ==
  LET resolution == IF FilenameGroupConflict(group, s) THEN RevisionConflict
                    ELSE ResolveChain(group, selected) IN
  IF resolution.status = "CONFLICT" THEN Clarification ELSE resolution

ResolveHeadsByIdentity(docs, s, selected) ==
  {[group |-> g, resolution |-> ResolveGroup(g, s, selected)] : g \in IdentityGroups(docs, s)}

-----------------------------------------------------------------------------
(* What a later revision is.                                               *)

\* d replaces h: by a recorded link, or by the number in the names of two files
\* without cipher and link.
Replaces(d, h) ==
  /\ d.stage = h.stage /\ d.key = h.key /\ d.approval # "NOT_APPROVED"
  /\ \/ d.pred = h.file
     \/ /\ d.key = Blank /\ d.volume = h.volume /\ d.volume # Blank /\ d.stage # "ID"
        /\ {d.pred, d.succ, h.pred, h.succ} = {NoFile}
        /\ NameMark(d).kind \in {NameMark(h).kind, "none"} \/ NameMark(h).kind = "none"
        /\ {NameMark(d).number, NameMark(h).number} \subseteq Nat
        /\ NameMark(d).number > NameMark(h).number

-----------------------------------------------------------------------------
(* The pages of a run.                                                     *)

\* _document_ref: the pool already carries the choices of the inspector.
PoolOf(docs, selected) == {ApprovalWithBasis(d, d.file \in selected) : d \in docs}

\* Once the inspector chose something, a PD head with a blank cipher is compared
\* only if it was chosen.
StageHeads(pool, s, selected) ==
  LET heads == UNION {i.resolution.doc : i \in ResolveHeadsByIdentity(pool, s, selected)} IN
  IF s = "PD" /\ selected # {}
  THEN {d \in heads : d.file \in selected \/ d.key # Blank} ELSE heads

=============================================================================
