--------------------------- MODULE PackageProofs ---------------------------
(***************************************************************************)
(* Proofs about Revisions, Intake, Package and Catalog for any documents,  *)
(* rules and bounds.                                                       *)
(*                                                                         *)
(* The first part is what resolve_heads_by_identity promises for every     *)
(* pool of documents: the etalon of a chain is eligible, nothing eligible  *)
(* replaces it unless the inspector chose it, and an unstamped design is   *)
(* etalon only where no other revision of its identity is approved.        *)
(* Recorded links are mutual (Pooled), so a chain knows the successor of   *)
(* its head.  A chain by names has no recorded links: there the argument   *)
(* is that the highest number among the eligible revisions is a head, so   *)
(* a single head is that one (FiniteMax).                                  *)
(*                                                                         *)
(* The second part is the process.  The invariant is that the recorded     *)
(* links of the attached files are mutual, stay within the process and are *)
(* nobody's link to itself (Links).  It makes the pool of every run a pool *)
(* of the first part, whatever the run loses or reads blindly; so the      *)
(* etalons of a run are last revisions.                                    *)
(*                                                                         *)
(* The third part is the cards of a run: each step that collects what the  *)
(* volumes say of rooms keeps one of a kind for a room (OneEach, then      *)
(* RoomsApart for the cards of a rule), and the codes keep rules apart.    *)
(*                                                                         *)
(* The fourth part is the list beside a run.  The list parses its files    *)
(* without links, where a document is in one chain (OneIdentity) and a     *)
(* chain shows one document (OneHead): so the row of a file can be found   *)
(* by its file, and the heads of a run over the same pool are among those  *)
(* the list shows (SamePool).                                              *)
(*                                                                         *)
(* The fifth part compares two pools (Moves): a document whose file did    *)
(* not move is the same in both.  A chain none of whose documents is near  *)
(* a moved one is then a chain of both (ChainStays), with one case for     *)
(* each way a chain comes about (Home).                                    *)
(*                                                                         *)
(* The sixth part is the number of a label, for any tokens.  The tokens at *)
(* some places of a page make a row (NthIn, PickedRow).  What a recursive  *)
(* function computes is found by its least counterexample (StepByStep,     *)
(* Climbs): the depth of brackets is the most that was opened since any    *)
(* token before (DepthIsMost), and joined digits are a number.  A          *)
(* candidate against which neither the row nor the brackets speak is from  *)
(* the cells of its label, and a label with cells has one                  *)
(* (CandidateOfSpan); candidates have a best (BestOf), so it is such a     *)
(* one wherever there is one (ExtractedIsACell).                           *)
(*                                                                         *)
(* The seventh part is a verdict on a value.  The gates of a rule stand in *)
(* lists of lists, and the first that fails has a status that is no        *)
(* verdict (FirstFailing); where none fails, what is left of the volumes   *)
(* can be read and is not one file (PairedTyped).  A comparator accuses    *)
(* only of two different numbers unless its operator orders them           *)
(* (ValuesDiffer, TablesDiffer), and a card of a room has a room           *)
(* (RoomsNot).  The invariant adds that the readings are those of the      *)
(* files (Known); a run unpacks nothing twice, so the heads of the last    *)
(* run stay those of the attached files (ExpandTwice).  A grounded verdict *)
(* then compares what the sixth part finds (GroundedIsACell).              *)
(***************************************************************************)
EXTENDS Catalog, FiniteSetTheorems, TLAPS

-----------------------------------------------------------------------------
(* The revisions of a pool of documents.                                   *)

\* A finite set has an element with the largest value of f.
LEMMA FiniteMax ==
  ASSUME NEW S, IsFiniteSet(S), S # {}, NEW f \in [S -> Int]
  PROVE  \E x \in S : \A y \in S : f[y] <= f[x]
<1> DEFINE Good(U) == \E x \in U : \A y \in U : f[y] <= f[x]
           Bad == {U \in SUBSET S : U # {} /\ ~Good(U)}
<1>1. SUFFICES Bad = {}
  OBVIOUS
<1>2. SUFFICES ASSUME Bad # {} PROVE FALSE
  OBVIOUS
<1>3. Bad \subseteq FiniteSubsetsOf(S)
  BY FS_Subset DEF FiniteSubsetsOf
<1>4. PICK U \in Bad : \A V \in Bad : ~(<<V, U>> \in StrictSubsetOrdering(S))
  <2> HIDE DEF Bad
  <2> QED BY <1>2, <1>3, FS_StrictSubsetOrderingWellFounded, WFMin
<1>5. PICK u \in U : TRUE
  OBVIOUS
<1>6. U \ {u} \notin Bad
  BY <1>4, <1>5 DEF StrictSubsetOrdering
<1>7. CASE U \ {u} = {}
  <2>1. U = {u} /\ f[u] \in Int
    BY <1>5, <1>7
  <2> QED BY <2>1
<1>8. CASE U \ {u} # {}
  <2>1. PICK m \in U \ {u} : \A y \in U \ {u} : f[y] <= f[m]
    BY <1>6, <1>8
  <2>2. f[u] \in Int /\ f[m] \in Int /\ \A y \in U : f[y] \in Int
    BY <1>5
  <2>3. CASE f[u] <= f[m]
    BY <2>1, <2>2, <2>3
  <2>4. CASE ~(f[u] <= f[m])
    <3>1. \A y \in U : f[y] <= f[u]
      BY <2>1, <2>2, <2>4
    <3> QED BY <3>1, <1>5
  <2> QED BY <2>3, <2>4
<1> QED BY <1>7, <1>8

-----------------------------------------------------------------------------
(* The resolution of one chain.                                            *)

\* What is known of the documents of a run: one per file, mutual links.
Pooled(P) ==
  /\ P \subseteq DocumentRef
  /\ \A d, e \in P : d.file = e.file => d = e
  /\ \A d, e \in P : d.succ = e.file <=> e.pred = d.file
  /\ \A d \in P : d.pred # d.file

LEMMA DocsFinite ==
  ASSUME NEW G, G \subseteq DocumentRef, \A d, e \in G : d.file = e.file => d = e
  PROVE  IsFiniteSet(G)
<1> DEFINE f == [d \in G |-> d.file]
<1>1. f \in [G -> File]
  BY DEF DocumentRef
<1>2. f \in Injection(G, File)
  BY <1>1 DEF Injection, IsInjective
<1> QED BY <1>2, FS_Injection, RevisionsAssumption

LEMMA OneOf ==
  ASSUME NEW S, IsFiniteSet(S), Cardinality(S) = 1
  PROVE  \E x : S = {x} /\ (CHOOSE y \in S : TRUE) = x
<1>1. PICK x : S = {x}
  BY FS_Singleton
<1> QED BY <1>1

\* What the etalon h of a chain says and where it comes from.
EtalonOf(h, c, eligible, choices) ==
  /\ h.file = c.file /\ h.stage = c.stage /\ h.key = c.key
  /\ c.file \in choices \/ Heads(eligible) = {c}
  /\ c.approval = "APPROVED" => h.approval = "APPROVED"
  /\ c.stage = "PD" /\ h.approval # "APPROVED" =>
       /\ SoleHead /\ h.basis = "SOLE_HEAD"
       /\ \A e \in eligible : e.file # c.file => e.approval # "APPROVED"

LEMMA FinishedHead ==
  ASSUME NEW eligible, NEW c \in eligible, c \in DocumentRef, c.approval # "NOT_APPROVED",
         NEW chosen \in BOOLEAN, NEW h \in FinishHead(c, eligible, chosen).doc
  PROVE  /\ h.file = c.file /\ h.stage = c.stage /\ h.key = c.key
         /\ c.approval = "APPROVED" => h.approval = "APPROVED"
         /\ c.stage = "PD" /\ h.approval # "APPROVED" =>
              /\ SoleHead /\ h.basis = "SOLE_HEAD"
              /\ \A e \in eligible : e.file # c.file => e.approval # "APPROVED"
<1> DEFINE pending == c.stage = "PD" /\ c.approval = "UNKNOWN"
           other == \E e \in eligible : e.file # c.file /\ e.approval = "APPROVED"
<1>1. c.approval \in {"APPROVED", "UNKNOWN"}
  BY DEF DocumentRef, ApprovalStatus
<1>2. SoleHead \in BOOLEAN
  BY RevisionsAssumption
<1>3. CASE pending /\ chosen
  <2>1. h = [c EXCEPT !.approval = "APPROVED", !.basis = "INSPECTOR_SELECT"]
    BY <1>3 DEF FinishHead, Resolved, ApprovalWithBasis
  <2> QED BY <2>1 DEF DocumentRef
<1>4. CASE pending /\ ~chosen /\ SoleHead /\ ~other
  <2>1. h = [c EXCEPT !.basis = "SOLE_HEAD"]
    BY <1>4 DEF FinishHead, Resolved
  <2> QED BY <1>4, <2>1 DEF DocumentRef
<1>5. CASE pending /\ ~chosen /\ (~SoleHead \/ other)
  BY <1>5 DEF FinishHead, Clarification
<1>6. CASE ~pending
  <2>1. h = c
    BY <1>6 DEF FinishHead, Resolved
  <2> QED BY <1>1, <1>6, <2>1
<1> QED BY <1>2, <1>3, <1>4, <1>5, <1>6

\* A chain resolves to a document of its own or to none.
Finished(r, G, choices) ==
  \/ r \in {MissingEvidence, Clarification, RevisionConflict}
  \/ \E c \in Eligible(G), chosen \in BOOLEAN :
       /\ c.file \in choices \/ Heads(Eligible(G)) = {c}
       /\ r = FinishHead(c, Eligible(G), chosen)

LEMMA ChainCases ==
  ASSUME NEW G, IsFiniteSet(G), NEW choices
  PROVE  Finished(ResolveChain(G, choices), G, choices)
<1> DEFINE eligible == Eligible(G)
           chosen == {d \in eligible : d.file \in choices}
           heads == Heads(eligible)
<1>1. eligible \subseteq G /\ IsFiniteSet(chosen) /\ IsFiniteSet(heads) /\ heads \subseteq eligible
  BY FS_Subset DEF Eligible, Heads
<1>2. Cardinality(chosen) \in Nat /\ (Cardinality(chosen) = 0 <=> chosen = {})
  BY <1>1, FS_CardinalityType, FS_EmptySet
<1> DEFINE mixed == MixedIdentities(G)
           result == ResolveChain(G, choices)
           single == FinishHead(CHOOSE d \in heads : TRUE, eligible, FALSE)
           picked == FinishHead(CHOOSE d \in chosen : TRUE, eligible, TRUE)
<1>3. mixed \in BOOLEAN
  BY DEF MixedIdentities
<1>4. eligible # {} => G # {}
  BY <1>1
<1>5. \/ result \in {MissingEvidence, Clarification, RevisionConflict}
      \/ Cardinality(chosen) = 1 /\ result = picked
      \/ Cardinality(heads) = 1 /\ result = single
  <2>1. result = CASE G = {} -> MissingEvidence
                   [] G # {} /\ eligible = {} -> Clarification
                   [] eligible # {} /\ (mixed \/ Cardinality(chosen) > 1) -> RevisionConflict
                   [] eligible # {} /\ ~mixed /\ Cardinality(chosen) = 1 -> picked
                   [] eligible # {} /\ ~mixed /\ chosen = {} ->
                        IF Cardinality(heads) = 1 THEN single ELSE RevisionConflict
    BY DEF ResolveChain
  <2> HIDE DEF eligible, chosen, heads, mixed, result, single, picked
  <2>2. CASE G = {}
    BY <1>4, <2>1, <2>2
  <2>3. CASE G # {} /\ eligible = {}
    BY <2>1, <2>3
  <2>4. CASE eligible # {} /\ (mixed \/ Cardinality(chosen) > 1)
    BY <1>2, <1>4, <2>1, <2>4
  <2>5. CASE eligible # {} /\ ~mixed /\ Cardinality(chosen) = 1
    BY <1>2, <1>4, <2>1, <2>5
  <2>6. CASE eligible # {} /\ ~mixed /\ chosen = {}
    BY <1>2, <1>4, <2>1, <2>6
  <2> QED BY <1>2, <1>3, <2>2, <2>3, <2>4, <2>5, <2>6
<1>6. ASSUME Cardinality(chosen) = 1, result = picked
      PROVE  \E c \in eligible : c.file \in choices /\ result = FinishHead(c, eligible, TRUE)
  <2>1. PICK c : chosen = {c} /\ (CHOOSE y \in chosen : TRUE) = c
    BY <1>1, <1>6, OneOf
  <2> QED BY <1>6, <2>1
<1>7. ASSUME Cardinality(heads) = 1, result = single
      PROVE  \E c \in eligible : heads = {c} /\ result = FinishHead(c, eligible, FALSE)
  <2>1. PICK c : heads = {c} /\ (CHOOSE y \in heads : TRUE) = c
    BY <1>1, <1>7, OneOf
  <2>2. c \in eligible
    BY <1>1, <2>1
  <2> HIDE DEF eligible, heads, result
  <2> QED BY <1>7, <2>1, <2>2 DEF single
<1> HIDE DEF single, picked
<1> QED BY <1>5, <1>6, <1>7 DEF Finished

LEMMA ChainHead ==
  ASSUME NEW G, IsFiniteSet(G), G \subseteq DocumentRef, NEW choices,
         NEW h \in ResolveChain(G, choices).doc
  PROVE  \E c \in Eligible(G) : EtalonOf(h, c, Eligible(G), choices)
<1>1. Finished(ResolveChain(G, choices), G, choices)
  BY ChainCases
<1>2. MissingEvidence.doc = {} /\ Clarification.doc = {} /\ RevisionConflict.doc = {}
  BY DEF MissingEvidence, Clarification, RevisionConflict
<1>3. PICK c \in Eligible(G), chosen \in BOOLEAN :
        /\ c.file \in choices \/ Heads(Eligible(G)) = {c}
        /\ h \in FinishHead(c, Eligible(G), chosen).doc
  BY <1>1, <1>2 DEF Finished
<1>4. c \in DocumentRef /\ c.approval # "NOT_APPROVED"
  BY DEF Eligible
<1>5. EtalonOf(h, c, Eligible(G), choices)
  BY <1>3, <1>4, FinishedHead DEF EtalonOf
<1> QED BY <1>5

-----------------------------------------------------------------------------
(* The chains of a stage.                                                  *)

Blanks(P, s) == {d \in OfStage(P, s) : d.key = Blank}

\* A component holds every blank document its members are linked with.
LEMMA ComponentClosed ==
  ASSUME NEW blanks, NEW x \in blanks, NEW d \in ComponentOf(x, blanks), NEW e \in blanks,
         Linked(d, e)
  PROVE  e \in ComponentOf(x, blanks)
BY DEF ComponentOf, Closed

\* A document nothing is linked with is a component.
LEMMA AloneInComponent ==
  ASSUME NEW blanks, NEW x \in blanks, \A e \in blanks : e # x => ~Linked(x, e)
  PROVE  ComponentOf(x, blanks) = {x}
<1>1. x \in ComponentOf(x, blanks)
  BY DEF ComponentOf
<1>2. Closed({x}, blanks) /\ {x} \in SUBSET blanks
  BY DEF Closed
<1> QED BY <1>1, <1>2 DEF ComponentOf

\* Nor does it belong to the component of another one.
LEMMA AloneOutside ==
  ASSUME NEW blanks, NEW x \in blanks, \A e \in blanks : e # x => ~Linked(e, x),
         NEW y \in blanks, y # x
  PROVE  x \notin ComponentOf(y, blanks)
<1>1. Closed(blanks \ {x}, blanks) /\ blanks \ {x} \in SUBSET blanks /\ y \in blanks \ {x}
  BY DEF Closed
<1> QED BY <1>1 DEF ComponentOf

\* The three kinds of chains.
KeyedGroup(g, P, s) ==
  \E k \in Key : g = {d \in OfStage(P, s) : d.key = k}
LinkedGroup(g, P, s) ==
  \E x \in Blanks(P, s) : /\ g = ComponentOf(x, Blanks(P, s))
                          /\ s = "ID" \/ x \notin Loose(Blanks(P, s))
NamedGroup(g, P, s) ==
  \E v : LET group == NameCluster(v, Blanks(P, s)) IN
    \/ g = group /\ (Cardinality(group) = 1 \/ ChainConflict(group))
    \/ g = ChainByFilename(group) /\ ~ChainConflict(group)

LEMMA GroupKinds ==
  ASSUME NEW P, P \subseteq DocumentRef, NEW s, NEW g \in IdentityGroups(P, s)
  PROVE  \/ KeyedGroup(g, P, s)
         \/ LinkedGroup(g, P, s)
         \/ s # "ID" /\ NamedGroup(g, P, s)
<1> DEFINE ofStage == OfStage(P, s)
           keyed == {d \in ofStage : d.key # Blank}
           blanks == ofStage \ keyed
<1>1. blanks = Blanks(P, s)
  BY DEF Blanks
<1>2. CASE g \in {{d \in keyed : d.key = e.key} : e \in keyed}
  <2>1. PICK e \in keyed : g = {d \in keyed : d.key = e.key}
    BY <1>2
  <2>2. e.key \in Key
    BY DEF OfStage, DocumentRef
  <2>3. g = {d \in ofStage : d.key = e.key}
    BY <2>1
  <2> QED BY <2>2, <2>3 DEF KeyedGroup
<1>3. CASE g \in BlankFilenameGroups(blanks, s) /\ s = "ID"
  <2>1. g \in BlankComponents(blanks)
    BY <1>3 DEF BlankFilenameGroups
  <2>2. PICK x \in blanks : g = ComponentOf(x, blanks)
    BY <2>1 DEF BlankComponents
  <2> QED BY <1>1, <1>3, <2>2 DEF LinkedGroup
<1>4. CASE g \in BlankFilenameGroups(blanks, s) /\ s # "ID"
  <2> DEFINE named(d) == LET group == NameCluster(d.volume, blanks) IN
                         IF Cardinality(group) = 1 \/ ChainConflict(group) THEN group
                         ELSE ChainByFilename(group)
  <2>1. \/ g \in {ComponentOf(d, blanks) : d \in blanks \ Loose(blanks)}
        \/ g \in {named(d) : d \in Loose(blanks)}
    BY <1>4 DEF BlankFilenameGroups
  <2>2. CASE g \in {ComponentOf(d, blanks) : d \in blanks \ Loose(blanks)}
    BY <1>1, <2>2 DEF LinkedGroup
  <2>3. CASE g \in {named(d) : d \in Loose(blanks)}
    <3>1. PICK d \in Loose(blanks) : g = named(d)
      BY <2>3
    <3>2. NamedGroup(g, P, s)
      BY <1>1, <3>1 DEF NamedGroup
    <3> QED BY <1>4, <3>2
  <2> QED BY <2>1, <2>2, <2>3
<1>5. g \in {{d \in keyed : d.key = e.key} : e \in keyed} \/ g \in BlankFilenameGroups(blanks, s)
  BY DEF IdentityGroups
<1> QED BY <1>2, <1>3, <1>4, <1>5

\* A chain by names changes nothing but the links.
SameButLinks(c, o) ==
  /\ c.file = o.file /\ c.stage = o.stage /\ c.key = o.key /\ c.approval = o.approval
  /\ c.basis = o.basis /\ c.volume = o.volume /\ c.marks = o.marks /\ c.number = o.number
  /\ c.title = o.title /\ c.titleKind = o.titleKind

LEMMA Relinked ==
  ASSUME NEW group, group \subseteq DocumentRef, NEW c \in ChainByFilename(group)
  PROVE  \E o \in group : /\ SameButLinks(c, o)
                          /\ c.succ = Following(o, group) /\ c.pred = Previous(o, group)
BY DEF ChainByFilename, SameButLinks, DocumentRef

-----------------------------------------------------------------------------
(* The neighbours in a chain by names.                                     *)

LEMMA MarkNumber ==
  ASSUME NEW d \in DocumentRef
  PROVE  NameMark(d).number \in Nat \cup {Unread}
BY DEF NameMark, DocumentRef

\* The documents of a chain without conflict are numbered.
Numbered(group) ==
  /\ group \subseteq DocumentRef /\ IsFiniteSet(group)
  /\ \A d \in group : NameMark(d).number \in Nat

LEMMA NoConflictNumbered ==
  ASSUME NEW group, group \subseteq DocumentRef, IsFiniteSet(group), ~ChainConflict(group)
  PROVE  Numbered(group)
BY MarkNumber DEF ChainConflict, Numbered

\* The highest number of a set of documents.
LEMMA Highest ==
  ASSUME NEW group, Numbered(group), group # {}
  PROVE  \E m \in group : \A e \in group : NameMark(e).number <= NameMark(m).number
<1> DEFINE f == [d \in group |-> NameMark(d).number]
<1>1. f \in [group -> Int]
  BY DEF Numbered
<1>2. \E m \in group : \A e \in group : f[e] <= f[m]
  <2> HIDE DEF f
  <2> QED BY <1>1, FiniteMax DEF Numbered
<1> QED BY <1>2

\* And the lowest.
LEMMA Lowest ==
  ASSUME NEW group, Numbered(group), group # {}
  PROVE  \E m \in group : \A e \in group : NameMark(m).number <= NameMark(e).number
<1> DEFINE f == [d \in group |-> 0 - NameMark(d).number]
<1>1. f \in [group -> Int]
  BY DEF Numbered
<1>2. PICK m \in group : \A e \in group : f[e] <= f[m]
  <2> HIDE DEF f
  <2> QED BY <1>1, FiniteMax DEF Numbered
<1>3. ASSUME NEW e \in group PROVE NameMark(m).number <= NameMark(e).number
  <2>1. 0 - NameMark(e).number <= 0 - NameMark(m).number
    BY <1>2
  <2>2. NameMark(e).number \in Nat /\ NameMark(m).number \in Nat
    BY DEF Numbered
  <2> QED BY <2>1, <2>2
<1> QED BY <1>3

LEMMA FollowingAbove ==
  ASSUME NEW group, Numbered(group), NEW d \in group, Following(d, group) # NoFile
  PROVE  \E a \in group : /\ NameMark(a).number > NameMark(d).number
                          /\ Following(d, group) = a.file
<1> DEFINE above == Above(d, group)
<1>1. above # {} /\ above \subseteq group
  BY DEF Following, Above
<1>2. Numbered(above)
  BY <1>1, FS_Subset DEF Numbered
<1>3. PICK a \in above : \A e \in above : NameMark(a).number <= NameMark(e).number
  <2> HIDE DEF above
  <2> QED BY <1>1, <1>2, Lowest
<1>4. above \cap Below(a, group) = {}
  BY <1>1, <1>2, <1>3 DEF Below, Numbered
<1>5. (CHOOSE e \in above : above \cap Below(e, group) = {}) \in above
  BY <1>4
<1>6. Following(d, group) = (CHOOSE e \in above : above \cap Below(e, group) = {}).file
  BY <1>1 DEF Following
<1>7. \A e \in above : e \in group /\ NameMark(e).number > NameMark(d).number
  BY DEF Above
<1> QED BY <1>5, <1>6, <1>7

LEMMA PreviousInGroup ==
  ASSUME NEW group, Numbered(group), NEW d \in group, Previous(d, group) # NoFile
  PROVE  \E a \in group : Previous(d, group) = a.file
<1> DEFINE below == Below(d, group)
<1>1. below # {} /\ below \subseteq group
  BY DEF Previous, Below
<1>2. Numbered(below)
  BY <1>1, FS_Subset DEF Numbered
<1>3. PICK a \in below : \A e \in below : NameMark(e).number <= NameMark(a).number
  <2> HIDE DEF below
  <2> QED BY <1>1, <1>2, Highest
<1>4. below \cap Above(a, group) = {}
  BY <1>1, <1>2, <1>3 DEF Above, Numbered
<1>5. (CHOOSE e \in below : below \cap Above(e, group) = {}) \in below
  BY <1>4
<1>6. Previous(d, group) = (CHOOSE e \in below : below \cap Above(e, group) = {}).file
  BY <1>1 DEF Previous
<1> QED BY <1>1, <1>5, <1>6

LEMMA ChainDocs ==
  ASSUME NEW group, Numbered(group)
  PROVE  ChainByFilename(group) \subseteq DocumentRef
<1>1. SUFFICES ASSUME NEW d \in group
               PROVE  [d EXCEPT !.pred = Previous(d, group), !.succ = Following(d, group)]
                        \in DocumentRef
  BY DEF ChainByFilename
<1>2. d \in DocumentRef /\ \A a \in group : a.file \in File
  BY DEF Numbered, DocumentRef
<1>3. Previous(d, group) \in File \cup {NoFile}
  BY <1>2, PreviousInGroup
<1>4. Following(d, group) \in File \cup {NoFile}
  BY <1>2, FollowingAbove
<1> HIDE DEF Previous, Following
<1> QED BY <1>2, <1>3, <1>4 DEF DocumentRef

-----------------------------------------------------------------------------
(* Nothing replaces the etalon of a chain.                                 *)

\* By a recorded link, or by the number in the name.
ReplacesByLink(d, o) ==
  d.stage = o.stage /\ d.key = o.key /\ d.approval # "NOT_APPROVED" /\ d.pred = o.file
ReplacesByName(d, o) ==
  /\ d.stage = o.stage /\ d.key = Blank /\ o.key = Blank /\ d.approval # "NOT_APPROVED"
  /\ d.volume = o.volume /\ d.volume # Blank /\ d.stage # "ID"
  /\ d.pred = NoFile /\ d.succ = NoFile /\ o.pred = NoFile /\ o.succ = NoFile
  /\ NameMark(o).number \in Nat /\ NameMark(d).number \in Nat
  /\ NameMark(d).number > NameMark(o).number

LEMMA ReplacesEither ==
  ASSUME NEW d, NEW o, Replaces(d, o)
  PROVE  ReplacesByLink(d, o) \/ ReplacesByName(d, o)
BY DEF Replaces, ReplacesByLink, ReplacesByName

\* The only head is no document with an eligible successor.
LEMMA NoSuccessor ==
  ASSUME NEW eligible, NEW c, Heads(eligible) = {c}, NEW d \in eligible, c.succ = d.file
  PROVE  FALSE
<1>1. c \in Heads(eligible)
  OBVIOUS
<1>2. d.file \in {e.file : e \in eligible}
  OBVIOUS
<1> HIDE DEF Heads
<1>3. c.succ \notin {e.file : e \in eligible}
  BY <1>1 DEF Heads
<1> QED BY <1>2, <1>3

\* A document without links is a component of its own, and of no other.
LEMMA UnlinkedAlone ==
  ASSUME NEW P, Pooled(P), NEW s, NEW o \in Blanks(P, s), o.pred = NoFile, o.succ = NoFile
  PROVE  /\ \A e \in Blanks(P, s) : e # o => ~Linked(o, e) /\ ~Linked(e, o)
         /\ ComponentOf(o, Blanks(P, s)) = {o}
         /\ \A y \in Blanks(P, s) : y # o => o \notin ComponentOf(y, Blanks(P, s))
<1>1. Blanks(P, s) \subseteq P
  BY DEF Blanks, OfStage
<1>2. ASSUME NEW e \in Blanks(P, s), e # o PROVE ~Linked(o, e) /\ ~Linked(e, o)
  <2>1. e \in P /\ o \in P /\ e.file \in File /\ o.file \in File
    BY <1>1 DEF Pooled, DocumentRef
  <2>2. e.file # NoFile /\ o.file # NoFile
    BY <2>1, RevisionsAssumption
  <2>3. e.pred # o.file
    BY <2>1, <2>2 DEF Pooled
  <2>4. e.succ # o.file
    BY <2>1, <2>2 DEF Pooled
  <2> QED BY <2>2, <2>3, <2>4 DEF Linked
<1>3. \A y \in Blanks(P, s) : y # o => o \notin ComponentOf(y, Blanks(P, s))
  BY <1>2, AloneOutside
<1> QED BY <1>2, <1>3, AloneInComponent

LEMMA KeyedHead ==
  ASSUME NEW P, Pooled(P), NEW s, NEW k \in Key,
         NEW c \in P, c.stage = s, c.key = k,
         Heads(Eligible({d \in OfStage(P, s) : d.key = k})) = {c},
         NEW d \in P, Replaces(d, c)
  PROVE  FALSE
<1>1. c.key # Blank
  BY RevisionsAssumption
<1>2. ReplacesByLink(d, c)
  BY <1>1, ReplacesEither DEF ReplacesByName
<1>3. d \in Eligible({e \in OfStage(P, s) : e.key = k})
  BY <1>2 DEF ReplacesByLink, Eligible, OfStage
<1>4. c.succ = d.file
  BY <1>2 DEF ReplacesByLink, Pooled
<1> QED BY <1>3, <1>4, NoSuccessor

\* What a linked document may be replaced by is in its component.
LEMMA LinkedHead ==
  ASSUME NEW P, Pooled(P), NEW s, NEW x \in Blanks(P, s),
         s = "ID" \/ x \notin Loose(Blanks(P, s)),
         NEW c \in ComponentOf(x, Blanks(P, s)),
         Heads(Eligible(ComponentOf(x, Blanks(P, s)))) = {c},
         NEW d \in P, Replaces(d, c)
  PROVE  FALSE
<1> DEFINE B == Blanks(P, s)
<1>1. c \in B /\ c \in P /\ c.key = Blank /\ c.stage = s
  BY DEF ComponentOf, Blanks, OfStage
<1>2. d \in B
  BY <1>1 DEF Replaces, Blanks, OfStage
<1>3. CASE ReplacesByLink(d, c)
  <2>1. Linked(c, d) /\ c.succ = d.file
    BY <1>1, <1>3 DEF ReplacesByLink, Linked, Pooled
  <2>2. d \in ComponentOf(x, B)
    BY <1>2, <2>1, ComponentClosed
  <2>3. d \in Eligible(ComponentOf(x, B))
    BY <1>3, <2>2 DEF ReplacesByLink, Eligible
  <2> QED BY <2>1, <2>3, NoSuccessor
<1>4. CASE ReplacesByName(d, c)
  <2>1. c.pred = NoFile /\ c.succ = NoFile /\ c.volume # Blank /\ s # "ID"
    BY <1>1, <1>4 DEF ReplacesByName
  <2>2. /\ ComponentOf(c, B) = {c}
        /\ \A y \in B : y # c => c \notin ComponentOf(y, B)
    BY <1>1, <2>1, UnlinkedAlone
  <2>3. c = x
    BY <2>2
  <2> QED BY <1>1, <2>1, <2>2, <2>3 DEF Loose
<1> QED BY <1>3, <1>4, ReplacesEither

\* In a chain by names only a name replaces, and what does is in the chain.
LEMMA NamedRival ==
  ASSUME NEW P, Pooled(P), NEW s, NEW v, NEW o \in NameCluster(v, Blanks(P, s)),
         NEW d \in P, Replaces(d, o)
  PROVE  /\ ReplacesByName(d, o)
         /\ d \in Eligible(NameCluster(v, Blanks(P, s)))
<1> DEFINE B == Blanks(P, s)
<1>1. /\ o \in B /\ o \in P /\ o.key = Blank /\ o.stage = s /\ o.volume = v
      /\ ComponentOf(o, B) = {o}
  BY DEF NameCluster, Loose, Blanks, OfStage
<1>2. d \in B
  BY <1>1 DEF Replaces, Blanks, OfStage
<1>3. CASE ReplacesByLink(d, o)
  <2>1. Linked(o, d) /\ o \in ComponentOf(o, B)
    BY <1>1, <1>3 DEF ReplacesByLink, Linked
  <2>2. d = o
    BY <1>1, <1>2, <2>1, ComponentClosed
  <2> QED BY <1>3, <2>2 DEF ReplacesByLink, Pooled
<1>4. CASE ReplacesByName(d, o)
  <2>1. ComponentOf(d, B) = {d}
    BY <1>2, <1>4, UnlinkedAlone DEF ReplacesByName
  <2>2. d \in NameCluster(v, B)
    BY <1>1, <1>2, <1>4, <2>1 DEF ReplacesByName, NameCluster, Loose
  <2> QED BY <1>4, <2>2 DEF ReplacesByName, Eligible
<1> QED BY <1>3, <1>4, ReplacesEither

\* Files of one volume without a chain: two of them are two heads.
LEMMA UnchainedHead ==
  ASSUME NEW P, Pooled(P), NEW s, NEW v,
         NEW c \in Eligible(NameCluster(v, Blanks(P, s))),
         Heads(Eligible(NameCluster(v, Blanks(P, s)))) = {c},
         NEW d \in P, Replaces(d, c)
  PROVE  FALSE
<1> DEFINE E == Eligible(NameCluster(v, Blanks(P, s)))
<1>1. c \in NameCluster(v, Blanks(P, s)) /\ E \subseteq P
  BY DEF Eligible, NameCluster, Loose, Blanks, OfStage
<1>2. ReplacesByName(d, c) /\ d \in E
  BY <1>1, NamedRival
<1>3. d \in Heads(E)
  <2>1. NoFile \notin {e.file : e \in E}
    BY <1>1, RevisionsAssumption DEF Pooled, DocumentRef
  <2> QED BY <1>2, <2>1 DEF Heads, ReplacesByName
<1>4. d # c
  BY <1>2 DEF ReplacesByName
<1> QED BY <1>3, <1>4

\* In a chain by names the highest eligible number is a head.
LEMMA ChainedHead ==
  ASSUME NEW P, Pooled(P), NEW s, NEW v, NEW group, group = NameCluster(v, Blanks(P, s)),
         Numbered(group),
         NEW c \in Eligible(ChainByFilename(group)),
         Heads(Eligible(ChainByFilename(group))) = {c},
         NEW o \in group, SameButLinks(c, o), NEW d \in P, Replaces(d, o)
  PROVE  FALSE
<1> DEFINE chain == ChainByFilename(group)
           E == Eligible(group)
<1>1. ReplacesByName(d, o) /\ d \in E
  BY NamedRival
<1>2. E \subseteq group /\ Numbered(E) /\ group \subseteq P
  BY FS_Subset DEF Eligible, Numbered, NameCluster, Loose, Blanks, OfStage
<1>3. PICK m \in E : \A e \in E : NameMark(e).number <= NameMark(m).number
  BY <1>1, <1>2, Highest
<1>4. NameMark(m).number > NameMark(o).number
  BY <1>1, <1>2, <1>3 DEF ReplacesByName, Numbered
<1> DEFINE w == [m EXCEPT !.pred = Previous(m, group), !.succ = Following(m, group)]
<1>5. w \in chain
  BY <1>2 DEF ChainByFilename
<1>6. m \in DocumentRef
  BY <1>2 DEF Numbered
<1>7. /\ w.file = m.file /\ w.approval = m.approval /\ w.succ = Following(m, group)
  BY <1>6 DEF DocumentRef
<1>8. w \in Eligible(chain)
  BY <1>5, <1>7 DEF Eligible
<1>9. w \in Heads(Eligible(chain))
  <2>1. SUFFICES ASSUME NEW e \in Eligible(chain), e.file = Following(m, group) PROVE FALSE
    <3> HIDE DEF w, chain
    <3> QED BY <1>7, <1>8 DEF Heads
  <2>2. PICK q \in group : SameButLinks(e, q)
    BY Relinked DEF Eligible, Numbered
  <2>3. q \in E /\ q.file \in File
    BY <2>2 DEF Eligible, SameButLinks, Numbered, DocumentRef
  <2>4. Following(m, group) = q.file
    BY <2>1, <2>2 DEF SameButLinks
  <2>5. Following(m, group) # NoFile
    BY <2>3, <2>4, RevisionsAssumption
  <2>6. PICK a \in group : NameMark(a).number > NameMark(m).number /\ a.file = q.file
    BY <1>2, <2>4, <2>5, FollowingAbove
  <2>7. a = q
    BY <1>2, <2>6 DEF Pooled
  <2>8. NameMark(q).number <= NameMark(m).number
    BY <1>3, <2>3
  <2> QED BY <1>2, <1>3, <2>3, <2>6, <2>7, <2>8 DEF Numbered
<1>10. w = c
  <2> HIDE DEF w, chain
  <2> QED BY <1>9 DEF chain
<1>11. m.file = o.file
  BY <1>7, <1>10 DEF SameButLinks
<1>12. m = o
  BY <1>2, <1>11 DEF Pooled
<1> QED BY <1>1, <1>4, <1>12 DEF ReplacesByName

-----------------------------------------------------------------------------
(* The promise of resolve_heads_by_identity.                               *)

\* An etalon stands for a revision o of the pool: it is not refused; no revision
\* replaces it, unless the inspector chose it; and a design is not approved only
\* under the policy sole_head, where no other revision of its identity is.
LastRevision(h, o, P, choices) ==
  /\ o.file = h.file /\ o.stage = h.stage /\ o.key = h.key
  /\ o.approval # "NOT_APPROVED"
  /\ h.file \notin choices => \A d \in P : ~Replaces(d, o)
  /\ h.stage = "PD" /\ h.approval # "APPROVED" =>
       /\ SoleHead /\ h.basis = "SOLE_HEAD"
       /\ h.key # Blank =>
            \A d \in P : d.stage = "PD" /\ d.key = h.key => d.approval # "APPROVED"

\* resolve_heads_by_identity: whatever the files of a stage and however they are
\* linked, named and chosen, the etalon of each chain is its last revision.
THEOREM HeadIsLast ==
  ASSUME NEW P, Pooled(P), NEW s, NEW choices,
         NEW i \in ResolveHeadsByIdentity(P, s, choices),
         NEW h \in i.resolution.doc
  PROVE  \E o \in P : LastRevision(h, o, P, choices)
<1>1. PICK g \in IdentityGroups(P, s) : i = [group |-> g, resolution |-> ResolveGroup(g, s, choices)]
  BY DEF ResolveHeadsByIdentity
<1>2. h \in ResolveChain(g, choices).doc
  <2> DEFINE conflict == FilenameGroupConflict(g, s)
             chain == ResolveChain(g, choices)
             resolution == IF conflict THEN RevisionConflict ELSE chain
  <2>1. h \in ResolveGroup(g, s, choices).doc
    BY <1>1
  <2>2. ResolveGroup(g, s, choices) =
          IF resolution.status = "CONFLICT" THEN Clarification ELSE resolution
    BY DEF ResolveGroup
  <2>3. Clarification.doc = {} /\ RevisionConflict.doc = {}
    BY DEF Clarification, RevisionConflict
  <2> HIDE DEF conflict, chain
  <2>4. h \in chain.doc
    BY <2>1, <2>2, <2>3
  <2> QED BY <2>4 DEF chain
<1>3. P \subseteq DocumentRef /\ OfStage(P, s) \subseteq P
  BY DEF Pooled, OfStage
<1>4. ASSUME NEW G, G \subseteq DocumentRef, \A d, e \in G : d.file = e.file => d = e, g = G
      PROVE  \E c \in Eligible(G) : EtalonOf(h, c, Eligible(G), choices)
  BY <1>2, <1>4, DocsFinite, ChainHead
<1>5. CASE KeyedGroup(g, P, s)
  <2>1. PICK k \in Key : g = {d \in OfStage(P, s) : d.key = k}
    BY <1>5 DEF KeyedGroup
  <2> DEFINE G == {d \in OfStage(P, s) : d.key = k}
  <2>2. G \subseteq P /\ G \subseteq DocumentRef /\ \A d, e \in G : d.file = e.file => d = e
    BY <1>3 DEF Pooled
  <2>3. PICK c \in Eligible(G) : EtalonOf(h, c, Eligible(G), choices)
    BY <1>4, <2>1, <2>2
  <2>4. c \in P /\ c.stage = s /\ c.key = k /\ c.approval # "NOT_APPROVED"
    BY <1>3 DEF Eligible, OfStage
  <2>5. ASSUME h.file \notin choices, NEW d \in P PROVE ~Replaces(d, c)
    BY <2>3, <2>4, <2>5, KeyedHead DEF EtalonOf
  <2>6. ASSUME h.stage = "PD", h.approval # "APPROVED", NEW d \in P, d.stage = "PD", d.key = h.key
        PROVE  d.approval # "APPROVED"
    <3>1. h.stage = s /\ h.key = k /\ h.file = c.file
      BY <2>3, <2>4 DEF EtalonOf
    <3>2. CASE d.file = c.file
      BY <2>3, <2>4, <2>6, <3>2 DEF EtalonOf, Pooled
    <3>3. CASE d.file # c.file /\ d.approval # "NOT_APPROVED"
      <4>1. d \in Eligible(G)
        BY <2>6, <3>1, <3>3 DEF Eligible, OfStage
      <4> HIDE DEF G
      <4> QED BY <2>3, <2>4, <2>6, <3>1, <3>3, <4>1 DEF EtalonOf
    <3> QED BY <3>2, <3>3
  <2> HIDE DEF G
  <2> QED BY <2>3, <2>4, <2>5, <2>6 DEF LastRevision, EtalonOf
<1>6. CASE LinkedGroup(g, P, s)
  <2>1. PICK x \in Blanks(P, s) : /\ g = ComponentOf(x, Blanks(P, s))
                                  /\ s = "ID" \/ x \notin Loose(Blanks(P, s))
    BY <1>6 DEF LinkedGroup
  <2> DEFINE G == ComponentOf(x, Blanks(P, s))
  <2>2. /\ G \subseteq P /\ G \subseteq DocumentRef /\ \A d, e \in G : d.file = e.file => d = e
        /\ \A d \in G : d.key = Blank
    BY <1>3 DEF ComponentOf, Blanks, Pooled
  <2>3. PICK c \in Eligible(G) : EtalonOf(h, c, Eligible(G), choices)
    <3> HIDE DEF G
    <3> QED BY <1>4, <2>1, <2>2 DEF G
  <2>4. c \in G /\ c \in P /\ c.key = Blank /\ c.approval # "NOT_APPROVED"
    BY <2>2 DEF Eligible
  <2>5. ASSUME h.file \notin choices, NEW d \in P PROVE ~Replaces(d, c)
    BY <2>1, <2>3, <2>4, <2>5, LinkedHead DEF EtalonOf
  <2> HIDE DEF G
  <2> QED BY <2>3, <2>4, <2>5 DEF LastRevision, EtalonOf
<1>7. CASE s # "ID" /\ NamedGroup(g, P, s)
  <2>1. PICK v : \/ g = NameCluster(v, Blanks(P, s))
                 \/ /\ g = ChainByFilename(NameCluster(v, Blanks(P, s)))
                    /\ ~ChainConflict(NameCluster(v, Blanks(P, s)))
    BY <1>7 DEF NamedGroup
  <2> DEFINE group == NameCluster(v, Blanks(P, s))
  <2>2. /\ group \subseteq P /\ group \subseteq DocumentRef
        /\ \A d, e \in group : d.file = e.file => d = e
        /\ \A d \in group : d.key = Blank
    BY <1>3 DEF NameCluster, Loose, Blanks, Pooled
  <2>3. CASE g = group
    <3>1. PICK c \in Eligible(group) : EtalonOf(h, c, Eligible(group), choices)
      <4> HIDE DEF group
      <4> QED BY <1>4, <2>2, <2>3
    <3>2. c \in group /\ c \in P /\ c.key = Blank /\ c.approval # "NOT_APPROVED"
      BY <2>2 DEF Eligible
    <3>3. ASSUME h.file \notin choices, NEW d \in P PROVE ~Replaces(d, c)
      BY <3>1, <3>3, UnchainedHead DEF EtalonOf
    <3> HIDE DEF group
    <3> QED BY <3>1, <3>2, <3>3 DEF LastRevision, EtalonOf
  <2>4. CASE g = ChainByFilename(group) /\ ~ChainConflict(group)
    <3> DEFINE chain == ChainByFilename(group)
    <3>1. Numbered(group)
      <4> HIDE DEF group
      <4> QED BY <2>2, <2>4, DocsFinite, NoConflictNumbered
    <3>2. chain \subseteq DocumentRef
      <4> HIDE DEF group
      <4> QED BY <3>1, ChainDocs
    <3>3. \A c \in chain : \E o \in group :
            /\ SameButLinks(c, o)
            /\ c.succ = Following(o, group) /\ c.pred = Previous(o, group)
      <4> HIDE DEF group
      <4> QED BY <2>2, Relinked
    <3>4. ASSUME NEW d \in chain, NEW e \in chain, d.file = e.file PROVE d = e
      <4>1. PICK o \in group : d = [o EXCEPT !.pred = Previous(o, group), !.succ = Following(o, group)]
        BY DEF ChainByFilename
      <4>2. PICK q \in group : e = [q EXCEPT !.pred = Previous(q, group), !.succ = Following(q, group)]
        BY DEF ChainByFilename
      <4>3. d.file = o.file /\ e.file = q.file
        <5> HIDE DEF group
        <5> QED BY <2>2, <4>1, <4>2 DEF DocumentRef
      <4>4. o = q
        <5> HIDE DEF group
        <5> QED BY <2>2, <3>4, <4>3
      <4> QED BY <4>1, <4>2, <4>4
    <3>5. PICK c \in Eligible(chain) : EtalonOf(h, c, Eligible(chain), choices)
      <4> HIDE DEF chain
      <4> QED BY <1>4, <2>4, <3>2, <3>4 DEF chain
    <3>6. PICK o \in group : SameButLinks(c, o)
      BY <3>3 DEF Eligible
    <3>7. o \in P /\ o.key = Blank /\ o.approval # "NOT_APPROVED"
      BY <2>2, <3>6 DEF Eligible, SameButLinks
    <3>8. ASSUME h.file \notin choices, NEW d \in P PROVE ~Replaces(d, o)
      <4>1. Heads(Eligible(chain)) = {c}
        BY <3>5, <3>8 DEF EtalonOf
      <4> QED BY <3>1, <3>6, <4>1, ChainedHead
    <3> HIDE DEF group, chain
    <3> QED BY <3>5, <3>6, <3>7, <3>8 DEF LastRevision, EtalonOf, SameButLinks
  <2> QED BY <2>1, <2>3, <2>4
<1> QED BY <1>3, <1>5, <1>6, <1>7, GroupKinds

-----------------------------------------------------------------------------
(* What a request accepts.                                                 *)

LEMMA SoundParcel ==
  ASSUME NEW c, Problems(c) = {}
  PROVE  /\ c.safe /\ c.suffix \in AllowedSuffixes /\ c.size # 0
         /\ ~(c.size > MaxFileBytes)
         /\ c.header \in MagicPrefixes[c.suffix]
         /\ c.suffix \in {"zip", "docx"} /\ c.header = "pk" => ~c.bomb
<1>1. DOMAIN Checks(c) = 1..6
  BY DEF Checks
<1>2. \A n \in 1..6 : ~Checks(c)[n].fails
  BY <1>1 DEF Problems
<1>3. /\ ~Checks(c)[1].fails /\ ~Checks(c)[2].fails /\ ~Checks(c)[3].fails
      /\ ~Checks(c)[4].fails /\ ~Checks(c)[5].fails /\ ~Checks(c)[6].fails
  BY <1>2
<1> QED BY <1>3 DEF Checks, Check

LEMMA ReadParcel ==
  ASSUME NEW p \in Parcel
  PROVE  /\ ReadBoundedUpload(p).av = p.av
         /\ ReadBoundedUpload(p).size > MaxFileBytes <=> p.size > MaxFileBytes
         /\ ~(p.size > MaxFileBytes) => ReadBoundedUpload(p) = p
<1> DEFINE size == IF p.size > MaxFileBytes THEN MaxFileBytes + 1 ELSE p.size
           content == IF p.size > MaxFileBytes THEN NoHash ELSE p.content
           first == [p EXCEPT !.size = size]
           read == [first EXCEPT !.content = content]
<1>1. ReadBoundedUpload(p) = read
  BY DEF ReadBoundedUpload, Parcel
<1>2. first \in [content : Content, size : {size}, safe : BOOLEAN, suffix : STRING,
                header : STRING, bomb : BOOLEAN,
                av : {"clean", "not_configured", "infected", "unreachable"}]
  <2> HIDE DEF size
  <2> QED BY DEF Parcel
<1>3. read.av = p.av /\ read.size = size
  <2> HIDE DEF size, content
  <2> QED BY DEF Parcel
<1>4. size > MaxFileBytes <=> p.size > MaxFileBytes
  BY IntakeAssumption DEF Parcel
<1>5. ASSUME ~(p.size > MaxFileBytes) PROVE read = p
  <2>1. size = p.size /\ content = p.content
    BY <1>5
  <2> HIDE DEF size, content
  <2>2. first = p
    BY <2>1 DEF Parcel
  <2> HIDE DEF first
  <2> QED BY <2>1, <2>2 DEF Parcel
<1> HIDE DEF read, size
<1> QED BY <1>1, <1>3, <1>4, <1>5

\* A parcel in order: what check_file and the antivirus let through.
InOrder(parcel) ==
  /\ parcel.safe /\ parcel.suffix \in AllowedSuffixes /\ parcel.header \in MagicPrefixes[parcel.suffix]
  /\ parcel.size \in 1..MaxFileBytes
  /\ parcel.av \in {"clean", "not_configured"}
  /\ parcel.suffix \in {"zip", "docx"} /\ parcel.header = "pk" => ~parcel.bomb

\* evaluate_batch and what comes before it: whatever a request holds, what it
\* accepts are files of the request as they were sent, each of them in order
\* and none of them twice.
THEOREM AcceptedInOrder ==
  ASSUME NEW parcels \in Seq(Parcel)
  PROVE  /\ \A p \in Decision(parcels).accepted :
              InOrder(p) /\ \E i \in DOMAIN parcels : parcels[i] = p
         /\ \A p, q \in Decision(parcels).accepted : p.content = q.content => p = q
<1> DEFINE batch == [i \in DOMAIN parcels |-> ReadBoundedUpload(parcels[i])]
<1>1. Decision(parcels).accepted = Accepted(batch)
  BY DEF Decision
<1>2. DOMAIN batch = DOMAIN parcels /\ DOMAIN parcels \subseteq Nat
  OBVIOUS
<1>3. Accepted(batch) \subseteq {batch[i] : i \in First(batch)}
  BY DEF Accepted
<1>4. ASSUME NEW i \in First(batch)
      PROVE  i \in DOMAIN parcels /\ batch[i] = parcels[i] /\ InOrder(parcels[i])
  <2> DEFINE p == parcels[i]
  <2>1. i \in DOMAIN batch /\ Problems(batch[i]) = {} /\ ~AntivirusRejects(batch[i])
    BY DEF First, Sound, Scanned
  <2>2. p \in Parcel /\ batch[i] = ReadBoundedUpload(p) /\ i \in DOMAIN parcels
    BY <2>1
  <2>3. MaxFileBytes \in Nat
    BY IntakeAssumption
  <2>4. ~(batch[i].size > MaxFileBytes)
    BY <2>1, SoundParcel
  <2> HIDE DEF p, batch
  <2>5. ~(p.size > MaxFileBytes)
    BY <2>2, <2>4, ReadParcel
  <2>6. batch[i] = p
    BY <2>2, <2>5, ReadParcel
  <2>7. p.size \in Nat /\ p.av \in {"clean", "not_configured", "infected", "unreachable"}
    BY <2>2 DEF Parcel
  <2>8. InOrder(p)
    BY <2>1, <2>3, <2>5, <2>6, <2>7, SoundParcel DEF InOrder, AntivirusRejects
  <2> QED BY <2>2, <2>6, <2>8 DEF p
<1>5. ASSUME NEW i \in First(batch), NEW j \in First(batch), batch[i].content = batch[j].content
      PROVE  i = j
  <2>1. i \in Nat /\ j \in Nat
    BY <1>2, <1>4
  <2>2. i <= j /\ j <= i
    <3> HIDE DEF batch
    <3> QED BY <1>5 DEF First
  <2> QED BY <2>1, <2>2
<1> HIDE DEF batch
<1> QED BY <1>1, <1>3, <1>4, <1>5

\* Nothing of a request is lost in silence: every file is accepted, is a second
\* copy of one that is, or is answered with a reason.
THEOREM EveryFileAnswered ==
  ASSUME NEW parcels \in Seq(Parcel), NEW i \in DOMAIN parcels
  PROVE  \/ \E p \in Decision(parcels).accepted : p.content = parcels[i].content
         \/ /\ AntivirusRejects(parcels[i])
            /\ "ANTIVIRUS_REJECTED" \in Decision(parcels).rejected
         \/ "BATCH_LIMIT_EXCEEDED" \in Decision(parcels).rejected
         \/ /\ Problems(ReadBoundedUpload(parcels[i])) # {}
            /\ Reason(ReadBoundedUpload(parcels[i])) \in Decision(parcels).rejected
<1> DEFINE batch == [k \in DOMAIN parcels |-> ReadBoundedUpload(parcels[k])]
<1>1. DOMAIN batch = DOMAIN parcels /\ \A k \in DOMAIN parcels : batch[k] = ReadBoundedUpload(parcels[k])
  OBVIOUS
<1>2. /\ Decision(parcels).accepted = Accepted(batch)
      /\ Rejected(batch) \subseteq Decision(parcels).rejected
      /\ Scanned(batch) # DOMAIN batch => "ANTIVIRUS_REJECTED" \in Decision(parcels).rejected
  BY DEF Decision
<1>3. \A k \in DOMAIN parcels : batch[k].av = parcels[k].av
  BY ReadParcel
<1>4. \A k \in DOMAIN parcels : Problems(batch[k]) = {} => batch[k].content = parcels[k].content
  <2> SUFFICES ASSUME NEW k \in DOMAIN parcels, Problems(batch[k]) = {}
               PROVE  batch[k].content = parcels[k].content
    OBVIOUS
  <2>1. ~(batch[k].size > MaxFileBytes)
    BY SoundParcel
  <2> QED BY <2>1, ReadParcel
<1>5. CASE i \notin Scanned(batch)
  <2>1. AntivirusRejects(parcels[i])
    BY <1>1, <1>3, <1>5 DEF Scanned, AntivirusRejects
  <2>2. Scanned(batch) # DOMAIN batch
    BY <1>1, <1>5
  <2> QED BY <1>2, <2>1, <2>2
<1>6. CASE TooLarge(batch)
  BY <1>2, <1>6 DEF Rejected
<1>7. CASE i \in Scanned(batch) /\ ~TooLarge(batch) /\ Problems(batch[i]) # {}
  <2>1. i \in Scanned(batch) \ Sound(batch)
    BY <1>7 DEF Sound
  <2>2. Reason(batch[i]) \in Rejected(batch)
    BY <1>7, <2>1 DEF Rejected
  <2> QED BY <1>1, <1>2, <1>7, <2>2
<1>8. CASE i \in Scanned(batch) /\ ~TooLarge(batch) /\ Problems(batch[i]) = {}
  <2> DEFINE copies == {j \in Sound(batch) : batch[j].content = batch[i].content}
             f == [j \in copies |-> 0 - j]
  <2>1. i \in copies
    BY <1>8 DEF Sound
  <2>2. copies \subseteq 1..Len(parcels) /\ DOMAIN parcels = 1..Len(parcels) /\ Len(parcels) \in Nat
    BY <1>1 DEF Sound, Scanned
  <2>3. IsFiniteSet(1..Len(parcels))
    BY <2>2, FS_Interval
  <2>4. IsFiniteSet(copies)
    <3> HIDE DEF copies
    <3> QED BY <2>2, <2>3, FS_Subset
  <2>5. f \in [copies -> Int]
    <3> HIDE DEF copies
    <3> QED BY <2>2
  <2>6. PICK j \in copies : \A k \in copies : f[k] <= f[j]
    <3> HIDE DEF copies, f
    <3> QED BY <2>1, <2>4, <2>5, FiniteMax
  <2>7. \A k \in copies : j <= k
    <3> HIDE DEF copies
    <3> QED BY <2>2, <2>6
  <2>8. j \in First(batch)
    BY <2>7 DEF First
  <2>9. batch[j] \in Accepted(batch)
    BY <1>8, <2>8 DEF Accepted
  <2>10. i \in DOMAIN parcels /\ batch[i].content = parcels[i].content
    BY <1>4, <1>8
  <2> HIDE DEF batch
  <2> QED BY <1>2, <2>6, <2>9, <2>10
<1> QED BY <1>1, <1>5, <1>6, <1>7, <1>8

LEMMA RequestTyped ==
  ASSUME NEW request \in Requests
  PROVE  request.stage \in DocStage /\ request.accepted \subseteq Content
<1>1. PICK s \in DocStage : \E batch \in Batches(s) :
        request = [stage |-> s, accepted |-> AcceptedFrom(batch)]
  BY DEF Requests
<1>2. PICK batch \in Batches(s) : request = [stage |-> s, accepted |-> AcceptedFrom(batch)]
  BY <1>1
<1> DEFINE parcels == [i \in DOMAIN batch |-> ParcelOf[batch[i]]]
<1>3. PICK n \in 1..MaxBatch : batch \in [1..n -> Content]
  BY <1>2 DEF Batches
<1>4. n \in Nat /\ ParcelOf \in [Content -> Parcel] /\ MaxBatch \in Nat
  BY PackageAssumption
<1>5. parcels \in Seq(Parcel)
  BY <1>3, <1>4
<1>6. \A p \in Decision(parcels).accepted : p \in Parcel
  BY <1>5, AcceptedInOrder
<1>7. \A p \in Decision(parcels).accepted : p.content \in Content
  BY <1>6 DEF Parcel
<1>8. AcceptedFrom(batch) = {p.content : p \in Decision(parcels).accepted}
  BY DEF AcceptedFrom
<1> HIDE DEF parcels
<1> QED BY <1>2, <1>7, <1>8

-----------------------------------------------------------------------------
(* The recorded links.                                                     *)

Attached == [file : File, pred : File \cup {NoFile}, succ : File \cup {NoFile}]

\* One record per file; links are mutual, stay within the files and are no
\* loop of one.
Links(files) ==
  /\ files \subseteq Attached
  /\ \A a, b \in files : a.file = b.file => a = b
  /\ \A a, b \in files : a.succ = b.file <=> b.pred = a.file
  /\ \A a \in files : {a.pred, a.succ} \subseteq FilesOf(files) \cup {NoFile}
  /\ \A a \in files : a.pred # a.file

LEMMA UnlinkedFields ==
  ASSUME NEW f \in File
  PROVE  /\ Unlinked(f) \in Attached /\ Unlinked(f).file = f
         /\ Unlinked(f).pred = NoFile /\ Unlinked(f).succ = NoFile
BY DEF Unlinked, Attached

\* The members of an archive join without links.
LEMMA ExpandLinks ==
  ASSUME NEW files, Links(files), NEW lost
  PROVE  Links(Expand(files, lost))
<1> DEFINE inside == UNION {Members[f] : f \in FilesOf(files) \ lost}
           new == inside \ FilesOf(files)
           all == files \cup {Unlinked(m) : m \in new}
<1>1. Expand(files, lost) = all
  BY DEF Expand
<1>2. FilesOf(files) \subseteq File
  BY DEF FilesOf, Links, Attached
<1>3. new \subseteq File /\ new \cap FilesOf(files) = {}
  BY <1>2, PackageAssumption
<1>4. \A x \in all : \/ x \in files /\ x.file \in FilesOf(files)
                     \/ /\ x.file \in new /\ x = Unlinked(x.file) /\ x.file \in File
                        /\ x.pred = NoFile /\ x.succ = NoFile
  <2> HIDE DEF new
  <2> QED BY <1>3, UnlinkedFields DEF FilesOf
<1>5. FilesOf(files) \subseteq FilesOf(all)
  BY DEF FilesOf
<1>6. NoFile \notin File
  BY RevisionsAssumption
<1> HIDE DEF new, all
<1>7. all \subseteq Attached
  BY <1>4, UnlinkedFields DEF Links
<1>8. ASSUME NEW a \in all, NEW b \in all, a.file = b.file PROVE a = b
  BY <1>3, <1>4, <1>8 DEF Links
<1>9. ASSUME NEW a \in all, NEW b \in all PROVE a.succ = b.file <=> b.pred = a.file
  <2>1. a.file \in File /\ b.file \in File
    BY <1>7 DEF Attached
  <2>2. a \in files => a.succ \in FilesOf(files) \cup {NoFile}
    BY DEF Links
  <2>3. b \in files => b.pred \in FilesOf(files) \cup {NoFile}
    BY DEF Links
  <2>4. CASE a \in files /\ b \in files
    BY <2>4 DEF Links
  <2>5. CASE ~(a \in files /\ b \in files)
    BY <1>3, <1>4, <1>6, <2>1, <2>2, <2>3, <2>5
  <2> QED BY <2>4, <2>5
<1>10. ASSUME NEW a \in all PROVE {a.pred, a.succ} \subseteq FilesOf(all) \cup {NoFile}
  <2>1. CASE a \in files
    BY <1>5, <2>1 DEF Links
  <2> QED BY <1>4, <2>1
<1>11. ASSUME NEW a \in all PROVE a.pred # a.file
  BY <1>4, <1>6 DEF Links
<1> QED BY <1>1, <1>7, <1>8, <1>9, <1>10, <1>11 DEF Links

\* _attach_new_files: a batch without a predecessor is unlinked, a predecessor
\* has no successor yet and gets exactly one.
LEMMA LinkLinks ==
  ASSUME NEW files, Links(files), NEW new, new \subseteq File, new \cap FilesOf(files) = {},
         NEW prior,
         \/ prior = NoFile
         \/ /\ \E x : new = {x}
            /\ \E a \in files : a.file = prior /\ a.succ = NoFile
  PROVE  /\ Links(Link(files, new, prior))
         /\ FilesOf(Link(files, new, prior)) = FilesOf(files) \cup new
<1> DEFINE head == CHOOSE f \in new : TRUE
           Old(a) == [a EXCEPT !.succ = IF a.file = prior THEN head ELSE @]
           New(f) == [Unlinked(f) EXCEPT !.pred = prior]
           link == {Old(a) : a \in files} \cup {New(f) : f \in new}
<1>1. NoFile \notin File
  BY RevisionsAssumption
<1>2. \A a \in files : a.file \in File /\ a.pred \in File \cup {NoFile} /\ a.succ \in File \cup {NoFile}
  BY DEF Links, Attached
<1>3. prior # NoFile => new = {head} /\ head \in new /\ prior \in File
  <2>1. ASSUME NEW x, new = {x} PROVE head = x
    BY <2>1
  <2> QED BY <1>2, <2>1
<1>4. ASSUME NEW a \in files
      PROVE  /\ Old(a) \in Attached /\ Old(a).file = a.file /\ Old(a).pred = a.pred
             /\ Old(a).succ = IF a.file = prior THEN head ELSE a.succ
  <2>1. a \in Attached /\ (a.file = prior => head \in File)
    BY <1>1, <1>2, <1>3 DEF Links
  <2> DEFINE succ == IF a.file = prior THEN head ELSE a.succ
  <2>2. Old(a) = [a EXCEPT !.succ = succ]
    BY <2>1 DEF Attached
  <2>3. succ \in File \cup {NoFile}
    BY <1>2, <2>1
  <2> HIDE DEF succ
  <2>4. [a EXCEPT !.succ = succ] \in Attached
    BY <2>1, <2>3 DEF Attached
  <2>5. /\ [a EXCEPT !.succ = succ].file = a.file /\ [a EXCEPT !.succ = succ].pred = a.pred
        /\ [a EXCEPT !.succ = succ].succ = succ
    BY <2>1 DEF Attached
  <2> HIDE DEF Old
  <2> QED BY <2>2, <2>4, <2>5 DEF succ
<1>5. ASSUME NEW f \in new
      PROVE  /\ New(f) \in Attached /\ New(f).file = f /\ New(f).pred = prior
             /\ New(f).succ = NoFile
  BY <1>3 DEF Unlinked, Attached
<1> HIDE DEF head, Old, New
<1>6. \A x \in link : \/ \E a \in files : x = Old(a)
                      \/ \E f \in new : x = New(f)
  OBVIOUS
<1>7. FilesOf(link) = FilesOf(files) \cup new
  <2>1. \A a \in files : a.file \in FilesOf(link)
    BY <1>4 DEF FilesOf
  <2>2. \A f \in new : f \in FilesOf(link)
    BY <1>5 DEF FilesOf
  <2>3. \A x \in link : x.file \in FilesOf(files) \cup new
    BY <1>4, <1>5, <1>6 DEF FilesOf
  <2> HIDE DEF link
  <2> QED BY <2>1, <2>2, <2>3 DEF FilesOf
<1> HIDE DEF link
<1>8. link \subseteq Attached
  BY <1>4, <1>5, <1>6
<1>9. \A a \in files, f \in new : a.file # f
  BY DEF FilesOf
<1>10. ASSUME NEW x \in link, NEW y \in link, x.file = y.file PROVE x = y
  BY <1>4, <1>5, <1>6, <1>9, <1>10 DEF Links
<1>11. \A a \in files : {a.pred, a.succ} \subseteq FilesOf(files) \cup {NoFile}
  BY DEF Links
<1>12. prior # NoFile => prior \in FilesOf(files) /\ \A a \in files : a.file = prior => a.succ = NoFile
  BY DEF FilesOf, Links
<1>13. ASSUME NEW x \in link, NEW y \in link PROVE x.succ = y.file <=> y.pred = x.file
  <2>1. CASE \E a \in files, b \in files : x = Old(a) /\ y = Old(b)
    <3>1. PICK a \in files, b \in files : x = Old(a) /\ y = Old(b)
      BY <2>1
    <3>2. x.file = a.file /\ y.file = b.file /\ y.pred = b.pred /\ (a.succ = b.file <=> b.pred = a.file)
      BY <1>4, <3>1 DEF Links
    <3>3. CASE a.file = prior
      <4>1. x.succ = head /\ head \in new /\ a.succ = NoFile
        BY <1>1, <1>2, <1>3, <1>4, <1>12, <3>1, <3>3
      <4>2. b.file # NoFile /\ head # b.file
        BY <1>1, <1>2, <1>9, <4>1
      <4> QED BY <3>2, <4>1, <4>2
    <3>4. CASE a.file # prior
      BY <1>4, <3>1, <3>2, <3>4
    <3> QED BY <3>3, <3>4
  <2>2. CASE \E a \in files, f \in new : x = Old(a) /\ y = New(f)
    <3>1. PICK a \in files, f \in new : x = Old(a) /\ y = New(f)
      BY <2>2
    <3>2. x.file = a.file /\ y.file = f /\ y.pred = prior /\ f \in File /\ a.file \in File
      BY <1>2, <1>4, <1>5, <3>1
    <3>3. CASE a.file = prior
      BY <1>1, <1>3, <1>4, <3>1, <3>2, <3>3
    <3>4. CASE a.file # prior
      <4>1. x.succ = a.succ /\ a.succ \in FilesOf(files) \cup {NoFile}
        BY <1>4, <1>11, <3>1, <3>4
      <4> QED BY <1>1, <3>2, <3>4, <4>1
    <3> QED BY <3>3, <3>4
  <2>3. CASE \E f \in new, b \in files : x = New(f) /\ y = Old(b)
    <3>1. PICK f \in new, b \in files : x = New(f) /\ y = Old(b)
      BY <2>3
    <3>2. /\ x.file = f /\ x.succ = NoFile /\ y.file = b.file /\ y.pred = b.pred
          /\ b.pred \in FilesOf(files) \cup {NoFile} /\ b.file # NoFile /\ f # NoFile
      BY <1>1, <1>2, <1>4, <1>5, <1>11, <3>1
    <3> QED BY <3>2
  <2>4. CASE \E f \in new, g \in new : x = New(f) /\ y = New(g)
    <3>1. PICK f \in new, g \in new : x = New(f) /\ y = New(g)
      BY <2>4
    <3>2. /\ x.file = f /\ x.succ = NoFile /\ y.file = g /\ y.pred = prior
          /\ f # NoFile /\ g # NoFile
      BY <1>1, <1>5, <3>1
    <3>3. prior # f
      BY <1>12, <3>2
    <3> QED BY <3>2, <3>3
  <2> QED BY <1>6, <2>1, <2>2, <2>3, <2>4
<1>14. ASSUME NEW x \in link PROVE {x.pred, x.succ} \subseteq FilesOf(link) \cup {NoFile}
  <2>1. CASE \E a \in files : x = Old(a)
    <3>1. PICK a \in files : x = Old(a)
      BY <2>1
    <3>2. x.pred = a.pred /\ x.succ = IF a.file = prior THEN head ELSE a.succ
      BY <1>4, <3>1
    <3>3. a.file = prior => head \in new
      BY <1>1, <1>2, <1>3
    <3> QED BY <1>7, <1>11, <3>2, <3>3
  <2>2. CASE \E f \in new : x = New(f)
    BY <1>5, <1>7, <1>12, <2>2
  <2> QED BY <1>6, <2>1, <2>2
<1>15. ASSUME NEW x \in link PROVE x.pred # x.file
  <2>1. CASE \E a \in files : x = Old(a)
    BY <1>4, <2>1 DEF Links
  <2>2. CASE \E f \in new : x = New(f)
    <3>1. PICK f \in new : x = New(f)
      BY <2>2
    <3>2. f # NoFile /\ x.file = f /\ x.pred = prior
      BY <1>1, <1>5, <3>1
    <3> QED BY <1>12, <3>2
  <2> QED BY <1>6, <2>1, <2>2
<1>16. Links(link)
  BY <1>8, <1>10, <1>13, <1>14, <1>15 DEF Links
<1>17. Link(files, new, prior) = link
  BY DEF Link, link, Old, New, head
<1> QED BY <1>7, <1>16, <1>17

-----------------------------------------------------------------------------
(* The pool of a run.                                                      *)

LEMMA DocumentTyped ==
  ASSUME NEW a \in Attached, NEW blind
  PROVE  /\ DocumentOf(a, blind) \in DocumentRef
         /\ DocumentOf(a, blind).file = a.file
         /\ DocumentOf(a, blind).pred = a.pred /\ DocumentOf(a, blind).succ = a.succ
         /\ a.file \notin blind => DocumentOf(a, blind).approval = Passport[a.file].approval
<1> DEFINE says == Passport[a.file]
<1>1. a.file \in File /\ a.pred \in File \cup {NoFile} /\ a.succ \in File \cup {NoFile}
  BY DEF Attached
<1>2. /\ says.stage \in DocStage
      /\ says.key \in Key \cup {Blank} /\ says.nameKey \in Key \cup {Blank}
      /\ says.approval \in ApprovalStatus
      /\ says.volume \in Volume \cup {Blank} /\ says.marks \in SUBSET {"change", "correction"}
      /\ says.number \in Nat \cup {Unread} /\ says.title \in Nat \cup {Unread}
      /\ says.titleKind \in {"change", "correction", "none"}
  BY <1>1, PackageAssumption
<1> HIDE DEF says
<1> QED BY <1>1, <1>2 DEF DocumentOf, DocumentRef, ApprovalStatus, ApprovalBasis, says

LEMMA ApprovalKeeps ==
  ASSUME NEW d \in DocumentRef, NEW chosen \in BOOLEAN
  PROVE  /\ ApprovalWithBasis(d, chosen) \in DocumentRef
         /\ ApprovalWithBasis(d, chosen).file = d.file
         /\ ApprovalWithBasis(d, chosen).pred = d.pred
         /\ ApprovalWithBasis(d, chosen).succ = d.succ
         /\ d.approval = "NOT_APPROVED" => ApprovalWithBasis(d, chosen).approval = "NOT_APPROVED"
<1>1. CASE ~(chosen /\ d.approval = "UNKNOWN")
  BY <1>1 DEF ApprovalWithBasis
<1>2. CASE chosen /\ d.approval = "UNKNOWN"
  <2>1. ApprovalWithBasis(d, chosen) = [d EXCEPT !.approval = "APPROVED", !.basis = "INSPECTOR_SELECT"]
    BY <1>2 DEF ApprovalWithBasis
  <2>2. "APPROVED" \in ApprovalStatus /\ "INSPECTOR_SELECT" \in ApprovalBasis
    BY DEF ApprovalStatus, ApprovalBasis
  <2> QED BY <1>2, <2>1, <2>2 DEF DocumentRef
<1> QED BY <1>1, <1>2

\* Whatever a run loses or reads blindly, its pool is one the first part is
\* about, and a stamp that was read and refuses is kept.
LEMMA PoolPooled ==
  ASSUME NEW files, Links(files), NEW sel, NEW run
  PROVE  /\ Pooled(Pool(files, sel, run))
         /\ \A d \in Pool(files, sel, run) :
              d.file \notin run.blind /\ Passport[d.file].approval = "NOT_APPROVED"
                => d.approval = "NOT_APPROVED"
<1> DEFINE all == Expand(files, run.lost)
           read == {b \in all : b.file \notin run.lost /\ Members[b.file] = {}}
           docs == {DocumentOf(a, run.blind) : a \in read}
           pool == {ApprovalWithBasis(d, d.file \in sel) : d \in docs}
<1>1. Pool(files, sel, run) = pool
  BY DEF Pool, PoolOf
<1>2. Links(all)
  BY ExpandLinks
<1>3. read \subseteq all
  OBVIOUS
<1> HIDE DEF all, read
<1>4. ASSUME NEW d \in pool
      PROVE  \E a \in all :
               /\ d \in DocumentRef /\ d.file = a.file /\ d.pred = a.pred /\ d.succ = a.succ
               /\ d = ApprovalWithBasis(DocumentOf(a, run.blind), a.file \in sel)
               /\ d.file \notin run.blind /\ Passport[d.file].approval = "NOT_APPROVED"
                    => d.approval = "NOT_APPROVED"
  <2>1. PICK a \in read : d = ApprovalWithBasis(DocumentOf(a, run.blind),
                                                DocumentOf(a, run.blind).file \in sel)
    OBVIOUS
  <2>2. a \in all /\ a \in Attached
    BY <1>2, <1>3 DEF Links
  <2> DEFINE o == DocumentOf(a, run.blind)
  <2>3. /\ o \in DocumentRef /\ o.file = a.file /\ o.pred = a.pred /\ o.succ = a.succ
        /\ a.file \notin run.blind => o.approval = Passport[a.file].approval
    BY <2>2, DocumentTyped
  <2>4. (o.file \in sel) \in BOOLEAN
    OBVIOUS
  <2> HIDE DEF o
  <2>5. d = ApprovalWithBasis(o, o.file \in sel)
    BY <2>1 DEF o
  <2>6. /\ d \in DocumentRef /\ d.file = o.file /\ d.pred = o.pred /\ d.succ = o.succ
        /\ o.approval = "NOT_APPROVED" => d.approval = "NOT_APPROVED"
    BY <2>3, <2>4, <2>5, ApprovalKeeps
  <2>7. d = ApprovalWithBasis(o, a.file \in sel)
    BY <2>3, <2>5
  <2> QED BY <2>2, <2>3, <2>6, <2>7 DEF o
<1> HIDE DEF pool
<1>5. pool \subseteq DocumentRef
  BY <1>4
<1>6. ASSUME NEW d \in pool, NEW e \in pool
      PROVE  /\ d.file = e.file => d = e
             /\ d.succ = e.file <=> e.pred = d.file
             /\ d.pred # d.file
  <2>1. PICK a \in all : /\ d.file = a.file /\ d.pred = a.pred /\ d.succ = a.succ
                         /\ d = ApprovalWithBasis(DocumentOf(a, run.blind), a.file \in sel)
    BY <1>4
  <2>2. PICK b \in all : /\ e.file = b.file /\ e.pred = b.pred /\ e.succ = b.succ
                         /\ e = ApprovalWithBasis(DocumentOf(b, run.blind), b.file \in sel)
    BY <1>4
  <2>3. (a.file = b.file => a = b) /\ (a.succ = b.file <=> b.pred = a.file) /\ a.pred # a.file
    BY <1>2 DEF Links
  <2> QED BY <2>1, <2>2, <2>3
<1>7. Pooled(pool)
  BY <1>5, <1>6 DEF Pooled
<1> QED BY <1>1, <1>4, <1>7

-----------------------------------------------------------------------------
(* The invariants of the process.                                          *)

Inv == TypeOK /\ Links(attached)

LEMMA InitInv == Init => Inv
BY DEF Init, Inv, TypeOK, Links, Files, FilesOf

\* What TypeOK says follows from the links and from the shape of the rest.
Shaped ==
  /\ Links(attached) /\ selected \subseteq Files
  /\ state \in {"NONE", "PARSING", "READY"} /\ scheduled \in BOOLEAN
  /\ last # NoRun => last.lost \cup last.blind \subseteq File /\ last.selected \subseteq selected

LEMMA ShapedInv == Shaped <=> Inv
<1>1. Links(attached) => (last # NoRun => LastPool \subseteq DocumentRef)
  BY PoolPooled DEF LastPool, Pooled
<1>2. Links(attached) =>
        /\ attached \in SUBSET [file : File, pred : File \cup {NoFile}, succ : File \cup {NoFile}]
        /\ \A a, b \in attached : a.file = b.file => a = b
        /\ \A a, b \in attached : a.succ = b.file <=> b.pred = a.file
        /\ \A a \in attached : {a.pred, a.succ} \subseteq Files \cup {NoFile}
  BY DEF Links, Attached, Files
<1> QED BY <1>1, <1>2 DEF Shaped, Inv, TypeOK

LEMMA UnreadingTyped ==
  ASSUME Shaped, NEW run \in Unreading
  PROVE  run.lost \cup run.blind \subseteq File
<1>1. Links(Expand(attached, {}))
  BY ExpandLinks DEF Shaped
<1>2. FilesOf(Expand(attached, {})) \subseteq File
  BY <1>1 DEF Links, Attached, FilesOf
<1> QED BY <1>2 DEF Unreading

\* What an upload attaches.
LEMMA UploadLinks ==
  ASSUME Links(attached), NEW request \in Requests, NEW prior \in Files \cup {NoFile},
         Upload(request, prior), NEW new, new = request.accepted \ Files
  PROVE  /\ new \subseteq File /\ new \cap FilesOf(attached) = {} /\ new # {}
         /\ attached' = Link(attached, new, prior) /\ UNCHANGED selected
         /\ Links(attached') /\ FilesOf(attached') = FilesOf(attached) \cup new
<1>1. new \subseteq File /\ new \cap Files = {} /\ new # {}
  BY RequestTyped, PackageAssumption DEF Upload
<1>2. \/ prior = NoFile
      \/ /\ \E x : new = {x}
         /\ \E a \in attached : a.file = prior /\ a.succ = NoFile
  <2>1. CASE prior = NoFile
    BY <2>1
  <2>2. CASE prior # NoFile
    <3>1. Cardinality(request.accepted) = 1 /\ \E a \in attached : a.file = prior /\ a.succ = NoFile
      BY <2>2 DEF Upload, MayReplace
    <3>2. IsFiniteSet(request.accepted)
      BY RequestTyped, PackageAssumption, RevisionsAssumption, FS_Subset
    <3>3. PICK x : request.accepted = {x}
      BY <3>1, <3>2, OneOf
    <3>4. new = {x}
      BY <1>1, <3>3
    <3> QED BY <3>1, <3>4
  <2> QED BY <2>1, <2>2
<1>3. new \cap FilesOf(attached) = {}
  BY <1>1 DEF Files
<1>4. Links(Link(attached, new, prior)) /\ FilesOf(Link(attached, new, prior)) = FilesOf(attached) \cup new
  BY <1>1, <1>2, <1>3, LinkLinks
<1>5. attached' = Link(attached, new, prior) /\ selected' = selected
  BY DEF Upload
<1> QED BY <1>1, <1>3, <1>4, <1>5

LEMMA UploadKeeps ==
  ASSUME Shaped, NEW request \in Requests, NEW prior \in Files \cup {NoFile}, Upload(request, prior)
  PROVE  Shaped'
<1> DEFINE new == request.accepted \ Files
<1>1. /\ Links(attached') /\ UNCHANGED selected
      /\ FilesOf(attached') = FilesOf(attached) \cup new
  BY UploadLinks DEF Shaped
<1> HIDE DEF new
<1>2. Links(attached') /\ Files' = Files \cup new
  BY <1>1 DEF Files
<1> QED BY <1>1, <1>2 DEF Shaped, Upload

LEMMA RunKeeps ==
  ASSUME Shaped, NEW run \in Unreading, Run(run)
  PROVE  Shaped'
<1> DEFINE outcome == Outcome(selected, run)
<1>0. /\ RunEnds(outcome) /\ UNCHANGED selected /\ scheduled' = FALSE
      /\ outcome.lost = run.lost /\ outcome.blind = run.blind /\ outcome.selected = selected
  BY DEF Run, Outcome
<1> HIDE DEF outcome
<1>1. CASE UNCHANGED <<attached, state, last>>
  BY <1>0, <1>1 DEF Shaped, Files, FilesOf
<1>2. CASE attached' = Expand(attached, run.lost) /\ state' = "READY" /\ last' = outcome
  <2>1. Links(attached')
    BY <1>2, ExpandLinks DEF Shaped
  <2>2. Files \subseteq Files'
    BY <1>2 DEF Expand, Files, FilesOf
  <2>3. /\ last'.lost = run.lost /\ last'.blind = run.blind /\ last'.selected = selected
    BY <1>0, <1>2
  <2> QED BY <1>0, <1>2, <2>1, <2>2, <2>3, UnreadingTyped DEF Shaped
<1> QED BY <1>0, <1>1, <1>2 DEF RunEnds

LEMMA SelectKeeps ==
  ASSUME Shaped, NEW f \in Files, NEW run \in Unreading, Select(f, run)
  PROVE  Shaped'
<1> DEFINE outcome == Outcome(selected \cup {f}, run)
<1>1. /\ Files' = Files /\ Links(attached') /\ selected' = selected \cup {f}
      /\ UNCHANGED <<state, scheduled>> /\ ChoiceEnds(outcome)
  BY DEF Select, Shaped, Files, FilesOf
<1>2. /\ outcome.lost = run.lost /\ outcome.blind = run.blind
      /\ outcome.selected = selected \cup {f}
  BY DEF Outcome
<1> HIDE DEF outcome
<1>3. CASE UNCHANGED last
  BY <1>1, <1>3 DEF Shaped
<1>4. CASE last' = outcome
  BY <1>1, <1>2, <1>4, UnreadingTyped DEF Shaped
<1> QED BY <1>1, <1>3, <1>4 DEF ChoiceEnds

LEMMA NextKeeps == Inv /\ [Next]_vars => Inv'
<1> SUFFICES ASSUME Shaped, [Next]_vars PROVE Shaped'
  BY ShapedInv, PTL
<1>1. ASSUME NEW request \in Requests, NEW prior \in Files \cup {NoFile}, Upload(request, prior)
      PROVE  Shaped'
  BY <1>1, UploadKeeps
<1>2. ASSUME NEW run \in Unreading, Run(run) PROVE Shaped'
  BY <1>2, RunKeeps
<1>3. ASSUME NEW f \in Files, NEW run \in Unreading, Select(f, run)
      PROVE  Shaped'
  BY <1>3, SelectKeeps
<1>4. CASE UNCHANGED vars
  <2>1. UNCHANGED attached /\ UNCHANGED selected /\ UNCHANGED state /\ UNCHANGED scheduled /\ UNCHANGED last
    BY <1>4 DEF vars
  <2> QED BY <2>1 DEF Shaped, Files, FilesOf
<1> QED BY <1>1, <1>2, <1>3, <1>4 DEF Next

\* The links of the attached files are mutual and the pool of the last run is
\* well-formed, whatever is uploaded, superseded, unpacked and chosen.
THEOREM Typed == Spec => []TypeOK
<1>1. Inv => TypeOK
  BY DEF Inv
<1> QED BY <1>1, InitInv, NextKeeps, PTL DEF Spec

LEMMA HeadsOfPool ==
  ASSUME NEW pool, NEW s, NEW sel, NEW h \in StageHeads(pool, s, sel)
  PROVE  \E i \in ResolveHeadsByIdentity(pool, s, sel) : h \in i.resolution.doc
BY DEF StageHeads

LEMMA InvEtalons == Inv => EtalonIsLast
<1> SUFFICES ASSUME Inv, last # NoRun, NEW h \in LastHeads
             PROVE  \E g \in LastPool :
      /\ g.file = h.file
      /\ h.file \in last.blind \/ Passport[h.file].approval # "NOT_APPROVED"
      /\ h.file \notin last.selected => \A d \in LastPool : ~Replaces(d, g)
      /\ h.stage = "PD" /\ h.approval # "APPROVED" =>
           /\ SoleHead /\ h.basis = "SOLE_HEAD"
           /\ h.key # Blank =>
                \A d \in LastPool : d.stage = "PD" /\ d.key = h.key => d.approval # "APPROVED"
  BY DEF EtalonIsLast
<1>1. Pooled(LastPool) /\ \A d \in LastPool :
              d.file \notin last.blind /\ Passport[d.file].approval = "NOT_APPROVED"
                => d.approval = "NOT_APPROVED"
  BY PoolPooled DEF Inv, LastPool
<1>2. PICK s \in DocStage : h \in StageHeads(LastPool, s, last.selected)
  BY DEF LastHeads
<1>3. PICK i \in ResolveHeadsByIdentity(LastPool, s, last.selected) : h \in i.resolution.doc
  BY <1>2, HeadsOfPool
<1>4. PICK g \in LastPool : LastRevision(h, g, LastPool, last.selected)
  BY <1>1, <1>3, HeadIsLast
<1> HIDE DEF LastPool, LastHeads
<1> QED BY <1>1, <1>4 DEF LastRevision

\* What a run compares is, as far as the run could read, the last revision of
\* its document or the one the inspector chose, never a refused one, and an
\* unapproved design only alone.
THEOREM EtalonsAreLast == Spec => []EtalonIsLast
BY InitInv, NextKeeps, InvEtalons, PTL DEF Spec

-----------------------------------------------------------------------------
(* The rooms: one verdict for each.                                        *)

LEMMA LeastNumber ==
  ASSUME NEW S, S \subseteq Nat, S # {}
  PROVE  \E m \in S : \A n \in S : m <= n
<1>1. PICK n \in S : TRUE
  OBVIOUS
<1> DEFINE few == S \cap (0..n)
           down == [x \in few |-> -x]
<1>2. IsFiniteSet(few) /\ few # {} /\ down \in [few -> Int]
  <2>1. IsFiniteSet(0..n)
    BY <1>1, FS_Interval
  <2>2. IsFiniteSet(few)
    BY <2>1, FS_Subset
  <2> QED BY <1>1, <2>2
<1> HIDE DEF few
<1>3. PICK m \in few : \A x \in few : down[x] <= down[m]
  <2> HIDE DEF down
  <2> QED BY <1>2, FiniteMax
<1>4. \A x \in few : x \in Nat /\ m <= x
  BY <1>3 DEF few
<1>5. \A x \in S : x \in few \/ n < x
  BY <1>1 DEF few
<1> QED BY <1>1, <1>3, <1>4, <1>5 DEF few

\* A verdict on a room, the pages it names and, unless it abstains, the room.
Kinds == {"candidate", "suspicion", "match", "abstain"}
GoodDiffs(diffs) ==
  \A d \in diffs : /\ d.kind \in Kinds /\ PageOf(d.pd) \in Nat /\ PageOf(d.rd) \in Nat
                   /\ d.kind = "abstain" \/ d.room # NoRoom

LEMMA EarliestIsOne ==
  ASSUME NEW diffs, diffs # {}, GoodDiffs(diffs)
  PROVE  Earliest(diffs) \in diffs
<1>1. PICK m \in {PageOf(d.pd) : d \in diffs} : \A n \in {PageOf(d.pd) : d \in diffs} : m <= n
  <2>1. {PageOf(d.pd) : d \in diffs} \subseteq Nat
    BY DEF GoodDiffs
  <2>2. {PageOf(d.pd) : d \in diffs} # {}
    OBVIOUS
  <2> QED BY <2>1, <2>2, LeastNumber
<1> DEFINE first == {d \in diffs : PageOf(d.pd) = m}
<1>2. PICK k \in {PageOf(d.rd) : d \in first} : \A n \in {PageOf(d.rd) : d \in first} : k <= n
  <2>1. {PageOf(d.rd) : d \in first} \subseteq Nat
    BY DEF GoodDiffs
  <2>2. {PageOf(d.rd) : d \in first} # {}
    BY <1>1
  <2> QED BY <2>1, <2>2, LeastNumber
<1>3. PICK d \in diffs : PageOf(d.pd) = m /\ PageOf(d.rd) = k
  BY <1>2
<1>4. \A e \in diffs : Before(d, e)
  <2> TAKE e \in diffs
  <2>1. m <= PageOf(e.pd) /\ PageOf(e.pd) \in Nat /\ PageOf(d.pd) \in Nat
    BY <1>1 DEF GoodDiffs
  <2>2. PageOf(e.pd) = m => k <= PageOf(e.rd)
    BY <1>2
  <2> QED BY <1>3, <2>1, <2>2 DEF Before
<1> QED BY <1>4 DEF Earliest

LEMMA FewKinds ==
  ASSUME NEW K, K \subseteq Kinds
  PROVE  /\ IsFiniteSet(K) /\ Cardinality(K) \in Nat
         /\ Cardinality(K) = 1 => \E k : K = {k}
         /\ Cardinality(K) = 0 => K = {}
<1>1. IsFiniteSet(Kinds)
  <2>1. IsFiniteSet({}) /\ IsFiniteSet({} \cup {"candidate"})
    BY FS_EmptySet, FS_AddElement
  <2>2. IsFiniteSet({"candidate"} \cup {"suspicion"})
    <3>1. {} \cup {"candidate"} = {"candidate"}
      OBVIOUS
    <3> QED BY <2>1, <3>1, FS_AddElement
  <2>3. IsFiniteSet({"candidate", "suspicion"} \cup {"match"})
    <3>1. {"candidate"} \cup {"suspicion"} = {"candidate", "suspicion"}
      OBVIOUS
    <3> QED BY <2>2, <3>1, FS_AddElement
  <2>4. IsFiniteSet({"candidate", "suspicion", "match"} \cup {"abstain"})
    <3>1. {"candidate", "suspicion"} \cup {"match"} = {"candidate", "suspicion", "match"}
      OBVIOUS
    <3> QED BY <2>3, <3>1, FS_AddElement
  <2>5. {"candidate", "suspicion", "match"} \cup {"abstain"} = Kinds
    BY DEF Kinds
  <2> QED BY <2>4, <2>5
<1>2. IsFiniteSet(K)
  BY <1>1, FS_Subset
<1>3. Cardinality(K) \in Nat
  BY <1>2, FS_CardinalityType
<1>4. Cardinality(K) = 1 => \E k : K = {k}
  BY <1>2, OneOf
<1>5. Cardinality(K) = 0 => K = {}
  BY <1>2, FS_EmptySet
<1> QED BY <1>2, <1>3, <1>4, <1>5

\* What the collapse leaves of the verdicts on one room is one, and about it.
LEMMA VerdictIsOne ==
  ASSUME NEW r, NEW group, group # {}, GoodDiffs(group), \A d \in group : d.room = r
  PROVE  \E v \in group \cup {AbstainOn(r)} : VerdictOn(r, group) = {v} /\ v.room = r
<1> DEFINE sided == {d \in group : d.pd # NoSpot /\ d.rd # NoSpot}
           use == IF sided # {} THEN sided ELSE group
           kinds == {d.kind : d \in use}
           positives == kinds \cap {"candidate", "suspicion"}
           abstains == \E d \in group : d.kind = "abstain"
<1>1. AbstainOn(r).room = r
  BY DEF AbstainOn, RoomDiff
<1>2. use \subseteq group /\ use # {} /\ kinds # {} /\ kinds \subseteq Kinds
  BY DEF GoodDiffs
<1>3. VerdictOn(r, group) =
        CASE abstains -> {AbstainOn(r)}
          [] ~abstains /\ Cardinality(kinds) > 1 -> {AbstainOn(r)}
          [] ~abstains /\ Cardinality(kinds) = 1 /\ positives # {} ->
               {Earliest({d \in use : d.kind \in positives})}
          [] OTHER -> {Earliest({d \in use : d.kind = "match"})}
  BY DEF VerdictOn
<1>4. Cardinality(kinds) \in Nat /\ Cardinality(kinds) # 0
  BY <1>2, FewKinds
<1> HIDE DEF use
<1>5. ASSUME NEW some \in SUBSET use, some # {}
      PROVE  Earliest(some) \in group
  <2>1. GoodDiffs(some)
    BY <1>2 DEF GoodDiffs
  <2>2. Earliest(some) \in some
    BY <1>5, <2>1, EarliestIsOne
  <2> QED BY <1>2, <2>2
<1> DEFINE many == Cardinality(kinds) > 1
           one == Cardinality(kinds) = 1
           some1 == {d \in use : d.kind \in positives}
           some2 == {d \in use : d.kind = "match"}
           any == positives # {}
<1>9. /\ abstains => VerdictOn(r, group) = {AbstainOn(r)}
      /\ ~abstains /\ many => VerdictOn(r, group) = {AbstainOn(r)}
      /\ ~abstains /\ ~many /\ one /\ any => VerdictOn(r, group) = {Earliest(some1)}
      /\ ~abstains /\ ~many /\ ~any => VerdictOn(r, group) = {Earliest(some2)}
  <2>1. VerdictOn(r, group) =
          CASE abstains -> {AbstainOn(r)}
            [] ~abstains /\ many -> {AbstainOn(r)}
            [] ~abstains /\ one /\ any -> {Earliest(some1)}
            [] OTHER -> {Earliest(some2)}
    BY <1>3
  <2>2. one => ~many
    BY <1>4
  <2>3. abstains \in BOOLEAN /\ many \in BOOLEAN /\ one \in BOOLEAN /\ any \in BOOLEAN
    OBVIOUS
  <2> HIDE DEF abstains, many, one, any, some1, some2
  <2> QED BY <2>1, <2>2, <2>3
<1>6. CASE abstains \/ Cardinality(kinds) > 1
  <2>1. VerdictOn(r, group) = {AbstainOn(r)}
    BY <1>6, <1>9
  <2> QED BY <1>1, <2>1
<1>7. CASE ~abstains /\ Cardinality(kinds) = 1
  <2>1. PICK k : kinds = {k}
    BY <1>2, <1>7, FewKinds
  <2>2. PICK some \in SUBSET use : some # {} /\ VerdictOn(r, group) = {Earliest(some)}
    <3>1. CASE positives # {}
      <4>1. VerdictOn(r, group) = {Earliest({d \in use : d.kind \in positives})}
        BY <1>7, <1>9, <3>1
      <4>2. {d \in use : d.kind \in positives} # {}
        BY <3>1
      <4> QED BY <4>1, <4>2
    <3>2. CASE positives = {}
      <4>1. VerdictOn(r, group) = {Earliest({d \in use : d.kind = "match"})}
        BY <1>7, <1>9, <3>2
      <4>2. k = "match"
        BY <1>2, <1>7, <2>1, <3>2 DEF Kinds
      <4>3. {d \in use : d.kind = "match"} # {}
        BY <1>2, <2>1, <4>2
      <4> QED BY <4>1, <4>3
    <3> QED BY <3>1, <3>2
  <2>3. Earliest(some) \in group
    BY <1>5, <2>2
  <2> QED BY <2>2, <2>3
<1>8. abstains \/ Cardinality(kinds) > 1 \/ (~abstains /\ Cardinality(kinds) = 1)
  BY <1>4
<1> QED BY <1>6, <1>7, <1>8

\* So is what the collapse leaves of all verdicts.
OneEach(diffs) == \A d, e \in diffs : d.room = e.room /\ d.room # NoRoom => d = e

LEMMA CollapseIsOneEach ==
  ASSUME NEW diffs, GoodDiffs(diffs)
  PROVE  GoodDiffs(Collapse(diffs)) /\ OneEach(Collapse(diffs))
<1> DEFINE rooms == {d.room : d \in diffs} \ {NoRoom}
           group(r) == {d \in diffs : d.room = r}
           Of(r) == VerdictOn(r, group(r))
<1>1. ASSUME NEW r \in rooms
      PROVE  \E v \in group(r) \cup {AbstainOn(r)} : Of(r) = {v} /\ v.room = r
  <2>1. group(r) # {} /\ GoodDiffs(group(r)) /\ \A d \in group(r) : d.room = r
    BY DEF GoodDiffs
  <2> HIDE DEF group
  <2> QED BY <2>1, VerdictIsOne
<1>2. Collapse(diffs) = {d \in diffs : d.room = NoRoom} \cup UNION {Of(r) : r \in rooms}
  BY DEF Collapse
<1>3. \A r : /\ AbstainOn(r).kind \in Kinds /\ AbstainOn(r).kind = "abstain"
             /\ PageOf(AbstainOn(r).pd) \in Nat /\ PageOf(AbstainOn(r).rd) \in Nat
  BY DEF AbstainOn, RoomDiff, Kinds, PageOf
<1> HIDE DEF Of
<1>4. ASSUME NEW d \in Collapse(diffs)
      PROVE  /\ d \in diffs \/ \E r : d = AbstainOn(r)
             /\ d.room # NoRoom => d.room \in rooms /\ Of(d.room) = {d}
  <2>1. CASE d \in diffs /\ d.room = NoRoom
    BY <2>1
  <2>2. CASE \E r \in rooms : d \in Of(r)
    <3>1. PICK r \in rooms : d \in Of(r)
      BY <2>2
    <3>2. PICK v \in group(r) \cup {AbstainOn(r)} : Of(r) = {v} /\ v.room = r
      BY <1>1
    <3> QED BY <3>1, <3>2
  <2> QED BY <1>2, <2>1, <2>2
<1>5. GoodDiffs(Collapse(diffs))
  BY <1>3, <1>4 DEF GoodDiffs
<1>6. OneEach(Collapse(diffs))
  BY <1>4 DEF OneEach
<1> QED BY <1>5, <1>6

\* The sheets of a run, and the spots on them.
GoodSheet(s) == s.page \in Nat /\ Spots(s) \subseteq Nat
GoodSheets(sheets) == \A s \in sheets : GoodSheet(s)

LEMMA SpotPage ==
  ASSUME NEW s, s.page \in Nat, NEW r
  PROVE  PageOf(SpotOn(s, r)) \in Nat /\ SpotOn(s, r).page \in Nat /\ SpotOn(s, r).room = r
BY DEF SpotOn, PageOf

\* A room that counts has a number.
LEMMA RoomHasNumber ==
  ASSUME NEW s, GoodSheet(s), NEW room \in ChosenRooms(s)
  PROVE  room \in Nat /\ room # NoRoom
BY RoomsAssumption DEF GoodSheet, ChosenRooms

\* A spot is on no sheet, or has a page.
Placed(spot) == PageOf(spot) \in Nat

LEMMA BothSidedGood ==
  ASSUME NEW pd, NEW rd, Placed(pd), Placed(rd), pd.room # NoRoom
  PROVE  GoodDiffs(BothSided(pd, rd))
<1>1. \A d \in BothSided(pd, rd) : d \in {RoomDiff("candidate", pd.room, pd, rd),
                                          RoomDiff("suspicion", pd.room, pd, rd)}
  <2>1. CASE pd.marked /\ ~rd.marked
    BY <2>1 DEF BothSided
  <2>2. CASE ~(pd.marked /\ ~rd.marked) /\ rd.marked /\ ~pd.marked
    BY <2>2 DEF BothSided
  <2>3. CASE ~(pd.marked /\ ~rd.marked) /\ ~(rd.marked /\ ~pd.marked)
    BY <2>3 DEF BothSided
  <2> QED BY <2>1, <2>2, <2>3
<1> QED BY <1>1 DEF GoodDiffs, RoomDiff, Kinds, Placed

LEMMA AbstainGood ==
  ASSUME NEW r
  PROVE  /\ AbstainOn(r).kind \in Kinds /\ AbstainOn(r).kind = "abstain"
         /\ PageOf(AbstainOn(r).pd) \in Nat /\ PageOf(AbstainOn(r).rd) \in Nat
BY DEF AbstainOn, RoomDiff, Kinds, PageOf

LEMMA PairDiffsGood ==
  ASSUME NEW p, NEW r, GoodSheet(p), GoodSheet(r), ChosenRooms(p) # {}, NEW max
  PROVE  GoodDiffs(PairDiffs(p, r, max))
<1> DEFINE both == UNION {BothSided(SpotOn(p, room), SpotOn(r, room)) :
                            room \in ChosenRooms(p) \cap ChosenRooms(r)}
           onR == {RoomDiff("suspicion", room, NoSpot, SpotOn(r, room)) :
                     room \in ChosenRooms(r) \ ChosenRooms(p)}
           onP == {RoomDiff("suspicion", room, SpotOn(p, room), NoSpot) :
                     room \in ChosenRooms(p) \ ChosenRooms(r)}
           first == Sets!Min(ChosenRooms(p))
<1>1. PageOf(NoSpot) \in Nat
  BY DEF PageOf
<1>2. \A room : Placed(SpotOn(p, room)) /\ Placed(SpotOn(r, room)) /\ SpotOn(p, room).room = room
  BY SpotPage DEF Placed, GoodSheet
<1>0. \A room \in ChosenRooms(p) \cup ChosenRooms(r) : room \in Nat /\ room # NoRoom
  BY RoomHasNumber
<1>3. GoodDiffs(both)
  <2>1. ASSUME NEW room \in ChosenRooms(p) \cap ChosenRooms(r)
        PROVE  GoodDiffs(BothSided(SpotOn(p, room), SpotOn(r, room)))
    BY <1>0, <1>2, BothSidedGood
  <2> QED BY <2>1 DEF GoodDiffs
<1>4. GoodDiffs(onR) /\ GoodDiffs(onP)
  BY <1>0, <1>1, <1>2 DEF GoodDiffs, RoomDiff, Kinds, Placed
<1>5. DiffsOf(p, r) = both \cup onR \cup onP
  BY DEF DiffsOf
<1> HIDE DEF both, onR, onP
<1>6. GoodDiffs(DiffsOf(p, r))
  BY <1>3, <1>4, <1>5 DEF GoodDiffs
<1>7. GoodDiffs({AbstainOn(NoRoom)})
  BY AbstainGood DEF GoodDiffs
<1>8. GoodDiffs({MatchOn(p, r, first)})
  <2>1. first \in ChosenRooms(p)
    <3>1. \E m \in ChosenRooms(p) : \A n \in ChosenRooms(p) : m <= n
      BY <1>0, LeastNumber
    <3> QED BY <3>1 DEF Sets!Min
  <2>2. first # NoRoom
    BY <1>0, <2>1
  <2> HIDE DEF first
  <2> QED BY <1>2, <2>2 DEF GoodDiffs, MatchOn, RoomDiff, Kinds, Placed
<1>9. \/ PairDiffs(p, r, max) = {AbstainOn(NoRoom)}
      \/ PairDiffs(p, r, max) = {MatchOn(p, r, first)}
      \/ PairDiffs(p, r, max) = DiffsOf(p, r)
  <2> DEFINE many == Cardinality(DiffsOf(p, r)) > max
             none == DiffsOf(p, r) = {}
  <2>1. PairDiffs(p, r, max) = CASE many -> {AbstainOn(NoRoom)} [] none -> {MatchOn(p, r, first)}
                                 [] OTHER -> DiffsOf(p, r)
    BY DEF PairDiffs, Judged
  <2>2. many \in BOOLEAN /\ none \in BOOLEAN
    OBVIOUS
  <2> HIDE DEF many, none, first
  <2> QED BY <2>1, <2>2
<1> QED BY <1>6, <1>7, <1>8, <1>9

LEMMA FirstSpotIsOne ==
  ASSUME NEW spots, spots # {}, \A s \in spots : s.page \in Nat
  PROVE  FirstSpot(spots) \in spots
<1>1. PICK m \in {s.page : s \in spots} : \A n \in {s.page : s \in spots} : m <= n
  BY LeastNumber
<1>2. \E s \in spots : \A t \in spots : s.page <= t.page
  BY <1>1
<1> QED BY <1>2 DEF FirstSpot

LEMMA PreferredIsPlaced ==
  ASSUME NEW sheets, GoodSheets(sheets), NEW r \in ShownRooms(sheets)
  PROVE  /\ Placed(PreferMarked(SpotsOn(sheets, r))) /\ PreferMarked(SpotsOn(sheets, r)).room = r
         /\ r # NoRoom
<1> DEFINE spots == SpotsOn(sheets, r)
           marked == {s \in spots : s.marked}
<1>0. r # NoRoom
  BY RoomHasNumber DEF ShownRooms, GoodSheets
<1>1. spots # {} /\ \A s \in spots : s.page \in Nat /\ Placed(s) /\ s.room = r
  <2>1. \A s \in sheets : SpotOn(s, r).page \in Nat /\ Placed(SpotOn(s, r)) /\ SpotOn(s, r).room = r
    BY SpotPage DEF GoodSheets, GoodSheet, Placed
  <2> QED BY <2>1 DEF SpotsOn, ShownRooms
<1>2. \/ PreferMarked(spots) = FirstSpot(marked) /\ marked # {}
      \/ PreferMarked(spots) = FirstSpot(spots)
  BY DEF PreferMarked
<1> HIDE DEF spots
<1>3. marked # {} => FirstSpot(marked) \in spots
  <2>1. marked # {} => FirstSpot(marked) \in marked
    <3>1. \A s \in marked : s.page \in Nat
      BY <1>1
    <3> HIDE DEF marked
    <3> QED BY <3>1, FirstSpotIsOne
  <2> QED BY <2>1
<1>4. FirstSpot(spots) \in spots
  BY <1>1, FirstSpotIsOne
<1>5. PreferMarked(spots) \in spots
  BY <1>2, <1>3, <1>4
<1> QED BY <1>0, <1>1, <1>5 DEF spots

LEMMA UnionGood ==
  ASSUME NEW D, \A diffs \in D : GoodDiffs(diffs)
  PROVE  GoodDiffs(UNION D)
BY DEF GoodDiffs

LEMMA TwoGood ==
  ASSUME NEW D, NEW E, GoodDiffs(D), GoodDiffs(E)
  PROVE  GoodDiffs(D \cup E)
BY DEF GoodDiffs

LEMMA TokensGood ==
  ASSUME NEW pdSheets, NEW rdSheets, GoodSheets(pdSheets), GoodSheets(rdSheets), NEW settings
  PROVE  GoodDiffs(CompareRoomTokens(pdSheets, rdSheets, settings))
<1> DEFINE pairs == SheetPairs(pdSheets, rdSheets, settings)
           found == {q.diffs : q \in pairs}
           repeated == Repeated(pdSheets \cup rdSheets)
           collapsed == Collapse(repeated \cup UNION found)
           settled == {d.room : d \in collapsed} \cup Blocked(pairs)
           across == AcrossSheets(pdSheets, rdSheets, settled)
<1>1. \A diffs \in found : GoodDiffs(diffs)
  <2>1. ASSUME NEW q \in pdSheets \X rdSheets, ChosenRooms(q[1]) # {}
        PROVE  GoodDiffs(PairDiffs(q[1], q[2], settings.maxDiff))
    <3>1. GoodSheet(q[1]) /\ GoodSheet(q[2])
      BY DEF GoodSheets
    <3> QED BY <2>1, <3>1, PairDiffsGood
  <2>2. \A q \in pairs : \E x \in pdSheets \X rdSheets :
          ChosenRooms(x[1]) # {} /\ q.diffs = PairDiffs(x[1], x[2], settings.maxDiff)
    BY DEF SheetPairs
  <2> HIDE DEF pairs
  <2> QED BY <2>1, <2>2
<1>2. GoodDiffs(UNION found)
  <2> HIDE DEF found
  <2> QED BY <1>1, UnionGood
<1>3. GoodDiffs(repeated)
  <2>1. \A d \in repeated : \E r : d = AbstainOn(r)
    BY DEF Repeated
  <2> HIDE DEF repeated
  <2> QED BY <2>1, AbstainGood DEF GoodDiffs
<1> HIDE DEF found, repeated
<1>4. GoodDiffs(collapsed)
  BY <1>2, <1>3, TwoGood, CollapseIsOneEach
<1> HIDE DEF collapsed
<1>5. GoodDiffs(across)
  <2> DEFINE rooms == (ShownRooms(pdSheets) \cap ShownRooms(rdSheets)) \ settled
             On(r) == BothSided(PreferMarked(SpotsOn(pdSheets, r)), PreferMarked(SpotsOn(rdSheets, r)))
  <2>1. across = UNION {On(r) : r \in rooms}
    BY DEF AcrossSheets
  <2>2. ASSUME NEW r \in rooms PROVE GoodDiffs(On(r))
    <3>1. r \in ShownRooms(pdSheets) /\ r \in ShownRooms(rdSheets)
      OBVIOUS
    <3> QED BY <3>1, PreferredIsPlaced, BothSidedGood
  <2> HIDE DEF rooms, On
  <2>3. GoodDiffs(UNION {On(r) : r \in rooms})
    BY <2>2 DEF GoodDiffs
  <2> QED BY <2>1, <2>3
<1>6. CompareRoomTokens(pdSheets, rdSheets, settings) = Collapse(collapsed \cup across)
  BY DEF CompareRoomTokens, OverPairs, Settled, collapsed, found, repeated
<1> HIDE DEF across
<1> QED BY <1>4, <1>5, <1>6, TwoGood, CollapseIsOneEach

\* Over all volumes of both stages there is one verdict for each room.
LEMMA RoomsOnce ==
  ASSUME NEW pdVolumes, NEW rdVolumes, NEW settings,
         \A p \in pdVolumes : GoodSheets(p), \A r \in rdVolumes : GoodSheets(r)
  PROVE  OneEach(RoomDiffs(pdVolumes, rdVolumes, settings))
         /\ GoodDiffs(RoomDiffs(pdVolumes, rdVolumes, settings))
<1> DEFINE all == UNION {CompareRoomTokens(p, r, settings) : p \in pdVolumes, r \in rdVolumes}
<1>1. GoodDiffs(all)
  <2>1. \A p \in pdVolumes, r \in rdVolumes : GoodDiffs(CompareRoomTokens(p, r, settings))
    BY TokensGood
  <2> QED BY <2>1 DEF GoodDiffs
<1>2. RoomDiffs(pdVolumes, rdVolumes, settings) = Collapse(all)
  BY DEF RoomDiffs
<1> HIDE DEF all
<1> QED BY <1>1, <1>2, CollapseIsOneEach

-----------------------------------------------------------------------------
(* The cards of a rule name a room once.                                   *)

GoodPages(pages) ==
  \A p \in pages : /\ \A q \in p.sheets \cup p.phrases \cup p.texts : q.page \in Nat
                   /\ \A q \in p.sheets : DOMAIN q.labels \subseteq Nat

\* Cards of one rule, with one card for a room.
RoomsApart(cards, rule) ==
  /\ \A c \in cards : c.rule = rule.code
  /\ \A c, d \in cards : c.room = d.room /\ c.room # NoRoom => c = d

LEMMA HaltedFields ==
  ASSUME NEW rule, NEW layer, NEW status
  PROVE  /\ HaltedCard(rule, layer, status).rule = rule.code
         /\ HaltedCard(rule, layer, status).room = NoRoom
BY DEF HaltedCard, Card

LEMMA EvaluationFields ==
  ASSUME NEW rule, NEW d
  PROVE  /\ RoomEvaluation(rule, d).rule = rule.code
         /\ RoomEvaluation(rule, d).room \in {NoRoom, d.room}
BY HaltedFields DEF RoomEvaluation, Card

LEMMA EvaluationsApart ==
  ASSUME NEW rule, NEW diffs, OneEach(diffs), NEW some \in SUBSET diffs
  PROVE  RoomsApart({RoomEvaluation(rule, d) : d \in some}, rule)
BY EvaluationFields DEF OneEach, RoomsApart

\* A card without a room can be added.
LEMMA HaltedApart ==
  ASSUME NEW rule, NEW layer, NEW status
  PROVE  RoomsApart({HaltedCard(rule, layer, status)}, rule)
BY HaltedFields DEF RoomsApart

LEMMA WithRoomless ==
  ASSUME NEW rule, NEW cards, RoomsApart(cards, rule),
         NEW more, \A c \in more : c.rule = rule.code /\ c.room = NoRoom
  PROVE  RoomsApart(more \cup cards, rule)
BY DEF RoomsApart

LEMMA RoomRuleApart ==
  ASSUME NEW rule, NEW pd, NEW rd, NEW diffs, OneEach(diffs)
  PROVE  RoomsApart(RoomRule(rule, pd, rd, diffs), rule) /\ RoomsApart(RoomPass(rule, pd, rd, diffs), rule)
<1> DEFINE all == {RoomEvaluation(rule, d) : d \in diffs}
           some == {e \in diffs : e.kind \in {"candidate", "suspicion"}}
           none == rule.rooms = NoRooms
           less == {} \in {pd, rd}
<1>1. RoomsApart(all, rule)
  BY EvaluationsApart
<1>2. RoomsApart({RoomEvaluation(rule, d) : d \in some}, rule)
  <2>1. some \in SUBSET diffs
    OBVIOUS
  <2> HIDE DEF some
  <2> QED BY <2>1, EvaluationsApart
<1>3. RoomsApart({}, rule)
  BY DEF RoomsApart
<1>4. RoomsApart(RoomPass(rule, pd, rd, diffs), rule)
  BY <1>2, <1>3 DEF RoomPass
<1>5. \/ \E layer, status : RoomRule(rule, pd, rd, diffs) = {HaltedCard(rule, layer, status)}
      \/ RoomRule(rule, pd, rd, diffs) = all
  <2>1. RoomRule(rule, pd, rd, diffs) =
          CASE none -> {HaltedCard(rule, "L6", "CLARIFICATION_REQUIRED")}
            [] ~none /\ less -> {HaltedCard(rule, "L4", "CLARIFICATION_REQUIRED")}
            [] OTHER -> IF diffs = {} THEN {HaltedCard(rule, "L2", "LOW_QUALITY")} ELSE all
    BY DEF RoomRule
  <2>2. none \in BOOLEAN /\ less \in BOOLEAN
    OBVIOUS
  <2> HIDE DEF none, less, all
  <2> QED BY <2>1, <2>2
<1>6. RoomsApart(RoomRule(rule, pd, rd, diffs), rule)
  BY <1>1, <1>5, HaltedApart
<1> QED BY <1>4, <1>6

LEMMA RoomsOfOnce ==
  ASSUME NEW rule, NEW pd, NEW rd, GoodPages(pd), GoodPages(rd)
  PROVE  OneEach(RoomsOf(rule, pd, rd)) /\ GoodDiffs(RoomsOf(rule, pd, rd))
<1>1. \A p \in pd \cup rd : GoodSheets(Sheets(p))
  <2> SUFFICES ASSUME NEW p \in pd \cup rd, NEW s \in Sheets(p) PROVE GoodSheet(s)
    BY DEF GoodSheets
  <2>1. PICK q \in p.sheets : s.page = q.page /\ s.labels = q.labels
    BY DEF Sheets
  <2> QED BY <2>1 DEF GoodPages, GoodSheet, Spots
<1> DEFINE P == {Sheets(p) : p \in pd}
           R == {Sheets(p) : p \in rd}
<1>2. (\A x \in P : GoodSheets(x)) /\ (\A x \in R : GoodSheets(x))
  BY <1>1
<1>3. RoomsOf(rule, pd, rd) = RoomDiffs(P, R, rule.rooms)
  BY DEF RoomsOf
<1> HIDE DEF P, R
<1> QED BY <1>2, <1>3, RoomsOnce

LEMMA ReadCardsApart ==
  ASSUME NEW rule, NEW pd, NEW rd, NEW diffs, OneEach(diffs), NEW failed
  PROVE  RoomsApart(ReadCards(rule, pd, rd, diffs, failed), rule)
<1> DEFINE pass == RoomPass(rule, pd, rd, diffs)
           halted == HaltedCard(rule, failed[1].layer, failed[1].status)
           also == Also(rule, failed[1].also, pd, rd, diffs)
           compared == ComparedPair(rule, Narrowed(rule, pd), Narrowed(rule, rd))
<1>1. RoomsApart(pass, rule) /\ RoomsApart({}, rule)
  BY RoomRuleApart DEF RoomsApart
<1>2. \A volumes : \A c \in DualReadSuspicion(rule, volumes) : c.rule = rule.code /\ c.room = NoRoom
  BY DEF DualReadSuspicion, Card
<1>3. RoomsApart(also, rule)
  <2> DEFINE what == failed[1].also
             volumes == IF Disagreeing(rule, Narrowed(rule, pd)) THEN Narrowed(rule, pd) ELSE Narrowed(rule, rd)
             reads == DualReadSuspicion(rule, volumes)
  <2>1. also = pass \/ also = reads \/ also = {}
    <3>1. Also(rule, what, pd, rd, diffs) =
            CASE what = "rooms" -> pass [] what = "reads" -> reads [] OTHER -> {}
      BY DEF Also
    <3> HIDE DEF pass, reads
    <3> QED BY <3>1
  <2>2. RoomsApart(reads, rule)
    <3>1. \A c \in reads : c.rule = rule.code /\ c.room = NoRoom
      BY <1>2
    <3> HIDE DEF reads
    <3> QED BY <3>1 DEF RoomsApart
  <2> QED BY <1>1, <2>1, <2>2
<1>4. RoomsApart({halted} \cup also, rule)
  <2>1. halted.rule = rule.code /\ halted.room = NoRoom
    BY HaltedFields
  <2> HIDE DEF halted, also
  <2> QED BY <1>3, <2>1, WithRoomless
<1>5. compared.rule = rule.code /\ compared.room = NoRoom
  <2>1. \A c, f, g : /\ FindingFromComparison(rule, c, f, g).rule = rule.code
                     /\ FindingFromComparison(rule, c, f, g).room = NoRoom
    BY DEF FindingFromComparison, Card
  <2>2. \A p, r : ComparedTables(rule, p, r).rule = rule.code /\ ComparedTables(rule, p, r).room = NoRoom
    BY <2>1, HaltedFields DEF ComparedTables
  <2> QED BY <2>1, <2>2 DEF ComparedPair
<1>6. RoomsApart({compared} \cup pass, rule) /\ RoomsApart({compared} \cup {}, rule)
  <2> HIDE DEF compared, pass
  <2> QED BY <1>1, <1>5, WithRoomless
<1>7. \/ ReadCards(rule, pd, rd, diffs, failed) = {halted} \cup also
      \/ ReadCards(rule, pd, rd, diffs, failed) = {compared} \cup pass
      \/ ReadCards(rule, pd, rd, diffs, failed) = {compared} \cup {}
  BY DEF ReadCards
<1> HIDE DEF halted, also, compared, pass
<1> QED BY <1>4, <1>6, <1>7

LEMMA RuleApart ==
  ASSUME NEW rule, NEW pages, GoodPages(pages), NEW present, NEW pool, NEW sel
  PROVE  RoomsApart(EvaluateRule(rule, pages, present, pool, sel), rule)
<1> DEFINE volumes == [s \in DocStage |-> BoundVolumes(rule, pages, s)]
           common == Failed(CommonGates(rule, pages, present, pool, sel))
           diffs == RoomsOf(rule, volumes["PD"], volumes["RD"])
           gates == Failed(PairedGates(rule, volumes))
           halted == HaltedCard(rule, common[1].layer, common[1].status)
<1>1. \A s \in DocStage : volumes[s] \subseteq pages
  <2>1. \A s : BoundVolumes(rule, pages, s) \subseteq pages
    BY DEF BoundVolumes, Volumes, Matching
  <2> QED BY <2>1
<1>2. GoodPages(volumes["PD"]) /\ GoodPages(volumes["RD"])
  BY <1>1 DEF GoodPages, DocStage
<1> HIDE DEF volumes
<1>3. OneEach(diffs)
  BY <1>2, RoomsOfOnce
<1>4. EvaluateRule(rule, pages, present, pool, sel) = RuleCards(rule, volumes, diffs, common)
  BY DEF EvaluateRule, OverVolumes, volumes
<1> HIDE DEF diffs, common
<1>5. \/ RuleCards(rule, volumes, diffs, common) = {halted}
      \/ RuleCards(rule, volumes, diffs, common) = RoomRule(rule, volumes["PD"], volumes["RD"], diffs)
      \/ RuleCards(rule, volumes, diffs, common) =
           ReadCards(rule, volumes["PD"], volumes["RD"], diffs, gates)
  <2> DEFINE stopped == common # <<>>
             rooms == rule.kind = "room_compare"
             a == RoomRule(rule, volumes["PD"], volumes["RD"], diffs)
             b == ReadCards(rule, volumes["PD"], volumes["RD"], diffs, gates)
  <2>1. RuleCards(rule, volumes, diffs, common) =
          CASE stopped -> {halted} [] ~stopped /\ rooms -> a [] OTHER -> b
    BY DEF RuleCards
  <2>2. stopped \in BOOLEAN /\ rooms \in BOOLEAN
    OBVIOUS
  <2> HIDE DEF stopped, rooms, a, b, halted
  <2>3. RuleCards(rule, volumes, diffs, common) \in {{halted}, a, b}
    BY <2>1, <2>2
  <2> QED BY <2>3 DEF a, b
<1> HIDE DEF gates
<1>6. RoomsApart({halted}, rule)
  BY HaltedApart
<1>7. RoomsApart(RoomRule(rule, volumes["PD"], volumes["RD"], diffs), rule)
  BY <1>3, RoomRuleApart
<1>8. RoomsApart(ReadCards(rule, volumes["PD"], volumes["RD"], diffs, gates), rule)
  BY <1>3, ReadCardsApart
<1> QED BY <1>4, <1>5, <1>6, <1>7, <1>8

LEMMA FirstHitIsOne ==
  ASSUME NEW hits, hits # {}, \A h \in hits : h.phrase.page \in Nat /\ h.sheet.page \in Nat
  PROVE  FirstHit(hits) \in hits
<1>1. PICK m \in {h.phrase.page : h \in hits} : \A n \in {h.phrase.page : h \in hits} : m <= n
  BY LeastNumber
<1> DEFINE first == {h \in hits : h.phrase.page = m}
<1>2. PICK k \in {h.sheet.page : h \in first} : \A n \in {h.sheet.page : h \in first} : k <= n
  <2>1. {h.sheet.page : h \in first} \subseteq Nat /\ {h.sheet.page : h \in first} # {}
    BY <1>1
  <2> QED BY <2>1, LeastNumber
<1>3. PICK g \in hits : g.phrase.page = m /\ g.sheet.page = k
  BY <1>2
<1>4. \A h \in hits : Sooner(g, h)
  <2> TAKE h \in hits
  <2>1. m <= h.phrase.page /\ h.phrase.page \in Nat /\ g.phrase.page \in Nat
    BY <1>1
  <2>2. h.phrase.page = m => k <= h.sheet.page
    BY <1>2
  <2> QED BY <1>3, <2>1, <2>2 DEF Sooner
<1> QED BY <1>4 DEF FirstHit

LEMMA HitsOnce ==
  ASSUME NEW phrases, NEW sheets,
         \A q \in phrases : q.page \in Nat, \A s \in sheets : s.page \in Nat
  PROVE  \A g, h \in ProvisionHits(phrases, sheets) : g.room = h.room => g = h
<1> DEFINE all == UNION {HitsOf(phrase, sheets) : phrase \in phrases}
           named(room) == {h \in all : h.room = room}
           rooms == {h.room : h \in all}
<1>1. \A h \in all : h.phrase.page \in Nat /\ h.sheet.page \in Nat
  <2> SUFFICES ASSUME NEW phrase \in phrases, NEW h \in HitsOf(phrase, sheets)
               PROVE  h.phrase \in phrases /\ h.sheet \in sheets
    OBVIOUS
  <2>1. PICK room \in RoomsNamed(phrase) : \E s \in SheetsWithoutStems(room, Stems(phrase), sheets) :
          h = ProvisionHit(room, phrase, s)
    BY DEF HitsOf
  <2>3. PICK s \in SheetsWithoutStems(room, Stems(phrase), sheets) : h = ProvisionHit(room, phrase, s)
    BY <2>1
  <2>2. s \in sheets
    BY <2>3 DEF SheetsWithoutStems, SheetsOf
  <2> QED BY <2>2, <2>3 DEF ProvisionHit
<1> HIDE DEF all
<1>2. \A room \in rooms : FirstHit(named(room)).room = room
  <2> TAKE room \in rooms
  <2>1. named(room) # {} /\ \A h \in named(room) : h.phrase.page \in Nat /\ h.sheet.page \in Nat
    BY <1>1
  <2>2. \A h \in named(room) : h.room = room
    OBVIOUS
  <2> HIDE DEF named
  <2> QED BY <2>1, <2>2, FirstHitIsOne
<1>3. ProvisionHits(phrases, sheets) = {FirstHit(named(room)) : room \in rooms}
  BY DEF ProvisionHits, all
<1> HIDE DEF named, rooms
<1> QED BY <1>2, <1>3

LEMMA SuspectedApart ==
  ASSUME NEW rule, NEW cards, RoomsApart(cards, rule)
  PROVE  RoomsApart(Suspected(cards), rule)
<1>1. \A c \in cards : c.rule = rule.code
  BY DEF RoomsApart
<1> DEFINE plain == {d \in cards : d.pd # NoFile /\ d.status \in {"CANDIDATE", "SUSPICION"}}
           As(c) == [c EXCEPT !.status = "SUSPICION"]
<1>2. Suspected(cards) = {As(c) : c \in plain}
  BY DEF Suspected
<1>3. \A c : As(c).rule = c.rule /\ As(c).room = c.room
  OBVIOUS
<1> HIDE DEF As
<1> QED BY <1>2, <1>3 DEF RoomsApart

LEMMA FreeSearchApart ==
  ASSUME NEW rule, NEW pages, GoodPages(pages)
  PROVE  RoomsApart(EvaluateFreeSearch(rule, pages), rule)
<1> DEFINE pd == Volumes(pages, "PD")
           rd == Volumes(pages, "RD")
           kept == OverRooms(rule, pd, rd)
           extras == ProvisionEvaluations(rule, pd, rd)
           phrases == UNION {PhrasesOf(p) : p \in pd}
           texts == UNION {TextsOf(p) : p \in rd}
<1>1. GoodPages(pd) /\ GoodPages(rd)
  BY DEF GoodPages, Volumes
<1> HIDE DEF pd, rd
<1>2. RoomsApart(kept, rule)
  <2>1. OneEach(RoomsOf(rule, pd, rd))
    BY <1>1, RoomsOfOnce
  <2>2. RoomsApart(RoomRule(rule, pd, rd, RoomsOf(rule, pd, rd)), rule)
    BY <2>1, RoomRuleApart
  <2> QED BY <2>2, SuspectedApart DEF OverRooms
<1>3. (\A q \in phrases : q.page \in Nat) /\ (\A s \in texts : s.page \in Nat)
  BY <1>1 DEF GoodPages, PhrasesOf, TextsOf
<1>4. \A g, h \in ProvisionHits(phrases, texts) : g.room = h.room => g = h
  <2> HIDE DEF phrases, texts
  <2> QED BY <1>3, HitsOnce
<1>5. extras = {ProvisionEvaluation(rule, hit) : hit \in ProvisionHits(phrases, texts)}
  BY DEF ProvisionEvaluations
<1>6. RoomsApart(extras, rule)
  <2>1. \A hit : /\ ProvisionEvaluation(rule, hit).rule = rule.code
                 /\ ProvisionEvaluation(rule, hit).room = hit.room
    BY DEF ProvisionEvaluation, Card
  <2> HIDE DEF extras, phrases, texts
  <2> QED BY <1>4, <1>5, <2>1 DEF RoomsApart
<1>7. EvaluateFreeSearch(rule, pages) =
        kept \cup {c \in extras : rule.provision /\ c.room \notin {k.room : k \in kept}}
  BY DEF EvaluateFreeSearch, AndProvisions, pd, rd
<1> HIDE DEF kept, extras
<1> QED BY <1>2, <1>6, <1>7 DEF RoomsApart

LEMMA CardsApart ==
  ASSUME NEW pages, GoodPages(pages), NEW present, NEW pool, NEW sel
  PROVE  \A c, d \in CardsOf(pages, present, pool, sel) :
           c.rule = d.rule /\ c.room = d.room /\ c.room # NoRoom => c = d
<1> DEFINE Of(rule) == IF rule \in Matrix THEN EvaluateRule(rule, pages, present, pool, sel)
                       ELSE EvaluateFreeSearch(rule, pages)
<1>1. \A rule \in Matrix \cup FreeSearch : RoomsApart(Of(rule), rule)
  BY RuleApart, FreeSearchApart
<1>2. \A c \in CardsOf(pages, present, pool, sel) : \E rule \in Matrix \cup FreeSearch : c \in Of(rule)
  BY PackageAssumption DEF CardsOf
<1>3. \A r, q \in Matrix \cup FreeSearch : r.code = q.code => r = q
  BY PackageAssumption
<1> HIDE DEF Of
<1> QED BY <1>1, <1>2, <1>3 DEF RoomsApart

\* The pages of a run are those of files of the service.
LEMMA HeadsOfFiles ==
  ASSUME NEW pool, Pooled(pool), NEW sel, NEW s \in DocStage, NEW d \in StageHeads(pool, s, sel)
  PROVE  d.file \in File
<1>1. PICK i \in ResolveHeadsByIdentity(pool, s, sel) : d \in i.resolution.doc
  BY HeadsOfPool
<1>2. PICK g \in pool : LastRevision(d, g, pool, sel)
  BY <1>1, HeadIsLast
<1> QED BY <1>2 DEF LastRevision, Pooled, DocumentRef

LEMMA PagesAreGood ==
  ASSUME NEW pool, Pooled(pool), NEW sel, NEW run
  PROVE  GoodPages(Pages(pool, sel, run))
<1> SUFFICES ASSUME NEW p \in Pages(pool, sel, run)
             PROVE  /\ \A q \in p.sheets \cup p.phrases \cup p.texts : q.page \in Nat
                    /\ \A q \in p.sheets : DOMAIN q.labels \subseteq Nat
  BY DEF GoodPages
<1>0. PICK s \in DocStage : \E d \in StageHeads(pool, s, sel) : p = HeadPage(d, run.blind)
  BY DEF Pages
<1>1. PICK d \in StageHeads(pool, s, sel) : p = HeadPage(d, run.blind)
  BY <1>0
<1>2. d.file \in File
  BY <1>1, HeadsOfFiles
<1>3. /\ p.sheets \in {Says[d.file].sheets, {}} /\ p.phrases \in {Says[d.file].phrases, {}}
      /\ p.texts \in {Says[d.file].texts, {}}
  BY <1>1 DEF HeadPage
<1>4. TypedSpeech(Says[d.file])
  BY <1>2, PackageAssumption
<1> QED BY <1>3, <1>4 DEF TypedSpeech

LEMMA RunCardsApart ==
  ASSUME NEW files, Links(files), NEW sel, NEW run
  PROVE  \A c, d \in Cards(files, sel, run) :
           c.rule = d.rule /\ c.room = d.room /\ c.room # NoRoom => c = d
<1>1. GoodPages(Pages(Pool(files, sel, run), sel, run))
  BY PoolPooled, PagesAreGood
<1> QED BY <1>1, CardsApart DEF Cards, OverPool

\* What a step makes of the last run.
LEMMA LastRun ==
  ASSUME [Next]_vars
  PROVE  \/ last' = last \/ last' = NoRun
         \/ \E sel, run : last' = Outcome(sel, run)
<1>1. ASSUME NEW request \in Requests, NEW prior \in Files \cup {NoFile}, Upload(request, prior)
      PROVE  last' = NoRun
  BY <1>1 DEF Upload
<1>2. ASSUME NEW run \in Unreading, Run(run)
      PROVE  last' = last \/ last' = Outcome(selected, run)
  BY <1>2 DEF Run, RunEnds
<1>3. ASSUME NEW f \in Files, NEW run \in Unreading, Select(f, run)
      PROVE  last' = last \/ last' = Outcome(selected \cup {f}, run)
  BY <1>3 DEF Select, ChoiceEnds
<1>4. CASE UNCHANGED vars
  BY <1>4 DEF vars
<1> QED BY <1>1, <1>2, <1>3, <1>4 DEF Next

LEMMA VerdictsKept == Inv /\ OneVerdictPerRoom /\ [Next]_vars => OneVerdictPerRoom'
<1> SUFFICES ASSUME Inv, OneVerdictPerRoom, [Next]_vars PROVE OneVerdictPerRoom'
  OBVIOUS
<1>1. CASE last' = last
  BY <1>1 DEF OneVerdictPerRoom
<1>2. CASE last' = NoRun
  BY <1>2 DEF OneVerdictPerRoom
<1>3. ASSUME NEW sel, NEW run, last' = Outcome(sel, run)
      PROVE  OneVerdictPerRoom'
  <2>1. last'.cards = Cards(attached, sel, run)
    BY <1>3 DEF Outcome
  <2> QED BY <2>1, RunCardsApart DEF OneVerdictPerRoom, Inv
<1>4. \/ last' = last \/ last' = NoRun
      \/ \E sel, run : last' = Outcome(sel, run)
  BY LastRun
<1> QED BY <1>1, <1>2, <1>3, <1>4

\* A rule says at most one thing about a room, however many volumes and sheets
\* show it and whatever a run could read (collapse_room_diffs).
THEOREM RoomsJudgedOnce == Spec => []OneVerdictPerRoom
<1>1. Init => OneVerdictPerRoom
  BY DEF Init, OneVerdictPerRoom
<1> QED BY <1>1, InitInv, NextKeeps, VerdictsKept, PTL DEF Spec

-----------------------------------------------------------------------------
(* One document of a chain.                                                *)

\* At most one document, and only where the chain is resolved.
OneDoc(r) == (\A d, e \in r.doc : d = e) /\ (r.doc # {} => r.status = "RESOLVED")

LEMMA FinishedOne ==
  ASSUME NEW c, NEW eligible, NEW chosen \in BOOLEAN
  PROVE  OneDoc(FinishHead(c, eligible, chosen))
<1> DEFINE pending == c.stage = "PD" /\ c.approval = "UNKNOWN"
           other == \E e \in eligible : e.file # c.file /\ e.approval = "APPROVED"
           r == FinishHead(c, eligible, chosen)
<1>1. r = CASE pending /\ chosen -> Resolved(ApprovalWithBasis(c, TRUE))
            [] pending /\ ~chosen /\ SoleHead /\ ~other -> Resolved([c EXCEPT !.basis = "SOLE_HEAD"])
            [] pending /\ ~chosen /\ (~SoleHead \/ other) -> Clarification
            [] OTHER -> Resolved(c)
  BY DEF FinishHead
<1>2. pending \in BOOLEAN /\ other \in BOOLEAN /\ SoleHead \in BOOLEAN
  BY RevisionsAssumption
<1> HIDE DEF pending, other, r
<1>3. r = Clarification \/ \E x : r = Resolved(x)
  BY <1>1, <1>2
<1> QED BY <1>3 DEF r, Clarification, Resolved, OneDoc

LEMMA OneHead ==
  ASSUME NEW G, IsFiniteSet(G), NEW s, NEW choices
  PROVE  /\ OneDoc(ResolveGroup(G, s, choices))
         /\ \A h \in ResolveGroup(G, s, choices).doc : h \in ResolveChain(G, choices).doc
<1> DEFINE chain == ResolveChain(G, choices)
           resolution == IF FilenameGroupConflict(G, s) THEN RevisionConflict ELSE chain
<1>1. OneDoc(MissingEvidence) /\ OneDoc(Clarification) /\ OneDoc(RevisionConflict)
  BY DEF MissingEvidence, Clarification, RevisionConflict, OneDoc
<1>2. OneDoc(chain)
  <2>1. Finished(chain, G, choices)
    BY ChainCases
  <2> HIDE DEF chain
  <2> QED BY <1>1, <2>1, FinishedOne DEF Finished
<1>3. ResolveGroup(G, s, choices) = IF resolution.status = "CONFLICT" THEN Clarification ELSE resolution
  BY DEF ResolveGroup
<1>4. RevisionConflict.doc = {} /\ Clarification.doc = {}
  BY DEF RevisionConflict, Clarification
<1> HIDE DEF chain
<1> QED BY <1>1, <1>2, <1>3, <1>4 DEF chain

-----------------------------------------------------------------------------
(* The chain of a document.                                                *)

NamedChain(v, B) ==
  LET group == NameCluster(v, B) IN
  IF Cardinality(group) = 1 \/ ChainConflict(group) THEN group ELSE ChainByFilename(group)
Home(o, P, s) ==
  IF o.key # Blank THEN {d \in OfStage(P, s) : d.key = o.key}
  ELSE IF s = "ID" \/ o \notin Loose(Blanks(P, s)) THEN ComponentOf(o, Blanks(P, s))
  ELSE NamedChain(o.volume, Blanks(P, s))

LEMMA Homes ==
  ASSUME NEW P, NEW s, NEW g
  PROVE  g \in IdentityGroups(P, s) <=> \E o \in OfStage(P, s) : g = Home(o, P, s)
<1> DEFINE ofStage == OfStage(P, s)
           keyed == {d \in ofStage : d.key # Blank}
           B == Blanks(P, s)
<1>1. ofStage \ keyed = B /\ B \subseteq ofStage /\ \A o \in ofStage : o.key = Blank <=> o \in B
  BY DEF Blanks
<1>2. IdentityGroups(P, s) = {{d \in keyed : d.key = e.key} : e \in keyed} \cup BlankFilenameGroups(B, s)
  BY <1>1 DEF IdentityGroups
<1>3. \A e \in keyed : {d \in keyed : d.key = e.key} = Home(e, P, s)
  BY DEF Home
<1>4. BlankFilenameGroups(B, s) =
        IF s = "ID" THEN {ComponentOf(d, B) : d \in B}
        ELSE {ComponentOf(d, B) : d \in B \ Loose(B)} \cup {NamedChain(d.volume, B) : d \in Loose(B)}
  BY DEF BlankFilenameGroups, BlankComponents, NamedChain
<1>5. Loose(B) \subseteq B
  BY DEF Loose
<1>6. \A o \in B : o.key = Blank
  BY DEF Blanks
<1>7. \A o \in B : Home(o, P, s) = IF s = "ID" \/ o \notin Loose(B) THEN ComponentOf(o, B)
                                  ELSE NamedChain(o.volume, B)
  BY <1>6 DEF Home
<1>8. ASSUME s = "ID"
      PROVE  BlankFilenameGroups(B, s) = {Home(o, P, s) : o \in B}
  <2>1. \A o \in B : Home(o, P, s) = ComponentOf(o, B)
    BY <1>7, <1>8
  <2>2. BlankFilenameGroups(B, s) = {ComponentOf(d, B) : d \in B}
    BY <1>4, <1>8
  <2> HIDE DEF B
  <2> QED BY <2>1, <2>2
<1>9. ASSUME s # "ID"
      PROVE  BlankFilenameGroups(B, s) = {Home(o, P, s) : o \in B}
  <2>1. /\ \A o \in B \ Loose(B) : Home(o, P, s) = ComponentOf(o, B)
        /\ \A o \in Loose(B) : Home(o, P, s) = NamedChain(o.volume, B)
    BY <1>5, <1>7, <1>9
  <2>2. BlankFilenameGroups(B, s) = {ComponentOf(d, B) : d \in B \ Loose(B)}
                                    \cup {NamedChain(d.volume, B) : d \in Loose(B)}
    BY <1>4, <1>9
  <2> HIDE DEF B
  <2> QED BY <1>5, <2>1, <2>2
<1>10. {{d \in keyed : d.key = e.key} : e \in keyed} = {Home(o, P, s) : o \in keyed}
  <2> DEFINE same(e) == {d \in keyed : d.key = e.key}
  <2>1. \A e \in keyed : same(e) = Home(e, P, s)
    BY <1>3
  <2>2. {{d \in keyed : d.key = e.key} : e \in keyed} = {same(e) : e \in keyed}
    OBVIOUS
  <2> HIDE DEF same, keyed
  <2> QED BY <2>1, <2>2
<1>11. ofStage = keyed \cup B
  BY <1>1
<1> HIDE DEF ofStage, keyed, B
<1>12. IdentityGroups(P, s) = {Home(o, P, s) : o \in keyed} \cup {Home(o, P, s) : o \in B}
  BY <1>2, <1>8, <1>9, <1>10
<1> QED BY <1>11, <1>12 DEF ofStage

\* The documents of a chain are documents of the pool, apart from their links.
OfPool(g, P, s) ==
  /\ \A d, e \in g : d.file = e.file => d = e
  /\ \A d \in g : d \in DocumentRef /\ \E q \in OfStage(P, s) : SameButLinks(d, q)

LEMMA ChainOfPool ==
  ASSUME NEW P, Pooled(P), NEW s, NEW group, group \subseteq OfStage(P, s)
  PROVE  /\ OfPool(group, P, s)
         /\ ~ChainConflict(group) => OfPool(ChainByFilename(group), P, s)
<1>1. group \subseteq P /\ group \subseteq DocumentRef /\ \A d, e \in group : d.file = e.file => d = e
  BY DEF OfStage, Pooled
<1>2. OfPool(group, P, s)
  BY <1>1 DEF OfPool, SameButLinks
<1>3. ASSUME ~ChainConflict(group) PROVE OfPool(ChainByFilename(group), P, s)
  <2>1. Numbered(group)
    BY <1>1, <1>3, DocsFinite, NoConflictNumbered
  <2>2. ChainByFilename(group) \subseteq DocumentRef
    BY <2>1, ChainDocs
  <2>3. \A d \in ChainByFilename(group) : \E q \in group :
          /\ SameButLinks(d, q) /\ d = [q EXCEPT !.pred = Previous(q, group), !.succ = Following(q, group)]
    <3>1. SUFFICES ASSUME NEW q \in group
                   PROVE  SameButLinks([q EXCEPT !.pred = Previous(q, group), !.succ = Following(q, group)], q)
      BY DEF ChainByFilename
    <3>2. q \in DocumentRef
      BY <1>1
    <3> QED BY <3>2 DEF SameButLinks, DocumentRef
  <2>4. ASSUME NEW d \in ChainByFilename(group), NEW e \in ChainByFilename(group), d.file = e.file
        PROVE  d = e
    <3>1. PICK q \in group : SameButLinks(d, q)
            /\ d = [q EXCEPT !.pred = Previous(q, group), !.succ = Following(q, group)]
      BY <2>3
    <3>2. PICK p \in group : SameButLinks(e, p)
            /\ e = [p EXCEPT !.pred = Previous(p, group), !.succ = Following(p, group)]
      BY <2>3
    <3>3. p = q
      <4>1. SameButLinks(d, q) /\ SameButLinks(e, p)
        BY <3>1, <3>2
      <4>2. d.file = q.file /\ e.file = p.file
        BY <4>1 DEF SameButLinks
      <4> QED BY <1>1, <2>4, <4>2
    <3> QED BY <3>1, <3>2, <3>3
  <2> QED BY <2>2, <2>3, <2>4 DEF OfPool
<1> QED BY <1>2, <1>3

LEMMA HomeOfPool ==
  ASSUME NEW P, Pooled(P), NEW s, NEW o \in OfStage(P, s)
  PROVE  OfPool(Home(o, P, s), P, s)
<1> DEFINE B == Blanks(P, s)
           group == NameCluster(o.volume, B)
<1>1. /\ B \subseteq OfStage(P, s) /\ ComponentOf(o, B) \subseteq B /\ group \subseteq B
      /\ {d \in OfStage(P, s) : d.key = o.key} \subseteq OfStage(P, s)
  BY DEF Blanks, ComponentOf, NameCluster, Loose
<1>2. \/ Home(o, P, s) = {d \in OfStage(P, s) : d.key = o.key}
      \/ Home(o, P, s) = ComponentOf(o, B)
      \/ Home(o, P, s) = group
      \/ Home(o, P, s) = ChainByFilename(group) /\ ~ChainConflict(group)
  BY DEF Home, NamedChain
<1> HIDE DEF B, group
<1> QED BY <1>1, <1>2, ChainOfPool

LEMMA PoolFinite ==
  ASSUME NEW P, NEW s, NEW g, OfPool(g, P, s)
  PROVE  IsFiniteSet(g)
BY DocsFinite DEF OfPool

\* What a chain resolves to is one of its files.
LEMMA HeadInGroup ==
  ASSUME NEW P, Pooled(P), NEW s, NEW choices,
         NEW i \in ResolveHeadsByIdentity(P, s, choices), NEW h \in i.resolution.doc
  PROVE  \E c \in i.group : c.file = h.file
<1>1. PICK g \in IdentityGroups(P, s) : i = [group |-> g, resolution |-> ResolveGroup(g, s, choices)]
  BY DEF ResolveHeadsByIdentity
<1>2. OfPool(g, P, s)
  BY <1>1, Homes, HomeOfPool
<1>3. h \in ResolveChain(g, choices).doc
  BY <1>1, <1>2, PoolFinite, OneHead
<1>4. PICK c \in Eligible(g) : EtalonOf(h, c, Eligible(g), choices)
  BY <1>2, <1>3, PoolFinite, ChainHead DEF OfPool
<1> QED BY <1>1, <1>4 DEF EtalonOf, Eligible

\* Without links a document is in one chain.
LEMMA UnlinkedHome ==
  ASSUME NEW P, Pooled(P), \A d \in P : d.pred = NoFile /\ d.succ = NoFile,
         NEW s, NEW o \in OfStage(P, s), NEW d \in Home(o, P, s)
  PROVE  \E q \in OfStage(P, s) : q.file = d.file /\ Home(q, P, s) = Home(o, P, s)
<1> DEFINE B == Blanks(P, s)
           group == NameCluster(o.volume, B)
<1>1. CASE o.key # Blank
  <2>1. Home(o, P, s) = {e \in OfStage(P, s) : e.key = o.key}
    BY <1>1 DEF Home
  <2>2. d \in OfStage(P, s) /\ d.key = o.key
    BY <2>1
  <2>3. Home(d, P, s) = Home(o, P, s)
    BY <1>1, <2>1, <2>2 DEF Home
  <2> QED BY <2>2, <2>3
<1>2. CASE o.key = Blank /\ (s = "ID" \/ o \notin Loose(B))
  <2>1. Home(o, P, s) = ComponentOf(o, B) /\ o \in B
    BY <1>2 DEF Home, Blanks
  <2>2. ComponentOf(o, B) = {o}
    BY <2>1, UnlinkedAlone DEF Blanks, OfStage
  <2> QED BY <2>1, <2>2
<1>3. CASE o.key = Blank /\ s # "ID" /\ o \in Loose(B)
  <2>1. Home(o, P, s) = NamedChain(o.volume, B)
    BY <1>3 DEF Home
  <2>2. group \subseteq DocumentRef
    BY DEF NameCluster, Loose, Blanks, OfStage, Pooled
  <2>3. Home(o, P, s) = group \/ Home(o, P, s) = ChainByFilename(group)
    BY <2>1 DEF NamedChain
  <2>4. PICK q \in group : q.file = d.file
    <3> HIDE DEF group
    <3> QED BY <2>2, <2>3, Relinked DEF SameButLinks
  <2>5. q \in Loose(B) /\ q.volume = o.volume /\ q \in OfStage(P, s) /\ q.key = Blank
    BY DEF NameCluster, Loose, Blanks
  <2>6. Home(q, P, s) = NamedChain(q.volume, B)
    BY <1>3, <2>5 DEF Home
  <2> QED BY <2>1, <2>4, <2>5, <2>6
<1> QED BY <1>1, <1>2, <1>3

LEMMA OneIdentity ==
  ASSUME NEW P, Pooled(P), \A d \in P : d.pred = NoFile /\ d.succ = NoFile,
         NEW s, NEW t, NEW choices,
         NEW i \in ResolveHeadsByIdentity(P, s, choices), NEW j \in ResolveHeadsByIdentity(P, t, choices),
         NEW d \in i.group, NEW e \in j.group, d.file = e.file
  PROVE  i = j /\ \E q \in P : q.file = d.file /\ q.stage = s
<1>1. PICK g \in IdentityGroups(P, s) : i = [group |-> g, resolution |-> ResolveGroup(g, s, choices)]
  BY DEF ResolveHeadsByIdentity
<1>2. PICK o \in OfStage(P, s) : g = Home(o, P, s)
  BY Homes
<1>3. PICK q \in OfStage(P, s) : q.file = d.file /\ Home(q, P, s) = g
  BY <1>1, <1>2, UnlinkedHome
<1>4. PICK k \in IdentityGroups(P, t) : j = [group |-> k, resolution |-> ResolveGroup(k, t, choices)]
  BY DEF ResolveHeadsByIdentity
<1>5. PICK u \in OfStage(P, t) : k = Home(u, P, t)
  BY Homes
<1>6. PICK r \in OfStage(P, t) : r.file = e.file /\ Home(r, P, t) = k
  BY <1>4, <1>5, UnlinkedHome
<1>7. q = r /\ q \in P /\ q.stage = s /\ r.stage = t
  BY <1>3, <1>6 DEF OfStage, Pooled
<1> QED BY <1>1, <1>3, <1>4, <1>6, <1>7

-----------------------------------------------------------------------------
(* The list of documents.                                                  *)

\* What the list reads is a pool of the first part: the files alone.
Alone(files) == {Unlinked(f) : f \in {g \in files : Members[g] = {}}}

LEMMA AloneLinks ==
  ASSUME NEW files, files \subseteq File
  PROVE  /\ Links(Alone(files))
         /\ FilesOf(Alone(files)) = {g \in files : Members[g] = {}}
         /\ Expand(Alone(files), {}) = Alone(files)
<1> DEFINE plain == {g \in files : Members[g] = {}}
<1>1. \A f \in plain : /\ f \in File /\ Unlinked(f) \in Attached /\ Unlinked(f).file = f
                       /\ Unlinked(f).pred = NoFile /\ Unlinked(f).succ = NoFile /\ f # NoFile
  BY UnlinkedFields, RevisionsAssumption
<1>2. Alone(files) = {Unlinked(f) : f \in plain}
  BY DEF Alone
<1>3. \A f \in plain : Members[f] = {}
  OBVIOUS
<1> HIDE DEF plain
<1>4. FilesOf(Alone(files)) = plain
  BY <1>1, <1>2 DEF FilesOf
<1>5. Links(Alone(files))
  BY <1>1, <1>2, <1>4 DEF Links
<1>6. UNION {Members[f] : f \in FilesOf(Alone(files)) \ {}} = {}
  BY <1>3, <1>4
<1>7. Expand(Alone(files), {}) = Alone(files)
  BY <1>6 DEF Expand
<1> QED BY <1>4, <1>5, <1>7 DEF plain

LEMMA StampFields ==
  ASSUME NEW f \in File, NEW sel
  PROVE  /\ StampRef(f, sel) \in DocumentRef /\ StampRef(f, sel).file = f
         /\ StampRef(f, sel).pred = NoFile /\ StampRef(f, sel).succ = NoFile
         /\ StampRef(f, sel).stage = Passport[f].stage
         /\ f \notin Raster /\ Passport[f].approval = "NOT_APPROVED"
              => StampRef(f, sel).approval = "NOT_APPROVED"
<1> DEFINE o == DocumentOf(Unlinked(f), Raster)
           chosen == f \in sel
<1>1. Unlinked(f) \in Attached /\ Unlinked(f).file = f
      /\ Unlinked(f).pred = NoFile /\ Unlinked(f).succ = NoFile
  BY UnlinkedFields
<1>2. /\ o \in DocumentRef /\ o.file = f /\ o.pred = NoFile /\ o.succ = NoFile
      /\ f \notin Raster => o.approval = Passport[f].approval
  BY <1>1, DocumentTyped
<1>3. o.stage = Passport[f].stage
  BY <1>1 DEF DocumentOf
<1>4. StampRef(f, sel) = ApprovalWithBasis(o, chosen) /\ chosen \in BOOLEAN
  BY DEF StampRef
<1> HIDE DEF o, chosen
<1>5. ApprovalWithBasis(o, chosen).stage = o.stage
  BY <1>2 DEF ApprovalWithBasis, DocumentRef
<1> QED BY <1>2, <1>3, <1>4, <1>5, ApprovalKeeps

LEMMA RefsPooled ==
  ASSUME NEW files, files \subseteq File, NEW sel
  PROVE  /\ Pooled(Parsed(files, sel, {}))
         /\ \A d \in Parsed(files, sel, {}) : d.pred = NoFile /\ d.succ = NoFile
         /\ \A d \in Parsed(files, sel, {}) :
              d.file \in files /\ Members[d.file] = {} /\ d = StampRef(d.file, sel)
         /\ \A f \in files : Members[f] = {} => StampRef(f, sel) \in Parsed(files, sel, {})
<1> DEFINE plain == files \ Unparseable(files, {})
           refs == Parsed(files, sel, {})
<1>1. plain \subseteq File /\ plain = {f \in files : Members[f] = {}}
  BY DEF Unparseable
<1>2. refs = {StampRef(f, sel) : f \in plain}
  BY DEF Parsed
<1> HIDE DEF plain, refs
<1>3. \A f \in plain : /\ StampRef(f, sel) \in DocumentRef /\ StampRef(f, sel).file = f
                       /\ StampRef(f, sel).pred = NoFile /\ StampRef(f, sel).succ = NoFile
  BY <1>1, StampFields
<1>4. \A d \in refs : /\ d.file \in plain /\ d = StampRef(d.file, sel)
                      /\ d \in DocumentRef /\ d.pred = NoFile /\ d.succ = NoFile
  BY <1>2, <1>3
<1>5. \A f \in plain : f # NoFile
  BY <1>1, RevisionsAssumption
<1>6. Pooled(refs)
  BY <1>4, <1>5 DEF Pooled
<1> QED BY <1>1, <1>2, <1>4, <1>6 DEF refs

\* Document d is shown because chain i of stage s resolved to it, and no other
\* chain has its file.
ShownBy(d, i, s, refs, files, sel) ==
  /\ d \in i.resolution.doc /\ i.resolution.status = "RESOLVED"
  /\ \A e \in i.resolution.doc : e = d
  /\ \E c \in i.group : c.file = d.file
  /\ d.file \in files /\ Members[d.file] = {} /\ Passport[d.file].stage = s
  /\ d.file \in Raster \/ Passport[d.file].approval # "NOT_APPROVED"
  /\ \A j \in Identities(refs, sel) : (\E e \in j.group : e.file = d.file) => j = i

\* A document the list shows as current stands for one it parsed.
LEMMA ShownFrom ==
  ASSUME NEW files, files \subseteq File, NEW sel, NEW d \in Shown(Parsed(files, sel, {}), sel)
  PROVE  \E s \in DocStage : \E i \in ResolveHeadsByIdentity(Parsed(files, sel, {}), s, sel) :
           ShownBy(d, i, s, Parsed(files, sel, {}), files, sel)
<1> DEFINE refs == Parsed(files, sel, {})
<1>1. PICK i \in Identities(refs, sel) : d \in i.resolution.doc
  BY DEF Shown
<1>2. PICK s \in DocStage : i \in ResolveHeadsByIdentity(refs, s, sel)
  BY <1>1 DEF Identities
<1>3. /\ Pooled(refs) /\ \A e \in refs : e.pred = NoFile /\ e.succ = NoFile
      /\ \A e \in refs : e.file \in files /\ Members[e.file] = {} /\ e = StampRef(e.file, sel)
  BY RefsPooled
<1> HIDE DEF refs
<1>4. PICK c \in i.group : c.file = d.file
  BY <1>1, <1>2, <1>3, HeadInGroup
<1>5. PICK q \in refs : q.file = d.file /\ q.stage = s
  BY <1>2, <1>3, <1>4, OneIdentity
<1>6. PICK o \in refs : LastRevision(d, o, refs, sel)
  BY <1>1, <1>2, <1>3, HeadIsLast
<1>7. o.file = d.file /\ o.approval # "NOT_APPROVED"
  BY <1>6 DEF LastRevision
<1>8. Passport[d.file].stage = s
  BY <1>3, <1>5, StampFields
<1>9. d.file \in Raster \/ Passport[d.file].approval # "NOT_APPROVED"
  BY <1>3, <1>7, StampFields
<1>10. ASSUME NEW j \in Identities(refs, sel), NEW e \in j.group, e.file = d.file PROVE j = i
  <2>1. PICK t \in DocStage : j \in ResolveHeadsByIdentity(refs, t, sel)
    BY DEF Identities
  <2> QED BY <1>2, <1>3, <1>4, <1>10, <2>1, OneIdentity
<1>11. OneDoc(i.resolution)
  <2>1. PICK g \in IdentityGroups(refs, s) : i = [group |-> g, resolution |-> ResolveGroup(g, s, sel)]
    BY <1>2 DEF ResolveHeadsByIdentity
  <2>2. IsFiniteSet(g)
    BY <1>3, <2>1, Homes, HomeOfPool, PoolFinite
  <2> QED BY <2>1, <2>2, OneHead
<1>12. i.resolution.status = "RESOLVED" /\ \A e \in i.resolution.doc : e = d
  BY <1>1, <1>11 DEF OneDoc
<1>13. ShownBy(d, i, s, refs, files, sel)
  BY <1>1, <1>3, <1>4, <1>5, <1>8, <1>9, <1>10, <1>12 DEF ShownBy
<1> QED BY <1>2, <1>13 DEF refs

\* The row of a file.
LEMMA RowFields ==
  ASSUME NEW ref, NEW refs, NEW sel
  PROVE  /\ RowOf(ref, refs, sel).file = ref.file
         /\ RowOf(ref, refs, sel).actuality = Actuality(ref, refs, sel)
         /\ Actuality(ref, refs, sel) = "CURRENT" =>
              LET shown == CHOOSE d \in Shown(refs, sel) : d.file = ref.file IN
              /\ RowOf(ref, refs, sel).approval = shown.approval
              /\ RowOf(ref, refs, sel).basis = shown.basis
BY DEF RowOf, Row

LEMMA ActualityCurrent ==
  ASSUME NEW ref, NEW refs, NEW sel
  PROVE  Actuality(ref, refs, sel) = "CURRENT" <=>
           /\ ref.file \notin {d.file : d \in Unresolved(refs, sel)}
           /\ ref.file \in {d.file : d \in Shown(refs, sel)}
<1> DEFINE open == ref.file \in {d.file : d \in Unresolved(refs, sel)}
           shown == ref.file \in {d.file : d \in Shown(refs, sel)}
<1>1. Actuality(ref, refs, sel) = IF open THEN "CLARIFICATION_REQUIRED"
                                  ELSE IF shown THEN "CURRENT" ELSE "SUPERSEDED"
  BY DEF Actuality
<1> HIDE DEF open, shown
<1>2. Actuality(ref, refs, sel) = "CURRENT" <=> ~open /\ shown
  BY <1>1
<1> QED BY <1>2 DEF open, shown

\* One document is shown for a file, and its chain is resolved.
LEMMA ShownOnce ==
  ASSUME NEW files, files \subseteq File, NEW sel, NEW d \in Shown(Parsed(files, sel, {}), sel)
  PROVE  /\ \A e \in Shown(Parsed(files, sel, {}), sel) : e.file = d.file => e = d
         /\ \A u \in Unresolved(Parsed(files, sel, {}), sel) : u.file # d.file
<1> DEFINE refs == Parsed(files, sel, {})
<1>1. \A e \in Shown(refs, sel) : \E t \in DocStage : \E j \in ResolveHeadsByIdentity(refs, t, sel) :
        ShownBy(e, j, t, refs, files, sel)
  BY ShownFrom
<1>2. d \in Shown(refs, sel)
  OBVIOUS
<1> HIDE DEF refs
<1>3. PICK s \in DocStage : \E i \in ResolveHeadsByIdentity(refs, s, sel) :
        ShownBy(d, i, s, refs, files, sel)
  BY <1>1, <1>2
<1>4. PICK i \in ResolveHeadsByIdentity(refs, s, sel) : ShownBy(d, i, s, refs, files, sel)
  BY <1>3
<1>5. /\ i.resolution.status = "RESOLVED" /\ \A e \in i.resolution.doc : e = d
      /\ \A j \in Identities(refs, sel) : (\E e \in j.group : e.file = d.file) => j = i
  BY <1>4 DEF ShownBy
<1>6. ASSUME NEW e \in Shown(refs, sel), e.file = d.file PROVE e = d
  <2>1. PICK t \in DocStage : \E j \in ResolveHeadsByIdentity(refs, t, sel) :
          ShownBy(e, j, t, refs, files, sel)
    BY <1>1
  <2>2. PICK j \in ResolveHeadsByIdentity(refs, t, sel) : ShownBy(e, j, t, refs, files, sel)
    BY <2>1
  <2>3. j \in Identities(refs, sel)
    BY <2>2 DEF Identities
  <2>4. e \in j.resolution.doc /\ \E c \in j.group : c.file = e.file
    BY <2>2 DEF ShownBy
  <2> QED BY <1>5, <1>6, <2>3, <2>4
<1>7. ASSUME NEW u \in Unresolved(refs, sel) PROVE u.file # d.file
  <2>1. PICK j \in Identities(refs, sel) : j.resolution.status # "RESOLVED" /\ u \in j.group
    BY DEF Unresolved
  <2> QED BY <1>5, <2>1
<1> QED BY <1>6, <1>7 DEF refs

\* What a row of the list says.
LEMMA RowsOfFiles ==
  ASSUME NEW files, files \subseteq File, NEW sel, NEW row \in BuildDocumentCatalog(files, sel, {})
  PROVE  /\ row.file \in files
         /\ \/ Members[row.file] # {} /\ row.actuality = "UNREADABLE"
            \/ /\ Members[row.file] = {}
               /\ row = RowOf(StampRef(row.file, sel), Parsed(files, sel, {}), sel)
<1> DEFINE refs == Parsed(files, sel, {})
<1>0. \A ref \in refs : ref.file \in files /\ Members[ref.file] = {} /\ ref = StampRef(ref.file, sel)
  BY RefsPooled
<1>1. \/ \E f \in Unparseable(files, {}) : row = Row(f, "UNKNOWN", "UNPROVEN", "UNREADABLE")
      \/ \E ref \in refs : row = RowOf(ref, refs, sel)
  BY DEF BuildDocumentCatalog
<1>2. CASE \E f \in Unparseable(files, {}) : row = Row(f, "UNKNOWN", "UNPROVEN", "UNREADABLE")
  BY <1>2 DEF Row, Unparseable
<1> HIDE DEF refs
<1>3. CASE \E ref \in refs : row = RowOf(ref, refs, sel)
  <2>1. PICK ref \in refs : row = RowOf(ref, refs, sel)
    BY <1>3
  <2>2. ref.file \in files /\ Members[ref.file] = {} /\ ref = StampRef(ref.file, sel)
    BY <1>0
  <2>3. row.file = ref.file
    BY <2>1, RowFields
  <2>4. row = RowOf(StampRef(row.file, sel), refs, sel)
    BY <2>1, <2>2, <2>3
  <2> QED BY <2>2, <2>3, <2>4 DEF refs
<1> QED BY <1>1, <1>2, <1>3 DEF refs

LEMMA EveryFileListed ==
  ASSUME NEW files, files \subseteq File, NEW sel
  PROVE  {row.file : row \in BuildDocumentCatalog(files, sel, {})} = files
<1> DEFINE rows == BuildDocumentCatalog(files, sel, {})
           refs == Parsed(files, sel, {})
<1>1. \A row \in rows : row.file \in files
  BY RowsOfFiles
<1>2. ASSUME NEW f \in files PROVE \E row \in rows : row.file = f
  <2>1. CASE Members[f] # {}
    <3>1. f \in Unparseable(files, {})
      BY <2>1 DEF Unparseable
    <3>2. Row(f, "UNKNOWN", "UNPROVEN", "UNREADABLE") \in rows
      BY <3>1 DEF BuildDocumentCatalog
    <3>3. Row(f, "UNKNOWN", "UNPROVEN", "UNREADABLE").file = f
      BY DEF Row
    <3> HIDE DEF rows
    <3> QED BY <3>2, <3>3
  <2>2. CASE Members[f] = {}
    <3>1. StampRef(f, sel) \in refs /\ StampRef(f, sel).file = f
      BY <2>2, RefsPooled, StampFields
    <3>2. RowOf(StampRef(f, sel), refs, sel) \in rows
      BY <3>1 DEF BuildDocumentCatalog
    <3>3. RowOf(StampRef(f, sel), refs, sel).file = f
      BY <3>1, RowFields
    <3> HIDE DEF rows
    <3> QED BY <3>2, <3>3
  <2> QED BY <2>1, <2>2
<1> HIDE DEF rows
<1> QED BY <1>1, <1>2 DEF rows

\* The list calls a file current if it shows a document for it.
LEMMA ListedCurrent ==
  ASSUME NEW files, files \subseteq File, NEW sel, NEW d \in Shown(Parsed(files, sel, {}), sel)
  PROVE  /\ d.file \in CurrentIn(BuildDocumentCatalog(files, sel, {}))
         /\ Listed(d.file, BuildDocumentCatalog(files, sel, {})).approval = d.approval
         /\ Listed(d.file, BuildDocumentCatalog(files, sel, {})).basis = d.basis
<1> DEFINE rows == BuildDocumentCatalog(files, sel, {})
           refs == Parsed(files, sel, {})
           shown == Shown(refs, sel)
           ref == StampRef(d.file, sel)
           its == RowOf(ref, refs, sel)
<1>1. d.file \in files /\ Members[d.file] = {}
  BY ShownFrom DEF ShownBy
<1>2. ref \in refs /\ ref.file = d.file
  BY <1>1, RefsPooled, StampFields
<1>3. its \in rows
  BY <1>2 DEF BuildDocumentCatalog
<1>4. \A e \in shown : e.file = d.file => e = d
  BY ShownOnce
<1>5. \A u \in Unresolved(refs, sel) : u.file # d.file
  BY ShownOnce
<1>6. d \in shown
  OBVIOUS
<1>7. \A row \in rows : row.file = d.file => row = its
  BY <1>1, RowsOfFiles
<1> HIDE DEF rows, refs, ref
<1>8. (CHOOSE e \in shown : e.file = d.file) = d
  <2> HIDE DEF shown
  <2> QED BY <1>4, <1>6
<1>9. Actuality(ref, refs, sel) = "CURRENT"
  BY <1>2, <1>5, <1>6, ActualityCurrent
<1>10. its.file = d.file /\ its.actuality = "CURRENT" /\ its.approval = d.approval /\ its.basis = d.basis
  BY <1>2, <1>8, <1>9, RowFields
<1> HIDE DEF its, shown
<1>11. Listed(d.file, rows) = its
  BY <1>3, <1>7, <1>10 DEF Listed
<1>12. d.file \in CurrentIn(rows)
  BY <1>3, <1>10 DEF CurrentIn
<1> QED BY <1>10, <1>11, <1>12 DEF rows

LEMMA CurrentShown ==
  ASSUME NEW files, files \subseteq File, NEW sel,
         NEW f \in CurrentIn(BuildDocumentCatalog(files, sel, {}))
  PROVE  \E d \in Shown(Parsed(files, sel, {}), sel) : d.file = f
<1> DEFINE refs == Parsed(files, sel, {})
<1>1. PICK row \in BuildDocumentCatalog(files, sel, {}) : row.actuality = "CURRENT" /\ row.file = f
  BY DEF CurrentIn
<1>2. row.file \in files /\ row = RowOf(StampRef(row.file, sel), refs, sel)
  BY <1>1, RowsOfFiles
<1>3. Actuality(StampRef(f, sel), refs, sel) = "CURRENT"
  BY <1>1, <1>2, RowFields
<1>4. StampRef(f, sel).file = f
  BY <1>1, <1>2, StampFields
<1> QED BY <1>3, <1>4, ActualityCurrent

\* Where nothing tells the run and the list apart, they resolve the same pool.
LEMMA SamePool ==
  ASSUME Inv, ReadAlike
  PROVE  LastPool = Parsed(Files, last.selected, {})
<1> DEFINE sel == last.selected
           all == Expand(attached, {})
           read == {b \in all : b.file \notin {} /\ Members[b.file] = {}}
           plain == {f \in Files : Members[f] = {}}
           Doc(a) == DocumentOf(a, Files \cap Raster)
           Seen(a) == ApprovalWithBasis(Doc(a), Doc(a).file \in sel)
<1>1. /\ \A a \in attached : a.pred = NoFile
      /\ last.lost = {} /\ last.blind = Files \cap Raster /\ {d.file : d \in LastPool} \subseteq Files
  BY DEF ReadAlike
<1>2. Links(attached) /\ Links(all) /\ Files \subseteq File
  BY ExpandLinks DEF Inv, Links, Files, FilesOf, Attached
<1>3. LastPool = {ApprovalWithBasis(d, d.file \in sel) : d \in {Doc(a) : a \in read}}
  BY <1>1 DEF LastPool, Pool, PoolOf
<1>4. LastPool = {Seen(a) : a \in read}
  <2> HIDE DEF LastPool, read, Doc
  <2> QED BY <1>3
<1>5. Parsed(Files, sel, {}) = {StampRef(f, sel) : f \in plain}
  <2>1. Files \ Unparseable(Files, {}) = plain
    BY DEF Unparseable
  <2> QED BY <2>1 DEF Parsed
<1>6. ASSUME NEW a \in attached PROVE a = Unlinked(a.file) /\ a.file \in Files
  <2>1. a \in Attached /\ a.pred = NoFile /\ a.file \in FilesOf(attached)
    BY <1>1, <1>2 DEF Links, FilesOf
  <2>2. a.file # NoFile
    BY <2>1, RevisionsAssumption DEF Attached
  <2>3. a.succ = NoFile
    <3>1. SUFFICES ASSUME a.succ # NoFile PROVE FALSE
      OBVIOUS
    <3>2. a.succ \in FilesOf(attached)
      BY <1>2, <3>1 DEF Links
    <3>3. PICK b \in attached : b.file = a.succ
      BY <3>2 DEF FilesOf
    <3>4. b.pred = a.file
      BY <1>2, <3>3 DEF Links
    <3> QED BY <1>1, <2>2, <3>4
  <2> QED BY <2>1, <2>3 DEF Attached, Unlinked, Files
<1>7. \A f \in Files : Unlinked(f) \in attached
  <2>1. SUFFICES ASSUME NEW a \in attached PROVE Unlinked(a.file) \in attached
    BY DEF Files, FilesOf
  <2> QED BY <1>6
<1>8. attached \subseteq all
  BY DEF Expand
<1>9. ASSUME NEW a \in all
      PROVE  Doc(a) \in DocumentRef /\ Doc(a).file = a.file /\ Seen(a).file = a.file
  <2>1. a \in Attached
    BY <1>2 DEF Links
  <2>2. Doc(a) \in DocumentRef /\ Doc(a).file = a.file
    BY <2>1, DocumentTyped
  <2>3. (Doc(a).file \in sel) \in BOOLEAN
    OBVIOUS
  <2> HIDE DEF Doc
  <2> QED BY <2>2, <2>3, ApprovalKeeps
<1>10. ASSUME NEW f \in Files PROVE Seen(Unlinked(f)) = StampRef(f, sel)
  <2>1. f \in File /\ Unlinked(f).file = f
    BY <1>2, UnlinkedFields
  <2>2. Doc(Unlinked(f)) = DocumentOf(Unlinked(f), Raster)
    BY <2>1 DEF DocumentOf
  <2>3. Doc(Unlinked(f)).file = f
    BY <2>1 DEF DocumentOf
  <2> HIDE DEF Doc
  <2> QED BY <2>2, <2>3 DEF StampRef
<1>11. \A a \in read : a \in all /\ Members[a.file] = {}
  OBVIOUS
<1>12. \A f \in plain : f \in Files /\ Unlinked(f) \in read
  <2>1. \A f \in plain : f \in Files /\ f \in File /\ Members[f] = {}
    BY <1>2
  <2>2. \A f \in plain : Unlinked(f) \in all /\ Unlinked(f).file = f
    BY <1>7, <1>8, <2>1, UnlinkedFields
  <2> HIDE DEF all, plain
  <2> QED BY <2>1, <2>2
<1>13. ASSUME NEW a \in read PROVE a.file \in plain /\ a = Unlinked(a.file)
  <2>1. a \in all /\ Members[a.file] = {}
    BY <1>11
  <2>2. Seen(a) \in LastPool /\ Seen(a).file = a.file
    BY <1>4, <1>9, <2>1
  <2> HIDE DEF Seen
  <2>3. a.file \in Files
    BY <1>1, <2>2
  <2>4. a \in attached \/ \E m \in File : m \notin Files /\ a = Unlinked(m)
    <3>1. UNION {Members[f] : f \in Files} \subseteq File
      BY <1>2, PackageAssumption
    <3> QED BY <2>1, <3>1 DEF Expand, Files
  <2>5. a \in attached
    BY <2>3, <2>4, UnlinkedFields
  <2> QED BY <1>6, <2>1, <2>3, <2>5
<1> HIDE DEF read, plain, Seen, all
<1>14. \A d \in LastPool : d \in Parsed(Files, sel, {})
  <2>1. SUFFICES ASSUME NEW a \in read PROVE Seen(a) \in Parsed(Files, sel, {})
    BY <1>4
  <2>2. a.file \in plain /\ a = Unlinked(a.file)
    BY <1>13
  <2>3. Seen(a) = StampRef(a.file, sel)
    BY <1>10, <1>12, <2>2
  <2> QED BY <1>5, <2>2, <2>3
<1>15. \A d \in Parsed(Files, sel, {}) : d \in LastPool
  <2>1. SUFFICES ASSUME NEW f \in plain PROVE StampRef(f, sel) \in LastPool
    BY <1>5
  <2>2. Unlinked(f) \in read /\ Seen(Unlinked(f)) = StampRef(f, sel)
    BY <1>10, <1>12
  <2> QED BY <1>4, <2>2
<1> QED BY <1>14, <1>15

LEMMA InvCatalog == Inv => CatalogAgrees
<1> SUFFICES ASSUME Inv, last # NoRun PROVE CatalogAgrees
  BY DEF CatalogAgrees
<1> DEFINE sel == last.selected
           rows == BuildDocumentCatalog(Files, sel, {})
           refs == Parsed(Files, sel, {})
           heads == LastHeads
<1>1. Files \subseteq File
  BY DEF Inv, Links, Files, FilesOf, Attached
<1>2. {row.file : row \in rows} = Files
  BY <1>1, EveryFileListed
<1>3. \A d \in Shown(refs, sel) : /\ d.file \in CurrentIn(rows)
                                  /\ Listed(d.file, rows).approval = d.approval
                                  /\ Listed(d.file, rows).basis = d.basis
  BY <1>1, ListedCurrent
<1>4. \A f \in CurrentIn(rows) : \E d \in Shown(refs, sel) : d.file = f
  BY <1>1, CurrentShown
<1>5. \A d \in Shown(refs, sel) : \E s \in DocStage : \E i \in ResolveHeadsByIdentity(refs, s, sel) :
        ShownBy(d, i, s, refs, Files, sel)
  BY <1>1, ShownFrom
<1> HIDE DEF rows, refs, sel
<1>6. \A f \in CurrentIn(rows) : f \in Raster \/ Passport[f].approval # "NOT_APPROVED"
  <2>1. SUFFICES ASSUME NEW f \in CurrentIn(rows)
                 PROVE  f \in Raster \/ Passport[f].approval # "NOT_APPROVED"
    OBVIOUS
  <2>2. PICK d \in Shown(refs, sel) : d.file = f
    BY <1>4
  <2> QED BY <1>5, <2>2 DEF ShownBy
<1>7. ASSUME ReadAlike
      PROVE  /\ \A h \in heads : h \in Shown(refs, sel)
             /\ \A d \in Shown(refs, sel) :
                  \/ d \in heads
                  \/ Passport[d.file].stage = "PD" /\ sel # {} /\ d.file \notin sel
  <2>1. heads = UNION {StageHeads(refs, s, sel) : s \in DocStage}
    BY <1>7, SamePool DEF LastHeads, refs, sel
  <2>2. ASSUME NEW h \in heads PROVE h \in Shown(refs, sel)
    <3>1. PICK s \in DocStage : h \in StageHeads(refs, s, sel)
      BY <2>1
    <3>2. PICK i \in ResolveHeadsByIdentity(refs, s, sel) : h \in i.resolution.doc
      BY <3>1, HeadsOfPool
    <3> QED BY <3>2 DEF Shown, Identities
  <2>3. ASSUME NEW d \in Shown(refs, sel), d \notin heads
        PROVE  Passport[d.file].stage = "PD" /\ sel # {} /\ d.file \notin sel
    <3>0. PICK s \in DocStage : \E i \in ResolveHeadsByIdentity(refs, s, sel) :
            d \in i.resolution.doc /\ Passport[d.file].stage = s
      BY <1>5 DEF ShownBy
    <3>1. PICK i \in ResolveHeadsByIdentity(refs, s, sel) :
            d \in i.resolution.doc /\ Passport[d.file].stage = s
      BY <3>0
    <3>2. d \notin StageHeads(refs, s, sel)
      BY <2>1, <2>3
    <3> QED BY <3>1, <3>2 DEF StageHeads
  <2> HIDE DEF heads
  <2> QED BY <2>2, <2>3
<1> HIDE DEF heads
<1>8. ASSUME ReadAlike
      PROVE  /\ {h.file : h \in heads} \subseteq CurrentIn(rows)
             /\ \A h \in heads : /\ Listed(h.file, rows).approval = h.approval
                                 /\ Listed(h.file, rows).basis = h.basis
             /\ \A f \in CurrentIn(rows) \ {h.file : h \in heads} :
                  Passport[f].stage = "PD" /\ sel # {} /\ f \notin sel
  <2>1. \A h \in heads : /\ h.file \in CurrentIn(rows)
                         /\ Listed(h.file, rows).approval = h.approval
                         /\ Listed(h.file, rows).basis = h.basis
    BY <1>3, <1>7, <1>8
  <2>2. ASSUME NEW f \in CurrentIn(rows), f \notin {h.file : h \in heads}
        PROVE  Passport[f].stage = "PD" /\ sel # {} /\ f \notin sel
    <3>1. PICK d \in Shown(refs, sel) : d.file = f
      BY <1>4
    <3>2. d \notin heads
      BY <2>2, <3>1
    <3> QED BY <1>7, <1>8, <3>1, <3>2
  <2> QED BY <2>1, <2>2
<1> QED BY <1>2, <1>6, <1>8 DEF CatalogAgrees, rows, sel, heads

\* The list the inspector sees and the run agree, whatever is uploaded and
\* chosen: every file has a row, no file whose stamp refuses is current, and where
\* both read the same they call the same files current on the same basis
\* (build_document_catalog beside a run).
THEOREM ListAgrees == Spec => []CatalogAgrees
BY InitInv, NextKeeps, InvCatalog, PTL DEF Spec

-----------------------------------------------------------------------------
(* The chains that a change of some files leaves alone.                    *)

\* The pools before and after some files are added, linked or chosen: the others
\* are as they were, and no file leaves or changes its identity.
Moves(P, Q, moved) ==
  /\ Pooled(P) /\ Pooled(Q)
  /\ \A d \in P \cup Q : d.file \notin moved => (d \in P <=> d \in Q)
  /\ \A d \in P : \E e \in Q : e.file = d.file /\ e.key = d.key /\ e.stage = d.stage
  /\ \A d \in P, e \in Q : e.file \in {d.pred, d.succ} =>
       \E x \in P : x.file = e.file /\ x.key = e.key /\ x.stage = e.stage

\* Two documents that may belong together.
Near(d, e) ==
  \/ d.file = e.file \/ e.file \in {d.pred, d.succ}
  \/ d.stage = e.stage /\ (\/ d.key = e.key /\ d.key # Blank
                           \/ d.volume = e.volume /\ d.volume # Blank)
Apart(g, P, Q, moved) == \A d \in g, e \in P \cup Q : e.file \in moved => ~Near(d, e)

\* Links are known at both ends.
LEMMA LinkedEither ==
  ASSUME NEW P, Pooled(P), NEW d \in P, NEW e \in P
  PROVE  Linked(d, e) <=> e.file \in {d.pred, d.succ}
BY DEF Linked, Pooled

LEMMA ApartUnmoved ==
  ASSUME NEW P, NEW Q, NEW moved, Moves(P, Q, moved), NEW s, NEW g, OfPool(g, P, s),
         Apart(g, P, Q, moved), NEW d \in g, NEW q \in OfStage(P, s), SameButLinks(d, q)
  PROVE  q.file \notin moved /\ q \in OfStage(Q, s)
<1>1. q \in P /\ d.file = q.file
  BY DEF OfStage, SameButLinks
<1>2. q.file \notin moved
  BY <1>1 DEF Apart, Near
<1> QED BY <1>1, <1>2 DEF Moves, OfStage

LEMMA KeyedStays ==
  ASSUME NEW P, NEW Q, NEW moved, Moves(P, Q, moved), NEW s,
         NEW o \in OfStage(P, s), o.key # Blank,
         Apart({d \in OfStage(P, s) : d.key = o.key}, P, Q, moved)
  PROVE  {d \in OfStage(P, s) : d.key = o.key} = {d \in OfStage(Q, s) : d.key = o.key}
<1>1. \A e \in P \cup Q : e.stage = s /\ e.key = o.key => e.file \notin moved
  <2>1. o \in {d \in OfStage(P, s) : d.key = o.key} /\ o.stage = s
    BY DEF OfStage
  <2> QED BY <2>1 DEF Apart, Near
<1>2. \A e \in P \cup Q : e.stage = s /\ e.key = o.key => (e \in P <=> e \in Q)
  BY <1>1 DEF Moves
<1> QED BY <1>2 DEF OfStage

LEMMA ComponentStays ==
  ASSUME NEW P, NEW Q, NEW moved, Moves(P, Q, moved), NEW s, NEW o \in Blanks(P, s),
         Apart(ComponentOf(o, Blanks(P, s)), P, Q, moved)
  PROVE  o \in Blanks(Q, s) /\ ComponentOf(o, Blanks(Q, s)) = ComponentOf(o, Blanks(P, s))
<1> DEFINE B == Blanks(P, s)
           D == Blanks(Q, s)
           C == ComponentOf(o, B)
<1>1. /\ B \subseteq P /\ D \subseteq Q
      /\ \A d \in P \cup Q : (d \in B <=> d \in P /\ d.stage = s /\ d.key = Blank)
                             /\ (d \in D <=> d \in Q /\ d.stage = s /\ d.key = Blank)
  BY DEF Blanks, OfStage
<1>2. C \subseteq B /\ o \in C
  BY DEF ComponentOf
<1>3. \A d \in C : d.file \notin moved
  BY <1>1, <1>2 DEF Apart, Near
<1>4. C \subseteq D
  BY <1>1, <1>2, <1>3 DEF Moves
<1>5. ASSUME NEW S \in SUBSET D, o \in S, Closed(S, D) PROVE C \subseteq S
  <2> DEFINE T == S \cap C
  <2>1. T \in SUBSET B /\ o \in T
    BY <1>2, <1>5
  <2>2. Closed(T, B)
    <3>1. SUFFICES ASSUME NEW d \in T, NEW e \in B, Linked(d, e) PROVE e \in S /\ e \in C
      BY DEF Closed
    <3>2. e \in C
      BY <3>1, ComponentClosed
    <3> QED BY <1>4, <1>5, <3>1, <3>2 DEF Closed
  <2>3. \A x \in C : x \in T
    <3> HIDE DEF T
    <3> QED BY <2>1, <2>2 DEF ComponentOf
  <2> QED BY <2>3
<1>6. \A x \in C : x \in ComponentOf(o, D)
  BY <1>4, <1>5 DEF ComponentOf
<1>7. Closed(C, D)
  <2>1. SUFFICES ASSUME NEW d \in C, NEW e \in D, Linked(d, e) PROVE e \in C
    BY DEF Closed
  <2>2. d \in Q /\ e \in Q /\ Pooled(Q)
    BY <1>1, <1>4 DEF Moves
  <2>3. e.file \in {d.pred, d.succ}
    BY <2>1, <2>2, LinkedEither
  <2>4. e.file \notin moved
    BY <2>2, <2>3 DEF Apart, Near
  <2>5. e \in B
    BY <1>1, <2>2, <2>4 DEF Moves
  <2> QED BY <2>1, <2>5, ComponentClosed
<1>8. \A x \in ComponentOf(o, D) : x \in C
  <2> HIDE DEF C
  <2> QED BY <1>2, <1>4, <1>7 DEF ComponentOf
<1> QED BY <1>2, <1>4, <1>6, <1>8

\* Who is alone before is alone after, and the other way round.
LEMMA AloneStays ==
  ASSUME NEW P, NEW Q, NEW moved, Moves(P, Q, moved), NEW s,
         NEW d \in P, d.file \notin moved, d.stage = s, d.key = Blank
  PROVE  d \in Blanks(P, s) /\ d \in Blanks(Q, s)
         /\ (ComponentOf(d, Blanks(P, s)) = {d} <=> ComponentOf(d, Blanks(Q, s)) = {d})
<1> DEFINE B == Blanks(P, s)
           D == Blanks(Q, s)
<1>1. d \in Q /\ d \in B /\ d \in D
  BY DEF Moves, Blanks, OfStage
<1>2. Pooled(P) /\ Pooled(Q)
  BY DEF Moves
<1>3. /\ \A e : e \in B <=> e \in P /\ e.stage = s /\ e.key = Blank
      /\ \A e : e \in D <=> e \in Q /\ e.stage = s /\ e.key = Blank
  BY DEF Blanks, OfStage
<1> HIDE DEF B, D
<1>4. ASSUME ComponentOf(d, B) = {d}, NEW e \in D, Linked(d, e) PROVE e = d
  <2>1. e \in Q /\ e.file \in {d.pred, d.succ}
    BY <1>1, <1>2, <1>3, <1>4, LinkedEither
  <2>2. PICK x \in P : x.file = e.file /\ x.key = e.key /\ x.stage = e.stage
    BY <2>1 DEF Moves
  <2>3. x \in B /\ Linked(d, x)
    BY <1>2, <1>3, <2>1, <2>2, LinkedEither
  <2>4. x = d
    <3>1. d \in ComponentOf(d, B)
      BY <1>4
    <3>2. x \in ComponentOf(d, B)
      BY <1>1, <2>3, <3>1, ComponentClosed
    <3> QED BY <1>4, <3>2
  <2> QED BY <1>1, <1>2, <2>1, <2>2, <2>4 DEF Pooled
<1>5. ASSUME ComponentOf(d, D) = {d}, NEW e \in B, Linked(d, e) PROVE e = d
  <2>1. e \in P /\ e.file \in {d.pred, d.succ}
    BY <1>2, <1>3, <1>5, LinkedEither
  <2>2. PICK x \in Q : x.file = e.file /\ x.key = e.key /\ x.stage = e.stage
    BY <2>1 DEF Moves
  <2>3. x \in D /\ Linked(d, x)
    BY <1>1, <1>2, <1>3, <2>1, <2>2, LinkedEither
  <2>4. x = d
    <3>1. d \in ComponentOf(d, D)
      BY <1>5
    <3>2. x \in ComponentOf(d, D)
      BY <1>1, <2>3, <3>1, ComponentClosed
    <3> QED BY <1>5, <3>2
  <2> QED BY <1>2, <2>1, <2>2, <2>4 DEF Pooled
<1>6. ComponentOf(d, B) = {d} => ComponentOf(d, D) = {d}
  BY <1>1, <1>4, AloneInComponent
<1>7. ComponentOf(d, D) = {d} => ComponentOf(d, B) = {d}
  BY <1>1, <1>5, AloneInComponent
<1> QED BY <1>1, <1>6, <1>7 DEF B, D

LEMMA NamedStays ==
  ASSUME NEW P, NEW Q, NEW moved, Moves(P, Q, moved), NEW s, NEW o \in Loose(Blanks(P, s)),
         \A e \in P \cup Q : e.stage = s /\ e.volume = o.volume => e.file \notin moved
  PROVE  /\ o \in Loose(Blanks(Q, s))
         /\ NameCluster(o.volume, Blanks(Q, s)) = NameCluster(o.volume, Blanks(P, s))
<1> DEFINE In(e, R) == /\ e \in R /\ e.stage = s /\ e.key = Blank
                       /\ e.volume = o.volume /\ o.volume # Blank
                       /\ ComponentOf(e, Blanks(R, s)) = {e}
<1>1. \A R : \A e : e \in NameCluster(o.volume, Blanks(R, s)) <=> In(e, R)
  <2>1. o.volume # Blank
    BY DEF Loose
  <2> QED BY <2>1 DEF NameCluster, Loose, Blanks, OfStage
<1>2. \A e \in P : In(e, P) => In(e, Q)
  <2>1. SUFFICES ASSUME NEW e \in P, In(e, P) PROVE In(e, Q)
    OBVIOUS
  <2>2. e.file \notin moved
    BY <2>1
  <2>3. e \in Q
    BY <2>2 DEF Moves
  <2>4. ComponentOf(e, Blanks(Q, s)) = {e}
    BY <2>1, <2>2, AloneStays
  <2> QED BY <2>1, <2>3, <2>4
<1>3. \A e \in Q : In(e, Q) => In(e, P)
  <2>1. SUFFICES ASSUME NEW e \in Q, In(e, Q) PROVE In(e, P)
    OBVIOUS
  <2>2. e.file \notin moved
    BY <2>1
  <2>3. e \in P
    BY <2>2 DEF Moves
  <2>4. ComponentOf(e, Blanks(P, s)) = {e}
    BY <2>1, <2>2, <2>3, AloneStays
  <2> QED BY <2>1, <2>3, <2>4
<1>4. NameCluster(o.volume, Blanks(Q, s)) = NameCluster(o.volume, Blanks(P, s))
  <2>1. \A e : In(e, P) <=> In(e, Q)
    BY <1>2, <1>3
  <2> HIDE DEF In
  <2> QED BY <1>1, <2>1
<1>5. o \in NameCluster(o.volume, Blanks(P, s))
  BY DEF NameCluster
<1>6. o \in Loose(Blanks(Q, s))
  BY <1>4, <1>5 DEF NameCluster
<1> QED BY <1>4, <1>6

\* A chain none of whose documents is near a moved one is a chain after the move.
LEMMA ChainStays ==
  ASSUME NEW P, NEW Q, NEW moved, Moves(P, Q, moved), NEW s, NEW g \in IdentityGroups(P, s),
         Apart(g, P, Q, moved)
  PROVE  /\ g \in IdentityGroups(Q, s)
         /\ \A d \in g : d.file \notin moved
<1>1. Pooled(P)
  BY DEF Moves
<1>2. PICK o \in OfStage(P, s) : g = Home(o, P, s)
  BY Homes
<1>3. OfPool(g, P, s)
  BY <1>1, <1>2, HomeOfPool
<1>4. \A d \in g : d.file \notin moved
  <2>1. SUFFICES ASSUME NEW d \in g PROVE d.file \notin moved
    OBVIOUS
  <2>2. PICK q \in OfStage(P, s) : SameButLinks(d, q)
    BY <1>3 DEF OfPool
  <2> QED BY <1>3, <2>2, ApartUnmoved DEF SameButLinks
<1>5. CASE o.key # Blank
  <2>1. g = {d \in OfStage(P, s) : d.key = o.key}
    BY <1>2, <1>5 DEF Home
  <2>2. g = {d \in OfStage(Q, s) : d.key = o.key}
    BY <1>5, <2>1, KeyedStays
  <2>3. o \in OfStage(Q, s)
    BY <2>1, <2>2
  <2>4. g = Home(o, Q, s)
    BY <1>5, <2>2 DEF Home
  <2> QED BY <1>4, <2>3, <2>4, Homes
<1>6. CASE o.key = Blank /\ (s = "ID" \/ o \notin Loose(Blanks(P, s)))
  <2>1. g = ComponentOf(o, Blanks(P, s)) /\ o \in Blanks(P, s)
    BY <1>2, <1>6 DEF Home, Blanks
  <2>2. o \in Blanks(Q, s) /\ g = ComponentOf(o, Blanks(Q, s))
    BY <2>1, ComponentStays
  <2>3. s = "ID" \/ o \notin Loose(Blanks(Q, s))
    BY <1>6, <2>1, <2>2 DEF Loose
  <2>4. g = Home(o, Q, s) /\ o \in OfStage(Q, s)
    BY <1>6, <2>2, <2>3 DEF Home, Blanks
  <2> QED BY <1>4, <2>4, Homes
<1>7. CASE o.key = Blank /\ s # "ID" /\ o \in Loose(Blanks(P, s))
  <2> DEFINE group == NameCluster(o.volume, Blanks(P, s))
  <2>1. g = NamedChain(o.volume, Blanks(P, s))
    BY <1>2, <1>7 DEF Home
  <2>2. o \in group /\ group \subseteq OfStage(P, s) /\ o.volume # Blank /\ o.stage = s /\ o \in P
    BY <1>7 DEF NameCluster, Loose, Blanks, OfStage
  <2>3. \E d \in g : SameButLinks(d, o)
    <3>1. CASE g = group
      BY <2>2, <3>1 DEF SameButLinks
    <3>2. CASE g = ChainByFilename(group)
      <4>1. [o EXCEPT !.pred = Previous(o, group), !.succ = Following(o, group)] \in g
        BY <2>2, <3>2 DEF ChainByFilename
      <4>2. o \in DocumentRef
        BY <1>1, <2>2 DEF Pooled
      <4>3. SameButLinks([o EXCEPT !.pred = Previous(o, group), !.succ = Following(o, group)], o)
        BY <4>2 DEF SameButLinks, DocumentRef
      <4> QED BY <4>1, <4>3
    <3> QED BY <2>1, <3>1, <3>2 DEF NamedChain
  <2>4. \A e \in P \cup Q : e.stage = s /\ e.volume = o.volume => e.file \notin moved
    BY <2>2, <2>3 DEF Apart, Near, SameButLinks
  <2>5. /\ o \in Loose(Blanks(Q, s))
        /\ NameCluster(o.volume, Blanks(Q, s)) = group
    BY <1>7, <2>4, NamedStays
  <2>6. g = NamedChain(o.volume, Blanks(Q, s))
    BY <2>1, <2>5 DEF NamedChain
  <2>7. o \in OfStage(Q, s)
    BY <2>5 DEF Loose, Blanks
  <2>8. g = Home(o, Q, s)
    BY <1>7, <2>5, <2>6 DEF Home
  <2> QED BY <1>4, <2>7, <2>8, Homes
<1> QED BY <1>5, <1>6, <1>7

\* And it resolves to the same, if the choices differ in moved files only.
LEMMA ResolvesSame ==
  ASSUME NEW g, NEW s, NEW sel, NEW later, \A d \in g : d.file \in sel <=> d.file \in later
  PROVE  ResolveGroup(g, s, sel) = ResolveGroup(g, s, later)
<1>1. {d \in Eligible(g) : d.file \in sel} = {d \in Eligible(g) : d.file \in later}
  BY DEF Eligible
<1>2. ResolveChain(g, sel) = ResolveChain(g, later)
  BY <1>1 DEF ResolveChain
<1> QED BY <1>2 DEF ResolveGroup

LEMMA IdentityStays ==
  ASSUME NEW P, NEW Q, NEW moved, Moves(P, Q, moved), NEW s, NEW sel, NEW later,
         \A f : f \notin moved => (f \in sel <=> f \in later),
         NEW i \in ResolveHeadsByIdentity(P, s, sel), Apart(i.group, P, Q, moved)
  PROVE  i \in ResolveHeadsByIdentity(Q, s, later)
<1>1. PICK g \in IdentityGroups(P, s) : i = [group |-> g, resolution |-> ResolveGroup(g, s, sel)]
  BY DEF ResolveHeadsByIdentity
<1>2. g \in IdentityGroups(Q, s) /\ \A d \in g : d.file \notin moved
  BY <1>1, ChainStays
<1>3. ResolveGroup(g, s, sel) = ResolveGroup(g, s, later)
  BY <1>2, ResolvesSame
<1> QED BY <1>1, <1>2, <1>3 DEF ResolveHeadsByIdentity

-----------------------------------------------------------------------------
(* What an upload, a run or a choice moves.                                *)

Whole == [lost |-> {}, blind |-> {}]
Ref(a, sel) == ApprovalWithBasis(DocumentOf(a, {}), a.file \in sel)
Plain(files) == {a \in Expand(files, {}) : Members[a.file] = {}}

LEMMA RefFields ==
  ASSUME NEW a \in Attached, NEW sel
  PROVE  /\ Ref(a, sel).file = a.file /\ Ref(a, sel).pred = a.pred /\ Ref(a, sel).succ = a.succ
         /\ Ref(a, sel).stage = Passport[a.file].stage /\ Ref(a, sel).key = Passport[a.file].key
         /\ Ref(a, sel).volume = Passport[a.file].volume
<1> DEFINE o == DocumentOf(a, {})
           chosen == a.file \in sel
<1>1. o \in DocumentRef
  BY DocumentTyped
<1>2. /\ o.file = a.file /\ o.pred = a.pred /\ o.succ = a.succ /\ o.stage = Passport[a.file].stage
      /\ o.key = Passport[a.file].key /\ o.volume = Passport[a.file].volume
  BY DEF DocumentOf
<1>3. Ref(a, sel) = IF chosen /\ o.approval = "UNKNOWN"
                    THEN [o EXCEPT !.approval = "APPROVED", !.basis = "INSPECTOR_SELECT"] ELSE o
  BY DEF Ref, ApprovalWithBasis
<1> HIDE DEF o, chosen
<1> QED BY <1>1, <1>2, <1>3 DEF DocumentRef

LEMMA WholePool ==
  ASSUME NEW files, Links(files), NEW sel
  PROVE  Pool(files, sel, Whole) = {Ref(a, sel) : a \in Plain(files)}
<1> DEFINE Doc(a) == DocumentOf(a, {})
<1>1. Pool(files, sel, Whole) = PoolOf({Doc(a) : a \in Plain(files)}, sel)
  <2>1. {b \in Expand(files, {}) : b.file \notin {} /\ Members[b.file] = {}} = Plain(files)
    BY DEF Plain
  <2>2. Whole.lost = {} /\ Whole.blind = {}
    BY DEF Whole
  <2> QED BY <2>1, <2>2 DEF Pool
<1>2. \A a : Doc(a).file = a.file
  BY DEF DocumentOf
<1>3. \A a : Ref(a, sel) = ApprovalWithBasis(Doc(a), a.file \in sel)
  BY DEF Ref
<1> HIDE DEF Doc
<1> QED BY <1>1, <1>2, <1>3 DEF PoolOf

\* The records before and after: those of files that do not move stay.
Steps(files, later, sel, chosen, moved) ==
  /\ Links(files) /\ Links(later)
  /\ \A a \in Expand(files, {}) \cup Expand(later, {}) :
       a.file \notin moved => (a \in Expand(files, {}) <=> a \in Expand(later, {}))
  /\ \A a \in Expand(files, {}) : \E b \in Expand(later, {}) : b.file = a.file
  /\ \A f : f \notin moved => (f \in sel <=> f \in chosen)

LEMMA StepsMove ==
  ASSUME NEW files, NEW later, NEW sel, NEW chosen, NEW moved,
         Steps(files, later, sel, chosen, moved)
  PROVE  Moves(Pool(files, sel, Whole), Pool(later, chosen, Whole), moved)
<1> DEFINE A == Plain(files)
           B == Plain(later)
           P == Pool(files, sel, Whole)
           Q == Pool(later, chosen, Whole)
<1>1. Links(files) /\ Links(later)
  BY DEF Steps
<1>2. P = {Ref(a, sel) : a \in A} /\ Q = {Ref(a, chosen) : a \in B}
  BY <1>1, WholePool
<1>3. Pooled(P) /\ Pooled(Q)
  BY <1>1, PoolPooled
<1>4. Links(Expand(files, {})) /\ Links(Expand(later, {}))
  BY <1>1, ExpandLinks
<1>5. A \subseteq Attached /\ B \subseteq Attached
  BY <1>4 DEF Links, Plain
<1>6. /\ \A a \in A \cup B : a.file \notin moved => (a \in A <=> a \in B)
      /\ \A a \in A : \E b \in B : b.file = a.file
  BY DEF Steps, Plain
<1>7. \A f : f \notin moved => (f \in sel <=> f \in chosen)
  BY DEF Steps
<1>8. ASSUME NEW a \in A, NEW b \in B, b.file \in {a.pred, a.succ}
      PROVE  \E c \in A : c.file = b.file
  <2>1. a \in Expand(files, {}) /\ b \in Attached /\ Members[b.file] = {}
    BY <1>5 DEF Plain
  <2>2. b.file # NoFile
    BY <2>1, RevisionsAssumption DEF Attached
  <2>3. b.file \in FilesOf(Expand(files, {}))
    BY <1>4, <1>8, <2>1, <2>2 DEF Links
  <2> QED BY <2>1, <2>3 DEF FilesOf, Plain
<1> HIDE DEF A, B, P, Q
<1>9. \A a \in A \cup B : /\ Ref(a, sel).file = a.file /\ Ref(a, chosen).file = a.file
                          /\ Ref(a, sel).pred = a.pred /\ Ref(a, sel).succ = a.succ
                          /\ Ref(a, sel).key = Passport[a.file].key
                          /\ Ref(a, chosen).key = Passport[a.file].key
                          /\ Ref(a, sel).stage = Passport[a.file].stage
                          /\ Ref(a, chosen).stage = Passport[a.file].stage
  BY <1>5, RefFields
<1>10. \A a \in A \cup B : a.file \notin moved => Ref(a, sel) = Ref(a, chosen)
  BY <1>7 DEF Ref
<1>11. ASSUME NEW d \in P \cup Q, d.file \notin moved PROVE d \in P <=> d \in Q
  <2>1. ASSUME d \in P PROVE d \in Q
    <3>1. PICK a \in A : d = Ref(a, sel)
      BY <1>2, <2>1
    <3>2. a.file \notin moved
      BY <1>9, <1>11, <3>1
    <3> QED BY <1>2, <1>6, <1>10, <3>1, <3>2
  <2>2. ASSUME d \in Q PROVE d \in P
    <3>1. PICK a \in B : d = Ref(a, chosen)
      BY <1>2, <2>2
    <3>2. a.file \notin moved
      BY <1>9, <1>11, <3>1
    <3> QED BY <1>2, <1>6, <1>10, <3>1, <3>2
  <2> QED BY <2>1, <2>2
<1>12. ASSUME NEW d \in P PROVE \E e \in Q : e.file = d.file /\ e.key = d.key /\ e.stage = d.stage
  <2>1. PICK a \in A : d = Ref(a, sel)
    BY <1>2
  <2>2. PICK b \in B : b.file = a.file
    BY <1>6
  <2> QED BY <1>2, <1>9, <2>1, <2>2
<1>13. ASSUME NEW d \in P, NEW e \in Q, e.file \in {d.pred, d.succ}
       PROVE  \E x \in P : x.file = e.file /\ x.key = e.key /\ x.stage = e.stage
  <2>1. PICK a \in A : d = Ref(a, sel)
    BY <1>2
  <2>2. PICK b \in B : e = Ref(b, chosen)
    BY <1>2
  <2>3. PICK c \in A : c.file = b.file
    BY <1>8, <1>9, <1>13, <2>1, <2>2
  <2> QED BY <1>2, <1>9, <2>2, <2>3
<1>14. Moves(P, Q, moved)
  BY <1>3, <1>11, <1>12, <1>13 DEF Moves
<1> QED BY <1>14 DEF P, Q

\* What is not concerned is apart.
WithMembers(moved) == {g \in File : \E f \in moved : g = f \/ g \in Members[f]}

LEMMA UnconcernedApart ==
  ASSUME NEW files, NEW later, Links(files), Links(later), NEW sel, NEW chosen,
         NEW moved, NEW g, \A f \in moved : ~Concerned(f, g)
  PROVE  Apart(g, Pool(files, sel, Whole), Pool(later, chosen, Whole), WithMembers(moved))
<1> DEFINE P == Pool(files, sel, Whole)
           Q == Pool(later, chosen, Whole)
<1>1. ASSUME NEW all, Links(all), NEW picked, NEW e \in Pool(all, picked, Whole)
      PROVE  /\ e.stage = Passport[e.file].stage /\ e.key = Passport[e.file].key
             /\ e.volume = Passport[e.file].volume
  <2>1. PICK a \in Plain(all) : e = Ref(a, picked)
    BY <1>1, WholePool
  <2>2. a \in Attached
    BY <1>1, ExpandLinks DEF Plain, Links
  <2> QED BY <2>1, <2>2, RefFields
<1>2. \A e \in P \cup Q : /\ e.stage = Passport[e.file].stage /\ e.key = Passport[e.file].key
                          /\ e.volume = Passport[e.file].volume
  BY <1>1
<1> HIDE DEF P, Q
<1>3. ASSUME NEW d \in g, NEW e \in P \cup Q, e.file \in WithMembers(moved), Near(d, e) PROVE FALSE
  <2>1. PICK f \in moved : e.file \in {f} \cup Members[f]
    BY <1>3 DEF WithMembers
  <2>2. Concerned(f, g)
    BY <1>2, <1>3, <2>1 DEF Concerned, Near
  <2> QED BY <2>2
<1> QED BY <1>3 DEF Apart, P, Q

LEMMA ChainsStay ==
  ASSUME NEW files, NEW later, NEW sel, NEW chosen, NEW moved,
         Steps(files, later, sel, chosen, WithMembers(moved))
  PROVE  ChainsApart(Chains(files, sel), moved) \subseteq ChainsApart(Chains(later, chosen), {})
<1> DEFINE P == Pool(files, sel, Whole)
           Q == Pool(later, chosen, Whole)
           As(i) == [group |-> {d.file : d \in i.group}, status |-> i.resolution.status,
                     head |-> {d.file : d \in i.resolution.doc}]
<1>1. ASSUME NEW i \in Chains(files, sel), \A f \in moved : ~Concerned(f, i.group)
      PROVE  i \in Chains(later, chosen)
  <2>1. PICK s \in DocStage : i \in ResolveHeadsByIdentity(P, s, sel)
    BY DEF Chains, Whole
  <2>2. Moves(P, Q, WithMembers(moved))
    BY StepsMove
  <2>3. Apart(i.group, P, Q, WithMembers(moved))
    BY <1>1, UnconcernedApart DEF Steps
  <2>4. \A f : f \notin WithMembers(moved) => (f \in sel <=> f \in chosen)
    BY DEF Steps
  <2> HIDE DEF P, Q
  <2>5. i \in ResolveHeadsByIdentity(Q, s, chosen)
    BY <2>1, <2>2, <2>3, <2>4, IdentityStays
  <2> QED BY <2>5 DEF Chains, Whole, Q
<1>2. ChainsApart(Chains(files, sel), moved) =
        {As(i) : i \in {j \in Chains(files, sel) : \A f \in moved : ~Concerned(f, j.group)}}
  BY DEF ChainsApart
<1>3. ChainsApart(Chains(later, chosen), {}) = {As(i) : i \in Chains(later, chosen)}
  BY DEF ChainsApart
<1> HIDE DEF As, P, Q
<1> QED BY <1>1, <1>2, <1>3

\* Opening what is open already adds nothing.
LEMMA ExpandAgain ==
  ASSUME NEW files, Links(files), NEW lost
  PROVE  Expand(Expand(files, lost), {}) = Expand(files, {})
<1> DEFINE F == FilesOf(files)
           In(G) == UNION {Members[f] : f \in G}
           some == In(F \ lost) \ F
           first == files \cup {Unlinked(m) : m \in some}
<1>1. F \subseteq File /\ \A G : G \subseteq File => In(G) \subseteq File
  BY PackageAssumption DEF Links, FilesOf, Attached
<1>2. some \subseteq File /\ some \subseteq In(F) /\ some \cap F = {}
  <2>1. F \ lost \subseteq File
    BY <1>1
  <2>2. In(F \ lost) \subseteq In(F)
    OBVIOUS
  <2> HIDE DEF In
  <2> QED BY <1>1, <2>1, <2>2
<1>3. \A m \in some : Members[m] = {}
  <2>1. SUFFICES ASSUME NEW f \in F, NEW m \in Members[f] PROVE Members[m] = {}
    OBVIOUS
  <2> QED BY <1>1, PackageAssumption
<1>4. FilesOf(first) = F \cup some
  <2>1. \A m \in some : Unlinked(m).file = m
    BY DEF Unlinked
  <2> HIDE DEF some
  <2> QED BY <2>1 DEF FilesOf
<1>5. In(F \cup some) = In(F)
  <2> HIDE DEF some, F
  <2> QED BY <1>3
<1>6. Expand(files, lost) = first
  BY DEF Expand
<1>7. Expand(first, {}) = first \cup {Unlinked(m) : m \in In(F) \ (F \cup some)}
  <2>1. FilesOf(first) \ {} = F \cup some
    BY <1>4
  <2> HIDE DEF first, some, F
  <2> QED BY <1>4, <1>5, <2>1 DEF Expand
<1>8. Expand(files, {}) = files \cup {Unlinked(m) : m \in In(F) \ F}
  BY DEF Expand
<1>9. first \cup {Unlinked(m) : m \in In(F) \ (F \cup some)} = files \cup {Unlinked(m) : m \in In(F) \ F}
  <2>1. In(F) \ F = some \cup (In(F) \ (F \cup some))
    BY <1>2
  <2> HIDE DEF some, F, In
  <2> QED BY <2>1
<1> HIDE DEF first
<1> QED BY <1>6, <1>7, <1>8, <1>9

LEMMA LinkSteps ==
  ASSUME NEW files, Links(files), NEW new, new \subseteq File, new \cap FilesOf(files) = {},
         NEW prior, Links(Link(files, new, prior)),
         FilesOf(Link(files, new, prior)) = FilesOf(files) \cup new,
         NEW moved, new \subseteq moved, prior # NoFile => prior \in moved,
         \A f \in new : Members[f] \subseteq moved,
         NEW sel
  PROVE  Steps(files, Link(files, new, prior), sel, sel, moved)
<1> DEFINE F == FilesOf(files)
           later == Link(files, new, prior)
           In(G) == UNION {Members[f] : f \in G}
           Old(a) == [a EXCEPT !.succ = IF a.file = prior THEN CHOOSE f \in new : TRUE ELSE @]
           New(f) == [Unlinked(f) EXCEPT !.pred = prior]
<1>1. F \subseteq File /\ \A a \in files : a.file \in F /\ a \in Attached /\ a.file # NoFile
  BY RevisionsAssumption DEF Links, FilesOf, Attached
<1>2. /\ Expand(files, {}) = files \cup {Unlinked(m) : m \in In(F) \ F}
      /\ Expand(later, {}) = later \cup {Unlinked(m) : m \in In(F \cup new) \ (F \cup new)}
  BY DEF Expand
<1>3. later = {Old(a) : a \in files} \cup {New(f) : f \in new}
  BY DEF Link
<1>4. \A a \in files : Old(a).file = a.file /\ (a.file # prior => Old(a) = a)
  BY <1>1 DEF Attached
<1>5. \A f \in new : New(f).file = f
  BY DEF Unlinked
<1>6. \A m : Unlinked(m).file = m
  BY DEF Unlinked
<1>7. In(F \cup new) = In(F) \cup In(new) /\ In(new) \subseteq moved
  OBVIOUS
<1>8. \A a \in files : a.file # prior \/ a.file \in moved
  BY <1>1
<1>9. FilesOf(later) = F \cup new
  OBVIOUS
<1> HIDE DEF F, later, Old, New, In
<1>10. ASSUME NEW a, a.file \notin moved
       PROVE  a \in Expand(files, {}) <=> a \in Expand(later, {})
  <2>1. a \in files <=> a \in later
    BY <1>3, <1>4, <1>5, <1>8, <1>10
  <2>2. ASSUME NEW m, a = Unlinked(m) PROVE m \in In(F) \ F <=> m \in In(F \cup new) \ (F \cup new)
    <3>1. m \notin moved
      BY <1>6, <1>10, <2>2
    <3> QED BY <1>7, <3>1
  <2> QED BY <1>2, <2>1, <2>2
<1>11. ASSUME NEW a \in Expand(files, {}) PROVE \E b \in Expand(later, {}) : b.file = a.file
  <2>1. a.file \in F \/ a.file \in In(F)
    BY <1>1, <1>2, <1>6
  <2>2. CASE a.file \in F \cup new
    BY <1>2, <1>9, <2>2 DEF FilesOf
  <2>3. CASE a.file \notin F \cup new
    <3>1. Unlinked(a.file) \in Expand(later, {})
      BY <1>2, <1>7, <2>1, <2>3
    <3> QED BY <1>6, <3>1
  <2> QED BY <2>2, <2>3
<1> QED BY <1>10, <1>11 DEF Steps, later

NewFiles == (Files' \ Files) \cup (selected' \ selected)
MovedFiles == NewFiles \cup ({a.pred : a \in {b \in attached' : b.file \in NewFiles}} \ {NoFile})

LEMMA StepSteps ==
  ASSUME Inv, Inv', Next
  PROVE  Steps(attached, attached', selected, selected', WithMembers(MovedFiles))
<1> DEFINE moved == WithMembers(MovedFiles)
<1>1. Links(attached) /\ Links(attached') /\ selected \subseteq Files
  BY DEF Inv, TypeOK
<1>2. Files \subseteq File /\ Files' \subseteq File
  BY <1>1 DEF Links, Files, FilesOf, Attached
<1>3. \A f \in File : f \in MovedFiles => f \in moved /\ Members[f] \subseteq moved
  BY PackageAssumption DEF WithMembers
<1>4. ASSUME NEW request \in Requests, NEW prior \in Files \cup {NoFile}, Upload(request, prior)
      PROVE  Steps(attached, attached', selected, selected', moved)
  <2> DEFINE new == request.accepted \ Files
  <2>1. /\ new \subseteq File /\ new \cap FilesOf(attached) = {} /\ new # {}
        /\ attached' = Link(attached, new, prior) /\ selected' = selected
        /\ FilesOf(attached') = FilesOf(attached) \cup new
    BY <1>1, <1>4, UploadLinks
  <2> HIDE DEF new
  <2>2. new \subseteq MovedFiles
    BY <2>1 DEF MovedFiles, NewFiles, Files
  <2>3. prior # NoFile => prior \in MovedFiles
    <3>1. PICK f \in new : TRUE
      BY <2>1
    <3>2. [Unlinked(f) EXCEPT !.pred = prior] \in attached'
      BY <2>1 DEF Link
    <3>3. [Unlinked(f) EXCEPT !.pred = prior].file = f /\ [Unlinked(f) EXCEPT !.pred = prior].pred = prior
      BY DEF Unlinked
    <3>4. f \in NewFiles
      BY <2>1 DEF NewFiles, Files
    <3> QED BY <3>2, <3>3, <3>4 DEF MovedFiles
  <2>4. prior # NoFile => prior \in File
    BY <1>2
  <2> HIDE DEF moved
  <2>5. /\ new \subseteq moved /\ (prior # NoFile => prior \in moved)
        /\ \A f \in new : Members[f] \subseteq moved
    BY <1>3, <2>1, <2>2, <2>3, <2>4
  <2>6. Steps(attached, Link(attached, new, prior), selected, selected, moved)
    BY <1>1, <2>1, <2>5, LinkSteps
  <2> QED BY <2>1, <2>6
<1>5. ASSUME Expand(attached', {}) = Expand(attached, {}),
             \A f \in File : f \notin NewFiles => (f \in selected <=> f \in selected')
      PROVE  Steps(attached, attached', selected, selected', moved)
  <2>1. selected' \subseteq File
    BY <1>2 DEF Inv, TypeOK
  <2>2. \A f : f \notin moved => (f \in selected <=> f \in selected')
    BY <1>1, <1>2, <1>3, <1>5, <2>1 DEF MovedFiles
  <2> HIDE DEF moved
  <2> QED BY <1>1, <1>5, <2>2 DEF Steps
<1>6. ASSUME NEW run \in Unreading, Run(run)
      PROVE  Steps(attached, attached', selected, selected', moved)
  <2>1. selected' = selected
    BY <1>6 DEF Run
  <2>2. attached' = attached \/ attached' = Expand(attached, run.lost)
    BY <1>6 DEF Run, RunEnds, Outcome
  <2>3. Expand(attached', {}) = Expand(attached, {})
    BY <1>1, <2>2, ExpandAgain
  <2> QED BY <1>5, <2>1, <2>3
<1>7. ASSUME NEW f \in Files, NEW run \in Unreading, Select(f, run)
      PROVE  Steps(attached, attached', selected, selected', moved)
  <2>1. attached' = attached /\ selected' = selected \cup {f} /\ f \notin selected
    BY <1>7 DEF Select
  <2>2. f \in NewFiles
    BY <2>1 DEF NewFiles
  <2> QED BY <1>5, <2>1, <2>2
<1> QED BY <1>4, <1>6, <1>7 DEF Next

\* Whatever is uploaded, unpacked or chosen, only chains that the moved files
\* belong to, or are linked with, change: every other chain has the same files, the
\* same status and the same etalon as before (resolve_heads_by_identity).
THEOREM OtherChainsStay == Spec => OthersUnmoved
<1>1. Inv /\ Inv' /\ [Next]_vars =>
        [LET new == (Files' \ Files) \cup (selected' \ selected)
             moved == new \cup ({a.pred : a \in {b \in attached' : b.file \in new}} \ {NoFile}) IN
         new # {} => ChainsApart(Chains(attached, selected), moved) \subseteq
                     ChainsApart(Chains(attached', selected'), {})]_vars
  <2>1. SUFFICES ASSUME Inv, Inv', Next
                 PROVE  ChainsApart(Chains(attached, selected), MovedFiles) \subseteq
                        ChainsApart(Chains(attached', selected'), {})
    BY DEF MovedFiles, NewFiles
  <2>2. Steps(attached, attached', selected, selected', WithMembers(MovedFiles))
    BY <2>1, StepSteps
  <2> QED BY <2>2, ChainsStay
<1> QED BY <1>1, InitInv, NextKeeps, PTL DEF Spec, OthersUnmoved

-----------------------------------------------------------------------------
(* Rows of tokens.                                                         *)

\* A set of numbers has an n-th.
LEMMA NthIn ==
  ASSUME NEW I, I \subseteq Nat, IsFiniteSet(I), NEW n \in 1..Cardinality(I)
  PROVE  Nth(I, n) \in I
<1> DEFINE below(k) == {i \in I : i < k}
           before == [k \in I |-> Cardinality(below(k))]
           c == Cardinality(I)
<1>1. c \in Nat
  BY FS_CardinalityType
<1>2. ASSUME NEW k \in I
      PROVE  IsFiniteSet(below(k)) /\ Cardinality(below(k)) \in 0..(c - 1)
  <2>1. below(k) \subseteq I /\ k \notin below(k)
    OBVIOUS
  <2> HIDE DEF below
  <2>2. /\ IsFiniteSet(below(k)) /\ Cardinality(below(k)) <= c
        /\ Cardinality(below(k)) # c
    BY <2>1, FS_Subset
  <2>3. Cardinality(below(k)) \in Nat
    BY <2>2, FS_CardinalityType
  <2> QED BY <1>1, <2>2, <2>3
<1>3. ASSUME NEW j \in I, NEW k \in I, j < k
      PROVE  Cardinality(below(j)) # Cardinality(below(k))
  <2>1. j \in below(k) /\ j \notin below(j)
    BY <1>3
  <2>2. below(j) \subseteq below(k)
    <3> SUFFICES ASSUME NEW i \in below(j) PROVE i \in below(k)
      OBVIOUS
    <3>1. i \in I /\ i < j
      OBVIOUS
    <3> HIDE DEF below
    <3>2. i < k
      BY <1>3, <3>1
    <3> USE DEF below
    <3> QED BY <3>1, <3>2
  <2> HIDE DEF below
  <2> QED BY <1>2, <2>1, <2>2, FS_Subset
<1> HIDE DEF below
<1>4. before \in Injection(I, 0..(c - 1))
  <2>1. \A j, k \in I : before[j] = before[k] => j = k
    <3> SUFFICES ASSUME NEW j \in I, NEW k \in I, before[j] = before[k], j # k PROVE FALSE
      OBVIOUS
    <3>1. j < k \/ k < j
      OBVIOUS
    <3> QED BY <1>3, <3>1
  <2>2. before \in [I -> 0..(c - 1)]
    BY <1>2
  <2> HIDE DEF before
  <2> QED BY <2>1, <2>2 DEF Injection, IsInjective
<1>5. IsFiniteSet(0..(c - 1)) /\ Cardinality(0..(c - 1)) = c
  <2>1. 0 \in Int /\ c - 1 \in Int /\ (0 > c - 1 => c = 0) /\ (c - 1) - 0 + 1 = c
    BY <1>1
  <2> HIDE DEF c
  <2> QED BY <2>1, FS_Interval
<1>6. before \in Surjection(I, 0..(c - 1))
  BY <1>4, <1>5, FS_Injection
<1>7. n - 1 \in 0..(c - 1)
  BY <1>1
<1>8. \E k \in I : before[k] = n - 1
  BY <1>6, <1>7 DEF Surjection
<1>9. \E k \in I : Cardinality({i \in I : i < k}) = n - 1
  BY <1>8 DEF below
<1> QED BY <1>9 DEF Nth

\* The tokens at some places of a page are a row of it.
LEMMA PickedRow ==
  ASSUME NEW ts, TypedRow(ts), NEW I, I \subseteq DOMAIN ts
  PROVE  /\ TypedRow(Picked(ts, I))
         /\ \A n \in DOMAIN Picked(ts, I) : \E k \in I : Picked(ts, I)[n] = ts[k]
<1>1. IsFiniteSet(I) /\ I \subseteq Nat
  <2>1. IsFiniteSet(1..Len(ts))
    BY FS_Interval DEF TypedRow
  <2> QED BY <2>1, FS_Subset DEF TypedRow
<1>2. Cardinality(I) \in Nat
  BY <1>1, FS_CardinalityType
<1> DEFINE row == Picked(ts, I)
<1>3. DOMAIN row = 1..Cardinality(I) /\ \A n \in DOMAIN row : row[n] = ts[Nth(I, n)]
  BY DEF Picked
<1>4. \A n \in DOMAIN row : Nth(I, n) \in I
  BY <1>1, <1>3, NthIn
<1>5. Len(row) = Cardinality(I)
  BY <1>2 DEF Picked
<1> HIDE DEF row
<1>6. \A n \in DOMAIN row : TypedToken(row[n])
  BY <1>3, <1>4 DEF TypedRow
<1>7. TypedRow(row) /\ \A n \in DOMAIN row : \E k \in I : row[n] = ts[k]
  BY <1>2, <1>3, <1>4, <1>5, <1>6 DEF TypedRow
<1> QED BY <1>7 DEF row

\* A function given by its first value and by what follows from the one before.
LEMMA StepByStep ==
  ASSUME NEW n \in Nat, NEW base \in Int, NEW step \in [(1..n) \X Int -> Int]
  PROVE  \E f \in [0..n -> Int] :
           f = [k \in 0..n |-> IF k = 0 THEN base ELSE step[<<k, f[k - 1]>>]]
<1> DEFINE Has(m) == \E f \in [0..m -> Int] :
                       f = [k \in 0..m |-> IF k = 0 THEN base ELSE step[<<k, f[k - 1]>>]]
           lacking == {m \in 0..n : ~Has(m)}
<1>0. SUFFICES ASSUME lacking # {} PROVE FALSE
  <2>1. n \in 0..n
    OBVIOUS
  <2> QED BY <1>0, <2>1
<1>1. PICK m \in lacking : \A k \in lacking : m <= k
  <2>1. lacking \subseteq Nat
    OBVIOUS
  <2> HIDE DEF lacking
  <2> QED BY <1>0, <2>1, LeastNumber
<1>2. Has(0)
  <2> DEFINE f == [k \in 0..0 |-> base]
  <2>1. f \in [0..0 -> Int]
    OBVIOUS
  <2>2. f = [k \in 0..0 |-> IF k = 0 THEN base ELSE step[<<k, f[k - 1]>>]]
    OBVIOUS
  <2> QED BY <2>1, <2>2
<1> HIDE DEF Has
<1>3. m # 0
  BY <1>1, <1>2
<1>4. m - 1 \in 0..n /\ m \in 1..n
  BY <1>1, <1>3
<1>5. Has(m - 1)
  <2>1. m - 1 \notin lacking
    BY <1>1, <1>4
  <2> QED BY <1>4, <2>1
<1>6. PICK f \in [0..(m - 1) -> Int] :
        f = [k \in 0..(m - 1) |-> IF k = 0 THEN base ELSE step[<<k, f[k - 1]>>]]
  BY <1>5 DEF Has
<1> DEFINE g == [k \in 0..m |-> IF k = m THEN step[<<m, f[m - 1]>>] ELSE f[k]]
<1>7. f[m - 1] \in Int /\ step[<<m, f[m - 1]>>] \in Int
  BY <1>4
<1>8. g \in [0..m -> Int]
  BY <1>4, <1>7
<1>9. \A k \in 0..m : g[k] = IF k = 0 THEN base ELSE step[<<k, g[k - 1]>>]
  <2> SUFFICES ASSUME NEW k \in 0..m PROVE g[k] = IF k = 0 THEN base ELSE step[<<k, g[k - 1]>>]
    OBVIOUS
  <2>1. CASE k = m
    <3>1. g[k - 1] = f[m - 1] /\ k # 0
      BY <1>4, <2>1
    <3> QED BY <2>1, <3>1
  <2>2. CASE k # m
    <3>1. k \in 0..(m - 1) /\ g[k] = f[k]
      BY <1>4, <2>2
    <3>2. k # 0 => k - 1 \in 0..(m - 1) /\ g[k - 1] = f[k - 1]
      BY <1>4, <3>1
    <3>3. f[k] = IF k = 0 THEN base ELSE step[<<k, f[k - 1]>>]
      BY <1>6, <3>1
    <3> HIDE DEF g
    <3> QED BY <3>1, <3>2, <3>3
  <2> QED BY <2>1, <2>2
<1>10. Has(m)
  <2>1. g = [k \in 0..m |-> g[k]]
    OBVIOUS
  <2> HIDE DEF g
  <2>2. [k \in 0..m |-> g[k]] = [k \in 0..m |-> IF k = 0 THEN base ELSE step[<<k, g[k - 1]>>]]
    BY <1>9
  <2>3. g = [k \in 0..m |-> IF k = 0 THEN base ELSE step[<<k, g[k - 1]>>]]
    BY <2>1, <2>2
  <2> QED BY <1>8, <2>3 DEF Has
<1> QED BY <1>1, <1>10

LEMMA Climbs ==
  ASSUME NEW n \in Nat, NEW d, d[0] \in Int, \A k \in 1..n : d[k - 1] \in Int => d[k] \in Int
  PROVE  \A k \in 0..n : d[k] \in Int
<1> DEFINE lacking == {k \in 0..n : d[k] \notin Int}
<1> SUFFICES ASSUME lacking # {} PROVE FALSE
  OBVIOUS
<1>1. PICK m \in lacking : \A k \in lacking : m <= k
  <2>1. lacking \subseteq Nat
    OBVIOUS
  <2> HIDE DEF lacking
  <2> QED BY <2>1, LeastNumber
<1>2. m # 0 /\ m \in 0..n /\ d[m] \notin Int
  OBVIOUS
<1>3. m \in 1..n /\ m - 1 \in 0..n
  BY <1>2
<1>4. d[m - 1] \in Int
  <2>1. m - 1 \notin lacking
    BY <1>1, <1>3
  <2> QED BY <1>3, <2>1
<1> QED BY <1>2, <1>3, <1>4

\* How deep in brackets the tokens of a row are, and how many are open.
LEMMA DepthsStep ==
  ASSUME NEW ts, TypedRow(ts)
  PROVE  /\ Depths(ts)[0] = 0
         /\ \A k \in 1..Len(ts) :
              /\ Depths(ts)[k - 1] \in Int
              /\ Depths(ts)[k] = Larger(0, Depths(ts)[k - 1] + ts[k].opens - ts[k].closes)
<1> DEFINE n == Len(ts)
           step == [p \in (1..n) \X Int |-> Larger(0, p[2] + ts[p[1]].opens - ts[p[1]].closes)]
           Is(f) == f = [k \in 0..n |-> IF k = 0 THEN 0
                                       ELSE Larger(0, f[k - 1] + ts[k].opens - ts[k].closes)]
<1>0. n \in Nat /\ DOMAIN ts = 1..n /\ \A k \in 1..n : ts[k].opens \in Nat /\ ts[k].closes \in Nat
  BY DEF TypedRow, TypedToken
<1> HIDE DEF n
<1>1. step \in [(1..n) \X Int -> Int]
  <2>1. \A p \in (1..n) \X Int : Larger(0, p[2] + ts[p[1]].opens - ts[p[1]].closes) \in Int
    BY <1>0 DEF Larger
  <2> QED BY <2>1
<1>2. \E f \in [0..n -> Int] :
        f = [k \in 0..n |-> IF k = 0 THEN 0 ELSE step[<<k, f[k - 1]>>]]
  <2>1. 0 \in Int
    OBVIOUS
  <2> HIDE DEF step
  <2> QED BY <1>0, <1>1, <2>1, StepByStep
<1>3. PICK f \in [0..n -> Int] :
        f = [k \in 0..n |-> IF k = 0 THEN 0 ELSE step[<<k, f[k - 1]>>]]
  BY <1>2
<1>4. ASSUME NEW k \in 0..n
      PROVE  f[k] = IF k = 0 THEN 0 ELSE Larger(0, f[k - 1] + ts[k].opens - ts[k].closes)
  <2>1. f[k] = IF k = 0 THEN 0 ELSE step[<<k, f[k - 1]>>]
    BY <1>3
  <2>2. k # 0 => k \in 1..n /\ f[k - 1] \in Int
    BY <1>0
  <2>3. k # 0 => step[<<k, f[k - 1]>>] = Larger(0, f[k - 1] + ts[k].opens - ts[k].closes)
    BY <2>2
  <2> QED BY <2>1, <2>3
<1>5. Is(f)
  <2>1. f = [k \in 0..n |-> f[k]]
    OBVIOUS
  <2>2. [k \in 0..n |-> f[k]] = [k \in 0..n |-> IF k = 0 THEN 0
                                   ELSE Larger(0, f[k - 1] + ts[k].opens - ts[k].closes)]
    BY <1>4
  <2> QED BY <2>1, <2>2
<1>6. Depths(ts) = CHOOSE g : Is(g)
  BY DEF Depths, n
<1> HIDE DEF Is
<1>7. Is(Depths(ts))
  BY <1>5, <1>6
<1> DEFINE d == Depths(ts)
<1> HIDE DEF d
<1>8. /\ d[0] = 0
      /\ \A k \in 1..n : d[k] = Larger(0, d[k - 1] + ts[k].opens - ts[k].closes)
  <2>1. d = [k \in 0..n |-> IF k = 0 THEN 0 ELSE Larger(0, d[k - 1] + ts[k].opens - ts[k].closes)]
    BY <1>7 DEF Is, d
  <2>2. \A k \in 0..n :
          d[k] = IF k = 0 THEN 0 ELSE Larger(0, d[k - 1] + ts[k].opens - ts[k].closes)
    BY <2>1
  <2> QED BY <1>0, <2>2
<1>9. \A k \in 0..n : d[k] \in Int
  <2>1. ASSUME NEW k \in 1..n, d[k - 1] \in Int PROVE d[k] \in Int
    <3>1. d[k - 1] + ts[k].opens - ts[k].closes \in Int
      BY <1>0, <2>1
    <3>2. d[k] = Larger(0, d[k - 1] + ts[k].opens - ts[k].closes)
      BY <1>8
    <3> QED BY <3>1, <3>2 DEF Larger
  <2>2. d[0] \in Int
    BY <1>8
  <2> QED BY <1>0, <2>1, <2>2, Climbs
<1>10. \A k \in 1..n : d[k - 1] \in Int
  BY <1>0, <1>9
<1> QED BY <1>8, <1>10 DEF d, n

LEMMA BalanceStep ==
  ASSUME NEW ts, TypedRow(ts)
  PROVE  /\ Balance(ts)[0] = 0
         /\ \A k \in 1..Len(ts) :
              /\ Balance(ts)[k - 1] \in Int
              /\ Balance(ts)[k] = Balance(ts)[k - 1] + ts[k].opens - ts[k].closes
<1> DEFINE n == Len(ts)
           step == [p \in (1..n) \X Int |-> p[2] + ts[p[1]].opens - ts[p[1]].closes]
           Is(f) == f = [k \in 0..n |-> IF k = 0 THEN 0
                                       ELSE f[k - 1] + ts[k].opens - ts[k].closes]
<1>0. n \in Nat /\ DOMAIN ts = 1..n /\ \A k \in 1..n : ts[k].opens \in Nat /\ ts[k].closes \in Nat
  BY DEF TypedRow, TypedToken
<1> HIDE DEF n
<1>1. step \in [(1..n) \X Int -> Int]
  <2>1. \A p \in (1..n) \X Int : p[2] + ts[p[1]].opens - ts[p[1]].closes \in Int
    BY <1>0
  <2> QED BY <2>1
<1>2. \E f \in [0..n -> Int] :
        f = [k \in 0..n |-> IF k = 0 THEN 0 ELSE step[<<k, f[k - 1]>>]]
  <2>1. 0 \in Int
    OBVIOUS
  <2> HIDE DEF step
  <2> QED BY <1>0, <1>1, <2>1, StepByStep
<1>3. PICK f \in [0..n -> Int] :
        f = [k \in 0..n |-> IF k = 0 THEN 0 ELSE step[<<k, f[k - 1]>>]]
  BY <1>2
<1>4. ASSUME NEW k \in 0..n
      PROVE  f[k] = IF k = 0 THEN 0 ELSE f[k - 1] + ts[k].opens - ts[k].closes
  <2>1. f[k] = IF k = 0 THEN 0 ELSE step[<<k, f[k - 1]>>]
    BY <1>3
  <2>2. k # 0 => k \in 1..n /\ f[k - 1] \in Int
    BY <1>0
  <2>3. k # 0 => step[<<k, f[k - 1]>>] = f[k - 1] + ts[k].opens - ts[k].closes
    BY <2>2
  <2> QED BY <2>1, <2>3
<1>5. Is(f)
  <2>1. f = [k \in 0..n |-> f[k]]
    OBVIOUS
  <2>2. [k \in 0..n |-> f[k]] = [k \in 0..n |-> IF k = 0 THEN 0
                                   ELSE f[k - 1] + ts[k].opens - ts[k].closes]
    BY <1>4
  <2> QED BY <2>1, <2>2
<1>6. Balance(ts) = CHOOSE g : Is(g)
  BY DEF Balance, n
<1> HIDE DEF Is
<1>7. Is(Balance(ts))
  BY <1>5, <1>6
<1> DEFINE d == Balance(ts)
<1> HIDE DEF d
<1>8. /\ d[0] = 0
      /\ \A k \in 1..n : d[k] = d[k - 1] + ts[k].opens - ts[k].closes
  <2>1. d = [k \in 0..n |-> IF k = 0 THEN 0 ELSE d[k - 1] + ts[k].opens - ts[k].closes]
    BY <1>7 DEF Is, d
  <2>2. \A k \in 0..n : d[k] = IF k = 0 THEN 0 ELSE d[k - 1] + ts[k].opens - ts[k].closes
    BY <2>1
  <2> QED BY <1>0, <2>2
<1>9. \A k \in 0..n : d[k] \in Int
  <2>1. ASSUME NEW k \in 1..n, d[k - 1] \in Int PROVE d[k] \in Int
    <3>1. d[k - 1] + ts[k].opens - ts[k].closes \in Int
      BY <1>0, <2>1
    <3>2. d[k] = d[k - 1] + ts[k].opens - ts[k].closes
      BY <1>8
    <3> QED BY <3>1, <3>2
  <2>2. d[0] \in Int
    BY <1>8
  <2> QED BY <1>0, <2>1, <2>2, Climbs
<1>10. \A k \in 1..n : d[k - 1] \in Int
  BY <1>0, <1>9
<1> QED BY <1>8, <1>10 DEF d, n

\* The depth is the most that was opened since any token before.
LEMMA DepthIsMost ==
  ASSUME NEW ts, TypedRow(ts)
  PROVE  \A k \in 0..Len(ts) :
           /\ Balance(ts)[k] \in Int /\ Depths(ts)[k] \in Int
           /\ \A j \in 0..k : Depths(ts)[k] >= Balance(ts)[k] - Balance(ts)[j]
           /\ \E j \in 0..k : Depths(ts)[k] = Balance(ts)[k] - Balance(ts)[j]
<1> DEFINE n == Len(ts)
           d == Depths(ts)
           b == Balance(ts)
           Most(k) == /\ b[k] \in Int /\ d[k] \in Int
                      /\ \A j \in 0..k : d[k] >= b[k] - b[j]
                      /\ \E j \in 0..k : d[k] = b[k] - b[j]
           lacking == {k \in 0..n : ~Most(k)}
<1>1. n \in Nat /\ DOMAIN ts = 1..n /\ \A k \in 1..n : ts[k].opens \in Nat /\ ts[k].closes \in Nat
  BY DEF TypedRow, TypedToken
<1>2. /\ d[0] = 0 /\ b[0] = 0
      /\ \A k \in 1..n : /\ d[k - 1] \in Int /\ b[k - 1] \in Int
                         /\ d[k] = Larger(0, d[k - 1] + ts[k].opens - ts[k].closes)
                         /\ b[k] = b[k - 1] + ts[k].opens - ts[k].closes
  BY DepthsStep, BalanceStep
<1> HIDE DEF n, d, b
<1>3. SUFFICES ASSUME lacking # {} PROVE FALSE
  BY <1>3 DEF n, d, b
<1>4. PICK m \in lacking : \A k \in lacking : m <= k
  <2>1. lacking \subseteq Nat
    BY <1>1
  <2> HIDE DEF lacking
  <2> QED BY <1>3, <2>1, LeastNumber
<1>5. Most(0)
  BY <1>2
<1>6. m \in 1..n /\ m - 1 \in 0..n /\ ~Most(m)
  BY <1>1, <1>5
<1> HIDE DEF Most
<1>7. Most(m - 1)
  <2>1. m - 1 \notin lacking
    BY <1>4, <1>6
  <2> QED BY <1>6, <2>1
<1> DEFINE gain == ts[m].opens - ts[m].closes
<1>8. gain \in Int
  BY <1>1, <1>6
<1>9. d[m] = Larger(0, d[m - 1] + gain) /\ b[m] = b[m - 1] + gain
  <2>1. /\ d[m - 1] \in Int /\ b[m - 1] \in Int
        /\ d[m] = Larger(0, d[m - 1] + ts[m].opens - ts[m].closes)
        /\ b[m] = b[m - 1] + ts[m].opens - ts[m].closes
    BY <1>2, <1>6
  <2>2. /\ d[m - 1] + ts[m].opens - ts[m].closes = d[m - 1] + gain
        /\ b[m - 1] + ts[m].opens - ts[m].closes = b[m - 1] + gain
    BY <1>1, <1>6, <2>1
  <2> QED BY <2>1, <2>2
<1> HIDE DEF gain
<1>10. b[m] \in Int /\ d[m] \in Int
  BY <1>7, <1>8, <1>9 DEF Most, Larger
<1>11. ASSUME NEW j \in 0..m PROVE d[m] >= b[m] - b[j] /\ b[j] \in Int
  <2>1. CASE j = m
    BY <1>7, <1>8, <1>9, <1>10, <2>1 DEF Most, Larger
  <2>2. CASE j # m
    <3>1. j \in 0..(m - 1) /\ j \in 0..n /\ m > j
      BY <1>1, <1>6, <2>2
    <3>2. j \notin lacking
      BY <1>4, <1>6, <3>1
    <3>3. b[j] \in Int
      BY <3>1, <3>2 DEF Most
    <3>4. d[m - 1] >= b[m - 1] - b[j] /\ d[m - 1] \in Int /\ b[m - 1] \in Int
      BY <1>7, <3>1 DEF Most
    <3> QED BY <1>8, <1>9, <3>3, <3>4 DEF Larger
  <2> QED BY <2>1, <2>2
<1>12. \E j \in 0..m : d[m] = b[m] - b[j]
  <2>1. PICK j \in 0..(m - 1) : d[m - 1] = b[m - 1] - b[j]
    BY <1>7 DEF Most
  <2>2. j \in 0..m /\ m \in 0..m /\ b[j] \in Int
    BY <1>6, <1>11, <2>1
  <2>3. CASE d[m - 1] + gain > 0
    <3>1. d[m] = d[m - 1] + gain
      BY <1>7, <1>8, <1>9, <2>3 DEF Most, Larger
    <3>2. d[m] = b[m] - b[j]
      BY <1>7, <1>8, <1>9, <2>1, <2>2, <3>1 DEF Most
    <3> QED BY <2>2, <3>2
  <2>4. CASE ~(d[m - 1] + gain > 0)
    <3>1. d[m] = 0
      BY <1>7, <1>8, <1>9, <2>4 DEF Most, Larger
    <3>2. d[m] = b[m] - b[m]
      BY <1>10, <3>1
    <3> QED BY <2>2, <3>2
  <2> QED BY <2>3, <2>4
<1> QED BY <1>6, <1>10, <1>11, <1>12 DEF Most

\* What _note_flags calls a note stands in brackets.
LEMMA NotesInBrackets ==
  ASSUME NEW ts, TypedRow(ts), NEW k \in DOMAIN ts
  PROVE  NoteFlags(ts)[k] <=> InBrackets(ts, k)
<1> DEFINE d == Depths(ts)
           b == Balance(ts)
<1>1. k \in 1..Len(ts) /\ Len(ts) \in Nat
  BY DEF TypedRow
<1>2. k - 1 \in 0..Len(ts) /\ \A j \in 0..(k - 1) : j \in 0..Len(ts)
  BY <1>1
<1>3. /\ d[k - 1] \in Int /\ \A j \in 0..(k - 1) : b[j] \in Int
      /\ \A j \in 0..(k - 1) : d[k - 1] >= b[k - 1] - b[j]
      /\ \E j \in 0..(k - 1) : d[k - 1] = b[k - 1] - b[j]
  BY <1>2, DepthIsMost
<1>4. NoteFlags(ts)[k] = (d[k - 1] > 0 \/ ts[k].opens > 0)
  BY DEF NoteFlags
<1>5. InBrackets(ts, k) = (ts[k].opens > 0 \/ \E j \in 0..(k - 1) : b[k - 1] > b[j])
  BY DEF InBrackets
<1> HIDE DEF d, b
<1>6. k - 1 \in 0..(k - 1)
  BY <1>1
<1>7. d[k - 1] > 0 <=> \E j \in 0..(k - 1) : b[k - 1] > b[j]
  <2>1. ASSUME d[k - 1] > 0 PROVE \E j \in 0..(k - 1) : b[k - 1] > b[j]
    BY <1>3, <1>6, <2>1
  <2>2. ASSUME NEW j \in 0..(k - 1), b[k - 1] > b[j] PROVE d[k - 1] > 0
    <3>1. b[j] \in Int /\ b[k - 1] \in Int /\ d[k - 1] >= b[k - 1] - b[j]
      BY <1>3, <1>6
    <3> QED BY <1>3, <2>2, <3>1
  <2> QED BY <2>1, <2>2
<1> QED BY <1>4, <1>5, <1>7

-----------------------------------------------------------------------------
(* What the tokens of a row say.                                           *)

\* Units: a number stays one in another unit of its dimension.
LEMMA UnitsTyped ==
  ASSUME NEW u \in Unit
  PROVE  /\ MeasureToSI[u].num \in Nat \ {0}
         /\ IF MeasureToSI[u].dimension \in {"power", "pressure"}
            THEN MeasureToSI[u].ten \in 0..6 ELSE MeasureToSI[u].ten \in (-9)..0
  BY DEF Unit, MeasureToSI, Measure

LEMMA ShiftedTyped ==
  ASSUME NEW v \in Int, NEW ten \in (-9)..9
  PROVE  Shifted(v, ten) \in Int
<1>1. \A n \in 0..9 : 10 ^ n \in Nat /\ 10 ^ n > 0
  <2>1. /\ 10 ^ 0 > 0 /\ 10 ^ 1 > 0 /\ 10 ^ 2 > 0 /\ 10 ^ 3 > 0 /\ 10 ^ 4 > 0
        /\ 10 ^ 5 > 0 /\ 10 ^ 6 > 0 /\ 10 ^ 7 > 0 /\ 10 ^ 8 > 0 /\ 10 ^ 9 > 0
    BY SMT
  <2>2. \A n \in 0..9 : n \in {0, 1, 2, 3, 4, 5, 6, 7, 8, 9} /\ 10 ^ n \in Int
    BY SMT
  <2> SUFFICES ASSUME NEW n \in 0..9 PROVE 10 ^ n \in Nat /\ 10 ^ n > 0
    OBVIOUS
  <2> DEFINE p == 10 ^ n
  <2>3. p > 0 /\ p \in Int
    BY <2>1, <2>2
  <2> HIDE DEF p
  <2>4. p \in Nat
    BY <2>3
  <2> QED BY <2>3, <2>4 DEF p
<1>2. CASE ten >= 0
  <2>1. ten \in 0..9
    BY <1>2
  <2>2. 10 ^ ten \in Nat
    BY <1>1, <2>1
  <2>3. v * 10 ^ ten \in Int
    BY <2>2
  <2> QED BY <1>2, <2>3 DEF Shifted
<1>3. CASE ~(ten >= 0)
  <2>1. -ten \in 0..9
    BY <1>3
  <2>2. 10 ^ (-ten) \in Nat /\ 10 ^ (-ten) > 0
    BY <1>1, <2>1
  <2>3. v \div 10 ^ (-ten) \in Int
    BY <2>2
  <2> QED BY <1>3, <2>3 DEF Shifted
<1> QED BY <1>2, <1>3

LEMMA ScaledTyped ==
  ASSUME NEW v \in Int, NEW source, NEW target
  PROVE  ScaleMeasureToTarget(v, source, target) \in Int
<1> DEFINE s == MeasureToSI[source]
           t == MeasureToSI[target]
           w == Shifted(v * s.num, s.ten - t.ten)
<1>1. CASE {source, target} \subseteq Unit /\ s.dimension = t.dimension
  <2>1. /\ s.num \in Nat /\ t.num \in Nat /\ t.num > 0
        /\ s.ten - t.ten \in (-9)..9
    <3>1. source \in Unit /\ target \in Unit
      BY <1>1
    <3>2. /\ s.num \in Nat /\ t.num \in Nat \ {0}
          /\ IF s.dimension \in {"power", "pressure"} THEN s.ten \in 0..6 ELSE s.ten \in (-9)..0
          /\ IF t.dimension \in {"power", "pressure"} THEN t.ten \in 0..6 ELSE t.ten \in (-9)..0
      BY <3>1, UnitsTyped
    <3> HIDE DEF s, t
    <3> QED BY <1>1, <3>2
  <2> HIDE DEF s, t
  <2>2. v * s.num \in Int
    BY <2>1
  <2>3. w \in Int
    BY <2>1, <2>2, ShiftedTyped
  <2> HIDE DEF w
  <2>4. w \div t.num \in Int
    BY <2>1, <2>3
  <2>5. ScaleMeasureToTarget(v, source, target) = w \div t.num
    BY <1>1 DEF ScaleMeasureToTarget, w, s, t
  <2> QED BY <2>4, <2>5
<1>2. CASE ~({source, target} \subseteq Unit /\ s.dimension = t.dimension)
  BY <1>2 DEF ScaleMeasureToTarget
<1> QED BY <1>1, <1>2

\* The number at a place is one, with the thousands that continue it.
LEMMA EndAfter ==
  ASSUME NEW ts, TypedRow(ts), NEW k \in DOMAIN ts
  PROVE  /\ EndOf(ts, k) \in k..Len(ts)
         /\ \A i \in (k + 1)..EndOf(ts, k) : Continues(ts, i)
<1> DEFINE ends == {j \in k..Len(ts) : j < Len(ts) => ~Continues(ts, j + 1)}
<1>1. k \in Nat /\ Len(ts) \in Nat /\ k <= Len(ts)
  BY DEF TypedRow
<1>2. ends \subseteq Nat /\ Len(ts) \in ends
  BY <1>1
<1>3. PICK j \in ends : \A i \in ends : j <= i
  <2> HIDE DEF ends
  <2> QED BY <1>2, LeastNumber
<1>4. ASSUME NEW i \in (k + 1)..j PROVE Continues(ts, i)
  <2>1. i - 1 \in k..Len(ts) /\ i - 1 < j /\ i - 1 < Len(ts) /\ (i - 1) + 1 = i
    BY <1>1, <1>3
  <2>2. i - 1 \notin ends
    BY <1>1, <1>3, <2>1
  <2> QED BY <2>1, <2>2
<1> DEFINE Is(e) == /\ \A i \in (k + 1)..e : Continues(ts, i)
                    /\ e < Len(ts) => ~Continues(ts, e + 1)
<1>5. EndOf(ts, k) = CHOOSE e \in k..Len(ts) : Is(e)
  BY DEF EndOf
<1>6. j \in k..Len(ts) /\ Is(j)
  BY <1>3, <1>4
<1> HIDE DEF Is
<1>7. EndOf(ts, k) \in k..Len(ts) /\ Is(EndOf(ts, k))
  BY <1>5, <1>6
<1> QED BY <1>7 DEF Is

LEMMA WholesTyped ==
  ASSUME NEW ts, NEW first \in Nat, NEW end \in Nat, first <= end,
         \A i \in first..end : ts[i].numeral.whole \in Int
  PROVE  Wholes(ts, first, end)[end - first] \in Int
<1> DEFINE n == end - first
           digits(k) == ts[first + k].numeral.whole
           step == [p \in (1..n) \X Int |-> 1000 * p[2] + digits(p[1])]
           Is(f) == f = [k \in 0..n |-> IF k = 0 THEN ts[first].numeral.whole
                                       ELSE 1000 * f[k - 1] + digits(k)]
           base == ts[first].numeral.whole
<1>1. n \in Nat /\ base \in Int /\ \A k \in 1..n : digits(k) \in Int
  <2>1. \A k \in 0..n : first + k \in first..end
    OBVIOUS
  <2> QED BY <2>1
<1>2. Wholes(ts, first, end) = CHOOSE f : Is(f)
  BY DEF Wholes
<1> HIDE DEF n, digits, base
<1>3. step \in [(1..n) \X Int -> Int]
  <2>1. ASSUME NEW p \in (1..n) \X Int PROVE 1000 * p[2] + digits(p[1]) \in Int
    <3>1. p[1] \in 1..n /\ p[2] \in Int
      OBVIOUS
    <3>2. digits(p[1]) \in Int
      BY <1>1, <3>1
    <3> QED BY <3>1, <3>2
  <2> QED BY <2>1
<1>4. \E f \in [0..n -> Int] :
        f = [k \in 0..n |-> IF k = 0 THEN base ELSE step[<<k, f[k - 1]>>]]
  <2>1. n \in Nat
    BY <1>1
  <2>2. base \in Int
    BY <1>1
  <2> HIDE DEF step
  <2> QED BY <1>3, <2>1, <2>2, StepByStep
<1>5. PICK f \in [0..n -> Int] :
        f = [k \in 0..n |-> IF k = 0 THEN base ELSE step[<<k, f[k - 1]>>]]
  BY <1>4
<1>6. Is(f)
  <2>1. ASSUME NEW k \in 0..n
        PROVE  f[k] = IF k = 0 THEN ts[first].numeral.whole ELSE 1000 * f[k - 1] + digits(k)
    <3>1. f[k] = IF k = 0 THEN base ELSE step[<<k, f[k - 1]>>]
      <4> HIDE DEF step
      <4> QED BY <1>5
    <3>2. k # 0 => <<k, f[k - 1]>> \in (1..n) \X Int
      BY <1>1
    <3>3. k # 0 => step[<<k, f[k - 1]>>] = 1000 * f[k - 1] + digits(k)
      BY <3>2
    <3> QED BY <3>1, <3>3 DEF base
  <2>2. f = [k \in 0..n |-> f[k]]
    OBVIOUS
  <2>3. [k \in 0..n |-> f[k]] = [k \in 0..n |-> IF k = 0 THEN ts[first].numeral.whole
                                                ELSE 1000 * f[k - 1] + digits(k)]
    BY <2>1
  <2> QED BY <2>2, <2>3
<1> DEFINE g == CHOOSE h : Is(h)
           next == [k \in 0..n |-> IF k = 0 THEN ts[first].numeral.whole
                                   ELSE 1000 * g[k - 1] + digits(k)]
<1>7. g = next
  <2>1. Is(g)
    <3> HIDE DEF Is
    <3> QED BY <1>6
  <2> QED BY <2>1
<1> HIDE DEF g
<1>8. g[0] \in Int
  <2>1. next[0] = base
    BY <1>1 DEF base
  <2> HIDE DEF next
  <2> QED BY <1>1, <1>7, <2>1
<1>9. ASSUME NEW k \in 1..n, g[k - 1] \in Int PROVE g[k] \in Int
  <2>1. k \in 0..n /\ k # 0 /\ digits(k) \in Int
    BY <1>1
  <2>2. next[k] = 1000 * g[k - 1] + digits(k)
    BY <2>1
  <2> HIDE DEF next
  <2>3. g[k] = 1000 * g[k - 1] + digits(k)
    BY <1>7, <2>2
  <2> QED BY <1>9, <2>1, <2>3
<1>10. \A k \in 0..n : g[k] \in Int
  BY <1>1, <1>8, <1>9, Climbs
<1>11. g[n] \in Int
  BY <1>1, <1>10
<1> QED BY <1>2, <1>11 DEF g, n

LEMMA ValueTyped ==
  ASSUME NEW ts, TypedRow(ts), NEW rule, NEW k \in DOMAIN ts, Matches(ts, k)
  PROVE  ValueAt(ts, k, rule) \in Int
<1> DEFINE end == EndOf(ts, k)
           numeral == Joined(ts, k)
           Numeral == [whole : Nat, size : Nat, sep : STRING, frac : Nat, places : Nat]
<1>1. k \in Nat /\ end \in Nat /\ k <= end /\ end \in k..Len(ts) /\ k..end \subseteq DOMAIN ts
  BY EndAfter DEF TypedRow
<1>2. \A i \in k..end : ts[i].numeral \in Numeral
  <2> SUFFICES ASSUME NEW i \in k..end PROVE ts[i].numeral # NoNumber
    BY <1>1 DEF TypedRow, TypedToken
  <2>1. CASE i = k
    BY <2>1 DEF Matches
  <2>2. CASE i # k
    <3>1. i \in (k + 1)..end
      BY <1>1, <2>2
    <3>2. Continues(ts, i)
      BY <3>1, EndAfter
    <3> QED BY <3>2 DEF Continues
  <2> QED BY <2>1, <2>2
<1> HIDE DEF end
<1>3. Wholes(ts, k, end)[end - k] \in Int
  <2>1. \A i \in k..end : ts[i].numeral.whole \in Int
    BY <1>2
  <2> QED BY <1>1, <2>1, WholesTyped
<1>4. numeral.whole = Wholes(ts, k, end)[end - k] /\ numeral.frac \in Nat
  <2>1. ts[end].numeral \in Numeral
    BY <1>1, <1>2
  <2>2. numeral = [ts[end].numeral EXCEPT !.whole = Wholes(ts, k, end)[end - k],
                                          !.size = ts[k].numeral.size + 3 * (end - k)]
    BY DEF Joined, Digits, end
  <2> QED BY <2>1, <2>2
<1> HIDE DEF numeral
<1>5. ParseNumber(numeral) \in Int
  <2>1. One \in Nat
    BY MeasuresAssumption
  <2>2. numeral.whole * One \in Int
    BY <1>3, <1>4, <2>1
  <2> QED BY <1>4, <2>2 DEF ParseNumber
<1> QED BY <1>5, ScaledTyped DEF ValueAt, numeral

-----------------------------------------------------------------------------
(* The number beside a label.                                              *)

\* The reads of a row: each stands at its token, and a note in brackets.
LEMMA ReadsOfRow ==
  ASSUME NEW ts, TypedRow(ts), NEW rule, NEW r \in NumbersIn(ts, rule)
  PROVE  /\ r.at \in 1..Len(ts) /\ r.token = ts[r.at] /\ r.value \in Int /\ r.note \in BOOLEAN
         /\ r.note <=> InBrackets(ts, r.at)
<1>1. PICK k \in NumberPlaces(ts, rule) :
        r = [value |-> ValueAt(ts, k, rule), token |-> ts[k], at |-> k, note |-> NoteFlags(ts)[k]]
  BY DEF NumbersIn
<1>2. k \in DOMAIN ts /\ Matches(ts, k)
  BY DEF NumberPlaces
<1>3. NoteFlags(ts)[k] \in BOOLEAN
  BY <1>2 DEF NoteFlags
<1>4. NoteFlags(ts)[k] <=> InBrackets(ts, k)
  BY <1>2, NotesInBrackets
<1>5. r.at = k /\ r.token = ts[k] /\ r.note = NoteFlags(ts)[k]
  BY <1>1
<1>6. r.value \in Int
  BY <1>1, <1>2, ValueTyped
<1> QED BY <1>2, <1>3, <1>4, <1>5, <1>6 DEF TypedRow

LEMMA CellsOfRow ==
  ASSUME NEW ts, TypedRow(ts), NEW rule
  PROVE  Cells(NumbersIn(ts, rule)) = CellsOf(ts, rule)
<1>1. \A r \in NumbersIn(ts, rule) : r.note <=> InBrackets(ts, r.at)
  BY ReadsOfRow
<1> QED BY <1>1 DEF Cells, CellsOf

\* Reads have a first and a last.
LEMMA EndsOfReads ==
  ASSUME NEW n \in Nat, NEW reads, reads # {}, \A r \in reads : r.at \in 1..n
  PROVE  /\ Leftmost(reads) \in reads /\ \A q \in reads : Leftmost(reads).at <= q.at
         /\ Rightmost(reads) \in reads /\ \A q \in reads : q.at <= Rightmost(reads).at
<1>1. \E r \in reads : \A q \in reads : r.at <= q.at
  <2> DEFINE places == {r.at : r \in reads}
  <2>1. places # {} /\ places \subseteq Nat
    OBVIOUS
  <2>2. PICK m \in places : \A k \in places : m <= k
    <3> HIDE DEF places
    <3> QED BY <2>1, LeastNumber
  <2> QED BY <2>2
<1>2. \E r \in reads : \A q \in reads : q.at <= r.at
  <2> DEFINE places == {n - r.at : r \in reads}
  <2>1. places # {} /\ places \subseteq Nat
    OBVIOUS
  <2>2. PICK m \in places : \A k \in places : m <= k
    <3> HIDE DEF places
    <3> QED BY <2>1, LeastNumber
  <2>3. PICK r \in reads : m = n - r.at
    OBVIOUS
  <2>4. \A q \in reads : n - r.at <= n - q.at
    BY <2>2, <2>3
  <2> QED BY <2>4
<1> QED BY <1>1, <1>2 DEF Leftmost, Rightmost

\* What is chosen for a label, case by case.
LEMMA PreferredIs ==
  ASSUME NEW left, NEW right, NEW below, NEW before, NEW after, NEW rest
  PROVE  LET p == Preferred(left, right, below, before, after, rest) IN
         /\ Cells(right) # {} =>
              p.reads = Cells(right) /\ p.distance = Leftmost(Cells(right)).at - 1
         /\ Cells(right) = {} /\ left # {} =>
              p.reads = {Rightmost(left)} /\ p.distance = Len(before) - Rightmost(left).at
         /\ Cells(right) = {} /\ left = {} /\ right # {} =>
              p.reads = right /\ p.distance = Leftmost(right).at - 1
         /\ left = {} /\ right = {} /\ p.reads # {} =>
              p.reads = below /\ p.distance = Leftmost(below).at - 1
<1> DEFINE p == Preferred(left, right, below, before, after, rest)
           cells == Cells(right)
<1>0. right = {} => cells = {}
  BY DEF Cells
<1> SUFFICES /\ cells # {} => p.reads = cells /\ p.distance = Leftmost(cells).at - 1
             /\ cells = {} /\ left # {} =>
                  p.reads = {Rightmost(left)} /\ p.distance = Len(before) - Rightmost(left).at
             /\ cells = {} /\ left = {} /\ right # {} =>
                  p.reads = right /\ p.distance = Leftmost(right).at - 1
             /\ left = {} /\ right = {} /\ p.reads # {} =>
                  p.reads = below /\ p.distance = Leftmost(below).at - 1
  OBVIOUS
<1>1. CASE cells # {}
  <2>1. p = FromStart(cells, before \o after)
    BY <1>0, <1>1 DEF Preferred
  <2> QED BY <1>0, <1>1, <2>1 DEF FromStart, Choice
<1>2. CASE cells = {} /\ left # {}
  <2>1. p = FromEnd(left, Len(before), before \o after)
    BY <1>2 DEF Preferred
  <2> QED BY <1>2, <2>1 DEF FromEnd, Choice
<1>3. CASE cells = {} /\ left = {} /\ right # {}
  <2>1. p = FromStart(right, before \o after)
    BY <1>3 DEF Preferred
  <2> QED BY <1>3, <2>1 DEF FromStart, Choice
<1>4. CASE left = {} /\ right = {} /\ after = <<>>
  <2>1. p = FromStart(below, rest)
    BY <1>0, <1>4 DEF Preferred
  <2> QED BY <1>0, <1>4, <2>1 DEF FromStart, Choice
<1>5. CASE left = {} /\ right = {} /\ after # <<>>
  <2>1. p = Choice({}, 0, <<>>)
    BY <1>0, <1>5 DEF Preferred
  <2> QED BY <1>0, <1>5, <2>1 DEF Choice
<1> QED BY <1>1, <1>2, <1>3, <1>4, <1>5

\* What a candidate's place among the others is made of.
Counted(c) == /\ c.rank \in [1..7 -> Nat] /\ c.start \in Nat
              /\ c.value \in Int /\ c.second \in Int

\* The candidate of a label: counted; before those of every label without cells
\* where it has one; and from its cells where nothing is held against it.
LEMMA CandidateOfSpan ==
  ASSUME NEW ts, TypedRow(ts), NEW rule, NEW span \in AnchorSpans(ts, rule)
  PROVE  /\ \A c \in Candidate(ts, span, rule) :
              /\ Counted(c)
              /\ c.rank[1] = 0 /\ c.rank[2] = 0 =>
                   LET right == RightOf(ts, span, rule)
                       left == LeftOf(ts, span, rule) IN
                   \/ right # {} /\ c.value = Leftmost(right).value /\ c.second = Rightmost(right).value
                   \/ right = {} /\ left # {} /\ c.value = Rightmost(left).value
         /\ RightOf(ts, span, rule) \cup LeftOf(ts, span, rule) # {} =>
              \E c \in Candidate(ts, span, rule) : c.rank[1] = 0 /\ c.rank[2] = 0
<1> DEFINE origin == ts[span.end]
           before == RowBefore(ts, span)
           after == RowAfter(ts, span)
           rest == ForwardRest(ts, span)
           left == Cells(NumbersIn(before, rule))
           reads == NumbersIn(after, rule)
           right == Cells(reads)
           below == NumbersIn(rest, rule)
           choice == Preferred(left, reads, below, before, after, rest)
           first == Leftmost(choice.reads)
           final == Rightmost(choice.reads)
           rank == Rank(ts, span, rule, choice)
<1>1. span.start \in DOMAIN ts /\ span.end \in DOMAIN ts /\ Len(ts) \in Nat /\ DOMAIN ts = 1..Len(ts)
  BY DEF AnchorSpans, TypedRow
<1>2. /\ TypedRow(before)
      /\ \A n \in DOMAIN before : Overlap(origin, before[n])
  <2> DEFINE I == {k \in 1..(span.start - 1) : OneRow(origin, ts[k])}
  <2>1. I \subseteq DOMAIN ts
    BY <1>1
  <2>2. \A k \in I : Overlap(origin, ts[k])
    BY DEF OneRow
  <2>3. before = Picked(ts, I)
    BY DEF RowBefore
  <2> HIDE DEF I, before
  <2> QED BY <2>1, <2>2, <2>3, PickedRow
<1>3. /\ TypedRow(after)
      /\ \A n \in DOMAIN after : OneRow(origin, after[n]) /\ Overlap(origin, after[n])
  <2> DEFINE I == {k \in (span.end + 1)..Len(ts) : OneRow(origin, ts[k])}
  <2>1. I \subseteq DOMAIN ts
    BY <1>1
  <2>2. \A k \in I : OneRow(origin, ts[k]) /\ Overlap(origin, ts[k])
    BY DEF OneRow
  <2>3. after = Picked(ts, I)
    BY DEF RowAfter
  <2> HIDE DEF I, after
  <2> QED BY <2>1, <2>2, <2>3, PickedRow
<1>4. /\ TypedRow(rest)
      /\ \A n \in DOMAIN rest : ~Overlap(origin, rest[n])
  <2> DEFINE I == {k \in (span.end + 1)..Lesser(Len(ts), span.end + MaxWindowTokens) :
                     ts[k].page = origin.page /\ ~Overlap(origin, ts[k])}
  <2>1. I \subseteq DOMAIN ts
    BY <1>1 DEF Lesser, MaxWindowTokens
  <2>2. \A k \in I : ~Overlap(origin, ts[k])
    OBVIOUS
  <2>3. rest = Picked(ts, I)
    BY DEF ForwardRest
  <2> HIDE DEF I, rest
  <2> QED BY <2>1, <2>2, <2>3, PickedRow
<1>5. Candidate(ts, span, rule) =
        IF choice.reads = {} THEN {}
        ELSE {[rank |-> rank, start |-> span.start, value |-> first.value, second |-> final.value]}
  BY DEF Candidate, Ranked, Chosen, Around
<1>6. right = RightOf(ts, span, rule) /\ left = LeftOf(ts, span, rule)
  BY <1>2, <1>3, CellsOfRow DEF RightOf, LeftOf
<1> HIDE DEF before, after, rest
<1>7. /\ \A r \in NumbersIn(before, rule) : /\ r.at \in 1..Len(before) /\ r.token = before[r.at]
                                           /\ r.value \in Int /\ r.note \in BOOLEAN
      /\ \A r \in reads : /\ r.at \in 1..Len(after) /\ r.token = after[r.at]
                          /\ r.value \in Int /\ r.note \in BOOLEAN
      /\ \A r \in below : /\ r.at \in 1..Len(rest) /\ r.token = rest[r.at]
                          /\ r.value \in Int /\ r.note \in BOOLEAN
  <2>1. ASSUME NEW row, TypedRow(row), NEW r \in NumbersIn(row, rule)
        PROVE  /\ r.at \in 1..Len(row) /\ r.token = row[r.at]
               /\ r.value \in Int /\ r.note \in BOOLEAN
    BY <2>1, ReadsOfRow
  <2> QED BY <1>2, <1>3, <1>4, <2>1
<1>8. /\ \A r \in left : /\ r.at \in 1..Len(before) /\ ~r.note /\ Overlap(origin, r.token)
      /\ \A r \in reads : /\ r.at \in 1..Len(after) /\ Overlap(origin, r.token)
                          /\ OneRow(origin, r.token) /\ r.note \in BOOLEAN
      /\ \A r \in right : r \in reads /\ ~r.note
      /\ \A r \in reads \ right : r.note
      /\ \A r \in below : r.at \in 1..Len(rest) /\ ~Overlap(origin, r.token)
      /\ \A r \in left \cup reads \cup below : r.value \in Int
  BY <1>2, <1>3, <1>4, <1>7 DEF Cells, TypedRow
<1>9. Len(before) \in Nat /\ Len(after) \in Nat /\ Len(rest) \in Nat
  BY <1>2, <1>3, <1>4 DEF TypedRow
<1>10. /\ right # {} =>
            choice.reads = right /\ choice.distance = Leftmost(right).at - 1
       /\ right = {} /\ left # {} =>
            choice.reads = {Rightmost(left)} /\ choice.distance = Len(before) - Rightmost(left).at
       /\ right = {} /\ left = {} /\ reads # {} =>
            choice.reads = reads /\ choice.distance = Leftmost(reads).at - 1
       /\ left = {} /\ reads = {} /\ choice.reads # {} =>
            choice.reads = below /\ choice.distance = Leftmost(below).at - 1
  BY PreferredIs
<1> HIDE DEF left, reads, right, below, choice
<1>11. right # {} => /\ first = Leftmost(right) /\ final = Rightmost(right)
                     /\ first \in right /\ choice.reads # {} /\ choice.distance \in Nat
  <2> SUFFICES ASSUME right # {}
               PROVE  /\ first = Leftmost(right) /\ final = Rightmost(right)
                      /\ first \in right /\ choice.reads # {} /\ choice.distance \in Nat
    OBVIOUS
  <2>1. choice.reads = right /\ choice.distance = Leftmost(right).at - 1
    BY <1>10
  <2>2. Leftmost(right) \in right
    BY <1>8, <1>9, EndsOfReads
  <2> QED BY <1>8, <1>9, <2>1, <2>2
<1>12. right = {} /\ left # {} =>
         /\ first = Rightmost(left) /\ first \in left
         /\ choice.reads # {} /\ choice.distance \in Nat
  <2> SUFFICES ASSUME right = {}, left # {}
               PROVE  /\ first = Rightmost(left) /\ first \in left
                      /\ choice.reads # {} /\ choice.distance \in Nat
    OBVIOUS
  <2>1. choice.reads = {Rightmost(left)} /\ choice.distance = Len(before) - Rightmost(left).at
    BY <1>10
  <2>2. Rightmost(left) \in left
    BY <1>8, <1>9, EndsOfReads
  <2>3. first \in choice.reads
    <3>1. choice.reads # {} /\ \A r \in choice.reads : r.at \in 1..Len(before)
      BY <1>8, <2>1, <2>2
    <3> QED BY <1>9, <3>1, EndsOfReads
  <2>4. Rightmost(left).at \in 1..Len(before)
    BY <1>8, <2>2
  <2> QED BY <1>9, <2>1, <2>2, <2>3, <2>4
<1>13. right = {} /\ left = {} /\ reads # {} =>
         first \in reads /\ first.note /\ choice.distance \in Nat
  <2> SUFFICES ASSUME right = {}, left = {}, reads # {}
               PROVE  first \in reads /\ first.note /\ choice.distance \in Nat
    OBVIOUS
  <2>1. choice.reads = reads /\ choice.distance = Leftmost(reads).at - 1
    BY <1>10
  <2>2. Leftmost(reads) \in reads
    BY <1>8, <1>9, EndsOfReads
  <2> QED BY <1>8, <1>9, <2>1, <2>2
<1>14. left = {} /\ reads = {} /\ choice.reads # {} =>
         first \in below /\ choice.distance \in Nat
  <2> SUFFICES ASSUME left = {}, reads = {}, choice.reads # {}
               PROVE  first \in below /\ choice.distance \in Nat
    OBVIOUS
  <2>1. choice.reads = below /\ choice.distance = Leftmost(below).at - 1
    BY <1>10
  <2>2. Leftmost(below) \in below
    BY <1>8, <1>9, <2>1, EndsOfReads
  <2> QED BY <1>8, <1>9, <2>1, <2>2
<1>15. reads = {} => right = {}
  BY <1>8
<1>16. choice.reads # {} => choice.distance \in Nat
  BY <1>11, <1>12, <1>13, <1>14, <1>15
<1>22. choice.reads # {} => first.value \in Int /\ final.value \in Int
  <2> DEFINE n == Len(before) + Len(after) + Len(rest)
  <2> SUFFICES ASSUME choice.reads # {} PROVE first \in choice.reads /\ final \in choice.reads
                                              /\ \A r \in choice.reads : r.value \in Int
    OBVIOUS
  <2>1. right # {} => choice.reads = right
    BY <1>10
  <2>2. right = {} /\ left # {} => choice.reads \subseteq left
    <3> SUFFICES ASSUME right = {}, left # {} PROVE Rightmost(left) \in left
      BY <1>10
    <3> QED BY <1>8, <1>9, EndsOfReads
  <2>3. right = {} /\ left = {} => choice.reads \subseteq reads \/ choice.reads \subseteq below
    BY <1>10
  <2>4. choice.reads \subseteq left \cup reads \cup below
    BY <1>8, <2>1, <2>2, <2>3
  <2>5. n \in Nat /\ \A r \in choice.reads : r.at \in 1..n
    BY <1>8, <1>9, <2>4
  <2> HIDE DEF n, first, final
  <2>6. first \in choice.reads /\ final \in choice.reads
    BY <2>5, EndsOfReads DEF first, final
  <2> QED BY <1>8, <2>4, <2>6
<1>17. /\ DOMAIN rank = 1..7
       /\ rank[1] = Flag(~Overlap(origin, first.token))
       /\ rank[2] = Flag(first.note /\ OneRow(origin, first.token))
       /\ rank[3] \in Nat /\ rank[4] \in Nat /\ rank[5] = choice.distance /\ rank[6] \in Nat
       /\ rank[7] = span.end
  BY DEF Rank, Flag
<1> HIDE DEF rank, first, final
<1>18. rank[1] \in Nat /\ rank[2] \in Nat /\ rank[7] \in Nat
  BY <1>1, <1>17 DEF Flag
<1>19. ASSUME NEW c \in Candidate(ts, span, rule) PROVE Counted(c)
  <2>1. /\ choice.reads # {} /\ c.rank = rank /\ c.start = span.start
        /\ c.value = first.value /\ c.second = final.value
    BY <1>5
  <2>2. \A i \in 1..7 : rank[i] \in Nat
    <3>1. \A i \in 1..7 : i \in {1, 2, 3, 4, 5, 6, 7}
      OBVIOUS
    <3> QED BY <1>16, <1>17, <1>18, <2>1, <3>1
  <2>3. rank = [i \in 1..7 |-> rank[i]]
    BY DEF rank, Rank
  <2> QED BY <1>1, <1>22, <2>1, <2>2, <2>3 DEF Counted
<1>20. ASSUME NEW c \in Candidate(ts, span, rule), c.rank[1] = 0, c.rank[2] = 0
       PROVE  \/ right # {} /\ c.value = Leftmost(right).value /\ c.second = Rightmost(right).value
              \/ right = {} /\ left # {} /\ c.value = Rightmost(left).value
  <2>1. /\ choice.reads # {} /\ c.rank = rank
        /\ c.value = first.value /\ c.second = final.value
    BY <1>5
  <2>2. Overlap(origin, first.token) /\ ~(first.note /\ OneRow(origin, first.token))
    BY <1>17, <1>20, <2>1 DEF Flag
  <2>3. ~(right = {} /\ left = {})
    <3>1. CASE right = {} /\ left = {} /\ reads # {}
      BY <1>8, <1>13, <2>2, <3>1
    <3>2. CASE left = {} /\ reads = {}
      BY <1>8, <1>14, <2>1, <2>2, <3>2
    <3> QED BY <3>1, <3>2
  <2> QED BY <1>11, <1>12, <2>1, <2>3
<1>21. ASSUME right \cup left # {}
       PROVE  \E c \in Candidate(ts, span, rule) : c.rank[1] = 0 /\ c.rank[2] = 0
  <2>1. choice.reads # {} /\ Overlap(origin, first.token) /\ ~first.note
    BY <1>8, <1>11, <1>12, <1>21
  <2>2. rank[1] = 0 /\ rank[2] = 0
    BY <1>17, <2>1 DEF Flag
  <2> DEFINE c == [rank |-> rank, start |-> span.start,
                   value |-> first.value, second |-> final.value]
  <2>3. c \in Candidate(ts, span, rule) /\ c.rank = rank
    BY <1>5, <2>1
  <2> HIDE DEF c
  <2> QED BY <2>2, <2>3
<1> QED BY <1>6, <1>19, <1>20, <1>21

\* Some candidate comes before every other.
Least(C, i) == {c \in C : \A d \in C : c.rank[i] <= d.rank[i]}

LEMMA LeastAt ==
  ASSUME NEW C, C # {}, \A c \in C : Counted(c), NEW i \in 1..7
  PROVE  Least(C, i) # {} /\ \A c \in Least(C, i) : c \in C /\ Counted(c)
<1> DEFINE ranks == {c.rank[i] : c \in C}
<1>1. ranks # {} /\ ranks \subseteq Nat
  BY DEF Counted
<1>2. PICK m \in ranks : \A k \in ranks : m <= k
  <2> HIDE DEF ranks
  <2> QED BY <1>1, LeastNumber
<1> QED BY <1>2 DEF Least

LEMMA LeastOrAfter ==
  ASSUME NEW C, \A c \in C : Counted(c), NEW i \in 1..7, NEW c \in Least(C, i), NEW d \in C
  PROVE  c.rank[i] < d.rank[i] \/ (c.rank[i] = d.rank[i] /\ d \in Least(C, i))
<1>1. c \in C /\ \A e \in C : e.rank[i] \in Nat
  BY DEF Least, Counted
<1>2. c.rank[i] <= d.rank[i] /\ \A e \in C : c.rank[i] <= e.rank[i]
  BY DEF Least
<1>3. CASE c.rank[i] = d.rank[i]
  BY <1>2, <1>3 DEF Least
<1>4. CASE c.rank[i] # d.rank[i]
  BY <1>1, <1>2, <1>4
<1> QED BY <1>3, <1>4

LEMMA BestOf ==
  ASSUME NEW C, C # {}, \A c \in C : Counted(c)
  PROVE  \E c \in C : \A d \in C : Better(c, d)
<1> DEFINE C1 == Least(C, 1)
           C2 == Least(C1, 2)
           C3 == Least(C2, 3)
           C4 == Least(C3, 4)
           C5 == Least(C4, 5)
           C6 == Least(C5, 6)
           C7 == Least(C6, 7)
<1>1. C1 # {} /\ \A c \in C1 : c \in C /\ Counted(c)
  BY LeastAt
<1>2. C2 # {} /\ \A c \in C2 : c \in C1 /\ Counted(c)
  <2>1. 2 \in 1..7
    OBVIOUS
  <2> HIDE DEF C1
  <2> QED BY <1>1, <2>1, LeastAt
<1>3. C3 # {} /\ \A c \in C3 : c \in C2 /\ Counted(c)
  <2>1. 3 \in 1..7
    OBVIOUS
  <2> HIDE DEF C2
  <2> QED BY <1>2, <2>1, LeastAt
<1>4. C4 # {} /\ \A c \in C4 : c \in C3 /\ Counted(c)
  <2>1. 4 \in 1..7
    OBVIOUS
  <2> HIDE DEF C3
  <2> QED BY <1>3, <2>1, LeastAt
<1>5. C5 # {} /\ \A c \in C5 : c \in C4 /\ Counted(c)
  <2>1. 5 \in 1..7
    OBVIOUS
  <2> HIDE DEF C4
  <2> QED BY <1>4, <2>1, LeastAt
<1>6. C6 # {} /\ \A c \in C6 : c \in C5 /\ Counted(c)
  <2>1. 6 \in 1..7
    OBVIOUS
  <2> HIDE DEF C5
  <2> QED BY <1>5, <2>1, LeastAt
<1>7. C7 # {} /\ \A c \in C7 : c \in C6 /\ Counted(c)
  <2>1. 7 \in 1..7
    OBVIOUS
  <2> HIDE DEF C6
  <2> QED BY <1>6, <2>1, LeastAt
<1> DEFINE starts == {c.start : c \in C7}
<1>8. starts # {} /\ starts \subseteq Nat
  BY <1>7 DEF Counted
<1>9. PICK m \in starts : \A k \in starts : m <= k
  <2> HIDE DEF starts
  <2> QED BY <1>8, LeastNumber
<1>10. PICK c \in C7 : \A d \in C7 : c.start <= d.start
  BY <1>9
<1> HIDE DEF starts
<1> HIDE DEF C1, C2, C3, C4, C5, C6, C7
<1>11. /\ c \in C /\ c \in C1 /\ c \in C2 /\ c \in C3
       /\ c \in C4 /\ c \in C5 /\ c \in C6 /\ c \in C7
  BY <1>1, <1>2, <1>3, <1>4, <1>5, <1>6, <1>7, <1>10
<1>12. ASSUME NEW d \in C PROVE Better(c, d)
  <2> DEFINE r == c.rank
             q == d.rank
  <2>0. r \in [1..7 -> Nat] /\ q \in [1..7 -> Nat]
    BY <1>11 DEF Counted
  <2> HIDE DEF r, q
  <2>1. (r[1] < q[1] \/ (r[1] = q[1] /\ d \in C1))
    BY <1>11, LeastOrAfter DEF C1, r, q
  <2>2. d \in C1 => (r[2] < q[2] \/ (r[2] = q[2] /\ d \in C2))
    BY <1>1, <1>11, LeastOrAfter DEF C2, r, q
  <2>3. d \in C2 => (r[3] < q[3] \/ (r[3] = q[3] /\ d \in C3))
    BY <1>2, <1>11, LeastOrAfter DEF C3, r, q
  <2>4. d \in C3 => (r[4] < q[4] \/ (r[4] = q[4] /\ d \in C4))
    BY <1>3, <1>11, LeastOrAfter DEF C4, r, q
  <2>5. d \in C4 => (r[5] < q[5] \/ (r[5] = q[5] /\ d \in C5))
    BY <1>4, <1>11, LeastOrAfter DEF C5, r, q
  <2>6. d \in C5 => (r[6] < q[6] \/ (r[6] = q[6] /\ d \in C6))
    BY <1>5, <1>11, LeastOrAfter DEF C6, r, q
  <2>7. d \in C6 => (r[7] < q[7] \/ (r[7] = q[7] /\ d \in C7))
    BY <1>6, <1>11, LeastOrAfter DEF C7, r, q
  <2>11. CASE r[1] < q[1]
    <3>1. Precedes(r, q)
      <4>1. 1 \in DOMAIN r /\ \A j \in 1..(1 - 1) : r[j] = q[j]
        BY <2>0, <2>11
      <4> QED BY <2>11, <4>1 DEF Precedes
    <3> QED BY <3>1 DEF Better, r, q
  <2>12. CASE r[1] = q[1] /\ r[2] < q[2]
    <3>1. Precedes(r, q)
      <4>1. 2 \in DOMAIN r /\ \A j \in 1..(2 - 1) : r[j] = q[j]
        BY <2>0, <2>12
      <4> QED BY <2>12, <4>1 DEF Precedes
    <3> QED BY <3>1 DEF Better, r, q
  <2>13. CASE r[1] = q[1] /\ r[2] = q[2] /\ r[3] < q[3]
    <3>1. Precedes(r, q)
      <4>1. 3 \in DOMAIN r /\ \A j \in 1..(3 - 1) : r[j] = q[j]
        BY <2>0, <2>13
      <4> QED BY <2>13, <4>1 DEF Precedes
    <3> QED BY <3>1 DEF Better, r, q
  <2>14. CASE r[1] = q[1] /\ r[2] = q[2] /\ r[3] = q[3] /\ r[4] < q[4]
    <3>1. Precedes(r, q)
      <4>1. 4 \in DOMAIN r /\ \A j \in 1..(4 - 1) : r[j] = q[j]
        BY <2>0, <2>14
      <4> QED BY <2>14, <4>1 DEF Precedes
    <3> QED BY <3>1 DEF Better, r, q
  <2>15. CASE r[1] = q[1] /\ r[2] = q[2] /\ r[3] = q[3] /\ r[4] = q[4] /\ r[5] < q[5]
    <3>1. Precedes(r, q)
      <4>1. 5 \in DOMAIN r /\ \A j \in 1..(5 - 1) : r[j] = q[j]
        BY <2>0, <2>15
      <4> QED BY <2>15, <4>1 DEF Precedes
    <3> QED BY <3>1 DEF Better, r, q
  <2>16. CASE r[1] = q[1] /\ r[2] = q[2] /\ r[3] = q[3] /\ r[4] = q[4] /\ r[5] = q[5] /\ r[6] < q[6]
    <3>1. Precedes(r, q)
      <4>1. 6 \in DOMAIN r /\ \A j \in 1..(6 - 1) : r[j] = q[j]
        BY <2>0, <2>16
      <4> QED BY <2>16, <4>1 DEF Precedes
    <3> QED BY <3>1 DEF Better, r, q
  <2>17. CASE r[1] = q[1] /\ r[2] = q[2] /\ r[3] = q[3] /\ r[4] = q[4] /\ r[5] = q[5] /\ r[6] = q[6] /\ r[7] < q[7]
    <3>1. Precedes(r, q)
      <4>1. 7 \in DOMAIN r /\ \A j \in 1..(7 - 1) : r[j] = q[j]
        BY <2>0, <2>17
      <4> QED BY <2>17, <4>1 DEF Precedes
    <3> QED BY <3>1 DEF Better, r, q
  <2>18. CASE /\ r[1] = q[1] /\ r[2] = q[2] /\ r[3] = q[3] /\ r[4] = q[4]
              /\ r[5] = q[5] /\ r[6] = q[6] /\ r[7] = q[7] /\ d \in C7
    <3>1. \A i \in 1..7 : r[i] = q[i]
      BY <2>18
    <3>2. r = q
      BY <2>0, <3>1
    <3>3. c.start <= d.start
      BY <1>10, <2>18
    <3> QED BY <3>2, <3>3 DEF Better, r, q
  <2> QED BY <2>1, <2>2, <2>3, <2>4, <2>5, <2>6, <2>7, <2>11, <2>12, <2>13, <2>14, <2>15, <2>16, <2>17, <2>18
<1> QED BY <1>11, <1>12

\* The best candidate of labels some of which have cells is from their cells.
LEMMA ExtractedIsACell ==
  ASSUME NEW ts, TypedRow(ts), NEW rule, ExtractNumber(ts, rule).kind = "hit",
         ExtractNumber(ts, rule).value = ExtractNumber(ts, rule).second
  PROVE  IsACell(ExtractNumber(ts, rule).value, ts, rule)
<1> DEFINE spans == AnchorSpans(ts, rule)
           candidates == UNION {Candidate(ts, span, rule) : span \in spans}
           best == CHOOSE c \in candidates : \A d \in candidates : Better(c, d)
           value == ExtractNumber(ts, rule).value
<1>1. SUFFICES ASSUME NEW s \in spans, RightOf(ts, s, rule) \cup LeftOf(ts, s, rule) # {}
               PROVE  IsACell(value, ts, rule)
  BY <1>1 DEF IsACell
<1>2. \A c \in candidates : Counted(c)
  BY CandidateOfSpan
<1>3. PICK d \in Candidate(ts, s, rule) : d.rank[1] = 0 /\ d.rank[2] = 0
  BY <1>1, CandidateOfSpan
<1>4. d \in candidates
  BY <1>3
<1>5. best \in candidates /\ Better(best, d)
  <2>1. \E c \in candidates : \A e \in candidates : Better(c, e)
    <3> HIDE DEF candidates
    <3> QED BY <1>2, <1>4, BestOf
  <2> HIDE DEF candidates
  <2> QED BY <1>4, <2>1
<1>6. ExtractNumber(ts, rule) = Hit("hit", best.value, best.second)
  BY <1>4 DEF ExtractNumber, HitOf
<1>7. value = best.value /\ value = best.second
  BY <1>6 DEF Hit
<1>8. PICK span \in spans : best \in Candidate(ts, span, rule)
  BY <1>5
<1> HIDE DEF best, value
<1>9. best.rank[1] = 0 /\ best.rank[2] = 0
  <2>1. Counted(best) /\ Counted(d)
    BY <1>2, <1>4, <1>5
  <2> DEFINE r == best.rank
             q == d.rank
  <2>2. r \in [1..7 -> Nat] /\ q \in [1..7 -> Nat] /\ q[1] = 0 /\ q[2] = 0
    BY <1>3, <2>1 DEF Counted
  <2>3. Precedes(r, q) \/ r = q
    BY <1>5 DEF Better
  <2> HIDE DEF r, q
  <2>4. ASSUME NEW i \in 1..7, r[i] < q[i], \A j \in 1..(i - 1) : r[j] = q[j]
        PROVE  r[1] = 0 /\ r[2] = 0
    <3>1. i # 1 /\ i # 2
      BY <2>2, <2>4
    <3>2. 1 \in 1..(i - 1) /\ 2 \in 1..(i - 1)
      BY <3>1
    <3> QED BY <2>2, <2>4, <3>2
  <2>5. r[1] = 0 /\ r[2] = 0
    BY <2>2, <2>3, <2>4 DEF Precedes
  <2> QED BY <2>5 DEF r
<1>10. LET right == RightOf(ts, span, rule)
           left == LeftOf(ts, span, rule) IN
       \/ right # {} /\ best.value = Leftmost(right).value /\ best.second = Rightmost(right).value
       \/ right = {} /\ left # {} /\ best.value = Rightmost(left).value
  BY <1>8, <1>9, CandidateOfSpan
<1> QED BY <1>7, <1>8, <1>10 DEF IsACell

\* What is found is a number, twice.
LEMMA ExtractedTyped ==
  ASSUME NEW ts, TypedRow(ts), NEW rule
  PROVE  Measured(ExtractNumber(ts, rule))
<1> DEFINE candidates == UNION {Candidate(ts, span, rule) : span \in AnchorSpans(ts, rule)}
           best == CHOOSE c \in candidates : \A d \in candidates : Better(c, d)
<1>1. \A c \in candidates : Counted(c)
  BY CandidateOfSpan
<1>2. ExtractNumber(ts, rule) = IF candidates = {} THEN Hit("none", NoValue, NoValue)
                                ELSE Hit("hit", best.value, best.second)
  BY DEF ExtractNumber, HitOf
<1> HIDE DEF candidates
<1>3. candidates # {} => best \in candidates
  <2> SUFFICES ASSUME candidates # {} PROVE \E c \in candidates : \A d \in candidates : Better(c, d)
    OBVIOUS
  <2> QED BY <1>1, BestOf
<1> HIDE DEF best
<1>4. candidates # {} => best.value \in Int /\ best.second \in Int
  BY <1>1, <1>3 DEF Counted
<1> QED BY <1>2, <1>4 DEF Measured, Hit

-----------------------------------------------------------------------------
(* The gates of a rule.                                                    *)

\* A gate that fails closes the rule with a status that is no verdict.
Halting ==
  {"CLARIFICATION_REQUIRED", "MISSING_EVIDENCE", "LOW_QUALITY", "NOT_COMPARABLE", "ABSTAIN"}
Verdicts == {"CANDIDATE", "AUTO_NO_DIFFERENCE"}
Layers == {"L1", "L2", "L3", "L4", "L5", "L6"}
Asides == {"nothing", "rooms", "reads"}
AnyGate == [fails : BOOLEAN, layer : Layers, status : Halting, also : Asides]
Pass(list) == \A j \in DOMAIN list : ~list[j].fails
Passed(lists) == \A i \in DOMAIN lists : Pass(lists[i])

LEMMA GateTyped ==
  ASSUME NEW fails \in BOOLEAN, NEW layer \in Layers, NEW status \in Halting, NEW also \in Asides
  PROVE  Gate(fails, layer, status, also) \in AnyGate /\ Gate(fails, layer, status, also).fails = fails
BY DEF Gate, AnyGate

LEMMA FirstFailing ==
  ASSUME NEW lists \in Seq(Seq(AnyGate))
  PROVE  /\ Failed(lists) = <<>> => Passed(lists)
         /\ Failed(lists) # <<>> => Failed(lists)[1] \in AnyGate
<1> DEFINE failing == {p \in Places(lists) : lists[p[1]][p[2]].fails}
           first == CHOOSE p \in failing : \A q \in failing : NotAfter(p, q)
<1>1. Failed(lists) = IF failing = {} THEN <<>> ELSE <<lists[first[1]][first[2]]>>
  BY DEF Failed
<1>2. \A p \in Places(lists) : \E i \in DOMAIN lists : \E j \in DOMAIN lists[i] : p = <<i, j>>
  BY DEF Places
<1>3. \A i \in DOMAIN lists : lists[i] \in Seq(AnyGate)
  OBVIOUS
<1>4. \A p \in Places(lists) : p[1] \in Nat /\ p[2] \in Nat /\ lists[p[1]][p[2]] \in AnyGate
  <2> TAKE p \in Places(lists)
  <2>1. PICK i \in DOMAIN lists : \E j \in DOMAIN lists[i] : p = <<i, j>>
    BY <1>2
  <2>2. PICK j \in DOMAIN lists[i] : p = <<i, j>>
    BY <2>1
  <2>3. lists[i][j] \in AnyGate /\ i \in Nat /\ j \in Nat
    BY <1>3, <2>1, <2>2
  <2> QED BY <2>2, <2>3
<1>5. CASE failing = {}
  <2>1. \A i \in DOMAIN lists : \A j \in DOMAIN lists[i] : ~lists[i][j].fails
    <3> TAKE i \in DOMAIN lists
    <3> TAKE j \in DOMAIN lists[i]
    <3>1. <<i, j>> \in Places(lists)
      BY DEF Places
    <3>2. <<i, j>> \notin failing
      BY <1>5
    <3> QED BY <3>1, <3>2
  <2> QED BY <1>1, <1>5, <2>1 DEF Passed, Pass
<1>6. CASE failing # {}
  <2>1. \A p \in failing : p[1] \in Nat /\ p[2] \in Nat /\ lists[p[1]][p[2]] \in AnyGate
    BY <1>4
  <2> HIDE DEF failing
  <2>2. PICK m \in {p[1] : p \in failing} : \A n \in {p[1] : p \in failing} : m <= n
    BY <1>6, <2>1, LeastNumber
  <2> DEFINE row == {p \in failing : p[1] = m}
  <2>3. PICK k \in {p[2] : p \in row} : \A n \in {p[2] : p \in row} : k <= n
    <3>1. {p[2] : p \in row} \subseteq Nat /\ {p[2] : p \in row} # {}
      BY <2>1, <2>2
    <3> QED BY <3>1, LeastNumber
  <2>4. PICK p \in failing : p[1] = m /\ p[2] = k
    BY <2>3
  <2>5. \A q \in failing : NotAfter(p, q)
    <3> TAKE q \in failing
    <3>1. m <= q[1] /\ q[1] \in Nat /\ p[1] \in Nat /\ (q[1] = m => k <= q[2])
      BY <2>1, <2>2, <2>3
    <3> QED BY <2>4, <3>1 DEF NotAfter
  <2>6. first \in failing
    BY <2>4, <2>5
  <2>7. Failed(lists) = <<lists[first[1]][first[2]]>> /\ lists[first[1]][first[2]] \in AnyGate
    BY <1>1, <1>6, <2>1, <2>6
  <2> HIDE DEF first
  <2> QED BY <2>7
<1> QED BY <1>5, <1>6

LEMMA BothPass ==
  ASSUME NEW a \in Seq(AnyGate), NEW b \in Seq(AnyGate)
  PROVE  a \o b \in Seq(AnyGate) /\ (Pass(a \o b) => Pass(a) /\ Pass(b))
<1>1. /\ Len(a \o b) = Len(a) + Len(b) /\ a \o b \in Seq(AnyGate)
      /\ \A i \in 1..Len(a) : (a \o b)[i] = a[i]
      /\ \A i \in 1..Len(b) : (a \o b)[Len(a) + i] = b[i]
  OBVIOUS
<1>2. (\A i \in 1..Len(a) : i \in 1..Len(a \o b)) /\ (\A i \in 1..Len(b) : Len(a) + i \in 1..Len(a \o b))
  BY <1>1
<1>3. DOMAIN a = 1..Len(a) /\ DOMAIN b = 1..Len(b) /\ DOMAIN (a \o b) = 1..Len(a \o b)
  OBVIOUS
<1> QED BY <1>1, <1>2, <1>3 DEF Pass

LEMMA BothPassed ==
  ASSUME NEW a \in Seq(Seq(AnyGate)), NEW b \in Seq(Seq(AnyGate))
  PROVE  a \o b \in Seq(Seq(AnyGate)) /\ (Passed(a \o b) => Passed(a) /\ Passed(b))
<1>1. /\ Len(a \o b) = Len(a) + Len(b) /\ a \o b \in Seq(Seq(AnyGate))
      /\ \A i \in 1..Len(a) : (a \o b)[i] = a[i]
      /\ \A i \in 1..Len(b) : (a \o b)[Len(a) + i] = b[i]
  OBVIOUS
<1>2. (\A i \in 1..Len(a) : i \in 1..Len(a \o b)) /\ (\A i \in 1..Len(b) : Len(a) + i \in 1..Len(a \o b))
  BY <1>1
<1>3. DOMAIN a = 1..Len(a) /\ DOMAIN b = 1..Len(b) /\ DOMAIN (a \o b) = 1..Len(a \o b)
  OBVIOUS
<1> QED BY <1>1, <1>2, <1>3 DEF Passed

LEMMA ShapeTyped ==
  ASSUME NEW rule
  PROVE  /\ ShapeGates(rule) \in Seq(AnyGate)
         /\ Pass(ShapeGates(rule)) =>
              rule.kind \in ExtractorTypes /\ rule.operator \in ValidOperators(rule.kind)
<1> DEFINE g == Gate(rule.kind \notin ExtractorTypes, "L6", "CLARIFICATION_REQUIRED", "nothing")
           h == Gate(rule.operator \notin ValidOperators(rule.kind), "L6", "CLARIFICATION_REQUIRED", "nothing")
<1>1. g \in AnyGate /\ h \in AnyGate
  BY GateTyped DEF Halting, Layers, Asides
<1>2. (~g.fails => rule.kind \in ExtractorTypes) /\ (~h.fails => rule.operator \in ValidOperators(rule.kind))
  BY DEF Gate
<1>3. ShapeGates(rule) = <<g, h>>
  BY DEF ShapeGates
<1> HIDE DEF g, h
<1>4. Pass(<<g, h>>) => ~g.fails /\ ~h.fails
  <2>1. DOMAIN <<g, h>> = {1, 2} /\ <<g, h>>[1] = g /\ <<g, h>>[2] = h
    OBVIOUS
  <2> QED BY <2>1 DEF Pass
<1> QED BY <1>1, <1>2, <1>3, <1>4

LEMMA CommonTyped ==
  ASSUME NEW rule, rule.required \in Seq(DocStage), NEW pages, NEW present, NEW pool, NEW sel
  PROVE  /\ CommonGates(rule, pages, present, pool, sel) \in Seq(Seq(AnyGate))
         /\ Passed(CommonGates(rule, pages, present, pool, sel)) => Pass(ShapeGates(rule))
<1> DEFINE stage == rule.required
           bound == UNION {BoundVolumes(rule, pages, s) : s \in DocStage}
           a == <<ShapeGates(rule)>>
           b == [i \in DOMAIN stage |-> CompletenessGate(present, stage[i])]
           c == [i \in DOMAIN stage |-> SectionGate(rule, pool, stage[i], sel)]
           d1 == Gate(\E s \in Required(rule) : BindConflict(rule, pages, s),
                      "L4", "CLARIFICATION_REQUIRED", "nothing")
           d2 == Gate(\E p \in bound : ~p.sound, "L1", "CLARIFICATION_REQUIRED", "nothing")
           d == <<<<d1, d2>>>>
           e == [i \in DOMAIN stage |-> RevisionGates(
                  Resolutions(pool, stage[i], BoundVolumes(rule, pages, stage[i]), sel))]
<1>1. a \in Seq(Seq(AnyGate)) /\ (Passed(a) => Pass(ShapeGates(rule)))
  BY ShapeTyped DEF Passed
<1>2. \A s : CompletenessGate(present, s) \in Seq(AnyGate)
  <2>1. \A s : Gate(s \notin present, "L2", "MISSING_EVIDENCE", "nothing") \in AnyGate
    BY GateTyped DEF Halting, Layers, Asides
  <2> QED BY <2>1 DEF CompletenessGate
<1>3. \A s : SectionGate(rule, pool, s, sel) \in Seq(AnyGate)
  <2>1. \A s : Gate(SectionUnresolved(rule, pool, s, sel), "L4", "CLARIFICATION_REQUIRED", "nothing") \in AnyGate
    BY GateTyped DEF Halting, Layers, Asides, SectionUnresolved, NoneResolved
  <2> QED BY <2>1 DEF SectionGate
<1>4. d1 \in AnyGate /\ d2 \in AnyGate
  BY GateTyped DEF Halting, Layers, Asides
<1>5. \A resolutions : RevisionGates(resolutions) \in Seq(AnyGate)
  <2> TAKE resolutions
  <2> DEFINE g == Gate(\E r \in resolutions : r.of.status = "MISSING_EVIDENCE", "L4", "MISSING_EVIDENCE", "nothing")
             h == Gate(\E r \in resolutions : NotLastRevision(r), "L4", "CLARIFICATION_REQUIRED", "nothing")
  <2>1. g \in AnyGate /\ h \in AnyGate
    BY GateTyped DEF Halting, Layers, Asides
  <2>2. RevisionGates(resolutions) = <<g, h>>
    BY DEF RevisionGates
  <2> HIDE DEF g, h
  <2> QED BY <2>1, <2>2
<1> HIDE DEF d1, d2
<1>6. DOMAIN stage = 1..Len(stage) /\ Len(stage) \in Nat
  OBVIOUS
<1>7. b \in Seq(Seq(AnyGate)) /\ c \in Seq(Seq(AnyGate)) /\ e \in Seq(Seq(AnyGate))
  <2> HIDE DEF stage
  <2> QED BY <1>2, <1>3, <1>5, <1>6
<1>8. d \in Seq(Seq(AnyGate))
  BY <1>4
<1>9. CommonGates(rule, pages, present, pool, sel) = a \o b \o c \o d \o e
  BY DEF CommonGates, d1, d2
<1> HIDE DEF a, b, c, d, e
<1>10. a \o b \in Seq(Seq(AnyGate)) /\ (Passed(a \o b) => Passed(a))
  BY <1>1, <1>7, BothPassed
<1>11. a \o b \o c \in Seq(Seq(AnyGate)) /\ (Passed(a \o b \o c) => Passed(a \o b))
  BY <1>7, <1>10, BothPassed
<1>12. a \o b \o c \o d \in Seq(Seq(AnyGate)) /\ (Passed(a \o b \o c \o d) => Passed(a \o b \o c))
  BY <1>8, <1>11, BothPassed
<1>13. a \o b \o c \o d \o e \in Seq(Seq(AnyGate)) /\ (Passed(a \o b \o c \o d \o e) => Passed(a \o b \o c \o d))
  BY <1>7, <1>12, BothPassed
<1> QED BY <1>1, <1>9, <1>10, <1>11, <1>12, <1>13

LEMMA VolumesTyped ==
  ASSUME NEW rule, NEW volumes, NEW also \in Asides
  PROVE  /\ VolumeGates(rule, volumes, also) \in Seq(AnyGate)
         /\ Pass(VolumeGates(rule, volumes, also)) =>
              volumes # {} /\ Narrowed(rule, volumes) # {} /\ Narrowed(rule, volumes) \subseteq volumes
<1> DEFINE many == Cardinality(volumes) > 1
           found == Found(rule, volumes)
           f == Gate(many /\ Cardinality(found) > 1, "L4", "CLARIFICATION_REQUIRED", "nothing")
           g == Gate(many /\ found = {}, "L2", "LOW_QUALITY", also)
           h == Gate(volumes = {}, "L2", "MISSING_EVIDENCE", "nothing")
<1>1. f \in AnyGate /\ g \in AnyGate /\ h \in AnyGate
  BY GateTyped DEF Halting, Layers, Asides
<1>2. (~g.fails /\ many => found # {}) /\ (~h.fails => volumes # {})
  BY DEF Gate
<1>3. VolumeGates(rule, volumes, also) = <<f, g, h>>
  BY DEF VolumeGates
<1>4. Narrowed(rule, volumes) = (IF many THEN found ELSE volumes) /\ found \subseteq volumes
  BY DEF Narrowed, Found
<1> HIDE DEF f, g, h, many, found
<1>5. Pass(<<f, g, h>>) => ~g.fails /\ ~h.fails
  <2>1. DOMAIN <<f, g, h>> = {1, 2, 3} /\ <<f, g, h>>[2] = g /\ <<f, g, h>>[3] = h
    OBVIOUS
  <2> QED BY <2>1 DEF Pass
<1> QED BY <1>1, <1>2, <1>3, <1>4, <1>5

\* What a rule may compare on a page.
Tabular == {"element_table", "multi_field"}
Readable(rule, p) ==
  IF rule.kind \in Tabular THEN p.table # Unparsed
  ELSE Reading(rule, p).kind = "hit" /\ Reading(rule, p).value = Reading(rule, p).second
Compares(rule, volumes) ==
  /\ Narrowed(rule, volumes) # {} /\ Narrowed(rule, volumes) \subseteq volumes
  /\ \A p \in Narrowed(rule, volumes) : Readable(rule, p)

LEMMA ReadingTyped ==
  ASSUME NEW rule, NEW volumes
  PROVE  /\ ReadingGates(rule, volumes) \in Seq(AnyGate)
         /\ Pass(ReadingGates(rule, volumes)) /\ rule.kind \notin Tabular => Compares(rule, volumes)
<1> DEFINE numeric == rule.kind \notin TextKinds
           rooms == IF numeric THEN "rooms" ELSE "nothing"
           reads == IF numeric THEN "reads" ELSE "nothing"
           page == Narrowed(rule, volumes)
           read == {Reading(rule, p) : p \in page}
           g1 == Gate(numeric /\ \E p \in page : MeasurementRequired(rule, p), "L2", "NOT_COMPARABLE", "nothing")
           g2 == Gate(\E r \in read : r.kind # "hit", "L2", "LOW_QUALITY", rooms)
           g3 == Gate(\E r \in read : r.stamped, "L2", "LOW_QUALITY", "nothing")
           g4 == Gate(rule.dual /\ \E r \in read : r.value # r.second, "L2", "ABSTAIN", reads)
           g5 == Gate(numeric /\ rule.kind # "geometry" /\ rule.dual /\ \E r \in read : CropsDisagree(r),
                      "L2", "ABSTAIN", "nothing")
           g6 == Gate(\E r \in read : ~r.grounded \/ r.value # r.second, "L2", "LOW_QUALITY", "nothing")
           g7 == Gate(\E r \in read : ~r.localized, "L3", "LOW_QUALITY", "nothing")
           list == <<g1, g2, g3, g4, g5, g6, g7>>
<1>1. rooms \in Asides /\ reads \in Asides
  BY DEF Asides
<1>2. ReadingGates(rule, volumes) = VolumeGates(rule, volumes, rooms) \o list
  BY DEF ReadingGates
<1>3. /\ ~g2.fails => \A r \in read : r.kind = "hit"
      /\ ~g6.fails => \A r \in read : r.value = r.second
  BY DEF Gate
<1> HIDE DEF rooms, reads
<1>4. g1 \in AnyGate /\ g2 \in AnyGate /\ g3 \in AnyGate /\ g4 \in AnyGate
  <2>1. g1 \in AnyGate
    BY GateTyped DEF Halting, Layers, Asides
  <2>2. g2 \in AnyGate
    BY <1>1, GateTyped DEF Halting, Layers
  <2>3. g3 \in AnyGate
    BY GateTyped DEF Halting, Layers, Asides
  <2>4. g4 \in AnyGate
    BY <1>1, GateTyped DEF Halting, Layers
  <2> QED BY <2>1, <2>2, <2>3, <2>4
<1>5. g5 \in AnyGate /\ g6 \in AnyGate /\ g7 \in AnyGate
  BY GateTyped DEF Halting, Layers, Asides
<1> HIDE DEF g1, g2, g3, g4, g5, g6, g7
<1>6. list \in Seq(AnyGate)
  BY <1>4, <1>5
<1>7. Pass(list) => ~g2.fails /\ ~g6.fails
  <2>1. 2 \in DOMAIN list /\ 6 \in DOMAIN list /\ list[2] = g2 /\ list[6] = g6
    OBVIOUS
  <2> QED BY <2>1 DEF Pass
<1> HIDE DEF list
<1>8. VolumeGates(rule, volumes, rooms) \in Seq(AnyGate)
  BY <1>1, VolumesTyped
<1>9. ReadingGates(rule, volumes) \in Seq(AnyGate)
  BY <1>2, <1>6, <1>8, BothPass
<1>10. ASSUME Pass(ReadingGates(rule, volumes)), rule.kind \notin Tabular
       PROVE  Compares(rule, volumes)
  <2>1. Pass(VolumeGates(rule, volumes, rooms)) /\ Pass(list)
    BY <1>2, <1>6, <1>8, <1>10, BothPass
  <2>2. page # {} /\ page \subseteq volumes
    BY <1>1, <2>1, VolumesTyped
  <2>3. \A p \in page : Reading(rule, p).kind = "hit" /\ Reading(rule, p).value = Reading(rule, p).second
    BY <1>3, <1>7, <2>1
  <2> QED BY <1>10, <2>2, <2>3 DEF Compares, Readable
<1> QED BY <1>9, <1>10

LEMMA TableTyped ==
  ASSUME NEW rule, NEW volumes
  PROVE  /\ ElementTableGates(rule, volumes) \in Seq(AnyGate)
         /\ Pass(ElementTableGates(rule, volumes)) /\ rule.kind \in Tabular => Compares(rule, volumes)
<1> DEFINE g == Gate(\E p \in Narrowed(rule, volumes) : p.table = Unparsed, "L2", "LOW_QUALITY", "nothing")
           first == VolumeGates(rule, volumes, "nothing")
<1>1. g \in AnyGate
  BY GateTyped DEF Halting, Layers, Asides
<1>2. ~g.fails => \A p \in Narrowed(rule, volumes) : p.table # Unparsed
  BY DEF Gate
<1>3. ElementTableGates(rule, volumes) = first \o <<g>>
  BY DEF ElementTableGates
<1>4. "nothing" \in Asides
  BY DEF Asides
<1> HIDE DEF g
<1>5. first \in Seq(AnyGate) /\ (Pass(first) =>
        Narrowed(rule, volumes) # {} /\ Narrowed(rule, volumes) \subseteq volumes)
  BY <1>4, VolumesTyped
<1>6. <<g>> \in Seq(AnyGate) /\ (Pass(<<g>>) => ~g.fails)
  BY <1>1 DEF Pass
<1> HIDE DEF first
<1>7. first \o <<g>> \in Seq(AnyGate) /\ (Pass(first \o <<g>>) => Pass(first) /\ Pass(<<g>>))
  BY <1>5, <1>6, BothPass
<1> QED BY <1>2, <1>3, <1>5, <1>6, <1>7 DEF Compares, Readable

LEMMA FieldsTyped ==
  ASSUME NEW rule, NEW volumes
  PROVE  /\ MultiFieldGates(volumes) \in Seq(AnyGate)
         /\ Pass(MultiFieldGates(volumes)) /\ rule.kind \in Tabular => Compares(rule, volumes)
<1> DEFINE f == Gate(volumes = {}, "L2", "MISSING_EVIDENCE", "nothing")
           g == Gate(Cardinality(volumes) > 1, "L2", "LOW_QUALITY", "nothing")
           h == Gate(\E p \in volumes : p.table = Unparsed, "L2", "LOW_QUALITY", "nothing")
<1>1. f \in AnyGate /\ g \in AnyGate /\ h \in AnyGate
  <2>1. f \in AnyGate
    BY GateTyped DEF Halting, Layers, Asides
  <2>2. g \in AnyGate
    <3> DEFINE many == Cardinality(volumes) > 1
    <3>1. many \in BOOLEAN
      OBVIOUS
    <3> HIDE DEF many
    <3>2. Gate(many, "L2", "LOW_QUALITY", "nothing") \in AnyGate
      BY <3>1, GateTyped DEF Halting, Layers, Asides
    <3> QED BY <3>2 DEF many
  <2>3. h \in AnyGate
    BY GateTyped DEF Halting, Layers, Asides
  <2> QED BY <2>1, <2>2, <2>3
<1>2. /\ ~f.fails => volumes # {}
      /\ ~g.fails => Narrowed(rule, volumes) = volumes
      /\ ~h.fails => \A p \in volumes : p.table # Unparsed
  BY DEF Gate, Narrowed
<1>3. MultiFieldGates(volumes) = <<f, g, h>>
  BY DEF MultiFieldGates
<1> HIDE DEF f, g, h
<1>4. Pass(<<f, g, h>>) => ~f.fails /\ ~g.fails /\ ~h.fails
  <2>1. DOMAIN <<f, g, h>> = {1, 2, 3} /\ <<f, g, h>>[1] = f /\ <<f, g, h>>[2] = g /\ <<f, g, h>>[3] = h
    OBVIOUS
  <2> QED BY <2>1 DEF Pass
<1>5. <<f, g, h>> \in Seq(AnyGate)
  BY <1>1
<1> QED BY <1>2, <1>3, <1>4, <1>5 DEF Compares, Readable

LEMMA StageTyped ==
  ASSUME NEW rule, NEW volumes
  PROVE  /\ StageGates(rule, volumes) \in Seq(AnyGate)
         /\ Pass(StageGates(rule, volumes)) => Compares(rule, volumes)
<1> DEFINE a == ElementTableGates(rule, volumes)
           b == MultiFieldGates(volumes)
           c == ReadingGates(rule, volumes)
<1>1. CASE rule.kind = "element_table"
  <2>1. StageGates(rule, volumes) = a /\ rule.kind \in Tabular
    BY <1>1 DEF StageGates, Tabular
  <2> QED BY <2>1, TableTyped
<1>2. CASE rule.kind = "multi_field"
  <2>1. StageGates(rule, volumes) = b /\ rule.kind \in Tabular
    BY <1>2 DEF StageGates, Tabular
  <2> QED BY <2>1, FieldsTyped
<1>3. CASE rule.kind \notin {"element_table", "multi_field"}
  <2>1. StageGates(rule, volumes) = c /\ rule.kind \notin Tabular
    BY <1>3 DEF StageGates, Tabular
  <2> QED BY <2>1, ReadingTyped
<1> QED BY <1>1, <1>2, <1>3

LEMMA PairedTyped ==
  ASSUME NEW rule, rule.required \in Seq(DocStage), NEW volumes
  PROVE  /\ PairedGates(rule, volumes) \in Seq(Seq(AnyGate))
         /\ Passed(PairedGates(rule, volumes)) =>
              /\ Compares(rule, volumes["PD"]) /\ Compares(rule, volumes["RD"])
              /\ ~OneFile(Narrowed(rule, volumes["PD"]), Narrowed(rule, volumes["RD"]))
<1> DEFINE stage == rule.required
           pd == Narrowed(rule, volumes["PD"])
           rd == Narrowed(rule, volumes["RD"])
           stages == [i \in DOMAIN stage |-> StageGates(rule, volumes[stage[i]])]
           g == Gate(OneFile(pd, rd), "L5", "NOT_COMPARABLE", "nothing")
           h == Gate(~({"PD", "RD"} \subseteq Required(rule)), "L5", "NOT_COMPARABLE", "nothing")
<1>1. g \in AnyGate /\ h \in AnyGate
  BY GateTyped DEF Halting, Layers, Asides, OneFile
<1>2. (~g.fails => ~OneFile(pd, rd)) /\ (~h.fails => {"PD", "RD"} \subseteq Required(rule))
  BY DEF Gate
<1>3. PairGates(rule, pd, rd) = <<g, h>>
  BY DEF PairGates
<1> HIDE DEF g, h
<1>4. /\ <<PairGates(rule, pd, rd)>> \in Seq(Seq(AnyGate))
      /\ Passed(<<PairGates(rule, pd, rd)>>) => ~g.fails /\ ~h.fails
  <2>1. <<g, h>> \in Seq(AnyGate)
    BY <1>1
  <2>2. Pass(<<g, h>>) => ~g.fails /\ ~h.fails
    <3>1. DOMAIN <<g, h>> = {1, 2} /\ <<g, h>>[1] = g /\ <<g, h>>[2] = h
      OBVIOUS
    <3> QED BY <3>1 DEF Pass
  <2> DEFINE list == <<g, h>>
  <2> HIDE DEF list
  <2>3. <<list>> \in Seq(Seq(AnyGate)) /\ (Passed(<<list>>) => Pass(list))
    BY <2>1 DEF Passed, list
  <2> QED BY <1>3, <2>2, <2>3 DEF list
<1>5. stages \in Seq(Seq(AnyGate))
  <2>1. DOMAIN stage = 1..Len(stage) /\ Len(stage) \in Nat
    OBVIOUS
  <2> HIDE DEF stage
  <2> QED BY <2>1, StageTyped
<1>6. PairedGates(rule, volumes) = stages \o <<PairGates(rule, pd, rd)>>
  BY DEF PairedGates
<1>7. Passed(stages) => \A s \in Required(rule) : Compares(rule, volumes[s])
  <2>1. Passed(stages) => \A i \in DOMAIN stage : Pass(StageGates(rule, volumes[stage[i]]))
    BY DEF Passed
  <2> QED BY <2>1, StageTyped DEF Required
<1> DEFINE pair == <<PairGates(rule, pd, rd)>>
<1> HIDE DEF stages, pair
<1>8. stages \o pair \in Seq(Seq(AnyGate)) /\ (Passed(stages \o pair) => Passed(stages) /\ Passed(pair))
  BY <1>4, <1>5, BothPassed DEF pair
<1> QED BY <1>2, <1>4, <1>6, <1>7, <1>8 DEF pair

-----------------------------------------------------------------------------
(* What an accusation compares.                                            *)

Differs(c) == c.status = "CANDIDATE" => c.expected # c.actual

LEMMA QuantizeTyped ==
  ASSUME NEW v \in Int, NEW rounding
  PROVE  Quantize(v, rounding) \in Int
<1>1. \A w \in Int : w \div 10 \in Int
  OBVIOUS
<1>2. \A w \in Int : Floor(w) \in Int /\ HalfUp(w) \in Int
  BY <1>1 DEF Floor, HalfUp
<1>3. /\ v \in Int /\ Floor(v) \in Int /\ -Floor(-v) \in Int /\ Floor(v) + 10 \in Int /\ HalfUp(v) \in Int
  BY <1>2
<1> DEFINE even == v % 10 = 5 /\ (v \div 10) % 2 = 0
           odd == v % 10 = 5 /\ (v \div 10) % 2 = 1
<1>4. Quantize(v, rounding) =
        CASE rounding = "none" -> v
          [] rounding = "floor" -> Floor(v)
          [] rounding = "ceil" -> -Floor(-v)
          [] rounding = "half_even" /\ even -> Floor(v)
          [] rounding = "half_even" /\ odd -> Floor(v) + 10
          [] OTHER -> HalfUp(v)
  BY DEF Quantize
<1>5. even \in BOOLEAN /\ odd \in BOOLEAN /\ ~(even /\ odd)
  OBVIOUS
<1> HIDE DEF even, odd
<1> QED BY <1>3, <1>4, <1>5

LEMMA DeltaDiffers ==
  ASSUME NEW e \in Int, NEW a \in Int, NEW rule, {rule.abs, rule.rel} \subseteq Nat \cup {NoBound}
  PROVE  Differs(CompareDelta(e, a, rule))
<1> DEFINE left == Quantize(e, rule.rounding)
           right == Quantize(a, rule.rounding)
           distance == Abs(right - left)
           scale == Larger(Abs(left), Abs(right))
           within == \/ rule.abs # NoBound /\ distance <= rule.abs
                     \/ rule.rel # NoBound /\ 100 * distance <= rule.rel * scale
                     \/ rule.abs = NoBound /\ rule.rel = NoBound /\ left = right
<1>1. left \in Int /\ right \in Int
  BY QuantizeTyped
<1>2. CompareDelta(e, a, rule) = Compared(within, left, right)
  BY DEF CompareDelta
<1> HIDE DEF left, right
<1>3. ASSUME left = right PROVE within
  <2>1. distance = 0
    BY <1>1, <1>3 DEF Abs
  <2>2. scale \in Nat
    BY <1>1 DEF Larger, Abs
  <2> HIDE DEF distance, scale
  <2>3. rule.rel \in Nat => 0 <= rule.rel * scale
    BY <2>2
  <2> QED BY <1>3, <2>1, <2>3
<1> HIDE DEF within
<1> QED BY <1>2, <1>3 DEF Compared, Differs

LEMMA OppositeDiffers ==
  ASSUME NEW c, NEW rule, c \in [status : {"CANDIDATE", "AUTO_NO_DIFFERENCE"}, expected : {c.expected}, actual : {c.actual}],
         Differs(c)
  PROVE  Differs(OppositeOfTrigger(c, rule))
BY DEF OppositeOfTrigger, Differs

LEMMA OrderingDiffers ==
  ASSUME NEW e \in Int, NEW a \in Int, NEW rule, rule.value \in Int \cup {NoBound},
         rule.operator \in {"eq", "le", "ge"}
  PROVE  Differs(CompareOrdering(e, a, rule))
<1> DEFINE ref == IF rule.value # NoBound THEN rule.value ELSE e
           ok == CASE rule.operator = "eq" -> a = ref
                   [] rule.operator = "ne" -> a # ref
                   [] rule.operator = "lt" -> a < ref
                   [] rule.operator = "le" -> a <= ref
                   [] rule.operator = "gt" -> a > ref
                   [] rule.operator = "ge" -> a >= ref
<1>1. CompareOrdering(e, a, rule) = Compared(ok, ref, a)
  BY DEF CompareOrdering
<1>2. ref \in Int
  OBVIOUS
<1> HIDE DEF ref
<1>3. ASSUME a = ref PROVE ok
  <2>1. CASE rule.operator = "eq"
    BY <1>3, <2>1
  <2>2. CASE rule.operator = "le"
    BY <1>2, <1>3, <2>2
  <2>3. CASE rule.operator = "ge"
    BY <1>2, <1>3, <2>3
  <2> QED BY <2>1, <2>2, <2>3
<1> HIDE DEF ok
<1> QED BY <1>1, <1>3 DEF Compared, Differs

LEMMA MembershipDiffers ==
  ASSUME NEW a, NEW rule
  PROVE  Differs(CompareSetMembership(a, rule))
<1> DEFINE member == a \in rule.allowed
           inside == rule.operator = "in_set"
           e == IF inside THEN 1 ELSE 0
           v == IF member THEN 1 ELSE 0
<1>1. CompareSetMembership(a, rule) = Compared(member = inside, e, v)
  BY DEF CompareSetMembership
<1>2. member \in BOOLEAN /\ inside \in BOOLEAN
  OBVIOUS
<1>3. ASSUME e = v PROVE member = inside
  <2> HIDE DEF member, inside
  <2> QED BY <1>2, <1>3
<1> HIDE DEF member, inside, e, v
<1> QED BY <1>1, <1>3 DEF Compared, Differs

LEMMA ClassDiffers ==
  ASSUME NEW e, NEW a, NEW rule, DOMAIN rule.ladder \subseteq Nat
  PROVE  Differs(CompareClassNotLower(e, a, rule))
<1> DEFINE expRank == ClassRank(e, rule.ladder)
           actRank == ClassRank(a, rule.ladder)
<1>1. CASE OnLadder(e, rule.ladder) /\ OnLadder(a, rule.ladder)
  <2>1. expRank \in Nat /\ actRank \in Nat
    BY <1>1 DEF OnLadder, ClassRank
  <2>2. CompareClassNotLower(e, a, rule) = Compared(actRank >= expRank, expRank, actRank)
    BY <1>1 DEF CompareClassNotLower
  <2> HIDE DEF expRank, actRank
  <2>3. expRank = actRank => actRank >= expRank
    BY <2>1
  <2> QED BY <2>2, <2>3 DEF Compared, Differs
<1>2. CASE ~(OnLadder(e, rule.ladder) /\ OnLadder(a, rule.ladder))
  <2>1. CompareClassNotLower(e, a, rule) = Raised
    BY <1>2 DEF CompareClassNotLower
  <2> QED BY <2>1 DEF Raised, Differs
<1> QED BY <1>1, <1>2

\* Operators that accuse of a difference.
Equal(rule) == rule.operator \notin {"ne", "lt", "gt", "range"}

LEMMA ValuesDiffer ==
  ASSUME NEW e \in Int, NEW a \in Int, NEW rule, TypedRule(rule),
         rule.operator \in ValidOperators(rule.kind), Equal(rule)
  PROVE  Differs(CompareValues(e, a, rule))
<1>1. rule.operator \in {"delta", "eq", "le", "ge", "class_not_lower", "in_set", "not_in_set", "present"}
  <2>1. ValidOperators(rule.kind) \subseteq NumericOperators \cup ExactFieldOperators \cup TextOperators
    <3>1. CASE rule.kind = "exact_field"
      BY <3>1 DEF ValidOperators
    <3>2. CASE rule.kind # "exact_field" /\ rule.kind \in TextKinds
      BY <3>2 DEF ValidOperators
    <3>3. CASE rule.kind # "exact_field" /\ rule.kind \notin TextKinds
      BY <3>3 DEF ValidOperators
    <3> QED BY <3>1, <3>2, <3>3
  <2> QED BY <2>1 DEF Equal, NumericOperators, ExactFieldOperators, TextOperators
<1>2. CASE rule.operator = "delta"
  <2>1. CompareValues(e, a, rule) = OppositeOfTrigger(CompareDelta(e, a, rule), rule)
    BY <1>2 DEF CompareValues
  <2> DEFINE c == CompareDelta(e, a, rule)
  <2>2. Differs(c)
    BY DeltaDiffers DEF TypedRule
  <2>3. c \in [status : {"CANDIDATE", "AUTO_NO_DIFFERENCE"}, expected : {c.expected}, actual : {c.actual}]
    BY DEF CompareDelta, Compared
  <2> HIDE DEF c
  <2>4. Differs(OppositeOfTrigger(c, rule))
    BY <2>2, <2>3, OppositeDiffers
  <2> QED BY <2>1, <2>4 DEF c
<1>3. CASE rule.operator = "eq" /\ rule.kind = "exact_field"
  <2>1. CompareValues(e, a, rule) = Compared((e = a) = TRUE, e, a)
    BY <1>3 DEF CompareValues, CompareExactField
  <2> QED BY <2>1 DEF Compared, Differs
<1>4. CASE rule.operator \in {"eq", "le", "ge"} /\ rule.kind # "exact_field"
  <2>1. CompareValues(e, a, rule) = CompareOrdering(e, a, rule)
    BY <1>4 DEF CompareValues
  <2> QED BY <1>4, <2>1, OrderingDiffers DEF TypedRule
<1>5. CASE rule.operator \in {"in_set", "not_in_set"}
  <2>1. CompareValues(e, a, rule) = CompareSetMembership(a, rule)
    BY <1>5 DEF CompareValues
  <2> QED BY <2>1, MembershipDiffers
<1>6. CASE rule.operator = "class_not_lower"
  <2>1. CompareValues(e, a, rule) = CompareClassNotLower(e, a, rule)
    BY <1>6 DEF CompareValues
  <2> QED BY <2>1, ClassDiffers DEF TypedRule
<1>7. CASE rule.operator = "present"
  <2>1. CompareValues(e, a, rule) = ComparePresence
    BY <1>7 DEF CompareValues
  <2> QED BY <2>1 DEF ComparePresence, Compared, Differs
<1>8. ~(rule.operator \in {"le", "ge"} /\ rule.kind = "exact_field")
  BY DEF ValidOperators, ExactFieldOperators
<1> QED BY <1>1, <1>2, <1>3, <1>4, <1>5, <1>6, <1>7, <1>8

LEMMA TablesDiffer ==
  ASSUME NEW left, NEW right, NEW rule, TypedRule(rule),
         rule.operator \in ValidOperators(rule.kind), Equal(rule), Aligned(left, right),
         DOMAIN left \subseteq Nat,
         \A line \in DOMAIN left : left[line] \in Int /\ right[line] \in Int
  PROVE  Differs(AlignTables(left, right, rule))
<1> DEFINE lines == DOMAIN left
           differing == {m \in lines : CompareValues(left[m], right[m], rule).status = "CANDIDATE"}
           some == IF differing # {} THEN differing ELSE lines
           line == DecidingLine(left, right, rule)
<1>1. some # {} /\ some \subseteq lines
  BY DEF Aligned
<1>2. line = CHOOSE m \in some : \A n \in some : m <= n
  BY DEF DecidingLine
<1> HIDE DEF some, line
<1>3. \E m \in some : \A n \in some : m <= n
  BY <1>1, LeastNumber
<1>4. line \in lines
  BY <1>1, <1>2, <1>3
<1>5. AlignTables(left, right, rule) = CompareValues(left[line], right[line], rule)
  BY DEF AlignTables, line
<1> QED BY <1>4, <1>5, ValuesDiffer

-----------------------------------------------------------------------------
(* The cards of a rule that judge a value.                                 *)

OnValue(c) == c.status \in Verdicts /\ c.room = NoRoom
NoneOnValue(cards) == \A c \in cards : ~OnValue(c)

LEMMA HaltedNot ==
  ASSUME NEW rule, NEW layer, NEW status \in Halting
  PROVE  NoneOnValue({HaltedCard(rule, layer, status)})
BY DEF HaltedCard, Card, Halting, Verdicts, OnValue, NoneOnValue

LEMMA RoomsNot ==
  ASSUME NEW rule, NEW pd, NEW rd, NEW diffs, GoodDiffs(diffs)
  PROVE  NoneOnValue(RoomRule(rule, pd, rd, diffs)) /\ NoneOnValue(RoomPass(rule, pd, rd, diffs))
<1> DEFINE all == {RoomEvaluation(rule, d) : d \in diffs}
           some == {RoomEvaluation(rule, d) : d \in {e \in diffs : e.kind \in {"candidate", "suspicion"}}}
           none == rule.rooms = NoRooms
           less == {} \in {pd, rd}
           a == {HaltedCard(rule, "L6", "CLARIFICATION_REQUIRED")}
           b == {HaltedCard(rule, "L4", "CLARIFICATION_REQUIRED")}
           e == {HaltedCard(rule, "L2", "LOW_QUALITY")}
<1>1. ASSUME NEW d \in diffs PROVE ~OnValue(RoomEvaluation(rule, d))
  <2>1. CASE d.kind = "abstain" \/ NoSpot \in {d.pd, d.rd}
    <3>1. RoomEvaluation(rule, d) = HaltedCard(rule, "L5", "ABSTAIN")
      BY <2>1 DEF RoomEvaluation
    <3> QED BY <3>1, HaltedNot DEF Halting, NoneOnValue
  <2>2. CASE ~(d.kind = "abstain" \/ NoSpot \in {d.pd, d.rd})
    <3>1. RoomEvaluation(rule, d).room = d.room
      BY <2>2 DEF RoomEvaluation, Card
    <3>2. d.room # NoRoom
      BY <2>2 DEF GoodDiffs
    <3> QED BY <3>1, <3>2 DEF OnValue
  <2> QED BY <2>1, <2>2
<1>2. NoneOnValue(all) /\ NoneOnValue(some) /\ NoneOnValue({})
  BY <1>1 DEF NoneOnValue
<1>3. NoneOnValue(a) /\ NoneOnValue(b) /\ NoneOnValue(e)
  BY HaltedNot DEF Halting
<1>4. RoomPass(rule, pd, rd, diffs) \in {{}, some}
  BY DEF RoomPass
<1>5. RoomRule(rule, pd, rd, diffs) \in {a, b, e, all}
  <2>1. RoomRule(rule, pd, rd, diffs) =
          CASE none -> a [] ~none /\ less -> b [] OTHER -> IF diffs = {} THEN e ELSE all
    BY DEF RoomRule
  <2>2. none \in BOOLEAN /\ less \in BOOLEAN
    OBVIOUS
  <2> HIDE DEF none, less, a, b, e, all
  <2> QED BY <2>1, <2>2
<1> HIDE DEF a, b, e, all, some
<1> QED BY <1>2, <1>3, <1>4, <1>5

LEMMA AlsoNot ==
  ASSUME NEW rule, NEW what, NEW pd, NEW rd, NEW diffs, GoodDiffs(diffs)
  PROVE  NoneOnValue(Also(rule, what, pd, rd, diffs))
<1> DEFINE pass == RoomPass(rule, pd, rd, diffs)
           volumes == IF Disagreeing(rule, Narrowed(rule, pd)) THEN Narrowed(rule, pd) ELSE Narrowed(rule, rd)
           reads == DualReadSuspicion(rule, volumes)
<1>1. NoneOnValue(pass) /\ NoneOnValue({})
  BY RoomsNot DEF NoneOnValue
<1>2. NoneOnValue(reads)
  BY DEF DualReadSuspicion, Card, NoneOnValue, OnValue, Verdicts
<1>3. Also(rule, what, pd, rd, diffs) =
        CASE what = "rooms" -> pass [] what = "reads" -> reads [] OTHER -> {}
  BY DEF Also
<1> HIDE DEF pass, reads
<1> QED BY <1>1, <1>2, <1>3

\* The pages a run gives to a rule: what is read on them are numbers.
TypedTable(table) ==
  table # Unparsed => DOMAIN table \subseteq Nat /\ \A line \in DOMAIN table : table[line] \in Int
TypedPage(rule, p) == Measured(Reading(rule, p)) /\ TypedTable(p.table)
Accuses(rule, c) ==
  c.status = "CANDIDATE" => /\ rule.coverage \notin NonCandidateCoverage
                            /\ Equal(rule) => c.expected # c.actual
Grounds(rule, c, p, r) ==
  /\ c.rule = rule.code /\ c.pd = p.doc.file /\ c.rd = r.doc.file
  /\ p.doc.file # r.doc.file
  /\ Readable(rule, p) /\ Readable(rule, r)
  /\ Accuses(rule, c)

LEMMA FindingAccuses ==
  ASSUME NEW rule, NEW c, Equal(rule) => Differs(c), NEW f, NEW g,
         NEW card, card = FindingFromComparison(rule, c, f, g)
  PROVE  card.rule = rule.code /\ card.pd = f /\ card.rd = g /\ Accuses(rule, card)
<1>1. /\ card.rule = rule.code /\ card.pd = f /\ card.rd = g
      /\ card.status = DowngradeForCoverage(rule, c.status)
      /\ card.expected = c.expected /\ card.actual = c.actual
  BY DEF FindingFromComparison, Card
<1>2. card.status = "CANDIDATE" => c.status = "CANDIDATE" /\ rule.coverage \notin NonCandidateCoverage
  BY <1>1 DEF DowngradeForCoverage
<1> QED BY <1>1, <1>2 DEF Accuses, Differs

LEMMA PairGrounded ==
  ASSUME NEW rule, TypedRule(rule), rule.operator \in ValidOperators(rule.kind),
         NEW pd, NEW rd, pd # {}, rd # {}, ~OneFile(pd, rd),
         \A p \in pd \cup rd : Readable(rule, p) /\ TypedPage(rule, p),
         OnValue(ComparedPair(rule, pd, rd))
  PROVE  \E p \in pd : \E r \in rd : Grounds(rule, ComparedPair(rule, pd, rd), p, r)
<1> DEFINE p == CHOOSE x \in pd : TRUE
           r == CHOOSE x \in rd : TRUE
           card == ComparedPair(rule, pd, rd)
<1>1. p \in pd /\ r \in rd
  OBVIOUS
<1>2. card = IF rule.kind \in Tabular THEN ComparedTables(rule, p, r)
             ELSE FindingFromComparison(rule, CompareValues(Reading(rule, p).value, Reading(rule, r).value, rule),
                                        p.doc.file, r.doc.file)
  BY DEF ComparedPair, Tabular
<1> HIDE DEF p, r
<1>3. p.doc.file # r.doc.file
  BY <1>1 DEF OneFile
<1>4. Readable(rule, p) /\ Readable(rule, r) /\ TypedPage(rule, p) /\ TypedPage(rule, r)
  BY <1>1
<1>5. CASE rule.kind \in Tabular
  <2>1. card = ComparedTables(rule, p, r)
    BY <1>2, <1>5
  <2>2. CASE Aligned(p.table, r.table)
    <3> DEFINE c == AlignTables(p.table, r.table, rule)
    <3>1. card = FindingFromComparison(rule, c, p.doc.file, r.doc.file)
      BY <2>1, <2>2 DEF ComparedTables
    <3>2. Equal(rule) => Differs(c)
      <4>1. DOMAIN p.table \subseteq Nat /\ DOMAIN r.table = DOMAIN p.table
        BY <1>4, <1>5, <2>2 DEF Readable, TypedPage, TypedTable, Aligned
      <4>2. \A line \in DOMAIN p.table : p.table[line] \in Int /\ r.table[line] \in Int
        BY <1>4, <1>5, <4>1 DEF Readable, TypedPage, TypedTable
      <4> QED BY <2>2, <4>1, <4>2, TablesDiffer
    <3> HIDE DEF c, card
    <3> QED BY <1>1, <1>3, <1>4, <3>1, <3>2, FindingAccuses DEF Grounds, card
  <2>3. CASE ~Aligned(p.table, r.table)
    <3>1. card = HaltedCard(rule, "L2", "LOW_QUALITY")
      BY <2>1, <2>3 DEF ComparedTables
    <3> QED BY <3>1, HaltedNot DEF Halting, NoneOnValue
  <2> QED BY <2>2, <2>3
<1>6. CASE rule.kind \notin Tabular
  <2> DEFINE c == CompareValues(Reading(rule, p).value, Reading(rule, r).value, rule)
  <2>1. card = FindingFromComparison(rule, c, p.doc.file, r.doc.file)
    BY <1>2, <1>6
  <2>2. Equal(rule) => Differs(c)
    <3>1. Reading(rule, p).value \in Int /\ Reading(rule, r).value \in Int
      BY <1>4, <1>6 DEF Readable, TypedPage, Measured
    <3> QED BY <3>1, ValuesDiffer
  <2> HIDE DEF c, card
  <2> QED BY <1>1, <1>3, <1>4, <2>1, <2>2, FindingAccuses DEF Grounds, card
<1> QED BY <1>5, <1>6

LEMMA RuleGrounded ==
  ASSUME NEW rule, TypedRule(rule), NEW pages, GoodPages(pages),
         \A p \in pages : TypedPage(rule, p), NEW present, NEW pool, NEW sel,
         NEW c \in EvaluateRule(rule, pages, present, pool, sel), OnValue(c)
  PROVE  \E p \in Volumes(pages, "PD") : \E r \in Volumes(pages, "RD") : Grounds(rule, c, p, r)
<1> DEFINE volumes == [s \in DocStage |-> BoundVolumes(rule, pages, s)]
           common == Failed(CommonGates(rule, pages, present, pool, sel))
           pd == volumes["PD"]
           rd == volumes["RD"]
           diffs == RoomsOf(rule, pd, rd)
           gates == Failed(PairedGates(rule, volumes))
           halted == {HaltedCard(rule, common[1].layer, common[1].status)}
           rooms == RoomRule(rule, pd, rd, diffs)
           read == ReadCards(rule, pd, rd, diffs, gates)
<1>1. pd \subseteq Volumes(pages, "PD") /\ rd \subseteq Volumes(pages, "RD")
  <2>1. \A s : BoundVolumes(rule, pages, s) \subseteq Volumes(pages, s)
    BY DEF BoundVolumes, Matching
  <2>2. pd = BoundVolumes(rule, pages, "PD") /\ rd = BoundVolumes(rule, pages, "RD")
    BY DEF DocStage
  <2> QED BY <2>1, <2>2
<1>2. EvaluateRule(rule, pages, present, pool, sel) = RuleCards(rule, volumes, diffs, common)
  BY DEF EvaluateRule, OverVolumes
<1>3. Volumes(pages, "PD") \subseteq pages /\ Volumes(pages, "RD") \subseteq pages
  BY DEF Volumes
<1> HIDE DEF volumes
<1>4. GoodDiffs(diffs)
  <2>1. GoodPages(pd) /\ GoodPages(rd)
    BY <1>1, <1>3 DEF GoodPages
  <2> QED BY <2>1, RoomsOfOnce
<1>5. /\ common # <<>> => RuleCards(rule, volumes, diffs, common) = halted
      /\ common = <<>> /\ rule.kind = "room_compare" => RuleCards(rule, volumes, diffs, common) = rooms
      /\ common = <<>> /\ rule.kind # "room_compare" => RuleCards(rule, volumes, diffs, common) = read
  <2> DEFINE stopped == common # <<>>
             ofRooms == rule.kind = "room_compare"
  <2>1. RuleCards(rule, volumes, diffs, common) =
          CASE stopped -> halted [] ~stopped /\ ofRooms -> rooms [] OTHER -> read
    BY DEF RuleCards
  <2>2. stopped \in BOOLEAN /\ ofRooms \in BOOLEAN
    OBVIOUS
  <2> HIDE DEF halted, rooms, read, stopped, ofRooms
  <2>3. /\ stopped => RuleCards(rule, volumes, diffs, common) = halted
        /\ ~stopped /\ ofRooms => RuleCards(rule, volumes, diffs, common) = rooms
        /\ ~stopped /\ ~ofRooms => RuleCards(rule, volumes, diffs, common) = read
    BY <2>1, <2>2
  <2> QED BY <2>3 DEF stopped, ofRooms
<1>6. /\ common # <<>> => common[1] \in AnyGate
      /\ common = <<>> => Pass(ShapeGates(rule))
  BY CommonTyped, FirstFailing DEF TypedRule
<1> HIDE DEF common, diffs
<1>7. CASE common # <<>>
  <2>1. common[1].status \in Halting
    BY <1>6, <1>7 DEF AnyGate
  <2>2. NoneOnValue(halted)
    BY <2>1, HaltedNot
  <2> HIDE DEF halted
  <2> QED BY <1>2, <1>5, <1>7, <2>2 DEF NoneOnValue
<1>8. CASE common = <<>> /\ rule.kind = "room_compare"
  <2>1. NoneOnValue(rooms)
    BY <1>4, RoomsNot
  <2> HIDE DEF rooms
  <2> QED BY <1>2, <1>5, <1>8, <2>1 DEF NoneOnValue
<1>9. CASE common = <<>> /\ rule.kind # "room_compare"
  <2>1. c \in read
    BY <1>2, <1>5, <1>9
  <2>2. rule.operator \in ValidOperators(rule.kind)
    BY <1>6, <1>9, ShapeTyped
  <2>3. /\ gates # <<>> => gates[1] \in AnyGate
        /\ gates = <<>> => /\ Compares(rule, pd) /\ Compares(rule, rd)
                           /\ ~OneFile(Narrowed(rule, pd), Narrowed(rule, rd))
    BY PairedTyped, FirstFailing DEF TypedRule
  <2> HIDE DEF gates
  <2>4. CASE gates # <<>>
    <3> DEFINE first == {HaltedCard(rule, gates[1].layer, gates[1].status)}
               also == Also(rule, gates[1].also, pd, rd, diffs)
    <3>1. read = first \cup also
      BY <2>4 DEF ReadCards
    <3>2. gates[1].status \in Halting
      BY <2>3, <2>4 DEF AnyGate
    <3>3. NoneOnValue(first) /\ NoneOnValue(also)
      BY <1>4, <3>2, HaltedNot, AlsoNot
    <3> HIDE DEF first, also, read
    <3> QED BY <2>1, <3>1, <3>3 DEF NoneOnValue
  <2>5. CASE gates = <<>>
    <3> DEFINE card == ComparedPair(rule, Narrowed(rule, pd), Narrowed(rule, rd))
               pass == RoomPass(rule, pd, rd, diffs)
    <3>1. read \subseteq {card} \cup pass
      BY <2>5 DEF ReadCards
    <3>2. NoneOnValue(pass)
      BY <1>4, RoomsNot
    <3> HIDE DEF pass, read
    <3>3. c = card
      BY <2>1, <3>1, <3>2 DEF NoneOnValue
    <3>4. /\ Narrowed(rule, pd) # {} /\ Narrowed(rule, rd) # {}
          /\ Narrowed(rule, pd) \subseteq pd /\ Narrowed(rule, rd) \subseteq rd
          /\ \A p \in Narrowed(rule, pd) \cup Narrowed(rule, rd) : Readable(rule, p)
          /\ ~OneFile(Narrowed(rule, pd), Narrowed(rule, rd))
      BY <2>3, <2>5 DEF Compares
    <3>5. \A p \in Narrowed(rule, pd) \cup Narrowed(rule, rd) : Readable(rule, p) /\ TypedPage(rule, p)
      BY <1>1, <1>3, <3>4
    <3> HIDE DEF card, pd, rd
    <3>6. \E p \in Narrowed(rule, pd) : \E r \in Narrowed(rule, rd) : Grounds(rule, card, p, r)
      BY <2>2, <3>3, <3>4, <3>5, PairGrounded DEF card
    <3> QED BY <1>1, <3>3, <3>4, <3>6
  <2> QED BY <2>4, <2>5
<1> QED BY <1>7, <1>8, <1>9

LEMMA FreeSearchNot ==
  ASSUME NEW rule, NEW pages
  PROVE  NoneOnValue(EvaluateFreeSearch(rule, pages))
<1> DEFINE pd == Volumes(pages, "PD")
           rd == Volumes(pages, "RD")
           kept == OverRooms(rule, pd, rd)
           extras == ProvisionEvaluations(rule, pd, rd)
<1>1. \A c \in kept : c.status = "SUSPICION"
  <2>1. \A cards : \A c \in Suspected(cards) : c.status = "SUSPICION"
    <3> SUFFICES ASSUME NEW cards, NEW c \in Suspected(cards) PROVE c.status = "SUSPICION"
      OBVIOUS
    <3>1. PICK d \in cards : c = [d EXCEPT !.status = "SUSPICION"]
      BY DEF Suspected
    <3> QED BY <3>1
  <2> QED BY <2>1 DEF OverRooms
<1>2. \A c \in extras : c.status = "SUSPICION"
  <2>1. \A hit : ProvisionEvaluation(rule, hit).status = "SUSPICION"
    BY DEF ProvisionEvaluation, Card
  <2>2. \A c \in extras : \E hit : c = ProvisionEvaluation(rule, hit)
    BY DEF ProvisionEvaluations
  <2> QED BY <2>1, <2>2
<1>3. \A c \in EvaluateFreeSearch(rule, pages) : c \in kept \cup extras
  BY DEF EvaluateFreeSearch, AndProvisions
<1> HIDE DEF kept, extras
<1> QED BY <1>1, <1>2, <1>3 DEF NoneOnValue, OnValue, Verdicts

-----------------------------------------------------------------------------
(* The pages of a run and its verdicts.                                    *)

\* The readings are those of the files.
Known == readings = [f \in File |-> Readings(f)]

LEMMA ReadingKnown ==
  ASSUME Known, NEW f \in File, NEW rule \in Matrix
  PROVE  /\ rule.code \in DOMAIN readings[f]
         /\ Measured(readings[f][rule.code])
         /\ {"kind", "value", "second", "crops"} \subseteq DOMAIN readings[f][rule.code]
<1> DEFINE codes == {q.code : q \in Matrix}
           of == ReadingOf(rule, Says[f], Rows[f], Crops[f])
           given == Says[f].reading
           hit == ExtractNumber(Rows[f], rule)
           crops == UNION {CropNumber(crop, rule) : crop \in Crops[f]}
<1>1. readings[f] = [code \in codes |->
                       ReadingOf(CHOOSE q \in Matrix : q.code = code, Says[f], Rows[f], Crops[f])]
  BY DEF Known, Readings
<1>2. (CHOOSE q \in Matrix : q.code = rule.code) = rule
  BY PackageAssumption
<1>3. rule.code \in codes
  OBVIOUS
<1>4. rule.code \in DOMAIN readings[f] /\ readings[f][rule.code] = of
  BY <1>1, <1>2, <1>3
<1>5. {"kind", "value", "second", "crops"} \subseteq DOMAIN given /\ Measured(given)
  BY PackageAssumption DEF TypedSpeech
<1>6. rule.kind = "number" => Measured(hit)
  <2>1. TypedRow(Rows[f])
    BY PackageAssumption
  <2> QED BY <2>1, ExtractedTyped
<1> HIDE DEF given, hit, crops
<1>7. of = IF rule.kind # "number" THEN given ELSE NumberRead(given, hit, crops)
  BY DEF ReadingOf, given, hit, crops
<1> HIDE DEF of
<1>8. /\ DOMAIN NumberRead(given, hit, crops) = DOMAIN given
      /\ NumberRead(given, hit, crops).kind = hit.kind
      /\ NumberRead(given, hit, crops).value = hit.value
      /\ NumberRead(given, hit, crops).second = hit.second
  BY <1>5 DEF NumberRead
<1>9. Measured(of) /\ {"kind", "value", "second", "crops"} \subseteq DOMAIN of
  <2>1. CASE rule.kind # "number"
    BY <1>5, <1>7, <2>1
  <2>2. CASE rule.kind = "number"
    BY <1>5, <1>6, <1>7, <1>8, <2>2 DEF Measured
  <2> QED BY <2>1, <2>2
<1> QED BY <1>4, <1>9

HeadsOf(pool, sel) == UNION {StageHeads(pool, s, sel) : s \in DocStage}

\* What is readable on a page of a run was read in its file, and not blindly.
LEMMA PagesRead ==
  ASSUME Known, NEW pool, Pooled(pool), NEW sel, NEW run, NEW p \in Pages(pool, sel, run),
         NEW rule \in Matrix
  PROVE  /\ TypedPage(rule, p)
         /\ p.doc \in HeadsOf(pool, sel)
         /\ Readable(rule, p) =>
              /\ p.doc.file \notin run.blind
              /\ rule.kind \notin Tabular => /\ ReadBy(rule.code, p.doc.file).kind = "hit"
                                             /\ ReadBy(rule.code, p.doc.file).value = ReadBy(rule.code, p.doc.file).second
<1>0. PICK s \in DocStage : \E d \in StageHeads(pool, s, sel) : p = HeadPage(d, run.blind)
  BY DEF Pages
<1>1. PICK d \in StageHeads(pool, s, sel) : p = HeadPage(d, run.blind)
  BY <1>0
<1> DEFINE f == d.file
           says == Says[f]
           read == readings[f]
<1>2. f \in File
  BY <1>1, HeadsOfFiles
<1>3. /\ p.doc = d
      /\ f \notin run.blind => p.readings = read /\ p.table = says.table
      /\ f \in run.blind => p.readings = Unseen(read) /\ p.table = Unparsed
  BY <1>1 DEF HeadPage
<1>4. d \in HeadsOf(pool, sel)
  BY <1>1 DEF HeadsOf
<1>5. /\ rule.code \in DOMAIN read /\ Measured(read[rule.code])
      /\ {"kind", "value", "second", "crops"} \subseteq DOMAIN read[rule.code]
  BY <1>2, ReadingKnown
<1>6. says.table # Unparsed =>
        DOMAIN says.table \subseteq Nat /\ \A line \in DOMAIN says.table : says.table[line] \in Int
  BY <1>2, PackageAssumption DEF TypedSpeech
<1> HIDE DEF f, says, read
<1>7. CASE f \notin run.blind
  <2>1. Reading(rule, p) = read[rule.code] /\ p.table = says.table
    BY <1>3, <1>7 DEF Reading
  <2>2. TypedPage(rule, p)
    BY <1>5, <1>6, <2>1 DEF TypedPage, TypedTable
  <2>3. Readable(rule, p) /\ rule.kind \notin Tabular =>
          read[rule.code].kind = "hit" /\ read[rule.code].value = read[rule.code].second
    BY <2>1 DEF Readable
  <2>4. ReadBy(rule.code, p.doc.file) = read[rule.code] /\ p.doc.file = f
    BY <1>3 DEF ReadBy, read, f
  <2> QED BY <1>3, <1>4, <1>7, <2>2, <2>3, <2>4
<1>8. CASE f \in run.blind
  <2>1. p.table = Unparsed /\ Reading(rule, p) = Unseen(read)[rule.code]
    BY <1>3, <1>8 DEF Reading
  <2>2. Unseen(read)[rule.code] =
          [read[rule.code] EXCEPT !.kind = "none", !.value = NoValue, !.second = NoValue, !.crops = {}]
    BY <1>5 DEF Unseen
  <2>3. Reading(rule, p).kind = "none"
    BY <1>5, <2>1, <2>2
  <2>4. TypedPage(rule, p) /\ ~Readable(rule, p)
    BY <2>1, <2>3 DEF TypedPage, TypedTable, Measured, Readable
  <2> QED BY <1>3, <1>4, <2>4
<1> QED BY <1>7, <1>8

\* Two of the heads ground a verdict.
GroundedOn(c, heads, blind) ==
  \E rule \in Matrix, p, r \in heads :
    /\ rule.code = c.rule /\ c.pd = p.file /\ c.rd = r.file
    /\ p.stage = "PD" /\ r.stage = "RD" /\ p.file # r.file
    /\ {p.file, r.file} \cap blind = {}
    /\ rule.kind \notin {"element_table", "multi_field"} =>
         \A f \in {p.file, r.file} :
           LET reading == ReadBy(c.rule, f) IN
           reading.kind = "hit" /\ reading.value = reading.second
    /\ c.status = "CANDIDATE" =>
         /\ rule.coverage \notin NonCandidateCoverage
         /\ rule.operator \notin {"ne", "lt", "gt", "range"} => c.expected # c.actual

LEMMA CardsGrounded ==
  ASSUME Known, NEW files, Links(files), NEW sel, NEW run,
         NEW c \in Cards(files, sel, run), OnValue(c)
  PROVE  GroundedOn(c, HeadsOf(Pool(files, sel, run), sel), run.blind)
<1> DEFINE pool == Pool(files, sel, run)
           pages == Pages(pool, sel, run)
           present == {Passport[f].stage : f \in FilesOf(files)}
           heads == HeadsOf(pool, sel)
<1>1. Pooled(pool)
  BY PoolPooled
<1>2. c \in CardsOf(pages, present, pool, sel)
  BY DEF Cards, OverPool
<1> HIDE DEF pool, present
<1>3. GoodPages(pages)
  BY <1>1, PagesAreGood
<1>4. \A p \in pages : \A rule \in Matrix :
         /\ TypedPage(rule, p) /\ p.doc \in heads
         /\ Readable(rule, p) =>
              /\ p.doc.file \notin run.blind
              /\ rule.kind \notin Tabular => /\ ReadBy(rule.code, p.doc.file).kind = "hit"
                                             /\ ReadBy(rule.code, p.doc.file).value = ReadBy(rule.code, p.doc.file).second
  BY <1>1, PagesRead
<1> HIDE DEF pages, heads
<1>5. PICK rule \in Matrix : c \in EvaluateRule(rule, pages, present, pool, sel)
  <2>1. \A rule \in FreeSearch : c \notin EvaluateFreeSearch(rule, pages)
    BY FreeSearchNot DEF NoneOnValue
  <2> QED BY <1>2, <2>1 DEF CardsOf
<1>6. TypedRule(rule)
  BY PackageAssumption
<1>7. \E p \in Volumes(pages, "PD") : \E r \in Volumes(pages, "RD") : Grounds(rule, c, p, r)
  BY <1>3, <1>4, <1>5, <1>6, RuleGrounded
<1>8. PICK p \in Volumes(pages, "PD") : \E r \in Volumes(pages, "RD") : Grounds(rule, c, p, r)
  BY <1>7
<1>9. PICK r \in Volumes(pages, "RD") : Grounds(rule, c, p, r)
  BY <1>8
<1>10. p \in pages /\ r \in pages /\ p.doc.stage = "PD" /\ r.doc.stage = "RD"
  BY DEF Volumes
<1>11. /\ rule.code = c.rule /\ c.pd = p.doc.file /\ c.rd = r.doc.file /\ p.doc.file # r.doc.file
       /\ Readable(rule, p) /\ Readable(rule, r)
       /\ c.status = "CANDIDATE" =>
            /\ rule.coverage \notin NonCandidateCoverage
            /\ rule.operator \notin {"ne", "lt", "gt", "range"} => c.expected # c.actual
  BY <1>9 DEF Grounds, Accuses, Equal
<1>12. p.doc \in heads /\ r.doc \in heads /\ {p.doc.file, r.doc.file} \cap run.blind = {}
  BY <1>4, <1>10, <1>11
<1>13. rule.kind \notin {"element_table", "multi_field"} =>
         \A f \in {p.doc.file, r.doc.file} :
           ReadBy(c.rule, f).kind = "hit" /\ ReadBy(c.rule, f).value = ReadBy(c.rule, f).second
  BY <1>4, <1>10, <1>11 DEF Tabular
<1>14. GroundedOn(c, heads, run.blind)
  BY <1>10, <1>11, <1>12, <1>13 DEF GroundedOn
<1> QED BY <1>14 DEF heads, pool

\* What a run unpacks, a run that loses the same files finds unpacked.
LEMMA ExpandTwice ==
  ASSUME NEW files, Links(files), NEW lost
  PROVE  Expand(Expand(files, lost), lost) = Expand(files, lost)
<1> DEFINE F == FilesOf(files)
           In(G) == UNION {Members[f] : f \in G}
           some == In(F \ lost) \ F
           first == files \cup {Unlinked(m) : m \in some}
<1>1. F \subseteq File
  BY DEF Links, FilesOf, Attached
<1>2. \A m \in some : Members[m] = {}
  <2>1. SUFFICES ASSUME NEW f \in F, NEW m \in Members[f] PROVE Members[m] = {}
    OBVIOUS
  <2> QED BY <1>1, PackageAssumption
<1>3. FilesOf(first) = F \cup some
  <2>1. \A m \in some : Unlinked(m).file = m
    BY DEF Unlinked
  <2> HIDE DEF some
  <2> QED BY <2>1 DEF FilesOf
<1>4. In((F \cup some) \ lost) \ (F \cup some) = {}
  <2>1. In((F \cup some) \ lost) \subseteq In(F \ lost)
    <3> HIDE DEF some, F
    <3> QED BY <1>2
  <2> HIDE DEF In, F
  <2> QED BY <2>1
<1>5. Expand(files, lost) = first
  BY DEF Expand
<1>6. Expand(first, lost) = first \cup {Unlinked(m) : m \in In((F \cup some) \ lost) \ (F \cup some)}
  <2> HIDE DEF first, some, F
  <2> QED BY <1>3 DEF Expand
<1>7. Expand(first, lost) = first
  <2> HIDE DEF first, some, F, In
  <2> QED BY <1>4, <1>6
<1> HIDE DEF first
<1> QED BY <1>5, <1>7

\* What a step makes of the last run and of the files it read.
LEMMA LastRead ==
  ASSUME [Next]_vars
  PROVE  /\ readings' = readings
         /\ \/ last' = last /\ attached' = attached
            \/ last' = NoRun
            \/ \E sel, run : /\ last' = Outcome(sel, run)
                             /\ attached' \in {attached, Expand(attached, run.lost)}
<1>1. ASSUME NEW request \in Requests, NEW prior \in Files \cup {NoFile}, Upload(request, prior)
      PROVE  last' = NoRun /\ readings' = readings
  BY <1>1 DEF Upload
<1>2. ASSUME NEW run \in Unreading, Run(run)
      PROVE  /\ readings' = readings
             /\ \/ last' = last /\ attached' = attached
                \/ last' = Outcome(selected, run) /\ attached' = Expand(attached, run.lost)
  <2>1. Outcome(selected, run).lost = run.lost
    BY DEF Outcome
  <2> QED BY <1>2, <2>1 DEF Run, RunEnds
<1>3. ASSUME NEW f \in Files, NEW run \in Unreading, Select(f, run)
      PROVE  /\ readings' = readings /\ attached' = attached
             /\ last' = last \/ last' = Outcome(selected \cup {f}, run)
  BY <1>3 DEF Select, ChoiceEnds
<1>4. CASE UNCHANGED vars
  BY <1>4 DEF vars
<1> QED BY <1>1, <1>2, <1>3, <1>4 DEF Next

LEMMA VerdictsGrounded ==
  Inv /\ Known /\ VerdictIsGrounded /\ [Next]_vars => Known' /\ VerdictIsGrounded'
<1> SUFFICES ASSUME Inv, Known, VerdictIsGrounded, [Next]_vars PROVE Known' /\ VerdictIsGrounded'
  OBVIOUS
<1>1. readings' = readings
  BY LastRead
<1>2. Known'
  BY <1>1 DEF Known
<1> SUFFICES VerdictIsGrounded'
  BY <1>2
<1>3. CASE last' = last /\ attached' = attached
  <2>1. LastPool' = LastPool
    BY <1>3 DEF LastPool
  <2>2. LastHeads' = LastHeads
    BY <1>3, <2>1 DEF LastHeads
  <2>3. CASE last = NoRun
    BY <1>3, <2>3 DEF VerdictIsGrounded
  <2>4. CASE last # NoRun
    <3>1. \A c \in last.cards :
            c.status \in {"CANDIDATE", "AUTO_NO_DIFFERENCE"} /\ c.room = NoRoom
              => GroundedOn(c, LastHeads, last.blind)
      BY <2>4 DEF VerdictIsGrounded, GroundedOn, ReadBy
    <3>2. \A c \in last'.cards :
            c.status \in {"CANDIDATE", "AUTO_NO_DIFFERENCE"} /\ c.room = NoRoom
              => GroundedOn(c, LastHeads', last'.blind)
      BY <1>3, <2>2, <3>1
    <3> QED BY <1>1, <3>2 DEF VerdictIsGrounded, GroundedOn, ReadBy
  <2> QED BY <2>3, <2>4
<1>4. CASE last' = NoRun
  BY <1>4 DEF VerdictIsGrounded
<1>5. ASSUME NEW sel, NEW run, last' = Outcome(sel, run),
             attached' \in {attached, Expand(attached, run.lost)}
      PROVE  VerdictIsGrounded'
  <2>1. /\ last'.cards = Cards(attached, sel, run) /\ last'.selected = sel
        /\ last'.blind = run.blind /\ last'.lost = run.lost
    BY <1>5 DEF Outcome
  <2>2. Pool(attached', sel, run) = Pool(attached, sel, run)
    <3>1. Expand(attached', run.lost) = Expand(attached, run.lost)
      BY <1>5, ExpandTwice DEF Inv
    <3> QED BY <3>1 DEF Pool
  <2>3. LastPool' = Pool(attached, sel, run)
    <3>1. Pool(attached', sel, last') = Pool(attached', sel, run)
      BY <2>1 DEF Pool
    <3> QED BY <2>1, <2>2, <3>1 DEF LastPool
  <2>4. LastHeads' = HeadsOf(Pool(attached, sel, run), sel)
    BY <2>1, <2>3 DEF LastHeads, HeadsOf
  <2>5. \A c \in last'.cards : OnValue(c) => GroundedOn(c, LastHeads', last'.blind)
    <3> DEFINE heads == HeadsOf(Pool(attached, sel, run), sel)
    <3>1. ASSUME NEW c \in Cards(attached, sel, run), OnValue(c)
          PROVE  GroundedOn(c, heads, run.blind)
      BY <3>1, CardsGrounded DEF Inv
    <3>2. LastHeads' = heads
      BY <2>4
    <3> HIDE DEF heads
    <3> QED BY <2>1, <3>1, <3>2
  <2>6. \A c \in last'.cards :
          c.status \in {"CANDIDATE", "AUTO_NO_DIFFERENCE"} /\ c.room = NoRoom
            => GroundedOn(c, LastHeads', last'.blind)
    BY <2>5 DEF OnValue, Verdicts
  <2> QED BY <1>1, <2>6 DEF VerdictIsGrounded, GroundedOn, ReadBy
<1> QED BY <1>3, <1>4, <1>5, LastRead

\* A verdict on a value names two pages the run compared and could read, read the
\* same twice, and different values where it accuses (evaluate_rule).
THEOREM VerdictsAreGrounded == Spec => []VerdictIsGrounded
<1>1. Init => Known /\ VerdictIsGrounded
  BY DEF Init, Known, VerdictIsGrounded
<1> QED BY <1>1, InitInv, NextKeeps, VerdictsGrounded, PTL DEF Spec

\* What a rule reads in a file is what it finds there.
LEMMA ReadingFound ==
  ASSUME Known, NEW f \in File, NEW rule \in Matrix, rule.kind = "number"
  PROVE  /\ ReadBy(rule.code, f).kind = ExtractNumber(Rows[f], rule).kind
         /\ ReadBy(rule.code, f).value = ExtractNumber(Rows[f], rule).value
         /\ ReadBy(rule.code, f).second = ExtractNumber(Rows[f], rule).second
<1> DEFINE codes == {q.code : q \in Matrix}
           of == ReadingOf(rule, Says[f], Rows[f], Crops[f])
           given == Says[f].reading
           hit == ExtractNumber(Rows[f], rule)
           crops == UNION {CropNumber(crop, rule) : crop \in Crops[f]}
<1>1. readings[f] = [code \in codes |->
                       ReadingOf(CHOOSE q \in Matrix : q.code = code, Says[f], Rows[f], Crops[f])]
  BY DEF Known, Readings
<1>2. (CHOOSE q \in Matrix : q.code = rule.code) = rule
  BY PackageAssumption
<1>3. ReadBy(rule.code, f) = of
  <2>1. rule.code \in codes
    OBVIOUS
  <2> QED BY <1>1, <1>2, <2>1 DEF ReadBy
<1>4. {"kind", "value", "second", "crops"} \subseteq DOMAIN given
  BY PackageAssumption DEF TypedSpeech
<1> HIDE DEF given, hit, crops
<1>5. of = NumberRead(given, hit, crops)
  BY DEF ReadingOf, given, hit, crops
<1> HIDE DEF of
<1>6. /\ NumberRead(given, hit, crops).kind = hit.kind
      /\ NumberRead(given, hit, crops).value = hit.value
      /\ NumberRead(given, hit, crops).second = hit.second
  BY <1>4 DEF NumberRead
<1> QED BY <1>3, <1>5, <1>6 DEF hit

\* A verdict on a value that is grounded compares cells.
LEMMA GroundedIsACell == Inv /\ Known /\ VerdictIsGrounded => NumberIsACell
<1> SUFFICES ASSUME Inv, Known, VerdictIsGrounded, last # NoRun, NEW c \in last.cards,
                    c.status \in {"CANDIDATE", "AUTO_NO_DIFFERENCE"}, c.room = NoRoom,
                    c.rule \in DOMAIN NoCells
             PROVE  {c.pd, c.rd} \cap NoCells[c.rule] = {}
  BY DEF NumberIsACell
<1> DEFINE numeric == {r \in Matrix : r.kind = "number"}
<1>1. PICK rule \in Matrix, p \in LastHeads, r \in LastHeads :
        /\ rule.code = c.rule /\ c.pd = p.file /\ c.rd = r.file
        /\ rule.kind \notin {"element_table", "multi_field"} =>
             \A f \in {p.file, r.file} :
               LET reading == ReadBy(c.rule, f) IN
               reading.kind = "hit" /\ reading.value = reading.second
  BY DEF VerdictIsGrounded
<1>2. NoCells[c.rule] =
        {f \in File : LET q == CHOOSE r2 \in Matrix : r2.code = c.rule IN
                     ~IsACell(ExtractNumber(Rows[f], q).value, Rows[f], q)}
  BY DEF NoCells
<1>3. (CHOOSE q \in Matrix : q.code = c.rule) = rule
  BY <1>1, PackageAssumption
<1>4. rule.kind = "number"
  <2>1. c.rule \in {q.code : q \in numeric}
    BY DEF NoCells
  <2>2. PICK q \in Matrix : q.kind = "number" /\ q.code = c.rule
    BY <2>1
  <2>3. q = rule
    BY <1>1, <2>2, PackageAssumption
  <2> QED BY <2>2, <2>3
<1>5. ASSUME NEW f \in {c.pd, c.rd}, f \in File
      PROVE  IsACell(ExtractNumber(Rows[f], rule).value, Rows[f], rule)
  <2>1. TypedRow(Rows[f])
    BY <1>5, PackageAssumption
  <2>2. ReadBy(c.rule, f).kind = "hit" /\ ReadBy(c.rule, f).value = ReadBy(c.rule, f).second
    BY <1>1, <1>4, <1>5
  <2>3. /\ ReadBy(rule.code, f).kind = ExtractNumber(Rows[f], rule).kind
        /\ ReadBy(rule.code, f).value = ExtractNumber(Rows[f], rule).value
        /\ ReadBy(rule.code, f).second = ExtractNumber(Rows[f], rule).second
    BY <1>4, <1>5, ReadingFound
  <2>4. /\ ExtractNumber(Rows[f], rule).kind = "hit"
        /\ ExtractNumber(Rows[f], rule).value = ExtractNumber(Rows[f], rule).second
    BY <1>1, <2>2, <2>3
  <2> QED BY <2>1, <2>4, ExtractedIsACell
<1> QED BY <1>2, <1>3, <1>5

\* A rule compares the number of a cell beside its label, never a note in brackets
\* or a number of another row, unless no label of the rule has a cell
\* (_candidate_from_span, extract_number).
THEOREM NumbersAreCells == Spec => []NumberIsACell
<1>1. Init => Known /\ VerdictIsGrounded
  BY DEF Init, Known, VerdictIsGrounded
<1> QED BY <1>1, InitInv, NextKeeps, VerdictsGrounded, GroundedIsACell, PTL DEF Spec

=============================================================================
