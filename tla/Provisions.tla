----------------------------- MODULE Provisions -----------------------------
(***************************************************************************)
(* The phrase of the design "room N is provided with an element" and the   *)
(* silence of the working documentation about it                           *)
(* (application/provision_clause.py).  Pure operators; RuleCascade turns a *)
(* hit into a suspicion of the free search.                                *)
(*                                                                         *)
(* A phrase is [file, page, rooms, goesOn, next, element, words]: the room *)
(* numbers it lists, whether the list breaks off with a comma at the end   *)
(* of its line and the numbers the next line begins with, and the words of *)
(* the element.  A sheet of the working documentation is                   *)
(* [file, page, alone, within, words]: the room numbers that stand alone,  *)
(* those inside other text, and all its words.  A word stands for its stem *)
(* with ё and case folded.                                                 *)
(***************************************************************************)
EXTENDS Integers, FiniteSets

CONSTANT Idle   \* words that name no element: "system", "room", "also"

\* _stems
Stems(phrase) == phrase.words \ Idle

\* _split_rooms and _wrapped_rooms
RoomsNamed(phrase) == phrase.rooms \cup (IF phrase.goesOn THEN phrase.next ELSE {})

\* A number that stands alone goes before one inside other text, on any sheet.
SheetsOf(room, sheets) ==
  LET alone == {s \in sheets : room \in s.alone} IN
  IF alone # {} THEN alone ELSE {s \in sheets : room \in s.within}

\* _sheet_without_stems: another sheet that has the words does not acquit the room.
SheetsWithoutStems(room, stems, sheets) ==
  {s \in SheetsOf(room, sheets) : s.words \cap stems = {}}

ProvisionHit(room, phrase, sheet) == [room |-> room, phrase |-> phrase, sheet |-> sheet]
HitsOf(phrase, sheets) ==
  IF Stems(phrase) = {} THEN {}
  ELSE UNION {{ProvisionHit(room, phrase, s) : s \in SheetsWithoutStems(room, Stems(phrase), sheets)} :
                room \in RoomsNamed(phrase)}

\* provision_hits: a room is named once, for its first phrase and first sheet.
Sooner(g, h) ==
  \/ g.phrase.page < h.phrase.page
  \/ g.phrase.page = h.phrase.page /\ g.sheet.page <= h.sheet.page
FirstHit(hits) == CHOOSE g \in hits : \A h \in hits : Sooner(g, h)
ProvisionHits(phrases, sheets) ==
  LET all == UNION {HitsOf(phrase, sheets) : phrase \in phrases} IN
  {FirstHit({h \in all : h.room = room}) : room \in {h.room : h \in all}}

=============================================================================
