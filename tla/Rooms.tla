------------------------------- MODULE Rooms -------------------------------
(***************************************************************************)
(* The comparison of rooms between sheets (application/room_compare.py):   *)
(* which rooms of a sheet count, which of them carry the mark of the rule, *)
(* and the one verdict per room over every pair of sheets.  Pure           *)
(* operators; RuleCascade turns the verdicts into findings.                *)
(*                                                                         *)
(* What the geometry of a sheet decides is given: how many inscriptions a  *)
(* room number has alone (lone) and in a column (stacked), and for each    *)
(* mark the rooms within the radius, nearest first, ties together (near)   *)
(* and whether tied numbers are one inscription (oneLabel).  Sheets are    *)
(* sets of records with the file and the page they come from; equal        *)
(* verdicts without a room are one.                                        *)
(* Definitions named Faulty... are bugs that could be introduced there; no *)
(* specification uses them.                                                *)
(***************************************************************************)
EXTENDS Integers, FiniteSets, Sequences

CONSTANTS
  NoRoom,   \* a verdict about a pair of sheets, or about no room
  NoSpot    \* the room is not on the sheet of that stage

Sets == INSTANCE FiniteSetsExt

ASSUME RoomsAssumption == NoRoom \notin Int

Spots(sheet) == DOMAIN sheet.labels

\* _choose_rooms: two inscriptions apart are two places; a column is one.
RepeatedRooms(sheet) ==
  {r \in Spots(sheet) : \/ sheet.labels[r].lone > 1
                        \/ sheet.labels[r].lone = 0 /\ sheet.labels[r].stacked > 1}
ChosenRooms(sheet) == Spots(sheet) \ RepeatedRooms(sheet)

\* _owned_features: a mark belongs to the nearest room; a tie of two places
\* belongs to nobody.
Nearest(feature, rooms) ==
  LET reached == {i \in DOMAIN feature.near : feature.near[i] \cap rooms # {}} IN
  IF reached = {} THEN {}
  ELSE feature.near[Sets!Min(reached)] \cap rooms
Owners(feature, rooms) ==
  LET nearest == Nearest(feature, rooms) IN
  IF Cardinality(nearest) > 1 /\ ~feature.oneLabel THEN {} ELSE nearest
MarkedRooms(sheet) ==
  UNION {Owners(f, ChosenRooms(sheet)) : f \in sheet.features}

SpotOn(sheet, r) ==
  [file |-> sheet.file, page |-> sheet.page, room |-> r, marked |-> r \in MarkedRooms(sheet)]

-----------------------------------------------------------------------------
RoomDiff(kind, r, pd, rd) == [kind |-> kind, room |-> r, pd |-> pd, rd |-> rd]
AbstainOn(r) == RoomDiff("abstain", r, NoSpot, NoSpot)

\* The verdict on a room both sheets show; none where both or neither is marked.
BothSided(pd, rd) ==
  CASE pd.marked /\ ~rd.marked -> {RoomDiff("candidate", pd.room, pd, rd)}
    [] rd.marked /\ ~pd.marked -> {RoomDiff("suspicion", pd.room, pd, rd)}
    [] OTHER -> {}

\* _pair_diffs: every room of a pair of sheets; a pair that differs too much is
\* no pair; a pair without differences is one match, for its first room.
DiffsOf(p, r) ==
  (UNION {BothSided(SpotOn(p, room), SpotOn(r, room)) : room \in ChosenRooms(p) \cap ChosenRooms(r)})
  \cup {RoomDiff("suspicion", room, NoSpot, SpotOn(r, room)) : room \in ChosenRooms(r) \ ChosenRooms(p)}
  \cup {RoomDiff("suspicion", room, SpotOn(p, room), NoSpot) : room \in ChosenRooms(p) \ ChosenRooms(r)}
MatchOn(p, r, room) == RoomDiff("match", room, SpotOn(p, room), SpotOn(r, room))
Judged(p, r, diffs, maxDiff) ==
  CASE Cardinality(diffs) > maxDiff -> {AbstainOn(NoRoom)}
    [] diffs = {} -> {MatchOn(p, r, Sets!Min(ChosenRooms(p)))}
    [] OTHER -> diffs
PairDiffs(p, r, maxDiff) == Judged(p, r, DiffsOf(p, r), maxDiff)

\* _pair: the share of rooms in common, in percent.
Paired(p, r, jaccardMin) ==
  LET both == ChosenRooms(p) \cap ChosenRooms(r)
      any == ChosenRooms(p) \cup ChosenRooms(r) IN
  100 * Cardinality(both) >= jaccardMin * Cardinality(any)

-----------------------------------------------------------------------------
PageOf(spot) == IF spot = NoSpot THEN 0 ELSE spot.page
Before(d, e) ==
  \/ PageOf(d.pd) < PageOf(e.pd)
  \/ PageOf(d.pd) = PageOf(e.pd) /\ PageOf(d.rd) <= PageOf(e.rd)
Earliest(diffs) == CHOOSE d \in diffs : \A e \in diffs : Before(d, e)

\* collapse_room_diffs on the verdicts of one room.
FaultyVerdictOn(r, group) ==   \* pairs of sheets that contradict one another stay
  IF \E d \in group : d.kind = "abstain" THEN {AbstainOn(r)} ELSE group
VerdictOn(r, group) ==
  LET sided == {d \in group : d.pd # NoSpot /\ d.rd # NoSpot}
      use == IF sided # {} THEN sided ELSE group
      kinds == {d.kind : d \in use}
      positives == kinds \cap {"candidate", "suspicion"} IN
  CASE \E d \in group : d.kind = "abstain" -> {AbstainOn(r)}
    [] ~(\E d \in group : d.kind = "abstain")
         /\ Cardinality(kinds) > 1 -> {AbstainOn(r)}
    [] ~(\E d \in group : d.kind = "abstain")
         /\ Cardinality(kinds) = 1 /\ positives # {} ->
         {Earliest({d \in use : d.kind \in positives})}
    [] OTHER -> {Earliest({d \in use : d.kind = "match"})}
Collapse(diffs) ==
  {d \in diffs : d.room = NoRoom}
  \cup UNION {VerdictOn(r, {d \in diffs : d.room = r}) : r \in {d.room : d \in diffs} \ {NoRoom}}

\* _prefer_marked: a sheet without the mark does not take it back.
SpotsOn(sheets, r) == {SpotOn(s, r) : s \in {t \in sheets : r \in ChosenRooms(t)}}
FirstSpot(spots) == CHOOSE s \in spots : \A t \in spots : s.page <= t.page
PreferMarked(spots) ==
  FirstSpot(IF \E s \in spots : s.marked THEN {s \in spots : s.marked} ELSE spots)

\* _across_sheets: rooms of both stages that no pair of sheets settled.
ShownRooms(sheets) == UNION {ChosenRooms(s) : s \in sheets}
AcrossSheets(pdSheets, rdSheets, settled) ==
  UNION {BothSided(PreferMarked(SpotsOn(pdSheets, r)), PreferMarked(SpotsOn(rdSheets, r))) :
           r \in (ShownRooms(pdSheets) \cap ShownRooms(rdSheets)) \ settled}

\* compare_room_tokens on the sheets of one volume of each stage: every pair with
\* the rooms it shows twice, the rooms a pair too different leaves open, and
\* what no pair settled.
SheetPairs(pdSheets, rdSheets, settings) ==
  {[rooms |-> ChosenRooms(q[1]) \cap ChosenRooms(q[2]),
    diffs |-> PairDiffs(q[1], q[2], settings.maxDiff)] :
     q \in {q \in pdSheets \X rdSheets :
              /\ {} \notin {ChosenRooms(q[1]), ChosenRooms(q[2])}
              /\ Paired(q[1], q[2], settings.jaccardMin)}}
Blocked(pairs) == UNION {q.rooms : q \in {q2 \in pairs : AbstainOn(NoRoom) \in q2.diffs}}
Repeated(sheets) == {AbstainOn(r) : r \in UNION {RepeatedRooms(s) : s \in sheets}}
Settled(pdSheets, rdSheets, blocked, collapsed) ==
  Collapse(collapsed \cup AcrossSheets(pdSheets, rdSheets, {d.room : d \in collapsed} \cup blocked))
OverPairs(pdSheets, rdSheets, pairs) ==
  Settled(pdSheets, rdSheets, Blocked(pairs),
          Collapse(Repeated(pdSheets \cup rdSheets) \cup UNION {q.diffs : q \in pairs}))
CompareRoomTokens(pdSheets, rdSheets, settings) ==
  OverPairs(pdSheets, rdSheets, SheetPairs(pdSheets, rdSheets, settings))

\* _tagged_room_diffs: every volume of PD with every volume of RD.
RoomDiffs(pdVolumes, rdVolumes, settings) ==
  Collapse(UNION {CompareRoomTokens(p, r, settings) : p \in pdVolumes, r \in rdVolumes})

=============================================================================
