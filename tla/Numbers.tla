------------------------------- MODULE Numbers -------------------------------
(***************************************************************************)
(* The number of a rule on a page (application/extractors/number.py, with  *)
(* the regular expression that 92 of the 100 numeric rules leave to the    *)
(* default; a rule with its own is not modelled).                          *)
(*                                                                         *)
(* A page is its tokens in the order of _sorted.  A token has a page, a    *)
(* vertical extent and                                                     *)
(*   word          the word of a label it is                               *)
(*   opens, closes brackets in it                                          *)
(*   numeral       the number in it, or NoNumber: a token has at most one  *)
(*   lead, trail   what stands beside the number in the token, or "none"   *)
(*   means         what the whole token means beside another number        *)
(*   rowNumber     it is the number of a table row, as 12.                 *)
(*   cites         the standards it names                                  *)
(* A rule has anchors (sequences of words), the unit it compares in and    *)
(* the standards it refers to.                                             *)
(* Definitions named Faulty... are bugs that could be introduced there; no *)
(* specification uses them.                                                *)
(***************************************************************************)
EXTENDS Measures, Comparators, Picking

CONSTANT NoNumber   \* the token has no number

MaxAnchorTokens == 8
MaxWindowTokens == 12

Lesser(m, n) == IF m < n THEN m ELSE n
Overlap(t, u) == t.top < u.bottom /\ u.top < t.bottom
OneRow(t, u) == t.page = u.page /\ Overlap(t, u)

-----------------------------------------------------------------------------
(* Where the label of the rule is.                                         *)

\* The words of an anchor stand in a window of tokens.
Stands(ts, first, end, anchor) ==
  \E k \in first..(end - Len(anchor) + 1) :
    \A n \in DOMAIN anchor : ts[k + n - 1].word = anchor[n]
\* Every token starts a window: the shortest of one page with an anchor in it.
Windows(ts, start, rule) ==
  {e \in start..Lesser(Len(ts), start + MaxAnchorTokens - 1) :
     /\ \A k \in start..e : ts[k].page = ts[start].page
     /\ \E anchor \in rule.anchors : Stands(ts, start, e, anchor)}
AnchorSpans(ts, rule) ==
  {span \in [start : DOMAIN ts, end : DOMAIN ts] :
     LET windows == Windows(ts, span.start, rule) IN
     span.end \in windows /\ \A e \in windows : span.end <= e}

RowBefore(ts, span) == Picked(ts, {k \in 1..(span.start - 1) : OneRow(ts[span.end], ts[k])})
RowAfter(ts, span) == Picked(ts, {k \in (span.end + 1)..Len(ts) : OneRow(ts[span.end], ts[k])})

\* The rows below, when nothing stands to the right of the label.
ForwardRest(ts, span) ==
  LET origin == ts[span.end] IN
  Picked(ts, {k \in (span.end + 1)..Lesser(Len(ts), span.end + MaxWindowTokens) :
                ts[k].page = origin.page /\ ~Overlap(origin, ts[k])})

-----------------------------------------------------------------------------
(* The numbers in a sequence of tokens joined by blanks.                   *)

\* 12 and 500 side by side are read as 12 500.
GoesOn(t) == t.numeral # NoNumber /\ t.numeral.sep = "none" /\ t.trail = "none"
Continues(ts, k) ==
  /\ k > 1 /\ GoesOn(ts[k - 1])
  /\ ts[k].numeral # NoNumber /\ ts[k].lead = "none" /\ ts[k].numeral.size = 3
Matches(ts, k) == ts[k].numeral # NoNumber /\ ~Continues(ts, k)
EndOf(ts, k) ==
  CHOOSE j \in k..Len(ts) : /\ \A i \in (k + 1)..j : Continues(ts, i)
                            /\ j < Len(ts) => ~Continues(ts, j + 1)
Wholes(ts, k, end) ==
  LET whole[n \in 0..(end - k)] == IF n = 0 THEN ts[k].numeral.whole
                                   ELSE 1000 * whole[n - 1] + ts[k + n].numeral.whole
  IN whole
Digits(ts, k, end) ==
  [ts[end].numeral EXCEPT !.whole = Wholes(ts, k, end)[end - k],
                          !.size = ts[k].numeral.size + 3 * (end - k)]
Joined(ts, k) == Digits(ts, k, EndOf(ts, k))

Beside(part) == IF part = "none" THEN <<>> ELSE <<part>>
Meanings(ts) == [i \in DOMAIN ts |-> ts[i].means]
UnitOf(ts, k) ==
  MeasureUnitOfMatch(Meanings(SubSeq(ts, 1, k - 1)) \o Beside(ts[k].lead),
                     Beside(ts[EndOf(ts, k)].trail)
                     \o Meanings(SubSeq(ts, EndOf(ts, k) + 1, Len(ts))))
Legible(ts, k, rule) ==
  /\ ~MeasureDimensionsConflict(UnitOf(ts, k), rule.unit)
  /\ ~Ambiguous(Joined(ts, k))
ValueAt(ts, k, rule) == ScaleMeasureToTarget(ParseNumber(Joined(ts, k)), UnitOf(ts, k), rule.unit)

\* A number inside brackets is a note to the row.
FaultyNoteFlags(ts) == [k \in DOMAIN ts |-> ts[k].opens > 0]   \* the depth is forgotten
Depths(ts) ==
  LET depth[k \in 0..Len(ts)] ==
        IF k = 0 THEN 0 ELSE Larger(0, depth[k - 1] + ts[k].opens - ts[k].closes)
  IN depth
NoteFlags(ts) ==
  LET depth == Depths(ts) IN [k \in DOMAIN ts |-> depth[k - 1] > 0 \/ ts[k].opens > 0]

NumberPlaces(ts, rule) ==
  {k \in DOMAIN ts : Matches(ts, k) /\ ~ts[k].rowNumber /\ Legible(ts, k, rule)}
NumbersIn(ts, rule) ==
  LET notes == NoteFlags(ts) IN
  {[value |-> ValueAt(ts, k, rule), token |-> ts[k], at |-> k, note |-> notes[k]] :
     k \in NumberPlaces(ts, rule)}
Cells(reads) == {r \in reads : ~r.note}
Leftmost(reads) == CHOOSE r \in reads : \A q \in reads : r.at <= q.at
Rightmost(reads) == CHOOSE r \in reads : \A q \in reads : q.at <= r.at

\* parse_number_from_text: the first number of a crop, whatever it is.
CropNumber(ts, rule) ==
  LET starts == {k \in DOMAIN ts : Matches(ts, k)} IN
  {ValueAt(ts, k, rule) : k \in {i \in starts : (\A j \in starts : i <= j) /\ Legible(ts, i, rule)}}

-----------------------------------------------------------------------------
(* The number that belongs to a label.                                     *)

Choice(reads, distance, context) ==
  [reads |-> reads, distance |-> distance, context |-> context]
FromStart(reads, context) ==
  Choice(reads, IF reads = {} THEN 0 ELSE Leftmost(reads).at - 1, context)
FromEnd(reads, size, context) ==
  LET nearest == Rightmost(reads) IN Choice({nearest}, size - nearest.at, context)
\* The cells to the right, else the nearest to the left, else the notes to the
\* right; the rows below where nothing stands to the right.
Preferred(left, right, below, before, after, rest) ==
  CASE Cells(right) # {} -> FromStart(Cells(right), before \o after)
    [] Cells(right) = {} /\ left # {} -> FromEnd(left, Len(before), before \o after)
    [] left = {} /\ right # {} /\ Cells(right) = {} -> FromStart(right, before \o after)
    [] left = {} /\ right = {} /\ after = <<>> -> FromStart(below, rest)
    [] OTHER -> Choice({}, 0, <<>>)
Around(before, after, rest, rule) ==
  Preferred(Cells(NumbersIn(before, rule)), NumbersIn(after, rule), NumbersIn(rest, rule),
            before, after, rest)
Chosen(ts, span, rule) ==
  Around(RowBefore(ts, span), RowAfter(ts, span), ForwardRest(ts, span), rule)

\* A standard the rule does not refer to stands beside the number.
NormMismatch(context, rule) ==
  LET cited == UNION {context[i].cites : i \in DOMAIN context} IN
  rule.norms # {} /\ cited # {} /\ rule.norms \cap cited = {}
NumberedRow(ts, start) ==
  start > 1 /\ OneRow(ts[start - 1], ts[start]) /\ ts[start - 1].rowNumber

\* What makes one number better than another, the most important first.
Flag(holds) == IF holds THEN 1 ELSE 0
Rank(ts, span, rule, choice) ==
  LET primary == Leftmost(choice.reads) IN
  <<Flag(~Overlap(ts[span.end], primary.token)),
    Flag(primary.note /\ OneRow(ts[span.end], primary.token)),
    Flag(NormMismatch(choice.context, rule)),
    Flag(primary.value = 0),
    choice.distance,
    Flag(~NumberedRow(ts, span.start)),
    span.end>>
Precedes(r, q) == \E i \in DOMAIN r : r[i] < q[i] /\ \A j \in 1..(i - 1) : r[j] = q[j]

Ranked(ts, span, rule, choice) ==
  IF choice.reads = {} THEN {}
  ELSE {[rank |-> Rank(ts, span, rule, choice), start |-> span.start,
         value |-> Leftmost(choice.reads).value, second |-> Rightmost(choice.reads).value]}
Candidate(ts, span, rule) == Ranked(ts, span, rule, Chosen(ts, span, rule))

\* The best; of equals, the one whose window starts first.
Hit(kind, value, second) == [kind |-> kind, value |-> value, second |-> second]
Better(c, d) == Precedes(c.rank, d.rank) \/ (c.rank = d.rank /\ c.start <= d.start)
HitOf(candidates) ==
  LET best == CHOOSE c \in candidates : \A d \in candidates : Better(c, d) IN
  IF candidates = {} THEN Hit("none", NoValue, NoValue) ELSE Hit("hit", best.value, best.second)
ExtractNumber(ts, rule) ==
  HitOf(UNION {Candidate(ts, span, rule) : span \in AnchorSpans(ts, rule)})

=============================================================================
