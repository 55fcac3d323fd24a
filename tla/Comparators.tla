---------------------------- MODULE Comparators ----------------------------
(***************************************************************************)
(* The deterministic comparators of the matrix (application/comparators.py *)
(* with quantize and measured_delta of application/normalize.py, and the   *)
(* alignment of tables and fields in application/extractors).              *)
(*                                                                         *)
(* A number is an integer in tenths of QUANTUM, so that rounding has       *)
(* something to do; a relative tolerance is in percent.  A class is the    *)
(* number of its name.  A text that is no class of the ladder makes the    *)
(* comparator raise: status "RAISED" stands for the exception.             *)
(***************************************************************************)
EXTENDS Integers, Sequences

CONSTANTS
  NoBound,   \* a tolerance, a threshold or a limit the rule does not give
  NoValue    \* no measured value

ASSUME ComparatorsAssumption == NoBound \notin Int /\ NoValue \notin Int

Abs(n) == IF n < 0 THEN -n ELSE n
Larger(m, n) == IF m > n THEN m ELSE n

HalfUp(v) == IF v >= 0 THEN 10 * ((v + 5) \div 10) ELSE -10 * ((5 - v) \div 10)
Floor(v) == 10 * (v \div 10)
Quantize(v, rounding) ==
  CASE rounding = "none" -> v
    [] rounding = "floor" -> Floor(v)
    [] rounding = "ceil" -> -Floor(-v)
    [] rounding = "half_even" /\ v % 10 = 5 /\ (v \div 10) % 2 = 0 -> Floor(v)
    [] rounding = "half_even" /\ v % 10 = 5 /\ (v \div 10) % 2 = 1 -> Floor(v) + 10
    [] OTHER -> HalfUp(v)

NumericOperators == {"delta", "eq", "ne", "lt", "le", "gt", "ge", "range"}
ExactFieldOperators == {"eq", "ne"}
TextOperators == {"class_not_lower", "in_set", "not_in_set", "present"}

Compared(ok, e, a) ==
  [status |-> IF ok THEN "AUTO_NO_DIFFERENCE" ELSE "CANDIDATE", expected |-> e, actual |-> a]
Raised == [status |-> "RAISED", expected |-> NoValue, actual |-> NoValue]

-----------------------------------------------------------------------------
\* Within one of the tolerances; equal where the rule gives none.
CompareDelta(e, a, rule) ==
  LET left == Quantize(e, rule.rounding)
      right == Quantize(a, rule.rounding)
      distance == Abs(right - left)
      within == \/ rule.abs # NoBound /\ distance <= rule.abs
                \/ rule.rel # NoBound
                     /\ 100 * distance <= rule.rel * Larger(Abs(left), Abs(right))
                \/ rule.abs = NoBound /\ rule.rel = NoBound /\ left = right
  IN Compared(within, left, right)

\* A trigger that names one direction is not met by the other.
OppositeOfTrigger(c, rule) ==
  IF /\ c.status = "CANDIDATE"
     /\ \/ rule.sense = "decrease" /\ c.actual >= c.expected
        \/ rule.sense = "increase" /\ c.actual <= c.expected
  THEN [c EXCEPT !.status = "AUTO_NO_DIFFERENCE"] ELSE c

\* The threshold of the rule comes before the design value.
CompareOrdering(e, a, rule) ==
  LET ref == IF rule.value # NoBound THEN rule.value ELSE e
      ok == CASE rule.operator = "eq" -> a = ref
              [] rule.operator = "ne" -> a # ref
              [] rule.operator = "lt" -> a < ref
              [] rule.operator = "le" -> a <= ref
              [] rule.operator = "gt" -> a > ref
              [] rule.operator = "ge" -> a >= ref
  IN Compared(ok, ref, a)

CompareRange(e, a, rule) ==
  Compared(/\ rule.min # NoBound => a >= rule.min
           /\ rule.max # NoBound => a <= rule.max, e, a)

CompareSetMembership(a, rule) ==
  LET member == a \in rule.allowed IN
  Compared(member = (rule.operator = "in_set"),
           IF rule.operator = "in_set" THEN 1 ELSE 0, IF member THEN 1 ELSE 0)

\* The ladder goes from the worst class to the best.
ClassRank(c, ladder) == CHOOSE i \in DOMAIN ladder : ladder[i] = c
OnLadder(c, ladder) == \E i \in DOMAIN ladder : ladder[i] = c
CompareClassNotLower(e, a, rule) ==
  IF OnLadder(e, rule.ladder) /\ OnLadder(a, rule.ladder)
  THEN LET expRank == ClassRank(e, rule.ladder)
           actRank == ClassRank(a, rule.ladder)
       IN Compared(actRank >= expRank, expRank, actRank)
  ELSE Raised

CompareExactField(e, a, rule) == Compared((e = a) = (rule.operator = "eq"), e, a)

\* An extractor of presence has a hit only where the element is there.
ComparePresence == Compared(TRUE, 1, 1)

CompareValues(e, a, rule) ==
  CASE rule.operator = "delta" -> OppositeOfTrigger(CompareDelta(e, a, rule), rule)
    [] rule.operator \in {"eq", "ne"} /\ rule.kind = "exact_field" -> CompareExactField(e, a, rule)
    [] rule.operator \in {"eq", "ne", "lt", "le", "gt", "ge"} /\ rule.kind # "exact_field" ->
         CompareOrdering(e, a, rule)
    [] rule.operator = "range" -> CompareRange(e, a, rule)
    [] rule.operator \in {"in_set", "not_in_set"} -> CompareSetMembership(a, rule)
    [] rule.operator = "class_not_lower" -> CompareClassNotLower(e, a, rule)
    [] rule.operator = "present" -> ComparePresence

-----------------------------------------------------------------------------
\* align_tables, align_fields: line by line, the first candidate decides;
\* tables with different lines are not aligned.
Aligned(left, right) == DOMAIN left = DOMAIN right /\ DOMAIN left # {}
DecidingLine(left, right, rule) ==
  LET lines == DOMAIN left
      differing == {m \in lines : CompareValues(left[m], right[m], rule).status = "CANDIDATE"}
      First(S) == CHOOSE m \in S : \A n \in S : m <= n
  IN First(IF differing # {} THEN differing ELSE lines)
AlignTables(left, right, rule) ==
  LET line == DecidingLine(left, right, rule) IN CompareValues(left[line], right[line], rule)

=============================================================================
