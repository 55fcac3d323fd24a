------------------------------ MODULE Measures ------------------------------
(***************************************************************************)
(* Printed numbers and their units (application/normalize.py): which       *)
(* number a numeral is, which unit belongs to it, and its value in the     *)
(* unit of the rule.                                                       *)
(*                                                                         *)
(* A numeral is [whole, size, sep, frac, places]: the digits before the    *)
(* separator and how many they are, the separator, the fraction as a       *)
(* number of the Comparators and how many digits it has.  A word is what   *)
(* it means beside a number; how it is spelled, in which alphabet and      *)
(* case, is left out.                                                      *)
(***************************************************************************)
EXTENDS Integers, Sequences, FiniteSets

CONSTANT One   \* 1 as a number of the Comparators, 100000 in the code

ASSUME MeasuresAssumption == One \in Nat \ {0}

\* One of a unit is num * 10^ten of the unit of its dimension.
Measure(dimension, num, ten) == [dimension |-> dimension, num |-> num, ten |-> ten]
MeasureToSI ==
  [mm |-> Measure("length", 1, -3), cm |-> Measure("length", 1, -2), m |-> Measure("length", 1, 0),
   mm2 |-> Measure("area", 1, -6), cm2 |-> Measure("area", 1, -4), m2 |-> Measure("area", 1, 0),
   mm3 |-> Measure("volume", 1, -9), cm3 |-> Measure("volume", 1, -6), m3 |-> Measure("volume", 1, 0),
   thousand_m2 |-> Measure("area", 1000, 0), thousand_m3 |-> Measure("volume", 1000, 0),
   W |-> Measure("power", 1, 0), kW |-> Measure("power", 1, 3), MW |-> Measure("power", 1, 6),
   Pa |-> Measure("pressure", 1, 0), kPa |-> Measure("pressure", 1, 3), MPa |-> Measure("pressure", 1, 6),
   m3_h |-> Measure("flow", 120, 0), l_s |-> Measure("flow", 432, 0), m3_day |-> Measure("flow", 5, 0),
   percent |-> Measure("ratio", 1, -2), promille |-> Measure("ratio", 1, -3)]
Unit == DOMAIN MeasureToSI

\* Words that make a unit with the next one, and those that mean none.
Compounding == {"thousand", "square", "cube"}
Meaning == Unit \cup Compounding \cup {"other"}

\* Power, pressure, flow and ratio never stand in for another dimension.
SkipIfOtherDimension == {"power", "pressure", "flow", "ratio"}
MeasureDimensionsConflict(source, target) ==
  /\ {source, target} \subseteq Unit
  /\ LET dimensions == {MeasureToSI[source].dimension, MeasureToSI[target].dimension} IN
     Cardinality(dimensions) > 1 /\ dimensions \cap SkipIfOtherDimension # {}

\* Within one dimension only; a value without unit stays as it is.
Shifted(v, ten) == IF ten >= 0 THEN v * 10 ^ ten ELSE v \div 10 ^ (-ten)
ScaleMeasureToTarget(v, source, target) ==
  IF /\ {source, target} \subseteq Unit
     /\ MeasureToSI[source].dimension = MeasureToSI[target].dimension
  THEN LET s == MeasureToSI[source] t == MeasureToSI[target] IN
       Shifted(v * s.num, s.ten - t.ten) \div t.num
  ELSE v

-----------------------------------------------------------------------------
(* The unit beside a number.                                               *)

ResolveUnit(word) == IF word \in Unit THEN word ELSE "none"

UnitFromWords(words) ==
  CASE words = <<>> -> "none"
    [] Len(words) >= 2 /\ words[1] = "thousand" ->
         CASE words[2] = "m2" -> "thousand_m2" [] words[2] = "m3" -> "thousand_m3" [] OTHER -> "none"
    [] Len(words) >= 2 /\ words[1] = "square" /\ words[2] = "m" -> "m2"
    [] Len(words) >= 2 /\ words[1] = "cube" /\ words[2] = "m" -> "m3"
    [] OTHER -> ResolveUnit(words[1])

\* Right after the number, or else right before it.
MeasureUnitOfMatch(before, after) ==
  LET n == Len(before)
      compound == IF n >= 2 /\ before[n - 1] \in Compounding
                  THEN UnitFromWords(SubSeq(before, n - 1, n)) ELSE "none"
  IN CASE UnitFromWords(after) # "none" -> UnitFromWords(after)
       [] UnitFromWords(after) = "none" /\ compound # "none" -> compound
       [] OTHER -> IF n = 0 THEN "none" ELSE ResolveUnit(before[n])

-----------------------------------------------------------------------------
(* The number of a numeral.                                                *)

\* 1.254 may be thousands or a fraction, and is no number; 1,254 is a fraction.
Ambiguous(n) == n.sep = "dot" /\ n.places = 3 /\ n.size = 1 /\ n.whole # 0
ParseNumber(n) == n.whole * One + n.frac

=============================================================================
