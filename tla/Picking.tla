------------------------------ MODULE Picking ------------------------------
(***************************************************************************)
(* What is left of a list when only some of its places are kept, as by the *)
(* loops with `continue` that make the tokens of a page                    *)
(* (infrastructure/pdfium_tokens.py, infrastructure/ocr_tesseract.py) and  *)
(* the rows of tokens (application/extractors/number.py).                  *)
(***************************************************************************)
EXTENDS Integers, FiniteSets

\* The elements at some places of a list, in their order.
Nth(places, n) == CHOOSE k \in places : Cardinality({i \in places : i < k}) = n - 1
Picked(list, places) == [n \in 1..Cardinality(places) |-> list[Nth(places, n)]]

=============================================================================
