----------------------------- MODULE MCJsValues -----------------------------
(***************************************************************************)
(* JsValues for TLC: three values that are entered into the table, one      *)
(* number, and three js.Values to hold them.                                *)
(***************************************************************************)
EXTENDS JsValues, TLC

\* The values are interchangeable, and so are the js.Values.
Symmetry == Permutations(Heap) \cup Permutations(Handles)

=============================================================================
