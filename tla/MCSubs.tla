------------------------------- MODULE MCSubs -------------------------------
(***************************************************************************)
(* Subs for TLC: two or three members, whose variables are all the same or  *)
(* all different.                                                           *)
(***************************************************************************)
EXTENDS Subs, TLC

CONSTANTS m1, m2, m3, v1, v2

SameVars  == [m \in Members |-> v1]
OtherVars == [m \in Members |-> IF m = m2 THEN v2 ELSE v1]

\* The data of v1 changes MaxVersion times, or that of each value at most once.
Changes ==
  {h \in [Vars -> 0..MaxVersion] :
     (\A v \in Vars : h[v] <= 1) \/ (\A v \in Vars \ {v1} : h[v] = 0)}

\* For safety: members with the same variables and objects not yet created are
\* interchangeable.
Symmetry == Permutations(Members) \cup Permutations(SubIds)

=============================================================================
