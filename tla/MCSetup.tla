------------------------------ MODULE MCSetup ------------------------------
(***************************************************************************)
(* Setup for TLC: two commands at a time.                                   *)
(***************************************************************************)
EXTENDS Setup, TLC

\* The commands are interchangeable.
Symmetry == Permutations(Procs)

=============================================================================
