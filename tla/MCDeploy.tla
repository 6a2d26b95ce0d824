------------------------------ MODULE MCDeploy ------------------------------
(***************************************************************************)
(* Deploy for TLC: operators who name every deployment afresh, be the       *)
(* bundle new or not, and operators who use a name for two bundles.         *)
(***************************************************************************)
EXTENDS Deploy, TLC

CONSTANTS a, b, c, v1, v2, v3

D(n, v) == [name |-> n, bundle |-> v]

FreshNames == {D(a, v1), D(b, v2), D(c, v3)}
TwoNames   == {D(a, v1), D(b, v1), D(c, v2)}
Reused     == {D(a, v1), D(a, v2), D(b, v3)}
Renamed    == {D(a, v1), D(b, v1), D(b, v2)}

AllPlans  == {FreshNames, TwoNames, Reused, Renamed}

=============================================================================
