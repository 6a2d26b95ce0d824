------------------------------ MODULE LiveQuery ------------------------------
(***************************************************************************)
(* What a live query promises (the comment of Subscribe in core/subs.go:    *)
(* changes that apply to the query are streamed back to the subscriber):    *)
(* each subscriber is shown results of its own query, of a state that the   *)
(* database was really in, and never an older one after a newer one.        *)
(* Results may be skipped: nothing is said of every intermediate state.     *)
(***************************************************************************)
EXTENDS Naturals

CONSTANTS Members, Vars, VarsOf, None, MaxVersion

VARIABLES
  data,   \* the version of the data behind each value of the variables
  view    \* what each subscriber was shown last: whose data, which version

vars == <<data, view>>

Init ==
  /\ data = [v \in Vars |-> 0]
  /\ view = [m \in Members |-> None]

Publish(v) ==
  /\ data[v] < MaxVersion
  /\ data' = [data EXCEPT ![v] = @ + 1]
  /\ UNCHANGED view

Show(m) ==
  /\ \E n \in 0..data[VarsOf[m]] :
        /\ view[m] # None => n >= view[m].version
        /\ view' = [view EXCEPT ![m] = [vars |-> VarsOf[m], version |-> n]]
  /\ UNCHANGED data

Next ==
  \/ \E v \in Vars : Publish(v)
  \/ \E m \in Members : Show(m)

Spec == Init /\ [][Next]_vars

==============================================================================
