------------------------------ MODULE MCMutation ------------------------------
(***************************************************************************)
(* Mutation for TLC: all documents of up to MaxObjects objects in which the  *)
(* objects in the same one all connect or disconnect, or none does.          *)
(***************************************************************************)
EXTENDS Mutation, TLC

CONSTANTS a, b

IsModifier(k) == k \in {"connect", "disconnect"}

Ups(n) == {up \in [1..n -> 0..n] : \A k \in 1..n : up[k] < k}

\* The forests of n objects; one that connects or disconnects rows is a leaf.
Forests(n) ==
  {<<up, kind>> \in Ups(n) \X [1..n -> Kinds] :
     \A k \in 1..n : /\ up[k] = 0 => kind[k] = "one"
                     /\ up[k] # 0 => ~IsModifier(kind[up[k]])}

WithTables(n, tables) ==
  {[op |-> o, up |-> f[1], kind |-> f[2], table |-> t] :
     o \in Ops, f \in Forests(n), t \in tables}

\* The tables of n objects; which of the two the first one is in does not matter.
TwoTables(n) == {t \in [1..n -> {a, b}] : t[1] = a}

AllDocs ==
  UNION {WithTables(n, TwoTables(n)) : n \in 1..4} \cup WithTables(5, {[k \in 1..5 |-> k]})

MCDocs == {d \in AllDocs : Uniform(d) /\ (d.op = "delete" => Len(d.up) = 1)}

=============================================================================
