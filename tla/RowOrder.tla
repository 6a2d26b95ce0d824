------------------------------ MODULE RowOrder ------------------------------
(***************************************************************************)
(* What a nested insert promises (the comment of newMutate in               *)
(* core/internal/qcode/mutate.go: the children are in the creation order    *)
(* that the relationships require): every object is written once, and after *)
(* the rows that its own row refers to. A row that is connected is there    *)
(* already. An update has no such order.                                    *)
(***************************************************************************)
EXTENDS Naturals, Sequences

VARIABLES
  doc,      \* the document of the mutation, see Mutation
  written   \* the objects whose statement is rendered

vars == <<doc, written>>

Objects == DOMAIN doc.up
Kids(x) == {c \in Objects : doc.up[c] = x}
Modifier(x) == doc.up[x] # 0 /\ doc.kind[x] \in {"connect", "disconnect"}
Present(x) == \E c \in Kids(x) : Modifier(c)

\* The objects whose rows the row of x refers to. What is connected to a parent
\* is a row that refers to it.
Refers(x) ==
  LET up == doc.up[x]
  IN IF Modifier(x)
     THEN {doc.up[up]}
     ELSE {y \in {up} : up # 0 /\ doc.kind[x] = "one"} \cup {c \in Kids(x) : doc.kind[c] = "many"}

Write(x) ==
  /\ x \notin written /\ ~Present(x)
  /\ doc.op = "insert" => \A y \in Refers(x) : y \in written \/ Present(y)
  /\ written' = written \cup {x}
  /\ UNCHANGED doc

Init == written = {}

Next == \E x \in Objects : Write(x)

Spec == Init /\ [][Next]_vars

=============================================================================
