---------------------------- MODULE DeployStack ----------------------------
(***************************************************************************)
(* What hot deploy promises (README.md: deploy a new config, roll back the  *)
(* last deployment): the configurations in force form a stack. A deployment *)
(* puts a new one on top, a rollback returns to the one below.              *)
(***************************************************************************)
EXTENDS Sequences, SequencesExt

CONSTANT Bundles

VARIABLE stack

Init == stack = <<>>

Deploy(b) ==
  /\ ~ Contains(stack, b)
  /\ stack' = Append(stack, b)

Rollback ==
  /\ stack # <<>>
  /\ stack' = Front(stack)

Next == Rollback \/ \E b \in Bundles : Deploy(b)

Spec == Init /\ [][Next]_stack

=============================================================================
