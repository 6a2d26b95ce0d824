------------------------------ MODULE MCEngine ------------------------------
(***************************************************************************)
(* Engine for TLC: two texts with one name, and a third one with remote     *)
(* fields that does not compile for one of the roles.                       *)
(***************************************************************************)
EXTENDS Engine, TLC

CONSTANTS t1, t2, t3, sh1, sh2, k, fa, fb

x == <<"x">>
y == <<"y">>
AnonRole == <<"anon">>
UserRole == <<"user">>
AdminRole == <<"admin">>

MCNameOf == (t1 :> x) @@ (t2 :> x) @@ (t3 :> y)
MCRemotes == (t1 :> {}) @@ (t2 :> {}) @@ (t3 :> {fa, fb})
MCRejected == {<<t3, AdminRole>>}
MCGql == (x :> t1) @@ (y :> t3)
MCJson == (x :> sh1) @@ (y :> None)

\* A call of GraphQL.
Ask(t, user) ==
  [name |-> x, text |-> t, pqkey |-> None, byName |-> FALSE, tx |-> FALSE,
   user |-> user, shape |-> None]

Mutation == [Ask(t2, TRUE) EXCEPT !.pqkey = k, !.shape = sh2]
Persisting == [Ask(t1, FALSE) EXCEPT !.pqkey = k]
ByNameTx == [Ask(None, TRUE) EXCEPT !.byName = TRUE, !.name = y, !.tx = TRUE]

MCCalls == {Mutation, Persisting, ByNameTx}

MCUserRoles == {UserRole, AdminRole}

=============================================================================
