---------------------------- MODULE SetupProofs ----------------------------
(***************************************************************************)
(* Proofs about Setup: however many commands migrate one database, and      *)
(* wherever they are killed, the version it holds is that of its tables.    *)
(*                                                                          *)
(* The migrator does not look at the answer of its advisory lock, so the    *)
(* argument is that of the statements: of the commands that go up, the one  *)
(* whose transaction is open works on the table after the last one, another *)
(* waits for that table or fails as it is there; and a command that goes    *)
(* down is alone.                                                           *)
(*                                                                          *)
(* And about its seed script: however often it is started, its rows are     *)
(* inserted at most once, and what it connects is there.  The unique        *)
(* e-mail of the first fixed user lets one command pass; the others end     *)
(* there, and each has taken an id of users.  So one command, the owner,    *)
(* has filled the tables behind, and how far is told by its place in the    *)
(* script.                                                                  *)
(***************************************************************************)
EXTENDS Setup, TLAPS, FiniteSetTheorems

Migrating(p) == pc[p] \in {"step", "update", "commit"}
InTx(p)      == pc[p] \in {"update", "commit"}

Types ==
  /\ version \in 0..N
  /\ pc \in [Procs -> Off \cup {"step", "update", "commit", "fixed", "users", "customers",
                                "categories", "products", "purchases", "notifications",
                                "comments"}]
  /\ at \in [Procs -> 0..N] /\ to \in [Procs -> 0..N] /\ tx \in [Procs -> 0..N]

\* A command that goes up is not ahead of the database, and one with an open transaction is
\* where the database is; one that goes down is alone, and where the database is.
Going(p) ==
  /\ at[p] # to[p]
  /\ Up(p) => to[p] = N /\ at[p] =< version
  /\ ~Up(p) => Alone(p) /\ at[p] = version

Transaction(p) == InTx(p) => tx[p] = Step(p) /\ at[p] = version

Idle(p) == ~InTx(p) => tx[p] = 0

OneInTx == \A p, q \in Procs : InTx(p) /\ InTx(q) => p = q

IInv ==
  /\ Types
  /\ VersionIsApplied
  /\ \A p \in Procs : Migrating(p) => Going(p)
  /\ \A p \in Procs : Transaction(p) /\ Idle(p)
  /\ OneInTx

-----------------------------------------------------------------------------
LEMMA NIsNat == N \in Nat
BY DEF N, Tables

LEMMA Intervals ==
  ASSUME NEW k \in Nat
  PROVE  1..(k + 1) = (1..k) \cup {k + 1} /\ (k > 0 => 1..(k - 1) = (1..k) \ {k})
OBVIOUS

\* The statements of the seed script leave the schema and the steps of the migrators alone,
\* and a command that seeds goes on to seed or ends.
Seeds(p) ==
  /\ UNCHANGED <<version, created, at, to, tx>>
  /\ pc[p] \in {"fixed", "users", "customers", "categories", "products", "purchases",
                "notifications", "comments"}
  /\ \E s \in {"fixed", "users", "customers", "categories", "products", "purchases",
               "notifications", "comments", "done", "failed"} : pc' = [pc EXCEPT ![p] = s]

LEMMA SeedSeeds ==
  ASSUME NEW p \in Procs, Seed(p)
  PROVE  Seeds(p)
<1>1. CASE InsertFixedUser(p)
  BY <1>1 DEF InsertFixedUser, Insert, Refuse, Seeds, schema
<1>2. CASE InsertUser(p)
  BY <1>2 DEF InsertUser, Insert, Seeds, schema
<1>3. CASE InsertCustomer(p)
  BY <1>3 DEF InsertCustomer, Insert, Refuse, Seeds, schema
<1>4. CASE InsertCategories(p)
  BY <1>4 DEF InsertCategories, Seeds, schema
<1>5. CASE InsertProduct(p)
  BY <1>5 DEF InsertProduct, Insert, Seeds, schema
<1>6. CASE InsertPurchase(p)
  BY <1>6 DEF InsertPurchase, Insert, Seeds, schema
<1>7. CASE InsertNotification(p)
  BY <1>7 DEF InsertNotification, Insert, Seeds, schema
<1>8. CASE InsertComment(p)
  BY <1>8 DEF InsertComment, Insert, Seeds, schema
<1> QED  BY <1>1, <1>2, <1>3, <1>4, <1>5, <1>6, <1>7, <1>8 DEF Seed

-----------------------------------------------------------------------------
LEMMA InitIInv == Init => IInv
<1> SUFFICES ASSUME Init PROVE IInv
  OBVIOUS
<1>1. Types
  BY NIsNat DEF Init, Types, Off
<1>2. VersionIsApplied
  BY DEF Init, VersionIsApplied
<1>3. \A p \in Procs : pc[p] = "off" /\ tx[p] = 0
  BY DEF Init
<1> QED  BY <1>1, <1>2, <1>3 DEF IInv, Migrating, InTx, Transaction, Idle, OneInTx

LEMMA StartKeeps ==
  ASSUME IInv, NEW p \in Procs, NEW target \in 0..N, Start(p, target)
  PROVE  IInv'
<1>1. /\ version' = version /\ created' = created /\ tx' = tx
      /\ at' = [at EXCEPT ![p] = version]
      /\ to' = [to EXCEPT ![p] = target]
      /\ pc' = [pc EXCEPT ![p] = IF version # target THEN "step" ELSE "fixed"]
      /\ pc[p] \in Off
      /\ \A q \in Procs : ~GoingDown(q)
      /\ target = N \/ (Alone(p) /\ target = version - 1)
  BY DEF Start, schema
<1>2. Types'
  BY <1>1 DEF IInv, Types, Off
<1>3. VersionIsApplied'
  BY <1>1 DEF IInv, VersionIsApplied
<1>4. \A q \in Procs \ {p} : Migrating(q) => to[q] = N /\ Up(q) /\ at[q] =< version
  BY <1>1, NIsNat DEF IInv, Types, Migrating, Going, GoingDown, Off, Up, Alone
<1>5. ASSUME NEW q \in Procs, Migrating(q)' PROVE Going(q)'
  <2>1. CASE q = p
    <3>1. at'[p] = version /\ to'[p] = target /\ version # target
      BY <1>1, <1>5, <2>1 DEF IInv, Types, Migrating
    <3>2. CASE target = N
      BY <3>1, <3>2, <2>1, <1>1, NIsNat DEF IInv, Types, Going, Up
    <3>3. CASE Alone(p) /\ target = version - 1
      <4>1. Alone(p)'
        BY <3>3, <1>1 DEF Alone, Off, IInv, Types
      <4> QED  BY <3>1, <3>3, <4>1, <2>1, <1>1, NIsNat DEF IInv, Types, Going, Up
    <3> QED  BY <3>2, <3>3, <1>1
  <2>2. CASE q # p
    <3>1. at'[q] = at[q] /\ to'[q] = to[q] /\ Migrating(q)
      BY <1>1, <1>5, <2>2 DEF IInv, Types, Migrating
    <3> QED  BY <3>1, <1>4, <1>1, <2>2, NIsNat DEF IInv, Types, Going, Up
  <2> QED  BY <2>1, <2>2
<1>6. \A q \in Procs : InTx(q)' <=> InTx(q)
  BY <1>1 DEF IInv, Types, InTx, Off
<1>7. \A q \in Procs : InTx(q) => at'[q] = at[q] /\ to'[q] = to[q]
  BY <1>1 DEF IInv, Types, InTx, Off
<1>8. \A q \in Procs : Transaction(q)' /\ Idle(q)'
  BY <1>1, <1>6, <1>7 DEF IInv, Transaction, Idle, Step, Up
<1>9. OneInTx'
  BY <1>6 DEF IInv, OneInTx
<1> QED  BY <1>2, <1>3, <1>5, <1>8, <1>9 DEF IInv

LEMMA ExecuteKeeps ==
  ASSUME IInv, NEW p \in Procs, Execute(p)
  PROVE  IInv'
<1>1. /\ version' = version /\ created' = created /\ at' = at /\ to' = to
      /\ pc[p] = "step"
      /\ \A q \in Procs : tx[q] # Step(p)
  BY DEF Execute, schema
<1>2. Migrating(p) /\ Going(p) /\ ~InTx(p)
  BY <1>1 DEF IInv, Migrating, InTx
<1>3. CASE pc' = [pc EXCEPT ![p] = "failed"] /\ tx' = tx
  <2>1. Types'
    BY <1>1, <1>3 DEF IInv, Types, Off
  <2>2. \A q \in Procs : Migrating(q)' => Migrating(q) /\ q # p
    BY <1>3 DEF IInv, Types, Migrating
  <2>3. \A q \in Procs : Alone(q) => Alone(q)'
    BY <1>3 DEF IInv, Types, Alone, Off
  <2>4. \A q \in Procs : InTx(q)' <=> InTx(q)
    BY <1>2, <1>3 DEF IInv, Types, InTx
  <2>5. \A q \in Procs : Migrating(q)' => Going(q)'
    BY <2>2, <2>3, <1>1 DEF IInv, Going, Up
  <2>6. \A q \in Procs : Transaction(q)' /\ Idle(q)'
    BY <2>4, <1>1, <1>3 DEF IInv, Transaction, Idle, Step, Up
  <2> QED  BY <2>1, <2>4, <2>5, <2>6, <1>1 DEF IInv, VersionIsApplied, OneInTx
<1>4. CASE /\ ~(Up(p) /\ Step(p) \in created)
           /\ tx' = [tx EXCEPT ![p] = Step(p)]
           /\ pc' = [pc EXCEPT ![p] = "update"]
  <2>1. Step(p) \in 1..N
    BY <1>2, NIsNat DEF IInv, Types, Going, Step, Up
  <2>2. Types'
    BY <1>1, <1>4, <2>1, NIsNat DEF IInv, Types, Off
  <2>3. at[p] = version
    BY <1>2, <1>4, NIsNat DEF IInv, Types, Going, Step, Up, VersionIsApplied
  <2>4. \A q \in Procs : q # p => ~InTx(q)
    <3> SUFFICES ASSUME NEW q \in Procs, q # p, InTx(q) PROVE FALSE
      OBVIOUS
    <3>1. Going(q) /\ tx[q] = Step(q) /\ at[q] = version
      BY DEF IInv, Transaction, Migrating, InTx
    <3>2. Up(q)
      BY <3>1, <1>1 DEF Going, Alone, Off
    <3>3. Up(p)
      BY <1>2 DEF Going, Alone, Off, InTx
    <3> QED  BY <3>1, <3>2, <3>3, <2>3, <1>1 DEF Step
  <2>5. \A q \in Procs : Migrating(q)' => Migrating(q)
    BY <1>2, <1>4 DEF IInv, Types, Migrating
  <2>6. \A q \in Procs : Migrating(q) /\ Alone(q) => Alone(q)'
    BY <1>1, <1>4 DEF IInv, Types, Alone, Off, Migrating
  <2>7. \A q \in Procs : Migrating(q)' => Going(q)'
    BY <2>5, <2>6, <1>1 DEF IInv, Going, Up
  <2>8. \A q \in Procs : InTx(q)' <=> q = p
    BY <2>4, <1>4 DEF IInv, Types, InTx
  <2>9. \A q \in Procs : tx'[q] = IF q = p THEN Step(p) ELSE tx[q]
    BY <1>4 DEF IInv, Types
  <2>10. \A q \in Procs : Transaction(q)' /\ Idle(q)'
    BY <2>3, <2>4, <2>8, <2>9, <1>1 DEF IInv, Transaction, Idle, Step, Up
  <2> QED  BY <2>2, <2>7, <2>8, <2>10, <1>1 DEF IInv, VersionIsApplied, OneInTx
<1> QED  BY <1>3, <1>4 DEF Execute

LEMMA UpdateKeeps ==
  ASSUME IInv, NEW p \in Procs, UpdateVersion(p)
  PROVE  IInv'
<1>1. /\ version' = version /\ created' = created /\ at' = at /\ to' = to /\ tx' = tx
      /\ pc[p] = "update" /\ pc' = [pc EXCEPT ![p] = "commit"]
  BY DEF UpdateVersion
<1>2. Types'
  BY <1>1 DEF IInv, Types, Off
<1>3. \A q \in Procs : (Migrating(q)' <=> Migrating(q)) /\ (InTx(q)' <=> InTx(q))
  BY <1>1 DEF IInv, Types, Migrating, InTx
<1>4. \A q \in Procs : Alone(q)' <=> Alone(q)
  BY <1>1 DEF IInv, Types, Alone, Off
<1>5. \A q \in Procs : Going(q) => Going(q)'
  BY <1>1, <1>4 DEF Going, Up
<1>6. \A q \in Procs : Transaction(q)' /\ Idle(q)'
  BY <1>1, <1>3 DEF IInv, Transaction, Idle, Step, Up
<1> QED  BY <1>1, <1>2, <1>3, <1>5, <1>6 DEF IInv, VersionIsApplied, OneInTx

LEMMA CommitKeeps ==
  ASSUME IInv, NEW p \in Procs, Commit(p)
  PROVE  IInv'
<1> DEFINE reached == IF Up(p) THEN at[p] + 1 ELSE at[p] - 1
<1>1. /\ version' = reached /\ to' = to
      /\ created' = IF Up(p) THEN created \cup {tx[p]} ELSE created \ {tx[p]}
      /\ tx' = [tx EXCEPT ![p] = 0]
      /\ at' = [at EXCEPT ![p] = reached]
      /\ pc[p] = "commit"
      /\ pc' = [pc EXCEPT ![p] = IF reached # to[p] THEN "step"
                                 ELSE IF to[p] = N THEN "fixed" ELSE "done"]
  BY DEF Commit
<1>2. Going(p) /\ tx[p] = Step(p) /\ at[p] = version
  BY <1>1 DEF IInv, Migrating, InTx, Transaction
<1>3. reached \in 0..N /\ (Up(p) => reached =< to[p]) /\ (~Up(p) => reached >= to[p])
  BY <1>2, NIsNat DEF IInv, Types, Going, Up
<1>4. Types'
  BY <1>1, <1>3, NIsNat DEF IInv, Types, Off
<1>5. VersionIsApplied'
  <2>1. created = 1..version /\ version \in 0..N
    BY DEF IInv, Types, VersionIsApplied
  <2>2. CASE Up(p)
    <3>1. version' = version + 1 /\ created' = created \cup {version + 1}
      BY <1>1, <1>2, <2>2 DEF Step
    <3> QED  BY <2>1, <3>1, NIsNat, Intervals DEF VersionIsApplied
  <2>3. CASE ~Up(p)
    <3>1. version' = version - 1 /\ created' = created \ {version}
      BY <1>1, <1>2, <2>3 DEF Step
    <3>2. version \in Nat /\ version > 0
      BY <1>1, <1>3, <2>1, <3>1, NIsNat
    <3> QED  BY <2>1, <3>1, <3>2, Intervals DEF VersionIsApplied
  <2> QED  BY <2>2, <2>3
<1>6. \A q \in Procs : q # p => ~InTx(q)
  BY <1>1 DEF IInv, OneInTx, InTx
<1>7. \A q \in Procs : ~InTx(q)'
  BY <1>1, <1>6 DEF IInv, Types, InTx
<1>8. \A q \in Procs : Alone(q) /\ Migrating(q) => Alone(q)'
  BY <1>1 DEF IInv, Types, Alone, Off, Migrating
<1>9. ASSUME NEW q \in Procs, Migrating(q)' PROVE Going(q)'
  <2>1. CASE q = p
    <3>1. at'[p] = reached /\ to'[p] = to[p] /\ reached # to[p]
      BY <1>1, <1>9, <2>1 DEF IInv, Types, Migrating
    <3>2. Alone(p) => Alone(p)'
      BY <1>8, <1>1 DEF Migrating
    <3>3. Up(p)' <=> Up(p)
      BY <3>1, <1>2, <1>3, NIsNat DEF IInv, Types, Going, Up
    <3>4. (Up(p) => to[p] = N) /\ (~Up(p) => Alone(p))
      BY <1>2 DEF Going
    <3> HIDE DEF reached
    <3>5. version' = reached /\ reached =< reached
      BY <1>1, <1>3, NIsNat
    <3> QED  BY <3>1, <3>2, <3>3, <3>4, <3>5, <2>1 DEF Going
  <2>2. CASE q # p
    <3>1. at'[q] = at[q] /\ to'[q] = to[q] /\ Migrating(q)
      BY <1>1, <1>9, <2>2 DEF IInv, Types, Migrating
    <3>2. Going(q)
      BY <3>1 DEF IInv
    <3>3. ~Alone(q) /\ ~Alone(p)
      BY <2>2, <3>1, <1>1 DEF Alone, Off, Migrating
    <3>4. Up(q) /\ Up(p)
      BY <3>2, <3>3, <1>2 DEF Going
    <3>5. Up(q)'
      BY <3>1, <3>4 DEF Up
    <3>6. version' = version + 1
      BY <1>1, <1>2, <3>4
    <3> QED  BY <3>1, <3>2, <3>4, <3>5, <3>6, NIsNat DEF Going, IInv, Types
  <2> QED  BY <2>1, <2>2
<1>10. \A q \in Procs : Transaction(q)' /\ Idle(q)'
  BY <1>1, <1>6, <1>7 DEF IInv, Types, Transaction, Idle
<1> QED  BY <1>4, <1>5, <1>7, <1>9, <1>10 DEF IInv, OneInTx

LEMMA CrashKeeps ==
  ASSUME IInv, NEW p \in Procs, Crash(p)
  PROVE  IInv'
<1>1. /\ version' = version /\ created' = created /\ at' = at /\ to' = to
      /\ pc' = [pc EXCEPT ![p] = "off"] /\ tx' = [tx EXCEPT ![p] = 0]
  BY DEF Crash
<1>2. Types'
  BY <1>1, NIsNat DEF IInv, Types, Off
<1>3. \A q \in Procs : (Migrating(q)' => Migrating(q)) /\ (InTx(q)' <=> InTx(q) /\ q # p)
  BY <1>1 DEF IInv, Types, Migrating, InTx
<1>4. \A q \in Procs : Alone(q) => Alone(q)'
  BY <1>1 DEF IInv, Types, Alone, Off
<1>5. \A q \in Procs : Migrating(q)' => Going(q)'
  BY <1>1, <1>3, <1>4 DEF IInv, Going, Up
<1>6. \A q \in Procs : tx'[q] = IF q = p THEN 0 ELSE tx[q]
  BY <1>1 DEF IInv, Types
<1>7. \A q \in Procs : Transaction(q)' /\ Idle(q)'
  BY <1>1, <1>3, <1>6 DEF IInv, Transaction, Idle, Step, Up
<1> QED  BY <1>1, <1>2, <1>3, <1>5, <1>7 DEF IInv, VersionIsApplied, OneInTx

LEMMA SeedKeeps ==
  ASSUME IInv, NEW p \in Procs, Seeds(p)
  PROVE  IInv'
<1>1. /\ version' = version /\ created' = created /\ at' = at /\ to' = to /\ tx' = tx
      /\ ~Migrating(p) /\ pc[p] \notin Off
  BY DEF Seeds, Migrating, Off
<1>2. PICK s \in {"fixed", "users", "customers", "categories", "products", "purchases",
                  "notifications", "comments", "done", "failed"} : pc' = [pc EXCEPT ![p] = s]
  BY DEF Seeds
<1>3. Types'
  BY <1>1, <1>2 DEF IInv, Types, Off
<1>4. \A q \in Procs : (Migrating(q)' <=> Migrating(q)) /\ (InTx(q)' <=> InTx(q))
  BY <1>1, <1>2 DEF IInv, Types, Migrating, InTx
<1>5. \A q \in Procs : q # p /\ Migrating(q) => ~Alone(q)
  BY <1>1 DEF Alone
<1>6. \A q \in Procs : Migrating(q) => Going(q)'
  BY <1>1, <1>5 DEF IInv, Going, Up
<1>7. \A q \in Procs : Transaction(q)' /\ Idle(q)'
  BY <1>1, <1>4 DEF IInv, Transaction, Idle, Step, Up
<1> QED  BY <1>1, <1>3, <1>4, <1>6, <1>7 DEF IInv, VersionIsApplied, OneInTx

-----------------------------------------------------------------------------
LEMMA StepKeeps == IInv /\ [Next]_vars => IInv'
<1> SUFFICES ASSUME IInv, [Next]_vars PROVE IInv'
  OBVIOUS
<1>1. CASE Next
  <2>1. PICK p \in Procs :
          \/ \E target \in 0..N : Start(p, target)
          \/ Execute(p) \/ UpdateVersion(p) \/ Commit(p)
          \/ Seed(p)
          \/ Crash(p)
    BY <1>1 DEF Next
  <2> QED  BY <2>1, StartKeeps, ExecuteKeeps, UpdateKeeps, CommitKeeps, SeedSeeds, SeedKeeps,
              CrashKeeps
<1>2. CASE UNCHANGED vars
  <2>1. UNCHANGED <<version, created, pc, at, to, tx>>
    BY <1>2 DEF vars, schema, local
  <2> QED  BY <2>1 DEF IInv, Types, VersionIsApplied, Migrating, InTx, Going, Up, Alone,
                       Transaction, Idle, Step, OneInTx
<1> QED  BY <1>1, <1>2

\* For any number of commands, however often they are killed and started again: the version
\* in the database is that of its tables, although the advisory lock is not looked at.
THEOREM VersionCorrect == Spec => []VersionIsApplied
<1>1. IInv => VersionIsApplied
  BY DEF IInv
<1> QED  BY <1>1, InitIInv, StepKeeps, PTL DEF Spec

-----------------------------------------------------------------------------
(* The seed script. *)

Sections == {"fixed", "users", "customers", "categories", "products", "purchases",
             "notifications", "comments"}
Seeding(p) == pc[p] \in Sections

\* The order of the script, of its sections and of the tables they fill.
Place(x) ==
  CASE x \in {"fixed", "users"} -> 1
    [] x = "customers" -> 2
    [] x = "categories" -> 3
    [] x = "products" -> 4
    [] x = "purchases" -> 5
    [] x = "notifications" -> 6
    [] x = "comments" -> 7
    [] OTHER -> 8

\* How often a section inserts, and what the section before it has left in the same table.
Times(x) ==
  CASE x = "fixed" -> FixedUsers
    [] x = "users" -> user_count
    [] x = "customers" -> customer_count
    [] x = "categories" -> 1
    [] x = "products" -> product_count
    [] x = "purchases" -> purchase_count
    [] x = "notifications" -> notifications_count
    [] OTHER -> comments_count
Before(x) == IF x = "users" THEN FixedUsers ELSE 0

Active == {p \in Procs : pc[p] \notin Off}

SeedTypes ==
  /\ ids \in [TableNames -> SUBSET Nat] /\ \A t \in TableNames : IsFiniteSet(ids[t])
  /\ nextId \in [TableNames -> Nat \ {0}]
  /\ \A l \in links : l.to \in TableNames
  /\ mine \in [Procs -> [users : Seq(Nat), products : Seq(Nat), comments : Seq(Nat)]]
  /\ n \in [Procs -> Nat]
  /\ runs \in 0..MaxRuns /\ Cardinality(Active) <= runs

\* A table that is not there has no rows, and while somebody seeds all are there.
Clean ==
  /\ \A k \in 1..N : k > version => ids[Tables[k]] = {} /\ nextId[Tables[k]] = 1
  /\ \A p \in Procs : Seeding(p) => version = N

\* A command that has not inserted a row yet.
Fresh(p) == Migrating(p) \/ (pc[p] = "fixed" /\ n[p] = 0)

\* The command that inserted the first fixed user: the others are refused there.
Owner(p) == Seeding(p) /\ ~Fresh(p)

OneOwner ==
  /\ \A p \in Procs : Fresh(p) => n[p] = 0 /\ mine[p] = Nothing
  /\ \A p \in Procs : Owner(p) => 0 \in fixed
  /\ \A p, q \in Procs : Owner(p) /\ Owner(q) => p = q
  /\ 0 \notin fixed =>
       /\ \A t \in TableNames : ids[t] = {}
       /\ nextId["customers"] = 1
       /\ nextId["users"] + Cardinality(Active) <= 1 + runs

\* How far the owner has come.
Progress(p) ==
  /\ n[p] < Times(pc[p])
  /\ \A t \in TableNames : Place(t) > Place(pc[p]) => ids[t] = {}
  /\ \A t \in TableNames :
       Place(t) = Place(pc[p]) => Cardinality(ids[t]) <= Before(pc[p]) + n[p]

\* What it has collected is there; the ids of users, of which each command that was
\* refused has taken one, are also ids of customers.
Collected(p) ==
  /\ \A i \in 1..Len(mine[p].users) : /\ mine[p].users[i] \in ids["users"]
                                      /\ mine[p].users[i] >= 1
                                      /\ mine[p].users[i] < i + MaxRuns
  /\ \A i \in 1..Len(mine[p].products) : mine[p].products[i] \in ids["products"]
  /\ \A i \in 1..Len(mine[p].comments) : mine[p].comments[i] \in ids["comments"]
  /\ pc[p] \in {"fixed", "users"} =>
       /\ Len(mine[p].users) = Before(pc[p]) + n[p]
       /\ nextId["users"] + Cardinality(Active) <= Len(mine[p].users) + 1 + runs
       /\ nextId["customers"] = 1
  /\ pc[p] \notin {"fixed", "users"} => Len(mine[p].users) >= user_count
  /\ pc[p] = "customers" => /\ nextId["customers"] = n[p] + 1
                            /\ 1..n[p] \subseteq ids["customers"]
  /\ Place(pc[p]) > 2 => 1..customer_count \subseteq ids["customers"]
  /\ Place(pc[p]) > 3 => {1, 2} \subseteq ids["categories"]
  /\ Place(pc[p]) < 4 => Len(mine[p].products) = 0
  /\ pc[p] = "products" => Len(mine[p].products) = n[p]
  /\ Place(pc[p]) > 4 => Len(mine[p].products) >= product_count

SInv ==
  /\ IInv
  /\ SeedTypes
  /\ Clean
  /\ OneOwner
  /\ \A p \in Procs : Owner(p) => Progress(p) /\ Collected(p)
  /\ SeededOnce
  /\ ConnectsFind

\* The tables and their order.
LEMMA TablesFacts ==
  /\ N = 8
  /\ TableNames = {"users", "products", "customers", "purchases", "notifications",
                   "categories", "comments", "chats"}
  /\ \A k \in 1..N : Tables[k] \in TableNames
  /\ \A t \in TableNames : \E k \in 1..N : Tables[k] = t
  /\ \A k \in 1..N : Tables[k] = "users" <=> k = 1
<1>1. N = 8
  BY DEF N, Tables
<1>2. /\ Tables[1] = "users" /\ Tables[2] = "products" /\ Tables[3] = "customers"
      /\ Tables[4] = "purchases" /\ Tables[5] = "notifications" /\ Tables[6] = "categories"
      /\ Tables[7] = "comments" /\ Tables[8] = "chats"
  BY DEF Tables
<1>3. \A k \in 1..N : k = 1 \/ k = 2 \/ k = 3 \/ k = 4 \/ k = 5 \/ k = 6 \/ k = 7 \/ k = 8
  BY <1>1
<1>4. {1, 2, 3, 4, 5, 6, 7, 8} \subseteq 1..N
  BY <1>1
<1> HIDE DEF Tables
<1>5. \A k \in 1..N : Tables[k] \in {"users", "products", "customers", "purchases",
                                     "notifications", "categories", "comments", "chats"}
  BY <1>2, <1>3
<1>6. \A t \in {"users", "products", "customers", "purchases", "notifications",
                "categories", "comments", "chats"} : \E k \in 1..N : Tables[k] = t
  BY <1>2, <1>4
<1>7. TableNames = {"users", "products", "customers", "purchases", "notifications",
                    "categories", "comments", "chats"}
  BY <1>5, <1>6 DEF TableNames
<1>8. \A k \in 1..N : Tables[k] = "users" <=> k = 1
  BY <1>2, <1>3
<1> QED
  BY <1>1, <1>5, <1>6, <1>7, <1>8

\* What a run of the script inserts.
LEMMA RowsFacts ==
  /\ Rows["users"] = FixedUsers + user_count /\ Rows["customers"] = customer_count
  /\ Rows["categories"] = 2 /\ Rows["products"] = product_count
  /\ Rows["purchases"] = purchase_count /\ Rows["notifications"] = notifications_count
  /\ Rows["comments"] = comments_count /\ Rows["chats"] = 0
  /\ \A t \in TableNames : Rows[t] \in Nat
<1>1. /\ Rows["users"] = FixedUsers + user_count /\ Rows["customers"] = customer_count
      /\ Rows["categories"] = 2 /\ Rows["products"] = product_count
      /\ Rows["purchases"] = purchase_count /\ Rows["notifications"] = notifications_count
      /\ Rows["comments"] = comments_count /\ Rows["chats"] = 0
  BY DEF Rows
<1> QED
  BY <1>1, TablesFacts, CountsArePositive

\* The order of the sections and tables.
LEMMA PlaceFacts ==
  /\ Place("fixed") = 1 /\ Place("users") = 1 /\ Place("customers") = 2
  /\ Place("categories") = 3 /\ Place("products") = 4 /\ Place("purchases") = 5
  /\ Place("notifications") = 6 /\ Place("comments") = 7 /\ Place("chats") = 8
  /\ \A x \in Sections \cup TableNames : Place(x) \in 1..8
<1>1. /\ Place("fixed") = 1 /\ Place("users") = 1 /\ Place("customers") = 2
      /\ Place("categories") = 3 /\ Place("products") = 4 /\ Place("purchases") = 5
      /\ Place("notifications") = 6 /\ Place("comments") = 7 /\ Place("chats") = 8
  BY DEF Place
<1> QED
  BY <1>1, TablesFacts DEF Sections

\* How often the sections insert.
LEMMA TimesFacts ==
  /\ Times("fixed") = FixedUsers /\ Times("users") = user_count
  /\ Times("customers") = customer_count /\ Times("categories") = 1
  /\ Times("products") = product_count /\ Times("purchases") = purchase_count
  /\ Times("notifications") = notifications_count /\ Times("comments") = comments_count
  /\ \A x \in Sections : Times(x) \in Nat \ {0}
  /\ Before("users") = FixedUsers /\ \A x \in Sections \ {"users"} : Before(x) = 0
<1>1. /\ Times("fixed") = FixedUsers /\ Times("users") = user_count
      /\ Times("customers") = customer_count /\ Times("categories") = 1
      /\ Times("products") = product_count /\ Times("purchases") = purchase_count
      /\ Times("notifications") = notifications_count /\ Times("comments") = comments_count
  BY DEF Times
<1>2. Before("users") = FixedUsers /\ \A x \in Sections \ {"users"} : Before(x) = 0
  BY DEF Before
<1> QED
  BY <1>1, <1>2, CountsArePositive DEF Sections

\* How a step of one command changes the number of those at work.
LEMMA ActiveStays ==
  ASSUME NEW p \in Procs, NEW c, DOMAIN pc = Procs, pc' = [pc EXCEPT ![p] = c],
         pc[p] \notin Off <=> c \notin Off
  PROVE  Active' = Active
BY DEF Active

\* The commands at work can be counted.
LEMMA ActiveFinite == IsFiniteSet(Active) /\ Cardinality(Active) \in Nat
<1>1. Active \subseteq Procs
  BY DEF Active
<1> QED
  BY <1>1, ProcsFinite, FS_Subset, FS_CardinalityType

\* ... that ends ...
LEMMA ActiveLeaves ==
  ASSUME NEW p \in Procs, NEW c \in Off, DOMAIN pc = Procs, pc' = [pc EXCEPT ![p] = c],
         pc[p] \notin Off
  PROVE  Cardinality(Active)' = Cardinality(Active) - 1
<1>1. Active' = Active \ {p} /\ p \in Active
  BY DEF Active
<1> QED
  BY <1>1, ActiveFinite, FS_RemoveElement

\* ... and that begins.
LEMMA ActiveJoins ==
  ASSUME NEW p \in Procs, NEW c, c \notin Off, DOMAIN pc = Procs,
         pc' = [pc EXCEPT ![p] = c], pc[p] \in Off
  PROVE  Cardinality(Active)' = Cardinality(Active) + 1
<1>1. Active' = Active \cup {p} /\ p \notin Active
  BY DEF Active
<1> QED
  BY <1>1, ActiveFinite, FS_AddElement

\* The invariant holds initially: there are no rows and nobody is at work ...
LEMMA InitSInv == Init => SInv
<1> SUFFICES ASSUME Init PROVE SInv
  OBVIOUS
<1>1. IInv
  BY InitIInv
<1>2. Active = {}
  BY DEF Init, Active, Off
<1>3. IsFiniteSet({}) /\ Cardinality({}) = 0
  BY FS_EmptySet
<1>4. SeedTypes
  <2>1. Nothing \in [users : Seq(Nat), products : Seq(Nat), comments : Seq(Nat)]
    BY DEF Nothing
  <2> QED
    BY <1>2, <1>3, <2>1, CountsArePositive DEF Init, SeedTypes
<1>5. \A p \in Procs : ~Seeding(p) /\ ~Migrating(p)
  BY DEF Init, Seeding, Sections, Migrating
<1>6. Clean
  BY <1>5, TablesFacts DEF Init, Clean
<1>7. OneOwner
  <2>1. "users" \in TableNames /\ "customers" \in TableNames
    BY TablesFacts
  <2> QED
    BY <1>2, <1>3, <1>5, <2>1 DEF Init, OneOwner, Owner, Fresh
<1>8. SeededOnce
  BY <1>3, RowsFacts DEF Init, SeededOnce
<1>9. ConnectsFind
  BY DEF Init, ConnectsFind
<1> QED
  BY <1>1, <1>4, <1>5, <1>6, <1>7, <1>8, <1>9 DEF SInv, Owner

-----------------------------------------------------------------------------
(* The commands that begin, migrate or end. *)

\* What is left when commands begin and end.
LEMMA Balance ==
  \A a, b, c, d \in Nat : b + c <= a + d =>
    /\ a <= c => b <= d
    /\ \A u \in Nat : u + a <= 1 + c => u + b <= 1 + d
    /\ \A u, l \in Nat : u + a <= l + 1 + c => u + b <= l + 1 + d
OBVIOUS

\* A step that leaves the data and the other commands alone, and after which its command
\* is not the owner.
LEMMA SchemaKeeps ==
  ASSUME SInv, IInv', NEW p \in Procs, UNCHANGED <<ids, nextId, fixed, links, version>>,
         \A q \in Procs : q # p => /\ pc'[q] = pc[q] /\ n'[q] = n[q] /\ mine'[q] = mine[q],
         ~Owner(p)', Fresh(p)' => n'[p] = 0 /\ mine'[p] = Nothing,
         Seeding(p)' => version = N,
         mine' \in [Procs -> [users : Seq(Nat), products : Seq(Nat), comments : Seq(Nat)]],
         n' \in [Procs -> Nat], runs' \in 0..MaxRuns,
         Cardinality(Active)' + runs <= Cardinality(Active) + runs'
  PROVE  SInv'
<1>1. /\ SeedTypes /\ Clean /\ OneOwner /\ SeededOnce /\ ConnectsFind
      /\ \A q \in Procs : Owner(q) => Progress(q) /\ Collected(q)
  BY DEF SInv
<1>a. Cardinality(Active) \in Nat /\ runs \in 0..MaxRuns /\ Cardinality(Active) <= runs
  BY <1>1, ActiveFinite DEF SeedTypes
<1>b. runs \in Nat /\ runs' \in Nat
  BY <1>a, CountsArePositive
<1> DEFINE a == Cardinality(Active)
           a2 == Cardinality(Active)'
<1>2. Cardinality(Active)' \in Nat
  <2>1. Active' \subseteq Procs
    BY DEF Active
  <2> QED
    BY <2>1, ProcsFinite, FS_Subset, FS_CardinalityType
<1>3. SeedTypes'
  <2>1. a \in Nat /\ a2 \in Nat /\ a <= runs /\ a2 + runs <= a + runs'
    BY <1>a, <1>2
  <2> HIDE DEF a, a2
  <2>2. a2 <= runs'
    BY ZenonT(30), <2>1, <1>b, Balance
  <2> QED
    BY <1>1, <2>2 DEF SeedTypes, a2
<1>4. \A q \in Procs : q # p => /\ Seeding(q)' <=> Seeding(q)
                                /\ Fresh(q)' <=> Fresh(q)
                                /\ Owner(q)' <=> Owner(q)
  BY DEF Seeding, Fresh, Owner, Migrating
<1>5. Clean'
  BY <1>1, <1>4 DEF Clean
<1>6. OneOwner'
  <2>1. \A q \in Procs : Fresh(q)' => n'[q] = 0 /\ mine'[q] = Nothing
    BY <1>1, <1>4 DEF OneOwner
  <2>2. nextId["users"] \in Nat
    BY <1>1, TablesFacts DEF SeedTypes
  <2>3. 0 \notin fixed => nextId["users"] + a2 <= 1 + runs'
    <3>1. 0 \notin fixed => nextId["users"] + a <= 1 + runs
      BY <1>1 DEF OneOwner
    <3>2. a \in Nat /\ a2 \in Nat /\ a2 + runs <= a + runs'
      BY <1>a, <1>2
    <3> DEFINE u == nextId["users"]
    <3> HIDE DEF a, a2, u
    <3>3. u + a <= 1 + runs => u + a2 <= 1 + runs'
      <4>1. u \in Nat
        BY <2>2 DEF u
      <4> QED
        BY ZenonT(30), <3>2, <4>1, <1>b, Balance
    <3> QED
      BY <3>1, <3>3 DEF u
  <2> QED
    BY <1>1, <1>4, <2>1, <2>3 DEF OneOwner
<1>7. ASSUME NEW q \in Procs, Owner(q)'
      PROVE  Progress(q)' /\ Collected(q)'
  <2>1. q # p /\ Progress(q) /\ Collected(q) /\ Seeding(q)
    BY <1>1, <1>4, <1>7 DEF Owner
  <2>2. pc'[q] = pc[q] /\ n'[q] = n[q] /\ mine'[q] = mine[q]
    BY <2>1
  <2>3. Progress(q)'
    <3> DEFINE x == pc[q]
    <3>1. /\ n[q] < Times(x)
          /\ \A t \in TableNames : Place(t) > Place(x) => ids[t] = {}
          /\ \A t \in TableNames :
               Place(t) = Place(x) => Cardinality(ids[t]) <= Before(x) + n[q]
      BY <2>1 DEF Progress
    <3>2. pc'[q] = x /\ n'[q] = n[q] /\ ids' = ids
      BY <2>2
    <3> HIDE DEF x
    <3>3. n'[q] < Times(pc'[q])
      BY <3>1, <3>2
    <3>4. \A t \in TableNames : Place(t) > Place(pc'[q]) => ids'[t] = {}
      BY <3>1, <3>2
    <3>5. \A t \in TableNames :
            Place(t) = Place(pc'[q]) => Cardinality(ids'[t]) <= Before(pc'[q]) + n'[q]
      BY <3>1, <3>2
    <3> QED
      BY <3>3, <3>4, <3>5 DEF Progress, Times, Place, Before
  <2>4. nextId["users"] \in Nat /\ Len(mine[q].users) \in Nat
    <3>1. nextId["users"] \in Nat
      BY <1>1, TablesFacts DEF SeedTypes
    <3>2. mine[q] \in [users : Seq(Nat), products : Seq(Nat), comments : Seq(Nat)]
      BY <1>1 DEF SeedTypes
    <3> QED
      BY <3>1, <3>2
  <2>5. pc[q] \in {"fixed", "users"} =>
          nextId["users"] + a2 <= Len(mine[q].users) + 1 + runs'
    <3>1. pc[q] \in {"fixed", "users"} =>
            nextId["users"] + a <= Len(mine[q].users) + 1 + runs
      BY <2>1 DEF Collected
    <3>2. a \in Nat /\ a2 \in Nat /\ a2 + runs <= a + runs'
      BY <1>a, <1>2
    <3> DEFINE u == nextId["users"]
               l == Len(mine[q].users)
    <3> HIDE DEF a, a2, u, l
    <3>3. u + a <= l + 1 + runs => u + a2 <= l + 1 + runs'
      <4>1. u \in Nat /\ l \in Nat
        BY <2>4 DEF u, l
      <4> QED
        BY ZenonT(30), <3>2, <4>1, <1>b, Balance
    <3> QED
      BY <3>1, <3>3 DEF u, l
  <2>6. Collected(q)'
    BY <2>1, <2>2, <2>5 DEF Collected
  <2> QED
    BY <2>3, <2>6
<1>8. SeededOnce' /\ ConnectsFind'
  BY <1>1 DEF SeededOnce, ConnectsFind
<1> QED
  BY <1>3, <1>5, <1>6, <1>7, <1>8 DEF SInv

\* A command that migrates has inserted nothing.
LEMMA MigratingIsFresh ==
  ASSUME SInv, NEW p \in Procs, Migrating(p)
  PROVE  n[p] = 0 /\ mine[p] = Nothing
BY DEF SInv, OneOwner, Fresh

\* What the types say of the commands.
LEMMA LocalTypes ==
  ASSUME SInv
  PROVE  /\ DOMAIN pc = Procs /\ n \in [Procs -> Nat] /\ runs \in 0..MaxRuns
         /\ mine \in [Procs -> [users : Seq(Nat), products : Seq(Nat), comments : Seq(Nat)]]
         /\ MaxRuns \in Nat /\ Cardinality(Active) \in Nat
<1>1. /\ n \in [Procs -> Nat] /\ runs \in 0..MaxRuns /\ DOMAIN pc = Procs
      /\ mine \in [Procs -> [users : Seq(Nat), products : Seq(Nat), comments : Seq(Nat)]]
  BY DEF SInv, SeedTypes, IInv, Types
<1> QED
  BY <1>1, CountsArePositive, ActiveFinite

\* A command begins.
LEMMA StartSKeeps ==
  ASSUME SInv, IInv', NEW p \in Procs, NEW target \in 0..N, Start(p, target)
  PROVE  SInv'
<1> DEFINE c == IF version # target THEN "step" ELSE "fixed"
<1>1. /\ DOMAIN pc = Procs /\ n \in [Procs -> Nat] /\ runs \in 0..MaxRuns
      /\ mine \in [Procs -> [users : Seq(Nat), products : Seq(Nat), comments : Seq(Nat)]]
      /\ MaxRuns \in Nat /\ Cardinality(Active) \in Nat
  BY LocalTypes
<1>a. version \in Nat
  <2>1. version \in 0..N
    BY DEF SInv, IInv, Types
  <2> QED
    BY <2>1, NIsNat
<1>2. /\ pc[p] \in Off /\ runs < MaxRuns /\ (target = N \/ target = version - 1)
      /\ runs' = runs + 1 /\ pc' = [pc EXCEPT ![p] = c]
      /\ n' = [n EXCEPT ![p] = 0] /\ mine' = [mine EXCEPT ![p] = Nothing]
      /\ UNCHANGED <<ids, nextId, fixed, links, version>>
  BY DEF Start, schema, data
<1>3. c \notin Off /\ (c = "step" \/ (c = "fixed" /\ version = N))
  BY <1>a, <1>2 DEF Off
<1> HIDE DEF c
<1>4. Cardinality(Active)' = Cardinality(Active) + 1
  BY <1>1, <1>2, <1>3, ActiveJoins
<1>5. pc'[p] = c /\ n'[p] = 0 /\ mine'[p] = Nothing
  BY <1>1, <1>2
<1>6. \A q \in Procs : q # p => /\ pc'[q] = pc[q] /\ n'[q] = n[q] /\ mine'[q] = mine[q]
  BY <1>1, <1>2
<1>7. ~Owner(p)' /\ (Seeding(p)' => version = N)
  BY <1>3, <1>5 DEF Owner, Seeding, Fresh, Sections
<1>8. /\ mine' \in [Procs -> [users : Seq(Nat), products : Seq(Nat), comments : Seq(Nat)]]
      /\ n' \in [Procs -> Nat] /\ runs' \in 0..MaxRuns
  <2>1. Nothing \in [users : Seq(Nat), products : Seq(Nat), comments : Seq(Nat)]
    BY DEF Nothing
  <2>2. 0 \in Nat /\ runs + 1 \in 0..MaxRuns
    BY <1>1, <1>2
  <2>3. n' \in [Procs -> Nat]
    BY <1>1, <1>2, <2>2
  <2>4. mine' \in [Procs -> [users : Seq(Nat), products : Seq(Nat), comments : Seq(Nat)]]
    BY ZenonT(30), <1>1, <1>2, <2>1
  <2> QED
    BY <1>2, <2>2, <2>3, <2>4
<1>9. Cardinality(Active)' + runs <= Cardinality(Active) + runs'
  BY <1>1, <1>2, <1>4
<1> QED
  BY <1>2, <1>5, <1>6, <1>7, <1>8, <1>9, SchemaKeeps

\* A migrator that goes on with its transaction or fails, and a command that is killed.
LEMMA MoveSKeeps ==
  ASSUME SInv, IInv', NEW p \in Procs, Execute(p) \/ UpdateVersion(p) \/ Crash(p)
  PROVE  SInv'
<1>1. /\ DOMAIN pc = Procs /\ n \in [Procs -> Nat] /\ runs \in 0..MaxRuns
      /\ mine \in [Procs -> [users : Seq(Nat), products : Seq(Nat), comments : Seq(Nat)]]
      /\ MaxRuns \in Nat /\ Cardinality(Active) \in Nat
  BY LocalTypes
<1>2. UNCHANGED <<ids, nextId, fixed, links, version, n, mine, runs>>
  BY DEF Execute, UpdateVersion, Crash, schema, data
<1>3. PICK c : /\ pc' = [pc EXCEPT ![p] = c]
               /\ \/ c \in {"update", "commit"} /\ Migrating(p)
                  \/ c \in Off /\ pc[p] \notin Off
  BY DEF Execute, UpdateVersion, Crash, Migrating, Off
<1>4. pc'[p] = c /\ \A q \in Procs : q # p => pc'[q] = pc[q]
  BY <1>1, <1>3
<1>5. /\ ~Owner(p)' /\ ~Seeding(p)'
      /\ Fresh(p)' => n'[p] = 0 /\ mine'[p] = Nothing
  <2>1. ~Seeding(p)'
    BY <1>3, <1>4 DEF Seeding, Sections, Off
  <2>2. Fresh(p)' => Migrating(p)
    BY <1>3, <1>4 DEF Fresh, Migrating, Off
  <2> QED
    BY <1>2, <2>1, <2>2, MigratingIsFresh DEF Owner
<1>6. Cardinality(Active)' + runs <= Cardinality(Active) + runs'
  <2>1. CASE c \in {"update", "commit"} /\ Migrating(p)
    <3>1. pc[p] \notin Off /\ c \notin Off
      BY <2>1 DEF Migrating, Off
    <3>2. Active' = Active
      BY <1>1, <1>3, <3>1, ActiveStays
    <3> QED
      BY <1>1, <1>2, <3>2
  <2>2. CASE c \in Off /\ pc[p] \notin Off
    <3>1. Cardinality(Active)' = Cardinality(Active) - 1
      BY <1>1, <1>3, <2>2, ActiveLeaves
    <3> QED
      BY <1>1, <1>2, <3>1
  <2> QED
    BY <1>3, <2>1, <2>2
<1> QED
  BY <1>1, <1>2, <1>4, <1>5, <1>6, SchemaKeeps

\* A transaction is committed: nobody seeds, and the table is empty.
LEMMA CommitSKeeps ==
  ASSUME SInv, IInv', NEW p \in Procs, Commit(p)
  PROVE  SInv'
<1> DEFINE reached == IF Up(p) THEN at[p] + 1 ELSE at[p] - 1
<1>1. /\ DOMAIN pc = Procs /\ n \in [Procs -> Nat] /\ runs \in 0..MaxRuns
      /\ mine \in [Procs -> [users : Seq(Nat), products : Seq(Nat), comments : Seq(Nat)]]
      /\ MaxRuns \in Nat /\ Cardinality(Active) \in Nat
      /\ version \in 0..N /\ at \in [Procs -> 0..N] /\ to \in [Procs -> 0..N]
  BY LocalTypes DEF SInv, IInv, Types
<1>2. /\ SeedTypes /\ Clean /\ OneOwner /\ SeededOnce /\ ConnectsFind
  BY DEF SInv
<1>3. Migrating(p) /\ Going(p) /\ tx[p] = Step(p) /\ at[p] = version
  BY DEF Commit, SInv, IInv, Migrating, InTx, Transaction
<1>4. PICK k \in 1..N :
        /\ k = tx[p]
        /\ \/ k = version + 1 /\ version' = version + 1
           \/ k = version /\ version' = version - 1
  BY <1>1, <1>3, NIsNat DEF Commit, Step, Going, Up
<1>5. /\ ids' = [ids EXCEPT ![Tables[k]] = {}]
      /\ nextId' = [nextId EXCEPT ![Tables[k]] = 1]
      /\ fixed' = IF Tables[k] = "users" THEN {} ELSE fixed
      /\ links' = {l \in links : Tables[k] \notin {l.from, l.to}}
      /\ UNCHANGED <<to, n, mine, runs>>
  BY <1>4 DEF Commit, Emptied
<1>6. /\ DOMAIN ids = TableNames /\ DOMAIN nextId = TableNames
      /\ \A j \in 1..N : Tables[j] \in TableNames
      /\ "users" \in TableNames /\ "customers" \in TableNames
  BY <1>2, TablesFacts DEF SeedTypes
<1>7. /\ \A t \in TableNames : ids'[t] = {} \/ ids'[t] = ids[t]
      /\ \A t \in TableNames : nextId'[t] = 1 \/ nextId'[t] = nextId[t]
      /\ ids'[Tables[k]] = {} /\ nextId'[Tables[k]] = 1
      /\ \A t \in TableNames : t # Tables[k] => ids'[t] = ids[t]
  BY <1>5, <1>6
<1>8. \A q \in Procs : ~Seeding(q)
  <2> SUFFICES ASSUME NEW q \in Procs, Seeding(q) PROVE FALSE
    OBVIOUS
  <2>1. version = N /\ q # p /\ pc[q] \notin Off
    BY <1>2, <1>3 DEF Clean, Seeding, Sections, Migrating, Off
  <2>2. ~Alone(p)
    BY <2>1 DEF Alone
  <2> QED
    BY <1>3, <2>1, <2>2 DEF Going
<1>9. PICK c : /\ pc' = [pc EXCEPT ![p] = c]
               /\ c \in {"step", "fixed", "done"} /\ (c = "fixed" => version' = N)
  <2> DEFINE d == IF reached # to[p] THEN "step" ELSE IF to[p] = N THEN "fixed" ELSE "done"
  <2>1. pc' = [pc EXCEPT ![p] = d] /\ version' = reached
    BY DEF Commit
  <2>2. d \in {"step", "fixed", "done"} /\ (d = "fixed" => reached = N)
    OBVIOUS
  <2> HIDE DEF d, reached
  <2> QED
    BY <2>1, <2>2
<1>10. pc'[p] = c /\ \A q \in Procs : q # p => pc'[q] = pc[q]
  BY <1>1, <1>9
<1>11. n'[p] = 0 /\ mine'[p] = Nothing
  BY <1>3, <1>5, MigratingIsFresh
<1>12. \A q \in Procs : ~Owner(q)'
  BY <1>8, <1>9, <1>10, <1>11 DEF Owner, Fresh, Seeding, Sections
<1>13. \A q \in Procs : Fresh(q)' => n'[q] = 0 /\ mine'[q] = Nothing
  <2>1. \A q \in Procs : q # p => (Fresh(q)' <=> Fresh(q))
    BY <1>5, <1>10 DEF Fresh, Migrating
  <2> QED
    BY <1>2, <1>5, <1>11, <2>1 DEF OneOwner
<1>14. Cardinality(Active)' <= Cardinality(Active) /\ Cardinality(Active)' \in Nat
  <2>1. pc[p] \notin Off
    BY <1>3 DEF Migrating, Off
  <2>2. CASE c \in Off
    <3>1. Cardinality(Active)' = Cardinality(Active) - 1
      BY <1>1, <1>9, <2>1, <2>2, ActiveLeaves
    <3>2. p \in Active
      BY <2>1 DEF Active
    <3>3. Cardinality(Active) # 0
      BY <3>2, ActiveFinite, FS_EmptySet
    <3> QED
      BY <1>1, <3>1, <3>3
  <2>3. CASE c \notin Off
    <3>1. Active' = Active
      BY <1>1, <1>9, <2>1, <2>3, ActiveStays
    <3> QED
      BY <1>1, <3>1
  <2> QED
    BY <2>2, <2>3
<1>15. SeedTypes'
  <2>1. ids' \in [TableNames -> SUBSET Nat] /\ \A t \in TableNames : IsFiniteSet(ids'[t])
    <3>1. ids \in [TableNames -> SUBSET Nat] /\ \A t \in TableNames : IsFiniteSet(ids[t])
      BY <1>2 DEF SeedTypes
    <3>2. ids' \in [TableNames -> SUBSET Nat]
      BY <3>1, <1>5, <1>6
    <3>3. IsFiniteSet({})
      BY FS_EmptySet
    <3>4. \A t \in TableNames : IsFiniteSet(ids'[t])
      BY ZenonT(30), <3>1, <3>3, <1>7
    <3> QED
      BY <3>2, <3>4
  <2>2. nextId' \in [TableNames -> Nat \ {0}]
    <3>1. nextId \in [TableNames -> Nat \ {0}] /\ 1 \in Nat \ {0}
      BY <1>2 DEF SeedTypes
    <3> QED
      BY <3>1, <1>5, <1>6
  <2>3. Cardinality(Active)' <= runs'
    BY <1>1, <1>2, <1>5, <1>14 DEF SeedTypes
  <2> QED
    BY <1>2, <1>5, <2>1, <2>2, <2>3 DEF SeedTypes
<1>16. Clean'
  <2>1. \A j \in 1..N : j > version' => ids'[Tables[j]] = {} /\ nextId'[Tables[j]] = 1
    <3> SUFFICES ASSUME NEW j \in 1..N, j > version'
                 PROVE  ids'[Tables[j]] = {} /\ nextId'[Tables[j]] = 1
      OBVIOUS
    <3>1. j = k \/ j > version
      BY <1>1, <1>4, NIsNat
    <3>2. CASE j > version
      BY <1>2, <1>6, <1>7, <3>2 DEF Clean
    <3> QED
      BY <1>7, <3>1, <3>2
  <2>2. \A q \in Procs : Seeding(q)' => version' = N
    BY <1>8, <1>9, <1>10 DEF Seeding, Sections
  <2> QED
    BY <2>1, <2>2 DEF Clean
<1>17. ASSUME 0 \notin fixed'
       PROVE  /\ \A t \in TableNames : ids'[t] = {}
              /\ nextId'["customers"] = 1
              /\ nextId'["users"] + Cardinality(Active)' <= 1 + runs'
  <2>1. CASE Tables[k] = "users"
    <3>1. k = 1
      BY <2>1, TablesFacts
    <3>2. \A j \in 1..N : j = k \/ j > version'
      BY <1>1, <1>4, <3>1, NIsNat
    <3>3. \A t \in TableNames : ids'[t] = {} /\ nextId'[t] = 1
      BY <1>7, <1>16, <3>2, TablesFacts DEF Clean
    <3> QED
      BY SMTT(30), <1>1, <1>6, <1>14, <1>15, <3>3 DEF SeedTypes
  <2>2. CASE Tables[k] # "users"
    <3>1. 0 \notin fixed
      BY <1>5, <1>17, <2>2
    <3>2. /\ \A t \in TableNames : ids[t] = {}
          /\ nextId["customers"] = 1
          /\ nextId["users"] + Cardinality(Active) <= 1 + runs
      BY <1>2, <3>1 DEF OneOwner
    <3>3. nextId'["users"] = nextId["users"] /\ nextId["users"] \in Nat
      BY <1>2, <1>5, <1>6, <2>2 DEF SeedTypes
    <3>4. nextId'["customers"] = 1 /\ \A t \in TableNames : ids'[t] = {}
      BY <1>6, <1>7, <3>2
    <3> QED
      BY SMTT(30), <1>1, <1>5, <1>14, <3>2, <3>3, <3>4
  <2> QED
    BY <2>1, <2>2
<1>18. OneOwner'
  BY <1>12, <1>13, <1>17 DEF OneOwner
<1>19. SeededOnce'
  <2> SUFFICES ASSUME NEW t \in TableNames PROVE Cardinality(ids'[t]) <= Rows[t]
    BY DEF SeededOnce
  <2>1. CASE ids'[t] = {}
    <3>1. Cardinality(ids'[t]) = 0 /\ Rows[t] \in Nat
      BY <2>1, FS_EmptySet, RowsFacts
    <3> QED
      BY <3>1
  <2>2. CASE ids'[t] = ids[t]
    BY <1>2, <2>2 DEF SeededOnce
  <2> QED
    BY <1>7, <2>1, <2>2
<1>20. ConnectsFind'
  <2>1. \A l \in links' : l \in links /\ l.to # Tables[k] /\ l.to \in TableNames
    BY <1>2, <1>5 DEF SeedTypes
  <2> QED
    BY <1>2, <1>7, <2>1 DEF ConnectsFind
<1> QED
  BY <1>12, <1>15, <1>16, <1>18, <1>19, <1>20 DEF SInv

-----------------------------------------------------------------------------
(* An insert. *)

\* The table a section fills, and the section after it.
Filled(x) == IF x = "fixed" THEN "users" ELSE x
Following(x) ==
  CASE x = "fixed" -> "users"
    [] x = "users" -> "customers"
    [] x = "customers" -> "categories"
    [] x = "categories" -> "products"
    [] x = "products" -> "purchases"
    [] x = "purchases" -> "notifications"
    [] x = "notifications" -> "comments"
    [] OTHER -> "done"

\* What a section fills and what follows it.
LEMMA SectionFacts ==
  ASSUME NEW x \in Sections
  PROVE  /\ Filled(x) \in TableNames /\ Place(Filled(x)) = Place(x)
         /\ \A t \in TableNames : Place(t) = Place(x) <=> t = Filled(x)
         /\ Following(x) = "done" \/ Following(x) \in Sections
         /\ Following(x) # "fixed" /\ (Following(x) = "users" <=> x = "fixed")
         /\ x = "fixed" => Place(Following(x)) = Place(x)
         /\ x # "fixed" => Place(Following(x)) = Place(x) + 1
         /\ Place(x) \in Nat
<1>1. /\ Following("fixed") = "users" /\ Following("users") = "customers"
      /\ Following("customers") = "categories" /\ Following("categories") = "products"
      /\ Following("products") = "purchases" /\ Following("purchases") = "notifications"
      /\ Following("notifications") = "comments" /\ Following("comments") = "done"
  BY DEF Following
<1>2. Place("done") = 8
  BY DEF Place
<1>3. x \in {"fixed", "users", "customers", "categories", "products", "purchases",
             "notifications", "comments"}
  BY DEF Sections
<1> QED
  BY <1>1, <1>2, <1>3, PlaceFacts, TablesFacts DEF Filled, Sections

\* No section inserts more than there may be rows.
LEMMA SectionFits ==
  ASSUME NEW x \in Sections
  PROVE  /\ Before(x) \in Nat /\ Times(x) \in Nat \ {0}
         /\ Before(x) + Times(x) <= Rows[Filled(x)] \/ x = "categories"
         /\ x = "fixed" => Times(x) = Before("users")
<1>1. x \in {"fixed", "users", "customers", "categories", "products", "purchases",
             "notifications", "comments"}
  BY DEF Sections
<1>2. {FixedUsers, user_count, customer_count, product_count, purchase_count,
       notifications_count, comments_count} \subseteq Nat \ {0}
  BY CountsArePositive
<1>3. x # "users" => Before(x) = 0
  BY DEF Before
<1>4. Before("users") = FixedUsers
  BY DEF Before
<1> QED
  BY <1>1, <1>2, <1>3, <1>4, RowsFacts, TimesFacts DEF Filled

\* A row more.
LEMMA OneMore ==
  ASSUME NEW S, IsFiniteSet(S), NEW e
  PROVE  /\ IsFiniteSet(S \cup {e}) /\ Cardinality(S) \in Nat
         /\ Cardinality(S \cup {e}) \in Nat
         /\ Cardinality(S \cup {e}) <= Cardinality(S) + 1
<1>1. CASE e \in S
  <2>1. S \cup {e} = S
    BY <1>1
  <2>2. Cardinality(S) \in Nat
    BY FS_CardinalityType
  <2> DEFINE c == Cardinality(S)
  <2>3. c \in Nat => c <= c + 1
    OBVIOUS
  <2> QED
    BY ZenonT(30), <2>1, <2>2, <2>3
<1>2. CASE e \notin S
  <2>1. IsFiniteSet(S \cup {e}) /\ Cardinality(S \cup {e}) = Cardinality(S) + 1
    BY <1>2, FS_AddElement
  <2>2. Cardinality(S) \in Nat
    BY FS_CardinalityType
  <2> QED
    BY <2>1, <2>2
<1> QED
  BY <1>1, <1>2

\* The command of a step, before it: it seeds, and no other is the owner.
Alike(p) ==
  /\ Seeding(p) /\ Progress(p) /\ Collected(p)
  /\ \A q \in Procs : q # p => ~Owner(q)

\* What an insert does, without updates of functions.
LEMMA InsertFacts ==
  ASSUME SInv, NEW p \in Procs, Alike(p), NEW x \in Sections,
         NEW connects, Insert(p, Filled(x), connects, x, Times(x), Following(x))
  PROVE  /\ pc[p] = x /\ n[p] \in Nat /\ n[p] < Times(x)
         /\ \/ n[p] + 1 < Times(x) /\ pc'[p] = x /\ n'[p] = n[p] + 1
            \/ n[p] + 1 = Times(x) /\ pc'[p] = Following(x) /\ n'[p] = 0
         /\ \A q \in Procs : q # p => /\ pc'[q] = pc[q] /\ n'[q] = n[q]
                                      /\ mine'[q] = mine[q]
         /\ ids'[Filled(x)] = ids[Filled(x)] \cup {nextId[Filled(x)]}
         /\ nextId'[Filled(x)] = nextId[Filled(x)] + 1
         /\ \A t \in TableNames : t # Filled(x) => ids'[t] = ids[t] /\ nextId'[t] = nextId[t]
         /\ links' = links \cup connects
         /\ runs' = runs /\ version' = version
<1>1. /\ DOMAIN pc = Procs /\ n \in [Procs -> Nat]
      /\ mine \in [Procs -> [users : Seq(Nat), products : Seq(Nat), comments : Seq(Nat)]]
  BY LocalTypes
<1>2. DOMAIN ids = TableNames /\ DOMAIN nextId = TableNames
  BY DEF SInv, SeedTypes
<1>3. pc[p] = x /\ n[p] < Times(x)
  BY DEF Insert, Alike, Progress
<1>4. n[p] \in Nat /\ Times(x) \in Nat
  BY <1>1, SectionFits
<1>5. /\ n' = [n EXCEPT ![p] = IF n[p] + 1 < Times(x) THEN @ + 1 ELSE 0]
      /\ pc' = [pc EXCEPT ![p] = IF n[p] + 1 < Times(x) THEN x ELSE Following(x)]
  BY DEF Insert
<1>6. \/ n[p] + 1 < Times(x) /\ pc'[p] = x /\ n'[p] = n[p] + 1
      \/ n[p] + 1 = Times(x) /\ pc'[p] = Following(x) /\ n'[p] = 0
  BY <1>1, <1>3, <1>4, <1>5
<1>7. \A q \in Procs : q # p => pc'[q] = pc[q] /\ n'[q] = n[q]
  BY <1>1, <1>5
<1>8. \A q \in Procs : q # p => mine'[q] = mine[q]
  BY <1>1 DEF Insert
<1>9. Filled(x) \in TableNames
  BY SectionFacts
<1>10. /\ ids' = [ids EXCEPT ![Filled(x)] = @ \cup {nextId[Filled(x)]}]
       /\ nextId' = [nextId EXCEPT ![Filled(x)] = @ + 1]
       /\ links' = links \cup connects /\ runs' = runs /\ version' = version
  BY DEF Insert, schema
<1>11. /\ ids'[Filled(x)] = ids[Filled(x)] \cup {nextId[Filled(x)]}
       /\ nextId'[Filled(x)] = nextId[Filled(x)] + 1
       /\ \A t \in TableNames : t # Filled(x) => ids'[t] = ids[t] /\ nextId'[t] = nextId[t]
  BY <1>2, <1>9, <1>10
<1> QED
  BY <1>3, <1>4, <1>6, <1>7, <1>8, <1>10, <1>11

\* What the script has collected after it.
LEMMA InsertCollects ==
  ASSUME SInv, NEW p \in Procs, NEW x \in Sections,
         NEW connects, Insert(p, Filled(x), connects, x, Times(x), Following(x))
  PROVE  /\ mine'[p] \in [users : Seq(Nat), products : Seq(Nat), comments : Seq(Nat)]
         /\ mine[p] \in [users : Seq(Nat), products : Seq(Nat), comments : Seq(Nat)]
         /\ mine' \in [Procs -> [users : Seq(Nat), products : Seq(Nat), comments : Seq(Nat)]]
         /\ \A t \in {"users", "products", "comments"} :
              mine'[p][t] = IF Filled(x) = t THEN Append(mine[p][t], nextId[t]) ELSE mine[p][t]
<1> DEFINE Lists == [users : Seq(Nat), products : Seq(Nat), comments : Seq(Nat)]
           f == Filled(x)
<1>1. mine \in [Procs -> Lists] /\ mine[p] \in Lists
  BY LocalTypes
<1>2. nextId[f] \in Nat
  BY SectionFacts DEF SInv, SeedTypes
<1>3. DOMAIN Nothing = {"users", "products", "comments"}
  BY DEF Nothing
<1>4. mine' = IF f \in DOMAIN Nothing
              THEN [mine EXCEPT ![p][f] = Append(@, nextId[f])] ELSE mine
  BY DEF Insert
<1> HIDE DEF f
<1>5. CASE f \notin DOMAIN Nothing
  <2>1. mine' = mine
    BY <1>4, <1>5
  <2> QED
    BY <1>1, <1>3, <1>5, <2>1 DEF f
<1>6. CASE f \in DOMAIN Nothing
  <2> DEFINE r == [mine[p] EXCEPT ![f] = Append(@, nextId[f])]
  <2>1. mine' = [mine EXCEPT ![p] = r]
    BY <1>4, <1>6
  <2>2. /\ mine[p].users \in Seq(Nat) /\ mine[p].products \in Seq(Nat)
        /\ mine[p].comments \in Seq(Nat)
    BY <1>1
  <2>3. mine[p][f] \in Seq(Nat)
    BY <1>3, <1>6, <2>2
  <2>4. Append(mine[p][f], nextId[f]) \in Seq(Nat)
    BY <1>2, <2>3
  <2>5. r \in Lists
    BY <1>1, <1>3, <1>6, <2>4
  <2>6. \A t \in {"users", "products", "comments"} :
          r[t] = IF f = t THEN Append(mine[p][t], nextId[t]) ELSE mine[p][t]
    BY <1>1
  <2> HIDE DEF r
  <2>7. mine'[p] = r /\ mine' \in [Procs -> Lists]
    BY <1>1, <2>1, <2>5
  <2> QED
    BY <1>1, <2>5, <2>6, <2>7 DEF f
<1> QED
  BY <1>5, <1>6

\* An insert keeps the types, and no command has begun in between ...
LEMMA InsertTypes ==
  ASSUME SInv, IInv', NEW p \in Procs, Alike(p), NEW x \in Sections,
         NEW connects, Insert(p, Filled(x), connects, x, Times(x), Following(x)),
         \A l \in connects : l.to \in TableNames
  PROVE  /\ SeedTypes'
         /\ Cardinality(Active)' \in Nat /\ Cardinality(Active)' <= Cardinality(Active)
         /\ Cardinality(Active) \in Nat /\ Cardinality(Active) >= 1
         /\ runs \in Nat /\ runs <= MaxRuns /\ MaxRuns \in Nat
<1> DEFINE f == Filled(x)
           c == pc'[p]
<1>1. /\ DOMAIN pc = Procs /\ n \in [Procs -> Nat] /\ runs \in 0..MaxRuns
      /\ MaxRuns \in Nat /\ Cardinality(Active) \in Nat
  BY LocalTypes
<1>2. SeedTypes
  BY DEF SInv
<1>3. /\ ids \in [TableNames -> SUBSET Nat] /\ \A t \in TableNames : IsFiniteSet(ids[t])
      /\ nextId \in [TableNames -> Nat \ {0}] /\ Cardinality(Active) <= runs
      /\ \A l \in links : l.to \in TableNames
  BY <1>2 DEF SeedTypes
<1>4. f \in TableNames
  BY SectionFacts
<1>5. nextId[f] \in Nat /\ nextId[f] + 1 \in Nat \ {0}
  BY <1>3, <1>4
<1>6. /\ ids' = [ids EXCEPT ![f] = @ \cup {nextId[f]}]
      /\ nextId' = [nextId EXCEPT ![f] = @ + 1]
      /\ links' = links \cup connects
      /\ n' = [n EXCEPT ![p] = IF n[p] + 1 < Times(x) THEN @ + 1 ELSE 0]
      /\ pc' = [pc EXCEPT ![p] = IF n[p] + 1 < Times(x) THEN x ELSE Following(x)]
      /\ pc[p] = x /\ runs' = runs
  BY DEF Insert
<1> HIDE DEF f
<1>7. ids' \in [TableNames -> SUBSET Nat]
  BY <1>3, <1>4, <1>5, <1>6
<1>8. \A t \in TableNames : IsFiniteSet(ids'[t])
  <2>1. IsFiniteSet(ids[f] \cup {nextId[f]})
    BY <1>3, <1>4, OneMore
  <2>2. \A t \in TableNames : ids'[t] = IF t = f THEN ids[f] \cup {nextId[f]} ELSE ids[t]
    BY <1>3, <1>6
  <2> QED
    BY ZenonT(30), <1>3, <2>1, <2>2
<1>9. nextId' \in [TableNames -> Nat \ {0}]
  BY <1>3, <1>4, <1>5, <1>6
<1>10. n' \in [Procs -> Nat]
  BY <1>1, <1>6
<1>11. mine' \in [Procs -> [users : Seq(Nat), products : Seq(Nat), comments : Seq(Nat)]]
  BY InsertCollects
<1>12. PICK d : pc' = [pc EXCEPT ![p] = d] /\ (d \in Sections \/ d = "done")
  BY <1>6, SectionFacts
<1>13. x \notin Off
  BY DEF Sections, Off
<1>14. Cardinality(Active)' \in Nat /\ Cardinality(Active)' <= Cardinality(Active)
  <2>1. CASE d \in Sections
    <3>1. Active' = Active
      BY <1>1, <1>6, <1>12, <1>13, <2>1, ActiveStays DEF Sections, Off
    <3> QED
      BY <1>1, <3>1
  <2>2. CASE d = "done"
    <3>1. d \in Off
      BY <2>2 DEF Off
    <3>2. Cardinality(Active)' = Cardinality(Active) - 1
      BY <1>1, <1>6, <1>12, <1>13, <3>1, ActiveLeaves
    <3>3. p \in Active
      BY <1>6, <1>13 DEF Active
    <3>4. Cardinality(Active) # 0
      BY <3>3, ActiveFinite, FS_EmptySet
    <3> QED
      BY <1>1, <3>2, <3>4
  <2> QED
    BY <1>12, <2>1, <2>2
<1>15. Cardinality(Active) >= 1
  <2>1. p \in Active
    BY <1>6, <1>13 DEF Active
  <2>2. Cardinality(Active) # 0
    BY <2>1, ActiveFinite, FS_EmptySet
  <2> QED
    BY <1>1, <2>2
<1>16. runs \in Nat /\ runs <= MaxRuns
  BY <1>1
<1>17. SeedTypes'
  <2> DEFINE a == Cardinality(Active)
             b == Cardinality(Active)'
  <2>1. a \in Nat /\ b \in Nat /\ b <= a /\ a <= runs /\ runs \in Nat
    BY <1>3, <1>14, <1>1, <1>16
  <2> HIDE DEF a, b
  <2>2. b <= runs
    BY <2>1
  <2>3. \A l \in links' : l.to \in TableNames
    BY <1>3, <1>6
  <2> QED
    BY <1>1, <1>6, <1>7, <1>8, <1>9, <1>10, <1>11, <2>2, <2>3 DEF SeedTypes, b
<1> QED
  BY <1>1, <1>14, <1>15, <1>16, <1>17

\* ... the tables and the owner stay what they are ...
LEMMA InsertOwner ==
  ASSUME SInv, NEW p \in Procs, Alike(p), NEW x \in Sections,
         NEW connects, Insert(p, Filled(x), connects, x, Times(x), Following(x)), 0 \in fixed'
  PROVE  /\ Clean' /\ OneOwner'
         /\ \A q \in Procs : q # p => ~Owner(q)'
<1>1. /\ pc[p] = x /\ n[p] \in Nat
      /\ \/ n[p] + 1 < Times(x) /\ pc'[p] = x /\ n'[p] = n[p] + 1
         \/ n[p] + 1 = Times(x) /\ pc'[p] = Following(x) /\ n'[p] = 0
      /\ \A q \in Procs : q # p => pc'[q] = pc[q] /\ n'[q] = n[q] /\ mine'[q] = mine[q]
      /\ version' = version
  BY InsertFacts
<1>2. Clean /\ OneOwner
  BY DEF SInv
<1>3. version = N /\ N \in Nat
  BY <1>2, NIsNat DEF Clean, Alike
<1>4. Clean'
  BY <1>1, <1>3 DEF Clean
<1>5. \A q \in Procs : q # p => /\ Fresh(q)' <=> Fresh(q)
                                /\ Owner(q)' <=> Owner(q)
  BY <1>1 DEF Seeding, Fresh, Owner, Migrating
<1>6. ~Fresh(p)'
  <2>1. ~Migrating(p)'
    <3>1. pc'[p] \in Sections \cup {"done"}
      BY <1>1, SectionFacts
    <3> QED
      BY <3>1 DEF Migrating, Sections
  <2>2. pc'[p] = "fixed" => n'[p] # 0
    BY <1>1, SectionFacts
  <2> QED
    BY <2>1, <2>2 DEF Fresh
<1>7. \A q \in Procs : q # p => ~Owner(q)'
  BY <1>5 DEF Alike
<1>8. \A q \in Procs : Fresh(q)' => n'[q] = 0 /\ mine'[q] = Nothing
  BY <1>1, <1>2, <1>5, <1>6 DEF OneOwner
<1>9. OneOwner'
  BY <1>7, <1>8 DEF OneOwner
<1> QED
  BY <1>4, <1>7, <1>9

\* ... its rows are no more than the sections so far insert ...
LEMMA InsertCounts ==
  ASSUME SInv, NEW p \in Procs, Alike(p), NEW x \in Sections, x # "categories",
         NEW connects, Insert(p, Filled(x), connects, x, Times(x), Following(x))
  PROVE  SeededOnce' /\ (Seeding(p)' => Progress(p)')
<1> DEFINE f == Filled(x)
<1>1. /\ pc[p] = x /\ n[p] \in Nat /\ n[p] < Times(x)
      /\ \/ n[p] + 1 < Times(x) /\ pc'[p] = x /\ n'[p] = n[p] + 1
         \/ n[p] + 1 = Times(x) /\ pc'[p] = Following(x) /\ n'[p] = 0
      /\ ids'[f] = ids[f] \cup {nextId[f]}
      /\ \A t \in TableNames : t # f => ids'[t] = ids[t]
  BY InsertFacts
<1>2. /\ \A t \in TableNames : Place(t) > Place(x) => ids[t] = {}
      /\ \A t \in TableNames : Place(t) = Place(x) => Cardinality(ids[t]) <= Before(x) + n[p]
  BY <1>1 DEF Alike, Progress
<1>3. /\ f \in TableNames /\ \A t \in TableNames : Place(t) = Place(x) <=> t = f
      /\ Place(x) \in Nat /\ Before(x) \in Nat /\ Times(x) \in Nat
      /\ Before(x) + Times(x) <= Rows[f]
  BY SectionFacts, SectionFits
<1>4. Cardinality(ids'[f]) \in Nat /\ Cardinality(ids'[f]) <= Before(x) + n[p] + 1
  <2>1. IsFiniteSet(ids[f])
    BY <1>3 DEF SInv, SeedTypes
  <2> DEFINE a == Cardinality(ids[f])
             b == Cardinality(ids'[f])
  <2>2. a \in Nat /\ b \in Nat /\ b <= a + 1
    BY <1>1, <2>1, OneMore
  <2>3. a <= Before(x) + n[p]
    BY <1>2, <1>3
  <2> HIDE DEF a, b
  <2>4. b <= Before(x) + n[p] + 1
    BY <1>1, <1>3, <2>2, <2>3
  <2> QED
    BY <2>2, <2>4 DEF b
<1> HIDE DEF f
<1>5. SeededOnce'
  <2> SUFFICES ASSUME NEW t \in TableNames PROVE Cardinality(ids'[t]) <= Rows[t]
    BY DEF SeededOnce
  <2>1. CASE t = f
    <3> DEFINE b == Cardinality(ids'[f])
    <3>1. b \in Nat /\ b <= Before(x) + n[p] + 1
      BY <1>4
    <3>2. Rows[f] \in Nat
      BY <1>3, RowsFacts
    <3> HIDE DEF b
    <3>3. b <= Rows[f]
      BY <1>1, <1>3, <3>1, <3>2
    <3> QED
      BY <2>1, <3>3 DEF b
  <2>2. CASE t # f
    BY <1>1, <2>2 DEF SInv, SeededOnce
  <2> QED
    BY <2>1, <2>2
<1>6. ASSUME Seeding(p)' PROVE Progress(p)'
  <2>1. CASE n[p] + 1 < Times(x) /\ pc'[p] = x /\ n'[p] = n[p] + 1
    <3>1. n'[p] < Times(pc'[p])
      BY <2>1
    <3>2. \A t \in TableNames : Place(t) > Place(pc'[p]) => ids'[t] = {}
      BY <1>1, <1>2, <1>3, <2>1
    <3>3. \A t \in TableNames :
            Place(t) = Place(pc'[p]) => Cardinality(ids'[t]) <= Before(pc'[p]) + n'[p]
      <4>1. Before(x) + (n[p] + 1) = Before(x) + n[p] + 1
        BY <1>1, <1>3
      <4> QED
        BY <1>3, <1>4, <2>1, <4>1
    <3> QED
      BY <3>1, <3>2, <3>3 DEF Progress, Times, Place, Before
  <2>2. CASE n[p] + 1 = Times(x) /\ pc'[p] = Following(x) /\ n'[p] = 0
    <3> DEFINE y == Following(x)
    <3>1. /\ y \in Sections /\ (y = "users" <=> x = "fixed")
          /\ x = "fixed" => Place(y) = Place(x)
          /\ x # "fixed" => Place(y) = Place(x) + 1
      BY <1>6, <2>2, SectionFacts DEF Seeding, Sections
    <3>2. Times(y) \in Nat \ {0} /\ Before(y) \in Nat
      BY <3>1, SectionFits
    <3> HIDE DEF y
    <3>3. n'[p] < Times(pc'[p])
      BY <2>2, <3>2 DEF y
    <3>4. \A t \in TableNames : Place(t) > Place(y) => ids'[t] = {}
      <4> SUFFICES ASSUME NEW t \in TableNames, Place(t) > Place(y) PROVE ids'[t] = {}
        OBVIOUS
      <4>1. Place(t) \in Nat
        BY PlaceFacts
      <4>2. Place(t) > Place(x)
        BY <1>3, <3>1, <4>1
      <4>3. t # f
        BY <1>3, <4>1, <4>2
      <4> QED
        BY <1>1, <1>2, <4>2, <4>3
    <3>5. \A t \in TableNames : Place(t) = Place(y) => Cardinality(ids'[t]) <= Before(y) + 0
      <4> SUFFICES ASSUME NEW t \in TableNames, Place(t) = Place(y)
                   PROVE  Cardinality(ids'[t]) <= Before(y) + 0
        OBVIOUS
      <4>1. CASE x = "fixed"
        <5>1. t = f /\ Before(x) = 0 /\ Before(y) = Times(x)
          BY <1>3, <3>1, <4>1, SectionFits DEF Before
        <5> DEFINE b == Cardinality(ids'[f])
        <5>2. b \in Nat /\ b <= 0 + n[p] + 1
          BY <1>4, <5>1
        <5> HIDE DEF b
        <5>3. b <= Before(y) + 0
          BY <1>1, <1>3, <2>2, <5>1, <5>2
        <5> QED
          BY <5>1, <5>3 DEF b
      <4>2. CASE x # "fixed"
        <5>1. Place(t) = Place(x) + 1
          BY <3>1, <4>2
        <5>2. t # f /\ Place(t) > Place(x)
          BY <1>3, <5>1
        <5>3. ids'[t] = {}
          BY <1>1, <1>2, <5>2
        <5>4. Cardinality(ids'[t]) = 0
          BY <5>3, FS_EmptySet
        <5> QED
          BY <3>2, <5>4
      <4> QED
        BY <4>1, <4>2
    <3> QED
      BY <2>2, <3>3, <3>4, <3>5 DEF Progress, Times, Place, Before, y
  <2> QED
    BY <1>1, <2>1, <2>2
<1> QED
  BY <1>5, <1>6

\* An element more.
LEMMA ListGrows ==
  ASSUME NEW L \in Seq(Nat), NEW e \in Nat
  PROVE  /\ Append(L, e) \in Seq(Nat) /\ Len(L) \in Nat
         /\ Len(Append(L, e)) = Len(L) + 1
         /\ \A i \in 1..Len(L) + 1 : \/ i \in 1..Len(L) /\ Append(L, e)[i] = L[i]
                                     \/ i = Len(L) + 1 /\ Append(L, e)[i] = e
OBVIOUS

Lists == {"users", "products", "comments"}

\* What is collected of a table is in the table, and goes on to be.
LEMMA CollectedStays ==
  ASSUME SInv, NEW p \in Procs, Alike(p), NEW x \in Sections,
         NEW connects, Insert(p, Filled(x), connects, x, Times(x), Following(x)),
         NEW t \in Lists
  PROVE  /\ mine[p][t] \in Seq(Nat) /\ mine'[p][t] \in Seq(Nat)
         /\ Len(mine[p][t]) \in Nat
         /\ Filled(x) = t => Len(mine'[p][t]) = Len(mine[p][t]) + 1
         /\ Filled(x) # t => Len(mine'[p][t]) = Len(mine[p][t])
         /\ \A i \in 1..Len(mine'[p][t]) : mine'[p][t][i] \in ids'[t]
         /\ \A i \in 1..Len(mine'[p][t]) :
              \/ i \in 1..Len(mine[p][t]) /\ mine'[p][t][i] = mine[p][t][i]
              \/ Filled(x) = t /\ i = Len(mine[p][t]) + 1 /\ mine'[p][t][i] = nextId[t]
<1> DEFINE f == Filled(x)
           L == mine[p][t]
           M == mine'[p][t]
<1>1. L \in Seq(Nat) /\ M = IF f = t THEN Append(L, nextId[t]) ELSE L
  <2>1. mine[p] \in [users : Seq(Nat), products : Seq(Nat), comments : Seq(Nat)]
    BY InsertCollects
  <2>2. /\ mine[p].users \in Seq(Nat) /\ mine[p].products \in Seq(Nat)
        /\ mine[p].comments \in Seq(Nat)
    BY <2>1
  <2> QED
    BY <2>2, InsertCollects DEF Lists
<1>2. nextId[t] \in Nat /\ t \in TableNames
  BY TablesFacts DEF SInv, SeedTypes, Lists
<1>3. \A i \in 1..Len(L) : L[i] \in ids[t]
  BY DEF Alike, Collected, Lists
<1>4. /\ f = t => ids'[t] = ids[t] \cup {nextId[t]}
      /\ f # t => ids'[t] = ids[t]
  BY <1>2, InsertFacts
<1> HIDE DEF f, L, M
<1>5. CASE f = t
  <2>1. M = Append(L, nextId[t]) /\ ids'[t] = ids[t] \cup {nextId[t]}
    BY <1>1, <1>4, <1>5
  <2>2. /\ M \in Seq(Nat) /\ Len(L) \in Nat /\ Len(M) = Len(L) + 1
        /\ \A i \in 1..Len(L) + 1 : \/ i \in 1..Len(L) /\ M[i] = L[i]
                                    \/ i = Len(L) + 1 /\ M[i] = nextId[t]
    BY <1>1, <1>2, <2>1, ListGrows
  <2>3. \A i \in 1..Len(M) : M[i] \in ids'[t]
    BY <1>3, <2>1, <2>2
  <2> QED
    BY <1>1, <1>5, <2>2, <2>3 DEF f, L, M
<1>6. CASE f # t
  <2>1. M = L /\ ids'[t] = ids[t] /\ Len(L) \in Nat
    BY <1>1, <1>4, <1>6
  <2> QED
    BY <1>1, <1>3, <1>6, <2>1 DEF f, L, M
<1> QED
  BY <1>5, <1>6

\* The ids of users stay within those of customers.
LEMMA UsersWithin ==
  ASSUME SInv, IInv', NEW p \in Procs, Alike(p), NEW x \in Sections,
         NEW connects, Insert(p, Filled(x), connects, x, Times(x), Following(x)),
         \A l \in connects : l.to \in TableNames
  PROVE  /\ \A i \in 1..Len(mine'[p].users) : /\ mine'[p].users[i] >= 1
                                              /\ mine'[p].users[i] < i + MaxRuns
         /\ pc'[p] \in {"fixed", "users"} =>
              nextId'["users"] + Cardinality(Active)' <= Len(mine'[p].users) + 1 + runs'
<1> DEFINE L == mine[p].users
           M == mine'[p].users
           u == nextId["users"]
           a == Cardinality(Active)
           b == Cardinality(Active)'
<1>1. /\ L \in Seq(Nat) /\ M \in Seq(Nat) /\ Len(L) \in Nat
      /\ Filled(x) = "users" => Len(M) = Len(L) + 1
      /\ \A i \in 1..Len(M) : \/ i \in 1..Len(L) /\ M[i] = L[i]
                              \/ Filled(x) = "users" /\ i = Len(L) + 1 /\ M[i] = u
  <2>1. "users" \in Lists
    BY DEF Lists
  <2> QED
    BY <2>1, CollectedStays
<1>2. /\ a \in Nat /\ b \in Nat /\ b <= a /\ a >= 1
      /\ runs \in Nat /\ runs <= MaxRuns /\ MaxRuns \in Nat
  BY InsertTypes
<1>3. pc[p] = x /\ runs' = runs
  BY InsertFacts
<1>4. Filled(x) = "users" => /\ u + a <= Len(L) + 1 + runs
                             /\ nextId'["users"] = u + 1
  <2>1. Filled(x) = "users" => x \in {"fixed", "users"}
    BY DEF Filled
  <2> QED
    BY <1>3, <2>1, InsertFacts DEF Alike, Collected
<1>5. \A i \in 1..Len(L) : L[i] >= 1 /\ L[i] < i + MaxRuns
  BY DEF Alike, Collected
<1>6. pc'[p] \in {"fixed", "users"} => Filled(x) = "users"
  <2>1. pc'[p] = x \/ pc'[p] = Following(x)
    BY InsertFacts
  <2> QED
    BY <2>1, SectionFacts DEF Filled
<1>7. u \in Nat \ {0}
  BY TablesFacts DEF SInv, SeedTypes
<1> HIDE DEF L, M, u, a, b
<1>8. ASSUME NEW i \in 1..Len(M)
      PROVE  M[i] >= 1 /\ M[i] < i + MaxRuns
  <2>1. CASE i \in 1..Len(L) /\ M[i] = L[i]
    BY <1>5, <2>1
  <2>2. CASE Filled(x) = "users" /\ i = Len(L) + 1 /\ M[i] = u
    <3>1. u >= 1 /\ u < Len(L) + 1 + MaxRuns
      BY <1>1, <1>2, <1>4, <1>7, <2>2
    <3> QED
      BY <2>2, <3>1
  <2> QED
    BY <1>1, <2>1, <2>2
<1>9. Filled(x) = "users" => u + 1 + b <= Len(M) + 1 + runs
  <2> DEFINE l == Len(L)
             m == Len(M)
  <2>1. Filled(x) = "users" => l \in Nat /\ m = l + 1 /\ u + a <= l + 1 + runs
    BY <1>1, <1>4
  <2> HIDE DEF l, m
  <2>2. Filled(x) = "users" => u + 1 + b <= m + 1 + runs
    BY <1>2, <1>7, <2>1
  <2> QED
    BY <2>2 DEF m
<1>10. pc'[p] \in {"fixed", "users"} =>
         nextId'["users"] + b <= Len(M) + 1 + runs'
  BY <1>3, <1>4, <1>6, <1>9
<1> QED
  BY <1>8, <1>10 DEF M, b

\* What a section leaves behind is what the later ones find.
LEMMA InsertCollected ==
  ASSUME SInv, IInv', NEW p \in Procs, Alike(p), NEW x \in Sections, x # "categories",
         NEW connects, Insert(p, Filled(x), connects, x, Times(x), Following(x)),
         \A l \in connects : l.to \in TableNames, Seeding(p)'
  PROVE  Collected(p)'
<1> DEFINE y == pc'[p]
           lu == Len(mine[p].users)
           lp == Len(mine[p].products)
           mu == Len(mine'[p].users)
           mp == Len(mine'[p].products)
           nc == nextId["customers"]
           nn == n[p]
<1>1. /\ pc[p] = x /\ nn \in Nat /\ nn < Times(x)
      /\ \/ nn + 1 < Times(x) /\ y = x /\ n'[p] = nn + 1
         \/ nn + 1 = Times(x) /\ y = Following(x) /\ n'[p] = 0
      /\ ids'[Filled(x)] = ids[Filled(x)] \cup {nextId[Filled(x)]}
      /\ nextId'[Filled(x)] = nextId[Filled(x)] + 1
      /\ \A t \in TableNames : t # Filled(x) => ids'[t] = ids[t] /\ nextId'[t] = nextId[t]
  BY InsertFacts
<1>2. /\ lu \in Nat /\ lp \in Nat
      /\ mu = IF Filled(x) = "users" THEN lu + 1 ELSE lu
      /\ mp = IF Filled(x) = "products" THEN lp + 1 ELSE lp
      /\ \A i \in 1..Len(mine'[p].users) : mine'[p].users[i] \in ids'["users"]
      /\ \A i \in 1..Len(mine'[p].products) : mine'[p].products[i] \in ids'["products"]
      /\ \A i \in 1..Len(mine'[p].comments) : mine'[p].comments[i] \in ids'["comments"]
  <2>1. "users" \in Lists /\ "products" \in Lists /\ "comments" \in Lists
    BY DEF Lists
  <2> QED
    BY <2>1, CollectedStays
<1>3. /\ x \in {"fixed", "users"} => lu = Before(x) + nn /\ nc = 1
      /\ x \notin {"fixed", "users"} => lu >= user_count
      /\ x = "customers" => nc = nn + 1 /\ 1..nn \subseteq ids["customers"]
      /\ Place(x) > 2 => 1..customer_count \subseteq ids["customers"]
      /\ Place(x) > 3 => {1, 2} \subseteq ids["categories"]
      /\ Place(x) < 4 => lp = 0
      /\ x = "products" => lp = nn
      /\ Place(x) > 4 => lp >= product_count
  BY <1>1 DEF Alike, Collected
<1>4. /\ "customers" \in TableNames /\ "categories" \in TableNames
      /\ Following("fixed") = "users" /\ Following("users") = "customers"
      /\ Following("customers") = "categories" /\ Following("products") = "purchases"
      /\ Following("purchases") = "notifications" /\ Following("notifications") = "comments"
      /\ Following("comments") = "done"
  BY TablesFacts DEF Following
<1>5. /\ y \in Sections
      /\ x \in {"fixed", "users", "customers", "products", "purchases", "notifications",
                "comments"}
  BY DEF Seeding, Sections
<1>6. {FixedUsers, user_count, customer_count, product_count, purchase_count,
       notifications_count, comments_count} \subseteq Nat \ {0}
  BY CountsArePositive
<1>7. /\ Before("fixed") = 0 /\ Before("users") = FixedUsers
  BY DEF Before
<1> HIDE DEF y, lu, lp, mu, mp, nc, nn
<1>8. y \in {"fixed", "users"} => mu = Before(y) + n'[p] /\ nextId'["customers"] = 1
  <2> SUFFICES ASSUME y \in {"fixed", "users"}
               PROVE  mu = Before(y) + n'[p] /\ nextId'["customers"] = 1
    OBVIOUS
  <2>1. x \in {"fixed", "users"}
    BY <1>1, <1>4, <1>5
  <2>2. Filled(x) = "users" /\ mu = lu + 1 /\ lu = Before(x) + nn /\ nc = 1
    BY <1>2, <1>3, <2>1 DEF Filled
  <2>3. nextId'["customers"] = 1
    BY <1>1, <1>4, <2>2 DEF nc
  <2>4. mu = Before(y) + n'[p]
    BY <1>1, <1>4, <1>6, <1>7, <2>1, <2>2, TimesFacts
  <2> QED
    BY <2>3, <2>4
<1>9. y \notin {"fixed", "users"} => mu >= user_count
  <2> SUFFICES ASSUME y \notin {"fixed", "users"} PROVE mu >= user_count
    OBVIOUS
  <2>1. CASE x \in {"fixed", "users"}
    <3>1. x = "users" /\ nn + 1 = user_count
      BY <1>1, <1>4, <2>1, TimesFacts
    <3>2. mu = FixedUsers + nn + 1
      BY <1>2, <1>3, <1>6, <1>7, <3>1, <1>1 DEF Filled
    <3> QED
      BY <1>1, <1>6, <3>1, <3>2
  <2>2. CASE x \notin {"fixed", "users"}
    BY <1>2, <1>3, <2>2 DEF Filled
  <2> QED
    BY <2>1, <2>2
<1>10. y = "customers" => /\ nextId'["customers"] = n'[p] + 1
                          /\ 1..n'[p] \subseteq ids'["customers"]
  <2> SUFFICES ASSUME y = "customers"
               PROVE  /\ nextId'["customers"] = n'[p] + 1
                      /\ 1..n'[p] \subseteq ids'["customers"]
    OBVIOUS
  <2>1. CASE x = "customers"
    <3>1. Filled(x) = "customers" /\ n'[p] = nn + 1
      BY <1>1, <1>4, <2>1 DEF Filled
    <3>2. /\ ids'["customers"] = ids["customers"] \cup {nc} /\ nextId'["customers"] = nc + 1
          /\ nc = nn + 1 /\ 1..nn \subseteq ids["customers"]
      BY <1>1, <1>3, <2>1, <3>1 DEF nc
    <3>3. 1..(nn + 1) \subseteq 1..nn \cup {nn + 1}
      BY <1>1
    <3> QED
      BY <3>1, <3>2, <3>3
  <2>2. CASE x # "customers"
    <3>1. x = "users" /\ n'[p] = 0 /\ Filled(x) = "users"
      BY <1>1, <1>4, <1>5, <2>2 DEF Filled
    <3>2. nextId'["customers"] = 1
      BY <1>1, <1>3, <1>4, <3>1 DEF nc
    <3> QED
      BY <3>1, <3>2
  <2> QED
    BY <2>1, <2>2
<1>11. Place(y) > 2 => 1..customer_count \subseteq ids'["customers"]
  <2> SUFFICES ASSUME Place(y) > 2 PROVE 1..customer_count \subseteq ids'["customers"]
    OBVIOUS
  <2>1. CASE x = "customers"
    <3>1. Filled(x) = "customers" /\ nn + 1 = customer_count
      BY <1>1, <2>1, PlaceFacts, TimesFacts DEF Filled
    <3>2. /\ ids'["customers"] = ids["customers"] \cup {nc}
          /\ nc = nn + 1 /\ 1..nn \subseteq ids["customers"]
      BY <1>1, <1>3, <2>1, <3>1 DEF nc
    <3>3. 1..(nn + 1) \subseteq 1..nn \cup {nn + 1}
      BY <1>1
    <3> QED
      BY <3>1, <3>2, <3>3
  <2>2. CASE x # "customers"
    <3>1. x \notin {"fixed", "users"}
      BY <1>1, <1>4, <2>2, PlaceFacts
    <3>2. Place(x) > 2 /\ Filled(x) # "customers"
      BY <1>5, <2>2, <3>1, PlaceFacts DEF Filled
    <3> QED
      BY <1>1, <1>3, <1>4, <3>2
  <2> QED
    BY <2>1, <2>2
<1>12. Place(y) > 3 => {1, 2} \subseteq ids'["categories"]
  <2> SUFFICES ASSUME Place(y) > 3 PROVE {1, 2} \subseteq ids'["categories"]
    OBVIOUS
  <2>1. x \notin {"fixed", "users", "customers"}
    BY <1>1, <1>4, PlaceFacts
  <2>2. Place(x) > 3 /\ Filled(x) # "categories"
    BY <1>5, <2>1, PlaceFacts DEF Filled
  <2> QED
    BY <1>1, <1>3, <1>4, <2>2
<1>13. Place(y) < 4 => mp = 0
  <2> SUFFICES ASSUME Place(y) < 4 PROVE mp = 0
    OBVIOUS
  <2>1. x \in {"fixed", "users", "customers"}
    BY <1>1, <1>4, <1>5, PlaceFacts DEF Sections
  <2>2. Place(x) < 4 /\ Filled(x) # "products"
    BY <2>1, PlaceFacts DEF Filled
  <2> QED
    BY <1>2, <1>3, <2>2
<1>14. y = "products" => mp = n'[p]
  <2> SUFFICES ASSUME y = "products" PROVE mp = n'[p]
    OBVIOUS
  <2>1. x = "products" /\ n'[p] = nn + 1
    BY <1>1, <1>4, <1>5
  <2> QED
    BY <1>2, <1>3, <2>1 DEF Filled
<1>15. Place(y) > 4 => mp >= product_count
  <2> SUFFICES ASSUME Place(y) > 4 PROVE mp >= product_count
    OBVIOUS
  <2>1. CASE x = "products"
    <3>1. nn + 1 = product_count /\ mp = lp + 1 /\ lp = nn
      BY <1>1, <1>2, <1>3, <2>1, PlaceFacts, TimesFacts DEF Filled
    <3> QED
      BY <1>1, <3>1
  <2>2. CASE x # "products"
    <3>1. x \in {"purchases", "notifications", "comments"}
      BY <1>1, <1>4, <1>5, <2>2, PlaceFacts
    <3>2. Place(x) > 4 /\ mp = lp
      BY <1>2, <3>1, PlaceFacts DEF Filled
    <3> QED
      BY <1>3, <3>2
  <2> QED
    BY <2>1, <2>2
<1> QED
  BY <1>2, <1>8, <1>9, <1>10, <1>11, <1>12, <1>13, <1>14, <1>15, UsersWithin
  DEF Collected, y, mu, mp, Place, Before

-----------------------------------------------------------------------------
(* The statements of the script. *)

\* An insert of the owner, or of the command that becomes it.
LEMMA InsertSKeeps ==
  ASSUME SInv, IInv', NEW p \in Procs, Alike(p), NEW x \in Sections, x # "categories",
         NEW connects, Insert(p, Filled(x), connects, x, Times(x), Following(x)),
         \A l \in connects : l.to \in TableNames /\ l.id \in ids[l.to],
         0 \in fixed'
  PROVE  SInv'
<1>1. \A l \in connects : l.to \in TableNames
  OBVIOUS
<1>2. SeedTypes' /\ Clean' /\ OneOwner' /\ SeededOnce'
  BY <1>1, InsertTypes, InsertOwner, InsertCounts
<1>3. ASSUME NEW q \in Procs, Owner(q)' PROVE Progress(q)' /\ Collected(q)'
  <2>1. q = p /\ Seeding(p)'
    BY <1>3, InsertOwner DEF Owner
  <2> QED
    BY <1>1, <2>1, InsertCounts, InsertCollected
<1>4. ConnectsFind'
  <2>1. \A t \in TableNames : ids[t] \subseteq ids'[t]
    BY InsertFacts
  <2>2. \A l \in links : l.to \in TableNames /\ l.id \in ids[l.to]
    BY DEF SInv, SeedTypes, ConnectsFind
  <2>3. links' = links \cup connects
    BY InsertFacts
  <2> QED
    BY <2>1, <2>2, <2>3 DEF ConnectsFind
<1> QED
  BY <1>2, <1>3, <1>4 DEF SInv

\* The owner is the only one, and the first fixed user is there.
LEMMA OwnerAlike ==
  ASSUME SInv, NEW p \in Procs, Owner(p)
  PROVE  Alike(p) /\ 0 \in fixed
BY DEF SInv, OneOwner, Owner, Alike

\* A command that seeds behind the fixed users is the owner.
LEMMA LaterIsOwner ==
  ASSUME SInv, NEW p \in Procs, NEW x \in Sections, x # "fixed", pc[p] = x
  PROVE  Owner(p)
BY DEF Owner, Seeding, Fresh, Migrating, Sections

\* Before the first fixed user is there nobody is the owner, and there is nothing.
LEMMA FirstAlike ==
  ASSUME SInv, NEW p \in Procs, pc[p] = "fixed", 0 \notin fixed
  PROVE  Alike(p)
<1>1. \A q \in Procs : ~Owner(q)
  BY DEF SInv, OneOwner
<1>2. Seeding(p) /\ n[p] = 0 /\ mine[p] = Nothing
  <2>1. Seeding(p)
    BY DEF Seeding, Sections
  <2>2. Fresh(p)
    BY <1>1, <2>1 DEF Owner
  <2> QED
    BY <2>1, <2>2 DEF SInv, OneOwner
<1>3. /\ \A t \in TableNames : ids[t] = {}
      /\ nextId["customers"] = 1
      /\ nextId["users"] + Cardinality(Active) <= 1 + runs
  BY DEF SInv, OneOwner
<1>4. Progress(p)
  <2>1. Times("fixed") \in Nat \ {0} /\ Before("fixed") = 0
    BY TimesFacts DEF Sections, Before
  <2>2. n[p] < Times(pc[p])
    BY <1>2, <2>1
  <2>3. \A t \in TableNames : Cardinality(ids[t]) = 0
    BY <1>3, FS_EmptySet
  <2>4. \A t \in TableNames :
          Place(t) = Place(pc[p]) => Cardinality(ids[t]) <= Before(pc[p]) + n[p]
    BY <1>2, <2>1, <2>3
  <2> QED
    BY <1>3, <2>2, <2>4 DEF Progress
<1>5. Collected(p)
  <2>1. /\ mine[p].users = <<>> /\ mine[p].products = <<>> /\ mine[p].comments = <<>>
    BY <1>2 DEF Nothing
  <2>2. Len(mine[p].users) = 0 /\ Len(mine[p].products) = 0 /\ Len(mine[p].comments) = 0
    BY <2>1
  <2>3. Place(pc[p]) = 1 /\ Before(pc[p]) = 0
    BY PlaceFacts DEF Before
  <2>4. \A i \in 1..0 : FALSE
    OBVIOUS
  <2> DEFINE u == nextId["users"]
             a == Cardinality(Active)
  <2>5. u + a <= 1 + runs => u + a <= 0 + 1 + runs
    <3>1. u \in Nat
      BY TablesFacts DEF SInv, SeedTypes
    <3>2. a \in Nat /\ runs \in 0..MaxRuns
      BY LocalTypes
    <3>3. runs \in Nat
      BY <3>2, LocalTypes
    <3> HIDE DEF u, a
    <3> QED
      BY <3>1, <3>2, <3>3
  <2> HIDE DEF u, a
  <2>6. u + a <= Len(mine[p].users) + 1 + runs
    BY <1>3, <2>2, <2>5 DEF u, a
  <2> QED
    BY <1>2, <1>3, <2>2, <2>3, <2>4, <2>6 DEF Collected, u, a
<1> QED
  BY <1>1, <1>2, <1>4, <1>5 DEF Alike

\* An insert that is refused takes an id and ends its command.
LEMMA RefuseSKeeps ==
  ASSUME SInv, IInv', NEW p \in Procs, NEW t \in {"users", "customers"},
         NEW x \in Sections, Refuse(p, t, x), t = "customers" => Owner(p)
  PROVE  SInv'
<1> DEFINE a == Cardinality(Active)
           b == Cardinality(Active)'
           u == nextId["users"]
           u2 == nextId'["users"]
<1>1. /\ DOMAIN pc = Procs /\ runs \in 0..MaxRuns /\ a \in Nat /\ MaxRuns \in Nat
  BY LocalTypes
<1>2. /\ SeedTypes /\ Clean /\ OneOwner /\ SeededOnce /\ ConnectsFind
      /\ \A q \in Procs : Owner(q) => Progress(q) /\ Collected(q)
  BY DEF SInv
<1>3. /\ pc[p] = x /\ pc' = [pc EXCEPT ![p] = "failed"]
      /\ nextId' = [nextId EXCEPT ![t] = @ + 1]
      /\ UNCHANGED <<version, ids, fixed, links, n, mine, runs>>
  BY DEF Refuse, schema
<1>4. t \in TableNames /\ "users" \in TableNames /\ "customers" \in TableNames
  BY TablesFacts
<1>5. nextId \in [TableNames -> Nat \ {0}] /\ a <= runs
  BY <1>2 DEF SeedTypes
<1>6. nextId' \in [TableNames -> Nat \ {0}]
  <2>1. nextId[t] + 1 \in Nat \ {0}
    BY <1>4, <1>5
  <2> QED
    BY <1>3, <1>4, <1>5, <2>1
<1>7. /\ u \in Nat /\ u2 \in Nat /\ u2 <= u + 1
      /\ t = "users" => nextId'["customers"] = nextId["customers"]
  BY <1>3, <1>4, <1>5
<1>8. b = a - 1
  <2>1. x \notin Off /\ "failed" \in Off
    BY DEF Sections, Off
  <2> QED
    BY <1>1, <1>3, <2>1, ActiveLeaves
<1>9. b \in Nat
  <2>1. Active' \subseteq Procs
    BY DEF Active
  <2> QED
    BY <2>1, ProcsFinite, FS_Subset, FS_CardinalityType
<1>10. runs \in Nat
  BY <1>1
<1> HIDE DEF a, b, u, u2
<1>11. b <= runs /\ u2 + b <= u + a
  BY <1>1, <1>5, <1>7, <1>8, <1>9, <1>10
<1>12. SeedTypes'
  BY <1>2, <1>3, <1>6, <1>11 DEF SeedTypes, b
<1>13. pc'[p] = "failed" /\ \A q \in Procs : q # p => pc'[q] = pc[q]
  BY <1>1, <1>3
<1>14. ~Seeding(p)' /\ ~Fresh(p)' /\ ~Owner(p)'
  BY <1>13 DEF Seeding, Fresh, Owner, Migrating, Sections
<1>15. \A q \in Procs : q # p => /\ Seeding(q)' <=> Seeding(q)
                                 /\ Fresh(q)' <=> Fresh(q)
                                 /\ Owner(q)' <=> Owner(q)
  BY <1>3, <1>13 DEF Seeding, Fresh, Owner, Migrating
<1>16. Clean'
  <2>1. version = N
    BY <1>2, <1>3 DEF Clean, Seeding
  <2>2. version' = N /\ N \in Nat
    BY <1>3, <2>1, NIsNat
  <2> QED
    BY <2>2 DEF Clean
<1>17. OneOwner'
  <2>1. ASSUME 0 \notin fixed
        PROVE  /\ nextId'["customers"] = 1
               /\ u2 + b <= 1 + runs
    <3>1. t = "users"
      BY <1>2, <2>1 DEF OneOwner
    <3>2. nextId["customers"] = 1 /\ u + a <= 1 + runs
      BY <1>2, <2>1 DEF OneOwner, u, a
    <3>3. u2 + b <= 1 + runs
      BY <1>1, <1>7, <1>9, <1>10, <1>11, <3>2
    <3> QED
      BY <1>7, <3>1, <3>2, <3>3
  <2>2. \A q \in Procs : Fresh(q)' => n'[q] = 0 /\ mine'[q] = Nothing
    BY <1>2, <1>3, <1>14, <1>15 DEF OneOwner
  <2>3. \A q \in Procs : Owner(q)' => Owner(q)
    BY <1>14, <1>15
  <2>4. 0 \notin fixed' => /\ \A s \in TableNames : ids'[s] = {}
                           /\ nextId'["customers"] = 1
                           /\ nextId'["users"] + Cardinality(Active)' <= 1 + runs'
    BY <1>2, <1>3, <2>1 DEF OneOwner, u2, b
  <2>5. \A q \in Procs : Owner(q)' => 0 \in fixed'
    BY <1>2, <1>3, <2>3 DEF OneOwner
  <2>6. \A q, r \in Procs : Owner(q)' /\ Owner(r)' => q = r
    BY <1>2, <2>3 DEF OneOwner
  <2> QED
    BY <2>2, <2>4, <2>5, <2>6 DEF OneOwner
<1>18. ASSUME NEW q \in Procs, Owner(q)'
       PROVE  Progress(q)' /\ Collected(q)'
  <2>1. q # p /\ Owner(q) /\ Progress(q) /\ Collected(q)
    BY <1>2, <1>14, <1>15, <1>18
  <2>2. pc'[q] = pc[q] /\ n'[q] = n[q] /\ mine'[q] = mine[q]
    BY <1>3, <1>13, <2>1
  <2>3. t = "users"
    BY <1>2, <2>1 DEF OneOwner
  <2>4. Progress(q)'
    <3> DEFINE c == pc[q]
    <3>1. /\ n[q] < Times(c)
          /\ \A s \in TableNames : Place(s) > Place(c) => ids[s] = {}
          /\ \A s \in TableNames :
               Place(s) = Place(c) => Cardinality(ids[s]) <= Before(c) + n[q]
      BY <2>1 DEF Progress
    <3>2. pc'[q] = c /\ n'[q] = n[q] /\ ids' = ids
      BY <1>3, <2>2
    <3> HIDE DEF c
    <3>3. n'[q] < Times(pc'[q])
      BY <3>1, <3>2
    <3>4. \A s \in TableNames : Place(s) > Place(pc'[q]) => ids'[s] = {}
      BY <3>1, <3>2
    <3>5. \A s \in TableNames :
            Place(s) = Place(pc'[q]) => Cardinality(ids'[s]) <= Before(pc'[q]) + n'[q]
      BY <3>1, <3>2
    <3> QED
      BY <3>3, <3>4, <3>5 DEF Progress, Times, Place, Before
  <2>5. pc[q] \in {"fixed", "users"} =>
          u2 + b <= Len(mine[q].users) + 1 + runs
    <3> DEFINE l == Len(mine[q].users)
    <3>1. pc[q] \in {"fixed", "users"} => u + a <= l + 1 + runs
      BY <2>1 DEF Collected, u, a
    <3>2. l \in Nat
      <4>1. mine[q] \in [users : Seq(Nat), products : Seq(Nat), comments : Seq(Nat)]
        BY LocalTypes
      <4>2. mine[q].users \in Seq(Nat)
        BY <4>1
      <4> QED
        BY <4>2
    <3> HIDE DEF l
    <3>3. u + a <= l + 1 + runs => u2 + b <= l + 1 + runs
      BY <1>1, <1>7, <1>9, <1>10, <1>11, <3>2
    <3> QED
      BY <3>1, <3>3 DEF l
  <2>6. nextId'["customers"] = nextId["customers"] /\ ids' = ids /\ runs' = runs
    BY <1>3, <1>7, <2>3
  <2>7. Collected(q)'
    BY <2>1, <2>2, <2>5, <2>6 DEF Collected, u2, b, Place, Before
  <2> QED
    BY <2>4, <2>7
<1>19. SeededOnce' /\ ConnectsFind'
  BY <1>2, <1>3 DEF SeededOnce, ConnectsFind
<1> QED
  BY <1>12, <1>16, <1>17, <1>18, <1>19 DEF SInv

\* The bulk insert of the categories, which is refused when they are there.
LEMMA CategoriesSKeeps ==
  ASSUME SInv, IInv', NEW p \in Procs, InsertCategories(p)
  PROVE  SInv'
<1>1. /\ DOMAIN pc = Procs /\ n \in [Procs -> Nat] /\ runs \in 0..MaxRuns
      /\ mine \in [Procs -> [users : Seq(Nat), products : Seq(Nat), comments : Seq(Nat)]]
      /\ MaxRuns \in Nat /\ Cardinality(Active) \in Nat
  BY LocalTypes
<1>2. /\ SeedTypes /\ Clean /\ OneOwner /\ SeededOnce /\ ConnectsFind
  BY DEF SInv
<1>3. /\ pc[p] = "categories"
      /\ UNCHANGED <<version, nextId, fixed, links, n, mine, runs>>
  BY DEF InsertCategories, schema
<1>4. "categories" \in Sections /\ "products" \in Sections
  BY DEF Sections
<1>5. CASE ids["categories"] # {}
  <2>1. pc' = [pc EXCEPT ![p] = "failed"] /\ ids' = ids
    BY <1>5 DEF InsertCategories
  <2>2. pc'[p] = "failed" /\ \A q \in Procs : q # p => pc'[q] = pc[q]
    BY <1>1, <2>1
  <2>3. ~Owner(p)' /\ ~Fresh(p)' /\ ~Seeding(p)'
    BY <2>2 DEF Owner, Fresh, Seeding, Migrating, Sections
  <2>4. Cardinality(Active)' = Cardinality(Active) - 1
    BY <1>1, <1>3, <2>1, ActiveLeaves DEF Off
  <2>5. Cardinality(Active)' + runs <= Cardinality(Active) + runs'
    <3> DEFINE a == Cardinality(Active)
               b == Cardinality(Active)'
    <3>1. a \in Nat /\ b = a - 1 /\ runs \in Nat /\ runs' = runs
      BY <1>1, <1>3, <2>4
    <3> HIDE DEF a, b
    <3>2. b + runs <= a + runs'
      BY <3>1
    <3> QED
      BY <3>2 DEF a, b
  <2> QED
    BY <1>1, <1>3, <2>1, <2>2, <2>3, <2>5, SchemaKeeps
<1>6. CASE ids["categories"] = {}
  <2>1. ids' = [ids EXCEPT !["categories"] = {1, 2}] /\ pc' = [pc EXCEPT ![p] = "products"]
    BY <1>6 DEF InsertCategories
  <2>2. pc'[p] = "products" /\ \A q \in Procs : q # p => pc'[q] = pc[q]
    BY <1>1, <2>1
  <2>3. Owner(p) /\ Alike(p) /\ 0 \in fixed
    BY <1>3, <1>4, LaterIsOwner, OwnerAlike
  <2>4. Active' = Active
    BY <1>1, <1>3, <2>1, ActiveStays DEF Off
  <2>5. "categories" \in TableNames /\ DOMAIN ids = TableNames
    BY <1>2, TablesFacts DEF SeedTypes
  <2>6. ids'["categories"] = {1, 2} /\ \A t \in TableNames : t # "categories" => ids'[t] = ids[t]
    BY <2>1, <2>5
  <2>7. SeedTypes'
    <3>1. ids \in [TableNames -> SUBSET Nat] /\ \A t \in TableNames : IsFiniteSet(ids[t])
      BY <1>2 DEF SeedTypes
    <3>2. ids' \in [TableNames -> SUBSET Nat]
      <4>1. {1, 2} \in SUBSET Nat
        OBVIOUS
      <4> QED
        BY ZenonT(30), <2>1, <2>5, <3>1, <4>1
    <3>3. IsFiniteSet({1, 2})
      <4>1. IsFiniteSet({})
        BY FS_EmptySet
      <4>2. IsFiniteSet({} \cup {1})
        BY <4>1, FS_AddElement
      <4>3. IsFiniteSet(({} \cup {1}) \cup {2})
        BY <4>2, FS_AddElement
      <4>4. ({} \cup {1}) \cup {2} = {1, 2}
        OBVIOUS
      <4> QED
        BY <4>3, <4>4
    <3>4. \A t \in TableNames : IsFiniteSet(ids'[t])
      BY ZenonT(30), <2>6, <3>1, <3>3
    <3> QED
      BY <1>2, <1>3, <2>4, <3>2, <3>4 DEF SeedTypes
  <2>8. \A q \in Procs : q # p => /\ Fresh(q)' <=> Fresh(q)
                                  /\ Owner(q)' <=> Owner(q)
    BY <1>3, <2>2 DEF Seeding, Fresh, Owner, Migrating
  <2>9. ~Fresh(p)'
    BY <2>2 DEF Fresh, Migrating
  <2>10. Clean'
    <3>1. version = N /\ N \in Nat
      BY <1>2, <1>3, <1>4, NIsNat DEF Clean, Seeding
    <3> QED
      BY <1>3, <3>1 DEF Clean
  <2>11. \A q \in Procs : q # p => ~Owner(q)'
    BY <2>3, <2>8 DEF Alike
  <2>12. OneOwner'
    <3>1. \A q \in Procs : Fresh(q)' => n'[q] = 0 /\ mine'[q] = Nothing
      BY <1>2, <1>3, <2>8, <2>9 DEF OneOwner
    <3> QED
      BY <1>3, <2>3, <2>11, <3>1 DEF OneOwner
  <2>13. SeededOnce'
    <3>1. Cardinality(ids'["categories"]) <= Rows["categories"]
      <4>1. Cardinality({1, 2}) = 2
        <5>1. IsFiniteSet({}) /\ Cardinality({}) = 0
          BY FS_EmptySet
        <5>2. IsFiniteSet({} \cup {1}) /\ Cardinality({} \cup {1}) = 0 + 1
          BY <5>1, FS_AddElement
        <5>3. 2 \notin {} \cup {1}
          OBVIOUS
        <5>4. Cardinality(({} \cup {1}) \cup {2}) = (0 + 1) + 1
          BY <5>2, <5>3, FS_AddElement
        <5>5. ({} \cup {1}) \cup {2} = {1, 2} /\ (0 + 1) + 1 = 2
          OBVIOUS
        <5> QED
          BY <5>4, <5>5
      <4> QED
        BY <2>6, <4>1, RowsFacts
    <3> QED
      BY <1>2, <2>6, <3>1 DEF SeededOnce
  <2>14. ConnectsFind'
    <3>1. \A t \in TableNames : ids[t] \subseteq ids'[t]
      BY <1>6, <2>6
    <3>2. \A l \in links : l.to \in TableNames /\ l.id \in ids[l.to]
      BY <1>2 DEF SeedTypes, ConnectsFind
    <3> QED
      BY <1>3, <3>1, <3>2 DEF ConnectsFind
  <2>15. Progress(p) /\ Collected(p)
    BY <2>3 DEF Alike
  <2>16. n[p] = 0
    <3>1. n[p] < 1 /\ n[p] \in Nat
      BY <1>1, <1>3, <2>15, TimesFacts DEF Progress
    <3> QED
      BY <3>1
  <2>17. Progress(p)'
    <3>1. n'[p] < Times(pc'[p])
      BY <1>3, <1>4, <2>2, <2>16, TimesFacts
    <3>2. \A t \in TableNames : Place(t) >= Place("products") => ids'[t] = {}
      <4> SUFFICES ASSUME NEW t \in TableNames, Place(t) >= Place("products")
                   PROVE  ids'[t] = {}
        OBVIOUS
      <4>1. Place(t) \in Nat /\ Place(t) > Place("categories") /\ t # "categories"
        BY PlaceFacts
      <4> QED
        BY <1>3, <2>6, <2>15, <4>1 DEF Progress
    <3>3. \A t \in TableNames : Place(t) \in Nat /\ Place("products") \in Nat
      BY PlaceFacts
    <3>4. \A t \in TableNames : Place(t) > Place(pc'[p]) => ids'[t] = {}
      BY <2>2, <3>2, <3>3
    <3>5. \A t \in TableNames :
            Place(t) = Place(pc'[p]) => Cardinality(ids'[t]) <= Before(pc'[p]) + n'[p]
      <4> SUFFICES ASSUME NEW t \in TableNames, Place(t) = Place("products")
                   PROVE  Cardinality(ids'[t]) <= Before("products") + 0
        BY <1>3, <2>2, <2>16
      <4>1. ids'[t] = {}
        BY <3>2, <3>3
      <4>2. Cardinality(ids'[t]) = 0
        BY <4>1, FS_EmptySet
      <4>3. Before("products") = 0
        BY DEF Before
      <4> QED
        BY <4>2, <4>3
    <3> QED
      BY <3>1, <3>4, <3>5 DEF Progress, Times, Place, Before
  <2>18. Collected(p)'
    <3>1. /\ Place("categories") = 3 /\ Place("products") = 4
      BY PlaceFacts
    <3>2. /\ ids'["users"] = ids["users"] /\ ids'["products"] = ids["products"]
          /\ ids'["comments"] = ids["comments"] /\ ids'["customers"] = ids["customers"]
      BY <2>6, TablesFacts
    <3> DEFINE m == mine[p]
    <3>3. mine'[p] = m /\ n'[p] = 0 /\ runs' = runs
      BY <1>3, <2>16
    <3>4. /\ \A i \in 1..Len(m.users) : m.users[i] \in ids["users"] /\ m.users[i] >= 1
                                        /\ m.users[i] < i + MaxRuns
          /\ \A i \in 1..Len(m.products) : m.products[i] \in ids["products"]
          /\ \A i \in 1..Len(m.comments) : m.comments[i] \in ids["comments"]
          /\ Len(m.users) >= user_count
          /\ 1..customer_count \subseteq ids["customers"]
          /\ Len(m.products) = 0
      BY <1>3, <2>15, <3>1 DEF Collected
    <3> HIDE DEF m
    <3>5. Place(pc'[p]) = 4
      BY <2>2, <3>1
    <3> QED
      BY <2>2, <2>6, <3>2, <3>3, <3>4, <3>5 DEF Collected, Place, Before
  <2> QED
    BY <2>7, <2>10, <2>11, <2>12, <2>13, <2>14, <2>17, <2>18 DEF SInv
<1> QED
  BY <1>5, <1>6

\* What is drawn of what was collected is there.
LEMMA PicksFind ==
  ASSUME SInv, NEW p \in Procs, Alike(p), pc[p] \notin {"fixed", "users"}
  PROVE  /\ \A k \in Picks(user_count) : Pick(mine[p].users, k) \in ids["users"]
         /\ Place(pc[p]) > 4 => \A k \in Picks(product_count) :
                                  Pick(mine[p].products, k) \in ids["products"]
         /\ Place(pc[p]) > 4 => \A k \in Picks(user_count) :
                                  Pick(mine[p].users, k) \in ids["customers"]
         /\ \A k \in Picks(Len(mine[p].comments)) :
              Pick(mine[p].comments, k) \in ids["comments"]
<1> DEFINE U == mine[p].users
           P == mine[p].products
           C == mine[p].comments
<1>1. /\ \A i \in 1..Len(U) : U[i] \in ids["users"] /\ U[i] >= 1 /\ U[i] < i + MaxRuns
      /\ \A i \in 1..Len(P) : P[i] \in ids["products"]
      /\ \A i \in 1..Len(C) : C[i] \in ids["comments"]
      /\ Len(U) >= user_count
      /\ Place(pc[p]) > 2 => 1..customer_count \subseteq ids["customers"]
      /\ Place(pc[p]) > 4 => Len(P) >= product_count
  BY DEF Alike, Collected
<1>2. Len(U) \in Nat /\ Len(P) \in Nat /\ Len(C) \in Nat
  <2>1. mine[p] \in [users : Seq(Nat), products : Seq(Nat), comments : Seq(Nat)]
    BY LocalTypes
  <2>2. U \in Seq(Nat) /\ P \in Seq(Nat) /\ C \in Seq(Nat)
    BY <2>1
  <2> QED
    BY <2>2
<1>3. user_count \in Nat /\ product_count \in Nat /\ customer_count \in Nat /\ MaxRuns \in Nat
  BY CountsArePositive
<1>4. Place(pc[p]) \in Nat
  BY PlaceFacts DEF Alike, Seeding
<1>5. ids["users"] \subseteq Nat
  BY TablesFacts DEF SInv, SeedTypes
<1> HIDE DEF U, P, C
<1>6. ASSUME NEW k \in Picks(user_count)
      PROVE  /\ Pick(U, k) \in ids["users"]
             /\ Place(pc[p]) > 4 => Pick(U, k) \in ids["customers"]
  <2>1. k \in 1..Len(U) /\ k \in Nat /\ k <= user_count
    BY <1>1, <1>2, <1>3, <1>6 DEF Picks
  <2>2. Pick(U, k) = U[k]
    BY <2>1, <1>2 DEF Pick
  <2>3. U[k] \in ids["users"] /\ U[k] \in Nat /\ U[k] >= 1 /\ U[k] < k + MaxRuns
    BY <1>1, <1>5, <2>1
  <2>4. U[k] \in 1..customer_count
    <3> DEFINE e == U[k]
    <3>1. e \in Nat /\ e >= 1 /\ e < k + MaxRuns
      BY <2>3
    <3> HIDE DEF e
    <3>2. e \in 1..customer_count
      BY <1>3, <2>1, <3>1, CustomersCoverUsers
    <3> QED
      BY <3>2 DEF e
  <2>5. Place(pc[p]) > 4 => 1..customer_count \subseteq ids["customers"]
    BY <1>1, <1>4
  <2> QED
    BY <2>2, <2>3, <2>4, <2>5
<1>7. ASSUME Place(pc[p]) > 4, NEW k \in Picks(product_count)
      PROVE  Pick(P, k) \in ids["products"]
  <2>1. k \in 1..Len(P)
    BY <1>1, <1>2, <1>3, <1>7 DEF Picks
  <2>2. Pick(P, k) = P[k]
    BY <2>1, <1>2 DEF Pick
  <2> QED
    BY <1>1, <2>1, <2>2
<1>8. ASSUME NEW k \in Picks(Len(C))
      PROVE  Pick(C, k) \in ids["comments"]
  <2>1. k \in 1..Len(C)
    BY <1>8 DEF Picks
  <2>2. Pick(C, k) = C[k]
    BY <2>1, <1>2 DEF Pick
  <2> QED
    BY <1>1, <2>1, <2>2
<1> QED
  BY <1>6, <1>7, <1>8 DEF U, P, C

\* A link that is found.
Finds(l) == l.to \in TableNames /\ l.id \in ids[l.to]

\* A link to a row that is there.
LEMMA LinkFinds ==
  ASSUME NEW t, NEW target \in TableNames, NEW id \in ids[target]
  PROVE  Finds(Link(t, target, id))
BY DEF Finds, Link

\* The fixed users: the first makes the owner, and others are refused.
LEMMA FixedSKeeps ==
  ASSUME SInv, IInv', NEW p \in Procs, InsertFixedUser(p)
  PROVE  SInv'
<1>1. "fixed" \in Sections /\ "fixed" # "categories"
  BY DEF Sections
<1>2. /\ Filled("fixed") = "users" /\ Following("fixed") = "users"
      /\ Times("fixed") = FixedUsers
  BY TimesFacts DEF Filled, Following
<1>3. CASE /\ n[p] \notin fixed
           /\ Insert(p, "users", {}, "fixed", FixedUsers, "users")
           /\ fixed' = fixed \cup {n[p]}
  <2>1. pc[p] = "fixed"
    BY <1>3 DEF Insert
  <2>2. Alike(p) /\ 0 \in fixed'
    <3>1. CASE 0 \notin fixed
      <4>1. Alike(p)
        BY <2>1, <3>1, FirstAlike
      <4>2. ~Owner(p) /\ Seeding(p)
        BY <1>1, <2>1, <3>1 DEF SInv, OneOwner, Seeding
      <4>3. n[p] = 0
        BY <4>2 DEF SInv, OneOwner, Owner
      <4> QED
        BY <1>3, <4>1, <4>3
    <3>2. CASE 0 \in fixed
      <4>1. Owner(p)
        <5>1. Seeding(p) /\ n[p] # 0
          BY <1>1, <1>3, <2>1, <3>2 DEF Seeding
        <5> QED
          BY <2>1, <5>1 DEF Owner, Fresh, Migrating
      <4> QED
        BY <1>3, <3>2, <4>1, OwnerAlike
    <3> QED
      BY <3>1, <3>2
  <2>3. Insert(p, Filled("fixed"), {}, "fixed", Times("fixed"), Following("fixed"))
    BY <1>2, <1>3
  <2> QED
    BY <1>1, <2>2, <2>3, InsertSKeeps
<1>4. CASE n[p] \in fixed /\ Refuse(p, "users", "fixed")
  BY <1>1, <1>4, RefuseSKeeps
<1> QED
  BY <1>3, <1>4 DEF InsertFixedUser

\* The statements of the sections behind them.
LEMMA LaterSKeeps ==
  ASSUME SInv, IInv', NEW p \in Procs, NEW x \in Sections \ {"fixed", "categories"},
         NEW connects, Insert(p, Filled(x), connects, x, Times(x), Following(x)),
         \A l \in connects : Finds(l), fixed' = fixed
  PROVE  SInv'
<1>1. pc[p] = x /\ x \in Sections /\ x # "categories" /\ x # "fixed"
  BY DEF Insert
<1>2. Owner(p)
  BY <1>1, LaterIsOwner
<1>3. Alike(p) /\ 0 \in fixed'
  BY <1>2, OwnerAlike
<1> QED
  BY <1>1, <1>3, InsertSKeeps DEF Finds

\* Behind the fixed users there is the owner.
LEMMA LaterAlike ==
  ASSUME SInv, NEW p \in Procs, NEW x \in Sections \ {"fixed"}, pc[p] = x
  PROVE  Alike(p)
BY LaterIsOwner, OwnerAlike

\* Every statement of the script.
LEMMA SeedSKeeps ==
  ASSUME SInv, IInv', NEW p \in Procs, Seed(p)
  PROVE  SInv'
<1>1. /\ Filled("users") = "users" /\ Filled("customers") = "customers"
      /\ Filled("products") = "products" /\ Filled("purchases") = "purchases"
      /\ Filled("notifications") = "notifications" /\ Filled("comments") = "comments"
  BY DEF Filled
<1>2. /\ Following("users") = "customers" /\ Following("customers") = "categories"
      /\ Following("products") = "purchases" /\ Following("purchases") = "notifications"
      /\ Following("notifications") = "comments" /\ Following("comments") = "done"
  BY DEF Following
<1>3. \A x \in {"users", "customers", "products", "purchases", "notifications", "comments"} :
        x \in Sections \ {"fixed", "categories"} /\ x \in Sections \ {"fixed"}
  BY DEF Sections
<1>4. {"users", "customers", "categories", "products", "comments"} \subseteq TableNames
  BY TablesFacts
<1>5. CASE InsertFixedUser(p)
  BY <1>5, FixedSKeeps
<1>6. CASE InsertUser(p)
  <2>1. /\ Insert(p, Filled("users"), {}, "users", Times("users"), Following("users"))
        /\ fixed' = fixed
    BY <1>1, <1>2, <1>6, TimesFacts DEF InsertUser
  <2> QED
    BY <1>3, <2>1, LaterSKeeps
<1>7. CASE InsertCustomer(p)
  <2>1. CASE /\ Insert(p, "customers", {}, "customers", customer_count, "categories")
             /\ UNCHANGED fixed
    <3>1. /\ Insert(p, Filled("customers"), {}, "customers", Times("customers"),
                    Following("customers"))
          /\ fixed' = fixed
      BY <1>1, <1>2, <2>1, TimesFacts
    <3> QED
      BY <1>3, <3>1, LaterSKeeps
  <2>2. CASE Refuse(p, "customers", "customers")
    <3>1. pc[p] = "customers" /\ "customers" \in Sections
      BY <1>3, <2>2 DEF Refuse
    <3>2. Owner(p)
      BY <3>1, LaterIsOwner
    <3> QED
      BY <2>2, <3>1, <3>2, RefuseSKeeps
  <2> QED
    BY <1>7, <2>1, <2>2 DEF InsertCustomer
<1>8. CASE InsertCategories(p)
  BY <1>8, CategoriesSKeeps
<1>9. CASE InsertProduct(p)
  <2>1. PICK k \in Picks(user_count) :
          Insert(p, "products",
                 {Link("products", "categories", 1), Link("products", "categories", 2),
                  Link("products", "users", Pick(mine[p].users, k))},
                 "products", product_count, "purchases")
    BY <1>9 DEF InsertProduct
  <2>2. pc[p] = "products" /\ fixed' = fixed
    BY <1>9, <2>1 DEF InsertProduct, Insert
  <2>3. Alike(p) /\ pc[p] \notin {"fixed", "users"} /\ Place(pc[p]) > 3
    BY <1>3, <2>2, LaterAlike, PlaceFacts
  <2>4. 1 \in ids["categories"] /\ 2 \in ids["categories"]
    BY <2>3 DEF Alike, Collected
  <2>5. Pick(mine[p].users, k) \in ids["users"]
    BY <2>3, PicksFind
  <2> DEFINE connects == {Link("products", "categories", 1), Link("products", "categories", 2),
                          Link("products", "users", Pick(mine[p].users, k))}
  <2>6. \A l \in connects : Finds(l)
    BY <1>4, <2>4, <2>5, LinkFinds
  <2>7. Insert(p, Filled("products"), connects, "products", Times("products"),
               Following("products"))
    BY <1>1, <1>2, <2>1, TimesFacts
  <2> HIDE DEF connects
  <2> QED
    BY <1>3, <2>2, <2>6, <2>7, LaterSKeeps
<1>10. CASE InsertPurchase(p)
  <2>1. PICK k \in Picks(user_count), j \in Picks(product_count) :
          Insert(p, "purchases",
                 {Link("purchases", "customers", Pick(mine[p].users, k)),
                  Link("purchases", "products", Pick(mine[p].products, j))},
                 "purchases", purchase_count, "notifications")
    BY <1>10 DEF InsertPurchase
  <2>2. pc[p] = "purchases" /\ fixed' = fixed
    BY <1>10, <2>1 DEF InsertPurchase, Insert
  <2>3. Alike(p) /\ pc[p] \notin {"fixed", "users"} /\ Place(pc[p]) > 4
    BY <1>3, <2>2, LaterAlike, PlaceFacts
  <2>4. /\ Pick(mine[p].users, k) \in ids["customers"]
        /\ Pick(mine[p].products, j) \in ids["products"]
    BY <2>3, PicksFind
  <2> DEFINE connects == {Link("purchases", "customers", Pick(mine[p].users, k)),
                          Link("purchases", "products", Pick(mine[p].products, j))}
  <2>5. \A l \in connects : Finds(l)
    BY <1>4, <2>4, LinkFinds
  <2>6. Insert(p, Filled("purchases"), connects, "purchases", Times("purchases"),
               Following("purchases"))
    BY <1>1, <1>2, <2>1, TimesFacts
  <2> HIDE DEF connects
  <2> QED
    BY <1>3, <2>2, <2>5, <2>6, LaterSKeeps
<1>11. CASE InsertNotification(p)
  <2>1. PICK k \in Picks(user_count) :
          Insert(p, "notifications", {Link("notifications", "users", Pick(mine[p].users, k))},
                 "notifications", notifications_count, "comments")
    BY <1>11 DEF InsertNotification
  <2>2. pc[p] = "notifications" /\ fixed' = fixed
    BY <1>11, <2>1 DEF InsertNotification, Insert
  <2>3. Alike(p) /\ pc[p] \notin {"fixed", "users"}
    BY <1>3, <2>2, LaterAlike
  <2>4. Pick(mine[p].users, k) \in ids["users"]
    BY <2>3, PicksFind
  <2> DEFINE connects == {Link("notifications", "users", Pick(mine[p].users, k))}
  <2>5. \A l \in connects : Finds(l)
    BY <1>4, <2>4, LinkFinds
  <2>6. Insert(p, Filled("notifications"), connects, "notifications", Times("notifications"),
               Following("notifications"))
    BY <1>1, <1>2, <2>1, TimesFacts
  <2> HIDE DEF connects
  <2> QED
    BY <1>3, <2>2, <2>5, <2>6, LaterSKeeps
<1>12. CASE InsertComment(p)
  <2> DEFINE earlier == mine[p].comments
             connects(k, j, c) ==
               {Link("comments", "users", Pick(mine[p].users, k)),
                Link("comments", "products", Pick(mine[p].products, j))}
               \cup (IF c = 0 THEN {} ELSE {Link("comments", "comments", Pick(earlier, c))})
  <2>1. PICK k \in Picks(user_count), j \in Picks(product_count),
             c \in Picks(Len(earlier)) \cup {0} :
          Insert(p, "comments", connects(k, j, c), "comments", comments_count, "done")
    BY <1>12 DEF InsertComment
  <2>2. pc[p] = "comments" /\ fixed' = fixed
    BY <1>12, <2>1 DEF InsertComment, Insert
  <2>3. Alike(p) /\ pc[p] \notin {"fixed", "users"} /\ Place(pc[p]) > 4
    BY <1>3, <2>2, LaterAlike, PlaceFacts
  <2>4. /\ Pick(mine[p].users, k) \in ids["users"]
        /\ Pick(mine[p].products, j) \in ids["products"]
        /\ c # 0 => Pick(earlier, c) \in ids["comments"]
    BY <2>3, PicksFind
  <2>5. \A l \in connects(k, j, c) : Finds(l)
    BY <1>4, <2>4, LinkFinds
  <2>6. Insert(p, Filled("comments"), connects(k, j, c), "comments", Times("comments"),
               Following("comments"))
    BY <1>1, <1>2, <2>1, TimesFacts
  <2> HIDE DEF connects
  <2> QED
    BY <1>3, <2>2, <2>5, <2>6, LaterSKeeps
<1> QED
  BY <1>5, <1>6, <1>7, <1>8, <1>9, <1>10, <1>11, <1>12 DEF Seed

\* ... and every step keeps it.
LEMMA NextSInv == SInv /\ [Next]_vars => SInv'
<1> SUFFICES ASSUME SInv, [Next]_vars PROVE SInv'
  OBVIOUS
<1>1. IInv'
  BY StepKeeps DEF SInv
<1>2. CASE UNCHANGED vars
  <2>1. UNCHANGED <<version, ids, nextId, fixed, links, pc, n, mine, runs>>
    BY <1>2 DEF vars, schema, data, local
  <2>2. Active' = Active
    BY <2>1 DEF Active
  <2>3. SeedTypes' /\ Clean' /\ SeededOnce' /\ ConnectsFind'
    BY <2>1, <2>2 DEF SInv, SeedTypes, Clean, SeededOnce, ConnectsFind, Seeding
  <2>4. \A p \in Procs : (Fresh(p)' <=> Fresh(p)) /\ (Owner(p)' <=> Owner(p))
    BY <2>1 DEF Fresh, Owner, Migrating, Seeding
  <2>5. OneOwner'
    BY <2>1, <2>2, <2>4 DEF SInv, OneOwner
  <2>6. \A p \in Procs : Owner(p)' => Progress(p)' /\ Collected(p)'
    BY <2>1, <2>2, <2>4 DEF SInv, Progress, Collected, Times, Place, Before
  <2> QED
    BY <1>1, <2>3, <2>5, <2>6 DEF SInv
<1>3. CASE Next
  <2>1. PICK p \in Procs : \/ \E target \in 0..N : Start(p, target)
                           \/ Execute(p) \/ UpdateVersion(p) \/ Commit(p) \/ Seed(p) \/ Crash(p)
    BY <1>3 DEF Next
  <2> QED
    BY <1>1, <2>1, StartSKeeps, MoveSKeeps, CommitSKeeps, SeedSKeeps
<1> QED
  BY <1>2, <1>3

\* The rows of the script are inserted at most once, whoever runs it again or beside another:
\* the e-mail of the first fixed user lets one command pass, and the others end there.
THEOREM SeededAtMostOnce == Spec => []SeededOnce
<1>1. SInv => SeededOnce
  BY DEF SInv
<1> QED
  BY InitSInv, NextSInv, <1>1, PTL DEF Spec

\* What the script connects is there, also the customer that it names by the id of a user:
\* there are as many customers as users and commands that took an id of theirs.
THEOREM LinksFind == Spec => []ConnectsFind
<1>1. SInv => ConnectsFind
  BY DEF SInv
<1> QED
  BY InitSInv, NextSInv, <1>1, PTL DEF Spec

=============================================================================
