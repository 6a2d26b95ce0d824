------------------------------- MODULE Setup -------------------------------
(***************************************************************************)
(* `graphjin db setup`: the migrations (src/cmd/internal/migrate/migrate.go)*)
(* and then the seed script of the example                                  *)
(* (src/examples/webshop/config/seed.js), run by several people or          *)
(* deployments on one database, which may crash and run it again, and       *)
(* `db migrate down`, which somebody runs alone.                            *)
(*                                                                          *)
(* The migrator asks for an advisory lock and does not look at the answer,  *)
(* and it reads the version once: several may be at work.  A migration and  *)
(* its version number are one transaction.  The seed script is a long row   *)
(* of transactions; it ends at the first that fails and begins at the       *)
(* beginning when it is run again.                                          *)
(***************************************************************************)
EXTENDS Naturals, Sequences, FiniteSets

CONSTANTS
  Procs,         \* commands that may run at a time
  MaxRuns,       \* how often a command is started
  Irreversible,  \* migrations without a down part
  FixedUsers,    \* users with an e-mail of their own (3)
  user_count, customer_count, product_count, purchase_count, notifications_count,
  comments_count,
  None

\* The tables in the order of their migrations.
Tables == <<"users", "products", "customers", "purchases", "notifications", "categories",
            "comments", "chats">>
N == Len(Tables)
TableNames == {Tables[k] : k \in 1..N}

\* Rows that one run of the script inserts.
Rows == [users |-> FixedUsers + user_count, customers |-> customer_count, categories |-> 2,
         products |-> product_count, purchases |-> purchase_count,
         notifications |-> notifications_count, comments |-> comments_count, chats |-> 0]

ASSUME ProcsFinite == IsFiniteSet(Procs) /\ None \notin Procs
ASSUME IrreversibleAreSteps == Irreversible \subseteq 1..N
ASSUME CountsArePositive ==
  /\ MaxRuns \in Nat
  /\ {FixedUsers, user_count, customer_count, product_count, purchase_count,
      notifications_count, comments_count} \subseteq Nat \ {0}
\* purchases name a customer by the id of a user: that of one of the first user_count, and
\* every command that is refused has taken an id of users too.
ASSUME CustomersCoverUsers == user_count + MaxRuns - 1 =< customer_count

VARIABLES
  version,   \* schema_version
  created,   \* tables that are there
  rowLock,   \* the command whose transaction has written schema_version
  ids,       \* rows of each table
  nextId,    \* its sequence
  fixed,     \* fixed users that are there, by their e-mail
  links,     \* rows that were connected
  pc,        \* of each command
  at, to,    \* currentVersion, targetVersion
  tx,        \* the step of its open transaction
  n,         \* rows inserted in the section of the script
  mine,      \* what the script has collected: users, products, comments
  runs       \* commands started

schema == <<version, created, rowLock>>
data   == <<ids, nextId, fixed, links>>
local  == <<pc, at, to, tx, n, mine>>
vars   == <<schema, data, local, runs>>

Nothing == [users |-> <<>>, products |-> <<>>, comments |-> <<>>]

Init ==
  /\ version = 0 /\ created = {} /\ rowLock = None
  /\ ids = [t \in TableNames |-> {}]
  /\ nextId = [t \in TableNames |-> 1]
  /\ fixed = {} /\ links = {}
  /\ pc = [p \in Procs |-> "off"]
  /\ at = [p \in Procs |-> 0] /\ to = [p \in Procs |-> 0]
  /\ tx = [p \in Procs |-> 0]
  /\ n = [p \in Procs |-> 0]
  /\ mine = [p \in Procs |-> Nothing]
  /\ runs = 0

Off == {"off", "failed", "done"}
Alone(p) == \A q \in Procs \ {p} : pc[q] \in Off
GoingDown(q) == pc[q] \notin Off /\ to[q] < N

----------------------------------------------------------------------------
(* The migrations. *)

\* MigrateTo: whatever the lock, the version is read; without steps to take it returns.
Start(p, target) ==
  /\ pc[p] \in Off
  /\ runs < MaxRuns
  /\ \A q \in Procs : ~GoingDown(q)
  /\ target = N \/ (Alone(p) /\ target = version - 1)
  /\ runs' = runs + 1
  /\ at' = [at EXCEPT ![p] = version]
  /\ to' = [to EXCEPT ![p] = target]
  /\ pc' = [pc EXCEPT ![p] = IF version # target THEN "step" ELSE "fixed"]
  /\ n' = [n EXCEPT ![p] = 0]
  /\ mine' = [mine EXCEPT ![p] = Nothing]
  /\ UNCHANGED <<schema, data, tx>>

Up(p) == at[p] < to[p]
Step(p) == IF Up(p) THEN at[p] + 1 ELSE at[p]

\* The SQL of the step in a transaction.  It fails for a table that is there, or is not
\* there to be dropped; it waits for another transaction that works on the table.
Execute(p) ==
  LET k == Step(p) IN
  /\ pc[p] = "step"
  /\ \A q \in Procs : tx[q] # k
  /\ IF \/ ~Up(p) /\ k \in Irreversible
        \/ Up(p) /\ k \in created
        \/ ~Up(p) /\ k \notin created
     THEN pc' = [pc EXCEPT ![p] = "failed"] /\ UNCHANGED tx
     ELSE /\ tx' = [tx EXCEPT ![p] = k]
          /\ pc' = [pc EXCEPT ![p] = "update"]
  /\ UNCHANGED <<schema, data, at, to, n, mine, runs>>

\* Mutant: the version is written outside of the transaction.
UpdateVersionAtOnce(p) ==
  /\ pc[p] = "update"
  /\ rowLock = None
  /\ rowLock' = p
  /\ version' = IF Up(p) THEN at[p] + 1 ELSE at[p] - 1
  /\ pc' = [pc EXCEPT ![p] = "commit"]
  /\ UNCHANGED <<created, data, at, to, tx, n, mine, runs>>

\* update schema_version: the row is locked until the transaction ends.
UpdateVersion(p) ==
  /\ pc[p] = "update"
  /\ rowLock = None
  /\ rowLock' = p
  /\ pc' = [pc EXCEPT ![p] = "commit"]
  /\ UNCHANGED <<version, created, data, at, to, tx, n, mine, runs>>

\* A table that is dropped takes its rows and its sequence along.
Emptied(f, t, v) == [f EXCEPT ![t] = v]

Commit(p) ==
  LET k == tx[p]
      reached == IF Up(p) THEN at[p] + 1 ELSE at[p] - 1 IN
  /\ pc[p] = "commit"
  /\ version' = reached
  /\ created' = IF Up(p) THEN created \cup {k} ELSE created \ {k}
  /\ ids' = Emptied(ids, Tables[k], {})
  /\ nextId' = Emptied(nextId, Tables[k], 1)
  /\ fixed' = IF Tables[k] = "users" THEN {} ELSE fixed
  /\ links' = {l \in links : Tables[k] \notin {l.from, l.to}}
  /\ rowLock' = None
  /\ tx' = [tx EXCEPT ![p] = 0]
  /\ at' = [at EXCEPT ![p] = reached]
  /\ pc' = [pc EXCEPT ![p] = IF reached # to[p] THEN "step"
                             ELSE IF to[p] = N THEN "fixed" ELSE "done"]
  /\ UNCHANGED <<to, n, mine, runs>>

\* The command is killed: an open transaction is rolled back.
Crash(p) ==
  /\ pc[p] \notin Off
  /\ pc' = [pc EXCEPT ![p] = "off"]
  /\ tx' = [tx EXCEPT ![p] = 0]
  /\ rowLock' = IF rowLock = p THEN None ELSE rowLock
  /\ UNCHANGED <<version, created, data, at, to, n, mine, runs>>

----------------------------------------------------------------------------
(* The seed script.  Every insert is a transaction; graphql() ends the command when one *)
(* fails.  Math.floor(Math.random() * count) is an index below count.                   *)

PicksAndOne(count) == 1..(count + 1)     \* Mutant: rounded, not cut
Picks(count) == 1..count
Pick(collected, k) == IF k =< Len(collected) THEN collected[k] ELSE 0

Link(t, target, id) == [from |-> t, to |-> target, id |-> id]

\* One row of table t, with what it is connected to; then the script goes on with the
\* section, or with the next one.
Insert(p, t, connects, section, count, next) ==
  /\ pc[p] = section
  /\ ids' = [ids EXCEPT ![t] = @ \cup {nextId[t]}]
  /\ nextId' = [nextId EXCEPT ![t] = @ + 1]
  /\ links' = links \cup connects
  /\ mine' = IF t \in DOMAIN Nothing
             THEN [mine EXCEPT ![p][t] = Append(@, nextId[t])] ELSE mine
  /\ n' = [n EXCEPT ![p] = IF n[p] + 1 < count THEN @ + 1 ELSE 0]
  /\ pc' = [pc EXCEPT ![p] = IF n[p] + 1 < count THEN section ELSE next]
  /\ UNCHANGED <<schema, at, to, tx, runs>>

\* An insert that a unique index refuses has taken an id.
Refuse(p, t, section) ==
  /\ pc[p] = section
  /\ nextId' = [nextId EXCEPT ![t] = @ + 1]
  /\ pc' = [pc EXCEPT ![p] = "failed"]
  /\ UNCHANGED <<schema, ids, fixed, links, at, to, tx, n, mine, runs>>

\* Mutant: the e-mails of the fixed users are not unique.
InsertUsersAgain(p) ==
  /\ Insert(p, "users", {}, "fixed", FixedUsers, "users")
  /\ UNCHANGED fixed

InsertFixedUser(p) ==
  \/ /\ n[p] \notin fixed
     /\ Insert(p, "users", {}, "fixed", FixedUsers, "users")
     /\ fixed' = fixed \cup {n[p]}
  \/ /\ n[p] \in fixed
     /\ Refuse(p, "users", "fixed")

InsertUser(p) ==
  /\ Insert(p, "users", {}, "users", user_count, "customers")
  /\ UNCHANGED fixed

\* The e-mail of a customer is drawn, and may be that of another.
InsertCustomer(p) ==
  \/ /\ Insert(p, "customers", {}, "customers", customer_count, "categories")
     /\ UNCHANGED fixed
  \/ /\ ids["customers"] # {}
     /\ Refuse(p, "customers", "customers")

\* One bulk insert, with the ids 1 and 2: the sequence stays.
InsertCategories(p) ==
  /\ pc[p] = "categories"
  /\ IF ids["categories"] = {}
     THEN /\ ids' = [ids EXCEPT !["categories"] = {1, 2}]
          /\ pc' = [pc EXCEPT ![p] = "products"]
     ELSE pc' = [pc EXCEPT ![p] = "failed"] /\ UNCHANGED ids
  /\ UNCHANGED <<schema, nextId, fixed, links, at, to, tx, n, mine, runs>>

\* user_id is a preset of the column and comes from the option of graphql().
InsertProduct(p) ==
  /\ \E k \in Picks(user_count) :
       Insert(p, "products",
              {Link("products", "categories", 1), Link("products", "categories", 2),
               Link("products", "users", Pick(mine[p].users, k))},
              "products", product_count, "purchases")
  /\ UNCHANGED fixed

InsertPurchase(p) ==
  /\ \E k \in Picks(user_count), j \in Picks(product_count) :
       Insert(p, "purchases",
              {Link("purchases", "customers", Pick(mine[p].users, k)),
               Link("purchases", "products", Pick(mine[p].products, j))},
              "purchases", purchase_count, "notifications")
  /\ UNCHANGED fixed

InsertNotification(p) ==
  /\ \E k \in Picks(user_count) :
       Insert(p, "notifications", {Link("notifications", "users", Pick(mine[p].users, k))},
              "notifications", notifications_count, "comments")
  /\ UNCHANGED fixed

\* A comment is also the reply to one before it.
InsertComment(p) ==
  LET earlier == mine[p].comments IN
  /\ \E k \in Picks(user_count), j \in Picks(product_count), c \in Picks(Len(earlier)) \cup {0} :
       /\ c = 0 <=> earlier = <<>>
       /\ Insert(p, "comments",
                 {Link("comments", "users", Pick(mine[p].users, k)),
                  Link("comments", "products", Pick(mine[p].products, j))}
                 \cup (IF c = 0 THEN {} ELSE {Link("comments", "comments", Pick(earlier, c))}),
                 "comments", comments_count, "done")
  /\ UNCHANGED fixed

Seed(p) ==
  \/ InsertFixedUser(p) \/ InsertUser(p) \/ InsertCustomer(p) \/ InsertCategories(p)
  \/ InsertProduct(p) \/ InsertPurchase(p) \/ InsertNotification(p) \/ InsertComment(p)

Next ==
  \E p \in Procs :
    \/ \E target \in 0..N : Start(p, target)
    \/ Execute(p) \/ UpdateVersion(p) \/ Commit(p)
    \/ Seed(p)
    \/ Crash(p)

Spec == Init /\ [][Next]_vars

----------------------------------------------------------------------------
(* Properties. *)

\* The version in the database is that of its tables, whoever migrates at the same time
\* and wherever one of them was killed: the next command goes on where they are.
VersionIsApplied == created = 1..version

\* What the script connects is there: also a customer that is named by the id of a user.
ConnectsFind == \A l \in links : l.id \in ids[l.to]

\* A script that runs again, or beside another, adds nothing to the rows of the first.
SeededOnce == \A t \in TableNames : Cardinality(ids[t]) =< Rows[t]

=============================================================================
