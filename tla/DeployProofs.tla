---------------------------- MODULE DeployProofs ----------------------------
(***************************************************************************)
(* Proofs about Deploy, for any number of servers, calls and bundles.       *)
(*                                                                          *)
(* The rows of the table are changed by mapping each row to one with the    *)
(* same keys (Deactivated, Switched), by adding a row with new keys and by  *)
(* taking one away, so the keys stay unique (TypeOK).  With them, a change   *)
(* to one id changes one row, and at most one row is active.                *)
(*                                                                          *)
(* Where every name has one bundle the rows are linked as a stack with      *)
(* the active one on top (Linked). There is then one chain from each row,    *)
(* whose recursive definition is unfolded by induction over the ids; a row   *)
(* that comes or goes on top leaves the chains of the others, so the chain   *)
(* of the active row changes as the stack of DeployStack does.               *)
(***************************************************************************)
EXTENDS Deploy, FiniteSetTheorems, SequenceTheorems, WellFoundedInduction, TLAPS

SameKeys(r, q) == r.id = q.id /\ r.prev = q.prev /\ r.name = q.name /\ r.bundle = q.bundle

Keys(T) ==
  \A r, q \in T : (r.id = q.id \/ r.name = q.name \/ r.bundle = q.bundle) => r = q

OneActive(T) == \A r, q \in T : r.active /\ q.active => r = q

\* Deactivated maps every row to one with its keys, inactive if it is the one named.
LEMMA DeactivatedRows ==
  ASSUME rows \subseteq Rows, NEW id, NEW x \in Deactivated(id)
  PROVE  /\ x \in Rows
         /\ \E r \in rows : SameKeys(x, r) /\ (x.active <=> (r.active /\ r.id # id))
<1>1. PICK r \in rows : x = [r EXCEPT !.active = @ /\ r.id # id]
  BY DEF Deactivated
<1>2. r \in Rows
  OBVIOUS
<1>3. x = [id |-> r.id, prev |-> r.prev, name |-> r.name, bundle |-> r.bundle,
           active |-> (r.active /\ r.id # id)]
  BY <1>1, <1>2 DEF Rows
<1>4. SameKeys(x, r) /\ (x.active <=> (r.active /\ r.id # id))
  BY <1>3 DEF SameKeys
<1>5. x \in Rows
  BY <1>2, <1>3 DEF Rows
<1> QED BY <1>4, <1>5

\* Switched maps every row to one with its keys, and leaves the first one named
\* inactive and the other active.
LEMMA SwitchedRows ==
  ASSUME rows \subseteq Rows, NEW id, NEW prev, NEW x \in Switched(id, prev)
  PROVE  /\ x \in Rows
         /\ \E r \in rows : /\ SameKeys(x, r)
                            /\ x.active <=> (r.id # id /\ (r.active \/ r.id = prev))
<1>1. PICK r \in rows : x = [r EXCEPT !.active = IF r.id = id THEN FALSE ELSE @ \/ r.id = prev]
  BY DEF Switched
<1>2. r \in Rows
  OBVIOUS
<1> DEFINE on == r.id # id /\ (r.active \/ r.id = prev)
<1>3. x = [id |-> r.id, prev |-> r.prev, name |-> r.name, bundle |-> r.bundle, active |-> on]
  BY <1>1, <1>2 DEF Rows
<1>4. on \in BOOLEAN
  BY <1>2 DEF Rows
<1>5. SameKeys(x, r) /\ (x.active <=> on)
  BY <1>3 DEF SameKeys
<1>6. x \in Rows
  BY <1>2, <1>3, <1>4 DEF Rows
<1> QED BY <1>5, <1>6


\* A row is what its columns are.
LEMMA RowColumns ==
  ASSUME NEW x \in Rows, NEW y \in Rows, SameKeys(x, y), x.active <=> y.active
  PROVE  x = y
BY DEF Rows, SameKeys

\* The rows that Deactivated leaves have the keys that the rows had.
LEMMA DeactivatedKeys ==
  ASSUME rows \subseteq Rows, Keys(rows), NEW id
  PROVE  Keys(Deactivated(id))
<1>1. SUFFICES ASSUME NEW x \in Deactivated(id), NEW y \in Deactivated(id),
                      x.id = y.id \/ x.name = y.name \/ x.bundle = y.bundle
               PROVE  x = y
  BY DEF Keys
<1>2. PICK r \in rows : SameKeys(x, r) /\ (x.active <=> (r.active /\ r.id # id))
  BY DeactivatedRows
<1>3. PICK q \in rows : SameKeys(y, q) /\ (y.active <=> (q.active /\ q.id # id))
  BY DeactivatedRows
<1>4. r = q
  BY <1>1, <1>2, <1>3 DEF Keys, SameKeys
<1>5. SameKeys(x, y) /\ (x.active <=> y.active)
  BY <1>2, <1>3, <1>4 DEF SameKeys
<1>6. x \in Rows /\ y \in Rows
  BY DeactivatedRows
<1> QED BY <1>5, <1>6, RowColumns

\* The rows that Switched leaves have the keys that the rows had.
LEMMA SwitchedKeys ==
  ASSUME rows \subseteq Rows, Keys(rows), NEW id, NEW prev
  PROVE  Keys(Switched(id, prev))
<1>1. SUFFICES ASSUME NEW x \in Switched(id, prev), NEW y \in Switched(id, prev),
                      x.id = y.id \/ x.name = y.name \/ x.bundle = y.bundle
               PROVE  x = y
  BY DEF Keys
<1>2. PICK r \in rows : SameKeys(x, r) /\ (x.active <=> (r.id # id /\ (r.active \/ r.id = prev)))
  BY SwitchedRows
<1>3. PICK q \in rows : SameKeys(y, q) /\ (y.active <=> (q.id # id /\ (q.active \/ q.id = prev)))
  BY SwitchedRows
<1>4. r = q
  BY <1>1, <1>2, <1>3 DEF Keys, SameKeys
<1>5. SameKeys(x, y) /\ (x.active <=> y.active)
  BY <1>2, <1>3, <1>4 DEF SameKeys
<1>6. x \in Rows /\ y \in Rows
  BY SwitchedRows
<1> QED BY <1>5, <1>6, RowColumns

-----------------------------------------------------------------------------
(* The table. *)

\* What holds of the table: typed rows with unique keys, numbered by the calls
\* so far, at most one of them active.
Table(T, n) ==
  /\ T \subseteq Rows
  /\ Keys(T)
  /\ \A r \in T : r.id <= n
  /\ OneActive(T)

\* The active row, if there is one, is the row of the previous id; once it is
\* deactivated no row is active.
LEMMA NoneLeft ==
  ASSUME Table(rows, calls), NEW prev \in PreviousIds, NEW x \in Deactivated(prev)
  PROVE  ~ x.active
<1>1. PICK r \in rows : SameKeys(x, r) /\ (x.active <=> (r.active /\ r.id # prev))
  BY DeactivatedRows DEF Table
<1>2. SUFFICES ASSUME r.active PROVE r.id = prev
  BY <1>1
<1>3. r \in Active
  BY <1>2 DEF Active
<1>4. PICK q \in Active : prev = q.id
  BY <1>3 DEF PreviousIds
<1>5. q = r
  BY <1>3, <1>4 DEF Active, Table, OneActive
<1> QED BY <1>4, <1>5

\* Inserting a configuration takes the place of the active one.
LEMMA InsertTable ==
  ASSUME Table(rows, calls), calls \in Nat, calls < MaxCalls,
         NEW d \in Deployments, SaveInsert(d)
  PROVE  Table(rows', calls + 1)
<1>1. PICK prev \in PreviousIds :
        rows' = Deactivated(prev) \cup {ActiveRow(calls + 1, prev, d.name, d.bundle)}
  BY DEF SaveInsert
<1> DEFINE new == ActiveRow(calls + 1, prev, d.name, d.bundle)
<1> USE DEF ActiveRow
<1>2. prev \in Ids \cup {NoId}
  BY DEF PreviousIds, Active, Table, Rows
<1>3. new \in Rows
  BY <1>2, DeployAssumption DEF Rows, Deployments, Ids
<1>4. \A x \in Deactivated(prev) :
        /\ x \in Rows
        /\ x.id <= calls
        /\ x.id # new.id /\ x.name # new.name /\ x.bundle # new.bundle
        /\ ~ x.active
  <2> TAKE x \in Deactivated(prev)
  <2>1. x \in Rows /\ \E r \in rows : SameKeys(x, r)
    BY DeactivatedRows DEF Table
  <2>2. PICK r \in rows : SameKeys(x, r)
    BY <2>1
  <2>3. r.name # d.name /\ r.bundle # d.bundle
    BY DEF SaveInsert, Matches
  <2>4. r.id \in Nat /\ r.id <= calls
    BY DEF Table, Rows, Ids
  <2>5. x.id <= calls /\ x.id # new.id /\ x.name # new.name /\ x.bundle # new.bundle
    BY <2>2, <2>3, <2>4 DEF SameKeys
  <2> QED BY <2>1, <2>5, NoneLeft
<1>5. Keys(Deactivated(prev))
  BY DeactivatedKeys DEF Table
<1>6. new.id = calls + 1
  OBVIOUS
<1>7. rows' = Deactivated(prev) \cup {new}
  BY <1>1
<1> HIDE DEF new
<1>8. rows' \subseteq Rows
  BY <1>3, <1>4, <1>7
<1>9. Keys(rows')
  BY <1>4, <1>5, <1>7 DEF Keys
<1>10. \A r \in rows' : r.id <= calls + 1
  <2> SUFFICES ASSUME NEW r \in rows' PROVE r.id <= calls + 1
    OBVIOUS
  <2>1. CASE r = new
    BY <2>1, <1>6
  <2>2. CASE r \in Deactivated(prev)
    BY <2>2, <1>4 DEF Rows, Ids
  <2> QED BY <2>1, <2>2, <1>7
<1>11. OneActive(rows')
  BY <1>4, <1>7 DEF OneActive
<1> QED BY <1>8, <1>9, <1>10, <1>11 DEF Table

\* Updating the row of a name in place takes the place of the active one.
LEMMA UpdateTable ==
  ASSUME Table(rows, calls), calls \in Nat, NEW d \in Deployments, SaveUpdate(d)
  PROVE  Table(rows', calls + 1)
<1>1. PICK r \in Matches(d), prev \in PreviousIds :
        /\ r.bundle # d.bundle
        /\ ~ HashTaken(d)
        /\ rows' = {q \in Deactivated(prev) : q.id # r.id} \cup
             {ActiveRow(r.id, prev, r.name, d.bundle)}
  BY DEF SaveUpdate
<1> DEFINE new == ActiveRow(r.id, prev, r.name, d.bundle)
<1> USE DEF ActiveRow
<1>2. r \in rows /\ r \in Rows
  BY DEF Matches, Table
<1>3. prev \in Ids \cup {NoId}
  BY DEF PreviousIds, Active, Table, Rows
<1>4. new \in Rows
  BY <1>2, <1>3 DEF Rows, Deployments
<1> DEFINE old == {q \in Deactivated(prev) : q.id # r.id}
<1>6. rows' = old \cup {new}
  BY <1>1
<1>7. \A x \in old :
        /\ x \in Rows
        /\ x.id <= calls
        /\ x.id # new.id /\ x.name # new.name /\ x.bundle # new.bundle
        /\ ~ x.active
  <2> TAKE x \in old
  <2>1. x \in Deactivated(prev) /\ x.id # r.id
    OBVIOUS
  <2>2. PICK q \in rows : SameKeys(x, q)
    BY <2>1, DeactivatedRows DEF Table
  <2>3. q.name # r.name
    BY <1>2, <2>1, <2>2 DEF Table, Keys, SameKeys
  <2>4. q.bundle # d.bundle
    BY <1>1 DEF HashTaken
  <2>5. q.id <= calls
    BY DEF Table
  <2>6. x.id <= calls /\ x.id # new.id /\ x.name # new.name /\ x.bundle # new.bundle
    BY <2>1, <2>2, <2>3, <2>4, <2>5 DEF SameKeys
  <2>7. x \in Rows
    BY <2>1, DeactivatedRows DEF Table
  <2> QED BY <2>1, <2>6, <2>7, NoneLeft
<1>8. Keys(old)
  BY DeactivatedKeys DEF Table, Keys
<1>9. new.id <= calls
  BY <1>2 DEF Table
<1> HIDE DEF new, old
<1>10. rows' \subseteq Rows
  BY <1>4, <1>6, <1>7
<1>11. Keys(rows')
  BY <1>6, <1>7, <1>8 DEF Keys
<1>12. \A q \in rows' : q.id <= calls + 1
  <2> SUFFICES ASSUME NEW q \in rows' PROVE q.id <= calls + 1
    OBVIOUS
  <2>1. q.id <= calls /\ q.id \in Nat
    BY <1>4, <1>6, <1>7, <1>9 DEF Rows, Ids
  <2> QED BY <2>1
<1>13. OneActive(rows')
  BY <1>6, <1>7 DEF OneActive
<1> QED BY <1>10, <1>11, <1>12, <1>13 DEF Table

\* A rollback leaves the previous row, if there is one, as the only active one.
LEMMA RollbackTable ==
  ASSUME Table(rows, calls), calls \in Nat, NEW c \in Active
  PROVE  Table(RollbackRows(c), calls + 1)
<1> DEFINE from == IF c.prev = NoId THEN rows ELSE Switched(c.id, c.prev)
<1>1. RollbackRows(c) = {r \in from : r.id # c.id}
  BY DEF RollbackRows
<1>2. c \in rows /\ c.active
  BY DEF Active
<1>3. \A x \in from :
        /\ x \in Rows
        /\ \E r \in rows : SameKeys(x, r) /\ (x.active /\ x.id # c.id => r.id = c.prev)
  <2> TAKE x \in from
  <2>1. CASE c.prev = NoId
    <3>1. x \in rows /\ x \in Rows
      BY <2>1 DEF Table
    <3>2. x.active => x.id = c.id
      BY <1>2, <3>1 DEF Table, OneActive
    <3> QED BY <3>1, <3>2 DEF SameKeys
  <2>2. CASE c.prev # NoId
    <3>1. x \in Switched(c.id, c.prev)
      BY <2>2
    <3>2. PICK r \in rows : /\ SameKeys(x, r)
                            /\ x.active <=> (r.id # c.id /\ (r.active \/ r.id = c.prev))
      BY <3>1, SwitchedRows DEF Table
    <3>3. r.active => r.id = c.id
      BY <1>2, <3>2 DEF Table, OneActive
    <3>4. x \in Rows
      BY <3>1, SwitchedRows DEF Table
    <3> QED BY <3>2, <3>3, <3>4
  <2> QED BY <2>1, <2>2
<1>4. Keys(from)
  <2>1. CASE c.prev = NoId
    BY <2>1 DEF Table
  <2>2. CASE c.prev # NoId
    BY <2>2, SwitchedKeys DEF Table
  <2> QED BY <2>1, <2>2
<1> HIDE DEF from
<1>5. RollbackRows(c) \subseteq Rows
  BY <1>1, <1>3
<1>6. Keys(RollbackRows(c))
  BY <1>1, <1>4 DEF Keys
<1>7. \A x \in RollbackRows(c) : x.id <= calls + 1
  <2> SUFFICES ASSUME NEW x \in from PROVE x.id <= calls + 1
    BY <1>1
  <2>1. PICK r \in rows : SameKeys(x, r)
    BY <1>3
  <2>2. r.id \in Nat /\ r.id <= calls
    BY DEF Table, Rows, Ids
  <2> QED BY <2>1, <2>2 DEF SameKeys
<1>8. OneActive(RollbackRows(c))
  <2> SUFFICES ASSUME NEW x \in RollbackRows(c), NEW y \in RollbackRows(c), x.active, y.active
               PROVE  x = y
    BY DEF OneActive
  <2>1. x.id = c.prev /\ y.id = c.prev
    BY <1>1, <1>3 DEF SameKeys
  <2> QED BY <2>1, <1>6 DEF Keys
<1> QED BY <1>5, <1>6, <1>7, <1>8 DEF Table

-----------------------------------------------------------------------------
(* The inductive invariant. *)

\* Every row holds a deployment that was asked for.
Planned(T) == \A r \in T : [name |-> r.name, bundle |-> r.bundle] \in plan

\* Where every name has one bundle, the row that a server is about to fetch
\* still holds the bundle whose hash it read, or is gone, and what a server runs
\* has the hash it keeps.
Labelled ==
  /\ \A s \in Servers : at[s] = "fetch" => seen[s].id <= calls
  /\ OneBundleEach => \A s \in Servers :
       /\ label[s] = runs[s]
       /\ at[s] = "fetch" => \A r \in WithId(seen[s].id) : r.bundle = seen[s].hash

IInv == TypeOK /\ Table(rows, calls) /\ Planned(rows) /\ Labelled

\* The initial states satisfy the invariant.
LEMMA InitInv == Init => IInv
<1> SUFFICES ASSUME Init PROVE IInv
  OBVIOUS
<1> USE DeployAssumption
<1>1. rows = {} /\ calls = 0 /\ \A s \in Servers : at[s] = "poll" /\ label[s] = runs[s]
  BY DEF Init
<1>2. TypeOK
  BY <1>1 DEF Init, TypeOK
<1>3. Table(rows, calls) /\ Planned(rows)
  BY <1>1 DEF Table, Keys, OneActive, Planned
<1>4. Labelled
  BY <1>1 DEF Labelled
<1> QED BY <1>2, <1>3, <1>4 DEF IInv

\* A call of an admin handler keeps the table in order.
LEMMA AdminTable ==
  ASSUME IInv, NEW s \in Servers,
         Rollback(s) \/ \E d \in plan : Deploy(s, d)
  PROVE  /\ Table(rows', calls')
         /\ calls' = calls + 1 /\ calls' \in 0..MaxCalls
         /\ said' \in Bundles \cup {None}
<1> USE DeployAssumption
<1>1. Table(rows, calls) /\ calls \in 0..MaxCalls /\ plan \subseteq Deployments
  BY DEF IInv, TypeOK
<1>2. calls < MaxCalls /\ calls' = calls + 1
  BY DEF Rollback, Deploy, Admin
<1>3. calls' \in 0..MaxCalls
  BY <1>1, <1>2
<1>4. Table(rows, calls + 1)
  BY <1>1 DEF Table, Rows, Ids
<1>5. ASSUME NEW d \in plan, Deploy(s, d)
      PROVE  Table(rows', calls + 1) /\ said' \in Bundles \cup {None}
  <2>1. d \in Deployments
    BY <1>1
  <2>2. CASE SaveKnown(d)
    <3>1. rows' = rows /\ said' = d.bundle
      BY <2>2 DEF SaveKnown
    <3>2. d.bundle \in Bundles
      BY <2>1 DEF Deployments
    <3>3. Table(rows', calls + 1)
      BY <1>4, <3>1 DEF Table
    <3>4. said' \in Bundles \cup {None}
      BY <3>1, <3>2
    <3> QED BY <3>3, <3>4
  <2>3. CASE SaveInsert(d)
    <3>1. calls \in Nat
      BY <1>1
    <3>2. Table(rows', calls + 1)
      BY <1>1, <1>2, <2>1, <2>3, <3>1, InsertTable
    <3>3. said' \in Bundles
      BY <2>1, <2>3 DEF SaveInsert, Deployments
    <3> QED BY <3>2, <3>3
  <2>4. CASE SaveUpdate(d)
    BY <2>1, <2>4, <1>1, UpdateTable DEF SaveUpdate, Deployments
  <2>5. CASE SaveFails(d)
    BY <2>5, <1>4 DEF SaveFails
  <2> QED BY <1>5, <2>2, <2>3, <2>4, <2>5 DEF Deploy
<1>6. ASSUME Rollback(s) PROVE Table(rows', calls + 1) /\ said' = None
  <2>1. ASSUME rows' = rows PROVE Table(rows', calls + 1)
    BY <2>1, <1>4 DEF Table
  <2>2. ASSUME NEW c \in Active, rows' = RollbackRows(c) PROVE Table(rows', calls + 1)
    BY <2>2, <1>1, RollbackTable
  <2> QED BY <1>6, <2>1, <2>2 DEF Rollback
<1> QED BY <1>2, <1>3, <1>5, <1>6 DEF Rollback

\* A call of an admin handler stores what was asked for, and where every name
\* has one bundle it leaves the bundles of the rows that were there.
LEMMA AdminBundles ==
  ASSUME IInv, NEW s \in Servers,
         Rollback(s) \/ \E d \in plan : Deploy(s, d)
  PROVE  /\ Planned(rows')
         /\ OneBundleEach => \A x \in rows' : x.id <= calls =>
              \E r \in rows : r.id = x.id /\ r.bundle = x.bundle
<1> USE DeployAssumption
<1>1. rows \subseteq Rows /\ calls \in 0..MaxCalls /\ Planned(rows)
  BY DEF IInv, Table, TypeOK
<1> DEFINE From(x) == \E r \in rows : r.id = x.id /\ r.name = x.name /\ r.bundle = x.bundle
           Kept(T) == \A x \in T : From(x)
<1>2. ASSUME NEW T, Kept(T)
      PROVE  Planned(T) /\ \A x \in T : \E r \in rows : r.id = x.id /\ r.bundle = x.bundle
  BY <1>1, <1>2 DEF Planned
<1>3. \A id : Kept(Deactivated(id))
  BY <1>1, DeactivatedRows DEF SameKeys
<1>4. Kept(rows)
  OBVIOUS
<1>5. CASE Rollback(s)
  <2>1. ASSUME NEW c \in Active PROVE Kept(RollbackRows(c))
    <3>1. CASE c.prev = NoId
      BY <3>1, <1>4 DEF RollbackRows
    <3>2. CASE c.prev # NoId
      <4>1. Kept(Switched(c.id, c.prev))
        BY <1>1, SwitchedRows DEF SameKeys
      <4> QED BY <3>2, <4>1 DEF RollbackRows
    <3> QED BY <3>1, <3>2
  <2>2. Kept(rows')
    BY <1>4, <1>5, <2>1 DEF Rollback
  <2> QED BY <1>2, <2>2
<1>6. ASSUME NEW d \in plan, Deploy(s, d), SaveKnown(d) \/ SaveFails(d)
      PROVE  Kept(rows')
  BY <1>4, <1>6 DEF SaveKnown, SaveFails
<1>7. \A d \in plan : d = [name |-> d.name, bundle |-> d.bundle]
  BY DEF IInv, TypeOK, Deployments
<1>8. ASSUME NEW d \in plan, SaveInsert(d)
      PROVE  /\ Planned(rows')
             /\ \A x \in rows' : x.id <= calls => From(x)
  <2>1. PICK prev \in PreviousIds :
          rows' = Deactivated(prev) \cup {ActiveRow(calls + 1, prev, d.name, d.bundle)}
    BY <1>8 DEF SaveInsert
  <2>2. Planned(Deactivated(prev))
    BY <1>2, <1>3
  <2>3. Planned({ActiveRow(calls + 1, prev, d.name, d.bundle)})
    BY <1>7 DEF Planned, ActiveRow
  <2>4. Planned(rows')
    BY <2>1, <2>2, <2>3 DEF Planned
  <2>5. ~ (ActiveRow(calls + 1, prev, d.name, d.bundle).id <= calls)
    BY <1>1 DEF ActiveRow
  <2> QED BY <2>1, <2>4, <2>5, <1>3
<1>9. ASSUME NEW d \in plan, SaveUpdate(d)
      PROVE  Planned(rows') /\ ~ OneBundleEach
  <2>1. PICK r \in Matches(d), prev \in PreviousIds :
          /\ r.bundle # d.bundle
          /\ rows' = {q \in Deactivated(prev) : q.id # r.id} \cup
               {ActiveRow(r.id, prev, r.name, d.bundle)}
    BY <1>9 DEF SaveUpdate
  <2>2. r \in rows /\ r.name = d.name
    BY <2>1 DEF Matches
  <2>3. Planned(Deactivated(prev))
    BY <1>2, <1>3
  <2>4. Planned({ActiveRow(r.id, prev, r.name, d.bundle)})
    BY <1>7, <2>2 DEF Planned, ActiveRow
  <2>5. Planned(rows')
    BY <2>1, <2>3, <2>4 DEF Planned
  <2>6. ~ OneBundleEach
    <3> DEFINE e == [name |-> r.name, bundle |-> r.bundle]
    <3>1. e \in plan /\ e.name = d.name /\ e.bundle # d.bundle
      BY <1>1, <2>1, <2>2 DEF Planned
    <3> QED BY <3>1 DEF OneBundleEach
  <2> QED BY <2>5, <2>6
<1>10. ASSUME NEW d \in plan, Deploy(s, d)
       PROVE  /\ Planned(rows')
              /\ OneBundleEach => \A x \in rows' : x.id <= calls =>
                   \E r \in rows : r.id = x.id /\ r.bundle = x.bundle
  <2>1. CASE SaveKnown(d) \/ SaveFails(d)
    BY <1>2, <1>6, <1>10, <2>1
  <2>2. CASE SaveInsert(d)
    BY <1>8, <2>2
  <2>3. CASE SaveUpdate(d)
    BY <1>9, <2>3
  <2> QED BY <1>10, <2>1, <2>2, <2>3 DEF Deploy
<1> QED BY <1>5, <1>10

\* An admin call leaves the servers alone, and with them their copies valid.
LEMMA AdminInv ==
  ASSUME IInv, NEW s \in Servers,
         Rollback(s) \/ \E d \in plan : Deploy(s, d)
  PROVE  IInv'
<1>1. /\ Table(rows', calls') /\ calls' = calls + 1 /\ calls' \in 0..MaxCalls
      /\ said' \in Bundles \cup {None}
  BY AdminTable
<1>2. UNCHANGED <<plan, at, seen, label, runs>>
  BY DEF Rollback, Deploy, Admin
<1>3. /\ Planned(rows')
      /\ OneBundleEach => \A x \in rows' : x.id <= calls =>
           \E r \in rows : r.id = x.id /\ r.bundle = x.bundle
  BY AdminBundles
<1>4. TypeOK /\ Labelled
  BY DEF IInv
<1>5. TypeOK'
  BY <1>1, <1>2, <1>4 DEF TypeOK, Table, Keys
<1>6. Table(rows, calls)' /\ Planned(rows)'
  BY <1>1, <1>2, <1>3 DEF Table, Keys, OneActive, Planned
<1>7. \A t \in Servers : at[t] = "fetch" => seen[t] \in [id : Ids, hash : Bundles] /\ seen[t].id <= calls
  BY <1>4 DEF TypeOK, Labelled
<1>8. \A t \in Servers : at'[t] = "fetch" => seen'[t].id <= calls'
  BY <1>1, <1>2, <1>4, <1>7 DEF TypeOK, Ids
<1>9. ASSUME OneBundleEach', NEW t \in Servers
      PROVE  /\ label'[t] = runs'[t]
             /\ at'[t] = "fetch" => \A r \in WithId(seen[t].id)' : r.bundle = seen'[t].hash
  <2>1. OneBundleEach
    BY <1>2, <1>9 DEF OneBundleEach
  <2>2. label'[t] = runs'[t]
    BY <1>2, <1>4, <2>1 DEF Labelled
  <2>3. ASSUME at'[t] = "fetch", NEW x \in rows', x.id = seen'[t].id PROVE x.bundle = seen'[t].hash
    <3>1. at[t] = "fetch" /\ seen'[t] = seen[t]
      BY <1>2, <2>3
    <3>2. x.id <= calls
      BY <1>7, <2>3, <3>1
    <3>3. PICK r \in rows : r.id = x.id /\ r.bundle = x.bundle
      BY <1>3, <2>1, <3>2
    <3> QED BY <1>4, <2>1, <2>3, <3>1, <3>3 DEF Labelled, WithId
  <2> QED BY <2>2, <2>3 DEF WithId
<1>10. Labelled'
  BY <1>8, <1>9 DEF Labelled
<1> QED BY <1>5, <1>6, <1>10 DEF IInv

\* A step of a server leaves the table alone; it is enough to look at its copies.
LEMMA ServerInv ==
  ASSUME IInv, UNCHANGED table, TypeOK', Labelled'
  PROVE  IInv'
<1>1. rows' = rows /\ calls' = calls /\ plan' = plan
  BY DEF table
<1>2. Table(rows, calls)' /\ Planned(rows)'
  BY <1>1 DEF IInv, Table, Keys, OneActive, Planned
<1> QED BY <1>2 DEF IInv

\* A server that starts, installs or goes down is not about to fetch, and if what
\* it runs has the hash it keeps, its copies are valid.
LEMMA ServesInv ==
  ASSUME IInv, UNCHANGED table, NEW s \in Servers,
         NEW state \in {"down", "poll"}, NEW hash \in Bundles \cup {Files},
         NEW content \in Bundles \cup {Files}, OneBundleEach => hash = content,
         at' = [at EXCEPT ![s] = state],
         seen' = [seen EXCEPT ![s] = None],
         label' = [label EXCEPT ![s] = hash],
         runs' = [runs EXCEPT ![s] = content]
  PROVE  IInv'
<1>1. rows' = rows /\ calls' = calls /\ plan' = plan /\ said' = said
  BY DEF table
<1>2. TypeOK'
  BY <1>1 DEF IInv, TypeOK
<1>3. \A t \in Servers : at'[t] = "fetch" => at[t] = "fetch" /\ seen'[t] = seen[t]
  BY DEF IInv, TypeOK
<1>4. OneBundleEach' => OneBundleEach
  BY <1>1 DEF OneBundleEach
<1>5. OneBundleEach => \A t \in Servers : label'[t] = runs'[t]
  BY DEF IInv, TypeOK, Labelled
<1>6. Labelled'
  BY <1>1, <1>3, <1>4, <1>5 DEF IInv, Labelled, WithId
<1> QED BY <1>2, <1>6, ServerInv

\* A server that has come back to its ticker without a new configuration.
LEMMA IdleInv ==
  ASSUME IInv, UNCHANGED <<table, label, runs>>, NEW s \in Servers,
         at' = [at EXCEPT ![s] = "poll"],
         seen' = [seen EXCEPT ![s] = None]
  PROVE  IInv'
<1>1. rows' = rows /\ calls' = calls /\ plan' = plan /\ said' = said
  BY DEF table
<1>2. TypeOK'
  BY <1>1 DEF IInv, TypeOK
<1>3. \A t \in Servers : at'[t] = "fetch" => at[t] = "fetch" /\ seen'[t] = seen[t]
  BY DEF IInv, TypeOK
<1>4. OneBundleEach' => OneBundleEach
  BY <1>1 DEF OneBundleEach
<1>5. Labelled'
  BY <1>1, <1>3, <1>4 DEF IInv, Labelled, WithId
<1> QED BY <1>2, <1>5, ServerInv

\* The two queries of a watcher: what it read of the active row is its key.
LEMMA PollInv ==
  ASSUME IInv, NEW s \in Servers, Poll(s)
  PROVE  IInv'
<1>1. UNCHANGED <<table, label, runs>>
  BY DEF Poll
<1>2. PICK r \in Active : seen' = [seen EXCEPT ![s] = [id |-> r.id, hash |-> r.bundle]]
  BY DEF Poll
<1>3. at' = [at EXCEPT ![s] = "fetch"]
  BY DEF Poll
<1>4. r \in rows /\ r.id \in Ids /\ r.bundle \in Bundles /\ r.id <= calls
  BY DEF Active, IInv, Table, Rows
<1>5. rows' = rows /\ calls' = calls /\ plan' = plan /\ said' = said
  BY <1>1 DEF table
<1>6. seen'[s] = [id |-> r.id, hash |-> r.bundle]
  BY <1>2 DEF IInv, TypeOK
<1>7. \A t \in Servers : t # s => at'[t] = at[t] /\ seen'[t] = seen[t]
  BY <1>2, <1>3 DEF IInv, TypeOK
<1>8. TypeOK'
  <2>1. seen' \in [Servers -> [id : Ids, hash : Bundles] \cup {None}]
    BY <1>2, <1>4 DEF IInv, TypeOK
  <2>2. at' \in [Servers -> {"down", "poll", "fetch"}]
    BY <1>3 DEF IInv, TypeOK
  <2>3. \A t \in Servers : at'[t] = "fetch" => seen'[t] \in [id : Ids, hash : Bundles]
    BY <1>4, <1>6, <1>7 DEF IInv, TypeOK
  <2> QED BY <1>1, <1>5, <2>1, <2>2, <2>3 DEF IInv, TypeOK
<1>9. \A q \in rows : q.id = r.id => q.bundle = r.bundle
  BY <1>4 DEF IInv, Table, Keys
<1>10. OneBundleEach' => OneBundleEach
  BY <1>5 DEF OneBundleEach
<1>11. Labelled'
  <2>1. \A t \in Servers : at'[t] = "fetch" => seen'[t].id <= calls'
    BY <1>4, <1>5, <1>6, <1>7 DEF IInv, Labelled
  <2>2. ASSUME OneBundleEach', NEW t \in Servers
        PROVE  /\ label'[t] = runs'[t]
               /\ at'[t] = "fetch" => \A q \in WithId(seen[t].id)' : q.bundle = seen'[t].hash
    <3>1. CASE t = s
      BY <1>1, <1>5, <1>6, <1>9, <1>10, <2>2, <3>1 DEF IInv, Labelled, WithId
    <3>2. CASE t # s
      BY <1>1, <1>5, <1>7, <1>10, <2>2, <3>2 DEF IInv, Labelled, WithId
    <3> QED BY <3>1, <3>2
  <2> QED BY <2>1, <2>2 DEF Labelled
<1> QED BY <1>1, <1>8, <1>11, ServerInv

\* What a server fetches has the hash it read before, where every name has
\* one bundle.
LEMMA InstallInv ==
  ASSUME IInv, NEW s \in Servers, Install(s)
  PROVE  IInv'
<1>1. PICK r \in WithId(seen[s].id) :
        label' = [label EXCEPT ![s] = seen[s].hash] /\ Serve(s, r.bundle)
  BY DEF Install
<1>2. at[s] = "fetch" /\ UNCHANGED table
  BY DEF Install
<1>3. r \in rows /\ r.bundle \in Bundles
  BY DEF WithId, IInv, Table, Rows
<1>4. seen[s].hash \in Bundles
  BY <1>2 DEF IInv, TypeOK
<1>5. OneBundleEach => seen[s].hash = r.bundle
  BY <1>2 DEF IInv, Labelled
<1> QED BY <1>1, <1>2, <1>3, <1>4, <1>5, ServesInv DEF Serve

\* Every step preserves the invariant.
LEMMA NextInv == IInv /\ [Next]_vars => IInv'
<1> SUFFICES ASSUME IInv, [Next]_vars PROVE IInv'
  OBVIOUS
<1>1. CASE UNCHANGED vars
  BY <1>1 DEF vars, table, IInv, TypeOK, Table, Keys, OneActive, Planned, Labelled,
     OneBundleEach, WithId
<1>2. ASSUME NEW s \in Servers, Down(s) PROVE IInv'
  BY <1>2, ServesInv DEF Down
<1>3. ASSUME NEW s \in Servers, Start(s) PROVE IInv'
  <2>1. UNCHANGED table
    BY <1>3 DEF Start
  <2>2. CASE NormalStart(s)
    BY <2>1, <2>2, ServesInv DEF NormalStart, Serve
  <2>3. CASE HotStart(s)
    <3>1. PICK r \in Active : label' = [label EXCEPT ![s] = r.bundle] /\ Serve(s, r.bundle)
      BY <2>3 DEF HotStart
    <3>2. r.bundle \in Bundles
      BY DEF Active, IInv, Table, Rows
    <3> QED BY <2>1, <3>1, <3>2, ServesInv DEF Serve
  <2> QED BY <1>3, <2>2, <2>3 DEF Start
<1>4. ASSUME NEW s \in Servers, InstallFails(s) PROVE IInv'
  BY <1>4, IdleInv DEF InstallFails
<1>5. ASSUME NEW s \in Servers, Server(s) PROVE IInv'
  BY <1>2, <1>3, <1>4, <1>5, PollInv, InstallInv DEF Server, Stop, FetchMissing
<1>6. ASSUME NEW s \in Servers, Rollback(s) \/ \E d \in plan : Deploy(s, d) PROVE IInv'
  BY <1>6, AdminInv
<1> QED BY <1>1, <1>5, <1>6 DEF Next

-----------------------------------------------------------------------------
(* The theorems. *)

\* The state keeps its types, and id, name and hash stay unique in the table.
THEOREM DeployTypes == Spec => []TypeOK
<1>1. IInv => TypeOK
  BY DEF IInv
<1> QED BY <1>1, InitInv, NextInv, PTL DEF Spec

\* However servers deploy and roll back, at most one configuration is active.
THEOREM OneIsActive == Spec => []SingleActive
<1>1. IInv => SingleActive
  <2> SUFFICES ASSUME IInv PROVE Cardinality(Active) <= 1
    BY DEF SingleActive
  <2>1. CASE Active = {}
    BY <2>1, FS_EmptySet
  <2>2. CASE Active # {}
    <3>1. PICK r \in Active : TRUE
      BY <2>2
    <3>2. Active = {r}
      BY <3>1 DEF Active, IInv, Table, OneActive
    <3> QED BY <3>2, FS_Singleton
  <2> QED BY <2>1, <2>2
<1> QED BY <1>1, InitInv, NextInv, PTL DEF Spec

\* Where every name has one bundle, the hash that a server compares with the
\* active one is that of the bundle it serves, although it reads the two in two
\* queries while others deploy and roll back.
THEOREM HashMatches == Spec => []LabelIsContent
<1>1. IInv => LabelIsContent
  BY DEF IInv, Labelled, LabelIsContent
<1> QED BY <1>1, InitInv, NextInv, PTL DEF Spec

-----------------------------------------------------------------------------
(* Chains, by induction over the ids. *)

\* A set of numbers that is not empty has a least one.
LEMMA Least ==
  ASSUME NEW T, T \subseteq Nat, T # {}
  PROVE  \E x \in T : \A y \in T : x <= y
<1>1. PICK x \in T : \A y \in T : ~(<<y, x>> \in OpToRel(<, Nat))
  BY NatLessThanWellFounded, WFMin, Zenon
<1>2. \A y \in T : y < x => <<y, x>> \in OpToRel(<, Nat)
  BY DEF OpToRel
<1>3. \A y \in T : ~(y < x)
  BY <1>1, <1>2
<1> QED BY <1>3

\* Induction over the numbers, said of a set.
LEMMA SetInduction ==
  ASSUME NEW T, 0 \in T, \A n \in Nat : n \in T => n + 1 \in T
  PROVE  Nat \subseteq T
<1> DEFINE U == Nat \ T
<1> SUFFICES ASSUME U # {} PROVE FALSE
  OBVIOUS
<1>1. PICK x \in U : \A y \in U : x <= y
  <2> HIDE DEF U
  <2>1. U \subseteq Nat
    BY DEF U
  <2> QED BY <2>1, Least
<1>2. x # 0 /\ x \in Nat
  OBVIOUS
<1>3. x - 1 \in Nat /\ x - 1 \notin U
  BY <1>1, <1>2
<1> QED BY <1>2, <1>3

\* The chains of bundles down from the rows of T with this id, by the function
\* that Chain defines by recursion.
ChainsFrom(T, f, id) ==
  UNION {IF r.prev \in 1..(id - 1)
         THEN {Append(q, r.bundle) : q \in f[r.prev]}
         ELSE {<<r.bundle>>} : r \in {x \in T : x.id = id}}

IsBelow(T, f, n) == f = [id \in 1..n |-> ChainsFrom(T, f, id)]

\* The chains depend on what is below only.
LEMMA ChainsLocal ==
  ASSUME NEW T, NEW f, NEW g, NEW id, \A i \in 1..(id - 1) : f[i] = g[i]
  PROVE  ChainsFrom(T, f, id) = ChainsFrom(T, g, id)
<1> DEFINE F(h, r) == IF r.prev \in 1..(id - 1) THEN {Append(q, r.bundle) : q \in h[r.prev]}
                      ELSE {<<r.bundle>>}
<1>1. \A r : F(f, r) = F(g, r)
  OBVIOUS
<1>2. ChainsFrom(T, f, id) = UNION {F(f, r) : r \in {x \in T : x.id = id}}
  BY DEF ChainsFrom
<1>3. ChainsFrom(T, g, id) = UNION {F(g, r) : r \in {x \in T : x.id = id}}
  BY DEF ChainsFrom
<1> HIDE DEF F
<1> QED BY <1>1, <1>2, <1>3

\* There is such a function.
LEMMA BelowExists ==
  ASSUME NEW T, NEW N \in Nat
  PROVE  \E f : IsBelow(T, f, N)
<1> DEFINE S == {n \in Nat : \E f : IsBelow(T, f, n)}
<1>1. 0 \in S
  <2> DEFINE f == [id \in 1..0 |-> {}]
  <2>1. IsBelow(T, f, 0)
    BY DEF IsBelow
  <2> QED BY <2>1
<1>2. ASSUME NEW n \in Nat, n \in S PROVE n + 1 \in S
  <2>1. PICK f : IsBelow(T, f, n)
    BY <1>2
  <2>2. PICK top : top = ChainsFrom(T, f, n + 1)
    OBVIOUS
  <2>3. PICK g : g = [id \in 1..(n + 1) |-> IF id <= n THEN f[id] ELSE top]
    OBVIOUS
  <2>4. \A i \in 1..n : g[i] = f[i] /\ i \in 1..(n + 1)
    BY <2>3
  <2>5. ASSUME NEW id \in 1..(n + 1) PROVE g[id] = ChainsFrom(T, g, id)
    <3>1. \A i \in 1..(id - 1) : f[i] = g[i]
      BY <2>4
    <3>2. ChainsFrom(T, g, id) = ChainsFrom(T, f, id)
      BY <3>1, ChainsLocal
    <3>3. CASE id <= n
      BY <2>1, <2>4, <3>2, <3>3 DEF IsBelow
    <3>4. CASE id = n + 1
      BY <2>2, <2>3, <3>2, <3>4
    <3> QED BY <3>3, <3>4
  <2>6. g = [id \in 1..(n + 1) |-> g[id]]
    BY <2>3
  <2>7. IsBelow(T, g, n + 1)
    BY <2>5, <2>6 DEF IsBelow
  <2> QED BY <2>7
<1>3. Nat \subseteq S
  <2> HIDE DEF S
  <2> QED BY <1>1, <1>2, SetInduction
<1> QED BY <1>3

\* A row of both tables is on top of the same rows in each: they are alike but
\* for one row that no other is on top of.
Alike(T, U, e) ==
  /\ \A r \in T : r.id # e => \E x \in U : x.id = r.id /\ x.prev = r.prev /\ x.bundle = r.bundle
  /\ \A x \in U : x.id # e => \E r \in T : x.id = r.id /\ x.prev = r.prev /\ x.bundle = r.bundle
  /\ \A r \in T : r.prev # e

\* The members of the chains from an id.
LEMMA ChainsMembers ==
  ASSUME NEW T, NEW f, NEW id, NEW c
  PROVE  c \in ChainsFrom(T, f, id) <=>
           \E r \in T : /\ r.id = id
                        /\ r.prev \in 1..(id - 1) => \E q \in f[r.prev] : c = Append(q, r.bundle)
                        /\ r.prev \notin 1..(id - 1) => c = <<r.bundle>>
BY DEF ChainsFrom

\* Tables that are alike but for one row have the same chains from the others.
LEMMA BelowAlike ==
  ASSUME NEW T, NEW U, NEW f, NEW g, NEW e, NEW N \in Nat,
         IsBelow(T, f, N), IsBelow(U, g, N), Alike(T, U, e)
  PROVE  \A i \in 1..N : i # e => f[i] = g[i]
<1> DEFINE S == {n \in Nat : \A i \in 1..n : i <= N /\ i # e => f[i] = g[i]}
<1>1. 0 \in S
  OBVIOUS
<1>2. ASSUME NEW n \in Nat, n \in S PROVE n + 1 \in S
  <2>1. \A i \in 1..n : i <= N /\ i # e => f[i] = g[i]
    BY <1>2
  <2>2. SUFFICES ASSUME n + 1 <= N, n + 1 # e PROVE f[n + 1] = g[n + 1]
    BY <2>1
  <2>3. PICK id \in 1..N : id = n + 1
    BY <2>2
  <2>4. f[id] = ChainsFrom(T, f, id) /\ g[id] = ChainsFrom(U, g, id)
    BY DEF IsBelow
  <2>5. \A i \in 1..(id - 1) : i # e => f[i] = g[i]
    BY <2>1, <2>3
  <2>6. ASSUME NEW c \in ChainsFrom(T, f, id) PROVE c \in ChainsFrom(U, g, id)
    <3>1. PICK r \in T : /\ r.id = id
                         /\ r.prev \in 1..(id - 1) => \E q \in f[r.prev] : c = Append(q, r.bundle)
                         /\ r.prev \notin 1..(id - 1) => c = <<r.bundle>>
      BY <2>6, ChainsMembers
    <3>2. PICK x \in U : x.id = r.id /\ x.prev = r.prev /\ x.bundle = r.bundle
      BY <2>2, <2>3, <3>1 DEF Alike
    <3>3. r.prev \in 1..(id - 1) => f[r.prev] = g[r.prev]
      BY <2>5 DEF Alike
    <3>4. /\ x.id = id
          /\ x.prev \in 1..(id - 1) => \E q \in g[x.prev] : c = Append(q, x.bundle)
          /\ x.prev \notin 1..(id - 1) => c = <<x.bundle>>
      BY <3>1, <3>2, <3>3
    <3> QED BY <3>4, ChainsMembers
  <2>7. ASSUME NEW c \in ChainsFrom(U, g, id) PROVE c \in ChainsFrom(T, f, id)
    <3>1. PICK x \in U : /\ x.id = id
                         /\ x.prev \in 1..(id - 1) => \E q \in g[x.prev] : c = Append(q, x.bundle)
                         /\ x.prev \notin 1..(id - 1) => c = <<x.bundle>>
      BY <2>7, ChainsMembers
    <3>2. PICK r \in T : x.id = r.id /\ x.prev = r.prev /\ x.bundle = r.bundle
      BY <2>2, <2>3, <3>1 DEF Alike
    <3>3. r.prev \in 1..(id - 1) => f[r.prev] = g[r.prev]
      BY <2>5 DEF Alike
    <3>4. /\ r.id = id
          /\ r.prev \in 1..(id - 1) => \E q \in f[r.prev] : c = Append(q, r.bundle)
          /\ r.prev \notin 1..(id - 1) => c = <<r.bundle>>
      BY <3>1, <3>2, <3>3
    <3> QED BY <3>4, ChainsMembers
  <2>8. ChainsFrom(T, f, id) = ChainsFrom(U, g, id)
    BY <2>6, <2>7
  <2> QED BY <2>3, <2>4, <2>8
<1>3. Nat \subseteq S
  <2> HIDE DEF S
  <2> QED BY <1>1, <1>2, SetInduction
<1>4. N \in S
  BY <1>3
<1> QED BY <1>4

\* Chain, if the function it defines is f.
ChainBy(f) ==
  IF Active = {} THEN <<>> ELSE CHOOSE q \in UNION {f[r.id] : r \in Active} : TRUE

\* Chain is a value of such a function.
LEMMA ChainIs ==
  ASSUME MaxCalls \in Nat
  PROVE  \E f : IsBelow(rows, f, MaxCalls) /\ Chain = ChainBy(f)
<1>1. PICK f : IsBelow(rows, f, MaxCalls)
  BY BelowExists
<1> DEFINE g == CHOOSE f_1 : IsBelow(rows, f_1, MaxCalls)
<1>2. IsBelow(rows, g, MaxCalls)
  BY <1>1, Zenon
<1>3. Chain = ChainBy(g)
  BY DEF Chain, ChainBy, IsBelow, ChainsFrom, WithId, Ids
<1> HIDE DEF g
<1> QED BY <1>2, <1>3

-----------------------------------------------------------------------------
(* The rows as a stack. *)

\* Where every name has one bundle a row is on top of one that is there, no
\* two are on top of the same, and none is on top of the active one.
Linked(T) ==
  /\ \A r \in T : r.prev # NoId => r.prev < r.id /\ \E q \in T : q.id = r.prev
  /\ \A r, q \in T : r.prev = q.prev /\ r.prev # NoId => r = q
  /\ \A r, q \in T : r.active => q.prev # r.id

BundlesOf(T) == {q.bundle : q \in T}

\* There is one chain from a row: the one from the row below it, and its bundle.
OnTop(T, f, r) ==
  \E c \in Seq(BundlesOf(T)) :
     /\ f[r.id] = {c}
     /\ r.prev = NoId => c = <<r.bundle>>
     /\ r.prev # NoId => \E d \in Seq(BundlesOf(T)) : f[r.prev] = {d} /\ c = Append(d, r.bundle)

\* Every row has one.
LEMMA BelowIsOne ==
  ASSUME NEW T, T \subseteq Rows, Keys(T), Linked(T), MaxCalls \in Nat,
         NEW f, IsBelow(T, f, MaxCalls)
  PROVE  \A r \in T : OnTop(T, f, r)
<1> DEFINE S == {n \in Nat : \A r \in T : r.id <= n => OnTop(T, f, r)}
<1>0. \A r \in T : r.id \in 1..MaxCalls /\ r.prev \in Int /\ (r.prev # NoId => r.prev \in 1..MaxCalls)
                   /\ r.bundle \in BundlesOf(T)
  BY DEF Rows, Ids, NoId, BundlesOf
<1>1. 0 \in S
  BY <1>0
<1>2. ASSUME NEW n \in Nat, n \in S PROVE n + 1 \in S
  <2>1. \A r \in T : r.id <= n => OnTop(T, f, r)
    BY <1>2
  <2>2. SUFFICES ASSUME NEW r \in T, r.id = n + 1 PROVE OnTop(T, f, r)
    BY <2>1, <1>0
  <2>3. \A x \in T : x.id = r.id => x = r
    BY DEF Keys
  <2>4. f[r.id] = ChainsFrom(T, f, r.id)
    BY <1>0 DEF IsBelow
  <2>5. CASE r.prev = NoId
    <3>1. r.prev \notin 1..(r.id - 1)
      BY <2>5 DEF NoId
    <3>2. \A c : c \in f[r.id] <=> c = <<r.bundle>>
      BY <2>3, <2>4, <3>1, ChainsMembers
    <3>3. f[r.id] = {<<r.bundle>>}
      BY <3>2
    <3>4. <<r.bundle>> \in Seq(BundlesOf(T))
      BY <1>0
    <3> QED BY <2>5, <3>3, <3>4 DEF OnTop
  <2>6. CASE r.prev # NoId
    <3>1. PICK q \in T : q.id = r.prev /\ r.prev < r.id
      BY <2>6 DEF Linked
    <3>2. r.prev \in 1..(r.id - 1) /\ q.id <= n
      BY <1>0, <2>2, <2>6, <3>1
    <3>3. PICK d \in Seq(BundlesOf(T)) : f[r.prev] = {d}
      BY <2>1, <3>1, <3>2 DEF OnTop
    <3>4. \A c : c \in f[r.id] <=> c = Append(d, r.bundle)
      BY <2>3, <2>4, <3>2, <3>3, ChainsMembers
    <3>5. f[r.id] = {Append(d, r.bundle)}
      BY <3>4
    <3>6. Append(d, r.bundle) \in Seq(BundlesOf(T))
      BY <1>0, AppendProperties
    <3> QED BY <2>6, <3>3, <3>5, <3>6 DEF OnTop
  <2> QED BY <2>5, <2>6
<1>3. Nat \subseteq S
  <2> HIDE DEF S
  <2> QED BY <1>1, <1>2, SetInduction
<1>4. MaxCalls \in S
  BY <1>3
<1> QED BY <1>0, <1>4

\* The chain is the one from the active row.
LEMMA ChainFromActive ==
  ASSUME MaxCalls \in Nat, Table(rows, calls)
  PROVE  \E f : /\ IsBelow(rows, f, MaxCalls)
                /\ Active = {} => Chain = <<>>
                /\ \A r \in Active : \A c : f[r.id] = {c} => Chain = c
<1>1. PICK f : IsBelow(rows, f, MaxCalls) /\ Chain = ChainBy(f)
  BY ChainIs
<1>2. ASSUME NEW r \in Active, NEW c, f[r.id] = {c} PROVE Chain = c
  <2>1. \A q \in Active : q = r
    BY <1>2 DEF Active, Table, OneActive
  <2>2. UNION {f[q.id] : q \in Active} = {c}
    BY <1>2, <2>1
  <2>3. Chain = CHOOSE q \in {c} : TRUE
    BY <1>1, <1>2, <2>2 DEF ChainBy
  <2> QED BY <2>3
<1>3. Active = {} => Chain = <<>>
  BY <1>1 DEF ChainBy
<1> QED BY <1>1, <1>2, <1>3

\* Two tables that are alike have the same chains.
LEMMA SameChain ==
  ASSUME MaxCalls \in Nat, NEW T, NEW U, NEW f, NEW g, NEW e, Alike(T, U, e),
         IsBelow(T, f, MaxCalls), IsBelow(U, g, MaxCalls), NEW i \in Ids, i # e
  PROVE  f[i] = g[i]
BY BelowAlike DEF Ids

\* Linked rows have one chain each, and Chain is that of the active one.
ChainFound ==
  Table(rows, calls) /\ Linked(rows) =>
    \E f : /\ IsBelow(rows, f, MaxCalls)
           /\ \A r \in rows : OnTop(rows, f, r)
           /\ Active = {} => Chain = <<>>
           /\ \A r \in Active : f[r.id] = {Chain} /\ Chain \in Seq(BundlesOf(rows))

\* So it is wherever the rows are linked.
LEMMA ChainIsThere == ChainFound
<1> SUFFICES ASSUME Table(rows, calls), Linked(rows)
             PROVE  \E f : /\ IsBelow(rows, f, MaxCalls)
                           /\ \A r \in rows : OnTop(rows, f, r)
                           /\ Active = {} => Chain = <<>>
                           /\ \A r \in Active : f[r.id] = {Chain} /\ Chain \in Seq(BundlesOf(rows))
  BY DEF ChainFound
<1>1. PICK f : /\ IsBelow(rows, f, MaxCalls)
               /\ Active = {} => Chain = <<>>
               /\ \A r \in Active : \A c : f[r.id] = {c} => Chain = c
  BY DeployAssumption, ChainFromActive
<1>2. \A r \in rows : OnTop(rows, f, r)
  BY <1>1, DeployAssumption, BelowIsOne DEF Table
<1>3. ASSUME NEW r \in Active PROVE f[r.id] = {Chain} /\ Chain \in Seq(BundlesOf(rows))
  <2>1. PICK c \in Seq(BundlesOf(rows)) : f[r.id] = {c}
    BY <1>2, <1>3 DEF OnTop, Active
  <2> QED BY <1>1, <2>1
<1> QED BY <1>1, <1>2, <1>3

\* The same of the table after a step.
LEMMA ChainFoundPrimed ==
  ASSUME ChainFound', Table(rows, calls)', Linked(rows')
  PROVE  \E f : /\ IsBelow(rows', f, MaxCalls)
                /\ \A r \in rows' : OnTop(rows', f, r)
                /\ Active' = {} => Chain' = <<>>
                /\ \A r \in Active' : f[r.id] = {Chain'}
<1>1. Linked(rows)'
  BY DEF Linked
<1>2. PICK f : /\ IsBelow(rows, f, MaxCalls)'
               /\ (\A r \in rows : OnTop(rows, f, r))'
               /\ Active' = {} => Chain' = <<>>
               /\ \A r \in Active' : f[r.id] = {Chain'}
  BY <1>1 DEF ChainFound
<1>3. IsBelow(rows', f, MaxCalls)
  BY <1>2 DEF IsBelow, ChainsFrom
<1>4. \A r \in rows' : OnTop(rows', f, r)
  BY <1>2 DEF OnTop, BundlesOf
<1> QED BY <1>2, <1>3, <1>4

\* The same rows, but for which of them is active.
SameRows(T, U) ==
  /\ \A x \in U : \E r \in T : SameKeys(x, r)
  /\ \A r \in T : \E x \in U : SameKeys(x, r)

\* Deactivated keeps every row.
LEMMA DeactivatedSame ==
  ASSUME rows \subseteq Rows, NEW id
  PROVE  SameRows(rows, Deactivated(id))
<1>1. ASSUME NEW r \in rows PROVE \E x \in Deactivated(id) : SameKeys(x, r)
  <2> DEFINE x == [r EXCEPT !.active = @ /\ r.id # id]
  <2>1. x \in Deactivated(id)
    BY DEF Deactivated
  <2>2. SameKeys(x, r)
    BY DEF SameKeys, Rows
  <2> QED BY <2>1, <2>2
<1> QED BY <1>1, DeactivatedRows DEF SameRows

\* Switched keeps every row.
LEMMA SwitchedSame ==
  ASSUME rows \subseteq Rows, NEW id, NEW prev
  PROVE  SameRows(rows, Switched(id, prev))
<1>1. ASSUME NEW r \in rows PROVE \E x \in Switched(id, prev) : SameKeys(x, r)
  <2> DEFINE x == [r EXCEPT !.active = IF r.id = id THEN FALSE ELSE @ \/ r.id = prev]
  <2>1. x \in Switched(id, prev)
    BY DEF Switched
  <2>2. SameKeys(x, r)
    BY DEF SameKeys, Rows
  <2> QED BY <2>1, <2>2
<1> QED BY <1>1, SwitchedRows DEF SameRows

\* A new configuration is put on top of the chain.
LEMMA InsertPushes ==
  ASSUME IInv, Linked(rows), NEW d \in plan, calls < MaxCalls, calls' = calls + 1, SaveInsert(d),
         Table(rows, calls)'
  PROVE  /\ Linked(rows)'
         /\ d.bundle \in Bundles
         /\ Chain \in Seq(BundlesOf(rows)) /\ d.bundle \notin BundlesOf(rows)
         /\ Chain' = Append(Chain, d.bundle)
<1> DEFINE new(prev) == ActiveRow(calls + 1, prev, d.name, d.bundle)
<1>1. PICK prev \in PreviousIds : rows' = Deactivated(prev) \cup {new(prev)}
  BY DEF SaveInsert
<1>2. PICK n : n = new(prev)
  OBVIOUS
<1>3. n.id = calls + 1 /\ n.prev = prev /\ n.bundle = d.bundle /\ n.active /\ n \in rows'
  BY <1>1, <1>2 DEF ActiveRow
<1>4. Table(rows, calls) /\ rows \subseteq Rows /\ calls \in Nat /\ MaxCalls \in Nat
  BY DeployAssumption DEF IInv, Table, TypeOK
<1>5. PICK D : D = Deactivated(prev)
  OBVIOUS
<1>6. SameRows(rows, D)
  BY <1>4, <1>5, DeactivatedSame
<1>7. rows' = D \cup {n}
  BY <1>1, <1>2, <1>5
<1>8. \A x \in D : ~ x.active
  BY <1>4, <1>5, NoneLeft
<1>9. \A r \in rows : /\ r.id \in 1..calls /\ r.prev \in Int
                      /\ r.prev # NoId => r.prev < r.id
                      /\ r.prev < calls + 1
  BY <1>4 DEF Table, Rows, Ids, Linked, NoId
<1>10. \A x \in D : /\ x.id \in 1..calls /\ x.prev \in Int
                    /\ x.prev # NoId => x.prev < x.id
                    /\ x.prev < calls + 1
  BY <1>6, <1>9 DEF SameRows, SameKeys
<1>11. (prev = NoId /\ Active = {}) \/ (\E a \in Active : prev = a.id)
  BY DEF PreviousIds
<1>12. Linked(rows')
  <2>1. ASSUME NEW r \in rows', r.prev # NoId
        PROVE  r.prev < r.id /\ \E q \in rows' : q.id = r.prev
    <3>1. CASE r = n
      <4>1. PICK a \in Active : prev = a.id
        BY <1>3, <1>11, <2>1, <3>1
      <4>2. a \in rows /\ a.id \in 1..calls
        BY <1>9 DEF Active
      <4>3. PICK x \in D : SameKeys(x, a)
        BY <1>6, <4>2 DEF SameRows
      <4> QED BY <1>3, <1>4, <1>7, <3>1, <4>1, <4>2, <4>3 DEF SameKeys
    <3>2. CASE r \in D
      <4>1. PICK q \in rows : SameKeys(r, q)
        BY <1>6, <3>2 DEF SameRows
      <4>2. PICK p \in rows : p.id = q.prev
        BY <2>1, <4>1 DEF SameKeys, Linked
      <4>3. PICK x \in D : SameKeys(x, p)
        BY <1>6 DEF SameRows
      <4> QED BY <1>7, <1>10, <2>1, <3>2, <4>1, <4>2, <4>3 DEF SameKeys
    <3> QED BY <1>7, <3>1, <3>2
  <2>2. ASSUME NEW r \in rows', NEW q \in D, r.prev = q.prev, r.prev # NoId
        PROVE  r = q
    <3>1. PICK q1 \in rows : SameKeys(q, q1)
      BY <1>6 DEF SameRows
    <3>2. CASE r \in D
      <4>1. PICK r1 \in rows : SameKeys(r, r1)
        BY <1>6, <3>2 DEF SameRows
      <4>2. r1 = q1
        BY <2>2, <3>1, <4>1 DEF Linked, SameKeys
      <4>3. r.id = q.id /\ q \in rows'
        BY <1>7, <3>1, <4>1, <4>2 DEF SameKeys
      <4> QED BY <4>3 DEF Table, Keys
    <3>3. CASE r = n
      <4>1. PICK a \in Active : prev = a.id
        BY <1>3, <1>11, <2>2, <3>3
      <4>2. a \in rows /\ a.active /\ q1.prev = a.id
        BY <1>3, <2>2, <3>1, <3>3, <4>1 DEF Active, SameKeys
      <4> QED BY <4>2 DEF Linked
    <3> QED BY <1>7, <3>2, <3>3
  <2>3. ASSUME NEW r \in rows', NEW q \in rows', r.active PROVE q.prev # r.id
    <3>1. r = n
      BY <1>7, <1>8, <2>3
    <3>2. prev < calls + 1
      BY <1>4, <1>9, <1>11 DEF NoId, Active
    <3>3. q.prev < calls + 1 /\ q.prev \in Int
      BY <1>3, <1>4, <1>7, <1>9, <1>10, <1>11, <3>2 DEF NoId, Active
    <3> QED BY <1>3, <1>4, <3>1, <3>3
  <2>4. \A r, q \in rows' : r.prev = q.prev /\ r.prev # NoId => r = q
    BY <1>7, <2>2
  <2> QED BY <2>1, <2>3, <2>4 DEF Linked
<1>13. ChainFound /\ ChainFound'
  BY ChainIsThere, PTL
<1>14. PICK f : /\ IsBelow(rows, f, MaxCalls)
                /\ \A r \in rows : OnTop(rows, f, r)
                /\ Active = {} => Chain = <<>>
                /\ \A r \in Active : f[r.id] = {Chain} /\ Chain \in Seq(BundlesOf(rows))
  BY <1>4, <1>13 DEF ChainFound
<1>15. PICK g : /\ IsBelow(rows', g, MaxCalls)
                /\ \A r \in rows' : OnTop(rows', g, r)
                /\ \A r \in Active' : g[r.id] = {Chain'}
  BY <1>12, <1>13, ChainFoundPrimed
<1>16. Alike(rows, rows', n.id)
  <2>1. \A x \in rows : x.prev # n.id
    BY <1>3, <1>4, <1>9
  <2>2. \A x \in rows' : x.id # n.id => \E r \in rows : x.id = r.id /\ x.prev = r.prev /\ x.bundle = r.bundle
    BY <1>6, <1>7 DEF SameRows, SameKeys
  <2>3. \A r \in rows : \E x \in rows' : x.id = r.id /\ x.prev = r.prev /\ x.bundle = r.bundle
    BY <1>6, <1>7 DEF SameRows, SameKeys
  <2> QED BY <2>1, <2>2, <2>3 DEF Alike
<1>17. n \in Active' /\ OnTop(rows', g, n) /\ g[n.id] = {Chain'}
  BY <1>3, <1>15 DEF Active
<1>18. Chain \in Seq(BundlesOf(rows))
  <2>1. CASE Active = {}
    BY <1>14, <2>1
  <2>2. CASE Active # {}
    BY <1>14, <2>2
  <2> QED BY <2>1, <2>2
<1>19. Chain' = Append(Chain, d.bundle)
  <2>1. CASE prev = NoId /\ Active = {}
    <3>1. Chain = <<>> /\ g[n.id] = {<<d.bundle>>}
      BY <1>3, <1>14, <1>17, <2>1 DEF OnTop
    <3>2. Chain' = <<d.bundle>>
      BY <1>17, <3>1
    <3> QED BY <3>1, <3>2
  <2>2. CASE \E a \in Active : prev = a.id
    <3>1. PICK a \in Active : prev = a.id
      BY <2>2
    <3>2. a \in rows /\ a.id \in 1..calls /\ prev \in Ids /\ prev # n.id /\ prev # NoId
      BY <1>3, <1>4, <1>9, <3>1 DEF Active, Ids, Table, Rows, NoId
    <3>3. f[prev] = g[prev]
      BY <1>4, <1>14, <1>15, <1>16, <3>2, SameChain
    <3>4. PICK c : \E e : g[n.id] = {c} /\ g[prev] = {e} /\ c = Append(e, d.bundle)
      BY <1>3, <1>17, <3>2 DEF OnTop
    <3>5. g[prev] = {Chain}
      BY <1>14, <3>1, <3>3
    <3> QED BY <1>17, <3>4, <3>5
  <2> QED BY <1>11, <2>1, <2>2
<1>20. d.bundle \notin BundlesOf(rows)
  BY DEF SaveInsert, Matches, BundlesOf
<1>21. d.bundle \in Bundles
  BY DeployAssumption DEF IInv, TypeOK, Deployments
<1> QED BY <1>12, <1>18, <1>19, <1>20, <1>21 DEF Linked

\* What a rollback leaves of the table: all rows but the active one, the row below
\* it is the active one.
LEMMA RollbackLeaves ==
  ASSUME Table(rows, calls), NEW c \in Active, rows' = RollbackRows(c)
  PROVE  /\ \A x \in rows' : /\ \E r \in rows : SameKeys(x, r) /\ r.id # c.id
                             /\ x.active <=> c.prev # NoId /\ x.id = c.prev
         /\ \A r \in rows : r.id # c.id => \E x \in rows' : SameKeys(x, r)
<1>1. c \in rows /\ c.active /\ rows \subseteq Rows
  BY DEF Active, Table
<1>2. \A r \in rows : r.active <=> r.id = c.id
  BY <1>1 DEF Table, OneActive, Keys
<1>3. CASE c.prev = NoId
  <2>1. rows' = {r \in rows : r.id # c.id}
    BY <1>3 DEF RollbackRows
  <2>2. \A x \in rows' : x \in rows /\ x.id # c.id /\ SameKeys(x, x)
    BY <2>1 DEF SameKeys
  <2>3. \A x \in rows' : ~ x.active
    BY <1>2, <2>2
  <2> QED BY <1>1, <1>3, <2>1, <2>2, <2>3 DEF Rows
<1>4. CASE c.prev # NoId
  <2>1. PICK S : S = Switched(c.id, c.prev)
    OBVIOUS
  <2>2. rows' = {r \in S : r.id # c.id}
    BY <1>4, <2>1 DEF RollbackRows
  <2>3. ASSUME NEW x \in rows'
        PROVE  /\ \E r \in rows : SameKeys(x, r) /\ r.id # c.id
               /\ x.active <=> x.id = c.prev
    <3>1. x \in S /\ x.id # c.id
      BY <2>2
    <3>2. PICK r \in rows : /\ SameKeys(x, r)
                            /\ x.active <=> (r.id # c.id /\ (r.active \/ r.id = c.prev))
      BY <1>1, <2>1, <3>1, SwitchedRows
    <3>3. r.id # c.id /\ r.id = x.id /\ (r.active <=> r.id = c.id)
      BY <1>2, <3>1, <3>2 DEF SameKeys
    <3> QED BY <3>2, <3>3
  <2>4. ASSUME NEW r \in rows, r.id # c.id PROVE \E x \in rows' : SameKeys(x, r)
    <3>1. PICK x \in S : SameKeys(x, r)
      BY <1>1, <2>1, SwitchedSame DEF SameRows
    <3> QED BY <2>2, <2>4, <3>1 DEF SameKeys
  <2> QED BY <1>4, <2>3, <2>4
<1> QED BY <1>3, <1>4

\* A rollback takes the top of the chain away.
LEMMA RollbackPops ==
  ASSUME IInv, Linked(rows), NEW c \in Active, rows' = RollbackRows(c), Table(rows, calls)'
  PROVE  /\ Linked(rows)'
         /\ \E q \in Seq(BundlesOf(rows)), b \in BundlesOf(rows) : Chain = Append(q, b) /\ Chain' = q
<1>1. Table(rows, calls) /\ rows \subseteq Rows /\ MaxCalls \in Nat
  BY DeployAssumption DEF IInv, Table
<1>2. \A x \in rows' : /\ \E r \in rows : SameKeys(x, r) /\ r.id # c.id
                       /\ x.active <=> c.prev # NoId /\ x.id = c.prev
  BY <1>1, RollbackLeaves
<1>3. \A r \in rows : r.id # c.id => \E x \in rows' : SameKeys(x, r)
  BY <1>1, RollbackLeaves
<1>4. c \in rows /\ c.active /\ \A r \in rows : r.prev # c.id
  BY DEF Active, Linked
<1>5. Linked(rows')
  <2>1. ASSUME NEW x \in rows', x.prev # NoId
        PROVE  x.prev < x.id /\ \E y \in rows' : y.id = x.prev
    <3>1. PICK r \in rows : SameKeys(x, r)
      BY <1>2
    <3>2. r.prev < r.id /\ \E q \in rows : q.id = r.prev
      BY <2>1, <3>1 DEF Linked, SameKeys
    <3>3. PICK q \in rows : q.id = r.prev
      BY <3>2
    <3>4. PICK y \in rows' : SameKeys(y, q)
      BY <1>3, <1>4, <3>3
    <3> QED BY <3>1, <3>2, <3>3, <3>4 DEF SameKeys
  <2>2. ASSUME NEW x \in rows', NEW y \in rows', x.prev = y.prev, x.prev # NoId
        PROVE  x = y
    <3>1. PICK r \in rows : SameKeys(x, r)
      BY <1>2
    <3>2. PICK q \in rows : SameKeys(y, q)
      BY <1>2
    <3>3. r.prev = q.prev /\ r.prev # NoId
      BY <2>2, <3>1, <3>2 DEF SameKeys
    <3>4. \A u, v \in rows : u.prev = v.prev /\ u.prev # NoId => u = v
      BY DEF Linked
    <3>5. r = q
      BY <3>3, <3>4
    <3>6. x.id = y.id
      BY <3>1, <3>2, <3>5 DEF SameKeys
    <3>7. \A u, v \in rows' : u.id = v.id => u = v
      BY DEF Table, Keys
    <3> QED BY <3>6, <3>7
  <2>3. ASSUME NEW x \in rows', NEW y \in rows', x.active PROVE y.prev # x.id
    <3>1. c.prev # NoId /\ x.id = c.prev
      BY <1>2, <2>3
    <3>2. PICK q \in rows : SameKeys(y, q) /\ q.id # c.id
      BY <1>2
    <3>3. q.prev # c.prev
      BY <1>4, <3>1, <3>2 DEF Linked
    <3> QED BY <3>1, <3>2, <3>3 DEF SameKeys
  <2> QED BY <2>1, <2>2, <2>3 DEF Linked
<1>6. ChainFound /\ ChainFound'
  BY ChainIsThere, PTL
<1>7. PICK f : /\ IsBelow(rows, f, MaxCalls)
               /\ \A r \in rows : OnTop(rows, f, r)
               /\ \A r \in Active : f[r.id] = {Chain}
  BY <1>1, <1>6 DEF ChainFound
<1>8. PICK g : /\ IsBelow(rows', g, MaxCalls)
               /\ Active' = {} => Chain' = <<>>
               /\ \A r \in Active' : g[r.id] = {Chain'}
  BY <1>5, <1>6, ChainFoundPrimed
<1>9. Alike(rows, rows', c.id)
  <2>1. \A x \in rows' : x.id # c.id => \E r \in rows : x.id = r.id /\ x.prev = r.prev /\ x.bundle = r.bundle
    BY <1>2 DEF SameKeys
  <2>2. \A r \in rows : r.id # c.id => \E x \in rows' : x.id = r.id /\ x.prev = r.prev /\ x.bundle = r.bundle
    BY <1>3 DEF SameKeys
  <2> QED BY <1>4, <2>1, <2>2 DEF Alike
<1>10. OnTop(rows, f, c) /\ f[c.id] = {Chain}
  BY <1>4, <1>7
<1>11. c.prev = NoId => Active' = {}
  BY <1>2 DEF Active
<1>12. c.bundle \in BundlesOf(rows)
  BY <1>4 DEF BundlesOf
<1>13. CASE c.prev = NoId
  <2>1. Chain = <<c.bundle>>
    BY <1>10, <1>13 DEF OnTop
  <2>2. Chain' = <<>>
    BY <1>8, <1>11, <1>13
  <2>3. Chain = Append(<<>>, c.bundle)
    BY <2>1
  <2>4. <<>> \in Seq(BundlesOf(rows))
    OBVIOUS
  <2> QED BY <1>5, <1>12, <2>2, <2>3, <2>4 DEF Linked
<1>14. CASE c.prev # NoId
  <2>1. PICK d \in Seq(BundlesOf(rows)) : f[c.prev] = {d} /\ Chain = Append(d, c.bundle)
    BY <1>10, <1>14 DEF OnTop
  <2>2. PICK p \in rows : p.id = c.prev
    BY <1>4, <1>14 DEF Linked
  <2>3. PICK x \in rows' : SameKeys(x, p)
    BY <1>3, <1>4, <2>2
  <2>4. x \in Active' /\ x.id = c.prev
    BY <1>2, <1>14, <2>2, <2>3 DEF Active, SameKeys
  <2>5. c.prev \in Ids /\ c.prev # c.id
    BY <1>1, <1>4, <2>2 DEF Rows
  <2>6. f[c.prev] = g[c.prev]
    BY <1>1, <1>7, <1>8, <1>9, <2>5, SameChain
  <2>7. Chain' = d
    BY <1>8, <2>1, <2>4, <2>6
  <2> QED BY <1>5, <1>12, <2>1, <2>7 DEF Linked
<1> QED BY <1>13, <1>14

-----------------------------------------------------------------------------
(* The refinement. *)

\* The inductive invariant of the refinement.
StackInv == IInv /\ (OneBundleEach => Linked(rows))

\* The chain of the table is the state of the stack.
Bar == IF OneBundleEach THEN Chain ELSE <<>>

\* Where a bundle may have two names the stack is empty, and stays so.
LEMMA OneNameStays ==
  ASSUME [Next]_vars
  PROVE  plan' = plan /\ (OneBundleEach' <=> OneBundleEach)
<1>1. plan' = plan
  BY DEF Next, vars, table, Deploy, Rollback, Admin, Server, Start, Stop, Down, Poll,
     FetchMissing,
         Install, InstallFails
<1> QED BY <1>1 DEF OneBundleEach

\* Rows that do not change are the same chain.
LEMMA SameRowsSameChain ==
  ASSUME rows' = rows
  PROVE  Chain' = Chain /\ (Linked(rows)' <=> Linked(rows))
<1>1. Chain' = Chain
  BY DEF Chain, WithId, Active
<1> QED BY <1>1 DEF Linked

\* The row of a name is updated only where a name is used twice.
LEMMA UpdateIsReuse ==
  ASSUME IInv, NEW d \in plan, SaveUpdate(d)
  PROVE  ~ OneBundleEach
<1>1. PICK r \in Matches(d) : r.bundle # d.bundle
  BY DEF SaveUpdate
<1>2. r \in rows /\ r.name = d.name
  BY <1>1 DEF Matches
<1>3. PICK e \in plan : e.name = r.name /\ e.bundle = r.bundle
  BY <1>2 DEF IInv, Planned
<1> QED BY <1>1, <1>2, <1>3 DEF OneBundleEach

\* Every step is one of the stack or leaves it alone.
LEMMA StackStep ==
  ASSUME StackInv, [Next]_vars
  PROVE  /\ StackInv'
         /\ [Stack!Next]_Bar
<1>1. IInv /\ IInv' /\ (OneBundleEach' <=> OneBundleEach)
  BY NextInv, OneNameStays DEF StackInv
<1>2. Table(rows, calls) /\ Table(rows, calls)'
  BY <1>1 DEF IInv
<1>3. ASSUME rows' = rows PROVE StackInv' /\ Bar' = Bar
  BY <1>1, <1>3, SameRowsSameChain DEF StackInv, Bar
<1>4. ASSUME ~ OneBundleEach PROVE StackInv' /\ Bar' = Bar
  BY <1>1, <1>4 DEF StackInv, Bar
<1>5. ASSUME OneBundleEach, NEW s \in Servers, NEW d \in plan, Deploy(s, d)
      PROVE  StackInv' /\ [Stack!Next]_Bar
  <2>1. CASE SaveInsert(d)
    <3>1. calls < MaxCalls /\ calls' = calls + 1 /\ Linked(rows)
      BY <1>5 DEF Deploy, Admin, StackInv
    <3>2. /\ Linked(rows)' /\ d.bundle \in Bundles
          /\ Chain \in Seq(BundlesOf(rows)) /\ d.bundle \notin BundlesOf(rows)
          /\ Chain' = Append(Chain, d.bundle)
      BY <1>1, <1>2, <2>1, <3>1, InsertPushes
    <3>3. PICK q \in Seq(BundlesOf(rows)) : q = Bar
      BY <1>5, <3>2 DEF Bar
    <3>4. Bar' = Append(q, d.bundle)
      BY <1>1, <1>5, <3>2, <3>3 DEF Bar
    <3>5. \A k \in 1..Len(q) : q[k] # d.bundle
      BY <3>2, <3>3
    <3>6. Stack!Deploy(d.bundle)
      BY <3>3, <3>4, <3>5 DEF Stack!Deploy, Stack!Contains, Bar
    <3> QED BY <1>1, <3>2, <3>6 DEF Stack!Next, StackInv
  <2>2. CASE SaveKnown(d) \/ SaveFails(d)
    BY <1>3, <2>2 DEF SaveKnown, SaveFails
  <2>3. CASE SaveUpdate(d)
    BY <1>1, <1>5, <2>3, UpdateIsReuse
  <2> QED BY <1>5, <2>1, <2>2, <2>3 DEF Deploy
<1>6. ASSUME OneBundleEach, NEW s \in Servers, Rollback(s)
      PROVE  StackInv' /\ [Stack!Next]_Bar
  <2>1. ASSUME NEW c \in Active, rows' = RollbackRows(c)
        PROVE  StackInv' /\ [Stack!Next]_Bar
    <3>1. Linked(rows)' /\ \E q \in Seq(BundlesOf(rows)), b \in BundlesOf(rows) : Chain = Append(q, b) /\ Chain' = q
      BY <1>1, <1>2, <1>6, <2>1, RollbackPops DEF StackInv
    <3>2. PICK q \in Seq(BundlesOf(rows)), b \in BundlesOf(rows) : Chain = Append(q, b) /\ Chain' = q
      BY <3>1
    <3>3. Bar = Append(q, b) /\ Bar' = q
      BY <1>1, <1>6, <3>2 DEF Bar
    <3>4. Append(q, b) # <<>> /\ SubSeq(Append(q, b), 1, Len(Append(q, b)) - 1) = q
      OBVIOUS
    <3>5. Stack!Rollback
      BY <3>3, <3>4 DEF Stack!Rollback, Stack!Front, Bar
    <3> QED BY <1>1, <3>1, <3>5 DEF Stack!Next, StackInv
  <2> QED BY <1>3, <1>6, <2>1 DEF Rollback
<1>7. CASE UNCHANGED vars
  BY <1>3, <1>7 DEF vars
<1>8. ASSUME NEW s \in Servers, Server(s) PROVE rows' = rows
  BY <1>8 DEF Server, Start, Stop, Down, Poll, FetchMissing, Install, InstallFails, table
<1> QED BY <1>3, <1>4, <1>5, <1>6, <1>7, <1>8 DEF Next

\* Where every name has one bundle, deployments and rollbacks of all servers
\* work as one stack: a rollback restores what was active before the deployment
\* that is undone.
THEOREM ImplementsStack == Spec => RollsBack
<1>1. Init => StackInv /\ Stack!Init
  <2> SUFFICES ASSUME Init PROVE StackInv /\ Stack!Init
    OBVIOUS
  <2>1. rows = {} /\ Active = {}
    BY DEF Init, Active
  <2>2. Chain = <<>>
    BY <2>1 DEF Chain
  <2>3. Linked(rows)
    BY <2>1 DEF Linked
  <2> QED BY <2>2, <2>3, InitInv DEF StackInv, Stack!Init
<1>2. StackInv /\ [Next]_vars => StackInv' /\ [Stack!Next]_Bar
  BY StackStep
<1>3. [Stack!Next]_Bar => [Stack!Next]_(IF OneBundleEach THEN Chain ELSE <<>>)
  BY DEF Bar
<1> QED BY <1>1, <1>2, <1>3, PTL DEF Spec, RollsBack, Stack!Spec

=============================================================================
