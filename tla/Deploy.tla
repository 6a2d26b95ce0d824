------------------------------- MODULE Deploy -------------------------------
(***************************************************************************)
(* Hot deploy (serv/deploy.go, with its callers in serv/api.go, serv/serv.go *)
(* and serv/admin.go). Servers share the table _graphjin.configs, whose one *)
(* active row names the configuration that should be in force. The admin    *)
(* handlers of any running server deploy and roll back, each in one         *)
(* serializable transaction. The watcher of each server reads the id and    *)
(* hash of the active row every 10 seconds and, when the hash is not the    *)
(* one it serves, the bundle in a second query.                             *)
(*                                                                          *)
(* A bundle stands for its contents and for the hash of them.               *)
(***************************************************************************)
EXTENDS Integers, Sequences, FiniteSets

CONSTANTS
  Servers,
  Prod,      \* the servers in production mode: they start from the table
  Names,
  Bundles,
  Broken,    \* bundles without a configuration that an engine starts with
  Plans,     \* the sets of deployments that operators may ask for
  Faults,    \* whether database operations fail and servers are stopped
  MaxCalls,  \* bounds the calls of the admin handlers
  Files,     \* the configuration in the files of a server
  None

NoId == -1

\* previous_id and the identity column; a row takes the number of the call that
\* inserts it, larger than all before it.
Ids == 1..MaxCalls

Deployments == [name : Names, bundle : Bundles]
Rows == [id : Ids, prev : Ids \cup {NoId}, name : Names, bundle : Bundles, active : BOOLEAN]

ASSUME DeployAssumption ==
  /\ Prod \subseteq Servers
  /\ Broken \subseteq Bundles
  /\ Plans \subseteq SUBSET Deployments
  /\ Faults \in BOOLEAN
  /\ MaxCalls \in Nat
  /\ Files \notin Bundles
  /\ None \notin Bundles

VARIABLES
  plan,   \* the deployments that operators ask for, fixed from the start
  rows,   \* _graphjin.configs
  calls,  \* the number of admin calls so far
  said,   \* the bundle of the last admin call, if it answered "deploy successful"
  at,     \* where the watcher of a server is; "down" when the process is
  seen,   \* the id and hash its first query returned
  label,  \* s.chash
  runs    \* the configuration of the engine it serves from

table == <<plan, rows, calls, said>>
vars == <<plan, rows, calls, said, at, seen, label, runs>>

\* No name is used for two bundles, though a bundle may have several. So it is when
\* names are left to the command line, which makes one up, at random, for each call.
OneBundleEach ==
  \A d, e \in plan : d.name = e.name => d.bundle = e.bundle

Active == {r \in rows : r.active}
WithId(id) == {r \in rows : r.id = id}

-----------------------------------------------------------------------------
(* The admin handlers. *)

Admin(s) ==
  /\ at[s] # "down"
  /\ calls < MaxCalls
  /\ calls' = calls + 1
  /\ UNCHANGED <<plan, at, seen, label, runs>>

PreviousIds == IF Active = {} THEN {NoId} ELSE {r.id : r \in Active}

Matches(d) == {r \in rows : r.bundle = d.bundle \/ r.name = d.name}

\* Mutant: the active row stays active.
KeptActive(id) == rows

ActiveRow(id, prev, name, bundle) ==
  [id |-> id, prev |-> prev, name |-> name, bundle |-> bundle, active |-> TRUE]

Deactivated(id) ==
  {[r EXCEPT !.active = @ /\ r.id # id] : r \in rows}

\* The row of this bundle is there: the call returns before it changes anything.
SaveKnown(d) ==
  /\ \E r \in Matches(d) : r.bundle = d.bundle
  /\ said' = d.bundle
  /\ UNCHANGED rows

SaveInsert(d) ==
  /\ Matches(d) = {}
  /\ \E prev \in PreviousIds :
        rows' = Deactivated(prev) \cup {ActiveRow(calls + 1, prev, d.name, d.bundle)}
  /\ said' = d.bundle

\* hash is UNIQUE: the update fails when another row has the bundle.
HashTaken(d) == \E r \in rows : r.bundle = d.bundle

SaveUpdate(d) ==
  /\ \E r \in Matches(d), prev \in PreviousIds :
        /\ r.bundle # d.bundle
        /\ ~ HashTaken(d)
        /\ rows' = {q \in Deactivated(prev) : q.id # r.id} \cup
             {ActiveRow(r.id, prev, r.name, d.bundle)}
  /\ said' = d.bundle

\* An error rolls the transaction back.
SaveFails(d) ==
  /\ Faults \/ \E r \in Matches(d) : r.bundle # d.bundle /\ HashTaken(d)
  /\ said' = None
  /\ UNCHANGED rows

Deploy(s, d) ==
  /\ Admin(s)
  /\ d \in plan
  /\ SaveKnown(d) \/ SaveInsert(d) \/ SaveUpdate(d) \/ SaveFails(d)

\* active = (CASE id WHEN $1 THEN FALSE WHEN $2 THEN TRUE END), of these two rows.
Switched(id, prev) ==
  {[r EXCEPT !.active = IF r.id = id THEN FALSE ELSE @ \/ r.id = prev] : r \in rows}

\* Mutant: the previous row is not activated.
RollbackOnlyDeletes(c) == rows \ {c}

\* Without an active row nothing is deleted; without a previous one, none is
\* activated.
RollbackRows(c) ==
  {r \in (IF c.prev = NoId THEN rows ELSE Switched(c.id, c.prev)) : r.id # c.id}

\* An error rolls the transaction back.
Rollback(s) ==
  /\ Admin(s)
  /\ said' = None
  /\ \/ \E c \in Active : rows' = RollbackRows(c)
     \/ (Active = {} \/ Faults) /\ UNCHANGED rows

-----------------------------------------------------------------------------
(* The servers. *)

Serve(s, bundle) ==
  /\ runs' = [runs EXCEPT ![s] = bundle]
  /\ at' = [at EXCEPT ![s] = "poll"]
  /\ seen' = [seen EXCEPT ![s] = None]

\* In production, hotStart takes the active row in one query; a broken bundle
\* ends the process.
HotStart(s) ==
  /\ s \in Prod
  /\ \E r \in Active :
        /\ r.bundle \notin Broken
        /\ label' = [label EXCEPT ![s] = r.bundle]
        /\ Serve(s, r.bundle)

NormalStart(s) ==
  /\ s \in Prod => Active = {}
  /\ label' = [label EXCEPT ![s] = Files]
  /\ Serve(s, Files)

Start(s) ==
  /\ at[s] = "down"
  /\ HotStart(s) \/ NormalStart(s)
  /\ UNCHANGED table

Down(s) ==
  /\ at' = [at EXCEPT ![s] = "down"]
  /\ seen' = [seen EXCEPT ![s] = None]
  /\ label' = [label EXCEPT ![s] = Files]
  /\ runs' = [runs EXCEPT ![s] = Files]
  /\ UNCHANGED table

\* The process is stopped, or log.Fatalf ends it when the first query fails.
Stop(s) ==
  /\ Faults
  /\ at[s] # "down"
  /\ Down(s)

Poll(s) ==
  /\ at[s] = "poll"
  /\ \E r \in Active :
        /\ r.bundle # label[s]
        /\ seen' = [seen EXCEPT ![s] = [id |-> r.id, hash |-> r.bundle]]
  /\ at' = [at EXCEPT ![s] = "fetch"]
  /\ UNCHANGED <<table, label, runs>>

\* The row is gone: the error of Scan ends the watcher, and log.Fatalf the
\* process.
FetchMissing(s) ==
  /\ at[s] = "fetch"
  /\ WithId(seen[s].id) = {}
  /\ Down(s)

\* Mutant: the hash is not set on the configuration that was unpacked.
InstallUnlabelled(s) ==
  /\ at[s] = "fetch"
  /\ \E r \in WithId(seen[s].id) :
        /\ r.bundle \notin Broken
        /\ label' = [label EXCEPT ![s] = Files]
        /\ Serve(s, r.bundle)
  /\ UNCHANGED table

Install(s) ==
  /\ at[s] = "fetch"
  /\ \E r \in WithId(seen[s].id) :
        /\ r.bundle \notin Broken
        /\ label' = [label EXCEPT ![s] = seen[s].hash]
        /\ Serve(s, r.bundle)
  /\ UNCHANGED table

\* Mutant: the watcher retries the row it read.
InstallRetries(s) ==
  /\ at[s] = "fetch"
  /\ \E r \in WithId(seen[s].id) : Faults \/ r.bundle \in Broken
  /\ UNCHANGED vars

\* deployBundle fails: logged, the old service stays, the next tick tries again.
InstallFails(s) ==
  /\ at[s] = "fetch"
  /\ \E r \in WithId(seen[s].id) : Faults \/ r.bundle \in Broken
  /\ at' = [at EXCEPT ![s] = "poll"]
  /\ seen' = [seen EXCEPT ![s] = None]
  /\ UNCHANGED <<table, label, runs>>

Init ==
  /\ plan \in Plans
  /\ rows = {}
  /\ calls = 0
  /\ said = None
  /\ at = [s \in Servers |-> "poll"]
  /\ seen = [s \in Servers |-> None]
  /\ label = [s \in Servers |-> Files]
  /\ runs = [s \in Servers |-> Files]

Server(s) ==
  Start(s) \/ Stop(s) \/ Poll(s) \/ FetchMissing(s) \/ Install(s) \/ InstallFails(s)

Next ==
  \E s \in Servers :
    \/ \E d \in plan : Deploy(s, d)
    \/ Rollback(s)
    \/ Server(s)

Spec == Init /\ [][Next]_vars

\* The ticker keeps the watcher going, and starting an engine from a good bundle
\* does not fail every time. Nobody is bound to restart a server.
Watching(s) ==
  /\ WF_vars(Poll(s))
  /\ WF_vars(FetchMissing(s) \/ Install(s) \/ InstallFails(s))
  /\ SF_vars(Install(s))

FairSpec == Spec /\ \A s \in Servers : Watching(s)

-----------------------------------------------------------------------------
(* Properties. *)

\* The state is of its type and the table keeps its keys: id, name and hash are
\* unique, as serv/migrate.go declares them.
TypeOK ==
  /\ plan \in Plans
  /\ rows \subseteq Rows
  /\ \A r, q \in rows : (r.id = q.id \/ r.name = q.name \/ r.bundle = q.bundle) => r = q
  /\ calls \in 0..MaxCalls
  /\ \A r \in rows : r.id <= calls
  /\ said \in Bundles \cup {None}
  /\ at \in [Servers -> {"down", "poll", "fetch"}]
  /\ seen \in [Servers -> [id : Ids, hash : Bundles] \cup {None}]
  /\ \A s \in Servers : at[s] = "fetch" => seen[s] \in [id : Ids, hash : Bundles]
  /\ label \in [Servers -> Bundles \cup {Files}]
  /\ runs \in [Servers -> Bundles \cup {Files}]

\* However deployments and rollbacks of the servers follow each other, names are
\* used again and rows are updated in place, at most one configuration is active.
SingleActive == Cardinality(Active) <= 1

\* The hash a server compares with the active one is the hash of what it serves,
\* although it reads hash and bundle in two queries. It needs that the row of a
\* bundle is not overwritten by another in between, so one bundle for each name.
LabelIsContent == OneBundleEach => \A s \in Servers : label[s] = runs[s]

\* The bundles below the active one, from the bottom: the way rollbacks go back.
Chain ==
  LET below[id \in Ids] ==
        UNION {IF r.prev \in 1..(id - 1)
               THEN {Append(q, r.bundle) : q \in below[r.prev]}
               ELSE {<<r.bundle>>} : r \in WithId(id)}
  IN IF Active = {} THEN <<>> ELSE CHOOSE q \in UNION {below[r.id] : r \in Active} : TRUE

Stack == INSTANCE DeployStack WITH stack <- IF OneBundleEach THEN Chain ELSE <<>>

\* With one bundle for each name, deployments and rollbacks work as a stack: a
\* rollback restores what was active before the last deployment that took effect.
RollsBack == Stack!Spec

\* A server that is not down comes to serve the active configuration, whatever it
\* missed: a broken one leaves it where it was, and the next one is taken.
Settles ==
  \A s \in Servers :
    []<>(\/ at[s] = "down"
         \/ \A r \in Active : OneBundleEach /\ r.bundle \notin Broken => runs[s] = r.bundle)

=============================================================================
