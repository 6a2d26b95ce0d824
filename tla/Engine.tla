------------------------------- MODULE Engine -------------------------------
(***************************************************************************)
(* Running a query (core/api.go, core/gstate.go, core/core.go), with the    *)
(* allow list (core/internal/allow), the cache of persisted queries         *)
(* (core/cache.go), remote joins (core/remote_join.go) and reloads.         *)
(*                                                                          *)
(* A request keeps the engine it loaded.  A text stands for a query, its    *)
(* fragments included; its name is the file it is saved under.  Names and   *)
(* roles are sequences, so that a cache key is what the code makes of them: *)
(* one after the other.  Modes: "dev"; "prod"; "open", which is production  *)
(* with disable_production_security.                                        *)
(***************************************************************************)
EXTENDS Naturals, Sequences, FiniteSets

CONSTANTS
  Requests,
  Calls,       \* what a request may ask for
  Texts,
  NameOf,      \* the name of each text
  Shapes,      \* of the variables a mutation is compiled for
  Anon, User,  \* the roles without and with a user id
  UserRoles,   \* what the roles query may answer for a user; {} without one
  Rejected,    \* pairs of a text and a role that do not compile
  Remotes,     \* the remote fields of each text
  PQKeys,      \* keys of persisted queries
  Gql, Json,   \* the files of the allow list at the start
  Modes,
  Faults,      \* whether the database, remote services and file writes fail
  MaxEngines,  \* bounds the reloads
  MaxSchema,   \* bounds the changes of the database schema
  None,        \* nil
  Torn         \* a statement while it is being written

Names == {NameOf[t] : t \in Texts}
Roles == {Anon, User} \cup UserRoles
Engines == 1..MaxEngines
Versions == 0..MaxSchema

Call == [name : Names, text : Texts \cup {None}, pqkey : PQKeys \cup {None},
         byName : BOOLEAN, tx : BOOLEAN, user : BOOLEAN, shape : Shapes \cup {None}]

\* What is compiled, and the cstate that it is kept in.
Statement == [text : Texts, role : Roles, schema : Versions, shape : Shapes \cup {None}]

CompiledQuery == [by : Requests, st : Statement \cup {None, Torn}, err : BOOLEAN]

Item == [text : Texts, shape : Shapes \cup {None}]

\* gstate.key: namespace, name and role without anything between them.
Key(name, role) == name \o role
QueryKeys == {Key(n, o) : n \in Names, o \in Roles}

ASSUME EngineAssumption ==
  /\ Calls \subseteq Call
  /\ Modes \subseteq {"dev", "prod", "open"}
  /\ Faults \in BOOLEAN
  /\ Gql \in [Names -> Texts \cup {None}]
  /\ Json \in [Names -> Shapes \cup {None}]
  /\ NameOf \in [Texts -> Names] /\ DOMAIN Remotes = Texts
  /\ MaxEngines \in Nat \ {0} /\ MaxSchema \in Nat

\* nil and half a statement are no data.
ASSUME NilAssumption ==
  /\ None \notin Texts \cup Shapes \cup Item \cup CompiledQuery
  /\ Torn \notin Statement \cup {None}
  /\ None \notin Statement

VARIABLES
  mode,
  engine,     \* g.Load()
  schemaOf,   \* the schema each engine was built from
  building,   \* the schema that a reload has discovered
  queries,    \* gj.queries: the cstate of each key
  items,      \* allow.List.cache
  pq,         \* gj.cache
  gql, json,  \* the files
  saver,      \* the goroutine of allow.New, and the item it holds
  last,       \* the last text it took for a name, unless the write failed
  req         \* the requests

caches == <<queries, items, pq>>
reloads == <<engine, schemaOf, building>>
saving == <<gql, json, saver, last>>
vars == <<mode, reloads, caches, saving, req>>

prodSec == mode = "prod"
prod == mode # "dev"

\* The steps of a request that has not ended.
Steps == {"allow", "json", "connect", "role", "compile", "once", "write",
          "defaults", "exec", "remote", "answer", "save"}

\* Where a request is.
Step(r, st) == req[r].st = st

Go(r, q) == req' = [req EXCEPT ![r] = q]
At(r, st) == [req[r] EXCEPT !.st = st]
End(out) == [st |-> "done", out |-> out]

-----------------------------------------------------------------------------
(* GraphQL and GraphQLByName, until the query is known. *)

\* The cache of persisted queries comes before the text that was sent.
Persisted(e, c) == IF c.pqkey = None THEN None ELSE pq[e][c.pqkey]
Sent(e, c) == IF Persisted(e, c) # None THEN Persisted(e, c) ELSE c.text

\* The allow list is asked in production, or for a query by its name.
LooksUp(c) == prodSec \/ c.byName

\* A request starts; it fails without a query.  FastParse finds the name.
Begin(r, c) ==
  /\ Step(r, "idle")
  /\ LET t == Sent(engine, c)
         q == [st |-> IF LooksUp(c) THEN "allow" ELSE "connect", call |-> c, eng |-> engine,
               name |-> IF c.byName THEN c.name ELSE NameOf[t], text |-> t,
               hit |-> Persisted(engine, c) # None, ashape |-> None, role |-> Anon,
               own |-> None, tries |-> 0, todo |-> {}, left |-> {}, failed |-> {}, cerr |-> FALSE]
     IN IF ~c.byName /\ t = None
        THEN Go(r, End("error"))
        ELSE Go(r, q)
  /\ UNCHANGED <<mode, reloads, caches, saving>>

UsesCache == prod

\* Mutant: r.Set keeps the query that was sent.
KeptItem(r, t, s) ==
  [At(r, "connect") EXCEPT !.text = IF @ = None THEN t ELSE @, !.ashape = s]

\* r.Set: what the allow list returns is what is run.
SetItem(r, t, s) == [At(r, "connect") EXCEPT !.text = t, !.ashape = s]

\* GetByName: the cached item, or the file, if there is one.
GetByName(r) ==
  /\ Step(r, "allow")
  /\ LET i == items[req[r].eng][req[r].name]
         t == gql[req[r].name]
     IN \/ UsesCache /\ i # None /\ Go(r, SetItem(r, i.text, i.shape))
        \/ ~(UsesCache /\ i # None) /\ t = None /\ Go(r, End("error"))
        \/ ~(UsesCache /\ i # None) /\ t # None /\ Go(r, [At(r, "json") EXCEPT !.text = t])
  /\ UNCHANGED <<mode, reloads, caches, saving>>

\* get: the variables are in a second file.
GetJson(r) ==
  /\ Step(r, "json")
  /\ LET q == req[r]
         s == json[q.name]
     IN /\ Go(r, SetItem(r, q.text, s))
        /\ items' = IF UsesCache
                    THEN [items EXCEPT ![q.eng][q.name] = [text |-> q.text, shape |-> s]]
                    ELSE items
  /\ UNCHANGED <<mode, reloads, queries, pq, saving>>

-----------------------------------------------------------------------------
(* compileAndExecute. *)

\* newGState and the connection, which is tried three times.
Connect(r) ==
  /\ Step(r, "connect")
  /\ LET user == req[r].call.user
         next == IF user /\ UserRoles # {} THEN "role" ELSE "compile"
     IN \/ Go(r, [At(r, next) EXCEPT !.role = IF user THEN User ELSE Anon])
        \/ Faults /\ ~req[r].call.tx /\ Go(r, End("error"))
  /\ UNCHANGED <<mode, reloads, caches, saving>>

\* executeRoleQuery: the role of the user at this moment.
RoleQuery(r) ==
  /\ Step(r, "role")
  /\ \/ \E o \in UserRoles : Go(r, [At(r, "compile") EXCEPT !.role = o])
     \/ Faults /\ Go(r, End("error"))
  /\ UNCHANGED <<mode, reloads, caches, saving>>

Compiles(r) == <<req[r].text, req[r].role>> \notin Rejected

\* Compiled for the variables of the allow list, or else those of the request.
Compiled(r) ==
  LET q == req[r]
  IN [text |-> q.text, role |-> q.role, schema |-> schemaOf[q.eng],
      shape |-> IF q.ashape # None THEN q.ashape ELSE q.call.shape]

\* Without production security every request compiles for itself.
CompileOwn(r) ==
  /\ Step(r, "compile")
  /\ ~prodSec
  /\ IF Compiles(r)
     THEN Go(r, [At(r, "defaults") EXCEPT !.own = Compiled(r)])
     ELSE Go(r, End("error"))
  /\ UNCHANGED <<mode, reloads, caches, saving>>

\* Mutant: the compiled queries outlive a reload.
FirstEngine(r) == 1

\* The engine whose compiled queries a request uses.
MapOf(r) == req[r].eng

CState(r) == queries[MapOf(r)][Key(req[r].name, req[r].role)]

Put(r, cs) == queries' = [queries EXCEPT ![MapOf(r)][Key(req[r].name, req[r].role)] = cs]

\* Mutant: a compiled query is looked for, and not a query that is being compiled.
NotCompiled(r) == (IF CState(r) = None THEN None ELSE CState(r).st) = None

\* LoadOrStore stores, and the request compiles.
Stores(r) == CState(r) = None

CompileOnce(r) ==
  /\ Step(r, "compile")
  /\ prodSec
  /\ Stores(r)
  /\ Put(r, [by |-> r, st |-> None, err |-> FALSE])
  /\ Go(r, At(r, "once"))
  /\ UNCHANGED <<mode, reloads, items, pq, saving>>

\* The compiled statement is copied field by field, while others read it.
CompileEnds(r) ==
  /\ Step(r, "once")
  /\ IF Compiles(r)
     THEN Put(r, [CState(r) EXCEPT !.st = Torn]) /\ Go(r, At(r, "write"))
     ELSE Put(r, [CState(r) EXCEPT !.err = TRUE]) /\ Go(r, End("error"))
  /\ UNCHANGED <<mode, reloads, items, pq, saving>>

CompileWrites(r) ==
  /\ Step(r, "write")
  /\ Put(r, [CState(r) EXCEPT !.st = Compiled(r)])
  /\ Go(r, At(r, "defaults"))
  /\ UNCHANGED <<mode, reloads, items, pq, saving>>

\* LoadOrStore loads: the request goes on whether or not the statement is there.
UseCompiled(r) ==
  /\ Step(r, "compile")
  /\ prodSec
  /\ ~Stores(r)
  /\ Go(r, IF CState(r).err THEN End("error") ELSE At(r, "defaults"))
  /\ UNCHANGED <<mode, reloads, caches, saving>>

StatementOf(r) == IF prodSec THEN CState(r).st ELSE req[r].own

\* setDefaultVars follows the pointer to the compiled query: nil before it is
\* written, either while it is.
SetDefaultVars(r) ==
  /\ Step(r, "defaults")
  /\ \/ StatementOf(r) # None /\ Go(r, At(r, "exec"))
     \/ StatementOf(r) \in {None, Torn} /\ Go(r, End("panic"))
  /\ UNCHANGED <<mode, reloads, caches, saving>>

\* execute: three tries, one in a transaction.
Tries(r) == IF req[r].call.tx THEN 1 ELSE 3

\* The answer is there, without the remote fields.
Executed(r) ==
  LET f == Remotes[req[r].text]
  IN [At(r, IF f = {} THEN "answer" ELSE "remote") EXCEPT !.todo = f, !.tries = 0]

ExecuteWorks(r) ==
  /\ Step(r, "exec")
  /\ StatementOf(r) # Torn
  /\ Go(r, Executed(r))
  /\ UNCHANGED <<mode, reloads, caches, saving>>

\* After a try that failed.
Retry(r, q) ==
  IF req[r].tries + 1 < Tries(r) THEN [req[r] EXCEPT !.tries = @ + 1] ELSE q

\* The database failed, before it applied the statement or after.
ExecuteFails(r) ==
  /\ Faults
  /\ Step(r, "exec")
  /\ StatementOf(r) # Torn
  /\ Go(r, Retry(r, End("error")))
  /\ UNCHANGED <<mode, reloads, caches, saving>>

\* Half a statement is refused; no statement gives no rows, which is not an error.
ExecuteTorn(r) ==
  /\ Step(r, "exec")
  /\ StatementOf(r) = Torn
  /\ \E q \in {End("error"), [At(r, "answer") EXCEPT !.tries = 0]} : Go(r, Retry(r, q))
  /\ UNCHANGED <<mode, reloads, caches, saving>>

-----------------------------------------------------------------------------
(* execRemoteJoin: a goroutine for each remote field, todo until it is started *)
(* and left until it ends. *)

StartRemote(r) ==
  /\ Step(r, "remote")
  /\ \E f \in req[r].todo :
        Go(r, [req[r] EXCEPT !.todo = @ \ {f}, !.left = @ \cup {f}])
  /\ UNCHANGED <<mode, reloads, caches, saving>>

\* The answer has no id for a field, or none at all: the request ends at once.  The
\* goroutines that run are left with variables nobody reads any more.
NoRemoteId(r) ==
  /\ Step(r, "remote")
  /\ req[r].todo # {}
  /\ Go(r, End("error"))
  /\ UNCHANGED <<mode, reloads, caches, saving>>

\* Mutant: the result of a goroutine overwrites the error of another.
RemoteOverwrites(r, f) == [req[r] EXCEPT !.left = @ \ {f}, !.cerr = FALSE]

RemoteWorks(r, f) == [req[r] EXCEPT !.left = @ \ {f}]

RemoteFails(r, f) == [req[r] EXCEPT !.left = @ \ {f}, !.failed = @ \cup {f}, !.cerr = TRUE]

\* A goroutine ends, while others are still to be started or not.
Resolve(r) ==
  /\ Step(r, "remote")
  /\ \E f \in req[r].left :
        \/ Go(r, RemoteWorks(r, f))
        \/ Faults /\ Go(r, RemoteFails(r, f))
  /\ UNCHANGED <<mode, reloads, caches, saving>>

\* wg.Wait returns; what was fetched may not fit in the answer (jsn.Replace).
Joined(r) ==
  /\ Step(r, "remote")
  /\ req[r].todo = {} /\ req[r].left = {}
  /\ \/ ~req[r].cerr /\ Go(r, At(r, "answer"))
     \/ (req[r].cerr \/ Faults) /\ Go(r, End("error"))
  /\ UNCHANGED <<mode, reloads, caches, saving>>

-----------------------------------------------------------------------------
(* After the query: the persisted query, and the allow list in development. *)

Answer(r) ==
  /\ Step(r, "answer")
  /\ LET q == req[r]
     IN /\ pq' = IF ~q.call.byName /\ q.call.pqkey # None /\ ~q.hit
                 THEN [pq EXCEPT ![q.eng][q.call.pqkey] = q.text]
                 ELSE pq
        /\ Go(r, IF prod \/ q.call.byName THEN End("ok") ELSE At(r, "save"))
  /\ UNCHANGED <<mode, reloads, queries, items, saving>>

\* List.Set hands the item to the goroutine of the list, which must be waiting.
HandOver(r) ==
  /\ Step(r, "save")
  /\ LET q == req[r]
         i == [st |-> "gql", name |-> q.name, text |-> q.text, shape |-> q.call.shape]
     IN /\ saver[q.eng].st = "idle"
        /\ saver' = [saver EXCEPT ![q.eng] = i]
        /\ last' = [last EXCEPT ![q.name] = q.text]
  /\ Go(r, End("ok"))
  /\ UNCHANGED <<mode, reloads, caches, gql, json>>

Saver(e, st) == saver' = [saver EXCEPT ![e].st = st]

\* Mutant: a file that is there is left as it is.
KeepsFile(e) == IF gql[saver[e].name] = None THEN saver[e].text ELSE gql[saver[e].name]

FileText(e) == saver[e].text

\* save: the query, and then its variables if it has any.
SaveGql(e) ==
  /\ saver[e].st = "gql"
  /\ gql' = [gql EXCEPT ![saver[e].name] = FileText(e)]
  /\ Saver(e, IF saver[e].shape = None THEN "idle" ELSE "json")
  /\ UNCHANGED <<mode, reloads, caches, json, last, req>>

SaveJson(e) ==
  /\ saver[e].st = "json"
  /\ json' = [json EXCEPT ![saver[e].name] = saver[e].shape]
  /\ Saver(e, "idle")
  /\ UNCHANGED <<mode, reloads, caches, gql, last, req>>

\* Mutant: the goroutine ends when a file cannot be written.
SaverGone(e) == "gone"

AfterFailure(e) == "idle"

\* A file cannot be written: the rest of the item is given up.
SaveFails(e) ==
  /\ Faults
  /\ saver[e].st \in {"gql", "json"}
  /\ Saver(e, AfterFailure(e))
  /\ last' = IF saver[e].st = "gql" THEN [last EXCEPT ![saver[e].name] = None] ELSE last
  /\ UNCHANGED <<mode, reloads, caches, gql, json, req>>

-----------------------------------------------------------------------------
(* Reloads. *)

\* newGraphJin discovers the schema, which may have changed or not, and stores
\* the new engine in the end.
Discover ==
  /\ engine < MaxEngines
  /\ building = None
  /\ \E v \in Versions : v >= schemaOf[engine] /\ building' = v
  /\ UNCHANGED <<mode, engine, schemaOf, caches, saving, req>>

Reload ==
  /\ building # None
  /\ engine' = engine + 1
  /\ schemaOf' = [schemaOf EXCEPT ![engine + 1] = building]
  /\ building' = None
  /\ UNCHANGED <<mode, caches, saving, req>>

ReloadFails ==
  /\ Faults
  /\ building # None
  /\ building' = None
  /\ UNCHANGED <<mode, engine, schemaOf, caches, saving, req>>

-----------------------------------------------------------------------------
Idle == [st |-> "idle", out |-> None]
NoItem == [st |-> "idle"]

Init ==
  /\ mode \in Modes
  /\ engine = 1
  /\ schemaOf = [e \in Engines |-> 0]
  /\ building = None
  /\ queries = [e \in Engines |-> [k \in QueryKeys |-> None]]
  /\ items = [e \in Engines |-> [n \in Names |-> None]]
  /\ pq = [e \in Engines |-> [k \in PQKeys |-> None]]
  /\ gql = Gql
  /\ json = Json
  /\ saver = [e \in Engines |-> NoItem]
  /\ last = [n \in Names |-> None]
  /\ req = [r \in Requests |-> Idle]

Request(r) ==
  \/ GetByName(r) \/ GetJson(r) \/ Connect(r) \/ RoleQuery(r)
  \/ CompileOwn(r) \/ CompileOnce(r) \/ CompileEnds(r) \/ CompileWrites(r) \/ UseCompiled(r)
  \/ SetDefaultVars(r) \/ ExecuteWorks(r) \/ ExecuteFails(r) \/ ExecuteTorn(r)
  \/ StartRemote(r) \/ NoRemoteId(r) \/ Resolve(r) \/ Joined(r) \/ Answer(r) \/ HandOver(r)

Save(e) == SaveGql(e) \/ SaveJson(e) \/ SaveFails(e)

Next ==
  \/ \E r \in Requests : Request(r) \/ \E c \in Calls : Begin(r, c)
  \/ \E e \in Engines : Save(e)
  \/ Discover \/ Reload \/ ReloadFails

Spec == Init /\ [][Next]_vars

\* Goroutines that can go on do, and database calls and remote calls return.
FairSpec ==
  /\ Spec
  /\ \A r \in Requests : WF_vars(Request(r))
  /\ \A e \in Engines : WF_vars(Save(e))

-----------------------------------------------------------------------------
Saving == [st : {"gql", "json"}, name : Names, text : Texts, shape : Shapes \cup {None}]

Begun == {r \in Requests : req[r].st \in Steps}

\* The values that the state may take; in particular no statement is tried a
\* fourth time (retryOperation), and an engine has one schema for good.
TypeOK ==
  /\ mode \in Modes
  /\ engine \in Engines /\ schemaOf \in [Engines -> Versions]
  /\ building \in Versions \cup {None}
  /\ queries \in [Engines -> [QueryKeys -> CompiledQuery \cup {None}]]
  /\ items \in [Engines -> [Names -> Item \cup {None}]]
  /\ pq \in [Engines -> [PQKeys -> Texts \cup {None}]]
  /\ gql \in [Names -> Texts \cup {None}] /\ json \in [Names -> Shapes \cup {None}]
  /\ last \in [Names -> Texts \cup {None}]
  /\ \A e \in Engines : saver[e].st \in {"gql", "json"} => saver[e] \in Saving
  /\ \A r \in Requests : req[r].st \in Steps \cup {"idle", "done"}
  /\ \A r \in Begun : req[r].role \in Roles /\ req[r].tries \in 0..2

\* What a request executes was compiled for the query it runs, for its role,
\* for the schema of its engine and for the variables of the allow list,
\* although the compiled query is found by a key that other requests write,
\* and engines come and go (gstate.key, compileQueryForRoleOnce, newGraphJin).
OwnStatement ==
  \A r \in Requests :
    Step(r, "exec") /\ StatementOf(r) # Torn =>
      /\ StatementOf(r).text = req[r].text
      /\ StatementOf(r).role = req[r].role
      /\ StatementOf(r).schema = schemaOf[req[r].eng]
      /\ req[r].ashape # None => StatementOf(r).shape = req[r].ashape

\* With production security only queries of the allow list are executed: the
\* text sent, and the one of a persisted query, merely name one (GraphQL, Set).
AllowListed ==
  prodSec => \A r \in Requests : Step(r, "exec") => req[r].text = gql[req[r].name]

\* In production a query is compiled once for a role: whoever stores it first
\* is the only one to write it, and it stays (compileQueryForRoleOnce).
CompiledOnce ==
  [][\A e \in Engines : \A k \in QueryKeys :
       queries[e][k] # None =>
         /\ queries'[e][k] # None
         /\ queries'[e][k].by = queries[e][k].by
         /\ queries[e][k].st \in Statement => queries'[e][k] = queries[e][k]]_vars

\* A request answers without an error only if every remote field was resolved,
\* although the goroutines share the one error variable (resolveRemotes).
RemoteErrorsShow ==
  \A r \in Begun : req[r].st \in {"answer", "save"} => req[r].failed = {}

\* Until a reload starts a second goroutine, the file of a name holds the text
\* of the last request that handed one over, once it is written (Set, save).
SavedInOrder ==
  engine = 1 /\ saver[1].st = "idle" =>
    \A n \in Names : last[n] # None => gql[n] = last[n]

\* What setDefaultVars may follow a nil pointer of: a query in production that another
\* request has stored and not compiled yet.
MeetsUnready(r) == prodSec /\ Step(r, "defaults") /\ StatementOf(r) \in {None, Torn}

\* A request ends, and is answered with a result or an error unless it meets a query
\* that is not compiled yet, which may panic (Ready): neither another request nor the
\* goroutine of the allow list holds it up for good.
RequestsEnd ==
  \A r \in Requests :
    /\ []<>(req[r].st \notin Steps)
    /\ req[r].st \in Steps ~>
         (MeetsUnready(r) \/ (Step(r, "done") /\ req[r].out \in {"ok", "error"}))

\* What the comment of GraphQL says: compiled only once, and from there on
\* executed directly. A request never meets a query that is not there yet.
Ready == \A r \in Requests : Step(r, "done") => req[r].out # "panic"

=============================================================================
