# GraphJin in TLA+

GraphJin turns GraphQL into one SQL statement, runs it, and serves the result over
HTTP and WebSockets; it also runs inside Node.js, as a Go program compiled to
WebAssembly. This directory holds TLA+ models of its concurrent and stateful parts, the
TLC configurations that check them on small instances, and TLAPS proofs of theorems
about them for instances of any size. Paths below are relative to `src/`.

## The system

| Component | Source | State | Operations | What makes it hard |
|---|---|---|---|---|
| Live queries | `core/subs.go` | `gj.subs` (key to `*sub`), `sync.Once` per object, the member slices `params, mi, res, ids`, channels `add`, `del`, `updt`, `Result` | `Subscribe`, `Unsubscribe`, the controller's select loop, the workers `subCheckUpdates` | clients, a controller and workers run at once; slices are shared; a hash and a result travel on two channels; results are dropped after 250ms |
| Query execution | `core/api.go`, `core/core.go`, `core/gstate.go`, `core/args.go`, `core/rolestmt.go` | per request: role, variables, statement; per engine: `gj.queries` | `GraphQL`, `GraphQLByName`, role query, compile, execute, `retryOperation` | compile-once cache with concurrent first callers |
| Allow list | `core/internal/allow`, `core/resolve.go` | files under `queries/`, LRU cache, `saveChan` | `Set`, `GetByName`, `save` | one goroutine writes several files that readers open |
| Remote joins | `core/remote_join.go`, `core/remote_api.go` | one goroutine per remote field, shared `cerr` | `execRemoteJoin`, `resolveRemotes` | partial failure, shared error |
| Query compiler | `core/internal/qcode`, `core/internal/psql` | selection tree, list of mutates, SQL text | `Compile` | the order of nested mutations |
| Hot deploy | `serv/deploy.go`, `serv/api.go`, `serv/admin.go`, `serv/client.go` | table `_graphjin.configs`, service pointer, config hash | deploy, rollback, poll, start | several servers share one table |
| npm package | `wasm/js/graphjin.js`, `wasm/js/wasm_exec.js`, `wasm/*.go` | the table of JavaScript values, functions and timeouts of Go, promises, goroutines | the API calls, `valueCall` and the other imports, `_resume`, `scheduleTimeoutEvent`, `await` | JavaScript and Go call each other in turns on one thread; values are counted by hand |
| WebSocket sessions | `serv/ws.go`, `benchmark/subs.js` | `sessions` of a connection, `done` channels, `connMutex` | connect, subscribe, stop, `waitForData`, the load test | handshakes that block between the reader and the writers |
| Migrations | `cmd/internal/migrate`, `cmd/cmd_migrate.go`, `cmd/cmd_db.go` | version table, advisory lock | `MigrateTo`, up and down | several migrators, kills between steps |
| Seeding | `cmd/cmd_seed.go`, `examples/webshop/config/seed.js` | what the script has collected, the tables | one insert after the other | a script that stops in the middle and is run again |
| Schema watcher | `core/watcher.go` | engine pointer, hash of the discovered schema | poll, reload | old engines stay in use |
| APQ and introspection caches | `core/cache.go`, `core/intro.go` | LRU caches | get, set | entries that are lost |
| Cursors | `core/crypt.go` | key | encrypt, decrypt | |
| Schema graph, parser, JSON rewriting | `core/internal/sdata`, `core/internal/graph`, `core/internal/jsn` | none that outlives a call | paths, `Parse`, `Replace`, `Filter` | |
| HTTP, authentication, command line, configuration, secrets, tracing, web pages | `serv`, `auth`, `cmd`, `plugin`, `serv/web`, `website` | none that the above rely on | handlers | |

How they meet: an HTTP handler or a WebSocket session (`serv`) calls `GraphQL` or
`Subscribe` of the engine (`core`), which asks the allow list, compiles and executes. A
subscription compiles in the same way, and then polls. The watcher and hot deploy replace
the engine under running requests. The npm package puts the same engine behind promises
and callbacks, with a database client that is itself JavaScript. Requests share an engine's
caches; servers share the table of deployments; migrators share the version table, and
the seed script goes through the engine.

## The modules

| Module | Models | Checked by | Proofs |
|---|---|---|---|
| `Subs` | live queries | `MCSubs`, `Subs*.cfg` | `SubsProofs` |
| `LiveQuery` | what a live query promises | refined by `Subs` (`ShowsOwnDataInOrder`) in `SubsDelivery.cfg` | `SubsProofs` |
| `Deploy` | hot deploy | `MCDeploy`, `DeployTable.cfg` | `DeployProofs` |
| `DeployStack` | what deploy and rollback promise | refined by `Deploy` (`RollsBack`) in `DeployTable.cfg` | `DeployProofs` |
| `Engine` | a query from call to answer, allow list, remote joins, reloads | `MCEngine`, `Engine*.cfg` | `EngineProofs` |
| `Mutation` | from a nested mutation to statements in order | `MCMutation`, `Mutation.cfg` | `MutationProofs` |
| `RowOrder` | the creation order a nested insert promises | refined by `Mutation` (`CreatesInOrder`) in `Mutation.cfg` | `MutationProofs` |
| `JsValues` | the JavaScript values Go holds | `MCJsValues`, `JsValues.cfg` | `JsValuesProofs` |
| `JsHost` | the API of the npm package: calls, promises, timeouts, callbacks | `JsHost.cfg`, `JsNamed.cfg` | `JsHostProofs` |
| `WsSession` | a WebSocket connection and its client | `WsSession.cfg` | `WsProofs` |
| `Setup` | migrations and the seed script | `MCSetup`, `Setup.cfg` | `SetupProofs` |

A definition that begins with "Mutant" in its comment is a changed copy of the one that follows it, as a
plausible mistake would change it; PROJECT.json says which property finds it.

### Subs

One key of `gj.subs`. A member `m` is one call of `Subscribe`: `pc[m]` is where the
client is (`Load`, `Do`, `InitSub`, `First`, ..., `Leave`), `at[m]` the object it
holds. Each object `s` has a controller (`Ctl...` actions, one per case of its
`select`), the member slices `mval[s]` and a channel `updt[s]`. A worker `j` runs
`subCheckUpdates`: `JobRender`, `JobQuery`, then per row `JobNotify`, `JobUpdt`,
`JobSend`, and `JobDone`.

The slices are one array of slots. A worker holds the array, not its contents,
until an append moves the controller to another (`Sharing`, `Keeping`), and a write
takes two steps between which a reader sees either content of each field. A read of
a slice header that is half written, which the Go memory model leaves open, ends
in a failed query or in `Torn`.

The result of the query is the interval of rows it returns: everything, or what
follows the cursor. Hashes are equal when results are.

The poll is two steps: the timer fires (`CtlTimer`) and workers are started with what the slots
hold (`CtlPoll`). The messages of a worker may come in between and wait in `updt`, so a poll may ask with a
cursor that is behind what its member was sent, and send rows a second time. That is why the
property of a cursor feed is that it has no gaps, and not that a row comes once.

| Run | Shows |
|---|---|
| `subs_lifecycle` | two callers, two objects, one statement, queries that fail, slow clients: the key maps to the object in use and one controller polls for it (`SingleController`), nobody who joined is forgotten (`JoinedIsServed`), and who joined can leave (`UnsubscribeReturns`) |
| `subs_delivery` | cursor feeds of three members, one of whom comes late; two are served by a worker, three in chunks by the controller itself; the data changes twice, queries fail: `LiveQuery` is refined (`ShowsOwnDataInOrder`), each row goes to its own member (`OwnResults`), no cursor passes a row that was not sent (`NothingLost`), what a client reads leaves no gap (`NoGaps`), `Subscribe` returns and every member is current in the end |
| `subs_shared_slices` | *violation*: a member leaves while a worker runs, and the row of one member goes to the channel of another |

Left out of these runs because it is false there:

- Where members leave, `SubscribeReturns` is false (subs.go:206): a caller that loaded the
  object before its controller ended sends on `add` for ever. Where nobody leaves, one caller is still
  not answered, and `SubscribeReturns` names it (`Forsaken`): it waits in `sub.Do` for another whose
  compilation fails, is told of no error, and follows a nil pointer (subs.go:187, gstate.go:291).
- Workers overlap only with `Jobs` of two or more, when a poll comes while a worker of an earlier one
  still runs. `EventuallyCurrent` and `ShowsOwnDataInOrder` are then false: the
  older of two results may be the last one shown and its hash the last one kept. The theorems say so
  with `NoOverlap`; only the proof of `NothingLost` has workers that overlap.
- A result that is dropped after 250ms was recorded as delivered. With
  `SlowReaders`, `EventuallyCurrent`, `NothingLost` and `NoGaps` are false.
- A controller that works inline sends to its own channel `updt`. The code's numbers are 10
  for the channel (subs.go:172) and 2000 for the chunk (subs.go:24): as soon as more than
  ten of more than 2000 members change at once the controller can block on itself for good.
  In `subs_delivery` the channel has room for every member.
- In production a statement is found in the cache for a second object and wrapped in SQL a second
  time (subs.go:224): a worker then gets more rows than it has members, and its panic ends the process
  (`JobPanics`). That happens with `HasParams` and `ProdSec`, which no run has together, and no property of delivery
  holds there.

### Deploy

`rows` is the table `_graphjin.configs`; each admin call is one serializable
transaction (`Deploy`, `Rollback`), made by any server that is up. A server's
watcher takes two steps, as in the code: `Poll` reads id and hash of the active row,
`FetchMissing`, `Install` or `InstallFails` reads the bundle and starts an engine.
Servers of `Prod` start from the table and cannot without a bundle that works.

`deploy_table`: two servers, four admin calls, failures and restarts, and four habits of naming deployments. One row is active (`SingleActive`), a server's label is the
hash of what it serves (`LabelIsContent`), rollbacks go back as in a stack (`RollsBack`), and servers
settle on the active bundle (`Settles`).

`LabelIsContent`, `RollsBack` and `Settles` are stated for operators who never use a name for two
bundles (`OneBundleEach`), as is so when the command line makes up a name for each call. They are false
otherwise: an update of the row between the two reads, followed by a deployment of
the old content, leaves a server with the wrong bundle under the right hash; a
rollback after a name was used again leaves nothing active; a row deleted between
the two reads ends the process. So the runs' operators name every deployment afresh, for new bundles
(`FreshNames`) or an old one (`TwoNames`), or use a name for two bundles (`Reused`, `Renamed`);
`SingleActive` is asked of all four. A rollback whose transaction fails changes nothing. Also false, and so not stated: that a deployment which is
answered with success takes effect (one of a bundle that is known and not active changes
nothing, deploy.go:87); that a service with a broken active bundle can be rolled back once its
last production server has restarted; that a rollback of the first deployment reaches the
servers before they restart.

### Engine

A request `r` holds what a `gstate` and its `cstate` hold: the engine it loaded, name,
text, role, the item of the allow list, tries. Its steps are the calls between
which another goroutine can matter: allow list (`GetByName`, `GetJson`), `Connect`,
`RoleQuery`, compilation (`CompileOwn`, or `CompileOnce`, `CompileEnds`, `CompileWrites`, `UseCompiled`),
`SetDefaultVars`, execution with retries, remote fields (`StartRemote` in the loop that makes the
goroutines, which `NoRemoteId` leaves early; `Resolve`, `Joined`), `Answer`, `HandOver`. `saver[e]` is the goroutine that `allow.New` starts for each engine.
`Discover`, `Reload`, `ReloadFails` are a reload at any time, which is the most
that the schema watcher and `Reload` can do.

A statement is the text, role, schema version and shape of variables it was compiled
for. `Torn` is a statement that is read while it is written. Namespaces are part of the
name. Validation, introspection, session variables and the values of variables are
not in the model; a database connection that is retried is a step that waits.

| Run | Shows |
|---|---|
| `Engine` | two requests of three kinds (by text, persisted, by name in a transaction), all modes, a reload, a failing database, remote services and file writes |
| `EngineReady` | *violation*: the second of two first callers meets a query that is stored and not compiled yet, and dereferences nil |

`OwnStatement`: what is executed was compiled for the request's text, role, schema and
shape. `AllowListed`: under production security it is what the allow list has for the
name. `CompiledOnce`, `RemoteErrorsShow`, `SavedInOrder` are stated at their
definitions. `RequestsEnd`: every request ends, and with a result or an error, unless it meets a query that is not
compiled yet; that one may panic in production, and is the finding of `EngineReady`. `SavedInOrder` is stated until the first reload,
after which two goroutines write the same files and it is false. `OwnStatement` is
false where two names and two roles make the same key one after the other
(gstate.go:364); names and roles of the run do not. It says nothing of a request that executes a
statement while it is copied (`Torn`). A mutation outside of a transaction whose answer is lost is executed up to three
times (gstate.go:244): the model counts the tries and has no data to compare.

### Mutation

A document is a forest of objects with a kind of relation each. The variables are
those of `compileMutation`: the stack, the mutates in their final order, the map from old
to new numbers, the loop index. Each iteration of a loop is a step; the loop that
renumbers dependencies takes the keys of a map in any order. `Render` is one
iteration of `renderInsert`, `renderUpdate` or `renderUpsert`. Columns, filters and roles
are abstracted: they can refuse the mutation (`Rejected`).

`mutation`: all documents of up to four objects over two tables (which of the two comes first does not
matter), and of five objects of five tables, inserted, updated and upserted: 338773 states with
the deletes. Rows are created in
an order that `RowOrder` allows (`CreatesInOrder`), every object once (`WrittenOnce`), the new numbers keep the
tree of the document (`TreeKept`), and a statement reads only what precedes it (`Ordered`).

In the documents of the run the objects in the same one all connect or disconnect rows, or none does
(`Uniform`). In a mixed document the code gives what follows the `connect` no type, or lets what precedes it
read the table itself and not the statement, and `Ordered`, `WrittenOnce` and `CreatesInOrder` are false;
`TreeKept` holds all the same. The set of dependencies is renumbered while it is
iterated (mutate.go:187). For five objects a dependency can be lost, and the statement then
takes a column of a table that is not in its FROM; `Ordered` states what holds of the tables
that are. In a map that has grown past one bucket of Go's runtime, of 8 keys, the loop may also meet a key that it has
added itself and number it once more (`MetLater`): `grown` records those, and `Ordered`
is stated as long as there is none. `MapSlots` is 3 in the run, so that there are some; `WrittenOnce`,
`TreeKept` and `CreatesInOrder` hold in either case. A delete is one mutate and has no nested objects.
An upsert drops nested objects without an error.

### JsValues

Go names a JavaScript value by a 64 bit word: a number, or an index into the table
`_values`. `values`, `goRefCounts`, `ids`, `idPool` are the fields of that table, and `storeValue`,
`loadValue` and `finalizeRef` do what the functions of these names do. `refs[h]` is the word in a
`js.Value` of Go, `denotes[h]` the value it was stored for, which the program does not keep. An import is
`Call` or `CallOnly`, then `Return` or `ReturnOnly`; between them its JavaScript may run a
handler of Go (`Reenter`, `HandlerReturns`), in which values are stored and dropped and the
goroutine's stack may move (`MoveStack`). `ResultSp` is where the import writes: those in `Refreshing`
ask for the stack pointer again, the others are taken to run no JavaScript of the program (a
getter on an element of an array would be one).

`js_values`: three values, three words, two nested imports, a stack that moves. Every word loads what was stored for it
(`RefsDenote`); the counts are those of the words, and what nobody counts has no index
(`TableIsHeld`).

### JsHost

`stack` has the frames of Go and JavaScript, innermost last. A frame of Go takes its event
(`TakeEvent`), runs the handler (`HandleCall`, `HandleExec`, `HandleAnswer`, `HandleData`), then
every goroutine that can run (`Begin`, `GoOn`, `WakeUp`, `Deliver`), and returns when all are idle
(`Idle`). A promise's executor and the callback of a subscription nest; a callback may call the API or
throw (`CallbackThrows`, `Unwind`). A call with null options, or with variables that JSON cannot take, makes the
handler panic and Go exit (`HandlerPanics`). A subscription's goroutine stands for its controller and
worker: it polls (`Poll`), sends to the inbox of `ResCap` results, and gives a result up when there is no
room for 250ms (`GiveUp`). `Answer` is the database client's promise. `scheduled`,
`hostTimers`, `idle` are the timeouts as Go and the host know them, whose events the host may fire before Go has
noted them.

| Run | Shows |
|---|---|
| `js_host` | the package with a query, a call with a bad argument, one whose arguments make Go panic, and a subscription of three results with an inbox for one; callbacks call the API or throw, the database refuses twice: each caller has its own answer (`OwnAnswer`), no handler waits (`HandlersReturn`), a goroutine that sleeps has a timeout (`SleepersAreWoken`), every promise is settled and every result delivered or given up (`EveryDelivered`) unless Go has exited |
| `js_named` | *violation*: a query of the folder is called by its name and never found |

A callback that throws and a handler that panics end the Go program, and with it every other call: that is why
`EverySettles` and `EveryDelivered` say "unless Go has exited". The call whose handler panicked returns undefined and
not a promise, which `OwnAnswer` states as the code has it. The loop of wasm_exec.js:272, which runs Go
again for a timeout that it has not forgotten, is in the model (`GoReturns`) and never taken, as Go clears its timeout
whenever it handles one.

### WsSession

`hpc` is the handler that reads messages, `spc[i]` the goroutine of a session (`waitForData`),
`writer` who has the connection's mutex. `wire` holds what the client has not read; a write blocks when it is full.
`Stop` and `Done` are the two sends on channels without a buffer. The client does what `benchmark/subs.js` does
(`OnOpen`, `OnMessage`) and, when `Free`, stops sessions, opens others and sends
what is unknown. An id is used once.

`ws`: two sessions, a wire of one message. A stopped session sends no result
(`NothingAfterStop`), results come in order (`InOrder`) and all of them (`EveryResultArrives`), a
stop returns (`StopReturns`), and a connection with the load test's one session ends with it (`OneSessionEnds`).

One value is sent to the goroutines of a connection that closes (ws.go:122). With no
session the handler waits for ever and the connection is not closed; with several
all goroutines but one stay. `OneSessionEnds` therefore names the one session.

### Setup

`graphjin db setup`: the migrations and then the seed script, by several commands at once,
any of which may be killed and run again, and `db migrate down`, which somebody runs
alone. `Start` reads the version once, `Execute`, `UpdateVersion`, `Commit` are one migration with
its transaction; the lock on the version's row and on a table that is made or dropped are the
database's. `InsertFixedUser` to `InsertComment` are the sections of `seed.js` in order, one transaction
each row; `mine` is what the script has collected, and `Picks` the index it draws.

`setup`: two commands, three starts, the eight migrations of the example and all sections. The version is that of the
tables (`VersionIsApplied`), what is connected exists (`ConnectsFind`), and running the script again
adds nothing (`SeededOnce`).

The answer of `pg_try_advisory_lock` is not looked at (migrate.go:264), so the lock does not keep
commands apart: the run lets them overlap. It leaves out a `down` beside an `up`, where each
writes the version it computed from its own first read and `VersionIsApplied` is false.
`ConnectsFind` holds although purchases connect to a customer by the id of a user
(seed.js:167) because both tables count from one and there are at least as many customers as
users drawn from and ids that refused commands took; `CustomersCoverUsers` states it.

## Bounds

Two or three of everything that is compared, the least for which each interleaving
exists: two callers and two objects for a deletion that could hit somebody else's object; a third
member for a chunk beside the controller's own; a third bundle for a rollback past a deployment; five
objects for a renumbering that collides; three words for two that share an index and one that takes
it over; a wire of one message for writers that wait. Symmetry is used for safety only
(`JsValues.cfg`, `Setup.cfg`).

`MapSlots` is smaller than Go's 8, and `ResCap` than the 10 of `Member.Result`, so that maps grow and inboxes fill. In
`subs_delivery` the data of one value changes `MaxVersion` = 2 times, or that of each once (`Histories`), and
the third member subscribes when the others have returned (`Late`): a member then reads up to three results, and polls
find cursors that are behind, while the state space stays small enough.

`MaxVersion`, `MaxCalls`, `MaxEngines`, `MaxSchema`, `MaxObjects`, `MaxDepth`, `MaxMoves`, `MaxMsgs`,
`MaxFaults`, `MaxResults` and `MaxRuns` bound what would grow without end, and stop
changes, calls, reloads and inputs, never a step of the code. `Tries` is the code's 3 or one less,
`Limit` is smaller than the load test's 20, and the counts of the seed script are smaller than its hundreds, in
the same order. CHECK_DEADLOCK is off: clients may stop calling, requests end, and
the actors the bounds count stop too.

## Fairness

- `Subs`: weak fairness of everything that a goroutine does on its own, strong
  fairness of an offered `add` or `del`, since `select` picks among the ready cases at
  random. The poll timer fires. Nothing is assumed of clients that leave, of changes
  or of failures, except that the database does not fail for ever (`DatabaseRecovers`).
- `Deploy`: the ticker fires; a fetch or an installation that is possible again and
  again is done (`Watching`). Nothing is assumed of operators, restarts or
  failures.
- `Engine`: a request and the goroutine that saves go on when they can.
- `JsHost`: the event loop runs, Go's scheduler runs goroutines that can, timeouts fire and the
  database client answers (`WF_vars(Running)`). Nothing is assumed of callers and callbacks.
- `WsSession`: the client goes on reading and goroutines run. Strong fairness of a goroutine that waits for the mutex, which Go's
  `sync.Mutex` hands over in turn after a millisecond, and of a send that meets a `select`.
- `JsValues`, `Mutation` and `Setup` state safety only.

## Proofs

All are for any number of members, servers, requests, values, commands and so on, from the
assumptions that the modules name. They are invariants and action properties; the
temporal step is PTL.

- `SubsProofs`: `TypeCorrect`, `RegistryCorrect`, `OneController`, `ServedAreKept`,
  `ResultsAreOwn`, `NothingIsLost`, `ShowsInOrder`, `LeavesNoGaps`. `Registered` is not inductive
  alone: a deletion hits the right object only because an initialiser is alone with
  its object, and that follows from the states of `sync.Once`. `RInv` adds it. Types
  need `Shape`: that copies, chunks and a half-written slot fit the arrays.
  `ServedAreKept` needs more than that each served client has a slot: `deleteMember` moves the last slot into the
  place of the one it drops, so `SlotsMatch` also says that no client has two slots and no slot is of a client
  that is gone.
  `ResultsAreOwn` assumes `Leavers = {}`: without deletions a slot stays with its member, so an index means the same
  in every copy of the slices, also in a torn read; `EverybodysOwn` carries that from slots to parameters,
  rows and results. With a leaver it is false (`subs_shared_slices`).
  `NothingIsLost` also assumes that no full channel drops a result (`~SlowReaders`). A cursor goes from a row to a
  message, to a slot, to the parameters and copies of other workers; `CursorsPast` says that all of them are covered by
  rows that were sent, and it needs both invariants before: an index must mean the same member, and a
  worker may only start with members that have joined.
  `ShowsInOrder` proves the refinement of `LiveQuery`. It assumes `[]NoOverlap`, where the run has one worker
  (`OneWorkerNoOverlap`): any number of objects, chunks and controllers may be busy, but two workers of one controller
  never are; else the property is false. A member then has one row in flight (`OneWorker`), and `VInv` says that
  what is in its channel is in order, not above that row (`Ahead`), and that row not above the data, which only grows.
  It assumes `HasParams`: without parameters the last result is kept for those who come (`js`), and they may read it while a
  worker writes it.
  `LeavesNoGaps` assumes that and `~SlowReaders`, as a row dropped at a full channel moves the cursor on all the
  same. The cursor of a worker may be behind what its member was sent, and never ahead of it (`CursorsPast`); with the
  order of `VInv`, each result in a channel starts where the one before it reached, or before
  (`InChain`).
- `DeployProofs`: `DeployTypes`, `OneIsActive`, `HashMatches`, `ImplementsStack`. `Table` says that ids, names and
  hashes are unique and at most one row is active; under `OneBundleEach`, `Planned` (every row is a
  planned deployment) ties an id to a bundle for good, and then what a watcher read first
  labels what it reads second (`Labelled`). `ImplementsStack` maps the table to `DeployStack`: the rows are linked as a
  stack with the active one on top (`Linked`), so from each there is one chain down. The recursive function that is the
  chain is unfolded by induction over the ids, and tables that differ in one row on top have the same
  chains below it (`Alike`).
- `EngineProofs`: `EngineTypes`, `ErrorsShow`, `WrittenByOne`, `RunsItsOwn`,
  `ListIsObeyed`, `FilesInOrder`.
  `IInv` has the types, what a request may hold at each step (`Fits`), and that the one
  who compiles holds the entry it stored (`Holds`). `RunsItsOwn` assumes that keys are
  apart (`KeysApart`), and adds that requests, files and entries agree
  (`Right`, `Files`, `Entries`).
  `ListIsObeyed` and `FilesInOrder` do without `KeysApart`. Nobody saves under production
  security, so the files stay, and the texts of cached items and of requests are those of the
  files (`Listed`). A request hands over to the goroutine of an engine that was loaded (`Current`), so
  before the first reload there is one saving goroutine, and it holds the last text (`Ordered`).
- `MutationProofs`: `KeepsTheTree`, `OrdersStatements`, `WritesOnce`, `ImplementsRowOrder`. The mutates that are final
  and the stack from its top are one line, and `NewMutate` puts the parts of its top in the place of the top. So each object and
  each number is on the line once, with the one above it, until and while the numbers are replaced (`TreeInv`); that
  gives `TreeKept`, which speaks of ids and parents and not of dependencies, for every document. The other three assume documents that are `Uniform`, as in the run, and are
  false of others. `ShapeInv` adds the order of the line and that no object is forgotten, `DepsInv` follows each
  dependency from the stack through the renumbering and past the objects that only connect, to the
  statement that reads it, and `SqlInv` relates the statements to the mutates. Where the
  dependencies have to be right, as for `Ordered`, they are so while no map has grown (`grown`). The refinement of `RowOrder` maps the
  statements to the rows they create. `Ascending`, a recursive function, is described by induction over its argument.
- `JsValuesProofs`: `WordsDenote`, `TableCounts`. `TableInv` is the table by itself: a value has one
  index, an index outside of the pool has one value, a free one is in the pool once. `RefInv` counts the
  words of each index by `Cardinality`; that a word which stays keeps its entry when
  another is dropped is the step from "two words" to "a count above one". `FrameInv` says that only
  the innermost import can be one that does not ask for its stack pointer again, and that
  Go has not run since it began.
- `JsHostProofs`: `HostTypes`, `CallsGetTheirOwn`, `NothingHangs`, `SleepersHaveATimeout`. Frames of Go and
  JavaScript alternate as one may call the other (`Chain`), and a frame of Go has the result of
  its own event once its handler is done (`Right`); a frame whose handler panics is
  gone with the result it had, which is undefined. The pending event is that of the innermost frame, and
  until it is handled its goroutine waits (`Pending`, `Ready`); that needs each promise's
  goroutine to be started once (`Orderly`). The timeouts of the host and of the table are the one
  that Go knows, but between the firing of one and its handling (`Timeouts`), and a frame that began
  by a timeout does not run again for it, as ids grow (`Old`). Once Go has exited only the answers matter.
- `SetupProofs`: `VersionCorrect`, `SeededAtMostOnce`, `LinksFind`. Without the advisory lock the argument is that of the statements: of
  the commands that go up, the one with an open transaction works on the table after the last, and another
  waits for that table or fails as it is there; a command that goes down is alone (`Going`, `Transaction`).
  `SInv` adds the seed script: the command that inserted the first fixed user is the only one that goes on (`OneOwner`);
  the tables of later sections are empty and that of its own has as many rows as it has inserted (`Progress`), and what it
  collected is in the tables (`Collected`). Each refused command has taken an id of users, so an id is below the
  place in the list plus `MaxRuns`: that is why `CustomersCoverUsers` is enough for purchases.
- `WsProofs`: `ReadInOrder`, `StoppedIsSilent`. What is on the wire for a session are the numbers after
  the one the client has read, up to the one that was written, without a gap (`Numbered`, in which results may
  be missing at the end once the connection is broken). A session is opened once (`Opened`), as the client asks once
  for each id; for its first that rests on the one acknowledgement it gets (`Greeting`).

Every safety invariant, action property and refinement that a passing run checks has a theorem. Only
model-checked is liveness under fairness: `UnsubscribeReturns`, `SubscribeReturns`,
`EventuallyCurrent`, `Settles`, `RequestsEnd`, `EverySettles`, `EveryDelivered`, `StopReturns`, `OneSessionEnds` and
`EveryResultArrives`. Liveness and ENABLED are out of the prover's reach. Induction over data
is too where it needs a theorem with an operator for its parameter; the recursive functions `Ascending` and
`Chain` are described by `SetInduction`, which says the same of a set of numbers.

The assumptions on constants are those of the modules (`SubsAssumption`, `DocsAssumption`, ...), which TLC evaluates in the
runs. `NilAssumption` says that nil is not a result. The theorems' own hypotheses are restrictions that the runs make too; the notes
on each model say what is false without them.

## Findings

`PROJECT.json` lists three with a counterexample each: the shared member slices (`subs_shared_slices`), the query that is
used before it is compiled (`EngineReady`), and the queries of the npm package that are never found by
their name, as `JSFS.exists` never answers true (`js_named`). Others are noted above where a property had to
be restricted. Seen in the code, and in no run:

- `wasm/postgres.go`: `Close` of a statement ends the client's pool. With `set_user_id`
  the engine prepares and closes a statement for `SET SESSION`, after which the client is unusable.
- `examples/webshop/config/seed.js`: `subject_id` of a notification is the drawn index, which
  begins at 0, and not the id of a row.
- `core/watcher.go`: the hashes compared are the size of a hash and always equal, so a
  change of the schema never reloads the engine.
- `core/internal/psql/mutate.go:264`: a root object with both a `connect` or `disconnect` and a one-to-one object gets the
  dependency -1, and the loop over dependencies reads the list of mutates at -1, which ends the request with a panic.
- `wasm/args.go:79` says that options "can only be a object or null", and line 82 calls `Get` on
  them, which panics when they are null or undefined: Go exits (`HandlerPanics`).
- `core/internal/qcode/mutate.go:187` inserts into the map it ranges over.
- `core/gstate.go:302`: `SET SESSION` leaves the user's id on the pooled connection.

## Not modelled

- HTTP handlers, routes, configuration, authentication, secrets, etags, tracing and the
  command line: stateless, or wrappers of libraries, or I/O (PROJECT.json has the
  reason for each).
- The schema watcher by itself: its comparison never lets it reload; `Engine` has the reload that it would make.
- The schema graph, the parser, and filters, selects and parameters of the compiler: sequential functions of
  their input, which tests reach. The JSON functions (`core/internal/jsn`) are state machines
  over bytes; `Engine` has what they return. Encryption of cursors is a library's.
- The web console (`serv/web`) and the website: pages that render their data. The service worker is the one
  of a template and is never registered; the mock of `next/router` and the build files have no state.
- The copying of bytes, the console and the encoding of arguments in `wasm_exec.js`, the values that
  `seed.js` makes up, and the conversion of rows by the database drivers.
