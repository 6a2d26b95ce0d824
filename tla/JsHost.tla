------------------------------ MODULE JsHost ------------------------------
(***************************************************************************)
(* The npm package: the JavaScript host and the Go program that take turns  *)
(* on one thread (src/wasm/js/graphjin.js, src/wasm/js/wasm_exec.js,        *)
(* src/wasm/*.go).                                                          *)
(*                                                                          *)
(* JavaScript runs Go by a wrapper of one of its functions or by a timeout. *)
(* Either puts a frame of Go on the stack: the handler of the event runs,   *)
(* then every goroutine that can, and when all are idle Go returns to       *)
(* JavaScript.  Go runs JavaScript when it makes a promise (whose executor  *)
(* is a function of Go) and when it hands a result to the callback of a     *)
(* subscription (which may call the API), so frames are nested.  A call of  *)
(* the API returns a promise, which a goroutine settles when the database   *)
(* client, itself JavaScript, has answered in a later turn.                 *)
(*                                                                          *)
(* Nothing blocks the thread: a handler that waits, a goroutine that nobody *)
(* wakes, an answer given to a function that is gone, leave a caller with a *)
(* promise that is pending for ever and no error.                           *)
(***************************************************************************)
EXTENDS Naturals, Sequences, FiniteSets

CONSTANTS
  Queries,      \* calls of query and queryByName
  Subs,         \* calls of subscribe and subscribeByName
  ByName,       \* those of them that name a query of the folder
  Invalid,      \* those without a query, or with a bad argument
  Panicking,    \* those with null options, or variables that JSON cannot take
  Tries,        \* attempts of retryOperation (3)
  MaxMsgs,      \* results a subscription produces
  ResCap,       \* results that Member.Result holds (10)
  MaxFaults,    \* queries that the database refuses
  UserThrows,   \* a callback may throw
  None

create == "createGraphJin"
Calls  == {create} \cup Queries \cup Subs

ASSUME CallsDiffer == Queries \cap Subs = {} /\ create \notin Queries \cup Subs
ASSUME KindsOfCalls == ByName \subseteq Queries \cup Subs /\ Invalid \subseteq Queries \cup Subs
ASSUME PanicsAreValid == Panicking \subseteq Queries \cup Subs /\ Panicking \cap Invalid = {}
ASSUME CallsFinite == IsFiniteSet(Queries \cup Subs)
ASSUME BoundsAreNat ==
  Tries \in Nat \ {0} /\ MaxMsgs \in Nat \ {0} /\ ResCap \in Nat \ {0} /\ MaxFaults \in Nat
ASSUME ThrowsIsBoolean == UserThrows \in BOOLEAN
ASSUME NoneDiffers ==
  /\ None \notin Nat
  /\ None \notin [fn : {"call", "exec", "data", "then", "catch"}, of : Calls, no : Nat]
  /\ None \notin [id : Nat, for : Calls \cup {None}]

VARIABLES
  got,          \* what a caller has: nothing, the result of the event, an exception
  promise,      \* of each call: none, pending, fulfilled, rejected
  result,       \* result of the event of each call, set by the handler
  pc,           \* of the goroutine of each call
  tries,        \* attempts it has made
  db,           \* the promise of the database client it waits for
  answer,       \* the value that came over its channels then and catch
  inbox,        \* Member.Result: results for the callback
  produced,     \* results the subscription has produced
  listening,    \* subscriptions with a callback
  delivered,    \* results the callback was called with
  lost,         \* results given up as the inbox stayed full
  funcs,        \* functions of Go that were not released
  stack,        \* frames, the innermost last
  pendingEvent, \* this._pendingEvent
  exited,       \* this.exited
  scheduled,    \* keys of this._scheduledTimeouts
  hostTimers,   \* timeouts that the host will fire
  nextId,       \* this._nextCallbackTimeoutID
  idle,         \* Go's idle timeout: its id and whose deadline it is
  faults        \* refused queries

calls  == <<got, promise, result>>
tasks  == <<pc, tries, db, answer, faults>>
msgs   == <<inbox, produced, listening, delivered, lost>>
timers == <<scheduled, hostTimers, nextId, idle>>
host   == <<stack, pendingEvent, exited, funcs>>
vars   == <<calls, tasks, msgs, timers, host>>

----------------------------------------------------------------------------
(* Events, functions and frames. *)

Fn(f, c, n) == [fn |-> f, of |-> c, no |-> n]     \* no: attempt that made it
CallFn(c)   == Fn("call", c, 0)
ExecFn(c)   == Fn("exec", c, 0)
DataFn(s)   == Fn("data", s, 0)
AnswerFn(o, c, n) == Fn(IF o = "ok" THEN "then" ELSE "catch", c, n)
AwaitFns(c) == {Fn("then", c, tries[c]), Fn("catch", c, tries[c])}

Promise(c) == [is |-> "promise", of |-> c]
NoValue == [is |-> "undefined", of |-> None]
ErrorValue == [is |-> "Error", of |-> None]
NotYet == [is |-> "nothing", of |-> None]
Threw == [is |-> "exception", of |-> None]

GoFrame(ev, timer) == [kind |-> "go", ev |-> ev, timer |-> timer,
                       phase |-> "take", taken |-> None]
JsFrame(k, c) == [kind |-> k, of |-> c, ran |-> FALSE]

Top == stack[Len(stack)]
Below(n) == SubSeq(stack, 1, Len(stack) - n)
InGo(p) == stack # <<>> /\ ~exited /\ Top.kind = "go" /\ Top.phase = p
InJs(k) == stack # <<>> /\ Top.kind = k
TopIn(p) == [stack EXCEPT ![Len(stack)].phase = p]

Started == {c \in Calls : got[c] # NotYet \/ promise[c] # "none"}
Sleepers == {c \in Calls : pc[c] \in {"sleep", "full"}}
InCallback(s) == \E k \in 1..Len(stack) : stack[k].kind = "callback" /\ stack[k].of = s

\* Goroutines that can run, in a frame of Go whose handler is done.
ReadyTasks == {c \in Calls : pc[c] \in {"start", "answered", "due"}}
ReadyLoops == {s \in Subs : listening[s] /\ inbox[s] > 0 /\ ~InCallback(s)}

----------------------------------------------------------------------------
Init ==
  /\ got = [c \in Calls |-> NotYet]
  /\ promise = [c \in Calls |-> "none"]
  /\ result = [c \in Calls |-> NoValue]
  /\ pc = [c \in Calls |-> "none"]
  /\ tries = [c \in Calls |-> 0]
  /\ db = [c \in Calls |-> "none"]
  /\ answer = [c \in Calls |-> "none"]
  /\ faults = 0
  /\ inbox = [s \in Subs |-> 0]
  /\ produced = [s \in Subs |-> 0]
  /\ listening = [s \in Subs |-> FALSE]
  /\ delivered = [s \in Subs |-> 0]
  /\ lost = [s \in Subs |-> 0]
  /\ funcs = {CallFn(create)}            \* run() has returned: main waits on its channel
  /\ stack = <<>>
  /\ pendingEvent = None
  /\ exited = FALSE
  /\ scheduled = {} /\ hostTimers = {} /\ nextId = 1 /\ idle = None

----------------------------------------------------------------------------
(* Calls from JavaScript. *)

\* _makeFuncWrapper and _resume: the event is pending and Go runs.
Resume(frames, ev) ==
  /\ pendingEvent' = ev
  /\ stack' = Append(frames, GoFrame(ev, None))

\* The program calls the API at the top level, or in the callback of a subscription.
ApiCall(c) ==
  /\ stack = <<>> \/ InJs("callback")
  /\ c \notin Started
  /\ c = create \/ promise[create] = "fulfilled"
  /\ IF exited
     THEN got' = [got EXCEPT ![c] = Threw] /\ UNCHANGED <<stack, pendingEvent>>
     ELSE Resume(stack, CallFn(c)) /\ UNCHANGED got
  /\ CallFn(c) \in funcs
  /\ UNCHANGED <<promise, result, tasks, msgs, timers, exited, funcs>>

\* The program gives a subscription its callback.
Listen(s) ==
  /\ stack = <<>> \/ InJs("callback")
  /\ ~exited
  /\ promise[s] = "fulfilled"
  /\ ~listening[s]
  /\ Resume(stack, DataFn(s))
  /\ UNCHANGED <<calls, tasks, msgs, timers, exited, funcs>>

\* new Promise(h) calls h.
RunExecutor ==
  /\ InJs("new") /\ ~exited /\ ~Top.ran
  /\ Resume([stack EXCEPT ![Len(stack)].ran = TRUE], ExecFn(Top.of))
  /\ UNCHANGED <<calls, tasks, msgs, timers, exited, funcs>>

\* The handler returns the promise, whose executor has run.
ReturnFromNew ==
  LET up == stack[Len(stack) - 1] IN
  /\ InJs("new") /\ ~exited /\ Top.ran
  /\ result' = [result EXCEPT ![up.taken.of] = Promise(Top.of)]
  /\ stack' = [Below(1) EXCEPT ![Len(stack) - 1].phase = "after"]
  /\ UNCHANGED <<got, promise, tasks, msgs, timers, pendingEvent, exited, funcs>>

\* The database client settles its promise: Go's function then or catch is called, and
\* when the Go program has exited the wrapper throws where nobody listens.
Answer(c, o) ==
  /\ stack = <<>>
  /\ db[c] = "pending"
  /\ o = "error" => faults < MaxFaults
  /\ faults' = IF o = "error" THEN faults + 1 ELSE faults
  /\ db' = [db EXCEPT ![c] = "settled"]
  /\ IF exited THEN UNCHANGED <<stack, pendingEvent>>
     ELSE Resume(stack, AnswerFn(o, c, tries[c]))
  /\ UNCHANGED <<calls, pc, tries, answer, msgs, timers, exited, funcs>>

----------------------------------------------------------------------------
(* Go: the handler of the event. *)

\* handleEvent: takes the pending event, or clears the idle timeout as it fired.
TakeEvent ==
  /\ InGo("take")
  /\ pendingEvent # None
  /\ stack' = [stack EXCEPT ![Len(stack)].phase = "handler", ![Len(stack)].taken = pendingEvent]
  /\ pendingEvent' = None
  /\ UNCHANGED <<calls, tasks, msgs, timers, exited, funcs>>

Handles(fns) == InGo("handler") /\ Top.taken.fn \in fns

\* What a call of the API returns: an Error for a bad argument, nothing when Go panics on
\* the arguments, else the promise of this call.
Returned(c) == IF c \in Invalid THEN ErrorValue
               ELSE IF c \in Panicking THEN NoValue ELSE Promise(c)

\* Mutant: the handler ends without a result when the arguments are bad.
HandleCallForgets ==
  LET c == Top.taken.of IN
  /\ Handles({"call"}) /\ c \notin Panicking
  /\ IF c \in Invalid
     THEN stack' = TopIn("after") /\ UNCHANGED <<promise, funcs>>
     ELSE /\ promise' = [promise EXCEPT ![c] = "pending"]
          /\ funcs' = funcs \cup {ExecFn(c)}
          /\ stack' = Append(stack, JsFrame("new", c))
  /\ UNCHANGED <<got, result, tasks, msgs, timers, pendingEvent, exited>>

\* A call with a bad argument returns an Error, any other a promise.
HandleCall ==
  LET c == Top.taken.of IN
  /\ Handles({"call"}) /\ c \notin Panicking
  /\ IF c \in Invalid
     THEN /\ result' = [result EXCEPT ![c] = ErrorValue]
          /\ stack' = TopIn("after")
          /\ UNCHANGED <<promise, funcs>>
     ELSE /\ promise' = [promise EXCEPT ![c] = "pending"]
          /\ funcs' = funcs \cup {ExecFn(c)}
          /\ stack' = Append(stack, JsFrame("new", c))
          /\ UNCHANGED result
  /\ UNCHANGED <<got, tasks, msgs, timers, pendingEvent, exited>>

\* processCommonArgs lets null and undefined options through and calls Get on them, and JSON.stringify
\* may throw: the handler panics and Go exits.  The call returns the result of its event,
\* which was not set.
HandlerPanics ==
  LET c == Top.taken.of IN
  /\ Handles({"call"}) /\ c \in Panicking
  /\ exited' = TRUE
  /\ got' = [got EXCEPT ![c] = NoValue]
  /\ stack' = Below(1)
  /\ UNCHANGED <<promise, result, tasks, msgs, timers, pendingEvent, funcs>>

\* The executor starts the goroutine of the call.
HandleExec ==
  /\ Handles({"exec"})
  /\ pc' = [pc EXCEPT ![Top.taken.of] = "start"]
  /\ stack' = TopIn("after")
  /\ UNCHANGED <<calls, tries, db, answer, faults, msgs, timers, pendingEvent, exited, funcs>>

\* The functions of await send on a channel without a buffer: to the goroutine that
\* waits, or the handler blocks and JavaScript with it.  A released one does nothing.
HandleAnswer ==
  LET ev == Top.taken IN
  /\ Handles({"then", "catch"})
  /\ IF ev \in funcs /\ pc[ev.of] = "await"
     THEN /\ answer' = [answer EXCEPT ![ev.of] = ev.fn]
          /\ pc' = [pc EXCEPT ![ev.of] = "answered"]
          /\ stack' = TopIn("after")
     ELSE /\ stack' = TopIn(IF ev \in funcs THEN "blocked" ELSE "after")
          /\ UNCHANGED <<answer, pc>>
  /\ UNCHANGED <<calls, tries, db, faults, msgs, timers, pendingEvent, exited, funcs>>

\* data(cb): a goroutine hands the results to the callback.
HandleData ==
  /\ Handles({"data"})
  /\ listening' = [listening EXCEPT ![Top.taken.of] = TRUE]
  /\ stack' = TopIn("after")
  /\ UNCHANGED <<calls, tasks, inbox, produced, delivered, lost, timers, pendingEvent, exited,
                 funcs>>

----------------------------------------------------------------------------
(* Go: the goroutines. *)

\* JSFS.exists: its result is FALSE whether statSync returns or throws ENOENT.
Exists(c) == FALSE

Runs(c, p) == InGo("after") /\ pc[c] = p

\* Mutant: the functions of the answer are released when the query is sent.
AskReleased(c) ==
  /\ pc' = [pc EXCEPT ![c] = "await"]
  /\ db' = [db EXCEPT ![c] = "pending"]
  /\ UNCHANGED funcs

\* One attempt: the query is sent, with functions made for its answer.
Ask(c) ==
  /\ pc' = [pc EXCEPT ![c] = "await"]
  /\ db' = [db EXCEPT ![c] = "pending"]
  /\ funcs' = funcs \cup AwaitFns(c)

Settle(c, how) ==
  /\ promise' = [promise EXCEPT ![c] = how]
  /\ pc' = [pc EXCEPT ![c] = IF c \in Subs /\ how = "fulfilled" /\ MaxMsgs > 1
                             THEN "sleep" ELSE "done"]

\* The goroutine begins: a query that is named is looked up in the folder.
Begin(c) ==
  /\ Runs(c, "start")
  /\ IF c \in ByName /\ ~Exists(c)
     THEN Settle(c, "rejected") /\ UNCHANGED <<db, funcs>>
     ELSE Ask(c) /\ UNCHANGED promise
  /\ UNCHANGED <<got, result, tries, answer, faults, msgs, timers, stack, pendingEvent, exited>>

\* The functions of await are released.  createGraphJin gives out the object of the API, a
\* subscription the function data.
Given(c) == IF answer[c] # "then" THEN {}
            ELSE IF c = create THEN {CallFn(d) : d \in Queries \cup Subs}
            ELSE IF c \in Subs THEN {DataFn(c)} ELSE {}
Released(c) == (funcs \ AwaitFns(c)) \cup Given(c)

\* A subscription has produced a result: for the inbox, or it waits for room there, with
\* the answer, for 250 ms.
Polled(n) == IF n = MaxMsgs THEN "done" ELSE "sleep"     \* n results produced
Produce(c) ==
  /\ produced' = [produced EXCEPT ![c] = @ + 1]
  /\ inbox' = [inbox EXCEPT ![c] = IF @ < ResCap THEN @ + 1 ELSE @]
  /\ answer' = [answer EXCEPT ![c] = IF inbox[c] < ResCap THEN "none" ELSE @]

\* A later poll of a subscription is answered; one that fails leaves it in the step failed.
PolledBy(c, failed) ==
  /\ Runs(c, "answered") /\ promise[c] # "pending"
  /\ IF answer[c] = "then"
     THEN /\ Produce(c)
          /\ pc' = [pc EXCEPT ![c] = IF inbox[c] = ResCap THEN "full"
                                     ELSE Polled(produced[c] + 1)]
     ELSE /\ pc' = [pc EXCEPT ![c] = failed]
          /\ answer' = [answer EXCEPT ![c] = "none"]
          /\ UNCHANGED <<produced, inbox>>
  /\ funcs' = Released(c)
  /\ UNCHANGED <<calls, tries, db, faults, listening, delivered, lost, timers, stack,
                 pendingEvent, exited>>

\* Mutant: a subscription whose poll fails is not polled again.
PollOnce(c) == PolledBy(c, "done")

Poll(c) == PolledBy(c, "sleep")

\* await returns the answer of the query that the call is for: it succeeds, and the first
\* result of a subscription is in its inbox.  createGraphJin fails with the error of its
\* query, any other call sleeps after each failed attempt (retryOperation).
Attempts(c) == IF c = create THEN 1 ELSE Tries

GoOn(c) ==
  LET ok == answer[c] = "then" IN
  /\ Runs(c, "answered") /\ promise[c] = "pending"
  /\ IF ok THEN Settle(c, "fulfilled") /\ UNCHANGED tries
     ELSE IF c = create THEN Settle(c, "rejected") /\ UNCHANGED tries
     ELSE /\ pc' = [pc EXCEPT ![c] = "sleep"]
          /\ tries' = [tries EXCEPT ![c] = @ + 1]
          /\ UNCHANGED promise
  /\ IF ok /\ c \in Subs THEN Produce(c)
     ELSE /\ answer' = [answer EXCEPT ![c] = "none"]
          /\ UNCHANGED <<produced, inbox>>
  /\ funcs' = Released(c)
  /\ UNCHANGED <<got, result, db, faults, listening, delivered, lost, timers, stack,
                 pendingEvent, exited>>

\* The goroutine slept: the next attempt, or the error of the last.
WakeUp(c) ==
  /\ Runs(c, "due") /\ answer[c] = "none"
  /\ IF tries[c] < Attempts(c) \/ promise[c] = "fulfilled"
     THEN Ask(c) /\ UNCHANGED promise
     ELSE Settle(c, "rejected") /\ UNCHANGED <<db, funcs>>
  /\ UNCHANGED <<got, result, tries, answer, faults, msgs, timers, stack, pendingEvent, exited>>

\* The goroutine of a subscription waited for room: the result is given up.
GiveUp(c) ==
  /\ Runs(c, "due") /\ answer[c] = "then"
  /\ lost' = [lost EXCEPT ![c] = @ + 1]
  /\ answer' = [answer EXCEPT ![c] = "none"]
  /\ pc' = [pc EXCEPT ![c] = Polled(produced[c])]
  /\ UNCHANGED <<calls, tries, db, faults, inbox, produced, listening, delivered, timers, stack,
                 pendingEvent, exited, funcs>>

\* The deadline that the timeout of Go was set for is none any more.
Forget(c) == idle' = IF idle # None /\ idle.for = c THEN [idle EXCEPT !.for = None] ELSE idle

\* The goroutine of data(cb) takes a result, which makes room for the one that waits, and
\* calls the callback.
Deliver(s) ==
  /\ InGo("after")
  /\ s \in ReadyLoops
  /\ IF pc[s] = "full"
     THEN /\ pc' = [pc EXCEPT ![s] = Polled(produced[s])]
          /\ answer' = [answer EXCEPT ![s] = "none"]
          /\ Forget(s)
          /\ UNCHANGED inbox
     ELSE inbox' = [inbox EXCEPT ![s] = @ - 1] /\ UNCHANGED <<pc, answer, idle>>
  /\ delivered' = [delivered EXCEPT ![s] = @ + 1]
  /\ stack' = Append(stack, JsFrame("callback", s))
  /\ UNCHANGED <<calls, tries, db, faults, produced, listening, lost, scheduled, hostTimers,
                 nextId, pendingEvent, exited, funcs>>

CallbackReturns ==
  /\ InJs("callback")
  /\ stack' = Below(1)
  /\ UNCHANGED <<calls, tasks, msgs, timers, pendingEvent, exited, funcs>>

\* Invoke panics with the exception, nobody recovers, and Go exits (wasmExit): the
\* innermost frame of Go returns to its caller as if it were done.
CallbackThrows ==
  LET f == stack[Len(stack) - 1] IN
  /\ UserThrows
  /\ InJs("callback") /\ ~exited
  /\ exited' = TRUE
  /\ stack' = Below(2)
  /\ got' = IF f.ev # None /\ f.ev.fn = "call"
            THEN [got EXCEPT ![f.ev.of] = result[f.ev.of]] ELSE got
  /\ UNCHANGED <<promise, result, tasks, msgs, timers, pendingEvent, funcs>>

\* The frames below it end with an exception, as there is no instance any more.
Unwind ==
  /\ exited /\ stack # <<>>
  /\ Top.kind # "callback"
  /\ stack' = Below(1)
  /\ got' = IF Top.kind = "go" /\ Top.ev # None /\ Top.ev.fn = "call"
            THEN [got EXCEPT ![Top.ev.of] = Threw] ELSE got
  /\ UNCHANGED <<promise, result, tasks, msgs, timers, pendingEvent, exited, funcs>>

----------------------------------------------------------------------------
(* Timeouts. *)

\* Mutant: the timeout is cleared and not forgotten.
clearTimeoutKept(t) == [scheduled |-> scheduled, hostTimers |-> hostTimers \ {t}]

\* The timeout is cleared, and forgotten.
clearTimeoutEvent(t) == [scheduled |-> scheduled \ {t}, hostTimers |-> hostTimers \ {t}]

\* A timeout for the deadline of the sleeper c, in the place of the one before.
scheduleTimeoutEvent(c) ==
  LET rest == IF idle = None THEN [scheduled |-> scheduled, hostTimers |-> hostTimers]
              ELSE clearTimeoutEvent(idle.id) IN
  /\ nextId' = nextId + 1
  /\ scheduled' = rest.scheduled \cup {nextId}
  /\ hostTimers' = rest.hostTimers \cup {nextId}
  /\ idle' = [id |-> nextId, for |-> c]

\* What the innermost frame of Go returns, and to whom: the wrapper its event's result, the
\* timeout again while its id is in the table.
GoReturns ==
  IF Top.timer # None /\ Top.timer \in scheduled
  THEN stack' = TopIn("take") /\ UNCHANGED got
  ELSE /\ stack' = Below(1)
       /\ got' = IF Top.ev # None /\ Top.ev.fn = "call"
                 THEN [got EXCEPT ![Top.ev.of] = result[Top.ev.of]] ELSE got

\* Every goroutine is idle: a timeout is set for the first deadline unless one is due as
\* early, and Go returns.
Idle ==
  /\ InGo("after")
  /\ ReadyTasks = {} /\ ReadyLoops = {}
  /\ \/ (Sleepers = {} \/ idle # None) /\ UNCHANGED timers
     \/ \E c \in Sleepers : scheduleTimeoutEvent(c)
  /\ GoReturns
  /\ UNCHANGED <<promise, result, tasks, msgs, pendingEvent, exited, funcs>>

\* The host fires a timeout.
FireTimer(t) ==
  /\ stack = <<>>
  /\ t \in hostTimers
  /\ hostTimers' = hostTimers \ {t}
  /\ stack' = IF exited THEN stack ELSE Append(stack, GoFrame(None, t))
  /\ UNCHANGED <<calls, tasks, msgs, scheduled, nextId, idle, pendingEvent, exited, funcs>>

\* handleEvent without an event: the idle timeout has fired and is cleared.  The sleeper it
\* was set for is due, and others may be.
HandleTimer ==
  /\ InGo("take")
  /\ pendingEvent = None
  /\ \E due \in SUBSET Sleepers :
       /\ idle # None /\ idle.for \in Sleepers => idle.for \in due
       /\ pc' = [c \in Calls |-> IF c \in due THEN "due" ELSE pc[c]]
  /\ IF idle = None THEN UNCHANGED <<scheduled, hostTimers, idle>>
     ELSE /\ scheduled' = clearTimeoutEvent(idle.id).scheduled
          /\ hostTimers' = clearTimeoutEvent(idle.id).hostTimers
          /\ idle' = None
  /\ stack' = TopIn("after")
  /\ UNCHANGED <<calls, tries, db, answer, faults, msgs, nextId, pendingEvent, exited, funcs>>

\* Mutant: a query that takes long is given up, to be tried again, and its functions stay.
DueWhileWaiting(c) ==
  /\ Runs(c, "sleep") \/ Runs(c, "full") \/ Runs(c, "await")
  /\ pc' = [pc EXCEPT ![c] = IF @ = "await" THEN "sleep" ELSE "due"]
  /\ Forget(c)
  /\ UNCHANGED <<calls, tries, db, answer, faults, msgs, scheduled, hostTimers, nextId, host>>

\* A deadline passes while Go runs for another reason.
Due(c) ==
  /\ Runs(c, "sleep") \/ Runs(c, "full")
  /\ pc' = [pc EXCEPT ![c] = "due"]
  /\ Forget(c)
  /\ UNCHANGED <<calls, tries, db, answer, faults, msgs, scheduled, hostTimers, nextId, host>>

----------------------------------------------------------------------------
\* What the event loop, the database and Go do by themselves.
Running ==
  \/ RunExecutor \/ ReturnFromNew
  \/ \E c \in Calls, o \in {"ok", "error"} : Answer(c, o)
  \/ TakeEvent \/ HandleCall \/ HandlerPanics \/ HandleExec \/ HandleAnswer \/ HandleData
  \/ \E c \in Calls : Begin(c) \/ GoOn(c) \/ Poll(c) \/ WakeUp(c) \/ GiveUp(c) \/ Due(c)
  \/ \E s \in Subs : Deliver(s)
  \/ CallbackReturns \/ Unwind
  \/ Idle
  \/ \E t \in hostTimers : FireTimer(t)
  \/ HandleTimer

Next ==
  \/ \E c \in Calls : ApiCall(c)
  \/ \E s \in Subs : Listen(s)
  \/ CallbackThrows
  \/ Running

Spec == Init /\ [][Next]_vars /\ WF_vars(Running)

----------------------------------------------------------------------------
(* Properties. *)

\* A call returns what its own handler returned, whatever was called and answered while
\* it ran: the promise of this call, an Error for bad arguments, or undefined when Go
\* panics on them.
OwnAnswer ==
  \A c \in Calls : got[c] \in {NotYet, Threw, Returned(c)}

\* A handler never waits: the function of an answer finds its goroutine.
HandlersReturn ==
  \A k \in 1..Len(stack) : stack[k].kind = "go" => stack[k].phase # "blocked"

\* When the event loop is free, a goroutine that sleeps has a timeout that will wake it,
\* and no timeout is left that Go has forgotten.
SleepersAreWoken ==
  stack = <<>> /\ ~exited =>
    /\ Sleepers # {} => idle # None
    /\ hostTimers = (IF idle = None THEN {} ELSE {idle.id})
    /\ scheduled = hostTimers

\* A promise that was given out is settled, unless Go has exited.
EverySettles ==
  \A c \in Calls : []<>(promise[c] = "pending" => exited)

\* A callback is called with every result of its subscription but those that were given up
\* while the inbox was full, unless Go has exited.
EveryDelivered ==
  \A s \in Subs : []<>(listening[s] => delivered[s] + lost[s] = MaxMsgs \/ exited)

\* A query that the folder has is found by its name: a call fails for a database error
\* only.
NamedQueryFound ==
  \A c \in ByName : promise[c] = "rejected" => faults > 0

=============================================================================
