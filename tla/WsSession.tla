----------------------------- MODULE WsSession -----------------------------
(***************************************************************************)
(* One websocket connection: the handler of the server and the goroutines   *)
(* of its sessions (src/serv/ws.go), and a client of it, the load test      *)
(* src/benchmark/subs.js, which may also stop sessions and open others.     *)
(*                                                                          *)
(* The handler reads messages one at a time.  A subscription has a          *)
(* goroutine that writes its results, under a mutex as the connection takes *)
(* one writer.  The handler ends a goroutine by a value on a channel        *)
(* without a buffer, so it waits for a goroutine that may itself wait for   *)
(* a client that reads slowly; a connection that closes has one such value  *)
(* for all its sessions.                                                    *)
(***************************************************************************)
EXTENDS Naturals, Sequences, FiniteSets

CONSTANTS
  Ids,         \* ids of subscriptions: subs.js draws one of its own for each connection
  Body,        \* the id in the subscription that subs.js sends
  Limit,       \* subs.js closes when its count is larger (20)
  WireCap,     \* messages on the way to the client
  MaxResults,  \* results of a subscription
  Free,        \* the client may stop, open other sessions and send what is unknown
  Handler, None

ASSUME BodyIsAnId == Body \in Ids
ASSUME NamesDiffer == Handler \notin Ids /\ None \notin Ids \cup {Handler}
ASSUME IdsFinite == IsFiniteSet(Ids)
ASSUME BoundsAreNat == Limit \in Nat /\ WireCap \in Nat \ {0} /\ MaxResults \in Nat
ASSUME FreeIsBoolean == Free \in BOOLEAN

VARIABLES
  hpc,        \* where the handler is
  req,        \* the id of the message it handles
  sessions,   \* keys of wc.sessions
  spc,        \* where the goroutine of each session is
  subscribed, \* members that get results
  results,    \* Member.Result: results for the session
  produced,   \* results so far
  writer,     \* who holds connMutex
  wire,       \* messages to the client
  inbound,    \* messages to the server
  broken,     \* the client has closed, or the connection is lost
  cpc,        \* the client: connecting, open, closed
  asked,      \* ids the client has subscribed with
  count,      \* of subs.js
  seen        \* number of the last result the client has read

server == <<hpc, req, sessions, spc, subscribed, results, produced, writer>>
client == <<cpc, asked, count, seen>>
vars   == <<server, wire, inbound, broken, client>>

Msg(t, i, n) == [type |-> t, id |-> i, no |-> n]

Init ==
  /\ hpc = "read" /\ req = None /\ sessions = {}
  /\ spc = [i \in Ids |-> "none"]
  /\ subscribed = {}
  /\ results = [i \in Ids |-> 0]
  /\ produced = [i \in Ids |-> 0]
  /\ writer = None
  /\ wire = <<>> /\ inbound = <<>> /\ broken = FALSE
  /\ cpc = "connecting" /\ asked = {} /\ count = 0
  /\ seen = [i \in Ids |-> 0]

----------------------------------------------------------------------------
(* The client. *)

Send(t, i) == inbound' = Append(inbound, Msg(t, i, 0))

OnOpen ==
  /\ cpc = "connecting"
  /\ cpc' = "open"
  /\ Send("connection_init", None)
  /\ UNCHANGED <<server, wire, broken, asked, count, seen>>

\* A message: the subscription is sent for the acknowledgement, and the connection is
\* closed when enough results have come.
OnMessage ==
  LET d == Head(wire) IN
  /\ cpc = "open"
  /\ wire # <<>>
  /\ wire' = Tail(wire)
  /\ IF d.type = "connection_ack"
     THEN asked' = asked \cup {Body} /\ Send("subscribe", Body)
     ELSE UNCHANGED <<asked, inbound>>
  /\ count' = IF d.type = "next" THEN count + 2 ELSE count
  /\ seen' = IF d.type = "next" THEN [seen EXCEPT ![d.id] = d.no] ELSE seen
  /\ IF d.type = "next" /\ count' > Limit
     THEN cpc' = "closed" /\ broken' = TRUE
     ELSE UNCHANGED <<cpc, broken>>
  /\ UNCHANGED server

SubscribeAgain(i) ==
  /\ Free /\ cpc = "open"
  /\ Body \in asked /\ i \notin asked
  /\ asked' = asked \cup {i}
  /\ Send("subscribe", i)
  /\ UNCHANGED <<server, wire, broken, cpc, count, seen>>

StopOrUnknown(t, i) ==
  /\ Free /\ cpc = "open" /\ inbound = <<>>
  /\ i \in asked
  /\ Send(t, i)
  /\ UNCHANGED <<server, wire, broken, client>>

\* The connection is lost, or the client goes away.
Lose ==
  /\ cpc = "open"
  /\ cpc' = "closed"
  /\ broken' = TRUE
  /\ UNCHANGED <<server, wire, inbound, asked, count, seen>>

----------------------------------------------------------------------------
(* The handler. *)

\* ReadMessage, and what subSwitch does at once: a client that is refused ends the loop, a
\* refused subscription or message gets an error first; a stop of no session is ignored.
Read ==
  LET m == Head(inbound) IN
  /\ hpc = "read"
  /\ inbound # <<>>
  /\ inbound' = Tail(inbound)
  /\ req' = m.id
  /\ \/ m.type = "connection_init" /\ hpc' \in {"ack", "close"}
        /\ UNCHANGED <<sessions, spc, subscribed>>
     \/ m.type = "subscribe" /\ hpc' = "read"
        /\ sessions' = sessions \cup {m.id}
        /\ spc' = [spc EXCEPT ![m.id] = "select"]
        /\ subscribed' = subscribed \cup {m.id}
     \/ m.type = "stop" /\ hpc' = (IF m.id \in sessions THEN "stop" ELSE "read")
        /\ UNCHANGED <<sessions, spc, subscribed>>
     \/ m.type \in {"subscribe", "unknown"} /\ hpc' = "error"
        /\ UNCHANGED <<sessions, spc, subscribed>>
  /\ UNCHANGED <<results, produced, writer, wire, broken, client>>

ReadFails ==
  /\ hpc = "read"
  /\ broken /\ inbound = <<>>
  /\ hpc' = "close"
  /\ UNCHANGED <<req, sessions, spc, subscribed, results, produced, writer, wire, inbound,
                 broken, client>>

\* connMutex.Lock, for the acknowledgement or for sendError.
HandlerLocks ==
  /\ hpc \in {"ack", "error"}
  /\ writer = None
  /\ writer' = Handler
  /\ hpc' = IF hpc = "ack" THEN "writeAck" ELSE "writeError"
  /\ UNCHANGED <<req, sessions, spc, subscribed, results, produced, wire, inbound, broken, client>>

\* A write takes place or fails, and blocks while the client does not read.
Write(m, ok) ==
  \/ ~broken /\ ok /\ Len(wire) < WireCap /\ wire' = Append(wire, m)
  \/ broken /\ ~ok /\ UNCHANGED wire

HandlerWrites ==
  /\ hpc \in {"writeAck", "writeError"}
  /\ \E ok \in BOOLEAN :
       /\ Write(Msg(IF hpc = "writeAck" THEN "connection_ack" ELSE "error", req, 0), ok)
       /\ hpc' = IF hpc = "writeAck" /\ ok THEN "read" ELSE "close"
  /\ writer' = None
  /\ UNCHANGED <<req, sessions, spc, subscribed, results, produced, inbound, broken, client>>

\* Mutant: the session is forgotten, and its goroutine not told.
StopForgets ==
  /\ hpc = "stop"
  /\ subscribed' = subscribed \ {req}
  /\ sessions' = sessions \ {req}
  /\ hpc' = "read"
  /\ UNCHANGED <<req, spc, results, produced, writer, wire, inbound, broken, client>>

\* st.done <- true: the goroutine takes it when it waits, and the handler goes on.
Stop ==
  /\ hpc = "stop"
  /\ spc[req] = "select"
  /\ spc' = [spc EXCEPT ![req] = "ended"]
  /\ subscribed' = subscribed \ {req}
  /\ sessions' = sessions \ {req}
  /\ hpc' = "read"
  /\ UNCHANGED <<req, results, produced, writer, wire, inbound, broken, client>>

\* The loop has ended: no session gets results any more.
Close ==
  /\ hpc = "close"
  /\ subscribed' = subscribed \ sessions
  /\ hpc' = "done"
  /\ UNCHANGED <<req, sessions, spc, results, produced, writer, wire, inbound, broken, client>>

\* wc.done <- true: one goroutine that waits takes it, and the connection is closed.
Done(i) ==
  /\ hpc = "done"
  /\ spc[i] = "select"
  /\ spc' = [spc EXCEPT ![i] = "ended"]
  /\ hpc' = "ended"
  /\ broken' = TRUE
  /\ UNCHANGED <<req, sessions, subscribed, results, produced, writer, wire, inbound, client>>

----------------------------------------------------------------------------
(* waitForData, the goroutine of session i. *)

Produce(i) ==
  /\ i \in subscribed
  /\ produced[i] < MaxResults
  /\ produced' = [produced EXCEPT ![i] = @ + 1]
  /\ results' = [results EXCEPT ![i] = @ + 1]
  /\ UNCHANGED <<hpc, req, sessions, spc, subscribed, writer, wire, inbound, broken, client>>

Goes(i, from, to) == spc[i] = from /\ spc' = [spc EXCEPT ![i] = to]

\* Mutant: only the newest result is sent.
TakeNewest(i) ==
  /\ Goes(i, "select", "next")
  /\ results[i] > 0
  /\ results' = [results EXCEPT ![i] = 0]
  /\ UNCHANGED <<hpc, req, sessions, subscribed, produced, writer, wire, inbound, broken, client>>

TakeResult(i) ==
  /\ Goes(i, "select", "next")
  /\ results[i] > 0
  /\ results' = [results EXCEPT ![i] = @ - 1]
  /\ UNCHANGED <<hpc, req, sessions, subscribed, produced, writer, wire, inbound, broken, client>>

\* Mutant: a result is dropped when the mutex is taken.
TryLock(i) ==
  /\ IF writer = None
     THEN writer' = i /\ (Goes(i, "next", "writeNext") \/ Goes(i, "error", "writeError"))
     ELSE UNCHANGED writer /\ (Goes(i, "next", "select") \/ Goes(i, "error", "select"))
  /\ UNCHANGED <<hpc, req, sessions, subscribed, results, produced, wire, inbound, broken, client>>

\* connMutex.Lock, for a result or for sendError.
Lock(i) ==
  /\ writer = None
  /\ Goes(i, "next", "writeNext") \/ Goes(i, "error", "writeError")
  /\ writer' = i
  /\ UNCHANGED <<hpc, req, sessions, subscribed, results, produced, wire, inbound, broken, client>>

\* The number of the result that is written: those after it are in Member.Result.
Number(i) == produced[i] - results[i]

\* Mutant: a goroutine that cannot write returns.
SessionWritesOrEnds(i) ==
  /\ writer' = None
  /\ \/ \E ok \in BOOLEAN :
          /\ Write(Msg("next", i, Number(i)), ok)
          /\ Goes(i, "writeNext", IF ok THEN "select" ELSE "error")
     \/ \E ok \in BOOLEAN :
          /\ Write(Msg("error", i, 0), ok)
          /\ Goes(i, "writeError", "ended")
  /\ UNCHANGED <<hpc, req, sessions, subscribed, results, produced, inbound, broken, client>>

\* A result that cannot be written is followed by an error; then, as break ends the select
\* only, the goroutine waits again.
SessionWrites(i) ==
  /\ writer' = None
  /\ \/ \E ok \in BOOLEAN :
          /\ Write(Msg("next", i, Number(i)), ok)
          /\ Goes(i, "writeNext", IF ok THEN "select" ELSE "error")
     \/ \E ok \in BOOLEAN :
          /\ Write(Msg("error", i, 0), ok)
          /\ Goes(i, "writeError", "select")
  /\ UNCHANGED <<hpc, req, sessions, subscribed, results, produced, inbound, broken, client>>

----------------------------------------------------------------------------
Server ==
  \/ Read \/ ReadFails \/ HandlerLocks \/ HandlerWrites \/ Stop \/ Close
  \/ \E i \in Ids : Done(i)

HandlerSends == Stop \/ \E i \in Ids : Done(i)

Session(i) == TakeResult(i) \/ Lock(i) \/ SessionWrites(i)

Next ==
  \/ OnOpen \/ OnMessage \/ Lose
  \/ \E i \in Ids : SubscribeAgain(i)
  \/ \E i \in Ids, t \in {"stop", "unknown"} : StopOrUnknown(t, i)
  \/ Server
  \/ \E i \in Ids : Produce(i)
  \/ \E i \in Ids : Session(i)

\* The client reads; goroutines run, and one that waits for the mutex gets it in its turn.
Fairness ==
  /\ WF_vars(OnMessage)
  /\ WF_vars(Server) /\ SF_vars(HandlerLocks) /\ SF_vars(HandlerSends)
  /\ \A i \in Ids : WF_vars(TakeResult(i) \/ SessionWrites(i)) /\ SF_vars(Lock(i))

Spec == Init /\ [][Next]_vars /\ Fairness

----------------------------------------------------------------------------
(* Properties. *)

\* A session that was stopped writes nothing any more.
NothingAfterStop ==
  [][\A i \in Ids : i \in asked /\ spc[i] # "none" /\ i \notin sessions =>
       (Len(wire') > Len(wire) /\ wire'[Len(wire')].id = i => wire'[Len(wire')].type # "next")]_vars

\* The client reads the results of a subscription in order, each once and none left out.
InOrder ==
  [][\A i \in Ids : seen'[i] # seen[i] => seen'[i] = seen[i] + 1]_vars

\* A stop is carried out, even when the goroutine waits for a slow client.
StopReturns == hpc = "stop" ~> hpc # "stop"

\* A connection with one session, as subs.js has, ends with its goroutine: neither waits for
\* the other for ever.
OneSessionEnds ==
  \A i \in Ids : hpc = "close" /\ sessions = {i} ~> hpc = "ended" /\ spc[i] = "ended"

\* Every result reaches the client while the session and the connection last.
EveryResultArrives ==
  \A i \in Ids : seen[i] < produced[i] ~> seen[i] = produced[i] \/ broken \/ i \notin subscribed

=============================================================================
