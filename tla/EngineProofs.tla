---------------------------- MODULE EngineProofs ----------------------------
(***************************************************************************)
(* Proofs about Engine, for any number of requests, calls and engines.      *)
(*                                                                          *)
(* Fits says what a request may hold at each step, Holds how it relates to   *)
(* the compiled query that it uses: while a request compiles, the entry is   *)
(* its own and no other request writes it.                                  *)
(*                                                                          *)
(* The allow list: with production security only its queries are executed,  *)
(* and its files are written in order until a reload.  Listed: nobody saves  *)
(* in production, so the files stay, and the texts of cached items and of    *)
(* requests are those of the files.  Current: a request hands over to the    *)
(* goroutine of an engine that was loaded, so before the first reload there  *)
(* is one goroutine, and it holds the last text (Ordered).                   *)
(***************************************************************************)
EXTENDS Engine, TLAPS

RemoteFields == UNION {Remotes[t] : t \in Texts}

Running ==
  [st : Steps, call : Call, eng : Engines, name : Names, text : Texts \cup {None},
   hit : BOOLEAN, ashape : Shapes \cup {None}, role : Roles, own : Statement \cup {None},
   tries : 0..2, todo : SUBSET RemoteFields, left : SUBSET RemoteFields,
   failed : SUBSET RemoteFields,
   cerr : BOOLEAN]

Ended == [st : {"done"}, out : {"ok", "error", "panic"}]

\* Only what is executed was tried, and a statement in a transaction never again.
Counted(q) ==
  /\ q.tries = 0 \/ ~q.call.tx
  /\ q.st \in {"allow", "json", "connect", "role", "compile", "once", "write", "defaults"} =>
       q.tries = 0

\* The remote fields that failed have left an error.
Reported(q) == q.failed # {} => q.st = "remote" /\ q.cerr

Fits(q) ==
  \/ q = Idle
  \/ q \in Ended
  \/ q \in Running /\ (q.st # "allow" => q.text \in Texts) /\ Counted(q) /\ Reported(q)

EntryOf(q, qs) == qs[q.eng][Key(q.name, q.role)]

\* The compiled query of a request, while it compiles and once it is found.
Holds(q, r, qs) ==
  q.st \in {"once", "write", "defaults", "exec"} =>
    IF ~prodSec
    THEN q.st \notin {"once", "write"}
    ELSE /\ EntryOf(q, qs) # None
         /\ q.st = "once" => EntryOf(q, qs).by = r /\ EntryOf(q, qs).st = None
         /\ q.st = "write" => EntryOf(q, qs).by = r /\ EntryOf(q, qs).st = Torn
         /\ q.st = "exec" => EntryOf(q, qs).st # None

SaverStates ==
  {NoItem} \cup [st : {"idle", "gql", "json"}, name : Names, text : Texts,
                 shape : Shapes \cup {None}]

Typed ==
  /\ mode \in Modes
  /\ engine \in Engines /\ schemaOf \in [Engines -> Versions]
  /\ building \in Versions \cup {None}
  /\ building # None => engine < MaxEngines
  /\ queries \in [Engines -> [QueryKeys -> CompiledQuery \cup {None}]]
  /\ items \in [Engines -> [Names -> Item \cup {None}]]
  /\ pq \in [Engines -> [PQKeys -> Texts \cup {None}]]
  /\ gql \in [Names -> Texts \cup {None}] /\ json \in [Names -> Shapes \cup {None}]
  /\ last \in [Names -> Texts \cup {None}]
  /\ saver \in [Engines -> SaverStates]
  /\ DOMAIN req = Requests

IInv ==
  /\ Typed
  /\ \A r \in Requests : Fits(req[r])
  /\ \A r \in Requests : Holds(req[r], r, queries)

-----------------------------------------------------------------------------
\* A request that is between two steps is running.
LEMMA AtStepRunning ==
  ASSUME NEW q, Fits(q), NEW st \in Steps, q.st = st
  PROVE  /\ q \in Running /\ (q.st # "allow" => q.text \in Texts)
         /\ Counted(q) /\ Reported(q)
<1>1. q # Idle
  BY DEF Idle, Steps
<1>2. q \notin Ended
  BY DEF Ended, Steps
<1> QED BY <1>1, <1>2 DEF Fits

\* What ends fits.
LEMMA EndFits ==
  ASSUME NEW out \in {"ok", "error", "panic"}
  PROVE  Fits(End(out)) /\ End(out).st = "done"
BY DEF Fits, End, Ended

\* A step of a request that changes nothing else.
LEMMA LocalStep ==
  ASSUME IInv, NEW r \in Requests, NEW q, Go(r, q), Fits(q), Holds(q, r, queries),
         UNCHANGED <<mode, reloads, caches, saving>>
  PROVE  IInv'
<1>1. Typed'
  BY DEF IInv, Typed, Go, reloads, caches, saving
<1>2. \A x \in Requests : req'[x] = IF x = r THEN q ELSE req[x]
  BY DEF IInv, Typed, Go
<1>3. \A x \in Requests : Fits(req[x])'
  <2> SUFFICES ASSUME NEW x \in Requests PROVE Fits(req'[x])
    BY DEF Fits, Idle, Ended, Running, Counted, Reported, Steps, Call, Engines, Statement,
       Versions
  <2> QED BY <1>2 DEF IInv
<1>4. queries' = queries /\ prodSec' = prodSec
  BY DEF caches, prodSec
<1>5. \A x \in Requests : Holds(req[x], x, queries)'
  <2> SUFFICES ASSUME NEW x \in Requests PROVE Holds(req'[x], x, queries)
    BY <1>4 DEF Holds, EntryOf
  <2> QED BY <1>2 DEF IInv
<1> QED BY <1>1, <1>3, <1>5 DEF IInv

\* GraphQL and GraphQLByName.
LEMMA BeginInv ==
  ASSUME IInv, NEW r \in Requests, NEW c \in Calls, Begin(r, c)
  PROVE  IInv'
<1> DEFINE t == Sent(engine, c)
           q == [st |-> IF LooksUp(c) THEN "allow" ELSE "connect", call |-> c, eng |-> engine,
                 name |-> IF c.byName THEN c.name ELSE NameOf[t], text |-> t,
                 hit |-> Persisted(engine, c) # None, ashape |-> None, role |-> Anon,
                 own |-> None, tries |-> 0, todo |-> {}, left |-> {}, failed |-> {},
                 cerr |-> FALSE]
<1>1. c \in Call
  BY EngineAssumption
<1>2. engine \in Engines /\ t \in Texts \cup {None}
  BY <1>1 DEF IInv, Typed, Sent, Persisted, Call
<1>3. CASE ~c.byName /\ t = None
  <2>1. Go(r, End("error"))
    BY <1>3 DEF Begin
  <2>2. Fits(End("error")) /\ Holds(End("error"), r, queries)
    BY EndFits DEF Holds
  <2> QED BY <2>1, <2>2, LocalStep DEF Begin
<1>4. CASE ~(~c.byName /\ t = None)
  <2>1. Go(r, q)
    BY <1>4 DEF Begin
  <2>2. q.name \in Names
    BY <1>1, <1>2, <1>4, EngineAssumption DEF Call
  <2>3. q \in Running
    BY <1>1, <1>2, <2>2 DEF Running, Steps, Roles
  <2>4. q.st # "allow" => q.text \in Texts
    BY <1>2, <1>4 DEF LooksUp
  <2>5. Counted(q) /\ Reported(q)
    BY DEF Counted, Reported
  <2>6. Fits(q)
    BY <2>3, <2>4, <2>5 DEF Fits
  <2>7. Holds(q, r, queries)
    BY DEF Holds
  <2> HIDE DEF q
  <2> QED BY <2>1, <2>6, <2>7, LocalStep DEF Begin
<1> QED BY <1>3, <1>4

\* What r.Set leaves fits, when the item is typed.
LEMMA SetItemFits ==
  ASSUME NEW r \in Requests, Fits(req[r]), req[r].st \in {"allow", "json"},
         NEW t \in Texts, NEW s \in Shapes \cup {None}
  PROVE  Fits(SetItem(r, t, s)) /\ SetItem(r, t, s).st = "connect"
<1> DEFINE q == req[r]
           p == [q EXCEPT !.st = "connect", !.text = t, !.ashape = s]
<1>1. q \in Running /\ Counted(q) /\ Reported(q)
  BY AtStepRunning DEF Steps
<1>2. /\ p \in Running /\ p.st = "connect" /\ p.text = t /\ p.failed = q.failed
      /\ p.call = q.call /\ p.tries = q.tries
  BY <1>1 DEF Running, Steps
<1>3. Fits(p)
  BY <1>1, <1>2 DEF Fits, Counted, Reported
<1>4. SetItem(r, t, s) = p
  BY <1>1 DEF SetItem, At, Running
<1> HIDE DEF p
<1> QED BY <1>2, <1>3, <1>4

\* GetByName, from the cache or from a file.
LEMMA GetByNameInv ==
  ASSUME IInv, NEW r \in Requests, GetByName(r)
  PROVE  IInv'
<1> DEFINE q == req[r]
           i == items[q.eng][q.name]
           t == gql[q.name]
<1>1. Fits(q) /\ q.st = "allow"
  BY DEF IInv, GetByName, Step
<1>2. q \in Running /\ Counted(q) /\ Reported(q)
  BY <1>1, AtStepRunning DEF Steps
<1>3. i \in Item \cup {None} /\ t \in Texts \cup {None}
  BY <1>2 DEF IInv, Typed, Running
<1>4. CASE i # None /\ Go(r, SetItem(r, i.text, i.shape))
  <2>1. i.text \in Texts /\ i.shape \in Shapes \cup {None}
    BY <1>3, <1>4 DEF Item
  <2>2. Fits(SetItem(r, i.text, i.shape)) /\ Holds(SetItem(r, i.text, i.shape), r, queries)
    BY <1>1, <2>1, SetItemFits DEF Holds
  <2> QED BY <1>4, <2>2, LocalStep DEF GetByName
<1>5. CASE Go(r, End("error"))
  <2>1. Fits(End("error")) /\ Holds(End("error"), r, queries)
    BY EndFits DEF Holds
  <2> QED BY <1>5, <2>1, LocalStep DEF GetByName
<1>6. CASE t # None /\ Go(r, [At(r, "json") EXCEPT !.text = t])
  <2> DEFINE p == [q EXCEPT !.st = "json", !.text = t]
  <2>1. /\ p \in Running /\ p.st = "json" /\ p.text = t /\ p.failed = q.failed
        /\ p.call = q.call /\ p.tries = q.tries
    BY <1>2, <1>3, <1>6 DEF Running, Steps
  <2>2. Fits(p) /\ Holds(p, r, queries)
    BY <1>1, <1>2, <1>3, <1>6, <2>1 DEF Fits, Counted, Reported, Holds
  <2>3. Go(r, p)
    BY <1>2, <1>6 DEF At, Running
  <2> HIDE DEF p
  <2> QED BY <2>2, <2>3, LocalStep DEF GetByName
<1>7. \/ i # None /\ Go(r, SetItem(r, i.text, i.shape))
      \/ Go(r, End("error"))
      \/ t # None /\ Go(r, [At(r, "json") EXCEPT !.text = t])
  BY DEF GetByName
<1> HIDE DEF q, i, t
<1> QED BY <1>4, <1>5, <1>6, <1>7

\* A step that only moves a request on, with nothing counted or reported.
LEMMA MoveFits ==
  ASSUME NEW q \in Running, Counted(q), Reported(q), q.text \in Texts,
         q.st \in {"allow", "json", "connect", "role", "compile", "once", "write", "defaults"},
         NEW st \in {"compile", "role", "once", "write", "defaults", "exec"},
         NEW o \in Roles, NEW own \in Statement \cup {None}
  PROVE  Fits([q EXCEPT !.st = st, !.role = o, !.own = own])
<1> DEFINE p == [q EXCEPT !.st = st, !.role = o, !.own = own]
<1>1. /\ p \in Running /\ p.st = st /\ p.text = q.text /\ p.failed = q.failed
      /\ p.call = q.call /\ p.tries = q.tries
  BY DEF Running, Steps
<1> HIDE DEF p
<1>2. Counted(p) /\ Reported(p)
  BY <1>1 DEF Counted, Reported
<1>3. Fits(p)
  BY <1>1, <1>2 DEF Fits
<1> QED BY <1>3 DEF p

\* The same, when only the step changes.
LEMMA OnlyMoveFits ==
  ASSUME NEW r \in Requests, Fits(req[r]), req[r].text \in Texts,
         req[r].st \in {"allow", "json", "connect", "role", "compile", "once", "write", "defaults"},
         NEW st \in {"compile", "role", "once", "write", "defaults", "exec"}
  PROVE  Fits(At(r, st)) /\ At(r, st) \in Running /\ At(r, st).st = st
         /\ EntryOf(At(r, st), queries) = EntryOf(req[r], queries)
<1> DEFINE q == req[r]
           p == [q EXCEPT !.st = st]
<1>1. q \in Running /\ Counted(q) /\ Reported(q)
  BY AtStepRunning DEF Steps
<1>2. /\ p \in Running /\ p.st = st /\ p.text = q.text /\ p.failed = q.failed
      /\ p.call = q.call /\ p.tries = q.tries
      /\ p.eng = q.eng /\ p.name = q.name /\ p.role = q.role
  BY <1>1 DEF Running, Steps
<1>3. At(r, st) = p
  BY DEF At
<1> HIDE DEF p
<1>4. Counted(p) /\ Reported(p)
  BY <1>1, <1>2 DEF Counted, Reported
<1>5. Fits(p) /\ EntryOf(p, queries) = EntryOf(q, queries)
  BY <1>2, <1>4 DEF Fits, EntryOf
<1> QED BY <1>2, <1>3, <1>5

\* newGState and the role query.
LEMMA ConnectInv ==
  ASSUME IInv, NEW r \in Requests, Connect(r) \/ RoleQuery(r)
  PROVE  IInv'
<1> DEFINE q == req[r]
<1>1. Fits(q) /\ q.st \in {"connect", "role"}
  BY DEF IInv, Connect, RoleQuery, Step
<1>2. q \in Running /\ Counted(q) /\ Reported(q) /\ q.text \in Texts
  BY <1>1, AtStepRunning DEF Steps
<1>3. CASE Go(r, End("error"))
  <2>1. Fits(End("error")) /\ Holds(End("error"), r, queries)
    BY EndFits DEF Holds
  <2> QED BY <1>3, <2>1, LocalStep DEF Connect, RoleQuery
<1>4. ASSUME NEW st \in {"role", "compile"}, NEW o \in Roles, Go(r, [At(r, st) EXCEPT !.role = o])
      PROVE  IInv'
  <2> DEFINE p == [q EXCEPT !.st = st, !.role = o, !.own = q.own]
  <2>1. q.own \in Statement \cup {None}
    BY <1>2 DEF Running
  <2>2. Fits(p) /\ p.st = st
    BY <1>1, <1>2, <2>1, MoveFits DEF Running
  <2>3. Go(r, p)
    BY <1>2, <1>4 DEF At, Running
  <2>4. Holds(p, r, queries)
    BY <2>2 DEF Holds
  <2> HIDE DEF p
  <2> QED BY <2>2, <2>3, <2>4, LocalStep DEF Connect, RoleQuery
<1>5. \/ Go(r, End("error"))
      \/ \E st \in {"role", "compile"}, o \in Roles : Go(r, [At(r, st) EXCEPT !.role = o])
  BY DEF Connect, RoleQuery, Roles
<1> QED BY <1>3, <1>4, <1>5

\* What is compiled is a statement.
LEMMA CompiledIsStatement ==
  ASSUME IInv, NEW r \in Requests, req[r] \in Running, req[r].text \in Texts
  PROVE  Compiled(r) \in Statement
<1>1. schemaOf[req[r].eng] \in Versions
  BY DEF IInv, Typed, Running
<1>2. req[r].call.shape \in Shapes \cup {None}
  BY DEF Running, Call
<1> QED BY <1>1, <1>2 DEF Compiled, Statement, Running

\* compile without production security.
LEMMA CompileOwnInv ==
  ASSUME IInv, NEW r \in Requests, CompileOwn(r)
  PROVE  IInv'
<1> DEFINE q == req[r]
<1>1. Fits(q) /\ q.st = "compile"
  BY DEF IInv, CompileOwn, Step
<1>2. q \in Running /\ Counted(q) /\ Reported(q) /\ q.text \in Texts
  BY <1>1, AtStepRunning DEF Steps
<1>3. CASE Go(r, End("error"))
  <2>1. Fits(End("error")) /\ Holds(End("error"), r, queries)
    BY EndFits DEF Holds
  <2> QED BY <1>3, <2>1, LocalStep DEF CompileOwn
<1>4. CASE Go(r, [At(r, "defaults") EXCEPT !.own = Compiled(r)])
  <2> DEFINE p == [q EXCEPT !.st = "defaults", !.role = q.role, !.own = Compiled(r)]
  <2>1. Compiled(r) \in Statement
    BY <1>2, CompiledIsStatement
  <2>2. Fits(p) /\ p.st = "defaults"
    BY <1>1, <1>2, <2>1, MoveFits DEF Running
  <2>3. Go(r, p)
    BY <1>2, <1>4 DEF At, Running
  <2>4. Holds(p, r, queries)
    BY <2>2 DEF Holds, CompileOwn
  <2> HIDE DEF p
  <2> QED BY <2>2, <2>3, <2>4, LocalStep DEF CompileOwn
<1> QED BY <1>3, <1>4 DEF CompileOwn

\* A request that writes an entry that is empty, or its own.
LEMMA PutStep ==
  ASSUME IInv, NEW r \in Requests, NEW q, NEW cs \in CompiledQuery,
         req[r] \in Running, Put(r, cs), Go(r, q), Fits(q), Holds(q, r, queries'),
         CState(r) # None => /\ CState(r).by = r
                             /\ CState(r).st # None => cs.st # None,
         UNCHANGED <<mode, reloads, items, pq, saving>>
  PROVE  IInv'
<1>1. req[r].eng \in Engines /\ Key(req[r].name, req[r].role) \in QueryKeys
  BY DEF Running, QueryKeys
<1>2. /\ queries' \in [Engines -> [QueryKeys -> CompiledQuery \cup {None}]]
      /\ queries'[req[r].eng][Key(req[r].name, req[r].role)] = cs
      /\ \A e \in Engines, k \in QueryKeys :
           e # req[r].eng \/ k # Key(req[r].name, req[r].role) => queries'[e][k] = queries[e][k]
  BY <1>1 DEF Put, MapOf, IInv, Typed
<1>3. Typed'
  BY <1>2 DEF IInv, Typed, Go, reloads, caches, saving
<1>4. \A x \in Requests : req'[x] = IF x = r THEN q ELSE req[x]
  BY DEF IInv, Typed, Go
<1>5. \A x \in Requests : Fits(req[x])'
  <2> SUFFICES ASSUME NEW x \in Requests PROVE Fits(req'[x])
    BY DEF Fits, Idle, Ended, Running, Counted, Reported, Steps, Call, Engines, Statement,
       Versions
  <2> QED BY <1>4 DEF IInv
<1>6. prodSec' = prodSec
  BY DEF prodSec
<1>7. \A x \in Requests : Holds(req[x], x, queries)'
  <2> SUFFICES ASSUME NEW x \in Requests PROVE Holds(req'[x], x, queries')
    BY <1>6 DEF Holds, EntryOf
  <2>1. CASE x = r
    BY <1>4, <2>1
  <2>2. CASE x # r
    <3>1. req'[x] = req[x] /\ Holds(req[x], x, queries) /\ Fits(req[x])
      BY <1>4, <2>2 DEF IInv
    <3>2. SUFFICES ASSUME req[x].st \in {"once", "write", "defaults", "exec"}, prodSec
                   PROVE  Holds(req[x], x, queries')
      BY <3>1 DEF Holds
    <3>3. req[x] \in Running
      BY <3>1, <3>2, AtStepRunning DEF Steps
    <3>4. req[x].eng \in Engines /\ Key(req[x].name, req[x].role) \in QueryKeys
      BY <3>3 DEF Running, QueryKeys
    <3>5. CASE EntryOf(req[x], queries') = EntryOf(req[x], queries)
      BY <3>1, <3>2, <3>5 DEF Holds
    <3>6. CASE EntryOf(req[x], queries') # EntryOf(req[x], queries)
      <4>1. EntryOf(req[x], queries) = CState(r) /\ EntryOf(req[x], queries') = cs
        BY <1>2, <3>4, <3>6 DEF EntryOf, CState, MapOf
      <4>2. CState(r) # None /\ cs # None
        BY <3>1, <3>2, <4>1, NilAssumption DEF Holds
      <4> QED BY <2>2, <3>1, <3>2, <4>1, <4>2 DEF Holds
    <3> QED BY <3>5, <3>6
  <2> QED BY <2>1, <2>2
<1> QED BY <1>3, <1>5, <1>7 DEF IInv

\* The entry that a request uses does not depend on its step.
LEMMA EntryIsCState ==
  ASSUME NEW r \in Requests
  PROVE  EntryOf(req[r], queries) = CState(r)
BY DEF EntryOf, CState, MapOf

LEMMA CStateTyped ==
  ASSUME IInv, NEW r \in Requests, req[r] \in Running
  PROVE  CState(r) \in CompiledQuery \cup {None}
<1>1. req[r].eng \in Engines /\ Key(req[r].name, req[r].role) \in QueryKeys
  BY DEF Running, QueryKeys
<1> QED BY <1>1 DEF CState, MapOf, IInv, Typed

\* What is put is found.
LEMMA PutEntry ==
  ASSUME IInv, NEW r \in Requests, req[r] \in Running, NEW cs, Put(r, cs)
  PROVE  EntryOf(req[r], queries') = cs
<1>1. req[r].eng \in Engines /\ Key(req[r].name, req[r].role) \in QueryKeys
  BY DEF Running, QueryKeys
<1> QED BY <1>1 DEF Put, MapOf, EntryOf, IInv, Typed

\* compileQueryForRoleOnce, by the request that stores.
LEMMA CompileOnceInv ==
  ASSUME IInv, NEW r \in Requests, CompileOnce(r)
  PROVE  IInv'
<1> DEFINE q == req[r]
           cs == [by |-> r, st |-> None, err |-> FALSE]
<1>1. Fits(q) /\ q.st = "compile"
  BY DEF IInv, CompileOnce, Step
<1>2. q \in Running /\ q.text \in Texts
  BY <1>1, AtStepRunning DEF Steps
<1>3. Fits(At(r, "once")) /\ At(r, "once").st = "once"
      /\ EntryOf(At(r, "once"), queries') = EntryOf(q, queries')
  BY <1>1, <1>2, OnlyMoveFits DEF At, EntryOf, Running
<1>4. cs \in CompiledQuery /\ cs # None
  <2>1. cs \in CompiledQuery
    BY DEF CompiledQuery
  <2> QED BY <2>1, NilAssumption
<1>5. EntryOf(q, queries') = cs
  BY <1>2, PutEntry DEF CompileOnce
<1>6. Holds(At(r, "once"), r, queries')
  BY <1>3, <1>4, <1>5 DEF Holds, CompileOnce
<1> HIDE DEF cs
<1> QED BY <1>2, <1>3, <1>4, <1>6, PutStep DEF CompileOnce, Stores, cs

\* The two writes of the compiled statement, and the error.
LEMMA CompileEndsInv ==
  ASSUME IInv, NEW r \in Requests, CompileEnds(r)
  PROVE  IInv'
<1> DEFINE q == req[r]
           c == CState(r)
<1>1. Fits(q) /\ q.st = "once" /\ Holds(q, r, queries)
  BY DEF IInv, CompileEnds, Step
<1>2. q \in Running /\ q.text \in Texts
  BY <1>1, AtStepRunning DEF Steps
<1>3. prodSec /\ c # None /\ c.by = r /\ c.st = None
  BY <1>1, EntryIsCState DEF Holds
<1>4. c \in CompiledQuery
  BY <1>2, <1>3, CStateTyped
<1>5. CASE Put(r, [c EXCEPT !.st = Torn]) /\ Go(r, At(r, "write"))
  <2> DEFINE cs == [c EXCEPT !.st = Torn]
  <2>1. cs \in CompiledQuery /\ cs.by = r /\ cs.st = Torn /\ cs # None
    BY <1>3, <1>4, NilAssumption DEF CompiledQuery
  <2>2. Fits(At(r, "write")) /\ At(r, "write").st = "write"
        /\ EntryOf(At(r, "write"), queries') = EntryOf(q, queries')
    BY <1>1, <1>2, OnlyMoveFits DEF At, EntryOf, Running
  <2>3. EntryOf(q, queries') = cs
    BY <1>2, <1>5, PutEntry
  <2> HIDE DEF cs
  <2>4. Holds(At(r, "write"), r, queries')
    BY <1>3, <2>1, <2>2, <2>3 DEF Holds
  <2>5. Put(r, cs)
    BY <1>5 DEF cs
  <2> QED BY <1>2, <1>3, <1>5, <2>1, <2>2, <2>4, <2>5, PutStep DEF CompileEnds
<1>6. CASE Put(r, [c EXCEPT !.err = TRUE]) /\ Go(r, End("error"))
  <2> DEFINE cs == [c EXCEPT !.err = TRUE]
  <2>1. cs \in CompiledQuery
    BY <1>4 DEF CompiledQuery
  <2>2. Fits(End("error")) /\ Holds(End("error"), r, queries')
    BY EndFits DEF Holds
  <2>3. Put(r, cs)
    BY <1>6
  <2> HIDE DEF cs
  <2> QED BY <1>2, <1>3, <1>6, <2>1, <2>2, <2>3, PutStep DEF CompileEnds
<1> QED BY <1>5, <1>6 DEF CompileEnds

LEMMA CompileWritesInv ==
  ASSUME IInv, NEW r \in Requests, CompileWrites(r)
  PROVE  IInv'
<1> DEFINE q == req[r]
           c == CState(r)
           cs == [c EXCEPT !.st = Compiled(r)]
<1>1. Fits(q) /\ q.st = "write" /\ Holds(q, r, queries)
  BY DEF IInv, CompileWrites, Step
<1>2. q \in Running /\ q.text \in Texts
  BY <1>1, AtStepRunning DEF Steps
<1>3. prodSec /\ c # None /\ c.by = r
  BY <1>1, EntryIsCState DEF Holds
<1>4. c \in CompiledQuery /\ Compiled(r) \in Statement
  BY <1>2, <1>3, CompiledIsStatement, CStateTyped
<1>5. cs \in CompiledQuery /\ cs.by = r /\ cs.st # None /\ cs # None
  BY <1>3, <1>4, NilAssumption DEF CompiledQuery
<1>6. Fits(At(r, "defaults")) /\ At(r, "defaults").st = "defaults"
      /\ EntryOf(At(r, "defaults"), queries') = EntryOf(q, queries')
  BY <1>1, <1>2, OnlyMoveFits DEF At, EntryOf, Running
<1>7. Put(r, cs) /\ Go(r, At(r, "defaults"))
  BY DEF CompileWrites
<1>8. EntryOf(q, queries') = cs
  BY <1>2, <1>7, PutEntry
<1> HIDE DEF cs
<1>9. Holds(At(r, "defaults"), r, queries')
  BY <1>3, <1>5, <1>6, <1>8 DEF Holds
<1> QED BY <1>2, <1>3, <1>5, <1>6, <1>7, <1>9, PutStep DEF CompileWrites

\* LoadOrStore loads.
LEMMA UseCompiledInv ==
  ASSUME IInv, NEW r \in Requests, UseCompiled(r)
  PROVE  IInv'
<1>1. Fits(req[r]) /\ req[r].st = "compile"
  BY DEF IInv, UseCompiled, Step
<1>2. req[r] \in Running /\ req[r].text \in Texts
  BY <1>1, AtStepRunning DEF Steps
<1>3. Fits(End("error")) /\ Holds(End("error"), r, queries)
  BY EndFits DEF Holds
<1>4. Fits(At(r, "defaults")) /\ At(r, "defaults").st = "defaults"
      /\ EntryOf(At(r, "defaults"), queries) = CState(r)
  BY <1>1, <1>2, OnlyMoveFits, EntryIsCState
<1>5. Holds(At(r, "defaults"), r, queries)
  BY <1>4 DEF Holds, UseCompiled, Stores
<1> QED BY <1>3, <1>4, <1>5, LocalStep DEF UseCompiled

LEMMA SetDefaultVarsInv ==
  ASSUME IInv, NEW r \in Requests, SetDefaultVars(r)
  PROVE  IInv'
<1>1. Fits(req[r]) /\ req[r].st = "defaults" /\ Holds(req[r], r, queries)
  BY DEF IInv, SetDefaultVars, Step
<1>2. req[r] \in Running /\ req[r].text \in Texts
  BY <1>1, AtStepRunning DEF Steps
<1>3. CASE Go(r, End("panic"))
  <2>1. Fits(End("panic")) /\ Holds(End("panic"), r, queries)
    BY EndFits DEF Holds
  <2> QED BY <1>3, <2>1, LocalStep DEF SetDefaultVars
<1>4. CASE StatementOf(r) # None /\ Go(r, At(r, "exec"))
  <2>1. Fits(At(r, "exec")) /\ At(r, "exec").st = "exec"
        /\ EntryOf(At(r, "exec"), queries) = CState(r)
    BY <1>1, <1>2, OnlyMoveFits, EntryIsCState
  <2>2. prodSec => CState(r) # None /\ CState(r).st # None
    BY <1>1, <1>4, EntryIsCState DEF Holds, StatementOf
  <2>3. Holds(At(r, "exec"), r, queries)
    BY <2>1, <2>2 DEF Holds
  <2> QED BY <1>4, <2>1, <2>3, LocalStep DEF SetDefaultVars
<1> QED BY <1>3, <1>4 DEF SetDefaultVars

\* What a try changes.
Tried(q, st, f, t) == [q EXCEPT !.st = st, !.todo = f, !.tries = t]

LEMMA TryRunning ==
  ASSUME NEW q \in Running, NEW st \in Steps, NEW f \in SUBSET RemoteFields,
         NEW t \in 0..2
  PROVE  LET p == Tried(q, st, f, t)
         IN /\ p \in Running /\ p.st = st /\ p.text = q.text /\ p.call = q.call
            /\ p.tries = t /\ p.failed = q.failed
            /\ p.eng = q.eng /\ p.name = q.name /\ p.role = q.role
<1> DEFINE p == Tried(q, st, f, t)
<1>1. p \in Running
  BY DEF Tried, Running
<1>2. /\ p.st = st /\ p.text = q.text /\ p.call = q.call
      /\ p.tries = t /\ p.failed = q.failed
      /\ p.eng = q.eng /\ p.name = q.name /\ p.role = q.role
  BY DEF Tried, Running
<1> QED BY <1>1, <1>2

\* execute: a try that works, and tries that fail.
LEMMA ExecuteWorksInv ==
  ASSUME IInv, NEW r \in Requests, ExecuteWorks(r)
  PROVE  IInv'
<1> DEFINE q == req[r]
           f == Remotes[q.text]
           st == IF f = {} THEN "answer" ELSE "remote"
           p == Tried(q, st, f, 0)
<1>1. Fits(q) /\ q.st = "exec"
  BY DEF IInv, ExecuteWorks, Step
<1>2. q \in Running /\ q.text \in Texts /\ Counted(q) /\ Reported(q)
  BY <1>1, AtStepRunning DEF Steps
<1>3. f \in SUBSET RemoteFields
  BY <1>2 DEF RemoteFields
<1>5. st \in {"answer", "remote"}
  OBVIOUS
<1>6. /\ p \in Running /\ p.st = st /\ p.text = q.text /\ p.call = q.call
      /\ p.tries = 0 /\ p.failed = q.failed
  <2>1. st \in Steps /\ 0 \in 0..2
    BY <1>5 DEF Steps
  <2> HIDE DEF f, st
  <2> QED BY <1>2, <1>3, <2>1, TryRunning
<1>7. Executed(r) = p
  BY <1>2 DEF Executed, At, Running, Tried
<1>8. q.failed = {}
  BY <1>1, <1>2 DEF Reported
<1> HIDE DEF p, st
<1>9. Counted(p) /\ Reported(p)
  BY <1>2, <1>5, <1>6, <1>8 DEF Counted, Reported
<1>10. Fits(p) /\ Holds(p, r, queries)
  BY <1>2, <1>5, <1>6, <1>9 DEF Fits, Holds
<1> QED BY <1>7, <1>10, LocalStep DEF ExecuteWorks

\* A try that is not the last one leaves the request where it is.
LEMMA RetryFits ==
  ASSUME IInv, NEW r \in Requests, req[r].st = "exec",
         req[r].tries + 1 < Tries(r)
  PROVE  LET p == [req[r] EXCEPT !.tries = @ + 1]
         IN Fits(p) /\ Holds(p, r, queries)
<1> DEFINE q == req[r]
           p == Tried(q, "exec", q.todo, q.tries + 1)
<1>1. Fits(q) /\ Holds(q, r, queries)
  BY DEF IInv
<1>2. q \in Running /\ q.text \in Texts /\ Counted(q) /\ Reported(q)
  BY <1>1, AtStepRunning DEF Steps
<1>3. ~q.call.tx /\ q.tries \in 0..1
  BY <1>2 DEF Tries, Counted, Running
<1>4. /\ p \in Running /\ p.st = "exec" /\ p.text = q.text /\ p.call = q.call
      /\ p.tries = q.tries + 1 /\ p.failed = q.failed
      /\ p.eng = q.eng /\ p.name = q.name /\ p.role = q.role
  <2>1. "exec" \in Steps /\ q.todo \in SUBSET RemoteFields
    BY <1>2 DEF Running, Steps
  <2>2. q.tries + 1 \in 0..2
    BY <1>3, <2>1
  <2> QED BY <1>2, <2>1, <2>2, TryRunning
<1>0. p = [q EXCEPT !.tries = @ + 1]
  BY <1>1, <1>2 DEF Running, Tried
<1> HIDE DEF p
<1>5. Counted(p)
  BY <1>2, <1>3, <1>4 DEF Counted, Running
<1>6. Reported(p)
  BY <1>2, <1>4 DEF Reported
<1>7. EntryOf(p, queries) = EntryOf(q, queries)
  BY <1>4 DEF EntryOf
<1>8. Holds(p, r, queries)
  BY <1>1, <1>4, <1>7 DEF Holds
<1>9. Fits(p)
  BY <1>2, <1>4, <1>5, <1>6 DEF Fits
<1> QED BY <1>0, <1>8, <1>9

LEMMA ExecuteFailsInv ==
  ASSUME IInv, NEW r \in Requests, ExecuteFails(r)
  PROVE  IInv'
<1>1. Go(r, Retry(r, End("error")))
  BY DEF ExecuteFails
<1>2. CASE req[r].tries + 1 < Tries(r)
  <2>1. Fits(Retry(r, End("error"))) /\ Holds(Retry(r, End("error")), r, queries)
    BY <1>2, RetryFits DEF Retry, ExecuteFails, Step
  <2> QED BY <1>1, <2>1, LocalStep DEF ExecuteFails
<1>3. CASE ~(req[r].tries + 1 < Tries(r))
  <2>1. Fits(End("error")) /\ Holds(End("error"), r, queries)
    BY EndFits DEF Holds
  <2> QED BY <1>1, <1>3, <2>1, LocalStep DEF ExecuteFails, Retry
<1> QED BY <1>2, <1>3

LEMMA ExecuteTornInv ==
  ASSUME IInv, NEW r \in Requests, ExecuteTorn(r)
  PROVE  IInv'
<1> DEFINE q == req[r]
           p == Tried(q, "answer", q.todo, 0)
<1>1. Fits(q) /\ q.st = "exec"
  BY DEF IInv, ExecuteTorn, Step
<1>2. q \in Running /\ q.text \in Texts /\ Counted(q) /\ Reported(q)
  BY <1>1, AtStepRunning DEF Steps
<1>3. /\ p \in Running /\ p.st = "answer" /\ p.text = q.text /\ p.call = q.call
      /\ p.tries = 0 /\ p.failed = q.failed
  <2>1. "answer" \in Steps /\ q.todo \in SUBSET RemoteFields /\ 0 \in 0..2
    BY <1>2 DEF Running, Steps
  <2> QED BY <1>2, <2>1, TryRunning
<1>4. [At(r, "answer") EXCEPT !.tries = 0] = p
  BY <1>2 DEF At, Running, Tried
<1> HIDE DEF p
<1>5. Counted(p) /\ Reported(p)
  BY <1>1, <1>2, <1>3 DEF Counted, Reported
<1>6. Fits(p) /\ Holds(p, r, queries)
  BY <1>2, <1>3, <1>5 DEF Fits, Holds
<1>7. Fits(End("error")) /\ Holds(End("error"), r, queries)
  BY EndFits DEF Holds
<1>8. PICK z \in {End("error"), p} : Go(r, Retry(r, z))
  BY <1>4 DEF ExecuteTorn
<1>9. Fits(z) /\ Holds(z, r, queries)
  BY <1>6, <1>7
<1>10. CASE req[r].tries + 1 < Tries(r)
  <2>1. Fits(Retry(r, z)) /\ Holds(Retry(r, z), r, queries)
    BY <1>1, <1>10, RetryFits DEF Retry
  <2> QED BY <1>8, <2>1, LocalStep DEF ExecuteTorn
<1>11. CASE ~(req[r].tries + 1 < Tries(r))
  BY <1>8, <1>9, <1>11, LocalStep DEF ExecuteTorn, Retry
<1> QED BY <1>10, <1>11

\* resolveRemotes: a goroutine starts, or cannot, ...
LEMMA StartRemoteInv ==
  ASSUME IInv, NEW r \in Requests, StartRemote(r) \/ NoRemoteId(r)
  PROVE  IInv'
<1> DEFINE q == req[r]
<1>1. Fits(q) /\ q.st = "remote"
  BY DEF IInv, StartRemote, NoRemoteId, Step
<1>2. q \in Running /\ q.text \in Texts /\ Counted(q) /\ Reported(q)
  BY <1>1, AtStepRunning DEF Steps
<1>3. CASE StartRemote(r)
  <2>1. PICK f \in q.todo :
           Go(r, [q EXCEPT !.todo = q.todo \ {f}, !.left = q.left \cup {f}])
    BY <1>3 DEF StartRemote
  <2> DEFINE p == [q EXCEPT !.todo = q.todo \ {f}, !.left = q.left \cup {f}]
  <2>2. f \in RemoteFields
    BY <1>2 DEF Running
  <2>3. /\ p \in Running /\ p.st = "remote" /\ p.text = q.text /\ p.call = q.call
        /\ p.tries = q.tries /\ p.failed = q.failed /\ p.cerr = q.cerr
    BY <1>1, <1>2, <2>2 DEF Running
  <2> HIDE DEF p
  <2>4. Fits(p) /\ Holds(p, r, queries)
    BY <1>1, <1>2, <2>3 DEF Fits, Holds, Counted, Reported
  <2>5. Go(r, p)
    BY <2>1 DEF p
  <2> QED BY <1>3, <2>4, <2>5, LocalStep DEF StartRemote
<1>4. CASE NoRemoteId(r)
  <2>1. Fits(End("error")) /\ Holds(End("error"), r, queries)
    BY EndFits DEF Holds
  <2> QED BY <1>4, <2>1, LocalStep DEF NoRemoteId
<1> QED BY <1>3, <1>4

\* ... one ends, and all have.
LEMMA ResolveInv ==
  ASSUME IInv, NEW r \in Requests, Resolve(r)
  PROVE  IInv'
<1> DEFINE q == req[r]
<1>1. Fits(q) /\ q.st = "remote"
  BY DEF IInv, Resolve, Step
<1>2. q \in Running /\ q.text \in Texts /\ Counted(q) /\ Reported(q)
  BY <1>1, AtStepRunning DEF Steps
<1>3. PICK f \in q.left : Go(r, RemoteWorks(r, f)) \/ Go(r, RemoteFails(r, f))
  BY DEF Resolve
<1>4. f \in RemoteFields
  BY <1>2 DEF Running
<1> DEFINE p == [q EXCEPT !.left = q.left \ {f}]
           z == [q EXCEPT !.left = q.left \ {f}, !.failed = q.failed \cup {f}, !.cerr = TRUE]
<1>5. /\ p \in Running /\ p.st = "remote" /\ p.text = q.text /\ p.call = q.call
      /\ p.tries = q.tries /\ p.failed = q.failed /\ p.cerr = q.cerr
  BY <1>1, <1>2 DEF Running
<1>6. /\ z \in Running /\ z.st = "remote" /\ z.text = q.text /\ z.call = q.call
      /\ z.tries = q.tries /\ z.cerr
  BY <1>1, <1>2, <1>4 DEF Running
<1>7. RemoteWorks(r, f) = p /\ RemoteFails(r, f) = z
  BY DEF RemoteWorks, RemoteFails
<1> HIDE DEF p, z
<1>8. Fits(p) /\ Holds(p, r, queries)
  BY <1>1, <1>2, <1>5 DEF Fits, Holds, Counted, Reported
<1>9. Fits(z) /\ Holds(z, r, queries)
  BY <1>1, <1>2, <1>6 DEF Fits, Holds, Counted, Reported
<1> QED BY <1>3, <1>7, <1>8, <1>9, LocalStep DEF Resolve

\* What only moves a request on after its statement was executed fits.
LEMMA AfterFits ==
  ASSUME NEW r \in Requests, Fits(req[r]), req[r].st \in {"remote", "answer"},
         req[r].failed = {}, NEW st \in {"answer", "save"}
  PROVE  Fits(At(r, st)) /\ At(r, st).st = st
<1> DEFINE q == req[r]
           p == [q EXCEPT !.st = st]
<1>1. q \in Running /\ q.text \in Texts /\ Counted(q) /\ Reported(q)
  BY AtStepRunning DEF Steps
<1>2. /\ p \in Running /\ p.st = st /\ p.text = q.text /\ p.failed = q.failed
      /\ p.call = q.call /\ p.tries = q.tries
  BY <1>1 DEF Running, Steps
<1>3. At(r, st) = p
  BY DEF At
<1> HIDE DEF p
<1>4. Counted(p) /\ Reported(p)
  BY <1>1, <1>2 DEF Counted, Reported
<1> QED BY <1>1, <1>2, <1>3, <1>4 DEF Fits

LEMMA JoinedInv ==
  ASSUME IInv, NEW r \in Requests, Joined(r)
  PROVE  IInv'
<1>1. Fits(req[r]) /\ req[r].st = "remote"
  BY DEF IInv, Joined, Step
<1>2. req[r] \in Running /\ Reported(req[r])
  BY <1>1, AtStepRunning DEF Steps
<1>3. CASE Go(r, End("error"))
  <2>1. Fits(End("error")) /\ Holds(End("error"), r, queries)
    BY EndFits DEF Holds
  <2> QED BY <1>3, <2>1, LocalStep DEF Joined
<1>4. CASE ~req[r].cerr /\ Go(r, At(r, "answer"))
  <2>1. req[r].failed = {}
    BY <1>2, <1>4 DEF Reported
  <2>2. Fits(At(r, "answer")) /\ Holds(At(r, "answer"), r, queries)
    BY <1>1, <2>1, AfterFits DEF Holds
  <2> QED BY <1>4, <2>2, LocalStep DEF Joined
<1> QED BY <1>3, <1>4 DEF Joined

\* A step of a request that changes neither the engine nor its compiled queries.
LEMMA RequestStep ==
  ASSUME IInv, NEW r \in Requests, NEW q, Go(r, q), Fits(q), Holds(q, r, queries),
         UNCHANGED <<mode, reloads, queries>>, Typed'
  PROVE  IInv'
<1>1. \A x \in Requests : req'[x] = IF x = r THEN q ELSE req[x]
  BY DEF IInv, Typed, Go
<1>2. \A x \in Requests : Fits(req[x])'
  <2> SUFFICES ASSUME NEW x \in Requests PROVE Fits(req'[x])
    BY DEF Fits, Idle, Ended, Running, Counted, Reported, Steps, Call, Engines, Statement,
       Versions
  <2> QED BY <1>1 DEF IInv
<1>3. prodSec' = prodSec
  BY DEF prodSec
<1>4. \A x \in Requests : Holds(req[x], x, queries)'
  <2> SUFFICES ASSUME NEW x \in Requests PROVE Holds(req'[x], x, queries)
    BY <1>3 DEF Holds, EntryOf
  <2> QED BY <1>1 DEF IInv
<1> QED BY <1>2, <1>4 DEF IInv

LEMMA GetJsonInv ==
  ASSUME IInv, NEW r \in Requests, GetJson(r)
  PROVE  IInv'
<1> DEFINE q == req[r]
           s == json[q.name]
           i == [text |-> q.text, shape |-> s]
<1>1. Fits(q) /\ q.st = "json"
  BY DEF IInv, GetJson, Step
<1>2. q \in Running /\ q.text \in Texts
  BY <1>1, AtStepRunning DEF Steps
<1>3. s \in Shapes \cup {None} /\ q.eng \in Engines /\ q.name \in Names
  BY <1>2 DEF IInv, Typed, Running
<1>4. Fits(SetItem(r, q.text, s)) /\ Holds(SetItem(r, q.text, s), r, queries)
  BY <1>1, <1>2, <1>3, SetItemFits DEF Holds
<1>5. i \in Item
  BY <1>2, <1>3 DEF Item
<1> HIDE DEF i
<1>6. items' = items \/ items' = [items EXCEPT ![q.eng][q.name] = i]
  BY DEF GetJson, i
<1>7. items' \in [Engines -> [Names -> Item \cup {None}]]
  <2>1. items \in [Engines -> [Names -> Item \cup {None}]]
    BY DEF IInv, Typed
  <2> HIDE DEF q, s
  <2> QED BY <1>3, <1>5, <1>6, <2>1
<1>8. Typed'
  BY <1>7 DEF IInv, Typed, GetJson, Go, reloads, saving
<1>9. Go(r, SetItem(r, q.text, s)) /\ UNCHANGED <<mode, reloads, queries>>
  BY DEF GetJson
<1> QED BY <1>4, <1>8, <1>9, RequestStep

LEMMA AnswerInv ==
  ASSUME IInv, NEW r \in Requests, Answer(r)
  PROVE  IInv'
<1> DEFINE q == req[r]
<1>1. Fits(q) /\ q.st = "answer"
  BY DEF IInv, Answer, Step
<1>2. q \in Running /\ q.text \in Texts /\ q.failed = {}
  BY <1>1, AtStepRunning DEF Steps, Reported
<1>3. q.eng \in Engines /\ q.call.pqkey \in PQKeys \cup {None}
  BY <1>2 DEF Running, Call
<1>4. \/ pq' = pq
      \/ q.call.pqkey # None /\ pq' = [pq EXCEPT ![q.eng][q.call.pqkey] = q.text]
  BY DEF Answer
<1>5. pq' \in [Engines -> [PQKeys -> Texts \cup {None}]]
  <2>1. pq \in [Engines -> [PQKeys -> Texts \cup {None}]]
    BY DEF IInv, Typed
  <2> HIDE DEF q
  <2> QED BY <1>2, <1>3, <1>4, <2>1
<1>6. Typed'
  BY <1>5 DEF IInv, Typed, Answer, Go, reloads, saving
<1>7. Fits(End("ok")) /\ Holds(End("ok"), r, queries)
  BY EndFits DEF Holds
<1>8. Fits(At(r, "save")) /\ Holds(At(r, "save"), r, queries)
  BY <1>1, <1>2, AfterFits DEF Holds
<1> QED BY <1>6, <1>7, <1>8, RequestStep DEF Answer

LEMMA HandOverInv ==
  ASSUME IInv, NEW r \in Requests, HandOver(r)
  PROVE  IInv'
<1> DEFINE q == req[r]
           i == [st |-> "gql", name |-> q.name, text |-> q.text, shape |-> q.call.shape]
<1>1. Fits(q) /\ q.st = "save"
  BY DEF IInv, HandOver, Step
<1>2. q \in Running /\ q.text \in Texts
  BY <1>1, AtStepRunning DEF Steps
<1>3. q.eng \in Engines /\ q.name \in Names /\ q.call.shape \in Shapes \cup {None}
  BY <1>2 DEF Running, Call
<1>4. i \in SaverStates
  BY <1>2, <1>3 DEF SaverStates
<1>5. saver' = [saver EXCEPT ![q.eng] = i] /\ last' = [last EXCEPT ![q.name] = q.text]
  BY DEF HandOver
<1> HIDE DEF i
<1>6. /\ saver' \in [Engines -> SaverStates]
      /\ last' \in [Names -> Texts \cup {None}]
  BY <1>2, <1>3, <1>4, <1>5 DEF IInv, Typed
<1>7. Typed'
  BY <1>6 DEF IInv, Typed, HandOver, Go, reloads, caches
<1>8. Fits(End("ok")) /\ Holds(End("ok"), r, queries)
  BY EndFits DEF Holds
<1> QED BY <1>7, <1>8, RequestStep DEF HandOver, caches

-----------------------------------------------------------------------------
\* What changes no request and no compiled query.
LEMMA OtherStep ==
  ASSUME IInv, UNCHANGED <<mode, req, queries>>, Typed'
  PROVE  IInv'
<1>1. prodSec' = prodSec
  BY DEF prodSec
<1>2. \A x \in Requests : Fits(req[x])'
  <2> SUFFICES ASSUME NEW x \in Requests PROVE Fits(req[x])
    BY DEF Fits, Idle, Ended, Running, Counted, Reported, Steps, Call, Engines, Statement,
       Versions
  <2> QED BY DEF IInv
<1>3. \A x \in Requests : Holds(req[x], x, queries)'
  <2> SUFFICES ASSUME NEW x \in Requests PROVE Holds(req[x], x, queries)
    BY <1>1 DEF Holds, EntryOf
  <2> QED BY DEF IInv
<1> QED BY <1>2, <1>3 DEF IInv

\* The goroutine of the allow list moves on.
LEMMA SaverMoves ==
  ASSUME IInv, NEW e \in Engines, saver[e].st \in {"gql", "json"},
         NEW st \in {"idle", "gql", "json"}
  PROVE  /\ saver[e].name \in Names /\ saver[e].text \in Texts
         /\ saver[e].shape \in Shapes \cup {None}
         /\ Saver(e, st) => saver' \in [Engines -> SaverStates]
<1>1. saver \in [Engines -> SaverStates]
  BY DEF IInv, Typed
<1>2. saver[e] \in [st : {"idle", "gql", "json"}, name : Names, text : Texts,
                    shape : Shapes \cup {None}]
  BY <1>1 DEF SaverStates, NoItem
<1>3. [saver[e] EXCEPT !.st = st] \in SaverStates
  BY <1>2 DEF SaverStates
<1>4. Saver(e, st) => saver' = [saver EXCEPT ![e] = [saver[e] EXCEPT !.st = st]]
  BY DEF Saver
<1> DEFINE z == [saver[e] EXCEPT !.st = st]
<1> HIDE DEF z
<1>5. Saver(e, st) => saver' \in [Engines -> SaverStates]
  BY <1>1, <1>3, <1>4 DEF z
<1> QED BY <1>2, <1>5

LEMMA SaveInv ==
  ASSUME IInv, NEW e \in Engines, Save(e)
  PROVE  IInv'
<1>1. CASE SaveGql(e)
  <2>1. PICK st \in {"idle", "json"} : Saver(e, st)
    BY <1>1 DEF SaveGql
  <2>2. saver[e].st \in {"gql", "json"}
    BY <1>1 DEF SaveGql
  <2>3. saver[e].name \in Names /\ saver[e].text \in Texts /\ saver' \in [Engines -> SaverStates]
    BY <2>1, <2>2, SaverMoves
  <2>4. gql' \in [Names -> Texts \cup {None}]
    BY <1>1, <2>3 DEF SaveGql, FileText, IInv, Typed
  <2>5. Typed'
    BY <1>1, <2>3, <2>4 DEF SaveGql, IInv, Typed, reloads, caches
  <2> QED BY <1>1, <2>5, OtherStep DEF SaveGql, caches
<1>2. CASE SaveJson(e)
  <2>1. saver[e].st \in {"gql", "json"} /\ Saver(e, "idle")
    BY <1>2 DEF SaveJson
  <2>2. saver[e].name \in Names /\ saver[e].shape \in Shapes \cup {None}
        /\ saver' \in [Engines -> SaverStates]
    BY <2>1, SaverMoves
  <2>3. json' \in [Names -> Shapes \cup {None}]
    BY <1>2, <2>2 DEF SaveJson, IInv, Typed
  <2>4. Typed'
    BY <1>2, <2>2, <2>3 DEF SaveJson, IInv, Typed, reloads, caches
  <2> QED BY <1>2, <2>4, OtherStep DEF SaveJson, caches
<1>3. CASE SaveFails(e)
  <2>1. saver[e].st \in {"gql", "json"} /\ Saver(e, "idle")
    BY <1>3 DEF SaveFails, AfterFailure
  <2>2. saver[e].name \in Names /\ saver' \in [Engines -> SaverStates]
    BY <2>1, SaverMoves
  <2>3. last' \in [Names -> Texts \cup {None}]
    BY <1>3, <2>2 DEF SaveFails, IInv, Typed
  <2>4. Typed'
    BY <1>3, <2>2, <2>3 DEF SaveFails, IInv, Typed, reloads, caches
  <2> QED BY <1>3, <2>4, OtherStep DEF SaveFails, caches
<1> QED BY <1>1, <1>2, <1>3 DEF Save

LEMMA ReloadInv ==
  ASSUME IInv, Discover \/ Reload \/ ReloadFails
  PROVE  IInv'
<1>1. CASE Discover
  <2>1. Typed'
    BY <1>1 DEF Discover, IInv, Typed, caches, saving
  <2> QED BY <1>1, <2>1, OtherStep DEF Discover, caches
<1>2. CASE Reload
  <2>1. building \in Versions
    BY <1>2 DEF Reload, IInv, Typed
  <2>2. engine' = engine + 1 /\ schemaOf' = [schemaOf EXCEPT ![engine + 1] = building]
    BY <1>2 DEF Reload
  <2>3. engine + 1 \in Engines
    BY <1>2, EngineAssumption DEF Reload, IInv, Typed, Engines
  <2>4. Typed'
    BY <1>2, <2>1, <2>2, <2>3 DEF Reload, IInv, Typed, caches, saving
  <2> QED BY <1>2, <2>4, OtherStep DEF Reload, caches
<1>3. CASE ReloadFails
  <2>1. Typed'
    BY <1>3 DEF ReloadFails, IInv, Typed, caches, saving
  <2> QED BY <1>3, <2>1, OtherStep DEF ReloadFails, caches
<1> QED BY <1>1, <1>2, <1>3

LEMMA InitInv == Init => IInv
<1> SUFFICES ASSUME Init PROVE IInv
  OBVIOUS
<1>1. 1 \in Engines /\ 0 \in Versions
  BY EngineAssumption DEF Engines, Versions
<1>2. Typed
  BY <1>1, EngineAssumption DEF Init, Typed, SaverStates
<1>3. \A r \in Requests : req[r] = Idle
  BY DEF Init
<1>4. \A r \in Requests : Fits(req[r]) /\ Holds(req[r], r, queries)
  BY <1>3 DEF Fits, Holds, Idle
<1> QED BY <1>2, <1>4 DEF IInv

LEMMA NextInv == IInv /\ [Next]_vars => IInv'
<1> SUFFICES ASSUME IInv, [Next]_vars PROVE IInv'
  OBVIOUS
<1>1. ASSUME NEW r \in Requests, Request(r) PROVE IInv'
  BY <1>1, GetByNameInv, GetJsonInv, ConnectInv, CompileOwnInv, CompileOnceInv, CompileEndsInv,
     CompileWritesInv, UseCompiledInv, SetDefaultVarsInv, ExecuteWorksInv, ExecuteFailsInv,
     ExecuteTornInv, StartRemoteInv, ResolveInv, JoinedInv, AnswerInv, HandOverInv DEF Request
<1>2. ASSUME NEW r \in Requests, NEW c \in Calls, Begin(r, c) PROVE IInv'
  BY <1>2, BeginInv
<1>3. ASSUME NEW e \in Engines, Save(e) PROVE IInv'
  BY <1>3, SaveInv
<1>4. CASE Discover \/ Reload \/ ReloadFails
  BY <1>4, ReloadInv
<1>5. CASE UNCHANGED vars
  <2>1. Typed'
    BY <1>5 DEF vars, reloads, caches, saving, IInv, Typed
  <2> QED BY <1>5, <2>1, OtherStep DEF vars, caches
<1> QED BY <1>1, <1>2, <1>3, <1>4, <1>5 DEF Next

\* The inductive invariant of Engine.
THEOREM EngineInv == Spec => []IInv
<1> QED BY InitInv, NextInv, PTL DEF Spec

\* However requests, the goroutine of the allow list and reloads interleave, the
\* state keeps its types, and no statement is tried a fourth time.
THEOREM EngineTypes == Spec => []TypeOK
<1>1. IInv => TypeOK
  <2> SUFFICES ASSUME IInv PROVE TypeOK
    OBVIOUS
  <2>1. \A e \in Engines : saver[e].st \in {"gql", "json"} => saver[e] \in Saving
    <3> SUFFICES ASSUME NEW e \in Engines, saver[e].st \in {"gql", "json"}
                 PROVE  saver[e] \in Saving
      OBVIOUS
    <3>1. saver[e] \in SaverStates
      BY DEF IInv, Typed
    <3> QED BY <3>1 DEF SaverStates, NoItem, Saving
  <2>2. \A r \in Requests : req[r].st \in Steps \cup {"idle", "done"}
    BY DEF IInv, Fits, Idle, Ended, Running
  <2>3. \A r \in Begun : req[r].role \in Roles /\ req[r].tries \in 0..2
    BY AtStepRunning DEF Begun, IInv, Running
  <2> QED BY <2>1, <2>2, <2>3 DEF TypeOK, IInv, Typed
<1> QED BY <1>1, EngineInv, PTL

\* However the goroutines of remote fields end, an error of one of them is an
\* error of the request.
THEOREM ErrorsShow == Spec => []RemoteErrorsShow
<1>1. IInv => RemoteErrorsShow
  <2> SUFFICES ASSUME IInv, NEW r \in Begun, req[r].st \in {"answer", "save"}
               PROVE  req[r].failed = {}
    BY DEF RemoteErrorsShow
  <2>1. Reported(req[r])
    BY AtStepRunning DEF Begun, IInv
  <2> QED BY <2>1 DEF Reported
<1> QED BY <1>1, EngineInv, PTL

\* What a step of the request that compiles does to the entries of others and to
\* its own.
Kept(c, d) ==
  c # None => d # None /\ d.by = c.by /\ (c.st \in Statement => d = c)

LEMMA PutKeeps ==
  ASSUME IInv, NEW r \in Requests, CompileOnce(r) \/ CompileEnds(r) \/ CompileWrites(r),
         NEW e \in Engines, NEW k \in QueryKeys
  PROVE  Kept(queries[e][k], queries'[e][k])
<1>1. Fits(req[r]) /\ req[r].st \in {"compile", "once", "write"} /\ Holds(req[r], r, queries)
  BY DEF IInv, CompileOnce, CompileEnds, CompileWrites, Step
<1>2. req[r] \in Running
  BY <1>1, AtStepRunning DEF Steps
<1>3. req[r].eng \in Engines /\ Key(req[r].name, req[r].role) \in QueryKeys
  BY <1>2 DEF Running, QueryKeys
<1>4. PICK cs : Put(r, cs)
  BY DEF CompileOnce, CompileEnds, CompileWrites
<1>5. CASE e # req[r].eng \/ k # Key(req[r].name, req[r].role)
  <2>1. queries'[e][k] = queries[e][k]
    BY <1>3, <1>4, <1>5 DEF Put, MapOf, IInv, Typed
  <2> QED BY <2>1 DEF Kept
<1>6. CASE e = req[r].eng /\ k = Key(req[r].name, req[r].role)
  <2> DEFINE c == CState(r)
  <2>1. queries[e][k] = c
    BY <1>6 DEF CState, MapOf
  <2>2. c \in CompiledQuery \cup {None}
    BY <1>2, CStateTyped
  <2>3. CASE CompileOnce(r)
    BY <2>1, <2>3 DEF CompileOnce, Stores, Kept
  <2>4. CASE CompileEnds(r)
    <3>1. c # None /\ c.st = None
      BY <1>1, <2>4, EntryIsCState DEF Holds, CompileEnds, Step
    <3>2. \/ Put(r, [c EXCEPT !.st = Torn])
          \/ Put(r, [c EXCEPT !.err = TRUE])
      BY <2>4 DEF CompileEnds
    <3>3. /\ [c EXCEPT !.st = Torn] \in CompiledQuery /\ [c EXCEPT !.st = Torn].by = c.by
          /\ [c EXCEPT !.err = TRUE] \in CompiledQuery /\ [c EXCEPT !.err = TRUE].by = c.by
      BY <2>2, <3>1 DEF CompiledQuery
    <3>4. \E d \in CompiledQuery : Put(r, d) /\ d.by = c.by
      <4> HIDE DEF c
      <4> QED BY <3>2, <3>3
    <3>5. PICK d \in CompiledQuery : Put(r, d) /\ d.by = c.by
      BY <3>4
    <3>6. queries'[e][k] = d
      BY <1>2, <1>6, <3>5, PutEntry DEF EntryOf
    <3> QED BY <2>1, <3>1, <3>5, <3>6, NilAssumption DEF Kept
  <2>5. CASE CompileWrites(r)
    <3>1. c # None /\ c.st = Torn
      BY <1>1, <2>5, EntryIsCState DEF Holds, CompileWrites, Step
    <3>2. Put(r, [c EXCEPT !.st = Compiled(r)])
      BY <2>5 DEF CompileWrites
    <3>3. Compiled(r) \in Statement
      BY <1>1, <1>2, <2>5, AtStepRunning, CompiledIsStatement DEF Steps, CompileWrites, Step
    <3>4. [c EXCEPT !.st = Compiled(r)] \in CompiledQuery
          /\ [c EXCEPT !.st = Compiled(r)].by = c.by
      BY <2>2, <3>1, <3>3 DEF CompiledQuery
    <3>5. queries'[e][k] = [c EXCEPT !.st = Compiled(r)]
      BY <1>2, <1>6, <3>2, PutEntry DEF EntryOf
    <3> QED BY <2>1, <3>1, <3>4, <3>5, NilAssumption DEF Kept
  <2> QED BY <2>3, <2>4, <2>5
<1> QED BY <1>5, <1>6

LEMMA OnlyTheseWrite ==
  ASSUME [Next]_vars
  PROVE  \/ queries' = queries
         \/ \E r \in Requests : CompileOnce(r) \/ CompileEnds(r) \/ CompileWrites(r)
<1>1. ASSUME NEW r \in Requests, Request(r)
      PROVE  queries' = queries \/ CompileOnce(r) \/ CompileEnds(r) \/ CompileWrites(r)
  BY <1>1 DEF Request, GetByName, GetJson, Connect, RoleQuery, CompileOwn, UseCompiled,
       SetDefaultVars, ExecuteWorks, ExecuteFails, ExecuteTorn, StartRemote, NoRemoteId,
       Resolve, Joined, Answer,
       HandOver, caches
<1>2. ASSUME NEW r \in Requests, NEW c \in Calls, Begin(r, c) PROVE queries' = queries
  BY <1>2 DEF Begin, caches
<1>3. ASSUME NEW e \in Engines, Save(e) PROVE queries' = queries
  BY <1>3 DEF Save, SaveGql, SaveJson, SaveFails, caches
<1>4. CASE Discover \/ Reload \/ ReloadFails
  BY <1>4 DEF Discover, Reload, ReloadFails, caches
<1>5. CASE UNCHANGED vars
  BY <1>5 DEF vars, caches
<1> QED BY <1>1, <1>2, <1>3, <1>4, <1>5 DEF Next

\* Whoever stores the entry of a query first is the only one to write it, and a
\* compiled statement stays.
THEOREM WrittenByOne == Spec => CompiledOnce
<1> DEFINE Keeps == \A e \in Engines : \A k \in QueryKeys : Kept(queries[e][k], queries'[e][k])
<1>1. IInv /\ [Next]_vars => [Keeps]_vars
  <2> SUFFICES ASSUME IInv, [Next]_vars PROVE Keeps
    OBVIOUS
  <2>1. CASE queries' = queries
    BY <2>1 DEF Kept
  <2>2. CASE queries' # queries
    BY <2>2, OnlyTheseWrite, PutKeeps
  <2> QED BY <2>1, <2>2
<1>2. Keeps => \A e \in Engines : \A k \in QueryKeys :
        queries[e][k] # None =>
          /\ queries'[e][k] # None
          /\ queries'[e][k].by = queries[e][k].by
          /\ queries[e][k].st \in Statement => queries'[e][k] = queries[e][k]
  BY DEF Kept
<1> HIDE DEF Keeps
<1> QED BY <1>1, <1>2, EngineInv, PTL DEF Spec, CompiledOnce

-----------------------------------------------------------------------------
(* What is executed is the request's own: the compiled query that a key leads *)
(* to was compiled for the same name and role, from the files, for the schema *)
(* of the engine it belongs to. Two names and roles must not make one key.   *)

KeysApart ==
  \A n1, n2 \in Names : \A o1, o2 \in Roles :
    Key(n1, o1) = Key(n2, o2) => n1 = n2 /\ o1 = o2

IsOwn(s, q) ==
  /\ s \in Statement /\ s.text = q.text /\ s.role = q.role
  /\ s.schema = schemaOf[q.eng]
  /\ q.ashape # None => s.shape = q.ashape

\* With production security, text and shape are those of the files.
FromFiles(q) ==
  /\ q.st # "save"
  /\ q.st = "json" => q.text = gql[q.name]
  /\ q.st \notin {"allow", "json"} => q.text = gql[q.name] /\ q.ashape = json[q.name]

Right(q) ==
  q.st \in Steps =>
    /\ q.eng <= engine
    /\ prodSec => FromFiles(q)
    /\ ~prodSec /\ q.st \in {"defaults", "exec"} => IsOwn(q.own, q)

\* Nobody saves, and the cached items are those of the files.
Files ==
  prodSec =>
    /\ \A e \in Engines : saver[e].st = "idle"
    /\ \A e \in Engines, n \in Names :
         items[e][n] # None => items[e][n].text = gql[n] /\ items[e][n].shape = json[n]

EntryRight(c, e, n, o) ==
  c # None =>
    /\ e <= engine
    /\ prodSec /\ c.st \in Statement =>
         /\ c.st.text = gql[n] /\ c.st.role = o /\ c.st.schema = schemaOf[e]
         /\ json[n] # None => c.st.shape = json[n]

Entries ==
  \A e \in Engines, n \in Names, o \in Roles : EntryRight(queries[e][Key(n, o)], e, n, o)

LInv == (\A r \in Requests : Right(req[r])) /\ Files /\ Entries

LEMMA EndRight ==
  ASSUME NEW out
  PROVE  Right(End(out))
BY DEF Right, End, Steps

\* A step of a request that leaves the files and the engine alone.
LEMMA RightStep ==
  ASSUME IInv, LInv, NEW r \in Requests, NEW q, Go(r, q), Right(q),
         UNCHANGED <<mode, reloads, gql, json>>
  PROVE  \A x \in Requests : Right(req[x])'
<1>1. \A x \in Requests : req'[x] = IF x = r THEN q ELSE req[x]
  BY DEF IInv, Typed, Go
<1>2. UNCHANGED <<engine, schemaOf, prodSec>>
  BY DEF reloads, prodSec
<1> SUFFICES ASSUME NEW x \in Requests, req'[x].st \in Steps PROVE Right(req[x])'
  BY <1>2 DEF Right, Steps
<1>3. Right(req'[x])
  BY <1>1 DEF LInv
<1> QED BY <1>2, <1>3 DEF Right, FromFiles, IsOwn, Statement, Versions, Steps

LEMMA SameEntries ==
  ASSUME LInv, UNCHANGED <<mode, reloads, queries, gql, json>>
  PROVE  Entries'
<1>1. UNCHANGED <<engine, schemaOf, prodSec>>
  BY DEF reloads, prodSec
<1> SUFFICES ASSUME NEW e \in Engines, NEW n \in Names, NEW o \in Roles
             PROVE  EntryRight(queries[e][Key(n, o)], e, n, o)'
  BY DEF Entries, Engines, Names, Roles
<1>2. EntryRight(queries[e][Key(n, o)], e, n, o)
  BY DEF LInv, Entries
<1> QED BY <1>1, <1>2 DEF EntryRight, Statement, Versions

LEMMA SameFiles ==
  ASSUME LInv, UNCHANGED <<mode, items, gql, json, saver>>
  PROVE  Files'
BY DEF LInv, Files, prodSec, Engines, Names

LEMMA LocalRight ==
  ASSUME IInv, LInv, NEW r \in Requests, NEW q, Go(r, q), Right(q),
         UNCHANGED <<mode, reloads, caches, saving>>
  PROVE  LInv'
BY RightStep, SameEntries, SameFiles DEF LInv, caches, saving

\* A request that only moves on, after it has its text, is still right.
LEMMA MovesRight ==
  ASSUME IInv, LInv, NEW r \in Requests, NEW q, req[r].st \in Steps \ {"allow", "json"},
         q.st \in Steps \ {"allow", "json", "save"}, q.eng = req[r].eng, q.name = req[r].name,
         q.text = req[r].text, q.ashape = req[r].ashape,
         ~prodSec /\ q.st \in {"defaults", "exec"} =>
           /\ req[r].st \in {"defaults", "exec"}
           /\ q.role = req[r].role /\ q.own = req[r].own
  PROVE  Right(q)
<1>1. Right(req[r])
  BY DEF LInv
<1> QED BY <1>1 DEF Right, FromFiles, IsOwn

LEMMA BeginRight ==
  ASSUME IInv, LInv, NEW r \in Requests, NEW c \in Calls, Begin(r, c)
  PROVE  LInv'
<1>1. PICK q : Go(r, q) /\ (\/ q = End("error")
                          \/ /\ q.eng = engine
                             /\ q.st = IF LooksUp(c) THEN "allow" ELSE "connect")
  BY DEF Begin
<1>2. engine \in Nat
  BY EngineAssumption DEF IInv, Typed, Engines
<1>3. Right(q)
  BY <1>1, <1>2, EndRight DEF Right, FromFiles, LooksUp
<1> QED BY <1>1, <1>3, LocalRight DEF Begin

LEMMA GetByNameRight ==
  ASSUME IInv, LInv, NEW r \in Requests, GetByName(r)
  PROVE  LInv'
<1> DEFINE q == req[r]
           i == items[q.eng][q.name]
           t == gql[q.name]
<1>1. Fits(q) /\ q.st = "allow"
  BY DEF IInv, GetByName, Step
<1>2. q \in Running
  BY <1>1, AtStepRunning DEF Steps
<1>3. Right(q) /\ q.eng \in Engines /\ q.name \in Names
  BY <1>2 DEF LInv, Running
<1>4. CASE i # None /\ Go(r, SetItem(r, i.text, i.shape))
  <2> DEFINE p == SetItem(r, i.text, i.shape)
  <2>1. /\ p.st = "connect" /\ p.eng = q.eng /\ p.name = q.name
        /\ p.text = i.text /\ p.ashape = i.shape
    BY <1>2 DEF SetItem, At, Running
  <2>2. prodSec => i.text = gql[q.name] /\ i.shape = json[q.name]
    BY <1>3, <1>4 DEF LInv, Files
  <2> HIDE DEF p
  <2>3. Right(p)
    BY <1>1, <1>3, <2>1, <2>2 DEF Right, FromFiles, Steps
  <2> QED BY <1>4, <2>3, LocalRight DEF GetByName, p
<1>5. CASE Go(r, End("error"))
  BY <1>5, EndRight, LocalRight DEF GetByName
<1>6. CASE Go(r, [At(r, "json") EXCEPT !.text = t])
  <2> DEFINE p == [At(r, "json") EXCEPT !.text = t]
  <2>1. p.st = "json" /\ p.eng = q.eng /\ p.name = q.name /\ p.text = t
    BY <1>2 DEF At, Running
  <2> HIDE DEF p
  <2>2. Right(p)
    BY <1>1, <1>3, <2>1 DEF Right, FromFiles, Steps
  <2> QED BY <1>6, <2>2, LocalRight DEF GetByName, p
<1>7. \/ i # None /\ Go(r, SetItem(r, i.text, i.shape))
      \/ Go(r, End("error"))
      \/ Go(r, [At(r, "json") EXCEPT !.text = t])
  BY DEF GetByName
<1> HIDE DEF q, i, t
<1> QED BY <1>4, <1>5, <1>6, <1>7

LEMMA GetJsonRight ==
  ASSUME IInv, LInv, NEW r \in Requests, GetJson(r)
  PROVE  LInv'
<1> DEFINE q == req[r]
           s == json[q.name]
           i == [text |-> q.text, shape |-> s]
           p == SetItem(r, q.text, s)
<1>1. Fits(q) /\ q.st = "json"
  BY DEF IInv, GetJson, Step
<1>2. q \in Running
  BY <1>1, AtStepRunning DEF Steps
<1>3. Right(q) /\ q.eng \in Engines /\ q.name \in Names
  BY <1>2 DEF LInv, Running
<1>4. prodSec => q.text = gql[q.name]
  BY <1>1, <1>3 DEF Right, FromFiles, Steps
<1>5. /\ p.st = "connect" /\ p.eng = q.eng /\ p.name = q.name
      /\ p.text = q.text /\ p.ashape = s
  BY <1>2 DEF SetItem, At, Running
<1> HIDE DEF p
<1>6. Right(p)
  BY <1>1, <1>3, <1>4, <1>5 DEF Right, FromFiles, Steps
<1>7. Go(r, p) /\ UNCHANGED <<mode, reloads, queries, saving>>
  BY DEF GetJson, p
<1>8. items' = items \/ items' = [items EXCEPT ![q.eng][q.name] = i]
  BY DEF GetJson
<1>9. ASSUME prodSec, NEW e \in Engines, NEW n \in Names, items'[e][n] # None
      PROVE  items'[e][n].text = gql[n] /\ items'[e][n].shape = json[n]
  <2>1. items[e][n] # None => items[e][n].text = gql[n] /\ items[e][n].shape = json[n]
    BY <1>9 DEF LInv, Files
  <2>2. items \in [Engines -> [Names -> Item \cup {None}]]
    BY DEF IInv, Typed
  <2>3. items'[e][n] = items[e][n] \/ (n = q.name /\ items'[e][n] = i)
    <3> HIDE DEF q, i
    <3> QED BY <1>3, <1>8, <2>2
  <2> QED BY <1>4, <1>9, <2>1, <2>3
<1>10. Files'
  BY <1>7, <1>9 DEF LInv, Files, prodSec, saving, Engines, Names
<1> QED BY <1>6, <1>7, <1>10, RightStep, SameEntries DEF LInv, saving

LEMMA ConnectRight ==
  ASSUME IInv, LInv, NEW r \in Requests, Connect(r) \/ RoleQuery(r)
  PROVE  LInv'
<1> DEFINE q == req[r]
<1>1. Fits(q) /\ q.st \in {"connect", "role"}
  BY DEF IInv, Connect, RoleQuery, Step
<1>2. q \in Running
  BY <1>1, AtStepRunning DEF Steps
<1>3. CASE Go(r, End("error"))
  BY <1>3, EndRight, LocalRight DEF Connect, RoleQuery
<1>4. ASSUME NEW st \in {"role", "compile"}, NEW o \in Roles, Go(r, [At(r, st) EXCEPT !.role = o])
      PROVE  LInv'
  <2> DEFINE p == [At(r, st) EXCEPT !.role = o]
  <2>1. /\ p.st = st /\ p.eng = q.eng /\ p.name = q.name
        /\ p.text = q.text /\ p.ashape = q.ashape
    BY <1>2 DEF At, Running
  <2> HIDE DEF p
  <2>2. Right(p)
    BY <1>1, <2>1, MovesRight DEF Steps
  <2> QED BY <1>4, <2>2, LocalRight DEF Connect, RoleQuery, p
<1>5. \/ Go(r, End("error"))
      \/ \E st \in {"role", "compile"}, o \in Roles : Go(r, [At(r, st) EXCEPT !.role = o])
  BY DEF Connect, RoleQuery, Roles
<1> QED BY <1>3, <1>4, <1>5

\* The fields of what is compiled.
LEMMA CompiledFields ==
  ASSUME NEW r \in Requests
  PROVE  /\ Compiled(r).text = req[r].text /\ Compiled(r).role = req[r].role
         /\ Compiled(r).schema = schemaOf[req[r].eng]
         /\ req[r].ashape # None => Compiled(r).shape = req[r].ashape
BY DEF Compiled

LEMMA CompileOwnRight ==
  ASSUME IInv, LInv, NEW r \in Requests, CompileOwn(r)
  PROVE  LInv'
<1> DEFINE q == req[r]
           p == [At(r, "defaults") EXCEPT !.own = Compiled(r)]
<1>1. Fits(q) /\ q.st = "compile" /\ Right(q)
  BY DEF IInv, LInv, CompileOwn, Step
<1>2. q \in Running /\ q.text \in Texts
  BY <1>1, AtStepRunning DEF Steps
<1>3. /\ p.st = "defaults" /\ p.eng = q.eng /\ p.name = q.name /\ p.role = q.role
      /\ p.text = q.text /\ p.ashape = q.ashape /\ p.own = Compiled(r)
  BY <1>2 DEF At, Running
<1>4. Compiled(r) \in Statement
  BY <1>2, CompiledIsStatement
<1> HIDE DEF p
<1>5. IsOwn(p.own, p)
  BY <1>3, <1>4, CompiledFields DEF IsOwn
<1>6. Right(p)
  BY <1>1, <1>3, <1>5 DEF Right, Steps, CompileOwn
<1>7. Go(r, End("error")) \/ Go(r, p)
  BY DEF CompileOwn, p
<1> QED BY <1>6, <1>7, EndRight, LocalRight DEF CompileOwn

LEMMA UseCompiledRight ==
  ASSUME IInv, LInv, NEW r \in Requests, UseCompiled(r) \/ SetDefaultVars(r)
  PROVE  LInv'
<1> DEFINE q == req[r]
<1>1. Fits(q) /\ q.st \in {"compile", "defaults"} /\ (q.st = "compile" => prodSec)
  BY DEF IInv, UseCompiled, SetDefaultVars, Step
<1>2. q \in Running
  BY <1>1, AtStepRunning DEF Steps
<1>3. ASSUME NEW st \in {"defaults", "exec"} PROVE Right(At(r, st))
  <2> DEFINE p == At(r, st)
  <2>1. /\ p.st = st /\ p.eng = q.eng /\ p.name = q.name /\ p.role = q.role
        /\ p.text = q.text /\ p.ashape = q.ashape /\ p.own = q.own
    BY <1>2 DEF At, Running
  <2> HIDE DEF p
  <2>2. Right(p)
    BY <1>1, <2>1, MovesRight DEF Steps
  <2> QED BY <2>2 DEF p
<1>4. \/ \E out \in {"error", "panic"} : Go(r, End(out))
      \/ \E st \in {"defaults", "exec"} : Go(r, At(r, st))
  BY DEF UseCompiled, SetDefaultVars
<1> QED BY <1>3, <1>4, EndRight, LocalRight DEF UseCompiled, SetDefaultVars

\* What a request becomes while its statement is executed and its remote fields
\* are fetched.
Onward(r, z) ==
  \/ z = Executed(r)
  \/ z = [At(r, "answer") EXCEPT !.tries = 0]
  \/ z = [req[r] EXCEPT !.tries = @ + 1]
  \/ \E f : z = [req[r] EXCEPT !.todo = @ \ {f}, !.left = @ \cup {f}]
  \/ \E f : z = RemoteWorks(r, f) \/ z = RemoteFails(r, f)
  \/ z = At(r, "answer")

LEMMA ExecutedShape ==
  ASSUME IInv, NEW r \in Requests, NEW z, Onward(r, z), req[r].st \in {"exec", "remote"}
  PROVE  /\ z.st \in {"answer", "remote", req[r].st}
         /\ z.eng = req[r].eng /\ z.name = req[r].name /\ z.role = req[r].role
         /\ z.text = req[r].text /\ z.ashape = req[r].ashape /\ z.own = req[r].own
<1> DEFINE q == req[r]
<1>1. q \in Running
  BY AtStepRunning DEF IInv, Steps
<1>2. CASE z = Executed(r)
  BY <1>1, <1>2 DEF Executed, At, Running
<1>3. CASE z = At(r, "answer") \/ z = [At(r, "answer") EXCEPT !.tries = 0]
  BY <1>1, <1>3 DEF At, Running
<1>4. CASE z = [q EXCEPT !.tries = @ + 1]
  <2> DEFINE tried == q.tries + 1
  <2>1. z = [q EXCEPT !.tries = tried]
    BY <1>4
  <2> HIDE DEF tried
  <2> QED BY <1>1, <2>1 DEF Running
<1>6. CASE \E f : z = [q EXCEPT !.todo = @ \ {f}, !.left = @ \cup {f}]
  BY <1>1, <1>6 DEF Running
<1>5. CASE \E f : z = RemoteWorks(r, f) \/ z = RemoteFails(r, f)
  BY <1>1, <1>5 DEF RemoteWorks, RemoteFails, Running
<1> QED BY <1>2, <1>3, <1>4, <1>5, <1>6 DEF Onward

LEMMA ExecuteRight ==
  ASSUME IInv, LInv, NEW r \in Requests,
         \/ ExecuteWorks(r) \/ ExecuteFails(r) \/ ExecuteTorn(r) \/ StartRemote(r) \/ NoRemoteId(r)
         \/ Resolve(r) \/ Joined(r)
  PROVE  LInv'
<1>1. req[r].st \in {"exec", "remote"}
  BY DEF ExecuteWorks, ExecuteFails, ExecuteTorn, StartRemote, NoRemoteId, Resolve, Joined, Step
<1>2. PICK z : Go(r, z) /\ (z = End("error") \/ Onward(r, z))
  BY DEF ExecuteWorks, ExecuteFails, ExecuteTorn, StartRemote, NoRemoteId, Resolve, Joined,
     Retry, Onward
<1>3. CASE z = End("error")
  BY <1>2, <1>3, EndRight, LocalRight DEF ExecuteWorks, ExecuteFails, ExecuteTorn, StartRemote,
     NoRemoteId, Resolve, Joined
<1>4. CASE z # End("error")
  <2>1. /\ z.st \in {"answer", "remote", req[r].st}
        /\ z.eng = req[r].eng /\ z.name = req[r].name /\ z.role = req[r].role
        /\ z.text = req[r].text /\ z.ashape = req[r].ashape /\ z.own = req[r].own
    BY <1>1, <1>2, <1>4, ExecutedShape
  <2>2. Right(z)
    BY <1>1, <2>1, MovesRight DEF Steps
  <2> QED BY <1>2, <2>2, LocalRight DEF ExecuteWorks, ExecuteFails, ExecuteTorn, StartRemote,
             NoRemoteId, Resolve, Joined
<1> QED BY <1>3, <1>4

LEMMA AnswerRight ==
  ASSUME IInv, LInv, NEW r \in Requests, Answer(r)
  PROVE  LInv'
<1> DEFINE q == req[r]
<1>1. Fits(q) /\ q.st = "answer" /\ Right(q)
  BY DEF IInv, LInv, Answer, Step
<1>2. q \in Running
  BY <1>1, AtStepRunning DEF Steps
<1>3. At(r, "save").st = "save" /\ At(r, "save").eng = q.eng
  BY <1>2 DEF At, Running
<1>4. prodSec => prod
  BY DEF prodSec, prod
<1>5. ~prodSec => Right(At(r, "save"))
  BY <1>1, <1>3 DEF Right, Steps
<1>6. PICK z : Go(r, z) /\ Right(z)
  BY <1>4, <1>5, EndRight DEF Answer
<1>7. UNCHANGED <<mode, reloads, queries, items, gql, json, saver>>
  BY DEF Answer, saving
<1> QED BY <1>6, <1>7, RightStep, SameEntries, SameFiles DEF LInv

LEMMA HandOverRight ==
  ASSUME IInv, LInv, NEW r \in Requests, HandOver(r)
  PROVE  LInv'
<1>1. req[r].st = "save" /\ Right(req[r])
  BY DEF LInv, HandOver, Step
<1>2. ~prodSec
  BY <1>1 DEF Right, FromFiles, Steps
<1>3. Go(r, End("ok")) /\ UNCHANGED <<mode, reloads, queries, gql, json>>
  BY DEF HandOver, caches
<1>4. Files'
  BY <1>2, <1>3 DEF Files, prodSec
<1> QED BY <1>3, <1>4, EndRight, RightStep, SameEntries DEF LInv

-----------------------------------------------------------------------------
\* The entry of a request, and no other, is written; what is written is right.
LEMMA PutRight ==
  ASSUME KeysApart, IInv, LInv, NEW r \in Requests, NEW q, NEW cs, req[r] \in Running,
         Put(r, cs), Go(r, q), Right(q), cs # None,
         \/ cs.st \notin Statement
         \/ EntryRight(cs, req[r].eng, req[r].name, req[r].role),
         UNCHANGED <<mode, reloads, items, pq, saving>>
  PROVE  LInv'
<1>1. /\ req[r].eng \in Engines /\ req[r].name \in Names /\ req[r].role \in Roles
      /\ req[r].eng <= engine
  BY DEF Running, LInv, Right
<1>2. queries' = [queries EXCEPT ![req[r].eng][Key(req[r].name, req[r].role)] = cs]
  BY DEF Put, MapOf
<1>3. UNCHANGED <<engine, schemaOf, prodSec, gql, json>>
  BY DEF reloads, prodSec, saving
<1>4. Entries'
  <2> SUFFICES ASSUME NEW e \in Engines, NEW n \in Names, NEW o \in Roles
               PROVE  EntryRight(queries[e][Key(n, o)], e, n, o)'
    BY DEF Entries, Engines, Names, Roles
  <2>1. EntryRight(queries[e][Key(n, o)], e, n, o)
    BY DEF LInv, Entries
  <2>2. Key(n, o) \in QueryKeys /\ Key(req[r].name, req[r].role) \in QueryKeys
    BY <1>1 DEF QueryKeys
  <2>3. CASE e = req[r].eng /\ n = req[r].name /\ o = req[r].role
    <3>1. queries'[e][Key(n, o)] = cs
      BY <1>1, <1>2, <2>2, <2>3 DEF IInv, Typed
    <3>2. EntryRight(cs, e, n, o)
      BY <1>1, <2>3 DEF EntryRight
    <3> QED BY <1>3, <3>1, <3>2 DEF EntryRight, Statement, Versions
  <2>4. CASE ~(e = req[r].eng /\ n = req[r].name /\ o = req[r].role)
    <3>1. e # req[r].eng \/ Key(n, o) # Key(req[r].name, req[r].role)
      BY <1>1, <2>4 DEF KeysApart
    <3>2. queries'[e][Key(n, o)] = queries[e][Key(n, o)]
      BY <1>1, <1>2, <2>2, <3>1 DEF IInv, Typed
    <3> QED BY <1>3, <2>1, <3>2 DEF EntryRight, Statement, Versions
  <2> QED BY <2>3, <2>4
<1> QED BY <1>4, RightStep, SameFiles DEF LInv, saving

LEMMA CompileRight ==
  ASSUME KeysApart, IInv, LInv, NEW r \in Requests,
         CompileOnce(r) \/ CompileEnds(r) \/ CompileWrites(r)
  PROVE  LInv'
<1> DEFINE q == req[r]
           c == CState(r)
<1>1. /\ Fits(q) /\ q.st \in {"compile", "once", "write"} /\ Holds(q, r, queries)
      /\ Right(q) /\ prodSec
  BY DEF IInv, LInv, CompileOnce, CompileEnds, CompileWrites, Step, Holds
<1>2. q \in Running /\ q.text \in Texts
  BY <1>1, AtStepRunning DEF Steps
<1>3. ASSUME NEW st \in {"once", "write", "defaults"} PROVE Right(At(r, st))
  <2> DEFINE p == At(r, st)
  <2>1. /\ p.st = st /\ p.eng = q.eng /\ p.name = q.name /\ p.role = q.role
        /\ p.text = q.text /\ p.ashape = q.ashape
    BY <1>2 DEF At, Running
  <2> HIDE DEF p
  <2>2. Right(p)
    BY <1>1, <2>1, MovesRight DEF Steps
  <2> QED BY <2>2 DEF p
<1>4. c \in CompiledQuery \cup {None}
  BY <1>2, CStateTyped
<1>5. UNCHANGED <<mode, reloads, items, pq, saving>>
  BY DEF CompileOnce, CompileEnds, CompileWrites
<1>6. CASE CompileOnce(r)
  <2> DEFINE cs == [by |-> r, st |-> None, err |-> FALSE]
  <2>1. cs \in CompiledQuery
    BY DEF CompiledQuery
  <2>2. cs.st \notin Statement /\ cs # None
    BY <2>1, NilAssumption
  <2>3. Put(r, cs) /\ Go(r, At(r, "once"))
    BY <1>6 DEF CompileOnce
  <2> HIDE DEF cs
  <2> QED BY <1>2, <1>3, <1>5, <2>2, <2>3, PutRight
<1>7. CASE CompileEnds(r)
  <2>1. c # None /\ c.st = None
    BY <1>1, <1>7, EntryIsCState DEF Holds, CompileEnds, Step
  <2>2. \/ Put(r, [c EXCEPT !.st = Torn]) /\ Go(r, At(r, "write"))
        \/ Put(r, [c EXCEPT !.err = TRUE]) /\ Go(r, End("error"))
    BY <1>7 DEF CompileEnds
  <2>3. /\ [c EXCEPT !.st = Torn] \in CompiledQuery /\ [c EXCEPT !.st = Torn].st = Torn
        /\ [c EXCEPT !.err = TRUE] \in CompiledQuery /\ [c EXCEPT !.err = TRUE].st = None
    BY <1>4, <2>1 DEF CompiledQuery
  <2>4. \E d, z : /\ d \in CompiledQuery /\ Put(r, d) /\ Go(r, z)
                 /\ d.st \in {None, Torn} /\ Right(z)
    <3> HIDE DEF c
    <3> QED BY <1>3, <2>2, <2>3, EndRight
  <2>5. PICK d, z : /\ d \in CompiledQuery /\ Put(r, d) /\ Go(r, z)
                    /\ d.st \in {None, Torn} /\ Right(z)
    BY <2>4
  <2> QED BY <1>2, <1>5, <2>5, NilAssumption, PutRight
<1>8. CASE CompileWrites(r)
  <2> DEFINE cs == [c EXCEPT !.st = Compiled(r)]
  <2>1. c # None /\ q.st = "write"
    BY <1>1, <1>8, EntryIsCState DEF Holds, CompileWrites, Step
  <2>2. Compiled(r) \in Statement
    BY <1>2, CompiledIsStatement
  <2>3. cs \in CompiledQuery /\ cs.st = Compiled(r)
    BY <1>4, <2>1, <2>2 DEF CompiledQuery
  <2>4. Put(r, cs) /\ Go(r, At(r, "defaults"))
    BY <1>8 DEF CompileWrites
  <2> HIDE DEF cs
  <2>5. q.eng <= engine /\ q.text = gql[q.name] /\ q.ashape = json[q.name]
    BY <1>1, <2>1 DEF Right, FromFiles, Steps
  <2>6. EntryRight(cs, q.eng, q.name, q.role)
    BY <2>3, <2>5, CompiledFields DEF EntryRight
  <2>7. cs # None
    BY <2>3, NilAssumption
  <2> QED BY <1>2, <1>3, <1>5, <2>4, <2>6, <2>7, PutRight
<1> QED BY <1>6, <1>7, <1>8

LEMMA SaveRight ==
  ASSUME IInv, LInv, NEW e \in Engines, Save(e)
  PROVE  LInv'
<1>1. saver[e].st \in {"gql", "json"}
  BY DEF Save, SaveGql, SaveJson, SaveFails
<1>2. ~prodSec
  BY <1>1 DEF LInv, Files
<1>3. UNCHANGED <<mode, engine, schemaOf, queries, req>>
  BY DEF Save, SaveGql, SaveJson, SaveFails, reloads, caches
<1>4. ~prodSec'
  BY <1>2, <1>3 DEF prodSec
<1>5. \A r \in Requests : Right(req[r])'
  <2> SUFFICES ASSUME NEW r \in Requests PROVE Right(req[r])'
    OBVIOUS
  <2>1. Right(req[r])
    BY DEF LInv
  <2> QED BY <1>2, <1>3, <1>4, <2>1 DEF Right, IsOwn, Statement, Versions, Steps
<1>6. Entries'
  <2> SUFFICES ASSUME NEW d \in Engines, NEW n \in Names, NEW o \in Roles
               PROVE  EntryRight(queries[d][Key(n, o)], d, n, o)'
    BY DEF Entries, Engines, Names, Roles
  <2>1. EntryRight(queries[d][Key(n, o)], d, n, o)
    BY DEF LInv, Entries
  <2> QED BY <1>3, <1>4, <2>1 DEF EntryRight
<1>7. Files'
  BY <1>4 DEF Files
<1> QED BY <1>5, <1>6, <1>7 DEF LInv

\* A new engine has no request and no compiled query yet.
LEMMA ReloadRight ==
  ASSUME IInv, LInv, Discover \/ Reload \/ ReloadFails
  PROVE  LInv'
<1>1. UNCHANGED <<mode, items, queries, gql, json, saver, req>>
  BY DEF Discover, Reload, ReloadFails, caches, saving
<1>2. engine \in Nat /\ engine' \in Nat /\ engine <= engine'
  BY EngineAssumption DEF Discover, Reload, ReloadFails, IInv, Typed, Engines
<1>3. ASSUME NEW e \in Engines, e <= engine PROVE schemaOf'[e] = schemaOf[e]
  <2>1. e # engine + 1
    BY <1>2, <1>3 DEF Engines
  <2> QED BY <2>1 DEF Discover, Reload, ReloadFails, IInv, Typed
<1>4. prodSec' = prodSec
  BY <1>1 DEF prodSec
<1>5. \A r \in Requests : Right(req[r])'
  <2> SUFFICES ASSUME NEW r \in Requests, req[r].st \in Steps PROVE Right(req[r])'
    BY <1>1 DEF Right, Steps
  <2>1. Right(req[r]) /\ Fits(req[r])
    BY DEF LInv, IInv
  <2>2. req[r].eng \in Engines
    BY <2>1, AtStepRunning DEF Running
  <2>3. req[r].eng <= engine /\ req[r].eng <= engine'
    BY <1>2, <2>1, <2>2 DEF Right, Engines
  <2>4. schemaOf'[req[r].eng] = schemaOf[req[r].eng]
    BY <1>3, <2>2, <2>3
  <2> QED BY <1>1, <1>4, <2>1, <2>3, <2>4 DEF Right, FromFiles, IsOwn, Statement, Versions, Steps
<1>6. Entries'
  <2> SUFFICES ASSUME NEW e \in Engines, NEW n \in Names, NEW o \in Roles
               PROVE  EntryRight(queries[e][Key(n, o)], e, n, o)'
    BY DEF Entries, Engines, Names, Roles
  <2>1. EntryRight(queries[e][Key(n, o)], e, n, o)
    BY DEF LInv, Entries
  <2>2. e <= engine => e <= engine' /\ schemaOf'[e] = schemaOf[e]
    BY <1>2, <1>3 DEF Engines
  <2> QED BY <1>1, <1>4, <2>1, <2>2 DEF EntryRight, Statement, Versions
<1> QED BY <1>1, <1>5, <1>6, SameFiles DEF LInv

LEMMA InitRight == Init => LInv
<1> SUFFICES ASSUME Init PROVE LInv
  OBVIOUS
<1>1. \A r \in Requests : Right(req[r])
  BY DEF Init, Right, Idle, Steps
<1>2. Files
  BY DEF Init, Files, NoItem
<1>3. Entries
  <2> SUFFICES ASSUME NEW e \in Engines, NEW n \in Names, NEW o \in Roles
               PROVE  EntryRight(queries[e][Key(n, o)], e, n, o)
    BY DEF Entries
  <2>1. Key(n, o) \in QueryKeys
    BY DEF QueryKeys
  <2> QED BY <2>1 DEF Init, EntryRight
<1> QED BY <1>1, <1>2, <1>3 DEF LInv

LEMMA NextRight == KeysApart /\ IInv /\ LInv /\ [Next]_vars => LInv'
<1> SUFFICES ASSUME KeysApart, IInv, LInv, [Next]_vars PROVE LInv'
  OBVIOUS
<1>1. ASSUME NEW r \in Requests, Request(r) PROVE LInv'
  BY <1>1, GetByNameRight, GetJsonRight, ConnectRight, CompileOwnRight, CompileRight,
     UseCompiledRight, ExecuteRight, AnswerRight, HandOverRight DEF Request
<1>2. ASSUME NEW r \in Requests, NEW c \in Calls, Begin(r, c) PROVE LInv'
  BY <1>2, BeginRight
<1>3. ASSUME NEW e \in Engines, Save(e) PROVE LInv'
  BY <1>3, SaveRight
<1>4. CASE Discover \/ Reload \/ ReloadFails
  BY <1>4, ReloadRight
<1>5. CASE UNCHANGED vars
  <2>1. UNCHANGED <<mode, engine, schemaOf, prodSec, queries, items, gql, json, saver, req>>
    BY <1>5 DEF vars, reloads, caches, saving, prodSec
  <2>2. \A r \in Requests : Right(req[r])'
    <3> SUFFICES ASSUME NEW r \in Requests PROVE Right(req[r])'
      OBVIOUS
    <3>1. Right(req[r])
      BY DEF LInv
    <3> QED BY <2>1, <3>1 DEF Right, FromFiles, IsOwn, Statement, Versions, Steps
  <2> QED BY <1>5, <2>1, <2>2, SameEntries, SameFiles DEF LInv, vars, caches
<1> QED BY <1>1, <1>2, <1>3, <1>4, <1>5 DEF Next

\* With production security what is executed is in the allow list, and every
\* request executes what was compiled for its own query, role, schema and shape:
\* for names and roles that do not make the same key one after the other.
THEOREM RunsItsOwn ==
  ASSUME KeysApart
  PROVE  Spec => [](AllowListed /\ OwnStatement)
<1>1. Init => LInv
  BY InitRight
<1>2. IInv /\ LInv /\ [Next]_vars => LInv'
  BY NextRight
<1>3. LInv => AllowListed
  BY DEF LInv, Right, FromFiles, AllowListed, Step, Steps
<1>4. IInv /\ LInv => OwnStatement
  <2> SUFFICES ASSUME IInv, LInv, NEW r \in Requests, req[r].st = "exec", StatementOf(r) # Torn
               PROVE  IsOwn(StatementOf(r), req[r])
    BY DEF OwnStatement, Step, IsOwn
  <2> DEFINE q == req[r]
  <2>1. Right(q) /\ Holds(q, r, queries) /\ q \in Running
    BY AtStepRunning DEF LInv, IInv, Steps
  <2>2. CASE ~prodSec
    BY <2>1, <2>2 DEF Right, Steps, StatementOf
  <2>3. CASE prodSec
    <3> DEFINE c == CState(r)
    <3>1. c # None /\ c.st # None /\ c.st # Torn
      BY <2>1, <2>3, EntryIsCState DEF Holds, StatementOf
    <3>2. c \in CompiledQuery
      BY <2>1, <3>1, CStateTyped
    <3>3. c.st \in Statement
      BY <3>1, <3>2 DEF CompiledQuery
    <3>4. EntryRight(c, q.eng, q.name, q.role)
      BY <2>1 DEF LInv, Entries, CState, MapOf, Running
    <3>5. q.text = gql[q.name] /\ q.ashape = json[q.name]
      BY <2>1, <2>3 DEF Right, FromFiles, Steps
    <3> QED BY <2>3, <3>1, <3>3, <3>4, <3>5 DEF EntryRight, IsOwn, StatementOf
  <2> QED BY <2>2, <2>3
<1> QED BY <1>1, <1>2, <1>3, <1>4, EngineInv, PTL DEF Spec

-----------------------------------------------------------------------------
(* The allow list.                                                          *)

ListedRequest(q) ==
  q.st \in Steps => /\ q.st # "save"
                    /\ q.st # "allow" => q.text = gql[q.name]

Listed ==
  prodSec =>
    /\ \A e \in Engines : saver[e].st = "idle"
    /\ \A e \in Engines, n \in Names : items[e][n] # None => items[e][n].text = gql[n]
    /\ \A r \in Requests : ListedRequest(req[r])

Current == \A r \in Requests : req[r].st \in Steps => req[r].eng \in 1..engine

Pending(n) == saver[1].st = "gql" /\ saver[1].name = n

Ordered ==
  engine = 1 =>
    /\ \A e \in Engines \ {1} : saver[e].st = "idle"
    /\ \A n \in Names : last[n] # None /\ ~Pending(n) => gql[n] = last[n]
    /\ saver[1].st = "gql" => last[saver[1].name] = saver[1].text

AllowInv == Listed /\ Current /\ Ordered

-----------------------------------------------------------------------------
\* What a step may make of a request that goes on: it keeps its engine and its name,
\* and once it has its text that too; it saves in development only.
GoesOn(q, z) ==
  /\ z.st \in Steps \ {"allow"} /\ z.eng = q.eng /\ z.name = q.name
  /\ q.st # "allow" => z.text = q.text
  /\ z.st = "save" => ~prodSec

Moved(r) == \E z : Go(r, z) /\ (z.st = "done" \/ GoesOn(req[r], z))

LEMMA OnlyGoesOn ==
  ASSUME IInv, NEW r \in Requests, req[r].st \in Steps, NEW st \in Steps \ {"allow"},
         st = "save" => ~prodSec
  PROVE  GoesOn(req[r], At(r, st))
<1>1. req[r] \in Running
  BY AtStepRunning DEF IInv
<1> QED  BY <1>1 DEF At, Running, GoesOn

LEMMA EndIsDone == \A out : End(out).st = "done"
BY DEF End

LEMMA LooksUpMoves ==
  ASSUME IInv, NEW r \in Requests, GetByName(r) \/ GetJson(r)
  PROVE  Moved(r)
<1>1. req[r] \in Running
  BY AtStepRunning DEF IInv, GetByName, GetJson, Step, Steps
<1>2. \A t, s : /\ SetItem(r, t, s).st = "connect" /\ SetItem(r, t, s).eng = req[r].eng
                /\ SetItem(r, t, s).name = req[r].name /\ SetItem(r, t, s).text = t
  BY <1>1 DEF SetItem, At, Running
<1>3. \A t, z : z = [At(r, "json") EXCEPT !.text = t] =>
        z.st = "json" /\ z.eng = req[r].eng /\ z.name = req[r].name
  BY <1>1 DEF At, Running
<1>4. CASE GetByName(r)
  <2>1. req[r].st = "allow"
    BY <1>4 DEF GetByName, Step
  <2>2. PICK z : Go(r, z) /\ (\/ z = End("error") \/ \E t, s : z = SetItem(r, t, s)
                             \/ \E t : z = [At(r, "json") EXCEPT !.text = t])
    BY <1>4 DEF GetByName
  <2>3. z = End("error") => z.st = "done"
    BY EndIsDone
  <2>4. (\E t, s : z = SetItem(r, t, s)) => GoesOn(req[r], z)
    BY <1>2, <2>1 DEF GoesOn, Steps
  <2>5. (\E t : z = [At(r, "json") EXCEPT !.text = t]) => GoesOn(req[r], z)
    <3>1. ASSUME NEW t, z = [At(r, "json") EXCEPT !.text = t]
          PROVE  z.st = "json" /\ z.eng = req[r].eng /\ z.name = req[r].name
      BY <1>3, <3>1, Zenon
    <3> QED  BY <2>1, <3>1 DEF GoesOn, Steps
  <2> QED  BY <2>2, <2>3, <2>4, <2>5 DEF Moved
<1>5. CASE GetJson(r)
  <2>1. Go(r, SetItem(r, req[r].text, json[req[r].name]))
    BY <1>5 DEF GetJson
  <2> QED  BY <1>2, <2>1 DEF Moved, GoesOn, Steps
<1> QED  BY <1>4, <1>5

LEMMA CompileMoves ==
  ASSUME IInv, NEW r \in Requests,
         \/ Connect(r) \/ RoleQuery(r) \/ CompileOwn(r) \/ CompileOnce(r) \/ CompileEnds(r)
         \/ CompileWrites(r) \/ UseCompiled(r) \/ SetDefaultVars(r)
  PROVE  Moved(r)
<1>1. req[r].st \in Steps /\ req[r].st # "allow"
  BY DEF Connect, RoleQuery, CompileOwn, CompileOnce, CompileEnds, CompileWrites, UseCompiled,
         SetDefaultVars, Step, Steps
<1>2. req[r] \in Running
  BY <1>1, AtStepRunning DEF IInv
<1>3. \A st \in {"once", "write", "defaults", "exec"} : GoesOn(req[r], At(r, st))
  BY <1>1, OnlyGoesOn DEF Steps
<1>4. \A st \in {"role", "compile"} : \A o : GoesOn(req[r], [At(r, st) EXCEPT !.role = o])
  BY <1>2 DEF At, Running, GoesOn, Steps
<1>5. \A s : GoesOn(req[r], [At(r, "defaults") EXCEPT !.own = s])
  BY <1>2 DEF At, Running, GoesOn, Steps
<1>6. CASE Connect(r) \/ RoleQuery(r)
  BY <1>4, <1>6, EndIsDone DEF Connect, RoleQuery, Moved
<1>7. CASE CompileOwn(r)
  BY <1>5, <1>7, EndIsDone DEF CompileOwn, Moved
<1>8. CASE CompileOnce(r) \/ CompileEnds(r) \/ CompileWrites(r)
  BY <1>3, <1>8, EndIsDone DEF CompileOnce, CompileEnds, CompileWrites, Moved
<1>9. CASE UseCompiled(r) \/ SetDefaultVars(r)
  BY <1>3, <1>9, EndIsDone DEF UseCompiled, SetDefaultVars, Moved
<1> QED  BY <1>6, <1>7, <1>8, <1>9

LEMMA ExecuteMoves ==
  ASSUME IInv, NEW r \in Requests,
         \/ ExecuteWorks(r) \/ ExecuteFails(r) \/ ExecuteTorn(r) \/ StartRemote(r) \/ NoRemoteId(r)
         \/ Resolve(r) \/ Joined(r)
         \/ Answer(r) \/ HandOver(r)
  PROVE  Moved(r)
<1>1. CASE ExecuteWorks(r) \/ ExecuteFails(r) \/ ExecuteTorn(r) \/ StartRemote(r) \/ NoRemoteId(r)
         \/ Resolve(r) \/ Joined(r)
  <2>1. req[r].st \in {"exec", "remote"}
    BY <1>1 DEF ExecuteWorks, ExecuteFails, ExecuteTorn, StartRemote, NoRemoteId, Resolve,
       Joined, Step
  <2>2. PICK z : Go(r, z) /\ (z = End("error") \/ Onward(r, z))
    BY <1>1 DEF ExecuteWorks, ExecuteFails, ExecuteTorn, StartRemote, NoRemoteId, Resolve,
       Joined, Retry, Onward
  <2>3. Onward(r, z) => GoesOn(req[r], z)
    BY <2>1, ExecutedShape DEF GoesOn, Steps
  <2> QED  BY <2>2, <2>3, EndIsDone DEF Moved
<1>2. CASE Answer(r)
  <2>1. req[r].st = "answer" /\ (~prod => ~prodSec)
    BY <1>2 DEF Answer, Step, prod, prodSec
  <2>2. ~prod => GoesOn(req[r], At(r, "save"))
    BY <2>1, OnlyGoesOn DEF Steps
  <2> QED  BY <1>2, <2>2, EndIsDone DEF Answer, Moved
<1>3. CASE HandOver(r)
  BY <1>3, EndIsDone DEF HandOver, Moved
<1> QED  BY <1>1, <1>2, <1>3

LEMMA RequestMoves ==
  ASSUME IInv, NEW r \in Requests, Request(r)
  PROVE  Moved(r) /\ UNCHANGED <<mode, reloads, gql, json>> /\ req[r].st \in Steps
<1>1. Moved(r)
  BY LooksUpMoves, CompileMoves, ExecuteMoves DEF Request
<1>2. UNCHANGED <<mode, reloads, gql, json>> /\ req[r].st \in Steps
  BY DEF Request, GetByName, GetJson, Connect, RoleQuery, CompileOwn, CompileOnce, CompileEnds,
         CompileWrites, UseCompiled, SetDefaultVars, ExecuteWorks, ExecuteFails, ExecuteTorn,
         StartRemote, NoRemoteId, Resolve, Joined, Answer, HandOver, saving, Step, Steps
<1> QED  BY <1>1, <1>2

-----------------------------------------------------------------------------
(* The invariant. *)

LEMMA BeginMoves ==
  ASSUME NEW r \in Requests, NEW c \in Calls, Begin(r, c)
  PROVE  \E z : Go(r, z) /\ (\/ z.st = "done"
                            \/ /\ z.eng = engine /\ z.st \in {"allow", "connect"}
                               /\ prodSec => z.st = "allow")
BY EndIsDone DEF Begin, LooksUp

\* A cached item has the text of its file.
LEMMA ItemsListed ==
  ASSUME IInv, Listed, prodSec, NEW r \in Requests, Request(r),
         NEW e \in Engines, NEW n \in Names, items'[e][n] # None
  PROVE  items'[e][n].text = gql[n]
<1>1. CASE items' = items
  BY <1>1 DEF Listed
<1>2. CASE GetJson(r)
  <2> PICK q : q = req[r]
    OBVIOUS
  <2>1. q.st = "json" /\ q.text = gql[q.name]
    BY <1>2 DEF GetJson, Step, Listed, ListedRequest, Steps
  <2>2. items' = items \/ \E s : items' = [items EXCEPT ![q.eng][q.name] = [text |-> q.text, shape |-> s]]
    BY <1>2 DEF GetJson
  <2>3. items'[e][n] = items[e][n] \/ (n = q.name /\ items'[e][n].text = q.text)
    <3>1. CASE items' = items
      BY <3>1
    <3>2. ASSUME NEW s, items' = [items EXCEPT ![q.eng][q.name] = [text |-> q.text, shape |-> s]]
          PROVE  items'[e][n] = items[e][n] \/ (n = q.name /\ items'[e][n].text = q.text)
      <4> PICK i : i = [text |-> q.text, shape |-> s]
        OBVIOUS
      <4>1. i.text = q.text /\ items' = [items EXCEPT ![q.eng][q.name] = i]
        BY <3>2
      <4>2. items \in [Engines -> [Names -> Item \cup {None}]]
        BY DEF IInv, Typed
      <4>3. items'[e] = IF e = q.eng THEN [items[e] EXCEPT ![q.name] = i] ELSE items[e]
        BY <4>1, <4>2
      <4> QED  BY <4>1, <4>2, <4>3
    <3> QED  BY <2>2, <3>1, <3>2
  <2> QED  BY <2>1, <2>3 DEF Listed
<1>3. CASE ~GetJson(r)
  <2>1. items' = items
    BY <1>3 DEF Request, GetByName, Connect, RoleQuery, CompileOwn, CompileOnce, CompileEnds,
       CompileWrites, UseCompiled, SetDefaultVars, ExecuteWorks, ExecuteFails, ExecuteTorn,
       StartRemote, NoRemoteId, Resolve, Joined, Answer, HandOver, caches
  <2> QED  BY <1>1, <2>1
<1> QED  BY <1>2, <1>3

\* What the allow list returned is the text of the file.
LEMMA TextListed ==
  ASSUME IInv, Listed, prodSec, NEW r \in Requests, Request(r)
  PROVE  \E z : Go(r, z) /\ ListedRequest(z)
<1>1. PICK z : Go(r, z) /\ (z.st = "done" \/ GoesOn(req[r], z))
  BY RequestMoves DEF Moved
<1>2. CASE z.st = "done"
  BY <1>1, <1>2 DEF ListedRequest, Steps
<1>3. CASE GoesOn(req[r], z) /\ req[r].st # "allow"
  <2>1. req[r].text = gql[req[r].name]
    BY <1>3, RequestMoves DEF Listed, ListedRequest
  <2> QED  BY <1>1, <1>3, <2>1 DEF GoesOn, ListedRequest
<1>4. CASE GoesOn(req[r], z) /\ req[r].st = "allow"
  <2>1. GetByName(r)
    BY <1>4 DEF Request, GetJson, Connect, RoleQuery, CompileOwn, CompileOnce, CompileEnds,
       CompileWrites, UseCompiled, SetDefaultVars, ExecuteWorks, ExecuteFails, ExecuteTorn,
       StartRemote, NoRemoteId, Resolve, Joined, Answer, HandOver, Step
  <2>2. req[r] \in Running
    BY <1>4, AtStepRunning DEF IInv, Steps
  <2> PICK q : q = req[r]
    OBVIOUS
  <2>3. q.eng \in Engines /\ q.name \in Names
    BY <2>2 DEF Running
  <2>4. \/ Go(r, End("error"))
        \/ \E s : Go(r, SetItem(r, items[q.eng][q.name].text, s)) /\ items[q.eng][q.name] # None
        \/ Go(r, [At(r, "json") EXCEPT !.text = gql[q.name]])
    BY <2>1 DEF GetByName
  <2>5. \A s, t : SetItem(r, t, s).st = "connect" /\ SetItem(r, t, s).name = q.name
                    /\ SetItem(r, t, s).text = t
    BY <2>2 DEF SetItem, At, Running
  <2>6. \A t : [At(r, "json") EXCEPT !.text = t].st = "json" /\ [At(r, "json") EXCEPT !.text = t].name = q.name
                 /\ [At(r, "json") EXCEPT !.text = t].text = t
    BY <2>2 DEF At, Running
  <2>7. items[q.eng][q.name] # None => items[q.eng][q.name].text = gql[q.name]
    BY <2>3 DEF Listed
  <2>8. ListedRequest(End("error"))
    BY EndIsDone DEF ListedRequest, Steps
  <2>9. \A s : items[q.eng][q.name] # None => ListedRequest(SetItem(r, items[q.eng][q.name].text, s))
    BY <2>5, <2>7 DEF ListedRequest
  <2>10. ListedRequest([At(r, "json") EXCEPT !.text = gql[q.name]])
    BY <2>6 DEF ListedRequest
  <2> QED  BY <2>4, <2>8, <2>9, <2>10
<1> QED  BY <1>1, <1>2, <1>3, <1>4

LEMMA SaversOfRequest ==
  ASSUME IInv, NEW r \in Requests, Request(r)
  PROVE  \/ saver' = saver /\ last' = last
         \/ HandOver(r)
BY DEF Request, GetByName, GetJson, Connect, RoleQuery, CompileOwn, CompileOnce, CompileEnds,
   CompileWrites, UseCompiled, SetDefaultVars, ExecuteWorks, ExecuteFails, ExecuteTorn,
   StartRemote, NoRemoteId, Resolve, Joined, Answer, saving

LEMMA ListedStep == IInv /\ Listed /\ [Next]_vars => Listed'
<1> SUFFICES ASSUME IInv, Listed, [Next]_vars PROVE Listed'
  OBVIOUS
<1>m. mode' = mode
  <2>1. ASSUME NEW r \in Requests, Request(r) PROVE mode' = mode
    BY <2>1, RequestMoves
  <2> QED
    BY <2>1 DEF Next, Begin, Save, SaveGql, SaveJson, SaveFails, Discover, Reload, ReloadFails,
       vars
<1> SUFFICES ASSUME prodSec PROVE Listed'
  BY <1>m DEF Listed, prodSec
<1>p. prodSec
  OBVIOUS
<1>k. \A r \in Requests : \A z : Go(r, z) => \A x \in Requests : req'[x] = IF x = r THEN z ELSE req[x]
  BY DEF IInv, Typed, Go
<1>1. ASSUME NEW r \in Requests, Request(r) PROVE Listed'
  <2>1. PICK z : Go(r, z) /\ ListedRequest(z)
    BY <1>1, <1>p, TextListed
  <2>2. gql' = gql
    BY <1>1, RequestMoves
  <2>3. \A x \in Requests : ListedRequest(req[x])'
    <3> SUFFICES ASSUME NEW x \in Requests PROVE ListedRequest(req'[x])
      BY <2>2 DEF ListedRequest, Steps
    <3> QED  BY <1>k, <1>p, <2>1 DEF Listed
  <2>4. \A e \in Engines, n \in Names : items'[e][n] # None => items'[e][n].text = gql'[n]
    BY <1>1, <1>p, <2>2, ItemsListed
  <2>5. req[r].st # "save"
    BY <1>1, <1>p, RequestMoves DEF Listed, ListedRequest
  <2>6. saver' = saver
    BY <1>1, <2>5, SaversOfRequest DEF HandOver, Step
  <2> QED  BY <1>p, <2>3, <2>4, <2>6 DEF Listed, Engines, Names
<1>2. ASSUME NEW r \in Requests, NEW c \in Calls, Begin(r, c) PROVE Listed'
  <2>1. PICK z : Go(r, z) /\ ListedRequest(z)
    BY <1>2, <1>p, BeginMoves DEF ListedRequest, Steps
  <2>2. gql' = gql /\ items' = items /\ saver' = saver
    BY <1>2 DEF Begin, caches, saving
  <2>3. \A x \in Requests : ListedRequest(req[x])'
    <3> SUFFICES ASSUME NEW x \in Requests PROVE ListedRequest(req'[x])
      BY <2>2 DEF ListedRequest, Steps
    <3> QED  BY <1>k, <1>p, <2>1 DEF Listed
  <2> QED  BY <1>p, <2>2, <2>3 DEF Listed, Engines, Names
<1>3. ASSUME NEW e \in Engines, Save(e) PROVE FALSE
  BY <1>3, <1>p DEF Listed, Save, SaveGql, SaveJson, SaveFails
<1>4. CASE Discover \/ Reload \/ ReloadFails \/ UNCHANGED vars
  <2>1. gql' = gql /\ items' = items /\ saver' = saver /\ req' = req
    BY <1>4 DEF Discover, Reload, ReloadFails, vars, caches, saving
  <2>2. \A x \in Requests : ListedRequest(req[x])'
    BY <1>p, <2>1 DEF Listed, ListedRequest, Steps
  <2> QED  BY <1>p, <2>1, <2>2 DEF Listed, Engines, Names
<1> QED  BY <1>1, <1>2, <1>3, <1>4 DEF Next

LEMMA CurrentStep == IInv /\ Current /\ [Next]_vars => Current'
<1> SUFFICES ASSUME IInv, Current, [Next]_vars PROVE Current'
  OBVIOUS
<1>k. \A r \in Requests : \A z : Go(r, z) => \A x \in Requests : req'[x] = IF x = r THEN z ELSE req[x]
  BY DEF IInv, Typed, Go
<1>e. engine \in Nat /\ engine >= 1
  BY EngineAssumption DEF IInv, Typed, Engines
<1>1. ASSUME NEW r \in Requests, Request(r) PROVE Current'
  <2>1. PICK z : Go(r, z) /\ (z.st = "done" \/ GoesOn(req[r], z))
    BY <1>1, RequestMoves DEF Moved
  <2>2. engine' = engine /\ req[r].eng \in 1..engine
    BY <1>1, RequestMoves DEF reloads, Current
  <2>3. z.st \in Steps => z.eng \in 1..engine
    BY <2>1, <2>2 DEF GoesOn, Steps
  <2> QED  BY <1>k, <2>1, <2>2, <2>3 DEF Current, Steps
<1>2. ASSUME NEW r \in Requests, NEW c \in Calls, Begin(r, c) PROVE Current'
  <2>1. PICK z : Go(r, z) /\ (z.st = "done" \/ z.eng = engine)
    BY <1>2, BeginMoves
  <2>2. engine' = engine
    BY <1>2 DEF Begin, reloads
  <2>3. z.st \in Steps => z.eng \in 1..engine
    BY <1>e, <2>1 DEF Steps
  <2> QED  BY <1>k, <2>1, <2>2, <2>3 DEF Current, Steps
<1>3. CASE req' = req /\ (engine' = engine \/ engine' = engine + 1)
  BY <1>e, <1>3 DEF Current, Steps
<1>4. ASSUME NEW e \in Engines, Save(e) PROVE Current'
  BY <1>3, <1>4 DEF Save, SaveGql, SaveJson, SaveFails, reloads
<1>5. CASE Discover \/ Reload \/ ReloadFails \/ UNCHANGED vars
  BY <1>3, <1>5 DEF Discover, Reload, ReloadFails, vars, reloads
<1> QED  BY <1>1, <1>2, <1>4, <1>5 DEF Next

LEMMA OrderedStep == IInv /\ Current /\ Ordered /\ [Next]_vars => Ordered'
<1> SUFFICES ASSUME IInv, Current, Ordered, [Next]_vars PROVE Ordered'
  OBVIOUS
<1>e. engine \in Nat /\ engine >= 1 /\ (engine' = engine \/ engine' = engine + 1)
  <2>1. engine \in Nat /\ engine >= 1
    BY EngineAssumption DEF IInv, Typed, Engines
  <2>2. ASSUME NEW r \in Requests, Request(r) PROVE engine' = engine
    BY <2>2, RequestMoves DEF reloads
  <2>3. engine' = engine \/ engine' = engine + 1
    BY <2>2 DEF Next, Begin, Save, SaveGql, SaveJson, SaveFails, Discover, Reload, ReloadFails,
       vars, reloads
  <2> QED  BY <2>1, <2>3
<1> SUFFICES ASSUME engine = 1, engine' = 1 PROVE Ordered'
  BY <1>e DEF Ordered
<1>q. saver' = saver /\ last' = last /\ gql' = gql => Ordered'
  BY DEF Ordered, Pending, Engines, Names
<1>o. 1 \in Engines
  BY EngineAssumption DEF Engines
<1>t. saver \in [Engines -> SaverStates] /\ gql \in [Names -> Texts \cup {None}]
        /\ last \in [Names -> Texts \cup {None}]
  BY DEF IInv, Typed
<1>1. ASSUME NEW r \in Requests, Request(r) PROVE Ordered'
  <2>1. CASE saver' = saver /\ last' = last
    BY <1>1, <1>q, <2>1, RequestMoves
  <2>2. CASE HandOver(r)
    <3> PICK q : q = req[r]
      OBVIOUS
    <3> PICK i : i = [st |-> "gql", name |-> q.name, text |-> q.text, shape |-> q.call.shape]
      OBVIOUS
    <3>1. q.eng = 1 /\ q.name \in Names
      BY <2>2, AtStepRunning DEF HandOver, Step, Steps, Current, IInv, Running
    <3>2. /\ saver[1].st = "idle" /\ saver' = [saver EXCEPT ![1] = i]
          /\ last' = [last EXCEPT ![q.name] = q.text] /\ gql' = gql
      BY <2>2, <3>1 DEF HandOver
    <3>3. saver'[1] = i /\ \A e \in Engines \ {1} : saver'[e] = saver[e]
      BY <1>o, <1>t, <3>2
    <3>4. last'[q.name] = q.text /\ \A n \in Names \ {q.name} : last'[n] = last[n]
      BY <1>t, <3>1, <3>2
    <3> QED  BY <3>2, <3>3, <3>4 DEF Ordered, Pending, Engines, Names
  <2> QED  BY <1>1, <2>1, <2>2, SaversOfRequest
<1>2. ASSUME NEW r \in Requests, NEW c \in Calls, Begin(r, c) PROVE Ordered'
  BY <1>2, <1>q DEF Begin, saving
<1>3. ASSUME NEW e \in Engines, Save(e) PROVE Ordered'
  <2>1. e = 1
    BY <1>3 DEF Ordered, Save, SaveGql, SaveJson, SaveFails
  <2> PICK v : v = saver[1]
    OBVIOUS
  <2>2. v \in [st : {"idle", "gql", "json"}, name : Names, text : Texts, shape : Shapes \cup {None}]
    BY <1>3, <1>o, <1>t, <2>1 DEF Save, SaveGql, SaveJson, SaveFails, SaverStates, NoItem
  <2>3. \A st : saver' = [saver EXCEPT ![1].st = st] =>
           /\ saver'[1].st = st /\ saver'[1].name = v.name /\ saver'[1].text = v.text
           /\ \A x \in Engines \ {1} : saver'[x] = saver[x]
    BY <1>o, <1>t, <2>2
  <2>4. CASE SaveGql(1)
    <3>1. PICK st \in {"idle", "json"} : saver' = [saver EXCEPT ![1].st = st]
      BY <2>4 DEF SaveGql, Saver
    <3>2. v.st = "gql" /\ gql' = [gql EXCEPT ![v.name] = v.text] /\ last' = last
      BY <2>4 DEF SaveGql, FileText
    <3>3. gql'[v.name] = v.text /\ \A n \in Names \ {v.name} : gql'[n] = gql[n]
      BY <1>t, <2>2, <3>2
    <3>4. saver'[1].st # "gql" /\ \A x \in Engines \ {1} : saver'[x] = saver[x]
      BY <2>3, <3>1
    <3> QED  BY <3>2, <3>3, <3>4 DEF Ordered, Pending, Engines, Names
  <2>5. CASE SaveJson(1)
    <3>1. v.st = "json" /\ saver' = [saver EXCEPT ![1].st = "idle"] /\ gql' = gql /\ last' = last
      BY <2>5 DEF SaveJson, Saver
    <3>2. saver'[1].st = "idle" /\ \A x \in Engines \ {1} : saver'[x] = saver[x]
      BY <2>3, <3>1
    <3> QED  BY <3>1, <3>2 DEF Ordered, Pending, Engines, Names
  <2>6. CASE SaveFails(1)
    <3>1. saver' = [saver EXCEPT ![1].st = "idle"] /\ gql' = gql /\ v.st \in {"gql", "json"}
      BY <2>6 DEF SaveFails, Saver, AfterFailure
    <3>2. last' = IF v.st = "gql" THEN [last EXCEPT ![v.name] = None] ELSE last
      BY <2>6 DEF SaveFails
    <3>3. \A n \in Names : last'[n] = IF v.st = "gql" /\ n = v.name THEN None ELSE last[n]
      BY <1>t, <3>2
    <3>4. saver'[1].st = "idle" /\ \A x \in Engines \ {1} : saver'[x] = saver[x]
      BY <2>3, <3>1
    <3> QED  BY <3>1, <3>3, <3>4 DEF Ordered, Pending, Engines, Names
  <2> QED  BY <1>3, <2>1, <2>4, <2>5, <2>6 DEF Save
<1>4. CASE Discover \/ Reload \/ ReloadFails \/ UNCHANGED vars
  BY <1>4, <1>q DEF Discover, Reload, ReloadFails, vars, saving
<1> QED  BY <1>1, <1>2, <1>3, <1>4 DEF Next

LEMMA InitAllow == Init => AllowInv
<1> SUFFICES ASSUME Init PROVE AllowInv
  OBVIOUS
<1>1. Listed
  BY DEF Init, Listed, ListedRequest, NoItem, Idle, Steps
<1>2. Current
  BY DEF Init, Current, Idle, Steps
<1>3. Ordered
  <2>1. 1 \in Engines
    BY EngineAssumption DEF Engines
  <2> QED  BY <2>1 DEF Init, Ordered, NoItem
<1> QED  BY <1>1, <1>2, <1>3 DEF AllowInv

LEMMA AllowAlways == Spec => []AllowInv
<1>1. IInv /\ AllowInv /\ [Next]_vars => AllowInv'
  BY ListedStep, CurrentStep, OrderedStep DEF AllowInv
<1> QED  BY <1>1, InitAllow, EngineInv, PTL DEF Spec

\* With production security what is executed is the text in the file of its name, whatever
\* text or key of a persisted query was sent, and whatever keys the compiled queries have.
THEOREM ListIsObeyed == Spec => []AllowListed
<1>1. AllowInv => AllowListed
  BY DEF AllowInv, Listed, ListedRequest, AllowListed, Step, Steps
<1> QED  BY <1>1, AllowAlways, PTL

\* Until a reload the file of a name has the text of the last request that handed one over.
THEOREM FilesInOrder == Spec => []SavedInOrder
<1>1. AllowInv => SavedInOrder
  BY DEF AllowInv, Ordered, Pending, SavedInOrder
<1> QED  BY <1>1, AllowAlways, PTL

=============================================================================
