-------------------------------- MODULE Subs --------------------------------
(***************************************************************************)
(* Live queries of the GraphJin engine (core/subs.go), for one key of the   *)
(* engine's map of subscriptions.                                           *)
(*                                                                          *)
(* Three kinds of goroutine run concurrently:                               *)
(*   - a client runs Subscribe, reads its Result channel and may run        *)
(*     Unsubscribe (actions Load .. Receive, over a member m);              *)
(*   - one controller per subscription object owns the member slices and    *)
(*     serves the channels add, del and updt and the poll timer (Ctl...);   *)
(*   - a worker re-runs the query for a slice of members, compares hashes,  *)
(*     and sends a message to the controller and a result to the member     *)
(*     (Job...). With more than MaxPerWorker members the controller runs the *)
(*     workers itself.                                                      *)
(*                                                                          *)
(* The workers are given a copy of the slice headers, not of the arrays:    *)
(* mval[s].mem is the backing array the controller keeps writing in place,  *)
(* and a job reads it (View) until an append reallocates it.  A write is    *)
(* not synchronised with the readers: from CtlAdd, CtlDel or CtlUpdt until  *)
(* CtlWrite a reader may see the old or the new content of each field.      *)
(***************************************************************************)
EXTENDS Naturals, Sequences, FiniteSets

CONSTANTS
  Members,        \* calls of Subscribe, each with the Member it creates
  SubIds,         \* subscription objects that may be created for the key
  Jobs,           \* workers that may be in flight at the same time
  Vars,           \* values of the query variables
  VarsOf,         \* the variables each member subscribes with
  None,           \* no value: a nil pointer, an absent map entry, no result
  Torn,           \* what a read of a slice that is being written may return
  HasParams,      \* the statement has parameters (one row per member)
  Cursor,         \* one of the parameters is a cursor
  ProdSec,        \* statements are compiled once and cached
  Faults,         \* queries and initialisation may fail
  SlowReaders,    \* a client may leave its channel full for 250ms
  Leavers,        \* members whose client may unsubscribe
  MaxPerWorker,   \* maxMembersPerWorker
  UpdtCap,        \* capacity of the updt channel
  ResCap,         \* capacity of a member's Result channel
  MaxVersion,     \* bound: changes of the data behind one value of Vars
  Histories,      \* bound: how often the data behind each value may have changed
  Late            \* bound: members who subscribe when the others have returned

ASSUME SubsAssumption ==
  /\ None \notin Members \cup SubIds \cup Vars
  /\ None # Torn
  /\ VarsOf \in [Members -> Vars]
  /\ HasParams \/ \A m, k \in Members : VarsOf[m] = VarsOf[k]
  /\ {HasParams, Cursor, ProdSec, Faults, SlowReaders} \subseteq BOOLEAN
  /\ Cursor => HasParams
  /\ Leavers \subseteq Members
  /\ MaxPerWorker \in Nat \ {0}
  /\ UpdtCap \in Nat \ {0}
  /\ ResCap \in Nat \ {0}
  /\ MaxVersion \in Nat
  /\ Histories \subseteq [Vars -> 0..MaxVersion]
  /\ Late \subseteq Members

VARIABLES
  db,        \* the data: how many rows (changes) exist for each value of Vars
  registry,  \* gj.subs at this key: a subscription object or None
  once,      \* sync.Once of each subscription object
  stmt,      \* sub.s.cs of each object: its compiled statement
  wrapped,   \* how often renderSubWrap was applied to the statement
  ctl,       \* where each controller is
  wr,        \* the slot write each controller is in the middle of
  mval,      \* the member slices: backing array, length, capacity
  updt,      \* the channel updt of each object
  js,        \* sub.js: last result of a statement without parameters
  pc,        \* where each client is in Subscribe / Unsubscribe
  at,        \* the subscription object each client holds
  first,     \* m.mm: what the first query recorded
  result,    \* the Result channel of each member
  seen,      \* the last result each client read
  rows,      \* history: the rows of the data each client has been sent
  job,       \* the workers
  up         \* the process is running

ctlVars    == <<ctl, wr, mval>>
clientVars == <<pc, at, first>>
readVars   == <<seen, rows>>
initVars   == <<once, stmt, wrapped>>
vars == <<db, registry, initVars, ctlVars, updt, js, clientVars, result, readVars,
          job, up>>

-----------------------------------------------------------------------------
(* Query results. A result is the rows lo+1 .. hi of the data of vars; two   *)
(* results have the same hash iff they are equal.                            *)

Result == [vars : Vars, lo : 0..MaxVersion, hi : 0..MaxVersion]

\* A nil pointer is not a result.
ASSUME NilAssumption == None \notin Result

RowsOf(r) == IF r = Torn THEN {} ELSE (r.lo + 1)..r.hi

Param == [vars : Vars, lo : 0..MaxVersion]

\* What the statement returns for a parameter: everything, or the rows after
\* the cursor (none: the same empty result whatever the cursor was).
Query(p) ==
  IF Cursor /\ p.lo >= db[p.vars]
  THEN [vars |-> p.vars, lo |-> 0, hi |-> 0]
  ELSE [vars |-> p.vars, lo |-> p.lo, hi |-> db[p.vars]]

\* Mutant: the cursor is the row after the last.
CursorAfter(r) == IF Cursor /\ r # Torn THEN r.hi + 1 ELSE 0
\* firstCursorValue: the cursor found in a result, 0 when there is none.
CursorIn(r) == IF Cursor /\ r # Torn THEN r.hi ELSE 0

\* subNotifyMemberEx drops a result that should have a cursor and has none.
Skipped(r) == Cursor /\ CursorIn(r) = 0

Mmsg == [id : Members, dh : Result \cup {Torn}, cursor : 0..MaxVersion]

MsgFor(id, r) == [id |-> id, dh |-> r, cursor |-> CursorIn(r)]

-----------------------------------------------------------------------------
(* The member slices params, mi, res and ids, kept as one array of slots.    *)

Slot == [vars : Vars, lo : 0..MaxVersion,   \* params[i], mi[i].values
         dh   : Result \cup {Torn},         \* mi[i].dh
         res  : Members,                    \* res[i]: whose Result channel
         id   : Members]                    \* ids[i]

EmptyMval == [mem |-> <<>>, n |-> 0, cap |-> 0]

Indices(s) == 1..mval[s].n

\* findByID
Find(s, id) == {i \in Indices(s) : mval[s].mem[i].id = id}

\* values[cindx] = cursor, and params rendered again.
MoveCursor(slot, cursor) ==
  IF Cursor /\ cursor # 0 THEN [slot EXCEPT !.lo = cursor] ELSE slot

\* addMember: the slot of a member, at the cursor its first query returned.
SlotOf(m) ==
  MoveCursor([vars |-> VarsOf[m], lo |-> 0, dh |-> first[m].dh,
              res |-> m, id |-> m], first[m].cursor)

\* updateMember: the slot after a message of a worker.
Updated(slot, msg) == MoveCursor([slot EXCEPT !.dh = msg.dh], msg.cursor)

NoWrite == [i |-> 0, slot |-> None, n |-> 0]

\* The values a reader of slot i of s may see: while the controller is writing
\* the slot, the old or the new content of each of the four arrays.
Contents(s, i) ==
  IF wr[s].i = i
  THEN {[vars |-> x[1].vars, lo |-> x[1].lo, dh |-> x[2].dh, res |-> x[3].res,
         id |-> x[4].id] : x \in [1..4 -> {mval[s].mem[i], wr[s].slot}]}
  ELSE {mval[s].mem[i]}

-----------------------------------------------------------------------------
(* Workers.  from+1 .. to are the members of the chunk; mem is the worker's   *)
(* own array once the shared one was reallocated, None while it is shared.   *)

IdleJob == [st |-> "idle", sub |-> None, inline |-> FALSE, mem |-> None,
            from |-> 0, to |-> 0, params |-> <<>>, rows |-> <<>>, i |-> 0,
            msg |-> None, res |-> None]

Size(j) == job[j].to - job[j].from

View(j, i) ==
  IF job[j].mem = None THEN Contents(job[j].sub, i) ELSE {job[j].mem[i]}

Sharing(j, s) == job[j].st # "idle" /\ job[j].sub = s /\ job[j].mem = None

\* subCheckUpdates is past the last member of its only row: it writes sub.js.
Keeping(j) == job[j].st = "rows" /\ ~HasParams /\ job[j].i > Size(j)

\* What a read of sub.js may return.
JsViews(s) ==
  {js[s]} \cup {Torn : j \in {k \in Jobs : /\ Keeping(k) /\ job[k].sub = s
                                          /\ job[k].rows[1] # js[s]}}

ChunkEnd(from, n) == IF n < from + MaxPerWorker THEN n ELSE from + MaxPerWorker

Chunk(s, from, inline) ==
  [st |-> "spawned", sub |-> s, inline |-> inline, mem |-> None,
   from |-> from, to |-> ChunkEnd(from, mval[s].n), params |-> <<>>,
   rows |-> <<>>, i |-> 0, msg |-> None, res |-> None]

-----------------------------------------------------------------------------
Init ==
  /\ db       = [v \in Vars |-> 0]
  /\ registry = None
  /\ once     = [s \in SubIds |-> "unused"]
  /\ stmt     = [s \in SubIds |-> "nil"]
  /\ wrapped  = [s \in SubIds |-> 0]
  /\ ctl      = [s \in SubIds |-> "none"]
  /\ wr       = [s \in SubIds |-> NoWrite]
  /\ mval     = [s \in SubIds |-> EmptyMval]
  /\ updt     = [s \in SubIds |-> <<>>]
  /\ js       = [s \in SubIds |-> None]
  /\ pc       = [m \in Members |-> "start"]
  /\ at       = [m \in Members |-> None]
  /\ first    = [m \in Members |-> None]
  /\ result   = [m \in Members |-> <<>>]
  /\ seen     = [m \in Members |-> None]
  /\ rows     = [m \in Members |-> {}]
  /\ job      = [j \in Jobs |-> IdleJob]
  /\ up       = TRUE

\* Another process commits a change to the data behind v.
Change(v) ==
  /\ db[v] < MaxVersion
  /\ db' = [db EXCEPT ![v] = @ + 1]
  /\ db' \in Histories
  /\ UNCHANGED <<registry, initVars, ctlVars, updt, js, clientVars, result,
                 readVars, job, up>>

-----------------------------------------------------------------------------
(* Subscribe                                                                *)

\* Mutant: Store instead of LoadOrStore.
LookupMisses == None
\* What gj.subs holds for the key.
Lookup == registry

\* Subscribe returned to its caller, with a Member or with an error.
Answered(m) == pc[m] \in {"joined", "leaving", "left", "failed"}

\* gj.subs.LoadOrStore(k, &sub{...})
Load(m) ==
  /\ pc[m] = "start"
  /\ m \in Late => \A k \in Members \ Late : Answered(k) \/ pc[k] = "panicked"
  /\ pc' = [pc EXCEPT ![m] = "do"]
  /\ \/ /\ Lookup # None
        /\ at' = [at EXCEPT ![m] = Lookup]
        /\ UNCHANGED <<registry, once>>
     \/ /\ Lookup = None
        /\ \E s \in SubIds :
              /\ once[s] = "unused"
              /\ once' = [once EXCEPT ![s] = "new"]
              /\ at' = [at EXCEPT ![m] = s]
              /\ registry' = s
  /\ UNCHANGED <<db, stmt, wrapped, ctlVars, updt, js, first, result, readVars, job,
                 up>>

\* sub.Do: the first caller runs initSub, the others wait for it to return and
\* keep their own err, which is nil.
Do(m) ==
  /\ pc[m] = "do"
  /\ \/ /\ once[at[m]] = "new"
        /\ once' = [once EXCEPT ![at[m]] = "busy"]
        /\ pc' = [pc EXCEPT ![m] = "init"]
     \/ /\ once[at[m]] = "done"
        /\ pc' = [pc EXCEPT ![m] = "args"]
        /\ UNCHANGED once
  /\ UNCHANGED <<db, registry, stmt, wrapped, ctlVars, updt, js, at, first,
                 result, readVars, job, up>>

\* Mutant: the controller is not started.
NoController(s) == UNCHANGED ctl
\* go gj.subController(sub)
StartController(s) == ctl' = [ctl EXCEPT ![s] = "select"]

\* initSub: compile, wrap a statement with parameters, start the controller.
\* A statement compiled once is one object shared by all who compile it.
InitSub(m) ==
  LET s == at[m] IN
  /\ pc[m] = "init"
  /\ once' = [once EXCEPT ![s] = "done"]
  /\ stmt' = [stmt EXCEPT ![s] = "ok"]
  /\ wrapped' = IF ~HasParams THEN wrapped
                ELSE [t \in SubIds |-> IF t = s \/ ProdSec THEN wrapped[t] + 1
                                       ELSE wrapped[t]]
  /\ StartController(s)
  /\ pc' = [pc EXCEPT ![m] = "args"]
  /\ UNCHANGED <<db, registry, wr, mval, updt, js, at, first, result, readVars, job,
                 up>>

\* initSub fails in compile (no statement; an empty one when it is cached) or
\* in saveToAllowList (a statement that was not wrapped).
InitSubFails(m) ==
  LET s == at[m] IN
  /\ Faults
  /\ pc[m] = "init"
  /\ once' = [once EXCEPT ![s] = "done"]
  /\ \E c \in IF ProdSec THEN {"blank"}
              ELSE {"nil", IF HasParams THEN "blank" ELSE "ok"} :
        stmt' = [stmt EXCEPT ![s] = c]
  /\ pc' = [pc EXCEPT ![m] = "undo"]
  /\ UNCHANGED <<db, registry, wrapped, ctlVars, updt, js, at, first, result,
                 readVars, job, up>>

\* if err != nil { gj.subs.Delete(k); return }
Undo(m) ==
  /\ pc[m] = "undo"
  /\ registry' = None
  /\ pc' = [pc EXCEPT ![m] = "failed"]
  /\ UNCHANGED <<db, initVars, ctlVars, updt, js, at, first, result, readVars, job,
                 up>>

\* argListForSub and subFirstQuery: a result from the database or, for a
\* statement without parameters, the one a worker kept in sub.js, which a worker
\* may be writing.  It goes to the new member's channel unless its cursor is
\* missing.
First(m) ==
  /\ pc[m] = "args"
  /\ stmt[at[m]] = "ok"
  /\ \E kept \in JsViews(at[m]) :
        LET r == IF kept # None THEN kept
                 ELSE Query([vars |-> VarsOf[m], lo |-> 0])
        IN /\ first' = [first EXCEPT ![m] = MsgFor(m, r)]
           /\ result' = IF Skipped(r) THEN result
                        ELSE [result EXCEPT ![m] = Append(@, r)]
  /\ pc' = [pc EXCEPT ![m] = "add"]
  /\ UNCHANGED <<db, registry, initVars, ctlVars, updt, js, at, readVars, job, up>>

\* A variable is missing or the first query fails; without a statement
\* argListForSub dereferences a nil pointer.
FirstFails(m) ==
  /\ pc[m] = "args"
  /\ \/ /\ stmt[at[m]] = "nil"
        /\ pc' = [pc EXCEPT ![m] = "panicked"]
     \/ /\ stmt[at[m]] # "nil"
        /\ stmt[at[m]] = "blank" \/ Faults
        /\ pc' = [pc EXCEPT ![m] = "failed"]
  /\ UNCHANGED <<db, registry, initVars, ctlVars, updt, js, at, first, result,
                 readVars, job, up>>

\* The client reads its channel.
Receive(m) ==
  /\ pc[m] = "joined"
  /\ result[m] # <<>>
  /\ seen' = [seen EXCEPT ![m] = Head(result[m])]
  /\ rows' = [rows EXCEPT ![m] = @ \cup RowsOf(Head(result[m]))]
  /\ result' = [result EXCEPT ![m] = Tail(@)]
  /\ UNCHANGED <<db, registry, initVars, ctlVars, updt, js, clientVars, job, up>>

\* The client calls Unsubscribe and is about to send on del.
Leave(m) ==
  /\ m \in Leavers
  /\ pc[m] = "joined"
  /\ pc' = [pc EXCEPT ![m] = "leaving"]
  /\ UNCHANGED <<db, registry, initVars, ctlVars, updt, js, at, first, result,
                 readVars, job, up>>

-----------------------------------------------------------------------------
(* The controller.  add and del are unbuffered: the client's send and the    *)
(* controller's receive are one step.                                        *)

\* Mutant: the last member but one ends the loop.
EmptiedEarly(n) == n <= 1
\* The test after a deletion that ends the loop.
Emptied(n) == n = 0

StartWrite(s, i, slot, n) ==
  /\ ctl' = [ctl EXCEPT ![s] = "write"]
  /\ wr' = [wr EXCEPT ![s] = [i |-> i, slot |-> slot, n |-> n]]

CtlAdd(s, m) ==
  /\ ctl[s] = "select"
  /\ pc[m] = "add" /\ at[m] = s
  /\ pc' = [pc EXCEPT ![m] = "joined"]
  /\ StartWrite(s, mval[s].n + 1, SlotOf(m), mval[s].n + 1)
  /\ UNCHANGED <<db, registry, initVars, mval, updt, js, at, first, result, readVars,
                 job, up>>

\* deleteMember: the last slot moves into the place of the deleted one.
CtlDel(s, m) ==
  /\ ctl[s] = "select"
  /\ pc[m] = "leaving" /\ at[m] = s
  /\ pc' = [pc EXCEPT ![m] = "left"]
  /\ IF Find(s, m) # {}
     THEN \E i \in Find(s, m) :
             StartWrite(s, i, mval[s].mem[mval[s].n], mval[s].n - 1)
     ELSE /\ ctl' = [ctl EXCEPT ![s] = IF Emptied(mval[s].n) THEN "exit" ELSE @]
          /\ UNCHANGED wr
  /\ UNCHANGED <<db, registry, initVars, mval, updt, js, at, first, result, readVars,
                 job, up>>

\* updateMember; a message about a member that has left is dropped.
CtlUpdt(s) ==
  /\ ctl[s] = "select"
  /\ updt[s] # <<>>
  /\ updt' = [updt EXCEPT ![s] = Tail(@)]
  /\ LET msg == Head(updt[s]) IN
     IF Find(s, msg.id) # {}
     THEN \E i \in Find(s, msg.id) :
             StartWrite(s, i, Updated(mval[s].mem[i], msg), mval[s].n)
     ELSE UNCHANGED <<ctl, wr>>
  /\ UNCHANGED <<db, registry, initVars, mval, js, clientVars, result, readVars, job,
                 up>>

\* The slices are written.  An append beyond the capacity moves the slices to
\* a new array: the workers in flight keep the old one.  The loop ends when a
\* deletion leaves no member.
CtlWrite(s) ==
  LET mv == mval[s]
      w  == wr[s]
      grows == w.i > mv.cap
  IN
  /\ ctl[s] = "write"
  /\ mval' = [mval EXCEPT ![s] =
       [mem |-> IF w.i <= Len(mv.mem) THEN [mv.mem EXCEPT ![w.i] = w.slot]
                ELSE Append(mv.mem, w.slot),
        n   |-> w.n,
        cap |-> IF ~grows THEN mv.cap ELSE IF mv.cap = 0 THEN 1 ELSE 2 * mv.cap]]
  /\ job' = [j \in Jobs |-> IF grows /\ Sharing(j, s)
                            THEN [job[j] EXCEPT !.mem = mv.mem] ELSE job[j]]
  /\ wr' = [wr EXCEPT ![s] = NoWrite]
  /\ ctl' = [ctl EXCEPT ![s] = IF w.n < mv.n /\ Emptied(w.n) THEN "exit" ELSE "select"]
  /\ UNCHANGED <<db, registry, initVars, updt, js, clientVars, result, readVars, up>>

\* time.After(ps) fires.  The timer is started when the loop enters select, which
\* takes what waits there at once and waits 200ms or more for the timer: it
\* fires where nothing else came first.
CtlTimer(s) ==
  /\ ctl[s] = "select"
  /\ updt[s] = <<>>
  /\ mval[s].n > 0
  /\ ctl' = [ctl EXCEPT ![s] = "poll"]
  /\ UNCHANGED <<db, registry, initVars, wr, mval, updt, js, clientVars, result,
                 readVars, job, up>>

\* fanOutJobs.  What has come since the timer fired waits: the slots may be behind
\* the messages in updt.
CtlPoll(s) ==
  /\ ctl[s] = "poll"
  /\ mval[s].n > 0
  /\ LET inline == mval[s].n > MaxPerWorker IN
     /\ \E j \in Jobs :
           /\ job[j].st = "idle"
           /\ job' = [job EXCEPT ![j] = Chunk(s, 0, inline)]
     /\ ctl' = [ctl EXCEPT ![s] = IF inline THEN "fanout" ELSE "select"]
  /\ UNCHANGED <<db, registry, initVars, wr, mval, updt, js, clientVars, result,
                 readVars, up>>

\* Bound: with all of Jobs in use no worker is started.
CtlPollSkipped(s) ==
  /\ ctl[s] = "poll"
  /\ \A j \in Jobs : job[j].st # "idle"
  /\ ctl' = [ctl EXCEPT ![s] = "select"]
  /\ UNCHANGED <<db, registry, initVars, wr, mval, updt, js, clientVars, result,
                 readVars, job, up>>

\* defer gj.subs.Delete(sub.k)
CtlExit(s) ==
  /\ ctl[s] = "exit"
  /\ ctl' = [ctl EXCEPT ![s] = "gone"]
  /\ registry' = None
  /\ UNCHANGED <<db, initVars, wr, mval, updt, js, clientVars, result, readVars, job,
                 up>>

-----------------------------------------------------------------------------
(* subCheckUpdates                                                          *)

\* renderJSONArray(mv.params[start:end])
JobRender(j) ==
  /\ job[j].st = "spawned"
  /\ \E slots \in [1..Size(j) -> UNION {View(j, job[j].from + i) : i \in 1..Size(j)}] :
        /\ \A i \in 1..Size(j) : slots[i] \in View(j, job[j].from + i)
        /\ job' = [job EXCEPT ![j].st = "query",
                     ![j].params = [i \in 1..Size(j) |->
                        [vars |-> slots[i].vars, lo |-> slots[i].lo]]]
  /\ UNCHANGED <<db, registry, initVars, ctlVars, updt, js, clientVars, result,
                 readVars, up>>

\* A row per parameter, or one row for everybody.  A statement wrapped twice
\* joins the parameters with themselves and returns a row for each pair; what a
\* third wrapping adds makes no difference, the first row too many ends it all.
RowCount(j) ==
  IF ~HasParams THEN 1
  ELSE IF wrapped[job[j].sub] <= 1 THEN Size(j) ELSE Size(j) * Size(j)

\* One statement, so all rows come from one state of the database.
JobQuery(j) ==
  /\ job[j].st = "query"
  /\ job' = [job EXCEPT ![j].st = "rows", ![j].i = 1,
               ![j].rows = [i \in 1..RowCount(j) |->
                              Query(job[j].params[((i - 1) % Size(j)) + 1])]]
  /\ UNCHANGED <<db, registry, initVars, ctlVars, updt, js, clientVars, result,
                 readVars, up>>

\* Mutant: only the first chunk is run.
MoreChunksNever(j) == FALSE
\* fanOutJobs: i < len(s.ids)
MoreChunks(j) == job[j].inline /\ job[j].to < mval[job[j].sub].n

\* The worker returns.  A controller that runs the workers itself goes on with
\* the next chunk, then back to its select.
Return(j) ==
  LET s == job[j].sub IN
  /\ job' = [job EXCEPT ![j] = IF MoreChunks(j) THEN Chunk(s, job[j].to, TRUE)
                               ELSE IdleJob]
  /\ ctl' = [ctl EXCEPT ![s] = IF job[j].inline /\ ~MoreChunks(j) THEN "select"
                               ELSE @]

\* The query fails three times, or reading its rows fails half way.
JobFails(j) ==
  /\ Faults
  /\ \/ job[j].st = "query"
     \/ job[j].st = "rows" /\ job[j].i <= (IF HasParams THEN Size(j) ELSE 1)
  /\ Return(j)
  /\ UNCHANGED <<db, registry, initVars, wr, mval, updt, js, clientVars, result,
                 readVars, up>>

\* Mutant: every member gets the first row.
RowOfFirst(j) == job[j].rows[1]
\* The row the worker is at.
RowFor(j) == job[j].rows[IF HasParams THEN job[j].i ELSE 1]

\* Mutant: start is not added.
IndexInChunk(j) == job[j].i
\* The index of the member the row is for: start + i
MemberIndex(j) == job[j].from + job[j].i

\* Mutant: the hash is of the parameters, not of the rows.
SameMember(r, dh) == r.vars = dh.vars
\* dh == mm.dh
SameHash(r, dh) == r = dh

\* subNotifyMember, for the slot as it is now: nothing to do if its hash is
\* the same or the cursor is missing, else the two sends follow.
JobNotify(j) ==
  /\ job[j].st = "rows"
  /\ job[j].i <= Size(j)
  /\ \E slot \in View(j, MemberIndex(j)) :
        \/ /\ SameHash(RowFor(j), slot.dh) \/ Skipped(RowFor(j))
           /\ job' = [job EXCEPT ![j].i = @ + 1]
        \/ /\ ~SameHash(RowFor(j), slot.dh)
           /\ ~Skipped(RowFor(j))
           /\ job' = [job EXCEPT ![j].st = "updt", ![j].res = slot.res,
                                 ![j].msg = MsgFor(slot.id, RowFor(j))]
  /\ UNCHANGED <<db, registry, initVars, ctlVars, updt, js, clientVars, result,
                 readVars, up>>

\* sub.updt <- mm
JobUpdt(j) ==
  LET s == job[j].sub IN
  /\ job[j].st = "updt"
  /\ Len(updt[s]) < UpdtCap
  /\ updt' = [updt EXCEPT ![s] = Append(@, job[j].msg)]
  /\ job' = [job EXCEPT ![j].st = "send", ![j].msg = None]
  /\ UNCHANGED <<db, registry, initVars, ctlVars, js, clientVars, result, readVars,
                 up>>

\* rc <- res, or the result is dropped after 250ms of a full channel.
JobSend(j) ==
  LET m == job[j].res IN
  /\ job[j].st = "send"
  /\ \/ /\ Len(result[m]) < ResCap
        /\ result' = [result EXCEPT ![m] = Append(@, RowFor(j))]
     \/ /\ Len(result[m]) = ResCap
        /\ SlowReaders \/ pc[m] # "joined"
        /\ UNCHANGED result
  /\ job' = [job EXCEPT ![j].st = "rows", ![j].i = @ + 1, ![j].res = None]
  /\ UNCHANGED <<db, registry, initVars, ctlVars, updt, js, clientVars, readVars, up>>

\* No more rows; the result of a statement without parameters is kept.
JobDone(j) ==
  LET s == job[j].sub IN
  /\ job[j].st = "rows"
  /\ job[j].i > Size(j)
  /\ job[j].i > Len(job[j].rows) \/ ~HasParams
  /\ js' = IF HasParams THEN js ELSE [js EXCEPT ![s] = job[j].rows[1]]
  /\ Return(j)
  /\ UNCHANGED <<db, registry, initVars, wr, mval, updt, clientVars, result, readVars,
                 up>>

\* A row more than there are members: the index is out of range and the panic
\* of a goroutine ends the process.
JobPanics(j) ==
  /\ job[j].st = "rows"
  /\ HasParams
  /\ job[j].i > Size(j)
  /\ job[j].i <= Len(job[j].rows)
  /\ up' = FALSE
  /\ UNCHANGED <<db, registry, initVars, ctlVars, updt, js, clientVars, result,
                 readVars, job>>

-----------------------------------------------------------------------------
Client(m) ==
  Load(m) \/ Do(m) \/ InitSub(m) \/ InitSubFails(m) \/ Undo(m) \/ First(m)
  \/ FirstFails(m) \/ Receive(m) \/ Leave(m)

Controller(s) ==
  \/ \E m \in Members : CtlAdd(s, m) \/ CtlDel(s, m)
  \/ CtlUpdt(s) \/ CtlWrite(s) \/ CtlTimer(s) \/ CtlPoll(s)
  \/ CtlPollSkipped(s) \/ CtlExit(s)

Worker(j) ==
  JobRender(j) \/ JobQuery(j) \/ JobFails(j) \/ JobNotify(j) \/ JobUpdt(j)
  \/ JobSend(j) \/ JobDone(j) \/ JobPanics(j)

Next ==
  /\ up
  /\ \/ \E v \in Vars : Change(v)
     \/ \E m \in Members : Client(m)
     \/ \E s \in SubIds : Controller(s)
     \/ \E j \in Jobs : Worker(j)

Spec == Init /\ [][Next]_vars

-----------------------------------------------------------------------------
(* Fairness.  Goroutines are scheduled, so what a client, a controller or a   *)
(* worker can do on its own is weakly fair; select chooses among the ready   *)
(* channels at random, so a client that keeps offering add or del is served  *)
(* (strong fairness); the poll timer fires when nothing else happens.        *)
(* Nothing is assumed of Change, Leave or the failures.                      *)
Fairness ==
  /\ \A m \in Members :
        /\ WF_vars(up /\ (Load(m) \/ Do(m) \/ InitSub(m) \/ Undo(m) \/ First(m)
                        \/ FirstFails(m)))
        /\ WF_vars(up /\ Receive(m))
  /\ \A s \in SubIds :
        /\ \A m \in Members : SF_vars(up /\ (CtlAdd(s, m) \/ CtlDel(s, m)))
        /\ WF_vars(up /\ (CtlUpdt(s) \/ CtlWrite(s) \/ CtlTimer(s) \/ CtlPoll(s)
                        \/ CtlPollSkipped(s) \/ CtlExit(s)))
  /\ \A j \in Jobs :
        WF_vars(up /\ (JobRender(j) \/ JobQuery(j) \/ JobNotify(j) \/ JobUpdt(j)
                     \/ JobSend(j) \/ JobDone(j)))

(* The database does not fail for ever.                                      *)
DatabaseRecovers == <>[][\A j \in Jobs : ~JobFails(j)]_vars

FairSpec == Spec /\ Fairness /\ DatabaseRecovers

-----------------------------------------------------------------------------
(* Properties.                                                              *)

Running(s) == ctl[s] \in {"select", "write", "poll", "fanout", "exit"}

Served(m) == pc[m] \in {"joined", "leaving"}

\* The slots as they are once the write in progress is done.
SlotAfterWrite(s, i) == IF wr[s].i = i THEN wr[s].slot ELSE mval[s].mem[i]

MembersOf(s) ==
  {SlotAfterWrite(s, i).id : i \in 1..(IF ctl[s] = "write" THEN wr[s].n ELSE mval[s].n)}

JobType ==
  [st : {"idle", "spawned", "query", "rows", "updt", "send"},
   sub : SubIds \cup {None}, inline : BOOLEAN, mem : Seq(Slot) \cup {None},
   from : Nat, to : Nat, params : Seq(Param), rows : Seq(Result), i : Nat,
   msg : Mmsg \cup {None}, res : Members \cup {None}]

\* The variables have the types of the fields of sub, mval, Member and of the
\* locals of subCheckUpdates they stand for.
TypeOK ==
  /\ db \in [Vars -> 0..MaxVersion]
  /\ registry \in SubIds \cup {None}
  /\ once \in [SubIds -> {"unused", "new", "busy", "done"}]
  /\ stmt \in [SubIds -> {"nil", "blank", "ok"}]
  /\ wrapped \in [SubIds -> Nat]
  /\ ctl \in [SubIds -> {"none", "select", "write", "poll", "fanout", "exit", "gone"}]
  /\ wr \in [SubIds -> [i : Nat, slot : Slot \cup {None}, n : Nat]]
  /\ mval \in [SubIds -> [mem : Seq(Slot), n : Nat, cap : Nat]]
  /\ updt \in [SubIds -> Seq(Mmsg)]
  /\ js \in [SubIds -> Result \cup {None}]
  /\ pc \in [Members -> {"start", "do", "init", "undo", "args", "add", "joined",
                         "leaving", "left", "failed", "panicked"}]
  /\ at \in [Members -> SubIds \cup {None}]
  /\ first \in [Members -> Mmsg \cup {None}]
  /\ result \in [Members -> Seq(Result \cup {Torn})]
  /\ seen \in [Members -> Result \cup {None, Torn}]
  /\ rows \in [Members -> SUBSET (1..MaxVersion)]
  /\ job \in [Jobs -> JobType]
  /\ up \in BOOLEAN

\* An object is in use from its creation until its controller ends or its
\* initialisation is undone, and all that time it is what the key maps to: a key
\* is deleted blindly, so no deletion may hit an object it was not meant for.
Owns(s) ==
  \/ once[s] \in {"new", "busy"}
  \/ Running(s)
  \/ \E m \in Members : pc[m] = "undo" /\ at[m] = s

Initialises(m, s) == pc[m] \in {"init", "undo"} /\ at[m] = s

Registered ==
  /\ \A s \in SubIds : Owns(s) => registry = s
  /\ \A s \in SubIds : ctl[s] # "none" => once[s] = "done"
  /\ \A m \in Members : pc[m] # "start" => at[m] \in SubIds
  /\ \A m \in Members : pc[m] = "init" => once[at[m]] = "busy"
  /\ \A m \in Members : pc[m] = "undo" => once[at[m]] = "done" /\ ctl[at[m]] = "none"
  /\ \A s \in SubIds : \A m, k \in Members :
        Initialises(m, s) /\ Initialises(k, s) => m = k

\* At most one controller polls the database for a key, although every failed
\* caller and every controller that ends deletes the key of gj.subs without
\* looking at what is stored there now.
SingleController ==
  \A s, t \in SubIds : Running(s) /\ Running(t) => s = t

\* A client whose Subscribe returned, and that has not left, is in the slices of
\* a controller that is still in its loop: the controller never ends, and
\* deleteMember never drops the wrong slot, under a member that still listens.
JoinedIsServed ==
  \A m \in Members :
     Served(m) => /\ ctl[at[m]] \in {"select", "write", "poll", "fanout"}
                  /\ m \in MembersOf(at[m])

\* A client is only sent results of its own variables, whatever chunk of the
\* members, row of the statement or copy of the slices a worker took them from.
OwnResults ==
  \A m \in Members : \A i \in 1..Len(result[m]) :
     result[m][i] = Torn \/ result[m][i].vars = VarsOf[m]

\* The rows sent to a member: read, in its channel, or in the hands of a worker.
InChannel(m) == UNION {RowsOf(result[m][i]) : i \in 1..Len(result[m])}

InHands(m) ==
  UNION {RowsOf(RowFor(j)) :
           j \in {k \in Jobs : job[k].st \in {"updt", "send"} /\ job[k].res = m}}

SentTo(m) == rows[m] \cup InChannel(m) \cup InHands(m)

\* A cursor never moves past a row that was not sent: the cursor a worker reports
\* and the rows it sends travel on two channels, and workers may overlap.
NothingLost ==
  \A s \in SubIds : \A i \in Indices(s) :
     1..mval[s].mem[i].lo \subseteq SentTo(mval[s].mem[i].id)

\* A cursor feed has no gaps: no result a client takes starts after a row it was not
\* shown, although the cursor a poll asks with is older than the last rows sent.
NoGaps ==
  [][\A m \in Members :
        Receive(m) /\ seen[m] # None => seen'[m].lo <= seen[m].hi]_vars

\* Somebody else's compilation failed, and left no statement behind.
Forsaken(m) ==
  /\ stmt[at[m]] = "nil"
  /\ \E k \in Members \ {m} : at[k] = at[m] /\ pc[k] \in {"undo", "failed"}

\* Subscribe returns to its caller, with a Member or with an error, but for one case:
\* who waits in sub.Do for a caller whose compilation fails is told of no error and
\* ends in a nil pointer.
SubscribeReturns ==
  \A m \in Members :
     []<>(pc[m] = "start" \/ Answered(m) \/ (pc[m] = "panicked" /\ Forsaken(m)))

\* Unsubscribe returns: some controller takes the member from del, and no client
\* offers it for ever.
UnsubscribeReturns ==
  \A m \in Members : []<>(pc[m] # "leaving")

Current(m) ==
  \/ seen[m] \notin {None, Torn} /\ seen[m].hi = db[VarsOf[m]]
  \/ Cursor /\ db[VarsOf[m]] = 0

\* A client that stays subscribed is shown the data as it is: whatever raced with
\* a change, a later poll makes up for it.
EventuallyCurrent ==
  \A m \in Members : []<>(pc[m] = "joined" => Current(m))

\* The live query implements its promise: what a client was shown last is a
\* result of its own variables, real when it was taken, never older than before.
LQ == INSTANCE LiveQuery WITH
        data <- db,
        view <- [m \in Members |->
                   IF seen[m] = None THEN None
                   ELSE [vars |-> seen[m].vars, version |-> seen[m].hi]]

ShowsOwnDataInOrder == LQ!Spec

=============================================================================
