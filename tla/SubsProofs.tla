----------------------------- MODULE SubsProofs -----------------------------
(***************************************************************************)
(* Proofs about Subs, for any number of members, objects and workers.       *)
(*                                                                          *)
(* Shape says what the types leave open: the copies a worker took, the write *)
(* a controller is in the middle of and the slices fit together, so that no  *)
(* index is out of range.  With it TypeOK is inductive.                      *)
(*                                                                          *)
(* SlotsMatch says whose the slots are, and gives JoinedIsServed.             *)
(* EverybodysOwn follows a member's variables through slots, copies,          *)
(* parameters and rows, and gives OwnResults while nobody leaves.  CursorsPast *)
(* follows cursors the same way, and gives NothingLost while nobody reads     *)
(* slowly either.                                                            *)
(*                                                                          *)
(* The last two theorems assume NoOverlap, that no poll starts workers while *)
(* those of an earlier one are in flight.  VInv bounds the versions of what  *)
(* was sent by those of the rows in flight, and gives ShowsOwnDataInOrder.    *)
(* With CursorsPast it gives NoGaps.                                         *)
(***************************************************************************)
EXTENDS Subs, TLAPS

\* A client holds an object, and its first message when it offers itself.
ClientShape ==
  \A m \in Members : /\ pc[m] # "start" => at[m] \in SubIds
                     /\ pc[m] = "add" => first[m] \in Mmsg

\* A slot is written inside the arrays or right after them, by a controller
\* that is not in its select, for a statement that was wrapped.
SlotShape ==
  \A s \in SubIds :
     /\ mval[s].n <= Len(mval[s].mem)
     /\ ctl[s] = "write" =>
          /\ wr[s].slot \in Slot
          /\ wr[s].i \in 1..(Len(mval[s].mem) + 1)
          /\ \/ wr[s].n <= Len(mval[s].mem)
             \/ wr[s].n = wr[s].i
     /\ ctl[s] # "write" => wr[s] = NoWrite

Busy(j) == job[j].st # "idle"

\* A worker's chunk lies in the arrays it reads, and it has a row for each of
\* the members of its chunk.
Fits(w) ==
  /\ w.sub \in SubIds
  /\ w.from < w.to
  /\ w.mem = None => w.to <= Len(mval[w.sub].mem)
  /\ w.mem # None => w.to <= Len(w.mem)
  /\ w.inline => ctl[w.sub] = "fanout"
  /\ w.st = "query" => Len(w.params) = w.to - w.from
  /\ w.st \in {"rows", "updt", "send"} =>
       /\ w.i >= 1
       /\ HasParams => Len(w.rows) >= w.to - w.from
       /\ ~HasParams => Len(w.rows) = 1
  /\ w.st \in {"updt", "send"} => w.i <= w.to - w.from /\ w.res \in Members
  /\ w.st = "updt" => w.msg \in Mmsg

Inline(j) == Busy(j) /\ job[j].inline

\* A controller that runs workers runs one.
JobShape ==
  /\ \A j \in Jobs : Busy(j) => Fits(job[j])
  /\ \A j, k \in Jobs : Inline(j) /\ Inline(k) /\ job[j].sub = job[k].sub => j = k

Shape == ClientShape /\ SlotShape /\ JobShape

TInv == TypeOK /\ Shape

-----------------------------------------------------------------------------
(* Types of the operators.                                                  *)

\* A query returns a result.
LEMMA QueryType ==
  ASSUME TypeOK, NEW p \in Param
  PROVE  Query(p) \in Result
  BY SubsAssumption DEF TypeOK, Query, Param, Result

\* The message about a result, torn or not.
LEMMA MsgForType ==
  ASSUME NEW id \in Members, NEW r \in Result \cup {Torn}
  PROVE  MsgFor(id, r) \in Mmsg
  BY SubsAssumption DEF MsgFor, Mmsg, CursorIn, Result

\* Moving the cursor of a slot leaves a slot.
LEMMA MoveCursorType ==
  ASSUME NEW slot \in Slot, NEW cursor \in 0..MaxVersion
  PROVE  MoveCursor(slot, cursor) \in Slot /\ MoveCursor(slot, cursor).id = slot.id
  BY DEF MoveCursor, Slot

\* The slot of a new member.
LEMMA SlotOfType ==
  ASSUME TypeOK, NEW m \in Members, first[m] \in Mmsg
  PROVE  SlotOf(m) \in Slot /\ SlotOf(m).id = m
  <1> DEFINE slot == [vars |-> VarsOf[m], lo |-> 0, dh |-> first[m].dh,
                      res |-> m, id |-> m]
  <1>1. slot \in Slot /\ first[m].cursor \in 0..MaxVersion
    BY SubsAssumption DEF Slot, Mmsg
  <1> HIDE DEF slot
  <1>2. MoveCursor(slot, first[m].cursor) \in Slot
        /\ MoveCursor(slot, first[m].cursor).id = slot.id
    BY <1>1, MoveCursorType
  <1>3. slot.id = m /\ SlotOf(m) = MoveCursor(slot, first[m].cursor)
    BY DEF slot, SlotOf
  <1> QED
    BY <1>2, <1>3

\* The slot of a member after a message about it.
LEMMA UpdatedType ==
  ASSUME NEW slot \in Slot, NEW msg \in Mmsg
  PROVE  Updated(slot, msg) \in Slot /\ Updated(slot, msg).id = slot.id
  <1> DEFINE s2 == [slot EXCEPT !.dh = msg.dh]
  <1>1. s2 \in Slot /\ s2.id = slot.id /\ msg.cursor \in 0..MaxVersion
    BY DEF Slot, Mmsg
  <1> HIDE DEF s2
  <1>2. MoveCursor(s2, msg.cursor) \in Slot /\ MoveCursor(s2, msg.cursor).id = s2.id
    BY <1>1, MoveCursorType
  <1>3. Updated(slot, msg) = MoveCursor(s2, msg.cursor)
    BY DEF Updated, s2
  <1> QED
    BY <1>1, <1>2, <1>3

\* What a worker may read of one of its slots is a slot.
LEMMA ViewType ==
  ASSUME TInv, NEW j \in Jobs, Busy(j), NEW i \in Nat,
         job[j].from < i, i <= job[j].to
  PROVE  View(j, i) \subseteq Slot
  <1> DEFINE s == job[j].sub
  <1>1. s \in SubIds /\ job[j].from \in Nat
    BY DEF TInv, Shape, JobShape, Fits, TypeOK, JobType
  <1>2. CASE job[j].mem = None
    <2>1. i \in 1..Len(mval[s].mem)
      BY <1>1, <1>2 DEF TInv, Shape, JobShape, Fits, TypeOK, JobType
    <2>2. mval[s].mem[i] \in Slot
      BY <1>1, <2>1 DEF TInv, TypeOK
    <2>3. wr[s].i = i => wr[s].slot \in Slot
      BY <1>1, <2>1 DEF TInv, Shape, SlotShape, NoWrite
    <2>4. ASSUME NEW x \in Contents(s, i)
          PROVE  x \in Slot
      <3>1. CASE wr[s].i = i
        <4>1. PICK y \in [1..4 -> {mval[s].mem[i], wr[s].slot}] :
                x = [vars |-> y[1].vars, lo |-> y[1].lo, dh |-> y[2].dh,
                     res |-> y[3].res, id |-> y[4].id]
          BY <3>1 DEF Contents
        <4>2. y[1] \in Slot /\ y[2] \in Slot /\ y[3] \in Slot /\ y[4] \in Slot
          BY <2>2, <2>3, <3>1
        <4> QED
          BY <4>1, <4>2 DEF Slot
      <3>2. CASE wr[s].i # i
        BY <2>2, <3>2 DEF Contents
      <3> QED
        BY <3>1, <3>2
    <2> QED
      BY <1>2, <2>4 DEF View
  <1>3. CASE job[j].mem # None
    <2>1. job[j].mem \in Seq(Slot) /\ i \in 1..Len(job[j].mem)
      BY <1>1, <1>3 DEF TInv, Shape, JobShape, Fits, TypeOK, JobType
    <2> QED
      BY <1>3, <2>1 DEF View
  <1> QED
    BY <1>2, <1>3

\* A chunk that starts inside the slices is a worker about to start.
LEMMA ChunkType ==
  ASSUME TInv, NEW s \in SubIds, NEW from \in Nat, from < mval[s].n,
         NEW inline \in BOOLEAN
  PROVE  /\ Chunk(s, from, inline) \in JobType
         /\ Chunk(s, from, inline).st = "spawned"
         /\ Chunk(s, from, inline).sub = s
         /\ Chunk(s, from, inline).inline = inline
         /\ Chunk(s, from, inline).mem = None
         /\ Chunk(s, from, inline).from = from
         /\ from < Chunk(s, from, inline).to
         /\ Chunk(s, from, inline).to <= Len(mval[s].mem)
  <1>1. mval[s].n \in Nat /\ mval[s].n <= Len(mval[s].mem) /\ mval[s].mem \in Seq(Slot)
    BY DEF TInv, TypeOK, Shape, SlotShape
  <1>2. ChunkEnd(from, mval[s].n) \in Nat /\ from < ChunkEnd(from, mval[s].n)
        /\ ChunkEnd(from, mval[s].n) <= mval[s].n
    BY <1>1, SubsAssumption DEF ChunkEnd
  <1>3. <<>> \in Seq(Param) /\ <<>> \in Seq(Result)
    OBVIOUS
  <1> QED
    BY <1>1, <1>2, <1>3 DEF Chunk, JobType

-----------------------------------------------------------------------------
(* What a step leaves alone keeps its shape.                                *)

\* Workers are not disturbed while their arrays stay and no controller that
\* runs workers goes on.
LEMMA JobFrame ==
  ASSUME JobShape, job' = job, UNCHANGED mval,
         \A s \in SubIds : ctl[s] = "fanout" => ctl'[s] = "fanout"
  PROVE  JobShape'
  BY DEF JobShape, Fits, Inline, Busy

\* Slots are not disturbed by a step that leaves them, and where the
\* controllers are, alone.
LEMMA SlotFrame ==
  ASSUME SlotShape, UNCHANGED ctlVars
  PROVE  SlotShape'
  BY DEF SlotShape, ctlVars

-----------------------------------------------------------------------------
(* The steps of a client and of the database.                               *)

\* A change of the data.
LEMMA ChangeStep ==
  ASSUME TInv, NEW v \in Vars, Change(v)
  PROVE  TInv'
  <1>1. TypeOK'
    BY SMTT(30), SubsAssumption
    DEF TInv, TypeOK, Change, initVars, ctlVars, clientVars, readVars
  <1>2. ClientShape'
    BY DEF TInv, Shape, ClientShape, Change, clientVars
  <1>3. SlotShape' /\ JobShape'
    BY SlotFrame, JobFrame DEF TInv, Shape, Change, ctlVars
  <1> QED
    BY <1>1, <1>2, <1>3 DEF TInv, Shape

\* A client on its way through Subscribe, up to its first query.
LEMMA EntryStep ==
  ASSUME TInv, NEW m \in Members,
         Load(m) \/ Do(m) \/ InitSubFails(m) \/ Undo(m) \/ FirstFails(m)
  PROVE  TInv'
  <1>1. TypeOK'
    <2>1. CASE Load(m)
      <3>1. registry' \in SubIds
        BY <2>1 DEF TInv, TypeOK, Load, Lookup
      <3>2. at' \in [Members -> SubIds \cup {None}]
        BY <2>1 DEF TInv, TypeOK, Load, Lookup
      <3>3. once' \in [SubIds -> {"unused", "new", "busy", "done"}]
        <4>1. once \in [SubIds -> {"unused", "new", "busy", "done"}]
          BY DEF TInv, TypeOK
        <4>2. \/ once' = once
              \/ \E s \in SubIds : once' = [once EXCEPT ![s] = "new"]
          BY <2>1 DEF Load
        <4> QED
          BY <4>1, <4>2
      <3>4. pc' = [pc EXCEPT ![m] = "do"]
            /\ UNCHANGED <<db, stmt, wrapped, ctl, wr, mval, updt, js, first, result,
                           seen, rows, job, up>>
        BY <2>1 DEF Load, ctlVars, readVars
      <3> QED
        BY <3>1, <3>2, <3>3, <3>4 DEF TInv, TypeOK
    <2>2. CASE Do(m)
      BY ZenonT(30), <2>2 DEF TInv, TypeOK, Shape, ClientShape, Do, initVars, ctlVars,
                               clientVars, readVars
    <2>3. CASE InitSubFails(m)
      <3>1. PICK c \in {"nil", "blank", "ok"} : stmt' = [stmt EXCEPT ![at[m]] = c]
        BY <2>3 DEF InitSubFails
      <3>2. /\ once' = [once EXCEPT ![at[m]] = "done"]
            /\ pc' = [pc EXCEPT ![m] = "undo"]
            /\ UNCHANGED <<db, registry, wrapped, ctl, wr, mval, updt, js, at, first,
                           result, seen, rows, job, up>>
        BY <2>3 DEF InitSubFails, ctlVars, readVars
      <3> QED
        BY <3>1, <3>2 DEF TInv, TypeOK
    <2>4. CASE Undo(m)
      BY <2>4 DEF TInv, TypeOK, Undo, initVars, ctlVars, clientVars, readVars
    <2>5. CASE FirstFails(m)
      BY <2>5 DEF TInv, TypeOK, FirstFails, initVars, ctlVars, clientVars, readVars
    <2> QED
      BY <2>1, <2>2, <2>3, <2>4, <2>5
  <1>2. ClientShape'
    <2>1. CASE Load(m)
      <3>1. PICK s \in SubIds : at' = [at EXCEPT ![m] = s]
        BY <2>1 DEF TInv, TypeOK, Load, Lookup
      <3>2. pc' = [pc EXCEPT ![m] = "do"] /\ UNCHANGED first
        BY <2>1 DEF Load
      <3> QED
        BY <3>1, <3>2 DEF TInv, TypeOK, Shape, ClientShape
    <2>2. CASE Do(m) \/ InitSubFails(m) \/ Undo(m) \/ FirstFails(m)
      <3>1. PICK c \in {"init", "args", "undo", "failed", "panicked"} :
              pc' = [pc EXCEPT ![m] = c]
        BY <2>2 DEF Do, InitSubFails, Undo, FirstFails
      <3>2. pc[m] # "start" /\ UNCHANGED <<at, first>>
        BY <2>2 DEF Do, InitSubFails, Undo, FirstFails
      <3> QED
        BY <3>1, <3>2 DEF TInv, TypeOK, Shape, ClientShape
    <2> QED
      BY <2>1, <2>2
  <1>3. UNCHANGED ctlVars /\ job' = job
    BY DEF Load, Do, InitSubFails, Undo, FirstFails
  <1>4. SlotShape' /\ JobShape'
    BY <1>3, SlotFrame, JobFrame DEF TInv, Shape, ctlVars
  <1> QED
    BY <1>1, <1>2, <1>4 DEF TInv, Shape

\* initSub succeeds and starts the controller.
LEMMA InitSubStep ==
  ASSUME TInv, NEW m \in Members, InitSub(m), ctl[at[m]] = "none"
  PROVE  TInv'
  <1>1. at[m] \in SubIds
    BY DEF TInv, Shape, ClientShape, InitSub
  <1>2. TypeOK'
    <2>1. wrapped' \in [SubIds -> Nat]
      <3>1. wrapped \in [SubIds -> Nat]
        BY DEF TInv, TypeOK
      <3>2. \/ wrapped' = wrapped
            \/ wrapped' = [t \in SubIds |-> IF t = at[m] \/ ProdSec THEN wrapped[t] + 1
                                           ELSE wrapped[t]]
        BY DEF InitSub
      <3> QED
        BY <3>1, <3>2
    <2>2. /\ once' = [once EXCEPT ![at[m]] = "done"]
          /\ stmt' = [stmt EXCEPT ![at[m]] = "ok"]
          /\ ctl' = [ctl EXCEPT ![at[m]] = "select"]
          /\ pc' = [pc EXCEPT ![m] = "args"]
          /\ UNCHANGED <<db, registry, wr, mval, updt, js, at, first, result, seen,
                         rows, job, up>>
      BY DEF InitSub, StartController, readVars
    <2> QED
      BY <2>1, <2>2 DEF TInv, TypeOK
  <1>3. ClientShape'
    BY DEF TInv, TypeOK, Shape, ClientShape, InitSub
  <1>4. SlotShape'
    BY <1>1 DEF TInv, TypeOK, Shape, SlotShape, InitSub, StartController
  <1>5. JobShape'
    BY <1>1, JobFrame DEF TInv, TypeOK, Shape, InitSub, StartController
  <1> QED
    BY <1>2, <1>3, <1>4, <1>5 DEF TInv, Shape

\* The first query.
LEMMA FirstStep ==
  ASSUME TInv, NEW m \in Members, First(m)
  PROVE  TInv'
  <1>1. at[m] \in SubIds
    BY DEF TInv, Shape, ClientShape, First
  <1>2. PICK kept \in JsViews(at[m]) :
          LET r == IF kept # None THEN kept
                   ELSE Query([vars |-> VarsOf[m], lo |-> 0])
          IN /\ first' = [first EXCEPT ![m] = MsgFor(m, r)]
             /\ result' = IF Skipped(r) THEN result
                          ELSE [result EXCEPT ![m] = Append(@, r)]
    BY DEF First
  <1> DEFINE q == Query([vars |-> VarsOf[m], lo |-> 0])
             r == IF kept # None THEN kept ELSE q
  <1>3. kept \in Result \cup {None, Torn}
    BY <1>1 DEF TInv, TypeOK, JsViews
  <1>4. q \in Result
    <2>1. [vars |-> VarsOf[m], lo |-> 0] \in Param
      BY SubsAssumption DEF Param
    <2> QED
      BY <2>1, QueryType DEF TInv
  <1>5. r \in Result \cup {Torn}
    BY <1>3, <1>4
  <1>6. MsgFor(m, r) \in Mmsg
    BY <1>5, MsgForType
  <1>7. /\ first' = [first EXCEPT ![m] = MsgFor(m, r)]
        /\ result' = IF Skipped(r) THEN result
                     ELSE [result EXCEPT ![m] = Append(@, r)]
    BY <1>2
  <1> HIDE DEF r
  <1>8. first' \in [Members -> Mmsg \cup {None}] /\ first'[m] \in Mmsg
    BY <1>6, <1>7 DEF TInv, TypeOK
  <1>9. result' \in [Members -> Seq(Result \cup {Torn})]
    BY <1>5, <1>7 DEF TInv, TypeOK
  <1>10. TypeOK'
    BY <1>8, <1>9 DEF TInv, TypeOK, First, initVars, ctlVars, readVars
  <1>11. ClientShape'
    BY <1>7, <1>8 DEF TInv, TypeOK, Shape, ClientShape, First
  <1>12. SlotShape' /\ JobShape'
    BY SlotFrame, JobFrame DEF TInv, Shape, First, ctlVars
  <1> QED
    BY <1>10, <1>11, <1>12 DEF TInv, Shape

\* A client reads its channel or calls Unsubscribe.
LEMMA UseStep ==
  ASSUME TInv, NEW m \in Members, Receive(m) \/ Leave(m)
  PROVE  TInv'
  <1>1. CASE Receive(m)
    <2>1. Head(result[m]) \in Result \cup {Torn} /\ Tail(result[m]) \in Seq(Result \cup {Torn})
      BY <1>1 DEF TInv, TypeOK, Receive
    <2>2. RowsOf(Head(result[m])) \subseteq 1..MaxVersion
      BY <2>1, SubsAssumption DEF RowsOf, Result
    <2>3. TypeOK'
      BY <1>1, <2>1, <2>2 DEF TInv, TypeOK, Receive, initVars, ctlVars, clientVars
    <2>4. ClientShape'
      BY <1>1 DEF TInv, Shape, ClientShape, Receive, clientVars
    <2> QED
      BY <1>1, <2>3, <2>4, SlotFrame, JobFrame DEF TInv, Shape, Receive, ctlVars
  <1>2. CASE Leave(m)
    <2>1. TypeOK'
      BY <1>2 DEF TInv, TypeOK, Leave, initVars, ctlVars, readVars
    <2>2. ClientShape'
      BY <1>2 DEF TInv, TypeOK, Shape, ClientShape, Leave
    <2> QED
      BY <1>2, <2>1, <2>2, SlotFrame, JobFrame DEF TInv, Shape, Leave, ctlVars
  <1> QED
    BY <1>1, <1>2

-----------------------------------------------------------------------------
(* The steps of a controller.                                               *)

\* The part of TInv that a controller's step in its select may disturb.
CtlTypes ==
  /\ ctl \in [SubIds -> {"none", "select", "write", "poll", "fanout", "exit", "gone"}]
  /\ wr \in [SubIds -> [i : Nat, slot : Slot \cup {None}, n : Nat]]
  /\ SlotShape
  /\ JobShape

\* A controller starts to write a slot of its slices, or one past them.
LEMMA WriteStep ==
  ASSUME TInv, NEW s \in SubIds, ctl[s] = "select", UNCHANGED <<mval, job>>,
         NEW slot \in Slot, NEW i \in Nat \ {0}, NEW n \in Nat,
         i <= mval[s].n \/ (i = mval[s].n + 1 /\ n = i),
         n <= mval[s].n \/ n = i,
         StartWrite(s, i, slot, n)
  PROVE  CtlTypes'
  <1>1. /\ CtlTypes
        /\ mval[s].n \in Nat /\ Len(mval[s].mem) \in Nat
        /\ mval[s].n <= Len(mval[s].mem)
    <2>1. CtlTypes
      BY DEF TInv, TypeOK, Shape, CtlTypes
    <2>2. /\ mval[s].n \in Nat /\ Len(mval[s].mem) \in Nat
          /\ mval[s].n <= Len(mval[s].mem)
      BY SMTT(30) DEF TInv, TypeOK, Shape, SlotShape
    <2> QED
      BY <2>1, <2>2
  <1>2. /\ ctl' = [ctl EXCEPT ![s] = "write"]
        /\ wr' = [wr EXCEPT ![s] = [i |-> i, slot |-> slot, n |-> n]]
    BY DEF StartWrite
  <1>3. i \in 1..(Len(mval[s].mem) + 1) /\ (n <= Len(mval[s].mem) \/ n = i)
    BY <1>1
  <1>4. SlotShape'
    BY <1>1, <1>2, <1>3 DEF SlotShape, CtlTypes
  <1>5. JobShape'
    <2>1. \A t \in SubIds : ctl[t] = "fanout" => ctl'[t] = "fanout"
      BY <1>1, <1>2 DEF CtlTypes
    <2> QED
      BY <1>1, <2>1, JobFrame DEF CtlTypes
  <1>6. ctl' \in [SubIds -> {"none", "select", "write", "poll", "fanout", "exit", "gone"}]
    BY <1>1, <1>2 DEF CtlTypes
  <1>7. [i |-> i, slot |-> slot, n |-> n] \in [i : Nat, slot : Slot \cup {None}, n : Nat]
    OBVIOUS
  <1>8. wr' \in [SubIds -> [i : Nat, slot : Slot \cup {None}, n : Nat]]
    BY <1>1, <1>2, <1>7 DEF CtlTypes
  <1> QED
    BY <1>4, <1>5, <1>6, <1>8 DEF CtlTypes

\* A controller goes on, or to its end, without a write.
LEMMA StayStep ==
  ASSUME TInv, NEW s \in SubIds, ctl[s] = "select", UNCHANGED <<mval, job, wr>>,
         ctl' = [ctl EXCEPT ![s] = "exit"] \/ ctl' = ctl
  PROVE  CtlTypes'
  <1>1. CtlTypes
    BY DEF TInv, TypeOK, Shape, CtlTypes
  <1>2. SlotShape'
    BY <1>1 DEF SlotShape, CtlTypes
  <1>3. JobShape'
    BY <1>1, JobFrame DEF CtlTypes
  <1> QED
    BY <1>1, <1>2, <1>3 DEF CtlTypes

\* A member joins.
LEMMA CtlAddStep ==
  ASSUME TInv, NEW s \in SubIds, NEW m \in Members, CtlAdd(s, m)
  PROVE  TInv'
  <1>1. SlotOf(m) \in Slot
    BY SlotOfType DEF TInv, Shape, ClientShape, CtlAdd
  <1>2. mval[s].n \in Nat
    BY DEF TInv, TypeOK
  <1>3. StartWrite(s, mval[s].n + 1, SlotOf(m), mval[s].n + 1)
        /\ ctl[s] = "select" /\ UNCHANGED <<mval, job>>
    BY DEF CtlAdd
  <1>4. CtlTypes'
    <2> DEFINE n == mval[s].n + 1
    <2>1. n \in Nat \ {0} /\ n = mval[s].n + 1 /\ n = n
      BY <1>2
    <2> HIDE DEF n
    <2> QED
      BY <1>1, <1>3, <2>1, WriteStep
  <1>5. TypeOK'
    BY <1>4 DEF TInv, TypeOK, CtlTypes, CtlAdd, initVars, readVars
  <1>6. ClientShape'
    BY DEF TInv, TypeOK, Shape, ClientShape, CtlAdd
  <1> QED
    BY <1>4, <1>5, <1>6 DEF TInv, Shape, CtlTypes

\* A member leaves.
LEMMA CtlDelStep ==
  ASSUME TInv, NEW s \in SubIds, NEW m \in Members, CtlDel(s, m)
  PROVE  TInv'
  <1>1. /\ mval[s].n \in Nat /\ mval[s].n <= Len(mval[s].mem)
        /\ mval[s].mem \in Seq(Slot)
    BY DEF TInv, TypeOK, Shape, SlotShape
  <1>2. ctl[s] = "select" /\ UNCHANGED <<mval, job>>
    BY DEF CtlDel
  <1>5. CtlTypes'
    <2>1. CASE Find(s, m) # {}
      <3>1. PICK i \in Find(s, m) :
              StartWrite(s, i, mval[s].mem[mval[s].n], mval[s].n - 1)
        BY <2>1 DEF CtlDel
      <3>2. i \in Nat \ {0} /\ i <= mval[s].n
        BY <1>1 DEF Find, Indices
      <3>3. /\ mval[s].mem[mval[s].n] \in Slot
            /\ mval[s].n - 1 \in Nat /\ mval[s].n - 1 <= mval[s].n
        BY <1>1, <3>2
      <3> DEFINE slot == mval[s].mem[mval[s].n]
                 n == mval[s].n - 1
      <3>4. /\ slot \in Slot /\ n \in Nat /\ StartWrite(s, i, slot, n)
            /\ i <= mval[s].n /\ n <= mval[s].n
        BY <1>1, <3>1, <3>2, <3>3
      <3> HIDE DEF slot, n
      <3> QED
        BY <1>2, <3>2, <3>4, WriteStep
    <2>2. CASE Find(s, m) = {}
      <3>1. /\ wr' = wr
            /\ ctl' = [ctl EXCEPT ![s] = IF Emptied(mval[s].n) THEN "exit" ELSE ctl[s]]
        BY <2>2 DEF CtlDel
      <3>2. ctl \in [SubIds -> {"none", "select", "write", "poll", "fanout", "exit", "gone"}]
        BY DEF TInv, TypeOK
      <3>3. ctl' = [ctl EXCEPT ![s] = "exit"] \/ ctl' = ctl
        BY <3>1, <3>2
      <3> QED
        BY <1>2, <3>1, <3>3, StayStep
    <2> QED
      BY <2>1, <2>2
  <1>6. TypeOK'
    BY <1>5 DEF TInv, TypeOK, CtlTypes, CtlDel, initVars, readVars
  <1>7. ClientShape'
    BY DEF TInv, TypeOK, Shape, ClientShape, CtlDel
  <1> QED
    BY <1>5, <1>6, <1>7 DEF TInv, Shape, CtlTypes

\* The controller takes the message of a worker.
LEMMA CtlUpdtStep ==
  ASSUME TInv, NEW s \in SubIds, CtlUpdt(s)
  PROVE  TInv'
  <1> DEFINE msg == Head(updt[s])
  <1>1. /\ mval[s].n \in Nat /\ mval[s].n <= Len(mval[s].mem)
        /\ mval[s].mem \in Seq(Slot)
    BY DEF TInv, TypeOK, Shape, SlotShape
  <1>2. msg \in Mmsg /\ Tail(updt[s]) \in Seq(Mmsg)
    BY DEF TInv, TypeOK, CtlUpdt
  <1>3. ctl[s] = "select" /\ UNCHANGED <<mval, job>>
    BY DEF CtlUpdt
  <1>6. CtlTypes'
    <2>1. CASE Find(s, msg.id) # {}
      <3>1. PICK i \in Find(s, msg.id) :
              StartWrite(s, i, Updated(mval[s].mem[i], msg), mval[s].n)
        BY <2>1 DEF CtlUpdt
      <3>2. i \in Nat \ {0} /\ i <= mval[s].n
        BY <1>1 DEF Find, Indices
      <3>3. mval[s].mem[i] \in Slot
        BY <1>1, <3>2
      <3>4. Updated(mval[s].mem[i], msg) \in Slot
        BY <1>2, <3>3, UpdatedType
      <3>5. mval[s].n <= mval[s].n
        BY <1>1
      <3> DEFINE slot == Updated(mval[s].mem[i], msg)
                 n == mval[s].n
      <3>6. /\ slot \in Slot /\ n \in Nat /\ StartWrite(s, i, slot, n)
            /\ i <= mval[s].n /\ n <= mval[s].n
        BY <1>1, <3>1, <3>2, <3>4, <3>5
      <3> HIDE DEF slot, n
      <3> QED
        BY <1>3, <3>2, <3>6, WriteStep
    <2>2. CASE Find(s, msg.id) = {}
      <3>1. UNCHANGED <<ctl, wr>>
        BY <2>2 DEF CtlUpdt
      <3> QED
        BY <1>3, <3>1, StayStep
    <2> QED
      BY <2>1, <2>2
  <1>7. TypeOK'
    <2>1. updt' \in [SubIds -> Seq(Mmsg)]
      BY <1>2 DEF TInv, TypeOK, CtlUpdt
    <2>2. UNCHANGED <<db, registry, once, stmt, wrapped, mval, js, pc, at, first,
                      result, seen, rows, job, up>>
      BY DEF CtlUpdt, initVars, clientVars, readVars
    <2> QED
      BY <1>6, <2>1, <2>2 DEF TInv, TypeOK, CtlTypes
  <1>8. ClientShape'
    BY DEF TInv, Shape, ClientShape, CtlUpdt, clientVars
  <1> QED
    BY <1>6, <1>7, <1>8 DEF TInv, Shape, CtlTypes

\* The slot is written, in place or in new arrays.
LEMMA CtlWriteStep ==
  ASSUME TInv, NEW s \in SubIds, CtlWrite(s)
  PROVE  TInv'
  <1> DEFINE mv == mval[s]
             w == wr[s]
             grows == w.i > mv.cap
             mem2 == IF w.i <= Len(mv.mem) THEN [mv.mem EXCEPT ![w.i] = w.slot]
                     ELSE Append(mv.mem, w.slot)
             cap2 == IF ~grows THEN mv.cap ELSE IF mv.cap = 0 THEN 1 ELSE 2 * mv.cap
  <1>1. /\ mv.mem \in Seq(Slot) /\ mv.n \in Nat /\ mv.cap \in Nat
        /\ w.slot \in Slot /\ w.i \in 1..(Len(mv.mem) + 1) /\ w.n \in Nat
        /\ w.n <= Len(mv.mem) \/ w.n = w.i
    BY DEF TInv, TypeOK, Shape, SlotShape, CtlWrite
  <1>2. /\ ctl[s] = "write"
        /\ mval' = [mval EXCEPT ![s] = [mem |-> mem2, n |-> w.n, cap |-> cap2]]
        /\ job' = [j \in Jobs |-> IF grows /\ Sharing(j, s)
                                  THEN [job[j] EXCEPT !.mem = mv.mem] ELSE job[j]]
        /\ wr' = [wr EXCEPT ![s] = NoWrite]
        /\ ctl' = [ctl EXCEPT ![s] = IF w.n < mv.n /\ Emptied(w.n) THEN "exit"
                                     ELSE "select"]
        /\ UNCHANGED <<db, registry, once, stmt, wrapped, updt, js, pc, at, first,
                       result, seen, rows, up>>
    BY DEF CtlWrite, initVars, clientVars, readVars
  <1>3. mem2 \in Seq(Slot) /\ Len(mem2) >= Len(mv.mem) /\ Len(mem2) >= w.n
    BY <1>1
  <1>4. cap2 \in Nat
    BY <1>1
  <1> HIDE DEF mem2, cap2
  <1>5. mval' \in [SubIds -> [mem : Seq(Slot), n : Nat, cap : Nat]]
    BY <1>1, <1>2, <1>3, <1>4 DEF TInv, TypeOK
  <1>6. NoWrite \in [i : Nat, slot : Slot \cup {None}, n : Nat]
    BY DEF NoWrite
  <1>7. wr' \in [SubIds -> [i : Nat, slot : Slot \cup {None}, n : Nat]]
    BY <1>2, <1>6 DEF TInv, TypeOK
  <1>8. ctl' \in [SubIds -> {"none", "select", "write", "poll", "fanout", "exit", "gone"}]
    BY <1>2 DEF TInv, TypeOK
  <1>9. job' \in [Jobs -> JobType]
    <2>1. ASSUME NEW j \in Jobs
          PROVE  [job[j] EXCEPT !.mem = mv.mem] \in JobType
      <3>1. job[j] \in JobType
        BY DEF TInv, TypeOK
      <3> QED
        BY <1>1, <3>1 DEF JobType
    <2>2. \A j \in Jobs : job[j] \in JobType
      BY DEF TInv, TypeOK
    <2> QED
      BY <1>2, <2>1, <2>2
  <1>10. TypeOK'
    BY <1>2, <1>5, <1>7, <1>8, <1>9 DEF TInv, TypeOK
  <1>11. ClientShape'
    BY <1>2 DEF TInv, Shape, ClientShape
  <1>12. SlotShape'
    <2>1. \A t \in SubIds : t # s => /\ mval'[t] = mval[t] /\ wr'[t] = wr[t]
                                     /\ ctl'[t] = ctl[t]
      BY <1>2 DEF TInv, TypeOK
    <2>2. mval'[s].n <= Len(mval'[s].mem) /\ ctl'[s] # "write" /\ wr'[s] = NoWrite
      BY <1>2, <1>3 DEF TInv, TypeOK
    <2> QED
      BY <2>1, <2>2 DEF TInv, Shape, SlotShape
  <1>13. JobShape'
    <2>1. ASSUME NEW t \in SubIds
          PROVE  Len(mval'[t].mem) >= Len(mval[t].mem) /\ Len(mval[t].mem) \in Nat
                 /\ Len(mval'[t].mem) \in Nat
      <3>1. mval \in [SubIds -> [mem : Seq(Slot), n : Nat, cap : Nat]]
        BY DEF TInv, TypeOK
      <3>2. CASE t = s
        BY <1>2, <1>3, <3>1, <3>2
      <3>3. CASE t # s
        BY <1>2, <3>1, <3>3
      <3> QED
        BY <3>2, <3>3
    <2>2. \A t \in SubIds : ctl[t] = "fanout" => ctl'[t] = "fanout"
      BY <1>2 DEF TInv, TypeOK
    <2>3. ASSUME NEW j \in Jobs
          PROVE  /\ Busy(j)' <=> Busy(j)
                 /\ Inline(j)' <=> Inline(j)
                 /\ job'[j].sub = job[j].sub
      BY <1>2 DEF TInv, TypeOK, JobType, Busy, Inline
    <2>4. ASSUME NEW j \in Jobs, Busy(j)
          PROVE  Fits(job[j])'
      <3>1. Fits(job[j]) /\ job[j] \in JobType
        BY <2>4 DEF TInv, TypeOK, Shape, JobShape
      <3>2. CASE grows /\ Sharing(j, s)
        <4>1. job'[j] = [job[j] EXCEPT !.mem = mv.mem] /\ job[j].sub = s /\ job[j].mem = None
          BY <1>2, <3>2 DEF Sharing
        <4>2. /\ job'[j].mem = mv.mem
              /\ job'[j].st = job[j].st /\ job'[j].sub = s
              /\ job'[j].from = job[j].from /\ job'[j].to = job[j].to
              /\ job'[j].inline = job[j].inline /\ job'[j].params = job[j].params
              /\ job'[j].rows = job[j].rows /\ job'[j].i = job[j].i
              /\ job'[j].msg = job[j].msg /\ job'[j].res = job[j].res
          BY <3>1, <4>1 DEF JobType
        <4>3. job[j].to <= Len(mv.mem) /\ job[j].to <= Len(mval'[s].mem)
          BY SMTT(30), <2>1, <3>1, <4>1 DEF Fits, JobType
        <4> QED
          BY <2>2, <3>1, <4>1, <4>2, <4>3 DEF Fits
      <3>3. CASE ~(grows /\ Sharing(j, s))
        <4>1. job'[j] = job[j]
          BY <1>2, <3>3
        <4>2. job[j].sub \in SubIds /\ job[j].to \in Nat
          BY <3>1 DEF Fits, JobType
        <4>3. job[j].mem = None => job[j].to <= Len(mval'[job[j].sub].mem)
          BY <2>1, <3>1, <4>2 DEF Fits
        <4> QED
          BY <2>2, <3>1, <4>1, <4>2, <4>3 DEF Fits
      <3> QED
        BY <3>2, <3>3
    <2> QED
      BY <2>3, <2>4 DEF TInv, Shape, JobShape
  <1> QED
    BY <1>10, <1>11, <1>12, <1>13 DEF TInv, Shape

\* The controller ends.
LEMMA CtlExitStep ==
  ASSUME TInv, NEW s \in SubIds, CtlExit(s)
  PROVE  TInv'
  <1>1. ctl[s] = "exit" /\ ctl' = [ctl EXCEPT ![s] = "gone"] /\ UNCHANGED <<wr, mval, job>>
    BY DEF CtlExit
  <1>2. ctl' \in [SubIds -> {"none", "select", "write", "poll", "fanout", "exit", "gone"}]
    BY <1>1 DEF TInv, TypeOK
  <1>3. TypeOK'
    BY <1>2 DEF TInv, TypeOK, CtlExit, initVars, clientVars, readVars
  <1>4. ClientShape'
    BY DEF TInv, Shape, ClientShape, CtlExit, clientVars
  <1>5. SlotShape'
    BY <1>1 DEF TInv, TypeOK, Shape, SlotShape
  <1>6. JobShape'
    <2>1. \A t \in SubIds : ctl[t] = "fanout" => ctl'[t] = "fanout"
      BY <1>1 DEF TInv, TypeOK
    <2> QED
      BY <1>1, <2>1, JobFrame DEF TInv, Shape
  <1> QED
    BY <1>3, <1>4, <1>5, <1>6 DEF TInv, Shape

\* Between the firing of the timer and the fan-out, or back when no worker is free,
\* only the controller itself has moved.
Turn(s) == CtlTimer(s) \/ CtlPollSkipped(s)

LEMMA TurnStep ==
  ASSUME TInv, NEW s \in SubIds, Turn(s)
  PROVE  TInv'
  <1>1. /\ ctl[s] \in {"select", "poll"}
        /\ \E c \in {"select", "poll"} : ctl' = [ctl EXCEPT ![s] = c]
        /\ UNCHANGED <<db, registry, once, stmt, wrapped, wr, mval, updt, js, pc, at,
                       first, result, seen, rows, job, up>>
    BY DEF Turn, CtlTimer, CtlPollSkipped, initVars, clientVars, readVars
  <1>2. ctl' \in [SubIds -> {"none", "select", "write", "poll", "fanout", "exit", "gone"}]
    BY <1>1 DEF TInv, TypeOK
  <1>3. TypeOK'
    BY <1>1, <1>2 DEF TInv, TypeOK
  <1>4. ClientShape'
    BY <1>1 DEF TInv, Shape, ClientShape
  <1>5. SlotShape'
    BY <1>1 DEF TInv, TypeOK, Shape, SlotShape
  <1>6. JobShape'
    <2>1. \A t \in SubIds : ctl[t] = "fanout" => ctl'[t] = "fanout"
      BY <1>1 DEF TInv, TypeOK
    <2> QED
      BY <1>1, <2>1, JobFrame DEF TInv, Shape
  <1> QED
    BY <1>3, <1>4, <1>5, <1>6 DEF TInv, Shape

\* A worker is started, or the controller begins to work itself.
LEMMA CtlPollStep ==
  ASSUME TInv, NEW s \in SubIds, CtlPoll(s)
  PROVE  TInv'
  <1> DEFINE inline == mval[s].n > MaxPerWorker
             w == Chunk(s, 0, inline)
  <1>1. PICK j \in Jobs : job[j].st = "idle" /\ job' = [job EXCEPT ![j] = w]
    BY DEF CtlPoll
  <1>2. /\ ctl[s] = "poll" /\ mval[s].n \in Nat /\ 0 < mval[s].n
        /\ ctl' = [ctl EXCEPT ![s] = IF inline THEN "fanout" ELSE "select"]
        /\ UNCHANGED <<db, registry, once, stmt, wrapped, wr, mval, updt, js, pc, at,
                       first, result, seen, rows, up>>
    BY DEF CtlPoll, TInv, TypeOK, initVars, clientVars, readVars
  <1>3. /\ w \in JobType /\ w.st = "spawned" /\ w.sub = s /\ w.inline = inline
        /\ w.mem = None /\ w.from < w.to /\ w.to <= Len(mval[s].mem)
    <2>1. inline \in BOOLEAN /\ 0 \in Nat
      OBVIOUS
    <2> HIDE DEF inline
    <2> QED
      BY <1>2, <2>1, ChunkType
  <1> HIDE DEF w
  <1>4. ctl' \in [SubIds -> {"none", "select", "write", "poll", "fanout", "exit", "gone"}]
    BY <1>2 DEF TInv, TypeOK
  <1>5. job' \in [Jobs -> JobType] /\ job'[j] = w
        /\ \A k \in Jobs : k # j => job'[k] = job[k]
    BY <1>1, <1>3 DEF TInv, TypeOK
  <1>6. TypeOK'
    BY <1>2, <1>4, <1>5 DEF TInv, TypeOK
  <1>7. ClientShape' /\ SlotShape'
    BY <1>2 DEF TInv, TypeOK, Shape, ClientShape, SlotShape
  <1>8. (\A t \in SubIds : ctl[t] = "fanout" => ctl'[t] = "fanout")
        /\ (inline => ctl'[s] = "fanout")
    BY <1>2 DEF TInv, TypeOK
  <1>9. JobShape'
    <2>1. ASSUME NEW k \in Jobs, Busy(k)'
          PROVE  Fits(job[k])'
      <3>1. CASE k = j
        BY <1>2, <1>3, <1>5, <1>8, <3>1 DEF Fits
      <3>2. CASE k # j
        <4>1. Fits(job[k])
          BY <1>5, <2>1, <3>2 DEF TInv, Shape, JobShape, Busy
        <4> QED
          BY <1>2, <1>5, <1>8, <3>2, <4>1 DEF Fits
      <3> QED
        BY <3>1, <3>2
    <2>2. ASSUME NEW k \in Jobs, Inline(k)', k # j
          PROVE  Inline(k) /\ job[k].sub # s /\ job'[k].sub = job[k].sub
      <3>1. Inline(k) /\ job'[k] = job[k]
        BY <1>5, <2>2 DEF Inline, Busy
      <3>2. ctl[job[k].sub] = "fanout"
        BY <3>1 DEF TInv, Shape, JobShape, Fits, Inline
      <3> QED
        BY <1>2, <3>1, <3>2
    <2>3. job'[j].sub = s
      BY <1>3, <1>5
    <2>4. ASSUME NEW k \in Jobs, NEW l \in Jobs, Inline(k)', Inline(l)',
                 job'[k].sub = job'[l].sub
          PROVE  k = l
      BY <2>2, <2>3, <2>4 DEF TInv, Shape, JobShape
    <2> QED
      BY <2>1, <2>4 DEF JobShape
  <1> QED
    BY <1>6, <1>7, <1>9 DEF TInv, Shape

-----------------------------------------------------------------------------
(* The steps of a worker.                                                   *)

\* One worker moves and stays within its arrays; if it is run by a controller it
\* was before, and the controllers that run workers still do.
LEMMA WorkerFrame ==
  ASSUME TInv, NEW j \in Jobs, NEW w \in JobType,
         job' = [job EXCEPT ![j] = w], UNCHANGED <<mval, ctl>>,
         w.st # "idle" => Fits(w),
         w.st # "idle" /\ w.inline => Inline(j) /\ w.sub = job[j].sub
  PROVE  job' \in [Jobs -> JobType] /\ JobShape'
  <1>1. job \in [Jobs -> JobType]
    BY DEF TInv, TypeOK
  <1>2. job'[j] = w /\ \A k \in Jobs : k # j => job'[k] = job[k]
    BY <1>1
  <1>3. job' \in [Jobs -> JobType]
    BY <1>1
  <1>4. ASSUME NEW k \in Jobs, Busy(k)'
        PROVE  Fits(job[k])'
    <2>1. Fits(job'[k])
      BY <1>2, <1>4 DEF TInv, Shape, JobShape, Busy
    <2> QED
      BY <2>1 DEF Fits
  <1>5. \A k \in Jobs : Inline(k)' => Inline(k) /\ job'[k].sub = job[k].sub
    BY <1>2 DEF Inline, Busy
  <1> QED
    BY <1>3, <1>4, <1>5 DEF TInv, Shape, JobShape

\* What the steps of workers have in common: clients and slots are left alone.
LEMMA WorkerRest ==
  ASSUME TInv, UNCHANGED <<db, registry, once, stmt, wrapped, ctl, wr, mval, pc, at,
                           first, seen, rows>>,
         job' \in [Jobs -> JobType], JobShape',
         updt' \in [SubIds -> Seq(Mmsg)],
         js' \in [SubIds -> Result \cup {None}],
         result' \in [Members -> Seq(Result \cup {Torn})],
         up' \in BOOLEAN
  PROVE  TInv'
  <1>1. TypeOK'
    BY DEF TInv, TypeOK
  <1>2. ClientShape' /\ SlotShape'
    BY DEF TInv, Shape, ClientShape, SlotShape
  <1> QED
    BY <1>1, <1>2 DEF TInv, Shape

\* What is known of a worker in flight.
LEMMA BusyFacts ==
  ASSUME TInv, NEW j \in Jobs, Busy(j)
  PROVE  /\ job[j] \in JobType /\ Fits(job[j]) /\ job[j].sub \in SubIds
         /\ job[j].from \in Nat /\ job[j].to \in Nat /\ job[j].i \in Nat
         /\ Size(j) \in Nat \ {0} /\ Size(j) = job[j].to - job[j].from
  <1>1. job[j] \in JobType /\ Fits(job[j])
    BY DEF TInv, TypeOK, Shape, JobShape
  <1> QED
    BY <1>1 DEF JobType, Fits, Size

\* The parameters are rendered.
LEMMA JobRenderStep ==
  ASSUME TInv, NEW j \in Jobs, JobRender(j)
  PROVE  TInv'
  <1> DEFINE all == UNION {View(j, job[j].from + i) : i \in 1..Size(j)}
  <1>1. /\ Busy(j) /\ job[j].st = "spawned" /\ job[j] \in JobType /\ Fits(job[j])
        /\ job[j].from \in Nat /\ job[j].to \in Nat
    BY DEF TInv, TypeOK, Shape, JobShape, JobRender, Busy, JobType
  <1>2. Size(j) \in Nat
    BY <1>1 DEF Size, Fits
  <1>3. all \subseteq Slot
    <2>1. ASSUME NEW i \in 1..Size(j)
          PROVE  View(j, job[j].from + i) \subseteq Slot
      <3>1. job[j].from + i \in Nat /\ job[j].from < job[j].from + i
            /\ job[j].from + i <= job[j].to
        BY <1>1, <1>2 DEF Size
      <3> QED
        BY <1>1, <3>1, ViewType
    <2> QED
      BY <2>1
  <1>4. PICK slots \in [1..Size(j) -> all] :
          job' = [job EXCEPT ![j].st = "query",
                    ![j].params = [i \in 1..Size(j) |->
                       [vars |-> slots[i].vars, lo |-> slots[i].lo]]]
    BY DEF JobRender
  <1> DEFINE ps == [i \in 1..Size(j) |-> [vars |-> slots[i].vars, lo |-> slots[i].lo]]
             w == [job[j] EXCEPT !.st = "query", !.params = ps]
  <1>5. ps \in Seq(Param) /\ Len(ps) = Size(j)
    <2>1. \A i \in 1..Size(j) : [vars |-> slots[i].vars, lo |-> slots[i].lo] \in Param
      BY <1>3, <1>4 DEF Slot, Param
    <2> QED
      BY <1>2, <2>1
  <1>6. job' = [job EXCEPT ![j] = w]
    BY <1>4
  <1> HIDE DEF ps
  <1>7. w \in JobType /\ Fits(w)
        /\ w.sub = job[j].sub /\ w.inline = job[j].inline
    BY <1>1, <1>5 DEF JobType, Fits, Size
  <1> HIDE DEF w
  <1>8. job' \in [Jobs -> JobType] /\ JobShape'
    BY <1>1, <1>6, <1>7, WorkerFrame DEF JobRender, ctlVars, Inline
  <1> QED
    BY <1>8, WorkerRest DEF JobRender, TInv, TypeOK, initVars, ctlVars, clientVars, readVars

\* The query returns.
LEMMA JobQueryStep ==
  ASSUME TInv, NEW j \in Jobs, JobQuery(j)
  PROVE  TInv'
  <1> DEFINE n == Size(j)
  <1>1. /\ Busy(j) /\ job[j].st = "query" /\ job[j] \in JobType /\ Fits(job[j])
        /\ n \in Nat \ {0} /\ n = job[j].to - job[j].from
        /\ job[j].params \in Seq(Param) /\ Len(job[j].params) = n
    <2>1. Busy(j) /\ job[j].st = "query"
      BY DEF JobQuery, Busy
    <2> QED
      BY <2>1, BusyFacts DEF JobType, Fits
  <1> HIDE DEF n
  <1>2. /\ RowCount(j) \in Nat
        /\ HasParams => RowCount(j) >= n
        /\ ~HasParams => RowCount(j) = 1
    <2>1. n * n \in Nat /\ n * n >= n
      BY <1>1
    <2> QED
      BY <1>1, <2>1 DEF RowCount, n
  <1> DEFINE rs == [i \in 1..RowCount(j) |-> Query(job[j].params[((i - 1) % n) + 1])]
             w == [job[j] EXCEPT !.st = "rows", !.i = 1, !.rows = rs]
  <1>3. \A i \in 1..RowCount(j) : rs[i] \in Result
    <2>1. ASSUME NEW i \in 1..RowCount(j)
          PROVE  ((i - 1) % n) + 1 \in 1..n
      <3>1. i - 1 \in Nat
        BY <1>2
      <3> QED
        BY <1>1, <3>1
    <2>2. \A i \in 1..RowCount(j) : job[j].params[((i - 1) % n) + 1] \in Param
      BY <1>1, <2>1
    <2> QED
      BY <2>2, QueryType DEF TInv
  <1>4. rs \in Seq(Result) /\ Len(rs) = RowCount(j)
    BY <1>2, <1>3
  <1>5. job' = [job EXCEPT ![j] = w]
    BY DEF JobQuery, n
  <1> HIDE DEF rs
  <1>6. w \in JobType /\ Fits(w) /\ w.sub = job[j].sub /\ w.inline = job[j].inline
    <2>1. w \in JobType
      BY <1>1, <1>4 DEF JobType
    <2>2. /\ w.st = "rows" /\ w.i = 1 /\ w.rows = rs /\ w.sub = job[j].sub
          /\ w.inline = job[j].inline /\ w.from = job[j].from /\ w.to = job[j].to
          /\ w.mem = job[j].mem
      BY <1>1 DEF JobType
    <2> HIDE DEF w
    <2>3. Fits(w)
      BY <1>1, <1>2, <1>4, <2>2 DEF Fits
    <2> QED
      BY <2>1, <2>2, <2>3
  <1> HIDE DEF w
  <1>7. job' \in [Jobs -> JobType] /\ JobShape'
    BY <1>1, <1>5, <1>6, WorkerFrame DEF JobQuery, ctlVars, Inline
  <1> QED
    BY <1>7, WorkerRest DEF JobQuery, TInv, TypeOK, initVars, ctlVars, clientVars, readVars

\* The worker compares a row with what its member has.
LEMMA JobNotifyStep ==
  ASSUME TInv, NEW j \in Jobs, JobNotify(j)
  PROVE  TInv'
  <1>1. /\ Busy(j) /\ job[j].st = "rows" /\ job[j] \in JobType /\ Fits(job[j])
        /\ job[j].i <= Size(j) /\ Size(j) = job[j].to - job[j].from
        /\ job[j].i \in Nat \ {0} /\ job[j].from \in Nat /\ job[j].to \in Nat
    <2>1. Busy(j) /\ job[j].st = "rows" /\ job[j].i <= Size(j)
      BY DEF JobNotify, Busy
    <2> QED
      BY <2>1, BusyFacts DEF Fits
  <1>2. View(j, MemberIndex(j)) \subseteq Slot
    <2>1. MemberIndex(j) \in Nat /\ job[j].from < MemberIndex(j) /\ MemberIndex(j) <= job[j].to
      BY <1>1 DEF MemberIndex
    <2> QED
      BY <1>1, <2>1, ViewType
  <1>3. RowFor(j) \in Result
    BY <1>1, SubsAssumption DEF RowFor, JobType, Fits
  <1>4. PICK slot \in View(j, MemberIndex(j)) :
          \/ job' = [job EXCEPT ![j].i = @ + 1]
          \/ job' = [job EXCEPT ![j].st = "updt", ![j].res = slot.res,
                                ![j].msg = MsgFor(slot.id, RowFor(j))]
    BY DEF JobNotify
  <1>5. slot.res \in Members /\ slot.id \in Members
    BY <1>2 DEF Slot
  <1>6. MsgFor(slot.id, RowFor(j)) \in Mmsg
    BY <1>3, <1>5, MsgForType
  <1> DEFINE next == job[j].i + 1
             w1 == [job[j] EXCEPT !.i = next]
             w2 == [job[j] EXCEPT !.st = "updt", !.res = slot.res,
                                  !.msg = MsgFor(slot.id, RowFor(j))]
  <1>7. job' = [job EXCEPT ![j] = w1] \/ job' = [job EXCEPT ![j] = w2]
    <2>1. CASE job' = [job EXCEPT ![j].i = @ + 1]
      BY <2>1
    <2>2. CASE job' = [job EXCEPT ![j].st = "updt", ![j].res = slot.res,
                                  ![j].msg = MsgFor(slot.id, RowFor(j))]
      BY <2>2
    <2> QED
      BY <1>4, <2>1, <2>2
  <1>8. w1 \in JobType /\ Fits(w1) /\ w1.sub = job[j].sub /\ w1.inline = job[j].inline
    <2>1. next \in Nat
      BY <1>1
    <2> HIDE DEF next
    <2>4. w1 \in JobType
      BY <1>1, <2>1 DEF JobType
    <2>2. /\ w1.st = "rows" /\ w1.i = next /\ w1.rows = job[j].rows
          /\ w1.sub = job[j].sub /\ w1.inline = job[j].inline
          /\ w1.from = job[j].from /\ w1.to = job[j].to /\ w1.mem = job[j].mem
      BY <1>1 DEF JobType
    <2> HIDE DEF w1
    <2>3. Fits(w1)
      BY <1>1, <2>2 DEF Fits, next
    <2> QED
      BY <2>2, <2>3, <2>4
  <1>9. w2 \in JobType /\ Fits(w2) /\ w2.sub = job[j].sub /\ w2.inline = job[j].inline
    <2>1. w2 \in JobType
      BY <1>1, <1>5, <1>6 DEF JobType
    <2>2. /\ w2.st = "updt" /\ w2.i = job[j].i /\ w2.rows = job[j].rows
          /\ w2.sub = job[j].sub /\ w2.inline = job[j].inline
          /\ w2.from = job[j].from /\ w2.to = job[j].to /\ w2.mem = job[j].mem
          /\ w2.res = slot.res /\ w2.msg = MsgFor(slot.id, RowFor(j))
      BY <1>1 DEF JobType
    <2> HIDE DEF w2
    <2>3. Fits(w2)
      BY <1>1, <1>5, <1>6, <2>2 DEF Fits
    <2> QED
      BY <2>1, <2>2, <2>3
  <1> HIDE DEF w1, w2
  <1>10. job' \in [Jobs -> JobType] /\ JobShape'
    BY <1>1, <1>7, <1>8, <1>9, WorkerFrame DEF JobNotify, ctlVars, Inline
  <1> QED
    BY <1>10, WorkerRest DEF JobNotify, TInv, TypeOK, initVars, ctlVars, clientVars, readVars

\* The message goes to the controller.
LEMMA JobUpdtStep ==
  ASSUME TInv, NEW j \in Jobs, JobUpdt(j)
  PROVE  TInv'
  <1>1. /\ Busy(j) /\ job[j].st = "updt" /\ job[j] \in JobType /\ Fits(job[j])
        /\ job[j].msg \in Mmsg /\ job[j].sub \in SubIds
    BY DEF TInv, TypeOK, Shape, JobShape, JobUpdt, Busy, Fits
  <1> DEFINE w == [job[j] EXCEPT !.st = "send", !.msg = None]
  <1>2. job' = [job EXCEPT ![j] = w]
    BY DEF JobUpdt
  <1>3. w \in JobType /\ Fits(w) /\ w.sub = job[j].sub /\ w.inline = job[j].inline
    BY <1>1 DEF JobType, Fits
  <1> HIDE DEF w
  <1>4. job' \in [Jobs -> JobType] /\ JobShape'
    BY <1>1, <1>2, <1>3, WorkerFrame DEF JobUpdt, ctlVars, Inline
  <1>5. updt' \in [SubIds -> Seq(Mmsg)]
    BY <1>1 DEF TInv, TypeOK, JobUpdt
  <1> QED
    BY <1>4, <1>5, WorkerRest
    DEF JobUpdt, TInv, TypeOK, initVars, ctlVars, clientVars, readVars

\* The result goes to the member, or nowhere.
LEMMA JobSendStep ==
  ASSUME TInv, NEW j \in Jobs, JobSend(j)
  PROVE  TInv'
  <1>1. /\ Busy(j) /\ job[j].st = "send" /\ job[j] \in JobType /\ Fits(job[j])
        /\ job[j].res \in Members
        /\ job[j].i <= Size(j) /\ Size(j) = job[j].to - job[j].from
        /\ job[j].i \in Nat \ {0}
    <2>1. Busy(j) /\ job[j].st = "send"
      BY DEF JobSend, Busy
    <2> QED
      BY <2>1, BusyFacts DEF Fits
  <1>2. RowFor(j) \in Result
    BY <1>1, SubsAssumption DEF RowFor, JobType, Fits
  <1> DEFINE next == job[j].i + 1
             w == [job[j] EXCEPT !.st = "rows", !.i = next, !.res = None]
  <1>3. job' = [job EXCEPT ![j] = w]
    BY DEF JobSend
  <1>4. w \in JobType /\ Fits(w) /\ w.sub = job[j].sub /\ w.inline = job[j].inline
    <2>1. next \in Nat
      BY <1>1
    <2> HIDE DEF next
    <2>4. w \in JobType
      BY <1>1, <2>1 DEF JobType
    <2>2. /\ w.st = "rows" /\ w.i = next /\ w.rows = job[j].rows
          /\ w.sub = job[j].sub /\ w.inline = job[j].inline
          /\ w.from = job[j].from /\ w.to = job[j].to /\ w.mem = job[j].mem
      BY <1>1 DEF JobType
    <2> HIDE DEF w
    <2>3. Fits(w)
      BY <1>1, <2>2 DEF Fits, next
    <2> QED
      BY <2>2, <2>3, <2>4
  <1> HIDE DEF w
  <1>5. job' \in [Jobs -> JobType] /\ JobShape'
    BY ZenonT(30), <1>1, <1>3, <1>4, WorkerFrame DEF JobSend, ctlVars, Inline
  <1>6. result' \in [Members -> Seq(Result \cup {Torn})]
    <2>1. \/ result' = result
          \/ result' = [result EXCEPT ![job[j].res] = Append(@, RowFor(j))]
      BY DEF JobSend
    <2>2. result \in [Members -> Seq(Result \cup {Torn})]
      BY DEF TInv, TypeOK
    <2>3. Append(result[job[j].res], RowFor(j)) \in Seq(Result \cup {Torn})
      BY <1>1, <1>2, <2>2
    <2> QED
      BY <1>1, <2>1, <2>2, <2>3
  <1> QED
    BY <1>5, <1>6, WorkerRest
    DEF JobSend, TInv, TypeOK, initVars, ctlVars, clientVars, readVars

\* A worker that panics ends the process and changes nothing else.
LEMMA JobPanicsStep ==
  ASSUME TInv, NEW j \in Jobs, JobPanics(j)
  PROVE  TInv'
  <1>1. JobShape'
    BY JobFrame DEF TInv, Shape, JobPanics, ctlVars
  <1> QED
    BY <1>1, WorkerRest
    DEF JobPanics, TInv, TypeOK, initVars, ctlVars, clientVars, readVars

\* A worker returns; a controller that runs it takes the next chunk or goes back.
LEMMA ReturnStep ==
  ASSUME TInv, NEW j \in Jobs, Busy(j), Return(j),
         UNCHANGED <<db, registry, once, stmt, wrapped, wr, mval, updt, pc, at, first,
                     result, seen, rows, up>>,
         js' \in [SubIds -> Result \cup {None}]
  PROVE  TInv'
  <1> DEFINE s == job[j].sub
             w == IF MoreChunks(j) THEN Chunk(s, job[j].to, TRUE) ELSE IdleJob
  <1>1. /\ s \in SubIds /\ job[j].to \in Nat /\ Fits(job[j]) /\ mval[s].n \in Nat
        /\ job[j] \in JobType
    BY BusyFacts DEF TInv, TypeOK
  <1>2. /\ w \in JobType
        /\ w.st = "idle" \/ (/\ MoreChunks(j) /\ w.st = "spawned" /\ w.sub = s
                             /\ w.inline = TRUE /\ w.mem = None /\ w.from < w.to
                             /\ w.to <= Len(mval[s].mem))
    <2>1. CASE MoreChunks(j)
      <3>1. job[j].to < mval[s].n
        BY <2>1 DEF MoreChunks
      <3> QED
        BY ZenonT(30), <1>1, <2>1, <3>1, ChunkType
    <2>2. CASE ~MoreChunks(j)
      BY <2>2 DEF IdleJob, JobType
    <2> QED
      BY <2>1, <2>2
  <1>3. /\ job' = [job EXCEPT ![j] = w]
        /\ ctl' = [ctl EXCEPT ![s] = IF job[j].inline /\ ~MoreChunks(j) THEN "select"
                                     ELSE ctl[s]]
    BY DEF Return
  <1> HIDE DEF w
  <1>4. ctl' \in [SubIds -> {"none", "select", "write", "poll", "fanout", "exit", "gone"}]
        /\ \A t \in SubIds : t # s => ctl'[t] = ctl[t]
    BY <1>3 DEF TInv, TypeOK
  <1>5. job' \in [Jobs -> JobType] /\ job'[j] = w
        /\ \A k \in Jobs : k # j => job'[k] = job[k]
    BY <1>2, <1>3 DEF TInv, TypeOK
  <1>6. TypeOK'
    BY <1>4, <1>5 DEF TInv, TypeOK
  <1>7. ClientShape'
    BY DEF TInv, Shape, ClientShape
  <1>8. MoreChunks(j) => job[j].inline
    BY DEF MoreChunks
  <1>9. job[j].inline => ctl[s] = "fanout"
    BY <1>1 DEF Fits
  <1>10. ctl'[s] = ctl[s] \/ (ctl'[s] = "select" /\ ctl[s] = "fanout" /\ job[j].inline
                             /\ w.st = "idle")
    BY <1>1, <1>2, <1>3, <1>9 DEF TInv, TypeOK, w, IdleJob
  <1>11. SlotShape'
    BY <1>1, <1>4, <1>10 DEF TInv, Shape, SlotShape
  <1>12. MoreChunks(j) => ctl'[s] = "fanout"
    BY <1>1, <1>3, <1>8, <1>9 DEF TInv, TypeOK
  <1>13. ASSUME NEW k \in Jobs, Busy(k)'
         PROVE  Fits(job[k])'
    <2>1. CASE k = j
      BY <1>1, <1>2, <1>5, <1>12, <1>13, <2>1 DEF Fits, Busy
    <2>2. CASE k # j
      <3>1. Busy(k) /\ job'[k] = job[k] /\ Fits(job[k])
        BY <1>5, <1>13, <2>2 DEF TInv, Shape, JobShape, Busy
      <3>2. job[k].inline => job[k].sub # s \/ ~job[j].inline
        BY <2>2, <3>1 DEF TInv, Shape, JobShape, Inline
      <3>3. job[k].inline => ctl'[job[k].sub] = "fanout"
        BY <1>4, <1>10, <3>1, <3>2 DEF Fits
      <3> QED
        BY <3>1, <3>3 DEF Fits
    <2> QED
      BY <2>1, <2>2
  <1>14. \A k \in Jobs : Inline(k)' => Inline(k) /\ job'[k].sub = job[k].sub
    BY <1>2, <1>5, <1>8 DEF Inline, Busy
  <1>15. JobShape'
    BY <1>13, <1>14 DEF TInv, Shape, JobShape
  <1> QED
    BY <1>6, <1>7, <1>11, <1>15 DEF TInv, Shape

\* The query fails.
LEMMA JobFailsStep ==
  ASSUME TInv, NEW j \in Jobs, JobFails(j)
  PROVE  TInv'
  <1>1. Busy(j) /\ Return(j) /\ js' \in [SubIds -> Result \cup {None}]
    BY DEF JobFails, Busy, TInv, TypeOK
  <1> QED
    BY <1>1, ReturnStep DEF JobFails, initVars, clientVars, readVars

\* The worker is done.
LEMMA JobDoneStep ==
  ASSUME TInv, NEW j \in Jobs, JobDone(j)
  PROVE  TInv'
  <1>1. Busy(j) /\ Return(j) /\ job[j].st = "rows" /\ job[j].sub \in SubIds
    BY BusyFacts DEF JobDone, Busy
  <1>2. js' \in [SubIds -> Result \cup {None}]
    <2>1. ~HasParams => job[j].rows[1] \in Result
      <3>1. job[j].rows \in Seq(Result)
        BY <1>1, BusyFacts DEF JobType
      <3>2. ~HasParams => Len(job[j].rows) = 1
        BY <1>1, BusyFacts DEF Fits
      <3> QED
        BY <3>1, <3>2
    <2>2. js \in [SubIds -> Result \cup {None}]
      BY DEF TInv, TypeOK
    <2>3. js' = js \/ (~HasParams /\ js' = [js EXCEPT ![job[j].sub] = job[j].rows[1]])
      BY DEF JobDone
    <2> QED
      BY <1>1, <2>1, <2>2, <2>3
  <1> QED
    BY <1>1, <1>2, ReturnStep DEF JobDone, initVars, clientVars, readVars

-----------------------------------------------------------------------------
\* The initial state.
LEMMA InitTInv ==
  ASSUME Init
  PROVE  TInv
  <1>1. db \in [Vars -> 0..MaxVersion]
    BY SubsAssumption DEF Init
  <1>2. /\ wr \in [SubIds -> [i : Nat, slot : Slot \cup {None}, n : Nat]]
        /\ mval \in [SubIds -> [mem : Seq(Slot), n : Nat, cap : Nat]]
        /\ wrapped \in [SubIds -> Nat]
    BY DEF Init, NoWrite, EmptyMval
  <1>3. job \in [Jobs -> JobType]
    BY DEF Init, IdleJob, JobType
  <1>4. TypeOK
    BY <1>1, <1>2, <1>3 DEF Init, TypeOK
  <1>5. ClientShape /\ SlotShape
    BY DEF Init, ClientShape, SlotShape, EmptyMval
  <1>6. JobShape
    BY DEF Init, JobShape, Busy, Inline, IdleJob
  <1> QED
    BY <1>4, <1>5, <1>6 DEF TInv, Shape

-----------------------------------------------------------------------------
(* The registry.  Registered is inductive, given the types.                 *)

\* The inductive invariant.
RInv == TInv /\ Registered

\* A step that is not about the registry: the objects are left alone, no
\* controller starts or ends and no client enters or leaves its initialisation.
LEMMA QuietStep ==
  ASSUME RInv, UNCHANGED <<registry, once, at>>,
         \A s \in SubIds : /\ Running(s)' => Running(s)
                           /\ ctl'[s] = "none" <=> ctl[s] = "none",
         \A m \in Members :
            \/ pc'[m] = pc[m]
            \/ pc[m] # "start" /\ pc'[m] \notin {"start", "init", "undo"}
  PROVE  Registered'
  <1>1. Registered
    BY DEF RInv
  <1>2. \A s \in SubIds : Owns(s)' => Owns(s)
    BY DEF Owns
  <1>3. \A m \in Members, s \in SubIds : Initialises(m, s)' => Initialises(m, s)
    BY DEF Initialises
  <1> QED
    BY <1>1, <1>2, <1>3 DEF Registered

\* A caller finds the object of the key, or stores one of its own.
LEMMA LoadRegistered ==
  ASSUME RInv, NEW m \in Members, Load(m)
  PROVE  Registered'
  <1>1. /\ Registered /\ pc[m] = "start" /\ pc' = [pc EXCEPT ![m] = "do"]
        /\ ctl' = ctl /\ DOMAIN pc = Members
        /\ registry \in SubIds \cup {None}
        /\ DOMAIN at = Members
    BY DEF RInv, TInv, TypeOK, Load, ctlVars
  <1>2. \A k \in Members : k # m => pc'[k] = pc[k] /\ at'[k] = at[k]
    BY <1>1 DEF Load
  <1>3. pc'[m] = "do"
    BY <1>1
  <1>4. CASE registry # None
    <2>1. at' = [at EXCEPT ![m] = registry] /\ UNCHANGED <<registry, once>>
      BY <1>4 DEF Load, Lookup
    <2>2. \A s \in SubIds : Owns(s)' => Owns(s)
      BY <1>1, <1>2, <1>3, <2>1 DEF Owns, Running
    <2>3. \A k \in Members, s \in SubIds : Initialises(k, s)' => Initialises(k, s)
      BY <1>2, <1>3 DEF Initialises
    <2>4. at'[m] \in SubIds
      BY <1>1, <1>4, <2>1
    <2> QED
      BY <1>1, <1>2, <1>3, <2>1, <2>2, <2>3, <2>4 DEF Registered
  <1>5. CASE registry = None
    <2>1. PICK s \in SubIds : /\ once[s] = "unused"
                              /\ once' = [once EXCEPT ![s] = "new"]
                              /\ at' = [at EXCEPT ![m] = s]
                              /\ registry' = s
      BY <1>5 DEF Load, Lookup
    <2>2. once'[s] = "new" /\ \A t \in SubIds : t # s => once'[t] = once[t]
      BY <2>1 DEF RInv, TInv, TypeOK
    <2>3. \A t \in SubIds : ~Owns(t)
      BY <1>1, <1>5, SubsAssumption DEF Registered
    <2>4. \A t \in SubIds : t # s => ~Owns(t)'
      BY <1>1, <1>2, <1>3, <2>2, <2>3 DEF Owns, Running
    <2>5. \A k \in Members, t \in SubIds : Initialises(k, t)' => Initialises(k, t) /\ k # m
      BY <1>2, <1>3 DEF Initialises
    <2>6. at'[m] = s
      BY <1>1, <2>1
    <2>7. \A t \in SubIds : ctl'[t] # "none" => once'[t] = "done"
      BY <1>1, <2>1, <2>2 DEF Registered
    <2>8. \A k \in Members : pc'[k] = "init" => once'[at'[k]] = "busy"
      BY <1>1, <1>2, <1>3, <2>1, <2>2 DEF Registered
    <2>9. \A k \in Members :
            pc'[k] = "undo" => once'[at'[k]] = "done" /\ ctl'[at'[k]] = "none"
      BY <1>1, <1>2, <1>3, <2>1, <2>2 DEF Registered
    <2>10. \A k \in Members : pc'[k] # "start" => at'[k] \in SubIds
      BY <1>1, <1>2, <1>3, <2>6 DEF Registered
    <2> QED
      BY <1>1, <2>1, <2>4, <2>5, <2>7, <2>8, <2>9, <2>10 DEF Registered
  <1> QED
    BY <1>4, <1>5

\* The first caller begins to initialise.
LEMMA DoRegistered ==
  ASSUME RInv, NEW m \in Members, Do(m)
  PROVE  Registered'
  <1> DEFINE s == at[m]
  <1>1. /\ Registered /\ pc[m] = "do" /\ s \in SubIds
        /\ UNCHANGED <<registry, ctl, at>>
        /\ DOMAIN pc = Members /\ DOMAIN once = SubIds
    BY DEF RInv, TInv, TypeOK, Shape, ClientShape, Do, ctlVars
  <1>2. CASE once[s] = "new" /\ pc' = [pc EXCEPT ![m] = "init"]
             /\ once' = [once EXCEPT ![s] = "busy"]
    <2>1. pc'[m] = "init" /\ \A k \in Members : k # m => pc'[k] = pc[k]
      BY <1>1, <1>2
    <2>2. once'[s] = "busy" /\ \A t \in SubIds : t # s => once'[t] = once[t]
      BY <1>1, <1>2
    <2>3. \A t \in SubIds : Owns(t)' => Owns(t)
      BY <1>1, <1>2, <2>1, <2>2 DEF Owns, Running
    <2>4. \A k \in Members : ~Initialises(k, s)
      BY <1>1, <1>2 DEF Registered, Initialises
    <2>5. \A k \in Members, t \in SubIds :
            Initialises(k, t)' <=> Initialises(k, t) \/ (k = m /\ t = s)
      BY <1>1, <2>1 DEF Initialises
    <2>6. \A k \in Members : pc'[k] = "init" => once'[at'[k]] = "busy"
      BY <1>1, <2>1, <2>2 DEF Registered
    <2>7. \A k \in Members :
            pc'[k] = "undo" => once'[at'[k]] = "done" /\ ctl'[at'[k]] = "none"
      BY <1>1, <1>2, <2>1, <2>2 DEF Registered
    <2>8. \A t \in SubIds : ctl'[t] # "none" => once'[t] = "done"
      BY <1>1, <1>2, <2>2 DEF Registered
    <2>9. \A t \in SubIds : \A k, l \in Members :
            Initialises(k, t)' /\ Initialises(l, t)' => k = l
      BY <1>1, <2>4, <2>5 DEF Registered
    <2> QED
      BY <1>1, <2>1, <2>3, <2>6, <2>7, <2>8, <2>9 DEF Registered
  <1>3. CASE pc' = [pc EXCEPT ![m] = "args"] /\ once' = once
    <2>1. \A k \in Members :
            \/ pc'[k] = pc[k]
            \/ pc[k] # "start" /\ pc'[k] \notin {"start", "init", "undo"}
      BY <1>1, <1>3
    <2> QED
      BY <1>1, <1>3, <2>1, QuietStep DEF Running
  <1> QED
    BY <1>2, <1>3 DEF Do

\* The initialisation ends, with a controller or without one.
LEMMA InitRegistered ==
  ASSUME RInv, NEW m \in Members, InitSub(m) \/ InitSubFails(m)
  PROVE  ctl[at[m]] = "none" /\ Registered'
  <1> DEFINE s == at[m]
  <1>1. /\ Registered /\ pc[m] = "init" /\ s \in SubIds
        /\ UNCHANGED <<registry, at>>
        /\ once' = [once EXCEPT ![s] = "done"]
        /\ DOMAIN pc = Members /\ DOMAIN once = SubIds /\ DOMAIN ctl = SubIds
    BY DEF RInv, TInv, TypeOK, Shape, ClientShape, InitSub, InitSubFails
  <1>2. once[s] = "busy" /\ ctl[s] = "none" /\ registry = s
    BY <1>1 DEF Registered, Owns
  <1>3. \/ pc' = [pc EXCEPT ![m] = "args"] /\ ctl' = [ctl EXCEPT ![s] = "select"]
        \/ pc' = [pc EXCEPT ![m] = "undo"] /\ ctl' = ctl
    BY DEF InitSub, StartController, InitSubFails, ctlVars
  <1>4. once'[s] = "done" /\ \A t \in SubIds : t # s => once'[t] = once[t]
    BY <1>1
  <1>5. \A k \in Members : k # m => pc'[k] = pc[k]
    BY <1>1, <1>3
  <1>6. \A t \in SubIds : t # s => ctl'[t] = ctl[t]
    BY <1>1, <1>3
  <1>7. (pc'[m] = "args" /\ ctl'[s] = "select") \/ (pc'[m] = "undo" /\ ctl'[s] = "none")
    BY <1>1, <1>2, <1>3
  <1>8. \A t \in SubIds : t # s => (Owns(t)' => Owns(t))
    BY <1>1, <1>4, <1>5, <1>6 DEF Owns, Running
  <1>9. \A k \in Members, t \in SubIds : Initialises(k, t)' => Initialises(k, t)
    BY <1>1, <1>5 DEF Initialises
  <1>10. \A k \in Members : k # m => ~Initialises(k, s)
    BY <1>1 DEF Registered, Initialises
  <1>11. \A k \in Members : pc'[k] = "init" => once'[at'[k]] = "busy"
    BY <1>1, <1>4, <1>5, <1>7, <1>10 DEF Registered, Initialises
  <1>12. \A k \in Members :
           pc'[k] = "undo" => once'[at'[k]] = "done" /\ ctl'[at'[k]] = "none"
    <2>1. ASSUME NEW k \in Members, pc'[k] = "undo", k # m
          PROVE  once'[at'[k]] = "done" /\ ctl'[at'[k]] = "none"
      BY <1>1, <1>4, <1>5, <1>6, <1>10, <2>1 DEF Registered, Initialises
    <2> QED
      BY <1>1, <1>4, <1>7, <2>1
  <1>13. \A t \in SubIds : ctl'[t] # "none" => once'[t] = "done"
    BY <1>1, <1>4, <1>6 DEF Registered
  <1>14. \A t \in SubIds : Owns(t)' => registry' = t
    BY <1>1, <1>2, <1>8 DEF Registered
  <1>15. \A k \in Members : pc'[k] # "start" => at'[k] \in SubIds
    BY <1>1, <1>5 DEF Registered
  <1> QED
    BY <1>1, <1>2, <1>9, <1>11, <1>12, <1>13, <1>14, <1>15 DEF Registered

\* The deletion after a failed initialisation hits its own object.
LEMMA UndoRegistered ==
  ASSUME RInv, NEW m \in Members, Undo(m)
  PROVE  Registered'
  <1> DEFINE s == at[m]
  <1>1. /\ Registered /\ pc[m] = "undo" /\ s \in SubIds /\ registry' = None
        /\ UNCHANGED <<once, at, ctl>> /\ pc' = [pc EXCEPT ![m] = "failed"]
        /\ DOMAIN pc = Members
    BY DEF RInv, TInv, TypeOK, Shape, ClientShape, Undo, initVars, ctlVars
  <1>2. once[s] = "done" /\ ctl[s] = "none" /\ registry = s
    BY <1>1 DEF Registered, Owns
  <1>3. pc'[m] = "failed" /\ \A k \in Members : k # m => pc'[k] = pc[k]
    BY <1>1
  <1>4. \A t \in SubIds : Owns(t)' => Owns(t)
    BY <1>1, <1>3 DEF Owns, Running
  <1>5. ~Owns(s)'
    BY <1>1, <1>2, <1>3 DEF Owns, Running, Registered, Initialises
  <1>6. \A t \in SubIds : ~Owns(t)'
    BY <1>1, <1>2, <1>4, <1>5 DEF Registered
  <1>7. \A k \in Members, t \in SubIds : Initialises(k, t)' => Initialises(k, t)
    BY <1>1, <1>3 DEF Initialises
  <1> QED
    BY <1>1, <1>3, <1>6, <1>7 DEF Registered

\* The deletion of a controller that ends hits its own object.
LEMMA ExitRegistered ==
  ASSUME RInv, NEW s \in SubIds, CtlExit(s)
  PROVE  Registered'
  <1>1. /\ Registered /\ ctl[s] = "exit" /\ ctl' = [ctl EXCEPT ![s] = "gone"]
        /\ registry' = None /\ UNCHANGED <<once, at, pc>> /\ DOMAIN ctl = SubIds
    BY DEF RInv, TInv, TypeOK, CtlExit, initVars, clientVars
  <1>2. once[s] = "done" /\ registry = s
    BY <1>1 DEF Registered, Owns, Running
  <1>3. ctl'[s] = "gone" /\ \A t \in SubIds : t # s => ctl'[t] = ctl[t]
    BY <1>1
  <1>4. ~Owns(s)'
    BY <1>1, <1>2, <1>3 DEF Owns, Running, Registered
  <1>5. \A t \in SubIds : t # s => ~Owns(t)'
    BY <1>1, <1>2, <1>3 DEF Owns, Running, Registered
  <1>6. \A k \in Members, t \in SubIds : Initialises(k, t)' => Initialises(k, t)
    BY <1>1 DEF Initialises
  <1>7. \A k \in Members :
          pc'[k] = "undo" => once'[at'[k]] = "done" /\ ctl'[at'[k]] = "none"
    BY <1>1, <1>3 DEF Registered
  <1> QED
    BY <1>1, <1>2, <1>3, <1>4, <1>5, <1>6, <1>7 DEF Registered

\* The other steps of clients, controllers and workers are quiet.
LEMMA ClientQuiet ==
  ASSUME RInv, NEW m \in Members, First(m) \/ FirstFails(m) \/ Receive(m) \/ Leave(m)
  PROVE  Registered'
  <1>1. UNCHANGED <<registry, once, at, ctl>>
    BY DEF First, FirstFails, Receive, Leave, initVars, ctlVars, clientVars
  <1>2. pc' = pc \/ (pc[m] # "start" /\ \E c \in {"add", "failed", "panicked", "leaving"} :
                                            pc' = [pc EXCEPT ![m] = c])
    BY DEF First, FirstFails, Receive, Leave, clientVars
  <1>3. \A k \in Members :
          \/ pc'[k] = pc[k]
          \/ pc[k] # "start" /\ pc'[k] \notin {"start", "init", "undo"}
    BY <1>2 DEF RInv, TInv, TypeOK
  <1> QED
    BY <1>1, <1>3, QuietStep DEF Running

\* The loop of a controller, until it ends.
LEMMA ControllerQuiet ==
  ASSUME RInv, NEW s \in SubIds,
         \/ \E m \in Members : CtlAdd(s, m) \/ CtlDel(s, m)
         \/ CtlUpdt(s) \/ CtlWrite(s) \/ CtlPoll(s) \/ Turn(s)
  PROVE  Registered'
  <1>1. UNCHANGED <<registry, once, at>>
    BY DEF CtlAdd, CtlDel, CtlUpdt, CtlWrite, CtlPoll, Turn, CtlTimer,
           CtlPollSkipped, initVars, clientVars
  <1>2. DOMAIN ctl = SubIds /\ DOMAIN pc = Members
    BY DEF RInv, TInv, TypeOK
  <1>3. /\ ctl[s] \in {"select", "write", "poll"}
        /\ ctl' = ctl \/ \E c \in {"select", "write", "poll", "fanout", "exit"} :
                           ctl' = [ctl EXCEPT ![s] = c]
    <2>1. CASE \E m \in Members : CtlAdd(s, m) \/ CtlDel(s, m)
      BY <1>2, <2>1 DEF CtlAdd, CtlDel, StartWrite
    <2>2. CASE CtlUpdt(s)
      BY <1>2, <2>2 DEF CtlUpdt, StartWrite
    <2>3. CASE CtlWrite(s)
      BY <1>2, <2>3 DEF CtlWrite
    <2>4. CASE CtlPoll(s)
      BY <1>2, <2>4 DEF CtlPoll
    <2>5. CASE Turn(s)
      BY <1>2, <2>5 DEF Turn, CtlTimer, CtlPollSkipped
    <2> QED
      BY <2>1, <2>2, <2>3, <2>4, <2>5
  <1>4. pc' = pc \/ \E m \in Members : /\ pc[m] \in {"add", "leaving"}
                                        /\ \E c \in {"joined", "left"} :
                                              pc' = [pc EXCEPT ![m] = c]
    BY DEF CtlAdd, CtlDel, CtlUpdt, CtlWrite, CtlPoll, Turn, CtlTimer,
           CtlPollSkipped, clientVars
  <1>5. \A t \in SubIds : (Running(t)' => Running(t)) /\ (ctl'[t] = "none" <=> ctl[t] = "none")
    BY <1>2, <1>3 DEF Running
  <1>6. \A k \in Members :
          \/ pc'[k] = pc[k]
          \/ pc[k] # "start" /\ pc'[k] \notin {"start", "init", "undo"}
    BY <1>2, <1>4
  <1> QED
    BY <1>1, <1>5, <1>6, QuietStep

\* The steps of workers.
LEMMA WorkerQuiet ==
  ASSUME RInv, NEW j \in Jobs, Worker(j)
  PROVE  Registered'
  <1>1. UNCHANGED <<registry, once, at, pc>>
    BY DEF Worker, JobRender, JobQuery, JobFails, JobNotify, JobUpdt, JobSend, JobDone,
           JobPanics, initVars, clientVars
  <1>2. \A s \in SubIds : (Running(s)' => Running(s)) /\ (ctl'[s] = "none" <=> ctl[s] = "none")
    <2>1. CASE JobFails(j) \/ JobDone(j)
      <3>1. Return(j) /\ Busy(j)
        BY <2>1 DEF JobFails, JobDone, Busy
      <3>2. Fits(job[j]) /\ DOMAIN ctl = SubIds
        BY <3>1 DEF RInv, TInv, TypeOK, Shape, JobShape
      <3>3. ctl' = ctl \/ (/\ ctl[job[j].sub] = "fanout"
                          /\ ctl' = [ctl EXCEPT ![job[j].sub] = "select"])
        <4>1. CASE job[j].inline /\ ~MoreChunks(j)
          BY <3>1, <3>2, <4>1 DEF Return, Fits
        <4>2. CASE ~(job[j].inline /\ ~MoreChunks(j))
          <5>1. ctl' = [ctl EXCEPT ![job[j].sub] = ctl[job[j].sub]]
            BY <3>1, <4>2 DEF Return
          <5> QED
            BY <5>1 DEF RInv, TInv, TypeOK
        <4> QED
          BY <4>1, <4>2
      <3> QED
        BY <3>2, <3>3 DEF Running
    <2>2. CASE ~(JobFails(j) \/ JobDone(j))
      <3>1. ctl' = ctl
        BY <2>2 DEF Worker, JobRender, JobQuery, JobNotify, JobUpdt, JobSend, JobPanics,
                    ctlVars
      <3> QED
        BY <3>1 DEF Running
    <2> QED
      BY <2>1, <2>2
  <1> QED
    BY <1>1, <1>2, QuietStep

-----------------------------------------------------------------------------
(* The theorems.                                                            *)

\* The invariant holds initially ...
LEMMA InitRInv ==
  ASSUME Init
  PROVE  RInv
  <1>1. Registered
    BY DEF Init, Registered, Owns, Running, Initialises
  <1> QED
    BY <1>1, InitTInv DEF RInv

\* ... and every step keeps it.
LEMMA NextRInv ==
  ASSUME RInv, [Next]_vars
  PROVE  RInv'
  <1>0. TInv /\ Registered
    BY DEF RInv
  <1>1. ASSUME NEW v \in Vars, Change(v)
        PROVE  RInv'
    <2>1. Registered'
      BY <1>1, QuietStep DEF Change, initVars, ctlVars, clientVars, Running
    <2> QED
      BY <1>0, <1>1, <2>1, ChangeStep DEF RInv
  <1>2. ASSUME NEW m \in Members, Client(m)
        PROVE  RInv'
    <2>1. CASE InitSub(m)
      <3>1. ctl[at[m]] = "none" /\ Registered'
        BY <2>1, InitRegistered
      <3> QED
        BY <1>0, <2>1, <3>1, InitSubStep DEF RInv
    <2>2. CASE Load(m) \/ Do(m) \/ InitSubFails(m) \/ Undo(m)
      <3>1. Registered'
        BY <2>2, LoadRegistered, DoRegistered, InitRegistered, UndoRegistered
      <3> QED
        BY <1>0, <2>2, <3>1, EntryStep DEF RInv
    <2>3. CASE First(m) \/ FirstFails(m) \/ Receive(m) \/ Leave(m)
      <3>1. Registered'
        BY <2>3, ClientQuiet
      <3> QED
        BY <1>0, <2>3, <3>1, FirstStep, EntryStep, UseStep DEF RInv
    <2> QED
      BY <1>2, <2>1, <2>2, <2>3 DEF Client
  <1>3. ASSUME NEW s \in SubIds, Controller(s)
        PROVE  RInv'
    <2>1. TInv'
      BY <1>0, <1>3, CtlAddStep, CtlDelStep, CtlUpdtStep, CtlWriteStep, CtlPollStep,
         TurnStep, CtlExitStep DEF Controller, Turn
    <2>2. Registered'
      BY <1>3, ControllerQuiet, ExitRegistered DEF Controller, Turn
    <2> QED
      BY <2>1, <2>2 DEF RInv
  <1>4. ASSUME NEW j \in Jobs, Worker(j)
        PROVE  RInv'
    <2>1. TInv'
      BY <1>0, <1>4, JobRenderStep, JobQueryStep, JobFailsStep, JobNotifyStep, JobUpdtStep,
         JobSendStep, JobDoneStep, JobPanicsStep DEF Worker
    <2> QED
      BY <1>4, <2>1, WorkerQuiet DEF RInv
  <1>5. CASE UNCHANGED vars
    <2>1. Registered'
      BY <1>0, <1>5 DEF vars, initVars, ctlVars, clientVars, Registered, Owns, Running,
                        Initialises
    <2>2. TypeOK'
      BY <1>0, <1>5 DEF vars, initVars, ctlVars, clientVars, readVars, TInv, TypeOK
    <2>3. Shape'
      BY <1>0, <1>5 DEF vars, ctlVars, clientVars, TInv, Shape, ClientShape, SlotShape,
                        JobShape, Busy, Inline, Fits
    <2> QED
      BY <2>1, <2>2, <2>3 DEF RInv, TInv
  <1> QED
    BY <1>1, <1>2, <1>3, <1>4, <1>5 DEF Next

\* Whatever the members, objects and workers, no step of a client, a controller
\* or a worker leaves the types and shapes of sub, mval, Member and the locals of
\* subCheckUpdates.
THEOREM TypeCorrect == Spec => [](TypeOK /\ Shape)
  <1>1. Init => RInv
    BY InitRInv
  <1>2. RInv /\ [Next]_vars => RInv'
    BY NextRInv
  <1>3. RInv => TypeOK /\ Shape
    BY DEF RInv, TInv
  <1> QED
    BY <1>1, <1>2, <1>3, PTL DEF Spec

\* gj.subs.Delete(k) removes whatever is stored, but only ever the object of the
\* caller: an object in use is the one the key maps to.
THEOREM RegistryCorrect == Spec => []Registered
  <1>1. Init => RInv
    BY InitRInv
  <1>2. RInv /\ [Next]_vars => RInv'
    BY NextRInv
  <1>3. RInv => Registered
    BY DEF RInv
  <1> QED
    BY <1>1, <1>2, <1>3, PTL DEF Spec

\* A key is polled by one controller, however many callers subscribe, fail and
\* leave at the same time.
THEOREM OneController == Spec => []SingleController
  <1>1. Registered => SingleController
    BY DEF Registered, SingleController, Owns
  <1> QED
    BY <1>1, RegistryCorrect, PTL

-----------------------------------------------------------------------------
(* The slots of the slices are those of the clients that are served.         *)

\* The length of the slices once the write in progress is done, and whose slot
\* an index then is.
Count(s) == IF ctl[s] = "write" THEN wr[s].n ELSE mval[s].n

IdAt(s, i) == SlotAfterWrite(s, i).id

InLoop(s) == ctl[s] \in {"select", "write", "poll", "fanout"}

\* The slots are one for each client that is served, and a controller outside
\* its loop has none.
SlotsMatch ==
  \A s \in SubIds :
     /\ \A i, k \in 1..Count(s) : IdAt(s, i) = IdAt(s, k) => i = k
     /\ \A i \in 1..Count(s) : /\ IdAt(s, i) \in Members
                               /\ Served(IdAt(s, i)) /\ at[IdAt(s, i)] = s
     /\ \A m \in Members : Served(m) /\ at[m] = s => \E i \in 1..Count(s) : IdAt(s, i) = m
     /\ ~InLoop(s) => Count(s) = 0

JInv == RInv /\ SlotsMatch

\* Outside a write the slots are those of the slices.
LEMMA SlotsAtRest ==
  ASSUME TInv, NEW s \in SubIds, ctl[s] # "write"
  PROVE  /\ Count(s) = mval[s].n /\ mval[s].n \in Nat
         /\ \A i \in 1..mval[s].n : /\ IdAt(s, i) = mval[s].mem[i].id
                                    /\ mval[s].mem[i] \in Slot
  <1>1. mval[s].n \in Nat /\ mval[s].mem \in Seq(Slot) /\ mval[s].n <= Len(mval[s].mem)
    BY DEF TInv, TypeOK, Shape, SlotShape
  <1>2. wr[s].i = 0
    BY DEF TInv, Shape, SlotShape, NoWrite
  <1>3. \A i \in 1..mval[s].n : mval[s].mem[i] \in Slot
    BY <1>1
  <1> QED
    BY <1>1, <1>2, <1>3 DEF Count, IdAt, SlotAfterWrite

\* A step that moves no slot from one member to another and serves the same
\* clients.
LEMMA SameSlots ==
  ASSUME SlotsMatch,
         \A s \in SubIds : /\ Count(s)' = Count(s)
                           /\ \A i \in 1..Count(s) : IdAt(s, i)' = IdAt(s, i)
                           /\ InLoop(s) => InLoop(s)' \/ Count(s) = 0,
         \A m \in Members : /\ Served(m)' <=> Served(m)
                            /\ Served(m) => at'[m] = at[m]
  PROVE  SlotsMatch'
  <1> SUFFICES ASSUME NEW s \in SubIds
               PROVE  /\ \A i, k \in 1..Count(s)' : IdAt(s, i)' = IdAt(s, k)' => i = k
                      /\ \A i \in 1..Count(s)' :
                            /\ IdAt(s, i)' \in Members
                            /\ Served(IdAt(s, i))' /\ at'[IdAt(s, i)'] = s
                      /\ \A m \in Members :
                            Served(m)' /\ at'[m] = s => \E i \in 1..Count(s)' : IdAt(s, i)' = m
                      /\ ~InLoop(s)' => Count(s)' = 0
    BY DEF SlotsMatch
  <1>1. /\ \A i, k \in 1..Count(s) : IdAt(s, i) = IdAt(s, k) => i = k
        /\ \A i \in 1..Count(s) : /\ IdAt(s, i) \in Members
                                  /\ Served(IdAt(s, i)) /\ at[IdAt(s, i)] = s
        /\ \A m \in Members : Served(m) /\ at[m] = s => \E i \in 1..Count(s) : IdAt(s, i) = m
        /\ ~InLoop(s) => Count(s) = 0
    BY DEF SlotsMatch
  <1>2. Count(s)' = Count(s) /\ \A i \in 1..Count(s) : IdAt(s, i)' = IdAt(s, i)
    OBVIOUS
  <1>3. \A i \in 1..Count(s) : Served(IdAt(s, i))' /\ at'[IdAt(s, i)'] = s
    <2> SUFFICES ASSUME NEW i \in 1..Count(s)
                 PROVE  Served(IdAt(s, i))' /\ at'[IdAt(s, i)'] = s
      OBVIOUS
    <2>1. PICK m \in Members : m = IdAt(s, i) /\ Served(m) /\ at[m] = s
      BY <1>1
    <2>2. IdAt(s, i)' = m /\ Served(m)' /\ at'[m] = s
      BY <1>2, <2>1
    <2> QED
      BY <2>2 DEF Served
  <1> QED
    BY <1>1, <1>2, <1>3

\* The same slices, and nothing but a controller that starts or ends.
LEMMA SlotFrameMatch ==
  ASSUME SlotsMatch, UNCHANGED <<wr, mval>>,
         \A s \in SubIds : /\ ctl'[s] = "write" <=> ctl[s] = "write"
                           /\ InLoop(s) => InLoop(s)',
         \A m \in Members : /\ Served(m)' <=> Served(m)
                            /\ Served(m) => at'[m] = at[m]
  PROVE  SlotsMatch'
  <1>1. \A s \in SubIds : /\ Count(s)' = Count(s)
                          /\ \A i \in 1..Count(s) : IdAt(s, i)' = IdAt(s, i)
    BY DEF Count, IdAt, SlotAfterWrite
  <1> QED
    BY <1>1, SameSlots

\* A member joins: the new slot is the only one of its own.
LEMMA AddMatch ==
  ASSUME JInv, NEW s \in SubIds, NEW m \in Members, CtlAdd(s, m)
  PROVE  SlotsMatch'
  <1>0. PICK n \in Nat : n = mval[s].n
    BY DEF JInv, RInv, TInv, TypeOK
  <1>1. /\ TInv /\ ctl[s] = "select" /\ pc[m] = "add" /\ at[m] = s
        /\ UNCHANGED <<mval, at>>
    BY DEF JInv, RInv, CtlAdd
  <1>2. /\ ctl' = [ctl EXCEPT ![s] = "write"]
        /\ wr' = [wr EXCEPT ![s] = [i |-> n + 1, slot |-> SlotOf(m), n |-> n + 1]]
        /\ pc' = [pc EXCEPT ![m] = "joined"]
    BY <1>0 DEF CtlAdd, StartWrite
  <1>3. SlotOf(m).id = m
    BY DEF SlotOf, MoveCursor
  <1>4. /\ Count(s) = n /\ n \in Nat
        /\ \A i \in 1..n : IdAt(s, i) = mval[s].mem[i].id
    BY <1>0, <1>1, SlotsAtRest
  <1>5. /\ \A t \in SubIds : t # s => ctl'[t] = ctl[t] /\ wr'[t] = wr[t]
        /\ ctl'[s] = "write"
        /\ wr'[s] = [i |-> n + 1, slot |-> SlotOf(m), n |-> n + 1]
        /\ \A k \in Members : k # m => pc'[k] = pc[k]
        /\ pc'[m] = "joined"
    BY <1>2 DEF TInv, TypeOK, JInv, RInv
  <1>6. Count(s)' = n + 1 /\ IdAt(s, n + 1)' = m
    BY <1>3, <1>5 DEF Count, IdAt, SlotAfterWrite
  <1>7. \A i \in 1..n : IdAt(s, i)' = IdAt(s, i)
    <2>1. \A i \in 1..n : i # n + 1
      BY <1>4
    <2> QED
      BY <1>1, <1>4, <1>5, <2>1 DEF IdAt, SlotAfterWrite
  <1>8. /\ \A k \in Members : k # m => (Served(k)' <=> Served(k))
        /\ ~Served(m) /\ Served(m)'
    BY <1>1, <1>5 DEF Served
  <1>9. ASSUME NEW t \in SubIds
        PROVE  /\ \A i, k \in 1..Count(t)' : IdAt(t, i)' = IdAt(t, k)' => i = k
               /\ \A i \in 1..Count(t)' : /\ IdAt(t, i)' \in Members
                                          /\ Served(IdAt(t, i))' /\ at[IdAt(t, i)'] = t
               /\ \A k \in Members :
                     Served(k)' /\ at[k] = t => \E i \in 1..Count(t)' : IdAt(t, i)' = k
               /\ ~InLoop(t)' => Count(t)' = 0
    <2>0. /\ \A i, k \in 1..Count(t) : IdAt(t, i) = IdAt(t, k) => i = k
          /\ \A i \in 1..Count(t) : /\ IdAt(t, i) \in Members
                                    /\ Served(IdAt(t, i)) /\ at[IdAt(t, i)] = t
          /\ \A k \in Members : Served(k) /\ at[k] = t => \E i \in 1..Count(t) : IdAt(t, i) = k
          /\ ~InLoop(t) => Count(t) = 0
      BY DEF JInv, SlotsMatch
    <2>1. \A i \in 1..Count(t) : IdAt(t, i) # m
      BY <1>8, <2>0
    <2>2. \A k \in Members : k # m => (pc'[k] \in {"joined", "leaving"} <=> Served(k))
      BY <1>5 DEF Served
    <2>3. CASE t = s
      <3>1. \A i \in 1..(n + 1) : i = n + 1 \/ i \in 1..n
        BY <1>4
      <3>2. \A i \in 1..(n + 1) : i \in 1..n => IdAt(s, i)' = IdAt(s, i) /\ IdAt(s, i) # m
        BY <1>4, <1>7, <2>1, <2>3
      <3>3. \A i, k \in 1..(n + 1) : IdAt(s, i)' = IdAt(s, k)' => i = k
        BY <1>4, <1>6, <2>0, <2>3, <3>1, <3>2
      <3>4. \A i \in 1..(n + 1) : /\ IdAt(s, i)' \in Members
                                  /\ at[IdAt(s, i)'] = s
                                  /\ pc'[IdAt(s, i)'] \in {"joined", "leaving"}
        BY <1>1, <1>4, <1>5, <1>6, <2>0, <2>2, <2>3, <3>1, <3>2
      <3>5. \A k \in Members :
               Served(k)' /\ at[k] = s => \E i \in 1..(n + 1) : IdAt(s, i)' = k
        <4> SUFFICES ASSUME NEW k \in Members, Served(k)', at[k] = s
                     PROVE  \E i \in 1..(n + 1) : IdAt(s, i)' = k
          OBVIOUS
        <4>1. n + 1 \in 1..(n + 1) /\ \A i \in 1..n : i \in 1..(n + 1)
          BY <1>4
        <4>2. CASE k = m
          BY <1>6, <4>1, <4>2
        <4>3. CASE k # m
          <5>1. PICK i \in 1..n : IdAt(s, i) = k
            BY <1>4, <1>8, <2>0, <2>3, <4>3
          <5> QED
            BY <1>7, <4>1, <5>1
        <4> QED
          BY <4>2, <4>3
      <3>6. InLoop(s)'
        BY <1>5 DEF InLoop
      <3> QED
        BY <1>6, <2>3, <3>3, <3>4, <3>5, <3>6 DEF Served
    <2>4. CASE t # s
      <3>1. Count(t)' = Count(t) /\ \A i \in 1..Count(t) : IdAt(t, i)' = IdAt(t, i)
        BY <1>1, <1>5, <2>4 DEF Count, IdAt, SlotAfterWrite
      <3>2. InLoop(t)' <=> InLoop(t)
        BY <1>5, <2>4 DEF InLoop
      <3>3. \A i \in 1..Count(t) : Served(IdAt(t, i))'
        BY <2>0, <2>1, <2>2, <3>1 DEF Served
      <3>4. \A k \in Members : Served(k)' /\ at[k] = t => k # m /\ Served(k)
        BY <1>1, <1>8, <2>4
      <3> QED
        BY <2>0, <3>1, <3>2, <3>3, <3>4
    <2> QED
      BY <2>3, <2>4
  <1> QED
    BY <1>1, <1>9 DEF SlotsMatch

\* A member leaves: the last slot takes the place of its own, the only one.
LEMMA DelMatch ==
  ASSUME JInv, NEW s \in SubIds, NEW m \in Members, CtlDel(s, m)
  PROVE  SlotsMatch'
  <1>0. PICK n \in Nat : n = mval[s].n
    BY DEF JInv, RInv, TInv, TypeOK
  <1>1. /\ TInv /\ ctl[s] = "select" /\ pc[m] = "leaving" /\ at[m] = s
        /\ UNCHANGED <<mval, at>> /\ pc' = [pc EXCEPT ![m] = "left"]
    BY DEF JInv, RInv, CtlDel
  <1>2. /\ Count(s) = n
        /\ \A i \in 1..n : IdAt(s, i) = mval[s].mem[i].id
    BY <1>0, <1>1, SlotsAtRest
  <1>3. /\ \A i, k \in 1..n : IdAt(s, i) = IdAt(s, k) => i = k
        /\ \A i \in 1..n : /\ IdAt(s, i) \in Members
                           /\ Served(IdAt(s, i)) /\ at[IdAt(s, i)] = s
        /\ \A k \in Members : Served(k) /\ at[k] = s => \E i \in 1..n : IdAt(s, i) = k
    BY <1>2 DEF JInv, SlotsMatch
  <1>4. Find(s, m) # {}
    <2>1. PICK i \in 1..n : IdAt(s, i) = m
      BY <1>1, <1>3 DEF Served
    <2> QED
      BY <1>0, <1>2, <2>1 DEF Find, Indices
  <1>5. PICK d \in Find(s, m) : StartWrite(s, d, mval[s].mem[n], n - 1)
    BY <1>0, <1>4 DEF CtlDel
  <1>6. d \in 1..n /\ IdAt(s, d) = m
    BY <1>0, <1>2 DEF Find, Indices
  <1>7. /\ \A t \in SubIds : t # s => ctl'[t] = ctl[t] /\ wr'[t] = wr[t]
        /\ ctl'[s] = "write"
        /\ wr'[s] = [i |-> d, slot |-> mval[s].mem[n], n |-> n - 1]
        /\ \A k \in Members : k # m => pc'[k] = pc[k]
        /\ pc'[m] = "left"
    BY <1>1, <1>5 DEF StartWrite, TInv, TypeOK
  <1>8. /\ \A k \in Members : k # m => (Served(k)' <=> Served(k))
        /\ Served(m) /\ ~Served(m)'
    BY <1>1, <1>7 DEF Served
  <1>9. Count(s)' = n - 1 /\ InLoop(s)'
    BY <1>7 DEF Count, InLoop
  <1>10. \A i \in 1..(n - 1) : /\ i \in 1..n /\ n \in 1..n /\ i # n
                               /\ IdAt(s, i)' = IF i = d THEN IdAt(s, n) ELSE IdAt(s, i)
    <2>1. \A i \in 1..(n - 1) : i \in 1..n /\ n \in 1..n /\ i # n
      OBVIOUS
    <2> QED
      BY <1>1, <1>2, <1>7, <2>1 DEF IdAt, SlotAfterWrite
  <1>11. ASSUME NEW t \in SubIds
         PROVE  /\ \A i, k \in 1..Count(t)' : IdAt(t, i)' = IdAt(t, k)' => i = k
                /\ \A i \in 1..Count(t)' : /\ IdAt(t, i)' \in Members
                                           /\ Served(IdAt(t, i))' /\ at[IdAt(t, i)'] = t
                /\ \A k \in Members :
                      Served(k)' /\ at[k] = t => \E i \in 1..Count(t)' : IdAt(t, i)' = k
                /\ ~InLoop(t)' => Count(t)' = 0
    <2>1. CASE t = s
      <3>1. \A i, k \in 1..(n - 1) : IdAt(s, i)' = IdAt(s, k)' => i = k
        BY <1>3, <1>10
      <3>2. \A i \in 1..(n - 1) : /\ IdAt(s, i)' \in Members /\ IdAt(s, i)' # m
                                  /\ Served(IdAt(s, i)') /\ at[IdAt(s, i)'] = s
        BY <1>3, <1>6, <1>10
      <3>3. \A i \in 1..(n - 1) : pc'[IdAt(s, i)'] \in {"joined", "leaving"}
        BY <1>7, <3>2 DEF Served
      <3>4. \A k \in Members :
               Served(k)' /\ at[k] = s => \E i \in 1..(n - 1) : IdAt(s, i)' = k
        <4> SUFFICES ASSUME NEW k \in Members, Served(k)', at[k] = s
                     PROVE  \E i \in 1..(n - 1) : IdAt(s, i)' = k
          OBVIOUS
        <4>1. k # m /\ Served(k)
          BY <1>8
        <4>2. PICK i \in 1..n : IdAt(s, i) = k
          BY <1>3, <4>1
        <4>3. i # d
          BY <1>6, <4>1, <4>2
        <4>4. CASE i = n
          <5>1. d \in 1..(n - 1)
            BY <1>6, <4>3, <4>4
          <5> QED
            BY <1>10, <4>2, <4>4, <5>1
        <4>5. CASE i # n
          <5>1. i \in 1..(n - 1)
            BY <4>5
          <5> QED
            BY <1>10, <4>2, <4>3, <5>1
        <4> QED
          BY <4>4, <4>5
      <3> QED
        BY <1>9, <2>1, <3>1, <3>2, <3>3, <3>4 DEF Served
    <2>2. CASE t # s
      <3>0. /\ \A i, k \in 1..Count(t) : IdAt(t, i) = IdAt(t, k) => i = k
            /\ \A i \in 1..Count(t) : /\ IdAt(t, i) \in Members
                                      /\ Served(IdAt(t, i)) /\ at[IdAt(t, i)] = t
            /\ \A k \in Members :
                  Served(k) /\ at[k] = t => \E i \in 1..Count(t) : IdAt(t, i) = k
            /\ ~InLoop(t) => Count(t) = 0
        BY DEF JInv, SlotsMatch
      <3>1. Count(t)' = Count(t) /\ \A i \in 1..Count(t) : IdAt(t, i)' = IdAt(t, i)
        BY <1>1, <1>7, <2>2 DEF Count, IdAt, SlotAfterWrite
      <3>2. InLoop(t)' <=> InLoop(t)
        BY <1>7, <2>2 DEF InLoop
      <3>3. \A i \in 1..Count(t) : IdAt(t, i) # m
        BY <1>1, <2>2, <3>0
      <3>4. \A i \in 1..Count(t) : Served(IdAt(t, i))'
        BY <1>7, <3>0, <3>1, <3>3 DEF Served
      <3>5. \A k \in Members : Served(k)' => Served(k)
        BY <1>8
      <3> QED
        BY <3>0, <3>1, <3>2, <3>4, <3>5
    <2> QED
      BY <2>1, <2>2
  <1> QED
    BY <1>1, <1>11 DEF SlotsMatch

\* A message changes what a slot holds, not whose it is.
LEMMA UpdtMatch ==
  ASSUME JInv, NEW s \in SubIds, CtlUpdt(s)
  PROVE  SlotsMatch'
  <1> DEFINE msg == Head(updt[s])
  <1>1. /\ TInv /\ ctl[s] = "select" /\ UNCHANGED <<mval, at, pc>>
    BY DEF JInv, RInv, CtlUpdt, clientVars
  <1>2. CASE Find(s, msg.id) = {}
    <2>1. UNCHANGED <<ctl, wr>>
      BY <1>2 DEF CtlUpdt
    <2> QED
      BY <1>1, <2>1, SlotFrameMatch DEF JInv, InLoop, Served
  <1>3. CASE Find(s, msg.id) # {}
    <2>0. PICK n \in Nat : n = mval[s].n
      BY DEF JInv, RInv, TInv, TypeOK
    <2>a. PICK u \in Find(s, msg.id) :
            StartWrite(s, u, Updated(mval[s].mem[u], msg), mval[s].n)
      BY <1>3 DEF CtlUpdt
    <2>b. PICK slot : slot = Updated(mval[s].mem[u], msg)
      OBVIOUS
    <2>1. StartWrite(s, u, slot, n)
      BY <2>0, <2>a, <2>b
    <2>2. slot.id = mval[s].mem[u].id
      <3>1. mval[s].mem[u] \in Slot
        BY <1>1, SlotsAtRest DEF Find, Indices
      <3> QED
        BY <2>b, <3>1 DEF Updated, MoveCursor, Slot
    <2>3. /\ \A t \in SubIds : t # s => ctl'[t] = ctl[t] /\ wr'[t] = wr[t]
          /\ ctl'[s] = "write"
          /\ wr'[s] = [i |-> u, slot |-> slot, n |-> n]
      BY <1>1, <2>1 DEF StartWrite, TInv, TypeOK
    <2>4. Count(s)' = Count(s) /\ \A i \in 1..Count(s) : IdAt(s, i)' = IdAt(s, i)
      <3>1. Count(s) = n /\ \A i \in 1..n : IdAt(s, i) = mval[s].mem[i].id
        BY <1>1, <2>0, SlotsAtRest
      <3>2. Count(s)' = n
        BY <2>3 DEF Count
      <3>3. \A i \in 1..n : IdAt(s, i)' = mval[s].mem[i].id
        BY <1>1, <2>2, <2>3 DEF IdAt, SlotAfterWrite
      <3> QED
        BY <3>1, <3>2, <3>3
    <2>5. \A t \in SubIds : /\ Count(t)' = Count(t)
                            /\ \A i \in 1..Count(t) : IdAt(t, i)' = IdAt(t, i)
                            /\ InLoop(t) => InLoop(t)' \/ Count(t) = 0
      <3> SUFFICES ASSUME NEW t \in SubIds
                   PROVE  /\ Count(t)' = Count(t)
                          /\ \A i \in 1..Count(t) : IdAt(t, i)' = IdAt(t, i)
                          /\ InLoop(t) => InLoop(t)' \/ Count(t) = 0
        OBVIOUS
      <3>1. CASE t = s
        BY <2>3, <2>4, <3>1 DEF InLoop
      <3>2. CASE t # s
        BY <1>1, <2>3, <3>2 DEF Count, IdAt, SlotAfterWrite, InLoop
      <3> QED
        BY <3>1, <3>2
    <2> QED
      BY <1>1, <2>5, SameSlots DEF JInv, Served
  <1> QED
    BY <1>2, <1>3

\* The write ends as it was begun; the loop ends when no slot is left.
LEMMA WriteMatch ==
  ASSUME JInv, NEW s \in SubIds, CtlWrite(s)
  PROVE  SlotsMatch'
  <1> DEFINE mem == mval[s].mem
             w == wr[s]
             mem2 == IF w.i <= Len(mem) THEN [mem EXCEPT ![w.i] = w.slot]
                     ELSE Append(mem, w.slot)
  <1>1. /\ mem \in Seq(Slot) /\ w.i \in 1..(Len(mem) + 1) /\ w.n \in Nat
        /\ w.n <= Len(mem) \/ w.n = w.i
    BY DEF JInv, RInv, TInv, TypeOK, Shape, SlotShape, CtlWrite
  <1>2. PICK cap2 : mval' = [mval EXCEPT ![s] = [mem |-> mem2, n |-> w.n, cap |-> cap2]]
    BY DEF CtlWrite
  <1>3. /\ ctl[s] = "write" /\ wr' = [wr EXCEPT ![s] = NoWrite] /\ UNCHANGED <<at, pc>>
        /\ \E c \in {"exit", "select"} : /\ ctl' = [ctl EXCEPT ![s] = c]
                                         /\ c = "exit" => w.n = 0
    BY DEF CtlWrite, Emptied, clientVars
  <1>4. \A i \in 1..w.n : /\ i # 0
                          /\ mem2[i] = IF w.i = i THEN w.slot ELSE mem[i]
    BY <1>1
  <1> HIDE DEF mem2
  <1>5. /\ \A t \in SubIds : t # s => /\ ctl'[t] = ctl[t] /\ wr'[t] = wr[t]
                                      /\ mval'[t] = mval[t]
        /\ ctl'[s] \in {"exit", "select"} /\ (ctl'[s] = "exit" => w.n = 0)
        /\ wr'[s].i = 0 /\ mval'[s].n = w.n /\ mval'[s].mem = mem2
    BY <1>2, <1>3 DEF JInv, RInv, TInv, TypeOK, NoWrite
  <1>6. /\ Count(s) = w.n /\ Count(s)' = w.n
        /\ \A i \in 1..w.n : IdAt(s, i)' = IdAt(s, i)
        /\ InLoop(s)' \/ w.n = 0
    <2>1. Count(s) = w.n /\ Count(s)' = w.n
      BY <1>3, <1>5 DEF Count
    <2>2. \A i \in 1..w.n : IdAt(s, i)' = mem2[i].id
      BY <1>4, <1>5 DEF IdAt, SlotAfterWrite
    <2>3. \A i \in 1..w.n : IdAt(s, i) = mem2[i].id
      BY <1>4 DEF IdAt, SlotAfterWrite
    <2>4. InLoop(s)' \/ w.n = 0
      BY <1>5 DEF InLoop
    <2> QED
      BY <2>1, <2>2, <2>3, <2>4
  <1>7. \A t \in SubIds : /\ Count(t)' = Count(t)
                          /\ \A i \in 1..Count(t) : IdAt(t, i)' = IdAt(t, i)
                          /\ InLoop(t) => InLoop(t)' \/ Count(t) = 0
    <2> SUFFICES ASSUME NEW t \in SubIds
                 PROVE  /\ Count(t)' = Count(t)
                        /\ \A i \in 1..Count(t) : IdAt(t, i)' = IdAt(t, i)
                        /\ InLoop(t) => InLoop(t)' \/ Count(t) = 0
      OBVIOUS
    <2>1. CASE t = s
      BY <1>6, <2>1
    <2>2. CASE t # s
      BY <1>5, <2>2 DEF Count, IdAt, SlotAfterWrite, InLoop
    <2> QED
      BY <2>1, <2>2
  <1> QED
    BY <1>3, <1>7, SameSlots DEF JInv, Served

\* A controller that polls, ends, or has its workers return moves no slot.
LEMMA TurnMatch ==
  ASSUME JInv, NEW s \in SubIds, UNCHANGED <<wr, mval, at, pc>>,
         \/ ctl' = ctl
         \/ /\ ctl[s] \in {"select", "poll", "fanout"}
            /\ \E c \in {"select", "poll", "fanout"} : ctl' = [ctl EXCEPT ![s] = c]
         \/ ctl[s] = "exit" /\ ctl' = [ctl EXCEPT ![s] = "gone"]
  PROVE  SlotsMatch'
  <1>1. DOMAIN ctl = SubIds
    BY DEF JInv, RInv, TInv, TypeOK
  <1>2. \A t \in SubIds : /\ ctl'[t] = "write" <=> ctl[t] = "write"
                          /\ InLoop(t) => InLoop(t)'
    BY <1>1 DEF InLoop
  <1> QED
    BY <1>2, SlotFrameMatch DEF JInv, Served

\* A client that is not served becomes none that is, and a served one stays.
LEMMA ClientMatch ==
  ASSUME JInv, NEW m \in Members, Client(m)
  PROVE  SlotsMatch'
  <1>1. /\ DOMAIN pc = Members /\ DOMAIN at = Members /\ DOMAIN ctl = SubIds
        /\ \A k \in Members : pc[k] # "start" => at[k] \in SubIds
    BY DEF JInv, RInv, TInv, TypeOK, Shape, ClientShape
  <1>2. UNCHANGED <<wr, mval>>
    BY DEF Client, Load, Do, InitSub, InitSubFails, Undo, First, FirstFails, Receive, Leave,
           ctlVars
  <1>3. ctl' = ctl \/ (ctl[at[m]] = "none" /\ ctl' = [ctl EXCEPT ![at[m]] = "select"])
    <2>1. CASE InitSub(m)
      <3>1. ctl[at[m]] = "none"
        BY <2>1, InitRegistered DEF JInv
      <3> QED
        BY <2>1, <3>1 DEF InitSub, StartController
    <2>2. CASE ~InitSub(m)
      BY <2>2 DEF Client, Load, Do, InitSubFails, Undo, First, FirstFails, Receive, Leave,
                  ctlVars
    <2> QED
      BY <2>1, <2>2
  <1>4. \/ pc' = pc /\ at' = at
        \/ pc[m] = "start" /\ pc' = [pc EXCEPT ![m] = "do"]
           /\ \E t \in SubIds : at' = [at EXCEPT ![m] = t]
        \/ pc[m] \in {"do", "init", "undo", "args"} /\ at' = at
           /\ \E c \in {"init", "args", "undo", "failed", "panicked", "add"} :
                 pc' = [pc EXCEPT ![m] = c]
        \/ pc[m] = "joined" /\ pc' = [pc EXCEPT ![m] = "leaving"] /\ at' = at
    <2>1. CASE Load(m)
      <3>1. \E t \in SubIds : at' = [at EXCEPT ![m] = t]
        BY <2>1 DEF Load, Lookup, JInv, RInv, TInv, TypeOK
      <3> QED
        BY <2>1, <3>1 DEF Load
    <2>2. CASE Do(m) \/ InitSub(m) \/ InitSubFails(m) \/ Undo(m) \/ First(m) \/ FirstFails(m)
      BY <2>2 DEF Do, InitSub, InitSubFails, Undo, First, FirstFails
    <2>3. CASE Receive(m) \/ Leave(m)
      BY <2>3 DEF Receive, Leave, clientVars
    <2> QED
      BY <2>1, <2>2, <2>3 DEF Client
  <1>5. \A k \in Members : /\ Served(k)' <=> Served(k)
                           /\ Served(k) => at'[k] = at[k]
    BY <1>1, <1>4 DEF Served
  <1>6. \A t \in SubIds : /\ ctl'[t] = "write" <=> ctl[t] = "write"
                          /\ InLoop(t) => InLoop(t)'
    BY <1>1, <1>3 DEF InLoop
  <1> QED
    BY <1>2, <1>5, <1>6, SlotFrameMatch DEF JInv

\* A worker touches neither the slices nor the clients.
LEMMA WorkerMatch ==
  ASSUME JInv, NEW j \in Jobs, Worker(j)
  PROVE  SlotsMatch'
  <1>1. UNCHANGED <<wr, mval, at, pc>>
    BY DEF Worker, JobRender, JobQuery, JobFails, JobNotify, JobUpdt, JobSend, JobDone,
           JobPanics, ctlVars, clientVars
  <1>2. CASE JobFails(j) \/ JobDone(j)
    <2>1. Return(j) /\ Busy(j)
      BY <1>2 DEF JobFails, JobDone, Busy
    <2>2. Fits(job[j]) /\ ctl = [t \in SubIds |-> ctl[t]]
      BY <2>1 DEF JInv, RInv, TInv, TypeOK, Shape, JobShape
    <2>3. \/ ctl' = ctl
          \/ ctl[job[j].sub] = "fanout" /\ ctl' = [ctl EXCEPT ![job[j].sub] = "select"]
      <3>1. CASE job[j].inline /\ ~MoreChunks(j)
        BY <2>1, <2>2, <3>1 DEF Return, Fits
      <3>2. CASE ~(job[j].inline /\ ~MoreChunks(j))
        <4>1. ctl' = [ctl EXCEPT ![job[j].sub] = ctl[job[j].sub]]
          BY <2>1, <3>2 DEF Return
        <4> QED
          BY <2>2, <4>1
      <3> QED
        BY <3>1, <3>2
    <2>4. job[j].sub \in SubIds
      BY <2>2 DEF Fits
    <2> QED
      BY <1>1, <2>3, <2>4, TurnMatch
  <1>3. CASE ~(JobFails(j) \/ JobDone(j))
    <2>1. ctl' = ctl
      BY <1>3 DEF Worker, JobRender, JobQuery, JobNotify, JobUpdt, JobSend, JobPanics, ctlVars
    <2> QED
      BY <1>1, <2>1, SlotFrameMatch DEF JInv, InLoop, Served
  <1> QED
    BY <1>2, <1>3

\* The invariant holds initially: there are no slots and nobody is served ...
LEMMA InitJInv ==
  ASSUME Init
  PROVE  JInv
  <1>1. SlotsMatch
    BY DEF Init, SlotsMatch, Count, EmptyMval, InLoop, Served
  <1> QED
    BY <1>1, InitRInv DEF JInv

\* ... and every step keeps it.
LEMMA NextJInv ==
  ASSUME JInv, [Next]_vars
  PROVE  JInv'
  <1>1. RInv'
    BY NextRInv DEF JInv
  <1>2. ASSUME NEW v \in Vars, Change(v)
        PROVE  SlotsMatch'
    BY <1>2, SlotFrameMatch DEF Change, ctlVars, clientVars, JInv, InLoop, Served
  <1>3. ASSUME NEW s \in SubIds, Controller(s)
        PROVE  SlotsMatch'
    <2>1. CASE CtlPoll(s) \/ Turn(s)
      <3>1. /\ ctl[s] \in {"select", "poll", "fanout"}
            /\ \E c \in {"select", "poll", "fanout"} : ctl' = [ctl EXCEPT ![s] = c]
        BY <2>1 DEF CtlPoll, Turn, CtlTimer, CtlPollSkipped
      <3> QED
        BY <2>1, <3>1, TurnMatch DEF CtlPoll, Turn, CtlTimer, CtlPollSkipped, clientVars
    <2>2. CASE CtlExit(s)
      BY <2>2, TurnMatch DEF CtlExit, clientVars
    <2> QED
      BY <1>3, <2>1, <2>2, AddMatch, DelMatch, UpdtMatch, WriteMatch DEF Controller, Turn
  <1>4. CASE UNCHANGED vars
    <2>1. UNCHANGED <<wr, mval, ctl, at, pc>>
      BY <1>4 DEF vars, ctlVars, clientVars
    <2>2. \A t \in SubIds : /\ ctl'[t] = "write" <=> ctl[t] = "write"
                            /\ InLoop(t) => InLoop(t)'
      BY <2>1 DEF InLoop
    <2>3. \A m \in Members : /\ Served(m)' <=> Served(m)
                             /\ Served(m) => at'[m] = at[m]
      BY <2>1 DEF Served
    <2>4. UNCHANGED <<wr, mval>> /\ SlotsMatch
      BY <2>1 DEF JInv
    <2>5. SlotsMatch'
      BY <2>2, <2>3, <2>4, SlotFrameMatch
    <2> QED
      BY <1>1, <2>5 DEF JInv
  <1> QED
    BY <1>1, <1>2, <1>3, <1>4, ClientMatch, WorkerMatch DEF Next, JInv

\* deleteMember and updateMember never drop or duplicate the slot of a client that
\* still listens, and its controller does not leave its loop under it.
THEOREM ServedAreKept == Spec => []JoinedIsServed
  <1>1. Init => JInv
    BY InitJInv
  <1>2. JInv /\ [Next]_vars => JInv'
    BY NextJInv
  <1>3. JInv => JoinedIsServed
    <2> SUFFICES ASSUME JInv, NEW m \in Members, Served(m)
                 PROVE  /\ ctl[at[m]] \in {"select", "write", "poll", "fanout"}
                        /\ m \in MembersOf(at[m])
      BY DEF JoinedIsServed
    <2>1. at[m] \in SubIds
      BY DEF JInv, RInv, TInv, Shape, ClientShape, Served
    <2>2. PICK i \in 1..Count(at[m]) : IdAt(at[m], i) = m
      BY <2>1 DEF JInv, SlotsMatch
    <2>3. InLoop(at[m])
      BY <2>1, <2>2 DEF JInv, SlotsMatch
    <2> QED
      BY <2>2, <2>3 DEF InLoop, MembersOf, Count, IdAt
  <1> QED
    BY <1>1, <1>2, <1>3, PTL DEF Spec

-----------------------------------------------------------------------------
(* While nobody leaves, a slot stays with its member, and whatever copy of    *)
(* the slices a worker reads, an index means the same member.                *)

Own(slot) == slot.res = slot.id /\ slot.vars = VarsOf[slot.id]

\* Slots are added at the end and keep their members; the one being written is
\* the new one or has the member it had.
SlotsStay ==
  \A s \in SubIds :
     /\ mval[s].n = Len(mval[s].mem)
     /\ \A i \in 1..Len(mval[s].mem) : Own(mval[s].mem[i])
     /\ ctl[s] = "write" =>
          /\ Own(wr[s].slot)
          /\ \/ wr[s].i <= mval[s].n /\ wr[s].n = mval[s].n
                /\ wr[s].slot.id = mval[s].mem[wr[s].i].id
             \/ wr[s].i = mval[s].n + 1 /\ wr[s].n = mval[s].n + 1

\* The arrays a worker reads, but for what is being written.
Source(w) == IF w.mem = None THEN mval[w.sub].mem ELSE w.mem

WhoseRow(w, i) == Source(w)[w.from + i].id

\* A worker's copy has slots of their members, and parameters and rows are those
\* of the members it will look up.
OwnWork(w) ==
  /\ w.mem # None => \A i \in 1..Len(w.mem) : Own(w.mem[i])
  /\ w.st = "query" =>
       \A i \in 1..(w.to - w.from) : w.params[i].vars = VarsOf[WhoseRow(w, i)]
  /\ w.st \in {"rows", "updt", "send"} =>
       \A i \in 1..(IF HasParams THEN w.to - w.from ELSE 1) :
          w.rows[i].vars = VarsOf[WhoseRow(w, i)]
  /\ w.st \in {"updt", "send"} => w.res = WhoseRow(w, w.i)

NobodyLeft == \A m \in Members : pc[m] \notin {"leaving", "left"}

KeptIsOwn ==
  \A s \in SubIds : js[s] # None => ~HasParams /\ \A m \in Members : js[s].vars = VarsOf[m]

EverybodysOwn ==
  /\ NobodyLeft
  /\ SlotsStay
  /\ \A j \in Jobs : Busy(j) => OwnWork(job[j])
  /\ KeptIsOwn
  /\ OwnResults

OInv == RInv /\ EverybodysOwn

\* What a reader sees of a slot is its member's, also while it is written.
LEMMA OwnContents ==
  ASSUME TInv, SlotsStay, NEW s \in SubIds, NEW i \in 1..Len(mval[s].mem),
         NEW c \in Contents(s, i)
  PROVE  Own(c) /\ c.id = mval[s].mem[i].id
  <1>1. /\ mval[s].n = Len(mval[s].mem) /\ Len(mval[s].mem) \in Nat
        /\ Own(mval[s].mem[i])
    BY DEF TInv, TypeOK, SlotsStay
  <1>2. CASE wr[s].i = i
    <2>1. ctl[s] = "write"
      BY <1>2 DEF TInv, Shape, SlotShape, NoWrite
    <2>2. Own(wr[s].slot) /\ wr[s].slot.id = mval[s].mem[i].id
      BY SMTT(30), <1>1, <1>2, <2>1 DEF SlotsStay
    <2>3. PICK x \in [1..4 -> {mval[s].mem[i], wr[s].slot}] :
            c = [vars |-> x[1].vars, lo |-> x[1].lo, dh |-> x[2].dh, res |-> x[3].res,
                 id |-> x[4].id]
      BY <1>2 DEF Contents
    <2>4. \A k \in 1..4 : Own(x[k]) /\ x[k].id = mval[s].mem[i].id
      BY <1>1, <2>2
    <2>5. /\ Own(x[1]) /\ x[1].id = mval[s].mem[i].id
          /\ Own(x[3]) /\ x[3].id = mval[s].mem[i].id
          /\ x[4].id = mval[s].mem[i].id
      BY <2>4
    <2>6. c.vars = x[1].vars /\ c.res = x[3].res /\ c.id = x[4].id
      BY <2>3
    <2> QED
      BY <2>5, <2>6 DEF Own
  <1>3. CASE wr[s].i # i
    BY <1>1, <1>3 DEF Contents
  <1> QED
    BY <1>2, <1>3

\* The members of a worker's chunk are members.
LEMMA WhoseRowType ==
  ASSUME TInv, NEW j \in Jobs, Busy(j), NEW i \in 1..Size(j)
  PROVE  WhoseRow(job[j], i) \in Members
  <1>1. /\ Fits(job[j]) /\ job[j].from \in Nat /\ job[j].to \in Nat
        /\ Size(j) = job[j].to - job[j].from /\ job[j].sub \in SubIds
        /\ job[j] \in JobType
    BY BusyFacts
  <1>2. Source(job[j]) \in Seq(Slot) /\ job[j].to <= Len(Source(job[j]))
    <2>1. CASE job[j].mem = None
      <3>1. mval[job[j].sub].mem \in Seq(Slot)
        BY <1>1 DEF TInv, TypeOK
      <3> QED
        BY <1>1, <2>1, <3>1 DEF Source, Fits
    <2>2. CASE job[j].mem # None
      BY <1>1, <2>2 DEF Source, Fits, JobType
    <2> QED
      BY <2>1, <2>2
  <1>3. job[j].from + i \in 1..Len(Source(job[j]))
    BY <1>1, <1>2
  <1>4. Source(job[j])[job[j].from + i] \in Slot
    BY <1>2, <1>3
  <1> QED
    BY <1>4 DEF WhoseRow, Slot

\* A row of a chunk is in the array.
LEMMA RowInArray ==
  ASSUME NEW from \in Nat, NEW to \in Nat, NEW len \in Nat, to <= len,
         NEW n, n = to - from, NEW i \in 1..n
  PROVE  from + i \in 1..len
  OBVIOUS

\* Whatever a worker sees of a slot of its chunk is the member's of that row.
LEMMA OwnView ==
  ASSUME OInv, NEW j \in Jobs, Busy(j), NEW i \in 1..Size(j),
         NEW slot \in View(j, job[j].from + i)
  PROVE  /\ slot.id = WhoseRow(job[j], i) /\ slot.res = WhoseRow(job[j], i)
         /\ slot.vars = VarsOf[WhoseRow(job[j], i)]
  <1>1. /\ TInv /\ Fits(job[j]) /\ job[j].from \in Nat /\ job[j].to \in Nat
        /\ Size(j) = job[j].to - job[j].from /\ job[j].sub \in SubIds
        /\ job[j] \in JobType /\ OwnWork(job[j]) /\ SlotsStay
    BY BusyFacts DEF OInv, RInv, EverybodysOwn
  <1>2. CASE job[j].mem = None
    <2>1. Len(mval[job[j].sub].mem) \in Nat /\ job[j].to <= Len(mval[job[j].sub].mem)
      BY <1>1, <1>2 DEF TInv, TypeOK, Fits
    <2>2. job[j].from + i \in 1..Len(mval[job[j].sub].mem)
      BY <1>1, <2>1, RowInArray
    <2>3. slot \in Contents(job[j].sub, job[j].from + i)
      BY <1>2 DEF View
    <2>4. Own(slot) /\ slot.id = mval[job[j].sub].mem[job[j].from + i].id
      BY <1>1, <2>2, <2>3, OwnContents
    <2> QED
      BY <1>2, <2>4 DEF Own, WhoseRow, Source
  <1>3. CASE job[j].mem # None
    <2>1. job[j].mem \in Seq(Slot)
      BY <1>1, <1>3 DEF JobType
    <2>2. job[j].from + i \in 1..Len(job[j].mem)
      BY <1>1, <1>3, <2>1 DEF Fits
    <2>3. slot = job[j].mem[job[j].from + i]
      BY <1>3 DEF View
    <2>4. Own(slot)
      BY <1>1, <1>3, <2>2, <2>3 DEF OwnWork
    <2> QED
      BY <1>3, <2>3, <2>4 DEF Own, WhoseRow, Source
  <1> QED
    BY <1>2, <1>3

\* The row a worker is at is the member's.
LEMMA OwnRow ==
  ASSUME OInv, NEW j \in Jobs, Busy(j), job[j].st \in {"rows", "updt", "send"},
         NEW i \in 1..Size(j)
  PROVE  job[j].rows[IF HasParams THEN i ELSE 1].vars = VarsOf[WhoseRow(job[j], i)]
  <1>1. /\ TInv /\ Size(j) \in Nat \ {0} /\ Size(j) = job[j].to - job[j].from
        /\ OwnWork(job[j])
    BY BusyFacts DEF OInv, RInv, EverybodysOwn
  <1>2. CASE HasParams
    BY <1>1, <1>2 DEF OwnWork
  <1>3. CASE ~HasParams
    <2>1. job[j].rows[1].vars = VarsOf[WhoseRow(job[j], 1)]
      BY <1>1, <1>3 DEF OwnWork
    <2>2. WhoseRow(job[j], 1) \in Members /\ WhoseRow(job[j], i) \in Members
      BY <1>1, WhoseRowType
    <2> QED
      BY <1>3, <2>1, <2>2, SubsAssumption
  <1> QED
    BY <1>2, <1>3

\* A step of one worker.
LEMMA WorkerOwn ==
  ASSUME OInv, NEW j \in Jobs, NEW w, job' = [job EXCEPT ![j] = w],
         UNCHANGED <<mval, wr, pc>>,
         \A s \in SubIds : ctl'[s] = "write" <=> ctl[s] = "write",
         w.st # "idle" => OwnWork(w),
         KeptIsOwn', OwnResults'
  PROVE  EverybodysOwn'
  <1>1. NobodyLeft' /\ SlotsStay'
    BY DEF OInv, EverybodysOwn, NobodyLeft, SlotsStay
  <1>2. job'[j] = w /\ \A k \in Jobs : k # j => job'[k] = job[k]
    BY DEF OInv, RInv, TInv, TypeOK
  <1>3. ASSUME NEW k \in Jobs, Busy(k)'
        PROVE  OwnWork(job[k])'
    <2>1. OwnWork(job'[k])
      BY <1>2, <1>3 DEF OInv, EverybodysOwn, Busy
    <2>2. \A i : WhoseRow(job[k], i)' = WhoseRow(job'[k], i)
      BY DEF WhoseRow, Source
    <2> QED
      BY <2>1, <2>2 DEF OwnWork
  <1> QED
    BY <1>1, <1>3 DEF EverybodysOwn

\* A worker that keeps its chunk and its copy keeps whose rows they are.
LEMMA SameSource ==
  ASSUME NEW v, NEW w, w.mem = v.mem, w.sub = v.sub, w.from = v.from
  PROVE  \A i : WhoseRow(w, i) = WhoseRow(v, i)
  BY DEF WhoseRow, Source

\* The parameters of a chunk are those of its members.
LEMMA RenderOwn ==
  ASSUME OInv, NEW j \in Jobs, JobRender(j)
  PROVE  EverybodysOwn'
  <1>1. /\ Busy(j) /\ job[j].st = "spawned" /\ job[j] \in JobType /\ OwnWork(job[j])
        /\ Size(j) \in Nat /\ Size(j) = job[j].to - job[j].from
    <2>1. Busy(j) /\ job[j].st = "spawned"
      BY DEF JobRender, Busy
    <2> QED
      BY <2>1, BusyFacts DEF OInv, RInv, EverybodysOwn
  <1>2. PICK slots \in [1..Size(j) -> UNION {View(j, job[j].from + i) : i \in 1..Size(j)}] :
          /\ \A i \in 1..Size(j) : slots[i] \in View(j, job[j].from + i)
          /\ job' = [job EXCEPT ![j].st = "query",
                       ![j].params = [i \in 1..Size(j) |->
                          [vars |-> slots[i].vars, lo |-> slots[i].lo]]]
    BY DEF JobRender
  <1>3. \A i \in 1..Size(j) : slots[i].vars = VarsOf[WhoseRow(job[j], i)]
    BY <1>1, <1>2, OwnView
  <1> DEFINE ps == [i \in 1..Size(j) |-> [vars |-> slots[i].vars, lo |-> slots[i].lo]]
             w == [job[j] EXCEPT !.st = "query", !.params = ps]
  <1>4. \A i \in 1..Size(j) : ps[i].vars = VarsOf[WhoseRow(job[j], i)]
    BY <1>3
  <1>5. job' = [job EXCEPT ![j] = w]
    BY <1>2
  <1> HIDE DEF ps
  <1>6. /\ w.st = "query" /\ w.params = ps /\ w.mem = job[j].mem /\ w.sub = job[j].sub
        /\ w.from = job[j].from /\ w.to = job[j].to
    BY <1>1 DEF JobType
  <1> HIDE DEF w
  <1>7. \A i : WhoseRow(w, i) = WhoseRow(job[j], i)
    BY <1>6, SameSource
  <1>8. OwnWork(w)
    BY <1>1, <1>4, <1>6, <1>7 DEF OwnWork
  <1>9. KeptIsOwn' /\ OwnResults'
    BY DEF JobRender, OInv, EverybodysOwn, KeptIsOwn, OwnResults
  <1> QED
    BY <1>5, <1>8, <1>9, WorkerOwn DEF JobRender, ctlVars, clientVars

\* A row has the variables of its parameters.
LEMMA QueryOwn ==
  ASSUME OInv, NEW j \in Jobs, JobQuery(j)
  PROVE  EverybodysOwn'
  <1> DEFINE n == Size(j)
  <1>1. /\ Busy(j) /\ job[j].st = "query" /\ job[j] \in JobType /\ OwnWork(job[j])
        /\ n \in Nat \ {0} /\ n = job[j].to - job[j].from
    <2>1. Busy(j) /\ job[j].st = "query"
      BY DEF JobQuery, Busy
    <2> QED
      BY <2>1, BusyFacts DEF OInv, RInv, EverybodysOwn
  <1>2. \A i \in 1..n : job[j].params[i].vars = VarsOf[WhoseRow(job[j], i)]
    BY <1>1 DEF OwnWork
  <1> DEFINE rs == [i \in 1..RowCount(j) |-> Query(job[j].params[((i - 1) % n) + 1])]
             w == [job[j] EXCEPT !.st = "rows", !.i = 1, !.rows = rs]
  <1>3. job' = [job EXCEPT ![j] = w]
    BY DEF JobQuery
  <1>4. \A i \in 1..(IF HasParams THEN n ELSE 1) :
          i \in 1..RowCount(j) /\ i \in 1..n /\ ((i - 1) % n) + 1 = i
    <2> HIDE DEF n
    <2>1. n * n \in Nat /\ n * n >= n
      BY <1>1
    <2>2. RowCount(j) \in Nat /\ RowCount(j) >= (IF HasParams THEN n ELSE 1)
      BY <1>1, <2>1 DEF RowCount, n
    <2>3. \A i \in 1..n : i - 1 \in 0..(n - 1) /\ (i - 1) % n = i - 1
      BY <1>1
    <2> QED
      BY <1>1, <2>2, <2>3
  <1>5. \A i \in 1..(IF HasParams THEN n ELSE 1) : rs[i].vars = VarsOf[WhoseRow(job[j], i)]
    <2>1. \A i \in 1..(IF HasParams THEN n ELSE 1) : rs[i] = Query(job[j].params[i])
      BY <1>4
    <2>2. \A p : Query(p).vars = p.vars
      BY DEF Query
    <2> QED
      BY <1>2, <1>4, <2>1, <2>2
  <1> HIDE DEF rs
  <1>6. /\ w.st = "rows" /\ w.rows = rs /\ w.mem = job[j].mem /\ w.sub = job[j].sub
        /\ w.from = job[j].from /\ w.to = job[j].to
    BY <1>1 DEF JobType
  <1> HIDE DEF w
  <1>7. \A i : WhoseRow(w, i) = WhoseRow(job[j], i)
    BY <1>6, SameSource
  <1>8. OwnWork(w)
    BY <1>1, <1>5, <1>6, <1>7 DEF OwnWork
  <1>9. KeptIsOwn' /\ OwnResults'
    BY DEF JobQuery, OInv, EverybodysOwn, KeptIsOwn, OwnResults
  <1> QED
    BY <1>3, <1>8, <1>9, WorkerOwn DEF JobQuery, ctlVars, clientVars

\* The worker looks up the member of its row.
LEMMA NotifyOwn ==
  ASSUME OInv, NEW j \in Jobs, JobNotify(j)
  PROVE  EverybodysOwn'
  <1>1. /\ Busy(j) /\ job[j].st = "rows" /\ job[j] \in JobType /\ OwnWork(job[j])
        /\ job[j].i \in 1..Size(j) /\ Size(j) = job[j].to - job[j].from
    <2>1. Busy(j) /\ job[j].st = "rows" /\ job[j].i <= Size(j)
      BY DEF JobNotify, Busy
    <2> QED
      BY <2>1, BusyFacts DEF OInv, RInv, EverybodysOwn, Fits
  <1>2. PICK slot \in View(j, MemberIndex(j)) :
          \/ job' = [job EXCEPT ![j].i = @ + 1]
          \/ job' = [job EXCEPT ![j].st = "updt", ![j].res = slot.res,
                                ![j].msg = MsgFor(slot.id, RowFor(j))]
    BY DEF JobNotify
  <1>3. slot.res = WhoseRow(job[j], job[j].i)
    BY <1>1, <1>2, OwnView DEF MemberIndex
  <1>4. KeptIsOwn' /\ OwnResults'
    BY DEF JobNotify, OInv, EverybodysOwn, KeptIsOwn, OwnResults
  <1> DEFINE w1 == [job[j] EXCEPT !.i = job[j].i + 1]
             w2 == [job[j] EXCEPT !.st = "updt", !.res = slot.res,
                                  !.msg = MsgFor(slot.id, RowFor(j))]
  <1>5. job' = [job EXCEPT ![j] = w1] \/ job' = [job EXCEPT ![j] = w2]
    <2>1. CASE job' = [job EXCEPT ![j].i = @ + 1]
      BY <2>1
    <2>2. CASE job' = [job EXCEPT ![j].st = "updt", ![j].res = slot.res,
                                  ![j].msg = MsgFor(slot.id, RowFor(j))]
      BY <2>2
    <2> QED
      BY <1>2, <2>1, <2>2
  <1>6. /\ w1.st = "rows" /\ w1.rows = job[j].rows /\ w1.mem = job[j].mem
        /\ w1.sub = job[j].sub /\ w1.from = job[j].from /\ w1.to = job[j].to
    BY <1>1 DEF JobType
  <1>7. /\ w2.st = "updt" /\ w2.rows = job[j].rows /\ w2.mem = job[j].mem
        /\ w2.sub = job[j].sub /\ w2.from = job[j].from /\ w2.to = job[j].to
        /\ w2.res = slot.res /\ w2.i = job[j].i
    BY <1>1 DEF JobType
  <1> HIDE DEF w1, w2
  <1>8. \A i : WhoseRow(w1, i) = WhoseRow(job[j], i) /\ WhoseRow(w2, i) = WhoseRow(job[j], i)
    BY <1>6, <1>7, SameSource
  <1>9. OwnWork(w1) /\ OwnWork(w2)
    BY <1>1, <1>3, <1>6, <1>7, <1>8 DEF OwnWork
  <1> QED
    BY <1>4, <1>5, <1>9, WorkerOwn DEF JobNotify, ctlVars, clientVars

\* The message and then the result are sent: the row is the member's.
LEMMA SendOwn ==
  ASSUME OInv, NEW j \in Jobs, JobUpdt(j) \/ JobSend(j)
  PROVE  EverybodysOwn'
  <1>1. /\ Busy(j) /\ job[j].st \in {"updt", "send"} /\ job[j] \in JobType /\ OwnWork(job[j])
        /\ job[j].i \in 1..Size(j) /\ Size(j) = job[j].to - job[j].from
        /\ job[j].res \in Members
    <2>1. Busy(j) /\ job[j].st \in {"updt", "send"}
      BY DEF JobUpdt, JobSend, Busy
    <2> QED
      BY <2>1, BusyFacts DEF OInv, RInv, EverybodysOwn, Fits
  <1>2. KeptIsOwn'
    BY DEF JobUpdt, JobSend, OInv, EverybodysOwn, KeptIsOwn
  <1>3. OwnResults'
    <2>1. RowFor(j).vars = VarsOf[job[j].res]
      <3>1. job[j].res = WhoseRow(job[j], job[j].i)
        BY <1>1 DEF OwnWork
      <3> QED
        BY <1>1, <3>1, OwnRow DEF RowFor
    <2>2. \/ result' = result
          \/ result' = [result EXCEPT ![job[j].res] = Append(@, RowFor(j))]
      BY DEF JobUpdt, JobSend
    <2>3. /\ result \in [Members -> Seq(Result \cup {Torn})]
          /\ OwnResults
      BY DEF OInv, RInv, TInv, TypeOK, EverybodysOwn
    <2> SUFFICES ASSUME NEW m \in Members, NEW i \in 1..Len(result'[m])
                 PROVE  result'[m][i] = Torn \/ result'[m][i].vars = VarsOf[m]
      BY DEF OwnResults
    <2>4. CASE result'[m] = result[m]
      BY <2>3, <2>4 DEF OwnResults
    <2>5. CASE m = job[j].res /\ result'[m] = Append(result[m], RowFor(j))
      <3>1. result[m] \in Seq(Result \cup {Torn})
        BY <2>3
      <3>2. \/ i \in 1..Len(result[m]) /\ result'[m][i] = result[m][i]
            \/ result'[m][i] = RowFor(j)
        BY <2>5, <3>1
      <3> QED
        BY <2>1, <2>3, <2>5, <3>2 DEF OwnResults
    <2> QED
      BY <2>2, <2>3, <2>4, <2>5
  <1> DEFINE w1 == [job[j] EXCEPT !.st = "send", !.msg = None]
             w2 == [job[j] EXCEPT !.st = "rows", !.i = job[j].i + 1, !.res = None]
  <1>4. job' = [job EXCEPT ![j] = w1] \/ job' = [job EXCEPT ![j] = w2]
    <2>1. CASE JobUpdt(j)
      BY <2>1 DEF JobUpdt
    <2>2. CASE JobSend(j)
      BY <2>2 DEF JobSend
    <2> QED
      BY <2>1, <2>2
  <1>5. /\ w1.st = "send" /\ w1.rows = job[j].rows /\ w1.mem = job[j].mem
        /\ w1.sub = job[j].sub /\ w1.from = job[j].from /\ w1.to = job[j].to
        /\ w1.res = job[j].res /\ w1.i = job[j].i
    BY <1>1 DEF JobType
  <1>6. /\ w2.st = "rows" /\ w2.rows = job[j].rows /\ w2.mem = job[j].mem
        /\ w2.sub = job[j].sub /\ w2.from = job[j].from /\ w2.to = job[j].to
    BY <1>1 DEF JobType
  <1> HIDE DEF w1, w2
  <1>7. \A i : WhoseRow(w1, i) = WhoseRow(job[j], i) /\ WhoseRow(w2, i) = WhoseRow(job[j], i)
    BY <1>5, <1>6, SameSource
  <1>8. OwnWork(w1) /\ OwnWork(w2)
    BY <1>1, <1>5, <1>6, <1>7 DEF OwnWork
  <1> QED
    BY <1>2, <1>3, <1>4, <1>8, WorkerOwn DEF JobUpdt, JobSend, ctlVars, clientVars

\* The result that is kept is of the variables everybody has.
LEMMA ReturnOwn ==
  ASSUME OInv, NEW j \in Jobs, JobFails(j) \/ JobDone(j)
  PROVE  EverybodysOwn'
  <1>1. Busy(j) /\ Return(j)
    BY DEF JobFails, JobDone, Busy
  <1> DEFINE s == job[j].sub
             w == IF MoreChunks(j) THEN Chunk(s, job[j].to, TRUE) ELSE IdleJob
  <1>2. /\ s \in SubIds /\ Fits(job[j]) /\ Size(j) \in Nat \ {0}
        /\ job[j] \in JobType
    BY <1>1, BusyFacts DEF OInv, RInv
  <1>3. job' = [job EXCEPT ![j] = w]
    BY <1>1 DEF Return
  <1>4. w.st # "idle" => OwnWork(w)
    BY DEF OwnWork, Chunk, IdleJob
  <1> HIDE DEF w
  <1>5. \A t \in SubIds : ctl'[t] = "write" <=> ctl[t] = "write"
    <2>1. ctl' = [ctl EXCEPT ![s] = IF job[j].inline /\ ~MoreChunks(j) THEN "select"
                                    ELSE ctl[s]]
      BY <1>1 DEF Return
    <2>2. job[j].inline => ctl[s] = "fanout"
      BY <1>2 DEF Fits
    <2>3. DOMAIN ctl = SubIds
      BY DEF OInv, RInv, TInv, TypeOK
    <2> QED
      BY <1>2, <2>1, <2>2, <2>3
  <1>6. OwnResults'
    BY DEF JobFails, JobDone, OInv, EverybodysOwn, OwnResults
  <1>7. KeptIsOwn'
    <2>1. KeptIsOwn /\ js \in [SubIds -> Result \cup {None}]
      BY DEF OInv, RInv, TInv, TypeOK, EverybodysOwn
    <2>2. CASE js' = js
      BY <2>1, <2>2 DEF KeptIsOwn
    <2>3. CASE js' # js
      <3>1. /\ ~HasParams /\ job[j].st = "rows"
            /\ js' = [js EXCEPT ![s] = job[j].rows[1]]
        BY <2>3 DEF JobFails, JobDone
      <3>2. /\ WhoseRow(job[j], 1) \in Members
            /\ job[j].rows[1].vars = VarsOf[WhoseRow(job[j], 1)]
        BY <1>1, <1>2, <3>1, WhoseRowType, OwnRow DEF OInv, RInv
      <3>3. \A m \in Members : job[j].rows[1].vars = VarsOf[m]
        BY <3>1, <3>2, SubsAssumption
      <3> QED
        BY <2>1, <3>1, <3>3 DEF KeptIsOwn
    <2> QED
      BY <2>2, <2>3
  <1>8. UNCHANGED <<mval, wr, pc>>
    BY DEF JobFails, JobDone, clientVars
  <1> QED
    BY <1>3, <1>4, <1>5, <1>6, <1>7, <1>8, WorkerOwn

\* A controller begins to write the slot of the member it is for.
LEMMA StartOwn ==
  ASSUME OInv, NEW s \in SubIds, NEW i, NEW slot, NEW n, StartWrite(s, i, slot, n),
         UNCHANGED <<mval, job, js, result>>, NobodyLeft', Own(slot),
         \/ i <= mval[s].n /\ n = mval[s].n /\ slot.id = mval[s].mem[i].id
         \/ i = mval[s].n + 1 /\ n = mval[s].n + 1
  PROVE  EverybodysOwn'
  <1>1. /\ \A t \in SubIds : t # s => ctl'[t] = ctl[t] /\ wr'[t] = wr[t]
        /\ wr'[s] = [i |-> i, slot |-> slot, n |-> n]
    BY DEF StartWrite, OInv, RInv, TInv, TypeOK
  <1>2. /\ \A t \in SubIds : /\ mval[t].n = Len(mval[t].mem)
                             /\ \A k \in 1..Len(mval[t].mem) : Own(mval[t].mem[k])
        /\ SlotsStay
    BY DEF OInv, EverybodysOwn, SlotsStay
  <1>3. ASSUME NEW t \in SubIds, ctl'[t] = "write"
        PROVE  /\ Own(wr'[t].slot)
               /\ \/ wr'[t].i <= mval[t].n /\ wr'[t].n = mval[t].n
                     /\ wr'[t].slot.id = mval[t].mem[wr'[t].i].id
                  \/ wr'[t].i = mval[t].n + 1 /\ wr'[t].n = mval[t].n + 1
    <2>1. CASE t = s
      BY <1>1, <2>1
    <2>2. CASE t # s
      BY <1>1, <1>2, <1>3, <2>2 DEF SlotsStay
    <2> QED
      BY <2>1, <2>2
  <1>4. \A t \in SubIds : Own(wr[t].slot)' <=> Own(wr'[t].slot)
    BY DEF Own
  <1>5. \A t \in SubIds : mval'[t] = mval[t]
    OBVIOUS
  <1>6. SlotsStay'
    BY <1>2, <1>3, <1>5 DEF SlotsStay, Own
  <1>7. \A k \in Jobs : Busy(k)' => OwnWork(job[k])'
    BY DEF OInv, EverybodysOwn, Busy, OwnWork, WhoseRow, Source
  <1>8. KeptIsOwn' /\ OwnResults'
    BY DEF OInv, EverybodysOwn, KeptIsOwn, OwnResults
  <1> QED
    BY <1>6, <1>7, <1>8 DEF EverybodysOwn

\* A client joins, or a message arrives: nobody is there to be deleted.
LEMMA SelectOwn ==
  ASSUME OInv, NEW s \in SubIds,
         (\E m \in Members : CtlAdd(s, m) \/ CtlDel(s, m)) \/ CtlUpdt(s)
  PROVE  EverybodysOwn'
  <1>1. /\ ctl[s] = "select" /\ UNCHANGED <<mval, job, js, result>>
        /\ NobodyLeft /\ SlotsStay /\ TInv
    BY DEF CtlAdd, CtlDel, CtlUpdt, OInv, RInv, EverybodysOwn
  <1>2. ASSUME NEW m \in Members, CtlAdd(s, m)
        PROVE  EverybodysOwn'
    <2>1. Own(SlotOf(m))
      BY DEF Own, SlotOf, MoveCursor
    <2>2. NobodyLeft'
      BY <1>1, <1>2 DEF CtlAdd, NobodyLeft, TInv, TypeOK
    <2>3. StartWrite(s, mval[s].n + 1, SlotOf(m), mval[s].n + 1)
      BY <1>2 DEF CtlAdd
    <2> QED
      BY <1>1, <2>1, <2>2, <2>3, StartOwn
  <1>3. \A m \in Members : ~CtlDel(s, m)
    BY <1>1 DEF CtlDel, NobodyLeft
  <1>4. CASE CtlUpdt(s)
    <2> DEFINE msg == Head(updt[s])
    <2>1. NobodyLeft'
      BY <1>1, <1>4 DEF CtlUpdt, clientVars, NobodyLeft
    <2>2. CASE Find(s, msg.id) = {}
      <3>1. UNCHANGED <<ctl, wr>>
        BY <1>4, <2>2 DEF CtlUpdt
      <3>2. SlotsStay' /\ KeptIsOwn' /\ OwnResults'
        BY <1>1, <3>1 DEF OInv, EverybodysOwn, SlotsStay, Own, KeptIsOwn, OwnResults
      <3>3. \A k \in Jobs : Busy(k)' => OwnWork(job[k])'
        BY <1>1 DEF OInv, EverybodysOwn, Busy, OwnWork, WhoseRow, Source
      <3> QED
        BY <2>1, <3>2, <3>3 DEF EverybodysOwn
    <2>3. CASE Find(s, msg.id) # {}
      <3>1. PICK i \in Find(s, msg.id) :
              StartWrite(s, i, Updated(mval[s].mem[i], msg), mval[s].n)
        BY <1>4, <2>3 DEF CtlUpdt
      <3>2. i \in 1..mval[s].n /\ mval[s].n = Len(mval[s].mem)
        BY <1>1 DEF Find, Indices, SlotsStay
      <3>3. mval[s].mem[i] \in Slot /\ Own(mval[s].mem[i])
        BY <1>1, <3>2 DEF TInv, TypeOK, SlotsStay
      <3>4. Own(Updated(mval[s].mem[i], msg))
            /\ Updated(mval[s].mem[i], msg).id = mval[s].mem[i].id
        BY <3>3 DEF Own, Updated, MoveCursor, Slot
      <3>5. i <= mval[s].n
        BY <3>2
      <3> QED
        BY <1>1, <2>1, <3>1, <3>4, <3>5, StartOwn
    <2> QED
      BY <2>2, <2>3
  <1> QED
    BY <1>2, <1>3, <1>4

\* What a write makes of the slots: the one it was for, and the others as they were.
LEMMA WriteSlots ==
  ASSUME OInv, NEW s \in SubIds, CtlWrite(s)
  PROVE  /\ \A t \in SubIds : t # s => /\ ctl'[t] = ctl[t] /\ wr'[t] = wr[t]
                                       /\ mval'[t] = mval[t]
         /\ ctl'[s] # "write" /\ mval'[s].n = Len(mval'[s].mem)
         /\ ctl[s] = "write" /\ Own(wr[s].slot)
         /\ \A i \in 1..Len(mval'[s].mem) :
               \/ mval'[s].mem[i] = wr[s].slot
               \/ i \in 1..Len(mval[s].mem) /\ mval'[s].mem[i] = mval[s].mem[i]
         /\ \A i \in 1..Len(mval[s].mem) : mval'[s].mem[i].id = mval[s].mem[i].id
  <1> DEFINE mem == mval[s].mem
             w == wr[s]
             mem2 == IF w.i <= Len(mem) THEN [mem EXCEPT ![w.i] = w.slot]
                     ELSE Append(mem, w.slot)
  <1>1. /\ TInv /\ SlotsStay /\ ctl[s] = "write"
        /\ mem \in Seq(Slot) /\ Len(mem) \in Nat /\ w.i \in Nat \ {0} /\ Own(w.slot)
        /\ \/ w.i <= Len(mem) /\ w.n = Len(mem) /\ w.slot.id = mem[w.i].id
           \/ w.i = Len(mem) + 1 /\ w.n = Len(mem) + 1
    <2>1. TInv /\ SlotsStay /\ ctl[s] = "write"
      BY DEF OInv, RInv, EverybodysOwn, CtlWrite
    <2>2. mem \in Seq(Slot) /\ Len(mem) \in Nat
      BY <2>1 DEF TInv, TypeOK
    <2>3. w.i \in 1..(Len(mem) + 1)
      BY <2>1 DEF TInv, Shape, SlotShape
    <2>4. w.i \in Nat \ {0}
      BY <2>2, <2>3
    <2>5. /\ mval[s].n = Len(mem) /\ Own(w.slot)
          /\ \/ w.i <= Len(mem) /\ w.n = Len(mem) /\ w.slot.id = mem[w.i].id
             \/ w.i = Len(mem) + 1 /\ w.n = Len(mem) + 1
      BY <2>1 DEF SlotsStay
    <2> QED
      BY <2>1, <2>2, <2>4, <2>5
  <1>2. /\ Len(mem2) = w.n
        /\ \A i \in 1..Len(mem2) : \/ mem2[i] = w.slot
                                   \/ i \in 1..Len(mem) /\ mem2[i] = mem[i]
        /\ \A i \in 1..Len(mem) : mem2[i].id = mem[i].id
    <2>1. CASE w.i <= Len(mem)
      <3>1. Len(mem2) = Len(mem) /\ \A i \in 1..Len(mem) :
              mem2[i] = IF i = w.i THEN w.slot ELSE mem[i]
        BY <1>1, <2>1
      <3> HIDE DEF mem2
      <3>2. \A i \in 1..Len(mem2) : i \in 1..Len(mem) /\ (mem2[i] = w.slot \/ mem2[i] = mem[i])
        BY <3>1
      <3>3. \A i \in 1..Len(mem) : mem2[i].id = mem[i].id
        BY <1>1, <2>1, <3>1
      <3> QED
        BY <1>1, <2>1, <3>1, <3>2, <3>3
    <2>2. CASE w.i = Len(mem) + 1
      <3>1. /\ Len(mem2) = Len(mem) + 1
            /\ \A i \in 1..Len(mem) : mem2[i] = mem[i]
            /\ mem2[Len(mem) + 1] = w.slot
        BY <1>1, <2>2
      <3> HIDE DEF mem2
      <3>2. \A i \in 1..(Len(mem) + 1) : i \in 1..Len(mem) \/ i = Len(mem) + 1
        BY <1>1
      <3>3. \A i \in 1..Len(mem2) : \/ mem2[i] = w.slot
                                    \/ i \in 1..Len(mem) /\ mem2[i] = mem[i]
        BY <3>1, <3>2
      <3>4. Len(mem2) = w.n
        BY <1>1, <2>2, <3>1
      <3> QED
        BY <3>1, <3>3, <3>4
    <2> QED
      BY <1>1, <2>1, <2>2
  <1>3. PICK cap2 : mval' = [mval EXCEPT ![s] = [mem |-> mem2, n |-> w.n, cap |-> cap2]]
    BY DEF CtlWrite
  <1> HIDE DEF mem2
  <1>4. /\ \A t \in SubIds : t # s => /\ ctl'[t] = ctl[t] /\ wr'[t] = wr[t]
                                      /\ mval'[t] = mval[t]
        /\ ctl'[s] # "write" /\ mval'[s].mem = mem2 /\ mval'[s].n = w.n
    BY <1>1, <1>3 DEF CtlWrite, TInv, TypeOK
  <1> QED
    BY <1>1, <1>2, <1>4

\* The workers keep what they have, and an index means the member it meant.
LEMMA WriteRows ==
  ASSUME OInv, NEW s \in SubIds, CtlWrite(s), NEW k \in Jobs, Busy(k)'
  PROVE  /\ Busy(k)
         /\ job'[k].st = job[k].st /\ job'[k].sub = job[k].sub
         /\ job'[k].from = job[k].from /\ job'[k].to = job[k].to
         /\ job'[k].params = job[k].params /\ job'[k].rows = job[k].rows
         /\ job'[k].res = job[k].res /\ job'[k].i = job[k].i /\ job'[k].msg = job[k].msg
         /\ \/ job'[k].mem = job[k].mem
            \/ job[k].mem = None /\ job[k].sub = s /\ job'[k].mem = mval[s].mem
         /\ \A i \in 1..Size(k) : WhoseRow(job[k], i)' = WhoseRow(job[k], i)
  <1>1. TInv
    BY DEF OInv, RInv
  <1>2. /\ job[k] \in JobType
        /\ \/ job'[k] = job[k]
           \/ Sharing(k, s) /\ job'[k] = [job[k] EXCEPT !.mem = mval[s].mem]
    BY <1>1 DEF CtlWrite, TInv, TypeOK
  <1>3. Busy(k)
    BY <1>2 DEF Busy, Sharing
  <1>4. /\ job'[k].st = job[k].st /\ job'[k].sub = job[k].sub
        /\ job'[k].from = job[k].from /\ job'[k].to = job[k].to
        /\ job'[k].params = job[k].params /\ job'[k].rows = job[k].rows
        /\ job'[k].res = job[k].res /\ job'[k].i = job[k].i /\ job'[k].msg = job[k].msg
        /\ \/ job'[k].mem = job[k].mem
           \/ job[k].mem = None /\ job[k].sub = s /\ job'[k].mem = mval[s].mem
    BY <1>2 DEF JobType, Sharing
  <1>5. /\ Fits(job[k]) /\ job[k].from \in Nat /\ job[k].to \in Nat
        /\ Size(k) = job[k].to - job[k].from /\ Size(k) \in Nat \ {0}
        /\ job[k].sub \in SubIds
    BY <1>1, <1>3, BusyFacts
  <1>6. ASSUME NEW i \in 1..Size(k)
        PROVE  WhoseRow(job[k], i)' = WhoseRow(job[k], i)
    <2>1. CASE job[k].mem = None /\ job[k].sub = s
      <3>0. Len(mval[s].mem) \in Nat
        BY <1>1 DEF TInv, TypeOK
      <3>1. job[k].to <= Len(mval[s].mem)
        BY <1>5, <2>1 DEF Fits
      <3>2. job[k].from + i \in 1..Len(mval[s].mem)
        <4>1. job[k].from + i \in Nat /\ 1 <= job[k].from + i /\ job[k].from + i <= job[k].to
          BY <1>5
        <4> QED
          BY <1>5, <3>0, <3>1, <4>1
      <3>3. mval'[s].mem[job[k].from + i].id = mval[s].mem[job[k].from + i].id
        BY <3>2, WriteSlots
      <3>4. WhoseRow(job[k], i) = mval[s].mem[job[k].from + i].id
        BY <2>1 DEF WhoseRow, Source
      <3>5. CASE job'[k].mem = None
        BY <1>4, <2>1, <3>3, <3>4, <3>5 DEF WhoseRow, Source
      <3>6. CASE job'[k].mem # None
        BY <1>4, <2>1, <3>4, <3>6 DEF WhoseRow, Source
      <3> QED
        BY <3>5, <3>6
    <2>2. CASE job[k].mem = None /\ job[k].sub # s
      BY <1>4, <1>5, <2>2, WriteSlots DEF WhoseRow, Source
    <2>3. CASE job[k].mem # None
      BY <1>4, <2>3 DEF WhoseRow, Source
    <2> QED
      BY <2>1, <2>2, <2>3
  <1> QED
    BY <1>3, <1>4, <1>6

\* The slot is written: an index means the member it meant.
LEMMA WriteOwn ==
  ASSUME OInv, NEW s \in SubIds, CtlWrite(s)
  PROVE  EverybodysOwn'
  <1>1. /\ TInv /\ SlotsStay
        /\ \A t \in SubIds : mval[t].mem \in Seq(Slot)
    BY DEF OInv, RInv, EverybodysOwn, TInv, TypeOK
  <1>2. \A i \in 1..Len(mval'[s].mem) : Own(mval'[s].mem[i])
    BY <1>1, WriteSlots DEF SlotsStay
  <1>3. SlotsStay'
    <2> SUFFICES ASSUME NEW t \in SubIds
                 PROVE  /\ mval'[t].n = Len(mval'[t].mem)
                        /\ \A i \in 1..Len(mval'[t].mem) : Own(mval'[t].mem[i])
                        /\ ctl'[t] = "write" =>
                             /\ Own(wr'[t].slot)
                             /\ \/ wr'[t].i <= mval'[t].n /\ wr'[t].n = mval'[t].n
                                   /\ wr'[t].slot.id = mval'[t].mem[wr'[t].i].id
                                \/ wr'[t].i = mval'[t].n + 1 /\ wr'[t].n = mval'[t].n + 1
      BY DEF SlotsStay, Own
    <2>1. CASE t = s
      BY <1>2, <2>1, WriteSlots
    <2>2. CASE t # s
      BY SMTT(30), <1>1, <2>2, WriteSlots DEF SlotsStay
    <2> QED
      BY <2>1, <2>2
  <1>4. ASSUME NEW k \in Jobs, Busy(k)'
        PROVE  OwnWork(job[k])'
    <2>1. /\ Busy(k)
          /\ job'[k].st = job[k].st /\ job'[k].sub = job[k].sub
          /\ job'[k].from = job[k].from /\ job'[k].to = job[k].to
          /\ job'[k].params = job[k].params /\ job'[k].rows = job[k].rows
          /\ job'[k].res = job[k].res /\ job'[k].i = job[k].i
          /\ job'[k].mem = job[k].mem \/ job'[k].mem = mval[s].mem
          /\ \A i \in 1..Size(k) : WhoseRow(job[k], i)' = WhoseRow(job[k], i)
      BY <1>4, WriteRows
    <2>2. /\ Fits(job[k]) /\ OwnWork(job[k]) /\ job[k].from \in Nat /\ job[k].to \in Nat
          /\ Size(k) = job[k].to - job[k].from /\ Size(k) \in Nat \ {0}
          /\ job[k] \in JobType
      BY <1>1, <2>1, BusyFacts DEF OInv, EverybodysOwn
    <2>3. job'[k].mem # None => \A i \in 1..Len(job'[k].mem) : Own(job'[k].mem[i])
      <3>1. CASE job'[k].mem = job[k].mem
        BY <2>2, <3>1 DEF OwnWork
      <3>2. CASE job'[k].mem = mval[s].mem
        BY <1>1, <3>2 DEF SlotsStay
      <3> QED
        BY <2>1, <3>1, <3>2
    <2>4. job[k].st = "query" =>
            \A i \in 1..Size(k) : job'[k].params[i].vars = VarsOf[WhoseRow(job[k], i)']
      BY <2>1, <2>2 DEF OwnWork
    <2>5. job[k].st \in {"rows", "updt", "send"} =>
            \A i \in 1..(IF HasParams THEN Size(k) ELSE 1) :
               job'[k].rows[i].vars = VarsOf[WhoseRow(job[k], i)']
      <3>1. \A i \in 1..(IF HasParams THEN Size(k) ELSE 1) : i \in 1..Size(k)
        BY <2>2
      <3> QED
        BY <2>1, <2>2, <3>1 DEF OwnWork
    <2>6. job[k].st \in {"updt", "send"} => job'[k].res = WhoseRow(job[k], job[k].i)'
      <3>1. job[k].st \in {"updt", "send"} => job[k].i \in 1..Size(k)
        BY <2>2 DEF Fits, JobType
      <3>2. job[k].st \in {"updt", "send"} => job[k].res = WhoseRow(job[k], job[k].i)
        BY <2>2 DEF OwnWork
      <3>3. \A i \in {job[k].i} : i \in 1..Size(k) => WhoseRow(job[k], i)' = WhoseRow(job[k], i)
        BY <2>1
      <3> QED
        BY <2>1, <3>1, <3>2, <3>3
    <2> QED
      BY <2>1, <2>2, <2>3, <2>4, <2>5, <2>6 DEF OwnWork
  <1>5. NobodyLeft' /\ KeptIsOwn' /\ OwnResults'
    BY DEF CtlWrite, clientVars, OInv, EverybodysOwn, NobodyLeft, KeptIsOwn, OwnResults
  <1> QED
    BY <1>3, <1>4, <1>5 DEF EverybodysOwn

\* A poll starts a worker on the shared arrays; an end changes no slot.
LEMMA PollOwn ==
  ASSUME OInv, NEW s \in SubIds, CtlPoll(s) \/ Turn(s) \/ CtlExit(s)
  PROVE  EverybodysOwn'
  <1>1. /\ UNCHANGED <<mval, wr, pc, js, result>> /\ DOMAIN ctl = SubIds
        /\ job \in [Jobs -> JobType]
    BY DEF CtlPoll, Turn, CtlTimer, CtlPollSkipped, CtlExit, clientVars, OInv, RInv, TInv,
           TypeOK
  <1>2. \A t \in SubIds : ctl'[t] = "write" <=> ctl[t] = "write"
    BY <1>1 DEF CtlPoll, Turn, CtlTimer, CtlPollSkipped, CtlExit
  <1>3. KeptIsOwn' /\ OwnResults'
    BY <1>1 DEF OInv, EverybodysOwn, KeptIsOwn, OwnResults
  <1>4. CASE CtlPoll(s)
    <2>1. PICK j \in Jobs : \E b : job' = [job EXCEPT ![j] = Chunk(s, 0, b)]
      BY <1>4 DEF CtlPoll
    <2>2. PICK b : job' = [job EXCEPT ![j] = Chunk(s, 0, b)]
      BY <2>1
    <2>3. OwnWork(Chunk(s, 0, b))
      BY DEF OwnWork, Chunk
    <2> QED
      BY <1>1, <1>2, <1>3, <2>2, <2>3, WorkerOwn
  <1>5. CASE Turn(s) \/ CtlExit(s)
    <2>1. job' = job
      BY <1>5 DEF Turn, CtlTimer, CtlPollSkipped, CtlExit
    <2>2. \A k \in Jobs : Busy(k)' => OwnWork(job[k])'
      BY ZenonT(30), <1>1, <2>1 DEF OInv, EverybodysOwn, Busy, OwnWork, WhoseRow, Source
    <2>3. NobodyLeft' /\ SlotsStay'
      BY <1>1, <1>2 DEF OInv, EverybodysOwn, NobodyLeft, SlotsStay, Own
    <2> QED
      BY <1>3, <2>2, <2>3 DEF EverybodysOwn
  <1> QED
    BY <1>4, <1>5

\* A client's first result is of its own variables, the one kept for everybody
\* as well.
LEMMA ClientOwn ==
  ASSUME OInv, NEW m \in Members, Client(m), Leavers = {}
  PROVE  EverybodysOwn'
  <1>1. UNCHANGED <<mval, wr, js, job>> /\ DOMAIN ctl = SubIds /\ DOMAIN pc = Members
    BY DEF Client, Load, Do, InitSub, InitSubFails, Undo, First, FirstFails, Receive, Leave,
           ctlVars, OInv, RInv, TInv, TypeOK
  <1>2. ~Leave(m)
    BY DEF Leave
  <1>3. \A t \in SubIds : ctl'[t] = "write" <=> ctl[t] = "write"
    <2>1. CASE InitSub(m)
      <3>1. ctl[at[m]] = "none"
        BY <2>1, InitRegistered DEF OInv
      <3> QED
        BY <1>1, <2>1, <3>1 DEF InitSub, StartController
    <2>2. CASE ~InitSub(m)
      BY <2>2 DEF Client, Load, Do, InitSubFails, Undo, First, FirstFails, Receive, Leave,
                  ctlVars
    <2> QED
      BY <2>1, <2>2
  <1>4. SlotsStay'
    BY <1>1, <1>3 DEF OInv, EverybodysOwn, SlotsStay, Own
  <1>5. NobodyLeft'
    <2>1. NobodyLeft
      BY DEF OInv, EverybodysOwn
    <2>2. pc' = pc \/ \E c \in {"do", "init", "args", "undo", "failed", "panicked", "add"} :
                         pc' = [pc EXCEPT ![m] = c]
      <3>1. CASE Receive(m)
        BY <3>1 DEF Receive, clientVars
      <3>2. CASE ~Receive(m)
        BY <1>2, <3>2 DEF Client, Load, Do, InitSub, InitSubFails, Undo, First, FirstFails
      <3> QED
        BY <3>1, <3>2
    <2> QED
      BY <1>1, <2>1, <2>2 DEF NobodyLeft
  <1>6. \A k \in Jobs : Busy(k)' => OwnWork(job[k])'
    BY ZenonT(30), <1>1 DEF OInv, EverybodysOwn, Busy, OwnWork, WhoseRow, Source
  <1>7. KeptIsOwn'
    BY <1>1 DEF OInv, EverybodysOwn, KeptIsOwn
  <1>8. OwnResults'
    <2>1. /\ result \in [Members -> Seq(Result \cup {Torn})]
          /\ OwnResults /\ KeptIsOwn
      BY DEF OInv, RInv, TInv, TypeOK, EverybodysOwn
    <2>2. CASE First(m)
      <3> DEFINE fetched == Query([vars |-> VarsOf[m], lo |-> 0])
      <3>1. PICK kept \in JsViews(at[m]) :
              LET r == IF kept # None THEN kept ELSE fetched
              IN result' = IF Skipped(r) THEN result
                           ELSE [result EXCEPT ![m] = Append(@, r)]
        BY <2>2 DEF First
      <3>2. PICK r : r = IF kept # None THEN kept ELSE fetched
        OBVIOUS
      <3>3. result' = result \/ result' = [result EXCEPT ![m] = Append(@, r)]
        BY <3>1, <3>2
      <3>4. at[m] \in SubIds
        BY <2>2 DEF OInv, RInv, TInv, Shape, ClientShape, First
      <3>5. kept = js[at[m]] \/ kept = Torn
        BY DEF JsViews
      <3>6. r = Torn \/ r.vars = VarsOf[m]
        <4>1. CASE kept = None
          BY <3>2, <4>1 DEF Query
        <4>2. CASE kept # None
          BY <2>1, <3>2, <3>4, <3>5, <4>2 DEF KeptIsOwn
        <4> QED
          BY <4>1, <4>2
      <3> SUFFICES ASSUME NEW k \in Members, NEW i \in 1..Len(result'[k])
                   PROVE  result'[k][i] = Torn \/ result'[k][i].vars = VarsOf[k]
        BY DEF OwnResults
      <3>7. CASE result'[k] = result[k]
        BY <2>1, <3>7 DEF OwnResults
      <3>8. CASE k = m /\ result'[k] = Append(result[k], r)
        <4>1. result[k] \in Seq(Result \cup {Torn})
          BY <2>1
        <4>2. \/ i \in 1..Len(result[k]) /\ result'[k][i] = result[k][i]
              \/ result'[k][i] = r
          BY <3>8, <4>1
        <4> QED
          BY <2>1, <3>6, <3>8, <4>2 DEF OwnResults
      <3> QED
        BY <2>1, <3>3, <3>7, <3>8
    <2>3. CASE Receive(m)
      <3> SUFFICES ASSUME NEW k \in Members, NEW i \in 1..Len(result'[k])
                   PROVE  result'[k][i] = Torn \/ result'[k][i].vars = VarsOf[k]
        BY DEF OwnResults
      <3>1. /\ result[m] # <<>> /\ result[m] \in Seq(Result \cup {Torn})
            /\ result' = [result EXCEPT ![m] = Tail(result[m])]
        BY <2>1, <2>3 DEF Receive
      <3>2. CASE k = m
        <4>1. i + 1 \in 1..Len(result[m]) /\ result'[k][i] = result[m][i + 1]
          BY <2>1, <3>1, <3>2
        <4> QED
          BY <2>1, <3>2, <4>1 DEF OwnResults
      <3>3. CASE k # m
        BY <2>1, <3>1, <3>3 DEF OwnResults
      <3> QED
        BY <3>2, <3>3
    <2>4. CASE ~First(m) /\ ~Receive(m)
      <3>1. result' = result
        BY <2>4 DEF Client, Load, Do, InitSub, InitSubFails, Undo, FirstFails, Leave
      <3> QED
        BY <2>1, <3>1 DEF OwnResults
    <2> QED
      BY <2>2, <2>3, <2>4
  <1> QED
    BY <1>4, <1>5, <1>6, <1>7, <1>8 DEF EverybodysOwn

\* The invariant holds initially: there is nothing that could be another's ...
LEMMA InitOInv ==
  ASSUME Init
  PROVE  OInv
  <1>1. NobodyLeft /\ KeptIsOwn
    BY DEF Init, NobodyLeft, KeptIsOwn
  <1>2. SlotsStay
    BY DEF Init, SlotsStay, EmptyMval
  <1>3. (\A j \in Jobs : ~Busy(j)) /\ OwnResults
    BY DEF Init, Busy, IdleJob, OwnResults
  <1> QED
    BY <1>1, <1>2, <1>3, InitRInv DEF OInv, EverybodysOwn

\* ... and every step keeps it while there is nobody who may leave.
LEMMA NextOInv ==
  ASSUME OInv, [Next]_vars, Leavers = {}
  PROVE  OInv'
  <1>1. RInv'
    BY NextRInv DEF OInv
  <1>2. ASSUME UNCHANGED <<ctl, wr, mval, js, pc, result, job>>
        PROVE  EverybodysOwn'
    <2>1. SlotsStay' /\ NobodyLeft' /\ KeptIsOwn' /\ OwnResults'
      BY <1>2 DEF OInv, EverybodysOwn, SlotsStay, Own, NobodyLeft, KeptIsOwn, OwnResults
    <2>2. \A k \in Jobs : Busy(k)' => OwnWork(job[k])'
      BY ZenonT(30), <1>2 DEF OInv, EverybodysOwn, Busy, OwnWork, WhoseRow, Source
    <2> QED
      BY <2>1, <2>2 DEF EverybodysOwn
  <1>3. ASSUME NEW v \in Vars, Change(v)
        PROVE  EverybodysOwn'
    BY <1>2, <1>3 DEF Change, ctlVars, clientVars
  <1>4. ASSUME NEW s \in SubIds, Controller(s)
        PROVE  EverybodysOwn'
    BY <1>4, SelectOwn, WriteOwn, PollOwn DEF Controller, Turn
  <1>5. ASSUME NEW j \in Jobs, Worker(j)
        PROVE  EverybodysOwn'
    <2>1. CASE JobPanics(j)
      BY <1>2, <2>1 DEF JobPanics, ctlVars, clientVars
    <2> QED
      BY <1>5, <2>1, RenderOwn, QueryOwn, NotifyOwn, SendOwn, ReturnOwn DEF Worker
  <1>6. CASE UNCHANGED vars
    <2>1. EverybodysOwn'
      BY <1>2, <1>6 DEF vars, ctlVars, clientVars
    <2> QED
      BY <1>1, <2>1 DEF OInv
  <1> QED
    BY <1>1, <1>3, <1>4, <1>5, <1>6, ClientOwn DEF Next, OInv

\* As long as no client unsubscribes, a client is only sent results of its own
\* variables: deleteMember, which moves a slot under the workers, is the only way
\* to the result of another.
THEOREM ResultsAreOwn == Spec => [](Leavers = {} => OwnResults)
  <1>1. Init => OInv
    BY InitOInv
  <1>2. OInv => OwnResults
    BY DEF OInv, EverybodysOwn
  <1>3. CASE Leavers = {}
    <2>1. OInv /\ [Next]_vars => OInv'
      BY <1>3, NextOInv
    <2> QED
      BY <1>1, <1>2, <2>1, PTL DEF Spec
  <1>4. CASE Leavers # {}
    <2>1. Leavers = {} => OwnResults
      BY <1>4
    <2> QED
      BY <2>1, PTL
  <1> QED
    BY <1>3, <1>4

-----------------------------------------------------------------------------
(* Cursors.  Wherever a cursor of a member is, in a slot, a copy, a parameter, *)
(* a row or a message, the rows up to it were sent to the member.            *)

Past(m, c) == 1..c \subseteq SentTo(m)

SlotsPast ==
  \A s \in SubIds :
     /\ \A i \in 1..Len(mval[s].mem) : Past(mval[s].mem[i].id, mval[s].mem[i].lo)
     /\ ctl[s] = "write" => Past(wr[s].slot.id, wr[s].slot.lo)

\* The members of a chunk have joined, and the cursors of its copy, parameters
\* and rows are theirs.
WorkPast(w) ==
  /\ \A i \in 1..(w.to - w.from) : pc[WhoseRow(w, i)] = "joined"
  /\ w.mem # None => \A i \in 1..Len(w.mem) : Past(w.mem[i].id, w.mem[i].lo)
  /\ w.st = "query" => \A i \in 1..(w.to - w.from) : Past(WhoseRow(w, i), w.params[i].lo)
  /\ w.st \in {"rows", "updt", "send"} =>
       \A i \in 1..(IF HasParams THEN w.to - w.from ELSE 1) :
          Past(WhoseRow(w, i), w.rows[i].lo)
  /\ w.st = "updt" => Past(w.msg.id, w.msg.cursor)

MessagesPast ==
  \A s \in SubIds : \A k \in 1..Len(updt[s]) : Past(updt[s][k].id, updt[s][k].cursor)

FirstPast == \A m \in Members : pc[m] = "add" => Past(m, first[m].cursor)

CursorsPast ==
  /\ SlotsPast
  /\ \A j \in Jobs : Busy(j) => WorkPast(job[j])
  /\ MessagesPast
  /\ FirstPast

LInv == JInv /\ EverybodysOwn /\ CursorsPast

Sending(j) == job[j].st \in {"updt", "send"}

HasRows(j) == job[j].st \in {"rows", "updt", "send"}

\* What a step does to the channel of a client.
LEMMA ResultsStep ==
  ASSUME TInv, [Next]_vars, NEW m \in Members
  PROVE  \/ result'[m] = result[m] /\ rows'[m] = rows[m]
         \/ (\E r : result'[m] = Append(result[m], r)) /\ rows'[m] = rows[m]
         \/ Receive(m)
  <1>1. DOMAIN result = Members /\ DOMAIN rows = Members
    BY DEF TInv, TypeOK
  <1>2. CASE UNCHANGED vars
    BY <1>2 DEF vars, readVars
  <1>3. ASSUME NEW k \in Members, Client(k)
        PROVE  \/ result'[m] = result[m] /\ rows'[m] = rows[m]
               \/ (\E r : result'[m] = Append(result[m], r)) /\ rows'[m] = rows[m]
               \/ Receive(m)
    <2>1. CASE First(k)
      <3>1. rows' = rows
            /\ (result' = result \/ \E r : result' = [result EXCEPT ![k] = Append(@, r)])
        BY <2>1 DEF First, readVars
      <3> QED
        BY <1>1, <3>1
    <2>2. CASE Receive(k)
      BY <1>1, <2>2 DEF Receive
    <2>3. CASE ~First(k) /\ ~Receive(k)
      BY <1>3, <2>3 DEF Client, Load, Do, InitSub, InitSubFails, Undo, FirstFails, Leave,
                        readVars
    <2> QED
      BY <2>1, <2>2, <2>3
  <1>4. ASSUME NEW j \in Jobs, Worker(j)
        PROVE  \/ result'[m] = result[m] /\ rows'[m] = rows[m]
               \/ (\E r : result'[m] = Append(result[m], r)) /\ rows'[m] = rows[m]
    <2>1. rows' = rows
      BY <1>4 DEF Worker, JobRender, JobQuery, JobFails, JobNotify, JobUpdt, JobSend, JobDone,
                  JobPanics, readVars
    <2>2. CASE JobSend(j)
      <3>1. result' = result \/ \E r, k : result' = [result EXCEPT ![k] = Append(@, r)]
        BY <2>2 DEF JobSend
      <3> QED
        BY <1>1, <2>1, <3>1
    <2>3. CASE ~JobSend(j)
      BY <1>4, <2>1, <2>3 DEF Worker, JobRender, JobQuery, JobFails, JobNotify, JobUpdt,
                              JobDone, JobPanics
    <2> QED
      BY <2>2, <2>3
  <1>5. CASE (\E v \in Vars : Change(v)) \/ \E s \in SubIds : Controller(s)
    BY <1>5 DEF Change, Controller, CtlAdd, CtlDel, CtlUpdt, CtlWrite, CtlTimer, CtlPoll,
       CtlPollSkipped, CtlExit,
                readVars
  <1> QED
    BY <1>2, <1>3, <1>4, <1>5 DEF Next

\* A worker that is about to send a row keeps it until it has sent it.
LEMMA SendingStep ==
  ASSUME TInv, [Next]_vars, NEW j \in Jobs, Sending(j)
  PROVE  \/ Sending(j)' /\ RowFor(j)' = RowFor(j) /\ job'[j].res = job[j].res
         \/ JobSend(j)
  <1>1. job \in [Jobs -> JobType]
    BY DEF TInv, TypeOK
  <1>2. CASE job'[j] = job[j]
    BY <1>2 DEF Sending, RowFor
  <1>3. ASSUME NEW s \in SubIds, CtlWrite(s)
        PROVE  Sending(j)' /\ RowFor(j)' = RowFor(j) /\ job'[j].res = job[j].res
    <2>1. job'[j] = job[j] \/ job'[j] = [job[j] EXCEPT !.mem = mval[s].mem]
      BY <1>3 DEF CtlWrite
    <2>2. /\ job'[j].st = job[j].st /\ job'[j].rows = job[j].rows
          /\ job'[j].i = job[j].i /\ job'[j].res = job[j].res
      BY <1>1, <2>1 DEF JobType
    <2> QED
      BY <2>2 DEF Sending, RowFor
  <1>4. ASSUME NEW s \in SubIds, Controller(s), ~CtlWrite(s)
        PROVE  job'[j] = job[j]
    <2>1. CASE CtlPoll(s)
      <3>1. PICK k \in Jobs : job[k].st = "idle" /\ \E w : job' = [job EXCEPT ![k] = w]
        BY <2>1 DEF CtlPoll
      <3> QED
        BY <3>1 DEF Sending
    <2> QED
      BY <1>4, <2>1 DEF Controller, CtlAdd, CtlDel, CtlUpdt, CtlTimer, CtlPollSkipped, CtlExit
  <1>5. ASSUME NEW k \in Jobs, Worker(k)
        PROVE  \/ Sending(j)' /\ RowFor(j)' = RowFor(j) /\ job'[j].res = job[j].res
               \/ JobSend(j)
    <2>1. CASE k # j
      <3>1. (\E w : job' = [job EXCEPT ![k] = w]) \/ job' = job
        <4>1. CASE JobFails(k) \/ JobDone(k)
          BY <4>1 DEF JobFails, JobDone, Return
        <4>2. CASE ~(JobFails(k) \/ JobDone(k))
          BY <1>5, <4>2 DEF Worker, JobRender, JobQuery, JobNotify, JobUpdt, JobSend, JobPanics
        <4> QED
          BY <4>1, <4>2
      <3>2. job'[j] = job[j]
        BY <1>1, <2>1, <3>1
      <3> QED
        BY <1>2, <3>2
    <2>2. CASE k = j
      <3>1. JobUpdt(j) \/ JobSend(j)
        BY <1>5, <2>2 DEF Worker, JobRender, JobQuery, JobFails, JobNotify, JobDone, JobPanics,
                          Sending
      <3>2. CASE JobUpdt(j)
        <4>1. /\ job'[j].st = "send" /\ job'[j].rows = job[j].rows
              /\ job'[j].i = job[j].i /\ job'[j].res = job[j].res
          BY <1>1, <3>2 DEF JobUpdt, JobType
        <4> QED
          BY <4>1 DEF Sending, RowFor
      <3> QED
        BY <3>1, <3>2
    <2> QED
      BY <2>1, <2>2
  <1>6. CASE (\E v \in Vars : Change(v)) \/ (\E m \in Members : Client(m)) \/ UNCHANGED vars
    <2>1. job' = job
      BY <1>6 DEF Change, Client, Load, Do, InitSub, InitSubFails, Undo, First, FirstFails,
                  Receive, Leave, vars
    <2> QED
      BY <1>2, <2>1
  <1> QED
    BY <1>2, <1>3, <1>4, <1>5, <1>6 DEF Next

InSentTo(m, x) ==
  \/ x \in rows[m]
  \/ \E i \in 1..Len(result[m]) : x \in RowsOf(result[m][i])
  \/ \E j \in Jobs : Sending(j) /\ job[j].res = m /\ x \in RowsOf(RowFor(j))

\* What SentTo means, part by part of the union.
LEMMA SentToMeans == \A m, x : x \in SentTo(m) <=> InSentTo(m, x)
  <1>1. \A m, x : x \in InChannel(m)
                    <=> \E i \in 1..Len(result[m]) : x \in RowsOf(result[m][i])
    BY DEF InChannel
  <1>2. \A m, x : x \in InHands(m)
                    <=> \E j \in Jobs : Sending(j) /\ job[j].res = m /\ x \in RowsOf(RowFor(j))
    BY DEF InHands, Sending
  <1> QED
    BY <1>1, <1>2 DEF SentTo, InSentTo

\* The same of the next state.
LEMMA SentToMeansNext == (\A m, x : x \in SentTo(m) <=> InSentTo(m, x))'
  BY SentToMeans, PTL

\* What a worker is about to send, and what is in a channel, counts as sent.
LEMMA SentToJob ==
  ASSUME NEW m, NEW x, \E j \in Jobs : /\ Sending(j)' /\ job'[j].res = m
                                       /\ x \in RowsOf(RowFor(j)')
  PROVE  x \in SentTo(m)'
  <1>1. \A y : y \in SentTo(m)' <=>
                 \/ y \in rows'[m]
                 \/ \E i \in 1..Len(result'[m]) : y \in RowsOf(result'[m][i])
                 \/ \E j \in Jobs : /\ Sending(j)' /\ job'[j].res = m
                                    /\ y \in RowsOf(RowFor(j)')
    BY SentToMeansNext DEF InSentTo
  <1> QED
    BY <1>1

\* Nothing that was sent is lost: a result is dropped only by a full channel of a
\* slow reader.
LEMMA SentGrows ==
  ASSUME LInv, [Next]_vars, ~SlowReaders, NEW m \in Members
  PROVE  SentTo(m) \subseteq SentTo(m)'
  <1>1. /\ TInv /\ result \in [Members -> Seq(Result \cup {Torn})]
        /\ rows \in [Members -> SUBSET (1..MaxVersion)]
    BY DEF LInv, JInv, RInv, TInv, TypeOK
  <1> SUFFICES ASSUME NEW x \in SentTo(m) PROVE x \in SentTo(m)'
    OBVIOUS
  <1>2. \/ x \in rows[m]
        \/ \E i \in 1..Len(result[m]) : x \in RowsOf(result[m][i])
        \/ \E j \in Jobs : Sending(j) /\ job[j].res = m /\ x \in RowsOf(RowFor(j))
    BY SentToMeans DEF InSentTo
  <1>3. /\ rows'[m] \subseteq SentTo(m)'
        /\ \A i \in 1..Len(result'[m]) : RowsOf(result'[m][i]) \subseteq SentTo(m)'
        /\ \A j \in Jobs : Sending(j)' /\ job'[j].res = m => RowsOf(RowFor(j)') \subseteq SentTo(m)'
    <2>1. \A y : y \in SentTo(m)' <=>
                   \/ y \in rows'[m]
                   \/ \E i \in 1..Len(result'[m]) : y \in RowsOf(result'[m][i])
                   \/ \E j \in Jobs : /\ Sending(j)' /\ job'[j].res = m
                                     /\ y \in RowsOf(RowFor(j)')
      BY SentToMeansNext DEF InSentTo
    <2> QED
      BY <2>1
  <1>4. CASE x \in rows[m]
    <2>1. x \in rows'[m]
      BY <1>1, <1>4, ResultsStep DEF Receive
    <2> QED
      BY <1>3, <2>1
  <1>5. ASSUME NEW i \in 1..Len(result[m]), x \in RowsOf(result[m][i])
        PROVE  x \in SentTo(m)'
    <2>1. CASE result'[m] = result[m]
      BY <1>3, <1>5, <2>1
    <2>2. CASE \E r : result'[m] = Append(result[m], r)
      <3>1. i \in 1..Len(result'[m]) /\ result'[m][i] = result[m][i]
        BY <1>1, <2>2
      <3> QED
        BY <1>3, <1>5, <3>1
    <2>3. CASE Receive(m)
      <3>1. result'[m] = Tail(result[m]) /\ rows'[m] = rows[m] \cup RowsOf(Head(result[m]))
        BY <1>1, <2>3 DEF Receive
      <3>2. CASE i = 1
        <4>1. Head(result[m]) = result[m][i]
          BY <1>1, <3>2
        <4> QED
          BY <1>3, <1>5, <3>1, <4>1
      <3>3. CASE i # 1
        <4>1. i - 1 \in 1..Len(result'[m]) /\ result'[m][i - 1] = result[m][i]
          BY <1>1, <3>1, <3>3
        <4> QED
          BY <1>3, <1>5, <4>1
      <3> QED
        BY <3>2, <3>3
    <2> QED
      BY <1>1, <2>1, <2>2, <2>3, ResultsStep
  <1>6. ASSUME NEW j \in Jobs, Sending(j), job[j].res = m, x \in RowsOf(RowFor(j))
        PROVE  x \in SentTo(m)'
    <2>1. CASE Sending(j)' /\ RowFor(j)' = RowFor(j) /\ job'[j].res = job[j].res
      BY <1>3, <1>6, <2>1
    <2>2. CASE JobSend(j)
      <3>1. pc[m] = "joined"
        <4>1. Busy(j) /\ job[j].st = "send"
          BY <2>2 DEF JobSend, Busy
        <4>2. /\ WorkPast(job[j]) /\ OwnWork(job[j])
              /\ job[j].i \in 1..(job[j].to - job[j].from)
          BY <1>1, <4>1, BusyFacts DEF LInv, EverybodysOwn, CursorsPast, Fits
        <4> QED
          BY <1>6, <4>1, <4>2 DEF WorkPast, OwnWork
      <3>2. result'[m] = Append(result[m], RowFor(j))
        BY <1>1, <1>6, <2>2, <3>1 DEF JobSend
      <3>3. /\ Len(result'[m]) = Len(result[m]) + 1 /\ Len(result[m]) \in Nat
            /\ result'[m][Len(result[m]) + 1] = RowFor(j)
        BY <1>1, <3>2
      <3>4. Len(result[m]) + 1 \in 1..Len(result'[m])
        BY <3>3
      <3> QED
        BY <1>3, <1>6, <3>3, <3>4
    <2> QED
      BY <1>1, <1>6, <2>1, <2>2, SendingStep
  <1> QED
    BY <1>2, <1>4, <1>5, <1>6

\* A cursor that was covered stays covered.
LEMMA PastStays ==
  ASSUME LInv, [Next]_vars, ~SlowReaders
  PROVE  \A m \in Members : \A c : Past(m, c) => Past(m, c)'
  BY SentGrows DEF Past

\* A client that has joined stays.
LEMMA JoinedStays ==
  ASSUME LInv, [Next]_vars, Leavers = {}
  PROVE  \A m \in Members : pc[m] = "joined" => pc'[m] = "joined"
  <1> SUFFICES ASSUME NEW m \in Members, pc[m] = "joined" PROVE pc'[m] = "joined"
    OBVIOUS
  <1>1. DOMAIN pc = Members /\ NobodyLeft
    BY DEF LInv, JInv, RInv, TInv, TypeOK, EverybodysOwn
  <1>2. ASSUME NEW k \in Members, Client(k)
        PROVE  pc'[m] = "joined"
    <2>1. pc' = pc \/ \E c : pc' = [pc EXCEPT ![k] = c] /\ pc[k] # "joined"
      <3>1. CASE Receive(k)
        BY <3>1 DEF Receive, clientVars
      <3>2. CASE ~Receive(k)
        BY <1>2, <3>2 DEF Client, Load, Do, InitSub, InitSubFails, Undo, First, FirstFails,
                          Leave
      <3> QED
        BY <3>1, <3>2
    <2> QED
      BY <1>1, <2>1
  <1>3. ASSUME NEW s \in SubIds, Controller(s)
        PROVE  pc'[m] = "joined"
    <2>1. pc' = pc \/ \E k \in Members : \E c : pc' = [pc EXCEPT ![k] = c] /\ pc[k] # "joined"
      BY <1>3 DEF Controller, CtlAdd, CtlDel, CtlUpdt, CtlWrite, CtlTimer, CtlPoll,
         CtlPollSkipped, CtlExit, clientVars
    <2> QED
      BY <1>1, <2>1
  <1>4. ASSUME NEW j \in Jobs, Worker(j)
        PROVE  pc'[m] = "joined"
    BY <1>4 DEF Worker, JobRender, JobQuery, JobFails, JobNotify, JobUpdt, JobSend, JobDone,
                JobPanics, clientVars
  <1>5. CASE (\E v \in Vars : Change(v)) \/ UNCHANGED vars
    BY <1>5 DEF Change, clientVars, vars
  <1> QED
    BY <1>2, <1>3, <1>4, <1>5 DEF Next

\* What every step of the system keeps while nobody leaves or reads slowly.
Grows ==
  /\ \A m \in Members : \A c : Past(m, c) => Past(m, c)'
  /\ \A m \in Members : pc[m] = "joined" => pc'[m] = "joined"

\* A slot and a message name a member.
LEMMA NamesMember == (\A x \in Slot : x.id \in Members) /\ (\A x \in Mmsg : x.id \in Members)
  BY DEF Slot, Mmsg

\* The slots, while they and what is being written are left alone.
LEMMA SlotsPastFrame ==
  ASSUME TInv, SlotsPast, Grows, UNCHANGED <<mval, wr>>,
         \A s \in SubIds : ctl'[s] = "write" => ctl[s] = "write"
  PROVE  SlotsPast'
  <1>1. ASSUME NEW s \in SubIds
        PROVE  /\ \A i \in 1..Len(mval[s].mem) : mval[s].mem[i].id \in Members
               /\ ctl[s] = "write" => wr[s].slot.id \in Members
    <2>1. mval[s].mem \in Seq(Slot) /\ (ctl[s] = "write" => wr[s].slot \in Slot)
      BY DEF TInv, TypeOK, Shape, SlotShape
    <2>2. \A i \in 1..Len(mval[s].mem) : mval[s].mem[i] \in Slot
      BY <2>1
    <2> QED
      BY <2>1, <2>2, NamesMember
  <1> QED
    BY <1>1 DEF SlotsPast, Grows

\* The messages, while the channels are left alone.
LEMMA MessagesPastFrame ==
  ASSUME TInv, MessagesPast, Grows, UNCHANGED updt
  PROVE  MessagesPast'
  <1>1. \A s \in SubIds : \A k \in 1..Len(updt[s]) : updt[s][k].id \in Members
    <2>1. \A s \in SubIds : updt[s] \in Seq(Mmsg)
      BY DEF TInv, TypeOK
    <2>2. \A s \in SubIds : \A k \in 1..Len(updt[s]) : updt[s][k] \in Mmsg
      BY <2>1
    <2> QED
      BY <2>2, NamesMember
  <1> QED
    BY <1>1 DEF MessagesPast, Grows

\* The first results, while nobody gets one.
LEMMA FirstPastFrame ==
  ASSUME FirstPast, Grows,
         \A m \in Members : pc'[m] = "add" => pc[m] = "add" /\ first'[m] = first[m]
  PROVE  FirstPast'
  BY DEF FirstPast, Grows

\* A worker that is left alone, or given a copy of the arrays it shares.
LEMMA WorkPastFrame ==
  ASSUME LInv, Grows, NEW j \in Jobs, Busy(j),
         /\ job'[j].st = job[j].st /\ job'[j].from = job[j].from /\ job'[j].to = job[j].to
         /\ job'[j].params = job[j].params /\ job'[j].rows = job[j].rows
         /\ job'[j].msg = job[j].msg,
         job'[j].mem = job[j].mem \/ job'[j].mem = mval[job[j].sub].mem,
         \A i \in 1..Size(j) : WhoseRow(job[j], i)' = WhoseRow(job[j], i)
  PROVE  WorkPast(job[j])'
  <1>1. /\ TInv /\ SlotsPast /\ WorkPast(job[j]) /\ Fits(job[j]) /\ job[j] \in JobType
        /\ job[j].sub \in SubIds
        /\ Size(j) \in Nat \ {0} /\ Size(j) = job[j].to - job[j].from
        /\ \A i \in 1..Size(j) : WhoseRow(job[j], i) \in Members
    BY BusyFacts, WhoseRowType DEF LInv, JInv, RInv, CursorsPast
  <1>2. \A i \in 1..Size(j) : pc'[WhoseRow(job[j], i)'] = "joined"
    BY <1>1 DEF WorkPast, Grows
  <1>3. job'[j].mem # None =>
          \A i \in 1..Len(job'[j].mem) : Past(job[j].mem[i].id, job[j].mem[i].lo)'
    <2>1. CASE job'[j].mem = job[j].mem
      <3>1. job[j].mem # None => \A i \in 1..Len(job[j].mem) : job[j].mem[i] \in Slot
        BY <1>1 DEF JobType
      <3>2. job[j].mem # None =>
              \A i \in 1..Len(job[j].mem) : /\ job[j].mem[i].id \in Members
                                            /\ Past(job[j].mem[i].id, job[j].mem[i].lo)
        BY <1>1, <3>1, NamesMember DEF WorkPast
      <3> QED
        BY <2>1, <3>2 DEF Grows
    <2>2. CASE job'[j].mem = mval[job[j].sub].mem
      <3>1. mval[job[j].sub].mem \in Seq(Slot)
        BY <1>1 DEF TInv, TypeOK
      <3>2. \A i \in 1..Len(job'[j].mem) : job'[j].mem[i] \in Slot
        BY <2>2, <3>1
      <3>3. \A i \in 1..Len(job'[j].mem) : /\ job'[j].mem[i].id \in Members
                                          /\ Past(job'[j].mem[i].id, job'[j].mem[i].lo)
        BY <1>1, <2>2, <3>2, NamesMember DEF SlotsPast
      <3> QED
        BY <3>3 DEF Grows
    <2> QED
      BY <2>1, <2>2
  <1>4. job[j].st = "query" =>
          \A i \in 1..Size(j) : Past(WhoseRow(job[j], i), job[j].params[i].lo)'
    BY <1>1 DEF WorkPast, Grows
  <1>5. job[j].st \in {"rows", "updt", "send"} =>
          \A i \in 1..(IF HasParams THEN Size(j) ELSE 1) :
             Past(WhoseRow(job[j], i), job[j].rows[i].lo)'
    <2>1. \A i \in 1..(IF HasParams THEN Size(j) ELSE 1) : i \in 1..Size(j)
      BY <1>1
    <2> QED
      BY <1>1, <2>1 DEF WorkPast, Grows
  <1>6. job[j].st = "updt" => Past(job[j].msg.id, job[j].msg.cursor)'
    <2>1. job[j].st = "updt" => job[j].msg.id \in Members
      BY <1>1 DEF Fits, Mmsg
    <2> QED
      BY <1>1, <2>1 DEF WorkPast, Grows
  <1> QED
    BY <1>1, <1>2, <1>3, <1>4, <1>5, <1>6 DEF WorkPast

\* The workers that are left alone while the slices are.
LEMMA OtherWorkPast ==
  ASSUME LInv, Grows, UNCHANGED mval, NEW j \in Jobs, Busy(j), job'[j] = job[j]
  PROVE  WorkPast(job[j])'
  <1>1. \A i : WhoseRow(job[j], i)' = WhoseRow(job[j], i)
    BY DEF WhoseRow, Source
  <1> QED
    BY <1>1, WorkPastFrame

\* The cursor of a slot, as a reader sees it, was covered.
LEMMA ContentsPast ==
  ASSUME LInv, NEW s \in SubIds, NEW i \in 1..Len(mval[s].mem), NEW c \in Contents(s, i)
  PROVE  Past(mval[s].mem[i].id, c.lo)
  <1>1. /\ TInv /\ SlotsStay /\ SlotsPast
        /\ mval[s].n = Len(mval[s].mem) /\ Len(mval[s].mem) \in Nat
        /\ Past(mval[s].mem[i].id, mval[s].mem[i].lo)
    <2>1. TInv /\ SlotsStay /\ SlotsPast
      BY DEF LInv, JInv, RInv, EverybodysOwn, CursorsPast
    <2>2. mval[s].mem \in Seq(Slot)
      BY <2>1 DEF TInv, TypeOK
    <2> QED
      BY <2>1, <2>2 DEF SlotsPast, SlotsStay
  <1>2. CASE wr[s].i = i
    <2>1. ctl[s] = "write"
      BY <1>1, <1>2 DEF TInv, Shape, SlotShape, NoWrite
    <2>2. /\ wr[s].slot.id = mval[s].mem[i].id
          /\ Past(wr[s].slot.id, wr[s].slot.lo)
      BY <1>1, <1>2, <2>1 DEF SlotsStay, SlotsPast
    <2>3. PICK x \in [1..4 -> {mval[s].mem[i], wr[s].slot}] :
            c = [vars |-> x[1].vars, lo |-> x[1].lo, dh |-> x[2].dh, res |-> x[3].res,
                 id |-> x[4].id]
      BY <1>2 DEF Contents
    <2>4. c.lo = x[1].lo /\ (x[1] = mval[s].mem[i] \/ x[1] = wr[s].slot)
      BY <2>3
    <2> QED
      BY <1>1, <2>2, <2>4
  <1>3. CASE wr[s].i # i
    BY <1>1, <1>3 DEF Contents
  <1> QED
    BY <1>2, <1>3

\* So was the cursor a worker reads.
LEMMA ViewPast ==
  ASSUME LInv, NEW j \in Jobs, Busy(j), NEW i \in 1..Size(j),
         NEW slot \in View(j, job[j].from + i)
  PROVE  Past(WhoseRow(job[j], i), slot.lo)
  <1>1. /\ TInv /\ Fits(job[j]) /\ job[j].from \in Nat /\ job[j].to \in Nat
        /\ Size(j) = job[j].to - job[j].from /\ job[j].sub \in SubIds
        /\ job[j] \in JobType /\ WorkPast(job[j])
    BY BusyFacts DEF LInv, JInv, RInv, CursorsPast
  <1>2. CASE job[j].mem = None
    <2>1. Len(mval[job[j].sub].mem) \in Nat /\ job[j].to <= Len(mval[job[j].sub].mem)
      BY <1>1, <1>2 DEF TInv, TypeOK, Fits
    <2>2. job[j].from + i \in 1..Len(mval[job[j].sub].mem)
      BY <1>1, <2>1, RowInArray
    <2>3. slot \in Contents(job[j].sub, job[j].from + i)
      BY <1>2 DEF View
    <2> QED
      BY <1>1, <1>2, <2>2, <2>3, ContentsPast DEF WhoseRow, Source
  <1>3. CASE job[j].mem # None
    <2>1. job[j].mem \in Seq(Slot) /\ job[j].to <= Len(job[j].mem)
      BY <1>1, <1>3 DEF JobType, Fits
    <2>2. job[j].from + i \in 1..Len(job[j].mem)
      BY <1>1, <2>1
    <2>3. slot = job[j].mem[job[j].from + i]
      BY <1>3 DEF View
    <2> QED
      BY <1>1, <1>3, <2>2, <2>3 DEF WorkPast, WhoseRow, Source
  <1> QED
    BY <1>2, <1>3

\* What a step of a worker leaves alone.
LEMMA WorkerPast ==
  ASSUME LInv, Grows, NEW j \in Jobs,
         \A k \in Jobs : k # j => job'[k] = job[k],
         UNCHANGED <<mval, wr, pc, first>>,
         \A s \in SubIds : ctl'[s] = "write" => ctl[s] = "write",
         Busy(j)' => WorkPast(job[j])',
         MessagesPast'
  PROVE  CursorsPast'
  <1>1. SlotsPast' /\ FirstPast'
    BY SlotsPastFrame, FirstPastFrame DEF LInv, JInv, RInv, CursorsPast
  <1>2. ASSUME NEW k \in Jobs, Busy(k)'
        PROVE  WorkPast(job[k])'
    <2>1. CASE k # j
      BY <1>2, <2>1, OtherWorkPast DEF Busy
    <2> QED
      BY <1>2, <2>1
  <1> QED
    BY <1>1, <1>2 DEF CursorsPast

\* A worker that keeps its chunk and its copy: what is left to show is about what
\* it does with them.
LEMMA ChunkPast ==
  ASSUME LInv, Grows, NEW j \in Jobs, Busy(j), UNCHANGED mval,
         job'[j].mem = job[j].mem, job'[j].sub = job[j].sub,
         job'[j].from = job[j].from, job'[j].to = job[j].to
  PROVE  /\ \A i : WhoseRow(job[j], i)' = WhoseRow(job[j], i)
         /\ \A i \in 1..Size(j) : WhoseRow(job[j], i) \in Members
         /\ (\A i \in 1..(job[j].to - job[j].from) : pc[WhoseRow(job[j], i)] = "joined")'
         /\ (job[j].mem # None =>
               \A i \in 1..Len(job[j].mem) : Past(job[j].mem[i].id, job[j].mem[i].lo))'
  <1>1. \A i : WhoseRow(job[j], i)' = WhoseRow(job[j], i)
    BY DEF WhoseRow, Source
  <1>2. /\ WorkPast(job[j]) /\ job[j] \in JobType /\ Size(j) = job[j].to - job[j].from
        /\ \A i \in 1..Size(j) : WhoseRow(job[j], i) \in Members
    BY BusyFacts, WhoseRowType DEF LInv, JInv, RInv, CursorsPast
  <1>3. \A i \in 1..Size(j) : pc'[WhoseRow(job[j], i)'] = "joined"
    BY <1>1, <1>2 DEF WorkPast, Grows
  <1>4. job[j].mem # None => \A i \in 1..Len(job[j].mem) : job[j].mem[i] \in Slot
    BY <1>2 DEF JobType
  <1>5. job[j].mem # None =>
          \A i \in 1..Len(job[j].mem) : /\ job[j].mem[i].id \in Members
                                        /\ Past(job[j].mem[i].id, job[j].mem[i].lo)
    BY <1>2, <1>4, NamesMember DEF WorkPast
  <1>6. job[j].mem # None =>
          \A i \in 1..Len(job[j].mem) : Past(job[j].mem[i].id, job[j].mem[i].lo)'
    BY <1>5 DEF Grows
  <1> QED
    BY <1>1, <1>2, <1>3, <1>6

\* The parameters have the cursors of the slots.
LEMMA RenderPast ==
  ASSUME LInv, Grows, NEW j \in Jobs, JobRender(j)
  PROVE  CursorsPast'
  <1>1. /\ Busy(j) /\ job \in [Jobs -> JobType]
        /\ Size(j) \in Nat /\ Size(j) = job[j].to - job[j].from
    <2>1. Busy(j)
      BY DEF JobRender, Busy
    <2> QED
      BY <2>1, BusyFacts DEF LInv, JInv, RInv, TInv, TypeOK
  <1>2. PICK slots \in [1..Size(j) -> UNION {View(j, job[j].from + i) : i \in 1..Size(j)}] :
          /\ \A i \in 1..Size(j) : slots[i] \in View(j, job[j].from + i)
          /\ job' = [job EXCEPT ![j].st = "query",
                       ![j].params = [i \in 1..Size(j) |->
                          [vars |-> slots[i].vars, lo |-> slots[i].lo]]]
    BY DEF JobRender
  <1>3. \A i \in 1..Size(j) : Past(WhoseRow(job[j], i), slots[i].lo)
    BY <1>1, <1>2, ViewPast
  <1> DEFINE ps == [i \in 1..Size(j) |-> [vars |-> slots[i].vars, lo |-> slots[i].lo]]
  <1>4. \A i \in 1..Size(j) : Past(WhoseRow(job[j], i), ps[i].lo)
    BY <1>3
  <1>5. job' = [job EXCEPT ![j].st = "query", ![j].params = ps]
    BY <1>2
  <1> HIDE DEF ps
  <1>6. /\ job'[j].st = "query" /\ job'[j].params = ps /\ job'[j].mem = job[j].mem
        /\ job'[j].sub = job[j].sub /\ job'[j].from = job[j].from /\ job'[j].to = job[j].to
        /\ \A k \in Jobs : k # j => job'[k] = job[k]
    BY <1>1, <1>5 DEF JobType
  <1>7. UNCHANGED <<mval, wr, pc, first, ctl>> /\ updt' = updt
    BY DEF JobRender, ctlVars, clientVars
  <1>8. \A i \in 1..Size(j) : Past(WhoseRow(job[j], i), job[j].params[i].lo)'
    BY <1>1, <1>4, <1>6, <1>7, ChunkPast DEF Grows
  <1>9. WorkPast(job[j])'
    BY <1>1, <1>6, <1>7, <1>8, ChunkPast DEF WorkPast
  <1>10. MessagesPast'
    BY <1>7, MessagesPastFrame DEF LInv, JInv, RInv, CursorsPast
  <1> QED
    BY <1>6, <1>7, <1>9, <1>10, WorkerPast

\* A row starts where its parameter said, or is empty.
LEMMA QueryPast ==
  ASSUME LInv, Grows, NEW j \in Jobs, JobQuery(j)
  PROVE  CursorsPast'
  <1> DEFINE n == Size(j)
  <1>1. /\ Busy(j) /\ job[j].st = "query" /\ job \in [Jobs -> JobType]
        /\ n \in Nat \ {0} /\ n = job[j].to - job[j].from /\ WorkPast(job[j])
    <2>1. Busy(j) /\ job[j].st = "query"
      BY DEF JobQuery, Busy
    <2> QED
      BY <2>1, BusyFacts DEF LInv, JInv, RInv, TInv, TypeOK, CursorsPast
  <1> DEFINE rs == [i \in 1..RowCount(j) |-> Query(job[j].params[((i - 1) % n) + 1])]
  <1>2. job' = [job EXCEPT ![j].st = "rows", ![j].i = 1, ![j].rows = rs]
    BY DEF JobQuery
  <1>3. \A i \in 1..(IF HasParams THEN n ELSE 1) :
          i \in 1..RowCount(j) /\ i \in 1..n /\ ((i - 1) % n) + 1 = i
    <2> HIDE DEF n
    <2>1. n * n \in Nat /\ n * n >= n
      BY <1>1
    <2>2. RowCount(j) \in Nat /\ RowCount(j) >= (IF HasParams THEN n ELSE 1)
      BY <1>1, <2>1 DEF RowCount, n
    <2>3. \A i \in 1..n : i - 1 \in 0..(n - 1) /\ (i - 1) % n = i - 1
      BY <1>1
    <2> QED
      BY <1>1, <2>2, <2>3
  <1>4. \A m, c : c = 0 => Past(m, c)
    <2>1. 1..0 = {}
      OBVIOUS
    <2> QED
      BY <2>1 DEF Past
  <1>5. \A i \in 1..(IF HasParams THEN n ELSE 1) : Past(WhoseRow(job[j], i), rs[i].lo)
    <2>1. \A i \in 1..(IF HasParams THEN n ELSE 1) : rs[i] = Query(job[j].params[i])
      BY <1>3
    <2>2. \A p : Query(p).lo = 0 \/ Query(p).lo = p.lo
      BY DEF Query
    <2>3. \A i \in 1..n : Past(WhoseRow(job[j], i), job[j].params[i].lo)
      BY <1>1 DEF WorkPast
    <2> HIDE DEF rs, n
    <2>4. ASSUME NEW i \in 1..(IF HasParams THEN n ELSE 1)
          PROVE  Past(WhoseRow(job[j], i), rs[i].lo)
      <3>1. i \in 1..n /\ (rs[i].lo = 0 \/ rs[i].lo = job[j].params[i].lo)
        BY <1>3, <2>1, <2>2
      <3> QED
        BY <1>4, <2>3, <3>1
    <2> QED
      BY <2>4
  <1> HIDE DEF rs
  <1>6. /\ job'[j].st = "rows" /\ job'[j].rows = rs /\ job'[j].mem = job[j].mem
        /\ job'[j].sub = job[j].sub /\ job'[j].from = job[j].from /\ job'[j].to = job[j].to
        /\ \A k \in Jobs : k # j => job'[k] = job[k]
    BY <1>1, <1>2 DEF JobType
  <1>7. UNCHANGED <<mval, wr, pc, first, ctl>> /\ updt' = updt
    BY DEF JobQuery, ctlVars, clientVars
  <1>8. \A i \in 1..(IF HasParams THEN n ELSE 1) :
          Past(WhoseRow(job[j], i), job[j].rows[i].lo)'
    <2> HIDE DEF n
    <2>1. \A i \in 1..(IF HasParams THEN n ELSE 1) : WhoseRow(job[j], i) \in Members
      BY <1>1, <1>3, <1>6, <1>7, ChunkPast DEF n
    <2> QED
      BY <1>1, <1>5, <1>6, <1>7, <2>1, ChunkPast DEF Grows
  <1>9. WorkPast(job[j])'
    BY <1>1, <1>6, <1>7, <1>8, ChunkPast DEF WorkPast
  <1>10. MessagesPast'
    BY <1>7, MessagesPastFrame DEF LInv, JInv, RInv, CursorsPast
  <1> QED
    BY <1>6, <1>7, <1>9, <1>10, WorkerPast

\* The cursor a worker reports is that of the row it is about to send.
LEMMA NotifyPast ==
  ASSUME LInv, Grows, NEW j \in Jobs, JobNotify(j)
  PROVE  CursorsPast'
  <1>1. /\ Busy(j) /\ job[j].st = "rows" /\ job \in [Jobs -> JobType]
        /\ job[j].i \in 1..Size(j) /\ Size(j) \in Nat /\ Size(j) = job[j].to - job[j].from
        /\ WorkPast(job[j]) /\ TInv
    <2>1. Busy(j) /\ job[j].st = "rows" /\ job[j].i <= Size(j)
      BY DEF JobNotify, Busy
    <2>2. TInv /\ job \in [Jobs -> JobType]
      BY DEF LInv, JInv, RInv, TInv, TypeOK
    <2>3. /\ Size(j) \in Nat /\ Size(j) = job[j].to - job[j].from
          /\ Fits(job[j]) /\ job[j].i \in Nat
      BY <2>1, <2>2, BusyFacts DEF JobType
    <2>4. job[j].i >= 1
      BY <2>1, <2>3 DEF Fits
    <2>5. WorkPast(job[j])
      BY <2>1 DEF LInv, CursorsPast
    <2> QED
      BY <2>1, <2>2, <2>3, <2>4, <2>5
  <1>2. PICK slot \in View(j, MemberIndex(j)) :
          \/ job' = [job EXCEPT ![j].i = @ + 1]
          \/ job' = [job EXCEPT ![j].st = "updt", ![j].res = slot.res,
                                ![j].msg = MsgFor(slot.id, RowFor(j))]
    BY DEF JobNotify
  <1>3. UNCHANGED <<mval, wr, pc, first, ctl>> /\ updt' = updt
    BY DEF JobNotify, ctlVars, clientVars
  <1>4. MessagesPast'
    BY <1>3, MessagesPastFrame DEF LInv, JInv, RInv, CursorsPast
  <1>5. /\ job'[j].rows = job[j].rows /\ job'[j].mem = job[j].mem
        /\ job'[j].sub = job[j].sub /\ job'[j].from = job[j].from /\ job'[j].to = job[j].to
        /\ \A k \in Jobs : k # j => job'[k] = job[k]
        /\ \/ job'[j].st = "rows"
           \/ /\ job'[j].st = "updt" /\ job'[j].res = slot.res /\ job'[j].i = job[j].i
              /\ job'[j].msg = MsgFor(slot.id, RowFor(j))
    <2>1. CASE job' = [job EXCEPT ![j].i = @ + 1]
      BY <1>1, <2>1 DEF JobType
    <2>2. CASE job' = [job EXCEPT ![j].st = "updt", ![j].res = slot.res,
                                  ![j].msg = MsgFor(slot.id, RowFor(j))]
      BY <1>1, <2>2 DEF JobType
    <2> QED
      BY <1>2, <2>1, <2>2
  <1>6. \A i \in 1..(IF HasParams THEN Size(j) ELSE 1) :
          Past(WhoseRow(job[j], i), job[j].rows[i].lo)'
    <2>1. \A i \in 1..(IF HasParams THEN Size(j) ELSE 1) : i \in 1..Size(j)
      BY <1>1
    <2>2. \A i \in 1..(IF HasParams THEN Size(j) ELSE 1) :
            Past(WhoseRow(job[j], i), job[j].rows[i].lo)
      BY <1>1 DEF WorkPast
    <2> QED
      BY <1>1, <1>3, <1>5, <2>1, <2>2, ChunkPast DEF Grows
  <1>7. job'[j].st = "updt" => Past(job[j].msg.id, job[j].msg.cursor)'
    <2> SUFFICES ASSUME job'[j].st = "updt" PROVE Past(job[j].msg.id, job[j].msg.cursor)'
      OBVIOUS
    <2>1. /\ job'[j].res = slot.res /\ job'[j].i = job[j].i
          /\ job'[j].msg = MsgFor(slot.id, RowFor(j))
      BY <1>5
    <2>2. PICK m \in Members : m = WhoseRow(job[j], job[j].i)
      BY <1>1, WhoseRowType DEF LInv, JInv, RInv
    <2>3. slot.id = m /\ slot.res = m
      <3>1. slot \in View(j, job[j].from + job[j].i)
        BY <1>2 DEF MemberIndex
      <3>2. OInv
        BY DEF LInv, JInv, OInv
      <3> QED
        BY <1>1, <2>2, <3>1, <3>2, OwnView
    <2>4. PICK r : r = RowFor(j)
      OBVIOUS
    <2>5. RowFor(j)' = r
      BY <1>5, <2>1, <2>4 DEF RowFor
    <2>6. job'[j].msg.id = m /\ job'[j].msg.cursor = CursorIn(r)
      BY <2>1, <2>3, <2>4 DEF MsgFor
    <2>7. CASE Cursor /\ r # Torn
      <3>1. HasParams
        BY <2>7, SubsAssumption
      <3>2. r = job[j].rows[job[j].i]
        BY <2>4, <3>1 DEF RowFor
      <3>3. Past(m, r.lo)
        BY <1>1, <2>2, <3>1, <3>2 DEF WorkPast
      <3>4. r.lo \in Nat /\ r.hi \in Nat
        <4>1. Fits(job[j]) /\ job[j].rows \in Seq(Result)
          BY <1>1, BusyFacts DEF JobType
        <4>2. job[j].i \in 1..Len(job[j].rows)
          BY <1>1, <3>1, <4>1 DEF Fits
        <4>3. r \in Result
          BY <3>2, <4>1, <4>2
        <4> QED
          BY <4>3, SubsAssumption DEF Result
      <3>5. \A x \in RowsOf(r) : x \in SentTo(m)'
        <4>1. Sending(j)' /\ job'[j].res = m /\ RowFor(j)' = r
          BY <2>1, <2>3, <2>5 DEF Sending
        <4>2. \A x \in RowsOf(r) : \E k \in Jobs : /\ Sending(k)' /\ job'[k].res = m
                                                 /\ x \in RowsOf(RowFor(k)')
          BY <4>1
        <4> QED
          BY <4>2, SentToJob
      <3>6. RowsOf(r) = (r.lo + 1)..r.hi
        BY <2>7 DEF RowsOf
      <3>7. \A x \in 1..r.lo : x \in SentTo(m)'
        BY <3>3 DEF Grows, Past
      <3>8. \A x \in 1..r.hi : x \in SentTo(m)'
        <4>1. \A x \in 1..r.hi : x \in 1..r.lo \/ x \in (r.lo + 1)..r.hi
          BY <3>4
        <4> QED
          BY <3>5, <3>6, <3>7, <4>1
      <3>9. job'[j].msg.cursor = r.hi
        BY <2>6, <2>7 DEF CursorIn
      <3>10. PICK c : c = r.hi
        OBVIOUS
      <3>11. Past(m, c)'
        BY <3>8, <3>10 DEF Past
      <3> QED
        BY <2>6, <3>9, <3>10, <3>11
    <2>8. CASE ~(Cursor /\ r # Torn)
      <3>1. CursorIn(r) = 0 /\ 1..0 = {}
        BY <2>8 DEF CursorIn
      <3>2. Past(m, 0)'
        BY <3>1 DEF Past
      <3> QED
        BY <2>6, <3>1, <3>2
    <2> QED
      BY <2>7, <2>8
  <1>8. WorkPast(job[j])'
    BY <1>1, <1>3, <1>5, <1>6, <1>7, ChunkPast DEF WorkPast
  <1> QED
    BY <1>3, <1>4, <1>5, <1>8, WorkerPast

\* The rows of a worker that keeps them.
LEMMA RowsPast ==
  ASSUME LInv, Grows, NEW j \in Jobs, Busy(j), UNCHANGED mval,
         job[j].st \in {"rows", "updt", "send"},
         job'[j].mem = job[j].mem, job'[j].sub = job[j].sub,
         job'[j].from = job[j].from, job'[j].to = job[j].to,
         job'[j].rows = job[j].rows
  PROVE  \A i \in 1..(IF HasParams THEN Size(j) ELSE 1) :
            Past(WhoseRow(job[j], i), job[j].rows[i].lo)'
  <1>1. Size(j) \in Nat \ {0} /\ Size(j) = job[j].to - job[j].from /\ WorkPast(job[j])
    BY BusyFacts DEF LInv, JInv, RInv, CursorsPast
  <1>2. \A i \in 1..(IF HasParams THEN Size(j) ELSE 1) : i \in 1..Size(j)
    BY <1>1
  <1>3. \A i \in 1..(IF HasParams THEN Size(j) ELSE 1) :
          Past(WhoseRow(job[j], i), job[j].rows[i].lo)
    BY <1>1 DEF WorkPast
  <1> QED
    BY <1>2, <1>3, ChunkPast DEF Grows

\* The cursor goes to the controller.
LEMMA UpdtPast ==
  ASSUME LInv, Grows, NEW j \in Jobs, JobUpdt(j)
  PROVE  CursorsPast'
  <1> DEFINE s == job[j].sub
  <1>1. Busy(j) /\ job[j].st = "updt"
    BY DEF JobUpdt, Busy
  <1>2. /\ job \in [Jobs -> JobType] /\ updt \in [SubIds -> Seq(Mmsg)] /\ s \in SubIds
        /\ Size(j) = job[j].to - job[j].from /\ Size(j) \in Nat \ {0}
    BY <1>1, BusyFacts DEF LInv, JInv, RInv, TInv, TypeOK
  <1>3. PICK x \in Mmsg : x = job[j].msg
    BY <1>1, BusyFacts DEF LInv, JInv, RInv, Fits
  <1>4. Past(x.id, x.cursor)
    BY <1>1, <1>3 DEF LInv, CursorsPast, WorkPast
  <1>5. /\ job'[j].rows = job[j].rows /\ job'[j].mem = job[j].mem
        /\ job'[j].sub = job[j].sub /\ job'[j].from = job[j].from /\ job'[j].to = job[j].to
        /\ job'[j].st = "send" /\ \A k \in Jobs : k # j => job'[k] = job[k]
    BY <1>2 DEF JobUpdt, JobType
  <1>6. UNCHANGED <<mval, wr, pc, first, ctl>>
        /\ updt' = [updt EXCEPT ![s] = Append(updt[s], x)]
    BY <1>3 DEF JobUpdt, ctlVars, clientVars
  <1>7. \A i \in 1..(IF HasParams THEN Size(j) ELSE 1) :
          Past(WhoseRow(job[j], i), job[j].rows[i].lo)'
    BY <1>1, <1>5, <1>6, RowsPast
  <1>8. WorkPast(job[j])'
    BY <1>1, <1>2, <1>5, <1>6, <1>7, ChunkPast DEF WorkPast
  <1>9. MessagesPast'
    <2> SUFFICES ASSUME NEW t \in SubIds, NEW k \in 1..Len(updt'[t])
                 PROVE  Past(updt[t][k].id, updt[t][k].cursor)'
      BY DEF MessagesPast
    <2>1. PICK y : y = updt'[t][k]
      OBVIOUS
    <2>2. updt[t] \in Seq(Mmsg)
      BY <1>2
    <2>3. y = x \/ (k \in 1..Len(updt[t]) /\ y = updt[t][k])
      <3>1. CASE t = s
        <4>1. updt'[t] = Append(updt[t], x)
          BY <1>2, <1>6, <3>1
        <4> QED
          BY <2>1, <2>2, <4>1
      <3>2. CASE t # s
        BY <1>2, <1>6, <2>1, <3>2
      <3> QED
        BY <3>1, <3>2
    <2>4. y \in Mmsg /\ Past(y.id, y.cursor)
      <3>1. CASE y = x
        BY <1>4, <3>1
      <3>2. CASE k \in 1..Len(updt[t]) /\ y = updt[t][k]
        BY <2>2, <3>2 DEF LInv, CursorsPast, MessagesPast
      <3> QED
        BY <2>3, <3>1, <3>2
    <2>5. y.id \in Members
      BY <2>4, NamesMember
    <2>6. Past(y.id, y.cursor)'
      BY <2>4, <2>5 DEF Grows
    <2> QED
      BY <2>1, <2>5, <2>6
  <1> QED
    BY <1>5, <1>6, <1>8, <1>9, WorkerPast

\* The row is sent, or a full channel drops it.
LEMMA SendPast ==
  ASSUME LInv, Grows, NEW j \in Jobs, JobSend(j)
  PROVE  CursorsPast'
  <1>1. Busy(j) /\ job[j].st = "send"
    BY DEF JobSend, Busy
  <1>2. /\ job \in [Jobs -> JobType]
        /\ Size(j) = job[j].to - job[j].from /\ Size(j) \in Nat \ {0}
    BY <1>1, BusyFacts DEF LInv, JInv, RInv, TInv, TypeOK
  <1>3. /\ job'[j].rows = job[j].rows /\ job'[j].mem = job[j].mem
        /\ job'[j].sub = job[j].sub /\ job'[j].from = job[j].from /\ job'[j].to = job[j].to
        /\ job'[j].st = "rows" /\ \A k \in Jobs : k # j => job'[k] = job[k]
    BY <1>2 DEF JobSend, JobType
  <1>4. UNCHANGED <<mval, wr, pc, first, ctl>> /\ updt' = updt
    BY DEF JobSend, ctlVars, clientVars
  <1>5. \A i \in 1..(IF HasParams THEN Size(j) ELSE 1) :
          Past(WhoseRow(job[j], i), job[j].rows[i].lo)'
    BY <1>1, <1>3, <1>4, RowsPast
  <1>6. WorkPast(job[j])'
    BY <1>1, <1>2, <1>3, <1>4, <1>5, ChunkPast DEF WorkPast
  <1>7. MessagesPast'
    BY <1>4, MessagesPastFrame DEF LInv, JInv, RInv, CursorsPast
  <1> QED
    BY <1>3, <1>4, <1>6, <1>7, WorkerPast

\* A worker that starts has the members of the slices, all of them joined.
LEMMA SpawnPast ==
  ASSUME LInv, NEW s \in SubIds, ctl[s] # "write", NEW from \in Nat, from < mval[s].n,
         NEW inline \in BOOLEAN, NEW j \in Jobs, job'[j] = Chunk(s, from, inline),
         UNCHANGED <<mval, pc>>
  PROVE  WorkPast(job[j])'
  <1>1. /\ job'[j].st = "spawned" /\ job'[j].mem = None /\ job'[j].sub = s
        /\ job'[j].from = from /\ job'[j].to = ChunkEnd(from, mval[s].n)
    BY DEF Chunk
  <1>2. /\ mval[s].n \in Nat /\ ChunkEnd(from, mval[s].n) \in Nat
        /\ ChunkEnd(from, mval[s].n) <= mval[s].n
    BY SMTT(30), SubsAssumption DEF ChunkEnd, LInv, JInv, RInv, TInv, TypeOK
  <1>3. \A k \in 1..mval[s].n : pc[mval[s].mem[k].id] = "joined"
    <2>1. \A k \in 1..mval[s].n : IdAt(s, k) = mval[s].mem[k].id /\ Count(s) = mval[s].n
      BY SlotsAtRest DEF LInv, JInv, RInv
    <2>2. \A k \in 1..mval[s].n : IdAt(s, k) \in Members /\ Served(IdAt(s, k))
      BY <2>1 DEF LInv, JInv, SlotsMatch
    <2>3. \A m \in Members : Served(m) => pc[m] = "joined"
      BY DEF LInv, EverybodysOwn, NobodyLeft, Served
    <2> QED
      BY <2>1, <2>2, <2>3
  <1>4. \A i \in 1..(job'[j].to - job'[j].from) :
          /\ WhoseRow(job[j], i)' = mval[s].mem[from + i].id
          /\ from + i \in 1..mval[s].n
    BY <1>1, <1>2 DEF WhoseRow, Source
  <1>5. \A i \in 1..(job'[j].to - job'[j].from) : pc'[WhoseRow(job[j], i)'] = "joined"
    BY <1>3, <1>4
  <1> QED
    BY <1>1, <1>5 DEF WorkPast

\* A worker returns; a controller that runs the workers goes on with the next chunk.
LEMMA ReturnPast ==
  ASSUME LInv, Grows, NEW j \in Jobs, JobFails(j) \/ JobDone(j)
  PROVE  CursorsPast'
  <1> DEFINE s == job[j].sub
  <1>1. Busy(j) /\ Return(j)
    BY DEF JobFails, JobDone, Busy
  <1>2. /\ s \in SubIds /\ Fits(job[j]) /\ job[j].to \in Nat
        /\ job \in [Jobs -> JobType] /\ DOMAIN ctl = SubIds
    BY <1>1, BusyFacts DEF LInv, JInv, RInv, TInv, TypeOK
  <1>3. UNCHANGED <<mval, wr, pc, first>> /\ updt' = updt
    BY DEF JobFails, JobDone, clientVars
  <1>4. \A t \in SubIds : ctl'[t] = "write" => ctl[t] = "write"
    BY <1>1, <1>2 DEF Return
  <1>5. \A k \in Jobs : k # j => job'[k] = job[k]
    BY <1>1, <1>2 DEF Return
  <1>6. MessagesPast'
    BY <1>3, MessagesPastFrame DEF LInv, JInv, RInv, CursorsPast
  <1>7. Busy(j)' => WorkPast(job[j])'
    <2>1. CASE MoreChunks(j)
      <3>1. job'[j] = Chunk(s, job[j].to, TRUE)
        BY <1>1, <1>2, <2>1 DEF Return
      <3>2. ctl[s] # "write" /\ job[j].to < mval[s].n
        BY <1>2, <2>1 DEF MoreChunks, Fits
      <3> QED
        BY <1>2, <1>3, <3>1, <3>2, SpawnPast
    <2>2. CASE ~MoreChunks(j)
      <3>1. job'[j] = IdleJob
        BY <1>1, <1>2, <2>2 DEF Return
      <3> QED
        BY <3>1 DEF Busy, IdleJob
    <2> QED
      BY <2>1, <2>2
  <1> QED
    BY <1>3, <1>4, <1>5, <1>6, <1>7, WorkerPast

\* A poll starts a worker.
LEMMA PollPast ==
  ASSUME LInv, Grows, NEW s \in SubIds, CtlPoll(s)
  PROVE  CursorsPast'
  <1>1. /\ UNCHANGED <<mval, wr, pc, first>> /\ updt' = updt /\ DOMAIN ctl = SubIds
        /\ job \in [Jobs -> JobType]
    BY DEF CtlPoll, clientVars, LInv, JInv, RInv, TInv, TypeOK
  <1>2. ctl[s] # "write" /\ 0 < mval[s].n
    <2>1. mval[s].n \in Nat
      BY DEF LInv, JInv, RInv, TInv, TypeOK
    <2> QED
      BY <2>1 DEF CtlPoll
  <1>3. PICK j \in Jobs : job' = [job EXCEPT ![j] = Chunk(s, 0, mval[s].n > MaxPerWorker)]
    BY DEF CtlPoll
  <1>4. \A t \in SubIds : ctl'[t] = "write" => ctl[t] = "write"
    BY <1>1 DEF CtlPoll
  <1>5. /\ \A k \in Jobs : k # j => job'[k] = job[k]
        /\ job'[j] = Chunk(s, 0, mval[s].n > MaxPerWorker)
    BY <1>1, <1>3
  <1>6. WorkPast(job[j])'
    <2> DEFINE inline == mval[s].n > MaxPerWorker
    <2>1. inline \in BOOLEAN /\ job'[j] = Chunk(s, 0, inline) /\ 0 \in Nat
      BY <1>5
    <2> HIDE DEF inline
    <2> QED
      BY <1>1, <1>2, <2>1, SpawnPast
  <1>7. MessagesPast'
    BY <1>1, MessagesPastFrame DEF LInv, JInv, RInv, CursorsPast
  <1> QED
    BY <1>1, <1>4, <1>5, <1>6, <1>7, WorkerPast

\* A controller that ends, or waits for its timer, has no slots to lose.
LEMMA ExitPast ==
  ASSUME LInv, Grows, NEW s \in SubIds, Turn(s) \/ CtlExit(s)
  PROVE  CursorsPast'
  <1>1. /\ UNCHANGED <<mval, wr, pc, first, job>> /\ updt' = updt /\ DOMAIN ctl = SubIds
    BY DEF Turn, CtlTimer, CtlPollSkipped, CtlExit, clientVars, LInv, JInv, RInv, TInv, TypeOK
  <1>2. \A t \in SubIds : ctl'[t] = "write" => ctl[t] = "write"
    BY <1>1 DEF Turn, CtlTimer, CtlPollSkipped, CtlExit
  <1>3. \A k \in Jobs : Busy(k)' => WorkPast(job[k])'
    BY <1>1, OtherWorkPast DEF Busy
  <1>4. SlotsPast' /\ MessagesPast' /\ FirstPast'
    BY <1>1, <1>2, SlotsPastFrame, MessagesPastFrame, FirstPastFrame
       DEF LInv, JInv, RInv, CursorsPast
  <1> QED
    BY <1>3, <1>4 DEF CursorsPast

\* A controller begins to write a slot.
LEMMA StartPast ==
  ASSUME LInv, Grows, NEW s \in SubIds, NEW i, NEW slot, NEW n, StartWrite(s, i, slot, n),
         slot.id \in Members, Past(slot.id, slot.lo),
         UNCHANGED <<mval, job, first>>, MessagesPast',
         \A m \in Members : pc'[m] = "add" => pc[m] = "add"
  PROVE  CursorsPast'
  <1>1. TInv /\ SlotsPast /\ FirstPast
    BY DEF LInv, JInv, RInv, CursorsPast
  <1>2. /\ \A t \in SubIds : t # s => ctl'[t] = ctl[t] /\ wr'[t] = wr[t]
        /\ wr'[s] = [i |-> i, slot |-> slot, n |-> n]
    BY <1>1 DEF StartWrite, TInv, TypeOK
  <1>3. ASSUME NEW t \in SubIds
        PROVE  \A k \in 1..Len(mval[t].mem) : Past(mval[t].mem[k].id, mval[t].mem[k].lo)'
    <2>1. mval[t].mem \in Seq(Slot)
      BY <1>1 DEF TInv, TypeOK
    <2>2. \A k \in 1..Len(mval[t].mem) : mval[t].mem[k] \in Slot
      BY <2>1
    <2>3. \A k \in 1..Len(mval[t].mem) : /\ mval[t].mem[k].id \in Members
                                         /\ Past(mval[t].mem[k].id, mval[t].mem[k].lo)
      BY <1>1, <2>2, NamesMember DEF SlotsPast
    <2> QED
      BY <2>3 DEF Grows
  <1>4. ASSUME NEW t \in SubIds, ctl'[t] = "write"
        PROVE  Past(wr[t].slot.id, wr[t].slot.lo)'
    <2>1. PICK x : x = wr'[t].slot
      OBVIOUS
    <2>2. x.id \in Members /\ Past(x.id, x.lo)
      <3>1. CASE t = s
        BY <1>2, <2>1, <3>1
      <3>2. CASE t # s
        <4>1. ctl[t] = "write" /\ x = wr[t].slot
          BY <1>2, <1>4, <2>1, <3>2
        <4>2. wr[t].slot \in Slot
          BY <1>1, <4>1 DEF TInv, Shape, SlotShape
        <4> QED
          BY <1>1, <4>1, <4>2, NamesMember DEF SlotsPast
      <3> QED
        BY <3>1, <3>2
    <2>3. x.id \in Members
      BY <2>2
    <2>4. Past(x.id, x.lo)'
      BY <2>2, <2>3 DEF Grows
    <2> QED
      BY <2>1, <2>3, <2>4
  <1>5. SlotsPast'
    BY <1>3, <1>4 DEF SlotsPast
  <1>6. FirstPast'
    BY <1>1, FirstPastFrame
  <1>7. \A k \in Jobs : Busy(k)' => WorkPast(job[k])'
    BY OtherWorkPast DEF Busy
  <1> QED
    BY <1>5, <1>6, <1>7 DEF CursorsPast

\* A client joins with the cursor of its first result.
LEMMA AddPast ==
  ASSUME LInv, Grows, NEW s \in SubIds, NEW m \in Members, CtlAdd(s, m)
  PROVE  CursorsPast'
  <1>1. /\ pc[m] = "add" /\ TInv /\ first[m] \in Mmsg
    BY DEF CtlAdd, LInv, JInv, RInv, TInv, Shape, ClientShape
  <1>2. Past(m, first[m].cursor) /\ Past(m, 0)
    <2>1. 1..0 = {}
      OBVIOUS
    <2> QED
      BY <1>1, <2>1 DEF LInv, CursorsPast, FirstPast, Past
  <1>3. SlotOf(m).id = m
    BY <1>1, SlotOfType DEF TInv
  <1>4. SlotOf(m).lo = 0 \/ SlotOf(m).lo = first[m].cursor
    BY DEF SlotOf, MoveCursor
  <1>5. UNCHANGED <<mval, job, first>> /\ updt' = updt
    BY DEF CtlAdd
  <1>6. MessagesPast'
    BY <1>1, <1>5, MessagesPastFrame DEF LInv, CursorsPast
  <1>7. \A k \in Members : pc'[k] = "add" => pc[k] = "add"
    BY <1>1 DEF CtlAdd, TInv, TypeOK
  <1>8. StartWrite(s, mval[s].n + 1, SlotOf(m), mval[s].n + 1)
    BY DEF CtlAdd
  <1>9. SlotOf(m).id \in Members /\ Past(SlotOf(m).id, SlotOf(m).lo)
    BY <1>2, <1>3, <1>4
  <1> QED
    BY <1>5, <1>6, <1>7, <1>8, <1>9, StartPast

\* A worker's message moves the cursor of its member.
LEMMA CtlUpdtPast ==
  ASSUME LInv, Grows, NEW s \in SubIds, CtlUpdt(s)
  PROVE  CursorsPast'
  <1>1. /\ TInv /\ SlotsStay /\ updt[s] \in Seq(Mmsg) /\ updt[s] # <<>>
        /\ UNCHANGED <<mval, job, first, pc>>
        /\ updt' = [updt EXCEPT ![s] = Tail(updt[s])] /\ DOMAIN updt = SubIds
    BY DEF CtlUpdt, clientVars, LInv, JInv, RInv, EverybodysOwn, TInv, TypeOK
  <1>2. PICK msg \in Mmsg : msg = Head(updt[s]) /\ Past(msg.id, msg.cursor)
    <2>1. 1 \in 1..Len(updt[s]) /\ Head(updt[s]) = updt[s][1] /\ updt[s][1] \in Mmsg
      BY <1>1
    <2> QED
      BY <2>1 DEF LInv, CursorsPast, MessagesPast
  <1>3. MessagesPast'
    <2> SUFFICES ASSUME NEW t \in SubIds, NEW k \in 1..Len(updt'[t])
                 PROVE  Past(updt[t][k].id, updt[t][k].cursor)'
      BY DEF MessagesPast
    <2>1. PICK y : y = updt'[t][k]
      OBVIOUS
    <2>2. updt[t] \in Seq(Mmsg)
      BY <1>1 DEF TInv, TypeOK
    <2>3. \E l \in 1..Len(updt[t]) : y = updt[t][l]
      <3>1. CASE t = s
        <4>1. updt'[t] = Tail(updt[t]) /\ updt[t] # <<>>
          BY <1>1, <3>1
        <4>2. k + 1 \in 1..Len(updt[t]) /\ y = updt[t][k + 1]
          BY <2>1, <2>2, <4>1
        <4> QED
          BY <4>2
      <3>2. CASE t # s
        BY <1>1, <2>1, <3>2
      <3> QED
        BY <3>1, <3>2
    <2>4. y \in Mmsg /\ Past(y.id, y.cursor)
      BY <2>2, <2>3 DEF LInv, CursorsPast, MessagesPast
    <2>5. y.id \in Members
      BY <2>4, NamesMember
    <2>6. Past(y.id, y.cursor)'
      BY <2>4, <2>5 DEF Grows
    <2> QED
      BY <2>1, <2>5, <2>6
  <1>4. CASE Find(s, msg.id) # {}
    <2>1. PICK i \in Find(s, msg.id) :
            StartWrite(s, i, Updated(mval[s].mem[i], msg), mval[s].n)
      BY <1>2, <1>4 DEF CtlUpdt
    <2>2. /\ i \in 1..Len(mval[s].mem) /\ mval[s].mem[i].id = msg.id
      BY <1>1, <2>1 DEF Find, Indices, SlotsStay
    <2>3. PICK old \in Slot : old = mval[s].mem[i]
      BY SMTT(30), <1>1, <2>2 DEF TInv, TypeOK
    <2>4. PICK new : new = Updated(old, msg)
      OBVIOUS
    <2>5. new.id = msg.id /\ msg.id \in Members
      BY <1>2, <2>2, <2>3, <2>4, UpdatedType, NamesMember
    <2>6. new.lo = old.lo \/ new.lo = msg.cursor
      BY <2>3, <2>4 DEF Updated, MoveCursor, Slot
    <2>7. Past(msg.id, old.lo)
      BY <2>2, <2>3 DEF LInv, CursorsPast, SlotsPast
    <2>8. Past(new.id, new.lo)
      BY <1>2, <2>5, <2>6, <2>7
    <2>9. StartWrite(s, i, new, mval[s].n)
      BY <2>1, <2>3, <2>4
    <2> QED
      BY <1>1, <1>3, <2>5, <2>8, <2>9, StartPast
  <1>5. CASE Find(s, msg.id) = {}
    <2>1. UNCHANGED <<ctl, wr>>
      BY <1>2, <1>5 DEF CtlUpdt
    <2>2. SlotsPast' /\ FirstPast'
      BY <1>1, <2>1, SlotsPastFrame, FirstPastFrame DEF LInv, CursorsPast
    <2>3. \A k \in Jobs : Busy(k)' => WorkPast(job[k])'
      BY <1>1, OtherWorkPast DEF Busy
    <2> QED
      BY <1>3, <2>2, <2>3 DEF CursorsPast
  <1> QED
    BY <1>4, <1>5

\* The slot is written, and the workers whose arrays were moved have a copy.
LEMMA WritePast ==
  ASSUME LInv, Grows, NEW s \in SubIds, CtlWrite(s)
  PROVE  CursorsPast'
  <1>1. /\ OInv /\ TInv /\ SlotsPast
        /\ UNCHANGED <<pc, first>> /\ updt' = updt
    BY DEF CtlWrite, clientVars, LInv, JInv, RInv, OInv, CursorsPast
  <1>2. ASSUME NEW t \in SubIds, NEW x,
               \/ \E i \in 1..Len(mval[t].mem) : x = mval[t].mem[i]
               \/ ctl[t] = "write" /\ x = wr[t].slot
        PROVE  Past(x.id, x.lo)'
    <2>1. mval[t].mem \in Seq(Slot) /\ (ctl[t] = "write" => wr[t].slot \in Slot)
      BY <1>1 DEF TInv, TypeOK, Shape, SlotShape
    <2>2. x \in Slot /\ Past(x.id, x.lo)
      BY <1>1, <1>2, <2>1 DEF SlotsPast
    <2>3. x.id \in Members
      BY <2>2, NamesMember
    <2> QED
      BY <2>2, <2>3 DEF Grows
  <1>3. SlotsPast'
    <2> SUFFICES ASSUME NEW t \in SubIds
                 PROVE  /\ \A i \in 1..Len(mval'[t].mem) :
                              Past(mval[t].mem[i].id, mval[t].mem[i].lo)'
                        /\ ctl'[t] = "write" => Past(wr[t].slot.id, wr[t].slot.lo)'
      BY DEF SlotsPast
    <2>1. ASSUME NEW i \in 1..Len(mval'[t].mem)
          PROVE  Past(mval[t].mem[i].id, mval[t].mem[i].lo)'
      <3>1. PICK x : x = mval'[t].mem[i]
        OBVIOUS
      <3>2. \/ \E l \in 1..Len(mval[t].mem) : x = mval[t].mem[l]
            \/ ctl[t] = "write" /\ x = wr[t].slot
        <4>1. CASE t = s
          BY <1>1, <2>1, <3>1, <4>1, WriteSlots
        <4>2. CASE t # s
          BY <1>1, <2>1, <3>1, <4>2, WriteSlots
        <4> QED
          BY <4>1, <4>2
      <3>3. Past(x.id, x.lo)'
        BY <1>2, <3>2
      <3> QED
        BY <3>1, <3>3
    <2>2. ASSUME ctl'[t] = "write"
          PROVE  Past(wr[t].slot.id, wr[t].slot.lo)'
      <3>1. PICK x : x = wr'[t].slot
        OBVIOUS
      <3>2. ctl[t] = "write" /\ x = wr[t].slot
        BY <1>1, <2>2, <3>1, WriteSlots
      <3>3. Past(x.id, x.lo)'
        BY <1>2, <3>2
      <3> QED
        BY <3>1, <3>3
    <2> QED
      BY <2>1, <2>2
  <1>4. ASSUME NEW k \in Jobs, Busy(k)'
        PROVE  WorkPast(job[k])'
    <2>1. /\ Busy(k)
          /\ job'[k].st = job[k].st /\ job'[k].from = job[k].from /\ job'[k].to = job[k].to
          /\ job'[k].params = job[k].params /\ job'[k].rows = job[k].rows
          /\ job'[k].msg = job[k].msg
          /\ (job'[k].mem = job[k].mem \/ job'[k].mem = mval[job[k].sub].mem)
          /\ \A i \in 1..Size(k) : WhoseRow(job[k], i)' = WhoseRow(job[k], i)
      BY <1>1, <1>4, WriteRows
    <2> QED
      BY <2>1, WorkPastFrame
  <1>5. MessagesPast' /\ FirstPast'
    BY <1>1, MessagesPastFrame, FirstPastFrame DEF LInv, CursorsPast
  <1> QED
    BY <1>3, <1>4, <1>5 DEF CursorsPast

\* What is in the channel of a client counts as sent.
LEMMA SentToChannel ==
  ASSUME NEW m, NEW x, \E i \in 1..Len(result'[m]) : x \in RowsOf(result'[m][i])
  PROVE  x \in SentTo(m)'
  <1>1. \A y : y \in SentTo(m)' <=>
                 \/ y \in rows'[m]
                 \/ \E i \in 1..Len(result'[m]) : y \in RowsOf(result'[m][i])
                 \/ \E j \in Jobs : /\ Sending(j)' /\ job'[j].res = m
                                    /\ y \in RowsOf(RowFor(j)')
    BY SentToMeansNext DEF InSentTo
  <1> QED
    BY <1>1

\* A step that touches neither slots, messages, first results nor workers.
LEMMA QuietPast ==
  ASSUME LInv, Grows, UNCHANGED <<mval, wr, job, updt>>,
         \A s \in SubIds : ctl'[s] = "write" => ctl[s] = "write",
         FirstPast'
  PROVE  CursorsPast'
  <1>1. SlotsPast' /\ MessagesPast'
    BY SlotsPastFrame, MessagesPastFrame DEF LInv, JInv, RInv, CursorsPast
  <1>2. \A k \in Jobs : Busy(k)' => WorkPast(job[k])'
    BY OtherWorkPast DEF Busy
  <1> QED
    BY <1>1, <1>2 DEF CursorsPast

\* The cursor of a first result: the result is in the channel, from the first row.
LEMMA FirstResultPast ==
  ASSUME LInv, Grows, NEW m \in Members, First(m)
  PROVE  FirstPast'
  <1>1. /\ DOMAIN first = Members /\ DOMAIN pc = Members
        /\ result \in [Members -> Seq(Result \cup {Torn})] /\ db \in [Vars -> 0..MaxVersion]
        /\ at[m] \in SubIds /\ FirstPast
    BY DEF First, LInv, JInv, RInv, TInv, TypeOK, Shape, ClientShape, CursorsPast
  <1> DEFINE fetched == Query([vars |-> VarsOf[m], lo |-> 0])
  <1>2. PICK kept \in JsViews(at[m]) :
          LET r == IF kept # None THEN kept ELSE fetched
          IN /\ first' = [first EXCEPT ![m] = MsgFor(m, r)]
             /\ result' = IF Skipped(r) THEN result
                          ELSE [result EXCEPT ![m] = Append(@, r)]
    BY DEF First
  <1>3. PICK r : r = IF kept # None THEN kept ELSE fetched
    OBVIOUS
  <1>4. /\ first'[m] = MsgFor(m, r) /\ \A k \in Members : k # m => first'[k] = first[k]
        /\ ~Skipped(r) => result'[m] = Append(result[m], r)
    BY <1>1, <1>2, <1>3
  <1>5. \A k \in Members : k # m => pc'[k] = pc[k]
    BY <1>1 DEF First
  <1>6. first'[m].cursor = CursorIn(r)
    BY <1>4 DEF MsgFor
  <1>7. CASE Cursor /\ r # Torn
    <2>1. kept = None
      <3>1. HasParams
        BY <1>7, SubsAssumption
      <3>2. js[at[m]] = None
        BY <1>1, <3>1 DEF LInv, EverybodysOwn, KeptIsOwn
      <3>3. \A k \in Jobs : ~Keeping(k)
        BY <3>1 DEF Keeping
      <3> QED
        BY <3>2, <3>3 DEF JsViews
    <2>2. r.lo = 0 /\ r.hi \in Nat
      <3>1. VarsOf[m] \in Vars
        BY SubsAssumption
      <3>2. r = fetched
        BY <1>3, <2>1
      <3>3. db[VarsOf[m]] \in Nat
        BY <1>1, <3>1, SubsAssumption
      <3> QED
        BY <3>2, <3>3 DEF Query
    <2>3. \A x \in 1..r.hi : x \in SentTo(m)'
      <3> SUFFICES ASSUME NEW x \in 1..r.hi PROVE x \in SentTo(m)'
        OBVIOUS
      <3>1. x \in RowsOf(r)
        BY <1>7, <2>2 DEF RowsOf
      <3>2. ~Skipped(r)
        BY <1>7, <2>2 DEF Skipped, CursorIn
      <3>3. result'[m] = Append(result[m], r) /\ result[m] \in Seq(Result \cup {Torn})
        BY <1>1, <1>4, <3>2
      <3>4. /\ Len(result[m]) + 1 \in 1..Len(result'[m])
            /\ result'[m][Len(result[m]) + 1] = r
        BY <3>3
      <3> QED
        BY <3>1, <3>4, SentToChannel
    <2>4. PICK c : c = r.hi
      OBVIOUS
    <2>5. Past(m, c)'
      BY <2>3, <2>4 DEF Past
    <2>6. first'[m].cursor = c
      BY <1>6, <1>7, <2>4 DEF CursorIn
    <2>7. Past(m, first[m].cursor)'
      BY <2>5, <2>6
    <2> QED
      BY <1>1, <1>4, <1>5, <2>7 DEF FirstPast, Grows
  <1>8. CASE ~(Cursor /\ r # Torn)
    <2>1. CursorIn(r) = 0 /\ 1..0 = {}
      BY <1>8 DEF CursorIn
    <2>2. Past(m, 0)'
      BY <2>1 DEF Past
    <2>3. Past(m, first[m].cursor)'
      BY <1>6, <2>1, <2>2
    <2> QED
      BY <1>1, <1>4, <1>5, <2>3 DEF FirstPast, Grows
  <1> QED
    BY <1>7, <1>8

\* The steps of a client.
LEMMA ClientPast ==
  ASSUME LInv, Grows, NEW m \in Members, Client(m)
  PROVE  CursorsPast'
  <1>1. UNCHANGED <<mval, wr, job>> /\ updt' = updt /\ DOMAIN ctl = SubIds
        /\ DOMAIN pc = Members
    BY DEF Client, Load, Do, InitSub, InitSubFails, Undo, First, FirstFails, Receive, Leave,
           ctlVars, LInv, JInv, RInv, TInv, TypeOK
  <1>2. \A t \in SubIds : ctl'[t] = "write" => ctl[t] = "write"
    <2>1. CASE InitSub(m)
      BY <1>1, <2>1 DEF InitSub, StartController
    <2>2. CASE ~InitSub(m)
      BY <2>2 DEF Client, Load, Do, InitSubFails, Undo, First, FirstFails, Receive, Leave,
                  ctlVars
    <2> QED
      BY <2>1, <2>2
  <1>3. FirstPast'
    <2>1. CASE First(m)
      BY <2>1, FirstResultPast
    <2>2. CASE ~First(m)
      <3>1. first' = first
            /\ (pc' = pc \/ \E c \in {"do", "init", "args", "undo", "failed", "panicked",
                                      "leaving"} : pc' = [pc EXCEPT ![m] = c])
        <4>1. CASE Receive(m)
          BY <4>1 DEF Receive, clientVars
        <4>2. CASE ~Receive(m)
          BY <2>2, <4>2 DEF Client, Load, Do, InitSub, InitSubFails, Undo, FirstFails, Leave
        <4> QED
          BY <4>1, <4>2
      <3>2. \A k \in Members : pc'[k] = "add" => pc[k] = "add" /\ first'[k] = first[k]
        BY <1>1, <3>1
      <3> QED
        BY <3>2, FirstPastFrame DEF LInv, CursorsPast
    <2> QED
      BY <2>1, <2>2
  <1> QED
    BY <1>1, <1>2, <1>3, QuietPast

\* The invariant holds initially: there are no cursors ...
LEMMA InitLInv ==
  ASSUME Init
  PROVE  LInv
  <1>1. JInv /\ EverybodysOwn
    BY InitJInv, InitOInv DEF OInv
  <1>2. SlotsPast /\ MessagesPast /\ FirstPast
    BY DEF Init, SlotsPast, MessagesPast, FirstPast, EmptyMval
  <1>3. \A j \in Jobs : ~Busy(j)
    BY DEF Init, Busy, IdleJob
  <1> QED
    BY <1>1, <1>2, <1>3 DEF LInv, CursorsPast

\* ... and every step keeps it while nobody leaves or reads slowly.
LEMMA NextLInv ==
  ASSUME LInv, [Next]_vars, Leavers = {}, ~SlowReaders
  PROVE  LInv'
  <1>1. Grows
    BY PastStays, JoinedStays DEF Grows
  <1>2. JInv' /\ EverybodysOwn'
    <2>1. JInv /\ OInv
      BY DEF LInv, JInv, OInv
    <2>2. JInv'
      BY <2>1, NextJInv
    <2>3. OInv'
      BY <2>1, NextOInv
    <2> QED
      BY <2>2, <2>3 DEF OInv
  <1>3. ASSUME UNCHANGED <<mval, wr, ctl, job, updt, pc, first>>
        PROVE  CursorsPast'
    <2>1. FirstPast'
      BY <1>1, <1>3, FirstPastFrame DEF LInv, CursorsPast
    <2> QED
      BY <1>1, <1>3, <2>1, QuietPast
  <1>4. ASSUME NEW v \in Vars, Change(v)
        PROVE  CursorsPast'
    BY <1>3, <1>4 DEF Change, ctlVars, clientVars
  <1>5. ASSUME NEW s \in SubIds, Controller(s)
        PROVE  CursorsPast'
    <2>1. \A m \in Members : ~CtlDel(s, m)
      BY DEF CtlDel, LInv, EverybodysOwn, NobodyLeft
    <2> QED
      BY <1>1, <1>5, <2>1, AddPast, CtlUpdtPast, WritePast, PollPast, ExitPast
         DEF Controller, Turn
  <1>6. ASSUME NEW j \in Jobs, Worker(j)
        PROVE  CursorsPast'
    <2>1. CASE JobPanics(j)
      BY <1>3, <2>1 DEF JobPanics, ctlVars, clientVars
    <2> QED
      BY <1>1, <1>6, <2>1, RenderPast, QueryPast, NotifyPast, UpdtPast, SendPast, ReturnPast
         DEF Worker
  <1>7. CASE UNCHANGED vars
    <2>1. CursorsPast'
      BY <1>3, <1>7 DEF vars, ctlVars, clientVars
    <2> QED
      BY <1>2, <2>1 DEF LInv
  <1> QED
    BY <1>1, <1>2, <1>4, <1>5, <1>6, <1>7, ClientPast DEF Next, LInv

\* As long as no client unsubscribes or leaves its channel full, the cursor of a
\* slot is never ahead of the rows that were sent to its member, although workers
\* overlap and a cursor and its rows travel apart.
THEOREM NothingIsLost == Spec => [](Leavers = {} /\ ~SlowReaders => NothingLost)
  <1>1. Init => LInv
    BY InitLInv
  <1>2. LInv => NothingLost
    BY DEF LInv, JInv, RInv, EverybodysOwn, SlotsStay, CursorsPast, SlotsPast, Past,
           NothingLost, Indices
  <1>3. CASE Leavers = {} /\ ~SlowReaders
    <2>1. LInv /\ [Next]_vars => LInv'
      BY <1>3, NextLInv
    <2> QED
      BY <1>1, <1>2, <2>1, PTL DEF Spec
  <1>4. CASE ~(Leavers = {} /\ ~SlowReaders)
    <2>1. Leavers = {} /\ ~SlowReaders => NothingLost
      BY <1>4
    <2> QED
      BY <2>1, PTL
  <1> QED
    BY <1>3, <1>4

-----------------------------------------------------------------------------
(* Order.  A worker that runs while an earlier one of the same controller has *)
(* not returned may overtake it.  While that does not happen, and nobody      *)
(* leaves, what a client is shown is never older than what it was shown.      *)

\* No two workers of a controller are in flight at the same time.
NoOverlap ==
  \A j, k \in Jobs : Busy(j) /\ Busy(k) /\ job[j].sub = job[k].sub => j = k

\* It never happens when one worker serves everybody, as in the runs that check
\* the properties of the last two theorems.
LEMMA OneWorkerNoOverlap ==
  ASSUME \A j, k \in Jobs : j = k
  PROVE  NoOverlap
  BY DEF NoOverlap

\* A worker's members are where the controller's slices have them.
InSlots ==
  \A j \in Jobs : Busy(j) =>
     \A i \in 1..Size(j) :
        /\ job[j].from + i <= Len(mval[job[j].sub].mem)
        /\ WhoseRow(job[j], i) = mval[job[j].sub].mem[job[j].from + i].id

\* What a worker is about to send has a cursor, if it should.
SendsReal == \A j \in Jobs : Sending(j) => ~Skipped(RowFor(j))

\* What the order of results rests on, where nobody leaves.
KInv == JInv /\ EverybodysOwn /\ InSlots /\ SendsReal

\* While nobody leaves, the slots of a controller are those of its members.
LEMMA SlotIds ==
  ASSUME JInv, EverybodysOwn, NEW s \in SubIds, NEW i \in 1..Len(mval[s].mem)
  PROVE  i \in 1..Count(s) /\ IdAt(s, i) = mval[s].mem[i].id
  <1>1. /\ mval[s].n = Len(mval[s].mem) /\ mval[s].mem \in Seq(Slot)
        /\ wr[s] \in [i : Nat, slot : Slot \cup {None}, n : Nat] /\ TInv
    BY DEF JInv, RInv, TInv, TypeOK, EverybodysOwn, SlotsStay
  <1>2. CASE ctl[s] # "write"
    BY <1>1, <1>2, SlotsAtRest
  <1>3. CASE ctl[s] = "write"
    <2>1. \/ wr[s].i <= mval[s].n /\ wr[s].n = mval[s].n
             /\ wr[s].slot.id = mval[s].mem[wr[s].i].id
          \/ wr[s].i = mval[s].n + 1 /\ wr[s].n = mval[s].n + 1
      BY <1>3 DEF EverybodysOwn, SlotsStay
    <2>2. i \in 1..Count(s)
      BY <1>1, <1>3, <2>1 DEF Count
    <2>3. wr[s].i = i => wr[s].slot.id = mval[s].mem[i].id
      BY <1>1, <2>1
    <2> QED
      BY <2>2, <2>3 DEF IdAt, SlotAfterWrite
  <1> QED
    BY <1>2, <1>3

\* A worker's members have joined its controller, and each has one row.
LEMMA JobMembers ==
  ASSUME KInv, NEW j \in Jobs, Busy(j), NEW i \in 1..Size(j)
  PROVE  /\ WhoseRow(job[j], i) \in Members
         /\ pc[WhoseRow(job[j], i)] = "joined" /\ at[WhoseRow(job[j], i)] = job[j].sub
         /\ \A l \in 1..Size(j) : WhoseRow(job[j], l) = WhoseRow(job[j], i) => l = i
  <1>1. JInv /\ EverybodysOwn /\ TInv /\ SlotsMatch /\ job[j].sub \in SubIds
        /\ job[j].from \in Nat /\ Size(j) \in Nat
    BY BusyFacts DEF KInv, JInv, RInv
  <1>2. ASSUME NEW l \in 1..Size(j)
        PROVE  /\ job[j].from + l \in 1..Count(job[j].sub)
               /\ WhoseRow(job[j], l) = IdAt(job[j].sub, job[j].from + l)
    <2>1. /\ job[j].from + l <= Len(mval[job[j].sub].mem)
          /\ WhoseRow(job[j], l) = mval[job[j].sub].mem[job[j].from + l].id
      BY DEF KInv, InSlots
    <2>2. Len(mval[job[j].sub].mem) \in Nat
      BY <1>1 DEF TInv, TypeOK
    <2>3. job[j].from + l \in 1..Len(mval[job[j].sub].mem)
      BY <1>1, <2>1, <2>2
    <2> QED
      BY <1>1, <2>1, <2>3, SlotIds
  <1>3. /\ WhoseRow(job[j], i) \in Members
        /\ Served(WhoseRow(job[j], i)) /\ at[WhoseRow(job[j], i)] = job[j].sub
    BY <1>1, <1>2 DEF SlotsMatch
  <1>4. pc[WhoseRow(job[j], i)] = "joined"
    BY <1>1, <1>3 DEF Served, EverybodysOwn, NobodyLeft
  <1>5. ASSUME NEW l \in 1..Size(j), WhoseRow(job[j], l) = WhoseRow(job[j], i)
        PROVE  l = i
    <2>1. job[j].from + l = job[j].from + i
      BY <1>1, <1>2, <1>5 DEF SlotsMatch
    <2> QED
      BY <1>1, <2>1
  <1> QED
    BY <1>3, <1>4, <1>5

\* Two workers in flight have different members.
LEMMA OneWorker ==
  ASSUME KInv, NoOverlap, NEW j \in Jobs, Busy(j), NEW i \in 1..Size(j),
         NEW k \in Jobs, Busy(k), NEW l \in 1..Size(k),
         WhoseRow(job[j], i) = WhoseRow(job[k], l)
  PROVE  j = k /\ i = l
  <1>1. job[j].sub = job[k].sub
    BY JobMembers
  <1>2. j = k
    BY <1>1 DEF NoOverlap
  <1> QED
    BY <1>2, JobMembers

\* How a worker may be busy after a step: it was spawned, ...
Spawned(j) ==
  /\ job'[j].st = "spawned" /\ job'[j].mem = None
  /\ job'[j].sub \in SubIds /\ job'[j].from \in Nat /\ job'[j].to \in Nat
  /\ job'[j].to <= Len(mval[job'[j].sub].mem)
  /\ UNCHANGED mval
  /\ \/ \E s \in SubIds : /\ CtlPoll(s)
                        /\ job'[j] = Chunk(s, 0, mval[s].n > MaxPerWorker)
     \/ /\ JobFails(j) \/ JobDone(j)
        /\ MoreChunks(j) /\ job'[j] = Chunk(job[j].sub, job[j].to, TRUE)

\* The first row of its chunk that a worker has not reported.
NextRow(j) ==
  CASE job[j].st \in {"spawned", "query"} -> 1
    [] job[j].st = "send" -> job[j].i + 1
    [] OTHER -> job[j].i

\* A worker goes through its stages in order.
Advances(j) ==
  /\ job'[j].inline = job[j].inline
  /\ NextRow(j)' = NextRow(j) \/ NextRow(j)' = NextRow(j) + 1
  /\ job'[j].st = "spawned" => job[j].st = "spawned"
  /\ job'[j].st = "query" =>
       (job[j].st = "query" /\ job'[j].params = job[j].params) \/ JobRender(j)
  /\ job'[j].st = "updt" =>
       \/ job[j].st = "updt" /\ job'[j].res = job[j].res /\ job'[j].msg = job[j].msg
       \/ JobNotify(j)
  /\ job'[j].st = "send" =>
       (job[j].st = "send" /\ job'[j].res = job[j].res) \/ JobUpdt(j)
  /\ job[j].st = "send" => job'[j].st = "send" \/ JobSend(j)

\* ... or goes on for the members it had.
GoesOn(j) ==
  /\ Advances(j)
  /\ Busy(j)
  /\ job'[j].sub = job[j].sub /\ job'[j].from = job[j].from /\ job'[j].to = job[j].to
  /\ \A i \in 1..Size(j) : WhoseRow(job[j], i)' = WhoseRow(job[j], i)
  /\ HasRows(j)' /\ ~HasRows(j) => JobQuery(j)
  /\ HasRows(j)' /\ HasRows(j) =>
        /\ job'[j].rows = job[j].rows
        /\ job'[j].i = job[j].i \/ (job'[j].i = job[j].i + 1 /\ job[j].i <= Size(j))
        /\ JobSend(j) => job'[j].i = job[j].i + 1
        /\ Sending(j)' => /\ job'[j].i = job[j].i
                          /\ Sending(j) \/ ~Skipped(RowFor(j))

\* A worker that is not touched, with the slices as they are.
LEMMA StillGoesOn ==
  ASSUME TInv, UNCHANGED mval, NEW j \in Jobs, job'[j] = job[j], Busy(j), ~JobSend(j)
  PROVE  GoesOn(j)
  <1>1. \A i : WhoseRow(job[j], i)' = WhoseRow(job[j], i)
    BY DEF WhoseRow, Source
  <1>2. Advances(j)
    BY DEF Advances, NextRow
  <1> QED
    BY <1>1, <1>2 DEF GoesOn, HasRows, Sending

\* The steps of a worker.
LEMMA WorkerMoves ==
  ASSUME TInv, NEW j \in Jobs, Worker(j), Busy(j)'
  PROVE  Spawned(j) \/ GoesOn(j)
  <1>1. /\ job \in [Jobs -> JobType] /\ UNCHANGED mval
        /\ job[j] \in JobType
    BY DEF TInv, TypeOK, Worker, JobRender, JobQuery, JobFails, JobNotify, JobUpdt, JobSend,
           JobDone, JobPanics, ctlVars
  <1>2. CASE JobFails(j) \/ JobDone(j)
    <2>1. Busy(j) /\ Return(j)
      BY <1>2 DEF JobFails, JobDone, Busy
    <2>2. job'[j] = IF MoreChunks(j) THEN Chunk(job[j].sub, job[j].to, TRUE) ELSE IdleJob
      BY <1>1, <2>1 DEF Return
    <2>3. MoreChunks(j)
      <3>1. job'[j].st # "idle"
        BY DEF Busy
      <3>2. IdleJob.st = "idle"
        BY DEF IdleJob
      <3> QED
        BY <2>2, <3>1, <3>2
    <2>4. /\ job[j].sub \in SubIds /\ job[j].to \in Nat /\ job[j].to < mval[job[j].sub].n
      BY <2>1, <2>3, BusyFacts DEF MoreChunks
    <2>5. PICK s \in SubIds, from \in Nat, inline \in BOOLEAN :
             /\ s = job[j].sub /\ from = job[j].to /\ from < mval[s].n
             /\ job'[j] = Chunk(s, from, inline)
      BY <2>2, <2>3, <2>4
    <2>6. LET c == Chunk(s, from, inline) IN
          /\ c \in JobType /\ c.st = "spawned" /\ c.sub = s
          /\ c.mem = None /\ c.to <= Len(mval[s].mem)
      BY <2>5, ChunkType
    <2>7. job'[j].to \in Nat /\ job'[j].from \in Nat
      BY <2>5, <2>6 DEF JobType
    <2> QED
      BY <1>1, <1>2, <2>2, <2>3, <2>4, <2>5, <2>6, <2>7 DEF Spawned
  <1>3. CASE JobRender(j)
    <2>1. job[j].st = "spawned" /\ \E p : job'[j] = [job[j] EXCEPT !.st = "query", !.params = p]
      BY <1>1, <1>3 DEF JobRender
    <2>2. /\ job'[j].st = "query" /\ job'[j].mem = job[j].mem /\ job'[j].sub = job[j].sub
          /\ job'[j].from = job[j].from /\ job'[j].to = job[j].to
          /\ job'[j].inline = job[j].inline
      BY <1>1, <2>1 DEF JobType
    <2>3. \A i : WhoseRow(job[j], i)' = WhoseRow(job[j], i)
      BY <1>1, <2>2 DEF WhoseRow, Source
    <2>4. Advances(j)
      BY <1>3, <2>1, <2>2 DEF Advances, NextRow
    <2> QED
      BY <2>1, <2>2, <2>3, <2>4 DEF GoesOn, Busy, HasRows
  <1>4. CASE JobQuery(j)
    <2>1. job[j].st = "query"
          /\ \E r : job'[j] = [job[j] EXCEPT !.st = "rows", !.i = 1, !.rows = r]
      BY <1>1, <1>4 DEF JobQuery
    <2>2. /\ job'[j].st = "rows" /\ job'[j].mem = job[j].mem /\ job'[j].sub = job[j].sub
          /\ job'[j].from = job[j].from /\ job'[j].to = job[j].to
          /\ job'[j].inline = job[j].inline
      BY <1>1, <2>1 DEF JobType
    <2>3. \A i : WhoseRow(job[j], i)' = WhoseRow(job[j], i)
      BY <1>1, <2>2 DEF WhoseRow, Source
    <2>4. Advances(j)
      BY <1>4, <2>1, <2>2 DEF Advances, NextRow
    <2> QED
      BY <1>4, <2>1, <2>2, <2>3, <2>4 DEF GoesOn, Busy, HasRows
  <1>5. CASE JobNotify(j)
    <2>1. job[j].st = "rows" /\ ~JobSend(j) /\ job[j].i <= Size(j)
      BY <1>5 DEF JobNotify, JobSend
    <2>2. PICK slot \in View(j, MemberIndex(j)) :
            \/ job' = [job EXCEPT ![j].i = @ + 1]
            \/ /\ ~Skipped(RowFor(j))
               /\ job' = [job EXCEPT ![j].st = "updt", ![j].res = slot.res,
                                     ![j].msg = MsgFor(slot.id, RowFor(j))]
      BY <1>5 DEF JobNotify
    <2>3. CASE job' = [job EXCEPT ![j].i = @ + 1]
      <3>1. job'[j] = [job[j] EXCEPT !.i = job[j].i + 1]
        BY <1>1, <2>3
      <3>2. /\ job'[j].mem = job[j].mem /\ job'[j].sub = job[j].sub
            /\ job'[j].from = job[j].from /\ job'[j].to = job[j].to
            /\ job'[j].inline = job[j].inline
            /\ job'[j].rows = job[j].rows
            /\ job'[j].i = job[j].i + 1 /\ job'[j].st = job[j].st
        BY <1>1, <3>1 DEF JobType
      <3>3. \A i : WhoseRow(job[j], i)' = WhoseRow(job[j], i)
        BY <1>1, <3>2 DEF WhoseRow, Source
      <3>4. Advances(j)
        BY <1>5, <2>1, <3>2 DEF Advances, NextRow
      <3> QED
        BY <2>1, <3>2, <3>3, <3>4 DEF GoesOn, Busy, HasRows, Sending
    <2>4. CASE /\ ~Skipped(RowFor(j))
               /\ job' = [job EXCEPT ![j].st = "updt", ![j].res = slot.res,
                                     ![j].msg = MsgFor(slot.id, RowFor(j))]
      <3>1. job'[j] = [job[j] EXCEPT !.st = "updt", !.res = slot.res,
                                     !.msg = MsgFor(slot.id, RowFor(j))]
        BY <1>1, <2>4
      <3>2. /\ job'[j].mem = job[j].mem /\ job'[j].sub = job[j].sub
            /\ job'[j].from = job[j].from /\ job'[j].to = job[j].to
            /\ job'[j].inline = job[j].inline
            /\ job'[j].rows = job[j].rows
            /\ job'[j].i = job[j].i /\ job'[j].st = "updt"
        BY <1>1, <3>1 DEF JobType
      <3>3. \A i : WhoseRow(job[j], i)' = WhoseRow(job[j], i)
        BY <1>1, <3>2 DEF WhoseRow, Source
      <3>4. Advances(j)
        BY <1>5, <2>1, <3>2 DEF Advances, NextRow
      <3> QED
        BY <2>1, <2>4, <3>2, <3>3, <3>4 DEF GoesOn, Busy, HasRows, Sending
    <2> QED
      BY <2>2, <2>3, <2>4
  <1>6. CASE JobUpdt(j)
    <2>1. job[j].st = "updt" /\ job'[j] = [job[j] EXCEPT !.st = "send", !.msg = None]
      BY <1>1, <1>6 DEF JobUpdt
    <2>2. /\ job'[j].mem = job[j].mem /\ job'[j].sub = job[j].sub
          /\ job'[j].from = job[j].from /\ job'[j].to = job[j].to
          /\ job'[j].inline = job[j].inline
          /\ job'[j].rows = job[j].rows /\ job'[j].i = job[j].i /\ job'[j].st = "send"
      BY <1>1, <2>1 DEF JobType
    <2>3. \A i : WhoseRow(job[j], i)' = WhoseRow(job[j], i)
      BY <1>1, <2>2 DEF WhoseRow, Source
    <2>4. ~JobSend(j)
      BY <2>1 DEF JobSend
    <2>5. Advances(j)
      BY <1>6, <2>1, <2>2 DEF Advances, NextRow
    <2> QED
      BY <2>1, <2>2, <2>3, <2>4, <2>5 DEF GoesOn, Busy, HasRows, Sending
  <1>7. CASE JobSend(j)
    <2>1. job[j].st = "send"
          /\ job'[j] = [job[j] EXCEPT !.st = "rows", !.i = job[j].i + 1, !.res = None]
      BY <1>1, <1>7 DEF JobSend
    <2>2. /\ job'[j].mem = job[j].mem /\ job'[j].sub = job[j].sub
          /\ job'[j].from = job[j].from /\ job'[j].to = job[j].to
          /\ job'[j].inline = job[j].inline
          /\ job'[j].rows = job[j].rows /\ job'[j].i = job[j].i + 1 /\ job'[j].st = "rows"
      BY <1>1, <2>1 DEF JobType
    <2>3. \A i : WhoseRow(job[j], i)' = WhoseRow(job[j], i)
      BY <1>1, <2>2 DEF WhoseRow, Source
    <2>4. Advances(j)
      BY <1>7, <2>1, <2>2 DEF Advances, NextRow
    <2>5. job[j].i <= Size(j)
      BY <2>1, BusyFacts DEF Busy, Fits
    <2> QED
      BY <2>1, <2>2, <2>3, <2>4, <2>5 DEF GoesOn, Busy, HasRows, Sending
  <1>8. CASE JobPanics(j)
    <2>1. job'[j] = job[j] /\ job[j].st = "rows"
      BY <1>8 DEF JobPanics
    <2>2. ~JobSend(j) /\ Busy(j)
      BY <2>1 DEF JobSend, Busy
    <2> QED
      BY <1>1, <2>1, <2>2, StillGoesOn
  <1> QED
    BY <1>2, <1>3, <1>4, <1>5, <1>6, <1>7, <1>8 DEF Worker

\* A worker does not touch another one.
LEMMA OtherWorker ==
  ASSUME TInv, NEW j \in Jobs, NEW k \in Jobs, Worker(k), k # j
  PROVE  UNCHANGED mval /\ job'[j] = job[j]
  <1>1. UNCHANGED mval /\ ((\E w : job' = [job EXCEPT ![k] = w]) \/ job' = job)
    <2>1. CASE JobFails(k) \/ JobDone(k)
      BY <2>1 DEF JobFails, JobDone, Return, ctlVars
    <2>2. CASE ~(JobFails(k) \/ JobDone(k))
      BY <2>2 DEF Worker, JobRender, JobQuery, JobNotify, JobUpdt, JobSend, JobPanics, ctlVars
    <2> QED
      BY <2>1, <2>2
  <1>2. DOMAIN job = Jobs
    BY DEF TInv, TypeOK
  <1> QED
    BY <1>1, <1>2

\* Every step, for every worker that is busy after it.
LEMMA JobMoves ==
  ASSUME OInv, [Next]_vars, NEW j \in Jobs, Busy(j)'
  PROVE  Spawned(j) \/ GoesOn(j)
  <1>1. TInv /\ job \in [Jobs -> JobType]
    BY DEF OInv, RInv, TInv, TypeOK
  <1>2. ASSUME UNCHANGED mval, job'[j] = job[j], ~JobSend(j)
        PROVE  GoesOn(j)
    <2>1. Busy(j)
      BY <1>2 DEF Busy
    <2> QED
      BY <1>1, <1>2, <2>1, StillGoesOn
  <1>3. ASSUME NEW k \in Jobs, Worker(k), k # j
        PROVE  GoesOn(j)
    <2>1. UNCHANGED mval /\ job'[j] = job[j]
      BY <1>1, <1>3, OtherWorker
    <2>2. ~JobSend(j)
      BY <1>1, <2>1 DEF JobSend, JobType
    <2> QED
      BY <1>2, <2>1, <2>2
  <1>4. ASSUME NEW s \in SubIds, CtlPoll(s)
        PROVE  Spawned(j) \/ GoesOn(j)
    <2>1. PICK k \in Jobs : /\ job[k].st = "idle"
                            /\ job' = [job EXCEPT ![k] = Chunk(s, 0, mval[s].n > MaxPerWorker)]
      BY <1>4 DEF CtlPoll
    <2>2. UNCHANGED mval /\ mval[s].n \in Nat /\ mval[s].n > 0
      BY <1>1, <1>4 DEF CtlPoll, TInv, TypeOK
    <2>3. CASE k = j
      <3>1. job'[j] = Chunk(s, 0, mval[s].n > MaxPerWorker)
        BY <1>1, <2>1, <2>3
      <3> DEFINE b == mval[s].n > MaxPerWorker
      <3>2. b \in BOOLEAN /\ job'[j] = Chunk(s, 0, b)
        BY <3>1
      <3> HIDE DEF b
      <3>3. 0 \in Nat /\ 0 < mval[s].n
        BY <2>2
      <3>4. LET c == Chunk(s, 0, b) IN
            /\ c \in JobType /\ c.st = "spawned" /\ c.sub = s
            /\ c.mem = None /\ c.to <= Len(mval[s].mem)
        BY <1>1, <3>2, <3>3, ChunkType
      <3>5. job'[j].to \in Nat /\ job'[j].from \in Nat
        BY <3>2, <3>4 DEF JobType
      <3> QED
        BY <1>4, <2>2, <3>1, <3>2, <3>4, <3>5 DEF Spawned
    <2>4. CASE k # j
      <3>1. job'[j] = job[j]
        BY <1>1, <2>1, <2>4
      <3>2. ~JobSend(j)
        BY <1>1, <3>1 DEF JobSend, JobType
      <3> QED
        BY <1>2, <2>2, <3>1, <3>2
    <2> QED
      BY <2>3, <2>4
  <1>5. ASSUME NEW s \in SubIds, CtlWrite(s)
        PROVE  GoesOn(j)
    <2>1. ~JobSend(j)
      <3>1. job'[j].st = job[j].st
        BY <1>5, WriteRows
      <3> QED
        BY <1>1, <3>1 DEF JobSend, JobType
    <2>2. Advances(j)
      <3>1. job'[j].inline = job[j].inline
        BY <1>1, <1>5 DEF CtlWrite, JobType
      <3>2. NextRow(j)' = NextRow(j)
        BY <1>5, WriteRows DEF NextRow
      <3> QED
        BY <1>5, <3>1, <3>2, WriteRows DEF Advances
    <2> QED
      BY <1>5, <2>1, <2>2, WriteRows DEF GoesOn, HasRows, Sending
  <1>6. CASE /\ UNCHANGED <<mval, job>>
    <2>1. ~JobSend(j)
      BY <1>1, <1>6 DEF JobSend, JobType
    <2> QED
      BY <1>2, <1>6, <2>1
  <1>7. CASE (\E v \in Vars : Change(v)) \/ (\E m \in Members : Client(m)) \/ UNCHANGED vars
    BY <1>6, <1>7 DEF Change, Client, Load, Do, InitSub, StartController, InitSubFails, Undo,
       First, FirstFails,
                Receive, Leave, vars, ctlVars
  <1>8. ASSUME NEW s \in SubIds, Controller(s), ~CtlPoll(s), ~CtlWrite(s)
        PROVE  UNCHANGED <<mval, job>>
    BY <1>8 DEF Controller, CtlAdd, CtlDel, CtlUpdt, CtlTimer, CtlPollSkipped, CtlExit
  <1>9. ASSUME NEW s \in SubIds, Controller(s)
        PROVE  Spawned(j) \/ GoesOn(j)
    BY <1>4, <1>5, <1>6, <1>8, <1>9
  <1> QED
    BY <1>1, <1>3, <1>7, <1>9, WorkerMoves DEF Next

\* The slices only grow, and an index keeps its member.
LEMMA SlicesGrow ==
  ASSUME OInv, [Next]_vars, NEW s \in SubIds, NEW i \in 1..Len(mval[s].mem)
  PROVE  i <= Len(mval'[s].mem) /\ mval'[s].mem[i].id = mval[s].mem[i].id
  <1>1. mval \in [SubIds -> [mem : Seq(Slot), n : Nat, cap : Nat]]
    BY DEF OInv, RInv, TInv, TypeOK
  <1>2. CASE mval' = mval
    BY <1>1, <1>2
  <1>3. ASSUME NEW t \in SubIds, CtlWrite(t)
        PROVE  i <= Len(mval'[s].mem) /\ mval'[s].mem[i].id = mval[s].mem[i].id
    <2>1. CASE t # s
      BY <1>1, <1>3, <2>1, WriteSlots
    <2>2. CASE t = s
      <3>1. mval'[s].mem = [mval[s].mem EXCEPT ![wr[s].i] = wr[s].slot]
            \/ mval'[s].mem = Append(mval[s].mem, wr[s].slot)
        BY <1>1, <1>3, <2>2 DEF CtlWrite
      <3>2. mval[s].mem \in Seq(Slot)
        BY <1>1
      <3>3. i <= Len(mval'[s].mem)
        BY <3>1, <3>2
      <3> QED
        BY <1>3, <2>2, <3>3, WriteSlots
    <2> QED
      BY <2>1, <2>2
  <1>4. CASE \A t \in SubIds : ~CtlWrite(t)
    <2>1. ASSUME NEW m \in Members, Client(m)
          PROVE  mval' = mval
      BY <2>1 DEF Client, Load, Do, InitSub, StartController, InitSubFails, Undo, First,
                  FirstFails, Receive, Leave, ctlVars
    <2>2. ASSUME NEW t \in SubIds, Controller(t)
          PROVE  mval' = mval
      BY <1>4, <2>2 DEF Controller, CtlAdd, CtlDel, CtlUpdt, CtlTimer, CtlPoll, CtlPollSkipped,
         CtlExit
    <2>3. ASSUME NEW j \in Jobs, Worker(j)
          PROVE  mval' = mval
      BY <2>3 DEF Worker, JobRender, JobQuery, JobFails, JobNotify, JobUpdt, JobSend, JobDone,
                  JobPanics, ctlVars
    <2>4. ASSUME (\E v \in Vars : Change(v)) \/ UNCHANGED vars
          PROVE  mval' = mval
      BY <2>4 DEF Change, vars, ctlVars
    <2>5. mval' = mval
      BY <2>1, <2>2, <2>3, <2>4 DEF Next
    <2> QED
      BY <1>2, <2>5
  <1> QED
    BY <1>3, <1>4

\* The data only grows; what a client was shown changes when it reads.
LEMMA DataMoves ==
  ASSUME TInv, [Next]_vars
  PROVE  \/ (\E v \in Vars : Change(v)) /\ seen' = seen
         \/ (\E m \in Members : Receive(m)) /\ db' = db
         \/ UNCHANGED <<db, seen>>
  <1>1. CASE \E v \in Vars : Change(v)
    BY <1>1 DEF Change, readVars
  <1>2. ASSUME NEW m \in Members, Client(m)
        PROVE  (Receive(m) /\ db' = db) \/ UNCHANGED <<db, seen>>
    BY <1>2 DEF Client, Load, Do, InitSub, InitSubFails, Undo, First, FirstFails, Receive,
                Leave, readVars
  <1>3. ASSUME NEW s \in SubIds, Controller(s)
        PROVE  UNCHANGED <<db, seen>>
    BY <1>3 DEF Controller, CtlAdd, CtlDel, CtlUpdt, CtlWrite, CtlTimer, CtlPoll,
       CtlPollSkipped, CtlExit, readVars
  <1>4. ASSUME NEW j \in Jobs, Worker(j)
        PROVE  UNCHANGED <<db, seen>>
    BY <1>4 DEF Worker, JobRender, JobQuery, JobFails, JobNotify, JobUpdt, JobSend, JobDone,
                JobPanics, readVars
  <1>5. CASE UNCHANGED vars
    BY <1>5 DEF vars, readVars
  <1> QED
    BY <1>1, <1>2, <1>3, <1>4, <1>5 DEF Next

\* The data only gets newer.
LEMMA DataGrows ==
  ASSUME TInv, [Next]_vars, NEW v \in Vars
  PROVE  db[v] \in Nat /\ db'[v] \in Nat /\ db[v] <= db'[v]
  <1>1. db \in [Vars -> 0..MaxVersion] /\ MaxVersion \in Nat
    BY SubsAssumption DEF TInv, TypeOK
  <1>2. ASSUME NEW u \in Vars, Change(u)
        PROVE  db'[v] = db[v] \/ db'[v] = db[v] + 1
    BY <1>1, <1>2 DEF Change
  <1>3. CASE db' = db
    BY <1>1, <1>3
  <1> QED
    BY <1>1, <1>2, <1>3, DataMoves

\* Everything sent to m so far is at most at the version h.
AtMost(m, h) ==
  /\ seen[m] # None => seen[m].hi <= h
  /\ \A k \in 1..Len(result[m]) : result[m][k].hi <= h

\* What m was shown last and its channel hold its own data, in order.
InOrder(m) ==
  /\ seen[m] # None => seen[m] \in Result
  /\ \A k \in 1..Len(result[m]) :
       /\ result[m][k] \in Result /\ result[m][k].vars = VarsOf[m]
       /\ seen[m] # None => seen[m].hi <= result[m][k].hi
       /\ \A l \in k..Len(result[m]) : result[m][k].hi <= result[m][l].hi

\* Nothing sent is out of order, or newer than the data.
ShownInOrder == \A m \in Members : InOrder(m) /\ AtMost(m, db[VarsOf[m]])

\* The row that a worker may still send is from the data and not behind what
\* was sent to its member.
RowAhead(j, i) ==
  /\ job[j].rows[i] \in Result
  /\ job[j].rows[i].hi <= db[job[j].rows[i].vars]
  /\ i >= job[j].i /\ ~Skipped(job[j].rows[i]) =>
       AtMost(WhoseRow(job[j], i), job[j].rows[i].hi)

\* No worker is behind what its members were sent.
Ahead == \A j \in Jobs : HasRows(j) => \A i \in 1..Size(j) : RowAhead(j, i)

\* The invariant behind ShowsInOrder.
VInv == KInv /\ ShownInOrder /\ Ahead

\* A result that may be sent to m now: its own, real, and not behind.
Timely(m, r) ==
  /\ r \in Result /\ r.vars = VarsOf[m] /\ r.hi <= db[VarsOf[m]]
  /\ AtMost(m, r.hi)

\* What m is sent and shown changes when it reads, with its first result, and
\* when a worker sends to it.
LEMMA ChannelMoves ==
  ASSUME TInv, [Next]_vars, NEW m \in Members
  PROVE  \/ result'[m] = result[m] /\ seen'[m] = seen[m]
         \/ Receive(m)
         \/ First(m) /\ seen'[m] = seen[m]
         \/ (\E j \in Jobs : JobSend(j) /\ job[j].res = m) /\ seen'[m] = seen[m]
  <1>1. DOMAIN result = Members /\ DOMAIN seen = Members
    BY DEF TInv, TypeOK
  <1>2. ASSUME NEW k \in Members, Client(k)
        PROVE  \/ result'[m] = result[m] /\ seen'[m] = seen[m]
               \/ Receive(m)
               \/ First(m) /\ seen' = seen
    <2>1. CASE First(k)
      <3>1. seen' = seen
            /\ (result' = result \/ \E r : result' = [result EXCEPT ![k] = Append(@, r)])
        BY <2>1 DEF First, readVars
      <3> QED
        BY <1>1, <2>1, <3>1
    <2>2. CASE Receive(k)
      BY <1>1, <2>2 DEF Receive
    <2>3. CASE ~First(k) /\ ~Receive(k)
      BY <1>2, <2>3 DEF Client, Load, Do, InitSub, InitSubFails, Undo, FirstFails, Leave,
                        readVars
    <2> QED
      BY <2>1, <2>2, <2>3
  <1>3. ASSUME NEW j \in Jobs, Worker(j)
        PROVE  /\ seen' = seen
               /\ result'[m] = result[m] \/ (JobSend(j) /\ job[j].res = m)
    <2>1. CASE JobSend(j)
      <3>1. seen' = seen
            /\ (result' = result
                \/ \E r : result' = [result EXCEPT ![job[j].res] = Append(@, r)])
        BY <2>1 DEF JobSend, readVars
      <3> QED
        BY <1>1, <2>1, <3>1
    <2>2. CASE ~JobSend(j)
      BY <1>3, <2>2 DEF Worker, JobRender, JobQuery, JobFails, JobNotify, JobUpdt, JobDone,
                        JobPanics, readVars
    <2> QED
      BY <2>1, <2>2
  <1>4. ASSUME NEW s \in SubIds, Controller(s)
        PROVE  result' = result /\ seen' = seen
    BY <1>4 DEF Controller, CtlAdd, CtlDel, CtlUpdt, CtlWrite, CtlTimer, CtlPoll,
       CtlPollSkipped, CtlExit, readVars
  <1>5. CASE (\E v \in Vars : Change(v)) \/ UNCHANGED vars
    BY <1>5 DEF Change, readVars, vars
  <1> QED
    BY <1>2, <1>3, <1>4, <1>5 DEF Next

\* The results m gets are those of its first query and of its row of a worker.
LEMMA ResultMoves ==
  ASSUME VInv, HasParams, [Next]_vars, NEW m \in Members
  PROVE  \/ result'[m] = result[m] /\ seen'[m] = seen[m]
         \/ Receive(m)
         \/ /\ seen'[m] = seen[m]
            /\ \E r : /\ result'[m] = Append(result[m], r) /\ Timely(m, r)
                      /\ \/ First(m) /\ r.lo = 0
                         \/ \E j \in Jobs : JobSend(j) /\ job[j].res = m /\ r = RowFor(j)
  <1>1. /\ TInv /\ JInv /\ OInv /\ DOMAIN result = Members /\ DOMAIN seen = Members
        /\ db \in [Vars -> 0..MaxVersion] /\ MaxVersion \in Nat
        /\ VarsOf[m] \in Vars
    BY SubsAssumption DEF VInv, KInv, JInv, OInv, RInv, TInv, TypeOK
  <1>2. ASSUME NEW k \in Members, First(k), k = m, result'[m] # result[m]
        PROVE  \E r : result'[m] = Append(result[m], r) /\ Timely(m, r) /\ r.lo = 0
    <2>1. at[m] \in SubIds
      BY <1>1, <1>2 DEF RInv, Registered, JInv, First
    <2>2. JsViews(at[m]) = {None}
      <3>1. js[at[m]] = None
        BY <2>1 DEF VInv, KInv, EverybodysOwn, KeptIsOwn
      <3>2. \A j \in Jobs : ~Keeping(j)
        BY DEF Keeping
      <3> QED
        BY <3>1, <3>2 DEF JsViews
    <2>3. PICK r : /\ r = Query([vars |-> VarsOf[m], lo |-> 0])
                   /\ result' = IF Skipped(r) THEN result
                                ELSE [result EXCEPT ![m] = Append(@, r)]
      BY <1>2, <2>2 DEF First
    <2>4. ~Skipped(r) /\ result'[m] = Append(result[m], r)
      BY <1>1, <1>2, <2>3
    <2>5. [vars |-> VarsOf[m], lo |-> 0] \in Param
      BY <1>1 DEF Param
    <2>6. r \in Result
      BY <1>1, <2>3, <2>5, QueryType DEF TInv
    <2>7. r.vars = VarsOf[m] /\ r.lo = 0
      BY <2>3 DEF Query
    <2>8. r.hi = db[VarsOf[m]]
      BY <2>3, <2>4 DEF Query, Skipped, CursorIn
    <2>9. AtMost(m, r.hi) /\ db[VarsOf[m]] \in Nat
      BY <1>1, <2>8 DEF VInv, ShownInOrder
    <2> QED
      BY <2>4, <2>6, <2>7, <2>8, <2>9 DEF Timely
  <1>3. ASSUME NEW j \in Jobs, JobSend(j), result'[m] # result[m]
        PROVE  /\ job[j].res = m
               /\ result'[m] = Append(result[m], RowFor(j)) /\ Timely(m, RowFor(j))
    <2>1. Busy(j) /\ HasRows(j) /\ Sending(j) /\ job[j].st = "send"
      BY <1>3 DEF JobSend, Busy, HasRows, Sending
    <2>2. job[j].res = m /\ result'[m] = Append(result[m], RowFor(j))
      BY <1>1, <1>3 DEF JobSend
    <2>3. job[j].i \in 1..Size(j) /\ Size(j) = job[j].to - job[j].from /\ OwnWork(job[j])
      BY <1>1, <2>1, BusyFacts DEF Fits, VInv, KInv, EverybodysOwn
    <2>4. WhoseRow(job[j], job[j].i) = m
      BY <2>1, <2>2, <2>3 DEF OwnWork
    <2>5. RowFor(j) = job[j].rows[job[j].i] /\ ~Skipped(RowFor(j))
      BY <2>1 DEF RowFor, VInv, KInv, SendsReal
    <2>6. RowAhead(j, job[j].i)
      BY <2>1, <2>3 DEF VInv, Ahead
    <2>7. RowFor(j).vars = VarsOf[m]
      BY <1>1, <2>1, <2>3, <2>4, <2>5, OwnRow
    <2>8. job[j].i >= job[j].i
      BY <2>3, BusyFacts, <1>1, <2>1
    <2> QED
      BY <2>2, <2>4, <2>5, <2>6, <2>7, <2>8 DEF RowAhead, Timely
  <1> QED
    BY <1>1, <1>2, <1>3, ChannelMoves

\* What is in order stays so when a timely result is appended, ...
LEMMA TimelyAppended ==
  ASSUME NEW m \in Members, NEW r, Timely(m, r), InOrder(m), DOMAIN VarsOf = Members,
         result[m] \in Seq(Result \cup {Torn}), MaxVersion \in Nat,
         result'[m] = Append(result[m], r), seen'[m] = seen[m]
  PROVE  InOrder(m)'
  <1>1. /\ result[m] \in Seq(Result \cup {Torn}) /\ Len(result[m]) \in Nat
        /\ Len(result'[m]) = Len(result[m]) + 1
        /\ result'[m][Len(result[m]) + 1] = r
        /\ \A k \in 1..Len(result[m]) : result'[m][k] = result[m][k]
    OBVIOUS
  <1>2. \A k \in 1..Len(result'[m]) :
           k \in 1..Len(result[m]) \/ k = Len(result[m]) + 1
    BY <1>1
  <1>3. r.hi <= r.hi
    BY DEF Timely, Result
  <1>4. seen'[m] # None => seen'[m] \in Result /\ seen'[m].hi <= r.hi
    BY DEF InOrder, Timely, AtMost
  <1>5. ASSUME NEW k \in 1..Len(result'[m])
        PROVE  /\ result'[m][k] \in Result /\ result'[m][k].vars = VarsOf[m]
               /\ seen'[m] # None => seen'[m].hi <= result'[m][k].hi
    BY <1>1, <1>2, <1>4 DEF InOrder, Timely
  <1>6. ASSUME NEW k \in 1..Len(result'[m]), NEW l \in k..Len(result'[m])
        PROVE  result'[m][k].hi <= result'[m][l].hi
    <2>1. CASE l = Len(result[m]) + 1
      <3>1. k \in 1..Len(result[m]) => result[m][k].hi <= r.hi
        BY DEF Timely, AtMost
      <3> QED
        BY <1>1, <1>2, <1>3, <2>1, <3>1
    <2>2. CASE l # Len(result[m]) + 1
      <3>1. k \in 1..Len(result[m]) /\ l \in k..Len(result[m])
        BY <1>1, <2>2
      <3>2. l \in 1..Len(result[m])
        BY <1>1, <3>1
      <3>3. result[m][k].hi <= result[m][l].hi
        BY <3>1 DEF InOrder
      <3> QED
        BY <1>1, <3>1, <3>2, <3>3
    <2> QED
      BY <2>1, <2>2
  <1> QED
    BY <1>4, <1>5, <1>6 DEF InOrder

\* ... and when the first one is read.
LEMMA ReadInOrder ==
  ASSUME TInv, NEW m \in Members, Receive(m), InOrder(m)
  PROVE  /\ InOrder(m)' /\ seen'[m] \in Result /\ seen'[m].vars = VarsOf[m]
         /\ seen[m] # None => seen[m].hi <= seen'[m].hi
         /\ \A h : AtMost(m, h) => AtMost(m, h)'
         /\ \A k \in Members : k # m => result'[k] = result[k] /\ seen'[k] = seen[k]
  <1>1. /\ result[m] \in Seq(Result \cup {Torn}) /\ result[m] # <<>>
        /\ result'[m] = Tail(result[m]) /\ seen'[m] = Head(result[m])
        /\ \A k \in Members : k # m => result'[k] = result[k] /\ seen'[k] = seen[k]
    BY DEF Receive, TInv, TypeOK
  <1>2. /\ Len(result[m]) \in Nat /\ 1 \in 1..Len(result[m])
        /\ seen'[m] = result[m][1]
        /\ Len(result'[m]) \in Nat /\ Len(result[m]) = Len(result'[m]) + 1
        /\ \A k \in 1..Len(result'[m]) : result'[m][k] = result[m][k + 1]
    BY <1>1
  <1>3. \A k \in 1..Len(result'[m]) :
           /\ k + 1 \in 1..Len(result[m])
           /\ \A l \in k..Len(result'[m]) : l + 1 \in (k + 1)..Len(result[m])
                                            /\ l \in 1..Len(result'[m])
    BY <1>2
  <1>4. seen'[m] \in Result /\ seen'[m].vars = VarsOf[m]
        /\ (seen[m] # None => seen[m].hi <= seen'[m].hi)
    BY <1>2 DEF InOrder
  <1>5. ASSUME NEW k \in 1..Len(result'[m])
        PROVE  /\ result'[m][k] \in Result /\ result'[m][k].vars = VarsOf[m]
               /\ seen'[m].hi <= result'[m][k].hi
               /\ \A l \in k..Len(result'[m]) : result'[m][k].hi <= result'[m][l].hi
    <2>1. k + 1 \in 1..Len(result[m]) /\ k + 1 \in 1..Len(result[m])
      BY <1>3
    <2>2. result[m][1].hi <= result[m][k + 1].hi
      <3>1. k + 1 \in 1..Len(result[m])
        BY <2>1
      <3> QED
        BY <1>2, <3>1 DEF InOrder
    <2>3. ASSUME NEW l \in k..Len(result'[m])
          PROVE  result'[m][k].hi <= result'[m][l].hi
      <3>1. l + 1 \in (k + 1)..Len(result[m]) /\ l \in 1..Len(result'[m])
        BY <1>3
      <3>2. result[m][k + 1].hi <= result[m][l + 1].hi
        BY <2>1, <3>1 DEF InOrder
      <3> QED
        BY <1>2, <3>1, <3>2
    <2> QED
      BY <1>2, <2>1, <2>2, <2>3 DEF InOrder
  <1>6. InOrder(m)'
    BY <1>4, <1>5 DEF InOrder
  <1>7. ASSUME NEW h, AtMost(m, h)
        PROVE  AtMost(m, h)'
    BY <1>2, <1>3, <1>7 DEF AtMost
  <1> QED
    BY <1>1, <1>4, <1>6, <1>7

\* A bound on what was sent to m stays one, unless m is sent something.
LEMMA BoundStays ==
  ASSUME VInv, HasParams, [Next]_vars, NEW m \in Members, NEW h, AtMost(m, h)
  PROVE  AtMost(m, h)' \/ First(m) \/ \E j \in Jobs : JobSend(j) /\ job[j].res = m
  <1>1. TInv /\ InOrder(m)
    BY DEF VInv, KInv, JInv, RInv, ShownInOrder
  <1>2. CASE Receive(m)
    BY <1>1, <1>2, ReadInOrder
  <1>3. CASE result'[m] = result[m] /\ seen'[m] = seen[m]
    BY <1>3 DEF AtMost
  <1> QED
    BY <1>2, <1>3, ResultMoves

\* The data behind m's variables and the order of what it gets.
LEMMA StaysInOrder ==
  ASSUME VInv, HasParams, [Next]_vars
  PROVE  ShownInOrder'
  <1> SUFFICES ASSUME NEW m \in Members
               PROVE  InOrder(m)' /\ AtMost(m, db[VarsOf[m]])'
    BY DEF ShownInOrder
  <1>1. /\ TInv /\ InOrder(m) /\ AtMost(m, db[VarsOf[m]]) /\ VarsOf[m] \in Vars
        /\ DOMAIN VarsOf = Members /\ result[m] \in Seq(Result \cup {Torn})
        /\ MaxVersion \in Nat
    BY SubsAssumption DEF VInv, KInv, JInv, RInv, TInv, TypeOK, ShownInOrder
  <1>2. db[VarsOf[m]] \in Nat /\ db'[VarsOf[m]] \in Nat /\ db[VarsOf[m]] <= db'[VarsOf[m]]
    BY <1>1, DataGrows
  <1>3. PICK h \in Nat : h = db[VarsOf[m]]
    BY <1>2
  <1>4. InOrder(m)' /\ AtMost(m, h)'
    <2>1. CASE result'[m] = result[m] /\ seen'[m] = seen[m]
      BY <1>1, <1>3, <2>1 DEF InOrder, AtMost
    <2>2. CASE Receive(m)
      BY <1>1, <1>3, <2>2, ReadInOrder
    <2>3. ASSUME NEW r, result'[m] = Append(result[m], r), Timely(m, r), seen'[m] = seen[m]
          PROVE  InOrder(m)' /\ AtMost(m, h)'
      <3>1. InOrder(m)'
        BY <1>1, <2>3, TimelyAppended
      <3>2. r.hi <= h
        BY <1>3, <2>3 DEF Timely
      <3>3. \A k \in 1..Len(result'[m]) : \/ result'[m][k] = r
                                         \/ /\ k \in 1..Len(result[m])
                                            /\ result'[m][k] = result[m][k]
        BY <1>1, <2>3
      <3>4. AtMost(m, h)'
        BY <1>1, <1>3, <2>3, <3>2, <3>3 DEF AtMost
      <3> QED
        BY <3>1, <3>4
    <2> QED
      BY <2>1, <2>2, <2>3, ResultMoves
  <1>5. AtMost(m, db[VarsOf[m]])'
    <2>1. \A x \in Result : x.hi \in Nat
      BY <1>1 DEF Result
    <2>2. \A x \in Nat : x <= h => x <= db'[VarsOf[m]]
      BY <1>2, <1>3
    <2> QED
      BY <1>4, <2>1, <2>2 DEF AtMost, InOrder
  <1> QED
    BY <1>4, <1>5

\* The members of a worker are still where it has them.
LEMMA StaysInSlots ==
  ASSUME KInv, [Next]_vars
  PROVE  InSlots'
  <1> SUFFICES ASSUME NEW j \in Jobs, Busy(j)', NEW i \in 1..Size(j)'
               PROVE  /\ job'[j].from + i <= Len(mval'[job'[j].sub].mem)
                      /\ WhoseRow(job[j], i)' = mval'[job'[j].sub].mem[job'[j].from + i].id
    BY DEF InSlots
  <1>1. OInv /\ TInv
    BY DEF KInv, JInv, RInv, OInv
  <1>2. CASE Spawned(j)
    <2>1. /\ job'[j].mem = None /\ mval' = mval /\ job'[j].from \in Nat /\ job'[j].to \in Nat
          /\ job'[j].sub \in SubIds /\ job'[j].to <= Len(mval[job'[j].sub].mem)
      BY <1>2 DEF Spawned
    <2>2. Len(mval[job'[j].sub].mem) \in Nat
      BY SMTT(30), <1>1, <2>1 DEF TInv, TypeOK
    <2>3. i \in 1..(job'[j].to - job'[j].from)
      BY DEF Size
    <2>4. job'[j].from + i <= Len(mval[job'[j].sub].mem)
      BY SMTT(30), <2>1, <2>2, <2>3
    <2>5. WhoseRow(job[j], i)' = mval'[job'[j].sub].mem[job'[j].from + i].id
      BY <2>1 DEF WhoseRow, Source
    <2> QED
      BY <2>1, <2>4, <2>5
  <1>3. CASE GoesOn(j)
    <2>1. /\ Busy(j) /\ job'[j].sub = job[j].sub /\ job'[j].from = job[j].from
          /\ Size(j)' = Size(j)
      BY <1>3 DEF GoesOn, Size
    <2>2. /\ i \in 1..Size(j) /\ WhoseRow(job[j], i)' = WhoseRow(job[j], i)
      BY <1>3, <2>1 DEF GoesOn
    <2>3. /\ job[j].from + i <= Len(mval[job[j].sub].mem)
          /\ WhoseRow(job[j], i) = mval[job[j].sub].mem[job[j].from + i].id
      BY <2>1, <2>2 DEF KInv, InSlots
    <2>4. job[j].from \in Nat /\ Size(j) \in Nat /\ job[j].sub \in SubIds
      BY <1>1, <2>1, BusyFacts
    <2>5. Len(mval[job[j].sub].mem) \in Nat
      BY <1>1, <2>4 DEF TInv, TypeOK
    <2>6. job[j].from + i \in 1..Len(mval[job[j].sub].mem)
      BY <2>2, <2>3, <2>4, <2>5
    <2> QED
      BY <1>1, <2>1, <2>2, <2>3, <2>4, <2>6, SlicesGrow
  <1> QED
    BY <1>1, <1>2, <1>3, JobMoves

\* A worker sends a row that has a cursor, if it should.
LEMMA StaysReal ==
  ASSUME KInv, [Next]_vars
  PROVE  SendsReal'
  <1> SUFFICES ASSUME NEW j \in Jobs, Sending(j)'
               PROVE  ~Skipped(RowFor(j)')
    BY DEF SendsReal, Skipped, CursorIn
  <1>1. OInv /\ TInv /\ job \in [Jobs -> JobType]
    BY DEF KInv, JInv, RInv, OInv, TInv, TypeOK
  <1>2. Busy(j)' /\ ~Spawned(j) /\ HasRows(j)'
    BY DEF HasRows, Busy, Spawned, Sending
  <1>3. GoesOn(j)
    BY <1>1, <1>2, JobMoves
  <1>4. HasRows(j)
    BY <1>1, <1>2, <1>3 DEF GoesOn, JobQuery, Sending, JobType
  <1>5. RowFor(j)' = RowFor(j)
    BY <1>2, <1>3, <1>4 DEF GoesOn, RowFor
  <1>6. ~Skipped(RowFor(j))
    BY <1>2, <1>3, <1>4 DEF GoesOn, KInv, SendsReal
  <1> QED
    BY <1>5, <1>6

\* Each member of a worker gets the row of its own parameter.
LEMMA QueryRows ==
  ASSUME TInv, HasParams, NEW j \in Jobs, JobQuery(j), NEW i \in 1..Size(j)
  PROVE  /\ job[j].params[i] \in Param /\ job'[j].rows[i] = Query(job[j].params[i])
         /\ Busy(j) /\ job[j].st = "query" /\ job'[j].st = "rows" /\ job'[j].i = 1
         /\ job'[j].mem = job[j].mem /\ job'[j].sub = job[j].sub
         /\ job'[j].from = job[j].from /\ job'[j].to = job[j].to
         /\ UNCHANGED <<db, seen, result, mval, updt>>
         /\ \A k \in Jobs : k # j => job'[k] = job[k]
         /\ \A l : WhoseRow(job[j], l)' = WhoseRow(job[j], l)
  <1> DEFINE n == Size(j)
  <1>1. /\ Busy(j) /\ job[j].st = "query" /\ job[j] \in JobType /\ Fits(job[j])
        /\ n \in Nat \ {0} /\ n = job[j].to - job[j].from /\ job \in [Jobs -> JobType]
    <2>1. Busy(j) /\ job[j].st = "query"
      BY DEF JobQuery, Busy
    <2> QED
      BY <2>1, BusyFacts DEF TInv, TypeOK
  <1> DEFINE rs == [k \in 1..RowCount(j) |-> Query(job[j].params[((k - 1) % n) + 1])]
             w == [job[j] EXCEPT !.st = "rows", !.i = 1, !.rows = rs]
  <1>2. job' = [job EXCEPT ![j] = w] /\ UNCHANGED <<db, seen, result, mval, updt>>
    BY DEF JobQuery, readVars, ctlVars
  <1>3. i \in 1..RowCount(j) /\ i \in 1..n /\ ((i - 1) % n) + 1 = i
    <2>1. i \in 1..n
      OBVIOUS
    <2> HIDE DEF n
    <2>2. n * n \in Nat /\ n * n >= n
      BY <1>1
    <2>3. RowCount(j) \in Nat /\ RowCount(j) >= n
      BY <1>1, <2>2 DEF RowCount, n
    <2>4. i - 1 \in 0..(n - 1) /\ (i - 1) % n = i - 1
      BY <1>1, <2>1
    <2> QED
      BY <1>1, <2>1, <2>3, <2>4
  <1>4. rs[i] = Query(job[j].params[i])
    BY <1>3
  <1> HIDE DEF rs
  <1>5. /\ w.st = "rows" /\ w.rows = rs /\ w.mem = job[j].mem /\ w.sub = job[j].sub
        /\ w.from = job[j].from /\ w.to = job[j].to /\ w.i = 1
    BY <1>1 DEF JobType
  <1> HIDE DEF w
  <1>6. job'[j] = w /\ \A k \in Jobs : k # j => job'[k] = job[k]
    BY <1>1, <1>2
  <1>7. job[j].params[i] \in Param
    <2>1. job[j].params \in Seq(Param) /\ Len(job[j].params) = Size(j)
      BY <1>1 DEF JobType, Fits
    <2> QED
      BY <2>1
  <1>8. \A l : WhoseRow(job[j], l)' = WhoseRow(job[j], l)
    BY <1>2, <1>5, <1>6 DEF WhoseRow, Source
  <1> QED
    BY <1>1, <1>2, <1>4, <1>5, <1>6, <1>7, <1>8

\* A query sees the data as it is: nothing sent was newer.
LEMMA QueryAhead ==
  ASSUME VInv, HasParams, NEW j \in Jobs, JobQuery(j), NEW i \in 1..Size(j)
  PROVE  RowAhead(j, i)'
  <1>1. /\ TInv /\ OInv /\ db \in [Vars -> 0..MaxVersion] /\ MaxVersion \in Nat
    BY SubsAssumption DEF VInv, KInv, JInv, RInv, OInv, TInv, TypeOK
  <1>2. PICK p \in Param : p = job[j].params[i] /\ job'[j].rows[i] = Query(p)
    BY <1>1, QueryRows
  <1>3. PICK m \in Members : m = WhoseRow(job[j], i) /\ m = WhoseRow(job[j], i)'
    <2>1. Busy(j) /\ WhoseRow(job[j], i)' = WhoseRow(job[j], i)
      BY <1>1, QueryRows
    <2>2. WhoseRow(job[j], i) \in Members
      BY <1>1, <2>1, WhoseRowType
    <2> QED
      BY <2>1, <2>2
  <1>4. p.vars = VarsOf[m]
    <2>1. Busy(j) /\ job[j].st = "query" /\ Size(j) = job[j].to - job[j].from
      BY <1>1, QueryRows, BusyFacts
    <2>2. OwnWork(job[j])
      BY <2>1 DEF VInv, KInv, EverybodysOwn
    <2> QED
      BY <1>2, <1>3, <2>1, <2>2 DEF OwnWork
  <1>5. UNCHANGED <<db, seen, result>>
    BY <1>1, QueryRows
  <1>6. Query(p) \in Result
    BY <1>1, <1>2, QueryType DEF TInv
  <1>7. Query(p).vars = VarsOf[m] /\ Query(p).hi <= db[VarsOf[m]]
        /\ (~Skipped(Query(p)) => Query(p).hi = db[VarsOf[m]])
    <2>1. db[VarsOf[m]] \in Nat
      BY <1>1, SubsAssumption
    <2> QED
      BY <1>4, <2>1 DEF Query, Skipped, CursorIn
  <1>8. PICK r \in Result : r = Query(p)
    BY <1>6
  <1>9. ASSUME ~Skipped(r)
        PROVE  AtMost(m, r.hi)'
    <2>1. AtMost(m, r.hi)
      <3>1. AtMost(m, db[VarsOf[m]])
        BY DEF VInv, ShownInOrder
      <3> QED
        BY <1>7, <1>8, <1>9, <3>1
    <2> QED
      BY <1>5, <2>1 DEF AtMost
  <1>10. r.hi <= db'[r.vars]
    BY <1>5, <1>7, <1>8
  <1>11. job'[j].rows[i] = r
    BY <1>2, <1>8
  <1> QED
    BY <1>8, <1>9, <1>10, <1>11, <1>3 DEF RowAhead, Skipped, CursorIn, AtMost

\* The rows of a worker are still real, and those it has not sent not behind.
LEMMA StaysAhead ==
  ASSUME VInv, HasParams, NoOverlap, [Next]_vars
  PROVE  Ahead'
  <1>1. KInv /\ OInv /\ TInv /\ job \in [Jobs -> JobType]
    BY DEF VInv, KInv, JInv, RInv, OInv, TInv, TypeOK
  <1> SUFFICES ASSUME NEW j \in Jobs
               PROVE  HasRows(j)' => \A i \in 1..Size(j)' : RowAhead(j, i)'
    BY DEF Ahead
  <1>2. ASSUME HasRows(j)', HasRows(j), GoesOn(j), NEW i \in 1..Size(j)'
        PROVE  RowAhead(j, i)'
    <2>1. /\ Busy(j) /\ i \in 1..Size(j) /\ RowAhead(j, i)
          /\ job'[j].rows = job[j].rows /\ WhoseRow(job[j], i)' = WhoseRow(job[j], i)
      BY <1>2 DEF GoesOn, Size, VInv, Ahead
    <2>2. PICK r \in Result : r = job[j].rows[i] /\ r = job'[j].rows[i]
      BY <2>1 DEF RowAhead
    <2>3. r.hi <= db'[r.vars]
      <3>1. r.vars \in Vars /\ r.hi \in Nat /\ MaxVersion \in Nat
        BY SubsAssumption DEF Result
      <3>2. r.hi <= db[r.vars]
        BY <2>1, <2>2 DEF RowAhead
      <3>3. db[r.vars] \in Nat /\ db'[r.vars] \in Nat /\ db[r.vars] <= db'[r.vars]
        BY <1>1, <3>1, DataGrows
      <3> QED
        BY <3>1, <3>2, <3>3
    <2>4. ASSUME i >= job'[j].i, ~Skipped(r)
          PROVE  AtMost(WhoseRow(job[j], i), r.hi)'
      <3>1. /\ job[j].i \in Nat /\ Size(j) \in Nat /\ i \in Nat
            /\ job'[j].i = job[j].i \/ job'[j].i = job[j].i + 1
            /\ JobSend(j) => job'[j].i = job[j].i + 1
        BY <1>1, <1>2, <2>1, BusyFacts DEF GoesOn
      <3>2. PICK m \in Members : m = WhoseRow(job[j], i) /\ m = WhoseRow(job[j], i)'
        BY <1>1, <2>1, WhoseRowType
      <3>3. AtMost(m, r.hi)
        BY <2>1, <2>2, <2>4, <3>1, <3>2 DEF RowAhead
      <3>4. ~First(m)
        <4>1. pc[m] = "joined"
          BY <1>1, <2>1, <3>2, JobMembers
        <4> QED
          BY <4>1 DEF First
      <3>5. ASSUME NEW k \in Jobs, JobSend(k), job[k].res = m
            PROVE  FALSE
        <4>1. Busy(k) /\ job[k].st = "send"
          BY <3>5 DEF JobSend, Busy
        <4>2. /\ job[k].i \in 1..Size(k) /\ Size(k) = job[k].to - job[k].from
              /\ OwnWork(job[k])
          BY <1>1, <4>1, BusyFacts DEF Fits, VInv, KInv, EverybodysOwn
        <4>3. WhoseRow(job[k], job[k].i) = WhoseRow(job[j], i)
          BY <3>2, <3>5, <4>1, <4>2 DEF OwnWork
        <4>4. k = j /\ job[k].i = i
          BY <1>1, <2>1, <4>1, <4>2, <4>3, OneWorker
        <4> QED
          BY <2>4, <3>1, <3>5, <4>4
      <3>6. AtMost(m, r.hi)'
        BY <3>3, <3>4, <3>5, BoundStays
      <3> QED
        BY <3>2, <3>6 DEF AtMost
    <2> QED
      BY <2>2, <2>3, <2>4 DEF RowAhead, Skipped, CursorIn
  <1>3. ASSUME HasRows(j)'
        PROVE  \A i \in 1..Size(j)' : RowAhead(j, i)'
    <2>1. Busy(j)' /\ ~Spawned(j)
      BY <1>3 DEF HasRows, Busy, Spawned
    <2>2. GoesOn(j)
      BY <1>1, <2>1, JobMoves
    <2>3. Size(j)' = Size(j)
      BY <2>2 DEF GoesOn, Size
    <2> QED
      BY <1>2, <1>3, <2>2, <2>3, QueryAhead DEF GoesOn
  <1> QED
    BY <1>3

\* It holds at the beginning, when nothing was sent, ...
LEMMA InitVInv ==
  ASSUME Init
  PROVE  VInv
  <1>1. JInv /\ EverybodysOwn
    BY InitJInv, InitOInv DEF OInv
  <1>2. \A j \in Jobs : ~Busy(j) /\ ~HasRows(j) /\ ~Sending(j)
    BY DEF Init, Busy, HasRows, Sending, IdleJob
  <1>3. ShownInOrder
    BY DEF Init, ShownInOrder, InOrder, AtMost
  <1> QED
    BY <1>1, <1>2, <1>3 DEF VInv, KInv, InSlots, SendsReal, Ahead

\* ... and no step between workers that do not overlap breaks it.
LEMMA NextVInv ==
  ASSUME VInv, HasParams, NoOverlap, [Next]_vars, Leavers = {}
  PROVE  VInv'
  <1>1. JInv /\ OInv
    BY DEF VInv, KInv, JInv, OInv
  <1>2. JInv' /\ OInv'
    BY <1>1, NextJInv, NextOInv
  <1> QED
    BY <1>2, StaysInOrder, StaysInSlots, StaysReal, StaysAhead DEF VInv, KInv, OInv

\* What a client reads is a step of the promise.
LEMMA OrderStep ==
  ASSUME VInv, [Next]_vars
  PROVE  [LQ!Next]_LQ!vars
  <1> DEFINE view == [m \in Members |->
                       IF seen[m] = None THEN None
                       ELSE [vars |-> seen[m].vars, version |-> seen[m].hi]]
  <1>1. TInv
    BY DEF VInv, KInv, JInv, RInv
  <1>2. ASSUME NEW v \in Vars, Change(v), seen' = seen
        PROVE  LQ!Publish(v)
    BY <1>2 DEF Change, LQ!Publish
  <1>3. ASSUME NEW m \in Members, Receive(m), db' = db
        PROVE  LQ!Show(m)
    <2>1. /\ InOrder(m) /\ AtMost(m, db[VarsOf[m]]) /\ result[m] # <<>>
          /\ seen' = [seen EXCEPT ![m] = Head(result[m])]
          /\ result[m] \in Seq(Result \cup {Torn}) /\ DOMAIN seen = Members
          /\ db[VarsOf[m]] \in Nat /\ MaxVersion \in Nat
      <3>1. InOrder(m) /\ AtMost(m, db[VarsOf[m]])
        BY DEF VInv, ShownInOrder
      <3>2. result[m] # <<>> /\ seen' = [seen EXCEPT ![m] = Head(result[m])]
        BY <1>3 DEF Receive
      <3>3. /\ result \in [Members -> Seq(Result \cup {Torn})] /\ DOMAIN seen = Members
            /\ db \in [Vars -> 0..MaxVersion]
        BY <1>1 DEF TInv, TypeOK
      <3>4. VarsOf[m] \in Vars /\ MaxVersion \in Nat
        BY SubsAssumption
      <3>5. db[VarsOf[m]] \in Nat
        BY <3>3, <3>4
      <3> QED
        BY <3>1, <3>2, <3>3, <3>4, <3>5
    <2>2. PICK r \in Result : r = result[m][1]
      <3>1. 1 \in 1..Len(result[m])
        BY <2>1
      <3> QED
        BY <2>1, <3>1 DEF InOrder
    <2>3. /\ r.vars = VarsOf[m] /\ r.hi \in 0..db[VarsOf[m]] /\ r # None
          /\ seen[m] # None => r.hi >= seen[m].hi
          /\ seen' = [seen EXCEPT ![m] = r]
      <3>1. 1 \in 1..Len(result[m]) /\ Head(result[m]) = result[m][1]
        BY <2>1
      <3>2. r.hi \in Nat /\ (seen[m] # None => seen[m].hi \in Nat)
        BY <2>1 DEF InOrder, Result
      <3> QED
        BY <2>1, <2>2, <3>1, <3>2, NilAssumption DEF InOrder, AtMost
    <2>4. view' = [view EXCEPT ![m] = [vars |-> VarsOf[m], version |-> r.hi]]
      BY <2>1, <2>3
    <2>5. view[m] # None => r.hi >= view[m].version
      BY <2>3
    <2> QED
      BY <1>3, <2>3, <2>4, <2>5 DEF LQ!Show
  <1>4. CASE UNCHANGED <<db, seen>>
    BY <1>4 DEF LQ!vars
  <1> QED
    BY <1>1, <1>2, <1>3, <1>4, DataMoves DEF LQ!Next

\* As long as nobody unsubscribes and no poll overtakes the workers of an earlier
\* one, a live query keeps its promise: what a client is shown is its own data, as
\* it really was, and never older than what it was shown before.
THEOREM ShowsInOrder ==
  ASSUME HasParams, Leavers = {}
  PROVE  Spec /\ []NoOverlap => ShowsOwnDataInOrder
  <1>1. Init => LQ!Init
    BY DEF Init, LQ!Init
  <1>2. Init => VInv
    BY InitVInv
  <1>3. VInv /\ NoOverlap /\ [Next]_vars => VInv'
    BY NextVInv
  <1>4. VInv /\ [Next]_vars => [LQ!Next]_LQ!vars
    BY OrderStep
  <1> QED
    BY <1>1, <1>2, <1>3, <1>4, PTL DEF Spec, ShowsOwnDataInOrder, LQ!Spec

-----------------------------------------------------------------------------
(* Cursor feeds.  The rows up to the cursor a worker asked with were sent to   *)
(* its member (CursorsPast), what was sent ends where the last result did      *)
(* (ShownInOrder): so a result the worker sends starts no later than that.     *)

\* A result of m that starts after the row x leaves no gap, if sent now.
Reached(m, x) ==
  IF result[m] # <<>> THEN x <= result[m][Len(result[m])].hi
  ELSE seen[m] # None => x <= seen[m].hi

\* The rows m was shown end where its last result did, and what waits in its
\* channel goes on from there.
InChain(m) ==
  /\ \A x \in rows[m] : seen[m] # None /\ x <= seen[m].hi
  /\ \A k \in 1..Len(result[m]) :
       /\ k = 1 /\ seen[m] # None => result[m][k].lo <= seen[m].hi
       /\ k + 1 \in 1..Len(result[m]) => result[m][k + 1].lo <= result[m][k].hi

\* The invariant behind LeavesNoGaps.
GInv == LInv /\ VInv /\ \A m \in Members : InChain(m)

\* Only one worker sends to a member.
LEMMA OneSender ==
  ASSUME KInv, NoOverlap, NEW m \in Members, NEW j \in Jobs, NEW k \in Jobs,
         Sending(j), job[j].res = m, Sending(k), job[k].res = m
  PROVE  j = k
  <1>1. ASSUME NEW l \in Jobs, Sending(l)
        PROVE  /\ Busy(l) /\ job[l].i \in 1..Size(l)
               /\ job[l].res = WhoseRow(job[l], job[l].i)
    <2>1. Busy(l) /\ TInv
      BY <1>1 DEF Sending, Busy, KInv, JInv, RInv
    <2>2. job[l].i \in 1..Size(l) /\ Size(l) = job[l].to - job[l].from /\ OwnWork(job[l])
      BY <1>1, <2>1, BusyFacts DEF Sending, Fits, KInv, EverybodysOwn
    <2> QED
      BY <1>1, <2>1, <2>2 DEF OwnWork, Sending
  <1> QED
    BY <1>1, OneWorker

\* The rows that were sent to m, but for those in the hands of a worker, are reached.
LEMMA SentIsReached ==
  ASSUME GInv, NEW m \in Members, NEW x \in Nat,
         \/ x = 0
         \/ x \in rows[m]
         \/ \E i \in 1..Len(result[m]) : x \in RowsOf(result[m][i])
  PROVE  Reached(m, x)
  <1>1. PICK q \in Seq(Result \cup {Torn}) : q = result[m]
    BY DEF GInv, VInv, KInv, JInv, RInv, TInv, TypeOK
  <1>2. /\ seen[m] # None => seen[m] \in Result
        /\ \A k \in 1..Len(q) :
             /\ q[k] \in Result
             /\ seen[m] # None => seen[m].hi <= q[k].hi
             /\ \A l \in k..Len(q) : q[k].hi <= q[l].hi
    BY <1>1 DEF GInv, VInv, ShownInOrder, InOrder
  <1>3. \A r \in Result : r.lo \in Nat /\ r.hi \in Nat
    BY SubsAssumption DEF Result
  <1>4. Len(q) \in Nat /\ (q # <<>> => Len(q) \in 1..Len(q))
    OBVIOUS
  <1>5. q # <<>> => q[Len(q)] \in Result /\ q[Len(q)].hi \in Nat
    BY <1>2, <1>3, <1>4
  <1>6. CASE x = 0
    BY <1>1, <1>2, <1>3, <1>5, <1>6 DEF Reached
  <1>7. CASE x \in rows[m]
    <2>1. seen[m] # None /\ x <= seen[m].hi /\ seen[m].hi \in Nat
      BY <1>2, <1>3, <1>7 DEF GInv, InChain
    <2>2. q # <<>> => seen[m].hi <= q[Len(q)].hi
      BY <1>2, <1>4, <2>1
    <2>3. q # <<>> => x <= q[Len(q)].hi
      BY <1>5, <2>1, <2>2
    <2> QED
      BY <1>1, <2>1, <2>3 DEF Reached
  <1>8. ASSUME NEW i \in 1..Len(q), x \in RowsOf(q[i])
        PROVE  Reached(m, x)
    <2>1. q[i] \in Result /\ q[i].hi \in Nat /\ q[i].lo \in Nat
      BY <1>2, <1>3
    <2>2. x <= q[i].hi
      BY <1>8, <2>1 DEF RowsOf
    <2>3. q # <<>> /\ Len(q) \in i..Len(q)
      BY <1>4
    <2>4. q[i].hi <= q[Len(q)].hi
      BY <1>2, <2>3
    <2>5. x <= q[Len(q)].hi
      BY <1>5, <2>1, <2>2, <2>3, <2>4
    <2> QED
      BY <1>1, <2>3, <2>5 DEF Reached
  <1> QED
    BY <1>1, <1>6, <1>7, <1>8

\* The result a worker sends starts where something sent before ended, or earlier.
LEMMA SendsReached ==
  ASSUME GInv, HasParams, NoOverlap, NEW m \in Members, NEW j \in Jobs, JobSend(j),
         job[j].res = m
  PROVE  Reached(m, RowFor(j).lo)
  <1>1. TInv /\ KInv
    BY DEF GInv, VInv, KInv, JInv, RInv
  <1>2. Busy(j) /\ HasRows(j) /\ Sending(j) /\ job[j].st = "send"
    BY DEF JobSend, Busy, HasRows, Sending
  <1>3. /\ job[j].i \in 1..Size(j) /\ Size(j) = job[j].to - job[j].from
        /\ OwnWork(job[j]) /\ WorkPast(job[j])
    BY <1>1, <1>2, BusyFacts DEF Fits, KInv, EverybodysOwn, GInv, LInv, CursorsPast
  <1>4. WhoseRow(job[j], job[j].i) = m
    BY <1>2, <1>3 DEF OwnWork
  <1>5. PICK r \in Result : r = RowFor(j) /\ r = job[j].rows[job[j].i]
    <2>1. RowAhead(j, job[j].i)
      BY <1>2, <1>3 DEF GInv, VInv, Ahead
    <2> QED
      BY <2>1 DEF RowAhead, RowFor
  <1>6. r.lo \in Nat /\ r.hi \in Nat
    BY SubsAssumption DEF Result
  <1>7. Past(m, r.lo)
    BY <1>2, <1>3, <1>4, <1>5 DEF WorkPast
  <1>8. ASSUME r.lo # 0
        PROVE  \/ r.lo \in rows[m]
               \/ \E i \in 1..Len(result[m]) : r.lo \in RowsOf(result[m][i])
    <2>1. r.lo \in SentTo(m)
      BY <1>6, <1>7, <1>8 DEF Past
    <2>2. ASSUME NEW k \in Jobs, Sending(k), job[k].res = m, r.lo \in RowsOf(RowFor(k))
          PROVE  FALSE
      <3>1. k = j
        BY <1>1, <1>2, <2>2, OneSender
      <3>2. r.lo \notin RowsOf(r)
        BY <1>6 DEF RowsOf
      <3> QED
        BY <1>5, <2>2, <3>1, <3>2
    <2> QED
      BY <2>1, <2>2, SentToMeans DEF InSentTo
  <1> QED
    BY <1>5, <1>6, <1>8, SentIsReached

\* A chain goes on when a result is appended that starts within its reach, ...
LEMMA AppendedInChain ==
  ASSUME NEW m \in Members, NEW r, InChain(m), result[m] \in Seq(Result \cup {Torn}),
         result'[m] = Append(result[m], r), seen'[m] = seen[m], rows'[m] = rows[m],
         Reached(m, r.lo)
  PROVE  InChain(m)'
  <1>1. PICK q \in Seq(Result \cup {Torn}) : q = result[m]
    OBVIOUS
  <1>2. PICK n \in Nat : n = Len(q) /\ (n = 0 <=> q = <<>>)
    OBVIOUS
  <1>3. PICK x : x = Append(q, r)
    OBVIOUS
  <1>4. /\ result'[m] = x /\ Len(x) = n + 1 /\ x[n + 1] = r
        /\ \A k \in 1..n : x[k] = q[k]
    BY <1>1, <1>2, <1>3
  <1>5. \A k \in 1..n : /\ k = 1 /\ seen[m] # None => q[k].lo <= seen[m].hi
                        /\ k + 1 \in 1..n => q[k + 1].lo <= q[k].hi
    BY <1>1, <1>2 DEF InChain
  <1>6. /\ n = 0 /\ seen[m] # None => r.lo <= seen[m].hi
        /\ n # 0 => r.lo <= q[n].hi
    BY <1>1, <1>2 DEF Reached
  <1>7. ASSUME NEW k \in 1..(n + 1)
        PROVE  /\ k = 1 /\ seen[m] # None => x[k].lo <= seen[m].hi
               /\ k + 1 \in 1..(n + 1) => x[k + 1].lo <= x[k].hi
    <2>1. CASE k = n + 1
      <3>1. k = 1 => n = 0
        BY <2>1
      <3>2. k + 1 \notin 1..(n + 1)
        BY <2>1
      <3> QED
        BY <1>4, <1>6, <2>1, <3>1, <3>2
    <2>2. CASE k = n /\ n # 0
      BY <1>4, <1>5, <1>6, <2>2
    <2>3. CASE k # n + 1 /\ k # n
      <3>1. k \in 1..n /\ k + 1 \in 1..n
        BY <2>3
      <3> QED
        BY <1>4, <1>5, <3>1
    <2> QED
      BY <2>1, <2>2, <2>3
  <1>8. \A k \in 1..Len(x) : /\ k = 1 /\ seen[m] # None => x[k].lo <= seen[m].hi
                             /\ k + 1 \in 1..Len(x) => x[k + 1].lo <= x[k].hi
    BY <1>4, <1>7
  <1>9. \A y \in rows[m] : seen[m] # None /\ y <= seen[m].hi
    BY DEF InChain
  <1> QED
    BY <1>4, <1>8, <1>9 DEF InChain

\* ... and when the first one is read: it leaves no gap.
LEMMA ReadInChain ==
  ASSUME TInv, NEW m \in Members, Receive(m), InChain(m), InOrder(m)
  PROVE  /\ InChain(m)'
         /\ seen[m] # None => seen'[m].lo <= seen[m].hi
         /\ \A k \in Members : k # m => /\ result'[k] = result[k] /\ seen'[k] = seen[k]
                                        /\ rows'[k] = rows[k]
  <1>1. PICK q \in Seq(Result \cup {Torn}) : q = result[m]
    BY DEF TInv, TypeOK
  <1>2. /\ q # <<>> /\ result' = [result EXCEPT ![m] = Tail(q)]
        /\ seen' = [seen EXCEPT ![m] = Head(q)]
        /\ rows' = [rows EXCEPT ![m] = @ \cup RowsOf(Head(q))]
    BY <1>1 DEF Receive
  <1>3. /\ DOMAIN result = Members /\ DOMAIN seen = Members /\ DOMAIN rows = Members
        /\ rows[m] \subseteq Nat
    BY SubsAssumption DEF TInv, TypeOK
  <1>4. /\ result'[m] = Tail(q) /\ seen'[m] = q[1] /\ 1 \in 1..Len(q)
        /\ rows'[m] = rows[m] \cup RowsOf(q[1])
        /\ \A k \in Members : k # m => /\ result'[k] = result[k] /\ seen'[k] = seen[k]
                                       /\ rows'[k] = rows[k]
    BY <1>2, <1>3
  <1>5. \A k \in 1..Len(Tail(q)) : k + 1 \in 1..Len(q) /\ Tail(q)[k] = q[k + 1]
    BY <1>2
  <1>6. \A k \in 1..Len(q) : /\ k = 1 /\ seen[m] # None => q[k].lo <= seen[m].hi
                             /\ k + 1 \in 1..Len(q) => q[k + 1].lo <= q[k].hi
    BY <1>1 DEF InChain
  <1>7. /\ q[1] \in Result /\ q[1] # None
        /\ seen[m] # None => seen[m] \in Result /\ seen[m].hi <= q[1].hi
    BY <1>1, <1>4, NilAssumption DEF InOrder
  <1>8. \A r \in Result : r.lo \in Nat /\ r.hi \in Nat
    BY SubsAssumption DEF Result
  <1>9. ASSUME NEW y \in rows'[m]
        PROVE  y <= q[1].hi
    <2>1. CASE y \in rows[m]
      <3>1. seen[m] # None /\ y <= seen[m].hi
        BY <2>1 DEF InChain
      <3>2. y \in Nat /\ seen[m].hi \in Nat /\ q[1].hi \in Nat /\ seen[m].hi <= q[1].hi
        BY <1>3, <1>7, <1>8, <2>1, <3>1
      <3> QED
        BY <3>1, <3>2
    <2>2. CASE y \in RowsOf(q[1])
      <3>1. q[1].lo \in Nat /\ q[1].hi \in Nat
        BY <1>7, <1>8
      <3> QED
        BY <2>2, <3>1 DEF RowsOf
    <2> QED
      BY <1>4, <2>1, <2>2
  <1>10. PICK x : x = Tail(q)
    OBVIOUS
  <1>11. ASSUME NEW k \in 1..Len(x)
         PROVE  /\ k = 1 => x[k].lo <= q[1].hi
                /\ k + 1 \in 1..Len(x) => x[k + 1].lo <= x[k].hi
    BY <1>4, <1>5, <1>6, <1>10
  <1>12. InChain(m)'
    BY <1>4, <1>7, <1>9, <1>10, <1>11 DEF InChain
  <1> QED
    BY <1>4, <1>6, <1>12

\* It holds at the beginning, when nothing was sent, ...
LEMMA InitGInv ==
  ASSUME Init
  PROVE  GInv
  <1>1. \A m \in Members : InChain(m)
    BY DEF Init, InChain
  <1> QED
    BY <1>1, InitLInv, InitVInv DEF GInv

\* ... and no step breaks it.
LEMMA NextGInv ==
  ASSUME GInv, HasParams, NoOverlap, [Next]_vars, Leavers = {}, ~SlowReaders
  PROVE  GInv'
  <1>1. LInv /\ VInv /\ TInv
    BY DEF GInv, VInv, KInv, JInv, RInv
  <1>2. LInv' /\ VInv'
    BY <1>1, NextLInv, NextVInv
  <1>3. ASSUME NEW m \in Members
        PROVE  InChain(m)'
    <2>1. InChain(m) /\ InOrder(m) /\ result[m] \in Seq(Result \cup {Torn})
      BY <1>1 DEF GInv, VInv, ShownInOrder, TInv, TypeOK
    <2>2. CASE Receive(m)
      BY <1>1, <2>1, <2>2, ReadInChain
    <2>3. CASE ~Receive(m)
      <3>1. rows'[m] = rows[m]
        BY <1>1, <2>3, ResultsStep
      <3>2. CASE result'[m] = result[m] /\ seen'[m] = seen[m]
        BY <2>1, <3>1, <3>2 DEF InChain
      <3>3. ASSUME NEW r, result'[m] = Append(result[m], r), seen'[m] = seen[m],
                   \/ First(m) /\ r.lo = 0
                   \/ \E j \in Jobs : JobSend(j) /\ job[j].res = m /\ r = RowFor(j)
            PROVE  InChain(m)'
        <4>1. Reached(m, r.lo)
          <5>1. CASE First(m) /\ r.lo = 0
            BY <5>1, SentIsReached
          <5>2. CASE \E j \in Jobs : JobSend(j) /\ job[j].res = m /\ r = RowFor(j)
            BY <5>2, SendsReached
          <5> QED
            BY <3>3, <5>1, <5>2
        <4> QED
          BY <2>1, <3>1, <3>3, <4>1, AppendedInChain
      <3> QED
        BY <1>1, <2>3, <3>2, <3>3, ResultMoves
    <2> QED
      BY <2>2, <2>3
  <1> QED
    BY <1>2, <1>3 DEF GInv

\* As long as nobody unsubscribes or reads slowly, and no poll overtakes the workers
\* of an earlier one, no row is left out between two results a client reads: not when
\* the cursor a poll asks with is behind the rows sent, nor when a query fails.
THEOREM LeavesNoGaps ==
  ASSUME HasParams, Leavers = {}, ~SlowReaders
  PROVE  Spec /\ []NoOverlap => NoGaps
  <1>1. Init => GInv
    BY InitGInv
  <1>2. GInv /\ NoOverlap /\ [Next]_vars => GInv'
    BY NextGInv
  <1>3. GInv /\ [Next]_vars =>
          [\A m \in Members : Receive(m) /\ seen[m] # None => seen'[m].lo <= seen[m].hi]_vars
    <2> SUFFICES ASSUME GInv, [Next]_vars, NEW m \in Members, Receive(m), seen[m] # None
                 PROVE  seen'[m].lo <= seen[m].hi
      OBVIOUS
    <2>1. TInv /\ InChain(m) /\ InOrder(m)
      BY DEF GInv, VInv, KInv, JInv, RInv, ShownInOrder
    <2> QED
      BY <2>1, ReadInChain
  <1> QED
    BY <1>1, <1>2, <1>3, PTL DEF Spec, NoGaps

=============================================================================
