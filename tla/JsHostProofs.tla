---------------------------- MODULE JsHostProofs ----------------------------
(***************************************************************************)
(* Proofs about JsHost: a call returns what its own handler returned, no    *)
(* handler waits, and a goroutine that sleeps has a timeout to wake it.     *)
(*                                                                          *)
(* Frames are nested as JavaScript and Go call each other (Chain); each one *)
(* of Go runs the event it was begun for (Right); the event that is pending *)
(* is that of the innermost frame, and an answer finds the goroutine that   *)
(* waits for it (Pending); the timeouts of the host and of the table are    *)
(* the one that Go knows of, unless it has just fired (Timeouts).           *)
(***************************************************************************)
EXTENDS JsHost, SequenceTheorems, TLAPS

Events == [fn : {"call", "exec", "data", "then", "catch"}, of : Calls, no : Nat]

GoFrames == [kind : {"go"}, ev : Events \cup {None}, timer : Nat \cup {None},
             phase : {"take", "handler", "after", "blocked"}, taken : Events \cup {None}]
JsFrames == [kind : {"new", "callback"}, of : Calls, ran : BOOLEAN]
Frames   == GoFrames \cup JsFrames

Results == {NoValue, ErrorValue} \cup {Promise(c) : c \in Calls}

DataTypes ==
  /\ exited \in BOOLEAN
  /\ pc \in [Calls -> {"none", "start", "await", "answered", "sleep", "full", "due", "done"}]
  /\ promise \in [Calls -> {"none", "pending", "fulfilled", "rejected"}]
  /\ db \in [Calls -> {"none", "pending", "settled"}]
  /\ tries \in [Calls -> Nat]
  /\ got \in [Calls -> Results \cup {NotYet, Threw}]
  /\ result \in [Calls -> Results]
  /\ nextId \in Nat
  /\ idle \in [id : Nat, for : Calls \cup {None}] \cup {None}
Types == stack \in Seq(Frames) /\ pendingEvent \in Events \cup {None} /\ DataTypes

Answers == \A c \in Calls : got[c] \in {NotYet, Threw, Returned(c)}

(* The frames of a stack s. *)

Last(s)   == s[Len(s)]
Put(s, f) == [s EXCEPT ![Len(s)] = f]
Pop(s)    == SubSeq(s, 1, Len(s) - 1)

\* The frame g may be on the frame f.
On(f, g) ==
  \/ /\ f.kind = "go" /\ f.phase = "handler" /\ f.taken # None /\ f.taken.fn = "call"
     /\ g.kind = "new" /\ g.of = f.taken.of /\ g.of \notin Invalid \cup Panicking
  \/ f.kind = "go" /\ f.phase = "after" /\ g.kind = "callback"
  \/ /\ f.kind # "go" /\ (f.kind = "new" => f.ran)
     /\ g.kind = "go" /\ g.timer = None

Chain(s) ==
  /\ s # <<>> => s[1].kind = "go"
  /\ \A k \in 1..Len(s) : k # Len(s) => On(s[k], s[k + 1])

\* A frame of Go runs what it was begun for, and has its result in the end.
Right(f, res) ==
  f.kind = "go" =>
    /\ f.ev # None => f.timer = None
    /\ f.phase = "handler" => f.ev # None
    /\ f.phase \in {"handler", "after"} /\ f.ev # None => f.taken = f.ev
    /\ f.phase = "after" /\ f.ev # None /\ f.ev.fn = "call" =>
         res[f.ev.of] = Returned(f.ev.of)

\* Its timeout is older than the next one, and none that Go still knows once it ran.
Old(f, id, known) ==
  f.kind = "go" /\ f.timer # None =>
    /\ f.timer < id
    /\ f.phase # "take" /\ known # None => f.timer # known.id

Blocked(f) == f.kind = "go" /\ f.phase = "blocked"

AllRight(s, res)      == \A k \in 1..Len(s) : Right(s[k], res)
AllOld(s, id, known)  == \A k \in 1..Len(s) : Old(s[k], id, known)
NoneBlocked(s)        == \A k \in 1..Len(s) : ~Blocked(s[k])

Taking(s) == s # <<>> /\ Last(s).kind = "go" /\ Last(s).phase = "take"
Fired(s)  == Taking(s) /\ Last(s).ev = None

\* A promise is made and its goroutine started once; one that asked the database waits.
Orderly ==
  \A c \in Calls :
    /\ promise[c] = "none" => db[c] = "none" /\ pc[c] = "none"
    /\ db[c] = "pending" => pc[c] = "await"

Begins(c, prom, d) == prom[c] # "none" /\ d[c] = "none"

\* What holds until the event ev is handled: the goroutine that an answer is for waits.
Ready(ev, prom, p, d) ==
  /\ ev.fn = "call" => prom[ev.of] = "none"
  /\ ev.fn = "exec" => Begins(ev.of, prom, d)
  /\ ev.fn \in {"then", "catch"} => p[ev.of] = "await" /\ d[ev.of] # "pending"

\* The event that is pending is that of the innermost frame.
Pending ==
  /\ pendingEvent = IF Taking(stack) THEN Top.ev ELSE None
  /\ stack # <<>> /\ Top.kind = "go" /\ Top.phase \in {"take", "handler"} /\ Top.ev # None
       => Ready(Top.ev, promise, pc, db)
  /\ stack # <<>> /\ Top.kind = "new" /\ ~Top.ran => Begins(Top.of, promise, db)
  /\ Orderly

Timeouts ==
  /\ idle # None => idle.id < nextId
  /\ Fired(stack) => /\ idle # None /\ Top.timer = idle.id
                     /\ scheduled = {idle.id} /\ hostTimers = {}
  /\ ~Fired(stack) => /\ scheduled = hostTimers
                      /\ hostTimers = (IF idle = None THEN {} ELSE {idle.id})
  /\ stack = <<>> /\ Sleepers # {} => idle # None

Live ==
  /\ Chain(stack) /\ AllRight(stack, result) /\ AllOld(stack, nextId, idle)
  /\ Pending /\ Timeouts

HostInv == Types /\ Answers /\ NoneBlocked(stack) /\ (~exited => Live)
-----------------------------------------------------------------------------
(* Sequences of frames. *)

LEMMA PutIsSeq ==
  ASSUME NEW s \in Seq(Frames), s # <<>>, NEW f \in Frames
  PROVE  /\ Put(s, f) \in Seq(Frames) /\ Put(s, f) # <<>>
         /\ Len(Put(s, f)) = Len(s) /\ Last(Put(s, f)) = f
         /\ \A k \in 1..Len(s) : Put(s, f)[k] = IF k = Len(s) THEN f ELSE s[k]
<1>1. Len(s) \in Nat \ {0}
  BY EmptySeq
<1>2. Put(s, f) \in Seq(Frames) /\ Len(Put(s, f)) = Len(s)
      /\ \A k \in 1..Len(s) : Put(s, f)[k] = IF k = Len(s) THEN f ELSE s[k]
  <2>1. Len(s) \in 1..Len(s)
    BY <1>1
  <2>2. [s EXCEPT ![Len(s)] = f] \in Seq(Frames) /\ Len([s EXCEPT ![Len(s)] = f]) = Len(s)
        /\ \A k \in 1..Len(s) : [s EXCEPT ![Len(s)] = f][k] = IF k = Len(s) THEN f ELSE s[k]
    BY <2>1, ExceptSeq
  <2> QED  BY <2>2, Zenon DEF Put
<1> QED  BY <1>1, <1>2 DEF Last

LEMMA PushIsSeq ==
  ASSUME NEW s \in Seq(Frames), NEW f \in Frames
  PROVE  /\ Append(s, f) \in Seq(Frames) /\ Append(s, f) # <<>>
         /\ Len(Append(s, f)) = Len(s) + 1 /\ Last(Append(s, f)) = f
         /\ \A k \in 1..Len(s) : Append(s, f)[k] = s[k]
BY AppendProperties DEF Last

LEMMA PopIsSeq ==
  ASSUME NEW s \in Seq(Frames), s # <<>>
  PROVE  /\ Pop(s) \in Seq(Frames)
         /\ Len(Pop(s)) = Len(s) - 1
         /\ \A k \in 1..(Len(s) - 1) : Pop(s)[k] = s[k]
         /\ Pop(s) = <<>> <=> Len(s) = 1
<1>1. Len(s) \in Nat \ {0}
  BY EmptySeq
<1>2. \A k \in 1..(Len(s) - 1) : s[k] \in Frames
  BY <1>1, ElementOfSeq
<1>3. Pop(s) \in Seq(Frames) /\ Len(Pop(s)) = Len(s) - 1
      /\ \A k \in 1..(Len(s) - 1) : Pop(s)[k] = s[k]
  <2>1. Len(s) - 1 \in Nat
    BY <1>1
  <2> DEFINE n == Len(s) - 1
  <2> HIDE DEF n
  <2>2. n \in Int /\ \A k \in 1..n : s[k] \in Frames
    BY <1>2, <2>1 DEF n
  <2>3. /\ SubSeq(s, 1, n) \in Seq(Frames)
        /\ Len(SubSeq(s, 1, n)) = IF 1 <= n THEN n - 1 + 1 ELSE 0
        /\ \A k \in 1..(n - 1 + 1) : SubSeq(s, 1, n)[k] = s[1 + k - 1]
    BY <2>2, SubSeqProperties
  <2>4. \A k \in 1..n : SubSeq(s, 1, n)[k] = s[k]
    BY <2>2, <2>3
  <2>5. Len(SubSeq(s, 1, n)) = n
    <3>1. n \in Nat
      BY <2>1 DEF n
    <3> QED  BY <2>3, <3>1
  <2> QED  BY <2>3, <2>4, <2>5 DEF Pop, n
<1> QED  BY <1>1, <1>3, EmptySeq

LEMMA LastIsFrame ==
  ASSUME NEW s \in Seq(Frames), s # <<>>
  PROVE  Last(s) \in Frames /\ Len(s) \in Nat \ {0}
BY EmptySeq, ElementOfSeq DEF Last

LEMMA KindOfFrame ==
  ASSUME NEW f \in Frames
  PROVE  /\ f.kind \in {"go", "new", "callback"}
         /\ f.kind = "go" <=> f \in GoFrames
         /\ f.kind # "go" <=> f \in JsFrames
BY DEF Frames, GoFrames, JsFrames

\* What holds of each frame holds after one is added, changed or removed.
LEMMA FramesKeep ==
  ASSUME NEW s \in Seq(Frames), NEW f \in Frames
  PROVE  /\ NoneBlocked(s) /\ ~Blocked(f) => NoneBlocked(Append(s, f))
         /\ s # <<>> /\ NoneBlocked(s) /\ ~Blocked(f) => NoneBlocked(Put(s, f))
         /\ s # <<>> /\ NoneBlocked(s) => NoneBlocked(Pop(s))
         /\ \A res : AllRight(s, res) /\ Right(f, res) => AllRight(Append(s, f), res)
         /\ \A res : s # <<>> /\ AllRight(s, res) /\ Right(f, res) => AllRight(Put(s, f), res)
         /\ \A res : s # <<>> /\ AllRight(s, res) => AllRight(Pop(s), res)
         /\ \A id, known : AllOld(s, id, known) /\ Old(f, id, known)
                             => AllOld(Append(s, f), id, known)
         /\ \A id, known : s # <<>> /\ AllOld(s, id, known) /\ Old(f, id, known)
                             => AllOld(Put(s, f), id, known)
         /\ \A id, known : s # <<>> /\ AllOld(s, id, known) => AllOld(Pop(s), id, known)
<1>1. Len(s) \in Nat /\ (s # <<>> => Len(s) \in Nat \ {0})
  BY EmptySeq, LenProperties
<1>2. Append(s, f) \in Seq(Frames) /\ Len(Append(s, f)) = Len(s) + 1
      /\ Append(s, f)[Len(s) + 1] = f /\ \A k \in 1..Len(s) : Append(s, f)[k] = s[k]
  BY AppendProperties
<1>3. \A k \in 1..Len(Append(s, f)) : Append(s, f)[k] = f
                                      \/ (k \in 1..Len(s) /\ Append(s, f)[k] = s[k])
  BY <1>1, <1>2
<1>4. ASSUME s # <<>>
      PROVE  /\ \A k \in 1..Len(Put(s, f)) : Put(s, f)[k] = f
                                             \/ (k \in 1..Len(s) /\ Put(s, f)[k] = s[k])
             /\ \A k \in 1..Len(Pop(s)) : k \in 1..Len(s) /\ Pop(s)[k] = s[k]
  <2>1. /\ Len(Put(s, f)) = Len(s)
        /\ \A k \in 1..Len(s) : Put(s, f)[k] = IF k = Len(s) THEN f ELSE s[k]
    BY <1>4, PutIsSeq
  <2>2. /\ Len(Pop(s)) = Len(s) - 1
        /\ \A k \in 1..(Len(s) - 1) : Pop(s)[k] = s[k]
    BY <1>4, PopIsSeq
  <2> QED  BY <1>1, <1>4, <2>1, <2>2
<1>5. /\ NoneBlocked(s) /\ ~Blocked(f) => NoneBlocked(Append(s, f))
      /\ s # <<>> /\ NoneBlocked(s) /\ ~Blocked(f) => NoneBlocked(Put(s, f))
      /\ s # <<>> /\ NoneBlocked(s) => NoneBlocked(Pop(s))
  BY <1>3, <1>4, Zenon DEF NoneBlocked
<1>6. ASSUME NEW res
      PROVE  /\ AllRight(s, res) /\ Right(f, res) => AllRight(Append(s, f), res)
             /\ s # <<>> /\ AllRight(s, res) /\ Right(f, res) => AllRight(Put(s, f), res)
             /\ s # <<>> /\ AllRight(s, res) => AllRight(Pop(s), res)
  BY <1>3, <1>4, Zenon DEF AllRight
<1>7. ASSUME NEW id, NEW known
      PROVE  /\ AllOld(s, id, known) /\ Old(f, id, known) => AllOld(Append(s, f), id, known)
             /\ s # <<>> /\ AllOld(s, id, known) /\ Old(f, id, known)
                  => AllOld(Put(s, f), id, known)
             /\ s # <<>> /\ AllOld(s, id, known) => AllOld(Pop(s), id, known)
  BY <1>3, <1>4, Zenon DEF AllOld
<1> QED  BY <1>5, <1>6, <1>7, Zenon

LEMMA ChainPushed ==
  ASSUME NEW s \in Seq(Frames), NEW f \in Frames, Chain(s),
         s = <<>> => f.kind = "go",
         s # <<>> => On(Last(s), f)
  PROVE  Chain(Append(s, f))
<1>1. Len(s) \in Nat /\ (s # <<>> => Len(s) \in Nat \ {0}) /\ (s = <<>> => Len(s) = 0)
  BY EmptySeq, LenProperties
<1>2. Append(s, f) \in Seq(Frames) /\ Len(Append(s, f)) = Len(s) + 1
      /\ Append(s, f)[Len(s) + 1] = f /\ \A k \in 1..Len(s) : Append(s, f)[k] = s[k]
  BY AppendProperties
<1>3. Append(s, f)[1].kind = "go"
  BY <1>1, <1>2 DEF Chain
<1>4. ASSUME NEW k \in 1..Len(Append(s, f)), k # Len(Append(s, f))
      PROVE  On(Append(s, f)[k], Append(s, f)[k + 1])
  <2>1. k \in 1..Len(s) /\ s # <<>>
    BY <1>1, <1>2, <1>4
  <2>2. CASE k = Len(s)
    BY <1>2, <2>1, <2>2 DEF Last
  <2>3. CASE k # Len(s)
    <3>1. k + 1 \in 1..Len(s)
      BY <1>1, <2>1, <2>3
    <3> QED  BY <1>2, <2>1, <2>3, <3>1 DEF Chain
  <2> QED  BY <2>2, <2>3
<1> QED  BY <1>3, <1>4 DEF Chain

\* A frame may stay where it is if it keeps its kind, and its timeout or its call.
LEMMA ChainPut ==
  ASSUME NEW s \in Seq(Frames), s # <<>>, NEW f \in Frames, Chain(s),
         f.kind = Last(s).kind,
         f.kind = "go" => f.timer = Last(s).timer,
         f.kind # "go" => f.of = Last(s).of
  PROVE  Chain(Put(s, f))
<1>1. Len(s) \in Nat \ {0}
  BY EmptySeq
<1>2. /\ Put(s, f) \in Seq(Frames) /\ Put(s, f) # <<>>
      /\ Len(Put(s, f)) = Len(s)
      /\ \A k \in 1..Len(s) : Put(s, f)[k] = IF k = Len(s) THEN f ELSE s[k]
  BY PutIsSeq
<1>3. Put(s, f)[1].kind = "go"
  BY <1>1, <1>2 DEF Chain, Last
<1>4. ASSUME NEW k \in 1..Len(s), k # Len(s)
      PROVE  On(Put(s, f)[k], Put(s, f)[k + 1])
  <2>1. k + 1 \in 1..Len(s) /\ Put(s, f)[k] = s[k]
    BY <1>1, <1>2, <1>4
  <2>2. On(s[k], s[k + 1])
    BY <1>4 DEF Chain
  <2>3. CASE k + 1 = Len(s)
    <3>1. Put(s, f)[k + 1] = f /\ On(s[k], Last(s))
      BY <1>2, <2>1, <2>2, <2>3 DEF Last
    <3> QED  BY <2>1, <3>1 DEF On
  <2>4. CASE k + 1 # Len(s)
    BY <1>2, <2>1, <2>2, <2>4
  <2> QED  BY <2>3, <2>4
<1> QED  BY <1>2, <1>3, <1>4 DEF Chain

LEMMA ChainPopped ==
  ASSUME NEW s \in Seq(Frames), s # <<>>, Chain(s)
  PROVE  /\ Chain(Pop(s))
         /\ Pop(s) # <<>> => On(Last(Pop(s)), Last(s))
         /\ Pop(s) = <<>> => Last(s).kind = "go"
         /\ Pop(s) # <<>> => Len(s) - 1 \in 1..Len(s) /\ Last(Pop(s)) = s[Len(s) - 1]
<1>1. Len(s) \in Nat \ {0}
  BY EmptySeq
<1>2. /\ Pop(s) \in Seq(Frames) /\ Len(Pop(s)) = Len(s) - 1
      /\ \A k \in 1..(Len(s) - 1) : Pop(s)[k] = s[k]
      /\ Pop(s) = <<>> <=> Len(s) = 1
  BY PopIsSeq
<1>3. Chain(Pop(s))
  <2>1. ASSUME NEW k \in 1..(Len(s) - 1), k # Len(s) - 1
        PROVE  On(Pop(s)[k], Pop(s)[k + 1])
    <3>1. k \in 1..Len(s) /\ k # Len(s) /\ k + 1 \in 1..(Len(s) - 1)
      BY <1>1, <2>1
    <3> QED  BY <1>2, <2>1, <3>1 DEF Chain
  <2>2. Pop(s) # <<>> => Pop(s)[1].kind = "go"
    BY <1>1, <1>2 DEF Chain
  <2> QED  BY <1>2, <2>1, <2>2 DEF Chain
<1>4. ASSUME Pop(s) # <<>>
      PROVE  /\ Len(s) - 1 \in 1..Len(s) /\ Last(Pop(s)) = s[Len(s) - 1]
             /\ On(Last(Pop(s)), Last(s))
  <2>1. Len(s) - 1 \in 1..Len(s) /\ Len(s) - 1 # Len(s) /\ Len(s) - 1 \in 1..(Len(s) - 1)
    BY <1>1, <1>2, <1>4
  <2>2. Last(Pop(s)) = s[Len(s) - 1]
    BY <1>2, <2>1 DEF Last
  <2>3. On(s[Len(s) - 1], s[(Len(s) - 1) + 1])
    BY <2>1 DEF Chain
  <2>4. (Len(s) - 1) + 1 = Len(s)
    BY <1>1
  <2> QED  BY <2>1, <2>2, <2>3, <2>4 DEF Last
<1>5. Pop(s) = <<>> => Last(s).kind = "go"
  BY <1>1, <1>2 DEF Chain, Last
<1> QED  BY <1>3, <1>4, <1>5
-----------------------------------------------------------------------------
(* What a step may make of the stack. *)

LEMMA TopIsFrame ==
  ASSUME Types, stack # <<>>
  PROVE  /\ Top = Last(stack) /\ Top \in Frames /\ Len(stack) \in Nat \ {0}
         /\ Top.kind \in {"go", "new", "callback"}
         /\ Top.kind = "go" => Top \in GoFrames
         /\ Top.kind # "go" => Top \in JsFrames
<1>1. Top = Last(stack) /\ Top \in Frames /\ Len(stack) \in Nat \ {0}
  BY LastIsFrame DEF Types, Top, Last
<1> QED  BY <1>1, KindOfFrame

LEMMA PhaseOfTop ==
  ASSUME Types, stack # <<>>, Top.kind = "go",
         NEW p \in {"take", "handler", "after", "blocked"}
  PROVE  /\ TopIn(p) = Put(stack, [Top EXCEPT !.phase = p])
         /\ [Top EXCEPT !.phase = p] \in GoFrames
         /\ [Top EXCEPT !.phase = p].kind = "go" /\ [Top EXCEPT !.phase = p].phase = p
         /\ [Top EXCEPT !.phase = p].ev = Top.ev /\ [Top EXCEPT !.phase = p].timer = Top.timer
         /\ [Top EXCEPT !.phase = p].taken = Top.taken
<1>1. Top \in GoFrames
  BY TopIsFrame
<1>2. TopIn(p) = Put(stack, [Top EXCEPT !.phase = p])
  BY DEF TopIn, Put, Top
<1> QED  BY <1>1, <1>2 DEF GoFrames

LEMMA RightStays ==
  ASSUME Types, AllRight(stack, result), NEW c \in Calls
  PROVE  AllRight(stack, [result EXCEPT ![c] = Returned(c)])
<1> DEFINE res == [result EXCEPT ![c] = Returned(c)]
<1>1. \A d : result[d] = Returned(d) => res[d] = Returned(d)
  BY DEF Types, DataTypes
<1>2. ASSUME NEW k \in 1..Len(stack)
      PROVE  Right(stack[k], res)
  <2>1. Right(stack[k], result)
    BY <1>2 DEF AllRight
  <2> HIDE DEF res
  <2> QED  BY <1>1, <2>1 DEF Right
<1> QED  BY <1>2 DEF AllRight

LEMMA OldStays ==
  ASSUME Types, AllOld(stack, nextId, idle)
  PROVE  /\ AllOld(stack, nextId, None)
         /\ \A c : AllOld(stack, nextId + 1, [id |-> nextId, for |-> c])
         /\ \A c : idle # None => AllOld(stack, nextId, [idle EXCEPT !.for = c])
<1>1. ASSUME NEW k \in 1..Len(stack)
      PROVE  /\ Old(stack[k], nextId, None)
             /\ \A c : Old(stack[k], nextId + 1, [id |-> nextId, for |-> c])
             /\ \A c : idle # None => Old(stack[k], nextId, [idle EXCEPT !.for = c])
  <2>1. Old(stack[k], nextId, idle)
    BY <1>1 DEF AllOld
  <2>2. stack[k].kind = "go" => stack[k] \in GoFrames
    BY <1>1, ElementOfSeq, KindOfFrame DEF Types
  <2>3. stack[k].kind = "go" /\ stack[k].timer # None => stack[k].timer \in Nat /\ nextId \in Nat
    BY <2>2 DEF GoFrames, Types, DataTypes
  <2>4. Old(stack[k], nextId, None)
    BY <2>1 DEF Old
  <2>5. ASSUME NEW c
        PROVE  Old(stack[k], nextId + 1, [id |-> nextId, for |-> c])
    BY <2>1, <2>3 DEF Old
  <2>6. ASSUME NEW c, idle # None
        PROVE  Old(stack[k], nextId, [idle EXCEPT !.for = c])
    <3>1. [idle EXCEPT !.for = c].id = idle.id
      BY <2>6 DEF Types, DataTypes
    <3> QED  BY <2>1, <2>6, <3>1 DEF Old
  <2> QED  BY <2>4, <2>5, <2>6
<1> QED  BY <1>1 DEF AllOld

FromJs(f) == f.kind # "go" /\ (f.kind = "new" => f.ran)

\* A frame of Go is put on frames of JavaScript, or on none.
LEMMA Begun ==
  ASSUME HostInv, ~exited, ~exited', ~Fired(stack), UNCHANGED <<result, timers>>,
         NEW s \in Seq(Frames), Chain(s), AllRight(s, result), AllOld(s, nextId, idle),
         NoneBlocked(s), s = <<>> \/ FromJs(Last(s)),
         NEW ev \in Events, Resume(s, ev),
         Orderly', Ready(ev, promise', pc', db')
  PROVE  stack' \in Seq(Frames) /\ pendingEvent' \in Events /\ NoneBlocked(stack') /\ Live'
<1> DEFINE f == GoFrame(ev, None)
<1>1. f \in GoFrames /\ f \in Frames /\ f.kind = "go" /\ f.ev = ev /\ f.timer = None
      /\ f.phase = "take"
  BY DEF GoFrame, GoFrames, Frames
<1>2. stack' = Append(s, f) /\ pendingEvent' = ev
  BY DEF Resume
<1> HIDE DEF f
<1>3. stack' \in Seq(Frames) /\ stack' # <<>> /\ Last(stack') = f
  BY <1>1, <1>2, PushIsSeq
<1>4. NoneBlocked(stack') /\ AllRight(stack', result') /\ AllOld(stack', nextId', idle')
  <2>1. ~Blocked(f) /\ Right(f, result) /\ Old(f, nextId, idle)
    BY <1>1 DEF Blocked, Right, Old
  <2> QED  BY <1>1, <1>2, <2>1, FramesKeep DEF timers
<1>5. Chain(stack')
  <2>1. s # <<>> => On(Last(s), f)
    BY <1>1 DEF On, FromJs
  <2> QED  BY <1>1, <1>2, <2>1, ChainPushed
<1>6. ev # None
  BY NoneDiffers DEF Events
<1>7. Top' = f /\ Taking(stack') /\ ~Fired(stack')
  BY <1>1, <1>3, <1>6 DEF Top, Last, Taking, Fired
<1>8. Pending'
  BY <1>1, <1>2, <1>6, <1>7 DEF Pending
<1>9. Timeouts'
  BY <1>3, <1>7 DEF HostInv, Live, Timeouts, timers
<1> QED  BY <1>1, <1>2, <1>3, <1>4, <1>5, <1>8, <1>9 DEF Live

\* The innermost frame, of Go, goes on to f.
LEMMA MovesOn ==
  ASSUME HostInv, ~exited, stack # <<>>, Top.kind = "go", NEW f \in GoFrames,
         f.timer = Top.timer, ~Blocked(f), Right(f, result'), Old(f, nextId', idle'),
         AllRight(stack, result'), AllOld(stack, nextId', idle'),
         stack' = Put(stack, f)
  PROVE  /\ stack' \in Seq(Frames) /\ stack' # <<>> /\ Top' = f
         /\ NoneBlocked(stack') /\ Chain(stack')
         /\ AllRight(stack', result') /\ AllOld(stack', nextId', idle')
<1>1. f \in Frames /\ f.kind = "go"
  BY DEF Frames, GoFrames
<1>2. stack \in Seq(Frames) /\ Top = Last(stack)
  BY TopIsFrame DEF HostInv, Types
<1>3. stack' \in Seq(Frames) /\ stack' # <<>> /\ Last(stack') = f
  BY <1>1, <1>2, PutIsSeq
<1>4. Chain(stack')
  BY <1>1, <1>2, ChainPut DEF HostInv, Live
<1>5. NoneBlocked(stack') /\ AllRight(stack', result') /\ AllOld(stack', nextId', idle')
  BY <1>1, <1>2, FramesKeep DEF HostInv
<1> QED  BY <1>3, <1>4, <1>5 DEF Top, Last

\* Go puts a frame of JavaScript on its own.
LEMMA CallsJs ==
  ASSUME HostInv, ~exited, stack # <<>>, NEW f \in JsFrames, On(Top, f), UNCHANGED <<result, timers>>,
         stack' = Append(stack, f), pendingEvent' = None, ~Taking(stack),
         Orderly', f.kind = "new" => Begins(f.of, promise', db')
  PROVE  stack' \in Seq(Frames) /\ NoneBlocked(stack') /\ Live'
<1>1. f \in Frames /\ f.kind # "go"
  BY DEF Frames, JsFrames
<1>2. stack \in Seq(Frames) /\ Top = Last(stack)
  BY TopIsFrame DEF HostInv, Types
<1>3. stack' \in Seq(Frames) /\ stack' # <<>> /\ Last(stack') = f
  BY <1>1, <1>2, PushIsSeq
<1>4. Chain(stack')
  BY <1>1, <1>2, ChainPushed DEF HostInv, Live
<1>5. ~Blocked(f) /\ Right(f, result) /\ Old(f, nextId, idle)
  BY <1>1 DEF Blocked, Right, Old
<1>6. NoneBlocked(stack') /\ AllRight(stack', result') /\ AllOld(stack', nextId', idle')
  BY <1>1, <1>2, <1>5, FramesKeep DEF HostInv, Live, timers
<1>7. Top' = f /\ ~Taking(stack') /\ ~Fired(stack') /\ ~Fired(stack)
  BY <1>1, <1>3 DEF Top, Last, Taking, Fired
<1>8. Pending'
  BY <1>1, <1>7 DEF Pending
<1>9. Timeouts'
  BY <1>3, <1>7 DEF HostInv, Live, Timeouts, timers
<1> QED  BY <1>3, <1>4, <1>6, <1>8, <1>9 DEF Live

\* The innermost frame returns, and nothing but its goroutines sleep.
LEMMA PopsTop ==
  ASSUME HostInv, stack # <<>>, stack' = Pop(stack)
  PROVE  /\ stack' \in Seq(Frames) /\ NoneBlocked(stack') /\ Below(1) = Pop(stack)
         /\ ~exited => /\ Chain(stack') /\ AllRight(stack', result)
                       /\ AllOld(stack', nextId, idle)
                       /\ stack' = <<>> => Top.kind = "go"
                       /\ stack' # <<>> => On(Top', Top) /\ Top' \in Frames
<1>1. stack \in Seq(Frames) /\ Top = Last(stack) /\ Top \in Frames
  BY TopIsFrame DEF HostInv, Types
<1>2. stack' \in Seq(Frames)
  BY <1>1, PopIsSeq
<1>3. NoneBlocked(stack')
  BY <1>1, FramesKeep DEF HostInv
<1>4. Below(1) = Pop(stack)
  BY DEF Below, Pop
<1>5. ASSUME ~exited
      PROVE  Chain(stack') /\ AllRight(stack', result) /\ AllOld(stack', nextId, idle)
  BY <1>1, <1>5, FramesKeep, ChainPopped DEF HostInv, Live
<1>6. ASSUME ~exited
      PROVE  /\ stack' = <<>> => Top.kind = "go"
             /\ stack' # <<>> => On(Top', Top)
  BY <1>1, <1>6, ChainPopped DEF HostInv, Live, Top, Last
<1>7. stack' # <<>> => Top' \in Frames
  BY <1>2, LastIsFrame DEF Top, Last
<1> QED  BY <1>2, <1>3, <1>4, <1>5, <1>6, <1>7

-----------------------------------------------------------------------------
(* Steps of JavaScript. *)

Assembled == stack \in Seq(Frames) /\ NoneBlocked(stack) /\ (~exited => Live)

\* What lets the stack, the timeouts and the goroutines be leaves all but the answers.
LEMMA DataStays ==
  ASSUME DataTypes, UNCHANGED <<exited, promise, pc, db, tries, got, result, nextId, idle>>
  PROVE  DataTypes'
BY DEF DataTypes

LEMMA Rests ==
  ASSUME HostInv, UNCHANGED <<stack, pendingEvent, exited, result, promise, pc, db, timers>>
  PROVE  Assembled'
BY DEF HostInv, Types, Assembled, Live, Chain, AllRight, AllOld, Pending, Timeouts,
   NoneBlocked,
       timers, Top, Sleepers, Orderly, Ready, Begins, Taking, Fired, Last, On, Right, Old, Blocked

LEMMA EventsAre ==
  ASSUME NEW c \in Calls, NEW n \in Nat
  PROVE  /\ CallFn(c) \in Events /\ ExecFn(c) \in Events /\ DataFn(c) \in Events
         /\ \A o \in {"ok", "error"} : AnswerFn(o, c, n) \in Events /\ AnswerFn(o, c, n).of = c
         /\ CallFn(c).fn = "call" /\ ExecFn(c).fn = "exec" /\ DataFn(c).fn = "data"
         /\ CallFn(c).of = c /\ ExecFn(c).of = c
BY DEF CallFn, ExecFn, DataFn, AnswerFn, Fn, Events

LEMMA FreeStack ==
  ASSUME HostInv, ~exited, stack = <<>> \/ InJs("callback")
  PROVE  /\ stack \in Seq(Frames) /\ ~Taking(stack) /\ ~Fired(stack)
         /\ Chain(stack) /\ AllRight(stack, result) /\ AllOld(stack, nextId, idle)
         /\ NoneBlocked(stack) /\ (stack = <<>> \/ FromJs(Last(stack)))
         /\ Orderly
BY DEF FromJs, HostInv, Types, Live, InJs, Top, Taking, Fired, Last, Pending

LEMMA ApiCallKeeps ==
  ASSUME HostInv, NEW c \in Calls, ApiCall(c)
  PROVE  HostInv'
<1>1. DataTypes' /\ pendingEvent' \in Events \cup {None} /\ Answers'
  <2>1. CallFn(c) \in Events
    BY EventsAre
  <2> QED  BY <2>1 DEF ApiCall, HostInv, Types, DataTypes, Answers, Resume, tasks, timers,
              Returned
<1>2. Assembled'
  <2>1. CASE exited
    BY <2>1, Rests DEF ApiCall, tasks
  <2>2. CASE ~exited
    <3>1. CallFn(c) \in Events /\ CallFn(c).fn = "call"
      BY EventsAre
    <3>2. Resume(stack, CallFn(c)) /\ ~exited' /\ UNCHANGED <<result, timers>>
          /\ (stack = <<>> \/ InJs("callback"))
      BY <2>2 DEF ApiCall
    <3>3. Orderly' /\ Ready(CallFn(c), promise', pc', db')
      <4>1. promise'[c] = "none" /\ Orderly /\ UNCHANGED <<promise, pc, db>>
        BY <2>2, <3>2, FreeStack DEF ApiCall, Started, tasks
      <4> QED  BY <3>1, <4>1, EventsAre DEF Orderly, Ready
    <3> QED  BY <2>2, <3>1, <3>2, <3>3, FreeStack, Begun DEF Assembled
  <2> QED  BY <2>1, <2>2
<1> QED  BY <1>1, <1>2 DEF HostInv, Types, Assembled

LEMMA ListenKeeps ==
  ASSUME HostInv, NEW s \in Subs, Listen(s)
  PROVE  HostInv'
<1>1. s \in Calls /\ DataFn(s) \in Events /\ DataFn(s).fn = "data"
  BY EventsAre DEF Calls
<1>2. DataTypes' /\ pendingEvent' \in Events \cup {None} /\ Answers'
  BY <1>1 DEF Listen, HostInv, Types, DataTypes, Answers, Resume, tasks, calls, timers,
     Returned
<1>3. Resume(stack, DataFn(s)) /\ ~exited /\ ~exited' /\ UNCHANGED <<result, timers>>
      /\ (stack = <<>> \/ InJs("callback"))
  BY DEF Listen, calls
<1>4. Orderly' /\ Ready(DataFn(s), promise', pc', db')
  <2>1. Orderly /\ UNCHANGED <<promise, pc, db>>
    BY <1>3, FreeStack DEF Listen, tasks, calls
  <2> QED  BY <1>1, <2>1 DEF Orderly, Ready
<1>5. Assembled'
  BY <1>1, <1>3, <1>4, FreeStack, Begun DEF Assembled
<1> QED  BY <1>2, <1>5 DEF HostInv, Types, Assembled

LEMMA RunExecutorKeeps ==
  ASSUME HostInv, RunExecutor
  PROVE  HostInv'
<1>1. /\ stack # <<>> /\ Top.kind = "new" /\ ~exited /\ ~exited'
      /\ UNCHANGED <<calls, tasks, timers, exited>>
  BY DEF RunExecutor, InJs
<1>2. Top \in JsFrames /\ Top = Last(stack) /\ stack \in Seq(Frames)
  BY <1>1, TopIsFrame DEF HostInv, Types
<1> DEFINE f == [Top EXCEPT !.ran = TRUE]
<1>3. f \in JsFrames /\ f \in Frames /\ f.kind = "new" /\ f.of = Top.of /\ f.of \in Calls /\ f.ran
  BY <1>1, <1>2 DEF JsFrames, Frames
<1>4. Resume(Put(stack, f), ExecFn(Top.of))
  BY DEF RunExecutor, Put, Top
<1> HIDE DEF f
<1>5. ExecFn(Top.of) \in Events /\ ExecFn(Top.of).fn = "exec"
  BY <1>3, EventsAre
<1>6. DataTypes' /\ pendingEvent' \in Events \cup {None} /\ Answers'
  <2>1. DataTypes'
    BY <1>1, DataStays DEF HostInv, Types, tasks, calls, timers
  <2>2. Answers'
    BY <1>1 DEF HostInv, Answers, calls, Returned
  <2>3. pendingEvent' = ExecFn(Top.of)
    BY <1>4 DEF Resume
  <2> QED  BY <1>5, <2>1, <2>2, <2>3
<1>7. Put(stack, f) \in Seq(Frames) /\ Put(stack, f) # <<>> /\ FromJs(Last(Put(stack, f)))
  BY <1>1, <1>2, <1>3, PutIsSeq DEF FromJs
<1>8. Chain(Put(stack, f))
  BY <1>1, <1>2, <1>3, ChainPut DEF HostInv, Live
<1>9. ~Blocked(f) /\ Right(f, result) /\ Old(f, nextId, idle)
  BY <1>3 DEF Blocked, Right, Old
<1>10. NoneBlocked(Put(stack, f)) /\ AllRight(Put(stack, f), result)
       /\ AllOld(Put(stack, f), nextId, idle)
  BY <1>1, <1>2, <1>3, <1>9, FramesKeep DEF HostInv, Live
<1>11. ~Fired(stack) /\ Orderly' /\ Ready(ExecFn(Top.of), promise', pc', db')
  <2>1. ~Fired(stack) /\ Orderly /\ Begins(Top.of, promise, db) /\ UNCHANGED <<promise, pc, db>>
    BY <1>1, <1>2 DEF Fired, Taking, HostInv, Live, Pending, tasks, calls, RunExecutor
  <2>2. ExecFn(Top.of).of = Top.of
    BY <1>3, EventsAre
  <2> QED  BY <1>5, <2>1, <2>2 DEF Orderly, Ready, Begins
<1>12. UNCHANGED <<result, timers>>
  BY <1>1 DEF calls
<1>13. stack' \in Seq(Frames) /\ NoneBlocked(stack') /\ Live'
  BY <1>1, <1>3, <1>4, <1>5, <1>7, <1>8, <1>10, <1>11, <1>12, Begun
<1> QED  BY <1>6, <1>13 DEF HostInv, Types

LEMMA AnswerKeeps ==
  ASSUME HostInv, NEW c \in Calls, NEW o \in {"ok", "error"}, Answer(c, o)
  PROVE  HostInv'
<1>1. AnswerFn(o, c, tries[c]) \in Events /\ AnswerFn(o, c, tries[c]).of = c
  BY EventsAre DEF HostInv, Types, DataTypes
<1>2. DataTypes' /\ pendingEvent' \in Events \cup {None} /\ Answers'
  BY <1>1 DEF Answer, HostInv, Types, DataTypes, Answers, Resume, calls, timers, Returned
<1>3. CASE exited
  BY <1>2, <1>3 DEF Answer, HostInv, Types
<1>4. CASE ~exited
  <2>1. Resume(stack, AnswerFn(o, c, tries[c])) /\ ~exited' /\ UNCHANGED <<result, timers>>
        /\ stack = <<>> /\ db[c] = "pending" /\ db' = [db EXCEPT ![c] = "settled"] /\ pc' = pc
    BY <1>4 DEF Answer, calls
  <2>2. Orderly' /\ Ready(AnswerFn(o, c, tries[c]), promise', pc', db')
    <3>1. Orderly /\ pc[c] = "await" /\ db'[c] # "pending" /\ promise[c] # "none"
      BY <1>4, <2>1, FreeStack DEF HostInv, Types, DataTypes, Orderly
    <3>2. AnswerFn(o, c, tries[c]).fn \in {"then", "catch"}
      BY DEF AnswerFn, Fn
    <3>3. Orderly'
      <4>1. promise' = promise /\ db' = [db EXCEPT ![c] = "settled"] /\ pc' = pc
            /\ db \in [Calls -> {"none", "pending", "settled"}]
        BY <2>1 DEF HostInv, Types, DataTypes, Answer, calls
      <4> QED  BY <3>1, <4>1 DEF Orderly
    <3> QED  BY <1>1, <2>1, <3>1, <3>2, <3>3 DEF Ready
  <2>4. Assembled'
    BY <1>1, <1>4, <2>1, <2>2, FreeStack, Begun DEF Assembled
  <2> QED  BY <1>2, <2>4 DEF HostInv, Types, Assembled
<1> QED  BY <1>3, <1>4

-----------------------------------------------------------------------------
(* Steps of the handlers in Go. *)

LEMMA GoIsOn ==
  ASSUME HostInv, NEW p \in {"take", "handler", "after", "blocked"}, InGo(p)
  PROVE  /\ stack # <<>> /\ stack \in Seq(Frames) /\ ~exited /\ Live
         /\ Top \in GoFrames /\ Top.kind = "go" /\ Top.phase = p /\ Top = Last(stack)
         /\ Right(Top, result) /\ Old(Top, nextId, idle)
         /\ p # "take" => ~Taking(stack) /\ ~Fired(stack) /\ pendingEvent = None
<1>1. stack # <<>> /\ stack \in Seq(Frames) /\ ~exited /\ Live /\ Top.kind = "go" /\ Top.phase = p
  BY DEF InGo, HostInv, Types
<1>2. Top \in GoFrames /\ Top = Last(stack) /\ Len(stack) \in Nat \ {0}
  BY <1>1, TopIsFrame DEF HostInv
<1>3. Right(Top, result) /\ Old(Top, nextId, idle)
  BY <1>1, <1>2 DEF Live, AllRight, AllOld, Last
<1>4. p # "take" => ~Taking(stack) /\ ~Fired(stack) /\ pendingEvent = None
  BY <1>1, <1>2 DEF Taking, Fired, Live, Pending
<1> QED  BY <1>1, <1>2, <1>3, <1>4

\* A handler that is done, with the result of its call if it is one.
LEMMA HandlerDone ==
  ASSUME HostInv, InGo("handler"), stack' = TopIn("after"), ~exited', pendingEvent' = pendingEvent,
         UNCHANGED timers, AllRight(stack, result'),
         Top.ev # None /\ Top.ev.fn = "call" => result'[Top.ev.of] = Returned(Top.ev.of),
         Orderly'
  PROVE  Assembled'
<1> DEFINE f == [Top EXCEPT !.phase = "after"]
<1>1. /\ stack # <<>> /\ stack \in Seq(Frames) /\ ~exited /\ Live
      /\ Top \in GoFrames /\ Top.kind = "go" /\ Top.phase = "handler"
      /\ Right(Top, result) /\ Old(Top, nextId, idle) /\ ~Fired(stack) /\ pendingEvent = None
  BY GoIsOn
<1>2. /\ TopIn("after") = Put(stack, f) /\ f \in GoFrames /\ f.kind = "go" /\ f.phase = "after"
      /\ f.ev = Top.ev /\ f.timer = Top.timer /\ f.taken = Top.taken
  BY <1>1, PhaseOfTop DEF HostInv
<1> HIDE DEF f
<1>3. ~Blocked(f) /\ Right(f, result') /\ Old(f, nextId', idle')
  BY <1>1, <1>2 DEF Blocked, Right, Old, timers
<1>4. AllOld(stack, nextId', idle')
  BY <1>1 DEF Live, timers
<1>5. /\ stack' \in Seq(Frames) /\ stack' # <<>> /\ Top' = f
      /\ NoneBlocked(stack') /\ Chain(stack')
      /\ AllRight(stack', result') /\ AllOld(stack', nextId', idle')
  BY <1>1, <1>2, <1>3, <1>4, MovesOn
<1>6. ~Taking(stack') /\ ~Fired(stack')
  BY <1>2, <1>5 DEF Taking, Fired, Top, Last
<1>7. Pending'
  BY <1>1, <1>2, <1>5, <1>6 DEF Pending
<1>8. Timeouts'
  BY <1>1, <1>5, <1>6 DEF Live, Timeouts, timers
<1> QED  BY <1>5, <1>7, <1>8 DEF Assembled, Live

LEMMA TakeEventKeeps ==
  ASSUME HostInv, TakeEvent
  PROVE  HostInv'
<1> DEFINE f == [Top EXCEPT !.phase = "handler", !.taken = pendingEvent]
<1>1. /\ stack # <<>> /\ stack \in Seq(Frames) /\ ~exited /\ Live
      /\ Top \in GoFrames /\ Top.kind = "go" /\ Top.phase = "take" /\ Top = Last(stack)
      /\ Right(Top, result) /\ Old(Top, nextId, idle)
  BY GoIsOn DEF TakeEvent
<1>2. pendingEvent \in Events /\ pendingEvent # None /\ pendingEvent' = None
      /\ UNCHANGED <<calls, tasks, timers, exited>>
  BY DEF TakeEvent, HostInv, Types
<1>3. Top.ev = pendingEvent /\ Taking(stack) /\ Top.timer = None
  BY <1>1, <1>2 DEF Live, Pending, Taking, Right
<1>4. f \in GoFrames /\ f.kind = "go" /\ f.phase = "handler" /\ f.taken = pendingEvent
      /\ f.ev = pendingEvent /\ f.timer = None
  BY <1>1, <1>2, <1>3 DEF GoFrames
<1>5. stack' = Put(stack, f)
  <2>1. stack' = [stack EXCEPT ![Len(stack)].phase = "handler", ![Len(stack)].taken = pendingEvent]
    BY DEF TakeEvent
  <2>2. Len(stack) \in DOMAIN stack
    BY <1>1, TopIsFrame, LenProperties DEF HostInv
  <2> QED  BY <2>1, <2>2 DEF Put, Top
<1> HIDE DEF f
<1>6. ~Blocked(f) /\ Right(f, result') /\ Old(f, nextId', idle') /\ f.timer = Top.timer
  BY <1>2, <1>3, <1>4 DEF Blocked, Right, Old
<1>7. AllRight(stack, result') /\ AllOld(stack, nextId', idle')
  BY <1>1, <1>2 DEF Live, timers, calls
<1>8. /\ stack' \in Seq(Frames) /\ stack' # <<>> /\ Top' = f
      /\ NoneBlocked(stack') /\ Chain(stack')
      /\ AllRight(stack', result') /\ AllOld(stack', nextId', idle')
  BY <1>1, <1>4, <1>5, <1>6, <1>7, MovesOn
<1>9. ~Taking(stack') /\ ~Fired(stack') /\ ~Fired(stack)
  BY <1>2, <1>3, <1>4, <1>8, <1>1 DEF Taking, Fired, Top, Last
<1>10. Pending'
  <2>1. Ready(Top.ev, promise, pc, db) /\ Orderly
    BY <1>1, <1>2, <1>3 DEF Live, Pending
  <2>2. Ready(f.ev, promise', pc', db') /\ Orderly'
    BY <1>2, <1>3, <1>4, <2>1 DEF Ready, Orderly, Begins, tasks, calls
  <2> QED  BY <1>2, <1>4, <1>8, <1>9, <2>2 DEF Pending
<1>11. Timeouts'
  BY <1>1, <1>2, <1>8, <1>9 DEF Live, Timeouts, timers
<1>12. DataTypes' /\ Answers'
  BY <1>2 DEF HostInv, Types, DataTypes, Answers, tasks, calls, timers, Returned
<1> QED  BY <1>2, <1>8, <1>10, <1>11, <1>12 DEF HostInv, Types, Live

\* What a handler works on.
LEMMA HandlerHas ==
  ASSUME HostInv, InGo("handler")
  PROVE  /\ Top.taken \in Events /\ Top.taken.of \in Calls
         /\ Top.ev # None /\ Top.ev = Top.taken /\ Ready(Top.taken, promise, pc, db)
         /\ pendingEvent = None /\ AllRight(stack, result) /\ Orderly
<1>1. /\ Top \in GoFrames /\ Top.kind = "go" /\ Top.phase = "handler" /\ Right(Top, result)
      /\ Live /\ pendingEvent = None /\ stack # <<>>
  BY GoIsOn
<1>2. Top.taken \in Events
  BY <1>1 DEF GoFrames, Right
<1>3. Top.taken.of \in Calls
  BY <1>2 DEF Events
<1> QED  BY <1>1, <1>2, <1>3 DEF Right, Live, Pending

LEMMA HandleCallKeeps ==
  ASSUME HostInv, HandleCall
  PROVE  HostInv'
<1> DEFINE c == Top.taken.of
<1>1. /\ InGo("handler") /\ Top.taken.fn = "call" /\ c \notin Panicking
      /\ UNCHANGED <<got, tasks, msgs, timers, pendingEvent, exited>>
  BY DEF HandleCall, Handles
<1>2. /\ Top.taken \in Events /\ c \in Calls /\ Top.ev = Top.taken
      /\ Ready(Top.taken, promise, pc, db) /\ pendingEvent = None /\ AllRight(stack, result) /\ Orderly
  BY <1>1, HandlerHas
<1>3. stack # <<>> /\ ~exited /\ Top.kind = "go" /\ Top.phase = "handler" /\ ~Taking(stack)
  BY <1>1, GoIsOn
<1>4. Answers' /\ pendingEvent' \in Events \cup {None}
  BY <1>1, <1>2 DEF HostInv, Answers, Returned
<1>5. CASE c \in Invalid
  <2>1. result' = [result EXCEPT ![c] = Returned(c)] /\ stack' = TopIn("after")
        /\ UNCHANGED promise
    BY <1>5 DEF HandleCall, Returned
  <2>2. result'[c] = Returned(c)
    BY <1>2, <2>1 DEF HostInv, Types, DataTypes
  <2>3. AllRight(stack, result')
    BY <1>2, <2>1, RightStays DEF HostInv
  <2>4. Returned(c) \in Results
    BY <1>2 DEF Returned, Results
  <2>5. DataTypes'
    BY <1>1, <2>1, <2>4 DEF HostInv, Types, DataTypes, tasks, timers
  <2>6. Orderly'
    BY <1>1, <1>2, <2>1 DEF Orderly, tasks
  <2>7. Assembled'
    BY <1>1, <1>2, <1>3, <2>1, <2>2, <2>3, <2>6, HandlerDone
  <2> QED  BY <1>4, <2>5, <2>7 DEF HostInv, Types, Assembled
<1>6. CASE c \notin Invalid
  <2>1. stack' = Append(stack, JsFrame("new", c)) /\ UNCHANGED result
        /\ promise' = [promise EXCEPT ![c] = "pending"]
    BY <1>6 DEF HandleCall
  <2>2. JsFrame("new", c) \in JsFrames /\ JsFrame("new", c).kind = "new" /\ JsFrame("new", c).of = c
    BY <1>2 DEF JsFrame, JsFrames
  <2>3. On(Top, JsFrame("new", c))
    <3>1. Top.taken # None
      BY <1>2, NoneDiffers DEF Events
    <3> QED  BY <1>1, <1>3, <1>6, <2>2, <3>1 DEF On
  <2>4. DataTypes'
    BY <1>1, <2>1 DEF HostInv, Types, DataTypes, tasks, timers
  <2>5. Orderly' /\ Begins(c, promise', db')
    <3>1. promise[c] = "none" /\ promise'[c] = "pending" /\ UNCHANGED <<pc, db>>
      BY <1>1, <1>2, <2>1 DEF Ready, HostInv, Types, DataTypes, tasks
    <3> QED  BY <1>2, <2>1, <3>1 DEF Orderly, Begins
  <2>6. stack' \in Seq(Frames) /\ NoneBlocked(stack') /\ Live'
    BY <1>1, <1>2, <1>3, <2>1, <2>2, <2>3, <2>5, CallsJs
  <2> QED  BY <1>4, <2>4, <2>6 DEF HostInv, Types
<1> QED  BY <1>5, <1>6

\* The frame of a handler that panics is gone, and Go has exited.
LEMMA HandlerPanicsKeeps ==
  ASSUME HostInv, HandlerPanics
  PROVE  HostInv'
<1>1. /\ InGo("handler") /\ exited' = TRUE /\ stack' = Below(1)
      /\ UNCHANGED <<promise, result, tasks, msgs, timers, pendingEvent>>
  BY DEF HandlerPanics, Handles
<1>2. PICK c \in Calls : c \in Panicking /\ got' = [got EXCEPT ![c] = NoValue]
  BY <1>1, HandlerHas DEF HandlerPanics
<1>3. c \notin Invalid
  BY <1>2, PanicsAreValid
<1>4. DataTypes'
  BY <1>1, <1>2 DEF HostInv, Types, DataTypes, Results, tasks, timers
<1>5. Answers'
  BY <1>2, <1>3 DEF HostInv, Types, DataTypes, Answers, Returned
<1>6. stack' \in Seq(Frames) /\ NoneBlocked(stack')
  <2>1. stack # <<>> /\ stack' = Pop(stack)
    BY <1>1, GoIsOn DEF Below, Pop
  <2> QED  BY <2>1, PopsTop
<1> QED  BY <1>1, <1>4, <1>5, <1>6 DEF HostInv, Types

LEMMA HandleExecKeeps ==
  ASSUME HostInv, HandleExec
  PROVE  HostInv'
<1> DEFINE c == Top.taken.of
<1>1. /\ InGo("handler") /\ Top.taken.fn = "exec" /\ stack' = TopIn("after")
      /\ pc' = [pc EXCEPT ![c] = "start"]
      /\ UNCHANGED <<calls, tries, db, timers, pendingEvent, exited>>
  BY DEF HandleExec, Handles
<1>2. /\ c \in Calls /\ Top.ev = Top.taken /\ Begins(c, promise, db)
      /\ pendingEvent = None /\ AllRight(stack, result) /\ Orderly
  BY <1>1, HandlerHas DEF Ready
<1>3. Orderly'
  BY <1>1, <1>2 DEF Orderly, Begins, HostInv, Types, DataTypes, calls
<1>4. DataTypes' /\ Answers' /\ pendingEvent' \in Events \cup {None}
  <2>1. DataTypes'
    BY <1>1 DEF HostInv, Types, DataTypes, calls, timers
  <2> QED  BY <1>1, <1>2, <2>1 DEF HostInv, Answers, Returned, calls
<1>5. Assembled'
  <2>1. ~exited' /\ UNCHANGED result
    BY <1>1, GoIsOn DEF calls
  <2> QED  BY <1>1, <1>2, <1>3, <2>1, HandlerDone
<1> QED  BY <1>4, <1>5 DEF HostInv, Types, Assembled

LEMMA HandleAnswerKeeps ==
  ASSUME HostInv, HandleAnswer
  PROVE  HostInv'
<1> DEFINE c == Top.taken.of
<1>1. /\ InGo("handler") /\ Top.taken.fn \in {"then", "catch"}
      /\ UNCHANGED <<calls, tries, db, timers, pendingEvent, exited>>
  BY DEF HandleAnswer, Handles
<1>2. /\ c \in Calls /\ Top.ev = Top.taken /\ pc[c] = "await" /\ db[c] # "pending"
      /\ pendingEvent = None /\ AllRight(stack, result) /\ Orderly
  BY <1>1, HandlerHas DEF Ready
<1>3. stack' = TopIn("after") /\ (pc' = pc \/ pc' = [pc EXCEPT ![c] = "answered"])
  BY <1>2 DEF HandleAnswer
<1>4. Orderly'
  <2>1. promise[c] # "none"
    BY <1>2 DEF Orderly
  <2> QED  BY <1>1, <1>2, <1>3, <2>1 DEF Orderly, HostInv, Types, DataTypes, calls
<1>5. DataTypes' /\ Answers' /\ pendingEvent' \in Events \cup {None}
  <2>1. DataTypes'
    BY <1>1, <1>3 DEF HostInv, Types, DataTypes, calls, timers
  <2> QED  BY <1>1, <1>2, <2>1 DEF HostInv, Answers, Returned, calls
<1>6. Assembled'
  <2>1. ~exited' /\ UNCHANGED result
    BY <1>1, GoIsOn DEF calls
  <2> QED  BY <1>1, <1>2, <1>3, <1>4, <2>1, HandlerDone
<1> QED  BY <1>5, <1>6 DEF HostInv, Types, Assembled

LEMMA HandleDataKeeps ==
  ASSUME HostInv, HandleData
  PROVE  HostInv'
<1>1. /\ InGo("handler") /\ Top.taken.fn = "data" /\ stack' = TopIn("after")
      /\ UNCHANGED <<calls, tasks, timers, pendingEvent, exited>>
  BY DEF HandleData, Handles
<1>2. /\ Top.ev = Top.taken /\ pendingEvent = None /\ AllRight(stack, result) /\ Orderly
  BY <1>1, HandlerHas
<1>3. Orderly'
  BY <1>1, <1>2 DEF Orderly, calls, tasks
<1>4. DataTypes' /\ Answers' /\ pendingEvent' \in Events \cup {None}
  <2>1. DataTypes'
    BY <1>1, DataStays DEF HostInv, Types, calls, tasks, timers
  <2> QED  BY <1>1, <1>2, <2>1 DEF HostInv, Answers, Returned, calls
<1>5. Assembled'
  <2>1. ~exited' /\ UNCHANGED result
    BY <1>1, GoIsOn DEF calls
  <2> QED  BY <1>1, <1>2, <1>3, <2>1, HandlerDone
<1> QED  BY <1>4, <1>5 DEF HostInv, Types, Assembled

LEMMA HandleTimerKeeps ==
  ASSUME HostInv, HandleTimer
  PROVE  HostInv'
<1> DEFINE f == [Top EXCEPT !.phase = "after"]
<1>1. /\ stack # <<>> /\ stack \in Seq(Frames) /\ ~exited /\ Live
      /\ Top \in GoFrames /\ Top.kind = "go" /\ Top.phase = "take" /\ Top = Last(stack)
      /\ Right(Top, result) /\ Old(Top, nextId, idle)
  BY GoIsOn DEF HandleTimer
<1>2. /\ pendingEvent = None /\ pendingEvent' = None /\ ~exited' /\ stack' = TopIn("after")
      /\ UNCHANGED <<calls, tries, db, nextId, exited>>
  BY <1>1 DEF HandleTimer
<1>3. Top.ev = None /\ Fired(stack)
  BY <1>1, <1>2 DEF Live, Pending, Taking, Fired
<1>4. /\ idle # None /\ Top.timer = idle.id /\ scheduled = {idle.id} /\ hostTimers = {}
  BY <1>1, <1>3 DEF Live, Timeouts
<1>5. scheduled' = {} /\ hostTimers' = {} /\ idle' = None
  BY <1>4 DEF HandleTimer, clearTimeoutEvent
<1>6. /\ TopIn("after") = Put(stack, f) /\ f \in GoFrames /\ f.kind = "go" /\ f.phase = "after"
      /\ f.ev = Top.ev /\ f.timer = Top.timer /\ f.taken = Top.taken
  BY <1>1, PhaseOfTop DEF HostInv
<1> HIDE DEF f
<1>7. ~Blocked(f) /\ Right(f, result') /\ Old(f, nextId', idle')
  BY <1>1, <1>2, <1>3, <1>5, <1>6 DEF Blocked, Right, Old
<1>8. AllRight(stack, result') /\ AllOld(stack, nextId', idle')
  BY <1>1, <1>2, <1>5, OldStays DEF Live, HostInv, calls
<1>9. /\ stack' \in Seq(Frames) /\ stack' # <<>> /\ Top' = f
      /\ NoneBlocked(stack') /\ Chain(stack')
      /\ AllRight(stack', result') /\ AllOld(stack', nextId', idle')
  BY <1>1, <1>2, <1>6, <1>7, <1>8, MovesOn
<1>10. ~Taking(stack') /\ ~Fired(stack')
  BY <1>6, <1>9 DEF Taking, Fired, Top, Last
<1>11. PICK due \in SUBSET Sleepers : pc' = [c \in Calls |-> IF c \in due THEN "due" ELSE pc[c]]
  BY DEF HandleTimer
<1>12. Orderly'
  <2>1. \A c \in due : pc[c] \in {"sleep", "full"}
    BY <1>11 DEF Sleepers
  <2>2. Orderly
    BY <1>1 DEF Live, Pending
  <2> QED  BY <1>2, <1>11, <2>1, <2>2 DEF Orderly, calls
<1>13. Pending'
  BY <1>2, <1>6, <1>9, <1>10, <1>12 DEF Pending
<1>14. Timeouts'
  BY <1>5, <1>9, <1>10 DEF Timeouts
<1>15. DataTypes' /\ Answers'
  <2>1. pc' \in [Calls -> {"none", "start", "await", "answered", "sleep", "full", "due", "done"}]
    BY <1>11 DEF HostInv, Types, DataTypes
  <2> QED  BY <1>2, <1>5, <2>1 DEF HostInv, Types, DataTypes, Answers, calls, Returned
<1> QED  BY <1>2, <1>9, <1>13, <1>14, <1>15 DEF HostInv, Types, Live

-----------------------------------------------------------------------------
(* Steps of the goroutines. *)

\* A goroutine works while the innermost frame stays; a deadline may be of nobody now.
LEMMA Works ==
  ASSUME HostInv, InGo("after"),
         UNCHANGED <<stack, pendingEvent, exited, result, nextId, scheduled, hostTimers>>,
         idle' = idle \/ (idle # None /\ idle' = [idle EXCEPT !.for = None]),
         Orderly'
  PROVE  Assembled'
<1>1. /\ stack # <<>> /\ ~exited /\ Live /\ Top.kind = "go" /\ Top.phase = "after"
      /\ ~Taking(stack) /\ ~Fired(stack) /\ pendingEvent = None
  BY GoIsOn
<1>2. /\ idle' = None <=> idle = None
      /\ idle # None => idle'.id = idle.id
  <2>1. ASSUME idle # None, idle' = [idle EXCEPT !.for = None]
        PROVE  idle'.id = idle.id /\ idle' # None
    <3>1. idle' \in [id : Nat, for : Calls \cup {None}] /\ idle'.id = idle.id
      BY <2>1 DEF HostInv, Types, DataTypes
    <3> QED  BY <3>1, NoneDiffers
  <2> QED  BY <2>1
<1>3. stack' \in Seq(Frames) /\ NoneBlocked(stack') /\ Chain(stack') /\ AllRight(stack', result')
  BY <1>1 DEF HostInv, Types, Live
<1>4. AllOld(stack', nextId', idle')
  BY <1>1, OldStays DEF HostInv, Live
<1>5. Top' = Top /\ ~Taking(stack') /\ ~Fired(stack')
  BY <1>1 DEF Top, Taking, Fired, Last
<1>6. Pending'
  BY <1>1, <1>5 DEF Pending
<1>7. Timeouts'
  BY <1>1, <1>2, <1>5 DEF Live, Timeouts
<1> QED  BY <1>3, <1>4, <1>6, <1>7 DEF Assembled, Live

LEMMA GoroutineHas ==
  ASSUME HostInv, NEW c \in Calls,
         NEW p \in {"start", "answered", "sleep", "full", "due"}, Runs(c, p)
  PROVE  /\ InGo("after") /\ Orderly /\ promise[c] # "none" /\ db[c] # "pending"
         /\ DataTypes /\ Answers /\ pendingEvent \in Events \cup {None} /\ ~exited
<1>1. InGo("after") /\ pc[c] = p
  BY DEF Runs
<1>2. Orderly /\ ~exited
  BY <1>1, GoIsOn DEF Live, Pending
<1> QED  BY <1>1, <1>2 DEF Orderly, HostInv, Types

Pcs == {"none", "start", "await", "answered", "sleep", "full", "due", "done"}

LEMMA SettleKeeps ==
  ASSUME DataTypes, Orderly, NEW c \in Calls, promise[c] # "none", db[c] # "pending",
         NEW how \in {"fulfilled", "rejected"}, Settle(c, how), UNCHANGED db
  PROVE  /\ Orderly' /\ pc' \in [Calls -> Pcs]
         /\ promise' \in [Calls -> {"none", "pending", "fulfilled", "rejected"}]
<1>1. /\ pc \in [Calls -> Pcs] /\ promise \in [Calls -> {"none", "pending", "fulfilled", "rejected"}]
  BY DEF DataTypes, Pcs
<1>2. PICK p \in {"sleep", "done"} : pc' = [pc EXCEPT ![c] = p]
  BY DEF Settle
<1>3. promise' = [promise EXCEPT ![c] = how]
  BY DEF Settle
<1> QED  BY <1>1, <1>2, <1>3 DEF Orderly, Pcs

LEMMA AskKeeps ==
  ASSUME DataTypes, Orderly, NEW c \in Calls, promise[c] # "none", Ask(c), UNCHANGED promise
  PROVE  /\ Orderly' /\ pc' \in [Calls -> Pcs] /\ db' \in [Calls -> {"none", "pending", "settled"}]
         /\ promise' \in [Calls -> {"none", "pending", "fulfilled", "rejected"}]
BY DEF DataTypes, Orderly, Ask, Pcs

LEMMA MovedKeeps ==
  ASSUME DataTypes, Orderly, NEW c \in Calls, promise[c] # "none", db[c] # "pending",
         NEW p \in {"sleep", "full", "done", "due"}, pc' = [pc EXCEPT ![c] = p],
         UNCHANGED <<promise, db>>
  PROVE  Orderly' /\ pc' \in [Calls -> Pcs]
BY DEF DataTypes, Orderly, Pcs

LEMMA BeginKeeps ==
  ASSUME HostInv, NEW c \in Calls, Begin(c)
  PROVE  HostInv'
<1>1. /\ InGo("after") /\ Orderly /\ promise[c] # "none" /\ db[c] # "pending"
      /\ DataTypes /\ Answers /\ pendingEvent \in Events \cup {None}
  BY GoroutineHas DEF Begin
<1>2. UNCHANGED <<got, result, tries, msgs, timers, stack, pendingEvent, exited>>
  BY DEF Begin
<1>3. \/ Settle(c, "rejected") /\ UNCHANGED db
      \/ Ask(c) /\ UNCHANGED promise
  BY DEF Begin
<1>4. /\ Orderly' /\ pc' \in [Calls -> Pcs] /\ db' \in [Calls -> {"none", "pending", "settled"}]
      /\ promise' \in [Calls -> {"none", "pending", "fulfilled", "rejected"}]
  BY <1>1, <1>3, SettleKeeps, AskKeeps DEF DataTypes
<1>5. DataTypes' /\ Answers'
  BY <1>1, <1>2, <1>4 DEF DataTypes, Pcs, Answers, timers, Returned
<1>6. Assembled'
  BY <1>1, <1>2, <1>4, Works DEF timers
<1> QED  BY <1>1, <1>2, <1>5, <1>6 DEF HostInv, Types, Assembled

LEMMA WakeUpKeeps ==
  ASSUME HostInv, NEW c \in Calls, WakeUp(c)
  PROVE  HostInv'
<1>1. /\ InGo("after") /\ Orderly /\ promise[c] # "none" /\ db[c] # "pending"
      /\ DataTypes /\ Answers /\ pendingEvent \in Events \cup {None}
  BY GoroutineHas DEF WakeUp
<1>2. UNCHANGED <<got, result, tries, msgs, timers, stack, pendingEvent, exited>>
  BY DEF WakeUp
<1>3. \/ Settle(c, "rejected") /\ UNCHANGED db
      \/ Ask(c) /\ UNCHANGED promise
  BY DEF WakeUp
<1>4. /\ Orderly' /\ pc' \in [Calls -> Pcs] /\ db' \in [Calls -> {"none", "pending", "settled"}]
      /\ promise' \in [Calls -> {"none", "pending", "fulfilled", "rejected"}]
  BY <1>1, <1>3, SettleKeeps, AskKeeps DEF DataTypes
<1>5. DataTypes' /\ Answers'
  BY <1>1, <1>2, <1>4 DEF DataTypes, Pcs, Answers, timers, Returned
<1>6. Assembled'
  BY <1>1, <1>2, <1>4, Works DEF timers
<1> QED  BY <1>1, <1>2, <1>5, <1>6 DEF HostInv, Types, Assembled

LEMMA GoOnKeeps ==
  ASSUME HostInv, NEW c \in Calls, GoOn(c)
  PROVE  HostInv'
<1>1. /\ InGo("after") /\ Orderly /\ promise[c] # "none" /\ db[c] # "pending"
      /\ DataTypes /\ Answers /\ pendingEvent \in Events \cup {None}
  BY GoroutineHas DEF GoOn
<1>2. UNCHANGED <<got, result, db, timers, stack, pendingEvent, exited>>
  BY DEF GoOn
<1>3. \/ UNCHANGED tries /\ (Settle(c, "fulfilled") \/ Settle(c, "rejected"))
      \/ UNCHANGED promise /\ pc' = [pc EXCEPT ![c] = "sleep"] /\ tries' = [tries EXCEPT ![c] = @ + 1]
  BY DEF GoOn
<1>4. /\ Orderly' /\ pc' \in [Calls -> Pcs]
      /\ promise' \in [Calls -> {"none", "pending", "fulfilled", "rejected"}]
  BY <1>1, <1>2, <1>3, SettleKeeps, MovedKeeps DEF DataTypes
<1>5. tries' \in [Calls -> Nat]
  BY <1>1, <1>3 DEF DataTypes
<1>6. DataTypes' /\ Answers'
  BY <1>1, <1>2, <1>4, <1>5 DEF DataTypes, Pcs, Answers, timers, Returned
<1>7. Assembled'
  BY <1>1, <1>2, <1>4, Works DEF timers
<1> QED  BY <1>1, <1>2, <1>6, <1>7 DEF HostInv, Types, Assembled

\* The poll of a subscription, answered or given up, moves its goroutine only.
LEMMA PollsKeep ==
  ASSUME HostInv, NEW c \in Calls, Poll(c) \/ GiveUp(c)
  PROVE  HostInv'
<1>1. /\ InGo("after") /\ Orderly /\ promise[c] # "none" /\ db[c] # "pending"
      /\ DataTypes /\ Answers /\ pendingEvent \in Events \cup {None}
  BY GoroutineHas DEF Poll, PolledBy, GiveUp
<1>2. UNCHANGED <<calls, tries, db, timers, stack, pendingEvent, exited>>
  BY DEF Poll, PolledBy, GiveUp
<1>3. PICK p \in {"sleep", "full", "done"} : pc' = [pc EXCEPT ![c] = p]
  BY DEF Poll, PolledBy, GiveUp, Polled
<1>4. Orderly' /\ pc' \in [Calls -> Pcs]
  BY <1>1, <1>2, <1>3, MovedKeeps DEF calls
<1>5. DataTypes' /\ Answers'
  BY <1>1, <1>2, <1>4 DEF DataTypes, Pcs, Answers, calls, timers, Returned
<1>6. Assembled'
  BY <1>1, <1>2, <1>4, Works DEF calls, timers
<1> QED  BY <1>1, <1>2, <1>5, <1>6 DEF HostInv, Types, Assembled

LEMMA DueKeeps ==
  ASSUME HostInv, NEW c \in Calls, Due(c)
  PROVE  HostInv'
<1>1. /\ InGo("after") /\ Orderly /\ promise[c] # "none" /\ db[c] # "pending"
      /\ DataTypes /\ Answers /\ pendingEvent \in Events \cup {None}
  BY GoroutineHas DEF Due
<1>2. UNCHANGED <<calls, tries, db, scheduled, hostTimers, nextId, stack, pendingEvent, exited>>
  BY DEF Due, host
<1>3. pc' = [pc EXCEPT ![c] = "due"]
      /\ (idle' = idle \/ (idle # None /\ idle' = [idle EXCEPT !.for = None]))
  BY DEF Due, Forget
<1>4. Orderly' /\ pc' \in [Calls -> Pcs]
  BY <1>1, <1>2, <1>3, MovedKeeps DEF calls
<1>5. idle' \in [id : Nat, for : Calls \cup {None}] \cup {None}
  BY <1>1, <1>3 DEF DataTypes
<1>6. DataTypes' /\ Answers'
  BY <1>1, <1>2, <1>4, <1>5 DEF DataTypes, Pcs, Answers, calls, Returned
<1>7. Assembled'
  BY <1>1, <1>2, <1>3, <1>4, Works DEF calls
<1> QED  BY <1>1, <1>2, <1>6, <1>7 DEF HostInv, Types, Assembled

LEMMA DeliverKeeps ==
  ASSUME HostInv, NEW s \in Subs, Deliver(s)
  PROVE  HostInv'
<1>1. /\ stack # <<>> /\ ~exited /\ Live /\ Top.kind = "go" /\ Top.phase = "after"
      /\ ~Taking(stack) /\ ~Fired(stack) /\ pendingEvent = None /\ stack \in Seq(Frames)
      /\ Top = Last(stack)
  BY GoIsOn DEF Deliver
<1> DEFINE f == JsFrame("callback", s)
<1>2. /\ stack' = Append(stack, f)
      /\ UNCHANGED <<calls, tries, db, scheduled, hostTimers, nextId, pendingEvent, exited>>
  BY DEF Deliver
<1>3. f \in JsFrames /\ f \in Frames /\ f.kind = "callback" /\ s \in Calls
  BY DEF JsFrame, JsFrames, Frames, Calls
<1> HIDE DEF f
<1>4. On(Top, f)
  BY <1>1, <1>3 DEF On
<1>5. \/ UNCHANGED <<pc, idle>>
      \/ pc[s] = "full" /\ Forget(s) /\ \E p \in {"sleep", "done"} : pc' = [pc EXCEPT ![s] = p]
  BY DEF Deliver, Polled
<1>6. pc' \in [Calls -> Pcs] /\ Orderly'
  <2>1. Orderly /\ pc \in [Calls -> Pcs]
    BY <1>1 DEF Live, Pending, HostInv, Types, DataTypes, Pcs
  <2>2. CASE pc' = pc
    BY <1>2, <2>1, <2>2 DEF Orderly, calls
  <2>3. ASSUME NEW p \in {"sleep", "done"}, pc[s] = "full", pc' = [pc EXCEPT ![s] = p]
        PROVE  pc' \in [Calls -> Pcs] /\ Orderly'
    <3>1. promise[s] # "none" /\ db[s] # "pending"
      BY <1>3, <2>1, <2>3 DEF Orderly
    <3>2. DataTypes /\ UNCHANGED <<promise, db>>
      BY <1>2 DEF HostInv, Types, calls
    <3> QED  BY <1>3, <2>1, <2>3, <3>1, <3>2, MovedKeeps
  <2> QED  BY <1>5, <2>2, <2>3
<1>7. /\ idle' \in [id : Nat, for : Calls \cup {None}] \cup {None}
      /\ idle' = None <=> idle = None
      /\ idle # None => idle'.id = idle.id
  <2>1. idle \in [id : Nat, for : Calls \cup {None}] \cup {None}
    BY DEF HostInv, Types, DataTypes
  <2>2. ASSUME idle # None, idle' = [idle EXCEPT !.for = None]
        PROVE  idle' \in [id : Nat, for : Calls \cup {None}] /\ idle'.id = idle.id /\ idle' # None
    <3>1. idle' \in [id : Nat, for : Calls \cup {None}] /\ idle'.id = idle.id
      BY <2>1, <2>2
    <3> QED  BY <3>1, NoneDiffers
  <2>3. idle' = idle \/ (idle # None /\ idle' = [idle EXCEPT !.for = None])
    BY <1>5 DEF Forget
  <2> QED  BY <2>1, <2>2, <2>3
<1>8. stack' \in Seq(Frames) /\ stack' # <<>> /\ Last(stack') = f
  BY <1>1, <1>2, <1>3, PushIsSeq
<1>9. Chain(stack')
  BY <1>1, <1>2, <1>3, <1>4, ChainPushed DEF Live
<1>10. NoneBlocked(stack') /\ AllRight(stack', result') /\ AllOld(stack', nextId', idle')
  <2>1. ~Blocked(f) /\ Right(f, result') /\ Old(f, nextId', idle')
    BY <1>3 DEF Blocked, Right, Old
  <2>2. AllRight(stack, result') /\ NoneBlocked(stack)
    BY <1>1, <1>2 DEF Live, HostInv, calls
  <2>3. AllOld(stack, nextId', idle')
    BY <1>1, <1>2, <1>7 DEF Live, AllOld, Old
  <2> QED  BY <1>1, <1>2, <1>3, <2>1, <2>2, <2>3, FramesKeep
<1>11. Top' = f /\ ~Taking(stack') /\ ~Fired(stack')
  BY <1>3, <1>8 DEF Top, Last, Taking, Fired
<1>12. Pending'
  BY <1>1, <1>2, <1>3, <1>6, <1>11 DEF Pending
<1>13. Timeouts'
  BY <1>1, <1>2, <1>7, <1>8, <1>11 DEF Live, Timeouts
<1>14. DataTypes' /\ Answers'
  BY <1>2, <1>6, <1>7 DEF HostInv, Types, DataTypes, Answers, Returned, calls, Pcs
<1> QED  BY <1>1, <1>2, <1>8, <1>9, <1>10, <1>12, <1>13, <1>14 DEF HostInv, Types, Live

-----------------------------------------------------------------------------
(* Steps that end a frame. *)

LEMMA ReturnFromNewKeeps ==
  ASSUME HostInv, ReturnFromNew
  PROVE  HostInv'
<1> DEFINE r == Pop(stack)
           c == Top.of
           up == Last(r)
           f == [up EXCEPT !.phase = "after"]
<1>1. /\ stack # <<>> /\ Top.kind = "new" /\ ~exited /\ ~exited' /\ stack \in Seq(Frames) /\ Live
      /\ UNCHANGED <<got, promise, tasks, msgs, timers, pendingEvent, exited>>
  BY DEF ReturnFromNew, InJs, HostInv, Types
<1>2. /\ Top = Last(stack) /\ Top \in JsFrames /\ Len(stack) \in Nat \ {0}
  BY <1>1, TopIsFrame DEF HostInv
<1>3. c \in Calls
  BY <1>2 DEF JsFrames
<1>4. /\ r # <<>> /\ On(up, Top) /\ Chain(r) /\ up = stack[Len(stack) - 1]
      /\ Len(stack) - 1 \in 1..Len(stack)
  BY <1>1, <1>2, ChainPopped DEF Live
<1>5. /\ r \in Seq(Frames) /\ Len(r) = Len(stack) - 1 /\ up \in Frames
  BY <1>1, <1>4, PopIsSeq, LastIsFrame
<1>6. /\ up.kind = "go" /\ up.phase = "handler" /\ up.taken.fn = "call" /\ up.taken.of = c
      /\ c \notin Invalid \cup Panicking /\ up \in GoFrames
  BY <1>1, <1>4, <1>5, KindOfFrame DEF On
<1>7. Right(up, result) /\ Old(up, nextId, idle)
  BY <1>1, <1>4 DEF Live, AllRight, AllOld
<1>8. /\ f \in GoFrames /\ f \in Frames /\ f.kind = "go" /\ f.phase = "after" /\ f.ev = up.ev
      /\ f.timer = up.timer /\ f.taken = up.taken
  BY <1>6 DEF GoFrames, Frames
<1>9. stack' = Put(r, f)
  <2>1. stack' = [Below(1) EXCEPT ![Len(stack) - 1].phase = "after"] /\ Below(1) = r
    BY DEF ReturnFromNew, Below, Pop
  <2> QED  BY <1>5, <2>1 DEF Put, Last
<1>10. result' = [result EXCEPT ![c] = Returned(c)]
  <2>1. result' = [result EXCEPT ![up.taken.of] = Promise(c)]
    BY <1>4 DEF ReturnFromNew
  <2> QED  BY <1>6, <2>1 DEF Returned
<1> HIDE DEF f, r, up, c
<1>11. AllRight(stack, result') /\ AllOld(stack, nextId', idle')
  BY <1>1, <1>3, <1>10, RightStays DEF Live, HostInv, timers
<1>12. ~Blocked(f) /\ Right(f, result') /\ Old(f, nextId', idle')
  <2>1. result'[c] = Returned(c)
    BY <1>3, <1>10 DEF HostInv, Types, DataTypes
  <2>2. Right(f, result')
    BY <1>6, <1>7, <1>8, <2>1 DEF Right
  <2> QED  BY <1>1, <1>6, <1>7, <1>8, <2>2 DEF Blocked, Old, timers
<1>13. /\ NoneBlocked(r) /\ AllRight(r, result') /\ AllOld(r, nextId', idle')
  BY <1>1, <1>8, <1>11, FramesKeep DEF r, HostInv
<1>14. /\ NoneBlocked(stack') /\ AllRight(stack', result') /\ AllOld(stack', nextId', idle')
  BY <1>4, <1>5, <1>8, <1>9, <1>12, <1>13, FramesKeep
<1>15. /\ stack' \in Seq(Frames) /\ stack' # <<>> /\ Last(stack') = f
  BY <1>4, <1>5, <1>8, <1>9, PutIsSeq
<1>16. Chain(stack')
  BY <1>4, <1>5, <1>6, <1>8, <1>9, ChainPut DEF up
<1>17. Top' = f /\ ~Taking(stack') /\ ~Fired(stack') /\ ~Taking(stack) /\ ~Fired(stack)
  BY <1>1, <1>2, <1>8, <1>15 DEF Top, Last, Taking, Fired
<1>18. Pending'
  <2>1. Orderly' /\ pendingEvent' = None
    BY <1>1, <1>17 DEF Live, Pending, Orderly, tasks
  <2> QED  BY <1>8, <1>17, <2>1 DEF Pending
<1>19. Timeouts'
  BY <1>1, <1>15, <1>17 DEF Live, Timeouts, timers
<1>20. DataTypes' /\ Answers'
  <2>1. Returned(c) \in Results
    BY <1>3 DEF Returned, Results
  <2> QED  BY <1>1, <1>10, <2>1 DEF HostInv, Types, DataTypes, Answers, Returned, tasks, timers
<1> QED  BY <1>1, <1>14, <1>15, <1>16, <1>18, <1>19, <1>20 DEF HostInv, Types, Live

LEMMA CallbackReturnsKeeps ==
  ASSUME HostInv, CallbackReturns
  PROVE  HostInv'
<1>1. /\ stack # <<>> /\ Top.kind = "callback" /\ stack' = Pop(stack)
      /\ UNCHANGED <<calls, tasks, msgs, timers, pendingEvent, exited>>
  BY DEF CallbackReturns, InJs, Below, Pop
<1>2. stack' \in Seq(Frames) /\ NoneBlocked(stack')
  BY <1>1, PopsTop
<1>3. DataTypes' /\ Answers' /\ pendingEvent' \in Events \cup {None}
  <2>1. DataTypes'
    BY <1>1, DataStays DEF HostInv, Types, calls, tasks, timers
  <2> QED  BY <1>1, <2>1 DEF HostInv, Types, Answers, Returned, calls
<1>4. ASSUME ~exited'
      PROVE  Live'
  <2>1. ~exited /\ UNCHANGED <<result, promise, pc, db, timers, pendingEvent>> /\ Live
    BY <1>1, <1>4 DEF calls, tasks, HostInv
  <2>2. /\ Chain(stack') /\ AllRight(stack', result) /\ AllOld(stack', nextId, idle)
        /\ stack' # <<>> /\ On(Top', Top)
    BY <1>1, <2>1, PopsTop
  <2>3. Top'.kind = "go" /\ Top'.phase = "after"
    BY <1>1, <2>2 DEF On
  <2>4. /\ ~Taking(stack') /\ ~Fired(stack') /\ ~Taking(stack) /\ ~Fired(stack)
    BY <1>1, <2>3 DEF Taking, Fired, Last, Top
  <2>5. Pending'
    <3>1. Orderly' /\ pendingEvent' = None
      BY <2>1, <2>4 DEF Live, Pending, Orderly
    <3> QED  BY <2>3, <2>4, <3>1 DEF Pending
  <2>6. Timeouts'
    BY <2>1, <2>2, <2>4 DEF Live, Timeouts, timers
  <2> QED  BY <2>1, <2>2, <2>5, <2>6 DEF Live, timers
<1> QED  BY <1>2, <1>3, <1>4 DEF HostInv, Types

\* What a frame of Go gives to a call that began it.
LEMMA GivesAnswer ==
  ASSUME DataTypes, Answers, NEW f \in GoFrames, NEW v \in Results \cup {Threw},
         UNCHANGED <<promise, pc, db, tries, result, nextId, idle>>, exited' \in BOOLEAN,
         f.ev # None /\ f.ev.fn = "call" => v \in {Threw, Returned(f.ev.of)},
         got' = IF f.ev # None /\ f.ev.fn = "call" THEN [got EXCEPT ![f.ev.of] = v] ELSE got
  PROVE  DataTypes' /\ Answers'
<1>1. f.ev # None => f.ev.of \in Calls
  BY DEF GoFrames, Events
<1>2. got' \in [Calls -> Results \cup {NotYet, Threw}]
  BY <1>1 DEF DataTypes
<1>3. DataTypes'
  BY <1>2 DEF DataTypes
<1>4. Answers'
  <2>1. ASSUME NEW c \in Calls
        PROVE  got'[c] \in {NotYet, Threw, Returned(c)}
    BY <1>1, <2>1 DEF Answers, DataTypes
  <2> QED  BY <2>1 DEF Answers, Returned
<1> QED  BY <1>3, <1>4

LEMMA UnwindKeeps ==
  ASSUME HostInv, Unwind
  PROVE  HostInv'
<1>1. /\ exited /\ exited' = exited /\ stack # <<>> /\ stack' = Pop(stack)
      /\ UNCHANGED <<promise, result, tasks, msgs, timers, pendingEvent>>
  BY DEF Unwind, Below, Pop
<1>2. stack' \in Seq(Frames) /\ NoneBlocked(stack')
  BY <1>1, PopsTop
<1>3. DataTypes' /\ Answers'
  <2>1. CASE Top.kind = "go"
    <3>1. Top \in GoFrames /\ DataTypes /\ Answers
      BY <1>1, <2>1, TopIsFrame DEF HostInv, Types
    <3>2. got' = IF Top.ev # None /\ Top.ev.fn = "call" THEN [got EXCEPT ![Top.ev.of] = Threw] ELSE got
      BY <2>1 DEF Unwind
    <3>3. UNCHANGED <<promise, pc, db, tries, result, nextId, idle>> /\ exited' \in BOOLEAN
      BY <1>1 DEF tasks, timers, HostInv, Types, DataTypes
    <3> QED  BY <3>1, <3>2, <3>3, GivesAnswer
  <2>2. CASE Top.kind # "go"
    <3>1. got' = got
      BY <2>2 DEF Unwind
    <3>2. DataTypes'
      BY <1>1, <3>1, DataStays DEF HostInv, Types, tasks, timers
    <3> QED  BY <3>1, <3>2 DEF HostInv, Answers, Returned
  <2> QED  BY <2>1, <2>2
<1> QED  BY <1>1, <1>2, <1>3 DEF HostInv, Types

LEMMA CallbackThrowsKeeps ==
  ASSUME HostInv, CallbackThrows
  PROVE  HostInv'
<1> DEFINE f == stack[Len(stack) - 1]
<1>1. /\ stack # <<>> /\ Top.kind = "callback" /\ ~exited /\ exited' = TRUE /\ Live
      /\ stack' = SubSeq(stack, 1, Len(stack) - 2) /\ stack \in Seq(Frames)
      /\ UNCHANGED <<promise, result, tasks, msgs, timers, pendingEvent>>
  BY DEF CallbackThrows, InJs, Below, HostInv, Types
<1>2. Top = Last(stack) /\ Len(stack) \in Nat \ {0}
  BY <1>1, TopIsFrame DEF HostInv
<1>3. On(f, Top) /\ Len(stack) - 1 \in 1..Len(stack)
  BY <1>1, <1>2, ChainPopped DEF Live
<1>4. f.kind = "go" /\ f.phase = "after" /\ f \in GoFrames /\ Right(f, result)
  <2>1. f.kind = "go" /\ f.phase = "after"
    BY <1>1, <1>3 DEF On
  <2>2. f \in Frames /\ Right(f, result)
    BY <1>1, <1>3, ElementOfSeq DEF Live, AllRight
  <2> QED  BY <2>1, <2>2, KindOfFrame
<1>5. DataTypes' /\ Answers'
  <2>1. got' = IF f.ev # None /\ f.ev.fn = "call" THEN [got EXCEPT ![f.ev.of] = result[f.ev.of]] ELSE got
    BY DEF CallbackThrows
  <2>2. f.ev # None /\ f.ev.fn = "call" => result[f.ev.of] = Returned(f.ev.of)
    BY <1>4 DEF Right
  <2>3. f.ev # None => f.ev.of \in Calls
    BY <1>4 DEF GoFrames, Events
  <2>4. UNCHANGED <<promise, pc, db, tries, result, nextId, idle>> /\ exited' \in BOOLEAN
    BY <1>1 DEF tasks, timers
  <2>5. CASE f.ev # None /\ f.ev.fn = "call"
    <3>1. result[f.ev.of] \in Results \cup {Threw}
      BY <2>3, <2>5 DEF HostInv, Types, DataTypes
    <3> QED  BY <1>4, <2>1, <2>2, <2>4, <2>5, <3>1, GivesAnswer DEF HostInv, Types
  <2>6. CASE ~(f.ev # None /\ f.ev.fn = "call")
    <3>1. got' = got
      BY <2>1, <2>6
    <3> QED  BY <2>4, <3>1 DEF HostInv, Types, DataTypes, Answers, Returned
  <2> QED  BY <2>5, <2>6
<1>6. stack' \in Seq(Frames) /\ NoneBlocked(stack')
  <2> DEFINE n == Len(stack) - 2
  <2>1. n \in Int /\ n < Len(stack) /\ (n \in Nat \/ n < 1)
    BY <1>2
  <2>2. \A k \in 1..n : k \in 1..Len(stack) /\ stack[k] \in Frames
    <3>1. \A k \in 1..n : k \in 1..Len(stack)
      BY <1>2
    <3> QED  BY <1>1, <3>1, ElementOfSeq
  <2> HIDE DEF n
  <2>3. /\ SubSeq(stack, 1, n) \in Seq(Frames)
        /\ Len(SubSeq(stack, 1, n)) = IF 1 <= n THEN n - 1 + 1 ELSE 0
        /\ \A k \in 1..(n - 1 + 1) : SubSeq(stack, 1, n)[k] = stack[1 + k - 1]
    BY <2>1, <2>2, SubSeqProperties
  <2>4. \A k \in 1..Len(SubSeq(stack, 1, n)) : k \in 1..n /\ SubSeq(stack, 1, n)[k] = stack[k]
    BY <2>1, <2>3
  <2>5. stack' = SubSeq(stack, 1, n)
    BY <1>1 DEF n
  <2> QED  BY <2>2, <2>3, <2>4, <2>5 DEF NoneBlocked, HostInv
<1> QED  BY <1>1, <1>5, <1>6 DEF HostInv, Types

-----------------------------------------------------------------------------
(* Timeouts, and Go when it is idle. *)

LEMMA FireTimerKeeps ==
  ASSUME HostInv, NEW t \in hostTimers, FireTimer(t)
  PROVE  HostInv'
<1>1. /\ stack = <<>> /\ hostTimers' = hostTimers \ {t} /\ stack \in Seq(Frames)
      /\ UNCHANGED <<calls, tasks, msgs, scheduled, nextId, idle, pendingEvent, exited>>
  BY DEF FireTimer, HostInv, Types
<1>2. DataTypes' /\ Answers' /\ pendingEvent' \in Events \cup {None}
  <2>1. DataTypes'
    BY <1>1, DataStays DEF HostInv, Types, calls, tasks
  <2> QED  BY <1>1, <2>1 DEF HostInv, Types, Answers, Returned, calls
<1>3. CASE exited
  <2>1. stack' = stack
    BY <1>3 DEF FireTimer
  <2> QED  BY <1>1, <1>2, <1>3, <2>1 DEF HostInv, Types, NoneBlocked
<1>4. CASE ~exited
  <2> DEFINE f == GoFrame(None, t)
  <2>1. /\ Live /\ ~Taking(stack) /\ ~Fired(stack) /\ ~exited'
        /\ UNCHANGED <<result, promise, pc, db>>
    BY <1>1, <1>4 DEF HostInv, Taking, Fired, calls, tasks
  <2>2. scheduled = hostTimers /\ idle # None /\ hostTimers = {idle.id} /\ t = idle.id
        /\ idle.id < nextId
    BY <2>1 DEF Live, Timeouts
  <2>3. t \in Nat
    BY <2>2 DEF HostInv, Types, DataTypes
  <2>4. /\ f \in GoFrames /\ f \in Frames /\ f.kind = "go" /\ f.ev = None /\ f.timer = t
        /\ f.phase = "take"
    BY <2>3 DEF GoFrame, GoFrames, Frames
  <2>5. stack' = Append(stack, f)
    BY <1>4 DEF FireTimer
  <2> HIDE DEF f
  <2>6. stack' \in Seq(Frames) /\ stack' # <<>> /\ Last(stack') = f
    BY <1>1, <2>4, <2>5, PushIsSeq
  <2>7. Chain(stack')
    BY <1>1, <2>1, <2>4, <2>5, ChainPushed DEF Live
  <2>8. ~Blocked(f) /\ Right(f, result) /\ Old(f, nextId, idle)
    BY <2>2, <2>4 DEF Blocked, Right, Old
  <2>9. NoneBlocked(stack') /\ AllRight(stack', result') /\ AllOld(stack', nextId', idle')
    BY <1>1, <2>1, <2>4, <2>5, <2>8, FramesKeep DEF HostInv, Live
  <2>10. Top' = f /\ Fired(stack') /\ Taking(stack')
    BY <2>4, <2>6 DEF Top, Last, Fired, Taking
  <2>11. Pending'
    <3>1. Orderly' /\ pendingEvent' = None
      BY <1>1, <2>1 DEF Live, Pending, Orderly
    <3> QED  BY <2>4, <2>10, <3>1 DEF Pending
  <2>12. Timeouts'
    BY <1>1, <2>2, <2>4, <2>6, <2>10 DEF Timeouts
  <2> QED  BY <1>2, <2>6, <2>7, <2>9, <2>11, <2>12 DEF HostInv, Types, Live
<1> QED  BY <1>3, <1>4

\* When Go is idle and somebody sleeps, it knows of a timeout, and the host and the
\* table have that one only.
LEMMA IdleSets ==
  ASSUME HostInv, Idle
  PROVE  /\ nextId' \in Nat /\ idle' \in [id : Nat, for : Calls \cup {None}] \cup {None}
         /\ AllOld(stack, nextId', idle')
         /\ idle' # None => idle'.id < nextId'
         /\ scheduled' = hostTimers' /\ hostTimers' = (IF idle' = None THEN {} ELSE {idle'.id})
         /\ Sleepers # {} => idle' # None
<1>1. /\ Live /\ ~Fired(stack)
  BY GoIsOn DEF Idle
<1>2. /\ scheduled = hostTimers /\ hostTimers = (IF idle = None THEN {} ELSE {idle.id})
      /\ idle # None => idle.id < nextId
      /\ AllOld(stack, nextId, idle)
  BY <1>1 DEF Live, Timeouts
<1>3. nextId \in Nat /\ idle \in [id : Nat, for : Calls \cup {None}] \cup {None}
  BY DEF HostInv, Types, DataTypes
<1>4. CASE UNCHANGED timers /\ (Sleepers = {} \/ idle # None)
  BY <1>2, <1>3, <1>4 DEF timers
<1>5. CASE \E c \in Sleepers : scheduleTimeoutEvent(c)
  <2>1. PICK c \in Sleepers : scheduleTimeoutEvent(c)
    BY <1>5
  <2>2. nextId' = nextId + 1 /\ idle' = [id |-> nextId, for |-> c] /\ c \in Calls
    BY <2>1 DEF scheduleTimeoutEvent, Sleepers
  <2>3. scheduled' = {nextId} /\ hostTimers' = {nextId}
    BY <1>2, <2>1 DEF scheduleTimeoutEvent, clearTimeoutEvent
  <2>4. idle' \in [id : Nat, for : Calls \cup {None}] /\ idle' # None /\ idle'.id = nextId
    BY <1>3, <2>2, NoneDiffers
  <2>5. AllOld(stack, nextId', idle')
    BY <1>2, <2>2, OldStays DEF HostInv
  <2> QED  BY <1>3, <2>2, <2>3, <2>4, <2>5
<1> QED  BY <1>4, <1>5 DEF Idle

LEMMA IdleKeeps ==
  ASSUME HostInv, Idle
  PROVE  HostInv'
<1>1. /\ stack # <<>> /\ stack \in Seq(Frames) /\ ~exited /\ Live
      /\ Top \in GoFrames /\ Top.kind = "go" /\ Top.phase = "after"
      /\ Right(Top, result) /\ Old(Top, nextId, idle) /\ ~Fired(stack) /\ pendingEvent = None
  BY GoIsOn DEF Idle
<1>2. UNCHANGED <<promise, result, tasks, msgs, pendingEvent, exited>> /\ GoReturns
  BY DEF Idle
<1>3. ~(Top.timer # None /\ Top.timer \in scheduled)
  BY <1>1 DEF Live, Timeouts, Old
<1>4. /\ stack' = Below(1)
      /\ got' = IF Top.ev # None /\ Top.ev.fn = "call"
                THEN [got EXCEPT ![Top.ev.of] = result[Top.ev.of]] ELSE got
  BY <1>2, <1>3 DEF GoReturns
<1>5. stack' = Pop(stack)
  BY <1>4 DEF Below, Pop
<1>6. DataTypes' /\ Answers'
  <2>1. Top.ev # None => Top.ev.of \in Calls
    BY <1>1 DEF GoFrames, Events
  <2>2. Top.ev # None /\ Top.ev.fn = "call" => result[Top.ev.of] = Returned(Top.ev.of)
    BY <1>1 DEF Right
  <2>3. got' \in [Calls -> Results \cup {NotYet, Threw}]
    BY <1>4, <2>1 DEF HostInv, Types, DataTypes
  <2>4. DataTypes'
    BY <1>2, <2>3, IdleSets DEF HostInv, Types, DataTypes, tasks
  <2>5. ASSUME NEW c \in Calls
        PROVE  got'[c] \in {NotYet, Threw, Returned(c)}
    BY <1>4, <2>1, <2>2, <2>5 DEF HostInv, Types, DataTypes, Answers
  <2> QED  BY <2>4, <2>5 DEF Answers, Returned
<1>7. /\ stack' \in Seq(Frames) /\ NoneBlocked(stack')
      /\ Chain(stack') /\ AllRight(stack', result)
      /\ stack' # <<>> => On(Top', Top) /\ Top' \in Frames
  BY <1>1, <1>5, PopsTop
<1>8. AllOld(stack', nextId', idle')
  BY <1>1, <1>5, IdleSets, FramesKeep
<1>9. stack' # <<>> => Top'.kind # "go" /\ (Top'.kind = "new" => Top'.ran)
  BY <1>1, <1>7 DEF On
<1>10. ~Taking(stack') /\ ~Fired(stack')
  BY <1>9 DEF Taking, Fired, Last, Top
<1>11. Pending'
  <2>1. Orderly' /\ pendingEvent' = None
    BY <1>1, <1>2 DEF Live, Pending, Orderly, tasks
  <2> QED  BY <1>9, <1>10, <2>1 DEF Pending
<1>12. Timeouts'
  <2>1. Sleepers' = Sleepers
    BY <1>2 DEF Sleepers, tasks
  <2> QED  BY <1>10, <2>1, IdleSets DEF Timeouts
<1> QED  BY <1>1, <1>2, <1>6, <1>7, <1>8, <1>11, <1>12 DEF HostInv, Types, Live

-----------------------------------------------------------------------------
(* The invariant, and what follows. *)

LEMMA HostInit == Init => HostInv
<1> SUFFICES ASSUME Init PROVE HostInv
  OBVIOUS
<1>1. stack = <<>> /\ stack \in Seq(Frames) /\ Len(stack) = 0 /\ ~Taking(stack) /\ ~Fired(stack)
  BY EmptySeq DEF Init, Taking, Fired
<1>2. DataTypes /\ pendingEvent \in Events \cup {None}
  BY DEF Init, DataTypes, Results
<1>3. Answers
  BY DEF Init, Answers
<1>4. NoneBlocked(stack) /\ Chain(stack) /\ AllRight(stack, result) /\ AllOld(stack, nextId, idle)
  BY <1>1 DEF NoneBlocked, Chain, AllRight, AllOld
<1>5. Pending
  BY <1>1 DEF Init, Pending, Orderly
<1>6. Timeouts
  BY <1>1 DEF Init, Timeouts, Sleepers
<1> QED  BY <1>1, <1>2, <1>3, <1>4, <1>5, <1>6 DEF HostInv, Types, Live

LEMMA HostStep == HostInv /\ [Next]_vars => HostInv'
<1> SUFFICES ASSUME HostInv, [Next]_vars PROVE HostInv'
  OBVIOUS
<1>1. CASE \E c \in Calls : ApiCall(c)
  BY <1>1, ApiCallKeeps
<1>2. CASE \E s \in Subs : Listen(s) \/ Deliver(s)
  BY <1>2, ListenKeeps, DeliverKeeps
<1>3. CASE CallbackThrows \/ CallbackReturns \/ Unwind
  BY <1>3, CallbackThrowsKeeps, CallbackReturnsKeeps, UnwindKeeps
<1>4. CASE RunExecutor \/ ReturnFromNew
  BY <1>4, RunExecutorKeeps, ReturnFromNewKeeps
<1>5. CASE \E c \in Calls, o \in {"ok", "error"} : Answer(c, o)
  BY <1>5, AnswerKeeps
<1>6. CASE TakeEvent \/ HandleCall \/ HandlerPanics \/ HandleExec \/ HandleAnswer \/ HandleData
  BY <1>6, TakeEventKeeps, HandleCallKeeps, HandlerPanicsKeeps, HandleExecKeeps,
     HandleAnswerKeeps,
     HandleDataKeeps
<1>7. CASE \E c \in Calls : Begin(c) \/ GoOn(c) \/ Poll(c) \/ WakeUp(c) \/ GiveUp(c) \/ Due(c)
  BY <1>7, BeginKeeps, GoOnKeeps, PollsKeep, WakeUpKeeps, DueKeeps
<1>8. CASE Idle \/ HandleTimer \/ \E t \in hostTimers : FireTimer(t)
  BY <1>8, IdleKeeps, HandleTimerKeeps, FireTimerKeeps
<1>9. CASE UNCHANGED vars
  <2>1. UNCHANGED <<stack, pendingEvent, exited, result, promise, pc, db, timers, got, tries>>
    BY <1>9 DEF vars, calls, tasks, host
  <2>2. Assembled'
    BY <2>1, Rests
  <2>3. DataTypes'
    BY <2>1, DataStays DEF HostInv, Types, timers
  <2> QED  BY <2>1, <2>2, <2>3 DEF HostInv, Types, Assembled, Answers, Returned
<1> QED  BY <1>1, <1>2, <1>3, <1>4, <1>5, <1>6, <1>7, <1>8, <1>9 DEF Next, Running

LEMMA HostInvariant == Spec => []HostInv
BY HostInit, HostStep, PTL DEF Spec

\* The state of the two programs keeps its types: the stack is made of frames of Go and
\* of JavaScript, and every goroutine has one of its steps.
THEOREM HostTypes == Spec => []Types
<1>1. HostInv => Types
  BY DEF HostInv
<1> QED  BY <1>1, HostInvariant, PTL

\* However deep the programs call each other, a call returns what its own handler
\* returned (_makeFuncWrapper, handleEvent).
THEOREM CallsGetTheirOwn == Spec => []OwnAnswer
<1>1. HostInv => OwnAnswer
  BY DEF HostInv, Answers, Returned, OwnAnswer
<1> QED  BY <1>1, HostInvariant, PTL

\* No function of then and catch waits for a goroutine that has gone, or not come yet,
\* and so JavaScript never hangs in a call of Go (await).
THEOREM NothingHangs == Spec => []HandlersReturn
<1>1. HostInv => HandlersReturn
  BY DEF HostInv, NoneBlocked, Blocked, HandlersReturn
<1> QED  BY <1>1, HostInvariant, PTL

\* When the event loop is free and a goroutine sleeps, the host has the one timeout
\* that Go and the table know of (scheduleTimeoutEvent, clearTimeoutEvent).
THEOREM SleepersHaveATimeout == Spec => []SleepersAreWoken
<1>1. HostInv => SleepersAreWoken
  <2> SUFFICES ASSUME HostInv, stack = <<>>, ~exited
               PROVE  /\ Sleepers # {} => idle # None
                      /\ hostTimers = (IF idle = None THEN {} ELSE {idle.id})
                      /\ scheduled = hostTimers
    BY DEF SleepersAreWoken
  <2>1. ~Fired(stack)
    BY DEF Fired, Taking
  <2> QED  BY <2>1 DEF HostInv, Live, Timeouts
<1> QED  BY <1>1, HostInvariant, PTL
=============================================================================
