----------------------------- MODULE JsValues -----------------------------
(***************************************************************************)
(* The JavaScript values that the Go program of the npm package holds       *)
(* (src/wasm/js/wasm_exec.js).                                              *)
(*                                                                          *)
(* Go has no pointers to JavaScript values.  It has 64 bit words: a number  *)
(* is the word itself, everything else is an index into the table _values,  *)
(* whose entries are counted, shared by equal values, and used again when   *)
(* Go's collector has finalized the last word that names them.  A word that *)
(* outlives its entry would silently stand for another value: the database  *)
(* client, a callback or a row of somebody else.                            *)
(*                                                                          *)
(* Go calls an imported function with a pointer sp into its stack, where    *)
(* the operands are and the result goes.  The function runs JavaScript,     *)
(* which may call back into Go on the same goroutine; there the stack may   *)
(* be moved, and values are stored and finalized, before the import goes on.*)
(*                                                                          *)
(* Indices are one more than in the code, as sequences begin with 1.        *)
(***************************************************************************)
EXTENDS Naturals, Sequences, FiniteSets

CONSTANTS
  Heap,        \* strings, objects and functions that Go comes to hold
  Numbers,     \* numbers other than 0 and NaN
  Handles,     \* Go's js.Value instances
  MaxDepth,    \* nested imports
  MaxMoves,    \* times the goroutine's stack is moved
  Undefined, NaN, Zero, Null, True, False, Global, GoObj,  \* what run() begins with
  Infinity,    \* the count of an entry that is never dropped
  Nowhere      \* the place of the result of an import that stores none

\* _values when run() begins.
Predefined == <<NaN, Zero, Null, True, False, Global, GoObj>>

Keyed == Heap \cup {Zero, Null, True, False, Global, GoObj}   \* values in _ids
Values == Keyed \cup Numbers \cup {Undefined, NaN}

ASSUME ValuesDiffer ==
  /\ \A i, j \in 1..7 : Predefined[i] = Predefined[j] => i = j
  /\ Undefined \notin Heap \cup Numbers \cup {NaN, Zero, Null, True, False, Global, GoObj}
  /\ Heap \cap Numbers = {}
  /\ \A i \in 1..7 : Predefined[i] \notin Heap \cup Numbers
ASSUME InfinityIsNoCount == Infinity \notin Nat
ASSUME BoundsAreNat == MaxDepth \in Nat /\ MaxMoves \in Nat
ASSUME HandlesFinite == IsFiniteSet(Handles) /\ Nowhere \notin Handles

\* The imported functions of syscall/js that store a value, and those among them that
\* ask for the stack pointer again after running JavaScript.  The others read an element of
\* an array or a string, which runs none of the program's.
Storing    == {"stringVal", "valueGet", "valueIndex", "valueCall", "valueInvoke",
               "valueNew", "valuePrepareString"}
Refreshing == {"valueGet", "valueCall", "valueInvoke", "valueNew"}

\* Those that store none: a setter may run the program's JavaScript.
Setting == {"valueSet", "valueDelete", "valueSetIndex"}
Reading == {"valueLength", "valueLoadString", "valueInstanceOf", "copyBytesToGo",
            "copyBytesToJS"}

VARIABLES
  values,       \* this._values
  goRefCounts,  \* this._goRefCounts
  ids,          \* this._ids, a function from the values that have an index
  idPool,       \* this._idPool
  refs,         \* the word in each js.Value of the Go program
  denotes,      \* the value that was stored for it
  base,         \* where the goroutine's stack is: how often it was moved
  frames,       \* imports that have not returned: where the result goes, the sp they were
                \* called with, whether they run JavaScript and ask for sp again
  inGo          \* Go runs, not the innermost import

table == <<values, goRefCounts, ids, idPool>>
vars  == <<values, goRefCounts, ids, idPool, refs, denotes, base, frames, inGo>>

----------------------------------------------------------------------------
(* Words. *)

Word(v)  == [tag |-> "value", val |-> v]                \* a float64 other than NaN
Ref(i, f) == [tag |-> "ref", id |-> i, flag |-> f]      \* nanHead, type flag and index
NoWord == [tag |-> "none"]                              \* a js.Value that is not in use

\* typeFlag: objects, strings, symbols and functions have one, null and the booleans none.
TypeFlag(v) == IF v \in Heap \cup {Global, GoObj} THEN 1 ELSE 0

\* Go finalizes a word with a type flag only (makeValue of syscall/js).
Counted(w) == w.tag = "ref" /\ w.flag = 1

loadValue(w) == IF w.tag = "value" THEN w.val ELSE values[w.id]

\* The index a value gets: its own, the one freed last, or a new one.
IdFor(v) ==
  IF v \in DOMAIN ids THEN ids[v]
  ELSE IF idPool # <<>> THEN idPool[Len(idPool)]
  ELSE Len(values) + 1

Put(s, i, x) == IF i > Len(s) THEN Append(s, x) ELSE [s EXCEPT ![i] = x]

Inc(c) == IF c = Infinity THEN Infinity ELSE c + 1
Dec(c) == IF c = Infinity THEN Infinity ELSE c - 1

\* The word that storeValue writes, and what it does to the table.
StoredWord(v) ==
  CASE v \in Numbers \cup {Undefined} -> Word(v)
    [] v = NaN                        -> Ref(1, 0)
    [] OTHER                          -> Ref(IdFor(v), TypeFlag(v))

storeValue(v) ==
  IF v \in Numbers \cup {Undefined, NaN}
  THEN UNCHANGED table
  ELSE LET i == IdFor(v) IN
       IF v \in DOMAIN ids
       THEN /\ goRefCounts' = [goRefCounts EXCEPT ![i] = Inc(@)]
            /\ UNCHANGED <<values, ids, idPool>>
       ELSE /\ values' = Put(values, i, v)
            /\ goRefCounts' = Put(goRefCounts, i, 1)
            /\ ids' = [u \in DOMAIN ids \cup {v} |-> IF u = v THEN i ELSE ids[u]]
            /\ idPool' = IF idPool = <<>> THEN idPool
                         ELSE SubSeq(idPool, 1, Len(idPool) - 1)

\* Mutant: the index of the value is not forgotten.
finalizeRefKeepsId(i) ==
  /\ goRefCounts' = [goRefCounts EXCEPT ![i] = Dec(@)]
  /\ IF Dec(goRefCounts[i]) = 0
     THEN /\ values' = [values EXCEPT ![i] = Null]
          /\ idPool' = Append(idPool, i)
          /\ UNCHANGED ids
     ELSE UNCHANGED <<values, ids, idPool>>

finalizeRef(i) ==
  /\ goRefCounts' = [goRefCounts EXCEPT ![i] = Dec(@)]
  /\ IF Dec(goRefCounts[i]) = 0
     THEN /\ values' = [values EXCEPT ![i] = Null]
          /\ ids' = [u \in DOMAIN ids \ {values[i]} |-> ids[u]]
          /\ idPool' = Append(idPool, i)
     ELSE UNCHANGED <<values, ids, idPool>>

----------------------------------------------------------------------------
Init ==
  /\ values = Predefined
  /\ goRefCounts = [i \in 1..7 |-> Infinity]
  /\ ids = [v \in {Zero, Null, True, False, Global, GoObj} |->
              CASE v = Zero -> 2 [] v = Null -> 3 [] v = True -> 4 [] v = False -> 5
                [] v = Global -> 6 [] v = GoObj -> 7]
  /\ idPool = <<>>
  /\ refs = [h \in Handles |-> NoWord]
  /\ denotes = [h \in Handles |-> Undefined]
  /\ base = 0
  /\ frames = <<>>
  /\ inGo = TRUE

Enter(op, h) ==
  /\ inGo
  /\ Len(frames) < MaxDepth
  /\ frames' = Append(frames, [to |-> h, sp |-> base, runs |-> op \in Refreshing \cup Setting])
  /\ inGo' = FALSE
  /\ UNCHANGED <<table, refs, denotes, base>>

\* Go calls an import; the result is for the js.Value h.
Call(op, h) ==
  /\ op \in Storing
  /\ refs[h] = NoWord
  /\ \A k \in 1..Len(frames) : frames[k].to # h
  /\ Enter(op, h)

\* An import without a js.Value for its result.
CallOnly(op) == op \in Setting \cup Reading /\ Enter(op, Nowhere)

\* The JavaScript of the innermost import calls a function of Go: the handler runs.
Reenter ==
  /\ ~inGo
  /\ frames[Len(frames)].runs
  /\ inGo' = TRUE
  /\ UNCHANGED <<table, refs, denotes, base, frames>>

\* The handler has returned to the JavaScript of the import.
HandlerReturns ==
  /\ inGo
  /\ frames # <<>>
  /\ inGo' = FALSE
  /\ UNCHANGED <<table, refs, denotes, base, frames>>

\* The stack is too small for the next call and is copied to a larger one.
MoveStack ==
  /\ inGo
  /\ base < MaxMoves
  /\ base' = base + 1
  /\ UNCHANGED <<table, refs, denotes, frames, inGo>>

\* Mutant: the stack pointer is not asked for again.
FirstSp(f) == f.sp

\* Where the import writes its result.
ResultSp(f) == IF f.runs THEN base ELSE f.sp

\* The import is done: it stores the value, or the error it caught, and Go reads the
\* slot of its stack, where something else is when the import wrote elsewhere.
Return(v) ==
  LET f == frames[Len(frames)] IN
  /\ ~inGo /\ f.to # Nowhere
  /\ storeValue(v)
  /\ refs' = [refs EXCEPT ![f.to] =
                IF ResultSp(f) = base THEN StoredWord(v) ELSE Word(Undefined)]
  /\ denotes' = [denotes EXCEPT ![f.to] = v]
  /\ frames' = SubSeq(frames, 1, Len(frames) - 1)
  /\ inGo' = TRUE
  /\ UNCHANGED base

ReturnOnly ==
  /\ ~inGo /\ frames[Len(frames)].to = Nowhere
  /\ frames' = SubSeq(frames, 1, Len(frames) - 1)
  /\ inGo' = TRUE
  /\ UNCHANGED <<table, refs, denotes, base>>

\* Go's collector finds that h is not used any more.
Drop(h) ==
  /\ inGo
  /\ refs[h] # NoWord
  /\ IF Counted(refs[h]) THEN finalizeRef(refs[h].id) ELSE UNCHANGED table
  /\ refs' = [refs EXCEPT ![h] = NoWord]
  /\ denotes' = [denotes EXCEPT ![h] = Undefined]
  /\ UNCHANGED <<base, frames, inGo>>

Next ==
  \/ \E op \in Storing, h \in Handles : Call(op, h)
  \/ \E op \in Setting \cup Reading : CallOnly(op)
  \/ Reenter
  \/ HandlerReturns
  \/ MoveStack
  \/ \E v \in Values : Return(v)
  \/ ReturnOnly
  \/ \E h \in Handles : Drop(h)

Spec == Init /\ [][Next]_vars

----------------------------------------------------------------------------
(* Properties. *)

Indices == 1..Len(values)

Holding(i) == {h \in Handles : Counted(refs[h]) /\ refs[h].id = i}

\* Every js.Value of the Go program loads the value that was stored for it, however
\* often its index was freed and given away, and whatever ran inside the import that
\* stored it.
RefsDenote ==
  \A h \in Handles : refs[h] # NoWord => loadValue(refs[h]) = denotes[h]

\* The table holds what Go holds and nothing else: an entry is counted once for each
\* js.Value that names it, and a value that no js.Value names has no entry, so that
\* JavaScript can collect it.
TableIsHeld ==
  \A i \in Indices : i > 7 =>
    /\ goRefCounts[i] = Cardinality(Holding(i))
    /\ goRefCounts[i] = 0 <=> ~ \E v \in DOMAIN ids : ids[v] = i

=============================================================================
