-------------------------- MODULE JsValuesProofs --------------------------
(***************************************************************************)
(* Proofs about JsValues: however the words of Go are stored, shared and    *)
(* finalized, each loads the value it was stored for, and the counts are    *)
(* those of the words.                                                      *)
(*                                                                          *)
(* The invariant has three parts: the table by itself (every value has one  *)
(* index, free indices are in the pool once), the words (an index is        *)
(* counted once for each js.Value that names it), and the imports that have *)
(* not returned (only those that ask for the stack pointer again can find   *)
(* the stack moved).                                                        *)
(***************************************************************************)
EXTENDS JsValues, FiniteSetTheorems, SequenceTheorems, TLAPS

Plain == Numbers \cup {Undefined, NaN}

-----------------------------------------------------------------------------
(* The table. *)

TableTypes ==
  /\ values \in Seq(Values)
  /\ goRefCounts \in Seq(Nat \cup {Infinity})
  /\ Len(goRefCounts) = Len(values) /\ Len(values) >= 7
  /\ DOMAIN ids \subseteq Keyed
  /\ \A v \in DOMAIN ids : ids[v] \in Indices
  /\ idPool \in Seq(Nat)

\* What run() begins with stays.
Fixed ==
  /\ \A i \in 1..7 : values[i] = Predefined[i] /\ goRefCounts[i] = Infinity
  /\ \A v \in Keyed \ Heap : v \in DOMAIN ids /\ ids[v] \in 1..7

Found == \A v \in DOMAIN ids : values[ids[v]] = v

Entry(i) ==
  /\ goRefCounts[i] \in Nat
  /\ goRefCounts[i] # 0 =>
       values[i] \in Heap /\ values[i] \in DOMAIN ids /\ ids[values[i]] = i
  /\ goRefCounts[i] = 0 => \A v \in DOMAIN ids : ids[v] # i

Entries == \A i \in Indices : i > 7 => Entry(i)

Pool ==
  /\ \A k \in 1..Len(idPool) :
       idPool[k] \in Indices /\ idPool[k] > 7 /\ goRefCounts[idPool[k]] = 0
  /\ \A k, l \in 1..Len(idPool) : idPool[k] = idPool[l] => k = l

TableInv == TableTypes /\ Fixed /\ Found /\ Entries /\ Pool

(* The words. *)

\* A word of a table with n entries, and what it loads.
WordType(w, n) ==
  /\ w.tag \in {"none", "value", "ref"}
  /\ w.tag = "none" => w = NoWord
  /\ w.tag = "ref" => w.id \in 1..n /\ w.flag \in {0, 1} /\ (w.flag = 0 => w.id =< 7)

Load(w, vals) == IF w.tag = "value" THEN w.val ELSE vals[w.id]

RefInv ==
  /\ refs = [h \in Handles |-> refs[h]] /\ denotes = [h \in Handles |-> denotes[h]]
  /\ \A h \in Handles : WordType(refs[h], Len(values))
  /\ \A h \in Handles : refs[h].tag # "none" => Load(refs[h], values) = denotes[h]
  /\ \A i \in Indices : i > 7 => goRefCounts[i] = Cardinality(Holding(i))

(* The imports. *)

FrameTypes ==
  /\ frames \in Seq([to : Handles \cup {Nowhere}, sp : Nat, runs : BOOLEAN])
  /\ inGo \in BOOLEAN /\ base \in Nat
  /\ ~inGo => frames # <<>>

Places ==
  /\ \A k \in 1..Len(frames) : frames[k].to \in Handles => refs[frames[k].to].tag = "none"
  /\ \A k, l \in 1..Len(frames) : frames[k].to \in Handles /\ frames[k].to = frames[l].to => k = l

StackKnown ==
  \A k \in 1..Len(frames) : ~frames[k].runs => ~inGo /\ k = Len(frames) /\ frames[k].sp = base

FrameInv == FrameTypes /\ Places /\ StackKnown

IInv == TableInv /\ RefInv /\ FrameInv

-----------------------------------------------------------------------------
LEMMA WordFields ==
  /\ \A v : Word(v).tag = "value" /\ Word(v).val = v
  /\ \A i, f : Ref(i, f).tag = "ref" /\ Ref(i, f).id = i /\ Ref(i, f).flag = f
  /\ NoWord.tag = "none"
BY DEF Word, Ref, NoWord

LEMMA Predefineds ==
  /\ Len(Predefined) = 7
  /\ Predefined[1] = NaN /\ Predefined[2] = Zero /\ Predefined[3] = Null /\ Predefined[4] = True
  /\ Predefined[5] = False /\ Predefined[6] = Global /\ Predefined[7] = GoObj
  /\ Predefined \in Seq(Values)
BY DEF Predefined, Values, Keyed

LEMMA KeyedIsNotPlain ==
  /\ Keyed \cap Plain = {}
  /\ \A v \in Values : v \in Keyed \/ v \in Plain
  /\ Heap \cap {Zero, Null, True, False, Global, GoObj} = {}
  /\ Null \in Values
<1>1. \A i, j \in 1..7 : Predefined[i] = Predefined[j] => i = j
  BY ValuesDiffer
<1>2. NaN \notin {Zero, Null, True, False, Global, GoObj}
  BY <1>1, Predefineds
<1>3. {NaN, Zero, Null, True, False, Global, GoObj} \cap (Heap \cup Numbers) = {}
  BY ValuesDiffer, Predefineds
<1> QED  BY <1>2, <1>3, ValuesDiffer DEF Keyed, Plain, Values

LEMMA Front ==
  ASSUME NEW S, NEW s \in Seq(S), s # <<>>
  PROVE  /\ SubSeq(s, 1, Len(s) - 1) \in Seq(S)
         /\ Len(SubSeq(s, 1, Len(s) - 1)) = Len(s) - 1
         /\ \A k \in 1..(Len(s) - 1) :
              k \in 1..Len(s) /\ k # Len(s) /\ SubSeq(s, 1, Len(s) - 1)[k] = s[k]
<1>1. Len(s) \in Nat /\ Len(s) >= 1
  OBVIOUS
<1>2. \A k \in 1..(Len(s) - 1) : k \in 1..Len(s) /\ k # Len(s)
  BY <1>1
<1>3. \A k \in 1..(Len(s) - 1) : s[k] \in S
  BY <1>1
<1> DEFINE n == Len(s) - 1
           t == SubSeq(s, 1, n)
<1>4. n \in Nat
  BY <1>1
<1>5. /\ t \in Seq(S) /\ Len(t) = IF 1 <= n THEN n - 1 + 1 ELSE 0
      /\ \A k \in 1..(n - 1 + 1) : t[k] = s[1 + k - 1]
  <2> HIDE DEF n
  <2> QED  BY <1>3, <1>4, SubSeqProperties DEF n
<1>6. Len(t) = n /\ \A k \in 1..n : t[k] = s[k]
  <2> HIDE DEF n, t
  <2> QED  BY <1>4, <1>5
<1> QED  BY <1>2, <1>5, <1>6

LEMMA InitTable == Init => TableInv
<1> SUFFICES ASSUME Init PROVE TableInv
  OBVIOUS
<1>1. values = Predefined /\ goRefCounts = [i \in 1..7 |-> Infinity] /\ idPool = <<>>
  BY DEF Init
<1>2. /\ DOMAIN ids = {Zero, Null, True, False, Global, GoObj}
      /\ ids[Zero] = 2 /\ ids[Null] = 3 /\ ids[True] = 4 /\ ids[False] = 5 /\ ids[Global] = 6
      /\ ids[GoObj] = 7
  <2>1. \A i, j \in 1..7 : Predefined[i] = Predefined[j] => i = j
    BY ValuesDiffer
  <2>2. /\ Zero # Null /\ Zero # True /\ Zero # False /\ Zero # Global /\ Zero # GoObj
        /\ Null # True /\ Null # False /\ Null # Global /\ Null # GoObj
        /\ True # False /\ True # Global /\ True # GoObj
        /\ False # Global /\ False # GoObj /\ Global # GoObj
    BY <2>1, Predefineds
  <2> QED  BY <2>2 DEF Init
<1>3. Len(values) = 7 /\ Len(goRefCounts) = 7 /\ Len(idPool) = 0
      /\ goRefCounts \in Seq(Nat \cup {Infinity})
  BY <1>1, Predefineds
<1>4. TableTypes
  BY <1>1, <1>2, <1>3, Predefineds DEF TableTypes, Keyed, Indices
<1>5. Fixed
  BY <1>1, <1>2, KeyedIsNotPlain DEF Fixed, Keyed
<1>6. Found
  BY <1>1, <1>2, Predefineds DEF Found
<1>7. Entries /\ Pool
  BY <1>3 DEF Entries, Pool, Indices
<1> QED  BY <1>4, <1>5, <1>6, <1>7 DEF TableInv

-----------------------------------------------------------------------------
(* storeValue *)

\* A value that has an index is counted once more.
LEMMA StoreKnown ==
  ASSUME TableInv, NEW v \in Keyed, v \in DOMAIN ids, storeValue(v)
  PROVE  /\ TableInv' /\ values' = values
         /\ goRefCounts' = [goRefCounts EXCEPT ![ids[v]] = Inc(@)]
         /\ ids[v] \in Indices /\ values[ids[v]] = v
         /\ v \notin Heap => ids[v] =< 7
         /\ v \in Heap => ids[v] > 7
<1> DEFINE i == ids[v]
<1>1. /\ goRefCounts' = [goRefCounts EXCEPT ![i] = Inc(@)]
      /\ values' = values /\ ids' = ids /\ idPool' = idPool
  BY KeyedIsNotPlain DEF storeValue, Plain, IdFor
<1>2. i \in Indices /\ values[i] = v /\ (v \notin Heap => i =< 7)
  BY DEF TableInv, TableTypes, Found, Fixed
<1>3. v \in Heap => i > 7
  <2> SUFFICES ASSUME v \in Heap, i =< 7 PROVE FALSE
    BY <1>2 DEF Indices
  <2>1. i \in 1..7 /\ values[i] = Predefined[i]
    BY <1>2 DEF TableInv, Fixed, Indices
  <2> QED  BY <2>1, <1>2, ValuesDiffer
<1>4. i =< 7 => goRefCounts[i] = Infinity
  BY <1>2 DEF TableInv, Fixed, Indices
<1>5. i > 7 => goRefCounts[i] \in Nat /\ goRefCounts[i] # 0
  BY <1>2 DEF TableInv, Entries, Entry
<1>6. Inc(goRefCounts[i]) = IF i > 7 THEN goRefCounts[i] + 1 ELSE Infinity
  BY <1>2, <1>4, <1>5, InfinityIsNoCount DEF Inc, Indices
<1>7. \A j \in Indices :
        goRefCounts'[j] = IF j = i THEN (IF i > 7 THEN goRefCounts[i] + 1 ELSE Infinity)
                          ELSE goRefCounts[j]
  BY <1>1, <1>6 DEF TableInv, TableTypes, Indices
<1>8. Indices' = Indices
  BY <1>1 DEF Indices
<1>9. TableTypes'
  <2>1. Inc(goRefCounts[i]) \in Nat \cup {Infinity}
    BY <1>2, <1>5, <1>6 DEF Indices
  <2>2. goRefCounts' \in Seq(Nat \cup {Infinity}) /\ Len(goRefCounts') = Len(goRefCounts)
    <3> DEFINE c == Inc(goRefCounts[i])
               C == Nat \cup {Infinity}
    <3>1. goRefCounts' = [goRefCounts EXCEPT ![i] = c] /\ goRefCounts \in Seq(C) /\ c \in C
          /\ i \in 1..Len(goRefCounts)
      BY <1>1, <1>2, <2>1 DEF TableInv, TableTypes, Indices
    <3> HIDE DEF c, C, i
    <3>2. goRefCounts' \in Seq(C) /\ Len(goRefCounts') = Len(goRefCounts)
      BY <3>1, ExceptSeq
    <3> QED  BY <3>2 DEF C
  <2> QED  BY <1>1, <1>8, <2>2 DEF TableInv, TableTypes
<1>10. Fixed' /\ Found'
  <2>1. \A k \in 1..7 : k \in Indices /\ goRefCounts'[k] = Infinity
    <3> TAKE k \in 1..7
    <3>1. k \in Indices /\ goRefCounts[k] = Infinity
      BY DEF TableInv, TableTypes, Fixed, Indices
    <3> QED  BY <3>1, <1>7
  <2> QED  BY <1>1, <2>1 DEF TableInv, Fixed, Found
<1>11. Entries'
  <2> SUFFICES ASSUME NEW j \in Indices, j > 7 PROVE Entry(j)'
    BY <1>8 DEF Entries
  <2>1. Entry(j)
    BY DEF TableInv, Entries
  <2> QED  BY <1>1, <1>5, <1>7, <2>1 DEF Entry
<1>12. Pool'
  <2>1. \A k \in 1..Len(idPool) : idPool[k] # i
    BY <1>5 DEF TableInv, Pool
  <2> QED  BY <1>1, <1>7, <1>8, <2>1 DEF TableInv, Pool
<1> QED  BY <1>1, <1>2, <1>3, <1>9, <1>10, <1>11, <1>12 DEF TableInv

\* A value without an index gets one that was free, or a new one.
LEMMA StoreNew ==
  ASSUME TableInv, NEW v \in Keyed, v \notin DOMAIN ids, storeValue(v)
  PROVE  /\ TableInv' /\ v \in Heap
         /\ IdFor(v) \in Indices' /\ IdFor(v) > 7
         /\ IdFor(v) \in Indices => goRefCounts[IdFor(v)] = 0
         /\ Indices' = Indices \cup {IdFor(v)}
         /\ values'[IdFor(v)] = v /\ goRefCounts'[IdFor(v)] = 1
         /\ \A j \in Indices : j # IdFor(v) =>
              values'[j] = values[j] /\ goRefCounts'[j] = goRefCounts[j]
<1> DEFINE i == IdFor(v)
<1>1. /\ values' = Put(values, i, v) /\ goRefCounts' = Put(goRefCounts, i, 1)
      /\ ids' = [u \in DOMAIN ids \cup {v} |-> IF u = v THEN i ELSE ids[u]]
      /\ idPool' = IF idPool = <<>> THEN idPool ELSE SubSeq(idPool, 1, Len(idPool) - 1)
  BY KeyedIsNotPlain DEF storeValue, Plain
<1>2. v \in Heap
  BY DEF TableInv, Fixed
<1>3. \/ idPool # <<>> /\ i = idPool[Len(idPool)]
      \/ idPool = <<>> /\ i = Len(values) + 1
  BY DEF IdFor
<1>4. /\ values \in Seq(Values) /\ goRefCounts \in Seq(Nat \cup {Infinity})
      /\ Len(goRefCounts) = Len(values) /\ Len(values) \in Nat /\ Len(values) >= 7
      /\ idPool \in Seq(Nat) /\ Len(idPool) \in Nat
  BY DEF TableInv, TableTypes
<1>5. idPool # <<>> =>
        /\ i \in Indices /\ i > 7 /\ goRefCounts[i] = 0
        /\ Len(idPool) \in 1..Len(idPool)
  <2> SUFFICES ASSUME idPool # <<>> PROVE
        /\ i \in Indices /\ i > 7 /\ goRefCounts[i] = 0 /\ Len(idPool) \in 1..Len(idPool)
    OBVIOUS
  <2>1. Len(idPool) \in 1..Len(idPool)
    BY <1>4
  <2> QED  BY <2>1, <1>3 DEF TableInv, Pool
<1>6. i \in Nat /\ i > 7 /\ (i \in Indices => goRefCounts[i] = 0)
      /\ (i \in 1..Len(values) \/ i = Len(values) + 1)
  BY <1>3, <1>4, <1>5 DEF Indices
<1> HIDE DEF i
<1>7. /\ values' \in Seq(Values) /\ goRefCounts' \in Seq(Nat \cup {Infinity})
      /\ Len(goRefCounts') = Len(values')
      /\ Len(values') = IF i > Len(values) THEN Len(values) + 1 ELSE Len(values)
      /\ values'[i] = v /\ goRefCounts'[i] = 1
      /\ \A j \in 1..Len(values) : j # i =>
            values'[j] = values[j] /\ goRefCounts'[j] = goRefCounts[j]
  <2>1. v \in Values
    BY DEF Values
  <2>2. CASE i = Len(values) + 1
    <3>1. values' = Append(values, v) /\ goRefCounts' = Append(goRefCounts, 1)
      BY <1>1, <1>4, <2>2 DEF Put
    <3> QED  BY <3>1, <1>4, <2>1, <2>2
  <2>3. CASE i \in 1..Len(values)
    <3>1. values' = [values EXCEPT ![i] = v] /\ goRefCounts' = [goRefCounts EXCEPT ![i] = 1]
      BY <1>1, <1>4, <2>3 DEF Put
    <3> QED  BY <3>1, <1>4, <2>1, <2>3
  <2> QED  BY <1>6, <2>2, <2>3
<1>8. Indices' = Indices \cup {i} /\ i \in Indices' /\ Indices \subseteq Indices'
  BY <1>4, <1>6, <1>7 DEF Indices
<1>9. /\ DOMAIN ids' = DOMAIN ids \cup {v} /\ ids'[v] = i
      /\ \A u \in DOMAIN ids : ids'[u] = ids[u] /\ ids[u] # i /\ ids[u] \in Indices
  <2>1. \A u \in DOMAIN ids : ids[u] # i /\ ids[u] \in Indices
    BY <1>6 DEF TableInv, TableTypes, Entries, Entry
  <2> QED  BY <1>1, <2>1
<1>10. \A k \in 1..Len(idPool') : k \in 1..Len(idPool) /\ idPool'[k] = idPool[k] /\ idPool[k] # i
  <2>1. CASE idPool = <<>>
    BY <1>1, <2>1
  <2>2. CASE idPool # <<>>
    <3>1. idPool' = SubSeq(idPool, 1, Len(idPool) - 1)
      BY <1>1, <2>2
    <3>2. Len(idPool') = Len(idPool) - 1
          /\ \A k \in 1..(Len(idPool) - 1) : idPool'[k] = idPool[k]
      BY <3>1, <1>4, <2>2, Front
    <3>3. \A k \in 1..(Len(idPool) - 1) : idPool[k] # i
      BY SMTT(30), <1>3, <1>4, <1>5, <2>2 DEF TableInv, Pool
    <3> QED  BY <3>2, <3>3, <1>4
  <2> QED  BY <2>1, <2>2
<1>11. idPool' \in Seq(Nat)
  BY <1>1, <1>4, Front
<1>12. TableTypes'
  <2>1. DOMAIN ids' \subseteq Keyed
    BY <1>9 DEF TableInv, TableTypes
  <2>2. \A u \in DOMAIN ids' : ids'[u] \in Indices'
    BY <1>8, <1>9
  <2>3. Len(values') >= 7
    BY <1>4, <1>7
  <2> QED  BY <1>7, <1>11, <2>1, <2>2, <2>3 DEF TableTypes
<1>13. Fixed'
  <2>1. \A k \in 1..7 : values'[k] = Predefined[k] /\ goRefCounts'[k] = Infinity
    <3> TAKE k \in 1..7
    <3>1. k \in 1..Len(values) /\ k # i
      BY <1>4, <1>6
    <3> QED  BY <3>1, <1>7 DEF TableInv, Fixed
  <2>2. \A u \in Keyed \ Heap : u \in DOMAIN ids' /\ ids'[u] \in 1..7
    BY <1>9 DEF TableInv, Fixed
  <2> QED  BY <2>1, <2>2 DEF Fixed
<1>14. Found'
  BY <1>7, <1>9 DEF TableInv, Found, Indices
<1>15. Entries'
  <2> SUFFICES ASSUME NEW j \in Indices', j > 7 PROVE Entry(j)'
    BY DEF Entries
  <2>1. CASE j = i
    BY <2>1, <1>2, <1>7, <1>9 DEF Entry
  <2>2. CASE j # i
    <3>1. j \in Indices /\ Entry(j) /\ goRefCounts'[j] = goRefCounts[j] /\ values'[j] = values[j]
      BY <2>2, <1>7, <1>8 DEF TableInv, Entries, Indices
    <3> QED  BY <3>1, <2>2, <1>9 DEF Entry
  <2> QED  BY <2>1, <2>2
<1>16. Pool'
  <2>1. \A k \in 1..Len(idPool') :
          /\ idPool'[k] \in Indices' /\ idPool'[k] > 7 /\ goRefCounts'[idPool'[k]] = 0
    <3> TAKE k \in 1..Len(idPool')
    <3>1. k \in 1..Len(idPool) /\ idPool'[k] = idPool[k] /\ idPool[k] # i
      BY <1>10
    <3>2. idPool[k] \in Indices /\ idPool[k] > 7 /\ goRefCounts[idPool[k]] = 0
      BY <3>1 DEF TableInv, Pool
    <3> QED  BY <3>1, <3>2, <1>7, <1>8 DEF Indices
  <2>2. \A k, l \in 1..Len(idPool') : idPool'[k] = idPool'[l] => k = l
    <3>1. \A k, l \in 1..Len(idPool) : idPool[k] = idPool[l] => k = l
      BY DEF TableInv, Pool
    <3> QED  BY <1>10, <3>1
  <2> QED  BY <2>1, <2>2 DEF Pool
<1>17. /\ i \in Indices' /\ i > 7 /\ (i \in Indices => goRefCounts[i] = 0)
       /\ Indices' = Indices \cup {i} /\ values'[i] = v /\ goRefCounts'[i] = 1
       /\ \A j \in Indices : j # i => values'[j] = values[j] /\ goRefCounts'[j] = goRefCounts[j]
  BY <1>6, <1>7, <1>8 DEF Indices
<1> QED  BY <1>2, <1>12, <1>13, <1>14, <1>15, <1>16, <1>17 DEF TableInv, i

-----------------------------------------------------------------------------
(* finalizeRef *)

LEMMA FinalizeKeeps ==
  ASSUME TableInv, NEW i \in Indices, i > 7 => goRefCounts[i] # 0, finalizeRef(i)
  PROVE  /\ TableInv' /\ Len(values') = Len(values)
         /\ \A j \in Indices : j # i =>
              values'[j] = values[j] /\ goRefCounts'[j] = goRefCounts[j]
         /\ i =< 7 => values' = values
         /\ i > 7 => /\ goRefCounts'[i] = goRefCounts[i] - 1
                     /\ goRefCounts[i] > 1 => values' = values
<1>1. /\ values \in Seq(Values) /\ goRefCounts \in Seq(Nat \cup {Infinity})
      /\ Len(goRefCounts) = Len(values) /\ Len(values) \in Nat /\ Len(values) >= 7
      /\ idPool \in Seq(Nat) /\ Len(idPool) \in Nat /\ i \in 1..Len(values)
  BY DEF TableInv, TableTypes, Indices
<1>2. CASE i =< 7
  <2>1. goRefCounts[i] = Infinity /\ Dec(goRefCounts[i]) = Infinity /\ Infinity # 0
    <3>1. i \in 1..7 /\ 0 \in Nat
      BY <1>1, <1>2
    <3>2. goRefCounts[i] = Infinity
      BY <3>1 DEF TableInv, Fixed
    <3> QED  BY <3>1, <3>2, InfinityIsNoCount DEF Dec
  <2>2. goRefCounts' = [goRefCounts EXCEPT ![i] = Infinity] /\ UNCHANGED <<values, ids, idPool>>
    BY <2>1 DEF finalizeRef
  <2>3. goRefCounts' = goRefCounts
    BY <2>1, <2>2, <1>1
  <2>4. TableInv'
    <3>1. Indices' = Indices /\ TableTypes' /\ Fixed' /\ Found'
      BY <2>2, <2>3 DEF TableInv, TableTypes, Fixed, Found, Indices
    <3>2. \A j : Entry(j)' <=> Entry(j)
      BY <2>2, <2>3 DEF Entry
    <3>3. Entries' /\ Pool'
      BY <2>2, <2>3, <3>1, <3>2 DEF TableInv, Entries, Pool
    <3> QED  BY <3>1, <3>3 DEF TableInv
  <2> QED  BY <2>2, <2>3, <2>4, <1>1, <1>2
<1>3. CASE i > 7
  <2>1. /\ goRefCounts[i] \in Nat /\ goRefCounts[i] # 0
        /\ values[i] \in Heap /\ values[i] \in DOMAIN ids /\ ids[values[i]] = i
    BY <1>3 DEF TableInv, Entries, Entry
  <2>2. Dec(goRefCounts[i]) = goRefCounts[i] - 1
    BY <2>1, InfinityIsNoCount DEF Dec
  <2>3. goRefCounts' = [goRefCounts EXCEPT ![i] = goRefCounts[i] - 1]
    BY <2>2 DEF finalizeRef
  <2>4. /\ goRefCounts' \in Seq(Nat \cup {Infinity}) /\ Len(goRefCounts') = Len(values)
        /\ goRefCounts'[i] = goRefCounts[i] - 1
        /\ \A j \in 1..Len(values) : j # i => goRefCounts'[j] = goRefCounts[j]
    BY <2>1, <2>3, <1>1
  <2>5. \A k \in 1..Len(idPool) : idPool[k] # i
    BY <2>1 DEF TableInv, Pool
  <2>6. CASE goRefCounts[i] > 1
    <3>1. UNCHANGED <<values, ids, idPool>>
      BY <2>1, <2>2, <2>6 DEF finalizeRef
    <3>2. TableTypes' /\ Fixed' /\ Found'
      BY <3>1, <2>4, <1>1, <1>3 DEF TableInv, TableTypes, Fixed, Found, Indices
    <3>3. Entries'
      BY <3>1, <2>1, <2>4, <2>6, <1>1 DEF TableInv, Entries, Entry, Indices
    <3>4. Pool'
      BY <3>1, <2>4, <2>5, <1>1 DEF TableInv, Pool, Indices
    <3> QED  BY <3>1, <3>2, <3>3, <3>4, <2>4, <1>3 DEF TableInv, Indices
  <2>7. CASE goRefCounts[i] = 1
    <3>1. /\ values' = [values EXCEPT ![i] = Null]
          /\ ids' = [u \in DOMAIN ids \ {values[i]} |-> ids[u]]
          /\ idPool' = Append(idPool, i)
      BY <2>2, <2>7 DEF finalizeRef
    <3>2. /\ values' \in Seq(Values) /\ Len(values') = Len(values)
          /\ \A j \in 1..Len(values) : j # i => values'[j] = values[j]
      BY <3>1, <1>1, KeyedIsNotPlain
    <3>3. /\ DOMAIN ids' = DOMAIN ids \ {values[i]}
          /\ \A u \in DOMAIN ids' : ids'[u] = ids[u] /\ ids[u] # i /\ ids[u] \in 1..Len(values)
      BY <3>1 DEF TableInv, TableTypes, Found, Indices
    <3>4. /\ idPool' \in Seq(Nat) /\ Len(idPool') = Len(idPool) + 1
          /\ idPool'[Len(idPool) + 1] = i
          /\ \A k \in 1..Len(idPool) : idPool'[k] = idPool[k]
      BY <3>1, <1>1
    <3>5. TableTypes'
      BY <3>2, <3>3, <3>4, <2>4, <1>1 DEF TableInv, TableTypes, Indices
    <3>6. Fixed'
      <4>1. \A v \in Keyed \ Heap : v \in DOMAIN ids' /\ ids'[v] \in 1..7
        BY <3>3, <2>1 DEF TableInv, Fixed
      <4> QED  BY <4>1, <3>2, <2>4, <1>1, <1>3 DEF TableInv, Fixed
    <3>7. Found'
      BY <3>2, <3>3 DEF TableInv, Found
    <3>8. Entries'
      <4> SUFFICES ASSUME NEW j \in 1..Len(values), j > 7 PROVE Entry(j)'
        BY <3>2 DEF Entries, Indices
      <4>1. CASE j = i
        BY <4>1, <3>3, <2>4, <2>7 DEF Entry
      <4>2. CASE j # i
        <5>1. Entry(j) /\ goRefCounts'[j] = goRefCounts[j] /\ values'[j] = values[j]
          BY <4>2, <3>2, <2>4 DEF TableInv, Entries, Indices
        <5>2. goRefCounts[j] # 0 => values[j] # values[i]
          BY <5>1, <4>2, <2>1 DEF Entry
        <5> QED  BY <5>1, <5>2, <3>3 DEF Entry
      <4> QED  BY <4>1, <4>2
    <3>9. Pool'
      <4>1. \A k \in 1..Len(idPool') : (k \in 1..Len(idPool)) \/ k = Len(idPool) + 1
        BY <3>4, <1>1
      <4>2. \A k \in 1..Len(idPool') :
              idPool'[k] \in 1..Len(values) /\ idPool'[k] > 7 /\ goRefCounts'[idPool'[k]] = 0
        <5> TAKE k \in 1..Len(idPool')
        <5>1. CASE k \in 1..Len(idPool)
          <6>1. idPool'[k] = idPool[k] /\ idPool[k] # i
            BY <5>1, <3>4, <2>5
          <6>2. idPool[k] \in 1..Len(values) /\ idPool[k] > 7 /\ goRefCounts[idPool[k]] = 0
            BY <5>1 DEF TableInv, Pool, Indices
          <6> QED  BY <6>1, <6>2, <2>4
        <5>2. CASE k = Len(idPool) + 1
          BY <5>2, <3>4, <2>4, <2>7, <1>1, <1>3
        <5> QED  BY <4>1, <5>1, <5>2
      <4>3. \A k, l \in 1..Len(idPool') : idPool'[k] = idPool'[l] => k = l
        <5>1. \A k, l \in 1..Len(idPool) : idPool[k] = idPool[l] => k = l
          BY DEF TableInv, Pool
        <5> QED  BY <5>1, <4>1, <3>4, <2>5
      <4> QED  BY <4>2, <4>3, <3>2 DEF Pool, Indices
    <3> QED  BY <3>2, <3>5, <3>6, <3>7, <3>8, <3>9, <2>4, <2>7, <1>3 DEF TableInv, Indices
  <2> QED  BY <2>1, <2>6, <2>7
<1> QED  BY <1>1, <1>2, <1>3

-----------------------------------------------------------------------------
(* The words. *)

LEMMA Stored ==
  ASSUME NEW v \in Values
  PROVE  /\ v \in Numbers \cup {Undefined} => StoredWord(v) = Word(v)
         /\ v = NaN => StoredWord(v) = Ref(1, 0)
         /\ v \in Keyed => StoredWord(v) = Ref(IdFor(v), TypeFlag(v)) /\ v \notin Plain
         /\ v \in Plain \cup Keyed
<1>1. NaN \notin Numbers \cup {Undefined}
  <2>1. Predefined[1] = NaN /\ 1 \in 1..7
    BY Predefineds
  <2> QED  BY <2>1, ValuesDiffer
<1> QED  BY <1>1, KeyedIsNotPlain DEF StoredWord, Plain

LEMMA WordFits ==
  ASSUME NEW w, NEW m \in Nat, NEW n \in Nat, m =< n, WordType(w, m)
  PROVE  WordType(w, n)
BY DEF WordType

\* The js.Values that hold an index after one of them has got another word.
LEMMA HoldingWith ==
  ASSUME RefInv, NEW h \in Handles, NEW w, refs' = [refs EXCEPT ![h] = w], NEW j
  PROVE  /\ ~(Counted(w) /\ w.id = j) => Holding(j)' = Holding(j) \ {h}
         /\ Counted(w) /\ w.id = j => Holding(j)' = Holding(j) \cup {h}
         /\ h \in Holding(j) <=> Counted(refs[h]) /\ refs[h].id = j
<1>1. refs'[h] = w /\ \A g \in Handles : g # h => refs'[g] = refs[g]
  BY DEF RefInv
<1>2. \A g \in Handles : g \in Holding(j)' <=> Counted(refs'[g]) /\ refs'[g].id = j
  BY DEF Holding, Counted
<1>3. \A g \in Handles : g \in Holding(j) <=> Counted(refs[g]) /\ refs[g].id = j
  BY DEF Holding
<1>4. Holding(j)' \subseteq Handles /\ Holding(j) \subseteq Handles
  BY DEF Holding
<1> QED  BY <1>1, <1>2, <1>3, <1>4

LEMMA HoldingCount ==
  ASSUME NEW j, NEW h \in Handles
  PROVE  /\ Cardinality(Holding(j)) \in Nat
         /\ Cardinality(Holding(j)) = 0 => Holding(j) = {}
         /\ h \notin Holding(j) =>
              Cardinality(Holding(j) \cup {h}) = Cardinality(Holding(j)) + 1
         /\ h \in Holding(j) =>
              /\ Cardinality(Holding(j) \ {h}) = Cardinality(Holding(j)) - 1
              /\ Cardinality(Holding(j) \ {h}) \in Nat
              /\ \A g \in Holding(j) : g # h => Cardinality(Holding(j)) > 1
<1> DEFINE H == Holding(j)
<1>1. IsFiniteSet(H)
  BY HandlesFinite, FS_Subset DEF Holding
<1>2. IsFiniteSet(H \ {h})
  BY <1>1, FS_RemoveElement
<1> HIDE DEF H
<1>3. Cardinality(H) \in Nat /\ Cardinality(H \ {h}) \in Nat
  BY <1>1, <1>2, FS_CardinalityType
<1>4. Cardinality(H) = 0 => H = {}
  BY <1>1, FS_EmptySet
<1>5. h \notin H => Cardinality(H \cup {h}) = Cardinality(H) + 1
  BY <1>1, FS_AddElement
<1>6. h \in H => Cardinality(H \ {h}) = Cardinality(H) - 1
  BY <1>1, FS_RemoveElement
<1>7. ASSUME h \in H, NEW g \in H, g # h PROVE Cardinality(H) > 1
  <2>1. g \in H \ {h}
    BY <1>7
  <2>2. Cardinality(H \ {h}) # 0
    BY <2>1, <1>2, FS_EmptySet
  <2> QED  BY <2>2, <1>3, <1>6, <1>7
<1> QED  BY <1>3, <1>4, <1>5, <1>6, <1>7 DEF H

-----------------------------------------------------------------------------
(* The steps. *)

\* A js.Value that takes a word keeps the others: they name other entries, or theirs is
\* counted once more.
LEMMA TakesWord ==
  ASSUME IInv, NEW h \in Handles, NEW v \in Values, refs[h].tag = "none",
         storeValue(v), NEW w, w = StoredWord(v), refs' = [refs EXCEPT ![h] = w],
         denotes' = [denotes EXCEPT ![h] = v]
  PROVE  TableInv' /\ RefInv'
<1>1. /\ ~Counted(refs[h]) /\ refs' = [refs EXCEPT ![h] = w]
      /\ refs'[h] = w /\ denotes'[h] = v
      /\ \A g \in Handles : g # h => refs'[g] = refs[g] /\ denotes'[g] = denotes[g]
      /\ refs' = [g \in Handles |-> refs'[g]] /\ denotes' = [g \in Handles |-> denotes'[g]]
  BY DEF IInv, RefInv, Counted
<1>2. \A j : h \notin Holding(j)
  BY <1>1 DEF Holding
<1>3. \A g \in Handles : WordType(refs[g], Len(values))
  BY DEF IInv, RefInv
<1>4. \A g \in Handles : refs[g].tag # "none" => Load(refs[g], values) = denotes[g]
  BY DEF IInv, RefInv
<1>5. \A j \in Indices : j > 7 => goRefCounts[j] = Cardinality(Holding(j))
  BY DEF IInv, RefInv
<1>9. \A j :
        /\ ~(Counted(w) /\ w.id = j) => Holding(j)' = Holding(j)
        /\ Counted(w) /\ w.id = j => Holding(j)' = Holding(j) \cup {h}
  <2> TAKE j
  <2>1. RefInv
    BY DEF IInv
  <2>2. /\ ~(Counted(w) /\ w.id = j) => Holding(j)' = Holding(j) \ {h}
        /\ Counted(w) /\ w.id = j => Holding(j)' = Holding(j) \cup {h}
    BY <2>1, <1>1, HoldingWith
  <2> QED  BY <2>2, <1>2
<1>6. CASE v \in Plain
  <2>1. UNCHANGED table
    BY <1>6 DEF storeValue, Plain
  <2>2. TableInv' /\ Indices' = Indices
    BY <2>1 DEF table, IInv, TableInv, TableTypes, Fixed, Found, Entries, Entry, Pool, Indices
  <2>3. 1 \in Indices /\ values[1] = NaN
    BY Predefineds DEF IInv, TableInv, TableTypes, Fixed, Indices
  <2>4. WordType(w, Len(values')) /\ w.tag # "none" /\ ~Counted(w) /\ Load(w, values') = v
    <3>1. CASE v = NaN
      <4>1. w = Ref(1, 0) /\ w.tag = "ref" /\ w.id = 1 /\ w.flag = 0
        BY <3>1, Stored, WordFields
      <4>2. 1 \in 1..Len(values') /\ values'[1] = NaN
        BY <2>1, <2>3 DEF table, Indices
      <4> QED  BY <3>1, <4>1, <4>2 DEF WordType, Counted, Load
    <3>2. CASE v # NaN
      BY <3>2, <1>6, Stored, WordFields DEF WordType, Counted, Load, Plain
    <3> QED  BY <3>1, <3>2
  <2>5. \A g \in Handles : WordType(refs'[g], Len(values'))
    <3>1. values' = values
      BY <2>1 DEF table
    <3> QED  BY <3>1, <1>1, <1>3, <2>4
  <2>6. \A g \in Handles : refs'[g].tag # "none" => Load(refs'[g], values') = denotes'[g]
    BY <1>1, <1>4, <2>1, <2>4 DEF Load, table
  <2>7. \A j \in Indices : j > 7 => goRefCounts'[j] = Cardinality(Holding(j)')
    <3> TAKE j \in Indices
    <3>1. Holding(j)' = Holding(j)
      BY <1>9, <2>4
    <3> QED  BY <3>1, <1>5, <2>1 DEF table
  <2> QED  BY <1>1, <2>2, <2>5, <2>6, <2>7 DEF RefInv
<1>7. CASE v \in Keyed /\ v \in DOMAIN ids
  <2> PICK i : i = ids[v]
    OBVIOUS
  <2>1. /\ TableInv' /\ values' = values /\ Indices' = Indices
        /\ goRefCounts' = [goRefCounts EXCEPT ![i] = Inc(@)]
        /\ i \in Indices /\ values[i] = v /\ (v \notin Heap => i =< 7) /\ (v \in Heap => i > 7)
    BY <1>7, StoreKnown DEF IInv, Indices
  <2>2. w = Ref(i, TypeFlag(v)) /\ w.tag = "ref" /\ w.id = i /\ w.flag = TypeFlag(v)
    BY <1>7, Stored, WordFields DEF IdFor
  <2>3. TypeFlag(v) \in {0, 1} /\ (v \in Heap => TypeFlag(v) = 1)
    BY DEF TypeFlag
  <2>4. WordType(w, Len(values')) /\ w.tag # "none" /\ Load(w, values') = v
    BY <2>1, <2>2, <2>3 DEF WordType, Load, Indices
  <2>5. i > 7 => Counted(w)
    BY <2>1, <2>2, <2>3 DEF Counted, Indices
  <2>6. i > 7 => goRefCounts[i] \in Nat /\ goRefCounts'[i] = goRefCounts[i] + 1
    <3> SUFFICES ASSUME i > 7 PROVE goRefCounts[i] \in Nat /\ goRefCounts'[i] = goRefCounts[i] + 1
      OBVIOUS
    <3>1. goRefCounts[i] \in Nat
      BY <2>1 DEF IInv, TableInv, Entries, Entry
    <3>2. i \in DOMAIN goRefCounts
      BY <2>1 DEF IInv, TableInv, TableTypes, Indices
    <3> QED  BY <3>1, <3>2, <2>1, InfinityIsNoCount DEF Inc
  <2>7. \A j \in Indices : j # i => goRefCounts'[j] = goRefCounts[j]
    BY <2>1 DEF IInv, TableInv, TableTypes, Indices
  <2>8. \A g \in Handles : WordType(refs'[g], Len(values'))
    BY <1>1, <1>3, <2>1, <2>4, WordFits
  <2>9. \A g \in Handles : refs'[g].tag # "none" => Load(refs'[g], values') = denotes'[g]
    BY <1>1, <1>4, <2>1, <2>4 DEF Load
  <2>10. \A j \in Indices : j > 7 => goRefCounts'[j] = Cardinality(Holding(j)')
    <3> SUFFICES ASSUME NEW j \in Indices, j > 7
                 PROVE  goRefCounts'[j] = Cardinality(Holding(j)')
      OBVIOUS
    <3>1. CASE j = i
      <4>1. Holding(j)' = Holding(j) \cup {h}
        BY <3>1, <1>9, <2>2, <2>5
      <4> QED  BY <3>1, <4>1, <1>2, <1>5, <2>6, HoldingCount
    <3>2. CASE j # i
      <4>1. Holding(j)' = Holding(j)
        BY <3>2, <1>9, <2>2
      <4> QED  BY <3>2, <4>1, <1>5, <2>7
    <3> QED  BY <3>1, <3>2
  <2> QED  BY <1>1, <2>1, <2>8, <2>9, <2>10 DEF RefInv
<1>8. CASE v \in Keyed /\ v \notin DOMAIN ids
  <2> PICK i : i = IdFor(v)
    OBVIOUS
  <2>1. /\ TableInv' /\ v \in Heap /\ i \in Indices' /\ i > 7
        /\ i \in Indices => goRefCounts[i] = 0
        /\ Indices' = Indices \cup {i} /\ values'[i] = v /\ goRefCounts'[i] = 1
        /\ \A j \in Indices : j # i => values'[j] = values[j] /\ goRefCounts'[j] = goRefCounts[j]
    BY <1>8, StoreNew DEF IInv
  <2>2. w.tag = "ref" /\ w.id = i /\ w.flag = 1
    BY <1>8, <2>1, Stored, WordFields DEF TypeFlag
  <2>3. WordType(w, Len(values')) /\ w.tag # "none" /\ Load(w, values') = v /\ Counted(w)
    BY <2>1, <2>2 DEF WordType, Load, Counted, Indices
  <2>4. \A g \in Handles : refs[g].tag = "ref" => refs[g].id \in Indices /\ refs[g].id # i
    <3> TAKE g \in Handles
    <3> SUFFICES ASSUME refs[g].tag = "ref", refs[g].id = i PROVE FALSE
      BY <1>3 DEF WordType, Indices
    <3>1. i \in Indices /\ refs[g].flag = 1
      BY <1>3, <2>1 DEF WordType, Indices
    <3>2. g \in Holding(i) /\ Cardinality(Holding(i)) = 0
      BY <3>1, <1>5, <2>1 DEF Holding, Counted
    <3> QED  BY <3>2, HoldingCount
  <2>5. Holding(i) = {}
    BY <2>4 DEF Holding, Counted
  <2>9. Len(values) \in Nat /\ Len(values') \in Nat /\ Len(values) =< Len(values')
    <3>1. Len(values) \in Nat /\ Len(values') \in Nat /\ Len(values) >= 7
      BY <2>1 DEF IInv, TableInv, TableTypes
    <3>2. Len(values) \in Indices'
      BY <2>1, <3>1 DEF Indices
    <3> QED  BY <3>1, <3>2 DEF Indices
  <2>6. \A g \in Handles : WordType(refs'[g], Len(values'))
    BY <1>1, <1>3, <2>1, <2>3, <2>9, WordFits
  <2>7. \A g \in Handles : refs'[g].tag # "none" => Load(refs'[g], values') = denotes'[g]
    <3> TAKE g \in Handles
    <3>1. CASE g = h
      BY <3>1, <1>1, <2>3 DEF Load
    <3>2. CASE g # h
      BY <3>2, <1>1, <1>3, <1>4, <2>1, <2>4 DEF Load, WordType
    <3> QED  BY <3>1, <3>2
  <2>8. \A j \in Indices' : j > 7 => goRefCounts'[j] = Cardinality(Holding(j)')
    <3> SUFFICES ASSUME NEW j \in Indices', j > 7
                 PROVE  goRefCounts'[j] = Cardinality(Holding(j)')
      OBVIOUS
    <3>1. CASE j = i
      <4>1. Holding(j)' = {} \cup {h}
        BY <3>1, <1>9, <2>2, <2>3, <2>5
      <4>2. Cardinality({h}) = 1
        BY FS_Singleton
      <4> QED  BY <3>1, <4>1, <4>2, <2>1
    <3>2. CASE j # i
      <4>1. Holding(j)' = Holding(j)
        BY <3>2, <1>9, <2>2
      <4> QED  BY <3>2, <4>1, <1>5, <2>1
    <3> QED  BY <3>1, <3>2
  <2> QED  BY <1>1, <2>1, <2>6, <2>7, <2>8 DEF RefInv
<1> QED  BY <1>6, <1>7, <1>8, Stored

\* A js.Value that is dropped gives its count back, and the entry only with the last one.
LEMMA DropKeeps ==
  ASSUME IInv, NEW h \in Handles, Drop(h)
  PROVE  TableInv' /\ RefInv'
<1>1. /\ refs' = [refs EXCEPT ![h] = NoWord] /\ refs'[h] = NoWord /\ denotes'[h] = Undefined
      /\ \A g \in Handles : g # h => refs'[g] = refs[g] /\ denotes'[g] = denotes[g]
      /\ refs' = [g \in Handles |-> refs'[g]] /\ denotes' = [g \in Handles |-> denotes'[g]]
  BY DEF IInv, RefInv, Drop
<1>2. NoWord.tag = "none" /\ ~Counted(NoWord) /\ WordType(NoWord, Len(values))
  BY WordFields DEF Counted, WordType
<1>3. \A g \in Handles : WordType(refs[g], Len(values))
  BY DEF IInv, RefInv
<1>4. \A g \in Handles : refs[g].tag # "none" => Load(refs[g], values) = denotes[g]
  BY DEF IInv, RefInv
<1>5. \A j \in Indices : j > 7 => goRefCounts[j] = Cardinality(Holding(j))
  BY DEF IInv, RefInv
<1>6. \A j :
        /\ Holding(j)' = Holding(j) \ {h}
        /\ h \in Holding(j) <=> Counted(refs[h]) /\ refs[h].id = j
  <2> TAKE j
  <2>1. RefInv
    BY DEF IInv
  <2> QED  BY <2>1, <1>1, <1>2, HoldingWith
<1>7. CASE ~Counted(refs[h])
  <2>1. UNCHANGED table
    BY <1>7 DEF Drop
  <2>2. TableInv' /\ Indices' = Indices /\ values' = values /\ goRefCounts' = goRefCounts
    BY <2>1 DEF table, IInv, TableInv, TableTypes, Fixed, Found, Entries, Entry, Pool, Indices
  <2>3. \A g \in Handles : WordType(refs'[g], Len(values'))
    BY <1>1, <1>2, <1>3, <2>2
  <2>4. \A g \in Handles : refs'[g].tag # "none" => Load(refs'[g], values') = denotes'[g]
    BY <1>1, <1>2, <1>4, <2>2
  <2>5. \A j \in Indices : j > 7 => goRefCounts'[j] = Cardinality(Holding(j)')
    <3> TAKE j \in Indices
    <3>1. Holding(j)' = Holding(j)
      BY <1>6, <1>7
    <3> QED  BY <3>1, <1>5, <2>2
  <2> QED  BY <1>1, <2>2, <2>3, <2>4, <2>5 DEF RefInv
<1>8. CASE Counted(refs[h])
  <2> PICK i : i = refs[h].id
    OBVIOUS
  <2>1. i \in Indices /\ finalizeRef(i) /\ refs[h].tag = "ref"
    BY <1>3, <1>8 DEF Drop, Counted, WordType, Indices
  <2>2. h \in Holding(i) /\ Cardinality(Holding(i)) \in Nat /\ Cardinality(Holding(i)) # 0
    BY <1>6, <1>8, HoldingCount
  <2>3. i > 7 => goRefCounts[i] # 0
    BY <1>5, <2>1, <2>2
  <2>4. /\ TableInv' /\ Len(values') = Len(values)
        /\ \A j \in Indices : j # i => values'[j] = values[j] /\ goRefCounts'[j] = goRefCounts[j]
        /\ i =< 7 => values' = values
        /\ i > 7 => /\ goRefCounts'[i] = goRefCounts[i] - 1
                    /\ goRefCounts[i] > 1 => values' = values
    BY <2>1, <2>3, FinalizeKeeps DEF IInv
  <2>5. Indices' = Indices
    BY <2>4 DEF Indices
  <2>6. \A g \in Handles : WordType(refs'[g], Len(values'))
    BY <1>1, <1>2, <1>3, <2>4
  <2>7. \A g \in Handles : refs'[g].tag # "none" => Load(refs'[g], values') = denotes'[g]
    <3> SUFFICES ASSUME NEW g \in Handles, g # h, refs[g].tag # "none"
                 PROVE  Load(refs[g], values') = Load(refs[g], values)
      BY <1>1, <1>2, <1>4
    <3>1. CASE refs[g].tag = "value"
      BY <3>1 DEF Load
    <3>2. CASE refs[g].tag = "ref" /\ refs[g].id # i
      BY <3>2, <1>3, <2>4 DEF Load, WordType, Indices
    <3>3. CASE refs[g].tag = "ref" /\ refs[g].id = i
      <4>1. CASE i =< 7
        BY <4>1, <2>4
      <4>2. CASE i > 7
        <5>1. Counted(refs[g])
          BY <3>3, <4>2, <1>3, <2>1 DEF Counted, WordType, Indices
        <5>2. g \in Holding(i)
          BY <3>3, <5>1 DEF Holding
        <5>3. Cardinality(Holding(i)) > 1
          BY <5>2, <2>2, HoldingCount
        <5> QED  BY <5>3, <4>2, <1>5, <2>1, <2>4
      <4> QED  BY <4>1, <4>2, <2>1 DEF Indices
    <3> QED  BY <3>1, <3>2, <3>3, <1>3 DEF WordType
  <2>8. \A j \in Indices : j > 7 => goRefCounts'[j] = Cardinality(Holding(j)')
    <3> SUFFICES ASSUME NEW j \in Indices, j > 7
                 PROVE  goRefCounts'[j] = Cardinality(Holding(j)')
      OBVIOUS
    <3>1. CASE j = i
      BY <3>1, <1>5, <1>6, <2>2, <2>4, HoldingCount
    <3>2. CASE j # i
      <4>1. Holding(j)' = Holding(j)
        BY <3>2, <1>6
      <4> QED  BY <3>2, <4>1, <1>5, <2>4
    <3> QED  BY <3>1, <3>2
  <2> QED  BY <1>1, <2>4, <2>5, <2>6, <2>7, <2>8 DEF RefInv
<1> QED  BY <1>7, <1>8

\* The steps that move no value.
LEMMA TableStays ==
  ASSUME TableInv /\ RefInv, UNCHANGED <<table, refs, denotes>>
  PROVE  TableInv' /\ RefInv'
<1>1. UNCHANGED <<values, goRefCounts, ids, idPool, refs, denotes>>
  BY DEF table
<1>2. TableInv'
  BY <1>1 DEF TableInv, TableTypes, Fixed, Found, Entries, Entry, Pool, Indices
<1>3. Indices' = Indices /\ \A j : Holding(j)' = Holding(j)
  BY <1>1 DEF Indices, Holding, Counted
<1> QED  BY <1>1, <1>2, <1>3 DEF RefInv

LEMMA EnterKeeps ==
  ASSUME FrameInv, NEW op, NEW h \in Handles \cup {Nowhere}, Enter(op, h),
         h \in Handles =>
           refs[h].tag = "none" /\ \A k \in 1..Len(frames) : frames[k].to # h
  PROVE  FrameInv'
<1> PICK f : f = [to |-> h, sp |-> base, runs |-> op \in Refreshing \cup Setting]
  OBVIOUS
<1>1. frames' = Append(frames, f) /\ inGo /\ ~inGo' /\ UNCHANGED <<refs, base>>
  BY DEF Enter
<1>2. f \in [to : Handles \cup {Nowhere}, sp : Nat, runs : BOOLEAN] /\ f.to = h /\ f.sp = base
  BY DEF FrameInv, FrameTypes
<1>3. frames \in Seq([to : Handles \cup {Nowhere}, sp : Nat, runs : BOOLEAN]) /\ Len(frames) \in Nat
  BY DEF FrameInv, FrameTypes
<1>4. /\ Len(frames') = Len(frames) + 1 /\ frames'[Len(frames) + 1] = f
      /\ \A k \in 1..Len(frames) : frames'[k] = frames[k]
      /\ frames' \in Seq([to : Handles \cup {Nowhere}, sp : Nat, runs : BOOLEAN])
  BY <1>1, <1>2, <1>3, AppendProperties
<1>5. \A k \in 1..Len(frames') : k \in 1..Len(frames) \/ k = Len(frames) + 1
  BY <1>3, <1>4
<1>6. FrameTypes'
  <2>1. Len(frames') # 0
    BY <1>3, <1>4
  <2>2. frames' # <<>> /\ inGo' \in BOOLEAN
    BY <2>1 DEF Enter
  <2> QED  BY <1>1, <1>4, <2>2 DEF FrameInv, FrameTypes
<1>7. Places'
  BY <1>1, <1>2, <1>4, <1>5 DEF FrameInv, Places
<1>8. StackKnown'
  <2>1. \A k \in 1..Len(frames) : frames[k].runs
    BY <1>1 DEF FrameInv, StackKnown
  <2> QED  BY <1>1, <1>2, <1>4, <1>5, <2>1 DEF StackKnown
<1> QED  BY <1>6, <1>7, <1>8 DEF FrameInv

\* The innermost import is done: those that are left ask for the stack pointer again.
LEMMA LeaveKeeps ==
  ASSUME FrameInv, ~inGo, frames' = SubSeq(frames, 1, Len(frames) - 1), inGo', base' = base,
         inGo' \in BOOLEAN,
         \A h \in Handles : h # frames[Len(frames)].to => refs'[h] = refs[h]
  PROVE  FrameInv'
<1>1. /\ frames \in Seq([to : Handles \cup {Nowhere}, sp : Nat, runs : BOOLEAN])
      /\ Len(frames) \in Nat /\ frames # <<>>
  BY DEF FrameInv, FrameTypes
<1>2. Len(frames) \in 1..Len(frames)
  BY <1>1
<1>3. /\ frames' \in Seq([to : Handles \cup {Nowhere}, sp : Nat, runs : BOOLEAN])
      /\ Len(frames') = Len(frames) - 1
      /\ \A k \in 1..Len(frames') :
           k \in 1..Len(frames) /\ k # Len(frames) /\ frames'[k] = frames[k]
  BY ZenonT(30), <1>1, Front
<1>4. FrameTypes'
  BY <1>3 DEF FrameInv, FrameTypes
<1>5. Places'
  <2>1. \A k \in 1..Len(frames) : frames[k].to \in Handles => refs[frames[k].to].tag = "none"
    BY DEF FrameInv, Places
  <2>2. \A k, l \in 1..Len(frames) :
          frames[k].to \in Handles /\ frames[k].to = frames[l].to => k = l
    BY DEF FrameInv, Places
  <2>3. \A k \in 1..Len(frames') : frames'[k].to \in Handles => refs'[frames'[k].to].tag = "none"
    <3> SUFFICES ASSUME NEW k \in 1..Len(frames'), frames'[k].to \in Handles
                 PROVE  refs'[frames'[k].to].tag = "none"
      OBVIOUS
    <3>1. k \in 1..Len(frames) /\ k # Len(frames) /\ frames'[k] = frames[k]
      BY <1>3
    <3>2. frames[k].to # frames[Len(frames)].to
      BY <3>1, <1>2, <2>2
    <3> QED  BY <3>1, <3>2, <2>1
  <2>4. \A k, l \in 1..Len(frames') :
          frames'[k].to \in Handles /\ frames'[k].to = frames'[l].to => k = l
    BY <1>3, <2>2
  <2> QED  BY <2>3, <2>4 DEF Places
<1>6. StackKnown'
  BY <1>3 DEF FrameInv, StackKnown
<1> QED  BY <1>4, <1>5, <1>6 DEF FrameInv

-----------------------------------------------------------------------------
LEMMA InitIInv == Init => IInv
<1> SUFFICES ASSUME Init PROVE IInv
  OBVIOUS
<1>1. TableInv
  BY InitTable
<1>2. /\ \A h \in Handles : refs[h] = NoWord
      /\ refs = [h \in Handles |-> refs[h]] /\ denotes = [h \in Handles |-> denotes[h]]
  BY DEF Init
<1>3. Len(values) = 7
  BY Predefineds DEF Init
<1>4. RefInv
  BY <1>2, <1>3, WordFields DEF RefInv, WordType, Indices
<1>5. FrameInv
  BY DEF Init, FrameInv, FrameTypes, Places, StackKnown
<1> QED  BY <1>1, <1>4, <1>5 DEF IInv

LEMMA CallKeeps ==
  ASSUME IInv, NEW op \in Storing, NEW h \in Handles, Call(op, h)
  PROVE  IInv'
<1>1. TableInv' /\ RefInv'
  BY TableStays DEF Call, Enter, IInv
<1>2. refs[h].tag = "none" /\ \A k \in 1..Len(frames) : frames[k].to # h
  BY WordFields DEF Call
<1>3. FrameInv'
  BY <1>2, EnterKeeps DEF Call, IInv
<1> QED  BY <1>1, <1>3 DEF IInv

LEMMA CallOnlyKeeps ==
  ASSUME IInv, NEW op, CallOnly(op)
  PROVE  IInv'
<1>1. TableInv' /\ RefInv'
  BY TableStays DEF CallOnly, Enter, IInv
<1>2. FrameInv'
  BY EnterKeeps, HandlesFinite DEF CallOnly, IInv
<1> QED  BY <1>1, <1>2 DEF IInv

\* Go enters a handler, leaves it, or moves its stack.
LEMMA TurnKeeps ==
  ASSUME IInv, Reenter \/ HandlerReturns \/ MoveStack
  PROVE  IInv'
<1>1. UNCHANGED <<table, refs, denotes>> /\ UNCHANGED frames
  BY DEF Reenter, HandlerReturns, MoveStack
<1>2. TableInv' /\ RefInv'
  BY <1>1, TableStays DEF IInv
<1>3. \A k \in 1..Len(frames) : frames[k].runs
  BY DEF IInv, FrameInv, StackKnown, Reenter, HandlerReturns, MoveStack
<1>4. FrameTypes'
  <2>1. frames # <<>> \/ inGo' = TRUE
    BY DEF Reenter, HandlerReturns, MoveStack, IInv, FrameInv, FrameTypes
  <2>2. inGo' \in BOOLEAN /\ base' \in Nat
    <3>1. inGo \in BOOLEAN /\ base \in Nat
      BY DEF IInv, FrameInv, FrameTypes
    <3>2. CASE Reenter
      BY <3>1, <3>2 DEF Reenter
    <3>3. CASE HandlerReturns
      BY <3>1, <3>3 DEF HandlerReturns
    <3>4. CASE MoveStack
      BY <3>1, <3>4 DEF MoveStack
    <3> QED  BY <3>2, <3>3, <3>4
  <2> QED  BY <1>1, <2>1, <2>2 DEF IInv, FrameInv, FrameTypes
<1>5. Places' /\ StackKnown'
  BY <1>1, <1>3 DEF IInv, FrameInv, Places, StackKnown
<1> QED  BY <1>2, <1>4, <1>5 DEF IInv, FrameInv

LEMMA ReturnKeeps ==
  ASSUME IInv, NEW v \in Values, Return(v)
  PROVE  IInv'
<1> PICK f : f = frames[Len(frames)]
  OBVIOUS
<1> PICK h : h = f.to
  OBVIOUS
<1> PICK w : w = StoredWord(v)
  OBVIOUS
<1>1. Len(frames) \in 1..Len(frames)
      /\ frames \in Seq([to : Handles \cup {Nowhere}, sp : Nat, runs : BOOLEAN])
  BY DEF IInv, FrameInv, FrameTypes, Return
<1>2. h \in Handles
  <2>1. frames[Len(frames)].to \in Handles \cup {Nowhere}
    <3>1. frames[Len(frames)] \in [to : Handles \cup {Nowhere}, sp : Nat, runs : BOOLEAN]
      <4> DEFINE S == [to : Handles \cup {Nowhere}, sp : Nat, runs : BOOLEAN]
      <4>1. frames \in Seq(S)
        BY <1>1
      <4> HIDE DEF S
      <4>2. frames[Len(frames)] \in S
        BY <4>1, <1>1, ElementOfSeq
      <4> QED  BY <4>2 DEF S
    <3> QED  BY <3>1
  <2>2. frames[Len(frames)].to # Nowhere
    BY DEF Return
  <2> QED  BY <2>1, <2>2
<1>3. refs[h].tag = "none"
  BY <1>1, <1>2 DEF IInv, FrameInv, Places
<1>4. ResultSp(f) = base
  BY <1>1 DEF IInv, FrameInv, StackKnown, ResultSp
<1>5. /\ refs' = [refs EXCEPT ![h] = w] /\ denotes' = [denotes EXCEPT ![h] = v]
      /\ storeValue(v) /\ ~inGo
      /\ frames' = SubSeq(frames, 1, Len(frames) - 1) /\ inGo' = TRUE /\ base' = base
  BY <1>4 DEF Return
<1>6. TableInv' /\ RefInv'
  BY <1>2, <1>3, <1>5, TakesWord
<1>7. \A g \in Handles : g # frames[Len(frames)].to => refs'[g] = refs[g]
  BY <1>5 DEF IInv, RefInv
<1>8. FrameInv'
  BY <1>5, <1>7, LeaveKeeps DEF IInv
<1> QED  BY <1>6, <1>8 DEF IInv

LEMMA ReturnOnlyKeeps ==
  ASSUME IInv, ReturnOnly
  PROVE  IInv'
<1>1. TableInv' /\ RefInv'
  BY TableStays DEF ReturnOnly, IInv
<1>2. FrameInv'
  BY LeaveKeeps DEF ReturnOnly, IInv
<1> QED  BY <1>1, <1>2 DEF IInv

LEMMA DropFrames ==
  ASSUME IInv, NEW h \in Handles, Drop(h)
  PROVE  FrameInv'
<1>1. /\ UNCHANGED <<base, frames, inGo>> /\ refs'[h] = NoWord
      /\ \A g \in Handles : g # h => refs'[g] = refs[g]
  BY DEF Drop, IInv, RefInv
<1>2. FrameTypes' /\ StackKnown'
  BY <1>1 DEF IInv, FrameInv, FrameTypes, StackKnown
<1>3. Places'
  BY <1>1, WordFields DEF IInv, FrameInv, Places
<1> QED  BY <1>2, <1>3 DEF FrameInv

LEMMA StepKeeps == IInv /\ [Next]_vars => IInv'
<1> SUFFICES ASSUME IInv, [Next]_vars PROVE IInv'
  OBVIOUS
<1>1. ASSUME NEW op \in Storing, NEW h \in Handles, Call(op, h) PROVE IInv'
  BY <1>1, CallKeeps
<1>2. ASSUME NEW op \in Setting \cup Reading, CallOnly(op) PROVE IInv'
  BY <1>2, CallOnlyKeeps
<1>3. CASE Reenter \/ HandlerReturns \/ MoveStack
  BY <1>3, TurnKeeps
<1>4. ASSUME NEW v \in Values, Return(v) PROVE IInv'
  BY <1>4, ReturnKeeps
<1>5. CASE ReturnOnly
  BY <1>5, ReturnOnlyKeeps
<1>6. ASSUME NEW h \in Handles, Drop(h) PROVE IInv'
  BY <1>6, DropKeeps, DropFrames DEF IInv
<1>7. CASE UNCHANGED vars
  <2>1. UNCHANGED <<table, refs, denotes>> /\ UNCHANGED <<base, frames, inGo>>
    BY <1>7 DEF vars, table
  <2>2. TableInv' /\ RefInv'
    BY <2>1, TableStays DEF IInv
  <2>3. FrameInv'
    BY <2>1 DEF IInv, FrameInv, FrameTypes, Places, StackKnown
  <2> QED  BY <2>2, <2>3 DEF IInv
<1> QED  BY <1>1, <1>2, <1>3, <1>4, <1>5, <1>6, <1>7 DEF Next

LEMMA Inductive == Spec => []IInv
<1> QED  BY InitIInv, StepKeeps, PTL DEF Spec

\* The words of Go denote what was stored for them, for any number of values, js.Values,
\* nested imports and moves of the stack.
THEOREM WordsDenote == Spec => []RefsDenote
<1>1. IInv => RefsDenote
  <2> SUFFICES ASSUME IInv, NEW h \in Handles, refs[h] # NoWord
               PROVE  loadValue(refs[h]) = denotes[h]
    BY DEF RefsDenote
  <2>1. WordType(refs[h], Len(values)) /\ refs[h].tag # "none"
    BY DEF IInv, RefInv, WordType
  <2> QED  BY <2>1 DEF IInv, RefInv, loadValue, Load
<1> QED  BY <1>1, Inductive, PTL

\* The counts of the table are those of the words, and an entry nobody counts has no index:
\* nothing Go holds is freed early, and nothing it has dropped stays.
THEOREM TableCounts == Spec => []TableIsHeld
<1>1. IInv => TableIsHeld
  BY DEF IInv, TableInv, RefInv, Entries, Entry, TableIsHeld
<1> QED  BY <1>1, Inductive, PTL

=============================================================================
