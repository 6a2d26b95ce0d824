--------------------------- MODULE MutationProofs ---------------------------
(***************************************************************************)
(* Proofs about Mutation, for any set of documents.                         *)
(*                                                                          *)
(* The mutates that are final and the stack from its top are one line, in    *)
(* the order of the SQL.  NewMutate spreads its top: the others keep their   *)
(* order (Spread).  TreeInv says that each object and each number is on the  *)
(* line once, together with the one above it, and follows the numbers while  *)
(* they are replaced.  It gives TreeKept, for every document.                *)
(*                                                                          *)
(* The rest is about documents in which the objects in the same one all       *)
(* connect or disconnect, or none does (Uniform).  ShapeInv adds the order    *)
(* on the line (Sequenced) and that no object is forgotten (Covered).          *)
(* DepsInv follows the dependencies from the stack through the renumbering,    *)
(* one by one, to the loop that hands them on: what a statement reads is a     *)
(* row that its own refers to, as long as no map of them has grown.  SqlInv    *)
(* adds the statements, and gives Ordered, WrittenOnce and that the SQL         *)
(* implements RowOrder.                                                        *)
(***************************************************************************)
EXTENDS Mutation, FiniteSetTheorems, SequenceTheorems, WellFoundedInduction, TLAPS

-----------------------------------------------------------------------------
(* Numbers in ascending order.                                              *)

\* A set of numbers that is not empty has a least one.
LEMMA Least ==
  ASSUME NEW T, T \subseteq Nat, T # {}
  PROVE  \E x \in T : \A y \in T : x <= y
<1>1. PICK x \in T : \A y \in T : ~(<<y, x>> \in OpToRel(<, Nat))
  BY NatLessThanWellFounded, WFMin, Zenon
<1>2. \A y \in T : y < x => <<y, x>> \in OpToRel(<, Nat)
  BY DEF OpToRel
<1>3. \A y \in T : ~(y < x)
  BY <1>1, <1>2
<1>. QED BY <1>3

\* Induction over the numbers, said of a set.
LEMMA SetInduction ==
  ASSUME NEW T, 0 \in T, \A n \in Nat : n \in T => n + 1 \in T
  PROVE  Nat \subseteq T
<1>. DEFINE U == Nat \ T
<1>. SUFFICES ASSUME U # {} PROVE FALSE
  OBVIOUS
<1>1. PICK x \in U : \A y \in U : x <= y
  <2>. HIDE DEF U
  <2>1. U \subseteq Nat BY DEF U
  <2>. QED BY <2>1, Least
<1>2. x # 0 /\ x \in Nat OBVIOUS
<1>3. x - 1 \in Nat /\ x - 1 \notin U
  BY <1>1, <1>2
<1>. QED BY <1>2, <1>3

\* The function that Ascending defines by recursion.
Collects(S, f, n) ==
  f = [k \in 0..n |-> IF k = 0 THEN <<>>
                      ELSE IF k \in S THEN Append(f[k - 1], k) ELSE f[k - 1]]

\* There is such a function.
LEMMA CollectsExists ==
  ASSUME NEW S, NEW N \in Nat
  PROVE  \E f : Collects(S, f, N)
<1>. DEFINE T == {n \in Nat : \E f : Collects(S, f, n)}
<1>1. 0 \in T
  <2>. DEFINE f == [k \in 0..0 |-> <<>>]
  <2>1. Collects(S, f, 0) BY DEF Collects
  <2>. QED BY <2>1
<1>2. ASSUME NEW n \in Nat, n \in T PROVE n + 1 \in T
  <2>1. PICK f : Collects(S, f, n) BY <1>2
  <2>. DEFINE g == [k \in 0..(n + 1) |->
                      IF k <= n THEN f[k]
                      ELSE IF k \in S THEN Append(f[n], k) ELSE f[n]]
  <2>2. ASSUME NEW k \in 0..(n + 1)
        PROVE  g[k] = IF k = 0 THEN <<>>
                      ELSE IF k \in S THEN Append(g[k - 1], k) ELSE g[k - 1]
    <3>1. CASE k = 0 BY <3>1, <2>1 DEF Collects
    <3>2. CASE k # 0 /\ k <= n
      <4>1. g[k] = f[k] /\ g[k - 1] = f[k - 1] /\ k \in 0..n BY <3>2
      <4>. QED BY <4>1, <3>2, <2>1 DEF Collects
    <3>3. CASE k = n + 1
      <4>1. g[k - 1] = f[n] /\ ~(k <= n) /\ k # 0 BY <3>3
      <4>. QED BY <4>1, <3>3
    <3>. QED BY <3>1, <3>2, <3>3
  <2>3. g = [k \in 0..(n + 1) |-> IF k = 0 THEN <<>>
                      ELSE IF k \in S THEN Append(g[k - 1], k) ELSE g[k - 1]]
    BY <2>2
  <2>4. Collects(S, g, n + 1)
    <3>. HIDE DEF g
    <3>. QED BY <2>3 DEF Collects
  <2>. QED BY <2>4
<1>3. Nat \subseteq T
  <2>. HIDE DEF T
  <2>. QED BY <1>1, <1>2, SetInduction
<1>. QED BY <1>3

\* Ascending is a value of it.
LEMMA AscendingIs ==
  ASSUME NEW S, NEW N \in Nat
  PROVE  \E f : Collects(S, f, N) /\ Ascending(S, N) = f[N]
<1>1. PICK f : Collects(S, f, N) BY CollectsExists
<1>. DEFINE g == CHOOSE f_1 : Collects(S, f_1, N)
<1>2. Collects(S, g, N) BY <1>1, Zenon
<1>3. Ascending(S, N) = g[N] BY DEF Ascending, Collects
<1>. QED BY <1>2, <1>3

\* a lists the members of S up to n, in order.
Lists(a, S, n) ==
  /\ a \in Seq(S)
  /\ \A j \in DOMAIN a : a[j] \in 1..n
  /\ \A x \in S : x \in 1..n => \E j \in DOMAIN a : a[j] = x
  /\ \A j, k \in DOMAIN a : j < k => a[j] < a[k]

\* One more number at the end of the list.
LEMMA ListsAppend ==
  ASSUME NEW S \in SUBSET Nat, NEW a, NEW n \in Nat, Lists(a, S, n), n + 1 \in S
  PROVE  Lists(Append(a, n + 1), S, n + 1)
<1>. DEFINE b == Append(a, n + 1)
<1>0. a \in Seq(S) BY DEF Lists
<1>1. /\ b \in Seq(S) /\ Len(a) \in Nat /\ DOMAIN a = 1..Len(a) /\ DOMAIN b = 1..(Len(a) + 1)
      /\ b[Len(a) + 1] = n + 1 /\ \A j \in DOMAIN a : b[j] = a[j]
  BY <1>0, AppendProperties, LenProperties
<1>. HIDE DEF b
<1>2. \A j \in DOMAIN b : b[j] \in 1..(n + 1)
  BY <1>1 DEF Lists
<1>3. ASSUME NEW x \in S, x \in 1..(n + 1) PROVE \E j \in DOMAIN b : b[j] = x
  <2>1. CASE x = n + 1
    <3>1. Len(a) + 1 \in DOMAIN b BY <1>1
    <3>. QED BY <2>1, <3>1, <1>1
  <2>2. CASE x # n + 1
    <3>1. x \in 1..n BY <2>2, <1>3
    <3>2. PICK j \in DOMAIN a : a[j] = x BY <3>1 DEF Lists
    <3>3. j \in DOMAIN b BY <3>2, <1>1
    <3>. QED BY <3>2, <3>3, <1>1
  <2>. QED BY <2>1, <2>2
<1>4. ASSUME NEW j \in DOMAIN b, NEW k \in DOMAIN b, j < k PROVE b[j] < b[k]
  <2>1. j \in DOMAIN a BY <1>4, <1>1
  <2>2. b[j] = a[j] /\ a[j] \in 1..n BY <2>1, <1>1 DEF Lists
  <2>3. CASE k \in DOMAIN a
    BY <2>1, <2>2, <2>3, <1>1, <1>4 DEF Lists
  <2>4. CASE k = Len(a) + 1 BY <2>2, <2>4, <1>1
  <2>. QED BY <2>3, <2>4, <1>1
<1>. QED BY <1>1, <1>2, <1>3, <1>4 DEF Lists, b

\* Ascending(S, n) holds what S has up to n, once and in order.
LEMMA AscendingLists ==
  ASSUME NEW S \in SUBSET Nat, NEW N \in Nat
  PROVE  Lists(Ascending(S, N), S, N)
<1>1. PICK f : Collects(S, f, N) /\ Ascending(S, N) = f[N] BY AscendingIs
<1>. DEFINE T == {n \in Nat : n <= N => Lists(f[n], S, n)}
<1>2. 0 \in T
  <2>1. f[0] = <<>> BY <1>1 DEF Collects
  <2>2. Lists(<<>>, S, 0) BY DEF Lists
  <2>. QED BY <2>1, <2>2
<1>3. ASSUME NEW n \in Nat, n \in T PROVE n + 1 \in T
  <2>. SUFFICES ASSUME n + 1 <= N PROVE Lists(f[n + 1], S, n + 1)
    OBVIOUS
  <2>1. Lists(f[n], S, n) BY <1>3
  <2>2. f[n + 1] = IF n + 1 \in S THEN Append(f[n], n + 1) ELSE f[n]
    <3>1. n + 1 \in 0..N /\ n + 1 # 0 /\ (n + 1) - 1 = n OBVIOUS
    <3>. QED BY <1>1, <3>1 DEF Collects
  <2>3. CASE n + 1 \in S BY <2>1, <2>2, <2>3, ListsAppend
  <2>4. CASE n + 1 \notin S
    <3>1. \A x \in S : x \in 1..(n + 1) => x \in 1..n BY <2>4
    <3>2. \A x : x \in 1..n => x \in 1..(n + 1) OBVIOUS
    <3>. QED BY <2>1, <2>2, <2>4, <3>1, <3>2 DEF Lists
  <2>. QED BY <2>3, <2>4
<1>4. Nat \subseteq T
  <2>. HIDE DEF T
  <2>. QED BY <1>2, <1>3, SetInduction
<1>5. N \in T BY <1>4
<1>. QED BY <1>1, <1>5

-----------------------------------------------------------------------------
(* Documents.                                                               *)

Tables == {doc.table[x] : x \in Objects}
Rels == {"root", "one", "many", "connect", "disconnect"}
Types == {"insert", "update", "upsert", "delete", "none", "connect", "disconnect"}

\* The mutates, on the stack and after it.
MutateSet ==
  [x : Objects, id : Int, parent : Int, type : Types, table : Tables, rel : Rels,
   deps : SUBSET Int, children : Seq(Int), multi : BOOLEAN, render : BOOLEAN]

\* The object modifies the table of the one above it.
Modifier(x) == doc.up[x] # 0 /\ Modifies(x)

\* A document, from the assumption about it.
LEMMA DocFacts ==
  ASSUME doc \in Docs
  PROVE  /\ doc.op \in Ops
         /\ Len(doc.up) \in Nat /\ Objects = 1..Len(doc.up) /\ Objects \subseteq Nat
         /\ \A c \in Objects : /\ doc.up[c] \in Nat /\ doc.up[c] < c
                               /\ doc.kind[c] \in Kinds
                               /\ doc.table[c] \in Tables
                               /\ doc.up[c] # 0 => /\ doc.up[c] \in Objects
                                                   /\ doc.kind[doc.up[c]] \in {"one", "many"}
         /\ doc.op = "delete" => \A c \in Objects : doc.up[c] = 0
<1>1. /\ doc.up \in Seq(0..MaxObjects) /\ doc.kind \in Seq(Kinds) /\ doc.op \in Ops
      /\ DOMAIN doc.kind = DOMAIN doc.up
      /\ \A k \in DOMAIN doc.up :
              /\ doc.up[k] \in 0..(k - 1)
              /\ doc.kind[k] \in Kinds
              /\ doc.up[k] # 0 => doc.kind[doc.up[k]] \in {"one", "many"}
      /\ doc.up[1] = 0 /\ (doc.op = "delete" => Len(doc.up) = 1)
  BY DocsAssumption
<1>2. Len(doc.up) \in Nat /\ Objects = 1..Len(doc.up) /\ Objects = DOMAIN doc.up
  BY <1>1, LenProperties DEF Objects
<1>3. ASSUME NEW c \in Objects
      PROVE  /\ doc.up[c] \in Nat /\ doc.up[c] < c
             /\ doc.up[c] # 0 => doc.up[c] \in Objects
  <2>1. doc.up[c] \in 0..(c - 1) /\ c \in 1..Len(doc.up) BY <1>1, <1>2
  <2>. QED BY <2>1, <1>2
<1>4. \A c \in Objects : doc.table[c] \in Tables BY DEF Tables
<1>5. ASSUME doc.op = "delete", NEW c \in Objects PROVE doc.up[c] = 0
  <2>1. c = 1 BY <1>1, <1>2, <1>5
  <2>. QED BY <1>1, <2>1
<1>. QED BY <1>1, <1>2, <1>3, <1>4, <1>5

\* The object of a delete holds no other.
LEMMA NotDeleted ==
  ASSUME doc \in Docs, NEW m \in MutateSet, NEW c \in Objects, doc.up[c] = m.x
  PROVE  doc.op # "delete"
<1>1. m.x \in Objects BY DEF MutateSet
<1>2. m.x # 0 BY <1>1, DocFacts
<1>. QED BY <1>2, DocFacts

\* Kids(x) lists the objects in x, each once.
LEMMA KidsFacts ==
  ASSUME doc \in Docs, NEW x
  PROVE  /\ Kids(x) \in Seq(Objects)
         /\ \A k \in DOMAIN Kids(x) : doc.up[Kids(x)[k]] = x /\ Kids(x)[k] \in Objects
         /\ \A c \in Objects : doc.up[c] = x => \E k \in DOMAIN Kids(x) : Kids(x)[k] = c
         /\ \A j, k \in DOMAIN Kids(x) : j # k => Kids(x)[j] # Kids(x)[k]
<1>. DEFINE S == {c \in Objects : doc.up[c] = x}
            a == Kids(x)
            N == Len(doc.up)
<1>1. S \in SUBSET Nat /\ N \in Nat /\ Objects = 1..N BY DocFacts
<1>2. Lists(a, S, N)
  <2>. HIDE DEF S, N
  <2>1. Lists(Ascending(S, N), S, N) BY <1>1, AscendingLists
  <2>. QED BY <2>1 DEF Kids, S, N
<1>3. a \in Seq(S) BY <1>2 DEF Lists
<1>4. \A k \in DOMAIN a : a[k] \in S BY <1>3, ElementOfSeq, LenProperties
<1>5. a \in Seq(Objects)
  <2>1. S \subseteq Objects OBVIOUS
  <2>. HIDE DEF S, a
  <2>. QED BY <1>3, <2>1, SeqMonotonic
<1>6. \A c \in Objects : doc.up[c] = x => \E k \in DOMAIN a : a[k] = c
  <2>1. \A c \in S : c \in 1..N => \E k \in DOMAIN a : a[k] = c BY <1>2 DEF Lists
  <2>. QED BY <2>1, <1>1
<1>7. ASSUME NEW j \in DOMAIN a, NEW k \in DOMAIN a, j # k PROVE a[j] # a[k]
  <2>1. j \in Nat /\ k \in Nat BY <1>3, LenProperties
  <2>2. a[j] \in Nat /\ a[k] \in Nat BY <1>4, <1>1
  <2>3. j < k => a[j] < a[k] BY <1>2 DEF Lists
  <2>4. k < j => a[k] < a[j] BY <1>2 DEF Lists
  <2>. HIDE DEF a
  <2>. QED BY <2>1, <2>2, <2>3, <2>4, <1>7
<1>. QED BY <1>4, <1>5, <1>6, <1>7

\* OfRel picks those of the relation, in order.
LEMMA OfRelFacts ==
  ASSUME NEW V, NEW items \in Seq(V), NEW rel
  PROVE  /\ OfRel(items, rel) \in Seq(V)
         /\ \E g \in [DOMAIN OfRel(items, rel) -> DOMAIN items] :
               /\ \A j \in DOMAIN OfRel(items, rel) :
                     OfRel(items, rel)[j] = items[g[j]] /\ items[g[j]].rel = rel
               /\ \A j, k \in DOMAIN OfRel(items, rel) : j # k => g[j] # g[k]
               /\ \A n \in DOMAIN items : items[n].rel = rel =>
                     \E j \in DOMAIN OfRel(items, rel) : g[j] = n
<1>. DEFINE S == {k \in DOMAIN items : items[k].rel = rel}
            N == Len(items)
            g == Ascending(S, N)
            o == OfRel(items, rel)
<1>1. S \in SUBSET Nat /\ N \in Nat /\ DOMAIN items = 1..N
  BY LenProperties
<1>2. Lists(g, S, N)
  <2>. HIDE DEF S, N
  <2>. QED BY <1>1, AscendingLists
<1>3. g \in Seq(S) BY <1>2 DEF Lists
<1>4. DOMAIN g = 1..Len(g) /\ Len(g) \in Nat /\ \A k \in DOMAIN g : g[k] \in S
  <2>. HIDE DEF g, S
  <2>. QED BY <1>3, ElementOfSeq, LenProperties
<1>5. o = [j \in DOMAIN g |-> items[g[j]]] BY DEF OfRel
<1>6. DOMAIN o = DOMAIN g /\ \A j \in DOMAIN g : o[j] = items[g[j]] BY <1>5
<1>7. \A k \in DOMAIN items : items[k] \in V BY ElementOfSeq, LenProperties
<1>8. o \in Seq(V)
  <2>1. \A j \in 1..Len(g) : items[g[j]] \in V
    <3>1. \A j \in DOMAIN g : g[j] \in DOMAIN items BY <1>4
    <3>. QED BY <3>1, <1>4, <1>7
  <2>2. o = [j \in 1..Len(g) |-> items[g[j]]] BY <1>4, <1>5
  <2>. HIDE DEF g, o
  <2>. QED BY <1>4, <2>1, <2>2, IsASeq
<1>9. g \in [DOMAIN o -> DOMAIN items]
  <2>1. g \in [1..Len(g) -> S]
    <3>. HIDE DEF g, S
    <3>. QED BY <1>3, LenProperties
  <2>. QED BY <2>1, <1>4, <1>6
<1>10. \A j, k \in DOMAIN o : j # k => g[j] # g[k]
  <2>1. ASSUME NEW j \in DOMAIN g, NEW k \in DOMAIN g, j # k PROVE g[j] # g[k]
    <3>1. j \in Nat /\ k \in Nat BY <1>4
    <3>2. g[j] \in Nat /\ g[k] \in Nat BY <1>4, <1>1
    <3>3. j < k => g[j] < g[k] BY <1>2 DEF Lists
    <3>4. k < j => g[k] < g[j] BY <1>2 DEF Lists
    <3>. HIDE DEF g
    <3>. QED BY <3>1, <3>2, <3>3, <3>4, <2>1
  <2>. QED BY <2>1, <1>6
<1>11. \A n \in DOMAIN items : items[n].rel = rel => \E j \in DOMAIN o : g[j] = n
  <2>1. \A n \in S : n \in 1..N => \E j \in DOMAIN g : g[j] = n BY <1>2 DEF Lists
  <2>. QED BY <2>1, <1>1, <1>6
<1>12. \A j \in DOMAIN o : o[j] = items[g[j]] /\ items[g[j]].rel = rel
  BY <1>4, <1>6
<1>. HIDE DEF g, o, S
<1>. QED BY <1>8, <1>9, <1>10, <1>11, <1>12 DEF o

-----------------------------------------------------------------------------
(* What newMutate makes of the top of the stack.                            *)

\* The mutate t once it is looked at, and those it needs.
Typed(t) == [t EXCEPT !.type = TypeAfter(t), !.render = TRUE,
                      !.children = [k \in DOMAIN Items(t) |-> Items(t)[k].id]]
Grown(t) == [Typed(t) EXCEPT !.deps = @ \cup DependsOn(Typed(t), Items(t))]
Sprouts(t) == [k \in DOMAIN Items(t) |-> WithDeps(Grown(t), Items(t)[k])]

\* NewMutate in these terms.
LEMMA NewMutateIs ==
  NewMutate =>
    /\ phase = "stack" /\ stack # <<>> /\ ~Top.render /\ ~Unknown(Top)
    /\ stack' = Rest \o Pushed(Grown(Top), Sprouts(Top))
    /\ nextId' = nextId + Len(Items(Top))
    /\ UNCHANGED <<doc, phase, mutates, mmap, i, todo, sql>>
BY Zenon DEF NewMutate, Grown, Typed, Sprouts

\* Mutate makes a mutate.
LEMMA MutateType ==
  ASSUME NEW x \in Objects, NEW id \in Int, NEW parent \in Int, NEW type \in Types,
         NEW table \in Tables, NEW rel \in Rels
  PROVE  Mutate(x, id, parent, type, table, rel) \in MutateSet
<1>1. <<>> \in Seq(Int) /\ {} \in SUBSET Int /\ FALSE \in BOOLEAN
  OBVIOUS
<1>. QED BY <1>1 DEF Mutate, MutateSet

\* The mutate of the k-th object in m.
LEMMA ItemFacts ==
  ASSUME doc \in Docs, NEW m \in MutateSet, nextId \in Nat, NEW k \in DOMAIN Items(m)
  PROVE  LET v == Items(m)[k]
             c == Kids(m.x)[k]
         IN /\ v \in MutateSet /\ k \in DOMAIN Kids(m.x) /\ c \in Objects /\ doc.up[c] = m.x
            /\ v.x = c /\ v.id = nextId + k - 1
            /\ v.parent = IF Modifies(c) THEN m.parent ELSE m.id
            /\ v.render <=> Modifies(c)
            /\ v.deps = {} /\ v.children = <<>> /\ v.multi = FALSE
            /\ v.rel = IF Modifies(c) THEN m.rel ELSE doc.kind[c]
            /\ v.type = IF Modifies(c) THEN doc.kind[c]
                        ELSE IF \E l \in 1..(k - 1) : Modifies(Kids(m.x)[l]) THEN "none"
                        ELSE m.type
<1>. DEFINE c == Kids(m.x)[k]
            none == \E l \in 1..(k - 1) : Modifies(Kids(m.x)[l])
            type == IF none THEN "none" ELSE m.type
            v == Items(m)[k]
            n == nextId + k - 1
            A == Mutate(c, n, m.parent, doc.kind[c], m.table, m.rel)
            B == Mutate(c, n, m.id, type, doc.table[c], doc.kind[c])
<1>1. Kids(m.x) \in Seq(Objects) /\ c \in Objects /\ doc.up[c] = m.x
      /\ k \in 1..Len(Kids(m.x)) /\ k \in DOMAIN Kids(m.x) /\ k \in Nat
  <2>1. Kids(m.x) \in Seq(Objects) BY KidsFacts
  <2>2. k \in 1..Len(Kids(m.x)) BY DEF Items
  <2>3. DOMAIN Kids(m.x) = 1..Len(Kids(m.x)) /\ Len(Kids(m.x)) \in Nat BY <2>1, LenProperties
  <2>4. k \in DOMAIN Kids(m.x) BY <2>2, <2>3
  <2>5. c \in Objects /\ doc.up[c] = m.x BY <2>4, KidsFacts
  <2>. QED BY <2>1, <2>2, <2>3, <2>4, <2>5
<1>2. v = IF Modifies(c) THEN [A EXCEPT !.render = TRUE] ELSE B
  BY <1>1, Zenon DEF Items, Item
<1>3. /\ m.parent \in Int /\ m.id \in Int /\ m.type \in Types /\ m.table \in Tables
      /\ m.rel \in Rels
  BY DEF MutateSet
<1>4. n \in Int BY <1>1
<1>5. doc.kind[c] \in Kinds /\ doc.table[c] \in Tables BY <1>1, DocFacts
<1>6. type \in Types BY <1>3 DEF Types
<1>7. doc.kind[c] \in Rels BY <1>5 DEF Kinds, Rels
<1>. HIDE DEF type, n
<1>8. CASE Modifies(c)
  <2>1. doc.kind[c] \in Types BY <1>8, <1>5 DEF Modifies, Types
  <2>0. A = Mutate(c, n, m.parent, doc.kind[c], m.table, m.rel) OBVIOUS
  <2>. HIDE DEF c, A
  <2>2. /\ A.x = c /\ A.id = n /\ A.parent = m.parent /\ A.type = doc.kind[c]
        /\ A.rel = m.rel /\ A.deps = {} /\ A.children = <<>> /\ A.multi = FALSE
    BY <2>0 DEF Mutate
  <2>7. A \in MutateSet
    BY <2>0, <1>1, <1>3, <1>4, <2>1, MutateType, ZenonT(30)
  <2>8. [A EXCEPT !.render = TRUE] \in MutateSet BY <2>7 DEF MutateSet
  <2>3. v = [A EXCEPT !.render = TRUE] BY <1>2, <1>8 DEF A
  <2>4. DOMAIN A = {"x", "id", "parent", "type", "table", "rel", "deps", "children",
                    "multi", "render"}
    BY <2>0 DEF Mutate
  <2>. HIDE DEF v
  <2>5. /\ v.x = A.x /\ v.id = A.id /\ v.parent = A.parent /\ v.type = A.type
        /\ v.rel = A.rel /\ v.deps = A.deps /\ v.children = A.children /\ v.multi = A.multi
        /\ v.render
    BY <2>3, <2>4
  <2>6. v \in MutateSet BY <2>8, <2>3
  <2>. QED BY <2>2, <2>5, <2>6, <1>1, <1>8 DEF v, c, n
<1>9. CASE ~Modifies(c)
  <2>0. B = Mutate(c, n, m.id, type, doc.table[c], doc.kind[c]) OBVIOUS
  <2>. HIDE DEF c, B
  <2>2. /\ B.x = c /\ B.id = n /\ B.parent = m.id /\ B.type = type
        /\ B.rel = doc.kind[c] /\ B.deps = {} /\ B.children = <<>> /\ B.multi = FALSE
        /\ B.render = FALSE
    BY <2>0 DEF Mutate
  <2>4. B \in MutateSet
    BY <2>0, <1>1, <1>3, <1>4, <1>5, <1>6, <1>7, MutateType, ZenonT(30)
  <2>3. v = B BY <1>2, <1>9 DEF B
  <2>. HIDE DEF v
  <2>. QED BY <2>2, <2>3, <2>4, <1>1, <1>9 DEF v, c, n, type
<1>. QED BY <1>8, <1>9

\* Items(t) is a sequence of mutates, one for each object in t.
LEMMA ItemsSeq ==
  ASSUME doc \in Docs, NEW t \in MutateSet, nextId \in Nat
  PROVE  /\ Items(t) \in Seq(MutateSet) /\ Len(Items(t)) \in Nat
         /\ DOMAIN Items(t) = 1..Len(Items(t)) /\ DOMAIN Items(t) = DOMAIN Kids(t.x)
<1>. DEFINE N == Len(Kids(t.x))
<1>1. N \in Nat /\ DOMAIN Kids(t.x) = 1..N
  <2>1. Kids(t.x) \in Seq(Objects) BY KidsFacts
  <2>. QED BY <2>1, LenProperties
<1>2. Items(t) = [k \in 1..N |-> Item(t, k)] BY DEF Items
<1>3. \A k \in 1..N : Item(t, k) \in MutateSet
  <2>1. \A k \in DOMAIN Items(t) : Items(t)[k] \in MutateSet BY ItemFacts
  <2>. QED BY <1>2, <2>1
<1>4. Items(t) \in Seq(MutateSet)
  <2>. HIDE DEF N
  <2>. QED BY <1>1, <1>2, <1>3, IsASeq
<1>. QED BY <1>1, <1>2, <1>4, LenProperties

\* What the first step changes.
LEMMA TypedFacts ==
  ASSUME doc \in Docs, NEW t \in MutateSet, nextId \in Nat
  PROVE  /\ Typed(t) \in MutateSet
         /\ Typed(t).x = t.x /\ Typed(t).id = t.id /\ Typed(t).parent = t.parent
         /\ Typed(t).table = t.table /\ Typed(t).rel = t.rel /\ Typed(t).deps = t.deps
         /\ Typed(t).multi = t.multi /\ Typed(t).type = TypeAfter(t)
         /\ Typed(t).children = [k \in DOMAIN Items(t) |-> Items(t)[k].id]
         /\ Typed(t).render
<1>. DEFINE ids == [k \in DOMAIN Items(t) |-> Items(t)[k].id]
            type == TypeAfter(t)
<1>1. ids \in Seq(Int)
  <2>1. \A k \in DOMAIN Items(t) : Items(t)[k].id \in Int
    <3>1. \A k \in DOMAIN Items(t) : Items(t)[k] \in MutateSet BY ItemFacts
    <3>. QED BY <3>1 DEF MutateSet
  <2>2. DOMAIN Items(t) = 1..Len(Items(t)) /\ Len(Items(t)) \in Nat BY ItemsSeq
  <2>3. ids = [k \in 1..Len(Items(t)) |-> Items(t)[k].id] BY <2>2
  <2>. HIDE DEF ids
  <2>. QED BY <2>1, <2>2, <2>3, IsASeq
<1>2. type \in Types
  <2>1. t.type \in Types /\ "none" \in Types BY DEF MutateSet, Types
  <2>. QED BY <2>1 DEF TypeAfter
<1>. HIDE DEF ids, type
<1>3. Typed(t) = [t EXCEPT !.type = type, !.render = TRUE, !.children = ids]
  BY Zenon DEF Typed, ids, type
<1>4. /\ Typed(t) \in MutateSet
      /\ Typed(t).x = t.x /\ Typed(t).id = t.id /\ Typed(t).parent = t.parent
      /\ Typed(t).table = t.table /\ Typed(t).rel = t.rel /\ Typed(t).deps = t.deps
      /\ Typed(t).multi = t.multi /\ Typed(t).type = type
      /\ Typed(t).children = ids /\ Typed(t).render
  BY <1>1, <1>2, <1>3 DEF MutateSet
<1>. QED BY <1>4 DEF ids, type

\* What the second step changes.
LEMMA GrownFacts ==
  ASSUME doc \in Docs, NEW t \in MutateSet, nextId \in Nat
  PROVE  /\ Grown(t) \in MutateSet
         /\ Grown(t).x = t.x /\ Grown(t).id = t.id /\ Grown(t).parent = t.parent
         /\ Grown(t).table = t.table /\ Grown(t).rel = t.rel
         /\ Grown(t).deps = t.deps \cup DependsOn(Typed(t), Items(t))
         /\ Grown(t).multi = t.multi /\ Grown(t).type = TypeAfter(t)
         /\ Grown(t).children = [k \in DOMAIN Items(t) |-> Items(t)[k].id]
         /\ Grown(t).render
<1>. DEFINE y == Typed(t)
            d == DependsOn(y, Items(t))
<1>1. /\ y \in MutateSet
      /\ y.x = t.x /\ y.id = t.id /\ y.parent = t.parent
      /\ y.table = t.table /\ y.rel = t.rel /\ y.deps = t.deps
      /\ y.multi = t.multi /\ y.type = TypeAfter(t)
      /\ y.children = [k \in DOMAIN Items(t) |-> Items(t)[k].id]
      /\ y.render
  BY TypedFacts
<1>2. d \in SUBSET Int
  <2>1. IdsOf(OfRel(Items(t), "many")) \subseteq Int
    <3>1. OfRel(Items(t), "many") \in Seq(MutateSet) BY ItemsSeq, OfRelFacts
    <3>2. \A k \in DOMAIN OfRel(Items(t), "many") : OfRel(Items(t), "many")[k] \in MutateSet
      BY <3>1, ElementOfSeq, LenProperties
    <3>. QED BY <3>2 DEF IdsOf, MutateSet
  <2>2. y.parent \in Int BY <1>1 DEF MutateSet
  <2>. HIDE DEF y
  <2>3. DependsOn(y, Items(t)) \subseteq Int BY <2>1, <2>2 DEF DependsOn
  <2>. QED BY <2>3
<1>3. Grown(t) = [y EXCEPT !.deps = @ \cup d] BY Zenon DEF Grown
<1>. HIDE DEF y, d
<1>4. /\ Grown(t) \in MutateSet
      /\ Grown(t).x = y.x /\ Grown(t).id = y.id /\ Grown(t).parent = y.parent
      /\ Grown(t).table = y.table /\ Grown(t).rel = y.rel
      /\ Grown(t).deps = y.deps \cup d
      /\ Grown(t).multi = y.multi /\ Grown(t).type = y.type
      /\ Grown(t).children = y.children
      /\ Grown(t).render = y.render
  BY <1>1, <1>2, <1>3 DEF MutateSet
<1>. QED BY <1>1, <1>4 DEF d, y

\* The mutates of the objects, with the dependency that some get.
LEMMA SproutsFacts ==
  ASSUME doc \in Docs, NEW t \in MutateSet, nextId \in Nat
  PROVE  /\ Sprouts(t) \in Seq(MutateSet) /\ DOMAIN Sprouts(t) = DOMAIN Items(t)
         /\ Len(Sprouts(t)) = Len(Items(t))
         /\ \A k \in DOMAIN Items(t) :
              LET s == Sprouts(t)[k]
                  v == Items(t)[k]
              IN /\ s \in MutateSet
                 /\ s.x = v.x /\ s.id = v.id /\ s.parent = v.parent /\ s.type = v.type
                 /\ s.table = v.table /\ s.rel = v.rel /\ s.children = v.children
                 /\ s.multi = v.multi /\ s.render = v.render
                 /\ s.deps = IF TypeAfter(t) \notin {"insert", "update"} /\ v.rel = "one"
                             THEN {t.parent} ELSE {}
<1>. DEFINE g == Grown(t)
<1>1. Items(t) \in Seq(MutateSet) /\ Len(Items(t)) \in Nat /\ DOMAIN Items(t) = 1..Len(Items(t))
  BY ItemsSeq
<1>2. Sprouts(t) = [k \in 1..Len(Items(t)) |-> WithDeps(g, Items(t)[k])]
  BY <1>1 DEF Sprouts
<1>3. g \in MutateSet /\ g.type = TypeAfter(t) /\ g.parent = t.parent /\ t.parent \in Int
  BY GrownFacts DEF MutateSet
<1>. HIDE DEF g
<1>4. ASSUME NEW k \in DOMAIN Items(t)
      PROVE  LET s == Sprouts(t)[k]
                  v == Items(t)[k]
              IN /\ s \in MutateSet
                 /\ s.x = v.x /\ s.id = v.id /\ s.parent = v.parent /\ s.type = v.type
                 /\ s.table = v.table /\ s.rel = v.rel /\ s.children = v.children
                 /\ s.multi = v.multi /\ s.render = v.render
                 /\ s.deps = IF TypeAfter(t) \notin {"insert", "update"} /\ v.rel = "one"
                             THEN {t.parent} ELSE {}
  <2>. DEFINE s == Sprouts(t)[k]
              v == Items(t)[k]
  <2>1. v \in MutateSet /\ v.deps = {} BY ItemFacts
  <2>2. s = WithDeps(g, v) BY <1>1, <1>2
  <2>. HIDE DEF s, v
  <2>3. CASE TypeAfter(t) \notin {"insert", "update"} /\ v.rel = "one"
    <3>1. s = [v EXCEPT !.deps = @ \cup {t.parent}]
      BY <2>2, <2>3, <1>3 DEF WithDeps
    <3>2. /\ s \in MutateSet
          /\ s.x = v.x /\ s.id = v.id /\ s.parent = v.parent /\ s.type = v.type
          /\ s.table = v.table /\ s.rel = v.rel /\ s.children = v.children
          /\ s.multi = v.multi /\ s.render = v.render
          /\ s.deps = v.deps \cup {t.parent}
      BY <3>1, <2>1, <1>3 DEF MutateSet
    <3>. QED BY <3>2, <2>1, <2>3 DEF s, v
  <2>4. CASE ~(TypeAfter(t) \notin {"insert", "update"} /\ v.rel = "one")
    <3>1. s = v BY <2>2, <2>4, <1>3 DEF WithDeps
    <3>. QED BY <3>1, <2>1, <2>4 DEF s, v
  <2>. QED BY <2>3, <2>4
<1>5. Sprouts(t) \in Seq(MutateSet)
  <2>1. \A k \in 1..Len(Items(t)) : WithDeps(g, Items(t)[k]) \in MutateSet
    BY <1>1, <1>2, <1>4
  <2>. QED BY <1>1, <1>2, <2>1, IsASeq
<1>6. DOMAIN Sprouts(t) = DOMAIN Items(t) /\ Len(Sprouts(t)) = Len(Items(t))
  BY <1>1, <1>2, <1>5, LenProperties
<1>. QED BY <1>4, <1>5, <1>6

-----------------------------------------------------------------------------
(* Where it is pushed.                                                      *)

\* f says what the places of P hold: 0 is m, k is the k-th of the items.
Places(P, m, items, f) ==
  /\ f \in [DOMAIN P -> 0..Len(items)]
  /\ \A q \in DOMAIN P : P[q] = IF f[q] = 0 THEN m ELSE items[f[q]]
  /\ \A q, r \in DOMAIN P : q # r => f[q] # f[r]
  /\ \E q \in DOMAIN P : f[q] = 0
  /\ m.type = "upsert" => \A q \in DOMAIN P : f[q] = 0
  /\ m.type # "upsert" /\ (m.type = "insert" => \A k \in DOMAIN items : items[k].rel \in {"one", "many"})
       => \A k \in DOMAIN items : \E q \in DOMAIN P : f[q] = k
  /\ \A q, r \in DOMAIN P : f[q] = 0 /\ f[r] # 0 =>
       IF m.type = "insert" /\ items[f[r]].rel = "many" THEN q < r ELSE r < q

\* An upsert pushes no mutate of an object in it.
LEMMA PushedUpsert ==
  ASSUME NEW m \in MutateSet, NEW items \in Seq(MutateSet), m.type = "upsert"
  PROVE  /\ Pushed(m, items) \in Seq(MutateSet)
         /\ \E f : Places(Pushed(m, items), m, items, f)
<1>. DEFINE P == Pushed(m, items)
            f == [q \in {1} |-> 0]
<1>1. P = <<m>> BY DEF Pushed
<1>2. P \in Seq(MutateSet) /\ DOMAIN P = {1} /\ P[1] = m BY <1>1
<1>3. Len(items) \in Nat BY LenProperties
<1>. HIDE DEF P
<1>4. Places(P, m, items, f)
  BY <1>2, <1>3 DEF Places
<1>. QED BY <1>2, <1>4 DEF P

\* An update pushes them all, to be met before the statement is.
LEMMA PushedAfter ==
  ASSUME NEW m \in MutateSet, NEW items \in Seq(MutateSet), m.type \notin {"insert", "upsert"}
  PROVE  /\ Pushed(m, items) \in Seq(MutateSet)
         /\ \E f : Places(Pushed(m, items), m, items, f)
<1>. DEFINE P == Pushed(m, items)
            N == Len(items)
            f == [q \in 1..(N + 1) |-> IF q = N + 1 THEN 0 ELSE q]
<1>1. P = items \o <<m>> BY DEF Pushed
<1>2. <<m>> \in Seq(MutateSet) /\ Len(<<m>>) = 1 /\ <<m>>[1] = m OBVIOUS
<1>3. N \in Nat /\ DOMAIN items = 1..N BY LenProperties
<1>4. /\ P \in Seq(MutateSet) /\ Len(P) = N + 1 /\ P[N + 1] = m
      /\ \A q \in 1..N : P[q] = items[q]
  <2>1. /\ P \in Seq(MutateSet) /\ Len(P) = N + Len(<<m>>)
        /\ \A k \in 1..Len(P) : P[k] = IF k <= N THEN items[k] ELSE <<m>>[k - N]
    <3>. HIDE DEF P
    <3>. QED BY <1>1, <1>2, ConcatProperties
  <2>. HIDE DEF P, N
  <2>2. N + 1 \in 1..Len(P) /\ ~(N + 1 <= N) /\ (N + 1) - N = 1 BY <2>1, <1>2, <1>3
  <2>3. \A q \in 1..N : q \in 1..Len(P) /\ q <= N BY <2>1, <1>2, <1>3
  <2>. QED BY <2>1, <2>2, <2>3, <1>2
<1>5. DOMAIN P = 1..(N + 1) BY <1>4, LenProperties
<1>. HIDE DEF P, N
<1>6. f \in [DOMAIN P -> 0..N] BY <1>3, <1>5
<1>7. \A q \in DOMAIN P : P[q] = IF f[q] = 0 THEN m ELSE items[f[q]]
  BY <1>3, <1>4, <1>5
<1>8. \A q, r \in DOMAIN P : q # r => f[q] # f[r]
  BY <1>3, <1>5
<1>9. N + 1 \in DOMAIN P /\ f[N + 1] = 0 BY <1>3, <1>5
<1>10. \A k \in DOMAIN items : k \in DOMAIN P /\ f[k] = k
  BY <1>3, <1>5
<1>11. \A q, r \in DOMAIN P : f[q] = 0 /\ f[r] # 0 => r < q
  BY <1>3, <1>5
<1>. HIDE DEF f
<1>12. Places(P, m, items, f)
  BY <1>6, <1>7, <1>8, <1>9, <1>10, <1>11 DEF Places, N
<1>. QED BY <1>4, <1>12 DEF P

\* An insert pushes those it refers to below it and those that refer to it above.
LEMMA PushedInsert ==
  ASSUME NEW m \in MutateSet, NEW items \in Seq(MutateSet), m.type = "insert"
  PROVE  /\ Pushed(m, items) \in Seq(MutateSet)
         /\ \E f : Places(Pushed(m, items), m, items, f)
<1>. DEFINE P == Pushed(m, items)
            ones == OfRel(items, "one")
            manys == OfRel(items, "many")
            A == Len(ones)
            B == Len(manys)
            N == Len(items)
<1>1. P = (ones \o <<m>>) \o manys BY DEF Pushed
<1>2. /\ ones \in Seq(MutateSet) /\ manys \in Seq(MutateSet)
      /\ A \in Nat /\ B \in Nat /\ N \in Nat
      /\ DOMAIN ones = 1..A /\ DOMAIN manys = 1..B /\ DOMAIN items = 1..N
      /\ Len(ones) = A /\ Len(manys) = B
  BY OfRelFacts, LenProperties
<1>3. PICK g \in [1..A -> 1..N] :
        /\ \A j \in 1..A : ones[j] = items[g[j]] /\ items[g[j]].rel = "one"
        /\ \A j, k \in 1..A : j # k => g[j] # g[k]
        /\ \A n \in 1..N : items[n].rel = "one" => \E j \in 1..A : g[j] = n
  <2>1. PICK g \in [DOMAIN ones -> DOMAIN items] :
          /\ \A j \in DOMAIN ones : ones[j] = items[g[j]] /\ items[g[j]].rel = "one"
          /\ \A j, k \in DOMAIN ones : j # k => g[j] # g[k]
          /\ \A n \in DOMAIN items : items[n].rel = "one" => \E j \in DOMAIN ones : g[j] = n
    BY OfRelFacts
  <2>2. DOMAIN ones = 1..A /\ DOMAIN items = 1..N BY <1>2
  <2>. HIDE DEF ones, A, N
  <2>3. g \in [1..A -> 1..N] BY <2>1, <2>2
  <2>4. \A j \in 1..A : ones[j] = items[g[j]] /\ items[g[j]].rel = "one"
    BY <2>1, <2>2
  <2>5. \A j, k \in 1..A : j # k => g[j] # g[k] BY <2>1, <2>2
  <2>6. \A n \in 1..N : items[n].rel = "one" => \E j \in 1..A : g[j] = n
    BY <2>1, <2>2
  <2>. QED BY <2>3, <2>4, <2>5, <2>6
<1>4. PICK h \in [1..B -> 1..N] :
        /\ \A j \in 1..B : manys[j] = items[h[j]] /\ items[h[j]].rel = "many"
        /\ \A j, k \in 1..B : j # k => h[j] # h[k]
        /\ \A n \in 1..N : items[n].rel = "many" => \E j \in 1..B : h[j] = n
  <2>1. PICK h \in [DOMAIN manys -> DOMAIN items] :
          /\ \A j \in DOMAIN manys : manys[j] = items[h[j]] /\ items[h[j]].rel = "many"
          /\ \A j, k \in DOMAIN manys : j # k => h[j] # h[k]
          /\ \A n \in DOMAIN items : items[n].rel = "many" => \E j \in DOMAIN manys : h[j] = n
    BY OfRelFacts
  <2>2. DOMAIN manys = 1..B /\ DOMAIN items = 1..N BY <1>2
  <2>. HIDE DEF manys, B, N
  <2>3. h \in [1..B -> 1..N] BY <2>1, <2>2
  <2>4. \A j \in 1..B : manys[j] = items[h[j]] /\ items[h[j]].rel = "many"
    BY <2>1, <2>2
  <2>5. \A j, k \in 1..B : j # k => h[j] # h[k] BY <2>1, <2>2
  <2>6. \A n \in 1..N : items[n].rel = "many" => \E j \in 1..B : h[j] = n
    BY <2>1, <2>2
  <2>. QED BY <2>3, <2>4, <2>5, <2>6
<1>5. <<m>> \in Seq(MutateSet) /\ Len(<<m>>) = 1 /\ <<m>>[1] = m OBVIOUS
<1>. HIDE DEF P, ones, manys, A, B, N
<1>6. /\ ones \o <<m>> \in Seq(MutateSet) /\ Len(ones \o <<m>>) = A + 1
      /\ \A k \in 1..(A + 1) : (ones \o <<m>>)[k] = IF k <= A THEN ones[k] ELSE <<m>>[k - A]
  BY <1>2, <1>5, ConcatProperties
<1>7. /\ P \in Seq(MutateSet) /\ Len(P) = A + 1 + B
      /\ \A k \in 1..(A + 1 + B) :
            P[k] = IF k <= A + 1 THEN (ones \o <<m>>)[k] ELSE manys[k - (A + 1)]
  <2>. DEFINE C == ones \o <<m>>
  <2>1. C \in Seq(MutateSet) /\ Len(C) = A + 1 /\ P = C \o manys BY <1>1, <1>6
  <2>. HIDE DEF C
  <2>2. /\ P \in Seq(MutateSet) /\ Len(P) = Len(C) + B
        /\ \A k \in 1..Len(P) : P[k] = IF k <= Len(C) THEN C[k] ELSE manys[k - Len(C)]
    <3>1. /\ C \o manys \in Seq(MutateSet) /\ Len(C \o manys) = Len(C) + Len(manys)
          /\ \A k \in 1..Len(C) + Len(manys) :
                (C \o manys)[k] = IF k <= Len(C) THEN C[k] ELSE manys[k - Len(C)]
      BY <1>2, <2>1, ConcatProperties
    <3>. QED BY <1>2, <2>1, <3>1
  <2>3. \A k \in 1..Len(P) : P[k] = IF k <= A + 1 THEN C[k] ELSE manys[k - (A + 1)]
    BY <2>1, <2>2
  <2>. QED BY <2>1, <2>2, <2>3 DEF C
<1>8. DOMAIN P = 1..(A + 1 + B) BY <1>7, LenProperties
<1>. DEFINE f == [q \in 1..(A + 1 + B) |->
                    IF q <= A THEN g[q] ELSE IF q = A + 1 THEN 0 ELSE h[q - (A + 1)]]
<1>9. /\ \A q \in 1..A : q \in DOMAIN P /\ P[q] = items[g[q]] /\ f[q] = g[q] /\ f[q] \in 1..N
      /\ A + 1 \in DOMAIN P /\ P[A + 1] = m /\ f[A + 1] = 0
      /\ \A j \in 1..B : /\ A + 1 + j \in DOMAIN P /\ P[A + 1 + j] = items[h[j]]
                         /\ f[A + 1 + j] = h[j] /\ f[A + 1 + j] \in 1..N
      /\ \A q \in DOMAIN P : \/ q \in 1..A
                             \/ q = A + 1
                             \/ \E j \in 1..B : q = A + 1 + j
  <2>1. ASSUME NEW q \in 1..A
        PROVE  q \in DOMAIN P /\ P[q] = items[g[q]] /\ f[q] = g[q] /\ f[q] \in 1..N
    <3>1. q \in 1..(A + 1 + B) /\ q \in 1..(A + 1) /\ q <= A /\ q <= A + 1 BY <1>2
    <3>2. P[q] = ones[q] BY <3>1, <1>6, <1>7
    <3>3. f[q] = g[q] BY <3>1
    <3>. QED BY <3>1, <3>2, <3>3, <1>3, <1>8
  <2>2. A + 1 \in DOMAIN P /\ P[A + 1] = m /\ f[A + 1] = 0
    <3>1. /\ A + 1 \in 1..(A + 1 + B) /\ A + 1 \in 1..(A + 1) /\ ~(A + 1 <= A)
          /\ A + 1 <= A + 1 /\ (A + 1) - A = 1
      BY <1>2
    <3>2. P[A + 1] = <<m>>[(A + 1) - A] BY <3>1, <1>6, <1>7
    <3>3. f[A + 1] = 0 BY <3>1
    <3>. QED BY <3>1, <3>2, <3>3, <1>5, <1>8
  <2>3. ASSUME NEW j \in 1..B
        PROVE  /\ A + 1 + j \in DOMAIN P /\ P[A + 1 + j] = items[h[j]]
               /\ f[A + 1 + j] = h[j] /\ f[A + 1 + j] \in 1..N
    <3>1. /\ A + 1 + j \in 1..(A + 1 + B) /\ ~(A + 1 + j <= A + 1) /\ ~(A + 1 + j <= A)
          /\ A + 1 + j # A + 1 /\ (A + 1 + j) - (A + 1) = j
      BY <1>2
    <3>2. P[A + 1 + j] = manys[j] BY <3>1, <1>7
    <3>3. f[A + 1 + j] = h[j] BY <3>1
    <3>. QED BY <3>1, <3>2, <3>3, <1>4, <1>8
  <2>4. ASSUME NEW q \in DOMAIN P
        PROVE  q \in 1..A \/ q = A + 1 \/ \E j \in 1..B : q = A + 1 + j
    <3>1. CASE q > A + 1
      <4>1. q - (A + 1) \in 1..B /\ q = A + 1 + (q - (A + 1)) BY <1>2, <1>8, <3>1
      <4>. QED BY <4>1
    <3>2. CASE ~(q > A + 1) BY <1>2, <1>8, <3>2
    <3>. QED BY <3>1, <3>2
  <2>. QED BY <2>1, <2>2, <2>3, <2>4
<1>. HIDE DEF f
<1>16. ASSUME NEW q \in DOMAIN P, q # A + 1
       PROVE  f[q] \in 1..N /\ f[q] # 0 /\ f[q] \in 0..N /\ P[q] = items[f[q]]
  <2>1. CASE q \in 1..A
    <3>1. f[q] \in 1..N /\ P[q] = items[f[q]] BY <2>1, <1>9
    <3>. QED BY <3>1, <1>2
  <2>2. ASSUME NEW j \in 1..B, q = A + 1 + j
        PROVE  f[q] \in 1..N /\ f[q] # 0 /\ f[q] \in 0..N /\ P[q] = items[f[q]]
    <3>1. f[q] \in 1..N /\ P[q] = items[f[q]] BY <2>2, <1>9
    <3>. QED BY <3>1, <1>2
  <2>. QED BY <2>1, <2>2, <1>16, <1>9
<1>10. f \in [DOMAIN P -> 0..N]
  <2>1. \A q \in DOMAIN P : f[q] \in 0..N BY <1>2, <1>9, <1>16
  <2>2. f = [q \in DOMAIN P |-> f[q]] BY <1>8 DEF f
  <2>. QED BY <2>1, <2>2
<1>11. \A q \in DOMAIN P : P[q] = IF f[q] = 0 THEN m ELSE items[f[q]]
  BY <1>9, <1>16
<1>12. ASSUME NEW q \in DOMAIN P, NEW r \in DOMAIN P, q # r PROVE f[q] # f[r]
  <2>1. CASE q = A + 1 BY <2>1, <1>12, <1>9, <1>16
  <2>2. CASE r = A + 1 BY <2>2, <1>12, <1>9, <1>16
  <2>3. CASE q \in 1..A /\ r \in 1..A
    BY <2>3, <1>12, <1>9, <1>3
  <2>4. ASSUME NEW j \in 1..B, NEW k \in 1..B, q = A + 1 + j, r = A + 1 + k
        PROVE  f[q] # f[r]
    <3>1. j # k BY <2>4, <1>12
    <3>. QED BY <3>1, <2>4, <1>9, <1>4
  <2>5. ASSUME NEW j \in 1..B, q \in 1..A, r = A + 1 + j PROVE f[q] # f[r]
    <3>1. f[q] = g[q] /\ f[r] = h[j] BY <2>5, <1>9
    <3>2. items[g[q]].rel = "one" /\ items[h[j]].rel = "many" BY <2>5, <1>3, <1>4
    <3>. QED BY <3>1, <3>2
  <2>6. ASSUME NEW j \in 1..B, r \in 1..A, q = A + 1 + j PROVE f[q] # f[r]
    <3>1. f[r] = g[r] /\ f[q] = h[j] BY <2>6, <1>9
    <3>2. items[g[r]].rel = "one" /\ items[h[j]].rel = "many" BY <2>6, <1>3, <1>4
    <3>. QED BY <3>1, <3>2
  <2>7. q \in 1..A \/ q = A + 1 \/ \E j \in 1..B : q = A + 1 + j BY <1>9
  <2>8. r \in 1..A \/ r = A + 1 \/ \E j \in 1..B : r = A + 1 + j BY <1>9
  <2>. QED BY <2>1, <2>2, <2>3, <2>4, <2>5, <2>6, <2>7, <2>8
<1>13. ASSUME \A k \in DOMAIN items : items[k].rel \in {"one", "many"},
              NEW k \in DOMAIN items
       PROVE  \E q \in DOMAIN P : f[q] = k
  <2>1. CASE items[k].rel = "one"
    <3>1. PICK j \in 1..A : g[j] = k BY <2>1, <1>2, <1>3
    <3>. QED BY <3>1, <1>9
  <2>2. CASE items[k].rel = "many"
    <3>1. PICK j \in 1..B : h[j] = k BY <2>2, <1>2, <1>4
    <3>. QED BY <3>1, <1>9
  <2>. QED BY <2>1, <2>2, <1>13
<1>14. ASSUME NEW q \in DOMAIN P, NEW r \in DOMAIN P, f[q] = 0, f[r] # 0
       PROVE  IF items[f[r]].rel = "many" THEN q < r ELSE r < q
  <2>1. q = A + 1 BY <1>14, <1>16
  <2>2. CASE r \in 1..A
    <3>1. items[f[r]].rel = "one" BY <2>2, <1>9, <1>3
    <3>. QED BY <3>1, <2>1, <2>2, <1>2
  <2>3. ASSUME NEW j \in 1..B, r = A + 1 + j PROVE items[f[r]].rel = "many" /\ q < r
    <3>1. items[f[r]].rel = "many" BY <2>3, <1>9, <1>4
    <3>. QED BY <3>1, <2>1, <2>3, <1>2
  <2>4. r # A + 1 BY <1>14, <1>9
  <2>. QED BY <2>2, <2>3, <2>4, <1>9
<1>15. Places(P, m, items, f)
  BY <1>9, <1>10, <1>11, <1>12, <1>13, <1>14 DEF Places, N
<1>. QED BY <1>7, <1>15 DEF P

\* Whatever the type, the mutates that are pushed have places of their own.
LEMMA PushedFacts ==
  ASSUME NEW m \in MutateSet, NEW items \in Seq(MutateSet)
  PROVE  /\ Pushed(m, items) \in Seq(MutateSet)
         /\ \E f : Places(Pushed(m, items), m, items, f)
BY PushedUpsert, PushedAfter, PushedInsert

-----------------------------------------------------------------------------
(* The line.                                                                *)

Phases == {"stack", "ids", "deps", "pull", "render", "done", "error"}

\* The types of the variables.
MTypes ==
  /\ doc \in Docs
  /\ phase \in Phases
  /\ stack \in Seq(MutateSet) /\ mutates \in Seq(MutateSet)
  /\ nextId \in Nat
  /\ i \in Nat /\ (phase \in {"ids", "deps", "pull", "render"} => i >= 1)
  /\ todo \in SUBSET Int
  /\ DOMAIN mmap \subseteq Int /\ \A d \in DOMAIN mmap : mmap[d] \in Int

\* What depends on the document alone stays.
LEMMA SameDoc ==
  ASSUME doc' = doc
  PROVE  /\ Objects' = Objects /\ Tables' = Tables /\ MutateSet' = MutateSet
         /\ \A x : (Modifies(x)' <=> Modifies(x)) /\ (Modifier(x)' <=> Modifier(x))
BY DEF Objects, Tables, MutateSet, Modifies, Modifier

\* The mutates in the order of the SQL: those that are final, then the stack
\* from its top.
Line ==
  [k \in 1..(Len(mutates) + Len(stack)) |->
     IF k <= Len(mutates) THEN mutates[k] ELSE stack[Len(mutates) + Len(stack) + 1 - k]]

Size == Len(mutates) + Len(stack)

\* Where the mutates are on the line.
LEMMA LineFacts ==
  ASSUME MTypes
  PROVE  /\ Len(mutates) \in Nat /\ Len(stack) \in Nat /\ Size \in Nat
         /\ DOMAIN mutates = 1..Len(mutates) /\ DOMAIN stack = 1..Len(stack)
         /\ DOMAIN Line = 1..Size
         /\ \A k \in DOMAIN Line : Line[k] \in MutateSet
         /\ \A k \in DOMAIN mutates : k \in DOMAIN Line /\ Line[k] = mutates[k] /\ mutates[k] \in MutateSet
         /\ \A k \in DOMAIN stack :
              /\ Size + 1 - k \in DOMAIN Line /\ Line[Size + 1 - k] = stack[k]
              /\ stack[k] \in MutateSet
<1>1. /\ Len(mutates) \in Nat /\ Len(stack) \in Nat /\ Size \in Nat
      /\ DOMAIN mutates = 1..Len(mutates) /\ DOMAIN stack = 1..Len(stack)
      /\ \A k \in DOMAIN mutates : mutates[k] \in MutateSet
      /\ \A k \in DOMAIN stack : stack[k] \in MutateSet
  BY ElementOfSeq, LenProperties DEF MTypes, Size
<1>2. DOMAIN Line = 1..Size BY DEF Line, Size
<1>3. ASSUME NEW k \in DOMAIN mutates
      PROVE  k \in DOMAIN Line /\ Line[k] = mutates[k]
  <2>1. k \in 1..Size /\ k <= Len(mutates) BY <1>1 DEF Size
  <2>. QED BY <2>1, <1>2 DEF Line, Size
<1>4. ASSUME NEW k \in DOMAIN stack
      PROVE  Size + 1 - k \in DOMAIN Line /\ Line[Size + 1 - k] = stack[k]
  <2>. DEFINE n == Size + 1 - k
  <2>1. n \in 1..Size /\ ~(n <= Len(mutates)) /\ Size + 1 - n = k BY <1>1 DEF Size
  <2>. HIDE DEF n
  <2>2. Line[n] = stack[Size + 1 - n] BY <2>1 DEF Line, Size
  <2>3. n \in DOMAIN Line /\ Line[n] = stack[k] BY <2>1, <2>2, <1>2
  <2>. QED BY <2>3 DEF n
<1>5. ASSUME NEW k \in DOMAIN Line PROVE Line[k] \in MutateSet
  <2>1. k \in 1..Size BY <1>2
  <2>2. CASE k <= Len(mutates)
    <3>1. k \in DOMAIN mutates BY <2>1, <2>2, <1>1
    <3>. QED BY <3>1, <1>1, <1>3
  <2>3. CASE ~(k <= Len(mutates))
    <3>. DEFINE l == Size + 1 - k
    <3>1. l \in DOMAIN stack /\ Size + 1 - l = k BY <2>1, <2>3, <1>1 DEF Size
    <3>. HIDE DEF l
    <3>. QED BY <3>1, <1>1, <1>4
  <2>. QED BY <2>2, <2>3
<1>. QED BY <1>1, <1>2, <1>3, <1>4, <1>5

\* The top of the stack is the next after those that are final.
LEMMA TopFacts ==
  ASSUME MTypes, stack # <<>>
  PROVE  /\ Top \in MutateSet /\ Rest \in Seq(MutateSet) /\ Len(Rest) = Len(stack) - 1
         /\ Len(stack) \in Nat \ {0} /\ \A k \in 1..Len(Rest) : Rest[k] = stack[k]
         /\ Len(mutates) + 1 \in DOMAIN Line /\ Line[Len(mutates) + 1] = Top
<1>1. Len(stack) \in Nat \ {0}
  BY EmptySeq, LenProperties DEF MTypes
<1>2. Top \in MutateSet BY <1>1, LineFacts DEF Top
<1>3. /\ Rest \in Seq(MutateSet) /\ Len(Rest) = Len(stack) - 1
      /\ \A k \in 1..Len(Rest) : Rest[k] = stack[k]
  <2>1. /\ Rest \in Seq(MutateSet) /\ Len(Rest) = Len(stack) - 1
        /\ \A k \in 1..(Len(stack) - 1) : Rest[k] = stack[k]
    <3>. DEFINE n == Len(stack) - 1
    <3>1. n \in 0..Len(stack) /\ n \in Nat /\ stack \in Seq(MutateSet) BY <1>1 DEF MTypes
    <3>. HIDE DEF n
    <3>2. Rest = SubSeq(stack, 1, n) BY DEF Rest, n
    <3>3. \A k \in 1..n : 1 + k - 1 = k BY <3>1
    <3>4. /\ Rest \in Seq(MutateSet) /\ Len(Rest) = n
          /\ \A k \in 1..n : Rest[k] = stack[k]
      BY <3>1, <3>2, <3>3, <1>1, SubSeqProperties
    <3>. QED BY <3>4 DEF n
  <2>. QED BY <2>1
<1>4. Len(mutates) + 1 \in DOMAIN Line /\ Line[Len(mutates) + 1] = Top
  <2>. DEFINE k == Len(stack)
  <2>1. k \in DOMAIN stack /\ Size + 1 - k = Len(mutates) + 1
    BY <1>1, LineFacts DEF Size
  <2>2. Size + 1 - k \in DOMAIN Line /\ Line[Size + 1 - k] = stack[k]
    BY <2>1, LineFacts
  <2>. QED BY <2>1, <2>2 DEF Top
<1>. QED BY <1>1, <1>2, <1>3, <1>4

\* To take a rendered mutate off the stack changes nothing of the line.
LEMMA PopLine ==
  ASSUME MTypes, PopRendered
  PROVE  /\ Line' = Line /\ doc' = doc /\ mutates' \in Seq(MutateSet) /\ stack' \in Seq(MutateSet)
         /\ Len(mutates') = Len(mutates) + 1 /\ Size' = Size
<1>. DEFINE n == Len(mutates)
            N == Size
<1>1. stack # <<>> /\ mutates' = Append(mutates, Top) /\ stack' = Rest /\ doc' = doc
  BY DEF PopRendered
<1>2. /\ Top \in MutateSet /\ Rest \in Seq(MutateSet) /\ Len(Rest) = Len(stack) - 1
      /\ Len(stack) \in Nat \ {0} /\ \A k \in 1..Len(Rest) : Rest[k] = stack[k]
      /\ n + 1 \in DOMAIN Line /\ Line[n + 1] = Top
  BY <1>1, TopFacts
<1>3. n \in Nat /\ N = n + Len(stack) /\ DOMAIN Line = 1..N BY LineFacts DEF Size
<1>4. /\ mutates' \in Seq(MutateSet) /\ Len(mutates') = n + 1 /\ mutates'[n + 1] = Top
      /\ \A k \in 1..n : mutates'[k] = mutates[k]
  BY <1>1, <1>2, AppendProperties DEF MTypes
<1>5. Size' = N /\ Len(stack') = Len(stack) - 1 BY <1>1, <1>2, <1>3, <1>4 DEF Size
<1>. HIDE DEF n, N
<1>6. \A k \in 1..N : Line'[k] = IF k <= n + 1 THEN mutates'[k] ELSE stack'[N + 1 - k]
  BY <1>4, <1>5 DEF Line, Size
<1>7. \A k \in 1..N : Line[k] = IF k <= n THEN mutates[k] ELSE stack[N + 1 - k]
  BY DEF Line, Size, n, N
<1>8. ASSUME NEW k \in 1..N PROVE Line'[k] = Line[k]
  <2>1. CASE k <= n
    <3>1. k \in 1..n /\ k <= n + 1 BY <2>1, <1>3
    <3>. QED BY <3>1, <2>1, <1>4, <1>6, <1>7
  <2>2. CASE k = n + 1 BY <2>2, <1>2, <1>3, <1>4, <1>6
  <2>3. CASE k > n + 1
    <3>1. /\ ~(k <= n) /\ ~(k <= n + 1) /\ N + 1 - k \in 1..Len(Rest)
      BY <2>3, <1>2, <1>3
    <3>. QED BY <3>1, <1>1, <1>2, <1>6, <1>7
  <2>. QED BY <2>1, <2>2, <2>3, <1>3
<1>9. Line' = [k \in 1..N |-> Line'[k]] /\ Line = [k \in 1..N |-> Line[k]]
  BY <1>5 DEF Line, Size, N
<1>10. Line' = Line BY <1>8, <1>9
<1>. QED BY <1>1, <1>2, <1>4, <1>5, <1>10 DEF n, N

\* Where the mutates of the line are after t, which is the n-th, is looked at:
\* those that were there (np) and the children that it pushes (cp).
Spread(t, n, np, C, cp) ==
  /\ n \in DOMAIN Line /\ Line[n] = t
  /\ np \in [DOMAIN Line -> DOMAIN Line'] /\ C \subseteq DOMAIN Items(t)
  /\ cp \in [C -> DOMAIN Line']
  /\ \A k \in DOMAIN Line : Line'[np[k]] = IF k = n THEN Grown(t) ELSE Line[k]
  /\ \A c \in C : Line'[cp[c]] = Sprouts(t)[c]
  /\ \A j \in DOMAIN Line' : \/ \E k \in DOMAIN Line : np[k] = j
                             \/ \E c \in C : cp[c] = j
  /\ \A j, k \in DOMAIN Line : j < k => np[j] < np[k]
  /\ \A c \in C, k \in DOMAIN Line : /\ k < n => np[k] < cp[c]
                                     /\ n < k => cp[c] < np[k]
  /\ \A c \in C : IF TypeAfter(t) = "insert" /\ Items(t)[c].rel = "many"
                  THEN cp[c] < np[n] ELSE np[n] < cp[c]
  /\ \A c, d \in C : c # d => cp[c] # cp[d]
  /\ TypeAfter(t) = "upsert" => C = {}
  /\ TypeAfter(t) # "upsert" /\ (TypeAfter(t) = "insert" =>
        \A k \in DOMAIN Items(t) : Items(t)[k].rel \in {"one", "many"})
       => C = DOMAIN Items(t)

\* newMutate spreads the top: the others keep their order, those of its objects come in.
LEMMA NewLine ==
  ASSUME MTypes, NewMutate
  PROVE  /\ doc' = doc /\ stack' \in Seq(MutateSet)
         /\ \E np, C, cp : Spread(Top, Len(mutates) + 1, np, C, cp)
<1>. DEFINE t == Top
            m == Grown(t)
            items == Sprouts(t)
            P == Pushed(m, items)
            n == Len(mutates)
            N == Size
            b == Len(P)
            L == Len(Items(t))
<1>1. /\ stack # <<>> /\ stack' = Rest \o P /\ doc' = doc /\ mutates' = mutates
      /\ nextId' = nextId + L
  BY NewMutateIs
<1>2. /\ t \in MutateSet /\ Rest \in Seq(MutateSet) /\ Len(Rest) = Len(stack) - 1
      /\ Len(stack) \in Nat \ {0} /\ \A k \in 1..Len(Rest) : Rest[k] = stack[k]
      /\ n + 1 \in DOMAIN Line /\ Line[n + 1] = t
  BY <1>1, TopFacts
<1>3. n \in Nat /\ N \in Nat /\ N = n + Len(stack) /\ DOMAIN Line = 1..N BY LineFacts DEF Size
<1>4. doc \in Docs /\ nextId \in Nat BY DEF MTypes
<1>5. /\ m \in MutateSet /\ m.type = TypeAfter(t)
      /\ items \in Seq(MutateSet) /\ DOMAIN items = DOMAIN Items(t) /\ Len(items) = L
      /\ DOMAIN Items(t) = 1..L /\ L \in Nat
      /\ \A k \in 1..L : items[k].rel = Items(t)[k].rel
  <2>1. m \in MutateSet /\ m.type = TypeAfter(t) BY <1>2, <1>4, GrownFacts
  <2>2. DOMAIN Items(t) = 1..L /\ L \in Nat BY <1>2, <1>4, ItemsSeq
  <2>3. /\ items \in Seq(MutateSet) /\ DOMAIN items = DOMAIN Items(t) /\ Len(items) = L
        /\ \A k \in DOMAIN Items(t) : items[k].rel = Items(t)[k].rel
    BY <1>2, <1>4, SproutsFacts
  <2>. QED BY <2>1, <2>2, <2>3
<1>. HIDE DEF t, m, items
<1>6. P \in Seq(MutateSet) /\ \E f : Places(P, m, items, f)
  BY <1>5, PushedFacts
<1>. HIDE DEF P
<1>7. PICK f : Places(P, m, items, f) BY <1>6
<1>8. b \in Nat /\ DOMAIN P = 1..b BY <1>6, LenProperties
<1>9. /\ stack' \in Seq(MutateSet) /\ Len(stack') = Len(stack) - 1 + b
      /\ \A k \in 1..(Len(stack) - 1 + b) :
            stack'[k] = IF k <= Len(stack) - 1 THEN stack[k] ELSE P[k - (Len(stack) - 1)]
  <2>. DEFINE r == Len(stack) - 1
  <2>1. r = Len(Rest) BY <1>2
  <2>. HIDE DEF r
  <2>2. /\ stack' \in Seq(MutateSet) /\ Len(stack') = r + b
        /\ \A k \in 1..(r + b) : stack'[k] = IF k <= r THEN Rest[k] ELSE P[k - r]
    BY <1>1, <1>2, <1>6, <2>1, ConcatProperties
  <2>3. \A k \in 1..(r + b) : k <= r => Rest[k] = stack[k]
    <3>1. r \in Nat BY <1>2 DEF r
    <3>. QED BY <1>2, <2>1, <1>8, <3>1
  <2>4. \A k \in 1..(r + b) : stack'[k] = IF k <= r THEN stack[k] ELSE P[k - r]
    BY <2>2, <2>3
  <2>. QED BY <2>2, <2>4 DEF r
<1>10. Len(mutates') = n BY <1>1
<1>. DEFINE M == N + b - 1
            q0 == CHOOSE q \in 1..b : f[q] = 0
            C == {f[q] : q \in 1..b} \ {0}
            at == [c \in C |-> CHOOSE q \in 1..b : f[q] = c]
<1>11. /\ f \in [1..b -> 0..L]
       /\ \A q \in 1..b : P[q] = IF f[q] = 0 THEN m ELSE items[f[q]]
       /\ \A q, r \in 1..b : q # r => f[q] # f[r]
       /\ \E q \in 1..b : f[q] = 0
       /\ m.type = "upsert" => \A q \in 1..b : f[q] = 0
       /\ m.type # "upsert"
             /\ (m.type = "insert" => \A k \in 1..L : items[k].rel \in {"one", "many"})
            => \A k \in 1..L : \E q \in 1..b : f[q] = k
       /\ \A q, r \in 1..b : f[q] = 0 /\ f[r] # 0 =>
             IF m.type = "insert" /\ items[f[r]].rel = "many" THEN q < r ELSE r < q
  BY <1>5, <1>7, <1>8 DEF Places
<1>. HIDE DEF b, L, n, N
<1>12. q0 \in 1..b /\ f[q0] = 0 BY <1>11
<1>13. /\ C \subseteq 1..L
       /\ \A c \in C : at[c] \in 1..b /\ f[at[c]] = c /\ c # 0
       /\ \A q \in 1..b : q = q0 \/ (f[q] \in C /\ at[f[q]] = q)
  <2>1. C \subseteq 1..L BY <1>11, <1>5
  <2>2. \A c \in C : at[c] \in 1..b /\ f[at[c]] = c /\ c # 0
    <3>1. ASSUME NEW c \in C PROVE \E q \in 1..b : f[q] = c OBVIOUS
    <3>. QED BY <3>1
  <2>3. ASSUME NEW q \in 1..b, q # q0 PROVE f[q] \in C /\ at[f[q]] = q
    <3>1. f[q] # 0 BY <2>3, <1>11, <1>12
    <3>2. f[q] \in C BY <3>1
    <3>. QED BY <3>2, <2>2, <1>11
  <2>. QED BY <2>1, <2>2, <2>3
<1>. HIDE DEF C, at, q0
<1>14. Len(mutates') + Len(stack') = M BY <1>2, <1>3, <1>8, <1>9, <1>10
<1>15. M \in Nat /\ DOMAIN Line' = 1..M
  <2>1. M \in Nat BY <1>2, <1>3, <1>8, <1>12
  <2>. QED BY <2>1, <1>14 DEF Line
<1>. HIDE DEF M
<1>16. /\ \A k \in 1..n : k \in 1..M /\ Line'[k] = Line[k]
       /\ \A q \in 1..b : n + b + 1 - q \in 1..M /\ Line'[n + b + 1 - q] = P[q]
       /\ \A k \in 1..N : k > n + 1 => k + b - 1 \in 1..M /\ Line'[k + b - 1] = Line[k]
  <2>1. \A k \in 1..M : Line'[k] = IF k <= n THEN mutates[k] ELSE stack'[M + 1 - k]
    BY <1>1, <1>10, <1>14 DEF Line
  <2>2. \A k \in 1..N : Line[k] = IF k <= n THEN mutates[k] ELSE stack[N + 1 - k]
    BY DEF Line, Size, n, N
  <2>3. ASSUME NEW k \in 1..n PROVE k \in 1..M /\ Line'[k] = Line[k]
    <3>1. k \in 1..M /\ k \in 1..N /\ k <= n BY <1>2, <1>3, <1>8, <1>12 DEF M
    <3>. QED BY <3>1, <2>1, <2>2
  <2>4. ASSUME NEW q \in 1..b PROVE n + b + 1 - q \in 1..M /\ Line'[n + b + 1 - q] = P[q]
    <3>. DEFINE k == n + b + 1 - q
                l == Len(stack) - 1 + q
    <3>1. /\ k \in 1..M /\ ~(k <= n) /\ M + 1 - k = l
          /\ l \in 1..(Len(stack) - 1 + b) /\ ~(l <= Len(stack) - 1) /\ l - (Len(stack) - 1) = q
      BY <1>2, <1>3, <1>8 DEF M
    <3>. HIDE DEF k, l
    <3>2. Line'[k] = stack'[l] BY <3>1, <2>1
    <3>3. stack'[l] = P[q] BY <3>1, <1>9
    <3>. QED BY <3>1, <3>2, <3>3 DEF k
  <2>5. ASSUME NEW k \in 1..N, k > n + 1
        PROVE  k + b - 1 \in 1..M /\ Line'[k + b - 1] = Line[k]
    <3>. DEFINE j == k + b - 1
                l == N + 1 - k
    <3>1. /\ j \in 1..M /\ ~(j <= n) /\ M + 1 - j = l /\ ~(k <= n)
          /\ l \in 1..(Len(stack) - 1 + b) /\ l <= Len(stack) - 1
      BY <1>2, <1>3, <1>8, <1>12, <2>5 DEF M
    <3>2. Line[k] = stack[l] BY <3>1, <2>2
    <3>. HIDE DEF j, l
    <3>3. Line'[j] = stack'[l] BY <3>1, <2>1
    <3>4. stack'[l] = stack[l] BY <3>1, <1>9
    <3>. QED BY <3>1, <3>2, <3>3, <3>4 DEF j
  <2>. QED BY <2>3, <2>4, <2>5
<1>. DEFINE np == [k \in 1..N |-> IF k <= n THEN k ELSE IF k = n + 1 THEN n + b + 1 - q0
                                  ELSE k + b - 1]
            cp == [c \in C |-> n + b + 1 - at[c]]
<1>17. /\ np \in [1..N -> 1..M]
       /\ \A k \in 1..N : /\ k <= n => np[k] = k
                          /\ k = n + 1 => np[k] = n + b + 1 - q0
                          /\ k > n + 1 => np[k] = k + b - 1
  <2>1. ASSUME NEW k \in 1..N PROVE (IF k <= n THEN k ELSE IF k = n + 1 THEN n + b + 1 - q0
                                  ELSE k + b - 1) \in 1..M
    BY <1>2, <1>3, <1>12, <1>8 DEF M
  <2>2. np \in [1..N -> 1..M] BY <2>1
  <2>3. ASSUME NEW k \in 1..N
        PROVE  /\ k <= n => np[k] = k
               /\ k = n + 1 => np[k] = n + b + 1 - q0
               /\ k > n + 1 => np[k] = k + b - 1
    <3>1. np[k] = IF k <= n THEN k ELSE IF k = n + 1 THEN n + b + 1 - q0 ELSE k + b - 1
      OBVIOUS
    <3>2. (k = n + 1 => ~(k <= n)) /\ (k > n + 1 => ~(k <= n) /\ k # n + 1) BY <1>3
    <3>. HIDE DEF np
    <3>. QED BY <3>1, <3>2
  <2>. QED BY <2>2, <2>3
<1>18. /\ cp \in [C -> 1..M]
       /\ \A c \in C : cp[c] = n + b + 1 - at[c]
  <2>1. ASSUME NEW c \in C PROVE n + b + 1 - at[c] \in 1..M
    BY <1>13, <1>16
  <2>. QED BY <2>1
<1>. HIDE DEF np, cp
<1>19. \A k \in 1..N : Line'[np[k]] = IF k = n + 1 THEN m ELSE Line[k]
  <2>1. Line'[n + b + 1 - q0] = m BY <1>11, <1>12, <1>16
  <2>2. n + 1 \in 1..N BY <1>2, <1>3
  <2>3. ASSUME NEW k \in 1..N PROVE Line'[np[k]] = IF k = n + 1 THEN m ELSE Line[k]
    <3>1. CASE k <= n
      <4>1. k \in 1..n /\ k # n + 1 BY <3>1, <1>3
      <4>. QED BY <4>1, <3>1, <1>16, <1>17
    <3>2. CASE k = n + 1 BY <3>2, <2>1, <1>17
    <3>3. CASE k > n + 1
      <4>1. k # n + 1 BY <3>3, <1>3
      <4>. QED BY <4>1, <3>3, <1>16, <1>17
    <3>. QED BY <3>1, <3>2, <3>3, <1>3
  <2>. QED BY <2>3
<1>20. \A c \in C : Line'[cp[c]] = items[c]
  <2>1. ASSUME NEW c \in C PROVE Line'[cp[c]] = items[c]
    <3>1. at[c] \in 1..b /\ f[at[c]] = c /\ c # 0 BY <1>13
    <3>2. P[at[c]] = items[c] BY <3>1, <1>11
    <3>. QED BY <3>1, <3>2, <1>16, <1>18
  <2>. QED BY <2>1
<1>21. ASSUME NEW j \in 1..M
       PROVE (\E k \in 1..N : np[k] = j) \/ (\E c \in C : cp[c] = j)
  <2>1. CASE j <= n
    <3>1. j \in 1..N BY <2>1, <1>2, <1>3, <1>15
    <3>. QED BY <3>1, <2>1, <1>17
  <2>2. CASE j > n + b
    <3>1. j - b + 1 \in 1..N /\ j - b + 1 > n + 1 /\ (j - b + 1) + b - 1 = j
      BY <2>2, <1>2, <1>3, <1>8, <1>12 DEF M
    <3>. DEFINE k == j - b + 1
    <3>2. k \in 1..N /\ k > n + 1 /\ k + b - 1 = j BY <3>1
    <3>. HIDE DEF k
    <3>3. np[k] = j BY <3>2, <1>17
    <3>. QED BY <3>2, <3>3
  <2>3. CASE ~(j <= n) /\ ~(j > n + b)
    <3>. DEFINE q == n + b + 1 - j
    <3>1. q \in 1..b /\ n + b + 1 - q = j BY <2>3, <1>3, <1>8
    <3>. HIDE DEF q
    <3>2. CASE q = q0
      <4>1. n + 1 \in 1..N BY <1>2, <1>3
      <4>. QED BY <3>1, <3>2, <4>1, <1>17
    <3>3. CASE q # q0
      <4>1. f[q] \in C /\ at[f[q]] = q BY <3>1, <3>3, <1>13
      <4>2. cp[f[q]] = j BY <4>1, <3>1, <1>18
      <4>. QED BY <4>1, <4>2
    <3>. QED BY <3>2, <3>3
  <2>. QED BY <2>1, <2>2, <2>3
<1>22. ASSUME NEW j \in 1..N, NEW k \in 1..N, j < k PROVE np[j] < np[k]
  <2>1. j <= n \/ j = n + 1 \/ j > n + 1 BY <1>3
  <2>2. k <= n \/ k = n + 1 \/ k > n + 1 BY <1>3
  <2>3. j \in Nat /\ k \in Nat /\ q0 \in Nat /\ q0 >= 1 /\ q0 <= b BY <1>12, <1>8
  <2>. QED BY <2>1, <2>2, <2>3, <1>22, <1>17, <1>8, <1>3
<1>23. ASSUME NEW c \in C, NEW k \in 1..N
       PROVE (k < n + 1 => np[k] < cp[c]) /\ (n + 1 < k => cp[c] < np[k])
  <2>1. at[c] \in Nat /\ at[c] >= 1 /\ at[c] <= b BY <1>13, <1>8
  <2>2. k < n + 1 => k <= n BY <1>3
  <2>. QED BY <2>1, <2>2, <1>17, <1>18, <1>8, <1>3
<1>24. ASSUME NEW c \in C
       PROVE  IF m.type = "insert" /\ items[c].rel = "many"
              THEN cp[c] < np[n + 1] ELSE np[n + 1] < cp[c]
  <2>1. at[c] \in 1..b /\ f[at[c]] = c /\ c # 0 BY <1>13
  <2>2. IF m.type = "insert" /\ items[c].rel = "many" THEN q0 < at[c] ELSE at[c] < q0
    BY <2>1, <1>11, <1>12
  <2>3. np[n + 1] = n + b + 1 - q0
    <3>1. n + 1 \in 1..N BY <1>2, <1>3
    <3>. QED BY <3>1, <1>17
  <2>4. cp[c] = n + b + 1 - at[c] BY <1>18
  <2>5. /\ q0 < at[c] => n + b + 1 - at[c] < n + b + 1 - q0
        /\ at[c] < q0 => n + b + 1 - q0 < n + b + 1 - at[c]
    BY <2>1, <1>12, <1>3, <1>8
  <2>. QED BY <2>2, <2>3, <2>4, <2>5
<1>25. ASSUME NEW c \in C, NEW d \in C, c # d PROVE cp[c] # cp[d]
  <2>1. /\ at[c] \in 1..b /\ f[at[c]] = c
        /\ at[d] \in 1..b /\ f[at[d]] = d
    BY <1>13
  <2>2. at[c] # at[d] BY <2>1, <1>25
  <2>. QED BY <2>1, <2>2, <1>18, <1>3, <1>8
<1>26. ASSUME m.type # "upsert",
              m.type = "insert" => \A k \in 1..L : items[k].rel \in {"one", "many"}
       PROVE  C = 1..L
  <2>1. \A k \in 1..L : \E q \in 1..b : f[q] = k BY <1>26, <1>11
  <2>2. 1..L \subseteq C BY <2>1, <1>5 DEF C
  <2>. QED BY <2>2, <1>13
<1>28. m.type = "upsert" => C = {} BY <1>11 DEF C
<1>27. Spread(t, n + 1, np, C, cp)
  <2>1. C \subseteq DOMAIN Items(t) BY <1>5, <1>13
  <2>2. \A c \in C : items[c].rel = Items(t)[c].rel BY <1>5, <1>13
  <2>3. n + 1 \in DOMAIN Line /\ Line[n + 1] = t BY <1>2
  <2>4. np \in [DOMAIN Line -> DOMAIN Line'] /\ cp \in [C -> DOMAIN Line']
    BY <1>3, <1>15, <1>17, <1>18
  <2>5. \A k \in DOMAIN Line : Line'[np[k]] = IF k = n + 1 THEN Grown(t) ELSE Line[k]
    BY <1>3, <1>19 DEF m
  <2>6. \A c \in C : Line'[cp[c]] = Sprouts(t)[c] BY <1>20 DEF items
  <2>7. \A j \in DOMAIN Line' : \/ \E k \in DOMAIN Line : np[k] = j
                                \/ \E c \in C : cp[c] = j
    BY <1>3, <1>15, <1>21
  <2>8. \A j, k \in DOMAIN Line : j < k => np[j] < np[k] BY <1>3, <1>22
  <2>9. \A c \in C, k \in DOMAIN Line : /\ k < n + 1 => np[k] < cp[c]
                                        /\ n + 1 < k => cp[c] < np[k]
    BY <1>3, <1>23
  <2>10. \A c \in C : IF TypeAfter(t) = "insert" /\ Items(t)[c].rel = "many"
                      THEN cp[c] < np[n + 1] ELSE np[n + 1] < cp[c]
    BY <2>2, <1>5, <1>24
  <2>11. \A c, d \in C : c # d => cp[c] # cp[d] BY <1>25
  <2>12. TypeAfter(t) # "upsert" /\ (TypeAfter(t) = "insert" =>
             \A k \in DOMAIN Items(t) : Items(t)[k].rel \in {"one", "many"})
           => C = DOMAIN Items(t)
    BY <1>5, <1>26
  <2>13. TypeAfter(t) = "upsert" => C = {} BY <1>5, <1>28
  <2>. QED BY <2>1, <2>3, <2>4, <2>5, <2>6, <2>7, <2>8, <2>9, <2>10, <2>11, <2>12, <2>13
       DEF Spread
<1>. QED BY <1>1, <1>9, <1>27 DEF t, n

\* What was on the line stays there, and only the top is changed.
LEMMA SpreadOld ==
  ASSUME MTypes, NEW t, NEW n, NEW np, NEW C, NEW cp, Spread(t, n, np, C, cp),
         NEW k \in DOMAIN Line
  PROVE  /\ np[k] \in DOMAIN Line'
         /\ Line'[np[k]].x = Line[k].x /\ Line'[np[k]].id = Line[k].id
         /\ Line'[np[k]].parent = Line[k].parent /\ Line'[np[k]].rel = Line[k].rel
         /\ Line'[np[k]].multi = Line[k].multi
         /\ Line[k].render => Line'[np[k]].render
         /\ k # n => Line'[np[k]] = Line[k]
         /\ Line[k] \in MutateSet
         /\ k = n => Line[k] = t /\ Line'[np[k]] = Grown(t) /\ Line'[np[k]].render
<1>1. Line[k] \in MutateSet BY LineFacts
<1>2. np[k] \in DOMAIN Line' /\ Line'[np[k]] = IF k = n THEN Grown(t) ELSE Line[k]
  BY DEF Spread
<1>3. CASE k # n BY <1>1, <1>2, <1>3
<1>4. CASE k = n
  <2>1. t = Line[k] BY <1>4 DEF Spread
  <2>2. t \in MutateSet /\ doc \in Docs /\ nextId \in Nat BY <1>1, <2>1 DEF MTypes
  <2>3. /\ Grown(t).x = t.x /\ Grown(t).id = t.id /\ Grown(t).parent = t.parent
        /\ Grown(t).rel = t.rel /\ Grown(t).multi = t.multi /\ Grown(t).render
    BY <2>2, GrownFacts
  <2>. QED BY <1>1, <1>2, <1>4, <2>1, <2>3
<1>. QED BY <1>3, <1>4

\* The k-th mutate is that of the k-th object.
LEMMA ItemObject ==
  ASSUME doc \in Docs, NEW m \in MutateSet, nextId \in Nat, NEW k \in DOMAIN Items(m)
  PROVE  Items(m)[k].x = Kids(m.x)[k]
<1>. DEFINE c == Kids(m.x)[k]
<1>1. Items(m)[k] = Item(m, k) BY DEF Items
<1>2. \A id, parent, type, table, rel : Mutate(c, id, parent, type, table, rel).x = c
  BY DEF Mutate
<1>3. \A id, parent, type, table, rel :
        [Mutate(c, id, parent, type, table, rel) EXCEPT !.render = TRUE].x = c
  BY DEF Mutate
<1>. HIDE DEF c
<1>4. Item(m, k).x = c
  <2>1. \/ \E id, parent, type, table, rel :
             Item(m, k) = Mutate(c, id, parent, type, table, rel)
        \/ \E id, parent, type, table, rel :
             Item(m, k) = [Mutate(c, id, parent, type, table, rel) EXCEPT !.render = TRUE]
    <3>1. CASE Modifies(c) BY <3>1, Zenon DEF Item, c
    <3>2. CASE ~Modifies(c) BY <3>2, Zenon DEF Item, c
    <3>. QED BY <3>1, <3>2
  <2>. DEFINE v == Item(m, k)
  <2>2. ASSUME NEW id, NEW parent, NEW type, NEW table, NEW rel,
               v = Mutate(c, id, parent, type, table, rel)
        PROVE  v.x = c
    <3>. HIDE DEF v
    <3>. QED BY <2>2 DEF Mutate
  <2>3. ASSUME NEW id, NEW parent, NEW type, NEW table, NEW rel,
               v = [Mutate(c, id, parent, type, table, rel) EXCEPT !.render = TRUE]
        PROVE  v.x = c
    <3>. HIDE DEF v
    <3>. QED BY <2>3 DEF Mutate
  <2>. QED BY <2>1, <2>2, <2>3, Zenon
<1>. QED BY <1>1, <1>4 DEF c

\* The mutate o of the c-th child of t, pushed when t is looked at.
Sprouted(o, t, c) ==
  /\ c \in 1..Len(Items(t)) /\ c \in DOMAIN Kids(t.x)
  /\ o.x = Kids(t.x)[c]
  /\ o.x \in Objects /\ doc.up[o.x] = t.x
  /\ o.id = nextId + c - 1
  /\ o.parent = IF Modifies(o.x) THEN t.parent ELSE t.id
  /\ o.render <=> Modifies(o.x)
  /\ o.children = <<>> /\ o.multi = FALSE
  /\ o.rel = IF Modifies(o.x) THEN t.rel ELSE doc.kind[o.x]
  /\ o.rel = Items(t)[c].rel
  /\ o.type = IF Modifies(o.x) THEN doc.kind[o.x]
              ELSE IF \E l \in 1..(c - 1) : Modifies(Kids(t.x)[l]) THEN "none" ELSE t.type
  /\ o.deps = IF TypeAfter(t) \notin {"insert", "update"} /\ o.rel = "one"
              THEN {t.parent} ELSE {}

\* What comes in is one of the objects in the top.
LEMMA SpreadNew ==
  ASSUME MTypes, NEW t \in MutateSet, NEW n, NEW np, NEW C, NEW cp,
         Spread(t, n, np, C, cp), NEW c \in C
  PROVE  cp[c] \in DOMAIN Line' /\ Sprouted(Line'[cp[c]], t, c)
<1>. DEFINE v == Items(t)[c]
            s == Sprouts(t)[c]
            y == Kids(t.x)[c]
<1>1. doc \in Docs /\ nextId \in Nat BY DEF MTypes
<1>2. c \in DOMAIN Items(t) /\ DOMAIN Items(t) = 1..Len(Items(t))
      /\ DOMAIN Items(t) = DOMAIN Kids(t.x)
  BY <1>1, ItemsSeq DEF Spread
<1>3. cp[c] \in DOMAIN Line' /\ Line'[cp[c]] = s BY DEF Spread
<1>4. /\ s.x = v.x /\ s.id = v.id /\ s.parent = v.parent /\ s.type = v.type
      /\ s.rel = v.rel /\ s.children = v.children
      /\ s.multi = v.multi /\ s.render = v.render
      /\ s.deps = IF TypeAfter(t) \notin {"insert", "update"} /\ v.rel = "one"
                  THEN {t.parent} ELSE {}
  BY <1>1, <1>2, SproutsFacts
<1>5. /\ y \in Objects /\ doc.up[y] = t.x
      /\ v.x = y /\ v.id = nextId + c - 1
      /\ v.parent = IF Modifies(y) THEN t.parent ELSE t.id
      /\ v.render <=> Modifies(y)
      /\ v.children = <<>> /\ v.multi = FALSE
      /\ v.rel = IF Modifies(y) THEN t.rel ELSE doc.kind[y]
      /\ v.type = IF Modifies(y) THEN doc.kind[y]
                  ELSE IF \E l \in 1..(c - 1) : Modifies(Kids(t.x)[l]) THEN "none"
                  ELSE t.type
  <2>1. c \in DOMAIN Items(t) BY <1>2
  <2>2. y \in Objects /\ doc.up[y] = t.x BY <1>1, <1>2, KidsFacts
  <2>4. v.x = y /\ v.id = nextId + c - 1
    <3>1. v.x = y BY <1>1, <2>1, ItemObject
    <3>2. v.id = nextId + c - 1 BY <1>1, <2>1, ItemFacts
    <3>. QED BY <3>1, <3>2
  <2>5. v.parent = IF Modifies(y) THEN t.parent ELSE t.id BY <1>1, <2>1, ItemFacts, ZenonT(30)
  <2>6. v.render <=> Modifies(y) BY <1>1, <2>1, ItemFacts, ZenonT(30)
  <2>7. v.children = <<>> /\ v.multi = FALSE BY <1>1, <2>1, ItemFacts, ZenonT(30)
  <2>8. v.rel = IF Modifies(y) THEN t.rel ELSE doc.kind[y]
    BY <1>1, <2>1, ItemFacts, ZenonT(30)
  <2>3. v.type = IF Modifies(y) THEN doc.kind[y]
                 ELSE IF \E l \in 1..(c - 1) : Modifies(Kids(t.x)[l]) THEN "none"
                 ELSE t.type
    BY <1>1, <2>1, ItemFacts, ZenonT(30)
  <2>. HIDE DEF v, y
  <2>. QED BY <2>2, <2>3, <2>4, <2>5, <2>6, <2>7, <2>8
<1>. HIDE DEF s, v, y
<1>6. /\ Line'[cp[c]].x = y /\ Line'[cp[c]].id = nextId + c - 1
      /\ Line'[cp[c]].parent = IF Modifies(y) THEN t.parent ELSE t.id
      /\ Line'[cp[c]].render <=> Modifies(y)
      /\ Line'[cp[c]].children = <<>> /\ Line'[cp[c]].multi = FALSE
      /\ Line'[cp[c]].rel = v.rel
      /\ Line'[cp[c]].rel = IF Modifies(y) THEN t.rel ELSE doc.kind[y]
  BY <1>3, <1>4, <1>5
<1>7. Line'[cp[c]].type = IF Modifies(y) THEN doc.kind[y]
                  ELSE IF \E l \in 1..(c - 1) : Modifies(Kids(t.x)[l]) THEN "none"
                  ELSE t.type
  BY <1>3, <1>4, <1>5
<1>8. Line'[cp[c]].deps = IF TypeAfter(t) \notin {"insert", "update"} /\ Line'[cp[c]].rel = "one"
                  THEN {t.parent} ELSE {}
  BY <1>3, <1>4
<1>9. Line'[cp[c]].x = Kids(t.x)[c] BY <1>6 DEF y
<1>10. Line'[cp[c]].x \in Objects /\ doc.up[Line'[cp[c]].x] = t.x BY <1>5, <1>6
<1>11. Line'[cp[c]].parent = IF Modifies(Line'[cp[c]].x) THEN t.parent ELSE t.id
  BY <1>6
<1>12. Line'[cp[c]].render <=> Modifies(Line'[cp[c]].x) BY <1>6
<1>13. Line'[cp[c]].rel = IF Modifies(Line'[cp[c]].x) THEN t.rel ELSE doc.kind[Line'[cp[c]].x]
  BY <1>6
<1>14. Line'[cp[c]].type =
              IF Modifies(Line'[cp[c]].x) THEN doc.kind[Line'[cp[c]].x]
              ELSE IF \E l \in 1..(c - 1) : Modifies(Kids(t.x)[l]) THEN "none" ELSE t.type
  BY <1>6, <1>7
<1>15. Line'[cp[c]].rel = Items(t)[c].rel BY <1>6 DEF v
<1>. QED BY <1>2, <1>3, <1>6, <1>8, <1>9, <1>10, <1>11, <1>12, <1>13, <1>14, <1>15 DEF Sprouted

\* The mutates that compileMutation starts with.
LEMMA RootsFacts ==
  ASSUME doc \in Docs
  PROVE  /\ Roots \in Seq(MutateSet) /\ Len(Roots) \in Nat
         /\ DOMAIN Roots = 1..Len(Roots) /\ DOMAIN Roots = DOMAIN Kids(0)
         /\ \A k \in DOMAIN Roots :
              LET r == Roots[k]
              IN /\ r \in MutateSet /\ r.x = Kids(0)[k] /\ r.x \in Objects /\ doc.up[r.x] = 0
                 /\ r.id = k - 1 /\ r.parent = NoParent /\ r.type = doc.op /\ r.rel = "root"
                 /\ r.deps = {} /\ r.children = <<>> /\ r.multi = FALSE /\ r.render = FALSE
<1>. DEFINE ks == Kids(0)
            N == Len(ks)
<1>1. /\ ks \in Seq(Objects) /\ N \in Nat /\ DOMAIN ks = 1..N
      /\ \A k \in DOMAIN ks : doc.up[ks[k]] = 0 /\ ks[k] \in Objects
  BY KidsFacts, LenProperties
<1>2. Roots = [k \in 1..N |-> Mutate(ks[k], k - 1, NoParent, doc.op, doc.table[ks[k]], "root")]
  BY DEF Roots
<1>. HIDE DEF ks
<1>3. ASSUME NEW k \in 1..N
      PROVE  LET r == Roots[k]
             IN /\ r \in MutateSet /\ r.x = ks[k] /\ r.x \in Objects /\ doc.up[r.x] = 0
                /\ r.id = k - 1 /\ r.parent = NoParent /\ r.type = doc.op /\ r.rel = "root"
                /\ r.deps = {} /\ r.children = <<>> /\ r.multi = FALSE /\ r.render = FALSE
  <2>. DEFINE r == Roots[k]
              x == ks[k]
              id == k - 1
              table == doc.table[x]
  <2>1. r = Mutate(x, id, NoParent, doc.op, table, "root") BY <1>2
  <2>2. x \in Objects /\ doc.up[x] = 0 BY <1>1
  <2>3. id \in Int /\ NoParent \in Int BY <1>1 DEF NoParent
  <2>4. doc.op \in Types /\ table \in Tables /\ "root" \in Rels
    BY <2>2, DocFacts DEF Ops, Types, Rels
  <2>. HIDE DEF r, x, id, table
  <2>5. r \in MutateSet
    BY <2>1, <2>2, <2>3, <2>4, MutateType, ZenonT(30)
  <2>6. /\ r.x = x /\ r.id = id /\ r.parent = NoParent /\ r.type = doc.op /\ r.rel = "root"
        /\ r.deps = {} /\ r.children = <<>> /\ r.multi = FALSE /\ r.render = FALSE
    BY <2>1 DEF Mutate
  <2>. QED BY <2>2, <2>5, <2>6 DEF r, x, id
<1>4. Roots \in Seq(MutateSet)
  <2>1. \A k \in 1..N : Mutate(ks[k], k - 1, NoParent, doc.op, doc.table[ks[k]], "root") \in MutateSet
    BY <1>2, <1>3
  <2>. QED BY <1>1, <1>2, <2>1, IsASeq
<1>5. DOMAIN Roots = 1..N BY <1>2
<1>6. Len(Roots) = N BY <1>1, <1>4, <1>5, LenProperties
<1>. QED BY <1>1, <1>3, <1>4, <1>5, <1>6 DEF ks

\* The types hold at the start ...
LEMMA TypesInit == Init => MTypes
<1>. SUFFICES ASSUME Init PROVE MTypes
  OBVIOUS
<1>1. doc \in Docs BY DEF Init
<1>2. Roots \in Seq(MutateSet) /\ Len(Roots) \in Nat BY <1>1, RootsFacts
<1>3. <<>> \in Seq(MutateSet) OBVIOUS
<1>. QED BY <1>1, <1>2, <1>3 DEF Init, MTypes, Phases, NoParent

\* A new number is a number.
LEMMA NewInt ==
  ASSUME MTypes, NEW d
  PROVE  New(d) \in Int
BY DEF New, MTypes

\* ... and in every step.
LEMMA TypesNext == MTypes /\ [Next]_vars => MTypes'
<1>. SUFFICES ASSUME MTypes, [Next]_vars PROVE MTypes'
  OBVIOUS
<1>1. CASE PopRendered
  <2>1. /\ doc' = doc /\ mutates' \in Seq(MutateSet) /\ stack' \in Seq(MutateSet)
    BY <1>1, PopLine
  <2>2. MutateSet' = MutateSet BY <2>1, SameDoc
  <2>3. Top.id \in Int /\ Len(mutates) \in Int
    BY <1>1, TopFacts, LineFacts DEF PopRendered, MutateSet
  <2>4. DOMAIN mmap' \subseteq Int /\ \A d \in DOMAIN mmap' : mmap'[d] \in Int
    BY <1>1, <2>3 DEF PopRendered, MTypes
  <2>. QED BY <1>1, <2>1, <2>2, <2>4 DEF PopRendered, MTypes
<1>2. CASE NewMutate
  <2>1. doc' = doc /\ stack' \in Seq(MutateSet) BY <1>2, NewLine
  <2>2. MutateSet' = MutateSet BY <2>1, SameDoc
  <2>3. /\ nextId' = nextId + Len(Items(Top)) /\ stack # <<>>
        /\ UNCHANGED <<phase, mutates, mmap, i, todo>>
    BY <1>2, NewMutateIs
  <2>4. nextId' \in Nat
    <3>1. Top \in MutateSet /\ doc \in Docs /\ nextId \in Nat BY <2>3, TopFacts DEF MTypes
    <3>2. Len(Items(Top)) \in Nat BY <3>1, ItemsSeq
    <3>. QED BY <2>3, <3>1, <3>2
  <2>. QED BY <2>1, <2>2, <2>3, <2>4 DEF MTypes
<1>3. CASE Rejected
  <2>2. MutateSet' = MutateSet BY <1>3, SameDoc DEF Rejected
  <2>. QED BY <1>3, <2>2 DEF Rejected, MTypes, Phases
<1>4. CASE StartRenumber
  <2>2. MutateSet' = MutateSet BY <1>4, SameDoc DEF StartRenumber
  <2>. QED BY <1>4, <2>2 DEF StartRenumber, To, MTypes, Phases
<1>5. CASE Renumber
  <2>2. MutateSet' = MutateSet BY <1>5, SameDoc DEF Renumber
  <2>. DEFINE m == mutates[i]
              ch == [k \in DOMAIN m.children |-> New(m.children[k])]
  <2>3. i \in DOMAIN mutates /\ m \in MutateSet /\ DOMAIN mutates = 1..Len(mutates)
    BY <1>5, LineFacts DEF Renumber, MTypes
  <2>4. m.children \in Seq(Int) /\ m.deps \in SUBSET Int BY <2>3 DEF MutateSet
  <2>5. ch \in Seq(Int)
    <3>. DEFINE s == m.children
                N == Len(s)
    <3>1. N \in Nat /\ DOMAIN s = 1..N BY <2>4, LenProperties
    <3>2. \A k \in 1..N : New(s[k]) \in Int BY NewInt
    <3>3. ch = [k \in 1..N |-> New(s[k])] BY <3>1
    <3>. HIDE DEF ch, s, N
    <3>. QED BY <3>1, <3>2, <3>3, IsASeq
  <2>. DEFINE m1 == [m EXCEPT !.id = New(@), !.parent = New(@), !.children = ch]
  <2>6. New(m.id) \in Int /\ New(m.parent) \in Int BY NewInt
  <2>7. m1 \in MutateSet
    <3>. HIDE DEF ch, m
    <3>. QED BY <2>3, <2>5, <2>6 DEF MutateSet
  <2>8. mutates' = [mutates EXCEPT ![i] = m1]
    BY <1>5, <2>3 DEF Renumber
  <2>9. mutates' \in Seq(MutateSet)
    <3>. HIDE DEF m1
    <3>1. mutates \in Seq(MutateSet) /\ i \in 1..Len(mutates) BY <2>3 DEF MTypes
    <3>. QED BY <2>7, <2>8, <3>1, ExceptSeq
  <2>10. todo' \in SUBSET Int BY <1>5, <2>4 DEF Renumber
  <2>. QED BY <1>5, <2>2, <2>9, <2>10 DEF Renumber, To, MTypes, Phases
<1>6. CASE RenumberDep
  <2>2. MutateSet' = MutateSet BY <1>6, SameDoc DEF RenumberDep
  <2>3. PICK id \in todo, more \in BOOLEAN :
          /\ mutates' = [mutates EXCEPT ![i].deps = (@ \ {id}) \cup {New(id)}]
          /\ todo' = (todo \ {id}) \cup (IF more THEN MetLater(id) ELSE {})
    BY <1>6 DEF RenumberDep
  <2>4. todo' \in SUBSET Int
    <3>1. MetLater(id) \subseteq Int BY NewInt DEF MetLater
    <3>. QED BY <2>3, <3>1 DEF MTypes
  <2>5. mutates' \in Seq(MutateSet)
    <3>1. CASE i \in DOMAIN mutates
      <4>. DEFINE m == mutates[i]
                  d == (m.deps \ {id}) \cup {New(id)}
                  m1 == [m EXCEPT !.deps = d]
      <4>1. m \in MutateSet /\ DOMAIN mutates = 1..Len(mutates) BY <3>1, LineFacts
      <4>2. d \in SUBSET Int
        <5>1. m.deps \in SUBSET Int /\ New(id) \in Int BY <4>1, NewInt DEF MutateSet
        <5>. QED BY <5>1
      <4>3. mutates' = [mutates EXCEPT ![i] = m1] BY <2>3, <3>1
      <4>. HIDE DEF d, m
      <4>4. m1 \in MutateSet BY <4>1, <4>2 DEF MutateSet
      <4>. HIDE DEF m1
      <4>. QED BY <3>1, <4>1, <4>3, <4>4, ExceptSeq DEF MTypes
    <3>2. CASE i \notin DOMAIN mutates
      <4>1. mutates' = mutates BY <2>3, <3>2, ElementOfSeq, LenProperties DEF MTypes
      <4>. QED BY <4>1 DEF MTypes
    <3>. QED BY <3>1, <3>2
  <2>. QED BY <1>6, <2>2, <2>4, <2>5 DEF RenumberDep, MTypes
<1>7. CASE RenumberNext
  <2>2. MutateSet' = MutateSet BY <1>7, SameDoc DEF RenumberNext
  <2>. QED BY <1>7, <2>2 DEF RenumberNext, To, MTypes, Phases
<1>8. CASE StartPull
  <2>2. MutateSet' = MutateSet BY <1>8, SameDoc DEF StartPull
  <2>. QED BY <1>8, <2>2 DEF StartPull, To, MTypes, Phases
<1>9. CASE Pull
  <2>2. MutateSet' = MutateSet BY <1>9, SameDoc DEF Pull
  <2>. DEFINE m == mutates[i]
              mk(k) == IF k = i THEN WithMulti(m) ELSE mutates[k]
              nw(k) == IF m.type = "none" /\ m.parent # NoParent /\ k = m.parent + 1
                       THEN [mk(k) EXCEPT !.deps = (@ \ {m.id}) \cup PulledUp(m)]
                       ELSE mk(k)
  <2>3. mutates' = [k \in DOMAIN mutates |-> nw(k)] BY <1>9 DEF Pull
  <2>4. /\ DOMAIN mutates = 1..Len(mutates) /\ Len(mutates) \in Nat
        /\ i \in DOMAIN mutates /\ \A k \in DOMAIN mutates : mutates[k] \in MutateSet
    BY <1>9, LineFacts DEF Pull, MTypes
  <2>5. PulledUp(m) \subseteq Int
    <3>1. m \in MutateSet BY <2>4
    <3>2. m.children \in Seq(Int) BY <3>1 DEF MutateSet
    <3>3. \A k \in DOMAIN m.children : m.children[k] \in Int
      BY <3>2, ElementOfSeq, LenProperties
    <3>. QED BY <3>3 DEF PulledUp
  <2>6. \A k \in DOMAIN mutates : mk(k) \in MutateSet
    <3>1. m \in MutateSet BY <2>4
    <3>. HIDE DEF m
    <3>2. WithMulti(m) \in MutateSet
      <4>. DEFINE b == Cardinality(Union(m.table)) > 1
      <4>1. b \in BOOLEAN OBVIOUS
      <4>2. WithMulti(m) = [m EXCEPT !.multi = b] BY Zenon DEF WithMulti
      <4>. HIDE DEF b
      <4>. QED BY <3>1, <4>1, <4>2 DEF MutateSet
    <3>. QED BY <3>2, <2>4
  <2>7. ASSUME NEW k \in DOMAIN mutates PROVE nw(k) \in MutateSet
    <3>. DEFINE a == mk(k)
                p == PulledUp(m)
    <3>1. a \in MutateSet /\ p \subseteq Int BY <2>5, <2>6
    <3>2. nw(k) = a \/ nw(k) = [a EXCEPT !.deps = (@ \ {m.id}) \cup p] OBVIOUS
    <3>. HIDE DEF a, p, nw
    <3>3. [a EXCEPT !.deps = (@ \ {m.id}) \cup p] \in MutateSet
      <4>1. (a.deps \ {m.id}) \cup p \in SUBSET Int BY <3>1 DEF MutateSet
      <4>. QED BY <3>1, <4>1 DEF MutateSet
    <3>. QED BY <3>1, <3>2, <3>3
  <2>8. mutates' \in Seq(MutateSet)
    <3>. HIDE DEF nw
    <3>1. mutates' = [k \in 1..Len(mutates) |-> nw(k)] BY <2>3, <2>4
    <3>2. \A k \in 1..Len(mutates) : nw(k) \in MutateSet BY <2>4, <2>7
    <3>. QED BY <2>4, <3>1, <3>2, IsASeq
  <2>. QED BY <1>9, <2>2, <2>8 DEF Pull, To, MTypes, Phases
<1>10. CASE StartRender
  <2>2. MutateSet' = MutateSet BY <1>10, SameDoc DEF StartRender
  <2>. QED BY <1>10, <2>2 DEF StartRender, To, MTypes, Phases
<1>11. CASE Render
  <2>2. MutateSet' = MutateSet BY <1>11, SameDoc DEF Render
  <2>. QED BY <1>11, <2>2 DEF Render, To, MTypes, Phases
<1>12. CASE Finish
  <2>2. MutateSet' = MutateSet BY <1>12, SameDoc DEF Finish
  <2>. QED BY <1>12, <2>2 DEF Finish, MTypes, Phases
<1>13. CASE UNCHANGED vars
  <2>2. MutateSet' = MutateSet BY <1>13, SameDoc DEF vars
  <2>. QED BY <1>13, <2>2 DEF vars, MTypes
<1>. QED BY <1>1, <1>2, <1>3, <1>4, <1>5, <1>6, <1>7, <1>8, <1>9, <1>10, <1>11, <1>12, <1>13
     DEF Next

-----------------------------------------------------------------------------
(* The tree of the document.                                                *)

\* The object whose mutate is the parent of that of x.
Above(x) == IF Modifier(x) THEN doc.up[doc.up[x]] ELSE doc.up[x]

\* No two mutates share an object or a number.
Apart ==
  /\ \A j, k \in DOMAIN Line : j # k => Line[j].id # Line[k].id /\ Line[j].x # Line[k].x
  /\ \A k \in DOMAIN Line : Line[k].id >= 0 /\ Line[k].id < nextId

\* The parent of each is on the line, and what an object is in was looked at.
Linked ==
  \A k \in DOMAIN Line :
     /\ Modifier(Line[k].x) => Line[k].render
     /\ Above(Line[k].x) = 0 => Line[k].parent = NoParent
     /\ Above(Line[k].x) # 0 =>
          \E j \in DOMAIN Line : Line[j].id = Line[k].parent /\ Line[j].x = Above(Line[k].x)
     /\ doc.up[Line[k].x] # 0 =>
          \E j \in DOMAIN Line : Line[j].x = doc.up[Line[k].x] /\ Line[j].render

\* mmap gives each final mutate its place.
Numbered ==
  /\ \A k \in DOMAIN mutates : /\ mutates[k].render
                               /\ mutates[k].id \in DOMAIN mmap /\ mmap[mutates[k].id] = k - 1
  /\ NoParent \in DOMAIN mmap /\ mmap[NoParent] = NoParent

InLine == phase \in {"stack", "error"} => Apart /\ Linked /\ Numbered

\* The fields of a mutate.
LEMMA MutateFields ==
  ASSUME NEW m \in MutateSet
  PROVE  /\ m.x \in Objects /\ m.id \in Int /\ m.parent \in Int /\ m.type \in Types
         /\ m.rel \in Rels /\ m.deps \subseteq Int /\ m.children \in Seq(Int)
         /\ m.multi \in BOOLEAN /\ m.render \in BOOLEAN
BY DEF MutateSet

\* At the start there are only the roots.
LEMMA ApartInit == Init => Apart /\ Linked /\ Numbered
<1>. SUFFICES ASSUME Init PROVE Apart /\ Linked /\ Numbered
  OBVIOUS
<1>. DEFINE N == Len(Roots)
<1>1. doc \in Docs /\ stack = Roots /\ mutates = <<>> /\ nextId = N + 1
      /\ mmap = [k \in {NoParent} |-> NoParent]
  BY DEF Init
<1>2. /\ N \in Nat /\ DOMAIN Roots = 1..N /\ DOMAIN Roots = DOMAIN Kids(0)
      /\ \A k \in DOMAIN Roots :
              /\ Roots[k].x = Kids(0)[k] /\ Roots[k].x \in Objects /\ doc.up[Roots[k].x] = 0
              /\ Roots[k].id = k - 1 /\ Roots[k].parent = NoParent
  BY <1>1, RootsFacts
<1>3. \A j, k \in DOMAIN Kids(0) : j # k => Kids(0)[j] # Kids(0)[k]
  BY <1>1, KidsFacts
<1>. HIDE DEF N
<1>4. DOMAIN Line = 1..N /\ \A k \in 1..N : Line[k] = Roots[N + 1 - k] /\ N + 1 - k \in 1..N
  <2>1. Len(mutates) = 0 /\ Len(stack) = N BY <1>1 DEF N
  <2>2. Line = [k \in 1..N |-> IF k <= 0 THEN mutates[k] ELSE stack[N + 1 - k]]
    BY <2>1, <1>2 DEF Line
  <2>. QED BY <2>2, <1>1, <1>2
<1>5. \A k \in DOMAIN Line : /\ Line[k].x = Kids(0)[N + 1 - k] /\ doc.up[Line[k].x] = 0
                             /\ Line[k].id = N - k /\ Line[k].parent = NoParent
  BY <1>2, <1>4
<1>6. Apart
  <2>1. ASSUME NEW j \in DOMAIN Line, NEW k \in DOMAIN Line, j # k
        PROVE  Line[j].id # Line[k].id /\ Line[j].x # Line[k].x
    <3>1. /\ N + 1 - j \in DOMAIN Kids(0) /\ N + 1 - k \in DOMAIN Kids(0)
          /\ N + 1 - j # N + 1 - k /\ N - j # N - k
      BY <2>1, <1>2, <1>4
    <3>. QED BY <3>1, <1>3, <1>5
  <2>2. ASSUME NEW k \in DOMAIN Line PROVE N - k >= 0 /\ N - k < nextId
    <3>1. N \in Nat /\ k \in 1..N /\ nextId = N + 1 BY <1>1, <1>2, <1>4
    <3>. QED BY <3>1
  <2>3. \A k \in DOMAIN Line : Line[k].id >= 0 /\ Line[k].id < nextId
    BY <2>2, <1>5
  <2>. QED BY <2>1, <2>3 DEF Apart
<1>7. Linked
  BY <1>5 DEF Linked, Above, Modifier
<1>8. Numbered
  BY <1>1 DEF Numbered
<1>. QED BY <1>6, <1>7, <1>8

\* An object that is not looked at has none of its own on the line.
LEMMA FreshKids ==
  ASSUME MTypes, Apart, Linked, stack # <<>>, ~Top.render,
         NEW j \in DOMAIN Line
  PROVE  doc.up[Line[j].x] # Top.x
<1>. DEFINE n == Len(mutates) + 1
<1>1. n \in DOMAIN Line /\ Line[n] = Top /\ Top \in MutateSet BY TopFacts
<1>. HIDE DEF n
<1>2. Top.x # 0
  <2>1. doc \in Docs BY DEF MTypes
  <2>2. Top.x \in Objects BY <1>1, MutateFields
  <2>. QED BY <2>1, <2>2, DocFacts
<1>3. ASSUME doc.up[Line[j].x] = Top.x PROVE FALSE
  <2>1. PICK l \in DOMAIN Line : Line[l].x = Top.x /\ Line[l].render
    BY <1>2, <1>3 DEF Linked
  <2>2. l = n BY <1>1, <2>1 DEF Apart
  <2>. QED BY <1>1, <2>1, <2>2
<1>. QED BY <1>3

\* ms.id is counted up, and the objects are new.
LEMMA ApartNew ==
  ASSUME MTypes, Apart, Linked, NewMutate
  PROVE  Apart'
<1>. DEFINE n == Len(mutates) + 1
<1>1. stack # <<>> /\ ~Top.render /\ nextId' = nextId + Len(Items(Top)) BY NewMutateIs
<1>2. PICK np, C, cp : Spread(Top, n, np, C, cp) BY NewLine
<1>3. Top \in MutateSet /\ n \in DOMAIN Line /\ Line[n] = Top BY <1>1, TopFacts
<1>. HIDE DEF n
<1>4. doc \in Docs /\ nextId \in Nat BY DEF MTypes
<1>5. Len(Items(Top)) \in Nat BY <1>3, <1>4, ItemsSeq
<1>6. \A k \in DOMAIN Line : /\ Line'[np[k]].x = Line[k].x /\ Line'[np[k]].id = Line[k].id
  BY <1>2, SpreadOld
<1>7. \A c \in C : /\ Line'[cp[c]].x = Kids(Top.x)[c] /\ Line'[cp[c]].id = nextId + c - 1
                   /\ c \in 1..Len(Items(Top)) /\ c \in DOMAIN Kids(Top.x)
                   /\ doc.up[Line'[cp[c]].x] = Top.x
  <2>1. \A c \in C : Sprouted(Line'[cp[c]], Top, c) BY <1>2, <1>3, SpreadNew, Zenon
  <2>. QED BY <2>1 DEF Sprouted
<1>8. \A j \in DOMAIN Line' : \/ \E k \in DOMAIN Line : np[k] = j
                              \/ \E c \in C : cp[c] = j
  BY <1>2 DEF Spread
<1>9. \A k \in DOMAIN Line : Line[k].id \in Int /\ Line[k].id >= 0 /\ Line[k].id < nextId
  <2>1. \A k \in DOMAIN Line : Line[k].id \in Int BY LineFacts, MutateFields
  <2>. QED BY <2>1 DEF Apart
<1>10. ASSUME NEW k \in DOMAIN Line, NEW c \in C
       PROVE  Line[k].id # Line'[cp[c]].id /\ Line[k].x # Line'[cp[c]].x
  <2>1. Line[k].x # Line'[cp[c]].x
    BY <1>1, <1>7, FreshKids
  <2>2. nextId + c - 1 >= nextId BY <1>4, <1>5, <1>7
  <2>. QED BY <2>1, <2>2, <1>7, <1>9, <1>4
<1>11. ASSUME NEW c \in C, NEW d \in C, c # d
       PROVE  Line'[cp[d]].id # Line'[cp[c]].id /\ Line'[cp[d]].x # Line'[cp[c]].x
  <2>1. Kids(Top.x)[c] # Kids(Top.x)[d] BY <1>4, <1>7, <1>11, KidsFacts
  <2>2. nextId + c - 1 # nextId + d - 1 BY <1>4, <1>5, <1>7, <1>11
  <2>. QED BY <2>1, <2>2, <1>7
<1>12. ASSUME NEW j \in DOMAIN Line', NEW k \in DOMAIN Line', j # k
       PROVE  Line'[j].id # Line'[k].id /\ Line'[j].x # Line'[k].x
  <2>1. CASE (\E a \in DOMAIN Line : np[a] = j) /\ (\E b \in DOMAIN Line : np[b] = k)
    <3>1. PICK a \in DOMAIN Line : np[a] = j BY <2>1
    <3>2. PICK b \in DOMAIN Line : np[b] = k BY <2>1
    <3>3. a # b BY <3>1, <3>2, <1>12
    <3>4. Line[a].id # Line[b].id /\ Line[a].x # Line[b].x BY <3>3 DEF Apart
    <3>. QED BY <3>1, <3>2, <3>4, <1>6
  <2>2. CASE (\E a \in DOMAIN Line : np[a] = j) /\ (\E b \in C : cp[b] = k)
    BY <2>2, <1>6, <1>10
  <2>3. CASE (\E a \in C : cp[a] = j) /\ (\E b \in DOMAIN Line : np[b] = k)
    BY <2>3, <1>6, <1>10
  <2>4. CASE (\E a \in C : cp[a] = j) /\ (\E b \in C : cp[b] = k)
    BY <2>4, <1>11, <1>12
  <2>. QED BY <2>1, <2>2, <2>3, <2>4, <1>8
<1>13. ASSUME NEW j \in DOMAIN Line'
       PROVE  Line'[j].id >= 0 /\ Line'[j].id < nextId'
  <2>1. CASE \E k \in DOMAIN Line : np[k] = j
    <3>1. PICK k \in DOMAIN Line : np[k] = j BY <2>1
    <3>. QED BY <3>1, <1>1, <1>4, <1>5, <1>6, <1>9
  <2>2. CASE \E c \in C : cp[c] = j
    <3>1. PICK c \in C : cp[c] = j BY <2>2
    <3>. QED BY <3>1, <1>1, <1>4, <1>5, <1>7
  <2>. QED BY <2>1, <2>2, <1>8
<1>. QED BY <1>12, <1>13 DEF Apart

\* The parents of the new ones are there.
LEMMA LinkedNew ==
  ASSUME MTypes, Apart, Linked, NewMutate
  PROVE  Linked'
<1>. DEFINE n == Len(mutates) + 1
<1>1. stack # <<>> /\ ~Top.render BY NewMutateIs
<1>2. PICK np, C, cp : Spread(Top, n, np, C, cp) BY NewLine
<1>3. Top \in MutateSet /\ n \in DOMAIN Line /\ Line[n] = Top BY <1>1, TopFacts
<1>. HIDE DEF n
<1>4. doc \in Docs /\ doc' = doc BY NewLine DEF MTypes
<1>5. \A k \in DOMAIN Line :
         /\ np[k] \in DOMAIN Line'
         /\ Line'[np[k]].x = Line[k].x /\ Line'[np[k]].id = Line[k].id
         /\ Line'[np[k]].parent = Line[k].parent
         /\ Line[k].render => Line'[np[k]].render
  BY <1>2, SpreadOld
<1>6. Line'[np[n]].render BY <1>2, <1>3, SpreadOld
<1>7. \A x : (Modifier(x)' <=> Modifier(x)) /\ Above(x)' = Above(x)
  BY <1>4, SameDoc DEF Above
<1>8. ASSUME NEW j, NEW x, \E k \in DOMAIN Line : Line[k].id = j /\ Line[k].x = x
      PROVE  \E k \in DOMAIN Line' : Line'[k].id = j /\ Line'[k].x = x
  BY <1>8, <1>5
<1>9. ASSUME NEW x, \E k \in DOMAIN Line : Line[k].x = x /\ Line[k].render
      PROVE  \E k \in DOMAIN Line' : Line'[k].x = x /\ Line'[k].render
  BY <1>9, <1>5
<1>. DEFINE Good(k) ==
        /\ Modifier(Line'[k].x) => Line'[k].render
        /\ Above(Line'[k].x) = 0 => Line'[k].parent = NoParent
        /\ Above(Line'[k].x) # 0 =>
             \E j \in DOMAIN Line' : Line'[j].id = Line'[k].parent /\ Line'[j].x = Above(Line'[k].x)
        /\ doc.up[Line'[k].x] # 0 =>
             \E j \in DOMAIN Line' : Line'[j].x = doc.up[Line'[k].x] /\ Line'[j].render
<1>10. ASSUME NEW k \in DOMAIN Line PROVE Good(np[k])
  <2>1. Line'[np[k]].x = Line[k].x /\ Line'[np[k]].parent = Line[k].parent
        /\ (Line[k].render => Line'[np[k]].render)
    BY <1>5
  <2>2. Modifier(Line[k].x) => Line'[np[k]].render BY <2>1 DEF Linked
  <2>3. Above(Line[k].x) = 0 => Line[k].parent = NoParent BY DEF Linked
  <2>4. ASSUME Above(Line[k].x) # 0
        PROVE  \E j \in DOMAIN Line' : Line'[j].id = Line[k].parent /\ Line'[j].x = Above(Line[k].x)
    <3>1. \E j \in DOMAIN Line : Line[j].id = Line[k].parent /\ Line[j].x = Above(Line[k].x)
      BY <2>4 DEF Linked
    <3>. QED BY <3>1, <1>8
  <2>5. ASSUME doc.up[Line[k].x] # 0
        PROVE  \E j \in DOMAIN Line' : Line'[j].x = doc.up[Line[k].x] /\ Line'[j].render
    <3>1. \E j \in DOMAIN Line : Line[j].x = doc.up[Line[k].x] /\ Line[j].render
      BY <2>5 DEF Linked
    <3>. QED BY <3>1, <1>9
  <2>. QED BY <2>1, <2>2, <2>3, <2>4, <2>5
<1>11. ASSUME NEW c \in C PROVE Good(cp[c])
  <2>. DEFINE o == Line'[cp[c]]
              y == o.x
  <2>1. /\ o.x = y /\ doc.up[y] = Top.x /\ (o.render <=> Modifies(y))
        /\ o.parent = IF Modifies(y) THEN Top.parent ELSE Top.id
    <3>1. Sprouted(o, Top, c) BY <1>2, <1>3, SpreadNew, Zenon
    <3>. HIDE DEF o
    <3>. QED BY <3>1 DEF Sprouted
  <2>2. Top.x # 0
    <3>1. Top.x \in Objects BY <1>3, MutateFields
    <3>. QED BY <3>1, <1>4, DocFacts
  <2>3. Modifier(y) <=> Modifies(y) BY <2>1, <2>2 DEF Modifier
  <2>4. \E j \in DOMAIN Line' : Line'[j].x = Top.x /\ Line'[j].render
    BY <1>3, <1>5, <1>6
  <2>5. CASE Modifies(y)
    <3>1. Above(y) = doc.up[Top.x] BY <2>1, <2>3, <2>5 DEF Above
    <3>2. ~Modifier(Top.x) BY <1>1, <1>3 DEF Linked
    <3>3. Above(Top.x) = Above(y) BY <3>1, <3>2 DEF Above
    <3>4. Above(y) = 0 => Top.parent = NoParent BY <3>3, <1>3 DEF Linked
    <3>5. ASSUME Above(y) # 0
          PROVE \E j \in DOMAIN Line' : Line'[j].id = Top.parent /\ Line'[j].x = Above(y)
      <4>1. \E j \in DOMAIN Line : Line[j].id = Top.parent /\ Line[j].x = Above(y)
        BY <3>3, <3>5, <1>3 DEF Linked
      <4>. QED BY <4>1, <1>8
    <3>. HIDE DEF o, y
    <3>. QED BY <2>1, <2>2, <2>4, <2>5, <3>4, <3>5 DEF o
  <2>6. CASE ~Modifies(y)
    <3>1. Above(y) = Top.x BY <2>1, <2>3, <2>6 DEF Above
    <3>2. \E j \in DOMAIN Line' : Line'[j].id = Top.id /\ Line'[j].x = Top.x
      BY <1>3, <1>5
    <3>. HIDE DEF o, y
    <3>. QED BY <2>1, <2>2, <2>3, <2>4, <2>6, <3>1, <3>2 DEF o
  <2>. QED BY <2>5, <2>6
<1>12. ASSUME NEW k \in DOMAIN Line' PROVE Good(k)
  <2>1. \/ \E l \in DOMAIN Line : np[l] = k
        \/ \E c \in C : cp[c] = k
    BY <1>2 DEF Spread
  <2>. HIDE DEF Good
  <2>. QED BY <2>1, <1>10, <1>11
<1>. QED BY <1>4, <1>7, <1>12 DEF Linked

\* A final mutate gets its place.
LEMMA NumberedPop ==
  ASSUME MTypes, Apart, Numbered, PopRendered
  PROVE  Numbered'
<1>. DEFINE n == Len(mutates)
<1>1. /\ stack # <<>> /\ Top.render /\ mutates' = Append(mutates, Top)
      /\ mmap' = [k \in DOMAIN mmap \cup {Top.id} |-> IF k = Top.id THEN n ELSE mmap[k]]
  BY DEF PopRendered
<1>2. /\ Top \in MutateSet /\ n + 1 \in DOMAIN Line /\ Line[n + 1] = Top
  BY <1>1, TopFacts
<1>3. n \in Nat /\ DOMAIN mutates = 1..n /\ mutates \in Seq(MutateSet) BY LineFacts DEF MTypes
<1>. HIDE DEF n
<1>4. /\ DOMAIN mutates' = 1..(n + 1) /\ mutates'[n + 1] = Top
      /\ \A k \in 1..n : mutates'[k] = mutates[k]
  <2>. HIDE DEF Top
  <2>1. /\ Append(mutates, Top) \in Seq(MutateSet) /\ Len(Append(mutates, Top)) = n + 1
        /\ Append(mutates, Top)[n + 1] = Top
        /\ \A k \in 1..n : Append(mutates, Top)[k] = mutates[k]
    BY <1>2, <1>3, AppendProperties DEF n
  <2>2. DOMAIN Append(mutates, Top) = 1..(n + 1) BY <2>1, LenProperties
  <2>. QED BY <1>1, <2>1, <2>2
<1>5. Top.id # NoParent
  <2>1. Top.id >= 0 BY <1>2 DEF Apart
  <2>. QED BY <2>1 DEF NoParent
<1>6. ASSUME NEW k \in 1..n
      PROVE  mutates[k].render /\ mutates[k].id \in DOMAIN mmap /\ mmap[mutates[k].id] = k - 1
             /\ mutates[k].id # Top.id
  <2>1. k \in DOMAIN Line /\ Line[k] = mutates[k] BY <1>3, LineFacts
  <2>2. k # n + 1 BY <1>3
  <2>3. Line[k].id # Line[n + 1].id BY <1>2, <2>1, <2>2 DEF Apart
  <2>. QED BY <1>2, <1>3, <2>1, <2>3 DEF Numbered
<1>7. ASSUME NEW k \in 1..(n + 1)
      PROVE  mutates'[k].render /\ mutates'[k].id \in DOMAIN mmap' /\ mmap'[mutates'[k].id] = k - 1
  <2>1. CASE k = n + 1
    BY <2>1, <1>1, <1>3, <1>4
  <2>2. CASE k \in 1..n
    <3>1. mutates[k].id \in DOMAIN mmap' /\ mmap'[mutates[k].id] = mmap[mutates[k].id]
      BY <1>1, <1>6, <2>2
    <3>. QED BY <3>1, <2>2, <1>4, <1>6
  <2>. QED BY <2>1, <2>2, <1>3
<1>8. NoParent \in DOMAIN mmap' /\ mmap'[NoParent] = NoParent
  <2>1. NoParent \in DOMAIN mmap /\ mmap[NoParent] = NoParent BY DEF Numbered
  <2>. QED BY <1>1, <1>5, <2>1
<1>. QED BY <1>4, <1>7, <1>8 DEF Numbered

\* The loop over the mutates has renumbered the k-th.
Done(k) ==
  CASE phase = "ids"  -> k < i
    [] phase = "deps" -> k <= i
    [] OTHER          -> TRUE

\* The mutate with this number is that of x.
IsAt(id, x) == id + 1 \in DOMAIN mutates /\ mutates[id + 1].x = x

\* The mutate m, at the place k, has its new number and that of the one above.
NewNumbers(m, k) ==
  /\ m.id = k - 1
  /\ Above(m.x) = 0 => m.parent = NoParent
  /\ Above(m.x) # 0 => IsAt(m.parent, Above(m.x))

\* The same of the numbers that are not replaced yet.
OldNumbers(m, k) ==
  /\ m.id \in DOMAIN mmap /\ mmap[m.id] = k - 1
  /\ m.parent \in DOMAIN mmap
  /\ Above(m.x) = 0 => mmap[m.parent] = NoParent
  /\ Above(m.x) # 0 => IsAt(mmap[m.parent], Above(m.x))

\* The numbers, while they are replaced and after.
Renumbered ==
  phase \notin {"stack", "error"} =>
    /\ stack = <<>>
    /\ \A k \in DOMAIN mutates :
         IF Done(k) THEN NewNumbers(mutates[k], k) ELSE OldNumbers(mutates[k], k)

\* The history only grows.
LEMMA GrownKept ==
  ASSUME [Next]_vars
  PROVE  grown' = {} => grown = {}
<1>1. grown' = grown \/ Renumber
  BY DEF Next, vars, PopRendered, NewMutate, Rejected, StartRenumber, RenumberDep, RenumberNext,
         StartPull, Pull, StartRender, Render, Finish
<1>2. CASE Renumber
  <2>1. \A k \in grown : k \in grown' BY <1>2 DEF Renumber
  <2>. QED BY <2>1
<1>. QED BY <1>1, <1>2

\* The steps of the loops that follow the stack.
Later == Renumber \/ RenumberDep \/ RenumberNext \/ StartPull \/ Pull \/ StartRender \/ Render \/ Finish

\* What the loops that follow leave as it is.
LEMMA ShapeKept ==
  ASSUME MTypes, Later
  PROVE  /\ doc' = doc /\ stack' = stack /\ mmap' = mmap /\ nextId' = nextId
         /\ phase \notin {"stack", "error"} /\ phase' \notin {"stack", "error"}
         /\ DOMAIN mutates' = DOMAIN mutates
         /\ \A k \in DOMAIN mutates :
              /\ mutates'[k].x = mutates[k].x /\ mutates'[k].type = mutates[k].type
              /\ mutates'[k].rel = mutates[k].rel /\ mutates'[k].table = mutates[k].table
              /\ mutates'[k].render = mutates[k].render
              /\ ~Renumber => /\ mutates'[k].id = mutates[k].id
                              /\ mutates'[k].parent = mutates[k].parent
                              /\ mutates'[k].children = mutates[k].children
<1>. DEFINE Same(k) ==
              /\ mutates'[k].x = mutates[k].x /\ mutates'[k].type = mutates[k].type
              /\ mutates'[k].rel = mutates[k].rel /\ mutates'[k].table = mutates[k].table
              /\ mutates'[k].render = mutates[k].render
            Same2(k) == /\ mutates'[k].id = mutates[k].id
                        /\ mutates'[k].parent = mutates[k].parent
                        /\ mutates'[k].children = mutates[k].children
<1>1. /\ doc' = doc /\ stack' = stack /\ mmap' = mmap /\ nextId' = nextId
      /\ phase \notin {"stack", "error"} /\ phase' \notin {"stack", "error"}
  BY DEF Later, Renumber, RenumberDep, RenumberNext, StartPull, Pull, StartRender, Render,
         Finish, To
<1>2. \A k \in DOMAIN mutates : mutates[k] \in MutateSet BY LineFacts
<1>3. CASE mutates' = mutates BY <1>1, <1>3
<1>4. CASE Renumber
  <2>. DEFINE ch == [k \in DOMAIN mutates[i].children |-> New(mutates[i].children[k])]
              a == New(mutates[i].id)
              b == New(mutates[i].parent)
  <2>0. i \in DOMAIN mutates
    BY <1>4, LineFacts DEF Renumber, MTypes
  <2>1. mutates' = [mutates EXCEPT ![i].id = a, ![i].parent = b, ![i].children = ch]
    BY <1>4, <2>0 DEF Renumber
  <2>. HIDE DEF ch, a, b
  <2>2. DOMAIN mutates' = DOMAIN mutates BY <2>1
  <2>3. ASSUME NEW k \in DOMAIN mutates PROVE Same(k)
    <3>1. CASE k = i
      <4>1. mutates'[k] = [mutates[k] EXCEPT !.id = a, !.parent = b, !.children = ch]
        BY <2>1, <3>1
      <4>2. mutates[k] \in MutateSet BY <1>2
      <4>. QED BY <4>1, <4>2 DEF MutateSet
    <3>2. CASE k # i BY <2>1, <3>2
    <3>. QED BY <3>1, <3>2
  <2>. QED BY <1>1, <1>4, <2>2, <2>3
<1>5. CASE RenumberDep
  <2>1. PICK id : mutates' = [mutates EXCEPT ![i].deps = (@ \ {id}) \cup {New(id)}]
    BY <1>5 DEF RenumberDep
  <2>2. DOMAIN mutates' = DOMAIN mutates BY <2>1
  <2>3. ASSUME NEW k \in DOMAIN mutates PROVE Same(k) /\ Same2(k)
    <3>1. CASE k = i
      <4>. DEFINE d == (mutates[k].deps \ {id}) \cup {New(id)}
      <4>1. mutates'[k] = [mutates[k] EXCEPT !.deps = d]
        BY <2>1, <3>1
      <4>2. mutates[k] \in MutateSet BY <1>2
      <4>. HIDE DEF d
      <4>. QED BY <4>1, <4>2 DEF MutateSet
    <3>2. CASE k # i BY <2>1, <3>2
    <3>. QED BY <3>1, <3>2
  <2>. QED BY <1>1, <2>2, <2>3
<1>6. CASE Pull
  <2>. DEFINE m == mutates[i]
              mk(k) == IF k = i THEN WithMulti(m) ELSE mutates[k]
              d(k) == (mk(k).deps \ {m.id}) \cup PulledUp(m)
              nw(k) == IF m.type = "none" /\ m.parent # NoParent /\ k = m.parent + 1
                       THEN [mk(k) EXCEPT !.deps = (@ \ {m.id}) \cup PulledUp(m)]
                       ELSE mk(k)
              u == Cardinality(Union(m.table)) > 1
  <2>1. mutates' = [k \in DOMAIN mutates |-> nw(k)] BY <1>6 DEF Pull
  <2>2. ASSUME NEW k \in DOMAIN mutates PROVE Same(k) /\ Same2(k)
    <3>1. mutates[k] \in MutateSet BY <1>2
    <3>2. mk(k) = mutates[k] \/ mk(k) = [mutates[k] EXCEPT !.multi = u]
      BY Zenon DEF WithMulti
    <3>3. mutates'[k] = mk(k) \/ mutates'[k] = [mk(k) EXCEPT !.deps = d(k)]
      BY <2>1
    <3>. HIDE DEF u
    <3>. DEFINE v == mk(k)
                w == d(k)
    <3>4. /\ v.x = mutates[k].x /\ v.type = mutates[k].type
          /\ v.rel = mutates[k].rel /\ v.table = mutates[k].table
          /\ v.render = mutates[k].render /\ v.id = mutates[k].id
          /\ v.parent = mutates[k].parent /\ v.children = mutates[k].children
          /\ DOMAIN v = DOMAIN mutates[k]
      <4>. HIDE DEF v
      <4>. QED BY <3>1, <3>2 DEF MutateSet, v
    <3>. HIDE DEF v, w
    <3>5. mutates'[k] = v \/ mutates'[k] = [v EXCEPT !.deps = w] BY <3>3 DEF v, w
    <3>. QED BY <3>1, <3>4, <3>5 DEF MutateSet
  <2>. QED BY <1>1, <2>1, <2>2
<1>7. RenumberNext \/ StartPull \/ StartRender \/ Render \/ Finish => mutates' = mutates
  BY DEF RenumberNext, StartPull, StartRender, Render, Finish
<1>. QED BY <1>3, <1>4, <1>5, <1>6, <1>7 DEF Later

\* Without a stack the line is the mutates.
LEMMA LineOfMutates ==
  ASSUME MTypes, stack = <<>>
  PROVE  DOMAIN Line = DOMAIN mutates /\ \A k \in DOMAIN mutates : Line[k] = mutates[k]
<1>1. Len(stack) = 0 BY DEF MTypes
<1>. QED BY <1>1, LineFacts DEF Size

\* The loop starts with what the stack left.
LEMMA RenumberedStart ==
  ASSUME MTypes, Apart, Linked, Numbered, StartRenumber
  PROVE  Renumbered'
<1>1. /\ phase' = "ids" /\ i' = 1 /\ stack = <<>>
      /\ UNCHANGED <<doc, stack, nextId, mutates, mmap, todo, sql>>
  BY DEF StartRenumber, To
<1>2. DOMAIN Line = DOMAIN mutates /\ \A k \in DOMAIN mutates : Line[k] = mutates[k]
  BY <1>1, LineOfMutates
<1>3. DOMAIN mutates = 1..Len(mutates) /\ Len(mutates) \in Nat
      /\ \A k \in DOMAIN mutates : mutates[k] \in MutateSet BY LineFacts
<1>4. \A x : Above(x)' = Above(x) BY <1>1, SameDoc DEF Above
<1>5. ASSUME NEW k \in DOMAIN mutates PROVE OldNumbers(mutates[k], k)
  <2>1. mutates[k].id \in DOMAIN mmap /\ mmap[mutates[k].id] = k - 1 BY DEF Numbered
  <2>2. CASE Above(mutates[k].x) = 0
    <3>1. mutates[k].parent = NoParent BY <1>2, <2>2 DEF Linked
    <3>. QED BY <2>1, <2>2, <3>1 DEF OldNumbers, Numbered
  <2>3. CASE Above(mutates[k].x) # 0
    <3>1. PICK j \in DOMAIN mutates :
            mutates[j].id = mutates[k].parent /\ mutates[j].x = Above(mutates[k].x)
      BY <1>2, <2>3 DEF Linked
    <3>2. mutates[k].parent \in DOMAIN mmap /\ mmap[mutates[k].parent] = j - 1
      BY <3>1 DEF Numbered
    <3>3. IsAt(mmap[mutates[k].parent], Above(mutates[k].x))
      <4>1. (j - 1) + 1 = j BY <1>3
      <4>. QED BY <3>1, <3>2, <4>1 DEF IsAt
    <3>. QED BY <2>1, <2>3, <3>2, <3>3 DEF OldNumbers
  <2>. QED BY <2>2, <2>3
<1>6. \A k \in DOMAIN mutates : ~Done(k)'
  BY <1>1, <1>3 DEF Done
<1>7. \A m, k : OldNumbers(m, k)' <=> OldNumbers(m, k)
  BY <1>1, <1>4 DEF OldNumbers, IsAt
<1>. QED BY <1>1, <1>5, <1>6, <1>7 DEF Renumbered

\* It replaces the numbers of one mutate at a time; nothing later changes them.
LEMMA RenumberedLater ==
  ASSUME MTypes, Renumbered, Later
  PROVE  Renumbered'
<1>1. /\ doc' = doc /\ stack' = stack /\ mmap' = mmap
      /\ phase \notin {"stack", "error"} /\ phase' \notin {"stack", "error"}
      /\ DOMAIN mutates' = DOMAIN mutates
      /\ \A k \in DOMAIN mutates : mutates'[k].x = mutates[k].x
  BY ShapeKept
<1>2. \A x : Above(x)' = Above(x) BY <1>1, SameDoc DEF Above
<1>3. \A id, x : IsAt(id, x)' <=> IsAt(id, x)
  BY <1>1 DEF IsAt
<1>4. stack' = <<>> BY <1>1 DEF Renumbered
<1>5. /\ DOMAIN mutates = 1..Len(mutates) /\ Len(mutates) \in Nat /\ i \in Nat
      /\ \A k \in DOMAIN mutates : mutates[k] \in MutateSet
  BY LineFacts DEF MTypes
<1>6. ASSUME NEW k \in DOMAIN mutates
      PROVE  IF Done(k) THEN NewNumbers(mutates[k], k) ELSE OldNumbers(mutates[k], k)
  BY <1>1 DEF Renumbered
<1>7. \A j, k : mutates'[k].x = mutates[k].x /\ mutates'[k].id = mutates[k].id
                /\ mutates'[k].parent = mutates[k].parent
        => /\ NewNumbers(mutates[k], j)' <=> NewNumbers(mutates[k], j)
           /\ OldNumbers(mutates[k], j)' <=> OldNumbers(mutates[k], j)
  BY <1>1, <1>2, <1>3 DEF NewNumbers, OldNumbers
<1>8. CASE Renumber
  <2>1. /\ phase = "ids" /\ i <= Len(mutates) /\ phase' = "deps" /\ i' = i
        /\ i \in DOMAIN mutates
    BY <1>5, <1>8 DEF Renumber, To, MTypes
  <2>2. ASSUME NEW k \in DOMAIN mutates, k # i
        PROVE  IF Done(k)' THEN NewNumbers(mutates[k], k)' ELSE OldNumbers(mutates[k], k)'
    <3>1. mutates'[k] = mutates[k] BY <1>8, <2>2 DEF Renumber
    <3>2. Done(k)' <=> Done(k) BY <1>5, <2>1, <2>2 DEF Done
    <3>. QED BY <1>6, <1>7, <2>2, <3>1, <3>2
  <2>3. Done(i)' /\ ~Done(i) BY <1>5, <2>1 DEF Done
  <2>4. OldNumbers(mutates[i], i) BY <1>6, <2>1, <2>3
  <2>5. mutates'[i].id = New(mutates[i].id) /\ mutates'[i].parent = New(mutates[i].parent)
    <3>. DEFINE m == mutates[i]
                ch == [k \in DOMAIN m.children |-> New(m.children[k])]
                a == New(m.id)
                b == New(m.parent)
    <3>1. mutates'[i] = [m EXCEPT !.id = a, !.parent = b, !.children = ch]
      BY <1>8, <2>1 DEF Renumber
    <3>2. m \in MutateSet BY <1>5, <2>1
    <3>. HIDE DEF a, b, ch, m
    <3>3. mutates'[i].id = a /\ mutates'[i].parent = b BY <3>1, <3>2 DEF MutateSet
    <3>. QED BY <3>3 DEF a, b, m
  <2>6. mutates'[i].id = i - 1 /\ mutates'[i].parent = mmap[mutates[i].parent]
    BY <2>4, <2>5 DEF OldNumbers, New
  <2>7. NewNumbers(mutates[i], i)'
    <3>1. mutates'[i].x = mutates[i].x BY <1>1, <2>1
    <3>. QED BY <1>2, <1>3, <2>1, <2>4, <2>6, <3>1 DEF NewNumbers, OldNumbers
  <2>8. ASSUME NEW k \in DOMAIN mutates
        PROVE  IF Done(k)' THEN NewNumbers(mutates[k], k)' ELSE OldNumbers(mutates[k], k)'
    <3>1. CASE k = i BY <3>1, <2>1, <2>3, <2>7
    <3>2. CASE k # i BY <3>2, <2>2
    <3>. QED BY <3>1, <3>2
  <2>. QED BY <1>1, <1>4, <2>8 DEF Renumbered
<1>9. CASE ~Renumber
  <2>1. ASSUME NEW k \in DOMAIN mutates PROVE Done(k)' <=> Done(k)
    <3>0. k \in Nat /\ k <= Len(mutates) BY <1>5
    <3>1. CASE RenumberDep
      <4>1. phase' = phase /\ i' = i BY <3>1 DEF RenumberDep
      <4>. QED BY <4>1 DEF Done
    <3>2. CASE RenumberNext
      <4>1. phase = "deps" /\ phase' = "ids" /\ i' = i + 1 BY <3>2 DEF RenumberNext, To
      <4>. QED BY <4>1, <3>0, <1>5 DEF Done
    <3>3. CASE StartPull
      <4>1. phase = "ids" /\ phase' = "pull" /\ i > Len(mutates) BY <3>3 DEF StartPull, To
      <4>. QED BY <4>1, <3>0, <1>5 DEF Done
    <3>4. CASE Pull \/ StartRender \/ Render \/ Finish
      <4>1. phase \notin {"ids", "deps"} /\ phase' \notin {"ids", "deps"}
        BY <3>4 DEF Pull, StartRender, Render, Finish, To
      <4>. QED BY <4>1 DEF Done
    <3>. QED BY <1>9, <3>1, <3>2, <3>3, <3>4 DEF Later
  <2>2. ASSUME NEW k \in DOMAIN mutates
        PROVE  mutates'[k].id = mutates[k].id /\ mutates'[k].parent = mutates[k].parent
               /\ mutates'[k].x = mutates[k].x
    BY <1>9, ShapeKept
  <2>. QED BY <1>1, <1>4, <1>6, <1>7, <2>1, <2>2 DEF Renumbered
<1>. QED BY <1>8, <1>9

\* The inductive invariant for the tree.
TreeInv == MTypes /\ InLine /\ Renumbered

\* It holds at the start ...
LEMMA TreeInit == Init => TreeInv
<1>. SUFFICES ASSUME Init PROVE TreeInv
  OBVIOUS
<1>1. phase = "stack" BY DEF Init
<1>. QED BY <1>1, TypesInit, ApartInit DEF TreeInv, InLine, Renumbered

\* ... and in every step.
LEMMA TreeNext == TreeInv /\ [Next]_vars => TreeInv'
<1>. SUFFICES ASSUME TreeInv, [Next]_vars PROVE TreeInv'
  OBVIOUS
<1>1. MTypes /\ MTypes' BY TypesNext DEF TreeInv
<1>2. phase \in {"stack", "error"} => Apart /\ Linked /\ Numbered BY DEF TreeInv, InLine
<1>3. Renumbered BY DEF TreeInv
<1>4. CASE PopRendered
  <2>1. phase = "stack" /\ phase' = "stack" /\ nextId' = nextId BY <1>4 DEF PopRendered
  <2>2. Line' = Line /\ doc' = doc BY <1>1, <1>4, PopLine
  <2>3. Apart' BY <1>2, <2>1, <2>2 DEF Apart
  <2>4. Linked'
    <3>1. \A x : (Modifier(x)' <=> Modifier(x)) /\ Above(x)' = Above(x)
      BY <2>2, SameDoc DEF Above
    <3>. QED BY <1>2, <2>1, <2>2, <3>1 DEF Linked
  <2>5. Numbered' BY <1>1, <1>2, <1>4, <2>1, NumberedPop
  <2>. QED BY <1>1, <2>1, <2>3, <2>4, <2>5 DEF TreeInv, InLine, Renumbered
<1>5. CASE NewMutate
  <2>1. phase = "stack" /\ phase' = "stack" /\ UNCHANGED <<mutates, mmap>>
    BY <1>5, NewMutateIs
  <2>2. Apart' BY <1>1, <1>2, <1>5, <2>1, ApartNew
  <2>3. Linked' BY <1>1, <1>2, <1>5, <2>1, LinkedNew
  <2>4. Numbered' BY <1>2, <2>1 DEF Numbered
  <2>. QED BY <1>1, <2>1, <2>2, <2>3, <2>4 DEF TreeInv, InLine, Renumbered
<1>6. CASE Rejected \/ UNCHANGED vars
  <2>1. /\ UNCHANGED <<doc, stack, nextId, mutates, mmap, i, todo, sql>>
        /\ (phase = "stack" /\ phase' = "error") \/ phase' = phase
    BY <1>6 DEF Rejected, vars
  <2>2. Line' = Line BY <2>1 DEF Line
  <2>3. \A x : (Modifier(x)' <=> Modifier(x)) /\ Above(x)' = Above(x)
    BY <2>1, SameDoc DEF Above
  <2>4. Apart => Apart' BY <2>1, <2>2 DEF Apart
  <2>5. Linked => Linked' BY <2>2, <2>3, <2>1 DEF Linked
  <2>6. Numbered => Numbered' BY <2>1 DEF Numbered
  <2>7. InLine' BY <1>2, <2>1, <2>4, <2>5, <2>6 DEF InLine
  <2>8. Renumbered'
    <3>1. CASE phase = "stack" /\ phase' = "error" BY <3>1 DEF Renumbered
    <3>2. CASE phase' = phase
      <4>1. \A k : Done(k)' <=> Done(k) BY <2>1, <3>2 DEF Done
      <4>2. \A m, k : /\ NewNumbers(m, k)' <=> NewNumbers(m, k)
                      /\ OldNumbers(m, k)' <=> OldNumbers(m, k)
        BY <2>1, <2>3 DEF NewNumbers, OldNumbers, IsAt
      <4>. QED BY <1>3, <2>1, <3>2, <4>1, <4>2 DEF Renumbered
    <3>. QED BY <2>1, <3>1, <3>2
  <2>. QED BY <1>1, <2>7, <2>8 DEF TreeInv
<1>7. CASE StartRenumber
  <2>1. phase = "stack" /\ phase' = "ids" BY <1>7 DEF StartRenumber, To
  <2>2. Renumbered' BY <1>1, <1>2, <1>7, <2>1, RenumberedStart
  <2>. QED BY <1>1, <2>1, <2>2 DEF TreeInv, InLine
<1>8. CASE Later
  <2>1. phase' \notin {"stack", "error"} BY <1>1, <1>8, ShapeKept
  <2>. QED BY <1>1, <1>3, <1>8, <2>1, RenumberedLater DEF TreeInv, InLine
<1>. QED BY <1>4, <1>5, <1>6, <1>7, <1>8 DEF Next, Later

\* It says what TreeKept says.
LEMMA TreeInvKeepsTree == TreeInv => TreeKept
<1>. SUFFICES ASSUME TreeInv, phase \in {"pull", "render"}, NEW k \in DOMAIN mutates
              PROVE LET m == mutates[k]
                        up == doc.up[m.x]
                        above == IF up # 0 /\ Modifies(m.x) THEN doc.up[up] ELSE up
                    IN /\ m.id = k - 1
                       /\ m.parent = NoParent <=> above = 0
                       /\ above # 0 => At(m.parent).x = above
  BY DEF TreeKept
<1>1. NewNumbers(mutates[k], k) BY DEF TreeInv, Renumbered, Done
<1>. DEFINE m == mutates[k]
            above == IF doc.up[m.x] # 0 /\ Modifies(m.x) THEN doc.up[doc.up[m.x]] ELSE doc.up[m.x]
<1>2. above = Above(m.x) BY DEF Above, Modifier
<1>3. m.id = k - 1 /\ (above = 0 => m.parent = NoParent)
  BY <1>1, <1>2 DEF NewNumbers
<1>4. ASSUME above # 0 PROVE m.parent # NoParent /\ At(m.parent).x = above
  <2>1. m.parent + 1 \in DOMAIN mutates /\ mutates[m.parent + 1].x = above
    BY <1>1, <1>2, <1>4 DEF NewNumbers, IsAt
  <2>2. DOMAIN mutates = 1..Len(mutates) /\ m \in MutateSet BY LineFacts DEF TreeInv
  <2>3. m.parent \in Int BY <2>2, MutateFields
  <2>4. NoParent + 1 = 0 BY DEF NoParent
  <2>. QED BY <2>1, <2>2, <2>3, <2>4 DEF At
<1>. HIDE DEF above, m
<1>5. m.parent = NoParent <=> above = 0 BY <1>3, <1>4
<1>. QED BY <1>3, <1>4, <1>5 DEF above, m

\* For every document: whatever the order of the statements, the new numbers keep
\* its tree, and the parent of each mutate is the object that it is in, or the one
\* that is above what it connects.
THEOREM KeepsTheTree == Spec => []TreeKept
<1>1. TreeInv /\ [Next]_vars => TreeInv' BY TreeNext
<1>. QED BY <1>1, TreeInit, TreeInvKeepsTree, PTL DEF Spec

-----------------------------------------------------------------------------
(* The shape of the line.                                                   *)

\* Of the objects in the same one all modify or none does.
LEMMA UniformKids ==
  ASSUME doc \in Docs, Uniform(doc), NEW c \in Objects, NEW d \in Objects,
         doc.up[c] = doc.up[d], doc.up[c] # 0
  PROVE  Modifies(c) <=> Modifies(d)
<1>1. Objects = DOMAIN doc.up
  <2>1. doc.up \in Seq(0..MaxObjects) BY DocsAssumption
  <2>. QED BY <2>1, LenProperties DEF Objects
<1>. QED BY <1>1 DEF Uniform, Modifies

\* What an object is in comes before it, and modifies nothing.
LEMMA ParentFacts ==
  ASSUME doc \in Docs, NEW c \in Objects, doc.up[c] # 0
  PROVE  /\ doc.up[c] \in Objects /\ doc.up[c] < c /\ doc.up[c] \in Nat
         /\ ~Modifies(doc.up[c]) /\ ~Modifier(doc.up[c])
BY DocFacts DEF Modifies, Modifier

\* Something is connected to x or disconnected from it.
HasModifier(x) == \E c \in Objects : doc.up[c] = x /\ Modifies(c)

\* Then everything in x is.
LEMMA ModifierKids ==
  ASSUME doc \in Docs, Uniform(doc), NEW c \in Objects, doc.up[c] # 0
  PROVE  HasModifier(doc.up[c]) <=> Modifier(c)
<1>1. Modifies(c) => HasModifier(doc.up[c]) BY DEF HasModifier
<1>2. ASSUME HasModifier(doc.up[c]) PROVE Modifies(c)
  <2>1. PICK d \in Objects : doc.up[d] = doc.up[c] /\ Modifies(d) BY <1>2 DEF HasModifier
  <2>. QED BY <2>1, UniformKids
<1>. QED BY <1>1, <1>2 DEF Modifier

\* x comes after the object it is in.
After(x) == doc.op = "update" \/ Modifies(x) \/ doc.kind[x] = "one"

\* The type and the relation that the mutate of an object has.
TypeOf(m) ==
  IF Modifier(m.x) THEN doc.kind[m.x]
  ELSE IF m.render /\ HasModifier(m.x) THEN "none" ELSE doc.op

RelOf(x) ==
  IF doc.up[x] = 0 THEN "root"
  ELSE IF ~Modifier(x) THEN doc.kind[x]
  ELSE IF doc.up[doc.up[x]] = 0 THEN "root" ELSE doc.kind[doc.up[x]]

\* Each object is there once, what it is in was looked at, and the mutates have
\* the type and the relation of their objects.
Once == \A j, k \in DOMAIN Line : j # k => Line[j].x # Line[k].x

Closed ==
  \A k \in DOMAIN Line :
     doc.up[Line[k].x] # 0 => \E j \in DOMAIN Line : Line[j].x = doc.up[Line[k].x] /\ Line[j].render

Sorts ==
  \A k \in DOMAIN Line : Line[k].type = TypeOf(Line[k]) /\ Line[k].rel = RelOf(Line[k].x)

\* Every object is there or below one that is to be looked at.
OnLine(c) == \E k \in DOMAIN Line : Line[k].x = c

Covered ==
  doc.op # "upsert" =>
    /\ \A c \in Objects : doc.up[c] = 0 => OnLine(c)
    /\ \A j \in DOMAIN Line : Line[j].render => \A c \in Objects : doc.up[c] = Line[j].x => OnLine(c)

\* An object comes after the one it is in if its row refers to that one's.
Sequenced ==
  \A j, k \in DOMAIN Line :
     Line[j].x = doc.up[Line[k].x] => IF After(Line[k].x) THEN j < k ELSE k < j

Shape == Once /\ Closed /\ Sorts /\ Covered /\ Sequenced

\* What an object is depends on the document alone.
LEMMA RolesKept ==
  ASSUME doc' = doc
  PROVE  /\ Objects' = Objects
         /\ \A x : /\ (Modifier(x)' <=> Modifier(x)) /\ (Modifies(x)' <=> Modifies(x))
                   /\ (HasModifier(x)' <=> HasModifier(x)) /\ (After(x)' <=> After(x))
                   /\ RelOf(x)' = RelOf(x) /\ Above(x)' = Above(x)
         /\ \A m : TypeOf(m)' = TypeOf(m)
<1>1. /\ Objects' = Objects
      /\ \A x : (Modifies(x)' <=> Modifies(x)) /\ (Modifier(x)' <=> Modifier(x))
  BY SameDoc
<1>2. \A x : /\ (HasModifier(x)' <=> HasModifier(x)) /\ (After(x)' <=> After(x))
             /\ RelOf(x)' = RelOf(x) /\ Above(x)' = Above(x)
  BY <1>1 DEF HasModifier, After, RelOf, Above
<1>3. \A m : TypeOf(m)' = TypeOf(m) BY <1>1, <1>2 DEF TypeOf
<1>. QED BY <1>1, <1>2, <1>3

\* A step that changes nothing of this.
SameLine ==
  /\ doc' = doc /\ DOMAIN Line' = DOMAIN Line
  /\ \A k \in DOMAIN Line : /\ Line'[k].x = Line[k].x /\ Line'[k].type = Line[k].type
                            /\ Line'[k].rel = Line[k].rel /\ Line'[k].render = Line[k].render

\* All but NewMutate are such steps.
LEMMA LineKept ==
  ASSUME MTypes, MTypes', [Next]_vars, ~NewMutate
  PROVE  SameLine
<1>1. CASE PopRendered BY <1>1, PopLine DEF SameLine
<1>2. CASE Rejected \/ StartRenumber \/ UNCHANGED vars
  <2>1. doc' = doc /\ mutates' = mutates /\ stack' = stack
    BY <1>2 DEF Rejected, StartRenumber, vars
  <2>2. Line' = Line BY <2>1 DEF Line
  <2>. QED BY <2>1, <2>2 DEF SameLine
<1>3. CASE Later
  <2>1. /\ doc' = doc /\ stack' = stack /\ DOMAIN mutates' = DOMAIN mutates
        /\ \A k \in DOMAIN mutates :
              /\ mutates'[k].x = mutates[k].x /\ mutates'[k].type = mutates[k].type
              /\ mutates'[k].rel = mutates[k].rel /\ mutates'[k].render = mutates[k].render
    BY <1>3, ShapeKept
  <2>2. /\ Len(mutates) \in Nat /\ Len(stack) \in Nat
        /\ DOMAIN mutates = 1..Len(mutates)
        /\ DOMAIN Line = 1..(Len(mutates) + Len(stack))
    BY LineFacts DEF Size
  <2>3. Len(mutates') = Len(mutates)
    <3>1. DOMAIN mutates' = 1..Len(mutates') /\ Len(mutates') \in Nat
      <4>1. mutates' \in Seq(MutateSet') BY DEF MTypes
      <4>. QED BY <4>1, LenProperties
    <3>. DEFINE a == Len(mutates')
                b == Len(mutates)
    <3>2. a \in Nat /\ b \in Nat /\ 1..a = 1..b BY <3>1, <2>1, <2>2
    <3>. HIDE DEF a, b
    <3>3. (a >= 1 => a <= b) /\ (b >= 1 => b <= a)
      <4>1. a >= 1 => a \in 1..b BY <3>2
      <4>2. b >= 1 => b \in 1..a BY <3>2
      <4>. QED BY <4>1, <4>2, <3>2
    <3>4. a = b BY <3>2, <3>3
    <3>. QED BY <3>4 DEF a, b
  <2>4. Line' = [k \in DOMAIN Line |->
                   IF k <= Len(mutates) THEN mutates'[k]
                   ELSE stack[Len(mutates) + Len(stack) + 1 - k]]
    BY <2>1, <2>2, <2>3 DEF Line
  <2>5. Line = [k \in DOMAIN Line |->
                   IF k <= Len(mutates) THEN mutates[k]
                   ELSE stack[Len(mutates) + Len(stack) + 1 - k]]
    BY <2>2 DEF Line
  <2>6. ASSUME NEW k \in DOMAIN Line
        PROVE  /\ Line'[k].x = Line[k].x /\ Line'[k].type = Line[k].type
               /\ Line'[k].rel = Line[k].rel /\ Line'[k].render = Line[k].render
    <3>1. CASE k <= Len(mutates)
      <4>1. k \in DOMAIN mutates BY <3>1, <2>2
      <4>2. Line'[k] = mutates'[k] /\ Line[k] = mutates[k] BY <2>4, <2>5, <3>1
      <4>. QED BY <4>1, <4>2, <2>1
    <3>2. CASE ~(k <= Len(mutates))
      <4>1. Line'[k] = Line[k] BY <2>4, <2>5, <3>2
      <4>. QED BY <4>1
    <3>. QED BY <3>1, <3>2
  <2>7. DOMAIN Line' = DOMAIN Line BY <2>4
  <2>. QED BY <2>1, <2>6, <2>7 DEF SameLine
<1>. QED BY <1>1, <1>2, <1>3 DEF Next, Later

\* They keep the shape.
LEMMA ShapeOfLine ==
  ASSUME Shape, SameLine
  PROVE  Shape'
<1>. DEFINE D == DOMAIN Line
<1>1. doc' = doc /\ DOMAIN Line' = D
      /\ \A k \in D : /\ Line'[k].x = Line[k].x /\ Line'[k].type = Line[k].type
                      /\ Line'[k].rel = Line[k].rel /\ Line'[k].render = Line[k].render
  BY DEF SameLine
<1>2. /\ Objects' = Objects
      /\ \A x : /\ (Modifier(x)' <=> Modifier(x)) /\ (HasModifier(x)' <=> HasModifier(x))
                /\ (After(x)' <=> After(x)) /\ RelOf(x)' = RelOf(x)
  BY <1>1, RolesKept
<1>3. \A k \in D : TypeOf(Line[k])' = TypeOf(Line[k])
  BY <1>1, <1>2 DEF TypeOf
<1>4. Once' BY <1>1 DEF Shape, Once
<1>5. Closed' BY <1>1 DEF Shape, Closed
<1>6. Sorts' BY <1>1, <1>2, <1>3 DEF Shape, Sorts
<1>7. \A c : OnLine(c)' <=> OnLine(c) BY <1>1 DEF OnLine
<1>8. Covered' BY <1>1, <1>2, <1>7 DEF Shape, Covered
<1>9. Sequenced' BY <1>1, <1>2 DEF Shape, Sequenced
<1>. QED BY <1>4, <1>5, <1>6, <1>8, <1>9 DEF Shape

\* The shape at the start.
LEMMA ShapeInit == Init => Shape
<1>. SUFFICES ASSUME Init PROVE Shape
  OBVIOUS
<1>. DEFINE N == Len(Roots)
<1>1. doc \in Docs /\ stack = Roots /\ mutates = <<>>
  BY DEF Init
<1>2. /\ N \in Nat /\ DOMAIN Roots = 1..N /\ DOMAIN Roots = DOMAIN Kids(0)
      /\ \A k \in DOMAIN Roots :
              /\ Roots[k].x = Kids(0)[k] /\ Roots[k].x \in Objects /\ doc.up[Roots[k].x] = 0
              /\ Roots[k].type = doc.op /\ Roots[k].rel = "root" /\ Roots[k].render = FALSE
  BY <1>1, RootsFacts
<1>3. \A c \in Objects : doc.up[c] = 0 => \E k \in DOMAIN Kids(0) : Kids(0)[k] = c
  BY <1>1, KidsFacts
<1>. HIDE DEF N
<1>4. DOMAIN Line = 1..N /\ \A k \in 1..N : Line[k] = Roots[N + 1 - k] /\ N + 1 - k \in 1..N
  <2>1. Len(mutates) = 0 /\ Len(stack) = N BY <1>1 DEF N
  <2>2. Line = [k \in 1..N |-> IF k <= 0 THEN mutates[k] ELSE stack[N + 1 - k]]
    BY <2>1, <1>2 DEF Line
  <2>. QED BY <2>2, <1>1, <1>2
<1>5. \A k \in DOMAIN Line :
        /\ Line[k].x \in Objects /\ doc.up[Line[k].x] = 0
        /\ Line[k].type = doc.op /\ Line[k].rel = "root" /\ Line[k].render = FALSE
  BY <1>2, <1>4
<1>6. Once
  <2>1. Apart BY ApartInit
  <2>. QED BY <2>1 DEF Apart, Once
<1>7. Closed BY <1>5 DEF Closed
<1>8. Sorts BY <1>5 DEF Sorts, TypeOf, RelOf, Modifier
<1>9. Covered
  <2>1. ASSUME NEW c \in Objects, doc.up[c] = 0 PROVE OnLine(c)
    <3>1. PICK k \in DOMAIN Kids(0) : Kids(0)[k] = c BY <1>3, <2>1
    <3>2. k \in 1..N /\ N + 1 - k \in 1..N /\ N + 1 - (N + 1 - k) = k BY <1>2
    <3>3. Line[N + 1 - k].x = c BY <3>1, <3>2, <1>2, <1>4
    <3>. QED BY <3>2, <3>3, <1>4 DEF OnLine
  <2>. QED BY <2>1, <1>5 DEF Covered
<1>10. Sequenced
  <2>1. \A k \in DOMAIN Line : Line[k].x # 0
    BY <1>1, <1>5, DocFacts
  <2>. QED BY <2>1, <1>5 DEF Sequenced
<1>. QED BY <1>6, <1>7, <1>8, <1>9, <1>10 DEF Shape

\* The top, and the type that it gets.
LEMMA TopShape ==
  ASSUME MTypes, Uniform(doc), Linked, Sorts, stack # <<>>, ~Top.render
  PROVE  /\ ~Modifier(Top.x) /\ Top.type = doc.op /\ Top.rel = RelOf(Top.x)
         /\ TypeAfter(Top) = IF HasModifier(Top.x) THEN "none" ELSE doc.op
<1>. DEFINE n == Len(mutates) + 1
<1>1. n \in DOMAIN Line /\ Line[n] = Top /\ Top \in MutateSet BY TopFacts
<1>. HIDE DEF n
<1>2. ~Modifier(Top.x) BY <1>1 DEF Linked
<1>3. Top.type = doc.op /\ Top.rel = RelOf(Top.x) BY <1>1, <1>2 DEF Sorts, TypeOf
<1>4. (\E k \in DOMAIN Items(Top) : Modifies(Items(Top)[k].x)) <=> HasModifier(Top.x)
  <2>1. doc \in Docs /\ nextId \in Nat BY DEF MTypes
  <2>2. DOMAIN Items(Top) = DOMAIN Kids(Top.x) BY <1>1, <2>1, ItemsSeq
  <2>3. \A k \in DOMAIN Items(Top) : Items(Top)[k].x = Kids(Top.x)[k]
    BY <1>1, <2>1, ItemObject
  <2>4. /\ \A k \in DOMAIN Kids(Top.x) : doc.up[Kids(Top.x)[k]] = Top.x /\ Kids(Top.x)[k] \in Objects
        /\ \A c \in Objects : doc.up[c] = Top.x => \E k \in DOMAIN Kids(Top.x) : Kids(Top.x)[k] = c
    BY <2>1, KidsFacts
  <2>. QED BY <2>2, <2>3, <2>4 DEF HasModifier
<1>. QED BY <1>2, <1>3, <1>4 DEF TypeAfter

\* The mutates of the objects in it.
LEMMA SproutShape ==
  ASSUME MTypes, Uniform(doc), Linked, Sorts, stack # <<>>, ~Top.render,
         NEW o, NEW c, Sprouted(o, Top, c)
  PROVE  /\ o.x \in Objects /\ doc.up[o.x] = Top.x /\ doc.up[o.x] # 0
         /\ Modifies(o.x) <=> Modifier(o.x)
         /\ HasModifier(Top.x) <=> Modifies(o.x)
         /\ o.type = TypeOf(o) /\ o.rel = RelOf(o.x)
         /\ o.render <=> Modifies(o.x)
<1>1. /\ o.x \in Objects /\ doc.up[o.x] = Top.x /\ (o.render <=> Modifies(o.x))
      /\ o.rel = IF Modifies(o.x) THEN Top.rel ELSE doc.kind[o.x]
      /\ o.type = IF Modifies(o.x) THEN doc.kind[o.x]
              ELSE IF \E l \in 1..(c - 1) : Modifies(Kids(Top.x)[l]) THEN "none" ELSE Top.type
      /\ c \in DOMAIN Kids(Top.x)
  BY DEF Sprouted
<1>2. /\ ~Modifier(Top.x) /\ Top.type = doc.op /\ Top.rel = RelOf(Top.x)
  BY TopShape
<1>3. doc \in Docs BY DEF MTypes
<1>4. doc.up[o.x] # 0
  <2>1. Top.x \in Objects BY TopFacts, MutateFields
  <2>. QED BY <2>1, <1>1, <1>3, DocFacts
<1>5. Modifies(o.x) <=> Modifier(o.x) BY <1>4 DEF Modifier
<1>6. HasModifier(Top.x) <=> Modifies(o.x) BY <1>1, <1>3, <1>4, <1>5, ModifierKids
<1>7. ASSUME ~Modifies(o.x) PROVE ~\E l \in 1..(c - 1) : Modifies(Kids(Top.x)[l])
  <2>. SUFFICES ASSUME NEW l \in 1..(c - 1), Modifies(Kids(Top.x)[l]) PROVE FALSE
    OBVIOUS
  <2>1. Kids(Top.x) \in Seq(Objects) BY <1>3, KidsFacts
  <2>2. l \in DOMAIN Kids(Top.x)
    <3>1. DOMAIN Kids(Top.x) = 1..Len(Kids(Top.x)) /\ Len(Kids(Top.x)) \in Nat BY <2>1, LenProperties
    <3>. QED BY <3>1, <1>1
  <2>3. doc.up[Kids(Top.x)[l]] = Top.x /\ Kids(Top.x)[l] \in Objects
    BY <2>2, <1>3, KidsFacts
  <2>4. HasModifier(Top.x) BY <2>3 DEF HasModifier
  <2>. QED BY <2>4, <1>6, <1>7
<1>8. o.type = TypeOf(o) BY <1>1, <1>2, <1>5, <1>7 DEF TypeOf
<1>9. o.rel = RelOf(o.x) BY <1>1, <1>2, <1>4, <1>5 DEF RelOf
<1>. QED BY <1>1, <1>4, <1>5, <1>6, <1>8, <1>9

\* Nothing is in an object that modifies.
LEMMA RendersLeaf ==
  ASSUME doc \in Docs, NEW x \in Objects, Modifies(x), NEW c \in Objects
  PROVE  doc.up[c] # x
<1>1. x # 0 BY DocFacts
<1>. QED BY <1>1, ParentFacts

\* How the line grows when Top is looked at.
Grows(n, np, C, cp) ==
  /\ doc \in Docs /\ doc' = doc
  /\ n \in DOMAIN Line /\ Line[n] = Top /\ Top \in MutateSet /\ ~Top.render
  /\ ~Modifier(Top.x) /\ Top.type = doc.op /\ Top.rel = RelOf(Top.x)
  /\ \A k \in DOMAIN Line :
       /\ np[k] \in DOMAIN Line'
       /\ Line'[np[k]].x = Line[k].x /\ Line'[np[k]].rel = Line[k].rel
       /\ Line'[np[k]].id = Line[k].id
       /\ Line[k].render => Line'[np[k]].render
       /\ k # n => Line'[np[k]] = Line[k]
  /\ Line'[np[n]].render /\ Line'[np[n]] = Grown(Top)
  /\ Line'[np[n]].type = IF HasModifier(Top.x) THEN "none" ELSE doc.op
  /\ \A c \in C :
       /\ cp[c] \in DOMAIN Line' /\ Sprouted(Line'[cp[c]], Top, c)
       /\ Line'[cp[c]].x \in Objects /\ doc.up[Line'[cp[c]].x] = Top.x
       /\ Modifies(Line'[cp[c]].x) <=> Modifier(Line'[cp[c]].x)
       /\ HasModifier(Top.x) <=> Modifies(Line'[cp[c]].x)
       /\ Line'[cp[c]].type = TypeOf(Line'[cp[c]])
       /\ Line'[cp[c]].rel = RelOf(Line'[cp[c]].x)
       /\ Line'[cp[c]].render <=> Modifies(Line'[cp[c]].x)
  /\ \A j \in DOMAIN Line' : \/ \E k \in DOMAIN Line : np[k] = j
                             \/ \E c \in C : cp[c] = j
  /\ \A c \in Objects : doc.up[c] = Top.x /\ doc.op # "upsert" =>
        \E k \in C : Line'[cp[k]].x = c
  /\ doc.op = "upsert" /\ ~HasModifier(Top.x) => C = {}

\* It does that.
LEMMA NewGrows ==
  ASSUME MTypes, Uniform(doc), Apart, Linked, Sorts, NewMutate
  PROVE  \E n, np, C, cp : Spread(Top, n, np, C, cp) /\ Grows(n, np, C, cp)
<1>. DEFINE n == Len(mutates) + 1
<1>1. stack # <<>> /\ ~Top.render BY NewMutateIs
<1>2. PICK np, C, cp : Spread(Top, n, np, C, cp) BY NewLine
<1>3. Top \in MutateSet /\ n \in DOMAIN Line /\ Line[n] = Top BY <1>1, TopFacts
<1>. HIDE DEF n
<1>4. doc \in Docs /\ doc' = doc /\ nextId \in Nat BY NewLine DEF MTypes
<1>5. /\ ~Modifier(Top.x) /\ Top.type = doc.op /\ Top.rel = RelOf(Top.x)
      /\ TypeAfter(Top) = IF HasModifier(Top.x) THEN "none" ELSE doc.op
  BY <1>1, TopShape
<1>6. \A k \in DOMAIN Line :
       /\ np[k] \in DOMAIN Line'
       /\ Line'[np[k]].x = Line[k].x /\ Line'[np[k]].rel = Line[k].rel
       /\ Line'[np[k]].id = Line[k].id
       /\ Line[k].render => Line'[np[k]].render
       /\ k # n => Line'[np[k]] = Line[k]
  BY <1>2, SpreadOld
<1>7. Line'[np[n]].render /\ Line'[np[n]] = Grown(Top) BY <1>2, <1>3, SpreadOld
<1>8. Line'[np[n]].type = IF HasModifier(Top.x) THEN "none" ELSE doc.op
  BY <1>3, <1>4, <1>5, <1>7, GrownFacts
<1>9. \A c \in C : cp[c] \in DOMAIN Line' /\ Sprouted(Line'[cp[c]], Top, c)
  BY <1>2, <1>3, SpreadNew, Zenon
<1>10. ASSUME NEW c \in C
       PROVE  /\ Line'[cp[c]].x \in Objects /\ doc.up[Line'[cp[c]].x] = Top.x
              /\ Modifies(Line'[cp[c]].x) <=> Modifier(Line'[cp[c]].x)
              /\ HasModifier(Top.x) <=> Modifies(Line'[cp[c]].x)
              /\ Line'[cp[c]].type = TypeOf(Line'[cp[c]])
              /\ Line'[cp[c]].rel = RelOf(Line'[cp[c]].x)
              /\ Line'[cp[c]].render <=> Modifies(Line'[cp[c]].x)
  <2>. DEFINE o == Line'[cp[c]]
  <2>1. Sprouted(o, Top, c) BY <1>9
  <2>. HIDE DEF o
  <2>2. /\ o.x \in Objects /\ doc.up[o.x] = Top.x
        /\ Modifies(o.x) <=> Modifier(o.x)
        /\ HasModifier(Top.x) <=> Modifies(o.x)
        /\ o.type = TypeOf(o)
        /\ o.rel = RelOf(o.x)
        /\ o.render <=> Modifies(o.x)
    BY <1>1, <2>1, SproutShape
  <2>. QED BY <2>2 DEF o
<1>11. \A j \in DOMAIN Line' : \/ \E k \in DOMAIN Line : np[k] = j
                               \/ \E c \in C : cp[c] = j
  BY <1>2 DEF Spread
<1>12. doc.op \in Ops BY <1>4, DocFacts
<1>13. ASSUME NEW c \in Objects, doc.up[c] = Top.x, doc.op # "upsert"
       PROVE  \E k \in C : Line'[cp[k]].x = c
  <2>1. ASSUME TypeAfter(Top) = "insert", NEW k \in DOMAIN Items(Top)
        PROVE  Items(Top)[k].rel \in {"one", "many"}
    <3>1. ~HasModifier(Top.x) BY <2>1, <1>5
    <3>. DEFINE y == Kids(Top.x)[k]
    <3>2. y \in Objects /\ doc.up[y] = Top.x
          /\ Items(Top)[k].rel = IF Modifies(y) THEN Top.rel ELSE doc.kind[y]
      <4>1. DOMAIN Items(Top) = DOMAIN Kids(Top.x) BY <1>3, <1>4, ItemsSeq
      <4>2. y \in Objects /\ doc.up[y] = Top.x BY <2>1, <4>1, <1>4, KidsFacts
      <4>3. Items(Top)[k].rel = IF Modifies(y) THEN Top.rel ELSE doc.kind[y]
        BY <1>3, <1>4, <2>1, ItemFacts
      <4>. QED BY <4>2, <4>3
    <3>. HIDE DEF y
    <3>3. ~Modifies(y) BY <3>1, <3>2 DEF HasModifier
    <3>4. doc.kind[y] \in Kinds BY <1>4, <3>2, DocFacts
    <3>. QED BY <3>2, <3>3, <3>4 DEF Kinds, Modifies
  <2>2. C = DOMAIN Items(Top)
    <3>1. TypeAfter(Top) # "upsert" BY <1>5, <1>13
    <3>. QED BY <1>2, <2>1, <3>1 DEF Spread
  <2>3. PICK k \in DOMAIN Kids(Top.x) : Kids(Top.x)[k] = c BY <1>4, <1>13, KidsFacts
  <2>4. k \in C BY <1>3, <1>4, <2>2, <2>3, ItemsSeq
  <2>5. Line'[cp[k]].x = Kids(Top.x)[k] BY <1>9, <2>4 DEF Sprouted
  <2>. QED BY <2>3, <2>4, <2>5
<1>14. doc.op = "upsert" /\ ~HasModifier(Top.x) => C = {}
  BY <1>2, <1>5 DEF Spread
<1>. HIDE DEF n
<1>15. Grows(n, np, C, cp)
  BY <1>1, <1>3, <1>4, <1>5, <1>6, <1>7, <1>8, <1>9, <1>10, <1>11, <1>13, <1>14, Zenon DEF Grows
<1>. QED BY <1>2, <1>15

\* The new mutates have their types.
LEMMA SortsNew ==
  ASSUME MTypes, Sorts, NEW n, NEW np, NEW C, NEW cp, Grows(n, np, C, cp)
  PROVE  Sorts'
<1>1. doc' = doc /\ n \in DOMAIN Line /\ Line[n] = Top /\ ~Modifier(Top.x)
      /\ Top.rel = RelOf(Top.x)
  BY DEF Grows
<1>2. \A m : TypeOf(m)' = TypeOf(m) BY <1>1, RolesKept
<1>3. \A x : RelOf(x)' = RelOf(x) BY <1>1, RolesKept
<1>. DEFINE Good(k) == Line'[k].type = TypeOf(Line'[k]) /\ Line'[k].rel = RelOf(Line'[k].x)
<1>4. ASSUME NEW k \in DOMAIN Line PROVE Good(np[k])
  <2>1. Line'[np[k]].x = Line[k].x /\ Line'[np[k]].rel = Line[k].rel BY DEF Grows
  <2>2. Line[k].rel = RelOf(Line[k].x) BY DEF Sorts
  <2>3. CASE k # n
    <3>1. Line'[np[k]] = Line[k] BY <2>3 DEF Grows
    <3>. QED BY <3>1 DEF Sorts
  <2>4. CASE k = n
    <3>1. Line'[np[n]].type = (IF HasModifier(Top.x) THEN "none" ELSE doc.op) /\ Line'[np[n]].render
          /\ Line'[np[n]].x = Top.x
      BY <1>1, <2>1, <2>4 DEF Grows
    <3>2. Line'[np[n]].type = TypeOf(Line'[np[n]]) BY <1>1, <3>1 DEF TypeOf
    <3>. QED BY <2>1, <2>2, <2>4, <3>2
  <2>. QED BY <2>3, <2>4
<1>5. \A c \in C : Good(cp[c]) BY DEF Grows
<1>6. ASSUME NEW k \in DOMAIN Line' PROVE Good(k)
  <2>1. (\E l \in DOMAIN Line : np[l] = k) \/ (\E c \in C : cp[c] = k) BY DEF Grows
  <2>. HIDE DEF Good
  <2>. QED BY <1>4, <1>5, <2>1
<1>7. ASSUME NEW k \in DOMAIN Line'
      PROVE  Line'[k].type = TypeOf(Line[k])' /\ Line'[k].rel = RelOf(Line[k].x)'
  <2>1. /\ \A x : (Modifier(x)' <=> Modifier(x)) /\ (HasModifier(x)' <=> HasModifier(x))
        /\ doc' = doc
    BY <1>1, RolesKept
  <2>2. Line'[k].type = TypeOf(Line'[k]) /\ Line'[k].rel = RelOf(Line'[k].x) BY <1>6
  <2>3. Line'[k].type = TypeOf(Line[k])' BY <2>1, <2>2 DEF TypeOf
  <2>4. Line'[k].rel = RelOf(Line[k].x)' BY <2>1, <2>2 DEF RelOf
  <2>. QED BY <2>3, <2>4
<1>. QED BY <1>7 DEF Sorts

\* No object in the top is forgotten.
LEMMA CoveredNew ==
  ASSUME MTypes, Covered, NEW n, NEW np, NEW C, NEW cp, Grows(n, np, C, cp)
  PROVE  Covered'
<1>1. doc \in Docs /\ doc' = doc /\ n \in DOMAIN Line /\ Line[n] = Top BY DEF Grows
<1>2. Objects' = Objects BY <1>1, RolesKept
<1>3. ASSUME NEW c, OnLine(c) PROVE OnLine(c)'
  <2>1. PICK k \in DOMAIN Line : Line[k].x = c BY <1>3 DEF OnLine
  <2>2. np[k] \in DOMAIN Line' /\ Line'[np[k]].x = c BY <2>1 DEF Grows
  <2>. QED BY <2>2 DEF OnLine
<1>. SUFFICES ASSUME doc.op # "upsert" 
     PROVE /\ \A c \in Objects : doc.up[c] = 0 => OnLine(c)'
           /\ \A j \in DOMAIN Line' : Line'[j].render =>
                \A c \in Objects : doc.up[c] = Line'[j].x => OnLine(c)'
  BY <1>1, <1>2 DEF Covered
<1>4. \A c \in Objects : doc.up[c] = 0 => OnLine(c)' BY <1>3 DEF Covered
<1>5. ASSUME NEW c \in Objects, doc.up[c] = Top.x PROVE OnLine(c)'
  <2>1. PICK k \in C : Line'[cp[k]].x = c BY <1>5 DEF Grows
  <2>2. cp[k] \in DOMAIN Line' BY DEF Grows
  <2>. QED BY <2>1, <2>2 DEF OnLine
<1>6. ASSUME NEW j \in DOMAIN Line', Line'[j].render, NEW c \in Objects, doc.up[c] = Line'[j].x
      PROVE  OnLine(c)'
  <2>1. ASSUME NEW k \in DOMAIN Line, np[k] = j PROVE OnLine(c)'
    <3>1. CASE k = n
      <4>1. Line'[j].x = Top.x BY <1>1, <2>1, <3>1 DEF Grows
      <4>. QED BY <4>1, <1>5, <1>6
    <3>2. CASE k # n
      <4>1. Line'[j] = Line[k] BY <2>1, <3>2 DEF Grows
      <4>2. OnLine(c) BY <4>1, <1>6 DEF Covered
      <4>. QED BY <4>2, <1>3
    <3>. QED BY <3>1, <3>2
  <2>2. ASSUME NEW k \in C, cp[k] = j PROVE FALSE
    <3>1. Line'[j].x \in Objects /\ Modifies(Line'[j].x) BY <1>6, <2>2 DEF Grows
    <3>. QED BY <3>1, <1>1, <1>6, RendersLeaf
  <2>3. (\E k \in DOMAIN Line : np[k] = j) \/ (\E k \in C : cp[k] = j) BY DEF Grows
  <2>. QED BY <2>1, <2>2, <2>3
<1>. QED BY <1>4, <1>6

\* Each comes on its side of the top.
LEMMA SequencedNew ==
  ASSUME MTypes, Uniform(doc), Apart, Linked, Shape, stack # <<>>,
         NEW n, NEW np, NEW C, NEW cp, Spread(Top, n, np, C, cp), Grows(n, np, C, cp)
  PROVE  Sequenced'
<1>1. /\ doc \in Docs /\ doc' = doc /\ n \in DOMAIN Line /\ Line[n] = Top /\ Top \in MutateSet
      /\ ~Top.render
  BY DEF Grows
<1>2. \A x : After(x)' <=> After(x) BY <1>1, RolesKept
<1>3. DOMAIN Line = 1..Size /\ Size \in Nat BY LineFacts
<1>4. \A c \in C : /\ Line'[cp[c]].x \in Objects /\ doc.up[Line'[cp[c]].x] = Top.x
                   /\ HasModifier(Top.x) <=> Modifies(Line'[cp[c]].x)
                   /\ Modifies(Line'[cp[c]].x) <=> Modifier(Line'[cp[c]].x)
                   /\ cp[c] \in DOMAIN Line' /\ Sprouted(Line'[cp[c]], Top, c)
  BY DEF Grows
<1>5. \A k \in DOMAIN Line : np[k] \in DOMAIN Line' /\ Line'[np[k]].x = Line[k].x
  BY DEF Grows
<1>6. \A k \in DOMAIN Line : doc.up[Line[k].x] # Top.x BY <1>1, FreshKids
<1>7. Top.x \in Objects /\ Top.x # 0
  <2>1. Top.x \in Objects BY <1>1, MutateFields
  <2>. QED BY <2>1, <1>1, DocFacts
<1>. DEFINE Good(j, k) == Line'[j].x = doc.up[Line'[k].x] =>
                             IF After(Line'[k].x) THEN j < k ELSE k < j
<1>8. ASSUME NEW j \in DOMAIN Line, NEW k \in DOMAIN Line PROVE Good(np[j], np[k])
  <2>. SUFFICES ASSUME Line[j].x = doc.up[Line[k].x]
                PROVE  IF After(Line[k].x) THEN np[j] < np[k] ELSE np[k] < np[j]
    BY <1>5
  <2>1. IF After(Line[k].x) THEN j < k ELSE k < j BY DEF Shape, Sequenced
  <2>2. (j < k => np[j] < np[k]) /\ (k < j => np[k] < np[j]) BY DEF Spread
  <2>. QED BY <2>1, <2>2
<1>9. ASSUME NEW j \in DOMAIN Line, NEW c \in C PROVE Good(np[j], cp[c])
  <2>. SUFFICES ASSUME Line[j].x = Top.x
                PROVE  IF After(Line'[cp[c]].x) THEN np[j] < cp[c] ELSE cp[c] < np[j]
    BY <1>4, <1>5
  <2>1. j = n BY <1>1 DEF Shape, Once
  <2>. DEFINE o == Line'[cp[c]]
  <2>2. IF TypeAfter(Top) = "insert" /\ Items(Top)[c].rel = "many"
        THEN cp[c] < np[n] ELSE np[n] < cp[c]
    BY DEF Spread
  <2>3. /\ o.rel = Items(Top)[c].rel
        /\ o.rel = IF Modifies(o.x) THEN Top.rel ELSE doc.kind[o.x]
        /\ HasModifier(Top.x) <=> Modifies(o.x)
        /\ o.x \in Objects
    <3>1. Sprouted(o, Top, c) /\ (HasModifier(Top.x) <=> Modifies(o.x)) /\ o.x \in Objects
      BY <1>4
    <3>. HIDE DEF o
    <3>. QED BY <3>1 DEF Sprouted
  <2>4. TypeAfter(Top) = IF HasModifier(Top.x) THEN "none" ELSE doc.op
    BY <1>1, TopShape DEF Shape
  <2>5. doc.kind[o.x] \in Kinds /\ doc.op \in Ops BY <1>1, <2>3, DocFacts
  <2>6. doc.op = "upsert" => HasModifier(Top.x) BY DEF Grows
  <2>9. doc.op # "delete" BY <1>1, <1>4, NotDeleted
  <2>. HIDE DEF o
  <2>7. CASE Modifies(o.x)
    <3>1. TypeAfter(Top) = "none" /\ After(o.x) BY <2>3, <2>4, <2>7 DEF After
    <3>. QED BY <2>1, <2>2, <3>1 DEF o
  <2>8. CASE ~Modifies(o.x)
    <3>1. o.rel = doc.kind[o.x] /\ TypeAfter(Top) = doc.op /\ doc.kind[o.x] \in {"one", "many"}
          /\ doc.op \in {"insert", "update"}
      BY <2>3, <2>4, <2>5, <2>6, <2>8, <2>9 DEF Modifies, Kinds, Ops
    <3>2. After(o.x) <=> ~(TypeAfter(Top) = "insert" /\ Items(Top)[c].rel = "many")
      BY <2>3, <2>8, <3>1 DEF After
    <3>. QED BY <2>1, <2>2, <3>2 DEF o
  <2>. QED BY <2>7, <2>8
<1>10. ASSUME NEW c \in C, NEW k \in DOMAIN Line PROVE Good(cp[c], np[k])
  <2>. SUFFICES ASSUME Line'[cp[c]].x = doc.up[Line[k].x] PROVE FALSE
    BY <1>5
  <2>1. Line'[cp[c]].x # 0 BY <1>1, <1>4, DocFacts
  <2>2. \E j \in DOMAIN Line : Line[j].x = Line'[cp[c]].x BY <2>1 DEF Shape, Closed
  <2>. QED BY <2>2, <1>4, <1>6
<1>11. ASSUME NEW c \in C, NEW d \in C PROVE Good(cp[c], cp[d])
  <2>. SUFFICES ASSUME Line'[cp[c]].x = Top.x PROVE FALSE
    BY <1>4
  <2>. QED BY <1>1, <1>4, <1>7, DocFacts
<1>12. ASSUME NEW j \in DOMAIN Line', NEW k \in DOMAIN Line' PROVE Good(j, k)
  <2>1. (\E l \in DOMAIN Line : np[l] = k) \/ (\E c \in C : cp[c] = k) BY DEF Grows
  <2>2. (\E l \in DOMAIN Line : np[l] = j) \/ (\E c \in C : cp[c] = j) BY DEF Grows
  <2>. HIDE DEF Good
  <2>. QED BY <1>8, <1>9, <1>10, <1>11, <2>1, <2>2
<1>. QED BY <1>1, <1>2, <1>12 DEF Sequenced

\* The inductive invariant for the order.
ShapeInv == TreeInv /\ Shape

\* It holds in every step.
LEMMA ShapeNext ==
  ASSUME ShapeInv, Uniform(doc), [Next]_vars
  PROVE  ShapeInv'
<1>1. TreeInv' /\ MTypes /\ MTypes' BY TreeNext DEF ShapeInv, TreeInv
<1>2. CASE ~NewMutate BY <1>1, <1>2, LineKept, ShapeOfLine DEF ShapeInv
<1>3. CASE NewMutate
  <2>1. phase = "stack" /\ phase' = "stack" /\ stack # <<>> BY <1>3, NewMutateIs
  <2>2. Apart /\ Linked /\ Apart' /\ Linked' BY <1>1, <2>1 DEF ShapeInv, TreeInv, InLine
  <2>3. PICK n, np, C, cp : Spread(Top, n, np, C, cp) /\ Grows(n, np, C, cp)
    BY <1>1, <1>3, <2>2, NewGrows DEF ShapeInv, Shape
  <2>4. Once' BY <2>2 DEF Apart, Once
  <2>5. Closed' BY <2>2 DEF Linked, Closed
  <2>6. Sorts' BY <1>1, <2>3, SortsNew DEF ShapeInv, Shape
  <2>7. Covered' BY <1>1, <2>3, CoveredNew DEF ShapeInv, Shape
  <2>8. Sequenced' BY <1>1, <2>1, <2>2, <2>3, SequencedNew DEF ShapeInv
  <2>. QED BY <1>1, <2>4, <2>5, <2>6, <2>7, <2>8 DEF ShapeInv, Shape
<1>. QED BY <1>2, <1>3

-----------------------------------------------------------------------------
(* The dependencies, on the line.                                           *)

\* The statement of x may take columns of that of y.
Source(x, y) ==
  \/ ~Modifier(x) /\ doc.up[x] # 0 /\ y = doc.up[x] /\ After(x)
  \/ Modifier(x) /\ y = Above(x) /\ y # 0 /\ After(doc.up[x])
  \/ doc.up[y] = x /\ ~After(y)

\* A mutate on the line has the number d, and its object may be a source of x.
SourceOnLine(L, x, d) == \E j \in DOMAIN L : L[j].id = d /\ Source(x, L[j].x)
KidOnLine(L, x, d) == \E j \in DOMAIN L : L[j].id = d /\ doc.up[L[j].x] = x

\* m depends on mutates that may be its sources; one of type none has the numbers of
\* its children.
Drawn(L, m) ==
  /\ m.type # "none" => \A d \in m.deps : SourceOnLine(L, m.x, d)
  /\ m.type = "none" => \A l \in DOMAIN m.children : KidOnLine(L, m.x, m.children[l])
  /\ ~m.render => m.deps = {}

DepsInLine == phase \in {"stack", "error"} => \A k \in DOMAIN Line : Drawn(Line, Line[k])

\* The roots depend on nothing.
LEMMA DrawnInit == Init => DepsInLine
<1>. SUFFICES ASSUME Init, NEW k \in DOMAIN Line PROVE Drawn(Line, Line[k])
  BY DEF DepsInLine
<1>. DEFINE N == Len(Roots)
<1>1. doc \in Docs /\ stack = Roots /\ mutates = <<>>
  BY DEF Init
<1>2. /\ N \in Nat /\ DOMAIN Roots = 1..N
      /\ \A j \in DOMAIN Roots : Roots[j].deps = {} /\ Roots[j].children = <<>>
  BY <1>1, RootsFacts
<1>. HIDE DEF N
<1>4. Line[k] = Roots[N + 1 - k] /\ N + 1 - k \in 1..N
  <2>1. Len(mutates) = 0 /\ Len(stack) = N BY <1>1 DEF N
  <2>2. Line = [j \in 1..N |-> IF j <= 0 THEN mutates[j] ELSE stack[N + 1 - j]]
    BY <2>1, <1>2 DEF Line
  <2>3. k \in 1..N BY <2>2
  <2>. QED BY <2>2, <2>3, <1>1, <1>2
<1>5. Line[k].deps = {} /\ Line[k].children = <<>> BY <1>2, <1>4
<1>. QED BY <1>5 DEF Drawn

\* The parent of a mutate that is one or many is the object it is in.
LEMMA ParentSource ==
  ASSUME MTypes, Linked, NEW n \in DOMAIN Line, Line[n] = Top, ~Modifier(Top.x),
         Top.rel = RelOf(Top.x), Top.rel \in {"one", "many"}
  PROVE  /\ doc.up[Top.x] # 0 /\ Above(Top.x) = doc.up[Top.x]
         /\ doc.kind[Top.x] = Top.rel
         /\ \E j \in DOMAIN Line : Line[j].id = Top.parent /\ Line[j].x = doc.up[Top.x]
<1>1. doc.up[Top.x] # 0 BY DEF RelOf
<1>2. Above(Top.x) = doc.up[Top.x] BY DEF Above
<1>3. doc.kind[Top.x] = Top.rel BY <1>1 DEF RelOf
<1>. QED BY <1>1, <1>2, <1>3 DEF Linked

\* The mutate of each object in the top is pushed.
LEMMA KidPushed ==
  ASSUME MTypes, NEW n, NEW np, NEW C, NEW cp,
         Spread(Top, n, np, C, cp), Grows(n, np, C, cp),
         NEW c \in DOMAIN Items(Top), doc.op # "upsert"
  PROVE  /\ c \in C /\ Line'[cp[c]].id = Items(Top)[c].id
         /\ cp[c] \in DOMAIN Line'
         /\ Line'[cp[c]].rel = Items(Top)[c].rel
         /\ doc.up[Line'[cp[c]].x] = Top.x
<1>1. doc \in Docs /\ nextId \in Nat /\ Top \in MutateSet BY DEF MTypes, Grows
<1>2. c \in DOMAIN Kids(Top.x) BY <1>1, ItemsSeq
<1>3. Kids(Top.x)[c] \in Objects /\ doc.up[Kids(Top.x)[c]] = Top.x BY <1>1, <1>2, KidsFacts
<1>4. PICK k \in C : Line'[cp[k]].x = Kids(Top.x)[c] BY <1>3 DEF Grows
<1>5. \A d \in C : /\ cp[d] \in DOMAIN Line' /\ Sprouted(Line'[cp[d]], Top, d)
                   /\ doc.up[Line'[cp[d]].x] = Top.x
  BY DEF Grows
<1>6. \A d \in C : /\ d \in DOMAIN Kids(Top.x) /\ Line'[cp[d]].x = Kids(Top.x)[d]
                   /\ Line'[cp[d]].id = nextId + d - 1
                   /\ Line'[cp[d]].rel = Items(Top)[d].rel
  BY <1>5 DEF Sprouted
<1>7. k = c BY <1>1, <1>2, <1>4, <1>6, KidsFacts
<1>8. Items(Top)[c].id = nextId + c - 1
  <2>. DEFINE v == Items(Top)[c]
  <2>1. v.id = nextId + c - 1 BY <1>1, ItemFacts
  <2>. QED BY <2>1
<1>. QED BY <1>4, <1>5, <1>6, <1>7, <1>8

\* addTablesAndColumns gives the top and the new mutates dependencies that may be.
LEMMA DrawnNew ==
  ASSUME MTypes, Uniform(doc), Linked, Shape, NewMutate, \A k \in DOMAIN Line : Drawn(Line, Line[k]),
         NEW n, NEW np, NEW C, NEW cp, Spread(Top, n, np, C, cp), Grows(n, np, C, cp)
  PROVE  \A k \in DOMAIN Line' : Drawn(Line, Line[k])'
<1>1. /\ doc \in Docs /\ doc' = doc /\ n \in DOMAIN Line /\ Line[n] = Top /\ Top \in MutateSet
      /\ ~Top.render /\ ~Modifier(Top.x) /\ Top.rel = RelOf(Top.x) /\ Top.type = doc.op
  BY DEF Grows
<1>2. stack # <<>> /\ ~Unknown(Top) BY NewMutateIs
<1>3. TypeAfter(Top) = IF HasModifier(Top.x) THEN "none" ELSE doc.op
  BY <1>1, <1>2, TopShape DEF Shape
<1>4. /\ \A x : /\ (Modifier(x)' <=> Modifier(x)) /\ (After(x)' <=> After(x))
                /\ Above(x)' = Above(x)
  BY <1>1, RolesKept
<1>5. \A k \in DOMAIN Line : /\ np[k] \in DOMAIN Line' /\ Line'[np[k]].x = Line[k].x
                             /\ Line'[np[k]].id = Line[k].id
  BY DEF Grows
<1>6. ASSUME NEW x, NEW d, NEW j \in DOMAIN Line', Line'[j].id = d, Source(x, Line'[j].x)
      PROVE  SourceOnLine(Line', x, d)
  BY <1>6 DEF SourceOnLine
<1>7. ASSUME NEW x, NEW d, NEW j \in DOMAIN Line', Line'[j].id = d, doc.up[Line'[j].x] = x
      PROVE  KidOnLine(Line', x, d)
  BY <1>7 DEF KidOnLine
<1>8. ASSUME NEW x, NEW d, SourceOnLine(Line, x, d) PROVE SourceOnLine(Line', x, d)
  <2>1. PICK j \in DOMAIN Line : Line[j].id = d /\ Source(x, Line[j].x) BY <1>8 DEF SourceOnLine
  <2>2. np[j] \in DOMAIN Line' /\ Line'[np[j]].id = d /\ Source(x, Line'[np[j]].x) BY <1>5, <2>1
  <2>. QED BY <1>6, <2>2
<1>9. ASSUME NEW x, NEW d, KidOnLine(Line, x, d) PROVE KidOnLine(Line', x, d)
  <2>1. PICK j \in DOMAIN Line : Line[j].id = d /\ doc.up[Line[j].x] = x BY <1>9 DEF KidOnLine
  <2>2. np[j] \in DOMAIN Line' /\ Line'[np[j]].id = d /\ doc.up[Line'[np[j]].x] = x BY <1>5, <2>1
  <2>. QED BY <1>7, <2>2
<1>10. ASSUME NEW k \in DOMAIN Line, k # n PROVE Drawn(Line', Line'[np[k]])
  <2>1. Line'[np[k]] = Line[k] BY <1>10 DEF Grows
  <2>2. Drawn(Line, Line[k]) OBVIOUS
  <2>3. Drawn(Line', Line[k]) BY <2>2, <1>8, <1>9 DEF Drawn
  <2>. QED BY <2>1, <2>3
<1>11. Drawn(Line', Line'[np[n]])
  <2>. DEFINE m == Grown(Top)
  <2>1. Line'[np[n]] = m BY DEF Grows
  <2>2. /\ m.x = Top.x /\ m.render /\ m.type = TypeAfter(Top)
        /\ m.deps = Top.deps \cup DependsOn(Typed(Top), Items(Top))
        /\ m.children = [k \in DOMAIN Items(Top) |-> Items(Top)[k].id]
    BY <1>1, GrownFacts DEF MTypes
  <2>3. Typed(Top).type = TypeAfter(Top) /\ Typed(Top).rel = Top.rel /\ Typed(Top).parent = Top.parent
    BY <1>1, TypedFacts DEF MTypes
  <2>4. Top.deps = {} BY <1>1 DEF Drawn
  <2>. HIDE DEF m
  <2>5. ASSUME m.type # "none", NEW d \in m.deps PROVE SourceOnLine(Line', m.x, d)
    <3>1. ~HasModifier(Top.x) /\ TypeAfter(Top) = doc.op BY <2>2, <2>5, <1>3
    <3>2. d \in DependsOn(Typed(Top), Items(Top)) BY <2>2, <2>4, <2>5
    <3>3. \/ /\ d = Top.parent
             /\ Top.rel = "one" \/ (doc.op = "update" /\ Top.rel \in {"one", "many"})
          \/ doc.op = "insert" /\ d \in IdsOf(OfRel(Items(Top), "many"))
      <4>. DEFINE T == Typed(Top)
                  I == IdsOf(OfRel(Items(Top), "many"))
      <4>1. T.type = doc.op /\ T.rel = Top.rel /\ T.parent = Top.parent BY <2>3, <3>1
      <4>2. d \in DependsOn(T, Items(Top)) BY <3>2
      <4>3. DependsOn(T, Items(Top)) =
              LET above == IF T.rel = "one" THEN {T.parent} ELSE {}
              IN CASE T.type = "insert" -> above \cup I
                   [] T.type = "update" -> IF T.rel \in {"one", "many"} THEN {T.parent} ELSE {}
                   [] OTHER             -> above
        BY Zenon DEF DependsOn
      <4>. HIDE DEF T, I
      <4>4. CASE T.type = "insert" BY <4>1, <4>2, <4>3, <4>4 DEF I
      <4>5. CASE T.type = "update" BY <4>1, <4>2, <4>3, <4>5
      <4>6. CASE T.type \notin {"insert", "update"} BY <4>1, <4>2, <4>3, <4>6
      <4>. QED BY <4>4, <4>5, <4>6
    <3>4. CASE d = Top.parent /\ (Top.rel = "one" \/ (doc.op = "update" /\ Top.rel \in {"one", "many"}))
      <4>1. Top.rel \in {"one", "many"} BY <3>4
      <4>2. /\ doc.up[Top.x] # 0 /\ doc.kind[Top.x] = Top.rel
            /\ \E j \in DOMAIN Line : Line[j].id = Top.parent /\ Line[j].x = doc.up[Top.x]
        BY <1>1, <4>1, ParentSource
      <4>3. Source(Top.x, doc.up[Top.x]) BY <1>1, <3>4, <4>2 DEF Source, After
      <4>4. SourceOnLine(Line, Top.x, d) BY <3>4, <4>2, <4>3 DEF SourceOnLine
      <4>. QED BY <4>4, <1>8, <2>2
    <3>5. CASE doc.op = "insert" /\ d \in IdsOf(OfRel(Items(Top), "many"))
      <4>. DEFINE w == OfRel(Items(Top), "many")
      <4>1. PICK j \in DOMAIN w : d = w[j].id BY <3>5 DEF IdsOf
      <4>2. Items(Top) \in Seq(MutateSet) BY <1>1, ItemsSeq DEF MTypes
      <4>3. PICK c \in DOMAIN Items(Top) : w[j] = Items(Top)[c] /\ Items(Top)[c].rel = "many"
        <5>1. PICK g \in [DOMAIN w -> DOMAIN Items(Top)] :
                 \A l \in DOMAIN w : w[l] = Items(Top)[g[l]] /\ Items(Top)[g[l]].rel = "many"
          BY <4>2, OfRelFacts
        <5>. HIDE DEF w
        <5>2. g[j] \in DOMAIN Items(Top) BY <5>1
        <5>. QED BY <5>1, <5>2
      <4>4. /\ c \in C /\ Line'[cp[c]].id = d /\ cp[c] \in DOMAIN Line'
            /\ Line'[cp[c]].rel = "many" /\ doc.up[Line'[cp[c]].x] = Top.x
        BY <3>5, <4>1, <4>3, KidPushed
      <4>5. ~Modifies(Line'[cp[c]].x) /\ Line'[cp[c]].rel = RelOf(Line'[cp[c]].x)
            /\ ~Modifier(Line'[cp[c]].x)
        BY <3>1, <4>4 DEF Grows
      <4>6. doc.kind[Line'[cp[c]].x] = "many"
        <5>. DEFINE y == Line'[cp[c]].x
        <5>1. RelOf(y) = "many" /\ ~Modifier(y) BY <4>4, <4>5
        <5>. HIDE DEF y
        <5>2. doc.kind[y] = "many" BY <5>1 DEF RelOf
        <5>. QED BY <5>2 DEF y
      <4>7. ~After(Line'[cp[c]].x) BY <3>5, <4>5, <4>6 DEF After
      <4>8. Source(Top.x, Line'[cp[c]].x) BY <4>4, <4>7 DEF Source
      <4>. QED BY <4>4, <4>8, <1>6, <2>2
    <3>. QED BY <3>3, <3>4, <3>5
  <2>6. ASSUME m.type = "none", NEW l \in DOMAIN m.children PROVE KidOnLine(Line', m.x, m.children[l])
    <3>1. HasModifier(Top.x)
      <4>1. doc.op \in Ops BY <1>1, DocFacts
      <4>. QED BY <4>1, <2>2, <2>6, <1>3 DEF Ops
    <3>2. l \in DOMAIN Items(Top) /\ m.children[l] = Items(Top)[l].id BY <2>2, <2>6
    <3>3. doc.op # "upsert"
      <4>1. PICK c \in Objects : doc.up[c] = Top.x /\ Modifies(c) BY <3>1 DEF HasModifier
      <4>2. PICK k \in DOMAIN Kids(Top.x) : Kids(Top.x)[k] = c
        <5>. DEFINE x == Top.x
        <5>1. c \in Objects /\ doc.up[c] = x BY <4>1
        <5>. HIDE DEF x
        <5>2. \A d \in Objects : doc.up[d] = x => \E k \in DOMAIN Kids(x) : Kids(x)[k] = d
          BY <1>1, KidsFacts
        <5>3. \E k \in DOMAIN Kids(x) : Kids(x)[k] = c BY <5>1, <5>2
        <5>. QED BY <5>3 DEF x
      <4>3. k \in DOMAIN Items(Top) /\ Items(Top)[k].x = c
        BY <1>1, <4>2, ItemsSeq, ItemObject DEF MTypes
      <4>. QED BY <1>2, <4>1, <4>3 DEF Unknown
    <3>4. cp[l] \in DOMAIN Line' /\ Line'[cp[l]].id = m.children[l] /\ doc.up[Line'[cp[l]].x] = Top.x
      BY <3>2, <3>3, KidPushed
    <3>. QED BY <3>4, <1>7, <2>2
  <2>7. Drawn(Line', m) BY <2>2, <2>5, <2>6 DEF Drawn
  <2>. QED BY <2>1, <2>7
<1>12. ASSUME NEW c \in C PROVE Drawn(Line', Line'[cp[c]])
  <2>0. PICK o : o = Line'[cp[c]] OBVIOUS
  <2>1. /\ Sprouted(o, Top, c) /\ o.x \in Objects /\ doc.up[o.x] = Top.x
        /\ Modifies(o.x) <=> Modifier(o.x)
        /\ HasModifier(Top.x) <=> Modifies(o.x)
        /\ o.render <=> Modifies(o.x)
        /\ doc.op = "upsert" => HasModifier(Top.x)
        /\ o.type = TypeOf(o)
    BY <2>0 DEF Grows
  <2>2. /\ o.children = <<>>
        /\ o.rel = IF Modifies(o.x) THEN Top.rel ELSE doc.kind[o.x]
        /\ o.deps = IF TypeAfter(Top) \notin {"insert", "update"} /\ o.rel = "one"
                    THEN {Top.parent} ELSE {}
    BY <2>1 DEF Sprouted
  <2>6. o.type # "none"
    <3>1. o.type = TypeOf(o) BY <2>1
    <3>2. doc.op \in Ops /\ doc.kind[o.x] \in Kinds BY <1>1, <2>1, DocFacts
    <3>. QED BY <2>1, <3>1, <3>2 DEF TypeOf, Ops, Kinds
  <2>3. CASE o.deps = {} BY <2>0, <2>2, <2>3, <2>6 DEF Drawn
  <2>4. CASE o.deps # {}
    <3>1. o.deps = {Top.parent} /\ o.rel = "one" /\ TypeAfter(Top) \notin {"insert", "update"}
      BY <2>2, <2>4
    <3>2. HasModifier(Top.x)
      <4>1. doc.op \in Ops /\ doc.op # "delete" BY <1>1, <2>1, DocFacts, NotDeleted
      <4>. QED BY <4>1, <3>1, <2>1, <1>3 DEF Ops
    <3>3. Modifier(o.x) /\ o.render /\ Top.rel = "one" BY <3>1, <3>2, <2>1, <2>2
    <3>4. /\ doc.up[Top.x] # 0 /\ doc.kind[Top.x] = "one"
          /\ \E j \in DOMAIN Line : Line[j].id = Top.parent /\ Line[j].x = doc.up[Top.x]
      BY <1>1, <3>3, ParentSource
    <3>5. Above(o.x) = doc.up[Top.x] BY <2>1, <3>3 DEF Above
    <3>6. Source(o.x, doc.up[Top.x]) BY <2>1, <3>3, <3>4, <3>5 DEF Source, After
    <3>7. SourceOnLine(Line, o.x, Top.parent) BY <3>4, <3>6 DEF SourceOnLine
    <3>8. SourceOnLine(Line', o.x, Top.parent) BY <3>7, <1>8
    <3>. QED BY <2>0, <2>2, <2>6, <3>1, <3>3, <3>8 DEF Drawn
  <2>. QED BY <2>3, <2>4
<1>13. ASSUME NEW k \in DOMAIN Line' PROVE Drawn(Line', Line'[k])
  <2>1. (\E l \in DOMAIN Line : np[l] = k) \/ (\E c \in C : cp[c] = k) BY DEF Grows
  <2>. QED BY <1>10, <1>11, <1>12, <2>1
<1>14. ASSUME NEW k \in DOMAIN Line' PROVE Drawn(Line, Line[k])'
  <2>1. Drawn(Line', Line'[k]) BY <1>13
  <2>2. \A x, y : Source(x, y)' <=> Source(x, y) BY <1>1, <1>4 DEF Source
  <2>3. \A x, d : /\ SourceOnLine(Line, x, d)' <=> SourceOnLine(Line', x, d)
                  /\ KidOnLine(Line, x, d)' <=> KidOnLine(Line', x, d)
    BY <1>1, <2>2 DEF SourceOnLine, KidOnLine
  <2>. QED BY <2>1, <2>3 DEF Drawn
<1>. QED BY <1>14

-----------------------------------------------------------------------------
(* The dependencies, renumbered.                                            *)

\* A mutate with the new number d may be a source of x, or is in x.
SourceAt(x, d) == d + 1 \in DOMAIN mutates /\ Source(x, mutates[d + 1].x)
KidAt(x, d) == d + 1 \in DOMAIN mutates /\ doc.up[mutates[d + 1].x] = x

\* The same of a number that is not replaced yet.
OldSource(x, d) == d \in DOMAIN mmap /\ SourceAt(x, mmap[d])
OldKid(x, d) == d \in DOMAIN mmap /\ KidAt(x, mmap[d])

\* The dependencies before they are renumbered ...
OldDeps(m) ==
  /\ m.type # "none" => \A d \in m.deps : OldSource(m.x, d)
  /\ m.type = "none" => \A l \in DOMAIN m.children : OldKid(m.x, m.children[l])

\* The numbers in left are still to be replaced.
NewDeps(m, left) ==
  /\ m.type # "none" => /\ \A d \in m.deps : SourceAt(m.x, d) \/ d \in left
                        /\ \A d \in left : OldSource(m.x, d)
  /\ m.type = "none" => \A l \in DOMAIN m.children : KidAt(m.x, m.children[l])

Left(k) == IF phase = "deps" /\ k = i THEN todo ELSE {}

\* The dependencies while they are renumbered, in maps that do not grow.
DepsRenumbered ==
  grown = {} /\ phase \in {"ids", "deps"} =>
    \A k \in DOMAIN mutates :
      IF Done(k) THEN NewDeps(mutates[k], Left(k)) ELSE OldDeps(mutates[k])

\* The loop starts with what the stack left.
LEMMA DepsStart ==
  ASSUME MTypes, Numbered, DepsInLine, StartRenumber
  PROVE  DepsRenumbered'
<1>. SUFFICES ASSUME grown' = {}, grown = {} PROVE DepsRenumbered'
  BY GrownKept DEF DepsRenumbered, Next
<1>1. /\ phase = "stack" /\ phase' = "ids" /\ i' = 1 /\ stack = <<>>
      /\ UNCHANGED <<doc, stack, nextId, mutates, mmap, todo, sql>>
  BY DEF StartRenumber, To
<1>2. DOMAIN Line = DOMAIN mutates /\ \A k \in DOMAIN mutates : Line[k] = mutates[k]
  BY <1>1, LineOfMutates
<1>3. DOMAIN mutates = 1..Len(mutates) /\ Len(mutates) \in Nat BY LineFacts
<1>4. ASSUME NEW j \in DOMAIN mutates
      PROVE  mutates[j].id \in DOMAIN mmap /\ mmap[mutates[j].id] + 1 = j
  <2>1. mutates[j].id \in DOMAIN mmap /\ mmap[mutates[j].id] = j - 1 BY DEF Numbered
  <2>2. (j - 1) + 1 = j BY <1>3
  <2>. QED BY <2>1, <2>2
<1>5. ASSUME NEW k \in DOMAIN mutates PROVE OldDeps(mutates[k])
  <2>. DEFINE m == mutates[k]
  <2>1. Drawn(Line, m) BY <1>1, <1>2 DEF DepsInLine
  <2>. HIDE DEF m
  <2>2. ASSUME m.type # "none", NEW d \in m.deps PROVE OldSource(m.x, d)
    <3>1. PICK j \in DOMAIN mutates : mutates[j].id = d /\ Source(m.x, mutates[j].x)
      BY <1>2, <2>1, <2>2 DEF Drawn, SourceOnLine
    <3>. QED BY <3>1, <1>4 DEF OldSource, SourceAt
  <2>3. ASSUME m.type = "none", NEW l \in DOMAIN m.children PROVE OldKid(m.x, m.children[l])
    <3>1. PICK j \in DOMAIN mutates : mutates[j].id = m.children[l] /\ doc.up[mutates[j].x] = m.x
      BY <1>2, <2>1, <2>3 DEF Drawn, KidOnLine
    <3>. QED BY <3>1, <1>4 DEF OldKid, KidAt
  <2>. QED BY <2>2, <2>3 DEF OldDeps, m
<1>6. \A k \in DOMAIN mutates : ~Done(k)' BY <1>1, <1>3 DEF Done
<1>7. \A x, y : Source(x, y)' <=> Source(x, y) BY <1>1, RolesKept DEF Source
<1>8. \A k \in DOMAIN mutates : OldDeps(mutates[k])' <=> OldDeps(mutates[k])
  <2>1. \A x, d : (OldSource(x, d)' <=> OldSource(x, d)) /\ (OldKid(x, d)' <=> OldKid(x, d))
    BY <1>1, <1>7 DEF OldSource, OldKid, SourceAt, KidAt
  <2>. QED BY <1>1, <2>1 DEF OldDeps
<1>. QED BY <1>1, <1>5, <1>6, <1>8 DEF DepsRenumbered

\* Nothing later moves a mutate.
LEMMA PlacesKept ==
  ASSUME MTypes, Later
  PROVE  \A x, d : /\ SourceAt(x, d)' <=> SourceAt(x, d)
                   /\ KidAt(x, d)' <=> KidAt(x, d)
                   /\ OldSource(x, d)' <=> OldSource(x, d)
                   /\ OldKid(x, d)' <=> OldKid(x, d)
<1>1. /\ doc' = doc /\ mmap' = mmap /\ DOMAIN mutates' = DOMAIN mutates
      /\ \A k \in DOMAIN mutates : mutates'[k].x = mutates[k].x
  BY ShapeKept
<1>2. \A x, y : Source(x, y)' <=> Source(x, y) BY <1>1, RolesKept DEF Source
<1>3. \A x, d : (SourceAt(x, d)' <=> SourceAt(x, d)) /\ (KidAt(x, d)' <=> KidAt(x, d))
  BY <1>1, <1>2 DEF SourceAt, KidAt
<1>. QED BY <1>1, <1>3 DEF OldSource, OldKid

\* The numbers of the mutate and of its children are replaced.
LEMMA DepsRenumber ==
  ASSUME MTypes, DepsRenumbered, Renumber
  PROVE  DepsRenumbered'
<1>. SUFFICES ASSUME grown' = {}, grown = {} PROVE DepsRenumbered'
  BY GrownKept DEF DepsRenumbered, Next
<1>1. /\ phase = "ids" /\ i <= Len(mutates) /\ phase' = "deps" /\ i' = i
      /\ DOMAIN mutates = 1..Len(mutates) /\ Len(mutates) \in Nat /\ i \in DOMAIN mutates
      /\ todo' = mutates[i].deps
      /\ \A k \in DOMAIN mutates : k # i => mutates'[k] = mutates[k]
      /\ i \in Nat
  BY LineFacts DEF Renumber, To, MTypes
<1>2. Later BY DEF Later
<1>3. \A x, d : /\ SourceAt(x, d)' <=> SourceAt(x, d)
                /\ KidAt(x, d)' <=> KidAt(x, d)
                /\ OldSource(x, d)' <=> OldSource(x, d)
                /\ OldKid(x, d)' <=> OldKid(x, d)
  BY <1>2, PlacesKept
<1>4. DOMAIN mutates' = DOMAIN mutates BY <1>2, ShapeKept
<1>5. ASSUME NEW k \in DOMAIN mutates, k # i
      PROVE  IF Done(k)' THEN NewDeps(mutates[k], Left(k))' ELSE OldDeps(mutates[k])'
  <2>1. Done(k)' <=> Done(k) BY <1>1, <1>5 DEF Done
  <2>2. Left(k) = {} /\ Left(k)' = {} BY <1>1, <1>5 DEF Left
  <2>3. mutates'[k] = mutates[k] BY <1>1, <1>5
  <2>4. IF Done(k) THEN NewDeps(mutates[k], {}) ELSE OldDeps(mutates[k])
    BY <1>1, <2>2 DEF DepsRenumbered
  <2>5. NewDeps(mutates[k], {}) => NewDeps(mutates[k], Left(k))'
    BY <1>3, <2>2, <2>3 DEF NewDeps
  <2>6. OldDeps(mutates[k]) => OldDeps(mutates[k])' BY <1>3, <2>3 DEF OldDeps
  <2>. QED BY <2>1, <2>4, <2>5, <2>6
<1>6. Done(i)' /\ ~Done(i) /\ Left(i)' = todo' BY <1>1 DEF Done, Left
<1>7. OldDeps(mutates[i]) BY <1>1, <1>6 DEF DepsRenumbered
<1>8. NewDeps(mutates[i], Left(i))'
  <2>. DEFINE m == mutates[i]
              ch == [k \in DOMAIN m.children |-> New(m.children[k])]
              a == New(m.id)
              b == New(m.parent)
  <2>1. mutates'[i] = [m EXCEPT !.id = a, !.parent = b, !.children = ch]
    BY <1>1 DEF Renumber
  <2>2. m \in MutateSet BY <1>1, LineFacts
  <2>3. /\ DOMAIN ch = DOMAIN m.children
        /\ \A l \in DOMAIN m.children : ch[l] = New(m.children[l])
    OBVIOUS
  <2>. HIDE DEF a, b, ch, m
  <2>4. /\ mutates'[i].children = ch /\ mutates'[i].deps = m.deps /\ mutates'[i].type = m.type
        /\ mutates'[i].x = m.x
    BY <2>1, <2>2 DEF MutateSet
  <2>5. OldDeps(m) /\ Left(i)' = m.deps BY <1>1, <1>6, <1>7 DEF m
  <2>6. ASSUME m.type # "none", NEW d \in m.deps PROVE OldSource(m.x, d)
    BY <2>5, <2>6 DEF OldDeps
  <2>7. ASSUME m.type = "none", NEW l \in DOMAIN m.children PROVE KidAt(m.x, ch[l])
    <3>1. OldKid(m.x, m.children[l]) BY <2>5, <2>7 DEF OldDeps
    <3>. QED BY <3>1, <2>3 DEF OldKid, New
  <2>. QED BY <1>1, <1>3, <2>3, <2>4, <2>5, <2>6, <2>7 DEF NewDeps
<1>9. ASSUME NEW k \in DOMAIN mutates
      PROVE  IF Done(k)' THEN NewDeps(mutates[k], Left(k))' ELSE OldDeps(mutates[k])'
  <2>1. CASE k = i BY <2>1, <1>1, <1>6, <1>8
  <2>2. CASE k # i BY <2>2, <1>5
  <2>. QED BY <2>1, <2>2
<1>. QED BY <1>4, <1>9 DEF DepsRenumbered

\* One dependency is replaced. A new number may be also an old one: what is deleted
\* after it is added is still left.
LEMMA DepsOne ==
  ASSUME MTypes, DepsRenumbered, RenumberDep
  PROVE  DepsRenumbered'
<1>. SUFFICES ASSUME grown' = {}, grown = {} PROVE DepsRenumbered'
  BY GrownKept DEF DepsRenumbered, Next
<1>1. PICK id \in todo : /\ mutates' = [mutates EXCEPT ![i].deps = (@ \ {id}) \cup {New(id)}]
                         /\ todo' = todo \ {id}
  <2>1. \A id : MetLater(id) = {} BY DEF MetLater
  <2>. QED BY <2>1 DEF RenumberDep
<1>2. phase = "deps" /\ phase' = "deps" /\ i' = i BY DEF RenumberDep
<1>3. Later BY DEF Later
<1>4. \A x, d : /\ SourceAt(x, d)' <=> SourceAt(x, d)
                /\ KidAt(x, d)' <=> KidAt(x, d)
                /\ OldSource(x, d)' <=> OldSource(x, d)
                /\ OldKid(x, d)' <=> OldKid(x, d)
  BY <1>3, PlacesKept
<1>5. DOMAIN mutates' = DOMAIN mutates BY <1>3, ShapeKept
<1>6. \A k : Done(k)' <=> Done(k) BY <1>2 DEF Done
<1>7. ASSUME NEW k \in DOMAIN mutates, k # i
      PROVE  IF Done(k)' THEN NewDeps(mutates[k], Left(k))' ELSE OldDeps(mutates[k])'
  <2>2. Left(k) = {} /\ Left(k)' = {} BY <1>2, <1>7 DEF Left
  <2>3. mutates'[k] = mutates[k] BY <1>1, <1>7
  <2>4. IF Done(k) THEN NewDeps(mutates[k], {}) ELSE OldDeps(mutates[k])
    BY <1>2, <2>2 DEF DepsRenumbered
  <2>5. NewDeps(mutates[k], {}) => NewDeps(mutates[k], Left(k))'
    BY <1>4, <2>2, <2>3 DEF NewDeps
  <2>6. OldDeps(mutates[k]) => OldDeps(mutates[k])' BY <1>4, <2>3 DEF OldDeps
  <2>. QED BY <1>6, <2>4, <2>5, <2>6
<1>8. ASSUME i \in DOMAIN mutates
      PROVE  Done(i)' /\ NewDeps(mutates[i], Left(i))'
  <2>. DEFINE m == mutates[i]
              e == (m.deps \ {id}) \cup {New(id)}
  <2>0. i \in Nat BY DEF MTypes
  <2>1. Done(i) BY <1>2, <2>0 DEF Done
  <2>2. NewDeps(m, todo) BY <1>2, <1>8, <2>1 DEF DepsRenumbered, Left
  <2>3. m \in MutateSet BY <1>8, LineFacts
  <2>4. mutates'[i] = [m EXCEPT !.deps = e] BY <1>1, <1>8
  <2>5. e = (m.deps \ {id}) \cup {New(id)} OBVIOUS
  <2>. HIDE DEF e, m
  <2>6. /\ mutates'[i].deps = e /\ mutates'[i].type = m.type /\ mutates'[i].x = m.x
        /\ mutates'[i].children = m.children
    BY <2>3, <2>4 DEF MutateSet
  <2>7. Left(i)' = todo \ {id} BY <1>1, <1>2 DEF Left
  <2>8. ASSUME m.type # "none", NEW d \in e PROVE SourceAt(m.x, d) \/ d \in todo \ {id}
    <3>1. CASE d \in m.deps \ {id} BY <2>2, <2>8, <3>1 DEF NewDeps
    <3>2. CASE d = New(id)
      <4>1. OldSource(m.x, id) BY <2>2, <2>8 DEF NewDeps
      <4>. QED BY <3>2, <4>1 DEF OldSource, New
    <3>. QED BY <2>5, <2>8, <3>1, <3>2
  <2>9. NewDeps(mutates[i], Left(i))'
    BY <1>2, <1>4, <2>2, <2>6, <2>7, <2>8 DEF NewDeps
  <2>10. Done(i)' BY <1>2, <2>0 DEF Done
  <2>. QED BY <2>9, <2>10
<1>9. ASSUME NEW k \in DOMAIN mutates
      PROVE  IF Done(k)' THEN NewDeps(mutates[k], Left(k))' ELSE OldDeps(mutates[k])'
  <2>1. CASE k = i BY <2>1, <1>2, <1>8
  <2>2. CASE k # i BY <2>2, <1>7
  <2>. QED BY <2>1, <2>2
<1>. QED BY <1>5, <1>9 DEF DepsRenumbered

\* The loop goes on to the next mutate.
LEMMA DepsNext ==
  ASSUME MTypes, DepsRenumbered, RenumberNext
  PROVE  DepsRenumbered'
<1>. SUFFICES ASSUME grown' = {}, grown = {} PROVE DepsRenumbered'
  BY GrownKept DEF DepsRenumbered, Next
<1>1. /\ phase = "deps" /\ phase' = "ids" /\ i' = i + 1 /\ todo = {} /\ i \in Nat
      /\ mutates' = mutates /\ DOMAIN mutates = 1..Len(mutates) /\ Len(mutates) \in Nat
  BY LineFacts DEF RenumberNext, To, MTypes
<1>2. Later BY DEF Later
<1>3. \A x, d : /\ SourceAt(x, d)' <=> SourceAt(x, d)
                /\ KidAt(x, d)' <=> KidAt(x, d)
                /\ OldSource(x, d)' <=> OldSource(x, d)
                /\ OldKid(x, d)' <=> OldKid(x, d)
  BY <1>2, PlacesKept
<1>4. ASSUME NEW k \in DOMAIN mutates
      PROVE  IF Done(k)' THEN NewDeps(mutates[k], Left(k))' ELSE OldDeps(mutates[k])'
  <2>1. Done(k)' <=> Done(k) BY <1>1 DEF Done
  <2>2. Left(k) = {} /\ Left(k)' = {} BY <1>1 DEF Left
  <2>4. IF Done(k) THEN NewDeps(mutates[k], {}) ELSE OldDeps(mutates[k])
    BY <1>1, <2>2 DEF DepsRenumbered
  <2>5. NewDeps(mutates[k], {}) => NewDeps(mutates[k], Left(k))'
    BY <1>1, <1>3, <2>2 DEF NewDeps
  <2>6. OldDeps(mutates[k]) => OldDeps(mutates[k])' BY <1>1, <1>3 DEF OldDeps
  <2>. QED BY <2>1, <2>4, <2>5, <2>6
<1>. QED BY <1>1, <1>4 DEF DepsRenumbered

-----------------------------------------------------------------------------
(* The dependencies, handed on.                                             *)

\* Only rendered mutates are renumbered.
AllRendered ==
  phase \notin {"stack", "error"} =>
    stack = <<>> /\ \A k \in DOMAIN mutates : mutates[k].render

\* They are when the stack is empty ...
LEMMA AllRenderedStart ==
  ASSUME MTypes, Numbered, StartRenumber
  PROVE  AllRendered'
BY DEF StartRenumber, AllRendered, Numbered

\* ... and stay so.
LEMMA AllRenderedLater ==
  ASSUME MTypes, AllRendered, Later
  PROVE  AllRendered'
BY ShapeKept DEF AllRendered

\* The shape of the line, said of the mutates.
Written(k) ==
  LET m == mutates[k]
  IN /\ m \in MutateSet /\ m.x \in Objects
     /\ m.rel = RelOf(m.x)
     /\ m.type = IF Modifier(m.x) THEN doc.kind[m.x]
                 ELSE IF HasModifier(m.x) THEN "none" ELSE doc.op

IsWritten(x) == \E k \in DOMAIN mutates : mutates[k].x = x

\* When the stack is empty the mutates have the shape of the line.
LEMMA MutatesShape ==
  ASSUME ShapeInv, AllRendered, phase \notin {"stack", "error"}
  PROVE  /\ DOMAIN mutates = 1..Len(mutates) /\ Len(mutates) \in Nat /\ doc \in Docs
         /\ \A k \in DOMAIN mutates : Written(k)
         /\ \A j, k \in DOMAIN mutates : j # k => mutates[j].x # mutates[k].x
         /\ \A k \in DOMAIN mutates : doc.up[mutates[k].x] # 0 => IsWritten(doc.up[mutates[k].x])
         /\ \A j, k \in DOMAIN mutates :
               mutates[j].x = doc.up[mutates[k].x] => IF After(mutates[k].x) THEN j < k ELSE k < j
         /\ doc.op # "upsert" =>
              /\ \A c \in Objects : doc.up[c] = 0 => IsWritten(c)
              /\ \A k \in DOMAIN mutates : \A c \in Objects : doc.up[c] = mutates[k].x => IsWritten(c)
<1>1. /\ MTypes /\ stack = <<>> /\ Once /\ Closed /\ Sorts /\ Covered /\ Sequenced
      /\ \A k \in DOMAIN mutates : mutates[k].render
  BY DEF ShapeInv, TreeInv, Shape, AllRendered
<1>2. DOMAIN Line = DOMAIN mutates /\ \A k \in DOMAIN mutates : Line[k] = mutates[k]
  BY <1>1, LineOfMutates
<1>3. /\ DOMAIN mutates = 1..Len(mutates) /\ Len(mutates) \in Nat /\ doc \in Docs
      /\ \A k \in DOMAIN mutates : mutates[k] \in MutateSet
  BY <1>1, LineFacts DEF MTypes
<1>4. ASSUME NEW k \in DOMAIN mutates PROVE Written(k)
  <2>1. mutates[k].type = TypeOf(mutates[k]) /\ mutates[k].rel = RelOf(mutates[k].x)
    BY <1>1, <1>2 DEF Sorts
  <2>2. mutates[k] \in MutateSet /\ mutates[k].x \in Objects BY <1>3, MutateFields
  <2>. QED BY <1>1, <2>1, <2>2 DEF Written, TypeOf
<1>5. \A j, k \in DOMAIN mutates : j # k => mutates[j].x # mutates[k].x
  BY <1>1, <1>2 DEF Once
<1>6. \A k \in DOMAIN mutates : doc.up[mutates[k].x] # 0 => IsWritten(doc.up[mutates[k].x])
  BY <1>1, <1>2 DEF Closed, IsWritten
<1>7. \A j, k \in DOMAIN mutates :
         mutates[j].x = doc.up[mutates[k].x] => IF After(mutates[k].x) THEN j < k ELSE k < j
  BY <1>1, <1>2 DEF Sequenced
<1>8. \A c : OnLine(c) <=> IsWritten(c) BY <1>2 DEF OnLine, IsWritten
<1>9. doc.op # "upsert" =>
        /\ \A c \in Objects : doc.up[c] = 0 => IsWritten(c)
        /\ \A k \in DOMAIN mutates : \A c \in Objects : doc.up[c] = mutates[k].x => IsWritten(c)
  BY <1>1, <1>2, <1>8 DEF Covered
<1>. QED BY <1>3, <1>4, <1>5, <1>6, <1>7, <1>9

\* The mutate of this number hands on what it depends on only later.
Unpulled(d) == phase = "pull" /\ i <= d + 1

\* What the statement of x may read: one that is connected, or a source that is
\* rendered, but for what is still to be handed on.
PulledDep(x, d) ==
  /\ d + 1 \in DOMAIN mutates
  /\ \/ ~Modifier(x) /\ Modifier(mutates[d + 1].x)
     \/ /\ Source(x, mutates[d + 1].x)
        /\ mutates[d + 1].type = "none" => Unpulled(d)

PulledDeps(k) ==
  LET m == mutates[k]
  IN /\ m.type # "none" => \A d \in m.deps : PulledDep(m.x, d)
     /\ m.type = "none" => \A l \in DOMAIN m.children : KidAt(m.x, m.children[l])

\* The dependencies, while they are handed on and after.
DepsPulled ==
  grown = {} /\ phase \in {"pull", "render", "done"} => \A k \in DOMAIN mutates : PulledDeps(k)

\* The loop starts with what the renumbering left.
LEMMA PulledStart ==
  ASSUME MTypes, DepsRenumbered, StartPull
  PROVE  DepsPulled'
<1>. SUFFICES ASSUME grown' = {}, grown = {} PROVE DepsPulled'
  BY GrownKept DEF DepsPulled, Next
<1>1. /\ phase = "ids" /\ i > Len(mutates) /\ phase' = "pull" /\ i' = 1 /\ i \in Nat
      /\ UNCHANGED <<doc, stack, nextId, mutates, mmap, todo, sql>>
      /\ DOMAIN mutates = 1..Len(mutates) /\ Len(mutates) \in Nat
  BY LineFacts DEF StartPull, To, MTypes
<1>2. Later BY DEF Later
<1>3. \A x, d : (SourceAt(x, d)' <=> SourceAt(x, d)) /\ (KidAt(x, d)' <=> KidAt(x, d))
  BY <1>2, PlacesKept
<1>4. ASSUME NEW x, NEW d, SourceAt(x, d) PROVE PulledDep(x, d)'
  <2>1. SourceAt(x, d)' BY <1>3, <1>4
  <2>2. d + 1 \in DOMAIN mutates BY <1>4 DEF SourceAt
  <2>3. Unpulled(d)' BY <1>1, <2>2 DEF Unpulled
  <2>. QED BY <2>1, <2>3 DEF SourceAt, PulledDep
<1>5. ASSUME NEW k \in DOMAIN mutates PROVE PulledDeps(k)'
  <2>1. Done(k) /\ Left(k) = {} BY <1>1 DEF Done, Left
  <2>2. NewDeps(mutates[k], {}) BY <1>1, <2>1 DEF DepsRenumbered
  <2>. QED BY <1>1, <1>3, <1>4, <2>2 DEF NewDeps, PulledDeps
<1>. QED BY <1>1, <1>5 DEF DepsPulled

\* Nothing but the one it is in takes columns of an object that is there already.
LEMMA SourceOfPresent ==
  ASSUME doc \in Docs, Uniform(doc), NEW x \in Objects, NEW y \in Objects,
         Source(x, y), HasModifier(y), ~Modifier(y)
  PROVE  doc.up[y] = x
<1>1. CASE ~Modifier(x) /\ doc.up[x] # 0 /\ y = doc.up[x]
  BY <1>1, ModifierKids
<1>2. CASE Modifier(x) /\ y = Above(x) /\ y # 0
  <2>. DEFINE p == doc.up[x]
  <2>1. doc.up[x] # 0 BY <1>2 DEF Modifier
  <2>2. p \in Objects /\ ~Modifier(p) BY <2>1, ParentFacts
  <2>3. y = doc.up[p] BY <1>2 DEF Above
  <2>. HIDE DEF p
  <2>. QED BY <2>2, <2>3, <1>2, ModifierKids
<1>. QED BY <1>1, <1>2 DEF Source

\* A mutate that is not rendered takes its number from its parent and gives it those of
\* what is connected to it.
LEMMA PulledPull ==
  ASSUME ShapeInv, Uniform(doc), AllRendered, DepsPulled, Pull
  PROVE  DepsPulled'
<1>. SUFFICES ASSUME grown' = {}, grown = {} PROVE DepsPulled'
  BY GrownKept DEF DepsPulled, Next
<1>. DEFINE m == mutates[i]
            up == m.type = "none" /\ m.parent # NoParent
<1>1. /\ phase = "pull" /\ phase' = "pull" /\ i' = i + 1 /\ i \in Nat /\ i >= 1
      /\ i <= Len(mutates) /\ MTypes
  BY DEF Pull, To, ShapeInv, TreeInv, MTypes
<1>2. /\ DOMAIN mutates = 1..Len(mutates) /\ Len(mutates) \in Nat /\ doc \in Docs
      /\ \A k \in DOMAIN mutates : Written(k)
      /\ \A j, k \in DOMAIN mutates : j # k => mutates[j].x # mutates[k].x
  BY <1>1, MutatesShape
<1>3. i \in DOMAIN mutates BY <1>1, <1>2
<1>4. NewNumbers(m, i) BY <1>1, <1>3 DEF ShapeInv, TreeInv, Renumbered, Done
<1>5. Later BY DEF Later
<1>6. /\ doc' = doc /\ DOMAIN mutates' = DOMAIN mutates
      /\ \A k \in DOMAIN mutates :
           /\ mutates'[k].x = mutates[k].x /\ mutates'[k].type = mutates[k].type
           /\ mutates'[k].children = mutates[k].children
  <2>1. ~Renumber BY <1>1 DEF Renumber
  <2>. QED BY <1>1, <1>5, <2>1, ShapeKept
<1>7. \A x, d : KidAt(x, d)' <=> KidAt(x, d) BY <1>1, <1>5, PlacesKept
<1>8. \A x, y : Source(x, y)' <=> Source(x, y) BY <1>6, RolesKept DEF Source
<1>9. \A x : Modifier(x)' <=> Modifier(x) BY <1>6, RolesKept
<1>10. ASSUME NEW k \in DOMAIN mutates
       PROVE  mutates'[k].deps = IF up /\ k = m.parent + 1
                                 THEN (mutates[k].deps \ {m.id}) \cup PulledUp(m)
                                 ELSE mutates[k].deps
  <2>. DEFINE u == Cardinality(Union(m.table)) > 1
              v == IF k = i THEN WithMulti(m) ELSE mutates[k]
              e == PulledUp(m)
              w == (v.deps \ {m.id}) \cup e
  <2>1. mutates'[k] = IF up /\ k = m.parent + 1
                      THEN [v EXCEPT !.deps = w] ELSE v
    BY DEF Pull
  <2>2. v = mutates[k] \/ v = [mutates[k] EXCEPT !.multi = u] BY Zenon DEF WithMulti
  <2>3. mutates[k] \in MutateSet BY <1>2 DEF Written
  <2>. HIDE DEF m, u, v, e, w
  <2>4. v.deps = mutates[k].deps /\ DOMAIN v = DOMAIN mutates[k] BY <2>2, <2>3 DEF MutateSet
  <2>5. [v EXCEPT !.deps = w].deps = w BY <2>3, <2>4 DEF MutateSet
  <2>6. w = (mutates[k].deps \ {m.id}) \cup PulledUp(m) BY <2>4 DEF w, e
  <2>. QED BY <2>1, <2>4, <2>5, <2>6
<1>11. ASSUME NEW k \in DOMAIN mutates, mutates[k].type # "none", NEW d \in mutates[k].deps,
              PulledDep(mutates[k].x, d), ~(PulledDep(mutates[k].x, d)')
       PROVE  up /\ k = m.parent + 1 /\ d = m.id
  <2>. DEFINE x == mutates[k].x
  <2>1. d + 1 \in DOMAIN mutates BY <1>11 DEF PulledDep
  <2>2. mutates'[d + 1].x = mutates[d + 1].x /\ mutates'[d + 1].type = mutates[d + 1].type
    BY <1>6, <2>1
  <2>3. ~(~Modifier(x) /\ Modifier(mutates[d + 1].x)) BY <1>6, <1>9, <1>11, <2>1, <2>2 DEF PulledDep
  <2>4. Source(x, mutates[d + 1].x) BY <1>11, <2>3 DEF PulledDep
  <2>5. mutates[d + 1].type = "none" /\ Unpulled(d) /\ ~(Unpulled(d)')
    BY <1>6, <1>8, <1>11, <2>1, <2>2, <2>4, <2>3 DEF PulledDep
  <2>6. i = d + 1 BY <1>1, <1>2, <2>1, <2>5 DEF Unpulled
  <2>7. m.type = "none" /\ Source(x, m.x) BY <2>4, <2>5, <2>6
  <2>8. Written(i) /\ Written(k) BY <1>2, <1>3
  <2>9. ~Modifier(m.x) /\ HasModifier(m.x) /\ m.x \in Objects /\ x \in Objects
    <3>1. m.x \in Objects /\ x \in Objects BY <2>8 DEF Written
    <3>2. doc.op \in Ops /\ doc.kind[m.x] \in Kinds BY <1>2, <3>1, DocFacts
    <3>. QED BY <2>7, <2>8, <3>1, <3>2 DEF Written, Ops, Kinds
  <2>10. doc.up[m.x] = x
    <3>. HIDE DEF m, x
    <3>. QED BY <1>2, <2>7, <2>9, SourceOfPresent
  <2>11. Above(m.x) = x /\ x # 0
    BY <2>9, <2>10, <1>2, DocFacts DEF Above
  <2>12. m.parent + 1 \in DOMAIN mutates /\ mutates[m.parent + 1].x = x /\ m.id = i - 1
    BY <1>4, <2>11 DEF NewNumbers, IsAt
  <2>13. k = m.parent + 1 BY <1>2, <2>12
  <2>14. m.parent # NoParent
    <3>1. m.parent + 1 >= 1 BY <1>2, <2>12
    <3>2. m \in MutateSet BY <2>8 DEF Written
    <3>3. m.parent \in Int BY <3>2, MutateFields
    <3>. QED BY <3>1, <3>3 DEF NoParent
  <2>15. d = m.id
    <3>1. mutates[k] \in MutateSet BY <2>8 DEF Written
    <3>2. d \in Int BY <3>1, MutateFields
    <3>. QED BY <3>2, <2>6, <2>12
  <2>. QED BY <2>7, <2>13, <2>14, <2>15
<1>12. ASSUME NEW k \in DOMAIN mutates, up, k = m.parent + 1, NEW d \in PulledUp(m)
       PROVE  PulledDep(mutates[k].x, d)'
  <2>1. PICK l \in DOMAIN m.children : d = m.children[l] BY <1>12 DEF PulledUp
  <2>2. PulledDeps(i) BY <1>1, <1>3 DEF DepsPulled
  <2>3. KidAt(m.x, d) BY <1>12, <2>1, <2>2 DEF PulledDeps
  <2>. DEFINE c == mutates[d + 1].x
  <2>4. d + 1 \in DOMAIN mutates /\ doc.up[c] = m.x BY <2>3 DEF KidAt
  <2>5. Written(i) /\ Written(d + 1) /\ Written(k) BY <1>2, <1>3, <2>4
  <2>6. /\ ~Modifier(m.x) /\ HasModifier(m.x)
        /\ m.x \in Objects /\ c \in Objects /\ mutates[k].x \in Objects
    <3>1. m.x \in Objects /\ c \in Objects /\ mutates[k].x \in Objects BY <2>5 DEF Written
    <3>2. doc.op \in Ops /\ doc.kind[m.x] \in Kinds BY <1>2, <3>1, DocFacts
    <3>. QED BY <1>12, <2>5, <3>1, <3>2 DEF Written, Ops, Kinds
  <2>7. doc.up[c] # 0 /\ HasModifier(doc.up[c]) BY <1>2, <2>4, <2>6, DocFacts
  <2>8. Modifier(c)
    <3>. HIDE DEF c
    <3>. QED BY <1>2, <2>6, <2>7, ModifierKids
  <2>9. mutates[k].x = doc.up[m.x] /\ doc.up[m.x] # 0
    <3>1. m.parent + 1 = k BY <1>12
    <3>2. Above(m.x) # 0 BY <1>4, <1>12 DEF NewNumbers
    <3>3. mutates[k].x = Above(m.x) BY <1>4, <3>1, <3>2 DEF NewNumbers, IsAt
    <3>. QED BY <3>2, <3>3, <2>6 DEF Above
  <2>10. ~Modifier(mutates[k].x)
    <3>1. ~Modifier(doc.up[m.x]) BY <1>2, <2>6, <2>9, ParentFacts
    <3>. QED BY <3>1, <2>9
  <2>11. mutates'[d + 1].x = c BY <1>6, <2>4
  <2>. QED BY <1>6, <1>9, <2>4, <2>8, <2>10, <2>11 DEF PulledDep
<1>13. ASSUME NEW k \in DOMAIN mutates PROVE PulledDeps(k)'
  <2>1. PulledDeps(k) BY <1>1 DEF DepsPulled
  <2>2. ASSUME mutates[k].type # "none", NEW d \in mutates'[k].deps
        PROVE  PulledDep(mutates[k].x, d)'
    <3>1. CASE up /\ k = m.parent + 1 /\ d \in PulledUp(m) BY <3>1, <1>12
    <3>2. CASE d \in mutates[k].deps /\ ~(up /\ k = m.parent + 1 /\ d = m.id)
      <4>1. PulledDep(mutates[k].x, d) BY <2>1, <2>2, <3>2 DEF PulledDeps
      <4>. QED BY <1>11, <2>2, <3>2, <4>1
    <3>. QED BY <1>10, <2>2, <3>1, <3>2
  <2>3. ASSUME mutates[k].type = "none", NEW l \in DOMAIN mutates[k].children
        PROVE  KidAt(mutates[k].x, mutates[k].children[l])'
    <3>. DEFINE d == mutates[k].children[l]
                x == mutates[k].x
    <3>1. KidAt(x, d) BY <2>1, <2>3 DEF PulledDeps
    <3>2. d + 1 \in DOMAIN mutates /\ doc.up[mutates[d + 1].x] = x BY <3>1 DEF KidAt
    <3>3. mutates'[d + 1].x = mutates[d + 1].x BY <1>6, <3>2
    <3>4. mutates'[k].x = x /\ mutates'[k].children = mutates[k].children BY <1>6
    <3>. QED BY <1>6, <3>2, <3>3, <3>4 DEF KidAt
  <2>. QED BY <1>6, <2>2, <2>3 DEF PulledDeps
<1>. QED BY <1>1, <1>6, <1>13 DEF DepsPulled

\* The inductive invariant for the dependencies.
DepsInv == ShapeInv /\ AllRendered /\ DepsInLine /\ DepsRenumbered /\ DepsPulled

\* It holds at the start.
LEMMA DepsInit == Init => DepsInv
<1>. SUFFICES ASSUME Init PROVE DepsInv
  OBVIOUS
<1>1. phase = "stack" BY DEF Init
<1>. QED BY <1>1, TreeInit, ShapeInit, DrawnInit
         DEF DepsInv, ShapeInv, AllRendered, DepsRenumbered, DepsPulled

\* Steps that keep the line keep what is drawn.
LEMMA DrawnKept ==
  ASSUME doc' = doc, Line' = Line, \A k \in DOMAIN Line : Drawn(Line, Line[k])
  PROVE  \A k \in DOMAIN Line' : Drawn(Line, Line[k])'
<1>1. \A x, y : Source(x, y)' <=> Source(x, y) BY RolesKept DEF Source
<1>2. \A x, d : (SourceOnLine(Line, x, d)' <=> SourceOnLine(Line, x, d))
                /\ (KidOnLine(Line, x, d)' <=> KidOnLine(Line, x, d))
  BY <1>1 DEF SourceOnLine, KidOnLine
<1>. QED BY <1>2 DEF Drawn

\* So do those that keep the mutates.
LEMMA DepsKept ==
  ASSUME MTypes, AllRendered, DepsRenumbered, DepsPulled,
         UNCHANGED <<doc, stack, mutates, mmap, i, todo, grown>>,
         phase' = phase \/ (phase = "stack" /\ phase' = "error")
  PROVE  AllRendered' /\ DepsRenumbered' /\ DepsPulled'
<1>1. \A x, y : Source(x, y)' <=> Source(x, y) BY RolesKept DEF Source
<1>2. \A x : Modifier(x)' <=> Modifier(x) BY RolesKept
<1>3. \A x, d : /\ (SourceAt(x, d)' <=> SourceAt(x, d)) /\ (KidAt(x, d)' <=> KidAt(x, d))
                /\ (OldSource(x, d)' <=> OldSource(x, d)) /\ (OldKid(x, d)' <=> OldKid(x, d))
  BY <1>1 DEF SourceAt, KidAt, OldSource, OldKid
<1>4. AllRendered' BY DEF AllRendered
<1>5. DepsRenumbered'
  <2>1. CASE phase' # phase BY <2>1 DEF DepsRenumbered
  <2>2. CASE phase' = phase
    <3>1. ASSUME NEW k \in DOMAIN mutates, phase \in {"ids", "deps"}, grown = {}
          PROVE  IF Done(k)' THEN NewDeps(mutates[k], Left(k))' ELSE OldDeps(mutates[k])'
      <4>1. Done(k)' <=> Done(k) BY <2>2 DEF Done
      <4>2. Left(k)' = Left(k) BY <2>2 DEF Left
      <4>3. NewDeps(mutates[k], Left(k)) => NewDeps(mutates[k], Left(k))'
        BY <1>3, <4>2 DEF NewDeps
      <4>4. OldDeps(mutates[k]) => OldDeps(mutates[k])' BY <1>3 DEF OldDeps
      <4>. QED BY <3>1, <4>1, <4>3, <4>4 DEF DepsRenumbered
    <3>. QED BY <2>2, <3>1 DEF DepsRenumbered
  <2>. QED BY <2>1, <2>2
<1>6. DepsPulled'
  <2>1. CASE phase' # phase BY <2>1 DEF DepsPulled
  <2>2. CASE phase' = phase
    <3>1. \A x, d : PulledDep(x, d)' <=> PulledDep(x, d)
      BY <1>1, <1>2, <2>2 DEF PulledDep, Unpulled
    <3>2. \A k \in DOMAIN mutates : PulledDeps(k) => PulledDeps(k)' BY <1>3, <3>1 DEF PulledDeps
    <3>. QED BY <2>2, <3>2 DEF DepsPulled
  <2>. QED BY <2>1, <2>2
<1>. QED BY <1>4, <1>5, <1>6

\* The loops of the renderer change no dependency.
LEMMA PulledAfter ==
  ASSUME MTypes, DepsPulled, StartRender \/ Render \/ Finish
  PROVE  DepsPulled'
<1>. SUFFICES ASSUME grown' = {}, grown = {} PROVE DepsPulled'
  BY GrownKept DEF DepsPulled, Next
<1>1. /\ UNCHANGED <<doc, stack, mutates, mmap>>
      /\ phase' \in {"render", "done"} /\ phase \in {"pull", "render"}
      /\ phase = "pull" => i > Len(mutates)
      /\ i \in Nat /\ DOMAIN mutates = 1..Len(mutates) /\ Len(mutates) \in Nat
  BY LineFacts DEF StartRender, Render, Finish, To, MTypes
<1>2. \A x, y : Source(x, y)' <=> Source(x, y) BY <1>1, RolesKept DEF Source
<1>3. \A x : Modifier(x)' <=> Modifier(x) BY <1>1, RolesKept
<1>4. \A x, d : KidAt(x, d)' <=> KidAt(x, d) BY <1>1 DEF KidAt
<1>5. ASSUME NEW x, NEW d, PulledDep(x, d) PROVE PulledDep(x, d)'
  <2>1. d + 1 \in DOMAIN mutates BY <1>5 DEF PulledDep
  <2>2. ~Unpulled(d) BY <1>1, <2>1 DEF Unpulled
  <2>. QED BY <1>1, <1>2, <1>3, <1>5, <2>2 DEF PulledDep
<1>6. ASSUME NEW k \in DOMAIN mutates PROVE PulledDeps(k)'
  <2>1. PulledDeps(k) BY <1>1 DEF DepsPulled
  <2>. QED BY <1>1, <1>4, <1>5, <2>1 DEF PulledDeps
<1>. QED BY <1>1, <1>6 DEF DepsPulled

\* The invariant holds in every step.
LEMMA DepsInvNext ==
  ASSUME DepsInv, Uniform(doc), [Next]_vars
  PROVE  DepsInv'
<1>1. ShapeInv /\ ShapeInv' /\ MTypes /\ MTypes'
  BY ShapeNext DEF DepsInv, ShapeInv, TreeInv
<1>2. AllRendered /\ DepsInLine /\ DepsRenumbered /\ DepsPulled BY DEF DepsInv
<1>3. phase \in {"stack", "error"} => Apart /\ Linked /\ Numbered
  BY <1>1 DEF ShapeInv, TreeInv, InLine
<1>4. CASE PopRendered
  <2>1. phase = "stack" /\ phase' = "stack" BY <1>4 DEF PopRendered
  <2>2. Line' = Line /\ doc' = doc BY <1>1, <1>4, PopLine
  <2>3. DepsInLine' BY <1>2, <2>1, <2>2, DrawnKept DEF DepsInLine
  <2>. QED BY <1>1, <2>1, <2>3 DEF DepsInv, AllRendered, DepsRenumbered, DepsPulled
<1>5. CASE NewMutate
  <2>1. phase = "stack" /\ phase' = "stack" BY <1>5, NewMutateIs
  <2>2. Shape /\ Sorts BY <1>1 DEF ShapeInv, Shape
  <2>3. PICK n, np, C, cp : Spread(Top, n, np, C, cp) /\ Grows(n, np, C, cp)
    BY <1>1, <1>3, <1>5, <2>1, <2>2, NewGrows
  <2>4. \A k \in DOMAIN Line : Drawn(Line, Line[k]) BY <1>2, <2>1 DEF DepsInLine
  <2>5. \A k \in DOMAIN Line' : Drawn(Line, Line[k])'
    BY <1>1, <1>3, <1>5, <2>1, <2>2, <2>3, <2>4, DrawnNew
  <2>6. DepsInLine' BY <2>5 DEF DepsInLine
  <2>. QED BY <1>1, <2>1, <2>6 DEF DepsInv, AllRendered, DepsRenumbered, DepsPulled
<1>6. CASE Rejected \/ UNCHANGED vars
  <2>1. /\ UNCHANGED <<doc, stack, mutates, mmap, i, todo, grown>>
        /\ phase' = phase \/ (phase = "stack" /\ phase' = "error")
    BY <1>6 DEF Rejected, vars
  <2>2. Line' = Line BY <2>1 DEF Line
  <2>3. AllRendered' /\ DepsRenumbered' /\ DepsPulled' BY <1>1, <1>2, <2>1, DepsKept
  <2>4. DepsInLine' BY <1>2, <2>1, <2>2, DrawnKept DEF DepsInLine
  <2>. QED BY <1>1, <2>3, <2>4 DEF DepsInv
<1>7. CASE StartRenumber
  <2>1. phase = "stack" /\ phase' = "ids" BY <1>7 DEF StartRenumber, To
  <2>2. AllRendered' BY <1>1, <1>3, <1>7, <2>1, AllRenderedStart
  <2>3. DepsRenumbered' BY <1>1, <1>2, <1>3, <1>7, <2>1, DepsStart
  <2>. QED BY <1>1, <2>1, <2>2, <2>3 DEF DepsInv, DepsInLine, DepsPulled
<1>8. CASE Later
  <2>1. phase' \notin {"stack", "error"} BY <1>1, <1>8, ShapeKept
  <2>2. AllRendered' BY <1>1, <1>2, <1>8, AllRenderedLater
  <2>3. DepsInLine' BY <2>1 DEF DepsInLine
  <2>4. CASE Renumber \/ RenumberDep \/ RenumberNext
    <3>1. DepsRenumbered' BY <1>1, <1>2, <2>4, DepsRenumber, DepsOne, DepsNext
    <3>2. phase' \in {"ids", "deps"} BY <2>4 DEF Renumber, RenumberDep, RenumberNext, To
    <3>. QED BY <1>1, <2>2, <2>3, <3>1, <3>2 DEF DepsInv, DepsPulled
  <2>5. CASE StartPull \/ Pull \/ StartRender \/ Render \/ Finish
    <3>1. phase' \in {"pull", "render", "done"}
      BY <2>5 DEF StartPull, Pull, StartRender, Render, Finish, To
    <3>2. DepsPulled' BY <1>1, <1>2, <2>5, PulledStart, PulledPull, PulledAfter
    <3>. QED BY <1>1, <2>2, <2>3, <3>1, <3>2 DEF DepsInv, DepsRenumbered
  <2>. QED BY <1>8, <2>4, <2>5 DEF Later
<1>. QED BY <1>4, <1>5, <1>6, <1>7, <1>8 DEF Next, Later

-----------------------------------------------------------------------------
(* The SQL.                                                                 *)

\* The type of a mutate tells what its object is.
LEMMA MutateKind ==
  ASSUME doc \in Docs, NEW k \in DOMAIN mutates, Written(k)
  PROVE  /\ mutates[k].x \in Objects
         /\ Modifier(mutates[k].x) => mutates[k].type \in {"connect", "disconnect"}
         /\ ~Modifier(mutates[k].x) => mutates[k].type \in {"none", doc.op}
         /\ mutates[k].type = doc.op <=> ~Modifier(mutates[k].x) /\ ~HasModifier(mutates[k].x)
         /\ mutates[k].type = "none" <=> ~Modifier(mutates[k].x) /\ HasModifier(mutates[k].x)
         /\ doc.op \in Ops
<1>1. mutates[k].x \in Objects BY DEF Written
<1>2. doc.op \in Ops /\ doc.kind[mutates[k].x] \in Kinds BY <1>1, DocFacts
<1>3. Modifier(mutates[k].x) => doc.kind[mutates[k].x] \in {"connect", "disconnect"}
  BY DEF Modifier, Modifies
<1>. QED BY <1>1, <1>2, <1>3 DEF Written, Ops

\* What a statement reads and does not have in its own WITH is the name of one
\* that is rendered before.
LEMMA ReadsEarlier ==
  ASSUME DepsInv, Uniform(doc), phase = "render", grown = {}, NEW n \in DOMAIN mutates,
         Rendered(mutates[n]), NEW t \in Statement(mutates[n]).from \ Statement(mutates[n]).with
  PROVE  \E j \in DOMAIN mutates : j < n /\ Rendered(mutates[j]) /\ CteName(mutates[j]) = t
<1>. DEFINE m == mutates[n]
<1>1. ShapeInv /\ AllRendered /\ MTypes BY DEF DepsInv, ShapeInv, TreeInv
<1>2. /\ DOMAIN mutates = 1..Len(mutates) /\ Len(mutates) \in Nat /\ doc \in Docs
      /\ \A k \in DOMAIN mutates : Written(k)
      /\ \A k \in DOMAIN mutates : doc.up[mutates[k].x] # 0 => IsWritten(doc.up[mutates[k].x])
      /\ \A j, k \in DOMAIN mutates :
            mutates[j].x = doc.up[mutates[k].x] => IF After(mutates[k].x) THEN j < k ELSE k < j
  BY <1>1, MutatesShape
<1>3. PICK d \in m.deps : t = CteName(At(d)) BY DEF Statement
<1>4. m.type # "none"
  <2>1. doc.op \in Ops BY <1>2, DocFacts
  <2>. QED BY <2>1 DEF Rendered, Ops
<1>5. PulledDep(m.x, d)
  <2>1. PulledDeps(n) BY DEF DepsInv, DepsPulled
  <2>. QED BY <1>4, <2>1 DEF PulledDeps
<1>. DEFINE s == mutates[d + 1]
<1>6. d + 1 \in DOMAIN mutates /\ At(d) = s BY <1>5 DEF PulledDep, At
<1>7. Written(n) /\ Written(d + 1) /\ m.x \in Objects /\ s.x \in Objects
      /\ m \in MutateSet
  <2>1. Written(n) /\ Written(d + 1) BY <1>2, <1>6
  <2>. QED BY <2>1 DEF Written
<1>8. ~(~Modifier(m.x) /\ Modifier(s.x))
  <2>. SUFFICES ASSUME ~Modifier(m.x), Modifier(s.x) PROVE FALSE
    OBVIOUS
  <2>1. s.type \in {"connect", "disconnect"} BY <1>2, <1>6, <1>7, MutateKind
  <2>2. m.type \in {"insert", "update", "upsert"}
    <3>1. doc.op # "delete" BY <1>2, <1>7, DocFacts DEF Modifier
    <3>. QED BY <1>2, <1>4, <1>7, <3>1, MutateKind DEF Ops
  <2>3. d \in Within(m) BY <1>6, <2>1 DEF Within
  <2>4. t \in Statement(m).with BY <1>3, <2>2, <2>3 DEF Statement
  <2>. QED BY <2>4
<1>9. Source(m.x, s.x) /\ s.type # "none"
  BY <1>5, <1>8 DEF PulledDep, Unpulled
<1>10. d + 1 < n /\ ~Modifier(s.x)
  <2>1. CASE ~Modifier(m.x) /\ doc.up[m.x] # 0 /\ s.x = doc.up[m.x] /\ After(m.x)
    <3>1. d + 1 < n BY <1>2, <1>6, <2>1
    <3>2. ~Modifier(doc.up[m.x]) BY <1>2, <1>7, <2>1, ParentFacts
    <3>. QED BY <2>1, <3>1, <3>2
  <2>2. CASE Modifier(m.x) /\ s.x = Above(m.x) /\ s.x # 0 /\ After(doc.up[m.x])
    <3>1. doc.up[m.x] # 0 /\ After(m.x) BY <2>2 DEF Modifier, After
    <3>2. PICK y \in DOMAIN mutates : mutates[y].x = doc.up[m.x]
      BY <1>2, <3>1 DEF IsWritten
    <3>3. y < n BY <1>2, <3>1, <3>2
    <3>4. s.x = doc.up[doc.up[m.x]] BY <2>2 DEF Above
    <3>5. d + 1 < y BY <1>2, <1>6, <2>2, <3>2, <3>4
    <3>6. d + 1 < n BY <1>2, <1>6, <3>3, <3>5
    <3>. DEFINE p == doc.up[m.x]
    <3>7. p \in Objects BY <1>2, <1>7, <3>1, ParentFacts
    <3>8. ~Modifier(s.x)
      <4>1. doc.up[p] = s.x BY <3>4
      <4>. HIDE DEF p
      <4>2. ~Modifier(doc.up[p]) BY <1>2, <2>2, <3>7, <4>1, ParentFacts
      <4>. QED BY <4>1, <4>2
    <3>. QED BY <3>6, <3>8
  <2>3. CASE doc.up[s.x] = m.x /\ ~After(s.x)
    <3>1. d + 1 < n BY <1>2, <1>6, <2>3
    <3>. QED BY <2>3, <3>1 DEF After, Modifier
  <2>. QED BY <1>9, <2>1, <2>2, <2>3 DEF Source
<1>11. Rendered(s)
  <2>1. s.type = doc.op BY <1>2, <1>6, <1>7, <1>9, <1>10, MutateKind
  <2>. QED BY <2>1 DEF Rendered
<1>. QED BY <1>3, <1>6, <1>10, <1>11

-----------------------------------------------------------------------------
\* s holds the statements of the mutates before the n-th.
RenderOf(s, n) ==
  /\ s \in Seq({Statement(mutates[j]) : j \in DOMAIN mutates})
  /\ \A j \in DOMAIN mutates :
        j < n /\ Rendered(mutates[j]) => \E l \in DOMAIN s : s[l] = Statement(mutates[j])
  /\ \A l \in DOMAIN s :
        \E j \in DOMAIN mutates : j < n /\ Rendered(mutates[j]) /\ s[l] = Statement(mutates[j])
  /\ \A l, q \in DOMAIN s : l # q => s[l].x # s[q].x
  /\ grown = {} =>
       \A k \in DOMAIN s : \A t \in s[k].from \ s[k].with : \E l \in 1..(k - 1) : s[l].name = t

\* The SQL, while it is rendered and after.
InSql ==
  CASE phase = "render" -> RenderOf(sql, i)
    [] phase = "done"   -> RenderOf(sql, Len(mutates) + 1)
    [] OTHER            -> sql = <<>>

\* Before the first there is none.
LEMMA RenderNone == RenderOf(<<>>, 1) <=> \A j \in DOMAIN mutates : ~(j < 1 /\ Rendered(mutates[j]))
<1>. DEFINE S == {Statement(mutates[j]) : j \in DOMAIN mutates}
<1>1. <<>> \in Seq(S) /\ DOMAIN <<>> = {}
  <2>. HIDE DEF S
  <2>. QED OBVIOUS
<1>. QED BY <1>1 DEF RenderOf

\* This depends on the mutates, the document and the history alone.
LEMMA RenderSame ==
  ASSUME doc' = doc, mutates' = mutates, grown' = grown, NEW s, NEW n
  PROVE  RenderOf(s, n)' <=> RenderOf(s, n)
<1>1. \A m : (Rendered(m)' <=> Rendered(m)) /\ CteName(m)' = CteName(m) BY DEF Rendered, CteName
<1>2. \A m : Within(m)' = Within(m) BY DEF Within, At
<1>3. \A id : At(id)' = At(id) BY DEF At
<1>4. \A id : CteName(At(id))' = CteName(At(id)) BY <1>1, <1>3
<1>5. \A m : Statement(m)' = Statement(m) BY <1>1, <1>2, <1>4 DEF Statement
<1>6. \A j \in DOMAIN mutates :
         Statement(mutates[j])' = Statement(mutates[j]) /\ (Rendered(mutates[j])' <=> Rendered(mutates[j]))
  BY <1>1, <1>5
<1>7. {Statement(mutates[j]) : j \in DOMAIN mutates}' = {Statement(mutates[j]) : j \in DOMAIN mutates}
  BY <1>6
<1>. QED BY <1>6, <1>7 DEF RenderOf

\* One more statement, if the mutate has one.
LEMMA RenderMore ==
  ASSUME DepsInv, Uniform(doc), phase = "render", NEW n \in DOMAIN mutates, NEW s, RenderOf(s, n)
  PROVE  RenderOf(IF Rendered(mutates[n]) THEN Append(s, Statement(mutates[n])) ELSE s, n + 1)
<1>. DEFINE m == mutates[n]
            S == {Statement(mutates[j]) : j \in DOMAIN mutates}
            a == Statement(m)
            r == Append(s, a)
<1>1. /\ DOMAIN mutates = 1..Len(mutates) /\ Len(mutates) \in Nat
      /\ \A j, k \in DOMAIN mutates : j # k => mutates[j].x # mutates[k].x
  BY MutatesShape DEF DepsInv
<1>2. \A j \in DOMAIN mutates : j < n + 1 <=> j < n \/ j = n BY <1>1
<1>3. CASE ~Rendered(m)
  <2>. HIDE DEF m
  <2>1. \A j \in DOMAIN mutates :
           j < n + 1 /\ Rendered(mutates[j]) <=> j < n /\ Rendered(mutates[j])
    BY <1>2, <1>3 DEF m
  <2>2. RenderOf(s, n + 1) BY <2>1 DEF RenderOf
  <2>. QED BY <1>3, <2>2 DEF m
<1>4. CASE Rendered(m)
  <2>1. s \in Seq(S) /\ a \in S BY DEF RenderOf
  <2>. HIDE DEF S, a
  <2>2. /\ r \in Seq(S) /\ Len(s) \in Nat /\ DOMAIN s = 1..Len(s)
        /\ Len(r) = Len(s) + 1 /\ r[Len(s) + 1] = a
        /\ \A l \in 1..Len(s) : r[l] = s[l]
    BY <2>1, AppendProperties, LenProperties
  <2>3. DOMAIN r = 1..(Len(s) + 1) BY <2>2, LenProperties
  <2>. HIDE DEF r
  <2>4. ASSUME NEW j \in DOMAIN mutates, j < n + 1, Rendered(mutates[j])
        PROVE  \E l \in DOMAIN r : r[l] = Statement(mutates[j])
    <3>1. CASE j = n BY <3>1, <2>2, <2>3 DEF a
    <3>2. CASE j < n
      <4>1. PICK l \in DOMAIN s : s[l] = Statement(mutates[j]) BY <2>4, <3>2 DEF RenderOf
      <4>2. l \in DOMAIN r /\ r[l] = s[l] BY <2>2, <2>3
      <4>. QED BY <4>1, <4>2
    <3>. QED BY <1>2, <2>4, <3>1, <3>2
  <2>5. ASSUME NEW l \in DOMAIN r
        PROVE  \/ l = Len(s) + 1 /\ r[l] = a
               \/ l \in DOMAIN s /\ r[l] = s[l]
    BY <2>2, <2>3
  <2>6. ASSUME NEW l \in DOMAIN r
        PROVE  \E j \in DOMAIN mutates : j < n + 1 /\ Rendered(mutates[j]) /\ r[l] = Statement(mutates[j])
    <3>1. CASE l = Len(s) + 1 /\ r[l] = a
      <4>1. n < n + 1 BY <1>1
      <4>. QED BY <1>4, <3>1, <4>1 DEF a
    <3>2. CASE l \in DOMAIN s /\ r[l] = s[l]
      <4>1. PICK j \in DOMAIN mutates : j < n /\ Rendered(mutates[j]) /\ s[l] = Statement(mutates[j])
        BY <3>2 DEF RenderOf
      <4>. QED BY <1>2, <3>2, <4>1
    <3>. QED BY <2>5, <3>1, <3>2
  <2>7. a.x = m.x BY DEF a, Statement
  <2>8. ASSUME NEW l \in DOMAIN s PROVE s[l].x # m.x
    <3>1. PICK j \in DOMAIN mutates : j < n /\ s[l] = Statement(mutates[j]) BY DEF RenderOf
    <3>2. j # n BY <1>1, <3>1
    <3>3. s[l].x = mutates[j].x BY <3>1 DEF Statement
    <3>. QED BY <1>1, <3>2, <3>3
  <2>9. ASSUME NEW l \in DOMAIN r, NEW q \in DOMAIN r, l # q PROVE r[l].x # r[q].x
    <3>1. CASE l \in DOMAIN s /\ r[l] = s[l] /\ q \in DOMAIN s /\ r[q] = s[q]
      BY <3>1, <2>9 DEF RenderOf
    <3>2. CASE l = Len(s) + 1 /\ r[l] = a /\ q \in DOMAIN s /\ r[q] = s[q]
      BY <3>2, <2>7, <2>8
    <3>3. CASE q = Len(s) + 1 /\ r[q] = a /\ l \in DOMAIN s /\ r[l] = s[l]
      BY <3>3, <2>7, <2>8
    <3>. QED BY <2>5, <2>9, <3>1, <3>2, <3>3
  <2>10. ASSUME grown = {}, NEW k \in DOMAIN r, NEW t \in r[k].from \ r[k].with
         PROVE  \E l \in 1..(k - 1) : r[l].name = t
    <3>1. CASE k = Len(s) + 1 /\ r[k] = a
      <4>1. PICK j \in DOMAIN mutates : j < n /\ Rendered(mutates[j]) /\ CteName(mutates[j]) = t
        BY <1>4, <2>10, <3>1, ReadsEarlier DEF a
      <4>2. PICK l \in DOMAIN s : s[l] = Statement(mutates[j]) BY <4>1 DEF RenderOf
      <4>3. s[l].name = t BY <4>1, <4>2 DEF Statement
      <4>4. l \in 1..(k - 1) /\ r[l] = s[l] BY <2>2, <3>1
      <4>. QED BY <4>3, <4>4
    <3>2. CASE k \in DOMAIN s /\ r[k] = s[k]
      <4>1. PICK l \in 1..(k - 1) : s[l].name = t BY <2>10, <3>2 DEF RenderOf
      <4>2. r[l] = s[l] BY <2>2, <3>2
      <4>. QED BY <4>1, <4>2
    <3>. QED BY <2>5, <3>1, <3>2
  <2>11. r \in Seq({Statement(mutates[j]) : j \in DOMAIN mutates}) BY <2>2 DEF S
  <2>12. RenderOf(r, n + 1) BY <2>4, <2>6, <2>9, <2>10, <2>11 DEF RenderOf
  <2>. QED BY <1>4, <2>12 DEF r, a
<1>. QED BY <1>3, <1>4

\* The inductive invariant for the SQL.
SqlInv == DepsInv /\ InSql

\* It holds at the start ...
LEMMA SqlInit == Init => SqlInv
<1>. SUFFICES ASSUME Init PROVE SqlInv
  OBVIOUS
<1>1. phase = "stack" /\ sql = <<>> BY DEF Init
<1>2. InSql BY <1>1, Zenon DEF InSql
<1>. QED BY <1>2, DepsInit DEF SqlInv

\* ... and in every step.
LEMMA SqlNext ==
  ASSUME SqlInv, Uniform(doc), [Next]_vars
  PROVE  SqlInv'
<1>1. DepsInv /\ DepsInv' /\ MTypes BY DepsInvNext DEF SqlInv, DepsInv, ShapeInv, TreeInv
<1>2. InSql BY DEF SqlInv
<1>3. CASE StartRender
  <2>1. /\ phase = "pull" /\ phase' = "render" /\ i' = 1 /\ sql' = sql
        /\ doc' = doc /\ mutates' = mutates /\ grown' = grown
    BY <1>3 DEF StartRender, To
  <2>2. sql = <<>> BY <1>2, <2>1 DEF InSql
  <2>3. DOMAIN mutates = 1..Len(mutates) /\ Len(mutates) \in Nat BY <1>1, LineFacts
  <2>4. RenderOf(<<>>, 1) BY <2>3, RenderNone
  <2>5. RenderOf(<<>>, 1)' BY <2>1, <2>4, RenderSame
  <2>6. RenderOf(sql, i)' BY <2>1, <2>2, <2>5
  <2>. QED BY <1>1, <2>1, <2>6 DEF SqlInv, InSql
<1>4. CASE Render
  <2>1. /\ phase = "render" /\ phase' = "render" /\ i' = i + 1
        /\ doc' = doc /\ mutates' = mutates /\ grown' = grown /\ i <= Len(mutates) /\ i \in Nat /\ i >= 1
        /\ sql' = IF Rendered(mutates[i]) THEN Append(sql, Statement(mutates[i])) ELSE sql
    BY <1>1, <1>4 DEF Render, To, MTypes
  <2>2. i \in DOMAIN mutates BY <1>1, <2>1, LineFacts
  <2>3. RenderOf(sql, i) BY <1>2, <2>1 DEF InSql
  <2>4. PICK s : s = IF Rendered(mutates[i]) THEN Append(sql, Statement(mutates[i])) ELSE sql
    OBVIOUS
  <2>5. PICK n : n = i + 1 OBVIOUS
  <2>6. RenderOf(s, n) BY <1>1, <2>1, <2>2, <2>3, <2>4, <2>5, RenderMore
  <2>7. RenderOf(s, n)' BY <2>1, <2>6, RenderSame
  <2>8. sql' = s /\ i' = n BY <2>1, <2>4, <2>5
  <2>9. RenderOf(sql, i)' BY <2>7, <2>8
  <2>. QED BY <1>1, <2>1, <2>9 DEF SqlInv, InSql
<1>5. CASE Finish
  <2>1. /\ phase = "render" /\ phase' = "done" /\ i > Len(mutates) /\ i \in Nat
        /\ UNCHANGED <<doc, mutates, grown, sql>>
    BY <1>1, <1>5 DEF Finish, MTypes
  <2>2. DOMAIN mutates = 1..Len(mutates) /\ Len(mutates) \in Nat BY <1>1, LineFacts
  <2>3. \A j \in DOMAIN mutates : j < i /\ j < Len(mutates) + 1 BY <2>1, <2>2
  <2>4. RenderOf(sql, i) BY <1>2, <2>1 DEF InSql
  <2>5. PICK n : n = Len(mutates) + 1 OBVIOUS
  <2>6. PICK s : s = sql OBVIOUS
  <2>7. RenderOf(s, n) BY <2>3, <2>4, <2>5, <2>6 DEF RenderOf
  <2>8. RenderOf(s, n)' BY <2>1, <2>7, RenderSame
  <2>9. RenderOf(sql, Len(mutates) + 1)' BY <2>1, <2>5, <2>6, <2>8
  <2>. QED BY <1>1, <2>1, <2>9 DEF SqlInv, InSql
<1>6. CASE UNCHANGED vars
  <2>1. UNCHANGED <<doc, mutates, grown, sql, phase, i>> BY <1>6 DEF vars
  <2>2. PICK s : s = sql OBVIOUS
  <2>3. \A n : RenderOf(s, n)' <=> RenderOf(s, n) BY <2>1, RenderSame
  <2>4. RenderOf(sql, i)' <=> RenderOf(sql, i) BY <2>1, <2>2, <2>3
  <2>5. RenderOf(sql, Len(mutates) + 1)' <=> RenderOf(sql, Len(mutates) + 1) BY <2>1, <2>2, <2>3
  <2>6. InSql' BY <1>2, <2>1, <2>4, <2>5 DEF InSql
  <2>. QED BY <1>1, <2>6 DEF SqlInv
<1>7. CASE PopRendered \/ NewMutate \/ Rejected \/ StartRenumber \/ Renumber \/ RenumberDep
           \/ RenumberNext \/ StartPull \/ Pull
  <2>1. phase \notin {"render", "done"} /\ phase' \notin {"render", "done"} /\ sql' = sql
    BY <1>7, NewMutateIs DEF PopRendered, NewMutate, Rejected, StartRenumber, Renumber,
       RenumberDep, RenumberNext, StartPull, Pull, To
  <2>. QED BY <1>1, <1>2, <2>1 DEF SqlInv, InSql
<1>. QED BY <1>3, <1>4, <1>5, <1>6, <1>7 DEF Next

\* It says what Ordered says.
LEMMA SqlInvOrdered == SqlInv => Ordered
<1>. SUFFICES ASSUME SqlInv PROVE Ordered
  OBVIOUS
<1>1. CASE phase = "render" BY <1>1 DEF SqlInv, InSql, RenderOf, Ordered
<1>2. CASE phase = "done" BY <1>2 DEF SqlInv, InSql, RenderOf, Ordered
<1>3. CASE phase \notin {"render", "done"}
  <2>1. sql = <<>> BY <1>3 DEF SqlInv, InSql
  <2>. QED BY <2>1 DEF Ordered
<1>. QED BY <1>1, <1>2, <1>3

\* For documents in which no object has both modifiers and other children, and while
\* the loop over the dependencies meets no number that it has put in itself: whatever a
\* statement reads is rendered before it, or in a WITH of its own.
THEOREM OrdersStatements ==
  ASSUME \A d \in Docs : Uniform(d)
  PROVE  Spec => []Ordered
<1>1. SqlInv => Uniform(doc) BY DEF SqlInv, DepsInv, ShapeInv, TreeInv, MTypes
<1>2. SqlInv /\ [Next]_vars => SqlInv' BY <1>1, SqlNext
<1>. QED BY <1>2, SqlInit, SqlInvOrdered, PTL DEF Spec

\* No object is forgotten, by induction over the objects.
LEMMA EveryObject ==
  ASSUME DepsInv, phase \notin {"stack", "error"}, doc.op # "upsert", NEW x \in Objects
  PROVE  IsWritten(x)
<1>. DEFINE U == {y \in Objects : ~IsWritten(y)}
<1>. SUFFICES ASSUME U # {} PROVE FALSE
  OBVIOUS
<1>1. doc \in Docs /\ Objects \subseteq Nat BY DocFacts DEF DepsInv, ShapeInv, TreeInv, MTypes
<1>2. PICK y \in U : \A z \in U : y <= z
  <2>1. U \subseteq Nat BY <1>1
  <2>. HIDE DEF U
  <2>. QED BY <2>1, Least
<1>3. /\ \A c \in Objects : doc.up[c] = 0 => IsWritten(c)
      /\ \A k \in DOMAIN mutates : \A c \in Objects : doc.up[c] = mutates[k].x => IsWritten(c)
  BY MutatesShape DEF DepsInv
<1>4. doc.up[y] # 0 BY <1>3
<1>5. doc.up[y] \in Objects /\ doc.up[y] < y BY <1>1, <1>4, ParentFacts
<1>6. IsWritten(doc.up[y])
  <2>1. doc.up[y] \in Nat /\ y \in Nat BY <1>1, <1>5
  <2>2. ~(y <= doc.up[y]) BY <1>5, <2>1
  <2>3. doc.up[y] \notin U BY <1>2, <2>2
  <2>. QED BY <1>5, <2>3
<1>7. PICK k \in DOMAIN mutates : mutates[k].x = doc.up[y] BY <1>6 DEF IsWritten
<1>. QED BY <1>3, <1>7

\* The invariant says what WrittenOnce says.
LEMMA SqlInvOnce == SqlInv => WrittenOnce
<1>. SUFFICES ASSUME SqlInv, phase = "done", doc.op # "upsert", NEW x \in Objects, IsData(x)
              PROVE  Cardinality({k \in DOMAIN sql : sql[k].x = x}) = 1
  BY DEF WrittenOnce
<1>1. DepsInv /\ RenderOf(sql, Len(mutates) + 1) BY DEF SqlInv, InSql
<1>2. /\ DOMAIN mutates = 1..Len(mutates) /\ Len(mutates) \in Nat /\ doc \in Docs
      /\ \A k \in DOMAIN mutates : Written(k)
  BY <1>1, MutatesShape DEF DepsInv
<1>3. PICK j \in DOMAIN mutates : mutates[j].x = x
  BY <1>1, EveryObject DEF IsWritten
<1>4. ~Modifier(x) /\ ~HasModifier(x) BY DEF IsData, Modifier, HasModifier
<1>5. mutates[j].type = doc.op BY <1>2, <1>3, <1>4, MutateKind
<1>6. Rendered(mutates[j]) BY <1>5 DEF Rendered
<1>7. j < Len(mutates) + 1 BY <1>2
<1>8. PICK l \in DOMAIN sql : sql[l] = Statement(mutates[j]) BY <1>1, <1>6, <1>7 DEF RenderOf
<1>9. sql[l].x = x BY <1>3, <1>8 DEF Statement
<1>10. \A k \in DOMAIN sql : sql[k].x = x => k = l BY <1>1, <1>9 DEF RenderOf
<1>11. {k \in DOMAIN sql : sql[k].x = x} = {l} BY <1>9, <1>10
<1>. QED BY <1>11, FS_Singleton

\* For the same documents: each object that is data, with nothing connected to it, gets
\* one statement.
THEOREM WritesOnce ==
  ASSUME \A d \in Docs : Uniform(d)
  PROVE  Spec => []WrittenOnce
<1>1. SqlInv => Uniform(doc) BY DEF SqlInv, DepsInv, ShapeInv, TreeInv, MTypes
<1>2. SqlInv /\ [Next]_vars => SqlInv' BY <1>1, SqlNext
<1>. QED BY <1>2, SqlInit, SqlInvOnce, PTL DEF Spec

-----------------------------------------------------------------------------
\* The statement of x is rendered.
InStatements(x) == \E l \in DOMAIN sql : sql[l].x = x

\* A mutate that comes before is rendered, or its row is there.
LEMMA Earlier ==
  ASSUME DepsInv, phase = "render", NEW n \in DOMAIN mutates, RenderOf(sql, n),
         NEW j \in DOMAIN mutates, j < n, ~Modifier(mutates[j].x)
  PROVE  InStatements(mutates[j].x) \/ HasModifier(mutates[j].x)
<1>1. doc \in Docs /\ Written(j) BY MutatesShape DEF DepsInv
<1>2. CASE ~HasModifier(mutates[j].x)
  <2>1. mutates[j].type = doc.op BY <1>1, <1>2, MutateKind
  <2>2. Rendered(mutates[j]) BY <2>1 DEF Rendered
  <2>3. PICK l \in DOMAIN sql : sql[l] = Statement(mutates[j]) BY <2>2 DEF RenderOf
  <2>4. sql[l].x = mutates[j].x BY <2>3 DEF Statement
  <2>. QED BY <2>4 DEF InStatements
<1>. QED BY <1>2

\* No statement is rendered twice.
LEMMA NotBefore ==
  ASSUME DepsInv, phase = "render", NEW n \in DOMAIN mutates, RenderOf(sql, n)
  PROVE  ~InStatements(mutates[n].x)
<1>1. /\ DOMAIN mutates = 1..Len(mutates) /\ Len(mutates) \in Nat
      /\ \A j, k \in DOMAIN mutates : j # k => mutates[j].x # mutates[k].x
  BY MutatesShape DEF DepsInv
<1>2. ASSUME NEW l \in DOMAIN sql PROVE sql[l].x # mutates[n].x
  <2>1. PICK j \in DOMAIN mutates : j < n /\ sql[l] = Statement(mutates[j]) BY DEF RenderOf
  <2>2. j # n BY <1>1, <2>1
  <2>3. sql[l].x = mutates[j].x BY <2>1 DEF Statement
  <2>. QED BY <1>1, <2>2, <2>3
<1>. QED BY <1>2 DEF InStatements

\* The words of RowOrder are those of Mutation.
LEMMA RowOrderIs ==
  ASSUME doc \in Docs
  PROVE  /\ RO!Objects = Objects
         /\ \A x : /\ RO!Kids(x) = {c \in Objects : doc.up[c] = x}
                   /\ RO!Modifier(x) <=> Modifier(x)
                   /\ x # 0 => (RO!Present(x) <=> HasModifier(x))
<1>1. RO!Objects = Objects
  <2>1. doc.up \in Seq(0..MaxObjects) BY DocsAssumption
  <2>. QED BY <2>1, LenProperties DEF Objects, RO!Objects
<1>2. \A x : RO!Modifier(x) <=> Modifier(x) BY DEF RO!Modifier, Modifier, Modifies
<1>3. \A x : RO!Kids(x) = {c \in Objects : doc.up[c] = x} BY <1>1 DEF RO!Kids
<1>4. ASSUME NEW x, x # 0 PROVE RO!Present(x) <=> HasModifier(x)
  BY <1>2, <1>3, <1>4 DEF RO!Present, HasModifier, Modifier
<1>. QED BY <1>1, <1>2, <1>3, <1>4

\* What the row of x refers to is written, or there.
LEMMA RefersEarlier ==
  ASSUME DepsInv, Uniform(doc), phase = "render", doc.op = "insert",
         NEW n \in DOMAIN mutates, RenderOf(sql, n), Rendered(mutates[n]),
         NEW y \in RO!Refers(mutates[n].x)
  PROVE  InStatements(y) \/ RO!Present(y)
<1>. DEFINE m == mutates[n]
            x == m.x
<1>1. /\ DOMAIN mutates = 1..Len(mutates) /\ Len(mutates) \in Nat /\ doc \in Docs
      /\ \A k \in DOMAIN mutates : Written(k)
      /\ \A k \in DOMAIN mutates : doc.up[mutates[k].x] # 0 => IsWritten(doc.up[mutates[k].x])
      /\ \A j, k \in DOMAIN mutates :
            mutates[j].x = doc.up[mutates[k].x] => IF After(mutates[k].x) THEN j < k ELSE k < j
  BY MutatesShape DEF DepsInv
<1>2. /\ x \in Objects /\ m.rel = RelOf(x) /\ Written(n) BY <1>1 DEF Written
<1>3. ASSUME NEW j \in DOMAIN mutates, j < n, ~Modifier(mutates[j].x), mutates[j].x = y
      PROVE  InStatements(y) \/ RO!Present(y)
  <2>1. InStatements(y) \/ HasModifier(y) BY <1>3, Earlier
  <2>2. y # 0
    <3>1. y \in Objects BY <1>1, <1>3 DEF Written
    <3>. QED BY <1>1, <3>1, DocFacts
  <2>. QED BY <1>1, <2>1, <2>2, RowOrderIs
<1>4. CASE Modifier(x)
  <2>1. y = doc.up[doc.up[x]] BY <1>1, <1>4, RowOrderIs DEF RO!Refers
  <2>. DEFINE p == doc.up[x]
  <2>2. p # 0 /\ After(x) BY <1>4 DEF Modifier, After
  <2>3. p \in Objects BY <1>1, <1>2, <2>2, ParentFacts
  <2>4. m.type # doc.op BY <1>1, <1>4, <1>2, MutateKind
  <2>5. m.rel = "one" BY <2>4 DEF Rendered
  <2>6. doc.up[p] # 0 /\ doc.kind[p] = "one" BY <1>2, <1>4, <2>2, <2>5 DEF RelOf
  <2>7. PICK q \in DOMAIN mutates : mutates[q].x = p BY <1>1, <2>2 DEF IsWritten
  <2>8. q < n BY <1>1, <2>2, <2>7
  <2>9. PICK j \in DOMAIN mutates : mutates[j].x = doc.up[p] BY <1>1, <2>6, <2>7 DEF IsWritten
  <2>10. After(p) BY <2>6 DEF After
  <2>11. j < q BY <1>1, <2>7, <2>9, <2>10
  <2>12. j < n BY <1>1, <2>8, <2>11
  <2>13. ~Modifier(doc.up[p])
    <3>. HIDE DEF p
    <3>. QED BY <1>1, <2>3, <2>6, ParentFacts
  <2>. QED BY <1>3, <2>1, <2>9, <2>12, <2>13
<1>5. CASE ~Modifier(x)
  <2>1. \/ y = doc.up[x] /\ doc.up[x] # 0 /\ doc.kind[x] = "one"
        \/ y \in Objects /\ doc.up[y] = x /\ doc.kind[y] = "many"
    BY <1>1, <1>5, RowOrderIs DEF RO!Refers
  <2>2. CASE y = doc.up[x] /\ doc.up[x] # 0 /\ doc.kind[x] = "one"
    <3>1. After(x) BY <2>2 DEF After
    <3>2. PICK j \in DOMAIN mutates : mutates[j].x = doc.up[x] BY <1>1, <2>2 DEF IsWritten
    <3>3. j < n BY <1>1, <3>1, <3>2
    <3>4. ~Modifier(doc.up[x]) BY <1>1, <1>2, <2>2, ParentFacts
    <3>. QED BY <1>3, <2>2, <3>2, <3>3, <3>4
  <2>3. CASE y \in Objects /\ doc.up[y] = x /\ doc.kind[y] = "many"
    <3>1. ~After(y) /\ ~Modifier(y) BY <2>3 DEF After, Modifies, Modifier
    <3>2. PICK j \in DOMAIN mutates : mutates[j].x = y
      BY <2>3, EveryObject DEF IsWritten
    <3>3. j < n BY <1>1, <2>3, <3>1, <3>2
    <3>. QED BY <1>3, <3>1, <3>2, <3>3
  <2>. QED BY <2>1, <2>2, <2>3
<1>. QED BY <1>4, <1>5

\* The steps of the compiler are those of RowOrder, or change nothing of it.
LEMMA RowOrderNext ==
  ASSUME SqlInv, Uniform(doc), [Next]_vars
  PROVE  [RO!Next]_(RO!vars)
<1>. DEFINE W == {sql[k].x : k \in DOMAIN sql}
<1>1. DepsInv /\ InSql /\ MTypes /\ doc \in Docs
  BY DEF SqlInv, DepsInv, ShapeInv, TreeInv, MTypes
<1>2. doc' = doc /\ (Render \/ sql' = sql)
  <2>1. NewMutate => doc' = doc BY NewMutateIs DEF NewMutate
  <2>. QED BY <2>1 DEF Next, vars, PopRendered, NewMutate, Rejected, StartRenumber, Renumber,
           RenumberDep, RenumberNext, StartPull, Pull, StartRender, Render, Finish
<1>3. CASE sql' = sql BY <1>2, <1>3 DEF RO!vars
<1>4. CASE Render /\ Rendered(mutates[i])
  <2>. DEFINE m == mutates[i]
              x == m.x
              a == Statement(m)
  <2>1. /\ phase = "render" /\ i <= Len(mutates) /\ i \in Nat /\ i >= 1
        /\ sql' = Append(sql, a)
    BY <1>1, <1>4 DEF Render, MTypes
  <2>2. i \in DOMAIN mutates BY <1>1, <2>1, LineFacts
  <2>3. RenderOf(sql, i) BY <1>1, <2>1 DEF InSql
  <2>4. Written(i) /\ x \in Objects /\ x # 0
    <3>1. Written(i) BY <1>1, <2>1, <2>2, MutatesShape DEF DepsInv
    <3>2. x \in Objects BY <3>1 DEF Written
    <3>. QED BY <1>1, <3>1, <3>2, DocFacts
  <2>5. ~InStatements(x) BY <1>1, <2>1, <2>2, <2>3, NotBefore
  <2>6. W' = W \cup {x}
    <3>. DEFINE S == {Statement(mutates[j]) : j \in DOMAIN mutates}
    <3>1. sql \in Seq(S) /\ a \in S /\ a.x = x BY <2>2, <2>3 DEF RenderOf, Statement
    <3>. HIDE DEF S, a
    <3>2. /\ Append(sql, a) \in Seq(S) /\ Len(sql) \in Nat /\ DOMAIN sql = 1..Len(sql)
          /\ Len(Append(sql, a)) = Len(sql) + 1 /\ Append(sql, a)[Len(sql) + 1] = a
          /\ \A l \in 1..Len(sql) : Append(sql, a)[l] = sql[l]
      BY <3>1, AppendProperties, LenProperties
    <3>3. DOMAIN Append(sql, a) = 1..(Len(sql) + 1) BY <3>2, LenProperties
    <3>4. DOMAIN sql' = DOMAIN sql \cup {Len(sql) + 1} BY <2>1, <3>2, <3>3
    <3>5. \A k \in DOMAIN sql : sql'[k] = sql[k] BY <2>1, <3>2
    <3>6. sql'[Len(sql) + 1].x = x BY <2>1, <3>1, <3>2
    <3>7. ASSUME NEW y PROVE y \in W' <=> y \in W \cup {x}
      <4>1. y \in W' <=> \E k \in DOMAIN sql' : sql'[k].x = y OBVIOUS
      <4>. QED BY <4>1, <3>4, <3>5, <3>6
    <3>. HIDE DEF W, x
    <3>. QED BY <3>7
  <2>7. ~RO!Present(x)
    <3>1. CASE m.type = doc.op
      <4>1. ~HasModifier(x) BY <1>1, <2>2, <2>4, <3>1, MutateKind
      <4>. QED BY <1>1, <2>4, <4>1, RowOrderIs
    <3>2. CASE m.type # doc.op
      <4>1. m.type \in {"connect", "disconnect"} BY <1>4, <3>2 DEF Rendered
      <4>2. Modifier(x)
        <5>1. ~Modifier(x) => m.type \in {"none", doc.op} BY <1>1, <2>2, <2>4, MutateKind
        <5>. QED BY <4>1, <3>2, <5>1
      <4>3. ~HasModifier(x)
        <5>1. ASSUME NEW c \in Objects, doc.up[c] = x PROVE FALSE
          <6>1. doc.up[c] # 0 BY <2>4, <5>1
          <6>2. ~Modifier(doc.up[c]) BY <1>1, <6>1, ParentFacts
          <6>. QED BY <4>2, <5>1, <6>2
        <5>. QED BY <5>1 DEF HasModifier
      <4>. QED BY <1>1, <2>4, <4>3, RowOrderIs
    <3>. QED BY <3>1, <3>2
  <2>8. ASSUME doc.op = "insert", NEW y \in RO!Refers(x) PROVE y \in W \/ RO!Present(y)
    <3>1. InStatements(y) \/ RO!Present(y)
      BY <1>1, <1>4, <2>1, <2>2, <2>3, <2>8, RefersEarlier
    <3>. QED BY <3>1 DEF InStatements
  <2>9. x \notin W BY <2>5 DEF InStatements
  <2>10. PICK z : z = x OBVIOUS
  <2>. HIDE DEF x
  <2>11. RO!Write(z)
    <3>1. z \notin W /\ ~RO!Present(z) /\ W' = W \cup {z}
      BY <2>6, <2>7, <2>9, <2>10
    <3>2. doc.op = "insert" => \A y \in RO!Refers(z) : y \in W \/ RO!Present(y)
      BY <2>8, <2>10
    <3>. QED BY <1>2, <3>1, <3>2, Zenon DEF RO!Write
  <2>12. z \in RO!Objects BY <1>1, <2>4, <2>10, RowOrderIs
  <2>13. RO!Next BY <2>11, <2>12 DEF RO!Next
  <2>. QED BY <2>13
<1>5. CASE Render /\ ~Rendered(mutates[i])
  <2>1. sql' = sql BY <1>5 DEF Render
  <2>. QED BY <1>2, <2>1 DEF RO!vars
<1>. QED BY <1>2, <1>3, <1>4, <1>5

\* For the same documents: the order of the stack implements RowOrder, where a row is
\* written after those it refers to.
THEOREM ImplementsRowOrder ==
  ASSUME \A d \in Docs : Uniform(d)
  PROVE  Spec => CreatesInOrder
<1>1. SqlInv => Uniform(doc) BY DEF SqlInv, DepsInv, ShapeInv, TreeInv, MTypes
<1>2. SqlInv /\ [Next]_vars => SqlInv' BY <1>1, SqlNext
<1>3. SqlInv /\ [Next]_vars => [RO!Next]_(RO!vars) BY <1>1, RowOrderNext
<1>4. Init => RO!Init
  <2>. SUFFICES ASSUME Init PROVE RO!Init
    OBVIOUS
  <2>1. sql = <<>> BY DEF Init
  <2>. QED BY <2>1 DEF RO!Init
<1>. QED BY <1>2, <1>3, <1>4, SqlInit, PTL DEF Spec, CreatesInOrder, RO!Spec

=============================================================================
