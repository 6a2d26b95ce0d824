------------------------------ MODULE Mutation ------------------------------
(***************************************************************************)
(* How a nested mutation becomes statements (compileMutation and newMutate  *)
(* in core/internal/qcode/mutate.go; renderInsert, renderUpdate and         *)
(* renderUpsert of core/internal/psql).                                     *)
(*                                                                          *)
(* A document is a forest of objects, numbered so that children come after  *)
(* their parents and siblings are in order.  An object is data for a table  *)
(* ("one" when its row refers to its parent's, "many" when the parent's row *)
(* refers to it; `find` chooses between them for a recursive relation), or  *)
(* it connects or disconnects rows of its parent's table.  An inline list   *)
(* is a row of siblings, a list in a variable is one object.                *)
(*                                                                          *)
(* The stack holds objects still to be looked at and, below the statements  *)
(* they need, statements; its order is that of the SQL.  Statements are     *)
(* numbered again when all are known.                                       *)
(***************************************************************************)
EXTENDS Integers, Sequences, FiniteSets

CONSTANTS
  Docs,      \* the documents
  MaxObjects,
  MapSlots   \* the keys that a map of Go's runtime holds before it grows, 8

NoParent == -1

\* A delete has no data: it is one object, which newMutate adds nothing to, so the
\* loops below leave the one mutate that compileMutation returns with at once.
Ops == {"insert", "update", "upsert", "delete"}
Kinds == {"one", "many", "connect", "disconnect"}

\* A document: doc.up[k] is the parent of object k, 0 for a root, whose kind says
\* nothing.
ASSUME DocsAssumption ==
  /\ MaxObjects \in Nat /\ MapSlots \in Nat
  /\ \A d \in Docs :
        /\ d.op \in Ops
        /\ d.up \in Seq(0..MaxObjects) /\ d.kind \in Seq(Kinds)
        /\ Len(d.up) \in 1..MaxObjects
        /\ DOMAIN d.kind = DOMAIN d.up /\ DOMAIN d.table = DOMAIN d.up
        /\ d.up[1] = 0
        /\ d.op = "delete" => Len(d.up) = 1
        /\ \A i \in DOMAIN d.up :
              /\ d.up[i] \in 0..(i - 1)
              /\ d.kind[i] \in Kinds
              /\ d.up[i] # 0 => d.kind[d.up[i]] \in {"one", "many"}

\* Of the objects in the same one either all connect or disconnect or none does.
Uniform(d) ==
  \A j, k \in DOMAIN d.up :
     d.up[j] = d.up[k] /\ d.up[j] # 0 =>
       (d.kind[j] \in {"connect", "disconnect"} <=> d.kind[k] \in {"connect", "disconnect"})

VARIABLES
  doc,
  phase,     \* the loop that runs: "stack", "ids" (within it "deps"), "pull", "render"
  stack,     \* the stack of mutates, its top last
  nextId,    \* ms.id
  mutates,
  mmap,      \* the new number of each old one
  i,         \* the index of the loop that runs
  todo,      \* the dependencies of mutates[i] still to be renumbered
  grown,     \* history: the mutates with more dependencies than MapSlots
  sql        \* the statements that are rendered, in order

vars == <<doc, phase, stack, nextId, mutates, mmap, i, todo, grown, sql>>

-----------------------------------------------------------------------------
(* Objects and mutates. *)

Objects == 1..Len(doc.up)

\* The members of a subset S of 1..n in ascending order. A recursive function,
\* of which one can prove something, in place of SelectSeq.
Ascending(S, n) ==
  LET upto[k \in 0..n] ==
        IF k = 0 THEN <<>>
        ELSE IF k \in S THEN Append(upto[k - 1], k) ELSE upto[k - 1]
  IN upto[n]

Kids(x) == Ascending({c \in Objects : doc.up[c] = x}, Len(doc.up))
Modifies(c) == doc.kind[c] \in {"connect", "disconnect"}

Mutate(x, id, parent, type, table, rel) ==
  [x |-> x, id |-> id, parent |-> parent, type |-> type, table |-> table, rel |-> rel,
   deps |-> {}, children |-> <<>>, multi |-> FALSE, render |-> FALSE]

\* processList at the root: one mutate for each object.
Roots ==
  LET r == Kids(0)
  IN [k \in 1..Len(r) |-> Mutate(r[k], k - 1, NoParent, doc.op, doc.table[r[k]], "root")]

\* Mutant: ms.id is not counted up between siblings.
ItemSameId(m, k) ==
  LET c == Kids(m.x)[k]
  IN [Mutate(c, nextId, m.id, m.type, doc.table[c], doc.kind[c]) EXCEPT !.render = Modifies(c)]

\* The mutate of the k-th child.  One that connects stands beside m, below the
\* same parent; a sibling that comes after it is of type none, as m is by then.
Item(m, k) ==
  LET kids == Kids(m.x)
      c == kids[k]
      none == \E l \in 1..(k - 1) : Modifies(kids[l])
  IN IF Modifies(c)
     THEN [Mutate(c, nextId + k - 1, m.parent, doc.kind[c], m.table, m.rel)
             EXCEPT !.render = TRUE]
     ELSE Mutate(c, nextId + k - 1, m.id, IF none THEN "none" ELSE m.type,
                 doc.table[c], doc.kind[c])

Items(m) == [k \in 1..Len(Kids(m.x)) |-> Item(m, k)]

TypeAfter(m) == IF \E k \in DOMAIN Items(m) : Modifies(Items(m)[k].x) THEN "none" ELSE m.type

OfRel(items, rel) ==
  LET at == Ascending({k \in DOMAIN items : items[k].rel = rel}, Len(items))
  IN [j \in DOMAIN at |-> items[at[j]]]
IdsOf(items) == {items[k].id : k \in DOMAIN items}

\* addTablesAndColumns: the statements that m takes the columns of.
DependsOn(m, items) ==
  LET above == IF m.rel = "one" THEN {m.parent} ELSE {}
  IN CASE m.type = "insert" -> above \cup IdsOf(OfRel(items, "many"))
       [] m.type = "update" -> IF m.rel \in {"one", "many"} THEN {m.parent} ELSE {}
       [] OTHER             -> above

\* A child that refers to a parent which is not rendered depends on the one above.
WithDeps(m, v) ==
  IF m.type \notin {"insert", "update"} /\ v.rel = "one"
  THEN [v EXCEPT !.deps = @ \cup {m.parent}]
  ELSE v

\* Mutants: the order of the query for inserts too; children that refer to the new
\* row are forgotten.
PushedAsWritten(m, items) == IF m.type = "upsert" THEN <<m>> ELSE items \o <<m>>
PushedParents(m, items) ==
  IF m.type = "insert" THEN <<m>> \o OfRel(items, "many") ELSE items \o <<m>>

\* For inserts the rows that others refer to come first; for updates the order
\* is the one of the query (newMutate).
Pushed(m, items) ==
  CASE m.type = "insert" -> OfRel(items, "one") \o <<m>> \o OfRel(items, "many")
    [] m.type = "upsert" -> <<m>>
    [] OTHER             -> items \o <<m>>

\* processNestedMutations knows connect for inserts and updates, disconnect for
\* updates; any other name must be a column.
Unknown(m) ==
  \E k \in DOMAIN Items(m) :
    LET c == Items(m)[k].x
    IN Modifies(c) /\ (doc.op = "upsert" \/ (doc.op = "insert" /\ doc.kind[c] = "disconnect"))

-----------------------------------------------------------------------------
(* compileMutation: the loop over the stack. *)

Top == stack[Len(stack)]
Rest == SubSeq(stack, 1, Len(stack) - 1)

PopRendered ==
  /\ phase = "stack" /\ stack # <<>>
  /\ Top.render
  /\ mmap' = [k \in DOMAIN mmap \cup {Top.id} |-> IF k = Top.id THEN Len(mutates) ELSE mmap[k]]
  /\ mutates' = Append(mutates, Top)
  /\ stack' = Rest
  /\ UNCHANGED <<doc, phase, nextId, i, todo, grown, sql>>

NewMutate ==
  /\ phase = "stack" /\ stack # <<>>
  /\ ~Top.render /\ ~Unknown(Top)
  /\ LET items == Items(Top)
         m1 == [Top EXCEPT !.type = TypeAfter(Top), !.render = TRUE,
                           !.children = [k \in DOMAIN items |-> items[k].id]]
         m == [m1 EXCEPT !.deps = @ \cup DependsOn(m1, items)]
     IN /\ stack' = Rest \o Pushed(m, [k \in DOMAIN items |-> WithDeps(m, items[k])])
        /\ nextId' = nextId + Len(items)
  /\ UNCHANGED <<doc, phase, mutates, mmap, i, todo, grown, sql>>

\* A column, a role or a filter is refused, or there is no filter where one must be.
Rejected ==
  /\ phase = "stack" /\ stack # <<>>
  /\ ~Top.render
  /\ phase' = "error"
  /\ UNCHANGED <<doc, stack, nextId, mutates, mmap, i, todo, grown, sql>>

-----------------------------------------------------------------------------
(* compileMutation: all get the number of their place, then a mutate that is *)
(* not rendered hands the ones below it to its parent.                       *)

New(id) == IF id \in DOMAIN mmap THEN mmap[id] ELSE 0

To(p, k) == phase' = p /\ i' = k

StartRenumber ==
  /\ phase = "stack" /\ stack = <<>>
  /\ To("ids", 1)
  /\ UNCHANGED <<doc, stack, nextId, mutates, mmap, todo, grown, sql>>

Renumber ==
  /\ phase = "ids" /\ i <= Len(mutates)
  /\ mutates' = [mutates EXCEPT ![i].id = New(@), ![i].parent = New(@),
                                ![i].children = [k \in DOMAIN @ |-> New(@[k])]]
  /\ todo' = mutates[i].deps
  /\ grown' = grown \cup {k \in {i} : Cardinality(mutates[k].deps) > MapSlots}
  /\ To("deps", i)
  /\ UNCHANGED <<doc, stack, nextId, mmap, sql>>

\* The loop over the map takes its keys in any order. A key that it adds, and that
\* was not there, may be met as well, says Go; in a map that has not grown it takes
\* the place of one deleted and is not met.
MetLater(id) ==
  {new \in {New(id)} : i \in grown /\ new \notin mutates[i].deps \ {id}}

RenumberDep ==
  /\ phase = "deps"
  /\ \E id \in todo, more \in BOOLEAN :
        /\ mutates' = [mutates EXCEPT ![i].deps = (@ \ {id}) \cup {New(id)}]
        /\ todo' = (todo \ {id}) \cup (IF more THEN MetLater(id) ELSE {})
  /\ UNCHANGED <<doc, phase, stack, nextId, mmap, i, grown, sql>>

RenumberNext ==
  /\ phase = "deps" /\ todo = {}
  /\ To("ids", i + 1)
  /\ UNCHANGED <<doc, stack, nextId, mutates, mmap, todo, grown, sql>>

StartPull ==
  /\ phase = "ids" /\ i > Len(mutates)
  /\ To("pull", 1)
  /\ UNCHANGED <<doc, stack, nextId, mutates, mmap, todo, grown, sql>>

\* MUnions: the mutates of each table.
Union(t) == {k \in DOMAIN mutates : mutates[k].type # "none" /\ mutates[k].table = t}

WithMulti(m) == [m EXCEPT !.multi = Cardinality(Union(m.table)) > 1]

\* The numbers of mutates start at 0.
At(id) == mutates[id + 1]

PulledUp(m) ==
  {m.children[k] : k \in {l \in DOMAIN m.children : At(m.children[l]).rel = "many"}}

Pull ==
  /\ phase = "pull" /\ i <= Len(mutates)
  /\ LET m == mutates[i]
     IN mutates' = [k \in DOMAIN mutates |->
          LET mk == IF k = i THEN WithMulti(m) ELSE mutates[k]
          IN IF m.type = "none" /\ m.parent # NoParent /\ k = m.parent + 1
             THEN [mk EXCEPT !.deps = (@ \ {m.id}) \cup PulledUp(m)]
             ELSE mk]
  /\ To("pull", i + 1)
  /\ UNCHANGED <<doc, stack, nextId, mmap, todo, grown, sql>>

StartRender ==
  /\ phase = "pull" /\ i > Len(mutates)
  /\ To("render", 1)
  /\ UNCHANGED <<doc, stack, nextId, mutates, mmap, todo, grown, sql>>

-----------------------------------------------------------------------------
(* The SQL. *)

\* renderInsert, for upserts too, and renderUpdate.
Rendered(m) ==
  \/ m.type = doc.op
  \/ m.rel = "one" /\ m.type = "connect" /\ doc.op # "update"
  \/ m.rel = "one" /\ m.type \in {"connect", "disconnect"} /\ doc.op = "update"

\* renderCteName
CteName(m) == <<m.table, IF m.multi THEN m.id ELSE NoParent>>

\* renderOneToManyModifiers: a WITH of the statement's own.
Within(m) == {id \in m.deps : At(id).type \in {"connect", "disconnect"}}

Statement(m) ==
  [name |-> CteName(m), x |-> m.x, from |-> {CteName(At(id)) : id \in m.deps},
   with |-> IF m.type \in {"insert", "update", "upsert"}
            THEN {CteName(At(id)) : id \in Within(m)} ELSE {}]

Render ==
  /\ phase = "render" /\ i <= Len(mutates)
  /\ sql' = IF Rendered(mutates[i]) THEN Append(sql, Statement(mutates[i])) ELSE sql
  /\ To("render", i + 1)
  /\ UNCHANGED <<doc, stack, nextId, mutates, mmap, todo, grown>>

Finish ==
  /\ phase = "render" /\ i > Len(mutates)
  /\ phase' = "done"
  /\ UNCHANGED <<doc, stack, nextId, mutates, mmap, i, todo, grown, sql>>

-----------------------------------------------------------------------------
Init ==
  /\ doc \in Docs
  /\ phase = "stack"
  /\ stack = Roots
  /\ nextId = Len(Roots) + 1
  /\ mutates = <<>>
  /\ mmap = [k \in {NoParent} |-> NoParent]
  /\ i = 0
  /\ todo = {}
  /\ grown = {}
  /\ sql = <<>>

Next ==
  \/ PopRendered \/ NewMutate \/ Rejected
  \/ StartRenumber \/ Renumber \/ RenumberDep \/ RenumberNext
  \/ StartPull \/ Pull \/ StartRender \/ Render \/ Finish

Spec == Init /\ [][Next]_vars

-----------------------------------------------------------------------------
(* Properties. *)

\* What a statement reads is there: a statement rendered before it, or one of the
\* WITH of its own. SQL has no other order than that of the stack. It is said of
\* documents whose maps do not grow: a number met twice may name any mutate.
Ordered ==
  grown = {} => \A k \in DOMAIN sql : \A t \in sql[k].from \ sql[k].with :
     \E l \in 1..(k - 1) : sql[l].name = t

\* An object that is data, and has nothing connected, is written once.
IsData(x) ==
  /\ doc.up[x] = 0 \/ ~Modifies(x)
  /\ \A c \in Objects : doc.up[c] = x => ~Modifies(c)

WrittenOnce ==
  phase = "done" /\ doc.op # "upsert" =>
    \A x \in Objects : IsData(x) => Cardinality({k \in DOMAIN sql : sql[k].x = x}) = 1

\* The new numbers keep the tree of the document.
TreeKept ==
  phase \in {"pull", "render"} =>
    \A k \in DOMAIN mutates :
       LET m == mutates[k]
           up == doc.up[m.x]
           above == IF up # 0 /\ Modifies(m.x) THEN doc.up[up] ELSE up
       IN /\ m.id = k - 1
          /\ m.parent = NoParent <=> above = 0
          /\ above # 0 => At(m.parent).x = above

\* The statements write the objects in the order that RowOrder allows.
RO == INSTANCE RowOrder WITH written <- {sql[k].x : k \in DOMAIN sql}

CreatesInOrder == RO!Spec

=============================================================================
