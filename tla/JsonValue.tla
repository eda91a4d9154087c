------------------------------ MODULE JsonValue ------------------------------
(***************************************************************************)
(* The values of jansson (value.c, and the inline functions of jansson.h): counted *)
(* references, of the program and of the arrays and objects that hold a value.     *)
(* A function whose name ends in _new takes the reference of its caller, also      *)
(* when it fails, and gives it back then: but for json_object_iter_set_new, called *)
(* with no iterator.  The one without _new calls it with a reference more.          *)
(***************************************************************************)
EXTENDS Integers, Sequences, FiniteSets, SequencesExt

CONSTANTS
  Nodes,        \* blocks of memory: what there is no block for cannot be made
  Keys,         \* keys of objects
  FirstSize,    \* slots of a new array (8)
  MaxEntries,   \* bound: elements of all arrays and items of all objects together; a lost
                \* reference counts for two
  MaxHeld,      \* bound: references the program has to one value
  Junk          \* what a slot has behind the elements; no value

JsonValueAssumption ==
  FirstSize \in Nat \ {0} /\ {MaxEntries, MaxHeld} \subseteq Nat /\ Junk \notin Nodes

VARIABLES
  heap,         \* the values, each with its type and refcount, the table and the number of
                \* entries of an array, the items of an object; Junk: not allocated
  held,         \* the references of the program to each value
  asked,        \* what the calls so far should have made of each array
  lost          \* history: the references to each value that a call took and did not give back

vvars == <<heap, held, asked, lost>>

Leaf == [type |-> "integer", refcount |-> 1, table |-> <<>>, entries |-> 0, items |-> <<>>]

NewArray == [Leaf EXCEPT !.type = "array", !.table = [i \in 1 .. FirstSize |-> Junk]]

NewObject == [Leaf EXCEPT !.type = "object", !.items = [k \in Keys |-> Junk]]

Blank == <<>>

Init ==
  /\ heap = [n \in Nodes |-> Junk] /\ held = [n \in Nodes |-> 0]
  /\ asked = [n \in Nodes |-> Blank] /\ lost = [n \in Nodes |-> 0]

Live(h) == {n \in Nodes : h[n] # Junk}

\* Memory.
Free(h) == Nodes \ Live(h)
Block(h) == CHOOSE n \in Free(h) : TRUE

\* The elements of an array.
Elements(h, n) == SubSeq(h[n].table, 1, h[n].entries)

KeysOf(h, n) == IF h[n].type = "object" THEN {k \in Keys : h[n].items[k] # Junk} ELSE {}

\* All it holds: the elements, or the items in some order.
Contents(h, n) ==
  LET ks == SetToSeq(KeysOf(h, n)) IN
  Elements(h, n) \o [i \in DOMAIN ks |-> h[n].items[ks[i]]]

Children(h, n) == ToSet(Contents(h, n))

RECURSIVE ReachFrom(_, _)
ReachFrom(h, S) ==
  LET T == S \cup UNION {Children(h, n) : n \in S} IN IF T = S THEN S ELSE ReachFrom(h, T)

\* What the program can name: what it has a reference to, and what it gets from there.
Known == ReachFrom(heap, {n \in Nodes : held[n] > 0})

\* How many references the values of S hold.
Entries(S) ==
  FoldSet(LAMBDA n, sum : sum + heap[n].entries + Cardinality(KeysOf(heap, n)), 0, S)

Lost == FoldFunction(LAMBDA l, sum : l + sum, 0, lost)

Room(m) == Entries(Live(heap)) + 2 * Lost + m <= MaxEntries

-----------------------------------------------------------------------------
json_incref(h, n) == [h EXCEPT ![n].refcount = @ + 1]

\* json_delete gives back what an array or object has, one element after the other.
RECURSIVE json_decref(_, _)
json_decref(h, n) ==
  IF h[n].refcount > 1 THEN [h EXCEPT ![n].refcount = @ - 1]
  ELSE FoldLeft(json_decref, [h EXCEPT ![n] = Junk], Contents(h, n))

\* What is asked of the arrays that are left.
Wipe(h) == [n \in Nodes |-> IF h[n] = Junk THEN Blank ELSE asked[n]]

\* A call has left the heap so, and has taken the references taken.
Done(h, taken) ==
  /\ heap' = h
  /\ held' = [n \in Nodes |-> held[n] - (IF n \in taken THEN 1 ELSE 0)]
  /\ asked' = Wipe(h) /\ UNCHANGED lost

DoneArray(h, taken, a, seq) ==
  /\ heap' = h
  /\ held' = [n \in Nodes |-> held[n] - (IF n \in taken THEN 1 ELSE 0)]
  /\ asked' = [Wipe(h) EXCEPT ![a] = seq] /\ UNCHANGED lost

\* The caller's reference (X_new), or one more (X): the heap as X_new gets it.
Given(v, own) == IF own THEN heap ELSE json_incref(heap, v)
Taken(v, own) == IF own THEN {v} ELSE {}

\* json_array, json_object and json_integer (json_string and json_real are the same).
Create ==
  /\ Free(heap) # {}
  /\ \E new \in {NewArray, NewObject, Leaf} : heap' = [heap EXCEPT ![Block(heap)] = new]
  /\ held' = [held EXCEPT ![Block(heap)] = 1]
  /\ UNCHANGED <<asked, lost>>

Incref(n) ==
  /\ held[n] < MaxHeld
  /\ heap' = json_incref(heap, n) /\ held' = [held EXCEPT ![n] = @ + 1]
  /\ UNCHANGED <<asked, lost>>

Decref == \E n \in Nodes : held[n] > 0 /\ Done(json_decref(heap, n), {n})

-----------------------------------------------------------------------------
\* Arrays.  count slots of src from spos on to dest from dpos on, from 0.
array_copy(dest, dpos, src, spos, count) ==
  [i \in DOMAIN dest |->
     IF i \in dpos + 1 .. dpos + count THEN src[i - dpos + spos] ELSE dest[i]]

array_move(table, dest, src, count) == array_copy(table, dest, table, src, count)

\* Room for amount more: the table as it is, or a new one, empty.
Fits(t, n, amount) == n + amount <= Len(t)

BiggerTable(t, amount) ==
  [i \in 1 .. (IF amount > Len(t) THEN Len(t) + amount ELSE 2 * Len(t)) |-> Junk]

json_array_grow(t, n, amount) ==
  IF Fits(t, n, amount) THEN t ELSE array_copy(BiggerTable(t, amount), 0, t, 0, n)

\* Slots behind the elements count no more.
Tidy(t, n) == [i \in DOMAIN t |-> IF i <= n THEN t[i] ELSE Junk]

WithTable(h, a, t, n) == [h EXCEPT ![a].table = Tidy(t, n), ![a].entries = n]

json_array_set_new(a, index, v, own) ==
  LET h == Given(v, own) old == heap[a].table[index + 1] IN
  IF a = v \/ index >= heap[a].entries
    THEN Done(json_decref(h, v), Taken(v, own))
    ELSE LET g == json_decref(h, old) IN
         DoneArray([g EXCEPT ![a].table[index + 1] = v], Taken(v, own),
                   a, [Elements(heap, a) EXCEPT ![index + 1] = v])

json_array_append_new(a, v, own) ==
  LET h == Given(v, own) t == heap[a].table n == heap[a].entries IN
  \/ a = v /\ Done(json_decref(h, v), Taken(v, own))
  \/ ~Fits(t, n, 1) /\ Done(json_decref(h, v), Taken(v, own))       \* no memory
  \/ /\ a # v /\ Room(1)
     /\ DoneArray(WithTable(h, a, [json_array_grow(t, n, 1) EXCEPT ![n + 1] = v], n + 1),
                  Taken(v, own), a, Append(Elements(heap, a), v))

\* The elements from index on go up by one: into the new table, or in the old one.
MadeRoom(t, n, index) ==
  IF Fits(t, n, 1)
    THEN array_move(t, index + 1, index, n - index)
    ELSE array_copy(array_copy(BiggerTable(t, 1), 0, t, 0, index), index + 1, t, index, n - index)

json_array_insert_new(a, index, v, own) ==
  LET h == Given(v, own) t == heap[a].table n == heap[a].entries IN
  \/ (a = v \/ index > n) /\ Done(json_decref(h, v), Taken(v, own))
  \/ ~Fits(t, n, 1) /\ Done(json_decref(h, v), Taken(v, own))       \* no memory
  \/ /\ a # v /\ index <= n /\ Room(1)
     /\ DoneArray(WithTable(h, a, [MadeRoom(t, n, index) EXCEPT ![index + 1] = v], n + 1),
                  Taken(v, own), a, InsertAt(Elements(heap, a), index + 1, v))

json_array_remove(a, index) ==
  LET n == heap[a].entries IN
  /\ index < n
  /\ LET g == json_decref(heap, heap[a].table[index + 1])
         t == IF index < n - 1 THEN array_move(g[a].table, index, index + 1, n - index - 1)
                               ELSE g[a].table
     IN DoneArray(WithTable(g, a, t, n - 1), {}, a, RemoveAt(Elements(heap, a), index + 1))

json_array_clear(a) ==
  LET g == FoldLeft(json_decref, heap, Elements(heap, a)) IN
  DoneArray(WithTable(g, a, g[a].table, 0), {}, a, <<>>)

\* The elements of another array, or of the same; an array that is an element of the
\* other one becomes an element of itself.
json_array_extend_NoRef(a, b) ==
  LET n == heap[a].entries m == heap[b].entries
      t == json_array_grow(heap[a].table, n, m)
  IN /\ Room(m)
     /\ DoneArray(WithTable(heap, a, array_copy(t, n, heap[b].table, 0, m), n + m), {},
                  a, Elements(heap, a) \o Elements(heap, b))

json_array_extend(a, b) ==
  LET n == heap[a].entries m == heap[b].entries
      t == json_array_grow(heap[a].table, n, m)
      h == FoldLeft(json_incref, heap, Elements(heap, b))
  IN /\ Room(m)
     /\ DoneArray(WithTable(h, a, array_copy(t, n, heap[b].table, 0, m), n + m), {},
                  a, Elements(heap, a) \o Elements(heap, b))

-----------------------------------------------------------------------------
\* Objects.  hashtable_set gives back what was there; memory may be short for a new key.
StoreItem(h, o, k, v) ==
  LET old == h[o].items[k]
      g == IF old = Junk THEN h ELSE json_decref(h, old)
  IN [g EXCEPT ![o].items[k] = v]

json_object_set_new(o, k, v, own) ==
  LET h == Given(v, own) IN
  \/ (o = v \/ heap[o].items[k] = Junk) /\ Done(json_decref(h, v), Taken(v, own))
  \/ o # v /\ Room(1) /\ Done(StoreItem(h, o, k, v), Taken(v, own))

\* Through an iterator the object may also become an item of itself.  With none, as of a key
\* the object has not, it fails and does not give the reference back.
json_object_iter_set_new(o, k, v, own) ==
  \/ heap[o].items[k] # Junk /\ Done(StoreItem(Given(v, own), o, k, v), Taken(v, own))
  \/ /\ heap[o].items[k] = Junk
     /\ Room(2)
     /\ heap' = Given(v, own) /\ held' = [held EXCEPT ![v] = @ - Cardinality(Taken(v, own))]
     /\ lost' = [lost EXCEPT ![v] = @ + 1]
     /\ UNCHANGED asked

json_object_del(o, k) ==
  /\ heap[o].items[k] # Junk
  /\ Done([json_decref(heap, heap[o].items[k]) EXCEPT ![o].items[k] = Junk], {})

json_object_clear(o) ==
  LET g == FoldLeft(json_decref, heap, Contents(heap, o)) IN
  Done([g EXCEPT ![o].items = [k \in Keys |-> Junk]], {})

\* json_object_update goes through the keys in the order of the table and stops at the
\* first that cannot be set, with those before it set: the object itself is such a one.
\* json_object_update_existing and _missing take some keys only, and go on.
Updated(o, p, ks) ==
  FoldLeft(LAMBDA h, k : StoreItem(json_incref(h, heap[p].items[k]), o, k, heap[p].items[k]),
           heap, ks)

json_object_update(o, p) ==
  \E ks \in SetToSeqs(KeysOf(heap, p)) :
    \E stop \in {i \in DOMAIN ks : heap[p].items[ks[i]] = o} \cup {Len(ks) + 1} :
      /\ \A i \in 1 .. stop - 1 : heap[p].items[ks[i]] # o
      /\ Room(stop - 1) /\ Done(Updated(o, p, SubSeq(ks, 1, stop - 1)), {})

json_object_update_some(o, p) ==
  \E there \in BOOLEAN :
    LET ks == {k \in Keys : /\ heap[p].items[k] \notin {Junk, o}
                            /\ (heap[o].items[k] # Junk) = there}
    IN Room(Cardinality(ks)) /\ Done(Updated(o, p, SetToSeq(ks)), {})

-----------------------------------------------------------------------------
\* Copies, as far as there are blocks for them.
\* json_copy: a new array or object with the same elements.
json_copy(n) ==
  /\ Free(heap) # {} /\ Room(Len(Contents(heap, n)))
  /\ LET new == Block(heap)
         elems == Elements(heap, n)
         h == FoldLeft(json_incref, heap, Contents(heap, n))
         table == FoldLeft(LAMBDA t, i : [json_array_grow(t, i - 1, 1) EXCEPT ![i] = elems[i]],
                           IF heap[n].type = "array" THEN NewArray.table ELSE <<>>,
                           [i \in DOMAIN elems |-> i])
     IN /\ heap' = [h EXCEPT ![new] = [heap[n] EXCEPT !.refcount = 1, !.table = table]]
        /\ held' = [held EXCEPT ![new] = 1]
        /\ asked' = [asked EXCEPT ![new] = elems]
        /\ UNCHANGED lost

Acyclic(n) == \A m \in ReachFrom(heap, {n}) : m \notin ReachFrom(heap, Children(heap, m))

\* json_deep_copy: the heap after it and the copy, Junk when there was no block; what an
\* element has no copy of is left out (the results of the calls are not looked at).
RECURSIVE DeepCopy(_, _)
DeepCopy(h, n) ==
  IF Free(h) = {} THEN [heap |-> h, copy |-> Junk]
  ELSE
  LET new == Block(h)
      start == [heap |-> [h EXCEPT ![new] = CASE heap[n].type = "array" -> NewArray
                                              [] heap[n].type = "object" -> NewObject
                                              [] OTHER -> Leaf],
                copy |-> new]
      append(r, x) ==
        LET c == DeepCopy(r.heap, x)
            a == c.heap[new]
        IN IF c.copy = Junk THEN r
           ELSE [r EXCEPT !.heap = WithTable(c.heap, new,
                   [json_array_grow(a.table, a.entries, 1) EXCEPT ![a.entries + 1] = c.copy],
                   a.entries + 1)]
      set(r, k) ==
        LET c == DeepCopy(r.heap, heap[n].items[k]) IN
        IF c.copy = Junk THEN r
        ELSE [r EXCEPT !.heap = [c.heap EXCEPT ![new].items[k] = c.copy]]
  IN IF heap[n].type = "object"
       THEN FoldLeft(set, start, SetToSeq(KeysOf(heap, n)))
       ELSE FoldLeft(append, start, Elements(heap, n))

json_deep_copy(n) ==
  /\ Free(heap) # {} /\ Acyclic(n)
  /\ Room(Entries(ReachFrom(heap, {n})))
  /\ LET r == DeepCopy(heap, n) IN
     /\ heap' = r.heap
     /\ held' = [held EXCEPT ![r.copy] = 1]
     /\ asked' = [m \in Nodes |-> IF heap[m] = Junk /\ r.heap[m] # Junk
                                    THEN Elements(r.heap, m) ELSE asked[m]]
     /\ UNCHANGED lost

Calls(known) ==
  LET arrays == {n \in known : heap[n].type = "array"}
      objects == {n \in known : heap[n].type = "object"}
      values == {<<v, own>> \in known \X BOOLEAN : own => held[v] > 0}
  IN
  \/ \E n \in known : Incref(n) \/ json_copy(n) \/ json_deep_copy(n)
  \/ \E a \in arrays, v \in values :
       \/ json_array_append_new(a, v[1], v[2])
       \/ \E index \in 0 .. heap[a].entries : json_array_set_new(a, index, v[1], v[2])
       \/ \E index \in 0 .. heap[a].entries + 1 : json_array_insert_new(a, index, v[1], v[2])
  \/ \E a \in arrays : \/ json_array_clear(a)
                       \/ \E index \in 0 .. heap[a].entries - 1 : json_array_remove(a, index)
                       \/ \E b \in arrays : json_array_extend(a, b)
  \/ \E o \in objects, k \in Keys :
       \/ json_object_del(o, k)
       \/ \E v \in values : \/ json_object_set_new(o, k, v[1], v[2])
                            \/ json_object_iter_set_new(o, k, v[1], v[2])
  \/ \E o \in objects : \/ json_object_clear(o)
                        \/ \E p \in objects : json_object_update(o, p) \/ json_object_update_some(o, p)

Next == Create \/ Decref \/ \E known \in {Known} : Calls(known)

Spec == Init /\ [][Next]_vvars

-----------------------------------------------------------------------------
InArray(n, m) == Cardinality({i \in 1 .. heap[n].entries : heap[n].table[i] = m})

InObject(n, m) ==
  IF heap[n].type = "object" THEN Cardinality({k \in Keys : heap[n].items[k] = m}) ELSE 0

RECURSIVE SumOver(_, _, _)
SumOver(Op(_, _), S, m) ==
  IF S = {} THEN 0 ELSE LET n == CHOOSE n \in S : TRUE IN Op(n, m) + SumOver(Op, S \ {n}, m)

\* The count of a value is the number of references to it, of the program and of arrays
\* and objects, and a value nobody refers to is gone: no call keeps a reference it should
\* give back, or gives back one twice, and one call alone forgets one it took, which stays
\* counted: json_object_iter_set_new with no iterator (value.c:245).
RefcountIsExact ==
  \A m \in Nodes :
    held[m] + SumOver(InArray, Live(heap), m) + SumOver(InObject, Live(heap), m) + lost[m]
      = IF heap[m] = Junk THEN 0 ELSE heap[m].refcount

\* An array has the elements the calls ask for, in their order, whether the table had
\* room, was moved within itself or had to grow.
ArrayIsAsAsked == \A n \in Live(heap) : Elements(heap, n) = asked[n]
=============================================================================
