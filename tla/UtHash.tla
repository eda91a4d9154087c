------------------------------- MODULE UtHash -------------------------------
(***************************************************************************)
(* The hash table of uthash.h, in which mboot_api.c keeps its threads by name.  *)
(* The table has no memory for its elements: each carries a handle with four     *)
(* pointers, two for the list in the order they were added, two for its bucket.   *)
(* There are no two elements with one key: that is left to the program.           *)
(***************************************************************************)
EXTENDS Integers, Sequences, FiniteSets, SequencesExt

CONSTANTS
  Elements,
  KeyOf,        \* of each element
  HASH_FCN,     \* of each key
  Rank,         \* of each element: what the compare function of HASH_SORT goes by
  HASH_INITIAL_NUM_BUCKETS,
  HASH_BKT_CAPACITY_THRESH,
  MaxBuckets,   \* bound
  Nil

UtHashAssumption ==
  /\ KeyOf \in [Elements -> DOMAIN HASH_FCN] /\ HASH_FCN \in [DOMAIN HASH_FCN -> Nat]
  /\ Rank \in [Elements -> Nat] /\ Nil \notin Elements
  /\ HASH_INITIAL_NUM_BUCKETS \in Nat \ {0} /\ HASH_BKT_CAPACITY_THRESH \in Nat \ {0}
  /\ MaxBuckets \in Nat

VARIABLES
  head,         \* the pointer of the program; Nil: there is no table
  hh,           \* the handle of each element
  tbl,          \* the UT_hash_table
  order         \* the order of the elements the calls so far ask for

uvars == <<head, hh, tbl, order>>

Unlinked == [prev |-> Nil, next |-> Nil, hh_prev |-> Nil, hh_next |-> Nil]

EmptyBucket == [hh_head |-> Nil, count |-> 0, expand_mult |-> 0]

HASH_MAKE_TABLE(e) ==
  [buckets |-> [b \in 0 .. HASH_INITIAL_NUM_BUCKETS - 1 |-> EmptyBucket],
   num_items |-> 0, tail |-> e, ineff_expands |-> 0, noexpand |-> FALSE]

Init ==
  /\ head = Nil /\ hh = [e \in Elements |-> Unlinked] /\ tbl = Nil
  /\ order = <<>>

\* The elements from e on along a pointer of the handles.
RECURSIVE Walk(_, _)
Walk(e, next) == IF e = Nil THEN <<>> ELSE <<e>> \o Walk(next[e], next)

ChainOf(t, b) == Walk(t.tbl.buckets[b].hh_head, [e \in Elements |-> t.hh[e].hh_next])

num_buckets(t) == Cardinality(DOMAIN t.tbl.buckets)

HASH_TO_BKT(e, num_bkts) == HASH_FCN[KeyOf[e]] % num_bkts

-----------------------------------------------------------------------------
\* In front of a bucket.
Push(t, b, e) ==
  LET first == t.tbl.buckets[b].hh_head
      handles == [t.hh EXCEPT ![e].hh_next = first, ![e].hh_prev = Nil]
  IN [t EXCEPT !.hh = IF first = Nil THEN handles ELSE [handles EXCEPT ![first].hh_prev = e],
               !.tbl.buckets[b].hh_head = e, !.tbl.buckets[b].count = @ + 1]

\* Twice the buckets.  A bucket with more than its share may grow for longer, and after two
\* expansions that did not help there are no more.
HASH_EXPAND_BUCKETS(t) ==
  LET n == num_buckets(t)
      ideal == (t.tbl.num_items + 2 * n - 1) \div (2 * n)
      chains == FlattenSeq([i \in 1 .. n |-> ChainOf(t, i - 1)])
      empty == [t EXCEPT !.tbl.buckets = [b \in 0 .. 2 * n - 1 |-> EmptyBucket]]
      Move(r, e) ==
        LET b == HASH_TO_BKT(e, 2 * n)
            s == Push(r.t, b, e)
            count == s.tbl.buckets[b].count
        IN IF count > ideal
             THEN [t |-> [s EXCEPT !.tbl.buckets[b].expand_mult = count \div ideal],
                   nonideal |-> r.nonideal + 1]
             ELSE [r EXCEPT !.t = s]
      done == FoldLeft(Move, [t |-> empty, nonideal |-> 0], chains)
      ineff == IF done.nonideal > t.tbl.num_items \div 2 THEN t.tbl.ineff_expands + 1 ELSE 0
  IN [done.t EXCEPT !.tbl.ineff_expands = ineff,
                    !.tbl.noexpand = @ \/ ineff > 1]

HASH_ADD_TO_BKT(t, b, e) ==
  LET s == Push(t, b, e)
      bucket == s.tbl.buckets[b]
  IN IF bucket.count >= (bucket.expand_mult + 1) * HASH_BKT_CAPACITY_THRESH /\ ~s.tbl.noexpand
       THEN HASH_EXPAND_BUCKETS(s) ELSE s

HASH_ADD_KEYPTR(t, e) ==
  LET tail == t.tbl.tail
      last == IF t.head = Nil
                THEN [head |-> e, hh |-> [t.hh EXCEPT ![e] = Unlinked], tbl |-> HASH_MAKE_TABLE(e)]
                ELSE [t EXCEPT !.hh = [@ EXCEPT ![e].next = Nil, ![e].prev = tail, ![tail].next = e],
                               !.tbl.tail = e]
  IN HASH_ADD_TO_BKT([last EXCEPT !.tbl.num_items = @ + 1], HASH_TO_BKT(e, num_buckets(last)), e)

HASH_FIND(t, k) ==
  LET match == IF t.head = Nil THEN <<>>
               ELSE SelectSeq(ChainOf(t, HASH_FCN[k] % num_buckets(t)), LAMBDA e : KeyOf[e] = k)
  IN IF match = <<>> THEN Nil ELSE match[1]

\* Who points to e shall point to what e pointed to.
HASH_DEL_IN_BKT(t, b, e) ==
  LET p == t.hh[e].hh_prev n == t.hh[e].hh_next
      skipped == IF p = Nil THEN t.hh ELSE [t.hh EXCEPT ![p].hh_next = n]
  IN [t EXCEPT !.tbl.buckets[b].count = @ - 1,
               !.tbl.buckets[b].hh_head = IF @ = e THEN n ELSE @,
               !.hh = IF n = Nil THEN skipped ELSE [skipped EXCEPT ![n].hh_prev = p]]

\* With its last element the table goes too.
HASH_DELETE(t, e) ==
  LET p == t.hh[e].prev n == t.hh[e].next
      skipped == IF p = Nil THEN t.hh ELSE [t.hh EXCEPT ![p].next = n]
      unlinked == [t EXCEPT !.head = IF p = Nil THEN n ELSE @,
                            !.tbl.tail = IF @ = e THEN p ELSE @,
                            !.tbl.num_items = @ - 1,
                            !.hh = IF n = Nil THEN skipped ELSE [skipped EXCEPT ![n].prev = p]]
  IN IF p = Nil /\ n = Nil THEN [t EXCEPT !.head = Nil, !.tbl = Nil]
     ELSE HASH_DEL_IN_BKT(unlinked, HASH_TO_BKT(e, num_buckets(t)), e)

-----------------------------------------------------------------------------
\* The merge sort of the list: runs of insize elements, two at a time, until there is one
\* merge.  Of equals the first comes first.
RECURSIVE Merge(_, _)
Merge(p, q) ==
  IF p = <<>> THEN q
  ELSE IF q = <<>> THEN p
  ELSE IF Rank[p[1]] <= Rank[q[1]] THEN <<p[1]>> \o Merge(Tail(p), q)
  ELSE <<q[1]>> \o Merge(p, Tail(q))

Pass(list, insize) ==
  LET Piece(i, n) == SubSeq(list, i, IF i + n - 1 < Len(list) THEN i + n - 1 ELSE Len(list)) IN
  FlattenSeq([m \in 1 .. (Len(list) + 2 * insize - 1) \div (2 * insize) |->
    LET i == 1 + (m - 1) * 2 * insize IN Merge(Piece(i, insize), Piece(i + insize, insize))])

RECURSIVE Sorted(_, _)
Sorted(list, insize) ==
  IF Len(list) <= 2 * insize THEN Pass(list, insize)
                             ELSE Sorted(Pass(list, insize), 2 * insize)

\* The list is linked anew, and head and tail with it; the buckets are as they were.
HASH_SORT(t) ==
  LET list == Sorted(Walk(t.head, [e \in Elements |-> t.hh[e].next]), 1)
      At(e) == CHOOSE i \in DOMAIN list : list[i] = e
      Elem(i) == IF i \in DOMAIN list THEN list[i] ELSE Nil
  IN [t EXCEPT !.head = list[1], !.tbl.tail = Last(list),
               !.hh = [e \in Elements |->
                         IF e \notin ToSet(list) THEN @[e]
                         ELSE [@[e] EXCEPT !.prev = Elem(At(e) - 1), !.next = Elem(At(e) + 1)]]]

-----------------------------------------------------------------------------
Now == [head |-> head, hh |-> hh, tbl |-> tbl]

\* What is in a handle that is in no table is of no use.
Becomes(t, asked) ==
  /\ t.tbl # Nil => num_buckets(t) <= MaxBuckets
  /\ head' = t.head /\ tbl' = t.tbl /\ order' = asked
  /\ hh' = [e \in Elements |-> IF e \in ToSet(asked) THEN t.hh[e] ELSE Unlinked]

Absent(k) == \A e \in ToSet(order) : KeyOf[e] # k

HASH_ADD(e) == Absent(KeyOf[e]) /\ Becomes(HASH_ADD_KEYPTR(Now, e), Append(order, e))

HASH_DEL(e) == e \in ToSet(order) /\ Becomes(HASH_DELETE(Now, e), Remove(order, e))

\* What has this key goes, if there is such a one.
HASH_REPLACE(e) ==
  LET replaced == HASH_FIND(Now, KeyOf[e]) IN
  /\ e \notin ToSet(order)
  /\ IF replaced = Nil
       THEN Becomes(HASH_ADD_KEYPTR(Now, e), Append(order, e))
       ELSE Becomes(HASH_ADD_KEYPTR(HASH_DELETE(Now, replaced), e),
                    Append(Remove(order, replaced), e))

ByRank ==
  LET ranks == SetToSortSeq({Rank[e] : e \in Elements}, <) IN
  FlattenSeq([r \in DOMAIN ranks |-> SelectSeq(order, LAMBDA e : Rank[e] = ranks[r])])

HASH_SRT == head # Nil /\ Becomes(HASH_SORT(Now), ByRank)

HASH_CLEAR == head # Nil /\ Becomes([Now EXCEPT !.head = Nil, !.tbl = Nil], <<>>)

Next ==
  \/ \E e \in Elements : HASH_ADD(e) \/ HASH_DEL(e) \/ HASH_REPLACE(e)
  \/ HASH_SRT \/ HASH_CLEAR

Spec == Init /\ [][Next]_uvars

-----------------------------------------------------------------------------
\* What HASH_FSCK checks when HASH_DEBUG is defined: the pointers back are those forward,
\* and the counts are those of the chains.
Backwards(list, prev) ==
  \A i \in DOMAIN list : prev[list[i]] = IF i = 1 THEN Nil ELSE list[i - 1]

HASH_FSCK ==
  LET list == Walk(head, [e \in Elements |-> hh[e].next])
      chains == [b \in DOMAIN tbl.buckets |-> ChainOf(Now, b)]
  IN head # Nil =>
       /\ \A b \in DOMAIN chains : /\ Backwards(chains[b], [e \in Elements |-> hh[e].hh_prev])
                                   /\ tbl.buckets[b].count = Len(chains[b])
       /\ Backwards(list, [e \in Elements |-> hh[e].prev])
       /\ Len(list) = tbl.num_items
       /\ FoldSet(LAMBDA b, n : n + Len(chains[b]), 0, DOMAIN chains) = tbl.num_items

\* The two linkings of the elements stay one table, through every order of additions,
\* deletions, expansions and sorts: HASH_FSCK has nothing to say, the list is in the order
\* that was asked for with tail at its end, and every element is found by its key.
LinksAgree ==
  /\ HASH_FSCK
  /\ Walk(head, [e \in Elements |-> hh[e].next]) = order
  /\ head # Nil => tbl.tail = Last(order)
  /\ \A k \in DOMAIN HASH_FCN :
       HASH_FIND(Now, k) = IF Absent(k) THEN Nil
                           ELSE CHOOSE e \in ToSet(order) : KeyOf[e] = k
=============================================================================
