------------------------------ MODULE JsonHash ------------------------------
(***************************************************************************)
(* The hash table of jansson's objects (hashtable.c).  All pairs are in one    *)
(* doubly linked list, and a bucket is two pointers into it: a bucket is right   *)
(* only as long as its pairs stand together there.  The program keeps an         *)
(* iterator, which is a pointer to a pair.                                       *)
(***************************************************************************)
EXTENDS Integers, Sequences, FiniteSets, SequencesExt

CONSTANTS
  Primes,       \* the sizes of the table, smallest first
  Keys,         \* the keys of the program
  hash_str,     \* the hash of each key
  Values,       \* the values the program stores under each key
  Nil          \* &hashtable->list, the end of the list; also: no pair

JsonHashAssumption ==
  /\ Primes \in Seq(Nat \ {0}) /\ Len(Primes) > 0
  /\ hash_str \in [Keys -> Nat] /\ Nil \notin Keys

VARIABLES
  list,         \* the keys of the pairs from list.next to list.prev
  value,        \* pair->value of the pairs in the list
  size,         \* hashtable->size
  num_buckets,  \* index of Primes, from 1
  buckets,      \* [first, last] of each bucket; <<>>: freed
  iter,         \* the pair of the program's iterator, Nil: none
  seen,         \* what the iteration has come past
  moved         \* the table was hashed anew, or has a new key, since it began

table == <<list, value, size, num_buckets, buckets>>
hvars == <<table, iter, seen, moved>>

NoPair == [first |-> Nil, last |-> Nil]

Empty(n) == [i \in 0 .. Primes[n] - 1 |-> NoPair]

Init ==
  /\ list = <<>> /\ value = [k \in {} |-> Nil] /\ size = 0
  /\ num_buckets = 1 /\ buckets = Empty(1)
  /\ iter = Nil /\ seen = <<>> /\ moved = FALSE

\* What the calls below look at: the list, the buckets and their number.
Now == [list |-> list, buckets |-> buckets, n |-> num_buckets]

At(l, k) == CHOOSE i \in DOMAIN l : l[i] = k

\* list->next and list->prev.
NextOf(l, k) ==
  LET i == IF k = Nil THEN 0 ELSE At(l, k) IN IF i = Len(l) THEN Nil ELSE l[i + 1]

PrevOf(l, k) == IF At(l, k) = 1 THEN Nil ELSE l[At(l, k) - 1]

Index(k, n) == hash_str[k] % Primes[n]

\* In front of the first pair of its bucket, or at the end of the list.
insert_to_bucket(t, k) ==
  LET i == Index(k, t.n) IN
  IF t.buckets[i] = NoPair
    THEN [t EXCEPT !.list = Append(@, k), !.buckets[i] = [first |-> k, last |-> k]]
    ELSE [t EXCEPT !.list = InsertAt(@, At(@, t.buckets[i].first), k), !.buckets[i].first = k]

\* The walk along the list from the first to the last pair of the bucket of a key.
hashtable_find_pair(t, k) ==
  LET b == t.buckets[Index(k, t.n)] IN
  /\ b # NoPair
  /\ \E i \in At(t.list, b.first) .. Len(t.list) :
       /\ t.list[i] = k
       /\ \A j \in At(t.list, b.first) .. i - 1 : t.list[j] # b.last

hashtable_get(k) == IF hashtable_find_pair(Now, k) THEN value[k] ELSE Nil

\* Every pair is put into the new buckets in the order of the old list.
hashtable_do_rehash ==
  FoldLeft(insert_to_bucket,
           [list |-> <<>>, buckets |-> Empty(num_buckets + 1), n |-> num_buckets + 1], list)

\* The table grows before the key is looked for, also for a key it has.
Full == size >= Primes[num_buckets]

Usable == buckets # <<>>

\* A key that is there stays where it is.
Placed(t, k) == IF hashtable_find_pair(t, k) THEN t ELSE insert_to_bucket(t, k)

hashtable_set(k, v) ==
  /\ Usable /\ (Full => num_buckets < Len(Primes))
  /\ LET t == IF Full THEN hashtable_do_rehash ELSE Now
         there == hashtable_find_pair(t, k)
         u == Placed(t, k)
     IN /\ list' = u.list /\ buckets' = u.buckets /\ num_buckets' = u.n
        /\ value' = [j \in DOMAIN value \cup {k} |-> IF j = k THEN v ELSE value[j]]
        /\ size' = IF there THEN size ELSE size + 1
        /\ moved' = (iter # Nil /\ (moved \/ Full \/ ~there))
  /\ UNCHANGED <<iter, seen>>

\* The old buckets are freed first: without memory for the new ones the table is
\* lost, and the program must not use it again.
hashtable_set_NoMemory ==
  /\ Usable /\ Full /\ num_buckets < Len(Primes)
  /\ buckets' = <<>> /\ num_buckets' = num_buckets + 1
  /\ UNCHANGED <<list, value, size, iter, seen, moved>>

BucketWithout_KeepLast(b, k) ==
  IF k = b.first THEN IF k = b.last THEN NoPair ELSE [b EXCEPT !.first = NextOf(list, k)] ELSE b

BucketWithout(b, k) ==
  CASE k = b.first /\ k = b.last -> NoPair
    [] k = b.first /\ k # b.last -> [b EXCEPT !.first = NextOf(list, k)]
    [] k # b.first /\ k = b.last -> [b EXCEPT !.last = PrevOf(list, k)]
    [] OTHER -> b

\* hashtable_do_del; an iterator at the pair is of no use any more.
hashtable_del(k) ==
  /\ Usable /\ hashtable_find_pair(Now, k)
  /\ buckets' = [buckets EXCEPT ![Index(k, num_buckets)] = BucketWithout(@, k)]
  /\ list' = RemoveAt(list, At(list, k))
  /\ value' = [j \in DOMAIN value \ {k} |-> value[j]]
  /\ size' = size - 1
  /\ iter' = (IF iter = k THEN Nil ELSE iter) /\ seen' = SelectSeq(seen, LAMBDA j : j # k)
  /\ UNCHANGED <<num_buckets, moved>>

hashtable_clear ==
  /\ Usable /\ list # <<>>
  /\ list' = <<>> /\ value' = [k \in {} |-> Nil] /\ size' = 0
  /\ buckets' = Empty(num_buckets) /\ iter' = Nil /\ seen' = <<>> /\ moved' = FALSE
  /\ UNCHANGED num_buckets

\* json_object_iter and json_object_iter_next, as json_object_foreach calls them.
hashtable_iter ==
  /\ Usable /\ iter = Nil /\ list # <<>>
  /\ iter' = NextOf(list, Nil) /\ seen' = <<list[1]>> /\ moved' = FALSE
  /\ UNCHANGED table

hashtable_iter_next ==
  /\ Usable /\ iter # Nil
  /\ iter' = NextOf(list, iter)
  /\ seen' = IF iter' = Nil THEN <<>> ELSE Append(seen, iter')
  /\ moved' = (moved /\ iter' # Nil)
  /\ UNCHANGED table

hashtable_iter_set(v) ==
  /\ Usable /\ iter # Nil /\ v \in Values[iter]
  /\ value' = [value EXCEPT ![iter] = v]
  /\ UNCHANGED <<list, size, num_buckets, buckets, iter, seen, moved>>

Next ==
  \/ \E k \in Keys : \E v \in Values[k] : hashtable_set(k, v)
  \/ hashtable_set_NoMemory
  \/ \E k \in Keys : hashtable_del(k)
  \/ hashtable_clear \/ hashtable_iter \/ hashtable_iter_next
  \/ \E k \in Keys : \E v \in Values[k] : hashtable_iter_set(v)

Spec == Init /\ [][Next]_hvars

-----------------------------------------------------------------------------
\* What a caller of hashtable_get finds is what was set last and not deleted since:
\* no pair is out of the reach of its bucket after insertions, deletions and the
\* growth of the table, and none is found that is gone.
FoundIsStored ==
  Usable => \A k \in Keys : hashtable_get(k) = IF k \in DOMAIN value THEN value[k] ELSE Nil

\* An iteration comes past every key once, also when the program deletes others
\* on the way, unless it has set something: hashtable_set on a full table
\* changes the order under it, even where the key is there already.
IterationIsComplete ==
  iter # Nil /\ ~moved => seen = SubSeq(list, 1, At(list, iter))
=============================================================================
