------------------------------ MODULE JsonDump ------------------------------
(***************************************************************************)
(* do_dump of jansson (dump.c) on values that may contain one another: how it    *)
(* notices, by a flag in every array and object, and what is left of the flags    *)
(* when it gives up or when the callback that takes the text does.                 *)
(***************************************************************************)
EXTENDS Integers, Sequences, FiniteSets, SequencesExt

CONSTANTS
  Nodes,        \* arrays and objects
  Objects,      \* those of them that are objects
  Graphs,       \* what each of them contains, in order (values without contents left out)
  MaxDumps,     \* bound: calls of json_dumps
  None

JsonDumpAssumption ==
  MaxDumps \in Nat /\ None \notin Nodes /\ Objects \subseteq Nodes /\ Graphs \subseteq [Nodes -> Seq(Nodes)]

VARIABLES
  contents,     \* what contains what
  visited,      \* the values whose flag is set
  calls,        \* the calls of do_dump, outermost first: [json, next], next: the element
                \* it is at, 0: before it looked at the flag
  returned,     \* what the last call that ended returned: 0, -1; None: a call goes on
  root,         \* what json_dumps was called for
  refused,      \* what the callback has refused in this json_dumps: a "key", other "text"
  dumps         \* calls of json_dumps so far

dvars == <<contents, visited, calls, returned, root, refused, dumps>>

Init ==
  /\ contents \in Graphs /\ visited = {} /\ calls = <<>> /\ returned = None
  /\ root = None /\ refused = {} /\ dumps = 0

json == Last(calls).json
next == Last(calls).next

json_dumps ==
  /\ calls = <<>> /\ dumps < MaxDumps
  /\ \E n \in Nodes : calls' = <<[json |-> n, next |-> 0]>> /\ root' = n
  /\ dumps' = dumps + 1 /\ returned' = None /\ refused' = {}
  /\ UNCHANGED <<contents, visited>>

Return(code, flags) ==
  /\ calls' = Front(calls) /\ returned' = code /\ visited' = flags

\* array_error and object_error: the flag is taken away also by a call that found it set.
ErrorFlags_Kept == visited

ErrorFlags == visited \ {json}

array_error == Return(-1, ErrorFlags)

\* The callback takes the text of this step, or does not.
dump(taken) == refused' = refused \cup IF taken THEN {} ELSE {"text"}

Circular == json \in visited

Enter ==
  /\ calls # <<>> /\ next = 0 /\ returned = None
  /\ IF Circular THEN array_error /\ UNCHANGED refused
     ELSE \/ /\ visited' = visited \cup {json} /\ dump(TRUE)
             /\ calls' = [calls EXCEPT ![Len(calls)].next = 1] /\ UNCHANGED returned
          \/ dump(FALSE) /\ array_error
  /\ UNCHANGED <<contents, root, dumps>>

do_dump(n) == calls' = Append(calls, [json |-> n, next |-> 0]) /\ UNCHANGED <<visited, returned>>

\* An item of an object has its key and a separator first.  What dump_string returns of the
\* key is not looked at: a key that is refused is left out.
Item(n) ==
  \E key \in {{}, {"key"}} :
    \/ do_dump(n) /\ refused' = refused \cup key
    \/ array_error /\ refused' = refused \cup key \cup {"text"}

\* The next element, or the closing bracket: the flag is taken away before it is written.
Element ==
  /\ calls # <<>> /\ next > 0 /\ returned = None
  /\ IF next <= Len(contents[json])
       THEN IF json \in Objects THEN Item(contents[json][next])
                                ELSE do_dump(contents[json][next]) /\ UNCHANGED refused
       ELSE \E taken \in BOOLEAN :
              dump(taken) /\ Return(IF taken THEN 0 ELSE -1, visited \ {json})
  /\ UNCHANGED <<contents, root, dumps>>

\* Back in the loop of the caller; a comma, or a line, follows.
Returned ==
  /\ calls # <<>> /\ returned # None
  /\ \/ returned = -1 /\ array_error /\ UNCHANGED refused
     \/ returned = 0 /\ dump(FALSE) /\ array_error
     \/ /\ returned = 0 /\ dump(TRUE) /\ returned' = None
        /\ calls' = [calls EXCEPT ![Len(calls)].next = @ + 1] /\ UNCHANGED visited
  /\ UNCHANGED <<contents, root, dumps>>

Next == json_dumps \/ Enter \/ Element \/ Returned

Spec == Init /\ [][Next]_dvars

-----------------------------------------------------------------------------
RECURSIVE ReachableFrom(_)
ReachableFrom(S) ==
  LET T == S \cup UNION {ToSet(contents[n]) : n \in S} IN IF T = S THEN S ELSE ReachableFrom(T)

Cyclic(n) == \E m \in ReachableFrom({n}) : m \in ReachableFrom(ToSet(contents[m]))

\* Whoever has called json_dumps finds no flag set, however it ended, so that it can be
\* called again for the same value or for a part of it.
NothingLeftVisited == calls = <<>> => visited = {}

\* A value that can be written is, unless the callback fails; one that contains itself
\* ends the call with an error before its stack is deeper than there are values.  That a
\* value is there twice is no error.  And the caller learns of every text the callback did
\* not take, but for the keys of objects (dump.c:339, 376).
CircularIsFound ==
  /\ Len(calls) <= Cardinality(Nodes) + 1
  /\ calls = <<>> /\ returned = 0 => ~Cyclic(root) /\ "text" \notin refused
  /\ calls = <<>> /\ returned = -1 => Cyclic(root) \/ "text" \in refused
=============================================================================
