------------------------------ MODULE JsonParser ------------------------------
(***************************************************************************)
(* jansson from tokens to values and back: the parser (load.c, from parse_object  *)
(* on) with the stack of its calls, and what do_dump (dump.c) writes.  Any text    *)
(* is read token by token; a value that comes out is written, with any flags, and   *)
(* read once more.                                                                  *)
(***************************************************************************)
EXTENDS Integers, Sequences, SequencesExt, FiniteSets

CONSTANTS
  Strings,      \* strings, in the order of strcmp
  Scalars,      \* tokens of the other values that are no array or object
  LoadFlags,    \* the sets of flags the program calls json_loads with
  MaxTokens,    \* bound: tokens of a text
  None

JsonParserAssumption ==
  MaxTokens \in Nat /\ None \notin Scalars

VARIABLES
  flags,        \* of json_loads
  input,        \* what is to be read: any text (<<>>) or one that was written
  read,         \* the tokens lex_scan has given
  want,         \* where the innermost function waits for a token
  stack,        \* the arrays and objects that are open, with the key to be set
  result,       \* what parse_json returns: a value, None: NULL
  first,        \* the value that was read first, once it has been written
  dumped        \* the flags it was written with

pvars == <<flags, input, read, want, stack, result, first, dumped>>

DumpFlags == {{}, {"SORT_KEYS"}, {"PRESERVE_ORDER"}}

StringTokens == ToSet(Strings)
Leaves == StringTokens \cup Scalars
Tokens == Leaves \cup {"{", "}", "[", "]", ":", ",", "INVALID", "EOF"}

\* Values: the members of an object in the order their keys were first set.
Leaf(t) == [type |-> "leaf", of |-> t]
Array(s) == [type |-> "array", of |-> s]
Object(s) == [type |-> "object", of |-> s]

KeysIn(members) == {members[i][1] : i \in DOMAIN members}

\* json_object_set: a key that is there keeps its place and gets the value.
SetMember(members, k, v) ==
  IF k \in KeysIn(members)
    THEN [i \in DOMAIN members |-> IF members[i][1] = k THEN <<k, v>> ELSE members[i]]
    ELSE Append(members, <<k, v>>)

Init ==
  /\ flags \in LoadFlags /\ input = <<>>
  /\ read = <<>> /\ want = "start" /\ stack = <<>> /\ result = None
  /\ first = None /\ dumped = {}

-----------------------------------------------------------------------------
\* Where a call that has its value goes on: in the loop of the array or object around
\* it, or in parse_json.
Completed(st, v) ==
  IF st = <<>>
    THEN /\ stack' = st /\ result' = v
         /\ want' = IF "DISABLE_EOF_CHECK" \in flags THEN "done" ELSE "eof"
    ELSE LET top == Last(st)
             added == IF top.type = "array" THEN Append(top.of, v)
                                            ELSE SetMember(top.of, top.key, v)
         IN /\ stack' = [st EXCEPT ![Len(st)].of = added]
            /\ want' = "separator" /\ UNCHANGED result

\* goto error, all the way up: whatever is open is given back.
Fail == stack' = <<>> /\ want' = "failed" /\ result' = None

Open(type) ==
  /\ stack' = Append(stack, [type |-> type, of |-> <<>>, key |-> None])
  /\ want' = (IF type = "array" THEN "first element" ELSE "first key")
  /\ UNCHANGED result

parse_value(t) ==
  CASE t \in Leaves -> Completed(stack, Leaf(t))
    [] t = "{" -> Open("object")
    [] t = "[" -> Open("array")
    [] OTHER -> Fail

Close == Completed(Front(stack), [type |-> Last(stack).type, of |-> Last(stack).of])

parse_json(t) ==
  IF "DECODE_ANY" \notin flags /\ t \notin {"[", "{"} THEN Fail ELSE parse_value(t)

Key(t) ==
  IF t \notin StringTokens THEN Fail
  ELSE IF "REJECT_DUPLICATES" \in flags /\ t \in KeysIn(Last(stack).of) THEN Fail
  ELSE /\ stack' = [stack EXCEPT ![Len(stack)].key = t] /\ want' = "colon"
       /\ UNCHANGED result

Colon(t) == IF t = ":" THEN want' = "value" /\ UNCHANGED <<stack, result>> ELSE Fail

Separator_Trailing(t) ==
  IF t = "," THEN /\ want' = (IF Last(stack).type = "array" THEN "first element" ELSE "key")
                  /\ UNCHANGED <<stack, result>>
  ELSE IF t = (IF Last(stack).type = "array" THEN "]" ELSE "}") THEN Close
  ELSE Fail

\* After an element or member: a comma is not followed by the end.
Separator(t) ==
  IF t = "," THEN /\ want' = (IF Last(stack).type = "array" THEN "value" ELSE "key")
                  /\ UNCHANGED <<stack, result>>
  ELSE IF t = (IF Last(stack).type = "array" THEN "]" ELSE "}") THEN Close
  ELSE Fail

\* Each function goes on with the next token where it waits for one.
lex_scan ==
  /\ want \notin {"done", "failed"}
  /\ \E t \in IF input = <<>> THEN Tokens ELSE {input[Len(read) + 1]} :
       /\ Len(read) < MaxTokens \/ want = "eof" \/ input # <<>>
       /\ read' = Append(read, t)
       /\ CASE want = "start" -> parse_json(t)
            [] want = "value" -> parse_value(t)
            [] want = "first element" -> IF t = "]" THEN Close ELSE parse_value(t)
            [] want = "first key" -> IF t = "}" THEN Close ELSE Key(t)
            [] want = "key" -> Key(t)
            [] want = "colon" -> Colon(t)
            [] want = "separator" -> Separator(t)
            [] want = "eof" -> IF t = "EOF" THEN want' = "done" /\ UNCHANGED <<stack, result>>
                                            ELSE Fail
  /\ UNCHANGED <<flags, input, first, dumped>>

-----------------------------------------------------------------------------
\* do_dump.  The order of the members: of the keys, of their serial numbers, or of the
\* hash table, which may be any.
Rank(s) == CHOOSE i \in DOMAIN Strings : Strings[i] = s

Orders(members, how) ==
  LET n == Len(members)
      all == {p \in [1 .. n -> 1 .. n] : \A i, j \in 1 .. n : i # j => p[i] # p[j]}
      orders == CASE "SORT_KEYS" \in how ->
                       {p \in all : \A i, j \in 1 .. n :
                          i < j => Rank(members[p[i]][1]) < Rank(members[p[j]][1])}
                  [] how = {"PRESERVE_ORDER"} -> {[i \in 1 .. n |-> i]}
                  [] OTHER -> all
  IN {[i \in 1 .. n |-> members[p[i]]] : p \in orders}

\* Between elements, not after the last.
Comma(n, i) == IF i < n THEN <<",">> ELSE <<>>

\* All the texts do_dump may write for a value.
RECURSIVE do_dump(_, _), DumpElements(_, _, _), DumpMembers(_, _, _)
do_dump(v, how) ==
  CASE v.type = "leaf" -> {<<v.of>>}
    [] v.type = "array" -> {<<"[">> \o t \o <<"]">> : t \in DumpElements(v.of, 1, how)}
    [] v.type = "object" ->
         UNION {{<<"{">> \o t \o <<"}">> : t \in DumpMembers(m, 1, how)} :
                m \in Orders(v.of, how)}

DumpElements(s, i, how) ==
  IF i > Len(s) THEN {<<>>}
  ELSE {t \o Comma(Len(s), i) \o u :
          t \in do_dump(s[i], how), u \in DumpElements(s, i + 1, how)}

DumpMembers(m, i, how) ==
  IF i > Len(m) THEN {<<>>}
  ELSE {<<m[i][1], ":">> \o t \o Comma(Len(m), i) \o u :
          t \in do_dump(m[i][2], how), u \in DumpMembers(m, i + 1, how)}

\* json_dumps, and json_loads of what it wrote: a scalar alone needs JSON_ENCODE_ANY to
\* be written and JSON_DECODE_ANY to be read.
json_dumps ==
  /\ want = "done" /\ first = None
  /\ \E how \in DumpFlags : \E t \in do_dump(result, how) :
       dumped' = how /\ input' = t \o <<"EOF">>
  /\ first' = result
  /\ read' = <<>> /\ want' = "start" /\ stack' = <<>> /\ result' = None
  /\ UNCHANGED flags

Next == lex_scan \/ json_dumps

Spec == Init /\ [][Next]_pvars

-----------------------------------------------------------------------------
\* The grammar: all JSON texts of n tokens with their values, made from the parts they
\* have; dup: some object has a key twice.
RECURSIVE Docs(_), Elements(_), Members(_)
Docs(n) ==
  (IF n = 1 THEN {[text |-> <<t>>, value |-> Leaf(t), dup |-> FALSE] : t \in Leaves} ELSE {})
  \cup (IF n = 2 THEN {[text |-> <<"[", "]">>, value |-> Array(<<>>), dup |-> FALSE],
                       [text |-> <<"{", "}">>, value |-> Object(<<>>), dup |-> FALSE]} ELSE {})
  \cup {[text |-> <<"[">> \o e.text \o <<"]">>, value |-> Array(e.value), dup |-> e.dup] :
          e \in Elements(n - 2)}
  \cup {[text |-> <<"{">> \o m.text \o <<"}">>, value |-> Object(m.value), dup |-> m.dup] :
          m \in Members(n - 2)}

Elements(n) ==
  IF n <= 0 THEN {}
  ELSE {[d EXCEPT !.value = <<@>>] : d \in Docs(n)}
       \cup UNION {{[text |-> e.text \o <<",">> \o d.text, value |-> Append(e.value, d.value),
                     dup |-> e.dup \/ d.dup] : e \in Elements(i), d \in Docs(n - 1 - i)} :
                   i \in 1 .. n - 2}

Members(n) ==
  IF n <= 2 THEN {}
  ELSE {[text |-> <<k, ":">> \o d.text, value |-> <<<<k, d.value>>>>, dup |-> d.dup] :
          k \in StringTokens, d \in Docs(n - 2)}
       \cup UNION {{[text |-> m.text \o <<",", k, ":">> \o d.text,
                     value |-> SetMember(m.value, k, d.value),
                     dup |-> m.dup \/ d.dup \/ k \in KeysIn(m.value)] :
                      k \in StringTokens, m \in Members(i), d \in Docs(n - 3 - i)} :
                   i \in 3 .. n - 4}

JsonTexts == UNION {Docs(n) : n \in 1 .. MaxTokens}

Allowed(d, f) ==
  /\ "REJECT_DUPLICATES" \in f => ~d.dup
  /\ "DECODE_ANY" \notin f => d.value.type # "leaf"

\* With each set of flags: the texts that may be read, their values, and all they begin with.
Grammar ==
  [f \in LoadFlags |->
     LET docs == {d \in JsonTexts : Allowed(d, f)}
         texts == {IF "DISABLE_EOF_CHECK" \in f THEN d.text ELSE Append(d.text, "EOF") : d \in docs}
     IN [docs |-> docs, texts |-> texts,
         begun |-> UNION {{SubSeq(t, 1, n) : n \in 0 .. Len(t)} : t \in texts}]]

IsPrefixOf(s, t) == Len(s) <= Len(t) /\ SubSeq(t, 1, Len(s)) = s

\* What the parser accepts is a JSON text, with the value it denotes (of a key that is
\* there twice, the last), and it fails at a token only when no JSON text goes on with it.
ParsesTheGrammar(grammar) ==
  first = None =>
    /\ want = "done" =>
         \E d \in grammar[flags].docs : d.value = result /\ IsPrefixOf(d.text, read)
    /\ want = "failed" =>
         /\ read \notin grammar[flags].begun
         /\ \A n \in 1 .. Len(read) - 1 : SubSeq(read, 1, n) \notin grammar[flags].texts

\* json_equal: objects by their keys.
RECURSIVE json_equal(_, _)
json_equal(v, w) ==
  /\ v.type = w.type
  /\ CASE v.type = "leaf" -> v.of = w.of
       [] v.type = "array" -> /\ Len(v.of) = Len(w.of)
                              /\ \A i \in DOMAIN v.of : json_equal(v.of[i], w.of[i])
       [] v.type = "object" ->
            /\ Len(v.of) = Len(w.of)
            /\ \A i \in DOMAIN v.of : \E j \in DOMAIN w.of :
                 v.of[i][1] = w.of[j][1] /\ json_equal(v.of[i][2], w.of[j][2])

\* A value that was written is read again as an equal value, whatever order its members
\* come in, under the flags it was read with first; with PRESERVE_ORDER the members are
\* also in the order they were set.
WrittenIsReadBack ==
  first # None =>
    /\ want # "failed"
    /\ want = "done" => json_equal(result, first)
    /\ want = "done" /\ dumped = {"PRESERVE_ORDER"} => result = first
=============================================================================
