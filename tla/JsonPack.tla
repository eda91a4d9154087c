------------------------------ MODULE JsonPack ------------------------------
(***************************************************************************)
(* json_pack and json_unpack of jansson (pack_unpack.c): a format string says      *)
(* which arguments a call has, one after the other; nothing else does.  A format   *)
(* is made character by character.  Blanks, commas and colons are skipped, and are  *)
(* left out; i stands for I, b, f and F too, which differ in the type; a string of  *)
(* several arguments (# and +) is left out.                                         *)
(***************************************************************************)
EXTENDS Integers, Sequences, FiniteSets, SequencesExt

CONSTANTS
  Keys,         \* keys that are given as arguments
  Roots,        \* values that are unpacked
  Flags,        \* sets of flags of json_unpack_ex
  MaxFormat,    \* bound: characters of a format
  None

JsonPackAssumption == MaxFormat \in Nat /\ None \notin Keys

VARIABLES
  call,         \* "pack", "unpack" or "again": unpacking what was packed, same format
  flags,        \* of json_unpack_ex
  root,         \* what is unpacked, or what was packed
  format,       \* the characters so far
  done,         \* how many of them were read
  want,         \* where the innermost function waits for a character
  stack,        \* the calls of pack_object, pack_array, unpack_object, unpack_array
  args,         \* the arguments taken so far, without the keys
  given         \* those of json_pack

kvars == <<call, flags, root, format, done, want, stack, args, given>>

ValueChars == {"s", "i", "n", "o"}
Chars == ValueChars \cup {"{", "}", "[", "]", "?", "!", "*", "end"}

\* A value: of the type a character asks for; an object is a function from keys.
Leaf(c, x) == [type |-> c, of |-> x]
Object(f) == [type |-> "{", of |-> f]
Array(s) == [type |-> "[", of |-> s]
NULL == [type |-> "NULL", of |-> None]

Nothing == [k \in {} |-> NULL]

Init ==
  /\ call \in {"pack", "unpack"}
  /\ flags \in (IF call = "pack" THEN {{}} ELSE Flags)
  /\ root \in (IF call = "pack" THEN {NULL} ELSE Roots)
  /\ format = <<>> /\ done = 0 /\ want = "value" /\ stack = <<>>
  /\ args = <<>> /\ given = <<>>

Fail == want' = "failed" /\ stack' = <<>> /\ UNCHANGED <<root, args>>

Top == Last(stack)

Frame(type, v) ==
  [type |-> type, root |-> v, key |-> None, opt |-> FALSE, strict |-> "no",
   used |-> {}, next |-> 1, made |-> IF type = "{" THEN Nothing ELSE <<>>]

Put(f, k, v) == [j \in DOMAIN f \cup {k} |-> IF j = k THEN v ELSE f[j]]

-----------------------------------------------------------------------------
\* json_pack: a value is complete.
Packed(st, v) ==
  IF st = <<>> THEN root' = v /\ want' = "end" /\ stack' = st
  ELSE LET f == Last(st) IN
       /\ stack' = [st EXCEPT ![Len(st)].made =
                      IF f.type = "{" THEN Put(f.made, f.key, v) ELSE Append(f.made, v)]
       /\ want' = f.type /\ UNCHANGED root

pack(c) ==
  CASE c \in {"{", "["} ->
         stack' = Append(stack, Frame(c, NULL)) /\ want' = c /\ UNCHANGED <<root, args>>
    [] c = "n" -> Packed(stack, Leaf("n", None)) /\ UNCHANGED args
    [] c \in {"s", "i", "o"} ->
         LET v == Leaf(IF c = "o" THEN "i" ELSE c, Len(args) + 1) IN
         args' = Append(args, v) /\ Packed(stack, v)
    [] OTHER -> Fail

pack_object(c) ==
  IF c = "}" THEN Packed(Front(stack), Object(Top.made)) /\ UNCHANGED args
  ELSE IF c \notin Keys THEN Fail
  ELSE /\ stack' = [stack EXCEPT ![Len(stack)].key = c] /\ want' = "value"
       /\ UNCHANGED <<root, args>>

pack_array(c) ==
  IF c = "]" THEN Packed(Front(stack), Array(Top.made)) /\ UNCHANGED args
  ELSE IF c = "end" THEN Fail ELSE pack(c)

-----------------------------------------------------------------------------
\* json_unpack: an item is unpacked; back in the loop of the object or array around it.
Unpacked_First(st) ==
  IF st = <<>> THEN want' = "end" /\ stack' = st
  ELSE LET f == Last(st) IN
       /\ stack' = [st EXCEPT ![Len(st)].used = @ \cup {f.key}, ![Len(st)].opt = FALSE]
       /\ want' = f.type

Unpacked(st) ==
  IF st = <<>> THEN want' = "end" /\ stack' = st
  ELSE LET f == Last(st) IN
       /\ stack' = [st EXCEPT ![Len(st)].used = @ \cup {f.key}, ![Len(st)].next = @ + 1,
                              ![Len(st)].opt = FALSE]
       /\ want' = f.type

\* Without a value (an optional item that is missing, or one in such an item) the
\* characters are read and the arguments taken all the same.
Skipped(v) == TRUE

unpack(c, v) ==
  CASE c \in {"{", "["} ->
         IF v # NULL /\ v.type # c THEN Fail
         ELSE stack' = Append(stack, Frame(c, v)) /\ want' = c /\ UNCHANGED <<root, args>>
    [] c \in ValueChars ->
         IF v # NULL /\ c # "o" /\ v.type # c THEN Fail
         ELSE /\ Unpacked(stack)
              /\ args' = IF c = "n" \/ "VALIDATE_ONLY" \in flags \/ ~Skipped(v)
                           THEN args ELSE Append(args, v)
              /\ UNCHANGED root
    [] OTHER -> Fail

Strict(f) == f.strict = "!" \/ (f.strict = "no" /\ "STRICT" \in flags)

\* At the closing character.  Of an object the keys are counted that were asked for, one
\* that it does not have too: a strict call may leave an item of it unread.
LeftOver(f) ==
  /\ f.root # NULL /\ Strict(f)
  /\ IF f.type = "{" THEN Cardinality(f.used) # Cardinality(DOMAIN f.root.of)
                     ELSE f.next - 1 # Len(f.root.of)

CloseUnpack ==
  IF LeftOver(Top) THEN Fail ELSE Unpacked(Front(stack)) /\ UNCHANGED <<root, args>>

\* What both loops do: ! and * may only be the last.
Mark(c) ==
  IF Top.strict # "no" \/ c = "end" THEN Fail
  ELSE /\ stack' = [stack EXCEPT ![Len(stack)].strict = c]
       /\ UNCHANGED <<want, root, args>>

unpack_object(c) ==
  IF c = "}" THEN CloseUnpack
  ELSE IF Top.strict # "no" \/ c \in {"!", "*", "end"} THEN Mark(c)
  ELSE IF c \notin Keys THEN Fail
  ELSE /\ stack' = [stack EXCEPT ![Len(stack)].key = c] /\ want' = "value"
       /\ UNCHANGED <<root, args>>

unpack_array(c) ==
  IF c = "]" THEN CloseUnpack
  ELSE IF Top.strict # "no" \/ c \in {"!", "*", "end"} THEN Mark(c)
  ELSE IF c \notin ValueChars \cup {"{", "["} THEN Fail
  ELSE IF Top.root = NULL THEN unpack(c, NULL)
  ELSE IF Top.next > Len(Top.root.of) THEN Fail
  ELSE unpack(c, Top.root.of[Top.next])

\* The item of a key; a question mark before its character makes it optional.
unpack_item(c) ==
  IF c = "?" /\ ~Top.opt
    THEN stack' = [stack EXCEPT ![Len(stack)].opt = TRUE] /\ UNCHANGED <<want, root, args>>
  ELSE IF Top.root = NULL THEN unpack(c, NULL)
  ELSE IF Top.key \in DOMAIN Top.root.of THEN unpack(c, Top.root.of[Top.key])
  ELSE IF Top.opt THEN unpack(c, NULL) ELSE Fail

-----------------------------------------------------------------------------
\* What the next character may be; the s of a key is written as the key.
Offered ==
  IF call = "again" THEN {format[done + 1]}
  ELSE IF done = MaxFormat THEN {}
  ELSE IF want = "{" THEN (Chars \ {"s"}) \cup Keys ELSE Chars

json_pack(c) ==
  CASE want = "value" -> pack(c)
    [] want = "{" -> pack_object(c)
    [] want = "[" -> pack_array(c)
    [] want = "end" -> IF c = "end" THEN want' = "done" /\ UNCHANGED <<root, stack, args>>
                                    ELSE Fail

json_unpack(c) ==
  CASE want = "value" -> IF stack = <<>> THEN unpack(c, root) ELSE unpack_item(c)
    [] want = "{" -> unpack_object(c)
    [] want = "[" -> unpack_array(c)
    [] want = "end" -> IF c = "end" THEN want' = "done" /\ UNCHANGED <<root, stack, args>>
                                    ELSE Fail

next_token ==
  /\ want \notin {"done", "failed"}
  /\ done' = done + 1
  /\ \E c \in Offered :
       /\ format' = IF call = "again" THEN format ELSE Append(format, c)
       /\ IF call = "pack" THEN json_pack(c) ELSE json_unpack(c)
  /\ UNCHANGED <<call, flags, given>>

\* What was packed is unpacked with the same format.
unpack_again ==
  /\ call = "pack" /\ want = "done"
  /\ call' = "again" /\ flags' \in Flags
  /\ done' = 0 /\ want' = "value" /\ given' = args /\ args' = <<>>
  /\ UNCHANGED <<root, format, stack>>

Next == next_token \/ unpack_again

Spec == Init /\ [][Next]_kvars

-----------------------------------------------------------------------------
\* What a value takes out of the argument list, as the format says it.
Taking == {i \in DOMAIN format : format[i] \in {"s", "i", "o"}}

\* No key is given twice.
EachOnce == \A i, j \in DOMAIN format : format[i] = format[j] /\ format[i] \in Keys => i = j

\* A call of json_unpack that succeeds has taken the arguments its format says,
\* whatever the value has or lacks: else each later target would be another's.
ArgsFollowFormat ==
  call = "unpack" /\ want = "done" =>
    Len(args) = IF "VALIDATE_ONLY" \in flags THEN 0 ELSE Cardinality(Taking)

\* What json_pack made with a format is unpacked by that format, strictly or not, and
\* gives the arguments back.
PackedIsUnpacked ==
  call = "again" /\ EachOnce =>
    /\ want # "failed"
    /\ want = "done" /\ "VALIDATE_ONLY" \notin flags => args = given
=============================================================================
