------------------------------ MODULE JsonText ------------------------------
(***************************************************************************)
(* Bytes and tokens of jansson: the lexer (load.c), UTF-8 (utf.c), the numbers *)
(* (strconv.c) and the strings that dump.c writes.  A text is made piece by     *)
(* piece and then read, token by token, to its end or to the first that is       *)
(* none.                                                                         *)
(***************************************************************************)
EXTENDS Integers, Sequences, SequencesExt

CONSTANTS
  Pieces,       \* for each kind of text the pieces it is made of, as bytes
  MaxPieces,    \* bound: how many pieces a text of each kind has
  Reals,        \* what printf("%.17g") writes, with the point of the locale
  Point,        \* localeconv()->decimal_point
  MaxInt        \* the largest json_int_t

JsonTextAssumption == MaxPieces \in [DOMAIN Pieces -> Nat] /\ MaxInt \in Nat /\ Point \in 32 .. 127

VARIABLES
  kind,         \* what the text is made of
  pieces,       \* how many pieces it has
  text,         \* its bytes
  from,         \* where the next token is looked for; 0: the text is not ready
  tokens        \* the tokens read: [token, text, value]

tvars == <<kind, pieces, text, from, tokens>>

Ch == [quote |-> 34, plus |-> 43, minus |-> 45, dot |-> 46, slash |-> 47, zero |-> 48,
       backslash |-> 92, e |-> 101, E |-> 69, u |-> 117]

Init ==
  /\ kind \in DOMAIN Pieces \cup {"real"}
  /\ pieces = 0 /\ text = (IF kind = "string" THEN <<Ch.quote>> ELSE <<>>) /\ from = 0 /\ tokens = <<>>

-----------------------------------------------------------------------------
\* UTF-8.
utf8_encode(cp) ==
  LET more(i) == 128 + ((cp \div i) % 64) IN
  CASE cp < 128 -> <<cp>>
    [] cp \in 128 .. 2047 -> <<192 + (cp \div 64), more(1)>>
    [] cp \in 2048 .. 65535 -> <<224 + (cp \div 4096), more(64), more(1)>>
    [] cp > 65535 -> <<240 + (cp \div 262144), more(4096), more(64), more(1)>>

\* How many bytes a character has, by its first one; 0: it is none.
utf8_check_first(u) ==
  CASE u < 128 -> 1
    [] u \in 194 .. 223 -> 2
    [] u \in 224 .. 239 -> 3
    [] u \in 240 .. 244 -> 4
    [] OTHER -> 0

Codepoint(b) ==
  LET size == Len(b)
      first == b[1] % (CASE size = 1 -> 128 [] size = 2 -> 32 [] size = 3 -> 16 [] size = 4 -> 8)
  IN FoldLeft(LAMBDA v, u : 64 * v + (u % 64), first, Tail(b))

Surrogates == 55296 .. 57343

\* Continuation bytes, a character of Unicode, and not one that fewer bytes encode.
utf8_check_full(b) ==
  LET v == Codepoint(b) IN
  /\ \A i \in 2 .. Len(b) : b[i] \in 128 .. 191
  /\ v <= 1114111 /\ v \notin Surrogates
  /\ v >= (CASE Len(b) = 2 -> 128 [] Len(b) = 3 -> 2048 [] Len(b) = 4 -> 65536)

\* The stream hands out a character only when it is whole.
STREAM_STATE_EOF == <<-1>>
STREAM_STATE_ERROR == <<-2>>

stream_get(s, i) ==
  IF i > Len(s) THEN STREAM_STATE_EOF
  ELSE LET n == utf8_check_first(s[i]) b == SubSeq(s, i, i + n - 1) IN
       IF n = 1 THEN b
       ELSE IF n = 0 \/ i + n - 1 > Len(s) \/ ~utf8_check_full(b) THEN STREAM_STATE_ERROR
       ELSE b

RECURSIVE utf8_check_string(_)
utf8_check_string(s) ==
  s = <<>> \/ LET c == stream_get(s, 1) IN
              /\ c \notin {STREAM_STATE_EOF, STREAM_STATE_ERROR}
              /\ utf8_check_string(SubSeq(s, Len(c) + 1, Len(s)))

-----------------------------------------------------------------------------
\* Strings.
l_isdigit(c) == c \in 48 .. 57
l_isalpha(c) == c \in (65 .. 90) \cup (97 .. 122)
l_isxdigit(c) == c \in (48 .. 57) \cup (65 .. 70) \cup (97 .. 102)

HexValue(c) == IF l_isdigit(c) THEN c - 48 ELSE IF c < 97 THEN c - 55 ELSE c - 87
HexDigit(v) == IF v < 10 THEN 48 + v ELSE 87 + v

decode_unicode_escape(h) == FoldLeft(LAMBDA v, c : 16 * v + HexValue(c), 0, h)

\* \" \\ \/ \b \f \n \r \t: the byte after the backslash, and the byte it stands for.
Escapes == {<<34, 34>>, <<92, 92>>, <<47, 47>>, <<98, 8>>, <<102, 12>>, <<110, 10>>,
            <<114, 13>>, <<116, 9>>}

At(s, i) == IF i > Len(s) THEN -1 ELSE s[i]

\* The first pass: where the closing quote is, 0 when the string is not one.
RECURSIVE StringEnd(_, _)
StringEnd(s, i) ==
  LET c == stream_get(s, i) IN
  IF c \in {STREAM_STATE_EOF, STREAM_STATE_ERROR} \/ c[1] < 32 THEN 0
  ELSE IF c[1] = Ch.quote THEN i
  ELSE IF c[1] # Ch.backslash THEN StringEnd(s, i + Len(c))
  ELSE IF \E e \in Escapes : At(s, i + 1) = e[1] THEN StringEnd(s, i + 2)
  ELSE IF At(s, i + 1) = Ch.u /\ \A j \in i + 2 .. i + 5 : l_isxdigit(At(s, j))
    THEN StringEnd(s, i + 6)
  ELSE 0

NoString == <<0>>

NotAllowed_Zero(value) == value \in 56320 .. 57343

\* A second surrogate without a first, and NUL.
NotAllowed(value) == value \in 56320 .. 57343 \/ value = 0

\* The second pass: the bytes of the string, once all escapes are known to be complete.
RECURSIVE Unescaped(_, _)
Unescaped(p, out) ==
  IF p = <<>> THEN out
  ELSE IF p[1] # Ch.backslash THEN Unescaped(Tail(p), Append(out, p[1]))
  ELSE IF p[2] # Ch.u
    THEN Unescaped(SubSeq(p, 3, Len(p)), Append(out, (CHOOSE e \in Escapes : e[1] = p[2])[2]))
  ELSE LET value == decode_unicode_escape(SubSeq(p, 3, 6))
           pair == At(p, 7) = Ch.backslash /\ At(p, 8) = Ch.u
           value2 == decode_unicode_escape(SubSeq(p, 9, 12))
       IN IF value \in 55296 .. 56319
            THEN IF pair /\ value2 \in 56320 .. 57343
                   THEN Unescaped(SubSeq(p, 13, Len(p)),
                          out \o utf8_encode((value - 55296) * 1024 + value2 - 56320 + 65536))
                   ELSE NoString
          ELSE IF NotAllowed(value) THEN NoString
          ELSE Unescaped(SubSeq(p, 7, Len(p)), out \o utf8_encode(value))

Token(token, s, i, next, value) ==
  [token |-> token, text |-> SubSeq(s, i, next - 1), next |-> next, value |-> value]

Invalid(s, i) == Token("INVALID", s, i, i, <<>>)

lex_scan_string(s, i) ==
  LET end == StringEnd(s, i + 1)
      value == Unescaped(SubSeq(s, i + 1, end - 1), <<>>)
  IN IF end = 0 THEN Invalid(s, i)
     ELSE IF value = NoString THEN Invalid(s, i)
     ELSE Token("STRING", s, i, end + 1, value)

\* dump_string: what has to be escaped, by the flags of json_dumps.
Flags == SUBSET {"ENSURE_ASCII", "ESCAPE_SLASH"}

Hex4(v) == <<92, 117>> \o [i \in 1 .. 4 |-> HexDigit((v \div (16 ^ (4 - i))) % 16)]

Surrogate(cp) ==
  LET c == cp - 65536 IN Hex4(55296 + (c \div 1024)) \o Hex4(56320 + (c % 1024))

MustEscape(cp, flags) ==
  \/ cp \in {Ch.backslash, Ch.quote} \/ cp < 32
  \/ "ESCAPE_SLASH" \in flags /\ cp = Ch.slash
  \/ "ENSURE_ASCII" \in flags /\ cp > 127

Escaped(c, flags) ==
  LET cp == Codepoint(c) IN
  IF ~MustEscape(cp, flags) THEN c
  ELSE IF \E e \in Escapes : e[2] = cp
    THEN <<92, (CHOOSE e \in Escapes : e[2] = cp)[1]>>
  ELSE IF cp < 65536 THEN Hex4(cp) ELSE Surrogate(cp)

RECURSIVE dump_chars(_, _)
dump_chars(str, flags) ==
  IF str = <<>> THEN <<>>
  ELSE LET c == stream_get(str, 1) IN
       Escaped(c, flags) \o dump_chars(SubSeq(str, Len(c) + 1, Len(str)), flags)

dump_string(str, flags) == <<34>> \o dump_chars(str, flags) \o <<34>>

-----------------------------------------------------------------------------
\* Numbers.
RECURSIVE AfterDigits(_, _)
AfterDigits(s, i) == IF l_isdigit(At(s, i)) THEN AfterDigits(s, i + 1) ELSE i

\* The place after the digits that must be at i, 0 when there are none.
Digits(s, i) == IF l_isdigit(At(s, i)) THEN AfterDigits(s, i) ELSE 0

DecValue(d) == FoldLeft(LAMBDA v, c : 10 * v + c - 48, 0, d)

json_strtoint(t) ==
  IF t[1] = Ch.minus THEN 0 - DecValue(Tail(t)) ELSE DecValue(t)

InRange(v) == v <= MaxInt /\ v >= 0 - MaxInt - 1

\* Sign, whole part, fraction and exponent, at the place of the point and of the e.
IndexOf(t, C) == IF \E i \in DOMAIN t : t[i] \in C
                   THEN CHOOSE i \in DOMAIN t : t[i] \in C /\ \A j \in 1 .. i - 1 : t[j] \notin C
                   ELSE Len(t) + 1

\* What strtod reads where the point is what the locale says: it stops at any other.
strtod(t, point) ==
  LET e == IndexOf(t, {Ch.e, Ch.E})
      p == IndexOf(SubSeq(t, 1, e - 1), {point})
      whole == SubSeq(t, 1, p - 1)
      frac == SubSeq(t, p + 1, e - 1)
      exp == SubSeq(t, e + 1, Len(t))
      bad == \E i \in DOMAIN t : t[i] \in {Ch.dot, 44} /\ t[i] # point
  IN IF bad THEN <<"stops">>
     ELSE <<whole, IF \A i \in DOMAIN frac : frac[i] = Ch.zero THEN <<>> ELSE frac,
            IF exp = <<>> THEN 0
            ELSE IF exp[1] = Ch.minus THEN 0 - DecValue(Tail(exp))
            ELSE IF exp[1] = Ch.plus THEN DecValue(Tail(exp)) ELSE DecValue(exp)>>

Replaced(t, c, d) ==
  LET i == IndexOf(t, {c}) IN IF i > Len(t) THEN t ELSE [t EXCEPT ![i] = d]

to_locale(t) == IF Point = Ch.dot THEN t ELSE Replaced(t, Ch.dot, Point)

from_locale(t) == IF Point = Ch.dot THEN t ELSE Replaced(t, Point, Ch.dot)

jsonp_strtod(t) == strtod(to_locale(t), Point)

\* A point, so that it stays a real; no plus and no zeros in front of the exponent.
WithPoint(t) ==
  IF \E i \in DOMAIN t : t[i] \in {Ch.dot, Ch.e} THEN t ELSE t \o <<46, 48>>

jsonp_dtostr(printed) ==
  LET t == WithPoint(from_locale(printed))
      e == IndexOf(t, {Ch.e})
      start == IF At(t, e + 1) = Ch.minus THEN e + 2 ELSE e + 1
      end == CHOOSE i \in e + 2 .. Len(t) + 1 :
               At(t, i) # Ch.zero /\ \A j \in e + 2 .. i - 1 : t[j] = Ch.zero
  IN IF e > Len(t) THEN t ELSE SubSeq(t, 1, start - 1) \o SubSeq(t, end, Len(t))

LeadingZero(s, a, b) == s[a] = Ch.zero /\ b > a + 1

lex_scan_number(s, i) ==
  LET a == IF s[i] = Ch.minus THEN i + 1 ELSE i
      b == Digits(s, a)                                       \* the whole part
      f == IF At(s, b) = Ch.dot THEN Digits(s, b + 1) ELSE b    \* the fraction
      h == IF At(s, f + 1) \in {Ch.plus, Ch.minus} THEN f + 2 ELSE f + 1
      g == IF At(s, f) \in {Ch.e, Ch.E} THEN Digits(s, h) ELSE f
      t == SubSeq(s, i, g - 1)
  IN IF b = 0 THEN Invalid(s, i)
     ELSE IF LeadingZero(s, a, b) \/ f = 0 THEN Invalid(s, i)
     ELSE IF g = 0 THEN Invalid(s, i)
     ELSE IF g > b THEN Token("REAL", s, i, g, jsonp_strtod(t))
     ELSE IF InRange(json_strtoint(t)) THEN Token("INTEGER", s, i, g, json_strtoint(t))
     ELSE Invalid(s, i)

-----------------------------------------------------------------------------
RECURSIVE AfterSpace(_, _)
AfterSpace(s, i) == IF At(s, i) \in {9, 10, 13, 32} THEN AfterSpace(s, i + 1) ELSE i

RECURSIVE AfterLetters(_, _)
AfterLetters(s, i) == IF l_isalpha(At(s, i)) THEN AfterLetters(s, i + 1) ELSE i

Words == {<<"TRUE", <<116, 114, 117, 101>>>>, <<"FALSE", <<102, 97, 108, 115, 101>>>>,
          <<"NULL", <<110, 117, 108, 108>>>>}

\* { } [ ] : ,
Marks == {123, 125, 91, 93, 58, 44}

\* One token from i on.
lex_scan(s, i0) ==
  LET i == AfterSpace(s, i0)
      c == At(s, i)
      word == {w \in Words : w[2] = SubSeq(s, i, AfterLetters(s, i) - 1)}
  IN CASE c = -1 -> Token("EOF", s, i, i, <<>>)
       [] c \in Marks -> Token("MARK", s, i, i + 1, <<>>)
       [] c = Ch.quote -> lex_scan_string(s, i)
       [] l_isdigit(c) \/ c = Ch.minus -> lex_scan_number(s, i)
       [] l_isalpha(c) /\ word # {} ->
            Token((CHOOSE w \in word : TRUE)[1], s, i, AfterLetters(s, i), <<>>)
       [] OTHER -> Invalid(s, i)

Supply ==
  /\ from = 0 /\ kind # "real" /\ pieces < MaxPieces[kind]
  /\ \E p \in Pieces[kind] : text' = text \o p
  /\ pieces' = pieces + 1
  /\ UNCHANGED <<kind, from, tokens>>

\* A real that do_dump writes, to be read again.
WriteReal ==
  /\ kind = "real" /\ pieces = 0
  /\ \E r \in Reals : text' = jsonp_dtostr(r) /\ tokens' = <<[token |-> "printed", value |-> r]>>
  /\ pieces' = 1 /\ UNCHANGED <<kind, from>>

Start ==
  /\ from = 0 /\ pieces > 0
  /\ from' = 1
  /\ UNCHANGED <<kind, pieces, text, tokens>>

Scan ==
  /\ from > 0
  /\ \A i \in DOMAIN tokens : tokens[i].token \notin {"EOF", "INVALID"}
  /\ LET t == lex_scan(text, from) IN tokens' = Append(tokens, t) /\ from' = t.next
  /\ UNCHANGED <<kind, pieces, text>>

Next == Supply \/ WriteReal \/ Start \/ Scan

Spec == Init /\ [][Next]_tvars

-----------------------------------------------------------------------------
Strings == {tokens[i].value : i \in {j \in DOMAIN tokens : tokens[j].token = "STRING"}}

\* A string that was read is text: UTF-8, with no NUL in it, whatever bytes and escapes
\* it was made of.
StringsAreText == \A v \in Strings : utf8_check_string(v) /\ \A i \in DOMAIN v : v[i] # 0

\* Written with any flags it is one token again, with the same value: also characters
\* beyond 0xFFFF, which go out as two surrogates; ENSURE_ASCII leaves only ASCII.
StringsReadBack ==
  \A v \in Strings : \A flags \in Flags :
    LET out == dump_string(v, flags) t == lex_scan(out, 1) IN
    /\ t.token = "STRING" /\ t.value = v /\ t.text = out
    /\ "ENSURE_ASCII" \in flags => \A i \in DOMAIN out : out[i] < 128

IsDigits(d) == d # <<>> /\ \A i \in DOMAIN d : l_isdigit(d[i])

IsNumber(t) ==
  \E a, b, c \in 0 .. Len(t) :
    LET sign == SubSeq(t, 1, a) int == SubSeq(t, a + 1, b)
        frac == SubSeq(t, b + 1, c) exp == SubSeq(t, c + 1, Len(t))
    IN /\ a <= b /\ b <= c
       /\ sign \in {<<>>, <<Ch.minus>>}
       /\ IsDigits(int) /\ (int[1] = Ch.zero => Len(int) = 1)
       /\ frac = <<>> \/ (frac[1] = Ch.dot /\ IsDigits(Tail(frac)))
       /\ \/ exp = <<>>
          \/ exp[1] \in {Ch.e, Ch.E} /\ IsDigits(Tail(exp))
          \/ exp[1] \in {Ch.e, Ch.E} /\ Len(exp) > 1 /\ exp[2] \in {Ch.plus, Ch.minus}
             /\ IsDigits(SubSeq(exp, 3, Len(exp)))

IsInteger(t) == \A i \in DOMAIN t : t[i] \notin {Ch.dot, Ch.e, Ch.E}

\* A text is read as one number when it is a number of the JSON grammar, and only then:
\* no leading zeros, digits on both sides of the point and after the e; an integer also
\* has to be one that json_int_t holds.
NumbersAreOfTheGrammar ==
  kind = "number" /\ tokens # <<>> =>
    LET t == tokens[1] IN
    /\ t.token \in {"INTEGER", "REAL"} => IsNumber(t.text)
    /\ (t.token \in {"INTEGER", "REAL"} /\ t.text = text) <=>
         (IsNumber(text) /\ (IsInteger(text) => InRange(json_strtoint(text))))

\* A real that is written is read as a real, with its value, in any locale.
RealsReadBack ==
  kind = "real" /\ Len(tokens) > 1 =>
    tokens[2].token = "REAL" /\ tokens[2].value = strtod(tokens[1].value, Point)
=============================================================================
