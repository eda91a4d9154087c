------------------------------ MODULE Hd44780 ------------------------------
(***************************************************************************)
(* The far end of lcd-tools: an HD44780 display controller behind a PCF8574  *)
(* port expander.  Neither is in this repository; both are modelled from the *)
(* way lcd.c drives them.  One byte written over I2C sets the eight lines of *)
(* the expander: four data lines (n), the backlight (bl), EN, RW and RS.     *)
(* The controller latches the other lines when EN falls.                     *)
(***************************************************************************)
EXTENDS Integers

Nibble == 0 .. 15

\* What lcd.c writes in one byte.
Lines == [n : Nibble, bl : BOOLEAN, en : BOOLEAN, rw : BOOLEAN, rs : BOOLEAN]

None   == [n |-> 0, rs |-> FALSE, full |-> FALSE]   \* no first nibble waiting
Halves == [n : Nibble, rs : BOOLEAN, full : BOOLEAN]

\* The visible cells: two rows of 16 at display addresses 0x00 and 0x40.
Origin == <<0, 64>>
Cols   == 0 .. 15
Cells  == (0 .. 39) \cup (64 .. 103)
BLANK  == 32

\* bits: width of the interface; half: the nibble waiting for its other half;
\* ac: address counter; cg: it points at the character generator; moved: the
\* display is scrolled.
Controller == [bits : {4, 8}, half : Halves, on : BOOLEAN, inc : BOOLEAN, moved : BOOLEAN,
               ac : 0 .. 127, cg : BOOLEAN, ram : [Cells -> 0 .. 255]]

PowerOn == [bits |-> 8, half |-> None, on |-> FALSE, inc |-> TRUE, moved |-> FALSE,
            ac |-> 0, cg |-> FALSE, ram |-> [c \in Cells |-> BLANK]]

Up(a)   == IF a = 39 THEN 64 ELSE IF a = 103 THEN 0 ELSE (a + 1) % 128
Down(a) == IF a = 64 THEN 39 ELSE IF a = 0 THEN 103 ELSE (a - 1) % 128
Moved(c, up) == [c EXCEPT !.ac = IF up THEN Up(@) ELSE Down(@)]

Flag(byte, v) == (byte \div v) % 2 = 1

\* Data goes to the cell at the address counter; an instruction is known by its
\* highest one bit.
Store(c, byte) ==
  Moved(IF c.cg \/ c.ac \notin Cells THEN c ELSE [c EXCEPT !.ram[c.ac] = byte], c.inc)

Instruct(c, byte) ==
  CASE byte >= 128 -> [c EXCEPT !.ac = byte - 128, !.cg = FALSE]
    [] byte \in 64 .. 127 -> [c EXCEPT !.cg = TRUE]
    [] byte \in 32 .. 63  -> [c EXCEPT !.bits = IF Flag(byte, 16) THEN 8 ELSE 4]
    [] byte \in 16 .. 31  -> IF Flag(byte, 8) THEN [c EXCEPT !.moved = TRUE] ELSE Moved(c, Flag(byte, 4))
    [] byte \in 8 .. 15   -> [c EXCEPT !.on = Flag(byte, 4)]
    [] byte \in 4 .. 7    -> [c EXCEPT !.inc = Flag(byte, 2)]
    [] byte \in 2 .. 3    -> [c EXCEPT !.ac = 0, !.cg = FALSE, !.moved = FALSE]
    [] byte = 1           -> [c EXCEPT !.ac = 0, !.cg = FALSE, !.moved = FALSE, !.inc = TRUE,
                                       !.ram = [a \in Cells |-> BLANK]]
    [] OTHER              -> c

Executed(c, byte, rs) == IF rs THEN Store(c, byte) ELSE Instruct(c, byte)

\* The controllers that one EN pulse may lead to.  With 8 bits the low data lines
\* are not connected.  A pulse with RW is a read: it only counts as a nibble.
Pulse(c, n, rw, rs) ==
  IF c.bits = 8
    THEN IF rw THEN {c} ELSE {Executed(c, 16 * n + low, rs) : low \in {0, 15}}
  ELSE IF ~c.half.full
    THEN {[c EXCEPT !.half = [n |-> n, rs |-> rs, full |-> TRUE]]}
  ELSE IF rw
    THEN {[c EXCEPT !.half = None]}
  ELSE {Executed([c EXCEPT !.half = None], 16 * c.half.n + n, r) : r \in {rs, c.half.rs}}

\* The lines change from old to new.  Lines that change together with EN may be
\* latched before or after the change.
Latched(c, old, new) ==
  IF old.en /\ ~new.en
    THEN UNION {Pulse(c, n, rw, rs) : n \in {old.n, new.n}, rw \in {old.rw, new.rw},
                                      rs \in {old.rs, new.rs}}
    ELSE {c}
=============================================================================
