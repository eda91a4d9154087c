------------------------------ MODULE LcdTools ------------------------------
(***************************************************************************)
(* lcd-tools: every command is a process of its own that writes a fixed      *)
(* sequence of bytes to the display (lcd.c) and ends; the display keeps its  *)
(* state from one process to the next.  A process may be killed between two  *)
(* bytes, or inside one.  A step is one iic_write_byte.                      *)
(***************************************************************************)
EXTENDS Hd44780, SequencesExt

CONSTANTS
  Strings,    \* arguments of -s: sequences of character codes and NL
  LcdAddr,    \* where the display really is on the bus
  EnvAddr,    \* IIC_LCD_ADDR, as every process finds it in its environment
  Controls,   \* arguments of -c
  MaxKills,   \* bound: processes killed
  MaxRuns     \* bound: processes

NL == 256     \* the two characters \n, as display() sees them

LcdAssumption ==
  /\ \A s \in Strings : s \in Seq(32 .. 126 \cup {NL})
  /\ LcdAddr \in 0 .. 127 /\ EnvAddr \in 0 .. 127
  /\ Controls \subseteq {0, 1}
  /\ MaxKills \in Nat /\ MaxRuns \in Nat

DEFAULT_LCD_ADDR == 39
LCD_DISPON == 4

VARIABLES
  cmd,     \* the option of the current, or last, process
  pc,      \* index of the next byte it writes; 0: before iic_init
  wired,   \* SCL and SDA are exported to user space
  sdaIn,   \* SDA is an input: a process was killed while it waited for an ACK
  bus,     \* the lines of the expander
  lcd,     \* the controller
  ready,   \* history: "inited" since -i ran to its end, "controlled" once -c was
           \* used after that, "unknown" before, and after a kill or another -i
  kills, runs

vars == <<cmd, pc, wired, sdaIn, bus, lcd, ready, kills, runs>>

\* The command lines, and the process there was before the first.
Options == [op : {"init"}] \cup [op : {"control"}, arg : Controls] \cup [op : {"string"}, arg : Strings]
NoProcess == [op |-> "none"]

-----------------------------------------------------------------------------
\* The byte lcd_op builds.  With g_lcd_bg = ~LCD_BGON every other line is set,
\* whatever the data.
Byte(n, bg, en, rs) ==
  IF bg THEN [n |-> n, bl |-> TRUE, en |-> en, rw |-> FALSE, rs |-> rs]
  ELSE [n |-> 15, bl |-> FALSE, en |-> TRUE, rw |-> TRUE, rs |-> TRUE]

Strobe(n, bg, rs) == <<Byte(n, bg, FALSE, rs), Byte(n, bg, TRUE, rs), Byte(n, bg, FALSE, rs)>>

\* lcd_op in half and in full mode.
HalfOp(data, bg, rs) == Strobe(data \div 16, bg, rs)
FullOp(data, bg, rs) == Strobe(data \div 16, bg, rs) \o Strobe(data % 16, bg, rs)

Command(data) == FullOp(data, TRUE, FALSE)

\* lcd_init: wake up in 8 bit mode three times, 4 bits, two lines, display on,
\* clear, count up, home.
lcd_init ==
  HalfOp(0, TRUE, FALSE) \o HalfOp(48, TRUE, FALSE) \o HalfOp(48, TRUE, FALSE)
  \o HalfOp(48, TRUE, FALSE) \o HalfOp(32, TRUE, FALSE)
  \o Command(40) \o Command(12) \o Command(1) \o Command(6) \o Command(2)

\* lcd_on and lcd_off in a fresh process: g_lcd_dispctrl is still 0.
lcd_on  == Command(LCD_DISPON)
lcd_off == FullOp(0, FALSE, FALSE)

lcd_home == Command(2)

lcd_setcursor_NoRow(col, row) == Command(128 + col)

\* lcd_setcursor: rows 0 to 3 of a 20 x 4 panel, above that row 1.
lcd_setcursor(col, row) ==
  LET offsets == <<0, 64, 20, 84>>
      shown   == IF row > 2 THEN 1 ELSE row
  IN  Command(128 + col + offsets[shown + 1])

lcd_write(c) == FullOp(c, TRUE, TRUE)

\* The number of NL among the first k characters.
Breaks(s, k) == Len(SelectSeq(SubSeq(s, 1, k), LAMBDA c : c = NL))

\* display: home, then every character, or the cursor to the next row.
display(s) ==
  lcd_home \o FlattenSeq([k \in DOMAIN s |->
    IF s[k] = NL THEN lcd_setcursor(0, Breaks(s, k)) ELSE lcd_write(s[k])])

\* What main writes for each option.
Program(o) ==
  CASE o.op = "none"    -> <<>>
    [] o.op = "init"    -> lcd_init
    [] o.op = "control" -> IF o.arg = 0 THEN lcd_off ELSE lcd_on
    [] o.op = "string"  -> display(o.arg)

\* IIC_LCD_ADDR is looked at by lcd_init only.
Address(o) == IF o.op = "init" THEN EnvAddr ELSE DEFAULT_LCD_ADDR

Ended == pc = Len(Program(cmd)) + 1

-----------------------------------------------------------------------------
Init ==
  /\ cmd = NoProcess /\ pc = 1
  /\ wired = FALSE /\ sdaIn = FALSE
  /\ bus = [n |-> 15, bl |-> TRUE, en |-> TRUE, rw |-> TRUE, rs |-> TRUE]
  /\ lcd = PowerOn
  /\ ready = "unknown"
  /\ kills = 0 /\ runs = 0

\* main: one option, one process.
Start ==
  /\ Ended /\ runs < MaxRuns
  /\ runs' = runs + 1
  /\ cmd' \in Options
  /\ pc' = IF cmd'.op = "init" THEN 0 ELSE 1
  /\ ready' = CASE cmd'.op = "init" -> "unknown"
                [] cmd'.op = "control" /\ ready = "inited" -> "controlled"
                [] OTHER -> ready
  /\ UNCHANGED <<wired, sdaIn, bus, lcd, kills>>

\* iic_init: both lines are exported and become outputs.  stdio buffers the
\* export, so a line that was exported before is no error.
iic_init ==
  /\ pc = 0
  /\ pc' = 1 /\ wired' = TRUE /\ sdaIn' = FALSE
  /\ UNCHANGED <<cmd, bus, lcd, ready, kills, runs>>

\* Whether a byte of the current process reaches the expander: its address is
\* the right one, and there was a start condition.
Delivered == wired /\ ~sdaIn /\ Address(cmd) = LcdAddr

\* iic_write_byte.  Without a start condition nobody listens; the ACK of the first
\* iic_write makes SDA an output again.
iic_write_byte ==
  /\ pc \in 1 .. Len(Program(cmd))
  /\ pc' = pc + 1 /\ sdaIn' = FALSE
  /\ IF Delivered
       THEN bus' = Program(cmd)[pc] /\ lcd' \in Latched(lcd, bus, bus')
       ELSE UNCHANGED <<bus, lcd>>
  /\ ready' = IF cmd.op = "init" /\ pc = Len(lcd_init) THEN "inited" ELSE ready
  /\ UNCHANGED <<cmd, wired, kills, runs>>

\* The process is killed between two bytes, or while it waits for an ACK.
Kill ==
  /\ ~Ended /\ kills < MaxKills
  /\ kills' = kills + 1
  /\ cmd' = NoProcess /\ pc' = 1
  /\ ready' = "unknown"
  /\ sdaIn' \in IF pc > 0 /\ wired THEN BOOLEAN ELSE {sdaIn}
  /\ UNCHANGED <<wired, bus, lcd, runs>>

Next == Start \/ iic_init \/ iic_write_byte \/ Kill

Spec == Init /\ [][Next]_vars

-----------------------------------------------------------------------------
\* The types of the variables.
TypeOK ==
  /\ cmd \in Options \cup {NoProcess}
  /\ pc \in 0 .. Len(Program(cmd)) + 1
  /\ wired \in BOOLEAN /\ sdaIn \in BOOLEAN
  /\ bus \in Lines
  /\ lcd \in Controller
  /\ ready \in {"unknown", "inited", "controlled"}
  /\ kills \in 0 .. MaxKills /\ runs \in 0 .. MaxRuns

\* lcd-tools -i brings the display to one state from whatever an earlier process
\* left: 8 or 4 bits, half an instruction, SDA turned around, -c 0.  lcd_init wakes
\* the controller three times for that.
InitRecovers ==
  (ready = "inited" /\ cmd.op = "init") =>
    /\ lcd.bits = 4 /\ lcd.half = None
    /\ lcd.on /\ lcd.inc /\ ~lcd.moved
    /\ lcd.ac = 0 /\ ~lcd.cg
    /\ \A c \in Cells : lcd.ram[c] = BLANK
    /\ bus.bl /\ ~bus.en

\* Row and column of the k-th character of a string, by display()'s use of NL.
RowOf(s, k) == Breaks(s, k)
ColOf(s, k) == k - 1 - (IF Breaks(s, k) = 0 THEN 0 ELSE CHOOSE j \in 1 .. k :
                          s[j] = NL /\ \A i \in j + 1 .. k : s[i] # NL)

\* Every character of s that has a place on the panel is there.
OnPanel(s) ==
  \A k \in DOMAIN s : (s[k] # NL /\ RowOf(s, k) \in {0, 1} /\ ColOf(s, k) \in Cols)
     => lcd.ram[Origin[RowOf(s, k) + 1] + ColOf(s, k)] = s[k]

Shown == cmd.op = "string" /\ Ended => lcd.on /\ ~lcd.moved /\ OnPanel(cmd.arg)

\* After -i, a -s that ends shows its string, each row from its first column: a
\* process that knows nothing of the display's state meets the one -i left, or the
\* one that another -s left.
StringShown == ready = "inited" => Shown

\* The same when the display was switched with -c in between and last turned on
\* (main.c: "Turn off or on (0/1)").
StringAfterControl == ready = "controlled" => Shown
=============================================================================
