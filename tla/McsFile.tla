------------------------------- MODULE McsFile -------------------------------
(***************************************************************************)
(* mboot_mcs_file (mboot_api.c): of the records of an .mcs file, line by line, the    *)
(* data from a certain segment on go into the image.  The code looks at single        *)
(* characters of a buffer that is never cleared: an empty line has all but the first    *)
(* from the line before.  The sum at the end of a record is not looked at, nor is its     *)
(* address, but for two records.  Data are told apart by the number of their line.      *)
(***************************************************************************)
EXTENDS Integers, Sequences, FiniteSets, SequencesExt

CONSTANTS
  Segments,     \* that a file may select (type 04), in 64K
  Firmware,     \* the one the image begins with: 8, or 16 with USE_FLASH_LAYOUT_2M
  Lengths,      \* bytes of a data record
  MaxLines      \* bound: lines of a file

McsFileAssumption ==
  Segments \subseteq Nat /\ Lengths \subseteq 1 .. 255 /\ {Firmware, MaxLines} \subseteq Nat

VARIABLES
  lower,        \* the file has its digits a to f in lower case
  lines,        \* what was read so far: the user makes up the file
  want,         \* "open", "line", or how it ended
  tmp,          \* the record that tmp[] holds
  from,         \* the line its data are from
  mm_flg,
  mm_type,      \* the line it is from, 0: not set
  new,          \* the file g_newmcs_filepath: the lines whose data were written
  mcs1_len

mcsvars == <<lower, lines, want, tmp, from, mm_flg, mm_type, new, mcs1_len>>

Record(type, address, n) ==
  [colon |-> TRUE, type |-> type, address |-> address, length |-> n, segment |-> 0]
Segment(s) == [Record(4, "0000", 2) EXCEPT !.segment = s]
EndOfFile == Record(1, "0000", 0)
Empty == [Record(255, "0000", 0) EXCEPT !.colon = FALSE]

Lines ==
  {Segment(s) : s \in Segments} \cup {EndOfFile, Empty}
    \cup {Record(0, a, n) : a \in {"0000", "fe00", "ff80"}, n \in Lengths}

Init ==
  /\ lower \in BOOLEAN /\ lines = <<>> /\ want = "open" /\ tmp = Empty /\ from = 0
  /\ mm_flg = FALSE /\ mm_type = 0 /\ new = <<>> /\ mcs1_len = 0

\* The tool ends when it cannot open one of the files.
Open ==
  /\ want = "open" /\ want' \in {"line", "exit"}
  /\ UNCHANGED <<lower, lines, tmp, from, mm_flg, mm_type, new, mcs1_len>>

\* Compared as text, in lower case: 10fe0000 and 10ff8000.
Is(r, address) == lower /\ r.colon /\ r = Record(0, address, 16)

IsFlag_Any(r) == r.colon /\ r.type = 4

IsFlag(r) == r.colon /\ r.type = 4 /\ r.segment = Firmware

\* char2byte returns a char, which has a sign on most machines.
char2byte(n) == IF n > 127 THEN n - 256 ELSE n

\* The next line, and what is done with the record in tmp.
scan ==
  /\ want = "line" /\ Len(lines) < MaxLines
  /\ \E line \in Lines :
       /\ lines' = Append(lines, line)
       /\ tmp' = (IF line = Empty THEN [tmp EXCEPT !.colon = FALSE] ELSE line)
       /\ from' = (IF line = Empty THEN from ELSE Len(lines'))
  /\ mm_type' = (IF Is(tmp', "fe00") THEN from' ELSE mm_type)
  /\ mm_flg' = (mm_flg \/ IsFlag(tmp'))
  /\ LET mm_info == Is(tmp', "ff80")
         byte_num == char2byte(tmp'.length)
     IN IF tmp'.type = 0 /\ mm_flg' /\ ~mm_info /\ byte_num > 0
          THEN new' = Append(new, from') /\ mcs1_len' = mcs1_len + byte_num
          ELSE UNCHANGED <<new, mcs1_len>>
  /\ want' = IF tmp'.type = 1 /\ mm_flg' THEN "done" ELSE "line"
  /\ UNCHANGED lower

\* At the end of the file fgetc gives no newline ever again: tmp is overrun.
Overrun ==
  /\ want = "line" /\ want' = "overrun"
  /\ UNCHANGED <<lower, lines, tmp, from, mm_flg, mm_type, new, mcs1_len>>

Next == Open \/ scan \/ Overrun

Spec == Init /\ [][Next]_mcsvars

-----------------------------------------------------------------------------
\* A file as other tools write it: no empty lines, short records, and the segments from
\* the lowest to the highest, with the one of the firmware among them if any of it is there.
Selects(p) == lines[p].type = 4

SegmentOf(p) ==
  LET before == {q \in 1 .. p - 1 : Selects(q)} IN
  IF before = {} THEN 0 ELSE lines[CHOOSE q \in before : \A r \in before : r <= q].segment

Regular ==
  /\ \A p \in DOMAIN lines : lines[p] # Empty /\ lines[p].length < 128
  /\ \A p \in DOMAIN lines : Selects(p) =>
       /\ \A q \in 1 .. p - 1 : Selects(q) => lines[q].segment < lines[p].segment
       /\ lines[p].segment > Firmware => \E q \in 1 .. p - 1 : lines[q] = Segment(Firmware)

\* Of a regular file the image has all that lies at or above the firmware, once, in order,
\* but for the info record, and its length is that of these data; of any file, reading ends
\* with the first end record behind the segment of the firmware.
FirmwareTaken ==
  /\ Regular =>
       LET at == {p \in DOMAIN lines : lines[p].type = 0 /\ SegmentOf(p) >= Firmware}
           info == {p \in at : lower /\ lines[p] = Record(0, "ff80", 16)}
       IN /\ new = SelectSeq([p \in DOMAIN lines |-> p], LAMBDA p : p \in at \ info)
          /\ mcs1_len = FoldLeft(LAMBDA sum, p : sum + lines[p].length, 0, new)
  /\ (want = "done") = \E p \in DOMAIN lines : \E q \in 1 .. p - 1 :
                          lines[p] = EndOfFile /\ lines[q] = Segment(Firmware)
=============================================================================
