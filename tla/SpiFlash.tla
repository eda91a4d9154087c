------------------------------ MODULE SpiFlash ------------------------------
(***************************************************************************)
(* The far end of the I2C bus: the I2C-to-SPI bridge of one MM module and   *)
(* the flash behind it.  It is not in this repository; it is modelled from  *)
(* the way mboot_api.c drives it.  IIC_SLAVE_CTL (0x40) takes one command   *)
(* byte: 0 and 1 move the chip select, 2 opens the bridge, 3 closes it, 4   *)
(* restarts the module.  Bytes written to IIC_SLAVE_DAT (0x41) while the    *)
(* chip is selected form one SPI frame, which the flash executes when the   *)
(* chip is deselected.  An erase or a program is executed only if a write   *)
(* enable was executed since the last one, which is why mboot_api.c sends   *)
(* one before each.                                                         *)
(***************************************************************************)
EXTENDS FlashLayout

\* One i2c_write.  at and unit are used by the flash commands only; good says
\* that the bytes are the ones the host meant.
Cmd(op, at, unit) == [op |-> op, at |-> at, unit |-> unit, good |-> TRUE]

CtlOps == {"cs_enable", "cs_disable", "download", "spi_disable", "reboot"}
DatOps == {"wren", "erase", "head", "data"}

CS_ENABLE       == Cmd("cs_enable", 0, 0)
CS_DISABLE      == Cmd("cs_disable", 0, 0)
ENABLE_DOWNLOAD == Cmd("download", 0, 0)
IIC2SPI_DISABLE == Cmd("spi_disable", 0, 0)
REBOOT          == Cmd("reboot", 0, 0)
WREN            == Cmd("wren", 0, 0)
DATA            == Cmd("data", 0, 0)
Erase(addr, unit) == Cmd("erase", addr, unit)
Header(addr)      == Cmd("head", addr, 0)

\* A frame: empty, one command, a program with its data ("prog"), bytes that
\* make no command ("junk"), or image bytes without their header ("wild"): the
\* flash then takes the first image byte for an opcode.
FrameOps == {"empty", "wren", "erase", "head", "prog", "junk", "wild"}
Frame(op) == [op |-> op, at |-> 0, unit |-> 0, good |-> FALSE]
Units  == {0, SPI_FLASH_SEC, SPI_FLASH_32K, SPI_FLASH_BLOCK}
Frames == [op : FrameOps, at : Pages, unit : Units, good : BOOLEAN]

Contents == {"old", "erased", "new", "bad"}

\* mode "boot" is a module that restarted, from its flash, after the upgrade.
Device == [mode  : {"run", "download", "idle", "boot"},
           cs    : BOOLEAN,
           wel   : BOOLEAN,
           frame : Frames,
           page  : [Pages -> Contents]]

Factory == [mode |-> "run", cs |-> FALSE, wel |-> FALSE,
            frame |-> Frame("empty"), page |-> [p \in Pages |-> "old"]]

\* Bytes w arrive while frame f is open.  Bytes after a header are page data
\* whatever the host meant by them.
Shift(f, w) ==
  CASE f.op = "empty" /\ w.op # "data"  -> w
    [] f.op = "empty" /\ w.op = "data"  -> Frame("wild")
    [] f.op \in {"head", "prog"}        ->
         [f EXCEPT !.op = "prog", !.good = f.op = "head" /\ w.op = "data" /\ w.good]
    [] f.op = "wild"                    -> f
    [] OTHER                            -> Frame("junk")

\* Programming only clears bits: a page holds what was sent only if it was
\* erased before.
Programmed(page, f) ==
  [page EXCEPT ![f.at] = IF page[f.at] = "erased" /\ f.good THEN "new" ELSE "bad"]

Erased(page, f) ==
  [p \in Pages |-> IF p \in EraseRange(f.at, f.unit) THEN "erased" ELSE page[p]]

\* The flash executes the frame when the chip is deselected.  hit is the page an
\* accidental opcode damages; NoPage: none.
NoPage == flash_size

Execute(dv, hit) ==
  LET f    == dv.frame
      rest == [dv EXCEPT !.cs = FALSE, !.frame = Frame("empty")]
      done == [rest EXCEPT !.wel = FALSE]
  IN  CASE f.op = "wren"             -> [rest EXCEPT !.wel = TRUE]
        [] f.op = "erase" /\ dv.wel  -> [done EXCEPT !.page = Erased(dv.page, f)]
        [] f.op = "prog" /\ dv.wel   -> [done EXCEPT !.page = Programmed(dv.page, f)]
        [] f.op = "wild" /\ dv.wel /\ hit # NoPage -> [done EXCEPT !.page[hit] = "bad"]
        [] OTHER                     -> rest

\* A module receives w.
Receive(dv, w, hit) ==
  CASE w.op = "download"    -> [dv EXCEPT !.mode = "download"]
    [] w.op = "spi_disable" -> [dv EXCEPT !.mode = "idle"]
    [] w.op = "reboot"      -> [dv EXCEPT !.mode = "boot"]
    [] OTHER ->
         IF dv.mode # "download" THEN dv
         ELSE IF w.op = "cs_enable" THEN [dv EXCEPT !.cs = TRUE]
         ELSE IF ~dv.cs THEN dv
         ELSE IF w.op = "cs_disable" THEN Execute(dv, hit)
         ELSE [dv EXCEPT !.frame = Shift(dv.frame, w)]

PowerCycled(dv) ==
  [dv EXCEPT !.mode = "run", !.cs = FALSE, !.wel = FALSE, !.frame = Frame("empty")]
=============================================================================
