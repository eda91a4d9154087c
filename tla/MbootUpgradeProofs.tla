------------------------- MODULE MbootUpgradeProofs -------------------------
(***************************************************************************)
(* Proofs about MbootUpgrade, for every layout, image, set of modules and    *)
(* drivers and number of faults and runs: the arithmetic of its erase        *)
(* commands; its state is well typed, and the boot loader and the            *)
(* configuration of a module are never written (ReservedUntouched); who      *)
(* waits for whom (DoneMeansJoined, FirstDriverHasFile); what an upgrade     *)
(* leaves in the flash (RebootedInstalled, CommitWhole); and that it         *)
(* implements FirmwareSwap (ImplementsSwap).                                 *)
(***************************************************************************)
EXTENDS MbootUpgrade, TLAPS

\* The arithmetic of flash_fast_erase: each erase command clears exactly the pages from addr
\* on that the loop then steps over.

\* Facts about % that the provers do not know: a multiple of u has a quotient,
\* multiples are closed under addition, and being a multiple is transitive.
LEMMA MultipleMod ==
  ASSUME NEW u \in Nat \ {0}, NEW k \in Int
  PROVE  (k * u) % u = 0
OBVIOUS

\* A number that divides evenly is a multiple of the divisor.
LEMMA Quotient ==
  ASSUME NEW u \in Nat \ {0}, NEW a \in Nat, a % u = 0
  PROVE  \E k \in Int : a = k * u
BY SMT

\* A sum of multiples is a multiple.
LEMMA AddMod ==
  ASSUME NEW u \in Nat \ {0}, NEW a \in Nat, NEW b \in Nat, a % u = 0, b % u = 0
  PROVE  (a + b) % u = 0
<1>1. PICK k \in Int : a = k * u
  BY Quotient
<1>2. PICK l \in Int : b = l * u
  BY Quotient
<1>3. a + b = (k + l) * u
  BY <1>1, <1>2
<1>4. ((k + l) * u) % u = 0
  BY MultipleMod
<1> QED
  BY <1>3, <1>4

\* A multiple of a multiple is a multiple.
LEMMA TransMod ==
  ASSUME NEW u \in Nat \ {0}, NEW v \in Nat \ {0}, NEW a \in Nat,
         v % u = 0, a % v = 0
  PROVE  a % u = 0
<1>1. PICK k \in Int : a = k * v
  BY Quotient
<1>2. PICK l \in Int : v = l * u
  BY Quotient
<1>3. a = (k * l) * u
  BY <1>1, <1>2
<1>4. ((k * l) * u) % u = 0
  BY MultipleMod
<1> QED
  BY <1>3, <1>4

\* The sizes and offsets of the layout are numbers.
LEMMA SizeTypes ==
  /\ SPI_FLASH_BLOCK \in Nat \ {0} /\ SPI_FLASH_32K \in Nat \ {0} /\ SPI_FLASH_SEC \in Nat \ {0}
  /\ mcs1_offset \in Nat /\ mcs1_cfg_offset \in Nat
  /\ mcs1_info_offset \in Nat /\ flash_size \in Nat
BY LayoutAssumption

\* The multiples of the larger sizes are multiples of the smaller ones.
LEMMA SizesNest ==
  ASSUME NEW a \in Nat
  PROVE  /\ a % SPI_FLASH_BLOCK = 0 => a % SPI_FLASH_32K = 0
         /\ a % SPI_FLASH_32K = 0 => a % SPI_FLASH_SEC = 0
BY TransMod, SizeTypes, LayoutAssumption

\* The alignment flash_fast_erase keeps: addr is a multiple of every erase size
\* that still fits.
Aligned(addr) ==
  /\ addr % SPI_FLASH_SEC = 0
  /\ addr + SPI_FLASH_32K <= mcs1_cfg_offset => addr % SPI_FLASH_32K = 0
  /\ addr + SPI_FLASH_BLOCK <= mcs1_cfg_offset => addr % SPI_FLASH_BLOCK = 0

\* flash_fast_erase starts aligned, at the beginning of the firmware area.
LEMMA StartAligned == Aligned(mcs1_offset) /\ EraseUnit(mcs1_offset, mcs1_cfg_offset) > 0
<1>1. mcs1_offset % SPI_FLASH_BLOCK = 0
  BY LayoutAssumption
<1>2. mcs1_offset % SPI_FLASH_32K = 0 /\ mcs1_offset % SPI_FLASH_SEC = 0
  BY <1>1, SizesNest, SizeTypes
<1> QED
  BY <1>1, <1>2, SizeTypes, LayoutAssumption DEF Aligned, EraseUnit

\* The unit erased at an address below the end is one of the three sizes and fits.
LEMMA UnitTypes ==
  ASSUME NEW addr \in Nat, EraseUnit(addr, mcs1_cfg_offset) > 0
  PROVE  LET unit == EraseUnit(addr, mcs1_cfg_offset) IN
         /\ unit \in {SPI_FLASH_SEC, SPI_FLASH_32K, SPI_FLASH_BLOCK}
         /\ unit \in Nat \ {0}
         /\ addr + unit <= mcs1_cfg_offset
BY SizeTypes DEF EraseUnit

\* Every erase of flash_fast_erase is at an address the chip does not round
\* down, and the loop goes on aligned.
LEMMA StepAligned ==
  ASSUME NEW addr \in Nat, Aligned(addr), EraseUnit(addr, mcs1_cfg_offset) > 0
  PROVE  /\ addr % EraseUnit(addr, mcs1_cfg_offset) = 0
         /\ Aligned(addr + EraseUnit(addr, mcs1_cfg_offset))
<1> DEFINE unit == EraseUnit(addr, mcs1_cfg_offset)
           next == addr + unit
<1>0. unit \in Nat \ {0} /\ next \in Nat
  BY UnitTypes
<1>1. addr % unit = 0
  BY SizeTypes DEF Aligned, EraseUnit
<1>2. CASE addr + SPI_FLASH_BLOCK <= mcs1_cfg_offset
  <2>1. unit = SPI_FLASH_BLOCK
    BY <1>2 DEF EraseUnit
  <2>2. SPI_FLASH_BLOCK % SPI_FLASH_BLOCK = 0
    BY MultipleMod, SizeTypes, 1 * SPI_FLASH_BLOCK = SPI_FLASH_BLOCK
  <2>3. next % SPI_FLASH_BLOCK = 0
    BY <2>1, <2>2, <1>1, AddMod, SizeTypes
  <2>4. next % SPI_FLASH_32K = 0 /\ next % SPI_FLASH_SEC = 0
    BY <2>3, <1>0, SizesNest
  <2> QED
    BY <1>1, <2>3, <2>4 DEF Aligned
<1>3. CASE ~(addr + SPI_FLASH_BLOCK <= mcs1_cfg_offset) /\ addr + SPI_FLASH_32K <= mcs1_cfg_offset
  <2>1. unit = SPI_FLASH_32K
    BY <1>3 DEF EraseUnit
  <2>2. SPI_FLASH_32K % SPI_FLASH_32K = 0
    BY MultipleMod, SizeTypes, 1 * SPI_FLASH_32K = SPI_FLASH_32K
  <2>3. next % SPI_FLASH_32K = 0
    BY <2>1, <2>2, <1>1, AddMod, SizeTypes
  <2>4. next % SPI_FLASH_SEC = 0
    BY <2>3, <1>0, SizesNest
  <2>5. ~(next + SPI_FLASH_BLOCK <= mcs1_cfg_offset)
    BY <1>3, <1>0, SizeTypes
  <2> QED
    BY <1>1, <2>3, <2>4, <2>5 DEF Aligned
<1>4. CASE ~(addr + SPI_FLASH_BLOCK <= mcs1_cfg_offset) /\ ~(addr + SPI_FLASH_32K <= mcs1_cfg_offset)
  <2>1. unit = SPI_FLASH_SEC
    BY <1>4 DEF EraseUnit
  <2>2. SPI_FLASH_SEC % SPI_FLASH_SEC = 0
    BY MultipleMod, SizeTypes, 1 * SPI_FLASH_SEC = SPI_FLASH_SEC
  <2>3. next % SPI_FLASH_SEC = 0
    BY <2>1, <2>2, <1>1, AddMod, SizeTypes
  <2>5. ~(next + SPI_FLASH_BLOCK <= mcs1_cfg_offset) /\ ~(next + SPI_FLASH_32K <= mcs1_cfg_offset)
    BY <1>4, <1>0, SizeTypes
  <2> QED
    BY <1>1, <2>3, <2>5 DEF Aligned
<1> QED
  BY <1>2, <1>3, <1>4

\* flash_fast_erase clears exactly the pages its loop steps over: every erase
\* command covers addr .. addr + unit - 1, inside the firmware area, so mcs0 and
\* the configuration are out of reach and no page of the area is left out.
THEOREM EraseStepExact ==
  ASSUME NEW addr \in Firmware, Aligned(addr), EraseUnit(addr, mcs1_cfg_offset) > 0
  PROVE  LET unit == EraseUnit(addr, mcs1_cfg_offset) IN
         /\ EraseRange(addr, unit) = addr .. (addr + unit - 1)
         /\ EraseRange(addr, unit) \subseteq Firmware
<1> DEFINE unit == EraseUnit(addr, mcs1_cfg_offset)
<1>1. addr \in Nat /\ mcs1_offset <= addr
  BY SizeTypes DEF Firmware
<1>2. addr % unit = 0 /\ unit \in Nat \ {0} /\ addr + unit <= mcs1_cfg_offset
  BY <1>1, StepAligned, UnitTypes
<1>3. EraseRange(addr, unit) = addr .. (addr + unit - 1)
  BY <1>1, <1>2 DEF EraseRange
<1>4. addr .. (addr + unit - 1) \subseteq Firmware
  BY <1>1, <1>2, SizeTypes DEF Firmware
<1> QED
  BY <1>3, <1>4

\* flash_fast_erase ends at mcs1_cfg_offset, so its alignment check cannot fail
\* on this layout.
THEOREM EraseEndsAtConfig ==
  ASSUME NEW addr \in Nat, Aligned(addr), addr <= mcs1_cfg_offset,
         EraseUnit(addr, mcs1_cfg_offset) = 0
  PROVE  addr = mcs1_cfg_offset
<1>1. addr + SPI_FLASH_SEC > mcs1_cfg_offset
  BY SizeTypes DEF EraseUnit
<1>2. PICK k \in Int : addr = k * SPI_FLASH_SEC
  BY Quotient, SizeTypes DEF Aligned
<1>3. PICK l \in Int : mcs1_cfg_offset = l * SPI_FLASH_SEC
  BY Quotient, SizeTypes, LayoutAssumption
<1>4. k <= l
  BY <1>2, <1>3, SizeTypes
<1>5. l < k + 1
  BY <1>1, <1>2, <1>3, SizeTypes
<1> QED
  BY <1>2, <1>3, <1>4, <1>5

-----------------------------------------------------------------------------
\* The i2c_writes a thread can be at.
ScriptStages == {"enable", "unlock", "erase", "eraseinfo", "page", "info", "release", "reboot"}

Cmds == [op : CtlOps \cup DatOps, at : Pages, unit : Units, good : {TRUE}]

\* Where a thread is within its loops.
LoopInv ==
  \A d \in DriverSet :
    /\ step[d] = 1 \/ (stage[d] \in ScriptStages /\ step[d] <= Len(Script(stage[d], pos[d])))
    /\ stage[d] = "erase" => Aligned(pos[d]) /\ EraseUnit(pos[d], mcs1_cfg_offset) > 0
    /\ stage[d] = "page" => pos[d] < mcs1_offset + ImagePages

\* The drivers main has not come to yet have no thread.
SpawnInv ==
  mpc = "spawn" => \A j \in idx .. Len(Drivers) : stage[Drivers[j]] = "idle"

\* A command, or a frame, that cannot reach the reserved pages.
Harmless(f) ==
  /\ f.op = "erase" => EraseRange(f.at, f.unit) \cap Reserved = {}
  /\ f.op \in {"head", "prog"} => f.at \notin Reserved
  /\ f.op # "wild"

\* What is known of a module that never missed an i2c_write, whatever was killed
\* before: its open frame is harmless, and page data finds an open frame.
ReservedInv ==
  \A m \in Modules : missed[m] = "no" =>
    /\ Harmless(dev[m].frame)
    /\ \A p \in Reserved : dev[m].page[p] = "old"
    /\ /\ stage[Bus[m]] \in {"page", "info"} /\ step[Bus[m]] = 6
       /\ dev[m].cs /\ dev[m].mode = "download"
       => dev[m].frame.op # "empty"

IInv == TypeOK /\ LoopInv /\ SpawnInv /\ ReservedInv

-----------------------------------------------------------------------------
\* The layout: which pages exist, and where the thread may be.
LEMMA LayoutFacts ==
  /\ mcs1_offset \in Nat /\ mcs1_cfg_offset \in Nat /\ mcs1_info_offset \in Nat
  /\ flash_size \in Nat
  /\ 0 \in Pages /\ mcs1_info_offset \in Pages
  /\ Firmware \subseteq Pages /\ mcs1_offset \in Firmware
  /\ mcs1_info_offset \in InfoSector
<1>1. mcs1_info_offset % SPI_FLASH_SEC \in 0 .. SPI_FLASH_SEC - 1
  BY SizeTypes
<1> QED
  BY <1>1, SizeTypes, LayoutAssumption DEF Pages, Firmware, InfoSector, EraseRange

\* The drivers are those main goes through, and every module hangs on one.
LEMMA DriverFacts ==
  /\ DriverSet # {}
  /\ \A i \in 1 .. Len(Drivers) : Drivers[i] \in DriverSet
  /\ Len(Drivers) \in Nat \ {0}
  /\ \A m \in Modules : Bus[m] \in DriverSet
  /\ ImagePages \in Nat \ {0}
  /\ mcs1_offset + ImagePages <= mcs1_cfg_offset
BY UpgradeAssumption DEF DriverSet

\* flash_fast_erase uses the three erase sizes of the chip.
LEMMA UnitInUnits ==
  ASSUME NEW p \in Nat
  PROVE  EraseUnit(p, mcs1_cfg_offset) \in Units
BY DEF EraseUnit, Units

\* A command of the scripts: well formed, and it cannot reach the reserved pages.
Safe(w) == w \in Cmds /\ Harmless(w)

\* The commands that carry no address are safe.
LEMMA PlainSafe ==
  /\ Safe(CS_ENABLE) /\ CS_ENABLE.op = "cs_enable"
  /\ Safe(CS_DISABLE) /\ CS_DISABLE.op = "cs_disable"
  /\ Safe(WREN) /\ WREN.op = "wren"
  /\ Safe(DATA) /\ DATA.op = "data"
  /\ Safe(ENABLE_DOWNLOAD) /\ ENABLE_DOWNLOAD.op = "download"
  /\ Safe(IIC2SPI_DISABLE) /\ IIC2SPI_DISABLE.op = "spi_disable"
  /\ Safe(REBOOT) /\ REBOOT.op = "reboot"
BY LayoutFacts DEF Safe, Cmds, Harmless, CtlOps, DatOps, Units, Cmd, CS_ENABLE, CS_DISABLE,
   WREN, DATA, ENABLE_DOWNLOAD, IIC2SPI_DISABLE, REBOOT

\* An erase is safe if what it clears is not reserved.
LEMMA EraseSafe ==
  ASSUME NEW a \in Pages, NEW u \in Units, EraseRange(a, u) \cap Reserved = {}
  PROVE  Safe(Erase(a, u)) /\ Erase(a, u).op = "erase"
BY DEF Safe, Cmds, Harmless, CtlOps, DatOps, Cmd, Erase

\* A page program is safe if its page is not reserved.
LEMMA HeaderSafe ==
  ASSUME NEW a \in Pages, a \notin Reserved
  PROVE  Safe(Header(a)) /\ Header(a).op = "head"
BY DEF Safe, Cmds, Harmless, CtlOps, DatOps, Cmd, Header, Units

\* The writes of the flash helpers are safe, and page data is only ever the
\* sixth write of a page program, right after its header.
LEMMA EraseOpFacts ==
  ASSUME NEW a \in Pages, NEW u \in Units, EraseRange(a, u) \cap Reserved = {}
  PROVE  /\ Len(flash_erase_op(a, u)) = 6
         /\ \A i \in 1 .. 6 : Safe(flash_erase_op(a, u)[i]) /\ flash_erase_op(a, u)[i].op # "data"
<1> DEFINE e == Erase(a, u)
<1>1. Safe(e) /\ e.op = "erase"
  BY EraseSafe
<1>2. flash_erase_op(a, u) = <<CS_ENABLE, WREN, CS_DISABLE, CS_ENABLE, e, CS_DISABLE>>
  BY DEF flash_erase_op
<1> HIDE DEF e
<1>3. ASSUME NEW i \in 1 .. 6
      PROVE  flash_erase_op(a, u)[i] \in {CS_ENABLE, WREN, CS_DISABLE, e}
  <2>1. i = 1 \/ i = 2 \/ i = 3 \/ i = 4 \/ i = 5 \/ i = 6
    OBVIOUS
  <2> QED
    BY <1>2, <2>1
<1>4. Len(flash_erase_op(a, u)) = 6
  BY <1>2
<1> QED
  BY <1>1, <1>3, <1>4, PlainSafe

\* The seven writes of a page program are safe, the fifth is its header, the sixth its data.
LEMMA ProgPageFacts ==
  ASSUME NEW a \in Pages, a \notin Reserved
  PROVE  /\ Len(flash_prog_page(a)) = 7
         /\ \A i \in 1 .. 7 : /\ Safe(flash_prog_page(a)[i])
                              /\ flash_prog_page(a)[i].op = "data" => i = 6
         /\ flash_prog_page(a)[5].op = "head"
<1> DEFINE h == Header(a)
<1>1. Safe(h) /\ h.op = "head"
  BY HeaderSafe
<1>2. flash_prog_page(a) = <<CS_ENABLE, WREN, CS_DISABLE, CS_ENABLE, h, DATA, CS_DISABLE>>
  BY DEF flash_prog_page
<1> HIDE DEF h
<1>3. /\ Len(flash_prog_page(a)) = 7 /\ flash_prog_page(a)[5] = h
      /\ flash_prog_page(a)[6] = DATA
  BY <1>2
<1>4. ASSUME NEW i \in 1 .. 7, i # 6
      PROVE  flash_prog_page(a)[i] \in {CS_ENABLE, WREN, CS_DISABLE, h}
  <2>1. i = 1 \/ i = 2 \/ i = 3 \/ i = 4 \/ i = 5 \/ i = 7
    BY <1>4
  <2> QED
    BY <1>2, <2>1
<1> QED
  BY <1>1, <1>3, <1>4, PlainSafe

\* What LoopInv says of a thread at stage s and address p.
Placed(s, p) ==
  /\ s = "erase" => Aligned(p) /\ EraseUnit(p, mcs1_cfg_offset) > 0
  /\ s = "page" => p < mcs1_offset + ImagePages

\* Every write of every stage of upgrade_op is safe at every address it is made for.
LEMMA ScriptFacts ==
  ASSUME NEW s \in ScriptStages, NEW p \in Firmware \cup {mcs1_cfg_offset}, Placed(s, p)
  PROVE  /\ Len(Script(s, p)) \in 1 .. 7
         /\ \A i \in 1 .. Len(Script(s, p)) :
              /\ Safe(Script(s, p)[i])
              /\ Script(s, p)[i].op = "data" => s \in {"page", "info"} /\ i = 6
              /\ s \in {"page", "info"} /\ i = 5 => Script(s, p)[i].op = "head"
<1>1. p \in Nat /\ mcs1_info_offset \in Pages /\ SPI_FLASH_SEC \in Units
  BY LayoutFacts DEF Firmware, Units
<1>2. CASE s \in {"enable", "release", "reboot"}
  BY <1>2, PlainSafe DEF Script
<1>3. CASE s = "unlock"
  <2>1. Script(s, p) = <<CS_ENABLE, WREN, CS_DISABLE>>
    BY <1>3 DEF Script, flash_prog_en
  <2> QED
    BY <1>3, <2>1, PlainSafe
<1>4. CASE s = "erase"
  <2>1. p \in Firmware /\ p \in Pages
    BY <1>4, <1>1, UnitTypes, LayoutFacts DEF Firmware, Placed
  <2>2. EraseUnit(p, mcs1_cfg_offset) \in Units
    BY <1>1, UnitInUnits
  <2>3. EraseRange(p, EraseUnit(p, mcs1_cfg_offset)) \cap Reserved = {}
    BY <1>4, <2>1, EraseStepExact DEF Reserved, Placed
  <2>4. Script(s, p) = flash_erase_op(p, EraseUnit(p, mcs1_cfg_offset))
    BY <1>4 DEF Script
  <2> QED
    BY <1>4, <2>1, <2>2, <2>3, <2>4, EraseOpFacts
<1>5. CASE s = "eraseinfo"
  <2>1. EraseRange(mcs1_info_offset, SPI_FLASH_SEC) \cap Reserved = {}
    BY DEF Reserved, InfoSector
  <2>2. Script(s, p) = flash_erase_op(mcs1_info_offset, SPI_FLASH_SEC)
    BY <1>5 DEF Script, EraseInfo
  <2> QED
    BY <1>1, <1>5, <2>1, <2>2, EraseOpFacts
<1>6. CASE s = "page"
  <2>1. p \in Pages /\ p \notin Reserved
    BY <1>6, DriverFacts, LayoutFacts DEF Firmware, Reserved, Placed
  <2>2. Script(s, p) = flash_prog_page(p)
    BY <1>6 DEF Script
  <2> QED
    BY <1>6, <2>1, <2>2, ProgPageFacts
<1>7. CASE s = "info"
  <2>1. mcs1_info_offset \notin Reserved
    BY LayoutFacts DEF Reserved
  <2>2. Script(s, p) = flash_prog_page(mcs1_info_offset)
    BY <1>7 DEF Script
  <2> QED
    BY <1>1, <1>7, <2>1, <2>2, ProgPageFacts
<1> QED
  BY <1>2, <1>3, <1>4, <1>5, <1>6, <1>7 DEF ScriptStages

-----------------------------------------------------------------------------
\* The module end: whatever arrives, a device stays a device.
Arrivals == [op : CtlOps \cup DatOps, at : Pages, unit : Units, good : BOOLEAN]

\* Bytes shifted into a frame leave a frame.
LEMMA ShiftType ==
  ASSUME NEW f \in Frames, NEW w \in Arrivals, w.op \in DatOps
  PROVE  Shift(f, w) \in Frames
BY LayoutFacts DEF Shift, Frames, FrameOps, Arrivals, DatOps, CtlOps, Frame, Units

\* Deselecting the chip leaves a device, deselected, with an empty frame.
LEMMA ExecuteType ==
  ASSUME NEW dv \in Device, NEW hit \in Pages \cup {NoPage}
  PROVE  /\ Execute(dv, hit) \in Device
         /\ Execute(dv, hit).frame = Frame("empty") /\ Execute(dv, hit).cs = FALSE
<1> DEFINE f    == dv.frame
           rest == [dv EXCEPT !.cs = FALSE, !.frame = Frame("empty")]
           done == [rest EXCEPT !.wel = FALSE]
           Closed(x) == x \in Device /\ x.frame = Frame("empty") /\ x.cs = FALSE
<1>1. Frame("empty") \in Frames
  BY LayoutFacts DEF Frame, Frames, FrameOps, Units
<1>2. f \in Frames /\ dv.page \in [Pages -> Contents]
  BY DEF Device
<1>3. Closed(rest) /\ Closed(done) /\ Closed([rest EXCEPT !.wel = TRUE])
  BY <1>1 DEF Device
<1>4. Closed([done EXCEPT !.page = Erased(dv.page, f)])
  <2>1. Erased(dv.page, f) \in [Pages -> Contents]
    BY <1>2 DEF Erased, Contents
  <2> QED
    BY <1>3, <2>1 DEF Device
<1>5. Closed([done EXCEPT !.page = Programmed(dv.page, f)])
  <2>1. Programmed(dv.page, f) \in [Pages -> Contents]
    BY <1>2 DEF Programmed, Contents
  <2> QED
    BY <1>3, <2>1 DEF Device
<1>6. Closed([done EXCEPT !.page[hit] = "bad"])
  <2>1. [done.page EXCEPT ![hit] = "bad"] \in [Pages -> Contents]
    BY <1>3 DEF Device, Contents
  <2> QED
    BY <1>3, <2>1 DEF Device
<1> HIDE DEF rest, done, f, Closed
<1>7. Closed(Execute(dv, hit))
  <2>1. Execute(dv, hit) = CASE f.op = "wren" -> [rest EXCEPT !.wel = TRUE]
        [] f.op = "erase" /\ dv.wel  -> [done EXCEPT !.page = Erased(dv.page, f)]
        [] f.op = "prog" /\ dv.wel   -> [done EXCEPT !.page = Programmed(dv.page, f)]
        [] f.op = "wild" /\ dv.wel /\ hit # NoPage -> [done EXCEPT !.page[hit] = "bad"]
        [] OTHER                     -> rest
    BY DEF Execute, f, rest, done
  <2> QED
    BY <1>3, <1>4, <1>5, <1>6, <2>1
<1> QED
  BY <1>7 DEF Closed

\* Whatever a module receives, it stays a device.
LEMMA ReceiveType ==
  ASSUME NEW dv \in Device, NEW w \in Arrivals, NEW hit \in Pages \cup {NoPage}
  PROVE  Receive(dv, w, hit) \in Device
<1>1. dv.frame \in Frames /\ Frame("empty") \in Frames
  BY LayoutFacts DEF Device, Frame, Frames, FrameOps, Units
<1>2. CASE w.op = "download"
  BY <1>2 DEF Receive, Device
<1>3. CASE w.op = "spi_disable"
  BY <1>3 DEF Receive, Device
<1>4. CASE w.op = "reboot"
  BY <1>4 DEF Receive, Device
<1>5. CASE w.op \notin {"download", "spi_disable", "reboot"}
  <2>1. CASE dv.mode # "download"
    BY <1>5, <2>1 DEF Receive
  <2>2. CASE dv.mode = "download" /\ w.op = "cs_enable"
    BY <1>5, <2>2 DEF Receive, Device
  <2>3. CASE dv.mode = "download" /\ w.op # "cs_enable" /\ ~dv.cs
    BY <1>5, <2>3 DEF Receive
  <2>4. CASE dv.mode = "download" /\ dv.cs /\ w.op = "cs_disable"
    BY <1>5, <2>4, ExecuteType DEF Receive
  <2>5. CASE dv.mode = "download" /\ dv.cs /\ w.op \in DatOps
    <3>1. Receive(dv, w, hit) = [dv EXCEPT !.frame = Shift(dv.frame, w)]
      BY <1>5, <2>5 DEF Receive, DatOps
    <3> QED
      BY <2>5, <3>1, <1>1, ShiftType DEF Device
  <2> QED
    BY <1>5, <2>1, <2>2, <2>3, <2>4, <2>5 DEF Arrivals, CtlOps, DatOps
<1> QED
  BY <1>2, <1>3, <1>4, <1>5

\* A device that holds a harmless frame and receives a harmless command keeps
\* its reserved pages and holds a harmless frame; a header leaves it with one.
Clean(dv) == Harmless(dv.frame) /\ \A p \in Reserved : dv.page[p] = "old"

\* A frame without a command does nothing to the flash.
LEMMA EmptyHarmless == Harmless(Frame("empty")) /\ Harmless(Frame("junk"))
BY DEF Harmless, Frame

\* Safe bytes on a harmless frame leave a harmless one, if page data comes after a header.
LEMMA ShiftHarmless ==
  ASSUME NEW f \in Frames, NEW w \in Arrivals, w.op \in DatOps, Harmless(f), Harmless(w),
         w.op = "data" => f.op # "empty"
  PROVE  Harmless(Shift(f, w)) /\ Shift(f, w).op # "empty"
<1>1. CASE f.op = "empty"
  BY <1>1 DEF Shift, DatOps
<1>2. CASE f.op \in {"head", "prog"}
  BY <1>2 DEF Shift, Harmless, Frames
<1>3. CASE f.op \notin {"empty", "head", "prog"}
  <2>1. Shift(f, w) = Frame("junk")
    BY <1>3 DEF Shift, Harmless
  <2> QED
    BY <2>1, EmptyHarmless DEF Frame
<1> QED
  BY <1>1, <1>2, <1>3

\* Executing a harmless frame keeps the reserved pages.
LEMMA ExecuteClean ==
  ASSUME NEW dv \in Device, Clean(dv), NEW hit
  PROVE  Clean(Execute(dv, hit))
<1>1. Reserved \subseteq Pages
  BY DEF Reserved
<1>2. /\ dv.page \in [Pages -> Contents] /\ dv.frame \in Frames
      /\ Harmless(dv.frame) /\ \A p \in Reserved : dv.page[p] = "old"
  BY DEF Device, Clean
<1>3. CASE dv.frame.op = "erase" /\ dv.wel
  <2>1. /\ Execute(dv, hit).page = Erased(dv.page, dv.frame)
        /\ Execute(dv, hit).frame = Frame("empty")
    BY <1>3 DEF Execute, Device
  <2>2. \A p \in Reserved : p \notin EraseRange(dv.frame.at, dv.frame.unit)
    BY <1>2, <1>3 DEF Harmless
  <2> QED
    BY <1>1, <1>2, <2>1, <2>2, EmptyHarmless DEF Clean, Erased
<1>4. CASE dv.frame.op = "prog" /\ dv.wel
  <2>1. /\ Execute(dv, hit).page = Programmed(dv.page, dv.frame)
        /\ Execute(dv, hit).frame = Frame("empty")
    BY <1>4 DEF Execute, Device
  <2>2. dv.frame.at \notin Reserved
    BY <1>2, <1>4 DEF Harmless
  <2> QED
    BY <1>1, <1>2, <2>1, <2>2, EmptyHarmless DEF Clean, Programmed
<1>5. CASE ~(dv.frame.op \in {"erase", "prog"} /\ dv.wel)
  <2>1. dv.frame.op # "wild"
    BY <1>2 DEF Harmless
  <2>2. Execute(dv, hit).page = dv.page /\ Execute(dv, hit).frame = Frame("empty")
    BY <1>5, <2>1 DEF Execute, Device
  <2> QED
    BY <1>2, <2>2, EmptyHarmless DEF Clean
<1> QED
  BY <1>3, <1>4, <1>5

\* A safe command keeps the reserved pages and a harmless frame, and a header opens a frame.
LEMMA ReceiveClean ==
  ASSUME NEW dv \in Device, Clean(dv), NEW w \in Arrivals, Harmless(w), NEW hit \in Pages \cup {NoPage},
         w.op = "data" /\ dv.cs /\ dv.mode = "download" => dv.frame.op # "empty"
  PROVE  LET r == Receive(dv, w, hit) IN
         /\ Clean(r)
         /\ w.op = "head" /\ r.cs /\ r.mode = "download" => r.frame.op # "empty"
<1> DEFINE r == Receive(dv, w, hit)
<1>1. CASE w.op \in {"download", "spi_disable", "reboot"}
  <2>1. r.page = dv.page /\ r.frame = dv.frame
    BY <1>1 DEF Receive, Device
  <2> QED
    BY <1>1, <2>1 DEF Clean
<1>2. CASE w.op \notin {"download", "spi_disable", "reboot"}
  <2>1. CASE dv.mode # "download"
    BY <1>2, <2>1 DEF Receive
  <2>2. CASE dv.mode = "download" /\ w.op = "cs_enable"
    <3>1. r.page = dv.page /\ r.frame = dv.frame
      BY <1>2, <2>2 DEF Receive, Device
    <3> QED
      BY <2>2, <3>1 DEF Clean
  <2>3. CASE dv.mode = "download" /\ w.op # "cs_enable" /\ ~dv.cs
    BY <1>2, <2>3 DEF Receive
  <2>4. CASE dv.mode = "download" /\ dv.cs /\ w.op = "cs_disable"
    BY <1>2, <2>4, ExecuteClean DEF Receive
  <2>5. CASE dv.mode = "download" /\ dv.cs /\ w.op \in DatOps
    <3>1. r = [dv EXCEPT !.frame = Shift(dv.frame, w)]
      BY <1>2, <2>5 DEF Receive, DatOps
    <3>2. r.page = dv.page /\ r.frame = Shift(dv.frame, w)
      BY <3>1 DEF Device
    <3>3. dv.frame \in Frames /\ Harmless(dv.frame)
      BY DEF Device, Clean
    <3>4. Harmless(Shift(dv.frame, w)) /\ Shift(dv.frame, w).op # "empty"
      BY <2>5, <3>3, ShiftHarmless
    <3> QED
      BY <3>2, <3>4 DEF Clean
  <2> QED
    BY <1>2, <2>1, <2>2, <2>3, <2>4, <2>5 DEF Arrivals, CtlOps, DatOps
<1> QED
  BY <1>1, <1>2

-----------------------------------------------------------------------------
\* The thread end: every stage is followed by a stage at a legal address.
Places == Firmware \cup {mcs1_cfg_offset}

\* The end of an erase step is at a legal place of the loop.
LEMMA EndEraseFacts ==
  ASSUME NEW p \in Places, Aligned(p)
  PROVE  /\ EndErase(p).stage \in Stages /\ EndErase(p).pos = p
         /\ Placed(EndErase(p).stage, EndErase(p).pos)
BY DEF EndErase, Stages, Placed

\* Every stage of upgrade_op is followed by a stage at a legal place.
LEMMA FollowingFacts ==
  ASSUME NEW s \in ScriptStages, NEW p \in Places, Placed(s, p)
  PROVE  /\ Following(s, p).stage \in Stages
         /\ Following(s, p).pos \in Places
         /\ Placed(Following(s, p).stage, Following(s, p).pos)
<1>1. mcs1_offset \in Places /\ mcs1_offset \in Nat /\ mcs1_cfg_offset \in Nat /\ p \in Nat
  BY LayoutFacts DEF Places, Firmware
<1>2. CASE s = "unlock"
  <2>1. Following(s, p) = EndErase(mcs1_offset)
    BY <1>2 DEF Following
  <2> QED
    BY <2>1, <1>1, StartAligned, EndEraseFacts
<1>3. CASE s = "erase"
  <2>1. Following(s, p) = EndErase(p + EraseUnit(p, mcs1_cfg_offset))
    BY <1>3 DEF Following
  <2>2. Aligned(p + EraseUnit(p, mcs1_cfg_offset))
    BY <1>1, <1>3, StepAligned DEF Placed
  <2>3. p + EraseUnit(p, mcs1_cfg_offset) \in Places
    BY <1>1, <1>3, UnitTypes DEF Placed, Places, Firmware
  <2> QED
    BY <2>1, <2>2, <2>3, EndEraseFacts
<1>4. CASE s = "eraseinfo"
  <2>1. Following(s, p) = [stage |-> "page", pos |-> mcs1_offset]
    BY <1>4 DEF Following
  <2> QED
    BY <2>1, <1>1, DriverFacts DEF Placed, Stages
<1>5. CASE s = "page"
  <2>1. Following(s, p) = EndPage(p)
    BY <1>5 DEF Following
  <2>2. p + 1 \in Places
    BY <1>1, <1>5, DriverFacts DEF Placed, Places, Firmware
  <2> QED
    BY <2>1, <2>2 DEF EndPage, Placed, Stages
<1>6. CASE s = "enable"
  BY <1>6 DEF Following, EndEnable, Placed, Stages
<1>7. CASE s \in {"info", "release", "reboot"}
  BY <1>7 DEF Following, Placed, Stages
<1> QED
  BY <1>2, <1>3, <1>4, <1>5, <1>6, <1>7 DEF ScriptStages

\* TypeOK and LoopInv, one thread at a time.
ThreadInv(d) ==
  /\ stage[d] \in Stages /\ step[d] \in 1 .. 7 /\ pos[d] \in Places
  /\ step[d] = 1 \/ (stage[d] \in ScriptStages /\ step[d] <= Len(Script(stage[d], pos[d])))
  /\ Placed(stage[d], pos[d])

\* TypeOK and LoopInv say ThreadInv of every thread.
LEMMA ThreadInvEquiv ==
  TypeOK /\ LoopInv => \A d \in DriverSet : ThreadInv(d)
BY DEF TypeOK, LoopInv, ThreadInv, Placed, Places

\* A write leaves the thread that made it at a legal place, and the others where they are.
LEMMA ThreadMoves ==
  ASSUME TypeOK, NEW d \in DriverSet, ThreadInv(d), stage[d] \in ScriptStages,
         Fails(d) \/ GoesOn(d) \/ EndsStage(d)
  PROVE  /\ ThreadInv(d)'
         /\ \A e \in DriverSet : e # d =>
              stage'[e] = stage[e] /\ step'[e] = step[e] /\ pos'[e] = pos[e]
         /\ stage' \in [DriverSet -> Stages] /\ step' \in [DriverSet -> 1 .. 7]
         /\ pos' \in [DriverSet -> Places]
         /\ shortErase' \in [DriverSet -> BOOLEAN] /\ rebooted' \in [DriverSet -> BOOLEAN]
<1> DEFINE s == stage[d]
           p == pos[d]
<1>0. /\ stage \in [DriverSet -> Stages] /\ step \in [DriverSet -> 1 .. 7]
      /\ pos \in [DriverSet -> Places]
      /\ shortErase \in [DriverSet -> BOOLEAN] /\ rebooted \in [DriverSet -> BOOLEAN]
  BY DEF TypeOK, Places
<1>1. /\ p \in Places /\ Placed(s, p) /\ s \in ScriptStages
      /\ Len(Script(s, p)) \in 1 .. 7
  BY ScriptFacts DEF ThreadInv, Places
<1>2. CASE Fails(d)
  <2>1. OnError(s) \in Stages /\ Placed(OnError(s), p)
    BY DEF OnError, Stages, Placed
  <2>2. /\ stage' = [stage EXCEPT ![d] = OnError(s)]
        /\ step' = [step EXCEPT ![d] = 1]
        /\ pos' = pos /\ rebooted' = rebooted
    BY <1>2 DEF Fails
  <2>3. shortErase' \in [DriverSet -> BOOLEAN]
    BY <1>0, <1>2 DEF Fails
  <2> HIDE DEF s, p
  <2>4. /\ stage'[d] = OnError(s) /\ step'[d] = 1 /\ pos'[d] = p
        /\ stage' \in [DriverSet -> Stages] /\ step' \in [DriverSet -> 1 .. 7]
    BY <1>0, <2>1, <2>2 DEF p
  <2>5. ThreadInv(d)'
    BY <1>1, <2>1, <2>4 DEF ThreadInv
  <2> QED
    BY <1>0, <2>2, <2>3, <2>4, <2>5
<1>3. CASE GoesOn(d)
  <2>1. /\ step' = [step EXCEPT ![d] = step[d] + 1]
        /\ step[d] < Len(Script(s, p))
        /\ UNCHANGED <<stage, pos, shortErase, rebooted>>
    BY <1>3 DEF GoesOn
  <2>2. step[d] + 1 \in 1 .. 7
    <3> DEFINE i == step[d]
               n == Len(Script(s, p))
    <3>1. i \in 1 .. 7 /\ n \in 1 .. 7 /\ i < n
      BY <1>0, <1>1, <2>1
    <3> HIDE DEF i, n
    <3>2. i + 1 \in 1 .. 7
      BY <3>1
    <3> QED
      BY <3>2 DEF i
  <2> QED
    BY <1>0, <1>1, <2>1, <2>2 DEF ThreadInv
<1>4. CASE EndsStage(d)
  <2> DEFINE next == Following(s, p)
  <2>1. next.stage \in Stages /\ next.pos \in Places /\ Placed(next.stage, next.pos)
    BY <1>1, FollowingFacts
  <2> HIDE DEF next
  <2>2. /\ stage' = [stage EXCEPT ![d] = next.stage]
        /\ pos' = [pos EXCEPT ![d] = next.pos]
        /\ step' = [step EXCEPT ![d] = 1]
        /\ shortErase' \in [DriverSet -> BOOLEAN]
        /\ rebooted' \in [DriverSet -> BOOLEAN]
    BY <1>0, <1>4 DEF EndsStage, next
  <2> QED
    BY <1>0, <2>1, <2>2 DEF ThreadInv
<1> QED
  BY <1>2, <1>3, <1>4

-----------------------------------------------------------------------------
\* What one i2c_write does to a module: nothing, if it hangs on another bus or
\* misses it; else it receives the command, or a torn copy of it.
LEMMA DeliveredTo ==
  ASSUME TypeOK, NEW d \in DriverSet, NEW w \in Cmds,
         NEW got \in SUBSET On(d), NEW torn \in SUBSET got, Delivered(d, w, got, torn),
         NEW m \in Modules
  PROVE  \/ dev'[m] = dev[m] /\ (missed'[m] # "now" => missed'[m] = missed[m] /\ Bus[m] # d)
         \/ \E v \in Arrivals, h \in Pages \cup {NoPage} :
              /\ dev'[m] = Receive(dev[m], v, h)
              /\ missed'[m] # "now" => missed'[m] = missed[m] /\ Bus[m] = d /\ v = w
<1> DEFINE Hit == {x \in got : w.op = "cs_disable" /\ dev[x].frame.op = "wild"}
<1>1. PICK hit \in [Hit -> Pages \cup {NoPage}] :
        dev' = [x \in Modules |->
                  IF x \notin got THEN dev[x]
                  ELSE Receive(dev[x], [w EXCEPT !.good = x \notin torn],
                               IF x \in DOMAIN hit THEN hit[x] ELSE NoPage)]
  BY DEF Delivered
<1>2. missed'[m] = IF Bus[m] = d /\ (m \notin got \/ m \in torn) THEN "now" ELSE missed[m]
  BY DEF Delivered
<1>3. CASE m \notin got
  <2>1. dev'[m] = dev[m]
    BY <1>1, <1>3
  <2> QED
    BY <1>2, <1>3, <2>1
<1>4. CASE m \in got
  <2> DEFINE v == [w EXCEPT !.good = m \notin torn]
             h == IF m \in DOMAIN hit THEN hit[m] ELSE NoPage
  <2>1. dev'[m] = Receive(dev[m], v, h)
    BY <1>1, <1>4
  <2>2. h \in Pages \cup {NoPage}
    BY <1>1
  <2>3. v \in Arrivals /\ (m \notin torn => v = w)
    BY DEF Cmds, Arrivals
  <2>4. Bus[m] = d
    BY <1>4 DEF On
  <2> HIDE DEF v, h
  <2>5. missed'[m] # "now" => missed'[m] = missed[m] /\ v = w
    BY <1>2, <2>3, <2>4
  <2> QED
    BY <2>1, <2>2, <2>3, <2>4, <2>5
<1> QED
  BY <1>3, <1>4

\* An i2c_write leaves the modules devices.
LEMMA DeliveredType ==
  ASSUME TypeOK, NEW d \in DriverSet, NEW w \in Cmds,
         NEW got \in SUBSET On(d), NEW torn \in SUBSET got, Delivered(d, w, got, torn)
  PROVE  /\ dev' \in [Modules -> Device]
         /\ missed' \in [Modules -> {"no", "before", "now"}]
<1>1. dev \in [Modules -> Device] /\ missed \in [Modules -> {"no", "before", "now"}]
  BY DEF TypeOK
<1>2. \A m \in Modules : dev'[m] \in Device
  BY <1>1, DeliveredTo, ReceiveType
<1>3. DOMAIN dev' = Modules /\ dev' = [m \in Modules |-> dev'[m]]
  BY DEF Delivered
<1>4. missed' \in [Modules -> {"no", "before", "now"}]
  BY <1>1 DEF Delivered
<1> QED
  BY <1>2, <1>3, <1>4

\* ReservedInv, one module at a time.
ReservedOf(m) ==
  missed[m] = "no" =>
    /\ Clean(dev[m])
    /\ /\ stage[Bus[m]] \in {"page", "info"} /\ step[Bus[m]] = 6
       /\ dev[m].cs /\ dev[m].mode = "download"
       => dev[m].frame.op # "empty"

\* ReservedInv is ReservedOf of every module.
LEMMA ReservedEquiv == ReservedInv <=> \A m \in Modules : ReservedOf(m)
BY DEF ReservedInv, ReservedOf, Clean

\* A thread comes to its sixth write only from the fifth of the same stage.
LEMMA SixthAfterFifth ==
  ASSUME TypeOK, NEW d \in DriverSet, Fails(d) \/ GoesOn(d) \/ EndsStage(d), step'[d] = 6
  PROVE  step[d] = 5 /\ stage'[d] = stage[d]
<1>1. step \in [DriverSet -> 1 .. 7]
  BY DEF TypeOK
<1>2. CASE Fails(d)
  BY <1>1, <1>2 DEF Fails
<1>3. CASE GoesOn(d)
  <2>1. step' = [step EXCEPT ![d] = step[d] + 1] /\ stage' = stage
    BY <1>3 DEF GoesOn
  <2> QED
    BY <1>1, <2>1
<1>4. CASE EndsStage(d)
  BY <1>1, <1>4 DEF EndsStage
<1> QED
  BY <1>2, <1>3, <1>4

\* The two halves of an i2c_write put together: the thread moves, and what it
\* wrote does not reach the reserved pages of a module that missed nothing.
LEMMA WriteStep ==
  ASSUME IInv, NEW d \in DriverSet, Write(d)
  PROVE  IInv'
<1> DEFINE s == stage[d]
           p == pos[d]
           i == step[d]
           w == Script(s, p)[i]
<1>1. TypeOK /\ LoopInv /\ (\A e \in DriverSet : ThreadInv(e)) /\ \A m \in Modules : ReservedOf(m)
  BY ThreadInvEquiv, ReservedEquiv DEF IInv
<1>2. s \in ScriptStages
  BY DEF Write, Script, ScriptStages
<1>3. /\ p \in Firmware \cup {mcs1_cfg_offset} /\ Placed(s, p) /\ i \in 1 .. 7
      /\ i = 1 \/ i <= Len(Script(s, p))
  BY <1>1 DEF ThreadInv, Places
<1>4. /\ i \in 1 .. Len(Script(s, p))
      /\ w \in Cmds /\ Harmless(w)
      /\ w.op = "data" => s \in {"page", "info"} /\ i = 6
      /\ s \in {"page", "info"} /\ i = 5 => w.op = "head"
  <2> DEFINE n == Len(Script(s, p))
  <2>1. n \in 1 .. 7 /\ i \in 1 .. 7 /\ (i = 1 \/ i <= n)
    BY <1>2, <1>3, ScriptFacts
  <2> HIDE DEF n, i
  <2>2. i \in 1 .. n
    BY <2>1
  <2> USE DEF n, i
  <2> QED
    BY <1>2, <1>3, <2>2, ScriptFacts DEF Safe
<1> HIDE DEF w
<1>5. PICK got \in SUBSET On(d), ok \in BOOLEAN :
        \E torn \in IF w.op = "data" THEN SUBSET got ELSE {{}} :
          /\ IF ok /\ got = On(d) /\ torn = {}
               THEN UNCHANGED faults
               ELSE faults < MaxFaults /\ faults' = faults + 1
          /\ Delivered(d, w, got, torn)
          /\ \/ ~ok /\ Fails(d)
             \/ ok /\ (GoesOn(d) \/ EndsStage(d))
  BY DEF Write, w
<1>6. PICK torn \in SUBSET got :
        /\ Delivered(d, w, got, torn)
        /\ Fails(d) \/ GoesOn(d) \/ EndsStage(d)
        /\ faults' \in {faults, faults + 1}
  BY <1>5
<1>7. UNCHANGED <<run, mainVars, file>>
  BY DEF Write
<1>8. /\ ThreadInv(d)'
      /\ \A e \in DriverSet : e # d =>
           stage'[e] = stage[e] /\ step'[e] = step[e] /\ pos'[e] = pos[e]
      /\ stage' \in [DriverSet -> Stages] /\ step' \in [DriverSet -> 1 .. 7]
      /\ pos' \in [DriverSet -> Places]
      /\ shortErase' \in [DriverSet -> BOOLEAN] /\ rebooted' \in [DriverSet -> BOOLEAN]
  BY <1>1, <1>2, <1>6, ThreadMoves
<1>9. TypeOK'
  <2>1. /\ dev' \in [Modules -> Device] /\ missed' \in [Modules -> {"no", "before", "now"}]
    BY <1>1, <1>4, <1>6, DeliveredType
  <2>2. faults' \in Nat
    BY <1>1, <1>6 DEF TypeOK
  <2> QED
    BY <1>1, <1>7, <1>8, <2>1, <2>2 DEF TypeOK, mainVars, Places
<1>10. LoopInv'
  <2>1. \A e \in DriverSet : ThreadInv(e)'
    BY <1>1, <1>8 DEF ThreadInv
  <2> QED
    BY <2>1 DEF ThreadInv, Placed, LoopInv
<1>11. ASSUME NEW m \in Modules, missed'[m] = "no"
       PROVE  /\ Clean(dev'[m])
              /\ /\ stage'[Bus[m]] \in {"page", "info"} /\ step'[Bus[m]] = 6
                 /\ dev'[m].cs /\ dev'[m].mode = "download"
                 => dev'[m].frame.op # "empty"
  <2>1. CASE dev'[m] = dev[m] /\ missed[m] = "no" /\ Bus[m] # d
    <3>1. Bus[m] \in DriverSet
      BY DriverFacts
    <3> QED
      BY <1>1, <1>8, <2>1, <3>1 DEF ReservedOf
  <2>2. ASSUME NEW h \in Pages \cup {NoPage}, dev'[m] = Receive(dev[m], w, h),
               missed[m] = "no", Bus[m] = d
        PROVE  /\ Clean(dev'[m])
               /\ /\ stage'[Bus[m]] \in {"page", "info"} /\ step'[Bus[m]] = 6
                  /\ dev'[m].cs /\ dev'[m].mode = "download"
                  => dev'[m].frame.op # "empty"
    <3>1. dev[m] \in Device /\ w \in Arrivals
      BY <1>1, <1>4 DEF TypeOK, Cmds, Arrivals
    <3>2. /\ Clean(dev[m])
          /\ w.op = "data" /\ dev[m].cs /\ dev[m].mode = "download"
             => dev[m].frame.op # "empty"
      BY <1>1, <1>4, <2>2 DEF ReservedOf
    <3>3. /\ Clean(dev'[m])
          /\ w.op = "head" /\ dev'[m].cs /\ dev'[m].mode = "download"
             => dev'[m].frame.op # "empty"
      BY <1>4, <2>2, <3>1, <3>2, ReceiveClean
    <3>4. stage'[Bus[m]] \in {"page", "info"} /\ step'[Bus[m]] = 6 => w.op = "head"
      BY <1>1, <1>4, <1>6, <2>2, SixthAfterFifth
    <3> QED
      BY <3>3, <3>4
  <2> QED
    BY <1>1, <1>4, <1>6, <1>11, <2>1, <2>2, DeliveredTo
<1>12. ReservedInv'
  BY <1>11 DEF ReservedInv, Clean
<1>13. SpawnInv'
  <2> SUFFICES ASSUME mpc' = "spawn", NEW j \in idx' .. Len(Drivers)
               PROVE  stage'[Drivers[j]] = "idle"
    BY DEF SpawnInv
  <2>1. mpc = "spawn" /\ idx' = idx
    BY <1>7 DEF mainVars
  <2>2. stage[Drivers[j]] = "idle"
    BY <2>1 DEF IInv, SpawnInv
  <2>3. Drivers[j] # d
    BY <1>2, <2>2 DEF ScriptStages
  <2>4. Drivers[j] \in DriverSet
    BY <1>1, <2>1, DriverFacts DEF TypeOK
  <2> QED
    BY <1>8, <2>2, <2>3, <2>4
<1> QED
  BY <1>9, <1>10, <1>12, <1>13 DEF IInv

\* The other steps touch neither the loops nor, but for a restart, the modules.
LEMMA InitHolds == Init => IInv
<1> SUFFICES ASSUME Init PROVE IInv
  OBVIOUS
<1>1. Factory \in Device /\ Clean(Factory)
  BY LayoutFacts, EmptyHarmless
     DEF Factory, Device, Frames, FrameOps, Frame, Units, Contents, Clean, Reserved
<1>2. TypeOK
  BY <1>1, DriverFacts, LayoutFacts DEF Init, TypeOK, Stages
<1>3. LoopInv
  BY DEF Init, LoopInv
<1>4. ReservedInv
  BY <1>1, DriverFacts DEF Init, ReservedInv, Clean
<1>5. SpawnInv
  BY DriverFacts DEF Init, SpawnInv
<1> QED
  BY <1>2, <1>3, <1>4, <1>5 DEF IInv

\* A step that moves one thread to a stage without writes, or is at its first
\* write, and leaves the modules alone.
LEMMA StageStep ==
  ASSUME IInv, TypeOK', SpawnInv', UNCHANGED <<step, pos, dev, missed>>,
         \A d \in DriverSet :
           \/ stage'[d] = stage[d]
           \/ step[d] = 1 /\ stage'[d] \in {"open", "file", "enable", "crash", "exit"}
  PROVE  IInv'
<1>1. LoopInv'
  BY DEF IInv, LoopInv
<1>2. ReservedInv'
  BY DriverFacts DEF IInv, ReservedInv
<1> QED
  BY <1>1, <1>2 DEF IInv

\* mboot_upgrade keeps the invariant: the thread it starts was idle.
LEMMA SpawnStep == IInv /\ mboot_upgrade => IInv'
<1> SUFFICES ASSUME IInv, mboot_upgrade PROVE IInv'
  OBVIOUS
<1>1. TypeOK'
  BY DriverFacts DEF IInv, TypeOK, mboot_upgrade, Stages
<1>2. idx \in 1 .. Len(Drivers) /\ Drivers[idx] \in DriverSet /\ stage \in [DriverSet -> Stages]
  BY DriverFacts DEF IInv, TypeOK
<1>3. step[Drivers[idx]] = 1
  BY <1>2 DEF IInv, LoopInv, SpawnInv, mboot_upgrade, ScriptStages
<1>4. SpawnInv'
  <2> SUFFICES ASSUME mpc' = "spawn", NEW j \in idx' .. Len(Drivers)
               PROVE  stage'[Drivers[j]] = "idle"
    BY DEF SpawnInv
  <2>1. idx' = idx + 1 /\ stage' = [stage EXCEPT ![Drivers[idx]] = "open"]
    BY DEF mboot_upgrade
  <2>2. j \in idx .. Len(Drivers) /\ j # idx /\ j \in 1 .. Len(Drivers)
    BY <1>2, <2>1, DriverFacts
  <2>3. Drivers[j] # Drivers[idx] /\ Drivers[j] \in DriverSet
    BY <1>2, <2>2, DriverFacts, UpgradeAssumption
  <2> QED
    BY <1>2, <2>1, <2>2, <2>3 DEF IInv, SpawnInv, mboot_upgrade
<1>5. stage' = [stage EXCEPT ![Drivers[idx]] = "open"]
  BY DEF mboot_upgrade
<1>6. UNCHANGED <<step, pos, dev, missed>>
  BY DEF mboot_upgrade
<1> QED
  BY <1>1, <1>2, <1>3, <1>4, <1>5, <1>6, StageStep

\* A thread that is between its i2c_writes goes on.
LEMMA MoveStep ==
  ASSUME IInv, TypeOK', NEW d \in DriverSet, stage[d] \notin ScriptStages \cup {"idle"},
         stage' = stage \/ \E s \in {"file", "enable", "crash", "exit"} : stage' = [stage EXCEPT ![d] = s],
         UNCHANGED <<step, pos, dev, missed>>,
         UNCHANGED idx, mpc' = mpc \/ mpc' # "spawn"
  PROVE  IInv'
<1>1. stage \in [DriverSet -> Stages] /\ step[d] = 1
  BY DEF IInv, TypeOK, LoopInv
<1>2. \A e \in DriverSet :
        \/ stage'[e] = stage[e]
        \/ e = d /\ stage'[e] \in {"open", "file", "enable", "crash", "exit"}
  BY <1>1
<1>3. SpawnInv'
  BY <1>2, DriverFacts DEF IInv, SpawnInv, TypeOK
<1> QED
  BY <1>1, <1>2, <1>3, StageStep

\* A step that only stops the process, or ends one of main's waits.
LEMMA MainStep ==
  ASSUME IInv, TypeOK', UNCHANGED <<stage, step, pos, dev, missed>>, mpc' # "spawn"
  PROVE  IInv'
<1>1. SpawnInv'
  BY DEF SpawnInv
<1> QED
  BY <1>1, StageStep

\* Every step of an upgrade thread keeps the invariant.
LEMMA ThreadStep ==
  ASSUME IInv, NEW d \in DriverSet, upgrade_op(d)
  PROVE  IInv'
<1>1. CASE Open(d)
  <2>1. TypeOK'
    BY <1>1 DEF Open, IInv, TypeOK, Stages, mainVars
  <2>2. stage[d] \notin ScriptStages \cup {"idle"}
    BY <1>1 DEF Open, ScriptStages
  <2> QED
    BY <1>1, <2>1, <2>2, MoveStep DEF Open, mainVars
<1>2. CASE OpenFile(d)
  <2>1. TypeOK'
    BY <1>2 DEF OpenFile, IInv, TypeOK, Stages, mainVars
  <2>2. stage[d] \notin ScriptStages \cup {"idle"}
    BY <1>2 DEF OpenFile, ScriptStages
  <2> QED
    BY <1>2, <2>1, <2>2, MoveStep DEF OpenFile, mainVars
<1>3. CASE Crash(d)
  <2>1. TypeOK'
    BY <1>3 DEF Crash, IInv, TypeOK, threadVars
  <2> QED
    BY <1>3, <2>1, MainStep DEF Crash, threadVars
<1>4. CASE Write(d)
  BY <1>4, WriteStep
<1>5. CASE Close(d)
  <2>1. TypeOK'
    BY <1>5 DEF Close, IInv, TypeOK, Stages, mainVars
  <2>2. stage[d] \notin ScriptStages \cup {"idle"}
    BY <1>5 DEF Close, ScriptStages
  <2> QED
    BY <1>5, <2>1, <2>2, MoveStep DEF Close, mainVars
<1> QED
  BY <1>1, <1>2, <1>3, <1>4, <1>5 DEF upgrade_op

\* A module that loses its power forgets the open frame and keeps its flash.
LEMMA PowerCycledClean ==
  ASSUME NEW dv \in Device
  PROVE  /\ PowerCycled(dv) \in Device
         /\ Clean(dv) => Clean(PowerCycled(dv))
<1>1. Frame("empty") \in Frames
  BY LayoutFacts DEF Frame, Frames, FrameOps, Units
<1>2. PowerCycled(dv).page = dv.page /\ PowerCycled(dv).frame = Frame("empty")
  BY DEF PowerCycled, Device
<1>3. PowerCycled(dv) \in Device
  BY <1>1 DEF PowerCycled, Device
<1> QED
  BY <1>2, <1>3, EmptyHarmless DEF Clean

\* A new run, on modules some of which lost their power, keeps the invariant.
LEMMA RerunStep == IInv /\ Rerun => IInv'
<1> SUFFICES ASSUME IInv, Rerun PROVE IInv'
  OBVIOUS
<1>1. PICK off \in SUBSET Modules :
        dev' = [m \in Modules |-> IF m \in off THEN PowerCycled(dev[m]) ELSE dev[m]]
  BY DEF Rerun
<1>2. TypeOK
  BY DEF IInv
<1>3. dev' \in [Modules -> Device]
  BY <1>1, <1>2, PowerCycledClean DEF TypeOK
<1>4. TypeOK'
  BY <1>2, <1>3, DriverFacts, LayoutFacts DEF Rerun, TypeOK, Stages
<1>5. LoopInv'
  BY DEF Rerun, LoopInv
<1>6. SpawnInv'
  BY DriverFacts DEF Rerun, SpawnInv
<1>7. ReservedInv'
  <2>1. \A m \in Modules : missed'[m] = "no" => missed[m] = "no"
    BY DEF Rerun
  <2>2. \A m \in Modules : missed'[m] = "no" => Clean(dev'[m])
    BY <1>1, <1>2, <2>1, PowerCycledClean DEF IInv, ReservedInv, TypeOK, Clean
  <2>3. \A m \in Modules : stage'[Bus[m]] = "idle"
    BY DriverFacts DEF Rerun
  <2> QED
    BY <2>2, <2>3 DEF ReservedInv, Clean
<1> QED
  BY <1>4, <1>5, <1>6, <1>7 DEF IInv

\* The invariant is inductive.
LEMMA NextStep == IInv /\ [Next]_vars => IInv'
<1> SUFFICES ASSUME IInv, [Next]_vars PROVE IInv'
  OBVIOUS
<1>1. CASE mboot_upgrade
  BY <1>1, SpawnStep
<1>2. CASE mboot_finish
  <2>1. TypeOK'
    BY <1>2, DriverFacts DEF mboot_finish, IInv, TypeOK, threadVars
  <2> QED
    BY <1>2, <2>1, MainStep DEF mboot_finish, threadVars
<1>3. ASSUME NEW d \in DriverSet, upgrade_op(d) PROVE IInv'
  BY <1>3, ThreadStep
<1>4. CASE Kill
  <2>1. TypeOK'
    BY <1>4 DEF Kill, IInv, TypeOK, threadVars
  <2> QED
    BY <1>4, <2>1, MainStep DEF Kill, threadVars
<1>5. CASE Rerun
  BY <1>5, RerunStep
<1>6. CASE UNCHANGED vars
  BY <1>6 DEF vars, mainVars, threadVars, IInv, TypeOK, LoopInv, SpawnInv, ReservedInv
<1> QED
  BY <1>1, <1>2, <1>3, <1>4, <1>5, <1>6 DEF Next, mboot

\* The state of the upgrade is well typed: no thread ever leaves its stages, its
\* scripts or the firmware area.
THEOREM TypeCorrect == Spec => []TypeOK
<1>1. IInv => TypeOK
  BY DEF IInv
<1> QED
  BY InitHolds, NextStep, <1>1, PTL DEF Spec

\* upgrade_op and everything it calls never write the boot loader or the
\* configuration of a module that missed no i2c_write, whatever was killed
\* before, on however many modules, drivers and runs.
THEOREM ReservedSafe == Spec => []ReservedUntouched
<1>1. IInv => ReservedUntouched
  BY DEF IInv, ReservedInv, ReservedUntouched
<1> QED
  BY InitHolds, NextStep, <1>1, PTL DEF Spec

-----------------------------------------------------------------------------
\* What main knows of the threads it joined, and until when the path is live.
JoinInv ==
  /\ mpc = "spawn" => path = "live"
  /\ mpc = "join" => /\ \A j \in 1 .. idx - 1 : stage[Drivers[j]] = "exit"
                     /\ idx = 1 => path = "live"
  /\ mpc = "done" => \A j \in 1 .. Len(Drivers) : stage[Drivers[j]] = "exit"
  /\ file[Drivers[1]] # "null"

\* A thread reboots its modules last, and gives up on an erase only for a fault.
RebootInv ==
  \A d \in DriverSet :
    /\ rebooted[d] => stage[d] \in {"close", "exit"}
    /\ shortErase[d] => faults > 0

\* The stages that erase and program, and those in which the bridge is open.
FlashStages == {"erase", "eraseinfo", "page", "info"}
OpenStages  == FlashStages \cup {"unlock", "release"}

\* What write i of an erase or a page program, whose fifth write is w, finds in
\* the module: the bytes so far, and a write enable for them.
HeldAt(dv, i, w) ==
  /\ IF i \in {1, 4} THEN ~dv.cs ELSE dv.cs
  /\ i \in {1, 2, 4, 5} => dv.frame = Frame("empty")
  /\ i = 3 => dv.frame = WREN
  /\ i = 6 => dv.frame = w
  /\ i = 7 => dv.frame = [w EXCEPT !.op = "prog"]
  /\ i >= 4 => dv.wel

\* The first n pages of the firmware area hold the image, the others nothing.
Image(page, n) ==
  \A q \in Firmware : page[q] = IF q < n THEN "new" ELSE "erased"

\* What the flash of a module holds when its thread is in stage s at address p.
FlashAt(page, s, p) ==
  /\ s = "erase" => \A q \in Firmware : q < p => page[q] = "erased"
  /\ s = "eraseinfo" => Image(page, mcs1_offset)
  /\ s = "page" => Image(page, p)
  /\ s \in {"info", "release", "reboot"} => Image(page, mcs1_offset + ImagePages)
  /\ s \in {"page", "info"} => page[mcs1_info_offset] = "erased"
  /\ s \in {"release", "reboot"} => page[mcs1_info_offset] = "new"

\* A sound module when its thread is at write i of stage s, at address p.
InStep(dv, s, i, p) ==
  /\ FlashAt(dv.page, s, p)
  /\ s \in OpenStages => dv.mode = "download"
  /\ s = "unlock" /\ i > 1 => dv.cs
  /\ s = "unlock" /\ i = 3 =>
       /\ dv.frame.op # "erase"
       /\ dv.frame.op = "prog" => ~dv.frame.good
  /\ s \in FlashStages => HeldAt(dv, i, Script(s, p)[5])

InstallOf(m) ==
  Sound(m) =>
    /\ InStep(dev[m], stage[Bus[m]], step[Bus[m]], pos[Bus[m]])
    /\ rebooted[Bus[m]] => Installed(m) /\ dev[m].mode = "boot"

InstallInv == \A m \in Modules : InstallOf(m)
-----------------------------------------------------------------------------
\* The invariant of MbootUpgradeProofs holds in every state.
LEMMA Inductive == Spec => []IInv
BY InitHolds, NextStep, PTL DEF Spec

\* What the proofs below use of the types.
LEMMA ThreadTypes ==
  ASSUME IInv
  PROVE  /\ stage \in [DriverSet -> Stages] /\ step \in [DriverSet -> 1 .. 7]
         /\ pos \in [DriverSet -> Places]
         /\ file \in [DriverSet -> {"none", "open", "null"}]
         /\ shortErase \in [DriverSet -> BOOLEAN] /\ rebooted \in [DriverSet -> BOOLEAN]
         /\ dev \in [Modules -> Device]
         /\ idx \in 1 .. Len(Drivers) /\ faults \in Nat
BY DEF IInv, TypeOK, Places

\* A thread that is written to, or that moves, has not come to its end.
LEMMA JoinStays ==
  ASSUME IInv, JoinInv, NEW d \in DriverSet, stage[d] # "exit", mpc \in {"spawn", "join"},
         NEW s, stage' = [stage EXCEPT ![d] = s],
         UNCHANGED <<idx, path, mpc>>, file'[Drivers[1]] # "null"
  PROVE  JoinInv'
<1>1. stage \in [DriverSet -> Stages] /\ idx \in 1 .. Len(Drivers)
  BY ThreadTypes
<1>2. ASSUME mpc = "join", NEW j \in 1 .. idx - 1
      PROVE  stage'[Drivers[j]] = "exit"
  <2>1. stage[Drivers[j]] = "exit"
    BY <1>2 DEF JoinInv
  <2>2. Drivers[j] \in DriverSet
    BY <1>1, DriverFacts
  <2> QED
    BY <1>1, <2>1, <2>2
<1> QED
  BY <1>2 DEF JoinInv

\* The only thread that may find the path freed is one main has not joined yet,
\* and not the first.
LEMMA JoinNext == IInv /\ JoinInv /\ [Next]_vars => JoinInv'
<1> SUFFICES ASSUME IInv, JoinInv, [Next]_vars PROVE JoinInv'
  OBVIOUS
<1>1. /\ stage \in [DriverSet -> Stages] /\ idx \in 1 .. Len(Drivers)
      /\ file \in [DriverSet -> {"none", "open", "null"}]
  BY ThreadTypes
<1>2. Drivers[1] \in DriverSet /\ Len(Drivers) \in Nat \ {0}
  BY DriverFacts
<1>3. CASE mboot_upgrade
  BY <1>1, <1>2, <1>3 DEF mboot_upgrade, JoinInv
<1>4. CASE mboot_finish
  <2>1. /\ stage[Drivers[idx]] = "exit" /\ UNCHANGED <<stage, file>>
        /\ \A j \in 1 .. idx - 1 : stage[Drivers[j]] = "exit"
    BY <1>4 DEF mboot_finish, threadVars, JoinInv
  <2>2. \A j \in 1 .. idx : stage[Drivers[j]] = "exit"
    BY <1>1, <2>1
  <2>3. CASE idx < Len(Drivers)
    BY <1>1, <1>2, <1>4, <2>1, <2>2, <2>3 DEF mboot_finish, JoinInv
  <2>4. CASE ~(idx < Len(Drivers))
    <3>1. idx = Len(Drivers)
      BY <1>1, <1>2, <2>4
    <3> QED
      BY <1>4, <2>1, <2>2, <2>4, <3>1 DEF mboot_finish, JoinInv
  <2> QED
    BY <2>3, <2>4
<1>5. ASSUME NEW d \in DriverSet, upgrade_op(d)
      PROVE  JoinInv'
  <2>0. file[Drivers[1]] # "null"
    BY DEF JoinInv
  <2>1. CASE Open(d)
    BY <1>5, <2>0, <2>1, JoinStays DEF Open, Alive, mainVars
  <2>2. CASE OpenFile(d)
    <3>1. file'[Drivers[1]] # "null"
      <4>0. PICK f : /\ file' = [file EXCEPT ![d] = f]
                     /\ path # "freed" => f = "open"
        BY <2>2 DEF OpenFile
      <4>1. CASE Drivers[1] # d
        BY <1>1, <1>2, <2>0, <4>0, <4>1
      <4>2. CASE Drivers[1] = d
        <5>1. path # "freed"
          BY <1>1, <1>2, <2>2, <4>2 DEF OpenFile, Alive, JoinInv
        <5> QED
          BY <1>1, <1>2, <4>0, <4>2, <5>1
      <4> QED
        BY <4>1, <4>2
    <3> QED
      BY <1>5, <2>2, <3>1, JoinStays DEF OpenFile, Alive, mainVars
  <2>3. CASE Crash(d)
    BY <2>3 DEF Crash, threadVars, JoinInv
  <2>4. CASE Write(d)
    <3>1. stage[d] # "exit" /\ mpc \in {"spawn", "join"}
      BY <2>4 DEF Write, Script, Alive
    <3>2. Fails(d) \/ GoesOn(d) \/ EndsStage(d)
      BY <2>4 DEF Write
    <3>3. \E s : stage' = [stage EXCEPT ![d] = s]
      <4>1. stage = [stage EXCEPT ![d] = stage[d]]
        BY <1>1
      <4> QED
        BY <3>2, <4>1 DEF Fails, GoesOn, EndsStage
    <3>4. UNCHANGED <<idx, path, mpc, file>>
      BY <2>4 DEF Write, mainVars
    <3> QED
      BY <1>5, <2>0, <3>1, <3>3, <3>4, JoinStays
  <2>5. CASE Close(d)
    BY <1>5, <2>0, <2>5, JoinStays DEF Close, Alive, mainVars
  <2> QED
    BY <1>5, <2>1, <2>2, <2>3, <2>4, <2>5 DEF upgrade_op
<1>6. CASE Kill
  BY <1>6 DEF Kill, threadVars, JoinInv
<1>7. CASE Rerun
  BY <1>2, <1>7 DEF Rerun, JoinInv
<1>8. CASE UNCHANGED vars
  BY <1>8 DEF vars, mainVars, threadVars, JoinInv
<1> QED
  BY <1>3, <1>4, <1>5, <1>6, <1>7, <1>8 DEF Next, mboot

\* JoinInv holds in every state.
LEMMA JoinHolds == Spec => []JoinInv
<1>1. Init => JoinInv
  BY DriverFacts DEF Init, JoinInv
<1> QED
  BY <1>1, JoinNext, Inductive, PTL DEF Spec

\* When mboot_finish has gone through the drivers, no upgrade thread is left
\* that still writes to a bus, on however many drivers.
THEOREM AllJoined == Spec => []DoneMeansJoined
<1>1. JoinInv => DoneMeansJoined
  BY UpgradeAssumption DEF JoinInv, DoneMeansJoined, DriverSet
<1> QED
  BY <1>1, JoinHolds, PTL

\* The thread that is joined first never finds its path freed: the free after
\* that join comes too late to hurt it.
THEOREM FirstOpens == Spec => []FirstDriverHasFile
<1>1. JoinInv => FirstDriverHasFile
  BY DEF JoinInv, FirstDriverHasFile
<1> QED
  BY <1>1, JoinHolds, PTL

-----------------------------------------------------------------------------
\* What one i2c_write is: the next write of the stage goes out, every module the
\* tool has no reason to doubt receives it if it hangs on that bus, and the
\* thread fails (a fault), goes on, or ends the stage.
LEMMA WriteFacts ==
  ASSUME IInv, NEW d \in DriverSet, Write(d)
  PROVE  LET s == stage[d]
             p == pos[d]
             i == step[d]
         IN  /\ s \in ScriptStages /\ p \in Places /\ Placed(s, p)
             /\ i \in 1 .. Len(Script(s, p)) /\ Len(Script(s, p)) \in 1 .. 7
             /\ \A m \in Modules : missed'[m] # "now" =>
                  /\ missed'[m] = missed[m]
                  /\ \/ Bus[m] # d /\ dev'[m] = dev[m]
                     \/ /\ Bus[m] = d
                        /\ \E h \in Pages \cup {NoPage} :
                             dev'[m] = Receive(dev[m], Script(s, p)[i], h)
             /\ \/ Fails(d) /\ faults' = faults + 1
                \/ (GoesOn(d) \/ EndsStage(d)) /\ faults' \in {faults, faults + 1}
<1> DEFINE s == stage[d]
           p == pos[d]
           i == step[d]
           n == Len(Script(s, p))
           w == Script(s, p)[i]
<1>1. TypeOK /\ ThreadInv(d)
  BY ThreadInvEquiv DEF IInv
<1>2. s \in ScriptStages /\ p \in Places /\ Placed(s, p)
  BY <1>1 DEF ThreadInv, Write, Script, ScriptStages
<1>3. n \in 1 .. 7 /\ i \in 1 .. 7 /\ (i = 1 \/ i <= n)
  BY <1>1, <1>2, ScriptFacts DEF ThreadInv, Places
<1> HIDE DEF n, i
<1>4. i \in 1 .. n
  BY <1>3
<1> USE DEF n, i
<1>5. w \in Cmds
  BY <1>2, <1>4, ScriptFacts DEF Safe, Places
<1> HIDE DEF w
<1>6. PICK got \in SUBSET On(d), ok \in BOOLEAN :
        \E torn \in IF w.op = "data" THEN SUBSET got ELSE {{}} :
          /\ IF ok /\ got = On(d) /\ torn = {}
               THEN UNCHANGED faults
               ELSE faults < MaxFaults /\ faults' = faults + 1
          /\ Delivered(d, w, got, torn)
          /\ \/ ~ok /\ Fails(d)
             \/ ok /\ (GoesOn(d) \/ EndsStage(d))
  BY DEF Write, w
<1>7. PICK torn \in SUBSET got :
        /\ Delivered(d, w, got, torn)
        /\ \/ Fails(d) /\ faults' = faults + 1
           \/ (GoesOn(d) \/ EndsStage(d)) /\ faults' \in {faults, faults + 1}
  BY <1>6
<1>8. ASSUME NEW m \in Modules, missed'[m] # "now"
      PROVE  /\ missed'[m] = missed[m]
             /\ \/ Bus[m] # d /\ dev'[m] = dev[m]
                \/ Bus[m] = d /\ \E h \in Pages \cup {NoPage} : dev'[m] = Receive(dev[m], w, h)
  BY <1>1, <1>5, <1>7, <1>8, DeliveredTo
<1> QED
  BY <1>2, <1>3, <1>4, <1>7, <1>8 DEF w

\* A thread leaves the erase loop of flash_fast_erase at the configuration.
LEMMA EraseReachesEnd ==
  ASSUME NEW p \in Places, Placed("erase", p),
         Following("erase", p).stage # "erase"
  PROVE  Following("erase", p).pos = mcs1_cfg_offset
<1> DEFINE q == p + EraseUnit(p, mcs1_cfg_offset)
<1>1. p \in Nat
  BY LayoutFacts DEF Places, Firmware
<1>2. q \in Nat /\ q <= mcs1_cfg_offset /\ Aligned(q)
  BY <1>1, UnitTypes, StepAligned DEF Placed
<1>3. Following("erase", p) = EndErase(q)
  BY DEF Following
<1> HIDE DEF q
<1>4. ~(EraseUnit(q, mcs1_cfg_offset) > 0) /\ Following("erase", p).pos = q
  BY <1>3 DEF EndErase
<1>5. EraseUnit(q, mcs1_cfg_offset) = 0
  BY <1>4, SizeTypes DEF EraseUnit
<1> QED
  BY <1>2, <1>4, <1>5, EraseEndsAtConfig

\* The three ways a thread goes on after a write, with all it remembers.
LEMMA ThreadMove ==
  ASSUME IInv, NEW d \in DriverSet, Write(d)
  PROVE  LET s == stage[d]
             p == pos[d]
             n == Len(Script(s, p))
             next == Following(s, p)
         IN  /\ \A e \in DriverSet : e # d =>
                  /\ stage'[e] = stage[e] /\ step'[e] = step[e] /\ pos'[e] = pos[e]
                  /\ rebooted'[e] = rebooted[e] /\ shortErase'[e] = shortErase[e]
             /\ \/ /\ stage'[d] = OnError(s) /\ step'[d] = 1 /\ pos'[d] = p
                   /\ rebooted'[d] = rebooted[d]
                   /\ shortErase'[d] = (shortErase[d] \/ s = "erase")
                   /\ faults' = faults + 1
                \/ /\ step[d] < n
                   /\ stage'[d] = s /\ step'[d] = step[d] + 1 /\ pos'[d] = p
                   /\ rebooted'[d] = rebooted[d] /\ shortErase'[d] = shortErase[d]
                   /\ faults' \in {faults, faults + 1}
                \/ /\ step[d] = n
                   /\ stage'[d] = next.stage /\ step'[d] = 1 /\ pos'[d] = next.pos
                   /\ rebooted'[d] = (rebooted[d] \/ s = "reboot")
                   /\ shortErase'[d] = shortErase[d]
                   /\ faults' \in {faults, faults + 1}
<1> DEFINE s == stage[d]
           p == pos[d]
           n == Len(Script(s, p))
           next == Following(s, p)
<1>1. /\ stage \in [DriverSet -> Stages] /\ step \in [DriverSet -> 1 .. 7]
      /\ pos \in [DriverSet -> Places]
      /\ shortErase \in [DriverSet -> BOOLEAN] /\ rebooted \in [DriverSet -> BOOLEAN]
  BY ThreadTypes
<1>2. p \in Places /\ Placed(s, p)
  BY WriteFacts
<1>3. s = "erase" /\ next.stage # "erase" => next.pos = mcs1_cfg_offset
  BY <1>2, EraseReachesEnd
<1>4. CASE Fails(d) /\ faults' = faults + 1
  BY <1>1, <1>4 DEF Fails
<1>5. CASE GoesOn(d) /\ faults' \in {faults, faults + 1}
  BY <1>1, <1>5 DEF GoesOn
<1>6. CASE EndsStage(d) /\ faults' \in {faults, faults + 1}
  <2> HIDE DEF next
  <2>1. /\ step[d] = n
        /\ stage' = [stage EXCEPT ![d] = next.stage]
        /\ pos' = [pos EXCEPT ![d] = next.pos]
        /\ step' = [step EXCEPT ![d] = 1]
        /\ shortErase' = [shortErase EXCEPT ![d] = shortErase[d] \/
             (s = "erase" /\ next.stage # "erase" /\ next.pos # mcs1_cfg_offset)]
        /\ rebooted' = [rebooted EXCEPT ![d] = rebooted[d] \/ s = "reboot"]
    BY <1>6 DEF EndsStage, next
  <2>2. rebooted'[d] = (rebooted[d] \/ s = "reboot") /\ shortErase'[d] = shortErase[d]
    BY <1>1, <1>3, <2>1
  <2>3. \A e \in DriverSet : e # d =>
          /\ stage'[e] = stage[e] /\ step'[e] = step[e] /\ pos'[e] = pos[e]
          /\ rebooted'[e] = rebooted[e] /\ shortErase'[e] = shortErase[e]
    BY <1>1, <2>1
  <2>4. stage'[d] = next.stage /\ step'[d] = 1 /\ pos'[d] = next.pos
    BY <1>1, <2>1
  <2> QED
    BY <1>6, <2>1, <2>2, <2>3, <2>4 DEF next
<1> QED
  BY <1>4, <1>5, <1>6, WriteFacts

\* RebootInv is kept: only the write of the reboot stage sets rebooted, only a
\* failed write of the erase stage shortErase.
LEMMA RebootNext == IInv /\ RebootInv /\ [Next]_vars => RebootInv'
<1> SUFFICES ASSUME IInv, RebootInv, [Next]_vars PROVE RebootInv'
  OBVIOUS
<1>1. /\ stage \in [DriverSet -> Stages] /\ idx \in 1 .. Len(Drivers) /\ faults \in Nat
      /\ rebooted \in [DriverSet -> BOOLEAN]
  BY ThreadTypes
<1>2. CASE mboot_upgrade
  <2>1. stage[Drivers[idx]] = "idle" /\ Drivers[idx] \in DriverSet
    BY <1>1, <1>2, DriverFacts DEF mboot_upgrade, IInv, SpawnInv
  <2>2. ~rebooted[Drivers[idx]]
    BY <2>1 DEF RebootInv
  <2> QED
    BY <1>1, <1>2, <2>2 DEF mboot_upgrade, RebootInv
<1>3. CASE mboot_finish
  BY <1>3 DEF mboot_finish, threadVars, RebootInv
<1>4. ASSUME NEW d \in DriverSet, upgrade_op(d)
      PROVE  RebootInv'
  <2>1. CASE Open(d)
    BY <1>1, <2>1 DEF Open, RebootInv
  <2>2. CASE OpenFile(d)
    BY <1>1, <2>2 DEF OpenFile, RebootInv
  <2>3. CASE Crash(d)
    BY <2>3 DEF Crash, threadVars, RebootInv
  <2>4. CASE Write(d)
    <3> SUFFICES ASSUME NEW e \in DriverSet
                 PROVE  /\ rebooted'[e] => stage'[e] \in {"close", "exit"}
                        /\ shortErase'[e] => faults' > 0
      BY DEF RebootInv
    <3>1. /\ rebooted[e] => stage[e] \in {"close", "exit"}
          /\ shortErase[e] => faults > 0
      BY DEF RebootInv
    <3>2. faults' \in {faults, faults + 1} /\ stage[d] \in ScriptStages
      BY <1>4, <2>4, WriteFacts
    <3>3. CASE e # d
      BY <1>1, <1>4, <2>4, <3>1, <3>2, <3>3, ThreadMove
    <3>4. CASE e = d
      <4>1. ~rebooted[d]
        BY <3>1, <3>2, <3>4 DEF ScriptStages
      <4>2. rebooted'[d] => stage'[d] = Following("reboot", pos[d]).stage
        BY <1>4, <2>4, <4>1, ThreadMove
      <4>3. shortErase'[d] => shortErase[d] \/ faults' = faults + 1
        BY <1>4, <2>4, ThreadMove
      <4> QED
        BY <1>1, <3>1, <3>2, <3>4, <4>2, <4>3 DEF Following
    <3> QED
      BY <3>3, <3>4
  <2>5. CASE Close(d)
    BY <1>1, <2>5 DEF Close, RebootInv
  <2> QED
    BY <1>4, <2>1, <2>2, <2>3, <2>4, <2>5 DEF upgrade_op
<1>5. CASE Kill
  BY <1>5 DEF Kill, threadVars, RebootInv
<1>6. CASE Rerun
  BY <1>6 DEF Rerun, RebootInv
<1>7. CASE UNCHANGED vars
  BY <1>7 DEF vars, threadVars, RebootInv
<1> QED
  BY <1>2, <1>3, <1>4, <1>5, <1>6, <1>7 DEF Next, mboot

\* RebootInv holds in every state.
LEMMA RebootHolds == Spec => []RebootInv
<1>1. Init => RebootInv
  BY DEF Init, RebootInv
<1> QED
  BY <1>1, RebootNext, Inductive, PTL DEF Spec

\* A step that leaves the erase of a thread short is an i2c_write of that thread, at its
\* erase, which failed: no alignment of the layout does it, and no other thread.
CutShort ==
  \A d \in DriverSet : shortErase'[d] /\ ~shortErase[d] =>
    stage[d] = "erase" /\ Write(d) /\ Fails(d) /\ faults' = faults + 1

LEMMA WriteCutsShort ==
  ASSUME IInv, NEW d \in DriverSet, Write(d), NEW e \in DriverSet, shortErase'[e], ~shortErase[e]
  PROVE  e = d /\ stage[d] = "erase" /\ Fails(d) /\ faults' = faults + 1
<1>1. shortErase \in [DriverSet -> BOOLEAN] /\ rebooted \in [DriverSet -> BOOLEAN]
  BY ThreadTypes
<1>2. e = d
  BY ThreadMove
<1>3. CASE Fails(d) /\ faults' = faults + 1
  BY <1>1, <1>2, <1>3 DEF Fails
<1>4. CASE GoesOn(d)
  BY <1>2, <1>4 DEF GoesOn
<1>5. CASE EndsStage(d)
  <2>1. pos[d] \in Places /\ Placed(stage[d], pos[d])
    BY WriteFacts
  <2> DEFINE next == Following(stage[d], pos[d])
             short == stage[d] = "erase" /\ next.stage # "erase" /\ next.pos # mcs1_cfg_offset
  <2>2. ~short
    BY <2>1, EraseReachesEnd
  <2>3. shortErase' = [shortErase EXCEPT ![d] = @ \/ short]
    BY <1>5 DEF EndsStage
  <2> HIDE DEF short
  <2> QED
    BY <1>1, <1>2, <2>2, <2>3
<1> QED
  BY <1>2, <1>3, <1>4, <1>5, WriteFacts

LEMMA NothingElseCutsShort ==
  ASSUME [Next]_vars, NEW e \in DriverSet, shortErase'[e], ~shortErase[e]
  PROVE  \E d \in DriverSet : Write(d)
<1>1. shortErase' # shortErase
  OBVIOUS
<1>2. CASE Rerun
  BY <1>2 DEF Rerun
<1> QED
  BY <1>1, <1>2 DEF Next, mboot, mboot_upgrade, mboot_finish, upgrade_op, Open, OpenFile, Crash, Close, Kill,
                    threadVars, vars

\* flash_fast_erase stops short of the configuration only when an i2c_write of its own
\* thread failed there: for every layout its three loops meet the end exactly.
THEOREM ErasesWhole == Spec => [][CutShort]_vars
<1>1. IInv /\ [Next]_vars => CutShort
  BY WriteCutsShort, NothingElseCutsShort DEF CutShort
<1> QED
  BY <1>1, Inductive, PTL DEF Spec

-----------------------------------------------------------------------------
\* A module whose bridge is open, write by write.  It raises the chip select.
LEMMA SelectStep ==
  ASSUME NEW dv \in Device, dv.mode = "download", NEW h
  PROVE  /\ Receive(dv, CS_ENABLE, h).page = dv.page
         /\ Receive(dv, CS_ENABLE, h).frame = dv.frame
         /\ Receive(dv, CS_ENABLE, h).wel = dv.wel
         /\ Receive(dv, CS_ENABLE, h).mode = "download"
         /\ Receive(dv, CS_ENABLE, h).cs = TRUE
BY DEF Receive, CS_ENABLE, Cmd, Device

\* It takes bytes into the open frame.
LEMMA BytesStep ==
  ASSUME NEW dv \in Device, dv.mode = "download", dv.cs, NEW w \in Cmds, w.op \in DatOps, NEW h
  PROVE  /\ Receive(dv, w, h).page = dv.page
         /\ Receive(dv, w, h).frame = Shift(dv.frame, w)
         /\ Receive(dv, w, h).wel = dv.wel
         /\ Receive(dv, w, h).mode = "download"
         /\ Receive(dv, w, h).cs = TRUE
BY DEF Receive, DatOps, Device

\* It drops the chip select and executes the frame.
LEMMA DeselectStep ==
  ASSUME NEW dv \in Device, dv.mode = "download", dv.cs, NEW h
  PROVE  LET r == Receive(dv, CS_DISABLE, h)
             f == dv.frame
         IN  /\ r.mode = "download" /\ r.cs = FALSE /\ r.frame = Frame("empty")
             /\ f.op = "wren" => r.wel /\ r.page = dv.page
             /\ f.op = "erase" /\ dv.wel => r.page = Erased(dv.page, f)
             /\ f.op = "prog" /\ dv.wel => r.page = Programmed(dv.page, f)
             /\ \/ r.page = dv.page
                \/ f.op = "erase" /\ r.page = Erased(dv.page, f)
                \/ f.op = "prog" /\ r.page = Programmed(dv.page, f)
                \/ f.op = "wild" /\ h # NoPage /\ r.page = [dv.page EXCEPT ![h] = "bad"]
<1>1. Receive(dv, CS_DISABLE, h) = Execute(dv, h)
  BY DEF Receive, CS_DISABLE, Cmd
<1> DEFINE f    == dv.frame
           rest == [dv EXCEPT !.cs = FALSE, !.frame = Frame("empty")]
           done == [rest EXCEPT !.wel = FALSE]
           r == Execute(dv, h)
<1>2. CASE f.op = "wren"
  <2>1. r = [rest EXCEPT !.wel = TRUE]
    BY <1>2 DEF Execute
  <2> QED
    BY <1>1, <1>2, <2>1 DEF Device
<1>3. CASE f.op = "erase" /\ dv.wel
  <2>1. r = [done EXCEPT !.page = Erased(dv.page, f)]
    BY <1>3 DEF Execute
  <2> QED
    BY <1>1, <1>3, <2>1 DEF Device
<1>4. CASE f.op = "prog" /\ dv.wel
  <2>1. r = [done EXCEPT !.page = Programmed(dv.page, f)]
    BY <1>4 DEF Execute
  <2> QED
    BY <1>1, <1>4, <2>1 DEF Device
<1>5. CASE f.op = "wild" /\ dv.wel /\ h # NoPage
  <2>1. r = [done EXCEPT !.page[h] = "bad"]
    BY <1>5 DEF Execute
  <2> QED
    BY <1>1, <1>5, <2>1 DEF Device
<1>6. CASE /\ f.op # "wren" /\ ~(f.op = "erase" /\ dv.wel) /\ ~(f.op = "prog" /\ dv.wel)
           /\ ~(f.op = "wild" /\ dv.wel /\ h # NoPage)
  <2>1. r = rest
    BY <1>6 DEF Execute
  <2> QED
    BY <1>1, <1>6, <2>1 DEF Device
<1> QED
  BY <1>2, <1>3, <1>4, <1>5, <1>6

\* The first four writes of an erase or a page program: the flash is write
\* enabled, and the chip selected for the command.
LEMMA EnableSteps ==
  ASSUME NEW dv \in Device, dv.mode = "download", NEW w, NEW i \in 1 .. 4, HeldAt(dv, i, w), NEW h
  PROVE  LET r == Receive(dv, <<CS_ENABLE, WREN, CS_DISABLE, CS_ENABLE>>[i], h) IN
         r.mode = "download" /\ r.page = dv.page /\ HeldAt(r, i + 1, w)
<1> DEFINE r == Receive(dv, <<CS_ENABLE, WREN, CS_DISABLE, CS_ENABLE>>[i], h)
<1>0. WREN \in Cmds /\ WREN.op = "wren" /\ WREN.op \in DatOps
  BY PlainSafe DEF Safe, DatOps
<1>1. CASE i = 1
  <2>1. r = Receive(dv, CS_ENABLE, h) /\ dv.frame = Frame("empty")
    BY <1>1 DEF HeldAt
  <2> HIDE DEF r
  <2>2. /\ r.mode = "download" /\ r.page = dv.page /\ r.cs = TRUE
        /\ r.frame = Frame("empty")
    BY <2>1, SelectStep
  <2> QED
    BY <1>1, <2>2 DEF HeldAt, r
<1>2. CASE i = 2
  <2>1. r = Receive(dv, WREN, h) /\ dv.cs /\ dv.frame = Frame("empty")
    BY <1>2 DEF HeldAt
  <2>2. Shift(Frame("empty"), WREN) = WREN
    BY <1>0 DEF Shift, Frame
  <2> HIDE DEF r
  <2>3. r.mode = "download" /\ r.page = dv.page /\ r.cs = TRUE /\ r.frame = WREN
    BY <1>0, <2>1, <2>2, BytesStep
  <2> QED
    BY <1>2, <2>3 DEF HeldAt, r
<1>3. CASE i = 3
  <2>1. r = Receive(dv, CS_DISABLE, h) /\ dv.cs /\ dv.frame = WREN
    BY <1>3 DEF HeldAt
  <2> HIDE DEF r
  <2>2. /\ r.mode = "download" /\ r.page = dv.page /\ r.cs = FALSE
        /\ r.frame = Frame("empty") /\ r.wel
    BY <1>0, <2>1, DeselectStep
  <2> QED
    BY <1>3, <2>2 DEF HeldAt, r
<1>4. CASE i = 4
  <2>1. r = Receive(dv, CS_ENABLE, h) /\ dv.frame = Frame("empty") /\ dv.wel
    BY <1>4 DEF HeldAt
  <2> HIDE DEF r
  <2>2. /\ r.mode = "download" /\ r.page = dv.page /\ r.cs = TRUE
        /\ r.frame = Frame("empty") /\ r.wel
    BY <2>1, SelectStep
  <2> QED
    BY <1>4, <2>2 DEF HeldAt, r
<1> QED
  BY <1>1, <1>2, <1>3, <1>4

\* What the six writes of flash_erase_op do to a module: nothing before the
\* last, which clears the unit.
LEMMA EraseOpSteps ==
  ASSUME NEW dv \in Device, dv.mode = "download", NEW a \in Pages, NEW u \in Units,
         EraseRange(a, u) \cap Reserved = {},
         NEW i \in 1 .. 6, HeldAt(dv, i, Erase(a, u)), NEW h
  PROVE  LET r == Receive(dv, flash_erase_op(a, u)[i], h) IN
         /\ r.mode = "download"
         /\ i < 6 => r.page = dv.page /\ HeldAt(r, i + 1, Erase(a, u))
         /\ i = 6 => /\ r.page = Erased(dv.page, Erase(a, u))
                     /\ ~r.cs /\ r.frame = Frame("empty")
<1> DEFINE e == Erase(a, u)
           r == Receive(dv, flash_erase_op(a, u)[i], h)
<1>0. e \in Cmds /\ e.op = "erase" /\ e.op \in DatOps
  BY EraseSafe DEF Safe, DatOps
<1>1. flash_erase_op(a, u) = <<CS_ENABLE, WREN, CS_DISABLE, CS_ENABLE, e, CS_DISABLE>>
  BY DEF flash_erase_op
<1> HIDE DEF e
<1>2. CASE i \in 1 .. 4
  <2>1. flash_erase_op(a, u)[i] = <<CS_ENABLE, WREN, CS_DISABLE, CS_ENABLE>>[i]
    BY <1>1, <1>2
  <2> QED
    BY <1>2, <2>1, EnableSteps DEF e
<1>3. CASE i = 5
  <2>1. r = Receive(dv, e, h) /\ dv.cs /\ dv.frame = Frame("empty") /\ dv.wel
    BY <1>1, <1>3 DEF HeldAt
  <2>2. Shift(Frame("empty"), e) = e
    BY <1>0 DEF Shift, Frame
  <2> HIDE DEF r
  <2>3. /\ r.mode = "download" /\ r.page = dv.page /\ r.cs = TRUE /\ r.wel = dv.wel
        /\ r.frame = Shift(dv.frame, e)
    BY <1>0, <2>1, BytesStep
  <2> QED
    BY <1>3, <2>1, <2>2, <2>3 DEF HeldAt, r, e
<1>4. CASE i = 6
  <2>1. r = Receive(dv, CS_DISABLE, h) /\ dv.cs /\ dv.frame = e /\ dv.wel
    BY <1>1, <1>4 DEF HeldAt, e
  <2> HIDE DEF r
  <2>2. /\ r.mode = "download" /\ r.page = Erased(dv.page, e) /\ r.cs = FALSE
        /\ r.frame = Frame("empty")
    BY <1>0, <2>1, DeselectStep
  <2> QED
    BY <1>4, <2>2 DEF r, e
<1> QED
  BY <1>2, <1>3, <1>4

\* A page takes what it is sent if it was erased, and is spoiled otherwise.
Written(page, a) ==
  [page EXCEPT ![a] = IF page[a] = "erased" THEN "new" ELSE "bad"]

\* What the seven writes of flash_prog_page do to a module: nothing before the
\* last, which programs the page.
LEMMA ProgPageSteps ==
  ASSUME NEW dv \in Device, dv.mode = "download", NEW a \in Pages, a \notin Reserved,
         NEW i \in 1 .. 7, HeldAt(dv, i, Header(a)), NEW h
  PROVE  LET r == Receive(dv, flash_prog_page(a)[i], h) IN
         /\ r.mode = "download"
         /\ i < 7 => r.page = dv.page /\ HeldAt(r, i + 1, Header(a))
         /\ i = 7 => r.page = Written(dv.page, a) /\ ~r.cs /\ r.frame = Frame("empty")
<1> DEFINE e == Header(a)
           r == Receive(dv, flash_prog_page(a)[i], h)
           full == [e EXCEPT !.op = "prog"]
<1>0. /\ e \in Cmds /\ e.op = "head" /\ e.op \in DatOps /\ e.at = a /\ e.good = TRUE
      /\ DATA \in Cmds /\ DATA.op = "data" /\ DATA.op \in DatOps /\ DATA.good = TRUE
  BY HeaderSafe, PlainSafe DEF Safe, DatOps, Header, Cmd, DATA
<1>1. flash_prog_page(a) = <<CS_ENABLE, WREN, CS_DISABLE, CS_ENABLE, e, DATA, CS_DISABLE>>
  BY DEF flash_prog_page
<1>2. full.op = "prog" /\ full.at = a /\ full.good = TRUE
  BY <1>0 DEF Cmds
<1>3. Shift(Frame("empty"), e) = e
  BY <1>0 DEF Shift, Frame
<1>4. Shift(e, DATA) = full
  <2>1. Shift(e, DATA) = [e EXCEPT !.op = "prog", !.good = TRUE]
    BY <1>0 DEF Shift
  <2> QED
    BY <1>0, <2>1 DEF Cmds
<1> HIDE DEF e, full
<1>5. CASE i \in 1 .. 4
  <2>1. flash_prog_page(a)[i] = <<CS_ENABLE, WREN, CS_DISABLE, CS_ENABLE>>[i]
    BY <1>1, <1>5
  <2> QED
    BY <1>5, <2>1, EnableSteps DEF e
<1>6. CASE i = 5
  <2>1. r = Receive(dv, e, h) /\ dv.cs /\ dv.frame = Frame("empty") /\ dv.wel
    BY <1>1, <1>6 DEF HeldAt
  <2> HIDE DEF r
  <2>2. /\ r.mode = "download" /\ r.page = dv.page /\ r.cs = TRUE /\ r.wel = dv.wel
        /\ r.frame = Shift(dv.frame, e)
    BY <1>0, <2>1, BytesStep
  <2> QED
    BY <1>3, <1>6, <2>1, <2>2 DEF HeldAt, r, e
<1>7. CASE i = 6
  <2>0. DATA \in Cmds /\ DATA.op \in DatOps
    BY <1>0
  <2>1. r = Receive(dv, DATA, h) /\ dv.cs /\ dv.frame = e /\ dv.wel
    BY <1>1, <1>7 DEF HeldAt, e
  <2> HIDE DEF r
  <2>2. /\ r.mode = "download" /\ r.page = dv.page /\ r.cs = TRUE /\ r.wel = dv.wel
        /\ r.frame = Shift(dv.frame, DATA)
    BY <2>0, <2>1, BytesStep
  <2> QED
    BY <1>4, <1>7, <2>1, <2>2 DEF HeldAt, r, e, full
<1>8. CASE i = 7
  <2>1. r = Receive(dv, CS_DISABLE, h) /\ dv.cs /\ dv.frame = full /\ dv.wel
    BY <1>1, <1>8 DEF HeldAt, full, e
  <2> HIDE DEF r
  <2>2. /\ r.mode = "download" /\ r.page = Programmed(dv.page, full) /\ r.cs = FALSE
        /\ r.frame = Frame("empty")
    BY <1>2, <2>1, DeselectStep
  <2>3. Programmed(dv.page, full) = Written(dv.page, a)
    BY <1>2 DEF Programmed, Written
  <2> QED
    BY <1>8, <2>2, <2>3 DEF r
<1> QED
  BY <1>5, <1>6, <1>7, <1>8

\* What the last write of a stage does to the pages of a module whose bridge is
\* open.  In the unlock stage it executes what an earlier run left half sent.
Wrote(before, after, s, p) ==
  CASE s = "unlock"    -> after = before \/ \E q \in Pages : after = [before EXCEPT ![q] = "bad"]
    [] s = "erase"     -> after = Erased(before, Erase(p, EraseUnit(p, mcs1_cfg_offset)))
    [] s = "eraseinfo" -> after = Erased(before, Erase(mcs1_info_offset, SPI_FLASH_SEC))
    [] s = "page"      -> after = Written(before, p)
    [] s = "info"      -> after = Written(before, mcs1_info_offset)
    [] OTHER           -> after = before

\* A write enable shifted into whatever frame is open makes no erase of it, and
\* no program with good data.
LEMMA WrenShift ==
  ASSUME NEW f \in Frames
  PROVE  LET g == Shift(f, WREN) IN g.op # "erase" /\ (g.op = "prog" => ~g.good)
<1> DEFINE w == WREN
           g == Shift(f, w)
<1>0. w.op = "wren"
  BY PlainSafe
<1> HIDE DEF w
<1>1. CASE f.op = "empty"
  BY <1>0, <1>1 DEF Shift, w
<1>2. CASE f.op \in {"head", "prog"}
  <2>1. g = [f EXCEPT !.op = "prog", !.good = FALSE]
    BY <1>0, <1>2 DEF Shift
  <2> QED
    BY <2>1 DEF Frames, w
<1>3. CASE f.op = "wild"
  BY <1>3 DEF Shift, w
<1>4. CASE f.op \notin {"empty", "head", "prog", "wild"}
  BY <1>4 DEF Shift, Frame, w
<1> QED
  BY <1>1, <1>2, <1>3, <1>4

\* The i-th of n writes on a chip that is selected for one command: nothing
\* happens to the pages before the last, which leaves it with these.
Sent(dv, r, s, i, p, n, page) ==
  /\ r.mode = "download"
  /\ i < n => r.page = dv.page /\ InStep(r, s, i + 1, p)
  /\ i = n => r.page = page /\ ~r.cs /\ r.frame = Frame("empty")

\* A stage that is one erase keeps InStep up to its last write.
LEMMA EraseStageSteps ==
  ASSUME NEW dv \in Device, NEW s \in {"erase", "eraseinfo"}, NEW p, NEW a \in Pages, NEW u \in Units,
         Script(s, p) = flash_erase_op(a, u), Script(s, p)[5] = Erase(a, u),
         EraseRange(a, u) \cap Reserved = {},
         NEW i \in 1 .. 6, InStep(dv, s, i, p), NEW h
  PROVE  Sent(dv, Receive(dv, Script(s, p)[i], h), s, i, p, 6, Erased(dv.page, Erase(a, u)))
<1> DEFINE r == Receive(dv, Script(s, p)[i], h)
<1>1. dv.mode = "download" /\ HeldAt(dv, i, Erase(a, u)) /\ FlashAt(dv.page, s, p)
  BY DEF InStep, OpenStages, FlashStages
<1>2. /\ r.mode = "download"
      /\ i < 6 => r.page = dv.page /\ HeldAt(r, i + 1, Erase(a, u))
      /\ i = 6 => /\ r.page = Erased(dv.page, Erase(a, u))
                  /\ ~r.cs /\ r.frame = Frame("empty")
  BY <1>1, EraseOpSteps
<1> HIDE DEF r
<1>3. i < 6 => InStep(r, s, i + 1, p)
  BY <1>1, <1>2 DEF InStep
<1>4. Sent(dv, r, s, i, p, 6, Erased(dv.page, Erase(a, u)))
  BY <1>2, <1>3, Zenon DEF Sent
<1> QED
  BY <1>4 DEF r

\* A stage that is one page program keeps InStep up to its last write.
LEMMA ProgStageSteps ==
  ASSUME NEW dv \in Device, NEW s \in {"page", "info"}, NEW p, NEW a \in Pages, a \notin Reserved,
         Script(s, p) = flash_prog_page(a), Script(s, p)[5] = Header(a),
         NEW i \in 1 .. 7, InStep(dv, s, i, p), NEW h
  PROVE  Sent(dv, Receive(dv, Script(s, p)[i], h), s, i, p, 7, Written(dv.page, a))
<1> DEFINE r == Receive(dv, Script(s, p)[i], h)
<1>1. dv.mode = "download" /\ HeldAt(dv, i, Header(a)) /\ FlashAt(dv.page, s, p)
  BY DEF InStep, OpenStages, FlashStages
<1>2. /\ r.mode = "download"
      /\ i < 7 => r.page = dv.page /\ HeldAt(r, i + 1, Header(a))
      /\ i = 7 => r.page = Written(dv.page, a) /\ ~r.cs /\ r.frame = Frame("empty")
  BY <1>1, ProgPageSteps
<1> HIDE DEF r
<1>3. i < 7 => InStep(r, s, i + 1, p)
  BY <1>1, <1>2 DEF InStep
<1>4. Sent(dv, r, s, i, p, 7, Written(dv.page, a))
  BY <1>2, <1>3, Zenon DEF Sent
<1> QED
  BY <1>4 DEF r

\* The chip after write i of a stage: its pages, and whether it is as the next
\* write, or the next stage, expects it.
After(dv, r, s, i, p) ==
  /\ i < Len(Script(s, p)) => r.page = dv.page /\ InStep(r, s, i + 1, p)
  /\ i = Len(Script(s, p)) =>
         /\ Wrote(dv.page, r.page, s, p)
         /\ s \in {"enable", "unlock"} \cup FlashStages => r.mode = "download"
         /\ s \in {"unlock"} \cup FlashStages => ~r.cs /\ r.frame = Frame("empty")
         /\ s = "reboot" => r.mode = "boot"

\* The three writes that flush the frame an earlier run may have left open.
LEMMA UnlockSteps ==
  ASSUME NEW dv \in Device, NEW p, NEW i \in 1 .. 3, InStep(dv, "unlock", i, p),
         NEW h \in Pages \cup {NoPage}
  PROVE  After(dv, Receive(dv, Script("unlock", p)[i], h), "unlock", i, p)
<1> DEFINE r == Receive(dv, Script("unlock", p)[i], h)
<1>1. Script("unlock", p) = <<CS_ENABLE, WREN, CS_DISABLE>>
  BY DEF Script, flash_prog_en
<1>2. Len(Script("unlock", p)) = 3
  BY <1>1
<1>3. dv.mode = "download" /\ (i > 1 => dv.cs)
  BY DEF InStep, OpenStages
<1>4. CASE i = 1
  <2>1. r = Receive(dv, CS_ENABLE, h)
    BY <1>1, <1>4
  <2> HIDE DEF r
  <2>2. r.page = dv.page /\ r.mode = "download" /\ r.cs = TRUE
    BY <1>3, <2>1, SelectStep
  <2>3. InStep(r, "unlock", i + 1, p)
    BY <1>4, <2>2 DEF InStep, FlashAt, FlashStages
  <2>4. i # Len(Script("unlock", p))
    BY <1>2, <1>4
  <2>5. After(dv, r, "unlock", i, p)
    BY <2>2, <2>3, <2>4, Zenon DEF After
  <2> QED
    BY <2>5 DEF r
<1>5. CASE i = 2
  <2>0. WREN \in Cmds /\ WREN.op = "wren" /\ WREN.op \in DatOps /\ dv.frame \in Frames
    BY PlainSafe DEF Safe, DatOps, Device
  <2>1. r = Receive(dv, WREN, h) /\ dv.cs
    BY <1>1, <1>3, <1>5
  <2> HIDE DEF r
  <2>2. /\ r.page = dv.page /\ r.mode = "download" /\ r.cs = TRUE
        /\ r.frame = Shift(dv.frame, WREN)
    BY <1>3, <2>0, <2>1, BytesStep
  <2>3. r.frame.op # "erase" /\ (r.frame.op = "prog" => ~r.frame.good)
    BY <2>0, <2>2, WrenShift
  <2>4. InStep(r, "unlock", i + 1, p)
    BY <1>5, <2>2, <2>3 DEF InStep, FlashAt, FlashStages
  <2>5. i # Len(Script("unlock", p))
    BY <1>2, <1>5
  <2>6. After(dv, r, "unlock", i, p)
    BY <2>2, <2>4, <2>5, Zenon DEF After
  <2> QED
    BY <2>6 DEF r
<1>6. CASE i = 3
  <2> DEFINE f == dv.frame
  <2>0. f.op # "erase" /\ (f.op = "prog" => ~f.good)
    <3>1. InStep(dv, "unlock", 3, p)
      BY <1>6
    <3> QED
      BY <3>1 DEF InStep
  <2>1. r = Receive(dv, CS_DISABLE, h) /\ dv.cs /\ f.at \in Pages
    BY <1>1, <1>3, <1>6 DEF Device, Frames
  <2> HIDE DEF r
  <2>2. /\ r.mode = "download" /\ r.cs = FALSE /\ r.frame = Frame("empty")
        /\ \/ r.page = dv.page
           \/ f.op = "prog" /\ r.page = Programmed(dv.page, f)
           \/ h # NoPage /\ r.page = [dv.page EXCEPT ![h] = "bad"]
    BY <1>3, <2>0, <2>1, DeselectStep
  <2>3. f.op = "prog" => Programmed(dv.page, f) = [dv.page EXCEPT ![f.at] = "bad"]
    BY <2>0 DEF Programmed
  <2>4. r.page = dv.page \/ \E q \in Pages : r.page = [dv.page EXCEPT ![q] = "bad"]
    BY <2>1, <2>2, <2>3
  <2>5. Wrote(dv.page, r.page, "unlock", p)
    BY <2>4 DEF Wrote
  <2>6. ~(i < Len(Script("unlock", p)))
    <3> DEFINE n == Len(Script("unlock", p))
    <3>1. n = 3
      BY <1>2
    <3> HIDE DEF n
    <3>2. ~(i < n)
      BY <1>6, <3>1
    <3> QED
      BY <3>2 DEF n
  <2>7. ~r.cs
    BY <2>2
  <2>8. After(dv, r, "unlock", i, p)
    BY <2>2, <2>5, <2>6, <2>7, Zenon DEF After
  <2> QED
    BY <2>8 DEF r
<1> QED
  BY <1>4, <1>5, <1>6

\* Every write of every stage does to a sound module what the next one, or the
\* next stage, expects.
LEMMA StageSteps ==
  ASSUME NEW dv \in Device, NEW s \in ScriptStages, NEW p \in Places, Placed(s, p),
         NEW i \in 1 .. Len(Script(s, p)), InStep(dv, s, i, p), NEW h \in Pages \cup {NoPage}
  PROVE  After(dv, Receive(dv, Script(s, p)[i], h), s, i, p)
<1> DEFINE r == Receive(dv, Script(s, p)[i], h)
           n == Len(Script(s, p))
<1>0. /\ p \in Nat /\ mcs1_info_offset \in Pages /\ SPI_FLASH_SEC \in Units
      /\ mcs1_info_offset \notin Reserved
  BY LayoutFacts DEF Places, Firmware, Units, Reserved
<1>1. CASE s \in {"enable", "release", "reboot"}
  <2>1. \E w \in {ENABLE_DOWNLOAD, IIC2SPI_DISABLE, REBOOT} :
          /\ Script(s, p) = <<w>>
          /\ s = "enable" => w.op = "download"
          /\ s = "reboot" => w.op = "reboot"
    BY <1>1, PlainSafe DEF Script
  <2>2. PICK w \in {ENABLE_DOWNLOAD, IIC2SPI_DISABLE, REBOOT} :
          /\ Script(s, p) = <<w>>
          /\ s = "enable" => w.op = "download"
          /\ s = "reboot" => w.op = "reboot"
    BY <2>1
  <2>3. n = 1 /\ i = 1 /\ r = Receive(dv, w, h)
    BY <2>2
  <2>4. w.op \in {"download", "spi_disable", "reboot"}
    BY <2>2, PlainSafe
  <2> HIDE DEF r
  <2>5. r.page = dv.page /\ (w.op = "download" => r.mode = "download") /\ (w.op = "reboot" => r.mode = "boot")
    BY <2>3, <2>4 DEF Receive, Device
  <2>6. After(dv, r, s, i, p)
    BY <1>1, <2>2, <2>3, <2>5 DEF After, Wrote, FlashStages
  <2> QED
    BY <2>6 DEF r
<1>2. CASE s = "unlock"
  <2>1. n = 3
    BY <1>2 DEF Script, flash_prog_en
  <2> QED
    BY <1>2, <2>1, UnlockSteps
<1>3. CASE s = "erase"
  <2> DEFINE u == EraseUnit(p, mcs1_cfg_offset)
  <2>1. p \in Firmware /\ p \in Pages
    BY <1>0, <1>3, UnitTypes, LayoutFacts DEF Firmware, Placed, Places
  <2>2. u \in Units
    BY <1>0, UnitInUnits
  <2>3. EraseRange(p, u) \cap Reserved = {}
    BY <1>3, <2>1, EraseStepExact DEF Reserved, Placed
  <2>4. Script(s, p) = flash_erase_op(p, u)
    BY <1>3 DEF Script
  <2>5. \A after : after = Erased(dv.page, Erase(p, u)) => Wrote(dv.page, after, s, p)
    BY <1>3 DEF Wrote
  <2> HIDE DEF u
  <2>6. n = 6 /\ Script(s, p)[5] = Erase(p, u)
    BY <2>4 DEF flash_erase_op
  <2>61. i \in 1 .. 6
    BY <2>6
  <2> HIDE DEF r
  <2>7. Sent(dv, r, s, i, p, n, Erased(dv.page, Erase(p, u)))
    BY <1>3, <2>1, <2>2, <2>3, <2>4, <2>6, <2>61, EraseStageSteps DEF r
  <2>8. After(dv, r, s, i, p)
    BY <1>3, <2>5, <2>7, Zenon DEF After, Sent
  <2> QED
    BY <2>8 DEF r
<1>4. CASE s = "eraseinfo"
  <2> DEFINE e == Erase(mcs1_info_offset, SPI_FLASH_SEC)
  <2>1. Script(s, p) = flash_erase_op(mcs1_info_offset, SPI_FLASH_SEC)
    BY <1>4 DEF Script, EraseInfo
  <2>2. EraseRange(mcs1_info_offset, SPI_FLASH_SEC) \cap Reserved = {}
    BY DEF Reserved, InfoSector
  <2>3. \A after : after = Erased(dv.page, e) => Wrote(dv.page, after, s, p)
    BY <1>4 DEF Wrote
  <2>4. n = 6 /\ Script(s, p)[5] = e
    BY <2>1 DEF flash_erase_op
  <2>41. i \in 1 .. 6
    BY <2>4
  <2> HIDE DEF r
  <2>5. Sent(dv, r, s, i, p, n, Erased(dv.page, e))
    BY <1>0, <1>4, <2>1, <2>2, <2>4, <2>41, EraseStageSteps DEF r
  <2>6. After(dv, r, s, i, p)
    BY <1>4, <2>3, <2>5, Zenon DEF After, Sent
  <2> QED
    BY <2>6 DEF r
<1>5. CASE s \in {"page", "info"}
  <2> DEFINE a == IF s = "page" THEN p ELSE mcs1_info_offset
  <2>1. a \in Pages /\ a \notin Reserved
    BY <1>0, <1>5, DriverFacts, LayoutFacts DEF Firmware, Reserved, Placed, Places
  <2>2. Script(s, p) = flash_prog_page(a)
    BY <1>5 DEF Script
  <2>3. \A after : after = Written(dv.page, a) => Wrote(dv.page, after, s, p)
    BY <1>5 DEF Wrote
  <2> HIDE DEF a
  <2>4. n = 7 /\ Script(s, p)[5] = Header(a)
    BY <2>2 DEF flash_prog_page
  <2>41. i \in 1 .. 7
    BY <2>4
  <2> HIDE DEF r
  <2>5. Sent(dv, r, s, i, p, n, Written(dv.page, a))
    BY <1>5, <2>1, <2>2, <2>4, <2>41, ProgStageSteps DEF r
  <2>6. After(dv, r, s, i, p)
    BY <1>5, <2>3, <2>5, Zenon DEF After, Sent
  <2> QED
    BY <2>6 DEF r
<1> QED
  BY <1>1, <1>2, <1>3, <1>4, <1>5 DEF ScriptStages

-----------------------------------------------------------------------------
\* The info record lies outside the firmware area, and so does its sector.
LEMMA InfoApart ==
  /\ mcs1_info_offset \notin Firmware
  /\ InfoSector \cap Firmware = {}
  /\ \A q \in Firmware : q \in Nat /\ mcs1_offset <= q /\ q < mcs1_cfg_offset
<1> DEFINE low == mcs1_info_offset % SPI_FLASH_SEC
<1>1. low \in 0 .. SPI_FLASH_SEC - 1 /\ mcs1_cfg_offset < mcs1_info_offset - low
  BY SizeTypes, LayoutAssumption
<1>2. InfoSector = (mcs1_info_offset - low) .. (mcs1_info_offset - low + SPI_FLASH_SEC - 1)
  BY DEF InfoSector, EraseRange
<1> HIDE DEF low
<1> QED
  BY <1>1, <1>2, SizeTypes DEF Firmware

\* The last write of a stage leaves the flash as the next stage expects it.
LEMMA FlashNext ==
  ASSUME NEW before \in [Pages -> Contents], NEW after,
         NEW s \in ScriptStages, NEW p \in Places, Placed(s, p),
         FlashAt(before, s, p), Wrote(before, after, s, p)
  PROVE  FlashAt(after, Following(s, p).stage, Following(s, p).pos)
<1>0. /\ p \in Nat /\ mcs1_offset \in Nat /\ mcs1_cfg_offset \in Nat
      /\ Firmware \subseteq Pages /\ mcs1_info_offset \in Pages
      /\ ImagePages \in Nat \ {0} /\ mcs1_offset + ImagePages <= mcs1_cfg_offset
  BY LayoutFacts, DriverFacts DEF Places, Firmware
<1>1. CASE s = "enable"
  BY <1>1 DEF Following, EndEnable, FlashAt
<1>2. CASE s = "unlock"
  <2>1. Following(s, p) = [stage |-> "erase", pos |-> mcs1_offset]
    BY <1>2, StartAligned DEF Following, EndErase
  <2>2. \A q \in Firmware : ~(q < mcs1_offset)
    BY <1>0, InfoApart
  <2> QED
    BY <2>1, <2>2 DEF FlashAt
<1>3. CASE s = "erase"
  <2> DEFINE u == EraseUnit(p, mcs1_cfg_offset)
  <2>1. p \in Firmware /\ u \in Nat \ {0}
    BY <1>0, <1>3, UnitTypes DEF Firmware, Placed, Places
  <2>2. EraseRange(p, u) = p .. (p + u - 1)
    BY <1>3, <2>1, EraseStepExact DEF Placed
  <2>3. Following(s, p) = EndErase(p + u)
    BY <1>3 DEF Following
  <2>4. after = Erased(before, Erase(p, u))
    BY <1>3 DEF Wrote
  <2> HIDE DEF u
  <2>5. after = [q \in Pages |-> IF q \in EraseRange(p, u) THEN "erased" ELSE before[q]]
    BY <2>4 DEF Erased, Erase, Cmd
  <2>6. ASSUME NEW q \in Firmware, q < p + u
        PROVE  after[q] = "erased"
    <3>1. q \in Pages /\ q \in Nat /\ p \in Nat /\ u \in Nat
      BY <1>0, <2>1, InfoApart
    <3>2. CASE q < p
      <4>1. before[q] = "erased"
        BY <1>3, <3>2 DEF FlashAt
      <4> QED
        BY <2>5, <3>1, <4>1
    <3>3. CASE ~(q < p)
      <4>1. q \in EraseRange(p, u)
        BY <2>2, <2>6, <3>1, <3>3
      <4> QED
        BY <2>5, <3>1, <4>1
    <3> QED
      BY <3>2, <3>3
  <2>7. CASE EraseUnit(p + u, mcs1_cfg_offset) > 0
    <3>1. Following(s, p) = [stage |-> "erase", pos |-> p + u]
      BY <2>3, <2>7 DEF EndErase
    <3> QED
      BY <2>6, <3>1 DEF FlashAt
  <2>8. CASE ~(EraseUnit(p + u, mcs1_cfg_offset) > 0)
    <3>1. Following(s, p) = [stage |-> "eraseinfo", pos |-> p + u]
      BY <2>3, <2>8 DEF EndErase
    <3>2. p + u = mcs1_cfg_offset
      BY <1>3, <3>1, EraseReachesEnd
    <3>3. Image(after, mcs1_offset)
      BY <1>0, <2>6, <3>2, InfoApart DEF Image
    <3> QED
      BY <3>1, <3>3 DEF FlashAt
  <2> QED
    BY <2>7, <2>8
<1>4. CASE s = "eraseinfo"
  <2>1. Following(s, p) = [stage |-> "page", pos |-> mcs1_offset]
    BY <1>4 DEF Following
  <2>2. after = [q \in Pages |-> IF q \in InfoSector THEN "erased" ELSE before[q]]
    BY <1>4 DEF Wrote, Erased, Erase, Cmd, InfoSector
  <2>3. after[mcs1_info_offset] = "erased"
    BY <1>0, <2>2, LayoutFacts
  <2>4. \A q \in Firmware : after[q] = before[q]
    BY <1>0, <2>2, InfoApart
  <2>5. Image(after, mcs1_offset)
    BY <1>4, <2>4 DEF FlashAt, Image
  <2> QED
    BY <2>1, <2>3, <2>5 DEF FlashAt
<1>5. CASE s = "page"
  <2>1. p \in Firmware /\ p < mcs1_offset + ImagePages
    BY <1>0, <1>5 DEF Placed, Places, Firmware
  <2>2. Image(before, p) /\ before[mcs1_info_offset] = "erased"
    BY <1>5 DEF FlashAt
  <2>3. before[p] = "erased"
    BY <1>0, <2>1, <2>2 DEF Image
  <2>4. after = [before EXCEPT ![p] = "new"]
    BY <1>5, <2>3 DEF Wrote, Written
  <2>5. after[mcs1_info_offset] = "erased"
    BY <1>0, <2>1, <2>2, <2>4, InfoApart
  <2>6. Image(after, p + 1)
    <3> SUFFICES ASSUME NEW q \in Firmware
                 PROVE  after[q] = IF q < p + 1 THEN "new" ELSE "erased"
      BY DEF Image
    <3>1. q \in Nat /\ q \in Pages /\ before[q] = IF q < p THEN "new" ELSE "erased"
      BY <1>0, <2>2, InfoApart DEF Image
    <3>2. CASE q = p
      BY <1>0, <2>4, <3>1, <3>2
    <3>3. CASE q # p
      <4>1. after[q] = before[q]
        BY <2>4, <3>1, <3>3
      <4> QED
        BY <1>0, <3>1, <3>3, <4>1
    <3> QED
      BY <3>2, <3>3
  <2>7. CASE p + 1 < mcs1_offset + ImagePages
    <3>1. Following(s, p) = [stage |-> "page", pos |-> p + 1]
      BY <1>5, <2>7 DEF Following, EndPage
    <3> QED
      BY <2>5, <2>6, <3>1 DEF FlashAt
  <2>8. CASE ~(p + 1 < mcs1_offset + ImagePages)
    <3>1. Following(s, p) = [stage |-> "info", pos |-> p + 1]
      BY <1>5, <2>8 DEF Following, EndPage
    <3>2. p + 1 = mcs1_offset + ImagePages
      BY <1>0, <2>1, <2>8
    <3> QED
      BY <2>5, <2>6, <3>1, <3>2 DEF FlashAt
  <2> QED
    BY <2>7, <2>8
<1>6. CASE s = "info"
  <2>1. Following(s, p) = [stage |-> "release", pos |-> p]
    BY <1>6 DEF Following
  <2>2. Image(before, mcs1_offset + ImagePages) /\ before[mcs1_info_offset] = "erased"
    BY <1>6 DEF FlashAt
  <2>3. after = [before EXCEPT ![mcs1_info_offset] = "new"]
    BY <1>6, <2>2 DEF Wrote, Written
  <2>4. after[mcs1_info_offset] = "new" /\ \A q \in Firmware : after[q] = before[q]
    BY <1>0, <2>3, InfoApart
  <2>5. Image(after, mcs1_offset + ImagePages)
    BY <2>2, <2>4 DEF Image
  <2> QED
    BY <2>1, <2>4, <2>5 DEF FlashAt
<1>7. CASE s = "release"
  <2>1. Following(s, p) = [stage |-> "reboot", pos |-> p]
    BY <1>7 DEF Following
  <2>2. after = before
    BY <1>7 DEF Wrote
  <2> QED
    BY <1>7, <2>1, <2>2 DEF FlashAt
<1>8. CASE s = "reboot"
  <2>1. Following(s, p).stage = "close"
    BY <1>8 DEF Following
  <2> QED
    BY <2>1 DEF FlashAt
<1> QED
  BY <1>1, <1>2, <1>3, <1>4, <1>5, <1>6, <1>7, <1>8 DEF ScriptStages

\* The order of the stages of upgrade_op.
LEMMA StageOrder ==
  ASSUME NEW s \in ScriptStages, NEW p
  PROVE  LET next == Following(s, p).stage IN
         /\ s = "enable" => next = "unlock"
         /\ s \in {"unlock", "erase", "eraseinfo", "page"} => next \in FlashStages
         /\ s = "info" => next = "release"
         /\ s \in {"release", "reboot"} => next \in {"reboot", "close"}
         /\ s = "reboot" => next = "close"
<1>1. CASE s \in {"unlock", "erase"}
  <2>1. \E q : Following(s, p) = EndErase(q)
    BY <1>1 DEF Following
  <2> QED
    BY <1>1, <2>1 DEF EndErase, FlashStages
<1>2. CASE s = "page"
  BY <1>2 DEF Following, EndPage, FlashStages
<1>3. CASE s \in {"enable", "eraseinfo", "info", "release", "reboot"}
  BY <1>3 DEF Following, EndEnable, FlashStages
<1> QED
  BY <1>1, <1>2, <1>3 DEF ScriptStages

\* The last write of a stage leaves a sound module as the next stage expects it,
\* and the last of all leaves it installed and restarted.
LEMMA StageEnds ==
  ASSUME NEW dv \in Device, NEW s \in ScriptStages, NEW p \in Places, Placed(s, p),
         InStep(dv, s, Len(Script(s, p)), p), Len(Script(s, p)) \in 1 .. 7,
         NEW h \in Pages \cup {NoPage}, NEW r, r = Receive(dv, Script(s, p)[Len(Script(s, p))], h)
  PROVE  /\ InStep(r, Following(s, p).stage, 1, Following(s, p).pos)
         /\ s = "reboot" => /\ Image(r.page, mcs1_offset + ImagePages)
                            /\ r.page[mcs1_info_offset] = "new" /\ r.mode = "boot"
<1> DEFINE n == Len(Script(s, p))
           next == Following(s, p)
<1>1. After(dv, r, s, n, p)
  <2>1. n \in 1 .. n
    <3>1. n \in 1 .. 7
      OBVIOUS
    <3> HIDE DEF n
    <3> QED
      BY <3>1
  <2> QED
    BY <2>1, StageSteps
<1>2. /\ Wrote(dv.page, r.page, s, p)
      /\ s \in {"enable", "unlock"} \cup FlashStages => r.mode = "download"
      /\ s \in {"unlock"} \cup FlashStages => ~r.cs /\ r.frame = Frame("empty")
      /\ s = "reboot" => r.mode = "boot"
  BY <1>1, Zenon DEF After
<1>3. FlashAt(dv.page, s, p) /\ dv.page \in [Pages -> Contents]
  BY DEF InStep, Device
<1>4. FlashAt(r.page, next.stage, next.pos)
  BY <1>2, <1>3, FlashNext
<1>5. s = "reboot" => /\ Image(r.page, mcs1_offset + ImagePages)
                      /\ r.page[mcs1_info_offset] = "new"
  BY <1>2, <1>3 DEF Wrote, FlashAt
<1> HIDE DEF next
<1>6. next.stage \in OpenStages => r.mode = "download"
  BY <1>2, StageOrder DEF OpenStages, FlashStages, ScriptStages, next
<1>7. next.stage \in FlashStages => ~r.cs /\ r.frame = Frame("empty")
  BY <1>2, StageOrder DEF FlashStages, ScriptStages, next
<1>8. next.stage \in FlashStages => HeldAt(r, 1, Script(next.stage, next.pos)[5])
  BY <1>7 DEF HeldAt
<1>9. InStep(r, next.stage, 1, next.pos)
  BY <1>4, <1>6, <1>8 DEF InStep
<1> QED
  BY <1>2, <1>5, <1>9 DEF next

\* Installed, in terms of the pages.
LEMMA InstalledIs ==
  ASSUME NEW m \in Modules
  PROVE  /\ Filled(m) <=> Image(dev[m].page, mcs1_offset + ImagePages)
         /\ Installed(m) <=> /\ Image(dev[m].page, mcs1_offset + ImagePages)
                             /\ dev[m].page[mcs1_info_offset] = "new"
BY DEF Installed, Filled, Image

\* Before a thread opens the bridge, and after it closed its driver, nothing is
\* expected of the module.
LEMMA QuietStage ==
  ASSUME NEW dv, NEW s \in Stages \ (OpenStages \cup {"reboot"}), NEW i, NEW p
  PROVE  InStep(dv, s, i, p)
BY DEF InStep, FlashAt, OpenStages, FlashStages

\* One i2c_write, seen from one module.
LEMMA InstallWrite ==
  ASSUME IInv, RebootInv, InstallInv, NEW d \in DriverSet, Write(d), NEW m \in Modules
  PROVE  InstallOf(m)'
<1> DEFINE b == Bus[m]
           s == stage[d]
           p == pos[d]
           i == step[d]
           n == Len(Script(s, p))
           w == Script(s, p)[i]
           next == Following(s, p)
<1> SUFFICES ASSUME Sound(m)'
             PROVE  /\ InStep(dev'[m], stage'[b], step'[b], pos'[b])
                    /\ rebooted'[b] => Installed(m)' /\ dev'[m].mode = "boot"
  BY DEF InstallOf
<1>1. b \in DriverSet
  BY DriverFacts
<1>2. missed'[m] # "now" /\ ~shortErase'[b]
  BY DEF Sound
<1>3. missed[m] # "now" /\ ~shortErase[b]
  <2>1. missed[m] # "now"
    BY <1>2, WriteFacts
  <2>2. CASE b # d
    BY <1>1, <1>2, <2>1, <2>2, ThreadMove
  <2>3. CASE b = d
    <3>1. \/ shortErase'[d] = (shortErase[d] \/ s = "erase")
          \/ shortErase'[d] = shortErase[d]
      BY ThreadMove
    <3> QED
      BY <1>2, <2>1, <2>3, <3>1
  <2> QED
    BY <2>2, <2>3
<1>4. /\ InStep(dev[m], stage[b], step[b], pos[b])
      /\ rebooted[b] => Installed(m) /\ dev[m].mode = "boot"
  BY <1>3 DEF InstallInv, InstallOf, Sound
<1>5. CASE b # d
  <2>1. dev'[m] = dev[m]
    BY <1>2, <1>5, WriteFacts
  <2>2. UNCHANGED <<stage[b], step[b], pos[b], rebooted[b]>>
    BY <1>1, <1>5, ThreadMove
  <2>3. Installed(m)' <=> Installed(m)
    BY <2>1 DEF Installed, Filled
  <2> QED
    BY <1>4, <2>1, <2>2, <2>3
<1>6. CASE b = d
  <2>0. /\ s \in ScriptStages /\ p \in Places /\ Placed(s, p)
        /\ i \in 1 .. n /\ n \in 1 .. 7 /\ dev[m] \in Device
        /\ ~rebooted[d]
    BY WriteFacts, ThreadTypes DEF RebootInv, ScriptStages
  <2>1. PICK h \in Pages \cup {NoPage} : dev'[m] = Receive(dev[m], w, h)
    BY <1>2, <1>6, WriteFacts
  <2>2. CASE stage'[d] = OnError(s) /\ step'[d] = 1 /\ pos'[d] = p /\ rebooted'[d] = rebooted[d]
             /\ shortErase'[d] = (shortErase[d] \/ s = "erase")
    <3>1. stage'[d] = "close"
      BY <1>2, <1>6, <2>2 DEF OnError
    <3> QED
      BY <1>6, <2>0, <2>2, <3>1, QuietStage DEF Stages, OpenStages, FlashStages
  <2>3. CASE i < n /\ stage'[d] = s /\ step'[d] = i + 1 /\ pos'[d] = p /\ rebooted'[d] = rebooted[d]
    <3>1. After(dev[m], dev'[m], s, i, p)
      BY <1>4, <1>6, <2>0, <2>1, StageSteps
    <3>2. InStep(dev'[m], s, i + 1, p)
      BY <2>3, <3>1, Zenon DEF After
    <3> QED
      BY <1>6, <2>0, <2>3, <3>2
  <2>4. CASE i = n /\ stage'[d] = next.stage /\ step'[d] = 1 /\ pos'[d] = next.pos
             /\ rebooted'[d] = (rebooted[d] \/ s = "reboot")
    <3>1. /\ InStep(dev'[m], next.stage, 1, next.pos)
          /\ s = "reboot" => /\ Image(dev'[m].page, mcs1_offset + ImagePages)
                             /\ dev'[m].page[mcs1_info_offset] = "new" /\ dev'[m].mode = "boot"
      <4>1. dev'[m] = Receive(dev[m], Script(s, p)[n], h) /\ InStep(dev[m], s, n, p)
        BY <1>4, <1>6, <2>1, <2>4
      <4> HIDE DEF next
      <4> QED
        BY <2>0, <4>1, StageEnds DEF next
    <3>2. s = "reboot" => Installed(m)' /\ dev'[m].mode = "boot"
      BY <3>1 DEF Installed, Filled, Image
    <3> QED
      BY <1>6, <2>0, <2>4, <3>1, <3>2
  <2> QED
    BY <2>2, <2>3, <2>4, ThreadMove
<1> QED
  BY <1>5, <1>6

\* A step that leaves the modules alone, and moves threads to quiet stages only.
LEMMA InstallKept ==
  ASSUME IInv, InstallInv, UNCHANGED <<dev, missed, shortErase, rebooted, step, pos>>,
         \A d \in DriverSet :
           stage'[d] = stage[d] \/ stage'[d] \in Stages \ (OpenStages \cup {"reboot"})
  PROVE  InstallInv'
<1> SUFFICES ASSUME NEW m \in Modules, Sound(m)'
             PROVE  /\ InStep(dev'[m], stage'[Bus[m]], step'[Bus[m]], pos'[Bus[m]])
                    /\ rebooted'[Bus[m]] => Installed(m)' /\ dev'[m].mode = "boot"
  BY DEF InstallInv, InstallOf
<1>1. Bus[m] \in DriverSet
  BY DriverFacts
<1>2. Sound(m)
  BY DEF Sound
<1>3. /\ InStep(dev[m], stage[Bus[m]], step[Bus[m]], pos[Bus[m]])
      /\ rebooted[Bus[m]] => Installed(m) /\ dev[m].mode = "boot"
  BY <1>2 DEF InstallInv, InstallOf
<1>4. Installed(m)' <=> Installed(m)
  BY DEF Installed, Filled
<1> QED
  BY <1>1, <1>3, <1>4, QuietStage

\* InstallInv is inductive, given the invariants before it.
LEMMA InstallNext == IInv /\ RebootInv /\ InstallInv /\ [Next]_vars => InstallInv'
<1> SUFFICES ASSUME IInv, RebootInv, InstallInv, [Next]_vars PROVE InstallInv'
  OBVIOUS
<1> DEFINE Quiet == Stages \ (OpenStages \cup {"reboot"})
<1>0. {"idle", "open", "file", "enable", "close", "crash", "exit"} \subseteq Quiet
  BY DEF Stages, OpenStages, FlashStages
<1>1. stage \in [DriverSet -> Stages]
  BY ThreadTypes
<1> HIDE DEF Quiet
<1>2. ASSUME UNCHANGED <<dev, missed, shortErase, rebooted, step, pos>>,
             NEW e, NEW s \in Quiet, stage' = [stage EXCEPT ![e] = s]
      PROVE  InstallInv'
  <2>1. \A d \in DriverSet : stage'[d] = stage[d] \/ stage'[d] \in Quiet
    BY <1>1, <1>2
  <2> QED
    BY <1>2, <2>1, InstallKept DEF Quiet
<1>3. ASSUME UNCHANGED <<dev, missed, shortErase, rebooted, step, pos, stage>>
      PROVE  InstallInv'
  BY <1>3, InstallKept
<1>4. CASE mboot_upgrade
  BY <1>0, <1>2, <1>4 DEF mboot_upgrade
<1>5. CASE mboot_finish
  BY <1>3, <1>5 DEF mboot_finish, threadVars
<1>6. ASSUME NEW d \in DriverSet, upgrade_op(d)
      PROVE  InstallInv'
  <2>1. CASE Open(d)
    <3>1. \E s \in {"file", "exit", "crash"} : stage' = [stage EXCEPT ![d] = s]
      BY <2>1 DEF Open
    <3> QED
      BY <1>0, <1>2, <2>1, <3>1 DEF Open
  <2>2. CASE OpenFile(d)
    BY <1>0, <1>2, <2>2 DEF OpenFile
  <2>3. CASE Crash(d)
    BY <1>3, <2>3 DEF Crash, threadVars
  <2>4. CASE Write(d)
    <3>1. \A m \in Modules : InstallOf(m)'
      BY <1>6, <2>4, InstallWrite
    <3> QED
      BY <3>1 DEF InstallInv
  <2>5. CASE Close(d)
    BY <1>0, <1>2, <2>5 DEF Close
  <2> QED
    BY <1>6, <2>1, <2>2, <2>3, <2>4, <2>5 DEF upgrade_op
<1>7. CASE Kill
  BY <1>3, <1>7 DEF Kill, threadVars
<1>8. CASE Rerun
  <2> SUFFICES ASSUME NEW m \in Modules
               PROVE  /\ InStep(dev'[m], stage'[Bus[m]], step'[Bus[m]], pos'[Bus[m]])
                      /\ ~rebooted'[Bus[m]]
    BY DEF InstallInv, InstallOf
  <2>1. stage'[Bus[m]] = "idle" /\ ~rebooted'[Bus[m]]
    BY <1>8, DriverFacts DEF Rerun
  <2>2. "idle" \in Stages \ (OpenStages \cup {"reboot"})
    BY <1>0 DEF Quiet
  <2> QED
    BY <2>1, <2>2, QuietStage
<1>9. CASE UNCHANGED vars
  BY <1>3, <1>9 DEF vars, threadVars
<1> QED
  BY <1>4, <1>5, <1>6, <1>7, <1>8, <1>9 DEF Next, mboot

\* InstallInv holds in every state.
LEMMA InstallHolds == Spec => []InstallInv
<1>1. Init => InstallInv
  <2> SUFFICES ASSUME Init, NEW m \in Modules
               PROVE  /\ InStep(dev[m], stage[Bus[m]], step[Bus[m]], pos[Bus[m]])
                      /\ ~rebooted[Bus[m]]
    BY DEF InstallInv, InstallOf
  <2>1. stage[Bus[m]] = "idle" /\ ~rebooted[Bus[m]]
    BY DriverFacts DEF Init
  <2>2. "idle" \in Stages \ (OpenStages \cup {"reboot"})
    BY DEF Stages, OpenStages, FlashStages
  <2> QED
    BY <2>1, <2>2, QuietStage
<1> QED
  BY <1>1, InstallNext, Inductive, RebootHolds, PTL DEF Spec

\* Every module that upgrade_op got to set_reboot for without missing a write
\* holds the whole image and its info record and has restarted, whatever an
\* earlier run left in its flash and in its open frame.
THEOREM InstalledWhenRebooted == Spec => []RebootedInstalled
<1>1. InstallInv => RebootedInstalled
  BY DEF InstallInv, InstallOf, RebootedInstalled
<1> QED
  BY <1>1, InstallHolds, PTL

-----------------------------------------------------------------------------
\* The upgrade implements FirmwareSwap, and writes the info record only over a whole image.
\* Both come down to what the last write of a stage does to the pages of a module that the
\* tool need not doubt.

\* The invariants the step arguments rest on.
SwapInv == IInv /\ RebootInv /\ InstallInv

\* They hold in every state.
LEMMA SwapHolds == Spec => []SwapInv
BY Inductive, RebootHolds, InstallHolds, PTL DEF SwapInv

\* What happens to the pages of a module whose promise holds after a step: the
\* promise held before, and the pages stay, or a stage's last write changes them.
Progress(m) ==
  /\ Sound(m)
  /\ \/ dev'[m].page = dev[m].page
     \/ \E s \in ScriptStages, p \in Places :
          /\ Placed(s, p) /\ FlashAt(dev[m].page, s, p)
          /\ Wrote(dev[m].page, dev'[m].page, s, p)

\* An i2c_write changes pages only as its stage means to.
LEMMA WriteProgress ==
  ASSUME SwapInv, NEW d \in DriverSet, Write(d), NEW m \in Modules, Sound(m)'
  PROVE  Progress(m)
<1> DEFINE b == Bus[m]
           s == stage[d]
           p == pos[d]
           i == step[d]
           n == Len(Script(s, p))
<1>0. IInv /\ RebootInv /\ InstallInv /\ b \in DriverSet
  BY DriverFacts DEF SwapInv
<1>1. missed'[m] # "now" /\ ~shortErase'[b]
  BY DEF Sound
<1>2. missed[m] # "now" /\ ~shortErase[b]
  <2>1. missed[m] # "now"
    BY <1>0, <1>1, WriteFacts
  <2>2. CASE b # d
    BY <1>0, <1>1, <2>1, <2>2, ThreadMove
  <2>3. CASE b = d
    <3>1. \/ shortErase'[d] = (shortErase[d] \/ s = "erase")
          \/ shortErase'[d] = shortErase[d]
      BY <1>0, ThreadMove
    <3> QED
      BY <1>1, <2>1, <2>3, <3>1
  <2> QED
    BY <2>2, <2>3
<1>3. Sound(m)
  BY <1>2 DEF Sound
<1>4. CASE b # d
  <2>1. dev'[m] = dev[m]
    BY <1>0, <1>1, <1>4, WriteFacts
  <2> QED
    BY <1>3, <2>1 DEF Progress
<1>5. CASE b = d
  <2>1. /\ s \in ScriptStages /\ p \in Places /\ Placed(s, p)
        /\ i \in 1 .. n /\ n \in 1 .. 7 /\ dev[m] \in Device
    BY <1>0, WriteFacts, ThreadTypes
  <2>2. InStep(dev[m], s, i, p)
    BY <1>0, <1>3, <1>5 DEF InstallInv, InstallOf
  <2>3. PICK h \in Pages \cup {NoPage} : dev'[m] = Receive(dev[m], Script(s, p)[i], h)
    BY <1>0, <1>1, <1>5, WriteFacts
  <2>4. After(dev[m], dev'[m], s, i, p)
    BY <2>1, <2>2, <2>3, StageSteps
  <2>5. CASE i < n
    <3>1. dev'[m].page = dev[m].page
      BY <2>4, <2>5, Zenon DEF After
    <3> QED
      BY <1>3, <3>1 DEF Progress
  <2>6. CASE i = n
    <3>1. Wrote(dev[m].page, dev'[m].page, s, p)
      BY <2>4, <2>6, Zenon DEF After
    <3>2. FlashAt(dev[m].page, s, p)
      BY <2>2 DEF InStep
    <3> QED
      BY <1>3, <2>1, <3>1, <3>2 DEF Progress
  <2>7. i < n \/ i = n
    <3> HIDE DEF i, n
    <3> QED
      BY <2>1
  <2> QED
    BY <2>5, <2>6, <2>7
<1> QED
  BY <1>4, <1>5

\* No other step changes a page: a new run finds what is there.
LEMMA QuietPages ==
  ASSUME SwapInv, [Next]_vars, NEW m \in Modules, \A d \in DriverSet : ~Write(d)
  PROVE  /\ dev'[m].page = dev[m].page
         /\ ~Rerun => Sound(m)' = Sound(m)
         /\ Rerun => Sound(m)'
<1>1. dev[m] \in Device /\ Bus[m] \in DriverSet
  BY ThreadTypes, DriverFacts DEF SwapInv
<1>2. CASE UNCHANGED <<dev, missed, shortErase>> /\ ~Rerun
  BY <1>2 DEF Sound
<1>3. CASE Rerun
  <2>1. PICK off \in SUBSET Modules :
          dev' = [x \in Modules |-> IF x \in off THEN PowerCycled(dev[x]) ELSE dev[x]]
    BY <1>3 DEF Rerun
  <2>2. dev'[m].page = dev[m].page
    BY <1>1, <2>1, PowerCycledClean DEF PowerCycled, Device
  <2>3. missed'[m] # "now" /\ ~shortErase'[Bus[m]]
    BY <1>1, <1>3 DEF Rerun
  <2> QED
    BY <1>3, <2>2, <2>3 DEF Sound
<1>4. UNCHANGED <<dev, missed, shortErase>> \/ Rerun
  BY DEF Next, mboot, mboot_upgrade, mboot_finish, upgrade_op, Open, OpenFile, Crash, Close, Kill,
         vars, threadVars
<1> QED
  BY <1>2, <1>3, <1>4

\* Every step, but for a new run, makes progress on a module whose promise holds
\* after it.
LEMMA StepProgress ==
  ASSUME SwapInv, [Next]_vars, ~Rerun, NEW m \in Modules, Sound(m)'
  PROVE  Progress(m)
<1>1. CASE \E d \in DriverSet : Write(d)
  BY <1>1, WriteProgress
<1>2. CASE \A d \in DriverSet : ~Write(d)
  <2>1. dev'[m].page = dev[m].page /\ Sound(m)
    BY <1>2, QuietPages
  <2> QED
    BY <2>1 DEF Progress
<1> QED
  BY <1>1, <1>2

-----------------------------------------------------------------------------
\* The info record appears only in the last stage that writes, over a whole image.
LEMMA WroteCommit ==
  ASSUME NEW before \in [Pages -> Contents], NEW after,
         NEW s \in ScriptStages, NEW p \in Places, Placed(s, p),
         FlashAt(before, s, p), Wrote(before, after, s, p),
         before[mcs1_info_offset] # "new", after[mcs1_info_offset] = "new"
  PROVE  /\ Image(before, mcs1_offset + ImagePages)
         /\ Image(after, mcs1_offset + ImagePages)
<1>0. mcs1_info_offset \in Pages
  BY LayoutFacts
<1>1. CASE s = "unlock"
  BY <1>0, <1>1 DEF Wrote
<1>2. CASE s \in {"erase", "eraseinfo"}
  <2>1. \E c : after = Erased(before, c)
    BY <1>2 DEF Wrote
  <2>2. after[mcs1_info_offset] \in {"erased", before[mcs1_info_offset]}
    BY <1>0, <2>1 DEF Erased
  <2> QED
    BY <2>2
<1>3. CASE s = "page"
  <2>1. after = Written(before, p)
    BY <1>3 DEF Wrote
  <2>2. p # mcs1_info_offset
    BY <1>3, DriverFacts, LayoutFacts, InfoApart DEF Placed, Places, Firmware
  <2> QED
    BY <1>0, <2>1, <2>2 DEF Written
<1>4. CASE s = "info"
  <2>1. Image(before, mcs1_offset + ImagePages)
    BY <1>4 DEF FlashAt
  <2>2. FlashAt(after, "release", Following(s, p).pos)
    BY <1>4, FlashNext, StageOrder
  <2> QED
    BY <2>1, <2>2 DEF FlashAt
<1>5. CASE s \in {"enable", "release", "reboot"}
  BY <1>5 DEF Wrote
<1> QED
  BY <1>1, <1>2, <1>3, <1>4, <1>5 DEF ScriptStages

\* flash_prog_info is reached, on a module that missed nothing, only with every
\* page of the image in place: no info record ever vouches for half an image.
THEOREM CommitsWhole == Spec => CommitWhole
<1> DEFINE Commit == \A m \in Modules :
             /\ dev[m].page[mcs1_info_offset] # "new"
             /\ dev'[m].page[mcs1_info_offset] = "new"
             /\ Sound(m)'
             => Filled(m)'
<1>1. SwapInv /\ [Next]_vars => Commit
  <2> SUFFICES ASSUME SwapInv, [Next]_vars, NEW m \in Modules,
                      dev[m].page[mcs1_info_offset] # "new",
                      dev'[m].page[mcs1_info_offset] = "new", Sound(m)'
               PROVE  Filled(m)'
    BY DEF Commit
  <2>1. dev[m].page \in [Pages -> Contents]
    BY ThreadTypes DEF SwapInv, Device
  <2>2. dev'[m].page # dev[m].page
    OBVIOUS
  <2>3. ~Rerun
    <3>1. Rerun => \A d \in DriverSet : ~Write(d)
      BY DEF Rerun, Write, Alive
    <3> QED
      BY <2>2, <3>1, QuietPages
  <2>4. Progress(m)
    BY <2>3, StepProgress
  <2>5. Image(dev'[m].page, mcs1_offset + ImagePages)
    BY <2>1, <2>2, <2>4, WroteCommit DEF Progress
  <2> QED
    BY <2>5 DEF Filled, Image
<1>2. SwapInv /\ [Next]_vars => [Commit]_vars
  BY <1>1
<1> QED
  BY <1>2, SwapHolds, PTL DEF Spec, CommitWhole

-----------------------------------------------------------------------------
\* Body and seal of FirmwareSwap as functions of the pages alone.
BodyIn(page) ==
  IF \A q \in Firmware : page[q] = "erased" THEN "void"
  ELSE IF Image(page, mcs1_offset + ImagePages) THEN "new"
  ELSE IF \E n \in 1 .. ImagePages - 1 : Image(page, mcs1_offset + n) THEN "filling"
  ELSE IF \A q \in Firmware : page[q] = "old" THEN "old"
  ELSE "other"

SealIn(page) ==
  IF page[mcs1_info_offset] = "erased" THEN "void" ELSE page[mcs1_info_offset]

LEMMA ReadOff ==
  ASSUME NEW m \in Modules
  PROVE  /\ BodyOf(m) = BodyIn(dev[m].page)
         /\ SealOf(m) = SealIn(dev[m].page)
BY DEF BodyOf, Blank, Filled, Begun, SealOf, BodyIn, SealIn, Image

\* Body and seal depend only on the firmware area and on the info page.
LEMMA SamePages ==
  ASSUME NEW a, NEW b
  PROVE  /\ (\A q \in Firmware : a[q] = b[q]) => BodyIn(a) = BodyIn(b)
         /\ a[mcs1_info_offset] = b[mcs1_info_offset] => SealIn(a) = SealIn(b)
<1>1. ASSUME \A q \in Firmware : a[q] = b[q]
      PROVE  BodyIn(a) = BodyIn(b)
  <2>1. \A n : Image(a, n) <=> Image(b, n)
    BY <1>1 DEF Image
  <2>2. /\ (\A q \in Firmware : a[q] = "erased") <=> (\A q \in Firmware : b[q] = "erased")
        /\ (\A q \in Firmware : a[q] = "old") <=> (\A q \in Firmware : b[q] = "old")
    BY <1>1
  <2> QED
    BY <2>1, <2>2, Zenon DEF BodyIn
<1> QED
  BY <1>1 DEF SealIn

\* The body of a module that holds the first n pages of the image.
LEMMA ImageBody ==
  ASSUME NEW page, NEW n \in 0 .. ImagePages, Image(page, mcs1_offset + n)
  PROVE  BodyIn(page) = IF n = 0 THEN "void" ELSE IF n = ImagePages THEN "new" ELSE "filling"
<1>0. /\ mcs1_offset \in Nat /\ mcs1_cfg_offset \in Nat /\ mcs1_offset \in Firmware
      /\ ImagePages \in Nat \ {0} /\ mcs1_offset + ImagePages <= mcs1_cfg_offset
  BY LayoutFacts, DriverFacts
<1>1. CASE n = 0
  <2>1. \A q \in Firmware : page[q] = "erased"
    BY <1>0, <1>1, InfoApart DEF Image
  <2> QED
    BY <1>1, <2>1 DEF BodyIn
<1>2. CASE n # 0
  <2>1. page[mcs1_offset] = "new"
    BY <1>0, <1>2 DEF Image
  <2>2. ~(\A q \in Firmware : page[q] = "erased")
    BY <1>0, <2>1
  <2>3. CASE n = ImagePages
    BY <1>0, <2>2, <2>3 DEF BodyIn
  <2>4. CASE n # ImagePages
    <3>1. mcs1_offset + n \in Firmware
      BY <1>0, <2>4 DEF Firmware
    <3>2. page[mcs1_offset + n] = "erased"
      BY <1>0, <3>1 DEF Image
    <3>3. ~Image(page, mcs1_offset + ImagePages)
      BY <1>0, <2>4, <3>1, <3>2 DEF Image
    <3>4. n \in 1 .. ImagePages - 1
      BY <1>0, <1>2, <2>4
    <3> QED
      BY <1>2, <2>2, <2>4, <3>3, <3>4 DEF BodyIn
  <2> QED
    BY <2>3, <2>4
<1> QED
  BY <1>1, <1>2

\* A firmware area with a page that is neither image nor empty nor old, or whose
\* first page is empty, is no beginning of an image.
LEMMA MixedBody ==
  ASSUME NEW page
  PROVE  /\ (\E q \in Firmware : page[q] = "bad") => BodyIn(page) = "other"
         /\ page[mcs1_offset] = "erased" => BodyIn(page) \in {"void", "other"}
<1>0. /\ mcs1_offset \in Nat /\ mcs1_offset \in Firmware /\ ImagePages \in Nat \ {0}
  BY LayoutFacts, DriverFacts
<1>1. ASSUME NEW q \in Firmware, page[q] = "bad"
      PROVE  BodyIn(page) = "other"
  <2>1. \A n : ~Image(page, n)
    BY <1>1 DEF Image
  <2> QED
    BY <1>1, <2>1 DEF BodyIn
<1>2. ASSUME page[mcs1_offset] = "erased"
      PROVE  BodyIn(page) \in {"void", "other"}
  <2>1. \A n \in Nat \ {0} : ~Image(page, mcs1_offset + n)
    BY <1>0, <1>2 DEF Image
  <2>2. ~Image(page, mcs1_offset + ImagePages)
    BY <1>0, <2>1
  <2>3. ~\E n \in 1 .. ImagePages - 1 : Image(page, mcs1_offset + n)
    BY <1>0, <2>1
  <2>4. ~\A q \in Firmware : page[q] = "old"
    BY <1>0, <1>2
  <2> QED
    BY <2>2, <2>3, <2>4 DEF BodyIn
<1> QED
  BY <1>1, <1>2

\* What a stage's last write does to body and seal is a step of FirmwareSwap.
SwapStep(before, after) ==
  LET b == BodyIn(before)  s == SealIn(before)  c == BodyIn(after)  t == SealIn(after) IN
  \/ c \in {b, "other", "void"} /\ t \in {s, "bad"}
  \/ b = "void" /\ c = "void" /\ t = "void"
  \/ s = "void" /\ b \in {"void", "filling"} /\ t = "void" /\ c \in {"filling", "new"}
  \/ b = "new" /\ s = "void" /\ c = "new" /\ t = "new"

LEMMA WroteSwaps ==
  ASSUME NEW before \in [Pages -> Contents], NEW after,
         NEW s \in ScriptStages, NEW p \in Places, Placed(s, p),
         FlashAt(before, s, p), Wrote(before, after, s, p)
  PROVE  SwapStep(before, after)
<1>0. /\ mcs1_offset \in Nat /\ mcs1_cfg_offset \in Nat /\ p \in Nat
      /\ Firmware \subseteq Pages /\ mcs1_info_offset \in Pages
      /\ mcs1_offset \in Firmware /\ mcs1_info_offset \notin Firmware
      /\ ImagePages \in Nat \ {0} /\ mcs1_offset + ImagePages <= mcs1_cfg_offset
  BY LayoutFacts, DriverFacts, InfoApart DEF Places, Firmware
<1>1. CASE after = before
  BY <1>1 DEF SwapStep
<1>2. CASE s = "unlock" /\ after # before
  <2>1. PICK q \in Pages : after = [before EXCEPT ![q] = "bad"]
    BY <1>2 DEF Wrote
  <2>2. BodyIn(after) \in {BodyIn(before), "other"}
    <3>1. CASE q \in Firmware
      <4>1. after[q] = "bad"
        BY <2>1
      <4> QED
        BY <3>1, <4>1, MixedBody
    <3>2. CASE q \notin Firmware
      <4>1. \A x \in Firmware : before[x] = after[x]
        BY <1>0, <2>1, <3>2
      <4> QED
        BY <4>1, SamePages
    <3> QED
      BY <3>1, <3>2
  <2>3. SealIn(after) \in {SealIn(before), "bad"}
    BY <1>0, <2>1 DEF SealIn
  <2> QED
    BY <2>2, <2>3 DEF SwapStep
<1>3. CASE s = "erase"
  <2> DEFINE u == EraseUnit(p, mcs1_cfg_offset)
  <2>1. p \in Firmware /\ u \in Nat \ {0} /\ p + u <= mcs1_cfg_offset /\ mcs1_offset <= p
    BY <1>0, <1>3, UnitTypes DEF Firmware, Placed, Places
  <2>2. EraseRange(p, u) = p .. (p + u - 1)
    BY <1>0, <1>3, StepAligned, <2>1 DEF EraseRange, Placed
  <2>3. after = [q \in Pages |-> IF q \in p .. (p + u - 1) THEN "erased" ELSE before[q]]
    BY <1>3, <2>2 DEF Wrote, Erased, Erase, Cmd
  <2> HIDE DEF u
  <2>4. mcs1_info_offset \notin p .. (p + u - 1)
    BY <1>0, <2>1 DEF Firmware
  <2>5. SealIn(after) = SealIn(before)
    <3>1. before[mcs1_info_offset] = after[mcs1_info_offset]
      BY <1>0, <2>3, <2>4
    <3> QED
      BY <3>1, SamePages
  <2>6. after[mcs1_offset] = "erased"
    <3>1. CASE mcs1_offset = p
      BY <1>0, <2>1, <2>3, <3>1
    <3>2. CASE mcs1_offset # p
      <4>1. before[mcs1_offset] = "erased"
        BY <1>0, <1>3, <2>1, <3>2 DEF FlashAt
      <4> QED
        BY <1>0, <2>3, <4>1
    <3> QED
      BY <3>1, <3>2
  <2> QED
    BY <2>5, <2>6, MixedBody DEF SwapStep
<1>4. CASE s = "eraseinfo"
  <2>1. after = [q \in Pages |-> IF q \in InfoSector THEN "erased" ELSE before[q]]
    BY <1>4 DEF Wrote, Erased, Erase, Cmd, InfoSector
  <2>2. \A q \in Firmware : before[q] = after[q]
    BY <1>0, <2>1, InfoApart
  <2>3. BodyIn(before) = "void"
    <3>1. Image(before, mcs1_offset + 0)
      BY <1>0, <1>4 DEF FlashAt
    <3> QED
      BY <1>0, <3>1, ImageBody
  <2>4. after[mcs1_info_offset] = "erased"
    BY <1>0, <2>1, LayoutFacts
  <2> QED
    BY <2>2, <2>3, <2>4, SamePages DEF SwapStep, SealIn
<1>5. CASE s = "page"
  <2> DEFINE n == p - mcs1_offset
  <2>1. n \in 0 .. ImagePages - 1 /\ p = mcs1_offset + n /\ p \in Firmware
    BY <1>0, <1>5 DEF Placed, Places, Firmware
  <2> HIDE DEF n
  <2>2. Image(before, mcs1_offset + n) /\ before[mcs1_info_offset] = "erased"
    BY <1>5, <2>1 DEF FlashAt
  <2>3. before[p] = "erased"
    BY <1>0, <2>1, <2>2 DEF Image
  <2>4. after = [before EXCEPT ![p] = "new"]
    BY <1>5, <2>3 DEF Wrote, Written
  <2>5. Image(after, mcs1_offset + (n + 1))
    BY <1>0, <2>1, <2>2, <2>4, InfoApart DEF Image
  <2>6. after[mcs1_info_offset] = "erased"
    BY <1>0, <2>1, <2>2, <2>4
  <2>7. BodyIn(before) \in {"void", "filling"}
    BY <1>0, <2>1, <2>2, ImageBody
  <2>8. BodyIn(after) \in {"filling", "new"}
    BY <1>0, <2>1, <2>5, ImageBody
  <2> QED
    BY <2>2, <2>6, <2>7, <2>8 DEF SwapStep, SealIn
<1>6. CASE s = "info"
  <2>1. Image(before, mcs1_offset + ImagePages) /\ before[mcs1_info_offset] = "erased"
    BY <1>6 DEF FlashAt
  <2>2. after = [before EXCEPT ![mcs1_info_offset] = "new"]
    BY <1>6, <2>1 DEF Wrote, Written
  <2>3. after[mcs1_info_offset] = "new"
    BY <1>0, <2>2
  <2>4. \A q \in Firmware : before[q] = after[q]
    BY <1>0, <2>2
  <2>5. BodyIn(before) = "new" /\ BodyIn(after) = "new"
    BY <1>0, <2>1, <2>4, ImageBody, SamePages
  <2> QED
    BY <2>1, <2>3, <2>5 DEF SwapStep, SealIn
<1>7. CASE s \in {"enable", "release", "reboot"}
  BY <1>1, <1>7 DEF Wrote
<1> QED
  BY <1>1, <1>2, <1>3, <1>4, <1>5, <1>6, <1>7 DEF ScriptStages

-----------------------------------------------------------------------------
\* A function that is false everywhere.
LEMMA NowhereTrue ==
  ASSUME NEW S, NEW f \in [S -> BOOLEAN], \A x \in S : ~f[x]
  PROVE  f = [x \in S |-> FALSE]
OBVIOUS

\* Factory modules have an old body, an old seal, and nothing in doubt.
LEMMA SwapInit == Init => Swap!Init
<1> SUFFICES ASSUME Init PROVE Swap!Init
  OBVIOUS
<1>0. /\ Firmware \subseteq Pages /\ mcs1_info_offset \in Pages /\ mcs1_offset \in Firmware
      /\ mcs1_offset \in Nat /\ ImagePages \in Nat \ {0}
  BY LayoutFacts, DriverFacts
<1>1. ASSUME NEW m \in Modules
      PROVE  BodyOf(m) = "old" /\ SealOf(m) = "old" /\ Sound(m)
  <2>1. dev[m].page = [q \in Pages |-> "old"]
    BY DEF Init, Factory
  <2>2. \A q \in Firmware : dev[m].page[q] = "old"
    BY <1>0, <2>1
  <2>3. BodyIn(dev[m].page) = "old"
    <3>1. \A n : ~Image(dev[m].page, n)
      BY <1>0, <2>2 DEF Image
    <3> QED
      BY <1>0, <2>2, <3>1 DEF BodyIn
  <2>4. SealIn(dev[m].page) = "old"
    BY <1>0, <2>1 DEF SealIn
  <2>5. Sound(m)
    BY DriverFacts DEF Init, Sound
  <2> QED
    BY <2>3, <2>4, <2>5, ReadOff
<1>2. /\ [m \in Modules |-> BodyOf(m)] = [m \in Modules |-> "old"]
      /\ [m \in Modules |-> SealOf(m)] = [m \in Modules |-> "old"]
  BY <1>1
<1>3. [m \in Modules |-> ~Sound(m)] = [m \in Modules |-> FALSE]
  <2> DEFINE doubts == [m \in Modules |-> ~Sound(m)]
  <2>1. doubts \in [Modules -> BOOLEAN]
    BY DEF Sound
  <2>2. \A m \in Modules : ~doubts[m]
    BY <1>1, Zenon
  <2> HIDE DEF doubts
  <2>3. doubts = [m \in Modules |-> FALSE]
    BY <2>1, <2>2, NowhereTrue
  <2> QED
    BY <2>3 DEF doubts
<1> QED
  BY <1>2, <1>3 DEF Swap!Init

\* Every step of the upgrade is a step of FirmwareSwap: a new run finds what is
\* there, any other step works on each module, or lets its promise lapse.
LEMMA SwapNext == SwapInv /\ [Next]_vars => [Swap!Next]_(Swap!vars)
<1> SUFFICES ASSUME SwapInv, [Next]_vars PROVE Swap!Next
  OBVIOUS
<1> DEFINE bodies == [m \in Modules |-> BodyOf(m)]
           seals  == [m \in Modules |-> SealOf(m)]
           doubts == [m \in Modules |-> ~Sound(m)]
<1>1. ASSUME NEW m \in Modules
      PROVE  /\ bodies[m] = BodyIn(dev[m].page) /\ bodies'[m] = BodyIn(dev'[m].page)
             /\ seals[m] = SealIn(dev[m].page) /\ seals'[m] = SealIn(dev'[m].page)
             /\ doubts[m] = ~Sound(m) /\ doubts'[m] = ~Sound(m)'
  <2>1. BodyOf(m)' = BodyIn(dev'[m].page) /\ SealOf(m)' = SealIn(dev'[m].page)
    BY DEF BodyOf, Blank, Filled, Begun, SealOf, BodyIn, SealIn, Image
  <2> QED
    BY <2>1, ReadOff
<1>2. CASE Rerun
  <2>1. \A d \in DriverSet : ~Write(d)
    BY <1>2 DEF Rerun, Write, Alive
  <2>2. ASSUME NEW m \in Modules
        PROVE  bodies'[m] = bodies[m] /\ seals'[m] = seals[m] /\ ~doubts'[m]
    BY <1>1, <1>2, <2>1, <2>2, QuietPages
  <2> QED
    BY <2>2 DEF Swap!Next, Swap!NewRun, Swap!Keep
<1>3. CASE ~Rerun
  <2>1. ASSUME NEW m \in Modules, Sound(m)'
        PROVE  Sound(m) /\ SwapStep(dev[m].page, dev'[m].page)
    <3>1. Progress(m)
      BY <1>3, <2>1, StepProgress
    <3>2. dev[m].page \in [Pages -> Contents]
      BY ThreadTypes DEF SwapInv, Device
    <3>3. CASE dev'[m].page = dev[m].page
      BY <3>1, <3>3 DEF Progress, SwapStep
    <3> QED
      BY <3>1, <3>2, <3>3, WroteSwaps DEF Progress
  <2>2. ASSUME NEW m \in Modules, Sound(m)'
        PROVE  doubts'[m] = doubts[m] /\
               (Swap!Wipe(m) \/ Swap!BreakSeal(m) \/ Swap!Fill(m) \/ Swap!SetSeal(m))
    BY <1>1, <2>1, <2>2 DEF SwapStep, Swap!Wipe, Swap!BreakSeal, Swap!Fill, Swap!SetSeal
  <2>3. ASSUME NEW m \in Modules, ~Sound(m)'
        PROVE  Swap!Lapse(m)
    BY <1>1, <2>3 DEF Swap!Lapse
  <2> QED
    BY <2>2, <2>3 DEF Swap!Next, Swap!Work
<1> QED
  BY <1>2, <1>3

\* For every layout, image, set of modules and drivers the upgrade implements
\* FirmwareSwap (upgrade_op: erase, erase info, pages, info, whatever is lost or killed).
THEOREM Implements == Spec => ImplementsSwap
BY SwapInit, SwapNext, SwapHolds, PTL DEF Spec, ImplementsSwap, Swap!Spec
=============================================================================
