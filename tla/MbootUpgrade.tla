---------------------------- MODULE MbootUpgrade ----------------------------
(***************************************************************************)
(* mm-tools -f: the firmware upgrade of mboot_api.c.  The main thread starts *)
(* one thread per I2C driver (mboot_upgrade), then joins them one by one     *)
(* (mboot_finish); every thread rewrites the flash of all the modules its    *)
(* driver reaches (upgrade_op).  The steps of a thread are its i2c_write     *)
(* calls; the process may be killed between any two, and started again.      *)
(*                                                                         *)
(* A definition whose name ends in _Something is the definition of the same  *)
(* name with one slip.  Nothing uses it: the mutation runs put it in place   *)
(* of the real one, to see that the properties notice.                       *)
(***************************************************************************)
EXTENDS SpiFlash, Sequences

CONSTANTS
  Drivers,      \* DRIVERS_DO: the drivers in the order main goes through them
  Silent,       \* the drivers whose i2c_write may report success though a module missed it
  Modules,      \* the MM modules
  Bus,          \* the driver each module hangs on
  ImagePages,   \* gmcs1_len, in pages
  MaxFaults,    \* bound: i2c_writes that go wrong, over all runs
  MaxRuns       \* bound: invocations of the tool

DriverSet == {Drivers[i] : i \in 1 .. Len(Drivers)}

ASSUME UpgradeAssumption ==
  /\ Drivers \in Seq(STRING)
  /\ Len(Drivers) > 0
  /\ \A i, j \in 1 .. Len(Drivers) : Drivers[i] = Drivers[j] => i = j
  /\ Silent \subseteq DriverSet
  /\ Bus \in [Modules -> DriverSet]
  /\ ImagePages \in Nat \ {0}
  /\ mcs1_offset + ImagePages <= mcs1_cfg_offset
  /\ MaxFaults \in Nat
  /\ MaxRuns \in Nat

VARIABLES
  run,         \* number of this invocation
  mpc,         \* main thread: "spawn", "join", "done"; "dead": the process is gone
  idx,         \* the driver main is at
  path,        \* g_newmcs_filepath: "live" or "freed"
  stage,       \* what each upgrade thread is doing
  step,        \* the i2c_write it is at within the stage
  pos,         \* addr in the erase and program loops of the thread
  file,        \* its mboot_mcs_fp_new: "none", "open", or "null"
  dev,         \* the modules
  missed,      \* history: did the module miss a write: "no", "before" (this run), "now"
  shortErase,  \* history: flash_fast_erase of the thread returned 1
  rebooted,    \* history: set_reboot of the thread returned 0
  faults       \* i2c_writes that went wrong so far

mainVars   == <<mpc, idx, path>>
threadVars == <<stage, step, pos, file, shortErase, rebooted>>
vars       == <<run, mainVars, threadVars, dev, missed, faults>>

Stages == {"idle", "open", "file", "enable", "unlock", "erase", "eraseinfo",
           "page", "info", "release", "reboot", "close", "crash", "exit"}

Alive == mpc \in {"spawn", "join"}

On(d) == {m \in Modules : Bus[m] = d}

-----------------------------------------------------------------------------
\* The i2c_writes of the flash helpers.
flash_prog_en == <<CS_ENABLE, WREN, CS_DISABLE>>

flash_erase_op(addr, unit) ==
  <<CS_ENABLE, WREN, CS_DISABLE, CS_ENABLE, Erase(addr, unit), CS_DISABLE>>

flash_prog_page(addr) ==
  <<CS_ENABLE, WREN, CS_DISABLE, CS_ENABLE, Header(addr), DATA, CS_DISABLE>>

\* flash_earse, step 3.
EraseInfo_32K == flash_erase_op(mcs1_info_offset, SPI_FLASH_32K)

EraseInfo == flash_erase_op(mcs1_info_offset, SPI_FLASH_SEC)

\* The i2c_writes of a stage.  In the page stage pos is the page the thread
\* writes, which is also how far it has read the image.
Script(s, p) ==
  CASE s = "enable"    -> <<ENABLE_DOWNLOAD>>
    [] s = "unlock"    -> flash_prog_en
    [] s = "erase"     -> flash_erase_op(p, EraseUnit(p, mcs1_cfg_offset))
    [] s = "eraseinfo" -> EraseInfo
    [] s = "page"      -> flash_prog_page(p)
    [] s = "info"      -> flash_prog_page(mcs1_info_offset)
    [] s = "release"   -> <<IIC2SPI_DISABLE>>
    [] s = "reboot"    -> <<REBOOT>>
    [] OTHER           -> <<>>

\* Where a thread is after the last i2c_write of a stage.
EndErase_Stuck(p) == [stage |-> "erase", pos |-> mcs1_offset]

EndErase(p) ==
  [stage |-> IF EraseUnit(p, mcs1_cfg_offset) > 0 THEN "erase" ELSE "eraseinfo",
   pos   |-> p]

EndPage_LastDropped(p) ==
  [stage |-> IF p + 2 < mcs1_offset + ImagePages THEN "page" ELSE "info", pos |-> p + 1]

EndPage(p) ==
  [stage |-> IF p + 1 < mcs1_offset + ImagePages THEN "page" ELSE "info", pos |-> p + 1]

EndEnable_NoFlush(p) == EndErase(mcs1_offset)

EndEnable(p) == [stage |-> "unlock", pos |-> p]

Following(s, p) ==
  CASE s = "enable"    -> EndEnable(p)
    [] s = "unlock"    -> EndErase(mcs1_offset)
    [] s = "erase"     -> EndErase(p + EraseUnit(p, mcs1_cfg_offset))
    [] s = "eraseinfo" -> [stage |-> "page", pos |-> mcs1_offset]
    [] s = "page"      -> EndPage(p)
    [] s = "info"      -> [stage |-> "release", pos |-> p]
    [] s = "release"   -> [stage |-> "reboot", pos |-> p]
    [] OTHER           -> [stage |-> "close", pos |-> p]

\* Where a failed i2c_write takes it.  flash_earse drops the result of
\* flash_fast_erase and goes on; every other failure is a goto ret.
OnError_PageDropped(s) ==
  IF s = "erase" THEN "eraseinfo" ELSE IF s = "page" THEN "info" ELSE "close"

OnError(s) == IF s = "erase" THEN "eraseinfo" ELSE "close"

-----------------------------------------------------------------------------
Init ==
  /\ run = 1
  /\ mpc = "spawn" /\ idx = 1 /\ path = "live"
  /\ stage      = [d \in DriverSet |-> "idle"]
  /\ step       = [d \in DriverSet |-> 1]
  /\ pos        = [d \in DriverSet |-> mcs1_offset]
  /\ file       = [d \in DriverSet |-> "none"]
  /\ shortErase = [d \in DriverSet |-> FALSE]
  /\ rebooted   = [d \in DriverSet |-> FALSE]
  /\ dev        = [m \in Modules |-> Factory]
  /\ missed     = [m \in Modules |-> "no"]
  /\ faults = 0

\* mboot_upgrade: start the thread of the next driver.
mboot_upgrade ==
  /\ mpc = "spawn"
  /\ stage' = [stage EXCEPT ![Drivers[idx]] = "open"]
  /\ IF idx < Len(Drivers)
       THEN idx' = idx + 1 /\ UNCHANGED mpc
       ELSE idx' = 1 /\ mpc' = "join"
  /\ UNCHANGED <<run, path, step, pos, file, shortErase, rebooted, dev, missed, faults>>

mboot_finish_FirstOnly ==
  /\ mpc = "join"
  /\ stage[Drivers[idx]] = "exit"
  /\ path' = "freed" /\ mpc' = "done"
  /\ UNCHANGED <<run, idx, threadVars, dev, missed, faults>>

\* mboot_finish: join the thread of the next driver, then free the path - after
\* the first join, whether or not the other threads have opened the file.
mboot_finish ==
  /\ mpc = "join"
  /\ stage[Drivers[idx]] = "exit"
  /\ path' = "freed"
  /\ IF idx < Len(Drivers)
       THEN idx' = idx + 1 /\ UNCHANGED mpc
       ELSE UNCHANGED idx /\ mpc' = "done"
  /\ UNCHANGED <<run, threadVars, dev, missed, faults>>

\* i2c_open.  The AUC driver reports success even if one AUC could not be
\* opened; the first i2c_write then hands its NULL handle to libusb.
Open(d) ==
  /\ Alive /\ stage[d] = "open"
  /\ \E s \in {"file", "exit"} \cup (IF d \in Silent THEN {"crash"} ELSE {}) :
       stage' = [stage EXCEPT ![d] = s]
  /\ UNCHANGED <<run, mainVars, step, pos, file, shortErase, rebooted, dev, missed, faults>>

\* fopen(g_newmcs_filepath).  From freed memory, or from NULL, it may or may
\* not get the name.
OpenFile(d) ==
  /\ Alive /\ stage[d] = "file"
  /\ \E f \in {"open"} \cup (IF path = "freed" THEN {"null"} ELSE {}) :
       file' = [file EXCEPT ![d] = f]
  /\ stage' = [stage EXCEPT ![d] = "enable"]
  /\ UNCHANGED <<run, mainVars, step, pos, shortErase, rebooted, dev, missed, faults>>

\* The page loop reads the image before it programs: from a NULL FILE.
ReadsNull(d) == stage[d] = "page" /\ step[d] = 1 /\ file[d] = "null"

Crash(d) ==
  /\ Alive /\ (stage[d] = "crash" \/ ReadsNull(d))
  /\ mpc' = "dead"
  /\ UNCHANGED <<run, idx, path, threadVars, dev, missed, faults>>

\* What an i2c_write does to the modules: those in got receive it, those in
\* torn only parts of it (page data travels in several AUC transfers and only
\* the answer to the last one is looked at), the others nothing.
Delivered(d, w, got, torn) ==
  /\ \E hit \in [{m \in got : w.op = "cs_disable" /\ dev[m].frame.op = "wild"}
                   -> Pages \cup {NoPage}] :
       dev' = [m \in Modules |->
                 IF m \notin got THEN dev[m]
                 ELSE Receive(dev[m], [w EXCEPT !.good = m \notin torn],
                              IF m \in DOMAIN hit THEN hit[m] ELSE NoPage)]
  /\ missed' = [m \in Modules |->
                  IF Bus[m] = d /\ (m \notin got \/ m \in torn) THEN "now" ELSE missed[m]]

\* The thread after an i2c_write that failed, that succeeded within a stage, and
\* that was the last one of its stage.
Fails(d) ==
  /\ stage' = [stage EXCEPT ![d] = OnError(stage[d])]
  /\ step' = [step EXCEPT ![d] = 1]
  /\ shortErase' = [shortErase EXCEPT ![d] = @ \/ stage[d] = "erase"]
  /\ UNCHANGED <<pos, rebooted>>

GoesOn(d) ==
  /\ step[d] < Len(Script(stage[d], pos[d]))
  /\ step' = [step EXCEPT ![d] = @ + 1]
  /\ UNCHANGED <<stage, pos, shortErase, rebooted>>

EndsStage(d) ==
  LET next == Following(stage[d], pos[d]) IN
  /\ step[d] = Len(Script(stage[d], pos[d]))
  /\ stage' = [stage EXCEPT ![d] = next.stage]
  /\ pos' = [pos EXCEPT ![d] = next.pos]
  /\ step' = [step EXCEPT ![d] = 1]
  /\ shortErase' = [shortErase EXCEPT ![d] =
       @ \/ (stage[d] = "erase" /\ next.stage # "erase" /\ next.pos # mcs1_cfg_offset)]
  /\ rebooted' = [rebooted EXCEPT ![d] = @ \/ stage[d] = "reboot"]

\* One i2c_write of an upgrade thread and all the thread does up to the next.
\* ok is what i2c_write returned.  Only the AUC driver reports success when a
\* module did not get it: a NAK is skipped, and after a USB failure the answer
\* it looks at was never set.
Write(d) ==
  /\ Alive
  /\ Script(stage[d], pos[d]) # <<>>
  /\ ~ReadsNull(d)
  /\ LET w == Script(stage[d], pos[d])[step[d]] IN
     \E got \in SUBSET On(d), ok \in BOOLEAN :
     \E torn \in IF w.op = "data" THEN SUBSET got ELSE {{}} :
       /\ ok /\ d \notin Silent => got = On(d) /\ torn = {}
       /\ IF ok /\ got = On(d) /\ torn = {}
            THEN UNCHANGED faults
            ELSE faults < MaxFaults /\ faults' = faults + 1
       /\ Delivered(d, w, got, torn)
       /\ \/ ~ok /\ Fails(d)
          \/ ok /\ (GoesOn(d) \/ EndsStage(d))
  /\ UNCHANGED <<run, mainVars, file>>

\* ret: i2c_close, and the thread ends.
Close(d) ==
  /\ Alive /\ stage[d] = "close"
  /\ stage' = [stage EXCEPT ![d] = "exit"]
  /\ UNCHANGED <<run, mainVars, step, pos, file, shortErase, rebooted, dev, missed, faults>>

\* The user, or the host, stops the tool.
Kill ==
  /\ Alive
  /\ mpc' = "dead"
  /\ UNCHANGED <<run, idx, path, threadVars, dev, missed, faults>>

\* The tool is started again; some modules may have lost power meanwhile.
Rerun ==
  /\ ~Alive
  /\ run < MaxRuns
  /\ run' = run + 1
  /\ mpc' = "spawn" /\ idx' = 1 /\ path' = "live"
  /\ stage'      = [d \in DriverSet |-> "idle"]
  /\ step'       = [d \in DriverSet |-> 1]
  /\ pos'        = [d \in DriverSet |-> mcs1_offset]
  /\ file'       = [d \in DriverSet |-> "none"]
  /\ shortErase' = [d \in DriverSet |-> FALSE]
  /\ rebooted'   = [d \in DriverSet |-> FALSE]
  /\ \E off \in SUBSET Modules :
       dev' = [m \in Modules |-> IF m \in off THEN PowerCycled(dev[m]) ELSE dev[m]]
  /\ missed' = [m \in Modules |-> IF missed[m] = "no" THEN "no" ELSE "before"]
  /\ UNCHANGED faults

upgrade_op(d) == Open(d) \/ OpenFile(d) \/ Crash(d) \/ Write(d) \/ Close(d)

mboot == mboot_upgrade \/ mboot_finish

Next ==
  \/ mboot
  \/ \E d \in DriverSet : upgrade_op(d)
  \/ Kill
  \/ Rerun

Spec == Init /\ [][Next]_vars

\* The threads are scheduled and every transfer has a timeout (AUC_TIMEOUT_MS);
\* nothing obliges anybody to kill the tool or to start it again.
FairSpec == Spec /\ WF_vars(mboot) /\ \A d \in DriverSet : WF_vars(upgrade_op(d))

-----------------------------------------------------------------------------
\* The state is well typed: no thread leaves its stages, its scripts or the
\* firmware area (upgrade_op, flash_fast_erase).
TypeOK ==
  /\ run \in Nat
  /\ mpc \in {"spawn", "join", "done", "dead"}
  /\ idx \in 1 .. Len(Drivers)
  /\ path \in {"live", "freed"}
  /\ stage \in [DriverSet -> Stages]
  /\ step \in [DriverSet -> 1 .. 7]
  /\ pos \in [DriverSet -> Firmware \cup {mcs1_cfg_offset}]
  /\ file \in [DriverSet -> {"none", "open", "null"}]
  /\ shortErase \in [DriverSet -> BOOLEAN]
  /\ rebooted \in [DriverSet -> BOOLEAN]
  /\ dev \in [Modules -> Device]
  /\ missed \in [Modules -> {"no", "before", "now"}]
  /\ faults \in Nat

\* The image is in place below an info record, and nothing else is in the
\* firmware area.
Filled(m) ==
  \A p \in Firmware :
    dev[m].page[p] = IF p < mcs1_offset + ImagePages THEN "new" ELSE "erased"

Installed(m) == Filled(m) /\ dev[m].page[mcs1_info_offset] = "new"

\* Nothing went wrong in this run that the tool would not notice.
Sound(m) == missed[m] # "now" /\ ~shortErase[Bus[m]]

\* The boot loader (mcs0) and the configuration of a module that never missed
\* an i2c_write are never written, however often the tool is killed half way
\* through a frame and started again on a chip that still holds the half frame
\* (flash_layout: "reserved for bootloader"; flash_earse: "mcs1 confg reserved").
ReservedUntouched ==
  \A m \in Modules : missed[m] = "no" =>
    \A p \in Reserved : dev[m].page[p] = "old"

\* A thread that got as far as set_reboot leaves every module it reached with
\* the whole image and its info record, and restarted on them - whatever an
\* earlier, failed or killed, run left in the flash and in the chip.
RebootedInstalled ==
  \A m \in Modules : Sound(m) /\ rebooted[Bus[m]] =>
    Installed(m) /\ dev[m].mode = "boot"

\* The info record is what makes the firmware valid: the step that writes it
\* finds the whole image in place (upgrade_op: pages first, flash_prog_info last).
CommitWhole ==
  [][\A m \in Modules :
       /\ dev[m].page[mcs1_info_offset] # "new"
       /\ dev'[m].page[mcs1_info_offset] = "new"
       /\ Sound(m)'
       => Filled(m)']_vars

\* The thread that mboot_finish joins first has its file: the path is freed only
\* after that join.  (The other threads have no such promise: ErasedThenProgrammed.)
FirstDriverHasFile == file[Drivers[1]] # "null"

\* When mboot returns, no upgrade thread is left that still writes to a bus.
DoneMeansJoined == mpc = "done" => \A d \in DriverSet : stage[d] = "exit"

\* Every run comes to an end: mboot returns, or the process dies.
MbootEnds == (mpc = "spawn") ~> ~Alive

\* mm-tools/README:4 and :10: the tool reflashes modules over the AUC or over the
\* linux iic api.  So a thread that opened its driver and erased its modules has
\* an image to program.
ErasedThenProgrammed == \A d \in DriverSet : ~ReadsNull(d)

-----------------------------------------------------------------------------
\* The upgrade implements FirmwareSwap: what body and seal a module has is read
\* off its pages.
Blank(m) == \A p \in Firmware : dev[m].page[p] = "erased"

Begun(m) ==
  \E n \in 1 .. ImagePages - 1 : \A p \in Firmware :
    dev[m].page[p] = IF p < mcs1_offset + n THEN "new" ELSE "erased"

BodyOf(m) ==
  IF Blank(m) THEN "void"
  ELSE IF Filled(m) THEN "new"
  ELSE IF Begun(m) THEN "filling"
  ELSE IF \A p \in Firmware : dev[m].page[p] = "old" THEN "old"
  ELSE "other"

SealOf(m) ==
  LET info == dev[m].page[mcs1_info_offset] IN IF info = "erased" THEN "void" ELSE info

Swap == INSTANCE FirmwareSwap
          WITH body  <- [m \in Modules |-> BodyOf(m)],
               seal  <- [m \in Modules |-> SealOf(m)],
               doubt <- [m \in Modules |-> ~Sound(m)]

\* For every module the tool does what FirmwareSwap promises, whatever fails and however
\* often it is killed: an info record is set only on the whole image, and no page of the
\* image is programmed while one stands (upgrade_op: erase, erase info, pages, info).  That
\* an info record never stands on anything else it does not promise: while flash_fast_erase
\* runs, the one of the run before does (mboot_api.c:215-223), and stays when the tool is
\* killed there.
ImplementsSwap == Swap!Spec
=============================================================================
