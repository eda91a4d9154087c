# A verification project for avalon-extras

avalon-extras is the tool box around the Avalon miners: a C program that
reflashes and tests mining modules over I2C (`mm-tools`), an LCD driver
(`lcd-tools`), the Python jobs that watch a farm of controllers
(`farm-manager`), driver patches for cgminer, and a shelf of bench scripts.
This directory holds TLA+ models of the parts that have behaviour worth
checking, the TLC configurations that check them, and TLAPS proofs.

Run everything inside this directory:

    tlc -workers 2 -config MbootAuc.cfg MCMbootUpgrade    # one run of PROJECT.json
    tlapm MbootUpgradeProofs.tla                          # the proofs of a module

`PROJECT.json` lists components, runs, mutants (a plausible slip in one
definition for every property of every passing run), the source lines of every
definition, the hazards, the findings and the theorems.

## 1. Inventory

### mm-tools (C, 1.5 kloc, and the libraries it is built with) — the core

Layers: `main.c` (options) / `mboot_api.c`, `mm_api.c` (operations on MM
modules) / `iic_auc.c`, `iic_rpi.c` (two `i2c_drv` drivers, iterated by
`DRIVERS_DO`) / `auc.c` (USB packets to the Avalon USB converter) / libusb. The
report of the core test is made with jansson. Both libraries lie in the tree
(`compat/`) and are built with the tools.

| part | state | operations | hard behaviour | correct when |
|---|---|---|---|---|
| firmware upgrade (`mboot_api.c`) | `thread_pool`, `g_newmcs_filepath`, `gmcs1_len`; per thread: place in the erase and program loops; in the module: chip select, frame in progress, write enable latch, pages | `mboot`, `mreboot`, `mboot_upgrade`, `mboot_finish`, `upgrade_op`, the `flash_*` helpers | two threads share the path; a failed transfer leaves half a frame in the chip; the process may be killed anywhere and started again; the AUC driver reports success for modules that got nothing | boot loader and configuration never written; a reboot only onto a whole image; an info record only set on a whole image; every run ends |
| AUC driver (`iic_auc.c`, `auc.c`) | `g_hauc[]`, `g_auc_cnts`, `auc_devctx`, shared packet buffer | open/close/write/read, `auc_xfer` chunking | broadcast over several AUCs with NAK = skip; answers of a failed transfer never set; off-by-one index tests | a write reaches all modules or is reported |
| core test (`mm_api.c`) | `reportlist[64]`, `g_auc_id`, the log file | `mm_detect`, `mm_test`, `mm_corereport`, `mm_coretest`, `set_radiator_mode` | a module that never answers; keep-alive to the other modules; report state reused between AUCs | other modules stay alive; every AUC's report survives in the log |
| CRC (`crc16.c`, `crc16_soft.c`) | – | `mboot_crc16` | two implementations chosen at build time | both equal |
| libusb (`compat/libusb-1.0`, 13 kloc) | context, list of devices, transfers in flight, locks, a control pipe, a monitor thread | open, transfer, cancel, events, hotplug, configurations, claims | any thread may handle the events of all; a timeout, an answer, a cancellation and an unplugged cable race; a transfer is many URBs | every call returns, every transfer ends once and is not touched after that, references are counted |
| jansson (`compat/jansson-2.6`, 5 kloc) | a tree of counted values, a hash table for each object | load, dump, pack, unpack, set, iterate | a table that grows under an iterator; references on the ways out; the edges of UTF-8, numbers and formats | what is written is read back; only JSON is accepted; every reference is given back |
| uthash (`uthash.h`) | a list and a table of buckets, both linked through the elements | `HASH_ADD`, `HASH_FIND`, `HASH_DEL`, `HASH_REPLACE`, `HASH_SORT`, `HASH_CLEAR` | buckets that are expanded by an addition, the last element, the head | `HASH_FSCK`; every element is found |

### lcd-tools (C, 0.5 kloc)

HD44780 in 4-bit mode behind a PCF8574 port expander (`lcd.c`), GPIO reset
lines (`gpio.c`), one process per command (`main.c`): the shadow of the
display registers (`g_lcd_bg`, `g_lcd_dispctrl`) starts afresh in every process
while the controller keeps its state. Hard: the sequence of processes; nibble
synchronisation; a process killed between two nibbles. Correct when what the
options say is what the controller does.

### farm-manager

| part | state | hard behaviour | correct when |
|---|---|---|---|
| status-report `chkstat.py` | queue of hosts, result list, lock, per-host retries | worker threads, timeouts that grow, a host that fails half way | every host ends up in the list exactly once, with data of its own |
| `chkblock.py`, `chkerr.py`, `chkrate.py`, `statlogging.py` | previous log, current data | counters that restart with the miner, hosts that vanish and come back, values left over from the previous iteration | no event lost, none invented |
| `statreport.py`, `sendmail.py`, `renderpage.py`, `poolrate.py`, `readconfig.py` | command line flags, tables, the newest log | the log is written first and the mail last, and anything in between may fail | no block is counted or told of twice |
| `utils/rtac` | queue of hosts, ssh connection, retry counter | connection lost in the middle of a command list | every host is reported as done, failed or skipped |
| `www/status` | `err_conn_flag`, pages | a failed restart followed by one that works | shows what happened |
| plots (`tmplot`, `hsplot`), raspberrypi scripts, css, js | – | – | not modelled: drawing and installation |

### cgminer-patches

The Avalon2/3/4 drivers as patches: detection, packet framing with resync, CRC
and stratum job delivery (`avalon2_*`). Hard: stale receive buffer between
detection passes, restart flags lost on early return, `while (send != OK)`
loops.

### The rest

`fake-avalon` (a chip emulator with CTS flow control), `calc_prepare` (SHA-256
midstate arithmetic), `scripts` (bench tests and `*-mm-upgrade.py`),
`dds238-2-power` and `miner-debug-system` (Modbus power meters),
`slt-debug-system`, `zctrl`, `7z100-miscs`, build scripts, patches for u-boot,
linux and openwrt. Mostly data, vendored code and straight-line scripts.

## 2. What is modelled

### 2.1 The firmware upgrade (mm-tools -f)

    FlashLayout  <-  SpiFlash  <-  MbootUpgrade  --refines-->  FirmwareSwap
                                       ^            ^
                              MCMbootUpgrade    MbootUpgradeProofs
                              (values for TLC)

* **FlashLayout** is the layout of the W25Q flash (`w25qxx_layout`, both
  parts) in units of a 256 byte page, and the arithmetic of `flash_fast_erase`.
  The three loops of the code are one operator, `EraseUnit(addr, end)`: the
  largest of the three sizes that still fits, 0 when none does. Its comment says
  why that is the same thing. The constants carry the relations the `#define`s
  satisfy (`LayoutAssumption`), not the numbers.
* **SpiFlash** is external: the I2C-to-SPI bridge in the module and the flash
  behind it, as `mboot_api.c` uses them. Bytes sent while the chip is selected
  form a frame; the flash executes the frame when it is deselected; an erase or
  a program needs a write enable executed since the last one; a page takes data
  only if it was erased. A bridge that is not open for download ignores the
  frame bytes. A frame that starts with image bytes ("wild") may do anything to
  one page.
* **MbootUpgrade** is the process. `mpc`, `idx`, `path` are the main thread
  (`mboot_upgrade` starts one thread for each driver, `mboot_finish` joins the
  next one and frees the path after *every* join). Each thread (`stage`, `step`,
  `pos`, `file`) goes through `upgrade_op`; one action `Write` is one
  `i2c_write` with all the code up to the next one. `Script(stage, pos)` is the
  list of the `i2c_write`s of a stage, `Following` the stage after it, `OnError`
  where a failed one leads. `Kill` may stop the process between any two writes;
  `Rerun` starts it again on modules that kept their state, or lost power.
  The driver decides what a module receives: `got` are the modules that got
  it, `torn` those that got only a part of a page, `ok` what the driver
  returned. The linux driver (`iic_rpi.c`) reports honestly; the AUC driver
  (`Silent`) may report success all the same, because it skips NAKs, looks at an
  answer variable that a failed USB transfer never sets, and sees only the
  answer to the last packet of a page.
* **FirmwareSwap** is what an upgrade promises, without buses, threads or
  addresses: a body is wiped, the seal on it (the info record) broken, the body
  filled and a new seal set on a whole body; a run may stop anywhere. While the body
  is wiped the seal of before still stands, and it stays there when the tool is killed before it
  comes to `flash_erase_op(mcs1_info_offset)` (mboot_api.c:215-223): the loader then finds a record
  over an erased firmware. The specification allows what the code does there. The
  refinement mapping reads body and seal off the pages of a module.

Histories: `missed` (the module missed a write; in this run or before),
`shortErase` (`flash_fast_erase` failed, which `flash_earse` ignores) and
`rebooted`. Properties are conditional on them where the code makes no promise:
a module that silently missed a write has no guarantee.

| property | says |
|---|---|
| `ReservedUntouched` | boot loader and configuration of a module that never missed a write are never written, whatever half frame an earlier run left in the chip |
| `RebootedInstalled` | a thread that got as far as `set_reboot` leaves its modules restarted on the whole image and its record |
| `CommitWhole` (action) | the step that writes the info record finds the whole image in place |
| `ImplementsSwap` | refinement of `FirmwareSwap`: a seal is set only on the whole image, and none stands while the body is filled; the one of before stands while the body is wiped |
| `DoneMeansJoined` | main returns when no thread is left that writes |
| `MbootEnds` (liveness) | every run ends: return or death of the process |
| `ErasedThenProgrammed` | violated: see the finding |

**Runs and bounds.** `mboot_auc`: two symmetric modules behind the lying
driver, 1 fault, 2 runs, a 3-page image (two pages and the begun one that a half frame
may meet), a layout with sectors of 2 pages (the info sector is more than the info page)
and an area of 14 pages that takes an erase of each size (8, 4 and 2 pages).
`mboot_threads`: both drivers at once, one module on each, one fault anywhere, for the
joins and for liveness. `mboot_path_race`: the same without faults, the expected violation.
Faults are bounded because each is two ways to go on for every module; one fault
suffices for a module to miss any single write, and two runs for a half frame to meet
a second run.

**Fairness** (only `FairSpec`): weak fairness of the main thread and of every
upgrade thread. The pthreads are scheduled, and every USB transfer returns
because of `AUC_TIMEOUT_MS`; a kernel `write` on i2c-dev returns because the
adapter times out. Killing and rerunning have no fairness.

**Deadlock** checking is off: a tool that is done, with no run left, stops.

**Assumed, because the source cannot show it:** the fixed sleeps are longer than
the flash takes (1 s for an erase, 3 ms for a page); the image is not empty and
fits the area (`UpgradeAssumption`; the code does not check, see the hazards);
no write is executed by a module that answered NAK; a stray frame of image bytes
damages at most one page.

**Not modelled here:** `mm_send_upgrade_info` (one packet before the threads start,
whose result is ignored) and `mreboot`.

**McsFile** is `mboot_mcs_file`, which makes the image from an `.mcs` file: one action is
one line, and the lines are made up on the way. The buffer is not cleared between
lines, so that an empty line has all but the first character from the line before.
`FirmwareTaken` (of the run `parts`): of a regular file (no empty lines, short records, segments in order) the
image has every record at or above the segment of the firmware, once, in order, but for
the info record, and `mcs1_len` is their length; of any file, reading ends with the first end
record behind that segment. All files of four lines: a segment, two data records
and an end, or any disorder of these.

**Crc16** is `mboot_crc16`, in the two source files configure chooses from (`soft`), and its
sum byte by byte in `upgrade_op`. `CrcIsRemainder` (in `FirmwareTaken`) compares them with the
remainder of the division by x^16 + x^12 + x^5 + 1: all messages of two bytes, the first any
byte, so that every entry of the table is used.

### 2.2 The core test (mm-tools -c)

* **CoreTest** is `mm_coretest`: for every AUC, `mm_detect` broadcasts and hands
  out ids until nobody answers, `mm_test` puts one module after the other under
  test while it addresses the others in every round, and `mm_corereport` writes
  `reportlist` to the log. One action is one transfer with the code up to the
  next one; `faults` counts the transfers and calls that fail. The modules (who
  listens to an id, how many answers a test still owes) are external. A test has
  3 answers in the runs (`AVA4_DEFAULT_MINERS = 2`, and the summary) instead
  of 11, and `reportlist` 6 places instead of 64.

| part of | property | says |
|---|---|---|
| `TestsInTurn` | `OneByOne` | while no answer is lost, at most one module is at its test: the next test, or the next AUC, is not started while a module still has answers to give |
| `TestsInTurn` | `KeptWorking` | no module that was detected waits longer for a transfer than one round of the others takes, also across the switch of tests |
| `ReportsThisAuc` | `ThisAucReported` (action) | what is written to the log for an AUC are modules of that AUC under the ids they took, all of them when nothing failed, and no left-overs of the one before or of `jansson_test` |
| (run `coretest_log`) | `ReportsKept` (action) | violated: a report stays in the log when that of another AUC comes |
| `ProgramsEnd` | `Ended` (liveness) | without faults, the core test ends |

There are three modules on one AUC and one on a second: the smallest number for which
"the others" of a round are more than one, and for which something of an AUC can show
up at another. Two faults let a detection break off and an answer be lost in the same run.
`coretest_log` has one module on each of two AUCs and no faults (**MCCoreTest**).

**Fairness**: weak fairness of the one process, every transfer of which ends by
its timeout, and strong fairness of `TestAnswered`: a module that owes answers
and is read again and again answers in the end. The code has no other way out of
the loop (see the hazards); without that assumption the test need not end.

### 2.3 The AUC driver (auc.c, iic_auc.c)

* **AucBus** is the driver over the pair of bulk endpoints of each AUC. One action is one
  `libusb_bulk_transfer`, or the code between two: `auc_getcounts`, `i2c_open` with the loop
  of `auc_init` that reads until nothing comes, `i2c_write` (all AUCs in turn, in
  chunks, a NAK skips the AUC), `i2c_read`, `i2c_close`. Nothing in an answer says which
  packet it belongs to; `own` is a history that does. A transfer may fail, its answer may
  come late (`slipped`), and the process may be killed and started again with what is in
  the endpoints.

| part of | property | says |
|---|---|---|
| `TransfersTrusted` | `OwnAnswerTaken` (action) | an answer is taken for the packet it answers: what an earlier process left behind is gone after `auc_init`, and it stays so until a transfer fails with its answer still to come |
| `TransfersTrusted` | `WriteReaches` (action) | an `i2c_write` that met no failure and says it worked gave every AUC every packet |
| `CrashHasCause` | | the driver hands NULL to libusb, or to `memcpy`, only after an AUC did not open, `libusb_init` failed or an answer was late |
| `ProgramsEnd` | `Calling ~> Returned` | every call returns: the loop of `auc_init` finds the endpoint empty, since an AUC has only so many answers to give |

Two AUCs (one that works while the other does not), packets of one and two chunks, two
processes one after the other, one failure. Fairness: the calls go on, and an AUC
answers what it has got; a timeout needs no fairness.

`Silent` of MbootUpgrade, the driver that reports success for modules that got nothing, is
the worst of what AucBus does: it skips a NAK, and after a late answer it takes the
success of an earlier packet.

### 2.4 The display (lcd-tools)

    Hd44780 (external)  <-  LcdTools  <-  MCLcdTools, Programs

* **LcdTools** is a sequence of processes, one for each use of the command.
  `Program(option)` is the list of bytes that `main` writes for an option, built
  by the operators named as in `lcd.c` (`lcd_op` with its two modes is `HalfOp`
  and `FullOp`); one action `iic_write_byte` is one byte. `Kill` ends a process
  between two bytes or while SDA is turned around for an ACK; the next process
  then sends its start condition to nobody. A fresh process has `g_lcd_bg`,
  `g_lcd_dispctrl` and `g_lcd_addr` at their initial values, so they are constants
  of each operator. A line that is already exported is no error: the write to
  `export` fails when stdio flushes it, in `fclose`, whose result nobody reads.
* **Hd44780** is the display: a nibble is latched when EN falls; in 8 bit mode
  the low data lines are not connected, and may read as anything; lines that
  change together with EN may be latched before or after the change. It keeps
  half an instruction for as long as it takes.

| part of | property | says |
|---|---|---|
| `ShownIsTrue` | `InitRecovers` | after `-i` the display is in one known state, from whatever the processes before it left: 8 or 4 bits, half an instruction, SDA an input, EN left high by `-c 0` |
| `ShownIsTrue` | `StringShown` | after `-i`, every `-s` that ends shows its string, each row from its first column |
| | `StringAfterControl` | violated: the same with `-c 1` in between |

Any three processes and one kill: enough for `-i`, a killed or `-c 0` process and
another `-i`, or two strings one after the other. There is no loop in a process, so no
liveness is claimed. Strings of one to three characters suffice because a character
does not depend on the ones before it other than by the address counter.

### 2.5 The worker threads of farm-manager

* **ChkStat** is the collection of `chkstat.py`: two threads take three miners off one
  queue; a connection and each report may take all of its tries; when all threads have
  ended the table is made. `TableIsTrue` (in `HostsAccounted`): no miner is asked twice, its
  row says what it has answered, and the table is only missing when a miner has given
  its devs and no summary (the program stops with a TypeError that nobody catches).
* **Rtac** is `rtac.py`: two threads, two hosts, a list of two commands, over telnet
  or ssh. `CommandsInOrder` (in `HostsAccounted`): commands run in the order of the list, from the
  first again after a lost connection, at most as often as there are tries; where it
  says complete, all have run to the end in one session.
* **StatReport** is the chain of reports: `chkstat`, `chkblock`, `chkerr`, then the log, then the
  mail, while miners work, find blocks and are started again, and the configuration is edited.
  Each report is compared with the newest log place by place, and what the old log does not
  have leaves a name with the value of the place before. The log is written first
  (statreport.py:62) and the mail goes last (87), with plots and pages in between:
  `Report`, `writelog` and `sendmail` are actions of their own. The log may come out torn, which
  makes every report after it fail when it reads the newest log; the mail may fail, which `post`
  tells nobody (sendmail.py:67); and `Stop` ends a report between any two of them.
  `ReportsAreTrue` (of the run `parts`): of a miner that answered every report at one place no
  block is counted twice by the log, and the mails have told of every block it counts but of
  those of reports that were logged and sent nothing (`untold`); "Local work stopped" is said of
  it exactly when it did nothing since the log before. Two miners on one host or two, three
  events, two reports: the shortest history in which a restart, or another place, comes between
  two logs.
* The first two end (`ProgramsEnd`), under weak fairness of each thread and of the main thread.

All of 2.2 to 2.5 but StatReport, and UsbHandles of 2.7, are one run, `programs`: **Programs** instantiates them one
beside the other and "part" says which runs; each keeps its own specification,
with its own fairness. They share what has the same name in two of them (`pc`, `i`, `worker`), the rest
is `Unused` in the others. A property of the run says of each part what its module
says, and `ProgramsProofs` proves that for every value of the constants. **MCPrograms** has the values for TLC.

### 2.6 Events and transfers of libusb

* **UsbEvents** is `do_sync_bulk_transfer` (sync.c) with the event handling of io.c: who gets
  `events_lock` polls for all, the others wait on the condition; the list of transfers in
  flight, the timer, timeouts, cancellation and completion; `libusb_open` and
  `libusb_close`, which interrupt the poll through the control pipe. A step ends at each lock
  and wherever another thread can see the difference; the scheduler, the answers of the
  device and the clock are free.
* **UsbUrbs** is one transfer of `os/linux_usbfs.c`: split into URBs, submitted, refused,
  completed by the kernel, reaped, discarded, cancelled, unplugged; bulk (whole, as a
  chain of continuations, and without), control and isochronous. It reads a stream of numbered
  bytes, so that a byte that is lost or out of its place shows.

| run | property | says |
|---|---|---|
| `usb_events` | `NoStaleFds` | after `libusb_open` returns no thread polls without the new descriptor, after `libusb_close` none polls with it |
| | `FreeNotActive`, `NoUseAfterFree` | nobody frees a transfer in flight, nobody touches a freed one |
| | `CompletedOnce` (action) | a transfer is completed once, and is "timed out" only after its timeout, whoever looked at the timeouts |
| | `Returns` (liveness) | every call with a timeout returns, though no device answers and no other thread handles events |
| `usb_deadlock` | `Returns` | violated: see the findings |
| `usb_urbs` | `ReportedWhenAllBack` | the user hears of the end when no URB is left with the kernel |
| | `NothingLost` | what is reported is all the device sent, in order, closed over the holes of short URBs |
| | `CompletedMeansData` | "completed" is never said of a transfer cut short by refusals, discards or faults (but for a refused continuation, EREMOTEIO) |
| | `TransferEnds` (liveness) | every transfer is reported |
| `usbfs_stall` | `ReportedWhenAllBack` | violated: see the findings |

**Bounds.** Two callers (one to handle events, one to wait), one that opens; the setups
are a transfer without a timeout beside an open and a close and a refused transfer; a failure of
event handling; no timerfd. URBs of 2 bytes, transfers of 5 and 7: three and four URBs, the
last one shorter. **Fairness.** Threads are scheduled and time passes; no device need
answer. `Returns` is not asked of calls without a timeout.

### 2.7 Devices, configurations and handles of libusb

* **UsbDevices**: the list of devices from `libusb_init` to `libusb_exit`, with the scan, the
  netlink monitor and its messages through the hotplug pipe, lists, handles, a callback.
  `RefsCounted`: every reference is given back once. `NoDangling`: nobody finds a freed device,
  except that the monitor takes a device off the list only after the message that may have it
  freed (core.c:587). `ListFollows` (liveness): when the bus rests the list is what is plugged in,
  but for addresses that changed between their scan and the end of `libusb_init`. `LeftTold`
  (liveness): who was told of an arrival is told of the departure. Two addresses, two plugs,
  a pipe of one message (so that it is full), two users of the default context.
* **UsbDescriptors**: `parse_configuration` and what it calls, and the packet sizes of an
  address. `ParsedIsDescribed`: class descriptors anywhere, endpoints announced and missing,
  and interfaces announced and missing do not shift what follows. All inputs of five
  descriptors.
* **UsbConfigs**: where a configuration is read from (sysfs, the device file, or the copy
  libusb keeps), in two reads, while another program changes it. `ValueIsFound`,
  `ActiveIsFound`: the one that was asked for, or one that was active during the call.
* **UsbHandles**: two threads with two handles claim, release, reset, detach, attach,
  configure, close. `ClaimedIsBound`: between the calls a handle takes for claimed what it has
  in the kernel, but for what a reset through another handle or a detach took away, what an own reset that
  failed may have lost, and what the kernel claimed by itself for an alternate setting (`HandlesAgree` of the run `programs`). The bound
  there is one interface, of one configuration of two, and one that neither has, so that the loops of a reset
  go on after the first; `UsbHandlesProofs` is for any number.

### 2.8 jansson and uthash

* **JsonHash** (`hashtable.c`): one list of all pairs and buckets that are two pointers into
  it; set, del, clear, rehash (also without memory) and an iterator. `FoundIsStored`,
  `IterationIsComplete`. Five keys, tables of 3 and 7 buckets, so that keys share buckets
  before and after the rehash.
* **JsonValue** (`value.c`): all calls on arrays and objects that take, give or keep a
  reference, on three blocks of memory. `RefcountIsExact`, `ArrayIsAsAsked`, also
  when an array or object comes to hold itself. One call forgets the reference it was given,
  `json_object_iter_set_new` without an iterator (value.c:245): `lost` counts these, and
  `RefcountIsExact` says that there are no others.
* **JsonText** (`load.c` lexer, `utf.c`, `strconv.c`, `dump.c`): all strings of three pieces, among them
  surrogates, overlong forms and controls; all numbers of five; reals in a locale with a
  comma. What is accepted is UTF-8 or a number of the grammar, and what is written is read
  back.
* **JsonParser** (`load.c`, `dump.c`): all texts of nine tokens, which has objects of two members;
  `ParsesTheGrammar` compares with the grammar of JSON, given as a set of documents, and
  `WrittenIsReadBack` with every flag of the dump.
* **JsonDump** (`dump.c`): all graphs of three nodes, an array and two objects, a callback that may
  refuse at any time, and a second dump. A key that the callback refuses is left out and not reported (dump.c:339,
  376), any other text is. `NothingLeftVisited`, `CircularIsFound`.
* **JsonPack** (`pack_unpack.c`): all formats of seven characters. `ArgsFollowFormat`,
  `PackedIsUnpacked`.

**UtHash** is `uthash.h`, in which `mboot_api.c` keeps its threads by name: the four pointers in
every element, as the macros set them, for addition, deletion, replacement, the expansion of the
buckets (and its end, `noexpand`) and the merge sort. `LinksAgree` (in `HashIsMap`) is what the
header's own `HASH_FSCK` checks under `HASH_DEBUG`, and that the list is in the order asked for
and every element is found. A bucket is expanded from its first element on, and not its tenth
(`HASH_BKT_CAPACITY_THRESH = 1`), so that six elements come past every branch of the
expansion; `MaxBuckets` bounds it, because with that value an empty bucket is enough to expand.

StatReport, UsbDescriptors, UsbConfigs, all of 2.8, McsFile and Crc16 are one run, `parts`
(**MCParts**): one variable for each place, and "part" says which one runs. Among them are modules with RECURSIVE
operators, where the code recurses over trees, which is why they are not parts of Programs.

**Deadlock** checking is off in all runs: what is modelled may come to its end.

### 2.9 Findings, and limits of the code

The five runs that end in a violation are the findings of PROJECT.json: the path freed
while the other thread needs it (`mboot_path_race`), `-c 1` that turns the direction of writing
(`lcd_control`), two locks taken in both orders (`usb_deadlock`), a stall that is reported before
all URBs are back (`usbfs_stall`), and a log of the core test that is overwritten where the README
says it is appended to (`coretest_log`: two AUCs, and the reports of the first are gone).

Seen while reading, and without a run of their own; where a property would fail for one of
these its statement names the exception:

* `mm-tools`: an upgrade that is killed between the erase of the firmware and that of the info record leaves
  the old record on an erased firmware (2.1). `auc_getcounts` returns 1 when `libusb_init` fails, and the callers then
  open a device that is not there. An image longer than the firmware area is programmed over
  the configuration. `mboot_mcs_file` never looks for the end of the file, writes the data of a
  record again after an empty line, drops records of 128 bytes and more where `char` has a sign,
  takes a 16 byte record at ff80 of any segment for the info record when the digits are lower case,
  and recognises neither the info nor the type record when they are upper case. With
  `--enable-soft-crc` the CRC of an image (mboot_api.c:443, one call for each byte) is another
  than with the table: `crc16_soft.c` puts two zeros behind the data of every call.
* `lcd-tools`: `IIC_LCD_ADDR` is only read by `lcd_init`, so that `-s` in a later process writes to
  address 39 whatever the display has; a third line of text goes to rows a panel of two does not have
  (lcd.c:160).
* `farm-manager`: the TypeError of 2.5; rtac reruns a list from its first command, and says nothing of
  a host when the last connection is lost; `read_until` has no timeout; `chkerr.py` keeps values of
  an earlier device when the old log does not have the device (`ReportsAreTrue` is of miners that
  kept their place), and divides by zero when no module of a miner has done a work (chkerr.py:125),
  so that this report is neither logged nor sent; a miner that is dead in one report has its blocks
  counted again in the next; blocks of a report that was logged and whose mail failed are never told
  of; a log that was cut off stops every report after it.
* `libusb`: `sysfs_get_active_config_descriptor` does not close its file when a read fails; values of
  configurations from 100 on do not fit its buffer; a failed reset leaves bits of claims behind;
  detaching a kernel driver also takes the claim of another handle; `libusb_get_max_packet_size` keeps the
  configuration when there is no such endpoint; `op_init` returns with `hotplug_lock` held when the
  monitor does not start; messages that a device left, still in the pipe at `libusb_exit`, keep the
  device for ever; when event handling fails a second time, in the loop that waits for the
  cancellation, a synchronous call frees a transfer that is still active (sync.c:111-113 for
  control, 188-190 for bulk: the reason for the hypothesis of three theorems below); EREMOTEIO of a continuation is taken for a short read.
* `jansson`: a rehash without memory leaves a table without buckets; `hashtable_set` rehashes before it
  looks for the key, so that setting an existing key inside `json_object_foreach` can reorder
  the list; `json_object_iter_set_new` without an iterator does not give its reference back;
  an array or object can come to hold itself (`json_array_extend`, `json_object_iter_set_new`), which
  a deep copy follows for ever; `json_object_update` stops half way when the object is itself a value;
  a failing `O` keeps the references taken before; there is no limit of depth; an optional key that the
  object does not have counts as accessed in a strict unpack (pack_unpack.c:418), which can so leave
  another item unread, though the comment at line 344 says that counting keys is not enough.

### 2.10 Not modelled

* The other systems libusb can be built for (`windows_usb.c`, `darwin_usb.c`, `openbsd_usb.c`): the
  tools run on openwrt and on the Raspberry Pi, and these files are not compiled there.
  Neither are strings, the BOS and streams of memory errors.
* Of `farm-manager`: `chkrate.py` and the messages of `chkerr.py` about rates, temperatures, fans
  and voltages (comparisons of fields the models leave out), the options of `statreport.py` (a
  straight run for each set), plots and pages (but that they may raise between the log and the mail).
* `cgminer-patches`: a driver for a program that is not in the tree; what calls it, and what it
  calls, could only be guessed. `fake-avalon`, `calc_prepare`, the power meters, and the bench and build
  scripts: made-up results, arithmetic of one hash, three tries of a request, straight lines.
* `HASH_SELECT` and the Bloom filter of uthash, which `mm-tools` does not use, and its hash functions.
* Input and output of jansson through files and callbacks, indentation and error texts.
* `mm_send_upgrade_info`, `mreboot` and `set_radiator_mode` of `mm-tools`; the levels of SCL
  and SDA inside a byte of `lcd-tools`.

## 3. Proofs

TLC checks small instances; TLAPS proves for every value of the constants: every
layout that satisfies `LayoutAssumption`, every image, any number of modules, drivers, threads,
devices, URBs, faults and runs. Each module below extends the module it is about, and has
one inductive invariant, a conjunction of named parts; TLC checked it on the instances of
the runs before it was proved.

**The upgrade.**

All of it is in `MbootUpgradeProofs`, in this order.

* The arithmetic of the erase loop. `EraseStepExact`: each erase command of
  `flash_fast_erase` clears exactly the pages `addr .. addr + unit - 1`, all in
  the firmware area: erase commands round the address down to the unit, so the
  loop must stay aligned to the size it is in. The lemmas carry the argument:
  multiples add up and nest (`AddMod`, `TransMod`, `SizesNest`), the loop starts
  aligned (`StartAligned`) and each step leaves it aligned to the next size that
  will be used (`StepAligned`). `EraseEndsAtConfig`: when no size fits any more,
  addr is the end; the "mcs1 is not SPI_FLASH_SEC align" branch is dead.
* Types and the reserved pages. `TypeCorrect` (`TypeOK`) and `ReservedSafe`
  (`ReservedUntouched`) from `IInv == TypeOK /\ LoopInv /\ SpawnInv /\ ReservedInv`.
  `ReservedUntouched` alone is not inductive: what the flash does at a chip deselect
  depends on the frame it holds, so `ReservedInv` adds that the open frame is `Harmless`; page
  data would be a wild frame if there were no header before it, so it adds that
  a thread about to send page data finds a non-empty frame at a module that
  missed nothing (even if that frame was begun by an earlier run). That an erase
  is harmless needs `EraseStepExact`, hence that a thread in the erase loop is
  aligned: `LoopInv`. That a new thread starts at its first write needs that it
  was idle: `SpawnInv`. `WriteStep` joins the two halves of an `i2c_write`: the
  thread moves (`ThreadMoves`), and what it wrote reaches the modules
  (`DeliveredTo`, `ReceiveClean`).
* The joins and the promise. `AllJoined` (`DoneMeansJoined`) and `FirstOpens` (`FirstDriverHasFile`: the
  thread joined first never finds the path freed; the others may, which is `mboot_path_race`) follow from how far `mboot_finish` has come in the list of drivers (`JoinInv`).
  `InstalledWhenRebooted` (`RebootedInstalled`) is the promise of the tool. Its invariant says what
  a module that missed nothing has in its flash at every place of the thread that drives it
  (`FlashAt`), and in its chip at every write of a stage (`HeldAt`): an erase loop that did not stop short has
  cleared all below `pos`, the page loop has written all below it, and a restart finds the whole image with
  its record. The
  erase loop of a thread stops short only by a failed `i2c_write` of that thread, at its erase
  (`ErasesWhole`: an action property, `CutShort`); no alignment of the layout does it.
* The refinement. `CommitsWhole` (`CommitWhole`) and `Implements` (`ImplementsSwap`): every step is,
  for each module, a step of `FirmwareSwap` or leaves body and seal as they are. One lemma for each
  kind of command the flash executes maps it to wipe, break, fill or set.

**The programs around it.**

* `AucBusProofs`. `WellTyped`, `CrashIsCaused`, and `TransfersAreTrusted` (`OwnAnswerTaken` and `WriteReaches`), for any
  number of AUCs, packets of any number of chunks, faults and processes. The argument is about what is under way at
  an AUC, sent and not yet read. Types alone do not bound it: `DebtInv` counts one packet or answer for every fault and
  every process before, and one for the packet that waits. When the loop of `auc_init` has found the endpoint empty,
  nothing is under way there but the packet that waits (`SyncInv`), until a transfer slips; so the answer that is
  taken is the one of that packet (`FlightInv`). `FedInv` says how far an `i2c_write` has come at each AUC,
  which at its last step is all of them.
* `CoreTestProofs`. `WellTyped`, `TestedOneByOne` (`OneByOne`), `AllKeptWorking` (`KeptWorking`) and `ThisAucIsReported`
  (`ThisAucReported`), for any modules on any AUCs, with any number of failures. Well typed is more than it says: that
  `mm_detect` hands out no id for which `reportlist` has no place holds because each id below the next one is
  taken by a module of its own (`IdInv`), so that there are at most as many ids as modules. `KeptWorking`
  needs to know when each module was served last: `mm_test` goes through them in the order of
  their ids, so how long one was quiet is the number of modules between it and the one at hand
  (`QuietInv`, over the cardinality `Between`). That the next test starts on modules with nothing
  left to answer is `LeftInv`; what is written for an AUC is `ReportInv` and `FoundInv`.
* `UsbHandlesProofs`. `ClaimsAreBound` (`ClaimedIsBound`), for any threads, handles, interfaces and configurations. It
  speaks of handles no call is in. While a reset is in one, interfaces are claimed that the kernel has let go
  of; what saves it is that the reset will still come to them (`Returns`: it releases, or it claims again
  and has not passed the interface). `ReturnInv` says so of whatever is claimed and not bound, `BoundInv`
  that what is bound is claimed and of the active configuration, both but for what the kernel changed unasked.
* `ProgramsProofs` carries the three over to Programs, where the run checks them (`WellTyped`, `CrashIsCaused`,
  `TransfersAreTrusted`, `TestedInTurn`, `ThisAucIsReported`, `ClaimsAreBound`): a part steps as it does alone or not at all
  (`PartStays`). `HostsAreAccounted` (`HostsAccounted`) is proved here. Both `chkstat` and `rtac` take hosts off a queue
  that holds the last ones in order, and no two workers have the same (`StatQueue`, `StatOwned`,
  `RunQueue`, `RunOwned`). In chkstat what a worker has read so far is what its miner has answered, and what is stored
  is what it read (`StatAsked`, `StatStored`); so a row is true, and the table is made when all have ended. In rtac
  the commands that ran on a host end in those of the session under way (`RunAt`), each session begins with
  the first, and there were not more than tries; so when the last one was run, the whole list was.
  (It is the longest proof to check, about ten minutes.)

**libusb.**

* `UsbDevicesProofs`. `EveryRefCounted` (`RefsCounted`) and `FreedUnfound` (`NoDangling`, with its exception,
  the window of core.c:587-592), for any bus, any
  plugs, a pipe of any size and any users. The count is inductive only with what says
  who holds which reference: a message about a device that left is in one place only, with the monitor, in the pipe or with the
  handler, and there is only one (`LeaveInv`); what the monitor is at is on the list
  (`MonitorInv`); an arrival is told of before the departure (`ArrivedInv`).
* `UsbEventsProofs`. The state is well typed (`WellTyped`), `FdsFresh` (`NoStaleFds`), `FreedIsIdle`
  (`FreeNotActive`), `FreedIsLeft` (`NoUseAfterFree`), `CompletesOnce` (`CompletedOnce`), for any number of
  threads that transfer, open and close, and any timeouts. A step of a caller leaves the openers'
  counts alone, and the other way round, so the invariant is by component: the list has nobody twice (`ListInv`);
  who is inside a lock holds it (`LockInv`); a transfer is in the list from its submission to its
  completion, and with the kernel no longer than that (`LifeInv`); what a thread works at is
  its own to complete (`AtInv`); who counts as modifying the fds is on the way from the
  interrupt to the read of the pipe (`CountInv`, `FdsInv`, `PolledInv`). Three theorems suppose that event
  handling fails once at most (`errors <= 1`, `OneFailure`): a second failure, in the loop that
  waits for the cancellation, frees a transfer that is still active (2.9). The setups of the
  runs have one failure.
* `UsbUrbsProofs`. `EveryUrbBack` (`ReportedWhenAllBack`): a transfer is reported when no URB is left
  with the kernel. Two arguments meet. While `reap_action` is NORMAL, URBs are submitted, completed
  and reaped in order, so that the last one is the end (`OrderInv`); after that, the retired URBs are
  those handled and those never submitted (`CountInv`, with the cardinalities of `FiniteSetTheorems`), so that
  the last to come back is the end. In between, a fault that leaves `reap_action` NORMAL must leave
  nothing with the kernel: true when the device is gone, and when a chain is broken, and false for a stall without a chain,
  which is what `usbfs_stall` shows. `SetupsSound` leaves out just that. It also supposes that the
  packets of an iso transfer make one URB at least, because what a fold returns cannot be proved; TLC
  evaluated it for the setups of the run.

**Only model-checked, and why.**

* Liveness (`MbootEnds`, `Returns`, `TransferEnds`, `ListFollows`, `LeftTold`, `ProgramsEnd`) and
  whatever needs ENABLED: out of reach of the prover.
* `NothingLost` and `CompletedMeansData` of UsbUrbs speak of sums over URBs and packets, which are
  folds: induction over data.
* `JsonText`, `JsonValue`, `JsonParser`, `JsonDump` and `UtHash` recurse over trees, lists and texts
  with RECURSIVE operators, `Crc16` uses Bitwise; `JsonPack`, `UsbDescriptors` and `McsFile` compare what the
  code does in a loop with a definition by recursion or a fold, which takes induction over data.
* `ShownIsTrue`: the bytes of a program of lcd-tools are the concatenation over a string of any length
  (`FlattenSeq`), so the state of the display after n of them takes induction over the string.
* `ReportsAreTrue`: what `StatReport` says is folded over places and messages.
* `JsonHash` (a list that is rebuilt by a loop over it) and `UsbConfigs` (where a configuration begins in a file is a sum over those
  before it): the same.

**What the constants are assumed to be.** Besides the sizes being natural numbers: `FlashLayout` relates
the sizes of the flash as the `#define`s do, the images of `MbootUpgrade` are not empty and fit
(2.1); `chkstat` and `rtac` have a thread at least (chkstat starts as many as the configuration
says; with none, the table would be made of nothing); a test gives at least one answer before the summary, and
there are fewer modules than places of `reportlist` (64; place 0 is not used); the values for "no owner" and "the kernel driver" are no handles. TLC evaluates all of these in the runs.

## 4. Plan

1. *(done)* the upgrade: FlashLayout, SpiFlash, MbootUpgrade, FirmwareSwap.
2. *(done)* mm-tools: `CoreTest`, `AucBus`, `McsFile`, `Crc16`.
3. *(done)* lcd-tools: `LcdTools` on `Hd44780`.
4. *(done)* farm-manager: `ChkStat`, `Rtac`, `StatReport`. What is left there has no state between its steps.
5. *(done)* libusb: `UsbEvents`, `UsbUrbs`, `UsbDevices`, `UsbDescriptors`, `UsbConfigs`,
   `UsbHandles`; jansson: `JsonHash`, `JsonValue`, `JsonText`, `JsonParser`, `JsonDump`, `JsonPack`; uthash: `UtHash`.
6. *(done)* proofs of the upgrade, with its refinement, and of devices, events and URBs of libusb.
7. *(done)* proofs for every number of AUCs, modules, threads, hosts, handles and faults: `AucBus`, `CoreTest`,
   `ChkStat`, `Rtac`, `UsbHandles`, alone and in `Programs`.
8. Left to do, and what it takes: the hash table of jansson, with its two walks as recursive functions and lemmas on
   lists that are filtered; the other checks of `parts` need induction over data.
