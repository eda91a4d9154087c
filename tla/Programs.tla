------------------------------ MODULE Programs ------------------------------
(***************************************************************************)
(* Programs and those at their other end: the AUC driver and its converters, the core test *)
(* and its modules, lcd-tools and the display, the worker threads of chkstat and of rtac     *)
(* and the hosts, threads that use libusb and usbfs.  They do not meet: "part" says which one *)
(* runs, chosen once, and the variables of the others stay Unused.  What has one name in two *)
(* of them is one variable here.                                                           *)
(***************************************************************************)
EXTENDS Integers, Sequences, FiniteSets

CONSTANTS
  Attached, MaxChunks, MaxFaults, MaxRuns,                   \* AucBus
  AucCnts, Modules, AucOf, AVA4_DEFAULT_MODULARS, AVA4_DEFAULT_MINERS, Fake,   \* CoreTest
  MaxFailures,                                               \* MaxFaults of CoreTest
  Miners, Reports,                                           \* ChkStat
  Hosts, Commands,                                           \* Rtac
  Retry,                                                     \* both
  Handles, Interfaces, InterfacesOf, NoOwner,                   \* UsbHandles
  Threads,                                                   \* all three
  Strings, LcdAddr, EnvAddr, Controls, MaxKills, MaxCommands,  \* LcdTools
  Unused

VARIABLES
  part,
  pc, i, left, faults,
  half, auc_cnt, g_auc_cnts, opened, chunks, resp, ret, work, endp, slipped, fed, clean, run,
  auc, j, miner_index, reportlist, log, idOf, quiet,
  worker,
  miner_queue, data0, rows, main, asked,
  hostQueue, said, ran,
  cmd, wired, sdaIn, bus, lcd, ready, kills, runs,
  attached, active, bound, claimed_interfaces, lock, call, foreign

Auc  == INSTANCE AucBus
Core == INSTANCE CoreTest WITH MaxFaults <- MaxFailures
Stat == INSTANCE ChkStat
Run  == INSTANCE Rtac
Lcd  == INSTANCE LcdTools WITH MaxRuns <- MaxCommands
Hand == INSTANCE UsbHandles

ASSUME ProgramsAssumption ==
  /\ Auc!AucBusAssumption /\ Core!CoreTestAssumption
  /\ Stat!ChkStatAssumption /\ Run!RtacAssumption
  /\ Lcd!LcdAssumption /\ Hand!UsbHandlesAssumption

-----------------------------------------------------------------------------
\* What the AUC driver and the core test share, and what each part has alone; chkstat and
\* rtac share worker.  LcdTools has a pc too.
Tool      == <<i, left, faults>>
AucAlone  == <<half, auc_cnt, g_auc_cnts, opened, chunks, resp, ret, work, endp, slipped, fed,
               clean, run>>
CoreAlone == <<auc, j, miner_index, reportlist, log, idOf, quiet>>
StatAlone == <<miner_queue, data0, rows, main, asked>>
RunAlone  == <<hostQueue, said, ran>>
LcdAlone  == <<cmd, wired, sdaIn, bus, lcd, ready, kills, runs>>
HandAlone == <<attached, active, bound, claimed_interfaces, lock, call, foreign>>

allvars ==
  <<part, pc, Tool, AucAlone, CoreAlone, worker, StatAlone, RunAlone, LcdAlone, HandAlone>>

NoTool == i = Unused /\ left = Unused /\ faults = Unused
NoAuc ==
  /\ half = Unused /\ auc_cnt = Unused /\ g_auc_cnts = Unused /\ opened = Unused /\ chunks = Unused
  /\ resp = Unused /\ ret = Unused /\ work = Unused /\ endp = Unused /\ slipped = Unused
  /\ fed = Unused /\ clean = Unused /\ run = Unused
NoCore ==
  /\ auc = Unused /\ j = Unused /\ miner_index = Unused /\ reportlist = Unused /\ log = Unused
  /\ idOf = Unused /\ quiet = Unused
NoMm == NoTool /\ NoAuc /\ NoCore
NoStat == miner_queue = Unused /\ data0 = Unused /\ rows = Unused /\ main = Unused /\ asked = Unused
NoRun == hostQueue = Unused /\ said = Unused /\ ran = Unused
NoFarm == worker = Unused /\ NoStat /\ NoRun
NoLcd ==
  /\ cmd = Unused /\ wired = Unused /\ sdaIn = Unused /\ bus = Unused /\ lcd = Unused
  /\ ready = Unused /\ kills = Unused /\ runs = Unused
NoHand ==
  /\ attached = Unused /\ active = Unused /\ bound = Unused /\ claimed_interfaces = Unused
  /\ lock = Unused /\ call = Unused /\ foreign = Unused

Init ==
  \/ part = "auc" /\ Auc!Init /\ NoCore /\ NoFarm /\ NoLcd /\ NoHand
  \/ part = "core" /\ Core!Init /\ NoAuc /\ NoFarm /\ NoLcd /\ NoHand
  \/ part = "chkstat" /\ Stat!Init /\ pc = Unused /\ NoMm /\ NoRun /\ NoLcd /\ NoHand
  \/ /\ part = "rtac" /\ Run!Init
     /\ pc = Unused /\ NoMm /\ NoStat /\ NoLcd /\ NoHand
  \/ part = "lcd" /\ Lcd!Init /\ NoMm /\ NoFarm /\ NoHand
  \/ /\ part = "handles" /\ Hand!Init
     /\ pc = Unused /\ NoMm /\ NoFarm /\ NoLcd

\* What a step of each part leaves alone.
MmRest   == UNCHANGED <<part, worker, StatAlone, RunAlone, LcdAlone, HandAlone>>
FarmRest == UNCHANGED <<part, pc, Tool, AucAlone, CoreAlone, LcdAlone, HandAlone>>
AucRest  == UNCHANGED CoreAlone /\ MmRest
CoreRest == UNCHANGED AucAlone /\ MmRest
StatRest == UNCHANGED RunAlone /\ FarmRest
RunRest  == UNCHANGED StatAlone /\ FarmRest
LcdRest  == UNCHANGED <<part, Tool, AucAlone, CoreAlone, worker, StatAlone, RunAlone, HandAlone>>
HandRest ==
  UNCHANGED <<part, pc, Tool, AucAlone, CoreAlone, worker, StatAlone, RunAlone, LcdAlone>>

Next ==
  \/ part = "auc" /\ Auc!Next /\ AucRest
  \/ part = "core" /\ Core!Next /\ CoreRest
  \/ part = "chkstat" /\ Stat!Next /\ StatRest
  \/ part = "rtac" /\ Run!Next /\ RunRest
  \/ part = "lcd" /\ Lcd!Next /\ LcdRest
  \/ part = "handles" /\ Hand!Next /\ HandRest

Spec == Init /\ [][Next]_allvars

\* The fairness of each part, as its FairSpec has it.
FairSpec ==
  /\ Spec
  /\ WF_allvars(part = "auc" /\ (Auc!i2c_open \/ Auc!usb_transfer) /\ AucRest)
  /\ \A a \in Auc!Aucs : WF_allvars(part = "auc" /\ Auc!Answer(a) /\ AucRest)
  /\ WF_allvars(part = "core" /\ Core!Next /\ CoreRest)
  /\ SF_allvars(part = "core" /\ Core!TestAnswered /\ CoreRest)
  /\ \A t \in Threads : /\ WF_allvars(part = "chkstat" /\ Stat!Worker(t) /\ StatRest)
                        /\ WF_allvars(part = "rtac" /\ Run!Worker(t) /\ RunRest)
  /\ WF_allvars(part = "chkstat" /\ (Stat!Join \/ Stat!Analyze) /\ StatRest)

-----------------------------------------------------------------------------
\* auc.c, mm_api.c: the state of each program has its type.
TypeOK == (part = "auc" => Auc!TypeOK) /\ (part = "core" => Core!TypeOK)

\* auc.c: the driver dereferences NULL only after a failure.
CrashHasCause == part = "auc" => Auc!CrashHasCause

\* auc.c, usb_transfer: an answer is taken for the packet it answers; iic_auc.c, i2c_write:
\* what worked has reached every AUC.
TransfersTrusted == [][part = "auc" => Auc!OwnAnswerTaken /\ Auc!WriteReaches]_allvars

\* mm_api.c, mm_test: tests run one after the other, and the modules that are not under test
\* are kept working.
TestsInTurn == part = "core" => Core!OneByOne /\ Core!KeptWorking

\* mm_api.c, mm_corereport: a report is of the modules of this AUC.
ReportsThisAuc == [][part = "core" => Core!ThisAucReported]_allvars

\* chkstat.py, rtacThread.py: no host is forgotten, asked twice or told a lie about.
HostsAccounted ==
  (part = "chkstat" => Stat!TableIsTrue) /\ (part = "rtac" => Run!CommandsInOrder)

\* lcd.c, lcd_init: -i recovers the display from any state; main.c, display: -s shows its
\* string.
ShownIsTrue == part = "lcd" => Lcd!TypeOK /\ Lcd!InitRecovers /\ Lcd!StringShown

\* libusb, core.c and linux_usbfs.c: what a handle takes for claimed.
HandlesAgree == part = "handles" => Hand!ClaimedIsBound

\* auc.c, auc_init: its loop and the calls around it end; mm_api.c, mm_coretest: it ends if
\* nothing is lost; chkstat.py and rtac.py: they end.
ProgramsEnd ==
  /\ (part = "auc" /\ Auc!Calling) ~> (part # "auc" \/ Auc!Returned)
  /\ <>(part # "core" \/ Core!Ended)
  /\ <>(part # "chkstat" \/ Stat!Ended)
  /\ <>(part # "rtac" \/ Run!Ended)
=============================================================================
