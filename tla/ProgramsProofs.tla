------------------------------ MODULE ProgramsProofs ------------------------------
(***************************************************************************)
(* Proofs about Programs, for every value of its constants: what AucBusProofs,          *)
(* CoreTestProofs and UsbHandlesProofs show holds in the composition, and no host is      *)
(* forgotten, asked twice or told a lie about by the worker threads of chkstat and rtac.  *)
(***************************************************************************)
EXTENDS Programs, FiniteSetTheorems, SequenceTheorems, TLAPS

AucP  == INSTANCE AucBusProofs
CoreP == INSTANCE CoreTestProofs WITH MaxFaults <- MaxFailures
HandP == INSTANCE UsbHandlesProofs

-----------------------------------------------------------------------------
\* The AUC driver, here and where it is proved about.
LEMMA AucIsAuc ==
  /\ Auc!AucBusAssumption => AucP!AucBusAssumption
  /\ Auc!Init => AucP!Init
  /\ AucP!TypeOK => Auc!TypeOK
  /\ AucP!CrashHasCause => Auc!CrashHasCause
<1>1. Auc!AucBusAssumption => AucP!AucBusAssumption
  BY Zenon DEF Auc!AucBusAssumption, AucP!AucBusAssumption
<1>2. Auc!Init => AucP!Init
  BY Zenon DEF Auc!Init, AucP!Init, Auc!Aucs, AucP!Aucs
<1>3. AucP!TypeOK => Auc!TypeOK
  BY Zenon DEF Auc!TypeOK, AucP!TypeOK, Auc!Aucs, AucP!Aucs, Auc!Requests, AucP!Requests, Auc!Codes, AucP!Codes
<1>4. AucP!CrashHasCause => Auc!CrashHasCause
  BY Zenon DEF Auc!CrashHasCause, AucP!CrashHasCause, Auc!Aucs, AucP!Aucs
<1> QED
  BY <1>1, <1>2, <1>3, <1>4

LEMMA AucTransfers ==
  /\ Auc!UsbOut => AucP!UsbOut
  /\ Auc!NoHandle => AucP!NoHandle
  /\ Auc!UsbIn <=> AucP!UsbIn
  /\ Auc!UsbTimeout => AucP!UsbTimeout
<1> USE DEF Auc!Done, Auc!auc_xfer, Auc!NextAuc, Auc!Accepted, Auc!AfterDrain, Auc!AfterDeinit,
      Auc!Fault, Auc!HasBody, Auc!None, Auc!Requests, Auc!call, Auc!device, Auc!host,
      AucP!Done, AucP!auc_xfer, AucP!NextAuc, AucP!Accepted, AucP!AfterDrain, AucP!AfterDeinit,
      AucP!Fault, AucP!HasBody, AucP!None, AucP!Requests, AucP!call, AucP!device, AucP!host
<1>1. Auc!UsbOut => AucP!UsbOut
  BY Zenon DEF Auc!UsbOut, Auc!Disown, AucP!UsbOut, AucP!Disown
<1>2. Auc!NoHandle => AucP!NoHandle
  BY Zenon DEF Auc!NoHandle, AucP!NoHandle
<1>3. Auc!UsbIn <=> AucP!UsbIn
  BY Zenon DEF Auc!UsbIn, Auc!Fits, Auc!Slip, AucP!UsbIn, AucP!Fits, AucP!Slip
<1>4. Auc!UsbTimeout => AucP!UsbTimeout
  BY Zenon DEF Auc!UsbTimeout, Auc!Slip, AucP!UsbTimeout, AucP!Slip
<1> QED
  BY <1>1, <1>2, <1>3, <1>4

LEMMA AucSteps == Auc!Next => AucP!Next
<1> USE DEF Auc!Requests, Auc!Codes, Auc!Fault, Auc!Alive, Auc!call, Auc!device, Auc!host, Auc!Aucs,
      AucP!Requests, AucP!Codes, AucP!Fault, AucP!Alive, AucP!call, AucP!device, AucP!host, AucP!Aucs
<1>1. Auc!i2c_open => AucP!i2c_open
  BY Zenon DEF Auc!i2c_open, Auc!auc_getcounts, Auc!auc_open, Auc!Opened,
               AucP!i2c_open, AucP!auc_getcounts, AucP!auc_open, AucP!Opened
<1>2. (Auc!i2c_write => AucP!i2c_write) /\ (Auc!i2c_read => AucP!i2c_read) /\ (Auc!i2c_close => AucP!i2c_close)
  BY Zenon DEF Auc!i2c_write, Auc!i2c_read, Auc!Start, Auc!i2c_close,
               AucP!i2c_write, AucP!i2c_read, AucP!Start, AucP!i2c_close
<1>3. Auc!usb_transfer => AucP!usb_transfer
  BY AucTransfers, Zenon DEF Auc!usb_transfer, AucP!usb_transfer
<1>4. (\E a \in Auc!Aucs : Auc!Answer(a)) => \E a \in AucP!Aucs : AucP!Answer(a)
  BY Zenon DEF Auc!Answer, AucP!Answer
<1>5. (Auc!Kill => AucP!Kill) /\ (Auc!Rerun => AucP!Rerun)
  BY Zenon DEF Auc!Kill, Auc!Rerun, AucP!Kill, AucP!Rerun
<1> QED
  BY <1>1, <1>2, <1>3, <1>4, <1>5, Zenon DEF Auc!Next, AucP!Next

LEMMA AucTrust ==
  AucP!OwnAnswerTaken /\ AucP!WriteReaches => Auc!OwnAnswerTaken /\ Auc!WriteReaches
BY AucTransfers, Zenon DEF Auc!OwnAnswerTaken, Auc!WriteReaches, Auc!Aucs,
                           AucP!OwnAnswerTaken, AucP!WriteReaches, AucP!Aucs

\* The core test, here and where it is proved about.
LEMMA CoreIsCore ==
  /\ Core!CoreTestAssumption => CoreP!CoreTestAssumption
  /\ Core!Init => CoreP!Init
  /\ CoreP!TypeOK => Core!TypeOK
  /\ CoreP!OneByOne => Core!OneByOne
  /\ CoreP!KeptWorking => Core!KeptWorking
  /\ CoreP!ThisAucReported => Core!ThisAucReported
<1> USE DEF Core!MM, Core!Nobody, Core!Cleared, Core!Entries, Core!Testing, Core!Enabled, Core!Written,
      CoreP!MM, CoreP!Nobody, CoreP!Cleared, CoreP!Entries, CoreP!Testing, CoreP!Enabled, CoreP!Written
<1>1. Core!CoreTestAssumption => CoreP!CoreTestAssumption
  BY Zenon DEF Core!CoreTestAssumption, Core!IsFiniteSet, Core!Cardinality,
               CoreP!CoreTestAssumption, CoreP!IsFiniteSet, CoreP!Cardinality
<1>2. Core!Init => CoreP!Init
  BY Zenon DEF Core!Init, CoreP!Init
<1>3. CoreP!TypeOK => Core!TypeOK
  BY Zenon DEF Core!TypeOK, CoreP!TypeOK
<1>4. (CoreP!OneByOne => Core!OneByOne) /\ (CoreP!KeptWorking => Core!KeptWorking)
  BY Zenon DEF Core!OneByOne, Core!KeptWorking, Core!Cardinality,
               CoreP!OneByOne, CoreP!KeptWorking, CoreP!Cardinality
<1>5. CoreP!ThisAucReported => Core!ThisAucReported
  BY Zenon DEF Core!ThisAucReported, CoreP!ThisAucReported
<1> QED
  BY <1>1, <1>2, <1>3, <1>4, <1>5

LEMMA CoreSteps == Core!Next => CoreP!Next
<1> USE DEF Core!MM, Core!Nobody, Core!Cleared, Core!Invented, Core!Enabled, Core!FirstFrom, Core!Addressed,
      Core!Fault, Core!Hears, Core!Written, Core!deviceVars,
      CoreP!MM, CoreP!Nobody, CoreP!Cleared, CoreP!Invented, CoreP!Enabled, CoreP!FirstFrom, CoreP!Addressed,
      CoreP!Fault, CoreP!Hears, CoreP!Written, CoreP!deviceVars
<1>1. /\ Core!jansson_test => CoreP!jansson_test
      /\ Core!Open => CoreP!Open
      /\ Core!Return => CoreP!Return
      /\ Core!Report => CoreP!Report
  BY Zenon DEF Core!jansson_test, Core!Open, Core!Return, Core!Report,
               CoreP!jansson_test, CoreP!Open, CoreP!Return, CoreP!Report
<1>2. (Core!DetectSend => CoreP!DetectSend) /\ (Core!DetectReceive => CoreP!DetectReceive)
  BY Zenon DEF Core!DetectSend, Core!DetectReceive, Core!StartTest,
               CoreP!DetectSend, CoreP!DetectReceive, CoreP!StartTest
<1>3. (Core!TestSend => CoreP!TestSend) /\ (Core!KeepAlive => CoreP!KeepAlive)
  BY Zenon DEF Core!TestSend, Core!KeepAlive, Core!Others, CoreP!TestSend, CoreP!KeepAlive, CoreP!Others
<1>4. (Core!TestAnswered => CoreP!TestAnswered) /\ (Core!TestSilent => CoreP!TestSilent)
  BY Zenon DEF Core!TestAnswered, Core!TestSilent, Core!Owing, Core!AfterReceive, Core!Complete, Core!Others,
               CoreP!TestAnswered, CoreP!TestSilent, CoreP!Owing, CoreP!AfterReceive, CoreP!Complete, CoreP!Others
<1> QED
  BY <1>1, <1>2, <1>3, <1>4, Zenon DEF Core!Next, CoreP!Next

\* The handles of libusb, here and where they are proved about.
LEMMA HandIsHand ==
  /\ Hand!UsbHandlesAssumption => HandP!UsbHandlesAssumption
  /\ Hand!Init => HandP!Init
  /\ HandP!ClaimedIsBound => Hand!ClaimedIsBound
<1>1. Hand!UsbHandlesAssumption => HandP!UsbHandlesAssumption
  BY Zenon DEF Hand!UsbHandlesAssumption, Hand!IsFiniteSet, Hand!Cardinality,
               HandP!UsbHandlesAssumption, HandP!IsFiniteSet, HandP!Cardinality
<1>2. Hand!Init => HandP!Init
  BY Zenon DEF Hand!Init, Hand!Idle, HandP!Init, HandP!Idle
<1>3. HandP!ClaimedIsBound => Hand!ClaimedIsBound
  BY Zenon DEF Hand!ClaimedIsBound, HandP!ClaimedIsBound
<1> QED
  BY <1>1, <1>2, <1>3

LEMMA HandSteps == Hand!Next => HandP!Next
<1> USE DEF Hand!Idle, Hand!Free, Hand!Claimable, Hand!Releasable,
      HandP!Idle, HandP!Free, HandP!Claimable, HandP!Releasable
<1>1. ASSUME NEW t \in Threads, NEW h \in Handles, NEW k \in Interfaces
      PROVE  /\ Hand!libusb_claim_interface(t, h, k) => HandP!libusb_claim_interface(t, h, k)
             /\ Hand!libusb_release_interface(t, h, k) => HandP!libusb_release_interface(t, h, k)
             /\ Hand!libusb_set_interface_alt_setting(t, h, k)
                => HandP!libusb_set_interface_alt_setting(t, h, k)
  BY Zenon DEF Hand!libusb_claim_interface, Hand!libusb_release_interface,
               Hand!libusb_set_interface_alt_setting, HandP!libusb_claim_interface,
               HandP!libusb_release_interface, HandP!libusb_set_interface_alt_setting
<1>2. ASSUME NEW t \in Threads, NEW h \in Handles
      PROVE  Hand!libusb_reset_device(t, h) => HandP!libusb_reset_device(t, h)
  BY Zenon DEF Hand!libusb_reset_device, HandP!libusb_reset_device
<1>3. ASSUME NEW t \in Threads
      PROVE  /\ Hand!op_set_interface(t) => HandP!op_set_interface(t)
             /\ Hand!reset_release(t) => HandP!reset_release(t)
             /\ Hand!reset_done(t) => HandP!reset_done(t)
  BY Zenon DEF Hand!op_set_interface, Hand!reset_release, Hand!reset_done,
               HandP!op_set_interface, HandP!reset_release, HandP!reset_done
<1>4. ASSUME NEW t \in Threads
      PROVE  /\ Hand!op_reset_device(t) => HandP!op_reset_device(t)
             /\ Hand!reset_reclaim(t) => HandP!reset_reclaim(t)
  BY Zenon DEF Hand!op_reset_device, Hand!Losers, Hand!reset_reclaim, Hand!NotReclaimed,
               HandP!op_reset_device, HandP!Losers, HandP!reset_reclaim, HandP!NotReclaimed
<1>5. ASSUME NEW k \in Interfaces
      PROVE  /\ Hand!libusb_detach_kernel_driver(k) => HandP!libusb_detach_kernel_driver(k)
             /\ Hand!libusb_attach_kernel_driver(k) => HandP!libusb_attach_kernel_driver(k)
  BY Zenon DEF Hand!libusb_detach_kernel_driver, Hand!libusb_attach_kernel_driver,
               HandP!libusb_detach_kernel_driver, HandP!libusb_attach_kernel_driver
<1>6. /\ Hand!libusb_set_configuration => HandP!libusb_set_configuration
      /\ \A h \in Handles : Hand!libusb_close(h) => HandP!libusb_close(h)
      /\ Hand!Unplug => HandP!Unplug
  BY Zenon DEF Hand!libusb_set_configuration, Hand!libusb_close, Hand!Unplug,
               HandP!libusb_set_configuration, HandP!libusb_close, HandP!Unplug
<1> QED
  BY <1>1, <1>2, <1>3, <1>4, <1>5, <1>6, Zenon DEF Hand!Next, HandP!Next

-----------------------------------------------------------------------------
\* In the composition a part runs as it does alone, or not at all.
LEMMA PartStays ==
  ASSUME [Next]_allvars
  PROVE  /\ part' = part
         /\ part = "auc" => Auc!Next \/ UNCHANGED allvars
         /\ part = "core" => Core!Next \/ UNCHANGED allvars
         /\ part = "chkstat" => Stat!Next \/ UNCHANGED allvars
         /\ part = "rtac" => Run!Next \/ UNCHANGED allvars
         /\ part = "handles" => Hand!Next \/ UNCHANGED allvars
<1>1. CASE UNCHANGED allvars
  BY <1>1 DEF allvars
<1>2. CASE part = "auc" /\ Auc!Next /\ AucRest
  BY <1>2 DEF AucRest, MmRest
<1>3. CASE part = "core" /\ Core!Next /\ CoreRest
  BY <1>3 DEF CoreRest, MmRest
<1>4. CASE part = "chkstat" /\ Stat!Next /\ StatRest
  BY <1>4 DEF StatRest, FarmRest
<1>5. CASE part = "rtac" /\ Run!Next /\ RunRest
  BY <1>5 DEF RunRest, FarmRest
<1>6. CASE part = "lcd" /\ Lcd!Next /\ LcdRest
  BY <1>6 DEF LcdRest
<1>7. CASE part = "handles" /\ Hand!Next /\ HandRest
  BY <1>7 DEF HandRest
<1> QED
  BY <1>1, <1>2, <1>3, <1>4, <1>5, <1>6, <1>7 DEF Next

AucInv  == part = "auc" => AucP!IInv
CoreInv == part = "core" => CoreP!IInv
HandInv == part = "handles" => HandP!IInv

\* The AUC driver.
LEMMA AucHolds ==
  /\ Init => AucInv
  /\ AucInv /\ [Next]_allvars => AucInv'
  /\ AucInv => (part = "auc" => Auc!TypeOK) /\ CrashHasCause
  /\ AucInv /\ [Next]_allvars => (part = "auc" => Auc!OwnAnswerTaken /\ Auc!WriteReaches)
<1>0. AucP!AucBusAssumption
  BY ProgramsAssumption, AucIsAuc
<1>1. Init => AucInv
  <2> SUFFICES ASSUME Init, part = "auc" PROVE AucP!IInv
    BY DEF AucInv
  <2>1. Auc!Init
    BY DEF Init
  <2> QED
    BY <1>0, <2>1, AucIsAuc, AucP!Initially
<1>2. ASSUME AucInv, [Next]_allvars, part = "auc"
      PROVE  AucP!IInv /\ [AucP!Next]_(AucP!vars)
  <2>1. AucP!IInv
    BY <1>2 DEF AucInv
  <2>2. CASE Auc!Next
    BY <2>1, <2>2, AucSteps
  <2>3. CASE UNCHANGED allvars
    BY <2>1, <2>3 DEF allvars, Tool, AucAlone, AucP!vars, AucP!host, AucP!call, AucP!device
  <2> QED
    BY <1>2, <2>2, <2>3, PartStays
<1>3. AucInv /\ [Next]_allvars => AucInv'
  <2> SUFFICES ASSUME AucInv, [Next]_allvars, part' = "auc" PROVE AucP!IInv'
    BY DEF AucInv
  <2>1. part = "auc"
    BY PartStays
  <2>2. AucP!IInv /\ [AucP!Next]_(AucP!vars)
    BY <1>2, <2>1
  <2> QED
    BY <1>0, <2>2, AucP!Preserved
<1>4. ASSUME AucInv
      PROVE  (part = "auc" => Auc!TypeOK) /\ CrashHasCause
  <2> SUFFICES ASSUME part = "auc" PROVE Auc!TypeOK /\ Auc!CrashHasCause
    BY DEF CrashHasCause
  <2>1. AucP!IInv
    BY <1>4 DEF AucInv
  <2>2. AucP!TypeOK
    BY <1>0, <2>1, AucP!Typed
  <2>3. AucP!CrashHasCause
    BY <2>1 DEF AucP!IInv
  <2> QED
    BY <2>2, <2>3, AucIsAuc
<1>5. ASSUME AucInv, [Next]_allvars, part = "auc"
      PROVE  Auc!OwnAnswerTaken /\ Auc!WriteReaches
  <2>1. AucP!OwnAnswerTaken /\ AucP!WriteReaches
    BY <1>0, <1>2, <1>5, AucP!Trusted
  <2> QED
    BY <2>1, AucTrust
<1> QED
  BY <1>1, <1>3, <1>4, <1>5

\* The core test.
LEMMA CoreHolds ==
  /\ Init => CoreInv
  /\ CoreInv /\ [Next]_allvars => CoreInv'
  /\ CoreInv => (part = "core" => Core!TypeOK) /\ TestsInTurn
  /\ CoreInv /\ [Next]_allvars => (part = "core" => Core!ThisAucReported)
<1>0. CoreP!CoreTestAssumption
  BY ProgramsAssumption, CoreIsCore
<1>1. Init => CoreInv
  <2> SUFFICES ASSUME Init, part = "core" PROVE CoreP!IInv
    BY DEF CoreInv
  <2>1. Core!Init
    BY DEF Init
  <2> QED
    BY <1>0, <2>1, CoreIsCore, CoreP!Initially
<1>2. ASSUME CoreInv, [Next]_allvars, part = "core"
      PROVE  CoreP!IInv /\ [CoreP!Next]_(CoreP!vars)
  <2>1. CoreP!IInv
    BY <1>2 DEF CoreInv
  <2>2. CASE Core!Next
    BY <2>1, <2>2, CoreSteps
  <2>3. CASE UNCHANGED allvars
    BY <2>1, <2>3 DEF allvars, Tool, CoreAlone, CoreP!vars, CoreP!toolVars, CoreP!deviceVars
  <2> QED
    BY <1>2, <2>2, <2>3, PartStays
<1>3. CoreInv /\ [Next]_allvars => CoreInv'
  <2> SUFFICES ASSUME CoreInv, [Next]_allvars, part' = "core" PROVE CoreP!IInv'
    BY DEF CoreInv
  <2>1. part = "core"
    BY PartStays
  <2>2. CoreP!IInv /\ [CoreP!Next]_(CoreP!vars)
    BY <1>2, <2>1
  <2> QED
    BY <1>0, <2>2, CoreP!Preserved
<1>4. ASSUME CoreInv
      PROVE  (part = "core" => Core!TypeOK) /\ TestsInTurn
  <2> SUFFICES ASSUME part = "core" PROVE Core!TypeOK /\ Core!OneByOne /\ Core!KeptWorking
    BY DEF TestsInTurn
  <2>1. CoreP!IInv
    BY <1>4 DEF CoreInv
  <2>2. CoreP!TypeOK
    BY <2>1 DEF CoreP!IInv
  <2>3. CoreP!OneByOne /\ CoreP!KeptWorking
    BY <1>0, <2>1, CoreP!OneAtATime, CoreP!NoneForgotten
  <2> QED
    BY <2>2, <2>3, CoreIsCore
<1>5. ASSUME CoreInv, [Next]_allvars, part = "core"
      PROVE  Core!ThisAucReported
  <2>1. CoreP!ThisAucReported
    BY <1>0, <1>2, <1>5, CoreP!Reported
  <2> QED
    BY <2>1, CoreIsCore
<1> QED
  BY <1>1, <1>3, <1>4, <1>5

\* The handles of libusb.
LEMMA HandHolds ==
  /\ Init => HandInv
  /\ HandInv /\ [Next]_allvars => HandInv'
  /\ HandInv => HandlesAgree
<1>0. HandP!UsbHandlesAssumption
  BY ProgramsAssumption, HandIsHand
<1>1. Init => HandInv
  <2> SUFFICES ASSUME Init, part = "handles" PROVE HandP!IInv
    BY DEF HandInv
  <2>1. Hand!Init
    BY DEF Init
  <2> QED
    BY <1>0, <2>1, HandIsHand, HandP!Initially
<1>2. HandInv /\ [Next]_allvars => HandInv'
  <2> SUFFICES ASSUME HandInv, [Next]_allvars, part' = "handles" PROVE HandP!IInv'
    BY DEF HandInv
  <2>1. part = "handles"
    BY PartStays
  <2>2. HandP!IInv
    BY <2>1 DEF HandInv
  <2>3. CASE Hand!Next
    BY <1>0, <2>2, <2>3, HandSteps, HandP!Preserved
  <2>4. CASE UNCHANGED allvars
    <3>1. UNCHANGED HandP!nvars
      BY <2>4 DEF allvars, HandAlone, HandP!nvars
    <3> QED
      BY <1>0, <2>2, <3>1, HandP!Preserved
  <2> QED
    BY <2>1, <2>3, <2>4, PartStays
<1>3. HandInv => HandlesAgree
  <2> SUFFICES ASSUME HandInv, part = "handles" PROVE Hand!ClaimedIsBound
    BY DEF HandlesAgree
  <2>1. HandP!IInv
    BY DEF HandInv
  <2> QED
    BY <2>1, HandP!Agreed, HandIsHand
<1> QED
  BY <1>1, <1>2, <1>3

-----------------------------------------------------------------------------
\* chkstat.  What is known while its threads work: how many miners have been taken, that a
\* miner is with one worker at most, and that what is stored of it is what it has answered.
StatTaken == Miners - Len(miner_queue)
StatBusy(t) == worker[t].at \in {"connect", "read"}
Came(d) == {n \in 1 .. Len(d) : d[n] = TRUE}

StatPlaces ==
  [at : {"get", "connect", "read", "ended"}, miner : Nat, try : Nat, tmp : Seq(BOOLEAN)]

StatTypes ==
  /\ miner_queue \in Seq(Nat) /\ rows \in Seq({"Dead", "Alive"}) /\ worker \in [Threads -> StatPlaces]
  /\ data0 \in [Stat!Miner -> Seq(BOOLEAN)]
  /\ asked \in [Stat!Miner -> [times : Nat, answered : SUBSET Nat]]

StatQueue ==
  /\ Len(miner_queue) <= Miners
  /\ \A n \in 1 .. Len(miner_queue) : miner_queue[n] = StatTaken + n
  /\ \A t \in Threads : worker[t].at = "ended" => miner_queue = <<>>

StatOwned ==
  \A t \in Threads : StatBusy(t) =>
    /\ worker[t].miner \in 1 .. StatTaken
    /\ \A u \in Threads : u # t /\ StatBusy(u) => worker[u].miner # worker[t].miner

StatAsked ==
  /\ \A m \in Stat!Miner : /\ asked[m].times = IF m <= StatTaken THEN 1 ELSE 0
                           /\ m > StatTaken => asked[m].answered = {}
  /\ \A t \in Threads :
       /\ worker[t].at = "connect" => asked[worker[t].miner].answered = {}
       /\ worker[t].at = "read" => /\ Len(worker[t].tmp) < Reports
                                   /\ asked[worker[t].miner].answered = Came(worker[t].tmp)

StatStored ==
  \A m \in 1 .. StatTaken :
    (\A t \in Threads : StatBusy(t) => worker[t].miner # m) =>
      Len(data0[m]) = Reports /\ asked[m].answered = Came(data0[m])

StatTable ==
  /\ main \in {"join", "analyze", "done", "crashed"}
  /\ main = "join" => rows = <<>>
  /\ main # "join" => \A t \in Threads : worker[t].at = "ended"
  /\ Len(rows) <= Miners /\ \A n \in 1 .. Len(rows) : rows[n] = Stat!Row(data0[n])
  /\ main = "done" => Len(rows) = Miners
  /\ main = "crashed" => Len(rows) < Miners /\ Stat!Raises(data0[Len(rows) + 1])

StatInv == StatTypes /\ StatQueue /\ StatOwned /\ StatAsked /\ StatStored /\ StatTable

StatConstants == /\ Threads # {} /\ {Miners, Retry} \subseteq Nat \ {0} /\ Reports \in 2 .. 4

LEMMA StatConstantsHold == StatConstants
  BY ProgramsAssumption, Zenon DEF Stat!ChkStatAssumption, StatConstants

\* What Goes does to a worker.
LEMMA StatGoes ==
  ASSUME NEW t \in Threads, NEW a \in {"get", "connect", "read", "ended"}, NEW k \in Nat,
         NEW d \in Seq(BOOLEAN), worker \in [Threads -> StatPlaces],
         Stat!Goes(t, a, k, d)
  PROVE  /\ worker' \in [Threads -> StatPlaces]
         /\ worker'[t].at = a /\ worker'[t].try = k /\ worker'[t].tmp = d
         /\ worker'[t].miner = worker[t].miner
         /\ \A u \in Threads : u # t => worker'[u] = worker[u]
<1> DEFINE w1 == [worker EXCEPT ![t].at = a]
           w2 == [w1 EXCEPT ![t].try = k]
           w3 == [w2 EXCEPT ![t].tmp = d]
<1>1. worker' = w3
  BY DEF Stat!Goes
<1>2. /\ w1 \in [Threads -> StatPlaces] /\ w1[t].at = a /\ w1[t].miner = worker[t].miner
      /\ \A u \in Threads : u # t => w1[u] = worker[u]
  BY DEF StatPlaces
<1> HIDE DEF w1
<1>3. /\ w2 \in [Threads -> StatPlaces] /\ w2[t].at = a /\ w2[t].miner = worker[t].miner
      /\ w2[t].try = k /\ \A u \in Threads : u # t => w2[u] = worker[u]
  BY <1>2 DEF StatPlaces
<1> HIDE DEF w2
<1>4. /\ w3 \in [Threads -> StatPlaces] /\ w3[t].at = a /\ w3[t].miner = worker[t].miner
      /\ w3[t].try = k /\ w3[t].tmp = d /\ \A u \in Threads : u # t => w3[u] = worker[u]
  BY <1>3 DEF StatPlaces
<1> QED
  BY <1>1, <1>4

\* What has come: with nothing, with one report more, with nothing but failures.
LEMMA CameNone == Came(<<>>) = {}
  BY DEF Came

LEMMA CameMore ==
  ASSUME NEW d \in Seq(BOOLEAN)
  PROVE  /\ Append(d, TRUE) \in Seq(BOOLEAN) /\ Append(d, FALSE) \in Seq(BOOLEAN)
         /\ Len(Append(d, TRUE)) = Len(d) + 1 /\ Len(Append(d, FALSE)) = Len(d) + 1
         /\ Came(Append(d, TRUE)) = Came(d) \cup {Len(d) + 1}
         /\ Came(Append(d, FALSE)) = Came(d)
<1>1. ASSUME NEW b \in BOOLEAN
      PROVE  /\ Append(d, b) \in Seq(BOOLEAN) /\ Len(Append(d, b)) = Len(d) + 1
             /\ \A n \in 1 .. Len(d) : Append(d, b)[n] = d[n]
             /\ Append(d, b)[Len(d) + 1] = b
  OBVIOUS
<1>2. Len(d) \in Nat
  OBVIOUS
<1>3. 1 .. Len(d) + 1 = 1 .. Len(d) \cup {Len(d) + 1} /\ Len(d) + 1 \notin 1 .. Len(d)
  BY <1>2
<1>4. Came(Append(d, TRUE)) = Came(d) \cup {Len(d) + 1}
  BY <1>1, <1>3, Zenon DEF Came
<1>5. Came(Append(d, FALSE)) = Came(d)
  BY <1>1, <1>3, Zenon DEF Came
<1> QED
  BY <1>1, <1>4, <1>5

LEMMA CameNever ==
  ASSUME NEW k \in Nat
  PROVE  /\ [n \in 1 .. k |-> FALSE] \in Seq(BOOLEAN) /\ Len([n \in 1 .. k |-> FALSE]) = k
         /\ Came([n \in 1 .. k |-> FALSE]) = {}
<1>1. [n \in 1 .. k |-> FALSE] \in Seq(BOOLEAN) /\ Len([n \in 1 .. k |-> FALSE]) = k
  OBVIOUS
<1> QED
  BY <1>1 DEF Came

LEMMA StatStarts == Stat!Init => StatInv
<1> SUFFICES ASSUME Stat!Init PROVE StatInv
  OBVIOUS
<1> USE StatConstantsHold DEF StatConstants, Stat!Init, Stat!Miner
<1>1. Len(miner_queue) = Miners /\ miner_queue \in Seq(Nat) /\ StatTaken = 0
  BY DEF StatTaken
<1>2. StatTypes
  BY <1>1 DEF StatTypes, StatPlaces
<1>3. \A t \in Threads : worker[t].at = "get"
  OBVIOUS
<1>4. StatQueue /\ StatOwned
  BY <1>1, <1>3 DEF StatQueue, StatOwned, StatBusy
<1>5. StatAsked
  BY <1>1, <1>3 DEF StatAsked
<1>6. StatStored
  BY <1>1 DEF StatStored
<1>7. StatTable
  BY DEF StatTable
<1> QED
  BY <1>2, <1>4, <1>5, <1>6, <1>7 DEF StatInv

\* A worker takes the next miner, or finds that there is none.
LEMMA StatGetKeeps ==
  ASSUME StatInv, NEW t \in Threads, Stat!Get(t) PROVE StatInv'
<1> USE StatConstantsHold DEF StatInv, StatConstants, Stat!Miner
<1>0. /\ worker[t].at = "get" /\ data0' = data0 /\ rows' = rows /\ main' = main
      /\ main = "join"
  BY DEF Stat!Get, StatTable
<1>1. CASE miner_queue = <<>>
  <2>1. /\ Stat!Goes(t, "ended", 0, <<>>) /\ miner_queue' = miner_queue /\ asked' = asked
    BY <1>1 DEF Stat!Get
  <2>0. 0 \in Nat /\ <<>> \in Seq(BOOLEAN) /\ worker \in [Threads -> StatPlaces]
    BY DEF StatTypes
  <2>2. StatTypes'
    <3>3. worker' \in [Threads -> StatPlaces]
      BY <2>0, <2>1, StatGoes, Zenon
    <3> QED
      BY <1>0, <2>1, <3>3 DEF StatTypes
  <2>3. /\ worker'[t].at = "ended" /\ \A u \in Threads : u # t => worker'[u] = worker[u]
        /\ StatTaken' = StatTaken
    <3>1. StatTaken' = StatTaken
      BY <2>1 DEF StatTaken
    <3> QED
      BY <2>0, <2>1, <3>1, StatGoes, Zenon
  <2>4. \A u \in Threads : StatBusy(u)' <=> StatBusy(u)
    BY <1>0, <2>3 DEF StatBusy
  <2>5. \A u \in Threads : StatBusy(u) => worker'[u] = worker[u]
    BY <1>0, <2>3 DEF StatBusy
  <2>6. StatQueue'
    BY <1>1, <2>1, <2>3 DEF StatQueue
  <2>7. StatOwned'
    BY <2>3, <2>4, <2>5, Zenon DEF StatOwned
  <2>8. StatAsked'
    <3>1. \A u \in Threads : worker'[u].at \in {"connect", "read"} => worker'[u] = worker[u]
      BY <1>0, <2>3
    <3> QED
      BY <2>1, <2>3, <3>1, SMTT(30) DEF StatAsked, Came
  <2>9. StatStored'
    <3> SUFFICES ASSUME NEW m \in 1 .. StatTaken,
                        \A u \in Threads : StatBusy(u)' => worker'[u].miner # m
                 PROVE  Len(data0[m]) = Reports /\ asked[m].answered = Came(data0[m])
      BY <1>0, <2>1, <2>3 DEF StatStored, Came
    <3>1. \A u \in Threads : StatBusy(u) => worker[u].miner # m
      BY <2>4, <2>5, Zenon
    <3> QED
      BY <3>1 DEF StatStored
  <2>10. StatTable'
    BY <1>0 DEF StatTable
  <2> QED
    BY <2>2, <2>6, <2>7, <2>8, <2>9, <2>10
<1>2. CASE miner_queue # <<>>
  <2> DEFINE next == StatTaken + 1
  <2>1. /\ Head(miner_queue) = next /\ Tail(miner_queue) \in Seq(Nat) /\ next \in 1 .. Miners
        /\ Len(Tail(miner_queue)) = Len(miner_queue) - 1 /\ Len(miner_queue) \in Nat \ {0}
        /\ \A n \in 1 .. Len(Tail(miner_queue)) : Tail(miner_queue)[n] = miner_queue[n + 1]
    BY <1>2 DEF StatTypes, StatQueue, StatTaken
  <2>2. /\ worker' = [worker EXCEPT ![t] = [at |-> "connect", miner |-> next, try |-> 0, tmp |-> <<>>]]
        /\ miner_queue' = Tail(miner_queue)
        /\ asked' = [asked EXCEPT ![next].times = @ + 1]
    BY <1>2, <2>1 DEF Stat!Get
  <2>3. StatTaken' = next /\ StatTaken \in Nat
    BY <2>1, <2>2 DEF StatTaken, StatQueue
  <2> HIDE DEF next
  <2>4. /\ worker'[t].at = "connect" /\ worker'[t].miner = next
        /\ \A u \in Threads : u # t => worker'[u] = worker[u]
    BY <2>2 DEF StatTypes
  <2>5. /\ \A u \in Threads : StatBusy(u)' <=> (u = t \/ StatBusy(u))
        /\ ~StatBusy(t)
    BY <1>0, <2>4 DEF StatBusy
  <2>6. /\ \A m \in 1 .. Miners : asked'[m].answered = asked[m].answered
        /\ \A m \in 1 .. Miners : asked'[m].times = IF m = next THEN asked[m].times + 1 ELSE asked[m].times
    BY <2>1, <2>2 DEF StatTypes
  <2>7. StatTypes'
    <3>1. [at |-> "connect", miner |-> next, try |-> 0, tmp |-> <<>>] \in StatPlaces
      BY <2>1 DEF StatPlaces
    <3>2. worker' \in [Threads -> StatPlaces]
      BY <2>2, <3>1, Zenon DEF StatTypes
    <3>3. asked' \in [1 .. Miners -> [times : Nat, answered : SUBSET Nat]]
      <4> DEFINE more == [asked[next] EXCEPT !.times = @ + 1]
      <4>1. asked[next] \in [times : Nat, answered : SUBSET Nat]
        BY <2>1 DEF StatTypes
      <4>2. more \in [times : Nat, answered : SUBSET Nat]
        BY <4>1
      <4>3. asked' = [asked EXCEPT ![next] = more]
        BY <2>2
      <4> HIDE DEF more
      <4> QED
        BY <4>2, <4>3 DEF StatTypes
    <3> QED
      BY <1>0, <2>1, <2>2, <3>2, <3>3 DEF StatTypes
  <2>8. StatQueue'
    <3>1. \A n \in 1 .. Len(miner_queue') : miner_queue'[n] = StatTaken' + n
      <4> SUFFICES ASSUME NEW n \in 1 .. Len(Tail(miner_queue)) PROVE Tail(miner_queue)[n] = next + n
        BY <2>2, <2>3, Zenon
      <4>1. n + 1 \in 1 .. Len(miner_queue) /\ StatTaken \in Int
        BY <2>1, <2>3
      <4>2. Tail(miner_queue)[n] = StatTaken + (n + 1)
        BY <2>1, <4>1, Zenon DEF StatQueue
      <4> QED
        BY <4>1, <4>2 DEF next
    <3>2. \A u \in Threads : worker'[u].at # "ended"
      BY <1>2, <2>4 DEF StatQueue
    <3> QED
      BY <2>1, <2>2, <3>1, <3>2 DEF StatQueue
  <2>9. StatOwned'
    <3>1. \A u \in Threads : StatBusy(u) => worker[u].miner \in 1 .. StatTaken
      BY DEF StatOwned
    <3>2. next \in 1 .. next /\ next \notin 1 .. StatTaken /\ 1 .. StatTaken \subseteq 1 .. next
      BY <2>3 DEF next
    <3> QED
      BY <2>3, <2>4, <2>5, <3>1, <3>2, Zenon DEF StatOwned
  <2>10. StatAsked'
    <3>1. \A m \in 1 .. Miners : /\ asked'[m].times = IF m <= next THEN 1 ELSE 0
                                 /\ m > next => asked'[m].answered = {}
      BY <2>3, <2>6 DEF StatAsked, next
    <3>2. asked'[next].answered = {}
      BY <2>1, <2>3, <2>6 DEF StatAsked, next
    <3>3. \A u \in Threads : u # t /\ StatBusy(u) => worker[u].miner \in 1 .. Miners
      BY <2>1, <2>3 DEF StatOwned, next
    <3>4. ASSUME NEW u \in Threads
          PROVE  /\ worker'[u].at = "connect" => asked'[worker'[u].miner].answered = {}
                 /\ worker'[u].at = "read" => /\ Len(worker'[u].tmp) < Reports
                                   /\ asked'[worker'[u].miner].answered = Came(worker'[u].tmp)
      <4>1. CASE u = t
        BY <2>4, <3>2, <4>1
      <4>2. CASE u # t
        <5>1. worker'[u] = worker[u]
          BY <2>4, <4>2
        <5>2. worker[u].at = "connect" => asked[worker[u].miner].answered = {}
          BY Zenon DEF StatAsked
        <5>3. worker[u].at = "read" => /\ Len(worker[u].tmp) < Reports
                                       /\ asked[worker[u].miner].answered = Came(worker[u].tmp)
          BY Zenon DEF StatAsked
        <5>4. StatBusy(u) => asked'[worker[u].miner].answered = asked[worker[u].miner].answered
          BY <2>6, <3>3, <4>2, Zenon
        <5>5. worker[u].at \in {"connect", "read"} => StatBusy(u)
          BY Zenon DEF StatBusy
        <5> QED
          BY <5>1, <5>2, <5>3, <5>4, <5>5
      <4> QED
        BY <4>1, <4>2
    <3> QED
      BY <2>3, <3>1, <3>4 DEF StatAsked, Came
  <2>11. StatStored'
    <3> SUFFICES ASSUME NEW m \in 1 .. next,
                        \A u \in Threads : StatBusy(u)' => worker'[u].miner # m
                 PROVE  Len(data0[m]) = Reports /\ asked'[m].answered = Came(data0[m])
      BY <1>0, <2>3 DEF StatStored, Came
    <3>1. m # next
      BY <2>4, <2>5
    <3>2. m \in 1 .. StatTaken /\ m \in 1 .. Miners
      BY <2>1, <2>3, <3>1 DEF next
    <3>3. \A u \in Threads : StatBusy(u) => worker[u].miner # m
      BY <2>4, <2>5
    <3> QED
      BY <2>6, <3>2, <3>3 DEF StatStored
  <2>12. StatTable'
    BY <1>0 DEF StatTable
  <2> QED
    BY <2>7, <2>8, <2>9, <2>10, <2>11, <2>12
<1> QED
  BY <1>1, <1>2

\* A worker goes on with its miner, or stores what it has of it and is done with it.
LEMMA StatWorkKeeps ==
  ASSUME StatInv, NEW t \in Threads, StatBusy(t), NEW m \in Int, m = worker[t].miner,
         miner_queue' = miner_queue, rows' = rows, main' = main,
         worker' \in [Threads -> StatPlaces], worker'[t].miner = m,
         \A u \in Threads : u # t => worker'[u] = worker[u],
         worker'[t].at \in {"get", "connect", "read"},
         asked' \in [Stat!Miner -> [times : Nat, answered : SUBSET Nat]],
         \A n \in Stat!Miner : asked'[n].times = asked[n].times,
         \A n \in Stat!Miner : n # m => asked'[n].answered = asked[n].answered,
         data0' \in [Stat!Miner -> Seq(BOOLEAN)],
         \A n \in Stat!Miner : n # m => data0'[n] = data0[n],
         worker'[t].at = "connect" => asked'[m].answered = {},
         worker'[t].at = "read" => /\ Len(worker'[t].tmp) < Reports
                                   /\ asked'[m].answered = Came(worker'[t].tmp),
         worker'[t].at = "get" => /\ Len(data0'[m]) = Reports
                                  /\ asked'[m].answered = Came(data0'[m])
  PROVE  StatInv'
<1> USE StatConstantsHold DEF StatInv, StatConstants, Stat!Miner
<1>1. StatTaken' = StatTaken /\ StatTaken \in Nat /\ StatTaken <= Miners
  BY DEF StatTaken, StatTypes, StatQueue
<1>2. /\ m \in 1 .. StatTaken /\ m \in 1 .. Miners
      /\ \A u \in Threads : u # t /\ StatBusy(u) => worker[u].miner # m
      /\ \A u \in Threads : StatBusy(u) => worker[u].miner \in 1 .. Miners
  BY <1>1 DEF StatOwned
<1>3. /\ StatBusy(t)' <=> worker'[t].at \in {"connect", "read"}
      /\ \A u \in Threads : u # t => (StatBusy(u)' <=> StatBusy(u))
  BY DEF StatBusy
<1>4. StatTypes'
  BY DEF StatTypes
<1>5. StatQueue'
  BY <1>1 DEF StatQueue
<1>6. StatOwned'
  <2> SUFFICES ASSUME NEW u \in Threads, StatBusy(u)'
               PROVE  /\ worker'[u].miner \in 1 .. StatTaken
                      /\ \A v \in Threads : v # u /\ StatBusy(v)' => worker'[v].miner # worker'[u].miner
    BY <1>1, Zenon DEF StatOwned
  <2>1. StatBusy(u) /\ worker'[u].miner = worker[u].miner
    BY <1>3
  <2>2. \A v \in Threads : StatBusy(v)' => StatBusy(v) /\ worker'[v].miner = worker[v].miner
    BY <1>3
  <2> QED
    BY <2>1, <2>2, ZenonT(30) DEF StatOwned
<1>7. StatAsked'
  <2>1. \A n \in 1 .. Miners : /\ asked'[n].times = IF n <= StatTaken THEN 1 ELSE 0
                               /\ n > StatTaken => asked'[n].answered = {}
    <3> SUFFICES ASSUME NEW n \in 1 .. Miners
                 PROVE  /\ asked'[n].times = IF n <= StatTaken THEN 1 ELSE 0
                        /\ n > StatTaken => asked'[n].answered = {}
      OBVIOUS
    <3>1. asked'[n].times = asked[n].times
      OBVIOUS
    <3>2. n > StatTaken => n # m
      BY <1>1, <1>2
    <3>3. n # m => asked'[n].answered = asked[n].answered
      OBVIOUS
    <3> QED
      BY <3>1, <3>2, <3>3, Zenon DEF StatAsked
  <2>2. ASSUME NEW u \in Threads
        PROVE  /\ worker'[u].at = "connect" => asked'[worker'[u].miner].answered = {}
               /\ worker'[u].at = "read" => /\ Len(worker'[u].tmp) < Reports
                                   /\ asked'[worker'[u].miner].answered = Came(worker'[u].tmp)
    <3>1. CASE u = t
      BY <3>1
    <3>2. CASE u # t
      <4>1. worker'[u] = worker[u]
        BY <3>2
      <4> SUFFICES ASSUME StatBusy(u)
                   PROVE  /\ worker[u].at = "connect" => asked'[worker[u].miner].answered = {}
                          /\ worker[u].at = "read" => /\ Len(worker[u].tmp) < Reports
                                   /\ asked'[worker[u].miner].answered = Came(worker[u].tmp)
        BY <4>1, Zenon DEF StatBusy
      <4>2. worker[u].miner # m /\ worker[u].miner \in 1 .. Miners
        BY <1>2, <3>2
      <4>3. asked'[worker[u].miner].answered = asked[worker[u].miner].answered
        BY <4>2, Zenon
      <4> QED
        BY <4>3, Zenon DEF StatAsked
    <3> QED
      BY <3>1, <3>2
  <2> QED
    BY <1>1, <2>1, <2>2 DEF StatAsked, Came
<1>8. StatStored'
  <2> SUFFICES ASSUME NEW n \in 1 .. StatTaken,
                      \A u \in Threads : StatBusy(u)' => worker'[u].miner # n
               PROVE  Len(data0'[n]) = Reports /\ asked'[n].answered = Came(data0'[n])
    BY <1>1 DEF StatStored, Came
  <2>1. CASE n = m
    BY <1>3, <2>1
  <2>2. CASE n # m
    <3>1. \A u \in Threads : StatBusy(u) => worker[u].miner # n
      BY <1>3, <2>2
    <3>2. n \in 1 .. Miners
      BY <1>1
    <3>3. asked'[n].answered = asked[n].answered /\ data0'[n] = data0[n]
      BY <2>2, <3>2, Zenon
    <3> QED
      BY <3>1, <3>3, Zenon DEF StatStored
  <2> QED
    BY <2>1, <2>2
<1>9. StatTable'
  <2>1. main = "join"
    BY DEF StatTable, StatBusy
  <2> QED
    BY <2>1 DEF StatTable
<1> QED
  BY <1>4, <1>5, <1>6, <1>7, <1>8, <1>9

\* What is known of a worker that is busy.
LEMMA StatBusyFacts ==
  ASSUME StatInv, NEW t \in Threads, StatBusy(t)
  PROVE  /\ worker[t] \in StatPlaces /\ worker[t].miner \in 1 .. Miners /\ worker[t].miner \in Int
         /\ worker[t].at = "connect" => asked[worker[t].miner].answered = {}
         /\ worker[t].at = "read" => /\ Len(worker[t].tmp) < Reports
                                   /\ asked[worker[t].miner].answered = Came(worker[t].tmp)
<1>1. worker[t] \in StatPlaces
  BY Zenon DEF StatInv, StatTypes
<1>2. worker[t].miner \in 1 .. StatTaken
  BY Zenon DEF StatInv, StatOwned
<1>3. worker[t].miner \in 1 .. Miners
  <2>1. Len(miner_queue) \in Nat /\ Len(miner_queue) <= Miners /\ Miners \in Nat
    BY StatConstantsHold DEF StatConstants, StatInv, StatTypes, StatQueue
  <2> QED
    BY <1>2, <2>1 DEF StatTaken
<1>4. worker[t].miner \in Int
  BY <1>3
<1> QED
  BY <1>1, <1>3, <1>4, Zenon DEF StatInv, StatAsked

LEMMA StatConnectKeeps ==
  ASSUME StatInv, NEW t \in Threads, Stat!Connect(t) PROVE StatInv'
<1> USE StatConstantsHold DEF StatConstants, Stat!Miner
<1> DEFINE m == worker[t].miner
           k == worker[t].try + 1
           none == [r \in 1 .. Reports |-> FALSE]
<1>1. /\ worker[t].at = "connect" /\ StatBusy(t)
      /\ miner_queue' = miner_queue /\ rows' = rows /\ main' = main /\ asked' = asked
  BY DEF Stat!Connect, StatBusy
<1>2. /\ worker \in [Threads -> StatPlaces] /\ 0 \in Nat /\ k \in Nat /\ <<>> \in Seq(BOOLEAN)
      /\ data0 \in [1 .. Miners -> Seq(BOOLEAN)]
      /\ asked \in [1 .. Miners -> [times : Nat, answered : SUBSET Nat]]
  BY DEF StatInv, StatTypes, StatPlaces
<1>3. m \in 1 .. Miners /\ m \in Int /\ asked[m].answered = {}
  BY <1>1, StatBusyFacts, Zenon
<1>4. \/ Stat!Goes(t, "read", 0, <<>>) /\ data0' = data0
      \/ Stat!Goes(t, "connect", k, <<>>) /\ data0' = data0
      \/ Stat!Goes(t, "get", 0, <<>>) /\ data0' = [data0 EXCEPT ![m] = none]
  BY DEF Stat!Connect, Stat!AfterSkip, Stat!Store
<1>5. none \in Seq(BOOLEAN) /\ Len(none) = Reports /\ Came(none) = {}
  BY CameNever
<1> HIDE DEF m, k, none
<1>6. ASSUME NEW a \in {"get", "connect", "read"}, NEW n \in Nat, Stat!Goes(t, a, n, <<>>),
             a # "get" => data0' = data0,
             a = "get" => data0' = [data0 EXCEPT ![m] = none]
      PROVE  StatInv'
  <2>1. /\ worker' \in [Threads -> StatPlaces] /\ worker'[t].at = a /\ worker'[t].tmp = <<>>
        /\ worker'[t].miner = m /\ \A u \in Threads : u # t => worker'[u] = worker[u]
    <3>2. a \in {"get", "connect", "read", "ended"}
      OBVIOUS
    <3>3. /\ worker' \in [Threads -> StatPlaces] /\ worker'[t].at = a /\ worker'[t].tmp = <<>>
          /\ worker'[t].miner = worker[t].miner
          /\ \A u \in Threads : u # t => worker'[u] = worker[u]
      <4> DEFINE e == <<>>
      <4>1. worker \in [Threads -> StatPlaces] /\ e \in Seq(BOOLEAN) /\ Stat!Goes(t, a, n, e)
        BY <1>2, <1>6
      <4>2. e = <<>>
        OBVIOUS
      <4> HIDE DEF e
      <4>3. /\ worker' \in [Threads -> StatPlaces] /\ worker'[t].at = a /\ worker'[t].tmp = e
            /\ worker'[t].miner = worker[t].miner
            /\ \A u \in Threads : u # t => worker'[u] = worker[u]
        BY <3>2, <4>1, StatGoes, SMT
      <4> QED
        BY <4>2, <4>3
    <3> QED
      BY <3>3 DEF m
  <2>2. /\ data0' \in [1 .. Miners -> Seq(BOOLEAN)]
        /\ \A q \in 1 .. Miners : q # m => data0'[q] = data0[q]
        /\ a = "get" => data0'[m] = none
    BY <1>2, <1>3, <1>5, <1>6
  <2>3. Len(<<>>) < Reports
    OBVIOUS
  <2>4. \A q \in 1 .. Miners : /\ asked'[q].times = asked[q].times
                              /\ q # m => asked'[q].answered = asked[q].answered
    BY <1>1, Zenon
  <2>5. /\ worker'[t].at = "connect" => asked'[m].answered = {}
        /\ worker'[t].at = "read" => /\ Len(worker'[t].tmp) < Reports
                                   /\ asked'[m].answered = Came(worker'[t].tmp)
        /\ worker'[t].at = "get" => /\ Len(data0'[m]) = Reports
                                  /\ asked'[m].answered = Came(data0'[m])
    BY <1>1, <1>3, <1>5, <2>1, <2>2, <2>3, CameNone, Zenon
  <2>6. worker'[t].at \in {"get", "connect", "read"} /\ asked' \in [1 .. Miners -> [times : Nat, answered : SUBSET Nat]]
    BY <1>1, <1>2, <1>6, <2>1, Zenon
  <2>7. m = worker[t].miner
    BY Zenon DEF m
  <2> QED
    BY <1>1, <1>3, <2>1, <2>2, <2>4, <2>5, <2>6, <2>7, StatWorkKeeps, Zenon
<1> QED
  BY <1>2, <1>4, <1>6, Zenon

LEMMA StatReadKeeps ==
  ASSUME StatInv, NEW t \in Threads, Stat!apiread(t) PROVE StatInv'
<1> USE StatConstantsHold DEF StatConstants, Stat!Miner
<1> DEFINE m == worker[t].miner
           k == worker[t].try + 1
           d == worker[t].tmp
<1>1. /\ worker[t].at = "read" /\ StatBusy(t)
      /\ miner_queue' = miner_queue /\ rows' = rows /\ main' = main
  BY DEF Stat!apiread, StatBusy
<1>2. /\ worker \in [Threads -> StatPlaces] /\ 0 \in Nat /\ k \in Nat /\ <<>> \in Seq(BOOLEAN)
      /\ d \in Seq(BOOLEAN) /\ Len(d) \in Nat
      /\ data0 \in [1 .. Miners -> Seq(BOOLEAN)]
      /\ asked \in [1 .. Miners -> [times : Nat, answered : SUBSET Nat]]
  BY SMTT(30) DEF StatInv, StatTypes, StatPlaces
<1>3. m \in 1 .. Miners /\ m \in Int /\ asked[m].answered = Came(d) /\ Len(d) < Reports
  BY <1>1, StatBusyFacts, Zenon
<1>4. \/ Stat!Got(t, TRUE) /\ asked' = [asked EXCEPT ![m].answered = @ \cup {Len(d) + 1}]
      \/ Stat!Goes(t, "read", k, d) /\ data0' = data0 /\ asked' = asked
      \/ Stat!Got(t, FALSE) /\ asked' = asked
  BY DEF Stat!apiread
<1> HIDE DEF m, k, d
<1>5. ASSUME NEW a \in {"get", "read"}, NEW n \in Nat, NEW e \in Seq(BOOLEAN), NEW q \in Seq(BOOLEAN),
             Stat!Goes(t, a, n, q),
             a = "read" => data0' = data0 /\ q = e /\ Len(e) < Reports,
             a = "get" => data0' = [data0 EXCEPT ![m] = e] /\ Len(e) = Reports,
             asked' \in [1 .. Miners -> [times : Nat, answered : SUBSET Nat]],
             \A z \in 1 .. Miners : asked'[z].times = asked[z].times,
             \A z \in 1 .. Miners : z # m => asked'[z].answered = asked[z].answered,
             asked'[m].answered = Came(e)
      PROVE  StatInv'
  <2>0. a \in {"get", "connect", "read", "ended"}
    OBVIOUS
  <2>1. /\ worker' \in [Threads -> StatPlaces] /\ worker'[t].at = a /\ worker'[t].tmp = q
        /\ worker'[t].miner = m /\ \A u \in Threads : u # t => worker'[u] = worker[u]
    <3>3. /\ worker' \in [Threads -> StatPlaces] /\ worker'[t].at = a /\ worker'[t].tmp = q
          /\ worker'[t].miner = worker[t].miner
          /\ \A u \in Threads : u # t => worker'[u] = worker[u]
      <4>1. worker \in [Threads -> StatPlaces] /\ Stat!Goes(t, a, n, q)
        BY <1>2, <1>5
      <4> QED
        BY <2>0, <4>1, StatGoes, SMT
    <3> QED
      BY <3>3 DEF m
  <2>2. /\ data0' \in [1 .. Miners -> Seq(BOOLEAN)]
        /\ \A z \in 1 .. Miners : z # m => data0'[z] = data0[z]
        /\ a = "get" => data0'[m] = e
    BY <1>2, <1>3, <1>5
  <2>3. worker'[t].at \in {"get", "connect", "read"} /\ worker'[t].at # "connect"
    BY <2>1
  <2>4. worker'[t].at = "read" => /\ Len(worker'[t].tmp) < Reports
                                   /\ asked'[m].answered = Came(worker'[t].tmp)
    BY <1>5, <2>1
  <2>5. worker'[t].at = "get" => /\ Len(data0'[m]) = Reports
                                  /\ asked'[m].answered = Came(data0'[m])
    BY <1>5, <2>1, <2>2
  <2>6. m = worker[t].miner
    BY Zenon DEF m
  <2> QED
    BY <1>1, <1>3, <1>5, <2>1, <2>2, <2>3, <2>4, <2>5, <2>6, StatWorkKeeps, ZenonT(30)
<1>6. ASSUME NEW b \in BOOLEAN, Stat!Got(t, b),
             asked' \in [1 .. Miners -> [times : Nat, answered : SUBSET Nat]],
             \A z \in 1 .. Miners : asked'[z].times = asked[z].times,
             \A z \in 1 .. Miners : z # m => asked'[z].answered = asked[z].answered,
             asked'[m].answered = Came(Append(d, b))
      PROVE  StatInv'
  <2> DEFINE e == Append(d, b)
  <2>1. e \in Seq(BOOLEAN) /\ Len(e) = Len(d) + 1
    BY <1>2
  <2>2. \/ Len(e) = Reports /\ Stat!Goes(t, "get", 0, <<>>) /\ data0' = [data0 EXCEPT ![m] = e]
        \/ Len(e) # Reports /\ Stat!Goes(t, "read", 0, e) /\ data0' = data0
    BY <1>6, Zenon DEF Stat!Got, Stat!Store, m, d
  <2> HIDE DEF e
  <2>3. Len(e) # Reports => Len(e) < Reports
    BY <1>2, <1>3, <2>1
  <2>4. asked'[m].answered = Came(e)
    BY <1>6 DEF e
  <2> QED
    BY <1>2, <1>5, <1>6, <2>1, <2>2, <2>3, <2>4, Zenon
<1>7. CASE Stat!Got(t, TRUE) /\ asked' = [asked EXCEPT ![m].answered = @ \cup {Len(d) + 1}]
  <2> DEFINE z == Came(d) \cup {Len(d) + 1}
             g == [asked[m] EXCEPT !.answered = z]
  <2>1. z \subseteq Nat
    BY <1>2 DEF Came
  <2>2. asked' = [asked EXCEPT ![m] = g]
    BY <1>3, <1>7
  <2>3. z = Came(Append(d, TRUE))
    BY <1>2, CameMore
  <2> HIDE DEF z
  <2>4. g \in [times : Nat, answered : SUBSET Nat] /\ g.times = asked[m].times /\ g.answered = z
    BY <1>2, <1>3, <2>1
  <2> HIDE DEF g
  <2>5. /\ asked' \in [1 .. Miners -> [times : Nat, answered : SUBSET Nat]]
        /\ \A y \in 1 .. Miners : asked'[y].times = asked[y].times
        /\ \A y \in 1 .. Miners : y # m => asked'[y].answered = asked[y].answered
        /\ asked'[m].answered = z
    BY <1>2, <1>3, <2>2, <2>4
  <2> QED
    BY <1>6, <1>7, <2>3, <2>5, Zenon
<1>8. CASE Stat!Got(t, FALSE) /\ asked' = asked
  <2>1. asked'[m].answered = Came(Append(d, FALSE))
    BY <1>2, <1>3, <1>8, CameMore
  <2> QED
    BY <1>2, <1>6, <1>8, <2>1, Zenon
<1>9. CASE Stat!Goes(t, "read", k, d) /\ data0' = data0 /\ asked' = asked
  BY <1>2, <1>3, <1>5, <1>9, Zenon
<1> QED
  BY <1>4, <1>7, <1>8, <1>9

\* When all have ended every miner has been taken, and none is with a worker.
LEMMA StatAllCame ==
  ASSUME StatInv, \A t \in Threads : worker[t].at = "ended"
  PROVE  /\ StatTaken = Miners
         /\ \A m \in 1 .. Miners : Len(data0[m]) = Reports /\ asked[m].answered = Came(data0[m])
<1>1. miner_queue = <<>>
  BY StatConstantsHold DEF StatConstants, StatInv, StatQueue
<1>2. StatTaken = Miners
  BY <1>1, StatConstantsHold DEF StatConstants, StatTaken
<1>3. \A t \in Threads : ~StatBusy(t)
  BY DEF StatBusy
<1> QED
  BY <1>2, <1>3, Zenon DEF StatInv, StatStored

\* What the table says of such a miner is what it has answered.
LEMMA StatRowIsTrue ==
  ASSUME StatInv, \A t \in Threads : worker[t].at = "ended", NEW m \in 1 .. Miners
  PROVE  /\ Stat!Row(data0[m]) = "Alive" <=> Stat!Devs \in asked[m].answered
         /\ Stat!Raises(data0[m]) => /\ Stat!Devs \in asked[m].answered
                                     /\ Stat!Summary \notin asked[m].answered
<1> DEFINE d == data0[m]
<1>1. d \in Seq(BOOLEAN) /\ Len(d) = Reports /\ asked[m].answered = Came(d) /\ Reports \in 2 .. 4
  BY StatAllCame, StatConstantsHold DEF StatConstants, StatInv, StatTypes, Stat!Miner
<1> HIDE DEF d
<1>2. d # <<>> /\ 1 \in 1 .. Len(d) /\ 2 \in 1 .. Len(d) /\ d[1] \in BOOLEAN /\ d[2] \in BOOLEAN
  BY <1>1
<1>3. (2 \in Came(d) <=> d[2] = TRUE) /\ (1 \in Came(d) <=> d[1] = TRUE)
  BY <1>2, Zenon DEF Came
<1>4. Stat!Row(d) = IF d # <<>> /\ ~d[2] THEN "Dead" ELSE "Alive"
  BY Zenon DEF Stat!Row, Stat!Devs
<1>5. (Stat!Row(d) = "Alive" <=> d[2] = TRUE)
  <2>1. CASE d[2] = TRUE
    BY <1>4, <2>1
  <2>2. CASE d[2] = FALSE
    BY <1>2, <1>4, <2>2
  <2> QED
    BY <1>2, <2>1, <2>2
<1>6. Stat!Raises(d) => Stat!Row(d) = "Alive" /\ ~(d[1] = TRUE)
  BY <1>2, Zenon DEF Stat!Raises, Stat!Summary
<1> QED
  BY <1>1, <1>3, <1>5, <1>6, Zenon DEF Stat!Devs, Stat!Summary, d

LEMMA StatTableKeeps ==
  ASSUME StatInv, Stat!Join \/ Stat!Analyze PROVE StatInv'
<1>1. /\ miner_queue' = miner_queue /\ worker' = worker /\ data0' = data0 /\ asked' = asked
      /\ rows' \in Seq({"Dead", "Alive"})
  <2>1. rows \in Seq({"Dead", "Alive"}) /\ \A d : Stat!Row(d) \in {"Dead", "Alive"}
    BY DEF StatInv, StatTypes, Stat!Row
  <2> QED
    BY <2>1 DEF Stat!Join, Stat!Analyze
<1>2. StatTypes' /\ StatTaken' = StatTaken /\ \A t \in Threads : StatBusy(t)' = StatBusy(t)
  BY <1>1 DEF StatInv, StatTypes, StatTaken, StatBusy
<1>3. StatQueue' /\ StatOwned'
  BY <1>1, <1>2, Zenon DEF StatInv, StatQueue, StatOwned
<1>4. StatAsked' /\ StatStored'
  BY <1>1, <1>2, Zenon DEF StatInv, StatAsked, StatStored, Came
<1>5. StatTable'
  <2>1. /\ Miners \in Nat /\ rows \in Seq({"Dead", "Alive"}) /\ Len(rows) \in Nat
    BY StatConstantsHold DEF StatConstants, StatInv, StatTypes
  <2>2. CASE Stat!Join
    BY <2>2 DEF Stat!Join, StatInv, StatTable
  <2>3. CASE Stat!Analyze
    <3> DEFINE n == Len(rows) + 1
               r == Stat!Row(data0[n])
    <3>1. main = "analyze" /\ worker' = worker /\ data0' = data0
      BY <2>3 DEF Stat!Analyze
    <3>2. \/ n > Miners /\ main' = "done" /\ rows' = rows
          \/ n <= Miners /\ Stat!Raises(data0[n]) /\ main' = "crashed" /\ rows' = rows
          \/ n <= Miners /\ rows' = Append(rows, r) /\ main' = "analyze"
      BY <2>1, <2>3, <3>1 DEF Stat!Analyze
    <3>3. CASE n > Miners /\ main' = "done" /\ rows' = rows
      BY <2>1, <3>1, <3>3 DEF StatInv, StatTable
    <3>4. CASE n <= Miners /\ Stat!Raises(data0[n]) /\ main' = "crashed" /\ rows' = rows
      <4>1. Stat!Raises(data0'[Len(rows') + 1]) /\ Len(rows') < Miners
        BY <2>1, <3>1, <3>4
      <4> QED
        BY <3>1, <3>4, <4>1 DEF StatInv, StatTable
    <3>5. CASE n <= Miners /\ rows' = Append(rows, r) /\ main' = "analyze"
      <4>1. r \in {"Dead", "Alive"}
        BY DEF Stat!Row
      <4> HIDE DEF r
      <4>2. /\ Len(rows') = Len(rows) + 1 /\ rows'[Len(rows) + 1] = r
            /\ \A q \in 1 .. Len(rows) : rows'[q] = rows[q]
        BY <2>1, <3>5, <4>1
      <4>3. Len(rows') <= Miners
        BY <3>5, <4>2
      <4>4. \A q \in 1 .. Len(rows') : rows'[q] = Stat!Row(data0[q])
        <5>1. \A q \in 1 .. Len(rows') : q \in 1 .. Len(rows) \/ q = Len(rows) + 1
          BY <2>1, <4>2
        <5> QED
          BY <4>2, <5>1, Zenon DEF r, StatInv, StatTable
      <4> QED
        BY <3>1, <3>5, <4>3, <4>4 DEF StatInv, StatTable
    <3> QED
      BY <3>2, <3>3, <3>4, <3>5
  <2> QED
    BY <2>2, <2>3
<1> QED
  BY <1>2, <1>3, <1>4, <1>5 DEF StatInv

LEMMA StatTableTrue == StatInv => Stat!TableIsTrue
<1> SUFFICES ASSUME StatInv PROVE Stat!TableIsTrue
  OBVIOUS
<1>1. Miners \in Nat /\ rows \in Seq({"Dead", "Alive"}) /\ Len(rows) \in Nat
  BY StatConstantsHold DEF StatConstants, StatInv, StatTypes
<1>2. \A m \in Stat!Miner : asked[m].times <= 1
  <2>1. \A m \in Stat!Miner : asked[m].times \in {0, 1}
    BY DEF StatInv, StatAsked
  <2> QED
    BY <2>1
<1>3. ASSUME NEW m \in DOMAIN rows
      PROVE  (rows[m] = "Alive") = (Stat!Devs \in asked[m].answered)
  <2>1. m \in 1 .. Len(rows) /\ main # "join" /\ m \in 1 .. Miners
    BY <1>1, <1>3 DEF StatInv, StatTable
  <2>2. \A t \in Threads : worker[t].at = "ended"
    BY <2>1 DEF StatInv, StatTable
  <2>3. rows[m] = Stat!Row(data0[m])
    BY <2>1, Zenon DEF StatInv, StatTable
  <2>4. rows[m] = "Alive" <=> Stat!Devs \in asked[m].answered
    BY <2>1, <2>2, <2>3, StatRowIsTrue, Zenon
  <2> QED
    BY <2>4
<1>4. ASSUME main = "crashed"
      PROVE  /\ Stat!Devs \in asked[Len(rows) + 1].answered
             /\ Stat!Summary \notin asked[Len(rows) + 1].answered
  <2>1. \A t \in Threads : worker[t].at = "ended"
    BY <1>4 DEF StatInv, StatTable
  <2>2. Len(rows) + 1 \in 1 .. Miners /\ Stat!Raises(data0[Len(rows) + 1])
    BY <1>1, <1>4 DEF StatInv, StatTable
  <2> QED
    BY <2>1, <2>2, StatRowIsTrue, Zenon
<1>5. main = "done" => Len(rows) = Miners
  BY DEF StatInv, StatTable
<1> QED
  BY <1>2, <1>3, <1>4, <1>5, Zenon DEF Stat!TableIsTrue

FarmStat == part = "chkstat" => StatInv

LEMMA StatHolds ==
  /\ Init => FarmStat
  /\ FarmStat /\ [Next]_allvars => FarmStat'
  /\ FarmStat => (part = "chkstat" => Stat!TableIsTrue)
<1>1. Init => FarmStat
  BY StatStarts DEF Init, FarmStat
<1>2. FarmStat /\ [Next]_allvars => FarmStat'
  <2> SUFFICES ASSUME StatInv, [Next]_allvars, part = "chkstat" PROVE StatInv'
    BY PartStays DEF FarmStat
  <2>1. CASE UNCHANGED allvars
    <3>1. /\ miner_queue' = miner_queue /\ worker' = worker /\ data0' = data0 /\ asked' = asked
          /\ rows' = rows /\ main' = main
      BY <2>1 DEF allvars, StatAlone
    <3> QED
      BY <3>1, Zenon DEF StatInv, StatTypes, StatQueue, StatOwned, StatAsked, StatStored, StatTable,
                  StatTaken, StatBusy, Came
  <2>2. CASE Stat!Next
    <3>1. CASE \E t \in Threads : Stat!Worker(t)
      BY <3>1, StatGetKeeps, StatConnectKeeps, StatReadKeeps, Zenon DEF Stat!Worker
    <3> QED
      BY <2>2, <3>1, StatTableKeeps DEF Stat!Next
  <2> QED
    BY <2>1, <2>2, PartStays
<1>3. FarmStat => (part = "chkstat" => Stat!TableIsTrue)
  BY StatTableTrue DEF FarmStat
<1> QED
  BY <1>1, <1>2, <1>3

-----------------------------------------------------------------------------
\* rtac.  What is known while its threads work: how many hosts have been taken, that a host
\* is with one worker at most, how many sessions it can have had, and how far the one under
\* way has come.
RunTaken == Hosts - Len(hostQueue)
RunBusy(t) == worker[t].at \in {"connect", "run"}

InOrder(s) == \A n \in 1 .. Len(s) : s[n] = IF n = 1 \/ s[n] = 1 THEN 1 ELSE s[n - 1] + 1
Begun(s) == {n \in 1 .. Len(s) : s[n] = 1}
EndsIn(s, k) == k <= Len(s) /\ \A n \in 1 .. k : s[(Len(s) - k) + n] = n

RunPlaces == [at : {"get", "connect", "run", "ended"}, host : Nat, i : Nat, k : Nat, c : Nat]
RunWords == {"nothing", "cannot connect, again", "cannot connect, skip", "lost, again", "complete"}

RunTypes ==
  /\ hostQueue \in Seq(Nat) /\ worker \in [Threads -> RunPlaces]
  /\ said \in [Run!Host -> RunWords] /\ ran \in [Run!Host -> Seq(Nat)]

RunQueue ==
  /\ Len(hostQueue) <= Hosts
  /\ \A n \in 1 .. Len(hostQueue) : hostQueue[n] = RunTaken + n

RunOwned ==
  \A t \in Threads : RunBusy(t) =>
    /\ worker[t].host \in 1 .. RunTaken
    /\ \A u \in Threads : u # t /\ RunBusy(u) => worker[u].host # worker[t].host

\* Of a worker that is at w, with a host of which last was said and that has run s.
RunAt(w, last, s) ==
  w.at \in {"connect", "run"} =>
    /\ w.i < Retry /\ w.c \in 1 .. Commands /\ last # "complete"
    /\ Cardinality(Begun(s)) <= w.i + (IF w.at = "run" /\ w.c > 1 THEN 1 ELSE 0)
    /\ w.at = "run" => EndsIn(s, w.c - 1)

RunAts ==
  \A t \in Threads : RunAt(worker[t], said[worker[t].host], ran[worker[t].host])

RunHost(h) ==
  /\ h > RunTaken => ran[h] = <<>> /\ said[h] = "nothing"
  /\ InOrder(ran[h]) /\ Cardinality(Begun(ran[h])) <= Retry
  /\ said[h] = "complete" => EndsIn(ran[h], Commands)

RunHosts == \A h \in Run!Host : RunHost(h)

RunInv == RunTypes /\ RunQueue /\ RunOwned /\ RunAts /\ RunHosts

RunConstants == {Hosts, Commands, Retry} \subseteq Nat \ {0}

LEMMA RunConstantsHold == RunConstants
  BY ProgramsAssumption, Zenon DEF Run!RtacAssumption, RunConstants

\* One command more, the next of its session.
LEMMA RanNone == InOrder(<<>>) /\ EndsIn(<<>>, 0) /\ Cardinality(Begun(<<>>)) = 0
<1>1. Begun(<<>>) = {}
  BY DEF Begun
<1> QED
  BY <1>1, FS_EmptySet DEF InOrder, EndsIn

LEMMA BegunFinite ==
  ASSUME NEW s \in Seq(Nat) PROVE IsFiniteSet(Begun(s)) /\ Cardinality(Begun(s)) \in Nat
<1>1. Begun(s) \subseteq 1 .. Len(s) /\ Len(s) \in Nat
  BY DEF Begun
<1>2. IsFiniteSet(1 .. Len(s))
  BY <1>1, FS_Interval
<1> QED
  BY <1>1, <1>2, FS_Subset, FS_CardinalityType

LEMMA RanMore ==
  ASSUME NEW s \in Seq(Nat), NEW c \in Nat \ {0}, InOrder(s), EndsIn(s, c - 1)
  PROVE  /\ Append(s, c) \in Seq(Nat) /\ InOrder(Append(s, c)) /\ EndsIn(Append(s, c), c)
         /\ Cardinality(Begun(Append(s, c))) = Cardinality(Begun(s)) + (IF c = 1 THEN 1 ELSE 0)
<1> DEFINE e == Append(s, c)
           l == Len(s)
<1>1. /\ l \in Nat /\ e \in Seq(Nat) /\ Len(e) = l + 1 /\ e[l + 1] = c
      /\ \A n \in 1 .. l : e[n] = s[n] /\ s[n] \in Nat
  OBVIOUS
<1>2. c - 1 <= l /\ \A n \in 1 .. c - 1 : s[(l - (c - 1)) + n] = n
  BY DEF EndsIn
<1>3. \A n \in 1 .. l : s[n] = IF n = 1 \/ s[n] = 1 THEN 1 ELSE s[n - 1] + 1
  BY DEF InOrder
<1> HIDE DEF e, l
<1>4. InOrder(e)
  <2> SUFFICES ASSUME NEW n \in 1 .. l + 1
               PROVE  e[n] = IF n = 1 \/ e[n] = 1 THEN 1 ELSE e[n - 1] + 1
    BY <1>1 DEF InOrder
  <2>1. CASE n \in 1 .. l
    <3>1. e[n] = s[n] /\ (n # 1 => e[n - 1] = s[n - 1])
      BY <1>1, <2>1
    <3> QED
      BY <1>3, <2>1, <3>1
  <2>2. CASE n = l + 1 /\ c # 1
    <3>1. c - 1 \in 1 .. c - 1 /\ (l - (c - 1)) + (c - 1) = l /\ l # 0
      BY <1>1, <1>2, <2>2
    <3>2. s[l] = c - 1 /\ e[l] = s[l] /\ n # 1 /\ n - 1 = l
      BY <1>1, <1>2, <2>2, <3>1
    <3> QED
      BY <1>1, <2>2, <3>2
  <2>3. CASE n = l + 1 /\ c = 1
    BY <1>1, <2>3
  <2> QED
    BY <1>1, <2>1, <2>2, <2>3
<1>5. EndsIn(e, c)
  <2> SUFFICES ASSUME NEW n \in 1 .. c PROVE e[((l + 1) - c) + n] = n
    BY <1>1, <1>2 DEF EndsIn
  <2>1. CASE n = c
    BY <1>1, <2>1
  <2>2. CASE n \in 1 .. c - 1
    <3>1. ((l + 1) - c) + n = (l - (c - 1)) + n /\ (l - (c - 1)) + n \in 1 .. l
      BY <1>1, <1>2, <2>2
    <3> QED
      BY <1>1, <1>2, <2>2, <3>1
  <2> QED
    BY <2>1, <2>2
<1>6. Cardinality(Begun(e)) = Cardinality(Begun(s)) + (IF c = 1 THEN 1 ELSE 0)
  <2>1. 1 .. l + 1 = 1 .. l \cup {l + 1} /\ l + 1 \notin 1 .. l
    BY <1>1
  <2>2. CASE c = 1
    <3>1. Begun(e) = Begun(s) \cup {l + 1} /\ l + 1 \notin Begun(s)
      <4>1. Begun(s) = {n \in 1 .. l : s[n] = 1}
        BY DEF Begun, l
      <4> QED
        BY <1>1, <2>1, <2>2, <4>1, Zenon DEF Begun
    <3> QED
      BY <2>2, <3>1, BegunFinite, FS_AddElement
  <2>3. CASE c # 1
    <3>1. Begun(e) = Begun(s)
      <4>1. Begun(s) = {n \in 1 .. l : s[n] = 1}
        BY DEF Begun, l
      <4> QED
        BY <1>1, <2>1, <2>3, <4>1, Zenon DEF Begun
    <3> QED
      BY <2>3, <3>1, BegunFinite
  <2> QED
    BY <2>2, <2>3
<1> QED
  BY <1>1, <1>4, <1>5, <1>6 DEF e

\* A sequence that ends in the whole list has it as a suffix.
LEMMA EndsInFull ==
  ASSUME NEW s \in Seq(Nat), EndsIn(s, Commands) PROVE Run!IsSuffix(Run!Full, s)
<1>1. Commands \in Nat /\ Len(s) \in Nat /\ Commands <= Len(s)
  BY RunConstantsHold DEF RunConstants, EndsIn
<1> DEFINE f == [c \in 1 .. Commands |-> c]
           rf == [n \in 1 .. Commands |-> f[(Commands - n) + 1]]
           rs == [n \in 1 .. Len(s) |-> s[(Len(s) - n) + 1]]
<1>2. f \in Seq(Nat) /\ Len(f) = Commands /\ \A n \in 1 .. Commands : f[n] = n
  BY <1>1
<1> HIDE DEF f
<1>3. rf \in Seq(Nat) /\ Len(rf) = Commands /\ rs \in Seq(Nat) /\ Len(rs) = Len(s)
  <2>1. \A n \in 1 .. Commands : f[(Commands - n) + 1] \in Nat
    BY <1>1, <1>2
  <2>2. \A n \in 1 .. Len(s) : s[(Len(s) - n) + 1] \in Nat
    BY <1>1
  <2> QED
    BY <1>1, <2>1, <2>2
<1>4. \A n \in 1 .. Commands : rf[n] = rs[n]
  <2> SUFFICES ASSUME NEW n \in 1 .. Commands PROVE f[(Commands - n) + 1] = s[(Len(s) - n) + 1]
    BY <1>1
  <2> DEFINE m == (Commands - n) + 1
  <2>1. m \in 1 .. Commands /\ (Len(s) - n) + 1 = (Len(s) - Commands) + m
    BY <1>1
  <2> HIDE DEF m
  <2>2. f[m] = m /\ s[(Len(s) - Commands) + m] = m
    BY <1>2, <2>1 DEF EndsIn
  <2> QED
    BY <2>1, <2>2 DEF m
<1> HIDE DEF rf, rs
<1>5. SubSeq(rf, 1, Commands) = SubSeq(rs, 1, Commands)
  <2>1. /\ SubSeq(rf, 1, Commands) = [n \in 1 .. Commands |-> rf[n]]
        /\ SubSeq(rs, 1, Commands) = [n \in 1 .. Commands |-> rs[n]]
    BY <1>1, <1>3
  <2> QED
    BY <1>4, <2>1
<1>6. Run!Reverse(Run!Full) = rf /\ Run!Reverse(s) = rs
  <2>1. Run!Full = f
    BY Zenon DEF Run!Full, f
  <2>2. Run!Reverse(f) = rf
    BY <1>2 DEF Run!Reverse, rf
  <2>3. Run!Reverse(s) = rs
    BY DEF Run!Reverse, rs
  <2> QED
    BY <2>1, <2>2, <2>3, Zenon
<1> QED
  BY <1>1, <1>3, <1>5, <1>6 DEF Run!IsSuffix, Run!IsPrefix

LEMMA RunStarts == Run!Init => RunInv
<1> SUFFICES ASSUME Run!Init PROVE RunInv
  OBVIOUS
<1> USE RunConstantsHold DEF RunConstants, Run!Init, Run!Host
<1>1. Len(hostQueue) = Hosts /\ hostQueue \in Seq(Nat) /\ RunTaken = 0
  BY DEF RunTaken
<1>2. \A t \in Threads : worker[t].at = "get"
  OBVIOUS
<1>3. RunTypes
  <2>1. worker \in [Threads -> RunPlaces]
    BY DEF RunPlaces
  <2>2. said \in [1 .. Hosts -> RunWords] /\ ran \in [1 .. Hosts -> Seq(Nat)]
    BY DEF RunWords
  <2> QED
    BY <1>1, <2>1, <2>2 DEF RunTypes
<1>4. RunQueue /\ RunOwned
  BY <1>1, <1>2 DEF RunQueue, RunOwned, RunBusy
<1>5. RunAts
  BY <1>2 DEF RunAts, RunAt
<1>6. RunHosts
  <2>1. \A h \in 1 .. Hosts : ran[h] = <<>> /\ said[h] = "nothing"
    OBVIOUS
  <2>2. 0 <= Retry
    OBVIOUS
  <2> QED
    BY <2>1, <2>2, RanNone, Zenon DEF RunHosts, RunHost
<1> QED
  BY <1>3, <1>4, <1>5, <1>6 DEF RunInv

\* A worker takes the next host, or finds that there is none.
LEMMA RunGetKeeps ==
  ASSUME RunInv, NEW t \in Threads, Run!Get(t) PROVE RunInv'
<1> USE RunConstantsHold DEF RunInv, RunConstants, Run!Host
<1>0. /\ worker[t].at = "get" /\ said' = said /\ ran' = ran /\ worker \in [Threads -> RunPlaces]
  BY DEF Run!Get, RunTypes
<1>1. CASE hostQueue = <<>>
  <2> DEFINE w == [worker[t] EXCEPT !.at = "ended"]
  <2>1. worker' = [worker EXCEPT ![t] = w] /\ hostQueue' = hostQueue
    BY <1>1 DEF Run!Get
  <2>2. w \in RunPlaces /\ w.at = "ended"
    BY <1>0 DEF RunPlaces
  <2> HIDE DEF w
  <2>3. /\ worker' \in [Threads -> RunPlaces] /\ worker'[t] = w
        /\ \A u \in Threads : u # t => worker'[u] = worker[u]
    BY <1>0, <2>1, <2>2
  <2>4. RunTaken' = RunTaken
    BY <2>1 DEF RunTaken
  <2>5. RunTypes'
    BY <1>0, <2>1, <2>3, Zenon DEF RunTypes
  <2>6. \A u \in Threads : RunBusy(u)' => u # t /\ RunBusy(u) /\ worker'[u] = worker[u]
    BY <2>2, <2>3 DEF RunBusy
  <2>7. RunQueue'
    BY <2>1, <2>4, Zenon DEF RunQueue
  <2>8. RunOwned'
    <3> SUFFICES ASSUME NEW v \in Threads, RunBusy(v)'
                 PROVE  /\ worker'[v].host \in 1 .. RunTaken
                        /\ \A u \in Threads : u # v /\ RunBusy(u)' => worker'[u].host # worker'[v].host
      BY <2>4, Zenon DEF RunOwned
    <3> QED
      BY <2>6, Zenon DEF RunOwned
  <2>9. RunAts'
    <3> SUFFICES ASSUME NEW u \in Threads
                 PROVE  RunAt(worker'[u], said[worker'[u].host], ran[worker'[u].host])
      BY <1>0, Zenon DEF RunAts
    <3>1. CASE u = t
      BY <2>2, <2>3, <3>1 DEF RunAt
    <3>2. CASE u # t
      BY <2>3, <3>2, Zenon DEF RunAts
    <3> QED
      BY <3>1, <3>2
  <2>10. RunHosts'
    BY <1>0, <2>4, ZenonT(30) DEF RunHosts, RunHost, InOrder, Begun, EndsIn
  <2> QED
    BY <2>5, <2>7, <2>8, <2>9, <2>10
<1>2. CASE hostQueue # <<>>
  <2> DEFINE next == RunTaken + 1
             w == [at |-> "connect", host |-> next, i |-> 0, k |-> 0, c |-> 1]
  <2>1. /\ Head(hostQueue) = next /\ Tail(hostQueue) \in Seq(Nat) /\ next \in 1 .. Hosts
        /\ Len(Tail(hostQueue)) = Len(hostQueue) - 1 /\ Len(hostQueue) \in Nat \ {0}
        /\ \A n \in 1 .. Len(Tail(hostQueue)) : Tail(hostQueue)[n] = hostQueue[n + 1]
    BY <1>2 DEF RunTypes, RunQueue, RunTaken
  <2>2. worker' = [worker EXCEPT ![t] = w] /\ hostQueue' = Tail(hostQueue)
    BY <1>2, <2>1 DEF Run!Get
  <2>3. RunTaken' = next /\ RunTaken \in Nat
    BY <2>1, <2>2 DEF RunTaken, RunQueue
  <2>4. /\ w \in RunPlaces /\ w.at = "connect" /\ w.host = next /\ w.i = 0 /\ w.c = 1
    BY <2>1 DEF RunPlaces
  <2>5. next \in 1 .. next /\ next \notin 1 .. RunTaken /\ 1 .. RunTaken \subseteq 1 .. next /\ next > RunTaken
    BY <2>3
  <2> HIDE DEF next, w
  <2>6. /\ worker' \in [Threads -> RunPlaces] /\ worker'[t] = w
        /\ \A u \in Threads : u # t => worker'[u] = worker[u]
    BY <1>0, <2>2, <2>4
  <2>7. RunTypes'
    BY <1>0, <2>1, <2>2, <2>6, Zenon DEF RunTypes
  <2>8. RunQueue'
    <3>1. \A n \in 1 .. Len(hostQueue') : hostQueue'[n] = RunTaken' + n
      <4> SUFFICES ASSUME NEW n \in 1 .. Len(Tail(hostQueue)) PROVE Tail(hostQueue)[n] = next + n
        BY <2>2, <2>3, Zenon
      <4>1. n + 1 \in 1 .. Len(hostQueue) /\ RunTaken \in Int
        BY <2>1, <2>3
      <4>2. Tail(hostQueue)[n] = RunTaken + (n + 1)
        BY <2>1, <4>1, Zenon DEF RunQueue
      <4> QED
        BY <4>1, <4>2 DEF next
    <3> QED
      BY <2>1, <2>2, <3>1 DEF RunQueue
  <2>9. RunOwned'
    <3>1. \A u \in Threads : RunBusy(u)' => u = t \/ (RunBusy(u) /\ worker'[u] = worker[u])
      BY <2>6 DEF RunBusy
    <3>2. \A u \in Threads : RunBusy(u) => worker[u].host \in 1 .. RunTaken
      BY DEF RunOwned
    <3> SUFFICES ASSUME NEW v \in Threads, RunBusy(v)'
                 PROVE  /\ worker'[v].host \in 1 .. next
                        /\ \A u \in Threads : u # v /\ RunBusy(u)' => worker'[u].host # worker'[v].host
      BY <2>3, Zenon DEF RunOwned
    <3>3. CASE v = t
      BY <2>4, <2>5, <2>6, <3>1, <3>2, <3>3, Zenon
    <3>4. CASE v # t
      <4>1. RunBusy(v) /\ worker'[v] = worker[v] /\ worker[v].host \in 1 .. RunTaken
        BY <3>1, <3>2, <3>4, Zenon
      <4>2. ASSUME NEW u \in Threads, u # v, RunBusy(u)' PROVE worker'[u].host # worker[v].host
        <5>1. CASE u = t
          BY <2>4, <2>5, <2>6, <4>1, <5>1, Zenon
        <5>2. CASE u # t
          BY <3>1, <4>1, <4>2, <5>2, ZenonT(30) DEF RunOwned
        <5> QED
          BY <5>1, <5>2
      <4> QED
        BY <2>5, <4>1, <4>2, Zenon
    <3> QED
      BY <3>3, <3>4
  <2>10. RunAts'
    <3> SUFFICES ASSUME NEW v \in Threads
                 PROVE  RunAt(worker'[v], said[worker'[v].host], ran[worker'[v].host])
      BY <1>0, Zenon DEF RunAts
    <3>1. CASE v = t
      <4>1. ran[next] = <<>> /\ said[next] = "nothing"
        BY <2>1, <2>5, Zenon DEF RunHosts, RunHost
      <4>2. 0 < Retry /\ 1 \in 1 .. Commands /\ 0 <= 0 + 0
        OBVIOUS
      <4> QED
        BY <2>4, <2>6, <3>1, <4>1, <4>2, RanNone DEF RunAt
    <3>2. CASE v # t
      <4>1. worker'[v] = worker[v]
        BY <2>6, <3>2
      <4> QED
        BY <4>1, Zenon DEF RunAts
    <3> QED
      BY <3>1, <3>2
  <2>11. RunHosts'
    <3>1. \A h \in 1 .. Hosts : h > next => h > RunTaken
      BY <2>3 DEF next
    <3> QED
      BY <1>0, <2>3, <3>1, ZenonT(30) DEF RunHosts, RunHost, InOrder, Begun, EndsIn
  <2> QED
    BY <2>7, <2>8, <2>9, <2>10, <2>11
<1> QED
  BY <1>1, <1>2

\* A worker goes on with its host, or is done with it.
LEMMA RunWorkKeeps ==
  ASSUME RunInv, NEW t \in Threads, RunBusy(t), NEW h \in Int, h = worker[t].host,
         hostQueue' = hostQueue,
         NEW w \in RunPlaces, worker' = [worker EXCEPT ![t] = w],
         w.at \in {"get", "connect", "run"}, w.host = h,
         said' \in [Run!Host -> RunWords], ran' \in [Run!Host -> Seq(Nat)],
         \A n \in Run!Host : n # h => said'[n] = said[n] /\ ran'[n] = ran[n],
         InOrder(ran'[h]), Cardinality(Begun(ran'[h])) <= Retry,
         said'[h] = "complete" => EndsIn(ran'[h], Commands),
         RunAt(w, said'[h], ran'[h])
  PROVE  RunInv'
<1> USE RunConstantsHold DEF RunInv, RunConstants, Run!Host
<1>1. RunTaken' = RunTaken /\ RunTaken \in Nat /\ RunTaken <= Hosts
  BY DEF RunTaken, RunTypes, RunQueue
<1>2. /\ h \in 1 .. RunTaken /\ h \in 1 .. Hosts
      /\ \A u \in Threads : u # t /\ RunBusy(u) => worker[u].host # h
      /\ \A u \in Threads : RunBusy(u) => worker[u].host \in 1 .. Hosts
  BY <1>1 DEF RunOwned
<1>3. /\ worker' \in [Threads -> RunPlaces] /\ worker'[t] = w
      /\ \A u \in Threads : u # t => worker'[u] = worker[u]
  BY DEF RunTypes
<1>4. RunTypes'
  BY <1>3, Zenon DEF RunTypes
<1>5. RunQueue'
  BY <1>1, Zenon DEF RunQueue
<1>6. RunOwned'
  <2> SUFFICES ASSUME NEW u \in Threads, RunBusy(u)'
               PROVE  /\ worker'[u].host \in 1 .. RunTaken
                      /\ \A v \in Threads : v # u /\ RunBusy(v)' => worker'[v].host # worker'[u].host
    BY <1>1, Zenon DEF RunOwned
  <2>1. \A v \in Threads : RunBusy(v)' => RunBusy(v) /\ worker'[v].host = worker[v].host
    BY <1>3 DEF RunBusy
  <2> QED
    BY <2>1, ZenonT(30) DEF RunOwned
<1>7. RunAts'
  <2> SUFFICES ASSUME NEW u \in Threads
               PROVE  RunAt(worker'[u], said'[worker'[u].host], ran'[worker'[u].host])
    BY Zenon DEF RunAts
  <2>1. CASE u = t
    BY <1>3, <2>1, Zenon
  <2>2. CASE u # t
    <3>1. worker'[u] = worker[u]
      BY <1>3, <2>2
    <3> SUFFICES ASSUME RunBusy(u)
                 PROVE  RunAt(worker[u], said'[worker[u].host], ran'[worker[u].host])
      BY <3>1 DEF RunAt, RunBusy
    <3>2. worker[u].host # h /\ worker[u].host \in 1 .. Hosts
      BY <1>2, <2>2
    <3>3. /\ said'[worker[u].host] = said[worker[u].host]
          /\ ran'[worker[u].host] = ran[worker[u].host]
      BY <3>2, Zenon
    <3> QED
      BY <3>3, Zenon DEF RunAts
  <2> QED
    BY <2>1, <2>2
<1>8. RunHosts'
  <2> SUFFICES ASSUME NEW n \in 1 .. Hosts
               PROVE  /\ n > RunTaken => ran'[n] = <<>> /\ said'[n] = "nothing"
                      /\ InOrder(ran'[n]) /\ Cardinality(Begun(ran'[n])) <= Retry
                      /\ said'[n] = "complete" => EndsIn(ran'[n], Commands)
    BY <1>1, Zenon DEF RunHosts, RunHost, InOrder, Begun, EndsIn
  <2>1. CASE n = h
    <3>1. ~(n > RunTaken)
      BY <1>1, <1>2, <2>1
    <3> QED
      BY <2>1, <3>1, Zenon
  <2>2. CASE n # h
    BY <2>2, Zenon DEF RunHosts, RunHost
  <2> QED
    BY <2>1, <2>2
<1> QED
  BY <1>4, <1>5, <1>6, <1>7, <1>8

\* What is known of a worker that is busy.
LEMMA RunBusyFacts ==
  ASSUME RunInv, NEW t \in Threads, RunBusy(t)
  PROVE  /\ worker[t] \in RunPlaces /\ worker[t].host \in 1 .. Hosts /\ worker[t].i < Retry
         /\ worker[t].c \in 1 .. Commands /\ said[worker[t].host] \in RunWords \ {"complete"}
         /\ ran[worker[t].host] \in Seq(Nat) /\ InOrder(ran[worker[t].host])
         /\ Cardinality(Begun(ran[worker[t].host])) <= Retry
         /\ Cardinality(Begun(ran[worker[t].host])) \in Nat
         /\ Cardinality(Begun(ran[worker[t].host])) <=
              worker[t].i + (IF worker[t].at = "run" /\ worker[t].c > 1 THEN 1 ELSE 0)
         /\ worker[t].at = "run" => EndsIn(ran[worker[t].host], worker[t].c - 1)
<1> DEFINE h == worker[t].host
<1>1. h \in 1 .. Hosts /\ worker[t] \in RunPlaces
  BY RunConstantsHold DEF RunConstants, RunInv, RunOwned, RunTaken, RunQueue, RunTypes
<1>2. said[h] \in RunWords /\ ran[h] \in Seq(Nat)
  BY <1>1 DEF RunInv, RunTypes, Run!Host
<1>3. RunAt(worker[t], said[h], ran[h]) /\ RunHost(h)
  BY <1>1, Zenon DEF RunInv, RunAts, RunHosts, Run!Host
<1>4. Cardinality(Begun(ran[h])) \in Nat
  BY <1>2, BegunFinite
<1> QED
  BY <1>1, <1>2, <1>3, <1>4, Zenon DEF RunAt, RunHost, RunBusy

LEMMA RunConnectKeeps ==
  ASSUME RunInv, NEW t \in Threads, Run!Connect(t) PROVE RunInv'
<1> USE RunConstantsHold DEF RunConstants, Run!Host
<1> DEFINE h == worker[t].host
           w0 == worker[t]
           w1 == [w0 EXCEPT !.at = "run", !.c = 1]
           w2 == [w0 EXCEPT !.k = @ + 1]
           w3 == [w0 EXCEPT !.at = "get"]
<1>1. w0.at = "connect" /\ RunBusy(t) /\ hostQueue' = hostQueue /\ ran' = ran
  BY Zenon DEF Run!Connect, RunBusy
<1>2. /\ w0 \in RunPlaces /\ w0.host = h /\ h \in 1 .. Hosts /\ h \in Int /\ w0.i < Retry
      /\ w0.c \in 1 .. Commands /\ said[h] # "complete" /\ ran[h] \in Seq(Nat)
      /\ InOrder(ran[h]) /\ Cardinality(Begun(ran[h])) <= Retry
      /\ Cardinality(Begun(ran[h])) \in Nat /\ Cardinality(Begun(ran[h])) <= w0.i
  BY <1>1, RunBusyFacts DEF RunPlaces
<1>3. worker \in [Threads -> RunPlaces] /\ said \in [1 .. Hosts -> RunWords] /\ ran \in [1 .. Hosts -> Seq(Nat)]
  BY DEF RunInv, RunTypes
<1>4. \/ worker' = [worker EXCEPT ![t] = w1] /\ said' = said
      \/ worker' = [worker EXCEPT ![t] = w2] /\ said' = [said EXCEPT ![h] = "cannot connect, again"]
      \/ worker' = [worker EXCEPT ![t] = w3] /\ said' = [said EXCEPT ![h] = "cannot connect, skip"]
  <2>1. [worker EXCEPT ![t].at = "run", ![t].c = 1] = [worker EXCEPT ![t] = w1]
    BY <1>3
  <2>2. [worker EXCEPT ![t].k = @ + 1] = [worker EXCEPT ![t] = w2]
    BY <1>3
  <2>3. [worker EXCEPT ![t].at = "get"] = [worker EXCEPT ![t] = w3]
    BY <1>3
  <2> QED
    BY <2>1, <2>2, <2>3, Zenon DEF Run!Connect, Run!Says
<1> HIDE DEF h, w0
<1>5. /\ w1 \in RunPlaces /\ w1.at = "run" /\ w1.host = h /\ w1.c = 1 /\ w1.i = w0.i
      /\ w2 \in RunPlaces /\ w2.at = w0.at /\ w2.host = h /\ w2.c = w0.c /\ w2.i = w0.i
      /\ w3 \in RunPlaces /\ w3.at = "get" /\ w3.host = h
  <2>1. w0.k + 1 \in Nat /\ w0.host = h
    BY <1>2 DEF RunPlaces
  <2>2. w1 \in RunPlaces /\ w1.at = "run" /\ w1.host = h /\ w1.c = 1 /\ w1.i = w0.i
    BY <1>2, <2>1 DEF RunPlaces
  <2>3. w2 \in RunPlaces /\ w2.at = w0.at /\ w2.host = h /\ w2.c = w0.c /\ w2.i = w0.i
    BY <1>2, <2>1 DEF RunPlaces
  <2>4. w3 \in RunPlaces /\ w3.at = "get" /\ w3.host = h
    BY <1>2, <2>1 DEF RunPlaces
  <2> QED
    BY <2>2, <2>3, <2>4
<1> HIDE DEF w1, w2, w3
<1>6. ASSUME NEW w \in {w1, w2, w3}, worker' = [worker EXCEPT ![t] = w],
             said' \in [1 .. Hosts -> RunWords], said'[h] # "complete",
             \A n \in 1 .. Hosts : n # h => said'[n] = said[n]
      PROVE  RunInv'
  <2>1. w \in RunPlaces /\ w.at \in {"get", "connect", "run"} /\ w.host = h
    BY <1>1, <1>5
  <2>2. RunAt(w, said'[h], ran'[h])
    <3> SUFFICES ASSUME w.at \in {"connect", "run"}
                 PROVE  /\ w.i < Retry /\ w.c \in 1 .. Commands
                        /\ Cardinality(Begun(ran[h])) <= w.i + (IF w.at = "run" /\ w.c > 1 THEN 1 ELSE 0)
                        /\ w.at = "run" => EndsIn(ran[h], w.c - 1)
      BY <1>1, <1>6, Zenon DEF RunAt
    <3>1. 1 \in 1 .. Commands /\ 1 - 1 = 0 /\ EndsIn(ran[h], 0)
      BY <1>2 DEF EndsIn
    <3>2. CASE w = w1
      <4>1. w.at = "run" /\ w.c = 1 /\ w.i = w0.i
        BY <1>5, <3>2
      <4>2. w.i < Retry /\ w.c \in 1 .. Commands /\ EndsIn(ran[h], w.c - 1)
        BY <1>2, <3>1, <4>1
      <4>3. Cardinality(Begun(ran[h])) <= w.i + (IF w.at = "run" /\ w.c > 1 THEN 1 ELSE 0)
        <5>1. ~(w.c > 1) /\ w0.i \in Nat
          BY <1>2, <4>1 DEF RunPlaces
        <5>2. (IF w.at = "run" /\ w.c > 1 THEN 1 ELSE 0) = 0
          BY <5>1
        <5> QED
          BY <1>2, <4>1, <5>1, <5>2
      <4> QED
        BY <4>2, <4>3
    <3>3. CASE w = w2
      <4>1. w.at = "connect" /\ w.c = w0.c /\ w.i = w0.i /\ w0.i \in Nat
        BY <1>1, <1>2, <1>5, <3>3 DEF RunPlaces
      <4>2. (IF w.at = "run" /\ w.c > 1 THEN 1 ELSE 0) = 0
        BY <4>1
      <4> QED
        BY <1>2, <4>1, <4>2
    <3>4. CASE w = w3
      BY <1>5, <3>4
    <3> QED
      BY <3>2, <3>3, <3>4
  <2>3. h = worker[t].host
    BY DEF h
  <2> QED
    BY <1>1, <1>2, <1>3, <1>6, <2>1, <2>2, <2>3, RunWorkKeeps, Zenon
<1>7. ASSUME NEW s \in RunWords \ {"complete"}, said' = [said EXCEPT ![h] = s]
      PROVE  /\ said' \in [1 .. Hosts -> RunWords] /\ said'[h] # "complete"
             /\ \A n \in 1 .. Hosts : n # h => said'[n] = said[n]
  BY <1>2, <1>3, <1>7
<1>8. "cannot connect, again" \in RunWords \ {"complete"} /\ "cannot connect, skip" \in RunWords \ {"complete"}
  BY DEF RunWords
<1>9. CASE worker' = [worker EXCEPT ![t] = w1] /\ said' = said
  BY <1>2, <1>3, <1>6, <1>9
<1>10. CASE worker' = [worker EXCEPT ![t] = w2] /\ said' = [said EXCEPT ![h] = "cannot connect, again"]
  <2>1. /\ said' \in [1 .. Hosts -> RunWords] /\ said'[h] # "complete"
        /\ \A n \in 1 .. Hosts : n # h => said'[n] = said[n]
    BY <1>7, <1>8, <1>10, Zenon
  <2> QED
    BY <1>6, <1>10, <2>1, Zenon
<1>11. CASE worker' = [worker EXCEPT ![t] = w3] /\ said' = [said EXCEPT ![h] = "cannot connect, skip"]
  <2>1. /\ said' \in [1 .. Hosts -> RunWords] /\ said'[h] # "complete"
        /\ \A n \in 1 .. Hosts : n # h => said'[n] = said[n]
    BY <1>7, <1>8, <1>11, Zenon
  <2> QED
    BY <1>6, <1>11, <2>1, Zenon
<1> QED
  BY <1>4, <1>9, <1>10, <1>11, Zenon

\* What a command that is run, or was perhaps run when the session broke, leaves on its host.
LEMMA RunExecuted ==
  ASSUME RunInv, NEW t \in Threads, worker[t].at = "run", NEW h \in Int, h = worker[t].host,
         Run!Executed(t) \/ ran' = ran
  PROVE  /\ ran' \in [Run!Host -> Seq(Nat)]
         /\ \A n \in Run!Host : n # h => ran'[n] = ran[n]
         /\ InOrder(ran'[h]) /\ Cardinality(Begun(ran'[h])) \in Nat
         /\ Cardinality(Begun(ran'[h])) <= worker[t].i + 1
         /\ Run!Executed(t) => EndsIn(ran'[h], worker[t].c)
<1> USE RunConstantsHold DEF RunConstants, Run!Host
<1> DEFINE c == worker[t].c
           s == ran[h]
<1>0. RunBusy(t) /\ ran \in [1 .. Hosts -> Seq(Nat)]
  BY DEF RunBusy, RunInv, RunTypes
<1>1. /\ h \in 1 .. Hosts /\ s \in Seq(Nat) /\ InOrder(s) /\ c \in Nat \ {0} /\ EndsIn(s, c - 1)
      /\ Cardinality(Begun(s)) \in Nat /\ worker[t].i \in Nat
      /\ Cardinality(Begun(s)) <= worker[t].i + (IF c > 1 THEN 1 ELSE 0)
  BY <1>0, RunBusyFacts DEF RunPlaces
<1>2. CASE ran' = ran
  <2>1. Cardinality(Begun(ran'[h])) = Cardinality(Begun(s))
    BY <1>2
  <2>2. Cardinality(Begun(s)) <= worker[t].i + 1
    BY <1>1
  <2>3. ~Run!Executed(t)
    <3> SUFFICES ASSUME Run!Executed(t) PROVE FALSE
      OBVIOUS
    <3>1. ran'[h] = Append(s, c)
      BY <1>0, <1>1 DEF Run!Executed
    <3>2. Len(ran'[h]) = Len(s) + 1 /\ Len(s) \in Nat
      BY <1>1, <3>1
    <3> QED
      BY <1>2, <3>2
  <2> QED
    BY <1>0, <1>1, <1>2, <2>1, <2>2, <2>3
<1>3. CASE Run!Executed(t)
  <2> DEFINE e == Append(s, c)
  <2>1. ran' = [ran EXCEPT ![h] = e]
    BY <1>3 DEF Run!Executed
  <2>2. /\ e \in Seq(Nat) /\ InOrder(e) /\ EndsIn(e, c)
        /\ Cardinality(Begun(e)) = Cardinality(Begun(s)) + (IF c = 1 THEN 1 ELSE 0)
    BY <1>1, RanMore, Zenon
  <2> HIDE DEF e
  <2>3. Cardinality(Begun(e)) \in Nat /\ Cardinality(Begun(e)) <= worker[t].i + 1
    BY <1>1, <2>2, SMTT(30)
  <2>4. /\ ran' \in [1 .. Hosts -> Seq(Nat)] /\ ran'[h] = e
        /\ \A n \in 1 .. Hosts : n # h => ran'[n] = ran[n]
    BY <1>0, <1>1, <2>1, <2>2
  <2> QED
    BY <2>2, <2>3, <2>4
<1> QED
  BY <1>2, <1>3

LEMMA RunRunKeeps ==
  ASSUME RunInv, NEW t \in Threads, Run!Run(t) PROVE RunInv'
<1> USE RunConstantsHold DEF RunConstants, Run!Host
<1> DEFINE h == worker[t].host
           w0 == worker[t]
           w1 == [w0 EXCEPT !.at = "get"]
           w2 == [w0 EXCEPT !.c = @ + 1]
<1>1. w0.at = "run" /\ RunBusy(t) /\ hostQueue' = hostQueue /\ Run!Executed(t)
  BY DEF Run!Run, RunBusy
<1>2. /\ w0 \in RunPlaces /\ w0.host = h /\ h \in 1 .. Hosts /\ h \in Int /\ w0.i < Retry /\ w0.i \in Nat
      /\ w0.c \in 1 .. Commands /\ said[h] # "complete"
  BY <1>1, RunBusyFacts DEF RunPlaces
<1>3. worker \in [Threads -> RunPlaces] /\ said \in [1 .. Hosts -> RunWords]
  BY DEF RunInv, RunTypes
<1>4. /\ ran' \in [1 .. Hosts -> Seq(Nat)] /\ \A n \in 1 .. Hosts : n # h => ran'[n] = ran[n]
      /\ InOrder(ran'[h]) /\ Cardinality(Begun(ran'[h])) \in Nat
      /\ Cardinality(Begun(ran'[h])) <= w0.i + 1 /\ EndsIn(ran'[h], w0.c)
  BY <1>1, <1>2, RunExecuted
<1>5. \/ w0.c = Commands /\ worker' = [worker EXCEPT ![t] = w1] /\ said' = [said EXCEPT ![h] = "complete"]
      \/ w0.c # Commands /\ worker' = [worker EXCEPT ![t] = w2] /\ said' = said
  <2>1. [worker EXCEPT ![t].at = "get"] = [worker EXCEPT ![t] = w1]
    BY <1>3
  <2>2. [worker EXCEPT ![t].c = @ + 1] = [worker EXCEPT ![t] = w2]
    BY <1>3
  <2> QED
    BY <2>1, <2>2, Zenon DEF Run!Run, Run!AfterCommand, Run!Says
<1>6. h = worker[t].host
  OBVIOUS
<1> HIDE DEF h, w0
<1>7. /\ w1 \in RunPlaces /\ w1.at = "get" /\ w1.host = h
      /\ w2 \in RunPlaces /\ w2.at = "run" /\ w2.host = h /\ w2.c = w0.c + 1 /\ w2.i = w0.i
  BY <1>1, <1>2 DEF RunPlaces
<1> HIDE DEF w1, w2
<1>8. Cardinality(Begun(ran'[h])) <= Retry
  BY <1>2, <1>4
<1>9. CASE w0.c = Commands /\ worker' = [worker EXCEPT ![t] = w1] /\ said' = [said EXCEPT ![h] = "complete"]
  <2>1. "complete" \in RunWords
    BY DEF RunWords
  <2>2. /\ said' \in [1 .. Hosts -> RunWords]
        /\ \A n \in 1 .. Hosts : n # h => said'[n] = said[n]
    BY <1>2, <1>3, <1>9, <2>1
  <2>3. RunAt(w1, said'[h], ran'[h])
    BY <1>7 DEF RunAt
  <2>4. w1.at \in {"get", "connect", "run"} /\ EndsIn(ran'[h], Commands)
    BY <1>4, <1>7, <1>9
  <2>5. \A n \in 1 .. Hosts : n # h => said'[n] = said[n] /\ ran'[n] = ran[n]
    BY <1>4, <2>2
  <2> QED
    BY <1>1, <1>2, <1>4, <1>6, <1>7, <1>8, <1>9, <2>2, <2>3, <2>4, <2>5, RunWorkKeeps, ZenonT(30)
<1>10. CASE w0.c # Commands /\ worker' = [worker EXCEPT ![t] = w2] /\ said' = said
  <2>1. w0.c + 1 \in 1 .. Commands /\ w0.c + 1 > 1 /\ (w0.c + 1) - 1 = w0.c
    BY <1>2, <1>10
  <2>2. RunAt(w2, said'[h], ran'[h])
    BY <1>2, <1>4, <1>7, <1>10, <2>1 DEF RunAt
  <2>3. w2.at \in {"get", "connect", "run"} /\ said'[h] # "complete"
    BY <1>2, <1>7, <1>10
  <2>4. \A n \in 1 .. Hosts : n # h => said'[n] = said[n] /\ ran'[n] = ran[n]
    BY <1>4, <1>10
  <2> QED
    BY <1>1, <1>2, <1>3, <1>4, <1>6, <1>7, <1>8, <1>10, <2>2, <2>3, <2>4, RunWorkKeeps, ZenonT(30)
<1> QED
  BY <1>5, <1>9, <1>10

LEMMA RunLostKeeps ==
  ASSUME RunInv, NEW t \in Threads, Run!Lost(t) PROVE RunInv'
<1> USE RunConstantsHold DEF RunConstants, Run!Host
<1> DEFINE h == worker[t].host
           w0 == worker[t]
           w1 == [w0 EXCEPT !.at = "connect", !.i = w0.i + 1, !.k = 0]
           w2 == [w0 EXCEPT !.at = "get"]
<1>1. w0.at = "run" /\ RunBusy(t) /\ hostQueue' = hostQueue /\ (Run!Executed(t) \/ ran' = ran)
  BY Zenon DEF Run!Lost, RunBusy
<1>2. /\ w0 \in RunPlaces /\ w0.host = h /\ h \in 1 .. Hosts /\ h \in Int /\ w0.i < Retry /\ w0.i \in Nat
      /\ w0.c \in 1 .. Commands
  BY <1>1, RunBusyFacts DEF RunPlaces
<1>3. said \in [1 .. Hosts -> RunWords]
  BY DEF RunInv, RunTypes
<1>4. /\ ran' \in [1 .. Hosts -> Seq(Nat)] /\ \A n \in 1 .. Hosts : n # h => ran'[n] = ran[n]
      /\ InOrder(ran'[h]) /\ Cardinality(Begun(ran'[h])) \in Nat
      /\ Cardinality(Begun(ran'[h])) <= w0.i + 1
  BY <1>1, <1>2, RunExecuted
<1>5. /\ worker' = [worker EXCEPT ![t] = IF w0.i + 1 < Retry THEN w1 ELSE w2]
      /\ said' = [said EXCEPT ![h] = "lost, again"]
  BY Zenon DEF Run!Lost, Run!AfterLoss, Run!Says
<1>6. h = worker[t].host
  OBVIOUS
<1> HIDE DEF h, w0
<1>7. /\ w1 \in RunPlaces /\ w1.at = "connect" /\ w1.host = h /\ w1.c = w0.c /\ w1.i = w0.i + 1
      /\ w2 \in RunPlaces /\ w2.at = "get" /\ w2.host = h
  <2>1. w0.i + 1 \in Nat /\ w0.host = h
    BY <1>2
  <2>2. w1 \in RunPlaces /\ w1.at = "connect" /\ w1.host = h /\ w1.c = w0.c /\ w1.i = w0.i + 1
    BY <1>2, <2>1 DEF RunPlaces
  <2>3. w2 \in RunPlaces /\ w2.at = "get" /\ w2.host = h
    BY <1>2, <2>1 DEF RunPlaces
  <2> QED
    BY <2>2, <2>3
<1> HIDE DEF w1, w2
<1>8. Cardinality(Begun(ran'[h])) <= Retry
  BY <1>2, <1>4
<1>9. "lost, again" \in RunWords
  BY DEF RunWords
<1>10. /\ said' \in [1 .. Hosts -> RunWords] /\ said'[h] # "complete"
       /\ \A n \in 1 .. Hosts : n # h => said'[n] = said[n]
  BY <1>2, <1>3, <1>5, <1>9, Zenon
<1> DEFINE w == IF w0.i + 1 < Retry THEN w1 ELSE w2
<1>11. w \in RunPlaces /\ w.at \in {"get", "connect", "run"} /\ w.host = h
  BY <1>7
<1>12. RunAt(w, said'[h], ran'[h])
  BY <1>2, <1>4, <1>7, <1>10 DEF RunAt
<1>13. worker' = [worker EXCEPT ![t] = w]
  BY <1>5, Zenon
<1> HIDE DEF w
<1> QED
  BY <1>1, <1>2, <1>4, <1>6, <1>8, <1>10, <1>11, <1>12, <1>13, RunWorkKeeps, ZenonT(30)

LEMMA RunOrdered == RunInv => Run!CommandsInOrder
<1> DEFINE Ordered(h) == \A n \in DOMAIN ran[h] :
                           ran[h][n] = IF n = 1 \/ ran[h][n] = 1 THEN 1 ELSE ran[h][n - 1] + 1
<1>0. ASSUME \A h \in Run!Host : /\ Ordered(h) /\ Cardinality(Run!Sessions(h)) <= Retry
                                 /\ said[h] = "complete" => Run!IsSuffix(Run!Full, ran[h])
      PROVE  Run!CommandsInOrder
  <2>1. \A S : Run!Cardinality(S) = Cardinality(S)
    BY Zenon DEF Run!Cardinality, Cardinality
  <2> QED
    BY <1>0, <2>1 DEF Run!CommandsInOrder
<1> SUFFICES ASSUME RunInv, NEW h \in Run!Host
             PROVE  /\ Ordered(h) /\ Cardinality(Run!Sessions(h)) <= Retry
                    /\ said[h] = "complete" => Run!IsSuffix(Run!Full, ran[h])
  BY <1>0
<1>1. ran[h] \in Seq(Nat) /\ DOMAIN ran[h] = 1 .. Len(ran[h])
  BY DEF RunInv, RunTypes
<1>2. RunHost(h) /\ Run!Sessions(h) = Begun(ran[h])
  BY <1>1, Zenon DEF RunInv, RunHosts, Run!Sessions, Begun
<1> QED
  BY <1>1, <1>2, EndsInFull, Zenon DEF RunHost, InOrder

FarmRun == part = "rtac" => RunInv

LEMMA RunHolds ==
  /\ Init => FarmRun
  /\ FarmRun /\ [Next]_allvars => FarmRun'
  /\ FarmRun => (part = "rtac" => Run!CommandsInOrder)
<1>1. Init => FarmRun
  BY RunStarts DEF Init, FarmRun
<1>2. FarmRun /\ [Next]_allvars => FarmRun'
  <2> SUFFICES ASSUME RunInv, [Next]_allvars, part = "rtac" PROVE RunInv'
    BY PartStays DEF FarmRun
  <2>1. CASE UNCHANGED allvars
    <3>1. hostQueue' = hostQueue /\ worker' = worker /\ said' = said /\ ran' = ran
      BY <2>1 DEF allvars, RunAlone
    <3> QED
      BY <3>1, Zenon DEF RunInv, RunTypes, RunQueue, RunOwned, RunAts, RunHosts, RunHost, RunTaken,
                  RunBusy
  <2>2. CASE Run!Next
    BY <2>2, RunGetKeeps, RunConnectKeeps, RunRunKeeps, RunLostKeeps, Zenon DEF Run!Next, Run!Worker
  <2> QED
    BY <2>1, <2>2, PartStays
<1>3. FarmRun => (part = "rtac" => Run!CommandsInOrder)
  BY RunOrdered DEF FarmRun
<1> QED
  BY <1>1, <1>2, <1>3

-----------------------------------------------------------------------------
\* What is known of the program that runs.
IInv == AucInv /\ CoreInv /\ HandInv /\ FarmStat /\ FarmRun

LEMMA Invariant == Spec => []IInv
<1>1. Init => IInv
  BY AucHolds, CoreHolds, HandHolds, StatHolds, RunHolds, Zenon DEF IInv
<1>2. IInv /\ [Next]_allvars => IInv'
  BY AucHolds, CoreHolds, HandHolds, StatHolds, RunHolds, Zenon DEF IInv
<1> QED
  BY <1>1, <1>2, PTL DEF Spec

\* auc.c, mm_api.c: whichever of the programs runs, its state has its type.
THEOREM WellTyped == Spec => []TypeOK
<1>1. IInv => TypeOK
  BY AucHolds, CoreHolds, Zenon DEF IInv, TypeOK
<1> QED
  BY <1>1, Invariant, PTL

\* auc.c, auc_init and usb_transfer: the driver dereferences NULL only after a failure.
THEOREM CrashIsCaused == Spec => []CrashHasCause
<1>1. IInv => CrashHasCause
  BY AucHolds, Zenon DEF IInv
<1> QED
  BY <1>1, Invariant, PTL

\* auc.c, usb_transfer, and iic_auc.c, i2c_write: an answer is taken for the packet it
\* answers, and what worked has reached every AUC.
THEOREM TransfersAreTrusted == Spec => TransfersTrusted
<1>1. IInv /\ [Next]_allvars => [part = "auc" => Auc!OwnAnswerTaken /\ Auc!WriteReaches]_allvars
  BY AucHolds, Zenon DEF IInv
<1> QED
  BY <1>1, Invariant, PTL DEF Spec, TransfersTrusted

\* mm_api.c, mm_test and mm_coretest: one module is tested after the other, and those that
\* are not under test are kept working.
THEOREM TestedInTurn == Spec => []TestsInTurn
<1>1. IInv => TestsInTurn
  BY CoreHolds, Zenon DEF IInv
<1> QED
  BY <1>1, Invariant, PTL

\* mm_api.c, mm_corereport: a report is of a module of the AUC at hand.
THEOREM ThisAucIsReported == Spec => ReportsThisAuc
<1>1. IInv /\ [Next]_allvars => [part = "core" => Core!ThisAucReported]_allvars
  BY CoreHolds, Zenon DEF IInv
<1> QED
  BY <1>1, Invariant, PTL DEF Spec, ReportsThisAuc

\* chkstat.py, the worker threads and the table: a miner is asked once, its row says what it
\* has answered, and the table is only missing where chkstat raises.  rtacThread.py: on each
\* host the commands run in order, and "complete" is said of a host that has run them all.
THEOREM HostsAreAccounted == Spec => []HostsAccounted
<1>1. IInv => HostsAccounted
  BY StatHolds, RunHolds, Zenon DEF IInv, HostsAccounted
<1> QED
  BY <1>1, Invariant, PTL

\* libusb, core.c and linux_usbfs.c: between its calls a handle takes for claimed what it
\* has in the kernel.
THEOREM ClaimsAreBound == Spec => []HandlesAgree
<1>1. IInv => HandlesAgree
  BY HandHolds, Zenon DEF IInv
<1> QED
  BY <1>1, Invariant, PTL
=============================================================================
