------------------------------ MODULE CoreTest ------------------------------
(***************************************************************************)
(* mm-tools -c: the core test of mm_api.c.  One AUC after the other, the    *)
(* tool gives every MM module on it an id (mm_detect), tests the modules    *)
(* one by one (mm_test), and writes the report (mm_corereport).  A step is   *)
(* one auc_xfer; its result decides what comes next, and the results of the *)
(* sends are never looked at.                                               *)
(***************************************************************************)
EXTENDS Integers, FiniteSets

CONSTANTS
  AucCnts,                \* what auc_getcounts found
  Modules,                \* the MM modules
  AucOf,                  \* the AUC each module hangs on
  AVA4_DEFAULT_MODULARS,  \* size of reportlist
  AVA4_DEFAULT_MINERS,    \* a module under test answers once for each, and once more
  MaxFaults,              \* bound: transfers and calls that fail
  Fake                    \* the module jansson_test invents

MM == 1 .. AVA4_DEFAULT_MODULARS - 1

CoreTestAssumption ==
  /\ AucCnts \in Nat
  /\ AucOf \in [Modules -> 0 .. AucCnts - 1]
  /\ IsFiniteSet(Modules)
  /\ AVA4_DEFAULT_MODULARS \in Nat /\ AVA4_DEFAULT_MODULARS > Cardinality(Modules)
  /\ AVA4_DEFAULT_MINERS \in Nat \ {0}
  /\ MaxFaults \in Nat
  /\ Fake \notin Modules

VARIABLES
  pc,           \* where the tool is
  auc,          \* i of mm_coretest, and g_auc_id
  i,            \* the id mm_detect hands out; the module mm_test tests
  j,            \* the module mm_test keeps alive
  miner_index,  \* answers mm_test counted
  reportlist,   \* the report of each id
  log,          \* /tmp/coretest.log: the reports in it
  idOf,         \* the modules: the id each of them took, 0: none
  left,         \* the modules: answers each still has to give to its test
  quiet,        \* history: transfers of mm_test since each id was last addressed
  faults        \* failures so far

toolVars   == <<pc, auc, i, j, miner_index, reportlist>>
deviceVars == <<idOf, left>>
vars       == <<toolVars, log, deviceVars, quiet, faults>>

\* An all-zero struct mmreport.
Nobody == [auc |-> -1, dna |-> Fake, mm_enable |-> FALSE]
Cleared == [k \in MM |-> Nobody]

\* What jansson_test makes up: it calls itself AV4-1.
Invented == [auc |-> 1, dna |-> Fake, mm_enable |-> FALSE]

Entries == [auc : {-1, 1} \cup 0 .. AucCnts - 1, dna : Modules \cup {Fake}, mm_enable : BOOLEAN]

Enabled == {k \in MM : reportlist[k].mm_enable}

\* The loops over the modules: the first enabled id from k on, or the end.
FirstFrom(k, S) ==
  LET above == {n \in S : n >= k} IN
  IF above = {} THEN AVA4_DEFAULT_MODULARS
  ELSE CHOOSE n \in above : \A o \in above : n <= o

Addressed == {m \in Modules : AucOf[m] = auc /\ idOf[m] = i}

Fault == faults < MaxFaults /\ faults' = faults + 1

\* mm_test addresses module k: everybody else is quiet for one transfer more.
Hears(k) == quiet' = [n \in MM |-> IF n = k \/ n \notin Enabled THEN 0 ELSE quiet[n] + 1]

-----------------------------------------------------------------------------
Init ==
  /\ pc = "jansson_test" /\ auc = 0 /\ i = 1 /\ j = 1 /\ miner_index = 0
  /\ reportlist = Cleared
  /\ log = {}
  /\ idOf = [m \in Modules |-> 0]
  /\ left = [m \in Modules |-> 0]
  /\ quiet = [k \in MM |-> 0]
  /\ faults = 0

\* jansson_test: a made-up report replaces the log.
jansson_test ==
  /\ pc = "jansson_test"
  /\ pc' = "open"
  /\ reportlist' = [Cleared EXCEPT ![1] = Invented]
  /\ \/ log' = {<<30, Invented>>} /\ UNCHANGED faults
     \/ UNCHANGED log /\ Fault
  /\ UNCHANGED <<auc, i, j, miner_index, deviceVars, quiet>>

Open_NoMemset ==
  /\ pc = "open" /\ auc < AucCnts
  /\ \/ /\ pc' = "detect_send" /\ i' = 1
        /\ UNCHANGED <<auc, reportlist, faults>>
     \/ /\ auc' = auc + 1 /\ Fault
        /\ UNCHANGED <<pc, i, reportlist>>
  /\ UNCHANGED <<j, miner_index, log, deviceVars, quiet>>

\* mm_coretest opens the next AUC; mm_corereport starts with an empty list.
Open ==
  /\ pc = "open" /\ auc < AucCnts
  /\ \/ /\ pc' = "detect_send" /\ i' = 1
        /\ reportlist' = Cleared
        /\ UNCHANGED <<auc, faults>>
     \/ /\ auc' = auc + 1 /\ Fault
        /\ UNCHANGED <<pc, i, reportlist>>
  /\ UNCHANGED <<j, miner_index, log, deviceVars, quiet>>

Return ==
  /\ pc = "open" /\ auc >= AucCnts
  /\ pc' = "done"
  /\ UNCHANGED <<auc, i, j, miner_index, reportlist, log, deviceVars, quiet, faults>>

\* The broadcast DETECT: one of the modules that have no id yet takes this one.
DetectSend ==
  LET new == {m \in Modules : AucOf[m] = auc /\ idOf[m] = 0} IN
  /\ pc = "detect_send"
  /\ pc' = "detect_receive"
  /\ \/ /\ IF new = {} THEN UNCHANGED idOf
           ELSE \E m \in new : idOf' = [idOf EXCEPT ![m] = i]
        /\ UNCHANGED faults
     \/ UNCHANGED idOf /\ Fault
  /\ UNCHANGED <<auc, i, j, miner_index, reportlist, log, left, quiet>>

\* After the last answer mm_test starts on the first module mm_detect enabled.
StartTest ==
  LET first == FirstFrom(1, Enabled) IN
  /\ i' = first
  /\ pc' = IF first \in MM THEN "test_send" ELSE "report"

\* The answer: an ACKDETECT enables the id; a packet of another type uses it up
\* without enabling it; no answer ends the detection.
DetectReceive ==
  /\ pc = "detect_receive"
  /\ \/ /\ \E m \in Addressed :
             reportlist' = [reportlist EXCEPT ![i] = [auc |-> auc, dna |-> m, mm_enable |-> TRUE]]
        /\ pc' = "detect_send" /\ i' = i + 1
        /\ UNCHANGED faults
     \/ /\ Addressed # {} /\ Fault
        /\ pc' = "detect_send" /\ i' = i + 1
        /\ UNCHANGED reportlist
     \/ /\ IF Addressed = {} THEN UNCHANGED faults ELSE Fault
        /\ StartTest
        /\ UNCHANGED reportlist
  /\ UNCHANGED <<auc, j, miner_index, log, deviceVars, quiet>>

\* TEST: the module starts, and owes an answer for every miner and a summary.
TestSend ==
  /\ pc = "test_send"
  /\ pc' = "test_receive"
  /\ miner_index' = 0
  /\ Hears(i)
  /\ \/ /\ left' = [m \in Modules |-> IF m \in Addressed THEN AVA4_DEFAULT_MINERS + 1 ELSE left[m]]
        /\ UNCHANGED faults
     \/ UNCHANGED left /\ Fault
  /\ UNCHANGED <<auc, i, j, reportlist, log, idOf>>

\* The modules mm_test keeps alive while it tests module i.
Others_Above == {k \in Enabled : k > i}

Others == Enabled \ {i}

\* Is the test of the module over?
Complete(n) == n = AVA4_DEFAULT_MINERS + 1

\* After an answer, or none: the next module, the report, or a round of FINISH.
AfterReceive ==
  IF Complete(miner_index')
    THEN LET next == FirstFrom(i + 1, Enabled) IN
         /\ i' = next /\ UNCHANGED j
         /\ pc' = IF next \in MM THEN "test_send" ELSE "report"
    ELSE LET first == FirstFrom(1, Others) IN
         /\ j' = first /\ UNCHANGED i
         /\ pc' = IF first \in MM THEN "keep" ELSE "test_receive"

Owing == {m \in Addressed : left[m] > 0}

TestAnswered ==
  /\ pc = "test_receive"
  /\ \E m \in Owing : left' = [left EXCEPT ![m] = @ - 1]
  /\ miner_index' = miner_index + 1
  /\ Hears(i)
  /\ AfterReceive
  /\ UNCHANGED <<auc, reportlist, log, idOf, faults>>

\* Not yet, or never: the module has nothing to say, or its answer is lost.
TestSilent ==
  /\ pc = "test_receive"
  /\ \/ UNCHANGED <<left, faults>>
     \/ /\ \E m \in Owing : left' = [left EXCEPT ![m] = @ - 1]
        /\ Fault
  /\ UNCHANGED miner_index
  /\ Hears(i)
  /\ AfterReceive
  /\ UNCHANGED <<auc, reportlist, log, idOf>>

\* FINISH to the next module that is not under test.
KeepAlive ==
  LET next == FirstFrom(j + 1, Others) IN
  /\ pc = "keep"
  /\ j' = next
  /\ pc' = IF next \in MM THEN "keep" ELSE "test_receive"
  /\ Hears(j)
  /\ UNCHANGED <<auc, i, miner_index, reportlist, log, deviceVars, faults>>

\* What is written for this AUC: the whole list.
Written == {<<k, reportlist[k]>> : k \in MM}

\* mm_corereport opens the log for writing, which empties it.
Report ==
  /\ pc = "report"
  /\ pc' = "open" /\ auc' = auc + 1
  /\ \/ log' = Written /\ UNCHANGED faults
     \/ UNCHANGED log /\ Fault
  /\ quiet' = [k \in MM |-> 0]
  /\ UNCHANGED <<i, j, miner_index, reportlist, deviceVars>>

Next ==
  \/ jansson_test \/ Open \/ Return
  \/ DetectSend \/ DetectReceive
  \/ TestSend \/ TestAnswered \/ TestSilent \/ KeepAlive
  \/ Report

Spec == Init /\ [][Next]_vars

\* The tool runs; a module under test answers in the end, though not at the first
\* read: the code has no other way out of the loop.
FairSpec == Spec /\ WF_vars(Next) /\ SF_vars(TestAnswered)

-----------------------------------------------------------------------------
\* The state is well typed: the ids stay in reportlist, however detection ends.
TypeOK ==
  /\ pc \in {"jansson_test", "open", "detect_send", "detect_receive",
             "test_send", "test_receive", "keep", "report", "done"}
  /\ auc \in 0 .. AucCnts
  /\ i \in 1 .. AVA4_DEFAULT_MODULARS
  /\ j \in 1 .. AVA4_DEFAULT_MODULARS
  /\ miner_index \in 0 .. AVA4_DEFAULT_MINERS + 1
  /\ reportlist \in [MM -> Entries]
  /\ log \subseteq Nat \X Entries
  /\ idOf \in [Modules -> 0 .. AVA4_DEFAULT_MODULARS - 1]
  /\ left \in [Modules -> 0 .. AVA4_DEFAULT_MINERS + 1]
  /\ quiet \in [MM -> Nat]
  /\ faults \in 0 .. MaxFaults

Testing == {m \in Modules : left[m] > 0}

\* mm-tools/README: "Run MM core test one by one".  While every answer arrives,
\* no module is still at its test when the next one, of any AUC, is started.
OneByOne ==
  faults = 0 => /\ Cardinality(Testing) <= 1
                /\ pc \in {"test_send", "report", "open"} => Testing = {}

\* mm-tools/README: "we must keep other MM working, when test one MM".  No module
\* that was detected waits longer for a transfer than it takes to serve every
\* other one and to go from one test to the next.
KeptWorking ==
  \A k \in Enabled : quiet[k] <= Cardinality(Enabled) + 2

\* What mm_corereport writes for an AUC are the modules of this AUC under the ids they
\* took, all of them if nothing failed - nothing of another AUC, nothing invented.  What
\* becomes of the reports before it is another question.
ThisAucReported ==
  pc = "report" /\ log' # log =>
    /\ Written \subseteq log'
    /\ \A e \in Written : e[2] # Nobody =>
         \E m \in Modules : AucOf[m] = auc /\ idOf[m] = e[1] /\ e[2].dna = m /\ e[2].auc = auc
    /\ faults = 0 =>
         \A m \in Modules : AucOf[m] = auc => \E e \in Written : e[2].dna = m

ReportsThisAuc == [][ThisAucReported]_vars

\* mm-tools/README: "Step 3: Generate test report (json array), append to log(file:
\* /tmp/coretest.log)".  The report of a module stays in the log when that of another
\* AUC comes (mm_corereport, mm_api.c:335, opens it with "wt").
ReportsKept == [][\A e \in log : e[2].dna \in Modules => e \in log']_vars

\* With nothing lost the core test comes to its end.
Ended == pc = "done" \/ faults > 0

=============================================================================
