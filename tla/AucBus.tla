------------------------------- MODULE AucBus -------------------------------
(***************************************************************************)
(* The AUC driver of mm-tools: auc.c, and iic_auc.c above it.  The converter *)
(* answers every packet with one packet, through a pair of bulk endpoints;   *)
(* nothing in an answer says which packet it belongs to.  A step is one      *)
(* libusb_bulk_transfer, or the code between two of them.                    *)
(*                                                                         *)
(* An answer that is late stays in the endpoint, beyond the end of the       *)
(* process too: what pairs answers and packets again is the loop of auc_init *)
(* that reads until nothing comes.                                           *)
(***************************************************************************)
EXTENDS Integers, Sequences

CONSTANTS
  Attached,    \* number of AUCs on the USB
  MaxChunks,   \* bound: packets (CDC_I2C_PAYLOAD_SZ) of one i2c_write
  MaxFaults,   \* bound: transfers and calls that go wrong
  MaxRuns      \* bound: processes

AucBusAssumption ==
  /\ Attached \in Nat /\ MaxFaults \in Nat
  /\ MaxChunks \in Nat \ {0} /\ MaxRuns \in Nat \ {0}

Aucs == 0 .. Attached - 1

VARIABLES
  pc,          \* the call the process is in; "idle": between calls of the driver
  half,        \* of usb_transfer: "out" or "in"
  i,           \* the AUC the driver is at
  auc_cnt,     \* auc_devctx.auc_cnt
  g_auc_cnts,  \* what auc_getcounts returned
  opened,      \* the AUCs with a handle in g_hauc
  chunks,      \* packets of this i2c_write
  left,        \* those the AUC it is at has not got
  resp,        \* resp of i2c_write and i2c_read, at first whatever is on the stack
  ret,         \* what the last call returned
  work,        \* the AUCs: packets each has to answer
  endp,        \* its IN endpoint: answers nobody has read
  slipped,     \* history: a transfer, or the loop of auc_init, failed with answers to come
  fed,         \* history: packets of this i2c_write each AUC got
  clean,       \* history: nothing went wrong in this call
  faults,      \* what went wrong so far
  run          \* the process

call   == <<chunks, left, resp, ret, fed, clean>>
device == <<work, endp, slipped>>
host   == <<auc_cnt, g_auc_cnts, opened>>
vars   == <<pc, half, i, host, call, device, faults, run>>

Requests == {"deinit", "init", "reset", "write", "read"}
Codes == {"ok", "nak", "err"}
None == [own |-> FALSE, body |-> FALSE, resp |-> "none"]

\* Only these answers are longer than their header.
HasBody(k) == k \in {"init", "read"}

Alive == pc \notin {"crash", "dead", "end"}

Fault == faults < MaxFaults /\ faults' = faults + 1

Disown(q) == [n \in 1 .. Len(q) |-> [q[n] EXCEPT !.own = FALSE]]

-----------------------------------------------------------------------------
Init ==
  /\ pc = "getcounts" /\ half = "out" /\ i = 0
  /\ auc_cnt = 0 /\ g_auc_cnts = 0 /\ opened = {}
  /\ chunks = 1 /\ left = 0 /\ resp = "ok" /\ ret = 0
  /\ work = [a \in Aucs |-> <<>>]
  /\ endp = [a \in Aucs |-> <<>>]
  /\ slipped = [a \in Aucs |-> FALSE]
  /\ fed = [a \in Aucs |-> 0] /\ clean = TRUE
  /\ faults = 0 /\ run = 1

\* auc_getcounts, at the start of i2c_open: 1 when libusb_init fails.
auc_getcounts ==
  /\ pc = "getcounts"
  /\ i' = 0 /\ opened' = {}
  /\ \/ auc_cnt' = Attached /\ g_auc_cnts' = Attached /\ UNCHANGED faults
     \/ auc_cnt' = 0 /\ g_auc_cnts' = 1 /\ Fault
  /\ pc' = IF g_auc_cnts' = 0 THEN "end" ELSE "open"
  /\ UNCHANGED <<half, call, device, run>>

\* auc_open of the next AUC.  The test on its index lets auc_cnt itself through:
\* libusb_open then gets the NULL at the end of auc_devlist.
auc_open ==
  /\ pc = "open" /\ i < g_auc_cnts
  /\ IF i >= auc_cnt
       THEN pc' = "crash" /\ UNCHANGED <<i, opened, faults>>
       ELSE \/ pc' = "deinit" /\ opened' = opened \cup {i} /\ UNCHANGED <<i, faults>>
            \/ i' = i + 1 /\ Fault /\ UNCHANGED <<pc, opened>>
  /\ half' = "out"
  /\ UNCHANGED <<auc_cnt, g_auc_cnts, call, device, run>>

Opened ==
  /\ pc = "open" /\ i >= g_auc_cnts
  /\ pc' = "idle"
  /\ UNCHANGED <<half, i, host, call, device, faults, run>>

\* i2c_write and i2c_read: every AUC gets the same packets.  An i2c_read is one.
Start(k, n) ==
  /\ pc = "idle"
  /\ pc' = k /\ half' = "out" /\ i' = 0
  /\ chunks' = n /\ left' = n
  /\ resp' \in Codes
  /\ fed' = [a \in Aucs |-> 0] /\ clean' = TRUE
  /\ UNCHANGED <<host, ret, device, faults, run>>

i2c_write == \E n \in 1 .. MaxChunks : Start("write", n)

i2c_read == Start("read", 1)

\* i2c_close; the process then ends.
i2c_close ==
  /\ pc = "idle"
  /\ pc' = "end" /\ opened' = {}
  /\ UNCHANGED <<half, i, auc_cnt, g_auc_cnts, call, device, faults, run>>

-----------------------------------------------------------------------------
\* i2c_write takes a NAK for a module that hangs on another AUC.
Accepted(k) == resp' = "ok" \/ (k = "write" /\ resp' = "nak")

NextAuc_PastEnd ==
  IF Accepted(pc) /\ i < g_auc_cnts
    THEN i' = i + 1 /\ left' = chunks /\ half' = "out" /\ UNCHANGED <<pc, ret>>
    ELSE pc' = "idle" /\ ret' = (IF Accepted(pc) THEN 0 ELSE 1) /\ UNCHANGED <<i, left, half>>

\* After auc_xfer: the next AUC, or the end of i2c_write and i2c_read.
NextAuc ==
  IF Accepted(pc) /\ i + 1 < g_auc_cnts
    THEN i' = i + 1 /\ left' = chunks /\ half' = "out" /\ UNCHANGED <<pc, ret>>
    ELSE pc' = "idle" /\ ret' = (IF Accepted(pc) THEN 0 ELSE 1) /\ UNCHANGED <<i, left, half>>

\* A failed packet makes it start over.
auc_xfer_Retry(r) ==
  IF r = None THEN left' = chunks /\ half' = "out" /\ UNCHANGED <<pc, i, resp, ret>>
  ELSE IF left > 1 THEN left' = left - 1 /\ half' = "out" /\ UNCHANGED <<pc, i, resp, ret>>
  ELSE resp' = r.resp /\ NextAuc

\* auc_xfer with the answer r.  A failed transfer leaves respcode as it was.
\* i2c_write passes no rbuf: an answer with a body is copied to NULL.
auc_xfer(r) ==
  IF r = None THEN UNCHANGED resp /\ NextAuc
  ELSE IF r.body /\ pc = "write" THEN pc' = "crash" /\ UNCHANGED <<i, left, half, resp, ret>>
  ELSE IF left > 1 THEN left' = left - 1 /\ half' = "out" /\ UNCHANGED <<pc, i, resp, ret>>
  ELSE resp' = (IF pc = "read" /\ ~r.body THEN "err" ELSE r.resp) /\ NextAuc

AfterDrain_Forever(r) == "drain"

\* auc_init reads until nothing comes.
AfterDrain(r) == IF r = None THEN "init" ELSE "drain"

AfterDeinit_NoDrain == "init"

AfterDeinit == "drain"

\* What follows a usb_transfer that gave r, None for a failure: i2c_open drops
\* the results of auc_deinit, auc_init and auc_reset.
Done(r) ==
  CASE pc = "deinit" ->
         /\ pc' = AfterDeinit
         /\ half' = (IF pc' = "drain" THEN "in" ELSE "out")
         /\ UNCHANGED <<i, left, resp, ret>>
    [] pc = "drain" ->
         /\ pc' = AfterDrain(r) /\ half' = (IF pc' = "drain" THEN "in" ELSE "out")
         /\ UNCHANGED <<i, left, resp, ret>>
    [] pc = "init" -> pc' = "reset" /\ half' = "out" /\ UNCHANGED <<i, left, resp, ret>>
    [] pc = "reset" -> pc' = "open" /\ i' = i + 1 /\ UNCHANGED <<half, left, resp, ret>>
    [] OTHER -> auc_xfer(r)

\* usb_transfer, OUT.  Without a handle libusb_bulk_transfer reads from NULL.
UsbOut ==
  /\ pc \in Requests /\ half = "out" /\ i \in opened
  /\ endp' = [endp EXCEPT ![i] = Disown(@)]
  /\ \/ /\ work' = [work EXCEPT ![i] =
             Append(Disown(@), [own |-> TRUE, body |-> HasBody(pc),
                                resp |-> IF pc \in {"write", "read"} THEN "due" ELSE "ok"])]
        /\ half' = "in"
        /\ fed' = [fed EXCEPT ![i] = IF pc \in {"write", "read"} THEN @ + 1 ELSE @]
        /\ UNCHANGED <<pc, i, left, resp, ret, clean, faults>>
     \/ /\ Done(None) /\ Fault
        /\ work' = [work EXCEPT ![i] = Disown(@)]
        /\ clean' = FALSE
        /\ UNCHANGED fed
  /\ UNCHANGED <<host, chunks, slipped, run>>

NoHandle ==
  /\ pc \in Requests /\ half = "out" /\ i \notin opened
  /\ pc' = "crash"
  /\ UNCHANGED <<half, i, host, call, device, faults, run>>

\* usb_transfer, IN, with an answer in the endpoint.  One that is longer than
\* the header is an overflow for auc_deinit and auc_reset: it is gone.
Fits(r) == ~(pc \in {"deinit", "reset"} /\ r.body)

\* A transfer that failed: are there answers still to come?
Slip ==
  LET more == work[i] # <<>> \/ endp'[i] # <<>> IN
  slipped' = [slipped EXCEPT ![i] = more \/ (@ /\ pc # "drain")]

UsbIn ==
  /\ pc \in Requests \cup {"drain"} /\ half = "in" /\ endp[i] # <<>>
  /\ endp' = [endp EXCEPT ![i] = Tail(@)]
  /\ \/ /\ Done(IF Fits(Head(endp[i])) THEN Head(endp[i]) ELSE None)
        /\ UNCHANGED <<slipped, clean, faults>>
     \/ Done(None) /\ Slip /\ Fault /\ clean' = FALSE
  /\ UNCHANGED <<host, chunks, work, fed, run>>

\* Nothing within AUC_TIMEOUT_MS.  The loop of auc_init ends this way.
UsbTimeout ==
  /\ pc \in Requests \cup {"drain"} /\ half = "in" /\ endp[i] = <<>>
  /\ UNCHANGED endp
  /\ Done(None) /\ Slip
  /\ IF work[i] # <<>> THEN Fault ELSE UNCHANGED faults
  /\ clean' = (clean /\ work[i] = <<>>)
  /\ UNCHANGED <<host, chunks, work, fed, run>>

\* The converter answers its next packet, whoever may still wait for it.
Answer(a) ==
  /\ work[a] # <<>>
  /\ work' = [work EXCEPT ![a] = Tail(@)]
  /\ \E c \in IF Head(work[a]).resp = "due" THEN Codes ELSE {"ok"} :
       endp' = [endp EXCEPT ![a] = Append(@, [Head(work[a]) EXCEPT !.resp = c])]
  /\ UNCHANGED <<pc, half, i, host, call, slipped, faults, run>>

Kill ==
  /\ Alive
  /\ pc' = "dead"
  /\ UNCHANGED <<half, i, host, call, device, faults, run>>

Rerun ==
  /\ ~Alive /\ run < MaxRuns
  /\ run' = run + 1 /\ pc' = "getcounts" /\ half' = "out" /\ i' = 0
  /\ auc_cnt' = 0 /\ g_auc_cnts' = 0 /\ opened' = {}
  /\ UNCHANGED <<call, device, faults>>

i2c_open == auc_getcounts \/ auc_open \/ Opened

usb_transfer == UsbOut \/ NoHandle \/ UsbIn \/ UsbTimeout

Next ==
  \/ i2c_open \/ i2c_write \/ i2c_read \/ i2c_close
  \/ usb_transfer
  \/ \E a \in Aucs : Answer(a)
  \/ Kill \/ Rerun

Spec == Init /\ [][Next]_vars

\* The process runs, libusb's timer ends a transfer that gets nothing; an AUC
\* answers what it was asked, and nothing else.
FairSpec == Spec /\ WF_vars(i2c_open \/ usb_transfer) /\ \A a \in Aucs : WF_vars(Answer(a))

-----------------------------------------------------------------------------
\* The state is well typed: the driver stays within the AUCs it counted, and an
\* endpoint holds no more answers than packets went astray (auc.c, iic_auc.c).
TypeOK ==
  /\ pc \in Requests \cup {"getcounts", "open", "drain", "idle", "end", "crash", "dead"}
  /\ half \in {"out", "in"}
  /\ i \in 0 .. Attached + 1
  /\ auc_cnt \in 0 .. Attached /\ g_auc_cnts \in 0 .. Attached + 1
  /\ opened \subseteq Aucs
  /\ chunks \in 1 .. MaxChunks /\ left \in 0 .. MaxChunks
  /\ resp \in Codes /\ ret \in {0, 1}
  /\ \A a \in Aucs : Len(work[a]) + Len(endp[a]) <= MaxFaults + MaxRuns
  /\ fed \in [Aucs -> 0 .. MaxChunks]
  /\ faults \in 0 .. MaxFaults /\ run \in 1 .. MaxRuns

\* An answer is taken for the packet it answers.  What an earlier process, killed
\* between sending and reading, left in the converter is gone after auc_init,
\* and it stays so until a transfer fails with an answer still to come (usb_transfer).
OwnAnswerTaken ==
  \A a \in Aucs :
    pc \in {"init", "reset", "write", "read"} /\ UsbIn /\ i = a /\ ~slipped[a]
    => Head(endp[a]).own

\* An i2c_write that met no failure and says it worked gave every AUC every
\* packet; a NAK on one of them does not keep it from the others.
WriteReaches ==
  pc = "write" /\ pc' = "idle" /\ ret' = 0 /\ clean' =>
    \A a \in 0 .. g_auc_cnts - 1 : fed[a] = chunks

\* The driver dereferences NULL only if an AUC did not open, if libusb_init
\* failed, or if an answer was late (i2c_write has no buffer for answers).
CrashHasCause ==
  pc = "crash" => \/ g_auc_cnts # auc_cnt
                  \/ \E a \in Aucs : a \notin opened \/ slipped[a]

\* i2c_open, i2c_write and i2c_read return: in the end the loop of auc_init finds
\* the endpoint empty.
Calling == pc \in Requests \cup {"getcounts", "open", "drain"}
Returned == pc = "idle" \/ ~Alive

=============================================================================
