----------------------------- MODULE AucBusProofs -----------------------------
(***************************************************************************)
(* Proofs about AucBus, for any number of converters, packets, processes and *)
(* faults: its state is well typed, an answer is taken for the packet it     *)
(* answers (OwnAnswerTaken), an i2c_write that says it worked has reached     *)
(* every AUC (WriteReaches), and the driver dereferences NULL only after a    *)
(* failure (CrashHasCause).                                                 *)
(*                                                                         *)
(* The argument is about what is under way at an AUC, sent and not yet read.  *)
(* After the loop of auc_init that is nothing; from then on it is the packet  *)
(* of the transfer that waits, and nothing else, until a transfer fails       *)
(* with its answer still to come.                                          *)
(***************************************************************************)
EXTENDS AucBus, TLAPS

Packet == [own : BOOLEAN, body : BOOLEAN, resp : {"due", "ok"}]
Reply  == [own : BOOLEAN, body : BOOLEAN, resp : Codes]

TypeInv ==
  /\ pc \in Requests \cup {"getcounts", "open", "drain", "idle", "end", "crash", "dead"}
  /\ half \in {"out", "in"} /\ i \in Nat
  /\ auc_cnt \in Nat /\ g_auc_cnts \in Nat /\ opened \subseteq Aucs
  /\ chunks \in 1 .. MaxChunks /\ left \in 0 .. chunks
  /\ resp \in Codes /\ ret \in {0, 1}
  /\ work \in [Aucs -> Seq(Packet)] /\ endp \in [Aucs -> Seq(Reply)]
  /\ slipped \in [Aucs -> BOOLEAN] /\ fed \in [Aucs -> 0 .. MaxChunks] /\ clean \in BOOLEAN
  /\ faults \in 0 .. MaxFaults /\ run \in 1 .. MaxRuns

\* What auc_getcounts found, and where the loops of i2c_open, i2c_write and i2c_read are.
PlaceInv ==
  /\ \/ auc_cnt = 0 /\ g_auc_cnts \in {0, 1}
     \/ auc_cnt = Attached /\ g_auc_cnts = Attached
  /\ \A a \in opened : a < auc_cnt
  /\ i <= g_auc_cnts
  /\ pc = "open" => \A a \in opened : a < i
  /\ pc \in {"deinit", "drain", "init", "reset"} => i \in opened /\ \A a \in opened : a <= i
  /\ pc \in {"open", "deinit", "drain", "init", "reset", "idle"} => g_auc_cnts > 0
  /\ pc \in {"write", "read"} => i < g_auc_cnts /\ left > 0
  /\ pc = "drain" => half = "in"

\* A packet was sent to AUC a, and its answer is waited for.
InFlight(a) == pc \in Requests /\ half = "in" /\ i = a

\* Packets and answers under way at an AUC.
Out(a) == Len(work[a]) + Len(endp[a])

Mine(r) == r.own /\ r.body = HasBody(pc)

\* The packet that waits for its answer is the last one under way.
FlightInv ==
  pc \in Requests /\ half = "in" =>
    /\ i \in opened
    /\ IF work[i] # <<>> THEN Mine(work[i][Len(work[i])])
                         ELSE endp[i] # <<>> /\ Mine(endp[i][Len(endp[i])])

\* Every other one was left behind by a fault or by an earlier process.
DebtInv ==
  \A a \in Aucs :
    Out(a) <= faults + run - 1 + (IF InFlight(a) \/ ~Alive THEN 1 ELSE 0)

\* The AUCs whose endpoint this process has emptied.
Synced(a) ==
  /\ a \in opened
  /\ \/ pc \in {"idle", "init", "reset", "write", "read"}
     \/ pc \in {"open", "deinit", "drain"} /\ a < i

\* There nothing is under way but the packet that waits.
SyncInv ==
  \A a \in Aucs : Synced(a) /\ ~slipped[a] => Out(a) = IF InFlight(a) THEN 1 ELSE 0

\* What each AUC has got of this i2c_write or i2c_read.
FedInv ==
  pc \in {"write", "read"} =>
    \A a \in Aucs :
      /\ a > i => fed[a] = 0
      /\ a = i => fed[a] = chunks - left + (IF half = "in" THEN 1 ELSE 0)
      /\ a < i /\ clean => fed[a] = chunks

IInv ==
  TypeInv /\ PlaceInv /\ FlightInv /\ DebtInv /\ SyncInv /\ FedInv /\ CrashHasCause

-----------------------------------------------------------------------------
\* What disowning does to a sequence of packets or of answers: nothing but that.
LEMMA Disowned ==
  ASSUME NEW R, NEW q \in Seq([own : BOOLEAN, body : BOOLEAN, resp : R])
  PROVE  /\ Disown(q) \in Seq([own : BOOLEAN, body : BOOLEAN, resp : R])
         /\ Len(Disown(q)) = Len(q)
         /\ Disown(q) = <<>> <=> q = <<>>
<1> DEFINE S == [own : BOOLEAN, body : BOOLEAN, resp : R]
<1>1. Len(q) \in Nat /\ \A n \in 1 .. Len(q) : q[n] \in S
  <2> HIDE DEF S
  <2>1. q \in Seq(S)
    BY DEF S
  <2> QED
    BY <2>1
<1>2. \A n \in 1 .. Len(q) : [q[n] EXCEPT !.own = FALSE] \in S
  BY <1>1
<1>3. Disown(q) \in [1 .. Len(q) -> S]
  BY <1>2 DEF Disown
<1>4. Disown(q) \in Seq(S) /\ Len(Disown(q)) = Len(q)
  BY <1>1, <1>3
<1>5. Disown(q) = <<>> <=> q = <<>>
  BY <1>4
<1> QED
  BY <1>4, <1>5

\* A packet that is sent is the last one.
LEMMA Sent ==
  ASSUME NEW q \in Seq(Packet), NEW e \in Packet
  PROVE  LET w == Append(Disown(q), e) IN
         /\ w \in Seq(Packet) /\ w # <<>>
         /\ Len(w) = Len(q) + 1 /\ w[Len(w)] = e
<1>1. Disown(q) \in Seq(Packet) /\ Len(Disown(q)) = Len(q)
  BY Disowned DEF Packet
<1> QED
  BY <1>1

\* The first one is taken away; the last one stays, or it was the only one.
LEMMA Taken ==
  ASSUME NEW S, NEW q \in Seq(S), q # <<>>
  PROVE  /\ Tail(q) \in Seq(S) /\ Head(q) \in S
         /\ Len(q) \in Nat \ {0} /\ Len(Tail(q)) = Len(q) - 1
         /\ Len(q) = 1 => Head(q) = q[Len(q)]
         /\ Tail(q) # <<>> => Tail(q)[Len(Tail(q))] = q[Len(q)]
OBVIOUS

\* An answer that comes is the last one.
LEMMA Came ==
  ASSUME NEW q \in Seq(Reply), NEW r \in Reply
  PROVE  /\ Append(q, r) \in Seq(Reply) /\ Append(q, r) # <<>>
         /\ Len(Append(q, r)) = Len(q) + 1 /\ Append(q, r)[Len(Append(q, r))] = r
OBVIOUS

\* The requests, and what is no AUC.
LEMMA Stages ==
  /\ Requests = {"deinit", "init", "reset", "write", "read"}
  /\ \A p : HasBody(p) <=> p \in {"init", "read"}
BY DEF Requests, HasBody

LEMMA AucsAreNat == ASSUME AucBusAssumption, NEW a \in Aucs PROVE a \in Nat /\ a < Attached
BY DEF Aucs, AucBusAssumption

\* The counters stay within their bounds.
LEMMA Counted ==
  ASSUME AucBusAssumption, TypeInv
  PROVE  /\ faults \in Nat /\ run \in Nat /\ MaxFaults \in Nat /\ MaxRuns \in Nat
         /\ MaxChunks \in Nat /\ MaxChunks >= 1 /\ Attached \in Nat
         /\ Fault => faults' \in 0 .. MaxFaults /\ faults' = faults + 1
         /\ run < MaxRuns => run + 1 \in 1 .. MaxRuns
BY DEF AucBusAssumption, TypeInv, Fault

\* Counting what is under way.
LEMMA OutIsNat ==
  ASSUME TypeInv, NEW a \in Aucs
  PROVE  /\ Out(a) \in Nat /\ Len(work[a]) \in Nat /\ Len(endp[a]) \in Nat
         /\ Out(a) = 0 <=> work[a] = <<>> /\ endp[a] = <<>>
         /\ work[a] \in Seq(Packet) /\ endp[a] \in Seq(Reply)
<1>1. work[a] \in Seq(Packet) /\ endp[a] \in Seq(Reply)
  BY DEF TypeInv
<1>2. \A s \in Seq(Packet) : Len(s) \in Nat /\ (Len(s) = 0 <=> s = <<>>)
  OBVIOUS
<1>3. \A s \in Seq(Reply) : Len(s) \in Nat /\ (Len(s) = 0 <=> s = <<>>)
  OBVIOUS
<1>4. Len(work[a]) \in Nat /\ Len(endp[a]) \in Nat
  BY <1>1, <1>2, <1>3
<1>5. \A m, n \in Nat : m + n \in Nat /\ (m + n = 0 <=> m = 0 /\ n = 0)
  OBVIOUS
<1>6. Out(a) \in Nat /\ (Out(a) = 0 <=> Len(work[a]) = 0 /\ Len(endp[a]) = 0)
  BY <1>4, <1>5 DEF Out
<1>7. (Len(work[a]) = 0 <=> work[a] = <<>>) /\ (Len(endp[a]) = 0 <=> endp[a] = <<>>)
  BY <1>1, <1>2, <1>3
<1> HIDE DEF Out
<1> QED
  BY <1>1, <1>4, <1>6, <1>7, Zenon

-----------------------------------------------------------------------------
\* The initial states.
LEMMA Initially == ASSUME AucBusAssumption, Init PROVE IInv
<1> USE DEF Init, AucBusAssumption
<1>1. TypeInv
  BY DEF TypeInv, Requests, Codes, Aucs
<1>2. PlaceInv
  BY DEF PlaceInv
<1>3. FlightInv /\ SyncInv /\ FedInv /\ CrashHasCause
  BY DEF FlightInv, SyncInv, FedInv, CrashHasCause, Synced, Requests
<1>4. DebtInv
  BY DEF DebtInv, Out, Aucs, Alive, InFlight
<1> QED
  BY <1>1, <1>2, <1>3, <1>4 DEF IInv
-----------------------------------------------------------------------------
\* A step that leaves the converters alone and waits for nothing, before and after.
LEMMA HostStep ==
  ASSUME AucBusAssumption, IInv, TypeInv', UNCHANGED device,
         faults <= faults', run <= run',
         ~(pc' \in Requests /\ half' = "in"),
         Alive' => /\ ~(pc \in Requests /\ half = "in")
                   /\ ~Alive => run < run',
         \A a \in Aucs : Synced(a)' => Synced(a) /\ ~InFlight(a)
  PROVE  FlightInv' /\ DebtInv' /\ SyncInv'
<1>1. \A a \in Aucs : Out(a)' = Out(a) /\ Out(a) \in Nat /\ slipped'[a] = slipped[a]
  BY OutIsNat DEF IInv, device, Out
<1>2. FlightInv'
  BY DEF FlightInv
<1>3. \A a \in Aucs : ~InFlight(a)'
  BY DEF InFlight
<1>4. DebtInv'
  <2> SUFFICES ASSUME NEW a \in Aucs
               PROVE  Out(a)' <= faults' + run' - 1 + (IF ~Alive' THEN 1 ELSE 0)
    BY <1>3 DEF DebtInv
  <2>1. Out(a) <= faults + run - 1 + (IF InFlight(a) \/ ~Alive THEN 1 ELSE 0)
    BY DEF IInv, DebtInv
  <2>2. /\ Out(a) \in Nat /\ faults \in Nat /\ faults' \in Nat /\ run \in Nat /\ run' \in Nat
    BY <1>1, AucBusAssumption DEF IInv, TypeInv
  <2>3. CASE ~Alive'
    BY <1>1, <2>1, <2>2, <2>3
  <2>4. CASE Alive'
    <3>1. ~InFlight(a)
      BY <2>4 DEF InFlight
    <3> QED
      BY <1>1, <2>1, <2>2, <2>4, <3>1
  <2> QED
    BY <2>3, <2>4
<1>5. SyncInv'
  <2> SUFFICES ASSUME NEW a \in Aucs, Synced(a)', ~slipped'[a]
               PROVE  Out(a)' = 0
    BY <1>3 DEF SyncInv
  <2>1. Synced(a) /\ ~InFlight(a) /\ ~slipped[a]
    BY <1>1
  <2> QED
    BY <1>1, <2>1 DEF IInv, SyncInv
<1> QED
  BY <1>2, <1>4, <1>5

\* auc_getcounts.
LEMMA GetcountsStep ==
  ASSUME AucBusAssumption, IInv, auc_getcounts
  PROVE  IInv'
<1> USE DEF auc_getcounts
<1>0. faults' \in 0 .. MaxFaults
  BY Counted DEF IInv, TypeInv
<1>1. TypeInv'
  <2>1. pc' \in {"open", "end"} /\ i' = 0 /\ opened' = {} /\ auc_cnt' \in Nat /\ g_auc_cnts' \in Nat
    BY Counted DEF IInv
  <2> HIDE DEF auc_getcounts
  <2> QED
    BY <1>0, <2>1 DEF auc_getcounts, IInv, TypeInv, call, device
<1>2. PlaceInv'
  <2>1. \/ auc_cnt' = 0 /\ g_auc_cnts' \in {0, 1}
        \/ auc_cnt' = Attached /\ g_auc_cnts' = Attached
    OBVIOUS
  <2>2. /\ i' = 0 /\ opened' = {} /\ g_auc_cnts' \in Nat
        /\ pc' = (IF g_auc_cnts' = 0 THEN "end" ELSE "open")
    BY Counted DEF IInv
  <2>3. g_auc_cnts' > 0 \/ pc' = "end"
    BY <2>2
  <2> HIDE DEF auc_getcounts
  <2> QED
    BY <2>1, <2>2, <2>3 DEF PlaceInv
<1>3. FlightInv' /\ DebtInv' /\ SyncInv'
  <2>1. faults <= faults' /\ run <= run'
    BY AucBusAssumption DEF IInv, TypeInv, Fault
  <2>2. \A a \in Aucs : ~Synced(a)'
    BY DEF Synced
  <2>3. Alive /\ pc \notin Requests /\ pc' \notin Requests
    BY DEF Alive, Requests
  <2> QED
    BY <1>1, <2>1, <2>2, <2>3, HostStep DEF IInv
<1>4. FedInv' /\ CrashHasCause'
  BY DEF FedInv, CrashHasCause
<1> QED
  BY <1>1, <1>2, <1>3, <1>4 DEF IInv

\* auc_open.
LEMMA OpenStep ==
  ASSUME AucBusAssumption, IInv, auc_open
  PROVE  IInv'
<1> USE DEF auc_open
<1>0. /\ pc = "open" /\ i < g_auc_cnts /\ i \in Nat /\ auc_cnt \in Nat /\ g_auc_cnts \in Nat
      /\ \/ auc_cnt = 0 /\ g_auc_cnts \in {0, 1}
         \/ auc_cnt = Attached /\ g_auc_cnts = Attached
  BY DEF IInv, TypeInv, PlaceInv
<1>a. \/ pc' = "crash" /\ i' = i /\ opened' = opened /\ faults' = faults
      \/ pc' = "deinit" /\ i' = i /\ opened' = opened \cup {i} /\ faults' = faults /\ i < auc_cnt
      \/ pc' = "open" /\ i' = i + 1 /\ opened' = opened /\ Fault /\ i < auc_cnt
  BY <1>0
<1>b. i < auc_cnt => i \in Aucs
  BY <1>0, Counted DEF Aucs, IInv
<1>1. TypeInv'
  <2>1. pc' \in {"crash", "deinit", "open"} /\ i' \in Nat /\ opened' \subseteq Aucs
    BY <1>0, <1>a, <1>b DEF IInv, TypeInv
  <2>2. faults' \in 0 .. MaxFaults
    BY <1>a, Counted DEF IInv, TypeInv
  <2> QED
    BY <2>1, <2>2 DEF IInv, TypeInv, call, device, Requests
<1>2. PlaceInv'
  <2>1. \A a \in opened : a < auc_cnt /\ a < i /\ a \in Nat
    BY <1>0, AucsAreNat DEF IInv, PlaceInv, TypeInv
  <2>2. auc_cnt' = auc_cnt /\ g_auc_cnts' = g_auc_cnts
    OBVIOUS
  <2> HIDE DEF auc_open
  <2>3. \A a \in opened' : a < auc_cnt' /\ (pc' = "open" => a < i') /\ (pc' = "deinit" => a <= i')
    BY <1>0, <1>a, <2>1, <2>2
  <2>4. i' <= g_auc_cnts' /\ g_auc_cnts' > 0 /\ (pc' = "deinit" => i' \in opened')
    BY <1>0, <1>a, <2>2
  <2> QED
    BY <1>0, <1>a, <2>2, <2>3, <2>4 DEF PlaceInv
<1>3. FlightInv' /\ DebtInv' /\ SyncInv'
  <2>1. faults <= faults' /\ run <= run'
    BY AucBusAssumption DEF IInv, TypeInv, Fault
  <2>2. \A a \in Aucs : Synced(a)' => Synced(a)
    BY <1>0, AucsAreNat DEF IInv, PlaceInv, Synced
  <2>3. Alive /\ pc \notin Requests /\ half' = "out"
    BY DEF Alive, Requests
  <2>4. \A a \in Aucs : ~InFlight(a)
    BY <2>3 DEF InFlight
  <2> QED
    BY <1>1, <2>1, <2>2, <2>3, <2>4, HostStep DEF IInv
<1>4. FedInv'
  BY DEF FedInv
<1>5. CrashHasCause'
  BY <1>0, AucBusAssumption DEF CrashHasCause
<1> QED
  BY <1>1, <1>2, <1>3, <1>4, <1>5 DEF IInv

\* i2c_open has come to the last AUC.
LEMMA OpenedStep ==
  ASSUME AucBusAssumption, IInv, Opened
  PROVE  IInv'
<1> USE DEF Opened
<1>1. TypeInv'
  BY DEF IInv, TypeInv, host, call, device, Requests
<1>2. PlaceInv'
  BY DEF IInv, PlaceInv, TypeInv, host, call, device
<1>3. FlightInv' /\ DebtInv' /\ SyncInv'
  <2>1. faults <= faults' /\ run <= run'
    BY AucBusAssumption DEF IInv, TypeInv
  <2>2. \A a \in Aucs : Synced(a)' => Synced(a)
    BY DEF IInv, PlaceInv, Synced, host
  <2>3. Alive /\ pc \notin Requests /\ pc' \notin Requests
    BY DEF Alive, Requests
  <2>4. \A a \in Aucs : ~InFlight(a)
    BY <2>3 DEF InFlight
  <2> QED
    BY <1>1, <2>1, <2>2, <2>3, <2>4, HostStep DEF IInv
<1>4. FedInv' /\ CrashHasCause'
  BY DEF FedInv, CrashHasCause
<1> QED
  BY <1>1, <1>2, <1>3, <1>4 DEF IInv

\* An i2c_write or i2c_read begins.
LEMMA StartStep ==
  ASSUME AucBusAssumption, IInv, NEW k \in {"write", "read"}, NEW n \in 1 .. MaxChunks, Start(k, n)
  PROVE  IInv'
<1> USE DEF Start
<1>0. pc = "idle" /\ g_auc_cnts > 0 /\ MaxChunks \in Nat
  BY Counted DEF IInv, PlaceInv
<1>1. TypeInv'
  BY <1>0 DEF IInv, TypeInv, host, device, Requests, Aucs
<1>2. PlaceInv'
  BY <1>0 DEF IInv, PlaceInv, TypeInv, host, device
<1>3. FlightInv' /\ DebtInv' /\ SyncInv'
  <2>1. faults <= faults' /\ run <= run'
    BY AucBusAssumption DEF IInv, TypeInv
  <2>2. \A a \in Aucs : Synced(a)' => Synced(a)
    BY DEF Synced, host
  <2>3. Alive /\ pc \notin Requests /\ half' = "out"
    BY DEF Alive, Requests
  <2>4. \A a \in Aucs : ~InFlight(a)
    BY <2>3 DEF InFlight
  <2> QED
    BY <1>1, <2>1, <2>2, <2>3, <2>4, HostStep DEF IInv
<1>4. FedInv'
  BY <1>0, AucsAreNat DEF FedInv, Aucs
<1>5. CrashHasCause'
  BY DEF CrashHasCause
<1> QED
  BY <1>1, <1>2, <1>3, <1>4, <1>5 DEF IInv

\* i2c_close.
LEMMA CloseStep ==
  ASSUME AucBusAssumption, IInv, i2c_close
  PROVE  IInv'
<1> USE DEF i2c_close
<1>1. TypeInv'
  BY DEF IInv, TypeInv, call, device, Requests
<1>2. PlaceInv'
  BY DEF IInv, PlaceInv
<1>3. FlightInv' /\ DebtInv' /\ SyncInv'
  <2>1. faults <= faults' /\ run <= run'
    BY AucBusAssumption DEF IInv, TypeInv
  <2>2. \A a \in Aucs : ~Synced(a)'
    BY DEF Synced
  <2>3. ~Alive' /\ pc' \notin Requests
    BY DEF Alive, Requests
  <2> QED
    BY <1>1, <2>1, <2>2, <2>3, HostStep DEF IInv
<1>4. FedInv' /\ CrashHasCause'
  BY DEF FedInv, CrashHasCause
<1> QED
  BY <1>1, <1>2, <1>3, <1>4 DEF IInv

\* usb_transfer without a handle: only i2c_write and i2c_read come to that, at an AUC that
\* did not open.
LEMMA NoHandleStep ==
  ASSUME AucBusAssumption, IInv, NoHandle
  PROVE  IInv'
<1> USE DEF NoHandle
<1>0. i \in Nat /\ pc \in {"write", "read"} /\ i < g_auc_cnts
  BY DEF IInv, TypeInv, PlaceInv, Requests
<1>1. TypeInv'
  BY DEF IInv, TypeInv, host, call, device, Requests
<1>2. PlaceInv'
  BY DEF IInv, PlaceInv, host, call, device
<1>3. FlightInv' /\ DebtInv' /\ SyncInv'
  <2>1. faults <= faults' /\ run <= run'
    BY AucBusAssumption DEF IInv, TypeInv
  <2>2. \A a \in Aucs : ~Synced(a)'
    BY DEF Synced
  <2>3. ~Alive' /\ pc' \notin Requests
    BY DEF Alive, Requests
  <2> QED
    BY <1>1, <2>1, <2>2, <2>3, HostStep DEF IInv
<1>4. FedInv'
  BY DEF FedInv
<1>5. CrashHasCause'
  <2>1. i \in Aucs \/ g_auc_cnts # auc_cnt
    <3>1. g_auc_cnts = auc_cnt => g_auc_cnts = 0 \/ g_auc_cnts = Attached
      BY DEF IInv, PlaceInv
    <3> QED
      BY <1>0, <3>1, Counted DEF Aucs, IInv, TypeInv
  <2> QED
    BY <2>1 DEF CrashHasCause, host, device
<1> QED
  BY <1>1, <1>2, <1>3, <1>4, <1>5 DEF IInv

\* The process is killed.
LEMMA KillStep ==
  ASSUME AucBusAssumption, IInv, Kill
  PROVE  IInv'
<1> USE DEF Kill
<1>1. TypeInv'
  BY DEF IInv, TypeInv, host, call, device, Requests
<1>2. PlaceInv'
  BY DEF IInv, PlaceInv, host, call, device
<1>3. FlightInv' /\ DebtInv' /\ SyncInv'
  <2>1. faults <= faults' /\ run <= run'
    BY AucBusAssumption DEF IInv, TypeInv
  <2>2. \A a \in Aucs : ~Synced(a)'
    BY DEF Synced
  <2>3. ~Alive' /\ pc' \notin Requests
    BY DEF Alive, Requests
  <2> QED
    BY <1>1, <2>1, <2>2, <2>3, HostStep DEF IInv
<1>4. FedInv' /\ CrashHasCause'
  BY DEF FedInv, CrashHasCause
<1> QED
  BY <1>1, <1>2, <1>3, <1>4 DEF IInv

\* The next process.
LEMMA RerunStep ==
  ASSUME AucBusAssumption, IInv, Rerun
  PROVE  IInv'
<1> USE DEF Rerun
<1>0. run' \in 1 .. MaxRuns
  BY Counted DEF IInv
<1>1. TypeInv'
  <2> HIDE DEF Rerun
  <2>1. pc' = "getcounts" /\ half' = "out" /\ i' = 0 /\ auc_cnt' = 0 /\ g_auc_cnts' = 0 /\ opened' = {}
    BY DEF Rerun
  <2> QED
    BY <1>0, <2>1 DEF Rerun, IInv, TypeInv, call, device
<1>2. PlaceInv'
  BY DEF IInv, PlaceInv, TypeInv
<1>3. FlightInv' /\ DebtInv' /\ SyncInv'
  <2>1. faults <= faults' /\ run < run' /\ run <= run'
    BY AucBusAssumption DEF IInv, TypeInv
  <2>2. \A a \in Aucs : ~Synced(a)'
    BY DEF Synced
  <2>3. pc \notin Requests /\ pc' \notin Requests
    BY DEF Alive, Requests
  <2> QED
    BY <1>1, <2>1, <2>2, <2>3, HostStep DEF IInv
<1>4. FedInv' /\ CrashHasCause'
  BY DEF FedInv, CrashHasCause
<1> QED
  BY <1>1, <1>2, <1>3, <1>4 DEF IInv
-----------------------------------------------------------------------------
\* What follows a usb_transfer that gave r, one outcome a line.
Passed(r) ==
  \/ pc = "deinit" /\ pc' = "drain" /\ half' = "in" /\ UNCHANGED <<i, left, resp, ret>>
  \/ pc = "drain" /\ r # None /\ pc' = "drain" /\ half' = "in" /\ UNCHANGED <<i, left, resp, ret>>
  \/ pc = "drain" /\ r = None /\ pc' = "init" /\ half' = "out" /\ UNCHANGED <<i, left, resp, ret>>
  \/ pc = "init" /\ pc' = "reset" /\ half' = "out" /\ UNCHANGED <<i, left, resp, ret>>
  \/ pc = "reset" /\ pc' = "open" /\ i' = i + 1 /\ UNCHANGED <<half, left, resp, ret>>
  \/ /\ pc \in {"write", "read"} /\ pc' = pc /\ r # None /\ half' = "out"
     /\ left > 1 /\ left' = left - 1 /\ UNCHANGED <<i, resp, ret>>
  \/ /\ pc \in {"write", "read"} /\ pc' = pc /\ (r = None \/ left <= 1) /\ half' = "out"
     /\ i + 1 < g_auc_cnts /\ i' = i + 1 /\ left' = chunks /\ resp' \in Codes /\ ret' = ret
  \/ /\ pc \in {"write", "read"} /\ pc' = "idle" /\ (r = None \/ left <= 1)
     /\ resp' \in Codes /\ ret' \in {0, 1} /\ (ret' = 0 => ~(i + 1 < g_auc_cnts))
     /\ UNCHANGED <<half, i, left>>
  \/ /\ pc = "write" /\ r # None /\ r.body /\ pc' = "crash"
     /\ UNCHANGED <<half, i, left, resp, ret>>

LEMMA DonePasses ==
  ASSUME TypeInv, pc \in Requests \cup {"drain"}, NEW r, r = None \/ r \in Reply, Done(r)
  PROVE  Passed(r)
<1>0. r # None => r.resp \in Codes
  BY DEF Reply
<1>1. CASE pc \in {"deinit", "drain", "init", "reset"}
  BY <1>1 DEF Done, AfterDeinit, AfterDrain, Passed
<1>2. CASE pc \in {"write", "read"}
  <2>1. auc_xfer(r)
    BY <1>2 DEF Done
  <2>2. resp \in Codes /\ "err" \in Codes
    BY DEF TypeInv, Codes
  <2>3. CASE r = None
    <3>1. UNCHANGED resp /\ NextAuc
      BY <2>1, <2>3 DEF auc_xfer
    <3> QED
      BY <1>2, <2>2, <2>3, <3>1 DEF NextAuc, Passed
  <2>4. CASE r # None /\ r.body /\ pc = "write"
    BY <2>1, <2>4 DEF auc_xfer, Passed
  <2>5. CASE r # None /\ ~(r.body /\ pc = "write") /\ left > 1
    BY <1>2, <2>1, <2>5 DEF auc_xfer, Passed
  <2>6. CASE r # None /\ ~(r.body /\ pc = "write") /\ ~(left > 1)
    <3>1. NextAuc /\ resp' \in Codes
      BY <1>0, <2>1, <2>2, <2>6 DEF auc_xfer
    <3>2. left <= 1
      BY <2>6 DEF TypeInv
    <3> QED
      BY <1>2, <3>1, <3>2 DEF NextAuc, Passed
  <2> QED
    BY <2>3, <2>4, <2>5, <2>6
<1> QED
  BY <1>1, <1>2 DEF Requests

\* Where the driver is afterwards, and that it then waits for no answer to a packet.
LEMMA PassedOn ==
  ASSUME TypeInv, PlaceInv, NEW r, Passed(r), UNCHANGED <<host, chunks>>
  PROVE  /\ PlaceInv'
         /\ pc' \in {"open", "drain", "init", "reset", "write", "read", "idle", "crash"}
         /\ half' \in {"out", "in"} /\ i' \in Nat /\ left' \in 0 .. chunks'
         /\ resp' \in Codes /\ ret' \in {0, 1}
         /\ ~(pc' \in Requests /\ half' = "in")
         /\ \A a \in Aucs : Synced(a)' => Synced(a) \/ (a = i /\ pc = "drain" /\ r = None)
         /\ pc' = "crash" => pc = "write" /\ r # None /\ r.body
<1>1. i \in Nat /\ g_auc_cnts \in Nat /\ left \in 0 .. chunks /\ chunks \in Nat \ {0} /\ Aucs \subseteq Int
  BY DEF TypeInv, Aucs
<1>2. host' = host /\ auc_cnt' = auc_cnt /\ g_auc_cnts' = g_auc_cnts /\ opened' = opened /\ chunks' = chunks
  BY DEF host
<1>3. /\ pc' \in {"open", "drain", "init", "reset", "write", "read", "idle", "crash"}
      /\ resp' \in Codes /\ ret' \in {0, 1}
      /\ ~(pc' \in Requests /\ half' = "in")
      /\ pc' = "crash" => pc = "write" /\ r # None /\ r.body
  BY DEF Passed, TypeInv, Requests
<1>4. half' \in {"out", "in"} /\ i' \in Nat /\ left' \in 0 .. chunks'
  BY <1>1, <1>2 DEF Passed, TypeInv
<1>5. \A a \in opened : a \in Int /\ (pc \in {"deinit", "drain", "init", "reset"} => a <= i /\ i < g_auc_cnts)
  BY <1>1 DEF TypeInv, PlaceInv
<1>6. PlaceInv'
  <2>1. i' <= g_auc_cnts /\ (pc' = "drain" => half' = "in")
    BY <1>1, <1>5 DEF Passed, PlaceInv
  <2>2. pc' = "open" => \A a \in opened : a < i'
    BY <1>1, <1>5 DEF Passed
  <2>3. pc' \in {"deinit", "drain", "init", "reset"} => i' \in opened /\ \A a \in opened : a <= i'
    BY DEF Passed, PlaceInv
  <2>4. pc' \in {"open", "deinit", "drain", "init", "reset", "idle"} => g_auc_cnts > 0
    BY <1>1 DEF Passed, PlaceInv
  <2>5. pc' \in {"write", "read"} => i' < g_auc_cnts /\ left' > 0
    BY <1>1 DEF Passed, PlaceInv
  <2> QED
    BY <1>2, <2>1, <2>2, <2>3, <2>4, <2>5 DEF PlaceInv
<1>7. ASSUME NEW a \in Aucs, Synced(a)'
      PROVE  Synced(a) \/ (a = i /\ pc = "drain" /\ r = None)
  <2>1. a \in opened /\ a \in Int
    BY <1>1, <1>2, <1>7 DEF Synced
  <2>2. pc' \in {"idle", "init", "reset", "write", "read"} \/ a < i'
    BY <1>7 DEF Synced
  <2>3. pc \in {"init", "reset", "write", "read"} => Synced(a)
    BY <2>1 DEF Synced
  <2>4. pc \in {"deinit", "drain"} => a <= i /\ pc' \in {"drain", "init"} /\ i' = i
    BY <1>5, <2>1 DEF Passed
  <2>5. pc \in {"deinit", "drain"} /\ pc' = "drain" => Synced(a)
    BY <2>1, <2>2, <2>4 DEF Synced
  <2>6. pc \in {"deinit", "drain"} /\ pc' = "init" => pc = "drain" /\ r = None
    BY DEF Passed
  <2>7. pc \in {"deinit", "drain"} /\ a # i => Synced(a)
    BY <1>1, <2>1, <2>4 DEF Synced
  <2>8. pc \in {"deinit", "drain", "init", "reset", "write", "read"}
    BY DEF Passed
  <2> QED
    BY <2>3, <2>4, <2>5, <2>6, <2>7, <2>8
<1> QED
  BY <1>3, <1>4, <1>6, <1>7

\* What each AUC has got, once a transfer is over: all of it was answered, or it failed.
LEMMA PassedFed ==
  ASSUME TypeInv, PlaceInv, FedInv, NEW r, Passed(r), UNCHANGED <<host, chunks, fed>>,
         clean' \in BOOLEAN, clean' => clean, r # None => half = "in",
         pc \in {"write", "read"} /\ r = None => ~clean'
  PROVE  /\ FedInv'
         /\ pc = "write" /\ pc' = "idle" /\ ret' = 0 /\ clean' =>
              \A a \in 0 .. g_auc_cnts - 1 : a \in Aucs => fed'[a] = chunks
<1>1. i \in Nat /\ g_auc_cnts \in Nat /\ left \in Nat /\ chunks \in Nat /\ Aucs \subseteq Int
  BY DEF TypeInv, Aucs
<1>2. \A a \in Aucs : fed[a] \in Int
  BY DEF TypeInv
<1>3. /\ g_auc_cnts' = g_auc_cnts /\ chunks' = chunks /\ fed' = fed
  BY DEF host
<1>4. pc' \in {"write", "read"} => pc' = pc
  BY DEF Passed
<1>5. pc \in {"write", "read"} =>
        /\ left > 0 /\ i < g_auc_cnts
        /\ \A a \in Aucs : /\ a > i => fed[a] = 0
                           /\ a = i => fed[a] = chunks - left + (IF half = "in" THEN 1 ELSE 0)
                           /\ a < i /\ clean => fed[a] = chunks
  BY DEF FedInv, PlaceInv
<1>6. pc \in {"write", "read"} /\ pc' \in {"write", "read"} =>
        \/ /\ half = "in" /\ left' = left - 1 /\ i' = i /\ half' = "out"
        \/ /\ i' = i + 1 /\ left' = chunks /\ half' = "out"
           /\ clean' => half = "in" /\ left = 1
  BY <1>1, <1>5 DEF Passed
<1>7. FedInv'
  <2> SUFFICES ASSUME pc' \in {"write", "read"}, NEW a \in Aucs
               PROVE  /\ a > i' => fed[a] = 0
                      /\ a = i' => fed[a] = chunks - left' + (IF half' = "in" THEN 1 ELSE 0)
                      /\ a < i' /\ clean' => fed[a] = chunks
    BY <1>3 DEF FedInv
  <2>1. /\ a \in Int /\ fed[a] \in Int
        /\ a > i => fed[a] = 0
        /\ a = i => fed[a] = chunks - left + (IF half = "in" THEN 1 ELSE 0)
        /\ a < i /\ clean => fed[a] = chunks
    BY <1>1, <1>2, <1>4, <1>5
  <2>2. CASE half = "in" /\ left' = left - 1 /\ i' = i /\ half' = "out"
    BY <1>1, <2>1, <2>2
  <2>3. CASE i' = i + 1 /\ left' = chunks /\ half' = "out" /\ (clean' => half = "in" /\ left = 1)
    BY <1>1, <2>1, <2>3
  <2> QED
    BY <1>4, <1>6, <2>2, <2>3
<1>8. ASSUME pc = "write", pc' = "idle", ret' = 0, clean', NEW a \in 0 .. g_auc_cnts - 1, a \in Aucs
      PROVE  fed'[a] = chunks
  <2>1. r # None /\ left <= 1 /\ ~(i + 1 < g_auc_cnts)
    BY <1>8 DEF Passed
  <2>2. left = 1 /\ a <= i /\ half = "in"
    BY <1>1, <1>5, <1>8, <2>1
  <2> QED
    BY <1>1, <1>3, <1>5, <1>8, <2>2
<1> QED
  BY <1>7, <1>8
-----------------------------------------------------------------------------
\* usb_transfer, OUT: the packet goes out.
SendOk ==
  /\ pc \in Requests /\ half = "out" /\ i \in opened
  /\ endp' = [endp EXCEPT ![i] = Disown(@)]
  /\ work' = [work EXCEPT ![i] =
       Append(Disown(@), [own |-> TRUE, body |-> HasBody(pc),
                          resp |-> IF pc \in {"write", "read"} THEN "due" ELSE "ok"])]
  /\ half' = "in"
  /\ fed' = [fed EXCEPT ![i] = IF pc \in {"write", "read"} THEN @ + 1 ELSE @]
  /\ UNCHANGED <<pc, i, left, resp, ret, clean, faults, host, chunks, slipped, run>>

\* It does not.
SendFails ==
  /\ pc \in Requests /\ half = "out" /\ i \in opened
  /\ endp' = [endp EXCEPT ![i] = Disown(@)]
  /\ work' = [work EXCEPT ![i] = Disown(@)]
  /\ Done(None) /\ Fault /\ clean' = FALSE
  /\ UNCHANGED <<fed, host, chunks, slipped, run>>

LEMMA UsbOutCases == ASSUME UsbOut PROVE SendOk \/ SendFails
BY DEF UsbOut, SendOk, SendFails

LEMMA SendOkStep ==
  ASSUME AucBusAssumption, IInv, SendOk
  PROVE  IInv'
<1>0. /\ pc \in Requests /\ half = "out" /\ half' = "in" /\ i \in opened /\ i \in Aucs /\ i \in Int
      /\ UNCHANGED <<pc, i, left, resp, ret, clean, faults, auc_cnt, g_auc_cnts, opened, chunks, slipped, run>>
  BY DEF SendOk, IInv, TypeInv, host
<1>1. /\ work' \in [Aucs -> Seq(Packet)] /\ work'[i] # <<>> /\ Mine(work'[i][Len(work'[i])])
      /\ Len(work'[i]) = Len(work[i]) + 1 /\ \A a \in Aucs : a # i => work'[a] = work[a]
  <2> DEFINE e == [own |-> TRUE, body |-> HasBody(pc),
                   resp |-> IF pc \in {"write", "read"} THEN "due" ELSE "ok"]
  <2>1. e \in Packet /\ Mine(e)
    BY DEF Packet, Mine, HasBody
  <2>2. work' = [work EXCEPT ![i] = Append(Disown(@), e)]
    BY DEF SendOk
  <2> HIDE DEF e
  <2>3. work \in [Aucs -> Seq(Packet)]
    BY DEF IInv, TypeInv
  <2>4. LET w == Append(Disown(work[i]), e) IN
        w \in Seq(Packet) /\ w # <<>> /\ Len(w) = Len(work[i]) + 1 /\ w[Len(w)] = e
    BY <1>0, <2>1, <2>3, Sent
  <2>5. work'[i] = Append(Disown(work[i]), e)
    BY <1>0, <2>2, <2>3
  <2>6. work' \in [Aucs -> Seq(Packet)]
    BY <1>0, <2>2, <2>3, <2>4
  <2>7. \A a \in Aucs : a # i => work'[a] = work[a]
    BY <2>2, <2>3
  <2> QED
    BY <2>1, <2>4, <2>5, <2>6, <2>7
<1>2. /\ endp' \in [Aucs -> Seq(Reply)] /\ Len(endp'[i]) = Len(endp[i])
      /\ \A a \in Aucs : a # i => endp'[a] = endp[a]
  <2>1. endp' = [endp EXCEPT ![i] = Disown(@)] /\ endp \in [Aucs -> Seq(Reply)]
    BY DEF SendOk, IInv, TypeInv
  <2>2. Disown(endp[i]) \in Seq(Reply) /\ Len(Disown(endp[i])) = Len(endp[i])
    BY <1>0, <2>1, Disowned DEF Reply
  <2> QED
    BY <1>0, <2>1, <2>2
<1>3. /\ fed' \in [Aucs -> 0 .. MaxChunks]
      /\ \A a \in Aucs : fed'[a] = fed[a] + (IF a = i /\ pc \in {"write", "read"} THEN 1 ELSE 0)
  <2>1. fed' = [fed EXCEPT ![i] = IF pc \in {"write", "read"} THEN @ + 1 ELSE @]
    BY DEF SendOk
  <2>2. fed \in [Aucs -> 0 .. MaxChunks] /\ MaxChunks \in Nat
    BY Counted DEF IInv, TypeInv
  <2>3. pc \in {"write", "read"} => fed[i] + 1 \in 0 .. MaxChunks
    <3>1. pc \in {"write", "read"} => fed[i] = chunks - left + 0 /\ left > 0
      BY <1>0 DEF IInv, FedInv, PlaceInv
    <3>2. chunks \in 1 .. MaxChunks /\ left \in 0 .. chunks
      BY DEF IInv, TypeInv
    <3> QED
      BY <2>2, <3>1, <3>2
  <2>4. fed'[i] = IF pc \in {"write", "read"} THEN fed[i] + 1 ELSE fed[i]
    BY <1>0, <2>1, <2>2
  <2>5. \A a \in Aucs : a # i => fed'[a] = fed[a]
    BY <2>1, <2>2
  <2>6. fed' \in [Aucs -> 0 .. MaxChunks]
    BY <1>0, <2>1, <2>2, <2>3
  <2>7. \A a \in Aucs : fed[a] \in Int
    BY <2>2
  <2> QED
    BY <1>0, <2>4, <2>5, <2>6, <2>7
<1>4. TypeInv'
  BY <1>0, <1>1, <1>2, <1>3 DEF IInv, TypeInv
<1>5. PlaceInv'
  BY <1>0 DEF IInv, PlaceInv, Requests
<1>6. FlightInv'
  BY <1>0, <1>1 DEF FlightInv, Mine
<1>7. \A a \in Aucs : /\ Out(a) \in Nat /\ Out(a)' = Out(a) + (IF a = i THEN 1 ELSE 0)
                      /\ ~InFlight(a) /\ (InFlight(a)' <=> a = i)
  <2> TAKE a \in Aucs
  <2>1. Out(a) \in Nat /\ Len(work[a]) \in Nat /\ Len(endp[a]) \in Nat
    BY OutIsNat DEF IInv
  <2>2. ~InFlight(a) /\ (InFlight(a)' <=> a = i)
    BY <1>0 DEF InFlight
  <2>3. a = i => Len(work'[a]) = Len(work[a]) + 1 /\ Len(endp'[a]) = Len(endp[a])
    BY <1>1, <1>2
  <2>4. a # i => work'[a] = work[a] /\ endp'[a] = endp[a]
    BY <1>1, <1>2
  <2>5. \A m, n \in Nat : (m + 1) + n = (m + n) + 1
    OBVIOUS
  <2>6. a = i => Out(a)' = Out(a) + 1
    BY <2>1, <2>3, <2>5, Zenon DEF Out
  <2>7. a # i => Out(a)' = Out(a)
    BY <2>4 DEF Out
  <2>8. Out(a)' = Out(a) + (IF a = i THEN 1 ELSE 0)
    BY <2>1, <2>6, <2>7
  <2> QED
    BY <2>1, <2>2, <2>8
<1>8. DebtInv'
  <2> SUFFICES ASSUME NEW a \in Aucs
               PROVE  Out(a)' <= faults + run - 1 + (IF InFlight(a)' \/ ~Alive' THEN 1 ELSE 0)
    BY <1>0 DEF DebtInv
  <2>1. Out(a) <= faults + run - 1 + (IF InFlight(a) \/ ~Alive THEN 1 ELSE 0)
    BY DEF IInv, DebtInv
  <2>2. Alive /\ Alive' /\ faults \in Nat /\ run \in Nat
    BY <1>0, Counted DEF Alive, Requests, IInv
  <2> QED
    BY <1>7, <2>1, <2>2
<1>9. SyncInv'
  <2> SUFFICES ASSUME NEW a \in Aucs, Synced(a)', ~slipped'[a]
               PROVE  Out(a)' = IF InFlight(a)' THEN 1 ELSE 0
    BY DEF SyncInv
  <2>1. Synced(a) /\ ~slipped[a]
    BY <1>0 DEF Synced
  <2>2. Out(a) = 0
    BY <1>7, <2>1 DEF IInv, SyncInv
  <2> QED
    BY <1>7, <2>2
<1>10. FedInv'
  <2> SUFFICES ASSUME pc \in {"write", "read"}, NEW a \in Aucs
               PROVE  /\ a > i => fed'[a] = 0
                      /\ a = i => fed'[a] = chunks - left + 1
                      /\ a < i /\ clean => fed'[a] = chunks
    BY <1>0 DEF FedInv
  <2>1. /\ a > i => fed[a] = 0
        /\ a = i => fed[a] = chunks - left + 0
        /\ a < i /\ clean => fed[a] = chunks
    BY <1>0 DEF IInv, FedInv
  <2>2. fed[a] \in Int /\ a \in Int /\ chunks \in Int /\ left \in Int
    BY AucsAreNat DEF IInv, TypeInv
  <2> QED
    BY <1>0, <1>3, <2>1, <2>2
<1>11. CrashHasCause'
  BY <1>0 DEF CrashHasCause, Requests
<1> QED
  BY <1>4, <1>5, <1>6, <1>8, <1>9, <1>10, <1>11 DEF IInv

LEMMA SendFailsStep ==
  ASSUME AucBusAssumption, IInv, SendFails
  PROVE  /\ IInv'
         /\ ~clean'
<1>0. /\ pc \in Requests /\ half = "out" /\ i \in opened /\ i \in Aucs /\ Fault /\ clean' = FALSE
      /\ UNCHANGED <<fed, host, chunks, slipped, run, auc_cnt, g_auc_cnts, opened>>
      /\ Passed(None)
  BY DonePasses DEF SendFails, IInv, TypeInv, host
<1>1. /\ work' \in [Aucs -> Seq(Packet)] /\ endp' \in [Aucs -> Seq(Reply)]
      /\ \A a \in Aucs : Len(work'[a]) = Len(work[a]) /\ Len(endp'[a]) = Len(endp[a])
  <2>1. /\ endp' = [endp EXCEPT ![i] = Disown(@)] /\ endp \in [Aucs -> Seq(Reply)]
        /\ work' = [work EXCEPT ![i] = Disown(@)] /\ work \in [Aucs -> Seq(Packet)]
    BY DEF SendFails, IInv, TypeInv
  <2>2. Disown(endp[i]) \in Seq(Reply) /\ Len(Disown(endp[i])) = Len(endp[i])
    BY <1>0, <2>1, Disowned DEF Reply
  <2>3. Disown(work[i]) \in Seq(Packet) /\ Len(Disown(work[i])) = Len(work[i])
    BY <1>0, <2>1, Disowned DEF Packet
  <2> QED
    BY <1>0, <2>1, <2>2, <2>3
<1>2. /\ PlaceInv'
      /\ pc' \in {"open", "drain", "init", "reset", "write", "read", "idle", "crash"}
      /\ half' \in {"out", "in"} /\ i' \in Nat /\ left' \in 0 .. chunks'
      /\ resp' \in Codes /\ ret' \in {0, 1}
      /\ ~(pc' \in Requests /\ half' = "in") /\ pc' # "crash"
      /\ \A a \in Aucs : Synced(a)' => Synced(a)
  <2>1. pc # "drain"
    BY <1>0 DEF Requests
  <2> QED
    BY <1>0, <2>1, PassedOn DEF IInv
<1>3. faults' \in 0 .. MaxFaults /\ faults' = faults + 1 /\ faults \in Nat /\ run \in Nat
  BY <1>0, Counted DEF IInv
<1>4. TypeInv'
  <2>1. pc' \in Requests \cup {"open", "drain", "idle"}
    BY <1>2 DEF Requests
  <2> QED
    BY <1>0, <1>1, <1>2, <1>3, <2>1 DEF IInv, TypeInv
<1>5. FlightInv'
  BY <1>2 DEF FlightInv
<1>6. Alive /\ Alive' /\ \A a \in Aucs : Out(a)' = Out(a) /\ ~InFlight(a) /\ ~InFlight(a)' /\ Out(a) \in Nat
  BY <1>0, <1>1, <1>2, OutIsNat DEF Out, InFlight, Alive, Requests, IInv
<1>7. DebtInv'
  <2> SUFFICES ASSUME NEW a \in Aucs
               PROVE  Out(a)' <= faults' + run - 1 + 0
    BY <1>0, <1>6 DEF DebtInv
  <2>1. Out(a) <= faults + run - 1 + 0
    BY <1>6 DEF IInv, DebtInv
  <2> QED
    BY <1>3, <1>6, <2>1
<1>8. SyncInv'
  BY <1>0, <1>2, <1>6 DEF SyncInv, IInv
<1>9. FedInv'
  BY <1>0, PassedFed DEF IInv
<1>10. CrashHasCause'
  BY <1>2 DEF CrashHasCause
<1> QED
  BY <1>0, <1>2, <1>4, <1>5, <1>7, <1>8, <1>9, <1>10 DEF IInv
-----------------------------------------------------------------------------
\* usb_transfer, IN: an answer is read, and it can be taken.
TakeOk ==
  /\ pc \in Requests \cup {"drain"} /\ half = "in" /\ endp[i] # <<>>
  /\ endp' = [endp EXCEPT ![i] = Tail(@)]
  /\ Done(IF Fits(Head(endp[i])) THEN Head(endp[i]) ELSE None)
  /\ UNCHANGED <<slipped, clean, faults, host, chunks, work, fed, run>>

\* It is lost.
TakeFails ==
  /\ pc \in Requests \cup {"drain"} /\ half = "in" /\ endp[i] # <<>>
  /\ endp' = [endp EXCEPT ![i] = Tail(@)]
  /\ Done(None) /\ Slip /\ Fault /\ clean' = FALSE
  /\ UNCHANGED <<host, chunks, work, fed, run>>

LEMMA UsbInCases == ASSUME UsbIn PROVE TakeOk \/ TakeFails
BY DEF UsbIn, TakeOk, TakeFails

\* An AUC that this process has emptied, and that owes nothing since: the answer there is
\* the one that is waited for.
LEMMA HeadIsMine ==
  ASSUME AucBusAssumption, IInv, pc \in Requests, half = "in", endp[i] # <<>>, Synced(i), ~slipped[i]
  PROVE  Out(i) = 1 /\ Mine(Head(endp[i]))
<1>1. i \in opened /\ i \in Aucs /\ InFlight(i)
  BY DEF IInv, FlightInv, TypeInv, InFlight
<1>2. Out(i) = 1
  BY <1>1 DEF IInv, SyncInv
<1>3. /\ Len(work[i]) \in Nat /\ Len(endp[i]) \in Nat /\ endp[i] \in Seq(Reply) /\ work[i] \in Seq(Packet)
  BY <1>1, OutIsNat DEF IInv
<1>4. Len(endp[i]) \in Nat \ {0} /\ (Len(endp[i]) = 1 => Head(endp[i]) = endp[i][Len(endp[i])])
  BY <1>3, Taken
<1>5. Len(endp[i]) = 1 /\ Len(work[i]) = 0
  <2>1. \A m, n \in Nat : m + n = 1 /\ n \in Nat \ {0} => n = 1 /\ m = 0
    OBVIOUS
  <2> QED
    BY <1>2, <1>3, <1>4, <2>1, Zenon DEF Out
<1>6. work[i] = <<>>
  BY <1>3, <1>5
<1>7. Mine(endp[i][Len(endp[i])])
  BY <1>6 DEF IInv, FlightInv
<1> QED
  BY <1>2, <1>4, <1>5, <1>7

\* What is under way, when a step only takes the first answer at AUC i.
LEMMA OneTaken ==
  ASSUME IInv, i \in Aucs, endp[i] # <<>>, endp' = [endp EXCEPT ![i] = Tail(@)], UNCHANGED work
  PROVE  /\ work' \in [Aucs -> Seq(Packet)] /\ endp' \in [Aucs -> Seq(Reply)] /\ Head(endp[i]) \in Reply
         /\ \A a \in Aucs : /\ Out(a) \in Nat
                            /\ Out(a)' = Out(a) - (IF a = i THEN 1 ELSE 0)
                            /\ Out(a)' \in Nat
<1>1. endp \in [Aucs -> Seq(Reply)] /\ work \in [Aucs -> Seq(Packet)]
  BY DEF IInv, TypeInv
<1>2. /\ Tail(endp[i]) \in Seq(Reply) /\ Head(endp[i]) \in Reply
      /\ Len(Tail(endp[i])) = Len(endp[i]) - 1 /\ Len(endp[i]) \in Nat \ {0}
  BY <1>1, Taken
<1>3. endp' \in [Aucs -> Seq(Reply)] /\ endp'[i] = Tail(endp[i]) /\ \A a \in Aucs : a # i => endp'[a] = endp[a]
  BY <1>1, <1>2
<1>4. ASSUME NEW a \in Aucs
      PROVE  Out(a) \in Nat /\ Out(a)' = Out(a) - (IF a = i THEN 1 ELSE 0) /\ Out(a)' \in Nat
  <2>1. Out(a) \in Nat /\ Len(work[a]) \in Nat /\ Len(endp[a]) \in Nat
    BY OutIsNat DEF IInv
  <2>2. CASE a = i
    BY <1>2, <1>3, <2>1, <2>2 DEF Out
  <2>3. CASE a # i
    BY <1>3, <2>1, <2>3 DEF Out
  <2> QED
    BY <2>2, <2>3
<1> QED
  BY <1>1, <1>2, <1>3, <1>4

\* The end of a transfer that waited, with what is under way at the AUCs and what it cost.
LEMMA WaitOver ==
  ASSUME AucBusAssumption, IInv, NEW r, r = None \/ r \in Reply, Done(r),
         pc \in Requests \cup {"drain"}, half = "in",
         UNCHANGED <<host, chunks, fed, run>>, clean' \in BOOLEAN, clean' => clean,
         pc \in {"write", "read"} /\ r = None => ~clean',
         faults' \in 0 .. MaxFaults, faults <= faults',
         work' \in [Aucs -> Seq(Packet)], endp' \in [Aucs -> Seq(Reply)],
         slipped' \in [Aucs -> BOOLEAN],
         \A a \in Aucs : Out(a)' \in Nat /\ (a # i => Out(a)' = Out(a) /\ slipped'[a] = slipped[a]),
         \A a \in Aucs : a = i => Out(a)' <= faults' + run - 1,
         \A a \in Aucs : a = i /\ Synced(a)' /\ ~slipped'[a] => Out(a)' = 0,
         pc = "write" /\ r # None /\ r.body => slipped'[i]
  PROVE  /\ IInv'
         /\ pc = "write" /\ pc' = "idle" /\ ret' = 0 /\ clean' =>
              \A a \in 0 .. g_auc_cnts - 1 : a \in Aucs => fed'[a] = chunks
<1>0. /\ TypeInv /\ PlaceInv /\ FedInv /\ Passed(r) /\ run \in Nat /\ faults \in Nat /\ faults' \in Nat
  BY DonePasses, Counted DEF IInv
<1>1. i \in opened /\ i \in Aucs
  BY DEF IInv, TypeInv, FlightInv, PlaceInv
<1>2. /\ PlaceInv'
      /\ pc' \in {"open", "drain", "init", "reset", "write", "read", "idle", "crash"}
      /\ half' \in {"out", "in"} /\ i' \in Nat /\ left' \in 0 .. chunks'
      /\ resp' \in Codes /\ ret' \in {0, 1}
      /\ ~(pc' \in Requests /\ half' = "in")
      /\ \A a \in Aucs : Synced(a)' => Synced(a) \/ (a = i /\ pc = "drain" /\ r = None)
      /\ pc' = "crash" => pc = "write" /\ r # None /\ r.body
  BY <1>0, PassedOn
<1>3. TypeInv'
  <2>1. pc' \in Requests \cup {"open", "drain", "idle", "crash"}
    BY <1>2 DEF Requests
  <2>2. /\ auc_cnt' \in Nat /\ g_auc_cnts' \in Nat /\ opened' \subseteq Aucs
        /\ chunks' \in 1 .. MaxChunks /\ fed' \in [Aucs -> 0 .. MaxChunks] /\ run' \in 1 .. MaxRuns
    BY <1>0 DEF TypeInv, host
  <2> QED
    BY <1>2, <2>1, <2>2 DEF TypeInv
<1>4. FlightInv'
  BY <1>2 DEF FlightInv
<1>5. Alive /\ \A a \in Aucs : ~InFlight(a)' /\ (a # i => ~InFlight(a))
  BY <1>2 DEF InFlight, Alive, Requests
<1>6. DebtInv'
  <2> SUFFICES ASSUME NEW a \in Aucs
               PROVE  Out(a)' <= faults' + run - 1 + (IF ~Alive' THEN 1 ELSE 0)
    BY <1>5 DEF DebtInv
  <2>1. Out(a)' \in Nat /\ (a # i => Out(a)' = Out(a))
    OBVIOUS
  <2>2. Out(a) <= faults + run - 1 + (IF InFlight(a) \/ ~Alive THEN 1 ELSE 0)
    BY DEF IInv, DebtInv
  <2>3. a # i => Out(a)' <= faults + run - 1
    BY <1>0, <1>5, <2>1, <2>2
  <2>4. Out(a)' <= faults' + run - 1
    BY <1>0, <2>1, <2>3
  <2> QED
    BY <1>0, <2>1, <2>4
<1>7. SyncInv'
  <2> SUFFICES ASSUME NEW a \in Aucs, Synced(a)', ~slipped'[a]
               PROVE  Out(a)' = 0
    BY <1>5 DEF SyncInv
  <2>1. CASE a = i
    BY <2>1
  <2>2. CASE a # i
    <3>1. Synced(a) /\ ~slipped[a] /\ ~InFlight(a) /\ Out(a)' = Out(a)
      BY <1>2, <1>5, <2>2
    <3>2. Out(a) = 0
      BY <3>1 DEF IInv, SyncInv
    <3> QED
      BY <3>1, <3>2
  <2> QED
    BY <2>1, <2>2
<1>8. /\ FedInv'
      /\ pc = "write" /\ pc' = "idle" /\ ret' = 0 /\ clean' =>
           \A a \in 0 .. g_auc_cnts - 1 : a \in Aucs => fed'[a] = chunks
  BY <1>0, PassedFed
<1>9. CrashHasCause'
  BY <1>1, <1>2 DEF CrashHasCause
<1> QED
  BY <1>2, <1>3, <1>4, <1>6, <1>7, <1>8, <1>9 DEF IInv

LEMMA TakeOkStep ==
  ASSUME AucBusAssumption, IInv, TakeOk
  PROVE  /\ IInv'
         /\ pc = "write" /\ pc' = "idle" /\ ret' = 0 /\ clean' =>
              \A a \in 0 .. g_auc_cnts - 1 : a \in Aucs => fed'[a] = chunks
<1> DEFINE r == IF Fits(Head(endp[i])) THEN Head(endp[i]) ELSE None
<1>0. /\ pc \in Requests \cup {"drain"} /\ half = "in" /\ endp[i] # <<>> /\ Done(r)
      /\ endp' = [endp EXCEPT ![i] = Tail(@)]
      /\ UNCHANGED <<slipped, clean, faults, host, chunks, work, fed, run>>
  BY DEF TakeOk
<1>1. i \in opened /\ i \in Aucs
  BY <1>0 DEF IInv, TypeInv, FlightInv, PlaceInv
<1>2. /\ work' \in [Aucs -> Seq(Packet)] /\ endp' \in [Aucs -> Seq(Reply)] /\ Head(endp[i]) \in Reply
      /\ \A a \in Aucs : /\ Out(a) \in Nat
                         /\ Out(a)' = Out(a) - (IF a = i THEN 1 ELSE 0)
                         /\ Out(a)' \in Nat
  BY <1>0, <1>1, OneTaken
<1>3. r = None \/ r \in Reply
  BY <1>2
<1>4. pc \notin {"deinit", "reset"} => r = Head(endp[i]) /\ r # None
  <2>1. Head(endp[i]) # None
    BY <1>2 DEF Reply, None, Codes
  <2> QED
    BY <2>1 DEF Fits
<1>5. /\ faults' \in 0 .. MaxFaults /\ faults' = faults /\ clean' \in BOOLEAN /\ clean' = clean
      /\ slipped' \in [Aucs -> BOOLEAN] /\ slipped' = slipped
      /\ faults \in Nat /\ run \in Nat
  BY <1>0, Counted DEF IInv, TypeInv
<1>6. pc # "drain" => InFlight(i)
  BY <1>0 DEF InFlight
<1>7. pc \in {"init", "reset", "write", "read"} /\ ~slipped[i] => Out(i) = 1 /\ Mine(Head(endp[i]))
  BY <1>0, <1>1, HeadIsMine DEF Synced, Requests
<1>8. ASSUME NEW a \in Aucs, a = i
      PROVE  Out(a)' <= faults' + run - 1
  <2>1. Out(a) <= faults + run - 1 + 1
    <3>1. Out(a) <= faults + run - 1 + (IF InFlight(a) \/ ~Alive THEN 1 ELSE 0)
      BY DEF IInv, DebtInv
    <3>2. Out(a) \in Nat
      BY <1>2
    <3> QED
      BY <1>5, <3>1, <3>2
  <2> QED
    BY <1>2, <1>5, <1>8, <2>1
<1>9. ASSUME NEW a \in Aucs, a = i, Synced(a)', ~slipped'[a]
      PROVE  Out(a)' = 0
  <2>1. Passed(r)
    BY <1>0, <1>3, DonePasses DEF IInv
  <2> HIDE DEF r
  <2>0. i \in Int
    BY DEF IInv, TypeInv
  <2>2. pc \notin {"deinit", "drain"}
    BY <1>4, <1>9, <2>0, <2>1 DEF Passed, Synced
  <2>3. pc \in {"init", "reset", "write", "read"}
    BY <1>0, <2>2 DEF Requests
  <2>4. Out(a) = 1
    BY <1>5, <1>7, <1>9, <2>3
  <2> QED
    BY <1>2, <1>9, <2>4
<1>10. pc = "write" /\ r # None /\ r.body => slipped'[i]
  BY <1>4, <1>5, <1>7 DEF Mine, HasBody
<1>11. \A a \in Aucs : Out(a)' \in Nat /\ (a # i => Out(a)' = Out(a) /\ slipped'[a] = slipped[a])
  BY <1>2, <1>5
<1>12. UNCHANGED <<host, chunks, fed, run>> /\ faults <= faults' /\ (clean' => clean)
  BY <1>0, <1>5
<1>13. pc \in {"write", "read"} /\ r = None => ~clean'
  BY <1>4
<1> HIDE DEF r
<1> QED
  BY <1>0, <1>2, <1>3, <1>5, <1>8, <1>9, <1>10, <1>11, <1>12, <1>13, WaitOver

LEMMA TakeFailsStep ==
  ASSUME AucBusAssumption, IInv, TakeFails
  PROVE  /\ IInv'
         /\ ~clean'
<1>0. /\ pc \in Requests \cup {"drain"} /\ half = "in" /\ endp[i] # <<>> /\ Done(None) /\ Slip /\ Fault
      /\ endp' = [endp EXCEPT ![i] = Tail(@)] /\ clean' = FALSE
      /\ UNCHANGED <<host, chunks, work, fed, run>>
  BY DEF TakeFails
<1>1. i \in opened /\ i \in Aucs
  BY <1>0 DEF IInv, TypeInv, FlightInv, PlaceInv
<1>2. /\ work' \in [Aucs -> Seq(Packet)] /\ endp' \in [Aucs -> Seq(Reply)]
      /\ \A a \in Aucs : /\ Out(a) \in Nat
                         /\ Out(a)' = Out(a) - (IF a = i THEN 1 ELSE 0)
                         /\ Out(a)' \in Nat
  BY <1>0, <1>1, OneTaken
<1>3. /\ faults' \in 0 .. MaxFaults /\ faults' = faults + 1 /\ clean' \in BOOLEAN
      /\ faults \in Nat /\ run \in Nat
  BY <1>0, Counted DEF IInv, TypeInv
<1>4. /\ slipped' \in [Aucs -> BOOLEAN]
      /\ \A a \in Aucs : a # i => slipped'[a] = slipped[a]
      /\ slipped'[i] = ((work[i] # <<>> \/ endp'[i] # <<>>) \/ (slipped[i] /\ pc # "drain"))
  BY <1>0, <1>1 DEF Slip, IInv, TypeInv
<1>5. ASSUME NEW a \in Aucs, a = i
      PROVE  Out(a)' <= faults' + run - 1
  <2>1. Out(a) <= faults + run - 1 + (IF InFlight(a) \/ ~Alive THEN 1 ELSE 0)
    BY DEF IInv, DebtInv
  <2>2. Out(a) \in Nat
    BY <1>2
  <2> QED
    BY <1>2, <1>3, <1>5, <2>1, <2>2
<1>6. ASSUME NEW a \in Aucs, a = i, Synced(a)', ~slipped'[a]
      PROVE  Out(a)' = 0
  <2>1. work'[a] = <<>> /\ endp'[a] = <<>>
    BY <1>0, <1>4, <1>6
  <2> QED
    BY <2>1 DEF Out
<1>7. \A a \in Aucs : Out(a)' \in Nat /\ (a # i => Out(a)' = Out(a) /\ slipped'[a] = slipped[a])
  BY <1>2, <1>4
<1>8. UNCHANGED <<host, chunks, fed, run>> /\ faults <= faults'
  BY <1>0, <1>3
<1> QED
  BY <1>0, <1>2, <1>3, <1>4, <1>5, <1>6, <1>7, <1>8, WaitOver

\* usb_transfer, IN: nothing comes.
LEMMA UsbTimeoutStep ==
  ASSUME AucBusAssumption, IInv, UsbTimeout
  PROVE  /\ IInv'
         /\ pc \in Requests => ~clean'
<1>0. /\ pc \in Requests \cup {"drain"} /\ half = "in" /\ endp[i] = <<>> /\ Done(None) /\ Slip
      /\ UNCHANGED <<host, chunks, work, endp, fed, run>>
      /\ IF work[i] # <<>> THEN Fault ELSE UNCHANGED faults
      /\ clean' = (clean /\ work[i] = <<>>)
  BY DEF UsbTimeout
<1>1. i \in opened /\ i \in Aucs
  BY <1>0 DEF IInv, TypeInv, FlightInv, PlaceInv
<1>2. pc \in Requests => work[i] # <<>>
  BY <1>0 DEF IInv, FlightInv
<1>3. /\ work' \in [Aucs -> Seq(Packet)] /\ endp' \in [Aucs -> Seq(Reply)]
      /\ \A a \in Aucs : Out(a) \in Nat /\ Out(a)' = Out(a)
  BY <1>0, OutIsNat DEF Out, IInv, TypeInv
<1>4. /\ faults' \in 0 .. MaxFaults /\ faults <= faults' /\ faults \in Nat /\ run \in Nat /\ faults' \in Nat
      /\ pc \in Requests => faults' = faults + 1
  <2>1. CASE work[i] # <<>>
    BY <1>0, <2>1, Counted DEF IInv, TypeInv
  <2>2. CASE work[i] = <<>>
    BY <1>0, <1>2, <2>2, Counted DEF IInv, TypeInv
  <2> QED
    BY <2>1, <2>2
<1>5. /\ slipped' \in [Aucs -> BOOLEAN]
      /\ \A a \in Aucs : a # i => slipped'[a] = slipped[a]
      /\ slipped'[i] = ((work[i] # <<>> \/ endp'[i] # <<>>) \/ (slipped[i] /\ pc # "drain"))
  BY <1>0, <1>1 DEF Slip, IInv, TypeInv
<1>6. ASSUME NEW a \in Aucs, a = i
      PROVE  Out(a)' <= faults' + run - 1
  <2>1. Out(a) <= faults + run - 1 + (IF InFlight(a) \/ ~Alive THEN 1 ELSE 0)
    BY DEF IInv, DebtInv
  <2>2. Alive /\ (pc \notin Requests => ~InFlight(a))
    BY <1>0 DEF Alive, Requests, InFlight
  <2>3. Out(a) \in Nat /\ Out(a)' = Out(a)
    BY <1>3
  <2>4. CASE pc \in Requests
    BY <1>4, <2>1, <2>3, <2>4
  <2>5. CASE pc \notin Requests
    BY <1>4, <2>1, <2>2, <2>3, <2>5
  <2> QED
    BY <2>4, <2>5
<1>7. ASSUME NEW a \in Aucs, a = i, Synced(a)', ~slipped'[a]
      PROVE  Out(a)' = 0
  <2>1. work'[a] = <<>> /\ endp'[a] = <<>>
    BY <1>0, <1>5, <1>7
  <2> QED
    BY <2>1 DEF Out
<1>8. \A a \in Aucs : Out(a)' \in Nat /\ (a # i => Out(a)' = Out(a) /\ slipped'[a] = slipped[a])
  BY <1>3, <1>5
<1>9. clean' \in BOOLEAN /\ (clean' => clean) /\ (pc \in Requests => ~clean')
  BY <1>0, <1>2 DEF IInv, TypeInv
<1>10. UNCHANGED <<host, chunks, fed, run>> /\ (pc \in {"write", "read"} => ~clean')
  BY <1>0, <1>9 DEF Requests
<1> QED
  BY <1>0, <1>3, <1>4, <1>5, <1>6, <1>7, <1>8, <1>9, <1>10, WaitOver
-----------------------------------------------------------------------------
\* The converter answers its next packet.
LEMMA AnswerStep ==
  ASSUME AucBusAssumption, IInv, NEW b \in Aucs, Answer(b)
  PROVE  IInv'
<1>0. /\ work[b] # <<>> /\ work' = [work EXCEPT ![b] = Tail(@)]
      /\ \E c \in Codes : endp' = [endp EXCEPT ![b] = Append(@, [Head(work[b]) EXCEPT !.resp = c])]
      /\ UNCHANGED <<pc, half, i, host, call, slipped, faults, run>>
  BY DEF Answer, Codes
<1>a. /\ pc' = pc /\ half' = half /\ i' = i /\ slipped' = slipped /\ faults' = faults /\ run' = run
      /\ auc_cnt' = auc_cnt /\ g_auc_cnts' = g_auc_cnts /\ opened' = opened
      /\ chunks' = chunks /\ left' = left /\ resp' = resp /\ ret' = ret /\ fed' = fed /\ clean' = clean
  BY <1>0 DEF host, call
<1>1. work \in [Aucs -> Seq(Packet)] /\ endp \in [Aucs -> Seq(Reply)]
  BY DEF IInv, TypeInv
<1>2. PICK c \in Codes : endp' = [endp EXCEPT ![b] = Append(@, [Head(work[b]) EXCEPT !.resp = c])]
  BY <1>0
<1> DEFINE r == [Head(work[b]) EXCEPT !.resp = c]
<1>3. /\ Tail(work[b]) \in Seq(Packet) /\ Head(work[b]) \in Packet
      /\ Len(work[b]) \in Nat \ {0} /\ Len(Tail(work[b])) = Len(work[b]) - 1
      /\ Len(work[b]) = 1 => Head(work[b]) = work[b][Len(work[b])]
      /\ Tail(work[b]) # <<>> => Tail(work[b])[Len(Tail(work[b]))] = work[b][Len(work[b])]
  BY <1>0, <1>1, Taken
<1>4. r \in Reply /\ r.own = Head(work[b]).own /\ r.body = Head(work[b]).body
  BY <1>3 DEF Packet, Reply
<1> HIDE DEF r
<1>5. /\ Append(endp[b], r) \in Seq(Reply) /\ Append(endp[b], r) # <<>>
      /\ Len(Append(endp[b], r)) = Len(endp[b]) + 1 /\ Append(endp[b], r)[Len(Append(endp[b], r))] = r
  BY <1>1, <1>4, Came
<1>6. /\ work' \in [Aucs -> Seq(Packet)] /\ work'[b] = Tail(work[b])
      /\ \A a \in Aucs : a # b => work'[a] = work[a]
  BY <1>0, <1>1, <1>3
<1>7. /\ endp' \in [Aucs -> Seq(Reply)] /\ endp'[b] = Append(endp[b], r)
      /\ \A a \in Aucs : a # b => endp'[a] = endp[a]
  <2>1. endp' = [endp EXCEPT ![b] = Append(@, r)]
    BY <1>2 DEF r
  <2> QED
    BY <1>1, <1>5, <2>1
<1>8. \A a \in Aucs : Out(a)' = Out(a) /\ (InFlight(a)' <=> InFlight(a)) /\ (Synced(a)' <=> Synced(a))
  <2> TAKE a \in Aucs
  <2>1. (InFlight(a)' <=> InFlight(a)) /\ (Synced(a)' <=> Synced(a))
    BY <1>a DEF InFlight, Synced
  <2>2. Len(work[b]) \in Nat /\ Len(endp[b]) \in Nat
    BY <1>3, OutIsNat DEF IInv
  <2>3. CASE a = b
    <3>1. Len(work'[a]) = Len(work[a]) - 1 /\ Len(endp'[a]) = Len(endp[a]) + 1
      BY <1>3, <1>5, <1>6, <1>7, <2>3
    <3>2. \A m, n \in Nat : (m - 1) + (n + 1) = m + n
      OBVIOUS
    <3>3. Out(a)' = Out(a)
      BY <2>2, <2>3, <3>1, <3>2, Zenon DEF Out
    <3> QED
      BY <2>1, <3>3
  <2>4. CASE a # b
    BY <1>6, <1>7, <2>1, <2>4 DEF Out
  <2> QED
    BY <2>3, <2>4
<1>9. TypeInv'
  BY <1>a, <1>6, <1>7 DEF IInv, TypeInv
<1>10. PlaceInv'
  BY <1>a DEF IInv, PlaceInv
<1>11. FlightInv'
  <2> SUFFICES ASSUME pc \in Requests, half = "in"
               PROVE  /\ i \in opened
                      /\ IF work'[i] # <<>> THEN Mine(work'[i][Len(work'[i])])
                                            ELSE endp'[i] # <<>> /\ Mine(endp'[i][Len(endp'[i])])
    BY <1>a DEF FlightInv, Mine
  <2>1. /\ i \in opened /\ i \in Aucs
        /\ IF work[i] # <<>> THEN Mine(work[i][Len(work[i])])
                             ELSE endp[i] # <<>> /\ Mine(endp[i][Len(endp[i])])
    BY DEF IInv, FlightInv, TypeInv
  <2>2. CASE i # b
    BY <1>6, <1>7, <2>1, <2>2
  <2>3. CASE i = b /\ Tail(work[b]) # <<>>
    BY <1>0, <1>3, <1>6, <2>1, <2>3
  <2>4. CASE i = b /\ Tail(work[b]) = <<>>
    <3>1. Len(work[b]) = 1
      <4>0. Tail(work[b]) = <<>> /\ Len(<<>>) = 0
        BY <2>4
      <4>1. Len(Tail(work[b])) = 0
        BY <4>0, Zenon
      <4>2. \A n \in Nat \ {0} : n - 1 = 0 => n = 1
        OBVIOUS
      <4> QED
        BY <1>3, <4>1, <4>2, Zenon
    <3>2. Mine(Head(work[b]))
      BY <1>0, <1>3, <2>1, <2>4, <3>1
    <3>3. Mine(r)
      BY <1>4, <3>2 DEF Mine
    <3> QED
      BY <1>5, <1>6, <1>7, <2>1, <2>4, <3>3
  <2> QED
    BY <2>2, <2>3, <2>4
<1>12. DebtInv' /\ SyncInv'
  BY <1>a, <1>8 DEF IInv, DebtInv, SyncInv, Alive
<1>13. FedInv' /\ CrashHasCause'
  BY <1>a DEF IInv, FedInv, CrashHasCause
<1> QED
  BY <1>9, <1>10, <1>11, <1>12, <1>13 DEF IInv

-----------------------------------------------------------------------------
\* Every step preserves the invariant.
LEMMA Preserved ==
  ASSUME AucBusAssumption, IInv, [Next]_vars
  PROVE  IInv'
<1>1. CASE i2c_open
  BY <1>1, GetcountsStep, OpenStep, OpenedStep DEF i2c_open
<1>2. CASE i2c_write
  BY <1>2, StartStep DEF i2c_write
<1>3. CASE i2c_read
  <2>1. Start("read", 1) /\ 1 \in 1 .. MaxChunks
    BY <1>3, Counted DEF i2c_read, IInv
  <2> QED
    BY <2>1, StartStep
<1>4. CASE i2c_close
  BY <1>4, CloseStep
<1>5. CASE UsbOut
  BY <1>5, UsbOutCases, SendOkStep, SendFailsStep
<1>6. CASE UsbIn
  BY <1>6, UsbInCases, TakeOkStep, TakeFailsStep
<1>7. CASE NoHandle \/ UsbTimeout
  BY <1>7, NoHandleStep, UsbTimeoutStep
<1>8. CASE \E a \in Aucs : Answer(a)
  BY <1>8, AnswerStep
<1>9. CASE Kill \/ Rerun
  BY <1>9, KillStep, RerunStep
<1>10. CASE UNCHANGED vars
  <2>1. TypeInv' /\ PlaceInv' /\ FlightInv'
    BY <1>10 DEF vars, host, call, device, IInv, TypeInv, PlaceInv, FlightInv, Mine, HasBody
  <2>2. DebtInv' /\ SyncInv'
    BY <1>10 DEF vars, host, call, device, IInv, DebtInv, SyncInv, Out, InFlight, Synced, Alive
  <2>3. FedInv' /\ CrashHasCause'
    BY <1>10 DEF vars, host, call, device, IInv, FedInv, CrashHasCause
  <2> QED
    BY <2>1, <2>2, <2>3 DEF IInv
<1> QED
  BY <1>1, <1>2, <1>3, <1>4, <1>5, <1>6, <1>7, <1>8, <1>9, <1>10 DEF Next, usb_transfer

\* The endpoints hold no more than the faults and the processes left there.
LEMMA Typed ==
  ASSUME AucBusAssumption, IInv
  PROVE  TypeOK
<1>0. /\ faults \in Nat /\ run \in Nat /\ MaxFaults \in Nat /\ MaxRuns \in Nat /\ Attached \in Nat
      /\ MaxChunks \in Nat /\ faults <= MaxFaults /\ run <= MaxRuns
  BY Counted DEF IInv, TypeInv
<1>1. /\ i \in 0 .. Attached + 1 /\ auc_cnt \in 0 .. Attached /\ g_auc_cnts \in 0 .. Attached + 1
  <2>1. i \in Nat /\ auc_cnt \in Nat /\ g_auc_cnts \in Nat /\ i <= g_auc_cnts
    BY DEF IInv, TypeInv, PlaceInv
  <2>2. \/ auc_cnt = 0 /\ g_auc_cnts \in {0, 1}
        \/ auc_cnt = Attached /\ g_auc_cnts = Attached
    BY DEF IInv, PlaceInv
  <2> QED
    BY <1>0, <2>1, <2>2
<1>2. \A a \in Aucs : Len(work[a]) + Len(endp[a]) <= MaxFaults + MaxRuns
  <2> TAKE a \in Aucs
  <2>1. Out(a) <= faults + run - 1 + (IF InFlight(a) \/ ~Alive THEN 1 ELSE 0)
    BY DEF IInv, DebtInv
  <2>2. Out(a) \in Nat
    BY OutIsNat DEF IInv
  <2>3. Out(a) <= MaxFaults + MaxRuns
    BY <1>0, <2>1, <2>2
  <2> QED
    BY <2>3 DEF Out
<1>3. left \in 0 .. MaxChunks
  BY <1>0 DEF IInv, TypeInv
<1> QED
  BY <1>0, <1>1, <1>2, <1>3 DEF TypeOK, IInv, TypeInv

\* A step takes the answer to the packet it waits for, and an i2c_write that says it worked did.
LEMMA Trusted ==
  ASSUME AucBusAssumption, IInv, [Next]_vars
  PROVE  OwnAnswerTaken /\ WriteReaches
<1>1. OwnAnswerTaken
  <2> SUFFICES ASSUME NEW a \in Aucs, pc \in {"init", "reset", "write", "read"}, UsbIn, i = a, ~slipped[a]
               PROVE  Head(endp[a]).own
    BY DEF OwnAnswerTaken
  <2>1. pc \in Requests /\ half = "in" /\ endp[i] # <<>>
    BY DEF UsbIn, Requests
  <2>2. Synced(i)
    BY <2>1 DEF Synced, IInv, FlightInv
  <2> QED
    BY <2>1, <2>2, HeadIsMine DEF Mine
<1>2. WriteReaches
  <2> SUFFICES ASSUME pc = "write", pc' = "idle", ret' = 0, clean', NEW a \in 0 .. g_auc_cnts - 1
               PROVE  fed[a] = chunks
    BY DEF WriteReaches
  <2>1. ~i2c_open /\ ~i2c_write /\ ~i2c_read /\ ~i2c_close /\ ~Rerun
    BY DEF i2c_open, auc_getcounts, auc_open, Opened, i2c_write, i2c_read, Start, i2c_close, Rerun, Alive
  <2>2. ~NoHandle /\ ~Kill /\ ~(\E c \in Aucs : Answer(c)) /\ ~(UNCHANGED vars)
    BY DEF NoHandle, Kill, Answer, vars
  <2>3. ~UsbOut /\ ~UsbTimeout
    BY UsbOutCases, SendFailsStep, UsbTimeoutStep DEF SendOk, Requests
  <2>4. UsbIn
    BY <2>1, <2>2, <2>3 DEF Next, usb_transfer
  <2>5. TakeOk
    BY <2>4, UsbInCases, TakeFailsStep
  <2>6. a \in Aucs
    <3>1. i \in opened
      BY <2>5 DEF TakeOk, IInv, FlightInv, Requests
    <3>2. i < auc_cnt /\ i \in Nat
      BY <3>1 DEF IInv, PlaceInv, TypeInv
    <3>3. g_auc_cnts = Attached
      BY <3>2 DEF IInv, PlaceInv
    <3> QED
      BY <3>3 DEF Aucs
  <2>7. fed'[a] = chunks /\ fed' = fed
    BY <2>5, <2>6, TakeOkStep DEF TakeOk
  <2> QED
    BY <2>7
<1> QED
  BY <1>1, <1>2

\* The invariant holds in every state.
LEMMA Invariant == ASSUME AucBusAssumption PROVE Spec => []IInv
<1>1. Init => IInv
  BY Initially
<1>2. IInv /\ [Next]_vars => IInv'
  BY Preserved
<1> QED
  BY <1>1, <1>2, PTL DEF Spec

\* The state of auc.c and iic_auc.c is well typed, and an endpoint never holds more answers
\* than faults and processes left in it.
THEOREM WellTyped == ASSUME AucBusAssumption PROVE Spec => []TypeOK
<1>1. IInv => TypeOK
  BY Typed
<1> QED
  BY <1>1, Invariant, PTL

\* The driver dereferences NULL only after an AUC did not open, libusb_init failed, or an
\* answer was late (auc_open, usb_transfer, auc_xfer).
THEOREM CrashIsCaused == ASSUME AucBusAssumption PROVE Spec => []CrashHasCause
<1>1. IInv => CrashHasCause
  BY DEF IInv
<1> QED
  BY <1>1, Invariant, PTL

\* usb_transfer takes an answer for the packet it answers, and an i2c_write that met no failure
\* and says it worked gave every AUC every packet.
THEOREM TransfersAreTrusted ==
  ASSUME AucBusAssumption
  PROVE  Spec => [][OwnAnswerTaken /\ WriteReaches]_vars
<1>1. IInv /\ [Next]_vars => [OwnAnswerTaken /\ WriteReaches]_vars
  BY Trusted
<1> QED
  BY <1>1, Invariant, PTL DEF Spec
=============================================================================
