------------------------------- MODULE UsbUrbs -------------------------------
(***************************************************************************)
(* One transfer of libusb on Linux (os/linux_usbfs.c): it is split into URBs,  *)
(* which the kernel takes, completes and gives back one by one; when something *)
(* goes wrong the rest are discarded, and the transfer is reported when the   *)
(* last one has come back.  The lock of the transfer makes submission,         *)
(* cancellation and each completion atomic for one another, but not for the   *)
(* kernel, which goes on between any two ioctls.                               *)
(*                                                                         *)
(* The transfer reads: the device sends the bytes 1, 2, 3 ... of a stream.    *)
(***************************************************************************)
EXTENDS Integers, Sequences, FiniteSets, SequencesExt

CONSTANTS
  Setups,                  \* transfers to make, see Setup
  MAX_BULK_BUFFER_LENGTH,
  MAX_ISO_BUFFER_LENGTH

\* lengths: one length, or those of the iso packets; caps: what the kernel can do;
\* faults: statuses other than success that an URB may end with; refused: may
\* SUBMITURB fail?  gone: may the device be unplugged?
Setup ==
  [type : {"control", "bulk", "iso"}, lengths : Seq(Nat \ {0}),
   caps : SUBSET {"scatter_gather", "continuation", "no_limit"},
   faults : SUBSET {"stall", "proto", "overflow"}, refused : BOOLEAN, gone : BOOLEAN]

ASSUME UsbUrbsAssumption ==
  /\ MAX_BULK_BUFFER_LENGTH \in Nat \ {0} /\ MAX_ISO_BUFFER_LENGTH \in Nat \ {0}
  /\ \A s \in Setups :
       s \in Setup /\ s.lengths # <<>> /\ (s.type # "iso" => Len(s.lengths) = 1)

VARIABLES
  setup,        \* the one of Setups that this is
  pc,           \* who has the lock: "submit" and "refused" the submission, "discard" a
                \* cancellation, "remaining" the completion of an URB, "idle" nobody
  cancelled,    \* USBI_TRANSFER_CANCELLING: by the user or a timeout
  picked,       \* usbi_handle_disconnect has found it in flying_transfers
  removed,      \* the descriptor of the device is polled no more
  at,           \* the URB that submission or discard_urbs is at
  down,         \* the first URB, where discard_urbs ends
  urb,          \* each URB: "none", "queued", "done" or "reaped"
  ended,        \* the status it came back with
  actual,       \* and the bytes it got
  completed,    \* the kernel's list of completed URBs
  halted,       \* the endpoint is stalled
  blocked,      \* the kernel takes no more continuation URBs
  present,      \* the device is plugged in
  sent,         \* bytes the device has sent
  buffer,       \* transfer->buffer
  reaped,       \* the URB that was reaped and not yet handled, 0: none
  live,         \* tpriv->urbs is allocated
  retired,      \* num_retired
  action,       \* reap_action
  status,       \* reap_status
  transferred,  \* itransfer->transferred
  packets,      \* actual_length of the iso packets
  report        \* what the user was told: "none", "refused" or a transfer status

kernel == <<urb, ended, actual, completed, halted, blocked, present, sent, buffer>>
calls  == <<pc, at, down, cancelled, picked, removed>>
priv   == <<live, retired, action, status, transferred, packets, report>>
vars   == <<setup, calls, kernel, reaped, priv>>

-----------------------------------------------------------------------------
\* submit_bulk_transfer: pieces of bulk_buffer_len bytes, the last one shorter.
Length(s) == s.lengths[1]

Split(s) == s.caps \cap {"scatter_gather", "no_limit"} = {} \/ s.caps = {"continuation", "no_limit"}

BulkUrbs(s) ==
  LET size == IF Split(s) THEN MAX_BULK_BUFFER_LENGTH ELSE Length(s) IN
  [i \in 1 .. (Length(s) + size - 1) \div size |->
     IF i * size > Length(s) THEN Length(s) % size ELSE size]

\* submit_iso_transfer: as many packets as fit, in order.
IsoUrbs(s) ==
  FoldLeft(LAMBDA us, p : IF us # <<>> /\ FoldLeft(+, p, Last(us)) <= MAX_ISO_BUFFER_LENGTH
                            THEN [us EXCEPT ![Len(us)] = Append(@, p)] ELSE Append(us, <<p>>),
           <<>>, s.lengths)

\* The URBs: the lengths of their packets, of which only iso URBs have several.
UrbsOf(s) ==
  CASE s.type = "iso" -> IsoUrbs(s)
    [] s.type = "bulk" -> [i \in DOMAIN BulkUrbs(s) |-> <<BulkUrbs(s)[i]>>]
    [] OTHER -> <<<<Length(s)>>>>

Urbs == UrbsOf(setup)

N == Len(Urbs)

BufferLength(i) == FoldLeft(+, 0, Urbs[i])

Offset(i) == FoldLeft(LAMBDA n, u : n + FoldLeft(+, 0, u), 0, SubSeq(Urbs, 1, i - 1))

Total == Offset(N) + BufferLength(N)

\* USBFS_URB_SHORT_NOT_OK and USBFS_URB_BULK_CONTINUATION.
Continues == setup.type = "bulk" /\ Split(setup) /\ "continuation" \in setup.caps

Init ==
  /\ setup \in Setups
  /\ pc = "submit" /\ at = 1 /\ down = 1
  /\ cancelled = FALSE /\ picked = FALSE /\ removed = FALSE
  /\ urb = [i \in 1 .. N |-> "none"]
  /\ ended = [i \in 1 .. N |-> "none"]
  /\ actual = [i \in 1 .. N |-> <<>>]
  /\ completed = <<>> /\ halted = FALSE /\ blocked = FALSE
  /\ present = TRUE /\ sent = 0
  /\ buffer = [k \in 1 .. Total |-> 0]
  /\ reaped = 0
  /\ live = TRUE /\ retired = 0 /\ action = "NORMAL" /\ status = "COMPLETED"
  /\ transferred = 0 /\ packets = <<>>
  /\ report = "none"

-----------------------------------------------------------------------------
\* The kernel.  An URB ends with what its packets got, which is in the buffer.
Received(u) == FoldLeft(+, 0, u)

Ends(i, st, got) ==
  /\ ended' = [ended EXCEPT ![i] = st]
  /\ actual' = [actual EXCEPT ![i] = got]
  /\ sent' = sent + Received(got)
  /\ buffer' = [k \in DOMAIN buffer |->
       IF k - Offset(i) \in 1 .. Received(got) THEN sent + k - Offset(i) ELSE buffer[k]]

Fulls(i) == {Urbs[i]}

Shorts(i) ==
  {got \in [DOMAIN Urbs[i] -> 0 .. MAX_BULK_BUFFER_LENGTH + MAX_ISO_BUFFER_LENGTH] :
     /\ \A k \in DOMAIN got : got[k] <= Urbs[i][k]
     /\ got # Urbs[i]}

\* The ways to put URBs in order: one.
InOrder(set) ==
  {list \in [1 .. Cardinality(set) -> set] :
     \A m, n \in DOMAIN list : m < n => list[m] < list[n]}

\* Ends an URB by itself: full, short, or with a fault.  A short or failed one
\* of a chain takes the rest of the chain with it.
KernelCompletes ==
  \E i \in 1 .. N, st \in {"ok", "short"} \cup setup.faults :
    /\ urb[i] = "queued" /\ \A j \in 1 .. i - 1 : urb[j] # "queued"
    /\ ~halted
    /\ st = "overflow" => i = N
    /\ \E got \in IF st \in {"ok", "overflow"} THEN Fulls(i) ELSE Shorts(i) :
         /\ st = "short" => setup.type = "iso" \/ Received(got) < BufferLength(i)
         /\ Ends(i, st, got)
    /\ LET rest == IF Continues /\ st # "ok" /\ i < N
                     THEN {j \in i + 1 .. N : urb[j] = "queued"} ELSE {} IN
       /\ urb' = [j \in 1 .. N |-> IF j \in rest \cup {i} THEN "done" ELSE urb[j]]
       /\ \E list \in InOrder(rest) : completed' = completed \o <<i>> \o list
    /\ blocked' = (blocked \/ (Continues /\ st # "ok"))
    /\ halted' = (st = "stall")
    /\ UNCHANGED <<setup, calls, present, reaped, priv>>

\* Ends an URB because of DISCARDURB; some of its bytes may have come already.
Kill(i) ==
  /\ urb' = [urb EXCEPT ![i] = "done"]
  /\ completed' = Append(completed, i)
  /\ \E got \in {[k \in DOMAIN Urbs[i] |-> 0]}
                \cup {g \in Shorts(i) : ~halted /\ \A j \in 1 .. i - 1 : urb[j] # "queued"} :
       Ends(i, "cancelled", got)

\* Unplugged: all that is queued comes back.
Unplug ==
  /\ setup.gone /\ present /\ present' = FALSE
  /\ urb' = [i \in 1 .. N |-> IF urb[i] = "queued" THEN "done" ELSE urb[i]]
  /\ ended' = [i \in 1 .. N |-> IF urb[i] = "queued" THEN "gone" ELSE ended[i]]
  /\ actual' = [i \in 1 .. N |->
       IF urb[i] = "queued" THEN [k \in DOMAIN Urbs[i] |-> 0] ELSE actual[i]]
  /\ \E list \in InOrder({i \in 1 .. N : urb[i] = "queued"}) : completed' = completed \o list
  /\ UNCHANGED <<setup, calls, halted, blocked, sent, buffer, reaped, priv>>

-----------------------------------------------------------------------------
\* IOCTL_USBFS_SUBMITURB for the next URB.
Taken ==
  /\ present /\ ~(Continues /\ at > 1 /\ blocked)
  /\ urb' = [urb EXCEPT ![at] = "queued"]
  /\ at' = at + 1
  /\ pc' = IF at < N THEN "submit" ELSE "idle"
  /\ UNCHANGED <<down, live, retired, action, report>>

\* Refused: the first one ends it.  A later one is not reported, but those before
\* it are discarded; unless the kernel says that the transfer was short.
Unsubmitted_None(i) == 0

Unsubmitted_OneMore(i) == N - i + 2

Unsubmitted(i) == N - i + 1

Refused(short) ==
  /\ UNCHANGED <<urb, at>>
  /\ IF at = 1
       THEN /\ live' = FALSE /\ report' = "refused" /\ pc' = "idle"
            /\ UNCHANGED <<retired, action, down>>
       ELSE /\ action' = IF short THEN "COMPLETED_EARLY" ELSE "SUBMIT_FAILED"
            /\ retired' = retired + Unsubmitted(at)
            /\ pc' = IF short THEN "idle" ELSE "refused"
            /\ down' = 1
            /\ UNCHANGED <<live, report>>

Submit ==
  /\ pc = "submit"
  /\ \/ Taken
     \/ present /\ Continues /\ at > 1 /\ blocked /\ Refused(TRUE)
     \/ (setup.refused \/ ~present) /\ Refused(FALSE)
  /\ UNCHANGED <<setup, cancelled, picked, removed, ended, actual, completed, halted,
                 blocked, present, sent, buffer, reaped, status, transferred, packets>>

\* discard_urbs: from the last one down.  One that is done already is left.
DiscardFrom(first, last, who) ==
  /\ down' = first /\ at' = last
  /\ pc' = who
  /\ UNCHANGED <<cancelled, picked, removed>>

DiscardRefused ==
  /\ pc = "refused" /\ DiscardFrom(1, at - 1, "discard")
  /\ UNCHANGED <<setup, kernel, reaped, priv>>

discard_urbs ==
  /\ pc \in {"discard", "remaining"}
  /\ \/ urb[at] = "queued" /\ Kill(at)
     \/ urb[at] # "queued" /\ UNCHANGED <<urb, ended, actual, completed, sent, buffer>>
  /\ at' = at - 1
  /\ pc' = IF at > down THEN pc ELSE "idle"
  /\ UNCHANGED <<setup, down, cancelled, picked, removed, halted, blocked, present,
                 reaped, priv>>

\* By the user or the timeout.  A second one would find all discarded.
op_cancel_transfer ==
  /\ pc = "idle" /\ live /\ ~cancelled /\ cancelled' = TRUE
  /\ action' = IF setup.type = "bulk" /\ action = "ERROR" THEN action ELSE "CANCELLED"
  /\ down' = 1 /\ at' = N /\ pc' = "discard"
  /\ UNCHANGED <<setup, picked, removed, kernel, reaped, live, retired, status,
                 transferred, packets, report>>

-----------------------------------------------------------------------------
\* reap_for_handle: the ioctl, ...
Reap ==
  /\ reaped = 0 /\ completed # <<>> /\ pc # "remaining" /\ ~removed
  /\ reaped' = Head(completed) /\ completed' = Tail(completed)
  /\ urb' = [urb EXCEPT ![Head(completed)] = "reaped"]
  /\ UNCHANGED <<setup, calls, ended, actual, halted, blocked, present, sent, buffer, priv>>

\* ... and the completion, with the lock.
Report(st) ==
  /\ live' = FALSE
  /\ report' = IF action' = "CANCELLED" THEN "CANCELLED" ELSE st

GoesOn == UNCHANGED <<live, report>>

AllBack == retired' = N

\* handle_bulk_completion when a cancellation, an error or an early end is known:
\* the data is moved to where the data so far ends, and the last one reports.
Surplus_InPlace(i) == buffer

Surplus(i) ==
  [k \in DOMAIN buffer |->
     IF k - transferred \in 1 .. Received(actual[i])
       THEN buffer[k - transferred + Offset(i)] ELSE buffer[k]]

FinalStatus_Kept == status

\* Only an early end may still be a success.
FinalStatus ==
  IF AllBack /\ action # "COMPLETED_EARLY" /\ status = "COMPLETED" THEN "ERROR" ELSE status

AbnormalBulk(i) ==
  /\ action # "NORMAL"
  /\ buffer' = Surplus(i)
  /\ status' = FinalStatus
  /\ UNCHANGED <<action, calls>>
  /\ IF AllBack THEN Report(status') ELSE GoesOn

\* The URBs after i are discarded, and reported by the last of them.
CancelRemaining(i) ==
  IF AllBack THEN Report(status') /\ UNCHANGED calls
  ELSE GoesOn /\ DiscardFrom(i + 1, N, "remaining")

Verdict(i) ==
  CASE ended[i] = "gone"  -> "NO_DEVICE"
    [] ended[i] = "stall" -> "STALL"
    [] ended[i] = "overflow" -> "OVERFLOW"
    [] ended[i] = "proto" -> "ERROR"
    [] OTHER -> "COMPLETED"

\* Got less than it asked for.
ShortEnds(i) == Received(actual[i]) < BufferLength(i)

NormalBulk(i) ==
  /\ action = "NORMAL" /\ UNCHANGED buffer
  /\ status' = IF status = "COMPLETED" \/ ended[i] = "gone" THEN
                 (IF Verdict(i) # "COMPLETED" THEN Verdict(i) ELSE status) ELSE status
  /\ IF ended[i] = "overflow" THEN UNCHANGED <<action, calls>> /\ Report(status')
     ELSE IF Verdict(i) # "COMPLETED" THEN
       action' = (IF ended[i] = "proto" THEN "ERROR" ELSE action) /\ CancelRemaining(i)
     ELSE IF i = N THEN UNCHANGED <<action, calls>> /\ Report(status')
     ELSE IF ShortEnds(i) THEN action' = "COMPLETED_EARLY" /\ CancelRemaining(i)
     ELSE GoesOn /\ UNCHANGED <<action, calls>>

handle_bulk_completion(i) ==
  /\ setup.type = "bulk"
  /\ retired' = retired + 1
  /\ transferred' = transferred + Received(actual[i])
  /\ AbnormalBulk(i) \/ NormalBulk(i)
  /\ UNCHANGED packets

\* The results of the packets go to the next places, whichever URB this is.
handle_iso_completion(i) ==
  /\ setup.type = "iso"
  /\ retired' = retired + 1
  /\ packets' = packets \o actual[i]
  /\ UNCHANGED <<calls, buffer, action, status, transferred>>
  /\ IF action # "NORMAL" THEN (IF AllBack THEN Report("ERROR") ELSE GoesOn)
     ELSE IF i = N
       THEN Report(CASE ended[i] \in {"ok", "short", "cancelled"} -> "COMPLETED"
                     [] ended[i] = "gone" -> "NO_DEVICE" [] OTHER -> "ERROR")
       ELSE GoesOn

handle_control_completion(i) ==
  /\ setup.type = "control"
  /\ transferred' = transferred + Received(actual[i])
  /\ UNCHANGED <<action, calls, buffer, retired, status, packets>>
  /\ Report(IF ended[i] = "cancelled" THEN "CANCELLED" ELSE Verdict(i))

Handle ==
  /\ reaped # 0 /\ pc = "idle" /\ live
  /\ \/ handle_bulk_completion(reaped)
     \/ handle_iso_completion(reaped)
     \/ handle_control_completion(reaped)
  /\ reaped' = 0
  /\ UNCHANGED <<setup, urb, ended, actual, completed, halted, blocked, present, sent>>

reap_for_handle == Reap \/ Handle

\* op_handle_events sees POLLERR instead: usbi_remove_pollfd, and
\* usbi_handle_disconnect, which looks for the transfers of the device with one
\* lock, and ends each of them with another.
Disconnect ==
  /\ ~present /\ ~removed /\ reaped = 0 /\ pc # "remaining"
  /\ removed' = TRUE /\ picked' = (report = "none")
  /\ UNCHANGED <<setup, pc, at, down, cancelled, kernel, reaped, priv>>

op_clear_transfer_priv ==
  /\ picked /\ pc = "idle" /\ picked' = FALSE
  /\ live' = FALSE /\ report' = "NO_DEVICE"
  /\ UNCHANGED <<setup, pc, at, down, cancelled, removed, kernel, reaped, retired, action,
                 status, transferred, packets>>

op_handle_events == reap_for_handle \/ Disconnect \/ op_clear_transfer_priv

Next ==
  \/ KernelCompletes \/ Unplug
  \/ Submit \/ DiscardRefused \/ discard_urbs
  \/ op_cancel_transfer
  \/ op_handle_events

Spec == Init /\ [][Next]_vars

\* No call stops half way, whoever waits cancels after its timeout, and events
\* are handled; the device need not answer.
FairSpec ==
  /\ Spec
  /\ WF_vars(Submit \/ DiscardRefused \/ discard_urbs)
  /\ WF_vars(op_cancel_transfer) /\ WF_vars(op_handle_events)

-----------------------------------------------------------------------------
\* linux_usbfs.c, submit_bulk_transfer: "the user must not have freed the transfer
\* when the discarded URBs are reaped, otherwise libusb will be using freed
\* memory"; handle_bulk_completion: "cancel remaining urbs and wait for their
\* completion before reporting results".  When the user hears of the end of a
\* transfer, and may free it, no URB of it is left in the kernel, or nobody asks for
\* it any more because the device is gone.
ReportedWhenAllBack ==
  ~live => /\ reaped = 0
           /\ \A i \in 1 .. N : urb[i] # "queued" /\ (urb[i] = "done" => removed)

\* handle_bulk_completion: "our objectives are not to lose any "surplus" data, and
\* also to stick it at the end of the previously-received data (closing any
\* holes)".  The bytes reported are all that the device sent, in order, however
\* the transfer ended; not those of a device that is unplugged.
NothingLost ==
  report \notin {"none", "refused"} /\ ~removed /\ setup.type # "iso" =>
    transferred = sent /\ \A k \in 1 .. transferred : buffer[k] = k

\* A transfer that is reported as completed got all it asked for, or the device
\* ended it with a short packet: never because URBs were refused, discarded or
\* failed.  An iso transfer got the results of all its packets, in their places.
\* One exception: submit_bulk_transfer takes EREMOTEIO for a short read, and the
\* kernel refuses the rest of a chain so after any fault.
CompletedMeansData ==
  report = "COMPLETED" =>
    IF setup.type = "iso" THEN packets = FlattenSeq(actual)
    ELSE \/ transferred = Total \/ \E i \in 1 .. N : ended[i] = "short"
         \/ Continues /\ at \in 2 .. N

\* Every transfer is reported, though the device may never answer.
TransferEnds == <>(report # "none")
=============================================================================
