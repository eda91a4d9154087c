------------------------------ MODULE UsbEvents ------------------------------
(***************************************************************************)
(* libusb's event handling (io.c, sync.c): threads that each do one          *)
(* synchronous transfer, and threads that open and close a device.  Whoever  *)
(* gets events_lock handles the events of all; the others wait on            *)
(* event_waiters_cond.  Timeouts are libusb's own: a timer, or the timeout    *)
(* of poll, then a cancellation.                                             *)
(*                                                                         *)
(* A step ends where another thread can see the difference: at every lock    *)
(* that is kept over more than one access, and between unlocking and acting  *)
(* on what was read.  Times are small numbers; the 60 seconds of             *)
(* libusb_handle_events_completed lie beyond them.                           *)
(***************************************************************************)
EXTENDS Integers, Sequences, SequencesExt

CONSTANTS
  Callers,       \* threads in do_sync_bulk_transfer or libusb_control_transfer
  Openers,       \* threads that open a device and close it
  Setups,        \* what there is to run, see Setup
  None           \* no thread

\* opens: the openers that do; timeout of each caller's transfer, 0: none;
\* refused: callers whose submission the backend may refuse; timerfd:
\* usbi_using_timerfd; errors: bound on the times poll, or a signal, interrupts
\* event handling.
Setup ==
  [opens : SUBSET Openers, timeout : [Callers -> Nat], refused : SUBSET Callers,
   timerfd : BOOLEAN, errors : Nat]

ASSUME UsbEventsAssumption ==
  /\ Callers \cap Openers = {} /\ None \notin Callers \cup Openers
  /\ \A s \in Setups : s \in Setup

Threads == Callers \cup Openers

VARIABLES
  setup,     \* the one of Setups that this is
  pc,        \* where each thread is
  now,       \* CLOCK_MONOTONIC
  flying,    \* ctx->flying_transfers; a transfer is named after its caller
  fly,       \* who holds flying_transfers_lock
  tlock,     \* who holds the lock of each transfer
  deadline,  \* timeout of each transfer, 0: none or not submitted
  flags,     \* its USBI_TRANSFER_TIMED_OUT and _CANCELLING
  urb,       \* the kernel's side: "none", "queued", "ready" with data, "killed"
  status,    \* what the callback of each transfer got, "none" before it
  freed,     \* transfers that were freed
  timer,     \* ctx->timerfd: when it fires, 0: disarmed
  events,    \* who holds events_lock
  active,    \* ctx->event_handler_active
  modify,    \* ctx->pollfd_modify
  pipe,      \* bytes in ctx->ctrl_pipe
  fds,       \* openers whose device's fd is in ctx->pollfds
  polled,    \* those each thread took into its call of poll
  found,     \* what each thread was told: "first" in the list, the fds of poll, an error
  wake,      \* when the poll or the wait of each thread times out, 0: in 60 s
  cur,       \* the transfer each thread is at
  verdict,   \* the status it has for that
  quit,      \* callers that wait for the cancellation of their transfer
  job,       \* what each opener does
  errors     \* errors so far

transfers == <<flying, fly, tlock, deadline, flags, urb, status, freed, timer>>
handling  == <<events, active, modify, pipe, fds>>
local     == <<polled, found, wake, cur, verdict, quit, job>>
vars      == <<setup, pc, now, transfers, handling, local, errors>>

Timeout == setup.timeout

UsingTimerfd == setup.timerfd

Go(t, p) == pc' = [pc EXCEPT ![t] = p]

Completed(c) == status[c] # "none"

Expired(c) == deadline[c] # 0 /\ deadline[c] <= now

\* The transfers in the list whose timeout nobody has acted upon.  The list has
\* the soonest first.
Untimed ==
  {n \in 1 .. Len(flying) : deadline[flying[n]] # 0 /\ "TIMED_OUT" \notin flags[flying[n]]}

\* list_del: c, wherever it is in the list.
Unlist(c) == \E n \in 1 .. Len(flying) : flying[n] = c /\ flying' = RemoveAt(flying, n)

Init ==
  /\ setup \in Setups
  /\ pc = [t \in Threads |-> IF t \in Callers THEN "submit"
                             ELSE IF t \in setup.opens THEN "open" ELSE "done"]
  /\ now = 1
  /\ flying = <<>> /\ fly = None
  /\ tlock = [c \in Callers |-> None]
  /\ deadline = [c \in Callers |-> 0]
  /\ flags = [c \in Callers |-> {}]
  /\ urb = [c \in Callers |-> "none"]
  /\ status = [c \in Callers |-> "none"]
  /\ freed = {} /\ timer = 0
  /\ events = None /\ active = FALSE /\ modify = 0 /\ pipe = 0
  /\ fds = {}
  /\ polled = [t \in Threads |-> {}]
  /\ found = [t \in Threads |-> {}]
  /\ wake = [t \in Threads |-> 0]
  /\ cur = [t \in Threads |-> None]
  /\ verdict = [t \in Threads |-> "none"]
  /\ quit = {}
  /\ job = [o \in Openers |-> "open"]
  /\ errors = 0

-----------------------------------------------------------------------------
Later(a, b) == deadline'[a] = 0 \/ (deadline'[b] # 0 /\ deadline'[a] > deadline'[b])

\* Before the first transfer that times out later; without a timeout, at the end.
Place(c) ==
  LET later == {n \in 1 .. Len(flying) : deadline'[c] # 0 /\ Later(flying[n], c)} IN
  IF later = {} THEN Len(flying) + 1 ELSE Min(later)

IsFirst_ListEmpty(c) == flying # <<>> /\ Place(c) = 1 /\ deadline'[c] # 0

\* What add_to_flying_list returns: shall the timer be set for this one?
IsFirst(c) == Place(c) = 1 /\ deadline'[c] # 0

\* libusb_submit_transfer.  Its lock is held from calculate_timeout to the timer;
\* found notes what add_to_flying_list returns.
Add(c) ==
  /\ pc[c] = "submit" /\ tlock[c] = None /\ fly = None
  /\ tlock' = [tlock EXCEPT ![c] = c]
  /\ deadline' = [deadline EXCEPT ![c] = IF Timeout[c] = 0 THEN 0 ELSE now + Timeout[c]]
  /\ flying' = InsertAt(flying, Place(c), c)
  /\ found' = [found EXCEPT ![c] = IF IsFirst(c) THEN {"first"} ELSE {}]
  /\ Go(c, "backend")
  /\ UNCHANGED <<now, fly, flags, urb, status, freed, timer, handling,
                 polled, wake, cur, verdict, quit, job, errors>>

\* The backend takes the transfer, or refuses it.
Submit(c) ==
  LET arm == "first" \in found[c] /\ UsingTimerfd IN
  /\ pc[c] = "backend"
  /\ \/ /\ urb' = [urb EXCEPT ![c] = "queued"]
        /\ tlock' = [tlock EXCEPT ![c] = IF arm THEN c ELSE None]
        /\ Go(c, IF arm THEN "arm" ELSE "loop")
     \/ /\ c \in setup.refused /\ UNCHANGED <<urb, tlock>>
        /\ Go(c, "del")
  /\ UNCHANGED <<now, flying, fly, deadline, flags, status, freed, timer, handling,
                 local, errors>>

\* The timer is set for this transfer: the list is not looked at again.
Arm(c) ==
  /\ pc[c] = "arm"
  /\ timer' = deadline[c]
  /\ tlock' = [tlock EXCEPT ![c] = None]
  /\ Go(c, "loop")
  /\ UNCHANGED <<now, flying, fly, deadline, flags, urb, status, freed, handling,
                 local, errors>>

\* Refused: off the list, which needs flying_transfers_lock, then unlocked and freed.
Del(c) ==
  /\ pc[c] = "del" /\ fly = None
  /\ Unlist(c)
  /\ tlock' = [tlock EXCEPT ![c] = None]
  /\ freed' = freed \cup {c}
  /\ Go(c, "done")
  /\ UNCHANGED <<now, fly, deadline, flags, urb, status, timer, handling, local, errors>>

libusb_submit_transfer(c) ==
  Add(c) \/ Submit(c) \/ Arm(c) \/ Del(c)

-----------------------------------------------------------------------------
\* while (!completed), and after it: the status is read and the transfer freed.
Loop(c) ==
  /\ pc[c] = "loop"
  /\ IF Completed(c)
       THEN freed' = freed \cup {c} /\ Go(c, "done")
       ELSE UNCHANGED freed /\ Go(c, IF UsingTimerfd THEN "try" ELSE "next")
  /\ wake' = [wake EXCEPT ![c] = 0]
  /\ UNCHANGED <<now, flying, fly, tlock, deadline, flags, urb, status, timer, handling,
                 polled, found, cur, verdict, quit, job, errors>>

\* libusb_get_next_timeout: the transfer is found under the lock ...
FindNext(c) ==
  /\ pc[c] = "next" /\ fly = None
  /\ cur' = [cur EXCEPT ![c] = IF Untimed = {} THEN None ELSE flying[Min(Untimed)]]
  /\ Go(c, "read_next")
  /\ UNCHANGED <<now, transfers, handling, polled, found, wake, verdict, quit, job, errors>>

\* ... and its timeout is read after it.
ReadNext(c) ==
  /\ pc[c] = "read_next"
  /\ IF cur[c] # None /\ Expired(cur[c])
       THEN Go(c, "timeouts") /\ UNCHANGED wake
       ELSE /\ wake' = [wake EXCEPT ![c] = IF cur[c] = None THEN 0 ELSE deadline[cur[c]]]
            /\ Go(c, "try")
  /\ UNCHANGED <<now, transfers, handling, polled, found, cur, verdict, quit, job, errors>>

get_next_timeout(c) == FindNext(c) \/ ReadNext(c)

try_lock(c) == modify = 0 /\ events = None

\* libusb_try_lock_events; handle_events then copies the fds before it polls.
libusb_try_lock_events(c) ==
  /\ pc[c] = "try"
  /\ IF try_lock(c)
       THEN /\ events' = c /\ active' = TRUE
            /\ polled' = [polled EXCEPT ![c] = fds]
            /\ Go(c, IF Completed(c) THEN "unlock" ELSE "poll")
       ELSE Go(c, "check") /\ UNCHANGED <<events, active, polled>>
  /\ UNCHANGED <<now, transfers, modify, pipe, fds, found, wake, cur, verdict, quit, job, errors>>

\* Not the event handler: wait for whoever is, unless it went away meanwhile.
\* event_waiters_lock makes one step of it, as it does of every broadcast.
Check(c) ==
  /\ pc[c] = "check"
  /\ Go(c, IF Completed(c) THEN "loop"
           ELSE IF modify = 0 /\ ~active THEN "try" ELSE "wait")
  /\ UNCHANGED <<now, transfers, handling, local, errors>>

TimesOut(c) == wake[c] # 0 /\ wake[c] <= now

\* usbi_cond_timedwait: a broadcast, or the timeout.
Woken(c) ==
  /\ pc[c] = "woken"
  /\ Go(c, "loop")
  /\ UNCHANGED <<now, transfers, handling, local, errors>>

WaitTimeout(c) ==
  /\ pc[c] = "wait" /\ TimesOut(c)
  /\ Go(c, "timeouts")
  /\ UNCHANGED <<now, transfers, handling, local, errors>>

libusb_wait_for_event(c) == Check(c) \/ Woken(c) \/ WaitTimeout(c)

-----------------------------------------------------------------------------
Readable ==
  (IF pipe > 0 THEN {"ctrl"} ELSE {})
  \cup (IF timer # 0 /\ timer <= now THEN {"timer"} ELSE {})
  \cup (IF \E c \in Callers : urb[c] \in {"ready", "killed"} THEN {"dev"} ELSE {})

\* A wake-up through the pipe alone ends the call.
Poll(c) ==
  /\ pc[c] = "poll"
  /\ IF Readable # {}
       THEN /\ found' = [found EXCEPT ![c] = Readable]
            /\ Go(c, IF Readable = {"ctrl"} THEN "unlock"
                     ELSE IF "timer" \in Readable THEN "disarm" ELSE "reap")
       ELSE TimesOut(c) /\ Go(c, "timeouts") /\ found' = [found EXCEPT ![c] = {}]
  /\ UNCHANGED <<now, transfers, handling, polled, wake, cur, verdict, quit, job, errors>>

\* EINTR, or another error of poll.
PollFails(c) ==
  /\ pc[c] = "poll" /\ errors < setup.errors
  /\ errors' = errors + 1
  /\ \E e \in {"interrupted", "io"} : found' = [found EXCEPT ![c] = {e}]
  /\ Go(c, "unlock")
  /\ UNCHANGED <<now, transfers, handling, polled, wake, cur, verdict, quit, job>>

\* handle_timerfd_trigger begins by disarming the timer, before it has the lock.
Disarm(c) ==
  /\ pc[c] = "disarm"
  /\ timer' = 0
  /\ Go(c, "timeouts")
  /\ UNCHANGED <<now, flying, fly, tlock, deadline, flags, urb, status, freed, handling,
                 local, errors>>

LockFlying_NoLock(c) ==
  /\ pc[c] = "timeouts"
  /\ Go(c, "scan")
  /\ UNCHANGED <<now, transfers, handling, local, errors>>

LockFlying(c) ==
  /\ pc[c] = "timeouts" /\ fly = None
  /\ fly' = c
  /\ Go(c, "scan")
  /\ UNCHANGED <<now, flying, tlock, deadline, flags, urb, status, freed, timer, handling,
                 local, errors>>

Scan_All == Untimed

\* What handle_timeouts_locked acts upon.
Scan == {n \in Untimed : Expired(flying[n])}

\* Does the thread handle events, or only timeouts?
Handling(c) == events = c

NextTimer == IF Untimed = {} THEN 0 ELSE deadline[flying[Min(Untimed)]]

\* handle_timeouts_locked: the next expired transfer is marked, then cancelled;
\* after the last one the timer is set for what is left.
handle_timeouts_locked(c) ==
  /\ pc[c] = "scan"
  /\ IF Scan # {}
       THEN /\ flags' = [flags EXCEPT ![flying[Min(Scan)]] = @ \cup {"TIMED_OUT"}]
            /\ cur' = [cur EXCEPT ![c] = flying[Min(Scan)]]
            /\ Go(c, "cancel")
            /\ UNCHANGED <<fly, timer>>
       ELSE /\ fly' = None
            /\ timer' = IF Handling(c) /\ UsingTimerfd /\ NextTimer # 0 THEN NextTimer ELSE timer
            /\ Go(c, IF ~Handling(c) THEN "loop"
                     ELSE IF "dev" \in found[c] THEN "reap" ELSE "unlock")
            /\ cur' = [cur EXCEPT ![c] = None]
            /\ UNCHANGED flags
  /\ UNCHANGED <<now, flying, tlock, deadline, urb, status, freed, handling,
                 polled, found, wake, verdict, quit, job, errors>>

Killed(c) == IF urb[c] = "queued" THEN "killed" ELSE urb[c]

\* libusb_cancel_transfer, with flying_transfers_lock held.
Cancel(c) ==
  /\ pc[c] = "cancel" /\ tlock[cur[c]] = None
  /\ urb' = [urb EXCEPT ![cur[c]] = Killed(cur[c])]
  /\ flags' = [flags EXCEPT ![cur[c]] = @ \cup {"CANCELLING"}]
  /\ Go(c, "scan")
  /\ UNCHANGED <<now, flying, fly, tlock, deadline, status, freed, timer, handling, local, errors>>

handle_timeouts(c) == LockFlying(c) \/ handle_timeouts_locked(c) \/ Cancel(c)

Verdict(d) ==
  IF urb[d] = "ready" THEN "COMPLETED"
  ELSE IF "TIMED_OUT" \in flags[d] THEN "TIMED_OUT" ELSE "CANCELLED"

\* The backend takes what the kernel has finished, one transfer after the other,
\* each with its lock held, which is given up before the completion.
Reap(c) ==
  /\ pc[c] = "reap"
  /\ \/ \E d \in Callers :
          /\ urb[d] \in {"ready", "killed"} /\ tlock[d] = None
          /\ urb' = [urb EXCEPT ![d] = "none"]
          /\ cur' = [cur EXCEPT ![c] = d]
          /\ verdict' = [verdict EXCEPT ![c] = Verdict(d)]
          /\ Go(c, "complete")
     \/ /\ \A d \in Callers : urb[d] \notin {"ready", "killed"}
        /\ Go(c, "unlock") /\ UNCHANGED <<urb, cur, verdict>>
  /\ UNCHANGED <<now, flying, fly, tlock, deadline, flags, status, freed, timer, handling,
                 polled, found, wake, quit, job, errors>>

\* usbi_handle_transfer_completion: off the list, and the timer set again, ...
Complete(c) ==
  /\ pc[c] = "complete" /\ fly = None
  /\ Unlist(cur[c])
  /\ UNCHANGED <<deadline, flags>>
  /\ timer' = IF UsingTimerfd THEN NextTimer' ELSE timer
  /\ Go(c, "callback")
  /\ UNCHANGED <<now, fly, tlock, urb, status, freed, handling, local, errors>>

\* ... the callback, which sets completed of the caller, ...
Callback(c) ==
  /\ pc[c] = "callback"
  /\ status' = [status EXCEPT ![cur[c]] = verdict[c]]
  /\ Go(c, "notify")
  /\ UNCHANGED <<now, flying, fly, tlock, deadline, flags, urb, freed, timer, handling,
                 local, errors>>

\* A broadcast with event_waiters_lock held.
WakeAll(next) == [t \in Threads |-> IF next[t] = "wait" THEN "woken" ELSE next[t]]

\* ... and the news for the waiters.
Notify(c) ==
  /\ pc[c] = "notify"
  /\ pc' = WakeAll([pc EXCEPT ![c] = "reap"])
  /\ cur' = [cur EXCEPT ![c] = None] /\ verdict' = [verdict EXCEPT ![c] = "none"]
  /\ UNCHANGED <<now, transfers, handling, polled, found, wake, quit, job, errors>>

usbi_handle_transfer_completion(c) == Complete(c) \/ Callback(c) \/ Notify(c)

handle_events(c) ==
  \/ Poll(c) \/ PollFails(c) \/ Disarm(c) \/ Reap(c)
  \/ usbi_handle_transfer_completion(c)

\* libusb_unlock_events.
UnlockEvents(t) ==
  /\ pc[t] = "unlock"
  /\ events' = None /\ active' = FALSE
  /\ polled' = [polled EXCEPT ![t] = {}]
  /\ Go(t, "broadcast")
  /\ UNCHANGED <<now, transfers, modify, pipe, fds, found, wake, cur, verdict, quit, job, errors>>

\* Where a thread goes once it gave the lock up.  The first loop of a caller goes
\* on after EINTR, the second one after nothing.
AfterUnlock(t) ==
  IF t \in Openers THEN (IF job[t] = "open" THEN "modify" ELSE "done")
  ELSE IF "io" \in found[t] \/ ("interrupted" \in found[t] /\ t \in quit) THEN "failed"
  ELSE "loop"

Broadcast(t) ==
  /\ pc[t] = "broadcast"
  /\ pc' = WakeAll([pc EXCEPT ![t] = AfterUnlock(t)])
  /\ job' = IF t \in Openers THEN [job EXCEPT ![t] = "close"] ELSE job
  /\ found' = [found EXCEPT ![t] = {}]
  /\ UNCHANGED <<now, transfers, handling, polled, wake, cur, verdict, quit, errors>>

libusb_unlock_events(t) == UnlockEvents(t) \/ Broadcast(t)

\* Cancelled, and freed at once.
Failed_NoWait(c) ==
  /\ pc[c] = "failed" /\ tlock[c] = None
  /\ freed' = freed \cup {c} /\ Go(c, "done")
  /\ urb' = [urb EXCEPT ![c] = Killed(c)]
  /\ UNCHANGED <<now, flying, fly, tlock, deadline, flags, status, timer, handling, local, errors>>

\* Event handling failed: the transfer is cancelled and waited for; when it fails
\* again, the transfer is freed.
Failed(c) ==
  /\ pc[c] = "failed" /\ tlock[c] = None
  /\ IF c \in quit
       THEN freed' = freed \cup {c} /\ Go(c, "done") /\ UNCHANGED <<urb, flags, quit>>
       ELSE /\ urb' = [urb EXCEPT ![c] = Killed(c)]
            /\ flags' = [flags EXCEPT ![c] = @ \cup {"CANCELLING"}]
            /\ quit' = quit \cup {c}
            /\ Go(c, "loop") /\ UNCHANGED freed
  /\ UNCHANGED <<now, flying, fly, tlock, deadline, status, timer, handling,
                 polled, found, wake, cur, verdict, job, errors>>

do_sync_bulk_transfer(c) ==
  \/ libusb_submit_transfer(c) \/ Loop(c) \/ get_next_timeout(c)
  \/ libusb_try_lock_events(c) \/ libusb_wait_for_event(c)
  \/ handle_events(c) \/ handle_timeouts(c) \/ libusb_unlock_events(c)
  \/ Failed(c)

-----------------------------------------------------------------------------
\* libusb_open and libusb_close: the backend adds the fd of the device ...
Open(o) ==
  /\ pc[o] = "open"
  /\ fds' = fds \cup {o}
  /\ Go(o, "modify")
  /\ UNCHANGED <<now, transfers, events, active, modify, pipe, local, errors>>

\* ... and usbi_fd_notification, of which libusb_close has a copy: nobody may
\* start to handle events, whoever does is interrupted, ...
Modify(o) ==
  /\ pc[o] = "modify"
  /\ modify' = modify + 1 /\ pipe' = pipe + 1
  /\ Go(o, "lock_events")
  /\ UNCHANGED <<now, transfers, events, active, fds, local, errors>>

LockEvents_NoWait(o) == TRUE

\* ... and events_lock is taken.
LockEvents(o) == events = None

libusb_lock_events(o) ==
  /\ pc[o] = "lock_events" /\ LockEvents(o)
  /\ events' = o /\ active' = TRUE
  /\ Go(o, "read")
  /\ UNCHANGED <<now, transfers, modify, pipe, fds, local, errors>>

ReadPipe(o) ==
  /\ pc[o] = "read"
  /\ pipe' = pipe - 1
  /\ IF job[o] = "close"
       THEN Go(o, "do_close") /\ UNCHANGED modify
       ELSE Go(o, "unlock") /\ modify' = modify - 1
  /\ UNCHANGED <<now, transfers, events, active, fds, local, errors>>

DoClose_EndsModify(o) ==
  /\ pc[o] = "do_close" /\ fly = None
  /\ active' = FALSE /\ modify' = modify - 1
  /\ pc' = WakeAll([pc EXCEPT ![o] = "remove"])
  /\ UNCHANGED <<now, transfers, events, pipe, fds, local, errors>>

\* do_close takes and gives up the recursive lock once more, which says that
\* nobody handles events; then the backend removes the fd.
DoClose(o) ==
  /\ pc[o] = "do_close" /\ fly = None
  /\ active' = FALSE
  /\ pc' = WakeAll([pc EXCEPT ![o] = "remove"])
  /\ UNCHANGED <<now, transfers, events, modify, pipe, fds, local, errors>>

Detach(o) ==
  /\ pc[o] = "remove"
  /\ fds' = fds \ {o} /\ modify' = modify - 1
  /\ Go(o, "unlock")
  /\ UNCHANGED <<now, transfers, events, active, pipe, local, errors>>

libusb_open(o) ==
  \/ Open(o) \/ Modify(o) \/ libusb_lock_events(o) \/ ReadPipe(o)
  \/ DoClose(o) \/ Detach(o) \/ libusb_unlock_events(o)

-----------------------------------------------------------------------------
\* Time matters as long as a timeout is to come.
Tick ==
  /\ \E c \in Callers : deadline[c] > now
  /\ now' = now + 1
  /\ UNCHANGED <<pc, transfers, handling, local, errors>>

\* The device answers.
Answer(c) ==
  /\ urb[c] = "queued"
  /\ urb' = [urb EXCEPT ![c] = "ready"]
  /\ UNCHANGED <<pc, now, flying, fly, tlock, deadline, flags, status, freed, timer, handling,
                 local, errors>>

Next ==
  /\ \/ \E c \in Callers : do_sync_bulk_transfer(c) \/ Answer(c)
     \/ \E o \in Openers : libusb_open(o)
     \/ Tick
  /\ UNCHANGED setup

Spec == Init /\ [][Next]_vars

\* Threads are scheduled and time passes.  No device has to answer, and nobody is
\* helped by the 60 seconds after which poll and the wait give up.
FairSpec ==
  /\ Spec /\ WF_vars(Tick /\ UNCHANGED setup)
  /\ \A c \in Callers : WF_vars(do_sync_bulk_transfer(c) /\ UNCHANGED setup)
  /\ \A o \in Openers : WF_vars(libusb_open(o) /\ UNCHANGED setup)

-----------------------------------------------------------------------------
\* The state is well typed: the list holds a transfer at most once, and the counts
\* of the openers never go below zero (io.c, core.c).
TypeOK ==
  /\ now \in Nat
  /\ flying \in Seq(Callers) /\ IsInjective(flying)
  /\ {fly, events} \subseteq Threads \cup {None}
  /\ tlock \in [Callers -> Callers \cup {None}]
  /\ urb \in [Callers -> {"none", "queued", "ready", "killed"}]
  /\ status \in [Callers -> {"none", "COMPLETED", "TIMED_OUT", "CANCELLED"}]
  /\ freed \subseteq Callers /\ quit \subseteq Callers /\ fds \subseteq Openers
  /\ active \in BOOLEAN
  /\ modify \in Nat /\ pipe \in Nat /\ modify >= pipe
  /\ errors \in 0 .. setup.errors

\* core.c, libusb_open: "we want to interrupt any existing event handlers so that
\* they realise the addition of the new device's poll fd".  After libusb_open no
\* thread is in poll without it; after libusb_close none is in poll with it.
NoStaleFds ==
  \A c \in Callers, o \in Openers :
    pc[c] = "poll" =>
      /\ pc[o] = "done" => o \notin polled[c]
      /\ job[o] = "close" /\ o \in fds => o \in polled[c] \/ pc[o] = "done"

\* Nobody touches a transfer that its caller has freed: neither those that look
\* for expired timeouts nor whoever handles its completion (io.c: "transfer might
\* have been freed by the above call, do not use from this point").
NoUseAfterFree ==
  \A c \in Callers :
    pc[c] \in {"cancel", "complete", "callback"} => cur[c] \notin freed

\* io.c, libusb_free_transfer: "It is not legal to free an active transfer".
FreeNotActive == \A c \in freed : urb[c] = "none" /\ \A n \in 1 .. Len(flying) : flying[n] # c

\* A transfer is completed once, and reported as timed out only after its timeout,
\* whoever looked at the timeouts and whatever the device answered meanwhile.
CompletedOnce ==
  [][\A c \in Callers :
       /\ Completed(c) => status'[c] = status[c]
       /\ status'[c] # status[c] => c \notin freed
       /\ status'[c] = "TIMED_OUT" => Expired(c)]_vars

\* sync.c: "timeout (in millseconds) that this function should wait before giving
\* up".  Every call with a timeout returns, though no device ever answers and no
\* thread but the callers handles events; and every open and close does.
Returns == <>(\A t \in Threads : t \in Openers \/ Timeout[t] > 0 => pc[t] = "done")
=============================================================================
