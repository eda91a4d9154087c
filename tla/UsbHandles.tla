----------------------------- MODULE UsbHandles -----------------------------
(***************************************************************************)
(* What libusb knows of the interfaces a handle has claimed and what the kernel     *)
(* knows (core.c, os/linux_usbfs.c): threads claim, release, reset, detach and        *)
(* configure, on one handle or on several.  claimed_interfaces is changed under the  *)
(* lock of the handle; a reset gives the interfaces back before it takes the lock.   *)
(***************************************************************************)
EXTENDS Integers, FiniteSets

CONSTANTS
  Threads, Handles,
  Interfaces,           \* 0 .. n
  InterfacesOf,         \* of each configuration
  NoOwner

UsbHandlesAssumption ==
  /\ IsFiniteSet(Interfaces) /\ Interfaces = 0 .. Cardinality(Interfaces) - 1
  /\ InterfacesOf \in [DOMAIN InterfacesOf -> SUBSET Interfaces]
  /\ {"driver", NoOwner} \cap Handles = {}

VARIABLES
  attached,             \* dev->attached
  active,               \* the configuration of the device
  bound,                \* kernel: the handle or the driver that has an interface
  claimed_interfaces,   \* of each handle
  lock,                 \* handle->lock, while a reset has it
  call,                 \* of each thread: what it is in, of which handle and interface
  foreign               \* pairs of handle and interface the kernel has changed unasked

nvars == <<attached, active, bound, claimed_interfaces, lock, call, foreign>>

Idle == [op |-> "none", dev |-> NoOwner, interface |-> 0]

Init ==
  /\ attached = TRUE /\ active \in DOMAIN InterfacesOf
  /\ bound \in [Interfaces -> {"driver", NoOwner}]
  /\ \A i \in Interfaces \ InterfacesOf[active] : bound[i] = NoOwner
  /\ claimed_interfaces = [h \in Handles |-> {}] /\ lock = [h \in Handles |-> NoOwner]
  /\ call = [t \in Threads |-> Idle] /\ foreign = {}

-----------------------------------------------------------------------------
\* usbfs.
Claimable(h, i) == attached /\ i \in InterfacesOf[active] /\ bound[i] \in {NoOwner, h}

Releasable(h, i) == attached /\ bound[i] = h

Free(t, h) == call[t] = Idle /\ lock[h] = NoOwner

libusb_claim_interface(t, h, i) ==
  /\ Free(t, h) /\ attached /\ i \notin claimed_interfaces[h]
  /\ Claimable(h, i)
  /\ bound' = [bound EXCEPT ![i] = h]
  /\ claimed_interfaces' = [claimed_interfaces EXCEPT ![h] = @ \cup {i}]
  /\ foreign' = foreign \ {<<h, i>>}
  /\ UNCHANGED <<attached, active, lock, call>>

\* Refused by the kernel (the device is gone, the reset of another thread has given the
\* interface back already), the interface stays in the mask.
libusb_release_interface(t, h, i) ==
  /\ Free(t, h) /\ i \in claimed_interfaces[h]
  /\ Releasable(h, i)
  /\ bound' = [bound EXCEPT ![i] = NoOwner]
  /\ claimed_interfaces' = [claimed_interfaces EXCEPT ![h] = @ \ {i}]
  /\ UNCHANGED <<attached, active, lock, call, foreign>>

\* The mask is looked at under the lock, the kernel is asked without it.  (usbfs claims
\* an interface that is used and has no driver.)
libusb_set_interface_alt_setting(t, h, i) ==
  /\ Free(t, h) /\ attached /\ i \in claimed_interfaces[h]
  /\ call' = [call EXCEPT ![t] = [op |-> "setintf", dev |-> h, interface |-> i]]
  /\ UNCHANGED <<attached, active, bound, claimed_interfaces, lock, foreign>>

op_set_interface(t) ==
  /\ call[t].op = "setintf"
  /\ LET h == call[t].dev i == call[t].interface IN
     IF Claimable(h, i) /\ bound[i] = NoOwner
       THEN bound' = [bound EXCEPT ![i] = h] /\ foreign' = foreign \cup {<<h, i>>}
       ELSE UNCHANGED <<bound, foreign>>
  /\ call' = [call EXCEPT ![t] = Idle]
  /\ UNCHANGED <<attached, active, claimed_interfaces, lock>>

-----------------------------------------------------------------------------
\* libusb_reset_device: the interfaces are released one after the other, unlocked.
libusb_reset_device(t, h) ==
  /\ call[t] = Idle /\ attached
  /\ call' = [call EXCEPT ![t] = [op |-> "release", dev |-> h, interface |-> 0]]
  /\ UNCHANGED <<attached, active, bound, claimed_interfaces, lock, foreign>>

reset_release(t) ==
  LET h == call[t].dev i == call[t].interface IN
  /\ call[t].op = "release" /\ i \in Interfaces
  /\ bound' = IF i \in claimed_interfaces[h] /\ Releasable(h, i)
                THEN [bound EXCEPT ![i] = NoOwner] ELSE bound
  /\ call' = [call EXCEPT ![t].interface = i + 1]
  /\ UNCHANGED <<attached, active, claimed_interfaces, lock, foreign>>

\* The handles that lose an interface to a reset they did not ask for.
Losers(h) == {p \in (Handles \ {h}) \X Interfaces : bound[p[2]] = p[1]}

\* With the lock: the kernel resets the device and lets go of every interface usbfs has;
\* some get their driver back.  When it fails the interfaces are not claimed again.
op_reset_device(t) ==
  LET h == call[t].dev IN
  /\ call[t].op = "release" /\ call[t].interface \notin Interfaces /\ lock[h] = NoOwner
  /\ \/ /\ attached
        /\ bound' \in [Interfaces -> Handles \cup {"driver", NoOwner}]
        /\ \A i \in Interfaces : IF bound[i] \in Handles THEN bound'[i] \in {"driver", NoOwner}
                                                       ELSE bound'[i] = bound[i]
        /\ lock' = [lock EXCEPT ![h] = t]
        /\ call' = [call EXCEPT ![t] = [op |-> "reclaim", dev |-> h, interface |-> 0]]
        /\ foreign' = foreign \cup Losers(h)
     \/ /\ call' = [call EXCEPT ![t] = Idle]
        /\ foreign' = foreign \cup ({h} \X claimed_interfaces[h])
        /\ UNCHANGED <<bound, lock>>
  /\ UNCHANGED <<attached, active, claimed_interfaces>>

\* What cannot be claimed again is no longer claimed.
NotReclaimed_Kept(h, i) == FALSE

NotReclaimed(h, i) == ~Claimable(h, i)

reset_reclaim(t) ==
  LET h == call[t].dev i == call[t].interface IN
  /\ call[t].op = "reclaim" /\ i \in Interfaces
  /\ IF i \in claimed_interfaces[h]
       THEN /\ bound' = IF Claimable(h, i) THEN [bound EXCEPT ![i] = h] ELSE bound
            /\ claimed_interfaces' =
                 [claimed_interfaces EXCEPT ![h] = IF NotReclaimed(h, i) THEN @ \ {i} ELSE @]
            /\ foreign' = foreign \ {<<h, i>>}
       ELSE UNCHANGED <<bound, claimed_interfaces, foreign>>
  /\ call' = [call EXCEPT ![t].interface = i + 1]
  /\ UNCHANGED <<attached, active, lock>>

reset_done(t) ==
  /\ call[t].op = "reclaim" /\ call[t].interface \notin Interfaces
  /\ lock' = [lock EXCEPT ![call[t].dev] = NoOwner]
  /\ call' = [call EXCEPT ![t] = Idle]
  /\ UNCHANGED <<attached, active, bound, claimed_interfaces, foreign>>

-----------------------------------------------------------------------------
\* No lock is taken for these.  DISCONNECT takes an interface from whoever has it.
libusb_detach_kernel_driver(i) ==
  /\ attached /\ bound[i] # NoOwner
  /\ bound' = [bound EXCEPT ![i] = NoOwner]
  /\ foreign' = foreign \cup {<<h, i>> : h \in Handles \cap {bound[i]}}
  /\ UNCHANGED <<attached, active, claimed_interfaces, lock, call>>

libusb_attach_kernel_driver(i) ==
  /\ attached /\ bound[i] = NoOwner /\ i \in InterfacesOf[active]
  /\ bound' = [bound EXCEPT ![i] = "driver"]
  /\ UNCHANGED <<attached, active, claimed_interfaces, lock, call, foreign>>

\* The kernel refuses while an interface is in use.
libusb_set_configuration ==
  /\ attached /\ \A i \in Interfaces : bound[i] = NoOwner
  /\ active' \in DOMAIN InterfacesOf
  /\ bound' \in [Interfaces -> {"driver", NoOwner}]
  /\ \A i \in Interfaces \ InterfacesOf[active'] : bound'[i] = NoOwner
  /\ UNCHANGED <<attached, claimed_interfaces, lock, call, foreign>>

\* The descriptor is closed, which releases all; the handle may be opened again.
libusb_close(h) ==
  /\ \A t \in Threads : call[t].dev # h
  /\ claimed_interfaces[h] # {} \/ \E i \in Interfaces : bound[i] = h
  /\ bound' = [i \in Interfaces |-> IF bound[i] = h THEN NoOwner ELSE bound[i]]
  /\ claimed_interfaces' = [claimed_interfaces EXCEPT ![h] = {}]
  /\ foreign' = foreign \ ({h} \X Interfaces)
  /\ UNCHANGED <<attached, active, lock, call>>

Unplug ==
  /\ attached
  /\ attached' = FALSE /\ bound' = [i \in Interfaces |-> NoOwner]
  /\ UNCHANGED <<active, claimed_interfaces, lock, call, foreign>>

Next ==
  \/ \E t \in Threads :
       \/ \E h \in Handles, i \in Interfaces :
            \/ libusb_claim_interface(t, h, i) \/ libusb_release_interface(t, h, i)
            \/ libusb_set_interface_alt_setting(t, h, i)
       \/ \E h \in Handles : libusb_reset_device(t, h)
       \/ op_set_interface(t) \/ reset_release(t) \/ op_reset_device(t)
       \/ reset_reclaim(t) \/ reset_done(t)
  \/ \E i \in Interfaces : libusb_detach_kernel_driver(i) \/ libusb_attach_kernel_driver(i)
  \/ libusb_set_configuration \/ \E h \in Handles : libusb_close(h)
  \/ Unplug

Spec == Init /\ [][Next]_nvars

-----------------------------------------------------------------------------
\* Between the calls a handle takes for claimed what it has in the kernel: claims,
\* releases and resets of several threads on one handle, whose kernel calls are not all
\* under the lock, leave no interface that is used without being claimed and none that
\* nobody can release.  Not so for an interface that a reset through another handle or a
\* detach has taken, that a failed reset of the handle may have lost, or that the kernel
\* has claimed by itself for an alternate setting.
ClaimedIsBound ==
  attached =>
    \A h \in Handles : (\A t \in Threads : call[t].dev # h) =>
      \A i \in Interfaces :
        <<h, i>> \in foreign \/ (i \in claimed_interfaces[h] <=> bound[i] = h)
=============================================================================
