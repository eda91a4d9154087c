-------------------------- MODULE UsbHandlesProofs --------------------------
(***************************************************************************)
(* Proofs about UsbHandles, for any number of threads, handles, interfaces  *)
(* and configurations: what a handle takes for claimed between the calls is *)
(* what it has in the kernel (ClaimedIsBound).                              *)
(***************************************************************************)
EXTENDS UsbHandles, FiniteSetTheorems, TLAPS

Owners == Handles \cup {"driver", NoOwner}
Calls == [op : {"none", "setintf", "release", "reclaim"}, dev : Handles \cup {NoOwner}, interface : Nat]

TypeInv ==
  /\ attached \in BOOLEAN /\ active \in DOMAIN InterfacesOf
  /\ bound \in [Interfaces -> Owners]
  /\ claimed_interfaces \in [Handles -> SUBSET Interfaces]
  /\ call \in [Threads -> Calls]
  /\ \A t \in Threads : call[t].op # "none" => call[t].dev \in Handles

\* A reset that is under way will come to interface i of h again: it is still releasing, or
\* it has not claimed it again yet.
Returns(h, i) ==
  \E t \in Threads : /\ call[t].dev = h
                     /\ call[t].op = "release" \/ (call[t].op = "reclaim" /\ call[t].interface <= i)

\* What a handle has in the kernel is of the configuration, and claimed unless the kernel
\* was not asked to.
BoundInv ==
  \A h \in Handles, i \in Interfaces :
    bound[i] = h => /\ attached /\ i \in InterfacesOf[active]
                    /\ i \in claimed_interfaces[h] \/ <<h, i>> \in foreign

\* What it takes for claimed it has, unless it was taken from it or a reset will come to it.
ReturnInv ==
  attached => \A h \in Handles, i \in Interfaces :
    i \in claimed_interfaces[h] /\ bound[i] # h => <<h, i>> \in foreign \/ Returns(h, i)

IInv == TypeInv /\ BoundInv /\ ReturnInv

LEMMA Numbers ==
  ASSUME UsbHandlesAssumption
  PROVE  /\ \A i \in Interfaces : i \in Nat /\ i + 1 \in Nat
         /\ 0 \in Nat
         /\ \A n \in Nat \ Interfaces, i \in Interfaces : ~(n <= i)
         /\ \A h \in Handles : h # "driver" /\ h # NoOwner
         /\ \A c \in DOMAIN InterfacesOf : InterfacesOf[c] \subseteq Interfaces
<1>1. Cardinality(Interfaces) \in Nat /\ Interfaces = 0 .. Cardinality(Interfaces) - 1
  BY FS_CardinalityType DEF UsbHandlesAssumption
<1> DEFINE n == Cardinality(Interfaces)
<1> HIDE DEF n
<1>2. n \in Nat /\ Interfaces = 0 .. n - 1
  BY <1>1 DEF n
<1>3. /\ \A i \in Interfaces : i \in Nat /\ i + 1 \in Nat
      /\ \A m \in Nat \ Interfaces, i \in Interfaces : ~(m <= i)
  BY <1>2
<1>4. /\ \A h \in Handles : h # "driver" /\ h # NoOwner
      /\ \A c \in DOMAIN InterfacesOf : InterfacesOf[c] \subseteq Interfaces
  BY DEF UsbHandlesAssumption
<1> QED
  BY <1>3, <1>4

LEMMA Initially == ASSUME UsbHandlesAssumption, Init PROVE IInv
<1> USE DEF Init
<1>1. \A i \in Interfaces, h \in Handles : bound[i] # h
  BY Numbers
<1>2. call \in [Threads -> Calls] /\ \A t \in Threads : call[t].op = "none"
  BY DEF Calls, Idle
<1>3. bound \in [Interfaces -> Owners]
  BY DEF Owners
<1>4. TypeInv
  BY <1>2, <1>3 DEF TypeInv
<1>5. BoundInv /\ ReturnInv
  BY <1>1 DEF BoundInv, ReturnInv
<1> QED
  BY <1>4, <1>5 DEF IInv

\* A thread that has a call to make, or one that was in no reset, takes no return away.
LEMMA ReturnsKept ==
  ASSUME NEW t \in Threads, \A u \in Threads : u # t => call'[u] = call[u],
         call[t].op \notin {"release", "reclaim"},
         NEW h, NEW i, Returns(h, i)
  PROVE  Returns(h, i)'
BY Zenon DEF Returns

LEMMA IdleIsNoReset ==
  ASSUME NEW t \in Threads, call[t] = Idle PROVE call[t].op = "none"
BY DEF Idle

LEMMA ClaimKeeps ==
  ASSUME UsbHandlesAssumption, IInv, NEW t \in Threads, NEW h \in Handles, NEW i \in Interfaces,
         libusb_claim_interface(t, h, i)
  PROVE  IInv'
<1>1. /\ attached /\ i \in InterfacesOf[active] /\ bound[i] \in {NoOwner, h}
      /\ bound' = [bound EXCEPT ![i] = h] /\ foreign' = foreign \ {<<h, i>>}
      /\ claimed_interfaces' = [claimed_interfaces EXCEPT ![h] = @ \cup {i}]
      /\ attached' = attached /\ active' = active /\ call' = call
  BY DEF libusb_claim_interface, Claimable
<1>2. TypeInv'
  BY <1>1 DEF IInv, TypeInv, Owners
<1>3. /\ bound'[i] = h /\ \A k \in Interfaces : k # i => bound'[k] = bound[k]
      /\ claimed_interfaces'[h] = claimed_interfaces[h] \cup {i}
      /\ \A g \in Handles : g # h => claimed_interfaces'[g] = claimed_interfaces[g]
  BY <1>1 DEF IInv, TypeInv
<1>4. BoundInv'
  <2> SUFFICES ASSUME NEW g \in Handles, NEW k \in Interfaces, bound'[k] = g
               PROVE  /\ attached /\ k \in InterfacesOf[active]
                      /\ k \in claimed_interfaces'[g] \/ <<g, k>> \in foreign'
    BY <1>1, Zenon DEF BoundInv
  <2>1. CASE k = i
    BY <1>1, <1>3, <2>1
  <2>2. CASE k # i
    <3>1. <<g, k>> # <<h, i>> /\ bound[k] = g
      BY <1>3, <2>2
    <3>2. /\ attached /\ k \in InterfacesOf[active]
          /\ k \in claimed_interfaces[g] \/ <<g, k>> \in foreign
      BY <3>1, Zenon DEF IInv, BoundInv
    <3>3. k \in claimed_interfaces[g] => k \in claimed_interfaces'[g]
      BY <1>3
    <3> QED
      BY <1>1, <3>1, <3>2, <3>3, Zenon
  <2> QED
    BY <2>1, <2>2
<1>5. ReturnInv'
  <2> SUFFICES ASSUME NEW g \in Handles, NEW k \in Interfaces, k \in claimed_interfaces'[g], bound'[k] # g
               PROVE  <<g, k>> \in foreign' \/ Returns(g, k)'
    BY <1>1, Zenon DEF ReturnInv
  <2>1. <<g, k>> # <<h, i>>
    BY <1>3
  <2>2. k \in claimed_interfaces[g] /\ bound[k] # g
    <3>1. CASE k = i
      <4>1. g # h /\ bound[k] \in {NoOwner, h} /\ g # NoOwner
        BY <1>1, <1>3, <3>1, Numbers
      <4> QED
        BY <1>3, <4>1, Zenon
    <3>2. CASE k # i
      BY <1>3, <3>2, Zenon
    <3> QED
      BY <3>1, <3>2
  <2>3. <<g, k>> \in foreign \/ Returns(g, k)
    BY <1>1, <2>2, Zenon DEF IInv, ReturnInv
  <2>4. Returns(g, k) => Returns(g, k)'
    BY <1>1, Zenon DEF Returns
  <2> QED
    BY <1>1, <2>1, <2>3, <2>4, Zenon
<1> QED
  BY <1>2, <1>4, <1>5 DEF IInv

LEMMA ReleaseKeeps ==
  ASSUME UsbHandlesAssumption, IInv, NEW t \in Threads, NEW h \in Handles, NEW i \in Interfaces,
         libusb_release_interface(t, h, i)
  PROVE  IInv'
<1>1. /\ attached /\ bound[i] = h
      /\ bound' = [bound EXCEPT ![i] = NoOwner] /\ foreign' = foreign
      /\ claimed_interfaces' = [claimed_interfaces EXCEPT ![h] = @ \ {i}]
      /\ attached' = attached /\ active' = active /\ call' = call
  BY DEF libusb_release_interface, Releasable
<1>2. TypeInv'
  BY <1>1 DEF IInv, TypeInv, Owners
<1>3. /\ bound'[i] = NoOwner /\ \A k \in Interfaces : k # i => bound'[k] = bound[k]
      /\ claimed_interfaces'[h] = claimed_interfaces[h] \ {i}
      /\ \A g \in Handles : g # h => claimed_interfaces'[g] = claimed_interfaces[g]
      /\ \A g \in Handles : g # NoOwner
  BY <1>1, Numbers DEF IInv, TypeInv
<1>4. BoundInv'
  <2> SUFFICES ASSUME NEW g \in Handles, NEW k \in Interfaces, bound'[k] = g
               PROVE  /\ attached /\ k \in InterfacesOf[active]
                      /\ k \in claimed_interfaces'[g] \/ <<g, k>> \in foreign
    BY <1>1, Zenon DEF BoundInv
  <2>1. k # i /\ bound[k] = g
    BY <1>3
  <2> QED
    BY <1>3, <2>1, Zenon DEF IInv, BoundInv
<1>5. ReturnInv'
  <2> SUFFICES ASSUME NEW g \in Handles, NEW k \in Interfaces, k \in claimed_interfaces'[g], bound'[k] # g
               PROVE  <<g, k>> \in foreign \/ Returns(g, k)'
    BY <1>1, Zenon DEF ReturnInv
  <2>1. k \in claimed_interfaces[g] /\ bound[k] # g
    <3>1. CASE k = i
      BY <1>1, <1>3, <3>1
    <3>2. CASE k # i
      BY <1>3, <3>2
    <3> QED
      BY <3>1, <3>2
  <2>2. Returns(g, k) => Returns(g, k)'
    BY <1>1, Zenon DEF Returns
  <2> QED
    BY <1>1, <2>1, <2>2, Zenon DEF IInv, ReturnInv
<1> QED
  BY <1>2, <1>4, <1>5 DEF IInv

\* What a thread enters or leaves, with the interfaces as they are.
LEMMA CallKeeps ==
  ASSUME IInv, NEW t \in Threads, NEW w \in Calls, w.op # "none" => w.dev \in Handles,
         call' = [call EXCEPT ![t] = w], call[t].op \notin {"release", "reclaim"},
         attached' = attached, active' = active, bound' = bound,
         claimed_interfaces' = claimed_interfaces, foreign' = foreign
  PROVE  IInv'
<1>1. call'[t] = w /\ \A u \in Threads : u # t => call'[u] = call[u]
  BY DEF IInv, TypeInv
<1>2. TypeInv'
  BY <1>1 DEF IInv, TypeInv
<1>3. BoundInv'
  BY Zenon DEF IInv, BoundInv
<1>4. ReturnInv'
  <2> SUFFICES ASSUME NEW g \in Handles, NEW k \in Interfaces, attached,
                      k \in claimed_interfaces[g], bound[k] # g
               PROVE  <<g, k>> \in foreign \/ Returns(g, k)'
    BY Zenon DEF ReturnInv
  <2>1. Returns(g, k) => Returns(g, k)'
    BY <1>1, ReturnsKept, Zenon
  <2> QED
    BY <2>1, Zenon DEF IInv, ReturnInv
<1> QED
  BY <1>2, <1>3, <1>4 DEF IInv

LEMMA AltSettingKeeps ==
  ASSUME UsbHandlesAssumption, IInv, NEW t \in Threads, NEW h \in Handles, NEW i \in Interfaces,
         libusb_set_interface_alt_setting(t, h, i)
  PROVE  IInv'
<1> DEFINE w == [op |-> "setintf", dev |-> h, interface |-> i]
<1>1. /\ call' = [call EXCEPT ![t] = w] /\ call[t] = Idle
      /\ attached' = attached /\ active' = active /\ bound' = bound
      /\ claimed_interfaces' = claimed_interfaces /\ foreign' = foreign
  BY DEF libusb_set_interface_alt_setting, Free
<1>2. w \in Calls /\ w.dev \in Handles
  BY Numbers DEF Calls
<1>3. call[t].op \notin {"release", "reclaim"}
  BY <1>1, IdleIsNoReset
<1> HIDE DEF w
<1> QED
  BY <1>1, <1>2, <1>3, CallKeeps, Zenon

LEMMA SetIntfKeeps ==
  ASSUME UsbHandlesAssumption, IInv, NEW t \in Threads, op_set_interface(t)
  PROVE  IInv'
<1> DEFINE h == call[t].dev
           i == call[t].interface
<1>1. /\ call[t].op = "setintf" /\ call' = [call EXCEPT ![t] = Idle]
      /\ attached' = attached /\ active' = active /\ claimed_interfaces' = claimed_interfaces
      /\ \/ /\ Claimable(h, i) /\ bound[i] = NoOwner
            /\ bound' = [bound EXCEPT ![i] = h] /\ foreign' = foreign \cup {<<h, i>>}
         \/ bound' = bound /\ foreign' = foreign
  BY DEF op_set_interface
<1>2. h \in Handles /\ Idle \in Calls /\ Idle.op = "none" /\ call[t].op \notin {"release", "reclaim"}
  BY <1>1 DEF IInv, TypeInv, Calls, Idle
<1> HIDE DEF h, i
<1>3. CASE bound' = bound /\ foreign' = foreign
  BY <1>1, <1>2, <1>3, CallKeeps
<1>4. CASE /\ Claimable(h, i) /\ bound[i] = NoOwner
           /\ bound' = [bound EXCEPT ![i] = h] /\ foreign' = foreign \cup {<<h, i>>}
  <2>1. attached /\ i \in InterfacesOf[active] /\ i \in Interfaces
    BY <1>4, Numbers DEF Claimable, IInv, TypeInv
  <2>2. /\ call'[t] = Idle /\ \A u \in Threads : u # t => call'[u] = call[u]
        /\ bound'[i] = h /\ \A k \in Interfaces : k # i => bound'[k] = bound[k]
        /\ \A g \in Handles : g # NoOwner
    BY <1>1, <1>4, <2>1, Numbers DEF IInv, TypeInv
  <2>3. TypeInv'
    <3>1. bound' \in [Interfaces -> Owners]
      BY <1>2, <1>4, <2>1 DEF IInv, TypeInv, Owners
    <3>2. call' \in [Threads -> Calls] /\ \A u \in Threads : call'[u].op # "none" => call'[u].dev \in Handles
      BY <1>1, <1>2, <2>2 DEF IInv, TypeInv
    <3> QED
      BY <1>1, <3>1, <3>2 DEF IInv, TypeInv
  <2>4. BoundInv'
    <3> SUFFICES ASSUME NEW g \in Handles, NEW k \in Interfaces, bound'[k] = g
                 PROVE  /\ attached /\ k \in InterfacesOf[active]
                        /\ k \in claimed_interfaces[g] \/ <<g, k>> \in foreign'
      BY <1>1, Zenon DEF BoundInv
    <3>1. CASE k = i
      <4>1. g = h /\ <<h, i>> \in foreign'
        BY <1>4, <2>2, <3>1, Zenon
      <4> QED
        BY <2>1, <3>1, <4>1, Zenon
    <3>2. CASE k # i
      <4>1. bound[k] = g
        BY <2>2, <3>2
      <4>2. /\ attached /\ k \in InterfacesOf[active]
            /\ k \in claimed_interfaces[g] \/ <<g, k>> \in foreign
        BY <4>1, Zenon DEF IInv, BoundInv
      <4> QED
        BY <1>4, <4>2
    <3> QED
      BY <3>1, <3>2
  <2>5. ReturnInv'
    <3> SUFFICES ASSUME NEW g \in Handles, NEW k \in Interfaces,
                        k \in claimed_interfaces[g], bound'[k] # g
                 PROVE  <<g, k>> \in foreign' \/ Returns(g, k)'
      BY <1>1, Zenon DEF ReturnInv
    <3>1. bound[k] # g
      BY <1>4, <2>2
    <3>2. Returns(g, k) => Returns(g, k)'
      BY <1>2, <2>2, ReturnsKept, Zenon
    <3> QED
      BY <1>4, <2>1, <3>1, <3>2, Zenon DEF IInv, ReturnInv
  <2> QED
    BY <2>3, <2>4, <2>5 DEF IInv
<1> QED
  BY <1>1, <1>3, <1>4

-----------------------------------------------------------------------------
LEMMA ResetKeeps ==
  ASSUME UsbHandlesAssumption, IInv, NEW t \in Threads, NEW h \in Handles, libusb_reset_device(t, h)
  PROVE  IInv'
<1> DEFINE w == [op |-> "release", dev |-> h, interface |-> 0]
<1>1. /\ call' = [call EXCEPT ![t] = w] /\ call[t] = Idle
      /\ attached' = attached /\ active' = active /\ bound' = bound
      /\ claimed_interfaces' = claimed_interfaces /\ foreign' = foreign
  BY DEF libusb_reset_device
<1>2. w \in Calls /\ w.dev \in Handles
  BY Numbers DEF Calls
<1>3. call[t].op \notin {"release", "reclaim"}
  BY <1>1, IdleIsNoReset
<1> HIDE DEF w
<1> QED
  BY <1>1, <1>2, <1>3, CallKeeps, Zenon

\* What the steps of a reset leave: the thread is at the next interface.
LEMMA AtNext ==
  ASSUME UsbHandlesAssumption, TypeInv, NEW t \in Threads, NEW i \in Interfaces,
         i = call[t].interface, call' = [call EXCEPT ![t].interface = i + 1]
  PROVE  /\ call' \in [Threads -> Calls]
         /\ call'[t].op = call[t].op /\ call'[t].dev = call[t].dev /\ call'[t].interface = i + 1
         /\ \A u \in Threads : u # t => call'[u] = call[u]
         /\ \A u \in Threads : call'[u].op # "none" => call'[u].dev \in Handles
<1> DEFINE w == [call[t] EXCEPT !.interface = i + 1]
<1>1. i + 1 \in Nat /\ call[t] \in Calls
  BY Numbers DEF TypeInv
<1>2. w \in Calls /\ w.op = call[t].op /\ w.dev = call[t].dev /\ w.interface = i + 1
  BY <1>1 DEF Calls
<1>3. call' = [call EXCEPT ![t] = w]
  BY DEF TypeInv
<1> HIDE DEF w
<1>4. call' \in [Threads -> Calls] /\ call'[t] = w /\ \A u \in Threads : u # t => call'[u] = call[u]
  BY <1>2, <1>3 DEF TypeInv
<1> QED
  BY <1>2, <1>4 DEF TypeInv

LEMMA ResetReleaseKeeps ==
  ASSUME UsbHandlesAssumption, IInv, NEW t \in Threads, reset_release(t)
  PROVE  IInv'
<1>0. call[t].op = "release" /\ call[t].dev \in Handles /\ call[t].interface \in Interfaces
  BY DEF reset_release, IInv, TypeInv
<1> SUFFICES ASSUME NEW h \in Handles, NEW i \in Interfaces, h = call[t].dev, i = call[t].interface
             PROVE  IInv'
  BY <1>0, Zenon
<1>1. /\ call[t].op = "release" /\ i \in Interfaces /\ call' = [call EXCEPT ![t].interface = i + 1]
      /\ attached' = attached /\ active' = active /\ claimed_interfaces' = claimed_interfaces
      /\ foreign' = foreign
      /\ \/ bound[i] = h /\ i \in claimed_interfaces[h] /\ bound' = [bound EXCEPT ![i] = NoOwner]
         \/ bound' = bound
  BY DEF reset_release, Releasable
<1>2. TypeInv /\ \A g \in Handles : g # NoOwner
  BY <1>1, Numbers DEF IInv, TypeInv
<1>3. /\ call' \in [Threads -> Calls] /\ call'[t].op = "release" /\ call'[t].dev = h
      /\ \A u \in Threads : u # t => call'[u] = call[u]
      /\ \A u \in Threads : call'[u].op # "none" => call'[u].dev \in Handles
  BY <1>1, <1>2, AtNext, Zenon
<1>4. \A k : Returns(h, k)'
  BY <1>3, Zenon DEF Returns
<1>5. ASSUME NEW g, NEW k, Returns(g, k), g # h PROVE Returns(g, k)'
  <2>1. PICK u \in Threads : /\ call[u].dev = g
                             /\ call[u].op = "release" \/ (call[u].op = "reclaim" /\ call[u].interface <= k)
    BY <1>5, Zenon DEF Returns
  <2>2. u # t /\ call'[u] = call[u]
    BY <1>3, <1>5, <2>1, Zenon
  <2> QED
    BY <2>1, <2>2, Zenon DEF Returns
<1>6. /\ \A k \in Interfaces, g \in Handles : bound'[k] = g => bound[k] = g
      /\ \A k \in Interfaces, g \in Handles : g # h /\ bound[k] = g => bound'[k] = g
      /\ bound' \in [Interfaces -> Owners]
  BY <1>1, <1>2 DEF TypeInv, Owners
<1>7. TypeInv'
  BY <1>1, <1>3, <1>6 DEF IInv, TypeInv
<1>8. BoundInv'
  BY <1>1, <1>6, Zenon DEF IInv, BoundInv
<1>9. ReturnInv'
  <2> SUFFICES ASSUME NEW g \in Handles, NEW k \in Interfaces, attached,
                      k \in claimed_interfaces[g], bound'[k] # g
               PROVE  <<g, k>> \in foreign \/ Returns(g, k)'
    BY <1>1, Zenon DEF ReturnInv
  <2>1. CASE g = h
    BY <1>4, <2>1, Zenon
  <2>2. CASE g # h
    <3>1. bound[k] # g
      BY <1>6, <2>2, Zenon
    <3> QED
      BY <1>5, <2>2, <3>1, Zenon DEF IInv, ReturnInv
  <2> QED
    BY <2>1, <2>2
<1> QED
  BY <1>7, <1>8, <1>9 DEF IInv

\* The kernel has let go of all that any handle has, and the reset comes to all that its
\* own has claimed; or it has failed.
LEMMA OpResetKeeps ==
  ASSUME UsbHandlesAssumption, IInv, NEW t \in Threads, op_reset_device(t)
  PROVE  IInv'
<1> DEFINE h == call[t].dev
           w == [op |-> "reclaim", dev |-> h, interface |-> 0]
<1>1. /\ call[t].op = "release"
      /\ attached' = attached /\ active' = active /\ claimed_interfaces' = claimed_interfaces
      /\ \/ /\ bound' \in [Interfaces -> Owners]
            /\ \A i \in Interfaces : IF bound[i] \in Handles THEN bound'[i] \in {"driver", NoOwner}
                                                           ELSE bound'[i] = bound[i]
            /\ call' = [call EXCEPT ![t] = w] /\ foreign' = foreign \cup Losers(h)
         \/ /\ call' = [call EXCEPT ![t] = Idle] /\ bound' = bound
            /\ foreign' = foreign \cup ({h} \X claimed_interfaces[h])
  BY DEF op_reset_device, Owners
<1>2. h \in Handles /\ TypeInv /\ \A g \in Handles : g # NoOwner /\ g # "driver"
  BY <1>1, Numbers DEF IInv, TypeInv
<1>3. /\ w \in Calls /\ w.op = "reclaim" /\ w.dev = h /\ w.interface = 0
      /\ Idle \in Calls /\ Idle.op = "none"
  BY <1>2 DEF Calls, Idle
<1>4. ASSUME NEW g, NEW k, Returns(g, k), g # h, \A u \in Threads : u # t => call'[u] = call[u]
      PROVE  Returns(g, k)'
  <2>1. PICK u \in Threads : /\ call[u].dev = g
                             /\ call[u].op = "release" \/ (call[u].op = "reclaim" /\ call[u].interface <= k)
    BY <1>4, Zenon DEF Returns
  <2>2. u # t /\ call'[u] = call[u]
    BY <1>4, <2>1, Zenon
  <2> QED
    BY <2>1, <2>2, Zenon DEF Returns
<1> HIDE DEF h, w
<1>5. CASE /\ bound' \in [Interfaces -> Owners]
           /\ \A i \in Interfaces : IF bound[i] \in Handles THEN bound'[i] \in {"driver", NoOwner}
                                                          ELSE bound'[i] = bound[i]
           /\ call' = [call EXCEPT ![t] = w] /\ foreign' = foreign \cup Losers(h)
  <2>1. call' \in [Threads -> Calls] /\ call'[t] = w /\ \A u \in Threads : u # t => call'[u] = call[u]
    BY <1>2, <1>3, <1>5 DEF TypeInv
  <2>2. \A k \in Interfaces, g \in Handles : bound'[k] # g
    <3> SUFFICES ASSUME NEW k \in Interfaces, NEW g \in Handles, bound'[k] = g PROVE FALSE
      OBVIOUS
    <3>1. IF bound[k] \in Handles THEN bound'[k] \in {"driver", NoOwner} ELSE bound'[k] = bound[k]
      BY <1>5, Zenon
    <3> QED
      BY <1>2, <3>1
  <2>3. TypeInv'
    BY <1>1, <1>2, <1>3, <1>5, <2>1 DEF TypeInv
  <2>4. BoundInv'
    BY <2>2, Zenon DEF BoundInv
  <2>5. ReturnInv'
    <3> SUFFICES ASSUME NEW g \in Handles, NEW k \in Interfaces, attached, k \in claimed_interfaces[g]
                 PROVE  <<g, k>> \in foreign' \/ Returns(g, k)'
      BY <1>1, Zenon DEF ReturnInv
    <3>1. CASE g = h
      <4>1. call'[t].dev = h /\ call'[t].op = "reclaim" /\ call'[t].interface <= k
        BY <1>3, <2>1, Numbers
      <4> QED
        BY <3>1, <4>1, Zenon DEF Returns
    <3>2. CASE g # h /\ bound[k] = g
      <4>1. <<g, k>> \in (Handles \ {h}) \X Interfaces /\ <<g, k>>[1] = g /\ <<g, k>>[2] = k
        BY <3>2
      <4>2. <<g, k>> \in Losers(h)
        BY <3>2, <4>1 DEF Losers
      <4> QED
        BY <1>5, <4>2
    <3>3. CASE g # h /\ bound[k] # g
      <4>1. <<g, k>> \in foreign \/ Returns(g, k)
        BY <3>3, Zenon DEF IInv, ReturnInv
      <4> QED
        BY <1>4, <1>5, <2>1, <3>3, <4>1
    <3> QED
      BY <3>1, <3>2, <3>3
  <2> QED
    BY <2>3, <2>4, <2>5 DEF IInv
<1>6. CASE /\ call' = [call EXCEPT ![t] = Idle] /\ bound' = bound
           /\ foreign' = foreign \cup ({h} \X claimed_interfaces[h])
  <2>1. call' \in [Threads -> Calls] /\ call'[t] = Idle /\ \A u \in Threads : u # t => call'[u] = call[u]
    BY <1>2, <1>3, <1>6 DEF TypeInv
  <2>2. TypeInv'
    BY <1>1, <1>2, <1>3, <1>6, <2>1 DEF TypeInv
  <2>3. BoundInv'
    BY <1>1, <1>6 DEF IInv, BoundInv
  <2>4. ReturnInv'
    <3> SUFFICES ASSUME NEW g \in Handles, NEW k \in Interfaces, attached, k \in claimed_interfaces[g],
                        bound[k] # g
                 PROVE  <<g, k>> \in foreign' \/ Returns(g, k)'
      BY <1>1, <1>6, Zenon DEF ReturnInv
    <3>1. CASE g = h
      <4>1. <<g, k>> \in {h} \X claimed_interfaces[h]
        BY <3>1
      <4> QED
        BY <1>6, <4>1
    <3>2. CASE g # h
      <4>1. <<g, k>> \in foreign \/ Returns(g, k)
        BY Zenon DEF IInv, ReturnInv
      <4> QED
        BY <1>4, <1>6, <2>1, <3>2, <4>1
    <3> QED
      BY <3>1, <3>2
  <2> QED
    BY <2>2, <2>3, <2>4 DEF IInv
<1> QED
  BY <1>1, <1>5, <1>6

\* The reset comes to the next interface: claimed again, or no longer claimed.
LEMMA ReclaimKeeps ==
  ASSUME UsbHandlesAssumption, IInv, NEW t \in Threads, reset_reclaim(t)
  PROVE  IInv'
<1>0. call[t].op = "reclaim" /\ call[t].dev \in Handles /\ call[t].interface \in Interfaces
  BY DEF reset_reclaim, IInv, TypeInv
<1> SUFFICES ASSUME NEW h \in Handles, NEW i \in Interfaces, h = call[t].dev, i = call[t].interface
             PROVE  IInv'
  BY <1>0, Zenon
<1>1. /\ call' = [call EXCEPT ![t].interface = i + 1] /\ attached' = attached /\ active' = active
      /\ \/ /\ i \in claimed_interfaces[h] /\ Claimable(h, i)
            /\ bound' = [bound EXCEPT ![i] = h] /\ foreign' = foreign \ {<<h, i>>}
            /\ claimed_interfaces' = [claimed_interfaces EXCEPT ![h] = @]
         \/ /\ i \in claimed_interfaces[h] /\ ~Claimable(h, i)
            /\ bound' = bound /\ foreign' = foreign \ {<<h, i>>}
            /\ claimed_interfaces' = [claimed_interfaces EXCEPT ![h] = @ \ {i}]
         \/ /\ i \notin claimed_interfaces[h]
            /\ bound' = bound /\ foreign' = foreign /\ claimed_interfaces' = claimed_interfaces
  BY DEF reset_reclaim, NotReclaimed
<1>2. TypeInv /\ BoundInv /\ ReturnInv /\ \A g \in Handles : g # NoOwner
  BY Numbers DEF IInv
<1>3. /\ call' \in [Threads -> Calls] /\ call'[t].op = "reclaim" /\ call'[t].dev = h
      /\ call'[t].interface = i + 1 /\ \A u \in Threads : u # t => call'[u] = call[u]
      /\ \A u \in Threads : call'[u].op # "none" => call'[u].dev \in Handles
  BY <1>0, <1>1, <1>2, AtNext, Zenon
\* What was not claimed again before is not yet, but for this interface.
<1>4. ASSUME NEW g \in Handles, NEW k \in Interfaces, <<g, k>> # <<h, i>>, Returns(g, k)
      PROVE  Returns(g, k)'
  <2>1. PICK u \in Threads : /\ call[u].dev = g
                             /\ call[u].op = "release" \/ (call[u].op = "reclaim" /\ call[u].interface <= k)
    BY <1>4, Zenon DEF Returns
  <2>2. CASE u # t
    <3>1. call'[u] = call[u]
      BY <1>3, <2>2, Zenon
    <3> QED
      BY <2>1, <3>1, Zenon DEF Returns
  <2>3. CASE u = t
    <3>1. g = h /\ k # i /\ i <= k
      BY <1>0, <1>4, <2>1, <2>3
    <3>2. i + 1 <= k
      BY <3>1, Numbers
    <3> QED
      BY <1>3, <3>1, <3>2, Zenon DEF Returns
  <2> QED
    BY <2>2, <2>3
<1>5. \A g \in Handles, k \in Interfaces : <<g, k>> # <<h, i>> =>
        /\ k \in claimed_interfaces'[g] <=> k \in claimed_interfaces[g]
        /\ <<g, k>> \in foreign' <=> <<g, k>> \in foreign
        /\ bound'[k] = g <=> bound[k] = g
  <2> SUFFICES ASSUME NEW g \in Handles, NEW k \in Interfaces, <<g, k>> # <<h, i>>
               PROVE  /\ k \in claimed_interfaces'[g] <=> k \in claimed_interfaces[g]
                      /\ <<g, k>> \in foreign' <=> <<g, k>> \in foreign
                      /\ bound'[k] = g <=> bound[k] = g
    BY Zenon
  <2>1. g # h \/ k # i
    OBVIOUS
  <2>2. claimed_interfaces \in [Handles -> SUBSET Interfaces] /\ bound \in [Interfaces -> Owners]
    BY <1>2 DEF TypeInv
  <2>3. k \in claimed_interfaces'[g] <=> k \in claimed_interfaces[g]
    BY <1>1, <2>1, <2>2
  <2>4. <<g, k>> \in foreign' <=> <<g, k>> \in foreign
    BY <1>1
  <2>5. bound'[k] = g <=> bound[k] = g
    <3>1. CASE bound' = bound
      BY <3>1
    <3>2. CASE Claimable(h, i) /\ bound' = [bound EXCEPT ![i] = h]
      <4>1. bound[i] \in {NoOwner, h}
        BY <3>2 DEF Claimable
      <4>2. CASE k # i
        BY <2>2, <3>2, <4>2
      <4>3. CASE k = i /\ g # h
        BY <1>2, <2>2, <3>2, <4>1, <4>3
      <4> QED
        BY <2>1, <4>2, <4>3
    <3> QED
      BY <1>1, <3>1, <3>2
  <2> QED
    BY <2>3, <2>4, <2>5
<1>6. TypeInv'
  <2>1. bound' \in [Interfaces -> Owners]
    BY <1>1, <1>2 DEF TypeInv, Owners
  <2>2. claimed_interfaces' \in [Handles -> SUBSET Interfaces]
    BY <1>1, <1>2 DEF TypeInv
  <2> QED
    BY <1>1, <1>2, <1>3, <2>1, <2>2 DEF TypeInv
<1>7. /\ bound'[i] = h => /\ attached /\ i \in InterfacesOf[active]
                          /\ i \in claimed_interfaces'[h] \/ <<h, i>> \in foreign'
      /\ attached /\ i \in claimed_interfaces'[h] => bound'[i] = h
  <2>0. claimed_interfaces \in [Handles -> SUBSET Interfaces] /\ bound \in [Interfaces -> Owners]
    BY <1>2 DEF TypeInv
  <2>1. bound[i] = h => /\ attached /\ i \in InterfacesOf[active]
                        /\ i \in claimed_interfaces[h] \/ <<h, i>> \in foreign
    BY <1>2, Zenon DEF BoundInv
  <2>2. CASE i \in claimed_interfaces[h] /\ Claimable(h, i)
    <3>1. attached /\ i \in InterfacesOf[active]
      BY <2>2 DEF Claimable
    <3>2. bound'[i] = h /\ i \in claimed_interfaces'[h]
      BY <1>1, <2>0, <2>2
    <3> QED
      BY <3>1, <3>2
  <2>3. CASE i \in claimed_interfaces[h] /\ ~Claimable(h, i)
    <3>1. bound' = bound /\ i \notin claimed_interfaces'[h]
      BY <1>1, <2>0, <2>3
    <3>2. bound[i] # h
      BY <2>1, <2>3 DEF Claimable
    <3> QED
      BY <3>1, <3>2
  <2>4. CASE i \notin claimed_interfaces[h]
    BY <1>1, <2>1, <2>4
  <2> QED
    BY <2>2, <2>3, <2>4
<1>8. BoundInv'
  <2> SUFFICES ASSUME NEW g \in Handles, NEW k \in Interfaces, bound'[k] = g
               PROVE  /\ attached /\ k \in InterfacesOf[active]
                      /\ k \in claimed_interfaces'[g] \/ <<g, k>> \in foreign'
    BY <1>1, Zenon DEF BoundInv
  <2>1. CASE <<g, k>> = <<h, i>>
    <3>1. g = h /\ k = i
      BY <2>1
    <3>2. bound'[i] = h
      BY <3>1
    <3>3. /\ attached /\ i \in InterfacesOf[active]
          /\ i \in claimed_interfaces'[h] \/ <<h, i>> \in foreign'
      BY <1>7, <3>2
    <3> QED
      BY <3>1, <3>3
  <2>2. CASE <<g, k>> # <<h, i>>
    <3>1. /\ bound[k] = g
          /\ k \in claimed_interfaces[g] => k \in claimed_interfaces'[g]
          /\ <<g, k>> \in foreign => <<g, k>> \in foreign'
      BY <1>1, <1>5, <2>2, Zenon
    <3>2. /\ attached /\ k \in InterfacesOf[active]
          /\ k \in claimed_interfaces[g] \/ <<g, k>> \in foreign
      BY <1>2, <3>1, Zenon DEF BoundInv
    <3> QED
      BY <3>1, <3>2, Zenon
  <2> QED
    BY <2>1, <2>2
<1>9. ReturnInv'
  <2> SUFFICES ASSUME NEW g \in Handles, NEW k \in Interfaces, attached,
                      k \in claimed_interfaces'[g], bound'[k] # g
               PROVE  <<g, k>> \in foreign' \/ Returns(g, k)'
    BY <1>1, Zenon DEF ReturnInv
  <2>1. <<g, k>> # <<h, i>>
    BY <1>7
  <2> QED
    BY <1>2, <1>4, <1>5, <2>1, Zenon DEF ReturnInv
<1> QED
  BY <1>6, <1>8, <1>9 DEF IInv

LEMMA ResetDoneKeeps ==
  ASSUME UsbHandlesAssumption, IInv, NEW t \in Threads, reset_done(t)
  PROVE  IInv'
<1>1. /\ call[t].op = "reclaim" /\ call[t].interface \notin Interfaces /\ call' = [call EXCEPT ![t] = Idle]
      /\ attached' = attached /\ active' = active /\ bound' = bound
      /\ claimed_interfaces' = claimed_interfaces /\ foreign' = foreign
  BY DEF reset_done
<1>2. /\ Idle \in Calls /\ Idle.op = "none" /\ call \in [Threads -> Calls]
      /\ call[t].interface \in Nat
  BY Numbers DEF IInv, TypeInv, Calls, Idle
<1>3. call'[t] = Idle /\ \A u \in Threads : u # t => call'[u] = call[u]
  BY <1>1, <1>2
<1>4. TypeInv'
  BY <1>1, <1>2, <1>3 DEF IInv, TypeInv
<1>5. BoundInv'
  BY <1>1, Zenon DEF IInv, BoundInv
<1>6. ReturnInv'
  <2> SUFFICES ASSUME NEW g \in Handles, NEW k \in Interfaces, attached,
                      k \in claimed_interfaces[g], bound[k] # g
               PROVE  <<g, k>> \in foreign \/ Returns(g, k)'
    BY <1>1, Zenon DEF ReturnInv
  <2>1. ASSUME Returns(g, k) PROVE Returns(g, k)'
    <3>1. PICK u \in Threads : /\ call[u].dev = g
                               /\ call[u].op = "release" \/ (call[u].op = "reclaim" /\ call[u].interface <= k)
      BY <2>1, Zenon DEF Returns
    <3>2. ~(call[t].interface <= k)
      BY <1>1, <1>2, Numbers
    <3>3. u # t
      BY <1>1, <3>1, <3>2
    <3>4. call'[u] = call[u]
      BY <1>3, <3>3
    <3> QED
      BY <3>1, <3>4, Zenon DEF Returns
  <2> QED
    BY <2>1, Zenon DEF IInv, ReturnInv
<1> QED
  BY <1>4, <1>5, <1>6 DEF IInv

-----------------------------------------------------------------------------
\* The steps of the kernel, which leave the calls and what is claimed alone: an interface
\* that a handle gets is foreign, as is one that it loses.
LEMMA KernelKeeps ==
  ASSUME IInv, call' = call, claimed_interfaces' = claimed_interfaces,
         attached' \in BOOLEAN, attached' => attached, active' \in DOMAIN InterfacesOf,
         bound' \in [Interfaces -> Owners],
         \A h \in Handles, i \in Interfaces : bound'[i] = h => /\ bound[i] = h /\ attached'
                                                             /\ i \in InterfacesOf[active'],
         \A h \in Handles, i \in Interfaces :
           attached' /\ bound[i] = h /\ bound'[i] # h => <<h, i>> \in foreign',
         \A h \in Handles, i \in Interfaces : <<h, i>> \in foreign => <<h, i>> \in foreign'
  PROVE  IInv'
<1>1. TypeInv'
  BY DEF IInv, TypeInv
<1>2. BoundInv'
  BY Zenon DEF IInv, BoundInv
<1>3. \A h \in Handles, i \in Interfaces : Returns(h, i) => Returns(h, i)'
  BY Zenon DEF Returns
<1>4. ReturnInv'
  <2> SUFFICES ASSUME NEW h \in Handles, NEW i \in Interfaces, attached',
                      i \in claimed_interfaces[h], bound'[i] # h
               PROVE  <<h, i>> \in foreign' \/ Returns(h, i)'
    BY Zenon DEF ReturnInv
  <2>1. CASE bound[i] = h
    BY <2>1, Zenon
  <2>2. CASE bound[i] # h
    BY <1>3, <2>2, Zenon DEF IInv, ReturnInv
  <2> QED
    BY <2>1, <2>2
<1> QED
  BY <1>1, <1>2, <1>4 DEF IInv

LEMMA DetachKeeps ==
  ASSUME UsbHandlesAssumption, IInv, NEW i \in Interfaces, libusb_detach_kernel_driver(i)
  PROVE  IInv'
<1>1. /\ attached /\ bound' = [bound EXCEPT ![i] = NoOwner]
      /\ foreign' = foreign \cup {<<h, i>> : h \in Handles \cap {bound[i]}}
      /\ attached' = attached /\ active' = active /\ call' = call
      /\ claimed_interfaces' = claimed_interfaces
  BY DEF libusb_detach_kernel_driver
<1>2. /\ bound \in [Interfaces -> Owners] /\ active \in DOMAIN InterfacesOf /\ attached \in BOOLEAN
      /\ \A g \in Handles : g # NoOwner
  BY Numbers DEF IInv, TypeInv
<1>3. /\ bound' \in [Interfaces -> Owners] /\ bound'[i] = NoOwner
      /\ \A k \in Interfaces : k # i => bound'[k] = bound[k]
  BY <1>1, <1>2 DEF Owners
<1>4. \A h \in Handles, k \in Interfaces : bound'[k] = h => /\ bound[k] = h /\ attached'
                                                          /\ k \in InterfacesOf[active']
  <2>1. \A h \in Handles, k \in Interfaces : bound'[k] = h => bound[k] = h
    BY <1>2, <1>3, Zenon
  <2> QED
    BY <1>1, <2>1, Zenon DEF IInv, BoundInv
<1>5. ASSUME NEW h \in Handles, NEW k \in Interfaces, bound[k] = h, bound'[k] # h
      PROVE  <<h, k>> \in foreign'
  <2>1. k = i /\ h \in Handles \cap {bound[i]}
    BY <1>3, <1>5
  <2> QED
    BY <1>1, <2>1
<1>6. \A h \in Handles, k \in Interfaces : <<h, k>> \in foreign => <<h, k>> \in foreign'
  BY <1>1
<1> QED
  BY <1>1, <1>2, <1>3, <1>4, <1>5, <1>6, KernelKeeps, Zenon

LEMMA AttachKeeps ==
  ASSUME UsbHandlesAssumption, IInv, NEW i \in Interfaces, libusb_attach_kernel_driver(i)
  PROVE  IInv'
<1>1. /\ attached /\ bound[i] = NoOwner /\ bound' = [bound EXCEPT ![i] = "driver"] /\ foreign' = foreign
      /\ attached' = attached /\ active' = active /\ call' = call
      /\ claimed_interfaces' = claimed_interfaces
  BY DEF libusb_attach_kernel_driver
<1>2. /\ bound \in [Interfaces -> Owners] /\ active \in DOMAIN InterfacesOf /\ attached \in BOOLEAN
      /\ \A g \in Handles : g # NoOwner /\ g # "driver"
  BY Numbers DEF IInv, TypeInv
<1>3. bound' \in [Interfaces -> Owners] /\ \A k \in Interfaces, h \in Handles : bound'[k] = h <=> bound[k] = h
  BY <1>1, <1>2 DEF Owners
<1> QED
  BY <1>1, <1>2, <1>3, KernelKeeps, Zenon DEF IInv, BoundInv

LEMMA ConfigureKeeps ==
  ASSUME UsbHandlesAssumption, IInv, libusb_set_configuration
  PROVE  IInv'
<1>1. /\ attached /\ active' \in DOMAIN InterfacesOf /\ bound' \in [Interfaces -> {"driver", NoOwner}]
      /\ foreign' = foreign /\ attached' = attached /\ call' = call
      /\ claimed_interfaces' = claimed_interfaces /\ \A i \in Interfaces : bound[i] = NoOwner
  BY DEF libusb_set_configuration
<1>2. attached \in BOOLEAN /\ \A g \in Handles : g # NoOwner /\ g # "driver"
  BY Numbers DEF IInv, TypeInv
<1>3. bound' \in [Interfaces -> Owners]
  BY <1>1 DEF Owners
<1>4. \A k \in Interfaces, h \in Handles : bound'[k] # h /\ bound[k] # h
  BY <1>1, <1>2
<1> QED
  BY <1>1, <1>2, <1>3, <1>4, KernelKeeps, Zenon

LEMMA UnplugKeeps ==
  ASSUME UsbHandlesAssumption, IInv, Unplug
  PROVE  IInv'
<1>1. /\ attached' = FALSE /\ bound' = [i \in Interfaces |-> NoOwner] /\ active' = active /\ foreign' = foreign
      /\ call' = call /\ claimed_interfaces' = claimed_interfaces
  BY DEF Unplug
<1>2. active \in DOMAIN InterfacesOf /\ \A g \in Handles : g # NoOwner
  BY Numbers DEF IInv, TypeInv
<1>3. bound' \in [Interfaces -> Owners] /\ \A k \in Interfaces, h \in Handles : bound'[k] # h
  BY <1>1, <1>2 DEF Owners
<1> QED
  BY <1>1, <1>2, <1>3, KernelKeeps, Zenon

LEMMA CloseKeeps ==
  ASSUME UsbHandlesAssumption, IInv, NEW h \in Handles, libusb_close(h)
  PROVE  IInv'
<1>1. /\ bound' = [i \in Interfaces |-> IF bound[i] = h THEN NoOwner ELSE bound[i]]
      /\ claimed_interfaces' = [claimed_interfaces EXCEPT ![h] = {}]
      /\ foreign' = foreign \ ({h} \X Interfaces)
      /\ attached' = attached /\ active' = active /\ call' = call
  BY DEF libusb_close
<1>2. TypeInv /\ BoundInv /\ ReturnInv /\ \A g \in Handles : g # NoOwner
  BY Numbers DEF IInv
<1>3. /\ \A k \in Interfaces : bound'[k] # h /\ k \notin claimed_interfaces'[h]
      /\ \A g \in Handles, k \in Interfaces : g # h =>
           /\ bound'[k] = g <=> bound[k] = g
           /\ claimed_interfaces'[g] = claimed_interfaces[g]
           /\ <<g, k>> \in foreign' <=> <<g, k>> \in foreign
  <2>1. \A k \in Interfaces : bound'[k] # h /\ k \notin claimed_interfaces'[h]
    BY <1>1, <1>2 DEF TypeInv
  <2>2. \A g \in Handles, k \in Interfaces : g # h => (bound'[k] = g <=> bound[k] = g)
    BY <1>1, <1>2
  <2>3. \A g \in Handles : g # h => claimed_interfaces'[g] = claimed_interfaces[g]
    BY <1>1, <1>2 DEF TypeInv
  <2>4. \A g \in Handles, k \in Interfaces : g # h => (<<g, k>> \in foreign' <=> <<g, k>> \in foreign)
    BY <1>1
  <2> QED
    BY <2>1, <2>2, <2>3, <2>4, Zenon
<1>4. TypeInv'
  <2>1. bound' \in [Interfaces -> Owners]
    BY <1>1, <1>2 DEF TypeInv, Owners
  <2> QED
    BY <1>1, <1>2, <2>1 DEF TypeInv
<1>5. BoundInv'
  <2> SUFFICES ASSUME NEW g \in Handles, NEW k \in Interfaces, bound'[k] = g
               PROVE  /\ attached /\ k \in InterfacesOf[active]
                      /\ k \in claimed_interfaces'[g] \/ <<g, k>> \in foreign'
    BY <1>1, Zenon DEF BoundInv
  <2>1. g # h /\ bound[k] = g
    BY <1>3, Zenon
  <2> QED
    BY <1>2, <1>3, <2>1, Zenon DEF BoundInv
<1>6. ReturnInv'
  <2> SUFFICES ASSUME NEW g \in Handles, NEW k \in Interfaces, attached,
                      k \in claimed_interfaces'[g], bound'[k] # g
               PROVE  <<g, k>> \in foreign' \/ Returns(g, k)'
    BY <1>1, Zenon DEF ReturnInv
  <2>1. g # h /\ bound[k] # g /\ k \in claimed_interfaces[g]
    BY <1>3, Zenon
  <2>2. Returns(g, k) => Returns(g, k)'
    BY <1>1, Zenon DEF Returns
  <2> QED
    BY <1>2, <1>3, <2>1, <2>2, Zenon DEF ReturnInv
<1> QED
  BY <1>4, <1>5, <1>6 DEF IInv

-----------------------------------------------------------------------------
LEMMA Preserved == ASSUME UsbHandlesAssumption, IInv, [Next]_nvars PROVE IInv'
<1>1. CASE UNCHANGED nvars
  BY <1>1, Zenon DEF nvars, IInv, TypeInv, BoundInv, ReturnInv, Returns
<1>2. ASSUME NEW t \in Threads, NEW h \in Handles, NEW i \in Interfaces,
             \/ libusb_claim_interface(t, h, i) \/ libusb_release_interface(t, h, i)
             \/ libusb_set_interface_alt_setting(t, h, i)
      PROVE  IInv'
  BY <1>2, ClaimKeeps, ReleaseKeeps, AltSettingKeeps, Zenon
<1>3. ASSUME NEW t \in Threads,
             \/ \E h \in Handles : libusb_reset_device(t, h)
             \/ op_set_interface(t) \/ reset_release(t) \/ op_reset_device(t)
             \/ reset_reclaim(t) \/ reset_done(t)
      PROVE  IInv'
  BY <1>3, ResetKeeps, SetIntfKeeps, ResetReleaseKeeps, OpResetKeeps, ReclaimKeeps, ResetDoneKeeps, Zenon
<1>4. ASSUME NEW i \in Interfaces, libusb_detach_kernel_driver(i) \/ libusb_attach_kernel_driver(i)
      PROVE  IInv'
  BY <1>4, DetachKeeps, AttachKeeps, Zenon
<1>5. ASSUME libusb_set_configuration \/ (\E h \in Handles : libusb_close(h)) \/ Unplug
      PROVE  IInv'
  BY <1>5, ConfigureKeeps, CloseKeeps, UnplugKeeps, Zenon
<1> QED
  BY <1>1, <1>2, <1>3, <1>4, <1>5, Zenon DEF Next

\* A handle that no call is in has no interface that a reset will come to.
LEMMA Agreed == IInv => ClaimedIsBound
<1> SUFFICES ASSUME IInv, attached, NEW h \in Handles, \A t \in Threads : call[t].dev # h,
                    NEW i \in Interfaces
             PROVE  <<h, i>> \in foreign \/ (i \in claimed_interfaces[h] <=> bound[i] = h)
  BY Zenon DEF ClaimedIsBound
<1>1. ~Returns(h, i)
  BY Zenon DEF Returns
<1> QED
  BY <1>1, Zenon DEF IInv, BoundInv, ReturnInv

\* core.c, libusb_claim_interface, libusb_release_interface and libusb_reset_device, and
\* linux_usbfs.c, op_reset_device: between its calls a handle takes for claimed what it has
\* in the kernel, however many threads claim, release and reset on it.
THEOREM ClaimsAreBound == ASSUME UsbHandlesAssumption PROVE Spec => []ClaimedIsBound
<1>1. Init => IInv
  BY Initially
<1>2. IInv /\ [Next]_nvars => IInv'
  BY Preserved
<1> QED
  BY <1>1, <1>2, Agreed, PTL DEF Spec
=============================================================================
