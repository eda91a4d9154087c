--------------------------- MODULE UsbDevicesProofs ---------------------------
(***************************************************************************)
(* Proofs about UsbDevices, for every bus, every number of users, plugs and   *)
(* messages: the references of every device are accounted for (RefsCounted),  *)
(* and nobody finds a freed device (NoDangling).                              *)
(***************************************************************************)
EXTENDS UsbDevices, TLAPS

DeviceRec == [addr : Addrs, refcnt : Int, attached : BOOLEAN]

\* The message that d left is with the monitor, in the pipe, with the handler.
Leaving(d)  == monitor = [does |-> "left", dev |-> d]
InPipe(d)   == \E i \in DOMAIN pipe : pipe[i] = <<"left", d>>
Handled(d)  == handler.does \in {"left", "unref"} /\ handler.dev = d
Listed(d)   == d \in usb_devs /\ dev[d].attached

TypeInv ==
  /\ plugged \subseteq Addrs
  /\ uevents \in Seq({"add", "remove"} \X Addrs)
  /\ dev \in Seq(DeviceRec)
  /\ usb_devs \subseteq Devs /\ kept \subseteq Devs /\ handles \subseteq Devs
  /\ pipe \in Seq({"arrived", "left"} \X Devs)
  /\ monitor \in [does : {"off", "poll"}, dev : {None}]
                 \cup [does : {"arrived", "left", "unlist"}, dev : Devs]
  /\ handler \in [does : {"poll"}, dev : {None}]
                 \cup [does : {"arrived", "left", "unref"}, dev : Devs]
  /\ list \subseteq Devs
  /\ opening \in Devs \cup {None}

\* A device leaves once: there is one message about it, and it is attached until
\* the monitor makes that message.
LeaveInv ==
  \A d \in Devs :
    /\ Leaving(d) => ~InPipe(d) /\ ~Handled(d)
    /\ InPipe(d) => ~Handled(d)
    /\ \A i, j \in DOMAIN pipe : pipe[i] = <<"left", d>> /\ pipe[j] = <<"left", d>> => i = j
    /\ Leaving(d) \/ InPipe(d) \/ Handled(d) => ~dev[d].attached

\* What the monitor is doing with which device.
MonitorInv ==
  /\ \A d \in Devs :
       /\ d \in usb_devs /\ ~dev[d].attached =>
            monitor.dev = d /\ monitor.does \in {"left", "unlist"}
       /\ monitor.dev = d /\ monitor.does \in {"left", "unlist"} => ~dev[d].attached
       /\ monitor.dev = d /\ monitor.does = "arrived" => Listed(d)
  /\ ctx = "none" => monitor.does = "off"
  /\ ctx \notin {"none", "active", "exit"} => monitor.does \in {"off", "poll"}

\* The message that a device arrived is followed by the one that it left, before
\* the device may be gone.
ArrivedInv ==
  ctx # "gone" =>
    \A i \in DOMAIN pipe, d \in Devs :
      pipe[i] = <<"arrived", d>> =>
        \/ Listed(d) \/ Leaving(d)
        \/ \E j \in DOMAIN pipe : i < j /\ pipe[j] = <<"left", d>>

\* libusb_open works on a device of the list.
OpenInv == opening # None => opening \in list /\ handles = {}

IInv == TypeInv /\ RefsCounted /\ LeaveInv /\ MonitorInv /\ ArrivedInv /\ OpenInv
-----------------------------------------------------------------------------
\* Another count leaves the rest of a device alone.
LEMMA SetRefcnt ==
  ASSUME NEW r \in DeviceRec, NEW n \in Int
  PROVE  /\ [r EXCEPT !.refcnt = n] \in DeviceRec
         /\ [r EXCEPT !.refcnt = n].attached = r.attached
         /\ [r EXCEPT !.refcnt = n].refcnt = n
BY DEF DeviceRec

\* References are counted device by device.
LEMMA CountedFacts ==
  ASSUME dev \in Seq(DeviceRec), NEW more, NEW less
  PROVE  /\ Counted(more, less) \in Seq(DeviceRec)
         /\ Len(Counted(more, less)) = Len(dev)
         /\ \A d \in Devs :
              /\ Counted(more, less)[d].attached = dev[d].attached
              /\ Counted(more, less)[d].refcnt = dev[d].refcnt + One(d \in more) - One(d \in less)
<1> DEFINE after == Counted(more, less)
<1>1. Len(dev) \in Nat /\ \A d \in Devs : dev[d] \in DeviceRec
  BY DEF Devs
<1>2. after = [d \in Devs |-> [dev[d] EXCEPT !.refcnt = @ + One(d \in more) - One(d \in less)]]
  BY DEF Counted, One
<1>3. ASSUME NEW d \in Devs
      PROVE  /\ after[d] \in DeviceRec
             /\ after[d].attached = dev[d].attached
             /\ after[d].refcnt = dev[d].refcnt + One(d \in more) - One(d \in less)
  <2> DEFINE x == One(d \in more)
             y == One(d \in less)
  <2>1. x \in Int /\ y \in Int
    BY DEF One
  <2>2. after[d] = [dev[d] EXCEPT !.refcnt = @ + x - y]
    BY <1>2
  <2>3. dev[d] \in DeviceRec
    BY <1>1
  <2>4. dev[d].refcnt + x - y \in Int
    BY <2>1, <2>3 DEF DeviceRec
  <2> HIDE DEF x, y, after
  <2>5. /\ after[d] \in DeviceRec
        /\ after[d].attached = dev[d].attached
        /\ after[d].refcnt = dev[d].refcnt + x - y
    BY <2>2, <2>3, <2>4, SetRefcnt
  <2> QED
    BY <2>5 DEF x, y
<1>4. after \in Seq(DeviceRec) /\ Len(after) = Len(dev)
  BY <1>1, <1>2, <1>3 DEF Devs
<1> QED
  BY <1>3, <1>4

\* A device that is found is the newest, and the context has the one reference to it.
LEMMA EnumerateFacts ==
  ASSUME TypeInv, NEW a \in Addrs, Enumerate(a)
  PROVE  /\ dev' \in Seq(DeviceRec) /\ Len(dev') = Len(dev) + 1
         /\ \A d \in Devs : dev'[d] = dev[d]
         /\ dev'[Len(dev) + 1] = [addr |-> a, refcnt |-> 1, attached |-> TRUE]
         /\ usb_devs' = usb_devs \cup {Len(dev) + 1}
         /\ Devs' = Devs \cup {Len(dev) + 1} /\ Len(dev) + 1 \notin Devs
<1>1. [addr |-> a, refcnt |-> 1, attached |-> TRUE] \in DeviceRec
  BY DEF DeviceRec
<1> QED
  BY <1>1 DEF Enumerate, TypeInv, Devs

\* Steps that neither find a device nor lose one, nor move a message, keep what
\* does not depend on the references.
LEMMA Quiet ==
  ASSUME IInv, Len(dev') = Len(dev), \A d \in Devs : dev'[d].attached = dev[d].attached,
         UNCHANGED <<usb_devs, pipe, monitor>>, \A d \in Devs : Handled(d)' <=> Handled(d),
         ctx' # ctx => /\ ctx' # "none" /\ ctx # "gone"
                       /\ ctx' \notin {"active", "exit"} => monitor.does \in {"off", "poll"}
  PROVE  /\ LeaveInv' /\ MonitorInv' /\ ArrivedInv'
         /\ \A d \in Devs : Owned(d)' = Owned(d)
<1>1. Devs' = Devs
  BY DEF Devs
<1>2. LeaveInv'
  BY <1>1 DEF IInv, LeaveInv, Leaving, InPipe
<1>3. MonitorInv'
  BY <1>1 DEF IInv, MonitorInv, Listed
<1>4. ArrivedInv'
  BY <1>1 DEF IInv, ArrivedInv, Listed, Leaving
<1>5. \A d \in Devs : Owned(d)' = Owned(d)
  BY DEF Owned, Handled
<1> QED
  BY <1>2, <1>3, <1>4, <1>5

\* Of those, the ones that do not touch a reference either keep the invariant.
LEMMA Uncounted ==
  ASSUME IInv, UNCHANGED <<dev, usb_devs, pipe, monitor, handler, kept, app>>,
         plugged' \subseteq Addrs, uevents' \in Seq({"add", "remove"} \X Addrs),
         ctx' # ctx => /\ ctx' # "none" /\ ctx # "gone"
                       /\ ctx' \notin {"active", "exit"} => monitor.does \in {"off", "poll"}
  PROVE  IInv'
<1>1. LeaveInv' /\ MonitorInv' /\ ArrivedInv' /\ \A d \in Devs : Owned(d)' = Owned(d)
  <2>1. \A d \in Devs : Handled(d)' <=> Handled(d)
    BY DEF Handled
  <2> QED
    BY <2>1, Quiet
<1>2. TypeInv'
  BY DEF IInv, TypeInv, Devs, app
<1>3. RefsCounted'
  BY <1>1 DEF IInv, RefsCounted, One, Devs, app
<1>4. OpenInv'
  BY DEF IInv, OpenInv, app
<1> QED
  BY <1>1, <1>2, <1>3, <1>4 DEF IInv

\* References that are given and taken by the program, each where it is noted.
LEMMA Recounted ==
  ASSUME IInv, NEW more, NEW less, dev' = Counted(more, less),
         UNCHANGED <<plugged, uevents, usb_devs, ctx, pipe, monitor>>,
         handler' \in [does : {"poll"}, dev : {None}]
                      \cup [does : {"arrived", "left", "unref"}, dev : Devs],
         \A d \in Devs : Handled(d)' <=> Handled(d),
         list' \subseteq Devs, kept' \subseteq Devs, handles' \subseteq Devs,
         opening' \in Devs \cup {None}, OpenInv',
         \A d \in Devs : One(d \in more) - One(d \in less) =
             (One(d \in list') - One(d \in list)) + (One(d \in kept') - One(d \in kept))
             + (One(d \in handles') - One(d \in handles))
  PROVE  IInv'
<1>1. /\ dev' \in Seq(DeviceRec) /\ Len(dev') = Len(dev)
      /\ \A d \in Devs :
           /\ dev'[d].attached = dev[d].attached
           /\ dev'[d].refcnt = dev[d].refcnt + One(d \in more) - One(d \in less)
  BY CountedFacts DEF IInv, TypeInv
<1>2. Devs' = Devs
  BY <1>1 DEF Devs
<1>3. LeaveInv' /\ MonitorInv' /\ ArrivedInv' /\ \A d \in Devs : Owned(d)' = Owned(d)
  BY <1>1, Quiet
<1>4. TypeInv'
  BY <1>1, <1>2 DEF IInv, TypeInv
<1>5. RefsCounted'
  <2> SUFFICES ASSUME NEW d \in Devs
               PROVE  dev'[d].refcnt = One(Owned(d)') + One(d \in list') + One(d \in kept')
                                       + One(d \in handles')
    BY <1>2 DEF RefsCounted
  <2>1. dev[d].refcnt = One(Owned(d)) + One(d \in list) + One(d \in kept) + One(d \in handles)
    BY DEF IInv, RefsCounted
  <2>2. Owned(d)' = Owned(d)
    BY <1>3
  <2>3. \A c : One(c) \in Int
    BY DEF One
  <2>4. One(Owned(d)') = One(Owned(d))
    BY <2>2
  <2>5. dev'[d].refcnt = dev[d].refcnt + One(d \in more) - One(d \in less)
    BY <1>1
  <2>6. One(d \in more) - One(d \in less) =
          (One(d \in list') - One(d \in list)) + (One(d \in kept') - One(d \in kept))
          + (One(d \in handles') - One(d \in handles))
    OBVIOUS
  <2> DEFINE o == One(Owned(d))  p == One(Owned(d)')
             l == One(d \in list)  k == One(d \in kept)  h == One(d \in handles)
             m == One(d \in list')  j == One(d \in kept')  g == One(d \in handles')
             x == One(d \in more)  y == One(d \in less)
             n == dev[d].refcnt
  <2>7. /\ o \in Int /\ l \in Int /\ k \in Int /\ h \in Int /\ m \in Int /\ j \in Int
        /\ g \in Int /\ x \in Int /\ y \in Int /\ p = o
        /\ n = o + l + k + h
        /\ dev'[d].refcnt = n + x - y
        /\ x - y = (m - l) + (j - k) + (g - h)
    BY <2>1, <2>3, <2>4, <2>5, <2>6
  <2>8. dev'[d].refcnt = p + m + j + g
    <3> HIDE DEF o, p, l, k, h, m, j, g, x, y, n
    <3> QED
      BY <2>7
  <2> QED
    BY <2>8
<1> QED
  BY <1>3, <1>4, <1>5 DEF IInv

\* Steps that touch no reference, but move a call of the program or the handler on.
LEMMA Moved ==
  ASSUME IInv,
         UNCHANGED <<plugged, uevents, dev, usb_devs, ctx, pipe, monitor, list, kept, handles>>,
         handler' \in [does : {"poll"}, dev : {None}]
                      \cup [does : {"arrived", "left", "unref"}, dev : Devs],
         \A d \in Devs : Handled(d)' <=> Handled(d),
         opening' \in Devs \cup {None}, OpenInv'
  PROVE  IInv'
<1>1. \A d \in Devs : dev'[d].attached = dev[d].attached
  OBVIOUS
<1>2. LeaveInv' /\ MonitorInv' /\ ArrivedInv' /\ \A d \in Devs : Owned(d)' = Owned(d)
  BY <1>1, Quiet
<1>3. RefsCounted'
  BY <1>2 DEF IInv, RefsCounted, One, Devs
<1>4. TypeInv'
  BY DEF IInv, TypeInv, Devs
<1> QED
  BY <1>2, <1>3, <1>4 DEF IInv

-----------------------------------------------------------------------------
\* The program gets a list, with a reference to each device, and frees it.
LEMMA ListSteps ==
  ASSUME IInv, libusb_get_device_list \/ libusb_free_device_list
  PROVE  IInv'
<1>0. \A d \in Devs : Handled(d)' <=> Handled(d)
  BY DEF Handled, libusb_get_device_list, libusb_free_device_list
<1>1. CASE libusb_get_device_list
  <2>1. Present \subseteq Devs /\ list = {}
    BY <1>1 DEF Present, IInv, TypeInv, libusb_get_device_list
  <2>2. OpenInv'
    BY <1>1, <2>1 DEF IInv, OpenInv, libusb_get_device_list
  <2> QED
    BY <1>0, <1>1, <2>1, <2>2, Recounted
       DEF IInv, TypeInv, libusb_get_device_list, One, bus, lib, cb, app
<1>2. CASE libusb_free_device_list
  <2>1. OpenInv'
    BY <1>2 DEF OpenInv, libusb_free_device_list
  <2> QED
    BY <1>0, <1>2, <2>1, Recounted
       DEF IInv, TypeInv, libusb_free_device_list, One, bus, lib, cb, app
<1> QED
  BY <1>1, <1>2

\* libusb_open checks, then opens; libusb_close gives its reference back.
LEMMA OpenSteps ==
  ASSUME IInv, OpenCheck \/ libusb_open \/ libusb_close
  PROVE  IInv'
<1>0. \A d \in Devs : Handled(d)' <=> Handled(d)
  BY DEF Handled, OpenCheck, libusb_open, libusb_close
<1>1. CASE OpenCheck
  <2>1. /\ opening' \in list /\ handles = {} /\ list \subseteq Devs
        /\ UNCHANGED <<bus, uevents, devs, lib, pipe, monitor, handler, cb, list, handles>>
    BY <1>1 DEF OpenCheck, IInv, TypeInv
  <2>2. OpenInv'
    BY <2>1 DEF OpenInv
  <2> QED
    BY <1>0, <2>1, <2>2, Moved DEF IInv, TypeInv, bus, devs, lib, cb
<1>2. CASE libusb_open
  <2>1. opening \in Devs /\ handles = {} /\ opening' = None
    BY <1>2 DEF libusb_open, IInv, TypeInv, OpenInv
  <2>2. OpenInv'
    BY <2>1 DEF OpenInv
  <2>3. CASE dev[opening].addr \in plugged
    <3>1. /\ handles' = {opening} /\ dev' = Counted({opening}, {})
          /\ UNCHANGED <<plugged, uevents, usb_devs, ctx, pipe, monitor, handler, list, kept>>
      BY <1>2, <2>3 DEF libusb_open, OpenRef, bus, lib, cb
    <3>2. list' \subseteq Devs /\ kept' \subseteq Devs /\ handles' \subseteq Devs
          /\ opening' \in Devs \cup {None}
          /\ handler' \in [does : {"poll"}, dev : {None}]
                          \cup [does : {"arrived", "left", "unref"}, dev : Devs]
      BY <2>1, <3>1 DEF IInv, TypeInv
    <3>3. \A d \in Devs : One(d \in {opening}) - One(d \in {}) =
             (One(d \in list') - One(d \in list)) + (One(d \in kept') - One(d \in kept))
             + (One(d \in handles') - One(d \in handles))
      BY <2>1, <3>1 DEF One
    <3> QED
      BY <1>0, <2>2, <3>1, <3>2, <3>3, Recounted
  <2>4. CASE ~(dev[opening].addr \in plugged)
    <3>1. UNCHANGED <<bus, uevents, devs, lib, pipe, monitor, handler, cb, list, handles>>
      BY <1>2, <2>4 DEF libusb_open, devs
    <3> QED
      BY <1>0, <2>1, <2>2, <3>1, Moved DEF IInv, TypeInv, bus, devs, lib, cb
  <2> QED
    BY <2>3, <2>4
<1>3. CASE libusb_close
  <2>1. handles' = {} /\ OpenInv' /\ dev' = Counted({}, handles)
    BY <1>3 DEF IInv, OpenInv, libusb_close
  <2>2. \A d \in Devs : One(d \in {}) - One(d \in handles) =
             (One(d \in list') - One(d \in list)) + (One(d \in kept') - One(d \in kept))
             + (One(d \in handles') - One(d \in handles))
    BY <1>3, <2>1 DEF libusb_close, One, cb
  <2>3. /\ UNCHANGED <<plugged, uevents, usb_devs, ctx, pipe, monitor, handler, list, kept, opening>>
    BY <1>3 DEF libusb_close, bus, lib, cb
  <2>4. list' \subseteq Devs /\ kept' \subseteq Devs /\ handles' \subseteq Devs
        /\ opening' \in Devs \cup {None}
        /\ handler' \in [does : {"poll"}, dev : {None}]
                        \cup [does : {"arrived", "left", "unref"}, dev : Devs]
    BY <2>1, <2>3 DEF IInv, TypeInv
  <2> QED
    BY <1>0, <2>1, <2>2, <2>3, <2>4, Recounted
<1> QED
  BY <1>1, <1>2, <1>3

-----------------------------------------------------------------------------
\* A device that is found, by the scan or after an event: nothing refers to it
\* yet but the context.
LEMMA FindStep ==
  ASSUME IInv, NEW a \in Addrs, Enumerate(a),
         UNCHANGED <<bus, ctx, pipe, handler, kept, app>>,
         uevents' \in Seq({"add", "remove"} \X Addrs),
         monitor.does \in {"off", "poll"}, ctx \in {"scan", "active"},
         monitor' = monitor \/ (ctx = "active" /\ monitor' = [does |-> "arrived", dev |-> Len(dev) + 1])
  PROVE  IInv'
<1>0. PICK new : new = Len(dev) + 1
  OBVIOUS
<1>1. /\ dev' \in Seq(DeviceRec) /\ Len(dev') = Len(dev) + 1
      /\ \A d \in Devs : dev'[d] = dev[d]
      /\ dev'[new] = [addr |-> a, refcnt |-> 1, attached |-> TRUE]
      /\ usb_devs' = usb_devs \cup {new}
      /\ Devs' = Devs \cup {new} /\ new \notin Devs
  BY <1>0, EnumerateFacts DEF IInv
<1>2. /\ usb_devs \subseteq Devs /\ kept \subseteq Devs /\ handles \subseteq Devs /\ list \subseteq Devs
      /\ pipe \in Seq({"arrived", "left"} \X Devs)
      /\ UNCHANGED <<kept, handles, list, pipe, handler, opening, ctx>>
  BY DEF IInv, TypeInv, app, lib
<1>3. /\ \A i \in DOMAIN pipe : pipe[i][2] \in Devs
      /\ handler.does \in {"left", "unref"} => handler.dev \in Devs
      /\ \A d : ~Leaving(d) /\ ~Leaving(d)'
  BY <1>2 DEF IInv, TypeInv, Leaving
<1>4. ~InPipe(new) /\ ~Handled(new)
  BY <1>1, <1>3 DEF InPipe, Handled
<1>5. \A d : InPipe(d)' = InPipe(d) /\ Handled(d)' = Handled(d)
  BY <1>2 DEF InPipe, Handled
<1>6. /\ \A d \in Devs : (d \in usb_devs' <=> d \in usb_devs) /\ dev'[d] = dev[d]
      /\ new \in usb_devs' /\ dev'[new].attached = TRUE /\ dev'[new].refcnt = 1
      /\ \A d \in Devs : Listed(d)' = Listed(d)
      /\ Listed(new)'
  <2>1. \A d \in Devs : (d \in usb_devs' <=> d \in usb_devs) /\ dev'[d] = dev[d]
    BY <1>1
  <2>2. new \in usb_devs' /\ dev'[new].attached = TRUE /\ dev'[new].refcnt = 1
    BY <1>1
  <2>3. \A d \in Devs : Listed(d)' = Listed(d)
    BY <2>1 DEF Listed
  <2>4. Listed(new)'
    BY <2>2 DEF Listed
  <2> QED
    BY <2>1, <2>2, <2>3, <2>4
<1>7. TypeInv'
  <2>1. monitor' \in [does : {"off", "poll"}, dev : {None}]
                     \cup [does : {"arrived", "left", "unlist"}, dev : Devs']
    BY <1>0, <1>1 DEF IInv, TypeInv
  <2>2. pipe' \in Seq({"arrived", "left"} \X Devs')
    BY <1>1, <1>2
  <2>3. handler' \in [does : {"poll"}, dev : {None}]
                     \cup [does : {"arrived", "left", "unref"}, dev : Devs']
    BY <1>1, <1>2 DEF IInv, TypeInv
  <2> QED
    BY <1>1, <1>2, <2>1, <2>2, <2>3 DEF IInv, TypeInv, bus
<1>8. RefsCounted'
  <2>1. \A d \in Devs' : Owned(d)' <=> Listed(d)' \/ Leaving(d)' \/ InPipe(d)' \/ Handled(d)'
    BY DEF Owned, Listed, Leaving, InPipe, Handled
  <2>2. \A d \in Devs : Owned(d) <=> Listed(d) \/ Leaving(d) \/ InPipe(d) \/ Handled(d)
    BY DEF Owned, Listed, Leaving, InPipe, Handled
  <2>3. ASSUME NEW d \in Devs
        PROVE  dev'[d].refcnt = One(Owned(d)') + One(d \in list') + One(d \in kept')
                                + One(d \in handles')
    <3>1. Owned(d)' <=> Owned(d)
      BY <1>1, <1>3, <1>5, <1>6, <2>1, <2>2
    <3> QED
      BY <1>2, <1>6, <3>1 DEF IInv, RefsCounted, One
  <2>4. dev'[new].refcnt = One(Owned(new)') + One(new \in list') + One(new \in kept')
                           + One(new \in handles')
    <3>1. Owned(new)' /\ new \notin list' /\ new \notin kept' /\ new \notin handles'
      <4>1. new \in Devs'
        BY <1>1
      <4>2. Owned(new)'
        BY <1>6, <2>1, <4>1
      <4>3. new \notin list' /\ new \notin kept' /\ new \notin handles'
        BY <1>1, <1>2
      <4> QED
        BY <4>2, <4>3
    <3> QED
      BY <1>6, <3>1 DEF One
  <2> QED
    BY <1>1, <2>3, <2>4 DEF RefsCounted
<1>9. LeaveInv'
  <2>1. ASSUME NEW d \in Devs
        PROVE  /\ InPipe(d)' => ~Handled(d)'
               /\ \A i, j \in DOMAIN pipe' :
                    pipe'[i] = <<"left", d>> /\ pipe'[j] = <<"left", d>> => i = j
               /\ InPipe(d)' \/ Handled(d)' => ~dev'[d].attached
    BY <1>2, <1>5, <1>6 DEF IInv, LeaveInv
  <2>2. ~InPipe(new)' /\ ~Handled(new)' /\ \A i \in DOMAIN pipe' : pipe'[i] # <<"left", new>>
    BY <1>2, <1>4, <1>5 DEF InPipe
  <2> QED
    BY <1>1, <1>3, <2>1, <2>2 DEF LeaveInv
<1>10. MonitorInv'
  <2>1. /\ monitor'.does \notin {"left", "unlist"}
        /\ monitor'.does = "arrived" => monitor'.dev = new
        /\ ctx' = "scan" => monitor'.does \in {"off", "poll"}
        /\ ctx' \in {"scan", "active"}
    BY <1>0, <1>2
  <2>2. \A d \in Devs : d \in usb_devs' => dev'[d].attached
    BY <1>6 DEF IInv, MonitorInv
  <2>3. \A d \in Devs' : d \in usb_devs' => dev'[d].attached
    BY <1>1, <1>6, <2>2
  <2> QED
    BY <1>1, <1>6, <2>1, <2>3 DEF MonitorInv
<1>11. ArrivedInv'
  BY <1>1, <1>2, <1>3, <1>6 DEF IInv, ArrivedInv
<1>12. OpenInv'
  BY <1>2 DEF IInv, OpenInv
<1> QED
  BY <1>7, <1>8, <1>9, <1>10, <1>11, <1>12 DEF IInv

-----------------------------------------------------------------------------
\* The steps of libusb_init.
LEMMA InitSteps ==
  ASSUME IInv, libusb_init
  PROVE  IInv'
<1>1. CASE op_init
  <2>1. /\ monitor.does = "off" /\ monitor' = [does |-> "poll", dev |-> None] /\ ctx' = "scan"
        /\ UNCHANGED <<bus, uevents, devs, pipe, handler, kept, app>>
    BY <1>1 DEF op_init, IInv, MonitorInv, Idle, cb
  <2>2. Devs' = Devs
    BY <2>1 DEF Devs, devs
  <2>3. \A d : ~Leaving(d) /\ ~Leaving(d)'
    BY <2>1 DEF Leaving
  <2>4. \A d \in Devs : d \in usb_devs => dev[d].attached
    BY <2>1 DEF IInv, MonitorInv
  <2>5. TypeInv'
    BY <2>1, <2>2 DEF IInv, TypeInv, bus, devs, app
  <2>6. RefsCounted'
    <3>1. \A d \in Devs : Owned(d)' <=> Owned(d)
      BY <2>1, <2>3 DEF Owned, Leaving, devs
    <3> QED
      BY <2>1, <2>2, <3>1 DEF IInv, RefsCounted, One, devs, app
  <2>7. LeaveInv'
    BY <2>1, <2>2, <2>3 DEF IInv, LeaveInv, InPipe, Handled, devs
  <2>8. MonitorInv'
    BY <2>1, <2>2, <2>4 DEF MonitorInv, devs
  <2>9. ArrivedInv'
    <3>1. ctx # "gone"
      BY <1>1 DEF op_init
    <3> QED
      BY <2>1, <2>2, <2>3, <3>1 DEF IInv, ArrivedInv, Listed, devs
  <2>10. OpenInv'
    BY <2>1 DEF IInv, OpenInv, app
  <2> QED
    BY <2>5, <2>6, <2>7, <2>8, <2>9, <2>10 DEF IInv
<1>2. CASE linux_default_scan_devices
  <2>1. PICK a \in Addrs : IF a \in plugged THEN Enumerate(a) ELSE UNCHANGED <<devs, told>>
    BY <1>2 DEF linux_default_scan_devices
  <2>2. /\ UNCHANGED <<bus, uevents, ctx, users, inits, missed, pipe, monitor, handler, callback,
                       kept, app>> /\ ctx = "scan"
    BY <1>2 DEF linux_default_scan_devices
  <2>3. monitor.does \in {"off", "poll"} /\ uevents' \in Seq({"add", "remove"} \X Addrs)
    BY <2>2 DEF IInv, MonitorInv, TypeInv
  <2>4. CASE a \in plugged
    BY <2>1, <2>2, <2>3, <2>4, FindStep
  <2>5. CASE a \notin plugged
    BY <2>1, <2>2, <2>5, Uncounted DEF IInv, TypeInv, devs, bus
  <2> QED
    BY <2>4, <2>5
<1>3. CASE usbi_io_init \/ Activate \/ Reuse
  <2>1. /\ ctx' # ctx => ctx' \in {"default", "active"} /\ ctx \in {"scan", "default"}
        /\ ctx \in {"scan", "default"} => monitor.does \in {"off", "poll"}
        /\ UNCHANGED <<dev, usb_devs, pipe, monitor, handler, kept, app, plugged, uevents>>
    BY <1>3 DEF usbi_io_init, Activate, Reuse, devs, cb, bus, IInv, MonitorInv
  <2> QED
    BY <2>1, Uncounted DEF IInv, TypeInv
<1> QED
  BY <1>1, <1>2, <1>3 DEF libusb_init

\* libusb_exit up to the point where the context is off the list of the monitor.
LEMMA ExitSteps ==
  ASSUME IInv, libusb_exit \/ ExitContext
  PROVE  IInv'
<1>1. /\ ctx' # ctx => /\ ctx' \in {"exit", "unlisted"} /\ ctx \in {"active", "exit"}
                       /\ ctx' = "unlisted" => monitor.does = "poll"
      /\ UNCHANGED <<dev, usb_devs, pipe, monitor, handler, kept, app, plugged, uevents>>
  BY DEF libusb_exit, ExitContext, devs, cb, bus
<1> QED
  BY <1>1, Uncounted DEF IInv, TypeInv

\* The monitor is stopped, and the context gives back what is left in its list.
LEMMA GoneStep ==
  ASSUME IInv, usbi_io_exit
  PROVE  IInv'
<1>1. /\ ctx = "unlisted" /\ ctx' = "gone"
      /\ dev' = Counted({}, usb_devs) /\ usb_devs' = {}
      /\ monitor' = [does |-> "off", dev |-> None]
      /\ UNCHANGED <<bus, uevents, pipe, handler, kept, app>>
  BY DEF usbi_io_exit, Idle
<1>2. /\ dev' \in Seq(DeviceRec) /\ Len(dev') = Len(dev)
      /\ \A d \in Devs :
           /\ dev'[d].attached = dev[d].attached
           /\ dev'[d].refcnt = dev[d].refcnt + One(d \in {}) - One(d \in usb_devs)
  BY <1>1, CountedFacts DEF IInv, TypeInv
<1>3. Devs' = Devs
  BY <1>2 DEF Devs
<1>4. monitor.does \in {"off", "poll"}
  BY <1>1 DEF IInv, MonitorInv
<1>5. \A d : ~Leaving(d) /\ ~Leaving(d)' /\ InPipe(d)' = InPipe(d) /\ Handled(d)' = Handled(d)
  BY <1>1, <1>4 DEF Leaving, InPipe, Handled
<1>6. \A d \in Devs : d \in usb_devs => dev[d].attached
  BY <1>4 DEF IInv, MonitorInv
<1>7. TypeInv'
  BY <1>1, <1>2, <1>3 DEF IInv, TypeInv, bus, app
<1>8. LeaveInv'
  BY <1>1, <1>2, <1>3, <1>5 DEF IInv, LeaveInv
<1>9. RefsCounted'
  <2> SUFFICES ASSUME NEW d \in Devs
               PROVE  dev'[d].refcnt = One(Owned(d)') + One(d \in list') + One(d \in kept')
                                       + One(d \in handles')
    BY <1>3 DEF RefsCounted
  <2>1. Owned(d)' <=> InPipe(d) \/ Handled(d)
    BY <1>1, <1>5 DEF Owned, Leaving, InPipe, Handled
  <2>2. Owned(d) <=> d \in usb_devs \/ InPipe(d) \/ Handled(d)
    BY <1>5, <1>6 DEF Owned, Leaving, InPipe, Handled
  <2>3. ~(d \in usb_devs /\ (InPipe(d) \/ Handled(d)))
    BY <1>6 DEF IInv, LeaveInv
  <2>4. One(Owned(d)') = One(Owned(d)) - One(d \in usb_devs) /\ One(d \in {}) = 0
    BY <2>1, <2>2, <2>3 DEF One
  <2>5. dev[d].refcnt = One(Owned(d)) + One(d \in list) + One(d \in kept) + One(d \in handles)
    BY DEF IInv, RefsCounted
  <2>6. UNCHANGED <<list, kept, handles>>
    BY <1>1 DEF app
  <2>7. \A c : One(c) \in Int
    BY DEF One
  <2> QED
    BY <1>2, <2>4, <2>5, <2>6, <2>7
<1>10. MonitorInv' /\ ArrivedInv'
  BY <1>1 DEF MonitorInv, ArrivedInv
<1>11. OpenInv'
  BY <1>1 DEF IInv, OpenInv, app
<1> QED
  BY <1>7, <1>8, <1>9, <1>10, <1>11 DEF IInv

-----------------------------------------------------------------------------
\* The monitor has the event that d is gone: it is attached no more, and the
\* reference of the context goes with the message.
LEMMA LostStep ==
  ASSUME IInv, NEW d \in usb_devs, monitor.does = "poll", ctx = "active",
         dev' = [dev EXCEPT ![d].attached = FALSE],
         monitor' = [does |-> "left", dev |-> d],
         UNCHANGED <<bus, usb_devs, ctx, pipe, handler, kept, app>>,
         uevents' \in Seq({"add", "remove"} \X Addrs)
  PROVE  IInv'
<1>0. /\ d \in Devs /\ dev[d] \in DeviceRec /\ Len(dev) \in Nat /\ dev[d].attached
      /\ dev \in Seq(DeviceRec)
  BY DEF IInv, TypeInv, MonitorInv, Devs
<1>1. /\ dev' \in Seq(DeviceRec) /\ Len(dev') = Len(dev)
      /\ \A e \in Devs : e # d => dev'[e] = dev[e]
      /\ dev'[d].attached = FALSE /\ dev'[d].refcnt = dev[d].refcnt
  <2>1. dev' = [dev EXCEPT ![d] = [dev[d] EXCEPT !.attached = FALSE]]
    OBVIOUS
  <2>2. [dev[d] EXCEPT !.attached = FALSE] \in DeviceRec
    BY <1>0 DEF DeviceRec
  <2>3. dev' \in Seq(DeviceRec) /\ Len(dev') = Len(dev)
    BY <1>0, <2>1, <2>2 DEF Devs
  <2>4. /\ \A e \in Devs : e # d => dev'[e] = dev[e]
        /\ dev'[d] = [dev[d] EXCEPT !.attached = FALSE]
    <3> DEFINE lost == [dev[d] EXCEPT !.attached = FALSE]
    <3>1. DOMAIN dev = Devs /\ dev' = [dev EXCEPT ![d] = lost]
      BY <1>0, <2>1 DEF Devs
    <3> HIDE DEF lost
    <3>2. /\ \A e \in Devs : e # d => dev'[e] = dev[e]
          /\ dev'[d] = lost
      BY <1>0, <3>1
    <3> QED
      BY <3>2 DEF lost
  <2> QED
    BY <1>0, <2>3, <2>4 DEF DeviceRec
<1>2. Devs' = Devs
  BY <1>1 DEF Devs
<1>3. /\ \A e : ~Leaving(e) /\ (Leaving(e)' <=> e = d)
      /\ \A e : InPipe(e)' = InPipe(e) /\ Handled(e)' = Handled(e)
  BY DEF Leaving, InPipe, Handled
<1>4. \A e \in Devs : Listed(e)' <=> Listed(e) /\ e # d
  BY <1>1 DEF Listed
<1>5. ~InPipe(d) /\ ~Handled(d)
  BY <1>0 DEF IInv, LeaveInv
<1>6. TypeInv'
  BY <1>0, <1>1, <1>2 DEF IInv, TypeInv, bus, app
<1>7. LeaveInv'
  BY <1>1, <1>2, <1>3, <1>5 DEF IInv, LeaveInv
<1>8. RefsCounted'
  <2>1. \A e \in Devs : dev'[e].refcnt = dev[e].refcnt
    BY <1>1
  <2>2. \A e \in Devs : Owned(e)' <=> Listed(e)' \/ Leaving(e)' \/ InPipe(e)' \/ Handled(e)'
    BY DEF Owned, Listed, Leaving, InPipe, Handled
  <2>3. \A e \in Devs : Owned(e) <=> Listed(e) \/ Leaving(e) \/ InPipe(e) \/ Handled(e)
    BY DEF Owned, Listed, Leaving, InPipe, Handled
  <2>4. Listed(d)
    BY <1>0 DEF Listed
  <2>5. \A e \in Devs : Owned(e)' <=> Owned(e)
    BY <1>3, <1>4, <2>2, <2>3, <2>4
  <2> QED
    BY <1>2, <2>1, <2>5 DEF IInv, RefsCounted, One, app
<1>9. MonitorInv'
  <2>1. \A e \in Devs : e \in usb_devs /\ ~dev'[e].attached => e = d
    BY <1>1 DEF IInv, MonitorInv
  <2> QED
    BY <1>1, <1>2, <2>1 DEF IInv, MonitorInv
<1>10. ArrivedInv'
  BY <1>2, <1>3, <1>4 DEF IInv, ArrivedInv
<1>11. OpenInv'
  BY DEF IInv, OpenInv, app
<1> QED
  BY <1>6, <1>7, <1>8, <1>9, <1>10, <1>11 DEF IInv

\* An event of the kernel: something is plugged in or out, or nothing is to do.
LEMMA EventStep ==
  ASSUME IInv, linux_netlink_event_thread_main
  PROVE  IInv'
<1> DEFINE a == Head(uevents)[2]
<1>1. /\ monitor.does = "poll"
      /\ UNCHANGED <<bus, ctx, pipe, handler, callback, kept, app>>
      /\ \/ linux_hotplug_enumerate(a)
         \/ linux_hotplug_disconnected(a)
  BY DEF linux_netlink_event_thread_main, lib
<1>2. a \in Addrs /\ uevents' \in Seq({"add", "remove"} \X Addrs)
  BY DEF linux_netlink_event_thread_main, IInv, TypeInv
<1> HIDE DEF a
<1>3. CASE UNCHANGED <<devs, told, monitor>>
  BY <1>1, <1>2, <1>3, Uncounted DEF IInv, TypeInv, devs, bus
<1>4. CASE ctx = "active" /\ Enumerate(a) /\ monitor' = [does |-> "arrived", dev |-> Len(dev) + 1]
  BY <1>1, <1>2, <1>4, FindStep
<1>5. CASE ctx = "active" /\ \E d \in BySession(a) :
             /\ dev' = [dev EXCEPT ![d].attached = FALSE]
             /\ monitor' = [does |-> "left", dev |-> d]
             /\ UNCHANGED <<usb_devs, told>>
  BY <1>1, <1>2, <1>5, LostStep DEF BySession
<1> QED
  BY <1>1, <1>3, <1>4, <1>5 DEF linux_hotplug_enumerate, linux_hotplug_disconnected

\* The monitor writes its message.
LEMMA WriteStep ==
  ASSUME IInv, usbi_write
  PROVE  IInv'
<1>0. PICK w, d : w = monitor.does /\ d = monitor.dev
  OBVIOUS
<1>1. /\ w \in {"arrived", "left"} /\ d \in Devs
      /\ pipe' = Append(pipe, <<w, d>>)
      /\ monitor' = IF w = "left" THEN [does |-> "unlist", dev |-> d] ELSE [does |-> "poll", dev |-> None]
      /\ UNCHANGED <<bus, uevents, devs, lib, handler, cb, app>>
  BY <1>0 DEF usbi_write, WritePipe, Sent, IInv, TypeInv, Idle
<1>2. Devs' = Devs /\ pipe \in Seq({"arrived", "left"} \X Devs) /\ dev' = dev
  BY <1>1 DEF Devs, IInv, TypeInv, devs
<1>3. /\ DOMAIN pipe' = DOMAIN pipe \cup {Len(pipe) + 1}
      /\ \A i \in DOMAIN pipe : pipe'[i] = pipe[i] /\ i < Len(pipe) + 1
      /\ pipe'[Len(pipe) + 1] = <<w, d>>
  BY <1>1, <1>2
<1>4. \A e : /\ InPipe(e)' <=> InPipe(e) \/ (w = "left" /\ e = d)
             /\ Handled(e)' <=> Handled(e)
             /\ Leaving(e) <=> w = "left" /\ e = d
             /\ ~Leaving(e)'
  <2>1. ASSUME NEW e
        PROVE  InPipe(e)' <=> InPipe(e) \/ (w = "left" /\ e = d)
    <3>1. ASSUME InPipe(e)'
          PROVE  InPipe(e) \/ (w = "left" /\ e = d)
      BY <1>3, <3>1 DEF InPipe
    <3>2. ASSUME InPipe(e)
          PROVE  InPipe(e)'
      BY <1>3, <3>2 DEF InPipe
    <3>3. ASSUME w = "left", e = d
          PROVE  InPipe(e)'
      BY <1>3, <3>3 DEF InPipe
    <3> QED
      BY <3>1, <3>2, <3>3
  <2>2. \A e : Leaving(e) <=> w = "left" /\ e = d
    BY <1>0, <1>1 DEF IInv, TypeInv, Leaving
  <2> QED
    BY <1>1, <2>1, <2>2 DEF Handled, Leaving
<1>5. \A e \in Devs : Listed(e)' <=> Listed(e)
  BY <1>1 DEF Listed, devs
<1>6. TypeInv'
  <2>1. pipe' \in Seq({"arrived", "left"} \X Devs)
    BY <1>1, <1>2
  <2> QED
    BY <1>1, <1>2, <2>1 DEF IInv, TypeInv, bus, devs, cb, app
<1>7. LeaveInv'
  BY <1>1, <1>2, <1>3, <1>4 DEF IInv, LeaveInv, InPipe
<1>8. RefsCounted'
  <2>1. \A e \in Devs : Owned(e)' <=> Listed(e)' \/ Leaving(e)' \/ InPipe(e)' \/ Handled(e)'
    BY DEF Owned, Listed, Leaving, InPipe, Handled
  <2>2. \A e \in Devs : Owned(e) <=> Listed(e) \/ Leaving(e) \/ InPipe(e) \/ Handled(e)
    BY DEF Owned, Listed, Leaving, InPipe, Handled
  <2>3. \A e \in Devs : Owned(e)' <=> Owned(e)
    BY <1>4, <1>5, <2>1, <2>2
  <2> QED
    BY <1>1, <1>2, <2>3 DEF IInv, RefsCounted, One, cb, app
<1>9. MonitorInv'
  BY <1>0, <1>1, <1>2 DEF IInv, MonitorInv, devs, lib
<1>10. ArrivedInv'
  <2> SUFFICES ASSUME ctx # "gone", NEW i \in DOMAIN pipe', NEW e \in Devs,
                      pipe'[i] = <<"arrived", e>>
               PROVE  \/ Listed(e)'
                      \/ \E j \in DOMAIN pipe' : i < j /\ pipe'[j] = <<"left", e>>
    BY <1>1, <1>2 DEF ArrivedInv, lib
  <2>1. CASE i = Len(pipe) + 1
    <3>1. w = "arrived" /\ e = d
      BY <1>3, <2>1
    <3> QED
      BY <1>0, <1>1, <1>5, <3>1 DEF IInv, MonitorInv
  <2>2. CASE i \in DOMAIN pipe
    <3>1. \/ Listed(e) \/ Leaving(e)
          \/ \E j \in DOMAIN pipe : i < j /\ pipe[j] = <<"left", e>>
      BY <1>3, <2>2 DEF IInv, ArrivedInv
    <3> QED
      BY <1>3, <1>4, <1>5, <2>2, <3>1
  <2> QED
    BY <1>3, <2>1, <2>2
<1>11. OpenInv'
  BY <1>1 DEF IInv, OpenInv, app
<1> QED
  BY <1>6, <1>7, <1>8, <1>9, <1>10, <1>11 DEF IInv

\* The device comes off the list.
LEMMA UnlistStep ==
  ASSUME IInv, usbi_disconnect_device
  PROVE  IInv'
<1>1. /\ monitor.does = "unlist" /\ usb_devs' = usb_devs \ {monitor.dev}
      /\ monitor' = [does |-> "poll", dev |-> None]
      /\ UNCHANGED <<bus, uevents, dev, lib, pipe, handler, cb, app>>
  BY DEF usbi_disconnect_device, Idle
<1>2. Devs' = Devs /\ monitor.dev \in Devs
  BY <1>1 DEF Devs, IInv, TypeInv
<1>3. ~dev[monitor.dev].attached
  BY <1>1, <1>2 DEF IInv, MonitorInv
<1>4. \A e \in Devs : /\ InPipe(e)' <=> InPipe(e)
                      /\ Handled(e)' <=> Handled(e)
                      /\ ~Leaving(e) /\ ~Leaving(e)'
  BY <1>1 DEF InPipe, Handled, Leaving
<1>5. \A e \in Devs : Listed(e)' <=> Listed(e)
  BY <1>1, <1>3 DEF Listed
<1>6. TypeInv'
  BY <1>1, <1>2 DEF IInv, TypeInv, bus, cb, app
<1>7. LeaveInv'
  BY <1>1, <1>2, <1>4 DEF IInv, LeaveInv
<1>8. RefsCounted'
  <2>1. \A e \in Devs : Owned(e)' <=> Listed(e)' \/ Leaving(e)' \/ InPipe(e)' \/ Handled(e)'
    BY DEF Owned, Listed, Leaving, InPipe, Handled
  <2>2. \A e \in Devs : Owned(e) <=> Listed(e) \/ Leaving(e) \/ InPipe(e) \/ Handled(e)
    BY DEF Owned, Listed, Leaving, InPipe, Handled
  <2>3. \A e \in Devs : Owned(e)' <=> Owned(e)
    BY <1>4, <1>5, <2>1, <2>2
  <2> QED
    BY <1>1, <1>2, <2>3 DEF IInv, RefsCounted, One, cb, app
<1>9. MonitorInv'
  BY <1>1, <1>2 DEF IInv, MonitorInv, lib
<1>10. ArrivedInv'
  BY <1>1, <1>2, <1>4, <1>5 DEF IInv, ArrivedInv, lib
<1>11. OpenInv'
  BY <1>1 DEF IInv, OpenInv, app
<1> QED
  BY <1>6, <1>7, <1>8, <1>9, <1>10, <1>11 DEF IInv

-----------------------------------------------------------------------------
\* The handler takes the next message.
LEMMA ReadStep ==
  ASSUME IInv, ReadMessage
  PROVE  IInv'
<1>0. PICK w, d : w = Head(pipe)[1] /\ d = Head(pipe)[2]
  OBVIOUS
<1>1. /\ handler.does = "poll" /\ pipe # <<>> /\ ctx # "gone"
      /\ w \in {"arrived", "left"} /\ d \in Devs
      /\ handler' = [does |-> w, dev |-> d] /\ pipe' = Tail(pipe)
      /\ UNCHANGED <<bus, uevents, devs, lib, monitor, cb, app>>
  BY <1>0 DEF ReadMessage, IInv, TypeInv
<1>2. Devs' = Devs /\ pipe \in Seq({"arrived", "left"} \X Devs) /\ dev' = dev /\ usb_devs' = usb_devs
  BY <1>1 DEF Devs, IInv, TypeInv, devs
<1>3. /\ pipe[1] = <<w, d>> /\ 1 \in DOMAIN pipe
      /\ \A i \in DOMAIN pipe' : i + 1 \in DOMAIN pipe /\ pipe'[i] = pipe[i + 1] /\ i + 1 # 1
      /\ \A i \in DOMAIN pipe : i # 1 => i - 1 \in DOMAIN pipe' /\ pipe'[i - 1] = pipe[i]
  BY <1>0, <1>1, <1>2
<1>4. \A e \in Devs : Listed(e)' = Listed(e) /\ Leaving(e)' = Leaving(e)
  BY <1>1, <1>2 DEF Listed, Leaving
<1>5. \A e : ~Handled(e) /\ (Handled(e)' <=> w = "left" /\ e = d)
  BY <1>1 DEF Handled
<1>6. ASSUME NEW e \in Devs
      PROVE  /\ InPipe(e) <=> InPipe(e)' \/ (w = "left" /\ e = d)
             /\ w = "left" /\ e = d => ~InPipe(e)'
  <2>1. ASSUME w = "left", e = d, InPipe(e)'
        PROVE  FALSE
    BY <1>3, <2>1 DEF IInv, LeaveInv, InPipe
  <2>2. ASSUME InPipe(e), ~(w = "left" /\ e = d)
        PROVE  InPipe(e)'
    <3>1. PICK i \in DOMAIN pipe : pipe[i] = <<"left", e>>
      BY <2>2 DEF InPipe
    <3>2. i # 1
      BY <1>3, <2>2, <3>1
    <3> QED
      BY <1>3, <3>1, <3>2 DEF InPipe
  <2>3. ASSUME InPipe(e)'
        PROVE  InPipe(e)
    BY <1>3, <2>3 DEF InPipe
  <2>4. ASSUME w = "left", e = d
        PROVE  InPipe(e)
    BY <1>3, <2>4 DEF InPipe
  <2> QED
    BY <2>1, <2>2, <2>3, <2>4
<1>7. TypeInv'
  BY <1>1, <1>2 DEF IInv, TypeInv, bus, cb, app
<1>8. LeaveInv'
  <2> SUFFICES ASSUME NEW e \in Devs
               PROVE  /\ Leaving(e)' => ~InPipe(e)' /\ ~Handled(e)'
                      /\ InPipe(e)' => ~Handled(e)'
                      /\ \A i, j \in DOMAIN pipe' :
                           pipe'[i] = <<"left", e>> /\ pipe'[j] = <<"left", e>> => i = j
                      /\ Leaving(e)' \/ InPipe(e)' \/ Handled(e)' => ~dev[e].attached
    BY <1>2 DEF LeaveInv
  <2>1. \A i, j \in DOMAIN pipe' :
          pipe'[i] = <<"left", e>> /\ pipe'[j] = <<"left", e>> => i = j
    <3>1. DOMAIN pipe' \subseteq Nat
      BY <1>1, <1>2
    <3>2. \A i, j \in DOMAIN pipe : pipe[i] = <<"left", e>> /\ pipe[j] = <<"left", e>> => i = j
      BY DEF IInv, LeaveInv
    <3>3. ASSUME NEW i \in DOMAIN pipe', NEW j \in DOMAIN pipe',
                 pipe'[i] = <<"left", e>>, pipe'[j] = <<"left", e>>
          PROVE  i = j
      <4>1. i + 1 = j + 1
        BY <1>3, <3>2, <3>3
      <4> QED
        BY <3>1, <4>1
    <3> QED
      BY <3>3
  <2>2. /\ Leaving(e)' => ~InPipe(e)' /\ ~Handled(e)'
        /\ InPipe(e)' => ~Handled(e)'
        /\ Leaving(e)' \/ InPipe(e)' \/ Handled(e)' => ~dev[e].attached
    BY <1>4, <1>5, <1>6 DEF IInv, LeaveInv
  <2> QED
    BY <2>1, <2>2
<1>9. RefsCounted'
  <2>1. \A e \in Devs : Owned(e)' <=> Listed(e)' \/ Leaving(e)' \/ InPipe(e)' \/ Handled(e)'
    BY DEF Owned, Listed, Leaving, InPipe, Handled
  <2>2. \A e \in Devs : Owned(e) <=> Listed(e) \/ Leaving(e) \/ InPipe(e) \/ Handled(e)
    BY DEF Owned, Listed, Leaving, InPipe, Handled
  <2>3. \A e \in Devs : Owned(e)' <=> Owned(e)
    BY <1>4, <1>5, <1>6, <2>1, <2>2
  <2> QED
    BY <1>1, <1>2, <2>3 DEF IInv, RefsCounted, One, cb, app
<1>10. MonitorInv'
  BY <1>1, <1>2, <1>4 DEF IInv, MonitorInv, lib
<1>11. ArrivedInv'
  <2> SUFFICES ASSUME NEW i \in DOMAIN pipe', NEW e \in Devs, pipe'[i] = <<"arrived", e>>
               PROVE  \/ Listed(e)' \/ Leaving(e)'
                      \/ \E j \in DOMAIN pipe' : i < j /\ pipe'[j] = <<"left", e>>
    BY <1>2 DEF ArrivedInv
  <2>1. \/ Listed(e) \/ Leaving(e)
        \/ \E j \in DOMAIN pipe : i + 1 < j /\ pipe[j] = <<"left", e>>
    BY <1>1, <1>3 DEF IInv, ArrivedInv
  <2>2. ASSUME NEW j \in DOMAIN pipe, i + 1 < j, pipe[j] = <<"left", e>>
        PROVE  j - 1 \in DOMAIN pipe' /\ i < j - 1 /\ pipe'[j - 1] = <<"left", e>>
    <3>1. i \in Nat \ {0} /\ j \in Nat
      BY <1>1, <1>2
    <3>2. j # 1 /\ i < j - 1
      BY <2>2, <3>1
    <3> QED
      BY <1>3, <2>2, <3>2
  <2> QED
    BY <1>4, <2>1, <2>2
<1>12. OpenInv'
  BY <1>1 DEF IInv, OpenInv, app
<1> QED
  BY <1>7, <1>8, <1>9, <1>10, <1>11, <1>12 DEF IInv

\* The callback, which may keep a reference or give one back.
LEMMA MatchStep ==
  ASSUME IInv, usbi_hotplug_match
  PROVE  IInv'
<1> DEFINE d == handler.dev
<1>1. /\ handler.does \in {"arrived", "left"} /\ d \in Devs
      /\ handler' = IF handler.does = "left" THEN [does |-> "unref", dev |-> d]
                                             ELSE [does |-> "poll", dev |-> None]
      /\ UNCHANGED <<plugged, uevents, usb_devs, ctx, pipe, monitor, list, opening, handles>>
  BY DEF usbi_hotplug_match, IInv, TypeInv, Idle, bus, lib, app
<1>2. /\ \A e \in Devs : Handled(e)' <=> Handled(e)
      /\ handler' \in [does : {"poll"}, dev : {None}]
                      \cup [does : {"arrived", "left", "unref"}, dev : Devs]
  BY <1>1 DEF Handled
<1>3. list \subseteq Devs /\ kept \subseteq Devs /\ handles \subseteq Devs /\ opening \in Devs \cup {None}
  BY DEF IInv, TypeInv
<1>4. OpenInv'
  BY <1>1 DEF IInv, OpenInv
<1>5. \/ UNCHANGED <<dev, kept>>
      \/ kept' = kept \ {d} /\ dev' = Counted({}, kept \cap {d})
      \/ d \notin kept /\ kept' = kept \cup {d} /\ dev' = Counted({d}, {})
  BY DEF usbi_hotplug_match, usbi_hotplug_match_cb, cb
<1> HIDE DEF d
<1>6. CASE UNCHANGED <<dev, kept>>
  BY <1>1, <1>2, <1>3, <1>4, <1>6, Moved
<1>7. CASE kept' = kept \ {d} /\ dev' = Counted({}, kept \cap {d})
  <2>1. \A e \in Devs : One(e \in {}) - One(e \in kept \cap {d}) =
             (One(e \in list') - One(e \in list)) + (One(e \in kept') - One(e \in kept))
             + (One(e \in handles') - One(e \in handles))
    BY <1>1, <1>7 DEF One
  <2> QED
    BY <1>1, <1>2, <1>3, <1>4, <1>7, <2>1, Recounted
<1>8. CASE d \notin kept /\ kept' = kept \cup {d} /\ dev' = Counted({d}, {})
  <2>1. \A e \in Devs : One(e \in {d}) - One(e \in {}) =
             (One(e \in list') - One(e \in list)) + (One(e \in kept') - One(e \in kept))
             + (One(e \in handles') - One(e \in handles))
    BY <1>1, <1>8 DEF One
  <2> QED
    BY <1>1, <1>2, <1>3, <1>4, <1>8, <2>1, Recounted
<1> QED
  BY <1>5, <1>6, <1>7, <1>8

\* The context lets the device go.
LEMMA UnrefStep ==
  ASSUME IInv, UnrefLeft
  PROVE  IInv'
<1>0. PICK d : d = handler.dev
  OBVIOUS
<1>1. /\ handler.does = "unref" /\ d \in Devs
      /\ dev' = Counted({}, {d}) /\ handler' = [does |-> "poll", dev |-> None]
      /\ UNCHANGED <<bus, uevents, usb_devs, lib, pipe, monitor, cb, app>>
  BY <1>0 DEF UnrefLeft, IInv, TypeInv, Idle
<1>2. /\ dev' \in Seq(DeviceRec) /\ Len(dev') = Len(dev)
      /\ \A e \in Devs :
           /\ dev'[e].attached = dev[e].attached
           /\ dev'[e].refcnt = dev[e].refcnt + One(e \in {}) - One(e \in {d})
  BY <1>1, CountedFacts DEF IInv, TypeInv
<1>3. Devs' = Devs
  BY <1>2 DEF Devs
<1>4. \A e : /\ Handled(e) <=> e = d
             /\ ~Handled(e)'
             /\ InPipe(e)' = InPipe(e) /\ Leaving(e)' = Leaving(e)
  BY <1>0, <1>1 DEF Handled, InPipe, Leaving
<1>5. \A e \in Devs : Listed(e)' = Listed(e)
  BY <1>1, <1>2 DEF Listed
<1>6. ~InPipe(d) /\ ~Leaving(d) /\ ~Listed(d)
  BY <1>1, <1>4 DEF IInv, LeaveInv, Listed
<1>7. TypeInv'
  BY <1>1, <1>2, <1>3 DEF IInv, TypeInv, bus, cb, app
<1>8. LeaveInv'
  BY <1>1, <1>2, <1>3, <1>4 DEF IInv, LeaveInv
<1>9. RefsCounted'
  <2> SUFFICES ASSUME NEW e \in Devs
               PROVE  dev'[e].refcnt = One(Owned(e)') + One(e \in list') + One(e \in kept')
                                       + One(e \in handles')
    BY <1>3 DEF RefsCounted
  <2>1. Owned(e)' <=> Listed(e)' \/ Leaving(e)' \/ InPipe(e)' \/ Handled(e)'
    BY DEF Owned, Listed, Leaving, InPipe, Handled
  <2>2. Owned(e) <=> Listed(e) \/ Leaving(e) \/ InPipe(e) \/ Handled(e)
    BY DEF Owned, Listed, Leaving, InPipe, Handled
  <2>3. Owned(e)' <=> Owned(e) /\ e # d
    BY <1>4, <1>5, <1>6, <2>1, <2>2
  <2>4. Owned(d)
    BY <1>0, <1>1 DEF Owned
  <2>5. One(Owned(e)') = One(Owned(e)) - One(e \in {d}) /\ One(e \in {}) = 0
    BY <2>3, <2>4 DEF One
  <2>6. dev[e].refcnt = One(Owned(e)) + One(e \in list) + One(e \in kept) + One(e \in handles)
    BY DEF IInv, RefsCounted
  <2>7. UNCHANGED <<list, kept, handles>>
    BY <1>1 DEF app, cb
  <2>8. \A c : One(c) \in Int
    BY DEF One
  <2> QED
    BY <1>2, <2>5, <2>6, <2>7, <2>8
<1>10. MonitorInv'
  BY <1>1, <1>2, <1>3, <1>5 DEF IInv, MonitorInv, lib
<1>11. ArrivedInv'
  BY <1>1, <1>3, <1>4, <1>5 DEF IInv, ArrivedInv, lib
<1>12. OpenInv'
  BY <1>1 DEF IInv, OpenInv, app
<1> QED
  BY <1>7, <1>8, <1>9, <1>10, <1>11, <1>12 DEF IInv

-----------------------------------------------------------------------------
\* The invariant holds at first, ...
LEMMA InitHolds == Init => IInv
<1> SUFFICES ASSUME Init PROVE IInv
  OBVIOUS
<1>1. Devs = {}
  BY DEF Init, Devs
<1>2. TypeInv
  BY <1>1 DEF Init, TypeInv, Idle
<1>3. RefsCounted /\ LeaveInv
  BY <1>1 DEF RefsCounted, LeaveInv
<1>4. MonitorInv /\ ArrivedInv /\ OpenInv
  BY <1>1 DEF Init, MonitorInv, ArrivedInv, OpenInv, Idle
<1> QED
  BY <1>2, <1>3, <1>4 DEF IInv

\* ... every step keeps it, ...
LEMMA NextStep == IInv /\ [Next]_vars => IInv'
<1> SUFFICES ASSUME IInv, [Next]_vars PROVE IInv'
  OBVIOUS
<1>0. plugged \subseteq Addrs /\ uevents \in Seq({"add", "remove"} \X Addrs)
  BY DEF IInv, TypeInv
<1>1. CASE Plug
  <2>1. PICK a \in Addrs :
          IF a \in plugged
            THEN plugged' = plugged \ {a} /\ uevents' = Append(uevents, <<"remove", a>>)
            ELSE plugged' = plugged \cup {a} /\ uevents' = Append(uevents, <<"add", a>>)
    BY <1>1 DEF Plug
  <2>2. plugged' \subseteq Addrs /\ uevents' \in Seq({"add", "remove"} \X Addrs)
    <3>1. PICK e \in {"add", "remove"} \X Addrs : uevents' = Append(uevents, e)
      BY <2>1
    <3>2. plugged' \subseteq Addrs
      BY <1>0, <2>1
    <3> QED
      BY <1>0, <3>1, <3>2
  <2> QED
    BY <1>1, <2>2, Uncounted DEF Plug, devs, lib, cb
<1>2. CASE libusb_hotplug_register_callback \/ libusb_hotplug_deregister_callback
  <2>1. UNCHANGED <<bus, uevents, devs, lib, pipe, monitor, handler, kept, app>>
    BY <1>2 DEF libusb_hotplug_register_callback, libusb_hotplug_deregister_callback
  <2> QED
    BY <1>0, <2>1, Uncounted DEF bus, devs, lib
<1>3. CASE UNCHANGED vars
  BY <1>0, <1>3, Uncounted DEF vars, bus, devs, lib, cb
<1> QED
  BY <1>1, <1>2, <1>3, InitSteps, ExitSteps, GoneStep, EventStep, WriteStep, UnlistStep, ReadStep,
     MatchStep, UnrefStep, ListSteps, OpenSteps DEF Next, Monitor, handle_events

\* ... so it holds always.
LEMMA Inductive == Spec => []IInv
BY InitHolds, NextStep, PTL DEF Spec

\* Every reference is accounted for: of the context, until the message that the
\* device left is handled, of the list, the callback and the handle of the program.
THEOREM EveryRefCounted == Spec => []RefsCounted
BY Inductive, PTL DEF IInv

\* Where every reference is accounted for, a freed device is found by nobody.
LEMMA CountedSafe == IInv => NoDangling
<1> SUFFICES ASSUME IInv, NEW d \in Devs, Freed(d)
             PROVE  /\ d \notin kept \cup handles \cup list /\ opening # d
                    /\ ctx # "gone" => \A i \in DOMAIN pipe : pipe[i][2] # d
                    /\ d \in usb_devs => monitor = [does |-> "unlist", dev |-> d]
  BY DEF NoDangling
<1>1. dev[d].refcnt = 0
  BY DEF Freed
<1>2. dev[d].refcnt = One(Owned(d)) + One(d \in list) + One(d \in kept) + One(d \in handles)
  BY DEF IInv, RefsCounted
<1>3. ~Owned(d) /\ d \notin list /\ d \notin kept /\ d \notin handles
  BY <1>1, <1>2 DEF One
<1>4. opening # d
  <2>1. d # None
    BY UsbDevicesAssumption DEF Devs, IInv, TypeInv
  <2> QED
    BY <1>3, <2>1 DEF IInv, OpenInv
<1>5. ~Listed(d) /\ ~Leaving(d) /\ ~InPipe(d)
  BY <1>3 DEF Owned, Listed, Leaving, InPipe
<1>6. ASSUME ctx # "gone", NEW i \in DOMAIN pipe
      PROVE  pipe[i][2] # d
  <2>1. pipe[i] # <<"left", d>>
    BY <1>5 DEF InPipe
  <2>2. pipe[i] # <<"arrived", d>>
    BY <1>5, <1>6 DEF IInv, ArrivedInv, InPipe
  <2>3. pipe[i] \in {"arrived", "left"} \X Devs
    BY DEF IInv, TypeInv
  <2> QED
    BY <2>1, <2>2, <2>3
<1>7. ASSUME d \in usb_devs
      PROVE  monitor = [does |-> "unlist", dev |-> d]
  <2>1. ~dev[d].attached
    BY <1>5, <1>7 DEF Listed
  <2>2. monitor.dev = d /\ monitor.does \in {"left", "unlist"}
    BY <1>7, <2>1 DEF IInv, MonitorInv
  <2>3. monitor = [does |-> monitor.does, dev |-> monitor.dev]
    BY DEF IInv, TypeInv
  <2> QED
    BY <1>5, <2>2, <2>3 DEF Leaving
<1> QED
  BY <1>3, <1>4, <1>6, <1>7

\* Nobody finds a freed device, but for the moment in which the monitor still has it
\* in the list (core.c:587-592).
THEOREM FreedUnfound == Spec => []NoDangling
BY Inductive, CountedSafe, PTL
=============================================================================
