------------------------------ MODULE UsbDevices ------------------------------
(***************************************************************************)
(* The devices of a libusb context on Linux: found by the scan of libusb_init, *)
(* then followed by a monitor thread that gets the events of the kernel and    *)
(* passes them to whoever handles events, through a pipe (core.c, hotplug.c,   *)
(* os/linux_usbfs.c, os/linux_netlink.c).  Devices are counted references: of   *)
(* the context, of the lists and handles of the program.                        *)
(***************************************************************************)
EXTENDS Integers, Sequences, FiniteSets, SequencesExt

CONSTANTS
  Addrs,        \* the addresses on the bus: an address is used again
  MaxPlugs,     \* bound: how often something is plugged in or out
  PipeSize,     \* messages that the hotplug pipe holds
  MaxUsers,     \* calls of libusb_init(NULL)
  None

ASSUME UsbDevicesAssumption ==
  MaxPlugs \in Nat /\ PipeSize \in Nat \ {0} /\ MaxUsers \in Nat \ {0} /\ None \notin Nat

VARIABLES
  plugged,      \* the addresses that are taken
  plugs,        \* how often that has changed
  uevents,      \* what the kernel has to tell about it
  dev,          \* the devices allocated so far: [addr, refcnt, attached]
  usb_devs,     \* those in the list of the context
  ctx,          \* "none", "scan", "default": usbi_default_context is set, "active": in
                \* active_contexts_list, "exit", "unlisted", "gone"
  users,        \* default_context_refcnt
  inits,        \* calls of libusb_init(NULL) to come
  scanned,      \* the addresses the scan has seen
  missed,       \* addresses whose last event came between scan and "active"
  pipe,         \* messages in hotplug_pipe
  monitor,      \* the monitor thread: what it does with which device
  handler,      \* the thread that handles events: likewise
  callback,     \* a callback is registered
  told,         \* what it was told last about each device
  list,         \* the devices in the list the program has, if it has one
  kept,         \* devices whose callback called libusb_ref_device
  opening,      \* the device libusb_open has found attached
  handles       \* the devices with an open handle

bus  == <<plugged, plugs>>
devs == <<dev, usb_devs>>
lib  == <<ctx, users, inits, scanned, missed>>
cb   == <<callback, told, kept>>
app  == <<list, opening, handles>>
vars == <<bus, uevents, devs, lib, pipe, monitor, handler, cb, app>>

Devs == 1 .. Len(dev)

Idle == [does |-> "poll", dev |-> None]

Init ==
  /\ plugged \in SUBSET Addrs /\ plugs = 0 /\ uevents = <<>>
  /\ dev = <<>> /\ usb_devs = {}
  /\ ctx = "none" /\ users = 0 /\ inits = MaxUsers /\ scanned = {} /\ missed = {}
  /\ pipe = <<>>
  /\ monitor = [Idle EXCEPT !.does = "off"] /\ handler = Idle
  /\ callback = FALSE /\ told = [d \in {} |-> "nothing"] /\ kept = {}
  /\ list = {} /\ opening = None /\ handles = {}

-----------------------------------------------------------------------------
\* The kernel.
Plug ==
  /\ plugs < MaxPlugs /\ plugs' = plugs + 1
  /\ \E a \in Addrs :
       IF a \in plugged
         THEN plugged' = plugged \ {a} /\ uevents' = Append(uevents, <<"remove", a>>)
         ELSE plugged' = plugged \cup {a} /\ uevents' = Append(uevents, <<"add", a>>)
  /\ UNCHANGED <<devs, lib, pipe, monitor, handler, cb, app>>

-----------------------------------------------------------------------------
\* usbi_alloc_device and usbi_connect_device: a reference for the context.
Enumerate(a) ==
  /\ dev' = Append(dev, [addr |-> a, refcnt |-> 1, attached |-> TRUE])
  /\ usb_devs' = usb_devs \cup {Len(dev) + 1}
  /\ told' = Append(told, "nothing")

\* References taken and given back, each lock of a device by itself.
Counted(more, less) ==
  [d \in Devs |-> [dev[d] EXCEPT !.refcnt =
     @ + (IF d \in more THEN 1 ELSE 0) - (IF d \in less THEN 1 ELSE 0)]]

Freed(d) == dev[d].refcnt = 0

BySession(a) == {d \in usb_devs : dev[d].addr = a}

\* libusb_init(NULL): the first one makes the context, starts the monitor (op_init) ...
op_init ==
  /\ inits > 0 /\ ctx = "none"
  /\ ctx' = "scan" /\ inits' = inits - 1
  /\ monitor' = Idle
  /\ UNCHANGED <<bus, uevents, devs, users, scanned, missed, pipe, handler, cb, app>>

\* ... looks at each address (a device that went away cannot be read), ...
linux_default_scan_devices ==
  /\ ctx = "scan"
  /\ \E a \in Addrs \ scanned :
       /\ scanned' = scanned \cup {a}
       /\ IF a \in plugged THEN Enumerate(a) ELSE UNCHANGED <<devs, told>>
  /\ UNCHANGED <<bus, uevents, ctx, users, inits, missed, pipe, monitor, handler, callback,
                 kept, app>>

\* ... makes the pipes and gives the context out, ...
usbi_io_init ==
  /\ ctx = "scan" /\ scanned = Addrs
  /\ ctx' = "default" /\ users' = 1
  /\ UNCHANGED <<bus, uevents, devs, inits, scanned, missed, pipe, monitor, handler, cb, app>>

\* ... and only then gets the events of the monitor.
Activate ==
  /\ ctx = "default" /\ monitor.does = "poll"
  /\ ctx' = "active"
  /\ missed' = {a \in Addrs : /\ (a \in plugged) # (BySession(a) # {})
                              /\ \A i \in DOMAIN uevents : uevents[i][2] # a}
  /\ UNCHANGED <<bus, uevents, devs, users, inits, scanned, pipe, monitor, handler, cb, app>>

Reuse ==
  /\ inits > 0 /\ ctx \in {"default", "active"}
  /\ inits' = inits - 1 /\ users' = users + 1
  /\ UNCHANGED <<bus, uevents, devs, ctx, scanned, missed, pipe, monitor, handler, cb, app>>

-----------------------------------------------------------------------------
\* The monitor, with active_contexts_lock from the event to the end of it: a
\* message is written, and the pipe blocks (io.c sets the flag of the descriptor,
\* not its status).
Unknown_Any(a) == TRUE

Unknown(a) == BySession(a) = {}

linux_hotplug_enumerate(a) ==
  IF ctx = "active" /\ Unknown(a) /\ a \in plugged
    THEN Enumerate(a) /\ monitor' = [does |-> "arrived", dev |-> Len(dev) + 1]
    ELSE UNCHANGED <<devs, told, monitor>>

linux_hotplug_disconnected(a) ==
  IF ctx = "active" /\ BySession(a) # {}
    THEN \E d \in BySession(a) :
           /\ dev' = [dev EXCEPT ![d].attached = FALSE]
           /\ monitor' = [does |-> "left", dev |-> d]
           /\ UNCHANGED <<usb_devs, told>>
    ELSE UNCHANGED <<devs, told, monitor>>

linux_netlink_event_thread_main ==
  /\ monitor.does = "poll" /\ uevents # <<>>
  /\ uevents' = Tail(uevents)
  /\ IF Head(uevents)[1] = "add" THEN linux_hotplug_enumerate(Head(uevents)[2])
                                 ELSE linux_hotplug_disconnected(Head(uevents)[2])
  /\ UNCHANGED <<bus, lib, pipe, handler, callback, kept, app>>

WritePipe_Full == monitor.does \in {"arrived", "left"}

WritePipe == monitor.does \in {"arrived", "left"} /\ Len(pipe) < PipeSize

\* What becomes of a message that is written.
Sent == IF Len(pipe) < PipeSize THEN Append(pipe, <<monitor.does, monitor.dev>>) ELSE pipe

usbi_write ==
  /\ WritePipe
  /\ pipe' = Sent
  /\ monitor' = IF monitor.does = "left" THEN [monitor EXCEPT !.does = "unlist"] ELSE Idle
  /\ UNCHANGED <<bus, uevents, devs, lib, handler, cb, app>>

\* usbi_disconnect_device takes the device off the list after the message.
usbi_disconnect_device ==
  /\ monitor.does = "unlist"
  /\ usb_devs' = usb_devs \ {monitor.dev}
  /\ monitor' = Idle
  /\ UNCHANGED <<bus, uevents, dev, lib, pipe, handler, cb, app>>

-----------------------------------------------------------------------------
\* Event handling: one message, the callback, the handles, the reference.
ReadMessage ==
  /\ handler.does = "poll" /\ pipe # <<>> /\ ctx \in {"default", "active"}
  /\ handler' = [does |-> Head(pipe)[1], dev |-> Head(pipe)[2]]
  /\ pipe' = Tail(pipe)
  /\ UNCHANGED <<bus, uevents, devs, lib, monitor, cb, app>>

\* The callback may keep a reference to a device that has arrived, give it back when
\* it has left, and take itself off.
usbi_hotplug_match_cb ==
  \/ ~callback /\ UNCHANGED <<dev, cb>>
  \/ /\ callback /\ callback' \in BOOLEAN
     /\ told' = [told EXCEPT ![handler.dev] = handler.does]
     /\ IF handler.does = "left"
          THEN /\ kept' = kept \ {handler.dev}
               /\ dev' = Counted({}, kept \cap {handler.dev})
          ELSE \/ UNCHANGED <<kept, dev>>
               \/ /\ handler.dev \notin kept /\ kept' = kept \cup {handler.dev}
                  /\ dev' = Counted({handler.dev}, {})

usbi_hotplug_match ==
  /\ handler.does \in {"arrived", "left"}
  /\ usbi_hotplug_match_cb
  /\ handler' = IF handler.does = "left" THEN [handler EXCEPT !.does = "unref"] ELSE Idle
  /\ UNCHANGED <<bus, uevents, usb_devs, lib, pipe, monitor, app>>

\* Its open handles are disconnected (see UsbUrbs), then the context lets it go.
UnrefLeft ==
  /\ handler.does = "unref"
  /\ dev' = Counted({}, {handler.dev})
  /\ handler' = Idle
  /\ UNCHANGED <<bus, uevents, usb_devs, lib, pipe, monitor, cb, app>>

handle_events == ReadMessage \/ usbi_hotplug_match \/ UnrefLeft

-----------------------------------------------------------------------------
\* The program.  With the list of the context locked, one that is freed is not
\* reported: what is read there is unpredictable.
Active == ctx \in {"default", "active"}

Present == {d \in usb_devs : ~Freed(d)}

libusb_hotplug_register_callback ==
  /\ Active /\ ~callback /\ callback' = TRUE
  /\ \E enumerate \in BOOLEAN :
       told' = [d \in Devs |-> IF enumerate /\ d \in Present
                                 THEN (IF dev[d].attached THEN "arrived" ELSE "late") ELSE "nothing"]
  /\ UNCHANGED <<bus, uevents, devs, lib, pipe, monitor, handler, kept, app>>

libusb_hotplug_deregister_callback ==
  /\ Active /\ callback /\ callback' = FALSE
  /\ UNCHANGED <<bus, uevents, devs, lib, pipe, monitor, handler, told, kept, app>>

libusb_get_device_list ==
  /\ Active /\ list = {}
  /\ list' = Present
  /\ dev' = Counted(Present, {})
  /\ UNCHANGED <<bus, uevents, usb_devs, lib, pipe, monitor, handler, cb, opening, handles>>

libusb_free_device_list ==
  /\ list # {} /\ opening = None
  /\ list' = {}
  /\ dev' = Counted({}, list)
  /\ UNCHANGED <<bus, uevents, usb_devs, lib, pipe, monitor, handler, cb, opening, handles>>

\* libusb_open reads attached without the lock; then takes a reference and opens
\* the file of the address, if it is there.
OpenCheck ==
  /\ Active /\ opening = None /\ handles = {}
  /\ \E d \in list : dev[d].attached /\ opening' = d
  /\ UNCHANGED <<bus, uevents, devs, lib, pipe, monitor, handler, cb, list, handles>>

OpenRef_None == {}

OpenRef == {opening}

libusb_open ==
  /\ opening # None /\ opening' = None
  /\ IF dev[opening].addr \in plugged
       THEN handles' = {opening} /\ dev' = Counted(OpenRef, {})
       ELSE UNCHANGED <<dev, handles>>
  /\ UNCHANGED <<bus, uevents, usb_devs, lib, pipe, monitor, handler, cb, list>>

libusb_close ==
  /\ handles # {} /\ handles' = {} /\ dev' = Counted({}, handles)
  /\ UNCHANGED <<bus, uevents, usb_devs, lib, pipe, monitor, handler, cb, list, opening>>

-----------------------------------------------------------------------------
\* libusb_exit of the last user, who has closed what it opened and handles no more
\* events: the context leaves the list of the monitor, ...
libusb_exit ==
  /\ ctx = "active" /\ users > 0
  /\ users' = users - 1
  /\ IF users = 1
       THEN handles = {} /\ opening = None /\ handler = Idle /\ ctx' = "exit"
       ELSE UNCHANGED ctx
  /\ UNCHANGED <<bus, uevents, devs, inits, scanned, missed, pipe, monitor, handler, cb, app>>

ExitContext ==
  /\ ctx = "exit" /\ monitor.does = "poll"
  /\ ctx' = "unlisted"
  /\ UNCHANGED <<bus, uevents, devs, users, inits, scanned, missed, pipe, monitor, handler,
                 cb, app>>

\* ... gives back the references to its devices, and closes the pipe.
usbi_io_exit ==
  /\ ctx = "unlisted" /\ ctx' = "gone"
  /\ dev' = Counted({}, usb_devs) /\ usb_devs' = {}
  /\ callback' = FALSE
  /\ monitor' = [Idle EXCEPT !.does = "off"]
  /\ UNCHANGED <<bus, uevents, users, inits, scanned, missed, pipe, handler, told, kept, app>>

libusb_init == op_init \/ linux_default_scan_devices \/ usbi_io_init \/ Activate \/ Reuse

Monitor == linux_netlink_event_thread_main \/ usbi_write \/ usbi_disconnect_device

Next ==
  \/ Plug
  \/ libusb_init
  \/ Monitor
  \/ handle_events
  \/ libusb_hotplug_register_callback \/ libusb_hotplug_deregister_callback
  \/ libusb_get_device_list \/ libusb_free_device_list
  \/ OpenCheck \/ libusb_open \/ libusb_close
  \/ libusb_exit \/ ExitContext \/ usbi_io_exit

Spec == Init /\ [][Next]_vars

\* The threads run; what the program does otherwise it need not do.
FairSpec ==
  /\ Spec
  /\ WF_vars(libusb_init) /\ WF_vars(Monitor) /\ WF_vars(handle_events)
  /\ WF_vars(ExitContext) /\ WF_vars(usbi_io_exit)
-----------------------------------------------------------------------------
\* The reference of the context: until the message that the device left is handled.
Owned(d) ==
  \/ d \in usb_devs /\ dev[d].attached
  \/ monitor = [does |-> "left", dev |-> d]
  \/ \E i \in DOMAIN pipe : pipe[i] = <<"left", d>>
  \/ handler.does \in {"left", "unref"} /\ handler.dev = d

One(condition) == IF condition THEN 1 ELSE 0

\* core.c, usbi_disconnect_device: "libusb_handle_events will take care of
\* dereferencing the device".  Each reference is given back once, by whom it
\* belongs to, whatever arrives, leaves, is listed, opened or closed meanwhile:
\* no device is freed in use or stays for ever, but one whose last message was
\* not handled before libusb_exit.
RefsCounted ==
  \A d \in Devs :
    dev[d].refcnt = One(Owned(d)) + One(d \in list)
                    + One(d \in kept) + One(d \in handles)

\* Nobody finds a freed device: not the program, not a message, nor the list of
\* the context, except that the monitor takes the device off the list only after
\* the message that may have it freed (core.c:587-592).
NoDangling ==
  \A d \in Devs : Freed(d) =>
    /\ d \notin kept \cup handles \cup list /\ opening # d
    /\ ctx # "gone" => \A i \in DOMAIN pipe : pipe[i][2] # d
    /\ d \in usb_devs => monitor = [does |-> "unlist", dev |-> d]

\* libusb_get_device_list: "Returns a list of USB devices currently attached to the
\* system".  When the bus rests, the list of the context becomes what is plugged
\* in, each address once; but for addresses that changed between their scan and
\* the end of libusb_init.
ListFollows ==
  <>[](ctx = "active" =>
         \A a \in Addrs \ missed : Cardinality(BySession(a)) = One(a \in plugged))

\* A callback that was told of a device is told when it leaves; not one that was
\* registered, and told, while the device is on its way off the list.
Told(d, event) == d \in Devs /\ told[d] = event

LeftTold ==
  \A d \in 1 .. Cardinality(Addrs) + MaxPlugs :
    callback /\ Told(d, "arrived") /\ ~dev[d].attached
      ~> Told(d, "left") \/ ~callback \/ ctx # "active"
=============================================================================
