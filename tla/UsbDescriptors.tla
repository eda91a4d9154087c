--------------------------- MODULE UsbDescriptors ---------------------------
(***************************************************************************)
(* parse_configuration, parse_interface and parse_endpoint of libusb             *)
(* (descriptor.c): the descriptors of a configuration, one behind the other, are     *)
(* made into interfaces, alternate settings and endpoints; what is of a class or of   *)
(* a vendor is kept as the extra of what it follows.  Devices here may announce more *)
(* than they have; what the code does about other wrong ones is left out, as are     *)
(* strings, the BOS and memory that is short.                                    *)
(***************************************************************************)
EXTENDS Integers, Sequences, FiniteSets, SequencesExt

CONSTANTS
  Counts,                 \* what a device may announce as a number of endpoints
  NumInterfaces,          \* and of interfaces
  USB_MAXINTERFACES, USB_MAXENDPOINTS,
  MaxInput,               \* bound: descriptors behind the one of the configuration
  Endpoint,               \* what an endpoint descriptor says, by its place in the input; and
                          \* the size and the number of packets its wMaxPacketSize means
  NOT_FOUND

UsbDescriptorsAssumption ==
  /\ Counts \subseteq Nat /\ NumInterfaces \subseteq Nat
  /\ {USB_MAXINTERFACES, USB_MAXENDPOINTS, MaxInput} \subseteq Nat
  /\ DOMAIN Endpoint = 1 .. MaxInput
  /\ \A p \in DOMAIN Endpoint : Endpoint[p].bmAttributes \in Nat /\ Endpoint[p].wMaxPacketSize \in Nat

VARIABLES
  input,        \* what follows the configuration: the device makes it up
  bNumInterfaces,
  want,         \* the loop that goes on, or how the call ended
  at,           \* buffer: index of the next descriptor of the input
  extra,        \* of the configuration: a set of indices, like every extra
  interface,    \* config->interface, those parsed so far: settings, one after the other
  altsetting    \* of the interface that is parsed: where each begins, and its endpoints

bvars == <<input, bNumInterfaces, want, at, extra, interface, altsetting>>

Interface(alt, n) == [type |-> "interface", alt |-> alt, n |-> n]
Other(type) == [type |-> type, alt |-> 0, n |-> 0]

Descriptors ==
  {Interface(alt, n) : alt \in {0, 1}, n \in Counts}
    \cup {Other(type) : type \in {"endpoint", "companion", "class"}}

bLength(d) == CASE d.type = "interface" -> 9 [] d.type = "endpoint" -> 7
                [] d.type = "companion" -> 6 [] d.type = "class" -> 5

Init ==
  /\ input = <<>> /\ bNumInterfaces \in NumInterfaces
  /\ want = "device" /\ at = 1 /\ extra = {} /\ interface = <<>> /\ altsetting = <<>>

Type(p) == IF p > Len(input) THEN "none" ELSE input[p].type

Heads(types) == {p \in DOMAIN input : Type(p) \in types}

\* The last descriptor of these types before p; 0: the configuration.
Owner(p, types) ==
  LET before == {q \in Heads(types) : q < p} IN
  IF before = {} THEN 0 ELSE CHOOSE q \in before : \A r \in before : r <= q

ExtraOf(q) ==
  {p \in Heads({"class", "companion"}) : Owner(p, {"interface", "endpoint"}) = q}

EndpointsOf(q) == {p \in Heads({"endpoint"}) : Owner(p, {"interface"}) = q}

InOrder(S) == SelectSeq([p \in DOMAIN input |-> p], LAMBDA p : p \in S)

\* What a device may be: interfaces come first, the default setting before others; an
\* endpoint is announced, a companion follows an endpoint.
Regular ==
  /\ Owner(Len(input) + 1, {"interface"}) # 0 =>
       LET first == Head(InOrder(Heads({"interface"}))) IN
       input[first].alt = 0 /\ \A p \in Heads({"endpoint", "companion"}) : p > first
  /\ Heads({"interface"}) = {} => Heads({"endpoint", "companion"}) = {}
  /\ \A q \in Heads({"interface"}) : Cardinality(EndpointsOf(q)) <= input[q].n
  /\ \A p \in Heads({"companion"}) : Type(Owner(p, {"interface", "endpoint"})) = "endpoint"

Supply ==
  /\ want = "device" /\ Len(input) < MaxInput
  /\ \E d \in Descriptors : input' = Append(input, d)
  /\ Regular'
  /\ UNCHANGED <<bNumInterfaces, want, at, extra, interface, altsetting>>

-----------------------------------------------------------------------------
Size(p) == FoldLeft(LAMBDA sum, d : sum + bLength(d), 0, SubSeq(input, p, Len(input)))

\* Over all descriptors to the next of these types, or to the end.
SkipTo(p, types) ==
  CHOOSE q \in p .. Len(input) + 1 :
    /\ Type(q) \in types \cup {"none"}
    /\ \A r \in p .. q - 1 : Type(r) \notin types

AfterInterface == {"interface", "endpoint", "companion"}
AfterEndpoint_Companion == {"interface", "endpoint", "companion"}
AfterEndpoint == {"interface", "endpoint"}

Enough == Len(interface) = bNumInterfaces

parse_configuration ==
  /\ want = "device"
  /\ want' = (IF bNumInterfaces > USB_MAXINTERFACES THEN "failed" ELSE "configuration")
  /\ UNCHANGED <<input, bNumInterfaces, at, extra, interface, altsetting>>

\* In front of each interface; only the first such block is kept.
skip_to_interface ==
  /\ want = "configuration" /\ ~Enough
  /\ at' = SkipTo(at, AfterInterface)
  /\ extra' = IF extra = {} THEN at .. at' - 1 ELSE extra
  /\ altsetting' = <<>>
  /\ want' = "altsetting"
  /\ UNCHANGED <<input, bNumInterfaces, interface>>

\* A setting, unless there is not enough left for one.
parse_interface ==
  /\ want = "altsetting" /\ Size(at) >= 9
  /\ at' = SkipTo(at + 1, AfterInterface)
  /\ altsetting' = Append(altsetting,
       [at |-> at, extra |-> at + 1 .. at' - 1, n |-> input[at].n, endpoint |-> <<>>])
  /\ want' = (IF input[at].n > USB_MAXENDPOINTS THEN "failed" ELSE "endpoint")
  /\ UNCHANGED <<input, bNumInterfaces, extra, interface>>

Setting == Last(altsetting)

\* The next endpoint; none where another descriptor is.  With nothing left the code
\* looks at what is behind the buffer.
Blank == [at |-> 0, extra |-> {}]

parse_endpoint ==
  /\ want = "endpoint" /\ Len(Setting.endpoint) < Setting.n
  /\ LET next == SkipTo(at + 1, AfterEndpoint)
         there == Type(at) = "endpoint"
         endpoint == IF there THEN [at |-> at, extra |-> at + 1 .. next - 1] ELSE Blank
     IN \/ /\ altsetting' = [altsetting EXCEPT ![Len(altsetting)].endpoint = Append(@, endpoint)]
           /\ at' = IF there THEN next ELSE at
           /\ UNCHANGED want
        \/ Type(at) = "none" /\ want' = "failed" /\ UNCHANGED <<at, altsetting>>
  /\ UNCHANGED <<input, bNumInterfaces, extra, interface>>

\* Another setting of this interface follows, or this is the end of it.
IsAlternate(p) == Type(p) = "interface" /\ input[p].alt # 0

interface_done ==
  /\ \/ want = "altsetting" /\ Size(at) < 9
     \/ want = "endpoint" /\ Len(Setting.endpoint) = Setting.n
  /\ IF want = "endpoint" /\ IsAlternate(at)
       THEN want' = "altsetting" /\ UNCHANGED interface
       ELSE want' = "configuration" /\ interface' = Append(interface, altsetting)
  /\ UNCHANGED <<input, bNumInterfaces, at, extra, altsetting>>

configuration_done ==
  /\ want = "configuration" /\ Enough
  /\ want' = "done"
  /\ UNCHANGED <<input, bNumInterfaces, at, extra, interface, altsetting>>

\* core.c: the first endpoint of this address, in any setting of any interface; 0: NULL.
find_endpoint(endpoint) ==
  LET altsettings == FlattenSeq(interface)
      eps == FlattenSeq([i \in DOMAIN altsettings |-> altsettings[i].endpoint])
      found == SelectSeq(eps, LAMBDA ep : ep # Blank /\ Endpoint[ep.at].bEndpointAddress = endpoint)
  IN IF found = <<>> THEN 0 ELSE Head(found).at

libusb_get_max_packet_size(endpoint) ==
  LET ep == find_endpoint(endpoint) IN
  IF ep = 0 THEN NOT_FOUND ELSE Endpoint[ep].wMaxPacketSize

\* bmAttributes & 3: 1 is isochronous, 3 interrupt.
Periodic(ep) == Endpoint[ep].bmAttributes % 4 \in {1, 3}

libusb_get_max_iso_packet_size(endpoint) ==
  LET ep == find_endpoint(endpoint)
      val == Endpoint[ep].wMaxPacketSize
  IN IF ep = 0 THEN NOT_FOUND
     ELSE (val % 2048) * (IF Periodic(ep) THEN 1 + ((val \div 2048) % 4) ELSE 1)

Next ==
  \/ Supply \/ parse_configuration \/ skip_to_interface \/ parse_interface
  \/ parse_endpoint \/ interface_done \/ configuration_done

Spec == Init /\ [][Next]_bvars

-----------------------------------------------------------------------------
\* What the device describes, said of the input as a whole.
DescribedEndpoints(q) ==
  LET s == InOrder(EndpointsOf(q)) IN
  [j \in 1 .. input[q].n |-> IF j > Len(s) THEN Blank ELSE [at |-> s[j], extra |-> ExtraOf(s[j])]]

DescribedSetting(q) ==
  [at |-> q, extra |-> ExtraOf(q), n |-> input[q].n, endpoint |-> DescribedEndpoints(q)]

DescribedInterface(i) ==
  LET firsts == InOrder({q \in Heads({"interface"}) : input[q].alt = 0})
      mine == {q \in Heads({"interface"}) :
                 q >= firsts[i] /\ (i = Len(firsts) \/ q < firsts[i + 1])}
      s == InOrder(mine)
  IN IF i > Len(firsts) THEN <<>> ELSE [j \in DOMAIN s |-> DescribedSetting(s[j])]

\* A configuration within the limits is refused only when its last setting announces
\* endpoints that are not there.  Else every descriptor ends where the device means it:
\* class descriptors, wherever they are put, settings that announce more endpoints than
\* they have, and interfaces that are announced and missing do not shift what follows.
ParsedIsDescribed ==
  /\ want = "done" =>
       /\ extra = IF bNumInterfaces = 0 THEN {} ELSE ExtraOf(0)
       /\ \A i \in 1 .. bNumInterfaces : interface[i] = DescribedInterface(i)
  /\ want = "failed" =>
       \/ bNumInterfaces > USB_MAXINTERFACES
       \/ \E q \in Heads({"interface"}) :
            \/ input[q].n > USB_MAXENDPOINTS
            \/ q = Owner(Len(input) + 1, {"interface"}) /\ Cardinality(EndpointsOf(q)) < input[q].n

\* The packet size of an address is that of the endpoint the device describes first, among
\* the interfaces it announces; an isochronous or interrupt endpoint has as many packets of
\* it in a microframe as the device says.
Described(address) ==
  {p \in Heads({"endpoint"}) :
     /\ Endpoint[p].bEndpointAddress = address
     /\ Cardinality({q \in Heads({"interface"}) : q < p /\ input[q].alt = 0}) <= bNumInterfaces}

PacketSizes ==
  want = "done" =>
    \A address \in {Endpoint[p].bEndpointAddress : p \in DOMAIN Endpoint} :
      LET p == CHOOSE p \in Described(address) : \A q \in Described(address) : p <= q
          size == libusb_get_max_packet_size(address)
          iso == libusb_get_max_iso_packet_size(address)
      IN IF Described(address) = {} THEN size = NOT_FOUND /\ iso = NOT_FOUND
         ELSE /\ size = Endpoint[p].wMaxPacketSize
              /\ iso = Endpoint[p].size * Endpoint[p].packets
=============================================================================
