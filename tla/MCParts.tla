------------------------------- MODULE MCParts -------------------------------
(***************************************************************************)
(* uthash, the parts of jansson and of libusb whose state is small or that run in one     *)
(* thread, the reports of farm-manager, and the .mcs files and the CRC of mm-tools, one at  *)
(* a time: "part" says which, chosen once.  Each has the first of the variables x1, ... to  *)
(* itself; the others stay Unused.                                                         *)
(***************************************************************************)
EXTENDS Integers, Sequences, FiniteSets, SequencesExt

CONSTANTS None, Nil, Junk, NOT_FOUND, IO, Unused

VARIABLES part, x1, x2, x3, x4, x5, x6, x7, x8, x9, x10, x11, x12, x13

allvars == <<part, x1, x2, x3, x4, x5, x6, x7, x8, x9, x10, x11, x12, x13>>

-----------------------------------------------------------------------------
\* Four keys that share a bucket however often the table is expanded, so that it gives up,
\* and one that is on its own from sixteen buckets on.
UtKeys == <<"a", "a", "b", "c", "d", "e">>
UtHashOf ==
  [k \in ToSet(UtKeys) |->
     CASE k = "a" -> 0 [] k = "b" -> 16 [] k = "c" -> 32 [] k = "d" -> 48 [] k = "e" -> 8]
Ut == INSTANCE UtHash WITH
  Elements <- DOMAIN UtKeys, KeyOf <- UtKeys, HASH_FCN <- UtHashOf, Rank <- <<2, 1, 1, 2, 1, 2>>,
  HASH_INITIAL_NUM_BUCKETS <- 1, HASH_BKT_CAPACITY_THRESH <- 1, MaxBuckets <- 16,
  head <- x1, hh <- x2, tbl <- x3, order <- x4

\* Three buckets and then seven: "a" and "c", "b" and "d" share one of the first table,
\* "a", "b" and "e", "c" and "d" one of the second.
HashOf ==
  [k \in {"a", "b", "c", "d", "e"} |->
     CASE k = "a" -> 0 [] k = "b" -> 7 [] k = "c" -> 3 [] k = "d" -> 10 [] k = "e" -> 14]
HashValues == [k \in DOMAIN HashOf |-> IF k = "a" THEN {1, 2} ELSE {1}]
Hash == INSTANCE JsonHash WITH
  Primes <- <<3, 7>>, Keys <- DOMAIN HashOf, hash_str <- HashOf, Values <- HashValues,
  list <- x1, value <- x2, size <- x3, num_buckets <- x4, buckets <- x5, iter <- x6,
  seen <- x7, moved <- x8

\* Values of jansson, in memory for three.
GraphNodes == {1, 2, 3}
ValueKeys == {"k"}
Val == INSTANCE JsonValue WITH
  Nodes <- GraphNodes, Keys <- ValueKeys, FirstSize <- 2, MaxEntries <- 3, MaxHeld <- 1,
  heap <- x1, held <- x2, asked <- x3, lost <- x4

\* Of strings: a quote, a, /, \, n, \uD834, \udd1e, \u0041, \u0000, U+00E9, U+1D11E, a
\* surrogate and a slash in the UTF-8 nobody may write, a lone continuation byte, a line
\* feed and \u12.  Of numbers: -, 0, 1, ., e, e+ and a comma.
TextPieces ==
  [string |-> {<<34>>, <<97>>, <<47>>, <<92>>, <<110>>, <<92, 117, 68, 56, 51, 52>>,
     <<92, 117, 100, 100, 49, 101>>, <<92, 117, 48, 48, 52, 49>>, <<92, 117, 48, 48, 48, 48>>,
     <<195, 169>>, <<240, 157, 132, 158>>, <<237, 160, 128>>, <<224, 128, 175>>, <<169>>, <<10>>,
     <<92, 117, 49, 50>>},
   number |-> {<<45>>, <<48>>, <<49>>, <<46>>, <<101>>, <<101, 43>>, <<44>>}]
\* 1, -0, 1,5, -1,25, 1e+20, 1,5e-05 and 2e+100 in a locale with a comma.
TextReals ==
  {<<49>>, <<45, 48>>, <<49, 44, 53>>, <<45, 49, 44, 50, 53>>, <<49, 101, 43, 50, 48>>,
   <<49, 44, 53, 101, 45, 48, 53>>, <<50, 101, 43, 49, 48, 48>>}
Text == INSTANCE JsonText WITH
  Pieces <- TextPieces, MaxPieces <- [string |-> 3, number |-> 5], Reals <- TextReals,
  Point <- 44, MaxInt <- 11,
  kind <- x1, pieces <- x2, text <- x3, from <- x4, tokens <- x5

Parser == INSTANCE JsonParser WITH
  Strings <- <<"a", "b">>, Scalars <- {"1"}, MaxTokens <- 9,
  LoadFlags <- {{"REJECT_DUPLICATES"}, {"DISABLE_EOF_CHECK", "DECODE_ANY"}},
  flags <- x1, input <- x2, read <- x3, want <- x4, stack <- x5, result <- x6, first <- x7,
  dumped <- x8
JsonGrammar == Parser!Grammar

Dump == INSTANCE JsonDump WITH
  Nodes <- GraphNodes, Objects <- {2, 3}, Graphs <- [GraphNodes -> SeqOf(GraphNodes, 2)], MaxDumps <- 2,
  contents <- x1, visited <- x2, calls <- x3, returned <- x4, root <- x5, refused <- x6,
  dumps <- x7

PackLeaf(c, x) == [type |-> c, of |-> x]
PackObject(f) == [type |-> "{", of |-> f]
PackArray(e) == [type |-> "[", of |-> e]
PackRoots ==
  {PackObject([k \in {"a"} |-> PackLeaf("i", 1)]),
   PackObject([k \in {"a", "b"} |-> PackLeaf("i", 1)]),
   PackObject([k \in {"a"} |-> PackArray(<<PackLeaf("s", 1), PackLeaf("i", 2)>>)]),
   PackArray(<<PackObject([k \in {"b"} |-> PackLeaf("s", 1)])>>)}
Pack == INSTANCE JsonPack WITH
  Keys <- {"a", "b"}, MaxFormat <- 7, Flags <- {{}, {"STRICT"}, {"VALIDATE_ONLY"}},
  Roots <- PackRoots,
  call <- x1, flags <- x2, root <- x3, format <- x4, done <- x5, want <- x6, stack <- x7,
  args <- x8, given <- x9

-----------------------------------------------------------------------------
\* Two addresses in turn: bulk, isochronous, interrupt with two, bulk, interrupt with three
\* packets of a size.
EndpointOf(address, attributes, n, packets) ==
  [bEndpointAddress |-> address, bmAttributes |-> attributes,
   wMaxPacketSize |-> n + 2048 * (packets - 1), size |-> n, packets |-> packets]
EndpointAt ==
  <<EndpointOf(129, 2, 512, 1), EndpointOf(1, 5, 1023, 1), EndpointOf(129, 3, 64, 2),
    EndpointOf(1, 2, 1024, 1), EndpointOf(129, 3, 1024, 3)>>
Desc == INSTANCE UsbDescriptors WITH
  Counts <- {0, 2, 3}, NumInterfaces <- {0, 1, 2, 3}, USB_MAXINTERFACES <- 2,
  USB_MAXENDPOINTS <- 2, MaxInput <- 5, Endpoint <- EndpointAt,
  input <- x1, bNumInterfaces <- x2, want <- x3, at <- x4, extra <- x5, interface <- x6,
  altsetting <- x7

\* Devices of one, two and three configurations, with their lengths.
Config(v, n) == [value |-> v, wTotalLength |-> n]
DeviceConfigs ==
  {<<Config(1, 9)>>, <<Config(1, 9), Config(2, 18)>>, <<Config(2, 25), Config(1, 9)>>,
   <<Config(100, 9), Config(1, 18), Config(2, 32)>>}
Conf == INSTANCE UsbConfigs WITH
  Configs <- DeviceConfigs, Wanted <- {1, 2, 100}, DEVICE_DESC_LENGTH <- 18, MaxChanges <- 2,
  configs <- x1, sysfs <- x2, active <- x3, changes <- x4, told <- x5, during <- x6,
  config_descriptor <- x7, call <- x8, step <- x9, config <- x10, offset <- x11,
  header <- x12, result <- x13

-----------------------------------------------------------------------------
\* A farm of one host with two miners, and of two hosts.
FarmConfigs == {<<<<"a", "b">>>>, <<<<"a">>, <<"b">>>>}
FarmMiners == {"a", "b"}
Rep == INSTANCE StatReport WITH
  Miners <- FarmMiners, Configs <- FarmConfigs, Devices <- 1, MaxEvents <- 3, MaxReports <- 2,
  cfg <- x1, farm <- x2, data0 <- x3, torn <- x4, job <- x5, announced <- x6, untold <- x7,
  ever <- x8, steady <- x9, since <- x10, events <- x11, reports <- x12

-----------------------------------------------------------------------------
Mcs == INSTANCE McsFile WITH
  Segments <- {7, 8, 9}, Firmware <- 8, Lengths <- {16, 144}, MaxLines <- 4,
  lower <- x1, lines <- x2, want <- x3, tmp <- x4, from <- x5, mm_flg <- x6, mm_type <- x7,
  new <- x8, mcs1_len <- x9

\* Every entry of the table is used.
Crc == INSTANCE Crc16 WITH
  Bytes <- 0 .. 255, MoreBytes <- {0, 1, 8, 128, 255}, MaxLen <- 2,
  soft <- x1, message <- x2, crc_init <- x3

ASSUME PartsAssumption ==
  /\ Ut!UtHashAssumption /\ Hash!JsonHashAssumption /\ Val!JsonValueAssumption /\ Text!JsonTextAssumption
  /\ Parser!JsonParserAssumption /\ Dump!JsonDumpAssumption /\ Pack!JsonPackAssumption
  /\ Desc!UsbDescriptorsAssumption /\ Conf!UsbConfigsAssumption
  /\ Rep!StatReportAssumption
  /\ Crc!Crc16Assumption /\ Mcs!McsFileAssumption

-----------------------------------------------------------------------------
Last4 == x10 = Unused /\ x11 = Unused /\ x12 = Unused /\ x13 = Unused

Last5 == x9 = Unused /\ Last4

Last9 == x5 = Unused /\ x6 = Unused /\ x7 = Unused /\ x8 = Unused /\ Last5

Init ==
  \/ part = "uthash" /\ Ut!Init /\ Last9
  \/ part = "hash" /\ Hash!Init /\ Last5
  \/ part = "value" /\ Val!Init /\ x5 = Unused /\ x6 = Unused /\ x7 = Unused
       /\ x8 = Unused /\ Last5
  \/ part = "text" /\ Text!Init /\ x6 = Unused /\ x7 = Unused /\ x8 = Unused /\ Last5
  \/ part = "parser" /\ Parser!Init /\ Last5
  \/ part = "dump" /\ Dump!Init /\ x8 = Unused /\ Last5
  \/ part = "pack" /\ Pack!Init /\ Last4
  \/ part = "descriptors" /\ Desc!Init /\ x8 = Unused /\ Last5
  \/ part = "configs" /\ Conf!Init
  \/ part = "report" /\ Rep!Init /\ x13 = Unused
  \/ part = "mcs" /\ Mcs!Init /\ Last4
  \/ part = "crc" /\ Crc!Init /\ x4 = Unused /\ Last9

Rest4 == UNCHANGED <<x10, x11, x12, x13>>

Rest5 == UNCHANGED x9 /\ Rest4

Next ==
  /\ UNCHANGED part
  /\ \/ part = "uthash" /\ Ut!Next /\ UNCHANGED <<x5, x6, x7, x8>> /\ Rest5
     \/ part = "hash" /\ Hash!Next /\ Rest5
     \/ part = "value" /\ Val!Next /\ UNCHANGED <<x5, x6, x7, x8>> /\ Rest5
     \/ part = "text" /\ Text!Next /\ UNCHANGED <<x6, x7, x8>> /\ Rest5
     \/ part = "parser" /\ Parser!Next /\ Rest5
     \/ part = "dump" /\ Dump!Next /\ UNCHANGED x8 /\ Rest5
     \/ part = "pack" /\ Pack!Next /\ Rest4
     \/ part = "descriptors" /\ Desc!Next /\ UNCHANGED x8 /\ Rest5
     \/ part = "configs" /\ Conf!Next
     \/ part = "report" /\ Rep!Next /\ UNCHANGED x13
     \/ part = "mcs" /\ Mcs!Next /\ Rest4
     \/ part = "crc" /\ Crc!NextByte /\ UNCHANGED <<x4, x5, x6, x7, x8>> /\ Rest5

Spec == Init /\ [][Next]_allvars

-----------------------------------------------------------------------------
\* jansson, hashtable.c: what was set is found, and an iteration meets every key; uthash.h:
\* what was added is found, and the list has its order.
HashIsMap ==
  /\ part = "hash" => Hash!FoundIsStored /\ Hash!IterationIsComplete
  /\ part = "uthash" => Ut!LinksAgree

\* jansson, value.c: nothing is freed too early, or kept too long but by the one call that
\* forgets a reference, and arrays have the elements the calls have put there.
ValuesAreCounted == part = "value" => Val!RefcountIsExact /\ Val!ArrayIsAsAsked

\* jansson, utf.c, strconv.c and the lexer: what is accepted is JSON and UTF-8, and what is
\* written is read back.
TextIsJson ==
  part = "text" => /\ Text!StringsAreText /\ Text!StringsReadBack
                   /\ Text!NumbersAreOfTheGrammar /\ Text!RealsReadBack

\* jansson, load.c and dump.c: the parser accepts the grammar, and reads what was written.
ParserIsExact == part = "parser" => Parser!ParsesTheGrammar(JsonGrammar) /\ Parser!WrittenIsReadBack

\* jansson, dump.c: a circle is found, and no flag is left behind.
DumpFindsCircles == part = "dump" => Dump!NothingLeftVisited /\ Dump!CircularIsFound

\* jansson, pack_unpack.c: arguments go with their characters, both ways.
PackIsUndone == part = "pack" => Pack!ArgsFollowFormat /\ Pack!PackedIsUnpacked

\* libusb, descriptor.c: what is parsed is what the device describes.
DescriptorsParsed == part = "descriptors" => Desc!ParsedIsDescribed /\ Desc!PacketSizes

\* libusb, descriptor.c and linux_usbfs.c: the configuration that is asked for.
ConfigIsFound == part = "configs" => Conf!ValueIsFound /\ Conf!ActiveIsFound

\* chkblock.py, chkerr.py, statreport.py: from report to report blocks are counted once and
\* told of once at most, and what has stopped is named.
ReportsAreTrue == part = "report" => Rep!ReportsAreTrue

\* mboot_api.c, mboot_mcs_file: the image is the firmware of the file; crc16.c and
\* crc16_soft.c: its CRC is that of the polynomial.
FirmwareTaken == (part = "mcs" => Mcs!FirmwareTaken) /\ (part = "crc" => Crc!CrcIsRemainder)
=============================================================================
