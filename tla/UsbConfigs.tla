----------------------------- MODULE UsbConfigs -----------------------------
(***************************************************************************)
(* How libusb finds the descriptor of a configuration on Linux (descriptor.c, os/   *)
(* linux_usbfs.c): in the descriptors file of sysfs, in the device file, or in the   *)
(* copy it keeps when there is no such file (sysfs_has_descriptors is 0).  Each call *)
(* asks twice, for the header and then for all of it, and the configuration may be   *)
(* changed by another program before, between and after.  Reads and transfers that   *)
(* fail are left out, except those that come to the end of a file.                   *)
(***************************************************************************)
EXTENDS Integers, Sequences, FiniteSets, SequencesExt

CONSTANTS
  Configs,                \* the devices: sequences of [value, wTotalLength]
  Wanted,                 \* bConfigurationValues that are asked for
  DEVICE_DESC_LENGTH,
  MaxChanges,             \* bound: of the configuration, by other programs
  None, NOT_FOUND, IO

UsbConfigsAssumption == {DEVICE_DESC_LENGTH, MaxChanges} \subseteq Nat

VARIABLES
  configs,                \* the configurations of the device, in order
  sysfs,                  \* what the kernel has in sysfs: nothing of use, the value of the
                          \* configuration, also its descriptors, or those of all
  active,                 \* bConfigurationValue, 0: unconfigured
  changes,
  told,                   \* the configuration is the one this program has set last
  during,                 \* all that was active since the call began
  config_descriptor,      \* priv->config_descriptor: value and length, None
  call,                   \* what is asked for
  step,                   \* what the call does next
  config,                 \* the value it looks for, from sysfs or the caller
  offset,                 \* of the file that is read
  header,                 \* what the first of the two reads has found: a configuration
  result                  \* what the call returns: a configuration or an error

cvars == <<configs, sysfs, active, changes, told, during, config_descriptor,
           call, step, config, offset, header, result>>
device == <<configs, sysfs>>

sysfs_can_relate_devices == sysfs # "none"
sysfs_has_descriptors == sysfs \in {"active", "all"}

Values(s) == {s[i].value : i \in DOMAIN s}
WithValue(s, v) == SelectSeq(s, LAMBDA c : c.value = v)

\* A configuration begins at this offset of a file that holds these.
Begin(s, i) ==
  DEVICE_DESC_LENGTH + FoldLeft(LAMBDA sum, c : sum + c.wTotalLength, 0, SubSeq(s, 1, i - 1))

At(s, off) == SelectSeq([i \in DOMAIN s |-> i], LAMBDA i : Begin(s, i) = off)

\* The files: sysfs has all configurations, or the active one only.
DeviceFile == configs
SysfsFile == IF sysfs = "all" THEN configs
             ELSE IF active = 0 THEN <<>> ELSE WithValue(configs, active)

\* initialize_device and cache_active_config: the copy is of the active configuration or,
\* when the device file can only be read and sysfs does not tell, of the first; there is
\* none when the device does not answer.
Init ==
  /\ configs \in Configs /\ active \in Values(configs) \cup {0}
  /\ sysfs \in {"none", "value", "active", "all"}
  /\ config_descriptor \in (IF sysfs_has_descriptors THEN {None}
                           ELSE {None, configs[1]} \cup ToSet(WithValue(configs, active)))
  /\ changes = 0 /\ told = FALSE /\ during = {} /\ call = None /\ step = "idle" /\ config = None
  /\ offset = 0 /\ header = None /\ result = None

Size(file) == Begin(file, Len(file) + 1)

\* Another program changes the configuration.
Change ==
  /\ changes < MaxChanges
  /\ \E v \in Values(configs) \cup {0} : v # active /\ active' = v
  /\ changes' = changes + 1 /\ told' = FALSE /\ during' = during \cup {active'}
  /\ UNCHANGED <<device, config_descriptor, call, step, config, offset, header, result>>

Unchanged == UNCHANGED <<device, active, changes, told, during, config_descriptor>>

Begins(c, s, v) ==
  /\ step = "idle"
  /\ call' = c /\ step' = s /\ config' = v /\ during' = {active}
  /\ offset' = DEVICE_DESC_LENGTH /\ header' = None /\ result' = None
  /\ UNCHANGED <<device, active, changes, told, config_descriptor>>

libusb_get_active_config_descriptor ==
  Begins("active", IF sysfs_has_descriptors THEN "value" ELSE "copy", None)

libusb_get_config_descriptor_by_value == \E v \in Wanted : Begins("value", "search", v)

\* From sysfs, or else by a request to the device.
libusb_get_configuration ==
  Begins("configuration", IF sysfs_can_relate_devices THEN "value" ELSE "control", None)

\* cache_active_config after the configuration was set.
CopyOf(v) == IF v = -1 THEN None ELSE WithValue(configs, v)[1]

\* op_set_configuration, and the copy that it brings up to date; a configuration that is
\* not there is refused.
libusb_set_configuration ==
  \E v \in Wanted \cup {-1} :
    /\ v # -1 => v \in Values(configs)
    /\ step = "idle"
    /\ active' = (IF v = -1 THEN 0 ELSE v) /\ told' = TRUE
    /\ config_descriptor' = IF sysfs_has_descriptors THEN None ELSE CopyOf(v)
    /\ call' = "set" /\ result' = None
    /\ UNCHANGED <<device, changes, during, step, config, offset, header>>

Return(r) ==
  result' = r /\ step' = "idle" /\ UNCHANGED <<call, config, offset, header>> /\ Unchanged

-----------------------------------------------------------------------------
\* The first read of a configuration gives its header, the second one as many bytes as the
\* header says, if there are so many.
Found(c, size) ==
  IF header = None
    THEN /\ header' = c /\ offset' = DEVICE_DESC_LENGTH
         /\ step' = (IF call = "value" THEN "search" ELSE IF sysfs_has_descriptors THEN "value"
                                                          ELSE "copy")
         /\ UNCHANGED <<call, config, result>> /\ Unchanged
    ELSE IF offset + header.wTotalLength > size THEN Return(IO)
    ELSE Return([value |-> c.value, wTotalLength |-> header.wTotalLength])

\* usbfs_get_active_config_descriptor.
Copy ==
  /\ step = "copy"
  /\ IF config_descriptor = None THEN Return(NOT_FOUND) ELSE Found(config_descriptor, offset + config_descriptor.wTotalLength)

\* sysfs_get_active_config: it takes a value of two digits and the line feed, and there is
\* none when the device is not configured.
TooLong(v) == v > 99

op_get_configuration ==
  step = "value" /\ call = "configuration" /\ Return(IF TooLong(active) THEN IO ELSE active)

ReadValue ==
  /\ step = "value" /\ call = "active"
  /\ IF TooLong(active) THEN Return(IO)
     ELSE IF active = 0 THEN Return(NOT_FOUND)
     ELSE /\ config' = active /\ step' = "search"
          /\ UNCHANGED <<call, offset, header, result>> /\ Unchanged

\* GET_CONFIGURATION.
AskDevice == step = "control" /\ Return(active)

\* From one configuration to the next: six bytes are read of each.
seek_to_next_config_Six(off, c) == off + 6 + c.wTotalLength

seek_to_next_config(off, c) == off + 6 + (c.wTotalLength - 6)

\* sysfs_get_active_config_descriptor and usbi_get_config_index_by_value: on to the value
\* that is wanted.  What is read at an offset where no configuration begins is none.
Search ==
  /\ step = "search"
  /\ LET file == IF call = "active" THEN SysfsFile ELSE DeviceFile
         here == At(file, offset)
     IN IF call = "active" /\ file = <<>> THEN Return(NOT_FOUND)
        ELSE IF here = <<>> THEN Return(IF call = "active" THEN IO ELSE NOT_FOUND)
        ELSE IF file[here[1]].value = config THEN Found(file[here[1]], Size(file))
        ELSE /\ offset' = seek_to_next_config(offset, file[here[1]])
             /\ UNCHANGED <<call, step, config, header, result>> /\ Unchanged

Next ==
  \/ Change \/ libusb_get_active_config_descriptor \/ libusb_get_config_descriptor_by_value
  \/ libusb_get_configuration \/ libusb_set_configuration
  \/ op_get_configuration \/ Copy \/ ReadValue \/ AskDevice \/ Search

Spec == Init /\ [][Next]_cvars

-----------------------------------------------------------------------------
Returned == step = "idle" /\ result # None

\* A value that is asked for is found when the device has it, whatever configurations come
\* before it in the file, and all of its bytes are returned.
ValueIsFound ==
  Returned /\ call = "value" =>
    result = IF config \in Values(configs) THEN WithValue(configs, config)[1] ELSE NOT_FOUND

\* The active configuration is one that was active during the call, and whole unless it
\* was changed meanwhile; none is returned only when there was none, and an error only
\* when it was changed or its value has three digits.  Without the file of sysfs that holds
\* only for what this program has set.  The value alone is right in any case.
ActiveIsFound ==
  /\ Returned /\ call = "active" /\ (sysfs_has_descriptors \/ told) =>
       IF result = NOT_FOUND THEN 0 \in during
       ELSE IF result = IO THEN Cardinality(during) > 1 \/ \E v \in during : TooLong(v)
       ELSE /\ result.value \in during
            /\ during = {result.value} => result \in ToSet(configs)
  /\ Returned /\ call = "configuration" =>
       \/ result \in during
       \/ result = IO /\ sysfs # "none" /\ \E v \in during : TooLong(v)
=============================================================================
