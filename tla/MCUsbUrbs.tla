------------------------------ MODULE MCUsbUrbs ------------------------------
\* Instances of UsbUrbs: what the kernel can do, and what goes wrong.
EXTENDS UsbUrbs

MCSetup(type, lengths, caps, faults, refused, gone) ==
  [type |-> type, lengths |-> lengths, caps |-> caps,
   faults |-> faults, refused |-> refused, gone |-> gone]

\* A split without continuation: nothing ends it before its last URB but a short
\* read or a fault that is not a stall, see Stalled.
MCWhole   == MCSetup("bulk", <<5>>, {"scatter_gather"}, {"stall", "proto", "overflow"}, TRUE, TRUE)
MCChained == MCSetup("bulk", <<7>>, {"continuation"}, {"stall", "proto", "overflow"}, TRUE, TRUE)
MCPlain   == MCSetup("bulk", <<7>>, {}, {"proto", "overflow"}, TRUE, FALSE)
MCControl == MCSetup("control", <<2>>, {}, {"stall", "proto", "overflow"}, TRUE, TRUE)
MCIso     == MCSetup("iso", <<1, 1, 1>>, {}, {"proto"}, TRUE, TRUE)

MCSetups == {MCWhole, MCChained, MCPlain, MCControl, MCIso}

\* The first URB of several stalls.
MCStalled == {MCSetup("bulk", <<5>>, {}, {"stall"}, FALSE, FALSE)}
=============================================================================
