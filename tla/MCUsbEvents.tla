---------------------------- MODULE MCUsbEvents ----------------------------
\* Values for the constants of UsbEvents that a .cfg cannot write down.
EXTENDS UsbEvents, TLC

CONSTANTS a, b, o

ShortAndLong == (a :> 1) @@ (b :> 2)

OneForever == (a :> 1) @@ (b :> 0)

Opening ==
  [opens |-> {o}, timeout |-> OneForever, refused |-> {b}, timerfd |-> TRUE, errors |-> 0]

Failing ==
  [opens |-> {}, timeout |-> ShortAndLong, refused |-> {}, timerfd |-> TRUE, errors |-> 1]

Polling ==
  [opens |-> {}, timeout |-> ShortAndLong, refused |-> {}, timerfd |-> FALSE, errors |-> 0]

Refused == [Polling EXCEPT !.refused = {a}]

AllSetups == {Opening, Failing, Polling}

RefusedOnly == {Refused}
=============================================================================
