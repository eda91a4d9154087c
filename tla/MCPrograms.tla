----------------------------- MODULE MCPrograms -----------------------------
EXTENDS Programs

CONSTANTS m1, m2, m3, m4, h1, h2

\* Three modules on one AUC, one on another.
TwoAucs == [m \in {m1, m2, m3, m4} |-> IF m = m4 THEN 1 ELSE 0]

\* "Hi", "A\nB" (256 is NL of LcdTools) and "O".
MCStrings == {<<72, 105>>, <<65, 256, 66>>, <<79>>}

\* An interface, which the second configuration has not, and one of no configuration.
UsbInterfaces == <<{0}, {}>>
=============================================================================
