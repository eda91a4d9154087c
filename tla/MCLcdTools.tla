---------------------------- MODULE MCLcdTools ----------------------------
EXTENDS LcdTools

\* "Hi", "A\nB" and "O".
MCStrings == {<<72, 105>>, <<65, NL, 66>>, <<79>>}
=============================================================================
