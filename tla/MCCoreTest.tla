----------------------------- MODULE MCCoreTest -----------------------------
EXTENDS CoreTest

CONSTANTS m1, m2

\* A module on each of two AUCs.
OneEach == [m \in {m1, m2} |-> IF m = m2 THEN 1 ELSE 0]
=============================================================================
