--------------------------- MODULE MCMbootUpgrade ---------------------------
\* Values for the constants of MbootUpgrade that a .cfg cannot write down.
EXTENDS MbootUpgrade, TLC

CONSTANTS m1, m2

AucOnly   == <<"auc">>
AucAndRpi == <<"auc", "rpi">>

AllOnAuc == [m \in Modules |-> "auc"]
OneOnEach == [m \in Modules |-> IF m = m1 THEN "auc" ELSE "rpi"]

Symm == Permutations(Modules)
=============================================================================
