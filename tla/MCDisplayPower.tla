--------------------------- MODULE MCDisplayPower ---------------------------
\* DisplayPower for TLC: callers are model values, interchangeable in the runs
\* that check no liveness.
EXTENDS DisplayPower, TLC

Symmetry == Permutations(Callers)
=============================================================================
