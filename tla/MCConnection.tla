---------------------------- MODULE MCConnection ----------------------------
\* Connection for TLC: tasks are model values, interchangeable in the runs that
\* check no liveness.  (Links are not: Dialled chooses among them.)
EXTENDS Connection, TLC

Symmetry == Permutations(Tasks)
=============================================================================
