----------------------------- MODULE MCIdentity -----------------------------
\* Identity for TLC.  Entries, names and UUIDs are model values; names are
\* interchangeable.
EXTENDS Identity, TLC

CONSTANTS e1, u1, u2

\* Both entries may be for the window u1.  For e1 it always reports its UUID;
\* for any other entry it may not, and a second window shares the name.
Mixed == [e \in Entries |-> IF e = e1 THEN {u1} ELSE {u1, u2, None}]

\* Every window keeps its identity to itself at times.
Shy == [e \in Entries |-> {u1, None}]

Symmetry == Permutations(Names)
=============================================================================
