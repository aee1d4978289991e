----------------------------- MODULE MCSession -----------------------------
\* Session for TLC.  The entry is the window home's; stranger has its name.
EXTENDS Session

CONSTANTS home, stranger

\* The entry's own window may keep its identity to itself; no other does.
OnlyHomeIsShy ==
    [w \in Windows |-> IF w = home THEN {"own", "empty", "garbled"} ELSE {"own"}]
=============================================================================
