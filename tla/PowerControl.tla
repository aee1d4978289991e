---------------------------- MODULE PowerControl ----------------------------
(***************************************************************************)
(* What setting the display power promises its callers, with nothing said  *)
(* about how: the protocol offers only a toggle, but a caller asks for a   *)
(* state.  A call switches the panel only when the panel is not already    *)
(* where the caller wants it, only towards what the caller wants, and      *)
(* ends only once the panel is there.                                      *)
(***************************************************************************)

CONSTANT Callers      \* the calls that may be in progress at the same time

VARIABLES panel,      \* TRUE iff the display is on
          asking,     \* asking[c]: c's call is in progress
          desired     \* desired[c]: the state c's latest call asked for

vars == <<panel, asking, desired>>

Init == /\ panel \in BOOLEAN
        /\ asking = [c \in Callers |-> FALSE]
        /\ desired \in [Callers -> BOOLEAN]

\* c asks for state d.
Begin(c, d) == /\ ~asking[c]
               /\ asking' = [asking EXCEPT ![c] = TRUE]
               /\ desired' = [desired EXCEPT ![c] = d]
               /\ UNCHANGED panel

\* The panel moves to what c asked for, and only from the opposite state.
Switch(c) == /\ asking[c]
             /\ panel # desired[c]
             /\ panel' = desired[c]
             /\ UNCHANGED <<asking, desired>>

\* c's call returns, which it does only over a panel in the state asked for.
End(c) == /\ asking[c]
          /\ panel = desired[c]
          /\ asking' = [asking EXCEPT ![c] = FALSE]
          /\ UNCHANGED <<panel, desired>>

Next == \E c \in Callers : \/ \E d \in BOOLEAN : Begin(c, d)
                           \/ Switch(c)
                           \/ End(c)

\* The safety part: nothing is promised to happen.
SafeSpec == Init /\ [][Next]_vars

\* A call in progress gets its panel and returns.
Fairness == \A c \in Callers : WF_vars(Switch(c)) /\ WF_vars(End(c))

Spec == SafeSpec /\ Fairness
=============================================================================
