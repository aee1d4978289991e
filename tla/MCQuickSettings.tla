-------------------------- MODULE MCQuickSettings --------------------------
(* A window with a level whose range changes for one without its highest   *)
(* value and the wrong way round, and a window with a flag.                *)
EXTENDS QuickSettings
CONSTANTS w1, w2, c1

MCKind == [w \in Windows |-> IF w = w1 THEN "level" ELSE "flag"]
MCRanges == [w \in Windows |-> {<<0, 1>>, <<0, -1>>}]
MCTargets == {<<w1, w2>>}

Small == -3..3
Levels == {Level(<<a, b>>, v) : a, b, v \in Small}
Distance(a, b) == IF a < b THEN b - a ELSE a - b

\* Level's arithmetic: the slider's ends are the range's, its position as
\* shown moves nothing, a step goes its way until the end of the range, and
\* rounding is to the nearest, of two to the even.
LevelReference ==
    /\ \A l \in Levels : \A q \in 1..4 :
          AtFraction(l, 0, q) = l.min /\ AtFraction(l, q, q) = l.max
    /\ \A l \in Levels : InRange(l, l.value) /\ l.min < l.max =>
          AtFraction(l, Fraction(l)[1], Fraction(l)[2]) = l.value
    /\ \A l \in Levels : l.value \in Low(l)..High(l) =>
          /\ Stepped(l, 1) = IF l.value = High(l) THEN l.value ELSE l.value + 1
          /\ Stepped(l, -1) = IF l.value = Low(l) THEN l.value ELSE l.value - 1
    /\ \A p \in -12..12, q \in 1..6 : \A n \in -13..13 :
          LET r == Rounded(p, q)
          IN  /\ Distance(p, q * r) <= Distance(p, q * n)
              /\ n # r /\ Distance(p, q * r) = Distance(p, q * n) => r % 2 = 0

ASSUME LevelArithmetic == LevelReference
=============================================================================
