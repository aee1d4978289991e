---------------------------- MODULE MCWriteTest ----------------------------
(* Two settings, of which each is tested once, or one twice; and what the  *)
(* pure parts of the tool compute, over all small inputs.                  *)
EXTENDS WriteTest, Scan
CONSTANTS k1, k2

MCPlans == {<<[key |-> k1, value |-> 2], [key |-> k2, value |-> 1]>>,
            <<[key |-> k1, value |-> 1], [key |-> k1, value |-> 2]>>}
MCStarts == {[k \in Keys |-> 0]}

-----------------------------------------------------------------------------
\* Two plain characters and two of two bytes, cut into three payloads: what
\* lies between two cuts is a value of its own, but for cuts in a character,
\* which cut nothing; and a malformed payload leaves nothing behind.
Text == <<<<"c">>, <<"lead">>, <<"tail">>, <<"lead">>, <<"tail">>, <<"d">>>>
Piece(i, j) == SubSeq(Text, i + 1, j)
Inside(i) == i > 0 /\ Text[i][1] = "lead"

TextReference == \A i, j \in DOMAIN Text : i <= j =>
    LET one   == TextFeed(Empty, Piece(0, i))
        two   == TextFeed(one.stream, Piece(i, j))
        three == TextFeed(two.stream, Piece(j, Len(Text)))
        Start(at, before) == IF Inside(at) THEN before ELSE at
    IN  /\ one.out = IF Inside(i) THEN Nothing ELSE <<Decoded(Piece(0, i))>>
        /\ two.out = IF Inside(j) THEN Nothing ELSE <<Decoded(Piece(Start(i, 0), j))>>
        /\ three.out = <<Decoded(Piece(Start(j, Start(i, 0)), Len(Text)))>>
        /\ TextFeed(one.stream, <<<<"bad">>>>).stream = Empty

-----------------------------------------------------------------------------
Detections == [address : {1, 2}, name : {Nameless, 1}, uuids : {{}, {Service}}, rssi : {0}]
Heard == UNION {[1..l -> Detections] : l \in 0..4}

\* Whatever order it is heard in, a window is found if its service is heard,
\* and then has a name if one was heard since: one heard before is not kept.
ScanReference == \A h \in Heard :
    LET seen == Discovered(h, FALSE)
        Of(a) == {i \in DOMAIN h : h[i].address = a}
        Since(a) == {i \in Of(a) : \E j \in Of(a) : j <= i /\ Matches(h[j])}
        Named(a) == {i \in Since(a) : h[i].name # Nameless}
    IN  /\ DOMAIN seen = {a \in {1, 2} : Since(a) # {}}
        /\ \A a \in DOMAIN seen :
              /\ seen[a].matched
              /\ (seen[a].name = Nameless) <=> (Named(a) = {})
        /\ \A i, j \in 1..Len(Resolved(h, {}, 0)) : i < j =>
              Before(seen, Resolved(h, {}, 0)[i], Resolved(h, {}, 0)[j])
        /\ Resolved(h, {}, 1) = SubSeq(Resolved(h, {}, 0), 1, Len(Resolved(h, {}, 1)))

ASSUME PureParts == TextReference /\ ScanReference
=============================================================================
