-------------------------------- MODULE Scan -------------------------------
(***************************************************************************)
(* Finding windows: tools/atmoph_diag.py merges what it hears of each      *)
(* address while it scans, and chooses the windows to dump from that.      *)
(*                                                                         *)
(* A window is heard with its service in one packet and with its name in   *)
(* another, in any order.  Names are numbers, in the order they sort in.   *)
(***************************************************************************)
EXTENDS Integers, Sequences, FiniteSets, SequencesExt

CONSTANT Service  \* SERVICE_UUID

Nameless == 0

Matches(d) == Service \in d.uuids

\* The first that is kept of an address, and what a later one makes of it.
Target(d) == [name |-> d.name, rssi |-> d.rssi, uuids |-> d.uuids, matched |-> Matches(d)]
Updated(t, d) ==
    [name    |-> IF d.name = Nameless THEN t.name ELSE d.name,
     rssi    |-> d.rssi,
     uuids   |-> t.uuids \cup d.uuids,
     matched |-> t.matched \/ Matches(d)]

\* detected: seen is a function of the addresses kept.
Detected(seen, d, unfiltered) ==
    IF d.address \in DOMAIN seen THEN [seen EXCEPT ![d.address] = Updated(@, d)]
    ELSE IF Matches(d) \/ unfiltered
    THEN [a \in DOMAIN seen \cup {d.address} |->
             IF a = d.address THEN Target(d) ELSE seen[a]]
    ELSE seen

Discovered(heard, unfiltered) ==
    FoldLeft(LAMBDA seen, d : Detected(seen, d, unfiltered), <<>>, heard)

\* By name, then address; the nameless come last.
Before(seen, a, b) ==
    LET m == seen[a].name  n == seen[b].name
    IN  \/ m # Nameless /\ (n = Nameless \/ m < n)
        \/ m = n /\ a < b

\* _resolve_targets: the windows of these names, all if there are none; not
\* more than so many, unless that is zero.
Resolved(heard, names, most) ==
    LET seen == Discovered(heard, FALSE)
        chosen == {a \in DOMAIN seen : seen[a].matched /\ (names = {} \/ seen[a].name \in names)}
        sorted == SetToSortSeq(chosen, LAMBDA a, b : Before(seen, a, b))
    IN  IF most > 0 /\ most < Len(sorted) THEN SubSeq(sorted, 1, most) ELSE sorted
=============================================================================
