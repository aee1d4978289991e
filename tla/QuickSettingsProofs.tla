------------------------ MODULE QuickSettingsProofs ------------------------
(***************************************************************************)
(* What QuickSettings' run shows for one level and one flag, proved for    *)
(* any windows, bounds, values, callers and service calls: published       *)
(* levels lie within published bounds, the service and the sliders write   *)
(* no window a value that its setting cannot have, and what is known once  *)
(* everything has arrived is what the window has.                          *)
(***************************************************************************)
EXTENDS QuickSettings, TLAPS

-----------------------------------------------------------------------------
(* Rounding, and the slider                                                *)

LEMMA Division ==
    ASSUME NEW q \in Nat \ {0}, NEW p \in Int
    PROVE  /\ p \div q \in Int /\ p % q \in 0..(q-1)
           /\ p = q * (p \div q) + (p % q)
OBVIOUS

LEMMA RoundedTo ==
    ASSUME NEW q \in Nat \ {0}, NEW p \in Int
    PROVE  /\ Rounded(p, q) \in {p \div q, p \div q + 1}
           /\ p % q = 0 => Rounded(p, q) = p \div q
BY Division DEF Rounded

\* The rounded quotient of a number within 0..q*d is within 0..d.
LEMMA RoundedUp ==
    ASSUME NEW q \in Nat \ {0}, NEW d \in Nat, NEW p \in 0..(q * d)
    PROVE  Rounded(p, q) \in 0..d
<1> DEFINE f == p \div q
           r == p % q
<1>1. f \in Int /\ r \in 0..(q-1) /\ p = q * f + r /\ p \in Int
  BY Division
<1>2. Rounded(p, q) \in {f, f + 1} /\ (r = 0 => Rounded(p, q) = f)
  BY <1>1, RoundedTo
<1> HIDE DEF f, r
<1>3. f >= 0
  <2>1. SUFFICES ASSUME f <= -1 PROVE FALSE
    BY <1>1
  <2>2. q * f <= q * (-1)
    BY <1>1, <2>1
  <2> QED
    BY <1>1, <2>2
<1>4. f <= d
  <2>1. SUFFICES ASSUME f >= d + 1 PROVE FALSE
    BY <1>1
  <2>2. q * f >= q * (d + 1)
    BY <1>1, <2>1
  <2> QED
    BY <1>1, <2>2
<1>5. f = d => r = 0
  BY <1>1
<1> QED
  BY <1>1, <1>2, <1>3, <1>4, <1>5

\* And on the other side of zero.
LEMMA RoundedDown ==
    ASSUME NEW q \in Nat \ {0}, NEW d \in Nat, NEW p \in (-(q * d))..0
    PROVE  Rounded(p, q) \in (-d)..0
<1> DEFINE f == p \div q
           r == p % q
<1>1. f \in Int /\ r \in 0..(q-1) /\ p = q * f + r /\ p \in Int
  BY Division
<1>2. Rounded(p, q) \in {f, f + 1} /\ (r = 0 => Rounded(p, q) = f)
  BY <1>1, RoundedTo
<1> HIDE DEF f, r
<1>3. f >= -d
  <2>1. SUFFICES ASSUME f <= -d - 1 PROVE FALSE
    BY <1>1
  <2>2. q * f <= q * (-d - 1)
    BY <1>1, <2>1
  <2> QED
    BY <1>1, <2>2
<1>4. f <= 0
  <2>1. SUFFICES ASSUME f >= 1 PROVE FALSE
    BY <1>1
  <2>2. q * f >= q * 1
    BY <1>1, <2>1
  <2> QED
    BY <1>1, <2>2
<1>5. f = 0 => r = 0
  BY <1>1
<1> QED
  BY <1>1, <1>2, <1>3, <1>4, <1>5

\* Wherever the slider is put, the value is between the bounds, whichever
\* way round they are.
LEMMA AtFractionBetween ==
    ASSUME NEW min \in Int, NEW max \in Int, NEW l, l.min = min, l.max = max,
           NEW p \in Int, NEW q \in Nat \ {0}
    PROVE  AtFraction(l, p, q) \in Low(l)..High(l)
<1> DEFINE a == Lesser(q, Greater(0, p))
<1>1. a \in 0..q
  BY DEF Lesser, Greater
<1> HIDE DEF a
<1>2. CASE min <= max
  <2>1. PICK d \in Nat : d = max - min
    BY <1>2
  <2>2. a * d \in 0..(q * d)
    BY <1>1, <2>1
  <2>3. Rounded(a * d, q) \in 0..d
    BY <2>2, RoundedUp
  <2> QED
    BY <1>2, <2>1, <2>3 DEF AtFraction, Low, High, Lesser, Greater, a
<1>3. CASE max < min
  <2>1. PICK d \in Nat : d = min - max
    BY <1>3
  <2>2. a * d \in 0..(q * d) /\ a * (max - min) = -(a * d)
    BY <1>1, <2>1
  <2>3. a * (max - min) \in (-(q * d))..0
    BY <1>1, <2>1, <2>2
  <2>4. Rounded(a * (max - min), q) \in (-d)..0
    BY <2>3, RoundedDown
  <2> QED
    BY <1>3, <2>1, <2>4 DEF AtFraction, Low, High, Lesser, Greater, a
<1> QED
  BY <1>2, <1>3

\* A step of any size ends between the bounds.
LEMMA SteppedBetween ==
    ASSUME NEW min \in Int, NEW max \in Int, NEW value \in Int, NEW l,
           l.min = min, l.max = max, l.value = value, NEW d \in Int
    PROVE  Stepped(l, d) \in Low(l)..High(l)
BY DEF Stepped, Low, High, Lesser, Greater

-----------------------------------------------------------------------------
(* What the slider and the steps do                                        *)

Apart(a, b) == IF a <= b THEN b - a ELSE a - b

LEMMA Multiples ==
    ASSUME NEW q \in Nat \ {0}, NEW f \in Int, NEW n \in Int
    PROVE  /\ q * f \in Int /\ q * n \in Int /\ q * (f + 1) = q * f + q
           /\ n < f => q * n <= q * f - q
           /\ n > f => q * n >= q * f + q
           /\ n > f + 1 => q * n >= q * f + q + q
<1>1. q * f \in Int /\ q * n \in Int /\ q * (f + 1) = q * f + q
  OBVIOUS
<1>2. ASSUME NEW k \in Int, NEW m \in Nat PROVE q * (k + m) = q * k + q * m /\ q * m >= 0
  OBVIOUS
<1>3. ASSUME n < f PROVE q * n <= q * f - q
  <2>1. PICK m \in Nat : f - 1 = n + m
    <3>1. f - 1 - n \in Nat /\ f - 1 = n + (f - 1 - n)
      BY <1>3
    <3> QED
      BY <3>1
  <2>2. q * (f - 1) = q * f - q
    OBVIOUS
  <2> QED
    BY <1>1, <1>2, <2>1, <2>2
<1>4. ASSUME n > f PROVE q * n >= q * f + q
  <2>1. PICK m \in Nat : n = (f + 1) + m
    <3>1. n - (f + 1) \in Nat /\ n = (f + 1) + (n - (f + 1))
      BY <1>4
    <3> QED
      BY <3>1
  <2> QED
    BY <1>1, <1>2, <2>1
<1>5. ASSUME n > f + 1 PROVE q * n >= q * f + q + q
  <2>1. PICK m \in Nat : n = (f + 2) + m
    <3>1. n - (f + 2) \in Nat /\ n = (f + 2) + (n - (f + 2))
      BY <1>5
    <3> QED
      BY <3>1
  <2>2. q * (f + 2) = q * f + q + q
    OBVIOUS
  <2> QED
    BY <1>1, <1>2, <2>1, <2>2
<1> QED
  BY <1>1, <1>3, <1>4, <1>5

\* No integer is nearer to p/q than Rounded, and one that is as near means that
\* Rounded is the even one.
LEMMA RoundedNearest ==
    ASSUME NEW q \in Nat \ {0}, NEW p \in Int, NEW n \in Int
    PROVE  /\ Rounded(p, q) \in Int
           /\ Apart(p, q * Rounded(p, q)) <= Apart(p, q * n)
           /\ n # Rounded(p, q) /\ Apart(p, q * Rounded(p, q)) = Apart(p, q * n)
                  => Rounded(p, q) % 2 = 0
<1>1. PICK f, r : f = p \div q /\ r = p % q
  OBVIOUS
<1>2. f \in Int /\ r \in 0..(q-1) /\ p = q * f + r
  BY <1>1, Division
<1>3. PICK a, b : a = q * f /\ b = q * n
  OBVIOUS
<1>4. /\ a \in Int /\ b \in Int /\ q * (f + 1) = a + q /\ p = a + r
      /\ n < f => b <= a - q
      /\ n = f => b = a
      /\ n = f + 1 => b = a + q
      /\ n > f + 1 => b >= a + q + q
  BY <1>2, <1>3, Multiples
<1>5. CASE 2 * r < q \/ (2 * r = q /\ f % 2 = 0)
  <2>1. Rounded(p, q) = f
    BY <1>1, <1>5 DEF Rounded
  <2>2. Apart(p, q * f) = r
    BY <1>2, <1>3, <1>4 DEF Apart
  <2>3. /\ Apart(p, b) >= r
        /\ n # f /\ Apart(p, b) = r => 2 * r = q
    BY <1>2, <1>4, <1>5 DEF Apart
  <2> QED
    BY <1>2, <1>3, <1>5, <2>1, <2>2, <2>3
<1>6. CASE ~(2 * r < q \/ (2 * r = q /\ f % 2 = 0))
  <2>1. Rounded(p, q) = f + 1
    BY <1>1, <1>6 DEF Rounded
  <2>2. Apart(p, q * (f + 1)) = q - r
    BY <1>2, <1>3, <1>4 DEF Apart
  <2>3. /\ Apart(p, b) >= q - r
        /\ n # f + 1 /\ Apart(p, b) = q - r => 2 * r = q
    BY <1>2, <1>4, <1>6 DEF Apart
  <2>4. 2 * r = q => (f + 1) % 2 = 0
    BY <1>2, <1>6
  <2> QED
    BY <1>2, <1>3, <2>1, <2>2, <2>3, <2>4
<1> QED
  BY <1>5, <1>6

LEMMA RoundedWhole ==
    ASSUME NEW q \in Nat \ {0}, NEW n \in Int
    PROVE  Rounded(q * n, q) = n
<1>1. PICK p \in Int : p = q * n
  OBVIOUS
<1>2. PICK r \in Int : r = Rounded(p, q)
  BY RoundedNearest
<1>3. Apart(p, q * r) <= Apart(p, q * n)
  BY <1>2, RoundedNearest
<1>4. q * r = p
  BY <1>1, <1>3 DEF Apart
<1>5. r = n
  <2>1. r < n => q * r <= q * n - q
    BY Multiples
  <2>2. r > n => q * r >= q * n + q
    BY Multiples
  <2> QED
    BY <1>1, <1>4, <2>1, <2>2
<1> QED
  BY <1>1, <1>2, <1>5

\* The ends of the slider, and what is beyond them, are the ends of the range,
\* whichever way round it is; and the position at which a level is shown is the
\* level (protocol.py:98, at_fraction, "must reach the ends of the range exactly").
THEOREM SliderExact ==
    ASSUME NEW min \in Int, NEW max \in Int, NEW value \in Int, NEW l,
           l.min = min, l.max = max, l.value = value, NEW p \in Int, NEW q \in Nat \ {0}
    PROVE  /\ p <= 0 => AtFraction(l, p, q) = l.min
           /\ p >= q => AtFraction(l, p, q) = l.max
           /\ InRange(l, l.value) /\ l.min < l.max =>
                  AtFraction(l, Fraction(l)[1], Fraction(l)[2]) = l.value
<1>1. ASSUME p <= 0 PROVE AtFraction(l, p, q) = l.min
  <2>1. Lesser(q, Greater(0, p)) = 0
    BY <1>1 DEF Lesser, Greater
  <2>2. 0 * (max - min) = 0 /\ q * 0 = 0
    OBVIOUS
  <2>3. PICK o \in Int : o = 0
    OBVIOUS
  <2>4. Rounded(q * o, q) = o
    BY RoundedWhole
  <2> QED
    BY <2>1, <2>2, <2>3, <2>4 DEF AtFraction
<1>2. ASSUME p >= q PROVE AtFraction(l, p, q) = l.max
  <2>1. Lesser(q, Greater(0, p)) = q
    BY <1>2 DEF Lesser, Greater
  <2>2. PICK d \in Int : d = max - min
    OBVIOUS
  <2>3. Rounded(q * d, q) = d
    BY RoundedWhole
  <2> QED
    BY <2>1, <2>2, <2>3 DEF AtFraction
<1>3. ASSUME InRange(l, l.value), l.min < l.max
      PROVE  AtFraction(l, Fraction(l)[1], Fraction(l)[2]) = l.value
  <2>1. PICK d, v : d \in Nat \ {0} /\ v \in 0..d /\ d = max - min /\ v = value - min
    <3>1. max - min \in Nat \ {0} /\ value - min \in 0..(max - min)
      BY <1>3 DEF InRange
    <3> QED
      BY <3>1
  <2>2. Fraction(l)[1] = v /\ Fraction(l)[2] = d
    BY <1>3, <2>1 DEF Fraction
  <2>3. Lesser(d, Greater(0, v)) = v
    BY <2>1 DEF Lesser, Greater
  <2>4. Rounded(v * d, d) = v
    <3>1. v * d = d * v
      BY <2>1
    <3> QED
      BY <2>1, <3>1, RoundedWhole
  <2> QED
    BY <2>1, <2>2, <2>3, <2>4 DEF AtFraction
<1> QED
  BY <1>1, <1>2, <1>3

\* Between the ends the slider gives the value nearest its position, of two
\* the one an even number of steps from the minimum, whichever way round the
\* range is (protocol.py:98, at_fraction).
THEOREM SliderNearest ==
    ASSUME NEW min \in Int, NEW max \in Int, NEW l, l.min = min, l.max = max,
           NEW q \in Nat \ {0}, NEW p \in 0..q, NEW n \in Int
    PROVE  LET value == AtFraction(l, p, q)
               there == p * (l.max - l.min)
           IN  /\ Apart(there, q * (value - l.min)) <= Apart(there, q * (n - l.min))
               /\ n # value /\ Apart(there, q * (value - l.min)) = Apart(there, q * (n - l.min))
                      => (value - l.min) % 2 = 0
<1>1. Lesser(q, Greater(0, p)) = p
  BY DEF Lesser, Greater
<1>2. PICK there \in Int, k \in Int : there = p * (max - min) /\ k = n - min
  OBVIOUS
<1>3. PICK r \in Int : r = Rounded(there, q)
  BY <1>2, RoundedNearest
<1>4. AtFraction(l, p, q) - l.min = r /\ (n # AtFraction(l, p, q) <=> k # r)
  BY <1>1, <1>2, <1>3 DEF AtFraction
<1>5. /\ Apart(there, q * r) <= Apart(there, q * k)
      /\ k # r /\ Apart(there, q * r) = Apart(there, q * k) => r % 2 = 0
  BY <1>3, RoundedNearest
<1> QED
  BY <1>2, <1>4, <1>5

\* A step of one moves a level by one the way it was asked, until the range
\* ends there, whichever way round its bounds are (protocol.py:109, stepped).
LEMMA StepMoves ==
    ASSUME NEW min \in Int, NEW max \in Int, NEW value \in Int, NEW l,
           l.min = min, l.max = max, l.value = value, l.value \in Low(l)..High(l)
    PROVE  /\ Stepped(l, 1) = IF l.value = High(l) THEN l.value ELSE l.value + 1
           /\ Stepped(l, -1) = IF l.value = Low(l) THEN l.value ELSE l.value - 1
BY DEF Stepped, Low, High, Lesser, Greater

-----------------------------------------------------------------------------
(* What a window may have                                                  *)

LEMMA HasTyped ==
    ASSUME NEW w \in Windows, NEW s \in Has(w)
    PROVE  /\ s \in Reports /\ s.kind = Kind[w] /\ Kind[w] \in {"flag", "level"}
           /\ s.kind = "flag" => s.value \in {0, 1}
           /\ s.kind = "level" => s.value \in Low(s)..High(s)
<1>1. Kind[w] \in {"flag", "level"}
  BY QuickSettingsAssumption
<1>2. CASE Kind[w] = "flag"
  BY <1>2 DEF Has, Flag, Report, Reports
<1>3. CASE Kind[w] = "level"
  <2>1. PICK r \in Ranges[w] : \E v \in Lesser(r[1], r[2])..Greater(r[1], r[2]) : s = Level(r, v)
    BY <1>3 DEF Has
  <2>2. r[1] \in Int /\ r[2] \in Int
    BY QuickSettingsAssumption
  <2>3. PICK v \in Lesser(r[1], r[2])..Greater(r[1], r[2]) : s = Level(r, v)
    BY <2>1
  <2>4. v \in Int
    BY <2>2, <2>3 DEF Lesser, Greater
  <2> QED
    BY <1>3, <2>2, <2>3, <2>4 DEF Level, Report, Reports, Low, High
<1> QED
  BY <1>1, <1>2, <1>3

\* A level may have any value between its bounds.
LEMMA HasBetween ==
    ASSUME NEW w \in Windows, NEW s \in Has(w), s.kind = "level", NEW n \in Low(s)..High(s)
    PROVE  [s EXCEPT !.value = n] \in Has(w)
<1>1. Kind[w] = "level"
  BY HasTyped
<1>2. PICK r \in Ranges[w] : \E v \in Lesser(r[1], r[2])..Greater(r[1], r[2]) : s = Level(r, v)
  BY <1>1 DEF Has
<1>3. PICK v \in Lesser(r[1], r[2])..Greater(r[1], r[2]) : s = Level(r, v)
  BY <1>2
<1>4. [s EXCEPT !.value = n] = Level(r, n) /\ n \in Lesser(r[1], r[2])..Greater(r[1], r[2])
  BY <1>3 DEF Level, Report, Low, High
<1> QED
  BY <1>1, <1>4 DEF Has

\* A value that window w's setting has.
Fits(w, out) == out.kind = Kind[w] /\ \E s \in Has(w) : out.value = s.value

\* A switch's position.
Position(out) == out.kind = "flag" /\ out.value \in {0, 1}

\* What window w may be written: a switch's flag besides what fits, and the
\* service's flag where a switch's was recorded for a report, g.
Allowed(w, from, out, g) ==
    \/ Fits(w, out)
    \/ Position(out) /\ Kind[w] = "level" /\ from = "switch"
    \/ Position(out) /\ Kind[w] = "level" /\ from = "service" /\ g

\* A level's bounds, as window w reports them.
Bounded(w, k) == \E s \in Has(w) : s.kind = "level" /\ s.min = k.min /\ s.max = k.max

\* What may be known of it: what it may have, or for a level what was written
\* in the place of one: a bare integer, a flag within its bounds, or, where a
\* switch's was recorded for a report, a flag.
Sound(w, k, g) ==
    /\ k \in Reports
    /\ \/ k \in Has(w) \cup {Absent}
       \/ k.kind = "bare" /\ Kind[w] = "level"
       \/ k.kind = "mixed" /\ Kind[w] = "level" /\ Bounded(w, k)
       \/ k.kind = "flag" /\ Kind[w] = "level" /\ g

LEMMA LevelFits ==
    ASSUME NEW w \in Windows, NEW s \in Has(w), s.kind = "level", NEW n \in Low(s)..High(s)
    PROVE  Fits(w, [kind |-> "level", value |-> n])
<1>1. [s EXCEPT !.value = n].value = n
  BY HasTyped DEF Reports
<1> QED
  BY <1>1, HasBetween, HasTyped DEF Fits

LEMMA FlagFits ==
    ASSUME NEW w \in Windows, Kind[w] = "flag", NEW b \in {0, 1}
    PROVE  Fits(w, [kind |-> "flag", value |-> b])
<1>1. Flag(b) \in Has(w) /\ Flag(b).value = b
  BY DEF Has, Flag, Report
<1> QED
  BY <1>1 DEF Fits

\* What is known as a level is one the window may have.
LEMMA SoundHas ==
    ASSUME NEW w \in Windows, NEW g, NEW k, Sound(w, k, g), k.kind = "level"
    PROVE  k \in Has(w)
BY DEF Sound, Absent, Report

\* What is known with bounds has bounds that the window may report.
LEMMA SoundBounded ==
    ASSUME NEW w \in Windows, NEW g, NEW k, Sound(w, k, g), IsLevel(k)
    PROVE  Bounded(w, k) /\ Kind[w] = "level" /\ k \in Reports
<1>1. CASE k.kind = "level"
  BY <1>1, SoundHas, HasTyped DEF Bounded, Sound
<1>2. CASE k.kind = "mixed"
  <2>1. k \notin Has(w) \cup {Absent}
    BY <1>2, HasTyped DEF Absent, Report
  <2> QED
    BY <1>2, <2>1 DEF Sound
<1> QED
  BY <1>1, <1>2 DEF IsLevel

LEMMA SoundRises ==
    ASSUME NEW w \in Windows, NEW g, NEW h, NEW k, Sound(w, k, g), g => h
    PROVE  Sound(w, k, h)
BY DEF Sound

\* A value between such bounds fits.
LEMMA BoundedFits ==
    ASSUME NEW w \in Windows, NEW k \in Reports, Bounded(w, k), NEW n \in Low(k)..High(k)
    PROVE  Fits(w, [kind |-> "level", value |-> n])
<1>1. PICK s \in Has(w) : s.kind = "level" /\ s.min = k.min /\ s.max = k.max
  BY DEF Bounded
<1>2. n \in Low(s)..High(s)
  BY <1>1 DEF Low, High
<1> QED
  BY <1>1, <1>2, LevelFits

LEMMA AllowedPosition ==
    ASSUME NEW w \in Windows, NEW from, NEW g, NEW out \in Writes, Allowed(w, from, out, g),
           out.kind = "flag"
    PROVE  out.value \in {0, 1}
BY HasTyped DEF Allowed, Fits, Position

LEMMA AllowedLevel ==
    ASSUME NEW w \in Windows, NEW from, NEW g, NEW out, Allowed(w, from, out, g),
           out.kind # "flag"
    PROVE  Fits(w, out) /\ Kind[w] = out.kind
BY DEF Allowed, Fits, Position

\* Clamping, either way round.
LEMMA ClampBetween ==
    ASSUME NEW s \in Reports, NEW n \in Int
    PROVE  /\ Lesser(s.max, Greater(s.min, n)) \in Low(s)..High(s)
           /\ Lesser(High(s), Greater(Low(s), n)) \in Low(s)..High(s)
BY DEF Reports, Low, High, Lesser, Greater

\* What a write leaves known of a window is sound: h says whether a switch's
\* flag is recorded for a report now.
LEMMA RecordedSound ==
    ASSUME NEW w \in Windows, NEW g, NEW h, NEW k, Sound(w, k, g),
           NEW out \in Writes, NEW from, Allowed(w, from, out, g), g => h,
           Kind[w] = "level" /\ from = "switch" /\ ~IsLevel(k) => h
    PROVE  Sound(w, Recorded(k, out), h)
<1>1. k \in Reports /\ out.value \in Int /\ out.kind \in {"flag", "level"}
  BY DEF Sound, Writes
<1>2. CASE IsLevel(k) /\ out.kind = "flag"
  <2>1. PICK m \in Reports : m = [k EXCEPT !.kind = "mixed", !.value = out.value]
    BY <1>1 DEF Reports
  <2>2. m.kind = "mixed" /\ m.min = k.min /\ m.max = k.max
    BY <1>1, <2>1 DEF Reports
  <2>3. Bounded(w, m) /\ Kind[w] = "level"
    BY <1>2, <2>2, SoundBounded DEF Bounded
  <2>4. Recorded(k, out) = m
    BY <1>2, <2>1 DEF Recorded
  <2> QED
    BY <2>2, <2>3, <2>4 DEF Sound
<1>3. CASE IsLevel(k) /\ out.kind # "flag"
  <2>1. PICK s \in Has(w) : s.kind = "level" /\ s.min = k.min /\ s.max = k.max
    BY <1>3, SoundBounded DEF Bounded
  <2>2. PICK n \in Low(s)..High(s) : n = Lesser(s.max, Greater(s.min, out.value))
    BY <1>1, <2>1, HasTyped, ClampBetween
  <2>3. [s EXCEPT !.value = n] \in Has(w) /\ s \in Reports
    BY <2>1, HasBetween, HasTyped
  <2>4. Recorded(k, out) = [s EXCEPT !.value = n]
    BY <1>1, <1>3, <2>1, <2>2, <2>3 DEF Recorded, Reports
  <2> QED
    BY <2>3, <2>4, HasTyped DEF Sound
<1>4. CASE ~IsLevel(k) /\ out.kind = "flag"
  <2>1. Recorded(k, out) = Flag(out.value) /\ out.value \in {0, 1}
    BY <1>4, AllowedPosition DEF Recorded
  <2>2. Flag(out.value) \in Reports /\ Flag(out.value).kind = "flag"
    BY <1>1 DEF Flag, Report, Reports
  <2>3. CASE Kind[w] = "flag"
    <3>1. Flag(out.value) \in Has(w)
      BY <2>1, <2>3 DEF Has
    <3> QED
      BY <2>1, <2>2, <3>1 DEF Sound
  <2>4. CASE Kind[w] = "level"
    <3>1. ~Fits(w, out)
      BY <1>4, <2>4 DEF Fits
    <3>2. h
      BY <1>4, <2>4, <3>1 DEF Allowed
    <3> QED
      BY <2>1, <2>2, <2>4, <3>2 DEF Sound
  <2> QED
    BY <2>3, <2>4, QuickSettingsAssumption
<1>5. CASE ~IsLevel(k) /\ out.kind # "flag"
  <2>1. Recorded(k, out) = Bare(out.value) /\ Kind[w] = "level"
    BY <1>1, <1>5, AllowedLevel DEF Recorded
  <2> QED
    BY <1>1, <2>1 DEF Sound, Bare, Report, Reports
<1> QED
  BY <1>2, <1>3, <1>4, <1>5

LEMMA TakenHas ==
    ASSUME NEW w \in Windows, NEW s \in Has(w) \cup {Absent}, NEW out \in Writes,
           NEW from, NEW g, Allowed(w, from, out, g)
    PROVE  Taken(s, out) \in Has(w) \cup {Absent}
<1>1. CASE s.kind # out.kind
  BY <1>1 DEF Taken
<1>2. CASE s.kind = out.kind /\ s.kind = "flag"
  <2>1. s \in Has(w)
    BY <1>2 DEF Absent, Report
  <2>2. Kind[w] = "flag" /\ out.value \in {0, 1}
    BY <1>2, <2>1, HasTyped, AllowedPosition
  <2> QED
    BY <1>2, <2>2 DEF Taken, Has
<1>3. CASE s.kind = out.kind /\ s.kind = "level"
  <2>1. s \in Has(w)
    BY <1>3 DEF Absent, Report
  <2> QED
    BY <1>3, <2>1, HasTyped, HasBetween, ClampBetween DEF Taken, Writes
<1> QED
  BY <1>1, <1>2, <1>3 DEF Writes

-----------------------------------------------------------------------------
(* The invariant                                                           *)

\* What windows have, announce and are known for.
Data ==
    /\ shown \in [Windows -> Reports] /\ air \in [Windows -> Seq(Reports)]
    /\ known \in [Windows -> Reports]
    /\ \A w \in Windows : /\ shown[w] \in Has(w) \cup {Absent}
                          /\ air[w] \in Seq(Has(w) \cup {Absent})
                          /\ Sound(w, known[w], guessed[w])
    /\ faults \in 0..MaxFaults
    /\ overtaken \in [Windows -> BOOLEAN] /\ guessed \in [Windows -> BOOLEAN]

\* A call between two requests.  Only the service looks and goes on.
Tasks == [at : {"idle", "look", "write", "busy"}, from : {"service", "switch", "slider"},
          todo : Seq(Windows), asked : Int, out : Writes]
Ready(r, g) ==
    /\ r \in Tasks
    /\ (r.at = "idle") <=> (r.todo = <<>>)
    /\ r.from = "service" \/ (r.at # "look" /\ Len(r.todo) = 1)
    /\ r.at = "write" => Allowed(Head(r.todo), r.from, r.out, g[Head(r.todo)])

\* The lock's holder: a caller is busy with the window it goes to next.
Holders == [by : Callers \cup {Poll, Nobody}, what : {"idle", "read", "write"}, doc : Reports]
Holding(w, o) ==
    /\ o \in Holders
    /\ o.doc \in Has(w) \cup {Absent}
    /\ (o.what = "idle") <=> (o.by = Nobody)
    /\ o.what = "write" =>
           o.by \in Callers /\ Allowed(w, call[o.by].from, call[o.by].out, guessed[w])
    /\ o.what = "read" /\ o.by \in Callers => call[o.by].from = "service"
    /\ o.by \in Callers => call[o.by].at = "busy" /\ Head(call[o.by].todo) = w

Inv ==
    /\ Data
    /\ call \in [Callers -> Tasks] /\ \A c \in Callers : Ready(call[c], guessed)
    /\ op \in [Windows -> Holders] /\ \A w \in Windows : Holding(w, op[w])

LEMMA InvTyped == Inv => TypeOK
BY DEF Inv, TypeOK, Data, Holding, Holders, Ready, Tasks

LEMMA InvBounds == Inv => InBounds
<1> SUFFICES ASSUME Inv, NEW w \in Windows, known[w].kind = "level"
             PROVE  Low(known[w]) <= known[w].value /\ known[w].value <= High(known[w])
  BY DEF InBounds
<1>1. known[w] \in Has(w) /\ known[w] \in Reports
  BY SoundHas DEF Inv, Data
<1> QED
  BY <1>1, HasTyped DEF Reports, Low, High, Lesser, Greater

LEMMA InvWrites == Inv => TypedWrites
BY DEF Inv, Holding, TypedWrites, Allowed, Fits, Position

LEMMA AbsentReport == Absent \in Reports /\ Absent.kind = "absent"
BY DEF Absent, Report, Reports

LEMMA NoCallReady == NoCall \in Tasks /\ NoCall.at = "idle" /\ \A g : Ready(NoCall, g)
BY DEF Ready, NoCall, NoWrite, Tasks, Writes

LEMMA IdleHolding == \A w \in Windows : Holding(w, Idle)
BY QuickSettingsAssumption, AbsentReport DEF Holding, Idle, Holders

LEMMA InitInv == Init => Inv
<1> SUFFICES ASSUME Init PROVE Inv
  OBVIOUS
<1>1. \A w \in Windows : shown[w] \in Reports /\ Sound(w, shown[w], guessed[w])
  BY HasTyped, AbsentReport DEF Init, Sound
<1>2. shown \in [Windows -> Reports] /\ known \in [Windows -> Reports]
  BY <1>1 DEF Init
<1>3. Data
  <2>1. ASSUME NEW w \in Windows
        PROVE  /\ known[w] = shown[w] /\ shown[w] \in Has(w) \cup {Absent}
               /\ air[w] \in Seq(Has(w) \cup {Absent})
    BY DEF Init
  <2>2. air \in [Windows -> Seq(Reports)]
    BY DEF Init
  <2>3. overtaken \in [Windows -> BOOLEAN] /\ guessed \in [Windows -> BOOLEAN]
    BY Zenon DEF Init
  <2>4. faults \in 0..MaxFaults
    BY QuickSettingsAssumption DEF Init
  <2> QED
    BY <1>1, <1>2, <2>1, <2>2, <2>3, <2>4 DEF Data
<1>4. call \in [Callers -> Tasks] /\ \A c \in Callers : Ready(call[c], guessed)
  <2>1. \A c \in Callers : call[c] = NoCall
    BY DEF Init
  <2> QED
    BY <2>1, NoCallReady DEF Init
<1>5. op \in [Windows -> Holders] /\ \A w \in Windows : Holding(w, op[w])
  BY IdleHolding DEF Init, Holding
<1> QED
  BY <1>3, <1>4, <1>5 DEF Inv

-----------------------------------------------------------------------------
(* What steps have in common                                               *)

LEMMA FaultTyped ==
    ASSUME Inv, Fault \/ UNCHANGED faults
    PROVE  faults' \in 0..MaxFaults
BY QuickSettingsAssumption DEF Inv, Data, Fault

\* What was recorded for a report once stays so.
Rising == guessed' \in [Windows -> BOOLEAN] /\ \A w \in Windows : guessed[w] => guessed'[w]

LEMMA Unrisen == Inv /\ UNCHANGED guessed => Rising
BY DEF Inv, Data, Rising

LEMMA ReadyRises ==
    ASSUME Rising, NEW r, Ready(r, guessed)
    PROVE  Ready(r, guessed')
<1>1. r.at = "write" => Head(r.todo) \in Windows
  BY DEF Ready, Tasks
<1> QED
  BY <1>1 DEF Ready, Allowed, Rising

LEMMA CallsReady ==
    ASSUME Inv, Rising, NEW c \in Callers, NEW r, Ready(r, guessed'),
           call' = [call EXCEPT ![c] = r]
    PROVE  call' \in [Callers -> Tasks] /\ \A b \in Callers : Ready(call'[b], guessed')
<1>1. r \in Tasks
  BY DEF Ready
<1>2. \A b \in Callers : call'[b] = r \/ call'[b] = call[b]
  BY DEF Inv
<1>3. \A b \in Callers : Ready(call[b], guessed')
  BY ReadyRises DEF Inv
<1>4. ASSUME NEW b \in Callers PROVE Ready(call'[b], guessed')
  <2>1. CASE call'[b] = r
    BY <2>1
  <2>2. CASE call'[b] = call[b]
    BY <1>3, <2>2
  <2> QED
    BY <1>2, <2>1, <2>2
<1> QED
  BY <1>1, <1>4 DEF Inv

\* What holds of a lock goes on holding while its holder stays as it is.
LEMMA HoldingKept ==
    ASSUME Inv, Rising, NEW w \in Windows, UNCHANGED op[w],
           op[w].by \in Callers => call'[op[w].by] = call[op[w].by]
    PROVE  Holding(w, op[w])'
<1>1. Holding(w, op[w]) /\ (guessed[w] => guessed'[w])
  BY DEF Inv, Rising
<1>2. ASSUME op[w].what = "write"
      PROVE  Allowed(w, call'[op[w].by].from, call'[op[w].by].out, guessed'[w])
  BY <1>1, <1>2 DEF Holding, Allowed
<1> QED
  BY <1>1, <1>2 DEF Holding

\* A caller that holds no lock goes on.
LEMMA CallMoves ==
    ASSUME Inv, NEW c \in Callers, call[c].at # "busy",
           NEW r, Ready(r, guessed), call' = [call EXCEPT ![c] = r],
           Data', UNCHANGED <<op, guessed>>
    PROVE  Inv'
<1>1. Rising /\ call' \in [Callers -> Tasks] /\ \A b \in Callers : Ready(call'[b], guessed')
  BY Unrisen, CallsReady
<1>2. ASSUME NEW w \in Windows PROVE Holding(w, op[w])'
  <2>1. op[w].by # c
    BY DEF Inv, Holding
  <2>2. op[w].by \in Callers => call'[op[w].by] = call[op[w].by]
    BY <2>1 DEF Inv
  <2> QED
    BY <1>1, <2>2, HoldingKept
<1> QED
  BY <1>1, <1>2 DEF Inv

\* A free lock is taken: by the poll, or by a caller on its way to w.
LEMMA Taking ==
    ASSUME Inv, NEW w \in Windows, Free(w), Holding(w, op[w])',
           op' = [op EXCEPT ![w] = op'[w]],
           \A b \in Callers : call[b].at = "busy" => call'[b] = call[b],
           call' \in [Callers -> Tasks], \A b \in Callers : Ready(call'[b], guessed'),
           Data', UNCHANGED guessed
    PROVE  Inv'
<1>1. op' \in [Windows -> Holders]
  BY DEF Inv, Holding
<1>2. ASSUME NEW v \in Windows PROVE Holding(v, op[v])'
  <2>1. CASE v = w
    BY <2>1
  <2>2. CASE v # w
    <3>1. op'[v] = op[v]
      BY <2>2 DEF Inv
    <3>2. op[v].by \in Callers => call'[op[v].by] = call[op[v].by]
      BY DEF Inv, Holding
    <3> QED
      BY <3>1, <3>2, Unrisen, HoldingKept
  <2> QED
    BY <2>1, <2>2
<1> QED
  BY <1>1, <1>2 DEF Inv

\* The lock is released, and its holder goes on.
LEMMA Releasing ==
    ASSUME Inv, Rising, NEW w \in Windows, op' = [op EXCEPT ![w] = Idle], Data',
           \/ op[w].by \notin Callers /\ UNCHANGED call
           \/ /\ op[w].by \in Callers
              /\ \E r : Ready(r, guessed') /\ call' = [call EXCEPT ![op[w].by] = r]
    PROVE  Inv'
<1>1. op' \in [Windows -> Holders]
  BY IdleHolding DEF Inv, Holding
<1>2. call' \in [Callers -> Tasks] /\ \A b \in Callers : Ready(call'[b], guessed')
  <2>1. CASE op[w].by \in Callers
    BY <2>1, CallsReady
  <2>2. CASE op[w].by \notin Callers
    BY <2>2, ReadyRises DEF Inv
  <2> QED
    BY <2>1, <2>2
<1>3. ASSUME NEW v \in Windows PROVE Holding(v, op[v])'
  <2>1. CASE v = w
    <3>1. op'[v] = Idle
      BY <2>1 DEF Inv
    <3> QED
      BY <3>1, QuickSettingsAssumption, IdleHolding DEF Holding, Idle
  <2>2. CASE v # w
    <3>1. op'[v] = op[v]
      BY <2>2 DEF Inv
    <3>2. op[v].by \in Callers => op[v].by # op[w].by
      BY <2>2 DEF Inv, Holding
    <3>3. op[v].by \in Callers => call'[op[v].by] = call[op[v].by]
      BY <3>2 DEF Inv
    <3> QED
      BY <3>1, <3>3, HoldingKept
  <2> QED
    BY <2>1, <2>2
<1> QED
  BY <1>1, <1>2, <1>3 DEF Inv

\* What a service call has been told lets it write what its window may have,
\* or what a switch's flag makes it take it for.
LEMMA LookReady ==
    ASSUME NEW g, NEW old, Ready(old, g), old.at # "idle", old.from = "service",
           NEW k, Sound(Head(old.todo), k, g[Head(old.todo)])
    PROVE  Ready(Look(old, k), g)
<1>1. old \in Tasks /\ old.todo # <<>> /\ Head(old.todo) \in Windows /\ old.asked \in Int
  BY DEF Ready, Tasks
<1> PICK w \in Windows : w = Head(old.todo)
  BY <1>1
<1> DEFINE out == Validated(k, old.asked)
<1>2. CASE ~Accepts(k, old.asked)
  BY <1>2, NoCallReady DEF Look
<1>3. CASE Accepts(k, old.asked)
  <2>1. Allowed(w, "service", out, g[w]) /\ out \in Writes
    <3>1. CASE k.kind = "flag"
      <4>1. Position(out) /\ out \in Writes
        BY <3>1 DEF Validated, Writes, Position
      <4>2. CASE Kind[w] = "flag"
        <5>1. PICK b \in {0, 1} : out = [kind |-> "flag", value |-> b]
          BY <3>1 DEF Validated
        <5> HIDE DEF out
        <5> QED
          BY <4>1, <4>2, <5>1, FlagFits DEF Allowed
      <4>3. CASE Kind[w] = "level"
        <5>1. k \notin Has(w) \cup {Absent}
          BY <3>1, <4>3, HasTyped, AbsentReport
        <5>2. g[w]
          BY <3>1, <5>1 DEF Sound
        <5> QED
          BY <4>1, <4>3, <5>2 DEF Allowed
      <4> QED
        BY <4>1, <4>2, <4>3, QuickSettingsAssumption
    <3>2. CASE IsLevel(k) /\ InRange(k, old.asked)
      <4>1. Bounded(w, k) /\ k \in Reports
        BY <3>2, SoundBounded
      <4>2. old.asked \in Low(k)..High(k)
        BY <1>1, <3>2, <4>1 DEF InRange, Low, High, Lesser, Greater, Reports
      <4>3. out = [kind |-> "level", value |-> old.asked]
        BY <3>2 DEF Validated, IsLevel
      <4> QED
        BY <1>1, <4>1, <4>2, <4>3, BoundedFits DEF Allowed, Writes
    <3> QED
      BY <1>3, <3>1, <3>2 DEF Accepts
  <2>2. Look(old, k) = [old EXCEPT !.at = "write", !.out = out]
    BY <1>3 DEF Look
  <2> HIDE DEF out
  <2> QED
    BY <1>1, <2>1, <2>2 DEF Ready, Tasks
<1> QED
  BY <1>2, <1>3

LEMMA TailTyped ==
    ASSUME NEW S, NEW s \in Seq(S), s # <<>>
    PROVE  Tail(s) \in Seq(S)
OBVIOUS

LEMMA NotEmpty ==
    ASSUME NEW S, NEW s \in Seq(S), Len(s) # 0
    PROVE  s # <<>>
OBVIOUS

LEMMA OnwardReady ==
    ASSUME NEW g, NEW old, Ready(old, g), old.at # "idle"
    PROVE  Ready(Onward(old), g)
<1>1. old \in Tasks /\ old.todo \in Seq(Windows) /\ old.todo # <<>>
  BY DEF Ready, Tasks
<1>2. CASE Len(old.todo) = 1
  BY <1>2, NoCallReady DEF Onward
<1>3. CASE Len(old.todo) # 1
  <2>1. Tail(old.todo) \in Seq(Windows)
    BY <1>1, TailTyped
  <2>2. Len(Tail(old.todo)) = Len(old.todo) - 1 /\ Len(old.todo) \in Nat
    BY <1>1
  <2>3. Tail(old.todo) # <<>>
    <3>1. Len(Tail(old.todo)) # 0
      BY <1>3, <2>2
    <3> QED
      BY <2>1, <3>1, NotEmpty
  <2>4. Onward(old) = [old EXCEPT !.at = "look", !.todo = Tail(@)]
    BY <1>3 DEF Onward
  <2>5. /\ Onward(old) \in Tasks /\ Onward(old).at = "look"
        /\ Onward(old).todo = Tail(old.todo) /\ Onward(old).from = "service"
    BY <1>1, <1>3, <2>1, <2>4 DEF Tasks, Ready
  <2> QED
    BY <2>3, <2>5 DEF Ready
<1> QED
  BY <1>2, <1>3

\* What is known of one window changes, and air by the loss of its first.
LEMMA Learning ==
    ASSUME Inv, Rising, NEW w \in Windows, NEW k, Sound(w, k, guessed'[w]),
           known' = [known EXCEPT ![w] = k],
           \/ UNCHANGED air
           \/ air[w] # <<>> /\ air' = [air EXCEPT ![w] = Tail(@)],
           UNCHANGED shown, Fault \/ UNCHANGED faults,
           overtaken' \in [Windows -> BOOLEAN]
    PROVE  Data'
<1>1. k \in Reports
  BY DEF Sound
<1>2. known' \in [Windows -> Reports]
  BY <1>1 DEF Inv, Data
<1>3. ASSUME NEW v \in Windows PROVE Sound(v, known'[v], guessed'[v])
  BY SoundRises DEF Inv, Data, Rising
<1>4. air' \in [Windows -> Seq(Reports)]
  <2>1. air \in [Windows -> Seq(Reports)] /\ air[w] \in Seq(Reports)
    BY DEF Inv, Data
  <2>2. air[w] # <<>> => Tail(air[w]) \in Seq(Reports)
    BY <2>1, TailTyped
  <2> QED
    BY <2>1, <2>2
<1>5. ASSUME NEW v \in Windows PROVE air'[v] \in Seq(Has(v) \cup {Absent})
  <2>1. air[v] \in Seq(Has(v) \cup {Absent}) /\ DOMAIN air = Windows
    BY DEF Inv, Data
  <2>2. air[v] # <<>> => Tail(air[v]) \in Seq(Has(v) \cup {Absent})
    BY <2>1, TailTyped
  <2> QED
    BY <2>1, <2>2
<1> QED
  BY <1>2, <1>3, <1>4, <1>5, FaultTyped DEF Inv, Data, Rising

\* A window has something new, and announces it or not.
LEMMA Having ==
    ASSUME Inv, NEW w \in Windows, NEW s \in Has(w) \cup {Absent},
           shown' = [shown EXCEPT ![w] = s], Announce(w, s),
           UNCHANGED <<known, faults, overtaken, guessed>>
    PROVE  Data'
<1>1. s \in Reports
  BY HasTyped, AbsentReport
<1>2. shown' \in [Windows -> Reports] /\ \A v \in Windows : shown'[v] \in Has(v) \cup {Absent}
  BY <1>1 DEF Inv, Data
<1>3. air' \in [Windows -> Seq(Reports)]
  BY <1>1 DEF Inv, Data, Announce
<1>4. ASSUME NEW v \in Windows PROVE air'[v] \in Seq(Has(v) \cup {Absent})
  <2>1. air[v] \in Seq(Has(v) \cup {Absent}) /\ DOMAIN air = Windows
    BY DEF Inv, Data
  <2>2. CASE v = w /\ w \in Touched
    BY <2>1, <2>2 DEF Announce
  <2>3. CASE ~(v = w /\ w \in Touched)
    BY <2>1, <2>3 DEF Announce
  <2> QED
    BY <2>2, <2>3
<1> QED
  BY <1>2, <1>3, <1>4 DEF Inv, Data

LEMMA DataKept ==
    ASSUME Inv, UNCHANGED <<shown, air, known, overtaken, guessed>>, Fault \/ UNCHANGED faults
    PROVE  Data'
BY FaultTyped DEF Inv, Data

LEMMA TasksKept ==
    ASSUME Inv, Data', UNCHANGED <<call, op, guessed>>
    PROVE  Inv'
<1>1. \A w \in Windows : Holding(w, op[w])'
  BY Unrisen, HoldingKept
<1> QED
  BY <1>1 DEF Inv, Ready

-----------------------------------------------------------------------------
(* The steps                                                               *)

LEMMA StartStep ==
    ASSUME Inv, NEW c \in Callers, NEW r, Ready(r, guessed), Start(c, r)
    PROVE  Inv'
<1>1. Data'
  BY DataKept DEF Start
<1>2. call[c].at # "busy"
  BY NoCallReady DEF Start
<1> QED
  BY <1>1, <1>2, CallMoves DEF Start

LEMMA WritingReady ==
    ASSUME NEW g, NEW w \in Windows, NEW from \in {"switch", "slider"},
           NEW k, NEW n \in Int, k \in {"flag", "level"},
           Allowed(w, from, [kind |-> k, value |-> n], g[w])
    PROVE  Ready(Writing(w, from, k, n), g)
<1>1. <<w>> \in Seq(Windows) /\ <<w>> # <<>> /\ Head(<<w>>) = w /\ Len(<<w>>) = 1
  OBVIOUS
<1>2. Writing(w, from, k, n) \in Tasks
  BY <1>1 DEF Writing, Tasks, Writes
<1> QED
  BY <1>1, <1>2 DEF Writing, Ready

\* What the sliders write is what their window may have: a number within
\* bounds, a step or a fraction of what is known.  A switch writes a flag.
LEMMA EntityStep ==
    ASSUME Inv, NEW c \in Callers, NEW w \in Windows, EntityCall(c, w)
    PROVE  Inv'
<1> DEFINE l == known[w]
<1>1. Sound(w, l, guessed[w]) /\ l \in Reports
  BY DEF Inv, Data
<1>2. IsLevel(l) => Bounded(w, l)
  BY <1>1, SoundBounded
<1>3. ASSUME IsLevel(l), NEW n \in Low(l)..High(l), Start(c, Writing(w, "slider", "level", n))
      PROVE  Inv'
  <2>1. n \in Int
    BY <1>1 DEF Low, High, Lesser, Greater, Reports
  <2>2. Allowed(w, "slider", [kind |-> "level", value |-> n], guessed[w])
    BY <1>1, <1>2, <1>3, BoundedFits DEF Allowed
  <2> QED
    BY <1>3, <2>1, <2>2, WritingReady, StartStep
<1>4. ASSUME NEW v \in Asked, Number(c, w, v) PROVE Inv'
  <2>1. v \in Low(l)..High(l)
    BY <1>1, <1>4, QuickSettingsAssumption
       DEF Number, InRange, Low, High, Lesser, Greater, Reports
  <2> QED
    BY <1>3, <1>4, <2>1 DEF Number
<1>5. ASSUME NEW b \in {0, 1}, Switch(c, w, b) PROVE Inv'
  <2>1. Allowed(w, "switch", [kind |-> "flag", value |-> b], guessed[w])
    <3>1. CASE Kind[w] = "flag"
      BY <3>1, FlagFits DEF Allowed
    <3>2. CASE Kind[w] = "level"
      BY <3>2 DEF Allowed, Position
    <3> QED
      BY <3>1, <3>2, QuickSettingsAssumption
  <2> QED
    BY <1>5, <2>1, WritingReady, StartStep DEF Switch
<1>6. ASSUME NEW d \in {-1, 1}, VolumeStep(c, w, d) PROVE Inv'
  <2>1. Stepped(l, d) \in Low(l)..High(l)
    BY <1>1, SteppedBetween DEF Reports
  <2> QED
    BY <1>3, <1>6, <2>1 DEF VolumeStep, Volume
<1>7. ASSUME NEW p \in 0..Parts, VolumeSet(c, w, p) PROVE Inv'
  <2>1. p \in Int /\ Parts \in Nat \ {0}
    BY QuickSettingsAssumption
  <2>2. AtFraction(l, p, Parts) \in Low(l)..High(l)
    BY <1>1, <2>1, AtFractionBetween DEF Reports
  <2> QED
    BY <1>3, <1>7, <2>2 DEF VolumeSet, Volume
<1> QED
  BY <1>4, <1>5, <1>6, <1>7 DEF EntityCall

LEMMA ServiceStep ==
    ASSUME Inv, NEW c \in Callers, NEW t \in Targets, NEW v \in Asked, Service(c, t, v)
    PROVE  Inv'
<1> DEFINE r == [at |-> "look", from |-> "service", todo |-> t, asked |-> v, out |-> NoWrite]
<1>1. t \in Seq(Windows) \ {<<>>} /\ v \in Int
  BY QuickSettingsAssumption
<1>2. r \in Tasks /\ r.todo # <<>> /\ r.at = "look" /\ r.from = "service"
  BY <1>1 DEF Tasks, NoWrite, Writes
<1>3. Ready(r, guessed)
  BY <1>2 DEF Ready
<1> HIDE DEF r
<1> QED
  BY <1>3, StartStep DEF Service, r

LEMMA HeadTyped ==
    ASSUME NEW g, NEW r, Ready(r, g), r.at # "idle"
    PROVE  Head(r.todo) \in Windows
BY DEF Ready, Tasks

LEMMA ReadHolding ==
    ASSUME Inv, NEW w \in Windows
    PROVE  shown[w] \in Reports /\ shown[w] \in Has(w) \cup {Absent}
BY DEF Inv, Data

LEMMA PollReadsStep ==
    ASSUME Inv, NEW w \in Windows, PollReads(w)
    PROVE  Inv'
<1> DEFINE o == [by |-> Poll, what |-> "read", doc |-> shown[w]]
<1>1. Data'
  BY DataKept DEF PollReads, Read
<1>2. o \in Holders /\ Poll \notin Callers /\ Poll # Nobody
  BY ReadHolding, QuickSettingsAssumption DEF Holders
<1>3. op' = [op EXCEPT ![w] = o] /\ op'[w] = o
  BY DEF PollReads, Read, Inv
<1>4. Free(w) /\ op' = [op EXCEPT ![w] = op'[w]] /\ UNCHANGED call
  BY <1>3 DEF PollReads, Read
<1>5. Holding(w, op[w])'
  BY <1>2, <1>3, ReadHolding DEF Holding
<1>6. UNCHANGED guessed
  BY DEF PollReads, Read
<1>7. call' \in [Callers -> Tasks] /\ \A b \in Callers : Ready(call'[b], guessed')
  BY <1>4, <1>6 DEF Inv
<1> QED
  BY <1>1, <1>4, <1>5, <1>6, <1>7, Taking

LEMMA ServiceLooksStep ==
    ASSUME Inv, NEW c \in Callers, ServiceLooks(c)
    PROVE  Inv'
<1>1. /\ Ready(call[c], guessed) /\ call[c].at = "look" /\ Head(call[c].todo) \in Windows
      /\ call[c].from = "service"
  BY HeadTyped DEF Inv, ServiceLooks, Ready
<1> PICK w \in Windows : w = Head(call[c].todo)
  BY <1>1
<1>2. Sound(w, known[w], guessed[w])
  BY DEF Inv, Data
<1>3. CASE /\ call' = [call EXCEPT ![c] = Look(@, known[w])]
           /\ UNCHANGED <<shown, air, known, op, faults, overtaken, guessed>>
  <2>1. Ready(Look(call[c], known[w]), guessed)
    BY <1>1, <1>2, LookReady
  <2>2. Data'
    BY <1>3, DataKept
  <2> QED
    BY <1>1, <1>3, <2>1, <2>2, CallMoves
<1>4. CASE Read(w, c) /\ call' = [call EXCEPT ![c].at = "busy"]
  <2> DEFINE r == [call[c] EXCEPT !.at = "busy"]
             o == [by |-> c, what |-> "read", doc |-> shown[w]]
  <2>1. Ready(r, guessed) /\ r.at = "busy" /\ r.todo = call[c].todo /\ r.from = "service"
    BY <1>1 DEF Ready, Tasks
  <2>2. /\ o \in Holders /\ o.doc \in Has(w) \cup {Absent}
        /\ o.by = c /\ o.what = "read" /\ c # Nobody
    BY <1>1, ReadHolding, QuickSettingsAssumption DEF Holders
  <2>3. call' = [call EXCEPT ![c] = r] /\ call'[c] = r
    BY <1>4 DEF Inv
  <2>4. op' = [op EXCEPT ![w] = o] /\ op'[w] = o
    BY <1>1, <1>4 DEF Read, Inv
  <2>5. Free(w) /\ op' = [op EXCEPT ![w] = op'[w]] /\ UNCHANGED guessed
    BY <1>4, <2>4 DEF Read
  <2> HIDE DEF r, o
  <2>6. /\ op'[w] \in Holders /\ op'[w].doc \in Has(w) \cup {Absent}
        /\ op'[w].by = c /\ op'[w].what = "read" /\ c # Nobody
        /\ call'[c].at = "busy" /\ call'[c].todo = call[c].todo /\ call'[c].from = "service"
    BY <2>1, <2>2, <2>3, <2>4
  <2>7. Holding(w, op[w])'
    BY <2>6 DEF Holding
  <2>8. \A b \in Callers : call[b].at = "busy" => call'[b] = call[b]
    BY <1>1, <2>3 DEF Inv
  <2>9. call' \in [Callers -> Tasks] /\ \A b \in Callers : Ready(call'[b], guessed')
    BY <2>1, <2>3, <2>5, Unrisen, CallsReady
  <2>10. Data'
    BY <1>4, DataKept DEF Read
  <2> QED
    BY <2>5, <2>7, <2>8, <2>9, <2>10, Taking
<1> QED
  BY <1>3, <1>4 DEF ServiceLooks

LEMMA SendStep ==
    ASSUME Inv, NEW c \in Callers, Send(c)
    PROVE  Inv'
<1>1. Ready(call[c], guessed) /\ call[c].at = "write" /\ Head(call[c].todo) \in Windows
  BY HeadTyped DEF Inv, Send
<1> PICK w \in Windows : w = Head(call[c].todo)
  BY <1>1
<1> DEFINE out == call[c].out
           s == Taken(shown[w], out)
<1>2. out \in Writes /\ Allowed(w, call[c].from, out, guessed[w])
  BY <1>1 DEF Ready, Tasks
<1>3. s \in Has(w) \cup {Absent}
  BY <1>2, ReadHolding, TakenHas
<1>4. CASE /\ shown' = [shown EXCEPT ![w] = s] /\ Announce(w, s)
           /\ op' = [op EXCEPT ![w] = [by |-> c, what |-> "write", doc |-> s]]
           /\ call' = [call EXCEPT ![c].at = "busy"]
           /\ UNCHANGED <<known, faults, overtaken, guessed>>
           /\ Free(w)
  <2> DEFINE r == [call[c] EXCEPT !.at = "busy"]
  <2>1. /\ Ready(r, guessed) /\ r.at = "busy" /\ r.todo = call[c].todo /\ r.out = out
        /\ r.from = call[c].from
    BY <1>1 DEF Ready, Tasks
  <2>2. call' = [call EXCEPT ![c] = r] /\ call'[c] = r
    BY <1>4 DEF Inv
  <2>3. s \in Reports
    BY <1>3, HasTyped, AbsentReport
  <2> HIDE DEF s
  <2>4. op'[w] = [by |-> c, what |-> "write", doc |-> s] /\ op' = [op EXCEPT ![w] = op'[w]]
    BY <1>4 DEF Inv
  <2>5. /\ op'[w] \in Holders /\ op'[w].doc \in Has(w) \cup {Absent}
        /\ op'[w].by = c /\ op'[w].what = "write" /\ c # Nobody
    BY <1>3, <2>3, <2>4, QuickSettingsAssumption DEF Holders
  <2>6. /\ call'[c].at = "busy" /\ call'[c].todo = call[c].todo /\ call'[c].out = call[c].out
        /\ call'[c].from = call[c].from
    BY <2>1, <2>2
  <2> HIDE DEF r
  <2>7. Allowed(w, call'[c].from, call'[c].out, guessed'[w])
    BY <1>2, <1>4, <2>6
  <2>8. Holding(w, op[w])'
    BY <2>5, <2>6, <2>7 DEF Holding
  <2>9. \A b \in Callers : call[b].at = "busy" => call'[b] = call[b]
    BY <1>1, <2>2 DEF Inv
  <2>10. call' \in [Callers -> Tasks] /\ \A b \in Callers : Ready(call'[b], guessed')
    BY <1>4, <2>1, <2>2, Unrisen, CallsReady
  <2>11. Data'
    BY <1>3, <1>4, Having
  <2> QED
    BY <1>4, <2>4, <2>8, <2>9, <2>10, <2>11, Taking
<1>5. CASE /\ Fault /\ call' = [call EXCEPT ![c] = NoCall]
           /\ UNCHANGED <<shown, air, op, known, overtaken, guessed>>
  <2>1. Data'
    BY <1>5, DataKept
  <2> QED
    BY <1>1, <1>5, <2>1, NoCallReady, CallMoves
<1> QED
  BY <1>4, <1>5 DEF Send

LEMMA ChangeStep ==
    ASSUME Inv, NEW w \in Windows, NEW doc \in Has(w) \cup {Absent}, Change(w, doc)
    PROVE  Inv'
<1>1. Data'
  BY Having DEF Change
<1> QED
  BY <1>1, TasksKept DEF Change

LEMMA Flagged ==
    ASSUME NEW f \in [Windows -> BOOLEAN], NEW w, NEW b \in BOOLEAN
    PROVE  [f EXCEPT ![w] = b] \in [Windows -> BOOLEAN]
OBVIOUS

LEMMA NotificationStep ==
    ASSUME Inv, NEW w \in Windows, Notification(w)
    PROVE  Inv'
<1>1. /\ Sound(w, known[w], guessed[w]) /\ UNCHANGED guessed /\ Rising
      /\ overtaken \in [Windows -> BOOLEAN] /\ known \in [Windows -> Reports]
  BY Unrisen DEF Inv, Data, Notification
<1>2. air[w] \in Seq(Has(w) \cup {Absent}) /\ air[w] # <<>>
  BY DEF Inv, Data, Notification
<1>3. Head(air[w]) \in Has(w) \cup {Absent}
  BY <1>2
<1>4. Sound(w, Merged(known[w], Head(air[w])), guessed'[w])
  BY <1>1, <1>3, HasTyped, AbsentReport DEF Merged, Sound
<1>5. air[w] # <<>> /\ air' = [air EXCEPT ![w] = Tail(@)] /\ UNCHANGED shown
  BY DEF Notification
<1>6. ASSUME /\ known' = [known EXCEPT ![w] = Merged(@, Head(air[w]))]
             /\ UNCHANGED <<faults, overtaken>>
      PROVE  Data'
  <2> DEFINE k == Merged(known[w], Head(air[w]))
  <2>1. known' = [known EXCEPT ![w] = k] /\ Sound(w, k, guessed'[w])
    BY <1>4, <1>6
  <2>2. overtaken' \in [Windows -> BOOLEAN] /\ UNCHANGED faults
    BY <1>1, <1>6
  <2> HIDE DEF k
  <2> QED
    BY <1>1, <1>5, <2>1, <2>2, Learning
<1>7. ASSUME Fault, overtaken' = [overtaken EXCEPT ![w] = TRUE], UNCHANGED known
      PROVE  Data'
  <2> DEFINE k == known[w]
  <2>1. known' = [known EXCEPT ![w] = k] /\ Sound(w, k, guessed'[w])
    BY <1>1, <1>7
  <2>2. overtaken' \in [Windows -> BOOLEAN]
    BY <1>1, <1>7, Zenon, Flagged
  <2> HIDE DEF k
  <2> QED
    BY <1>1, <1>7, <1>5, <2>1, <2>2, Learning
<1>8. Data'
  BY <1>6, <1>7 DEF Notification
<1> QED
  BY <1>8, TasksKept DEF Notification

\* Whoever holds a lock has asked for window w, and goes on from there.
LEMMA Holder ==
    ASSUME Inv, NEW w \in Windows, op[w].what # "idle"
    PROVE  /\ Sound(w, known[w], guessed[w]) /\ op[w].doc \in Has(w) \cup {Absent}
           /\ op[w].by \in Callers \cup {Poll} /\ Poll \notin Callers
           /\ op[w].by \in Callers =>
                 /\ Ready(call[op[w].by], guessed) /\ call[op[w].by].at = "busy"
                 /\ Head(call[op[w].by].todo) = w
                 /\ op[w].what = "read" => call[op[w].by].from = "service"
BY QuickSettingsAssumption DEF Inv, Data, Holding, Holders

LEMMA ReadAppliedStep ==
    ASSUME Inv, NEW w \in Windows, ReadApplied(w)
    PROVE  Inv'
<1>1. op[w].what = "read" /\ UNCHANGED <<shown, air, guessed>> /\ Resume(w) /\ Rising
  BY Unrisen DEF ReadApplied
<1>2. overtaken \in [Windows -> BOOLEAN] /\ known \in [Windows -> Reports]
  BY DEF Inv, Data
<1>3. ASSUME known' = [known EXCEPT ![w] = Replaced(@, op[w].doc)],
             overtaken' = [overtaken EXCEPT ![w] = Older(w)], UNCHANGED faults
      PROVE  Data'
  <2>1. Sound(w, op[w].doc, guessed'[w])
    BY <1>1, Holder, HasTyped, AbsentReport DEF Sound
  <2>2. known' = [known EXCEPT ![w] = op[w].doc]
    BY <1>3 DEF Replaced
  <2>3. Older(w) \in BOOLEAN
    BY DEF Older
  <2>4. overtaken' \in [Windows -> BOOLEAN]
    BY <1>2, <1>3, <2>3, Flagged
  <2> QED
    BY <1>1, <1>3, <2>1, <2>2, <2>4, Learning
<1>4. ASSUME Fault, UNCHANGED <<known, overtaken>> PROVE Data'
  BY <1>1, <1>4, DataKept
<1>5. Data'
  BY <1>3, <1>4 DEF ReadApplied
<1>6. Sound(w, known'[w], guessed[w])
  BY <1>1, <1>5 DEF Data
<1>7. CASE op[w].by = Poll
  BY <1>1, <1>5, <1>7, Holder, Releasing DEF ReadApplied, Resume
<1>8. CASE op[w].by # Poll
  <2>1. op[w].by \in Callers
    BY <1>1, <1>8, Holder
  <2>2. Ready(Look(call[op[w].by], known'[w]), guessed')
    BY <1>1, <1>6, <2>1, Holder, LookReady
  <2>3. call' = [call EXCEPT ![op[w].by] = Look(call[op[w].by], known'[w])]
    BY <1>1, <1>8 DEF Resume
  <2> QED
    BY <1>1, <1>5, <2>1, <2>2, <2>3, Releasing DEF ReadApplied
<1> QED
  BY <1>7, <1>8

LEMMA FailsStep ==
    ASSUME Inv, NEW w \in Windows, Fails(w)
    PROVE  Inv'
<1>1. op[w].what # "idle" /\ Rising
  BY Unrisen DEF Fails, Free
<1>2. Data'
  BY DataKept DEF Fails
<1>3. CASE op[w].by = Poll
  BY <1>1, <1>2, <1>3, Holder, Releasing DEF Fails
<1>4. CASE op[w].by # Poll
  BY <1>1, <1>2, <1>4, Holder, NoCallReady, Releasing DEF Fails
<1> QED
  BY <1>3, <1>4

LEMMA WrittenStep ==
    ASSUME Inv, NEW w \in Windows, Written(w)
    PROVE  Inv'
<1> DEFINE from == call[op[w].by].from
           out == call[op[w].by].out
           k == Recorded(known[w], out)
           guess == Kind[w] = "level" /\ from = "switch" /\ ~IsLevel(known[w])
<1>1. op[w].what = "write" /\ op[w].by \in Callers /\ Allowed(w, from, out, guessed[w])
  BY DEF Written, Inv, Holding
<1>2. /\ Sound(w, known[w], guessed[w]) /\ Ready(call[op[w].by], guessed)
      /\ call[op[w].by].at = "busy" /\ out \in Writes
  BY <1>1, Holder DEF Ready, Tasks
<1>3. known' = [known EXCEPT ![w] = k] /\ UNCHANGED <<shown, air, faults>>
  BY DEF Written
<1>4. guessed \in [Windows -> BOOLEAN] /\ overtaken \in [Windows -> BOOLEAN]
  BY DEF Inv, Data
<1>5. overtaken' \in [Windows -> BOOLEAN]
  <2>1. (overtaken[w] \/ Older(w)) \in BOOLEAN
    OBVIOUS
  <2>2. overtaken' = [overtaken EXCEPT ![w] = (overtaken[w] \/ Older(w))]
    BY Zenon DEF Written
  <2> QED
    BY <1>4, <2>1, <2>2, Flagged, Zenon
<1>6. Rising /\ (guess => guessed'[w])
  <2>1. guessed' = [guessed EXCEPT ![w] = (guessed[w] \/ guess)]
    BY Zenon DEF Written
  <2>2. (guessed[w] \/ guess) \in BOOLEAN
    OBVIOUS
  <2> HIDE DEF guess
  <2>3. guessed' \in [Windows -> BOOLEAN]
    BY <1>4, <2>1, <2>2, Flagged, Zenon
  <2>4. guessed'[w] = (guessed[w] \/ guess) /\ \A v \in Windows \ {w} : guessed'[v] = guessed[v]
    BY <1>4, <2>1, Zenon
  <2> QED
    BY <2>3, <2>4 DEF Rising
<1>7. Sound(w, k, guessed'[w])
  BY <1>1, <1>2, <1>6, RecordedSound DEF Rising
<1>8. Data'
  <2> HIDE DEF k
  <2> QED
    BY <1>3, <1>5, <1>6, <1>7, Learning
<1>9. Ready(Onward(call[op[w].by]), guessed')
  BY <1>2, <1>6, ReadyRises, OnwardReady
<1>10. call' = [call EXCEPT ![op[w].by] = Onward(call[op[w].by])] /\ op' = [op EXCEPT ![w] = Idle]
  BY DEF Written
<1> QED
  BY <1>1, <1>6, <1>8, <1>9, <1>10, Releasing

LEMMA InvStep == Inv /\ [Next]_vars => Inv'
<1> SUFFICES ASSUME Inv, [Next]_vars PROVE Inv'
  OBVIOUS
<1>1. ASSUME NEW w \in Windows, Notification(w) PROVE Inv'
  BY <1>1, NotificationStep
<1>2. ASSUME NEW w \in Windows, RequestEnds(w) PROVE Inv'
  BY <1>2, ReadAppliedStep, FailsStep, WrittenStep DEF RequestEnds
<1>3. ASSUME NEW w \in Touched, Others(w) PROVE Inv'
  <2>1. w \in Windows
    BY QuickSettingsAssumption
  <2> QED
    BY <1>3, <2>1, PollReadsStep, ChangeStep DEF Others
<1>4. ASSUME NEW c \in Callers, CallStep(c) PROVE Inv'
  BY <1>4, ServiceStep, EntityStep, ServiceLooksStep, SendStep DEF CallStep
<1>5. CASE UNCHANGED vars
  <2>1. Data'
    BY <1>5, DataKept DEF vars
  <2> QED
    BY <1>5, <2>1, TasksKept DEF vars
<1> QED
  BY <1>1, <1>2, <1>3, <1>4, <1>5 DEF Next

LEMMA InvAlways == Spec => []Inv
<1> QED
  BY InitInv, InvStep, PTL DEF Spec

-----------------------------------------------------------------------------
\* Every reachable state is well formed (protocol.py, client.py).
THEOREM TypeCorrect == Spec => []TypeOK
<1> QED
  BY InvAlways, InvTyped, PTL

\* The level published lies within the bounds published with it
\* (protocol.py:209), for any bounds, values, windows and callers.
THEOREM InBoundsAlways == Spec => []InBounds
<1> QED
  BY InvAlways, InvBounds, PTL

\* Whatever the sliders and the service compute before they wait, and whatever
\* they were told meanwhile, they write no window what its setting cannot have
\* (services.py:103, media_player.py:134, number.py); but the service does where
\* a switch's flag, which is written unasked (switch.py:100), was recorded for a
\* window that had reported nothing.
THEOREM TypedWritesAlways == Spec => []TypedWrites
<1> QED
  BY InvAlways, InvWrites, PTL

-----------------------------------------------------------------------------
(* What is known once nothing is on its way                                *)

\* What a touched window has is what it announced last, as long as that is on
\* its way; and what it has taken it would take again as it is.
Agrees(k, s) ==
    \/ k = s
    \/ k.kind = "mixed" /\ s.kind = "level" /\ k.min = s.min /\ k.max = s.max
Latest(w) == air[w] # <<>> => air[w][Len(air[w])] = shown[w]
Told(w) == air[w] = <<>> /\ ~overtaken[w] /\ shown[w].kind # "absent"
               /\ shown[w].min <= shown[w].max
           => Agrees(known[w], shown[w])
Echoed(w) == op[w].what = "write" => Taken(op[w].doc, call[op[w].by].out) = op[w].doc

SettledInv == \A w \in Touched : Latest(w) /\ Told(w) /\ Echoed(w)

LEMMA TakenTwice ==
    ASSUME NEW w \in Windows, NEW s \in Has(w) \cup {Absent},
           NEW out \in Writes
    PROVE  Taken(Taken(s, out), out) = Taken(s, out)
<1>1. CASE s.kind # out.kind
  BY <1>1 DEF Taken
<1>2. CASE s.kind = out.kind /\ s.kind = "flag"
  BY <1>2 DEF Taken, Flag, Report
<1>3. CASE s.kind = out.kind /\ s.kind = "level"
  <2> DEFINE n == Lesser(High(s), Greater(Low(s), out.value))
             t == [s EXCEPT !.value = n]
  <2>1. s \in Reports
    BY HasTyped, AbsentReport
  <2>2. Taken(s, out) = t
    BY <1>3 DEF Taken
  <2>3. t.kind = "level" /\ t.min = s.min /\ t.max = s.max
    BY <1>3, <2>1 DEF Reports
  <2>4. High(t) = High(s) /\ Low(t) = Low(s)
    BY <2>3 DEF High, Low
  <2>5. Taken(t, out) = [t EXCEPT !.value = n]
    BY <1>3, <2>3, <2>4 DEF Taken
  <2>6. [t EXCEPT !.value = n] = t
    BY <2>1 DEF Reports
  <2> QED
    BY <2>2, <2>5, <2>6
<1> QED
  BY <1>1, <1>2, <1>3 DEF Writes

\* Recording a write changes nothing where its echo is known already, but for a
\* switch's flag.
LEMMA RecordedEcho ==
    ASSUME NEW w \in Windows, NEW s \in Has(w), s.min <= s.max,
           NEW out \in Writes, NEW from, NEW g, Allowed(w, from, out, g), Taken(s, out) = s,
           NEW k \in Reports, Agrees(k, s)
    PROVE  Agrees(Recorded(k, out), s)
<1>1. s \in Reports /\ s.kind = Kind[w] /\ s.kind \in {"flag", "level"}
  BY HasTyped
<1>2. CASE s.kind = "flag"
  <2>1. k = s /\ out.kind = "flag"
    BY <1>1, <1>2, AllowedLevel DEF Agrees, Writes
  <2> QED
    BY <1>2, <2>1 DEF Agrees, Taken, Recorded, IsLevel
<1>3. CASE s.kind = "level" /\ out.kind = "flag"
  <2>1. IsLevel(k) /\ k.min = s.min /\ k.max = s.max
    BY <1>3 DEF Agrees, IsLevel
  <2>2. PICK m \in Reports : m = [k EXCEPT !.kind = "mixed", !.value = out.value]
    BY DEF Reports, Writes
  <2>3. m.kind = "mixed" /\ m.min = k.min /\ m.max = k.max
    BY <2>2 DEF Reports
  <2>4. Recorded(k, out) = m
    BY <1>3, <2>1, <2>2 DEF Recorded
  <2> QED
    BY <1>3, <2>1, <2>3, <2>4 DEF Agrees
<1>4. CASE s.kind = "level" /\ out.kind = "level"
  <2>1. High(s) = s.max /\ Low(s) = s.min
    BY <1>1 DEF High, Low, Lesser, Greater, Reports
  <2>2. IsLevel(k) /\ k.min = s.min /\ k.max = s.max
    BY <1>4 DEF Agrees, IsLevel
  <2>3. s = [s EXCEPT !.value = Lesser(s.max, Greater(s.min, out.value))]
    BY <1>4, <2>1 DEF Taken
  <2>4. s.value = Lesser(s.max, Greater(s.min, out.value))
    BY <1>1, <2>3 DEF Reports
  <2>5. Recorded(k, out) = [k EXCEPT !.kind = "level", !.value = s.value]
    BY <1>4, <2>2, <2>4 DEF Recorded
  <2> QED
    BY <1>1, <1>4, <2>2, <2>5 DEF Agrees, Reports
<1> QED
  BY <1>1, <1>2, <1>3, <1>4 DEF Writes

\* A sequence that loses its first and is not empty keeps its last.
LEMMA LastOfTail ==
    ASSUME NEW S, NEW s \in Seq(S), s # <<>>, Tail(s) # <<>>
    PROVE  Tail(s)[Len(Tail(s))] = s[Len(s)]
<1>1. Len(s) \in Nat /\ Len(Tail(s)) = Len(s) - 1 /\ Tail(s) \in Seq(S)
  OBVIOUS
<1>2. Len(Tail(s)) # 0
  BY <1>1
<1>3. \A i \in 1..Len(s)-1 : Tail(s)[i] = s[i + 1]
  OBVIOUS
<1> QED
  BY <1>1, <1>2, <1>3

LEMMA OnlyOne ==
    ASSUME NEW S, NEW s \in Seq(S), s # <<>>, Tail(s) = <<>>
    PROVE  Head(s) = s[Len(s)]
<1>1. Len(s) \in Nat /\ Len(Tail(s)) = Len(s) - 1 /\ Head(s) = s[1]
  OBVIOUS
<1>2. Len(Tail(s)) = 0
  BY TailTyped, NotEmpty
<1>3. Len(s) = 1
  BY <1>1, <1>2
<1> QED
  BY <1>1, <1>3

LEMMA LastOfAppend ==
    ASSUME NEW S, NEW s \in Seq(S), NEW x \in S
    PROVE  Append(s, x) # <<>> /\ Append(s, x)[Len(Append(s, x))] = x
OBVIOUS

\* A window is as it was.
LEMMA Untouched ==
    ASSUME SettledInv, NEW v \in Touched,
           UNCHANGED <<air[v], shown[v], known[v], overtaken[v], op[v]>>,
           op[v].what = "write" => call'[op[v].by] = call[op[v].by]
    PROVE  (Latest(v) /\ Told(v) /\ Echoed(v))'
BY DEF SettledInv, Latest, Told, Echoed

LEMMA NotificationSettles ==
    ASSUME Inv, SettledInv, NEW w \in Windows, Notification(w)
    PROVE  SettledInv'
<1>1. /\ air[w] \in Seq(Reports) /\ air[w] # <<>>
      /\ air' = [air EXCEPT ![w] = Tail(@)] /\ UNCHANGED <<shown, op, call>>
      /\ DOMAIN air = Windows /\ DOMAIN known = Windows /\ DOMAIN overtaken = Windows
  BY DEF Inv, Data, Notification
<1>2. Touched \subseteq Windows
  BY QuickSettingsAssumption
<1>3. ASSUME NEW v \in Touched, v # w PROVE (Latest(v) /\ Told(v) /\ Echoed(v))'
  <2>1. UNCHANGED <<air[v], known[v], overtaken[v]>>
    BY <1>1, <1>2, <1>3 DEF Notification
  <2> QED
    BY <1>1, <1>3, <2>1, Untouched
<1>4. ASSUME w \in Touched PROVE (Latest(w) /\ Told(w) /\ Echoed(w))'
  <2>1. air[w][Len(air[w])] = shown[w] /\ air'[w] = Tail(air[w])
    BY <1>1, <1>4 DEF SettledInv, Latest
  <2>2. Latest(w)'
    <3>1. air'[w] # <<>> => air'[w][Len(air'[w])] = air[w][Len(air[w])]
      BY <1>1, <2>1, LastOfTail
    <3> QED
      BY <1>1, <2>1, <3>1 DEF Latest
  <2>3. ASSUME air'[w] = <<>>, ~overtaken'[w], shown[w].kind # "absent"
        PROVE  Agrees(known'[w], shown[w])
    <3>1. known' = [known EXCEPT ![w] = Merged(@, Head(air[w]))]
      BY <1>1, <2>3 DEF Notification
    <3>2. Head(air[w]) = shown[w]
      BY <1>1, <2>1, <2>3, OnlyOne
    <3>3. shown[w] # Absent
      BY <2>3, AbsentReport
    <3> QED
      BY <1>1, <3>1, <3>2, <3>3 DEF Merged, Agrees
  <2>4. Echoed(w)'
    BY <1>1, <1>4 DEF SettledInv, Echoed
  <2> QED
    BY <1>1, <2>2, <2>3, <2>4 DEF Told
<1> QED
  BY <1>3, <1>4 DEF SettledInv

\* Another window's holder is not this one's.
LEMMA OtherHolder ==
    ASSUME Inv, NEW w \in Windows, NEW v \in Windows, v # w,
           op[v].what = "write", op[w].what # "idle"
    PROVE  op[v].by \in Callers /\ op[v].by # op[w].by
BY QuickSettingsAssumption DEF Inv, Holding

LEMMA EndSettles ==
    ASSUME Inv, SettledInv, NEW w \in Windows, RequestEnds(w)
    PROVE  SettledInv'
<1>1. /\ op[w].what # "idle" /\ op' = [op EXCEPT ![w] = Idle]
      /\ UNCHANGED <<shown, air>>
  BY DEF RequestEnds, ReadApplied, Fails, Written, Free
<1>2. /\ DOMAIN known = Windows /\ DOMAIN overtaken = Windows /\ DOMAIN op = Windows
      /\ DOMAIN call = Callers /\ Touched \subseteq Windows
      /\ overtaken \in [Windows -> BOOLEAN]
  BY QuickSettingsAssumption DEF Inv, Data
<1>3. ASSUME NEW v \in Touched, v # w PROVE (Latest(v) /\ Told(v) /\ Echoed(v))'
  <2>1. UNCHANGED <<known[v], overtaken[v]>>
    BY <1>2, <1>3 DEF RequestEnds, ReadApplied, Fails, Written
  <2>2. UNCHANGED op[v]
    BY <1>1, <1>2, <1>3
  <2>3. ASSUME op[v].what = "write" PROVE call'[op[v].by] = call[op[v].by]
    <3>1. op[v].by \in Callers /\ op[v].by # op[w].by
      BY <1>1, <1>2, <1>3, <2>3, OtherHolder
    <3> QED
      BY <1>2, <3>1 DEF RequestEnds, ReadApplied, Resume, Fails, Written
  <2> QED
    BY <1>1, <1>3, <2>1, <2>2, <2>3, Untouched
<1>4. ASSUME w \in Touched PROVE (Latest(w) /\ Told(w) /\ Echoed(w))'
  <2>1. op'[w].what = "idle" /\ Latest(w)'
    BY <1>1, <1>2, <1>4 DEF SettledInv, Latest, Idle
  <2>2. ASSUME air[w] = <<>>, ~overtaken'[w],
               shown[w].kind # "absent", shown[w].min <= shown[w].max
        PROVE  Agrees(known'[w], shown[w])
    <3>1. CASE UNCHANGED <<known, overtaken>>
      BY <1>4, <2>2, <3>1 DEF SettledInv, Told
    <3>2. CASE /\ known' = [known EXCEPT ![w] = Replaced(@, op[w].doc)]
               /\ overtaken' = [overtaken EXCEPT ![w] = Older(w)]
      <4>1. ~Older(w)
        BY <1>2, <2>2, <3>2
      <4>2. known'[w] = op[w].doc
        BY <1>2, <3>2 DEF Replaced
      <4> QED
        BY <2>2, <4>1, <4>2 DEF Older, Agrees
    <3>3. CASE Written(w)
      <4> DEFINE out == call[op[w].by].out
      <4>1. overtaken'[w] = (overtaken[w] \/ Older(w))
        BY <1>2, <3>3, Zenon DEF Written
      <4>2. ~overtaken[w] /\ ~Older(w)
        BY <2>2, <4>1
      <4>3. Agrees(known[w], shown[w]) /\ shown[w] = op[w].doc
        BY <1>4, <2>2, <4>2 DEF SettledInv, Told, Older
      <4>4. /\ known'[w] = Recorded(known[w], out)
            /\ Taken(op[w].doc, out) = op[w].doc
        BY <1>2, <1>4, <3>3 DEF Written, SettledInv, Echoed
      <4>5. /\ Allowed(w, call[op[w].by].from, out, guessed[w])
            /\ out \in Writes /\ shown[w] \in Has(w) /\ known[w] \in Reports
        <5>1. /\ Allowed(w, call[op[w].by].from, out, guessed[w])
              /\ op[w].by \in Callers
          BY <3>3 DEF Written, Inv, Holding
        <5>2. out \in Writes
          BY <5>1 DEF Inv, Tasks
        <5> QED
          BY <2>2, <5>1, <5>2, AbsentReport DEF Inv, Data
      <4> HIDE DEF out
      <4>6. Agrees(Recorded(known[w], out), shown[w])
        BY <2>2, <4>3, <4>4, <4>5, RecordedEcho
      <4> QED
        BY <4>4, <4>6
    <3> QED
      BY <3>1, <3>2, <3>3 DEF RequestEnds, ReadApplied, Fails
  <2> QED
    BY <1>1, <2>1, <2>2 DEF Told, Echoed
<1> QED
  BY <1>3, <1>4 DEF SettledInv

\* A window that has something new announces it, behind what is on its way.
LEMMA AnnounceSettles ==
    ASSUME Inv, SettledInv, NEW w \in Windows, NEW doc \in Has(w) \cup {Absent},
           shown' = [shown EXCEPT ![w] = doc], Announce(w, doc),
           UNCHANGED <<known, overtaken>>,
           \A v \in Touched \ {w} :
               UNCHANGED op[v] /\ (op[v].what = "write" => call'[op[v].by] = call[op[v].by]),
           w \in Touched => Echoed(w)'
    PROVE  SettledInv'
<1>1. /\ shown \in [Windows -> Reports] /\ air \in [Windows -> Seq(Reports)]
      /\ Touched \subseteq Windows /\ doc \in Reports
  BY HasTyped, AbsentReport, QuickSettingsAssumption DEF Inv, Data
<1>2. ASSUME NEW v \in Touched, v # w PROVE (Latest(v) /\ Told(v) /\ Echoed(v))'
  <2>1. UNCHANGED <<air[v], shown[v]>>
    BY <1>1, <1>2 DEF Announce
  <2> QED
    BY <1>2, <2>1, Untouched
<1>3. ASSUME w \in Touched PROVE (Latest(w) /\ Told(w) /\ Echoed(w))'
  <2>1. air[w] \in Seq(Reports) /\ air'[w] = Append(air[w], doc) /\ shown'[w] = doc
    BY <1>1, <1>3 DEF Announce
  <2>2. air'[w] # <<>> /\ air'[w][Len(air'[w])] = doc
    BY <1>1, <2>1, LastOfAppend
  <2> QED
    BY <1>3, <2>1, <2>2 DEF Latest, Told
<1> QED
  BY <1>2, <1>3 DEF SettledInv

LEMMA OthersSettles ==
    ASSUME Inv, SettledInv, NEW w \in Touched, Others(w)
    PROVE  SettledInv'
<1>1. w \in Windows /\ Touched \subseteq Windows
  BY QuickSettingsAssumption
<1>2. CASE PollReads(w)
  <2>1. /\ UNCHANGED <<shown, air, known, overtaken, call>>
        /\ op' = [op EXCEPT ![w] = [by |-> Poll, what |-> "read", doc |-> shown[w]]]
    BY <1>2 DEF PollReads, Read
  <2>2. /\ op'[w].what = "read" /\ \A v \in Touched \ {w} : UNCHANGED op[v]
    BY <1>1, <2>1 DEF Inv
  <2>3. (Latest(w) /\ Told(w) /\ Echoed(w))'
    BY <2>1, <2>2 DEF SettledInv, Latest, Told, Echoed
  <2> QED
    BY <2>1, <2>2, <2>3, Untouched DEF SettledInv
<1>3. ASSUME NEW doc \in Has(w) \cup {Absent}, Change(w, doc) PROVE SettledInv'
  <2>1. /\ shown' = [shown EXCEPT ![w] = doc] /\ Announce(w, doc)
        /\ UNCHANGED <<known, op, call, overtaken>>
    BY <1>3 DEF Change
  <2>2. Echoed(w)'
    BY <2>1 DEF SettledInv, Echoed
  <2> QED
    BY <1>1, <2>1, <2>2, AnnounceSettles
<1> QED
  BY <1>2, <1>3 DEF Others

\* Only the holder of a lock is busy.
LEMMA Undisturbed ==
    ASSUME Inv, NEW c \in Callers, call[c].at # "busy", NEW r, call' = [call EXCEPT ![c] = r],
           NEW v \in Windows, op[v].what = "write"
    PROVE  call'[op[v].by] = call[op[v].by]
<1>1. op[v].by \in Callers /\ op[v].by # c
  BY DEF Inv, Holding
<1> QED
  BY <1>1 DEF Inv

LEMMA CallSettles ==
    ASSUME Inv, SettledInv, NEW c \in Callers, CallStep(c)
    PROVE  SettledInv'
<1>1. Touched \subseteq Windows /\ DOMAIN call = Callers /\ DOMAIN op = Windows
  BY QuickSettingsAssumption DEF Inv
\* A caller that takes no lock has said nothing to a window yet.
<1>2. ASSUME NEW r, call' = [call EXCEPT ![c] = r], call[c].at # "busy",
             UNCHANGED <<shown, air, known, op, overtaken>>
      PROVE  SettledInv'
  <2>1. \A v \in Touched : op[v].what = "write" => call'[op[v].by] = call[op[v].by]
    BY <1>1, <1>2, Undisturbed
  <2> QED
    BY <1>2, <2>1, Untouched DEF SettledInv
<1>3. ASSUME NEW t \in Targets, NEW v \in Asked, Service(c, t, v) PROVE SettledInv'
  BY <1>2, <1>3, NoCallReady DEF Service, Start
<1>4. ASSUME NEW w \in Windows, EntityCall(c, w) PROVE SettledInv'
  <2>1. PICK r : Start(c, r)
    BY <1>4 DEF EntityCall, Number, Switch, VolumeStep, VolumeSet, Volume
  <2> QED
    BY <1>2, <2>1, NoCallReady DEF Start
<1>5. CASE ServiceLooks(c)
  <2>1. call[c].at = "look" /\ Head(call[c].todo) \in Windows
    BY <1>5, HeadTyped DEF ServiceLooks, Inv
  <2> PICK w \in Windows : w = Head(call[c].todo)
    BY <2>1
  <2>2. CASE /\ call' = [call EXCEPT ![c] = Look(@, known[w])]
             /\ UNCHANGED <<shown, air, known, op, faults, overtaken, guessed>>
    BY <1>2, <2>1, <2>2
  <2>3. CASE Read(w, c) /\ call' = [call EXCEPT ![c].at = "busy"]
    <3>1. \A v \in Windows : op[v].what = "write" => call'[op[v].by] = call[op[v].by]
      BY <2>1, <2>3, Undisturbed
    <3>2. /\ UNCHANGED <<shown, air, known, overtaken>>
          /\ op'[w].what = "read" /\ \A v \in Windows \ {w} : UNCHANGED op[v]
      BY <1>1, <2>3 DEF Read
    <3>3. w \in Touched => (Latest(w) /\ Told(w) /\ Echoed(w))'
      BY <3>2 DEF SettledInv, Latest, Told, Echoed
    <3> QED
      BY <1>1, <3>1, <3>2, <3>3, Untouched DEF SettledInv
  <2> QED
    BY <1>5, <2>2, <2>3 DEF ServiceLooks
<1>6. CASE Send(c)
  <2>1. /\ call[c].at = "write" /\ Head(call[c].todo) \in Windows
        /\ Ready(call[c], guessed)
    BY <1>6, HeadTyped DEF Send, Inv
  <2> PICK w \in Windows : w = Head(call[c].todo)
    BY <2>1
  <2> DEFINE out == call[c].out
             s == Taken(shown[w], out)
  <2>2. out \in Writes /\ Allowed(w, call[c].from, out, guessed[w])
    BY <2>1 DEF Ready, Tasks
  <2>3. CASE /\ shown' = [shown EXCEPT ![w] = s] /\ Announce(w, s)
             /\ op' = [op EXCEPT ![w] = [by |-> c, what |-> "write", doc |-> s]]
             /\ call' = [call EXCEPT ![c].at = "busy"]
             /\ UNCHANGED <<known, overtaken>>
    <3>1. s \in Has(w) \cup {Absent} /\ Taken(s, out) = s
      BY <2>2, TakenHas, TakenTwice DEF Inv, Data
    <3>2. call'[c].out = out
      BY <1>1, <2>1, <2>3 DEF Ready, Tasks
    <3>3. \A v \in Windows : op[v].what = "write" => call'[op[v].by] = call[op[v].by]
      BY <2>1, <2>3, Undisturbed
    <3> HIDE DEF s, out
    <3>4. op'[w].by = c /\ op'[w].doc = s /\ \A v \in Windows \ {w} : UNCHANGED op[v]
      BY <1>1, <2>3
    <3>5. Echoed(w)'
      BY <3>1, <3>2, <3>4 DEF Echoed
    <3> QED
      BY <1>1, <2>3, <3>1, <3>3, <3>4, <3>5, AnnounceSettles
  <2>4. CASE /\ call' = [call EXCEPT ![c] = NoCall]
             /\ UNCHANGED <<shown, air, op, known, overtaken>>
    BY <1>2, <2>1, <2>4
  <2> QED
    BY <1>6, <2>3, <2>4 DEF Send
<1> QED
  BY <1>3, <1>4, <1>5, <1>6 DEF CallStep

LEMMA SettledStep == Inv /\ SettledInv /\ [Next]_vars => SettledInv'
<1> SUFFICES ASSUME Inv, SettledInv, [Next]_vars PROVE SettledInv'
  OBVIOUS
<1>1. CASE UNCHANGED vars
  BY <1>1 DEF vars, SettledInv, Latest, Told, Echoed
<1> QED
  BY <1>1, NotificationSettles, EndSettles, OthersSettles, CallSettles DEF Next

\* Once everything announced has arrived, a setting is known as what its window
\* has, whatever writes, reads and changes went on in any number of windows: a
\* write recorded without waiting for its echo does no harm, since a value held
\* to the bounds a second time stays (protocol.py:209, protocol.py:222,
\* client.py).  The exceptions are SettledIsTrue's.
THEOREM SettledIsTrueAlways == Spec => []SettledIsTrue
<1>1. Init => SettledInv
  BY QuickSettingsAssumption DEF Init, SettledInv, Latest, Told, Echoed, Idle, Agrees
<1>2. SettledInv => SettledIsTrue
  BY DEF SettledInv, Told, SettledIsTrue, Agrees
<1> QED
  BY <1>1, <1>2, SettledStep, InvAlways, PTL DEF Spec
=============================================================================
