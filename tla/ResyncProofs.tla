---------------------------- MODULE ResyncProofs ----------------------------
(***************************************************************************)
(* How soon the watcher of WriteTest has the window's documents again      *)
(* after packets were garbled or lost, for any number of them and any      *)
(* cuts, given that the limit has room for two documents.                  *)
(*                                                                         *)
(* The argument is about what the stream can hold when a packet comes: it  *)
(* is always one of the few kinds of text in Settled.  Each of them costs  *)
(* a number of documents before the stream is in step with the window      *)
(* again, and that number and the documents missed so far stay within what *)
(* the faults so far account for (MissInv).                                *)
(***************************************************************************)
EXTENDS WriteTestProofs

-----------------------------------------------------------------------------
(* What the stream can hold                                                *)

\* A document that waits for the next packet, and one whose beginning is lost.
Held(t) == \E d \in Documents : t = Plain(d)
Junk(t) == \E d \in Documents, c \in 6..9 : t = Part(d, 3, c)

Settled(t) == t = <<>> \/ Waits(t) \/ Held(t) \/ Junk(t)

\* The settled texts, and what the loop can come to from one of them and x.
Rests(U) == {t \in Seq(U) : Settled(t)}
Tails(x) == {Part(b, 7, g) \o x : b \in Documents, g \in 7..9}

LEMMA InTails ==
    ASSUME NEW x, NEW w
    PROVE  w \in Tails(x) <=> \E b \in Documents : \E g \in 7..9 : w = Part(b, 7, g) \o x
BY DEF Tails

LEMMA PartSettled ==
    ASSUME NEW U, NEW d \in Documents, Plain(d) \in Seq(U), NEW c \in 0..9
    PROVE  /\ c >= 3 => Part(d, 3, c) \in Rests(U)
           /\ c >= 1 => Part(d, 1, c) \in Rests(U)
           /\ <<>> \in Rests(U)
<1>1. ASSUME c >= 3 PROVE Part(d, 3, c) \in Rests(U)
  <2>1. /\ Part(d, 3, c) \in Seq(U) /\ Part(d, 3, c) # <<>> /\ Opens(Part(d, 3, c))
    <3>1. PICK a \in 1..9 : a = 3
      OBVIOUS
    <3>2. c \in a..9
      BY <1>1, <3>1
    <3>3. /\ Part(d, a, c) \in Seq(U) /\ Part(d, a, c) # <<>>
          /\ Char(Part(d, a, c), 1) = Char(Plain(d), a)
      BY <3>2, PartHead
    <3> QED
      BY <3>1, <3>3, PlainChars DEF Opens, Char
  <2>2. Ends(Part(d, 3, c)) = IF c >= 6 THEN {4} ELSE {}
    <3>1. c \in 3..9
      BY <1>1
    <3> QED
      BY <3>1, PartEndsInside
  <2>3. CASE c >= 6
    <3>1. Junk(Part(d, 3, c))
      BY <2>3 DEF Junk
    <3> QED
      BY <2>1, <3>1 DEF Rests, Settled
  <2>4. CASE ~(c >= 6)
    BY <2>1, <2>2, <2>4 DEF Rests, Settled, Waits
  <2> QED
    BY <2>3, <2>4
<1>2. ASSUME c >= 1 PROVE Part(d, 1, c) \in Rests(U)
  <2>1. PICK S : S = {<<>>, Part(d, 1, c)}
    OBVIOUS
  <2>2. c \in 1..9 /\ IF c = 9 THEN <<>> \in S ELSE Part(d, 1, c) \in S
    BY <1>2, <2>1
  <2>3. /\ Part(d, 1, c) # <<>> /\ Part(d, 1, c) \in Seq(U) /\ Opens(Part(d, 1, c))
        /\ Ends(Part(d, 1, c)) = IF c = 9 THEN {9} ELSE {}
    BY <2>2, StartLeads
  <2>4. CASE c = 9
    <3>1. Held(Part(d, 1, c))
      BY <2>4, PlainPart DEF Held
    <3> QED
      BY <2>3, <3>1 DEF Rests, Settled
  <2>5. CASE c # 9
    BY <2>3, <2>5 DEF Rests, Settled, Waits
  <2> QED
    BY <2>4, <2>5
<1>3. <<>> \in Rests(U)
  BY DEF Rests, Settled
<1> QED
  BY <1>1, <1>2, <1>3

LEMMA TailsLead ==
    ASSUME NEW U, \A b \in Documents : Plain(b) \in Seq(U), NEW d \in Documents,
           NEW c \in 0..9, NEW a \in 1..(c + 1), NEW S
    PROVE  /\ Part(d, a, c) \in Seq(U)
           /\ \A w \in Tails(Part(d, a, c)) : Leads(w, S, Rests(U))
<1>1. PICK x, G : x = Part(d, a, c) /\ G = Rests(U)
  OBVIOUS
<1>2. Plain(d) \in Seq(U)
  OBVIOUS
<1>3. x \in Seq(U)
  <2>1. PICK e \in 1..10 : e = a
    OBVIOUS
  <2>2. c \in (e-1)..9
    BY <2>1
  <2>3. Part(d, e, c) \in Seq(U)
    BY <1>2, <2>2, PartOf
  <2> QED
    BY <1>1, <2>1, <2>3
<1>4. Skipped(x) \in G
  <2>1. /\ a = 1 /\ c >= 1 => Skipped(x) = x
        /\ a > 1 \/ c = 0 => Skipped(x) = <<>> \/ (c >= 3 /\ Skipped(x) = Part(d, 3, c))
    BY <1>1, <1>2, PartSkipped
  <2>2. /\ c >= 3 => Part(d, 3, c) \in G
        /\ c >= 1 => Part(d, 1, c) \in G
        /\ <<>> \in G
    BY <1>1, <1>2, PartSettled
  <2>3. a = 1 => x = Part(d, 1, c)
    BY <1>1
  <2>4. (a = 1 /\ c >= 1) \/ a > 1 \/ c = 0
    OBVIOUS
  <2> QED
    BY <2>1, <2>2, <2>3, <2>4
<1>5. ASSUME NEW w \in Tails(x) PROVE Leads(w, S, G)
  <2>1. PICK b \in Documents : \E g \in 7..9 : w = Part(b, 7, g) \o x
    BY <1>5, InTails
  <2>2. PICK g \in 7..9 : w = Part(b, 7, g) \o x
    BY <2>1
  <2>3. Plain(b) \in Seq(U)
    OBVIOUS
  <2>4. Leads(Part(b, 7, g) \o x, S, G)
    BY <1>3, <1>4, <2>3, TailLeads
  <2> QED
    BY <2>2, <2>4
<1> QED
  BY <1>1, <1>3, <1>5

\* Whatever waits, and whatever is heard or lost of the next packet: only texts of
\* these kinds are left.
LEMMA SettledDrained ==
    ASSUME NEW U, \A b \in Documents : Plain(b) \in Seq(U), NEW d \in Documents,
           NEW c \in 0..9, NEW a \in 1..(c + 1), NEW t \in Seq(U), Settled(t)
    PROVE  /\ t \o Part(d, a, c) \in Seq(U)
           /\ Settled(Drained(t \o Part(d, a, c)).text)
<1>1. PICK x, G : x = Part(d, a, c) /\ G = Rests(U)
  OBVIOUS
<1>2. PICK text : text = t \o x
  OBVIOUS
<1>3. PICK S : S = Parts(d, a, c) \cup Tails(x) \cup {text}
  OBVIOUS
<1>4. Plain(d) \in Seq(U) /\ x \in Seq(U)
  BY <1>1, TailsLead
<1>5. \A w \in Tails(x) : Leads(w, S, G)
  BY <1>1, TailsLead
<1>6. /\ c >= 3 => Part(d, 3, c) \in G
      /\ c >= 1 => Part(d, 1, c) \in G
      /\ <<>> \in G
  BY <1>1, <1>4, PartSettled
<1>7. \A j \in a..(c + 1) : Part(d, j, c) \in S
  BY <1>3 DEF Parts
<1>8. \A k \in a..(c + 1) : Leads(Part(d, k, c), S, G)
  <2> SUFFICES ASSUME NEW k \in a..(c + 1) PROVE Leads(Part(d, k, c), S, G)
    OBVIOUS
  <2>1. k \in 1..(c + 1) /\ \A j \in k..(c + 1) : Part(d, j, c) \in S
    BY <1>7
  <2> QED
    BY <1>4, <1>6, <2>1, RestLeads
<1>9. x \in S
  BY <1>1, <1>7
<1>10. text \in Seq(U) /\ Leads(text, S, G)
  <2>1. CASE t = <<>>
    <3>1. text = x
      BY <1>2, <1>4, <2>1
    <3>2. a \in a..(c + 1)
      OBVIOUS
    <3> QED
      BY <1>1, <1>4, <1>8, <3>1, <3>2
  <2>2. CASE Waits(t)
    <3>1. t # <<>> /\ Opens(t) /\ Ends(t) = {}
      BY <2>2 DEF Waits
    <3>2. text \in Seq(U) /\ text # <<>> /\ Opens(text)
      BY <1>2, <1>4, <3>1, JoinOpens
    <3>3. Ends(t \o Part(d, a, c)) = {} => t \o Part(d, a, c) \in G
      BY <1>1, <1>2, <3>2 DEF Rests, Settled, Waits
    <3>4. \A j \in (a + 1)..(c + 1) : Part(d, j, c) \in S
      BY <1>7
    <3>5. Leads(t \o Part(d, a, c), S, G)
      BY <1>4, <3>1, <3>3, <3>4, WaitLeads
    <3> QED
      BY <1>1, <1>2, <3>2, <3>5
  <2>3. CASE Held(t)
    <3>1. PICK b \in Documents : t = Plain(b)
      BY <2>3 DEF Held
    <3>2. Plain(b) \in Seq(U)
      OBVIOUS
    <3>3. Leads(Plain(b) \o x, S, G)
      BY <1>4, <1>9, <3>2, HeldLeads
    <3>4. text \in Seq(U)
      BY <1>2, <1>4
    <3> QED
      BY <1>2, <3>1, <3>3, <3>4
  <2>4. CASE Junk(t)
    <3>1. PICK b \in Documents : \E g \in 6..9 : t = Part(b, 3, g)
      BY <2>4 DEF Junk
    <3>2. PICK g \in 6..9 : t = Part(b, 3, g)
      BY <3>1
    <3>3. Plain(b) \in Seq(U)
      OBVIOUS
    <3>4. IF g = 6 THEN x \in S ELSE Part(b, 7, g) \o x \in S
      <4>1. g # 6 => Part(b, 7, g) \o x \in Tails(x)
        <5> SUFFICES ASSUME g # 6 PROVE Part(b, 7, g) \o x \in Tails(x)
          OBVIOUS
        <5>1. g \in 7..9
          OBVIOUS
        <5>2. \E e \in 7..9 : Part(b, 7, g) \o x = Part(b, 7, e) \o x
          BY <5>1
        <5> QED
          BY <5>2, InTails
      <4> QED
        BY <1>3, <1>9, <4>1
    <3>5. Leads(Part(b, 3, g) \o x, S, G)
      BY <1>4, <3>3, <3>4, JunkLeads
    <3>6. text \in Seq(U)
      BY <1>2, <1>4
    <3> QED
      BY <1>2, <3>2, <3>5, <3>6
  <2> QED
    BY <2>1, <2>2, <2>3, <2>4 DEF Settled
<1>11. \A s \in S : Leads(s, S, G)
  <2>1. \A s \in S : s = text \/ s \in Tails(x) \/ \E k \in a..(c + 1) : s = Part(d, k, c)
    BY <1>3 DEF Parts
  <2> QED
    BY <1>5, <1>8, <1>10, <2>1
<1>12. Drained(text).text \in G \/ (Drained(text).text = <<>> /\ <<>> \in S)
  <2>1. text \in S
    BY <1>3
  <2> QED
    BY <1>10, <1>11, <2>1, LoopText
<1>13. \A y \in G : Settled(y)
  BY <1>1 DEF Rests
<1>14. Settled(<<>>)
  BY DEF Settled
<1> QED
  BY <1>1, <1>2, <1>10, <1>12, <1>13, <1>14

-----------------------------------------------------------------------------
(* What a packet is to the stream                                          *)

\* What the decoder can keep of a packet: half of the character, or nothing.
Lead == <<<<"lead">>>>
Halves == {<<>>, Lead}

\* What the decoder keeps after p bytes, and a stream whose decoder has that.
HalfAt(p) == IF p = 8 THEN Lead ELSE <<>>
InStep(s, p) == s.half = HalfAt(p)

\* The bytes p + 1 to q of d.
Bytes(d, p, q) == SubSeq(From(UnitsOf(d), p + 1), 1, q - p)

\* The decoder passed x on and keeps half.
Passed(s, x, half) ==
    LET done == Drained(s.text \o x)
    IN  IF Len(s.text \o x) > MaxSize THEN Raised
        ELSE [stream |-> [half |-> half, text |-> done.text], out |-> done.out]

LEMMA HeadsAre ==
    ASSUME NEW p \in 0..9, NEW q \in (p+1)..10
    PROVE  /\ Heads(p) \in 0..8 /\ Heads(q) \in 1..9 /\ Heads(p) <= Heads(q)
           /\ Heads(p) + 1 \in 1..(Heads(q) + 1)
           /\ Heads(q) = 9 <=> q = 10
           /\ p = 0 <=> Heads(p) = 0
           /\ p > 0 => Heads(p) > 0 /\ Heads(q) >= 2
BY DEF Heads

LEMMA BytesTyped ==
    ASSUME NEW d, NEW p \in 0..9, NEW q \in (p+1)..10
    PROVE  /\ Bytes(d, p, q) \in Seq(Units({d})) /\ Len(Bytes(d, p, q)) >= 1
           /\ Len(Bytes(d, p, q)) \in Nat
           /\ Bytes(d, p, q)[1] = UnitsOf(d)[p + 1]
           /\ Char(UnitsOf(d), p + 1) = "tail" <=> p = 8
<1>1. PICK u, U : u = UnitsOf(d) /\ U = Units({d})
  OBVIOUS
<1>2. u \in Seq(U) /\ Len(u) = 10 /\ \A i \in 1..10 : Char(u, i) = Shape[i]
  BY <1>1, UnitsAre DEF Char
<1>3. PICK N : N = 10
  OBVIOUS
<1>4. PICK j \in 1..(N + 1) : j = p + 1
  BY <1>3
<1>5. /\ From(u, j) \in Seq(U) /\ Len(From(u, j)) = N - j + 1
      /\ \A i \in 1..(N - j + 1) : From(u, j)[i] = u[j + i - 1]
  <2>1. u \in Seq(U) /\ Len(u) = N
    BY <1>2, <1>3
  <2> QED
    BY <2>1, FromIs
<1>6. PICK f : f = From(u, p + 1)
  OBVIOUS
<1>7. f \in Seq(U) /\ Len(f) = 10 - p /\ f[1] = u[p + 1]
  <2>1. 1 \in 1..(N - j + 1)
    BY <1>3, <1>4
  <2> QED
    BY <1>3, <1>4, <1>5, <1>6, <2>1
<1>8. 1 \in 1..(Len(f) + 1) /\ q - p \in (1-1)..Len(f)
  BY <1>7
<1>9. /\ SubSeq(f, 1, q - p) \in Seq(U) /\ Len(SubSeq(f, 1, q - p)) = q - p - 1 + 1
      /\ \A m \in 1..(q - p - 1 + 1) : SubSeq(f, 1, q - p)[m] = f[1 + m - 1]
  <2>1. PICK j2 \in (1-1)..Len(f) : j2 = q - p
    BY <1>8
  <2>2. /\ SubSeq(f, 1, j2) \in Seq(U) /\ Len(SubSeq(f, 1, j2)) = j2 - 1 + 1
        /\ \A m \in 1..(j2 - 1 + 1) : SubSeq(f, 1, j2)[m] = f[1 + m - 1]
    BY <1>7, <1>8, PartIs
  <2> QED
    BY <2>1, <2>2
<1>10. SubSeq(f, 1, q - p)[1] = f[1]
  <2>1. 1 \in 1..(q - p - 1 + 1) /\ 1 + 1 - 1 = 1
    OBVIOUS
  <2> QED
    BY <1>9, <2>1
<1>11. Char(u, p + 1) = "tail" <=> p = 8
  <2>1. \A i \in 1..10 : Shape[i] = "tail" <=> i = 9
    BY ShapeIs
  <2> QED
    BY <1>2, <2>1
<1> QED
  BY <1>1, <1>6, <1>7, <1>9, <1>10, <1>11 DEF Bytes

\* A packet whose bytes go on with what the decoder keeps is passed on, and any
\* other empties the stream.
LEMMA HeardIs ==
    ASSUME NEW d, NEW p \in 0..9, NEW q \in (p+1)..10, NEW s, InStep(s, p),
           NEW half, half = HalfAt(q)
    PROVE  Feed(s, Bytes(d, p, q)) = Passed(s, Part(d, Heads(p) + 1, Heads(q)), half)
<1>1. s.half \o Bytes(d, p, q) = Between(d, p, q)
  BY DEF InStep, Between, Bytes, Prefix, Lead, HalfAt
<1>2. /\ Decodes(Between(d, p, q))
      /\ Pending(Between(d, p, q)) = half
      /\ Decoded(Between(d, p, q)) = Part(d, Heads(p) + 1, Heads(q))
  BY BetweenDecodes, BetweenDecoded DEF Part, Lead, HalfAt
<1> QED
  BY <1>1, <1>2 DEF Feed, Passed

LEMMA NotHeard ==
    ASSUME NEW d, NEW p \in 0..9, NEW q \in (p+1)..10, NEW s, s.half \in Halves,
           ~InStep(s, p)
    PROVE  Feed(s, Bytes(d, p, q)) = Raised
<1>1. PICK U, b : U = Units({d}) /\ b = Bytes(d, p, q)
  OBVIOUS
<1>2. b \in Seq(U) /\ Len(b) >= 1 /\ Len(b) \in Nat /\ (Char(b, 1) = "tail" <=> p = 8)
  BY <1>1, BytesTyped DEF Char
<1>3. CASE s.half = <<>>
  <2>1. Char(b, 1) = "tail"
    BY <1>2, <1>3 DEF InStep, HalfAt
  <2>2. s.half \o b = b
    BY <1>2, <1>3
  <2>3. 1 \in DOMAIN b
    BY <1>2
  <2>4. ~Decodes(b)
    BY <2>1, <2>3 DEF Decodes, Char
  <2> QED
    BY <1>1, <2>2, <2>4 DEF Feed
<1>4. CASE s.half = Lead
  <2>1. Char(b, 1) # "tail"
    BY <1>2, <1>4 DEF InStep, HalfAt
  <2>2. PICK w : w = Lead \o b
    OBVIOUS
  <2>3. w \in Seq(U) /\ Len(w) >= 2 /\ w[1] = <<"lead">> /\ w[2] = b[1]
    <3>1. PICK h : h = Lead
      OBVIOUS
    <3>2. h \in Seq(U) /\ Len(h) = 1 /\ h[1] = <<"lead">>
      BY <1>1, <3>1 DEF Lead, Units, Characters
    <3>3. PICK L, M : L = 1 /\ M = Len(b)
      OBVIOUS
    <3>4. /\ h \o b \in Seq(U) /\ Len(h \o b) = L + M /\ L \in Nat /\ M \in Nat
          /\ \A i \in 1..L : (h \o b)[i] = h[i]
          /\ \A i \in (L+1)..(L+M) : (h \o b)[i] = b[i - L]
      <4>1. h \in Seq(U) /\ Len(h) = L /\ b \in Seq(U) /\ Len(b) = M
        BY <1>2, <3>2, <3>3
      <4> QED
        BY <4>1, JoinOf
    <3>5. 1 \in 1..L /\ 2 \in (L+1)..(L+M) /\ 2 - L = 1
      BY <1>2, <3>3
    <3> QED
      BY <1>2, <2>2, <3>1, <3>2, <3>3, <3>4, <3>5
  <2>4. 1 \in DOMAIN w /\ 1 < Len(w) /\ Char(w, 1) = "lead" /\ Char(w, 1 + 1) # "tail"
    BY <2>1, <2>3 DEF Char
  <2>5. ~Decodes(w)
    BY <2>4 DEF Decodes, Char
  <2> QED
    BY <1>1, <1>4, <2>2, <2>5 DEF Feed
<1> QED
  BY <1>3, <1>4 DEF Halves

\* A packet that is lost changes nothing but runs the loop once more.
LEMMA LostIs ==
    ASSUME NEW s, s.half \in Halves
    PROVE  Feed(s, <<>>) = Passed(s, <<>>, s.half)
<1>1. PICK u : u = s.half \o <<>>
  OBVIOUS
<1>2. u = s.half /\ u \in Seq({<<"lead">>}) /\ Len(u) \in {0, 1}
  <2>1. CASE s.half = <<>>
    BY <1>1, <2>1
  <2>2. CASE s.half = <<<<"lead">>>>
    BY <1>1, <2>2
  <2> QED
    BY <2>1, <2>2 DEF Lead, Halves
<1>3. \A i \in DOMAIN u : u[i] = <<"lead">> /\ i = Len(u)
  <2>1. DOMAIN u = 1..Len(u) /\ \A i \in 1..Len(u) : u[i] \in {<<"lead">>}
    BY <1>2, Indexed
  <2> QED
    BY <1>2, <2>1
<1>4. Decodes(u)
  BY <1>2, <1>3 DEF Decodes
<1>5. Pending(u) = u
  BY <1>2 DEF Pending, Last, Lead
<1>6. Decoded(u) = <<>>
  <2>1. PICK f : Keeps(f, u, Len(u)) /\ Decoded(u) = f[Len(u) - Len(Pending(u))]
    BY <1>2, DecodedIs
  <2>2. Len(u) - Len(Pending(u)) = 0 /\ Len(u) \in Nat
    BY <1>2, <1>5
  <2>3. f[0] = <<>>
    BY <2>1, <2>2, KeepsStep
  <2> QED
    BY <2>1, <2>2, <2>3
<1> QED
  BY <1>1, <1>2, <1>4, <1>5, <1>6 DEF Feed, Passed

LEMMA GarbledIs ==
    ASSUME NEW s, s.half \in Halves
    PROVE  Feed(s, <<<<"bad">>>>) = Raised
<1>1. PICK u : u = s.half \o <<<<"bad">>>>
  OBVIOUS
<1>2. Len(u) \in DOMAIN u /\ u[Len(u)] = <<"bad">>
  BY <1>1 DEF Lead
<1>3. ~Decodes(u)
  BY <1>2 DEF Decodes
<1> QED
  BY <1>1, <1>3 DEF Feed

-----------------------------------------------------------------------------
(* What it costs: s is the stream, d the document of which p bytes are past *)

\* Nothing: d, or the rest of it, is heard.
Synced(s, d, p) == s = Prefix(d, p) \/ (p = 0 /\ s.half = <<>> /\ Held(s.text))

\* The stream was emptied in the middle of d.
CutOff(s, d, p) ==
    /\ p > 0 /\ s.half \in Halves /\ (s.half = Lead => p = 8)
    /\ s.text = <<>> \/ (Heads(p) >= 3 /\ s.text = Part(d, 3, Heads(p)))

\* The end of such a document is left.
Left(s, p) == p = 0 /\ s.half = <<>> /\ Junk(s.text)

\* Half a character is left, with which no document goes on.
Split(s, p) == p = 0 /\ s.half = Lead

\* An object that lost its end takes in what follows, up to the limit.
Stuck(s, d, p, k) ==
    /\ k \in 1..MaxSize /\ Len(s.text) = k + Heads(p) /\ InStep(s, p)
    /\ Waits(SubSeq(s.text, 1, k)) /\ s.text = SubSeq(s.text, 1, k) \o Part(d, 1, Heads(p))

\* How many documents go into what k units leave free, and the two it takes then.
Spare(k) == 2 + (MaxSize - k) \div 9

\* What the documents still to be missed may be for that.
Covers(s, d, p, credit, l) ==
    \/ credit >= 0 /\ Synced(s, d, p)
    \/ credit >= 1 /\ Left(s, p)
    \/ credit >= 2 /\ CutOff(s, d, p)
    \/ credit >= 2 /\ l /\ Split(s, p)
    \/ l /\ \E k \in 1..MaxSize : Stuck(s, d, p, k) /\ credit >= Spare(k)
    \/ credit >= 1 + Spare(1) /\ l /\ p > 0

\* What a packet made of the stream is covered, be it the last one of d or not.
Paid(fed, d, q, credit, l) ==
    IF q # 10 THEN Covers(fed.stream, d, q, credit, l)
    ELSE \A e : \/ Docs(fed) # {} /\ Covers(fed.stream, e, 0, credit, l)
                \/ Covers(fed.stream, e, 0, credit - 1, l)

LEMMA SpareIs ==
    ASSUME NEW k \in 1..MaxSize
    PROVE  /\ Spare(k) \in Int /\ Spare(k) >= 2 /\ Spare(k) <= Spare(1) /\ Spare(1) \in Int
           /\ k + 9 <= MaxSize => k + 9 \in 1..MaxSize /\ Spare(k + 9) = Spare(k) - 1
           /\ MissMax >= 1 + Spare(1) /\ MissMax \in Nat
<1>1. MaxSize \in Nat /\ MaxSize >= 1
  BY StreamsAssumption
<1>2. PICK x \in Nat, y \in Nat : x = MaxSize - k /\ y = MaxSize - 1
  BY <1>1
<1>3. x \div 9 \in Nat /\ y \div 9 \in Nat /\ x \div 9 <= y \div 9
  BY <1>1, <1>2
<1>4. x >= 9 => (x - 9) \div 9 = x \div 9 - 1
  BY <1>2
<1>5. MissMax = 3 + MaxSize \div 9
  <2>1. Len(Shape) - 1 = 9
    BY ShapeIs
  <2> QED
    BY <2>1 DEF MissMax
<1>6. MaxSize \div 9 >= y \div 9 /\ MaxSize \div 9 \in Nat
  BY <1>1, <1>2
<1>7. k + 9 <= MaxSize => x >= 9 /\ MaxSize - (k + 9) = x - 9
  BY <1>1, <1>2
<1>8. Spare(k) = 2 + x \div 9 /\ Spare(1) = 2 + y \div 9
  BY <1>2 DEF Spare
<1>9. k + 9 <= MaxSize => Spare(k + 9) = 2 + (x - 9) \div 9
  BY <1>7 DEF Spare
<1> QED
  BY <1>1, <1>3, <1>4, <1>5, <1>6, <1>7, <1>8, <1>9

LEMMA PlainTyped ==
    ASSUME NEW d
    PROVE  Plain(d) \in Seq(Units({d}))
<1>1. PICK u, U : u = UnitsOf(d) /\ U = Units({d})
  OBVIOUS
<1>2. \A i \in 1..10 : u[i] \in U
  BY <1>1, UnitsAre, Indexed
<1>3. <<"close">> \in U
  BY <1>1 DEF Units, Characters
<1>4. Plain(d) = [i \in 1..9 |-> IF i = 9 THEN <<"close">> ELSE u[i]]
  BY <1>1 DEF Plain
<1> QED
  BY <1>1, <1>2, <1>3, <1>4

LEMMA NoPart ==
    ASSUME NEW d
    PROVE  Part(d, 1, 0) = <<>> /\ Part(d, 3, 2) = <<>> /\ Heads(0) = 0
<1>1. PICK U : Plain(d) \in Seq(U)
  BY PlainIs
<1> QED
  BY <1>1 DEF Part, Heads

\* Before a document begins, it does not matter which one it is.
LEMMA CoversNext ==
    ASSUME NEW s, NEW d, NEW credit, NEW l, Covers(s, d, 0, credit, l), NEW e
    PROVE  Covers(s, e, 0, credit, l)
<1>1. Prefix(d, 0) = Prefix(e, 0)
  BY PrefixBegins
<1>2. Part(d, 1, Heads(0)) = Part(e, 1, Heads(0))
  BY NoPart
<1>3. Synced(s, d, 0) => Synced(s, e, 0)
  BY <1>1 DEF Synced
<1>4. \A k : Stuck(s, d, 0, k) => Stuck(s, e, 0, k)
  BY <1>2 DEF Stuck
<1>5. ~CutOff(s, d, 0)
  BY DEF CutOff
<1> QED
  BY <1>3, <1>4, <1>5 DEF Covers

\* Only what is lost costs more, and more may be missed for it.
LEMMA CoversMore ==
    ASSUME NEW s, NEW d, NEW p, NEW credit \in Int, NEW l, Covers(s, d, p, credit, l),
           NEW more \in Int, more >= credit, NEW k, l => k
    PROVE  Covers(s, d, p, more, k) /\ credit >= 0
<1>1. \A i \in 1..MaxSize : Spare(i) \in Int /\ Spare(i) >= 2
  BY SpareIs
<1>2. Spare(1) \in Int /\ Spare(1) >= 2
  <2>1. 1 \in 1..MaxSize
    BY StreamsAssumption
  <2> QED
    BY <1>1, <2>1
<1>3. credit >= 0
  BY <1>1, <1>2 DEF Covers
<1>4. \A i \in 1..MaxSize : credit >= Spare(i) => more >= Spare(i)
  BY <1>1
<1>5. \A i \in {0, 1, 2} : credit >= i => more >= i
  OBVIOUS
<1>6. credit >= 1 + Spare(1) => more >= 1 + Spare(1)
  BY <1>2
<1> QED
  BY <1>3, <1>4, <1>5, <1>6 DEF Covers

\* A stream that was emptied.
LEMMA RaisedPaid ==
    ASSUME NEW d, NEW q \in 1..10, NEW credit \in Int, credit >= 2, NEW l
    PROVE  Paid(Raised, d, q, credit, l)
<1>1. Raised.stream = Empty
  BY DEF Raised
<1>2. CASE q # 10
  <2>1. CutOff(Empty, d, q)
    BY <1>2 DEF CutOff, Empty, Lead, Halves
  <2> QED
    BY <1>1, <1>2, <2>1 DEF Paid, Covers
<1>3. CASE q = 10
  <2>1. \A e : Synced(Empty, e, 0)
    BY PrefixBegins DEF Synced
  <2>2. credit - 1 >= 0
    OBVIOUS
  <2> QED
    BY <1>1, <1>3, <2>1, <2>2 DEF Paid, Covers
<1> QED
  BY <1>2, <1>3

-----------------------------------------------------------------------------
(* What a packet makes of each of them                                     *)

LEMMA PassedRoom ==
    ASSUME NEW s, NEW x, NEW half, ~(Len(s.text \o x) > MaxSize)
    PROVE  LET fed == Passed(s, x, half)
           IN  /\ fed.stream.half = half /\ fed.stream.text = Drained(s.text \o x).text
               /\ fed.out = Drained(s.text \o x).out
               /\ fed.stream = [half |-> half, text |-> Drained(s.text \o x).text]
BY DEF Passed

\* A stream in step with d hears it.
LEMMA PaidSynced ==
    ASSUME MaxSize >= 9, NEW d, NEW p \in 0..9, NEW q \in (p+1)..10, NEW s, s = Prefix(d, p),
           NEW credit \in Int, credit >= 0, NEW l
    PROVE  Paid(Feed(s, Bytes(d, p, q)), d, q, credit, l)
<1>1. PICK fed : fed = Feed(s, Bytes(d, p, q))
  OBVIOUS
<1>2. fed = [stream |-> IF q = 10 THEN Empty ELSE Prefix(d, q),
             out    |-> IF q = 10 THEN <<Plain(d)>> ELSE <<>>]
  BY <1>1, FeedInOrder DEF Bytes
<1>3. CASE q = 10
  <2>1. fed = [stream |-> Empty, out |-> <<Plain(d)>>]
    BY <1>2, <1>3
  <2>2. Docs(fed) # {}
    BY <2>1, PlainObject
  <2>3. fed.stream = Empty /\ \A e : Synced(Empty, e, 0)
    BY <2>1, PrefixBegins DEF Synced
  <2> QED
    BY <1>1, <1>3, <2>2, <2>3 DEF Paid, Covers
<1>4. CASE q # 10
  <2>1. Synced(fed.stream, d, q)
    BY <1>2, <1>4 DEF Synced
  <2> QED
    BY <1>1, <1>4, <2>1 DEF Paid, Covers
<1> QED
  BY <1>3, <1>4

\* So does one that held a document, which comes out first.
LEMMA PaidHeld ==
    ASSUME NEW U, MaxSize >= 18, NEW d, Plain(d) \in Seq(U), NEW b, Plain(b) \in Seq(U),
           NEW q \in 1..10, NEW s, s.half = <<>>, s.text = Plain(b),
           NEW credit \in Int, credit >= 0, NEW l
    PROVE  Paid(Passed(s, Part(d, 1, Heads(q)), HalfAt(q)), d, q, credit, l)
<1>1. PICK c \in 1..9 : c = Heads(q) /\ (c = 9 <=> q = 10)
  BY DEF Heads
<1>2. PICK half, x : half = HalfAt(q) /\ x = Part(d, 1, c)
  OBVIOUS
<1>3. PICK fed : fed = Passed(s, x, half)
  OBVIOUS
<1>4. Len(s.text \o x) <= 18 /\ Len(s.text \o x) \in Nat
  <2>1. PICK t : t = s.text
    OBVIOUS
  <2>2. t \in Seq(U) /\ Len(t) = 9
    BY <2>1, PlainPart
  <2>3. x \in Seq(U) /\ Len(x) = c
    <3>1. PICK a \in 1..9 : a = 1
      OBVIOUS
    <3>2. c \in a..9
      BY <3>1
    <3>3. Part(d, a, c) \in Seq(U) /\ Len(Part(d, a, c)) = c - a + 1
      BY <3>2, PartHead
    <3> QED
      BY <1>2, <3>1, <3>3
  <2>4. PICK L, M : L = 9 /\ M = c
    OBVIOUS
  <2>5. t \in Seq(U) /\ Len(t) = L /\ x \in Seq(U) /\ Len(x) = M
    BY <2>2, <2>3, <2>4
  <2>6. Len(t \o x) = L + M
    BY <2>5, JoinOf
  <2> QED
    BY <2>1, <2>4, <2>6
<1>5. ~(Len(s.text \o x) > MaxSize)
  BY <1>4, StreamsAssumption
<1>6. /\ Drained(s.text \o x).text = IF c = 9 THEN <<>> ELSE x
      /\ Drained(s.text \o x).out # <<>> /\ Drained(s.text \o x).out[1] = Plain(b)
  BY <1>2, HeldDrained
<1>7. /\ fed.stream = [half |-> half, text |-> IF c = 9 THEN <<>> ELSE x]
      /\ fed.out = Drained(s.text \o x).out
  <2>1. /\ fed.out = Drained(s.text \o x).out
        /\ fed.stream = [half |-> half, text |-> Drained(s.text \o x).text]
    BY <1>3, <1>5, PassedRoom
  <2> QED
    BY <1>6, <2>1
<1>8. CASE q # 10
  <2>1. fed.stream = Prefix(d, q)
    BY <1>1, <1>2, <1>7, <1>8 DEF Prefix, Part, Lead, HalfAt
  <2> QED
    BY <1>1, <1>2, <1>3, <1>8, <2>1 DEF Paid, Covers, Synced
<1>9. CASE q = 10
  <2>1. fed.stream = Empty /\ \A e : Synced(Empty, e, 0)
    BY <1>1, <1>2, <1>7, <1>9, PrefixBegins DEF Synced, Empty, HalfAt
  <2>2. Docs(fed) # {}
    <3>1. PICK o : o = fed.out
      OBVIOUS
    <3>2. o # <<>> /\ o[1] = Plain(b) /\ o \in Seq(Seq(U))
      <4>1. o = Drained(s.text \o x).out
        BY <1>7, <3>1
      <4>2. s.text \o x \in Seq(U)
        <5>1. x \in Seq(U)
          <6>1. PICK a \in 1..9 : a = 1
            OBVIOUS
          <6>2. c \in a..9
            BY <6>1
          <6> QED
            BY <1>2, <6>1, <6>2, PartHead
        <5> QED
          BY <5>1
      <4>3. Drained(s.text \o x).out \in Seq(Seq(U))
        BY <4>2, DrainedMade DEF Made, Rounds
      <4> QED
        BY <1>6, <4>1, <4>3
    <3>3. 1 \in DOMAIN o
      BY <3>2
    <3>4. IsDocument(o[1])
      BY <3>2, PlainPart, ShapeIs DEF IsDocument
    <3> QED
      BY <3>1, <3>3, <3>4 DEF Docs
  <2> QED
    BY <1>1, <1>2, <1>3, <1>9, <2>1, <2>2 DEF Paid, Covers
<1> QED
  BY <1>8, <1>9

\* One that held the end of a document does not see where the next one ends,
\* unless that comes in one packet.
LEMMA PaidLeft ==
    ASSUME NEW U, MaxSize >= 18, NEW d \in Documents, Plain(d) \in Seq(U), NEW b,
           Plain(b) \in Seq(U), NEW g \in 6..9, NEW q \in 1..10,
           NEW s, s.half = <<>>, s.text = Part(b, 3, g),
           NEW credit \in Int, credit >= 1, NEW l
    PROVE  Paid(Passed(s, Part(d, 1, Heads(q)), HalfAt(q)), d, q, credit, l)
<1>1. PICK c \in 1..9 : c = Heads(q) /\ (c = 9 <=> q = 10)
  BY DEF Heads
<1>2. PICK half, x : half = HalfAt(q) /\ x = Part(d, 1, c)
  OBVIOUS
<1>3. PICK fed : fed = Passed(s, x, half)
  OBVIOUS
<1>4. Len(s.text \o x) <= 18 /\ Len(s.text \o x) \in Nat
  <2>1. PICK t : t = s.text
    OBVIOUS
  <2>2. t \in Seq(U) /\ Len(t) = g - 2
    <3>1. PICK a \in 1..9 : a = 3
      OBVIOUS
    <3>2. g \in a..9
      BY <3>1
    <3>3. Part(b, a, g) \in Seq(U) /\ Len(Part(b, a, g)) = g - a + 1
      BY <3>2, PartHead
    <3> QED
      BY <2>1, <3>1, <3>3
  <2>3. x \in Seq(U) /\ Len(x) = c
    <3>1. PICK a \in 1..9 : a = 1
      OBVIOUS
    <3>2. c \in a..9
      BY <3>1
    <3>3. Part(d, a, c) \in Seq(U) /\ Len(Part(d, a, c)) = c - a + 1
      BY <3>2, PartHead
    <3> QED
      BY <1>2, <3>1, <3>3
  <2> QED
    BY <2>1, <2>2, <2>3
<1>5. ~(Len(s.text \o x) > MaxSize)
  BY <1>4, StreamsAssumption
<1>6. Drained(s.text \o x).text = x \/ (c = 9 /\ Drained(s.text \o x).text = <<>>)
  BY <1>2, JunkDrained
<1>7. /\ fed.stream = [half |-> half, text |-> Drained(s.text \o x).text]
      /\ fed.stream.half = half
  BY <1>3, <1>5, PassedRoom
<1>8. CASE q # 10
  <2>1. fed.stream = Prefix(d, q)
    BY <1>1, <1>2, <1>6, <1>7, <1>8 DEF Prefix, Part, Lead, HalfAt
  <2> QED
    BY <1>1, <1>2, <1>3, <1>8, <2>1 DEF Paid, Covers, Synced
<1>9. CASE q = 10
  <2>1. half = <<>>
    BY <1>2, <1>9 DEF HalfAt
  <2>2. \A e : Synced(fed.stream, e, 0)
    <3>1. CASE Drained(s.text \o x).text = x
      <4>1. x = Plain(d)
        BY <1>1, <1>2, <1>9, PlainPart
      <4>2. Held(x)
        BY <4>1 DEF Held
      <4>3. fed.stream.text = x
        BY <1>7, <3>1
      <4> QED
        BY <1>7, <2>1, <4>2, <4>3 DEF Synced
    <3>2. CASE Drained(s.text \o x).text = <<>>
      <4>1. fed.stream = Empty
        BY <1>7, <2>1, <3>2 DEF Empty
      <4> QED
        BY <4>1, PrefixBegins DEF Synced
    <3> QED
      BY <1>6, <3>1, <3>2
  <2>3. credit - 1 >= 0
    OBVIOUS
  <2> QED
    BY <1>1, <1>2, <1>3, <1>9, <2>2, <2>3 DEF Paid, Covers
<1> QED
  BY <1>8, <1>9

LEMMA CutOffJoin ==
    ASSUME NEW U, NEW d, Plain(d) \in Seq(U), NEW p \in 1..9, NEW q \in (p+1)..10,
           NEW s, CutOff(s, d, p)
    PROVE  \E a \in 2..(Heads(q) + 1) :
               s.text \o Part(d, Heads(p) + 1, Heads(q)) = Part(d, a, Heads(q))
<1>1. PICK b \in 1..8, c \in 2..9 : b = Heads(p) /\ c = Heads(q) /\ b <= c
  <2>1. p \in 0..9 /\ p > 0 /\ q \in (p+1)..10
    OBVIOUS
  <2>2. /\ Heads(p) \in 0..8 /\ Heads(q) \in 1..9 /\ Heads(p) <= Heads(q)
        /\ Heads(q) = 9 <=> q = 10
        /\ Heads(p) > 0 /\ Heads(q) >= 2
    BY <2>1, HeadsAre
  <2> QED
    BY <2>2
<1>2. CASE s.text = <<>>
  <2>1. PICK a \in 1..10 : a = b + 1
    OBVIOUS
  <2>2. c \in (a-1)..9 /\ a \in 2..(c + 1)
    BY <1>1, <2>1
  <2>3. Part(d, a, c) \in Seq(U)
    BY <2>2, PartOf
  <2>4. <<>> \o Part(d, a, c) = Part(d, a, c)
    BY <2>3
  <2> QED
    BY <1>1, <1>2, <2>1, <2>2, <2>4
<1>3. CASE b >= 3 /\ s.text = Part(d, 3, b)
  <2>1. PICK a \in 1..10 : a = 3
    OBVIOUS
  <2>2. b \in (a-1)..9 /\ c \in b..9 /\ a \in 2..(c + 1)
    BY <1>1, <1>3, <2>1
  <2>3. Part(d, a, b) \o Part(d, b + 1, c) = Part(d, a, c)
    BY <2>2, PartJoin
  <2> QED
    BY <1>1, <1>3, <2>1, <2>2, <2>3
<1> QED
  BY <1>1, <1>2, <1>3 DEF CutOff

\* A stream that was emptied in the middle of d does not see where d ends.
LEMMA PaidCutOff ==
    ASSUME NEW U, MaxSize >= 18, NEW d \in Documents, Plain(d) \in Seq(U),
           NEW p \in 1..9, NEW q \in (p+1)..10, NEW s, CutOff(s, d, p),
           NEW credit \in Int, credit >= 2, NEW l
    PROVE  Paid(Passed(s, Part(d, Heads(p) + 1, Heads(q)), HalfAt(q)),
                d, q, credit, l)
<1>1. PICK c \in 2..9 : c = Heads(q) /\ (c = 9 <=> q = 10)
  <2>1. p \in 0..9 /\ p > 0 /\ q \in (p+1)..10
    OBVIOUS
  <2>2. /\ Heads(p) \in 0..8 /\ Heads(q) \in 1..9 /\ Heads(p) <= Heads(q)
        /\ Heads(q) = 9 <=> q = 10
        /\ Heads(p) > 0 /\ Heads(q) >= 2
    BY <2>1, HeadsAre
  <2> QED
    BY <2>2
<1>2. PICK half, x : half = HalfAt(q) /\ x = Part(d, Heads(p) + 1, c)
  OBVIOUS
<1>3. PICK fed : fed = Passed(s, x, half)
  OBVIOUS
<1>4. PICK a \in 2..(c + 1) : s.text \o x = Part(d, a, c)
  BY <1>1, <1>2, CutOffJoin
<1>5. ~(Len(s.text \o x) > MaxSize)
  <2>1. PICK e \in 1..10 : e = a
    OBVIOUS
  <2>2. c \in (e-1)..9
    BY <2>1
  <2>3. Len(Part(d, e, c)) = c - e + 1
    BY <2>2, PartOf
  <2>4. Len(s.text \o x) = c - a + 1
    BY <1>4, <2>1, <2>3
  <2> QED
    BY <2>4, StreamsAssumption
<1>6. PICK t \in {<<>>, Part(d, 3, c)} : t = Drained(s.text \o x).text
  <2>1. c \in 1..9
    OBVIOUS
  <2>2. Drained(Part(d, a, c)).text \in {<<>>, Part(d, 3, c)}
    BY <2>1, PartDrained
  <2> QED
    BY <1>4, <2>2
<1>7. fed.stream = [half |-> half, text |-> t]
  BY <1>3, <1>5, <1>6, PassedRoom
<1>8. CASE q # 10
  <2>1. t = <<>> \/ (c >= 3 /\ t = Part(d, 3, c))
    <3>1. CASE c = 2
      BY <1>6, <3>1, NoPart
    <3>2. CASE c # 2
      BY <1>6, <3>2
    <3> QED
      BY <3>1, <3>2
  <2>2. half \in Halves /\ (half = Lead => q = 8)
    BY <1>2 DEF Lead, HalfAt, Halves
  <2>3. CutOff(fed.stream, d, q)
    BY <1>1, <1>7, <2>1, <2>2 DEF CutOff
  <2> QED
    BY <1>1, <1>2, <1>3, <1>8, <2>3 DEF Paid, Covers
<1>9. CASE q = 10
  <2>1. half = <<>> /\ c = 9
    BY <1>1, <1>2, <1>9 DEF HalfAt
  <2>2. \A e : Covers(fed.stream, e, 0, credit - 1, l)
    <3>1. CASE t = <<>>
      <4>1. fed.stream = Empty
        BY <1>7, <2>1, <3>1 DEF Empty
      <4>2. \A e : Synced(fed.stream, e, 0)
        BY <4>1, PrefixBegins DEF Synced
      <4> QED
        BY <4>2 DEF Covers
    <3>2. CASE t = Part(d, 3, c)
      <4>1. Junk(t)
        BY <2>1, <3>2 DEF Junk
      <4>2. Left(fed.stream, 0)
        BY <1>7, <2>1, <4>1 DEF Left
      <4> QED
        BY <4>2 DEF Covers
    <3> QED
      BY <1>6, <3>1, <3>2
  <2> QED
    BY <1>1, <1>2, <1>3, <1>9, <2>2 DEF Paid
<1> QED
  BY <1>8, <1>9

\* What a stuck stream holds: the object t and what came of d.
LEMMA StuckIs ==
    ASSUME NEW U, NEW d, Plain(d) \in Seq(U), NEW p \in 0..9, NEW s, s.text \in Seq(U),
           NEW k \in 1..MaxSize, Stuck(s, d, p, k)
    PROVE  LET t == SubSeq(s.text, 1, k)
           IN  t \in Seq(U) /\ Waits(t) /\ Len(t) = k
<1>1. PICK y : y = s.text
  OBVIOUS
<1>2. /\ y \in Seq(U) /\ k \in 1..MaxSize /\ Len(y) = k + Heads(p) /\ Heads(p) \in Nat
  BY <1>1 DEF Stuck, Heads
<1>3. SubSeq(y, 1, k) \in Seq(U) /\ Len(SubSeq(y, 1, k)) = k
  <2>1. 1 \in 1..(Len(y) + 1) /\ k \in (1-1)..Len(y)
    BY <1>2
  <2>2. SubSeq(y, 1, k) \in Seq(U) /\ Len(SubSeq(y, 1, k)) = k - 1 + 1
    BY <1>2, <2>1, PartIs
  <2> QED
    BY <1>2, <2>2
<1> QED
  BY <1>1, <1>2, <1>3 DEF Stuck

LEMMA IsStuck ==
    ASSUME NEW U, NEW d, Plain(d) \in Seq(U), NEW p \in 0..9, NEW s, NEW t \in Seq(U), Waits(t),
           Len(t) <= MaxSize, s.text = t \o Part(d, 1, Heads(p)), InStep(s, p)
    PROVE  Len(t) \in 1..MaxSize /\ Stuck(s, d, p, Len(t))
<1>1. PICK k : k = Len(t)
  OBVIOUS
<1>2. t # <<>>
  BY DEF Waits
<1>3. k \in 1..MaxSize
  BY <1>1, <1>2, EmptyText, StreamsAssumption
<1>4. PICK h \in 0..8 : h = Heads(p)
  BY DEF Heads
<1>5. PICK x : x = Part(d, 1, h)
  OBVIOUS
<1>6. x \in Seq(U) /\ Len(x) = h
  <2>1. PICK a \in 1..10 : a = 1
    OBVIOUS
  <2>2. h \in (a-1)..9
    BY <2>1
  <2>3. Part(d, a, h) \in Seq(U) /\ Len(Part(d, a, h)) = h - a + 1
    BY <2>2, PartOf
  <2> QED
    BY <1>5, <2>1, <2>3
<1>7. PICK y : y = t \o x
  OBVIOUS
<1>8. y \in Seq(U) /\ Len(y) = k + h /\ \A i \in 1..k : y[i] = t[i]
  <2>1. PICK M : M = h
    OBVIOUS
  <2>2. t \in Seq(U) /\ Len(t) = k /\ x \in Seq(U) /\ Len(x) = M
    BY <1>1, <1>6, <2>1
  <2>3. /\ t \o x \in Seq(U) /\ Len(t \o x) = k + M
        /\ \A i \in 1..k : (t \o x)[i] = t[i]
    BY <2>2, JoinOf
  <2> QED
    BY <1>7, <2>1, <2>3
<1>9. SubSeq(y, 1, k) = t
  <2>1. 1 \in 1..(Len(y) + 1) /\ k \in (1-1)..Len(y)
    BY <1>3, <1>8
  <2>2. /\ SubSeq(y, 1, k) \in Seq(U) /\ Len(SubSeq(y, 1, k)) = k - 1 + 1
        /\ \A m \in 1..(k - 1 + 1) : SubSeq(y, 1, k)[m] = y[1 + m - 1]
    BY <1>8, <2>1, PartIs
  <2>3. PICK z : z = SubSeq(y, 1, k)
    OBVIOUS
  <2>4. z \in Seq(U) /\ Len(z) = k /\ \A i \in 1..k : z[i] = y[i]
    <3>1. k - 1 + 1 = k /\ \A i \in 1..k : 1 + i - 1 = i
      BY <1>3
    <3> QED
      BY <2>2, <2>3, <3>1
  <2>5. z \in Seq(U) /\ Len(z) = Len(t) /\ \A i \in 1..Len(z) : z[i] = t[i]
    BY <1>1, <1>8, <2>4
  <2>6. z = t
    BY <2>5, EqualSeqs
  <2> QED
    BY <2>3, <2>6
<1> QED
  BY <1>1, <1>3, <1>4, <1>5, <1>7, <1>8, <1>9 DEF Stuck

\* A stream that is stuck grows by the whole of d, or is emptied.
LEMMA PaidStuck ==
    ASSUME NEW U, NEW d, Plain(d) \in Seq(U), NEW p \in 0..9, NEW q \in (p+1)..10,
           NEW s, s.text \in Seq(U), NEW k \in 1..MaxSize, Stuck(s, d, p, k), NEW credit \in Int,
           credit >= Spare(k)
    PROVE  Paid(Passed(s, Part(d, Heads(p) + 1, Heads(q)), HalfAt(q)),
                d, q, credit, TRUE)
<1>1. PICK t \in Seq(U) : /\ Waits(t) /\ Len(t) = k /\ k \in 1..MaxSize
                          /\ s.text = t \o Part(d, 1, Heads(p))
  <2>1. PICK t : t = SubSeq(s.text, 1, k)
    OBVIOUS
  <2>2. /\ t \in Seq(U) /\ Waits(t) /\ Len(t) = k /\ k \in 1..MaxSize
    BY <2>1, StuckIs
  <2>3. s.text = t \o Part(d, 1, Heads(p))
    BY <2>1 DEF Stuck
  <2> QED
    BY <2>2, <2>3
<1>2. PICK b \in 0..8, c \in 1..9 : b = Heads(p) /\ c = Heads(q) /\ b <= c /\ (c = 9 <=> q = 10)
  <2>1. /\ Heads(p) \in 0..8 /\ Heads(q) \in 1..9 /\ Heads(p) <= Heads(q)
        /\ Heads(q) = 9 <=> q = 10
    BY HeadsAre
  <2> QED
    BY <2>1
<1>3. PICK half, x : half = HalfAt(q) /\ x = Part(d, b + 1, c)
  OBVIOUS
<1>4. PICK fed : fed = Passed(s, x, half)
  OBVIOUS
<1>5. PICK y : y = Part(d, 1, c)
  OBVIOUS
<1>6. s.text \o x = t \o y /\ y \in Seq(U) /\ Len(y) = c
  <2>1. PICK a \in 1..10 : a = 1
    OBVIOUS
  <2>2. b \in (a-1)..9 /\ c \in b..9 /\ c \in (a-1)..9
    BY <1>2, <2>1
  <2>3. Part(d, a, b) \o Part(d, b + 1, c) = Part(d, a, c)
    BY <2>2, PartJoin
  <2>4. Part(d, a, b) \in Seq(U) /\ Part(d, a, c) \in Seq(U) /\ Len(Part(d, a, c)) = c - a + 1
    BY <2>2, PartOf
  <2>5. PICK e \in 1..10 : e = b + 1
    OBVIOUS
  <2>6. c \in (e-1)..9
    BY <1>2, <2>5
  <2>7. x \in Seq(U)
    BY <1>3, <2>5, <2>6, PartOf
  <2>8. PICK z : z = Part(d, a, b)
    OBVIOUS
  <2>9. (t \o z) \o x = t \o (z \o x)
    <3>1. t \in Seq(U) /\ z \in Seq(U) /\ x \in Seq(U)
      BY <2>4, <2>7, <2>8
    <3> QED
      BY <3>1
  <2>10. z \o x = y /\ s.text = t \o z
    BY <1>1, <1>2, <1>3, <1>5, <2>1, <2>3, <2>8
  <2>11. y \in Seq(U) /\ Len(y) = c
    BY <1>5, <2>1, <2>4
  <2> QED
    BY <2>9, <2>10, <2>11
<1>7. /\ Spare(k) \in Int /\ Spare(k) >= 2
      /\ k + 9 <= MaxSize => k + 9 \in 1..MaxSize /\ Spare(k + 9) = Spare(k) - 1
  BY <1>1, SpareIs
<1>8. Len(t \o y) = k + c /\ t \o y \in Seq(U)
  <2>1. PICK M : M = c
    OBVIOUS
  <2>2. t \in Seq(U) /\ Len(t) = k /\ y \in Seq(U) /\ Len(y) = M
    BY <1>1, <1>6, <2>1
  <2> QED
    BY <2>1, <2>2, JoinOf
<1>9. Waits(t \o y) /\ Drained(t \o y).text = t \o y
  <2>1. c \in 0..9
    OBVIOUS
  <2> QED
    BY <1>1, <1>5, <2>1, WaitDrained
<1>10. CASE k + c > MaxSize
  <2>1. Len(s.text \o x) > MaxSize
    BY <1>6, <1>8, <1>10
  <2>2. fed = Raised
    BY <1>4, <2>1 DEF Passed
  <2>3. Paid(Raised, d, q, credit, TRUE)
    <3>1. q \in 1..10 /\ credit >= 2
      BY <1>7
    <3> QED
      BY <3>1, RaisedPaid
  <2> QED
    BY <1>2, <1>3, <1>4, <2>2, <2>3
<1>11. CASE ~(k + c > MaxSize)
  <2>1. ~(Len(s.text \o x) > MaxSize)
    BY <1>6, <1>8, <1>11
  <2>2. fed.stream.half = half /\ fed.stream.text = t \o y
    <3>1. fed.stream = [half |-> half, text |-> Drained(s.text \o x).text]
      BY <1>4, <2>1, PassedRoom
    <3>2. Drained(s.text \o x).text = t \o y
      BY <1>6, <1>9
    <3> QED
      BY <3>1, <3>2
  <2>3. CASE q # 10
    <3>1. InStep(fed.stream, q)
      BY <1>3, <2>2 DEF InStep
    <3>2. /\ q \in 0..9 /\ Len(t) <= MaxSize
          /\ fed.stream.text = t \o Part(d, 1, Heads(q))
      BY <1>1, <1>2, <1>5, <2>2, <2>3
    <3>3. Stuck(fed.stream, d, q, k)
      BY <1>1, <3>1, <3>2, IsStuck
    <3>4. Covers(fed.stream, d, q, credit, TRUE)
      BY <1>1, <3>3 DEF Covers
    <3> QED
      BY <1>2, <1>3, <1>4, <2>3, <3>4 DEF Paid
  <2>4. CASE q = 10
    <3>1. c = 9 /\ half = <<>>
      BY <1>2, <1>3, <2>4 DEF HalfAt
    <3>2. ASSUME NEW e PROVE Covers(fed.stream, e, 0, credit - 1, TRUE)
      <4>1. PICK w : w = t \o y
        OBVIOUS
      <4>2. w \in Seq(U) /\ Waits(w) /\ Len(w) = k + 9
        BY <1>8, <1>9, <3>1, <4>1
      <4>3. k + 9 <= MaxSize
        BY <1>1, <1>11, <3>1, StreamsAssumption
      <4>4. fed.stream.text = w \o Part(d, 1, Heads(0))
        <5>1. w \o <<>> = w
          BY <4>2
        <5> QED
          BY <2>2, <4>1, <5>1, NoPart
      <4>5. InStep(fed.stream, 0)
        BY <2>2, <3>1 DEF InStep, HalfAt
      <4>6. 0 \in 0..9 /\ Len(w) <= MaxSize
        BY <4>2, <4>3
      <4>7. Stuck(fed.stream, d, 0, k + 9)
        <5>1. Stuck(fed.stream, d, 0, Len(w))
          BY <4>2, <4>4, <4>5, <4>6, IsStuck
        <5> QED
          BY <4>2, <5>1
      <4>8. k + 9 \in 1..MaxSize /\ credit - 1 >= Spare(k + 9)
        BY <1>7, <4>3
      <4>9. Covers(fed.stream, d, 0, credit - 1, TRUE)
        BY <4>7, <4>8 DEF Covers
      <4> QED
        BY <4>9, CoversNext
    <3> QED
      BY <1>2, <1>3, <1>4, <2>4, <3>2 DEF Paid
  <2> QED
    BY <2>3, <2>4
<1> QED
  BY <1>10, <1>11

\* What the invariant below keeps true of the stream, whatever comes.
Kept(s, U) == s \in [half : Halves, text : Rests(U)] /\ Len(s.text) <= MaxSize

\* Whatever is held when a document begins, a lost packet accounts for it.
LEMMA CoversStart ==
    ASSUME NEW U, NEW s, Kept(s, U), NEW credit \in Int, credit >= Spare(1),
           NEW d, Plain(d) \in Seq(U)
    PROVE  Covers(s, d, 0, credit, TRUE)
<1>0. /\ s.half \in Halves /\ s.text \in Seq(U) /\ Settled(s.text)
      /\ Len(s.text) <= MaxSize /\ s = [half |-> s.half, text |-> s.text]
  BY DEF Kept, Rests
<1>1. Spare(1) \in Int /\ Spare(1) >= 2
  <2>1. 1 \in 1..MaxSize
    BY StreamsAssumption
  <2> QED
    BY <2>1, SpareIs
<1>2. CASE s.half = Lead
  BY <1>1, <1>2 DEF Covers, Split
<1>3. CASE s.half = <<>> /\ (s.text = <<>> \/ Held(s.text))
  <2>1. s.text = <<>> => s = Empty
    BY <1>0, <1>3 DEF Empty
  <2>2. Synced(s, d, 0)
    BY <1>3, <2>1, PrefixBegins DEF Synced
  <2> QED
    BY <1>1, <2>2 DEF Covers
<1>4. CASE s.half = <<>> /\ Junk(s.text)
  BY <1>1, <1>4 DEF Covers, Left
<1>5. CASE s.half = <<>> /\ Waits(s.text)
  <2>1. PICK w : w = s.text
    OBVIOUS
  <2>2. w \in Seq(U) /\ Waits(w) /\ Len(w) <= MaxSize /\ 0 \in 0..9
    BY <1>0, <1>5, <2>1
  <2>3. s.text = w \o Part(d, 1, Heads(0))
    <3>1. w \o <<>> = w
      BY <2>2
    <3> QED
      BY <2>1, <3>1, NoPart
  <2>4. InStep(s, 0)
    BY <1>5 DEF InStep, HalfAt
  <2>5. Len(w) \in 1..MaxSize /\ Stuck(s, d, 0, Len(w))
    BY <2>2, <2>3, <2>4, IsStuck
  <2>6. PICK k \in 1..MaxSize : k = Len(w)
    BY <2>5
  <2>7. Spare(k) \in Int /\ Spare(k) <= Spare(1)
    BY SpareIs
  <2>8. credit >= Spare(k)
    BY <1>1, <2>7
  <2> QED
    BY <2>5, <2>6, <2>8 DEF Covers
<1> QED
  BY <1>0, <1>2, <1>3, <1>4, <1>5 DEF Settled, Halves

LEMMA RaisedKept ==
    ASSUME NEW U
    PROVE  Kept(Raised.stream, U)
<1>1. <<>> \in Rests(U)
  BY DEF Rests, Settled
<1>2. Raised.stream = [half |-> <<>>, text |-> <<>>]
  BY DEF Raised, Empty
<1>3. Len(<<>>) <= MaxSize
  BY StreamsAssumption
<1> QED
  BY <1>1, <1>2, <1>3 DEF Kept, Halves

LEMMA PassedKept ==
    ASSUME NEW U, \A b \in Documents : Plain(b) \in Seq(U), NEW d \in Documents,
           NEW c \in 0..9, NEW a \in 1..(c + 1), NEW s, Kept(s, U), NEW half \in Halves
    PROVE  Kept(Passed(s, Part(d, a, c), half).stream, U)
<1>1. PICK x : x = Part(d, a, c)
  OBVIOUS
<1>2. s.text \in Seq(U) /\ Settled(s.text)
  BY DEF Kept, Rests
<1>3. PICK t : t = s.text \o x
  OBVIOUS
<1>4. t \in Seq(U) /\ Settled(Drained(t).text)
  <2>1. PICK y : y = s.text
    OBVIOUS
  <2>2. y \in Seq(U) /\ Settled(y)
    BY <1>2, <2>1
  <2>3. y \o Part(d, a, c) \in Seq(U) /\ Settled(Drained(y \o Part(d, a, c)).text)
    BY <2>2, SettledDrained
  <2> QED
    BY <1>1, <1>3, <2>1, <2>3
<1>5. CASE Len(t) > MaxSize
  <2>1. Passed(s, x, half) = Raised
    BY <1>3, <1>5 DEF Passed
  <2> QED
    BY <1>1, <2>1, RaisedKept
<1>6. CASE ~(Len(t) > MaxSize)
  <2>1. Passed(s, x, half).stream = [half |-> half, text |-> Drained(t).text]
    BY <1>3, <1>6, PassedRoom
  <2>2. Drained(t).text \in Seq(U) /\ Len(Drained(t).text) <= Len(t)
    BY <1>4, DrainedMade DEF Made, Rounds
  <2>3. Drained(t).text \in Rests(U)
    BY <1>4, <2>2 DEF Rests
  <2>4. Len(Drained(t).text) <= MaxSize
    <3>1. Len(t) \in Nat /\ Len(Drained(t).text) \in Nat
      BY <1>4, <2>2
    <3> QED
      BY <1>6, <2>2, <3>1, StreamsAssumption
  <2> QED
    BY <1>1, <2>1, <2>3, <2>4 DEF Kept
<1> QED
  BY <1>5, <1>6

\* A packet of each kind leaves the stream with a text of one of the kinds.
LEMMA FedKept ==
    ASSUME NEW U, \A b \in Documents : Plain(b) \in Seq(U), NEW d \in Documents,
           NEW p \in 0..9, NEW q \in (p+1)..10, NEW s, Kept(s, U)
    PROVE  /\ Kept(Feed(s, Bytes(d, p, q)).stream, U)
           /\ Kept(Feed(s, <<>>).stream, U)
           /\ Kept(Feed(s, <<<<"bad">>>>).stream, U)
<1>1. s.half \in Halves /\ s.text \in Seq(U)
  BY DEF Kept, Rests
<1>2. Kept(Feed(s, Bytes(d, p, q)).stream, U)
  <2>1. CASE InStep(s, p)
    <3>1. PICK half \in Halves : half = HalfAt(q)
      BY DEF HalfAt, Halves
    <3>2. PICK c \in 0..9 : c = Heads(q)
      BY DEF Heads
    <3>3. PICK a \in 1..(c + 1) : a = Heads(p) + 1
      BY <3>2, HeadsAre
    <3>4. Feed(s, Bytes(d, p, q)) = Passed(s, Part(d, a, c), half)
      <4>1. Feed(s, Bytes(d, p, q)) = Passed(s, Part(d, Heads(p) + 1, Heads(q)), half)
        BY <2>1, <3>1, HeardIs
      <4> QED
        BY <3>2, <3>3, <4>1
    <3> QED
      BY <3>4, PassedKept
  <2>2. CASE ~InStep(s, p)
    <3>1. Feed(s, Bytes(d, p, q)) = Raised
      BY <1>1, <2>2, NotHeard
    <3> QED
      BY <3>1, RaisedKept
  <2> QED
    BY <2>1, <2>2
<1>3. Kept(Feed(s, <<>>).stream, U)
  <2>1. PICK half \in Halves : half = s.half
    BY <1>1
  <2>2. PICK c \in 0..9 : c = 0
    OBVIOUS
  <2>3. PICK a \in 1..(c + 1) : a = 1
    OBVIOUS
  <2>4. Part(d, a, c) = <<>>
    BY <2>2, <2>3, NoPart
  <2>5. Feed(s, <<>>) = Passed(s, Part(d, a, c), half)
    BY <1>1, <2>1, <2>4, LostIs
  <2> QED
    BY <2>5, PassedKept
<1>4. Kept(Feed(s, <<<<"bad">>>>).stream, U)
  BY <1>1, GarbledIs, RaisedKept
<1> QED
  BY <1>2, <1>3, <1>4

\* A packet that is heard costs no more than was covered.
LEMMA HeardPaid ==
    ASSUME NEW U, \A b \in Documents : Plain(b) \in Seq(U), MaxSize >= 18, NEW d \in Documents,
           NEW p \in 0..9, NEW q \in (p+1)..10, NEW s, Kept(s, U),
           NEW credit \in Int, NEW l \in BOOLEAN, Covers(s, d, p, credit, l)
    PROVE  Paid(Feed(s, Bytes(d, p, q)), d, q, credit, l)
<1>1. s.half \in Halves /\ s.text \in Seq(U) /\ Plain(d) \in Seq(U)
  BY DEF Kept, Rests
<1>2. q \in 1..10 /\ p \in 0..9
  OBVIOUS
<1>3. /\ ~InStep(s, p) => Feed(s, Bytes(d, p, q)) = Raised
      /\ InStep(s, p) => Feed(s, Bytes(d, p, q)) =
                             Passed(s, Part(d, Heads(p) + 1, Heads(q)), HalfAt(q))
  <2>1. ASSUME ~InStep(s, p) PROVE Feed(s, Bytes(d, p, q)) = Raised
    BY <1>1, <2>1, NotHeard
  <2>2. ASSUME InStep(s, p)
        PROVE  Feed(s, Bytes(d, p, q)) =
                   Passed(s, Part(d, Heads(p) + 1, Heads(q)), HalfAt(q))
    <3>1. PICK half : half = HalfAt(q)
      OBVIOUS
    <3> QED
      BY <2>2, <3>1, HeardIs
  <2> QED
    BY <2>1, <2>2
<1>4. CASE credit >= 0 /\ Synced(s, d, p)
  <2>1. CASE s = Prefix(d, p)
    <3>1. MaxSize >= 9 /\ credit >= 0
      BY <1>4, StreamsAssumption
    <3> QED
      BY <2>1, <3>1, PaidSynced
  <2>2. CASE p = 0 /\ s.half = <<>> /\ Held(s.text)
    <3>1. PICK b \in Documents : s.text = Plain(b)
      BY <2>2 DEF Held
    <3>2. Plain(b) \in Seq(U)
      OBVIOUS
    <3>3. Paid(Passed(s, Part(d, 1, Heads(q)), HalfAt(q)), d, q, credit, l)
      BY <1>1, <1>2, <1>4, <2>2, <3>1, <3>2, PaidHeld
    <3>4. InStep(s, p) /\ Heads(p) + 1 = 1
      BY <2>2 DEF InStep, Heads, HalfAt
    <3> QED
      BY <1>3, <3>3, <3>4
  <2> QED
    BY <1>4, <2>1, <2>2 DEF Synced
<1>5. CASE credit >= 1 /\ Left(s, p)
  <2>1. PICK b \in Documents : \E g \in 6..9 : s.text = Part(b, 3, g)
    BY <1>5 DEF Left, Junk
  <2>2. PICK g \in 6..9 : s.text = Part(b, 3, g)
    BY <2>1
  <2>3. Plain(b) \in Seq(U) /\ p = 0 /\ s.half = <<>>
    BY <1>5 DEF Left
  <2>4. Paid(Passed(s, Part(d, 1, Heads(q)), HalfAt(q)), d, q, credit, l)
    BY <1>1, <1>2, <1>5, <2>2, <2>3, PaidLeft
  <2>5. InStep(s, p) /\ Heads(p) + 1 = 1
    BY <2>3 DEF InStep, Heads, HalfAt
  <2> QED
    BY <1>3, <2>4, <2>5
<1>6. CASE credit >= 2 /\ CutOff(s, d, p)
  <2>1. CASE InStep(s, p)
    <3>1. p \in 1..9
      BY <1>6 DEF CutOff
    <3>2. Paid(Passed(s, Part(d, Heads(p) + 1, Heads(q)), HalfAt(q)),
               d, q, credit, l)
      BY <1>1, <1>6, <3>1, PaidCutOff
    <3> QED
      BY <1>3, <2>1, <3>2
  <2>2. CASE ~InStep(s, p)
    BY <1>2, <1>3, <1>6, <2>2, RaisedPaid
  <2> QED
    BY <2>1, <2>2
<1>7. CASE credit >= 2 /\ l /\ Split(s, p)
  <2>1. ~InStep(s, p)
    BY <1>7 DEF Split, InStep, Lead, HalfAt
  <2> QED
    BY <1>2, <1>3, <1>7, <2>1, RaisedPaid
<1>8. ASSUME l, NEW k \in 1..MaxSize, Stuck(s, d, p, k), credit >= Spare(k)
      PROVE  Paid(Feed(s, Bytes(d, p, q)), d, q, credit, l)
  <2>1. InStep(s, p)
    BY <1>8 DEF Stuck
  <2>2. Paid(Passed(s, Part(d, Heads(p) + 1, Heads(q)), HalfAt(q)),
             d, q, credit, TRUE)
    BY <1>1, <1>8, PaidStuck
  <2>3. l = TRUE
    BY <1>8
  <2> QED
    BY <1>3, <2>1, <2>2, <2>3
<1>9. CASE credit >= 1 + Spare(1) /\ l /\ p > 0
  <2>1. PICK t : t = Feed(s, Bytes(d, p, q)).stream
    OBVIOUS
  <2>2. Kept(t, U)
    BY <2>1, FedKept
  <2>3. CASE q # 10
    BY <1>9, <2>3 DEF Paid, Covers
  <2>4. CASE q = 10
    <3>1. Spare(1) \in Int
      <4>1. 1 \in 1..MaxSize
        BY StreamsAssumption
      <4> QED
        BY <4>1, SpareIs
    <3>2. credit - 1 \in Int /\ credit - 1 >= Spare(1)
      BY <1>9, <3>1
    <3>3. Covers(t, d, 0, credit - 1, TRUE)
      BY <1>1, <2>2, <3>2, CoversStart
    <3>4. l = TRUE
      BY <1>9
    <3>5. \A e : Covers(t, e, 0, credit - 1, l)
      BY <3>3, <3>4, CoversNext
    <3> QED
      BY <2>1, <2>4, <3>5 DEF Paid
  <2> QED
    BY <2>3, <2>4
<1> QED
  BY <1>4, <1>5, <1>6, <1>7, <1>8, <1>9 DEF Covers

\* A packet that is lost, or garbled, accounts for what it costs.
LEMMA FaultPaid ==
    ASSUME NEW U, \A b \in Documents : Plain(b) \in Seq(U), NEW d \in Documents,
           NEW p \in 0..9, NEW q \in (p+1)..10, NEW s, Kept(s, U),
           NEW credit \in Int, NEW l \in BOOLEAN
    PROVE  /\ credit >= MissMax => Paid(Feed(s, <<>>), d, q, credit, TRUE)
           /\ credit >= 2 => Paid(Feed(s, <<<<"bad">>>>), d, q, credit, l)
<1>1. s.half \in Halves /\ Plain(d) \in Seq(U) /\ q \in 1..10
  BY DEF Kept
<1>2. ASSUME credit >= MissMax PROVE Paid(Feed(s, <<>>), d, q, credit, TRUE)
  <2>1. PICK t : t = Feed(s, <<>>).stream
    OBVIOUS
  <2>2. Kept(t, U)
    BY <2>1, FedKept
  <2>3. Spare(1) \in Int /\ MissMax \in Int /\ MissMax >= 1 + Spare(1)
    <3>1. 1 \in 1..MaxSize
      BY StreamsAssumption
    <3> QED
      BY <3>1, SpareIs
  <2>4. credit >= 1 + Spare(1) /\ credit - 1 \in Int /\ credit - 1 >= Spare(1)
    BY <1>2, <2>3
  <2>5. CASE q # 10
    <3>1. q > 0
      OBVIOUS
    <3> QED
      BY <2>4, <2>5, <3>1 DEF Paid, Covers
  <2>6. CASE q = 10
    <3>1. Covers(t, d, 0, credit - 1, TRUE)
      BY <1>1, <2>2, <2>4, CoversStart
    <3>2. \A e : Covers(t, e, 0, credit - 1, TRUE)
      BY <3>1, CoversNext
    <3> QED
      BY <2>1, <2>6, <3>2 DEF Paid
  <2> QED
    BY <2>5, <2>6
<1>3. ASSUME credit >= 2 PROVE Paid(Feed(s, <<<<"bad">>>>), d, q, credit, l)
  <2>1. Feed(s, <<<<"bad">>>>) = Raised
    BY <1>1, GarbledIs
  <2> QED
    BY <1>1, <1>3, <2>1, RaisedPaid
<1> QED
  BY <1>2, <1>3

-----------------------------------------------------------------------------
(* The invariant                                                           *)

\* What the faults so far account for.
Allowance == IF lost THEN MissMax * faults ELSE 2 * faults

\* They account for what was missed and for what the stream may cost yet.
MissInv ==
    /\ Kept(stream, Units(Documents))
    /\ Covers(stream, Head(air), pos, Allowance - missed, lost)

LEMMA OneMore ==
    ASSUME NEW a \in Nat, NEW f \in Nat
    PROVE  /\ a * f \in Nat /\ a * (f + 1) = a * f + a
           /\ a >= 2 => 2 * f <= a * f
<1>1. a * f \in Nat /\ a * (f + 1) = a * f + a
  OBVIOUS
<1>2. ASSUME a >= 2 PROVE 2 * f <= a * f
  <2>1. PICK b \in Nat : b = a - 2
    BY <1>2
  <2>2. b * f \in Nat /\ a * f = b * f + 2 * f
    BY <2>1
  <2> QED
    BY <2>2
<1> QED
  BY <1>1, <1>2

LEMMA Differences ==
    ASSUME NEW a \in Int, NEW b \in Int, NEW m \in Int, b >= a
    PROVE  a - m \in Int /\ b - m \in Int /\ b - m >= a - m
OBVIOUS

LEMMA MissedLess ==
    ASSUME NEW a \in Int, NEW m \in Nat, NEW k \in Nat
    PROVE  /\ a - m \in Int /\ a - k \in Int /\ a - m - 1 \in Int
           /\ k <= m => a - k >= a - m
           /\ k <= m + 1 => a - k >= a - m - 1
OBVIOUS

LEMMA FewerMissed == MissMax \in Nat /\ MissMax >= 3
<1>1. 1 \in 1..MaxSize
  BY StreamsAssumption
<1>2. MissMax \in Nat /\ MissMax >= 1 + Spare(1) /\ Spare(1) >= 2 /\ Spare(1) \in Int
  BY <1>1, SpareIs
<1> QED
  BY <1>2

LEMMA AllowanceIs ==
    ASSUME TypeInv
    PROVE  /\ faults \in Nat /\ Allowance \in Nat /\ missed \in Nat /\ lost \in BOOLEAN
           /\ Allowance <= MissMax * faults /\ MissMax * faults \in Nat
           /\ ~lost => Allowance = 2 * faults
<1>1. faults \in Nat /\ missed \in Nat /\ lost \in BOOLEAN
  BY MissMaxTyped, WriteTestAssumption DEF TypeInv, TypeOK
<1>2. PICK f \in Nat, a \in Nat : f = faults /\ a = MissMax /\ a >= 2
  BY <1>1, FewerMissed
<1>3. a * f \in Nat /\ 2 * f <= a * f /\ 2 * f \in Nat
  BY <1>2, OneMore
<1> QED
  BY <1>1, <1>2, <1>3 DEF Allowance

\* A step that costs nothing.
LEMMA MissKeeps ==
    ASSUME TypeInv, MissInv, TypeInv', missed' = missed, lost' = lost, faults' = faults \/ Fault,
           stream' = stream, pos' = pos,
           air' = air \/ \E doc : air' = Append(air, doc)
    PROVE  MissInv'
<1>1. PICK A \in Int, B \in Int, m \in Nat, l \in BOOLEAN :
          A = Allowance /\ B = Allowance' /\ m = missed /\ l = lost /\ B >= A
  <2>1. /\ faults \in Nat /\ Allowance \in Nat /\ missed \in Nat /\ lost \in BOOLEAN
    BY AllowanceIs
  <2>2. faults' \in {faults, faults + 1}
    BY DEF Fault
  <2>3. PICK a \in Nat, f \in Nat, g \in Nat : a = MissMax /\ f = faults /\ g = faults'
    BY <2>1, <2>2, FewerMissed
  <2>4. a * f \in Nat /\ a * (f + 1) = a * f + a /\ g \in {f, f + 1}
    BY <2>2, <2>3, OneMore
  <2>5. a * g \in Nat /\ a * g >= a * f
    BY <2>4
  <2>6. 2 * g \in Nat /\ 2 * g >= 2 * f /\ 2 * f \in Nat
    BY <2>4
  <2>7. /\ Allowance = IF lost THEN a * f ELSE 2 * f
        /\ Allowance' = IF lost THEN a * g ELSE 2 * g
    BY <2>3 DEF Allowance
  <2>8. Allowance' \in Nat /\ Allowance' >= Allowance
    BY <2>5, <2>6, <2>7, <2>4
  <2> QED
    BY <2>1, <2>8
<1>2. PICK s, d, p : s = stream /\ d = Head(air) /\ p = pos
  OBVIOUS
<1>3. Covers(s, d, p, A - m, l)
  BY <1>1, <1>2 DEF MissInv
<1>4. Covers(s, d, p, B - m, l)
  <2>1. PICK x \in Int, y \in Int : x = A - m /\ y = B - m /\ y >= x
    <3>1. A \in Int /\ B \in Int /\ m \in Int /\ B >= A
      BY <1>1
    <3>2. A - m \in Int /\ B - m \in Int /\ B - m >= A - m
      BY <3>1, Differences
    <3> QED
      BY <3>2
  <2>2. Covers(s, d, p, x, l)
    BY <1>3, <2>1
  <2>3. Covers(s, d, p, y, l)
    BY <2>1, <2>2, CoversMore
  <2> QED
    BY <2>1, <2>3
<1>5. PICK e : e = Head(air')
  OBVIOUS
<1>6. Covers(s, e, p, B - m, l)
  <2>1. air \in Seq(Documents) /\ (air = <<>> => pos = 0)
    BY DEF TypeInv, TypeOK
  <2>2. CASE e = d
    BY <1>4, <2>2
  <2>3. CASE e # d
    <3>1. air = <<>>
      BY <1>2, <1>5, <2>1, <2>3
    <3>2. p = 0
      BY <1>2, <2>1, <3>1
    <3> QED
      BY <1>4, <3>2, CoversNext
  <2> QED
    BY <2>2, <2>3
<1>7. Covers(stream', Head(air'), pos', Allowance' - missed', lost')
  BY <1>1, <1>2, <1>5, <1>6
<1>8. Kept(stream', Units(Documents))
  BY DEF MissInv
<1> QED
  BY <1>7, <1>8 DEF MissInv

\* What a packet makes of it, given what it costs.
LEMMA PacketPaid ==
    ASSUME TypeInv, TypeInv', NEW m \in 1..10, NEW payload, Packet(m, payload), air # <<>>,
           NEW q \in 1..10, q = pos + m, Len(Rest) = 10 - pos, pos \in 0..9,
           NEW s, s = stream, Kept(Feed(s, payload).stream, Units(Documents)),
           NEW d, d = Head(air),
           NEW A \in Int, A = Allowance', NEW M \in Nat, M = missed, NEW l, l = lost',
           Paid(Feed(s, payload), d, q, A - M, l)
    PROVE  MissInv'
<1>1. PICK fed : fed = Feed(s, payload)
  OBVIOUS
<1>2. /\ air' = IF q = 10 THEN Tail(air) ELSE air
      /\ pos' = IF q = 10 THEN 0 ELSE q
      /\ stream' = fed.stream
      /\ missed' = IF Docs(fed) # {} THEN 0
                   ELSE IF q = 10 /\ missed <= MissTop THEN missed + 1 ELSE missed
  <2>1. m = Len(Rest) <=> q = 10
    OBVIOUS
  <2>2. /\ air' = IF m = Len(Rest) THEN Tail(air) ELSE air
        /\ pos' = IF m = Len(Rest) THEN 0 ELSE pos + m
        /\ stream' = fed.stream
        /\ missed' = IF Docs(fed) # {} THEN 0
                     ELSE IF m = Len(Rest) /\ missed <= MissTop THEN missed + 1 ELSE missed
    BY <1>1 DEF Packet, Docs
  <2> QED
    BY <2>1, <2>2
<1>3. PICK M1, e : M1 \in Nat /\ M1 = missed' /\ e = Head(air')
  <2>1. missed' \in Nat
    BY MissMaxTyped DEF TypeInv, TypeOK
  <2> QED
    BY <2>1
<1>4. CASE q # 10
  <2>1. Covers(fed.stream, d, q, A - M, l)
    BY <1>1, <1>4 DEF Paid
  <2>2. M1 = 0 \/ M1 = M
    BY <1>2, <1>3, <1>4
  <2>3. PICK x \in Int, y \in Int : x = A - M /\ y = A - M1 /\ y >= x
    <3>1. M \in Nat /\ M1 \in Nat /\ A \in Int /\ M1 <= M
      BY <1>3, <2>2
    <3>2. A - M \in Int /\ A - M1 \in Int /\ A - M1 >= A - M
      BY <3>1, MissedLess
    <3> QED
      BY <3>2
  <2>5. Covers(fed.stream, d, q, x, l)
    BY <2>1, <2>3
  <2>6. Covers(fed.stream, d, q, y, l)
    <3>1. y >= x /\ Covers(fed.stream, d, q, x, l)
      BY <2>3, <2>5
    <3> QED
      BY <3>1, CoversMore
  <2>4. stream' = fed.stream /\ Head(air') = d /\ pos' = q
    BY <1>2, <1>4
  <2> QED
    BY <1>1, <1>3, <2>3, <2>4, <2>6 DEF MissInv
<1>5. CASE q = 10
  <2>1. \/ Docs(fed) # {} /\ Covers(fed.stream, e, 0, A - M, l)
        \/ Covers(fed.stream, e, 0, A - M - 1, l)
    BY <1>1, <1>5 DEF Paid
  <2>2. PICK x \in Int, w \in Int, y \in Int :
            /\ x = A - M /\ w = A - M - 1 /\ y = A - M1
            /\ y >= w /\ (Docs(fed) # {} => y >= x)
    <3>1. M1 = 0 \/ M1 = M \/ M1 = M + 1
      BY <1>2, <1>3
    <3>2. Docs(fed) # {} => M1 = 0
      BY <1>2, <1>3
    <3>3. M \in Nat /\ M1 \in Nat /\ A \in Int /\ M1 <= M + 1
      BY <1>3, <3>1
    <3>4. A - M \in Int /\ A - M - 1 \in Int /\ A - M1 \in Int /\ A - M1 >= A - M - 1
      BY <3>3, MissedLess
    <3>5. Docs(fed) # {} => A - M1 >= A - M
      <4>1. Docs(fed) # {} => M1 <= M
        BY <3>2, <3>3
      <4> QED
        BY <3>3, <4>1, MissedLess
    <3> QED
      BY <3>4, <3>5
  <2>3. Covers(fed.stream, e, 0, y, l)
    <3>1. CASE Docs(fed) # {} /\ Covers(fed.stream, e, 0, A - M, l)
      <4>1. y >= x /\ Covers(fed.stream, e, 0, x, l)
        BY <2>2, <3>1
      <4> QED
        BY <4>1, CoversMore
    <3>2. CASE Covers(fed.stream, e, 0, A - M - 1, l)
      <4>1. y >= w /\ Covers(fed.stream, e, 0, w, l)
        BY <2>2, <3>2
      <4> QED
        BY <4>1, CoversMore
    <3> QED
      BY <2>1, <3>1, <3>2
  <2>4. stream' = fed.stream /\ pos' = 0
    BY <1>2, <1>5
  <2> QED
    BY <1>1, <1>3, <2>2, <2>3, <2>4 DEF MissInv
<1> QED
  BY <1>4, <1>5

LEMMA PlainsTyped ==
    \A b \in Documents : Plain(b) \in Seq(Units(Documents))
<1> SUFFICES ASSUME NEW b \in Documents PROVE Plain(b) \in Seq(Units(Documents))
  OBVIOUS
<1>1. {b} \subseteq Documents
  OBVIOUS
<1>2. Units({b}) \subseteq Units(Documents)
  BY <1>1, HoldingGrows
<1> QED
  BY <1>2, PlainTyped, SeqGrows

LEMMA MissReceive ==
    ASSUME TypeInv, MissInv, MaxSize >= 18, Receive, TypeInv'
    PROVE  MissInv'
<1>1. PICK m \in 1..10 :
          /\ listening /\ air # <<>> /\ pos + m \in Cuts \cup {10}
          /\ Hear(m) \/ Lose(m) \/ Garble(m)
  BY ShapeIs DEF Receive
<1>2. pos \in 0..9 /\ pos + m \in 1..10 /\ air \in Seq(Documents)
  <2>1. /\ pos \in Cuts \cup {0} /\ Cuts \subseteq 1..9 /\ air \in Seq(Documents)
    BY WriteTestAssumption, ShapeIs DEF TypeInv, TypeOK
  <2> QED
    BY <1>1, <2>1
<1>3. PICK d \in Documents, p \in 0..9, s \in {stream} : s = stream /\ d = Head(air) /\ p = pos
  <2>1. Head(air) \in Documents
    BY <1>1, <1>2
  <2> QED
    BY <1>2, <2>1
<1>4. PICK q \in (p+1)..10 : q = p + m
  BY <1>2, <1>3
<1>5. /\ Len(Rest) = 10 - pos /\ SubSeq(Rest, 1, m) = Bytes(d, p, q)
  <2>1. p + m <= 10
    BY <1>4
  <2>2. Len(From(UnitsOf(d), p + 1)) = 10 - p
    BY <2>1, PayloadTyped
  <2>3. q - p = m
    BY <1>4
  <2> QED
    BY <1>3, <2>2, <2>3 DEF Rest, Bytes
<1>6. PICK U : U = Units(Documents)
  OBVIOUS
<1>7. Kept(s, U) /\ \A b \in Documents : Plain(b) \in Seq(U)
  BY <1>3, <1>6, PlainsTyped DEF MissInv
<1>8. /\ Kept(Feed(s, Bytes(d, p, q)).stream, U)
      /\ Kept(Feed(s, <<>>).stream, U)
      /\ Kept(Feed(s, <<<<"bad">>>>).stream, U)
  BY <1>7, FedKept
<1>9. PICK A \in Nat, M \in Nat, f \in Nat, a \in Nat, l \in BOOLEAN :
          /\ A = Allowance /\ M = missed /\ f = faults /\ a = MissMax /\ l = lost
          /\ A <= a * f /\ a * f \in Nat /\ a >= 2 /\ (~l => A = 2 * f) /\ (l => A = a * f)
  BY AllowanceIs, FewerMissed DEF Allowance
<1>10. a * (f + 1) = a * f + a /\ a * (f + 1) \in Nat
  BY <1>9, OneMore
<1>11. Covers(s, d, p, A - M, l) /\ A - M >= 0
  <2>1. Covers(s, d, p, A - M, l)
    BY <1>3, <1>9 DEF MissInv
  <2>2. A - M \in Int /\ A - M >= A - M
    OBVIOUS
  <2> QED
    BY <2>1, <2>2, CoversMore
<1>12. CASE Hear(m)
  <2>1. Packet(m, Bytes(d, p, q)) /\ faults' = faults /\ lost' = lost
    BY <1>5, <1>12 DEF Hear
  <2>2. Allowance' = A /\ A \in Int /\ lost' = l
    BY <1>9, <2>1 DEF Allowance
  <2>3. Paid(Feed(s, Bytes(d, p, q)), d, q, A - M, l)
    <3>1. A - M \in Int
      OBVIOUS
    <3> QED
      BY <1>7, <1>11, <3>1, HeardPaid
  <2>4. q \in 1..10 /\ q = pos + m
    BY <1>3, <1>4
  <2> QED
    BY <1>1, <1>2, <1>3, <1>5, <1>6, <1>8, <1>9, <2>1, <2>2, <2>3, <2>4, PacketPaid
<1>13. CASE Lose(m)
  <2>1. Packet(m, <<>>) /\ faults' = f + 1 /\ lost' = TRUE
    BY <1>9, <1>13 DEF Lose, Fault
  <2>2. PICK B \in Int : B = Allowance' /\ B = a * (f + 1)
    BY <1>9, <1>10, <2>1 DEF Allowance
  <2>3. Paid(Feed(s, <<>>), d, q, B - M, TRUE)
    <3>1. B - M \in Int /\ B - M >= MissMax
      BY <1>9, <1>10, <1>11, <2>2
    <3> QED
      BY <1>7, <3>1, FaultPaid
  <2>4. q \in 1..10 /\ q = pos + m
    BY <1>3, <1>4
  <2> QED
    BY <1>1, <1>2, <1>3, <1>5, <1>6, <1>8, <1>9, <2>1, <2>2, <2>3, <2>4, PacketPaid
<1>14. CASE Garble(m)
  <2>1. Packet(m, <<<<"bad">>>>) /\ faults' = f + 1 /\ lost' = l
    BY <1>9, <1>14 DEF Garble, Fault
  <2>2. PICK B \in Int : B = Allowance' /\ B >= A + 2
    BY <1>9, <1>10, <2>1 DEF Allowance
  <2>3. Paid(Feed(s, <<<<"bad">>>>), d, q, B - M, l)
    <3>1. B - M \in Int /\ B - M >= 2
      <4>1. A \in Int /\ B \in Int /\ M \in Int /\ A - M >= 0 /\ B >= A + 2
        BY <1>9, <1>11, <2>2
      <4> QED
        BY <4>1
    <3> QED
      BY <1>7, <3>1, FaultPaid
  <2>4. q \in 1..10 /\ q = pos + m
    BY <1>3, <1>4
  <2> QED
    BY <1>1, <1>2, <1>3, <1>5, <1>6, <1>8, <1>9, <2>1, <2>2, <2>3, <2>4, PacketPaid
<1> QED
  BY <1>1, <1>12, <1>13, <1>14

LEMMA OthersMiss ==
    ASSUME Others
    PROVE  missed' = missed /\ lost' = lost /\ (faults' = faults \/ Fault)
<1>1. faults' = faults \/ Fault
  BY DEF Others, Connect, Subscribe, ReadDocument, Provoke, Write, Restore, NextTest,
         Provoked, Echo, Confirm, Take, TimesOut, Touch
<1>2. missed' = missed /\ lost' = lost
  BY DEF Others, Connect, Subscribe, ReadDocument, Provoke, Write, Restore, NextTest,
         Provoked, Echo, Confirm, Take, TimesOut, Touch, history
<1> QED
  BY <1>1, <1>2

\* A stream with nothing in it, before a document.
LEMMA MissEmpty ==
    ASSUME TypeInv, MissInv \/ missed = 0, stream' = Empty, pos' = 0,
           missed' = missed, lost' = lost, faults' = faults
    PROVE  MissInv'
<1>1. Kept(stream', Units(Documents))
  BY RaisedKept DEF Raised
<1>2. PICK A \in Nat, M \in Nat, l \in BOOLEAN : A = Allowance /\ M = missed /\ l = lost
  BY AllowanceIs
<1>3. PICK x \in Int : x = A - M /\ x >= 0
  <2>1. A - M \in Int
    OBVIOUS
  <2>2. CASE missed = 0
    BY <1>2, <2>1, <2>2
  <2>3. CASE MissInv
    <3>1. PICK s, d, p : s = stream /\ d = Head(air) /\ p = pos
      OBVIOUS
    <3>2. PICK y \in Int : y = A - M
      BY <2>1
    <3>3. y >= y /\ Covers(s, d, p, y, l)
      BY <1>2, <2>3, <3>1, <3>2 DEF MissInv
    <3>4. y >= 0
      BY <3>3, CoversMore
    <3> QED
      BY <3>2, <3>4
  <2> QED
    BY <2>2, <2>3
<1>4. PICK e : e = Head(air')
  OBVIOUS
<1>5. Covers(Empty, e, 0, x, l)
  <2>1. Synced(Empty, e, 0)
    BY PrefixBegins DEF Synced
  <2> QED
    BY <1>3, <2>1 DEF Covers
<1>6. Allowance' = A
  BY <1>2 DEF Allowance
<1> QED
  BY <1>1, <1>2, <1>3, <1>4, <1>5, <1>6 DEF MissInv

LEMMA MissInit == Init => MissInv
<1> SUFFICES ASSUME Init PROVE MissInv
  OBVIOUS
<1>1. stream = Empty /\ pos = 0 /\ missed = 0 /\ lost = FALSE /\ faults = 0
  BY DEF Init
<1>2. Kept(stream, Units(Documents))
  BY <1>1, RaisedKept DEF Raised
<1>3. PICK e : e = Head(air)
  OBVIOUS
<1>4. Synced(Empty, e, 0)
  BY PrefixBegins DEF Synced
<1>5. Covers(Empty, e, 0, 0, FALSE)
  BY <1>4 DEF Covers
<1>6. Allowance - missed = 0
  BY <1>1 DEF Allowance
<1> QED
  BY <1>1, <1>2, <1>3, <1>5, <1>6 DEF MissInv

LEMMA MissStep == TypeInv /\ MissInv /\ MaxSize >= 18 /\ [Next]_vars => MissInv'
<1> SUFFICES ASSUME TypeInv, MissInv, MaxSize >= 18, [Next]_vars PROVE MissInv'
  OBVIOUS
<1>1. TypeInv'
  BY TypeStep
<1>2. CASE Receive
  BY <1>1, <1>2, MissReceive
<1>3. CASE Others
  <2>1. missed' = missed /\ lost' = lost /\ (faults' = faults \/ Fault)
    BY <1>3, OthersMiss
  <2>2. /\ air' = air \/ \E doc : air' = Append(air, doc)
        /\ pos' = pos /\ stream' = stream
    BY <1>3, OthersAnnounce
  <2> QED
    BY <1>1, <2>1, <2>2, MissKeeps
<1>4. CASE Stop
  <2>1. /\ stream' = Empty /\ pos' = 0
        /\ missed' = missed /\ lost' = lost /\ faults' = faults
    BY <1>4 DEF Stop, Unlistened, history
  <2> QED
    BY <2>1, MissEmpty
<1>5. CASE UNCHANGED vars
  <2>1. /\ stream' = stream /\ air' = air /\ pos' = pos
        /\ missed' = missed /\ lost' = lost /\ faults' = faults
    BY <1>5 DEF vars, window, watcher, history
  <2> QED
    BY <1>1, <2>1, MissKeeps
<1> QED
  BY <1>2, <1>3, <1>4, <1>5, NextIs

LEMMA MissMeans ==
    ASSUME TypeInv, MissInv
    PROVE  Resyncs /\ SpoiltBriefly
<1>1. PICK A \in Nat, M \in Nat, l \in BOOLEAN : A = Allowance /\ M = missed /\ l = lost
  BY AllowanceIs
<1>2. PICK s, d, p : s = stream /\ d = Head(air) /\ p = pos
  OBVIOUS
<1>3. PICK x \in Int : x = A - M
  BY <1>1
<1>4. x >= x /\ Covers(s, d, p, x, l)
  BY <1>1, <1>2, <1>3 DEF MissInv
<1>5. x >= 0
  BY <1>4, CoversMore
<1>6. M <= A
  BY <1>3, <1>5
<1>7. A <= MissMax * faults /\ MissMax * faults \in Nat /\ (~lost => A = 2 * faults)
  BY <1>1, AllowanceIs
<1>8. missed <= MissMax * faults
  BY <1>1, <1>6, <1>7
<1>9. ~lost => missed <= 2 * faults
  BY <1>1, <1>6, <1>7
<1> QED
  BY <1>8, <1>9 DEF Resyncs, SpoiltBriefly

LEMMA MissAlways == MaxSize >= 18 /\ Spec => [](TypeInv /\ MissInv)
<1> SUFFICES ASSUME MaxSize >= 18 PROVE Spec => [](TypeInv /\ MissInv)
  OBVIOUS
<1>1. Init => TypeInv /\ MissInv
  BY TypeInit, MissInit
<1>2. TypeInv /\ MissInv /\ [Next]_vars => (TypeInv /\ MissInv)'
  BY TypeStep, MissStep
<1> QED
  BY <1>1, <1>2, PTL DEF Spec

\* Given room for two documents, and until a packet is lost: however documents
\* are cut and whatever packets are garbled, each garbled packet costs at most
\* two documents in a row, the one it was part of and one that it held up
\* (protocol.py:256, "anything buffered before it is suspect").
THEOREM ResyncsAlways == MaxSize >= 18 /\ Spec => []Resyncs
<1>1. TypeInv /\ MissInv => Resyncs
  BY MissMeans
<1> QED
  BY <1>1, MissAlways, PTL

\* Given room for two documents: however many packets are lost or garbled, each
\* costs at most the documents that fit the limit and three more, whatever object
\* was left open (protocol.py:260, the limit that empties the buffer).
THEOREM SpoiltBrieflyAlways == MaxSize >= 18 /\ Spec => []SpoiltBriefly
<1>1. TypeInv /\ MissInv => SpoiltBriefly
  BY MissMeans
<1> QED
  BY <1>1, MissAlways, PTL
=============================================================================
