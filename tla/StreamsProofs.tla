--------------------------- MODULE StreamsProofs ---------------------------
(***************************************************************************)
(* What Streams' feed returns and keeps.  For payloads of any length: only *)
(* what it was fed, whole objects, and no more than the limit (FeedMade).  *)
(* For a document cut anywhere: the document, with its last byte and not   *)
(* before (FeedInOrder).  For what is left of one, alone or in front of    *)
(* the next: what the loop makes of it, on which ResyncProofs rests.  And  *)
(* TextFeed, for a text cut in two (TextCut).                              *)
(*                                                                         *)
(* Recursion is over positions in a text.  Induction over them is done     *)
(* with sets: one that has 0 and is closed under the successor has every   *)
(* position, since the naturals are well founded.                          *)
(***************************************************************************)
EXTENDS Streams, FiniteSetTheorems, WellFoundedInduction, TLAPS

LEMMA Least ==
    ASSUME NEW T, T \subseteq Nat, T # {}
    PROVE  \E m \in T : \A k \in T : m <= k
<1> DEFINE R == {ss \in Nat \X Nat : ss[1] < ss[2]}
<1>1. IsWellFoundedOn(R, Nat)
  BY NatLessThanWellFounded DEF OpToRel
<1>2. PICK m \in T : \A k \in T : ~ (<<k, m>> \in R)
  <2> HIDE DEF R
  <2> QED
    BY <1>1, WFMin
<1>3. \A k \in T : ~(k < m)
  BY <1>2
<1>4. m \in Nat /\ \A k \in T : k \in Nat
  OBVIOUS
<1> QED
  BY <1>3, <1>4

LEMMA Positions ==
    ASSUME NEW T, NEW N \in Nat, 0 \in T, \A n \in 0..(N-1) : n \in T => n + 1 \in T
    PROVE  \A n \in 0..N : n \in T
<1> SUFFICES ASSUME NEW n \in 0..N, n \notin T PROVE FALSE
  OBVIOUS
<1> DEFINE B == {k \in 0..N : k \notin T}
<1>1. B \subseteq Nat /\ B # {}
  OBVIOUS
<1>2. PICK m \in B : \A k \in B : m <= k
  <2> HIDE DEF B
  <2> QED
    BY <1>1, Least
<1>3. m # 0 /\ m - 1 \in 0..(N-1) /\ m = (m - 1) + 1
  BY <1>2
<1>4. m - 1 \in T
  BY <1>2, <1>3
<1> QED
  BY <1>2, <1>3, <1>4

-----------------------------------------------------------------------------
(* The two recursions are functions                                        *)

\* The recursion of Decoded, and of Drained, up to the Nth position.
Keeps(f, u, N) ==
    f = [n \in 0..N |->
            IF n = 0 THEN <<>>
            ELSE IF u[n][1] = "tail" THEN f[n-1] ELSE Append(f[n-1], u[n])]
Runs(f, text, N) ==
    f = [n \in 0..N |->
            IF n = 0 THEN [on |-> TRUE, text |-> text, out |-> <<>>]
            ELSE Round(f[n-1])]

LEMMA KeepsExists ==
    ASSUME NEW u, NEW N \in Nat
    PROVE  \E f : Keeps(f, u, N)
<1> DEFINE T == {n \in 0..N : \E f : Keeps(f, u, n)}
<1>1. 0 \in T
  <2>1. Keeps([n \in 0..0 |-> <<>>], u, 0)
    BY DEF Keeps
  <2> QED
    BY <2>1
<1>2. ASSUME NEW m \in 0..(N-1), m \in T PROVE m + 1 \in T
  <2>1. PICK f : Keeps(f, u, m)
    BY <1>2
  <2> DEFINE next == IF u[m+1][1] = "tail" THEN f[m] ELSE Append(f[m], u[m+1])
             g == [n \in 0..(m+1) |-> IF n = m + 1 THEN next ELSE f[n]]
  <2>2. ASSUME NEW n \in 0..(m+1)
        PROVE  g[n] = IF n = 0 THEN <<>>
                      ELSE IF u[n][1] = "tail" THEN g[n-1] ELSE Append(g[n-1], u[n])
    <3>1. CASE n = m + 1
      BY <3>1
    <3>2. CASE n # m + 1
      <4>1. n \in 0..m /\ g[n] = f[n] /\ (n # 0 => g[n-1] = f[n-1])
        BY <3>2
      <4>2. f[n] = IF n = 0 THEN <<>>
                   ELSE IF u[n][1] = "tail" THEN f[n-1] ELSE Append(f[n-1], u[n])
        BY <2>1, <4>1 DEF Keeps
      <4> HIDE DEF g
      <4> QED
        BY <4>1, <4>2
    <3> QED
      BY <3>1, <3>2
  <2>3. Keeps(g, u, m + 1)
    <3>1. g = [n \in 0..(m+1) |-> g[n]]
      OBVIOUS
    <3> HIDE DEF g
    <3> QED
      BY <2>2, <3>1 DEF Keeps
  <2> QED
    BY <2>3
<1> HIDE DEF T
<1>3. N \in T
  BY <1>1, <1>2, Positions
<1> QED
  BY <1>3 DEF T

LEMMA RunsExists ==
    ASSUME NEW text, NEW N \in Nat
    PROVE  \E f : Runs(f, text, N)
<1> DEFINE start == [on |-> TRUE, text |-> text, out |-> <<>>]
           T == {n \in 0..N : \E f : Runs(f, text, n)}
<1>1. 0 \in T
  <2>1. Runs([n \in 0..0 |-> start], text, 0)
    BY DEF Runs
  <2> QED
    BY <2>1
<1>2. ASSUME NEW m \in 0..(N-1), m \in T PROVE m + 1 \in T
  <2>1. PICK f : Runs(f, text, m)
    BY <1>2
  <2> DEFINE g == [n \in 0..(m+1) |-> IF n = m + 1 THEN Round(f[m]) ELSE f[n]]
  <2>2. ASSUME NEW n \in 0..(m+1)
        PROVE  g[n] = IF n = 0 THEN start ELSE Round(g[n-1])
    <3>1. CASE n = m + 1
      BY <3>1
    <3>2. CASE n # m + 1
      <4>1. n \in 0..m /\ g[n] = f[n] /\ (n # 0 => g[n-1] = f[n-1])
        BY <3>2
      <4>2. f[n] = IF n = 0 THEN start ELSE Round(f[n-1])
        BY <2>1, <4>1 DEF Runs
      <4> HIDE DEF g, start
      <4> QED
        BY <4>1, <4>2
    <3> QED
      BY <3>1, <3>2
  <2>3. Runs(g, text, m + 1)
    <3>1. g = [n \in 0..(m+1) |-> g[n]]
      OBVIOUS
    <3> HIDE DEF g
    <3> QED
      BY <2>2, <3>1 DEF Runs
  <2> QED
    BY <2>3
<1> HIDE DEF T
<1>3. N \in T
  BY <1>1, <1>2, Positions
<1> QED
  BY <1>3 DEF T

LEMMA PendingSize ==
    ASSUME NEW U, NEW u \in Seq(U)
    PROVE  /\ Pending(u) \in Seq(U) /\ Len(Pending(u)) \in {0, 1} /\ Len(Pending(u)) <= 1
           /\ Len(u) - Len(Pending(u)) \in 0..Len(u)
           /\ Pending(u) # <<>> => u # <<>> /\ Pending(u) = <<u[Len(u)]>> /\ u[Len(u)][1] = "lead"
BY DEF Pending, Last

LEMMA DecodedIs ==
    ASSUME NEW U, NEW u \in Seq(U)
    PROVE  \E f : Keeps(f, u, Len(u)) /\ Decoded(u) = f[Len(u) - Len(Pending(u))]
<1> DEFINE f == CHOOSE f : Keeps(f, u, Len(u))
<1>1. Len(u) \in Nat
  OBVIOUS
<1>2. Keeps(f, u, Len(u))
  BY <1>1, KeepsExists
<1>3. Decoded(u) = f[Len(u) - Len(Pending(u))]
  BY DEF Decoded, Keeps
<1> QED
  BY <1>2, <1>3

LEMMA DrainedIs ==
    ASSUME NEW U, NEW text \in Seq(U)
    PROVE  \E f : Runs(f, text, Len(text)) /\ Drained(text) = f[Len(text)]
<1> DEFINE f == CHOOSE f : Runs(f, text, Len(text))
<1>1. Len(text) \in Nat
  OBVIOUS
<1>2. Runs(f, text, Len(text))
  BY <1>1, RunsExists
<1>3. Drained(text) = f[Len(text)]
  BY DEF Drained, Runs
<1> QED
  BY <1>2, <1>3

-----------------------------------------------------------------------------
(* A unit's character, apart from what the texts it is in are              *)

IsTail(u, n) == u[n][1] = "tail"
Opens(s) == s[1][1] = "open"
Chained(s, i) == <<s[i][1], s[i+1][1]>> \in Follows

LEMMA KeepsStep ==
    ASSUME NEW f, NEW u, NEW N \in Nat, Keeps(f, u, N)
    PROVE  /\ f[0] = <<>>
           /\ \A n \in 0..(N-1) :
                  f[n+1] = IF IsTail(u, n + 1) THEN f[n] ELSE Append(f[n], u[n+1])
<1> DEFINE g(n) == IF n = 0 THEN <<>>
                   ELSE IF IsTail(u, n) THEN f[n-1] ELSE Append(f[n-1], u[n])
<1>1. f = [n \in 0..N |-> g(n)]
  BY DEF Keeps, IsTail
<1>2. \A n \in 0..N : f[n] = g(n)
  <2> HIDE DEF g
  <2> QED
    BY <1>1
<1>3. f[0] = g(0) /\ \A n \in 0..(N-1) : f[n+1] = g(n + 1) /\ (n + 1) - 1 = n /\ n + 1 # 0
  <2> HIDE DEF g
  <2> QED
    BY <1>2
<1> QED
  BY <1>3

LEMMA InEnds ==
    ASSUME NEW s, NEW e
    PROVE  e \in Ends(s) <=>
               /\ e \in DOMAIN s /\ Depth(s, e) = 0
               /\ \A i \in 1..(e-1) : Depth(s, i) > 0 /\ Chained(s, i)
BY DEF Ends, Chained

LEMMA SameChain ==
    ASSUME NEW s, NEW o, NEW i, o[i] = s[i], o[i+1] = s[i+1]
    PROVE  Chained(o, i) <=> Chained(s, i)
BY DEF Chained

LEMMA SameDepth ==
    ASSUME NEW s, NEW o, NEW j, \A i \in 1..j : o[i] = s[i]
    PROVE  Depth(o, j) = Depth(s, j)
<1>1. \A c : {i \in 1..j : o[i][1] = c} = {i \in 1..j : s[i][1] = c}
  OBVIOUS
<1> QED
  BY <1>1 DEF Depth

LEMMA RoundCases ==
    ASSUME NEW r
    PROVE  \/ Round(r) = r
           \/ /\ r.text # <<>> /\ Opens(r.text)
              /\ \E e \in Ends(r.text) :
                     Round(r) = [r EXCEPT !.text = From(r.text, e + 1),
                                          !.out = Append(r.out, SubSeq(r.text, 1, e))]
           \/ r.text # <<>> /\ Round(r) = [r EXCEPT !.text = Tail(r.text)]
           \/ Round(r) = [r EXCEPT !.on = FALSE]
           \/ Round(r) = [r EXCEPT !.on = FALSE, !.text = Skipped(r.text)]
<1> DEFINE ends == IF Opens(r.text) THEN Ends(r.text) ELSE {}
           e == CHOOSE j \in ends : TRUE
<1>1. CASE ~r.on \/ r.text = <<>>
  BY <1>1 DEF Round
<1>2. CASE r.on /\ r.text # <<>> /\ ends # {}
  <2>1. e \in Ends(r.text) /\ Opens(r.text)
    BY <1>2
  <2>2. Round(r) = [r EXCEPT !.text = From(@, e + 1), !.out = Append(@, SubSeq(r.text, 1, e))]
    BY <1>2 DEF Round, Opens
  <2> HIDE DEF e
  <2> QED
    BY <1>2, <2>1, <2>2
<1>3. CASE r.on /\ r.text # <<>> /\ ends = {}
  BY <1>3 DEF Round, Opens
<1> QED
  BY <1>1, <1>2, <1>3

-----------------------------------------------------------------------------
(* Only what it was fed                                                    *)

LEMMA Indexed ==
    ASSUME NEW U, NEW s \in Seq(U)
    PROVE  Len(s) \in Nat /\ DOMAIN s = 1..Len(s) /\ \A i \in 1..Len(s) : s[i] \in U
OBVIOUS

LEMMA DecodedTyped ==
    ASSUME NEW U, NEW u \in Seq(U)
    PROVE  Decoded(u) \in Seq(U)
<1>1. PICK f : Keeps(f, u, Len(u)) /\ Decoded(u) = f[Len(u) - Len(Pending(u))]
  BY DecodedIs
<1> DEFINE N == Len(u)
           T == {n \in 0..N : f[n] \in Seq(U)}
<1>2. N \in Nat
  OBVIOUS
<1>3. 0 \in T
  <2>1. f[0] = <<>>
    BY <1>1, <1>2, KeepsStep
  <2>2. f[0] \in Seq(U)
    BY <2>1
  <2> QED
    BY <1>2, <2>2
<1>4. ASSUME NEW n \in 0..(N-1), n \in T PROVE n + 1 \in T
  <2>1. f[n+1] = IF IsTail(u, n + 1) THEN f[n] ELSE Append(f[n], u[n+1])
    BY <1>1, <1>2, KeepsStep
  <2>2. u[n+1] \in U /\ f[n] \in Seq(U)
    BY <1>4
  <2>3. f[n+1] \in Seq(U)
    BY <2>1, <2>2
  <2> QED
    BY <2>3
<1>5. \A n \in 0..N : n \in T
  <2> HIDE DEF T, N
  <2> QED
    BY <1>2, <1>3, <1>4, Positions
<1> QED
  BY <1>1, <1>5, PendingSize

\* What the loop takes off the front: an object from its first brace to its
\* last.
Whole(o) == o # <<>> /\ Opens(o) /\ Len(o) \in Ends(o)

LEMMA PartEnds ==
    ASSUME NEW U, NEW s \in Seq(U), s # <<>>, Opens(s), NEW e \in Ends(s)
    PROVE  e \in 1..Len(s) /\ SubSeq(s, 1, e) \in Seq(U) /\ Whole(SubSeq(s, 1, e))
<1> DEFINE o == SubSeq(s, 1, e)
<1>1. /\ e \in 1..Len(s) /\ Len(s) \in Nat /\ Depth(s, e) = 0
      /\ \A i \in 1..(e-1) : Depth(s, i) > 0 /\ Chained(s, i)
  BY InEnds, Indexed
<1>2. o \in Seq(U) /\ Len(o) = e /\ \A i \in 1..e : o[i] = s[i]
  BY <1>1
<1>3. DOMAIN o = 1..e /\ o # <<>>
  BY <1>1, <1>2
<1> HIDE DEF o
<1>4. ASSUME NEW j \in 1..e PROVE Depth(o, j) = Depth(s, j)
  BY <1>1, <1>2, SameDepth
<1>5. ASSUME NEW i \in 1..(e-1) PROVE Chained(o, i)
  BY <1>1, <1>2, SameChain
<1>6. e \in Ends(o)
  BY <1>1, <1>3, <1>4, <1>5, InEnds
<1>7. Opens(o)
  <2>1. o[1] = s[1]
    BY <1>1, <1>2
  <2> QED
    BY <2>1 DEF Opens
<1> QED
  BY <1>1, <1>2, <1>3, <1>6, <1>7 DEF Whole, o

\* A state of the loop, and what a round may do to it.
Rounds(U) == [on : BOOLEAN, text : Seq(U), out : Seq(Seq(U))]
Made(r, U, N) ==
    /\ r \in Rounds(U) /\ Len(r.text) <= N
    /\ \A i \in DOMAIN r.out : Whole(r.out[i])

LEMMA FromTyped ==
    ASSUME NEW U, NEW s \in Seq(U), NEW j \in 1..(Len(s) + 1)
    PROVE  From(s, j) \in Seq(U) /\ Len(From(s, j)) = Len(s) - j + 1
BY DEF From

LEMMA SkippedTyped ==
    ASSUME NEW U, NEW s \in Seq(U)
    PROVE  Skipped(s) \in Seq(U) /\ Len(Skipped(s)) <= Len(s)
<1>1. CASE Opening(s) = {}
  BY <1>1 DEF Skipped
<1>2. CASE Opening(s) # {}
  <2>1. Opening(s) \subseteq DOMAIN s
    BY DEF Opening
  <2>2. Opening(s) \subseteq 1..Len(s) /\ Opening(s) \subseteq Nat
    BY <2>1, Indexed
  <2>3. \E m \in Opening(s) : \A i \in Opening(s) : m <= i
    BY <1>2, <2>2, Least
  <2> DEFINE j == CHOOSE j \in Opening(s) : \A i \in Opening(s) : j <= i
  <2>4. j \in Opening(s)
    BY <2>3
  <2>5. Skipped(s) = From(s, j)
    BY <1>2 DEF Skipped
  <2> HIDE DEF j
  <2> QED
    BY <2>2, <2>4, <2>5, FromTyped, Indexed
<1> QED
  BY <1>1, <1>2

LEMMA RoundMade ==
    ASSUME NEW U, NEW N \in Nat, NEW r, Made(r, U, N)
    PROVE  Made(Round(r), U, N)
<1>1. r \in Rounds(U) /\ r.text \in Seq(U) /\ Len(r.text) <= N /\ r.out \in Seq(Seq(U))
  BY DEF Made, Rounds
<1>2. ASSUME r.text # <<>>, Opens(r.text), NEW e \in Ends(r.text),
             Round(r) = [r EXCEPT !.text = From(r.text, e + 1),
                                  !.out = Append(r.out, SubSeq(r.text, 1, e))]
      PROVE  Made(Round(r), U, N)
  <2> DEFINE o == SubSeq(r.text, 1, e)
             t == From(r.text, e + 1)
             a == Append(r.out, o)
  <2>1. e \in 1..Len(r.text) /\ o \in Seq(U) /\ Whole(o)
    BY <1>1, <1>2, PartEnds
  <2>2. t \in Seq(U) /\ Len(t) <= N
    BY <1>1, <2>1, FromTyped, Indexed
  <2> HIDE DEF o, t
  <2>3. a \in Seq(Seq(U)) /\ \A i \in DOMAIN a : Whole(a[i])
    BY <1>1, <2>1 DEF Made
  <2> HIDE DEF a
  <2>4. Round(r) = [r EXCEPT !.text = t, !.out = a]
    BY <1>2 DEF a, o, t
  <2>5. Round(r).text = t /\ Round(r).out = a /\ Round(r) \in Rounds(U)
    BY <1>1, <2>2, <2>3, <2>4 DEF Rounds
  <2> QED
    BY <2>2, <2>3, <2>5 DEF Made
<1>3. ASSUME NEW t, NEW b \in BOOLEAN, t \in Seq(U), Len(t) <= Len(r.text),
             Round(r) = [r EXCEPT !.on = b, !.text = t]
      PROVE  Made(Round(r), U, N)
  <2>1. Round(r).text = t /\ Round(r).out = r.out /\ Round(r) \in Rounds(U)
    BY <1>1, <1>3 DEF Rounds
  <2>2. Len(t) \in Nat /\ Len(r.text) \in Nat
    BY <1>1, <1>3
  <2> QED
    BY <1>1, <1>3, <2>1, <2>2 DEF Made
<1>4. ASSUME r.text # <<>>, Round(r) = [r EXCEPT !.text = Tail(r.text)]
      PROVE  Made(Round(r), U, N)
  <2>1. Tail(r.text) \in Seq(U) /\ Len(Tail(r.text)) <= Len(r.text)
    BY <1>1, <1>4
  <2>2. Round(r) = [r EXCEPT !.on = r.on, !.text = Tail(r.text)] /\ r.on \in BOOLEAN
    BY <1>1, <1>4 DEF Rounds
  <2> QED
    BY <1>3, <2>1, <2>2
<1>5. ASSUME Round(r) = [r EXCEPT !.on = FALSE] PROVE Made(Round(r), U, N)
  <2>1. Round(r) = [r EXCEPT !.on = FALSE, !.text = r.text]
    BY <1>1, <1>5 DEF Rounds
  <2>2. Len(r.text) <= Len(r.text)
    BY <1>1
  <2> QED
    BY <1>1, <1>3, <2>1, <2>2
<1>6. ASSUME Round(r) = [r EXCEPT !.on = FALSE, !.text = Skipped(r.text)]
      PROVE  Made(Round(r), U, N)
  BY <1>1, <1>3, <1>6, SkippedTyped
<1> QED
  BY <1>2, <1>4, <1>5, <1>6, RoundCases

LEMMA RunsStep ==
    ASSUME NEW f, NEW text, NEW N \in Nat, Runs(f, text, N)
    PROVE  /\ f[0] = [on |-> TRUE, text |-> text, out |-> <<>>]
           /\ \A n \in 0..(N-1) : f[n+1] = Round(f[n])
BY DEF Runs

LEMMA DrainedMade ==
    ASSUME NEW U, NEW text \in Seq(U)
    PROVE  Made(Drained(text), U, Len(text))
<1>1. PICK f : Runs(f, text, Len(text)) /\ Drained(text) = f[Len(text)]
  BY DrainedIs
<1> DEFINE N == Len(text)
           T == {n \in 0..N : Made(f[n], U, N)}
<1>2. N \in Nat
  OBVIOUS
<1>3. 0 \in T
  <2>1. f[0] = [on |-> TRUE, text |-> text, out |-> <<>>]
    BY <1>1, <1>2, RunsStep
  <2>2. Made(f[0], U, N)
    BY <2>1 DEF Made, Rounds
  <2> QED
    BY <1>2, <2>2
<1>4. ASSUME NEW n \in 0..(N-1), n \in T PROVE n + 1 \in T
  <2>1. f[n+1] = Round(f[n])
    BY <1>1, <1>2, RunsStep
  <2>2. Made(f[n], U, N)
    BY <1>4
  <2>3. n + 1 \in 0..N
    BY <1>2
  <2> HIDE DEF N
  <2>4. Made(f[n+1], U, N)
    BY <1>2, <2>1, <2>2, RoundMade
  <2> QED
    BY <2>3, <2>4
<1>5. \A n \in 0..N : n \in T
  <2> HIDE DEF T, N
  <2> QED
    BY <1>2, <1>3, <1>4, Positions
<1> QED
  BY <1>1, <1>2, <1>5

\* Whatever packets are fed, malformed ones, fragments and any order of them
\* included: what comes out of the stream, or stays in it, went into it; what
\* comes out is whole objects, from their first brace to the one that closes it;
\* and what stays is held to the limit, whatever came (protocol.py:253, feed).
THEOREM FeedMade ==
    ASSUME NEW U, NEW s, s.half \in Seq(U), s.text \in Seq(U), NEW payload \in Seq(U)
    PROVE  LET fed == Feed(s, payload)
           IN  /\ fed.stream \in [half : Seq(U), text : Seq(U)]
               /\ Len(fed.stream.half) <= 1 /\ Len(fed.stream.text) <= MaxSize
               /\ fed.out \in Seq(Seq(U))
               /\ \A i \in DOMAIN fed.out : Whole(fed.out[i])
<1> DEFINE bytes == s.half \o payload
           text == s.text \o Decoded(bytes)
           done == Drained(text)
<1>1. bytes \in Seq(U)
  OBVIOUS
<1>2. text \in Seq(U)
  <2> HIDE DEF bytes
  <2> QED
    BY <1>1, DecodedTyped
<1>3. Pending(bytes) \in Seq(U) /\ Len(Pending(bytes)) <= 1
  <2> HIDE DEF bytes
  <2> QED
    BY <1>1, PendingSize
<1>4. Made(done, U, Len(text))
  <2> HIDE DEF text
  <2> QED
    BY <1>2, DrainedMade
<1>5. Feed(s, payload) = IF ~Decodes(bytes) \/ Len(text) > MaxSize THEN Raised
                         ELSE [stream |-> [half |-> Pending(bytes), text |-> done.text],
                               out |-> done.out]
  BY DEF Feed
<1> HIDE DEF bytes, text, done
<1>6. Len(text) \in Nat
  BY <1>2
<1>7. /\ done.text \in Seq(U) /\ Len(done.text) <= Len(text) /\ done.out \in Seq(Seq(U))
      /\ \A i \in DOMAIN done.out : Whole(done.out[i])
  BY <1>4 DEF Made, Rounds
<1>8. CASE ~Decodes(bytes) \/ Len(text) > MaxSize
  BY <1>5, <1>8, StreamsAssumption DEF Raised, Empty
<1>9. CASE ~(~Decodes(bytes) \/ Len(text) > MaxSize)
  BY <1>3, <1>5, <1>6, <1>7, <1>9, StreamsAssumption
<1> QED
  BY <1>8, <1>9

-----------------------------------------------------------------------------
(* A whole object as long as a document has a value where a document has.  *)

Char(s, i) == s[i][1]

At(s, c, n) == {i \in 1..n : s[i][1] = c}

LEMMA Count ==
    ASSUME NEW s, NEW c, NEW j \in Nat
    PROVE  /\ Cardinality(At(s, c, j)) \in Nat /\ Cardinality(At(s, c, 0)) = 0
           /\ Cardinality(At(s, c, j + 1)) =
                  Cardinality(At(s, c, j)) + IF Char(s, j + 1) = c THEN 1 ELSE 0
<1>1. IsFiniteSet(1..j) /\ At(s, c, j) \in SUBSET (1..j)
  <2>1. IsFiniteSet(1..j)
    BY FS_Interval
  <2>2. At(s, c, j) \in SUBSET (1..j)
    BY DEF At
  <2> QED
    BY <2>1, <2>2
<1>2. IsFiniteSet(At(s, c, j)) /\ j + 1 \notin At(s, c, j)
  <2>1. j + 1 \notin 1..j
    OBVIOUS
  <2> QED
    BY <1>1, <2>1, FS_Subset
<1>3. Cardinality(At(s, c, j)) \in Nat
  BY <1>2, FS_CardinalityType
<1>4. ASSUME Char(s, j + 1) = c
      PROVE  Cardinality(At(s, c, j + 1)) = Cardinality(At(s, c, j)) + 1
  <2>1. At(s, c, j + 1) = At(s, c, j) \cup {j + 1}
    BY <1>4 DEF Char, At
  <2> QED
    BY <1>2, <2>1, FS_AddElement
<1>5. ASSUME Char(s, j + 1) # c
      PROVE  At(s, c, j + 1) = At(s, c, j)
  BY <1>5 DEF Char, At
<1>6. Cardinality(At(s, c, 0)) = 0
  <2>1. At(s, c, 0) = {}
    BY DEF At
  <2> QED
    BY <2>1, FS_EmptySet
<1> QED
  BY <1>3, <1>4, <1>5, <1>6

\* How deep s is in braces after j characters.
Deeper(s, j) ==
    /\ Depth(s, j) \in Int
    /\ Char(s, j + 1) = "open" => Depth(s, j + 1) = Depth(s, j) + 1
    /\ Char(s, j + 1) = "close" => Depth(s, j + 1) = Depth(s, j) - 1
    /\ Char(s, j + 1) \notin {"open", "close"} => Depth(s, j + 1) = Depth(s, j)

LEMMA DepthStep ==
    ASSUME NEW s, NEW j \in Nat
    PROVE  Depth(s, 0) = 0 /\ Deeper(s, j)
<1> DEFINE open(n) == Cardinality(At(s, "open", n))
           shut(n) == Cardinality(At(s, "close", n))
<1>1. \A n : Depth(s, n) = open(n) - shut(n)
  BY DEF Depth, At
<1>2. /\ open(j) \in Nat /\ open(0) = 0
      /\ open(j+1) = open(j) + IF Char(s, j + 1) = "open" THEN 1 ELSE 0
  BY Count
<1>3. /\ shut(j) \in Nat /\ shut(0) = 0
      /\ shut(j+1) = shut(j) + IF Char(s, j + 1) = "close" THEN 1 ELSE 0
  BY Count
<1>4. Depth(s, 0) = 0
  <2> HIDE DEF open, shut
  <2> QED
    BY <1>1, <1>2, <1>3
<1>5. Depth(s, j) = open(j) - shut(j) /\ Depth(s, j + 1) = open(j + 1) - shut(j + 1)
  <2> HIDE DEF open, shut
  <2> QED
    BY <1>1
<1> HIDE DEF open, shut
<1> QED
  BY <1>2, <1>3, <1>4, <1>5 DEF Deeper

\* What may come after a character.
After(s, i) ==
    /\ Char(s, i) = "open" => Char(s, i + 1) = "key"
    /\ Char(s, i) = "key" => Char(s, i + 1) \in {"open", "val"}
    /\ Char(s, i) = "val" => Char(s, i + 1) = "close"

LEMMA Successors ==
    ASSUME NEW s, NEW i, Chained(s, i)
    PROVE  After(s, i)
<1>1. <<Char(s, i), Char(s, i + 1)>> \in Follows
  BY DEF Chained, Char
<1>2. \A a, b : <<a, b>> \in Follows =>
          /\ a = "open" => b = "key"
          /\ a = "key" => b \in {"open", "val"}
          /\ a = "val" => b = "close"
  BY DEF Follows
<1> QED
  BY <1>1, <1>2 DEF After

LEMMA ValueInside ==
    ASSUME NEW o, Opens(o), 9 \in Ends(o)
    PROVE  Char(o, 5) = "val"
<1>1. Char(o, 1) = "open"
  BY DEF Opens, Char
<1>2. \A i \in 1..8 : Depth(o, i) > 0 /\ After(o, i)
  BY InEnds, Successors
<1>3. Depth(o, 9) = 0
  BY InEnds
<1>4. /\ After(o, 1) /\ After(o, 2) /\ After(o, 3) /\ After(o, 4) /\ After(o, 5)
      /\ After(o, 6) /\ Depth(o, 4) > 0
  BY <1>2
<1>5. \A j \in 0..8 : Deeper(o, j) /\ Depth(o, 0) = 0
  BY DepthStep
<1>6. Char(o, 2) = "key" /\ Char(o, 3) \in {"open", "val"}
  BY <1>1, <1>4 DEF After
<1>7. Depth(o, 1) = 1 /\ Depth(o, 2) = 1
  <2>1. Deeper(o, 0) /\ Deeper(o, 1) /\ Depth(o, 0) = 0
    BY <1>5
  <2> QED
    BY <1>1, <1>6, <2>1 DEF Deeper
<1>8. Char(o, 3) = "open" /\ Char(o, 4) = "key" /\ Depth(o, 4) = 2
      /\ Char(o, 5) \in {"open", "val"}
  <2>1. Deeper(o, 2) /\ Deeper(o, 3)
    BY <1>5
  <2> QED
    BY <1>4, <1>6, <1>7, <2>1 DEF Deeper, After
<1>9. Char(o, 5) # "open"
  <2> SUFFICES ASSUME Char(o, 5) = "open" PROVE FALSE
    OBVIOUS
  <2>1. Deeper(o, 4) /\ Deeper(o, 5) /\ Deeper(o, 6) /\ Deeper(o, 7) /\ Deeper(o, 8)
    BY <1>5
  <2>2. Char(o, 6) = "key" /\ Depth(o, 6) = 3 /\ Char(o, 7) \in {"open", "val"}
    BY <1>4, <1>8, <2>1 DEF Deeper, After
  <2>3. Depth(o, 7) >= 3
    BY <2>1, <2>2 DEF Deeper
  <2>4. Depth(o, 9) >= 1
    BY <2>1, <2>3 DEF Deeper
  <2> QED
    BY <1>3, <2>4
<1> QED
  BY <1>8, <1>9

-----------------------------------------------------------------------------
(* A document, cut anywhere                                                *)

\* A document once its bytes are decoded; how much of that there is in its
\* first k bytes, a byte of the character included or not.
Plain(d) == [i \in 1..9 |-> IF i = 9 THEN <<"close">> ELSE UnitsOf(d)[i]]
Upto(k) == IF k <= 8 THEN k ELSE k - 1
Heads(k) == IF k <= 7 THEN k ELSE k - 1

\* The stream that has been fed the first p bytes of d, and nothing else.
Prefix(d, p) == [half |-> IF p = 8 THEN <<<<"lead">>>> ELSE <<>>,
                 text |-> SubSeq(Plain(d), 1, Heads(p))]

LEMMA ShapeIs ==
    /\ Len(Shape) = 10 /\ DOMAIN Shape = 1..10
    /\ Shape[1] = "open" /\ Shape[2] = "key" /\ Shape[3] = "open" /\ Shape[4] = "key"
    /\ Shape[5] = "val" /\ Shape[6] = "close" /\ Shape[7] = "next" /\ Shape[8] = "lead"
    /\ Shape[9] = "tail" /\ Shape[10] = "close"
BY DEF Shape

LEMMA BytesAre ==
    ASSUME NEW d
    PROVE  /\ \E U : UnitsOf(d) \in Seq(U)
           /\ Len(UnitsOf(d)) = 10 /\ DOMAIN UnitsOf(d) = 1..10
           /\ \A i \in 1..10 : UnitsOf(d)[i][1] = Shape[i]
           /\ UnitsOf(d)[8] = <<"lead">> /\ UnitsOf(d)[10] = <<"close">>
           /\ UnitsOf(d)[5] = <<"val", d>>
<1> DEFINE u == UnitsOf(d)
           U == {u[i] : i \in 1..10}
<1>1. u = [i \in 1..10 |-> IF Shape[i] = "val" THEN <<"val", d>> ELSE <<Shape[i]>>]
  BY ShapeIs DEF UnitsOf
<1>2. \A i \in 1..10 : u[i] = IF Shape[i] = "val" THEN <<"val", d>> ELSE <<Shape[i]>>
  BY <1>1
<1>3. /\ DOMAIN u = 1..10 /\ u = [i \in 1..10 |-> u[i]] /\ \A i \in 1..10 : u[i] \in U
  BY <1>1
<1> HIDE DEF u, U
<1>4. u \in Seq(U) /\ Len(u) = 10
  BY <1>3
<1>5. \A i \in 1..10 : u[i][1] = Shape[i]
  BY <1>2
<1>6. u[8] = <<"lead">> /\ u[10] = <<"close">> /\ u[5] = <<"val", d>>
  BY <1>2, ShapeIs
<1> QED
  BY <1>3, <1>4, <1>5, <1>6 DEF u

LEMMA PlainIs ==
    ASSUME NEW d
    PROVE  /\ \E U : Plain(d) \in Seq(U) /\ UnitsOf(d) \in Seq(U)
           /\ Len(Plain(d)) = 9 /\ DOMAIN Plain(d) = 1..9
           /\ \A k \in 1..10 : k # 9 => Plain(d)[Upto(k)] = UnitsOf(d)[k]
           /\ Plain(d)[5] = <<"val", d>>
<1> DEFINE u == UnitsOf(d)
           s == Plain(d)
<1>1. PICK U : u \in Seq(U)
  BY BytesAre
<1>2. Len(u) = 10 /\ u[10] = <<"close">> /\ u[5] = <<"val", d>>
  BY BytesAre
<1>3. s = [i \in 1..9 |-> IF i = 9 THEN <<"close">> ELSE u[i]]
  BY DEF Plain
<1> HIDE DEF u, s
<1>4. \A i \in 1..10 : u[i] \in U
  BY <1>1, <1>2, Indexed
<1>5. \A i \in 1..9 : s[i] = (IF i = 9 THEN u[10] ELSE u[i])
  BY <1>2, <1>3
<1>6. \A i \in 1..9 : s[i] \in U
  BY <1>4, <1>5
<1>7. s \in Seq(U) /\ Len(s) = 9 /\ DOMAIN s = 1..9
  BY <1>3, <1>6
<1>8. \A k \in 1..10 : k # 9 => s[Upto(k)] = u[k]
  BY <1>5 DEF Upto
<1> QED
  BY <1>1, <1>2, <1>5, <1>7, <1>8 DEF u, s

\* The bytes that feed decodes when d is cut at p and at q: those kept, and the
\* payload.
Between(d, p, q) == Prefix(d, p).half \o SubSeq(From(UnitsOf(d), p + 1), 1, q - p)

\* Where they begin in d.
Begin(p) == IF p = 8 THEN 7 ELSE p

LEMMA PartIs ==
    ASSUME NEW U, NEW s \in Seq(U), NEW i \in 1..(Len(s) + 1), NEW j \in (i-1)..Len(s)
    PROVE  /\ SubSeq(s, i, j) \in Seq(U) /\ Len(SubSeq(s, i, j)) = j - i + 1
           /\ \A m \in 1..(j - i + 1) : SubSeq(s, i, j)[m] = s[i + m - 1]
<1>1. Len(s) \in Nat
  BY Indexed
<1>2. SubSeq(s, i, j) \in Seq(U) /\ Len(SubSeq(s, i, j)) = j - i + 1
  BY <1>1
<1>3. \A m \in 1..(j - i + 1) : SubSeq(s, i, j)[m] = s[i + m - 1]
  BY <1>1
<1> QED
  BY <1>2, <1>3

LEMMA EqualSeqs ==
    ASSUME NEW U, NEW a \in Seq(U), NEW b \in Seq(U), Len(a) = Len(b),
           \A i \in 1..Len(a) : a[i] = b[i]
    PROVE  a = b
OBVIOUS

LEMMA JoinIs ==
    ASSUME NEW U, NEW a \in Seq(U), NEW b \in Seq(U)
    PROVE  /\ a \o b \in Seq(U) /\ Len(a \o b) = Len(a) + Len(b)
           /\ \A i \in 1..Len(a) : (a \o b)[i] = a[i]
           /\ \A i \in (Len(a)+1)..(Len(a)+Len(b)) : (a \o b)[i] = b[i - Len(a)]
OBVIOUS

LEMMA BetweenIs ==
    ASSUME NEW d, NEW p \in 0..9, NEW q \in (p+1)..10
    PROVE  /\ \E U : Between(d, p, q) \in Seq(U)
           /\ Len(Between(d, p, q)) = q - Begin(p)
           /\ \A i \in 1..(q - Begin(p)) : Between(d, p, q)[i] = UnitsOf(d)[Begin(p) + i]
<1> DEFINE u == UnitsOf(d)
           half == Prefix(d, p).half
           rest == From(u, p + 1)
           part == SubSeq(rest, 1, q - p)
<1>1. PICK U : u \in Seq(U)
  BY BytesAre
<1>2. Len(u) = 10 /\ u[8] = <<"lead">>
  BY BytesAre
<1>3. half = IF p = 8 THEN <<<<"lead">>>> ELSE <<>>
  BY DEF Prefix
<1>4. Between(d, p, q) = half \o part
  BY DEF Between
<1>5. rest = SubSeq(u, p + 1, 10)
  BY <1>2 DEF From
<1> HIDE DEF u, half, rest
<1>6. rest \in Seq(U) /\ Len(rest) = 10 - p /\ \A i \in 1..(10 - p) : rest[i] = u[p + i]
  <2>1. p + 1 \in 1..(Len(u) + 1) /\ 10 \in ((p + 1) - 1)..Len(u)
    BY <1>2
  <2>2. /\ rest \in Seq(U) /\ Len(rest) = 10 - (p + 1) + 1
        /\ \A i \in 1..(10 - (p + 1) + 1) : rest[i] = u[(p + 1) + i - 1]
    BY <1>1, <1>5, <2>1, PartIs
  <2> QED
    BY <2>2
<1>7. part \in Seq(U) /\ Len(part) = q - p /\ \A i \in 1..(q - p) : part[i] = u[p + i]
  <2>1. 1 \in 1..(Len(rest) + 1) /\ q - p \in (1 - 1)..Len(rest)
    BY <1>6
  <2>2. /\ part \in Seq(U) /\ Len(part) = (q - p) - 1 + 1
        /\ \A i \in 1..((q - p) - 1 + 1) : part[i] = rest[1 + i - 1]
    BY <1>6, <2>1, PartIs
  <2> QED
    BY <1>6, <2>2
<1> HIDE DEF part
<1>8. CASE p = 8
  <2>1. u[8] \in U /\ half = <<u[8]>>
    BY <1>1, <1>2, <1>3, <1>8, Indexed
  <2>2. Len(half) = 1 /\ half[1] = u[8] /\ half \in Seq(U)
    BY <2>1
  <2>3. /\ half \o part \in Seq(U) /\ Len(half \o part) = q - 7
        /\ (half \o part)[1] = half[1]
        /\ \A i \in 2..(q - 7) : (half \o part)[i] = part[i - 1]
    <3>1. /\ half \o part \in Seq(U) /\ Len(half \o part) = Len(half) + Len(part)
          /\ \A i \in 1..Len(half) : (half \o part)[i] = half[i]
          /\ \A i \in (Len(half)+1)..(Len(half)+Len(part)) :
                 (half \o part)[i] = part[i - Len(half)]
      BY <1>7, <2>2, JoinIs
    <3>2. Len(half) = 1 /\ Len(part) = q - 8
      BY <1>7, <1>8, <2>2
    <3> QED
      BY <3>1, <3>2
  <2>4. \A i \in 1..(q - 7) : (half \o part)[i] = u[7 + i]
    BY <1>7, <1>8, <2>2, <2>3
  <2> QED
    BY <1>4, <1>8, <2>3, <2>4 DEF Begin, u
<1>9. CASE p # 8
  <2>1. half \o part = part
    BY <1>3, <1>7, <1>9
  <2> QED
    BY <1>4, <1>7, <1>9, <2>1 DEF Begin, u
<1> QED
  BY <1>8, <1>9

LEMMA BetweenDecodes ==
    ASSUME NEW d, NEW p \in 0..9, NEW q \in (p+1)..10
    PROVE  /\ Decodes(Between(d, p, q))
           /\ Pending(Between(d, p, q)) = IF q = 8 THEN <<<<"lead">>>> ELSE <<>>
<1> DEFINE b == Between(d, p, q)
           u == UnitsOf(d)
           o == Begin(p)
<1>1. PICK U : b \in Seq(U)
  BY BetweenIs
<1>2. Len(b) = q - o /\ \A i \in 1..(q - o) : b[i] = u[o + i]
  BY BetweenIs
<1>3. /\ \A i \in 1..10 : u[i][1] = Shape[i]
      /\ u[8] = <<"lead">>
  BY BytesAre
<1>4. o \in 0..9 /\ o # 8 /\ o < q
  BY DEF Begin
<1> HIDE DEF b, u, o
<1>5. DOMAIN b = 1..(q - o)
  BY <1>1, <1>2, Indexed
<1>6. \A i \in 1..(q - o) : o + i \in 1..10 /\ b[i][1] = Shape[o + i]
  <2>1. \A i \in 1..(q - o) : o + i \in 1..10
    BY <1>4
  <2> QED
    BY <1>2, <1>3, <2>1
<1>7. \A i \in 1..10 : Shape[i] # "bad" /\ (Shape[i] = "tail" <=> i = 9)
                       /\ (Shape[i] = "lead" <=> i = 8)
  BY ShapeIs
<1>8. Decodes(b)
  <2> SUFFICES ASSUME NEW i \in 1..(q - o)
               PROVE  /\ b[i][1] # "bad"
                      /\ b[i][1] = "tail" => i > 1 /\ b[i-1][1] = "lead"
                      /\ b[i][1] = "lead" /\ i < Len(b) => b[i+1][1] = "tail"
    BY <1>5 DEF Decodes
  <2>1. b[i][1] # "bad"
    BY <1>6, <1>7
  <2>2. ASSUME b[i][1] = "tail" PROVE i > 1 /\ b[i-1][1] = "lead"
    <3>1. o + i = 9
      BY <1>6, <1>7, <2>2
    <3>2. i > 1 /\ i - 1 \in 1..(q - o) /\ o + (i - 1) = 8
      BY <1>4, <3>1
    <3> QED
      BY <1>6, <1>7, <3>2
  <2>3. ASSUME b[i][1] = "lead", i < Len(b) PROVE b[i+1][1] = "tail"
    <3>1. o + i = 8
      BY <1>6, <1>7, <2>3
    <3>2. i + 1 \in 1..(q - o) /\ o + (i + 1) = 9
      BY <1>2, <1>4, <2>3, <3>1
    <3> QED
      BY <1>6, <1>7, <3>2
  <2> QED
    BY <2>1, <2>2, <2>3
<1>9. b # <<>> /\ Last(b) = u[q] /\ Last(b)[1] = Shape[q]
  <2>1. q - o \in 1..(q - o) /\ o + (q - o) = q
    BY <1>4
  <2> QED
    BY <1>1, <1>2, <1>6, <2>1 DEF Last
<1>10. Pending(b) = IF q = 8 THEN <<<<"lead">>>> ELSE <<>>
  BY <1>3, <1>7, <1>9 DEF Pending
<1> QED
  BY <1>8, <1>10 DEF b

LEMMA GrownBy ==
    ASSUME NEW U, NEW s \in Seq(U), NEW i \in 1..Len(s), NEW j \in (i-1)..(Len(s)-1)
    PROVE  Append(SubSeq(s, i, j), s[j+1]) = SubSeq(s, i, j + 1)
<1>1. SubSeq(s, i, j) \in Seq(U) /\ Len(SubSeq(s, i, j)) = j - i + 1 /\ s[j+1] \in U
  BY Indexed
<1>2. SubSeq(s, i, j + 1) \in Seq(U) /\ Len(SubSeq(s, i, j + 1)) = j - i + 2
  BY Indexed
<1>3. \A m \in 1..(j - i + 1) : SubSeq(s, i, j)[m] = s[i + m - 1]
  BY Indexed
<1>4. \A m \in 1..(j - i + 2) : SubSeq(s, i, j + 1)[m] = s[i + m - 1]
  BY Indexed
<1> DEFINE a == Append(SubSeq(s, i, j), s[j+1])
           b == SubSeq(s, i, j + 1)
<1>5. a \in Seq(U) /\ Len(a) = j - i + 2
  BY <1>1
<1>6. \A m \in 1..(j - i + 2) : a[m] = b[m]
  BY <1>1, <1>3, <1>4
<1> HIDE DEF a, b
<1> QED
  BY <1>2, <1>5, <1>6 DEF a, b

LEMMA UptoIs ==
    ASSUME NEW o \in 0..9, o # 8
    PROVE  /\ Upto(o) \in 0..8
           /\ \A k \in o..9 : /\ Upto(k) \in Upto(o)..9 /\ Upto(k + 1) <= 9
                              /\ Upto(k + 1) = IF k + 1 = 9 THEN Upto(k) ELSE Upto(k) + 1
BY DEF Upto

LEMMA BetweenDecoded ==
    ASSUME NEW d, NEW p \in 0..9, NEW q \in (p+1)..10
    PROVE  Decoded(Between(d, p, q)) = SubSeq(Plain(d), Heads(p) + 1, Heads(q))
<1> DEFINE b == Between(d, p, q)
           u == UnitsOf(d)
           s == Plain(d)
           o == Begin(p)
           N == q - o
           a == Upto(o) + 1
<1>1. PICK B : b \in Seq(B)
  BY BetweenIs
<1>2. Len(b) = N /\ \A i \in 1..N : b[i] = u[o + i]
  BY BetweenIs
<1>3. \A i \in 1..10 : u[i][1] = Shape[i] /\ (Shape[i] = "tail" <=> i = 9)
  BY BytesAre, ShapeIs
<1>4. PICK U : s \in Seq(U)
  BY PlainIs
<1>5. Len(s) = 9 /\ \A k \in 1..10 : k # 9 => s[Upto(k)] = u[k]
  BY PlainIs
<1>6. o \in 0..9 /\ o # 8 /\ o < q /\ N \in 1..10
  BY DEF Begin
<1>7. Pending(b) = IF q = 8 THEN <<<<"lead">>>> ELSE <<>>
  BY BetweenDecodes
<1>8. /\ a \in 1..9 /\ a = Heads(p) + 1
      /\ Upto(o + (N - Len(Pending(b)))) = Heads(q)
      /\ N - Len(Pending(b)) \in 0..N
  <2>1. Len(Pending(b)) = IF q = 8 THEN 1 ELSE 0
    BY <1>7
  <2>2. N - Len(Pending(b)) \in 0..N /\ o + (N - Len(Pending(b))) = IF q = 8 THEN 7 ELSE q
    BY <1>6, <2>1
  <2>3. a \in 1..9 /\ a = Heads(p) + 1
    BY DEF Begin, Upto, Heads
  <2>4. Upto(IF q = 8 THEN 7 ELSE q) = Heads(q)
    BY DEF Upto, Heads
  <2> QED
    BY <2>2, <2>3, <2>4
<1>9. \A k \in o..9 : /\ Upto(k) \in (a - 1)..9 /\ Upto(k + 1) <= 9
                      /\ Upto(k + 1) = IF k + 1 = 9 THEN Upto(k) ELSE Upto(k) + 1
  BY <1>6, UptoIs
<1>10. PICK f : Keeps(f, b, N) /\ Decoded(b) = f[N - Len(Pending(b))]
  <2> HIDE DEF b, N
  <2> QED
    BY <1>1, <1>2, DecodedIs
<1> HIDE DEF b, u, s, o, N
<1> DEFINE T == {k \in 0..N : f[k] = SubSeq(s, a, Upto(o + k))}
<1>11. 0 \in T
  <2>1. f[0] = <<>>
    BY <1>6, <1>10, KeepsStep
  <2>2. SubSeq(s, a, a - 1) = <<>>
    <3>1. PICK i \in 1..9 : i = a
      BY <1>8
    <3>2. i \in 1..(Len(s) + 1) /\ i - 1 \in (i - 1)..Len(s)
      BY <1>5
    <3>3. SubSeq(s, i, i - 1) \in Seq(U) /\ Len(SubSeq(s, i, i - 1)) = (i - 1) - i + 1
      BY <1>4, <3>2, PartIs
    <3> QED
      BY <3>1, <3>3
  <2>3. Upto(o + 0) = a - 1 /\ 0 \in 0..N
    BY <1>6, UptoIs
  <2>4. f[0] = SubSeq(s, a, Upto(o + 0))
    BY <2>1, <2>2, <2>3
  <2> QED
    BY <2>3, <2>4
<1>12. ASSUME NEW k \in 0..(N-1), k \in T PROVE k + 1 \in T
  <2>1. f[k+1] = IF IsTail(b, k + 1) THEN f[k] ELSE Append(f[k], b[k+1])
    BY <1>6, <1>10, KeepsStep
  <2>2. f[k] = SubSeq(s, a, Upto(o + k)) /\ k + 1 \in 0..N /\ k + 1 \in 1..N
    BY <1>6, <1>12
  <2>3. o + k \in o..9 /\ o + (k + 1) = (o + k) + 1 /\ o + (k + 1) \in 1..10
    <3>1. o + N = q
      BY DEF N, o, Begin
    <3> QED
      BY <1>6, <3>1
  <2>4. b[k+1] = u[o + (k + 1)] /\ (IsTail(b, k + 1) <=> o + (k + 1) = 9)
    BY <1>2, <1>3, <2>2, <2>3 DEF IsTail
  <2>5. CASE o + (k + 1) = 9
    <3>1. Upto(o + (k + 1)) = Upto(o + k)
      BY <1>9, <2>3, <2>5
    <3> QED
      BY <2>1, <2>2, <2>4, <2>5, <3>1
  <2>6. CASE o + (k + 1) # 9
    <3>1. /\ Upto(o + (k + 1)) = Upto(o + k) + 1
          /\ Upto(o + k) \in (a - 1)..8
      BY <1>9, <2>3, <2>6
    <3>2. b[k+1] = s[Upto(o + k) + 1]
      BY <1>5, <2>3, <2>4, <2>6, <3>1
    <3>3. Append(SubSeq(s, a, Upto(o + k)), s[Upto(o + k) + 1])
              = SubSeq(s, a, Upto(o + k) + 1)
      <4>1. PICK j \in (a - 1)..8 : j = Upto(o + k)
        BY <3>1
      <4>2. Len(s) - 1 = 8 /\ a \in 1..Len(s)
        BY <1>5, <1>8
      <4> HIDE DEF a
      <4> QED
        BY <1>4, <4>1, <4>2, GrownBy
    <3> QED
      BY <2>1, <2>2, <2>4, <2>6, <3>1, <3>2, <3>3
  <2> QED
    BY <2>5, <2>6
<1>13. \A k \in 0..N : k \in T
  <2>1. N \in Nat
    BY <1>6
  <2> HIDE DEF T
  <2> QED
    BY <1>11, <1>12, <2>1, Positions
<1>14. Decoded(b) = SubSeq(s, a, Heads(q))
  BY <1>8, <1>10, <1>13
<1> QED
  BY <1>8, <1>14 DEF b, s

LEMMA PrefixGrows ==
    ASSUME NEW d, NEW p \in 0..9, NEW q \in (p+1)..10
    PROVE  /\ Prefix(d, p).text \o Decoded(Between(d, p, q)) = SubSeq(Plain(d), 1, Heads(q))
           /\ Heads(q) \in 0..9
<1> DEFINE s == Plain(d)
           i == Heads(p)
           j == Heads(q)
           x == SubSeq(s, 1, i)
           y == SubSeq(s, i + 1, j)
           z == SubSeq(s, 1, j)
<1>1. Decoded(Between(d, p, q)) = y /\ Prefix(d, p).text = x
  BY BetweenDecoded DEF Prefix
<1>2. i \in 0..8 /\ j \in i..9
  BY DEF Heads
<1>3. PICK U : s \in Seq(U)
  BY PlainIs
<1>4. Len(s) = 9
  BY PlainIs
<1> HIDE DEF i, j, s
<1>5. x \in Seq(U) /\ Len(x) = i /\ \A m \in 1..i : x[m] = s[m]
  <2>1. 1 \in 1..(Len(s) + 1) /\ i \in (1 - 1)..Len(s)
    BY <1>2, <1>4
  <2>2. x \in Seq(U) /\ Len(x) = i - 1 + 1 /\ \A m \in 1..(i - 1 + 1) : x[m] = s[1 + m - 1]
    BY <1>3, <2>1, PartIs
  <2> QED
    BY <1>2, <2>2
<1>6. y \in Seq(U) /\ Len(y) = j - i /\ \A m \in 1..(j - i) : y[m] = s[i + m]
  <2>1. i + 1 \in 1..(Len(s) + 1) /\ j \in ((i + 1) - 1)..Len(s)
    BY <1>2, <1>4
  <2>2. /\ y \in Seq(U) /\ Len(y) = j - (i + 1) + 1
        /\ \A m \in 1..(j - (i + 1) + 1) : y[m] = s[(i + 1) + m - 1]
    BY <1>3, <2>1, PartIs
  <2> QED
    BY <1>2, <2>2
<1>7. z \in Seq(U) /\ Len(z) = j /\ \A m \in 1..j : z[m] = s[m]
  <2>1. 1 \in 1..(Len(s) + 1) /\ j \in (1 - 1)..Len(s)
    BY <1>2, <1>4
  <2>2. z \in Seq(U) /\ Len(z) = j - 1 + 1 /\ \A m \in 1..(j - 1 + 1) : z[m] = s[1 + m - 1]
    BY <1>3, <2>1, PartIs
  <2> QED
    BY <1>2, <2>2
<1> HIDE DEF x, y, z
<1>8. x \o y = z
  <2>1. x \o y \in Seq(U) /\ Len(x \o y) = j
    BY <1>2, <1>5, <1>6
  <2>2. \A m \in 1..j : (x \o y)[m] = s[m]
    BY <1>2, <1>5, <1>6
  <2>3. \A m \in 1..Len(x \o y) : (x \o y)[m] = z[m]
    BY <1>7, <2>1, <2>2
  <2> QED
    BY <1>7, <2>1, <2>3, EqualSeqs
<1> QED
  BY <1>1, <1>2, <1>8 DEF z, j, s

\* A beginning of a document, decoded.
Start(d, t) == SubSeq(Plain(d), 1, t)

LEMMA StartIs ==
    ASSUME NEW d, NEW t \in 0..9
    PROVE  /\ \E U : Start(d, t) \in Seq(U)
           /\ Len(Start(d, t)) = t /\ DOMAIN Start(d, t) = 1..t
           /\ \A i \in 1..t : Char(Start(d, t), i) = IF i = 9 THEN "close" ELSE Shape[i]
<1> DEFINE s == Plain(d)
           x == Start(d, t)
<1>1. PICK U : s \in Seq(U)
  BY PlainIs
<1>2. Len(s) = 9 /\ \A k \in 1..10 : k # 9 => s[Upto(k)] = UnitsOf(d)[k]
  BY PlainIs
<1>3. 1 \in 1..(Len(s) + 1) /\ t \in (1 - 1)..Len(s)
  BY <1>2
<1>4. x = SubSeq(s, 1, t)
  BY DEF Start
<1> HIDE DEF s, x
<1>5. x \in Seq(U) /\ Len(x) = t - 1 + 1 /\ \A i \in 1..(t - 1 + 1) : x[i] = s[1 + i - 1]
  BY <1>1, <1>3, <1>4, PartIs
<1>6. Len(x) = t /\ DOMAIN x = 1..t /\ \A i \in 1..t : x[i] = s[i]
  BY <1>5, Indexed
<1>7. \A i \in 1..9 : s[i][1] = IF i = 9 THEN "close" ELSE Shape[i]
  <2> TAKE i \in 1..9
  <2>1. CASE i = 9
    <3>1. s[9] = UnitsOf(d)[10]
      BY <1>2 DEF Upto
    <3> QED
      BY <2>1, <3>1, BytesAre
  <2>2. CASE i # 9
    <3>1. s[i] = UnitsOf(d)[i]
      BY <1>2, <2>2 DEF Upto
    <3> QED
      BY <2>2, <3>1, BytesAre
  <2> QED
    BY <2>1, <2>2
<1>8. \A i \in 1..t : Char(x, i) = IF i = 9 THEN "close" ELSE Shape[i]
  BY <1>6, <1>7 DEF Char
<1> QED
  BY <1>5, <1>6, <1>8 DEF x

LEMMA StartDepths ==
    ASSUME NEW d, NEW t \in 0..9
    PROVE  \A j \in 1..t : IF j = 9 THEN Depth(Start(d, t), j) = 0
                           ELSE Depth(Start(d, t), j) \in {1, 2}
<1> DEFINE s == Start(d, t)
           C(i) == IF i = 9 THEN "close" ELSE Shape[i]
<1>1. \A i \in 1..t : Char(s, i) = C(i)
  BY StartIs
<1>2. \A j \in 0..8 : Deeper(s, j) /\ Depth(s, 0) = 0
  BY DepthStep
<1> HIDE DEF s
<1>3. ASSUME NEW i \in 0..8, i + 1 <= t
      PROVE  /\ C(i + 1) = "open" => Depth(s, i + 1) = Depth(s, i) + 1
             /\ C(i + 1) = "close" => Depth(s, i + 1) = Depth(s, i) - 1
             /\ C(i + 1) \notin {"open", "close"} => Depth(s, i + 1) = Depth(s, i)
  <2>1. Char(s, i + 1) = C(i + 1)
    BY <1>1, <1>3
  <2> HIDE DEF C
  <2> QED
    BY <1>2, <2>1 DEF Deeper
<1>4. /\ C(1) = "open" /\ C(2) = "key" /\ C(3) = "open" /\ C(4) = "key" /\ C(5) = "val"
      /\ C(6) = "close" /\ C(7) = "next" /\ C(8) = "lead" /\ C(9) = "close"
  BY ShapeIs
<1> HIDE DEF C
<1>5. Depth(s, 0) = 0
  BY <1>2
<1>6. t >= 1 => Depth(s, 1) = 1
  BY <1>3, <1>4, <1>5
<1>7. t >= 2 => Depth(s, 2) = 1
  <2>1. t >= 2 => Depth(s, 1 + 1) = Depth(s, 1)
    BY <1>3, <1>4
  <2> QED
    BY <1>6, <2>1
<1>8. t >= 3 => Depth(s, 3) = 2
  <2>1. t >= 3 => Depth(s, 2 + 1) = Depth(s, 2) + 1
    BY <1>3, <1>4
  <2> QED
    BY <1>7, <2>1
<1>9. t >= 4 => Depth(s, 4) = 2
  <2>1. t >= 4 => Depth(s, 3 + 1) = Depth(s, 3)
    BY <1>3, <1>4
  <2> QED
    BY <1>8, <2>1
<1>10. t >= 5 => Depth(s, 5) = 2
  <2>1. t >= 5 => Depth(s, 4 + 1) = Depth(s, 4)
    BY <1>3, <1>4
  <2> QED
    BY <1>9, <2>1
<1>11. t >= 6 => Depth(s, 6) = 1
  <2>1. t >= 6 => Depth(s, 5 + 1) = Depth(s, 5) - 1
    BY <1>3, <1>4
  <2> QED
    BY <1>10, <2>1
<1>12. t >= 7 => Depth(s, 7) = 1
  <2>1. t >= 7 => Depth(s, 6 + 1) = Depth(s, 6)
    BY <1>3, <1>4
  <2> QED
    BY <1>11, <2>1
<1>13. t >= 8 => Depth(s, 8) = 1
  <2>1. t >= 8 => Depth(s, 7 + 1) = Depth(s, 7)
    BY <1>3, <1>4
  <2> QED
    BY <1>12, <2>1
<1>14. t >= 9 => Depth(s, 9) = 0
  <2>1. t >= 9 => Depth(s, 8 + 1) = Depth(s, 8) - 1
    BY <1>3, <1>4
  <2> QED
    BY <1>13, <2>1
<1>15. \A j \in 1..t : /\ j = 1 \/ j = 2 \/ j = 3 \/ j = 4 \/ j = 5 \/ j = 6 \/ j = 7
                          \/ j = 8 \/ j = 9
                       /\ t >= j
  OBVIOUS
<1> QED
  BY <1>6, <1>7, <1>8, <1>9, <1>10, <1>11, <1>12, <1>13, <1>14, <1>15 DEF s

LEMMA StartEnds ==
    ASSUME NEW d, NEW t \in 0..9
    PROVE  Ends(Start(d, t)) = IF t = 9 THEN {9} ELSE {}
<1> DEFINE s == Start(d, t)
           C(i) == IF i = 9 THEN "close" ELSE Shape[i]
<1>1. DOMAIN s = 1..t /\ \A i \in 1..t : Char(s, i) = C(i)
  BY StartIs
<1>2. \A j \in 1..t : IF j = 9 THEN Depth(s, j) = 0 ELSE Depth(s, j) \in {1, 2}
  BY StartDepths
<1> HIDE DEF s, C
<1>3. \A e \in Ends(s) : e \in 1..t /\ e = 9
  <2> TAKE e \in Ends(s)
  <2>1. e \in 1..t /\ Depth(s, e) = 0
    BY <1>1, InEnds
  <2> QED
    BY <1>2, <2>1
<1>4. CASE t # 9
  BY <1>3, <1>4 DEF s
<1>5. CASE t = 9
  <2>1. \A i \in 1..8 : Depth(s, i) > 0
    BY <1>2, <1>5
  <2>2. \A i \in 1..8 : <<C(i), C(i + 1)>> \in Follows
    <3>1. /\ C(1) = "open" /\ C(2) = "key" /\ C(3) = "open" /\ C(4) = "key" /\ C(5) = "val"
          /\ C(6) = "close" /\ C(7) = "next" /\ C(8) = "lead" /\ C(9) = "close"
      BY ShapeIs DEF C
    <3>2. /\ <<C(1), C(2)>> \in Follows /\ <<C(2), C(3)>> \in Follows
          /\ <<C(3), C(4)>> \in Follows /\ <<C(4), C(5)>> \in Follows
          /\ <<C(5), C(6)>> \in Follows /\ <<C(6), C(7)>> \in Follows
          /\ <<C(7), C(8)>> \in Follows /\ <<C(8), C(9)>> \in Follows
      BY <3>1 DEF Follows
    <3>3. \A i \in 1..8 : i = 1 \/ i = 2 \/ i = 3 \/ i = 4 \/ i = 5 \/ i = 6 \/ i = 7 \/ i = 8
      OBVIOUS
    <3> QED
      BY <3>2, <3>3
  <2>3. \A i \in 1..8 : Chained(s, i)
    <3> TAKE i \in 1..8
    <3>1. Char(s, i) = C(i) /\ Char(s, i + 1) = C(i + 1)
      BY <1>1, <1>5
    <3>2. <<Char(s, i), Char(s, i + 1)>> \in Follows
      BY <2>2, <3>1
    <3> QED
      BY <3>2 DEF Chained, Char
  <2>4. 9 \in DOMAIN s /\ Depth(s, 9) = 0
    BY <1>1, <1>2, <1>5
  <2>5. 9 \in Ends(s)
    BY <2>1, <2>3, <2>4, InEnds
  <2> QED
    BY <1>3, <1>5, <2>5 DEF s
<1> QED
  BY <1>4, <1>5

LEMMA RoundOpens ==
    ASSUME NEW r, r.on, r.text # <<>>, Opens(r.text)
    PROVE  /\ Ends(r.text) = {} => Round(r) = [r EXCEPT !.on = FALSE]
           /\ \A e : Ends(r.text) = {e} =>
                  Round(r) = [r EXCEPT !.text = From(r.text, e + 1),
                                       !.out = Append(r.out, SubSeq(r.text, 1, e))]
<1>1. ASSUME Ends(r.text) = {} PROVE Round(r) = [r EXCEPT !.on = FALSE]
  BY <1>1 DEF Round, Opens
<1>2. ASSUME NEW e, Ends(r.text) = {e}
      PROVE  Round(r) = [r EXCEPT !.text = From(r.text, e + 1),
                                  !.out = Append(r.out, SubSeq(r.text, 1, e))]
  <2> DEFINE c == CHOOSE j \in Ends(r.text) : TRUE
  <2>1. c \in Ends(r.text) /\ Ends(r.text) # {}
    BY <1>2
  <2>2. c = e
    BY <1>2, <2>1
  <2>3. Round(r) = [r EXCEPT !.text = From(@, c + 1), !.out = Append(@, SubSeq(r.text, 1, c))]
    BY <2>1 DEF Round, Opens
  <2> HIDE DEF c
  <2> QED
    BY <2>2, <2>3
<1> QED
  BY <1>1, <1>2

\* What the loop makes of it: it is kept as it is, or returned if it is whole.
LEMMA StartDrained ==
    ASSUME NEW d, NEW t \in 0..9
    PROVE  LET done == Drained(Start(d, t))
           IN  IF t = 9 THEN done.text = <<>> /\ done.out = <<Plain(d)>>
               ELSE done.text = Start(d, t) /\ done.out = <<>>
<1> DEFINE s == Start(d, t)
           first == [on |-> TRUE, text |-> s, out |-> <<>>]
           last == IF t = 9 THEN [on |-> TRUE, text |-> <<>>, out |-> <<Plain(d)>>]
                   ELSE IF t = 0 THEN first
                   ELSE [on |-> FALSE, text |-> s, out |-> <<>>]
<1>1. PICK U : s \in Seq(U)
  BY StartIs
<1>2. Len(s) = t /\ (t > 0 => s # <<>> /\ s[1][1] = "open") /\ (t = 0 => s = <<>>)
  <2>1. Len(s) = t /\ \A i \in 1..t : Char(s, i) = IF i = 9 THEN "close" ELSE Shape[i]
    BY StartIs
  <2> HIDE DEF s
  <2> QED
    BY <1>1, <2>1, ShapeIs DEF Char
<1>3. Ends(s) = IF t = 9 THEN {9} ELSE {}
  BY StartEnds
<1>4. t = 9 => s = Plain(d) /\ From(s, 10) = <<>> /\ SubSeq(s, 1, 9) = Plain(d)
  <2> SUFFICES ASSUME t = 9 PROVE s = Plain(d) /\ From(s, 10) = <<>> /\ SubSeq(s, 1, 9) = Plain(d)
    OBVIOUS
  <2>1. PICK V : Plain(d) \in Seq(V)
    BY PlainIs
  <2>2. Len(Plain(d)) = 9
    BY PlainIs
  <2>3. SubSeq(Plain(d), 1, 9) = Plain(d)
    BY <2>1, <2>2
  <2>4. s = Plain(d)
    BY <2>3 DEF Start
  <2> HIDE DEF s
  <2>5. From(s, 10) = <<>>
    BY <1>1, <1>2 DEF From
  <2> QED
    BY <2>3, <2>4, <2>5
<1> HIDE DEF s
<1>5. Round(first) = last
  <2>1. CASE t = 0
    BY <1>2, <2>1 DEF Round
  <2>2. first.on /\ first.text = s /\ first.out = <<>>
    OBVIOUS
  <2>3. ASSUME t # 0 PROVE s # <<>> /\ Opens(s)
    BY <1>2, <2>3 DEF Opens
  <2>4. CASE t = 9
    <3>1. Ends(s) = {9}
      BY <1>3, <2>4
    <3> HIDE DEF first
    <3>2. Round(first) = [first EXCEPT !.text = From(s, 9 + 1),
                                       !.out = Append(<<>>, SubSeq(s, 1, 9))]
      <4>1. /\ first.on /\ first.text # <<>> /\ Opens(first.text) /\ Ends(first.text) = {9}
            /\ first.text = s /\ first.out = <<>>
        BY <2>2, <2>3, <2>4, <3>1
      <4>2. Round(first) = [first EXCEPT !.text = From(first.text, 9 + 1),
                                         !.out = Append(first.out, SubSeq(first.text, 1, 9))]
        BY <4>1, RoundOpens
      <4> QED
        BY <4>1, <4>2
    <3>3. Append(<<>>, SubSeq(s, 1, 9)) = <<Plain(d)>> /\ From(s, 9 + 1) = <<>>
      BY <1>4, <2>4
    <3> QED
      BY <2>4, <3>2, <3>3 DEF first
  <2>5. CASE t # 0 /\ t # 9
    <3>1. Ends(s) = {}
      BY <1>3, <2>5
    <3> HIDE DEF first
    <3>2. Round(first) = [first EXCEPT !.on = FALSE]
      BY <2>2, <2>3, <2>5, <3>1, RoundOpens
    <3> QED
      BY <2>5, <3>2 DEF first
  <2> QED
    BY <2>1, <2>4, <2>5
<1>6. Round(last) = last
  <2>1. ~last.on \/ last.text = <<>>
    BY <1>2
  <2> HIDE DEF last
  <2> QED
    BY <2>1 DEF Round
<1>7. PICK f : Runs(f, s, t) /\ Drained(s) = f[t]
  BY <1>1, <1>2, DrainedIs
<1>8. f[0] = first /\ \A k \in 0..(t-1) : f[k+1] = Round(f[k])
  BY <1>7, RunsStep
<1> HIDE DEF first, last
<1> DEFINE T == {k \in 0..t : k > 0 => f[k] = last}
<1>9. 0 \in T
  OBVIOUS
<1>10. ASSUME NEW k \in 0..(t-1), k \in T PROVE k + 1 \in T
  <2>1. f[k+1] = Round(f[k])
    BY <1>8
  <2>2. f[k+1] = last
    BY <1>5, <1>6, <1>8, <1>10, <2>1
  <2> QED
    BY <2>2
<1>11. t \in T
  <2>1. t \in Nat
    OBVIOUS
  <2> HIDE DEF T
  <2>2. \A k \in 0..t : k \in T
    BY <1>9, <1>10, <2>1, Positions
  <2> QED
    BY <2>2
<1>12. t > 0 => Drained(s) = last
  BY <1>7, <1>11
<1>13. t = 0 => Drained(s) = first
  BY <1>7, <1>8
<1> QED
  BY <1>12, <1>13 DEF s, first, last

\* A document is returned when its last byte is fed, as it was announced, and
\* nothing is returned before, wherever it is cut into packets and however often,
\* in the middle of a character too, given that the limit has room for one
\* (protocol.py:253, feed).  After the last byte the stream is as good as new.
THEOREM FeedInOrder ==
    ASSUME NEW d, NEW p \in 0..9, NEW q \in (p+1)..10, MaxSize >= 9
    PROVE  Feed(Prefix(d, p), SubSeq(From(UnitsOf(d), p + 1), 1, q - p)) =
               [stream |-> IF q = 10 THEN Empty ELSE Prefix(d, q),
                out    |-> IF q = 10 THEN <<Plain(d)>> ELSE <<>>]
<1> DEFINE s == Prefix(d, p)
           payload == SubSeq(From(UnitsOf(d), p + 1), 1, q - p)
           b == Between(d, p, q)
           text == Start(d, Heads(q))
           done == Drained(text)
<1>1. s.half \o payload = b /\ s.text \o Decoded(b) = text
  BY PrefixGrows DEF Between, Start
<1>2. Decodes(b) /\ Pending(b) = IF q = 8 THEN <<<<"lead">>>> ELSE <<>>
  BY BetweenDecodes
<1>3. Heads(q) \in 0..9 /\ (Heads(q) = 9 <=> q = 10)
  BY DEF Heads
<1>4. Len(text) = Heads(q)
  BY <1>3, StartIs
<1>5. IF Heads(q) = 9 THEN done.text = <<>> /\ done.out = <<Plain(d)>>
      ELSE done.text = text /\ done.out = <<>>
  BY <1>3, StartDrained
<1>6. Feed(s, payload) = IF ~Decodes(b) \/ Len(text) > MaxSize THEN Raised
                         ELSE [stream |-> [half |-> Pending(b), text |-> done.text],
                               out |-> done.out]
  BY <1>1 DEF Feed
<1>7. text = SubSeq(Plain(d), 1, Heads(q))
  BY DEF Start
<1> HIDE DEF s, payload, b, text, done
<1>8. ~(Len(text) > MaxSize)
  BY <1>3, <1>4, StreamsAssumption
<1>9. Feed(s, payload) = [stream |-> [half |-> Pending(b), text |-> done.text],
                          out |-> done.out]
  BY <1>2, <1>6, <1>8
<1>10. CASE q = 10
  BY <1>2, <1>3, <1>5, <1>9, <1>10 DEF Empty, s, payload
<1>11. CASE q # 10
  BY <1>2, <1>3, <1>5, <1>7, <1>9, <1>11 DEF Prefix, s, payload
<1> QED
  BY <1>10, <1>11 DEF s, payload

-----------------------------------------------------------------------------
(* The loop over a text of any kind                                        *)

LEMMA RoundOthers ==
    ASSUME NEW r, r.on, r.text # <<>>
    PROVE  /\ Char(r.text, 1) = "val" => Round(r) = [r EXCEPT !.text = Tail(r.text)]
           /\ Char(r.text, 1) \notin {"open", "val"} =>
                  Round(r) = [r EXCEPT !.on = FALSE, !.text = Skipped(r.text)]
BY DEF Round, Char

\* A round leaves the loop or shortens the text, or there is nothing to do.
LEMMA RoundProgress ==
    ASSUME NEW U, NEW r \in Rounds(U)
    PROVE  /\ ~r.on \/ r.text = <<>> => Round(r) = r
           /\ r.on /\ r.text # <<>> =>
                  ~Round(r).on \/ Len(Round(r).text) < Len(r.text)
<1>1. r.text \in Seq(U) /\ r = [on |-> r.on, text |-> r.text, out |-> r.out]
  BY DEF Rounds
<1>2. ASSUME ~r.on \/ r.text = <<>> PROVE Round(r) = r
  BY <1>2 DEF Round
<1>3. ASSUME r.on, r.text # <<>>
      PROVE  ~Round(r).on \/ Len(Round(r).text) < Len(r.text)
  <2> DEFINE c == Char(r.text, 1)
  <2>1. CASE c = "open" /\ Ends(r.text) = {}
    <3>1. Round(r) = [r EXCEPT !.on = FALSE]
      BY <1>3, <2>1, RoundOpens DEF Opens, Char
    <3> QED
      BY <1>1, <3>1
  <2>2. CASE c = "open" /\ Ends(r.text) # {}
    <3>1. PICK e \in Ends(r.text) :
              Round(r) = [r EXCEPT !.text = From(r.text, e + 1),
                                   !.out = Append(r.out, SubSeq(r.text, 1, e))]
      <4> DEFINE e == CHOOSE j \in Ends(r.text) : TRUE
      <4>1. e \in Ends(r.text)
        BY <2>2
      <4>2. Round(r) = [r EXCEPT !.text = From(@, e + 1),
                                 !.out = Append(@, SubSeq(r.text, 1, e))]
        BY <1>3, <2>2 DEF Round, Char
      <4> HIDE DEF e
      <4> QED
        BY <4>1, <4>2
    <3>2. e \in 1..Len(r.text) /\ Len(r.text) \in Nat
      BY <1>1, InEnds, Indexed
    <3>3. Len(From(r.text, e + 1)) = Len(r.text) - (e + 1) + 1
      <4>1. e + 1 \in 1..(Len(r.text) + 1)
        BY <3>2
      <4> QED
        BY <1>1, <4>1, FromTyped
    <3>4. Round(r).text = From(r.text, e + 1)
      BY <1>1, <3>1
    <3> QED
      BY <3>2, <3>3, <3>4
  <2>3. CASE c = "val"
    <3>1. Round(r) = [r EXCEPT !.text = Tail(r.text)]
      BY <1>3, <2>3, RoundOthers
    <3>2. Len(Tail(r.text)) < Len(r.text)
      BY <1>1, <1>3
    <3> QED
      BY <1>1, <3>1, <3>2
  <2>4. CASE c \notin {"open", "val"}
    <3>1. Round(r) = [r EXCEPT !.on = FALSE, !.text = Skipped(r.text)]
      BY <1>3, <2>4, RoundOthers
    <3> QED
      BY <1>1, <3>1
  <2> QED
    BY <2>1, <2>2, <2>3, <2>4
<1> QED
  BY <1>2, <1>3

\* The loop stops in any set of its states that a round does not lead out of.
LEMMA LoopEnds ==
    ASSUME NEW U, NEW text \in Seq(U), NEW S \in SUBSET Rounds(U),
           [on |-> TRUE, text |-> text, out |-> <<>>] \in S,
           \A r \in S : Round(r) \in S
    PROVE  Drained(text) \in S /\ (~Drained(text).on \/ Drained(text).text = <<>>)
<1>1. PICK f : Runs(f, text, Len(text)) /\ Drained(text) = f[Len(text)]
  BY DrainedIs
<1>2. PICK N \in Nat : N = Len(text)
  OBVIOUS
<1>3. f[0] = [on |-> TRUE, text |-> text, out |-> <<>>]
      /\ \A k \in 0..(N-1) : f[k+1] = Round(f[k])
  BY <1>1, <1>2, RunsStep
<1> DEFINE T == {k \in 0..N : /\ f[k] \in S
                              /\ f[k].on /\ f[k].text # <<>> => Len(f[k].text) <= N - k}
<1>4. 0 \in T
  BY <1>2, <1>3
<1>5. ASSUME NEW k \in 0..(N-1), k \in T PROVE k + 1 \in T
  <2>1. PICK r : r = f[k]
    OBVIOUS
  <2>2. /\ r \in S /\ r \in Rounds(U) /\ r.text \in Seq(U)
        /\ r.on /\ r.text # <<>> => Len(r.text) <= N - k
    BY <1>5, <2>1 DEF Rounds
  <2>3. f[k+1] = Round(r) /\ Round(r) \in S /\ Round(r) \in Rounds(U)
    BY <1>3, <2>1, <2>2
  <2>4. Len(r.text) \in Nat /\ Len(Round(r).text) \in Nat
    BY <2>2, <2>3 DEF Rounds
  <2>5. Round(r).on /\ Round(r).text # <<>> => Len(Round(r).text) <= N - (k + 1)
    BY <2>2, <2>4, RoundProgress
  <2> QED
    BY <2>3, <2>5
<1>6. N \in T
  <2> HIDE DEF T
  <2>1. \A k \in 0..N : k \in T
    BY <1>4, <1>5, Positions
  <2> QED
    BY <2>1
<1>7. f[N] \in S /\ (f[N].on /\ f[N].text # <<>> => Len(f[N].text) <= 0)
  BY <1>6
<1>8. f[N].text \in Seq(U) /\ f[N].on \in BOOLEAN
  BY <1>7 DEF Rounds
<1>9. ~f[N].on \/ f[N].text = <<>>
  BY <1>7, <1>8
<1> QED
  BY <1>1, <1>2, <1>7, <1>9

\* What a round makes of the text t: one of S, to go on with, or of G, to stop at.
Leads(t, S, G) ==
    \/ t = <<>>
    \/ t # <<>> /\ Opens(t) /\ Ends(t) = {} /\ t \in G
    \/ t # <<>> /\ Opens(t) /\ \E e : Ends(t) = {e} /\ From(t, e + 1) \in S
    \/ t # <<>> /\ Char(t, 1) = "val" /\ Tail(t) \in S
    \/ t # <<>> /\ Char(t, 1) \notin {"open", "val"} /\ Skipped(t) \in G

LEMMA LoopText ==
    ASSUME NEW U, NEW text \in Seq(U), NEW S, NEW G, text \in S,
           \A t \in S : Leads(t, S, G)
    PROVE  Drained(text).text \in G \/ (Drained(text).text = <<>> /\ <<>> \in S)
<1> DEFINE first == [on |-> TRUE, text |-> text, out |-> <<>>]
           L == {r \in Rounds(U) : /\ Made(r, U, Len(text))
                                   /\ IF r.on THEN r.text \in S ELSE r.text \in G}
<1>1. Len(text) \in Nat
  OBVIOUS
<1>2. first \in L
  <2>1. first \in Rounds(U) /\ DOMAIN first.out = {} /\ first.on /\ first.text = text
    BY DEF Rounds
  <2>2. Made(first, U, Len(text))
    BY <1>1, <2>1 DEF Made
  <2> HIDE DEF first
  <2> QED
    BY <2>1, <2>2
<1>3. ASSUME NEW r \in L PROVE Round(r) \in L
  <2>1. r \in Rounds(U) /\ Made(r, U, Len(text))
    BY <1>3
  <2>2. Made(Round(r), U, Len(text))
    BY <1>1, <2>1, RoundMade
  <2>3. Round(r) \in Rounds(U) /\ r = [on |-> r.on, text |-> r.text, out |-> r.out]
    BY <2>1, <2>2 DEF Made, Rounds
  <2>4. CASE ~r.on \/ r.text = <<>>
    BY <1>3, <2>1, <2>4, RoundProgress
  <2>5. CASE r.on /\ r.text # <<>>
    <3>1. r.text \in S
      BY <1>3, <2>5
    <3>2. PICK t : t = r.text
      OBVIOUS
    <3>3. Leads(t, S, G) /\ t # <<>>
      BY <2>5, <3>1, <3>2
    <3> SUFFICES \/ Round(r).on = TRUE /\ Round(r).text \in S
                 \/ Round(r).on = FALSE /\ Round(r).text \in G
      BY <2>2, <2>3
    <3>4. CASE Opens(t) /\ Ends(t) = {} /\ t \in G
      <4>1. Round(r) = [r EXCEPT !.on = FALSE]
        BY <2>5, <3>2, <3>4, RoundOpens
      <4> QED
        BY <2>3, <3>2, <3>4, <4>1
    <3>5. CASE Opens(t) /\ \E e : Ends(t) = {e} /\ From(t, e + 1) \in S
      <4>1. PICK e : Ends(t) = {e} /\ From(t, e + 1) \in S
        BY <3>5
      <4>2. Round(r) = [r EXCEPT !.text = From(r.text, e + 1),
                                 !.out = Append(r.out, SubSeq(r.text, 1, e))]
        BY <2>5, <3>2, <3>5, <4>1, RoundOpens
      <4>3. Round(r).text = From(t, e + 1) /\ Round(r).on = r.on /\ r.on = TRUE
        BY <2>1, <2>3, <2>5, <3>2, <4>2 DEF Rounds
      <4> QED
        BY <4>1, <4>3
    <3>6. CASE Char(t, 1) = "val" /\ Tail(t) \in S
      <4>1. Round(r) = [r EXCEPT !.text = Tail(r.text)]
        BY <2>5, <3>2, <3>6, RoundOthers
      <4>2. Round(r).text = Tail(t) /\ Round(r).on = r.on /\ r.on = TRUE
        BY <2>1, <2>3, <2>5, <3>2, <4>1 DEF Rounds
      <4> QED
        BY <3>6, <4>2
    <3>7. CASE Char(t, 1) \notin {"open", "val"} /\ Skipped(t) \in G
      <4>1. Round(r) = [r EXCEPT !.on = FALSE, !.text = Skipped(r.text)]
        BY <2>5, <3>2, <3>7, RoundOthers
      <4> QED
        BY <2>3, <3>2, <3>7, <4>1
    <3> QED
      BY <3>3, <3>4, <3>5, <3>6, <3>7 DEF Leads
  <2> QED
    BY <2>4, <2>5
<1>4. L \in SUBSET Rounds(U)
  OBVIOUS
<1> HIDE DEF L, first
<1>5. Drained(text) \in L /\ (~Drained(text).on \/ Drained(text).text = <<>>)
  <2>1. first \in L /\ \A r \in L : Round(r) \in L
    BY <1>2, <1>3
  <2> QED
    BY <1>4, <2>1, LoopEnds DEF first
<1> QED
  BY <1>5 DEF L

-----------------------------------------------------------------------------
(* Objects that end, and do not, in texts put together                     *)

LEMMA EndsUnique ==
    ASSUME NEW U, NEW s \in Seq(U), NEW e \in Ends(s)
    PROVE  Ends(s) = {e} /\ e \in 1..Len(s)
<1>1. \A j \in Ends(s) : j \in 1..Len(s) /\ Depth(s, j) = 0 /\ \A i \in 1..(j-1) : Depth(s, i) > 0
  BY InEnds, Indexed
<1>2. \A j \in 1..Len(s) : Depth(s, j) = 0 => ~(Depth(s, j) > 0)
  OBVIOUS
<1>3. ASSUME NEW j \in Ends(s) PROVE j = e
  <2>1. j \in 1..Len(s) /\ e \in 1..Len(s) /\ Len(s) \in Nat
    BY <1>1
  <2>2. ~(j < e) /\ ~(e < j)
    BY <1>1, <1>2, <2>1
  <2> QED
    BY <2>1, <2>2
<1> QED
  BY <1>1, <1>3

\* Only what comes after it can end an object that has not ended.
LEMMA EndsJoin ==
    ASSUME NEW U, NEW t \in Seq(U), NEW x \in Seq(U)
    PROVE  /\ \A e \in Ends(t) : Ends(t \o x) = {e}
           /\ Ends(t) = {} => \A e \in Ends(t \o x) : e \in (Len(t)+1)..(Len(t)+Len(x))
<1> DEFINE s == t \o x
<1>1. /\ s \in Seq(U) /\ Len(s) = Len(t) + Len(x) /\ Len(t) \in Nat /\ Len(x) \in Nat
      /\ \A i \in 1..Len(t) : s[i] = t[i]
  BY JoinIs, Indexed
<1>2. DOMAIN s = 1..(Len(t) + Len(x)) /\ DOMAIN t = 1..Len(t)
  BY <1>1, Indexed
<1> HIDE DEF s
<1>3. ASSUME NEW e \in 1..Len(t) PROVE e \in Ends(t) <=> e \in Ends(s)
  <2>1. \A j \in 1..e : Depth(s, j) = Depth(t, j)
    <3> TAKE j \in 1..e
    <3>1. \A i \in 1..j : s[i] = t[i]
      BY <1>1
    <3> QED
      BY <3>1, SameDepth
  <2>2. \A i \in 1..(e-1) : Chained(s, i) <=> Chained(t, i)
    <3> TAKE i \in 1..(e-1)
    <3>1. s[i] = t[i] /\ s[i+1] = t[i+1]
      BY <1>1
    <3> QED
      BY <3>1, SameChain
  <2>3. e \in DOMAIN s /\ e \in DOMAIN t
    BY <1>1, <1>2
  <2> QED
    BY <2>1, <2>2, <2>3, InEnds
<1>4. ASSUME NEW e \in Ends(t) PROVE Ends(s) = {e}
  <2>1. e \in 1..Len(t)
    BY EndsUnique
  <2> QED
    BY <1>1, <1>3, <2>1, EndsUnique
<1>5. ASSUME Ends(t) = {}, NEW e \in Ends(s) PROVE e \in (Len(t)+1)..(Len(t)+Len(x))
  <2>1. e \in 1..(Len(t) + Len(x))
    BY <1>1, EndsUnique
  <2>2. e \notin 1..Len(t)
    BY <1>3, <1>5
  <2> QED
    BY <1>1, <2>1, <2>2
<1> QED
  BY <1>4, <1>5 DEF s

LEMMA DepthJoin ==
    ASSUME NEW U, NEW t \in Seq(U), NEW x \in Seq(U)
    PROVE  \A k \in 0..Len(x) : /\ Depth(t \o x, Len(t) + k) = Depth(t, Len(t)) + Depth(x, k)
                                /\ Depth(x, k) \in Int /\ Depth(t, Len(t)) \in Int
<1> DEFINE s == t \o x
           L == Len(t)
           T == {k \in 0..Len(x) : Depth(s, L + k) = Depth(t, L) + Depth(x, k)}
<1>1. /\ s \in Seq(U) /\ L \in Nat /\ Len(x) \in Nat
      /\ \A i \in 1..L : s[i] = t[i]
      /\ \A i \in (L+1)..(L+Len(x)) : s[i] = x[i - L]
  BY JoinIs, Indexed
<1> HIDE DEF s
<1>2. Depth(s, L) = Depth(t, L) /\ Depth(t, L) \in Int /\ Depth(x, 0) = 0
  <2>1. Depth(s, L) = Depth(t, L)
    BY <1>1, SameDepth
  <2>2. Deeper(t, L) /\ Depth(x, 0) = 0
    BY <1>1, DepthStep
  <2> QED
    BY <2>1, <2>2 DEF Deeper
<1>3. 0 \in T
  BY <1>1, <1>2
<1>4. ASSUME NEW k \in 0..(Len(x)-1), k \in T PROVE k + 1 \in T
  <2>1. Deeper(s, L + k) /\ Deeper(x, k)
    <3>1. L + k \in Nat /\ k \in Nat
      BY <1>1
    <3> QED
      BY <3>1, DepthStep
  <2>2. Char(s, (L + k) + 1) = Char(x, k + 1)
    <3>1. (L + k) + 1 \in (L+1)..(L+Len(x)) /\ ((L + k) + 1) - L = k + 1
      BY <1>1
    <3> QED
      BY <1>1, <3>1 DEF Char
  <2>3. Depth(s, L + k) = Depth(t, L) + Depth(x, k) /\ k + 1 \in 0..Len(x)
        /\ (L + k) + 1 = L + (k + 1)
    BY <1>1, <1>4
  <2> HIDE DEF T, L
  <2>4. Depth(s, (L + k) + 1) = Depth(t, L) + Depth(x, k + 1)
    BY <1>2, <2>1, <2>2, <2>3 DEF Deeper
  <2> QED
    BY <2>3, <2>4 DEF T
<1>5. \A k \in 0..Len(x) : k \in T
  <2> HIDE DEF T
  <2> QED
    BY <1>1, <1>3, <1>4, Positions
<1>6. \A k \in 0..Len(x) : Depth(x, k) \in Int
  <2> TAKE k \in 0..Len(x)
  <2>1. Deeper(x, k)
    BY DepthStep
  <2> QED
    BY <2>1 DEF Deeper
<1> QED
  BY <1>2, <1>5, <1>6 DEF s

LEMMA FromIs ==
    ASSUME NEW U, NEW s \in Seq(U), NEW N, Len(s) = N, NEW j \in 1..(N + 1)
    PROVE  /\ From(s, j) \in Seq(U) /\ Len(From(s, j)) = N - j + 1
           /\ \A i \in 1..(N - j + 1) : From(s, j)[i] = s[j + i - 1]
<1>1. N \in Nat /\ N \in (j-1)..Len(s)
  BY Indexed
<1> QED
  BY <1>1, PartIs DEF From

\* JoinIs, for lengths that are known.
LEMMA JoinOf ==
    ASSUME NEW U, NEW a \in Seq(U), NEW b \in Seq(U), NEW L, Len(a) = L, NEW M, Len(b) = M
    PROVE  /\ a \o b \in Seq(U) /\ Len(a \o b) = L + M /\ L \in Nat /\ M \in Nat
           /\ \A i \in 1..L : (a \o b)[i] = a[i]
           /\ \A i \in (L+1)..(L+M) : (a \o b)[i] = b[i - L]
BY JoinIs, Indexed

LEMMA FromJoin ==
    ASSUME NEW U, NEW t \in Seq(U), NEW x \in Seq(U)
    PROVE  /\ \A j \in 1..Len(t) : From(t \o x, j) = From(t, j) \o x
           /\ \A j \in 1..(Len(x) + 1) : From(t \o x, Len(t) + j) = From(x, j)
           /\ From(t \o x, Len(t) + 1) = x
<1> DEFINE s == t \o x
<1>0. PICK L, M : Len(t) = L /\ Len(x) = M
  OBVIOUS
<1>1. /\ s \in Seq(U) /\ L \in Nat /\ M \in Nat /\ Len(s) = L + M
      /\ \A i \in 1..L : s[i] = t[i]
      /\ \A i \in (L+1)..(L+M) : s[i] = x[i - L]
  BY <1>0, JoinOf
<1> HIDE DEF s
<1>5. PICK N : N = L + M
  OBVIOUS
<1>2. ASSUME NEW j \in 1..L PROVE From(s, j) = From(t, j) \o x
  <2>1. /\ From(t, j) \in Seq(U) /\ Len(From(t, j)) = L - j + 1
        /\ \A i \in 1..(L - j + 1) : From(t, j)[i] = t[j + i - 1]
    <3>1. j \in 1..(L + 1)
      BY <1>1
    <3> QED
      BY <1>0, <3>1, FromIs
  <2>2. /\ From(s, j) \in Seq(U) /\ Len(From(s, j)) = N - j + 1
        /\ \A i \in 1..(N - j + 1) : From(s, j)[i] = s[j + i - 1]
    <3>1. j \in 1..(N + 1) /\ Len(s) = N
      BY <1>1, <1>5
    <3> QED
      BY <1>1, <3>1, FromIs
  <2>3. PICK a : a = From(t, j)
    OBVIOUS
  <2>4. PICK b : b = From(s, j)
    OBVIOUS
  <2>8. PICK K : K = L - j + 1
    OBVIOUS
  <2>5. /\ a \o x \in Seq(U) /\ Len(a \o x) = K + M
        /\ \A i \in 1..K : (a \o x)[i] = a[i]
        /\ \A i \in (K+1)..(K+M) : (a \o x)[i] = x[i - K]
    <3>1. a \in Seq(U) /\ Len(a) = K
      BY <2>1, <2>3, <2>8
    <3>2. PICK A \in Seq(U) : A = a
      BY <3>1
    <3>3. Len(A) = K /\ Len(x) = M
      BY <1>0, <3>1, <3>2
    <3>4. /\ A \o x \in Seq(U) /\ Len(A \o x) = K + M
          /\ \A i \in 1..K : (A \o x)[i] = A[i]
          /\ \A i \in (K+1)..(K+M) : (A \o x)[i] = x[i - K]
      BY <3>3, JoinOf
    <3> QED
      BY <3>2, <3>4
  <2>6. ASSUME NEW i \in 1..(N - j + 1) PROVE b[i] = (a \o x)[i]
    <3>1. CASE i <= K
      <4>1. i \in 1..K /\ i \in 1..(L - j + 1) /\ j + i - 1 \in 1..L
        BY <1>1, <2>8, <3>1
      <4>2. b[i] = s[j + i - 1] /\ (a \o x)[i] = a[i] /\ a[i] = t[j + i - 1]
        BY <2>1, <2>2, <2>3, <2>4, <2>5, <4>1
      <4> QED
        BY <1>1, <4>1, <4>2
    <3>2. CASE i > K
      <4>1. i \in (K+1)..(K+M) /\ j + i - 1 \in (L+1)..(L+M)
            /\ (j + i - 1) - L = i - K
        BY <1>1, <1>5, <2>8, <3>2
      <4>2. (a \o x)[i] = x[i - K] /\ b[i] = s[j + i - 1]
        BY <2>2, <2>4, <2>5, <4>1
      <4>3. s[j + i - 1] = x[(j + i - 1) - L]
        BY <1>1, <4>1
      <4> QED
        BY <4>1, <4>2, <4>3
    <3>3. K \in Int /\ i \in Int
      BY <1>1, <1>5, <2>8
    <3>4. i <= K \/ i > K
      BY <3>3
    <3> QED
      BY <3>1, <3>2, <3>4
  <2>7. Len(b) = Len(a \o x) /\ Len(b) = N - j + 1 /\ b \in Seq(U)
    BY <1>1, <1>5, <2>2, <2>4, <2>5, <2>8
  <2>9. b = a \o x
    BY <2>5, <2>6, <2>7, EqualSeqs
  <2> QED
    BY <2>3, <2>4, <2>9
<1>3. ASSUME NEW j \in 1..(M + 1) PROVE From(s, L + j) = From(x, j)
  <2>1. /\ From(x, j) \in Seq(U) /\ Len(From(x, j)) = M - j + 1
        /\ \A i \in 1..(M - j + 1) : From(x, j)[i] = x[j + i - 1]
    BY <1>0, FromIs
  <2>2. /\ From(s, L + j) \in Seq(U) /\ Len(From(s, L + j)) = N - (L + j) + 1
        /\ \A i \in 1..(N - (L + j) + 1) : From(s, L + j)[i] = s[(L + j) + i - 1]
    <3>1. L + j \in 1..(N + 1) /\ Len(s) = N
      BY <1>1, <1>5
    <3>2. PICK k \in 1..(N + 1) : k = L + j
      BY <3>1
    <3>3. /\ From(s, k) \in Seq(U) /\ Len(From(s, k)) = N - k + 1
          /\ \A i \in 1..(N - k + 1) : From(s, k)[i] = s[k + i - 1]
      BY <1>1, <3>1, FromIs
    <3> QED
      BY <3>2, <3>3
  <2>3. PICK a : a = From(x, j)
    OBVIOUS
  <2>4. PICK b : b = From(s, L + j)
    OBVIOUS
  <2>5. ASSUME NEW i \in 1..(M - j + 1) PROVE b[i] = a[i]
    <3>1. i \in 1..(N - (L + j) + 1) /\ (L + j) + i - 1 \in (L+1)..(L+M)
          /\ ((L + j) + i - 1) - L = j + i - 1
      BY <1>1, <1>5
    <3>2. b[i] = s[(L + j) + i - 1] /\ a[i] = x[j + i - 1]
      BY <2>1, <2>2, <2>3, <2>4, <3>1
    <3>3. s[(L + j) + i - 1] = x[((L + j) + i - 1) - L]
      BY <1>1, <3>1
    <3> QED
      BY <3>1, <3>2, <3>3
  <2>6. Len(b) = Len(a) /\ Len(b) = M - j + 1 /\ a \in Seq(U) /\ b \in Seq(U)
    BY <1>1, <1>5, <2>1, <2>2, <2>3, <2>4
  <2>7. b = a
    BY <2>5, <2>6, EqualSeqs
  <2> QED
    BY <2>3, <2>4, <2>7
<1>4. From(s, L + 1) = x
  <2>1. 1 \in 1..(M + 1)
    BY <1>1
  <2>2. From(x, 1) = x
    BY DEF From
  <2> QED
    BY <1>3, <2>1, <2>2
<1> QED
  BY <1>0, <1>2, <1>3, <1>4 DEF s

LEMMA SkippedIs ==
    ASSUME NEW U, NEW s \in Seq(U)
    PROVE  /\ (\A i \in 1..Len(s) : Char(s, i) # "open") => Skipped(s) = <<>>
           /\ \A j \in 1..Len(s) :
                  Char(s, j) = "open" /\ (\A i \in 1..(j-1) : Char(s, i) # "open")
                      => Skipped(s) = From(s, j)
<1>1. Opening(s) = {j \in 1..Len(s) : Char(s, j) = "open"} /\ Len(s) \in Nat
  BY Indexed DEF Opening, Char
<1>2. ASSUME \A i \in 1..Len(s) : Char(s, i) # "open" PROVE Skipped(s) = <<>>
  BY <1>1, <1>2 DEF Skipped
<1>3. ASSUME NEW j \in 1..Len(s), Char(s, j) = "open", \A i \in 1..(j-1) : Char(s, i) # "open"
      PROVE  Skipped(s) = From(s, j)
  <2> DEFINE c == CHOOSE k \in Opening(s) : \A i \in Opening(s) : k <= i
  <2>1. j \in Opening(s) /\ \A i \in Opening(s) : j <= i
    BY <1>1, <1>3
  <2>2. c \in Opening(s) /\ \A i \in Opening(s) : c <= i
    BY <2>1
  <2>3. Skipped(s) = From(s, c)
    BY <2>1 DEF Skipped
  <2> HIDE DEF c
  <2>4. c = j
    BY <1>1, <2>1, <2>2
  <2> QED
    BY <2>3, <2>4
<1> QED
  BY <1>2, <1>3

-----------------------------------------------------------------------------
(* What is left of a document that lost its beginning                      *)

\* Positions a to c of a document, decoded.
Part(d, a, c) == SubSeq(Plain(d), a, c)

LEMMA PlainChars ==
    ASSUME NEW d
    PROVE  /\ Char(Plain(d), 1) = "open" /\ Char(Plain(d), 2) = "key"
           /\ Char(Plain(d), 3) = "open" /\ Char(Plain(d), 4) = "key"
           /\ Char(Plain(d), 5) = "val" /\ Char(Plain(d), 6) = "close"
           /\ Char(Plain(d), 7) = "next" /\ Char(Plain(d), 8) = "lead"
           /\ Char(Plain(d), 9) = "close"
<1>1. \A k \in 1..10 : k # 9 => Plain(d)[Upto(k)] = UnitsOf(d)[k]
  BY PlainIs
<1>2. \A i \in 1..8 : Plain(d)[i] = UnitsOf(d)[i]
  <2> TAKE i \in 1..8
  <2>1. i \in 1..10 /\ i # 9 /\ Upto(i) = i
    BY DEF Upto
  <2> QED
    BY <1>1, <2>1
<1>3. Plain(d)[9] = UnitsOf(d)[10]
  <2>1. 10 \in 1..10 /\ 10 # 9 /\ Upto(10) = 9
    BY DEF Upto
  <2> QED
    BY <1>1, <2>1
<1>4. \A i \in 1..10 : UnitsOf(d)[i][1] = Shape[i]
  BY BytesAre
<1>5. \A i \in 1..8 : Char(Plain(d), i) = Shape[i]
  BY <1>2, <1>4 DEF Char
<1>6. Char(Plain(d), 9) = Shape[10]
  BY <1>3, <1>4 DEF Char
<1> QED
  BY <1>5, <1>6, ShapeIs

LEMMA PartOf ==
    ASSUME NEW U, NEW d, Plain(d) \in Seq(U), NEW a \in 1..10, NEW c \in (a-1)..9
    PROVE  /\ Part(d, a, c) \in Seq(U) /\ Len(Part(d, a, c)) = c - a + 1
           /\ \A i \in 1..(c - a + 1) : Part(d, a, c)[i] = Plain(d)[a + i - 1]
           /\ \A i \in 1..(c - a + 1) : Char(Part(d, a, c), i) = Char(Plain(d), a + i - 1)
           /\ c >= a <=> Part(d, a, c) # <<>>
<1> DEFINE s == Plain(d)
           x == Part(d, a, c)
<1>1. Len(s) = 9
  BY PlainIs
<1>2. x = SubSeq(s, a, c)
  BY DEF Part
<1> HIDE DEF s, x
<1>3. s \in Seq(U)
  BY DEF s
<1>4. a \in 1..(Len(s) + 1) /\ c \in (a-1)..Len(s)
  BY <1>1
<1>5. x \in Seq(U) /\ Len(x) = c - a + 1 /\ \A i \in 1..(c - a + 1) : x[i] = s[a + i - 1]
  BY <1>2, <1>3, <1>4, PartIs
<1>6. c >= a <=> x # <<>>
  BY <1>5
<1> QED
  BY <1>5, <1>6 DEF s, x, Char

LEMMA PartFrom ==
    ASSUME NEW U, NEW d, Plain(d) \in Seq(U), NEW a \in 1..10, NEW c \in (a-1)..9,
           NEW k \in 1..(c - a + 2)
    PROVE  From(Part(d, a, c), k) = Part(d, a + k - 1, c)
<1>1. PICK e \in 1..10 : e = a + k - 1
  OBVIOUS
<1>2. PICK N : N = c - a + 1
  OBVIOUS
<1>3. /\ Part(d, a, c) \in Seq(U) /\ Len(Part(d, a, c)) = N
      /\ \A i \in 1..N : Part(d, a, c)[i] = Plain(d)[a + i - 1]
  BY <1>2, PartOf
<1>4. /\ Part(d, e, c) \in Seq(U) /\ Len(Part(d, e, c)) = c - e + 1
      /\ \A i \in 1..(c - e + 1) : Part(d, e, c)[i] = Plain(d)[e + i - 1]
  <2>1. c \in (e-1)..9
    BY <1>1
  <2> QED
    BY <2>1, PartOf
<1>5. PICK x, y : x = Part(d, a, c) /\ y = Part(d, e, c)
  OBVIOUS
<1>6. /\ From(x, k) \in Seq(U) /\ Len(From(x, k)) = N - k + 1
      /\ \A i \in 1..(N - k + 1) : From(x, k)[i] = x[k + i - 1]
  <2>1. k \in 1..(N + 1) /\ x \in Seq(U) /\ Len(x) = N
    BY <1>2, <1>3, <1>5
  <2> QED
    BY <2>1, FromIs
<1>7. PICK z : z = From(x, k)
  OBVIOUS
<1>8. ASSUME NEW i \in 1..(N - k + 1) PROVE z[i] = y[i]
  <2>1. k + i - 1 \in 1..N /\ i \in 1..(c - e + 1) /\ a + (k + i - 1) - 1 = e + i - 1
    BY <1>1, <1>2
  <2>2. z[i] = x[k + i - 1]
    BY <1>6, <1>7
  <2>3. x[k + i - 1] = Plain(d)[a + (k + i - 1) - 1]
    BY <1>3, <1>5, <2>1
  <2>4. y[i] = Plain(d)[e + i - 1]
    BY <1>4, <1>5, <2>1
  <2> QED
    BY <2>1, <2>2, <2>3, <2>4
<1>9. z \in Seq(U) /\ y \in Seq(U) /\ Len(z) = Len(y) /\ Len(z) = N - k + 1
  BY <1>1, <1>2, <1>4, <1>5, <1>6, <1>7
<1>10. z = y
  BY <1>8, <1>9, EqualSeqs
<1> QED
  BY <1>1, <1>5, <1>7, <1>10

LEMMA PartTail ==
    ASSUME NEW U, NEW d, Plain(d) \in Seq(U), NEW a \in 1..9, NEW c \in a..9
    PROVE  Tail(Part(d, a, c)) = Part(d, a + 1, c)
<1>1. PICK x : x = Part(d, a, c)
  OBVIOUS
<1>2. x \in Seq(U) /\ Len(x) = c - a + 1
  <2>1. a \in 1..10 /\ c \in (a-1)..9
    OBVIOUS
  <2> QED
    BY <1>1, <2>1, PartOf
<1>3. Tail(x) = SubSeq(x, 2, Len(x))
  BY <1>2
<1>4. From(x, 2) = Part(d, a + 2 - 1, c)
  <2>1. 2 \in 1..(c - a + 2)
    OBVIOUS
  <2> QED
    BY <1>1, <2>1, PartFrom
<1> QED
  BY <1>1, <1>3, <1>4 DEF From

LEMMA PartJoin ==
    ASSUME NEW U, NEW d, Plain(d) \in Seq(U), NEW a \in 1..10, NEW b \in (a-1)..9, NEW c \in b..9
    PROVE  Part(d, a, b) \o Part(d, b + 1, c) = Part(d, a, c)
<1>1. PICK x, y, z : x = Part(d, a, b) /\ y = Part(d, b + 1, c) /\ z = Part(d, a, c)
  OBVIOUS
<1>2. PICK L, M : L = b - a + 1 /\ M = c - b
  OBVIOUS
<1>3. x \in Seq(U) /\ Len(x) = L /\ \A i \in 1..L : x[i] = Plain(d)[a + i - 1]
  BY <1>1, <1>2, PartOf
<1>4. y \in Seq(U) /\ Len(y) = M /\ \A i \in 1..M : y[i] = Plain(d)[b + i]
  <2>1. PICK e \in 1..10 : e = b + 1
    OBVIOUS
  <2>2. /\ Part(d, e, c) \in Seq(U) /\ Len(Part(d, e, c)) = c - e + 1
        /\ \A i \in 1..(c - e + 1) : Part(d, e, c)[i] = Plain(d)[e + i - 1]
    <3>1. c \in (e-1)..9
      BY <2>1
    <3> QED
      BY <3>1, PartOf
  <2>3. y = Part(d, e, c) /\ M = c - e + 1 /\ \A i \in 1..M : e + i - 1 = b + i
    BY <1>1, <1>2, <2>1
  <2> QED
    BY <2>2, <2>3
<1>5. z \in Seq(U) /\ Len(z) = c - a + 1 /\ \A i \in 1..(c - a + 1) : z[i] = Plain(d)[a + i - 1]
  <2>1. c \in (a-1)..9
    OBVIOUS
  <2> QED
    BY <1>1, <2>1, PartOf
<1>6. /\ x \o y \in Seq(U) /\ Len(x \o y) = L + M
      /\ \A i \in 1..L : (x \o y)[i] = x[i]
      /\ \A i \in (L+1)..(L+M) : (x \o y)[i] = y[i - L]
  <2>1. x \in Seq(U) /\ Len(x) = L /\ y \in Seq(U) /\ Len(y) = M
    BY <1>3, <1>4
  <2> QED
    BY <2>1, JoinOf
<1>7. PICK w : w = x \o y
  OBVIOUS
<1>8. ASSUME NEW i \in 1..(L + M) PROVE w[i] = z[i]
  <2>1. i \in 1..(c - a + 1)
    BY <1>2
  <2>2. CASE i \in 1..L
    BY <1>3, <1>5, <1>6, <1>7, <2>1, <2>2
  <2>3. CASE i \in (L+1)..(L+M)
    <3>1. i - L \in 1..M /\ b + (i - L) = a + i - 1
      BY <1>2, <2>3
    <3> QED
      BY <1>4, <1>5, <1>6, <1>7, <2>1, <2>3, <3>1
  <2> QED
    BY <1>2, <2>2, <2>3
<1>9. w \in Seq(U) /\ Len(w) = Len(z) /\ Len(w) = L + M
  BY <1>2, <1>5, <1>6, <1>7
<1>10. w = z
  BY <1>5, <1>8, <1>9, EqualSeqs
<1> QED
  BY <1>1, <1>7, <1>10

\* The inner object of a document, and all that can be wrong with what is left
\* of one from there.
LEMMA PartEndsInside ==
    ASSUME NEW U, NEW d, Plain(d) \in Seq(U), NEW c \in 3..9
    PROVE  Ends(Part(d, 3, c)) = IF c >= 6 THEN {4} ELSE {}
<1> DEFINE s == Part(d, 3, c)
<1>1. s \in Seq(U) /\ Len(s) = c - 2 /\ \A i \in 1..(c - 2) : Char(s, i) = Char(Plain(d), i + 2)
  <2>1. /\ s \in Seq(U) /\ Len(s) = c - 3 + 1
        /\ \A i \in 1..(c - 3 + 1) : Char(s, i) = Char(Plain(d), 3 + i - 1)
    <3>1. 3 \in 1..10 /\ c \in (3-1)..9
      OBVIOUS
    <3> QED
      BY <3>1, PartOf
  <2> QED
    BY <2>1
<1> HIDE DEF s
<1>2. /\ c >= 3 => Char(s, 1) = "open"
      /\ c >= 4 => Char(s, 2) = "key"
      /\ c >= 5 => Char(s, 3) = "val"
      /\ c >= 6 => Char(s, 4) = "close"
  BY <1>1, PlainChars
<1>3. Depth(s, 0) = 0 /\ Deeper(s, 0) /\ Deeper(s, 1) /\ Deeper(s, 2) /\ Deeper(s, 3)
  BY DepthStep
<1>4. /\ c >= 3 => Depth(s, 1) = 1
      /\ c >= 4 => Depth(s, 2) = 1
      /\ c >= 5 => Depth(s, 3) = 1
      /\ c >= 6 => Depth(s, 4) = 0
  BY <1>2, <1>3 DEF Deeper
<1>5. CASE c >= 6
  <2>1. Chained(s, 1) /\ Chained(s, 2) /\ Chained(s, 3)
    BY <1>2, <1>5 DEF Chained, Char, Follows
  <2>2. \A i \in 1..(4-1) : Depth(s, i) > 0 /\ Chained(s, i)
    <3> TAKE i \in 1..(4-1)
    <3>1. i = 1 \/ i = 2 \/ i = 3
      OBVIOUS
    <3> QED
      BY <1>4, <1>5, <2>1, <3>1
  <2>3. 4 \in DOMAIN s
    BY <1>1, <1>5, Indexed
  <2>4. 4 \in Ends(s)
    BY <1>4, <1>5, <2>2, <2>3, InEnds
  <2> QED
    BY <1>1, <1>5, <2>4, EndsUnique DEF s
<1>6. CASE c < 6
  <2>1. \A e \in Ends(s) : e \in 1..3 /\ e <= c - 2 /\ Depth(s, e) = 0
    BY <1>1, <1>6, EndsUnique, InEnds
  <2>2. \A e \in 1..3 : e = 1 \/ e = 2 \/ e = 3
    OBVIOUS
  <2>3. Ends(s) = {}
    BY <1>4, <1>6, <2>1, <2>2
  <2> QED
    BY <1>6, <2>3 DEF s
<1> QED
  BY <1>5, <1>6

LEMMA EmptyText ==
    ASSUME NEW U, NEW s \in Seq(U)
    PROVE  s = <<>> <=> Len(s) = 0
OBVIOUS

LEMMA PartHead ==
    ASSUME NEW U, NEW d, Plain(d) \in Seq(U), NEW a \in 1..9, NEW c \in a..9
    PROVE  /\ Part(d, a, c) \in Seq(U) /\ Part(d, a, c) # <<>>
           /\ Char(Part(d, a, c), 1) = Char(Plain(d), a)
           /\ Len(Part(d, a, c)) = c - a + 1
           /\ \A i \in 1..(c - a + 1) : Char(Part(d, a, c), i) = Char(Plain(d), a + i - 1)
<1>1. a \in 1..10 /\ c \in (a-1)..9 /\ c >= a
  OBVIOUS
<1>2. /\ Part(d, a, c) \in Seq(U) /\ Part(d, a, c) # <<>>
      /\ Len(Part(d, a, c)) = c - a + 1
      /\ \A i \in 1..(c - a + 1) : Char(Part(d, a, c), i) = Char(Plain(d), a + i - 1)
  BY <1>1, PartOf
<1>3. 1 \in 1..(c - a + 1) /\ a + 1 - 1 = a
  OBVIOUS
<1> QED
  BY <1>2, <1>3

\* A part that begins after a document's first brace: what can stay of it is
\* from its inner object on.
LEMMA PartSkips ==
    ASSUME NEW U, NEW d, Plain(d) \in Seq(U), NEW k \in {2, 4, 6, 7, 8, 9}, NEW c \in k..9
    PROVE  LET x == Part(d, k, c)
           IN  /\ x # <<>> /\ Char(x, 1) \notin {"open", "val"}
               /\ Skipped(x) = IF k = 2 /\ c >= 3 THEN Part(d, 3, c) ELSE <<>>
<1> DEFINE x == Part(d, k, c)
<1>1. /\ x \in Seq(U) /\ Len(x) = c - k + 1 /\ x # <<>>
      /\ \A i \in 1..(c - k + 1) : Char(x, i) = Char(Plain(d), k + i - 1)
  <2>1. PICK a \in 1..9 : a = k
    OBVIOUS
  <2>2. c \in a..9
    BY <2>1
  <2>3. /\ Part(d, a, c) \in Seq(U) /\ Part(d, a, c) # <<>>
        /\ Len(Part(d, a, c)) = c - a + 1
        /\ \A i \in 1..(c - a + 1) : Char(Part(d, a, c), i) = Char(Plain(d), a + i - 1)
    BY <2>2, PartHead
  <2> QED
    BY <2>1, <2>3
<1>2. \A j \in 1..9 : /\ Char(Plain(d), j) = "open" <=> j \in {1, 3}
                      /\ Char(Plain(d), j) = "val" <=> j = 5
  <2> TAKE j \in 1..9
  <2>1. j = 1 \/ j = 2 \/ j = 3 \/ j = 4 \/ j = 5 \/ j = 6 \/ j = 7 \/ j = 8 \/ j = 9
    OBVIOUS
  <2> QED
    BY <2>1, PlainChars
<1> HIDE DEF x
<1>3. Char(x, 1) \notin {"open", "val"}
  <2>1. Char(x, 1) = Char(Plain(d), k)
    <3>1. 1 \in 1..(c - k + 1) /\ k + 1 - 1 = k
      OBVIOUS
    <3> QED
      BY <1>1, <3>1
  <2>2. k \in 1..9 /\ k \notin {1, 3} /\ k # 5
    OBVIOUS
  <2> QED
    BY <1>2, <2>1, <2>2
<1>4. CASE k = 2 /\ c >= 3
  <2>1. Char(x, 2) = "open" /\ Char(x, 1) # "open"
    <3>1. 2 \in 1..(c - k + 1) /\ k + 2 - 1 = 3 /\ 3 \in 1..9
      BY <1>4
    <3>2. Char(x, 2) = Char(Plain(d), 3)
      BY <1>1, <3>1
    <3> QED
      BY <1>2, <1>3, <3>1, <3>2
  <2>2. 2 \in 1..Len(x) /\ \A i \in 1..(2-1) : Char(x, i) # "open"
    <3>1. 2 \in 1..Len(x) /\ \A i \in 1..(2-1) : i = 1
      BY <1>1, <1>4
    <3> QED
      BY <2>1, <3>1
  <2>3. Skipped(x) = From(x, 2)
    BY <1>1, <2>1, <2>2, SkippedIs
  <2>4. From(x, 2) = Part(d, k + 2 - 1, c)
    <3>1. 2 \in 1..(c - k + 2) /\ k \in 1..10 /\ c \in (k-1)..9
      BY <1>4
    <3> QED
      BY <3>1, PartFrom DEF x
  <2>5. k + 2 - 1 = 3
    BY <1>4
  <2> QED
    BY <1>1, <1>3, <1>4, <2>3, <2>4, <2>5 DEF x
<1>5. CASE ~(k = 2 /\ c >= 3)
  <2>1. \A i \in 1..Len(x) : Char(x, i) # "open"
    <3> TAKE i \in 1..Len(x)
    <3>1. /\ i \in 1..(c - k + 1) /\ k + i - 1 \in 1..9 /\ k + i - 1 \notin {1, 3}
      BY <1>1, <1>5
    <3> QED
      BY <1>1, <1>2, <3>1
  <2>2. Skipped(x) = <<>>
    BY <1>1, <2>1, SkippedIs
  <2> QED
    BY <1>1, <1>3, <1>5, <2>2 DEF x
<1> QED
  BY <1>4, <1>5

LEMMA PartLeads ==
    ASSUME NEW U, NEW d, Plain(d) \in Seq(U), NEW c \in 1..9, NEW k \in 2..(c + 1),
           NEW S, NEW G, \A j \in k..(c + 1) : Part(d, j, c) \in S,
           <<>> \in G, c >= 3 => Part(d, 3, c) \in G
    PROVE  Leads(Part(d, k, c), S, G)
<1>1. CASE k = c + 1
  <2>1. Part(d, k, c) = <<>>
    <3>1. k \in 1..10 /\ c \in (k-1)..9 /\ ~(c >= k)
      BY <1>1
    <3> QED
      BY <3>1, PartOf
  <2> QED
    BY <2>1 DEF Leads
<1>2. CASE k <= c /\ k \in {2, 4, 6, 7, 8, 9}
  <2>1. c \in k..9
    BY <1>2
  <2>2. LET x == Part(d, k, c)
        IN  /\ x # <<>> /\ Char(x, 1) \notin {"open", "val"}
            /\ Skipped(x) = IF k = 2 /\ c >= 3 THEN Part(d, 3, c) ELSE <<>>
    BY <1>2, <2>1, PartSkips
  <2>3. PICK x : x = Part(d, k, c)
    OBVIOUS
  <2>4. x # <<>> /\ Char(x, 1) \notin {"open", "val"} /\ Skipped(x) \in G
    BY <2>2, <2>3
  <2>5. Leads(x, S, G)
    BY <2>4 DEF Leads
  <2> QED
    BY <2>3, <2>5
<1>3. CASE k = 3 /\ k <= c
  <2>1. PICK x : x = Part(d, 3, c)
    OBVIOUS
  <2>2. x \in Seq(U) /\ x # <<>> /\ Char(x, 1) = "open"
    <3>1. PICK a \in 1..9 : a = 3
      OBVIOUS
    <3>2. c \in a..9
      BY <1>3, <3>1
    <3>3. /\ Part(d, a, c) \in Seq(U) /\ Part(d, a, c) # <<>>
          /\ Char(Part(d, a, c), 1) = Char(Plain(d), a)
      BY <3>2, PartHead
    <3> QED
      BY <2>1, <3>1, <3>3, PlainChars
  <2>3. Ends(x) = IF c >= 6 THEN {4} ELSE {}
    <3>1. c \in 3..9
      BY <1>3
    <3> QED
      BY <2>1, <3>1, PartEndsInside
  <2>4. Opens(x)
    BY <2>2 DEF Opens, Char
  <2>5. CASE c >= 6
    <3>1. From(x, 4 + 1) = Part(d, 7, c)
      <4>1. 3 \in 1..10 /\ c \in (3-1)..9 /\ 5 \in 1..(c - 3 + 2) /\ 3 + 5 - 1 = 7 /\ 4 + 1 = 5
        BY <2>5
      <4>2. From(Part(d, 3, c), 5) = Part(d, 3 + 5 - 1, c)
        BY <4>1, PartFrom
      <4> QED
        BY <2>1, <4>1, <4>2
    <3>2. Part(d, 7, c) \in S
      <4>1. 7 \in k..(c + 1)
        BY <1>3, <2>5
      <4> QED
        BY <4>1
    <3>3. \E e : Ends(x) = {e} /\ From(x, e + 1) \in S
      BY <2>3, <2>5, <3>1, <3>2
    <3>4. Leads(x, S, G)
      BY <2>2, <2>4, <3>3 DEF Leads
    <3> QED
      BY <1>3, <2>1, <3>4
  <2>6. CASE c < 6
    <3>1. Ends(x) = {} /\ x \in G
      BY <1>3, <2>1, <2>3, <2>6
    <3>2. Leads(x, S, G)
      BY <2>2, <2>4, <3>1 DEF Leads
    <3> QED
      BY <1>3, <2>1, <3>2
  <2> QED
    BY <2>5, <2>6
<1>4. CASE k = 5 /\ k <= c
  <2>1. PICK x : x = Part(d, 5, c)
    OBVIOUS
  <2>2. x # <<>> /\ Char(x, 1) = "val"
    <3>1. PICK a \in 1..9 : a = 5
      OBVIOUS
    <3>2. c \in a..9
      BY <1>4, <3>1
    <3>3. /\ Part(d, a, c) \in Seq(U) /\ Part(d, a, c) # <<>>
          /\ Char(Part(d, a, c), 1) = Char(Plain(d), a)
      BY <3>2, PartHead
    <3> QED
      BY <2>1, <3>1, <3>3, PlainChars
  <2>3. Tail(x) \in S
    <3>1. 5 \in 1..9 /\ c \in 5..9 /\ 5 + 1 \in k..(c + 1)
      BY <1>4
    <3>2. Tail(x) = Part(d, 5 + 1, c)
      BY <2>1, <3>1, PartTail
    <3> QED
      BY <3>1, <3>2
  <2>4. Leads(x, S, G)
    BY <2>2, <2>3 DEF Leads
  <2> QED
    BY <1>4, <2>1, <2>4
<1>5. k = c + 1 \/ (k <= c /\ (k \in {2, 4, 6, 7, 8, 9} \/ k = 3 \/ k = 5))
  OBVIOUS
<1> QED
  BY <1>1, <1>2, <1>3, <1>4, <1>5

\* Parts of d up to c, from the ath position on.
Parts(d, a, c) == {Part(d, j, c) : j \in a..(c + 1)}

LEMMA PartDrained ==
    ASSUME NEW U, NEW d, Plain(d) \in Seq(U), NEW c \in 1..9, NEW a \in 2..(c + 1)
    PROVE  Drained(Part(d, a, c)).text \in {<<>>, Part(d, 3, c)}
<1> DEFINE S == Parts(d, a, c)
           G == {<<>>, Part(d, 3, c)}
<1>1. ASSUME NEW t \in S PROVE Leads(t, S, G)
  <2>1. PICK k \in a..(c + 1) : t = Part(d, k, c)
    BY <1>1 DEF Parts
  <2>2. k \in 2..(c + 1) /\ \A j \in k..(c + 1) : j \in a..(c + 1)
    OBVIOUS
  <2>3. \A j \in k..(c + 1) : Part(d, j, c) \in S
    BY <2>2 DEF Parts
  <2>4. <<>> \in G /\ Part(d, 3, c) \in G
    OBVIOUS
  <2> HIDE DEF S, G
  <2> QED
    BY <2>1, <2>2, <2>3, <2>4, PartLeads
<1>2. Part(d, a, c) \in S /\ Part(d, a, c) \in Seq(U)
  <2>1. a \in a..(c + 1) /\ a \in 1..10 /\ c \in (a-1)..9
    OBVIOUS
  <2> QED
    BY <2>1, PartOf DEF Parts
<1>3. <<>> \in G
  OBVIOUS
<1>4. PICK x : x = Part(d, a, c)
  OBVIOUS
<1> HIDE DEF S, G
<1>5. Drained(x).text \in G \/ Drained(x).text = <<>>
  BY <1>1, <1>2, <1>4, LoopText
<1> QED
  BY <1>3, <1>4, <1>5 DEF G

-----------------------------------------------------------------------------
(* Texts that a document is appended to                                    *)

LEMMA JoinOpens ==
    ASSUME NEW U, NEW t \in Seq(U), t # <<>>, NEW x \in Seq(U)
    PROVE  /\ t \o x \in Seq(U) /\ t \o x # <<>> /\ Char(t \o x, 1) = Char(t, 1)
           /\ Opens(t \o x) <=> Opens(t)
<1>1. PICK L, M : Len(t) = L /\ Len(x) = M
  OBVIOUS
<1>2. /\ t \o x \in Seq(U) /\ Len(t \o x) = L + M /\ L \in Nat /\ M \in Nat
      /\ \A i \in 1..L : (t \o x)[i] = t[i]
  BY <1>1, JoinOf
<1>3. L > 0
  BY <1>1, <1>2, EmptyText
<1>4. PICK y : y = t \o x
  OBVIOUS
<1>5. y \in Seq(U) /\ Len(y) # 0 /\ y[1] = t[1]
  BY <1>2, <1>3, <1>4
<1> QED
  BY <1>4, <1>5, EmptyText DEF Opens, Char

\* An object that ends before what was appended.
LEMMA EndLeads ==
    ASSUME NEW U, NEW t \in Seq(U), t # <<>>, Opens(t), NEW e \in Ends(t), NEW x \in Seq(U),
           NEW S, NEW G, IF e = Len(t) THEN x \in S ELSE From(t, e + 1) \o x \in S
    PROVE  Leads(t \o x, S, G)
<1>1. Ends(t \o x) = {e} /\ e \in 1..Len(t) /\ Len(t) \in Nat
  BY EndsJoin, EndsUnique, Indexed
<1>2. From(t \o x, e + 1) \in S
  <2>1. CASE e = Len(t)
    BY <2>1, FromJoin
  <2>2. CASE e # Len(t)
    <3>1. PICK j \in 1..Len(t) : j = e + 1
      BY <1>1, <2>2
    <3>2. From(t \o x, j) = From(t, j) \o x
      BY FromJoin
    <3> QED
      BY <2>2, <3>1, <3>2
  <2> QED
    BY <2>1, <2>2
<1>3. t \o x # <<>> /\ Opens(t \o x)
  BY JoinOpens
<1>4. \E f : Ends(t \o x) = {f} /\ From(t \o x, f + 1) \in S
  BY <1>1, <1>2
<1> QED
  BY <1>3, <1>4 DEF Leads

\* An object that does not.
LEMMA WaitLeads ==
    ASSUME NEW U, NEW d, Plain(d) \in Seq(U), NEW c \in 0..9, NEW a \in 1..(c + 1),
           NEW t \in Seq(U), t # <<>>, Opens(t), Ends(t) = {}, NEW S, NEW G,
           \A j \in (a + 1)..(c + 1) : Part(d, j, c) \in S,
           Ends(t \o Part(d, a, c)) = {} => t \o Part(d, a, c) \in G
    PROVE  Leads(t \o Part(d, a, c), S, G)
<1>1. PICK x : x = Part(d, a, c)
  OBVIOUS
<1>2. x \in Seq(U) /\ Len(x) = c - a + 1
  <2>1. a \in 1..10 /\ c \in (a-1)..9
    OBVIOUS
  <2> QED
    BY <1>1, <2>1, PartOf
<1>3. t \o x # <<>> /\ Opens(t \o x) /\ t \o x \in Seq(U)
  BY <1>2, JoinOpens
<1>4. CASE Ends(t \o x) = {}
  BY <1>1, <1>3, <1>4 DEF Leads
<1>5. CASE Ends(t \o x) # {}
  <2>1. PICK e \in Ends(t \o x) : TRUE
    BY <1>5
  <2>2. Ends(t \o x) = {e} /\ e \in (Len(t)+1)..(Len(t)+Len(x))
    BY <1>2, <1>3, EndsJoin, EndsUnique
  <2>3. PICK L : L = Len(t)
    OBVIOUS
  <2>4. L \in Nat
    BY <2>3, Indexed
  <2>5. PICK j \in 2..(c - a + 2) : j = e + 1 - L
    <3>1. e \in (L + 1)..(L + (c - a + 1))
      BY <1>2, <2>2, <2>3
    <3>2. e + 1 - L \in 2..(c - a + 2)
      BY <2>4, <3>1
    <3> QED
      BY <3>2
  <2>6. From(t \o x, L + j) = From(x, j)
    <3>1. j \in 1..(Len(x) + 1)
      BY <1>2
    <3> QED
      BY <1>2, <2>3, <3>1, FromJoin
  <2>7. From(x, j) = Part(d, a + j - 1, c)
    <3>1. a \in 1..10 /\ c \in (a-1)..9 /\ j \in 1..(c - a + 2)
      OBVIOUS
    <3> QED
      BY <1>1, <3>1, PartFrom
  <2>8. L + j = e + 1 /\ a + j - 1 \in (a + 1)..(c + 1)
    BY <2>2, <2>3, <2>4, <2>5
  <2>9. From(t \o x, e + 1) \in S
    BY <2>6, <2>7, <2>8
  <2>10. \E f : Ends(t \o x) = {f} /\ From(t \o x, f + 1) \in S
    BY <2>2, <2>9
  <2>11. Leads(t \o x, S, G)
    BY <1>3, <2>10 DEF Leads
  <2> QED
    BY <1>1, <2>11
<1> QED
  BY <1>4, <1>5

LEMMA SkippedJoin ==
    ASSUME NEW U, NEW t \in Seq(U), \A i \in 1..Len(t) : Char(t, i) # "open", NEW x \in Seq(U)
    PROVE  Skipped(t \o x) = Skipped(x)
<1>1. PICK L, M : Len(t) = L /\ Len(x) = M
  OBVIOUS
<1>2. PICK y : y = t \o x
  OBVIOUS
<1>3. /\ y \in Seq(U) /\ Len(y) = L + M /\ L \in Nat /\ M \in Nat
      /\ \A i \in 1..L : Char(y, i) = Char(t, i)
      /\ \A i \in (L+1)..(L+M) : Char(y, i) = Char(x, i - L)
  BY <1>1, <1>2, JoinOf DEF Char
<1>4. CASE \A i \in 1..M : Char(x, i) # "open"
  <2>1. \A i \in 1..(L+M) : Char(y, i) # "open"
    <3> TAKE i \in 1..(L+M)
    <3>1. CASE i \in 1..L
      BY <1>1, <1>3, <3>1
    <3>2. CASE i \notin 1..L
      <4>1. i \in (L+1)..(L+M) /\ i - L \in 1..M
        BY <1>3, <3>2
      <4> QED
        BY <1>3, <1>4, <4>1
    <3> QED
      BY <3>1, <3>2
  <2>2. Skipped(y) = <<>>
    BY <1>3, <2>1, SkippedIs
  <2>3. Skipped(x) = <<>>
    BY <1>1, <1>4, SkippedIs
  <2> QED
    BY <1>2, <2>2, <2>3
<1>5. CASE \E i \in 1..M : Char(x, i) = "open"
  <2> DEFINE B == {i \in 1..M : Char(x, i) = "open"}
  <2>1. B \subseteq Nat /\ B # {}
    BY <1>5
  <2>2. PICK j \in B : \A k \in B : j <= k
    <3> HIDE DEF B
    <3> QED
      BY <2>1, Least
  <2>3. j \in 1..M /\ Char(x, j) = "open" /\ \A i \in 1..(j-1) : Char(x, i) # "open"
    <3>1. j \in 1..M /\ Char(x, j) = "open"
      OBVIOUS
    <3>2. \A i \in 1..(j-1) : i \in 1..M /\ ~(j <= i)
      BY <1>3, <3>1
    <3> QED
      BY <2>2, <3>1, <3>2
  <2>4. Skipped(x) = From(x, j)
    BY <1>1, <2>3, SkippedIs
  <2>5. /\ L + j \in 1..(L + M) /\ Char(y, L + j) = "open"
        /\ \A i \in 1..((L + j)-1) : Char(y, i) # "open"
    <3>1. L + j \in (L+1)..(L+M) /\ (L + j) - L = j /\ L + j \in 1..(L + M)
      BY <1>3, <2>3
    <3>2. Char(y, L + j) = "open"
      BY <1>3, <2>3, <3>1
    <3>3. \A i \in 1..((L + j)-1) : Char(y, i) # "open"
      <4> TAKE i \in 1..((L + j)-1)
      <4>1. CASE i \in 1..L
        BY <1>1, <1>3, <4>1
      <4>2. CASE i \notin 1..L
        <5>1. i \in (L+1)..(L+M) /\ i - L \in 1..(j-1)
          BY <1>3, <2>3, <4>2
        <5> QED
          BY <1>3, <2>3, <5>1
      <4> QED
        BY <4>1, <4>2
    <3> QED
      BY <3>1, <3>2, <3>3
  <2>6. PICK m : m = L + j
    OBVIOUS
  <2>7. m \in 1..Len(y) /\ Char(y, m) = "open" /\ \A i \in 1..(m-1) : Char(y, i) # "open"
    BY <1>3, <2>5, <2>6
  <2>8. Skipped(y) = From(y, m)
    BY <1>3, <2>7, SkippedIs
  <2>9. From(y, m) = From(x, j)
    <3>1. j \in 1..(Len(x) + 1)
      BY <1>1, <1>3, <2>3
    <3>2. From(t \o x, Len(t) + j) = From(x, j)
      BY <3>1, FromJoin
    <3> QED
      BY <1>1, <1>2, <2>6, <3>2
  <2> QED
    BY <1>2, <2>4, <2>8, <2>9
<1> QED
  BY <1>4, <1>5

LEMMA PartSkipped ==
    ASSUME NEW U, NEW d, Plain(d) \in Seq(U), NEW c \in 0..9, NEW a \in 1..(c + 1)
    PROVE  /\ a = 1 /\ c >= 1 => Skipped(Part(d, a, c)) = Part(d, a, c)
           /\ a > 1 \/ c = 0 => Skipped(Part(d, a, c)) = <<>>
                                \/ (c >= 3 /\ Skipped(Part(d, a, c)) = Part(d, 3, c))
<1>1. CASE a = c + 1
  <2>1. a \in 1..10 /\ c \in (a-1)..9 /\ c - a + 1 = 0
    BY <1>1
  <2>2. Part(d, a, c) \in Seq(U) /\ Len(Part(d, a, c)) = 0
    BY <2>1, PartOf
  <2>3. Skipped(Part(d, a, c)) = <<>>
    <3>1. PICK x : x = Part(d, a, c)
      OBVIOUS
    <3>2. x \in Seq(U) /\ \A i \in 1..Len(x) : Char(x, i) # "open"
      BY <2>2, <3>1
    <3>3. Skipped(x) = <<>>
      BY <3>2, SkippedIs
    <3> QED
      BY <3>1, <3>3
  <2> QED
    BY <1>1, <2>3
<1>2. CASE a <= c /\ a \in {2, 4, 6, 7, 8, 9}
  <2>1. c \in a..9
    BY <1>2
  <2>2. Skipped(Part(d, a, c)) = IF a = 2 /\ c >= 3 THEN Part(d, 3, c) ELSE <<>>
    BY <1>2, <2>1, PartSkips
  <2> QED
    BY <1>2, <2>2
<1>3. CASE a <= c /\ a \in {1, 3}
  <2>1. PICK b \in 1..9 : b = a
    BY <1>3
  <2>2. c \in b..9
    BY <1>3, <2>1
  <2>3. PICK x : x = Part(d, b, c)
    OBVIOUS
  <2>4. x \in Seq(U) /\ x # <<>> /\ Char(x, 1) = Char(Plain(d), b)
    BY <2>2, <2>3, PartHead
  <2>5. Char(x, 1) = "open"
    BY <1>3, <2>1, <2>4, PlainChars
  <2>6. 1 \in 1..Len(x) /\ \A i \in 1..(1-1) : Char(x, i) # "open"
    BY <2>4
  <2>7. Skipped(x) = From(x, 1)
    BY <2>4, <2>5, <2>6, SkippedIs
  <2>8. From(x, 1) = x
    BY <2>4 DEF From
  <2> QED
    BY <1>3, <2>1, <2>3, <2>7, <2>8
<1>4. CASE a <= c /\ a = 5
  <2>1. PICK x : x = Part(d, 5, c)
    OBVIOUS
  <2>2. /\ x \in Seq(U) /\ Len(x) = c - 5 + 1
        /\ \A i \in 1..(c - 5 + 1) : Char(x, i) = Char(Plain(d), 5 + i - 1)
    <3>1. PICK b \in 1..9 : b = 5
      OBVIOUS
    <3>2. c \in b..9
      BY <1>4, <3>1
    <3>3. /\ Part(d, b, c) \in Seq(U) /\ Len(Part(d, b, c)) = c - b + 1
          /\ \A i \in 1..(c - b + 1) : Char(Part(d, b, c), i) = Char(Plain(d), b + i - 1)
      BY <3>2, PartHead
    <3> QED
      BY <2>1, <3>1, <3>3
  <2>3. \A i \in 1..Len(x) : Char(x, i) # "open"
    <3> TAKE i \in 1..Len(x)
    <3>1. i \in 1..(c - 5 + 1) /\ 5 + i - 1 \in 5..9
      BY <2>2
    <3>2. 5 + i - 1 = 5 \/ 5 + i - 1 = 6 \/ 5 + i - 1 = 7 \/ 5 + i - 1 = 8 \/ 5 + i - 1 = 9
      BY <3>1
    <3> QED
      BY <2>2, <3>1, <3>2, PlainChars
  <2>4. Skipped(x) = <<>>
    BY <2>2, <2>3, SkippedIs
  <2> QED
    BY <1>4, <2>1, <2>4
<1>5. a = c + 1 \/ (a <= c /\ (a \in {2, 4, 6, 7, 8, 9} \/ a \in {1, 3} \/ a = 5))
  OBVIOUS
<1> QED
  BY <1>1, <1>2, <1>3, <1>4, <1>5

\* An object that has begun and not ended.
Waits(t) == t # <<>> /\ Opens(t) /\ Ends(t) = {}

\* A whole object at the front is the first that comes out.
LEMMA FirstOut ==
    ASSUME NEW U, NEW text \in Seq(U), text # <<>>, Opens(text), NEW e \in Ends(text)
    PROVE  LET out == Drained(text).out
           IN  out \in Seq(Seq(U)) /\ out # <<>> /\ out[1] = SubSeq(text, 1, e)
<1> DEFINE first == [on |-> TRUE, text |-> text, out |-> <<>>]
           o == SubSeq(text, 1, e)
           S == {r \in Rounds(U) : /\ Made(r, U, Len(text))
                                   /\ r = first \/ (r.out # <<>> /\ r.out[1] = o)}
<1>1. Len(text) \in Nat /\ Ends(text) = {e}
  BY EndsUnique, Indexed
<1>2. first \in Rounds(U) /\ Made(first, U, Len(text))
  <2>1. first \in Rounds(U) /\ DOMAIN first.out = {} /\ first.text = text
    BY DEF Rounds
  <2> HIDE DEF first
  <2> QED
    BY <1>1, <2>1 DEF Made
<1>3. ASSUME NEW r \in S PROVE Round(r) \in S
  <2>1. /\ Made(Round(r), U, Len(text)) /\ Round(r) \in Rounds(U) /\ r \in Rounds(U)
        /\ r.out \in Seq(Seq(U)) /\ r = [on |-> r.on, text |-> r.text, out |-> r.out]
    <3>1. Made(Round(r), U, Len(text))
      BY <1>1, RoundMade
    <3> QED
      BY <3>1 DEF Made, Rounds
  <2>2. CASE r = first
    <3>1. /\ r.on /\ r.text # <<>> /\ Opens(r.text) /\ Ends(r.text) = {e}
          /\ r.text = text /\ r.out = <<>>
      BY <1>1, <2>2
    <3>2. Round(r) = [r EXCEPT !.text = From(r.text, e + 1),
                               !.out = Append(r.out, SubSeq(r.text, 1, e))]
      BY <3>1, RoundOpens
    <3>3. Round(r).out = Append(<<>>, o)
      BY <2>1, <3>1, <3>2
    <3> HIDE DEF o, first
    <3>4. Append(<<>>, o) # <<>> /\ Append(<<>>, o)[1] = o
      <4>1. Append(<<>>, o) = <<o>>
        OBVIOUS
      <4> QED
        BY <4>1
    <3> QED
      BY <2>1, <3>3, <3>4
  <2>3. CASE r.out # <<>> /\ r.out[1] = o
    <3>1. Round(r).out = r.out \/ \E x : Round(r).out = Append(r.out, x)
      <4>1. CASE Round(r) = r
        BY <4>1
      <4>2. CASE \E f \in Ends(r.text) :
                     Round(r) = [r EXCEPT !.text = From(r.text, f + 1),
                                          !.out = Append(r.out, SubSeq(r.text, 1, f))]
        <5>1. PICK f \in Ends(r.text) :
                     Round(r) = [r EXCEPT !.text = From(r.text, f + 1),
                                          !.out = Append(r.out, SubSeq(r.text, 1, f))]
          BY <4>2
        <5>2. Round(r).out = Append(r.out, SubSeq(r.text, 1, f))
          BY <2>1, <5>1
        <5> QED
          BY <5>2
      <4>3. CASE \E t, b : Round(r) = [r EXCEPT !.on = b, !.text = t]
        BY <2>1, <4>3
      <4>4. CASE Round(r) = [r EXCEPT !.text = Tail(r.text)]
        BY <2>1, <4>4
      <4>5. CASE Round(r) = [r EXCEPT !.on = FALSE]
        BY <2>1, <4>5
      <4>6. CASE Round(r) = [r EXCEPT !.on = FALSE, !.text = Skipped(r.text)]
        BY <2>1, <4>6
      <4> QED
        BY <4>1, <4>2, <4>4, <4>5, <4>6, RoundCases
    <3>2. Round(r).out \in Seq(Seq(U))
      BY <2>1 DEF Rounds
    <3>3. ASSUME NEW x, Round(r).out = Append(r.out, x)
          PROVE  Round(r).out # <<>> /\ Round(r).out[1] = o
      <4>1. r.out # <<>> => Append(r.out, x) # <<>> /\ Append(r.out, x)[1] = r.out[1]
        <5>0. PICK V : V = Seq(U)
          OBVIOUS
        <5>1. PICK y \in Seq(V) : y = r.out
          BY <2>1, <5>0
        <5>2. y # <<>> => Append(y, x) # <<>> /\ Append(y, x)[1] = y[1]
          OBVIOUS
        <5> QED
          BY <5>1, <5>2
      <4> HIDE DEF o
      <4> QED
        BY <2>3, <3>3, <4>1
    <3> HIDE DEF o, first
    <3> QED
      BY <2>1, <2>3, <3>1, <3>3
  <2> QED
    BY <1>3, <2>2, <2>3
<1>4. first \in S /\ S \in SUBSET Rounds(U) /\ \A r \in S : Round(r) \in S
  <2> HIDE DEF first, o
  <2> QED
    BY <1>2, <1>3
<1> HIDE DEF S
<1>5. Drained(text) \in S /\ (~Drained(text).on \/ Drained(text).text = <<>>)
  BY <1>4, LoopEnds
<1>6. first.on /\ first.text # <<>>
  OBVIOUS
<1> HIDE DEF first, o
<1>7. Drained(text) \in Rounds(U) /\ Drained(text).out # <<>> /\ Drained(text).out[1] = o
  BY <1>5, <1>6 DEF S
<1> QED
  BY <1>7 DEF Rounds, o

LEMMA StartLeads ==
    ASSUME NEW U, NEW d, Plain(d) \in Seq(U), NEW c \in 1..9, NEW S, NEW G,
           IF c = 9 THEN <<>> \in S ELSE Part(d, 1, c) \in G
    PROVE  /\ Leads(Part(d, 1, c), S, G)
           /\ Part(d, 1, c) # <<>> /\ Part(d, 1, c) \in Seq(U) /\ Opens(Part(d, 1, c))
           /\ Ends(Part(d, 1, c)) = IF c = 9 THEN {9} ELSE {}
<1>1. PICK x : x = Part(d, 1, c)
  OBVIOUS
<1>2. x \in Seq(U) /\ x # <<>> /\ Char(x, 1) = "open" /\ Len(x) = c
  <2>1. PICK a \in 1..9 : a = 1
    OBVIOUS
  <2>2. c \in a..9
    BY <2>1
  <2>3. /\ Part(d, a, c) \in Seq(U) /\ Part(d, a, c) # <<>>
        /\ Char(Part(d, a, c), 1) = Char(Plain(d), a) /\ Len(Part(d, a, c)) = c - a + 1
    BY <2>2, PartHead
  <2> QED
    BY <1>1, <2>1, <2>3, PlainChars
<1>3. Ends(x) = IF c = 9 THEN {9} ELSE {}
  <2>1. c \in 0..9 /\ x = Start(d, c)
    BY <1>1 DEF Part, Start
  <2> QED
    BY <2>1, StartEnds
<1>4. Opens(x)
  BY <1>2 DEF Opens, Char
<1>5. CASE c = 9
  <2>1. From(x, 9 + 1) = <<>>
    <3>1. 10 \in 1..(Len(x) + 1)
      BY <1>2, <1>5
    <3>2. From(x, 10) \in Seq(U) /\ Len(From(x, 10)) = Len(x) - 10 + 1
      BY <1>2, <3>1, FromTyped
    <3> QED
      BY <1>2, <1>5, <3>2, EmptyText
  <2>2. \E e : Ends(x) = {e} /\ From(x, e + 1) \in S
    BY <1>3, <1>5, <2>1
  <2>3. Leads(x, S, G)
    BY <1>2, <1>4, <2>2 DEF Leads
  <2> QED
    BY <1>1, <1>2, <1>3, <1>4, <2>3
<1>6. CASE c # 9
  <2>1. Leads(x, S, G)
    BY <1>1, <1>2, <1>3, <1>4, <1>6 DEF Leads
  <2> QED
    BY <1>1, <1>2, <1>3, <1>4, <2>1
<1> QED
  BY <1>5, <1>6

\* An object that has lost its end takes in the next document.
LEMMA WaitDrained ==
    ASSUME NEW U, NEW d, Plain(d) \in Seq(U), NEW c \in 0..9,
           NEW t \in Seq(U), Waits(t)
    PROVE  LET text == t \o Part(d, 1, c)
           IN  Waits(text) /\ text \in Seq(U) /\ Drained(text).text = text
<1>1. PICK x, text : x = Part(d, 1, c) /\ text = t \o x
  OBVIOUS
<1>2. x \in Seq(U) /\ Len(x) = c /\ x = Start(d, c)
  <2>1. PICK a \in 1..10 : a = 1
    OBVIOUS
  <2>2. c \in (a-1)..9
    BY <2>1
  <2>3. Part(d, a, c) \in Seq(U) /\ Len(Part(d, a, c)) = c - a + 1
    BY <2>2, PartOf
  <2> QED
    BY <1>1, <2>1, <2>3 DEF Part, Start
<1>3. t # <<>> /\ Opens(t) /\ Ends(t) = {}
  BY DEF Waits
<1>4. text \in Seq(U) /\ text # <<>> /\ Opens(text)
  BY <1>1, <1>2, <1>3, JoinOpens
<1>5. PICK L : L = Len(t)
  OBVIOUS
<1>6. L \in Nat /\ L >= 1
  BY <1>3, <1>5, EmptyText, Indexed
<1>7. Ends(text) = {}
  <2> SUFFICES ASSUME NEW e \in Ends(text) PROVE FALSE
    OBVIOUS
  <2>1. e \in (L+1)..(L+c)
    BY <1>1, <1>2, <1>3, <1>5, EndsJoin
  <2>2. Depth(text, e) = 0 /\ \A i \in 1..(e-1) : Depth(text, i) > 0
    BY InEnds
  <2>3. Depth(text, L) > 0
    <3>1. L \in 1..(e-1)
      BY <1>6, <2>1
    <3> QED
      BY <2>2, <3>1
  <2>4. PICK k \in 1..c : k = e - L
    <3>1. e - L \in 1..c
      BY <1>6, <2>1
    <3> QED
      BY <3>1
  <2>5. \A j \in 0..c : /\ Depth(text, L + j) = Depth(t, L) + Depth(x, j)
                        /\ Depth(x, j) \in Int /\ Depth(t, L) \in Int
    BY <1>1, <1>2, <1>5, DepthJoin
  <2>6. Depth(x, 0) = 0 /\ Depth(x, k) >= 0
    <3>1. Depth(x, 0) = 0
      BY DepthStep
    <3>2. \A j \in 1..c : IF j = 9 THEN Depth(x, j) = 0 ELSE Depth(x, j) \in {1, 2}
      BY <1>2, StartDepths
    <3>3. Depth(x, k) = 0 \/ Depth(x, k) = 1 \/ Depth(x, k) = 2
      BY <3>2
    <3> QED
      BY <3>1, <3>3
  <2>7. Depth(text, L + 0) = Depth(t, L) + Depth(x, 0) /\ L + 0 = L
    BY <1>6, <2>5
  <2>8. Depth(text, L + k) = Depth(t, L) + Depth(x, k) /\ Depth(x, k) \in Int
        /\ Depth(t, L) \in Int /\ L + k = e
    <3>1. k \in 0..c /\ L + k = e
      BY <1>6, <2>1, <2>4
    <3> QED
      BY <2>5, <3>1
  <2> QED
    BY <2>2, <2>3, <2>6, <2>7, <2>8
<1>8. Drained(text).text = text
  <2>1. Leads(text, {text}, {text})
    BY <1>4, <1>7 DEF Leads
  <2>2. Drained(text).text \in {text} \/ (Drained(text).text = <<>> /\ <<>> \in {text})
    <3>1. PICK S : S = {text}
      OBVIOUS
    <3>2. text \in S /\ \A s \in S : Leads(s, S, S)
      BY <2>1, <3>1
    <3>3. Drained(text).text \in S \/ (Drained(text).text = <<>> /\ <<>> \in S)
      BY <1>4, <3>2, LoopText
    <3> QED
      BY <3>1, <3>3
  <2> QED
    BY <1>4, <2>2
<1> QED
  BY <1>1, <1>4, <1>7, <1>8 DEF Waits

LEMMA RestLeads ==
    ASSUME NEW U, NEW d, Plain(d) \in Seq(U), NEW c \in 0..9, NEW k \in 1..(c + 1),
           NEW S, NEW G, \A j \in k..(c + 1) : Part(d, j, c) \in S,
           <<>> \in G, c >= 3 => Part(d, 3, c) \in G, c >= 1 => Part(d, 1, c) \in G
    PROVE  Leads(Part(d, k, c), S, G)
<1>1. CASE c = 0
  <2>1. PICK a \in 1..10 : a = k
    OBVIOUS
  <2>2. c \in (a-1)..9 /\ c - a + 1 = 0
    BY <1>1, <2>1
  <2>3. Part(d, a, c) \in Seq(U) /\ Len(Part(d, a, c)) = 0
    BY <2>2, PartOf
  <2>4. Part(d, k, c) = <<>>
    BY <2>1, <2>3, EmptyText
  <2> QED
    BY <2>4 DEF Leads
<1>2. CASE c >= 1 /\ k = 1
  <2>1. c \in 1..9
    BY <1>2
  <2>2. CASE c = 9
    <3>1. PICK a \in 1..10 : a = 10
      OBVIOUS
    <3>2. c \in (a-1)..9 /\ c - a + 1 = 0 /\ a \in k..(c + 1)
      BY <1>2, <2>2, <3>1
    <3>3. Part(d, a, c) \in Seq(U) /\ Len(Part(d, a, c)) = 0 /\ Part(d, a, c) \in S
      BY <3>2, PartOf
    <3>4. <<>> \in S
      BY <3>3, EmptyText
    <3> QED
      BY <1>2, <2>1, <2>2, <3>4, StartLeads
  <2>3. CASE c # 9
    BY <1>2, <2>1, <2>3, StartLeads
  <2> QED
    BY <2>2, <2>3
<1>3. CASE c >= 1 /\ k > 1
  <2>1. c \in 1..9 /\ k \in 2..(c + 1)
    BY <1>3
  <2> QED
    BY <2>1, PartLeads
<1> QED
  BY <1>1, <1>2, <1>3

\* What is left of a document without its beginning: the inner object goes, with
\* the next packet, and the rest of it up to the next brace.
LEMMA JunkLeads ==
    ASSUME NEW U, NEW d, Plain(d) \in Seq(U), NEW c \in 6..9, NEW x \in Seq(U), NEW S, NEW G,
           IF c = 6 THEN x \in S ELSE Part(d, 7, c) \o x \in S
    PROVE  /\ Leads(Part(d, 3, c) \o x, S, G)
           /\ Part(d, 3, c) \in Seq(U) /\ Part(d, 3, c) # <<>>
<1>1. PICK t : t = Part(d, 3, c)
  OBVIOUS
<1>2. t \in Seq(U) /\ t # <<>> /\ Char(t, 1) = "open" /\ Len(t) = c - 2
  <2>1. PICK a \in 1..9 : a = 3
    OBVIOUS
  <2>2. c \in a..9
    BY <2>1
  <2>3. /\ Part(d, a, c) \in Seq(U) /\ Part(d, a, c) # <<>>
        /\ Char(Part(d, a, c), 1) = Char(Plain(d), a) /\ Len(Part(d, a, c)) = c - a + 1
    BY <2>2, PartHead
  <2> QED
    BY <1>1, <2>1, <2>3, PlainChars
<1>3. Ends(t) = {4}
  <2>1. c \in 3..9
    OBVIOUS
  <2> QED
    BY <1>1, <2>1, PartEndsInside
<1>4. Opens(t)
  BY <1>2 DEF Opens, Char
<1>5. From(t, 5) = Part(d, 7, c)
  <2>1. PICK a \in 1..10 : a = 3
    OBVIOUS
  <2>2. PICK k \in 1..(c - a + 2) : k = 5
    BY <2>1
  <2>3. c \in (a-1)..9 /\ a + k - 1 = 7
    BY <2>1, <2>2
  <2>4. From(Part(d, a, c), k) = Part(d, a + k - 1, c)
    BY <2>3, PartFrom
  <2> QED
    BY <1>1, <2>1, <2>2, <2>3, <2>4
<1>6. PICK e \in Ends(t) : e = 4
  BY <1>3
<1>7. IF e = Len(t) THEN x \in S ELSE From(t, e + 1) \o x \in S
  BY <1>2, <1>5, <1>6
<1>8. Leads(t \o x, S, G)
  BY <1>2, <1>4, <1>7, EndLeads
<1> QED
  BY <1>1, <1>2, <1>8

LEMMA TailLeads ==
    ASSUME NEW U, NEW d, Plain(d) \in Seq(U), NEW c \in 7..9, NEW x \in Seq(U), NEW S, NEW G,
           Skipped(x) \in G
    PROVE  Leads(Part(d, 7, c) \o x, S, G)
<1>1. PICK t : t = Part(d, 7, c)
  OBVIOUS
<1>2. /\ t \in Seq(U) /\ t # <<>> /\ Char(t, 1) = "next"
      /\ \A i \in 1..Len(t) : Char(t, i) # "open"
  <2>1. PICK a \in 1..9 : a = 7
    OBVIOUS
  <2>2. c \in a..9
    BY <2>1
  <2>3. /\ Part(d, a, c) \in Seq(U) /\ Part(d, a, c) # <<>>
        /\ Char(Part(d, a, c), 1) = Char(Plain(d), a) /\ Len(Part(d, a, c)) = c - a + 1
        /\ \A i \in 1..(c - a + 1) : Char(Part(d, a, c), i) = Char(Plain(d), a + i - 1)
    BY <2>2, PartHead
  <2>4. \A i \in 1..(c - 7 + 1) : 7 + i - 1 = 7 \/ 7 + i - 1 = 8 \/ 7 + i - 1 = 9
    OBVIOUS
  <2> QED
    BY <1>1, <2>1, <2>3, <2>4, PlainChars
<1>3. Skipped(t \o x) \in G
  BY <1>2, SkippedJoin
<1>4. t \o x # <<>> /\ Char(t \o x, 1) = "next"
  BY <1>2, JoinOpens
<1>5. Leads(t \o x, S, G)
  BY <1>3, <1>4 DEF Leads
<1> QED
  BY <1>1, <1>5

LEMMA PlainPart ==
    ASSUME NEW U, NEW d, Plain(d) \in Seq(U)
    PROVE  /\ Part(d, 1, 9) = Plain(d) /\ Len(Plain(d)) = 9
           /\ Plain(d) # <<>> /\ Opens(Plain(d)) /\ Ends(Plain(d)) = {9}
<1>1. Len(Plain(d)) = 9
  BY PlainIs
<1>2. Part(d, 1, 9) = Plain(d)
  BY <1>1 DEF Part
<1>3. PICK S : S = {<<>>}
  OBVIOUS
<1>4. PICK c \in 1..9 : c = 9
  OBVIOUS
<1>5. IF c = 9 THEN <<>> \in S ELSE Part(d, 1, c) \in S
  BY <1>3, <1>4
<1>6. /\ Part(d, 1, c) # <<>> /\ Opens(Part(d, 1, c))
      /\ Ends(Part(d, 1, c)) = IF c = 9 THEN {9} ELSE {}
  BY <1>5, StartLeads
<1> QED
  BY <1>1, <1>2, <1>4, <1>6

LEMMA HeldLeads ==
    ASSUME NEW U, NEW d, Plain(d) \in Seq(U), NEW x \in Seq(U), NEW S, NEW G, x \in S
    PROVE  Leads(Plain(d) \o x, S, G)
<1>1. PICK t : t = Plain(d)
  OBVIOUS
<1>2. t \in Seq(U) /\ t # <<>> /\ Opens(t) /\ Ends(t) = {9} /\ Len(t) = 9
  BY <1>1, PlainPart
<1>3. PICK e \in Ends(t) : e = 9
  BY <1>2
<1>4. IF e = Len(t) THEN x \in S ELSE From(t, e + 1) \o x \in S
  BY <1>2, <1>3
<1>5. Leads(t \o x, S, G)
  BY <1>2, <1>4, EndLeads
<1> QED
  BY <1>1, <1>5

\* After that the next document is heard, or waits for one more packet if it came
\* in one.
LEMMA JunkDrained ==
    ASSUME NEW U, NEW d, Plain(d) \in Seq(U), NEW b, Plain(b) \in Seq(U),
           NEW c \in 1..9, NEW g \in 6..9
    PROVE  LET done == Drained(Part(b, 3, g) \o Part(d, 1, c)).text
           IN  done = Part(d, 1, c) \/ (c = 9 /\ done = <<>>)
<1>1. PICK x : x = Part(d, 1, c)
  OBVIOUS
<1>2. PICK t, w : t = Part(b, 3, g) \o x /\ w = Part(b, 7, g) \o x
  OBVIOUS
<1> DEFINE E == IF c = 9 THEN {<<>>} ELSE {}
           S == {t, x} \cup (IF g = 6 THEN {} ELSE {w}) \cup E
           G == {x}
<1>3. IF c = 9 THEN <<>> \in S ELSE Part(d, 1, c) \in G
  BY <1>1
<1>4. Leads(x, S, G) /\ x # <<>> /\ x \in Seq(U)
  <2> HIDE DEF S, G
  <2> QED
    BY <1>1, <1>3, StartLeads
<1>5. Leads(t, S, G) /\ t \in Seq(U) /\ t # <<>>
  <2>1. IF g = 6 THEN x \in S ELSE Part(b, 7, g) \o x \in S
    BY <1>2
  <2> HIDE DEF S, G
  <2>2. /\ Leads(Part(b, 3, g) \o x, S, G)
        /\ Part(b, 3, g) \in Seq(U) /\ Part(b, 3, g) # <<>>
    BY <1>4, <2>1, JunkLeads
  <2> QED
    BY <1>2, <1>4, <2>2, JoinOpens
<1>6. ASSUME g # 6 PROVE Leads(w, S, G) /\ w # <<>>
  <2>1. g \in 7..9
    BY <1>6
  <2>2. Skipped(x) = x
    <3>1. PICK a \in 1..(c + 1) : a = 1
      OBVIOUS
    <3>2. c \in 0..9 /\ c >= 1
      OBVIOUS
    <3>3. Skipped(Part(d, a, c)) = Part(d, a, c)
      BY <3>1, <3>2, PartSkipped
    <3> QED
      BY <1>1, <3>1, <3>3
  <2>3. Skipped(x) \in G
    BY <2>2
  <2> HIDE DEF S, G
  <2>4. Leads(w, S, G)
    BY <1>2, <1>4, <2>1, <2>3, TailLeads
  <2>5. w # <<>>
    <3>1. Part(b, 7, g) \in Seq(U) /\ Part(b, 7, g) # <<>>
      <4>1. PICK a \in 1..9 : a = 7
        OBVIOUS
      <4>2. g \in a..9
        BY <2>1, <4>1
      <4>3. Part(b, a, g) \in Seq(U) /\ Part(b, a, g) # <<>>
        BY <4>2, PartHead
      <4> QED
        BY <4>1, <4>3
    <3> QED
      BY <1>2, <1>4, <3>1, JoinOpens
  <2> QED
    BY <2>4, <2>5
<1>7. t \in S /\ \A s \in S : Leads(s, S, G)
  <2>1. \A s \in S : s = t \/ s = x \/ (g # 6 /\ s = w) \/ s = <<>>
    OBVIOUS
  <2>2. t \in S
    OBVIOUS
  <2>3. Leads(<<>>, S, G)
    BY DEF Leads
  <2> HIDE DEF S, G
  <2> QED
    BY <1>4, <1>5, <1>6, <2>1, <2>2, <2>3
<1>8. <<>> \in S => c = 9
  BY <1>4, <1>5, <1>6
<1> HIDE DEF S, G
<1>9. Drained(t).text \in G \/ (Drained(t).text = <<>> /\ <<>> \in S)
  BY <1>5, <1>7, LoopText
<1> QED
  BY <1>1, <1>2, <1>8, <1>9 DEF G

\* A document that was held comes out with the next packet.
LEMMA HeldDrained ==
    ASSUME NEW U, NEW d, Plain(d) \in Seq(U), NEW b, Plain(b) \in Seq(U), NEW c \in 1..9
    PROVE  LET done == Drained(Plain(b) \o Part(d, 1, c))
           IN  /\ done.text = IF c = 9 THEN <<>> ELSE Part(d, 1, c)
               /\ done.out # <<>> /\ done.out[1] = Plain(b)
<1>1. PICK x, t : x = Part(d, 1, c) /\ t = Plain(b) \o x
  OBVIOUS
<1> DEFINE S == {t, x} \cup (IF c = 9 THEN {<<>>} ELSE {})
           G == IF c = 9 THEN {} ELSE {x}
<1>2. IF c = 9 THEN <<>> \in S ELSE Part(d, 1, c) \in G
  BY <1>1
<1>3. Leads(x, S, G) /\ x # <<>> /\ x \in Seq(U)
  <2> HIDE DEF S, G
  <2> QED
    BY <1>1, <1>2, StartLeads
<1>4. Leads(t, S, G)
  <2>1. x \in S
    OBVIOUS
  <2> HIDE DEF S, G
  <2> QED
    BY <1>1, <1>3, <2>1, HeldLeads
<1>5. /\ Plain(b) # <<>> /\ Opens(Plain(b)) /\ Ends(Plain(b)) = {9} /\ Len(Plain(b)) = 9
  BY PlainPart
<1>6. t \in Seq(U) /\ t # <<>> /\ Opens(t) /\ Ends(t) = {9}
  <2>1. PICK p : p = Plain(b)
    OBVIOUS
  <2>2. PICK e \in Ends(p) : e = 9
    BY <1>5, <2>1
  <2>3. p \in Seq(U)
    BY <2>1
  <2>4. Ends(p \o x) = {e}
    BY <1>3, <2>3, EndsJoin
  <2> QED
    BY <1>1, <1>3, <1>5, <2>1, <2>2, <2>3, <2>4, JoinOpens
<1>7. t \in S /\ \A s \in S : Leads(s, S, G)
  <2>1. t \in S /\ \A s \in S : s = t \/ s = x \/ s = <<>>
    OBVIOUS
  <2>2. Leads(<<>>, S, G)
    BY DEF Leads
  <2> HIDE DEF S, G
  <2> QED
    BY <1>3, <1>4, <2>1, <2>2
<1>8. <<>> \in S => c = 9
  BY <1>3, <1>6
<1>9. SubSeq(t, 1, 9) = Plain(b)
  <2>1. PICK p : p = Plain(b)
    OBVIOUS
  <2>2. PICK L : L = 9
    OBVIOUS
  <2>3. p \in Seq(U) /\ Len(p) = L
    BY <1>5, <2>1, <2>2
  <2>4. PICK M : M = Len(x)
    OBVIOUS
  <2>5. /\ p \o x \in Seq(U) /\ Len(p \o x) = L + M /\ M \in Nat
        /\ \A i \in 1..L : (p \o x)[i] = p[i]
    BY <1>3, <2>3, <2>4, JoinOf
  <2>6. /\ Len(t) = 9 + M /\ M \in Nat /\ \A i \in 1..9 : t[i] = p[i]
    BY <1>1, <2>1, <2>2, <2>5
  <2>7. 1 \in 1..(Len(t) + 1) /\ 9 \in (1-1)..Len(t)
    BY <2>6
  <2>8. /\ SubSeq(t, 1, 9) \in Seq(U) /\ Len(SubSeq(t, 1, 9)) = 9 - 1 + 1
        /\ \A i \in 1..(9 - 1 + 1) : SubSeq(t, 1, 9)[i] = t[1 + i - 1]
    BY <1>6, <2>7, PartIs
  <2>9. PICK z : z = SubSeq(t, 1, 9)
    OBVIOUS
  <2>10. z \in Seq(U) /\ Len(z) = 9 /\ \A i \in 1..9 : z[i] = t[i]
    <3>1. 9 - 1 + 1 = 9 /\ \A i \in 1..9 : 1 + i - 1 = i
      OBVIOUS
    <3> QED
      BY <2>8, <2>9, <3>1
  <2>11. p \in Seq(U) /\ Len(z) = Len(p) /\ \A i \in 1..Len(z) : z[i] = p[i]
    BY <2>2, <2>3, <2>6, <2>10
  <2>12. z = p
    BY <2>10, <2>11, EqualSeqs
  <2> QED
    BY <2>1, <2>9, <2>12
<1>10. Drained(t).out # <<>> /\ Drained(t).out[1] = Plain(b)
  <2>1. PICK e \in Ends(t) : e = 9
    BY <1>6
  <2>2. LET out == Drained(t).out
        IN  out \in Seq(Seq(U)) /\ out # <<>> /\ out[1] = SubSeq(t, 1, e)
    BY <1>6, <2>1, FirstOut
  <2> QED
    BY <1>9, <2>1, <2>2
<1>11. Drained(t).text \in G \/ (Drained(t).text = <<>> /\ <<>> \in S)
  <2> HIDE DEF S, G
  <2> QED
    BY <1>6, <1>7, LoopText
<1>12. Drained(t).text = IF c = 9 THEN <<>> ELSE x
  <2> HIDE DEF S
  <2> QED
    BY <1>8, <1>11
<1> QED
  BY <1>1, <1>10, <1>12

-----------------------------------------------------------------------------
(* A text cut in two                                                       *)

IsLead(u, n) == u[n][1] = "lead"
Bad(u, n) == u[n][1] = "bad"

LEMMA AppendJoin ==
    ASSUME NEW U, NEW a \in Seq(U), NEW b \in Seq(U), NEW c \in U
    PROVE  Append(a \o b, c) = a \o Append(b, c)
OBVIOUS

LEMMA JoinJoin ==
    ASSUME NEW U, NEW a \in Seq(U), NEW b \in Seq(U), NEW c \in Seq(U)
    PROVE  a \o (b \o c) = (a \o b) \o c /\ <<>> \o c = c
OBVIOUS

LEMMA DecodesIs ==
    ASSUME NEW u
    PROVE  Decodes(u) <=> \A i \in DOMAIN u :
               /\ ~Bad(u, i)
               /\ IsTail(u, i) => i > 1 /\ IsLead(u, i - 1)
               /\ IsLead(u, i) /\ i < Len(u) => IsTail(u, i + 1)
BY DEF Decodes, Bad, IsTail, IsLead

\* w begins with b, and goes on after b's first q bytes with x; those end with no
\* character that has only begun.
CutAt(w, b, x, q) ==
    /\ q \in 0..Len(b) /\ Len(w) = q + Len(x) /\ Len(b) <= Len(w)
    /\ \A i \in 1..Len(b) : w[i] = b[i]
    /\ \A j \in 1..Len(x) : w[q + j] = x[j]
    /\ q > 0 => ~IsLead(b, q)

LEMMA CutIs ==
    ASSUME NEW U, NEW b \in Seq(U), NEW v \in Seq(U), Decodes(b)
    PROVE  CutAt(b \o v, b, Pending(b) \o v, Len(b) - Len(Pending(b)))
<1>1. PICK p, q : p = Pending(b) /\ q = Len(b) - Len(p)
  OBVIOUS
<1>2. /\ p \in Seq(U) /\ Len(p) \in {0, 1} /\ q \in 0..Len(b)
      /\ p # <<>> => b # <<>> /\ p = <<b[Len(b)]>> /\ IsLead(b, Len(b))
  BY <1>1, PendingSize DEF IsLead
<1>3. Len(p) = 0 => p = <<>>
  BY <1>2
<1>4. Len(b) \in Nat /\ Len(v) \in Nat /\ DOMAIN b = 1..Len(b)
  OBVIOUS
<1>5. /\ Len(b \o v) = Len(b) + Len(v)
      /\ \A i \in 1..Len(b) : (b \o v)[i] = b[i]
      /\ \A i \in (Len(b)+1)..(Len(b)+Len(v)) : (b \o v)[i] = v[i - Len(b)]
  BY JoinIs
<1>6. /\ Len(p \o v) = Len(p) + Len(v)
      /\ \A i \in 1..Len(p) : (p \o v)[i] = p[i]
      /\ \A i \in (Len(p)+1)..(Len(p)+Len(v)) : (p \o v)[i] = v[i - Len(p)]
  BY <1>2, JoinIs
<1>7. Len(b \o v) = q + Len(p \o v)
  BY <1>1, <1>2, <1>4, <1>5, <1>6
<1>8. ASSUME NEW j \in 1..Len(p \o v) PROVE (b \o v)[q + j] = (p \o v)[j]
  <2>1. CASE Len(p) = 0
    BY <1>1, <1>4, <1>5, <1>6, <2>1
  <2>2. CASE Len(p) = 1
    <3>0. p # <<>>
      <4>1. p \in Seq(U) /\ Len(p) # 0
        BY <1>2, <2>2
      <4> QED
        BY <4>1, EmptyText
    <3>1. q = Len(b) - 1 /\ p[1] = b[Len(b)] /\ Len(b) >= 1
      <4>1. PICK z : z = b[Len(b)] /\ p = <<z>>
        BY <1>2, <3>0
      <4>2. p[1] = z /\ b # <<>>
        BY <1>2, <3>0, <4>1
      <4>3. Len(b) >= 1 /\ q = Len(b) - 1
        BY <1>1, <1>4, <2>2, <4>2
      <4> QED
        BY <4>1, <4>2, <4>3
    <3>2. CASE j = 1
      BY <1>4, <1>5, <1>6, <2>2, <3>1, <3>2
    <3>3. CASE j # 1
      <4>1. q + j \in (Len(b) + 1)..(Len(b) + Len(v)) /\ q + j - Len(b) = j - 1
        BY <1>4, <1>6, <2>2, <3>1, <3>3
      <4>2. j \in (Len(p) + 1)..(Len(p) + Len(v))
        BY <1>4, <1>6, <2>2, <3>3
      <4>3. (p \o v)[j] = v[j - 1]
        <5>1. PICK a : a = 1 /\ Len(p) = a
          BY <2>2
        <5>2. (p \o v)[j] = v[j - a]
          BY <1>6, <4>2, <5>1
        <5> QED
          BY <5>1, <5>2
      <4>4. PICK i \in (Len(b) + 1)..(Len(b) + Len(v)) : i = q + j
        BY <4>1
      <4>5. (b \o v)[i] = v[i - Len(b)]
        BY <1>5
      <4>6. i - Len(b) = j - 1
        BY <1>2, <1>4, <4>1, <4>4
      <4> QED
        BY <4>3, <4>4, <4>5, <4>6
    <3> QED
      BY <3>2, <3>3
  <2> QED
    BY <1>2, <2>1, <2>2
<1>9. ASSUME q > 0, IsLead(b, q) PROVE FALSE
  <2>1. CASE p = <<>>
    <3>1. q = Len(b) /\ b # <<>>
      BY <1>1, <1>4, <1>9, <2>1
    <3>2. Last(b)[1] # "lead"
      BY <1>1, <2>1, <3>1 DEF Pending
    <3> QED
      BY <1>9, <3>1, <3>2 DEF IsLead, Last
  <2>2. CASE p # <<>>
    <3>1. Len(p) = 1 /\ q + 1 = Len(b) /\ q \in DOMAIN b /\ q < Len(b)
      <4>1. Len(p) = 1
        BY <1>2, <1>3, <2>2
      <4> QED
        BY <1>1, <1>2, <1>4, <1>9, <4>1
    <3>2. IsTail(b, q + 1)
      <4>1. IsLead(b, q) /\ q < Len(b) => IsTail(b, q + 1)
        BY <3>1, DecodesIs
      <4> QED
        BY <1>9, <3>1, <4>1
    <3>3. IsLead(b, Len(b))
      BY <1>2, <2>2
    <3> QED
      BY <3>1, <3>2, <3>3 DEF IsTail, IsLead
  <2> QED
    BY <2>1, <2>2
<1> QED
  BY <1>1, <1>2, <1>4, <1>5, <1>7, <1>8, <1>9 DEF CutAt

\* The bytes kept and the ones that follow are malformed if, and only if, all of
\* them together are.
LEMMA DecodesCut ==
    ASSUME NEW U, NEW b \in Seq(U), NEW v \in Seq(U), Decodes(b)
    PROVE  Decodes(b \o v) <=> Decodes(Pending(b) \o v)
<1>1. PICK w, x, q : /\ w \in Seq(U) /\ x \in Seq(U)
                     /\ w = b \o v /\ x = Pending(b) \o v /\ CutAt(w, b, x, q)
  <2>1. Pending(b) \in Seq(U)
    BY PendingSize
  <2>2. b \o v \in Seq(U) /\ Pending(b) \o v \in Seq(U)
    BY <2>1
  <2> QED
    BY <2>2, CutIs
<1>2. /\ Len(w) \in Nat /\ Len(x) \in Nat /\ Len(b) \in Nat
      /\ DOMAIN w = 1..Len(w) /\ DOMAIN x = 1..Len(x) /\ DOMAIN b = 1..Len(b)
  BY <1>1
<1>3. /\ q \in 0..Len(b) /\ Len(w) = q + Len(x) /\ Len(b) <= Len(w)
      /\ q > 0 => ~IsLead(b, q)
  BY <1>1 DEF CutAt
<1>4. \A i \in 1..Len(b) : /\ Bad(w, i) <=> Bad(b, i)
                           /\ IsTail(w, i) <=> IsTail(b, i)
                           /\ IsLead(w, i) <=> IsLead(b, i)
  BY <1>1 DEF CutAt, Bad, IsTail, IsLead
<1>5. \A j \in 1..Len(x) : /\ Bad(w, q + j) <=> Bad(x, j)
                           /\ IsTail(w, q + j) <=> IsTail(x, j)
                           /\ IsLead(w, q + j) <=> IsLead(x, j)
  BY <1>1 DEF CutAt, Bad, IsTail, IsLead
<1>6. \A i \in 1..Len(b) : /\ ~Bad(b, i)
                           /\ IsTail(b, i) => i > 1 /\ IsLead(b, i - 1)
                           /\ IsLead(b, i) /\ i < Len(b) => IsTail(b, i + 1)
  BY <1>2, DecodesIs
<1>7. ASSUME Decodes(w) PROVE Decodes(x)
  <2>1. \A i \in 1..Len(w) : /\ ~Bad(w, i)
                             /\ IsTail(w, i) => i > 1 /\ IsLead(w, i - 1)
                             /\ IsLead(w, i) /\ i < Len(w) => IsTail(w, i + 1)
    BY <1>2, <1>7, DecodesIs
  <2>2. ASSUME NEW j \in 1..Len(x)
        PROVE  /\ ~Bad(x, j)
               /\ IsTail(x, j) => j > 1 /\ IsLead(x, j - 1)
               /\ IsLead(x, j) /\ j < Len(x) => IsTail(x, j + 1)
    <3>1. q + j \in 1..Len(w) /\ ~Bad(x, j)
      BY <1>2, <1>3, <1>5, <2>1
    <3>2. ASSUME IsTail(x, j) PROVE j > 1 /\ IsLead(x, j - 1)
      <4>1. q + j > 1 /\ IsLead(w, q + j - 1)
        <5>1. PICK i \in 1..Len(w) : i = q + j
          BY <3>1
        <5>2. IsTail(w, i)
          BY <1>5, <3>2, <5>1
        <5>3. i > 1 /\ IsLead(w, i - 1)
          BY <2>1, <5>2
        <5> QED
          BY <1>2, <1>3, <5>1, <5>3
      <4>2. CASE j = 1
        <5>1. q > 0 /\ IsLead(w, q) /\ q \in 1..Len(b)
          BY <1>2, <1>3, <4>1, <4>2
        <5> QED
          BY <1>3, <1>4, <5>1
      <4>3. CASE j # 1
        <5>1. j - 1 \in 1..Len(x) /\ q + (j - 1) = q + j - 1
          BY <1>2, <1>3, <4>3
        <5> QED
          BY <1>5, <4>1, <5>1
      <4> QED
        BY <4>2, <4>3
    <3>3. ASSUME IsLead(x, j), j < Len(x) PROVE IsTail(x, j + 1)
      <4>1. q + j < Len(w) /\ j + 1 \in 1..Len(x) /\ q + (j + 1) = q + j + 1
        BY <1>2, <1>3, <3>3
      <4>2. IsTail(w, q + j + 1)
        BY <1>5, <2>1, <3>1, <3>3, <4>1
      <4> QED
        BY <1>5, <4>1, <4>2
    <3> QED
      BY <3>1, <3>2, <3>3
  <2> QED
    BY <1>2, <2>2, DecodesIs
<1>8. ASSUME Decodes(x) PROVE Decodes(w)
  <2>1. \A j \in 1..Len(x) : /\ ~Bad(x, j)
                             /\ IsTail(x, j) => j > 1 /\ IsLead(x, j - 1)
                             /\ IsLead(x, j) /\ j < Len(x) => IsTail(x, j + 1)
    BY <1>2, <1>8, DecodesIs
  <2>2. ASSUME NEW i \in 1..Len(w), i <= q
        PROVE  /\ ~Bad(w, i)
               /\ IsTail(w, i) => i > 1 /\ IsLead(w, i - 1)
               /\ IsLead(w, i) /\ i < Len(w) => IsTail(w, i + 1)
    <3>1. i \in 1..Len(b) /\ q > 0
      BY <1>2, <1>3, <2>2
    <3>2. IsTail(w, i) => i > 1 /\ IsLead(w, i - 1)
      <4>1. i > 1 => i - 1 \in 1..Len(b)
        BY <1>2, <3>1
      <4> QED
        BY <1>4, <1>6, <3>1, <4>1
    <3>3. ASSUME IsLead(w, i) PROVE IsTail(w, i + 1)
      <4>1. IsLead(b, i) /\ i # q
        BY <1>3, <1>4, <3>1, <3>3
      <4>2. i < Len(b) /\ i + 1 \in 1..Len(b)
        BY <1>2, <1>3, <2>2, <3>1, <4>1
      <4> QED
        BY <1>4, <1>6, <3>1, <4>1, <4>2
    <3> QED
      BY <1>4, <1>6, <3>1, <3>2, <3>3
  <2>3. ASSUME NEW i \in 1..Len(w), ~(i <= q)
        PROVE  /\ ~Bad(w, i)
               /\ IsTail(w, i) => i > 1 /\ IsLead(w, i - 1)
               /\ IsLead(w, i) /\ i < Len(w) => IsTail(w, i + 1)
    <3>1. PICK j \in 1..Len(x) : i = q + j
      <4>1. i - q \in 1..Len(x) /\ i = q + (i - q)
        BY <1>2, <1>3, <2>3
      <4> QED
        BY <4>1
    <3>2. IsTail(w, i) => i > 1 /\ IsLead(w, i - 1)
      <4>1. j > 1 => j - 1 \in 1..Len(x) /\ q + (j - 1) = i - 1 /\ i > 1
        BY <1>2, <1>3, <3>1
      <4> QED
        BY <1>5, <2>1, <3>1, <4>1
    <3>3. IsLead(w, i) /\ i < Len(w) => IsTail(w, i + 1)
      <4>1. i < Len(w) => j < Len(x) /\ j + 1 \in 1..Len(x) /\ q + (j + 1) = i + 1
        BY <1>2, <1>3, <3>1
      <4> QED
        BY <1>5, <2>1, <3>1, <4>1
    <3> QED
      BY <1>5, <2>1, <3>1, <3>2, <3>3
  <2> QED
    BY <1>2, <2>2, <2>3, DecodesIs
<1> QED
  BY <1>1, <1>7, <1>8

\* Nor does it matter to what is decoded, or kept, where the bytes were cut.
LEMMA DecodedCut ==
    ASSUME NEW U, NEW b \in Seq(U), NEW v \in Seq(U), Decodes(b)
    PROVE  /\ Pending(b \o v) = Pending(Pending(b) \o v)
           /\ Decoded(b \o v) = Decoded(b) \o Decoded(Pending(b) \o v)
<1>1. PICK w, x, q :
          /\ w \in Seq(U) /\ x \in Seq(U)
          /\ w = b \o v /\ x = Pending(b) \o v /\ CutAt(w, b, x, q)
          /\ q = Len(b) - Len(Pending(b))
  <2>1. Pending(b) \in Seq(U)
    BY PendingSize
  <2>2. b \o v \in Seq(U) /\ Pending(b) \o v \in Seq(U)
    BY <2>1
  <2> QED
    BY <2>2, CutIs
<1>2. PICK B \in Nat, W \in Nat, X \in Nat : B = Len(b) /\ W = Len(w) /\ X = Len(x)
  BY <1>1
<1>3. /\ q \in 0..B /\ W = q + X /\ B <= W
      /\ q > 0 => ~IsLead(b, q)
      /\ \A i \in 1..B : w[i] = b[i]
      /\ \A j \in 1..X : w[q + j] = x[j]
  BY <1>1, <1>2 DEF CutAt
<1>4. Pending(w) = Pending(x)
  <2>1. CASE X = 0
    <3>1. W = q /\ W = B /\ x = <<>>
      <4>1. W = q /\ W = B
        BY <1>3, <2>1
      <4>2. x = <<>>
        BY <1>1, <1>2, <2>1, EmptyText
      <4> QED
        BY <4>1, <4>2
    <3>2. Pending(x) = <<>>
      BY <3>1 DEF Pending
    <3>3. w # <<>> => W > 0 /\ w[W] = b[W]
      <4>1. w # <<>> => W # 0
        BY <1>1, <1>2, EmptyText
      <4> QED
        BY <1>3, <3>1, <4>1
    <3>4. w # <<>> => Last(w)[1] # "lead"
      BY <1>2, <1>3, <3>1, <3>3 DEF IsLead, Last
    <3> QED
      BY <3>2, <3>4 DEF Pending
  <2>2. CASE X # 0
    <3>1. w # <<>> /\ x # <<>> /\ w[W] = x[X]
      <4>1. W # 0 /\ X \in 1..X
        BY <1>2, <1>3, <2>2
      <4>2. w # <<>>
        BY <1>1, <1>2, <4>1, EmptyText
      <4>3. x # <<>>
        BY <1>1, <1>2, <2>2, EmptyText
      <4> QED
        BY <1>3, <4>1, <4>2, <4>3
    <3>2. Last(w) = Last(x)
      BY <1>2, <3>1 DEF Last
    <3> QED
      BY <3>1, <3>2 DEF Pending
  <2> QED
    BY <2>1, <2>2
<1>5. PICK e : /\ e = X - Len(Pending(x)) /\ e \in 0..X
               /\ W - Len(Pending(w)) = q + e
  <2>1. X - Len(Pending(x)) \in 0..X /\ Len(Pending(x)) \in {0, 1}
    BY <1>1, <1>2, PendingSize
  <2> QED
    BY <1>3, <1>4, <2>1
<1>6. PICK f : Keeps(f, w, W) /\ Decoded(w) = f[q + e]
  BY <1>1, <1>2, <1>5, DecodedIs
<1>7. PICK g : Keeps(g, b, B) /\ Decoded(b) = g[q]
  BY <1>1, <1>2, DecodedIs
<1>8. PICK h : Keeps(h, x, X) /\ Decoded(x) = h[e]
  BY <1>1, <1>2, <1>5, DecodedIs
<1>9. /\ f[0] = <<>>
      /\ \A i \in 0..(W-1) : f[i+1] = IF IsTail(w, i + 1) THEN f[i] ELSE Append(f[i], w[i+1])
  BY <1>6, KeepsStep
<1>10. /\ g[0] = <<>>
       /\ \A i \in 0..(B-1) : g[i+1] = IF IsTail(b, i + 1) THEN g[i] ELSE Append(g[i], b[i+1])
  BY <1>7, KeepsStep
<1>11. /\ h[0] = <<>>
       /\ \A i \in 0..(X-1) : h[i+1] = IF IsTail(x, i + 1) THEN h[i] ELSE Append(h[i], x[i+1])
  BY <1>8, KeepsStep
<1>12. f[q] = g[q]
  <2> DEFINE T == {i \in 0..B : f[i] = g[i]}
  <2>1. 0 \in T
    BY <1>9, <1>10
  <2>2. ASSUME NEW i \in 0..(B-1), i \in T PROVE i + 1 \in T
    <3>1. i \in 0..(W-1) /\ i + 1 \in 1..B /\ f[i] = g[i]
      BY <1>3, <2>2
    <3>2. w[i+1] = b[i+1] /\ (IsTail(w, i + 1) <=> IsTail(b, i + 1))
      BY <1>3, <3>1 DEF IsTail
    <3> QED
      BY <1>9, <1>10, <3>1, <3>2
  <2>3. \A i \in 0..B : i \in T
    <3> HIDE DEF T
    <3> QED
      BY <2>1, <2>2, Positions
  <2> QED
    BY <1>3, <2>3
<1>13. g[q] \in Seq(U)
  BY <1>7, DecodedTyped
<1>14. f[q + e] = g[q] \o h[e]
  <2> DEFINE T == {j \in 0..X : h[j] \in Seq(U) /\ f[q + j] = g[q] \o h[j]}
  <2>1. 0 \in T
    <3>1. PICK y : y = g[q] /\ y \in Seq(U) /\ y \o <<>> = y
      BY <1>13
    <3>2. h[0] = <<>> /\ <<>> \in Seq(U) /\ q + 0 = q /\ 0 \in 0..X
      BY <1>3, <1>11
    <3> QED
      BY <1>12, <3>1, <3>2
  <2>2. ASSUME NEW j \in 0..(X-1), j \in T PROVE j + 1 \in T
    <3>1. /\ q + j \in 0..(W-1) /\ (q + j) + 1 = q + (j + 1) /\ j + 1 \in 1..X
          /\ h[j] \in Seq(U) /\ f[q + j] = g[q] \o h[j]
      <4>1. h[j] \in Seq(U) /\ f[q + j] = g[q] \o h[j]
        BY <2>2
      <4>3. j + 1 \in 1..X
        BY <1>2
      <4>2. q + j \in 0..(W-1) /\ (q + j) + 1 = q + (j + 1)
        BY <1>2, <1>3, <2>2
      <4> QED
        BY <4>1, <4>2, <4>3
    <3>2. w[q + (j + 1)] = x[j+1] /\ (IsTail(w, q + (j + 1)) <=> IsTail(x, j + 1))
      BY <1>3, <3>1 DEF IsTail
    <3>3. x[j+1] \in U
      BY <1>1, <1>2, <3>1
    <3>4. f[q + (j + 1)] = IF IsTail(x, j + 1) THEN f[q + j] ELSE Append(f[q + j], x[j+1])
      BY <1>9, <3>1, <3>2
    <3>5. h[j+1] = IF IsTail(x, j + 1) THEN h[j] ELSE Append(h[j], x[j+1])
      BY <1>11, <2>2
    <3>6. h[j+1] \in Seq(U)
      BY <3>1, <3>3, <3>5
    <3>7. PICK y, z, c : y = g[q] /\ z = h[j] /\ c = x[j+1]
      OBVIOUS
    <3>8. Append(y \o z, c) = y \o Append(z, c)
      <4>1. y \in Seq(U) /\ z \in Seq(U) /\ c \in U
        BY <1>13, <3>1, <3>3, <3>7
      <4> QED
        BY <4>1, AppendJoin
    <3>9. f[q + (j + 1)] = g[q] \o h[j+1]
      BY <3>1, <3>4, <3>5, <3>7, <3>8
    <3>10. j + 1 \in 0..X
      BY <1>2
    <3> QED
      BY <3>6, <3>9, <3>10
  <2>3. \A j \in 0..X : j \in T
    <3> HIDE DEF T
    <3> QED
      BY <2>1, <2>2, Positions
  <2> QED
    BY <1>5, <2>3
<1> QED
  BY <1>1, <1>4, <1>6, <1>7, <1>8, <1>12, <1>14

\* A cut in the middle of a character cuts nothing: the first payload gives no
\* text, and the next one makes of the stream what the two in one would have
\* made of it, malformed or not.  Anywhere else it cuts a text in two
\* (protocol.py:277, TextStream).
THEOREM TextCut ==
    ASSUME NEW U, NEW s, s.half \in Seq(U), s.text \in Seq(U),
           NEW u \in Seq(U), NEW v \in Seq(U), Decodes(s.half \o u)
    PROVE  LET one   == TextFeed(s, u)
               two   == TextFeed(one.stream, v)
               whole == TextFeed(s, u \o v)
           IN  /\ Pending(s.half \o u) # <<>> => one.out = Nothing /\ two = whole
               /\ Pending(s.half \o u) = <<>> /\ whole.out # Nothing =>
                      \E y, z : /\ one.out = <<y>> /\ two.out = <<z>>
                                /\ whole.out = <<y \o z>>
<1> DEFINE b == s.half \o u
           p == Pending(b)
           one == TextFeed(s, u)
           two == TextFeed(one.stream, v)
           whole == TextFeed(s, u \o v)
<1>1. b \in Seq(U) /\ s.half \o (u \o v) = b \o v
  <2>1. PICK a : a = s.half /\ a \in Seq(U)
    OBVIOUS
  <2>2. a \o u \in Seq(U)
    BY <2>1
  <2>3. a \o (u \o v) = (a \o u) \o v
    <3>1. a \in Seq(U) /\ u \in Seq(U) /\ v \in Seq(U)
      BY <2>1
    <3> QED
      BY <3>1, JoinJoin
  <2> QED
    BY <2>1, <2>2, <2>3
<1>2. /\ Decodes(b \o v) <=> Decodes(p \o v)
      /\ Pending(b \o v) = Pending(p \o v)
      /\ Decoded(b \o v) = Decoded(b) \o Decoded(p \o v)
  <2>1. Decodes(b)
    OBVIOUS
  <2> HIDE DEF b
  <2>2. Decodes(b \o v) <=> Decodes(p \o v)
    BY <1>1, <2>1, DecodesCut
  <2>3. /\ Pending(b \o v) = Pending(p \o v)
        /\ Decoded(b \o v) = Decoded(b) \o Decoded(p \o v)
    BY <1>1, <2>1, DecodedCut
  <2> QED
    BY <2>2, <2>3
<1>3. /\ Decoded(b) \in Seq(U) /\ Decoded(p \o v) \in Seq(U)
  <2>1. p \in Seq(U)
    <3> HIDE DEF b
    <3> QED
      BY <1>1, PendingSize
  <2>2. p \o v \in Seq(U)
    <3> HIDE DEF p
    <3> QED
      BY <2>1
  <2> HIDE DEF b, p
  <2> QED
    BY <1>1, <2>2, DecodedTyped
<1>4. PICK y, z, t : y = Decoded(b) /\ z = Decoded(p \o v) /\ t = s.text
  OBVIOUS
<1>5. t \o (y \o z) = (t \o y) \o z /\ <<>> \o z = z
  <2>1. t \in Seq(U) /\ y \in Seq(U) /\ z \in Seq(U)
    BY <1>3, <1>4
  <2> QED
    BY <2>1, JoinJoin
<1>6. whole = IF ~Decodes(p \o v) THEN [stream |-> Empty, out |-> Nothing]
              ELSE IF Pending(p \o v) # <<>>
              THEN [stream |-> [half |-> Pending(p \o v), text |-> (t \o y) \o z],
                    out |-> Nothing]
              ELSE [stream |-> Empty, out |-> <<(t \o y) \o z>>]
  <2>1. whole = IF ~Decodes(b \o v) THEN [stream |-> Empty, out |-> Nothing]
                ELSE IF Pending(b \o v) # <<>>
                THEN [stream |-> [half |-> Pending(b \o v), text |-> s.text \o Decoded(b \o v)],
                      out |-> Nothing]
                ELSE [stream |-> Empty, out |-> <<s.text \o Decoded(b \o v)>>]
    <3> HIDE DEF b
    <3> QED
      BY <1>1 DEF TextFeed
  <2> HIDE DEF b, p, whole
  <2> QED
    BY <1>2, <1>4, <1>5, <2>1
<1>7. CASE p # <<>>
  <2>1. one = [stream |-> [half |-> p, text |-> t \o y], out |-> Nothing]
    BY <1>4, <1>7 DEF TextFeed
  <2>2. two = IF ~Decodes(p \o v) THEN [stream |-> Empty, out |-> Nothing]
              ELSE IF Pending(p \o v) # <<>>
              THEN [stream |-> [half |-> Pending(p \o v), text |-> (t \o y) \o z],
                    out |-> Nothing]
              ELSE [stream |-> Empty, out |-> <<(t \o y) \o z>>]
    <3> HIDE DEF one, p, b
    <3> QED
      BY <1>4, <2>1 DEF TextFeed
  <2> HIDE DEF one, two, whole, p, b
  <2>3. one.out = Nothing /\ two = whole
    BY <1>6, <2>1, <2>2
  <2> QED
    BY <1>7, <2>3 DEF one, two, whole, p, b
<1>8. CASE p = <<>>
  <2>1. one = [stream |-> Empty, out |-> <<t \o y>>]
    BY <1>4, <1>8 DEF TextFeed
  <2>2. two = IF ~Decodes(p \o v) THEN [stream |-> Empty, out |-> Nothing]
              ELSE IF Pending(p \o v) # <<>>
              THEN [stream |-> [half |-> Pending(p \o v), text |-> z], out |-> Nothing]
              ELSE [stream |-> Empty, out |-> <<z>>]
    <3> HIDE DEF one, p, b
    <3> QED
      BY <1>4, <1>5, <1>8, <2>1 DEF TextFeed, Empty
  <2> HIDE DEF one, two, whole, p, b
  <2>3. ASSUME whole.out # Nothing
        PROVE  one.out = <<t \o y>> /\ two.out = <<z>> /\ whole.out = <<(t \o y) \o z>>
    BY <1>6, <2>1, <2>2, <2>3
  <2> QED
    BY <1>8, <2>3 DEF one, two, whole, p, b
<1> QED
  BY <1>7, <1>8
=============================================================================
