-------------------------- MODULE WriteTestProofs --------------------------
(***************************************************************************)
(* What WriteTest's run shows for two settings and one fault, proved for   *)
(* any settings, plans, cuts and bounds, and any number of faults: a       *)
(* verdict is about its write, documents arrive whole and in order until   *)
(* something is lost, and the settings are put back.                       *)
(*                                                                         *)
(* Nothing here looks into the decoder: what is needed of it is FeedMade,  *)
(* for packets of any kind, and FeedInOrder, for those that arrive as they *)
(* were sent.  What a spoilt buffer costs is in ResyncProofs.              *)
(***************************************************************************)
EXTENDS WriteTest, StreamsProofs

-----------------------------------------------------------------------------
(* What can be on its way                                                  *)

Characters == {"open", "key", "close", "next", "lead", "tail", "bad"}

\* The units of the documents D, and the streams that hold nothing else.
Units(D) == {<<c>> : c \in Characters} \cup {<<"val", d>> : d \in D}
Holding(D) == [half : Seq(Units(D)), text : Seq(Units(D))]

LEMMA UnitsAre ==
    ASSUME NEW d
    PROVE  /\ UnitsOf(d) \in Seq(Units({d})) /\ Len(UnitsOf(d)) = 10
           /\ DOMAIN UnitsOf(d) = 1..10
           /\ \A i \in 1..10 : UnitsOf(d)[i][1] = Shape[i]
           /\ UnitsOf(d)[5] = <<"val", d>> /\ \A i \in 1..10 \ {5} : UnitsOf(d)[i] = <<Shape[i]>>
<1> DEFINE u == UnitsOf(d)
<1>1. u = [i \in 1..10 |-> IF Shape[i] = "val" THEN <<"val", d>> ELSE <<Shape[i]>>]
  BY ShapeIs DEF UnitsOf
<1>2. \A i \in 1..10 : (Shape[i] = "val" <=> i = 5) /\ (i # 5 => Shape[i] \in Characters)
  BY ShapeIs DEF Characters
<1>3. \A i \in 1..10 : u[i] = IF i = 5 THEN <<"val", d>> ELSE <<Shape[i]>>
  BY <1>1, <1>2
<1>4. \A i \in 1..10 : u[i] \in Units({d})
  BY <1>2, <1>3 DEF Units
<1>5. u \in Seq(Units({d})) /\ Len(u) = 10 /\ DOMAIN u = 1..10
  BY <1>1, <1>4
<1>6. \A i \in 1..10 : u[i][1] = Shape[i]
  BY <1>3, ShapeIs
<1> QED
  BY <1>3, <1>5, <1>6

LEMMA SeqGrows ==
    ASSUME NEW A, NEW B, A \subseteq B
    PROVE  Seq(A) \subseteq Seq(B)
OBVIOUS

LEMMA HoldingGrows ==
    ASSUME NEW D, NEW E, D \subseteq E
    PROVE  Units(D) \subseteq Units(E) /\ Holding(D) \subseteq Holding(E)
<1>1. Units(D) \subseteq Units(E)
  BY DEF Units
<1>2. Seq(Units(D)) \subseteq Seq(Units(E))
  BY <1>1, SeqGrows
<1> QED
  BY <1>1, <1>2 DEF Holding

\* A packet of a document, lost and garbled ones included.
LEMMA PayloadTyped ==
    ASSUME NEW d, NEW p \in 0..9, NEW m \in 1..10, p + m <= 10
    PROVE  LET rest == From(UnitsOf(d), p + 1)
           IN  /\ Len(rest) = 10 - p
               /\ SubSeq(rest, 1, m) \in Seq(Units({d}))
               /\ <<>> \in Seq(Units({d})) /\ <<<<"bad">>>> \in Seq(Units({d}))
<1> DEFINE u == UnitsOf(d)
           rest == From(u, p + 1)
<1>1. u \in Seq(Units({d})) /\ Len(u) = 10
  BY UnitsAre
<1> HIDE DEF u
<1>2. rest \in Seq(Units({d})) /\ Len(rest) = 10 - p
  <2>1. p + 1 \in 1..(Len(u) + 1)
    BY <1>1
  <2>2. rest \in Seq(Units({d})) /\ Len(rest) = Len(u) - (p + 1) + 1
    BY <1>1, <2>1, FromTyped
  <2> QED
    BY <1>1, <2>2
<1> HIDE DEF rest
<1>3. SubSeq(rest, 1, m) \in Seq(Units({d}))
  BY <1>2
<1>4. <<"bad">> \in Units({d})
  BY DEF Units, Characters
<1> QED
  BY <1>2, <1>3, <1>4 DEF rest, u

\* What is taken for a document's is a document's.
LEMMA ObjectTyped ==
    ASSUME NEW D, NEW o \in Seq(Units(D)), Whole(o)
    PROVE  Object(o) \in D \cup {None} /\ (IsDocument(o) => Object(o) \in D)
<1>1. CASE ~IsDocument(o)
  BY <1>1 DEF Object
<1>2. CASE IsDocument(o)
  <2>1. Len(o) = 9
    BY <1>2, ShapeIs DEF IsDocument
  <2>2. o[5] \in Units(D) /\ o[5][1] = "val"
    <3>1. Char(o, 5) = "val"
      BY <2>1, ValueInside DEF Whole
    <3>2. o[5] \in Units(D)
      BY <2>1, Indexed
    <3> QED
      BY <3>1, <3>2 DEF Char
  <2>3. o[5][2] \in D
    BY <2>2 DEF Units, Characters
  <2>4. Object(o) = o[5][2]
    BY <1>2 DEF Object
  <2> QED
    BY <2>3, <2>4
<1> QED
  BY <1>1, <1>2

LEMMA Greatest ==
    ASSUME NEW T, NEW N \in Nat, T \subseteq 1..N, T # {}
    PROVE  Max(T) \in T
<1> DEFINE B == {N - k : k \in T}
<1>1. B \subseteq Nat /\ B # {}
  OBVIOUS
<1>2. PICK m \in B : \A k \in B : m <= k
  <2> HIDE DEF B
  <2> QED
    BY <1>1, Least
<1>3. PICK x \in T : m = N - x
  BY <1>2
<1>4. \A k \in T : x >= k
  BY <1>2, <1>3
<1>5. \E y \in T : \A k \in T : y >= k
  BY <1>4
<1> QED
  BY <1>5 DEF Max

\* The documents among the objects fed, and all of them as they are queued.
Docs(fed) == {i \in DOMAIN fed.out : IsDocument(fed.out[i])}
Objects(fed) == [i \in DOMAIN fed.out |-> Object(fed.out[i])]

\* What a packet makes of a stream that holds documents of D only.
LEMMA FedTyped ==
    ASSUME NEW D, NEW s \in Holding(D), NEW payload \in Seq(Units(D))
    PROVE  LET fed == Feed(s, payload)
           IN  /\ fed.stream \in Holding(D)
               /\ Len(fed.stream.half) <= 1 /\ Len(fed.stream.text) <= MaxSize
               /\ Objects(fed) \in Seq(D \cup {None})
               /\ Docs(fed) # {} => Object(fed.out[Max(Docs(fed))]) \in D
<1> DEFINE fed == Feed(s, payload)
<1>1. s.half \in Seq(Units(D)) /\ s.text \in Seq(Units(D))
  BY DEF Holding
<1>2. /\ fed.stream \in [half : Seq(Units(D)), text : Seq(Units(D))]
      /\ Len(fed.stream.half) <= 1 /\ Len(fed.stream.text) <= MaxSize
      /\ fed.out \in Seq(Seq(Units(D)))
      /\ \A i \in DOMAIN fed.out : Whole(fed.out[i])
  BY <1>1, FeedMade
<1> HIDE DEF fed
<1>3. Len(fed.out) \in Nat /\ DOMAIN fed.out = 1..Len(fed.out)
      /\ \A i \in 1..Len(fed.out) : fed.out[i] \in Seq(Units(D))
  BY <1>2, Indexed
<1>4. \A i \in 1..Len(fed.out) :
          /\ Object(fed.out[i]) \in D \cup {None}
          /\ IsDocument(fed.out[i]) => Object(fed.out[i]) \in D
  BY <1>2, <1>3, ObjectTyped
<1>5. Objects(fed) \in Seq(D \cup {None})
  BY <1>3, <1>4 DEF Objects
<1>6. ASSUME Docs(fed) # {} PROVE Object(fed.out[Max(Docs(fed))]) \in D
  <2>1. Docs(fed) \subseteq 1..Len(fed.out)
    BY <1>3 DEF Docs
  <2>2. Max(Docs(fed)) \in Docs(fed)
    BY <1>3, <1>6, <2>1, Greatest
  <2> QED
    BY <1>3, <1>4, <2>1, <2>2 DEF Docs
<1>7. fed.stream \in Holding(D)
  BY <1>2 DEF Holding
<1> QED
  BY <1>2, <1>5, <1>6, <1>7 DEF fed

-----------------------------------------------------------------------------
(* Type correctness                                                        *)

TypeInv ==
    /\ TypeOK /\ stream \in Holding(Documents)
    /\ pc \notin {"stop", "done"} => n <= Len(plan)

\* A packet is of the document that is next, and is what is left of it or not.
Payloads == Seq(Units({Head(air)}))
Parcel(m, payload) ==
    /\ Packet(m, payload)
    /\ listening /\ air # <<>> /\ pos \in 0..9 /\ pos + m <= 10 /\ Len(Rest) = 10 - pos
    /\ pos + m # 10 => pos + m \in Cuts
    /\ payload \in Payloads
    /\ faults' \in 0..MaxFaults /\ lost' \in BOOLEAN
    /\ faults' = 0 => faults = 0 /\ payload = SubSeq(Rest, 1, m)

LEMMA ReceiveIs ==
    ASSUME TypeInv, Receive
    PROVE  \E m \in 1..10, payload \in Payloads : Parcel(m, payload)
<1>1. /\ faults \in 0..MaxFaults /\ MaxFaults \in Nat /\ lost \in BOOLEAN
      /\ pos \in Cuts \cup {0} /\ Cuts \subseteq 1..9
  BY WriteTestAssumption, ShapeIs DEF TypeInv, TypeOK
<1>2. PICK m \in 1..10 :
          /\ listening /\ air # <<>> /\ pos + m \in Cuts \cup {10}
          /\ Hear(m) \/ Lose(m) \/ Garble(m)
  BY ShapeIs DEF Receive
<1>3. PICK d : d = Head(air)
  OBVIOUS
<1>4. pos \in 0..9 /\ pos + m <= 10 /\ (pos + m # 10 => pos + m \in Cuts)
  BY <1>1, <1>2
<1>5. /\ Len(Rest) = 10 - pos /\ SubSeq(Rest, 1, m) \in Seq(Units({d}))
      /\ <<>> \in Seq(Units({d})) /\ <<<<"bad">>>> \in Seq(Units({d}))
  <2>1. PICK p \in 0..9 : p = pos
    BY <1>4
  <2> QED
    BY <1>3, <1>4, <2>1, PayloadTyped DEF Rest
<1>6. CASE Hear(m)
  <2>1. Parcel(m, SubSeq(Rest, 1, m))
    BY <1>1, <1>2, <1>3, <1>4, <1>5, <1>6 DEF Hear, Parcel, Payloads
  <2> QED
    BY <2>1 DEF Parcel
<1>7. CASE Lose(m)
  <2>1. faults' \in 0..MaxFaults /\ faults' # 0 /\ lost' \in BOOLEAN
    BY <1>1, <1>7 DEF Lose, Fault
  <2>2. Parcel(m, <<>>)
    BY <1>2, <1>3, <1>4, <1>5, <1>7, <2>1 DEF Lose, Parcel, Payloads
  <2> QED
    BY <2>2 DEF Parcel
<1>8. CASE Garble(m)
  <2>1. faults' \in 0..MaxFaults /\ faults' # 0 /\ lost' \in BOOLEAN
    BY <1>1, <1>8 DEF Garble, Fault
  <2>2. Parcel(m, <<<<"bad">>>>)
    BY <1>2, <1>3, <1>4, <1>5, <1>8, <2>1 DEF Garble, Parcel, Payloads
  <2> QED
    BY <2>2 DEF Parcel
<1> QED
  BY <1>2, <1>6, <1>7, <1>8

\* What the watcher holds after a packet is of the documents it was of before.
LEMMA ParcelTyped ==
    ASSUME NEW D, stream \in Holding(D), Head(air) \in D,
           NEW m \in 1..10, NEW payload, Parcel(m, payload)
    PROVE  /\ stream' \in Holding(D)
           /\ Len(stream'.half) <= 1 /\ Len(stream'.text) <= MaxSize
           /\ \E q \in Seq(D \cup {None}) : queue' = queue \o q
           /\ merged' \in D \cup {merged}
<1>1. PICK s, d : s = stream /\ d = Head(air)
  OBVIOUS
<1>2. Units({d}) \subseteq Units(D)
  <2>1. {d} \subseteq D
    BY <1>1
  <2> QED
    BY <2>1, HoldingGrows
<1>3. payload \in Seq(Units(D))
  <2>1. payload \in Seq(Units({d}))
    BY <1>1 DEF Parcel, Payloads
  <2> QED
    BY <1>2, <2>1, SeqGrows
<1> DEFINE fed == Feed(s, payload)
<1>4. /\ fed.stream \in Holding(D)
      /\ Len(fed.stream.half) <= 1 /\ Len(fed.stream.text) <= MaxSize
      /\ Objects(fed) \in Seq(D \cup {None})
      /\ Docs(fed) # {} => Object(fed.out[Max(Docs(fed))]) \in D
  <2>1. s \in Holding(D)
    BY <1>1
  <2> QED
    BY <1>3, <2>1, FedTyped
<1>5. /\ stream' = fed.stream /\ queue' = queue \o Objects(fed)
      /\ merged' = IF Docs(fed) = {} THEN merged ELSE Object(fed.out[Max(Docs(fed))])
  BY <1>1 DEF Parcel, Packet, Docs, Objects
<1> HIDE DEF fed
<1> QED
  BY <1>4, <1>5

LEMMA LimitedTyped ==
    ASSUME NEW v \in Nat
    PROVE  Limited(v) \in 0..Top /\ (v <= Top => Limited(v) = v)
BY WriteTestAssumption DEF Limited

LEMMA PlanTyped ==
    ASSUME TypeInv, pc \notin {"stop", "done"}
    PROVE  /\ plan \in Seq([key : Keys, value : Nat]) /\ Len(plan) \in Nat
           /\ n \in 1..Len(plan) /\ Asked.key \in Keys /\ Asked.value \in Nat
<1>1. plan \in Seq([key : Keys, value : Nat]) /\ n \in 1..(Len(plan) + 1) /\ n <= Len(plan)
  BY WriteTestAssumption DEF TypeInv, TypeOK
<1>2. Len(plan) \in Nat /\ n \in 1..Len(plan)
  BY <1>1
<1>3. plan[n] \in [key : Keys, value : Nat]
  BY <1>1, <1>2, Indexed
<1> QED
  BY <1>1, <1>2, <1>3 DEF Asked

LEMMA Product ==
    ASSUME NEW a \in Nat, NEW b \in Nat
    PROVE  a * b \in Nat
OBVIOUS

LEMMA MissMaxTyped == MissMax \in Nat /\ MissTop \in Nat
<1>1. MaxSize \in Nat /\ Len(Shape) - 1 = 9 /\ MaxFaults \in Nat
  BY StreamsAssumption, WriteTestAssumption, ShapeIs
<1>2. MaxSize \div 9 \in Nat
  BY <1>1
<1>3. MissMax = 3 + MaxSize \div 9
  BY <1>1 DEF MissMax
<1>4. MissMax \in Nat
  BY <1>2, <1>3
<1>5. MissTop \in Nat
  BY <1>1, <1>4, Product DEF MissTop
<1> QED
  BY <1>4, <1>5

\* What a step that announces a document or none does to what is on its way.
LEMMA AnnouncedTyped ==
    ASSUME TypeInv, NEW doc, doc \in Documents, \/ air' = air
                                                \/ CanAnnounce /\ air' = Announced(doc)
    PROVE  /\ air' \in Seq(Documents) /\ Len(air') <= AirMax
           /\ air' = <<>> => pos = 0
<1>1. /\ air \in Seq(Documents) /\ Len(air) <= AirMax /\ (air = <<>> => pos = 0)
      /\ AirMax \in Nat
  BY WriteTestAssumption DEF TypeInv, TypeOK
<1>2. CASE air' = air
  BY <1>1, <1>2
<1>3. CASE CanAnnounce /\ air' = Append(air, doc)
  BY <1>1, <1>3 DEF CanAnnounce
<1> QED
  BY <1>2, <1>3 DEF Announced

LEMMA TypeReceive ==
    ASSUME TypeInv, Receive
    PROVE  TypeInv'
<1>1. PICK m \in 1..10, payload \in Payloads : Parcel(m, payload)
  BY ReceiveIs
<1>2. /\ air \in Seq(Documents) /\ Len(air) <= AirMax /\ air # <<>> /\ AirMax \in Nat
      /\ queue \in Seq(Documents \cup {None}) /\ merged \in Documents \cup {None}
      /\ stream \in Holding(Documents) /\ missed \in 0..(MissTop + 1)
  BY <1>1, WriteTestAssumption DEF TypeInv, TypeOK, Parcel
<1>3. PICK D : D = Documents
  OBVIOUS
<1>4. Head(air) \in D /\ Tail(air) \in Seq(Documents) /\ Len(Tail(air)) <= AirMax
  BY <1>2, <1>3
<1>5. /\ stream' \in Holding(D)
      /\ Len(stream'.half) <= 1 /\ Len(stream'.text) <= MaxSize
      /\ \E q \in Seq(D \cup {None}) : queue' = queue \o q
      /\ merged' \in D \cup {merged}
  BY <1>1, <1>2, <1>3, <1>4, ParcelTyped
<1>6. queue' \in Seq(Documents \cup {None}) /\ merged' \in Documents \cup {None}
  BY <1>2, <1>3, <1>5
<1>7. /\ air' = IF m = Len(Rest) THEN Tail(air) ELSE air
      /\ pos' = IF m = Len(Rest) THEN 0 ELSE pos + m
      /\ missed' \in {0, missed, IF missed <= MissTop THEN missed + 1 ELSE missed}
      /\ UNCHANGED <<panel, listening, tool, original, outcome, clean, excused>>
  BY <1>1 DEF Parcel, Packet
<1>8. /\ air' \in Seq(Documents) /\ Len(air') <= AirMax
      /\ pos' \in Cuts \cup {0} /\ (air' = <<>> => pos' = 0)
  BY <1>1, <1>2, <1>4, <1>7 DEF Parcel
<1>9. missed' \in 0..(MissTop + 1)
  BY <1>2, <1>7, MissMaxTyped
<1>10. faults' \in 0..MaxFaults /\ lost' \in BOOLEAN
  BY <1>1 DEF Parcel
<1>11. /\ Len(stream'.half) <= 1 /\ Len(stream'.text) <= MaxSize
       /\ stream' \in Holding(Documents)
  BY <1>3, <1>5
<1>12. /\ panel' = panel /\ listening' = listening /\ known' = known /\ pc' = pc
       /\ plan' = plan /\ n' = n /\ test' = test
       /\ original' = original /\ outcome' = outcome /\ clean' = clean /\ excused' = excused
  BY <1>7 DEF tool
<1> QED
  BY <1>6, <1>8, <1>9, <1>10, <1>11, <1>12 DEF TypeInv, TypeOK

LEMMA ExceptTyped ==
    ASSUME NEW f \in Documents, NEW k \in Keys, NEW v \in 0..Top
    PROVE  [f EXCEPT ![k] = v] \in Documents
BY DEF Documents

LEMMA TypeTouch ==
    ASSUME TypeInv, NEW k \in Touched, NEW v \in 0..Top, Touch(k, v)
    PROVE  TypeInv'
<1>1. panel' \in Documents
  BY WriteTestAssumption, ExceptTyped DEF TypeInv, TypeOK, Touch
<1>2. /\ air' \in Seq(Documents) /\ Len(air') <= AirMax
      /\ air' = <<>> => pos = 0
  <2>1. PICK doc : doc = panel'
    OBVIOUS
  <2> QED
    BY <1>1, <2>1, AnnouncedTyped DEF Touch
<1>3. pos' = pos /\ UNCHANGED <<watcher, tool, faults, original, outcome, missed, lost>>
      /\ excused' \in BOOLEAN /\ clean' \in BOOLEAN
  BY DEF Touch, Excuse
<1> QED
  BY <1>1, <1>2, <1>3 DEF TypeInv, TypeOK, watcher, tool

LEMMA TakesTyped ==
    ASSUME TypeInv, NEW k \in Keys, NEW v \in Nat, Takes(k, v)
    PROVE  /\ panel' \in Documents /\ air' \in Seq(Documents) /\ Len(air') <= AirMax
           /\ air' = <<>> => pos = 0
           /\ outcome' \in {"none", "taken", "limited", "ignored"}
<1>1. panel' \in Documents
  BY ExceptTyped, LimitedTyped DEF Takes, TypeInv, TypeOK
<1>2. /\ air' \in Seq(Documents) /\ Len(air') <= AirMax
      /\ air' = <<>> => pos = 0
  <2>1. PICK doc : doc = panel'
    OBVIOUS
  <2> QED
    BY <1>1, <2>1, AnnouncedTyped DEF Takes
<1>3. outcome' \in {"none", "taken", "limited", "ignored"}
  BY DEF Takes
<1> QED
  BY <1>1, <1>2, <1>3

LEMMA TypeWrite ==
    ASSUME TypeInv, Write
    PROVE  TypeInv'
<1>1. PICK k \in Keys, v \in Nat : k = Asked.key /\ v = Asked.value
  BY PlanTyped DEF Write
<1>2. /\ panel' \in Documents /\ air' \in Seq(Documents) /\ Len(air') <= AirMax
      /\ air' = <<>> => pos = 0
      /\ outcome' \in {"none", "taken", "limited", "ignored"}
  <2>1. Takes(k, v)
    BY <1>1 DEF Write
  <2> QED
    BY <2>1, TakesTyped
<1>3. /\ merged \in Documents \cup {None} /\ known \in Documents \cup {None}
      /\ faults \in 0..MaxFaults /\ MaxFaults \in Nat
      /\ n <= Len(plan) /\ excused \in BOOLEAN
  BY WriteTestAssumption DEF TypeInv, TypeOK, Write
<1>4. Found \in Documents \cup {None} /\ known' = Found
  BY <1>3 DEF Found, Write
<1> DEFINE was == IF Found = None THEN None ELSE Found[Asked.key]
           t == [Fresh EXCEPT !.previous = was]
<1>5. was \in 0..Top \cup {None}
  BY <1>1, <1>4 DEF Documents
<1>6. \/ test' = t /\ pc' = "echo" /\ faults' = faults
      \/ test' = [t EXCEPT !.verdict = "write-rejected"] /\ pc' = "next" /\ Fault
  BY DEF Write, Goto
<1> HIDE DEF was
<1>7. test' \in [previous : 0..Top \cup {None}, verdict : Verdicts, restored : BOOLEAN]
  BY <1>5, <1>6 DEF Fresh, Verdicts
<1>8. faults' \in 0..MaxFaults /\ pc' \in {"echo", "next"}
  BY <1>3, <1>6 DEF Fault
<1>9. clean' \in BOOLEAN /\ excused' \in BOOLEAN
  <2>1. clean' \in BOOLEAN
    BY Zenon DEF Write, Quiet
  <2>2. excused' \in BOOLEAN
    BY <1>3, Zenon DEF Write
  <2> QED
    BY <2>1, <2>2
<1>10. UNCHANGED <<pos, watcher, plan, n, original, missed, lost>>
  BY DEF Write
<1> QED
  BY <1>2, <1>3, <1>4, <1>7, <1>8, <1>9, <1>10 DEF TypeInv, TypeOK, watcher, Waiting

LEMMA TypeRestore ==
    ASSUME TypeInv, Restore
    PROVE  TypeInv'
<1>1. /\ UNCHANGED <<pos, watcher, known, plan, n, test, original, outcome, clean, missed, lost>>
      /\ n <= Len(plan)
  BY DEF TypeInv, Restore
<1>2. CASE ~Restores
  BY <1>1, <1>2 DEF TypeInv, TypeOK, Restore, Goto, watcher
<1>3. CASE Restores
  <2>1. /\ Asked.key \in Keys /\ test.previous \in 0..Top /\ Top \in Nat
        /\ panel \in Documents /\ air \in Seq(Documents) /\ excused \in BOOLEAN
        /\ faults \in 0..MaxFaults /\ MaxFaults \in Nat
    <3>1. Asked.key \in Keys
      BY PlanTyped DEF Restore
    <3>2. test.previous \in 0..Top \cup {None}
      BY DEF TypeInv, TypeOK
    <3> QED
      BY <1>3, <3>1, <3>2, WriteTestAssumption DEF Restores, TypeInv, TypeOK
  <2>2. \/ /\ CanAnnounce /\ panel' = [panel EXCEPT ![Asked.key] = Limited(test.previous)]
           /\ air' = Announced(panel') /\ excused' = excused
        \/ panel' = panel /\ air' = air /\ excused' = TRUE
    BY <1>3 DEF Restore, Excuse
  <2>3. panel' \in Documents
    <3>1. Limited(test.previous) \in 0..Top
      BY <2>1, LimitedTyped
    <3> QED
      BY <2>1, <2>2, <3>1, ExceptTyped
  <2>4. /\ air' \in Seq(Documents) /\ Len(air') <= AirMax
        /\ air' = <<>> => pos = 0
    <3>1. PICK doc : doc = panel'
      OBVIOUS
    <3> QED
      BY <2>2, <2>3, <3>1, AnnouncedTyped
  <2>5. pc' \in {"confirm", "next"} /\ faults' \in 0..MaxFaults
    BY <1>3, <2>1 DEF Restore, Goto, Fault
  <2>6. excused' \in BOOLEAN
    BY <2>1, <2>2
  <2> QED
    BY <1>1, <2>3, <2>4, <2>5, <2>6 DEF TypeInv, TypeOK, watcher, Waiting
<1> QED
  BY <1>2, <1>3

\* The document that a wait takes from the queue.
LEMMA TakenTyped ==
    ASSUME TypeInv, queue # <<>>, queue' = Tail(queue)
    PROVE  /\ queue' \in Seq(Documents \cup {None})
           /\ Head(queue) \in Documents \cup {None}
BY DEF TypeInv, TypeOK

LEMMA TypeEcho ==
    ASSUME TypeInv, Echo
    PROVE  TypeInv'
<1>1. /\ queue # <<>> /\ queue' = Tail(queue) /\ pc = "echo"
      /\ UNCHANGED <<window, stream, merged, listening, known, plan, n, faults, history>>
  BY DEF Echo, Take
<1>2. \/ pc' = pc /\ test' = test
      \/ /\ pc' = "restore"
         /\ test' = [test EXCEPT !.verdict = IF Head(queue)[Asked.key] = Asked.value
                                             THEN "echo-matched" ELSE "echo-clamped"]
  BY DEF Echo, Take, Goto
<1>3. /\ test' \in [previous : 0..Top \cup {None}, verdict : Verdicts, restored : BOOLEAN]
      /\ pc' \in {"echo", "restore"}
  BY <1>1, <1>2 DEF TypeInv, TypeOK, Verdicts
<1> QED
  BY <1>1, <1>3, TakenTyped DEF TypeInv, TypeOK, window, history, Waiting

LEMMA TypeConfirm ==
    ASSUME TypeInv, Confirm
    PROVE  TypeInv'
<1>1. /\ queue # <<>> /\ queue' = Tail(queue) /\ pc = "confirm"
      /\ UNCHANGED <<window, stream, merged, listening, known, plan, n, faults, history>>
  BY DEF Confirm, Take
<1>2. \/ pc' = pc /\ test' = test
      \/ pc' = "next" /\ test' = [test EXCEPT !.restored = TRUE]
  BY DEF Confirm, Take, Goto
<1>3. /\ test' \in [previous : 0..Top \cup {None}, verdict : Verdicts, restored : BOOLEAN]
      /\ pc' \in {"confirm", "next"}
  BY <1>1, <1>2 DEF TypeInv, TypeOK, Verdicts
<1> QED
  BY <1>1, <1>3, TakenTyped DEF TypeInv, TypeOK, window, history, Waiting

LEMMA TypeProvoked ==
    ASSUME TypeInv, Provoked
    PROVE  TypeInv'
<1>1. /\ queue # <<>> /\ queue' = Tail(queue) /\ pc = "provoked" /\ pc' \in {"provoked", "write"}
      /\ test' = test
      /\ UNCHANGED <<window, stream, merged, listening, known, plan, n, faults, history>>
  BY DEF Provoked, Take, Goto
<1> QED
  BY <1>1, TakenTyped DEF TypeInv, TypeOK, window, history, Waiting

LEMMA TypeProvoke ==
    ASSUME TypeInv, Provoke
    PROVE  TypeInv'
<1>1. /\ air' \in Seq(Documents) /\ Len(air') <= AirMax
      /\ air' = <<>> => pos = 0
  <2>1. PICK doc : doc = panel
    OBVIOUS
  <2> QED
    BY <2>1, AnnouncedTyped DEF Provoke, TypeInv, TypeOK
<1>2. /\ pc = "provoke" /\ pc' \in {"provoked", "write"} /\ faults' \in 0..MaxFaults
      /\ UNCHANGED <<panel, pos, watcher, known, plan, n, test, history>>
  BY WriteTestAssumption DEF Provoke, Keep, Goto, Fault, TypeInv, TypeOK
<1> QED
  BY <1>1, <1>2 DEF TypeInv, TypeOK, watcher, history, Waiting

LEMMA TypeTimesOut ==
    ASSUME TypeInv, TimesOut
    PROVE  TypeInv'
<1>1. /\ pc \in Waiting /\ pc' \in {"write", "restore", "next"}
      /\ UNCHANGED <<window, watcher, known, plan, n, faults, history>>
  BY DEF TimesOut, Waiting
<1>2. test' \in [previous : 0..Top \cup {None}, verdict : Verdicts, restored : BOOLEAN]
  BY DEF TimesOut, TypeInv, TypeOK, Verdicts
<1> QED
  BY <1>1, <1>2 DEF TypeInv, TypeOK, window, watcher, history, Waiting

LEMMA TypeNextTest ==
    ASSUME TypeInv, NextTest
    PROVE  TypeInv'
<1>1. Len(plan) \in Nat /\ n \in 1..Len(plan) /\ n' = n + 1 /\ plan' = plan
  BY PlanTyped DEF NextTest
<1>2. pc' = (IF n < Len(plan) THEN "write" ELSE "stop")
      /\ UNCHANGED <<window, watcher, known, test, faults, history>>
  BY DEF NextTest, Goto
<1>3. n' \in 1..(Len(plan) + 1) /\ (pc' \notin {"stop", "done"} => n' <= Len(plan))
      /\ pc' \in {"write", "stop"}
  BY <1>1, <1>2
<1> QED
  BY <1>1, <1>2, <1>3 DEF TypeInv, TypeOK, window, watcher, history, Waiting

LEMMA EmptyHolds ==
    ASSUME NEW D
    PROVE  Empty \in Holding(D) /\ Len(Empty.half) <= 1 /\ Len(Empty.text) <= MaxSize
BY StreamsAssumption DEF Empty, Holding

LEMMA TypeStop ==
    ASSUME TypeInv, Stop
    PROVE  TypeInv'
<1>1. /\ air' = <<>> /\ pos' = 0 /\ listening' = FALSE /\ queue' = <<>> /\ stream' = Empty
      /\ pc' = "done"
      /\ UNCHANGED <<panel, merged, known, plan, n, test, faults, history>>
  BY DEF Stop, Unlistened, Goto
<1>2. /\ Empty \in Holding(Documents) /\ Len(Empty.half) <= 1 /\ Len(Empty.text) <= MaxSize
      /\ Len(<<>>) <= AirMax
  BY EmptyHolds, WriteTestAssumption
<1>3. /\ stream' \in Holding(Documents) /\ Len(stream'.half) <= 1 /\ Len(stream'.text) <= MaxSize
      /\ Len(air') <= AirMax
  BY <1>1, <1>2
<1>4. air' \in Seq(Documents) /\ queue' \in Seq(Documents \cup {None}) /\ pos' \in Cuts \cup {0}
  BY <1>1
<1>5. /\ panel' \in Documents /\ merged' \in Documents \cup {None}
      /\ known' \in Documents \cup {None} /\ listening' \in BOOLEAN /\ faults' \in 0..MaxFaults
      /\ plan' \in Plans /\ n' \in 1..(Len(plan') + 1)
      /\ test' \in [previous : 0..Top \cup {None}, verdict : Verdicts, restored : BOOLEAN]
  BY <1>1 DEF TypeInv, TypeOK
<1>6. /\ original' \in Documents /\ outcome' \in {"none", "taken", "limited", "ignored"}
      /\ clean' \in BOOLEAN /\ excused' \in BOOLEAN
      /\ missed' \in 0..(MissTop + 1) /\ lost' \in BOOLEAN
  BY <1>1 DEF TypeInv, TypeOK, history
<1> QED
  BY <1>1, <1>3, <1>4, <1>5, <1>6 DEF TypeInv, TypeOK

\* The steps before the tests.
LEMMA TypeOpening ==
    ASSUME TypeInv, Connect \/ Subscribe \/ ReadDocument
    PROVE  TypeInv'
<1>1. CASE Connect
  <2>1. /\ pc' \in {"start", "done"} /\ faults' \in 0..MaxFaults /\ n <= Len(plan)
        /\ UNCHANGED <<window, watcher, known, plan, n, test, history>>
    <3>1. MaxFaults \in Nat
      BY WriteTestAssumption
    <3> QED
      BY <1>1, <3>1 DEF Connect, Goto, Fault, Keep, TypeInv, TypeOK
  <2> QED
    BY <2>1 DEF TypeInv, TypeOK, window, watcher, history
<1>2. CASE Subscribe
  <2>1. /\ pc' = "gatt" /\ faults' \in 0..MaxFaults /\ n <= Len(plan)
        /\ UNCHANGED <<window, stream, queue, merged, known, plan, n, test, history>>
    BY <1>2, WriteTestAssumption DEF Subscribe, Goto, Fault, Keep, TypeInv, TypeOK
  <2>2. listening' \in BOOLEAN
    BY <1>2, Zenon DEF Subscribe
  <2> QED
    BY <2>1, <2>2 DEF TypeInv, TypeOK, window, history
<1>3. CASE ReadDocument
  <2>1. /\ pc' \in {"provoke", "write"} /\ n <= Len(plan)
        /\ known' \in Documents \cup {None}
        /\ UNCHANGED <<window, watcher, plan, n, test, faults, history>>
    BY <1>3 DEF ReadDocument, Keep, MayFind, Readings, TypeInv, TypeOK
  <2> QED
    BY <2>1 DEF TypeInv, TypeOK, window, watcher, history
<1> QED
  BY <1>1, <1>2, <1>3

LEMMA TypeInit == Init => TypeInv
<1> SUFFICES ASSUME Init PROVE TypeInv
  OBVIOUS
<1>1. panel \in Documents /\ original \in Documents
  BY WriteTestAssumption DEF Init, Documents
<1>2. plan \in Plans /\ n = 1 /\ Len(plan) \in Nat \ {0}
  <2>1. plan \in Seq([key : Keys, value : Nat]) \ {<<>>} /\ plan \in Plans /\ n = 1
    BY WriteTestAssumption DEF Init
  <2> QED
    BY <2>1
<1>3. test \in [previous : 0..Top \cup {None}, verdict : Verdicts, restored : BOOLEAN]
  BY DEF Init, Fresh, Verdicts
<1>4. missed \in 0..(MissTop + 1) /\ faults \in 0..MaxFaults /\ Len(<<>>) <= AirMax
  BY MissMaxTyped, WriteTestAssumption DEF Init
<1>5. /\ stream = Empty /\ air = <<>> /\ pos = 0 /\ queue = <<>> /\ merged = None
      /\ known = None /\ pc = "connect"
      /\ outcome = "none" /\ listening = FALSE /\ clean = FALSE /\ excused = FALSE /\ lost = FALSE
  BY DEF Init
<1>6. /\ stream \in Holding(Documents) /\ Len(stream.half) <= 1 /\ Len(stream.text) <= MaxSize
  BY <1>5, EmptyHolds
<1>7. air \in Seq(Documents) /\ queue \in Seq(Documents \cup {None}) /\ Len(air) <= AirMax
  BY <1>4, <1>5
<1>8. n \in 1..(Len(plan) + 1) /\ n <= Len(plan)
  BY <1>2
<1> QED
  BY <1>1, <1>2, <1>3, <1>4, <1>5, <1>6, <1>7, <1>8 DEF TypeInv, TypeOK

LEMMA TypeStep == TypeInv /\ [Next]_vars => TypeInv'
<1> SUFFICES ASSUME TypeInv, [Next]_vars PROVE TypeInv'
  OBVIOUS
<1>1. CASE Next
  BY <1>1, TypeReceive, TypeOpening, TypeProvoke, TypeProvoked, TypeWrite, TypeEcho,
     TypeRestore, TypeConfirm, TypeTimesOut, TypeNextTest, TypeStop, TypeTouch
     DEF Next, Steps
<1>2. CASE UNCHANGED vars
  BY <1>2 DEF TypeInv, TypeOK, vars, window, watcher, tool, history
<1> QED
  BY <1>1, <1>2

\* Whatever is asked for, and wherever documents are cut, lost and garbled, the
\* tool, its watcher and what is on its way stay what they are declared to be:
\* what the watcher takes for settings is settings that the window announced
\* (atmoph_diag.py:82, SettingsWatcher.feed, with protocol.py:253, feed).
THEOREM TypeCorrect == Spec => []TypeOK
<1>1. Spec => []TypeInv
  BY TypeInit, TypeStep, PTL DEF Spec
<1>2. TypeInv => TypeOK
  BY DEF TypeInv
<1> QED
  BY <1>1, <1>2, PTL

-----------------------------------------------------------------------------
(* A verdict is about its write                                            *)

\* While the echo of a write is awaited that nothing older was under way for,
\* all that can come is what the window made of that write.
EchoInv == clean /\ pc = "echo" =>
    /\ test.verdict = "not-attempted"
    /\ air \in Seq({panel}) /\ queue \in Seq({panel, None}) /\ stream \in Holding({panel})
    /\ \/ outcome = "ignored" /\ Quiet
       \/ /\ outcome = IF Asked.value <= Top THEN "taken" ELSE "limited"
          /\ panel[Asked.key] = Limited(Asked.value)

VerdictInv == EchoInv /\ VerdictTrue

LEMMA VerdictReceive ==
    ASSUME TypeInv, VerdictInv, Receive
    PROVE  VerdictInv'
<1>1. PICK m \in 1..10, payload \in Payloads : Parcel(m, payload)
  BY ReceiveIs
<1>2. /\ air' \in {air, Tail(air)} /\ air # <<>>
      /\ UNCHANGED <<panel, pc, plan, n, test, outcome, clean>>
  BY <1>1 DEF Parcel, Packet, tool
<1>3. VerdictTrue'
  BY <1>2 DEF VerdictInv, VerdictTrue
<1>4. ASSUME clean, pc = "echo"
      PROVE  air' \in Seq({panel}) /\ queue' \in Seq({panel, None}) /\ stream' \in Holding({panel})
  <2>1. PICK p : p = panel
    OBVIOUS
  <2>2. air \in Seq({p}) /\ queue \in Seq({p, None}) /\ stream \in Holding({p})
    BY <1>4, <2>1 DEF VerdictInv, EchoInv
  <2>3. Head(air) \in {p} /\ air' \in Seq({p})
    BY <1>2, <2>2
  <2>4. stream' \in Holding({p}) /\ \E q \in Seq({p} \cup {None}) : queue' = queue \o q
    BY <1>1, <2>2, <2>3, ParcelTyped
  <2>5. PICK q \in Seq({p, None}) : queue' = queue \o q
    <3>1. {p} \cup {None} = {p, None}
      OBVIOUS
    <3> QED
      BY <2>4, <3>1
  <2>6. queue' \in Seq({p, None})
    BY <2>2, <2>5
  <2> QED
    BY <2>1, <2>3, <2>4, <2>6
<1>5. clean /\ pc = "echo" => ~Quiet
  BY <1>2 DEF Quiet
<1>6. EchoInv'
  BY <1>2, <1>4, <1>5 DEF VerdictInv, EchoInv, Asked
<1> QED
  BY <1>3, <1>6 DEF VerdictInv

LEMMA VerdictWrite ==
    ASSUME TypeInv, Write
    PROVE  VerdictInv'
<1>1. /\ test'.verdict \in {"not-attempted", "write-rejected"}
      /\ pc' = "echo" => test'.verdict = "not-attempted"
  <2> DEFINE was == IF Found = None THEN None ELSE Found[Asked.key]
             t == [Fresh EXCEPT !.previous = was]
  <2>1. \/ test' = t /\ pc' = "echo"
        \/ test' = [t EXCEPT !.verdict = "write-rejected"] /\ pc' = "next"
    BY DEF Write, Goto
  <2> HIDE DEF was
  <2> QED
    BY <2>1 DEF Fresh
<1>2. VerdictTrue'
  BY <1>1 DEF VerdictTrue
<1>3. /\ clean' = Quiet /\ Takes(Asked.key, Asked.value)
      /\ UNCHANGED <<pos, stream, queue, merged, listening, plan, n>>
  BY DEF Write, watcher
<1>4. Asked.key \in Keys /\ panel \in Documents /\ Asked' = Asked
  BY <1>3, PlanTyped DEF Write, Asked, TypeInv, TypeOK
<1>5. ASSUME Quiet
      PROVE  /\ air' \in Seq({panel'}) /\ queue' \in Seq({panel', None})
             /\ stream' \in Holding({panel'})
             /\ \/ outcome' = "ignored" /\ Quiet'
                \/ /\ outcome' = IF Asked.value <= Top THEN "taken" ELSE "limited"
                   /\ panel'[Asked.key] = Limited(Asked.value)
  <2>1. PICK p : p = panel'
    OBVIOUS
  <2>2. stream' \in Holding({p}) /\ queue' \in Seq({p, None}) /\ queue' = <<>> /\ stream' = Empty
    BY <1>3, <1>5, EmptyHolds DEF Quiet
  <2>3. air = <<>> /\ (air' = air \/ air' = Append(air, panel'))
    BY <1>3, <1>5 DEF Takes, Announced, Quiet
  <2>4. air' \in Seq({p})
    <3>1. <<>> \in Seq({p}) /\ p \in {p}
      OBVIOUS
    <3>2. Append(<<>>, p) \in Seq({p})
      BY <3>1
    <3> QED
      BY <2>1, <2>3, <3>1, <3>2
  <2>5. \/ outcome' = "ignored" /\ air' = <<>>
        \/ /\ outcome' = IF Asked.value <= Top THEN "taken" ELSE "limited"
           /\ panel' = [panel EXCEPT ![Asked.key] = Limited(Asked.value)]
    BY <1>3, <2>3 DEF Takes
  <2>6. panel' = [panel EXCEPT ![Asked.key] = Limited(Asked.value)]
            => panel'[Asked.key] = Limited(Asked.value)
    BY <1>4 DEF Documents
  <2> QED
    BY <2>1, <2>2, <2>4, <2>5, <2>6 DEF Quiet
<1>6. EchoInv'
  BY <1>1, <1>3, <1>4, <1>5 DEF EchoInv
<1> QED
  BY <1>2, <1>6 DEF VerdictInv

LEMMA VerdictEcho ==
    ASSUME TypeInv, VerdictInv, Echo
    PROVE  VerdictInv'
<1>1. /\ queue # <<>> /\ queue' = Tail(queue) /\ pc = "echo"
      /\ UNCHANGED <<panel, air, stream, plan, n, outcome, clean>>
      /\ IF Head(queue) # None
         THEN /\ pc' = "restore"
              /\ test' = [test EXCEPT !.verdict = IF Head(queue)[Asked.key] = Asked.value
                                                  THEN "echo-matched" ELSE "echo-clamped"]
         ELSE pc' = pc /\ test' = test
  BY DEF Echo, Take, Goto, window, history
<1>2. Asked.key \in Keys /\ Asked.value \in Nat /\ Asked' = Asked
      /\ "verdict" \in DOMAIN test
  BY <1>1, PlanTyped DEF Asked, TypeInv, TypeOK
<1>3. ASSUME clean
      PROVE  /\ Head(queue) \in {panel, None} /\ queue' \in Seq({panel, None})
             /\ outcome = IF Asked.value <= Top THEN "taken" ELSE "limited"
             /\ panel[Asked.key] = Limited(Asked.value)
  <2>1. queue \in Seq({panel, None}) /\ ~Quiet
    BY <1>1, <1>3 DEF VerdictInv, EchoInv, Quiet
  <2> QED
    BY <1>1, <1>3, <2>1 DEF VerdictInv, EchoInv
<1>4. Limited(Asked.value) = Asked.value <=> Asked.value <= Top
  BY <1>2, WriteTestAssumption DEF Limited
<1>5. VerdictTrue'
  <2>1. CASE Head(queue) # None
    <3>1. test'.verdict = IF Head(queue)[Asked.key] = Asked.value
                          THEN "echo-matched" ELSE "echo-clamped"
      BY <1>1, <1>2, <2>1
    <3> QED
      BY <1>1, <1>3, <1>4, <2>1, <3>1 DEF VerdictTrue
  <2>2. CASE Head(queue) = None
    BY <1>1, <2>2 DEF VerdictTrue, VerdictInv
  <2> QED
    BY <2>1, <2>2
<1>6. ~Quiet
  BY <1>1 DEF Quiet
<1>7. EchoInv'
  BY <1>1, <1>2, <1>3, <1>6 DEF EchoInv, VerdictInv
<1> QED
  BY <1>5, <1>7 DEF VerdictInv

LEMMA VerdictStep == TypeInv /\ VerdictInv /\ [Next]_vars => VerdictInv'
<1> SUFFICES ASSUME TypeInv, VerdictInv, [Next]_vars PROVE VerdictInv'
  OBVIOUS
<1>1. ASSUME NEW k \in Touched, NEW v \in 0..Top, Touch(k, v) PROVE VerdictInv'
  BY <1>1 DEF Touch, VerdictInv, EchoInv, VerdictTrue
<1>2. ASSUME pc' # "echo", test'.verdict = test.verdict, UNCHANGED <<outcome, clean>>
      PROVE  VerdictInv'
  BY <1>2 DEF VerdictInv, EchoInv, VerdictTrue
<1>3. CASE Connect \/ Subscribe \/ ReadDocument \/ Provoke \/ Provoked
  BY <1>2, <1>3 DEF Connect, Subscribe, ReadDocument, Provoke, Provoked, Take, Goto, Keep, history
<1>4. CASE Restore
  BY <1>2, <1>4 DEF Restore, Goto
<1>5. CASE Confirm
  <2>1. test'.verdict = test.verdict /\ pc' # "echo" /\ UNCHANGED <<outcome, clean>>
    BY <1>5 DEF Confirm, Take, Goto, history, TypeInv, TypeOK
  <2> QED
    BY <1>2, <2>1
<1>6. CASE TimesOut
  <2>1. pc' # "echo" /\ UNCHANGED <<outcome, clean>>
    BY <1>6 DEF TimesOut, Waiting, history
  <2>2. test' \in {test, [test EXCEPT !.verdict = "no-echo"]}
    BY <1>6 DEF TimesOut
  <2>3. test'.verdict \in {test.verdict, "no-echo"}
    BY <2>2 DEF TypeInv, TypeOK
  <2> QED
    BY <2>1, <2>3 DEF VerdictInv, EchoInv, VerdictTrue
<1>7. CASE NextTest \/ Stop
  BY <1>2, <1>7 DEF NextTest, Stop, Goto, history
<1>8. CASE UNCHANGED vars
  BY <1>8 DEF VerdictInv, EchoInv, VerdictTrue, Quiet, Asked, vars, window, watcher, tool, history
<1> QED
  BY <1>1, <1>3, <1>4, <1>5, <1>6, <1>7, <1>8, VerdictReceive, VerdictWrite, VerdictEcho
     DEF Next, Steps

\* Whatever documents are cut, lost, garbled or held up, and whatever was
\* written before: when nothing older was under way at the write and nobody has
\* touched the window since, "echo-matched" is said only of a write that the
\* window took, "echo-clamped" only of one that it limited (atmoph_diag.py:336,
\* _run_write_test).
THEOREM VerdictTrueAlways == Spec => []VerdictTrue
<1>1. Init => VerdictInv
  BY DEF Init, VerdictInv, EchoInv, VerdictTrue
<1>2. Spec => []TypeInv
  BY TypeInit, TypeStep, PTL DEF Spec
<1>3. VerdictInv => VerdictTrue
  BY DEF VerdictInv
<1> QED
  BY <1>1, <1>2, <1>3, VerdictStep, PTL DEF Spec

-----------------------------------------------------------------------------
(* Documents come whole and in order until a packet is lost or garbled     *)

\* What the stream holds is what has been received of the document that is
\* next, and nothing else.
SyncInv == faults = 0 => stream = IF air = <<>> THEN Empty ELSE Prefix(Head(air), pos)

LEMMA PrefixBegins ==
    ASSUME NEW d
    PROVE  Prefix(d, 0) = Empty
<1>1. PICK U : Plain(d) \in Seq(U)
  BY PlainIs
<1>2. SubSeq(Plain(d), 1, 0) = <<>>
  BY <1>1
<1> QED
  BY <1>2 DEF Prefix, Heads, Empty

LEMMA PlainObject ==
    ASSUME NEW d
    PROVE  LET fed == [stream |-> Empty, out |-> <<Plain(d)>>]
           IN  Docs(fed) = {1} /\ Objects(fed) = <<d>>
<1> DEFINE fed == [stream |-> Empty, out |-> <<Plain(d)>>]
<1>1. Len(Plain(d)) = 9 /\ Plain(d)[5] = <<"val", d>>
  BY PlainIs
<1>2. IsDocument(Plain(d)) /\ Object(Plain(d)) = d
  BY <1>1, ShapeIs DEF IsDocument, Object
<1>3. DOMAIN fed.out = {1} /\ fed.out[1] = Plain(d)
  OBVIOUS
<1> HIDE DEF fed
<1>4. Docs(fed) = {1}
  BY <1>2, <1>3 DEF Docs
<1>5. Objects(fed) = <<d>>
  <2>1. Objects(fed) = [i \in {1} |-> Object(fed.out[i])]
    BY <1>3 DEF Objects
  <2>2. \A i \in {1} : Object(fed.out[i]) = d
    BY <1>2, <1>3
  <2>3. Objects(fed) = [i \in 1..1 |-> d]
    BY <2>1, <2>2
  <2> QED
    BY <2>3
<1> QED
  BY <1>4, <1>5 DEF fed

\* What a packet received as it was sent gives.
LEMMA ParcelSynced ==
    ASSUME TypeInv, SyncInv, MaxSize >= 9, NEW m \in 1..10, NEW payload, Parcel(m, payload),
           faults' = 0
    PROVE  IF pos + m = 10
           THEN /\ queue' = Append(queue, Head(air)) /\ merged' = Head(air)
                /\ stream' = Empty /\ air' = Tail(air) /\ pos' = 0
           ELSE /\ queue' = queue /\ merged' = merged
                /\ stream' = Prefix(Head(air), pos + m) /\ air' = air /\ pos' = pos + m
<1>1. /\ air # <<>> /\ pos \in 0..9 /\ pos + m <= 10 /\ Len(Rest) = 10 - pos
      /\ faults = 0 /\ payload = SubSeq(Rest, 1, m)
  BY DEF Parcel
<1>2. PICK p \in 0..9, d \in {Head(air)}, s \in {stream} :
          p = pos /\ d = Head(air) /\ s = stream
  BY <1>1
<1>3. PICK q \in (p+1)..10 : q = p + m
  BY <1>1, <1>2
<1>4. s = Prefix(d, p)
  BY <1>1, <1>2 DEF SyncInv
<1>5. payload = SubSeq(From(UnitsOf(d), p + 1), 1, q - p)
  BY <1>1, <1>2, <1>3 DEF Rest
<1> DEFINE fed == Feed(s, payload)
<1>6. fed = [stream |-> IF q = 10 THEN Empty ELSE Prefix(d, q),
             out    |-> IF q = 10 THEN <<Plain(d)>> ELSE <<>>]
  BY <1>4, <1>5, FeedInOrder
<1>7. /\ stream' = fed.stream /\ queue' = queue \o Objects(fed)
      /\ merged' = IF Docs(fed) = {} THEN merged ELSE Object(fed.out[Max(Docs(fed))])
      /\ air' = IF m = Len(Rest) THEN Tail(air) ELSE air
      /\ pos' = IF m = Len(Rest) THEN 0 ELSE pos + m
  BY <1>2 DEF Parcel, Packet, Docs, Objects
<1>8. queue \in Seq(Documents \cup {None})
  BY DEF TypeInv, TypeOK
<1> HIDE DEF fed
<1>9. CASE q = 10
  <2>1. fed = [stream |-> Empty, out |-> <<Plain(d)>>]
    BY <1>6, <1>9
  <2>2. Docs(fed) = {1} /\ Objects(fed) = <<d>>
    BY <2>1, PlainObject
  <2>3. Max({1}) = 1
    <3>1. Max({1}) \in {1}
      <4>1. {1} \subseteq 1..1 /\ {1} # {}
        OBVIOUS
      <4> QED
        BY <4>1, Greatest
    <3> QED
      BY <3>1
  <2>4. Object(fed.out[1]) = d
    <3>1. 1 \in DOMAIN fed.out
      BY <2>1
    <3>2. Objects(fed)[1] = Object(fed.out[1])
      BY <3>1 DEF Objects
    <3> QED
      BY <2>2, <3>2
  <2>5. merged' = d /\ queue' = Append(queue, d) /\ stream' = Empty
    <3>1. queue \o <<d>> = Append(queue, d)
      BY <1>8
    <3> QED
      BY <1>7, <2>1, <2>2, <2>3, <2>4, <3>1
  <2>6. m = Len(Rest) /\ pos + m = 10
    BY <1>1, <1>2, <1>3, <1>9
  <2> QED
    BY <1>2, <1>7, <2>5, <2>6
<1>10. CASE q # 10
  <2>1. fed.out = <<>> /\ fed.stream = Prefix(d, q)
    BY <1>6, <1>10
  <2>2. Docs(fed) = {} /\ Objects(fed) = <<>>
    <3>1. DOMAIN fed.out = {}
      BY <2>1
    <3>2. Objects(fed) = [i \in {} |-> Object(fed.out[i])]
      BY <3>1 DEF Objects
    <3>3. Objects(fed) = <<>>
      BY <3>2
    <3> QED
      BY <3>1, <3>3 DEF Docs
  <2>3. queue \o <<>> = queue
    BY <1>8
  <2>4. m # Len(Rest) /\ pos + m # 10 /\ q = pos + m
    BY <1>1, <1>2, <1>3, <1>10
  <2> QED
    BY <1>2, <1>7, <2>1, <2>2, <2>3, <2>4
<1> QED
  BY <1>9, <1>10

LEMMA SyncReceive ==
    ASSUME TypeInv, SyncInv, MaxSize >= 9, Receive
    PROVE  SyncInv'
<1> SUFFICES ASSUME faults' = 0
             PROVE  stream' = IF air' = <<>> THEN Empty ELSE Prefix(Head(air'), pos')
  BY DEF SyncInv
<1>1. PICK m \in 1..10, payload \in Payloads : Parcel(m, payload)
  BY ReceiveIs
<1>2. IF pos + m = 10
      THEN stream' = Empty /\ air' = Tail(air) /\ pos' = 0
      ELSE stream' = Prefix(Head(air), pos + m) /\ air' = air /\ pos' = pos + m
  BY <1>1, ParcelSynced
<1>3. CASE pos + m = 10
  <2>1. PICK d : d = Head(air')
    OBVIOUS
  <2>2. Prefix(d, 0) = Empty
    BY PrefixBegins
  <2> QED
    BY <1>2, <1>3, <2>1, <2>2
<1>4. CASE pos + m # 10
  BY <1>1, <1>2, <1>4 DEF Parcel
<1> QED
  BY <1>3, <1>4

\* The steps but for what is heard and the end.
Others == \/ Connect \/ Subscribe \/ ReadDocument \/ Provoke \/ Write \/ Restore \/ NextTest
          \/ Provoked \/ Echo \/ Confirm \/ TimesOut
          \/ \E k \in Touched, v \in 0..Top : Touch(k, v)

LEMMA NextIs == Next => Receive \/ Stop \/ Others
BY DEF Next, Steps, Others

LEMMA OthersAnnounce ==
    ASSUME Others
    PROVE  /\ air' = air \/ \E doc : air' = Append(air, doc)
           /\ pos' = pos /\ stream' = stream
           /\ queue' \in {queue, Tail(queue)}
           /\ air' # air => queue' = queue
<1>1. CASE Connect \/ Subscribe \/ ReadDocument \/ NextTest \/ TimesOut
  BY <1>1 DEF Connect, Subscribe, ReadDocument, NextTest, TimesOut, window, watcher
<1>2. CASE Provoked \/ Echo \/ Confirm
  BY <1>2 DEF Provoked, Echo, Confirm, Take, window
<1>3. CASE Provoke
  BY <1>3 DEF Provoke, Announced, watcher
<1>4. CASE Write
  BY <1>4 DEF Write, Takes, Announced, watcher
<1>5. CASE Restore
  BY <1>5 DEF Restore, Announced, watcher
<1>6. ASSUME NEW k \in Touched, NEW v \in 0..Top, Touch(k, v)
      PROVE  /\ air' = air \/ \E doc : air' = Append(air, doc)
             /\ pos' = pos /\ stream' = stream /\ queue' = queue
  BY <1>6 DEF Touch, Announced, watcher
<1> QED
  BY <1>1, <1>2, <1>3, <1>4, <1>5, <1>6 DEF Others

LEMMA FaultsStay ==
    ASSUME TypeInv, Others, faults' = 0
    PROVE  faults = 0 /\ faults' = faults
<1>1. faults \in Nat
  BY WriteTestAssumption DEF TypeInv, TypeOK
<1>2. faults' = faults \/ Fault
  BY DEF Others, Connect, Subscribe, ReadDocument, Provoke, Write, Restore, NextTest,
         Provoked, Echo, Confirm, Take, TimesOut, Touch
<1> QED
  BY <1>1, <1>2 DEF Fault

LEMMA SyncStep == TypeInv /\ SyncInv /\ MaxSize >= 9 /\ [Next]_vars => SyncInv'
<1> SUFFICES ASSUME TypeInv, SyncInv, MaxSize >= 9, [Next]_vars PROVE SyncInv'
  OBVIOUS
<1>1. CASE Others
  <2> SUFFICES ASSUME faults' = 0
               PROVE  stream' = IF air' = <<>> THEN Empty ELSE Prefix(Head(air'), pos')
    BY DEF SyncInv
  <2>1. stream' = stream /\ pos' = pos /\ stream = IF air = <<>> THEN Empty ELSE Prefix(Head(air), pos)
    BY <1>1, FaultsStay, OthersAnnounce DEF SyncInv
  <2>2. air \in Seq(Documents) /\ (air = <<>> => pos = 0)
    BY DEF TypeInv, TypeOK
  <2>3. CASE air' = air
    BY <2>1, <2>3
  <2>4. ASSUME NEW doc, air' = Append(air, doc)
        PROVE  stream' = IF air' = <<>> THEN Empty ELSE Prefix(Head(air'), pos')
    <3>1. air' # <<>> /\ (air # <<>> => Head(air') = Head(air))
      BY <2>2, <2>4
    <3>2. PICK d : d = Head(air')
      OBVIOUS
    <3>3. Prefix(d, 0) = Empty
      BY PrefixBegins
    <3> QED
      BY <2>1, <2>2, <3>1, <3>2, <3>3
  <2> QED
    BY <1>1, <2>3, <2>4, OthersAnnounce
<1>2. CASE Stop
  BY <1>2 DEF Stop, Unlistened, SyncInv
<1>3. CASE UNCHANGED vars
  BY <1>3 DEF vars, window, watcher, SyncInv
<1> QED
  BY <1>1, <1>2, <1>3, NextIs, SyncReceive

\* Until a packet is lost or garbled, and given that the limit has room for a
\* document: wherever documents are cut, each is queued when its last packet is
\* fed, whole and in the order they were announced, and nothing else is ever
\* queued (protocol.py:253, feed; atmoph_diag.py:101, SettingsWatcher.feed).
THEOREM InOrderAlways == MaxSize >= 9 /\ Spec => InOrder
<1> DEFINE A == faults' = 0 /\ <<air, pos>> # <<air', pos'>> /\ listening /\ listening' =>
                IF Len(air') < Len(air)
                THEN queue' = Append(queue, Head(air))
                ELSE \A i \in DOMAIN queue' : i \in DOMAIN queue
<1>1. ASSUME TypeInv, SyncInv, MaxSize >= 9, [Next]_vars PROVE A
  <2> SUFFICES ASSUME faults' = 0, <<air, pos>> # <<air', pos'>>, listening'
               PROVE  IF Len(air') < Len(air)
                      THEN queue' = Append(queue, Head(air))
                      ELSE \A i \in DOMAIN queue' : i \in DOMAIN queue
    OBVIOUS
  <2>1. air \in Seq(Documents)
    BY <1>1 DEF TypeInv, TypeOK
  <2>2. CASE Receive
    <3>1. PICK m \in 1..10, payload \in Payloads : Parcel(m, payload)
      BY <1>1, <2>2, ReceiveIs
    <3>2. IF pos + m = 10
          THEN queue' = Append(queue, Head(air)) /\ air' = Tail(air)
          ELSE queue' = queue /\ air' = air
      BY <1>1, <3>1, ParcelSynced
    <3>3. air # <<>>
      BY <3>1 DEF Parcel
    <3>4. Len(Tail(air)) < Len(air) /\ ~(Len(air) < Len(air))
      BY <2>1, <3>3
    <3> QED
      BY <3>2, <3>4
  <2>3. CASE Stop
    BY <2>3 DEF Stop, Unlistened
  <2>4. CASE Others
    <3>1. air' # air /\ queue' = queue
      BY <2>4, OthersAnnounce
    <3>2. PICK doc : air' = Append(air, doc)
      BY <2>4, <3>1, OthersAnnounce
    <3>3. ~(Len(air') < Len(air))
      BY <2>1, <3>2
    <3> QED
      BY <3>1, <3>3
  <2>5. CASE UNCHANGED vars
    BY <2>5 DEF vars, window
  <2> QED
    BY <1>1, <2>2, <2>3, <2>4, <2>5, NextIs
<1>2. Init => SyncInv
  BY DEF Init, SyncInv
<1>3. Spec => []TypeInv
  BY TypeInit, TypeStep, PTL DEF Spec
<1>4. ASSUME MaxSize >= 9 PROVE TypeInv /\ SyncInv /\ [Next]_vars => SyncInv'
  BY <1>4, SyncStep
<1>5. ASSUME MaxSize >= 9 PROVE TypeInv /\ SyncInv /\ [Next]_vars => A
  BY <1>1, <1>5
<1>6. MaxSize >= 9 /\ Spec => [][A]_vars
  <2> SUFFICES ASSUME MaxSize >= 9 PROVE Spec => [][A]_vars
    OBVIOUS
  <2>1. TypeInv /\ SyncInv /\ [Next]_vars => SyncInv'
    BY <1>4
  <2>2. TypeInv /\ SyncInv /\ [Next]_vars => A
    BY <1>5
  <2> HIDE DEF A
  <2> QED
    BY <1>2, <1>3, <2>1, <2>2, PTL DEF Spec
<1> QED
  BY <1>6 DEF InOrder

-----------------------------------------------------------------------------
(* The settings are put back                                               *)

\* Until something is lost, garbled or fails, the latest the tool was told, or
\* is being told, is what the window is set to.
CurrentInv == faults = 0 /\ pc # "done" =>
    /\ listening <=> pc \notin {"connect", "start"}
    /\ ~listening => air = <<>> /\ merged = None /\ known = None
    /\ air # <<>> => air[Len(air)] = panel
    /\ air = <<>> /\ merged # None => merged = panel
    /\ air = <<>> /\ merged = None => panel = original \/ excused
    /\ merged = None => known \in {None, original} \/ excused

\* The settings written so far, and the documents that differ from what the
\* window was found with in those only.
Busy == {"echo", "restore", "confirm", "next"}
Tried == {plan[i].key : i \in 1..(IF pc \in Busy THEN n ELSE n - 1)}
Likenesses == {d \in Documents : \A k \in Keys \ Tried : d[k] = original[k]}

\* Whatever is under way or remembered tells the truth about every setting not
\* written yet, and the window differs from what it was only while a test runs,
\* which then knows what to put back.
UntouchedInv == ~excused =>
    /\ air \in Seq(Likenesses) /\ stream \in Holding(Likenesses)
    /\ merged \in Likenesses \cup {None} /\ known \in Likenesses \cup {None}
    /\ IF pc \in {"echo", "restore"}
       THEN /\ test.previous = original[Asked.key]
            /\ panel \in {original, [original EXCEPT ![Asked.key] = Limited(Asked.value)]}
       ELSE panel = original

LEMMA LastOfTail ==
    ASSUME NEW S, NEW s \in Seq(S), s # <<>>, Tail(s) # <<>>
    PROVE  Tail(s)[Len(Tail(s))] = s[Len(s)]
<1>1. Len(s) \in Nat /\ Len(Tail(s)) = Len(s) - 1 /\ Tail(s) \in Seq(S)
  OBVIOUS
<1>2. Len(Tail(s)) # 0
  BY <1>1
<1>3. \A i \in 1..Len(s)-1 : Tail(s)[i] = s[i + 1]
  OBVIOUS
<1> QED
  BY <1>1, <1>2, <1>3

LEMMA OnlyOne ==
    ASSUME NEW S, NEW s \in Seq(S), s # <<>>, Tail(s) = <<>>
    PROVE  Head(s) = s[Len(s)]
<1>1. Len(s) \in Nat /\ Len(Tail(s)) = Len(s) - 1 /\ Head(s) = s[1]
  OBVIOUS
<1>2. Len(Tail(s)) = 0
  <2>1. \A t \in Seq(S) : t = <<>> => Len(t) = 0
    OBVIOUS
  <2>2. Tail(s) \in Seq(S)
    OBVIOUS
  <2> QED
    BY <2>1, <2>2
<1>3. Len(s) = 1
  BY <1>1, <1>2
<1> QED
  BY <1>1, <1>3

LEMMA CurrentReceive ==
    ASSUME TypeInv, SyncInv, CurrentInv, MaxSize >= 9, Receive
    PROVE  CurrentInv'
<1> SUFFICES ASSUME faults' = 0, pc' # "done" PROVE CurrentInv'
  BY DEF CurrentInv
<1>1. PICK m \in 1..10, payload \in Payloads : Parcel(m, payload)
  BY ReceiveIs
<1>2. /\ faults = 0 /\ air # <<>> /\ listening
      /\ UNCHANGED <<panel, listening, pc, known, original, excused>>
  BY <1>1 DEF Parcel, Packet, tool
<1>3. air \in Seq(Documents) /\ None \notin Documents
  BY WriteTestAssumption DEF TypeInv, TypeOK, Documents
<1>4. air[Len(air)] = panel /\ Head(air) # None
  BY <1>2, <1>3 DEF CurrentInv
<1>5. CASE pos + m = 10
  <2>1. air' = Tail(air) /\ merged' = Head(air)
    BY <1>1, <1>5, ParcelSynced
  <2>2. Tail(air) = <<>> => Head(air) = air[Len(air)]
    BY <1>2, <1>3, OnlyOne
  <2>3. Tail(air) # <<>> => Tail(air)[Len(Tail(air))] = air[Len(air)]
    BY <1>2, <1>3, LastOfTail
  <2> QED
    BY <1>2, <1>4, <2>1, <2>2, <2>3 DEF CurrentInv
<1>6. CASE pos + m # 10
  <2>1. air' = air /\ merged' = merged
    BY <1>1, <1>6, ParcelSynced
  <2> QED
    BY <1>2, <2>1 DEF CurrentInv
<1> QED
  BY <1>5, <1>6

\* A step that sets the window announces it to who listens.
LEMMA CurrentAnnounced ==
    ASSUME TypeInv, CurrentInv, Others, pc \notin {"connect", "start"}, pc' \notin {"connect", "start"},
           UNCHANGED <<listening, merged, original>>, excused => excused',
           known' = known \/ known' = Found,
           \/ UNCHANGED <<panel, air>>
           \/ air' = Announced(panel')
    PROVE  CurrentInv'
<1> SUFFICES ASSUME faults' = 0, pc' # "done" PROVE CurrentInv'
  BY DEF CurrentInv
<1>1. faults = 0
  BY FaultsStay
<1>2. pc # "done"
  BY DEF Others, Connect, Subscribe, ReadDocument, Provoke, Write, Restore, NextTest,
         Provoked, Echo, Confirm, TimesOut, Touch, Waiting
<1>3. listening /\ listening'
  BY <1>1, <1>2 DEF CurrentInv
<1>4. merged' = None => known' \in {None, original'} \/ excused'
  BY <1>1, <1>2 DEF CurrentInv, Found
<1>5. CASE UNCHANGED <<panel, air>>
  BY <1>1, <1>2, <1>3, <1>4, <1>5 DEF CurrentInv
<1>6. CASE air' = Append(air, panel')
  <2>1. air' # <<>> /\ air'[Len(air')] = panel'
    BY <1>6 DEF TypeInv, TypeOK
  <2> QED
    BY <1>1, <1>2, <1>3, <1>4, <2>1 DEF CurrentInv
<1> QED
  BY <1>3, <1>5, <1>6 DEF Announced

LEMMA CurrentStep ==
    TypeInv /\ SyncInv /\ CurrentInv /\ UntouchedInv /\ MaxSize >= 9 /\ [Next]_vars => CurrentInv'
<1> SUFFICES ASSUME TypeInv, SyncInv, CurrentInv, UntouchedInv, MaxSize >= 9, [Next]_vars
             PROVE  CurrentInv'
  OBVIOUS
<1>1. CASE Connect
  BY <1>1, FaultsStay DEF Others, Connect, Goto, window, watcher, history, CurrentInv
<1>2. CASE Subscribe
  <2> SUFFICES ASSUME faults' = 0, pc' # "done" PROVE CurrentInv'
    BY DEF CurrentInv
  <2>1. faults = 0 /\ listening' = TRUE /\ pc = "start" /\ pc' = "gatt"
    BY <1>2, FaultsStay DEF Others, Subscribe, Goto, Fault, TypeInv, TypeOK
  <2> QED
    BY <1>2, <2>1 DEF Subscribe, window, history, CurrentInv
<1>3. CASE ReadDocument
  <2> SUFFICES ASSUME faults' = 0, pc' # "done" PROVE CurrentInv'
    BY DEF CurrentInv
  <2>1. /\ pc = "gatt" /\ pc' \in {"provoke", "write"} /\ faults = 0 /\ known' \in {panel, None}
        /\ UNCHANGED <<panel, air, listening, merged, original, excused>>
    BY <1>3 DEF ReadDocument, MayFind, Readings, window, watcher, history
  <2>2. panel = original \/ excused
    BY <2>1 DEF UntouchedInv
  <2> QED
    BY <2>1, <2>2 DEF CurrentInv
<1>4. CASE Provoke
  BY <1>4, CurrentAnnounced DEF Provoke, Goto, watcher, history, Others
<1>5. CASE Write
  <2>1. \/ UNCHANGED <<panel, air>>
        \/ air' = Announced(panel')
    BY <1>5 DEF Write, Takes
  <2>2. excused => excused'
    BY <1>5 DEF Write
  <2> QED
    BY <1>5, <2>1, <2>2, CurrentAnnounced DEF Write, Goto, watcher, Others
<1>6. CASE Restore
  <2>1. \/ UNCHANGED <<panel, air>>
        \/ air' = Announced(panel')
    BY <1>6 DEF Restore
  <2>2. (excused => excused') /\ pc' \in {"next", "confirm"}
    BY <1>6 DEF Restore, Excuse, Goto
  <2> QED
    BY <1>6, <2>1, <2>2, CurrentAnnounced DEF Restore, watcher, Others
<1>7. CASE Provoked \/ Echo \/ Confirm
  <2>1. /\ pc \in {"provoked", "echo", "confirm"}
        /\ pc' \in {"provoked", "write", "echo", "restore", "confirm", "next"}
    BY <1>7 DEF Provoked, Echo, Confirm, Take, Goto
  <2>2. UNCHANGED <<panel, air, listening, merged, original, known, excused>>
    BY <1>7 DEF Provoked, Echo, Confirm, Take, window, history
  <2> QED
    BY <1>7, <2>1, <2>2, CurrentAnnounced DEF Others
<1>8. CASE TimesOut \/ NextTest
  <2>1. /\ pc \in {"provoked", "echo", "confirm", "next"}
        /\ pc' \in {"write", "restore", "next", "stop"}
    BY <1>8 DEF TimesOut, NextTest, Goto, Waiting
  <2>2. UNCHANGED <<panel, air, listening, merged, original, known, excused>>
    BY <1>8 DEF TimesOut, NextTest, window, watcher, history
  <2> QED
    BY <1>8, <2>1, <2>2, CurrentAnnounced DEF Others
<1>9. ASSUME NEW k \in Touched, NEW v \in 0..Top, Touch(k, v) PROVE CurrentInv'
  <2> SUFFICES ASSUME faults' = 0, pc' # "done" PROVE CurrentInv'
    BY DEF CurrentInv
  <2>1. /\ faults = 0 /\ pc' = pc /\ excused' = TRUE /\ air' = Announced(panel')
        /\ UNCHANGED <<listening, merged, known, original>>
    BY <1>9 DEF Touch, Excuse, watcher, tool
  <2>2. CASE listening
    <3>1. air' = Append(air, panel')
      BY <2>1, <2>2 DEF Announced
    <3>2. air' # <<>> /\ air'[Len(air')] = panel'
      BY <3>1 DEF TypeInv, TypeOK
    <3> QED
      BY <2>1, <2>2, <3>2 DEF CurrentInv
  <2>3. CASE ~listening
    BY <2>1, <2>3 DEF CurrentInv, Announced
  <2> QED
    BY <2>2, <2>3
<1>10. CASE Stop
  BY <1>10 DEF Stop, Goto, CurrentInv
<1>11. CASE UNCHANGED vars
  BY <1>11 DEF vars, window, watcher, tool, history, CurrentInv
<1> QED
  BY <1>1, <1>2, <1>3, <1>4, <1>5, <1>6, <1>7, <1>8, <1>9, <1>10, <1>11, CurrentReceive
     DEF Next, Steps

LEMMA TriedGrows ==
    ASSUME TypeInv, plan' = plan, original' = original,
           \/ n' = n /\ (pc \in Busy => pc' \in Busy)
           \/ n' = n + 1 /\ pc = "next"
    PROVE  Tried \subseteq Tried' /\ Likenesses \subseteq Likenesses'
<1> DEFINE last == IF pc \in Busy THEN n ELSE n - 1
           last2 == IF pc' \in Busy THEN n' ELSE n' - 1
<1>1. n \in Nat /\ Len(plan) \in Nat
  BY WriteTestAssumption DEF TypeInv, TypeOK
<1>2. last \in Int /\ last2 \in Int /\ last <= last2
  BY <1>1 DEF Busy
<1>3. Tried = {plan[i].key : i \in 1..last} /\ Tried' = {plan[i].key : i \in 1..last2}
  BY DEF Tried
<1> HIDE DEF last, last2
<1>4. Tried \subseteq Tried'
  BY <1>2, <1>3
<1> QED
  BY <1>4 DEF Likenesses

\* A step that keeps what the tool knows of the window, and announces nothing but
\* what is like the original.
LEMMA UntouchedStep ==
    ASSUME TypeInv, UntouchedInv, ~excused, Likenesses \subseteq Likenesses',
           stream' = stream \/ stream' = Empty, merged' = merged,
           known' \in {known, panel, None} \/ known' = Found,
           panel \in Likenesses', original' = original,
           \/ air' = air
           \/ air' = <<>>
           \/ air' = Announced(panel') /\ panel' \in Likenesses',
           IF pc' \in {"echo", "restore"}
           THEN /\ test'.previous = original[Asked'.key]
                /\ panel' \in {original, [original EXCEPT ![Asked'.key] = Limited(Asked'.value)]}
           ELSE panel' = original
    PROVE  UntouchedInv'
<1>1. PICK L, K, p : L = Likenesses /\ K = Likenesses' /\ p = panel'
  OBVIOUS
<1>2. /\ air \in Seq(L) /\ stream \in Holding(L)
      /\ merged \in L \cup {None} /\ known \in L \cup {None} /\ L \subseteq K
  BY <1>1 DEF UntouchedInv
<1>3. Seq(L) \subseteq Seq(K) /\ Holding(L) \subseteq Holding(K) /\ Empty \in Holding(K)
  BY <1>2, SeqGrows, HoldingGrows, EmptyHolds
<1>4. air' \in Seq(K)
  <2>1. CASE air' = air \/ air' = <<>>
    <3>1. air \in Seq(K) /\ <<>> \in Seq(K)
      BY <1>2, <1>3
    <3> QED
      BY <2>1, <3>1
  <2>2. CASE air' = Append(air, p) /\ p \in K
    <3>1. air \in Seq(K)
      BY <1>2, <1>3
    <3> QED
      BY <2>2, <3>1
  <2> QED
    BY <1>1, <2>1, <2>2 DEF Announced
<1>5. stream' \in Holding(K) /\ merged' \in K \cup {None}
  BY <1>2, <1>3
<1>6. known' \in K \cup {None}
  BY <1>1, <1>2 DEF Found
<1> QED
  BY <1>1, <1>4, <1>5, <1>6 DEF UntouchedInv

LEMMA OriginalIsLike ==
    ASSUME TypeInv, original' = original
    PROVE  original \in Likenesses /\ original \in Likenesses'
BY DEF TypeInv, TypeOK, Likenesses

LEMMA UntouchedReceive ==
    ASSUME TypeInv, UntouchedInv, Receive
    PROVE  UntouchedInv'
<1>1. PICK m \in 1..10, payload \in Payloads : Parcel(m, payload)
  BY ReceiveIs
<1>2. /\ air' \in {air, Tail(air)} /\ air # <<>>
      /\ UNCHANGED <<panel, known, pc, plan, n, test, original, excused>>
  BY <1>1 DEF Parcel, Packet, tool
<1>3. Likenesses' = Likenesses /\ Asked' = Asked
  BY <1>2 DEF Likenesses, Tried, Asked
<1> SUFFICES ASSUME ~excused PROVE UntouchedInv'
  BY <1>2 DEF UntouchedInv
<1>4. PICK L : L = Likenesses
  OBVIOUS
<1>5. air \in Seq(L) /\ stream \in Holding(L) /\ merged \in L \cup {None}
  BY <1>4 DEF UntouchedInv
<1>6. Head(air) \in L /\ air' \in Seq(L)
  BY <1>2, <1>5
<1>7. stream' \in Holding(L) /\ merged' \in L \cup {merged}
  BY <1>1, <1>5, <1>6, ParcelTyped
<1>8. merged' \in L \cup {None}
  BY <1>5, <1>7
<1> QED
  BY <1>2, <1>3, <1>4, <1>6, <1>7, <1>8 DEF UntouchedInv

LEMMA Written ==
    ASSUME TypeInv, pc \notin {"stop", "done"}, original' = original, Asked' = Asked,
           Asked.key \in Tried', NEW w, w = [original EXCEPT ![Asked.key] = Limited(Asked.value)]
    PROVE  w \in Likenesses'
<1>1. Asked.key \in Keys /\ Limited(Asked.value) \in 0..Top /\ original \in Documents
  BY PlanTyped, LimitedTyped DEF TypeInv, TypeOK
<1>2. PICK k, v, o : k = Asked.key /\ v = Limited(Asked.value) /\ o = original
  OBVIOUS
<1>3. w \in Documents
  BY <1>1, <1>2, ExceptTyped
<1>4. \A j \in Keys \ Tried' : w[j] = original'[j]
  BY <1>1 DEF Documents
<1> QED
  BY <1>3, <1>4 DEF Likenesses

\* What the tool takes for the old value is the old value.
LEMMA FoundIsOriginal ==
    ASSUME TypeInv, CurrentInv, UntouchedInv, ~excused, pc = "write", Found # None,
           ~Again \/ (Quiet /\ faults = 0)
    PROVE  Found[Asked.key] = original[Asked.key]
<1>1. Asked.key \in Keys /\ panel = original
  BY PlanTyped DEF UntouchedInv
<1>2. CASE ~Again
  <2>1. Asked.key \notin Tried
    BY <1>2 DEF Tried, Again, Busy
  <2>2. Found \in Likenesses
    BY DEF UntouchedInv, Found
  <2> QED
    BY <1>1, <2>1, <2>2 DEF Likenesses
<1>3. CASE Quiet /\ faults = 0
  <2>1. air = <<>> /\ (merged # None => merged = panel)
        /\ (merged = None => known \in {None, original})
    BY <1>3 DEF CurrentInv, Quiet
  <2> QED
    BY <1>1, <2>1 DEF Found
<1> QED
  BY <1>2, <1>3

LEMMA UntouchedWrite ==
    ASSUME TypeInv, CurrentInv, UntouchedInv, Write
    PROVE  UntouchedInv'
<1> SUFFICES ASSUME ~excused' PROVE UntouchedInv'
  BY DEF UntouchedInv
<1>1. /\ pc = "write" /\ known' = Found /\ Takes(Asked.key, Asked.value)
      /\ UNCHANGED <<pos, stream, queue, merged, listening, plan, n, original>>
  BY DEF Write, watcher
<1>2. ~excused
  BY DEF Write
<1>3. /\ Asked' = Asked /\ Asked.key \in Keys /\ panel = original
      /\ n \in 1..Len(plan) /\ Len(plan) \in Nat
  BY <1>1, <1>2, PlanTyped DEF Asked, UntouchedInv
<1>4. pc' \in {"echo", "next"}
  BY DEF Write, Goto
<1>5. Likenesses \subseteq Likenesses'
  BY <1>1, TriedGrows DEF Busy
<1>6. Asked.key \in Tried'
  BY <1>1, <1>3, <1>4 DEF Tried, Busy, Asked
<1> DEFINE w == [original EXCEPT ![Asked.key] = Limited(Asked.value)]
<1>7. panel' \in {original, w} /\ (outcome' = "ignored" => panel' = original)
      /\ (air' = air \/ air' = Announced(panel'))
  BY <1>1, <1>3 DEF Takes
<1>8. panel' \in Likenesses' /\ panel \in Likenesses'
  <2>1. w \in Likenesses'
    <3> HIDE DEF w
    <3>1. PICK x : x = w
      OBVIOUS
    <3> QED
      BY <1>1, <1>3, <1>6, <3>1, Written DEF w
  <2> HIDE DEF w
  <2> QED
    BY <1>1, <1>3, <1>7, <2>1, OriginalIsLike
<1> HIDE DEF w
<1>9. CASE pc' = "echo"
  <2>1. /\ test' = [Fresh EXCEPT !.previous = IF Found = None THEN None ELSE Found[Asked.key]]
        /\ ~(Found = None \/ (Again /\ (~Quiet \/ faults > 0)))
    BY <1>9 DEF Write, Goto
  <2>2. faults \in Nat
    BY WriteTestAssumption DEF TypeInv, TypeOK
  <2>3. Found[Asked.key] = original[Asked.key] /\ Found # None
    BY <1>1, <1>2, <2>1, <2>2, FoundIsOriginal
  <2>4. test'.previous = original[Asked.key]
    BY <2>1, <2>3 DEF Fresh
  <2> QED
    BY <1>1, <1>2, <1>3, <1>5, <1>7, <1>8, <1>9, <2>4, UntouchedStep DEF w
<1>10. CASE pc' = "next"
  <2>1. outcome' = "ignored"
    BY <1>10 DEF Write, Goto
  <2> QED
    BY <1>1, <1>2, <1>5, <1>7, <1>8, <1>10, <2>1, UntouchedStep
<1> QED
  BY <1>4, <1>9, <1>10

LEMMA UntouchedRestore ==
    ASSUME TypeInv, UntouchedInv, Restore
    PROVE  UntouchedInv'
<1> SUFFICES ASSUME ~excused' PROVE UntouchedInv'
  BY DEF UntouchedInv
<1>1. /\ pc = "restore" /\ UNCHANGED <<stream, merged, known, plan, n, original>>
      /\ pc' \in {"confirm", "next"}
  BY DEF Restore, watcher, Goto
<1>2. ~excused
  BY DEF Restore, Excuse
<1> DEFINE k == Asked.key
<1>3. /\ k \in Keys /\ Asked.value \in Nat /\ test.previous = original[k]
      /\ panel \in {original, [original EXCEPT ![k] = Limited(Asked.value)]}
      /\ original \in Documents
  BY <1>1, <1>2, PlanTyped DEF UntouchedInv, TypeInv, TypeOK
<1>4. original[k] \in 0..Top /\ original[k] # None /\ Limited(original[k]) = original[k]
  <2>1. original[k] \in 0..Top /\ Top \in Nat /\ None \notin 0..Top
    BY <1>3, WriteTestAssumption DEF Documents
  <2> QED
    BY <2>1 DEF Limited
<1>5. Likenesses \subseteq Likenesses'
  BY <1>1, TriedGrows DEF Busy
<1>6. original \in Likenesses /\ original \in Likenesses'
  BY <1>1, OriginalIsLike
<1>7. panel' = original /\ (air' = air \/ air' = Announced(panel'))
  <2>1. CASE ~Restores
    <3>1. original[k] = Asked.value
      BY <1>3, <1>4, <2>1 DEF Restores
    <3>2. [original EXCEPT ![k] = Limited(Asked.value)] = original
      BY <1>3, <1>4, <3>1 DEF Documents
    <3>3. panel' = panel /\ air' = air
      BY <2>1 DEF Restore
    <3> QED
      BY <1>3, <3>2, <3>3
  <2>2. CASE Restores
    <3>1. panel' = [panel EXCEPT ![k] = Limited(test.previous)] /\ air' = Announced(panel')
      BY <2>2 DEF Restore, Excuse
    <3>2. panel' = original
      BY <1>3, <1>4, <3>1 DEF Documents
    <3> QED
      BY <3>1, <3>2
  <2> QED
    BY <2>1, <2>2
<1>8. panel \in Likenesses'
  <2>1. k \in Tried
    <3>1. n \in 1..Len(plan)
      BY <1>1, PlanTyped
    <3> QED
      BY <1>1, <3>1 DEF Tried, Busy, Asked
  <2>2. Limited(Asked.value) \in 0..Top
    BY <1>3, LimitedTyped
  <2>3. panel \in Documents /\ \A j \in Keys \ Tried : panel[j] = original[j]
    BY <1>3, <2>1, <2>2 DEF Documents, TypeInv, TypeOK
  <2> QED
    BY <1>5, <2>3 DEF Likenesses
<1> QED
  BY <1>1, <1>2, <1>5, <1>6, <1>7, <1>8, UntouchedStep

LEMMA UntouchedInvStep == TypeInv /\ CurrentInv /\ UntouchedInv /\ [Next]_vars => UntouchedInv'
<1> SUFFICES ASSUME TypeInv, CurrentInv, UntouchedInv, [Next]_vars PROVE UntouchedInv'
  OBVIOUS
<1>1. ASSUME NEW k \in Touched, NEW v \in 0..Top, Touch(k, v) PROVE UntouchedInv'
  BY <1>1 DEF Touch, Excuse, UntouchedInv
\* The steps that leave the window as it is, outside a test.
<1>2. ASSUME pc \notin {"echo", "restore"}, pc' \notin {"echo", "restore"},
             UNCHANGED <<panel, merged, plan, original, excused>>,
             stream' = stream \/ stream' = Empty, known' \in {known, panel, None},
             air' \in {air, <<>>} \/ air' = Announced(panel),
             \/ n' = n /\ (pc \in Busy => pc' \in Busy)
             \/ n' = n + 1 /\ pc = "next"
      PROVE  UntouchedInv'
  <2> SUFFICES ASSUME ~excused PROVE UntouchedInv'
    BY <1>2 DEF UntouchedInv
  <2>1. panel = original
    BY <1>2 DEF UntouchedInv
  <2>2. Likenesses \subseteq Likenesses' /\ original \in Likenesses'
    BY <1>2, TriedGrows, OriginalIsLike
  <2> QED
    BY <1>2, <2>1, <2>2, UntouchedStep
<1>3. CASE Connect \/ Subscribe \/ ReadDocument \/ Provoke \/ Provoked \/ Stop
  <2>1. /\ pc \in {"connect", "start", "gatt", "provoke", "provoked", "stop"}
        /\ pc' \in {"start", "done", "gatt", "provoke", "provoked", "write"}
        /\ UNCHANGED <<panel, merged, plan, n, original, excused>>
    BY <1>3 DEF Connect, Subscribe, ReadDocument, Provoke, Provoked, Take, Stop, Goto, Keep,
                window, watcher, history
  <2>2. /\ stream' = stream \/ stream' = Empty
        /\ known' \in {known, panel, None}
        /\ air' \in {air, <<>>} \/ air' = Announced(panel)
    BY <1>3 DEF Connect, Subscribe, ReadDocument, Provoke, Provoked, Take, Stop, Unlistened,
                MayFind, Readings, window, watcher
  <2> QED
    BY <1>2, <2>1, <2>2 DEF Busy
<1>4. CASE Confirm \/ NextTest
  <2>1. /\ pc \in {"confirm", "next"} /\ pc' \notin {"echo", "restore"}
        /\ UNCHANGED <<panel, air, stream, merged, known, plan, original, excused>>
        /\ \/ n' = n /\ (pc \in Busy => pc' \in Busy)
           \/ n' = n + 1 /\ pc = "next"
    BY <1>4 DEF Confirm, Take, NextTest, Goto, Busy, window, watcher, history
  <2> QED
    BY <1>2, <2>1
<1>5. CASE TimesOut /\ pc # "echo"
  <2>1. /\ pc \in {"provoked", "confirm"} /\ pc' = (IF pc = "provoked" THEN "write" ELSE "next")
        /\ UNCHANGED <<panel, air, stream, merged, known, plan, n, original, excused>>
    BY <1>5 DEF TimesOut, Waiting, window, watcher, history
  <2> QED
    BY <1>2, <2>1 DEF Busy
<1>6. CASE Echo \/ (TimesOut /\ pc = "echo")
  <2>1. /\ pc = "echo" /\ pc' \in {"echo", "restore"}
        /\ UNCHANGED <<panel, air, stream, merged, known, plan, n, original, excused>>
    BY <1>6 DEF Echo, Take, TimesOut, Goto, window, watcher, history
  <2>2. test'.previous = test.previous
    <3>1. \/ test' = test
          \/ \E x : test' = [test EXCEPT !.verdict = x]
      BY <1>6 DEF Echo, Take, TimesOut
    <3> QED
      BY <3>1 DEF TypeInv, TypeOK
  <2>3. Likenesses' = Likenesses /\ Asked' = Asked
    BY <2>1 DEF Likenesses, Tried, Busy, Asked
  <2> QED
    BY <2>1, <2>2, <2>3 DEF UntouchedInv
<1>7. CASE UNCHANGED vars
  BY <1>7 DEF vars, window, watcher, tool, history, UntouchedInv, Likenesses, Tried, Asked
<1> QED
  BY <1>1, <1>3, <1>4, <1>5, <1>6, <1>7, UntouchedReceive, UntouchedWrite, UntouchedRestore
     DEF Next, Steps

\* Whatever documents are cut, lost, garbled or held up, and however late or
\* absent the echoes are: a window that nobody else touched, that took every write
\* back and was not written to behind a failure, is left as it was found, provided
\* a setting tested again was tested with nothing of the first test still under
\* way (atmoph_diag.py:302, _run_write_test), given that the limit of the stream
\* has room for a document.
THEOREM PutsBackAlways == MaxSize >= 9 /\ Spec => []PutsBack
<1>1. Init => SyncInv /\ CurrentInv /\ UntouchedInv
  <2> SUFFICES ASSUME Init PROVE SyncInv /\ CurrentInv /\ UntouchedInv
    OBVIOUS
  <2>1. SyncInv /\ CurrentInv
    BY DEF Init, SyncInv, CurrentInv
  <2>2. PICK L : L = Likenesses
    OBVIOUS
  <2>3. air \in Seq(L) /\ stream \in Holding(L)
    BY EmptyHolds DEF Init
  <2>4. UntouchedInv
    BY <2>2, <2>3 DEF Init, UntouchedInv
  <2> QED
    BY <2>1, <2>4
<1>2. Spec => []TypeInv
  BY TypeInit, TypeStep, PTL DEF Spec
<1>3. UntouchedInv => PutsBack
  BY DEF UntouchedInv, PutsBack
<1> SUFFICES ASSUME MaxSize >= 9 PROVE Spec => []PutsBack
  OBVIOUS
<1>4. TypeInv /\ SyncInv /\ CurrentInv /\ UntouchedInv /\ [Next]_vars
        => SyncInv' /\ CurrentInv' /\ UntouchedInv'
  BY SyncStep, CurrentStep, UntouchedInvStep
<1> QED
  BY <1>1, <1>2, <1>3, <1>4, PTL DEF Spec
=============================================================================
