--------------------------- MODULE SessionProofs ---------------------------
(***************************************************************************)
(* What Session's run shows for two windows, proved for any number of      *)
(* them: an entry that knows its window's UUID neither writes to another   *)
(* window nor publishes what one said, as long as others give their UUIDs; *)
(* and the power a connection publishes was told to that very connection.  *)
(***************************************************************************)
EXTENDS Session, TLAPS

LEMMA ReadTyped ==
    ASSUME NEW s \in States, NEW w \in Windows, NEW f \in Fields,
           NEW a \in Possible[f], powers \subseteq Powers
    PROVE  ApplyRead(s, w, f, a) \in States /\ Heard(f, a) \subseteq Powers
<1> USE DEF States, Texts, Fields, Possible
<1>1. CASE f = "identity"
  BY <1>1 DEF ApplyRead, ApplyIdentity, Heard
<1>2. CASE f = "title"
  BY <1>2 DEF ApplyRead, ApplyTitle, Heard
<1>3. CASE f = "power"
  BY <1>3 DEF ApplyRead, ApplyPowerRead, Heard
<1>4. CASE f = "viewid"
  BY <1>4 DEF ApplyRead, ApplyViewId, Heard
<1> QED
  BY <1>1, <1>2, <1>3, <1>4

LEMMA NotifiedTyped ==
    ASSUME NEW s \in States, NEW w \in Windows, NEW f \in Fields \ {"identity"},
           NEW a \in Possible[f], powers \subseteq Powers
    PROVE  ApplyNotified(s, w, f, a) \in States /\ Heard(f, a) \subseteq Powers
<1> USE DEF States, Texts, Fields, Possible
<1>1. CASE f = "title"
  BY <1>1 DEF ApplyNotified, ApplyTitle, Heard
<1>2. CASE f = "power"
  BY <1>2 DEF ApplyNotified, ApplyPower, Heard
<1>3. CASE f = "viewid"
  BY <1>3 DEF ApplyNotified, ApplyViewId, Heard
<1> QED
  BY <1>1, <1>2, <1>3

\* What a window answers is possible for what it is asked.
LEMMA AnswerPossible ==
    ASSUME TypeOK, NEW w \in Windows, NEW f \in Fields
    PROVE  MayAnswer(w, f) \subseteq Possible[f]
BY SessionAssumption DEF TypeOK, MayAnswer, Possible, Fields

\* The part of TypeOK that HangUp and Proceed decide.
Connected ==
    /\ link \in Windows \cup {None} /\ phase \in Phases
    /\ (link = None) <=> (phase = "down")
    /\ lost \in BOOLEAN
    /\ job \in Jobs
    /\ state \in States /\ data \in States \cup {None, Live}
    /\ available \in BOOLEAN
    /\ available => data # None
    /\ wire \in Seq(Notices)

LEMMA BlankTyped == Blank \in States
BY DEF Blank, States

LEMMA InitAvailable ==
    Init => lost \in BOOLEAN /\ available \in BOOLEAN /\ (available => data # None)
BY Zenon DEF Init

\* A connection that is left: what stays available stays published.
LEMMA LeaveTyped ==
    ASSUME TypeOK, NEW d \in States \cup {None}, Leave(d), NEW a \in BOOLEAN,
           available' = a, a => d # None, lost' \in BOOLEAN
    PROVE  Connected'
<1>1. available' \in BOOLEAN /\ (available' => data' # None)
  BY Zenon DEF Leave
<1>2. lost' \in BOOLEAN
  BY Zenon
<1> QED
  BY <1>1, <1>2, BlankTyped DEF TypeOK, Leave, Connected, Phases, Jobs

LEMMA LeftTyped ==
    ASSUME TypeOK, NEW s \in States
    PROVE  /\ Left(s) \in States \cup {None}
           /\ data # None => Left(s) # None
BY SessionAssumption DEF TypeOK, Left

LEMMA HangUpTyped ==
    ASSUME TypeOK, NEW s \in States, HangUp(Left(s))
    PROVE  Connected'
<1> DEFINE a == IF job = "update" THEN FALSE ELSE available
<1>1. available \in BOOLEAN /\ (available => data # None)
  BY Zenon DEF TypeOK
<1>2. a \in BOOLEAN /\ (a => data # None)
  BY <1>1, Zenon
<1>3. available' = a /\ Leave(Left(s))
  BY Zenon DEF HangUp
<1>4. lost' \in BOOLEAN
  BY Zenon DEF HangUp
<1> HIDE DEF a
<1> QED
  BY <1>2, <1>3, <1>4, LeftTyped, LeaveTyped

LEMMA ProceedTyped ==
    ASSUME TypeOK, NEW p \in Phases \ {"down"}, NEW s \in States,
           Proceed(p, s), phase # "down", Publish \/ Withhold
    PROVE  Connected'
<1>1. CASE Publish
  <2>1. data' # None
    BY <1>1, SessionAssumption DEF Publish
  <2>2. available' \in BOOLEAN /\ (available' => data' # None)
    BY <1>1, <2>1, Zenon DEF Publish
  <2> QED
    BY <1>1, <2>2, SessionAssumption DEF TypeOK, Proceed, Publish, Connected, Jobs
<1>2. CASE Withhold
  <2>1. available' \in BOOLEAN /\ (available' => data' # None)
    BY <1>2, Zenon DEF TypeOK, Withhold
  <2> QED
    BY <1>2, <2>1, SessionAssumption DEF TypeOK, Proceed, Withhold, Connected, Jobs
<1> QED
  BY <1>1, <1>2

LEMMA RaiseTyped ==
    ASSUME TypeOK, NEW s \in States, Raise(s), phase # "down"
    PROVE  Connected'
<1>1. CASE HangUp(Left(s))
  BY <1>1, HangUpTyped
<1>2. CASE Proceed("idle", s) /\ Withhold
  BY <1>2, ProceedTyped DEF Phases
<1> QED
  BY <1>1, <1>2 DEF Raise

LEMMA FinishTyped ==
    ASSUME TypeOK, NEW s \in States, Finish(s)
    PROVE  Connected'
<1>1. CASE HangUp(Left(s))
  BY <1>1, HangUpTyped
<1>2. CASE phase = "init" /\ Proceed("greet", s) /\ Withhold
  BY <1>2, ProceedTyped DEF Phases
<1>3. CASE phase = "refresh" /\ Proceed("idle", s) /\ Publish
  BY <1>3, ProceedTyped DEF Phases
<1> QED
  BY <1>1, <1>2, <1>3 DEF Finish

LEMMA FaultTyped ==
    ASSUME TypeOK, Fault \/ UNCHANGED faults
    PROVE  faults' \in 0..MaxFaults
BY SessionAssumption DEF TypeOK, Fault

LEMMA ShortSequences ==
    ASSUME NEW S, NEW n \in S
    PROVE  <<>> \in Seq(S) /\ << n >> \in Seq(S)
OBVIOUS

LEMMA TellTyped ==
    ASSUME TypeOK, NEW w \in Windows, NEW f \in Fields \ {"identity"},
           NEW a \in Possible[f], NEW more \in Seq(Notices),
           "garbled" \in Possible[f], Tell(w, f, a, more)
    PROVE  wire' \in Seq(Notices) /\ faults' \in 0..MaxFaults
<1>1. CASE UNCHANGED <<wire, faults>>
  BY <1>1 DEF TypeOK
<1>2. ASSUME NEW b \in {a, "garbled", "empty"},
             wire' = wire \o (IF b = "empty" THEN <<>> ELSE << <<f, b>> >>) \o more,
             IF b = a THEN UNCHANGED faults ELSE Fault
      PROVE  wire' \in Seq(Notices) /\ faults' \in 0..MaxFaults
  <2>1. b # "empty" => <<f, b>> \in Notices
    BY DEF Notices, Possible, Fields, Answers
  <2>2. (IF b = "empty" THEN <<>> ELSE << <<f, b>> >>) \in Seq(Notices)
    BY <2>1
  <2>3. wire' \in Seq(Notices)
    BY <1>2, <2>2 DEF TypeOK
  <2> QED
    BY <1>2, <2>3, FaultTyped
<1> QED
  BY <1>1, <1>2 DEF Tell

\* A lost link leaves what was published of it, available or not.
LEMMA DropLeaves ==
    ASSUME TypeOK, Drop
    PROVE  /\ phase # "down" /\ field' = "identity" /\ reply' = None
           /\ UNCHANGED <<truth, powers, changes, calls>> /\ faults' \in 0..MaxFaults
           /\ lost' \in BOOLEAN
           /\ \/ /\ phase = "refresh" /\ available' = TRUE
                 /\ Leave([state EXCEPT !.supported = "no"])
              \/ /\ available' \in {FALSE, available, data = Live}
                 /\ Leave(Left(state))
<1>1. /\ phase # "down" /\ field' = "identity" /\ reply' = None
      /\ UNCHANGED <<truth, powers, changes, calls>> /\ faults' \in 0..MaxFaults
  BY FaultTyped DEF Drop
<1>2. DropSwallowed \/ DropUnheeded \/ DropUpdating \/ DropConnecting
  BY Zenon DEF Drop
<1>3. lost' \in BOOLEAN
  BY <1>2, Zenon DEF DropSwallowed, DropUnheeded, DropUpdating, DropConnecting
<1>4. CASE DropSwallowed
  BY <1>1, <1>3, <1>4 DEF DropSwallowed
<1>5. CASE DropUnheeded \/ DropUpdating \/ DropConnecting
  <2>1. available' \in {FALSE, available, data = Live} /\ Leave(Left(state))
    BY <1>5, Zenon DEF DropUnheeded, DropUpdating, DropConnecting
  <2> QED
    BY <1>1, <1>3, <2>1
<1> QED
  BY <1>2, <1>4, <1>5

LEMMA DropTyped ==
    ASSUME TypeOK, Drop
    PROVE  Connected'
<1>1. lost' \in BOOLEAN
  BY DropLeaves
<1>2. CASE available' = TRUE /\ Leave([state EXCEPT !.supported = "no"])
  <2>1. [state EXCEPT !.supported = "no"] \in States \ {None}
    BY SessionAssumption DEF TypeOK, States
  <2> QED
    BY <1>1, <1>2, <2>1, LeaveTyped, Zenon
<1>3. CASE available' \in {FALSE, available, data = Live} /\ Leave(Left(state))
  <2>1. Left(state) \in States \cup {None} /\ (data # None => Left(state) # None)
    BY LeftTyped DEF TypeOK
  <2>2. PICK a \in {FALSE, available, data = Live} : available' = a
    BY <1>3
  <2>3. a \in BOOLEAN /\ (a => data # None)
    <3>1. available \in BOOLEAN /\ (available => data # None)
      BY Zenon DEF TypeOK
    <3>2. data = Live => data # None
      BY SessionAssumption
    <3> QED
      BY <3>1, <3>2, Zenon
  <2>4. a => Left(state) # None
    BY <2>1, <2>3, Zenon
  <2> QED
    BY <1>1, <1>3, <2>1, <2>2, <2>3, <2>4, LeaveTyped, Zenon
<1> QED
  BY <1>2, <1>3, DropLeaves

\* Only a connection whose window is known is published.
\* set_power reads nothing but the power.
LiveInv == /\ data = Live => Attached
           /\ phase \in {"look", "poll"} => field = "power"

LEMMA LiveStep == TypeOK /\ LiveInv /\ [Next]_vars => LiveInv'
<1> SUFFICES ASSUME TypeOK, LiveInv, [Next]_vars PROVE LiveInv'
  OBVIOUS
<1> USE SessionAssumption
    DEF LiveInv, Attached, Left, Leave, HangUp, Proceed, Publish, Withhold
<1>1. ASSUME NEW w \in Windows, NEW j \in Jobs, Dial(w, j)
      PROVE  LiveInv'
  BY <1>1 DEF Dial, Kept
<1>2. ASSUME NEW s \in States, Raise(s), Reading PROVE LiveInv'
  BY <1>2 DEF Raise, Reading, Refreshing, TypeOK
<1>3. ASSUME NEW s \in States, Finish(s) PROVE LiveInv'
  BY <1>3 DEF Finish
<1>4. CASE Apply
  <2> DEFINE s == ApplyRead(state, link, field, reply)
  <2>1. s \in States
    BY <1>4, ReadTyped DEF Apply, Refreshing, TypeOK
  <2> HIDE DEF s
  <2>2. Raise(s) \/ Finish(s) \/ (Proceed(phase, s) /\ Withhold)
    BY <1>4 DEF Apply, s
  <2> QED
    BY <1>2, <1>3, <1>4, <2>1, <2>2 DEF Apply, Reading, Refreshing
<1>5. CASE ReadFails
  BY <1>2, <1>5 DEF ReadFails, TypeOK
<1>6. CASE Greeted \/ GreetFails \/ Looked \/ Written \/ Polled \/ WriteFails
  BY <1>6 DEF Greeted, GreetFails, Looked, Written, Polled, WriteFails, TypeOK,
              First, FirstField, Jobs
<1>7. CASE Drop \/ Mark \/ Reload
  <2>1. [state EXCEPT !.supported = "no"] \in States
    BY DEF TypeOK, States
  <2>2. CASE Drop
    <3>1. phase' = "down" /\ data' \in States \cup {None}
      <4>1. Left(state) \in States \cup {None}
        BY LeftTyped DEF TypeOK
      <4> QED
        BY <2>1, <2>2, <4>1, DropLeaves
    <3> QED
      BY <3>1
  <2>3. CASE Mark
    BY <2>3 DEF Mark
  <2>4. CASE Reload
    BY <2>4 DEF Reload
  <2> QED
    BY <1>7, <2>2, <2>3, <2>4
<1>8. ASSUME NEW j \in Calls, Poll \/ Call(j) PROVE LiveInv'
  BY <1>8 DEF Poll, Call, knowledge, First, FirstField, Calls, Jobs
<1>9. CASE Answer \/ Notification
  BY <1>9 DEF Answer, Notification, knowledge, conn
<1>10. ASSUME NEW w \in Windows, ChangeView(w) \/ ChangePower(w) PROVE LiveInv'
  BY <1>10 DEF ChangeView, ChangePower, knowledge, conn
<1>11. CASE UNCHANGED vars
  BY <1>11 DEF vars, knowledge, conn
<1> QED
  BY <1>1, <1>4, <1>5, <1>6, <1>7, <1>8, <1>9, <1>10, <1>11
     DEF Next, Calls, Jobs

LEMMA Typing == TypeOK /\ LiveInv /\ [Next]_vars => TypeOK'
<1> SUFFICES ASSUME TypeOK, LiveInv, [Next]_vars PROVE TypeOK'
  OBVIOUS
<1> USE SessionAssumption
<1>1. ASSUME NEW w \in Windows, NEW j \in Jobs, Dial(w, j)
      PROVE  TypeOK'
  <2>1. state' \in States
    BY <1>1, BlankTyped DEF Dial, TypeOK, LiveInv, Attached
  <2>2. faults' \in 0..MaxFaults
    BY <1>1, FaultTyped DEF Dial
  <2>3. lost' \in BOOLEAN /\ available' \in BOOLEAN /\ (available' => data' # None)
    BY <1>1, Zenon DEF Dial, Kept, TypeOK
  <2> QED
    BY <1>1, <2>1, <2>2, <2>3 DEF Dial, TypeOK, Kept, Phases, Fields
<1>2. CASE Answer
  <2>1. PICK a \in MayAnswer(link, field) :
           reply' = a /\ (Fault \/ UNCHANGED faults)
    BY <1>2 DEF Answer
  <2>2. link \in Windows /\ field \in Fields
    BY <1>2 DEF Answer, Reading, Refreshing, TypeOK
  <2>3. a \in Possible[field]
    BY <2>1, <2>2, AnswerPossible
  <2>4. faults' \in 0..MaxFaults
    BY <2>1, FaultTyped
  <2> QED
    BY <1>2, <2>1, <2>3, <2>4 DEF Answer, TypeOK, knowledge
<1>3. CASE Apply
  <2> DEFINE s == ApplyRead(state, link, field, reply)
  <2>1. link \in Windows /\ reply \in Possible[field] /\ phase # "down"
    BY <1>3 DEF Apply, Refreshing, TypeOK
  <2>2. s \in States /\ Heard(field, reply) \subseteq Powers
    BY <2>1, ReadTyped DEF TypeOK
  <2> HIDE DEF s
  <2>3. Connected' /\ field' \in Fields
    <3>1. CASE Raise(s) /\ field' = "identity"
      BY <3>1, <2>1, <2>2, RaiseTyped DEF Fields
    <3>2. CASE Finish(s) /\ field' = "identity"
      BY <3>2, <2>2, FinishTyped DEF Fields
    <3>3. CASE /\ Proceed(phase, s) /\ Withhold
               /\ After[field] # "done" /\ field' = After[field]
      BY <3>3, <2>1, <2>2, ProceedTyped DEF Fields, After, TypeOK
    <3> QED
      BY <1>3, <3>1, <3>2, <3>3 DEF Apply, s
  <2> QED
    BY <1>3, <2>2, <2>3 DEF Apply, TypeOK, Connected, counts
<1>4. CASE ReadFails
  <2>1. phase # "down" /\ state \in States
    BY <1>4 DEF ReadFails, Reading, Refreshing, TypeOK
  <2>2. Connected' /\ field' \in Fields /\ reply' \in Possible[field'] \cup {None}
    <3>1. CASE field = "viewid"
      BY <1>4, <2>1, <3>1, ProceedTyped DEF ReadFails, TypeOK, Possible
    <3>2. CASE field # "viewid"
      BY <1>4, <2>1, <3>2, RaiseTyped DEF ReadFails, Fields
    <3> QED
      BY <3>1, <3>2
  <2> QED
    BY <1>4, <2>2, FaultTyped DEF ReadFails, TypeOK, Connected
<1>5. CASE Greeted \/ Written \/ WriteFails
  <2>1. First(job) \in Phases \ {"down"} /\ FirstField(job) \in Fields
    BY DEF First, FirstField, Phases, Fields
  <2>2. Connected'
    BY <1>5, <2>1, ProceedTyped DEF Greeted, Written, WriteFails, TypeOK, Phases
  <2>3. field' \in Fields
    BY <1>5, <2>1 DEF Greeted, Written, WriteFails, TypeOK, Fields
  <2>4. reply' \in Possible[field'] \cup {None}
    BY <1>5 DEF Greeted, Written, WriteFails, TypeOK
  <2> QED
    BY <1>5, <2>2, <2>3, <2>4, FaultTyped
       DEF Greeted, Written, WriteFails, TypeOK, Connected, counts
<1>6. CASE GreetFails
  <2>1. Connected'
    BY <1>6, HangUpTyped DEF GreetFails, TypeOK
  <2> QED
    BY <1>6, <2>1, FaultTyped DEF GreetFails, TypeOK, Connected, Fields
<1>11. CASE Drop
  BY <1>11, DropLeaves, DropTyped DEF TypeOK, Connected, Fields
<1>12. CASE Mark
  BY <1>12 DEF Mark, TypeOK, counts
<1>13. CASE Reload
  <2>1. Connected'
    BY <1>13, LeaveTyped, Zenon DEF Reload
  <2> QED
    BY <1>13, <2>1, FaultTyped DEF Reload, TypeOK, Connected, Fields
<1>14. CASE Looked
  <2> DEFINE s == ApplyPowerRead(state, reply)
  <2>1. s \in States /\ Heard("power", reply) \subseteq Powers
    <3>1. reply \in Powers \cup {"garbled"} /\ state \in States /\ powers \subseteq Powers
      BY <1>14 DEF Looked, LiveInv, TypeOK, Possible, Fields
    <3> QED
      BY <3>1 DEF ApplyPowerRead, Heard, States
  <2> HIDE DEF s
  <2>2. Connected'
    BY <1>14, <2>1, ProceedTyped DEF Looked, Phases, s
  <2> QED
    BY <1>14, <2>1, <2>2 DEF Looked, TypeOK, Connected, Fields, counts
<1>15. CASE Polled
  <2> DEFINE s == ApplyPower(state, reply)
  <2>1. s \in States /\ Heard("power", reply) \subseteq Powers
    <3>1. reply \in Powers \cup {"garbled"} /\ state \in States /\ powers \subseteq Powers
      BY <1>15 DEF Polled, LiveInv, TypeOK, Possible, Fields
    <3> QED
      BY <3>1 DEF ApplyPower, Heard, States
  <2> HIDE DEF s
  <2>2. Connected'
    BY <1>15, <2>1, ProceedTyped DEF Polled, Phases, s
  <2> QED
    BY <1>15, <2>1, <2>2 DEF Polled, TypeOK, Connected, Fields, counts
<1>7. ASSUME NEW j \in Calls, Poll \/ Call(j) PROVE TypeOK'
  BY <1>7 DEF Poll, Call, TypeOK, knowledge, counts, Phases, First, FirstField, Fields,
              Calls, Jobs
<1>8. CASE Notification
  <2>1. wire[1] \in Notices /\ Tail(wire) \in Seq(Notices)
    BY <1>8 DEF Notification, TypeOK
  <2>2. /\ wire[1][1] \in Fields \ {"identity"}
        /\ wire[1][2] \in Possible[wire[1][1]]
    BY <2>1 DEF Notices
  <2>3. link \in Windows
    BY <1>8 DEF Notification, TypeOK
  <2>4. /\ ApplyNotified(state, link, wire[1][1], wire[1][2]) \in States
        /\ Heard(wire[1][1], wire[1][2]) \subseteq Powers
    BY <2>2, <2>3, NotifiedTyped DEF TypeOK
  <2> QED
    BY <1>8, <2>1, <2>4 DEF Notification, TypeOK, Publish, Withhold, conn, counts
<1>9. ASSUME NEW w \in Windows, ChangeView(w) \/ ChangePower(w) PROVE TypeOK'
  <2> DEFINE told == /\ truth' \in [Windows -> [view : Views, power : Powers]]
                     /\ wire' \in Seq(Notices) /\ faults' \in 0..MaxFaults
  <2>1. told
    <3>1. ASSUME NEW v \in Views, NEW more \in {<<>>, << <<"viewid", v>> >>},
                 truth' = [truth EXCEPT ![w].view = v], Tell(w, "title", v, more)
          PROVE  told
      <4>1. <<"viewid", v>> \in Notices
        BY DEF Notices, Possible, Fields, Answers
      <4>2. <<>> \in Seq(Notices) /\ << <<"viewid", v>> >> \in Seq(Notices)
        BY <4>1, ShortSequences, Zenon
      <4>3. more \in Seq(Notices)
        BY <4>2, Zenon
      <4> QED
        BY <3>1, <4>3, TellTyped DEF TypeOK, Fields, Possible
    <3>2. ASSUME NEW q \in Powers, truth' = [truth EXCEPT ![w].power = q],
                 Tell(w, "power", q, <<>>)
          PROVE  told
      <4>1. <<>> \in Seq(Notices)
        OBVIOUS
      <4>2. wire' \in Seq(Notices) /\ faults' \in 0..MaxFaults
        BY <3>2, <4>1, TellTyped DEF Fields, Possible
      <4> QED
        BY <3>2, <4>2 DEF TypeOK
    <3> QED
      BY <1>9, <3>1, <3>2 DEF ChangeView, ChangePower
  <2> QED
    BY <1>9, <2>1 DEF ChangeView, ChangePower, TypeOK, conn, knowledge
<1>10. CASE UNCHANGED vars
  BY <1>10 DEF vars, TypeOK, conn, knowledge, counts
<1> QED
  BY <1>1, <1>2, <1>3, <1>4, <1>5, <1>6, <1>7, <1>8, <1>9, <1>10, <1>11, <1>12, <1>13,
     <1>14, <1>15
     DEF Next, Calls, Jobs

\* Every reachable state of a session is well formed (client.py, protocol.py).
THEOREM TypeCorrect == Spec => []TypeOK
<1>1. Init => TypeOK /\ LiveInv
  BY SessionAssumption, BlankTyped, InitAvailable
     DEF Init, Jobs, TypeOK, LiveInv, Phases, Fields
<1> QED
  BY <1>1, Typing, LiveStep, PTL DEF Spec

-----------------------------------------------------------------------------
\* Of a read, only the identity touches the UUID, and the window's own texts
\* are all that is added.
LEMMA ReadOwn ==
    ASSUME NEW s \in States, NEW f \in Fields, NEW a \in Possible[f],
           Stored \in Windows, Own(s)
    PROVE  Own(ApplyRead(s, Stored, f, a))
<1> USE DEF States, Own, Fields, Possible
<1>1. CASE f = "identity"
  BY <1>1 DEF ApplyRead, ApplyIdentity
<1>2. CASE f = "title"
  BY <1>2 DEF ApplyRead, ApplyTitle
<1>3. CASE f = "power"
  BY <1>3 DEF ApplyRead, ApplyPowerRead
<1>4. CASE f = "viewid"
  BY <1>4 DEF ApplyRead, ApplyViewId
<1> QED
  BY <1>1, <1>2, <1>3, <1>4

LEMMA NotifiedOwn ==
    ASSUME NEW s \in States, NEW f \in Fields \ {"identity"}, NEW a \in Possible[f],
           Stored \in Windows, Own(s)
    PROVE  Own(ApplyNotified(s, Stored, f, a))
<1> USE DEF States, Own, Fields, Possible
<1>1. CASE f = "title"
  BY <1>1 DEF ApplyNotified, ApplyTitle
<1>2. CASE f = "power"
  BY <1>2 DEF ApplyNotified, ApplyPower
<1>3. CASE f = "viewid"
  BY <1>3 DEF ApplyNotified, ApplyViewId
<1> QED
  BY <1>1, <1>2, <1>3

LEMMA ReadUuid ==
    ASSUME NEW s \in States, NEW w \in Windows, NEW f \in Fields, NEW a \in Possible[f]
    PROVE  /\ f = "identity" /\ a = "own" => ApplyRead(s, w, f, a).uuid = w
           /\ f # "identity" => ApplyRead(s, w, f, a).uuid = s.uuid
BY DEF States, Fields, Possible, ApplyRead, ApplyIdentity, ApplyTitle,
       ApplyPowerRead, ApplyViewId

LEMMA NotifiedUuid ==
    ASSUME NEW s \in States, NEW w \in Windows, NEW f \in Fields \ {"identity"},
           NEW a \in Possible[f]
    PROVE  ApplyNotified(s, w, f, a).uuid = s.uuid
BY DEF States, Fields, Possible, ApplyNotified, ApplyTitle, ApplyPower, ApplyViewId

LEMMA OwnStep ==
    Honest /\ TypeOK /\ LiveInv /\ OwnInv /\ [Next]_vars => OwnInv'
<1> SUFFICES ASSUME Honest, TypeOK, LiveInv, OwnInv, [Next]_vars, Stored # None
             PROVE  OwnInv'
  BY DEF OwnInv
<1> USE SessionAssumption
<1> DEFINE Later == Phases \ {"down", "init"}
<1>0. /\ Stored \in Windows /\ state \in States /\ data \in States \cup {None, Live}
      /\ None \notin States /\ Live \notin States /\ None \notin Windows
      /\ Own(Blank) /\ Blank \in States
  BY BlankTyped DEF TypeOK, Own, Blank
\* Hanging up leaves what was published of one's own, and nothing else.
<1>1. ASSUME NEW d \in States \cup {None}, d \in States => Own(d), Leave(d)
      PROVE  OwnInv'
  BY <1>0, <1>1 DEF OwnInv, Leave
<1>2. ASSUME NEW s \in States, link = Stored => Own(s)
      PROVE  Left(s) \in States \cup {None} /\ (Left(s) \in States => Own(Left(s)))
  BY <1>0, <1>2 DEF Left, LiveInv, Attached, OwnInv
\* Going on over a connection that has been checked.
<1>3. ASSUME NEW p \in Later, NEW s \in States, link = Stored, Own(s),
             Proceed(p, s), Publish \/ Withhold
      PROVE  OwnInv'
  BY <1>0, <1>3 DEF OwnInv, Proceed, Publish, Withhold
<1>4. ASSUME NEW s \in States, link = Stored => Own(s), Raise(s), Reading
      PROVE  OwnInv'
  <2>1. CASE HangUp(Left(s))
    BY <1>1, <1>2, <1>4, <2>1 DEF HangUp
  <2>2. CASE phase \notin {"down", "init"} /\ Proceed("idle", s) /\ Withhold
    <3>1. link = Stored /\ "idle" \in Later
      BY <2>2 DEF OwnInv, Phases
    <3> QED
      BY <1>3, <1>4, <2>2, <3>1
  <2> QED
    BY <1>4, <2>1, <2>2 DEF Raise, Reading, Refreshing
<1>5. ASSUME NEW s \in States, link = Stored => Own(s),
             phase = "init" /\ link # Stored => s.uuid = link, Finish(s)
      PROVE  OwnInv'
  <2>1. CASE HangUp(Left(s))
    BY <1>1, <1>2, <1>5, <2>1 DEF HangUp
  <2>2. CASE phase = "init" /\ ~Wrong(s) /\ Proceed("greet", s) /\ Withhold
    <3>1. link = Stored
      BY <1>0, <1>5, <2>2 DEF Wrong, TypeOK
    <3> QED
      BY <1>3, <1>5, <2>2, <3>1 DEF Phases
  <2>3. CASE phase = "refresh" /\ Proceed("idle", s) /\ Publish
    BY <1>3, <1>5, <2>3 DEF OwnInv, Phases
  <2> QED
    BY <1>5, <2>1, <2>2, <2>3 DEF Finish
<1>6. ASSUME NEW w \in Windows, NEW j \in Jobs, Dial(w, j)
      PROVE  OwnInv'
  <2>1. data # Live
    BY <1>6 DEF Dial, LiveInv, Attached
  <2> QED
    BY <1>0, <1>6, <2>1 DEF Dial, Kept, OwnInv
<1>7. CASE Answer
  <2>1. PICK a \in MayAnswer(link, field) : reply' = a
    BY <1>7 DEF Answer
  <2>2. link \in Windows
    BY <1>7 DEF Answer, Reading, Refreshing, TypeOK
  <2>3. link # Stored /\ field = "identity" => a = "own"
    BY <2>1, <2>2 DEF Honest, MayAnswer
  <2> QED
    BY <1>7, <2>1, <2>3 DEF Answer, OwnInv, knowledge
<1>8. CASE Apply
  <2> DEFINE s == ApplyRead(state, link, field, reply)
  <2>1. /\ Refreshing /\ link \in Windows /\ field \in Fields /\ reply \in Possible[field]
        /\ reply # None
    BY <1>8 DEF Apply, Refreshing, TypeOK
  <2>2. s \in States
    BY <1>0, <2>1, ReadTyped DEF TypeOK
  <2>3. link = Stored => Own(s)
    BY <1>0, <2>1, ReadOwn DEF OwnInv
  <2>4. phase = "init" /\ link # Stored => s.uuid = link
    BY <1>0, <2>1, ReadUuid DEF OwnInv
  <2> HIDE DEF s
  <2>5. CASE Raise(s)
    BY <1>4, <2>1, <2>2, <2>3, <2>5 DEF Reading
  <2>6. CASE Finish(s)
    BY <1>5, <2>2, <2>3, <2>4, <2>6
  <2>7. CASE /\ Proceed(phase, s) /\ Withhold
             /\ field' = After[field] /\ After[field] # "done"
    <3>1. CASE phase = "refresh"
      BY <1>3, <2>1, <2>2, <2>3, <2>7, <3>1 DEF OwnInv, Phases
    <3>2. CASE phase = "init"
      <4>1. field' # "identity"
        BY <2>1, <2>7 DEF After, Fields
      <4> QED
        BY <1>0, <2>3, <2>4, <2>7, <3>2, <4>1 DEF OwnInv, Proceed, Withhold
    <3> QED
      BY <2>1, <3>1, <3>2 DEF Reading, Refreshing
  <2> QED
    BY <1>8, <2>5, <2>6, <2>7 DEF Apply, s
<1>9. CASE ReadFails
  <2>1. CASE field = "viewid"
    BY <1>0, <1>9, <2>1 DEF ReadFails, Proceed, Withhold, OwnInv
  <2>2. CASE field # "viewid"
    BY <1>0, <1>4, <1>9, <2>2 DEF ReadFails, OwnInv
  <2> QED
    BY <2>1, <2>2
<1>10. CASE Greeted \/ Written \/ WriteFails
  <2>1. First(job) \in Later /\ {"idle", "poll"} \subseteq Later
    BY DEF First, Phases
  <2>2. link = Stored
    BY <1>10 DEF Greeted, Written, WriteFails, OwnInv
  <2>3. Own(state)
    BY <2>2 DEF OwnInv
  <2>4. Publish \/ Withhold
    BY <1>10, Zenon DEF Greeted, Written, WriteFails
  <2>5. \E p \in Later : Proceed(p, state)
    BY <1>10, <2>1 DEF Greeted, Written, WriteFails
  <2> QED
    BY <1>0, <1>3, <2>2, <2>3, <2>4, <2>5
<1>18. CASE Looked \/ Polled
  <2>1. link = Stored /\ {"idle", "write"} \subseteq Later
    BY <1>18 DEF Looked, Polled, OwnInv, Phases
  <2>2. reply \in Powers \cup {"garbled"} /\ Own(state)
    BY <1>18, <2>1 DEF Looked, Polled, LiveInv, TypeOK, Possible, Fields, OwnInv
  <2>3. Publish \/ Withhold
    BY <1>18, Zenon DEF Looked, Polled
  <2>4. \E p \in Later, s \in {ApplyPowerRead(state, reply), ApplyPower(state, reply)} :
            Proceed(p, s)
    BY <1>18, <2>1, Zenon DEF Looked, Polled
  <2>5. \A s \in {ApplyPowerRead(state, reply), ApplyPower(state, reply)} :
            s \in States /\ Own(s)
    BY <1>0, <2>2 DEF ApplyPowerRead, ApplyPower, States, Own
  <2> QED
    BY <1>3, <2>1, <2>3, <2>4, <2>5
<1>11. CASE GreetFails
  BY <1>0, <1>1, <1>2, <1>11 DEF GreetFails, HangUp, OwnInv
<1>12. CASE Drop
  <2> DEFINE s == [state EXCEPT !.supported = "no"]
  <2>1. s \in States /\ (link = Stored => Own(s))
    BY <1>0 DEF States, Own, OwnInv
  <2>2. phase = "refresh" => link = Stored
    BY DEF OwnInv
  <2>3. (Leave(s) /\ phase = "refresh") \/ Leave(Left(state))
    BY <1>12, DropLeaves
  <2>4. link = Stored => Own(state)
    BY DEF OwnInv
  <2> HIDE DEF s
  <2> QED
    BY <1>0, <1>1, <1>2, <2>1, <2>2, <2>3, <2>4
<1>13. CASE Reload
  BY <1>0, <1>1, <1>13 DEF Reload
<1>19. CASE Mark
  BY <1>19 DEF Mark, OwnInv
<1>14. ASSUME NEW j \in Calls, Poll \/ Call(j) PROVE OwnInv'
  BY <1>14 DEF Poll, Call, OwnInv, knowledge, First, Calls, Jobs
<1>15. CASE Notification
  <2> DEFINE s == ApplyNotified(state, link, wire[1][1], wire[1][2])
  <2>1. /\ link \in Windows /\ wire[1] \in Notices
    BY <1>15 DEF Notification, TypeOK
  <2>2. wire[1][1] \in Fields \ {"identity"} /\ wire[1][2] \in Possible[wire[1][1]]
    BY <2>1 DEF Notices
  <2>3. s \in States /\ s.uuid = state.uuid /\ (link = Stored => Own(s))
    BY <1>0, <2>1, <2>2, NotifiedTyped, NotifiedUuid, NotifiedOwn DEF OwnInv, TypeOK
  <2> HIDE DEF s
  <2>4. state' = s /\ UNCHANGED conn /\ (data' = Live \/ UNCHANGED data)
    BY <1>15 DEF Notification, Publish, Withhold, s
  <2> QED
    BY <1>0, <2>3, <2>4 DEF OwnInv, conn
<1>16. ASSUME NEW w \in Windows, ChangeView(w) \/ ChangePower(w) PROVE OwnInv'
  BY <1>16 DEF ChangeView, ChangePower, OwnInv, conn, knowledge
<1>17. CASE UNCHANGED vars
  BY <1>17 DEF vars, OwnInv, conn, knowledge
<1> QED
  BY <1>6, <1>7, <1>8, <1>9, <1>10, <1>11, <1>12, <1>13, <1>14, <1>15, <1>16, <1>17,
     <1>18, <1>19
     DEF Next, Calls, Jobs

LEMMA OwnAlways == Honest => (Spec => [](TypeOK /\ LiveInv /\ OwnInv))
<1> SUFFICES ASSUME Honest PROVE Spec => [](TypeOK /\ LiveInv /\ OwnInv)
  OBVIOUS
<1>1. Init => TypeOK /\ LiveInv /\ OwnInv
  BY SessionAssumption, BlankTyped, InitAvailable
     DEF Init, Jobs, TypeOK, LiveInv, OwnInv, Own, Blank, Phases, Fields
<1>2. /\ TypeOK /\ LiveInv /\ OwnInv
      /\ [Next]_vars
      => (TypeOK /\ LiveInv /\ OwnInv)'
  BY Typing, LiveStep, OwnStep
<1> QED
  BY <1>1, <1>2, PTL DEF Spec

\* As long as a foreign window gives its UUID, nothing is ever written to one
\* (client.py:129-132).
THEOREM OnlyOwnWindowAlways == Honest => (Spec => []OnlyOwnWindow)
<1>1. OwnInv => OnlyOwnWindow
  BY DEF OwnInv, OnlyOwnWindow
<1> QED
  BY <1>1, OwnAlways, PTL

\* Nor is anything published that one said (coordinator.py:194-199).
THEOREM OnlyOwnDataAlways == Honest => (Spec => []OnlyOwnData)
<1>1. TypeOK /\ LiveInv /\ OwnInv => OnlyOwnData
  BY SessionAssumption
     DEF TypeOK, LiveInv, Attached, OwnInv, OnlyOwnData, Own, Data
<1> QED
  BY <1>1, OwnAlways, PTL

-----------------------------------------------------------------------------
(* Where a published power comes from.                                     *)

\* Past its power read a connection's state has a power it was told itself, if
\* any, and only then is that state published.
PowerRead == \/ phase \in Phases \ {"down", "init"}
             \/ phase = "init" /\ field = "viewid"
HeardInv == PowerRead => state.power \in powers \cup {None}

\* A usable power is heard, an unusable one forgets the last; what is not a
\* power leaves it alone.
LEMMA ReadHeard ==
    ASSUME NEW s \in States, NEW w \in Windows, NEW f \in Fields, NEW a \in Possible[f],
           s.power \in powers \cup {None} \/ f = "power"
    PROVE  ApplyRead(s, w, f, a).power \in Heard(f, a) \cup {None}
<1> USE DEF States, Fields, Possible, Heard
<1>1. CASE f = "identity"
  BY <1>1 DEF ApplyRead, ApplyIdentity
<1>2. CASE f = "title"
  BY <1>2 DEF ApplyRead, ApplyTitle
<1>3. CASE f = "power"
  BY <1>3 DEF ApplyRead, ApplyPowerRead
<1>4. CASE f = "viewid"
  BY <1>4 DEF ApplyRead, ApplyViewId
<1> QED
  BY <1>1, <1>2, <1>3, <1>4

LEMMA NotifiedHeard ==
    ASSUME NEW s \in States, NEW w \in Windows, NEW f \in Fields \ {"identity"},
           NEW a \in Possible[f], s.power \in powers \cup {None}
    PROVE  ApplyNotified(s, w, f, a).power \in Heard(f, a) \cup {None}
<1> USE DEF States, Fields, Possible, Heard
<1>1. CASE f = "title"
  BY <1>1 DEF ApplyNotified, ApplyTitle
<1>2. CASE f = "power"
  BY <1>2 DEF ApplyNotified, ApplyPower
<1>3. CASE f = "viewid"
  BY <1>3 DEF ApplyNotified, ApplyViewId
<1> QED
  BY <1>1, <1>2, <1>3

LEMMA HeardStep == TypeOK /\ LiveInv /\ HeardInv /\ [Next]_vars => HeardInv'
<1> SUFFICES ASSUME TypeOK, LiveInv, HeardInv, [Next]_vars PROVE HeardInv'
  OBVIOUS
<1>1. ASSUME NEW d, Leave(d) PROVE HeardInv'
  BY <1>1 DEF Leave, HeardInv, PowerRead
<1>2. ASSUME NEW p, NEW s \in States, Proceed(p, s), s.power \in powers' \cup {None},
             Publish \/ Withhold
      PROVE  HeardInv'
  BY <1>2 DEF Proceed, Publish, Withhold, HeardInv
<1>3. ASSUME NEW w \in Windows, NEW j \in Jobs, Dial(w, j)
      PROVE  HeardInv'
  BY <1>3 DEF Dial, HeardInv, LiveInv, Attached, PowerRead
<1>4. CASE Apply
  <2> DEFINE s == ApplyRead(state, link, field, reply)
  <2>1. /\ Refreshing /\ link \in Windows /\ field \in Fields /\ reply \in Possible[field]
        /\ state \in States /\ powers' = Heard(field, reply)
    BY <1>4 DEF Apply, Refreshing, TypeOK
  <2>2. s \in States
    BY <2>1, ReadTyped DEF TypeOK
  <2>3. PowerRead \/ field = "power" => s.power \in powers' \cup {None}
    BY <2>1, ReadHeard DEF HeardInv
  <2>4. s.supported = "no" /\ After[field] = "viewid" => field = "power"
    BY <2>1 DEF After, Fields
  <2> HIDE DEF s
  <2>5. CASE Raise(s)
    <3>1. CASE HangUp(Left(s))
      BY <1>1, <3>1 DEF HangUp
    <3>2. CASE phase = "refresh" /\ Proceed("idle", s) /\ Withhold
      BY <1>2, <2>2, <2>3, <3>2 DEF PowerRead, Phases
    <3> QED
      BY <2>1, <2>5, <3>1, <3>2 DEF Raise, Reading, Refreshing
  <2>6. CASE Finish(s) /\ (After[field] = "done" \/ After[field] = "viewid")
    <3>1. PowerRead \/ field = "power"
      BY <2>1, <2>6 DEF After, Fields, Reading, Refreshing, PowerRead, Phases
    <3> QED
      BY <1>1, <1>2, <2>2, <2>3, <2>6, <3>1 DEF Finish, HangUp
  <2>7. CASE Proceed(phase, s) /\ Withhold /\ field' = After[field]
    <3>1. PowerRead' => PowerRead \/ field = "power"
      BY <2>1, <2>7 DEF After, Fields, Reading, Refreshing, PowerRead, Proceed
    <3> QED
      BY <2>3, <2>7, <3>1 DEF Proceed, Withhold, HeardInv
  <2> QED
    BY <1>4, <2>5, <2>6, <2>7 DEF Apply, s
<1>5. CASE ReadFails
  <2>1. CASE field = "viewid"
    BY <1>5, <2>1 DEF ReadFails, Proceed, Withhold, HeardInv, PowerRead
  <2>2. CASE field # "viewid" /\ HangUp(Left(state))
    BY <1>1, <2>2 DEF HangUp
  <2>3. CASE phase \in Phases \ {"down", "init"} /\ Proceed("idle", state) /\ Withhold
    BY <1>5, <2>3 DEF ReadFails, Proceed, Withhold, HeardInv, PowerRead
  <2> QED
    BY <1>5, <2>1, <2>2, <2>3 DEF ReadFails, Raise, Reading, Refreshing, Phases
<1>6. CASE Greeted \/ Written \/ WriteFails
  <2>1. PowerRead /\ UNCHANGED <<state, powers>>
    BY <1>6 DEF Greeted, Written, WriteFails, Proceed, PowerRead, Phases
  <2> QED
    BY <2>1 DEF HeardInv
<1>13. CASE Looked \/ Polled
  <2>1. /\ state \in States /\ reply \in Powers \cup {"garbled"}
        /\ powers' = Heard("power", reply) /\ state.power \in powers \cup {None}
    BY <1>13 DEF Looked, Polled, LiveInv, TypeOK, Possible, Fields, HeardInv, PowerRead,
                 Phases
  <2>2. state' \in {ApplyPowerRead(state, reply), ApplyPower(state, reply)}
    BY <1>13 DEF Looked, Polled, Proceed
  <2>3. state'.power \in powers' \cup {None}
    BY <2>1, <2>2 DEF ApplyPowerRead, ApplyPower, Heard, States
  <2> QED
    BY <2>3 DEF HeardInv
<1>7. CASE GreetFails \/ Drop \/ Reload
  BY <1>1, <1>7, DropLeaves DEF GreetFails, HangUp, Reload
<1>14. CASE Mark
  BY <1>14 DEF Mark, HeardInv, PowerRead
<1>8. ASSUME NEW j \in Calls, Poll \/ Call(j) PROVE HeardInv'
  BY <1>8 DEF Poll, Call, HeardInv, PowerRead, Phases, knowledge
<1>9. CASE Answer
  BY <1>9 DEF Answer, HeardInv, PowerRead, knowledge
<1>10. CASE Notification
  <2> DEFINE s == ApplyNotified(state, link, wire[1][1], wire[1][2])
  <2>1. link \in Windows /\ wire[1] \in Notices /\ state \in States
    BY <1>10 DEF Notification, TypeOK
  <2>2. wire[1][1] \in Fields \ {"identity"} /\ wire[1][2] \in Possible[wire[1][1]]
    BY <2>1 DEF Notices
  <2>3. PowerRead => s.power \in powers' \cup {None}
    BY <1>10, <2>1, <2>2, NotifiedHeard DEF HeardInv, Notification
  <2> HIDE DEF s
  <2>4. state' = s /\ UNCHANGED conn /\ (Publish \/ Withhold)
    BY <1>10 DEF Notification, s
  <2> QED
    BY <2>3, <2>4 DEF HeardInv, PowerRead, conn, Publish, Withhold
<1>11. ASSUME NEW w \in Windows, ChangeView(w) \/ ChangePower(w) PROVE HeardInv'
  BY <1>11 DEF ChangeView, ChangePower, HeardInv, PowerRead, conn, knowledge
<1>12. CASE UNCHANGED vars
  BY <1>12 DEF vars, HeardInv, PowerRead, conn, knowledge
<1> QED
  BY <1>3, <1>4, <1>5, <1>6, <1>7, <1>8, <1>9, <1>10, <1>11, <1>12, <1>13,
     <1>14
     DEF Next, Calls, Jobs

\* The power in a state a connection publishes is one it was told itself, by a
\* read or a notification: whatever fails, arrives late or is garbled, none is
\* inherited.  What an earlier connection published may outlive it, and with it
\* its power (client.py:250-258).
THEOREM PowerIsHeardAlways == Spec => []PowerIsHeard
<1>1. Init => TypeOK /\ LiveInv /\ HeardInv
  BY SessionAssumption, BlankTyped, InitAvailable
     DEF Init, Jobs, TypeOK, LiveInv, HeardInv, PowerRead, Phases, Fields
<1>2. TypeOK /\ LiveInv /\ HeardInv /\ [Next]_vars => (TypeOK /\ LiveInv /\ HeardInv)'
  BY Typing, LiveStep, HeardStep
<1>3. TypeOK /\ LiveInv /\ HeardInv => PowerIsHeard
  BY SessionAssumption
     DEF TypeOK, LiveInv, Attached, HeardInv, PowerRead, PowerIsHeard, Phases
<1> QED
  BY <1>1, <1>2, <1>3, PTL DEF Spec
=============================================================================
