--------------------------- MODULE QuickSettings ---------------------------
(***************************************************************************)
(* One quick setting of some windows: what each window has for it, what    *)
(* Home Assistant holds it to be, and the entities and the service that    *)
(* write it.                                                               *)
(*                                                                         *)
(* A setting is a flag or a level between bounds the window reports; only  *)
(* a report tells which, a write carries the bare value.  What is known    *)
(* comes from notifications (merged), reads (replaced) and from what was   *)
(* written itself, recorded before the window has announced it.            *)
(***************************************************************************)
EXTENDS Integers, Sequences, FiniteSets

CONSTANTS
    Windows,
    Kind,       \* "flag" or "level": what a window's firmware has the setting for
    Ranges,     \* per window, the bounds it may report: pairs, the first the minimum
    Callers,    \* tasks of Home Assistant that may run together
    Targets,    \* what a service call may name: sequences of windows
    Asked,      \* bound: the integers asked for
    Parts,      \* bound: a slider is moved in this many parts
    Touched,    \* bound: the windows that are polled and change, and that tell
    AirMax,     \* bound: notifications on their way from a window
    MaxFaults,  \* bound: lost notifications, garbled reads, failing requests
    Poll, Nobody

ASSUME QuickSettingsAssumption ==
    /\ Kind \in [Windows -> {"flag", "level"}]
    /\ \A w \in Windows : Ranges[w] \subseteq Int \X Int /\ Ranges[w] # {}
    /\ \A t \in Targets : t \in Seq(Windows) \ {<<>>}
    /\ Asked \subseteq Int /\ Parts \in Nat \ {0} /\ Touched \subseteq Windows
    /\ AirMax \in Nat \ {0} /\ MaxFaults \in Nat
    /\ Callers \cap {Poll, Nobody} = {} /\ Poll # Nobody

-----------------------------------------------------------------------------
(* Reports of the setting, and Level                                       *)

Lesser(a, b) == IF a <= b THEN a ELSE b
Greater(a, b) == IF a <= b THEN b ELSE a

Report(kind, min, max, value) == [kind |-> kind, min |-> min, max |-> max, value |-> value]
Absent == Report("absent", 0, 0, 0)
Flag(b) == Report("flag", 0, 0, b)
Level(r, v) == Report("level", r[1], r[2], v)

\* An integer recorded where no report was: no level, since it has no bounds.
Bare(v) == Report("bare", 0, 0, v)

\* Level.from_wire: what has bounds is a level, whatever its value is; "mixed"
\* has a flag for its value.
IsLevel(k) == k.kind \in {"level", "mixed"}

InRange(l, v) == l.min <= v /\ v <= l.max
Low(l) == Lesser(l.min, l.max)
High(l) == Greater(l.min, l.max)

\* Either way round, the bounds bound.
Stepped(l, steps) == Lesser(High(l), Greater(Low(l), l.value + steps))

\* Python's round: the nearest integer to p/q, of two the even one.
Rounded(p, q) ==
    LET floor == p \div q
        twice == 2 * (p % q)
    IN  IF twice < q \/ (twice = q /\ floor % 2 = 0) THEN floor ELSE floor + 1

\* The slider at p of q parts.
AtFraction(l, p, q) ==
    l.min + Rounded(Lesser(q, Greater(0, p)) * (l.max - l.min), q)

\* Where the slider is shown, as a numerator and a denominator.
Fraction(l) == IF l.max <= l.min THEN <<0, 1>> ELSE <<l.value - l.min, l.max - l.min>>

-----------------------------------------------------------------------------
VARIABLES
    shown,    \* what each window has for the setting; Absent: it reports none
    air,      \* the documents it announced, as far as the setting goes
    known,    \* state.quick_settings[key], published as it is
    op,       \* who holds the client's lock, and what for
    call,     \* what each caller is at
    faults,
    overtaken, \* history: known missed what was announced, or went back behind it
    guessed   \* history: a switch's flag was recorded for a window that has a
              \* level and had reported nothing

vars == <<shown, air, known, op, call, faults, overtaken, guessed>>

Has(w) == IF Kind[w] = "flag" THEN {Flag(b) : b \in {0, 1}}
          ELSE UNION {{Level(r, v) : v \in Lesser(r[1], r[2])..Greater(r[1], r[2])} : r \in Ranges[w]}

Reports == [kind : {"flag", "level", "mixed", "bare", "absent"},
            min : Int, max : Int, value : Int]
Writes == [kind : {"flag", "level"}, value : Int]
NoWrite == [kind |-> "level", value |-> 0]
Idle == [by |-> Nobody, what |-> "idle", doc |-> Absent]
NoCall == [at |-> "idle", from |-> "service", todo |-> <<>>, asked |-> 0, out |-> NoWrite]

TypeOK ==
    /\ shown \in [Windows -> Reports] /\ air \in [Windows -> Seq(Reports)]
    /\ known \in [Windows -> Reports]
    /\ op \in [Windows -> [by : Callers \cup {Poll, Nobody}, what : {"idle", "read", "write"},
                           doc : Reports]]
    /\ \A w \in Windows : /\ shown[w] \in Has(w) \cup {Absent}
                          /\ air[w] \in Seq(Has(w) \cup {Absent})
                          /\ op[w].doc \in Has(w) \cup {Absent}
    /\ call \in [Callers -> [at : {"idle", "look", "write", "busy"},
                             from : {"service", "switch", "slider"},
                             todo : Seq(Windows), asked : Int, out : Writes]]
    /\ \A c \in Callers : (call[c].at = "idle") <=> (call[c].todo = <<>>)
    /\ \A w \in Windows : op[w].by \in Callers =>
          call[op[w].by].at = "busy" /\ Head(call[op[w].by].todo) = w
    /\ faults \in 0..MaxFaults
    /\ overtaken \in [Windows -> BOOLEAN] /\ guessed \in [Windows -> BOOLEAN]

Init ==
    /\ shown \in [Windows -> (UNION {Has(w) : w \in Windows}) \cup {Absent}]
    /\ \A w \in Windows : shown[w] \in Has(w) \cup {Absent}
    /\ air = [w \in Windows |-> <<>>] /\ known = shown
    /\ op = [w \in Windows |-> Idle] /\ call = [c \in Callers |-> NoCall]
    /\ faults = 0 /\ overtaken = [w \in Windows |-> FALSE]
    /\ guessed = [w \in Windows |-> FALSE]

Fault == faults < MaxFaults /\ faults' = faults + 1
Free(w) == op[w].what = "idle"
Announce(w, doc) == air' = IF w \in Touched THEN [air EXCEPT ![w] = Append(@, doc)] ELSE air
CanAnnounce(w) == w \in Touched => Len(air[w]) < AirMax

-----------------------------------------------------------------------------
(* The window, and its notifications                                       *)

\* The panel, the app, new firmware: a value, bounds, or no report any more,
\* which a notification cannot say.
Change(w, doc) ==
    /\ CanAnnounce(w) /\ doc # shown[w]
    /\ shown' = [shown EXCEPT ![w] = doc]
    /\ Announce(w, doc)
    /\ UNCHANGED <<known, op, call, faults, overtaken, guessed>>

\* apply_quick_settings: a document without the key leaves it as it was.
Merged(old, doc) == IF doc = Absent THEN old ELSE doc

Notification(w) ==
    /\ air[w] # <<>> /\ air' = [air EXCEPT ![w] = Tail(@)]
    /\ \/ known' = [known EXCEPT ![w] = Merged(@, Head(air[w]))]
          /\ UNCHANGED <<faults, overtaken>>
       \/ Fault /\ overtaken' = [overtaken EXCEPT ![w] = TRUE] /\ UNCHANGED known
    /\ UNCHANGED <<shown, op, call, guessed>>

-----------------------------------------------------------------------------
(* Validation                                                              *)

\* What _validated_value makes of v, if it does not refuse it.
Accepts(r, v) == r.kind = "flag" \/ (IsLevel(r) /\ InRange(r, v))
Validated(r, v) == IF r.kind = "flag" THEN [kind |-> "flag", value |-> IF v = 0 THEN 0 ELSE 1]
                   ELSE [kind |-> "level", value |-> v]

\* A call after window w's report r came: the value is written, or the call
\* fails with nothing written to w and to those behind it.
Look(old, r) ==
    IF Accepts(r, old.asked) THEN [old EXCEPT !.at = "write", !.out = Validated(r, old.asked)]
    ELSE NoCall

-----------------------------------------------------------------------------
(* Reads: refresh, of the poll or of async_reported_setting                *)

Read(w, who) ==
    /\ Free(w) /\ op' = [op EXCEPT ![w] = [by |-> who, what |-> "read", doc |-> shown[w]]]
    /\ UNCHANGED <<shown, air, known, faults, overtaken, guessed>>

\* What the window had when it was asked is not what it has now, and nothing
\* is on its way that would tell.
Older(w) == air[w] = <<>> /\ shown[w] # op[w].doc

PollReads(w) == Read(w, Poll) /\ UNCHANGED call

\* A slip: what is read is merged.
ReplacedMerging(old, doc) == Merged(old, doc)

\* replace_quick_settings: what the document lacks is gone.
Replaced(old, doc) == doc

\* The caller goes on with what is known then.
Resume(w) ==
    IF op[w].by = Poll THEN UNCHANGED call
    ELSE call' = [call EXCEPT ![op[w].by] = Look(@, known'[w])]

ReadApplied(w) ==
    /\ op[w].what = "read" /\ op' = [op EXCEPT ![w] = Idle]
    /\ \/ /\ known' = [known EXCEPT ![w] = Replaced(@, op[w].doc)]
          /\ overtaken' = [overtaken EXCEPT ![w] = Older(w)]
          /\ UNCHANGED faults
       \/ Fault /\ UNCHANGED <<known, overtaken>>
    /\ Resume(w)
    /\ UNCHANGED <<shown, air, guessed>>

\* The holder's request raises: the lock is released, a call is over.
Fails(w) ==
    /\ ~Free(w) /\ Fault /\ op' = [op EXCEPT ![w] = Idle]
    /\ call' = IF op[w].by = Poll THEN call ELSE [call EXCEPT ![op[w].by] = NoCall]
    /\ UNCHANGED <<shown, air, known, overtaken, guessed>>

-----------------------------------------------------------------------------
(* Calls: the service, the number, the switch, the media player            *)

Start(c, new) ==
    /\ call[c] = NoCall /\ call' = [call EXCEPT ![c] = new]
    /\ UNCHANGED <<shown, air, known, op, faults, overtaken, guessed>>

Writing(w, from, kind, v) ==
    [at |-> "write", from |-> from, todo |-> <<w>>, asked |-> 0,
     out |-> [kind |-> kind, value |-> v]]

Service(c, targets, v) ==
    Start(c, [at |-> "look", from |-> "service", todo |-> targets, asked |-> v,
              out |-> NoWrite])

Number(c, w, v) == /\ IsLevel(known[w]) /\ InRange(known[w], v)
                   /\ Start(c, Writing(w, "slider", "level", v))

\* The switch writes what it is turned to, whatever the window reports.
Switch(c, w, b) == Start(c, Writing(w, "switch", "flag", b))

\* What it is at already is not written again.
Volume(c, w, v) == v # known[w].value /\ Start(c, Writing(w, "slider", "level", v))
VolumeStep(c, w, d) == IsLevel(known[w]) /\ Volume(c, w, Stepped(known[w], d))
VolumeSet(c, w, p) == IsLevel(known[w]) /\ Volume(c, w, AtFraction(known[w], p, Parts))

\* async_reported_setting: what is known, or else a read.
ServiceLooks(c) ==
    LET w == Head(call[c].todo) IN
    /\ call[c].at = "look"
    /\ \/ /\ known[w].kind # "absent"
          /\ call' = [call EXCEPT ![c] = Look(@, known[w])]
          /\ UNCHANGED <<shown, air, known, op, faults, overtaken, guessed>>
       \/ /\ known[w].kind = "absent" /\ Read(w, c)
          /\ call' = [call EXCEPT ![c].at = "busy"]

-----------------------------------------------------------------------------
(* async_set_setting                                                       *)

\* What the window makes of a write; what it does not report it does not have.
Taken(s, out) ==
    IF s.kind # out.kind THEN s
    ELSE IF s.kind = "flag" THEN Flag(out.value)
    ELSE [s EXCEPT !.value = Lesser(High(s), Greater(Low(s), out.value))]

\* A slip: the value is recorded as it was asked for.
RecordedAsked(old, out) ==
    IF IsLevel(old) THEN [old EXCEPT !.kind = out.kind, !.value = out.value]
    ELSE IF out.kind = "flag" THEN Flag(out.value)
    ELSE Bare(out.value)

\* A slip: the value is recorded in the place of the report.
RecordedBare(old, out) == IF out.kind = "flag" THEN Flag(out.value) ELSE Bare(out.value)

\* apply_setting_write: a level keeps its bounds, and an integer is held to
\* them, a flag is not.
Recorded(old, out) ==
    IF IsLevel(old)
    THEN IF out.kind = "flag" THEN [old EXCEPT !.kind = "mixed", !.value = out.value]
         ELSE [old EXCEPT !.kind = "level",
                          !.value = Lesser(old.max, Greater(old.min, out.value))]
    ELSE IF out.kind = "flag" THEN Flag(out.value)
    ELSE Bare(out.value)

\* The lock is had and the write sent: the window takes it and announces it,
\* or it does not get there and the call fails.
Send(c) ==
    LET w == Head(call[c].todo)
        s == Taken(shown[w], call[c].out)
    IN  /\ call[c].at = "write" /\ Free(w)
        /\ \/ /\ CanAnnounce(w) /\ shown' = [shown EXCEPT ![w] = s] /\ Announce(w, s)
              /\ op' = [op EXCEPT ![w] = [by |-> c, what |-> "write", doc |-> s]]
              /\ call' = [call EXCEPT ![c].at = "busy"]
              /\ UNCHANGED faults
           \/ /\ Fault /\ call' = [call EXCEPT ![c] = NoCall]
              /\ UNCHANGED <<shown, air, op>>
        /\ UNCHANGED <<known, overtaken, guessed>>

\* A slip: a call over its last window goes on.
OnwardOver(old) == [old EXCEPT !.at = "look", !.todo = Tail(@)]

\* A slip: what was validated for one window is written to all.
OnwardBlindly(old) ==
    IF Len(old.todo) = 1 THEN NoCall ELSE [old EXCEPT !.at = "write", !.todo = Tail(@)]

\* A service call goes on to its next window.
Onward(old) ==
    IF Len(old.todo) = 1 THEN NoCall ELSE [old EXCEPT !.at = "look", !.todo = Tail(@)]

\* The response: the value is recorded whatever was reported meanwhile.
Written(w) ==
    /\ op[w].what = "write" /\ op' = [op EXCEPT ![w] = Idle]
    /\ LET c == op[w].by
           guess == Kind[w] = "level" /\ call[c].from = "switch" /\ ~IsLevel(known[w])
       IN  /\ known' = [known EXCEPT ![w] = Recorded(@, call[c].out)]
           /\ guessed' = [guessed EXCEPT ![w] = @ \/ guess]
           /\ call' = [call EXCEPT ![c] = Onward(@)]
    /\ overtaken' = [overtaken EXCEPT ![w] = @ \/ Older(w)]
    /\ UNCHANGED <<shown, air, faults>>

EntityCall(c, w) == \/ \E v \in Asked : Number(c, w, v)
                    \/ \E b \in {0, 1} : Switch(c, w, b)
                    \/ \E d \in {-1, 1} : VolumeStep(c, w, d)
                    \/ \E p \in 0..Parts : VolumeSet(c, w, p)

CallStep(c) == \/ \E t \in Targets, v \in Asked : Service(c, t, v)
               \/ \E w \in Windows : EntityCall(c, w)
               \/ ServiceLooks(c) \/ Send(c)

RequestEnds(w) == ReadApplied(w) \/ Fails(w) \/ Written(w)

Others(w) == PollReads(w) \/ \E doc \in Has(w) \cup {Absent} : Change(w, doc)

Next == \/ \E w \in Windows : Notification(w) \/ RequestEnds(w)
        \/ \E w \in Touched : Others(w)
        \/ \E c \in Callers : CallStep(c)

\* The poll comes again and again, and a lock that is waited for is had: it
\* is passed on in order.  Requests end, and what was announced arrives.
Fairness == \A w \in Touched :
    SF_vars(PollReads(w)) /\ WF_vars(Notification(w)) /\ WF_vars(RequestEnds(w))

Spec == Init /\ [][Next]_vars /\ Fairness

-----------------------------------------------------------------------------
(* Properties                                                              *)

\* The level published lies within the bounds published with it, however a
\* write overtakes a change of them (protocol.py:209, "Clamped to the bounds
\* currently held").  A flag that a switch put in the place of a level's value
\* is held to nothing.
InBounds == \A w \in Windows :
    known[w].kind = "level" => Low(known[w]) <= known[w].value /\ known[w].value <= High(known[w])

\* Once everything announced has arrived, the setting is what the window has,
\* whatever writes, reads and changes went on: unless a notification was lost,
\* or a response or an answer came when the window had announced something
\* newer already.  Bounds the wrong way round are excepted: a write recorded
\* after its echo is then held to the maximum (protocol.py:222).  A switch's
\* flag may stand in the place of a level's value, within its bounds' report.
SettledIsTrue == \A w \in Touched :
    air[w] = <<>> /\ ~overtaken[w] /\ shown[w].kind # "absent" /\ shown[w].min <= shown[w].max
        => \/ known[w] = shown[w]
           \/ /\ known[w].kind = "mixed" /\ shown[w].kind = "level"
              /\ known[w].min = shown[w].min /\ known[w].max = shown[w].max

\* Neither the service nor a slider writes a window a value of another type
\* than its setting has, or one outside all its bounds, though the write carries
\* no type and one service call serves windows that differ (services.py:103).
\* A switch writes its flag whatever the window reports, and where that was
\* recorded for a window that reported nothing (protocol.py:225) the service
\* takes it for a report.
TypedWrites == \A w \in Windows : op[w].what = "write" =>
    LET task == call[op[w].by]
        out == task.out
    IN  \/ out.kind = Kind[w] /\ \E s \in Has(w) : out.value = s.value
        \/ task.from = "switch"
        \/ task.from = "service" /\ out.kind = "flag" /\ guessed[w]

\* A window left alone comes to be known as it is, its having stopped to
\* report the setting included (protocol.py:195).
Converges == []<><<TRUE>>_<<shown, call>> \/ <>[](\A w \in Touched : known[w] = shown[w])
=============================================================================
