------------------------------ MODULE Session ------------------------------
(***************************************************************************)
(* What a connection reads and is told, what of it Home Assistant sees,    *)
(* and what the next connection inherits.                                  *)
(*                                                                         *)
(* A connection works on an AtmophState of its own, which starts as a copy *)
(* of the published one.  Once the window has proved which one it is, that *)
(* state is what is published: the same object, so a read shows as soon as *)
(* it is applied.  Reads are applied when the coroutine that asked         *)
(* resumes, notifications when they arrive, so either may overtake the     *)
(* other.  How tasks fight over connections is the module Connection's.    *)
(***************************************************************************)
EXTENDS Integers, Sequences

CONSTANTS
    Windows,      \* windows that answer to the entry's name, by their UUIDs
    Stored,       \* the entry's device UUID, or None
    Views,        \* what a window may show
    None,         \* nothing known, nothing stored, nobody connected
    Live,         \* "the published state is the connection's"
    Tells,        \* Tells[w]: what a read of w's identity may yield: its
                  \* "own" UUID, or something "empty" or "garbled"
    ViewIds,      \* what a read of the view id may yield: "text", "garbled",
                  \* or "refused" by a window that has no view id
    MaxFaults,    \* bound: lost links, failed or garbled exchanges, reloads
    MaxChanges,   \* bound: changes of what a window shows
    MaxCalls      \* bound: service calls

Powers == {"on", "off"}
Answers == Views \cup Powers \cup {"own", "empty", "garbled", "refused"}

\* AtmophState.  Texts carry the window they are from, as real ones do.
Texts == Windows \X Views
States == [uuid : Windows \cup {None}, title : Texts \cup {None},
           power : Powers \cup {None}, viewid : Texts \cup {None},
           supported : {"unknown", "yes", "no"}]

ASSUME SessionAssumption ==
    /\ None \notin Windows \cup Texts \cup Answers \cup States
    /\ Live # None /\ Live \notin States
    /\ Views \cap {"own", "empty", "garbled", "refused"} = {}
    /\ Stored \in Windows \cup {None}
    /\ Tells \in [Windows -> SUBSET {"own", "empty", "garbled"}]
    /\ ViewIds \subseteq {"text", "garbled", "refused"}
    /\ {MaxFaults, MaxChanges, MaxCalls} \subseteq Nat

VARIABLES
    truth,      \* truth[w]: what window w shows, and its power
    link,       \* the window the connection reached, or None
    phase,      \* what the task in progress awaits
    lost,       \* the coordinator still refers to a lost link: its mark is due
    job,        \* the task: "update", also while there is none, "command",
                \* "power" or "report" (async_reported_setting)
    field,      \* the characteristic being read
    reply,      \* the answer it was sent, not yet applied; None before that
    state,      \* client.state
    data,       \* coordinator.data; Live if that is client.state
    available,  \* last_update_success
    wire,       \* notifications on their way, <<characteristic, answer>>
    powers,     \* the powers this connection has reported
    faults, changes, calls

conn == <<link, lost, phase, job, field, reply>>
knowledge == <<state, data, available, powers>>
counts == <<faults, changes, calls>>
vars == <<truth, conn, knowledge, wire, counts>>

Blank == [uuid |-> None, title |-> None, power |-> None, viewid |-> None,
          supported |-> "unknown"]

\* What Home Assistant sees.
Data == IF data = Live THEN state ELSE data

Phases == {"down", "init", "greet", "idle", "refresh", "look", "write", "poll"}
Jobs == {"update", "command", "power", "report"}
Calls == Jobs \ {"update"}
Fields == {"identity", "title", "power", "viewid"}

\* What may be answered for a characteristic, and notified.
Possible == [identity |-> {"own", "empty", "garbled"},
             title    |-> Views \cup {"garbled"},
             power    |-> Powers \cup {"garbled"},
             viewid   |-> Views \cup {"garbled", "refused"}]
Notices == {n \in (Fields \ {"identity"}) \X Answers : n[2] \in Possible[n[1]]}

TypeOK ==
    /\ truth \in [Windows -> [view : Views, power : Powers]]
    /\ link \in Windows \cup {None} /\ phase \in Phases
    /\ (link = None) <=> (phase = "down")
    /\ lost \in BOOLEAN
    /\ job \in Jobs
    /\ field \in Fields /\ reply \in Possible[field] \cup {None}
    /\ state \in States /\ data \in States \cup {None, Live}
    /\ available \in BOOLEAN
    /\ available => data # None
    /\ wire \in Seq(Notices)
    /\ powers \subseteq Powers
    /\ faults \in 0..MaxFaults /\ changes \in 0..MaxChanges /\ calls \in 0..MaxCalls

Init ==
    /\ truth \in [Windows -> [view : Views, power : Powers]]
    /\ link = None /\ lost = FALSE /\ phase = "down" /\ job = "update"
    /\ field = "identity" /\ reply = None
    /\ state = Blank /\ data = None /\ available = FALSE
    /\ wire = <<>> /\ powers = {}
    /\ faults = 0 /\ changes = 0 /\ calls = 0

Fault == faults < MaxFaults /\ faults' = faults + 1

-----------------------------------------------------------------------------
(* Connecting and hanging up                                               *)

\* A slip: the connection is given the published state, not a copy of it.
KeptShared == IF data = None THEN None ELSE Live

\* What stays published while a connection proves itself.
Kept == data

\* A task finds no connection and reaches some window of that name.  What was
\* lost before is no longer referred to, so its mark will be ignored.
Dial(w, j) ==
    /\ phase = "down"
    /\ j # "update" => data # None
    /\ link' = w /\ lost' = FALSE /\ phase' = "init" /\ job' = j
    /\ field' = "identity" /\ reply' = None
    /\ state' = IF data = None THEN Blank ELSE data
    /\ data' = Kept
    /\ wire' = <<>> /\ powers' = {}
    /\ IF j = "update" THEN UNCHANGED calls ELSE calls < MaxCalls /\ calls' = calls + 1
    /\ IF w = Stored THEN UNCHANGED faults ELSE Fault
    /\ UNCHANGED <<truth, available, changes>>

\* The connection is gone; d stays published.
Leave(d) ==
    /\ link' = None /\ phase' = "down"
    /\ data' = d /\ state' = Blank
    /\ wire' = <<>> /\ job' = "update"

\* The task in progress gives the connection up, which makes its mark void: an
\* update then raises UpdateFailed, a call leaves the entities as they are.
HangUp(d) ==
    /\ Leave(d) /\ lost' = FALSE
    /\ available' = IF job = "update" THEN FALSE ELSE available

\* What stays published of a connection that leaves s as its state.
Left(s) == IF data = Live THEN s ELSE data

\* A coroutine goes on, over the same connection and in phase p.
Proceed(p, s) ==
    /\ phase' = p /\ state' = s
    /\ job' = IF p = "idle" THEN "update" ELSE job
    /\ UNCHANGED <<link, lost, wire>>

Publish == data' = Live /\ available' = TRUE
Withhold == UNCHANGED <<data, available>>

-----------------------------------------------------------------------------
(* Reading                                                                 *)

After == [identity |-> "title", title |-> "power", power |-> "viewid",
          viewid |-> "done"]

\* What window w may answer when f is read.
MayAnswer(w, f) ==
    CASE f = "identity" -> Tells[w]
      [] f = "title"    -> {truth[w].view, "garbled"}
      [] f = "power"    -> {truth[w].power, "garbled"}
      [] f = "viewid"   -> {IF a = "text" THEN truth[w].view ELSE a : a \in ViewIds}

\* A slip: the whole of the identity text is taken for the UUID.
ApplyIdentityWhole(s, w, a) ==
    IF a = "garbled" THEN s ELSE [s EXCEPT !.uuid = a]

ApplyIdentity(s, w, a) ==
    CASE a = "garbled" -> s
      [] a = "empty"   -> [s EXCEPT !.uuid = None]
      [] a = "own"     -> [s EXCEPT !.uuid = w]

ApplyTitle(s, w, a) == IF a = "garbled" THEN s ELSE [s EXCEPT !.title = <<w, a>>]

\* A slip: an unusable power is no reason to forget the last one.
ApplyPowerReadKeeping(s, a) == IF a = "garbled" THEN s ELSE [s EXCEPT !.power = a]

\* A read prefers unknown to a remembered value; a notification does not, nor
\* does set_power's poll.
ApplyPowerRead(s, a) == [s EXCEPT !.power = IF a = "garbled" THEN None ELSE a]

ApplyPower(s, a) == IF a = "garbled" THEN s ELSE [s EXCEPT !.power = a]

ApplyViewId(s, w, a) ==
    CASE a = "refused" -> [s EXCEPT !.supported = "no"]
      [] a = "garbled" -> [s EXCEPT !.supported = "yes"]
      [] OTHER         -> [s EXCEPT !.supported = "yes", !.viewid = <<w, a>>]

ApplyRead(s, w, f, a) ==
    CASE f = "identity" -> ApplyIdentity(s, w, a)
      [] f = "title"    -> ApplyTitle(s, w, a)
      [] f = "power"    -> ApplyPowerRead(s, a)
      [] f = "viewid"   -> ApplyViewId(s, w, a)

\* The powers reported so far, with f's answer a.
Heard(f, a) == IF f = "power" /\ a # "garbled" THEN powers \cup {a} ELSE powers

\* A slip: the check looks at what was published before.
WrongStale(s) == Stored # None /\ data # None /\ Data.uuid \notin {None, Stored}

\* The window reached has a UUID and it is not the entry's.
Wrong(s) == Stored # None /\ s.uuid \notin {None, Stored}

\* The last read is applied.  initialize checks the identity before it writes;
\* a refresh of its own is published.
Finish(s) ==
    \/ /\ phase = "init" /\ Wrong(s)
       /\ HangUp(Left(s))
    \/ /\ phase = "init" /\ ~Wrong(s)
       /\ Proceed("greet", s) /\ Withhold
    \/ /\ phase = "refresh"
       /\ Proceed("idle", s) /\ Publish

\* refresh raises.  initialize and an update then disconnect, a call does not.
Raise(s) ==
    IF phase = "init" \/ job = "update"
    THEN HangUp(Left(s))
    ELSE Proceed("idle", s) /\ Withhold

\* Whose reads are going on: refresh's, or set_power's own.
Refreshing == phase \in {"init", "refresh"}
Reading == Refreshing \/ phase \in {"look", "poll"}

\* The window answers the read; what it answers is what it shows now.
Answer ==
    /\ Reading /\ reply = None
    /\ \E a \in MayAnswer(link, field) :
           /\ reply' = a
           /\ IF a = "garbled" /\ field \in {"title", "power"}
              THEN Fault ELSE UNCHANGED faults
    /\ UNCHANGED <<truth, link, lost, phase, job, field, knowledge, wire, changes, calls>>

\* The coroutine resumes with the answer and goes on to its next await.  An
\* answer that will not decode costs only itself, unless it is the view id.
Apply ==
    /\ Refreshing /\ reply # None
    /\ LET s == ApplyRead(state, link, field, reply)
           next == After[field]
           raises == field = "viewid" /\ reply = "garbled"
           last == next = "done" \/ (next = "viewid" /\ s.supported = "no")
       IN  \/ raises /\ Raise(s) /\ field' = "identity"
           \/ ~raises /\ last /\ Finish(s) /\ field' = "identity"
           \/ ~last /\ Proceed(phase, s) /\ Withhold /\ field' = next
    /\ reply' = None /\ powers' = Heard(field, reply)
    /\ UNCHANGED <<truth, counts>>

\* The read fails and the link is still there.  A failing view id is taken for
\* one the window has not got.
ReadFails ==
    /\ Reading /\ reply = None /\ Fault
    /\ IF field = "viewid"
       THEN reply' = "refused" /\ Proceed(phase, state) /\ Withhold /\ UNCHANGED field
       ELSE Raise(state) /\ field' = "identity" /\ UNCHANGED reply
    /\ UNCHANGED <<truth, powers, changes, calls>>

-----------------------------------------------------------------------------
(* Using the connection                                                    *)

\* Where a task goes over a connection that is up, and what it reads first.
First(j) == CASE j = "command" -> "write" [] j = "power" -> "look" [] OTHER -> "refresh"
FirstField(j) == IF j = "power" THEN "power" ELSE "identity"

\* connect_notify is written, and the client is the coordinator's.
Greeted ==
    /\ phase = "greet"
    /\ Proceed(First(job), state) /\ Withhold
    /\ field' = FirstField(job) /\ reply' = None
    /\ UNCHANGED <<truth, powers, counts>>

GreetFails ==
    /\ phase = "greet" /\ Fault
    /\ HangUp(Left(state))
    /\ UNCHANGED <<truth, field, reply, powers, changes, calls>>

\* A slip: the interval starts anew while the window is being heard from.
PollLazily ==
    /\ phase = "idle"
    /\ phase' = IF available THEN "idle" ELSE "refresh"
    /\ UNCHANGED <<truth, link, lost, job, field, reply, knowledge, wire, counts>>

\* The update interval is over.
Poll ==
    /\ phase = "idle"
    /\ phase' = "refresh"
    /\ UNCHANGED <<truth, link, lost, job, field, reply, knowledge, wire, counts>>

\* A service call finds the connection up.
Call(j) ==
    /\ phase = "idle" /\ calls < MaxCalls
    /\ phase' = First(j) /\ job' = j
    /\ field' = FirstField(j) /\ reply' = None
    /\ calls' = calls + 1
    /\ UNCHANGED <<truth, link, lost, knowledge, wire, faults, changes>>

\* set_power looks; unless the display is known to be as desired it toggles.
\* One look and one poll stand for all of them: see DisplayPower.
Looked ==
    /\ phase = "look" /\ reply # None
    /\ LET s == ApplyPowerRead(state, reply)
       IN  \/ s.power # None /\ Proceed("idle", s) /\ Publish
           \/ Proceed("write", s) /\ Withhold
    /\ field' = "identity" /\ reply' = None /\ powers' = Heard("power", reply)
    /\ UNCHANGED <<truth, counts>>

\* The command is acknowledged, or the toggle: then set_power polls.
Written ==
    /\ phase = "write"
    /\ IF job = "power" THEN Proceed("poll", state) /\ Withhold /\ field' = "power"
                        ELSE Proceed("idle", state) /\ Publish /\ UNCHANGED field
    /\ reply' = None
    /\ UNCHANGED <<truth, powers, counts>>

\* The poll confirms, or set_power raises: not confirmed, or not decoded.
Polled ==
    /\ phase = "poll" /\ reply # None
    /\ Proceed("idle", ApplyPower(state, reply))
    /\ (reply # "garbled" /\ Publish) \/ Withhold
    /\ field' = "identity" /\ reply' = None /\ powers' = Heard("power", reply)
    /\ UNCHANGED <<truth, counts>>

WriteFails ==
    /\ phase = "write" /\ Fault
    /\ Proceed("idle", state) /\ Withhold
    /\ UNCHANGED <<truth, field, reply, powers, changes, calls>>

\* The link is lost while no task notices, or under a call over a connection
\* that was up: the mark is on the loop.
DropUnheeded ==
    /\ phase = "idle" \/ (job # "update" /\ phase \in {"refresh", "look", "write", "poll"})
    /\ Leave(Left(state)) /\ lost' = TRUE
    /\ UNCHANGED available

\* Under an update, which notices before the mark runs or after; a push that is
\* still on the loop may be published over its UpdateFailed.
DropUpdating ==
    /\ job = "update" /\ phase \in {"init", "greet", "refresh"}
    /\ Leave(Left(state)) /\ lost' = FALSE
    /\ available' \in {FALSE, data = Live}

\* Under a call that is connecting: the mark runs first, or it is void.
DropConnecting ==
    /\ job # "update" /\ phase \in {"init", "greet"}
    /\ Leave(Left(state)) /\ lost' = FALSE
    /\ available' \in {FALSE, available}

\* It is the read of the view id that fails, and refresh succeeds.
DropSwallowed ==
    /\ phase = "refresh" /\ field = "viewid" /\ reply = None
    /\ Leave([state EXCEPT !.supported = "no"]) /\ lost' \in BOOLEAN
    /\ available' = TRUE

\* The link is lost.
Drop ==
    /\ phase # "down" /\ Fault
    /\ IF phase = "refresh" /\ field = "viewid" /\ reply = None
       THEN DropSwallowed
       ELSE DropUnheeded \/ DropUpdating \/ DropConnecting
    /\ field' = "identity" /\ reply' = None
    /\ UNCHANGED <<truth, powers, changes, calls>>

\* _mark_disconnected runs, and the coordinator still refers to that link.
Mark ==
    /\ lost
    /\ lost' = FALSE /\ available' = FALSE
    /\ UNCHANGED <<truth, link, phase, job, field, reply, state, data, powers, wire,
                   counts>>

\* The entry is unloaded and set up again.
Reload ==
    /\ phase \in {"down", "idle"} /\ data # None /\ Fault
    /\ Leave(None) /\ lost' = FALSE /\ available' = FALSE
    /\ UNCHANGED <<truth, field, reply, powers, changes, calls>>

-----------------------------------------------------------------------------
(* Notifications                                                           *)

\* If w is connected it notifies f's new value a, unless that is lost or garbled,
\* and then whatever more.
Tell(w, f, a, more) ==
    IF link # w THEN UNCHANGED <<wire, faults>>
    ELSE \E b \in {a, "garbled", "empty"} :
             /\ wire' = wire \o (IF b = "empty" THEN <<>> ELSE << <<f, b>> >>) \o more
             /\ IF b = a THEN UNCHANGED faults ELSE Fault

\* The window shows something else; a notification of the view id is optional.
ChangeView(w) ==
    /\ changes < MaxChanges /\ changes' = changes + 1
    /\ \E v \in Views \ {truth[w].view} :
           /\ truth' = [truth EXCEPT ![w].view = v]
           /\ \E more \in {<<>>, << <<"viewid", v>> >>} : Tell(w, "title", v, more)
    /\ UNCHANGED <<conn, knowledge, calls>>

\* Its power changes: a remote, the app, its own schedule.
ChangePower(w) ==
    /\ changes < MaxChanges /\ changes' = changes + 1
    /\ \E p \in Powers \ {truth[w].power} :
           /\ truth' = [truth EXCEPT ![w].power = p]
           /\ Tell(w, "power", p, <<>>)
    /\ UNCHANGED <<conn, knowledge, calls>>

\* The client has its update callback once its window is known.
Attached == phase \in {"idle", "refresh", "look", "write", "poll"}

ApplyNotified(s, w, f, a) ==
    CASE f = "title"  -> ApplyTitle(s, w, a)
      [] f = "power"  -> ApplyPower(s, a)
      [] f = "viewid" -> ApplyViewId(s, w, a)

\* A notification arrives.  One that will not decode is not published.
Notification ==
    /\ phase # "down" /\ wire # <<>>
    /\ LET f == wire[1][1]
           a == wire[1][2]
       IN  /\ state' = ApplyNotified(state, link, f, a)
           /\ powers' = Heard(f, a)
           /\ IF Attached /\ a # "garbled" THEN Publish ELSE Withhold
    /\ wire' = Tail(wire)
    /\ UNCHANGED <<truth, conn, counts>>

-----------------------------------------------------------------------------
Next ==
    \/ \E w \in Windows, j \in Jobs : Dial(w, j)
    \/ Answer \/ Apply \/ ReadFails
    \/ Greeted \/ GreetFails
    \/ Poll \/ \E j \in Calls : Call(j)
    \/ Looked \/ Written \/ Polled \/ WriteFails
    \/ Drop \/ Mark \/ Reload \/ Notification
    \/ \E w \in Windows : ChangeView(w) \/ ChangePower(w)

Spec == Init /\ [][Next]_vars

\* The loop runs what is due, the link answers or is lost, and a window that is
\* in reach is tried again.
Fairness ==
    /\ WF_vars(Dial(Stored, "update"))
    /\ WF_vars(Answer) /\ WF_vars(Apply) /\ WF_vars(Greeted)
    /\ WF_vars(Looked) /\ WF_vars(Written) /\ WF_vars(Polled)
    /\ WF_vars(Poll) /\ WF_vars(Notification) /\ WF_vars(Mark)

FairSpec == Spec /\ Fairness

-----------------------------------------------------------------------------
(* Properties                                                              *)

\* A foreign window that answers to the entry's name always gives its own UUID.
Honest == \A w \in Windows \ {Stored} : Tells[w] = {"own"}

\* Nothing is written to a window that is not the entry's, over whatever sequence
\* of connections, inherited states and garbled answers (client.py:129-132,
\* coordinator.py:233-235).
OnlyOwnWindow ==
    Stored # None /\ phase \notin {"down", "init"} => link = Stored

\* And nothing such a window said is ever published: neither its UUID nor its
\* texts reach the entry's entities (coordinator.py:194-199).
OnlyOwnData ==
    Stored # None /\ data # None =>
        /\ Data.uuid \in {None, Stored}
        /\ \A t \in {Data.title, Data.viewid} \ {None} : t[1] = Stored

\* What the two rest on: by the time a stranger's other characteristics are read
\* its UUID has been, and what it says stays in its connection's state.
Own(s) == /\ s.uuid \in {None, Stored}
          /\ \A t \in {s.title, s.viewid} \ {None} : t[1] = Stored

OwnInv ==
    Stored # None =>
        /\ phase \notin {"down", "init"} => link = Stored
        /\ data \in States => Own(data)
        /\ link = Stored => Own(state)
        /\ phase = "init" /\ link # Stored =>
               IF field = "identity" THEN reply \in {None, "own"} ELSE state.uuid = link

\* A connection publishes no power but one it was told itself: what its state
\* inherited of the connection before it, or what set_power last saw, is replaced
\* or forgotten before that state is the entry's (client.py:250-258).
PowerIsHeard == data = Live /\ state.power # None => state.power \in powers

\* What is published is the window's own account.
Shows ==
    /\ available
    /\ Data.title = <<Stored, truth[Stored].view>>
    /\ Data.power = truth[Stored].power
    /\ Data.supported = "yes" => Data.viewid = Data.title

\* However notifications are lost, garbled, overtaken by older reads or missed
\* between two connections, once the window is left alone Home Assistant comes
\* to show what it shows (coordinator.py:263-268).
Converges == <>[]Shows
=============================================================================
