----------------------------- MODULE WriteTest -----------------------------
(***************************************************************************)
(* The write test of tools/atmoph_diag.py: each setting named on the       *)
(* command line is written, its echo awaited, and the old value put back.  *)
(*                                                                         *)
(* The window announces its whole settings document on every change, in    *)
(* packets cut anywhere; SettingsWatcher puts them together with Streams   *)
(* and queues them.  The tool only ever learns of the window through that  *)
(* queue and one read.                                                     *)
(***************************************************************************)
EXTENDS Streams

CONSTANTS
    Keys,       \* the settings of the document
    Top,        \* what the window limits a value to
    None,       \* nothing known
    Plans,      \* what may be asked: sequences of [key, value]
    Starts,     \* bound: what the window may be set to at first
    Cuts,       \* bound: where a document may be cut into packets
    Touched,    \* bound: the settings somebody else changes
    AirMax,     \* bound: documents on their way
    QueueMax,   \* bound: documents the watcher has and nobody took yet
    MaxFaults   \* bound: lost and garbled packets, failing requests

ASSUME WriteTestAssumption ==
    /\ Top \in Nat /\ None \notin [Keys -> 0..Top] \cup 0..Top
    /\ \A p \in Plans : p \in Seq([key : Keys, value : Nat]) \ {<<>>}
    /\ Cuts \subseteq 1..(Len(Shape) - 1) /\ Touched \subseteq Keys
    /\ Starts \subseteq [Keys -> 0..Top]
    /\ AirMax \in Nat \ {0} /\ {QueueMax, MaxFaults} \subseteq Nat

VARIABLES
    panel,     \* the window's settings
    air,       \* the documents it announced, the first one partly received
    pos,       \* how many units of the first one are past
    stream,    \* SettingsWatcher._stream
    queue,     \* SettingsWatcher._queue
    merged,    \* SettingsWatcher.merged; None while empty
    listening, \* subscribed, in collect_dump
    known,     \* dump.quick_settings, then found; None while empty
    pc,        \* what the tool awaits
    plan, n,   \* the writes asked for, and which one is in progress
    test,      \* the WriteTest in progress
    faults,
    original,  \* history: the settings the tool found
    outcome,   \* history: what the window did with the last write tested
    clean,     \* history: nothing older was on its way to the tool then,
               \* and nobody has touched the window since
    excused,   \* history: something the test cannot make up for, see Excuse
    missed,    \* history: documents in a row that passed and gave nothing
    lost       \* history: a packet was lost

window == <<panel, air, pos>>
watcher == <<stream, queue, merged, listening>>
tool == <<known, pc, plan, n, test>>
history == <<original, outcome, clean, excused, missed, lost>>
vars == <<window, watcher, tool, faults, history>>

\* After a loss, the documents that a spoilt buffer may cost.
MissMax == 3 + MaxSize \div (Len(Shape) - 1)

\* Bound: how far missed is counted, one step further than losses account for.
MissTop == MissMax * MaxFaults

Documents == [Keys -> 0..Top]
Fresh == [previous |-> None, verdict |-> "not-attempted", restored |-> FALSE]
Verdicts == {"not-attempted", "write-rejected", "no-echo", "echo-matched", "echo-clamped"}
Waiting == {"provoked", "echo", "confirm"}

TypeOK ==
    /\ panel \in Documents /\ air \in Seq(Documents) /\ Len(air) <= AirMax
    /\ pos \in Cuts \cup {0}
    /\ air = <<>> => pos = 0
    /\ Len(stream.half) <= 1 /\ Len(stream.text) <= MaxSize
    /\ queue \in Seq(Documents \cup {None})
    /\ merged \in Documents \cup {None} /\ known \in Documents \cup {None}
    /\ listening \in BOOLEAN
    /\ pc \in {"connect", "start", "gatt", "provoke", "write", "restore", "next", "stop", "done"}
              \cup Waiting
    /\ plan \in Plans /\ n \in 1..(Len(plan) + 1)
    /\ test \in [previous : 0..Top \cup {None}, verdict : Verdicts, restored : BOOLEAN]
    /\ faults \in 0..MaxFaults
    /\ original \in Documents
    /\ outcome \in {"none", "taken", "limited", "ignored"}
    /\ clean \in BOOLEAN /\ excused \in BOOLEAN
    /\ missed \in 0..(MissTop + 1) /\ lost \in BOOLEAN

Init ==
    /\ panel \in Starts /\ air = <<>> /\ pos = 0
    /\ stream = Empty /\ queue = <<>> /\ merged = None /\ listening = FALSE
    /\ known = None /\ pc = "connect" /\ plan \in Plans /\ n = 1 /\ test = Fresh
    /\ faults = 0
    /\ original = panel /\ outcome = "none" /\ clean = FALSE /\ excused = FALSE
    /\ missed = 0 /\ lost = FALSE

Fault == faults < MaxFaults /\ faults' = faults + 1
Excuse == excused' = TRUE

-----------------------------------------------------------------------------
(* The window                                                              *)

\* The document is announced to whoever listens.
Announced(doc) == IF listening THEN Append(air, doc) ELSE air
CanAnnounce == Len(air) < AirMax

\* Somebody else changes a setting.
Touch(k, v) ==
    /\ CanAnnounce /\ panel[k] # v /\ pc # "done"
    /\ panel' = [panel EXCEPT ![k] = v]
    /\ air' = Announced(panel')
    /\ Excuse /\ clean' = FALSE
    /\ UNCHANGED <<pos, watcher, tool, faults, original, outcome, missed, lost>>

Limited(v) == IF v <= Top THEN v ELSE Top

\* A write reaches the window: it takes the value, or what it has for it, and
\* announces the document; or it does neither.
Takes(k, v) ==
    \/ /\ CanAnnounce
       /\ panel' = [panel EXCEPT ![k] = Limited(v)]
       /\ air' = Announced(panel')
       /\ outcome' = IF v <= Top THEN "taken" ELSE "limited"
    \/ UNCHANGED <<panel, air>> /\ outcome' = "ignored"

-----------------------------------------------------------------------------
(* SettingsWatcher.feed                                                    *)

Rest == From(UnitsOf(Head(air)), pos + 1)

\* An object that is no document - what is left of one when its beginning was
\* lost - has none of the settings' keys.
IsDocument(o) == Len(o) = Len(Shape) - 1
Object(o) == IF IsDocument(o) THEN o[5][2] ELSE None

\* A packet of m units: payload is what is received of it.
Packet(m, payload) ==
    LET fed == Feed(stream, payload)
        docs == {i \in DOMAIN fed.out : IsDocument(fed.out[i])}
        ends == m = Len(Rest)
    IN  /\ air' = IF ends THEN Tail(air) ELSE air
        /\ pos' = IF ends THEN 0 ELSE pos + m
        /\ stream' = fed.stream
        /\ queue' = queue \o [i \in DOMAIN fed.out |-> Object(fed.out[i])]
        /\ merged' = IF docs = {} THEN merged ELSE Object(fed.out[Max(docs)])
        /\ missed' = IF docs # {} THEN 0
                     ELSE IF ends /\ missed <= MissTop THEN missed + 1 ELSE missed
        /\ UNCHANGED <<panel, listening, tool, original, outcome, clean, excused>>

Hear(m) == Packet(m, SubSeq(Rest, 1, m)) /\ UNCHANGED <<faults, lost>>
Lose(m) == Packet(m, <<>>) /\ Fault /\ lost' = TRUE
Garble(m) == Packet(m, <<<<"bad">>>>) /\ Fault /\ UNCHANGED lost

Receive == \E m \in 1..Len(Shape) :
    /\ listening /\ air # <<>> /\ pos + m \in Cuts \cup {Len(Shape)} /\ Len(queue) < QueueMax
    /\ Hear(m) \/ Lose(m) \/ Garble(m)

-----------------------------------------------------------------------------
(* dump_window and collect_dump, up to the tests                           *)

Goto(where) == pc' = where
Keep == UNCHANGED <<plan, n, test>>

\* A window that cannot be reached is reported, with nothing tested.
Connect ==
    /\ pc = "connect" /\ Keep
    /\ \/ Goto("start") /\ UNCHANGED faults
       \/ Goto("done") /\ Fault
    /\ UNCHANGED <<window, watcher, known, history>>

Subscribe ==
    /\ pc = "start" /\ Goto("gatt") /\ Keep
    /\ \/ listening' = TRUE /\ UNCHANGED faults
       \/ listening' = FALSE /\ Fault
    /\ UNCHANGED <<window, stream, queue, merged, known, history>>

\* collect_gatt reads everything readable; a read that raises leaves no text.
Readings == {panel, None}

\* A text that is no JSON object is as good as none.
MayFind == Readings \cup {None}

ReadDocument ==
    /\ pc = "gatt" /\ Keep
    /\ known' \in MayFind
    /\ pc' \in {"provoke", "write"}
    /\ UNCHANGED <<window, watcher, faults, history>>

\* The window is asked to announce its document.
Provoke ==
    /\ pc = "provoke" /\ Keep
    /\ \/ CanAnnounce /\ air' = Announced(panel) /\ Goto("provoked") /\ UNCHANGED faults
       \/ UNCHANGED air /\ Goto("provoked") /\ UNCHANGED faults
       \/ UNCHANGED air /\ Goto("write") /\ Fault
    /\ UNCHANGED <<panel, pos, watcher, known, history>>

-----------------------------------------------------------------------------
(* wait_for_key                                                            *)

\* The next document of the queue, if it mentions the key: it is used as
\* "then" says.  Other objects are passed over, within the same timeout.
Take(then) ==
    /\ queue # <<>> /\ queue' = Tail(queue)
    /\ IF Head(queue) # None THEN then ELSE UNCHANGED <<pc, test>>
    /\ UNCHANGED <<window, stream, merged, listening, known, plan, n, faults, history>>

\* A slip: the timeout starts again with every document.
TimesOutPatiently == /\ pc \in Waiting /\ queue = <<>> /\ air = <<>>
                     /\ pc' = IF pc = "provoked" THEN "write"
                              ELSE IF pc = "echo" THEN "restore" ELSE "next"
                     /\ UNCHANGED <<window, watcher, known, plan, n, test, faults, history>>

TimesOut == /\ pc \in Waiting
            /\ pc' = CASE pc = "provoked" -> "write"
                       [] pc = "echo" -> "restore"
                       [] pc = "confirm" -> "next"
            /\ test' = IF pc = "echo" THEN [test EXCEPT !.verdict = "no-echo"] ELSE test
            /\ UNCHANGED <<window, watcher, known, plan, n, faults, history>>

-----------------------------------------------------------------------------
(* _run_write_test                                                         *)

Asked == plan[n]

\* What the tool holds to be the window's settings when it writes.
Found == IF merged # None THEN merged ELSE known

\* Nothing is under way to the tool that is older than what it does now.
Quiet == air = <<>> /\ queue = <<>> /\ stream = Empty

\* A setting written before, of which something may still be under way.
Again == \E i \in 1..(n-1) : plan[i].key = Asked.key

\* The write may reach the window and the tool see it fail.
Write ==
    /\ pc = "write"
    /\ known' = Found /\ clean' = Quiet
    /\ Takes(Asked.key, Asked.value)
    /\ LET t == [Fresh EXCEPT !.previous = IF Found = None THEN None ELSE Found[Asked.key]]
       IN \/ /\ test' = t /\ Goto("echo") /\ UNCHANGED faults
             /\ excused' = (excused \/ Found = None \/ (Again /\ (~Quiet \/ faults > 0)))
          \/ /\ test' = [t EXCEPT !.verdict = "write-rejected"] /\ Goto("next") /\ Fault
             /\ excused' = (excused \/ outcome' # "ignored")
    /\ UNCHANGED <<pos, watcher, plan, n, original, missed, lost>>

\* A slip: any change is taken for the one asked for.
EchoAny ==
    /\ pc = "echo"
    /\ Take(LET v == Head(queue)[Asked.key] IN
            /\ test' = [test EXCEPT !.verdict = IF v # test.previous THEN "echo-matched"
                                                ELSE "echo-clamped"]
            /\ Goto("restore"))

Echo ==
    /\ pc = "echo"
    /\ Take(LET v == Head(queue)[Asked.key] IN
            /\ test' = [test EXCEPT !.verdict = IF v = Asked.value THEN "echo-matched"
                                                ELSE "echo-clamped"]
            /\ Goto("restore"))

\* A slip: only a write that was echoed is undone.
RestoresEchoed == /\ test.verdict # "no-echo" /\ test.previous # None
                  /\ test.previous # Asked.value

\* The old value is written back if there is one that differs; a write that
\* fails here is passed over.
Restores == test.previous # None /\ test.previous # Asked.value

Restore ==
    /\ pc = "restore"
    /\ IF ~Restores THEN Goto("next") /\ UNCHANGED <<panel, air, excused, faults>>
       ELSE /\ \/ /\ CanAnnounce
                  /\ panel' = [panel EXCEPT ![Asked.key] = Limited(test.previous)]
                  /\ air' = Announced(panel')
                  /\ UNCHANGED excused
               \/ UNCHANGED <<panel, air>> /\ Excuse
            /\ \/ Goto("confirm") /\ UNCHANGED faults
               \/ Goto("next") /\ Fault
    /\ UNCHANGED <<pos, watcher, known, plan, n, test, original, outcome, clean, missed, lost>>

Confirm ==
    /\ pc = "confirm"
    /\ Take(test' = [test EXCEPT !.restored = TRUE] /\ Goto("next"))

Provoked == pc = "provoked" /\ Take(Goto("write") /\ UNCHANGED test)

NextTest ==
    /\ pc = "next" /\ n' = n + 1
    /\ Goto(IF n < Len(plan) THEN "write" ELSE "stop")
    /\ UNCHANGED <<window, watcher, known, plan, test, faults, history>>

\* stop_notify, whether or not it raises: the disconnect follows.
Unlistened == listening' = FALSE /\ air' = <<>> /\ pos' = 0

\* The window is left, and the watcher with what it had.
Stop ==
    /\ pc = "stop" /\ Goto("done")
    /\ Unlistened /\ stream' = Empty /\ queue' = <<>>
    /\ UNCHANGED <<panel, merged, known, plan, n, test, faults, history>>

Steps == Connect \/ Subscribe \/ ReadDocument \/ Provoke \/ Provoked \/ Write \/ Echo
         \/ Restore \/ Confirm \/ TimesOut \/ NextTest \/ Stop

Next == Receive \/ Steps \/ \E k \in Touched, v \in 0..Top : Touch(k, v)

\* The tool's own steps come, its timeouts included, whatever it hears.
Fairness == /\ WF_vars(Connect \/ Subscribe \/ ReadDocument) /\ WF_vars(Provoke)
            /\ WF_vars(Write) /\ WF_vars(Restore)
            /\ WF_vars(TimesOut) /\ WF_vars(NextTest \/ Stop)

Spec == Init /\ [][Next]_vars /\ Fairness

-----------------------------------------------------------------------------
(* Properties                                                              *)

\* Until a packet is lost or garbled, wherever the cuts are and characters
\* are split, a document is returned when its last packet is fed and nothing
\* is returned otherwise (protocol.py:251, "return every complete JSON
\* object").
InOrder == [][faults' = 0 /\ <<air, pos>> # <<air', pos'>> /\ listening /\ listening' =>
                IF Len(air') < Len(air)
                THEN queue' = Append(queue, Head(air))
                ELSE \A i \in DOMAIN queue' : i \in DOMAIN queue]_vars

\* A malformed packet costs the document it was part of and at most holds up
\* the next one: nothing buffered before it spoils what follows
\* (protocol.py:256, "anything buffered before it is suspect").
Resyncs == ~lost => missed <= 2 * faults

\* The beginning of a document whose end was lost spoils what follows only
\* until the limit empties the buffer (protocol.py:260).
SpoiltBriefly == missed <= MissMax * faults

\* A verdict is about the write it stands beside: unless something older was
\* still on its way or somebody touched the window, "echo-matched" means that
\* the window took the value, "echo-clamped" that it took another
\* (docs/DIAGNOSTICS.md:187, atmoph_diag.py:333).
VerdictTrue == clean => /\ test.verdict = "echo-matched" => outcome = "taken"
                        /\ test.verdict = "echo-clamped" => outcome = "limited"

\* However the echoes are lost, late or mutilated, the tool leaves the
\* settings as it found them (atmoph_diag.py:302, "put the old value back").
\* 'excused' excepts what it does not make up for: a setting it never learnt
\* of or that someone else changed, a restoring write that the window does not
\* take, a write that reached the window though its response was lost
\* (atmoph_diag.py:319), and a setting tested again after an echo of its first
\* test was late or lost (atmoph_diag.py:416).
PutsBack == pc \in {"stop", "done"} /\ ~excused => panel = original

\* The tool ends, though the window may announce something for ever
\* (atmoph_diag.py:113: one timeout over all documents passed over).
TestEnds == <>(pc = "done")
=============================================================================
