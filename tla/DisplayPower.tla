---------------------------- MODULE DisplayPower ----------------------------
(***************************************************************************)
(* AtmophClient.set_power and the display it drives.                       *)
(*                                                                         *)
(* The window offers one power command, a toggle.  set_power turns it into *)
(* an absolute "on" or "off": look at the reported state, toggle if it is  *)
(* not the one asked for, poll for the confirmation, and go round once     *)
(* more after a longer pause.  Nothing is locked between the look and the  *)
(* toggle, so several calls, and the periodic refresh that holds the       *)
(* client's lock while it reads, interleave here as they do on the loop.   *)
(*                                                                         *)
(* Time is counted in ticks of one polling interval (half a second).  A    *)
(* sleep lasts at least as long as it asks: the loop may run the step that *)
(* follows it late, but never early.                                       *)
(***************************************************************************)
EXTENDS Integers

CONSTANTS
    Callers,     \* the set_power calls that may overlap (services, automations)
    Attempts,    \* toggles a call may send                 (_POWER_ATTEMPTS)
    Polls,       \* looks at the display after each toggle  (_POWER_POLLS)
    RetryTicks,  \* pause before the next attempt           (_POWER_RETRY_DELAY)
    DropTicks,   \* the window discards a toggle this soon after the last one
    ConfirmMax,  \* the display reports a change at most this late
    PollHold,    \* the periodic refresh holds the lock at most this long
    Cap,         \* ticks beyond which "since" need not be told apart
    Garbled,     \* TRUE iff a read of the power state may come back unusable
    Faults,      \* TRUE iff a read or write may raise
    Touched      \* TRUE iff something else toggles the display too: its panel,
                 \* or the send_command service with the raw sleep_toggle

ASSUME TimingAssumption ==
    /\ Attempts \in Nat \ {0} /\ Polls \in Nat \ {0} /\ RetryTicks \in Nat
    /\ DropTicks \in Nat /\ ConfirmMax \in Nat /\ PollHold \in Nat
    /\ Cap \in Nat /\ Cap > DropTicks /\ Cap > ConfirmMax
    /\ {Garbled, Faults, Touched} \subseteq BOOLEAN

VARIABLES
    panel,     \* TRUE iff the display is on, or switching on
    report,    \* what the power characteristic answers
    since,     \* ticks since a toggle last took effect, at most Cap
    polling,   \* TRUE while the periodic refresh holds the client's lock
    held,      \* ticks it has held it
    pc,        \* pc[c]: where c's set_power stands
    desired,   \* desired[c]: the state c's latest call asks for
    attempt,   \* attempt[c]: which attempt it is on, from 1
    polls,     \* polls[c]: polls of this attempt that were not the answer
    timer,     \* timer[c]: ticks left of c's sleep
    outcome,   \* outcome[c]: how c's latest call ended
    landed,    \* landed[c]: toggles of c's latest call that took effect
    clean      \* clean[c]: that call began with nothing left unreported

window == <<panel, report, since>>
refresh == <<polling, held>>
history == <<landed, clean>>
vars == <<window, refresh, pc, desired, attempt, polls, timer, outcome, history>>

Phases == {"idle", "look", "send", "await", "pause"}
Outcomes == {"none", "ok", "not_confirmed", "failed"}

TypeOK ==
    /\ panel \in BOOLEAN /\ report \in BOOLEAN
    /\ since \in 0..Cap
    /\ polling \in BOOLEAN /\ held \in 0..PollHold
    /\ pc \in [Callers -> Phases]
    /\ desired \in [Callers -> BOOLEAN]
    /\ attempt \in [Callers -> 1..Attempts]
    /\ polls \in [Callers -> 0..(Polls - 1)]
    /\ timer \in [Callers -> Nat]
    /\ outcome \in [Callers -> Outcomes]
    /\ landed \in [Callers -> Nat]
    /\ clean \in [Callers -> BOOLEAN]

Init ==
    /\ panel \in BOOLEAN /\ report = panel
    /\ since \in 0..Cap
    /\ polling = FALSE /\ held = 0
    /\ pc = [c \in Callers |-> "idle"]
    /\ desired \in [Callers -> BOOLEAN]
    /\ attempt = [c \in Callers |-> 1]
    /\ polls = [c \in Callers |-> 0]
    /\ timer = [c \in Callers |-> 0]
    /\ outcome = [c \in Callers |-> "none"]
    /\ landed = [c \in Callers |-> 0]
    /\ clean = [c \in Callers |-> TRUE]

-----------------------------------------------------------------------------
(* The display, which is not part of the repository.                       *)

\* A toggle written now takes effect, unless the last one is too recent.
Accepts == since > DropTicks

ToggleWindow == /\ panel' = IF Accepts THEN ~panel ELSE panel
                /\ since' = IF Accepts THEN 0 ELSE since
                /\ UNCHANGED report

\* The change becomes visible to a reader.
Report == /\ report # panel
          /\ report' = panel
          /\ UNCHANGED <<panel, since, refresh, pc, desired, attempt, polls,
                         timer, outcome, history>>

\* A toggle that is nobody's set_power takes effect.
Touch == /\ Touched
         /\ panel' = ~panel /\ since' = 0
         /\ UNCHANGED <<report, refresh, pc, desired, attempt, polls, timer,
                        outcome, history>>

-----------------------------------------------------------------------------
(* set_power                                                               *)

\* A call starts with its first look: no sleep before attempt one.
Call(c, d) ==
    /\ pc[c] = "idle"
    /\ pc' = [pc EXCEPT ![c] = "look"]
    /\ desired' = [desired EXCEPT ![c] = d]
    /\ attempt' = [attempt EXCEPT ![c] = 1]
    /\ outcome' = [outcome EXCEPT ![c] = "none"]
    /\ landed' = [landed EXCEPT ![c] = 0]
    /\ clean' = [clean EXCEPT ![c] = (report = panel)]
    /\ UNCHANGED <<window, refresh, polls, timer>>

\* The call returns or raises.
Finish(c, how) == /\ pc' = [pc EXCEPT ![c] = "idle"]
                  /\ outcome' = [outcome EXCEPT ![c] = how]
                  /\ polls' = [polls EXCEPT ![c] = 0]
                  /\ timer' = [timer EXCEPT ![c] = 0]
                  /\ UNCHANGED <<desired, attempt>>

\* A slip: toggling without the look.
LookBlind(c) == /\ pc[c] = "look"
                /\ pc' = [pc EXCEPT ![c] = "send"]
                /\ UNCHANGED <<window, refresh, desired, attempt, polls, timer,
                               outcome, history>>

\* Read before toggling.  An unusable answer is stored as unknown, which is
\* not the state asked for, so it leads to a toggle like the opposite state.
Look(c) ==
    /\ pc[c] = "look"
    /\ \/ /\ report = desired[c]
          /\ Finish(c, "ok")
       \/ /\ report # desired[c] \/ Garbled
          /\ pc' = [pc EXCEPT ![c] = "send"]
          /\ UNCHANGED <<desired, attempt, polls, timer, outcome>>
    /\ UNCHANGED <<window, refresh, history>>

\* send_command("sleep_toggle"): the write needs the lock, which a refresh
\* may be holding, and is the first step after the look that can wait.
Send(c) ==
    /\ pc[c] = "send"
    /\ ~polling
    /\ ToggleWindow
    /\ landed' = [landed EXCEPT ![c] = IF Accepts THEN @ + 1 ELSE @]
    /\ pc' = [pc EXCEPT ![c] = "await"]
    /\ polls' = [polls EXCEPT ![c] = 0]
    /\ timer' = [timer EXCEPT ![c] = 1]
    /\ UNCHANGED <<refresh, desired, attempt, outcome, clean>>

\* Slips in the polling: one poll too many; taking any answer for the
\* confirmation; and polling until the answer comes.
OnePollMore(c) == polls[c] = Polls
PollTrusting(c) == /\ pc[c] = "await" /\ timer[c] = 0
                   /\ Finish(c, "ok")
                   /\ UNCHANGED <<window, refresh, history>>
PollForEver(c) == /\ pc[c] = "await" /\ timer[c] = 0
                  /\ IF report = desired[c]
                     THEN Finish(c, "ok")
                     ELSE /\ timer' = [timer EXCEPT ![c] = 1]
                          /\ UNCHANGED <<pc, desired, attempt, polls, outcome>>
                  /\ UNCHANGED <<window, refresh, history>>

\* The poll, or the attempt, is the last one of its loop.
LastPoll(c) == polls[c] + 1 = Polls
LastAttempt(c) == attempt[c] = Attempts

\* One round of _await_power.  Here an unusable answer raises.
Poll(c) ==
    /\ pc[c] = "await" /\ timer[c] = 0
    /\ \/ /\ report = desired[c]
          /\ Finish(c, "ok")
       \/ /\ Garbled
          /\ Finish(c, "failed")
       \/ /\ report # desired[c] /\ ~LastPoll(c)
          /\ polls' = [polls EXCEPT ![c] = @ + 1]
          /\ timer' = [timer EXCEPT ![c] = 1]
          /\ UNCHANGED <<pc, desired, attempt, outcome>>
       \/ /\ report # desired[c] /\ LastPoll(c) /\ ~LastAttempt(c)
          /\ pc' = [pc EXCEPT ![c] = "pause"]
          /\ attempt' = [attempt EXCEPT ![c] = @ + 1]
          /\ polls' = [polls EXCEPT ![c] = 0]
          /\ timer' = [timer EXCEPT ![c] = RetryTicks]
          /\ UNCHANGED <<desired, outcome>>
       \/ /\ report # desired[c] /\ LastPoll(c) /\ LastAttempt(c)
          /\ Finish(c, "not_confirmed")
    /\ UNCHANGED <<window, refresh, history>>

\* A slip: the retry toggles at once.
ResumeBlind(c) ==
    /\ pc[c] = "pause" /\ timer[c] = 0
    /\ pc' = [pc EXCEPT ![c] = "send"]
    /\ UNCHANGED <<window, refresh, desired, attempt, polls, timer, outcome,
                   history>>

\* The retry pause is over; the next attempt looks first.
Resume(c) ==
    /\ pc[c] = "pause" /\ timer[c] = 0
    /\ pc' = [pc EXCEPT ![c] = "look"]
    /\ UNCHANGED <<window, refresh, desired, attempt, polls, timer, outcome,
                   history>>

\* A read or a write raises, and the call with it.
Break(c) ==
    /\ Faults
    /\ pc[c] \in {"look", "send"} \/ (pc[c] = "await" /\ timer[c] = 0)
    /\ Finish(c, "failed")
    /\ UNCHANGED <<window, refresh, history>>

\* The toggle reaches the window but its response is lost, so the call fails
\* over a toggle that took effect.
SendUnanswered(c) ==
    /\ Faults
    /\ pc[c] = "send"
    /\ ~polling
    /\ ToggleWindow
    /\ landed' = [landed EXCEPT ![c] = IF Accepts THEN @ + 1 ELSE @]
    /\ Finish(c, "failed")
    /\ UNCHANGED <<refresh, clean>>

-----------------------------------------------------------------------------
(* The periodic refresh, as far as the lock it holds, and time.            *)

\* c's toggle has only just been written.
JustSent(c) == pc[c] = "await" /\ polls[c] = 0 /\ timer[c] = 1

\* asyncio.Lock is first come, first served: a refresh does not overtake a
\* toggle that is waiting, unless it has waited longer, for the write of
\* another call.
RefreshStart ==
    /\ ~polling
    /\ \A c \in Callers : pc[c] = "send" => \E d \in Callers \ {c} : JustSent(d)
    /\ polling' = TRUE /\ held' = 0
    /\ UNCHANGED <<window, pc, desired, attempt, polls, timer, outcome, history>>

RefreshEnd ==
    /\ polling
    /\ polling' = FALSE /\ held' = 0
    /\ UNCHANGED <<window, pc, desired, attempt, polls, timer, outcome, history>>

\* Half a second passes.  It does not pass between a look and its toggle
\* when the lock is free (no suspension point separates them), nor beyond
\* what the display or the refresh may take.
Tick ==
    /\ report # panel => since < ConfirmMax
    /\ polling => held < PollHold
    /\ \A c \in Callers : pc[c] = "send" => polling
    /\ since' = IF since < Cap THEN since + 1 ELSE since
    /\ held' = IF polling THEN held + 1 ELSE held
    /\ timer' = [c \in Callers |-> IF timer[c] > 0 THEN timer[c] - 1 ELSE 0]
    /\ UNCHANGED <<panel, report, polling, pc, desired, attempt, polls, outcome,
                   history>>

-----------------------------------------------------------------------------
Step(c) == Look(c) \/ Send(c) \/ Poll(c) \/ Resume(c)

Next ==
    \/ \E c \in Callers, d \in BOOLEAN : Call(c, d)
    \/ \E c \in Callers : Step(c) \/ Break(c) \/ SendUnanswered(c)
    \/ Report \/ Touch
    \/ RefreshStart \/ RefreshEnd
    \/ Tick

\* The loop runs whatever is due, time passes, and the display answers.
\* Nobody is obliged to call, to touch, or to fail.
Fairness == /\ \A c \in Callers : WF_vars(Step(c))
            /\ WF_vars(Report) /\ WF_vars(RefreshEnd) /\ WF_vars(Tick)

Spec == Init /\ [][Next]_vars
FairSpec == Spec /\ Fairness

-----------------------------------------------------------------------------
(* Properties                                                              *)

\* A toggle that set_power sends and the window accepts moves the display
\* from the opposite of what its call asked for to what it asked for, never
\* back (client.py:313-317).
NeverInverts ==
    [][\A c \in Callers : landed'[c] > landed[c] => panel' = desired[c]]_vars

\* A call that began over a settled display never lands a second toggle,
\* however late within the polling and the pause the display reports the
\* first (client.py:27-29, client.py:313-317).
OneToggleLands == \A c \in Callers : clean[c] => landed[c] <= 1

\* Every call returns or raises: over a display that confirms after all the
\* polls or never, because it dropped the toggle, and over requests that fail
\* at any point (client.py:306-334).
EveryCallEnds == \A c \in Callers : (pc[c] # "idle") ~> (pc[c] = "idle")

\* Toggling behind a look implements setting: see PowerControl.
Promise == INSTANCE PowerControl WITH
               asking <- [c \in Callers |-> pc[c] # "idle"]
PromiseKept == Promise!Spec
-----------------------------------------------------------------------------
(* Why it holds: what each property rests on, as inductive invariants.     *)

\* The display has not reported its latest change yet.
Unreported == report # panel

\* What makes overlapping calls safe: the display reports within the time in
\* which the window drops a toggle, and nothing delays a toggle after its look.
Prompt == ConfirmMax <= DropTicks /\ PollHold = 0 /\ ~Garbled

\* A look that was wrong, or is no longer right, is recent enough for the
\* window to drop the toggle it leads to (PROTOCOL.md:305-306).
PromptInv ==
    /\ Unreported => since <= ConfirmMax
    /\ \A c \in Callers :
           pc[c] = "send" => panel # desired[c] \/ since <= DropTicks

\* What makes a call safe that nothing else overlaps: the display reports
\* within the polls, the retry waits out the drop, and the link holds.
Lone == /\ \A c1, c2 \in Callers : c1 = c2
        /\ Attempts >= 2 /\ ConfirmMax < Polls /\ DropTicks < Polls + RetryTicks
        /\ ~Garbled /\ ~Faults /\ ~Touched

\* At least n ticks have passed since a toggle last took effect, as far as
\* the capped count tells.
Past(n) == since = Cap \/ since >= n

\* Only the polls of the call that changed the display see it unreported;
\* whoever looks or toggles does so over a settled display, and a second
\* attempt finds a window that drops no toggle.
LoneInv ==
    /\ Unreported => since <= ConfirmMax
    /\ \A c \in Callers :
        /\ Unreported => pc[c] = "await" /\ panel = desired[c]
        /\ pc[c] = "send" => panel # desired[c]
        /\ pc[c] \in {"look", "send"} /\ attempt[c] > 1 => since > DropTicks
        /\ pc[c] = "await" => /\ timer[c] <= 1
                              /\ Past(polls[c] + 1 - timer[c])
                              /\ panel # desired[c] => attempt[c] = 1
        /\ pc[c] = "pause" => /\ attempt[c] > 1 /\ timer[c] <= RetryTicks
                              /\ Past(Polls + RetryTicks - timer[c])

\* What keeps one call from undoing itself, with nothing overlapping it: the
\* display reports before the next attempt looks.
Late == /\ \A c1, c2 \in Callers : c1 = c2
        /\ ConfirmMax < Polls + RetryTicks
        /\ ~Garbled /\ ~Touched

\* A call that began over a settled display and has toggled it looks again
\* only once that toggle is reported, and then has nothing left to toggle.
LateInv ==
    /\ Unreported => since <= ConfirmMax
    /\ OneToggleLands
    /\ \A c \in Callers : clean[c] /\ pc[c] # "idle" =>
        /\ landed[c] > 0 => panel = desired[c]
        /\ pc[c] = "send" => panel # desired[c]
        /\ Unreported =>
            /\ landed[c] > 0
            /\ \/ pc[c] = "await" /\ Past(polls[c] + 1 - timer[c])
               \/ pc[c] = "pause" /\ Past(Polls + RetryTicks - timer[c])
=============================================================================
