------------------------- MODULE DisplayPowerProofs -------------------------
(***************************************************************************)
(* What DisplayPower's runs show for one choice of the timings, proved for *)
(* every choice: the types, that a prompt display is never toggled the     *)
(* wrong way however many calls overlap, and that a call nothing overlaps  *)
(* implements PowerControl.                                                *)
(***************************************************************************)
EXTENDS DisplayPower, TLAPS

LEMMA Typing == TypeOK /\ [Next]_vars => TypeOK'
<1> SUFFICES ASSUME TypeOK, [Next]_vars PROVE TypeOK'
  OBVIOUS
<1> USE TimingAssumption DEF TypeOK, Phases, Outcomes
<1>1. ASSUME NEW c \in Callers, NEW d \in BOOLEAN, Call(c, d) PROVE TypeOK'
  BY <1>1 DEF Call, window, refresh, history
<1>2. ASSUME NEW c \in Callers, Look(c) PROVE TypeOK'
  BY <1>2 DEF Look, Finish, window, refresh, history
<1>3. ASSUME NEW c \in Callers, Send(c) PROVE TypeOK'
  <2>1. panel' \in BOOLEAN
    BY <1>3, Zenon DEF Send, ToggleWindow
  <2> QED
    BY <1>3, <2>1 DEF Send, ToggleWindow, Accepts, window, refresh, history
<1>4. ASSUME NEW c \in Callers, Poll(c) PROVE TypeOK'
  <2> USE <1>4 DEF Poll, LastPoll, LastAttempt, Finish, window, refresh, history
  <2>1. CASE report = desired[c]
    BY <2>1
  <2>2. CASE report # desired[c] /\ polls[c] + 1 < Polls
    BY <2>2
  <2>3. CASE report # desired[c] /\ polls[c] + 1 = Polls
    BY <2>3
  <2> QED BY <2>1, <2>2, <2>3
<1>5. ASSUME NEW c \in Callers, Resume(c) PROVE TypeOK'
  BY <1>5 DEF Resume, window, refresh, history
<1>6. ASSUME NEW c \in Callers, Break(c) PROVE TypeOK'
  BY <1>6 DEF Break, Finish, window, refresh, history
<1>7. ASSUME NEW c \in Callers, SendUnanswered(c) PROVE TypeOK'
  <2>1. panel' \in BOOLEAN
    BY <1>7, Zenon DEF SendUnanswered, ToggleWindow
  <2> QED
    BY <1>7, <2>1 DEF SendUnanswered, ToggleWindow, Accepts, Finish, window,
                      refresh, history
<1>8. CASE Report
  BY <1>8 DEF Report, refresh, history
<1>12. CASE Touch
  <2>1. panel' \in BOOLEAN
    BY <1>12, Zenon DEF Touch
  <2>2. since' = 0 /\ UNCHANGED <<report, polling, held, pc, desired, attempt,
                                   polls, timer, outcome, landed, clean>>
    BY <1>12, Zenon DEF Touch, refresh, history
  <2> QED
    BY <2>1, <2>2
<1>9. CASE RefreshStart \/ RefreshEnd
  <2>1. polling' \in BOOLEAN
    BY <1>9, Zenon DEF RefreshStart, RefreshEnd
  <2> QED
    BY <1>9, <2>1 DEF RefreshStart, RefreshEnd, window, history
<1>10. CASE Tick
  BY <1>10 DEF Tick, history
<1>11. CASE UNCHANGED vars
  BY <1>11 DEF vars, window, refresh, history
<1> QED
  BY <1>1, <1>2, <1>3, <1>4, <1>5, <1>6, <1>7, <1>8, <1>9, <1>10, <1>11, <1>12
     DEF Next, Step

\* Every variable of set_power, its display and the refresh keeps its type,
\* whatever the timings (client.py:300-333).
THEOREM TypeCorrect == Spec => []TypeOK
<1>1. Init => TypeOK
  <2> SUFFICES ASSUME Init PROVE TypeOK
    OBVIOUS
  <2>1. panel \in BOOLEAN /\ report \in BOOLEAN
    BY Zenon DEF Init
  <2>2. clean \in [Callers -> BOOLEAN]
    BY Zenon DEF Init
  <2>3. outcome \in [Callers -> Outcomes] /\ pc \in [Callers -> Phases]
    BY Zenon DEF Init, Outcomes, Phases
  <2>4. polling \in BOOLEAN
    BY Zenon DEF Init
  <2> QED
    BY <2>1, <2>2, <2>3, <2>4, TimingAssumption DEF Init, TypeOK
<1> QED
  BY <1>1, Typing, PTL DEF Spec

-----------------------------------------------------------------------------
(* A prompt display and any number of calls.                               *)

LEMMA PromptStep == Prompt /\ TypeOK /\ PromptInv /\ [Next]_vars => PromptInv'
<1> SUFFICES ASSUME Prompt, TypeOK, PromptInv, [Next]_vars PROVE PromptInv'
  OBVIOUS
<1> USE TimingAssumption DEF TypeOK, Prompt, PromptInv, Unreported
<1>1. ASSUME NEW c \in Callers, NEW d \in BOOLEAN, Call(c, d) PROVE PromptInv'
  BY <1>1 DEF Call, window
<1>2. ASSUME NEW c \in Callers, Look(c) PROVE PromptInv'
  BY <1>2 DEF Look, Finish, window
<1>3. ASSUME NEW c \in Callers, Send(c) PROVE PromptInv'
  BY <1>3 DEF Send, ToggleWindow, Accepts
<1>4. ASSUME NEW c \in Callers, Poll(c) PROVE PromptInv'
  BY <1>4 DEF Poll, Finish, window
<1>5. ASSUME NEW c \in Callers, Resume(c) PROVE PromptInv'
  BY <1>5 DEF Resume, window
<1>6. ASSUME NEW c \in Callers, Break(c) PROVE PromptInv'
  BY <1>6 DEF Break, Finish, window
<1>7. ASSUME NEW c \in Callers, SendUnanswered(c) PROVE PromptInv'
  BY <1>7 DEF SendUnanswered, ToggleWindow, Accepts, Finish
<1>8. CASE Report \/ Touch
  BY <1>8 DEF Report, Touch
<1>9. CASE RefreshStart \/ RefreshEnd
  BY <1>9 DEF RefreshStart, RefreshEnd, window
<1>10. CASE Tick
  \* With PollHold = 0 no time passes under the lock, so nobody waits to send.
  BY <1>10 DEF Tick
<1>11. CASE UNCHANGED vars
  BY <1>11 DEF vars, window
<1> QED
  BY <1>1, <1>2, <1>3, <1>4, <1>5, <1>6, <1>7, <1>8, <1>9, <1>10, <1>11
     DEF Next, Step

\* Under the same timings whoever is about to send either sees a panel in the
\* other state or is within the drop time, and an unreported change is young:
\* the time between the look and the toggle costs nothing (client.py:315-324).
THEOREM PromptInvAlways == Prompt => (Spec => []PromptInv)
<1> SUFFICES ASSUME Prompt PROVE Spec => []PromptInv
  OBVIOUS
<1>1. Init => PromptInv
  BY DEF Init, PromptInv, Unreported
<1>2. TypeOK /\ PromptInv /\ [Next]_vars => PromptInv'
  BY PromptStep
<1> QED
  BY <1>1, <1>2, TypeCorrect, PTL DEF Spec

\* A display that reports a change within the time in which it drops toggles
\* is never toggled the wrong way, by any number of overlapping set_power
\* calls, with reads and writes failing and others toggling it, as long as no
\* read is garbled and no refresh keeps a toggle waiting (client.py:300-333).
THEOREM PromptNeverInverts == Prompt => (Spec => NeverInverts)
<1> SUFFICES ASSUME Prompt PROVE Spec => NeverInverts
  OBVIOUS
<1>1. Spec => []PromptInv
  BY PromptInvAlways
<1>2. TypeOK /\ PromptInv /\ [Next]_vars
        => [\A c \in Callers : landed'[c] > landed[c] => panel' = desired[c]]_vars
  <2> SUFFICES ASSUME TypeOK, PromptInv, Next,
                      NEW c \in Callers, landed'[c] > landed[c]
               PROVE  panel' = desired[c]
    BY DEF vars
  <2> USE DEF TypeOK
  <2>1. Send(c) \/ SendUnanswered(c)
    BY DEF Next, Step, Call, Look, Send, Poll, Resume, Break, SendUnanswered,
           Report, Touch, RefreshStart, RefreshEnd, Tick, history
  <2>2. since > DropTicks /\ panel' = ~panel
    BY <2>1 DEF Send, SendUnanswered, ToggleWindow, Accepts
  <2>3. pc[c] = "send"
    BY <2>1 DEF Send, SendUnanswered
  <2> QED
    BY <2>2, <2>3, TimingAssumption DEF PromptInv
<1> QED
  BY <1>1, <1>2, TypeCorrect, PTL DEF Spec, NeverInverts

-----------------------------------------------------------------------------
(* A call that nothing overlaps.                                           *)

LEMMA LoneStep == Lone /\ TypeOK /\ LoneInv /\ [Next]_vars => LoneInv'
<1> SUFFICES ASSUME Lone, TypeOK, LoneInv, [Next]_vars PROVE LoneInv'
  OBVIOUS
<1> USE TimingAssumption DEF TypeOK, Lone, LoneInv, Unreported, Past
<1>1. ASSUME NEW c \in Callers, NEW d \in BOOLEAN, Call(c, d) PROVE LoneInv'
  BY <1>1 DEF Call, window
<1>2. ASSUME NEW c \in Callers, Look(c) PROVE LoneInv'
  BY <1>2 DEF Look, Finish, window
<1>3. ASSUME NEW c \in Callers, Send(c) PROVE LoneInv'
  \* The look was over a settled display, so a toggle the window accepts
  \* leaves the panel where the call wants it; one it drops is a first attempt.
  <2>1. panel # desired[c] /\ ~Unreported
    BY <1>3 DEF Send
  <2>2. CASE Accepts
    <3>1. panel' = desired'[c] /\ since' = 0
      BY <1>3, <2>1, <2>2 DEF Send, ToggleWindow
    <3> QED
      BY <1>3, <2>2, <3>1 DEF Send, ToggleWindow
  <2>3. CASE ~Accepts
    <3>1. attempt[c] = 1
      BY <1>3, <2>3 DEF Send, Accepts
    <3> QED
      BY <1>3, <2>1, <2>3, <3>1 DEF Send, ToggleWindow
  <2> QED BY <2>2, <2>3
<1>4. ASSUME NEW c \in Callers, Poll(c) PROVE LoneInv'
  <2>1. CASE report = desired[c]
    BY <1>4, <2>1 DEF Poll, Finish, window
  <2>2. CASE report # desired[c] /\ polls[c] + 1 < Polls
    BY <1>4, <2>2 DEF Poll, LastPoll, LastAttempt, Finish, window
  <2>3. CASE report # desired[c] /\ polls[c] + 1 = Polls
    \* Polls ticks have passed, so the display has reported whatever changed.
    <3>1. ~Unreported
      BY <1>4, <2>3 DEF Poll, LastPoll, LastAttempt
    <3>2. attempt[c] = 1
      BY <1>4, <2>3, <3>1 DEF Poll, LastPoll, LastAttempt
    <3> QED
      BY <1>4, <2>3, <3>1, <3>2 DEF Poll, LastPoll, LastAttempt, Finish, window
  <2> QED BY <2>1, <2>2, <2>3, <1>4 DEF Poll, LastPoll, LastAttempt
<1>5. ASSUME NEW c \in Callers, Resume(c) PROVE LoneInv'
  BY <1>5 DEF Resume, window
<1>6. CASE Report
  BY <1>6 DEF Report, history
<1>7. CASE RefreshStart \/ RefreshEnd
  BY <1>7 DEF RefreshStart, RefreshEnd, window
<1>8. CASE Tick
  BY <1>8 DEF Tick, history
<1>9. CASE UNCHANGED vars
  BY <1>9 DEF vars, window
<1> QED
  BY <1>1, <1>2, <1>3, <1>4, <1>5, <1>6, <1>7, <1>8, <1>9
     DEF Next, Step, Break, SendUnanswered, Touch

LEMMA LoneRefines ==
    Lone /\ TypeOK /\ LoneInv /\ [Next]_vars => [Promise!Next]_(Promise!vars)
<1> SUFFICES ASSUME Lone, TypeOK, LoneInv, [Next]_vars
             PROVE  Promise!Next \/ UNCHANGED Promise!vars
  BY DEF Promise!vars
<1> USE DEF TypeOK, Lone, LoneInv, Unreported, Past
<1>1. ASSUME NEW c \in Callers, NEW d \in BOOLEAN, Call(c, d)
      PROVE  Promise!Begin(c, d)
  BY <1>1 DEF Call, window, Promise!Begin
<1>2. ASSUME NEW c \in Callers, Look(c)
      PROVE  Promise!End(c) \/ UNCHANGED Promise!vars
  BY <1>2 DEF Look, Finish, window, Promise!End, Promise!vars
<1>3. ASSUME NEW c \in Callers, Send(c)
      PROVE  Promise!Switch(c) \/ UNCHANGED Promise!vars
  <2>1. pc[c] = "send" /\ panel # desired[c] /\ UNCHANGED desired
    BY <1>3 DEF Send
  <2>2. \A b \in Callers : (pc'[b] # "idle") = (pc[b] # "idle")
    BY <1>3 DEF Send
  <2>3. panel' = desired[c] \/ panel' = panel
    BY <1>3, <2>1 DEF Send, ToggleWindow
  <2> QED
    BY <2>1, <2>2, <2>3 DEF Promise!Switch, Promise!vars
<1>4. ASSUME NEW c \in Callers, Poll(c)
      PROVE  Promise!End(c) \/ UNCHANGED Promise!vars
  <2>1. CASE report = desired[c] /\ Finish(c, "ok")
    <3>1. panel = desired[c]
      BY <1>4, <2>1 DEF Poll, LastPoll, LastAttempt
    <3> QED
      BY <1>4, <2>1, <3>1 DEF Poll, LastPoll, LastAttempt, Finish, window, Promise!End
  <2>2. CASE ~(report = desired[c] /\ Finish(c, "ok"))
    <3>1. ~(polls[c] + 1 = Polls /\ report # desired[c] /\ attempt[c] = Attempts)
      BY <1>4, TimingAssumption DEF Poll, LastPoll, LastAttempt
    <3> QED
      BY <1>4, <2>2, <3>1 DEF Poll, LastPoll, LastAttempt, window, Promise!vars
  <2> QED BY <2>1, <2>2
<1>5. ASSUME NEW c \in Callers, Resume(c) PROVE UNCHANGED Promise!vars
  BY <1>5 DEF Resume, window, Promise!vars
<1>6. CASE Report
  BY <1>6 DEF Report, Promise!vars
<1>7. CASE RefreshStart \/ RefreshEnd
  BY <1>7 DEF RefreshStart, RefreshEnd, window, Promise!vars
<1>8. CASE Tick
  BY <1>8 DEF Tick, Promise!vars
<1>9. CASE UNCHANGED vars
  BY <1>9 DEF vars, window, Promise!vars
<1> QED
  BY <1>1, <1>2, <1>3, <1>4, <1>5, <1>6, <1>7, <1>8, <1>9
     DEF Next, Step, Break, SendUnanswered, Touch, Promise!Next

\* During a lone call the age of its last toggle is tied to the poll count and
\* the timer: by the last poll everything is reported, and by the second
\* attempt the window drops nothing any more (client.py:300-333).
THEOREM LoneInvAlways == Lone => (Spec => []LoneInv)
<1> SUFFICES ASSUME Lone PROVE Spec => []LoneInv
  OBVIOUS
<1>1. Init => LoneInv
  BY DEF Init, LoneInv, Unreported
<1>2. TypeOK /\ LoneInv /\ [Next]_vars => LoneInv'
  BY LoneStep
<1> QED
  BY <1>1, <1>2, TypeCorrect, PTL DEF Spec

\* A set_power call that nothing overlaps sets the display: it switches it
\* only from the opposite state, only towards the state asked for, and returns
\* only once it is there - it never gives up - for every display that reports
\* within the polls of one attempt (client.py:300-333, README.md:43-47).
THEOREM LoneCallerKeepsPromise == Lone => (Spec => Promise!SafeSpec)
<1> SUFFICES ASSUME Lone PROVE Spec => Promise!SafeSpec
  OBVIOUS
<1>1. Init => Promise!Init
  BY DEF Init, Promise!Init
<1>2. Spec => []LoneInv
  BY LoneInvAlways
<1>3. TypeOK /\ LoneInv /\ [Next]_vars => [Promise!Next]_(Promise!vars)
  BY LoneRefines
<1> QED
  BY <1>1, <1>2, <1>3, TypeCorrect, PTL DEF Spec, Promise!SafeSpec

-----------------------------------------------------------------------------
(* A display that confirms late.                                           *)

LEMMA LateStep == Late /\ TypeOK /\ LateInv /\ [Next]_vars => LateInv'
<1> SUFFICES ASSUME Late, TypeOK, LateInv, [Next]_vars PROVE LateInv'
  OBVIOUS
<1> USE TimingAssumption
    DEF TypeOK, Late, LateInv, OneToggleLands, Unreported, Past
<1>1. ASSUME NEW c \in Callers, NEW d \in BOOLEAN, Call(c, d) PROVE LateInv'
  BY <1>1 DEF Call, window
<1>2. ASSUME NEW c \in Callers, Look(c) PROVE LateInv'
  BY <1>2 DEF Look, Finish, window, history
<1>3. ASSUME NEW c \in Callers, Send(c) PROVE LateInv'
  <2>1. CASE ~clean[c]
    BY <1>3, <2>1 DEF Send, ToggleWindow, Accepts
  <2>2. CASE clean[c]
    \* The panel is not where the call wants it, so nothing has landed yet.
    <3>1. landed[c] = 0 /\ panel # desired[c] /\ ~Unreported
      BY <1>3, <2>2 DEF Send
    <3>2. CASE Accepts
      <4>1. panel' = desired'[c] /\ since' = 0 /\ landed'[c] = 1
        BY <1>3, <3>1, <3>2 DEF Send, ToggleWindow
      <4> QED
        BY <1>3, <3>1, <3>2, <4>1 DEF Send, ToggleWindow
    <3>3. CASE ~Accepts
      BY <1>3, <3>1, <3>3 DEF Send, ToggleWindow
    <3> QED BY <3>2, <3>3
  <2> QED BY <2>1, <2>2
<1>4. ASSUME NEW c \in Callers, Poll(c) PROVE LateInv'
  BY <1>4 DEF Poll, LastPoll, Finish, window, history
<1>5. ASSUME NEW c \in Callers, Resume(c) PROVE LateInv'
  BY <1>5 DEF Resume, window, history
<1>6. ASSUME NEW c \in Callers, Break(c) PROVE LateInv'
  BY <1>6 DEF Break, Finish, window, history
<1>7. ASSUME NEW c \in Callers, SendUnanswered(c) PROVE LateInv'
  \* The call is over; what it landed, if anything, is its first toggle.
  <2>1. /\ pc' = [pc EXCEPT ![c] = "idle"]
        /\ UNCHANGED clean
    BY <1>7 DEF SendUnanswered, Finish
  <2> QED
    BY <1>7, <2>1 DEF SendUnanswered, ToggleWindow, Accepts, Finish
<1>8. CASE Report
  BY <1>8 DEF Report, history
<1>9. CASE RefreshStart \/ RefreshEnd
  BY <1>9 DEF RefreshStart, RefreshEnd, window, history
<1>10. CASE Tick
  BY <1>10 DEF Tick, history
<1>11. CASE UNCHANGED vars
  BY <1>11 DEF vars, window, history
<1> QED
  BY <1>1, <1>2, <1>3, <1>4, <1>5, <1>6, <1>7, <1>8, <1>9, <1>10, <1>11
     DEF Next, Step, Touch

\* As long as the display confirms before the pause is over, a call looks again
\* only once whatever its first toggle did is reported (client.py:300-333).
THEOREM LateInvAlways == Late => (Spec => []LateInv)
<1> SUFFICES ASSUME Late PROVE Spec => []LateInv
  OBVIOUS
<1>1. Init => LateInv
  BY DEF Init, LateInv, Unreported, OneToggleLands
<1>2. TypeOK /\ LateInv /\ [Next]_vars => LateInv'
  BY LateStep
<1> QED
  BY <1>1, <1>2, TypeCorrect, PTL DEF Spec

\* A call that nothing overlaps never lands two toggles, whatever request of it
\* fails, for every display that reports before the polls of one attempt and
\* the pause after them are over - a late confirmation is not an inversion
\* (client.py:313-317).
THEOREM LateDisplayOneToggle == Late => (Spec => []OneToggleLands)
<1> SUFFICES ASSUME Late PROVE Spec => []OneToggleLands
  OBVIOUS
<1>1. Spec => []LateInv
  BY LateInvAlways
<1>2. LateInv => OneToggleLands
  BY DEF LateInv
<1> QED
  BY <1>1, <1>2, PTL
=============================================================================
