----------------------------- MODULE Connection -----------------------------
(***************************************************************************)
(* AtmophCoordinator's one Bluetooth connection: the coroutines that make  *)
(* it, use it and give it up, the callbacks that report on it, and the     *)
(* shutdown that releases it.                                              *)
(*                                                                         *)
(* A task is a coroutine in progress: an update (the poll, or the refresh  *)
(* an advertisement asks for) or a call (a service, a button, a switch).   *)
(* Every one goes through _async_ensure_client, which takes no lock.  The  *)
(* code between two awaits is one step; the awaits are where tasks,        *)
(* callbacks, the shutdown and the link itself interleave.                 *)
(*                                                                         *)
(* A link stands for one BleakClient and the one AtmophClient over it.     *)
(***************************************************************************)
EXTENDS Integers, Sequences

CONSTANTS
    Tasks,             \* coroutines that may be in progress together
    Links,             \* BleakClient objects that something refers to at once
    None,              \* no link
    Kinds,             \* what tasks do: a subset of {"update", "call"}
    ViewId,            \* TRUE iff the window implements the view-id
                       \* characteristic, whose failing read is swallowed
    ShutdownAnyTime,   \* FALSE: the entry is unloaded only between tasks
    HangUpFails,       \* TRUE iff bleak.disconnect() may raise
    MaxFaults,         \* bound: drops, failed dials, failed reads or writes
    QueueMax           \* bound: callbacks waiting for the loop at a push

ASSUME ConnectionAssumption ==
    /\ None \notin Links
    /\ Kinds \subseteq {"update", "call"}
    /\ {ViewId, ShutdownAnyTime, HangUpFails} \subseteq BOOLEAN
    /\ MaxFaults \in Nat /\ QueueMax \in Nat

VARIABLES
    open,      \* the links that are up
    pushes,    \* the links whose client has its update callback set
    bleak,     \* self._bleak
    client,    \* self._client, named by its link
    pc,        \* pc[t]: where task t awaits
    kind,      \* kind[t]: what t's latest run is
    hand,      \* hand[t]: the link t itself holds: connecting, in use, closing
    closing,   \* closing[t]: the client t is closing, before hand[t]
    queue,     \* callbacks waiting on the loop: <<"mark", l>>, <<"push", l>>
    success,   \* last_update_success: entities are available
    groundless,\* history: what made them so is of a link that is no longer
               \* the client's, and no callback of its loss will tell
    stop,      \* the shutdown: "no", "closing" or "done"
    stopHand,  \* the link the shutdown is closing
    faults     \* faults so far

tasks == <<pc, kind, hand, closing>>
refs == <<bleak, client>>
entities == <<success, groundless>>
shutdown == <<stop, stopHand>>
vars == <<open, pushes, refs, tasks, queue, entities, shutdown, faults>>

Phases == {"idle", "clear", "dial", "init", "use", "abandon", "giveup"}
Handles == Links \cup {None}

TypeOK ==
    /\ open \subseteq Links /\ pushes \subseteq open
    /\ bleak \in Handles /\ client \in Handles
    /\ pc \in [Tasks -> Phases]
    /\ kind \in [Tasks -> {"update", "call"}]
    /\ hand \in [Tasks -> Handles] /\ closing \in [Tasks -> Handles]
    /\ queue \in Seq({"mark", "push"} \X Links)
    /\ success \in BOOLEAN /\ groundless \in BOOLEAN
    /\ stop \in {"no", "closing", "done"} /\ stopHand \in Handles
    /\ faults \in 0..MaxFaults

Init ==
    /\ open = {} /\ pushes = {}
    /\ bleak = None /\ client = None
    /\ pc = [t \in Tasks |-> "idle"]
    /\ kind = [t \in Tasks |-> "update"]
    /\ hand = [t \in Tasks |-> None] /\ closing = [t \in Tasks |-> None]
    /\ queue = <<>>
    /\ success = FALSE /\ groundless = FALSE
    /\ stop = "no" /\ stopHand = None
    /\ faults = 0

-----------------------------------------------------------------------------
(* Helpers                                                                 *)

Waiting(what, l) == \E i \in DOMAIN queue : queue[i] = <<what, l>>
Fault == faults < MaxFaults /\ faults' = faults + 1

\* No variable, task or callback refers to l.
Fresh(l) == /\ l \notin open \cup {bleak, client, stopHand}
            /\ \A t \in Tasks : l # hand[t] /\ l # closing[t]
            /\ ~Waiting("mark", l) /\ ~Waiting("push", l)

\* What the entities are told: that all is well, by link l, or that it is not.
AvailableBy(l) == success' = TRUE /\ groundless' = (l # client)

\* A slip: a failure leaves the entities as they were.
UnavailableNever == UNCHANGED entities

Unavailable == success' = FALSE /\ groundless' = FALSE

\* t goes on to await p, holding link h.
Await(t, p, h) == /\ pc' = [pc EXCEPT ![t] = p]
                  /\ hand' = [hand EXCEPT ![t] = h]

\* A slip: the bleak reference is cleared without having been taken.
DetachForgetting(t, p) == /\ Await(t, p, None)
                          /\ closing' = [closing EXCEPT ![t] = client]
                          /\ bleak' = None /\ client' = None

\* The first, synchronous half of _async_disconnect: both references are
\* taken and cleared before anything is awaited.
Detach(t, p) == /\ Await(t, p, bleak)
                /\ closing' = [closing EXCEPT ![t] = client]
                /\ bleak' = None /\ client' = None

\* With nothing to close, _async_disconnect awaits nothing.
Holding == bleak # None \/ client # None

\* An update's own cleanup.
CleanUp(t) == IF Holding
              THEN Detach(t, "giveup") /\ UNCHANGED entities
              ELSE /\ Await(t, "idle", None)
                   /\ Unavailable
                   /\ UNCHANGED <<refs, closing>>

\* What an exception out of ensure_client or the operation does: an update
\* disconnects before it reports the failure, a call only reports it.
Raise(t) == IF kind[t] = "update"
            THEN CleanUp(t)
            ELSE Await(t, "idle", None) /\ UNCHANGED <<refs, closing, entities>>

\* A slip: the link is made without a disconnect callback.
DropUnheard(l) == /\ open' = open \ {l} /\ pushes' = pushes \ {l}
                  /\ UNCHANGED queue

\* A link goes down, and its disconnect callback puts _mark_disconnected on
\* the loop.
Drop(l) == /\ open' = open \ {l} /\ pushes' = pushes \ {l}
           /\ queue' = Append(queue, <<"mark", l>>)

-----------------------------------------------------------------------------
(* Tasks                                                                   *)

\* Updates do not overlap one another (the debouncer's lock); an unloaded
\* entry starts nothing.
Begin(t, k) ==
    /\ stop = "no"
    /\ pc[t] = "idle"
    /\ k = "update" => \A u \in Tasks : pc[u] # "idle" => kind[u] # "update"
    /\ kind' = [kind EXCEPT ![t] = k]

\* A task begins with _async_ensure_client: the client there is, or a new
\* one once the old one is cleared away.  A call that clears away a lost one
\* leaves the entities as they were.
Start(t, k) ==
    /\ Begin(t, k)
    /\ IF client \in open
       THEN Await(t, "use", client) /\ UNCHANGED <<refs, closing, groundless>>
       ELSE /\ Detach(t, IF Holding THEN "clear" ELSE "dial")
            /\ groundless' = (groundless \/ (success /\ k = "call"))
    /\ UNCHANGED <<open, pushes, queue, success, shutdown, faults>>

\* Or no device is in reach.  What is held stays held by a call.
Unreachable(t, k) ==
    /\ Begin(t, k)
    /\ client \notin open
    /\ Fault
    /\ IF k = "update"
       THEN CleanUp(t)
       ELSE UNCHANGED <<refs, pc, hand, closing, entities>>
    /\ UNCHANGED <<open, pushes, queue, shutdown>>

\* The second half of _async_disconnect, first part: client.close() ends the
\* notifications.
Close(t) ==
    /\ closing[t] # None
    /\ pushes' = pushes \ {closing[t]}
    /\ closing' = [closing EXCEPT ![t] = None]
    /\ UNCHANGED <<open, refs, pc, kind, hand, queue, entities, shutdown, faults>>

\* Second part: bleak.disconnect() takes the link down.
Disconnect(t) ==
    /\ pc[t] \in {"clear", "abandon", "giveup"}
    /\ closing[t] = None
    /\ hand[t] \in open
    /\ Drop(hand[t])
    /\ UNCHANGED <<refs, tasks, entities, shutdown, faults>>

\* A slip: disconnect() is not called.
HangsUpNothing(t) == UNCHANGED faults

\* A disconnect() that raises is suppressed, and leaves the link up.
HangsUp(t) == IF hand[t] \in open THEN HangUpFails /\ Fault ELSE UNCHANGED faults

\* And the task goes on.  A link that was down already is not waited for, so
\* what it had pushed to the loop may be there still.
HungUp(t) ==
    /\ pc[t] \in {"clear", "abandon", "giveup"}
    /\ closing[t] = None
    /\ HangsUp(t)
    /\ \/ /\ pc[t] = "clear"
          /\ Await(t, "dial", None)
          /\ UNCHANGED <<refs, closing, entities>>
       \* what the failed initialize raised
       \/ /\ pc[t] = "abandon"
          /\ Raise(t)
       \/ /\ pc[t] = "giveup"
          /\ Await(t, "idle", None)
          /\ Unavailable
          /\ UNCHANGED <<refs, closing>>
    /\ UNCHANGED <<open, queue, kind, pushes, shutdown>>

\* establish_connection answers with a new, connected client: one that
\* nothing refers to yet.  Which one makes no difference.
Dialled(t) ==
    /\ pc[t] = "dial"
    /\ \E l \in Links : Fresh(l)
    /\ LET new == CHOOSE l \in Links : Fresh(l) IN
       /\ open' = open \cup {new}
       /\ bleak' = new
       /\ Await(t, "init", new)
    /\ UNCHANGED <<pushes, client, kind, closing, queue, entities, shutdown,
                   faults>>

\* establish_connection gives up after its attempts.
DialFails(t) ==
    /\ pc[t] = "dial"
    /\ Fault
    /\ Raise(t)
    /\ UNCHANGED <<open, pushes, kind, queue, shutdown>>

\* Slips: the client is not published; it is published although the last write
\* was not answered.
InitializedUnpublished(t) ==
    /\ pc[t] = "init" /\ hand[t] \in open
    /\ pushes' = pushes \cup {hand[t]}
    /\ Await(t, "use", hand[t])
    /\ UNCHANGED <<open, refs, kind, closing, queue, entities, shutdown, faults>>
InitializedAnyway(t) ==
    /\ pc[t] = "init"
    /\ pushes' = pushes \cup {hand[t]}
    /\ client' = hand[t]
    /\ Await(t, "use", hand[t])
    /\ UNCHANGED <<open, bleak, kind, closing, queue, entities, shutdown, faults>>

\* initialize ends with a write that was answered.  Only now is the update
\* callback set and the client published.
Initialized(t) ==
    /\ pc[t] = "init" /\ hand[t] \in open
    /\ pushes' = pushes \cup {hand[t]}
    /\ client' = hand[t]
    /\ Await(t, "use", hand[t])
    /\ UNCHANGED <<open, bleak, kind, closing, queue, entities, shutdown, faults>>

\* A subscription, read or write of initialize raises, or the window is the
\* wrong one.  The cleanup takes whatever the references hold by now.
InitFails(t) ==
    /\ pc[t] = "init"
    /\ IF hand[t] \in open THEN Fault ELSE UNCHANGED faults
    /\ IF Holding
       THEN Detach(t, "abandon") /\ UNCHANGED entities
       ELSE Raise(t)
    /\ UNCHANGED <<open, pushes, kind, queue, shutdown>>

\* The refresh or the command succeeds and its state is published.
Done(t) ==
    /\ Await(t, "idle", None)
    /\ AvailableBy(hand[t])
    /\ UNCHANGED <<open, pushes, refs, kind, closing, queue, shutdown, faults>>

UseSucceeds(t) == pc[t] = "use" /\ hand[t] \in open /\ Done(t)

\* The last read of a refresh, an update's or a call's, is the view id, and
\* that one's failure is swallowed even when the reason is that the link is gone.
UseSwallows(t) == /\ pc[t] = "use" /\ hand[t] \notin open
                  /\ ViewId
                  /\ Done(t)

UseFails(t) ==
    /\ pc[t] = "use"
    /\ IF hand[t] \in open THEN Fault ELSE UNCHANGED faults
    /\ Raise(t)
    /\ UNCHANGED <<open, pushes, kind, queue, shutdown>>

Step(t) == \/ Close(t) \/ Disconnect(t) \/ HungUp(t)
           \/ Dialled(t) \/ DialFails(t)
           \/ Initialized(t) \/ InitFails(t)
           \/ UseSucceeds(t) \/ UseSwallows(t) \/ UseFails(t)

-----------------------------------------------------------------------------
(* The link and the callbacks                                              *)

\* The window goes out of reach, or to sleep, or the phone takes it.
LinkDrops(l) ==
    /\ l \in open
    /\ Fault
    /\ Drop(l)
    /\ UNCHANGED <<refs, tasks, entities, shutdown>>

\* A notification: _handle_state puts _publish_pushed_state on the loop.
Notify(l) ==
    /\ l \in pushes
    /\ Len(queue) < QueueMax
    /\ queue' = Append(queue, <<"push", l>>)
    /\ UNCHANGED <<open, pushes, refs, tasks, entities, shutdown, faults>>

\* Slips: any link's loss counts; a loss is not reported.
MarkAny(l) == /\ bleak' = None /\ client' = None
              /\ IF stop = "no" THEN Unavailable ELSE UNCHANGED entities
MarkSilently(l) == /\ IF l = bleak
                      THEN bleak' = None /\ client' = None
                      ELSE UNCHANGED refs
                   /\ UNCHANGED entities

\* _mark_disconnected: only the current connection's loss counts.
MarkDisconnected(l) ==
    IF l = bleak
    THEN /\ bleak' = None /\ client' = None
         /\ IF stop = "no" THEN Unavailable ELSE UNCHANGED entities
    ELSE UNCHANGED <<refs, entities>>

\* _publish_pushed_state
PublishPushedState(l) == AvailableBy(l) /\ UNCHANGED refs

RunCallback ==
    /\ queue # <<>>
    /\ queue' = Tail(queue)
    /\ IF Head(queue)[1] = "mark"
       THEN MarkDisconnected(Head(queue)[2])
       ELSE PublishPushedState(Head(queue)[2])
    /\ UNCHANGED <<open, pushes, tasks, shutdown, faults>>

-----------------------------------------------------------------------------
(* The shutdown                                                            *)

\* A slip: the references are cleared, and nothing is disconnected.
ShutdownForgetting ==
    /\ stop = "no"
    /\ ShutdownAnyTime \/ \A t \in Tasks : pc[t] = "idle"
    /\ stop' = "closing" /\ stopHand' = None
    /\ bleak' = None /\ client' = None
    /\ UNCHANGED <<open, pushes, tasks, queue, entities, faults>>

\* async_shutdown: no refresh is started any more, then _async_disconnect.
\* It neither awaits nor cancels what is in progress.
Shutdown ==
    /\ stop = "no"
    /\ ShutdownAnyTime \/ \A t \in Tasks : pc[t] = "idle"
    /\ stop' = "closing" /\ stopHand' = bleak
    /\ bleak' = None /\ client' = None
    /\ UNCHANGED <<open, pushes, tasks, queue, entities, faults>>

ShutdownHangsUp ==
    /\ stop = "closing"
    /\ IF stopHand \in open THEN Drop(stopHand) ELSE UNCHANGED <<open, pushes, queue>>
    /\ stop' = "done" /\ stopHand' = None
    /\ UNCHANGED <<refs, tasks, entities, faults>>

\* Unloading cancels the entry's background refresh at its await, and
\* CancelledError passes every "except Exception".
Cancel(t) ==
    /\ stop # "no"
    /\ pc[t] # "idle" /\ kind[t] = "update"
    /\ Await(t, "idle", None)
    /\ closing' = [closing EXCEPT ![t] = None]
    /\ UNCHANGED <<open, pushes, refs, kind, queue, entities, shutdown, faults>>

-----------------------------------------------------------------------------
Next ==
    \/ \E t \in Tasks : Step(t) \/ Cancel(t)
    \/ \E t \in Tasks, k \in Kinds : Start(t, k) \/ Unreachable(t, k)
    \/ \E l \in Links : LinkDrops(l) \/ Notify(l)
    \/ RunCallback
    \/ Shutdown \/ ShutdownHangsUp

\* A call succeeds, and async_set_updated_data puts the next poll off.
PutsOff == \E t \in Tasks : kind[t] = "call" /\ (UseSucceeds(t) \/ UseSwallows(t))

\* Awaits end, the loop runs its callbacks, and the poll comes round unless
\* calls keep putting it off (coordinator.py:263-268).  Faults, calls,
\* notifications and the unload are nobody's duty.
Fairness == /\ \A t \in Tasks : WF_vars(Step(t))
            /\ []<><<PutsOff>>_vars \/ \A t \in Tasks : SF_vars(Start(t, "update"))
            /\ WF_vars(RunCallback) /\ WF_vars(ShutdownHangsUp)

Spec == Init /\ [][Next]_vars
FairSpec == Spec /\ Fairness

-----------------------------------------------------------------------------
(* Properties                                                              *)

\* The coordinator maintains one connection: two links are never open at the
\* same time (coordinator.py:39).
OneLink == \A l, m \in open : l = m

\* Somebody still holds every open link and will close or use it: nothing is
\* "a live link nothing will ever close" (coordinator.py:181-183).
NoOrphan == \A l \in open :
                l = bleak \/ l = stopHand \/ \E t \in Tasks : hand[t] = l

\* The loss of the published client's link is always on its way to
\* _mark_disconnected, and will not be taken for an older link's there
\* (coordinator.py:278-285).
LossIsNoticed == client # None =>
                    /\ client = bleak
                    /\ client \notin open => Waiting("mark", client)

GivesUp(t) == pc[t] # pc'[t] /\ pc'[t] \in {"abandon", "giveup"}

\* Nobody gives up a connection that works: the references to an open link
\* are cleared only by a task that failed, or by the shutdown
\* (coordinator.py:279-285).
HealthyLinkKept ==
    [][(bleak \in open /\ bleak' # bleak)
          => stop # stop' \/ \E t \in Tasks : GivesUp(t)]_vars

\* Everything that could still change what the entities show has settled.
Quiet == /\ queue = <<>> /\ stop = "no"
         /\ \A t \in Tasks : pc[t] = "idle"

\* Once the loop is quiet, entities that are available have a connection behind
\* them (coordinator.py:289-291), but for three ways in which the code leaves
\* them none: a call clears the references of a lost link before the loss is
\* marked; a push of a link that was given up runs after that; a refresh takes
\* the loss of the link for a window without a view id.
Grounded == Quiet /\ success => client \in open \/ groundless

\* And what they leave lasts until the next poll at most, or until calls that
\* put it off have found a connection: the poll connects or makes the entities
\* unavailable, whatever overlaps it (coordinator.py:70-79).
GroundlessEnds == (success /\ client \notin open)
                      ~> (~success \/ client \in open \/ stop # "no")

\* Once the entry is unloaded and its tasks have ended no connection is left
\* (test_integration.py:109-116).
ShutdownReleases == stop = "done" /\ (\A t \in Tasks : pc[t] = "idle")
                        => open = {}

\* An entry that stays loaded is connected again once faults cease.
Reconnects == <>(stop # "no" \/ [](client \in open))
=============================================================================
