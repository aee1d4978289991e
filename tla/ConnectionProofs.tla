-------------------------- MODULE ConnectionProofs --------------------------
(***************************************************************************)
(* What Connection's run link_serial shows for one task over three links,  *)
(* proved for any links, kinds, faults and callbacks: as long as           *)
(* coroutines do not overlap, no link is opened beside another, orphaned   *)
(* or given up while it works, and the entities tell the truth about it.   *)
(***************************************************************************)
EXTENDS Connection, SequenceTheorems, TLAPS

\* One coroutine at a time, the unload between two of them, and disconnects
\* that do what they are asked.  With two coroutines NoOrphan fails.
Serial == /\ \A t, u \in Tasks : t = u
          /\ ~ShutdownAnyTime /\ ~HangUpFails

Hanging == {"clear", "abandon", "giveup"}
Cleared == Hanging \cup {"dial"}

\* What waits on the loop: a link whose loss was reported is down, and had
\* pushed before it was lost.
InQueue(q, x) == \E i \in DOMAIN q : q[i] = x
PushesFirst(q) == \A i, j \in DOMAIN q, l \in Links :
                      i < j /\ q[i] = <<"mark", l>> => q[j] # <<"push", l>>
QueueInv == /\ \A l \in Links : Waiting("mark", l) => l \notin open
            /\ PushesFirst(queue)

\* What a task holds in each phase, and that the references are clear while it
\* closes or dials.
TaskInv == \A t \in Tasks :
    /\ pc[t] \in {"idle", "dial"} => hand[t] = None
    /\ pc[t] \notin Hanging => closing[t] = None
    /\ pc[t] # "idle" => stop = "no"
    /\ pc[t] \in Cleared => bleak = None /\ client = None
    /\ pc[t] \in Hanging => open \subseteq {hand[t]}
    /\ pc[t] = "dial" => open = {}
    /\ pc[t] = "init" => client = None
    /\ pc[t] \in {"init", "use"} => hand[t] \in Links /\ bleak \in {hand[t], None}

\* The references: outside the phases above no link is up but self._bleak's,
\* and its client is published unless it is being initialized.
RefInv == /\ client \in {bleak, None}
          /\ bleak # None /\ bleak \notin open => Waiting("mark", bleak)
          /\ (\A t \in Tasks : pc[t] # "init") => client = bleak
          /\ stop = "no" /\ (\A t \in Tasks : pc[t] \notin Cleared)
                 => open \subseteq {bleak}

\* Once the entry is unloaded only the shutdown holds a link.
StopInv == /\ stop # "no" => bleak = None /\ open \subseteq {stopHand}
           /\ stop # "closing" => stopHand = None

Held == TaskInv /\ RefInv /\ StopInv

\* Entities that are available with reason have a client, or an update is in
\* progress, which will publish one or report that it failed.
TruthInv == stop = "no" /\ success /\ ~groundless =>
                \/ client # None
                \/ \E t \in Tasks : pc[t] # "idle" /\ kind[t] = "update"

-----------------------------------------------------------------------------
(* Types                                                                   *)

\* What the tasks' own cleanups leave typed.
HandsTyped == /\ bleak \in Handles /\ client \in Handles
              /\ pc \in [Tasks -> Phases]
              /\ hand \in [Tasks -> Handles] /\ closing \in [Tasks -> Handles]
              /\ success \in BOOLEAN /\ groundless \in BOOLEAN

LEMMA CleanUpTyped ==
    ASSUME TypeOK, NEW t \in Tasks, CleanUp(t) PROVE HandsTyped'
<1> USE DEF TypeOK, HandsTyped, Phases, Handles, Await, CleanUp, Detach, refs, entities,
           Unavailable
<1>1. CASE Holding
  BY <1>1
<1>2. CASE ~Holding
  BY <1>2
<1> QED
  BY <1>1, <1>2

LEMMA RaiseTyped ==
    ASSUME TypeOK, NEW t \in Tasks, Raise(t) PROVE HandsTyped'
<1>1. CASE kind[t] = "update"
  BY <1>1, CleanUpTyped DEF Raise
<1>2. CASE kind[t] # "update"
  BY <1>2 DEF TypeOK, HandsTyped, Phases, Handles, Raise, Await, refs,
            entities
<1> QED
  BY <1>1, <1>2

LEMMA DropTyped ==
    ASSUME TypeOK, NEW l \in Links, Drop(l)
    PROVE  /\ open' \subseteq Links /\ pushes' \subseteq open'
           /\ queue' \in Seq({"mark", "push"} \X Links)
BY DEF TypeOK, Drop

LEMMA Typing == TypeOK /\ [Next]_vars => TypeOK'
<1> SUFFICES ASSUME TypeOK, [Next]_vars PROVE TypeOK'
  OBVIOUS
<1> USE ConnectionAssumption DEF TypeOK, Phases, Handles, Await, refs, tasks, entities, shutdown
<1>1. ASSUME NEW t \in Tasks, NEW k \in Kinds, Start(t, k) PROVE TypeOK'
  <2>1. groundless' \in BOOLEAN
    BY <1>1, Zenon DEF Start
  <2> QED
    BY <1>1, <2>1 DEF Start, Begin, Detach
<1>2. ASSUME NEW t \in Tasks, NEW k \in Kinds, Unreachable(t, k) PROVE TypeOK'
  <2>1. HandsTyped'
    <3>1. CASE k = "update"
      BY <1>2, <3>1, CleanUpTyped DEF Unreachable
    <3>2. CASE k # "update"
      BY <1>2, <3>2 DEF Unreachable, HandsTyped
    <3> QED
      BY <3>1, <3>2
  <2>2. Begin(t, k) /\ Fault /\ UNCHANGED <<open, pushes, queue, shutdown>>
    BY <1>2 DEF Unreachable
  <2> QED
    BY <2>1, <2>2 DEF Begin, Fault, HandsTyped
<1>3. ASSUME NEW t \in Tasks, Close(t) PROVE TypeOK'
  BY <1>3 DEF Close
<1>4. ASSUME NEW t \in Tasks, Disconnect(t) PROVE TypeOK'
  BY <1>4, DropTyped DEF Disconnect
<1>5. ASSUME NEW t \in Tasks, HungUp(t) PROVE TypeOK'
  <2>1. faults' \in 0..MaxFaults
    BY <1>5 DEF HungUp, HangsUp, Fault
  <2>2. HandsTyped'
    <3>1. CASE Raise(t)
      BY <3>1, RaiseTyped
    <3>2. CASE ~Raise(t)
      BY <1>5, <3>2 DEF HungUp, HandsTyped, Unavailable
    <3> QED
      BY <3>1, <3>2
  <2> QED
    BY <1>5, <2>1, <2>2 DEF HungUp, HandsTyped
<1>6. ASSUME NEW t \in Tasks, Dialled(t) PROVE TypeOK'
  BY <1>6 DEF Dialled
<1>7. ASSUME NEW t \in Tasks, DialFails(t) PROVE TypeOK'
  BY <1>7, RaiseTyped DEF DialFails, Fault, HandsTyped
<1>8. ASSUME NEW t \in Tasks, Initialized(t) PROVE TypeOK'
  BY <1>8 DEF Initialized
<1>9. ASSUME NEW t \in Tasks, InitFails(t) PROVE TypeOK'
  <2>1. faults' \in 0..MaxFaults
    BY <1>9 DEF InitFails, Fault
  <2> QED
    <3>1. CASE Holding
      <4>1. /\ Detach(t, "abandon") /\ pc[t] = "init"
            /\ UNCHANGED <<open, pushes, kind, queue, shutdown, entities>>
        BY <1>9, <3>1 DEF InitFails
      <4> QED
        BY <2>1, <4>1 DEF Detach
    <3>2. CASE ~Holding
      BY <1>9, <2>1, <3>2, RaiseTyped DEF InitFails, HandsTyped
    <3> QED
      BY <3>1, <3>2
<1>10. ASSUME NEW t \in Tasks, UseSucceeds(t) \/ UseSwallows(t) PROVE TypeOK'
  BY <1>10 DEF UseSucceeds, UseSwallows, Done, AvailableBy
<1>11. ASSUME NEW t \in Tasks, UseFails(t) PROVE TypeOK'
  <2>1. faults' \in 0..MaxFaults
    BY <1>11 DEF UseFails, Fault
  <2> QED
    BY <1>11, <2>1, RaiseTyped DEF UseFails, HandsTyped
<1>12. ASSUME NEW t \in Tasks, Cancel(t) PROVE TypeOK'
  BY <1>12 DEF Cancel
<1>13. ASSUME NEW l \in Links, LinkDrops(l) PROVE TypeOK'
  BY <1>13, DropTyped DEF LinkDrops, Fault
<1>14. ASSUME NEW l \in Links, Notify(l) PROVE TypeOK'
  BY <1>14 DEF Notify
<1>15. CASE RunCallback
  <2>1. queue' \in Seq({"mark", "push"} \X Links)
    BY <1>15, HeadTailProperties DEF RunCallback
  <2>2. /\ bleak' \in Handles /\ client' \in Handles
        /\ success' \in BOOLEAN /\ groundless' \in BOOLEAN
    BY <1>15 DEF RunCallback, MarkDisconnected, PublishPushedState, Unavailable,
                     AvailableBy
  <2> QED
    BY <1>15, <2>1, <2>2 DEF RunCallback
<1>16. CASE Shutdown
  BY <1>16 DEF Shutdown
<1>17. CASE ShutdownHangsUp
  BY <1>17, DropTyped DEF ShutdownHangsUp
<1>18. CASE UNCHANGED vars
  BY <1>18 DEF vars
<1> QED
  BY <1>1, <1>2, <1>3, <1>4, <1>5, <1>6, <1>7, <1>8, <1>9, <1>10, <1>11,
     <1>12, <1>13, <1>14, <1>15, <1>16, <1>17, <1>18 DEF Next, Step

\* The references, tasks and callbacks of the coordinator keep their types, and
\* only an open link's client has its callback set, for any number of tasks
\* and links (coordinator.py:168-324).
THEOREM TypeCorrect == Spec => []TypeOK
<1>1. Init => TypeOK
  <2> SUFFICES ASSUME Init PROVE TypeOK
    OBVIOUS
  <2>1. success \in BOOLEAN /\ groundless \in BOOLEAN
    BY Zenon DEF Init
  <2>2. pc \in [Tasks -> Phases] /\ kind \in [Tasks -> {"update", "call"}]
    BY DEF Init, Phases
  <2>3. hand \in [Tasks -> Handles] /\ closing \in [Tasks -> Handles]
    BY DEF Init, Handles
  <2> QED
    BY <2>1, <2>2, <2>3, ConnectionAssumption DEF Init, TypeOK, Handles
<1> QED
  BY <1>1, Typing, PTL DEF Spec

-----------------------------------------------------------------------------
(* The loop's queue of callbacks                                           *)

Callbacks == {"mark", "push"} \X Links

\* What joins the queue joins it behind the rest.

\* What joins the queue joins it behind the rest.
LEMMA Queued ==
    ASSUME NEW q \in Seq(Callbacks), NEW e \in Callbacks
    PROVE  /\ \A x : InQueue(Append(q, e), x) <=> (InQueue(q, x) \/ x = e)
           /\ (PushesFirst(q) /\ \A l \in Links : e = <<"push", l>>
                                     => ~InQueue(q, <<"mark", l>>))
                  => PushesFirst(Append(q, e))
<1> DEFINE n == Len(q)  r == Append(q, e)
<1>1. /\ n \in Nat /\ DOMAIN q = 1..n /\ DOMAIN r = 1..(n + 1)
      /\ \A i \in 1..n : r[i] = q[i]
      /\ r[n + 1] = e
  OBVIOUS
<1> HIDE DEF n, r
<1>2. \A x : InQueue(r, x) <=> (InQueue(q, x) \/ x = e)
  <2> TAKE x
  <2>1. ASSUME InQueue(r, x) PROVE InQueue(q, x) \/ x = e
    BY <1>1, <2>1 DEF InQueue
  <2>2. ASSUME InQueue(q, x) PROVE InQueue(r, x)
    BY <1>1, <2>2 DEF InQueue
  <2>3. ASSUME x = e PROVE InQueue(r, x)
    BY <1>1, <2>3 DEF InQueue
  <2> QED
    BY <2>1, <2>2, <2>3
<1>3. ASSUME PushesFirst(q),
             \A l \in Links : e = <<"push", l>> => ~InQueue(q, <<"mark", l>>)
      PROVE  PushesFirst(r)
  <2> SUFFICES ASSUME NEW i \in 1..(n + 1), NEW j \in 1..(n + 1), NEW l \in Links,
                      i < j, r[i] = <<"mark", l>>
               PROVE  r[j] # <<"push", l>>
    BY <1>1 DEF PushesFirst
  <2>1. i \in 1..n /\ q[i] = <<"mark", l>> /\ InQueue(q, <<"mark", l>>)
    BY <1>1 DEF InQueue
  <2>2. CASE j \in 1..n
    BY <1>1, <1>3, <2>1, <2>2 DEF PushesFirst
  <2>3. CASE j = n + 1
    BY <1>1, <1>3, <2>1, <2>3
  <2> QED
    BY <1>1, <2>2, <2>3
<1> QED
  BY <1>2, <1>3 DEF r

\* What leaves it leaves at the front.
LEMMA Dequeued ==
    ASSUME NEW q \in Seq(Callbacks), q # <<>>
    PROVE  /\ Head(q) \in Callbacks
           /\ \A x : InQueue(Tail(q), x) => InQueue(q, x)
           /\ \A x : InQueue(q, x) => InQueue(Tail(q), x) \/ x = Head(q)
           /\ PushesFirst(q) => PushesFirst(Tail(q))
           /\ PushesFirst(q) => \A l \in Links : Head(q) = <<"mark", l>>
                  => ~InQueue(Tail(q), <<"push", l>>)
<1> DEFINE n == Len(q)  r == Tail(q)
<1>1. /\ n \in Nat \ {0} /\ DOMAIN q = 1..n /\ DOMAIN r = 1..(n - 1)
      /\ \A i \in 1..(n - 1) : r[i] = q[i + 1]
      /\ Head(q) = q[1] /\ Head(q) \in Callbacks
  OBVIOUS
<1> HIDE DEF n, r
<1>2. ASSUME NEW x, InQueue(r, x) PROVE InQueue(q, x)
  BY <1>1, <1>2 DEF InQueue
<1>3. ASSUME NEW x, InQueue(q, x) PROVE InQueue(r, x) \/ x = Head(q)
  <2>1. PICK i \in 1..n : q[i] = x
    BY <1>1, <1>3 DEF InQueue
  <2>2. CASE i = 1
    BY <1>1, <2>1, <2>2
  <2>3. CASE i # 1
    <3>1. i - 1 \in 1..(n - 1) /\ r[i - 1] = x
      BY <1>1, <2>1, <2>3
    <3> QED
      BY <1>1, <3>1 DEF InQueue
  <2> QED
    BY <2>2, <2>3
<1>4. ASSUME PushesFirst(q) PROVE PushesFirst(r)
  <2> SUFFICES ASSUME NEW i \in 1..(n - 1), NEW j \in 1..(n - 1), NEW l \in Links,
                      i < j, r[i] = <<"mark", l>>
               PROVE  r[j] # <<"push", l>>
    BY <1>1 DEF PushesFirst
  <2>1. i + 1 \in 1..n /\ j + 1 \in 1..n /\ i + 1 < j + 1
    BY <1>1
  <2>2. q[i + 1] = <<"mark", l>> /\ r[j] = q[j + 1]
    BY <1>1
  <2> QED
    BY <1>1, <1>4, <2>1, <2>2 DEF PushesFirst
<1>5. ASSUME PushesFirst(q), NEW l \in Links, Head(q) = <<"mark", l>>
      PROVE  ~InQueue(r, <<"push", l>>)
  <2> SUFFICES ASSUME NEW i \in 1..(n - 1), r[i] = <<"push", l>> PROVE FALSE
    BY <1>1 DEF InQueue
  <2>1. 1 \in 1..n /\ i + 1 \in 1..n /\ 1 < i + 1 /\ q[i + 1] = <<"push", l>>
    BY <1>1
  <2> QED
    BY <1>1, <1>5, <2>1 DEF PushesFirst
<1> QED
  BY <1>1, <1>2, <1>3, <1>4, <1>5 DEF r

\* A drop puts its mark behind what waits, and takes nothing away.
LEMMA Dropped ==
    ASSUME TypeOK, QueueInv, NEW l \in Links, Drop(l)
    PROVE  /\ open' = open \ {l}
           /\ \A x : InQueue(queue', x) <=> (InQueue(queue, x) \/ x = <<"mark", l>>)
           /\ QueueInv'
<1> USE DEF Callbacks
<1>1. <<"mark", l>> \in Callbacks /\ queue \in Seq(Callbacks)
  BY DEF TypeOK
<1>2. queue' = Append(queue, <<"mark", l>>) /\ open' = open \ {l}
  BY DEF Drop
<1>3. \A m \in Links : <<"mark", l>> # <<"push", m>>
  OBVIOUS
<1>4. \A x : InQueue(queue', x) <=> (InQueue(queue, x) \/ x = <<"mark", l>>)
  BY <1>1, <1>2, Queued, Zenon
<1>5. PushesFirst(queue')
  BY <1>1, <1>2, <1>3, Queued, Zenon DEF QueueInv
<1>6. ASSUME NEW m \in Links, InQueue(queue', <<"mark", m>>) PROVE m \notin open'
  BY <1>2, <1>4, <1>6 DEF QueueInv, Waiting, InQueue
<1> QED
  BY <1>2, <1>4, <1>5, <1>6 DEF QueueInv, Waiting, InQueue

LEMMA QueueStep == TypeOK /\ QueueInv /\ [Next]_vars => QueueInv'
<1> SUFFICES ASSUME TypeOK, QueueInv, [Next]_vars PROVE QueueInv'
  OBVIOUS
<1>1. CASE UNCHANGED <<open, queue>>
  BY <1>1 DEF QueueInv, Waiting
<1>2. ASSUME NEW t \in Tasks, Disconnect(t) PROVE QueueInv'
  BY <1>2, Dropped DEF Disconnect, TypeOK
<1>3. ASSUME NEW t \in Tasks, Dialled(t) PROVE QueueInv'
  BY <1>3 DEF Dialled, Fresh, QueueInv, Waiting
<1>4. ASSUME NEW l \in Links, LinkDrops(l) PROVE QueueInv'
  BY <1>4, Dropped DEF LinkDrops
<1>5. ASSUME NEW l \in Links, Notify(l) PROVE QueueInv'
  <2>1. <<"push", l>> \in Callbacks /\ queue \in Seq(Callbacks)
    BY DEF TypeOK, Callbacks
  <2>2. l \in open /\ open' = open /\ queue' = Append(queue, <<"push", l>>)
    BY <1>5 DEF Notify, TypeOK
  <2>3. ~InQueue(queue, <<"mark", l>>)
    BY <2>2 DEF QueueInv, Waiting, InQueue
  <2>4. PushesFirst(queue')
    BY <2>1, <2>2, <2>3, Queued DEF QueueInv
  <2>5. ASSUME NEW m \in Links, InQueue(queue', <<"mark", m>>) PROVE m \notin open'
    <3>1. InQueue(queue, <<"mark", m>>)
      BY <2>1, <2>2, <2>5, Queued
    <3> QED
      BY <2>2, <3>1 DEF QueueInv, Waiting, InQueue
  <2> QED
    BY <2>4, <2>5 DEF QueueInv, Waiting, InQueue
<1>6. CASE RunCallback
  <2>1. queue \in Seq(Callbacks) /\ queue # <<>> /\ queue' = Tail(queue) /\ open' = open
    BY <1>6 DEF RunCallback, TypeOK, Callbacks
  <2>2. \A x : InQueue(queue', x) => InQueue(queue, x)
    BY <2>1, Dequeued, Zenon
  <2>3. PushesFirst(queue')
    BY <2>1, Dequeued DEF QueueInv
  <2> QED
    BY <2>1, <2>2, <2>3 DEF QueueInv, Waiting, InQueue
<1>7. CASE ShutdownHangsUp
  <2>1. CASE stopHand \in open
    BY <1>7, <2>1, Dropped DEF ShutdownHangsUp, TypeOK
  <2>2. CASE stopHand \notin open
    BY <1>1, <1>7, <2>2 DEF ShutdownHangsUp
  <2> QED
    BY <2>1, <2>2
<1> QED
  <2>1. ASSUME NEW t \in Tasks, Step(t) \/ Cancel(t) PROVE QueueInv'
    BY <1>1, <1>2, <1>3, <2>1
       DEF Step, Close, HungUp, DialFails, Initialized, InitFails, UseSucceeds,
           UseSwallows, Done, UseFails, Cancel
  <2>2. ASSUME NEW t \in Tasks, NEW k \in Kinds, Start(t, k) \/ Unreachable(t, k)
        PROVE  QueueInv'
    BY <1>1, <2>2 DEF Start, Unreachable
  <2>3. CASE Shutdown \/ UNCHANGED vars
    BY <1>1, <2>3 DEF Shutdown, vars
  <2> QED
    BY <1>4, <1>5, <1>6, <1>7, <2>1, <2>2, <2>3 DEF Next

-----------------------------------------------------------------------------
(* One task: where the links are                                           *)

LEMMA HeldStep == Serial /\ TypeOK /\ QueueInv /\ Held /\ [Next]_vars => Held'
<1> SUFFICES ASSUME Serial, TypeOK, QueueInv, Held, [Next]_vars PROVE Held'
  OBVIOUS
<1> USE ConnectionAssumption
    DEF Serial, TypeOK, Held, TaskInv, RefInv, StopInv, Cleared, Hanging, Phases,
        Handles, Await, refs, tasks, entities, shutdown, Waiting
<1>1. ASSUME NEW t \in Tasks, NEW k \in Kinds, Start(t, k) PROVE Held'
  BY <1>1 DEF Start, Begin, Detach, Holding
<1>2. ASSUME NEW t \in Tasks, NEW k \in Kinds, Unreachable(t, k) PROVE Held'
  BY <1>2 DEF Unreachable, Begin, Fault, CleanUp, Detach, Holding
<1>3. ASSUME NEW t \in Tasks, Close(t) PROVE Held'
  BY <1>3 DEF Close
<1>4. ASSUME NEW t \in Tasks, Disconnect(t) PROVE Held'
  BY <1>4, Dropped DEF Disconnect
<1>5. ASSUME NEW t \in Tasks, HungUp(t) PROVE Held'
  BY <1>5 DEF HungUp, HangsUp, Raise, CleanUp, Detach, Holding
<1>6. ASSUME NEW t \in Tasks, Dialled(t) PROVE Held'
  BY <1>6 DEF Dialled
<1>7. ASSUME NEW t \in Tasks, DialFails(t) PROVE Held'
  BY <1>7 DEF DialFails, Fault, Raise, CleanUp, Detach, Holding
<1>8. ASSUME NEW t \in Tasks, Initialized(t) PROVE Held'
  BY <1>8 DEF Initialized
<1>9. ASSUME NEW t \in Tasks, InitFails(t) PROVE Held'
  BY <1>9 DEF InitFails, Fault, Raise, CleanUp, Detach, Holding
<1>10. ASSUME NEW t \in Tasks, UseSucceeds(t) \/ UseSwallows(t) PROVE Held'
  BY <1>10 DEF UseSucceeds, UseSwallows, Done
<1>11. ASSUME NEW t \in Tasks, UseFails(t) PROVE Held'
  BY <1>11 DEF UseFails, Fault, Raise, CleanUp, Detach, Holding
<1>12. ASSUME NEW t \in Tasks, Cancel(t) PROVE Held'
  BY <1>12 DEF Cancel
<1>13. ASSUME NEW l \in Links, LinkDrops(l) PROVE Held'
  <2>1. Drop(l) /\ UNCHANGED <<refs, tasks, entities, shutdown>>
    BY <1>13 DEF LinkDrops
  <2>2. /\ open' = open \ {l}
        /\ \A x : InQueue(queue', x) <=> (InQueue(queue, x) \/ x = <<"mark", l>>)
    BY <2>1, Dropped
  <2>3. bleak # None /\ bleak \notin open' => InQueue(queue', <<"mark", bleak>>)
    BY <2>2 DEF InQueue
  <2> QED
    BY <2>1, <2>2, <2>3 DEF InQueue
<1>14. ASSUME NEW l \in Links, Notify(l) PROVE Held'
  BY <1>14, Queued DEF Notify
<1>15. CASE RunCallback
  <2>1. /\ queue \in Seq(Callbacks) /\ queue # <<>> /\ queue' = Tail(queue)
        /\ UNCHANGED <<open, tasks, shutdown>>
    BY <1>15 DEF RunCallback, Callbacks
  <2>2. PICK w \in {"mark", "push"}, l \in Links : Head(queue) = <<w, l>>
    BY <2>1, Dequeued DEF Callbacks
  <2>3. \A x : InQueue(queue, x) => InQueue(queue', x) \/ x = <<w, l>>
    BY <2>1, <2>2, Dequeued
  <2>4. IF w = "mark" THEN MarkDisconnected(l) ELSE PublishPushedState(l)
    <3>1. IF Head(queue)[1] = "mark"
          THEN MarkDisconnected(Head(queue)[2]) ELSE PublishPushedState(Head(queue)[2])
      BY <1>15, Zenon DEF RunCallback
    <3> QED
      BY <2>2, <3>1
  <2>5. CASE w = "mark" /\ l = bleak
    <3>1. InQueue(queue, Head(queue))
      BY <2>1, HeadTailProperties DEF InQueue
    <3>2. bleak \notin open
      BY <2>2, <2>5, <3>1 DEF QueueInv, InQueue
    <3>3. bleak' = None /\ client' = None
      BY <2>4, <2>5 DEF MarkDisconnected
    <3> QED
      BY <2>1, <2>5, <3>2, <3>3
  <2>6. CASE ~(w = "mark" /\ l = bleak)
    <3>1. UNCHANGED refs
      BY <2>4, <2>6 DEF MarkDisconnected, PublishPushedState
    <3>2. bleak # None /\ bleak \notin open => InQueue(queue', <<"mark", bleak>>)
      BY <2>3, <2>6 DEF InQueue
    <3> QED
      BY <2>1, <3>1, <3>2 DEF InQueue
  <2> QED
    BY <2>5, <2>6
<1>16. CASE Shutdown
  BY <1>16 DEF Shutdown
<1>17. CASE ShutdownHangsUp
  BY <1>17, Dropped DEF ShutdownHangsUp
<1>18. CASE UNCHANGED vars
  BY <1>18 DEF vars
<1> QED
  BY <1>1, <1>2, <1>3, <1>4, <1>5, <1>6, <1>7, <1>8, <1>9, <1>10, <1>11,
     <1>12, <1>13, <1>14, <1>15, <1>16, <1>17, <1>18 DEF Next, Step

\* A loss reported is a link that is down and stays so, and what a link pushed
\* is on the loop before its loss: for any tasks, overlapping or not
\* (coordinator.py:251-299).
THEOREM QueueOrdered == Spec => []QueueInv
<1>1. Init => QueueInv
  BY DEF Init, QueueInv, Waiting, PushesFirst
<1>2. TypeOK /\ QueueInv /\ [Next]_vars => QueueInv'
  BY QueueStep
<1> QED
  BY <1>1, <1>2, TypeCorrect, PTL DEF Spec

LEMMA LinksHeld == Serial => (Spec => [](TypeOK /\ QueueInv /\ Held))
<1> SUFFICES ASSUME Serial PROVE Spec => [](TypeOK /\ QueueInv /\ Held)
  OBVIOUS
<1>1. Init => Held
  BY DEF Init, Held, TaskInv, RefInv, StopInv, Hanging, Cleared
<1>2. TypeOK /\ QueueInv /\ Held /\ [Next]_vars => Held'
  BY HeldStep
<1> QED
  BY <1>1, <1>2, TypeCorrect, QueueOrdered, PTL DEF Spec

\* Every open link is in one place: with the shutdown, in the hand of the task
\* that closes it, or in self._bleak.
LEMMA OnePlace ==
    ASSUME Serial, TypeOK, Held
    PROVE  \/ open \subseteq {stopHand}
           \/ \E t \in Tasks : open \subseteq {hand[t]}
           \/ open \subseteq {bleak}
BY DEF Held, TaskInv, RefInv, StopInv, Cleared

\* As long as coroutines do not overlap, two links are never open at the same
\* time: every path into establish_connection has first hung up whatever was
\* there (coordinator.py:173-210, 301-311).
THEOREM OneLinkAlways == Serial => (Spec => []OneLink)
<1> SUFFICES ASSUME Serial PROVE Spec => []OneLink
  OBVIOUS
<1>1. TypeOK /\ Held => OneLink
  BY OnePlace DEF OneLink
<1> QED
  BY <1>1, LinksHeld, PTL

\* As long as coroutines do not overlap, every open link is one that the
\* coordinator, the shutdown or the task at work still refers to and will
\* close (coordinator.py:181-183, 301-311).
THEOREM NoOrphanAlways == Serial => (Spec => []NoOrphan)
<1> SUFFICES ASSUME Serial PROVE Spec => []NoOrphan
  OBVIOUS
<1>1. TypeOK /\ Held => NoOrphan
  BY OnePlace DEF NoOrphan
<1> QED
  BY <1>1, LinksHeld, PTL

\* As long as coroutines do not overlap, a published client is the one over
\* self._bleak, and once its link is down the callback that will take it for
\* that is on the loop (coordinator.py:274-288).
THEOREM LossIsNoticedAlways == Serial => (Spec => []LossIsNoticed)
<1> SUFFICES ASSUME Serial PROVE Spec => []LossIsNoticed
  OBVIOUS
<1>1. TypeOK /\ Held => LossIsNoticed
  BY DEF Held, RefInv, LossIsNoticed
<1> QED
  BY <1>1, LinksHeld, PTL

\* An entry that is unloaded between two tasks leaves no connection behind
\* (coordinator.py:168-171, 301-311).
THEOREM ShutdownReleasesAlways == Serial => (Spec => []ShutdownReleases)
<1> SUFFICES ASSUME Serial PROVE Spec => []ShutdownReleases
  OBVIOUS
<1>1. TypeOK /\ Held => ShutdownReleases
  BY ConnectionAssumption DEF TypeOK, Held, StopInv, ShutdownReleases
<1> QED
  BY <1>1, LinksHeld, PTL

\* As long as coroutines do not overlap, the reference to an open link is
\* cleared only by a task that failed or by the shutdown: neither a late
\* callback nor the start of a task takes a working connection away
\* (coordinator.py:173-185, 279-285).
THEOREM HealthyLinkKeptAlways == Serial => (Spec => HealthyLinkKept)
<1> SUFFICES ASSUME Serial PROVE Spec => HealthyLinkKept
  OBVIOUS
<1>1. TypeOK /\ QueueInv /\ Held /\ [Next]_vars
        => [(bleak \in open /\ bleak' # bleak)
              => stop # stop' \/ \E t \in Tasks : GivesUp(t)]_vars
  <2> SUFFICES ASSUME TypeOK, QueueInv, Held, Next, bleak \in open, bleak' # bleak
               PROVE  stop # stop' \/ \E t \in Tasks : GivesUp(t)
    OBVIOUS
  <2>1. bleak \in Links /\ bleak # None
    BY ConnectionAssumption DEF TypeOK
  <2> USE DEF Serial, TypeOK, Held, TaskInv, RefInv, StopInv, Cleared, Hanging,
              Await, refs, tasks, entities, shutdown, GivesUp
  <2>2. CASE \E t \in Tasks : Step(t) \/ Cancel(t)
    <3> PICK t \in Tasks : Step(t) \/ Cancel(t)
      BY <2>2
    <3>1. pc[t] \notin Cleared
      BY <2>1
    <3>2. CASE InitFails(t)
      BY <2>1, <3>2 DEF InitFails, Holding, Detach
    <3>3. CASE UseFails(t)
      BY <2>1, <3>3 DEF UseFails, Raise, CleanUp, Holding, Detach
    <3> QED
      BY <3>1, <3>2, <3>3
         DEF Step, Close, Disconnect, HungUp, Dialled, DialFails, Initialized,
             UseSucceeds, UseSwallows, Done, Cancel
  <2>3. CASE \E t \in Tasks, k \in Kinds : Start(t, k) \/ Unreachable(t, k)
    \* Neither begins where the client there is works.
    <3> PICK t \in Tasks, k \in Kinds : Start(t, k) \/ Unreachable(t, k)
      BY <2>3
    <3>1. pc[t] = "idle" /\ stop = "no"
      BY DEF Start, Unreachable, Begin
    <3>2. client = bleak
      BY <3>1
    <3> QED
      BY <3>1, <3>2 DEF Start, Unreachable, Detach
  <2>4. CASE \E l \in Links : LinkDrops(l) \/ Notify(l)
    BY <2>4 DEF LinkDrops, Notify
  <2>5. CASE RunCallback
    \* A mark is of a link that is down.
    <3>1. queue \in Seq(Callbacks) /\ queue # <<>>
      BY <2>5 DEF RunCallback, Callbacks
    <3>2. PICK w \in {"mark", "push"}, l \in Links : Head(queue) = <<w, l>>
      BY <3>1, Dequeued DEF Callbacks
    <3>3. InQueue(queue, <<w, l>>)
      BY <3>1, <3>2, HeadTailProperties DEF InQueue
    <3>4. w = "mark" => l \notin open
      BY <3>3 DEF QueueInv, Waiting, InQueue
    <3>5. IF Head(queue)[1] = "mark"
          THEN MarkDisconnected(Head(queue)[2]) ELSE PublishPushedState(Head(queue)[2])
      BY <2>5, Zenon DEF RunCallback
    <3>6. IF w = "mark" THEN MarkDisconnected(l) ELSE PublishPushedState(Head(queue)[2])
      BY <3>2, <3>5
    <3> QED
      BY <3>4, <3>6 DEF MarkDisconnected, PublishPushedState
  <2>6. CASE Shutdown \/ ShutdownHangsUp
    BY <2>6 DEF Shutdown, ShutdownHangsUp
  <2> QED
    BY <2>2, <2>3, <2>4, <2>5, <2>6 DEF Next
<1> QED
  BY <1>1, LinksHeld, PTL DEF Spec, HealthyLinkKept

-----------------------------------------------------------------------------
(* One task: what the entities are told                                    *)

LEMMA TruthStep ==
    Serial /\ TypeOK /\ Held /\ TruthInv /\ [Next]_vars => TruthInv'
<1> SUFFICES ASSUME Serial, TypeOK, Held, TruthInv, [Next]_vars,
                    stop' = "no", success', ~groundless', client' = None,
                    \A t \in Tasks : pc'[t] # "idle" => kind'[t] # "update"
             PROVE  FALSE
  BY DEF TruthInv
<1>0. stop = "no"
  BY DEF TypeOK, Next, Step, Close, Disconnect, HungUp, Dialled, DialFails, Initialized,
         InitFails, UseSucceeds, UseSwallows, Done, UseFails, Cancel, Start,
         Unreachable, LinkDrops, Notify, RunCallback, Shutdown, ShutdownHangsUp,
         tasks, shutdown, vars
<1> USE <1>0, ConnectionAssumption
    DEF Serial, TypeOK, Held, TaskInv, RefInv, StopInv, Cleared, Hanging, Await, refs,
        tasks, entities, shutdown, Unavailable, AvailableBy, TruthInv
<1>1. ASSUME NEW t \in Tasks, NEW k \in Kinds, Start(t, k) PROVE FALSE
  <2>1. kind'[t] = k /\ pc'[t] # "idle" /\ pc[t] = "idle"
    BY <1>1 DEF Start, Begin, Detach
  <2>2. k = "call"
    BY <2>1
  <2> QED
    BY <1>1, <2>1, <2>2 DEF Start, Detach
<1>2. ASSUME NEW t \in Tasks, NEW k \in Kinds, Unreachable(t, k) PROVE FALSE
  <2>1. kind'[t] = k /\ pc[t] = "idle"
    BY <1>2 DEF Unreachable, Begin
  <2>2. CASE k = "update"
    BY <1>2, <2>1, <2>2 DEF Unreachable, CleanUp, Detach
  <2>3. CASE k # "update"
    BY <1>2, <2>1, <2>3 DEF Unreachable
  <2> QED
    BY <2>2, <2>3
<1>3. ASSUME NEW t \in Tasks, Close(t) \/ Disconnect(t) PROVE FALSE
  BY <1>3 DEF Close, Disconnect
<1>4. ASSUME NEW t \in Tasks, Dialled(t) \/ Initialized(t) PROVE FALSE
  BY <1>4 DEF Dialled, Initialized
<1>5. ASSUME NEW t \in Tasks, HungUp(t) \/ DialFails(t) PROVE FALSE
  BY <1>5 DEF HungUp, DialFails, Raise, CleanUp, Detach
<1>6. ASSUME NEW t \in Tasks, InitFails(t) PROVE FALSE
  BY <1>6 DEF InitFails, Raise, CleanUp, Detach
<1>7. ASSUME NEW t \in Tasks, UseFails(t) PROVE FALSE
  BY <1>7 DEF UseFails, Raise, CleanUp, Detach
<1>8. ASSUME NEW t \in Tasks, UseSucceeds(t) \/ UseSwallows(t) PROVE FALSE
  \* What it publishes has reason only if its link is still the client's.
  BY <1>8 DEF UseSucceeds, UseSwallows, Done
<1>9. ASSUME NEW t \in Tasks, Cancel(t) PROVE FALSE
  BY <1>9 DEF Cancel
<1>10. ASSUME NEW l \in Links, LinkDrops(l) \/ Notify(l) PROVE FALSE
  BY <1>10 DEF LinkDrops, Notify
<1>11. CASE RunCallback
  <2>1. /\ queue \in Seq(Callbacks) /\ queue # <<>>
        /\ UNCHANGED <<pc, kind>>
    BY <1>11 DEF RunCallback, Callbacks
  <2>2. PICK w \in {"mark", "push"}, l \in Links : Head(queue) = <<w, l>>
    BY <2>1, Dequeued DEF Callbacks
  <2>3. IF w = "mark" THEN MarkDisconnected(l) ELSE PublishPushedState(l)
    <3>1. IF Head(queue)[1] = "mark"
          THEN MarkDisconnected(Head(queue)[2]) ELSE PublishPushedState(Head(queue)[2])
      BY <1>11, Zenon DEF RunCallback
    <3> QED
      BY <2>2, <3>1
  <2>4. CASE w = "mark"
    BY <2>1, <2>3, <2>4 DEF MarkDisconnected
  <2>5. CASE w = "push"
    \* A push with reason is one of the client's own link.
    <3>1. /\ success' = TRUE /\ groundless' = (l # client)
          /\ client' = client
      BY <2>3, <2>5 DEF PublishPushedState
    <3>2. l # None
      OBVIOUS
    <3> QED
      BY <3>1, <3>2
  <2> QED
    BY <2>4, <2>5
<1>12. CASE Shutdown \/ ShutdownHangsUp
  BY <1>12 DEF Shutdown, ShutdownHangsUp
<1>13. CASE UNCHANGED vars
  BY <1>13 DEF vars
<1> QED
  BY <1>1, <1>2, <1>3, <1>4, <1>5, <1>6, <1>7, <1>8, <1>9, <1>10, <1>11, <1>12, <1>13
     DEF Next, Step

\* As long as coroutines do not overlap, once the loop is quiet entities that
\* are available have an open link behind them, but for the three ways of
\* Grounded: a call that cleared a lost link's references before the loss was
\* marked, a push that ran after its link was given up, a view-id read that
\* swallowed the loss (coordinator.py:73-109, 260-311, client.py:285-289).
THEOREM GroundedAlways == Serial => (Spec => []Grounded)
<1> SUFFICES ASSUME Serial PROVE Spec => []Grounded
  OBVIOUS
<1>1. Init => TruthInv
  BY DEF Init, TruthInv
<1>2. TypeOK /\ Held /\ TruthInv /\ [Next]_vars => TruthInv'
  BY TruthStep
<1>3. TypeOK /\ Held /\ TruthInv => Grounded
  \* An idle loop has no mark on it, so the published client's link is up.
  BY DEF TypeOK, Held, RefInv, TruthInv, Grounded, Quiet, Waiting
<1> QED
  BY <1>1, <1>2, <1>3, LinksHeld, PTL DEF Spec
=============================================================================
