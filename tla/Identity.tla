------------------------------ MODULE Identity ------------------------------
(***************************************************************************)
(* Which key a window's entities and device live under, and how it moves.  *)
(*                                                                         *)
(* An entry is found by the name its window advertises and adopts the      *)
(* window's UUID the first time a refresh reports one; its entity rows and *)
(* its device row then move from the name to the UUID.  Three stores of    *)
(* Home Assistant's take part (config entries, entities, devices), each    *)
(* written to disk in its own time, so a crash may lose any of their       *)
(* writes and keep the others'.                                            *)
(***************************************************************************)
EXTENDS Integers, FiniteSets

CONSTANTS
    Entries,      \* config entries
    Names,        \* advertised names
    Uuids,        \* device UUIDs
    None,         \* no name, no UUID, no key
    Suffixes,     \* the entities an entry creates, one unique-id suffix each
    DeviceIds,    \* ids for device rows, reused once nothing refers to them
    Reports,      \* Reports[e]: what a first refresh of e may find as the UUID;
                  \* None is an identity that was empty or garbled
    HastyRenames, \* TRUE iff a window may be renamed in the app before the
                  \* adoption of its UUID has reached every store's disk
    MaxCrashes    \* bound on crashes of Home Assistant

Keys == Names \cup Uuids

ASSUME IdentityAssumption ==
    /\ Names \cap Uuids = {} /\ None \notin Keys
    /\ Reports \in [Entries -> SUBSET (Uuids \cup {None})]
    /\ HastyRenames \in BOOLEAN /\ MaxCrashes \in Nat

VARIABLES
    name,        \* name[e]: entry e's advertised name; None before it exists
    uuid,        \* uuid[e]: the UUID it has adopted, or None
    entities,    \* entity registry: rows [owner, key, suffix, device]
    devices,     \* device registry: rows [id, owner, key]
    stage,       \* stage[e]: "out", "adopted" or "in" (loaded)
    live,        \* live[e]: the key e's loaded entities were created with
    disk,        \* what each store has on disk
    crashes

memory == <<name, uuid, entities, devices>>
vars == <<memory, stage, live, disk, crashes>>

EntityRows == [owner : Entries, key : Keys, suffix : Suffixes, device : DeviceIds]
DeviceRows == [id : DeviceIds, owner : Entries, key : Keys]

TypeOK ==
    /\ name \in [Entries -> Names \cup {None}]
    /\ uuid \in [Entries -> Uuids \cup {None}]
    /\ entities \subseteq EntityRows /\ devices \subseteq DeviceRows
    /\ stage \in [Entries -> {"out", "adopted", "in"}]
    /\ live \in [Entries -> Keys \cup {None}]
    /\ disk \in [name : [Entries -> Names \cup {None}],
                 uuid : [Entries -> Uuids \cup {None}],
                 entities : SUBSET EntityRows, devices : SUBSET DeviceRows]
    /\ crashes \in 0..MaxCrashes

Nothing == [e \in Entries |-> None]

Init ==
    /\ name = Nothing /\ uuid = Nothing
    /\ entities = {} /\ devices = {}
    /\ stage = [e \in Entries |-> "out"] /\ live = Nothing
    /\ disk = [name |-> name, uuid |-> uuid,
               entities |-> entities, devices |-> devices]
    /\ crashes = 0

-----------------------------------------------------------------------------
(* The config flow                                                         *)

\* A window is discovered, or picked, under a name no entry has, and its user
\* confirms it.  The entry is a new one: nothing belongs to it.
Configure(e, n) ==
    /\ name[e] = None
    /\ \A r \in entities \cup devices \cup disk.entities \cup disk.devices : r.owner # e
    /\ \A f \in Entries : name[f] # n
    /\ name' = [name EXCEPT ![e] = n]
    /\ uuid' = [uuid EXCEPT ![e] = None]
    /\ UNCHANGED <<entities, devices, stage, live, disk, crashes>>

\* e's adoption is on disk: nothing of e's is under its name any more.
Settled(e) ==
    /\ uuid[e] # None /\ disk.uuid[e] # None
    /\ \A r \in entities \cup devices \cup disk.entities \cup disk.devices :
           r.owner = e => r.key # name[e]

\* An advertisement with a new name comes from the address an entry has: the
\* window was renamed, and the entry follows.  (Names stay distinct here.)
Rename(e, n) ==
    /\ name[e] # None
    /\ HastyRenames \/ Settled(e)
    /\ \A f \in Entries : name[f] # n
    /\ name' = [name EXCEPT ![e] = n]
    /\ UNCHANGED <<uuid, entities, devices, stage, live, disk, crashes>>

-----------------------------------------------------------------------------
(* Adoption                                                                *)

\* async_device_key
DeviceKey(e) == IF uuid[e] # None THEN uuid[e] ELSE name[e]

\* A slip: nobody looks.
ClaimedNever(e, u) == FALSE

\* Another entry holds the UUID.
Claimed(e, u) == \E f \in Entries \ {e} : uuid[f] = u

Moving(e, previous) == {r \in entities : r.owner = e /\ r.key = previous}

\* Some row's new unique id is another row's already.
Blocked(e, previous, key) ==
    \E r \in Moving(e, previous), q \in entities :
        q.key = key /\ q.suffix = r.suffix

\* Slips: the rows stay; the new unique id is put together the wrong way round.
RekeyNoEntities(e, previous, key) == entities
RekeySwapped(e, previous, key) ==
    (entities \ Moving(e, previous))
        \cup {[r EXCEPT !.key = r.suffix, !.suffix = key] : r \in Moving(e, previous)}

\* The entity registry once e's rows have moved from one key to the other.
RekeyEntities(e, previous, key) ==
    (entities \ Moving(e, previous))
        \cup {[r EXCEPT !.key = key] : r \in Moving(e, previous)}

\* A slip: the device stays.
RekeyNoDevice(e, previous, key) == devices

\* The device registry likewise.  A row that already has the new key is not
\* merged with: the old one goes if it is empty, and stays otherwise.
RekeyDevice(e, previous, key) ==
    LET old == {d \in devices : d.owner = e /\ d.key = previous}
        existing == {d \in devices : d.owner = e /\ d.key = key}
        empty == {d \in old : \A r \in entities : r.device # d.id}
    IN  IF existing # {}
        THEN devices \ empty
        ELSE (devices \ old) \cup {[d EXCEPT !.key = key] : d \in old}

Reconcile(e, previous, key) ==
    /\ entities' = RekeyEntities(e, previous, key)
    /\ devices' = RekeyDevice(e, previous, key)

\* A connection to a window with another UUID than the stored one is refused.
WrongWindow(e, reported) == uuid[e] # None /\ reported \notin {uuid[e], None}

\* A slip: only a setup that adopts reconciles.
TargetGated(e, adopting, reported) == IF adopting THEN reported ELSE name[e]

\* The key a setup reconciles towards.
Target(e, adopting, reported) == IF adopting THEN reported ELSE DeviceKey(e)

\* Setup, up to the platforms: the first refresh and async_adopt_device_uuid.
\* A refusal leaves everything as it was.
Adopt(e, reported) ==
    /\ stage[e] = "out" /\ name[e] # None
    /\ reported \in Reports[e]
    /\ ~WrongWindow(e, reported)
    /\ LET adopting == reported # None /\ uuid[e] = None
           key == Target(e, adopting, reported)
       IN  /\ adopting => ~Claimed(e, reported)
           /\ IF name[e] = key \/ Blocked(e, name[e], key)
              THEN UNCHANGED <<entities, devices>>
              ELSE Reconcile(e, name[e], key)
           /\ uuid' = IF adopting /\ ~Blocked(e, name[e], key)
                      THEN [uuid EXCEPT ![e] = reported]
                      ELSE uuid
    /\ stage' = [stage EXCEPT ![e] = "adopted"]
    /\ UNCHANGED <<name, live, disk, crashes>>

-----------------------------------------------------------------------------
(* Home Assistant's side of setup, unload and storage                      *)

\* Nothing refers to device id i.
Unused(i) == /\ \A d \in devices \cup disk.devices : d.id # i
             /\ \A r \in entities \cup disk.entities : r.device # i

\* The unique id is that of an entity another entry has loaded.
Taken(e, s, key) == \E r \in entities : /\ r.key = key /\ r.suffix = s
                                        /\ r.owner # e /\ live[r.owner] = key

\* The platforms create e's entities under its key, each with the row it has
\* or a new one, on the device with that key.
Forward(e) ==
    /\ stage[e] = "adopted"
    /\ LET key == DeviceKey(e)
           mine == {d \in devices : d.owner = e /\ d.key = key}
           created == {s \in Suffixes : ~Taken(e, s, key)}
           kept == {r \in entities : ~(r.key = key /\ r.suffix \in created)}
       IN  /\ \E d \in DeviceRows :
                 /\ IF mine # {}
                    THEN d \in mine
                    ELSE d.owner = e /\ d.key = key /\ Unused(d.id)
                         /\ \A i \in DeviceIds : i < d.id => ~Unused(i)
                 /\ devices' = devices \cup {d}
                 /\ entities' = kept \cup
                        {[owner |-> e, key |-> key, suffix |-> s, device |-> d.id]
                            : s \in created}
           /\ live' = [live EXCEPT ![e] = key]
    /\ stage' = [stage EXCEPT ![e] = "in"]
    /\ UNCHANGED <<name, uuid, disk, crashes>>

\* The entry is unloaded, or its setup fails after adopting.
Unload(e) ==
    /\ stage[e] # "out"
    /\ stage' = [stage EXCEPT ![e] = "out"]
    /\ live' = [live EXCEPT ![e] = None]
    /\ UNCHANGED <<memory, disk, crashes>>

\* One store is written to disk.
Flush ==
    /\ \/ disk' = [disk EXCEPT !.name = name, !.uuid = uuid]
       \/ disk' = [disk EXCEPT !.entities = entities]
       \/ disk' = [disk EXCEPT !.devices = devices]
    /\ UNCHANGED <<memory, stage, live, crashes>>

\* Home Assistant dies and starts again from disk.
Crash ==
    /\ crashes < MaxCrashes
    /\ name' = disk.name /\ uuid' = disk.uuid
    /\ entities' = disk.entities /\ devices' = disk.devices
    /\ stage' = [e \in Entries |-> "out"] /\ live' = Nothing
    /\ crashes' = crashes + 1
    /\ UNCHANGED disk

-----------------------------------------------------------------------------
Next ==
    \/ \E e \in Entries, n \in Names : Configure(e, n) \/ Rename(e, n)
    \/ \E e \in Entries, u \in Uuids \cup {None} : Adopt(e, u)
    \/ \E e \in Entries : Forward(e) \/ Unload(e)
    \/ Flush \/ Crash

Spec == Init /\ [][Next]_vars

-----------------------------------------------------------------------------
(* Properties                                                              *)

\* No two entries hold the same UUID, in memory or after a crash
\* (identity.py:90-96).
OneOwner == \A e, f \in Entries : e # f =>
                /\ uuid[e] # None => uuid[e] # uuid[f]
                /\ disk.uuid[e] # None => disk.uuid[e] # disk.uuid[f]

\* A loaded entry has all its entities: none of them was refused for having a
\* unique id another entry's entity already uses (identity.py:92-95).
Served == \A e \in Entries, s \in Suffixes :
              live[e] # None =>
                  \E r \in entities :
                      r.owner = e /\ r.key = live[e] /\ r.suffix = s

\* What Served rests on: entries have different keys, and one that is loaded
\* still has the key it was loaded with.
ServedInv ==
    /\ OneOwner
    /\ \A e, f \in Entries : e # f =>
           /\ name[e] # None => name[e] # name[f]
           /\ disk.name[e] # None => disk.name[e] # disk.name[f]
    /\ \A e \in Entries : /\ stage[e] # "out" => name[e] # None
                          /\ live[e] # None => stage[e] = "in"
                          /\ live[e] # None => live[e] = DeviceKey(e)
    /\ Served

\* Whatever writes a crash lost, an entry that loads on its UUID has left
\* nothing on its name (identity.py:18-23, identity.py:69-72).
Repaired == \A e \in Entries : \A r \in entities :
                r.owner = e /\ live[e] \in Uuids => r.key # name[e]

\* The window of e always reports its UUID, and no other answers to its name.
Reliable(e) == \E u \in Uuids : Reports[e] = {u}

\* Late UUIDs and foreign windows cost a loaded entry nothing, and if its window
\* is reliable neither does a crash: no entity row is left behind, with its
\* history, under a key its entry no longer has (identity.py:13-16).  This
\* supposes HastyRenames FALSE: nothing moves the rows of an entry that is
\* renamed while it is on its name (config_flow.py:41).
NoStranded == \A e \in Entries : \A r \in entities :
                  /\ crashes = 0 \/ Reliable(e)
                  /\ r.owner = e /\ live[e] # None
                  => r.key = live[e]

\* And such an entry has one device, which all its entities are on: adopting
\* late moves the device with them, however the two registries' writes were lost
\* (identity.py:158-185).
OneDevice == \A e \in Entries :
                 /\ crashes = 0 \/ Reliable(e)
                 /\ live[e] # None
                 => \E d \in devices :
                        /\ \A c \in devices : c.owner = e => c = d
                        /\ \A r \in entities : r.owner = e => r.device = d.id
=============================================================================
