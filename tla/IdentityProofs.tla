--------------------------- MODULE IdentityProofs ---------------------------
(***************************************************************************)
(* What Identity's runs show for two entries, proved for any number of     *)
(* entries, names, UUIDs, entities and crashes: that no UUID is ever held  *)
(* by two entries, that a loaded entry has all its entities, and that      *)
(* their rows and their device come along when its key moves, or are       *)
(* repaired.                                                               *)
(***************************************************************************)
EXTENDS Identity, TLAPS

LEMMA Typing == TypeOK /\ [Next]_vars => TypeOK'
<1> SUFFICES ASSUME TypeOK, [Next]_vars PROVE TypeOK'
  OBVIOUS
<1> USE IdentityAssumption DEF TypeOK, EntityRows, DeviceRows, Keys
<1>1. ASSUME NEW e \in Entries, NEW n \in Names, Configure(e, n) \/ Rename(e, n)
      PROVE  TypeOK'
  BY <1>1 DEF Configure, Rename
<1>2. ASSUME NEW e \in Entries, NEW u \in Uuids \cup {None}, Adopt(e, u)
      PROVE  TypeOK'
  <2> DEFINE adopting == u # None /\ uuid[e] = None
             key == Target(e, adopting, u)
  <2>1. key \in Keys
    BY <1>2 DEF Adopt, Target, DeviceKey
  <2>2. RekeyEntities(e, name[e], key) \subseteq EntityRows
    BY <2>1 DEF RekeyEntities, Moving
  <2>3. RekeyDevice(e, name[e], key) \subseteq DeviceRows
    BY <2>1 DEF RekeyDevice
  <2>4. entities' \subseteq EntityRows /\ devices' \subseteq DeviceRows
    BY <1>2, <2>2, <2>3 DEF Adopt, Reconcile
  <2>5. uuid' \in [Entries -> Uuids \cup {None}]
    BY <1>2 DEF Adopt
  <2> QED
    BY <1>2, <2>4, <2>5 DEF Adopt
<1>3. ASSUME NEW e \in Entries, Forward(e) PROVE TypeOK'
  <2> DEFINE key == DeviceKey(e)
             created == {s \in Suffixes : ~Taken(e, s, key)}
             kept == {r \in entities : ~(r.key = key /\ r.suffix \in created)}
             new(d) == {[owner |-> e, key |-> key, suffix |-> s, device |-> d.id]
                            : s \in created}
  <2>1. PICK d \in DeviceRows : /\ devices' = devices \cup {d}
                                /\ entities' = kept \cup new(d)
                                /\ d.key = key
    BY <1>3 DEF Forward
  <2>2. entities' \subseteq EntityRows /\ devices' \subseteq DeviceRows
    BY <2>1
  <2>3. live' \in [Entries -> Keys \cup {None}]
    BY <1>3, <2>1 DEF Forward
  <2> QED
    BY <1>3, <2>2, <2>3 DEF Forward
<1>4. ASSUME NEW e \in Entries, Unload(e) PROVE TypeOK'
  BY <1>4 DEF Unload, memory
<1>5. CASE Flush
  <2>1. CASE disk' = [disk EXCEPT !.name = name, !.uuid = uuid]
    BY <1>5, <2>1 DEF Flush, memory
  <2>2. CASE disk' = [disk EXCEPT !.entities = entities]
    BY <1>5, <2>2 DEF Flush, memory
  <2>3. CASE disk' = [disk EXCEPT !.devices = devices]
    BY <1>5, <2>3 DEF Flush, memory
  <2> QED
    BY <1>5, <2>1, <2>2, <2>3 DEF Flush
<1>6. CASE Crash
  BY <1>6 DEF Crash, Nothing
<1>7. CASE UNCHANGED vars
  BY <1>7 DEF vars, memory
<1> QED
  BY <1>1, <1>2, <1>3, <1>4, <1>5, <1>6, <1>7 DEF Next

\* Every reachable state of the entries, the registries and the disk is well
\* formed (identity.py, config_flow.py).
THEOREM TypeCorrect == Spec => []TypeOK
<1>1. Init => TypeOK
  BY IdentityAssumption DEF Init, Nothing, TypeOK
<1> QED
  BY <1>1, Typing, PTL DEF Spec

-----------------------------------------------------------------------------
LEMMA OneOwnerStep == TypeOK /\ OneOwner /\ [Next]_vars => OneOwner'
<1> SUFFICES ASSUME TypeOK, OneOwner, [Next]_vars PROVE OneOwner'
  OBVIOUS
<1> USE DEF TypeOK, OneOwner
<1>1. ASSUME NEW e \in Entries, NEW n \in Names, Configure(e, n) \/ Rename(e, n)
      PROVE  OneOwner'
  BY <1>1 DEF Configure, Rename
<1>2. ASSUME NEW e \in Entries, NEW u \in Uuids \cup {None}, Adopt(e, u)
      PROVE  OneOwner'
  \* A UUID that is adopted is one no other entry holds.
  <2>1. uuid' = uuid \/ (uuid' = [uuid EXCEPT ![e] = u] /\ ~Claimed(e, u))
    BY <1>2 DEF Adopt
  <2>2. disk' = disk
    BY <1>2 DEF Adopt
  <2> QED
    BY <2>1, <2>2 DEF Claimed
<1>3. ASSUME NEW e \in Entries, Forward(e) \/ Unload(e) PROVE OneOwner'
  BY <1>3 DEF Forward, Unload, memory
<1>4. CASE Flush
  BY <1>4 DEF Flush, memory
<1>5. CASE Crash
  BY <1>5 DEF Crash
<1>6. CASE UNCHANGED vars
  BY <1>6 DEF vars, memory
<1> QED
  BY <1>1, <1>2, <1>3, <1>4, <1>5, <1>6 DEF Next

\* No two entries ever hold the same UUID, whatever order they are set up in
\* and whatever a crash loses (identity.py:86-105).
THEOREM OneOwnerAlways == Spec => []OneOwner
<1>1. Init => TypeOK /\ OneOwner
  BY IdentityAssumption DEF Init, Nothing, TypeOK, OneOwner
<1> QED
  BY <1>1, Typing, OneOwnerStep, PTL DEF Spec

-----------------------------------------------------------------------------
\* Entries that exist have different keys.
LEMMA KeysDiffer ==
    ASSUME TypeOK, ServedInv,
           NEW e \in Entries, NEW f \in Entries, e # f, name[e] # None
    PROVE  DeviceKey(e) # DeviceKey(f)
  BY IdentityAssumption DEF TypeOK, ServedInv, OneOwner, DeviceKey, Keys

LEMMA ServedStep == ~HastyRenames /\ TypeOK /\ ServedInv /\ [Next]_vars => ServedInv'
<1> SUFFICES ASSUME ~HastyRenames, TypeOK, ServedInv, [Next]_vars PROVE ServedInv'
  OBVIOUS
<1> OneOwner'
  BY OneOwnerStep DEF ServedInv
<1> USE DEF TypeOK, ServedInv, Served, DeviceKey
<1>1. ASSUME NEW e \in Entries, NEW n \in Names, Configure(e, n) PROVE ServedInv'
  BY <1>1, IdentityAssumption DEF Configure, Keys
\* A rename leaves the key of an entry that has adopted its UUID alone.
<1>8. ASSUME NEW e \in Entries, NEW n \in Names, Rename(e, n) PROVE ServedInv'
  BY <1>8, IdentityAssumption DEF Rename, Settled, Keys
<1>2. ASSUME NEW e \in Entries, NEW u \in Uuids \cup {None}, Adopt(e, u)
      PROVE  ServedInv'
  <2>1. live[e] = None /\ live' = live /\ name' = name /\ disk' = disk
    BY <1>2 DEF Adopt
  <2>2. \A f \in Entries : f # e => uuid'[f] = uuid[f] /\ stage'[f] = stage[f]
    BY <1>2 DEF Adopt
  \* Only rows of e, which has none loaded, are rewritten.
  <2>3. \A r \in entities : r.owner # e => r \in entities'
    BY <1>2 DEF Adopt, Reconcile, RekeyEntities, Moving
  <2>4. stage'[e] # "out" => name[e] # None
    BY <1>2 DEF Adopt
  <2>5. Served'
    BY <2>1, <2>3
  <2> QED
    BY <2>1, <2>2, <2>4, <2>5
<1>3. ASSUME NEW e \in Entries, Forward(e) PROVE ServedInv'
  <2> DEFINE key == DeviceKey(e)
             created == {s \in Suffixes : ~Taken(e, s, key)}
             kept == {r \in entities : ~(r.key = key /\ r.suffix \in created)}
  <2>1. PICK d \in DeviceRows :
            entities' = kept \cup
               {[owner |-> e, key |-> key, suffix |-> s, device |-> d.id]
                   : s \in created}
    BY <1>3 DEF Forward
  <2>2. /\ name' = name /\ uuid' = uuid /\ disk' = disk
        /\ stage' = [stage EXCEPT ![e] = "in"] /\ live' = [live EXCEPT ![e] = key]
        /\ name[e] # None
    BY <1>3 DEF Forward
  \* No loaded entry has e's key, so no entity of e's is refused,
  <2>3. \A f \in Entries \ {e} : live[f] # key
    BY <2>2, KeysDiffer, IdentityAssumption DEF Keys
  <2>4. created = Suffixes
    BY <2>3 DEF Taken, EntityRows
  \* and no loaded entity of another entry is taken over.
  <2>5. \A f \in Entries \ {e} : \A r \in entities :
            live[f] # None /\ r.key = live[f] => r \in entities'
    BY <2>1, <2>3
  <2>6. ASSUME NEW s \in Suffixes
        PROVE  \E r \in entities' : r.owner = e /\ r.key = key /\ r.suffix = s
    <3>1. [owner |-> e, key |-> key, suffix |-> s, device |-> d.id] \in entities'
      BY <2>1, <2>4
    <3> QED
      BY <3>1
  <2>7. ASSUME NEW f \in Entries \ {e}, NEW s \in Suffixes, live[f] # None
        PROVE  \E r \in entities' : r.owner = f /\ r.key = live[f] /\ r.suffix = s
    BY <2>5, <2>7
  <2>8. live'[e] = key /\ \A f \in Entries \ {e} : live'[f] = live[f]
    BY <2>2
  <2>9. Served'
    BY <2>6, <2>7, <2>8
  <2> QED
    BY <2>2, <2>8, <2>9
<1>4. ASSUME NEW e \in Entries, Unload(e) PROVE ServedInv'
  BY <1>4 DEF Unload, memory
<1>5. CASE Flush
  <2>1. disk.name' = disk.name \/ disk.name' = name
    BY <1>5 DEF Flush
  <2>2. UNCHANGED <<name, uuid, entities, stage, live>>
    BY <1>5 DEF Flush, memory
  <2> QED
    BY <2>1, <2>2
<1>6. CASE Crash
  BY <1>6 DEF Crash, Nothing
<1>7. CASE UNCHANGED vars
  BY <1>7 DEF vars, memory
<1> QED
  BY <1>1, <1>2, <1>3, <1>4, <1>5, <1>6, <1>7, <1>8 DEF Next

\* As long as no window is renamed before its UUID is adopted, a loaded entry has every one of its
\* entities: the refusal of a claimed UUID is enough to keep entries from
\* refusing one another's (identity.py:90-96).
THEOREM ServedAlways == ~HastyRenames => (Spec => []Served)
<1> SUFFICES ASSUME ~HastyRenames PROVE Spec => []Served
  OBVIOUS
<1>1. Init => TypeOK /\ ServedInv
  BY IdentityAssumption DEF Init, Nothing, TypeOK, ServedInv, OneOwner, Served
<1>2. TypeOK /\ ServedInv /\ [Next]_vars => (TypeOK /\ ServedInv)'
  BY Typing, ServedStep
<1>3. ServedInv => Served
  BY DEF ServedInv
<1> QED
  BY <1>1, <1>2, <1>3, PTL DEF Spec

-----------------------------------------------------------------------------
(* No row is left behind.                                                  *)

OnName(r, e) == r.owner = e /\ r.key \in Names
OnUuid(r, e) == r.owner = e /\ r.key \in Uuids

AllRows == entities \cup devices \cup disk.entities \cup disk.devices

\* What is on disk is what was: an entry there is one in memory, with its UUID,
\* and all rows that are on a name are on their entry's name, which does not
\* change before its adoption is settled.
NameInv == \A e \in Entries :
    /\ name[e] = None => uuid[e] = None /\ disk.name[e] = None
    /\ disk.name[e] = None => disk.uuid[e] = None
    /\ disk.uuid[e] # None => uuid[e] = disk.uuid[e]
    /\ uuid[e] = None /\ disk.name[e] # None => disk.name[e] = name[e]
    /\ \A r \in AllRows : OnName(r, e) =>
           /\ name[e] # None => r.key = name[e]
           /\ disk.name[e] # None => r.key = disk.name[e]

\* Rows r and q are of one entity, before and after the adoption of u by e.
Pair(r, q, e, u) == OnName(r, e) /\ q.key = u /\ q.suffix = r.suffix

\* What a row on disk was, memory has: a unique id with a UUID for ever, one
\* with a name until the adoption.  So no entry that has its UUID has rows that
\* would keep those on its name from moving, and once it is set up none is left.
MoveInv ==
    /\ \A q \in disk.entities : q.key \in Uuids =>
           \E r \in entities : r.key = q.key /\ r.suffix = q.suffix
    /\ \A e \in Entries : name[e] # None /\ uuid[e] = None =>
           \A q \in disk.entities : OnName(q, e) =>
               \E r \in entities : OnName(r, e) /\ r.suffix = q.suffix
    /\ \A e \in Entries : uuid[e] # None =>
           /\ \A r, q \in entities : ~Pair(r, q, e, uuid[e])
           /\ \A r, q \in disk.entities : ~Pair(r, q, e, uuid[e])
    /\ \A e \in Entries : stage[e] # "out" /\ uuid[e] # None =>
           \A r \in entities : ~OnName(r, e)

\* The UUIDs an entry's rows can be on.
UuidInv == \A e \in Entries :
    /\ crashes = 0 =>
           /\ \A r \in entities \cup devices : OnUuid(r, e) => r.key = uuid[e]
           /\ uuid[e] # None => \A d \in devices : ~OnName(d, e)
    /\ \A u \in Uuids : Reports[e] \subseteq {u, None} =>
           /\ uuid[e] \in {u, None}
           /\ \A r \in AllRows : OnUuid(r, e) => r.key = u
    \* A window that always tells never has anything on its name.
    /\ Reliable(e) => /\ \A r \in AllRows : ~OnName(r, e)
                      /\ stage[e] # "out" => uuid[e] # None

\* An entry has one device for each key, and a loaded one has its entities on
\* the device with its key.
DeviceInv ==
    /\ \A D \in {devices, disk.devices} : \A c, d \in D :
           c.owner = d.owner /\ c.key = d.key => c = d
    /\ \A e \in Entries : live[e] # None =>
           \E d \in devices :
               /\ d.owner = e /\ d.key = live[e]
               /\ \A r \in entities : r.owner = e /\ r.key = live[e] => r.device = d.id

\* What setting up does to e's rows once it has UUID k.
Moves(e, k) ==
    /\ k \in Uuids /\ uuid' = [uuid EXCEPT ![e] = k]
    /\ \/ uuid[e] = k
       \/ /\ uuid[e] = None /\ k \in Reports[e]
          /\ \A f \in Entries \ {e} : uuid[f] # k
    /\ \A r, q \in entities : ~Pair(r, q, e, k)
    /\ entities' = RekeyEntities(e, name[e], k)
    /\ devices' = RekeyDevice(e, name[e], k)

\* And what it does while e has none: nothing, since none was told or another
\* row is in the way.
Stays(e, u) ==
    /\ uuid[e] = None /\ UNCHANGED <<uuid, entities, devices>>
    /\ u = None \/ \E r \in entities : OnName(r, e)

LEMMA Adopting ==
    ASSUME TypeOK, NameInv, MoveInv, NEW e \in Entries, NEW u \in Uuids \cup {None},
           Adopt(e, u)
    PROVE  /\ name[e] \in Names /\ u \in Reports[e]
           /\ stage[e] = "out" /\ stage' = [stage EXCEPT ![e] = "adopted"]
           /\ UNCHANGED <<name, live, disk, crashes>>
           /\ Stays(e, u) \/ \E k \in Uuids : Moves(e, k)
<1> USE IdentityAssumption DEF Keys
<1>1. /\ name[e] \in Names /\ u \in Reports[e]
      /\ stage[e] = "out" /\ stage' = [stage EXCEPT ![e] = "adopted"]
      /\ UNCHANGED <<name, live, disk, crashes>>
  BY DEF Adopt, TypeOK
<1>2. \A r \in entities : OnName(r, e) <=> (r.owner = e /\ r.key = name[e])
  BY <1>1 DEF NameInv, AllRows, OnName
<1>3. \A k \in Uuids : Blocked(e, name[e], k)
          <=> \E r, q \in entities : Pair(r, q, e, k)
  BY <1>2 DEF Blocked, Moving, Pair
<1>4. CASE uuid[e] # None
  <2>1. uuid[e] \in Uuids
    BY <1>4 DEF TypeOK
  <2>2. ~Blocked(e, name[e], uuid[e]) /\ name[e] # uuid[e]
    BY <1>1, <1>3, <1>4, <2>1 DEF MoveInv
  <2>3. /\ uuid' = uuid /\ entities' = RekeyEntities(e, name[e], uuid[e])
        /\ devices' = RekeyDevice(e, name[e], uuid[e])
    BY <1>4, <2>2 DEF Adopt, Target, DeviceKey, Reconcile
  <2>4. Moves(e, uuid[e])
    BY <1>3, <1>4, <2>1, <2>2, <2>3 DEF Moves, TypeOK
  <2> QED
    BY <1>1, <2>1, <2>4
<1>5. CASE uuid[e] = None /\ u = None
  BY <1>1, <1>5 DEF Adopt, Target, DeviceKey, Stays
<1>6. CASE uuid[e] = None /\ u # None /\ Blocked(e, name[e], u)
  <2>1. UNCHANGED <<uuid, entities, devices>>
    BY <1>6 DEF Adopt, Target
  <2>2. \E r \in entities : OnName(r, e)
    BY <1>3, <1>6 DEF Pair
  <2> QED
    BY <1>1, <1>6, <2>1, <2>2 DEF Stays
<1>7. CASE uuid[e] = None /\ u # None /\ ~Blocked(e, name[e], u)
  <2>1. u \in Uuids /\ name[e] # u
    BY <1>1, <1>7
  <2>2. /\ uuid' = [uuid EXCEPT ![e] = u] /\ ~Claimed(e, u)
        /\ entities' = RekeyEntities(e, name[e], u)
        /\ devices' = RekeyDevice(e, name[e], u)
    BY <1>7, <2>1 DEF Adopt, Target, Reconcile
  <2>3. Moves(e, u)
    BY <1>1, <1>3, <1>7, <2>1, <2>2 DEF Moves, Claimed
  <2> QED
    BY <1>1, <2>1, <2>3
<1> QED
  BY <1>4, <1>5, <1>6, <1>7

\* A move takes e's rows off its name, and nobody else's anywhere.
LEMMA Moved ==
    ASSUME TypeOK, NameInv, NEW e \in Entries, name[e] \in Names,
           NEW k \in Uuids, Moves(e, k)
    PROVE  /\ \A r \in entities' : ~OnName(r, e) /\
                  \/ r \in entities
                  \/ r.owner = e /\ r.key = k
           /\ \A r \in entities : ~OnName(r, e) => r \in entities'
           /\ \A r \in entities : OnName(r, e) =>
                  \E q \in entities' : q.key = k /\ q.suffix = r.suffix
           /\ \A d \in devices' : d \in devices \/ (d.owner = e /\ d.key = k)
           /\ \A d \in devices : d.owner # e => d \in devices'
           /\ (\A d \in devices : ~OnUuid(d, e)) => \A d \in devices' : ~OnName(d, e)
<1> USE IdentityAssumption DEF Keys, TypeOK, EntityRows, DeviceRows, OnName, OnUuid
<1>1. /\ \A r \in entities : OnName(r, e) <=> (r.owner = e /\ r.key = name[e])
      /\ \A d \in devices : OnName(d, e) <=> (d.owner = e /\ d.key = name[e])
  BY DEF NameInv, AllRows
<1>2. entities' = (entities \ {r \in entities : OnName(r, e)})
                      \cup {[r EXCEPT !.key = k] : r \in {r \in entities : OnName(r, e)}}
  BY <1>1 DEF Moves, RekeyEntities, Moving
<1>3. /\ \A r \in entities' : ~OnName(r, e) /\
             \/ r \in entities
             \/ r.owner = e /\ r.key = k
      /\ \A r \in entities : ~OnName(r, e) => r \in entities'
  BY <1>2
<1>4. ASSUME NEW r \in entities, OnName(r, e)
      PROVE  \E q \in entities' : q.key = k /\ q.suffix = r.suffix
  <2>1. [r EXCEPT !.key = k] \in entities'
    BY <1>2, <1>4
  <2> QED
    BY <2>1
<1>5. /\ \A d \in devices' : d \in devices \/ (d.owner = e /\ d.key = k)
      /\ \A d \in devices : d.owner # e => d \in devices'
  BY DEF Moves, RekeyDevice
<1>6. ASSUME \A d \in devices : ~OnUuid(d, e) PROVE \A d \in devices' : ~OnName(d, e)
  BY <1>1, <1>6 DEF Moves, RekeyDevice
<1> QED
  BY <1>3, <1>4, <1>5, <1>6

\* Platforms create all of e's entities anew, on a device with their key, and
\* leave other keys alone.
LEMMA Forwarded ==
    ASSUME TypeOK, ServedInv, NEW e \in Entries, Forward(e)
    PROVE  /\ name[e] # None
           /\ stage' = [stage EXCEPT ![e] = "in"]
           /\ live' = [live EXCEPT ![e] = DeviceKey(e)]
           /\ UNCHANGED <<name, uuid, disk, crashes>>
           /\ \A s \in Suffixes : \E r \in entities' :
                  r.owner = e /\ r.key = DeviceKey(e) /\ r.suffix = s
           /\ \A r \in entities : r.key # DeviceKey(e) => r \in entities'
           /\ \E d \in DeviceRows :
                  /\ d.owner = e /\ d.key = DeviceKey(e) /\ devices' = devices \cup {d}
                  /\ \/ d \in devices
                     \/ \A c \in devices : c.owner = e => c.key # DeviceKey(e)
                  /\ \A r \in entities' :
                         \/ r \in entities /\ r.key # DeviceKey(e)
                         \/ r.owner = e /\ r.key = DeviceKey(e) /\ r.device = d.id
<1> USE DEF TypeOK, ServedInv
<1> DEFINE key == DeviceKey(e)
           created == {s \in Suffixes : ~Taken(e, s, key)}
           kept == {r \in entities : ~(r.key = key /\ r.suffix \in created)}
           new(d) == {[owner |-> e, key |-> key, suffix |-> s, device |-> d.id]
                          : s \in created}
<1>1. /\ name[e] # None /\ stage' = [stage EXCEPT ![e] = "in"]
      /\ live' = [live EXCEPT ![e] = key]
      /\ UNCHANGED <<name, uuid, disk, crashes>>
  BY DEF Forward
<1>2. PICK d \in DeviceRows :
          /\ d.owner = e /\ d.key = key /\ devices' = devices \cup {d}
          /\ d \in devices \/ \A c \in devices : c.owner = e => c.key # key
          /\ entities' = kept \cup new(d)
  BY DEF Forward
\* No loaded entry has e's key, so no entity of e's is refused.
<1>3. \A f \in Entries \ {e} : live[f] # key
  <2>1. key # None
    BY <1>1, IdentityAssumption DEF DeviceKey, Keys
  <2>2. \A f \in Entries \ {e} : DeviceKey(f) # key
    BY <1>1, KeysDiffer
  <2> QED
    BY <2>1, <2>2
<1>4. created = Suffixes
  BY <1>3 DEF Taken, EntityRows
<1>5. kept = {r \in entities : r.key # key}
  BY <1>4 DEF EntityRows
<1> HIDE DEF key, created, kept
<1>6. ASSUME NEW s \in Suffixes
      PROVE  \E r \in entities' : r.owner = e /\ r.key = key /\ r.suffix = s
  <2>1. [owner |-> e, key |-> key, suffix |-> s, device |-> d.id] \in entities'
    BY <1>2, <1>4
  <2> QED
    BY <2>1
<1>7. \A r \in entities' : \/ r \in entities /\ r.key # key
                           \/ r.owner = e /\ r.key = key /\ r.device = d.id
  BY <1>2, <1>5
<1>8. \A r \in entities : r.key # key => r \in entities'
  BY <1>2, <1>5
<1> QED
  BY <1>1, <1>2, <1>6, <1>7, <1>8 DEF key

\* Nothing of a settled entry's is on a name.
LEMMA SettledOffName ==
    ASSUME TypeOK, NameInv, NEW e \in Entries, name[e] # None, Settled(e)
    PROVE  uuid[e] # None /\ \A r \in AllRows : ~OnName(r, e)
BY DEF NameInv, Settled, AllRows, OnName

LEMMA NameStep ==
    ~HastyRenames /\ TypeOK /\ ServedInv /\ NameInv /\ MoveInv /\ [Next]_vars => NameInv'
<1> SUFFICES ASSUME ~HastyRenames, TypeOK, ServedInv, NameInv, MoveInv, [Next]_vars
             PROVE  NameInv'
  OBVIOUS
<1> USE IdentityAssumption DEF Keys
<1>1. ASSUME NEW e \in Entries, NEW n \in Names, Configure(e, n) PROVE NameInv'
  <2>1. \A r \in AllRows : ~OnName(r, e)
    BY <1>1 DEF Configure, AllRows, OnName
  <2>2. AllRows' = AllRows
    BY <1>1 DEF Configure, AllRows
  <2> QED
    BY <1>1, <2>1, <2>2 DEF Configure, TypeOK, NameInv, OnName
<1>2. ASSUME NEW e \in Entries, NEW n \in Names, Rename(e, n) PROVE NameInv'
  <2>1. uuid[e] # None /\ \A r \in AllRows : ~OnName(r, e)
    BY <1>2, SettledOffName DEF Rename
  <2>2. AllRows' = AllRows
    BY <1>2 DEF Rename, AllRows
  <2> QED
    BY <1>2, <2>1, <2>2 DEF Rename, TypeOK, NameInv, OnName
<1>3. ASSUME NEW e \in Entries, NEW u \in Uuids \cup {None}, Adopt(e, u)
      PROVE  NameInv'
  <2>1. name[e] \in Names /\ UNCHANGED <<name, disk>>
    BY <1>3, Adopting
  <2>2. CASE Stays(e, u)
    BY <2>1, <2>2 DEF Stays, NameInv, AllRows, OnName
  <2>3. ASSUME NEW k \in Uuids, Moves(e, k) PROVE NameInv'
    <3>1. \A f \in Entries, r \in AllRows' : OnName(r, f) => r \in AllRows
      BY <2>1, <2>3, Moved DEF AllRows, OnName
    <3>2. uuid' = [uuid EXCEPT ![e] = k] /\ uuid[e] \in {None, k} /\ k # None
      BY <2>3 DEF Moves
    <3> QED
      BY <2>1, <3>1, <3>2 DEF NameInv, OnName, TypeOK
  <2> QED
    BY <1>3, <2>2, <2>3, Adopting
<1>4. ASSUME NEW e \in Entries, Forward(e) PROVE NameInv'
  <2>1. name[e] # None /\ UNCHANGED <<name, uuid, disk>>
    BY <1>4, Forwarded
  <2>2. \A r \in AllRows' : r \in AllRows \/ (r.owner = e /\ r.key = DeviceKey(e))
    BY <1>4, <2>1, Forwarded DEF AllRows
  <2>3. DeviceKey(e) \in Names => DeviceKey(e) = name[e] /\ uuid[e] = None
    BY <2>1 DEF DeviceKey, TypeOK
  <2> QED
    BY <2>1, <2>2, <2>3 DEF NameInv, OnName
<1>5. ASSUME NEW e \in Entries, Unload(e) PROVE NameInv'
  BY <1>5 DEF Unload, memory, NameInv, AllRows, OnName
<1>6. CASE Flush
  <2>1. UNCHANGED <<name, uuid, entities, devices>>
    BY <1>6 DEF Flush, memory
  <2>2. /\ (disk'.name = disk.name /\ disk'.uuid = disk.uuid)
              \/ (disk'.name = name /\ disk'.uuid = uuid)
        /\ disk'.entities \in {disk.entities, entities}
        /\ disk'.devices \in {disk.devices, devices}
    BY <1>6 DEF Flush, TypeOK
  <2>3. AllRows' \subseteq AllRows
    BY <2>1, <2>2 DEF AllRows
  <2> QED
    BY <2>1, <2>2, <2>3 DEF NameInv, OnName
<1>7. CASE Crash
  BY <1>7 DEF Crash, NameInv, AllRows, OnName
<1>8. CASE UNCHANGED vars
  BY <1>8 DEF vars, memory, NameInv, AllRows, OnName
<1> QED
  BY <1>1, <1>2, <1>3, <1>4, <1>5, <1>6, <1>7, <1>8 DEF Next

LEMMA MoveStep ==
    ~HastyRenames /\ TypeOK /\ ServedInv /\ NameInv /\ MoveInv /\ [Next]_vars => MoveInv'
<1> SUFFICES ASSUME ~HastyRenames, TypeOK, ServedInv, NameInv, MoveInv, [Next]_vars
             PROVE  MoveInv'
  OBVIOUS
<1> USE IdentityAssumption DEF Keys
<1>1. ASSUME NEW e \in Entries, NEW n \in Names, Configure(e, n) PROVE MoveInv'
  <2>1. \A r \in entities \cup disk.entities : ~OnName(r, e)
    BY <1>1 DEF Configure, OnName
  <2> QED
    BY <1>1, <2>1 DEF Configure, TypeOK, MoveInv, Pair, OnName
<1>2. ASSUME NEW e \in Entries, NEW n \in Names, Rename(e, n) PROVE MoveInv'
  <2>1. uuid[e] # None
    BY <1>2 DEF Rename, Settled
  <2> QED
    BY <1>2, <2>1 DEF Rename, TypeOK, MoveInv, Pair, OnName
<1>3. ASSUME NEW e \in Entries, NEW u \in Uuids \cup {None}, Adopt(e, u)
      PROVE  MoveInv'
  <2>1. /\ name[e] \in Names /\ UNCHANGED <<name, disk>>
        /\ stage' = [stage EXCEPT ![e] = "adopted"]
    BY <1>3, Adopting
  <2>2. CASE Stays(e, u)
    BY <2>1, <2>2 DEF Stays, MoveInv, TypeOK, Pair, OnName
  <2>3. ASSUME NEW k \in Uuids, Moves(e, k) PROVE MoveInv'
    <3>1. /\ uuid' = [uuid EXCEPT ![e] = k] /\ uuid[e] \in {None, k} /\ k # None
          /\ uuid[e] = None => \A f \in Entries \ {e} : uuid[f] # k
          /\ \A r, q \in entities : ~Pair(r, q, e, k)
      BY <2>3 DEF Moves
    <3>2. /\ \A r \in entities' : ~OnName(r, e) /\
                 \/ r \in entities
                 \/ r.owner = e /\ r.key = k
          /\ \A r \in entities : ~OnName(r, e) => r \in entities'
          /\ \A r \in entities : OnName(r, e) =>
                 \E q \in entities' : q.key = k /\ q.suffix = r.suffix
      BY <2>1, <2>3, Moved
    <3>3. ASSUME NEW q \in disk.entities, q.key \in Uuids
          PROVE  \E r \in entities' : r.key = q.key /\ r.suffix = q.suffix
      BY <2>1, <3>2, <3>3 DEF MoveInv, OnName
    <3>4. ASSUME NEW f \in Entries, name[f] # None, uuid'[f] = None,
                 NEW q \in disk.entities, OnName(q, f)
          PROVE  \E r \in entities' : OnName(r, f) /\ r.suffix = q.suffix
      <4>1. f # e /\ uuid[f] = None
        BY <3>1, <3>4 DEF TypeOK
      <4>2. PICK r \in entities : OnName(r, f) /\ r.suffix = q.suffix
        BY <3>4, <4>1 DEF MoveInv
      <4>3. r \in entities'
        BY <3>2, <4>1, <4>2 DEF OnName
      <4> QED
        BY <4>2, <4>3
    <3>5. ASSUME NEW f \in Entries, uuid'[f] # None,
                 NEW r \in entities', NEW q \in entities', Pair(r, q, f, uuid'[f])
          PROVE  FALSE
      <4>1. f # e /\ uuid'[f] = uuid[f]
        BY <3>1, <3>2, <3>5 DEF TypeOK, Pair
      <4>2. r \in entities
        BY <3>2, <3>5, <4>1 DEF Pair, OnName
      <4>3. q \notin entities
        BY <3>5, <4>1, <4>2 DEF MoveInv
      <4>4. uuid[f] = k
        BY <3>2, <3>5, <4>1, <4>3 DEF Pair
      <4>5. uuid[e] = k
        BY <3>1, <4>1, <4>4
      <4> QED
        BY <4>1, <4>4, <4>5 DEF ServedInv, OneOwner
    <3>6. ASSUME NEW f \in Entries, uuid'[f] # None,
                 NEW r \in disk.entities, NEW q \in disk.entities,
                 Pair(r, q, f, uuid'[f])
          PROVE  FALSE
      <4>1. CASE uuid[f] # None
        BY <3>1, <3>6, <4>1 DEF MoveInv, TypeOK
      <4>2. CASE uuid[f] = None
        <5>1. f = e /\ uuid'[f] = k
          BY <3>1, <3>6, <4>2 DEF TypeOK
        \* Both rows are in memory too, where nothing was in the way.
        <5>2. PICK m \in entities : OnName(m, e) /\ m.suffix = r.suffix
          BY <2>1, <3>6, <4>2, <5>1 DEF MoveInv, Pair
        <5>3. PICK p \in entities : p.key = k /\ p.suffix = q.suffix
          BY <3>6, <5>1 DEF MoveInv, Pair
        <5> QED
          BY <3>1, <3>6, <5>2, <5>3 DEF Pair
      <4> QED
        BY <4>1, <4>2
    <3>7. ASSUME NEW f \in Entries, stage'[f] # "out", uuid'[f] # None,
                 NEW r \in entities', OnName(r, f)
          PROVE  FALSE
      <4>1. f # e /\ r \in entities
        BY <3>2, <3>7 DEF OnName
      <4> QED
        BY <2>1, <3>1, <3>7, <4>1 DEF MoveInv, TypeOK
    <3> QED
      BY <2>1, <3>3, <3>4, <3>5, <3>6, <3>7 DEF MoveInv
  <2> QED
    BY <1>3, <2>2, <2>3, Adopting
<1>4. ASSUME NEW e \in Entries, Forward(e) PROVE MoveInv'
  <2>1. /\ name[e] # None /\ UNCHANGED <<name, uuid, disk>>
        /\ stage' = [stage EXCEPT ![e] = "in"]
        /\ \A s \in Suffixes : \E r \in entities' :
               r.owner = e /\ r.key = DeviceKey(e) /\ r.suffix = s
        /\ \A r \in entities : r.key # DeviceKey(e) => r \in entities'
        /\ \A r \in entities' : \/ r \in entities /\ r.key # DeviceKey(e)
                                \/ r.owner = e /\ r.key = DeviceKey(e)
    BY <1>4, Forwarded
  <2>2. stage[e] = "adopted"
    BY <1>4 DEF Forward
  <2>3. \A r \in entities \cup disk.entities : r.suffix \in Suffixes
    BY DEF TypeOK, EntityRows
  <2>4. ASSUME NEW q \in disk.entities, q.key \in Uuids
        PROVE  \E r \in entities' : r.key = q.key /\ r.suffix = q.suffix
    BY <2>1, <2>3, <2>4 DEF MoveInv
  <2>5. ASSUME NEW f \in Entries, name[f] # None, uuid[f] = None,
               NEW q \in disk.entities, OnName(q, f)
        PROVE  \E r \in entities' : OnName(r, f) /\ r.suffix = q.suffix
    <3>1. PICK r \in entities : OnName(r, f) /\ r.suffix = q.suffix
      BY <2>5 DEF MoveInv
    <3>2. CASE f = e
      <4>1. DeviceKey(e) = name[e] /\ r.key = name[e]
        BY <2>5, <3>1, <3>2 DEF DeviceKey, NameInv, AllRows
      <4> QED
        BY <2>1, <2>3, <3>1, <3>2, <4>1 DEF OnName
    <3>3. CASE f # e
      <4>1. r.key = DeviceKey(f)
        BY <2>5, <3>1 DEF DeviceKey, NameInv, AllRows
      <4>2. DeviceKey(f) # DeviceKey(e)
        BY <2>5, <3>3, KeysDiffer
      <4> QED
        BY <2>1, <3>1, <4>1, <4>2
    <3> QED
      BY <3>2, <3>3
  \* e has the UUID it comes up with, and then nothing on its name.
  <2>6. ASSUME NEW f \in Entries, uuid[f] # None, NEW r \in entities', OnName(r, f)
        PROVE  f # e /\ r \in entities
    <3>1. DeviceKey(e) \in Names => uuid[e] = None
      BY <2>1 DEF DeviceKey, TypeOK
    <3> QED
      BY <2>1, <2>2, <2>6, <3>1 DEF MoveInv, OnName
  <2>7. ASSUME NEW f \in Entries, uuid[f] # None,
               NEW r \in entities', NEW q \in entities', Pair(r, q, f, uuid[f])
        PROVE  FALSE
    <3>1. f # e /\ r \in entities
      BY <2>6, <2>7 DEF Pair
    <3>2. DeviceKey(e) # uuid[f]
      <4>1. DeviceKey(f) = uuid[f]
        BY <2>7 DEF DeviceKey
      <4> QED
        BY <2>1, <3>1, <4>1, KeysDiffer
    <3> QED
      BY <2>1, <2>7, <3>1, <3>2 DEF MoveInv, Pair
  <2> QED
    BY <2>1, <2>4, <2>5, <2>6, <2>7 DEF MoveInv, TypeOK
<1>5. ASSUME NEW e \in Entries, Unload(e) PROVE MoveInv'
  BY <1>5 DEF Unload, memory, MoveInv, TypeOK, Pair, OnName
<1>6. CASE Flush
  <2>1. UNCHANGED <<name, uuid, entities, stage>>
    BY <1>6 DEF Flush, memory
  <2>2. disk'.entities = disk.entities \/ disk'.entities = entities
    BY <1>6 DEF Flush, TypeOK
  <2> QED
    BY <2>1, <2>2 DEF MoveInv, Pair, OnName
<1>7. CASE Crash
  BY <1>7 DEF Crash, MoveInv, NameInv, Pair, OnName
<1>8. CASE UNCHANGED vars
  BY <1>8 DEF vars, memory, MoveInv, Pair, OnName
<1> QED
  BY <1>1, <1>2, <1>3, <1>4, <1>5, <1>6, <1>7, <1>8 DEF Next

LEMMA UuidStep ==
    /\ ~HastyRenames /\ TypeOK /\ ServedInv /\ NameInv /\ MoveInv /\ UuidInv
    /\ [Next]_vars
    => UuidInv'
<1> SUFFICES ASSUME ~HastyRenames, TypeOK, ServedInv, NameInv, MoveInv, UuidInv,
                    [Next]_vars
             PROVE  UuidInv'
  OBVIOUS
<1> USE IdentityAssumption DEF Keys
<1>1. ASSUME NEW e \in Entries, NEW n \in Names, Configure(e, n) PROVE UuidInv'
  <2>1. /\ AllRows' = AllRows /\ \A r \in AllRows : ~OnName(r, e) /\ ~OnUuid(r, e)
        /\ UNCHANGED <<entities, devices, crashes>>
    BY <1>1 DEF Configure, AllRows, OnName, OnUuid
  <2>2. stage[e] = "out"
    BY <1>1 DEF Configure, ServedInv
  <2> QED
    BY <1>1, <2>1, <2>2 DEF Configure, TypeOK, UuidInv, AllRows, OnName, OnUuid
<1>2. ASSUME NEW e \in Entries, NEW n \in Names, Rename(e, n) PROVE UuidInv'
  BY <1>2 DEF Rename, UuidInv, AllRows, OnName, OnUuid
<1>3. ASSUME NEW e \in Entries, NEW u \in Uuids \cup {None}, Adopt(e, u)
      PROVE  UuidInv'
  <2>1. /\ name[e] \in Names /\ u \in Reports[e] /\ UNCHANGED <<name, disk, crashes>>
        /\ stage' = [stage EXCEPT ![e] = "adopted"]
    BY <1>3, Adopting
  <2>2. CASE Stays(e, u)
    \* A reliable window tells, and has nothing in the way.
    <3>1. ~Reliable(e)
      BY <2>1, <2>2 DEF Stays, Reliable, UuidInv, AllRows
    <3>2. UNCHANGED <<uuid, entities, devices>> /\ AllRows' = AllRows
      BY <2>1, <2>2 DEF Stays, AllRows
    <3> QED
      BY <2>1, <3>1, <3>2 DEF UuidInv, TypeOK, OnName, OnUuid
  <2>3. ASSUME NEW k \in Uuids, Moves(e, k) PROVE UuidInv'
    <3>1. /\ uuid' = [uuid EXCEPT ![e] = k] /\ k # None
          /\ uuid[e] = k \/ (uuid[e] = None /\ k \in Reports[e])
      BY <2>3 DEF Moves
    <3>2. /\ \A r \in entities' : r \in entities \/ (r.owner = e /\ r.key = k)
          /\ \A d \in devices' : d \in devices \/ (d.owner = e /\ d.key = k)
          /\ (\A d \in devices : ~OnUuid(d, e)) => (\A d \in devices' : ~OnName(d, e))
      BY <2>1, <2>3, Moved
    <3>3. \A r \in AllRows' : r \in AllRows \/ (r.owner = e /\ r.key = k)
      BY <2>1, <3>2 DEF AllRows
    <3>4. ASSUME crashes' = 0, NEW f \in Entries
          PROVE  /\ \A r \in entities' \cup devices' : OnUuid(r, f) => r.key = uuid'[f]
                 /\ uuid'[f] # None => \A d \in devices' : ~OnName(d, f)
      <4>1. crashes = 0
        BY <2>1, <3>4
      <4>2. CASE f # e
        <5>1. uuid'[f] = uuid[f]
          BY <3>1, <4>2 DEF TypeOK
        <5> QED
          BY <3>2, <4>1, <4>2, <5>1 DEF UuidInv, OnUuid, OnName
      <4>3. CASE f = e
        <5>1. uuid'[f] = k
          BY <3>1, <4>3 DEF TypeOK
        <5>2. \A r \in entities \cup devices : OnUuid(r, e) => r.key = k
          BY <3>1, <4>1 DEF UuidInv, OnUuid
        <5>3. CASE uuid[e] = k
          BY <3>2, <4>1, <4>3, <5>1, <5>2, <5>3 DEF UuidInv, OnUuid, OnName
        <5>4. CASE uuid[e] = None
          <6>1. \A d \in devices : ~OnUuid(d, e)
            BY <4>1, <5>4 DEF UuidInv, OnUuid
          <6> QED
            BY <3>2, <4>3, <5>1, <5>2, <6>1 DEF OnUuid
        <5> QED
          BY <3>1, <5>3, <5>4
      <4> QED
        BY <4>2, <4>3
    <3>5. ASSUME NEW f \in Entries, NEW w \in Uuids, Reports[f] \subseteq {w, None}
          PROVE  /\ uuid'[f] \in {w, None}
                 /\ \A r \in AllRows' : OnUuid(r, f) => r.key = w
      <4>1. f = e => k = w
        BY <3>1, <3>5 DEF UuidInv
      <4> QED
        BY <3>1, <3>3, <3>5, <4>1 DEF UuidInv, OnUuid, TypeOK
    <3>6. ASSUME NEW f \in Entries, Reliable(f)
          PROVE  /\ \A r \in AllRows' : ~OnName(r, f)
                 /\ stage'[f] # "out" => uuid'[f] # None
      BY <2>1, <3>1, <3>3, <3>6 DEF UuidInv, OnName, TypeOK
    <3>7. \A f \in Entries : Reliable(f)' <=> Reliable(f)
      BY DEF Reliable
    <3> QED
      BY <3>4, <3>5, <3>6, <3>7 DEF UuidInv
  <2> QED
    BY <1>3, <2>2, <2>3, Adopting
<1>4. ASSUME NEW e \in Entries, Forward(e) PROVE UuidInv'
  <2>1. /\ name[e] # None /\ UNCHANGED <<name, uuid, disk, crashes>>
        /\ stage' = [stage EXCEPT ![e] = "in"] /\ stage[e] # "out"
    BY <1>4, Forwarded DEF Forward
  <2>2. /\ \A r \in entities' : r \in entities \/ (r.owner = e /\ r.key = DeviceKey(e))
        /\ \A d \in devices' : d \in devices \/ (d.owner = e /\ d.key = DeviceKey(e))
    BY <1>4, Forwarded
  <2>3. \A r \in AllRows' : r \in AllRows \/ (r.owner = e /\ r.key = DeviceKey(e))
    BY <2>1, <2>2 DEF AllRows
  <2>4. /\ DeviceKey(e) \in Uuids => DeviceKey(e) = uuid[e]
        /\ uuid[e] # None => DeviceKey(e) = uuid[e] /\ uuid[e] \notin Names
    BY <2>1 DEF DeviceKey, TypeOK
  <2> HIDE DEF DeviceKey
  <2>5. ASSUME crashes' = 0, NEW f \in Entries
        PROVE  /\ \A r \in entities' \cup devices' : OnUuid(r, f) => r.key = uuid[f]
               /\ uuid[f] # None => \A d \in devices' : ~OnName(d, f)
    BY <2>1, <2>2, <2>4, <2>5 DEF UuidInv, OnUuid, OnName
  <2>6. ASSUME NEW f \in Entries, NEW w \in Uuids, Reports[f] \subseteq {w, None}
        PROVE  /\ uuid[f] \in {w, None}
               /\ \A r \in AllRows' : OnUuid(r, f) => r.key = w
    BY <2>3, <2>4, <2>6 DEF UuidInv, OnUuid
  <2>7. ASSUME NEW f \in Entries, Reliable(f)
        PROVE  /\ \A r \in AllRows' : ~OnName(r, f)
               /\ stage'[f] # "out" => uuid[f] # None
    BY <2>1, <2>3, <2>4, <2>7 DEF UuidInv, OnName, TypeOK
  <2>8. \A f \in Entries : Reliable(f)' <=> Reliable(f)
    BY DEF Reliable
  <2> QED
    BY <2>1, <2>5, <2>6, <2>7, <2>8 DEF UuidInv
<1>5. ASSUME NEW e \in Entries, Unload(e) PROVE UuidInv'
  BY <1>5 DEF Unload, memory, UuidInv, AllRows, OnName, OnUuid, Reliable, TypeOK
<1>6. CASE Flush
  <2>1. UNCHANGED <<uuid, entities, devices, stage, crashes>>
    BY <1>6 DEF Flush, memory
  <2>2. /\ disk'.entities \in {disk.entities, entities}
        /\ disk'.devices \in {disk.devices, devices}
    BY <1>6 DEF Flush, TypeOK
  <2>3. AllRows' \subseteq AllRows
    BY <2>1, <2>2 DEF AllRows
  <2> QED
    BY <2>1, <2>3 DEF UuidInv, OnName, OnUuid, Reliable
<1>7. CASE Crash
  <2>1. crashes' # 0
    BY <1>7 DEF Crash, TypeOK
  <2>2. AllRows' \subseteq AllRows
    BY <1>7 DEF Crash, AllRows
  <2>3. uuid' = disk.uuid /\ \A e \in Entries : stage'[e] = "out"
    BY <1>7 DEF Crash
  <2>4. \A e \in Entries : uuid'[e] # None => uuid'[e] = uuid[e]
    BY <2>3 DEF NameInv
  <2> QED
    BY <2>1, <2>2, <2>3, <2>4 DEF UuidInv, OnName, OnUuid, Reliable
<1>8. CASE UNCHANGED vars
  BY <1>8 DEF vars, memory, UuidInv, AllRows, OnName, OnUuid, Reliable
<1> QED
  BY <1>1, <1>2, <1>3, <1>4, <1>5, <1>6, <1>7, <1>8 DEF Next

LEMMA DeviceStep ==
    /\ TypeOK /\ ServedInv /\ NameInv /\ MoveInv /\ DeviceInv
    /\ [Next]_vars
    => DeviceInv'
<1> SUFFICES ASSUME TypeOK, ServedInv, NameInv, MoveInv, DeviceInv, [Next]_vars
             PROVE  DeviceInv'
  OBVIOUS
<1> DEFINE Alone(D) == \A c, d \in D : c.owner = d.owner /\ c.key = d.key => c = d
           At(e, ds, rows) == \E d \in ds :
               /\ d.owner = e /\ d.key = live[e]
               /\ \A r \in rows : r.owner = e /\ r.key = live[e] => r.device = d.id
<1>1. ASSUME NEW e \in Entries, NEW n \in Names, Configure(e, n) \/ Rename(e, n)
      PROVE  DeviceInv'
  BY <1>1 DEF Configure, Rename, DeviceInv
<1>2. ASSUME NEW e \in Entries, NEW u \in Uuids \cup {None}, Adopt(e, u)
      PROVE  DeviceInv'
  <2>1. /\ name[e] \in Names /\ UNCHANGED <<live, disk>>
        /\ live[e] = None
    BY <1>2, Adopting DEF ServedInv
  <2>2. CASE Stays(e, u)
    BY <2>1, <2>2 DEF Stays, DeviceInv
  <2>3. ASSUME NEW k \in Uuids, Moves(e, k) PROVE DeviceInv'
    <3>1. Alone(devices')
      <4> DEFINE old == {d \in devices : d.owner = e /\ d.key = name[e]}
                 existing == {d \in devices : d.owner = e /\ d.key = k}
                 new == {[d EXCEPT !.key = k] : d \in old}
      <4>1. Alone(devices)
        BY DEF DeviceInv
      <4>2. CASE existing # {}
        BY <2>3, <4>1, <4>2 DEF Moves, RekeyDevice
      <4>3. CASE existing = {}
        <5>1. devices' = (devices \ old) \cup new
          BY <2>3, <4>3 DEF Moves, RekeyDevice
        <5>2. \A c, d \in new : c = d
          BY <4>1
        <5>3. \A c \in new : c.owner = e /\ c.key = k
          BY DEF TypeOK, DeviceRows
        <5>4. \A c \in devices : ~(c.owner = e /\ c.key = k)
          BY <4>3
        <5> HIDE DEF old, existing, new
        <5> QED
          BY <4>1, <5>1, <5>2, <5>3, <5>4
      <4> QED
        BY <4>2, <4>3
    <3>2. /\ \A r \in entities' : r.owner # e => r \in entities
          /\ \A d \in devices : d.owner # e => d \in devices'
      BY <2>1, <2>3, Moved
    <3>3. ASSUME NEW f \in Entries, live[f] # None PROVE At(f, devices', entities')
      <4>1. f # e /\ At(f, devices, entities)
        BY <2>1, <3>3 DEF DeviceInv
      <4> QED
        BY <3>2, <4>1
    <3> QED
      BY <2>1, <3>1, <3>3 DEF DeviceInv
  <2> QED
    BY <1>2, <2>2, <2>3, Adopting
<1>3. ASSUME NEW e \in Entries, Forward(e) PROVE DeviceInv'
  <2>1. /\ live' = [live EXCEPT ![e] = DeviceKey(e)] /\ UNCHANGED disk
    BY <1>3, Forwarded
  <2>2. PICK d \in DeviceRows :
            /\ d.owner = e /\ d.key = DeviceKey(e) /\ devices' = devices \cup {d}
            /\ \/ d \in devices
               \/ \A c \in devices : c.owner = e => c.key # DeviceKey(e)
            /\ \A r \in entities' :
                   \/ r \in entities /\ r.key # DeviceKey(e)
                   \/ r.owner = e /\ r.key = DeviceKey(e) /\ r.device = d.id
    BY <1>3, Forwarded
  <2> HIDE DEF DeviceKey
  <2>3. Alone(devices')
    BY <2>2 DEF DeviceInv
  <2>4. /\ live'[e] = DeviceKey(e)
        /\ \A f \in Entries \ {e} : live'[f] = live[f]
    BY <2>1 DEF TypeOK
  <2>5. ASSUME NEW f \in Entries, live'[f] # None
        PROVE  \E c \in devices' :
                   /\ c.owner = f /\ c.key = live'[f]
                   /\ \A r \in entities' :
                          r.owner = f /\ r.key = live'[f] => r.device = c.id
    <3>1. CASE f = e
      <4>1. \A r \in entities' : r.owner = f /\ r.key = live'[f] => r.device = d.id
        BY <2>2, <2>4, <3>1
      <4> QED
        BY <2>2, <2>4, <3>1, <4>1
    <3>2. CASE f # e
      <4>1. At(f, devices, entities)
        BY <2>4, <2>5, <3>2 DEF DeviceInv
      <4> QED
        BY <2>2, <2>4, <3>2, <4>1
    <3> QED
      BY <3>1, <3>2
  <2> QED
    BY <2>1, <2>3, <2>5 DEF DeviceInv
<1>4. ASSUME NEW e \in Entries, Unload(e) PROVE DeviceInv'
  BY <1>4 DEF Unload, memory, DeviceInv, TypeOK
<1>5. CASE Flush
  <2>1. UNCHANGED <<entities, devices, live>>
    BY <1>5 DEF Flush, memory
  <2>2. disk'.devices = disk.devices \/ disk'.devices = devices
    BY <1>5 DEF Flush, TypeOK
  <2> QED
    BY <2>1, <2>2 DEF DeviceInv
<1>6. CASE Crash
  BY <1>6 DEF Crash, Nothing, DeviceInv
<1>7. CASE UNCHANGED vars
  BY <1>7 DEF vars, memory, DeviceInv
<1> QED
  BY <1>1, <1>2, <1>3, <1>4, <1>5, <1>6, <1>7 DEF Next

\* All of it together is inductive.
RowsInv == TypeOK /\ ServedInv /\ NameInv /\ MoveInv /\ UuidInv /\ DeviceInv

LEMMA RowsAlways == ~HastyRenames => (Spec => []RowsInv)
<1> SUFFICES ASSUME ~HastyRenames PROVE Spec => []RowsInv
  OBVIOUS
<1>1. Init => RowsInv
  <2> SUFFICES ASSUME Init PROVE RowsInv
    OBVIOUS
  <2> USE IdentityAssumption DEF Init, Nothing
  <2>1. TypeOK
    BY DEF TypeOK
  <2>2. ServedInv
    BY DEF ServedInv, OneOwner, Served
  <2>3. NameInv /\ UuidInv /\ DeviceInv
    BY DEF NameInv, UuidInv, DeviceInv, AllRows
  <2>4. MoveInv
    BY DEF MoveInv
  <2> QED
    BY <2>1, <2>2, <2>3, <2>4 DEF RowsInv
<1>2. RowsInv /\ [Next]_vars => RowsInv'
  BY Typing, ServedStep, NameStep, MoveStep, UuidStep, DeviceStep DEF RowsInv
<1> QED
  BY <1>1, <1>2, PTL DEF Spec

LEMMA Loaded ==
    ASSUME RowsInv, NEW e \in Entries, live[e] # None
    PROVE  /\ stage[e] = "in" /\ name[e] \in Names /\ live[e] = DeviceKey(e)
           /\ \A r \in entities \cup devices : r.owner = e =>
                  \/ OnName(r, e) /\ r.key = name[e]
                  \/ OnUuid(r, e)
           /\ uuid[e] # None => \A r \in entities : ~OnName(r, e)
BY IdentityAssumption
   DEF RowsInv, TypeOK, ServedInv, NameInv, MoveInv, AllRows, OnName, OnUuid,
       EntityRows, DeviceRows, Keys

\* What Late windows and crashes may cost an entry: nothing, if it has seen no
\* crash or its window is reliable.
LEMMA Together ==
    ASSUME RowsInv, NEW e \in Entries, live[e] # None, crashes = 0 \/ Reliable(e)
    PROVE  \A r \in entities \cup devices : r.owner = e => r.key = live[e]
<1>1. /\ stage[e] = "in" /\ live[e] = DeviceKey(e)
      /\ \A r \in entities \cup devices : r.owner = e =>
             \/ OnName(r, e) /\ r.key = name[e]
             \/ OnUuid(r, e)
      /\ uuid[e] # None => \A r \in entities : ~OnName(r, e)
  BY Loaded
<1>2. CASE crashes = 0
  BY <1>1, <1>2, IdentityAssumption DEF RowsInv, UuidInv, DeviceKey, OnUuid, Keys
<1>3. CASE Reliable(e)
  <2>1. PICK u \in Uuids : Reports[e] \subseteq {u, None}
    BY <1>3 DEF Reliable
  <2>2. uuid[e] = u
    BY <1>1, <1>3, <2>1 DEF RowsInv, UuidInv
  <2>3. DeviceKey(e) = u
    BY <2>2, IdentityAssumption DEF DeviceKey, Keys
  <2> QED
    BY <1>1, <1>3, <2>1, <2>3 DEF RowsInv, UuidInv, AllRows, OnUuid
<1> QED
  BY <1>2, <1>3

\* Whatever writes a crash loses, and whatever the windows report, an entry that
\* comes up on its UUID has no entity row left on its name: setup reconciles
\* the rows of an entry that has its UUID already too, and nothing is in their
\* way (identity.py:18-23, identity.py:69-72).
THEOREM RepairedAlways == ~HastyRenames => (Spec => []Repaired)
<1> SUFFICES ASSUME ~HastyRenames PROVE Spec => []Repaired
  OBVIOUS
<1>1. ASSUME RowsInv PROVE Repaired
  <2> SUFFICES ASSUME NEW e \in Entries, NEW r \in entities,
                      r.owner = e, live[e] \in Uuids, r.key = name[e]
               PROVE  FALSE
    BY DEF Repaired
  <2>1. live[e] # None /\ live[e] \notin Names
    BY IdentityAssumption DEF Keys
  <2>2. name[e] \in Names /\ uuid[e] # None
    BY <1>1, <2>1, Loaded DEF DeviceKey
  <2> QED
    BY <1>1, <2>1, <2>2, Loaded DEF OnName
<1> QED
  BY <1>1, RowsAlways, PTL

\* An entry that has seen no crash, or whose window is reliable, has all its
\* entity rows under the key it is loaded with: no history is left behind under
\* one it no longer has (identity.py:13-16, identity.py:124-155).
THEOREM NoStrandedAlways == ~HastyRenames => (Spec => []NoStranded)
<1> SUFFICES ASSUME ~HastyRenames PROVE Spec => []NoStranded
  OBVIOUS
<1>1. RowsInv => NoStranded
  BY Together DEF NoStranded
<1> QED
  BY <1>1, RowsAlways, PTL

\* Such an entry has exactly one device, and all its entities are on it: however
\* the writes of the two registries were lost, the device moves with the entity
\* rows (identity.py:158-185).
THEOREM OneDeviceAlways == ~HastyRenames => (Spec => []OneDevice)
<1> SUFFICES ASSUME ~HastyRenames PROVE Spec => []OneDevice
  OBVIOUS
<1>1. ASSUME RowsInv PROVE OneDevice
  <2> SUFFICES ASSUME NEW e \in Entries, crashes = 0 \/ Reliable(e), live[e] # None
               PROVE  \E d \in devices :
                          /\ \A c \in devices : c.owner = e => c = d
                          /\ \A r \in entities : r.owner = e => r.device = d.id
    BY DEF OneDevice
  <2>1. \A r \in entities \cup devices : r.owner = e => r.key = live[e]
    BY <1>1, Together
  <2>2. PICK d \in devices :
            /\ d.owner = e /\ d.key = live[e]
            /\ \A r \in entities : r.owner = e /\ r.key = live[e] => r.device = d.id
    BY <1>1 DEF RowsInv, DeviceInv
  <2>3. \A c \in devices : c.owner = e => c = d
    BY <1>1, <2>1, <2>2 DEF RowsInv, DeviceInv
  <2> QED
    BY <2>1, <2>2, <2>3
<1> QED
  BY <1>1, RowsAlways, PTL

\* An entry loaded on its UUID, whose window never reports another, though it
\* may often report none, has every entity row there.
AllOnUuid == \A e \in Entries : \A r \in entities :
                 /\ live[e] \in Uuids
                 /\ \E u \in Uuids : Reports[e] \subseteq {u, None}
                 /\ r.owner = e
                 => r.key = live[e]

\* Crashes and a window that is shy of its UUID together cost an entry nothing
\* once it comes up on the UUID: every row it ever had is then there
\* (identity.py:69-72, identity.py:124-155).
THEOREM AllOnUuidAlways == ~HastyRenames => (Spec => []AllOnUuid)
<1> SUFFICES ASSUME ~HastyRenames PROVE Spec => []AllOnUuid
  OBVIOUS
<1>1. ASSUME RowsInv PROVE AllOnUuid
  <2> SUFFICES ASSUME NEW e \in Entries, NEW r \in entities, live[e] \in Uuids,
                      NEW u \in Uuids, Reports[e] \subseteq {u, None}, r.owner = e
               PROVE  r.key = live[e]
    BY DEF AllOnUuid
  <2>1. live[e] # None /\ live[e] \notin Names
    BY IdentityAssumption DEF Keys
  <2>2. uuid[e] # None /\ live[e] = uuid[e]
    BY <1>1, <2>1, Loaded DEF DeviceKey
  <2>3. OnUuid(r, e)
    BY <1>1, <2>1, <2>2, Loaded
  <2>4. r.key = u /\ uuid[e] = u
    BY <1>1, <2>2, <2>3 DEF RowsInv, UuidInv, AllRows
  <2> QED
    BY <2>2, <2>4
<1> QED
  BY <1>1, RowsAlways, PTL
=============================================================================
