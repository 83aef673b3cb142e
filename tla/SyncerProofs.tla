---------------------------- MODULE SyncerProofs ----------------------------
(***************************************************************************)
(* Proofs about Syncer, for any objects, records and snapshots, any number *)
(* of failures and edits by hand, and any bound of the clock.              *)
(***************************************************************************)
EXTENDS Syncer, TLAPS

\* No snapshot is forgotten, whatever interleaving of Publish and Run: unless
\* Run is about to look, the snapshot it took last is the latest (syncer.go:
\* 25-27, 48-58).
THEOREM SnapshotNeverForgotten == Spec => []NoSnapshotForgotten
<1>1. Init => NoSnapshotForgotten
  BY DEF Init, NoSnapshotForgotten
<1>2. NoSnapshotForgotten /\ [Next]_vars => NoSnapshotForgotten'
  <2> SUFFICES ASSUME NoSnapshotForgotten, [Next]_vars
               PROVE  NoSnapshotForgotten'
    OBVIOUS
  <2> USE DEF NoSnapshotForgotten, Awake, shared, local, outside
  <2>1. CASE Replace
    BY <2>1 DEF Replace
  <2>2. CASE Kick
    BY <2>2 DEF Kick
  <2>3. CASE Woken
    BY <2>3 DEF Woken
  <2>4. CASE Take
    BY <2>4 DEF Take
  <2>5. CASE List \/ ListCutOff \/ Apply \/ Remove \/ Done
    BY <2>5 DEF List, ListCutOff, Apply, Remove, Done
  <2>6. CASE ListFails \/ ApplyFails \/ RemoveFails
    BY <2>6 DEF ListFails, ApplyFails, RemoveFails
  <2>7. CASE Edit \/ OtherApplies \/ Changes \/ Tick
    BY <2>7 DEF Edit, OtherApplies, Changes, Tick
  <2>8. CASE Restart
    BY <2>8 DEF Restart
  <2>9. CASE UNCHANGED vars
    BY <2>9 DEF vars
  <2>10. QED
    BY <2>1, <2>2, <2>3, <2>4, <2>5, <2>6, <2>7, <2>8, <2>9
    DEF Next, Publish, Sync, Disturb
<1>3. QED
  BY <1>1, <1>2, PTL DEF Spec

-----------------------------------------------------------------------------
(* What a pass does to the objects                                         *)

\* What was listed is of this instance, what is applied is asked for, what is removed
\* was listed; and an object that is still to be applied has, while it is of this
\* instance, the time it was listed with, unless that was taken from it.
PassInv ==
    /\ \A o \in Object : live[o] # Absent => live[o].owner = "mine"
    /\ \A o \in toApply : records[o] # Absent
    /\ \A o \in toRemove : live[o] # Absent
    /\ \A o \in toApply \cap Mine :
           live[o] # Absent /\ objects[o].since \in {live[o].since, NoTime}

SyncerInv == TypeOK /\ PassInv

\* A record that is wanted is one of Record.
LEMMA WantedIsRecord ==
    ASSUME records \in Snapshot \cup {Nothing}, NEW o \in Object, records[o] # Absent
    PROVE  records[o] \in Record
BY SnapshotAssumption DEF Nothing

LEMMA AppliedType ==
    ASSUME TypeOK, PassInv, NEW o \in toApply
    PROVE  Applied(o) \in Stored
<1>1. o \in Object /\ records[o] \in Record
  BY WantedIsRecord DEF TypeOK, PassInv
<1>2. live[o] # Absent => live[o].since \in (0 .. MaxTime) \cup {NoTime}
  BY <1>1 DEF TypeOK, Stored
<1>3. Since(o) \in (0 .. MaxTime) \cup {NoTime}
  BY <1>2 DEF Since, TypeOK
<1>4. QED
  BY <1>1, <1>3 DEF Applied, Stored, Owner

LEMMA InitSyncer == Init => SyncerInv
<1> SUFFICES ASSUME Init PROVE SyncerInv
  OBVIOUS
<1>1. Nothing \in [Object -> Stored] /\ \A o \in Object : Nothing[o] = Absent
  BY DEF Nothing, Stored
<1>2. 0 \in 0 .. MaxTime /\ MaxTrouble \in 0 .. MaxTrouble
  BY BoundsAssumption
<1>3. TypeOK
  BY <1>1, <1>2 DEF Init, TypeOK
<1>4. PassInv
  BY <1>1 DEF Init, PassInv
<1>5. QED
  BY <1>3, <1>4 DEF SyncerInv

LEMMA SyncerStep == SyncerInv /\ [Next]_vars => SyncerInv'
<1> SUFFICES ASSUME SyncerInv, [Next]_vars PROVE SyncerInv'
  OBVIOUS
<1> USE DEF shared, local, outside
<1>1. CASE Publish
  BY <1>1 DEF Publish, Replace, Kick, SyncerInv, TypeOK, PassInv, Mine
<1>2. CASE Woken \/ Take
  BY <1>2 DEF Woken, Take, SyncerInv, TypeOK, PassInv, Mine
<1>3. CASE List
  <2>1. live' \in [Object -> Stored]
    BY <1>3 DEF List, Listed, SyncerInv, TypeOK, Stored
  <2>2. TypeOK'
    BY <1>3, <2>1 DEF List, SyncerInv, TypeOK
  <2>3. \A o \in Object : live'[o] = IF o \in Mine THEN objects[o] ELSE Absent
    BY <1>3 DEF List, Listed
  <2>4. PassInv'
    BY <1>3, <2>3 DEF List, SyncerInv, TypeOK, PassInv, Mine
  <2>5. QED
    BY <2>2, <2>4 DEF SyncerInv
<1>4. CASE ListCutOff
  BY <1>4 DEF ListCutOff, SyncerInv, TypeOK, PassInv, Mine
<1>5. CASE Apply
  <2>1. PICK o \in toApply : /\ toApply' = toApply \ {o}
                             /\ objects' = [objects EXCEPT ![o] = Applied(o)]
    BY <1>5 DEF Apply
  <2>2. Applied(o) \in Stored
    BY <2>1, AppliedType DEF SyncerInv
  <2>3. TypeOK'
    BY <1>5, <2>1, <2>2 DEF Apply, SyncerInv, TypeOK
  <2>4. \A p \in toApply' : objects'[p] = objects[p]
    BY <2>1 DEF SyncerInv, TypeOK
  <2>5. PassInv'
    BY <1>5, <2>1, <2>4 DEF Apply, SyncerInv, TypeOK, PassInv, Mine
  <2>6. QED
    BY <2>3, <2>5 DEF SyncerInv
<1>6. CASE Remove
  <2>1. PICK o \in toRemove : /\ toRemove' = toRemove \ {o} /\ toApply = {}
                              /\ objects' = [objects EXCEPT ![o] = Absent]
    BY <1>6 DEF Remove
  <2>2. TypeOK'
    BY <1>6, <2>1 DEF Remove, SyncerInv, TypeOK, Stored
  <2>3. PassInv'
    BY <1>6, <2>1 DEF Remove, SyncerInv, TypeOK, PassInv, Mine
  <2>4. QED
    BY <2>2, <2>3 DEF SyncerInv
<1>7. CASE Done
  BY <1>7 DEF Done, SyncerInv, TypeOK, PassInv, Mine, Nothing, Stored
<1>8. CASE Tick
  BY <1>8, BoundsAssumption DEF Tick, SyncerInv, TypeOK, PassInv, Mine
<1>9. CASE Disturb
  <2>1. trouble' \in 0 .. MaxTrouble
    BY <1>9, BoundsAssumption DEF Disturb, SyncerInv, TypeOK
  <2>2. CASE ListFails \/ ApplyFails \/ RemoveFails
    BY <2>1, <2>2 DEF ListFails, ApplyFails, RemoveFails, SyncerInv, TypeOK, PassInv, Mine
  <2>3. CASE Edit
    <3>1. PICK o \in Object :
              /\ objects[o] # Absent
              /\ \/ objects' = [objects EXCEPT ![o] = Absent]
                 \/ \E r \in Record, t \in {NoTime, objects[o].since} :
                        objects' = [objects EXCEPT
                                       ![o] = [record |-> r, since |-> t, owner |-> @.owner]]
                 \/ objects' = [objects EXCEPT ![o].owner = "nobody"]
      BY <2>3 DEF Edit
    <3>2. objects \in [Object -> Stored]
          /\ objects[o] \in [record : Record, since : (0 .. MaxTime) \cup {NoTime}, owner : Owner]
      BY <3>1 DEF SyncerInv, TypeOK, Stored
    <3>3. PICK x \in Stored :
              /\ objects' = [objects EXCEPT ![o] = x]
              /\ \/ x = Absent
                 \/ x.owner = "nobody"
                 \/ x.owner = objects[o].owner /\ x.since \in {NoTime, objects[o].since}
      <4>1. CASE objects' = [objects EXCEPT ![o] = Absent]
        BY <4>1 DEF Stored
      <4>2. ASSUME NEW r \in Record, NEW t \in {NoTime, objects[o].since},
                   objects' = [objects EXCEPT
                                  ![o] = [record |-> r, since |-> t, owner |-> @.owner]]
            PROVE  \E x \in Stored :
                       /\ objects' = [objects EXCEPT ![o] = x]
                       /\ x.owner = objects[o].owner /\ x.since \in {NoTime, objects[o].since}
        <5> DEFINE x == [record |-> r, since |-> t, owner |-> objects[o].owner]
        <5>1. x \in Stored
          BY <3>2 DEF Stored
        <5>2. QED
          BY <4>2, <5>1
      <4>3. ASSUME objects' = [objects EXCEPT ![o].owner = "nobody"]
            PROVE  \E x \in Stored : objects' = [objects EXCEPT ![o] = x] /\ x.owner = "nobody"
        <5> DEFINE x == [objects[o] EXCEPT !.owner = "nobody"]
        <5>1. x \in Stored /\ x.owner = "nobody"
          BY <3>2 DEF Stored, Owner
        <5>2. QED
          BY <4>3, <5>1
      <4>4. QED
        BY <3>1, <4>1, <4>2, <4>3
    <3>4. UNCHANGED <<shared, local, truth, limit, now>>
      BY <2>3 DEF Edit
    <3>5. TypeOK'
      BY <2>1, <3>2, <3>3, <3>4 DEF SyncerInv, TypeOK
    <3>6. \A p \in Object : /\ p # o => objects'[p] = objects[p]
                            /\ p = o => objects'[p] = x
      BY <3>2, <3>3
    <3>7. o \in Mine' => o \in Mine /\ objects'[o].since \in {NoTime, objects[o].since}
      BY <3>1, <3>3, <3>6 DEF Mine
    <3>8. PassInv'
      BY <3>4, <3>6, <3>7 DEF SyncerInv, TypeOK, PassInv, Mine
    <3>9. QED
      BY <3>5, <3>8 DEF SyncerInv
  <2>4. CASE OtherApplies
    <3>1. PICK o \in Object, r \in Record :
              objects' = [objects EXCEPT ![o] = [record |-> r, since |-> now, owner |-> "other"]]
      BY <2>4 DEF OtherApplies
    <3>2. TypeOK'
      BY <2>1, <2>4, <3>1 DEF OtherApplies, SyncerInv, TypeOK, Stored, Owner
    <3>3. PassInv'
      BY <2>4, <3>1 DEF OtherApplies, SyncerInv, TypeOK, PassInv, Mine
    <3>4. QED
      BY <3>2, <3>3 DEF SyncerInv
  <2>5. CASE Changes
    BY <2>1, <2>5 DEF Changes, SyncerInv, TypeOK, PassInv, Mine
  <2>6. CASE Restart
    BY <2>1, <2>6 DEF Restart, SyncerInv, TypeOK, PassInv, Mine, Nothing, Stored
  <2>7. QED
    BY <1>9, <2>2, <2>3, <2>4, <2>5, <2>6 DEF Disturb
<1>10. CASE UNCHANGED vars
  BY <1>10 DEF vars, SyncerInv, TypeOK, PassInv, Mine
<1>11. QED
  BY <1>1, <1>2, <1>3, <1>4, <1>5, <1>6, <1>7, <1>8, <1>9, <1>10 DEF Next, Sync

LEMMA SyncerAlways == Spec => []SyncerInv
BY InitSyncer, SyncerStep, PTL DEF Spec

\* Every variable keeps its type, and a pass that is over has nothing left to do.
THEOREM SyncerTypes == Spec => []TypeOK
<1>1. SyncerInv => TypeOK
  BY DEF SyncerInv
<1>2. QED
  BY <1>1, SyncerAlways, PTL


\* The steps that write no object, and those that do.
LEMMA WhatWrites ==
    ASSUME [Next]_vars
    PROVE  \/ UNCHANGED objects
           \/ Apply \/ Remove \/ Edit \/ OtherApplies
BY DEF Next, Publish, Replace, Kick, Sync, Woken, Take, List, ListCutOff, Done, Disturb,
       ListFails, ApplyFails, RemoveFails, Changes, Restart, Tick, vars, shared, local, outside

\* Another's object is changed by a pass only under a name it wants, or one that was
\* this instance's when the pass listed it (client.go:35-36).
THEOREM OthersAreKept == Spec => OthersKept
<1> DEFINE Kept == \A o \in Object \ Mine :
                       toApply' # toApply \/ toRemove' # toRemove =>
                           \/ objects'[o] = objects[o]
                           \/ records[o] # Absent
                           \/ live[o] # Absent /\ live[o].owner = "mine"
<1>1. SyncerInv /\ [Next]_vars => [Kept]_vars
  <2> SUFFICES ASSUME SyncerInv, [Next]_vars PROVE Kept
    OBVIOUS
  <2>1. CASE Apply
    <3>1. PICK p \in toApply : objects' = [objects EXCEPT ![p] = Applied(p)]
      BY <2>1 DEF Apply
    <3>2. QED
      BY <3>1 DEF SyncerInv, TypeOK, PassInv
  <2>2. CASE Remove
    <3>1. PICK p \in toRemove : objects' = [objects EXCEPT ![p] = Absent]
      BY <2>2 DEF Remove
    <3>2. QED
      BY <3>1 DEF SyncerInv, TypeOK, PassInv
  <2>3. CASE Edit \/ OtherApplies
    BY <2>3 DEF Edit, OtherApplies, local
  <2>4. QED
    BY <2>1, <2>2, <2>3, WhatWrites
<1>2. QED
  BY <1>1, SyncerAlways, PTL DEF Spec, OthersKept

\* A pass that writes an object again leaves it the time since when it has its state,
\* whatever was edited by hand but the state itself since it was listed
\* (syncer.go:78-80, 110-113).
THEOREM TimesAreKept == Spec => SinceKept
<1> DEFINE Kept == \A o \in Mine :
                       /\ objects'[o] # Absent /\ objects'[o].owner = "mine"
                       /\ objects[o].record.State = objects'[o].record.State
                       /\ objects[o].since # NoTime
                       /\ objects'[o].since # NoTime
                       /\ live[o] # Absent => live[o].record.State = objects[o].record.State
                       => objects'[o].since = objects[o].since
<1>1. SyncerInv /\ [Next]_vars => [Kept]_vars
  <2> SUFFICES ASSUME SyncerInv, [Next]_vars,
                      NEW o \in Mine,
                      objects'[o] # Absent, objects'[o].owner = "mine",
                      objects[o].record.State = objects'[o].record.State,
                      objects[o].since # NoTime, objects'[o].since # NoTime,
                      live[o] # Absent => live[o].record.State = objects[o].record.State
               PROVE  objects'[o].since = objects[o].since
    OBVIOUS
  <2>1. o \in Object /\ objects \in [Object -> Stored]
    BY DEF Mine, SyncerInv, TypeOK
  <2>2. CASE Apply
    <3>1. PICK p \in toApply : objects' = [objects EXCEPT ![p] = Applied(p)]
      BY <2>2 DEF Apply
    <3>2. CASE p = o
      <4>1. objects'[o] = Applied(o)
        BY <2>1, <3>1, <3>2
      <4>2. live[o] # Absent /\ live[o].since = objects[o].since
        BY <3>2 DEF SyncerInv, PassInv
      <4>3. live[o].record.State = records[o].State
        BY <4>1, <4>2 DEF Applied
      <4>4. Since(o) = live[o].since
        BY <4>2, <4>3 DEF Since
      <4>5. QED
        BY <4>1, <4>2, <4>4 DEF Applied
    <3>3. CASE p # o
      BY <2>1, <3>1, <3>3
    <3>4. QED
      BY <3>2, <3>3
  <2>3. CASE Remove
    BY <2>1, <2>3 DEF Remove
  <2>4. CASE Edit
    <3>1. PICK p \in Object :
              \/ objects' = [objects EXCEPT ![p] = Absent]
              \/ \E r \in Record, t \in {NoTime, objects[p].since} :
                     objects' = [objects EXCEPT
                                    ![p] = [record |-> r, since |-> t, owner |-> @.owner]]
              \/ objects' = [objects EXCEPT ![p].owner = "nobody"]
      BY <2>4 DEF Edit
    <3>2. objects[o] \in [record : Record, since : (0 .. MaxTime) \cup {NoTime}, owner : Owner]
      BY <2>1 DEF Mine, Stored
    <3>3. QED
      BY <2>1, <3>1, <3>2
  <2>5. CASE OtherApplies
    BY <2>1, <2>5 DEF OtherApplies
  <2>6. QED
    BY <2>2, <2>3, <2>4, <2>5, WhatWrites
<1>2. QED
  BY <1>1, SyncerAlways, PTL DEF Spec, SinceKept

=============================================================================
