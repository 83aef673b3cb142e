------------------------------- MODULE Syncer -------------------------------
(***************************************************************************)
(* The Syncer of pkg/status/syncer.go with the calls of its client         *)
(* (pkg/status/client.go): the OpenWrtRecord objects on the API server are *)
(* made to match the snapshot the tracker published last.                  *)
(*                                                                         *)
(* Publish runs in the handlers of ExternalDNS' requests, one at a time    *)
(* because the tracker holds its lock; Run is the one goroutine that       *)
(* writes.  They share latest, under a lock, and kick, a channel of one.   *)
(*                                                                         *)
(* Each object has a label with the instance that wrote it.  Another       *)
(* instance may use the namespace, and the same names.                     *)
(***************************************************************************)
EXTENDS Naturals, FiniteSets

CONSTANTS
    Object,       \* objectName of the records there may be
    Record,       \* what a record says: its state, and the rest of it
    Absent,       \* no record, no object
    Snapshot,     \* what the tracker may publish
    NoTime,       \* an empty LastTransitionTime
    Limit,        \* how many objects may fit into the answer of a list
    MaxTime,      \* bound of the clock
    MaxTrouble    \* bound: how often something goes wrong or changes

ASSUME RecordAssumption == \A r \in Record : DOMAIN r = {"State", "Rest"} /\ r # Absent
ASSUME SnapshotAssumption == Snapshot \subseteq [Object -> Record \cup {Absent}]
ASSUME LimitAssumption == Limit \subseteq Nat
ASSUME BoundsAssumption == MaxTime \in Nat /\ MaxTrouble \in Nat /\ NoTime \notin Nat

VARIABLES
    truth,      \* what the tracker's next snapshot says
    publishing, \* whether Publish is between its two statements
    latest,     \* the snapshot to write
    kick,       \* whether the channel is full
    run,        \* where Run is
    records,    \* the snapshot it took last
    live,       \* what list answered
    toApply,    \* what is left to apply
    toRemove,   \* and to remove
    objects,    \* what the API server holds
    limit,      \* how many of this instance's it can be asked for
    now,        \* the clock
    trouble     \* how often something may still go wrong

shared == <<publishing, latest, kick>>
local == <<run, records, live, toApply, toRemove>>
outside == <<truth, objects, limit, now>>
vars == <<shared, local, outside, trouble>>

Nothing == [o \in Object |-> Absent]
Owner == {"mine", "other", "nobody"}
Stored == [record : Record, since : (0 .. MaxTime) \cup {NoTime}, owner : Owner] \cup {Absent}

\* The objects with the label of this instance.
Mine == {o \in Object : objects[o] # Absent /\ objects[o].owner = "mine"}

\* Types, and a pass that is over has nothing left to do.
TypeOK ==
    /\ truth \in Snapshot
    /\ publishing \in BOOLEAN /\ kick \in BOOLEAN
    /\ latest \in Snapshot \cup {Nothing} /\ records \in Snapshot \cup {Nothing}
    /\ run \in {"waiting", "woken", "listing", "writing"}
    /\ live \in [Object -> Stored] /\ objects \in [Object -> Stored]
    /\ toApply \subseteq Object /\ toRemove \subseteq Object
    /\ run # "writing" => toApply = {} /\ toRemove = {}
    /\ limit \in Limit
    /\ now \in 0 .. MaxTime
    /\ trouble \in 0 .. MaxTrouble

Init ==
    /\ truth \in Snapshot
    /\ publishing = FALSE /\ latest = Nothing /\ kick = FALSE
    /\ run = "waiting" /\ records = Nothing
    /\ live = Nothing /\ toApply = {} /\ toRemove = {}
    /\ objects = Nothing /\ limit \in Limit
    /\ now = 0
    /\ trouble = MaxTrouble

-----------------------------------------------------------------------------
(* Publish                                                                 *)

Replace ==
    /\ ~ publishing /\ publishing' = TRUE
    /\ latest' = truth
    /\ UNCHANGED <<kick, local, outside, trouble>>

\* Mutants: the channel has no room, so only a Run that waits is woken; and a
\* snapshot that says nothing new wakes nobody.
KickWaiting ==
    /\ publishing /\ publishing' = FALSE
    /\ kick' = (run = "waiting")
    /\ UNCHANGED <<latest, local, outside, trouble>>

KickNews ==
    /\ publishing /\ publishing' = FALSE
    /\ kick' = (kick \/ records # latest)
    /\ UNCHANGED <<latest, local, outside, trouble>>

\* A full channel is left as it is.
Kick ==
    /\ publishing /\ publishing' = FALSE
    /\ kick' = TRUE
    /\ UNCHANGED <<latest, local, outside, trouble>>

-----------------------------------------------------------------------------
(* Run and sync                                                            *)

Woken ==
    /\ run = "waiting" /\ kick
    /\ run' = "woken" /\ kick' = FALSE
    /\ UNCHANGED <<publishing, latest, records, live, toApply, toRemove, outside, trouble>>

Take ==
    /\ run = "woken" /\ run' = "listing"
    /\ records' = latest
    /\ UNCHANGED <<shared, live, toApply, toRemove, outside, trouble>>

\* An object that says what the record says, and since when, is left alone.
UpToDate(stored, record) ==
    stored # Absent /\ stored.record = record /\ stored.since # NoTime

\* Mutant: no label is asked for.
ListedAll == objects

\* What the label selects.
Listed == [o \in Object |-> IF o \in Mine THEN objects[o] ELSE Absent]

List ==
    /\ run = "listing" /\ Cardinality(Mine) <= limit
    /\ run' = "writing"
    /\ live' = Listed
    /\ toApply' = {o \in Object : records[o] # Absent /\ ~ UpToDate(live'[o], records[o])}
    /\ toRemove' = {o \in Object : records[o] = Absent /\ live'[o] # Absent}
    /\ UNCHANGED <<shared, records, outside, trouble>>

\* An answer that is too long is cut off and cannot be decoded: nothing is written.
ListCutOff ==
    /\ run = "listing" /\ Cardinality(Mine) > limit
    /\ run' = "waiting"
    /\ UNCHANGED <<shared, records, live, toApply, toRemove, outside, trouble>>

\* A record whose state has not changed keeps its time.
Since(o) ==
    IF live[o] # Absent /\ live[o].record.State = records[o].State /\ live[o].since # NoTime
    THEN live[o].since
    ELSE now

\* The fields, and the labels, are taken over from whoever has them.
Applied(o) == [record |-> records[o], since |-> Since(o), owner |-> "mine"]

Apply ==
    /\ run = "writing"
    /\ \E o \in toApply :
           /\ toApply' = toApply \ {o}
           /\ objects' = [objects EXCEPT ![o] = Applied(o)]
    /\ UNCHANGED <<shared, run, records, live, toRemove, truth, limit, now, trouble>>

\* By its name, whoever it is of by now.  One already gone is not an error.
Remove ==
    /\ run = "writing" /\ toApply = {}
    /\ \E o \in toRemove :
           /\ toRemove' = toRemove \ {o}
           /\ objects' = [objects EXCEPT ![o] = Absent]
    /\ UNCHANGED <<shared, run, records, live, toApply, truth, limit, now, trouble>>

Done ==
    /\ run = "writing" /\ toApply = {} /\ toRemove = {}
    /\ run' = "waiting" /\ live' = Nothing
    /\ UNCHANGED <<shared, records, toApply, toRemove, outside, trouble>>

-----------------------------------------------------------------------------
(* What may go wrong or change, MaxTrouble times                           *)

\* Mutant: a list that failed is taken for an empty one.
ListedNothing ==
    /\ run = "listing" /\ run' = "writing"
    /\ live' = Nothing
    /\ toApply' = {o \in Object : records[o] # Absent}
    /\ UNCHANGED <<shared, records, toRemove, outside>>

\* Nothing is written this time.
ListFails ==
    /\ run = "listing" /\ run' = "waiting"
    /\ UNCHANGED <<shared, records, live, toApply, toRemove, outside>>

\* Mutant: the pass ends with the first write that fails.
EndsPass ==
    /\ run = "writing" /\ toApply # {} /\ run' = "waiting"
    /\ UNCHANGED <<shared, records, live, toApply, toRemove, outside>>

\* One write fails and the pass goes on with the next.  That its answer is lost
\* and that it is made look alike.
ApplyFails ==
    /\ run = "writing"
    /\ \E o \in toApply : toApply' = toApply \ {o}
    /\ UNCHANGED <<shared, run, records, live, toRemove, outside>>

RemoveFails ==
    /\ run = "writing" /\ toApply = {}
    /\ \E o \in toRemove : toRemove' = toRemove \ {o}
    /\ UNCHANGED <<shared, run, records, live, toApply, outside>>

\* An object is deleted or edited by hand, its state, its time and its label too.
Edit ==
    /\ \E o \in Object :
           /\ objects[o] # Absent
           /\ \/ objects' = [objects EXCEPT ![o] = Absent]
              \/ \E r \in Record, t \in {NoTime, objects[o].since} :
                     objects' = [objects EXCEPT
                                    ![o] = [record |-> r, since |-> t, owner |-> @.owner]]
              \/ objects' = [objects EXCEPT ![o].owner = "nobody"]
    /\ UNCHANGED <<shared, local, truth, limit, now>>

\* Another instance writes an object of this name, whoever had it.
OtherApplies ==
    /\ \E o \in Object, r \in Record :
           objects' = [objects EXCEPT ![o] = [record |-> r, since |-> now, owner |-> "other"]]
    /\ UNCHANGED <<shared, local, truth, limit, now>>

\* The router, or what is asked of it, changes.
Changes ==
    /\ truth' \in Snapshot \ {truth}
    /\ UNCHANGED <<shared, local, objects, limit, now>>

\* The process ends, in the middle of a pass or not, and is started again.
Restart ==
    /\ publishing' = FALSE /\ latest' = Nothing /\ kick' = FALSE
    /\ run' = "waiting" /\ records' = Nothing
    /\ live' = Nothing /\ toApply' = {} /\ toRemove' = {}
    /\ UNCHANGED outside

Tick == now < MaxTime /\ now' = now + 1 /\ UNCHANGED <<shared, local, truth, objects, limit, trouble>>

Publish == Replace \/ Kick

Sync == Woken \/ Take \/ List \/ ListCutOff \/ Apply \/ Remove \/ Done

Disturb ==
    /\ trouble > 0 /\ trouble' = trouble - 1
    /\ ListFails \/ ApplyFails \/ RemoveFails \/ Edit \/ OtherApplies \/ Changes \/ Restart

Next == Publish \/ Sync \/ Disturb \/ Tick

Spec == Init /\ [][Next]_vars

\* ExternalDNS has the tracker publish on every run; each call of the client
\* has a timeout, so Run goes on.
FairSpec ==
    /\ Spec
    /\ WF_vars(Replace) /\ WF_vars(Kick) /\ WF_vars(Sync)

-----------------------------------------------------------------------------
(* Properties.                                                             *)

\* Run is about to look at latest.
Awake == publishing \/ kick \/ run = "woken"

\* No snapshot is forgotten: unless Run is about to look, the one it took last
\* is the latest, however many were published while it was writing
\* (syncer.go:25-27, 48-58).
NoSnapshotForgotten == ~ Awake => records = latest

\* A transition time says since when a record has its state: a pass that writes
\* an object of its instance again leaves it, after failures, restarts and edits by
\* hand, but for an edit of the state since the pass listed it (syncer.go:78-80,
\* 110-113).
SinceKept ==
    [][\A o \in Mine :
          /\ objects'[o] # Absent /\ objects'[o].owner = "mine"
          /\ objects[o].record.State = objects'[o].record.State
          /\ objects[o].since # NoTime
          /\ objects'[o].since # NoTime
          /\ live[o] # Absent => live[o].record.State = objects[o].record.State
          => objects'[o].since = objects[o].since]_vars

\* A pass changes or deletes an object that is not of its instance only if it wants
\* a record of that name, or the object was its own when it was listed: what
\* becomes of "never delete each other's" (client.go:35-36) between list and write.
OthersKept ==
    [][\A o \in Object \ Mine :
          toApply' # toApply \/ toRemove' # toRemove =>
              \/ objects'[o] = objects[o]
              \/ records[o] # Absent
              \/ live[o] # Absent /\ live[o].owner = "mine"]_vars

\* What there is of a snapshot: each of its records has its object, and no other
\* object is this instance's.
Matches(snapshot) ==
    \A o \in Object :
        IF snapshot[o] = Absent THEN o \notin Mine
        ELSE o \in Mine /\ objects[o].record = snapshot[o]

\* More objects than a list can be asked for: no pass gets further, not even to
\* remove some (client.go:210, 224-227).
Overfull == Cardinality(Mine) > limit

\* Once nothing goes wrong any more the objects come to match what the tracker
\* publishes: what failed is tried again with the next snapshot, what was edited or
\* taken over is restored (syncer.go:60-61, 78-80), unless there are too many.
MirrorCatchesUp == <>[](Matches(truth) \/ Overfull)
=============================================================================
