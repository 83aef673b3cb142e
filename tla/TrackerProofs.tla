---------------------------- MODULE TrackerProofs ----------------------------
(***************************************************************************)
(* Proofs about Tracker, for any records, targets and wishes, and any      *)
(* number of requests that overlap, fail and are given up.                 *)
(***************************************************************************)
EXTENDS Tracker, TLAPS

Fields ==
    [actual : Targets \cup {Nil}, desired : Targets \cup {Nil},
     rejected : SUBSET RecordKey, attempted : SUBSET RecordKey,
     failed : SUBSET RecordKey, conflict : SUBSET RecordKey]

Snapshots == [RecordKey -> State \cup {"absent"}]

Types ==
    /\ held \in Targets
    /\ blocked \subseteq RecordKey
    /\ wish \in Wish /\ filtered \in Filter
    /\ xdns \in {"idle", "reading", "planning", "posted"}
    /\ current \in Targets
    /\ reading \subseteq Reading
    /\ waiting \subseteq Change
    /\ running \in Outcome \cup {Nil}
    /\ tracker \in Fields
    /\ shown \in Snapshots \cup {Nil}
    /\ last \in [RecordKey -> {"none", "ok", "skipped", "error"}]
    /\ overlap \in {"no", "ending", "yes"}
    /\ trouble \in 0 .. MaxTrouble

\* A record that the change set under way does not carry is held to have failed, or
\* to be in conflict, only if that is what became of the last one that did.
Reason(k) ==
    /\ k \in tracker.failed => last[k] = "error"
    /\ k \in tracker.conflict => last[k] = "skipped"

\* What the observer has noted of the change set under way.
Noted(o) ==
    /\ o.skipped \subseteq Carried(o.change)
    /\ o.err => o.skipped = {}
    /\ \A k \in Carried(o.change) :
           /\ o.err => last[k] = "error"
           /\ k \in o.skipped => last[k] = "skipped"

ReasonInv ==
    /\ tracker.failed \cap tracker.conflict = {}
    /\ \A k \in RecordKey : running = Nil \/ k \notin Carried(running.change) => Reason(k)
    /\ running # Nil => Noted(running)

\* A process that has published has seen both sides, and publishes again whenever
\* what it holds of failures and conflicts changes.
ShownInv ==
    shown # Nil =>
        /\ tracker.actual # Nil /\ tracker.desired # Nil
        /\ \A k \in RecordKey :
               /\ shown[k] = "Error" => k \in tracker.failed
               /\ shown[k] = "Conflict" => k \in tracker.conflict

TrackerInv == Types /\ ReasonInv /\ ShownInv

-----------------------------------------------------------------------------
(* Lemmas about the operators                                              *)

LEMMA ObserveRecordsType ==
    ASSUME NEW t \in Fields, NEW got \in Targets
    PROVE  /\ observeRecords(t, got) \in Fields
           /\ observeRecords(t, got) = [t EXCEPT !.actual = got]
BY DEF observeRecords, Fields

LEMMA ObserveDesiredType ==
    ASSUME NEW t \in Fields, NEW asked \in Wish
    PROVE  /\ observeDesired(t, asked) \in Fields
           /\ observeDesired(t, asked).desired \in Targets
           /\ observeDesired(t, asked).actual = t.actual
           /\ observeDesired(t, asked).failed = t.failed
           /\ observeDesired(t, asked).conflict = t.conflict
<1> DEFINE d == [k \in RecordKey |-> IF asked[k] = Unwritable THEN {} ELSE asked[k]]
           u == {k \in RecordKey : asked[k] = Unwritable}
<1>1. d \in Targets
  BY WishAssumption DEF Targets
<1>2. observeDesired(t, asked) = [t EXCEPT !.desired = d, !.rejected = u]
  BY DEF observeDesired
<1>3. u \in SUBSET RecordKey
  OBVIOUS
<1> HIDE DEF d, u
<1>4. QED
  BY <1>1, <1>2, <1>3 DEF Fields

LEMMA ObserveApplyType ==
    ASSUME NEW t \in Fields, NEW o \in Outcome
    PROVE  /\ observeApply(t, o) \in Fields
           /\ observeApply(t, o).failed = failed(t, o)
           /\ observeApply(t, o).conflict = conflict(t, o)
           /\ observeApply(t, o).desired = t.desired
           /\ observeApply(t, o).actual = actual(t, o)
           /\ t.actual # Nil => observeApply(t, o).actual # Nil
<1>1. Carried(o.change) \subseteq RecordKey
  BY DEF Carried
<1>2. failed(t, o) \subseteq RecordKey /\ conflict(t, o) \subseteq RecordKey
  BY <1>1 DEF failed, conflict, Fields, Outcome
<1>3. t.actual # Nil => heldNow(t, o) \in Targets
  <2>1. t.actual # Nil => t.actual \in Targets
    BY DEF Fields
  <2>2. o.change.new \in Targets
    BY DEF Outcome, Change
  <2>3. QED
    BY <2>1, <2>2 DEF heldNow, Targets
<1>4. actual(t, o) \in Targets \cup {Nil} /\ (t.actual # Nil => actual(t, o) # Nil)
  BY <1>3, NilAssumption DEF actual, Fields
<1> DEFINE a == actual(t, o)
           f == failed(t, o)
           c == conflict(t, o)
           n == Carried(o.change)
<1>5. observeApply(t, o) = [t EXCEPT !.attempted = @ \cup n, !.failed = f, !.conflict = c, !.actual = a]
  BY DEF observeApply
<1> HIDE DEF a, f, c, n
<1>6. n \subseteq RecordKey /\ f \subseteq RecordKey /\ c \subseteq RecordKey /\ a \in Targets \cup {Nil}
  BY <1>1, <1>2, <1>4 DEF a, f, c, n
<1>7. observeApply(t, o) \in Fields
  BY <1>5, <1>6 DEF Fields
<1>8. QED
  BY <1>4, <1>5, <1>7 DEF a, f, c, Fields

\* What is published has the reasons of the tracker.
LEMMA SnapshotReasons ==
    ASSUME NEW t \in Fields
    PROVE  /\ snapshotLocked(t) \in Snapshots
           /\ \A k \in RecordKey :
                  /\ snapshotLocked(t)[k] = "Error" => k \in t.failed
                  /\ snapshotLocked(t)[k] = "Conflict" => k \in t.conflict
BY DEF snapshotLocked, Missing, Snapshots, State

LEMMA PlanType ==
    ASSUME NEW asked \in Targets, current \in Targets, NEW sync \in BOOLEAN
    PROVE  Plan(asked, sync) \in Change
BY DEF Plan, Change, Poster, Targets

LEMMA EffectType ==
    ASSUME held \in Targets, NEW change \in Change
    PROVE  Effect(change) \in Targets
BY DEF Effect, Change, Targets

LEMMA SkippedCarried ==
    ASSUME blocked \subseteq RecordKey, NEW change \in Change
    PROVE  Skipped(change) \subseteq Carried(change)
BY DEF Skipped, Carried

-----------------------------------------------------------------------------
(* The steps                                                               *)

LEMMA InitTracker == Init => TrackerInv
<1> SUFFICES ASSUME Init PROVE TrackerInv
  OBVIOUS
<1>1. NewTracker \in Fields
  BY DEF NewTracker, Fields
<1>2. Types
  BY <1>1, TroubleAssumption DEF Init, Types, Nothing, Targets
<1>3. ReasonInv /\ ShownInv
  BY DEF Init, ReasonInv, Reason, ShownInv, NewTracker
<1>4. QED
  BY <1>2, <1>3 DEF TrackerInv

\* A step that neither tells the tracker of a change set nor starts one keeps the
\* reasons, and one that leaves the tracker and shown alone keeps what is shown.
LEMMA ReasonKept ==
    ASSUME ReasonInv, UNCHANGED <<running, last>>,
           tracker'.failed = tracker.failed, tracker'.conflict = tracker.conflict
    PROVE  ReasonInv'
BY DEF ReasonInv, Reason, Noted, Carried

LEMMA ShownKept == ShownInv /\ UNCHANGED <<tracker, shown>> => ShownInv'
BY DEF ShownInv

LEMMA GetRecordsStep == TrackerInv /\ GetRecords => TrackerInv'
<1> SUFFICES ASSUME TrackerInv, GetRecords PROVE TrackerInv'
  OBVIOUS
<1>1. Types'
  BY DEF TrackerInv, Types, GetRecords, environment, Reading, Poster
<1>2. ReasonInv' /\ ShownInv'
  BY ReasonKept, ShownKept DEF TrackerInv, GetRecords
<1>3. QED
  BY <1>1, <1>2 DEF TrackerInv

LEMMA RecordsStep == TrackerInv /\ Records => TrackerInv'
<1> SUFFICES ASSUME TrackerInv, Records PROVE TrackerInv'
  OBVIOUS
<1>1. PICK r \in reading :
          /\ tracker' = observeRecords(tracker, r.got)
          /\ reading' = reading \ {r}
          /\ IF r.poster = "waits"
             THEN xdns' = "planning" /\ current' = r.got
             ELSE UNCHANGED <<xdns, current>>
  BY DEF Records
<1>2. r.got \in Targets /\ tracker \in Fields
  BY DEF TrackerInv, Types, Reading
<1>3. tracker' \in Fields /\ tracker' = [tracker EXCEPT !.actual = r.got]
  BY <1>1, <1>2, ObserveRecordsType
<1>4. Types'
  BY <1>1, <1>2, <1>3 DEF TrackerInv, Types, Records, environment
<1>5. /\ tracker'.actual = r.got /\ tracker'.desired = tracker.desired
      /\ tracker'.failed = tracker.failed /\ tracker'.conflict = tracker.conflict
  BY <1>2, <1>3 DEF Fields
<1>6. ReasonInv'
  BY <1>5, ReasonKept DEF TrackerInv, Records
<1>7. ShownInv'
  BY <1>2, <1>5, NilAssumption DEF TrackerInv, ShownInv, Records
<1>8. QED
  BY <1>4, <1>6, <1>7 DEF TrackerInv

LEMMA AdjustStep == TrackerInv /\ AdjustEndpoints => TrackerInv'
<1> SUFFICES ASSUME TrackerInv, AdjustEndpoints PROVE TrackerInv'
  OBVIOUS
<1>1. /\ tracker' = observeDesired(tracker, wish)
      /\ tracker \in Fields /\ wish \in Wish
  BY DEF AdjustEndpoints, TrackerInv, Types
<1>2. /\ tracker' \in Fields /\ tracker'.desired \in Targets
      /\ tracker'.actual = tracker.actual
      /\ tracker'.failed = tracker.failed /\ tracker'.conflict = tracker.conflict
  BY <1>1, ObserveDesiredType
<1>3. shown' = publishLocked(tracker')
  BY DEF AdjustEndpoints
<1>4. shown' \in Snapshots \cup {Nil}
  BY <1>2, <1>3, SnapshotReasons DEF publishLocked, TrackerInv, Types
<1>5. Types'
  <2>1. xdns' \in {"idle", "posted"} /\ waiting' \subseteq Change
    BY <1>2, PlanType DEF AdjustEndpoints, TrackerInv, Types
  <2>2. current' \in Targets
    BY DEF AdjustEndpoints, Nothing, Targets
  <2>3. QED
    BY <1>2, <1>4, <2>1, <2>2 DEF AdjustEndpoints, TrackerInv, Types, environment
<1>6. ReasonInv'
  BY <1>2, ReasonKept DEF TrackerInv, AdjustEndpoints
<1>7. ShownInv'
  <2>1. CASE tracker'.actual = Nil
    BY <1>2, <1>3, <2>1 DEF publishLocked, TrackerInv, ShownInv
  <2>2. CASE tracker'.actual # Nil
    <3>1. tracker'.desired # Nil
      BY <1>2, NilAssumption
    <3>2. shown' = snapshotLocked(tracker')
      BY <1>3, <2>2, <3>1 DEF publishLocked
    <3>3. QED
      BY <1>2, <2>2, <3>1, <3>2, SnapshotReasons DEF ShownInv
  <2>3. QED
    BY <2>1, <2>2
<1>8. QED
  BY <1>5, <1>6, <1>7 DEF TrackerInv

\* A change set takes effect, or fails, and Finish notes it.
LEMMA FinishStep ==
    ASSUME TrackerInv, running = Nil, NEW change \in waiting, NEW err \in BOOLEAN,
           Finish(change, err), UNCHANGED <<blocked, tracker, shown>>
    PROVE  /\ running' \in Outcome
           /\ last' \in [RecordKey -> {"none", "ok", "skipped", "error"}]
           /\ ReasonInv' /\ ShownInv'
<1>1. change \in Change /\ blocked \subseteq RecordKey
  BY DEF TrackerInv, Types
<1>2. Skipped(change) \subseteq Carried(change) /\ Carried(change) \subseteq RecordKey
  BY <1>1, SkippedCarried DEF Carried
<1> DEFINE skips == IF err THEN {} ELSE Skipped(change)
<1>3. running' = [change |-> change, skipped |-> skips, err |-> err]
  BY DEF Finish
<1>4. skips \subseteq Carried(change) /\ (err => skips = {}) /\ (~ err => skips = Skipped(change))
  BY <1>2
<1> HIDE DEF skips
<1>5. running' \in Outcome
  BY <1>1, <1>2, <1>3, <1>4 DEF Outcome
<1>6. /\ last' = [k \in RecordKey |->
                     IF k \notin Carried(change) THEN last[k]
                     ELSE IF err THEN "error"
                     ELSE IF k \in Skipped(change) THEN "skipped" ELSE "ok"]
      /\ last \in [RecordKey -> {"none", "ok", "skipped", "error"}]
  BY DEF Finish, TrackerInv, Types
<1>7. running' # Nil
  BY <1>5, NilAssumption
<1>8. Noted(running)'
  BY <1>2, <1>3, <1>4, <1>6 DEF Noted, Carried
<1>9. \A k \in RecordKey : k \notin Carried(running'.change) => Reason(k)'
  <2>1. running'.change = change
    BY <1>3
  <2>2. \A k \in RecordKey : Reason(k)
    BY DEF TrackerInv, ReasonInv
  <2>3. \A k \in RecordKey : k \notin Carried(change) => last'[k] = last[k]
    BY <1>6
  <2>4. QED
    BY <2>1, <2>2, <2>3 DEF Reason
<1>10. ReasonInv'
  BY <1>7, <1>8, <1>9 DEF ReasonInv, TrackerInv, Carried
<1>11. QED
  BY <1>5, <1>6, <1>10, ShownKept DEF TrackerInv

LEMMA ApplyDNSRecordsStep == TrackerInv /\ ApplyDNSRecords => TrackerInv'
<1> SUFFICES ASSUME TrackerInv, ApplyDNSRecords PROVE TrackerInv'
  OBVIOUS
<1>1. PICK change \in waiting :
          waiting' = waiting \ {change} /\ Finish(change, FALSE) /\ held' = Effect(change)
  BY DEF ApplyDNSRecords
<1>2. running = Nil /\ UNCHANGED <<blocked, tracker, shown>>
  BY DEF ApplyDNSRecords
<1>3. /\ running' \in Outcome
      /\ last' \in [RecordKey -> {"none", "ok", "skipped", "error"}]
      /\ ReasonInv' /\ ShownInv'
  BY <1>1, <1>2, FinishStep
<1>4. held' \in Targets
  BY <1>1, EffectType DEF TrackerInv, Types
<1>5. Types'
  BY <1>1, <1>3, <1>4 DEF ApplyDNSRecords, TrackerInv, Types
<1>6. QED
  BY <1>3, <1>5 DEF TrackerInv

LEMMA ApplyFailsStep == TrackerInv /\ ApplyFails /\ trouble' \in 0 .. MaxTrouble => TrackerInv'
<1> SUFFICES ASSUME TrackerInv, ApplyFails, trouble' \in 0 .. MaxTrouble PROVE TrackerInv'
  OBVIOUS
<1>1. PICK change \in waiting :
          waiting' = waiting \ {change} /\ Finish(change, TRUE) /\ held' \in {held, Effect(change)}
  BY DEF ApplyFails
<1>2. running = Nil /\ UNCHANGED <<blocked, tracker, shown>>
  BY DEF ApplyFails
<1>3. /\ running' \in Outcome
      /\ last' \in [RecordKey -> {"none", "ok", "skipped", "error"}]
      /\ ReasonInv' /\ ShownInv'
  BY <1>1, <1>2, FinishStep
<1>4. held' \in Targets
  BY <1>1, EffectType DEF TrackerInv, Types
<1>5. Types'
  BY <1>1, <1>3, <1>4 DEF ApplyFails, TrackerInv, Types
<1>6. QED
  BY <1>3, <1>5 DEF TrackerInv

LEMMA ApplyChangesStep == TrackerInv /\ ApplyChanges => TrackerInv'
<1> SUFFICES ASSUME TrackerInv, ApplyChanges PROVE TrackerInv'
  OBVIOUS
<1>1. /\ running # Nil /\ running \in Outcome /\ tracker \in Fields
      /\ tracker' = observeApply(tracker, running)
      /\ shown' = publishLocked(tracker')
      /\ running' = Nil /\ UNCHANGED last
  BY DEF ApplyChanges, TrackerInv, Types
<1>2. /\ tracker' \in Fields
      /\ tracker'.failed = failed(tracker, running)
      /\ tracker'.conflict = conflict(tracker, running)
      /\ tracker'.desired = tracker.desired
      /\ tracker.actual # Nil => tracker'.actual # Nil
  BY <1>1, ObserveApplyType
<1>3. shown' \in Snapshots \cup {Nil}
  BY <1>1, <1>2, SnapshotReasons DEF publishLocked, TrackerInv, Types
<1>4. Types'
  BY <1>1, <1>2, <1>3 DEF ApplyChanges, TrackerInv, Types, environment
<1>5. ReasonInv'
  <2> DEFINE C == Carried(running.change)
  <2>1. Noted(running) /\ (\A k \in RecordKey : k \notin C => Reason(k))
        /\ tracker.failed \cap tracker.conflict = {}
    BY <1>1 DEF TrackerInv, ReasonInv
  <2>2. /\ tracker'.failed = (tracker.failed \ C) \cup (IF running.err THEN C ELSE {})
        /\ tracker'.conflict = (tracker.conflict \ C) \cup running.skipped
    BY <1>2 DEF failed, conflict
  <2>3. tracker'.failed \cap tracker'.conflict = {}
    BY <2>1, <2>2 DEF Noted
  <2>4. ASSUME NEW k \in RecordKey PROVE Reason(k)'
    BY <1>1, <2>1, <2>2 DEF Noted, Reason
  <2>5. QED
    BY <1>1, <2>3, <2>4 DEF ReasonInv
<1>6. ShownInv'
  <2>1. CASE tracker'.actual = Nil \/ tracker'.desired = Nil
    BY <1>1, <1>2, <2>1 DEF publishLocked, TrackerInv, ShownInv
  <2>2. CASE tracker'.actual # Nil /\ tracker'.desired # Nil
    <3>1. shown' = snapshotLocked(tracker')
      BY <1>1, <2>2 DEF publishLocked
    <3>2. QED
      BY <1>2, <2>2, <3>1, SnapshotReasons DEF ShownInv
  <2>3. QED
    BY <2>1, <2>2
<1>7. QED
  BY <1>4, <1>5, <1>6 DEF TrackerInv

LEMMA GiveUpStep == TrackerInv /\ GiveUp /\ trouble' \in 0 .. MaxTrouble => TrackerInv'
<1> SUFFICES ASSUME TrackerInv, GiveUp, trouble' \in 0 .. MaxTrouble PROVE TrackerInv'
  OBVIOUS
<1>1. running # Nil =>
          /\ running' = [running EXCEPT !.change.poster = "gone"]
          /\ running' \in Outcome
          /\ running'.change.new = running.change.new
          /\ running'.err = running.err /\ running'.skipped = running.skipped
  BY DEF GiveUp, TrackerInv, Types, Outcome, Change, Poster
<1>2. running = Nil => running' = Nil
  BY DEF GiveUp
<1>3. reading' \subseteq Reading
  BY DEF GiveUp, TrackerInv, Types, Reading, Poster
<1>4. waiting' \subseteq Change
  BY DEF GiveUp, TrackerInv, Types, Change, Poster
<1>5. Types'
  BY <1>1, <1>2, <1>3, <1>4 DEF GiveUp, TrackerInv, Types, environment
<1>6. ReasonInv'
  <2>1. running # Nil => Carried(running'.change) = Carried(running.change) /\ running' # Nil
    BY <1>1, NilAssumption DEF Carried
  <2>2. UNCHANGED <<tracker, last>>
    BY DEF GiveUp
  <2>3. \A k \in RecordKey : Reason(k)' <=> Reason(k)
    BY <2>2 DEF Reason
  <2>4. running # Nil => Noted(running)'
    BY <1>1, <2>1, <2>2 DEF Noted, TrackerInv, ReasonInv
  <2>5. CASE running = Nil
    BY <1>2, <2>2, <2>3, <2>5 DEF TrackerInv, ReasonInv
  <2>6. CASE running # Nil
    BY <2>1, <2>2, <2>3, <2>4, <2>6 DEF TrackerInv, ReasonInv
  <2>7. QED
    BY <2>5, <2>6
<1>7. ShownInv'
  BY ShownKept DEF GiveUp, TrackerInv
<1>8. QED
  BY <1>5, <1>6, <1>7 DEF TrackerInv

LEMMA RestartStep == TrackerInv /\ Restart /\ trouble' \in 0 .. MaxTrouble => TrackerInv'
<1> SUFFICES ASSUME TrackerInv, Restart, trouble' \in 0 .. MaxTrouble PROVE TrackerInv'
  OBVIOUS
<1>1. NewTracker \in Fields
  BY DEF NewTracker, Fields
<1>2. Types'
  BY <1>1 DEF Restart, TrackerInv, Types, environment
<1>3. ReasonInv' /\ ShownInv'
  BY DEF Restart, ReasonInv, Reason, ShownInv, NewTracker
<1>4. QED
  BY <1>2, <1>3 DEF TrackerInv

LEMMA OutsideStep ==
    TrackerInv /\ (WishChanges \/ BlockChanges) /\ trouble' \in 0 .. MaxTrouble => TrackerInv'
<1> SUFFICES ASSUME TrackerInv, WishChanges \/ BlockChanges, trouble' \in 0 .. MaxTrouble
             PROVE  TrackerInv'
  OBVIOUS
<1>1. Types'
  BY DEF WishChanges, BlockChanges, TrackerInv, Types, requests
<1>2. UNCHANGED <<running, last, tracker, shown>>
  BY DEF WishChanges, BlockChanges, requests
<1>3. ReasonInv' /\ ShownInv'
  BY <1>2, ReasonKept, ShownKept DEF TrackerInv
<1>4. QED
  BY <1>1, <1>3 DEF TrackerInv

LEMMA TrackerStep == TrackerInv /\ [Next]_vars => TrackerInv'
<1> SUFFICES ASSUME TrackerInv, [Next]_vars PROVE TrackerInv'
  OBVIOUS
<1>1. CASE Work
  BY <1>1, GetRecordsStep, RecordsStep, AdjustStep, ApplyDNSRecordsStep, ApplyChangesStep DEF Work
<1>2. CASE Disturb
  <2>1. trouble' \in 0 .. MaxTrouble
    BY <1>2, TroubleAssumption DEF Disturb, TrackerInv, Types
  <2>2. QED
    BY <1>2, <2>1, ApplyFailsStep, GiveUpStep, RestartStep, OutsideStep DEF Disturb
<1>3. CASE UNCHANGED vars
  <2>1. UNCHANGED <<running, last, tracker, shown>>
    BY <1>3 DEF vars, requests
  <2>2. Types'
    BY <1>3 DEF vars, requests, environment, TrackerInv, Types
  <2>3. QED
    BY <2>1, <2>2, ReasonKept, ShownKept DEF TrackerInv
<1>4. QED
  BY <1>1, <1>2, <1>3 DEF Next

LEMMA TrackerAlways == Spec => []TrackerInv
BY InitTracker, TrackerStep, PTL DEF Spec

-----------------------------------------------------------------------------
\* Every variable keeps its type, and no record has both failed and been left out.
THEOREM TrackerTypes == Spec => []TypeOK
<1>1. TrackerInv => TypeOK
  BY DEF TrackerInv, Types, ReasonInv, TypeOK, Fields, Snapshots
<1>2. QED
  BY <1>1, TrackerAlways, PTL

\* A record is shown with an error, or as left out, only if its last change set failed,
\* or left it out: however requests overlap, and in every snapshot of every process.
THEOREM ReasonIsAlwaysLast == Spec => []ReasonIsLast
<1>1. TrackerInv => ReasonIsLast
  BY DEF TrackerInv, ReasonInv, Reason, ShownInv, ReasonIsLast
<1>2. QED
  BY <1>1, TrackerAlways, PTL

-----------------------------------------------------------------------------
(* What is shown as Ready.  ReadyIsTrueAgain says nothing of a change set  *)
(* under way; what it becomes once the tracker hears of it depends on how  *)
(* the change set was planned and on what it did.                          *)

\* A change set leaves a record alone, or makes what the router holds what is asked
\* for, and that is not the same.
Planned(change, asked) ==
    \A k \in RecordKey :
        \/ change.old[k] = {} /\ change.new[k] = {}
        \/ change.old[k] = held[k] /\ change.new[k] = asked[k] /\ held[k] # asked[k]

\* What the tracker will hold for as it is asked for is so on the router.
Told ==
    \A k \in RecordKey :
        tracker.desired[k] # {} /\ actual(tracker, running)[k] = tracker.desired[k] =>
            held[k] = tracker.desired[k]

\* A run that has the webhook to itself has one request, whose answer ExternalDNS
\* waits for, and the tracker knows what the router holds until a change set is
\* carried out.
SoleInv ==
    overlap # "yes" =>
        /\ overlap = "ending" => xdns \in {"reading", "planning"}
        /\ reading = IF xdns = "reading" THEN {[got |-> held, poster |-> "waits"]} ELSE {}
        /\ xdns # "posted" => waiting = {} /\ running = Nil
        /\ xdns = "planning" /\ tracker.actual # Nil => tracker.actual = held /\ current = held
        /\ xdns = "posted" =>
              \/ /\ running = Nil
                 /\ \E change \in waiting :
                        /\ waiting = {change} /\ change.poster = "waits"
                        /\ tracker.actual # Nil =>
                              tracker.actual = held /\ Planned(change, tracker.desired)
              \/ /\ waiting = {} /\ running # Nil /\ running.change.poster = "waits"
                 /\ tracker.actual # Nil => Told

ReadyInv ==
    overlap = "no" /\ running = Nil /\ shown # Nil =>
        \A k \in RecordKey : shown[k] = "Ready" => held[k] = tracker.desired[k]

LEMMA PlannedPlan ==
    ASSUME held \in Targets, NEW asked \in Targets, NEW sync \in BOOLEAN
    PROVE  /\ Plan(asked, sync).poster = "waits"
           /\ current = held => Planned(Plan(asked, sync), asked)
BY DEF Plan, Planned

\* What is shown as Ready is held by the tracker as it is asked for.
LEMMA SnapshotReady ==
    ASSUME NEW t, NEW k \in RecordKey, snapshotLocked(t)[k] = "Ready"
    PROVE  t.desired[k] # {} /\ t.actual[k] = t.desired[k]
BY DEF snapshotLocked, Missing

\* A change set that has taken effect is what the tracker takes it for, except where
\* something is in the way; one that has failed has changed nothing that was as it
\* should be, whether it took effect or not.
LEMMA EffectIsTold ==
    ASSUME TrackerInv, tracker.actual = held,
           NEW change \in Change, Planned(change, tracker.desired),
           NEW err \in BOOLEAN, Finish(change, err), UNCHANGED tracker,
           held' = Effect(change) \/ (err /\ held' = held)
    PROVE  Told'
<1> SUFFICES ASSUME NEW k \in RecordKey, tracker.desired[k] # {},
                    actual(tracker, running')[k] = tracker.desired[k]
             PROVE  held'[k] = tracker.desired[k]
  BY DEF Told
<1> DEFINE skips == IF err THEN {} ELSE Skipped(change)
<1>1. /\ running' = [change |-> change, skipped |-> skips, err |-> err]
      /\ ~ err => skips = Skipped(change)
  BY DEF Finish
<1> HIDE DEF skips
<1>2. /\ running'.change = change /\ running'.skipped = skips /\ running'.err = err
  BY <1>1
<1>3. /\ held \in Targets /\ tracker.actual # Nil
      /\ change.old \in Targets /\ change.new \in Targets
  BY NilAssumption DEF TrackerInv, Types, Change
<1>4. Effect(change)[k] = (held[k] \ change.old[k])
          \cup (IF k \in blocked THEN change.new[k] \cap held[k] ELSE change.new[k])
  BY DEF Effect
<1>5. held[k] \subseteq Target /\ change.new[k] \subseteq Target
  BY <1>3 DEF Targets
<1>6. CASE change.old[k] = {} /\ change.new[k] = {}
  <2>1. Effect(change)[k] = held[k]
    BY <1>4, <1>6
  <2>2. actual(tracker, running')[k] = held[k]
    BY <1>2, <1>3, <1>6 DEF actual, heldNow, Carried
  <2>3. QED
    BY <2>1, <2>2
<1>7. CASE /\ change.old[k] = held[k] /\ change.new[k] = tracker.desired[k]
           /\ held[k] # tracker.desired[k]
  <2>1. ~ err
    BY <1>2, <1>3, <1>7 DEF actual
  <2>2. actual(tracker, running') = heldNow(tracker, running')
    BY <1>2, <1>3, <2>1 DEF actual
  <2>3. k \notin Skipped(change)
    BY <1>1, <1>2, <1>7, <2>1, <2>2 DEF heldNow
  <2>4. k \in blocked => change.new[k] \subseteq held[k]
    BY <2>3 DEF Skipped
  <2>5. Effect(change)[k] = change.new[k]
    BY <1>4, <1>7, <2>4
  <2>6. QED
    BY <1>7, <2>1, <2>5
<1>8. QED
  BY <1>6, <1>7 DEF Planned

LEMMA GetRecordsReady ==
    ASSUME TrackerInv, SoleInv, ReadyInv, GetRecords PROVE SoleInv' /\ ReadyInv'
<1>1. /\ xdns = "idle" /\ xdns' = "reading" /\ UNCHANGED <<held, waiting, running, tracker, shown>>
      /\ reading' = reading \cup {[got |-> held, poster |-> "waits"]}
      /\ overlap' # "yes" => reading = {} /\ waiting = {} /\ running = Nil
      /\ overlap' = "no" => overlap = "no"
  BY DEF GetRecords, environment, SoleInv
<1>2. SoleInv'
  BY <1>1 DEF SoleInv
<1>3. QED
  BY <1>1, <1>2 DEF ReadyInv

LEMMA RecordsReady ==
    ASSUME TrackerInv, SoleInv, ReadyInv, Records PROVE SoleInv' /\ ReadyInv'
<1>1. PICK r \in reading :
          /\ tracker' = observeRecords(tracker, r.got)
          /\ reading' = reading \ {r}
          /\ IF r.poster = "waits"
             THEN xdns' = "planning" /\ current' = r.got
             ELSE UNCHANGED <<xdns, current>>
  BY DEF Records
<1>2. UNCHANGED <<held, waiting, running, shown, overlap>>
  BY DEF Records, environment
<1>3. r.got \in Targets /\ tracker \in Fields
  BY DEF TrackerInv, Types, Reading
<1>4. tracker'.actual = r.got /\ tracker'.desired = tracker.desired
  BY <1>1, <1>3, ObserveRecordsType DEF Fields
<1>5. SoleInv'
  <2> SUFFICES ASSUME overlap # "yes" PROVE SoleInv'
    BY <1>2 DEF SoleInv
  <2>1. xdns = "reading" /\ r = [got |-> held, poster |-> "waits"] /\ reading = {r}
    BY DEF SoleInv
  <2>2. reading' = {} /\ xdns' = "planning" /\ current' = held /\ tracker'.actual = held
    BY <1>1, <1>4, <2>1
  <2>3. waiting = {} /\ running = Nil
    BY <2>1 DEF SoleInv
  <2>4. QED
    BY <1>2, <2>2, <2>3 DEF SoleInv
<1>6. QED
  BY <1>2, <1>4, <1>5 DEF ReadyInv

LEMMA AdjustReady ==
    ASSUME TrackerInv, SoleInv, ReadyInv, AdjustEndpoints PROVE SoleInv' /\ ReadyInv'
<1>1. /\ tracker' = observeDesired(tracker, wish)
      /\ tracker \in Fields /\ wish \in Wish /\ held \in Targets
      /\ xdns = "planning" /\ shown' = publishLocked(tracker')
      /\ UNCHANGED <<held, reading, running>>
      /\ overlap' # "yes" => overlap # "yes" /\ overlap' = "no"
  BY DEF AdjustEndpoints, TrackerInv, Types, environment
<1>2. tracker'.desired \in Targets /\ tracker'.actual = tracker.actual
  BY <1>1, ObserveDesiredType
<1>3. PICK change :
          /\ change.poster = "waits"
          /\ current = held => Planned(change, tracker'.desired)
          /\ \/ xdns' = "idle" /\ UNCHANGED waiting
             \/ xdns' = "posted" /\ waiting' = waiting \cup {change}
  <2>1. PICK sync \in BOOLEAN :
           LET plan == Plan(tracker'.desired, sync)
           IN  IF plan.old = Nothing /\ plan.new = Nothing
               THEN xdns' = "idle" /\ UNCHANGED waiting
               ELSE xdns' = "posted" /\ waiting' = waiting \cup {plan}
    BY DEF AdjustEndpoints
  <2>2. /\ Plan(tracker'.desired, sync).poster = "waits"
        /\ current = held => Planned(Plan(tracker'.desired, sync), tracker'.desired)
    BY <1>1, <1>2, PlannedPlan
  <2>3. QED
    BY <2>1, <2>2
<1>4. SoleInv'
  <2> SUFFICES ASSUME overlap' # "yes" PROVE SoleInv'
    BY DEF SoleInv
  <2>1. /\ reading = {} /\ waiting = {} /\ running = Nil
        /\ tracker.actual # Nil => tracker.actual = held /\ current = held
    BY <1>1 DEF SoleInv
  <2>2. current = held => Planned(change, tracker.desired)'
    BY <1>1, <1>3 DEF Planned
  <2>3. \/ xdns' = "idle" /\ waiting' = {}
        \/ xdns' = "posted" /\ waiting' = {change}
    BY <1>3, <2>1
  <2>4. QED
    BY <1>1, <1>2, <1>3, <2>1, <2>2, <2>3 DEF SoleInv
<1>5. ReadyInv'
  <2> SUFFICES ASSUME overlap' = "no", shown' # Nil,
                      NEW k \in RecordKey, shown'[k] = "Ready"
               PROVE  held[k] = tracker'.desired[k]
    BY <1>1 DEF ReadyInv
  <2>1. tracker.actual # Nil
    BY <1>1, <1>2 DEF publishLocked, TrackerInv, ShownInv
  <2>2. tracker'.actual = held
    BY <1>1, <1>2, <2>1 DEF SoleInv
  <2>3. shown' = snapshotLocked(tracker')
    BY <1>1, <1>2, <2>1, NilAssumption DEF publishLocked
  <2>4. QED
    BY <2>2, <2>3, SnapshotReady
<1>6. QED
  BY <1>4, <1>5

\* applyMu is taken by the one change set there is.
LEMMA FinishReady ==
    ASSUME TrackerInv, SoleInv, running = Nil, NEW change \in waiting,
           NEW err \in BOOLEAN, Finish(change, err), waiting' = waiting \ {change},
           held' = Effect(change) \/ (err /\ held' = held),
           UNCHANGED <<xdns, reading, tracker, overlap>>
    PROVE  SoleInv' /\ ReadyInv'
<1>1. running' # Nil /\ running'.change = change
  <2>1. running' \in Outcome /\ running'.change = change
    <3> DEFINE skips == IF err THEN {} ELSE Skipped(change)
    <3>1. change \in Change /\ Skipped(change) \subseteq RecordKey
      BY SkippedCarried DEF TrackerInv, Types, Carried
    <3>2. running' = [change |-> change, skipped |-> skips, err |-> err]
      BY DEF Finish
    <3>3. skips \subseteq RecordKey
      BY <3>1
    <3> HIDE DEF skips
    <3>4. QED
      BY <3>1, <3>2, <3>3 DEF Outcome
  <2>2. QED
    BY <2>1, NilAssumption
<1>2. SoleInv'
  <2> SUFFICES ASSUME overlap # "yes" PROVE SoleInv'
    BY DEF SoleInv
  <2>1. /\ xdns = "posted" /\ waiting = {change} /\ change.poster = "waits"
        /\ tracker.actual # Nil =>
              tracker.actual = held /\ Planned(change, tracker.desired)
    BY DEF SoleInv
  <2>2. change \in Change
    BY DEF TrackerInv, Types
  <2>3. tracker.actual # Nil => Told'
    BY <2>1, <2>2, EffectIsTold
  <2>4. reading = {} /\ overlap # "ending"
    BY <2>1 DEF SoleInv
  <2>5. QED
    BY <1>1, <2>1, <2>3, <2>4 DEF SoleInv
<1>3. QED
  BY <1>1, <1>2 DEF ReadyInv

LEMMA ApplyChangesReady ==
    ASSUME TrackerInv, SoleInv, ReadyInv, ApplyChanges PROVE SoleInv' /\ ReadyInv'
<1>1. /\ running # Nil /\ running \in Outcome /\ tracker \in Fields
      /\ tracker' = observeApply(tracker, running)
      /\ shown' = publishLocked(tracker')
      /\ running' = Nil
      /\ xdns' = IF running.change.poster = "waits" THEN "idle" ELSE xdns
      /\ UNCHANGED <<held, reading, waiting, overlap>>
  BY DEF ApplyChanges, TrackerInv, Types, environment
<1>2. /\ tracker'.desired = tracker.desired
      /\ tracker'.actual = actual(tracker, running)
  BY <1>1, ObserveApplyType
<1>3. overlap # "yes" =>
          /\ xdns = "posted" /\ reading = {} /\ waiting = {}
          /\ running.change.poster = "waits" /\ (tracker.actual # Nil => Told)
  BY <1>1 DEF SoleInv
<1>4. SoleInv'
  BY <1>1, <1>3 DEF SoleInv
<1>5. ReadyInv'
  <2> SUFFICES ASSUME overlap = "no", shown' # Nil,
                      NEW k \in RecordKey, shown'[k] = "Ready"
               PROVE  held[k] = tracker.desired[k]
    BY <1>1, <1>2 DEF ReadyInv
  <2>1. tracker.actual # Nil /\ tracker'.actual # Nil /\ tracker'.desired # Nil
    <3>1. CASE shown = Nil
      BY <1>1, <1>2, <3>1 DEF publishLocked, actual
    <3>2. CASE shown # Nil
      BY <1>1, <1>2, <3>2, ObserveApplyType DEF TrackerInv, ShownInv
    <3>3. QED
      BY <3>1, <3>2
  <2>2. shown' = snapshotLocked(tracker')
    BY <1>1, <2>1 DEF publishLocked
  <2>3. tracker'.desired[k] # {} /\ tracker'.actual[k] = tracker'.desired[k]
    BY <2>2, SnapshotReady
  <2>4. QED
    BY <1>2, <1>3, <2>1, <2>3 DEF Told
<1>6. QED
  BY <1>4, <1>5

\* Nothing is left of the requests of a process that has restarted, and nobody can
\* say how many there are once ExternalDNS has given one up.
LEMMA RestartReady == Restart => SoleInv' /\ ReadyInv'
<1> SUFFICES ASSUME Restart PROVE SoleInv' /\ ReadyInv'
  OBVIOUS
<1>1. /\ reading' = {} /\ waiting' = {} /\ running' = Nil /\ shown' = Nil
      /\ xdns' # "posted" /\ xdns' # "reading" /\ tracker' = NewTracker /\ overlap' = "no"
  BY DEF Restart
<1>2. tracker'.actual = Nil
  BY <1>1 DEF NewTracker
<1>3. QED
  BY <1>1, <1>2 DEF SoleInv, ReadyInv

LEMMA GiveUpReady == GiveUp => SoleInv' /\ ReadyInv'
BY DEF GiveUp, SoleInv, ReadyInv

LEMMA QuietReady ==
    ASSUME SoleInv, ReadyInv, UNCHANGED <<held, requests, tracker, shown, overlap>>
    PROVE  SoleInv' /\ ReadyInv'
BY DEF SoleInv, ReadyInv, requests, Told, Planned, actual, heldNow, Carried

LEMMA ReadyStep == TrackerInv /\ SoleInv /\ ReadyInv /\ [Next]_vars => SoleInv' /\ ReadyInv'
<1> SUFFICES ASSUME TrackerInv, SoleInv, ReadyInv, [Next]_vars PROVE SoleInv' /\ ReadyInv'
  OBVIOUS
<1>1. CASE ApplyDNSRecords
  <2>1. PICK change \in waiting :
            waiting' = waiting \ {change} /\ Finish(change, FALSE) /\ held' = Effect(change)
    BY <1>1 DEF ApplyDNSRecords
  <2>2. running = Nil /\ UNCHANGED <<xdns, reading, tracker, overlap>>
    BY <1>1 DEF ApplyDNSRecords
  <2>3. QED
    BY <2>1, <2>2, FinishReady
<1>2. CASE ApplyFails
  <2>1. PICK change \in waiting :
            /\ waiting' = waiting \ {change} /\ Finish(change, TRUE)
            /\ held' \in {held, Effect(change)}
    BY <1>2 DEF ApplyFails
  <2>2. running = Nil /\ UNCHANGED <<xdns, reading, tracker, overlap>>
    BY <1>2 DEF ApplyFails
  <2>3. QED
    BY <2>1, <2>2, FinishReady
<1>3. CASE WishChanges \/ BlockChanges \/ UNCHANGED vars
  <2>1. UNCHANGED <<held, requests, tracker, shown, overlap>>
    BY <1>3 DEF WishChanges, BlockChanges, vars, environment
  <2>2. QED
    BY <2>1, QuietReady
<1>4. QED
  BY <1>1, <1>2, <1>3, GetRecordsReady, RecordsReady, AdjustReady, ApplyChangesReady,
     RestartReady, GiveUpReady DEF Next, Work, Disturb

\* Whatever failed, was lost, conflicted or overlapped before, from the first run on
\* that has the webhook to itself a record is shown as Ready only if the router holds
\* it as it is asked for (README.md:463, status.go:112-124).
THEOREM ReadyIsTrueAgainAlways == Spec => []ReadyIsTrueAgain
<1>1. Init => SoleInv /\ ReadyInv
  BY DEF Init, SoleInv, ReadyInv, NewTracker
<1>2. ReadyInv => ReadyIsTrueAgain
  BY DEF ReadyInv, ReadyIsTrueAgain, ReadyIsTrue
<1>3. QED
  BY <1>1, <1>2, ReadyStep, TrackerAlways, PTL DEF Spec
=============================================================================
