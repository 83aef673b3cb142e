------------------------------- MODULE Tracker -------------------------------
(***************************************************************************)
(* The tracker of internal/provider/status.go: what it makes of the        *)
(* requests of ExternalDNS, and what it hands to the mirror.               *)
(*                                                                         *)
(* A run of ExternalDNS is Records, AdjustEndpoints and, if the plan has   *)
(* any, ApplyChanges.  It gives up on a request that takes too long and    *)
(* starts over; the handler of that request goes on.  The tracker hears of *)
(* a reading of the router, and of a change set, some time after it was    *)
(* made: nothing but applyMu orders these.                                 *)
(*                                                                         *)
(* The router is what this provider's sections hold, a set of targets for  *)
(* each name and type.  A change set takes effect on it whole, or not at   *)
(* all (ChangeSets).  Nobody else writes this provider's records.          *)
(***************************************************************************)
EXTENDS Naturals

CONSTANTS
    RecordKey,    \* recordKey: a name and a type
    Target,       \* targets of a record
    Unwritable,   \* an endpoint that AdjustEndpoints rejects
    Filter,       \* the sets of records --domain-filter may drop after AdjustEndpoints
    Wish,         \* what the cluster may ask for
    Nil,          \* a nil map, and nothing in flight
    MaxTrouble    \* bound: how often something goes wrong or changes

ASSUME FilterAssumption == Filter \subseteq SUBSET RecordKey
ASSUME WishAssumption == Wish \subseteq [RecordKey -> (SUBSET Target) \cup {Unwritable}]
ASSUME TroubleAssumption == MaxTrouble \in Nat

VARIABLES
    held,      \* what this provider's sections hold
    blocked,   \* the records something on the router is in the way of
    wish,      \* what the cluster asks for
    filtered,  \* what the filter drops
    xdns,      \* where ExternalDNS is
    current,   \* what Records answered it
    reading,   \* the readings of the router the tracker has not heard of
    waiting,   \* the change sets that wait for applyMu
    running,   \* the one that has it, applied and not yet told the tracker
    tracker,   \* the fields of the tracker
    shown,     \* the snapshot this process published last
    last,      \* observer: what became of the last change set carrying a record
    overlap,   \* observer: whether requests have overlapped since a run that had
               \* the webhook to itself, or may soon have been followed by one
    trouble    \* how often something may still go wrong

environment == <<held, blocked, wish, filtered>>
requests == <<xdns, current, reading, waiting, running>>
vars == <<environment, requests, tracker, shown, last, overlap, trouble>>

Targets == [RecordKey -> SUBSET Target]
Nothing == [k \in RecordKey |-> {}]

\* What a request is of: the ExternalDNS that waits for it, or one that is gone.
Poster == {"waits", "gone"}
Reading == [got : Targets, poster : Poster]
Change == [old : Targets, new : Targets, poster : Poster]
Outcome == [change : Change, skipped : SUBSET RecordKey, err : BOOLEAN]

ASSUME NilAssumption == Nil \notin Targets \cup Outcome

State == {"Ready", "Pending", "Conflict", "Error", "Rejected", "Orphan"}

NewTracker ==
    [actual |-> Nil, desired |-> Nil, rejected |-> {}, attempted |-> {}, failed |-> {}, conflict |-> {}]

\* Types, and a record has failed or is in conflict by its last change set alone.
TypeOK ==
    /\ held \in Targets
    /\ blocked \subseteq RecordKey
    /\ wish \in Wish /\ filtered \in Filter
    /\ xdns \in {"idle", "reading", "planning", "posted"}
    /\ current \in Targets
    /\ reading \subseteq Reading
    /\ waiting \subseteq Change
    /\ running \in Outcome \cup {Nil}
    /\ tracker \in [actual : Targets \cup {Nil}, desired : Targets \cup {Nil},
                    rejected : SUBSET RecordKey, attempted : SUBSET RecordKey,
                    failed : SUBSET RecordKey, conflict : SUBSET RecordKey]
    /\ tracker.failed \cap tracker.conflict = {}
    /\ shown \in [RecordKey -> State \cup {"absent"}] \cup {Nil}
    /\ last \in [RecordKey -> {"none", "ok", "skipped", "error"}]
    /\ overlap \in {"no", "ending", "yes"}
    /\ trouble \in 0 .. MaxTrouble

Init ==
    /\ held \in Targets
    /\ blocked = {}
    /\ wish \in Wish /\ filtered \in Filter
    /\ xdns = "idle" /\ current = Nothing
    /\ reading = {} /\ waiting = {} /\ running = Nil
    /\ tracker = NewTracker
    /\ shown = Nil
    /\ last = [k \in RecordKey |-> "none"] /\ overlap = "no"
    /\ trouble = MaxTrouble

-----------------------------------------------------------------------------
(* The tracker                                                             *)

\* Why a record that is asked for is not on the router as it is asked for.
Missing(t, k) ==
    IF k \in t.conflict THEN "Conflict"
    ELSE IF k \in t.failed THEN "Error"
    ELSE IF t.actual[k] # {} \/ k \in t.attempted THEN "Pending" ELSE "absent"

snapshotLocked(t) ==
    [k \in RecordKey |->
        IF k \in t.rejected THEN "Rejected"
        ELSE IF t.desired[k] = {}
        THEN IF t.actual[k] = {} THEN "absent" ELSE "Orphan"
        ELSE IF t.actual[k] = t.desired[k] THEN "Ready" ELSE Missing(t, k)]

\* A snapshot only once both sides have been seen.
publishLocked(t) == IF t.actual = Nil \/ t.desired = Nil THEN shown ELSE snapshotLocked(t)

\* Mutant: what was on the router stays, next to what is.
mergeRecords(t, got) ==
    [t EXCEPT !.actual = IF @ = Nil THEN got ELSE [k \in RecordKey |-> IF got[k] = {} THEN @[k] ELSE got[k]]]

observeRecords(t, got) == [t EXCEPT !.actual = got]

observeDesired(t, asked) ==
    [t EXCEPT !.desired = [k \in RecordKey |-> IF asked[k] = Unwritable THEN {} ELSE asked[k]],
              !.rejected = {k \in RecordKey : asked[k] = Unwritable}]

\* The records a change set asks for.
Carried(change) == {k \in RecordKey : change.new[k] # {}}

\* Mutant: an error is remembered for good.
failedOnce(t, o) == t.failed \cup (IF o.err THEN Carried(o.change) ELSE {})

\* failed: what a change set carries failed with it, or did not.
failed(t, o) == (t.failed \ Carried(o.change)) \cup (IF o.err THEN Carried(o.change) ELSE {})

\* Mutant: a conflict is remembered when the next change set fails.
conflictKept(t, o) == t.conflict \cup o.skipped

conflict(t, o) == (t.conflict \ Carried(o.change)) \cup o.skipped

\* actual: what the router holds now, without waiting for the next Records.
heldNow(t, o) ==
    [k \in RecordKey |->
        IF k \in Carried(o.change) \ o.skipped THEN o.change.new[k]
        ELSE IF o.change.old[k] # {} THEN {} ELSE t.actual[k]]

\* Mutant: a change set that failed is taken for one that is on the router.
actualAnyway(t, o) == IF t.actual = Nil THEN Nil ELSE heldNow(t, o)

actual(t, o) == IF t.actual = Nil \/ o.err THEN t.actual ELSE heldNow(t, o)

observeApply(t, o) ==
    [t EXCEPT
        !.attempted = @ \cup Carried(o.change),
        !.failed = failed(t, o),
        !.conflict = conflict(t, o),
        !.actual = actual(t, o)]

-----------------------------------------------------------------------------
(* The requests of ExternalDNS and their handlers                          *)

\* GET /records: the router is read.
GetRecords ==
    /\ xdns = "idle" /\ xdns' = "reading"
    /\ reading' = reading \cup {[got |-> held, poster |-> "waits"]}
    /\ overlap' = IF overlap = "yes" /\ reading = {} /\ waiting = {} /\ running = Nil
                  THEN "ending" ELSE overlap
    /\ UNCHANGED <<environment, current, waiting, running, tracker, shown, last, trouble>>

\* The handler tells the tracker and answers.
Records ==
    /\ \E r \in reading :
           /\ tracker' = observeRecords(tracker, r.got)
           /\ reading' = reading \ {r}
           /\ IF r.poster = "waits"
              THEN xdns' = "planning" /\ current' = r.got
              ELSE UNCHANGED <<xdns, current>>
    /\ UNCHANGED <<environment, waiting, running, shown, last, overlap, trouble>>

\* The plan: with sync it withdraws what nobody asks for, with upsert-only it
\* does not.  What the filter drops, and what is as it should be, is left out.
Plan(asked, sync) ==
    LET planned == {k \in RecordKey \ filtered :
                       /\ current[k] # asked[k]
                       /\ sync \/ asked[k] # {}}
    IN  [old |-> [k \in RecordKey |-> IF k \in planned THEN current[k] ELSE {}],
         new |-> [k \in RecordKey |-> IF k \in planned THEN asked[k] ELSE {}],
         poster |-> "waits"]

\* POST /adjustendpoints, and POST /records if there is anything to change.
AdjustEndpoints ==
    /\ xdns = "planning"
    /\ tracker' = observeDesired(tracker, wish)
    /\ shown' = publishLocked(tracker')
    /\ \E sync \in BOOLEAN :
           LET change == Plan(tracker'.desired, sync)
           IN  IF change.old = Nothing /\ change.new = Nothing
               THEN xdns' = "idle" /\ UNCHANGED waiting
               ELSE xdns' = "posted" /\ waiting' = waiting \cup {change}
    /\ current' = Nothing
    /\ overlap' = IF overlap = "ending" THEN "no" ELSE overlap
    /\ UNCHANGED <<environment, reading, running, last, trouble>>

\* What a change set leaves on the router, and what it skips: what is blocked
\* and not there already.
Skipped(change) == {k \in blocked : ~ change.new[k] \subseteq held[k]}

Effect(change) ==
    [k \in RecordKey |->
        (held[k] \ change.old[k])
            \cup (IF k \in blocked THEN change.new[k] \cap held[k] ELSE change.new[k])]

\* applyMu is taken and the change set takes effect, and last notes it.
Finish(change, err) ==
    /\ running' = [change |-> change, skipped |-> IF err THEN {} ELSE Skipped(change), err |-> err]
    /\ last' = [k \in RecordKey |->
                   IF k \notin Carried(change) THEN last[k]
                   ELSE IF err THEN "error"
                   ELSE IF k \in Skipped(change) THEN "skipped" ELSE "ok"]

ApplyDNSRecords ==
    /\ running = Nil
    /\ \E change \in waiting :
           /\ waiting' = waiting \ {change}
           /\ Finish(change, FALSE)
           /\ held' = Effect(change)
    /\ UNCHANGED <<blocked, wish, filtered, xdns, current, reading, tracker, shown, overlap, trouble>>

\* The handler tells the tracker, gives applyMu back and answers.
ApplyChanges ==
    /\ running # Nil
    /\ tracker' = observeApply(tracker, running)
    /\ shown' = publishLocked(tracker')
    /\ running' = Nil
    /\ xdns' = IF running.change.poster = "waits" THEN "idle" ELSE xdns
    /\ UNCHANGED <<environment, current, reading, waiting, last, overlap, trouble>>

-----------------------------------------------------------------------------
(* What may go wrong or change, MaxTrouble times                           *)

\* A change set fails: it is dropped whole, or only its answer is lost.
ApplyFails ==
    /\ running = Nil
    /\ \E change \in waiting :
           /\ waiting' = waiting \ {change}
           /\ Finish(change, TRUE)
           /\ held' \in {held, Effect(change)}
    /\ UNCHANGED <<blocked, wish, filtered, xdns, current, reading, tracker, shown, overlap>>

\* ExternalDNS has waited long enough and starts over.
GiveUp ==
    /\ xdns \in {"reading", "posted"} /\ xdns' = "idle"
    /\ reading' = {[r EXCEPT !.poster = "gone"] : r \in reading}
    /\ waiting' = {[c EXCEPT !.poster = "gone"] : c \in waiting}
    /\ running' = IF running = Nil THEN Nil ELSE [running EXCEPT !.change.poster = "gone"]
    /\ overlap' = "yes"
    /\ UNCHANGED <<environment, current, tracker, shown, last>>

\* The webhook restarts.
Restart ==
    /\ xdns' = IF xdns = "planning" THEN xdns ELSE "idle"
    /\ reading' = {} /\ waiting' = {} /\ running' = Nil
    /\ tracker' = NewTracker /\ shown' = Nil
    /\ last' = [k \in RecordKey |-> "none"] /\ overlap' = "no"
    /\ UNCHANGED <<environment, current>>

WishChanges ==
    /\ wish' \in Wish \ {wish}
    /\ UNCHANGED <<held, blocked, filtered, requests, tracker, shown, last, overlap>>

\* A section of somebody else comes to be in the way of a record, or goes.
BlockChanges ==
    /\ \E k \in RecordKey :
           blocked' = IF k \in blocked THEN blocked \ {k} ELSE blocked \cup {k}
    /\ UNCHANGED <<held, wish, filtered, requests, tracker, shown, last, overlap>>

Work == GetRecords \/ Records \/ AdjustEndpoints \/ ApplyDNSRecords \/ ApplyChanges

Disturb ==
    /\ trouble > 0 /\ trouble' = trouble - 1
    /\ ApplyFails \/ GiveUp \/ Restart \/ WishChanges \/ BlockChanges

Next == Work \/ Disturb

Spec == Init /\ [][Next]_vars

\* ExternalDNS runs on a timer, and a handler that can go on does.
FairSpec ==
    /\ Spec
    /\ WF_vars(GetRecords) /\ WF_vars(Records) /\ WF_vars(AdjustEndpoints)
    /\ WF_vars(ApplyDNSRecords) /\ WF_vars(ApplyChanges)

-----------------------------------------------------------------------------
(* Properties.                                                             *)

\* A record shown as Ready is on the router as ExternalDNS asked for it, when
\* no change set is under way (README.md:463, status.go:112-124).
ReadyIsTrue ==
    shown # Nil /\ running = Nil /\ waiting = {} =>
        \A k \in RecordKey : shown[k] = "Ready" => held[k] = tracker.desired[k]

\* So it is, after failures, lost answers, conflicts and restarts, from the first
\* run on that has the webhook to itself: what overlapped before leaves no trace.
ReadyIsTrueAgain == overlap = "no" => ReadyIsTrue

\* A record is shown with an error, or as left out, only if that is what became
\* of the last change set that carried it (README.md:465-466, status.go:99-111).
ReasonIsLast ==
    shown # Nil /\ running = Nil =>
        \A k \in RecordKey :
            /\ shown[k] = "Error" => last[k] = "error"
            /\ shown[k] = "Conflict" => last[k] = "skipped"

\* Once nothing goes wrong any more the mirror comes to say what is so of every
\* record, and keeps saying it, whatever was shown before (status.go:30-33).
Right ==
    \A k \in RecordKey :
        /\ shown[k] = "Rejected" <=> wish[k] = Unwritable
        /\ shown[k] = "Ready" <=> wish[k] \notin {Unwritable, {}} /\ held[k] = wish[k]
        /\ shown[k] = "Orphan" <=> wish[k] = {} /\ held[k] # {}
        /\ shown[k] = "Conflict" => k \in blocked

MirrorSettles == <>[](shown # Nil /\ Right)
=============================================================================
