------------------------------- MODULE Webhook -------------------------------
(***************************************************************************)
(* The HTTP layer: the handlers of pkg/webhook/webhook.go behind           *)
(* logRequests of pkg/router/router.go, one goroutine per request, with    *)
(* applyMu and the metrics they share.                                     *)
(*                                                                         *)
(* A caller may leave at any time, or stop in the middle of a body.  The   *)
(* provider is external here: Records ends when its caller leaves, a       *)
(* change set does not, and either fails if the router does.               *)
(***************************************************************************)
EXTENDS Metrics, FiniteSets, SequencesExt, TLC

CONSTANTS
    Request,     \* the requests there may be
    Ask,         \* what a request may be: see AskAssumption
    Nobody,      \* no request
    Null,        \* an endpoint that is null
    MaxRecords,  \* bound: how many records the router reports
    MaxTime      \* bound of the clock

\* GET /, GET /records, POST /records and POST /adjustendpoints, by the handler
\* each leads to.
Route == {"Negotiate", "Records", "ApplyChanges", "AdjustEndpoints"}
Action == {"create", "update", "delete"}

\* A request has a route of the mux or none, a value in each header its route
\* looks at, in that order, and a body; a change set has numbers of endpoints, and
\* what is to be adjusted has record types.
ASSUME AskAssumption ==
    \A a \in Ask :
        /\ a.route \in Route \cup {"unmatched"}
        /\ a.headers \in Seq({"right", "wrong", "absent"})
        /\ a.body \in {"fits", "malformed", "oversized", "stalls"}
        /\ a.planned \in [Action -> Nat]
        /\ a.types \in Seq(STRING \cup {Null})
ASSUME NobodyAssumption == Nobody \notin Request \cup Ask
ASSUME BoundsAssumption == MaxRecords \in Nat /\ MaxTime \in Nat \ {0}

VARIABLES
    ask,       \* what each request is
    stage,     \* how far its handler is
    status,    \* what statusRecorder holds: the answer
    gone,      \* the requests whose caller has left
    applyMu,   \* whose handler holds it
    registry,  \* the metrics
    up,        \* whether the router does what it is asked
    now,       \* the clock
    reached    \* observer: when a change set last reached the router

vars == <<ask, stage, status, gone, applyMu, registry, up, now, reached>>

Stage == {"new", "decoding", "reading", "waiting", "applying", "applied", "failed", "stamping",
          "served", "answered"}

\* Where a handler holds applyMu.
Holding == {"applying", "applied", "failed", "stamping"}

\* Types; applyMu is held by the handler that is in the part it guards, and by no other.
TypeOK ==
    /\ \A r \in Request : stage[r] # "new" => ask[r] \in Ask
    /\ stage \in [Request -> Stage]
    /\ status \in [Request -> {200, 204, 400, 404, 406, 413, 415, 500}]
    /\ gone \subseteq Request
    /\ \A r \in Request : stage[r] \in Holding <=> applyMu = r
    /\ applyMu \in Request \cup {Nobody}
    /\ \A s \in DOMAIN registry : registry[s] \in Nat
    /\ up \in BOOLEAN
    /\ now \in 1 .. MaxTime /\ reached \in 0 .. now

Init ==
    /\ ask = [r \in Request |-> Nobody]
    /\ stage = [r \in Request |-> "new"]
    /\ status = [r \in Request |-> 200]
    /\ gone = {}
    /\ applyMu = Nobody
    /\ registry = NewRegistry
    /\ up = TRUE
    /\ now = 1 /\ reached = 0

-----------------------------------------------------------------------------
(* What every handler does                                                 *)

To(r, next) == stage' = [stage EXCEPT ![r] = next]

\* The series of a metric, one for each value of its label.
Labelled(metric, deltas) == [s \in {<<metric, l>> : l \in DOMAIN deltas} |-> deltas[s[2]]]

Reply(r, code) == To(r, "served") /\ status' = [status EXCEPT ![r] = code]

\* The first header that is not right, of those the route looks at.
MediaTypeStatus(a) ==
    LET bad == {i \in DOMAIN a.headers : a.headers[i] # "right"}
    IN  IF bad = {} THEN 200
        ELSE IF a.headers[CHOOSE i \in bad : \A j \in bad : i <= j] = "absent" THEN 406 ELSE 415

\* The mux, and what a handler does before it waits for anything.
Arrive(r) ==
    /\ stage[r] = "new"
    /\ \E a \in Ask :
           /\ ask' = [ask EXCEPT ![r] = a]
           /\ IF a.route = "unmatched" THEN Reply(r, 404)
              ELSE IF MediaTypeStatus(a) # 200 THEN Reply(r, MediaTypeStatus(a))
              ELSE IF a.route = "Negotiate" THEN Reply(r, 200)
              ELSE /\ To(r, IF a.route = "Records" THEN "reading" ELSE "decoding")
                   /\ UNCHANGED status
    /\ UNCHANGED <<gone, applyMu, registry, up, now, reached>>

\* A body that is not all there when its caller leaves cannot be decoded.
Refused(r) ==
    /\ stage[r] = "decoding"
    /\ \/ ask[r].body = "malformed" /\ Reply(r, 400)
       \/ ask[r].body = "oversized" /\ Reply(r, 413)
       \/ r \in gone /\ Reply(r, 400)
    /\ UNCHANGED <<ask, gone, applyMu, registry, up, now, reached>>

Decoded(r, route) == stage[r] = "decoding" /\ ask[r].route = route /\ ask[r].body = "fits"

\* Mutant: the recorder never hears of a status and counts a 200.
CountDefault(r) ==
    /\ stage[r] = "served" /\ To(r, "answered")
    /\ registry' = Inc(registry, <<"requests", ask[r].route, 200>>)
    /\ UNCHANGED <<ask, status, gone, applyMu, up, now, reached>>

\* logRequests counts the request, and then the answer goes out.
Count(r) ==
    /\ stage[r] = "served" /\ To(r, "answered")
    /\ registry' = Inc(registry, <<"requests", ask[r].route, status[r]>>)
    /\ UNCHANGED <<ask, status, gone, applyMu, up, now, reached>>

-----------------------------------------------------------------------------
(* POST /adjustendpoints and GET /records                                  *)

Occurs(type, types) == Cardinality({i \in DOMAIN types : types[i] = type})

\* Per type, how many went in and did not come back, if any.
droppedByType(before, after) ==
    [t \in {t \in ToSet(before) \ {Null} : Occurs(t, before) > Occurs(t, after)} |->
        Occurs(t, before) - Occurs(t, after)]

\* The provider gives back what it can represent, none of it null.
Adjust(r) ==
    /\ Decoded(r, "AdjustEndpoints")
    /\ \E kept \in SUBSET {i \in DOMAIN ask[r].types : ask[r].types[i] # Null} :
           LET adjusted == [i \in kept |-> ask[r].types[i]]
               dropped == droppedByType(ask[r].types, adjusted)
           IN  registry' = AddEach(registry, Labelled("dropped", dropped))
    /\ Reply(r, 200)
    /\ UNCHANGED <<ask, gone, applyMu, up, now, reached>>

\* Mutant: a reading waits for the change set under way.
ReadWhenFree(r) ==
    /\ stage[r] = "reading" /\ applyMu = Nobody
    /\ up /\ Reply(r, 200) /\ registry' = Set(registry, <<"records">>, 0)
    /\ UNCHANGED <<ask, gone, applyMu, up, now, reached>>

\* The reading uses the context of its caller.
Read(r) ==
    /\ stage[r] = "reading"
    /\ \/ /\ up
          /\ \E n \in 0 .. MaxRecords : registry' = Set(registry, <<"records">>, n)
          /\ Reply(r, 200)
       \/ ~ up /\ Reply(r, 500) /\ UNCHANGED registry
       \/ r \in gone /\ Reply(r, 500) /\ UNCHANGED registry
    /\ UNCHANGED <<ask, gone, applyMu, up, now, reached>>

-----------------------------------------------------------------------------
(* POST /records                                                           *)

\* What is asked for is counted before the wait for applyMu.
Plan(r) ==
    /\ Decoded(r, "ApplyChanges") /\ To(r, "waiting")
    /\ registry' = AddEach(registry, Labelled("planned", ask[r].planned))
    /\ UNCHANGED <<ask, status, gone, applyMu, up, now, reached>>

\* Mutant: applyMu is not waited for.
LockNothing(r) ==
    /\ stage[r] = "waiting" /\ To(r, "applying")
    /\ applyMu' = r
    /\ UNCHANGED <<ask, status, gone, registry, up, now, reached>>

Lock(r) ==
    /\ stage[r] = "waiting" /\ To(r, "applying")
    /\ applyMu = Nobody /\ applyMu' = r
    /\ UNCHANGED <<ask, status, gone, registry, up, now, reached>>

\* Mutant: the change set has the context of its caller.
ApplyForCaller(r) ==
    /\ stage[r] = "applying"
    /\ \/ up /\ To(r, "applied") /\ reached' = now
       \/ (~ up \/ r \in gone) /\ To(r, "failed") /\ UNCHANGED reached
    /\ UNCHANGED <<ask, status, gone, applyMu, registry, up, now>>

\* The provider returns.  That the caller has left makes no difference.
ApplyChanges(r) ==
    /\ stage[r] = "applying"
    /\ \/ up /\ To(r, "applied") /\ reached' = now
       \/ ~ up /\ To(r, "failed") /\ UNCHANGED reached
    /\ UNCHANGED <<ask, status, gone, applyMu, registry, up, now>>

\* Mutant: applyMu is given back by the paths that succeed.
FailedKeepsLock(r) ==
    /\ stage[r] = "failed" /\ Reply(r, 500)
    /\ registry' = Inc(registry, <<"applied", "error">>)
    /\ UNCHANGED <<ask, gone, applyMu, up, now, reached>>

\* The deferred unlock, with the answer.
Unlock == applyMu' = Nobody

Failed(r) ==
    /\ stage[r] = "failed" /\ Reply(r, 500)
    /\ registry' = Inc(registry, <<"applied", "error">>)
    /\ Unlock
    /\ UNCHANGED <<ask, gone, up, now, reached>>

\* Mutant: applyMu is given back before the time is set.
SucceededUnlocks(r) ==
    /\ stage[r] = "applied" /\ To(r, "stamping")
    /\ registry' = Inc(registry, <<"applied", "success">>)
    /\ Unlock
    /\ UNCHANGED <<ask, status, gone, up, now, reached>>

Succeeded(r) ==
    /\ stage[r] = "applied" /\ To(r, "stamping")
    /\ registry' = Inc(registry, <<"applied", "success">>)
    /\ UNCHANGED <<ask, status, gone, applyMu, up, now, reached>>

Stamp(r) ==
    /\ stage[r] = "stamping" /\ Reply(r, 204)
    /\ registry' = Set(registry, <<"last_success">>, now)
    /\ Unlock
    /\ UNCHANGED <<ask, gone, up, now, reached>>

-----------------------------------------------------------------------------
(* The environment                                                         *)

Leave(r) ==
    /\ stage[r] \notin {"new", "answered"} /\ r \notin gone
    /\ gone' = gone \cup {r}
    /\ UNCHANGED <<ask, stage, status, applyMu, registry, up, now, reached>>

RouterChanges ==
    /\ up' = ~ up
    /\ UNCHANGED <<ask, stage, status, gone, applyMu, registry, now, reached>>

Tick ==
    /\ now < MaxTime /\ now' = now + 1
    /\ UNCHANGED <<ask, stage, status, gone, applyMu, registry, up, reached>>

\* What a handler does without waiting for its caller or for a change set.
Handle(r) ==
    \/ Refused(r) \/ Adjust(r) \/ Read(r) \/ Plan(r)
    \/ Lock(r) \/ Failed(r) \/ Succeeded(r) \/ Stamp(r) \/ Count(r)

Next ==
    \/ \E r \in Request : Arrive(r) \/ Handle(r) \/ ApplyChanges(r) \/ Leave(r)
    \/ RouterChanges \/ Tick

Spec == Init /\ [][Next]_vars

\* Handlers go on; the mutex comes to everybody who waits for it, and a reading
\* has a timeout.  Nothing is assumed of a change set.
FairSpec == Spec /\ \A r \in Request : WF_vars(Handle(r))

-----------------------------------------------------------------------------
(* Properties.                                                             *)

\* One change set at a time is with the provider, whoever has left (webhook.go:46-56).
OneAtATime == Cardinality({r \in Request : stage[r] = "applying"}) <= 1

Counted(series) == Value(registry, series)

Quiet == \A r \in Request : stage[r] \in {"new", "answered"}

\* A change set has one result, that of its answer.
ResultsAgree ==
    LET answered(code) == Counted(<<"requests", "ApplyChanges", code>>)
    IN  /\ answered(204) <= Counted(<<"applied", "success">>)
        /\ answered(500) <= Counted(<<"applied", "error">>)
        /\ Quiet => /\ answered(204) = Counted(<<"applied", "success">>)
                    /\ answered(500) = Counted(<<"applied", "error">>)

\* What was planned is what the change sets with a result asked for, endpoint by endpoint.
PlansAgree ==
    Quiet => \A a \in Action :
        LET carriedOut == {r \in Request : /\ stage[r] = "answered" /\ status[r] \in {204, 500}
                                          /\ ask[r].route = "ApplyChanges"}
        IN  Counted(<<"planned", a>>) =
                Cardinality(UNION {{r} \X (1 .. ask[r].planned[a]) : r \in carriedOut})

\* The metrics agree with each other, as far as requests are over, and what was
\* rejected counts for nothing else (webhook.go:149-168, router.go:147-156;
\* README.md:508-514).
MetricsAgree == ResultsAgree /\ PlansAgree

\* The time of the last success is never that of an earlier one, though several
\* handlers set it (webhook.go:160-169).
LastSuccessIsLast == applyMu = Nobody => Counted(<<"last_success">>) >= reached

\* A reading is answered, whatever a change set, its waiters or the caller of
\* another request do (webhook.go:55-58).
ReadingIsAnswered == \A r \in Request : stage[r] = "reading" ~> stage[r] = "answered"

\* As long as change sets come to an end, every one that was received gets its turn,
\* and if the router is up is carried out: neither its caller nor that of another may
\* stop it by leaving or by sending half a body (webhook.go:52-55, 152-160).
Received(r) == stage[r] = "waiting"

ChangeSetIsApplied ==
    (\A r \in Request : WF_vars(ApplyChanges(r))) =>
        \A r \in Request :
            /\ Received(r) ~> stage[r] = "answered"
            /\ []up => (Received(r) ~> stage[r] = "answered" /\ status[r] = 204)
=============================================================================
