---------------------------- MODULE WebhookProofs ----------------------------
(***************************************************************************)
(* Webhook for any requests, however many: type correctness; applyMu, and  *)
(* that the part of a handler it guards is never entered twice; the time   *)
(* of the last success that it guards as well; and that the results and    *)
(* planned changes that are counted are those answered and asked for.      *)
(***************************************************************************)
EXTENDS Webhook, FiniteSetTheorems, TLAPS

\* Who holds applyMu, and that a handler which does is in the part it guards.
LockInv ==
    /\ stage \in [Request -> Stage]
    /\ applyMu \in Request \cup {Nobody}
    /\ \A r \in Request : stage[r] \in Holding <=> applyMu = r

\* A handler that goes from one place to another where applyMu is held at both or at
\* neither leaves it alone.
LEMMA StaysOutside ==
    ASSUME LockInv, NEW r \in Request, NEW next \in Stage, To(r, next), UNCHANGED applyMu,
           stage[r] \in Holding <=> next \in Holding
    PROVE  LockInv'
BY NobodyAssumption DEF LockInv, To

\* A handler that is in the guarded part and goes out of it gives applyMu back.
LEMMA Leaves ==
    ASSUME LockInv, NEW r \in Request, NEW next \in Stage \ Holding, To(r, next), Unlock,
           stage[r] \in Holding
    PROVE  LockInv'
BY NobodyAssumption DEF LockInv, To, Unlock

LEMMA LockStep == LockInv /\ [Next]_vars => LockInv'
<1> SUFFICES ASSUME LockInv, [Next]_vars PROVE LockInv'
  OBVIOUS
<1>1. ASSUME NEW r \in Request, Arrive(r) PROVE LockInv'
  <2>1. PICK next \in {"served", "reading", "decoding"} : To(r, next)
    BY <1>1 DEF Arrive, Reply
  <2>2. stage[r] = "new" /\ UNCHANGED applyMu
    BY <1>1 DEF Arrive
  <2>3. QED
    BY <2>1, <2>2, StaysOutside DEF Stage, Holding
<1>2. ASSUME NEW r \in Request, Refused(r) \/ Adjust(r) \/ Read(r) PROVE LockInv'
  <2>1. stage[r] \in {"decoding", "reading"} /\ To(r, "served") /\ UNCHANGED applyMu
    BY <1>2 DEF Refused, Adjust, Decoded, Read, Reply
  <2>2. QED
    BY <2>1, StaysOutside DEF Stage, Holding
<1>3. ASSUME NEW r \in Request, Plan(r) PROVE LockInv'
  <2>1. stage[r] = "decoding" /\ To(r, "waiting") /\ UNCHANGED applyMu
    BY <1>3 DEF Plan, Decoded
  <2>2. QED
    BY <2>1, StaysOutside DEF Stage, Holding
<1>4. ASSUME NEW r \in Request, Lock(r) PROVE LockInv'
  BY <1>4, NobodyAssumption DEF Lock, To, LockInv, Stage, Holding
<1>5. ASSUME NEW r \in Request, ApplyChanges(r) PROVE LockInv'
  <2>1. stage[r] = "applying" /\ (To(r, "applied") \/ To(r, "failed")) /\ UNCHANGED applyMu
    BY <1>5 DEF ApplyChanges
  <2>2. QED
    BY <2>1, StaysOutside DEF Stage, Holding
<1>6. ASSUME NEW r \in Request, Succeeded(r) PROVE LockInv'
  <2>1. stage[r] = "applied" /\ To(r, "stamping") /\ UNCHANGED applyMu
    BY <1>6 DEF Succeeded
  <2>2. QED
    BY <2>1, StaysOutside DEF Stage, Holding
<1>7. ASSUME NEW r \in Request, Failed(r) \/ Stamp(r) PROVE LockInv'
  <2>1. stage[r] \in Holding /\ To(r, "served") /\ Unlock
    BY <1>7 DEF Failed, Stamp, Reply, Holding
  <2>2. QED
    BY <2>1, Leaves DEF Stage, Holding
<1>8. ASSUME NEW r \in Request, Count(r) PROVE LockInv'
  <2>1. stage[r] = "served" /\ To(r, "answered") /\ UNCHANGED applyMu
    BY <1>8 DEF Count
  <2>2. QED
    BY <2>1, StaysOutside DEF Stage, Holding
<1>9. ASSUME (\E r \in Request : Leave(r)) \/ RouterChanges \/ Tick \/ UNCHANGED vars PROVE LockInv'
  <2>1. UNCHANGED <<stage, applyMu>>
    BY <1>9 DEF Leave, RouterChanges, Tick, vars
  <2>2. QED
    BY <2>1 DEF LockInv
<1>10. QED
  BY <1>1, <1>2, <1>3, <1>4, <1>5, <1>6, <1>7, <1>8, <1>9 DEF Next, Handle

LEMMA LockAlways == Spec => []LockInv
<1>1. Init => LockInv
  BY NobodyAssumption DEF Init, LockInv, Stage, Holding
<1>2. QED
  BY <1>1, LockStep, PTL DEF Spec

-----------------------------------------------------------------------------
\* However many change sets arrive, and whoever of their callers leaves, the provider
\* is given one at a time.
THEOREM ChangeSetsTakeTurns == Spec => []OneAtATime
<1>1. ASSUME LockInv PROVE OneAtATime
  <2> DEFINE Applying == {r \in Request : stage[r] = "applying"}
  <2>1. \A r \in Applying : r = applyMu
    BY <1>1 DEF LockInv, Holding
  <2>2. CASE Applying = {}
    <3>1. Cardinality(Applying) = 0
      BY <2>2, FS_EmptySet
    <3>2. QED
      BY <3>1 DEF OneAtATime
  <2>3. CASE Applying # {}
    <3>1. Applying = {applyMu}
      BY <2>1, <2>3
    <3>2. Cardinality(Applying) = 1
      BY <3>1, FS_Singleton
    <3>3. QED
      BY <3>2 DEF OneAtATime
  <2>4. QED
    BY <2>2, <2>3
<1>2. QED
  BY <1>1, LockAlways, PTL

-----------------------------------------------------------------------------
(* The registry: what an update does to the series it names, and to the    *)
(* others.                                                                 *)

CountsOf(registered) == \A s \in DOMAIN registered : registered[s] \in Nat

LEMMA NothingRegistered ==
    CountsOf(NewRegistry) /\ \A s : Value(NewRegistry, s) = 0
<1>1. DOMAIN NewRegistry = {}
  BY DEF NewRegistry
<1>2. QED
  BY <1>1 DEF CountsOf, Value

LEMMA SetEffect ==
    ASSUME NEW registered, NEW series, NEW value
    PROVE  /\ Value(Set(registered, series, value), series) = value
           /\ \A s : s # series => Value(Set(registered, series, value), s) = Value(registered, s)
           /\ CountsOf(registered) /\ value \in Nat => CountsOf(Set(registered, series, value))
BY DEF Value, Set, CountsOf

LEMMA IncEffect ==
    ASSUME NEW registered, CountsOf(registered), NEW series
    PROVE  /\ Value(Inc(registered, series), series) = Value(registered, series) + 1
           /\ \A s : s # series => Value(Inc(registered, series), s) = Value(registered, s)
           /\ CountsOf(Inc(registered, series))
<1>1. Value(registered, series) \in Nat
  BY DEF Value, CountsOf
<1>2. Inc(registered, series) = Set(registered, series, Value(registered, series) + 1)
  BY DEF Inc, Add
<1>3. QED
  BY <1>1, <1>2, SetEffect

LEMMA AddEachEffect ==
    ASSUME NEW registered, CountsOf(registered), NEW deltas, CountsOf(deltas)
    PROVE  /\ CountsOf(AddEach(registered, deltas))
           /\ \A s : s \notin DOMAIN deltas =>
                  Value(AddEach(registered, deltas), s) = Value(registered, s)
<1>1. \A s : Value(registered, s) \in Nat
  BY DEF Value, CountsOf
<1>2. {s \in DOMAIN deltas : deltas[s] >= 0} = DOMAIN deltas
  BY DEF CountsOf
<1>3. AddEach(registered, deltas) =
          [s \in DOMAIN registered \cup DOMAIN deltas |->
              Value(registered, s) + IF s \in DOMAIN deltas THEN deltas[s] ELSE 0]
  BY <1>2 DEF AddEach
<1>4. QED
  BY <1>1, <1>3 DEF Value, CountsOf

\* The time and the results are series of other metrics than the labelled counters.
LEMMA OtherSeries ==
    ASSUME NEW metric \in {"planned", "dropped"}, NEW deltas
    PROVE  /\ <<"last_success">> \notin DOMAIN Labelled(metric, deltas)
           /\ \A result : <<"applied", result>> \notin DOMAIN Labelled(metric, deltas)
           /\ \A route, code : <<"requests", route, code>> \notin DOMAIN Labelled(metric, deltas)
<1>1. ASSUME NEW s \in DOMAIN Labelled(metric, deltas) PROVE s[1] = metric
  BY DEF Labelled
<1>2. <<"last_success">>[1] # metric
  OBVIOUS
<1>3. \A result : <<"applied", result>>[1] # metric
  OBVIOUS
<1>4. \A route, code : <<"requests", route, code>>[1] # metric
  OBVIOUS
<1>5. QED
  BY <1>1, <1>2, <1>3, <1>4, Zenon

\* What is counted as dropped is a number for each type.
LEMMA DroppedCounts ==
    ASSUME NEW before \in Seq(STRING \cup {Null}), NEW kept \in SUBSET DOMAIN before
    PROVE  LET adjusted == [i \in kept |-> before[i]]
           IN  CountsOf(Labelled("dropped", droppedByType(before, adjusted)))
<1> DEFINE adjusted == [i \in kept |-> before[i]]
           dropped == droppedByType(before, adjusted)
<1>1. IsFiniteSet(DOMAIN before)
  <2>1. Len(before) \in Nat /\ DOMAIN before = 1 .. Len(before)
    OBVIOUS
  <2>2. QED
    BY <2>1, FS_Interval
<1>2. \A t : Occurs(t, before) \in Nat
  <2>1. ASSUME NEW t PROVE Occurs(t, before) \in Nat
    <3>1. IsFiniteSet({i \in DOMAIN before : before[i] = t})
      BY <1>1, FS_Subset
    <3>2. QED
      BY <3>1, FS_CardinalityType DEF Occurs
  <2>2. QED
    BY <2>1
<1>3. \A t : Occurs(t, adjusted) \in Nat
  <2>1. ASSUME NEW t PROVE Occurs(t, adjusted) \in Nat
    <3>1. IsFiniteSet({i \in DOMAIN adjusted : adjusted[i] = t})
      BY <1>1, FS_Subset
    <3>2. QED
      BY <3>1, FS_CardinalityType DEF Occurs
  <2>2. QED
    BY <2>1
<1>4. CountsOf(dropped)
  <2> HIDE DEF adjusted
  <2>1. ASSUME NEW t \in DOMAIN dropped PROVE dropped[t] \in Nat
    <3>1. /\ Occurs(t, before) > Occurs(t, adjusted)
          /\ dropped[t] = Occurs(t, before) - Occurs(t, adjusted)
      BY <2>1 DEF droppedByType
    <3>2. QED
      BY <1>2, <1>3, <3>1
  <2>2. QED
    BY <2>1 DEF CountsOf
<1>5. QED
  <2> HIDE DEF dropped
  <2>1. CountsOf(Labelled("dropped", dropped))
    BY <1>4 DEF CountsOf, Labelled
  <2>2. QED
    BY <2>1 DEF dropped, adjusted

-----------------------------------------------------------------------------
(* Types.                                                                  *)

\* A request that has not arrived is nothing yet.
TypeInv == TypeOK /\ ask \in [Request -> Ask \cup {Nobody}]

\* What is planned and dropped is counted, and nothing else by that.
LEMMA LabelledUpdate ==
    ASSUME TypeInv, NEW r \in Request, Adjust(r) \/ Plan(r)
    PROVE  /\ CountsOf(registry')
           /\ Counted(<<"last_success">>)' = Counted(<<"last_success">>)
           /\ \A result : Counted(<<"applied", result>>)' = Counted(<<"applied", result>>)
           /\ \A route, code :
                  Counted(<<"requests", route, code>>)' = Counted(<<"requests", route, code>>)
<1>1. CountsOf(registry) /\ (stage[r] # "new" => ask[r] \in Ask)
  BY DEF TypeInv, TypeOK, CountsOf
<1>2. PICK metric, deltas :
         /\ metric \in {"planned", "dropped"}
         /\ CountsOf(Labelled(metric, deltas))
         /\ registry' = AddEach(registry, Labelled(metric, deltas))
  <2>1. CASE Adjust(r)
    <3>1. ask[r].types \in Seq(STRING \cup {Null})
      BY <1>1, <2>1, AskAssumption DEF Adjust, Decoded
    <3>2. PICK kept \in SUBSET DOMAIN ask[r].types :
             registry' = AddEach(registry, Labelled("dropped",
                             droppedByType(ask[r].types, [i \in kept |-> ask[r].types[i]])))
      BY <2>1 DEF Adjust
    <3>3. CountsOf(Labelled("dropped",
                       droppedByType(ask[r].types, [i \in kept |-> ask[r].types[i]])))
      BY <3>1, DroppedCounts
    <3>4. QED
      BY <3>2, <3>3
  <2>2. CASE Plan(r)
    <3>1. ask[r].planned \in [Action -> Nat]
      BY <1>1, <2>2, AskAssumption DEF Plan, Decoded
    <3>2. CountsOf(Labelled("planned", ask[r].planned))
      BY <3>1 DEF CountsOf, Labelled
    <3>3. QED
      BY <2>2, <3>2 DEF Plan
  <2>3. QED
    BY <2>1, <2>2
<1> DEFINE counted == Labelled(metric, deltas)
<1>3. CountsOf(registry') /\ \A s : s \notin DOMAIN counted =>
          Value(registry', s) = Value(registry, s)
  BY <1>1, <1>2, AddEachEffect
<1>4. /\ <<"last_success">> \notin DOMAIN counted
      /\ \A result : <<"applied", result>> \notin DOMAIN counted
      /\ \A route, code : <<"requests", route, code>> \notin DOMAIN counted
  BY <1>2, OtherSeries
<1>5. QED
  BY <1>3, <1>4 DEF Counted

\* A request with a header that is not right is told so.
LEMMA RefusalCodes == \A a : MediaTypeStatus(a) \in {200, 406, 415}
BY DEF MediaTypeStatus

\* A handler goes on, and may have answered.
GoesOn(r) ==
    /\ \E next \in Stage : To(r, next)
    /\ \/ UNCHANGED status
       \/ \E code \in {200, 204, 400, 404, 406, 413, 415, 500} :
              status' = [status EXCEPT ![r] = code]
    /\ UNCHANGED <<ask, gone, up, now>>

\* What of the types the handlers do not share with applyMu.
LEMMA HandlerTypes ==
    ASSUME TypeInv, NEW r \in Request, GoesOn(r), ask[r] \in Ask,
           CountsOf(registry'), reached' \in 0 .. now, LockInv'
    PROVE  TypeInv'
<1>1. PICK next \in Stage : To(r, next)
  BY DEF GoesOn
<1>2. status' \in [Request -> {200, 204, 400, 404, 406, 413, 415, 500}]
  BY DEF TypeInv, TypeOK, GoesOn
<1>3. stage' \in [Request -> Stage] /\ \A q \in Request : stage'[q] # "new" => ask'[q] \in Ask
  BY <1>1 DEF TypeInv, TypeOK, To, GoesOn
<1>4. QED
  BY <1>2, <1>3 DEF TypeInv, TypeOK, CountsOf, LockInv, GoesOn

LEMMA TypeStep == TypeInv /\ [Next]_vars => TypeInv'
<1> SUFFICES ASSUME TypeInv, [Next]_vars PROVE TypeInv'
  OBVIOUS
<1> USE BoundsAssumption
<1>1. LockInv /\ LockInv'
  <2>1. LockInv
    BY DEF TypeInv, TypeOK, LockInv
  <2>2. QED
    BY <2>1, LockStep
<1>2. CountsOf(registry) /\ reached \in 0 .. now
  BY DEF TypeInv, TypeOK, CountsOf
<1>3. \A r \in Request : stage[r] # "new" => ask[r] \in Ask
  BY DEF TypeInv, TypeOK
<1>4. ASSUME NEW r \in Request, Arrive(r) PROVE TypeInv'
  <2>1. PICK a \in Ask :
           /\ ask' = [ask EXCEPT ![r] = a]
           /\ \/ Reply(r, 404) \/ Reply(r, MediaTypeStatus(a)) \/ Reply(r, 200)
              \/ (To(r, "reading") \/ To(r, "decoding")) /\ UNCHANGED status
    BY <1>4, Zenon DEF Arrive
  <2>2. /\ stage' \in [Request -> Stage]
        /\ status' \in [Request -> {200, 204, 400, 404, 406, 413, 415, 500}]
        /\ \A q \in Request \ {r} : stage'[q] = stage[q]
    BY <2>1, RefusalCodes DEF TypeInv, TypeOK, Reply, To, Stage
  <2>3. /\ ask' \in [Request -> Ask \cup {Nobody}]
        /\ \A q \in Request : ask'[q] = IF q = r THEN a ELSE ask[q]
    BY <2>1 DEF TypeInv
  <2>4. UNCHANGED <<gone, applyMu, registry, up, now, reached>>
    BY <1>4 DEF Arrive
  <2>5. \A q \in Request : stage'[q] # "new" => ask'[q] \in Ask
    BY <1>3, <2>2, <2>3
  <2>6. QED
    BY <1>1, <2>2, <2>3, <2>4, <2>5 DEF TypeInv, TypeOK, LockInv
<1>5. ASSUME NEW r \in Request, Refused(r) PROVE TypeInv'
  <2>1. /\ stage[r] = "decoding" /\ (Reply(r, 400) \/ Reply(r, 413))
        /\ UNCHANGED <<ask, gone, applyMu, registry, up, now, reached>>
    BY <1>5 DEF Refused
  <2>2. GoesOn(r)
    BY <2>1 DEF GoesOn, Reply, Stage
  <2>3. QED
    BY <1>1, <1>2, <1>3, <2>1, <2>2, HandlerTypes
<1>6. ASSUME NEW r \in Request, Adjust(r) PROVE TypeInv'
  <2>1. CountsOf(registry')
    BY <1>6, LabelledUpdate
  <2>2. /\ stage[r] = "decoding" /\ Reply(r, 200)
        /\ UNCHANGED <<ask, gone, applyMu, up, now, reached>>
    BY <1>6 DEF Adjust, Decoded
  <2>3. GoesOn(r)
    BY <2>1, <2>2 DEF GoesOn, Reply, Stage
  <2>4. QED
    BY <1>1, <1>2, <1>3, <2>1, <2>2, <2>3, HandlerTypes
<1>7. ASSUME NEW r \in Request, Read(r) PROVE TypeInv'
  <2>1. /\ stage[r] = "reading" /\ (Reply(r, 200) \/ Reply(r, 500))
        /\ UNCHANGED <<ask, gone, applyMu, up, now, reached>>
    BY <1>7 DEF Read
  <2>2. CountsOf(registry')
    <3>1. CASE UNCHANGED registry
      BY <1>2, <3>1
    <3>2. CASE \E n \in 0 .. MaxRecords : registry' = Set(registry, <<"records">>, n)
      BY <1>2, <3>2, SetEffect
    <3>3. QED
      BY <1>7, <3>1, <3>2 DEF Read
  <2>3. GoesOn(r)
    BY <2>1, <2>2 DEF GoesOn, Reply, Stage
  <2>4. QED
    BY <1>1, <1>2, <1>3, <2>1, <2>2, <2>3, HandlerTypes
<1>8. ASSUME NEW r \in Request, Plan(r) PROVE TypeInv'
  <2>1. CountsOf(registry')
    BY <1>8, LabelledUpdate
  <2>2. /\ stage[r] = "decoding" /\ To(r, "waiting")
        /\ UNCHANGED <<ask, status, gone, applyMu, up, now, reached>>
    BY <1>8 DEF Plan, Decoded
  <2>3. GoesOn(r)
    BY <2>1, <2>2 DEF GoesOn, Stage
  <2>4. QED
    BY <1>1, <1>2, <1>3, <2>1, <2>2, <2>3, HandlerTypes
<1>9. ASSUME NEW r \in Request, Lock(r) \/ ApplyChanges(r) PROVE TypeInv'
  <2>1. /\ stage[r] \in {"waiting", "applying"}
        /\ \E next \in {"applying", "applied", "failed"} : To(r, next)
        /\ UNCHANGED <<ask, status, gone, registry, up, now>>
        /\ reached' = now \/ UNCHANGED reached
    BY <1>9 DEF Lock, ApplyChanges
  <2>2. reached' \in 0 .. now
    BY <1>2, <2>1 DEF TypeInv, TypeOK
  <2>3. GoesOn(r)
    BY <2>1, <2>2 DEF GoesOn, Stage
  <2>4. QED
    BY <1>1, <1>2, <1>3, <2>1, <2>2, <2>3, HandlerTypes
<1>10. ASSUME NEW r \in Request, Failed(r) \/ Stamp(r) PROVE TypeInv'
  <2>1. /\ stage[r] \in {"failed", "stamping"} /\ (Reply(r, 500) \/ Reply(r, 204))
        /\ UNCHANGED <<ask, gone, up, now, reached>>
    BY <1>10 DEF Failed, Stamp
  <2>2. now \in Nat
    BY DEF TypeInv, TypeOK
  <2>3. CountsOf(registry')
    <3>1. CASE Failed(r)
      BY <1>2, <3>1, IncEffect DEF Failed
    <3>2. CASE Stamp(r)
      BY <1>2, <2>2, <3>2, SetEffect DEF Stamp
    <3>3. QED
      BY <1>10, <3>1, <3>2
  <2>4. GoesOn(r)
    BY <2>1, <2>3 DEF GoesOn, Reply, Stage
  <2>5. QED
    BY <1>1, <1>2, <1>3, <2>1, <2>3, <2>4, HandlerTypes
<1>11. ASSUME NEW r \in Request, Succeeded(r) \/ Count(r) PROVE TypeInv'
  <2>1. /\ stage[r] \in {"applied", "served"} /\ (To(r, "stamping") \/ To(r, "answered"))
        /\ UNCHANGED <<ask, status, gone, up, now, reached>>
    BY <1>11 DEF Succeeded, Count
  <2>2. CountsOf(registry')
    BY <1>2, <1>11, IncEffect DEF Succeeded, Count
  <2>3. GoesOn(r)
    BY <2>1, <2>2 DEF GoesOn, Stage
  <2>4. QED
    BY <1>1, <1>2, <1>3, <2>1, <2>2, <2>3, HandlerTypes
<1>12. ASSUME \/ \E r \in Request : Leave(r)
              \/ RouterChanges \/ Tick \/ UNCHANGED vars
       PROVE  TypeInv'
  <2>1. UNCHANGED <<ask, stage, status, applyMu, registry, reached>>
    BY <1>12 DEF Leave, RouterChanges, Tick, vars
  <2>2. gone' \subseteq Request /\ up' \in BOOLEAN
    <3>1. gone \subseteq Request /\ up \in BOOLEAN
      BY DEF TypeInv, TypeOK
    <3>2. gone' = gone \/ \E r \in Request : gone' = gone \cup {r}
      BY <1>12 DEF Leave, RouterChanges, Tick, vars
    <3>3. up' = up \/ up' = ~ up
      BY <1>12 DEF Leave, RouterChanges, Tick, vars
    <3>4. up' \in BOOLEAN
      BY <3>1, <3>3, Zenon
    <3>5. QED
      BY <3>1, <3>2, <3>4
  <2>3. now' \in 1 .. MaxTime /\ reached' \in 0 .. now'
    <3>1. now \in 1 .. MaxTime
      BY DEF TypeInv, TypeOK
    <3>2. now' = now \/ (now < MaxTime /\ now' = now + 1)
      BY <1>12 DEF Leave, RouterChanges, Tick, vars
    <3>3. QED
      BY <1>2, <2>1, <3>1, <3>2
  <2>4. QED
    BY <2>1, <2>2, <2>3 DEF TypeInv, TypeOK
<1>13. QED
  BY <1>4, <1>5, <1>6, <1>7, <1>8, <1>9, <1>10, <1>11, <1>12 DEF Next, Handle

LEMMA TypeAlways == Spec => []TypeInv
<1>1. Init => TypeInv
  BY NobodyAssumption, BoundsAssumption DEF Init, TypeInv, TypeOK, Stage, Holding, NewRegistry
<1>2. QED
  BY <1>1, TypeStep, PTL DEF Spec

\* Type correctness of the handlers and their metrics: no counter ever holds what
\* is not a count, and applyMu is held in the part it guards and nowhere else.
THEOREM WebhookTypes == Spec => []TypeOK
<1>1. TypeInv => TypeOK
  BY DEF TypeInv
<1>2. QED
  BY <1>1, TypeAlways, PTL

-----------------------------------------------------------------------------
(* The time of the last success.  Between the provider's return and the    *)
(* stamp it lags behind, and then applyMu is held.                         *)

StampInv ==
    applyMu = Nobody \/ stage[applyMu] \in {"applying", "failed"} =>
        Counted(<<"last_success">>) >= reached

\* A step that changes no time, and takes no handler out of the two places where
\* the time of the last success lags behind.
LEMMA NoStamp ==
    ASSUME TypeInv, StampInv, Counted(<<"last_success">>)' = Counted(<<"last_success">>),
           UNCHANGED <<applyMu, reached>>,
           \A r \in Request : stage'[r] \in {"applying", "failed"} =>
               stage[r] \in {"applying", "failed"}
    PROVE  StampInv'
BY DEF StampInv, TypeInv, TypeOK

LEMMA StampStep == TypeInv /\ StampInv /\ [Next]_vars => StampInv'
<1> SUFFICES ASSUME TypeInv, StampInv, [Next]_vars PROVE StampInv'
  OBVIOUS
<1>1. /\ CountsOf(registry) /\ now \in Nat /\ reached \in Nat /\ reached <= now
      /\ stage \in [Request -> Stage]
      /\ \A r \in Request : stage[r] \in Holding <=> applyMu = r
  BY DEF TypeInv, TypeOK, CountsOf
<1>2. ASSUME NEW r \in Request, Arrive(r) \/ Refused(r) \/ Adjust(r) \/ Read(r) \/ Plan(r)
      PROVE  StampInv'
  <2>1. \A q \in Request : stage'[q] \in {"applying", "failed"} =>
            stage[q] \in {"applying", "failed"}
    <3>1. \E next \in {"served", "reading", "decoding", "waiting"} : To(r, next)
      BY <1>2 DEF Arrive, Refused, Adjust, Read, Plan, Reply
    <3>2. QED
      BY <1>1, <3>1 DEF To
  <2>2. UNCHANGED <<applyMu, reached>>
    BY <1>2 DEF Arrive, Refused, Adjust, Read, Plan
  <2>3. Counted(<<"last_success">>)' = Counted(<<"last_success">>)
    <3>1. CASE UNCHANGED registry
      BY <3>1 DEF Counted
    <3>2. CASE \E n : registry' = Set(registry, <<"records">>, n)
      BY <3>2, SetEffect DEF Counted
    <3>3. CASE Adjust(r) \/ Plan(r)
      BY <3>3, LabelledUpdate
    <3>4. QED
      BY <1>2, <3>1, <3>2, <3>3 DEF Arrive, Refused, Read
  <2>4. QED
    BY <2>1, <2>2, <2>3, NoStamp
<1>3. ASSUME NEW r \in Request, Lock(r) PROVE StampInv'
  BY <1>1, <1>3 DEF Lock, StampInv, Counted
<1>4. ASSUME NEW r \in Request, ApplyChanges(r) PROVE StampInv'
  <2>1. applyMu = r /\ applyMu' = r /\ stage[r] = "applying" /\ registry' = registry
    BY <1>1, <1>4 DEF ApplyChanges, Holding
  <2>2. CASE To(r, "applied")
    BY <1>1, <2>1, <2>2, NobodyAssumption DEF To, StampInv
  <2>3. CASE UNCHANGED reached
    BY <2>1, <2>3 DEF StampInv, Counted
  <2>4. QED
    BY <1>4, <2>2, <2>3 DEF ApplyChanges
<1>5. ASSUME NEW r \in Request, Failed(r) PROVE StampInv'
  <2>1. applyMu = r /\ stage[r] = "failed" /\ reached' = reached
    BY <1>1, <1>5 DEF Failed, Holding
  <2>2. Counted(<<"last_success">>)' = Counted(<<"last_success">>)
    BY <1>1, <1>5, IncEffect DEF Failed, Counted
  <2>3. QED
    BY <2>1, <2>2 DEF StampInv
<1>6. ASSUME NEW r \in Request, Succeeded(r) PROVE StampInv'
  <2>1. applyMu' = r /\ stage'[r] = "stamping"
    BY <1>1, <1>6 DEF Succeeded, Holding, To
  <2>2. QED
    BY <2>1, NobodyAssumption DEF StampInv
<1>7. ASSUME NEW r \in Request, Stamp(r) PROVE StampInv'
  <2>1. registry' = Set(registry, <<"last_success">>, now) /\ reached' = reached
    BY <1>7 DEF Stamp
  <2>2. Counted(<<"last_success">>)' = now
    BY <2>1, SetEffect DEF Counted
  <2>3. QED
    BY <1>1, <2>1, <2>2 DEF StampInv
<1>8. ASSUME NEW r \in Request, Count(r) PROVE StampInv'
  <2>1. Counted(<<"last_success">>)' = Counted(<<"last_success">>)
    BY <1>1, <1>8, IncEffect DEF Count, Counted
  <2>2. QED
    BY <1>1, <1>8, <2>1, NoStamp DEF Count, To
<1>9. ASSUME \/ \E r \in Request : Leave(r)
             \/ RouterChanges \/ Tick \/ UNCHANGED vars
      PROVE  StampInv'
  BY <1>9 DEF Leave, RouterChanges, Tick, vars, StampInv, Counted
<1>10. QED
  BY <1>2, <1>3, <1>4, <1>5, <1>6, <1>7, <1>8, <1>9 DEF Next, Handle

\* Whoever succeeds, the gauge never says a time before the last success, once
\* nobody is between the success and the gauge (webhook.go:160-170).
THEOREM LastSuccessIsKept == Spec => []LastSuccessIsLast
<1>1. Init => StampInv
  <2>1. Init => registry = NewRegistry /\ reached = 0
    BY DEF Init
  <2>2. Init => Counted(<<"last_success">>) = 0
    BY <2>1, NothingRegistered DEF Counted
  <2>3. QED
    BY <2>1, <2>2 DEF StampInv
<1>2. StampInv => LastSuccessIsLast
  BY DEF StampInv, LastSuccessIsLast
<1>3. QED
  BY <1>1, <1>2, StampStep, TypeAlways, PTL DEF Spec

-----------------------------------------------------------------------------
(* The results that are counted and the answers that are.  A result is     *)
(* counted first, and its answer when it goes out.                         *)

Started == {r \in Request : stage[r] # "new"}

\* Change sets whose answer has been counted, and those whose result has.
AnsweredWith(code) ==
    {r \in Request : stage[r] = "answered" /\ ask[r].route = "ApplyChanges" /\ status[r] = code}

Over(r, code) ==
    stage[r] \in {"served", "answered"} /\ ask[r].route = "ApplyChanges" /\ status[r] = code

Succeeding == {r \in Request : stage[r] = "stamping" \/ Over(r, 204)}
Failing == {r \in Request : Over(r, 500)}

\* Only a change set is planned, and only a reading read.
RouteInv ==
    \A r \in Request :
        /\ stage[r] \in {"waiting"} \cup Holding => ask[r].route = "ApplyChanges"
        /\ stage[r] = "reading" => ask[r].route = "Records"

CountInv ==
    /\ IsFiniteSet(Started)
    /\ Counted(<<"requests", "ApplyChanges", 204>>) = Cardinality(AnsweredWith(204))
    /\ Counted(<<"requests", "ApplyChanges", 500>>) = Cardinality(AnsweredWith(500))
    /\ Counted(<<"applied", "success">>) = Cardinality(Succeeding)
    /\ Counted(<<"applied", "error">>) = Cardinality(Failing)

\* Everything counted is of requests that have started.
LEMMA CountedAreFinite ==
    ASSUME IsFiniteSet(Started)
    PROVE  /\ \A code : IsFiniteSet(AnsweredWith(code))
           /\ IsFiniteSet(Succeeding) /\ IsFiniteSet(Failing)
<1>1. /\ \A code : AnsweredWith(code) \subseteq Started
      /\ Succeeding \subseteq Started /\ Failing \subseteq Started
  BY DEF AnsweredWith, Succeeding, Failing, Over, Started
<1>2. QED
  BY <1>1, FS_Subset

\* A handler that takes a step leaves the other requests where they are.
OthersStay(r) ==
    \A q \in Request \ {r} :
        stage'[q] = stage[q] /\ status'[q] = status[q] /\ ask'[q] = ask[q]

LEMMA OnlyOneSteps ==
    ASSUME TypeInv, NEW r \in Request, Arrive(r) \/ Handle(r) \/ ApplyChanges(r)
    PROVE  OthersStay(r)
<1>1. \E next : To(r, next)
  BY DEF Arrive, Handle, Refused, Adjust, Read, Plan, Lock, ApplyChanges, Failed, Succeeded,
         Stamp, Count, Reply
<1>2. \A q \in Request \ {r} : stage'[q] = stage[q]
  BY <1>1 DEF TypeInv, TypeOK, To
<1>3. status' = status \/ \E code : status' = [status EXCEPT ![r] = code]
  BY DEF Arrive, Handle, Refused, Adjust, Read, Plan, Lock, ApplyChanges, Failed, Succeeded,
         Stamp, Count, Reply
<1>4. \A q \in Request \ {r} : status'[q] = status[q]
  BY <1>3 DEF TypeInv, TypeOK
<1>5. ask' = ask \/ \E a : ask' = [ask EXCEPT ![r] = a]
  BY DEF Arrive, Handle, Refused, Adjust, Read, Plan, Lock, ApplyChanges, Failed, Succeeded,
         Stamp, Count
<1>6. \A q \in Request \ {r} : ask'[q] = ask[q]
  BY <1>5 DEF TypeInv
<1>7. QED
  BY <1>2, <1>4, <1>6 DEF OthersStay

LEMMA RouteStep == TypeInv /\ RouteInv /\ [Next]_vars => RouteInv'
<1> SUFFICES ASSUME TypeInv, RouteInv, [Next]_vars PROVE RouteInv'
  OBVIOUS
<1>1. stage \in [Request -> Stage] /\ ask \in [Request -> Ask \cup {Nobody}]
  BY DEF TypeInv, TypeOK
<1>2. ASSUME NEW r \in Request, Arrive(r) \/ Handle(r) \/ ApplyChanges(r),
             stage'[r] \in {"waiting"} \cup Holding => ask'[r].route = "ApplyChanges",
             stage'[r] = "reading" => ask'[r].route = "Records"
      PROVE  RouteInv'
  BY <1>2, OnlyOneSteps DEF RouteInv, OthersStay
<1>3. ASSUME NEW r \in Request, Arrive(r) PROVE RouteInv'
  <2>1. PICK a \in Ask :
           /\ ask' = [ask EXCEPT ![r] = a]
           /\ \/ To(r, "served") \/ To(r, "decoding")
              \/ To(r, "reading") /\ a.route = "Records"
    BY <1>3, Zenon DEF Arrive, Reply
  <2>2. QED
    BY <1>1, <1>2, <1>3, <2>1 DEF To, Holding
<1>4. ASSUME NEW r \in Request,
             Refused(r) \/ Adjust(r) \/ Read(r) \/ Failed(r) \/ Stamp(r) \/ Count(r)
      PROVE  RouteInv'
  <2>1. To(r, "served") \/ To(r, "answered")
    BY <1>4 DEF Refused, Adjust, Read, Failed, Stamp, Count, Reply
  <2>2. stage'[r] \in {"served", "answered"}
    BY <1>1, <2>1 DEF To
  <2>3. QED
    BY <1>2, <1>4, <2>2 DEF Holding, Handle
<1>5. ASSUME NEW r \in Request, Plan(r) PROVE RouteInv'
  <2>1. ask' = ask /\ ask[r].route = "ApplyChanges" /\ stage'[r] = "waiting"
    BY <1>1, <1>5 DEF Plan, Decoded, To
  <2>2. QED
    BY <1>2, <1>5, <2>1 DEF Holding, Handle
<1>6. ASSUME NEW r \in Request, Lock(r) \/ ApplyChanges(r) \/ Succeeded(r) PROVE RouteInv'
  <2>1. ask' = ask /\ stage[r] \in {"waiting"} \cup Holding
    BY <1>6 DEF Lock, ApplyChanges, Succeeded, Holding
  <2>2. stage'[r] # "reading"
    BY <1>1, <1>6 DEF Lock, ApplyChanges, Succeeded, To
  <2>3. QED
    BY <1>2, <1>6, <2>1, <2>2 DEF RouteInv, Handle
<1>7. ASSUME \/ \E r \in Request : Leave(r)
             \/ RouterChanges \/ Tick \/ UNCHANGED vars
      PROVE  RouteInv'
  BY <1>7 DEF Leave, RouterChanges, Tick, vars, RouteInv
<1>8. QED
  BY <1>3, <1>4, <1>5, <1>6, <1>7 DEF Next, Handle

\* A step that counts neither a result nor the answer of a change set.
LEMMA NothingCounted ==
    ASSUME TypeInv, CountInv, NEW r \in Request, OthersStay(r),
           stage[r] \notin {"stamping", "served", "answered"},
           stage'[r] \notin {"stamping", "answered"},
           ~ Over(r, 204)', ~ Over(r, 500)',
           \A result : Counted(<<"applied", result>>)' = Counted(<<"applied", result>>),
           \A code : Counted(<<"requests", "ApplyChanges", code>>)' =
                         Counted(<<"requests", "ApplyChanges", code>>)
    PROVE  CountInv'
<1>1. /\ AnsweredWith(204)' = AnsweredWith(204) /\ AnsweredWith(500)' = AnsweredWith(500)
      /\ Succeeding' = Succeeding /\ Failing' = Failing
  BY DEF OthersStay, AnsweredWith, Succeeding, Failing, Over
<1>2. Started' \subseteq Started \cup {r}
  BY DEF OthersStay, Started
<1>3. IsFiniteSet(Started')
  <2>1. IsFiniteSet(Started \cup {r})
    BY FS_AddElement DEF CountInv
  <2>2. QED
    BY <1>2, <2>1, FS_Subset
<1>4. QED
  BY <1>1, <1>3 DEF CountInv

\* A request that goes on has started already.
LEMMA StartedStays ==
    ASSUME NEW r \in Request, OthersStay(r), stage[r] # "new", stage'[r] # "new"
    PROVE  Started' = Started
BY DEF Started, OthersStay

\* What a request is answered at once.
LEMMA ArriveReplies ==
    ASSUME NEW r \in Request, Arrive(r)
    PROVE  /\ registry' = registry /\ stage[r] = "new"
           /\ \/ \E code \in {200, 404, 406, 415} : Reply(r, code)
              \/ To(r, "reading") \/ To(r, "decoding")
<1>1. /\ registry' = registry /\ stage[r] = "new"
      /\ \/ Reply(r, 404) \/ (\E a : Reply(r, MediaTypeStatus(a))) \/ Reply(r, 200)
         \/ To(r, "reading") \/ To(r, "decoding")
  BY Zenon DEF Arrive
<1>2. (\E a : Reply(r, MediaTypeStatus(a))) => \E code \in {200, 406, 415} : Reply(r, code)
  <2> SUFFICES ASSUME NEW a, Reply(r, MediaTypeStatus(a))
               PROVE  \E code \in {200, 406, 415} : Reply(r, code)
    OBVIOUS
  <2>1. MediaTypeStatus(a) \in {200, 406, 415}
    BY RefusalCodes
  <2>2. QED
    BY <2>1, Zenon
<1>3. QED
  BY <1>1, <1>2

LEMMA CountStep == TypeInv /\ RouteInv /\ CountInv /\ [Next]_vars => CountInv'
<1> SUFFICES ASSUME TypeInv, RouteInv, CountInv, [Next]_vars PROVE CountInv'
  OBVIOUS
<1>1. /\ CountsOf(registry) /\ stage \in [Request -> Stage]
      /\ \A r \in Request : status[r] \in {200, 204, 400, 404, 406, 413, 415, 500}
      /\ status = [q \in Request |-> status[q]]
  BY DEF TypeInv, TypeOK, CountsOf
<1>2. IsFiniteSet(Started) /\ IsFiniteSet(Succeeding) /\ IsFiniteSet(Failing)
  BY CountedAreFinite DEF CountInv
<1>3. ASSUME NEW r \in Request, Arrive(r) PROVE CountInv'
  <2>1. /\ registry' = registry /\ stage[r] = "new"
        /\ \/ \E code \in {200, 404, 406, 415} : Reply(r, code)
           \/ To(r, "reading") \/ To(r, "decoding")
    BY <1>3, ArriveReplies
  <2>2. \/ stage'[r] = "served" /\ status'[r] \in {200, 404, 406, 415}
        \/ stage'[r] \in {"reading", "decoding"}
    BY <1>1, <2>1 DEF Reply, To
  <2>3. QED
    BY <1>3, <2>1, <2>2, OnlyOneSteps, NothingCounted DEF Over, Counted
<1>4. ASSUME NEW r \in Request, Refused(r) PROVE CountInv'
  <2>1. registry' = registry /\ stage[r] = "decoding" /\ (Reply(r, 400) \/ Reply(r, 413))
    BY <1>4 DEF Refused
  <2>2. stage'[r] = "served" /\ status'[r] \in {400, 413}
    BY <1>1, <2>1 DEF Reply, To
  <2>3. QED
    BY <1>4, <2>1, <2>2, OnlyOneSteps, NothingCounted DEF Over, Counted, Handle
<1>5. ASSUME NEW r \in Request, Adjust(r) \/ Plan(r) PROVE CountInv'
  <2>1. stage[r] = "decoding" /\ (Reply(r, 200) \/ To(r, "waiting"))
    BY <1>5 DEF Adjust, Plan, Decoded
  <2>2. (stage'[r] = "served" /\ status'[r] = 200) \/ stage'[r] = "waiting"
    BY <1>1, <2>1 DEF Reply, To
  <2>3. QED
    BY <1>5, <2>1, <2>2, OnlyOneSteps, NothingCounted, LabelledUpdate DEF Over, Handle
<1>6. ASSUME NEW r \in Request, Read(r) PROVE CountInv'
  <2>1. /\ stage[r] = "reading" /\ ask'[r].route = "Records"
        /\ Reply(r, 200) \/ Reply(r, 500)
        /\ registry' = registry \/ \E n : registry' = Set(registry, <<"records">>, n)
    BY <1>6 DEF Read, RouteInv
  <2>2. stage'[r] = "served"
    BY <1>1, <2>1 DEF Reply, To
  <2>3. /\ \A result : Counted(<<"applied", result>>)' = Counted(<<"applied", result>>)
        /\ \A code : Counted(<<"requests", "ApplyChanges", code>>)' =
                         Counted(<<"requests", "ApplyChanges", code>>)
    BY <2>1, SetEffect DEF Counted
  <2>4. QED
    BY <1>6, <2>1, <2>2, <2>3, OnlyOneSteps, NothingCounted DEF Over, Handle
<1>7. ASSUME NEW r \in Request, Lock(r) \/ ApplyChanges(r) PROVE CountInv'
  <2>1. /\ registry' = registry /\ stage[r] \in {"waiting", "applying"}
        /\ To(r, "applying") \/ To(r, "applied") \/ To(r, "failed")
    BY <1>7 DEF Lock, ApplyChanges
  <2>2. stage'[r] \in {"applying", "applied", "failed"}
    BY <1>1, <2>1 DEF To
  <2>3. QED
    BY <1>7, <2>1, <2>2, OnlyOneSteps, NothingCounted DEF Over, Counted, Handle
<1>8. ASSUME NEW r \in Request, Failed(r) PROVE CountInv'
  <2>1. /\ stage[r] = "failed" /\ stage'[r] = "served" /\ status'[r] = 500
        /\ ask'[r].route = "ApplyChanges"
    BY <1>1, <1>8 DEF Failed, Reply, To, RouteInv, Holding
  <2>2. OthersStay(r)
    BY <1>8, OnlyOneSteps DEF Handle
  <2>3. /\ Started' = Started /\ Succeeding' = Succeeding
        /\ AnsweredWith(204)' = AnsweredWith(204) /\ AnsweredWith(500)' = AnsweredWith(500)
    BY <2>1, <2>2 DEF OthersStay, Started, Succeeding, AnsweredWith, Over
  <2>4. Failing' = Failing \cup {r} /\ r \notin Failing
    BY <2>1, <2>2 DEF OthersStay, Failing, Over
  <2>5. Cardinality(Failing') = Cardinality(Failing) + 1
    BY <1>2, <2>4, FS_AddElement
  <2>6. /\ Counted(<<"applied", "error">>)' = Counted(<<"applied", "error">>) + 1
        /\ Counted(<<"applied", "success">>)' = Counted(<<"applied", "success">>)
        /\ \A code : Counted(<<"requests", "ApplyChanges", code>>)' =
                         Counted(<<"requests", "ApplyChanges", code>>)
    BY <1>1, <1>8, IncEffect DEF Failed, Counted
  <2>7. QED
    BY <2>3, <2>5, <2>6 DEF CountInv
<1>9. ASSUME NEW r \in Request, Succeeded(r) PROVE CountInv'
  <2>1. stage[r] = "applied" /\ stage'[r] = "stamping"
    BY <1>1, <1>9 DEF Succeeded, To
  <2>2. OthersStay(r)
    BY <1>9, OnlyOneSteps DEF Handle
  <2>3. /\ Started' = Started /\ Failing' = Failing
        /\ AnsweredWith(204)' = AnsweredWith(204) /\ AnsweredWith(500)' = AnsweredWith(500)
    BY <2>1, <2>2 DEF OthersStay, Started, Failing, AnsweredWith, Over
  <2>4. Succeeding' = Succeeding \cup {r} /\ r \notin Succeeding
    BY <2>1, <2>2 DEF OthersStay, Succeeding, Over
  <2>5. Cardinality(Succeeding') = Cardinality(Succeeding) + 1
    BY <1>2, <2>4, FS_AddElement
  <2>6. /\ Counted(<<"applied", "success">>)' = Counted(<<"applied", "success">>) + 1
        /\ Counted(<<"applied", "error">>)' = Counted(<<"applied", "error">>)
        /\ \A code : Counted(<<"requests", "ApplyChanges", code>>)' =
                         Counted(<<"requests", "ApplyChanges", code>>)
    BY <1>1, <1>9, IncEffect DEF Succeeded, Counted
  <2>7. QED
    BY <2>3, <2>5, <2>6 DEF CountInv
<1>10. ASSUME NEW r \in Request, Stamp(r) PROVE CountInv'
  <2>1. /\ stage[r] = "stamping" /\ stage'[r] = "served" /\ status'[r] = 204
        /\ ask'[r].route = "ApplyChanges"
    BY <1>1, <1>10 DEF Stamp, Reply, To, RouteInv, Holding
  <2>2. OthersStay(r)
    BY <1>10, OnlyOneSteps DEF Handle
  <2>3. /\ Started' = Started /\ Succeeding' = Succeeding /\ Failing' = Failing
        /\ AnsweredWith(204)' = AnsweredWith(204) /\ AnsweredWith(500)' = AnsweredWith(500)
    BY <2>1, <2>2 DEF OthersStay, Started, Succeeding, Failing, AnsweredWith, Over
  <2>4. /\ \A result : Counted(<<"applied", result>>)' = Counted(<<"applied", result>>)
        /\ \A code : Counted(<<"requests", "ApplyChanges", code>>)' =
                         Counted(<<"requests", "ApplyChanges", code>>)
    BY <1>10, SetEffect DEF Stamp, Counted
  <2>5. QED
    BY <2>3, <2>4 DEF CountInv
<1>11. ASSUME NEW r \in Request, Count(r) PROVE CountInv'
  <2>1. /\ stage[r] = "served" /\ stage'[r] = "answered"
        /\ status' = status /\ ask' = ask
        /\ registry' = Inc(registry, <<"requests", ask[r].route, status[r]>>)
    BY <1>1, <1>11 DEF Count, To
  <2>2. OthersStay(r)
    BY <1>11, OnlyOneSteps DEF Handle
  <2>3. /\ Started' = Started /\ Succeeding' = Succeeding /\ Failing' = Failing
    BY <2>1, <2>2 DEF OthersStay, Started, Succeeding, Failing, Over
  <2>4. \A result : Counted(<<"applied", result>>)' = Counted(<<"applied", result>>)
    BY <1>1, <2>1, IncEffect DEF Counted
  <2>5. ASSUME NEW code \in {204, 500}
        PROVE  Counted(<<"requests", "ApplyChanges", code>>)' =
                   Cardinality(AnsweredWith(code)')
    <3>1. /\ Counted(<<"requests", "ApplyChanges", code>>) = Cardinality(AnsweredWith(code))
          /\ IsFiniteSet(AnsweredWith(code))
      BY CountedAreFinite DEF CountInv
    <3>2. CASE ask[r].route = "ApplyChanges" /\ status[r] = code
      <4>1. AnsweredWith(code)' = AnsweredWith(code) \cup {r} /\ r \notin AnsweredWith(code)
        BY <2>1, <2>2, <3>2 DEF OthersStay, AnsweredWith
      <4>2. Counted(<<"requests", "ApplyChanges", code>>)' =
                Counted(<<"requests", "ApplyChanges", code>>) + 1
        BY <1>1, <2>1, <3>2, IncEffect DEF Counted
      <4>3. Cardinality(AnsweredWith(code)') = Cardinality(AnsweredWith(code)) + 1
        BY <3>1, <4>1, FS_AddElement
      <4>4. QED
        BY <3>1, <4>2, <4>3
    <3>3. CASE ~ (ask[r].route = "ApplyChanges" /\ status[r] = code)
      <4>1. AnsweredWith(code)' = AnsweredWith(code)
        BY <2>1, <2>2, <3>3 DEF OthersStay, AnsweredWith
      <4>2. Counted(<<"requests", "ApplyChanges", code>>)' =
                Counted(<<"requests", "ApplyChanges", code>>)
        BY <1>1, <2>1, <3>3, IncEffect DEF Counted
      <4>3. QED
        BY <3>1, <4>1, <4>2
    <3>4. QED
      BY <3>2, <3>3
  <2>6. QED
    BY <2>3, <2>4, <2>5 DEF CountInv
<1>12. ASSUME \/ \E r \in Request : Leave(r)
              \/ RouterChanges \/ Tick \/ UNCHANGED vars
       PROVE  CountInv'
  <2>1. UNCHANGED <<ask, stage, status, registry>>
    BY <1>12 DEF Leave, RouterChanges, Tick, vars
  <2>2. QED
    BY <2>1 DEF CountInv, Counted, Started, AnsweredWith, Succeeding, Failing, Over
<1>13. QED
  BY <1>3, <1>4, <1>5, <1>6, <1>7, <1>8, <1>9, <1>10, <1>11, <1>12 DEF Next, Handle

\* Whatever is answered was counted as a result before, with the same outcome, and
\* once every request is over there are as many of one as of the other
\* (webhook.go:163-171, router.go:147-156).
THEOREM ResultsAlwaysAgree == Spec => []ResultsAgree
<1>1. Init => CountInv /\ RouteInv
  <2> SUFFICES ASSUME Init PROVE CountInv /\ RouteInv
    OBVIOUS
  <2>1. \A r \in Request : stage[r] = "new"
    BY DEF Init
  <2>2. /\ Started = {} /\ AnsweredWith(204) = {} /\ AnsweredWith(500) = {}
        /\ Succeeding = {} /\ Failing = {}
    BY <2>1 DEF Started, AnsweredWith, Succeeding, Failing, Over
  <2>3. \A s : Counted(s) = 0
    BY NothingRegistered DEF Init, Counted
  <2>4. CountInv
    BY <2>2, <2>3, FS_EmptySet DEF CountInv
  <2>5. RouteInv
    BY <2>1 DEF RouteInv, Holding
  <2>6. QED
    BY <2>4, <2>5
<1>2. CountInv => ResultsAgree
  <2> SUFFICES ASSUME CountInv PROVE ResultsAgree
    OBVIOUS
  <2>1. AnsweredWith(204) \subseteq Succeeding /\ AnsweredWith(500) \subseteq Failing
    BY DEF AnsweredWith, Succeeding, Failing, Over
  <2>2. /\ Cardinality(AnsweredWith(204)) <= Cardinality(Succeeding)
        /\ Cardinality(AnsweredWith(500)) <= Cardinality(Failing)
    BY <2>1, CountedAreFinite, FS_Subset DEF CountInv
  <2>3. Quiet => AnsweredWith(204) = Succeeding /\ AnsweredWith(500) = Failing
    BY DEF Quiet, AnsweredWith, Succeeding, Failing, Over
  <2>4. QED
    BY <2>2, <2>3 DEF CountInv, ResultsAgree
<1>3. QED
  BY <1>1, <1>2, RouteStep, CountStep, TypeAlways, PTL DEF Spec

-----------------------------------------------------------------------------
(* What is planned.  It is counted when a change set has been read, before *)
(* it waits, and every change set that was read gets a result.             *)

\* Change sets that were read.
ReadIn(r) ==
    /\ ask[r].route = "ApplyChanges"
    /\ stage[r] \in {"waiting"} \cup Holding \/ Over(r, 204) \/ Over(r, 500)

\* The endpoints they ask for, one by one.
Asked(a) == UNION {{r} \X (1 .. ask[r].planned[a]) : r \in {q \in Request : ReadIn(q)}}

PlanInv ==
    \A a \in Action :
        IsFiniteSet(Asked(a)) /\ Counted(<<"planned", a>>) = Cardinality(Asked(a))

LEMMA AskedMembers ==
    \A a, p : p \in Asked(a) <=>
        /\ p = <<p[1], p[2]>> /\ p[1] \in Request /\ ReadIn(p[1])
        /\ p[2] \in 1 .. ask[p[1]].planned[a]
BY DEF Asked

\* A handler that has read its change set before a step and after it, or neither.
LEMMA SameAsked ==
    ASSUME NEW r \in Request, OthersStay(r),
           \/ ~ ReadIn(r) /\ ~ ReadIn(r)'
           \/ ReadIn(r) /\ ReadIn(r)' /\ ask'[r] = ask[r]
    PROVE  \A a : Asked(a)' = Asked(a)
<1>1. \A q \in Request \ {r} : (ReadIn(q)' <=> ReadIn(q)) /\ ask'[q] = ask[q]
  BY DEF OthersStay, ReadIn, Over
<1>2. \A a, p : p \in Asked(a)' <=>
          /\ p = <<p[1], p[2]>> /\ p[1] \in Request /\ ReadIn(p[1])'
          /\ p[2] \in 1 .. ask'[p[1]].planned[a]
  BY DEF Asked
<1>3. \A a, p : p \in Asked(a)' <=> p \in Asked(a)
  <2> SUFFICES ASSUME NEW a, NEW p PROVE p \in Asked(a)' <=> p \in Asked(a)
    OBVIOUS
  <2>1. CASE p[1] \in Request \ {r}
    BY <1>1, <1>2, <2>1, AskedMembers
  <2>2. CASE p[1] = r
    BY <1>2, <2>2, AskedMembers
  <2>3. CASE p[1] \notin Request
    BY <1>2, <2>3, AskedMembers
  <2>4. QED
    BY <2>1, <2>2, <2>3
<1>4. QED
  BY <1>3

\* What Plan adds to the series of an action.
LEMMA PlannedEffect ==
    ASSUME NEW registered, NEW planned \in [Action -> Nat], NEW a \in Action
    PROVE  Value(AddEach(registered, Labelled("planned", planned)), <<"planned", a>>) =
               Value(registered, <<"planned", a>>) + planned[a]
<1> DEFINE deltas == Labelled("planned", planned)
           series == <<"planned", a>>
<1>1. series \in DOMAIN deltas /\ deltas[series] = planned[a]
  BY DEF Labelled
<1>2. planned[a] \in Nat
  OBVIOUS
<1> HIDE DEF deltas, series
<1>3. series \in {s \in DOMAIN deltas : deltas[s] >= 0}
  BY <1>1, <1>2
<1>4. Value(AddEach(registered, deltas), series) = Value(registered, series) + deltas[series]
  BY <1>3 DEF AddEach, Value
<1>5. QED
  BY <1>1, <1>4 DEF deltas, series

\* At most one series is set or counted that is none of what is planned.
CountsOthers ==
    \/ UNCHANGED registry
    \/ \E n : registry' = Set(registry, <<"records">>, n)
    \/ \E n : registry' = Set(registry, <<"last_success">>, n)
    \/ \E result : registry' = Inc(registry, <<"applied", result>>)
    \/ \E route, code : registry' = Inc(registry, <<"requests", route, code>>)

\* The other updates leave what is planned alone.
LEMMA PlannedStays ==
    ASSUME CountsOf(registry), CountsOthers
    PROVE  \A a : Counted(<<"planned", a>>)' = Counted(<<"planned", a>>)
<1> SUFFICES ASSUME NEW a PROVE Counted(<<"planned", a>>)' = Counted(<<"planned", a>>)
  OBVIOUS
<1>1. /\ <<"planned", a>> # <<"records">> /\ <<"planned", a>> # <<"last_success">>
      /\ \A result : <<"planned", a>> # <<"applied", result>>
      /\ \A route, code : <<"planned", a>> # <<"requests", route, code>>
  OBVIOUS
<1>2. \A s : s # <<"planned", a>> =>
          /\ \A n : Value(Set(registry, s, n), <<"planned", a>>) = Value(registry, <<"planned", a>>)
          /\ Value(Inc(registry, s), <<"planned", a>>) = Value(registry, <<"planned", a>>)
  BY SetEffect, IncEffect
<1> DEFINE planned == <<"planned", a>>
<1>3. Value(registry', planned) = Value(registry, planned)
  <2>1. CASE UNCHANGED registry
    BY <2>1
  <2>2. CASE \E n : registry' = Set(registry, <<"records">>, n)
    BY <1>1, <1>2, <2>2
  <2>3. CASE \E n : registry' = Set(registry, <<"last_success">>, n)
    BY <1>1, <1>2, <2>3
  <2>4. CASE \E result : registry' = Inc(registry, <<"applied", result>>)
    BY <1>1, <1>2, <2>4
  <2>5. CASE \E route, code : registry' = Inc(registry, <<"requests", route, code>>)
    BY <1>1, <1>2, <2>5
  <2>6. QED
    BY <2>1, <2>2, <2>3, <2>4, <2>5 DEF CountsOthers
<1>4. QED
  BY <1>3 DEF Counted

\* What is dropped is no series of what is planned.
LEMMA DroppedIsNotPlanned ==
    ASSUME NEW deltas, NEW a PROVE <<"planned", a>> \notin DOMAIN Labelled("dropped", deltas)
<1>1. \A s \in DOMAIN Labelled("dropped", deltas) : s[1] = "dropped"
  BY DEF Labelled
<1>2. <<"planned", a>>[1] # "dropped"
  OBVIOUS
<1>3. QED
  BY <1>1, <1>2, Zenon

LEMMA PlanStep == TypeInv /\ RouteInv /\ PlanInv /\ [Next]_vars => PlanInv'
<1> SUFFICES ASSUME TypeInv, RouteInv, PlanInv, [Next]_vars PROVE PlanInv'
  OBVIOUS
<1>1. /\ CountsOf(registry) /\ stage \in [Request -> Stage]
      /\ \A r \in Request : status[r] \in {200, 204, 400, 404, 406, 413, 415, 500}
      /\ status = [q \in Request |-> status[q]]
      /\ \A r \in Request : stage[r] # "new" => ask[r] \in Ask
  BY DEF TypeInv, TypeOK, CountsOf
<1>2. ASSUME NEW r \in Request, OthersStay(r),
             \/ ~ ReadIn(r) /\ ~ ReadIn(r)'
             \/ ReadIn(r) /\ ReadIn(r)' /\ ask'[r] = ask[r],
             \A a \in Action : Counted(<<"planned", a>>)' = Counted(<<"planned", a>>)
      PROVE  PlanInv'
  <2>1. \A a : Asked(a)' = Asked(a)
    BY <1>2, SameAsked
  <2>2. QED
    BY <1>2, <2>1 DEF PlanInv
<1>3. ASSUME NEW r \in Request, Arrive(r) PROVE PlanInv'
  <2>1. /\ registry' = registry /\ stage[r] = "new"
        /\ \/ \E code \in {200, 404, 406, 415} : Reply(r, code)
           \/ To(r, "reading") \/ To(r, "decoding")
    BY <1>3, ArriveReplies
  <2>2. ~ ReadIn(r) /\ ~ ReadIn(r)'
    BY <1>1, <2>1 DEF ReadIn, Reply, To, Over, Holding
  <2>3. CountsOthers
    BY <2>1, Zenon DEF CountsOthers
  <2>4. OthersStay(r)
    BY <1>3, OnlyOneSteps
  <2>5. \A a : Counted(<<"planned", a>>)' = Counted(<<"planned", a>>)
    BY <1>1, <2>3, PlannedStays
  <2>6. QED
    BY <1>2, <2>2, <2>4, <2>5
<1>4. ASSUME NEW r \in Request, Refused(r) PROVE PlanInv'
  <2>1. registry' = registry /\ stage[r] = "decoding" /\ (Reply(r, 400) \/ Reply(r, 413))
    BY <1>4 DEF Refused
  <2>2. ~ ReadIn(r) /\ ~ ReadIn(r)'
    BY <1>1, <2>1 DEF ReadIn, Reply, To, Over, Holding
  <2>3. CountsOthers
    BY <2>1, Zenon DEF CountsOthers
  <2>4. OthersStay(r)
    BY <1>4, OnlyOneSteps DEF Handle
  <2>5. \A a : Counted(<<"planned", a>>)' = Counted(<<"planned", a>>)
    BY <1>1, <2>3, PlannedStays
  <2>6. QED
    BY <1>2, <2>2, <2>4, <2>5
<1>5. ASSUME NEW r \in Request, Adjust(r) PROVE PlanInv'
  <2>1. stage[r] = "decoding" /\ ask' = ask /\ ask[r].route = "AdjustEndpoints" /\ Reply(r, 200)
    BY <1>5 DEF Adjust, Decoded
  <2>2. ~ ReadIn(r) /\ ~ ReadIn(r)'
    BY <2>1 DEF ReadIn, Over
  <2>3. ask[r].types \in Seq(STRING \cup {Null})
    BY <1>1, <2>1, AskAssumption
  <2>4. PICK kept \in SUBSET DOMAIN ask[r].types :
           registry' = AddEach(registry, Labelled("dropped",
                           droppedByType(ask[r].types, [i \in kept |-> ask[r].types[i]])))
    BY <1>5 DEF Adjust
  <2> DEFINE counted == Labelled("dropped",
                 droppedByType(ask[r].types, [i \in kept |-> ask[r].types[i]]))
  <2>5. CountsOf(counted)
    BY <2>3, DroppedCounts
  <2>6. \A a : <<"planned", a>> \notin DOMAIN counted
    BY DroppedIsNotPlanned
  <2>9. registry' = AddEach(registry, counted)
    BY <2>4
  <2> HIDE DEF counted
  <2>7. \A a : Counted(<<"planned", a>>)' = Counted(<<"planned", a>>)
    <3>1. \A s : s \notin DOMAIN counted => Value(registry', s) = Value(registry, s)
      BY <1>1, <2>5, <2>9, AddEachEffect
    <3>2. ASSUME NEW a PROVE Value(registry', <<"planned", a>>) = Value(registry, <<"planned", a>>)
      BY <2>6, <3>1, Zenon
    <3>3. QED
      BY <3>2 DEF Counted
  <2>8. QED
    BY <1>2, <1>5, <2>2, <2>7, OnlyOneSteps DEF Handle
<1>6. ASSUME NEW r \in Request, Read(r) PROVE PlanInv'
  <2>1. /\ stage[r] = "reading" /\ ask' = ask /\ ask[r].route = "Records"
        /\ registry' = registry \/ \E n : registry' = Set(registry, <<"records">>, n)
    BY <1>6 DEF Read, RouteInv
  <2>2. ~ ReadIn(r) /\ ~ ReadIn(r)'
    BY <2>1 DEF ReadIn, Over
  <2>3. CountsOthers
    BY <2>1, Zenon DEF CountsOthers
  <2>4. OthersStay(r)
    BY <1>6, OnlyOneSteps DEF Handle
  <2>5. \A a : Counted(<<"planned", a>>)' = Counted(<<"planned", a>>)
    BY <1>1, <2>3, PlannedStays
  <2>6. QED
    BY <1>2, <2>2, <2>4, <2>5
<1>7. ASSUME NEW r \in Request, Plan(r) PROVE PlanInv'
  <2>1. /\ stage[r] = "decoding" /\ ask' = ask /\ ask[r].route = "ApplyChanges"
        /\ stage'[r] = "waiting" /\ OthersStay(r) /\ ask[r].planned \in [Action -> Nat]
    <3>1. stage[r] = "decoding" /\ ask' = ask /\ ask[r].route = "ApplyChanges" /\ To(r, "waiting")
      BY <1>7 DEF Plan, Decoded
    <3>2. stage'[r] = "waiting"
      BY <1>1, <3>1 DEF To
    <3>3. OthersStay(r)
      BY <1>7, OnlyOneSteps DEF Handle
    <3>4. ask[r] \in Ask
      BY <1>1, <3>1
    <3>5. ask[r].planned \in [Action -> Nat]
      BY <3>4, AskAssumption
    <3>6. QED
      BY <3>1, <3>2, <3>3, <3>5
  <2>2. ~ ReadIn(r) /\ ReadIn(r)' /\ \A q \in Request \ {r} : ReadIn(q)' <=> ReadIn(q)
    BY <2>1 DEF ReadIn, Over, OthersStay, Holding
  <2>3. ASSUME NEW a \in Action
        PROVE  IsFiniteSet(Asked(a))' /\ (Counted(<<"planned", a>>) = Cardinality(Asked(a)))'
    <3> DEFINE own == {r} \X (1 .. ask[r].planned[a])
    <3>1. Asked(a)' = Asked(a) \cup own /\ Asked(a) \cap own = {}
      <4>1. \A p : p \in Asked(a)' <=>
                /\ p = <<p[1], p[2]>> /\ p[1] \in Request /\ ReadIn(p[1])'
                /\ p[2] \in 1 .. ask[p[1]].planned[a]
        BY <2>1 DEF Asked
      <4>2. \A p : p \in own <=> p = <<p[1], p[2]>> /\ p[1] = r /\ p[2] \in 1 .. ask[r].planned[a]
        OBVIOUS
      <4> HIDE DEF own
      <4>3. QED
        BY <2>2, <4>1, <4>2, AskedMembers
    <3>2. ask[r].planned[a] \in Nat
      BY <2>1
    <3>3. IsFiniteSet(own) /\ Cardinality(own) = ask[r].planned[a]
      <4> DEFINE n == ask[r].planned[a]
      <4>4. IsFiniteSet(1 .. n) /\ Cardinality(1 .. n) = n
        <5> HIDE DEF n
        <5>1. n \in Nat
          BY <3>2 DEF n
        <5>2. QED
          BY <5>1, FS_Interval
      <4>5. IsFiniteSet({r}) /\ Cardinality({r}) = 1
        BY FS_Singleton
      <4>1. /\ IsFiniteSet(1 .. ask[r].planned[a]) /\ IsFiniteSet({r})
            /\ Cardinality(1 .. ask[r].planned[a]) = ask[r].planned[a] /\ Cardinality({r}) = 1
        BY <4>4, <4>5
      <4>2. /\ IsFiniteSet(own)
            /\ Cardinality(own) = Cardinality({r}) * Cardinality(1 .. ask[r].planned[a])
        BY <4>1, FS_Product
      <4>3. QED
        BY <3>2, <4>1, <4>2
    <3>4. IsFiniteSet(Asked(a)) /\ Cardinality(Asked(a)) \in Nat
      BY FS_CardinalityType DEF PlanInv
    <3>5. /\ IsFiniteSet(Asked(a)')
          /\ Cardinality(Asked(a)') = Cardinality(Asked(a)) + ask[r].planned[a]
      <4> HIDE DEF own
      <4>1. Cardinality(Asked(a) \cap own) = 0
        BY <3>1, FS_EmptySet
      <4>2. QED
        BY <3>1, <3>2, <3>3, <3>4, <4>1, FS_Union
    <3>6. Counted(<<"planned", a>>)' = Counted(<<"planned", a>>) + ask[r].planned[a]
      BY <1>7, <2>1, PlannedEffect DEF Plan, Counted
    <3>7. QED
      BY <3>4, <3>5, <3>6 DEF PlanInv
  <2>4. QED
    BY <2>3 DEF PlanInv
<1>8. ASSUME NEW r \in Request,
             Lock(r) \/ ApplyChanges(r) \/ Failed(r) \/ Succeeded(r) \/ Stamp(r)
      PROVE  PlanInv'
  <2>1. /\ stage[r] \in {"waiting"} \cup Holding /\ ask' = ask /\ ask[r].route = "ApplyChanges"
        /\ \/ UNCHANGED registry
           \/ \E n : registry' = Set(registry, <<"last_success">>, n)
           \/ \E result : registry' = Inc(registry, <<"applied", result>>)
    BY <1>8 DEF Lock, ApplyChanges, Failed, Succeeded, Stamp, Holding, RouteInv
  <2>2. stage'[r] \in Holding \/ Over(r, 204)' \/ Over(r, 500)'
    BY <1>1, <1>8, <2>1 DEF Lock, ApplyChanges, Failed, Succeeded, Stamp, Holding, Reply, To, Over
  <2>3. ReadIn(r) /\ ReadIn(r)'
    BY <2>1, <2>2 DEF ReadIn
  <2>4. \A a : Counted(<<"planned", a>>)' = Counted(<<"planned", a>>)
    <3>1. CountsOthers
      BY <2>1, Zenon DEF CountsOthers
    <3>2. QED
      BY <1>1, <3>1, PlannedStays
  <2>5. OthersStay(r)
    BY <1>8, OnlyOneSteps DEF Handle
  <2>6. QED
    BY <1>2, <2>1, <2>3, <2>4, <2>5
<1>9. ASSUME NEW r \in Request, Count(r) PROVE PlanInv'
  <2>1. /\ stage[r] = "served" /\ stage'[r] = "answered" /\ UNCHANGED <<ask, status>>
        /\ registry' = Inc(registry, <<"requests", ask[r].route, status[r]>>)
    BY <1>1, <1>9 DEF Count, To
  <2>2. ReadIn(r)' <=> ReadIn(r)
    BY <2>1 DEF ReadIn, Over, Holding
  <2>3. \A a : Counted(<<"planned", a>>)' = Counted(<<"planned", a>>)
    <3>1. CountsOthers
      BY <2>1, Zenon DEF CountsOthers
    <3>2. QED
      BY <1>1, <3>1, PlannedStays
  <2>4. OthersStay(r)
    BY <1>9, OnlyOneSteps DEF Handle
  <2>5. QED
    BY <1>2, <2>1, <2>2, <2>3, <2>4
<1>10. ASSUME \/ \E r \in Request : Leave(r)
              \/ RouterChanges \/ Tick \/ UNCHANGED vars
       PROVE  PlanInv'
  <2>1. UNCHANGED <<ask, stage, status, registry>>
    BY <1>10 DEF Leave, RouterChanges, Tick, vars
  <2>2. \A a : Asked(a)' = Asked(a)
    BY <2>1 DEF Asked, ReadIn, Over
  <2>3. \A a : Counted(<<"planned", a>>)' = Counted(<<"planned", a>>)
    BY <2>1 DEF Counted
  <2>4. QED
    BY <2>2, <2>3 DEF PlanInv
<1>11. QED
  BY <1>3, <1>4, <1>5, <1>6, <1>7, <1>8, <1>9, <1>10 DEF Next, Handle

\* Once every request is over, what was planned is what the change sets with a result
\* asked for, however they were answered and whoever else asked for what
\* (webhook.go:149-168).
THEOREM MetricsAlwaysAgree == Spec => []MetricsAgree
<1>1. Init => PlanInv /\ RouteInv
  <2> SUFFICES ASSUME Init PROVE PlanInv /\ RouteInv
    OBVIOUS
  <2>1. \A r \in Request : stage[r] = "new"
    BY DEF Init
  <2>2. \A a : Asked(a) = {}
    <3>1. \A r \in Request : ~ ReadIn(r)
      BY <2>1 DEF ReadIn, Over, Holding
    <3>2. QED
      BY <3>1 DEF Asked
  <2>3. \A s : Counted(s) = 0
    BY NothingRegistered DEF Init, Counted
  <2>4. PlanInv
    BY <2>2, <2>3, FS_EmptySet DEF PlanInv
  <2>5. RouteInv
    BY <2>1 DEF RouteInv, Holding
  <2>6. QED
    BY <2>4, <2>5
<1>2. PlanInv => PlansAgree
  <2> SUFFICES ASSUME PlanInv, Quiet, NEW a \in Action
               PROVE  Counted(<<"planned", a>>) =
                          Cardinality(UNION {{r} \X (1 .. ask[r].planned[a]) : r \in
                              {r \in Request : /\ stage[r] = "answered" /\ status[r] \in {204, 500}
                                               /\ ask[r].route = "ApplyChanges"}})
    BY DEF PlansAgree
  <2>1. {q \in Request : ReadIn(q)} =
            {r \in Request : /\ stage[r] = "answered" /\ status[r] \in {204, 500}
                             /\ ask[r].route = "ApplyChanges"}
    BY DEF Quiet, ReadIn, Over, Holding
  <2>2. QED
    BY <2>1 DEF PlanInv, Asked
<1>3. QED
  BY <1>1, <1>2, RouteStep, PlanStep, ResultsAlwaysAgree, TypeAlways, PTL DEF Spec, MetricsAgree
=============================================================================
