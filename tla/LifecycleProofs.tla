--------------------------- MODULE LifecycleProofs ---------------------------
(***************************************************************************)
(* Proofs about Lifecycle, for any number of requests.                     *)
(***************************************************************************)
EXTENDS Lifecycle, TLAPS

\* Where main is before a server is shut down, and after it has left select.
Serving == {"setup", "notify", "armed", "select"}
Leaving == {"defers", "joining", "exited"}

\* A server that stopped before Shutdown began has failed.
StoppedByFailure ==
    main \in Serving =>
        /\ serverErr # "nil"
        /\ \A l \in Listener : listener[l] # "closed" /\ stopped[l] # "nil"

\* What run is going to return, and what that says of the requests.
ExitInv ==
    /\ main \in Serving \cup {"api"} => exit = "none"
    /\ main = "health" => exit \in {"none", "abandoned"} /\ (exit = "none" => ~ Busy)
    /\ main \in Leaving => exit # "none" /\ (exit = "ok" => ~ Busy)
    /\ syncer \in {"cancelled", "gone"} => main \in Leaving

LifeInv == TypeOK /\ StoppedByFailure /\ ExitInv

LEMMA InitLife == Init => LifeInv
BY DEF Init, LifeInv, TypeOK, StoppedByFailure, ExitInv, Serving, Leaving, Listener, Message

\* The steps of main.
LEMMA MainLife == LifeInv /\ Main => LifeInv'
<1> SUFFICES ASSUME LifeInv, Main PROVE LifeInv'
  OBVIOUS
<1> USE DEF LifeInv, TypeOK, StoppedByFailure, ExitInv, Serving, Leaving, Message, channels, Busy
<1>1. CASE SetupFails
  BY <1>1 DEF SetupFails, Leave
<1>2. CASE StartServers
  BY <1>2 DEF StartServers
<1>3. CASE Notify \/ Select
  BY <1>3 DEF Notify, Select
<1>4. CASE ServerStopped
  BY <1>4 DEF ServerStopped, Leave
<1>5. CASE SignalReceived
  BY <1>5 DEF SignalReceived, Close
<1>6. CASE ApiShutDown
  BY <1>6 DEF ApiShutDown, Close
<1>7. CASE HealthShutDown
  BY <1>7 DEF HealthShutDown, Leave
<1>8. CASE Cancel \/ Exit
  BY <1>8 DEF Cancel, Exit
<1>9. QED
  BY <1>1, <1>2, <1>3, <1>4, <1>5, <1>6, <1>7, <1>8 DEF Main

\* The steps of the other goroutines and of the environment.  A handler may
\* start as long as main serves, and after that only if it leaves with an error.
LEMMA OthersLife ==
    LifeInv /\ (ListenerFails \/ Serve \/ WaitForOne \/ Handle \/ SyncerReturns \/ Signal \/ Expire)
        => LifeInv'
<1> SUFFICES ASSUME LifeInv,
                    ListenerFails \/ Serve \/ WaitForOne \/ Handle \/ SyncerReturns \/ Signal \/ Expire
             PROVE  LifeInv'
  OBVIOUS
<1> USE DEF LifeInv, TypeOK, StoppedByFailure, ExitInv, Serving, Leaving, Message, channels, Alive
<1>1. CASE ListenerFails
  BY <1>1 DEF ListenerFails, Busy
<1>2. CASE Serve
  BY <1>2 DEF Serve, Busy
<1>3. CASE WaitForOne
  BY <1>3 DEF WaitForOne, Busy
<1>4. CASE Handle
  <2>1. request' \in [Request -> {"new", "handled", "published", "answered"}]
    BY <1>4 DEF Handle
  <2>2. ~ Accepting /\ ~ Busy => ~ Busy'
    BY <1>4 DEF Handle, Busy
  <2>3. main \in {"health"} \cup Leaving /\ exit # "error" => ~ Accepting
    BY DEF Accepting
  <2>4. QED
    BY <1>4, <2>1, <2>2, <2>3 DEF Handle
<1>5. CASE SyncerReturns
  BY <1>5 DEF SyncerReturns, Busy
<1>6. CASE Signal
  BY <1>6 DEF Signal, Busy
<1>7. CASE Expire
  BY <1>7 DEF Expire, Busy
<1>8. QED
  BY <1>1, <1>2, <1>3, <1>4, <1>5, <1>6, <1>7

LEMMA LifeStep == LifeInv /\ [Next]_vars => LifeInv'
<1>1. LifeInv /\ UNCHANGED vars => LifeInv'
  BY DEF LifeInv, TypeOK, StoppedByFailure, ExitInv, Busy, vars, channels
<1>2. QED
  BY <1>1, MainLife, OthersLife DEF Next, Exited

LEMMA LifeAlways == Spec => []LifeInv
BY InitLife, LifeStep, PTL DEF Spec

\* Types, and the process never exits before its syncer has returned (main.go:
\* 53-63).
THEOREM TypeCorrect == Spec => []TypeOK
<1>1. LifeInv => TypeOK
  BY DEF LifeInv
<1>2. QED
  BY <1>1, LifeAlways, PTL

\* An exit that reports neither a failure nor an abandoned change set has cut
\* no request off, however many there are (main.go:91-107).
THEOREM NothingIsCutOff == Spec => []NothingCutOff
<1>1. LifeInv => NothingCutOff
  BY DEF LifeInv, ExitInv, NothingCutOff, Leaving
<1>2. QED
  BY <1>1, LifeAlways, PTL

\* What a request publishes once the syncer is gone belongs to a process that
\* reports a failure or an abandoned change set (main.go:53-54, 60-63, 94-104).
THEOREM NonePublishesUnsaid == Spec => PublishesBeforeGone
<1> DEFINE Step(r) == request[r] = "handled" /\ request'[r] = "published" /\ syncer = "gone"
<1>1. LifeInv /\ [Next]_vars =>
          [\A r \in Request : Step(r) => exit \in {"error", "abandoned"}]_vars
  <2> SUFFICES ASSUME LifeInv, NEW r \in Request, Step(r)
               PROVE  exit \in {"error", "abandoned"}
    OBVIOUS
  <2>1. Busy /\ main \in Leaving
    BY DEF Busy, LifeInv, ExitInv
  <2>2. QED
    BY <2>1 DEF LifeInv, TypeOK, ExitInv
<1>2. QED
  BY <1>1, LifeAlways, PTL DEF Spec, PublishesBeforeGone
=============================================================================
