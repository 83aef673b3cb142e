------------------------------ MODULE Lifecycle ------------------------------
(***************************************************************************)
(* The life of the process: run in cmd/webhook/main.go and the two servers *)
(* of pkg/router/router.go.                                                *)
(*                                                                         *)
(* Five kinds of goroutine: main; a listener for the API and one for the   *)
(* probes; the one in Router.Run that waits for the first of them to stop; *)
(* the syncer; and a handler per request.  They meet on the channels       *)
(* stopped, serverErr and signals, each of which has room for all that is  *)
(* sent on it, on the syncer's context and done, and in Server.Shutdown,   *)
(* which closes a listener at once and waits for its handlers.             *)
(***************************************************************************)
CONSTANT Request   \* the requests there may be

Listener == {"api", "health"}

VARIABLES
    main,       \* where run is
    exit,       \* what it returns
    signals,    \* the channel of signals: whether one is in it
    signalled,  \* observer: whether one was sent since Notify
    listener,   \* what has become of each listener
    stopped,    \* what is in the channel of Router.Run
    waiter,     \* whether Router.Run still waits for it
    serverErr,  \* what is in the channel of main
    expired,    \* whether the shutdown budget is used up
    syncer,     \* the goroutine that writes the mirror
    request     \* what has become of each request to the API

channels == <<signals, stopped, serverErr>>
vars == <<main, exit, channels, signalled, listener, waiter, expired, syncer, request>>

Message == {"none", "nil", "error"}

TypeOK ==
    /\ main \in {"setup", "notify", "armed", "select", "api", "health", "defers", "joining", "exited"}
    /\ exit \in {"none", "ok", "abandoned", "error"}
    /\ signals \in BOOLEAN /\ signalled \in BOOLEAN
    /\ listener \in [Listener -> {"new", "serving", "closed", "failed"}]
    /\ stopped \in [Listener -> Message]
    /\ waiter \in {"new", "waiting", "returned"}
    /\ serverErr \in Message
    /\ expired \in BOOLEAN
    /\ syncer \in {"off", "running", "cancelled", "gone"}
    /\ request \in [Request -> {"new", "handled", "published", "answered"}]
    /\ main = "exited" => exit # "none" /\ syncer \in {"off", "gone"}

Init ==
    /\ main = "setup" /\ exit = "none"
    /\ signals = FALSE /\ signalled = FALSE
    /\ listener = [l \in Listener |-> "new"]
    /\ stopped = [l \in Listener |-> "none"]
    /\ waiter = "new" /\ serverErr = "none"
    /\ expired = FALSE
    /\ syncer \in {"running", "off"}   \* whether the mirror is switched on
    /\ request = [r \in Request |-> "new"]

-----------------------------------------------------------------------------
(* main                                                                    *)

Leave(result) == main' = "defers" /\ exit' = result

\* The provider cannot be set up: the router's address, the ownership ID.
SetupFails ==
    /\ main = "setup" /\ Leave("error")
    /\ UNCHANGED <<channels, signalled, listener, waiter, expired, syncer, request>>

\* go srv.Run().
StartServers ==
    /\ main = "setup" /\ main' = "notify"
    /\ waiter' = "waiting"
    /\ listener' = [l \in Listener |-> "serving"]
    /\ UNCHANGED <<exit, channels, signalled, expired, syncer, request>>

\* Signals go to the channel from here on; before, one kills the process.
Notify ==
    /\ main = "notify" /\ main' = "armed"
    /\ UNCHANGED <<exit, channels, signalled, listener, waiter, expired, syncer, request>>

Select ==
    /\ main = "armed" /\ main' = "select"
    /\ UNCHANGED <<exit, channels, signalled, listener, waiter, expired, syncer, request>>

ServerStopped ==
    /\ main = "select" /\ serverErr # "none"
    /\ serverErr' = "none"
    /\ Leave(IF serverErr = "error" THEN "error" ELSE "ok")
    /\ UNCHANGED <<signals, stopped, signalled, listener, waiter, expired, syncer, request>>

\* Shutdown of a server begins: its listener is closed.
Close(l) == listener' = [listener EXCEPT ![l] = IF @ = "serving" THEN "closed" ELSE @]

\* Mutant: the syncer's context ends with the signal.
SignalCancels ==
    /\ main = "select" /\ signals
    /\ signals' = FALSE
    /\ main' = "api" /\ Close("api")
    /\ syncer' = IF syncer = "running" THEN "cancelled" ELSE syncer
    /\ UNCHANGED <<exit, stopped, serverErr, signalled, waiter, expired, request>>

SignalReceived ==
    /\ main = "select" /\ signals
    /\ signals' = FALSE
    /\ main' = "api" /\ Close("api")
    /\ UNCHANGED <<exit, stopped, serverErr, signalled, waiter, expired, syncer, request>>

Busy == \E r \in Request : request[r] \in {"handled", "published"}

\* Mutant: the server is taken to be down once its listener is.
ApiClosed ==
    /\ main = "api"
    /\ main' = "health" /\ Close("health")
    /\ UNCHANGED <<exit, channels, signalled, waiter, expired, syncer, request>>

\* Shutdown waits for the handlers, or until the budget is used up, and says
\* which it was.  The second server is shut down in either case.
ApiShutDown ==
    /\ main = "api"
    /\ \/ ~ Busy /\ exit' = exit
       \/ expired /\ exit' = "abandoned"
    /\ main' = "health" /\ Close("health")
    /\ UNCHANGED <<channels, signalled, waiter, expired, syncer, request>>

\* With nothing left of the budget a probe is enough to be late for it.
HealthShutDown ==
    /\ main = "health"
    /\ \/ Leave(IF exit = "none" THEN "ok" ELSE exit)
       \/ expired /\ Leave("abandoned")
    /\ UNCHANGED <<channels, signalled, listener, waiter, expired, syncer, request>>

\* The deferred cancel, and the wait for the syncer's goroutine.
Cancel ==
    /\ main = "defers" /\ main' = "joining"
    /\ syncer' = IF syncer = "running" THEN "cancelled" ELSE syncer
    /\ UNCHANGED <<exit, channels, signalled, listener, waiter, expired, request>>

\* Mutant: nobody waits for the syncer.
ExitAtOnce ==
    /\ main = "joining" /\ main' = "exited"
    /\ UNCHANGED <<exit, channels, signalled, listener, waiter, expired, syncer, request>>

Exit ==
    /\ main = "joining" /\ syncer \in {"off", "gone"} /\ main' = "exited"
    /\ UNCHANGED <<exit, channels, signalled, listener, waiter, expired, syncer, request>>

-----------------------------------------------------------------------------
(* The other goroutines, for as long as the process lives                  *)

Alive == main # "exited"

\* A port that is taken, or a listener that breaks later.
ListenerFails ==
    /\ Alive
    /\ \E l \in Listener :
           /\ listener[l] = "serving"
           /\ listener' = [listener EXCEPT ![l] = "failed"]
    /\ UNCHANGED <<main, exit, channels, signalled, waiter, expired, syncer, request>>

\* serve returns, with no error if the listener was closed by Shutdown.
Serve ==
    /\ Alive
    /\ \E l \in Listener :
           /\ listener[l] \in {"closed", "failed"} /\ stopped[l] = "none"
           /\ waiter = "waiting"
           /\ stopped' = [stopped EXCEPT ![l] = IF listener[l] = "failed" THEN "error" ELSE "nil"]
    /\ UNCHANGED <<main, exit, signals, serverErr, signalled, listener, waiter, expired, syncer, request>>

\* Mutant: Router.Run returns when both have stopped.
WaitForBoth ==
    /\ Alive
    /\ waiter = "waiting" /\ \A l \in Listener : stopped[l] # "none"
    /\ waiter' = "returned"
    /\ serverErr' \in {stopped[l] : l \in Listener}
    /\ UNCHANGED <<main, exit, signals, stopped, signalled, listener, expired, syncer, request>>

\* Router.Run returns with the first that stops.
WaitForOne ==
    /\ Alive
    /\ waiter = "waiting"
    /\ \E l \in Listener : stopped[l] # "none" /\ serverErr' = stopped[l]
    /\ waiter' = "returned"
    /\ UNCHANGED <<main, exit, signals, stopped, signalled, listener, expired, syncer, request>>

\* Connections that are open bring requests until Shutdown has closed them, a
\* listener that failed or not.
Accepting == listener["api"] # "new" /\ (main \in {"notify", "armed", "select", "api"} \/ exit = "error")

\* A handler tells the tracker, which publishes.
Handle ==
    /\ Alive
    /\ \E r \in Request :
           \/ /\ request[r] = "new" /\ Accepting
              /\ request' = [request EXCEPT ![r] = "handled"]
           \/ request[r] = "handled" /\ request' = [request EXCEPT ![r] = "published"]
           \/ request[r] = "published" /\ request' = [request EXCEPT ![r] = "answered"]
    /\ UNCHANGED <<main, exit, channels, signalled, listener, waiter, expired, syncer>>

\* Run returns once its context is cancelled: the calls it may be in use it too.
SyncerReturns ==
    /\ Alive
    /\ syncer = "cancelled" /\ syncer' = "gone"
    /\ UNCHANGED <<main, exit, channels, signalled, listener, waiter, expired, request>>

-----------------------------------------------------------------------------
(* The environment                                                         *)

\* Mutant: the channel has no room, so a signal nobody waits for is dropped.
SignalWaiter ==
    /\ Alive /\ main \notin {"setup", "notify"}
    /\ signals' = (main = "select") /\ signalled' = TRUE
    /\ UNCHANGED <<main, exit, stopped, serverErr, listener, waiter, expired, syncer, request>>

\* The kubelet, or an operator, more than once if they like.
Signal ==
    /\ Alive /\ main \notin {"setup", "notify"}
    /\ signals' = TRUE /\ signalled' = TRUE
    /\ UNCHANGED <<main, exit, stopped, serverErr, listener, waiter, expired, syncer, request>>

Expire ==
    /\ main \in {"api", "health"} /\ ~ expired /\ expired' = TRUE
    /\ UNCHANGED <<main, exit, channels, signalled, listener, waiter, syncer, request>>

Exited == main = "exited" /\ UNCHANGED vars

Main ==
    \/ SetupFails \/ StartServers \/ Notify \/ Select
    \/ ServerStopped \/ SignalReceived \/ ApiShutDown \/ HealthShutDown
    \/ Cancel \/ Exit

Next ==
    \/ Main
    \/ ListenerFails \/ Serve \/ WaitForOne \/ Handle \/ SyncerReturns
    \/ Signal \/ Expire
    \/ Exited

Spec == Init /\ [][Next]_vars

\* Goroutines that can go on do, and time passes.  A handler may take for ever.
FairSpec ==
    /\ Spec
    /\ WF_vars(Main) /\ WF_vars(Serve) /\ WF_vars(WaitForOne)
    /\ WF_vars(SyncerReturns) /\ WF_vars(Expire)

-----------------------------------------------------------------------------
(* Properties.                                                             *)

\* A process that reports no failure and no abandoned change set has answered
\* every request it accepted (main.go:91-107).
NothingCutOff == main = "exited" /\ exit = "ok" => ~ Busy

\* The process ends after a signal, whatever a handler or the API server does
\* (main.go:78-79, 91-107).
EndsOnSignal == signalled ~> main = "exited"

\* One listener that fails takes the process down (router.go:107-109).
EndsWithListener == (\E l \in Listener : listener[l] = "failed") ~> main = "exited"

\* No request publishes into the syncer once it is gone, but in a process that
\* exits with a failure or says that it has abandoned a change set: main.go:53-54
\* leaves these two out.
PublishesBeforeGone ==
    [][\A r \in Request :
          request[r] = "handled" /\ request'[r] = "published" /\ syncer = "gone"
              => exit \in {"error", "abandoned"}]_vars
=============================================================================
