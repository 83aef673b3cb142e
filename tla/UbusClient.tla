----------------------------- MODULE UbusClient -----------------------------
(***************************************************************************)
(* The client of pkg/ubus/ubus.go, between the goroutines that call it and *)
(* rpcd.  OpenWrt takes a Call for what one goroutine sees of it; here a   *)
(* Call is all its steps, and any number of goroutines are in one.         *)
(*                                                                         *)
(* The provider has two of these clients (openwrt.go:33-42): one for       *)
(* GetDNSRecords, which any number of requests share and which only gets,  *)
(* and one for ApplyDNSRecords, whose single user stages changes, applies  *)
(* them and resets the client when a call fails.  A behaviour is of one of *)
(* the two.                                                                *)
(*                                                                         *)
(* mu is held over the whole of a login and for single assignments         *)
(* otherwise, which are one step here.                                     *)
(***************************************************************************)
CONSTANTS
    Caller,     \* goroutines
    Session,    \* session ids rpcd hands out
    NoSession,  \* the empty string
    Change,     \* changes that can be staged
    Nobody      \* holder of a free mutex, writer of a client that is read through

ASSUME CallerAssumption == Nobody \notin Caller
ASSUME SessionAssumption == NoSession \notin Session

VARIABLES
    writer,                     \* the one user of a client that is written through
    session, staged, mu,        \* the client, and who holds client.mu
    pc, method, mine, retried,  \* each caller: where it is, what it calls, its
                                \* variable session, whether it is in its second call
    alive, delta,               \* rpcd: the sessions it knows, and their changes
    refused, lost, issued       \* observers: sessions refused to a caller, sessions
                                \* whose login was not heard of, changes staged and
                                \* neither applied nor given up

clientVars == <<writer, session, staged, mu>>
callerVars == <<pc, method, mine, retried>>
routerVars == <<alive, delta>>
observers == <<refused, lost, issued>>
vars == <<clientVars, callerVars, routerVars, observers>>

\* "set" is what stages: uci add, set and delete.
Method == {"get", "set", "apply"}

TypeOK ==
    /\ writer \in Caller \cup {Nobody}
    /\ session \in Session \cup {NoSession}
    /\ staged \in BOOLEAN
    /\ mu \in Caller \cup {Nobody}
    /\ pc \in [Caller -> {"idle", "login", "logging in", "call", "refused", "forget",
                          "track", "reset"}]
    /\ method \in [Caller -> Method]
    /\ mine \in [Caller -> Session \cup {NoSession}]
    /\ retried \in [Caller -> BOOLEAN]
    /\ alive \subseteq Session
    /\ delta \in [Session -> SUBSET Change]
    /\ refused \subseteq Session /\ lost \subseteq Session
    /\ issued \subseteq Change

Init ==
    /\ writer \in Caller \cup {Nobody}
    /\ session = NoSession /\ staged = FALSE /\ mu = Nobody
    /\ pc = [c \in Caller |-> "idle"]
    /\ method = [c \in Caller |-> "get"]
    /\ mine = [c \in Caller |-> NoSession]
    /\ retried = [c \in Caller |-> FALSE]
    /\ alive = {}
    /\ delta = [s \in Session |-> {}]
    /\ refused = {} /\ lost = {} /\ issued = {}

Goto(c, place) == pc' = [pc EXCEPT ![c] = place]

\* Call returns: its variables go out of scope, and a writer that is told of an
\* error resets the client before anything else.
Return(c) ==
    /\ Goto(c, "idle")
    /\ method' = [method EXCEPT ![c] = "get"]
    /\ mine' = [mine EXCEPT ![c] = NoSession]
    /\ retried' = [retried EXCEPT ![c] = FALSE]

Fail(c) ==
    IF c = writer
    THEN Goto(c, "reset") /\ UNCHANGED <<method, mine, retried>>
    ELSE Return(c)

Call(c, m) ==
    /\ pc[c] = "idle"
    /\ writer = c \/ (writer = Nobody /\ m = "get")
    /\ Goto(c, "login")
    /\ method' = [method EXCEPT ![c] = m]
    /\ UNCHANGED <<clientVars, mine, retried, routerVars, observers>>

-----------------------------------------------------------------------------
(* login                                                                   *)

\* Mutant: login does not hand over the session it finds.
EnterLoginEmpty(c) ==
    /\ pc[c] = "login" /\ mu = Nobody
    /\ IF session # NoSession
       THEN Goto(c, "call") /\ UNCHANGED mu
       ELSE mu' = c /\ Goto(c, "logging in")
    /\ UNCHANGED <<writer, session, staged, method, mine, retried, routerVars, observers>>

\* It has mu: there is a session, or it asks for one and keeps mu.
EnterLogin(c) ==
    /\ pc[c] = "login" /\ mu = Nobody
    /\ IF session # NoSession
       THEN mine' = [mine EXCEPT ![c] = session] /\ Goto(c, "call") /\ UNCHANGED mu
       ELSE mu' = c /\ Goto(c, "logging in") /\ UNCHANGED mine
    /\ UNCHANGED <<writer, session, staged, method, retried, routerVars, observers>>

\* rpcd opens session s, under an id that nobody remembers.
Open(s) ==
    /\ s \notin alive /\ s # session /\ \A c \in Caller : mine[c] # s
    /\ alive' = alive \cup {s}
    /\ UNCHANGED delta

LoggedIn(c) ==
    /\ pc[c] = "logging in"
    /\ \E s \in Session :
           /\ Open(s)
           /\ session' = s
           /\ mine' = [mine EXCEPT ![c] = s]
           /\ refused' = refused \ {s} /\ lost' = lost \ {s}
    /\ mu' = Nobody
    /\ Goto(c, "call")
    /\ UNCHANGED <<writer, staged, method, retried, issued>>

\* The login is refused or the router does not answer it, having opened a
\* session or not.
LoginFails(c) ==
    /\ pc[c] = "logging in"
    /\ \/ UNCHANGED <<routerVars, lost>>
       \/ \E s \in Session : Open(s) /\ lost' = lost \cup {s}
    /\ mu' = Nobody
    /\ Fail(c)
    /\ UNCHANGED <<writer, session, staged, refused, issued>>

-----------------------------------------------------------------------------
(* call, and what Call makes of its answer                                 *)

\* What rpcd does with a call in session s, whoever hears of it.
Performed(m, s) ==
    \/ m = "get" /\ UNCHANGED delta
    \/ /\ m = "set"
       /\ \/ \E change \in Change : delta' = [delta EXCEPT ![s] = @ \cup {change}]
          \/ UNCHANGED delta    \* the value is there already
    \/ m = "apply" /\ delta[s] # {} /\ delta' = [delta EXCEPT ![s] = {}]

Answered(c) ==
    /\ pc[c] = "call" /\ mine[c] \in alive
    /\ Performed(method[c], mine[c])
    /\ issued' = CASE method[c] = "get"   -> issued
                   [] method[c] = "set"   -> issued \cup (delta'[mine[c]] \ delta[mine[c]])
                   [] method[c] = "apply" -> {}
    /\ Goto(c, "track")
    /\ UNCHANGED <<clientVars, method, mine, retried, alive, refused, lost>>

\* ErrNoData: nothing is tracked, and ApplyDNSRecords takes it for a success.
NoData(c) ==
    /\ pc[c] = "call" /\ mine[c] \in alive
    /\ method[c] = "apply" /\ delta[mine[c]] = {}
    /\ Return(c)
    /\ UNCHANGED <<clientVars, routerVars, observers>>

\* A bad status or body, no answer in time, or the caller's context is done;
\* rpcd may have done what it was asked.
CallFails(c) ==
    /\ pc[c] = "call"
    /\ \/ UNCHANGED delta
       \/ mine[c] \in alive /\ Performed(method[c], mine[c])
    /\ Fail(c)
    /\ UNCHANGED <<clientVars, alive, observers>>

\* Mutant: a second denial is treated like the first.
RefusedForever(c) ==
    /\ pc[c] = "call"
    /\ refused' = refused \cup {mine[c]}
    /\ Goto(c, "refused")
    /\ UNCHANGED <<method, mine, retried, clientVars, routerVars, lost, issued>>

\* Access denied: the session is gone, or it may not make the call.
Refused(c) ==
    /\ pc[c] = "call"
    /\ refused' = refused \cup {mine[c]}
    /\ IF retried[c] THEN Fail(c) ELSE Goto(c, "refused") /\ UNCHANGED <<method, mine, retried>>
    /\ UNCHANGED <<clientVars, routerVars, lost, issued>>

\* Mutant: the session is given up although it has changes staged.
IsStagedNever(c) ==
    /\ pc[c] = "refused" /\ mu = Nobody
    /\ Goto(c, "forget")
    /\ UNCHANGED <<method, mine, retried, clientVars, routerVars, observers>>

\* isStaged
IsStaged(c) ==
    /\ pc[c] = "refused" /\ mu = Nobody
    /\ IF session = mine[c] /\ staged
       THEN Fail(c)
       ELSE Goto(c, "forget") /\ UNCHANGED <<method, mine, retried>>
    /\ UNCHANGED <<clientVars, routerVars, observers>>

\* Mutant: forget drops whatever session there is.
ForgetAny(c) ==
    /\ pc[c] = "forget" /\ mu = Nobody
    /\ session' = NoSession /\ staged' = FALSE
    /\ Goto(c, "login")
    /\ retried' = [retried EXCEPT ![c] = TRUE]
    /\ UNCHANGED <<writer, mu, method, mine, routerVars, observers>>

\* forget, and the second login.
Forget(c) ==
    /\ pc[c] = "forget" /\ mu = Nobody
    /\ IF session = mine[c]
       THEN session' = NoSession /\ staged' = FALSE
       ELSE UNCHANGED <<session, staged>>
    /\ Goto(c, "login")
    /\ retried' = [retried EXCEPT ![c] = TRUE]
    /\ UNCHANGED <<writer, mu, method, mine, routerVars, observers>>

\* Mutant: whatever is no call that stages is taken for an apply.
TrackLast(c) ==
    /\ pc[c] = "track" /\ mu = Nobody
    /\ staged' = IF session # mine[c] THEN staged ELSE method[c] = "set"
    /\ Return(c)
    /\ UNCHANGED <<writer, session, mu, routerVars, observers>>

\* track
Track(c) ==
    /\ pc[c] = "track" /\ mu = Nobody
    /\ staged' = IF session # mine[c] \/ method[c] = "get" THEN staged ELSE method[c] = "set"
    /\ Return(c)
    /\ UNCHANGED <<writer, session, mu, routerVars, observers>>

\* Reset, by a writer one of whose calls has failed.
Reset(c) ==
    /\ pc[c] = "reset" /\ mu = Nobody
    /\ session' = NoSession /\ staged' = FALSE
    /\ issued' = {}
    /\ Return(c)
    /\ UNCHANGED <<writer, mu, routerVars, refused, lost>>

\* rpcd ends a session, with what it has staged.
Expire ==
    /\ \E s \in alive :
           alive' = alive \ {s} /\ delta' = [delta EXCEPT ![s] = {}]
    /\ UNCHANGED <<clientVars, callerVars, observers>>

\* Steps that wait for mu, and steps that do not.
Locking(c) == EnterLogin(c) \/ IsStaged(c) \/ Forget(c) \/ Track(c) \/ Reset(c)

Answering(c) ==
    \/ LoggedIn(c) \/ LoginFails(c)
    \/ Answered(c) \/ NoData(c) \/ CallFails(c) \/ Refused(c)

Next ==
    \/ \E c \in Caller : (\E m \in Method : Call(c, m)) \/ Locking(c) \/ Answering(c)
    \/ Expire

Spec == Init /\ [][Next]_vars

\* Every request is answered or times out (ubus.go:123-129), and a Go mutex
\* lets no waiter starve, however often others take it.
FairSpec ==
    Spec /\ \A c \in Caller : SF_vars(Locking(c)) /\ WF_vars(Answering(c))

-----------------------------------------------------------------------------
\* Calls share one login: a session that was opened and is not the client's was
\* refused to a caller, or its login was never heard of.  So an expired session
\* costs one login, however many calls find it expired at once
\* (ubus.go:115-117, 218-250).
NoLoginWasted == writer = Nobody => alive \ {session} \subseteq refused \cup lost

\* An apply commits what was staged since the last apply or Reset, all of it
\* and nothing else, however the session changed under it (ubus.go:167-172).
AppliesWhatWasStaged ==
    \A c \in Caller :
        pc[c] = "call" /\ method[c] = "apply" /\ mine[c] \in alive => delta[mine[c]] = issued

\* The client never takes a session that holds changes for one that holds none,
\* and so never gives it up half staged; it may do so the other way round, after an
\* apply that found nothing staged (ubus.go:118-119, 167-173, 182, 204-215).
StagedNeverMissed ==
    writer # Nobody /\ session \in alive /\ delta[session] # {}
        => staged \/ pc[writer] \in {"track", "reset"}

\* Whoever logs in is the only one to, and nobody waits on a mutex that nobody
\* gives back: every call returns (ubus.go:115-117, 161-179).
CallReturns == \A c \in Caller : pc[c] # "idle" ~> pc[c] = "idle"
=============================================================================
