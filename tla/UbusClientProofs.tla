--------------------------- MODULE UbusClientProofs ---------------------------
(***************************************************************************)
(* Proofs about UbusClient, for any number of goroutines, session ids and  *)
(* changes.                                                                *)
(***************************************************************************)
EXTENDS UbusClient, TLAPS

\* Where a caller holds the session it calls with.
Calls == {"call", "refused", "forget", "track"}

\* A login is made by the holder of mu, for a client that has no session, and a
\* call is made in a session.
LoginInv ==
    \A c \in Caller :
        /\ pc[c] = "logging in" => mu = c /\ session = NoSession
        /\ pc[c] \in Calls => mine[c] \in Session

\* What a session has staged ends with it, and an id is handed out afresh.
SessionInv == \A s \in Session : s \notin alive => delta[s] = {}

\* A client that is read through stages nothing, and a caller that is about to forget
\* a session has been refused with it.
ReaderInv ==
    writer = Nobody =>
        /\ \A c \in Caller : method[c] = "get" /\ pc[c] # "reset"
        /\ \A c \in Caller : pc[c] \in {"refused", "forget"} => mine[c] \in refused
        /\ NoLoginWasted

\* A client that is written through has one user.  Until a call of it fails, its
\* session holds what was issued, if rpcd still knows it, and staged is set if
\* anything was.
WriterInv ==
    writer # Nobody =>
        /\ \A c \in Caller \ {writer} : pc[c] = "idle"
        /\ pc[writer] \in Calls => mine[writer] = session /\ session # NoSession
        /\ pc[writer] = "forget" => ~ staged
        /\ pc[writer] = "track" /\ method[writer] = "apply" => issued = {}
        /\ pc[writer] # "reset" =>
              /\ session \in alive => delta[session] = issued
              /\ session = NoSession => issued = {}
              /\ issued # {} => staged \/ (pc[writer] = "track" /\ method[writer] = "set")

ClientInv == TypeOK /\ LoginInv /\ SessionInv /\ ReaderInv /\ WriterInv

LEMMA InitClient == Init => ClientInv
BY CallerAssumption, SessionAssumption
   DEF Init, ClientInv, TypeOK, LoginInv, SessionInv, ReaderInv, NoLoginWasted, WriterInv,
       Method, Calls

\* What a call does to the changes that are staged.
LEMMA PerformedStages ==
    ASSUME NEW m \in Method, NEW s \in Session, delta \in [Session -> SUBSET Change],
           Performed(m, s)
    PROVE  /\ delta' \in [Session -> SUBSET Change]
           /\ \A t \in Session \ {s} : delta'[t] = delta[t]
           /\ m = "get" => delta' = delta
           /\ m = "set" => delta[s] \subseteq delta'[s]
           /\ m = "apply" => delta'[s] = {}
BY DEF Performed, Method

-----------------------------------------------------------------------------
(* A call that fails.  Four actions end in it, and each of the invariants  *)
(* outlives it for the same reason in all of them.                         *)

\* It returns, or goes on with the Reset of a writer.
LEMMA FailEnds ==
    ASSUME TypeOK, NEW c \in Caller, Fail(c)
    PROVE  /\ pc' \in [Caller -> {"idle", "login", "logging in", "call", "refused", "forget",
                                  "track", "reset"}]
           /\ method' \in [Caller -> Method]
           /\ mine' \in [Caller -> Session \cup {NoSession}]
           /\ retried' \in [Caller -> BOOLEAN]
           /\ \A d \in Caller \ {c} :
                  pc'[d] = pc[d] /\ method'[d] = method[d] /\ mine'[d] = mine[d]
           /\ pc'[c] = IF c = writer THEN "reset" ELSE "idle"
           /\ method'[c] \in {"get", method[c]}
<1>1. CASE c = writer
  BY <1>1 DEF TypeOK, Fail, Goto
<1>2. CASE c # writer
  BY <1>2 DEF TypeOK, Fail, Return, Goto, Method
<1>3. QED
  BY <1>1, <1>2

LEMMA FailedKeepsLogin ==
    ASSUME TypeOK, LoginInv, NEW c \in Caller, Fail(c), session' = session,
           mu' = mu \/ (pc[c] = "logging in" /\ mu' = Nobody)
    PROVE  LoginInv'
<1>1. pc'[c] \notin Calls \cup {"logging in"}
  BY FailEnds DEF Calls
<1>2. ASSUME NEW d \in Caller \ {c}
      PROVE  /\ pc'[d] = "logging in" => mu' = d /\ session' = NoSession
             /\ pc'[d] \in Calls => mine'[d] \in Session
  <2>1. pc'[d] = pc[d] /\ mine'[d] = mine[d]
    BY <1>2, FailEnds
  <2>2. pc[d] = "logging in" => mu' = d
    BY <1>2 DEF LoginInv
  <2>3. QED
    BY <2>1, <2>2 DEF LoginInv
<1>3. QED
  BY <1>1, <1>2 DEF LoginInv

LEMMA FailedKeepsReader ==
    ASSUME TypeOK, ReaderInv, NEW c \in Caller, Fail(c), UNCHANGED <<writer, session>>,
           refused \subseteq refused', lost \subseteq lost', alive' \subseteq alive \cup lost'
    PROVE  ReaderInv'
<1> SUFFICES ASSUME writer = Nobody PROVE ReaderInv'
  BY DEF ReaderInv
<1>1. pc'[c] = "idle" /\ method'[c] = "get"
  BY CallerAssumption, FailEnds DEF ReaderInv
<1>2. ASSUME NEW d \in Caller \ {c}
      PROVE  /\ method'[d] = "get" /\ pc'[d] # "reset"
             /\ pc'[d] \in {"refused", "forget"} => mine'[d] \in refused'
  BY <1>2, FailEnds DEF ReaderInv
<1>3. NoLoginWasted'
  BY DEF ReaderInv, NoLoginWasted
<1>4. QED
  BY <1>1, <1>2, <1>3 DEF ReaderInv

LEMMA FailedKeepsWriter ==
    ASSUME TypeOK, WriterInv, NEW c \in Caller, Fail(c), pc[c] # "idle", UNCHANGED writer
    PROVE  WriterInv'
<1> SUFFICES ASSUME writer # Nobody PROVE WriterInv'
  BY DEF WriterInv
<1>1. c = writer /\ pc'[writer] = "reset"
  BY FailEnds DEF WriterInv
<1>2. \A d \in Caller \ {writer} : pc'[d] = "idle"
  BY <1>1, FailEnds DEF WriterInv
<1>3. QED
  BY <1>1, <1>2 DEF WriterInv, Calls

-----------------------------------------------------------------------------
LEMMA TypeStep == ClientInv /\ [Next]_vars => TypeOK'
<1> SUFFICES ASSUME ClientInv, [Next]_vars PROVE TypeOK'
  OBVIOUS
<1> USE CallerAssumption, SessionAssumption
    DEF ClientInv, TypeOK, Goto, Return, routerVars, observers, clientVars, callerVars, Method
<1>1. ASSUME NEW c \in Caller, NEW m \in Method, Call(c, m) PROVE TypeOK'
  BY <1>1 DEF Call
<1>2. ASSUME NEW c \in Caller, EnterLogin(c) PROVE TypeOK'
  <2>1. /\ pc' = [pc EXCEPT ![c] = "call"] \/ pc' = [pc EXCEPT ![c] = "logging in"]
        /\ mine' = mine \/ mine' = [mine EXCEPT ![c] = session]
        /\ mu' = mu \/ mu' = c
        /\ UNCHANGED <<writer, session, staged, method, retried, routerVars, observers>>
    BY <1>2, Zenon DEF EnterLogin
  <2>2. pc' \in [Caller -> {"idle", "login", "logging in", "call", "refused", "forget", "track",
                           "reset"}]
    BY <2>1
  <2>3. mine' \in [Caller -> Session \cup {NoSession}]
    BY <2>1
  <2>4. QED
    BY <2>1, <2>2, <2>3
<1>3. ASSUME NEW c \in Caller, IsStaged(c) PROVE TypeOK'
  <2>1. CASE Fail(c)
    BY <1>3, <2>1, FailEnds DEF IsStaged
  <2>2. CASE Goto(c, "forget") /\ UNCHANGED <<method, mine, retried>>
    BY <1>3, <2>2 DEF IsStaged
  <2>3. QED
    BY <1>3, <2>1, <2>2 DEF IsStaged
<1>4. ASSUME NEW c \in Caller, Forget(c) PROVE TypeOK'
  BY <1>4 DEF Forget
<1>5. ASSUME NEW c \in Caller, Track(c) PROVE TypeOK'
  BY <1>5 DEF Track
<1>6. ASSUME NEW c \in Caller, Reset(c) PROVE TypeOK'
  BY <1>6 DEF Reset
<1>7. ASSUME NEW c \in Caller, LoggedIn(c) PROVE TypeOK'
  <2>1. PICK s \in Session :
           /\ alive' = alive \cup {s} /\ session' = s /\ mine' = [mine EXCEPT ![c] = s]
           /\ refused' = refused \ {s} /\ lost' = lost \ {s} /\ delta' = delta
           /\ \A d \in Caller : mine[d] # s
    BY <1>7 DEF LoggedIn, Open
  <2>2. /\ pc[c] = "logging in" /\ pc' = [pc EXCEPT ![c] = "call"] /\ mu' = Nobody
        /\ UNCHANGED <<writer, staged, method, retried, issued>>
    BY <1>7 DEF LoggedIn
  <2>3. QED
    BY <2>1, <2>2
<1>8. ASSUME NEW c \in Caller, LoginFails(c) PROVE TypeOK'
  BY <1>8, FailEnds DEF LoginFails, Open
<1>9. ASSUME NEW c \in Caller, Answered(c) PROVE TypeOK'
  <2>1. mine[c] \in Session
    BY <1>9 DEF Answered, LoginInv, Calls
  <2>2. delta' \in [Session -> SUBSET Change]
    BY <1>9, <2>1, PerformedStages DEF Answered
  <2>3. issued' \subseteq Change
    BY <1>9, <2>1, <2>2 DEF Answered
  <2>4. QED
    BY <1>9, <2>2, <2>3 DEF Answered
<1>10. ASSUME NEW c \in Caller, NoData(c) PROVE TypeOK'
  BY <1>10 DEF NoData
<1>11. ASSUME NEW c \in Caller, CallFails(c) PROVE TypeOK'
  <2>1. CASE mine[c] \in alive /\ Performed(method[c], mine[c])
    <3>1. mine[c] \in Session /\ method[c] \in Method
      BY <2>1
    <3>2. delta' \in [Session -> SUBSET Change]
      BY <2>1, <3>1, PerformedStages
    <3>3. QED
      BY <1>11, <3>2, FailEnds DEF CallFails
  <2>2. CASE UNCHANGED delta
    BY <1>11, <2>2, FailEnds DEF CallFails
  <2>3. QED
    BY <1>11, <2>1, <2>2 DEF CallFails
<1>12. ASSUME NEW c \in Caller, Refused(c) PROVE TypeOK'
  <2>1. mine[c] \in Session
    BY <1>12 DEF Refused, LoginInv, Calls
  <2>2. CASE Fail(c)
    BY <1>12, <2>1, <2>2, FailEnds DEF Refused
  <2>3. CASE Goto(c, "refused") /\ UNCHANGED <<method, mine, retried>>
    BY <1>12, <2>1, <2>3 DEF Refused
  <2>4. QED
    BY <1>12, <2>2, <2>3 DEF Refused
<1>13. CASE Expire
  BY <1>13 DEF Expire
<1>14. CASE UNCHANGED vars
  BY <1>14 DEF vars
<1> HIDE DEF ClientInv, TypeOK, Goto, Return, routerVars, observers, clientVars, callerVars, Method
<1>15. QED
  BY <1>1, <1>2, <1>3, <1>4, <1>5, <1>6, <1>7, <1>8, <1>9, <1>10, <1>11, <1>12, <1>13, <1>14
  DEF Next, Locking, Answering

LEMMA LoginStep == ClientInv /\ [Next]_vars => LoginInv'
<1> SUFFICES ASSUME ClientInv, [Next]_vars PROVE LoginInv'
  OBVIOUS
<1> USE CallerAssumption, SessionAssumption
    DEF ClientInv, TypeOK, Goto, Return, routerVars, observers, clientVars, callerVars,
        LoginInv, Calls, Method
<1>1. ASSUME NEW c \in Caller, NEW m \in Method, Call(c, m) PROVE LoginInv'
  BY <1>1 DEF Call
<1>2. ASSUME NEW c \in Caller, EnterLogin(c) PROVE LoginInv'
  BY <1>2 DEF EnterLogin
<1>3. ASSUME NEW c \in Caller, IsStaged(c) PROVE LoginInv'
  <2>1. CASE Fail(c)
    BY <1>3, <2>1, FailedKeepsLogin DEF IsStaged
  <2>2. CASE Goto(c, "forget") /\ UNCHANGED <<method, mine, retried>>
    BY <1>3, <2>2 DEF IsStaged
  <2>3. QED
    BY <1>3, <2>1, <2>2 DEF IsStaged
<1>4. ASSUME NEW c \in Caller, Forget(c) PROVE LoginInv'
  BY <1>4 DEF Forget
<1>5. ASSUME NEW c \in Caller, Track(c) PROVE LoginInv'
  BY <1>5 DEF Track
<1>6. ASSUME NEW c \in Caller, Reset(c) PROVE LoginInv'
  BY <1>6 DEF Reset
<1>7. ASSUME NEW c \in Caller, LoggedIn(c) PROVE LoginInv'
  BY <1>7 DEF LoggedIn, Open
<1>8. ASSUME NEW c \in Caller, LoginFails(c) PROVE LoginInv'
  BY <1>8, FailedKeepsLogin DEF LoginFails, Open
<1>9. ASSUME NEW c \in Caller, Answered(c) PROVE LoginInv'
  BY <1>9 DEF Answered
<1>10. ASSUME NEW c \in Caller, NoData(c) PROVE LoginInv'
  BY <1>10 DEF NoData
<1>11. ASSUME NEW c \in Caller, CallFails(c) PROVE LoginInv'
  BY <1>11, FailedKeepsLogin DEF CallFails
<1>12. ASSUME NEW c \in Caller, Refused(c) PROVE LoginInv'
  <2>1. CASE Fail(c)
    BY <1>12, <2>1, FailedKeepsLogin DEF Refused
  <2>2. CASE Goto(c, "refused") /\ UNCHANGED <<method, mine, retried>>
    BY <1>12, <2>2 DEF Refused
  <2>3. QED
    BY <1>12, <2>1, <2>2 DEF Refused
<1>13. CASE Expire
  BY <1>13 DEF Expire
<1>14. CASE UNCHANGED vars
  BY <1>14 DEF vars
<1> HIDE DEF ClientInv, TypeOK, Goto, Return, routerVars, observers, clientVars, callerVars,
             LoginInv, Calls, Method
<1>15. QED
  BY <1>1, <1>2, <1>3, <1>4, <1>5, <1>6, <1>7, <1>8, <1>9, <1>10, <1>11, <1>12, <1>13, <1>14
  DEF Next, Locking, Answering

LEMMA SessionStep == ClientInv /\ [Next]_vars => SessionInv'
<1> SUFFICES ASSUME ClientInv, [Next]_vars PROVE SessionInv'
  OBVIOUS
<1> USE CallerAssumption, SessionAssumption
    DEF ClientInv, TypeOK, Goto, Return, routerVars, observers, clientVars, callerVars,
        SessionInv, Method
<1>1. ASSUME NEW c \in Caller, NEW m \in Method, Call(c, m) PROVE SessionInv'
  BY <1>1 DEF Call
<1>2. ASSUME NEW c \in Caller, EnterLogin(c) PROVE SessionInv'
  BY <1>2 DEF EnterLogin
<1>3. ASSUME NEW c \in Caller, IsStaged(c) PROVE SessionInv'
  BY <1>3 DEF IsStaged
<1>4. ASSUME NEW c \in Caller, Forget(c) PROVE SessionInv'
  BY <1>4 DEF Forget
<1>5. ASSUME NEW c \in Caller, Track(c) PROVE SessionInv'
  BY <1>5 DEF Track
<1>6. ASSUME NEW c \in Caller, Reset(c) PROVE SessionInv'
  BY <1>6 DEF Reset
<1>7. ASSUME NEW c \in Caller, LoggedIn(c) PROVE SessionInv'
  BY <1>7 DEF LoggedIn, Open
<1>8. ASSUME NEW c \in Caller, LoginFails(c) PROVE SessionInv'
  BY <1>8 DEF LoginFails, Open
<1>9. ASSUME NEW c \in Caller, Answered(c) PROVE SessionInv'
  BY <1>9 DEF Answered, Performed
<1>10. ASSUME NEW c \in Caller, NoData(c) PROVE SessionInv'
  BY <1>10 DEF NoData
<1>11. ASSUME NEW c \in Caller, CallFails(c) PROVE SessionInv'
  BY <1>11 DEF CallFails, Performed
<1>12. ASSUME NEW c \in Caller, Refused(c) PROVE SessionInv'
  BY <1>12 DEF Refused
<1>13. CASE Expire
  BY <1>13 DEF Expire
<1>14. CASE UNCHANGED vars
  BY <1>14 DEF vars
<1> HIDE DEF ClientInv, TypeOK, Goto, Return, routerVars, observers, clientVars, callerVars,
             SessionInv, Method
<1>15. QED
  BY <1>1, <1>2, <1>3, <1>4, <1>5, <1>6, <1>7, <1>8, <1>9, <1>10, <1>11, <1>12, <1>13, <1>14
  DEF Next, Locking, Answering

LEMMA ReaderStep == ClientInv /\ [Next]_vars => ReaderInv'
<1> SUFFICES ASSUME ClientInv, [Next]_vars PROVE ReaderInv'
  OBVIOUS
<1> USE CallerAssumption, SessionAssumption
    DEF ClientInv, TypeOK, Goto, Return, routerVars, observers, clientVars, callerVars,
        LoginInv, ReaderInv, NoLoginWasted, Method
<1>1. ASSUME NEW c \in Caller, NEW m \in Method, Call(c, m) PROVE ReaderInv'
  BY <1>1 DEF Call
<1>2. ASSUME NEW c \in Caller, EnterLogin(c) PROVE ReaderInv'
  BY <1>2 DEF EnterLogin
<1>3. ASSUME NEW c \in Caller, IsStaged(c) PROVE ReaderInv'
  <2>1. CASE Fail(c)
    BY <1>3, <2>1, FailedKeepsReader DEF IsStaged
  <2>2. CASE Goto(c, "forget") /\ UNCHANGED <<method, mine, retried>>
    BY <1>3, <2>2 DEF IsStaged
  <2>3. QED
    BY <1>3, <2>1, <2>2 DEF IsStaged
<1>4. ASSUME NEW c \in Caller, Forget(c) PROVE ReaderInv'
  <2>1. /\ pc' = [pc EXCEPT ![c] = "login"]
        /\ UNCHANGED <<writer, method, mine, alive, refused, lost>>
    BY <1>4 DEF Forget
  <2>2. writer = Nobody => alive \ {session'} \subseteq refused \cup lost
    <3>1. pc[c] = "forget" /\ (session' = session \/ session = mine[c])
      BY <1>4 DEF Forget
    <3>2. writer = Nobody => mine[c] \in refused
      BY <3>1
    <3>3. ASSUME writer = Nobody, NEW s \in alive \ {session'} PROVE s \in refused \cup lost
      <4>1. s = session => s \in refused
        BY <3>1, <3>2, <3>3
      <4>2. s # session => s \in refused \cup lost
        BY <3>3
      <4>3. QED
        BY <4>1, <4>2
    <3>4. QED
      BY <3>3
  <2>3. QED
    BY <2>1, <2>2
<1>5. ASSUME NEW c \in Caller, Track(c) PROVE ReaderInv'
  <2>1. Return(c) /\ UNCHANGED <<writer, session, alive, refused, lost>>
    BY <1>5 DEF Track
  <2>2. QED
    BY <2>1
<1>6. ASSUME NEW c \in Caller, Reset(c) PROVE ReaderInv'
  BY <1>6 DEF Reset
<1>7. ASSUME NEW c \in Caller, LoggedIn(c) PROVE ReaderInv'
  <2>1. PICK s \in Session :
           /\ alive' = alive \cup {s} /\ session' = s /\ mine' = [mine EXCEPT ![c] = s]
           /\ refused' = refused \ {s} /\ lost' = lost \ {s} /\ delta' = delta
           /\ \A d \in Caller : mine[d] # s
    BY <1>7 DEF LoggedIn, Open
  <2>2. /\ pc[c] = "logging in" /\ pc' = [pc EXCEPT ![c] = "call"] /\ mu' = Nobody
        /\ UNCHANGED <<writer, staged, method, retried, issued>>
    BY <1>7 DEF LoggedIn
  <2>3. ASSUME writer = Nobody, NEW d \in Caller, pc'[d] \in {"refused", "forget"}
        PROVE  mine'[d] \in refused'
    BY <2>1, <2>2, <2>3
  <2>4. session = NoSession
    BY <2>2
  <2>5. writer = Nobody => alive' \ {session'} \subseteq refused' \cup lost'
    <3>1. writer = Nobody => alive \subseteq refused \cup lost
      BY <2>4
    <3>2. QED
      BY <2>1, <3>1
  <2>6. writer = Nobody => \A d \in Caller : method'[d] = "get" /\ pc'[d] # "reset"
    BY <2>2
  <2>7. QED
    BY <2>2, <2>3, <2>5, <2>6
<1>8. ASSUME NEW c \in Caller, LoginFails(c) PROVE ReaderInv'
  BY <1>8, FailedKeepsReader DEF LoginFails, Open
<1>9. ASSUME NEW c \in Caller, Answered(c) PROVE ReaderInv'
  BY <1>9 DEF Answered, Performed
<1>10. ASSUME NEW c \in Caller, NoData(c) PROVE ReaderInv'
  BY <1>10 DEF NoData
<1>11. ASSUME NEW c \in Caller, CallFails(c) PROVE ReaderInv'
  BY <1>11, FailedKeepsReader DEF CallFails
<1>12. ASSUME NEW c \in Caller, Refused(c) PROVE ReaderInv'
  <2>1. CASE Fail(c)
    BY <1>12, <2>1, FailedKeepsReader DEF Refused
  <2>2. CASE Goto(c, "refused") /\ UNCHANGED <<method, mine, retried>>
    BY <1>12, <2>2 DEF Refused
  <2>3. QED
    BY <1>12, <2>1, <2>2 DEF Refused
<1>13. CASE Expire
  BY <1>13 DEF Expire
<1>14. CASE UNCHANGED vars
  BY <1>14 DEF vars
<1> HIDE DEF ClientInv, TypeOK, Goto, Return, routerVars, observers, clientVars, callerVars,
             LoginInv, ReaderInv, NoLoginWasted, Method
<1>15. QED
  BY <1>1, <1>2, <1>3, <1>4, <1>5, <1>6, <1>7, <1>8, <1>9, <1>10, <1>11, <1>12, <1>13, <1>14
  DEF Next, Locking, Answering

LEMMA WriterStep == ClientInv /\ [Next]_vars => WriterInv'
<1> SUFFICES ASSUME ClientInv, [Next]_vars PROVE WriterInv'
  OBVIOUS
<1> USE CallerAssumption, SessionAssumption
    DEF ClientInv, TypeOK, Goto, Return, routerVars, observers, clientVars, callerVars,
        LoginInv, SessionInv, WriterInv, Calls, Method
<1>1. ASSUME NEW c \in Caller, NEW m \in Method, Call(c, m) PROVE WriterInv'
  BY <1>1 DEF Call
<1>2. ASSUME NEW c \in Caller, EnterLogin(c) PROVE WriterInv'
  BY <1>2 DEF EnterLogin
<1>3. ASSUME NEW c \in Caller, IsStaged(c) PROVE WriterInv'
  <2>1. CASE Fail(c)
    <3>1. pc[c] # "idle" /\ UNCHANGED writer
      BY <1>3 DEF IsStaged
    <3>2. QED
      BY <2>1, <3>1, FailedKeepsWriter
  <2>2. CASE Goto(c, "forget") /\ UNCHANGED <<method, mine, retried>>
    <3> SUFFICES ASSUME writer # Nobody PROVE WriterInv'
      BY <1>3 DEF IsStaged
    <3>1. pc[c] = "refused" /\ UNCHANGED <<clientVars, routerVars, observers>>
      BY <1>3 DEF IsStaged
    <3>2. c = writer /\ mine[writer] = session
      BY <3>1
    <3>3. ~ staged
      <4>1. CASE session = mine[c] /\ staged
        BY <1>3, <2>2, <3>1, <3>2, <4>1 DEF IsStaged, Fail
      <4>2. QED
        BY <3>2, <4>1
    <3>4. pc'[writer] = "forget" /\ \A d \in Caller \ {writer} : pc'[d] = pc[d]
      BY <2>2, <3>2
    <3>5. QED
      BY <2>2, <3>1, <3>2, <3>3, <3>4
  <2>3. QED
    BY <1>3, <2>1, <2>2 DEF IsStaged
<1>4. ASSUME NEW c \in Caller, Forget(c) PROVE WriterInv'
  BY <1>4 DEF Forget
<1>5. ASSUME NEW c \in Caller, Track(c) PROVE WriterInv'
  <2>1. /\ pc[c] = "track" /\ Return(c)
        /\ UNCHANGED <<writer, session, alive, delta, issued>>
    BY <1>5 DEF Track
  <2>2. writer # Nobody => c = writer /\ session = mine[c]
    BY <2>1
  <2>3. session = mine[c] /\ method[c] = "set" => staged'
    BY <1>5, Zenon DEF Track
  <2>4. method[c] = "get" /\ staged => staged'
    BY <1>5, Zenon DEF Track
  <2>5. writer # Nobody => WriterInv'
    <3> SUFFICES ASSUME writer # Nobody PROVE WriterInv'
      OBVIOUS
    <3>1. pc' = [pc EXCEPT ![writer] = "idle"] /\ pc'[writer] = "idle"
      BY <2>1, <2>2
    <3>2. issued # {} => staged'
      BY <2>1, <2>2, <2>3, <2>4
    <3>3. QED
      BY <2>1, <2>2, <3>1, <3>2
  <2>6. QED
    BY <2>1, <2>5
<1>6. ASSUME NEW c \in Caller, Reset(c) PROVE WriterInv'
  BY <1>6 DEF Reset
<1>7. ASSUME NEW c \in Caller, LoggedIn(c) PROVE WriterInv'
  BY <1>7 DEF LoggedIn, Open
<1>8. ASSUME NEW c \in Caller, LoginFails(c) PROVE WriterInv'
  BY <1>8, FailedKeepsWriter DEF LoginFails, Open
<1>9. ASSUME NEW c \in Caller, Answered(c) PROVE WriterInv'
  BY <1>9 DEF Answered, Performed
<1>10. ASSUME NEW c \in Caller, NoData(c) PROVE WriterInv'
  BY <1>10 DEF NoData
<1>11. ASSUME NEW c \in Caller, CallFails(c) PROVE WriterInv'
  BY <1>11, FailedKeepsWriter DEF CallFails
<1>12. ASSUME NEW c \in Caller, Refused(c) PROVE WriterInv'
  <2>1. CASE Fail(c)
    BY <1>12, <2>1, FailedKeepsWriter DEF Refused
  <2>2. CASE Goto(c, "refused") /\ UNCHANGED <<method, mine, retried>>
    BY <1>12, <2>2 DEF Refused
  <2>3. QED
    BY <1>12, <2>1, <2>2 DEF Refused
<1>13. CASE Expire
  BY <1>13 DEF Expire
<1>14. CASE UNCHANGED vars
  BY <1>14 DEF vars
<1> HIDE DEF ClientInv, TypeOK, Goto, Return, routerVars, observers, clientVars, callerVars,
             LoginInv, SessionInv, WriterInv, Calls, Method
<1>15. QED
  BY <1>1, <1>2, <1>3, <1>4, <1>5, <1>6, <1>7, <1>8, <1>9, <1>10, <1>11, <1>12, <1>13, <1>14
  DEF Next, Locking, Answering

LEMMA ClientAlways == Spec => []ClientInv
<1>1. Init => ClientInv
  BY InitClient
<1>2. ClientInv /\ [Next]_vars => ClientInv'
  BY TypeStep, LoginStep, SessionStep, ReaderStep, WriterStep DEF ClientInv
<1>3. QED
  BY <1>1, <1>2, PTL DEF Spec

-----------------------------------------------------------------------------
\* Every variable of the client, of its callers and of rpcd keeps its type.
THEOREM ClientTypes == Spec => []TypeOK
<1>1. ClientInv => TypeOK
  BY DEF ClientInv
<1>2. QED
  BY <1>1, ClientAlways, PTL

\* However many calls share the client, a session is opened in vain only if a
\* caller was refused with it or its login was not heard of.
THEOREM LoginsAreShared == Spec => []NoLoginWasted
<1>1. ClientInv => NoLoginWasted
  BY DEF ClientInv, ReaderInv, NoLoginWasted
<1>2. QED
  BY <1>1, ClientAlways, PTL

\* An apply that reaches rpcd commits what its caller has staged and not given up,
\* whatever happened to the session in between.
THEOREM ApplyIsWhole == Spec => []AppliesWhatWasStaged
<1>1. ASSUME ClientInv PROVE AppliesWhatWasStaged
  <2>1. SUFFICES ASSUME NEW c \in Caller, pc[c] = "call", method[c] = "apply",
                        mine[c] \in alive
                 PROVE  delta[mine[c]] = issued
    BY DEF AppliesWhatWasStaged
  <2>2. c = writer
    BY <1>1, <2>1 DEF ClientInv, TypeOK, ReaderInv, WriterInv
  <2>3. writer # Nobody
    BY <2>2, CallerAssumption
  <2>4. QED
    BY <1>1, <2>1, <2>2, <2>3 DEF ClientInv, WriterInv, Calls
<1>2. QED
  BY <1>1, ClientAlways, PTL

\* A session with changes staged is never taken for one without.
THEOREM StagedIsKnown == Spec => []StagedNeverMissed
<1>1. ClientInv => StagedNeverMissed
  BY DEF ClientInv, WriterInv, StagedNeverMissed
<1>2. QED
  BY <1>1, ClientAlways, PTL

=============================================================================
