------------------------------- MODULE OpenWrt -------------------------------
(***************************************************************************)
(* ApplyDNSRecords of pkg/openwrt/openwrt.go: one change set after         *)
(* another, run through the ubus client of pkg/ubus/ubus.go against rpcd.  *)
(*                                                                         *)
(* The webhook runs one change set at a time, so the goroutine that runs   *)
(* it is the only user of its client.  pc is where that goroutine is: in a *)
(* loop of ApplyDNSRecords, or waiting in client.Call for the router to    *)
(* answer.  Between any two of its steps the router may end a session and, *)
(* in SharedSpec, someone else may edit the sections.                      *)
(***************************************************************************)
EXTENDS Rpcd, Sequences

CONSTANTS
    Session,    \* session ids rpcd may hand out
    NoSession,  \* the client's empty session
    ChangeSet,  \* the change sets the webhook may be sent
    Initial,    \* what the router may hold at the start
    Handmade    \* what a person or another instance may write into a section

ASSUME SessionAssumption == NoSession \notin Session

ASSUME ChangeSetAssumption ==
    ChangeSet \subseteq [remove : Seq(DNSRecord), add : Seq(DNSRecord)]

ASSUME InitialAssumption == Initial \subseteq Config

ASSUME HandmadeAssumption == Handmade \subseteq DNSRecord \cup {Absent}

VARIABLES
    dhcp,      \* the committed sections
    alive,     \* the sessions rpcd knows
    delta,     \* what each session has staged
    session,   \* client.session
    staged,    \* client.staged
    retried,   \* whether Call is in its second login and call
    pc,        \* where ApplyDNSRecords is
    changes,   \* its parameters remove and add
    toRemove,  \* what its first loop has left
    toAdd,     \* what its second loop has left
    index,     \* its sectionIndex
    section,   \* the section the outstanding call names
    changed,   \* whether its counter `changed` is above zero
    skipped,   \* the records of its result `skipped`
    result,    \* what the last change set returned
    issued     \* observer: what this change set has staged, whatever the session

routerVars == <<dhcp, alive, delta>>
clientVars == <<session, staged, retried>>
localVars == <<changes, toRemove, toAdd, index, section, changed, skipped>>
vars == <<routerVars, clientVars, pc, localVars, result, issued>>

NoChanges == [remove |-> <<>>, add |-> <<>>]

\* The places where the goroutine waits for the router: uci get, delete, set,
\* add and apply.  In "removes" and "adds" it is between two turns of a loop.
Calling == {"get", "delete", "set", "create", "apply"}

TypeOK ==
    /\ dhcp \in Config
    /\ alive \subseteq Session
    /\ delta \in [Session -> Staging]
    /\ session \in Session \cup {NoSession}
    /\ staged \in BOOLEAN
    /\ retried \in BOOLEAN
    /\ pc \in Calling \cup {"idle", "removes", "adds"}
    /\ changes \in [remove : Seq(DNSRecord), add : Seq(DNSRecord)]
    /\ toRemove \in Seq(DNSRecord)
    /\ toAdd \in Seq(DNSRecord)
    /\ index \in Config
    /\ section \in Section \cup {Absent}
    /\ changed \in BOOLEAN
    /\ skipped \subseteq DNSRecord
    /\ result \in {"none", "ok", "error"}
    /\ issued \in Staging

Init ==
    /\ dhcp \in Initial
    /\ alive = {}
    /\ delta = [s \in Session |-> NothingStaged]
    /\ session = NoSession /\ staged = FALSE /\ retried = FALSE
    /\ pc = "idle"
    /\ changes = NoChanges /\ toRemove = <<>> /\ toAdd = <<>>
    /\ index = NoSections /\ section = Absent
    /\ changed = FALSE /\ skipped = {}
    /\ result = "none"
    /\ issued = NothingStaged

-----------------------------------------------------------------------------
(* Entering and leaving ApplyDNSRecords.                                   *)

\* The goroutine's variables go out of scope when it returns.
Return(r) ==
    /\ pc' = "idle"
    /\ changes' = NoChanges /\ toRemove' = <<>> /\ toAdd' = <<>>
    /\ index' = NoSections /\ section' = Absent
    /\ changed' = FALSE /\ skipped' = {}
    /\ result' = r
    /\ issued' = NothingStaged

\* Mutant: a failed change set leaves its session to the next one.
ResetNothing == UNCHANGED <<session, staged>> /\ retried' = FALSE

\* The deferred Reset, on every error: the client forgets the session.
Reset == session' = NoSession /\ staged' = FALSE /\ retried' = FALSE

Fail == Return("error") /\ Reset

ApplyDNSRecords(cs) ==
    /\ pc = "idle"
    /\ cs # NoChanges
    /\ pc' = "get"
    /\ changes' = cs /\ toRemove' = cs.remove /\ toAdd' = cs.add
    /\ result' = "none"
    /\ UNCHANGED <<routerVars, clientVars, index, section, changed, skipped, issued>>

\* Both lists empty: nothing is read and nothing is applied.
NothingAsked ==
    /\ pc = "idle"
    /\ NoChanges \in ChangeSet
    /\ Return("ok")
    /\ UNCHANGED <<routerVars, clientVars>>

-----------------------------------------------------------------------------
(* client.Call: log in, call, and once more in a fresh session.            *)

Login ==
    /\ pc \in Calling /\ session = NoSession
    /\ \E s \in Session \ alive :
           /\ session' = s
           /\ alive' = alive \cup {s}
           /\ delta' = [delta EXCEPT ![s] = NothingStaged]
    /\ UNCHANGED <<dhcp, staged, retried, pc, localVars, result, issued>>

LoginFails ==
    /\ pc \in Calling /\ session = NoSession
    /\ Fail
    /\ UNCHANGED routerVars

\* Mutant: a session with changes staged is replaced like any other.
DeniedWhileStaged ==
    /\ pc \in Calling /\ session # NoSession
    /\ IF retried
       THEN Fail
       ELSE /\ session' = NoSession /\ staged' = FALSE /\ retried' = TRUE
            /\ UNCHANGED <<pc, localVars, result, issued>>
    /\ UNCHANGED routerVars

\* Mutant: as many logins as there are denials.
DeniedForever ==
    /\ pc \in Calling /\ session # NoSession
    /\ IF staged
       THEN Fail
       ELSE /\ session' = NoSession /\ staged' = FALSE /\ retried' = TRUE
            /\ UNCHANGED <<pc, localVars, result, issued>>
    /\ UNCHANGED routerVars

\* Access denied: the session has expired, or the login lacks the ACL.  A
\* session with changes staged is not replaced, and neither is a second one.
Denied ==
    /\ pc \in Calling /\ session # NoSession
    /\ IF staged \/ retried
       THEN Fail
       ELSE /\ session' = NoSession /\ staged' = FALSE /\ retried' = TRUE
            /\ UNCHANGED <<pc, localVars, result, issued>>
    /\ UNCHANGED routerVars

\* The request is lost, or the router answers with an error: not found for a
\* section that is gone, a bad status, a body that does not decode.
CallFails ==
    /\ pc \in Calling /\ session # NoSession
    /\ Fail
    /\ UNCHANGED routerVars

\* The router can answer: it knows the session.
Answers == session \in alive

Seen == View(dhcp, delta[session])

\* The router stages a change to section s.
Stage(s, change) ==
    /\ delta' = [delta EXCEPT ![session][s] = change]
    /\ UNCHANGED <<dhcp, alive>>

\* track, after add, set and delete.
Tracked == staged' = TRUE /\ retried' = FALSE /\ UNCHANGED session

\* What the router does with each call that stages something.
StageDelete == Seen[section] # Absent /\ Stage(section, Delete)

\* A set of the value already there stages nothing.
StageSet ==
    /\ Seen[section] # Absent
    /\ IF Seen[section].Owner = OwnershipID
       THEN UNCHANGED routerVars
       ELSE Stage(section, SetOwner(OwnershipID))

NewSection == [Canonical(Head(toAdd)) EXCEPT !.Owner = OwnershipID]

\* Mutant: names are handed out from what is committed.
FreshCommitted(s) == dhcp[s] = Absent

\* rpcd adds a section under the random name it is given, which nobody has.
Fresh(s) == dhcp[s] = Absent /\ \A t \in Session : delta[t][s] = Keep

StageAdd(s) == Fresh(s) /\ Stage(s, AddSection(NewSection))

Commit ==
    /\ dhcp' = Seen
    /\ delta' = [delta EXCEPT ![session] = NothingStaged]
    /\ UNCHANGED alive

\* The router does what it is asked and the answer never arrives.
AnswerLost ==
    /\ pc \in Calling /\ session # NoSession /\ Answers
    /\ \/ pc = "delete" /\ StageDelete
       \/ pc = "set" /\ StageSet
       \/ pc = "create" /\ \E s \in Section : StageAdd(s)
       \/ pc = "apply" /\ delta[session] # NothingStaged /\ Commit
    /\ Fail

-----------------------------------------------------------------------------
(* The body of ApplyDNSRecords, with its calls answered.                   *)

\* readSections through the writing session, and newSectionIndex.
Read ==
    /\ pc = "get" /\ session # NoSession /\ Answers
    /\ index' = newSectionIndex(Seen)
    /\ pc' = "removes"
    /\ retried' = FALSE
    /\ UNCHANGED <<routerVars, session, staged, changes, toRemove, toAdd, section,
                   changed, skipped, result, issued>>

\* removeRecord: a call for every owned section of the record.
RemoveRecord ==
    /\ pc = "removes" /\ toRemove # <<>>
    /\ \E s \in owned(index, Key(Head(toRemove))) :
           section' = s
    /\ pc' = "delete"
    /\ UNCHANGED <<routerVars, clientVars, changes, toRemove, toAdd, index, changed,
                   skipped, result, issued>>

\* All of them are deleted, or there were none.
NextRemoval ==
    /\ pc = "removes" /\ toRemove # <<>>
    /\ owned(index, Key(Head(toRemove))) = {}
    /\ toRemove' = Tail(toRemove)
    /\ UNCHANGED <<routerVars, clientVars, pc, changes, toAdd, index, section,
                   changed, skipped, result, issued>>

Deleted ==
    /\ pc = "delete" /\ session # NoSession /\ Answers
    /\ StageDelete /\ Tracked
    /\ issued' = [issued EXCEPT ![section] = Delete]
    /\ index' = drop(index, section)
    /\ changed' = TRUE
    /\ pc' = "removes" /\ section' = Absent
    /\ UNCHANGED <<changes, toRemove, toAdd, skipped, result>>

RemovalsDone ==
    /\ pc = "removes" /\ toRemove = <<>>
    /\ pc' = "adds"
    /\ UNCHANGED <<routerVars, clientVars, localVars, result, issued>>

\* What addRecord decides for the record at hand, in its order.
Present(r) == owned(index, Key(r)) # {}

Adoptable(r) == ~ Present(r) /\ OwnershipEnabled /\ unowned(index, Key(r)) # {}

\* Mutants: addRecord without its check for loops, and without the one for an A
\* record and a CNAME of one name.
RefusedUnlessLoop(r) ==
    \/ r.Type = "CNAME" /\ \E type \in {"A", "CNAME"} : named(index, type, r.Name) # {}
    \/ r.Type = "A" /\ named(index, "CNAME", r.Name) # {}

RefusedUnlessHidden(r) ==
    /\ r.Type = "CNAME"
    /\ named(index, "CNAME", r.Name) # {} \/ closesCNAMELoop(index, r.Name, r.Value)

Refused(r) ==
    \/ /\ r.Type = "CNAME"
       /\ \/ named(index, "CNAME", r.Name) # {}
          \/ closesCNAMELoop(index, r.Name, r.Value)
          \/ named(index, "A", r.Name) # {}
    \/ r.Type = "A" /\ named(index, "CNAME", r.Name) # {}

Wanted == Head(toAdd)

Adding == pc = "adds" /\ toAdd # <<>>

InvalidRecord ==
    /\ Adding /\ ~ Validate(Wanted)
    /\ Fail
    /\ UNCHANGED routerVars

AlreadyPresent ==
    /\ Adding /\ Validate(Wanted) /\ Present(Wanted)
    /\ toAdd' = Tail(toAdd)
    /\ UNCHANGED <<routerVars, clientVars, pc, changes, toRemove, index, section,
                   changed, skipped, result, issued>>

AdoptRecord ==
    /\ Adding /\ Validate(Wanted) /\ Adoptable(Wanted)
    /\ \E s \in unowned(index, Key(Wanted)) : section' = s
    /\ pc' = "set"
    /\ UNCHANGED <<routerVars, clientVars, changes, toRemove, toAdd, index, changed,
                   skipped, result, issued>>

\* A record that is neither present nor to be adopted needs a section.
NeedsSection(r) == Validate(r) /\ ~ Present(r) /\ ~ Adoptable(r)

\* Mutant: nothing is reported as skipped.
SkipSilently ==
    /\ Adding /\ NeedsSection(Wanted) /\ Refused(Wanted)
    /\ toAdd' = Tail(toAdd)
    /\ UNCHANGED <<routerVars, clientVars, pc, changes, toRemove, index, section,
                   changed, skipped, result, issued>>

SkipRecord ==
    /\ Adding /\ NeedsSection(Wanted) /\ Refused(Wanted)
    /\ skipped' = skipped \cup {Wanted}
    /\ toAdd' = Tail(toAdd)
    /\ UNCHANGED <<routerVars, clientVars, pc, changes, toRemove, index, section,
                   changed, result, issued>>

CreateSection ==
    /\ Adding /\ NeedsSection(Wanted) /\ ~ Refused(Wanted)
    /\ pc' = "create"
    /\ UNCHANGED <<routerVars, clientVars, localVars, result, issued>>

Adopted ==
    /\ pc = "set" /\ session # NoSession /\ Answers
    /\ StageSet /\ Tracked
    /\ issued' = [issued EXCEPT ![section] = delta'[session][section]]
    /\ index' = markOwned(index, section, OwnershipID)
    /\ toAdd' = Tail(toAdd)
    /\ changed' = TRUE
    /\ pc' = "adds" /\ section' = Absent
    /\ UNCHANGED <<changes, toRemove, skipped, result>>

Created ==
    /\ pc = "create" /\ session # NoSession /\ Answers
    /\ \E s \in Section :
           /\ StageAdd(s)
           /\ issued' = [issued EXCEPT ![s] = AddSection(NewSection)]
           /\ index' = add(index, Head(toAdd), s, OwnershipID)
    /\ Tracked
    /\ toAdd' = Tail(toAdd)
    /\ changed' = TRUE
    /\ pc' = "adds"
    /\ UNCHANGED <<changes, toRemove, section, skipped, result>>

\* Nothing changed: the change set succeeds without an apply.
NothingChanged ==
    /\ pc = "adds" /\ toAdd = <<>> /\ ~ changed
    /\ Return("ok")
    /\ UNCHANGED <<routerVars, clientVars>>

\* Mutant: every change set is applied.
ApplyAnyway ==
    /\ pc = "adds" /\ toAdd = <<>>
    /\ pc' = "apply"
    /\ UNCHANGED <<routerVars, clientVars, localVars, result, issued>>

StartApply ==
    /\ pc = "adds" /\ toAdd = <<>> /\ changed
    /\ pc' = "apply"
    /\ UNCHANGED <<routerVars, clientVars, localVars, result, issued>>

\* ErrNoData, with nothing staged, counts as success, but Call returns it before
\* track: the client goes on taking its session for one with changes staged.
Applied ==
    /\ pc = "apply" /\ session # NoSession /\ Answers
    /\ IF delta[session] = NothingStaged
       THEN UNCHANGED <<routerVars, staged>>
       ELSE Commit /\ staged' = FALSE
    /\ retried' = FALSE /\ UNCHANGED session
    /\ Return("ok")

-----------------------------------------------------------------------------
(* The environment.                                                        *)

\* rpcd ends a session, by its timeout or by a restart.
Expire ==
    /\ \E s \in alive :
           /\ alive' = alive \ {s}
           /\ delta' = [delta EXCEPT ![s] = NothingStaged]
    /\ UNCHANGED <<dhcp, clientVars, pc, localVars, result, issued>>

\* The process is killed and started again, by a rollout or by a change set
\* that outlived the shutdown.  Its session stays behind, and what it staged
\* with it.
Restart ==
    /\ IF pc = "idle" THEN UNCHANGED <<pc, localVars, result, issued>> ELSE Return("error")
    /\ Reset
    /\ UNCHANGED routerVars

\* Somebody else commits a change to one section, LuCI, the command line or
\* another instance; a section they add has a name nobody has.
Edit ==
    /\ \E s \in Section, held \in Handmade :
           /\ held # dhcp[s] /\ (dhcp[s] = Absent => Fresh(s))
           /\ dhcp' = [dhcp EXCEPT ![s] = held]
    /\ UNCHANGED <<alive, delta, clientVars, pc, localVars, result, issued>>

\* The steps of the goroutine.
Step ==
    \/ Login \/ LoginFails \/ Denied \/ CallFails \/ AnswerLost
    \/ Read
    \/ RemoveRecord \/ NextRemoval \/ Deleted \/ RemovalsDone
    \/ InvalidRecord \/ AlreadyPresent \/ AdoptRecord \/ SkipRecord \/ CreateSection
    \/ Adopted \/ Created
    \/ NothingChanged \/ StartApply \/ Applied

Receive == NothingAsked \/ \E cs \in ChangeSet : ApplyDNSRecords(cs)

\* The provider is the only writer; rpcd may end any session, the pod may restart.
Next == Receive \/ Step \/ Expire \/ Restart

Spec == Init /\ [][Next]_vars

\* Every step is local or a request that answers or times out, so a goroutine
\* that can go on does.
FairSpec == Spec /\ WF_vars(Step)

\* Others write to the router too.
SharedSpec == Init /\ [][Next \/ Edit]_vars

-----------------------------------------------------------------------------
(* Properties.                                                             *)

Served == newSectionIndex(dhcp)

\* What DnsmasqStarts and NoneHidden assume of a router before the provider writes to it.
SafeAtStart ==
    \A config \in Initial :
        /\ Startable(newSectionIndex(config))
        /\ NothingHidden(newSectionIndex(config))

\* What the client's session has staged on the router is what the change set
\* at hand has staged, all of it and nothing else, and between change sets it
\* is nothing.  So an apply commits a change set whole or not at all, whatever
\* expired, was lost or failed before it (openwrt.go:175-182, ubus.go:167-172;
\* README.md:147: what a failed change set staged never reaches the router).
StagedIsIssued == session \in alive => delta[session] = issued

\* dnsmasq starts on what is committed: no alias has two CNAMEs and no CNAMEs
\* lead around in a loop (openwrt.go:281-297).
DnsmasqStarts == Startable(Served)

\* No name has both a CNAME and an A record the CNAME would hide
\* (openwrt.go:299-314).
NoneHidden == NothingHidden(Served)

\* The change sets as their caller sees them: whole, or not at all.
Contract == INSTANCE ChangeSets WITH busy <- pc # "idle"
Promise == Contract!Spec

\* dnsmasq is restarted only when it has to be: no apply for a change set the
\* router holds already, as after an answer that got lost
\* (openwrt.go:213-216, README.md:146).
AppliesOnlyIfNeeded ==
    pc = "apply" =>
        \/ ~ Contract!TakesEffect(dhcp, dhcp, changes)
        \/ Contract!Keys(Contract!Removals(changes))
               \cap Contract!Keys(Contract!Additions(changes)) # {}

\* A change set that succeeds reports as skipped exactly what the router does
\* not hold under this provider's ID: the status mirror shows nothing else as
\* a conflict (openwrt.go:202-211, 27-31).
SkippedIsMissing ==
    [][pc # "idle" /\ result' = "ok" =>
          skipped = {r \in Contract!Additions(changes) : owned(Served', Key(r)) = {}}]_vars

\* A change set leaves the sections of another instance as they are
\* (openwrt.go:231-232, README.md:292-293).
ForeignSectionsKept ==
    [][pc = "apply" /\ pc' = "idle" /\ OwnershipEnabled =>
          \A s \in Section :
              dhcp[s] # Absent /\ dhcp[s].Owner \notin {NoOwner, OwnershipID} =>
                  dhcp'[s] = dhcp[s]]_vars

\* A change set adds no CNAME for an alias that a section holds already,
\* whoever owns it (openwrt.go:281-288, README.md:299-302).
NoSecondCNAME ==
    [][pc = "apply" /\ pc' = "idle" /\ OneCNAMEPerAlias(Served) => OneCNAMEPerAlias(Served')]_vars

\* The router's file changes by a change set only in that sections are added,
\* deleted or marked: no section it adds takes the place of one that somebody else
\* has added meanwhile under the same name (openwrt.go:356-359).
AddsReplaceNothing ==
    [][\A s \in Section :
          pc = "apply" /\ pc' = "idle" /\ dhcp[s] # Absent /\ dhcp'[s] # Absent
              => dhcp'[s] = [dhcp[s] EXCEPT !.Owner = dhcp'[s].Owner]]_vars

\* Every change set returns, so the next one can run: no sequence of expired
\* sessions, denials and lost answers holds one forever (webhook.go:52-61,
\* ubus.go:161-179).
ChangeSetReturns == pc # "idle" ~> pc = "idle"
=============================================================================
