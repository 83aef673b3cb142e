------------------------------ MODULE Reconcile ------------------------------
(***************************************************************************)
(* The whole loop: ExternalDNS asks what the router holds, plans against   *)
(* what the cluster asks for, and posts a change set; the webhook runs the *)
(* change sets it was sent one at a time (pkg/webhook/webhook.go), each by *)
(* the steps of OpenWrt.                                                   *)
(*                                                                         *)
(* ExternalDNS gives up on a request that takes too long, exits and is     *)
(* started again.  The webhook does not: what it was sent runs all the     *)
(* same, so several change sets may wait for applyMu, most of them posted  *)
(* by a process that is gone and planned on a router that has changed.     *)
(***************************************************************************)
EXTENDS OpenWrt, ExternalDns

CONSTANTS
    Desired,     \* what the cluster may ask for, each a sequence of endpoints
    MaxTrouble   \* bound: how often something goes wrong before nothing does

ASSUME DesiredAssumption ==
    /\ Desired \subseteq Seq(Endpoint)
    /\ \A endpoints \in Desired : \A i, j \in DOMAIN endpoints :
           /\ Canon[endpoints[i].DNSName] = Canon[endpoints[j].DNSName] => i = j
           /\ IsInjective(endpoints[i].Targets)
ASSUME TroubleAssumption == MaxTrouble \in Nat

VARIABLES
    desired,   \* what the cluster asks for
    xdns,      \* where ExternalDNS is
    current,   \* what Records answered it
    waiting,   \* the change sets that wait for applyMu, and who posted them
    running,   \* who posted the one that has it
    trouble    \* how often something may still go wrong

loopVars == <<desired, xdns, current, waiting, running>>
allVars == <<vars, loopVars, trouble>>

\* Who posted a change set: the ExternalDNS that waits for it, or one that is gone.
Poster == {"waits", "gone"}

\* Types, and applyMu is held as long as its holder is in ApplyDNSRecords.
LoopTypeOK ==
    /\ desired \in Desired
    /\ xdns \in {"idle", "planning", "posted"}
    /\ \A ep \in current : ep \in Endpoint
    /\ waiting \in Seq([changes : [remove : Seq(DNSRecord), add : Seq(DNSRecord)], poster : Poster])
    /\ running \in Poster \cup {"nobody"}
    /\ running = "nobody" <=> pc = "idle"
    /\ trouble \in 0 .. MaxTrouble

LoopInit ==
    /\ Init
    /\ desired \in Desired
    /\ xdns = "idle" /\ current = {} /\ waiting = <<>> /\ running = "nobody"
    /\ trouble = MaxTrouble

-----------------------------------------------------------------------------
(* ExternalDNS                                                             *)

\* GET /records, which waits for no change set and, in a session of its own,
\* sees none that is not committed.
GetRecords ==
    /\ xdns = "idle"
    /\ current' = Records(dhcp)
    /\ xdns' = "planning"
    /\ UNCHANGED <<vars, desired, waiting, running, trouble>>

\* POST /adjustendpoints, and POST /records if there is anything to change.
Post ==
    /\ xdns = "planning"
    /\ current' = {}
    /\ \E asked \in {AdjustEndpoints(desired)} : \E plan \in {Plan(current, asked)} :
           IF plan = NoPlan
           THEN xdns' = "idle" /\ UNCHANGED waiting
           ELSE /\ xdns' = "posted"
                /\ \E remove \in {PlanRemoves(plan)}, added \in {PlanAdds(plan)} :
                       waiting' = Append(waiting, [changes |-> cancelOut(remove, added), poster |-> "waits"])
    /\ UNCHANGED <<vars, desired, running, trouble>>

-----------------------------------------------------------------------------
(* The webhook                                                             *)

\* applyMu is free and one of those that wait for it takes it.
Lock ==
    /\ running = "nobody"
    /\ \E i \in DOMAIN waiting :
           /\ IF waiting[i].changes = NoChanges
              THEN Return("ok") /\ UNCHANGED <<routerVars, clientVars>>
              ELSE ApplyDNSRecords(waiting[i].changes)
           /\ waiting' = RemoveAt(waiting, i)
           /\ IF pc' = "idle"
              THEN /\ running' = "nobody"
                   /\ xdns' = IF waiting[i].poster = "waits" THEN "idle" ELSE xdns
              ELSE running' = waiting[i].poster /\ UNCHANGED xdns
    /\ UNCHANGED <<desired, current, trouble>>

\* Mutant: applyMu is not given back after an error.
KeepsLock ==
    IF pc' = "idle" /\ result' = "ok"
    THEN running' = "nobody" /\ xdns' = IF running = "waits" THEN "idle" ELSE xdns
    ELSE UNCHANGED <<running, xdns>>

\* The change set returns: applyMu is given back and whoever waits is answered.
Answering ==
    IF pc' = "idle"
    THEN running' = "nobody" /\ xdns' = IF running = "waits" THEN "idle" ELSE xdns
    ELSE UNCHANGED <<running, xdns>>

\* What goes wrong, as long as something does.
Trouble ==
    \/ LoginFails \/ CallFails \/ AnswerLost
    \/ Denied /\ Answers

\* The router answers that the section to delete or to mark is gone.
SectionGone == CallFails /\ pc \in {"delete", "set"} /\ Answers /\ Seen[section] = Absent

Work ==
    \/ Login \/ (Denied /\ ~ Answers)
    \/ Read
    \/ RemoveRecord \/ NextRemoval \/ Deleted \/ RemovalsDone
    \/ InvalidRecord \/ AlreadyPresent \/ AdoptRecord \/ SkipRecord \/ CreateSection
    \/ Adopted \/ Created
    \/ NothingChanged \/ StartApply \/ Applied \/ SectionGone

Apply == Work /\ Answering /\ UNCHANGED <<desired, current, waiting, trouble>>

\* rpcd ends a session that nobody uses any more, and forgets what it staged.
AbandonedEnds ==
    /\ Expire
    /\ session \notin alive \ alive'
    /\ UNCHANGED <<loopVars, trouble>>

-----------------------------------------------------------------------------
(* What may go wrong, MaxTrouble times                                     *)

ApplyFails == Trouble /\ Answering /\ UNCHANGED <<desired, current, waiting>>

SessionEnds == Expire /\ session \in alive \ alive' /\ UNCHANGED loopVars

\* ExternalDNS has waited long enough, and is started again.
GiveUp ==
    /\ xdns = "posted"
    /\ xdns' = "idle"
    /\ waiting' = [i \in DOMAIN waiting |-> [waiting[i] EXCEPT !.poster = "gone"]]
    /\ running' = IF running = "nobody" THEN "nobody" ELSE "gone"
    /\ UNCHANGED <<vars, desired, current>>

\* The webhook restarts: what it was sent and has not finished is gone.
WebhookRestarts ==
    /\ Restart
    /\ waiting' = <<>> /\ running' = "nobody"
    /\ xdns' = IF xdns = "posted" THEN "idle" ELSE xdns
    /\ UNCHANGED <<desired, current>>

\* The cluster asks for something else.
DesiredChanges ==
    /\ desired' \in Desired \ {desired}
    /\ UNCHANGED <<vars, xdns, current, waiting, running>>

\* Somebody else writes, adds or deletes a section.
RouterEdited == Edit /\ UNCHANGED loopVars

Disturb ==
    /\ trouble > 0 /\ trouble' = trouble - 1
    /\ ApplyFails \/ SessionEnds \/ GiveUp \/ WebhookRestarts \/ DesiredChanges \/ RouterEdited

LoopNext == GetRecords \/ Post \/ Lock \/ Apply \/ AbandonedEnds \/ Disturb

LoopSpec == LoopInit /\ [][LoopNext]_allVars

\* ExternalDNS runs on a timer, a Go mutex lets no waiter starve, a request is
\* answered or times out, and rpcd ends sessions that are not used.
FairLoopSpec ==
    /\ LoopSpec
    /\ WF_allVars(GetRecords) /\ WF_allVars(Post) /\ WF_allVars(Lock) /\ WF_allVars(Apply)
    /\ WF_allVars(AbandonedEnds)

-----------------------------------------------------------------------------
\* A change set that comes from a plan holds no record Validate refuses, which
\* would fail everything planned with it on every retry (provider.go:68-83).
NeverJams == Adding => Validate(Wanted)

\* A router holds what the cluster asks for and this provider can represent:
\* every record in one section of this provider's or with something in its way,
\* and no other section is this provider's.
Holds(config, endpoints) ==
    LET wanted == ToSet(endpoints2DNSRecords(AdjustEndpoints(endpoints)))
        keys == {Key(r) : r \in wanted}
        held == newSectionIndex(config)
    IN  /\ \A r \in wanted :
               \/ Cardinality(owned(held, Key(r))) = 1
               \/ owned(held, Key(r)) = {} /\ Contract!InTheWay(held, r)
        /\ \A s \in Managed(config) : Key(held[s]) \in keys

Reconciled == Holds(dhcp, desired)

\* Once nothing goes wrong any more the router comes to hold what is asked for,
\* whatever failed, was repeated or was planned on a stale answer before, and
\* then nothing is applied any more: no change set undoes or repeats another
\* (provider.go:43-83, 159-163, 186-198; webhook.go:52-59).
Converges == <>[](Reconciled /\ pc # "apply")
=============================================================================
