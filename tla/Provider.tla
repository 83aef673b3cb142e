------------------------------ MODULE Provider ------------------------------
(***************************************************************************)
(* internal/provider/provider.go: what ExternalDNS and the router have to  *)
(* say to each other, translated.  The translation keeps no state; its     *)
(* tracker is in Tracker.                                                  *)
(*                                                                         *)
(* An endpoint is a name with its targets, one UCI section each.  Lists of *)
(* endpoints are sequences, as the plan sends them; what Records reports   *)
(* is sorted by name and type, so it is a set, and the sorted targets of   *)
(* an endpoint are compared as bags.                                       *)
(***************************************************************************)
EXTENDS SectionIndex, SequencesExt

CONSTANTS
    Wildcard,      \* names that start with "*."
    OtherType      \* record types UCI has no section for

ASSUME WildcardAssumption == Wildcard \subseteq Name
ASSUME OtherTypeAssumption == OtherType \cap {"A", "CNAME"} = {}

\* What an endpoint may carry that no section holds.
Extra == {"identifier", "specific", "ttl"}

\* As of a DNSRecord: the targets of a CNAME are names, whatever they look like.
Endpoint ==
    [DNSName : Name, RecordType : {"A"} \cup OtherType, Targets : Seq(Value), Extra : SUBSET Extra]
        \cup [DNSName : Name, RecordType : {"CNAME"}, Targets : Seq(Name), Extra : SUBSET Extra]

Supported(ep) == ep.RecordType \in {"A", "CNAME"}

\* One record per target.
records(ep) ==
    [i \in DOMAIN ep.Targets |->
        [Type |-> ep.RecordType, Name |-> ep.DNSName, Value |-> ep.Targets[i], Owner |-> NoOwner]]

endpoints2DNSRecords(endpoints) ==
    FlattenSeq([i \in DOMAIN endpoints |->
                   IF Supported(endpoints[i]) THEN records(endpoints[i]) ELSE <<>>])

\* SelectSeq, in terms of what can be reasoned about: what a loop appends that goes
\* on with the elements that pass a test.
Passing(list, Test(_)) ==
    FlattenSeq([i \in DOMAIN list |-> IF Test(list[i]) THEN <<list[i]>> ELSE <<>>])

Count(key, list) == Cardinality({i \in DOMAIN list : Key(list[i]) = key})

\* Mutant: a key in both lists cancels out, however often it is in each.
cancelOutKeys(remove, add_) ==
    LET kept(list, other) == Passing(list, LAMBDA r : Count(Key(r), other) = 0)
    IN  [remove |-> kept(remove, add_), add |-> kept(add_, remove)]

\* A key counted differently in the two lists stays in both.
cancelOut(remove, add_) ==
    LET kept(list) == Passing(list, LAMBDA r : Count(Key(r), remove) # Count(Key(r), add_))
    IN  [remove |-> kept(remove), add |-> kept(add_)]

\* What a plan removes and adds, before ApplyChanges cancels out.
PlanRemoves(plan) == endpoints2DNSRecords(plan.Delete \o plan.UpdateOld)
PlanAdds(plan) == endpoints2DNSRecords(plan.Create \o plan.UpdateNew)

\* Why AdjustEndpoints drops an endpoint of a type it supports.
Rejected(ep) ==
    \/ ep.DNSName \in Wildcard
    \/ ep.RecordType = "CNAME" /\ Len(ep.Targets) > 1
    \/ \E i \in DOMAIN ep.Targets : ~ Validate(records(ep)[i])

\* What the router cannot hold is dropped.
Stripped(endpoints) == [i \in DOMAIN endpoints |-> [endpoints[i] EXCEPT !.Extra = {}]]

\* Mutant: what cannot be written is left to be refused when it is.
AdjustTypes(endpoints) == Passing(Stripped(endpoints), Supported)

AdjustEndpoints(endpoints) ==
    Passing(Stripped(endpoints), LAMBDA ep : Supported(ep) /\ ~ Rejected(ep))

\* GetDNSRecords: the sections this provider is responsible for.
Managed(config) ==
    LET index == newSectionIndex(config)
    IN  {s \in Section : index[s] # Absent /\ (OwnershipEnabled => index[s].Owner = OwnershipID)}

\* dnsRecords2Endpoints: sections of one name and type are one endpoint with
\* a target for each; a target in two sections is in it twice.
Records(config) ==
    LET index == newSectionIndex(config)
        alike(s, t) == index[t].Type = index[s].Type /\ index[t].Name = index[s].Name
        groups == {{t \in Managed(config) : alike(s, t)} : s \in Managed(config)}
        targets(group) ==
            LET order == SetToSeq(group) IN [i \in DOMAIN order |-> index[order[i]].Value]
    IN  {LET one == index[CHOOSE s \in group : TRUE]
         IN  [DNSName |-> one.Name, RecordType |-> one.Type, Targets |-> targets(group), Extra |-> {}]
         : group \in groups}
=============================================================================
