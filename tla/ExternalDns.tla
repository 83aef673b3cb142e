----------------------------- MODULE ExternalDns -----------------------------
(***************************************************************************)
(* The plan of ExternalDNS, which is no part of the repository: external,  *)
(* modelled from what provider.go (lines 43-48, 66-83, 186-198) and        *)
(* types.go (46-54) say of it.                                             *)
(*                                                                         *)
(* A row of the plan is a normalised name and a set identifier.  The plan  *)
(* creates what is wanted and not there, deletes what is there and not     *)
(* wanted, and updates a record whose targets, TTL or provider-specific    *)
(* properties differ.  The cluster asks for one endpoint per name.         *)
(***************************************************************************)
EXTENDS Provider

NoPlan == [Create |-> <<>>, UpdateOld |-> <<>>, UpdateNew |-> <<>>, Delete |-> <<>>]

\* Targets are compared without regard to order or spelling, each as often as it is there.
SameTargets(a, b) ==
    LET keys(ep) == {Key(records(ep)[i]) : i \in DOMAIN ep.Targets}
    IN  \A key \in keys(a) \cup keys(b) : Count(key, records(a)) = Count(key, records(b))

SameRow(there, wanted) ==
    /\ Canon[there.DNSName] = Canon[wanted.DNSName]
    /\ there.RecordType = wanted.RecordType
    /\ "identifier" \notin wanted.Extra

Differ(there, wanted) ==
    ~ SameTargets(there, wanted) \/ wanted.Extra \cap {"specific", "ttl"} # {}

\* current is a set of endpoints, desired a sequence of them.  Of two current
\* ones in a row the plan keeps one.
Plan(current, desired) ==
    LET row(wanted) == {there \in current : SameRow(there, wanted)}
        kept(wanted) == CHOOSE there \in row(wanted) : TRUE
        outdated(wanted) == \E there \in row(wanted) : there = kept(wanted) /\ Differ(there, wanted)
        update == Passing(desired, outdated)
    IN  [Create |-> Passing(desired, LAMBDA wanted : row(wanted) = {}),
         UpdateOld |-> [i \in DOMAIN update |-> kept(update[i])],
         UpdateNew |-> update,
         Delete |-> SetToSeq({there \in current :
                                 \A i \in DOMAIN desired : ~ SameRow(there, desired[i])})]
=============================================================================
