---------------------------- MODULE SectionIndex ----------------------------
(***************************************************************************)
(* The sectionIndex of pkg/openwrt/index.go: the snapshot of the router a  *)
(* change set decides against, updated as the change set goes on.          *)
(*                                                                         *)
(* The code keys the sections by record identity, in a slice per key.  A   *)
(* section holds one record, so the index is a function from section names *)
(* to what they hold, and the slice of a key is the set Matching(index,    *)
(* key).  The order in that slice is the order of a Go map, so whoever     *)
(* takes the first or loops over it takes any.                             *)
(***************************************************************************)
EXTENDS DnsRecords, FiniteSets

CONSTANTS
    Section,     \* names of UCI sections in `dhcp`
    Absent,      \* what a name no section has holds
    OwnershipID  \* this provider's ID, NoOwner with ownership disabled

ASSUME SectionAssumption == Absent \notin DNSRecord
\* There are only so many names a section can have.
ASSUME FiniteAssumption == IsFiniteSet(Section)
ASSUME OwnershipAssumption == OwnershipID \in Owner

\* What the router holds, and what an index holds.
Config == [Section -> DNSRecord \cup {Absent}]
NoSections == [s \in Section |-> Absent]

OwnershipEnabled == OwnershipID # NoOwner

\* Sections no record represents stay out of the index and are never touched.
parseSection(held) ==
    IF held # Absent /\ Represents(held) THEN Canonical(held) ELSE Absent

newSectionIndex(config) == [s \in Section |-> parseSection(config[s])]

Matching(index, key) == {s \in Section : index[s] # Absent /\ Key(index[s]) = key}

\* Mutant: the owner is not looked at.
ownedByAnyone(index, key) == Matching(index, key)

\* The sections of a key this provider may modify.
owned(index, key) ==
    {s \in Matching(index, key) : OwnershipEnabled => index[s].Owner = OwnershipID}

\* The candidates for adoption, of which firstUnowned takes one.
unowned(index, key) == {s \in Matching(index, key) : index[s].Owner = NoOwner}

named(index, type, name) ==
    {s \in Section : index[s] # Absent /\ index[s].Type = type /\ index[s].Name = Canon[name]}

\* The CNAMEs and the A records of an index.
Aliases(index) == {s \in Section : index[s] # Absent /\ index[s].Type = "CNAME"}
Addresses(index) == {s \in Section : index[s] # Absent /\ index[s].Type = "A"}

\* R is closed under following the CNAMEs of the index.
ClosedUnder(index, R) ==
    \A s \in Aliases(index) : index[s].Name \in R => index[s].Value \in R

\* alias is reached from target: it is in every closed set that holds target.
\* CnameLoop refines this to the search the code makes.
closesCNAMELoop(index, alias, target) ==
    \A R \in SUBSET Name :
        Canon[target] \in R /\ ClosedUnder(index, R) => Canon[alias] \in R

add(index, record, s, id) == [index EXCEPT ![s] = [Canonical(record) EXCEPT !.Owner = id]]

markOwned(index, s, id) == [index EXCEPT ![s].Owner = id]

\* Mutant: the section's name goes with what it holds.
dropName(index, s) == [t \in Section \ {s} |-> index[t]]

drop(index, s) == [index EXCEPT ![s] = Absent]

(***************************************************************************)
(* What dnsmasq needs of the sections it is started with, whoever wrote    *)
(* them: README, "Records that would stop dnsmasq".                        *)
(***************************************************************************)

OneCNAMEPerAlias(index) ==
    \A s, t \in Aliases(index) : index[s].Name = index[t].Name => s = t

\* A loop is a set of aliases each of which has a CNAME to one of them.
Loop(index, L) ==
    L # {} /\ \A n \in L : \E s \in Aliases(index) : index[s].Name = n /\ index[s].Value \in L

NoCNAMELoop(index) == \A L \in SUBSET Name : ~ Loop(index, L)

\* dnsmasq starts on this index.
Startable(index) == OneCNAMEPerAlias(index) /\ NoCNAMELoop(index)

\* dnsmasq answers a name that has a CNAME with the CNAME alone.
NothingHidden(index) ==
    \A s \in Aliases(index), t \in Addresses(index) : index[s].Name # index[t].Name
=============================================================================
