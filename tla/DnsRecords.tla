----------------------------- MODULE DnsRecords -----------------------------
(***************************************************************************)
(* The record type of pkg/openwrt/types.go and what the package decides    *)
(* about one record: its canonical form, its identity, and whether it may  *)
(* be written to the router.                                               *)
(*                                                                         *)
(* A spelling of a name is an element of Name; what CanonicalName makes of *)
(* it is the constant function Canon, so that two spellings of one name    *)
(* stay two values, as "NAS.lan." and "nas.lan" do.  The classes the code  *)
(* tells apart by looking at characters or by parsing are constant sets.   *)
(***************************************************************************)

CONSTANTS
    Name,      \* spellings of a DNS name
    NoName,    \* the empty string: an option that is missing or is a list
    Canon,     \* CanonicalName, a function on Name
    BadName,   \* canonical names dnsmasq cannot take, or longer than DNS allows
    IPv4,      \* values of a domain section that parse as an IPv4 address
    IPv6,      \* values that parse as any other address
    Owner,     \* values of the ownership option
    NoOwner    \* the empty string: a section without a marker

ASSUME NameAssumption ==
    /\ NoName \in Name
    /\ Canon \in [Name -> Name]
    /\ \A n \in Name : Canon[Canon[n]] = Canon[n]
    /\ Canon[NoName] = NoName
    /\ BadName \subseteq Name

ASSUME AddressAssumption == IPv4 \cap IPv6 = {} /\ NoName \notin IPv4

ASSUME OwnerAssumption == NoOwner \in Owner

Value == Name \cup IPv4 \cup IPv6

\* A DNSRecord is also what a UCI section holds: `domain` is A, `cname` CNAME.
\* A CNAME's value is a name whatever it looks like.
DNSRecord ==
    [Type : {"A"}, Name : Name, Value : Value, Owner : Owner]
        \cup [Type : {"CNAME"}, Name : Name, Value : Name, Owner : Owner]

\* Names are canonicalised, an address is a literal and stays as it is.
Canonical(r) ==
    [r EXCEPT !.Name = Canon[@],
              !.Value = IF r.Type = "CNAME" THEN Canon[@] ELSE @]

\* Type plus both sides of the mapping.
Key(r) == <<r.Type, Canon[r.Name], IF r.Type = "CNAME" THEN Canon[r.Value] ELSE r.Value>>

Writable(n) == Canon[n] # NoName /\ Canon[n] \notin BadName

Validate(r) ==
    /\ Writable(r.Name)
    /\ IF r.Type = "A" THEN r.Value \in IPv4 ELSE Writable(r.Value)

\* Whether parseSection takes a section for a record it can represent.
Represents(r) ==
    /\ r.Name # NoName /\ r.Value # NoName
    /\ ~ (r.Type = "A" /\ r.Value \in IPv6)
=============================================================================
