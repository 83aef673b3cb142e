----------------------------- MODULE MCReconcile -----------------------------
(***************************************************************************)
(* A small cluster and a small router for Reconcile.                       *)
(***************************************************************************)
EXTENDS Reconcile

CONSTANTS
    none, x, X, y, w,   \* names: none is the empty one, X another spelling of x, w a wildcard
    ip1, ip2, ip6,      \* addresses
    s1, s2,             \* sections the router may start with
    me, other           \* ownership IDs

MCName == {none, x, X, y, w}
MCCanon == [n \in MCName |-> IF n = X THEN x ELSE n]
MCWildcard == {w}
MCBadName == {w}
MCIPv4 == {ip1, ip2}
MCIPv6 == {ip6}
MCOwner == {NoOwner, me, other}
MCOtherType == {"AAAA"}

\* No change set but those that ExternalDNS posts.
MCChangeSet == {}

Ask(type, name, targets, extra) ==
    [DNSName |-> name, RecordType |-> type, Targets |-> targets, Extra |-> extra]

\* What a cluster may ask for: a name with several targets beside a record of each
\* kind that cannot be written; an alias in another spelling, with a TTL and a set
\* identifier; and aliases that form a loop.
MCTargets ==
    <<Ask("A", w, <<ip1>>, {}), Ask("A", x, <<ip1, ip2, ip6>>, {}), Ask("AAAA", y, <<ip6>>, {})>>
MCAlias == <<Ask("CNAME", X, <<y>>, {"ttl", "identifier"}), Ask("A", y, <<ip1>>, {"specific"})>>
MCLoop == <<Ask("CNAME", y, <<X>>, {"ttl", "specific"}), Ask("CNAME", x, <<y>>, {})>>

Held(type, name, value, owner) == [Type |-> type, Name |-> name, Value |-> value, Owner |-> owner]

Holding(a, b) == [s \in Section |-> CASE s = s1 -> a [] s = s2 -> b [] OTHER -> Absent]

\* The router before: a record of the provider's own that is there twice; an alias
\* of another instance's, and a section without a marker that can be adopted.
MCInitial ==
    { Holding(Held("A", X, ip1, me), Held("A", x, ip1, me)),
      Holding(Held("CNAME", X, y, other), Held("A", y, ip1, NoOwner)) }

\* Somebody else may delete a section, and write one with this provider's marker.
MCHandmade == {Absent, Held("A", y, ip1, me)}

MCDesired == {MCTargets, MCAlias, MCLoop}
=============================================================================
