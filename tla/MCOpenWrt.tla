----------------------------- MODULE MCOpenWrt -----------------------------
(***************************************************************************)
(* A small router for OpenWrt: three names, one of them in two spellings,  *)
(* and a change set for every case the code tells apart.                   *)
(***************************************************************************)
EXTENDS OpenWrt, TLC

CONSTANTS
    none, x, X, y, z,   \* names: none is the empty one, X another spelling of x
    ip1, ip6,           \* addresses
    s1, s2, s3,         \* sections the router may start with
    me, other           \* ownership IDs

MCName == {none, x, X, y, z}
MCCanon == [n \in MCName |-> IF n = X THEN x ELSE n]
MCIPv4 == {ip1}
MCIPv6 == {ip6}
MCOwner == {NoOwner, me, other}

Rec(type, name, value, owner) == [Type |-> type, Name |-> name, Value |-> value, Owner |-> owner]
CNAME(name, value) == Rec("CNAME", name, value, NoOwner)
A(name, value) == Rec("A", name, value, NoOwner)
By(owner, r) == [r EXCEPT !.Owner = owner]

\* Three sections hold these, in any order: section names are symmetric.
Holding(a, b, c) ==
    { [s \in Section |->
          CASE s = p[s1] -> a [] s = p[s2] -> b [] s = p[s3] -> c [] OTHER -> Absent] :
      p \in Permutations(Section) }

\* The router before the provider starts: empty; with a record of its own
\* twice and a section of another instance; with a chain of unmarked CNAMEs, one
\* in another spelling, and a section it takes no record from.
MCInitial ==
    {NoSections}
    \cup Holding(By(me, A(x, ip1)), By(me, A(x, ip1)), By(other, CNAME(y, z)))
    \cup Holding(CNAME(X, y), CNAME(y, z), A(x, ip6))

Ask(removals, additions) == [remove |-> removals, add |-> additions]

\* What the webhook may be sent: new records and gone ones, updates, one alias
\* twice, a loop closed at once or through the router, an A record and a CNAME
\* for one name, a record Validate refuses after one it takes, and nothing.
MCChangeSet ==
    { Ask(<<>>, <<A(X, ip1)>>),
      Ask(<<>>, <<CNAME(x, y), CNAME(x, z)>>),
      Ask(<<>>, <<CNAME(y, z), CNAME(z, y)>>),
      Ask(<<>>, <<CNAME(z, x)>>),
      Ask(<<>>, <<A(x, ip1), CNAME(X, y)>>),
      Ask(<<>>, <<CNAME(x, y), A(y, ip6)>>),
      Ask(<<A(x, ip1)>>, <<A(X, ip1)>>),
      Ask(<<A(x, ip1)>>, <<CNAME(x, y)>>),
      Ask(<<CNAME(X, y)>>, <<CNAME(x, z)>>),
      Ask(<<A(z, ip1), CNAME(x, y)>>, <<>>),
      Ask(<<>>, <<>>) }

\* Fewer change sets, for the runs with other writers.
MCFewChangeSets ==
    { Ask(<<A(x, ip1)>>, <<CNAME(x, z)>>),
      Ask(<<>>, <<A(x, ip1), CNAME(y, z)>>) }

MCEmpty == {NoSections}

\* The run with fairness has no symmetry, and starts with a record of the
\* provider's own and a CNAME of another instance.
MCArranged ==
    {[s \in Section |-> CASE s = s1 -> By(me, A(x, ip1)) [] s = s2 -> By(other, CNAME(y, z))
                          [] OTHER -> Absent]}

\* It leaves out what differs only in what is removed.
MCUnmarkedChangeSet ==
    MCChangeSet \ { Ask(<<>>, <<CNAME(y, z), CNAME(z, y)>>), Ask(<<A(x, ip1)>>, <<A(X, ip1)>>),
                    Ask(<<CNAME(X, y)>>, <<CNAME(x, z)>>) }

\* An unmarked section that another instance adopts.
MCUnmarked == {[s \in Section |-> IF s = s1 THEN A(x, ip1) ELSE Absent]}
MCAdopting == {By(other, A(x, ip1))}

\* A CNAME that another instance writes.
MCAliasing == {By(other, CNAME(y, x))}

MCSymmetry == Permutations(Session) \cup Permutations(Section)
=============================================================================
