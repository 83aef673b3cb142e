---------------------------- MODULE MCCnameLoop ----------------------------
(***************************************************************************)
(* Every index of up to three CNAMEs among three names, two sections for   *)
(* one alias and loops included, and an A record that must not be taken    *)
(* for a CNAME.                                                            *)
(***************************************************************************)
EXTENDS CnameLoop

CONSTANTS none, x, X, y, z, ip1, me

MCName == {none, x, X, y, z}
MCCanon == [n \in MCName |-> IF n = X THEN x ELSE n]

CNAME(name, value) == [Type |-> "CNAME", Name |-> name, Value |-> value, Owner |-> me]

\* An edge of the graph of CNAMEs, and an A record named like one of its nodes.
MCHeld ==
    {Absent, [Type |-> "A", Name |-> x, Value |-> ip1, Owner |-> me]}
        \cup {CNAME(a, b) : a \in {x, y, z}, b \in {x, y, z}}

MCIndex == [Section -> MCHeld]
=============================================================================
