----------------------------- MODULE CnameLoop -----------------------------
(***************************************************************************)
(* The search of closesCNAMELoop in pkg/openwrt/index.go, against what     *)
(* OpenWrt takes it to decide: whether the CNAMEs of an index lead from a  *)
(* target to an alias.                                                     *)
(*                                                                         *)
(* The names still to look at are a stack in the code.  A name's CNAMEs    *)
(* are pushed in the order of a Go map and a name seen before is passed    *)
(* over, so the stack is a set here and the next name any of it.           *)
(***************************************************************************)
EXTENDS SectionIndex

CONSTANT Index    \* the indexes the search may be called on

ASSUME IndexAssumption ==
    /\ Index \subseteq Config
    /\ \A index \in Index, s \in Section :
           index[s] # Absent => Canonical(index[s]) = index[s]

VARIABLES index, alias, target,   \* the receiver and the parameters
          next, seen,             \* names to look at, and names looked at
          result

vars == <<index, alias, target, next, seen, result>>

TypeOK ==
    /\ index \in Index
    /\ alias \in Name /\ target \in Name
    /\ next \subseteq Name /\ seen \subseteq Name
    /\ result \in {"none", "true", "false"}

Init ==
    /\ index \in Index
    /\ alias \in Name /\ target \in Name
    /\ next = {Canon[target]} /\ seen = {}
    /\ result = "none"

\* Mutant: where the first CNAME of a name leads is where the search goes.
FirstTarget(name) ==
    LET targets == {index[s].Value : s \in named(index, "CNAME", name)}
    IN  IF targets = {} THEN {} ELSE {CHOOSE value \in targets : TRUE}

Targets(name) == {index[s].Value : s \in named(index, "CNAME", name)}

\* The name popped is the alias.
Found ==
    /\ result = "none"
    /\ Canon[alias] \in next
    /\ result' = "true"
    /\ next' = next \ {Canon[alias]}
    /\ UNCHANGED <<index, alias, target, seen>>

PassOver ==
    /\ result = "none"
    /\ \E name \in next : name # Canon[alias] /\ name \in seen /\ next' = next \ {name}
    /\ UNCHANGED <<index, alias, target, seen, result>>

\* Mutant: a name is followed as often as it is met.
FollowAgain ==
    /\ result = "none"
    /\ \E name \in next :
           /\ name # Canon[alias]
           /\ seen' = seen \cup {name}
           /\ next' = (next \ {name}) \cup Targets(name)
    /\ UNCHANGED <<index, alias, target, result>>

Follow ==
    /\ result = "none"
    /\ \E name \in next :
           /\ name # Canon[alias] /\ name \notin seen
           /\ seen' = seen \cup {name}
           /\ next' = (next \ {name}) \cup Targets(name)
    /\ UNCHANGED <<index, alias, target, result>>

Exhausted ==
    /\ result = "none"
    /\ next = {}
    /\ result' = "false"
    /\ UNCHANGED <<index, alias, target, next, seen>>

Next == Found \/ PassOver \/ Follow \/ Exhausted

\* It is a loop of the goroutine that runs it.
Spec == Init /\ [][Next]_vars /\ WF_vars(Next)

-----------------------------------------------------------------------------
\* The search answers yes exactly when the CNAMEs lead from the target back to
\* the alias: no CNAME that closes a loop is written and none is refused
\* without need, on an index with loops and with two CNAMEs for an alias too
\* (index.go:65-85).
AnswersRight ==
    result # "none" => (result = "true" <=> closesCNAMELoop(index, alias, target))

\* It ends, on an index that holds a loop already too: what it has seen it does
\* not follow again (index.go:76-79).
Ends == <>(result # "none")
=============================================================================
