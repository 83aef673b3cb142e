----------------------------- MODULE ChangeSets -----------------------------
(***************************************************************************)
(* What ApplyDNSRecords promises whoever calls it, with the router's       *)
(* sessions, the calls and the order of the work left out: a change set    *)
(* takes effect on the committed sections in one step and as a whole, or   *)
(* not at all, and it succeeds only once it has taken effect.              *)
(*                                                                         *)
(* The promises are those of the README (lines 133-148) and of the         *)
(* comments on ApplyDNSRecords and its helpers.  OpenWrt implements this   *)
(* specification as long as nobody else writes to the router.              *)
(***************************************************************************)
EXTENDS SectionIndex, Sequences

CONSTANTS ChangeSet, Initial

VARIABLES
    dhcp,     \* the committed sections
    busy,     \* whether a change set is running
    changes,  \* its parameters
    result    \* what the last one returned

vars == <<dhcp, busy, changes, result>>

NoChanges == [remove |-> <<>>, add |-> <<>>]

Elements(seq) == {seq[i] : i \in DOMAIN seq}

Removals(cs) == Elements(cs.remove)
Additions(cs) == Elements(cs.add)
Keys(records) == {Key(r) : r \in records}

\* Why a record is not written: what it would do to dnsmasq, next to what the
\* router holds.
InTheWay(index, r) ==
    IF r.Type = "A"
    THEN named(index, "CNAME", r.Name) # {}
    ELSE \/ named(index, "CNAME", r.Name) # {}
         \/ closesCNAMELoop(index, r.Name, r.Value)
         \/ named(index, "A", r.Name) # {}

\* It is there already, and nobody's.
CanAdopt(index, r) == OwnershipEnabled /\ unowned(index, Key(r)) # {}

\* Every record to remove that is not wanted back is gone.
Removed(after, cs) ==
    \A r \in Removals(cs) :
        Key(r) \notin Keys(Additions(cs)) => owned(after, Key(r)) = {}

\* Every record to add is there, under this provider's ID, or something is in
\* its way.  One that was to be removed as well is there once.
Added(after, cs) ==
    \A r \in Additions(cs) :
        /\ Validate(r)
        /\ owned(after, Key(r)) # {} \/ (~ CanAdopt(after, r) /\ InTheWay(after, r))
        /\ Key(r) \in Keys(Removals(cs)) => \A s, t \in owned(after, Key(r)) : s = t

\* What may happen to one section: it is deleted, adopted or created, and that
\* only for a record of the change set.
Touched(before, after, cs, s) ==
    LET was == parseSection(before[s])
        is  == parseSection(after[s])
    IN  \/ /\ after[s] = Absent
           /\ was # Absent
           /\ Key(was) \in Keys(Removals(cs))
           /\ OwnershipEnabled => was.Owner = OwnershipID
        \/ /\ was # Absent /\ was.Owner = NoOwner /\ OwnershipEnabled
           /\ Key(was) \in Keys(Additions(cs))
           /\ after[s] = [before[s] EXCEPT !.Owner = OwnershipID]
        \/ /\ before[s] = Absent
           /\ is = after[s] /\ is # Absent /\ is.Owner = OwnershipID
           /\ Key(is) \in Keys(Additions(cs))

\* A change set never writes or adopts a second section for one record.
NoSecondSection(before, after) ==
    \A s \in Section : after[s] # before[s] /\ after[s] # Absent =>
        \A t \in owned(newSectionIndex(after), Key(after[s])) : s = t

\* before and after are what the router holds before and after the change set.
TakesEffect(before, after, cs) ==
    /\ Removed(newSectionIndex(after), cs)
    /\ Added(newSectionIndex(after), cs)
    /\ \A s \in Section : after[s] # before[s] => Touched(before, after, cs, s)
    /\ NoSecondSection(before, after)

Init ==
    /\ dhcp \in Initial
    /\ busy = FALSE
    /\ changes = NoChanges
    /\ result = "none"

Submit ==
    /\ ~ busy /\ busy' = TRUE
    /\ changes' \in ChangeSet \ {NoChanges}
    /\ result' = "none"
    /\ UNCHANGED dhcp

Return(r) == busy' = FALSE /\ changes' = NoChanges /\ result' = r

\* Nothing was asked for.
Empty == ~ busy /\ Return("ok") /\ UNCHANGED dhcp

\* The change set takes effect.  When the router's answer is lost the caller is
\* told that it failed, and asks for it again.
TakeEffect ==
    /\ busy
    /\ TakesEffect(dhcp, dhcp', changes)
    /\ Return("ok") \/ Return("error")

\* It fails, and the router holds what it held.
Abandon == busy /\ Return("error") /\ UNCHANGED dhcp

Next == Submit \/ Empty \/ TakeEffect \/ Abandon

Spec == Init /\ [][Next]_vars
=============================================================================
