-------------------------------- MODULE Rpcd --------------------------------
(***************************************************************************)
(* What the code relies on of the router: rpcd's `uci` object.  External,  *)
(* modelled from how pkg/openwrt and pkg/ubus use it.                      *)
(*                                                                         *)
(* rpcd stages what a session changes until that session applies it.  The  *)
(* session sees its own staged changes and no other session does.  `apply` *)
(* replays them on what is committed by then, one section at a time, so    *)
(* what a session has staged is a function from section names to changes.  *)
(* A session that expires, or that a restart of rpcd ends, takes what it   *)
(* staged with it.                                                         *)
(***************************************************************************)
EXTENDS SectionIndex

Keep == [op |-> "keep"]
Delete == [op |-> "delete"]
AddSection(r) == [op |-> "add", record |-> r]
SetOwner(o) == [op |-> "set", owner |-> o]

Change ==
    {Keep, Delete} \cup [op : {"add"}, record : DNSRecord] \cup [op : {"set"}, owner : Owner]

Staging == [Section -> Change]
NothingStaged == [s \in Section |-> Keep]

\* One change replayed on what its section holds.  A `set` on a section that
\* is gone changes nothing; an `add` overwrites whatever has the name.
Replay(held, change) ==
    CASE change.op = "keep"   -> held
      [] change.op = "delete" -> Absent
      [] change.op = "add"    -> change.record
      [] change.op = "set"    -> IF held = Absent THEN Absent ELSE [held EXCEPT !.Owner = change.owner]

\* What a session with this staging sees, and what its apply commits.
View(config, staging) == [s \in Section |-> Replay(config[s], staging[s])]
=============================================================================
