------------------------------ MODULE MCSyncer ------------------------------
(***************************************************************************)
(* Two objects for Syncer, records that differ in state and in the rest.   *)
(***************************************************************************)
EXTENDS Syncer

CONSTANTS o1, o2

Ready(rest) == [State |-> "Ready", Rest |-> rest]
Failed(rest) == [State |-> "Error", Rest |-> rest]

MCObject == {o1, o2}
MCRecord == {Ready(1), Ready(2), Failed(1)}

Both(a, b) == [o \in Object |-> IF o = o1 THEN a ELSE b]

MCSnapshot == {Both(Ready(1), Absent), Both(Ready(2), Failed(1)), Both(Absent, Ready(1))}
=============================================================================
