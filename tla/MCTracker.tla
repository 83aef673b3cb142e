------------------------------ MODULE MCTracker ------------------------------
(***************************************************************************)
(* Two records for Tracker, one of which the domain filter may drop.       *)
(***************************************************************************)
EXTENDS Tracker

CONSTANTS k1, k2, t1, t2

MCRecordKey == {k1, k2}
MCTarget == {t1, t2}
MCFilter == {{}, {k2}}

Both(a, b) == [k \in RecordKey |-> IF k = k1 THEN a ELSE b]

\* One record; both, with a second target; one that is withdrawn, and one that
\* cannot be written.
MCWish == { Both({t1}, {}), Both({t1, t2}, {t1}), Both({}, Unwritable) }
=============================================================================
