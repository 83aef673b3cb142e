------------------------------- MODULE Metrics -------------------------------
(***************************************************************************)
(* The registry of pkg/metrics/metrics.go: what a scrape is shown.  A      *)
(* series is a metric with the values of its labels, and is there from its *)
(* first update on.  One lock is held over an update, and over a scrape,   *)
(* so each is a step.                                                      *)
(***************************************************************************)
EXTENDS Integers

NewRegistry == [s \in {} |-> 0]

Value(registry, series) == IF series \in DOMAIN registry THEN registry[series] ELSE 0

Set(registry, series, value) ==
    [s \in DOMAIN registry \cup {series} |-> IF s = series THEN value ELSE registry[s]]

\* A negative delta is ignored, and creates no series.
Add(registry, series, delta) ==
    IF delta < 0 THEN registry ELSE Set(registry, series, Value(registry, series) + delta)

Inc(registry, series) == Add(registry, series, 1)

\* One Add after another: the order makes no difference to different series.
AddEach(registry, deltas) ==
    LET added == {s \in DOMAIN deltas : deltas[s] >= 0}
    IN  [s \in DOMAIN registry \cup added |->
            Value(registry, s) + IF s \in added THEN deltas[s] ELSE 0]
=============================================================================
