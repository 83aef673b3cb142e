------------------------------ MODULE MCWebhook ------------------------------
(***************************************************************************)
(* A few requests for Webhook: each route, and each way to be rejected.    *)
(***************************************************************************)
EXTENDS Webhook

Planned(c, u, d) == [a \in Action |-> CASE a = "create" -> c [] a = "update" -> u [] a = "delete" -> d]

Asked(route, headers, body, planned, types) ==
    [route |-> route, headers |-> headers, body |-> body, planned |-> planned, types |-> types]

Simple(route, headers) == Asked(route, headers, "fits", Planned(0, 0, 0), <<>>)
ChangeSet(body, planned) == Asked("ApplyChanges", <<"right">>, body, planned, <<>>)

MCAsk ==
    { Simple("unmatched", <<>>),
      Simple("Negotiate", <<"right">>),
      Simple("Records", <<"right">>), Simple("Records", <<"wrong">>),
      ChangeSet("fits", Planned(2, 1, 0)), ChangeSet("fits", Planned(0, 0, 1)),
      ChangeSet("malformed", Planned(0, 0, 0)), ChangeSet("oversized", Planned(0, 0, 0)),
      ChangeSet("stalls", Planned(1, 0, 0)),
      Simple("AdjustEndpoints", <<"right", "absent">>),
      Asked("AdjustEndpoints", <<"right", "right">>, "fits", Planned(0, 0, 0), <<"A", Null, "A", "AAAA">>) }
=============================================================================
