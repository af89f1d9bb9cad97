----------------------------- MODULE MCPromotion -----------------------------
EXTENDS PromotionSystem

CommitsValue == 1..2
BaseOf == [c \in Commits |-> 0]
RankOf == [c \in Commits |-> IF c = 1 THEN 50 ELSE 10]
WorkstreamsValue == 1..2
OverlapValue == {<<1, 2>>, <<2, 1>>}
NeedsValue == [w \in Workstreams |-> IF w = 2 THEN {1} ELSE {}]

Quiet == [f \in PlanFields |-> CASE f \in {"commits", "teams", "ids", "keys"} -> 1
                                 [] f = "ranks" -> 10
                                 [] OTHER -> 0]

(* One behaviour follows one plan: each bounds the parties it does not study.  *)
PlansValue ==
  { [Quiet EXCEPT !.requests = 2, !.merges = 1, !.closes = 1, !.commits = 2],
    [Quiet EXCEPT !.requests = 2, !.ids = 2],
    [Quiet EXCEPT !.requests = 1, !.merges = 1, !.crashes = 1, !.commits = 2],
    [Quiet EXCEPT !.requests = 2, !.crashes = 1, !.ids = 2],
    [Quiet EXCEPT !.requests = 1, !.others = 1, !.stops = 1, !.slips = 1],
    [Quiet EXCEPT !.calls = 5, !.deploys = 2, !.ids = 2, !.slips = 1],
    [Quiet EXCEPT !.calls = 4, !.deploys = 2, !.ids = 2, !.keys = 2, !.ranks = 50],
    [Quiet EXCEPT !.calls = 5, !.deploys = 1, !.teams = 2],
    [Quiet EXCEPT !.calls = 4, !.deploys = 1, !.commits = 2, !.merges = 1],
    [Quiet EXCEPT !.calls = 4, !.deploys = 1, !.crashes = 1, !.closes = 1],
    [Quiet EXCEPT !.calls = 4, !.deploys = 1, !.stops = 1],
    [Quiet EXCEPT !.calls = 2, !.deploys = 1, !.requests = 2],
    [Quiet EXCEPT !.calls = 2, !.requests = 1, !.crashes = 1],
    [Quiet EXCEPT !.calls = 2, !.tests = 1, !.teams = 2] }

LanePlan == { [Quiet EXCEPT !.calls = 4, !.deploys = 1, !.requests = 1, !.others = 1] }
==============================================================================
