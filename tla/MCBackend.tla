------------------------------ MODULE MCBackend ------------------------------
(* Plans of the extraction, and scenes at the desks, each beside an idle half. *)
EXTENDS BackendSystem

None == [f \in {"publishes", "edits", "faults", "manual", "due", "pauses", "switches"} |-> 0]
Kind(k) == [kind |-> k, overlap |-> FALSE, ends |-> TRUE, total |-> FALSE, late |-> 1, max |-> 3]
Base(kinds, l, b) ==
  [conns |-> DOMAIN kinds, shape |-> [c \in Connectors |-> IF c \in DOMAIN kinds THEN kinds[c] ELSE Kind("setad")],
   home |-> [c \in Connectors |-> IF c \in DOMAIN l THEN ToSet(l[c]) ELSE {}],
   list |-> [c \in Connectors |-> IF c \in DOMAIN l THEN l[c] ELSE <<>>],
   old |-> {}, caps |-> {0}, details |-> {TRUE}, acceptance |-> FALSE, budget |-> b]
P(kind, l, b) == Base([a |-> kind], [a |-> l], b)

Two(b) == Base([a |-> Kind("hezareh"), b |-> Kind("parsnamad")], [a |-> <<2>>, b |-> <<3>>], b)
PlanSeq == <<
  P([Kind("setad") EXCEPT !.total = TRUE, !.overlap = TRUE], <<1>>, [None EXCEPT !.due = 3, !.edits = 2]),
  P(Kind("hezareh"), <<2, 3>>, [None EXCEPT !.due = 2, !.edits = 1, !.faults = 1]),
  P([Kind("parsnamad") EXCEPT !.ends = FALSE], <<2, 3>>, [None EXCEPT !.due = 2, !.edits = 1, !.faults = 1]),
  [P(Kind("setad"), <<2, 3>>, [None EXCEPT !.due = 2, !.faults = 1, !.publishes = 1])
     EXCEPT !.home["a"] = {1, 2, 3}],
  [P([Kind("setad") EXCEPT !.total = TRUE, !.overlap = TRUE, !.ends = FALSE], <<2, 3>>, [None EXCEPT !.due = 2, !.publishes = 1])
     EXCEPT !.home["a"] = {1, 2, 3}, !.old = {3}],
  [P(Kind("hezareh"), <<2, 3, 4>>, [None EXCEPT !.due = 3]) EXCEPT !.shape["a"].late = 3],
  P(Kind("hezareh"), <<2>>, [None EXCEPT !.due = 2, !.manual = 1, !.faults = 1]),
  P(Kind("hezareh"), <<2>>, [None EXCEPT !.due = 2, !.faults = 1, !.pauses = 1]),
  [Two([None EXCEPT !.due = 1, !.faults = 1]) EXCEPT !.acceptance = TRUE],
  [Two([None EXCEPT !.pauses = 1, !.switches = 1]) EXCEPT !.acceptance = TRUE],
  [Two([None EXCEPT !.due = 1, !.pauses = 1, !.faults = 1]) EXCEPT !.acceptance = TRUE, !.conns = {"a"}],
  P([Kind("setad") EXCEPT !.ends = FALSE, !.max = 2], <<2, 3>>, [None EXCEPT !.due = 2, !.faults = 1]),
  [P(Kind("setad"), <<2, 3>>, [None EXCEPT !.faults = 1]) EXCEPT !.acceptance = TRUE]
>>

Row == [content |-> 0, rec |-> FALSE, type |-> "none", work |-> "ready", kept |-> FALSE]
Draft(n, rec, rev) == [n |-> n, content |-> 0, ctx |-> 1, req |-> 1, batch |-> 1, rec |-> rec, rev |-> rev]
Ops == {"edit", "attach", "detach", "activate", "newdraft", "request", "webstart", "start", "finish", "complete", "addbatch",
  "closebatch", "draft", "review", "dismiss", "bulk", "settype", "ingest", "case", "destroy", "upload", "contract",
  "followup", "patch", "remove", "select", "arm", "disarm", "lapse", "prepare", "command", "confirm", "newopp",
  "update", "hide", "contact", "result", "revise", "trial", "advance", "convert"}
Nobody == [op \in Ops |-> 0]
Opened == [NoRequest EXCEPT !.st = "processing", !.ctx = 1, !.guarded = TRUE, !.cand = Notices, !.batches = <<"processing">>]
Empty ==
  [notice |-> [n \in Notices |-> Row],
   ctx |-> [v \in Versions |-> [st |-> IF v = 1 THEN "active" ELSE "none", text |-> 1, files |-> 0]],
   areq |-> [q \in Requests |-> NoRequest], drafts |-> <<>>,
   case |-> [n \in Notices |-> NoCase],
   opp |-> [o \in Opps |-> [st |-> "none", trial |-> 0, gone |-> FALSE]], may |-> Nobody]
Calls(ops) == [op \in Ops |-> IF op \in DOMAIN ops THEN ops[op] ELSE 0]
Reviews == [Empty EXCEPT !.areq[1] = Opened, !.drafts = <<Draft(1, TRUE, "ai_draft")>>,
  !.notice[1] = [Row EXCEPT !.rec = TRUE, !.work = "analyzed"]]
Owned == [Empty EXCEPT !.case[1] = [NoCase EXCEPT !.id = 1], !.notice[1].kept = TRUE,
   !.drafts = <<Draft(1, TRUE, "reviewed"), Draft(2, TRUE, "published")>>, !.notice[1].rec = TRUE, !.notice[2].rec = TRUE,
   !.notice[1].work = "analyzed", !.notice[2].work = "analyzed"]
Direct == [Empty EXCEPT !.opp[1].st = "new", !.opp[2].st = "selected"]
SceneSeq == <<
  [Reviews EXCEPT !.may = Calls([review |-> 2, dismiss |-> 1, ingest |-> 1])],
  [Reviews EXCEPT !.may = Calls([review |-> 1, bulk |-> 1, draft |-> 1, settype |-> 1])],
  [Empty EXCEPT !.may = Calls([start |-> 2, finish |-> 2, draft |-> 1])],
  [Empty EXCEPT !.may = Calls([start |-> 1, finish |-> 1, complete |-> 1, addbatch |-> 1, closebatch |-> 1, request |-> 1, webstart |-> 1])],
  [Empty EXCEPT !.ctx[2] = [st |-> "draft", text |-> 1, files |-> 0], !.ctx[3] = [st |-> "draft", text |-> 1, files |-> 0],
      !.may = Calls([activate |-> 2, edit |-> 1])],
  [Empty EXCEPT !.may = Calls([activate |-> 1, edit |-> 1, newdraft |-> 2, attach |-> 1, detach |-> 1])],
  [Owned EXCEPT !.may = Calls([case |-> 1, destroy |-> 1, patch |-> 1, select |-> 1])],
  [Owned EXCEPT !.may = Calls([case |-> 1, remove |-> 1, upload |-> 1, patch |-> 1])],
  [Owned EXCEPT !.may = Calls([case |-> 1, upload |-> 1, ingest |-> 1, destroy |-> 1])],
  [Owned EXCEPT !.may = Calls([patch |-> 1, contract |-> 1, followup |-> 1, destroy |-> 1])],
  [Empty EXCEPT !.may = Calls([arm |-> 2, disarm |-> 1, command |-> 1, prepare |-> 1, confirm |-> 1])],
  [Owned EXCEPT !.may = Calls([arm |-> 1, lapse |-> 1, prepare |-> 1, confirm |-> 2, destroy |-> 1])],
  [Direct EXCEPT !.may = Calls([result |-> 2, revise |-> 1])],
  [Direct EXCEPT !.opp[2].st = "none", !.may = Calls([update |-> 1, contact |-> 1, result |-> 1, revise |-> 1])],
  [Direct EXCEPT !.opp[2].st = "none", !.may = Calls([update |-> 1, hide |-> 1, result |-> 1, newopp |-> 1])],
  [Reviews EXCEPT !.may = Calls([trial |-> 2, advance |-> 3, convert |-> 2, update |-> 1])]
>>

IdlePlan == P(Kind("setad"), <<>>, None)
IdleScene == Empty
LoadOf(raw, redundant, imported, halves) ==
  [raw |-> raw, redundant |-> redundant, imported |-> imported, halves |-> halves]
IdleLoad == LoadOf(0, 0, 0, 0)
LoadsValue ==
  {IdleLoad, LoadOf(51, 0, 0, 3), LoadOf(300, 60, 0, 3), LoadOf(1999, 0, 4000, 4), LoadOf(9999, 0, 9000, 4),
   LoadOf(60000, 500, 0, 5), LoadOf(60000, 0, 14000, 4), LoadOf(60000, 0, 29000, 4)}
SharesValue == {<<100, 0>>, <<92, 8>>, <<70, 30>>, <<0, 0>>}
CONSTANTS K, S
PlansValue == {PlanSeq[k] : k \in K} \cup {IdlePlan}
ScenesValue == {SceneSeq[k] : k \in S} \cup {IdleScene}
SetupsValue ==
  (PlansValue \X {IdleScene} \X {IdleLoad}) \cup ({IdlePlan} \X ScenesValue \X {IdleLoad})
    \cup ({IdlePlan} \X {IdleScene} \X LoadsValue)
==============================================================================
