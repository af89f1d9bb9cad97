--------------------------- MODULE PromotionSystem ---------------------------
(* The promotion lane and the deployment coordinator of one MCP server, over   *)
(* one lease file and one agent queue, with GitHub and the agent around them.  *)
EXTENDS DeploymentCoordinator

vars == <<laneVars, coordVars, lease, queueVars>>

Init == AgentInit /\ lease = NoLease /\ LaneInit /\ CoordInit

AgentMove == (AgentStep \/ AgentSlip \/ AgentStop \/ EnqueueUnmanaged) /\ UNCHANGED <<laneVars, coordVars>>

LaneMove == (ToolStep \/ LoopStep \/ GitHubStep \/ Crash) /\ UNCHANGED coordVars

Next == AgentMove \/ LaneMove \/ CoordStep

Spec == Init /\ [][Next]_vars

(* The agent and both background threads poll for ever; a tool call that has   *)
(* taken the lane runs to its end.  Callers, GitHub and crashes are not fair.  *)
Fairness ==
  /\ WF_vars(AgentStep /\ UNCHANGED <<laneVars, coordVars>>)
  /\ WF_vars(LoopStep /\ UNCHANGED coordVars)
  /\ WF_vars(Pass)
  /\ WF_vars((Admit \/ Activate("tool") \/ Bind("tool") \/ Publish("tool")) /\ UNCHANGED coordVars)

FairSpec == Spec /\ Fairness

-----------------------------------------------------------------------------
AgentIds == [of : {"other", "ticket", "health", "coord"}, n : Nat,
             kind : {"other", "deploy", "health"}, head : Commits \cup {0}]
TicketRecords == [ticket : Nat, req : Nat, head : Commits \cup {0}, main : Nat,
                  state : Blocking \cup FinalTicket \cup {"none"}, agent : AgentIds \cup {Nobody},
                  health : Nat, hagent : AgentIds \cup {Nobody}, accepted : BOOLEAN]
RequestRecords == [kind : {"deploy", "health"}, head : Commits, id : Nat, main : Nat, ticket : Nat,
                   state : RequestStates, agent : AgentIds \cup {Nobody},
                   term : {"none", "succeeded", "failed", "not_published"}]
WsRecords == [reg : BOOLEAN, state : WsStates, head : Commits \cup {0}, live : BOOLEAN,
              cands : [Commits -> [state : {"none", "stale"} \cup WsStates,
                                   ev : {"none", "passed", "failed"}, req : BOOLEAN]]]
DeployRecords == [ws : Workstreams, head : Commits, rank : Nat, id : Nat, key : Nat, again : BOOLEAN,
                  lane : Nat, pend : BOOLEAN,
                  hist : {"none", "deploying", "succeeded", "failed"}]
ThreadRecords == [pc : {"idle", "stopped", "admit", "activate", "bind", "publish", "read_pr",
                        "read_main", "attest", "claim"},
                  req : Nat, id : Nat, ticket : Nat, main : Nat, pr : {"open", "closed", "merged"}]

(* Type invariant of the promotion system.                                     *)
PromotionTypeOK ==
  /\ plan \in Plans
  /\ incoming \subseteq AgentIds /\ processing \subseteq AgentIds
  /\ working \in AgentIds \cup {Nobody} /\ told \in BOOLEAN
  /\ done \subseteq AgentIds /\ marked \subseteq done
  /\ responses \subseteq [req : AgentIds, ok : BOOLEAN, accepted : BOOLEAN]
  /\ lease = NoLease \/ lease \in [by : {"lane"}, owner : Nat, head : Commits]
                     \/ lease \in [by : {"ws"}, owner : Workstreams, head : Commits]
  /\ others \in Nat /\ stops \in Nat /\ slips \in Nat /\ crashes \in Nat /\ calls \in Nat
  /\ reqs \in Seq(RequestRecords) /\ ready \subseteq DOMAIN reqs
  /\ active \in TicketRecords /\ archive \subseteq TicketRecords
  /\ thread \in [Threads -> ThreadRecords]
  /\ main \in Nat /\ pr \in [Commits -> {"open", "closed", "merged"}] /\ cache \subseteq Commits
  /\ ws \in [Workstreams -> WsRecords] /\ deps \in Seq(DeployRecords)
  /\ test \in [ws : Workstreams \cup {0}, live : BOOLEAN]

(* Every signed lane request the agent can still find is bound to a durable    *)
(* request file, whatever crashes: the answer will be found again              *)
(* (deployment_queue.enqueue binds before it publishes).                       *)
PublishedIsBound ==
  \A a \in incoming \cup processing :
    a.of \in {"ticket", "health"} => \E q \in DOMAIN reqs : reqs[q].agent = a

(* A ticket counts as accepted at runtime only if the agent has carried out a  *)
(* deployment or a health check of its very commit (observe_response).         *)
AcceptanceIsEarned ==
  \A t \in archive \cup {active} :
    t.accepted => \E a \in done : a.head = t.head /\ a.kind \in {"deploy", "health"}

(* A candidate is in pre_merge only if the agent has deployed its exact head:  *)
(* for a deployment of its own workstream, or in the lane, and then an         *)
(* independent health check of that head was carried out as well               *)
(* (record_candidate_acceptance and its bridge).                               *)
PreMergeIsEarned ==
  \A w \in Workstreams, c \in Commits :
    ws[w].cands[c].state = "pre_merge" =>
      \/ \E d \in DOMAIN deps : /\ deps[d].ws = w /\ deps[d].head = c
                                /\ Request("coord", d, "deploy", c) \in done
      \/ /\ \E a \in done : a.of = "ticket" /\ a.head = c
         /\ \E a \in done : a.of = "health" /\ a.head = c

(* Of two deployments of one exact head under one compatibility key, the later *)
(* not asked for as a redeployment, the agent carries out both only if the     *)
(* history has the earlier one as failed, and only if the server has crashed   *)
(* or the agent has failed after it had answered: a plain second call never    *)
(* deploys again, whoever makes it (the two keys of queue_exact_deployment).   *)
DeployedOnce ==
  \A d, e \in DOMAIN deps :
    LET Deployed(x) == Request("coord", x, "deploy", deps[x].head) \in done
    IN /\ d < e /\ deps[d].head = deps[e].head /\ deps[d].key = deps[e].key /\ ~deps[e].again
       /\ Deployed(d) /\ Deployed(e)
       => deps[d].hist = "failed" /\ crashes + slips > 0

(* A request that waits for the lane has its waiting file, by which the loop   *)
(* finds it; a crash of the server between the two writes loses one request at *)
(* most.                                                                       *)
WaitingIsStored ==
  Cardinality({q \in DOMAIN reqs : reqs[q].state = "waiting_promotion" /\ q \notin ready}) <= crashes

(* The lease changes hands in known ways only, crashes aside.  A ticket's goes *)
(* when the ticket is archived, and to nobody.  A workstream's goes to nobody  *)
(* when its time is over, when that workstream ends or needs a decision, or    *)
(* when its deployment fails; no other workstream can take it.  It may also be *)
(* overruled by the lane: by an activation that had found the lane free before *)
(* the reservation, for the two take different locks, or after a crash that    *)
(* left a ticket without its lease.  (_release_promotion_lease_unlocked,       *)
(* _release_shared_lease_unlocked, reserve_promotion, before_enqueue.)         *)
Holder(l) == <<l.by, l.owner>>
Overruled ==
  /\ lease'.by = "lane" /\ lease'.owner = active'.ticket
  /\ crashes > 0 \/ \E a \in Threads : thread[a].pc = "activate"
GivenBack(w) ==
  \/ ws'[w].state \in FinalWs \cup {"decision_required"}
  \/ \E d \in DOMAIN deps : /\ deps[d].ws = w /\ deps[d].hist = "deploying"
                           /\ Answered(CoordRequest(Co, d)) /\ ~Succeeded(CoordRequest(Co, d))
LeaseChangesHands ==
  [][ (lease # NoLease /\ Holder(lease') # Holder(lease) /\ crashes' = crashes) =>
        IF lease.by = "lane" THEN lease' = NoLease /\ \E t \in archive' : t.ticket = lease.owner
        ELSE \/ lease' = NoLease /\ UNCHANGED <<laneVars, coordVars, queueVars>>
             \/ lease' = NoLease /\ UNCHANGED laneFiles /\ GivenBack(lease.owner)
             \/ Overruled ]_vars

(* Every deployment the coordinator has queued gets a result, unless the agent *)
(* died with a request in its hands.                                           *)
AgentStuck == working = Nobody /\ processing # {}
HistoryOf(d) == IF d \in DOMAIN deps THEN deps[d].hist ELSE "absent"
DeploymentResolves ==
  \A d \in 1..2 :
    HistoryOf(d) \in {"none", "deploying"} ~> (HistoryOf(d) \in {"succeeded", "failed"} \/ AgentStuck)

(* If the lane, its lease and the agent stay free and the loop runs, no        *)
(* request goes on waiting.                                                    *)
ReadyDrains ==
  <>[](LaneFree /\ thread.loop.pc # "stopped") => <>[](ready = {})

(* The lane is shared: no deployment of the coordinator is with the agent      *)
(* while a ticket of the lane is active.                                       *)
LaneIsShared ==
  active # NoTicket => \A a \in incoming \cup processing : a.of # "coord"
==============================================================================
