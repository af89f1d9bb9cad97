------------------------ MODULE DeploymentCoordinator ------------------------
(* The deployment coordinator of the MCP server                                *)
(* (services/pdp_mcp/deployment_coordinator.py and the acceptance bridge of    *)
(* services/pdp_mcp/server.py): workstreams and their candidates, evidence,    *)
(* the promotion lease, the durable deployments and their results.             *)
(*                                                                             *)
(* Its tools run on the server's tool thread, a dispatcher thread passes every *)
(* few seconds, and both take the coordinator's own lock, which is not the     *)
(* lane's.  Workstreams are of the second schema (the first one has no         *)
(* candidates).  A candidate of a workstream is identified by its head commit. *)
EXTENDS PromotionLane

CONSTANTS Workstreams,  \* numbers
          Overlap,      \* pairs of workstreams whose scopes intersect
          Needs,        \* the workstreams each one is blocked by
          Heartbeats,   \* states a caller may report
          Outcomes,     \* ways in which a caller may end a workstream
          Priorities,   \* priority ranks a caller may ask for
          Keys          \* compatibility keys (numbers) a caller may name

VARIABLES
  ws,     \* the workstream files
  deps,   \* the deployment records, with their pending and history files
  test,   \* the live-test lease file
  calls

coordVars == <<ws, deps, test, calls>>

Teams == {w \in Workstreams : w <= plan.teams}
CallerKeys == {k \in Keys : k <= plan.keys}
CallerRanks == {r \in Priorities : r <= plan.ranks}

FinalWs == {"merged", "closed", "superseded", "cancelled"}
AutoRenew == {"ready", "waiting_dependency", "promotion_reserved", "verifying", "queued",
              "deploying", "acceptance", "pre_merge"}
WsStates == FinalWs \cup AutoRenew
            \cup {"developing", "ci_ready", "conflict", "decision_required", "blocked"}

(* heartbeat_workstream refuses anything but a state of a workstream,          *)
(* complete_workstream anything but a final one, and queue_exact_deployment    *)
(* any priority but the known ones.                                            *)
ASSUME CallerAssumption ==
  Heartbeats \subseteq WsStates /\ Outcomes \subseteq FinalWs /\ Priorities \subseteq Nat /\ Keys \subseteq Nat

(* req: evidence is required, as it is unless the caller names none.           *)
NoCandidate == [state |-> "none", ev |-> "none", req |-> TRUE]
NoWorkstream == [reg |-> FALSE, state |-> "developing", head |-> 0, live |-> FALSE,
                 cands |-> [c \in Commits |-> NoCandidate]]
NoTest == [ws |-> 0, live |-> FALSE]

Co == [ws |-> ws, deps |-> deps, lease |-> lease, incoming |-> incoming]

(* One section under the coordinator's lock.                                   *)
Mutate(steps) ==
  LET Put(co) == /\ ws' = co.ws /\ deps' = co.deps /\ lease' = co.lease
                 /\ incoming' = co.incoming
  IN /\ \/ Put(steps[Len(steps)]) /\ UNCHANGED <<thread, crashes>>
        \/ (\E i \in 1..(Len(steps) - 1) : Put(steps[i])) /\ ServerDies
     /\ UNCHANGED <<laneFiles, github, cache, plan, others, agentVars>>

Call == ToolIdle /\ calls < plan.calls /\ calls' = calls + 1 /\ UNCHANGED test
WithWs(co, w, item) == [co EXCEPT !.ws = [@ EXCEPT ![w] = item]]
WithDep(co, d, dep) == [co EXCEPT !.deps = [@ EXCEPT ![d] = dep]]
WithCand(item, c, cand) == [item EXCEPT !.cands = [@ EXCEPT ![c] = cand]]

-----------------------------------------------------------------------------
(* Reading the files.                                                          *)

IsFinal(w) == ws[w].reg /\ ws[w].state \in FinalWs
IsActive(item) == item.reg /\ item.state \notin FinalWs /\ item.live
Conflicted(items, w) ==
  \E v \in Workstreams \ {w} : <<w, v>> \in Overlap /\ IsActive(items[v])
Blocked(w) == \E v \in Needs[w] : ~IsFinal(v)

EvidenceState(cand) == IF cand.state = "stale" THEN "stale"
                       ELSE IF ~cand.req THEN "not_required"
                       ELSE IF cand.ev = "passed" THEN "ready" ELSE "pending"

(* What a caller says of the evidence: nothing, some kinds, or an empty list.  *)
Asked == {"nothing", "some", "none"}

(* _upsert_candidate_unlocked: another head makes the current candidate stale; *)
(* a head that comes back starts developing with the evidence it had.          *)
Upsert(item, c, asked) ==
  LET old == item.head
      aged == IF old \notin {0, c} /\ item.cands[old].state \notin FinalWs
              THEN WithCand(item, old, [item.cands[old] EXCEPT !.state = "stale"]) ELSE item
      cand == [aged.cands[c] EXCEPT !.req = (asked = "some" \/ (asked = "nothing" /\ @))]
      next == IF cand.state \in {"none", "stale"} THEN [cand EXCEPT !.state = "developing"] ELSE cand
  IN [WithCand(aged, c, next) EXCEPT !.head = c]

\* Mutant: whoever's lease it is.
ReleasedAny(l, w) == NoLease

(* _release_promotion_lease_unlocked: only the lease of that workstream.       *)
Released(l, w) == IF l.by = "ws" /\ l.owner = w THEN NoLease ELSE l

(* _renew_lifecycle_leases_unlocked.                                           *)
Renewed(items) == [w \in Workstreams |->
  IF items[w].reg /\ items[w].state \in AutoRenew THEN [items[w] EXCEPT !.live = TRUE] ELSE items[w]]

-----------------------------------------------------------------------------
(* Workstreams, candidates and evidence.                                       *)

Register(w, c, asked) ==
  /\ Call
  /\ LET renewed == [Co EXCEPT !.ws = Renewed(ws)]
         item == [Upsert(renewed.ws[w], c, asked) EXCEPT !.reg = TRUE, !.live = TRUE]
         state == IF Conflicted(renewed.ws, w) THEN "conflict"
                  ELSE IF Blocked(w) /\ item.state \in
                            {"developing", "ci_ready", "ready", "waiting_dependency"}
                  THEN "waiting_dependency"
                  ELSE IF item.state = "conflict" THEN "developing" ELSE item.state
     IN Mutate(<< renewed, WithWs(renewed, w, [item EXCEPT !.state = state]) >>)

Heartbeat(w, state) ==
  /\ Call /\ ws[w].reg
  /\ LET item == [ws[w] EXCEPT !.state = state, !.live = TRUE]
         freed == [Co EXCEPT !.lease = IF state \in FinalWs THEN Released(@, w) ELSE @]
     IN Mutate(<< freed, WithWs(freed, w, item) >>)

RegisterCandidate(w, c, asked) ==
  /\ Call /\ ws[w].reg
  /\ Mutate(<< WithWs(Co, w, [Upsert(ws[w], c, asked) EXCEPT !.state = "developing"]) >>)

RecordEvidence(w, c, result) ==
  /\ Call /\ ws[w].reg /\ ws[w].cands[c].state # "none"
  /\ LET cand == [ws[w].cands[c] EXCEPT !.ev = result]
         ripe == EvidenceState(cand) = "ready" /\ cand.state \in {"developing", "verifying"}
         next == IF ws[w].head # c THEN [cand EXCEPT !.state = "stale"]
                 ELSE IF ripe THEN [cand EXCEPT !.state = "ready"] ELSE cand
         item == WithCand(ws[w], c, next)
     IN Mutate(<< WithWs(Co, w, IF ws[w].head = c /\ ripe THEN [item EXCEPT !.state = "ready"]
                                                           ELSE item) >>)

(* The caller names the main it has read, now or some time ago.                *)
OnClaimedMain(c) == \E seen \in 0..main : Base[c] = seen

Reserve(w, c) ==
  /\ Call /\ ws[w].reg
  /\ ws[w].cands[c].state # "none" /\ ws[w].head = c /\ OnClaimedMain(c)
  /\ ~Conflicted(Renewed(ws), w) /\ ~Blocked(w)
  /\ lease = NoLease \/ (lease.by = "ws" /\ lease.owner = w)
  /\ LET renewed == [Co EXCEPT !.ws = Renewed(ws)]
         leased == [renewed EXCEPT !.lease = [by |-> "ws", owner |-> w, head |-> c]]
         item == renewed.ws[w]
         taken == [WithCand(item, c, [item.cands[c] EXCEPT !.state = "promotion_reserved"])
                   EXCEPT !.state = "promotion_reserved", !.live = TRUE]
     IN Mutate(<< renewed, leased, WithWs(leased, w, taken) >>)

-----------------------------------------------------------------------------
(* Deployments.                                                                *)

(* lane: the lane request a record was copied from, 0 for the own deployments. *)
NewDeploy(w, c, rank, id, key, again) ==
  [ws |-> w, head |-> c, rank |-> rank, id |-> id, key |-> key, again |-> again, lane |-> 0,
   pend |-> TRUE, hist |-> "none"]

CoordRequest(co, d) == Request("coord", d, "deploy", co.deps[d].head)

(* The pending file with the best rank goes first, then the oldest.  Aging     *)
(* takes up to 30 off the rank of an older record, so a record may go ahead of *)
(* a newer one of a better rank, and never of an older one that is as good.    *)
NextPending(ds, d) ==
  /\ ds[d].pend
  /\ \A e \in DOMAIN ds \ {d} :
       ds[e].pend => IF e < d THEN ds[d].rank < ds[e].rank ELSE ds[d].rank <= ds[e].rank + 30

SendSteps(co, d) ==
  LET dep == co.deps[d]
      sent == [co EXCEPT !.incoming = @ \cup {CoordRequest(co, d)}]
      kept == WithDep(sent, d, [dep EXCEPT !.hist = "deploying"])
      moved == WithDep(sent, d, [dep EXCEPT !.hist = "deploying", !.pend = FALSE])
      item == co.ws[dep.ws]
      noted == [(IF item.cands[dep.head].state = "none" THEN item
                 ELSE WithCand(item, dep.head, [item.cands[dep.head] EXCEPT !.state = "deploying"]))
                EXCEPT !.state = "deploying", !.live = TRUE]
  IN << sent, kept, moved, WithWs(moved, dep.ws, noted) >>

(* _dispatch_next_unlocked: nothing while the agent has any request; neither   *)
(* the lease nor the candidate is looked at again.                             *)
Dispatches(co) ==
  LET due == {d \in DOMAIN co.deps : NextPending(co.deps, d)}
  IN IF co.incoming \cup processing = {} /\ due # {} THEN {SendSteps(co, d) : d \in due}
                                                     ELSE {<<>>}

\* Mutant: only deployments still waiting are looked at.
DuplicatePending(w, c, id, key, again) ==
  \E d \in DOMAIN deps :
    /\ deps[d].head = c /\ deps[d].lane = 0
    /\ \/ deps[d].ws = w /\ deps[d].id = id
       \/ ~again /\ deps[d].key = key /\ deps[d].pend

(* Two keys suppress a duplicate: that of workstream, commit and deployment    *)
(* id, whatever became of the record; and, unless a redeployment is asked for, *)
(* that of commit and compatibility key, which the caller chooses, by anyone's *)
(* record that has not failed.  A waiting record is one that has not failed.   *)
Duplicate(w, c, id, key, again) ==
  \E d \in DOMAIN deps :
    /\ deps[d].head = c /\ deps[d].lane = 0
    /\ \/ deps[d].ws = w /\ deps[d].id = id
       \/ ~again /\ deps[d].key = key /\ (deps[d].pend \/ deps[d].hist # "failed")

QueueDeployment(w, c, rank, id, key, again) ==
  /\ Call /\ Len(deps) < plan.deploys
  /\ ws[w].reg /\ ws[w].head = c /\ ws[w].cands[c].state # "none" /\ OnClaimedMain(c)
  /\ lease = [by |-> "ws", owner |-> w, head |-> c]
  /\ EvidenceState(ws[w].cands[c]) \in {"ready", "not_required"}
  /\ ~Duplicate(w, c, id, key, again)
  /\ LET queued == [Co EXCEPT !.deps = Append(@, NewDeploy(w, c, rank, id, key, again))]
         item == [WithCand(ws[w], c, [ws[w].cands[c] EXCEPT !.state = "queued"])
                  EXCEPT !.state = "queued", !.live = TRUE]
         noted == WithWs(queued, w, item)
     IN \E sent \in Dispatches(noted) : Mutate(<< queued, noted >> \o sent)

(* _reconcile_history_unlocked for one record: the history file first, then    *)
(* the lease of a failure, then the workstream.  For a candidate that is not   *)
(* there the code raises before it writes the workstream.                      *)
ReconcileSteps(co, d) ==
  LET dep == co.deps[d]
      ok == Succeeded(CoordRequest(co, d))
      item == co.ws[dep.ws]
      known == item.cands[dep.head].state # "none"
      state == IF ok THEN "acceptance" ELSE "decision_required"
      settled == WithDep(co, d, [dep EXCEPT !.hist = IF ok THEN "succeeded" ELSE "failed"])
      freed == IF ok /\ known THEN settled
               ELSE [settled EXCEPT !.lease = Released(@, dep.ws)]
      noted == [WithCand(item, dep.head, [item.cands[dep.head] EXCEPT !.state = state])
                EXCEPT !.state = state, !.live = @ \/ ok]
  IN IF known THEN << settled, freed, WithWs(freed, dep.ws, noted) >> ELSE << settled, freed >>

\* Mutant: a failed answer settles nothing.
SettledBySuccess(d) == deps[d].hist = "deploying" /\ Succeeded(CoordRequest(Co, d))

Settled(d) == deps[d].hist = "deploying" /\ Answered(CoordRequest(Co, d))

(* One pass of the dispatcher, or one status call: a settled record is         *)
(* reconciled, locks are renewed, the next deployment goes out.                *)
Pass ==
  /\ \E before \in {<<>>} \cup {ReconcileSteps(Co, d) : d \in {e \in DOMAIN deps : Settled(e)}} :
       /\ before = <<>> => \A d \in DOMAIN deps : ~Settled(d)
       /\ LET co == After(before, Co)
              renewed == [co EXCEPT !.ws = Renewed(@)]
          IN \E sent \in Dispatches(renewed) :
               LET steps == before \o << renewed >> \o sent
               IN steps[Len(steps)] # Co /\ Mutate(steps)
  /\ UNCHANGED <<test, calls>>

-----------------------------------------------------------------------------
(* Acceptance and completion.                                                  *)

AcceptSteps(co, w, c, ok) ==
  LET state == IF ok THEN "pre_merge" ELSE "decision_required"
      freed == [co EXCEPT !.lease = IF ok THEN @ ELSE Released(@, w)]
      item == co.ws[w]
      noted == [WithCand(item, c, [item.cands[c] EXCEPT !.state = state])
                EXCEPT !.state = state, !.live = @ \/ ok]
  IN << freed, WithWs(freed, w, noted) >>

\* Mutant: the result of the deployment is not looked at.
EvidenceWithoutResult(w, c, d) == deps[d].ws = w /\ deps[d].head = c

DeploymentEvidence(w, c, d) ==
  deps[d].hist = "succeeded" /\ deps[d].ws = w /\ deps[d].head = c

(* Acceptance names a deployment of history: it must be this workstream's and  *)
(* this head's, and have succeeded.                                            *)
RecordAcceptance(w, c, d, ok) ==
  /\ Call /\ ws[w].reg /\ ws[w].cands[c].state # "none"
  /\ DeploymentEvidence(w, c, d)
  /\ Mutate(AcceptSteps(Co, w, c, ok))

(* The ticket file of a number: the active one, or an archived one.            *)
TicketOf(n) == IF active.ticket = n THEN active
               ELSE CHOOSE t \in archive \cup {NoTicket} :
                      t.ticket = n \/ (t = NoTicket /\ \A u \in archive : u.ticket # n)

(* _validated_v3_acceptance_evidence: the deployment and the health request of *)
(* the lane share one ticket, agree with it in every identity, and succeeded.  *)
LaneEvidence(q, h, c) ==
  LET r == reqs[q]
      g == reqs[h]
      t == TicketOf(r.ticket)
  IN /\ r.kind = "deploy" /\ g.kind = "health" /\ r.ticket # 0 /\ g.ticket = r.ticket
     /\ t # NoTicket /\ r.head = c /\ g.head = c /\ t.head = c
     /\ r.term = "succeeded" /\ r.state \in ForwardSuccess
     /\ g.term = "succeeded" /\ g.state = "succeeded"
     /\ t.state \in {"pre_merge", "merged"} /\ t.accepted
     /\ t.req = q /\ t.health = h
     /\ r.agent # Nobody => t.agent = r.agent
     /\ g.agent # Nobody => t.hagent = g.agent

(* record_candidate_acceptance with the request ids of the lane: the history   *)
(* record is written from the lane's evidence, then accepted as any other.  A  *)
(* caller who names the request by its agent id overwrites an earlier copy.    *)
BridgeAcceptance(w, c, q, h, ok) ==
  /\ Call
  /\ ws[w].reg /\ ws[w].cands[c].state # "none"
  /\ LaneEvidence(q, h, c)
  /\ LET record == [NewDeploy(w, c, 0, reqs[q].id, 0, FALSE)
                    EXCEPT !.lane = q, !.pend = FALSE, !.hist = "succeeded"]
         old == {d \in DOMAIN deps : deps[d].lane = q}
     IN /\ IF old = {} THEN Len(deps) < plan.deploys ELSE reqs[q].agent # Nobody
        /\ \E copies \in IF old = {} THEN {Append(deps, record)}
                           ELSE {[deps EXCEPT ![d] = record] : d \in old} :
             LET copied == [Co EXCEPT !.deps = copies]
             IN Mutate(<< copied >> \o AcceptSteps(copied, w, c, ok))

(* A merge needs the exact candidate in pre_merge, any other end nothing; a    *)
(* deployment still pending is left where it is.                               *)
Complete(w, outcome, c) ==
  /\ Call /\ ws[w].reg
  /\ outcome = "merged" => ws[w].cands[c].state = "pre_merge"
  /\ LET item == IF outcome = "merged"
                 THEN WithCand(ws[w], c, [ws[w].cands[c] EXCEPT !.state = "merged"]) ELSE ws[w]
         freed == [Co EXCEPT !.lease = Released(@, w)]
     IN Mutate(<< freed, WithWs(freed, w, [item EXCEPT !.state = outcome]) >>)

(* The caller reports what it has read of the pull request with head c.        *)
ReconcileExternal(w, c) ==
  /\ Call /\ ws[w].reg
  /\ LET seen == pr[c]
         item == IF ws[w].head = c THEN ws[w]
                 ELSE LET up == Upsert(ws[w], c, "nothing")
                      IN WithCand(up, c, [up.cands[c] EXCEPT !.state = "developing"])
         shut == seen = "closed" /\ item.state \notin FinalWs
         wins == seen = "merged" /\ item.state = "pre_merge"
         next == IF shut THEN [item EXCEPT !.state = "decision_required"]
                 ELSE IF wins THEN [WithCand(item, c, [item.cands[c] EXCEPT !.state = "merged"])
                                    EXCEPT !.state = "merged"]
                 ELSE item
         freed == [Co EXCEPT !.lease = IF shut \/ wins THEN Released(@, w) ELSE @]
     IN Mutate(<< freed, WithWs(freed, w, next) >>)

-----------------------------------------------------------------------------
(* Leases and time.                                                            *)

AcquireTest(w) ==
  /\ ToolIdle /\ plan.tests > 0
  /\ ws[w].reg /\ ws[w].head # 0
  /\ ~(test.live /\ test.ws # w)
  /\ test' = [ws |-> w, live |-> TRUE]
  /\ UNCHANGED <<ws, deps, calls, laneVars, lease, queueVars>>

ReleaseTest(w) ==
  /\ ToolIdle
  /\ test.ws = w
  /\ test' = NoTest
  /\ UNCHANGED <<ws, deps, calls, laneVars, lease, queueVars>>

ExpireTest ==
  /\ test.live
  /\ test' = [test EXCEPT !.live = FALSE]
  /\ UNCHANGED <<ws, deps, calls, laneVars, lease, queueVars>>

(* A reservation runs out (half an hour to six hours).                         *)
ExpireReservation ==
  /\ lease.by = "ws"
  /\ lease' = NoLease
  /\ UNCHANGED <<coordVars, laneVars, queueVars>>

(* A soft lock runs out; the states that renew themselves do not let it.       *)
ExpireLock(w) ==
  /\ ws[w].live /\ ws[w].state \notin AutoRenew
  /\ ws' = [ws EXCEPT ![w].live = FALSE]
  /\ UNCHANGED <<deps, test, calls, laneVars, lease, queueVars>>

CoordInit ==
  /\ ws = [w \in Workstreams |-> NoWorkstream]
  /\ deps = <<>> /\ test = NoTest /\ calls = 0

CoordStep ==
  \/ Pass \/ ExpireTest \/ ExpireReservation
  \/ \E w \in Teams :
       \/ AcquireTest(w) \/ ReleaseTest(w) \/ ExpireLock(w)
       \/ \E s \in Heartbeats : Heartbeat(w, s)
       \/ \E c \in Candidates :
            \/ Reserve(w, c) \/ ReconcileExternal(w, c)
            \/ \E asked \in Asked : Register(w, c, asked) \/ RegisterCandidate(w, c, asked)
            \/ \E result \in {"passed", "failed"} : RecordEvidence(w, c, result)
            \/ \E rank \in CallerRanks, id \in CallerIds, key \in CallerKeys, again \in BOOLEAN :
                 QueueDeployment(w, c, rank, id, key, again)
            \/ \E d \in DOMAIN deps, ok \in BOOLEAN : RecordAcceptance(w, c, d, ok)
            \/ \E q, h \in DOMAIN reqs, ok \in BOOLEAN : BridgeAcceptance(w, c, q, h, ok)
            \/ \E outcome \in Outcomes : Complete(w, outcome, c)
==============================================================================
