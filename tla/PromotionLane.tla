---------------------------- MODULE PromotionLane ----------------------------
(* The durable promotion lane of the MCP server                                *)
(* (services/pdp_mcp/promotion_control_v3.py with the functions                *)
(* promotion_control_v3_hardening.py replaces, and the enqueue and             *)
(* get_response of deployment_queue.py that call them).                        *)
(*                                                                             *)
(* The lane's memory is files: one per request, one per waiting request, one   *)
(* for the active ticket, one per archived ticket, and the lease shared with   *)
(* the coordinator.  Two threads of the server work on them under one lock:    *)
(* the tool thread, which serves one call at a time, and the background loop.  *)
(* Both let the lock go before they ask GitHub and before they publish.        *)
(*                                                                             *)
(* A section under the lock is the sequence of the states its file writes      *)
(* leave behind; a crash of the server keeps a proper prefix of it.            *)
EXTENDS AgentQueue, Sequences, FiniteSetsExt

CONSTANTS Commits,      \* candidate commits (numbers), each the head of one pull request
          Base,         \* the version of main a commit is integrated on
          Rank,         \* priority rank of a commit, from the files it changes
          DeployIds     \* deployment identifiers (numbers) a caller may use

(* A commit is a number so that 0 can stand for none.                          *)
ASSUME CommitsAssumption == Commits \subseteq Nat \ {0}
ASSUME IdsAssumption == DeployIds \subseteq Nat

VARIABLES
  reqs,     \* the request files, in the order of creation
  ready,    \* requests with a file in ready/
  active,   \* the active ticket file, or NoTicket
  archive,  \* the archived tickets
  thread,   \* what the tool thread and the loop are in the middle of
  main,     \* GitHub: number of merges into main
  pr,       \* GitHub: state of each commit's pull request
  cache,    \* commits with a cached attestation for the current main
  crashes

laneFiles == <<reqs, ready, active, archive>>
github == <<main, pr>>
laneVars == <<laneFiles, thread, github, cache, crashes>>

Candidates == {c \in Commits : c <= plan.commits}
CallerIds == {id \in DeployIds : id <= plan.ids}

Threads == {"tool", "loop"}
Idle == [pc |-> "idle", req |-> 0, id |-> 0, ticket |-> 0, main |-> 0, pr |-> "open"]
Stopped == [Idle EXCEPT !.pc = "stopped"]

NoTicket == [ticket |-> 0, req |-> 0, head |-> 0, main |-> 0, state |-> "none",
             agent |-> Nobody, health |-> 0, hagent |-> Nobody, accepted |-> FALSE]

RequestStates == {"ready", "waiting_promotion", "waiting_refresh", "dispatching", "deploying",
                  "health_pending", "acceptance", "pre_merge", "decision_required",
                  "succeeded", "failed", "merged"}
Blocking == {"dispatching", "deploying", "acceptance", "health_pending", "pre_merge",
             "decision_required"}
FinalTicket == {"merged", "failed", "cancelled", "stale_main"}
ForwardSuccess == {"acceptance", "pre_merge", "merged"}

\* Mutant: a new request gets the name of a state of the coordinator.
NewRequestQueued(kind, head, id, base, ticket, state) ==
  [kind |-> kind, head |-> head, id |-> id, main |-> base, ticket |-> ticket,
   state |-> IF state = "ready" THEN "queued" ELSE state, agent |-> Nobody, term |-> "none"]

NewRequest(kind, head, id, base, ticket, state) ==
  [kind |-> kind, head |-> head, id |-> id, main |-> base, ticket |-> ticket, state |-> state,
   agent |-> Nobody, term |-> "none"]

-----------------------------------------------------------------------------
(* Sections: what the writes of one critical section leave behind.             *)

Files == [reqs |-> reqs, ready |-> ready, active |-> active, archive |-> archive,
          lease |-> lease]

Install(f) == /\ reqs' = f.reqs /\ ready' = f.ready /\ active' = f.active
              /\ archive' = f.archive /\ lease' = f.lease

After(steps, f) == IF steps = <<>> THEN f ELSE steps[Len(steps)]

Unlocked(a) == \A b \in Threads \ {a} : thread[b].pc # "activate"

(* A tool call starts the loop if the server has been restarted.               *)
StartLoop(th) == [th EXCEPT !.loop = IF @.pc = "stopped" THEN Idle ELSE @]

(* The process dies: its threads forget what they were doing, the files stay.  *)
NoThreads == [b \in Threads |-> IF b = "tool" THEN Idle ELSE Stopped]
ServerDies ==
  /\ crashes < plan.crashes
  /\ thread' = NoThreads
  /\ crashes' = crashes + 1

(* Thread a runs the section and goes on as next; the crash forgets both.      *)
Section(a, steps, next) ==
  /\ Unlocked(a)
  /\ \/ Install(After(steps, Files)) /\ thread' = StartLoop([thread EXCEPT ![a] = next])
        /\ UNCHANGED crashes
     \/ /\ \E i \in 1..(Len(steps) - 1) : Install(steps[i])
        /\ ServerDies

WithReq(f, q, r) == [f EXCEPT !.reqs = [@ EXCEPT ![q] = r]]
WithActive(f, t) == [f EXCEPT !.active = t]
WithLease(f, t) == [f EXCEPT !.lease = [by |-> "lane", owner |-> t.ticket, head |-> t.head]]

(* The active file and then the lease, as every update of the ticket ends.     *)
TicketSteps(f, t) == << WithActive(f, t), WithLease(WithActive(f, t), t) >>

(* _archive_active_unlocked: history, the lease if it is this ticket's, active. *)
ArchiveSteps(f, t, state) ==
  LET kept == [f EXCEPT !.archive =
                 {u \in f.archive : u.ticket # t.ticket} \cup {[t EXCEPT !.state = state]}]
      freed == IF f.lease.by = "lane" /\ f.lease.owner = t.ticket
               THEN [kept EXCEPT !.lease = NoLease] ELSE kept
  IN << kept, freed, WithActive(freed, NoTicket) >>

Tickets(f) == {f.active.ticket} \cup {t.ticket : t \in f.archive}
              \cup {f.reqs[q].ticket : q \in DOMAIN f.reqs}

(* _activate_unlocked: a new ticket for request q, bound to main as attested.  *)
ActivateSteps(f, q, base) ==
  LET t == [ticket |-> Max(Tickets(f)) + 1, req |-> q, head |-> f.reqs[q].head, main |-> base,
            state |-> "dispatching", agent |-> f.reqs[q].agent, health |-> 0, hagent |-> Nobody,
            accepted |-> FALSE]
      taken == WithActive(f, t)
      noted == WithReq(taken, q, [f.reqs[q] EXCEPT !.state = "dispatching",
                                                   !.ticket = t.ticket, !.main = base])
  IN << taken, noted, WithLease(noted, t) >>

(* The hardened status read: a dispatched request that is old and has no agent *)
(* id is moved to decision_required, and its ticket with it.                   *)
StatusSteps(f, q) ==
  LET r == f.reqs[q]
      lost == WithReq(f, q, [r EXCEPT !.state = "decision_required"])
  IN IF r.state \in {"dispatching", "deploying", "health_pending"} /\ r.agent = Nobody
     THEN << lost >> \o
          IF f.active.ticket = r.ticket /\ f.active # NoTicket
          THEN TicketSteps(lost, [f.active EXCEPT !.state = "decision_required"]) ELSE <<>>
     ELSE <<>>

LaneFree == active = NoTicket /\ lease = NoLease /\ ~AgentBusy

(* _ready_records_unlocked sorts by rank, then by age: aging takes at most 30  *)
(* off a rank and never lifts one class over the next.                         *)
First(q) == q \in ready /\ \A p \in ready : \/ Rank[reqs[q].head] < Rank[reqs[p].head]
                                            \/ Rank[reqs[q].head] = Rank[reqs[p].head] /\ q <= p

(* attest_commit: an open pull request whose head is the commit, not behind    *)
(* the current main (its workflows are green: others are not candidates).      *)
Attestable(c) == pr[c] = "open" /\ Base[c] = main

-----------------------------------------------------------------------------
(* deployment_queue.enqueue, deployment actions, on the tool thread.           *)

ToolIdle == thread.tool.pc = "idle"

(* The attestation is read before the lock is taken; a cached one answers for  *)
(* a while, as long as its main is the main.  A refused one changes nothing.   *)
Cached(c) == c \in cache
EnqueueDeployment(c, id) ==
  /\ ToolIdle /\ Len(reqs) < plan.requests
  /\ Attestable(c) \/ Cached(c)
  /\ cache' = cache \cup {c}
  /\ thread' = StartLoop([thread EXCEPT !.tool = [Idle EXCEPT !.pc = "admit", !.req = c,
                                                              !.id = id, !.main = main]])
  /\ UNCHANGED <<laneFiles, github, crashes, lease, queueVars>>

(* before_enqueue under the lock: an equal candidate (its commit and its       *)
(* deployment id) that is active or waiting answers; otherwise the request is  *)
(* written, and waits unless the lane, the lease and the agent are all free.   *)
Same(q, c, id) == reqs[q].head = c /\ reqs[q].id = id
Existing(c, id) ==
  IF active # NoTicket /\ Same(active.req, c, id) THEN {active.req}
                                                ELSE {q \in ready : Same(q, c, id)}

Admit ==
  /\ thread.tool.pc = "admit"
  /\ LET c == thread.tool.req
         id == thread.tool.id
         f == Files
         q == Len(reqs) + 1
         new == NewRequest("deploy", c, id, thread.tool.main, 0, "ready")
         written == [f EXCEPT !.reqs = Append(@, new)]
         parked == WithReq(written, q, [new EXCEPT !.state = "waiting_promotion"])
     IN IF Existing(c, id) # {}
        THEN \E p \in Existing(c, id), late \in BOOLEAN :
               Section("tool", IF late THEN StatusSteps(f, p) ELSE <<>>, Idle)
        ELSE IF LaneFree
        THEN Section("tool", << written >>,
                     [Idle EXCEPT !.pc = "activate", !.req = q, !.main = thread.tool.main])
        ELSE Section("tool", << written, parked, [parked EXCEPT !.ready = @ \cup {q}] >>, Idle)
  /\ UNCHANGED <<github, cache, queueVars>>

(* The rest of the section that found the lane free.  Only the lane's own lock *)
(* is held: the coordinator may write the lease in between.  The loop also     *)
(* removes the waiting file.                                                   *)
Activate(a) ==
  /\ thread[a].pc = "activate"
  /\ LET q == thread[a].req
         steps == ActivateSteps(Files, q, thread[a].main)
         f == After(steps, Files)
     IN Section(a, IF a = "loop" THEN Append(steps, [f EXCEPT !.ready = @ \ {q}]) ELSE steps,
                [Idle EXCEPT !.pc = "bind", !.req = q, !.ticket = f.active.ticket])
  /\ UNCHANGED <<github, cache, queueVars>>

(* A health check that names the deployment id of the active ticket joins it;  *)
(* it needs no particular state of the ticket.                                 *)
EnqueueHealth ==
  /\ ToolIdle /\ Len(reqs) < plan.requests
  /\ active # NoTicket
  /\ LET q == Len(reqs) + 1
         new == NewRequest("health", active.head, reqs[active.req].id, active.main, active.ticket,
                           "dispatching")
         written == [Files EXCEPT !.reqs = Append(@, new)]
     IN Section("tool",
                << written >> \o TicketSteps(written, [active EXCEPT !.state = "health_pending",
                                                                     !.health = q]),
                [Idle EXCEPT !.pc = "bind", !.req = q, !.ticket = active.ticket])
  /\ UNCHANGED <<github, cache, queueVars>>

AgentId(a) == LET r == reqs[thread[a].req] IN
  IF r.kind = "health" THEN Request("health", thread[a].req, "health", r.head)
                       ELSE Request("ticket", thread[a].ticket, "deploy", r.head)

\* Mutant: the agent id is known to the ticket only.
BoundLate(r, a) ==
  [r EXCEPT !.state = IF r.kind = "deploy" THEN "deploying" ELSE "health_pending"]

Bound(r, a) ==
  [r EXCEPT !.agent = AgentId(a),
            !.state = IF r.kind = "deploy" THEN "deploying" ELSE "health_pending"]

(* after_enqueue: the agent id is stored in the request before the signed file *)
(* becomes visible, and in the ticket if it is still this request's.           *)
Bind(a) ==
  /\ thread[a].pc = "bind"
  /\ LET q == thread[a].req
         r == reqs[q]
         bound == WithReq(Files, q, Bound(r, a))
         t == IF r.kind = "deploy"
              THEN [active EXCEPT !.agent = AgentId(a), !.state = "deploying"]
              ELSE [active EXCEPT !.hagent = AgentId(a), !.state = "health_pending"]
     IN Section(a, << bound >> \o IF active # NoTicket /\ active.ticket = r.ticket
                                  THEN TicketSteps(bound, t) ELSE <<>>,
                [thread[a] EXCEPT !.pc = "publish"])
  /\ UNCHANGED <<github, cache, queueVars>>

(* enqueue raises before the binding (no space, no temporary file): the loop   *)
(* moves its ticket to decision_required, the tool thread lets the caller know. *)
BindFails(a) ==
  /\ thread[a].pc = "bind"
  /\ Section(a, IF a = "loop" /\ active.ticket = thread[a].ticket
                THEN TicketSteps(Files, [active EXCEPT !.state = "decision_required"]) ELSE <<>>,
             Idle)
  /\ UNCHANGED <<github, cache, queueVars>>

Publish(a) ==
  /\ thread[a].pc = "publish"
  /\ incoming' = incoming \cup {AgentId(a)}
  /\ thread' = [thread EXCEPT ![a] = Idle]
  /\ UNCHANGED <<laneFiles, lease, github, cache, crashes, plan, others, agentVars>>

(* publish_failed: the request fails and its ticket is archived.               *)
PublishFails(a) ==
  /\ thread[a].pc = "publish"
  /\ LET q == thread[a].req
         failed == WithReq(Files, q, [reqs[q] EXCEPT !.agent = AgentId(a), !.state = "failed",
                                                     !.term = "not_published"])
     IN Section(a, << failed >> \o IF active # NoTicket /\ active.ticket = reqs[q].ticket
                                   THEN ArchiveSteps(failed, active, "failed") ELSE <<>>,
                Idle)
  /\ UNCHANGED <<github, cache, queueVars>>

-----------------------------------------------------------------------------
(* deployment_queue.get_response on the tool thread.                           *)

(* observe_response of a deployment.  A success already counted is not counted *)
(* again; a failure archives the ticket.                                       *)
DeployAnswerSteps(q, ans) ==
  LET r == reqs[q]
      state == IF ~ans.ok THEN "failed" ELSE IF ans.accepted THEN "pre_merge" ELSE "acceptance"
      noted == WithReq(Files, q, [r EXCEPT !.state = state,
                                           !.term = IF ans.ok THEN "succeeded" ELSE "failed"])
      mine == active # NoTicket /\ active.ticket = r.ticket
  IN IF ans.ok /\ r.state \in ForwardSuccess THEN <<>>
     ELSE << noted >> \o
          IF ~ans.ok THEN IF mine THEN ArchiveSteps(noted, active, "failed") ELSE <<>>
          ELSE IF mine /\ active.state # "pre_merge"
               THEN TicketSteps(noted, [active EXCEPT !.state = state,
                                                      !.accepted = @ \/ ans.accepted])
               ELSE <<>>

\* Mutant: any answer to a health check accepts the ticket.
VerdictOnAnything(t, a, ok) == [t EXCEPT !.state = "pre_merge", !.accepted = TRUE, !.hagent = a]

HealthVerdict(t, a, ok) ==
  IF ok THEN [t EXCEPT !.state = "pre_merge", !.accepted = TRUE, !.hagent = a]
        ELSE [t EXCEPT !.state = "decision_required"]

(* observe_response of a health check: it moves the ticket it was made for,    *)
(* each time the answer is read.                                               *)
HealthAnswerSteps(q, ans) ==
  LET r == reqs[q]
      noted == WithReq(Files, q, [r EXCEPT !.state = IF ans.ok THEN "succeeded" ELSE "failed",
                                           !.term = IF ans.ok THEN "succeeded" ELSE "failed"])
  IN << noted >> \o
     IF active = NoTicket \/ active.ticket # r.ticket THEN <<>>
     ELSE TicketSteps(noted, HealthVerdict(active, r.agent, ans.ok))

Observe(q) ==
  /\ ToolIdle
  /\ \E ans \in responses :
       /\ ans.req = reqs[q].agent
       /\ Section("tool", IF reqs[q].kind = "deploy" THEN DeployAnswerSteps(q, ans)
                                                     ELSE HealthAnswerSteps(q, ans), Idle)
  /\ UNCHANGED <<github, cache, queueVars>>

(* A status read of a request the agent has not been bound to for long.        *)
OrphanStatus(q) ==
  /\ ToolIdle
  /\ StatusSteps(Files, q) # <<>>
  /\ Section("tool", StatusSteps(Files, q), Idle)
  /\ UNCHANGED <<github, cache, queueVars>>

(* Any lane call (a queue status, say) starts the loop after a restart.        *)
TouchLane ==
  /\ ToolIdle /\ thread.loop.pc = "stopped"
  /\ thread' = StartLoop(thread)
  /\ UNCHANGED <<laneFiles, lease, github, cache, crashes, queueVars>>

-----------------------------------------------------------------------------
(* The loop: reconcile the active ticket with GitHub, then dispatch.           *)

LoopIdle == thread.loop.pc = "idle"

ReconcileStart ==
  /\ LoopIdle /\ active # NoTicket
  /\ Section("loop", << WithLease(Files, active) >>,
             [Idle EXCEPT !.pc = "read_pr", !.ticket = active.ticket, !.req = active.head])
  /\ UNCHANGED <<github, cache, queueVars>>

(* The pull request is read first and main second; GitHub moves in between.    *)
ReconcileReadPR ==
  /\ thread.loop.pc = "read_pr"
  /\ thread' = [thread EXCEPT !.loop.pc = "read_main", !.loop.pr = pr[thread.loop.req]]
  /\ UNCHANGED <<laneFiles, lease, github, cache, crashes, queueVars>>

(* A ticket whose pull request was merged or closed, or whose main is not the  *)
(* current one any more, leaves the lane, whatever the agent is doing for it.  *)
ReconcileApply ==
  /\ thread.loop.pc = "read_main"
  /\ LET q == active.req
         merged == WithReq(Files, q, [reqs[q] EXCEPT !.state = "merged"])
         seen == thread.loop.pr
         steps == IF active = NoTicket \/ active.ticket # thread.loop.ticket THEN <<>>
                  ELSE IF seen = "merged" THEN << merged >> \o ArchiveSteps(merged, active, "merged")
                  ELSE IF seen = "closed" THEN ArchiveSteps(Files, active, "cancelled")
                  ELSE IF main # active.main THEN ArchiveSteps(Files, active, "stale_main")
                  ELSE <<>>
     IN Section("loop", steps, Idle)
  /\ UNCHANGED <<github, cache, queueVars>>

ReconcileUnreachable ==
  /\ thread.loop.pc \in {"read_pr", "read_main"}
  /\ thread' = [thread EXCEPT !.loop = Idle]
  /\ UNCHANGED <<laneFiles, lease, github, cache, crashes, queueVars>>

DispatchSelect ==
  /\ LoopIdle /\ LaneFree /\ Unlocked("loop")
  /\ \E q \in ready : First(q)
       /\ thread' = [thread EXCEPT !.loop = [Idle EXCEPT !.pc = "attest", !.req = q]]
  /\ UNCHANGED <<laneFiles, lease, github, cache, crashes, queueVars>>

DispatchAttested ==
  /\ thread.loop.pc = "attest"
  /\ LET c == reqs[thread.loop.req].head IN Attestable(c) /\ cache' = cache \cup {c}
  /\ thread' = [thread EXCEPT !.loop.pc = "claim", !.loop.main = main]
  /\ UNCHANGED <<laneFiles, lease, github, crashes, queueVars>>

\* Mutants: the state of the request is not noted; its waiting file stays.
RefusedUnnoted(q) == << [Files EXCEPT !.ready = @ \ {q}] >>
RefusedWaiting(q) == << WithReq(Files, q, [reqs[q] EXCEPT !.state = "waiting_refresh"]) >>

RefusedSteps(q) ==
  LET noted == WithReq(Files, q, [reqs[q] EXCEPT !.state = "waiting_refresh"])
  IN << noted, [noted EXCEPT !.ready = @ \ {q}] >>

(* A refused attestation, and an unreachable GitHub as well, takes the request *)
(* out of the waiting files.                                                   *)
DispatchRefused ==
  /\ thread.loop.pc = "attest"
  /\ Section("loop", RefusedSteps(thread.loop.req), Idle)
  /\ UNCHANGED <<github, cache, queueVars>>

(* The lane is looked at again under the lock; the activation follows.         *)
DispatchClaim ==
  /\ thread.loop.pc = "claim"
  /\ Section("loop", <<>>, IF LaneFree THEN [thread.loop EXCEPT !.pc = "activate"] ELSE Idle)
  /\ UNCHANGED <<github, cache, queueVars>>

-----------------------------------------------------------------------------
(* GitHub and the process.                                                     *)

(* Somebody merges a pull request, up to date or not: main moves.              *)
MergePullRequest(c) ==
  /\ pr[c] = "open" /\ main < plan.merges /\ main >= Base[c]
  /\ pr' = [pr EXCEPT ![c] = "merged"]
  /\ main' = main + 1
  /\ cache' = {}
  /\ UNCHANGED <<laneFiles, thread, crashes, lease, queueVars>>

ClosePullRequest(c) ==
  /\ pr[c] = "open" /\ main >= Base[c] /\ Cardinality({b \in Commits : pr[b] = "closed"}) < plan.closes
  /\ pr' = [pr EXCEPT ![c] = "closed"]
  /\ UNCHANGED <<laneFiles, thread, main, cache, crashes, lease, queueVars>>

(* The server dies between two sections; a lane lease outlives at most its 24  *)
(* hours.                                                                      *)
Crash ==
  /\ ServerDies
  /\ lease' \in {lease, IF lease.by = "lane" THEN NoLease ELSE lease}
  /\ UNCHANGED <<laneFiles, github, cache, queueVars>>

LaneInit ==
  /\ reqs = <<>> /\ ready = {} /\ active = NoTicket /\ archive = {}
  /\ thread = NoThreads
  /\ main = 0 /\ pr = [c \in Commits |-> "open"] /\ cache = {} /\ crashes = 0

ToolStep ==
  \/ \E c \in Candidates, id \in CallerIds : EnqueueDeployment(c, id)
  \/ Admit \/ EnqueueHealth \/ TouchLane
  \/ Activate("tool") \/ Bind("tool") \/ BindFails("tool")
  \/ Publish("tool") \/ PublishFails("tool")
  \/ \E q \in DOMAIN reqs : Observe(q) \/ OrphanStatus(q)

LoopStep ==
  \/ ReconcileStart \/ ReconcileReadPR \/ ReconcileApply \/ ReconcileUnreachable
  \/ DispatchSelect \/ DispatchAttested \/ DispatchRefused \/ DispatchClaim
  \/ Activate("loop") \/ Bind("loop") \/ BindFails("loop")
  \/ Publish("loop") \/ PublishFails("loop")

GitHubStep == \E c \in Candidates : MergePullRequest(c) \/ ClosePullRequest(c)
==============================================================================
