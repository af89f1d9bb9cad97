----------------------------- MODULE AgentQueue -----------------------------
(* The file queue between the MCP server and the Windows deployment agent     *)
(* (services/pdp_mcp/deployment_queue.py and                                   *)
(* scripts/windows/Deployment-Agent.Standard.ps1).  A signed request is a file *)
(* of incoming; the agent moves it to processing, executes it, writes the      *)
(* answer to responses, marks it as processed and removes it.  One agent runs   *)
(* (it holds a mutex), so requests execute one after the other.  The queue     *)
(* also holds the one promotion lease file that the promotion lane and the     *)
(* deployment coordinator share.                                               *)
EXTENDS Naturals, FiniteSets

(* The bounds of a behaviour: how often each party may move on its own in the   *)
(* whole run.  Init takes one of Plans, so that one run explores several.       *)
CONSTANT Plans

PlanFields == {"others",    \* diagnostics, maintenance ... requests
               "stops",     \* deaths of the agent at work
               "slips",     \* failures of the agent after it has answered
               "requests",  \* deployment and health requests to the lane
               "merges",    \* merges into main
               "closes",    \* pull requests closed without a merge
               "crashes",   \* crashes of the MCP server
               "calls",     \* coordinator tool calls
               "deploys",   \* coordinator deployments
               "commits",   \* commits that take part
               "teams",     \* workstreams that take part
               "tests",     \* whether the live-test lease is taken
               "ids",       \* deployment ids in use
               "keys",      \* compatibility keys in use
               "ranks"}     \* the last priority rank in use

ASSUME PlansAssumption == Plans \subseteq [PlanFields -> Nat]

VARIABLES
  plan,        \* the bounds of this behaviour
  incoming,    \* signed requests the agent has not taken
  processing,  \* requests taken and not yet removed
  working,     \* the request the running agent executes, or Nobody
  told,        \* the running agent has answered it with success
  responses,   \* the answer files: at most one per request
  done,        \* requests carried out and answered with success, once at least
  marked,      \* requests with a processed marker: a replay is refused
  lease,       \* the promotion lease file, or NoLease
  others,      \* unmanaged requests submitted so far
  stops,       \* agent deaths so far
  slips        \* successes replaced by a failed answer so far

agentVars == <<processing, working, told, responses, done, marked, stops, slips>>
queueVars == <<plan, incoming, others, agentVars>>

Nobody == [of |-> "nobody", n |-> 0]
NoLease == [by |-> "nobody", owner |-> 0, head |-> 0]

Request(of, n, kind, head) == [of |-> of, n |-> n, kind |-> kind, head |-> head]

Answered(a) == \E r \in responses : r.req = a
Succeeded(a) == \E r \in responses : r.req = a /\ r.ok

(* A response file replaces the one of the same request. *)
Answer(a, ok, accepted) ==
  {r \in responses : r.req # a} \cup {[req |-> a, ok |-> ok, accepted |-> accepted]}

(* _agent_busy and _active_agent_request_count: any file of the two folders. *)
AgentBusy == incoming \cup processing # {}

AgentInit ==
  /\ plan \in Plans
  /\ incoming = {} /\ processing = {} /\ working = Nobody /\ told = FALSE
  /\ responses = {} /\ done = {} /\ marked = {} /\ others = 0 /\ stops = 0 /\ slips = 0

(* An action outside the lane (diagnostics, disk maintenance, generic health   *)
(* ...) is enqueued without a ticket.                                          *)
EnqueueUnmanaged ==
  /\ others < plan.others
  /\ others' = others + 1
  /\ incoming' = incoming \cup {Request("other", others + 1, "other", 0)}
  /\ UNCHANGED <<plan, agentVars, lease>>

AgentTake ==
  /\ working = Nobody
  /\ \E a \in incoming :
       /\ incoming' = incoming \ {a}
       /\ processing' = processing \cup {a}
       /\ working' = a
  /\ UNCHANGED <<plan, told, responses, done, marked, lease, others, stops, slips>>

(* The request leaves processing and the agent is free for the next.           *)
Dropped == processing' = processing \ {working} /\ working' = Nobody /\ told' = FALSE

(* The action succeeds and the answer is written.  A composite promotion may   *)
(* also report that the runtime passed its own health check.                   *)
AgentSucceed ==
  /\ working # Nobody /\ ~told
  /\ working \notin marked
  /\ \E accepted \in (IF working.kind = "deploy" THEN BOOLEAN ELSE {FALSE}) :
       responses' = Answer(working, TRUE, accepted)
  /\ done' = done \cup {working}
  /\ told' = TRUE
  /\ UNCHANGED <<plan, incoming, processing, working, marked, lease, others, stops, slips>>

(* After the answer: the marker, the audit, and the request is removed.        *)
AgentFinish ==
  /\ told
  /\ marked' = marked \cup {working}
  /\ Dropped
  /\ UNCHANGED <<plan, incoming, responses, done, lease, others, stops, slips>>

(* The action fails, the request has expired, or it has its marker and is      *)
(* refused as a replay: a failed answer, and the file moves to rejected.       *)
AgentFail ==
  /\ working # Nobody /\ ~told
  /\ responses' = Answer(working, FALSE, FALSE)
  /\ Dropped
  /\ UNCHANGED <<plan, incoming, done, marked, lease, others, stops, slips>>

(* The marker, the audit or the removal raises: the same handler writes a      *)
(* failed answer over the success; the marker is there or not.                 *)
AgentSlip ==
  /\ told
  /\ slips < plan.slips
  /\ slips' = slips + 1
  /\ marked' \in {marked, marked \cup {working}}
  /\ responses' = Answer(working, FALSE, FALSE)
  /\ Dropped
  /\ UNCHANGED <<plan, incoming, done, lease, others, stops>>

(* The agent dies at work.  Its next incarnation reads incoming only, so the   *)
(* file stays in processing.                                                   *)
AgentStop ==
  /\ working # Nobody
  /\ stops < plan.stops
  /\ stops' = stops + 1
  /\ marked' \in {marked, IF told THEN marked \cup {working} ELSE marked}
  /\ working' = Nobody /\ told' = FALSE
  /\ UNCHANGED <<plan, incoming, processing, responses, done, lease, others, slips>>

AgentStep == AgentTake \/ AgentSucceed \/ AgentFinish \/ AgentFail
==============================================================================
