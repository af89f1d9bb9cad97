# A verification of the PDP-One procurement backend and its deployment lane

PDP-One collects procurement notices from public sources into PostgreSQL, has them
analysed by ChatGPT workers through an MCP server, and shows the drafts to people who
review them, open cases and follow opportunities. The MCP server also brings reviewed
commits into the running system, through a Windows agent. This directory holds TLA+
specifications of the parts that keep state, the TLC configurations that check them on small
instances, and TLAPS proofs that do not depend on the size of the instance. Paths below
are relative to `backend/procurement/` unless they begin with another directory of the
repository.

## 1. The system

### Components

| Component | State | Operations | Modelled |
|---|---|---|---|
| Analysis run engine: `analysis_run_service.py`, `analysis_run_service_v2.py`, `analysis_run_adaptive.py`, `analysis_claim_recovery.py`, `analysis_claim_integrity.py`, `analysis_throughput.py`, `models_analysis_runs.py` | runs, items (the work queue), drafts | create, initialize, admit, claim, renew, import, pause, resume, cancel, finalize | `AnalysisRun` (partly: no datasets) |
| Celery tasks: `tasks_analysis_runs.py` | messages in Redis | initialize, continue, hourly dispatch | `AnalysisRunTasks` (partly: no datasets) |
| Integrity repair: `analysis_reconciliation.py` | none of its own | snapshot with `repair=True` | `AnalysisRepair` |
| Throughput policy: `analysis_throughput.py` | none; a function of the counted hour | plan of lanes, packages, ramp | `ThroughputPolicy` (partly: no labels) |
| Ingestion and extraction: `ingestion.py`, `tasks.py`, `tasks_automation.py`, `tasks_connector_acceptance*.py`, `connectors/` | source rows, revisions, notices, extraction runs, report of the acceptance test | list, detail, ingest, schedule, recover, accept | `SourceNotices`, `Extraction`, `ConnectorAcceptance` (partly: no parsing) |
| Automation settings: `views_automation.py`, `automation_utils.py` | one row | save, pause for the acceptance test | in `Extraction`, `ConnectorAcceptance` |
| Analysis Contexts: `views_analysis_management.py` | versions, one active | draft, edit, attach, detach, activate | `AnalysisDesk` |
| Analysis on request: `analysis_workflow.py`, `views_analysis.py`, `backend/core/procurement_analysis_bridge_v2/v5/v6.py` | requests, batches, drafts | start, add and close a batch, store a draft, finish, complete | `AnalysisDesk` (partly) |
| Reviews and cases: `views_review.py`, `views_case_actions.py` and the other case views | review status, flag, type, cases, documents, contracts | review, dismiss, create, move, delete, upload, follow up, draft a contract | `AnalysisDesk`, `CaseDesk` (partly) |
| Interaction contract: `interaction_contract.py` | write leases, revision, journal, pending actions | arm, disarm, prepare, confirm, command | `InteractionContract` |
| Direct opportunities: `views_direct.py`, `backend/core/procurement_analysis_bridge_v7.py` | opportunities, results | create, update, hide, contact, result, revise, trial | `DirectOpportunities` (partly) |
| Promotion lane: `services/pdp_mcp/promotion_control_v3.py` and its hardening, `deployment_queue.py` | requests, tickets, lease as files | submit, attest, activate, bind, publish, observe, reconcile | `PromotionLane` (partly) |
| Coordinator: `services/pdp_mcp/deployment_coordinator.py` | workstreams, candidates, deployments, leases as files | register, reserve, queue, dispatch, reconcile, accept, complete | `DeploymentCoordinator` (partly) |
| Windows agent: `scripts/windows/` | the queue's folders | take, answer, stop | `AgentQueue` (partly: the queue side) |
| MCP tools: `services/pdp_mcp/server.py` | none | forward; bridge the lane's acceptance | the bridge only |
| Web UI `app/procurement/`, read models, `backend/core` | none the rest depends on | | no |

### How the parts interact

- `apps.py` replaces functions of the service at start-up, in layers: legacy service, v2
  (cancel), recovery, integrity (claim, renew, import, admit). The models are of the result:
  what a URL reaches after the last layer. `analysis/runs/<id>/claim/` reaches
  `claim_analysis_work_adaptive`; the older claim function is reached by nothing.
- A worker's claim request is two transactions, admission and claim. Each takes the row lock
  of the run first (`select_for_update`), as every operation of the engine does; so
  operations on one run are atomic for each other, and the interleavings are those of whole
  operations. Those of several runs meet only in the unique constraint
  `proc_analysis_single_active_run`.
- Ingestion, reviewers and administrators write notices, drafts and contexts without that
  lock, at any time between two operations. For the engine they are an environment that
  writes what it likes; their own rules are in the models of the desks and of extraction.
- The continuation task and the integrity repair do not take the lock. They read, and write
  later what they decided by what they read.
- The response to a claim is data in the hands of a worker, who may answer at any time,
  several times, or never; by then the claim may have lapsed, or been given to another, or
  the notice or the context may have changed.

- Most web requests are several statements in autocommit: read a row, decide, save it whole,
  then touch another table. Two requests interleave statement by statement, and a saved row
  carries everything it was loaded with.
- The scheduled dispatcher, the recovery, manual requests, workers and the acceptance test
  share the tables of extraction runs, connectors and settings. A worker never looks at the
  row of its run before its last save.
- The promotion lane and the coordinator are two controllers with a lock each. They share one
  lease file and one queue of the agent, which neither lock covers. GitHub is asked outside
  the locks, so an answer may be old when it is applied. The agent is another process that
  sees only the queue's folders.

### What is hard here

Stale answers (changed content, replaced context, lapsed or repeated claims), many exits
from one state in several files, renewals against expiry, several workers against one cap,
runs that end while work is still out, unlocked read-decide-write sequences, lost
messages, crashes between two file writes, lists that end early, and two controllers on one
lease. `hazards` in PROJECT.json lists each at its line with the property that
watches it, or the reason why none does yet.

### What makes each part correct

- *Engine*: exclusive live claims; one settlement of an item, by the token that holds it;
  settled work stays; the claim columns agree; reservations end and are bounded; open work
  follows the context; finished runs have no open work; completed and skipped items have a
  stored analysis of what they name; a result is of the content it is stored for.
- *Tasks*: a run with no work left is closed in the end; a run is not closed unscanned.
- *Repair*: no notice is left without analysis or open work; live claims are untouched.
- *Extraction*: a revision says something new; a deadline moves only with a revision; a complete
  list left nothing out; success means every connector was read to its end; details are not
  lost; a due extraction is dispatched whoever died.
- *Acceptance test*: a report of success rests on a successful test of every connector that was
  tested; the automation comes back.
- *Desks*: one active context; the flag of a notice follows its latest draft; a notice with a
  case is protected; a command selects under a lease and is accounted for in the journal; the
  final stage of an opportunity has its result.
- *Lane, coordinator*: what is published can be found again; acceptance is earned by an executed
  deployment of the very commit; a repeated call does not deploy a head again; the lease changes
  hands in known ways only; deployments get a result.
- *Throughput*: the plan reaches the stage it asks for, or all that is left.

## 2. The modules

| Module | What it is |
|---|---|
| `AnalysisRun` | the engine: one action for each operation, and the environment around it |
| `ClaimLedger` | the abstract specification: what the queue promises of each entry |
| `AnalysisRunTasks` | extends `AnalysisRun` by the Celery tasks, their messages and their deaths |
| `AnalysisRepair` | extends `AnalysisRun` by the repair in its steps |
| `AnalysisRunProofs` | inductive invariant and invariance theorems of `AnalysisRun`; the tasks keep it |
| `AnalysisRunLedgerProofs` | `AnalysisRun` implements `ClaimLedger`; bounded holds, fresh results, evidence |
| `AnalysisRepairProofs` | inductive invariant and theorems of `AnalysisRepair` |
| `ThroughputPolicy` | the plan of the lanes, as functions, and the loop it closes |
| `SourceNotices` | what ingestion stores of one listed record |
| `Extraction` | runs from request to last save, schedule and recovery |
| `ConnectorAcceptance` | the acceptance test over the same tables |
| `ExtractionSystem` | the three together, fairness, properties |
| `ExtractionProofs` | inductive invariant and theorems of `ExtractionSystem` |
| `WebCalls` | a web request as a sequence of statements |
| `AnalysisDesk` | contexts, requests and batches, drafts, reviews |
| `CaseDesk` | cases with documents, contracts and protection |
| `InteractionContract` | write leases, pending selections, the selecting command |
| `DirectOpportunities` | opportunities, results, the guarded trial |
| `WorkflowSystem` | the desks together, properties |
| `WorkflowProofs` | inductive invariant of the desks, one lemma for each statement of a request |
| `BackendSystem` | extraction, desks and throughput loop side by side |
| `BackendProofs` | the plan suffices; theorems of the composed backend and of the desks in it |
| `AgentQueue` | the agent's queue and the shared lease |
| `PromotionLane` | the durable lane: requests, tickets, two threads, GitHub, crashes |
| `DeploymentCoordinator` | workstreams, deployments, acceptance and the bridge from the lane |
| `PromotionSystem` | agent, lane and coordinator together, fairness, properties |
| `PromotionLaneProofs` | the lane's files after every write, and its threads |
| `PromotionProofs` | coordinator and lane together: invariants and theorems of `PromotionSystem` |
| `MC...` | symmetry sets, plans, scenes and loads for TLC |

Two chains of EXTENDS lead to the composed systems: `AgentQueue`, `PromotionLane`,
`DeploymentCoordinator`, `PromotionSystem`; and `SourceNotices`, `Extraction`,
`ConnectorAcceptance`, `ExtractionSystem` beside `WebCalls`, `AnalysisDesk`, (`CaseDesk`,
`InteractionContract`) and `DirectOpportunities`, `WorkflowSystem`, joined in
`BackendSystem`. Each extending module leaves the inherited variables alone or names them.

### AnalysisRun

State. `run[r]` is the row of a run, `item[r][n]` the item of notice `n` in run `r` (status
`absent` when there is no row), `drafts` the draft rows by their unique key,
`returned` the drafts sent back by a reviewer, `content`, `visible` and `active` the
notices as stored, those the candidate query finds, and the active context. `tickets` are
the responses workers may still answer. An item's `basis` is the hash captured at the claim
(`screening._claim_integrity`); `settled` and a result's `kind` are history fields that no
guard reads; of a result's data the model keeps what the worker has read (`sem`), under
which context, and whether it was a compact result.

Actions. `Create`, `Initialize`, `Admit`, `Pause`, `Resume`, `Cancel`, `Renew` and
`Import` are the functions of these names. `claim_newest_run_items` has three outcomes:
`ClaimHeldSlice`, `ClaimNewReservation` and `ClaimNothing`; each contains the rebinding to
the active context, the expiry of old claims, the reconciliation of redundant reanalysis
when it is due, and the finalization that may follow. `RebindOnly` is a claim of a paused
or cancelled run and the dry run of an import. `Import` contains the rebinding, the basis
check of the integrity layer, the checks of the service in their order (`Verdict`), the
drafts, the finalization and the rolling renewal.

Decisions worth knowing:

- A hash is the content that is hashed, `[sem, meta]`: `sem` is the compact basis a worker
  sees, `meta` the rest of `notice_basis_payload`. The goods and service groups are in the
  compact basis without being hashed (they come from `raw_payload`); the model leaves them
  out. That a refresh may change them under the same hash is listed as a hazard.
- Time is `left`, the ticks until a lease ends, and `age`, the ticks since the reservation;
  `Tick` moves all. `age` stops counting above `HardAge`, where it no longer matters.
- Which open items are reserved and which held items form the next slice is any choice; the
  code sorts by dates. What the candidate query leaves out by deadline, visibility and
  retention is one set, `visible`, and the repair uses the same one.
- A batch has at most one result for an item. Contexts are numbered in order of activation.
- A claim of a finished or pending run raises and is rolled back, so it is no action. An
  operation that would break the unique constraint is rolled back as well.
- `initialize_run` scans with a cursor; the model takes the scan as one step. Statuses that
  nothing assigns, or that only exist inside a transaction, are left out; a comment in the
  module names them.

### AnalysisRunTasks

`queue` holds the messages sent and not yet received, `cont[r]` a continuation between its
statements. `ReceiveContinue`, `CountOpen`, then `ContinueFinalize` or `ContinueSave`
follow the lines of `continue_analysis_run_task`; between them every operation may commit,
and `ContinueDies` ends it. Messages are acknowledged early (Celery's default), so a
message received by a worker that dies is lost. `StartAndDie` is the commit whose message
was never sent. A second equal message in the broker is the same element of the set: the
tasks are idempotent while the first has not been received.

### AnalysisRepair

`copy` is what a repair has read (`RepairRead`), then what it has decided for each visible
notice (`RepairDecide`); `RepairWrite` writes whole rows, as `item.save` does, and inserts
missing ones unless they have come to exist. The code's reads before the loop are merged
into one step, and its writes into one: the notices come from one cursor, and the writes
are seen together at the commit. The reasons a repair gives are all the value `eligible`
of the model. The lease of a claim is compared at the time of the first read, as the code
compares it with a `now` taken there.

### AgentQueue, PromotionLane, DeploymentCoordinator

State. `reqs`, `ready`, `active`, `archive` are the lane's files; `thread[a]` is what the tool
thread or the loop is in the middle of; `ws`, `deps`, `test` are the coordinator's files (a
record of `deps` joins the pending and the history file of one deployment); `incoming`,
`processing`, `responses`, `done` are the agent's folders; `lease` is the file both
controllers write; `main`, `pr` are GitHub, `cache` the attestations in memory.

A section under a lock is the sequence of states its file writes leave behind, written as a
sequence of records. `Section` and `Mutate` take its last element, or, if the server dies
in it, any proper prefix; the threads then forget what they were doing. What a thread does
outside the lock (ask GitHub, write the signed request) is a step of its own, between which the
other thread, the other controller, the agent and GitHub may move.

- *Lane.* `Admit` is `before_enqueue`; `Activate`, `Bind` and `Publish` are the rest of an
  enqueue, by the tool thread or by the loop; answers are observed on the tool thread; the
  loop reads the pull request first and main second (`promotion_control_v3.py`), reconciles the
  active ticket, then attests and claims the first waiting request. A refused attestation takes
  the request out of the waiting files with a note, a transient failure of GitHub too.
  `Rank` is the class of a candidate by the files it changes; the aging of waiting requests is
  the order it keeps, since it never lifts one class over the next. An equal candidate, by commit
  and deployment id (`Same`), is answered with the request there is.
- *Coordinator.* Tool calls in terms of workstreams of the second schema; `Pass` is the
  dispatcher thread: reconcile a settled record, renew what renews itself, dispatch the next
  deployment if the agent has nothing. Aging takes up to 30 off the rank of an older record;
  time is not counted, so `NextPending` allows each order that some ages give. `Duplicate` holds
  the two keys of `queue_exact_deployment`: workstream, commit and deployment id, whatever became
  of the record; and commit with the compatibility key the *caller* chooses, unless the record
  failed or a redeployment is asked for. Another compatibility key with another deployment id
  therefore deploys the same head again. `Upsert` keeps whether the caller asked for evidence
  (`Asked`): a candidate of which none is required may be deployed without. `BridgeAcceptance` is the
  acceptance of a ticket of the lane for a workstream's candidate (`server.py`); named by its
  agent id, a ticket that was copied before is copied again over the old record.
- *Agent.* One at a time, answers by replacing the file. `AgentSucceed` writes the answer,
  `AgentFinish` the marker and the removal; if something raises between, the same handler writes a
  failed answer over the success (`AgentSlip`). A death leaves the request in processing for
  ever, since its successor reads only incoming. Expiry and the refusal of a replay are one failed
  answer. What a deployment does inside is outside.

`plan` bounds each party in a behaviour; `main` is the number of merges.

### SourceNotices, Extraction, ConnectorAcceptance

A record's content is `v` (all but the deadline), `dl` (the true deadline) and `tick` (how much
of a countdown is shown); a stored row keeps the semantic hash, the raw payload, the revisions
and the materialised deadline. `Recorded` is `ingest_parsed_notice`: a countdown that only runs
on keeps hash and deadline.

`w[i]` is the worker of run `i` with its local variables: the connector and page it reads, the
known pages, the overlap floor, candidates of details, summaries. `Page` is one list page
from its fetch with retries to the storing of each selected record, with each way it may
fail; the connectors differ in `Shape`: kind (when details follow), overlap floor, whether
the list ends by itself, whether the source tells its total. `Save` is the last save,
which overwrites whatever the row says by then. `Stop` is a dead worker, `LoseMessage` a
message that never came; `TimePasses` makes an active run stale, `RecoverStale` is the
scheduled recovery, `TooOld` what the acceptance dispatchers close on every tick.

The acceptance test has its dispatcher's two writes of the report (the second may
overwrite what the task has written), the task in its steps, its exceptions and its death.
`gap` is a history variable: connectors of which a list once broke off, or ended at known pages
after it had grown by two pages while it was read (`Outgrown`: what the run itself stored comes
again, two pages long, and looks known). After that an incremental list may end at two known pages
in front of the missing rest; `CompleteMeansStored` excepts them, because the code accepts it.

### The desks

`call[p]` is the request user `p` has under way: its operation, where it is, and what it has
read (`Seen(p)`); `met` says whether another request was under way meanwhile. Each operation is a read (or
a validation) and one action for each statement it writes; a whole-row save writes what was
read (`saw`). `select_for_update` appears as a guard (`Locked`). Only statements whose order
can matter are apart. `mixed` and `tangled` are history variables: rows whose flag, protection
or stage was set from an old read. The properties except them, and say so: the code gives
these requests no lock, so the promise is what holds when requests do not overlap, and that the
overlap is the only way to break it. `mixed` also holds a notice whose older draft was
reviewed, or whose draft was sent back: the view then sets the flag by that draft. The signal sets the
flag with the draft that is saved, so `FlagFollowsReview` holds between the statements of a
request too; case and protection, and result and stage, are two statements in the code, so
`CasesAreProtected` and `OutcomeIsTold` speak of moments at which no request is under way.

Decisions worth knowing:

- A case is removed in three statements: the look at its documents, the delete (which fails if a
  document has come in between), the protection. A removal in bulk works through a list of cases
  and documents that was read before its transaction; a document stored since then makes one delete
  fail and rolls all of them back.
- The stages of a case are four: "selected" stands for all before submission, "submitted" also
  for awaiting_result, lost and cancelled, "declined" for renewed as well: the rules look at no
  more. The outcomes of an opportunity are three for the same reason.
- Texts, files and contents are counters. Audit rows and the outbox row are left out.
- Idle users are alike: the first idle one acts. Free rows are taken in order.
- The web start of an analysis request creates the request and fails at the query
  PostgreSQL refuses (`analysis_workflow.py`); it is modelled up to there. The guarded bridge is
  the path that works.

### ThroughputPolicy

`DesiredLanes`, `BasePackages`, `RampTarget` and `PackagesPerLane` are the functions of
`analysis_throughput.py` over natural numbers, with ceiling division as in the code. `HalfHour`
is the environment: executors import a share of the plan and lose a share to expired leases;
two half hours make the hour the policy counts.

## 3. The runs

| Run | Instance | Properties | States | Shows |
|---|---|---|---|---|
| MCClaims | 1 run, 2 notices, 2 workers, 3 tokens | TypeOK, ClaimColumns, FinishedRunsAreDone, ReservationsAge, LedgerSpec | 147,957 | contention, expiry, renewal, cancellation, repeated imports |
| MCCaps | 3 notices, 2 workers, window and cap 2 | HoldsAreBounded | 89,264 | windows and cap under repeated requests |
| MCContent | 1 notice, 2x2 contents, 2 contexts | OpenWorkIsBound, CompletionHasEvidence, FreshUnlessReissued | 139,008 | changing content and context against late results |
| MCRuns | 2 runs, 3 scopes | SkippedHasEvidence | 178,792 | what a second run skips |
| MCTasks | 1 run, tasks, fair | TasksTypeOK, FinishedRunsAreDone, ExhaustedRunsAreClosed | 29,812 | lost messages and dying workers do not keep a run open |
| MCRepair | 1 run, repair, 2 contents, 2 contexts | RepairTypeOK, RepairLosesNothing | 804,694 | a repair among all requests |
| MCPromotion | 14 plans: up to 2 commits, 2 workstreams, 2 deployments, 2 ids and keys, 1 crash, 1 slip | PromotionTypeOK, PublishedIsBound, AcceptanceIsEarned, PreMergeIsEarned, DeployedOnce, WaitingIsStored, LeaseChangesHands, DeploymentResolves, ReadyDrains | 318,116 | lane, coordinator, agent and GitHub together, with crashes |
| MCBackend | 13 extraction plans, 16 scenes of 2 users, 8 loads | BackendTypeOK and the properties of extraction (9), desks (5) and throughput (1), below | 175,638 | faults against extraction and schedule; overlapping requests; the loop of the plan |
| MCReissue | as MCContent | FreshResults (violated) | | finding 1 |
| MCUnscanned | as MCTasks | PendingRunsAreScanned (violated) | | finding 2 |
| MCStolen | as MCRepair | ActiveClaimsAreKept (violated) | | finding 3 |
| MCLane | 1 commit, 1 deployment, 1 lane request | LaneIsShared (violated) | | finding 4 |

Every property of a passing run has a mutant in PROJECT.json: a bug of a plausible kind in a
mapped definition, under which TLC finds the property violated. The mutated forms stand
beside the definitions, marked as mutants.

What the two large runs say, in short:

- *MCPromotion.* `PublishedIsBound`: a signed request of the lane the agent can still find has
  its request file, whatever crashes. `AcceptanceIsEarned`, `PreMergeIsEarned`: by an executed
  deployment (or health check) of that very commit, also through the bridge. `DeployedOnce`:
  of two records of one head under one compatibility key, the later not asked for as a
  redeployment, the agent carries out both only if the earlier is recorded as failed, and that
  needs a crash of the server (the request is written again and refused as a replay, over the
  answer) or a failure of the agent after its answer. It says nothing of another compatibility
  key, which the code allows. `WaitingIsStored`: the requests that wait without a waiting file are
  never more than the crashes of the server. `LeaseChangesHands`: crashes apart, a ticket's lease
  goes when the ticket is archived, and to nobody; a workstream's goes to nobody by time, by its
  own end, decision or failed deployment, and never to another workstream. The *lane* may overrule
  a workstream: an activation that has found the lane free takes the lease although a workstream
  has reserved it since, because the two take different locks (hazard at
  `deployment_coordinator.py:890`), and so may a ticket that a crash left without its lease.
  `DeploymentResolves` excepts an agent that died with a request
  in its hands: nothing in the code takes that file up again. `ReadyDrains` says that nothing
  waits for ever for a lane that stays free.
- *MCBackend, extraction.* `RevisionsAreSemantic`, `DeadlineMovesWithRevision`,
  `CompleteMeansStored` (a list that does not break off and does not grow by two pages while it is
  read; the bounds let it grow by one), `SuccessIsComplete`, `DetailsAreKept` (for a run that
  stores alone: two runs may overwrite each other's detail), `OneScheduledRun` (besides runs the recovery
  closed under a living worker, whose last save revives the row), `AcceptedMeansPassed` and
  the two liveness properties `DueIsDispatched` and `AutomationComesBack` (which excepts a dead
  acceptance process: the code restores the setting in `finally`, not after a death).
- *MCBackend, desks.* `OneActiveContext`, `FlagFollowsReview`, `CasesAreProtected`,
  `CommandsAreAccounted`, `OutcomeIsTold`.
- *MCBackend, throughput.* `PlanSuffices`.

### Bounds

A conflict over an item needs two workers, the old claim, the new claim and a third token to
tell a re-claim from both: MCClaims. A cap or window of two with three notices is the
smallest in which some work does not fit: MCCaps; its slice of one makes a reservation
longer than a slice. Window and cap of different sizes need a fourth notice, which is beyond the
run; the theorem `HoldsStayBounded` has them. Two values of `sem` and two of `meta` give every relation between two
contents (equal, reworded, changed in meaning); two contexts give every relation between
two contexts; two outstanding responses give an old and a new one of the same item:
MCContent. The second of two runs meets a completed, a cancelled or an empty first: MCRuns.
In MCClaims a lease of two ticks can be renewed after the first of them, and a hard age of
one tick allows that once and refuses it the next time; elsewhere a lease of one tick lasts
or has lapsed, which is all the other properties look at. MCTasks has one run: with the single-active constraint the tasks of two runs
share nothing but that constraint; a second instance is part of the plan. MCRepair has one
notice, because the repair decides about each notice by itself, and one meaning, because
the repair looks only at hashes.

MCPromotion: two commits are the smallest in which one waits and priorities matter, and in which a
merge of one makes the other's attestation old; two workstreams give the overlap of scopes
and the dependency (`Overlap`, `Needs`); two deployments of one commit give the duplicate, two
deployment ids and two compatibility keys tell the two keys against it apart.
Each of the fourteen plans studies one combination (lane alone with merges, with closed pull
requests, with a crash, with a dying or slipping agent; coordinator alone with each of these; both)
and bounds the others by its fields: `requests`, `others` and `calls` (of callers), `merges` and
`closes` (of GitHub), `deploys`, `tests`, `crashes`, `stops` and `slips`, and how many `commits`,
`teams`, `ids`, `keys` and `ranks` are in use. `calls` limits the coordinator's tool calls to four
or five, which register, prove, reserve, queue and accept one candidate, or queue it again; a
second queueing *after a crash* takes one more than the crash plans have, and is left to the
theorem. The constants `Heartbeats` and `Outcomes` are samples of the states a caller may name.

MCBackend: a page holds one record, so three records give a list with a first, a middle and a
last page, and a fourth is left to be published; one detail per list gives one left for later; three runs give a dead, a recovered and
a new one. The plans differ in the kind of connector and in who may interfere (edits, new
records, faults, pauses, manual requests, the acceptance test). A scene gives the first rows
and how often each kind of request may begin; two users are enough for every pair of
overlapping requests, and two notices for a decision that should concern only one. Three
context versions let two activations compete against the active one. The loads lie on both
sides of each step of the ramp. A setup gives one of extraction, desks and loop its inputs and
leaves the others idle, since they share no table in these models: one run instead of three, and
the sum of their states instead of the product.

`SYMMETRY` permutes notices, workers and tokens (contents for the repair), which the specifications use only
for equality; the runs with a liveness property have none. Deadlock is checked except in MCPromotion,
MCLane and MCBackend, whose behaviours end when their plan or scene is used up.
`MaxContext`, `MaxTickets` and `MaxBatch` bound the model, not the code; `Tokens` bounds the
tokens in use at one time, since a token no response bears any more is as good as new.

### Fairness

*Tasks* (`FairTasksSpec`). The beat sends the dispatcher every hour
(`backend/config/settings.py`, `CELERY_BEAT_SCHEDULE`), and the dispatcher continues
whatever run is active: weak fairness of `Dispatch`. This assumes that the automation and
its scheduled task are enabled; when they are not, the dispatcher returns and nothing is promised. The
steps of the continuation have strong fairness: a worker may die in any of them any number
of times, but not every time for ever. Nothing is assumed of workers, people or time.

*Promotion* (`FairSpec` of `PromotionSystem`). Weak fairness of the agent's steps (a scheduled
task that polls), of the lane's loop and of the coordinator's pass (threads in `while True`),
and of a tool call that has begun. None of callers, GitHub's merges, time-outs, crashes, or a
restart of the loop: it needs somebody's call.

*Extraction* (`Fairness` of `ExtractionSystem`). Weak fairness of the beat's dispatch and
recovery, of each worker's steps, of the acceptance task, and of time passing over a run that
nobody executes. None of users, sources or faults; every fault is bounded, so a worker that
goes on comes to an end. The desks and the throughput loop have no fairness and no liveness.

`ExhaustedRunsAreClosed` says what follows: an active run with nothing open becomes
finished, unless it is paused or gets new work.

## 4. The proofs

The theorems hold for all values of the constants that satisfy the named assumptions of the
modules. TLC checked each invariant, `ClaimLedger` as a property, and the inductive invariants
below, before they were proved.

### The engine

`AnalysisRunProofs` assumes `SizesAssumption` and `NullsAssumption` (sizes are natural
numbers, the null values are not among the values, `Notices` is finite) and proves
`TypeCorrectness`, `ClaimColumnsAgree`, `OpenWorkStaysBound`, `FinishedRunsStayDone` and
`ReservationsEnd`. The properties are not inductive one by one. `IInv` joins what they need of
each other:

- `ItemsAreSound`: each item is well typed, its claim columns agree, its age and lease are
  bounded, and if open it has the context of its run. Rebinding moves items and run
  together, so the context of the items must be stated relative to the run.
- `OnlyActiveRunsHaveWork`: a run that is not active, *also one that does not exist yet*, has
  no open items: `Create` starts from an empty row, and finalization after a late import
  needs to find nothing open in a cancelled run to leave it finished.
- `TicketsBearTokens`: every response carries a real token; so no response matches an item
  without one, and a cancelled, skipped or completed item cannot be reopened by an import.
- `BoundToThePast`: a run's context is never newer than the active one.

There is one lemma for each transformation of the items (`ReboundSound`, `ExpiredSound`,
`ReconciledSound`, `CapturedSound`, `ReservedSound`, `RenewedSound`, `JudgedSound`,
`QueuedSound`): it keeps items sound for the context it leaves. An operation composes
them, and there is one lemma for each operation; `StepPreserves` joins them.

`AnalysisRunLedgerProofs` follows single items. `ItemStep` lists how an item may move in
one step: quietly (not at all as far as the ledger sees, freed, closed, added, given back,
lapsed, settled), taken over once nobody holds it, or shown to its holder once more. The
transformations before a claim or import compose (`MovedTransitive`). `EveryStep` says that
each step of the engine moves each item so. Two theorems follow:

- `CompletionsHaveEvidence`: an item enters `completed` only by settling, with a draft or a
  compact result of its content and context; it never changes again, and drafts stay.
- `ImplementsLedger`: under the refinement mapping `LedgerEntry` every `ItemStep` is a step
  or a stutter of `ClaimLedger`. The mapping keeps the token that settled an item, which the
  code clears, in the history field `settled`.

Three more invariants follow from these steps, in the same module:

- `HoldsStayBounded`: what comes before a reservation takes no claim (`PreparedBounded`,
  `FewerHeld`); a reservation takes at most what its window and the cap leave, counted after the
  rebinding and the expiry (`ReservedBounded`, by the cardinality lemmas of the library).
- `ResultsAreFresh`: `FreshUnlessReissued` alone is not inductive. `BasisIsTold` says that as long
  as the token of a response that was not given out again holds the item, the basis captured with
  the item is what the response has told the worker; `ResultsAreLast`, that a result is stored with
  the completion and not before.
- `SkippingLosesNothing`: an item enters `skipped` only with a stored analysis of the content
  and context it names; both stay.

The tasks, in `AnalysisRunProofs`: `TasksInv` is `IInv` with the types of messages and continuations.
`TasksFinishNothingOpen` says that the two unlocked writes of a continuation keep it: a run is
closed only by the locked finalization, and RUNNING over any status opens no item.

### The repair

A repair holds no lock and writes whole rows it decided on before. Beside it `IInv` does not
hold: a run that finished meanwhile may get open work, and an item a context that is not its
run's; a live claim may be taken back (finding 3). `AnalysisRepairProofs` starts from what is
left, `QueueInv`: the types, `TicketsBearTokens`, and every item *proper*, which is sound
for its own context instead of its run's. From that alone it goes through the engine once more:

- What a transformation never does to an item is `Follows`: touch a completed item, reopen a
  closed one, or leave the notice without care (`Backed`: open work, a draft or a compact result
  for the content and context of now). One lemma for each; `Tends` is their composition after a
  rebinding, which also takes along open work that had only the context of the run.
- What an operation does to a run is `EngineStep`: completed items stay (`KeepsItems`); an active
  run ends only with no open work, and a run that is done stays so (`KeepsEnd`); a covered notice
  stays covered, and an item that is added covers its notice, as long as run, content and context
  stay (`KeepsCover`). One lemma for each operation, the environment included.
- `RepairInv` says how a repair under way still relates to the tables. `ReadHolds`: drafts and
  completed items it has seen are there; what it saw missing is missing or covered; what it saw as
  matching open work is covered. `PlanHolds`: each notice it settled is to be written, is to be
  added and still missing, or is covered. An edit or a new context ends both, and the property says
  so (`steady`).

`RepairIsTyped` and `RepairsLoseNothing` follow: what is written covers its notice, what is not
written was covered, and `ignore_conflicts` leaves out only rows that somebody has added since.

### The plan of the lanes

`BackendProofs` proves, from `LoadsAssumption` (loads are natural numbers, and
redundant items are among the raw ones) and `SharesAssumption` (shares are percentages):

- `LoopTypes`: the loop stays in its types, so a backlog never becomes negative.
- `PlanAlwaysSuffices`: the plan reaches the ramp's target or the whole backlog. The argument:
  the lanes cover the backlog by 250 each, or are 40; the base packages cover the claim window, so
  that up to 10,000 the lanes at base capacity take the whole backlog, and above it 40 lanes of
  20 packages are the design capacity, which no target exceeds; and the packages of the ramp are
  rounded up, so that they reach the target if they are the smaller number. One lemma for each of
  these facts, and one for ceiling division, which the solver does not see by itself.

### Promotion

The proofs assume `CommitsAssumption` (commits are numbers from 1, so that 0 stands for none) and
`CallerAssumption`: states, outcomes and priorities a caller may name are among those the tools accept, the
others being refused before anything is written; `IdsAssumption`: deployment ids are numbers.

A section is a sequence of whole-file writes that a crash may cut after any of them, so the
invariant must hold after *each* write. `PromotionLaneProofs` says what the lane's files may hold
(`Good`) and what no write undoes (`Kept`: requests and agent ids stay, no old request starts to
wait again), proves one lemma for each kind of write, and composes them (`AllSound`);
`SectionKeepsLane` then keeps the invariant for the section, crash or not. `ThreadsSound` says that
what a thread remembers between two sections still fits the files: the other thread may have
written meanwhile, and `Kept` is what it cannot have undone. `PromotionProofs` does the same for the
coordinator (`CoGood`, `Advances`, `CoSound`, one lemma for each tool call and for the pass), and
joins both in `PromotionInv`. From it: `PromotionIsTyped`, `PublishedStaysBound`,
`AcceptanceStaysEarned`, `PreMergeStaysEarned`. The last two rest on the histories: a record says
succeeded only of a request the agent has carried out.

- `HeadsAreDeployedOnce`: `SecondAfterFailure` says of the records, crash or not, that a second one
  of the same head and key that was not asked for follows failures only, and `AllSent` that
  what the agent has at work or done belongs to a record. `OnceInv` adds what holds while the server has
  not crashed and the agent has not slipped: the agent sees each request of the coordinator once
  (`OnceQueue`: sent, at work, or answered), a pending record has not been sent, a record that
  says failed was answered by a failure (`OnceRecords`); so the earlier of two was not carried out.
- `WaitingStaysStored` counts: `Lost` are the requests without their file. A section ends with no more
  of them than before, and a crash in it leaves one more at most (`Ends`, `Cut`, one lemma for each
  section); `WaitingInv` keeps their number below that of the crashes.
- `LeasesChangeHandsLawfully` needs `LeaseInv`: a lease of the lane is that of the active ticket; a
  thread that has found the lane free still finds no ticket; and without a crash the active ticket
  has its lease, so no other workstream and no activation meets it. `Turns` says what a section
  of the lane that is not interrupted may do to lease and ticket, `LeaseEnds` the same of the
  coordinator's.

### Extraction

`ExtractionProofs` assumes that connectors and runs are finite sets, the runs numbers (they are
taken in order), that a page holds at least one record, and `PlansAssumption`: a record belongs
to one source, because the key of its row holds the connector (`SourceNotice`'s unique
constraint); only SETAD shows countdowns, and it has no details that are fetched later
(`_is_setad_tender`, `_execute_connector`); and a list is newest first, names no record twice, and
gets no record later that is too old already. The last is what the code rests on when it stops at
a page of old or known records; a source that sorts otherwise is outside these proofs.

The model folds over pages and over sets of connectors. What a fold computes is shown by
induction over natural numbers and finite sets, and the library's induction theorems, which take
an operator, are no use here. `LeastOf` (a set of natural numbers has a least element) and
`SetInduction` (the same for a set of subsets) are first-order forms of them: the formula becomes a
*set*, so they can be cited. From them `FoldHasSolution` and `FoldStaysIn` (the choice in
`MapThenFoldSet` denotes what it says, and stays in any set its step stays in), `SumIsNatural`,
`CandidatesStayIn`, `SetToSeqIsListed`.

`SystemInv` joins four parts, each kept with the help of the others:

- `TypeInv`: the types, and what each row is *of*. `RowShape`: the stored hash is the last
  revision, no two revisions in a row are equal, the countdown is the payload's. `RowOK`: what is
  stored was once shown by the source, and a detail only of a connector that has them. `WorkerOK`:
  the candidates of a worker were shown by its connector. From these `ExtractionIsTyped`,
  `RevisionsStaySemantic`, `DeadlinesMoveWithRevisions` and `DetailsStayKept` follow: the last
  because what a worker writes is no older than what it has read, and nobody else has written.
- `CourseInv`: a run is free, or waits for its message, or is worked on, or neither; a recovery
  may have closed it meanwhile (`closed`), and only then the row and the worker disagree; a
  summary says succeeded only of a complete list; a list that is being read has not ended badly.
  `SuccessStaysComplete` follows from it, with `_result_status`.
- `ScheduleInv`: each scheduled run covers some connector, all still switched on (nothing switches a
  connector off), and only one is open. So a new run overlaps with any open one, and
  `OneRunIsScheduled` follows from the test for overlap, the finite number of connectors aside.
- `VerdictInv`: a verdict of passed has an ended run of that connector as its proof (`Evidence`),
  which no later step touches (`EndedStays`); the run the acceptance waits for stays the run it
  created (`UnderTest`), whatever recovery does to its row. `AcceptedHavePassed` follows: a report
  is made of verdicts.

`CompleteListsAreStored` proves `CompleteMeansStored` from a second invariant, `StoreInv`, which
holds beside `SystemInv`. A list moves while it is read (each publication shifts every place by
one), so the invariant is about places:

- `ReaderOK`: of what was there when a list began, everything at the places its reader has
  passed is kept (`Kept`: stored, or too old). A publication moves records *back*, so none of them
  slips into the places already passed; the new one does, but was not there at the beginning.
- `BehindOK`: as long as no list of the connector broke off, a record is missing behind a stored one
  only while some run is *between* the two (`Between`): it may have stored the first (`Reach`,
  the end of its last page that was not known, and the places the list has grown by), and has not
  come to the second. So two known pages mean that nothing is missing behind them, unless the
  reader itself stored them: `KnownReach` shows that it needs a list grown by two pages.
- `OrderOK`: the order of the sources, which publications keep. `HandsOK`: what a worker holds
  for its details is stored, so that a detail adds no row behind a missing one.

A page either goes on, having kept what is on it, or ends the list (`PageTurns`); the steps other
than pages and publications leave the store as it is (`LeavesStore`, `AsideIsQuiet`). The last
page of a complete list is the source's last, or too old, or the second known one; for each
`EndSays` tells what can still be missing: what came after the list began, or what another run is
about to read.

### The desks

`WorkflowProofs` assumes what the scenes of TLC satisfy: `NoticesAssumption` (finitely many
notices), `VersionsAssumption` and `OppsAssumption` (contexts and opportunities are numbered
from 1, as rows with an auto-incremented key are), `PendingsAssumption` (pending actions are
numbers) and `ScenesAssumption`: a behaviour begins with rows the desks could have left (`Begun`).

The properties are about rows, but what breaks them is a request that writes what it has read
before somebody else wrote. So the invariant has to say what every request under way knows.
`DesksInv` joins:

- `CallsInv`: `Reads` gives each request the shape of what it has read; `Refers` says that the
  rows it names exist, even if they have changed; `Overlaps`, that of two requests under way each
  has met another; and `Fresh`, that a request which has met none *still knows what it read* (the
  flag, the latest draft, the case, the lease, the other contexts). Each statement of a
  request that has met none therefore writes over what it saw, and each that has met one enters
  the history variables: this is the whole argument of `FlagFollowsReview`.
- `DeskRows`, `CaseTables`, `ContractTables`, `DirectTables`: types, and what numbers are left:
  case numbers in rows and journal were given out, the revision is the length of the journal, an
  opportunity has at most one result. From these `CommandsAreAccounted` knows that a new case
  has a new number, and a new result a free row.
- `KeptInv` and `ToldInv`: between two statements a case may be without protection, or an outcome
  without its result, but then some request is about to write it (`Protecting`, `Telling`). When
  none is under way, `CasesAreProtected` and `OutcomeIsTold` are what remains (`QuietDesks`).
- `LockInv`: a confirmation that has checked its pending action holds the row lock, so the
  action still awaits it and is used up once.

There is one lemma for each statement of a request (`...Keeps`), and one for the readers of each
desk. The frame comes from a few shared lemmas: `ActsKeepCalls` (a statement of `p` leaves what
the others know, as long as rows only grow: if another is under way, both have met), `BeginsKeep`,
`ActsKeepProtection`, `ActsKeepLocks`, `ActsKeepTold`. `Latest` and `Effective`, which look for a
greatest index, need their own (`LargestOf`, `LatestIsLast`, `LatestOfMore`, `SameLatest`,
`OneReviewed`); they rest on a first-order form of well-founded induction. `WfStepKeeps` joins
the lemmas.

Two action properties use the invariant before the step. `SecondContextIsOfOverlap`: an
activation that met no request has retired all the others, which no other step undoes
(`OthersLeaveContext`, `OnlyActivationActivates`). `CommandsStep`: only a selection writes the
journal (`OnlySelectionJournals`), what it writes is accounted for (`SelectionIsJournaled`), and no
statement brings a used or cancelled pending action back (`PendingsStayUsed`).

### The backend

`BackendProofs` puts the parts together. A step of the backend is one of extraction, desks or
loop, and leaves the other tables alone, so (lemma `BackendIsItsParts`) each behaviour of the backend is
one of extraction, fairness included, and one of the loop. `PartsKeepTheirPromises` and
`BackendIsTyped` follow from that and from `DesksAlways`, and so do `FlagsFollowReviews`,
`CasesStayProtected`, `OutcomesAreTold`, `OneContextIsActive` and `CommandsStayAccounted`: they
hold of the very specification MCBackend checks, for any number of rows and users.

### Checked by TLC only

The five liveness properties: they are out of the prover's reach, as is ENABLED. Every other
property that a passing run checks is a theorem.

No module declares a RECURSIVE operator.

## 5. Findings

1. *A re-claim refreshes the basis of an older response* (`MCReissue`,
   `analysis_claim_integrity.py:187`). A worker receives a slice, the notice changes, the
   worker asks again and receives the same slice with the same token; the captured basis is
   now the new one. The answer to the first response is accepted, rebased to the new hash
   and stored. The docstring of `import_result_records` promises to "preserve semantic claim
   integrity", and a test shows the rejection without the re-claim. `FreshUnlessReissued`
   shows that this is the only way.
2. *An unscanned run is closed* (`MCUnscanned`, `tasks_analysis_runs.py:41`). The dispatcher
   finds a run pending, its continuation arrives before its initialization and finds
   nothing remaining, and the run ends with no changes.
   `docs/procurement-full-pending-analysis.md` line 11 promises the complete queue.
3. *A repair takes back a live claim* (`MCStolen`, `analysis_reconciliation.py:106`). An item
   that is stale and unclaimed when the repair reads it, and claimed before it writes, loses
   its claim; the worker's result is then rejected. The docstring says that active claims
   "are never stolen or rewritten".

4. *Two controllers in one lane* (`MCLane`, `services/pdp_mcp/deployment_coordinator.py:890`).
   `_dispatch_next_unlocked` looks at the agent's folders, but neither at the shared lease nor at
   the active ticket. A queued deployment goes out while a candidate of the lane is active (after
   its deployment was answered, and before its acceptance), and the runtime under acceptance is
   replaced. `services/pdp_mcp/promotion_control_v3.py` says at line 3 that old and new tools
   "therefore share the same final-promotion lane".

A fifth was found by a proof, and no run shows it: *an incremental list that grows by two pages
while it is read can end early* (`procurement/tasks.py:122`). The run's own pages come again, look
known, and the two together pass for the boundary of known data: the summary says complete, and
what lay behind is left out until a list that does not stop at known pages comes. With pages of one
record it takes six records; that plan has too many orders of publication for the run.
`CompleteMeansStored` as first stated did not except it, and the invariant would not close
(`KnownReach`); it now does, by `Outgrown`.

## 6. The plan

Done: the engine with its ledger, tasks and repair; promotion lane, coordinator and agent;
extraction, schedule and acceptance test; the desks; the throughput policy; proofs of the
engine, its tasks and the repair, of the policy, of the promotion system, of extraction, of the desks and of
the composed backend.

Next, in this order:

1. Exports of datasets and their Celery tasks, and the tokenless results made from them; the goods
   and service groups as a part of the compact basis that is not hashed.
2. Workstreams of the first schema, superseded deployments and handoffs of the coordinator.

### Not modelled

- *Parsing, HTTP, file formats.* A page is a sequence of records, a fetch has an outcome.
- *Datasets and benchmarks* (`analysis_megabatch_benchmark.py`, exports): they read; the results
  made from an export are in the plan.
- *Coordinator:* workstreams of the first schema, superseding of queued deployments, handoffs,
  statistics. A queued deployment that is superseded is like one that is never queued for the
  properties here, but the code that marks it is not checked. *Queue:* diagnostics and the
  emergency reserve of disk space.
- *Processes:* the coordinator's lock has a staleness that lets a second process break it; the
  model has one server process, whose threads a guard in memory keeps apart.
- *Analysis on request:* the start and finish of `analysis_workflow.py` behind the query that
  PostgreSQL refuses, `review_analysis_draft` of `views_analysis_engine.py`, which no URL reaches,
  and the acceptance runner of version 1 that version 2 has replaced.
- *Retention, the address book, comments, filters:* no rule of another part reads them, except the
  protection flag, which is modelled.
- *Read models, web UI, backend core:* queries and forms over the same tables, without state the
  rest depends on.
- *Other actions of the lane:* `deploy_approved_release` is admitted like
  `promote_exact_candidate`, and a candidate equal but for the action is not told apart. *A
  connector out of use* (`parsnamad_tenders`), which the acceptance test switches off, is none of
  the plan's connectors.
- *Inside of a deployment* (`docker compose`, probes, rollback in `scripts/windows/`): the agent's
  answer is either, and says what it says.
