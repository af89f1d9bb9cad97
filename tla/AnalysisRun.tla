---- MODULE AnalysisRun ----
(***************************************************************************)
(* The persistent procurement analysis run: the PostgreSQL work queue from  *)
(* which ChatGPT workers claim notices and into which they import results.  *)
(*                                                                          *)
(* Every operation of this module takes the row lock of its run first       *)
(* (select_for_update) and commits as a whole, so each is one action.  The  *)
(* operations that do not lock the run are in AnalysisRunTasks and          *)
(* AnalysisRepair.  The operations are those the URLs reach after apps.py   *)
(* has installed the v2, recovery and integrity layers over the legacy      *)
(* service.                                                                 *)
(*                                                                          *)
(* A content hash is the content itself, so hashes never collide (and the   *)
(* compact basis is taken to be part of what is hashed: its goods and       *)
(* service groups, which come from raw_payload, are left out).  Time is     *)
(* the countdown `left' of a lease and the `age' of a reservation, which    *)
(* Tick moves; a response the server has given to a worker is a ticket the  *)
(* worker may send back at any time, more than once, or never.              *)
(***************************************************************************)
EXTENDS Naturals, FiniteSets

CONSTANTS
  Runs,        \* identities of runs, in use or not yet created
  Notices,     \* procurement notices
  Workers,     \* worker_id values of the claim requests
  Tokens,      \* claim tokens (UUIDs)
  Semantics,   \* values of the compact basis shown to a worker
  Churn,       \* what the full basis hashes beside the compact basis
  Scopes,      \* scopes a run is started with
  MaxContext,  \* bound: contexts 1..MaxContext are ever activated
  ClaimLimit,  \* SAFE_CLAIM_LIMIT
  SliceSize,   \* SEMANTIC_SLICE_SIZE
  GlobalCap,   \* GLOBAL_ACTIVE_CLAIM_CAP
  LeaseTicks,  \* ACTIVE_RESERVATION_LEASE_SECONDS, in ticks
  HardAge,     \* HARD_RESERVATION_MAX_AGE_SECONDS, in ticks
  MaxTickets,  \* bound: responses outstanding at one time
  MaxBatch,    \* bound: results in one import request
  NoToken, NoWorker, NoBasis, NoResult

ASSUME SizesAssumption ==
  /\ MaxContext \in Nat \ {0}
  /\ ClaimLimit \in Nat \ {0} /\ SliceSize \in Nat \ {0}
  /\ GlobalCap \in Nat \ {0} /\ LeaseTicks \in Nat \ {0} /\ HardAge \in Nat
  /\ MaxTickets \in Nat /\ MaxBatch \in Nat
  /\ Scopes # {} /\ Scopes \subseteq {"all_pending", "new", "changed"}
  /\ IsFiniteSet(Notices)

VARIABLES
  content,   \* [Notices -> Contents]: the notice as it is stored now
  visible,   \* the notices the candidate query returns
  active,    \* version of the active Analysis Context
  run,       \* [Runs -> RunRows]
  item,      \* [Runs -> [Notices -> Items]]
  drafts,    \* NoticeAnalysisDraft rows, by their unique key
  returned,  \* drafts a reviewer has sent back with needs_revision
  tickets    \* claim responses that may still be answered

vars == <<content, visible, active, run, item, drafts, returned, tickets>>

Contents == [sem : Semantics, meta : Churn]
Contexts == 1 .. MaxContext
DraftKeys == [notice : Notices, ctx : Contexts, hash : Contents]

\* The statuses some commit makes visible.  PREPARING and CANCELLING are set and
\* replaced inside one transaction; nothing assigns FAILED to a run, nor SCREENED,
\* WAITING_DEEP_ANALYSIS, FAILED or (on the routed claim path) POISON to an item.
ActiveStatuses == {"pending", "running", "waiting_for_results", "paused"}
FinishedStatuses == {"completed", "no_changes", "cancelled"}
RunStatuses == ActiveStatuses \cup FinishedStatuses \cup {"absent"}
OpenStatuses == {"pending", "claimed", "retry"}
ItemStatuses ==
  OpenStatuses \cup {"completed", "cancelled", "skipped", "absent"}
Reasons == {"eligible", "explicit_reanalysis", "returned_for_completion",
            "already_valid_current_analysis"}

RunRows == [status : RunStatuses, ctx : Contexts, scope : Scopes,
            include_previously_analyzed : BOOLEAN]

\* What a worker answers: the semantics it has read, the context it applied and
\* how it came by the item; `compact' when no draft is made of it.
Kinds == {"claim", "reissued"}
Results == [sem : Semantics, ctx : Contexts, kind : Kinds, compact : BOOLEAN]

\* `basis' is screening[_claim_integrity].hash; `settled' is a history field, the
\* token of the result that completed the item.
Items == [status : ItemStatuses, hash : Contents, ctx : Contexts, reason : Reasons,
          token : Tokens \cup {NoToken}, by : Workers \cup {NoWorker},
          left : 0 .. LeaseTicks, age : 0 .. HardAge + 1,
          basis : Semantics \cup {NoBasis}, result : Results \cup {NoResult},
          settled : Tokens \cup {NoToken}]

Tickets == [run : Runs, notice : Notices, token : Tokens \cup {NoToken},
            hash : Contents, ctx : Contexts, sem : Semantics, kind : Kinds]

ASSUME NullsAssumption ==
  /\ NoToken \notin Tokens /\ NoWorker \notin Workers
  /\ NoBasis \notin Semantics /\ NoResult \notin Results

----------------------------------------------------------------------------
\* Items

NewItem(n, ctx, reason) ==
  [status |-> "pending", hash |-> content[n], ctx |-> ctx, reason |-> reason,
   token |-> NoToken, by |-> NoWorker, left |-> 0, age |-> 0,
   basis |-> NoBasis, result |-> NoResult, settled |-> NoToken]

\* A row that does not exist; its other fields mean nothing.
Absent(n) == [NewItem(n, 1, "eligible") EXCEPT !.status = "absent"]

\* Token and lease end with the claim.  (The age is read of claimed items only; 0
\* stands for what claimed_at still holds.)
Unlocked(i, status) ==
  [i EXCEPT !.status = status, !.token = NoToken, !.left = 0, !.age = 0]

\* Mutant: the token outlives the claim.
ReleasedKeepingToken(i, status) ==
  [i EXCEPT !.status = status, !.left = 0, !.age = 0, !.by = NoWorker]

\* The exits that name the four claim columns; the importer's bulk_update leaves
\* claimed_by behind.
Released(i, status) == [Unlocked(i, status) EXCEPT !.by = NoWorker]

Open(its) == {n \in Notices : its[n].status \in OpenStatuses}
HeldBy(its, w) ==
  {n \in Notices : its[n].status = "claimed" /\ its[n].by = w /\ its[n].left > 0}
Held(its) == {n \in Notices : its[n].status = "claimed" /\ its[n].left > 0}

\* refresh_run_counters and the branch of finalize_run_if_exhausted.
Finalized(status, its) ==
  IF Open(its) = {}
    THEN IF \E n \in Notices : its[n].status = "completed"
           THEN "completed" ELSE "no_changes"
    ELSE IF status = "paused" THEN status ELSE "running"

\* The unique constraint proc_analysis_single_active_run: a save that breaks it
\* raises IntegrityError and the whole transaction is rolled back.
SingleActive(r, status) ==
  status \in ActiveStatuses => \A q \in Runs \ {r} : run[q].status \notin ActiveStatuses

\* Mutant: only the claims in flight follow the new context.
ReboundForgettingOpen(r) ==
  [n \in Notices |->
     LET i == item[r][n] IN
     IF run[r].ctx # active /\ i.status = "claimed"
       THEN [Released(i, "retry") EXCEPT !.ctx = active, !.basis = NoBasis] ELSE i]

\* sync_run_to_active_context, whatever the status of the run.
Rebound(r) ==
  [n \in Notices |->
     LET i == item[r][n] IN
     IF run[r].ctx = active THEN i
     ELSE IF i.status = "claimed"
       THEN [Released(i, "retry") EXCEPT !.ctx = active, !.basis = NoBasis]
     ELSE IF i.status \in {"pending", "retry"} THEN [i EXCEPT !.ctx = active]
     ELSE i]

\* Write back a run's row and items.
Commit(r, status, its) ==
  /\ run' = [run EXCEPT ![r].status = status, ![r].ctx = active]
  /\ item' = [item EXCEPT ![r] = its]

Exists(r) == run[r].status # "absent"

----------------------------------------------------------------------------
\* Eligibility

\* _candidate_queryset.
Candidate(r, n) ==
  LET hasDraft == \E d \in drafts : d.notice = n IN
  /\ n \in visible
  /\ run[r].scope = "new" => ~hasDraft
  /\ run[r].scope = "changed" => hasDraft

ExactDraft(n, ctx, hash) == [notice |-> n, ctx |-> ctx, hash |-> hash]

\* A completed item with result_metadata, of any run.
ExactCompact(n, ctx, hash) ==
  \E q \in Runs : LET i == item[q][n] IN
    /\ i.status = "completed" /\ i.result # NoResult
    /\ i.hash = hash /\ i.ctx = ctx

\* _analysis_reason: the reasons to analyse n now (none, or one).  The first-time and
\* changed reasons are one, "eligible"; the processing status ANALYSIS_FAILED, which
\* the older request workflow sets, is left out.
AnalysisReasons(r, n, ctx) ==
  LET d == ExactDraft(n, ctx, content[n]) IN
  IF run[r].include_previously_analyzed THEN {"explicit_reanalysis"}
  ELSE IF d \in drafts
    THEN IF d \in returned THEN {"returned_for_completion"} ELSE {}
  ELSE IF ExactCompact(n, ctx, content[n]) THEN {} ELSE {"eligible"}

\* The items `its' with the missing notices of S added, as far as they have a reason.
Queued(r, its, S, ctx) ==
  [n \in Notices |->
     IF n \in S /\ its[n].status = "absent" /\ Candidate(r, n)
          /\ AnalysisReasons(r, n, ctx) # {}
       THEN NewItem(n, ctx, CHOOSE x \in AnalysisReasons(r, n, ctx) : TRUE)
       ELSE its[n]]

----------------------------------------------------------------------------
\* The life of a run

\* create_or_resume_run, when no run is active; otherwise it changes nothing.
Create(r, scope, again) ==
  /\ run[r].status = "absent"
  /\ SingleActive(r, "pending")
  /\ run' = [run EXCEPT ![r] = [status |-> "pending", ctx |-> active, scope |-> scope,
                                include_previously_analyzed |-> again]]
  /\ UNCHANGED <<content, visible, active, item, drafts, returned, tickets>>

\* initialize_run: the context stays the one of the creation.
Initialize(r) ==
  LET its == Queued(r, item[r], Notices, run[r].ctx) IN
  /\ run[r].status = "pending"
  /\ item' = [item EXCEPT ![r] = its]
  /\ run' = [run EXCEPT ![r].status =
               IF \E n \in Notices : its[n].status # "absent"
                 THEN "running" ELSE "no_changes"]
  /\ UNCHANGED <<content, visible, active, drafts, returned, tickets>>

\* admit_newest_pending_items: `recent' are the notices last seen since the
\* previous admission.
Admit(r, recent) ==
  /\ Exists(r)
  /\ Commit(r, run[r].status,
            IF run[r].status \in FinishedStatuses \cup {"paused"} THEN Rebound(r)
            ELSE Queued(r, Rebound(r), recent, active))
  /\ UNCHANGED <<content, visible, active, drafts, returned, tickets>>

Pause(r) ==
  /\ run[r].status \in ActiveStatuses
  /\ run' = [run EXCEPT ![r].status = "paused"]
  /\ UNCHANGED <<content, visible, active, item, drafts, returned, tickets>>

Resume(r) ==
  /\ run[r].status = "paused"
  /\ run' = [run EXCEPT ![r].status = "running"]
  /\ UNCHANGED <<content, visible, active, item, drafts, returned, tickets>>

\* Mutant: the legacy cancel_run, which leaves the claimed items as they are.
CancelLegacy(r) ==
  /\ run[r].status \in ActiveStatuses
  /\ run' = [run EXCEPT ![r].status = "cancelled"]
  /\ item' = [item EXCEPT ![r] =
       [n \in Notices |-> IF item[r][n].status \in OpenStatuses \ {"claimed"}
                            THEN Released(item[r][n], "cancelled") ELSE item[r][n]]]
  /\ UNCHANGED <<content, visible, active, drafts, returned, tickets>>

\* cancel_run of the v2 layer, which also takes the claimed items back.
Cancel(r) ==
  /\ run[r].status \in ActiveStatuses
  /\ run' = [run EXCEPT ![r].status = "cancelled"]
  /\ item' = [item EXCEPT ![r] =
       [n \in Notices |-> IF item[r][n].status \in OpenStatuses
                            THEN Released(item[r][n], "cancelled") ELSE item[r][n]]]
  /\ UNCHANGED <<content, visible, active, drafts, returned, tickets>>

----------------------------------------------------------------------------
\* Claims

Expired(its) ==
  [n \in Notices |-> IF its[n].status = "claimed" /\ its[n].left = 0
                       THEN Released(its[n], "retry") ELSE its[n]]

\* Mutant: any analysis under the context counts, whatever content it is of.
RedundantIgnoringHash(r, its, n) ==
  LET i == its[n] IN
  /\ i.status \in {"pending", "retry"} /\ i.reason = "explicit_reanalysis"
  /\ \/ \E d \in drafts \ returned : d.notice = n /\ d.ctx = active
     \/ \E q \in Runs \ {r} : LET j == item[q][n] IN
          /\ j.status = "completed" /\ j.ctx = active
          /\ j.result # NoResult /\ j.result.compact

\* _redundant_reanalysis_queryset.
Redundant(r, its, n) ==
  LET i == its[n]
      d == ExactDraft(n, active, i.hash) IN
  /\ i.status \in {"pending", "retry"} /\ i.reason = "explicit_reanalysis"
  /\ \/ d \in drafts /\ d \notin returned
     \/ \E q \in Runs \ {r} : LET j == item[q][n] IN
          /\ j.status = "completed" /\ j.hash = i.hash /\ j.ctx = active
          /\ j.result # NoResult /\ j.result.compact

\* reconcile_redundant_reanalysis.
Reconciled(r, its) ==
  [n \in Notices |->
     IF Redundant(r, its, n)
       THEN [Released(its[n], "skipped") EXCEPT
               !.reason = "already_valid_current_analysis"]
       ELSE its[n]]

\* The items a claim request looks at; `due' when the reconciliation interval is over.
Prepared(r, due) ==
  LET its == Expired(Rebound(r)) IN IF due THEN Reconciled(r, its) ELSE its

\* The run status after the reconciliation, which finalizes when it skipped something.
PreparedStatus(r, due) ==
  IF Prepared(r, due) # Prepared(r, FALSE)
    THEN Finalized(run[r].status, Prepared(r, due)) ELSE run[r].status

Claimable(r) == run[r].status \in {"running", "waiting_for_results"}

\* The items of the slice, with the semantic basis the response shows.
Captured(its, slice) ==
  [n \in Notices |-> IF n \in slice THEN [its[n] EXCEPT !.basis = content[n].sem]
                                    ELSE its[n]]

\* The response for a slice.  A token that is served again makes its earlier
\* responses `reissued'.
Respond(r, its, slice) ==
  /\ tickets' = {IF t.run = r /\ t.notice \in slice /\ t.token = its[t.notice].token
                   THEN [t EXCEPT !.kind = "reissued"] ELSE t : t \in tickets}
                \cup {[run |-> r, notice |-> n, token |-> its[n].token,
                       hash |-> its[n].hash, ctx |-> active, sem |-> content[n].sem,
                       kind |-> "claim"] : n \in slice}
  /\ Cardinality(tickets') <= MaxTickets

AtMost(S, k) == {T \in SUBSET S : Cardinality(T) = IF Cardinality(S) < k
                                                     THEN Cardinality(S) ELSE k}

\* claim_newest_run_items when the worker still holds a reservation: the next
\* slice of it again, with the old tokens and a new basis.
ClaimHeldSlice(r, w, due) ==
  LET its == Prepared(r, due) IN
  /\ Claimable(r)
  /\ PreparedStatus(r, due) \notin FinishedStatuses
  /\ \E slice \in AtMost(HeldBy(its, w), SliceSize) :
       /\ slice # {}
       /\ Commit(r, PreparedStatus(r, due), Captured(its, slice))
       /\ Respond(r, its, slice)
  /\ UNCHANGED <<content, visible, active, drafts, returned>>

Reserved(its, S, w, token, lease) ==
  [n \in Notices |->
     IF n \in S
       THEN [its[n] EXCEPT !.status = "claimed", !.token = token[n], !.by = w,
                           !.left = lease, !.age = 0]
       ELSE its[n]]

\* A new UUID: no response that is still about bears it.
FreshTokens(r, n) ==
  Tokens \ {t.token : t \in {t \in tickets : t.run = r /\ t.notice = n}}

\* Mutant: the slots are looked at and not used.
WindowUncapped(its, limit) == limit

\* The size of a new reservation: `limit', cut to the free slots of the run.
Window(its, limit) ==
  LET slots == GlobalCap - Cardinality(Held(its)) IN
  IF limit < slots THEN limit ELSE slots

\* The same for a worker that holds nothing: a new reservation of open items, of which
\* one slice is returned.
ClaimNewReservation(r, w, limit, lease, due) ==
  LET its == Prepared(r, due)
      free == {n \in Notices : its[n].status \in {"pending", "retry"}} IN
  /\ Claimable(r)
  /\ PreparedStatus(r, due) \notin FinishedStatuses
  /\ HeldBy(its, w) = {} /\ Cardinality(Held(its)) < GlobalCap /\ free # {}
  /\ \E S \in AtMost(free, Window(its, limit)) :
     \E token \in [S -> Tokens] :
     \E slice \in AtMost(S, SliceSize) :
       LET held == Reserved(its, S, w, token, lease) IN
       /\ \A n \in S : token[n] \in FreshTokens(r, n)
       /\ Commit(r, "waiting_for_results", Captured(held, slice))
       /\ Respond(r, held, slice)
  /\ UNCHANGED <<content, visible, active, drafts, returned>>

\* The same when it returns nothing: the reconciliation finished the run, every
\* slot is taken, or nothing is open.
ClaimNothing(r, w, due) ==
  LET its == Prepared(r, due) IN
  /\ Claimable(r)
  /\ \/ PreparedStatus(r, due) \in FinishedStatuses
     \/ /\ HeldBy(its, w) = {}
        /\ \/ Cardinality(Held(its)) >= GlobalCap
           \/ \A n \in Notices : its[n].status \notin {"pending", "retry"}
  /\ Commit(r, PreparedStatus(r, due), its)
  /\ UNCHANGED <<content, visible, active, drafts, returned, tickets>>

\* A claim of a paused or cancelled run, or a dry-run import: both rebind the run
\* and change nothing else.
RebindOnly(r) ==
  /\ Exists(r)
  /\ Commit(r, run[r].status, Rebound(r))
  /\ UNCHANGED <<content, visible, active, drafts, returned, tickets>>

\* Mutants: the requested lease is not clamped; the hard age is not looked at.
RenewedUnclamped(its, ws, lease) ==
  [n \in Notices |->
     IF \E w \in ws : n \in HeldBy(its, w) /\ its[n].age <= HardAge
       THEN [its[n] EXCEPT !.left = lease + 1] ELSE its[n]]

RenewedForever(its, ws, lease) ==
  [n \in Notices |->
     IF \E w \in ws : n \in HeldBy(its, w) THEN [its[n] EXCEPT !.left = lease]
                                           ELSE its[n]]

\* renew_worker_claim: neither an expired claim nor one past the hard age.
Renewed(its, ws, lease) ==
  [n \in Notices |->
     IF \E w \in ws : n \in HeldBy(its, w) /\ its[n].age <= HardAge
       THEN [its[n] EXCEPT !.left = lease] ELSE its[n]]

Renew(r, w, lease) ==
  /\ Exists(r)
  /\ Commit(r, run[r].status, Renewed(Rebound(r), {w}, lease))
  /\ UNCHANGED <<content, visible, active, drafts, returned, tickets>>

----------------------------------------------------------------------------
\* Imports

\* The integrity layer examines a result only if it names the claim as it stands.
Examined(i, t) == i.basis # NoBasis /\ t.token = i.token /\ t.hash = i.hash

\* The rebase: an examined result whose basis is unchanged takes the hash of now.
HashNow(i, t) == IF Examined(i, t) THEN content[t.notice] ELSE i.hash

\* Mutants: the basis is not compared; any token will do.
VerdictWithoutBasis(i, t) ==
  IF t.token # i.token THEN "rejected"
  ELSE IF t.hash # i.hash THEN "invalid_hash"
  ELSE IF t.ctx # active THEN "invalid_context"
  ELSE IF HashNow(i, t) # content[t.notice] THEN "changed"
  ELSE IF ExactDraft(t.notice, active, HashNow(i, t)) \in drafts THEN "duplicate"
  ELSE "imported"

VerdictWithoutToken(i, t) ==
  IF Examined(i, t) /\ content[t.notice].sem # i.basis THEN "basis_changed"
  ELSE IF t.hash # i.hash THEN "invalid_hash"
  ELSE IF t.ctx # active THEN "invalid_context"
  ELSE IF HashNow(i, t) # content[t.notice] THEN "changed"
  ELSE IF ExactDraft(t.notice, active, HashNow(i, t)) \in drafts THEN "duplicate"
  ELSE "imported"

\* What becomes of result t on item i of a run bound to the active context.
Verdict(i, t) ==
  IF Examined(i, t) /\ content[t.notice].sem # i.basis THEN "basis_changed"
  ELSE IF t.token # i.token THEN "rejected"
  ELSE IF t.hash # i.hash THEN "invalid_hash"
  ELSE IF t.ctx # active THEN "invalid_context"
  ELSE IF HashNow(i, t) # content[t.notice] THEN "changed"
  ELSE IF ExactDraft(t.notice, active, HashNow(i, t)) \in drafts THEN "duplicate"
  ELSE "imported"

\* The item after result t, for which a draft is made iff `material'.
Judged(i, t, material) ==
  LET v == Verdict(i, t)
      rebased == [i EXCEPT !.hash = HashNow(i, t)] IN
  CASE v = "basis_changed" -> Released(i, "retry")
    [] v = "changed" -> Unlocked(i, "retry")
    [] v = "duplicate" -> [Unlocked(rebased, "completed") EXCEPT !.settled = t.token]
    [] v = "imported" ->
         [Unlocked(rebased, "completed") EXCEPT
            !.settled = t.token,
            !.result = [sem |-> t.sem, ctx |-> t.ctx, kind |-> t.kind,
                        compact |-> ~material]]
    [] v = "invalid_context" -> rebased
    [] v \in {"rejected", "invalid_hash"} -> i

\* The items after the batch B, of at most one result per item.
JudgedItems(its, B, material) ==
  [n \in Notices |->
     IF \E t \in B : t.notice = n
       THEN LET t == CHOOSE t \in B : t.notice = n IN Judged(its[n], t, t \in material)
       ELSE its[n]]

\* The workers whose reservations the import renews (the rolling renewal): nobody's
\* after a batch that imported nothing or had an error.
Renewers(its, B) ==
  LET verdicts == {Verdict(its[t.notice], t) : t \in B} IN
  IF "imported" \in verdicts /\ verdicts \subseteq {"imported", "duplicate"}
    THEN {w \in Workers : \E t \in B : t.notice \in HeldBy(its, w)} ELSE {}

\* Mutant: the draft is stored under the hash the item had before the rebase.
DraftedUnrebased(its, material) ==
  {ExactDraft(t.notice, active, its[t.notice].hash) :
     t \in {t \in material : Verdict(its[t.notice], t) = "imported"}}

\* The drafts of the batch, made for the results in `material'.
Drafted(its, material) ==
  {ExactDraft(t.notice, active, HashNow(its[t.notice], t)) :
     t \in {t \in material : Verdict(its[t.notice], t) = "imported"}}

\* import_result_records.
Import(r, B, material) ==
  LET its == Rebound(r)
      judged == JudgedItems(its, B, material)
      status == Finalized(run[r].status, judged) IN
  /\ Exists(r)
  /\ B # {} /\ Cardinality(B) <= MaxBatch
  /\ \A s, t \in B : s.notice = t.notice => s = t
  /\ SingleActive(r, status)
  /\ Commit(r, status, Renewed(judged, Renewers(its, B), LeaseTicks))
  /\ drafts' = drafts \cup Drafted(its, material)
  /\ UNCHANGED <<content, visible, active, returned, tickets>>

----------------------------------------------------------------------------
\* Around the engine: ingestion, administrators, reviewers, time and the network

\* A source refresh or a staff edit stores another content of a notice.
EditNotice(n, c) ==
  /\ c # content[n]
  /\ content' = [content EXCEPT ![n] = c]
  /\ UNCHANGED <<visible, active, run, item, drafts, returned, tickets>>

\* A notice is hidden, deleted, past its deadline, or comes back.
ToggleNotice(n) ==
  /\ visible' = IF n \in visible THEN visible \ {n} ELSE visible \cup {n}
  /\ UNCHANGED <<content, active, run, item, drafts, returned, tickets>>

\* activate: a draft context replaces the active one and is never replaced back.
ActivateContext ==
  /\ active < MaxContext
  /\ active' = active + 1
  /\ UNCHANGED <<content, visible, run, item, drafts, returned, tickets>>

\* review_analysis_draft with needs_revision, or with a decision that ends it.
ReviewDraft(d) ==
  /\ returned' = IF d \in returned THEN returned \ {d} ELSE returned \cup {d}
  /\ UNCHANGED <<content, visible, active, run, item, drafts, tickets>>

Aged(i) ==
  IF i.status # "claimed" THEN i
  ELSE [i EXCEPT !.left = IF i.left = 0 THEN 0 ELSE i.left - 1,
                 !.age = IF i.age > HardAge THEN i.age ELSE i.age + 1]

\* Time passes for every claim.
Tick ==
  /\ item' = [r \in Runs |-> [n \in Notices |-> Aged(item[r][n])]]
  /\ item' # item
  /\ UNCHANGED <<content, visible, active, run, drafts, returned, tickets>>

\* A worker gives up: the response will never be answered (again).
Drop(t) ==
  /\ tickets' = tickets \ {t}
  /\ UNCHANGED <<content, visible, active, run, item, drafts, returned>>

----------------------------------------------------------------------------
Init ==
  /\ content \in [Notices -> Contents]
  /\ visible \in SUBSET Notices
  /\ active = 1
  /\ run = [r \in Runs |->
       [status |-> "absent", ctx |-> 1, scope |-> CHOOSE s \in Scopes : TRUE,
        include_previously_analyzed |-> FALSE]]
  /\ item = [r \in Runs |-> [n \in Notices |-> Absent(n)]]
  /\ drafts = {} /\ returned = {} /\ tickets = {}

TicketsOf(r) == {t \in tickets : t.run = r}

Start(r) == \E scope \in Scopes, again \in BOOLEAN : Create(r, scope, again)

Claim(r) ==
  \E w \in Workers, due \in BOOLEAN :
    \/ ClaimHeldSlice(r, w, due)
    \/ \E limit \in 1 .. ClaimLimit, lease \in 1 .. LeaseTicks :
         ClaimNewReservation(r, w, limit, lease, due)
    \/ ClaimNothing(r, w, due)

\* The requests that find the run already there.
Operate(r) ==
  \/ \E recent \in SUBSET Notices : Admit(r, recent)
  \/ Pause(r) \/ Resume(r) \/ Cancel(r)
  \/ Claim(r)
  \/ RebindOnly(r)
  \/ \E w \in Workers, lease \in 1 .. LeaseTicks : Renew(r, w, lease)
  \/ \E B \in SUBSET TicketsOf(r) : \E material \in SUBSET B : Import(r, B, material)

Environment ==
  \/ \E n \in Notices, c \in Contents : EditNotice(n, c)
  \/ \E n \in Notices : ToggleNotice(n)
  \/ ActivateContext
  \/ \E d \in drafts : ReviewDraft(d)
  \/ Tick
  \/ \E t \in tickets : Drop(t)

Next ==
  \/ \E r \in Runs : Start(r) \/ Initialize(r) \/ Operate(r)
  \/ Environment

Spec == Init /\ [][Next]_vars

----------------------------------------------------------------------------
\* Properties

\* Every variable keeps its type.
TypeOK ==
  /\ content \in [Notices -> Contents] /\ visible \in SUBSET Notices
  /\ active \in Contexts
  /\ run \in [Runs -> RunRows]
  /\ item \in [Runs -> [Notices -> Items]]
  /\ drafts \in SUBSET DraftKeys /\ returned \in SUBSET DraftKeys
  /\ tickets \in SUBSET Tickets

\* The claim columns agree with the status: a claim has a token and an owner, and
\* whichever of its exits an item leaves CLAIMED by, the token and the lease end.
ClaimColumns ==
  \A r \in Runs, n \in Notices : LET i == item[r][n] IN
    /\ i.status = "claimed" <=> i.token \in Tokens
    /\ i.status = "claimed" => i.by \in Workers
    /\ i.status # "claimed" => i.left = 0

\* Open work is bound to the context its run is bound to: no item is worked on
\* under a context the run has left (sync_run_to_active_context).
OpenWorkIsBound ==
  \A r \in Runs, n \in Notices :
    item[r][n].status \in OpenStatuses => item[r][n].ctx = run[r].ctx

\* A finished run has no open work left in it, whatever comes in late.
FinishedRunsAreDone ==
  \A r \in Runs : run[r].status \in FinishedStatuses => Open(item[r]) = {}

\* What a run counts as completed is backed by a stored analysis of exactly the
\* content and the context the item names: a compact result made under that
\* context, or a draft with that key.
CompletionHasEvidence ==
  \A r \in Runs, n \in Notices : LET i == item[r][n] IN
    i.status = "completed" =>
      \/ ExactDraft(n, i.ctx, i.hash) \in drafts
      \/ i.result # NoResult /\ i.result.compact /\ i.result.ctx = i.ctx

\* A result is stored only for a content with the semantics the worker has read,
\* unless its token was served again with another basis before it came in.
FreshUnlessReissued ==
  \A r \in Runs, n \in Notices : LET i == item[r][n] IN
    i.status = "completed" /\ i.result # NoResult /\ i.result.kind = "claim"
      => i.result.sem = i.hash.sem

\* The same of every result (the docstring of import_result_records: "preserve
\* semantic claim integrity").
FreshResults ==
  \A r \in Runs, n \in Notices : LET i == item[r][n] IN
    i.status = "completed" /\ i.result # NoResult => i.result.sem = i.hash.sem

\* No renewal, explicit or rolling, keeps a reservation alive beyond the hard age
\* and one lease.
ReservationsAge ==
  \A r \in Runs, n \in Notices : LET i == item[r][n] IN
    i.left > 0 => i.age + i.left <= HardAge + LeaseTicks

\* A worker never holds more than one reservation window, nor all of them together
\* more than the global cap, however its requests are repeated.
HoldsAreBounded ==
  \A r \in Runs :
    /\ Cardinality(Held(item[r])) <= GlobalCap
    /\ \A w \in Workers : Cardinality(HeldBy(item[r], w)) <= ClaimLimit

\* Skipping is no loss: what is skipped as already analysed has a stored analysis of
\* its content under its context.
SkippedHasEvidence ==
  \A r \in Runs, n \in Notices : LET i == item[r][n] IN
    i.status = "skipped" =>
      ExactDraft(n, i.ctx, i.hash) \in drafts \/ ExactCompact(n, i.ctx, i.hash)

\* The ledger's entry for an item.
LedgerEntry(i) ==
  [state |-> CASE i.status = "absent" -> "none"
               [] i.status \in {"pending", "retry"} -> "free"
               [] i.status = "claimed" /\ i.left > 0 -> "held"
               [] i.status = "claimed" /\ i.left = 0 -> "lapsed"
               [] i.status = "completed" -> "settled"
               [] OTHER -> "closed",
   token |-> IF i.status = "completed" THEN i.settled ELSE i.token,
   by |-> i.by,
   epoch |-> i.ctx]

Ledger == INSTANCE ClaimLedger WITH
  Keys <- Runs \X Notices,
  entry <- [k \in Runs \X Notices |-> LedgerEntry(item[k[1]][k[2]])]

\* The queue keeps the promises of ClaimLedger: exclusive live holds, one
\* settlement, by the token that holds the item, and settled work that stays.
LedgerSpec == Ledger!Spec
====
