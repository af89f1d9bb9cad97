---------------------------- MODULE AnalysisDesk ----------------------------
(* Analysis on request, outside the persistent runs: the versions of the       *)
(* analysis context, requests and batches with their drafts (the bridge        *)
(* commands and the REST views), human reviews of drafts, and the flag of a    *)
(* notice that follows them.                                                   *)
EXTENDS WebCalls

CONSTANTS Notices, Versions, Requests   \* Versions, Requests: 1..n
ASSUME NoticesAssumption == IsFiniteSet(Notices)
ASSUME VersionsAssumption == IsFiniteSet(Versions) /\ Versions = 1..Cardinality(Versions)

VARIABLES notice,  \* per notice: content, recommended flag, type, work state, retention
          ctx,     \* per version of the context: status, text, files
          areq,    \* per analysis request: status, context, whether it is a guarded one of the
                   \* bridge, candidates, failures, batches
          drafts,  \* the drafts, the latest last
          mixed    \* history: <<n, what>>, the flag or the protection of n was set from an old read
deskVars == <<notice, ctx, areq, drafts, mixed>>

Open == {"pending", "processing"}
NoRequest ==
  [st |-> "none", ctx |-> 0, guarded |-> FALSE, cand |-> {}, failed |-> {}, batches |-> <<>>]
ActiveContexts == {v \in Versions : ctx[v].st = "active"}
Newest(vs) == CHOOSE v \in vs : \A u \in vs : u <= v
FreeRequest == CHOOSE q \in Requests : areq[q].st = "none" /\ \A r \in 1..(q - 1) : areq[r].st # "none"
HasFree == \E q \in Requests : areq[q].st = "none"

-----------------------------------------------------------------------------
(* Versions of the context.                                                    *)
ReadContext(p) == \E op \in {"edit", "attach", "detach", "activate"}, v \in Versions :
  /\ ctx[v].st = "draft" /\ (op = "activate" => ctx[v].text > 0)
  /\ Begins(p, op, [v |-> v, saw |-> ctx[v]])
  /\ UNCHANGED deskVars

(* A PATCH saves the whole row as it was loaded; the status may be patched too.*)
SaveContext(p) == \E st \in {"draft", "retired"} :
  /\ At(p, "edit", "read") /\ Ends(p)
  /\ ctx' = [ctx EXCEPT ![Seen(p).v].st = st, ![Seen(p).v].text = Seen(p).saw.text + 1]
  /\ UNCHANGED <<notice, areq, drafts, mixed>>

AttachFile(p) ==
  /\ At(p, "attach", "read") /\ Ends(p)
  /\ ctx' = [ctx EXCEPT ![Seen(p).v].files = @ + 1]
  /\ UNCHANGED <<notice, areq, drafts, mixed>>
DetachFile(p) ==
  /\ At(p, "detach", "read") /\ ctx[Seen(p).v].files > 0 /\ Ends(p)
  /\ ctx' = [ctx EXCEPT ![Seen(p).v].files = @ - 1]
  /\ UNCHANGED <<notice, areq, drafts, mixed>>

(* A new draft version copies the active one; an existing draft is reused.     *)
NoDraftYet(p) ==
  /\ \A v \in Versions : ctx[v].st # "draft"
  /\ Begins(p, "newdraft", [from |-> ActiveContexts])
  /\ UNCHANGED deskVars
CreateContextDraft(p) ==
  LET used == {v \in Versions : ctx[v].st # "none"}
      source == IF Seen(p).from # {} THEN Newest(Seen(p).from) ELSE Newest(used)
      v == Newest(used) + 1
  IN
  /\ At(p, "newdraft", "read") /\ used # {} /\ v \in Versions /\ Ends(p)
  /\ ctx' = [ctx EXCEPT ![v] = [ctx[source] EXCEPT !.st = "draft"]]
  /\ UNCHANGED <<notice, areq, drafts, mixed>>

(* Activation: one statement retires the contexts that are active as it        *)
(* starts, the next saves the whole row; others see both at the commit.        *)
NothingRetired(v) == {}
ToRetire(v) == ActiveContexts \ {v}
RetireOthers(p) ==
  /\ At(p, "activate", "read")
  /\ Continues(p, "retired", [v |-> Seen(p).v, saw |-> Seen(p).saw, old |-> ToRetire(Seen(p).v)])
  /\ UNCHANGED deskVars
CommitActivation(p) ==
  LET v == Seen(p).v IN
  /\ At(p, "activate", "retired") /\ Ends(p)
  /\ ctx' = [u \in Versions |->
       IF u = v THEN [Seen(p).saw EXCEPT !.st = "active", !.files = ctx[v].files]
       ELSE IF u \in Seen(p).old /\ ctx[u].st = "active" THEN [ctx[u] EXCEPT !.st = "retired"] ELSE ctx[u]]
  /\ UNCHANGED <<notice, areq, drafts, mixed>>

-----------------------------------------------------------------------------
(* Requests and batches.                                                       *)
Analysed(n, content, v) ==
  \E k \in DOMAIN drafts : drafts[k].n = n /\ drafts[k].content = content /\ drafts[k].ctx = v
DraftedIn(q, b) == {drafts[k].n : k \in {j \in DOMAIN drafts : drafts[j].req = q /\ drafts[j].batch = b}}
DraftedFor(q) == {drafts[k].n : k \in {j \in DOMAIN drafts : drafts[j].req = q}}

(* analysis/requests/ creates the request; analysis/engine/start/ creates one  *)
(* too, and the start that follows takes a row lock over an outer join, which  *)
(* PostgreSQL refuses: the request stays pending.                              *)
CreateRequest(op) ==
  /\ ActiveContexts # {} /\ HasFree /\ Spends(op)
  /\ areq' = [areq EXCEPT ![FreeRequest] = [NoRequest EXCEPT !.st = "pending", !.ctx = Newest(ActiveContexts)]]
  /\ UNCHANGED <<call, notice, ctx, drafts, mixed>>
PostRequest == CreateRequest("request")
StartOnWeb == CreateRequest("webstart")

(* The start command: reads the active context, the open requests of the       *)
(* bridge, the notices without a draft ...                                     *)
StartRead(p) ==
  /\ ActiveContexts # {} /\ HasFree
  /\ LET v == Newest(ActiveContexts) IN
     Begins(p, "start", [v |-> v, open |-> {q \in Requests : areq[q].st \in Open /\ areq[q].guarded},
                         cand |-> {n \in Notices : ~Analysed(n, notice[n].content, v)}])
  /\ UNCHANGED deskVars

(* ... fails what was left open, its undrafted notices ready again, and opens  *)
(* a request with its batch.                                                   *)
Recovery(qs) ==
  [q \in Requests |->
     IF q \in qs THEN [areq[q] EXCEPT !.st = "failed",
       !.batches = [b \in DOMAIN @ |-> IF @[b] = "processing" THEN "failed" ELSE @[b]]]
     ELSE areq[q]]
Reset(qs) == UNION {areq[q].cand \ DraftedFor(q) : q \in qs}
StartWrite(p) ==
  LET c == Seen(p)
      left == {q \in c.open : areq[q].st \in Open}
      new == [NoRequest EXCEPT !.st = IF c.cand = {} THEN "no_changes" ELSE "processing", !.ctx = c.v,
                               !.guarded = TRUE, !.cand = c.cand, !.batches = IF c.cand = {} THEN <<>> ELSE <<"processing">>]
  IN
  /\ At(p, "start", "read") /\ HasFree /\ Ends(p)
  /\ areq' = [Recovery(left) EXCEPT ![FreeRequest] = new]
  /\ notice' = [n \in Notices |->
       [notice[n] EXCEPT !.work = IF n \in c.cand /\ @ # "analyzed" THEN "queued"
                                  ELSE IF n \in Reset(left) /\ @ = "queued" THEN "ready" ELSE @]]
  /\ UNCHANGED <<ctx, drafts, mixed>>

(* The finish command, without a lock: what is not drafted by now has failed.  *)
FinishRead(p) == \E q \in Requests : \E failed \in SUBSET areq[q].cand :
  /\ areq[q].st \in Open /\ areq[q].guarded /\ areq[q].batches # <<>>
  /\ Begins(p, "finish", [q |-> q, drafted |-> DraftedIn(q, Len(areq[q].batches)), cand |-> areq[q].cand,
                          supplied |-> failed])
  /\ UNCHANGED deskVars

AllFailed(c) == c.supplied \cup (c.cand \ c.drafted)
FinishStatus(c) ==
  IF c.drafted # {} THEN "completed" ELSE IF AllFailed(c) # {} THEN "failed" ELSE "no_changes"
FinishWrite(p) ==
  LET c == Seen(p)
      failed == AllFailed(c)
      st == IF failed = {} THEN "completed" ELSE IF c.drafted # {} THEN "partial" ELSE "failed"
      last == Len(areq[c.q].batches)
  IN
  /\ At(p, "finish", "read") /\ Ends(p)
  /\ areq' = [areq EXCEPT ![c.q] = [@ EXCEPT !.st = FinishStatus(c), !.failed = failed,
                                             !.cand = c.cand, !.batches[last] = st]]
  /\ notice' = [n \in Notices |-> IF n \in failed THEN [notice[n] EXCEPT !.work = "failed"] ELSE notice[n]]
  /\ UNCHANGED <<ctx, drafts, mixed>>

(* The views: complete a request (its metadata written back as loaded), add a  *)
(* batch to a request that was open when it was looked at, complete a batch.   *)
ReadRequest(p) == \E op \in {"complete", "addbatch"}, q \in Requests :
  /\ areq[q].st # "none" /\ (op = "addbatch" => areq[q].st \in Open)
  /\ Begins(p, op, [q |-> q, saw |-> areq[q]])
  /\ UNCHANGED deskVars
CompleteRequest(p) == \E st \in {"completed", "no_changes", "failed"} :
  /\ At(p, "complete", "read") /\ Ends(p)
  /\ areq' = [areq EXCEPT ![Seen(p).q] = [@ EXCEPT !.st = st, !.cand = Seen(p).saw.cand,
                                                   !.failed = Seen(p).saw.failed]]
  /\ UNCHANGED <<notice, ctx, drafts, mixed>>
AddBatch(p) ==
  LET batches == areq[Seen(p).q].batches IN
  /\ At(p, "addbatch", "read") /\ Ends(p)
  /\ areq' = [areq EXCEPT ![Seen(p).q] = [@ EXCEPT !.st = "processing", !.batches = Append(batches, "processing")]]
  /\ UNCHANGED <<notice, ctx, drafts, mixed>>
CompleteBatch == \E q \in Requests : \E b \in DOMAIN areq[q].batches, st \in {"completed", "partial", "failed"} :
  /\ Spends("closebatch")
  /\ areq' = [areq EXCEPT ![q].batches[b] = st]
  /\ UNCHANGED <<call, notice, ctx, drafts, mixed>>

-----------------------------------------------------------------------------
(* Drafts.                                                                     *)
Latest(ds, n) ==
  LET of == {k \in DOMAIN ds : ds[k].n = n} IN
  IF of = {} THEN 0 ELSE CHOOSE k \in of : \A j \in of : j <= k
Effective(ds, n) == LET k == Latest(ds, n) IN k # 0 /\ ds[k].rec /\ ds[k].rev # "rejected"
Stained(p, ns, what) == mixed' = IF call[p].met THEN mixed \cup (ns \X what) ELSE mixed

(* A draft of any notice is checked against its batch and then stored, unless  *)
(* there is one of the same content and context; a type people set is kept.    *)
Drafted(c, rec) ==
  [n |-> c.n, content |-> c.saw.content, ctx |-> areq[c.q].ctx, req |-> c.q, batch |-> c.b,
   rec |-> rec, rev |-> "ai_draft"]
Noted(row, saw, rec, type) ==
  [row EXCEPT !.rec = rec, !.work = "analyzed", !.type = IF saw.type = "human" THEN @ ELSE type]
ReadForDraft(p) == \E q \in Requests, n \in Notices : \E b \in DOMAIN areq[q].batches :
  /\ areq[q].batches[b] = "processing"
  /\ Begins(p, "draft", [q |-> q, b |-> b, n |-> n, saw |-> notice[n]])
  /\ UNCHANGED deskVars
StoreDraft(p) == \E rec \in BOOLEAN, type \in {"none", "machine"} :
  LET c == Seen(p)
      d == Drafted(c, rec)
  IN
  /\ At(p, "draft", "read") /\ Ends(p)
  /\ IF Analysed(c.n, d.content, d.ctx) THEN UNCHANGED <<drafts, notice, mixed>>
     ELSE /\ drafts' = Append(drafts, d)
          /\ notice' = [notice EXCEPT ![c.n] = Noted(@, c.saw, rec, type)]
          /\ Stained(p, {c.n}, {"flag"})
  /\ UNCHANGED <<ctx, areq>>

(* A review: the draft is saved and the signal sets the flag of the notice     *)
(* from the latest draft; then the view saves the flag again.                  *)
Decisions == {"approved", "published", "rejected", "needs_revision"}
ReviewOf(decision) ==
  CASE decision = "approved" -> "reviewed" [] decision = "published" -> "published"
    [] decision = "rejected" -> "rejected" [] OTHER -> "ai_draft"
RejectKeepsFlag(d, decision, saw) == IF decision \in {"approved", "published"} THEN d.rec ELSE saw
FlagAfter(d, decision, saw) ==
  IF decision = "rejected" THEN FALSE ELSE IF decision \in {"approved", "published"} THEN d.rec ELSE saw

ReadForReview(p) == \E k \in DOMAIN drafts, decision \in Decisions :
  /\ Begins(p, "review", [k |-> k, decision |-> decision, saw |-> notice[drafts[k].n].rec])
  /\ UNCHANGED deskVars
Review(p) ==
  LET c == Seen(p)
      n == drafts[c.k].n
  IN
  /\ At(p, "review", "read") /\ Ends(p)
  /\ drafts' = [drafts EXCEPT ![c.k].rev = ReviewOf(c.decision)]
  /\ notice' = [notice EXCEPT ![n].rec = FlagAfter(drafts[c.k], c.decision, c.saw)]
  /\ mixed' = IF call[p].met \/ c.decision = "needs_revision" \/ c.k # Latest(drafts, n)
               THEN mixed \cup {<<n, "flag">>} ELSE mixed
  /\ UNCHANGED <<ctx, areq>>

(* A dismissal rejects the latest draft, with its signal; then the flag.       *)
ReadForDismissal(p) == \E n \in Notices :
  /\ Effective(drafts, n)
  /\ Begins(p, "dismiss", [n |-> n, k |-> Latest(drafts, n)])
  /\ UNCHANGED deskVars
DismissDraft(p) ==
  LET ds == [drafts EXCEPT ![Seen(p).k].rev = "rejected"] IN
  /\ At(p, "dismiss", "read") /\ Continues(p, "rejected", Seen(p))
  /\ drafts' = ds
  /\ notice' = [notice EXCEPT ![Seen(p).n].rec = Effective(ds, Seen(p).n)]
  /\ UNCHANGED <<ctx, areq, mixed>>
DismissFlag(p) ==
  /\ At(p, "dismiss", "rejected") /\ Ends(p)
  /\ notice' = [notice EXCEPT ![Seen(p).n].rec = FALSE]
  /\ Stained(p, {Seen(p).n}, {"flag"})
  /\ UNCHANGED <<ctx, areq, drafts>>

(* The bulk dismissal updates in bulk: no signal.                              *)
ReadForBulk(p) == \E ns \in SUBSET {n \in Notices : Effective(drafts, n)} :
  /\ ns # {}
  /\ Begins(p, "bulk", [ns |-> ns, ks |-> {Latest(drafts, n) : n \in ns}])
  /\ UNCHANGED deskVars
BulkDismiss(p) ==
  /\ At(p, "bulk", "read") /\ Ends(p)
  /\ drafts' = [k \in DOMAIN drafts |->
       IF k \in Seen(p).ks THEN [drafts[k] EXCEPT !.rev = "rejected"] ELSE drafts[k]]
  /\ notice' = [n \in Notices |-> IF n \in Seen(p).ns THEN [notice[n] EXCEPT !.rec = FALSE] ELSE notice[n]]
  /\ Stained(p, Seen(p).ns, {"flag"})
  /\ UNCHANGED <<ctx, areq>>

-----------------------------------------------------------------------------
(* Other writers of a notice: people set its type; the ingestion saves the     *)
(* whole row as it was loaded.                                                 *)
SetType == \E n \in Notices :
  /\ Spends("settype")
  /\ notice' = [notice EXCEPT ![n].type = "human"]
  /\ UNCHANGED <<call, ctx, areq, drafts, mixed>>

ReadForIngest(p) == \E n \in Notices :
  /\ Begins(p, "ingest", [n |-> n, saw |-> notice[n]])
  /\ UNCHANGED deskVars
Ingest(p) == \E new \in {0, 1} :
  LET n == Seen(p).n IN
  /\ At(p, "ingest", "read") /\ Ends(p)
  /\ notice' = [notice EXCEPT ![n] = [Seen(p).saw EXCEPT !.content = @ + new, !.work = "ready"]]
  /\ Stained(p, {n}, {"flag", "kept"})
  /\ UNCHANGED <<ctx, areq, drafts>>

-----------------------------------------------------------------------------
DeskStep ==
  \/ PostRequest \/ StartOnWeb \/ CompleteBatch \/ SetType
  \/ \E p \in Users :
       \/ ReadContext(p) \/ SaveContext(p) \/ AttachFile(p) \/ DetachFile(p) \/ NoDraftYet(p) \/ CreateContextDraft(p)
       \/ RetireOthers(p) \/ CommitActivation(p)
       \/ StartRead(p) \/ StartWrite(p) \/ FinishRead(p) \/ FinishWrite(p)
       \/ ReadRequest(p) \/ CompleteRequest(p) \/ AddBatch(p)
       \/ ReadForDraft(p) \/ StoreDraft(p) \/ ReadForReview(p) \/ Review(p)
       \/ ReadForDismissal(p) \/ DismissDraft(p) \/ DismissFlag(p)
       \/ ReadForBulk(p) \/ BulkDismiss(p) \/ ReadForIngest(p) \/ Ingest(p)
==============================================================================
