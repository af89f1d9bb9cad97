---- MODULE AnalysisRepair ----
(***************************************************************************)
(* The integrity repair: it compares every visible notice with the active   *)
(* run and requeues what has neither a valid result nor matching open work. *)
(*                                                                          *)
(* It locks neither the run nor the items.  It reads the active context,    *)
(* the active run, its items and the drafts; then the notices, deciding for *)
(* each; and then writes whole item rows.  (The code writes a row as soon   *)
(* as it has decided for it, but the notices come from one cursor and the   *)
(* writes are seen together, when the transaction commits.)  Between the    *)
(* steps every request of AnalysisRun may commit.                           *)
(***************************************************************************)
EXTENDS AnalysisRun

CONSTANT NoCopy

VARIABLE copy  \* what a repair in progress has read and decided, or NoCopy

repairVars == <<vars, copy>>

\* The columns of an item that the repair decides by: `live' that its lease is
\* running, `done' that it has result_metadata.
Rows == [status : ItemStatuses, hash : Contents, ctx : Contexts,
         live : BOOLEAN, done : BOOLEAN]

Row(i) == [status |-> i.status, hash |-> i.hash, ctx |-> i.ctx,
           live |-> i.left > 0, done |-> i.result # NoResult]

\* First the items and the drafts; then, notice by notice, what is to be done.
\* `settled' are the notices it finds nothing to defer for; `steady' is a history
\* field, no notice was edited since the first read.
Copies == [at : {"read"}, run : Runs, ctx : Contexts, items : [Notices -> Rows],
           drafts : SUBSET DraftKeys, steady : BOOLEAN]
Plans == [at : {"decided"}, run : Runs, ctx : Contexts, stale : SUBSET Notices,
          missing : SUBSET Notices, settled : SUBSET Notices,
          content : [Notices -> Contents], steady : BOOLEAN]

ASSUME NoCopyAssumption == NoCopy \notin Copies \cup Plans

\* get_active_context, active_run, _valid_draft_hashes (of this context and the notices
\* visible now), _run_items_by_notice.
RepairRead(r) ==
  /\ copy = NoCopy /\ run[r].status \in ActiveStatuses
  /\ copy' = [at |-> "read", run |-> r, ctx |-> active,
              items |-> [n \in Notices |-> Row(item[r][n])],
              drafts |-> {d \in drafts : d.notice \in visible /\ d.ctx = active},
              steady |-> TRUE]
  /\ UNCHANGED vars

\* A draft, or a completed item of the active run, for the content as it is read.
ValidIn(c, n) ==
  LET i == c.items[n] IN
  \/ ExactDraft(n, c.ctx, content[n]) \in c.drafts
  \/ i.status = "completed" /\ i.done /\ i.hash = content[n] /\ i.ctx = c.ctx

\* Mutant: open work counts whatever content it is about.
QueuedInAnyContent(c, n) ==
  c.items[n].status \in OpenStatuses /\ c.items[n].ctx = c.ctx

\* Open work that is already about the content and the context that are read.
QueuedIn(c, n) ==
  LET i == c.items[n] IN
  i.status \in OpenStatuses /\ i.hash = content[n] /\ i.ctx = c.ctx

DeferredIn(c, n) == c.items[n].status = "claimed" /\ c.items[n].live

Stale(c) ==
  {n \in visible : c.items[n].status # "absent" /\ ~ValidIn(c, n)
                     /\ ~QueuedIn(c, n) /\ ~DeferredIn(c, n)}

Missing(c) == {n \in visible : c.items[n].status = "absent" /\ ~ValidIn(c, n)}

\* _visible_notices, and the decision for each of them.
RepairDecide ==
  /\ copy # NoCopy /\ copy.at = "read"
  /\ copy' = [at |-> "decided", run |-> copy.run, ctx |-> copy.ctx,
              stale |-> Stale(copy), missing |-> Missing(copy),
              settled |-> {n \in visible : ~DeferredIn(copy, n)},
              content |-> content, steady |-> copy.steady]
  /\ UNCHANGED vars

\* _reset_item_for_current_basis writes the columns whatever they hold by now; a
\* missing item is inserted unless it has come to exist (ignore_conflicts).
RepairWrite ==
  LET c == copy
      r == copy.run IN
  /\ copy # NoCopy /\ copy.at = "decided"
  /\ item' = [item EXCEPT ![r] =
       [n \in Notices |->
          IF n \in c.stale \/ (n \in c.missing /\ item[r][n].status = "absent")
            THEN [NewItem(n, c.ctx, "eligible") EXCEPT !.hash = c.content[n]]
            ELSE item[r][n]]]
  /\ copy' = NoCopy
  /\ UNCHANGED <<content, visible, active, run, drafts, returned, tickets>>

\* The process dies and its transaction is rolled back.
RepairDies ==
  /\ copy # NoCopy /\ copy' = NoCopy
  /\ UNCHANGED vars

\* A request that commits meanwhile.
Meanwhile ==
  /\ Next
  /\ copy' = IF copy = NoCopy THEN NoCopy
             ELSE [copy EXCEPT !.steady = copy.steady /\ content' = content]

RepairInit == Init /\ copy = NoCopy

RepairNext ==
  \/ \E r \in Runs : RepairRead(r)
  \/ RepairDecide \/ RepairWrite \/ RepairDies
  \/ Meanwhile

RepairSpec == RepairInit /\ [][RepairNext]_repairVars

----------------------------------------------------------------------------
\* Properties

\* Every variable keeps its type.
RepairTypeOK == TypeOK /\ copy \in Copies \cup Plans \cup {NoCopy}

\* zero_loss_invariant: "every visible current-basis notice must be analyzed,
\* explicitly queued, or explicitly excepted".  (Open work that has the context of
\* its run is rebound with the run, by the next request.)
Covered(r, n) ==
  \/ ExactDraft(n, active, content[n]) \in drafts
  \/ ExactCompact(n, active, content[n])
  \/ /\ item[r][n].status \in OpenStatuses
     /\ item[r][n].hash = content[n] /\ item[r][n].ctx \in {active, run[r].ctx}

\* Whatever was claimed, imported, admitted or expired while it ran, a repair leaves
\* every notice it looked at covered, but for the claims it deferred: as long as
\* its run is still active, its context is, and no notice was edited meanwhile.
RepairLosesNothing ==
  [][RepairWrite /\ copy.steady /\ copy.ctx = active
       /\ run[copy.run].status \in ActiveStatuses =>
       \A r \in {copy.run}, n \in copy.settled : Covered(r, n)']_repairVars

\* "Active, non-expired claims are never stolen or rewritten" (the docstring of
\* procurement_analysis_integrity_snapshot): a repair leaves them as they are.
ActiveClaimsAreKept ==
  [][RepairWrite =>
       \A n \in Notices :
         item[copy.run][n].status = "claimed" /\ item[copy.run][n].left > 0
           => item'[copy.run][n] = item[copy.run][n]]_repairVars
====
