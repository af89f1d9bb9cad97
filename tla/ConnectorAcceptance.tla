------------------------- MODULE ConnectorAcceptance -------------------------
(* The acceptance test of the connectors (tasks_connector_acceptance_v2.py and *)
(* the version 1 it extends): a request file makes the beat dispatch one task, *)
(* which switches the automation off, runs one extraction per connector, keeps *)
(* a report file and switches the automation on again.                         *)
EXTENDS Extraction

VARIABLES acc,     \* the acceptance task
          report,  \* status and per-connector verdicts in the report file
          disp     \* the dispatcher: between its two writes of the report
accVars == <<acc, report, disp>>

Terminal == {"succeeded", "succeeded_with_warnings", "partial", "failed"}
NoVerdicts == [c \in Connectors |-> "none"]
NoReport == [st |-> "none", of |-> NoVerdicts]
Idle == [pc |-> "off", was |-> FALSE, todo |-> <<>>, run |-> 0, of |-> NoVerdicts]

(* One beat tick: stale runs are closed, then the request file is looked at.   *)
Dispatch ==
  /\ plan.acceptance /\ disp = "idle"
  /\ report.st \notin Terminal \cup {"queued", "running"}
  /\ runs' = Cancelled(TooOld)
  /\ report' = [report EXCEPT !.st = "queued"]
  /\ disp' = "sent" /\ acc' = [acc EXCEPT !.pc = "sent"]
  /\ UNCHANGED <<plan, list, content, db, items, msgs, w, conn, settings, stale, form, gap, budget>>

(* The dispatcher writes its own copy of the report again, with the task id.   *)
Resave ==
  /\ disp = "sent" /\ disp' = "idle"
  /\ report' = [NoReport EXCEPT !.st = "queued"]
  /\ UNCHANGED <<extVars, acc>>

StartAcceptance ==
  /\ acc.pc = "sent"
  /\ acc' = [acc EXCEPT !.pc = "prepare", !.was = settings.enabled]
  /\ report' = [st |-> "running", of |-> acc.of]
  /\ settings' = [settings EXCEPT !.enabled = FALSE]
  /\ UNCHANGED <<plan, list, content, db, runs, items, msgs, w, conn, stale, form, gap, budget, disp>>

(* Runs too long under way are closed.  The connector that is out of use       *)
(* (parsnamad_tenders) is switched off too: it is none of the plan's.          *)
Prepare ==
  /\ acc.pc = "prepare"
  /\ runs' = Cancelled(TooOld)
  /\ acc' = [acc EXCEPT !.pc = "next", !.todo = SetToSeq(plan.conns)]
  /\ UNCHANGED <<plan, list, content, db, items, msgs, w, conn, settings, stale, form, gap, budget, report, disp>>

(* The task adds a verdict to its own copy of the report and saves that.       *)
Verdict(c, v) ==
  LET of == [acc.of EXCEPT ![c] = v] IN
  /\ report' = [st |-> "running", of |-> of]
  /\ acc' = [acc EXCEPT !.pc = "next", !.todo = Tail(@), !.run = 0, !.of = of]

(* The next connector is switched on; an active run of it blocks its test.     *)
CheckConnector ==
  /\ acc.pc = "next" /\ acc.todo # <<>>
  /\ LET c == Head(acc.todo) IN
     /\ conn' = [conn EXCEPT ![c].enabled = TRUE, ![c].ok = TRUE]
     /\ IF Busy({c}) # {}
        THEN Verdict(c, "blocked")
        ELSE acc' = [acc EXCEPT !.pc = "create"] /\ UNCHANGED report
  /\ UNCHANGED <<plan, list, content, db, runs, items, msgs, w, settings, stale, form, gap, budget, disp>>

(* The extraction runs inside the acceptance task.                             *)
TestConnector ==
  /\ acc.pc = "create" /\ Free # {}
  /\ LET i == NextRun
         c == Head(acc.todo)
         row == Queued("manual", "range", FALSE, {c}, 0)
     IN /\ runs' = [runs EXCEPT ![i] = [row EXCEPT !.st = "running"]]
        /\ w' = [w EXCEPT ![i] = StartList(i, Off, c)]
        /\ acc' = [acc EXCEPT !.pc = "wait", !.run = i]
  /\ UNCHANGED <<plan, list, content, db, items, msgs, conn, settings, stale, form, gap, budget, report, disp>>

(* An exception of the extraction fails a run that is still active; the        *)
(* verdict is read from the rows.                                              *)
Settled(i) == IF runs[i].st \in Active THEN [runs[i] EXCEPT !.st = "failed"] ELSE runs[i]
PartialPasses(row, of) ==
  IF row.st = "failed" \/ of.pages = 0 THEN "failed"
  ELSE IF of.ok + of.bad = 0 THEN "warning"
  ELSE IF of.ok = 0 THEN "failed"
  ELSE IF of.bad > 0 \/ row.st = "succeeded_with_warnings" THEN "warning"
  ELSE "passed"
VerdictOf(row, of) ==
  IF row.st \in {"failed", "partial"} \/ of.pages = 0 THEN "failed"
  ELSE IF of.ok + of.bad = 0 THEN "warning"
  ELSE IF of.ok = 0 THEN "failed"
  ELSE IF of.bad > 0 \/ row.st = "succeeded_with_warnings" THEN "warning"
  ELSE "passed"

(* Two details of the run are probed; Setad has none to probe.                 *)
ProbesPass(c) == IF Shape(c).kind = "setad" THEN {TRUE} ELSE BOOLEAN
Judge ==
  /\ acc.pc = "wait" /\ w[acc.run].pc = "off"
  /\ LET i == acc.run
         c == Head(acc.todo)
         v == VerdictOf(Settled(i), items[i])
     IN /\ runs' = [runs EXCEPT ![i] = Settled(i)]
        /\ \E pass \in ProbesPass(c) : Verdict(c, IF v = "passed" /\ ~pass THEN "warning" ELSE v)
  /\ UNCHANGED <<plan, list, content, db, items, msgs, w, conn, settings, stale, form, gap, budget, disp>>

NotRestored == settings
Restored == [settings EXCEPT !.enabled = @ \/ acc.was]

ReportOfBlocked(of) ==
  LET tested == {of[c] : c \in Connectors} \ {"none", "blocked"} IN
  IF tested = {} THEN "blocked"
  ELSE IF tested \subseteq {"failed"} THEN "failed"
  ELSE IF "failed" \in tested THEN "partial"
  ELSE IF "warning" \in tested THEN "succeeded_with_warnings" ELSE "succeeded"
ReportStatus(of) ==
  LET tested == {of[c] : c \in Connectors} \ {"none", "blocked"} IN
  IF tested \subseteq {"failed"} THEN "failed"
  ELSE IF "failed" \in tested THEN "partial"
  ELSE IF "warning" \in tested THEN "succeeded_with_warnings" ELSE "succeeded"
Finish ==
  /\ acc.pc = "next" /\ acc.todo = <<>>
  /\ report' = [st |-> ReportStatus(acc.of), of |-> acc.of]
  /\ settings' = Restored
  /\ acc' = [acc EXCEPT !.pc = "done"]
  /\ UNCHANGED <<plan, list, content, db, runs, items, msgs, w, conn, stale, form, gap, budget, disp>>

(* Anything else that raises is reported, and the automation restored too.     *)
Fatal ==
  /\ acc.pc \in {"prepare", "next", "create"} /\ Spend("faults")
  /\ report' = [st |-> "failed", of |-> acc.of]
  /\ settings' = Restored
  /\ acc' = [acc EXCEPT !.pc = "done"]
  /\ UNCHANGED <<plan, list, content, db, runs, items, msgs, w, conn, stale, form, gap, disp>>

(* The process of the task dies, with the extraction inside it.                *)
Die ==
  /\ acc.pc \in {"prepare", "next", "create", "wait"} /\ Spend("faults")
  /\ acc' = [acc EXCEPT !.pc = "dead"]
  /\ IF acc.pc = "wait" /\ w[acc.run].pc # "off"
     THEN w' = [w EXCEPT ![acc.run] = Off] /\ gap' = gap \cup {Head(acc.todo)}
     ELSE UNCHANGED <<w, gap>>
  /\ UNCHANGED <<plan, list, content, db, runs, items, msgs, conn, settings, stale, form, report, disp>>

AccInit == acc = Idle /\ report = NoReport /\ disp = "idle"

Task == StartAcceptance \/ Prepare \/ CheckConnector \/ TestConnector \/ Judge \/ Finish
AccNext == Dispatch \/ Resave \/ Task \/ Fatal \/ Die
==============================================================================
