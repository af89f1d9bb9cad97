---- MODULE AnalysisRunTasks ----
(***************************************************************************)
(* The Celery tasks around the analysis run: the message that initializes a *)
(* new run, the beat's dispatcher, and the continuation it sends for a run  *)
(* it finds active.                                                         *)
(*                                                                          *)
(* The continuation locks nothing while it looks: it reads the run, counts  *)
(* the items, and writes in three separate statements, between which every  *)
(* request of AnalysisRun may commit.  A worker process may die between any *)
(* two of them, and a message is acknowledged when it is received.          *)
(***************************************************************************)
EXTENDS AnalysisRun

VARIABLES
  queue,  \* [task, run] messages in the broker
  cont    \* [Runs -> continuation in progress, at most one for a run]

taskVars == <<queue, cont>>
allVars == <<vars, taskVars>>

Messages == [task : {"initialize", "continue"}, run : Runs]

\* `read' is the status the continuation has read, `open' whether it counted open items.
Continuations ==
  [at : {"idle", "read", "counted"}, read : RunStatuses, open : BOOLEAN]

Idle == [at |-> "idle", read |-> "absent", open |-> FALSE]

Message(task, r) == [task |-> task, run |-> r]

\* A start request or the dispatcher creates a run and sends its initialization;
\* or the process dies after the commit, before the message is sent.
StartAndSend(r) ==
  /\ Start(r)
  /\ queue' = queue \cup {Message("initialize", r)}
  /\ UNCHANGED cont

StartAndDie(r) == Start(r) /\ UNCHANGED taskVars

\* initialize_analysis_run_task.
ReceiveInitialize(r) ==
  /\ Message("initialize", r) \in queue
  /\ queue' = queue \ {Message("initialize", r)}
  /\ IF run[r].status = "pending" THEN Initialize(r) ELSE UNCHANGED vars
  /\ UNCHANGED cont

\* Mutant: only a run that has begun is continued.
DispatchBegun(r) ==
  /\ run[r].status \in {"running", "waiting_for_results"}
  /\ queue' = queue \cup {Message("continue", r)}
  /\ UNCHANGED <<vars, cont>>

\* dispatch_scheduled_analysis_run, when it finds a run active; when it finds none
\* it starts one.
Dispatch(r) ==
  /\ run[r].status \in ActiveStatuses
  /\ queue' = queue \cup {Message("continue", r)}
  /\ UNCHANGED <<vars, cont>>

\* continue_analysis_run_task: the run as it is now.
ReceiveContinue(r) ==
  /\ Message("continue", r) \in queue /\ cont[r].at = "idle"
  /\ queue' = queue \ {Message("continue", r)}
  /\ cont' = [cont EXCEPT ![r] =
                [at |-> "read", read |-> run[r].status, open |-> FALSE]]
  /\ UNCHANGED vars

\* refresh_run_counters: the items as they are now.
CountOpen(r) ==
  /\ cont[r].at = "read"
  /\ cont' = [cont EXCEPT ![r].at = "counted", ![r].open = Open(item[r]) # {}]
  /\ UNCHANGED <<vars, queue>>

\* finalize_run_if_exhausted, which locks the run and counts again.
ContinueFinalize(r) ==
  LET status == Finalized(run[r].status, item[r]) IN
  /\ cont[r].at = "counted" /\ ~cont[r].open
  /\ cont' = [cont EXCEPT ![r] = Idle]
  /\ run' = IF SingleActive(r, status)
              THEN [run EXCEPT ![r].status = status] ELSE run
  /\ UNCHANGED <<content, visible, active, item, drafts, returned, tickets, queue>>

\* The status that was read decides; the status that is there is overwritten.
ContinueSave(r) ==
  /\ cont[r].at = "counted" /\ cont[r].open
  /\ cont' = [cont EXCEPT ![r] = Idle]
  /\ run' = IF cont[r].read \notin {"paused", "cancelled"} /\ SingleActive(r, "running")
              THEN [run EXCEPT ![r].status = "running"] ELSE run
  /\ UNCHANGED <<content, visible, active, item, drafts, returned, tickets, queue>>

ContinueDies(r) ==
  /\ cont[r].at # "idle"
  /\ cont' = [cont EXCEPT ![r] = Idle]
  /\ UNCHANGED <<vars, queue>>

----------------------------------------------------------------------------
TasksInit == Init /\ queue = {} /\ cont = [r \in Runs |-> Idle]

TaskStep(r) ==
  \/ StartAndSend(r) \/ StartAndDie(r)
  \/ ReceiveInitialize(r)
  \/ Dispatch(r) \/ ReceiveContinue(r) \/ CountOpen(r)
  \/ ContinueFinalize(r) \/ ContinueSave(r) \/ ContinueDies(r)

TasksNext ==
  \/ \E r \in Runs : TaskStep(r)
  \/ \E r \in Runs : Operate(r) /\ UNCHANGED taskVars
  \/ Environment /\ UNCHANGED taskVars

\* The beat comes round again and again, and the workers do not die every time.
Fairness ==
  \A r \in Runs :
    /\ WF_allVars(Dispatch(r)) /\ SF_allVars(ReceiveContinue(r))
    /\ SF_allVars(CountOpen(r))
    /\ SF_allVars(ContinueFinalize(r)) /\ SF_allVars(ContinueSave(r))

TasksSpec == TasksInit /\ [][TasksNext]_allVars
FairTasksSpec == TasksSpec /\ Fairness

----------------------------------------------------------------------------
\* Properties

TasksTypeOK ==
  TypeOK /\ queue \in SUBSET Messages /\ cont \in [Runs -> Continuations]

\* Whatever request or crash came between, an active run whose work is exhausted is
\* closed by the dispatcher, unless it is paused or gets new work.
ExhaustedRunsAreClosed ==
  \A r \in Runs :
    run[r].status \in ActiveStatuses \ {"paused"} /\ Open(item[r]) = {}
      ~> \/ run[r].status \in FinishedStatuses \cup {"paused"}
         \/ Open(item[r]) # {}

\* A pending run ends without changes only when the scan finds nothing eligible
\* (procurement-full-pending-analysis.md: "discovers every currently eligible
\* notice and persists the complete queue").
PendingRunsAreScanned ==
  [][\A r \in Runs :
       run[r].status = "pending" /\ run'[r].status = "no_changes" =>
         \A n \in Notices :
           Candidate(r, n) => AnalysisReasons(r, n, run[r].ctx) = {}]_allVars
====
