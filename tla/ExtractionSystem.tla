--------------------------- MODULE ExtractionSystem ---------------------------
(* Extraction, its schedule and the acceptance test of the connectors over the *)
(* same tables, with the sources, users and faults around them.                *)
EXTENDS ConnectorAcceptance

vars == <<extVars, accVars>>

Init == ExtInit /\ AccInit

Outside == Publish \/ Edit \/ Validate \/ Switch \/ DueArrives \/ TimePasses
Faults == \E i \in Runs : Stop(i) \/ LoseMessage(i)
Tables == CreateManual \/ DispatchDue \/ RecoverStale \/ \E i \in Runs : Worker(i)
Next == ((Outside \/ Faults \/ Tables) /\ UNCHANGED accVars) \/ AccNext
Spec == Init /\ [][Next]_vars

(* The beat ticks and the workers go on; time passes over a run nobody         *)
(* executes.  Users, sources and faults owe nothing.                           *)
Fairness ==
  /\ WF_vars(DispatchDue /\ UNCHANGED accVars)
  /\ WF_vars(RecoverStale /\ UNCHANGED accVars)
  /\ \A i \in Runs : WF_vars(Worker(i) /\ UNCHANGED accVars)
  /\ WF_vars(TimePasses /\ budget' = budget /\ UNCHANGED accVars)
  /\ WF_vars(Task)
FairSpec == Spec /\ Fairness

-----------------------------------------------------------------------------
Summaries == [status : {"none", "succeeded", "succeeded_with_warnings", "partial", "failed"},
              complete : BOOLEAN, ok : Nat, bad : Nat]
Candidates == [r : Records, at : Contents]
WorkerRow(u) ==
  /\ u.pc \in {"off", "list", "details", "save"} /\ u.conn \in Connectors \cup {"none"}
  /\ u.todo \in Seq(Connectors) /\ u.prev \in Seq(Records) /\ u.cands \in Seq(Candidates)
  /\ u.page \in Nat /\ u.known \in Nat /\ u.floor \in BOOLEAN /\ u.first \in BOOLEAN
  /\ u.start \subseteq Records /\ u.jobs \in Seq([conn : Connectors, cands : Seq(Candidates)])
  /\ u.sum \in Summaries /\ u.sums \in [Connectors -> Summaries]
ItemCounts == [ok : Nat, bad : Nat, pages : Nat]
ConnectorRows == [enabled : BOOLEAN, ok : BOOLEAN]
SettingsRow == [enabled : BOOLEAN, next : {"none", "later", "due"}]
RunRecords == [st : RunStatus, trig : {"none", "manual", "scheduled"},
               mode : {"none", "incremental", "range"}, details : BOOLEAN,
               conns : SUBSET Connectors, cap : Nat, ok : Nat, bad : Nat, closed : BOOLEAN]

(* Type invariant of the extraction system.                                    *)
ExtractionTypeOK ==
  /\ plan \in Plans
  /\ list \in [Connectors -> Seq(Records)] /\ content \in [Records -> Contents]
  /\ db \in [Records -> RowType]
  /\ runs \in [Runs -> RunRecords]
  /\ items \in [Runs -> ItemCounts]
  /\ msgs \subseteq Runs /\ stale \subseteq Runs /\ gap \subseteq Connectors
  /\ \A i \in Runs : WorkerRow(w[i])
  /\ conn \in [Connectors -> ConnectorRows]
  /\ settings \in SettingsRow
  /\ acc.pc \in {"off", "sent", "prepare", "next", "create", "wait", "done", "dead"}
  /\ report.st \in Terminal \cup {"none", "queued", "running"} /\ disp \in {"idle", "sent"}

(* Every revision of a record says something new, and the newest is what the   *)
(* row holds: neither the place in the list nor a countdown that runs on makes *)
(* one (ingest_parsed_notice).                                                 *)
RevisionsAreSemantic ==
  \A r \in Records :
    LET row == db[r] IN
    /\ \A k \in 1..(Len(row.revs) - 1) : row.revs[k] # row.revs[k + 1]
    /\ Stored(row) => Last(row.revs) = row.hash

(* The deadline of a notice moves only together with a revision of its source. *)
DeadlineMovesWithRevision ==
  [][\A r \in Records : db'[r].due # db[r].due => Len(db'[r].revs) > Len(db[r].revs)]_vars

(* A run that asks for details never loses the detail a record has, nor goes   *)
(* back to an older one (the preserved details of Hezareh and Parsnamad), as   *)
(* long as it is the only run that stores.                                     *)
Alone(i) == \A j \in Runs \ {i} : w[j].pc = "off"
DetailsAreKept ==
  [][\A i \in Runs, r \in Records :
       w[i] # w'[i] /\ runs[i].details /\ Alone(i) => db'[r].raw.d >= db[r].raw.d]_vars

(* A list that ends as complete has left nothing out: unless a list of the     *)
(* connector broke off before, or ended at known pages after it had grown by   *)
(* two pages under its reader, or another run reads it, all that was listed    *)
(* and recent enough when it began is stored (the list loop of                 *)
(* _execute_connector and _known_boundary_can_stop).                           *)
CompleteMeansStored ==
  [][\A i \in Runs : LET c == w[i].conn IN
       (/\ w[i].pc = "list" /\ w[i].page > 0 /\ w[i].sums[c].status = "none"
        /\ w'[i].sums[c].complete
        /\ c \notin gap'
        /\ \A j \in Runs \ {i} : w[j].pc = "off" \/ w[j].conn # c)
       => \A r \in w[i].start \ plan.old : Stored(db'[r])]_vars

(* A run reported as succeeded read every one of its connectors to the end of  *)
(* its list and without a warning.                                             *)
SuccessIsComplete ==
  \A i \in Runs :
    runs[i].st = "succeeded" =>
      \A c \in runs[i].conns : w[i].sums[c].status = "succeeded" /\ w[i].sums[c].complete

(* At most one scheduled run is queued or running, besides those the recovery  *)
(* closed and a late worker took up again.                                     *)
OneScheduledRun ==
  Cardinality({i \in Runs : runs[i].trig = "scheduled" /\ runs[i].st \in Active /\ ~runs[i].closed}) <= 1

(* An acceptance report says succeeded only if every connector that was tested *)
(* passed, each by a run that stored something and succeeded (or was cancelled *)
(* as stale under the test: its verdict does not look for that).               *)
AcceptedMeansPassed ==
  report.st = "succeeded" =>
    \A c \in Connectors : report.of[c] \notin {"none", "blocked"} =>
      \E i \in Runs : /\ runs[i].conns = {c} /\ runs[i].mode = "range"
                      /\ runs[i].st = "succeeded" \/ runs[i].closed
                      /\ items[i].ok > 0

(* A due extraction is dispatched in the end, whoever died meanwhile: dead     *)
(* runs are recovered by the schedule or closed by the acceptance dispatcher.  *)
DueIsDispatched ==
  settings.next = "due" ~> (settings.next # "due" \/ ~settings.enabled \/ Free = {})

(* Automation that the acceptance test switched off comes back, unless the     *)
(* process of the test died.                                                   *)
AutomationComesBack ==
  (acc.pc = "prepare" /\ acc.was) ~> (settings.enabled \/ acc.pc = "dead" \/ Free = {})
==============================================================================
