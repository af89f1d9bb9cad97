--------------------------- MODULE WorkflowSystem ---------------------------
(* The desks together: analysis on request and its reviews, cases, commands of *)
(* the assistant and direct opportunities, by users whose calls interleave.    *)
EXTENDS InteractionContract, DirectOpportunities

wfVars == <<callVars, deskVars, caseVars, contractVars, directVars>>

WfInit ==
  /\ scene \in Scenes /\ may = scene.may /\ call = [p \in Users |-> NoCall]
  /\ notice = scene.notice /\ ctx = scene.ctx /\ areq = scene.areq /\ drafts = scene.drafts
  /\ mixed = {} /\ case = scene.case /\ made = Cardinality({n \in Notices : case[n].id # 0})
  /\ contracts = {} /\ lease = [l \in Leases |-> "none"]
  /\ pending = [k \in Pendings |-> [st |-> "none", cand |-> {}, late |-> FALSE]]
  /\ revision = 0 /\ journal = <<>>
  /\ opp = scene.opp /\ result = [r \in Opps |-> [of |-> 0, out |-> "won"]] /\ tangled = {}

WfNext ==
  \/ DeskStep /\ UNCHANGED <<caseVars, contractVars, directVars>>
  \/ CaseStep /\ UNCHANGED <<contractVars, directVars>>
  \/ ContractStep /\ UNCHANGED directVars
  \/ DirectStep /\ UNCHANGED <<caseVars, contractVars>>

-----------------------------------------------------------------------------
NoticeRows == [content : Nat, rec : BOOLEAN, type : {"none", "machine", "human"},
               work : {"ready", "queued", "analyzed", "failed"}, kept : BOOLEAN]
ContextRows == [st : {"none", "draft", "active", "retired"}, text : Nat, files : Nat]
BatchStates == {"processing", "completed", "partial", "failed"}
RequestRows ==
  [st : Open \cup {"none", "completed", "failed", "no_changes"}, ctx : Versions \cup {0},
   guarded : BOOLEAN, cand : SUBSET Notices, failed : SUBSET Notices,
   batches : Seq(BatchStates)]
DraftRows ==
  [n : Notices, content : Nat, ctx : Versions, req : Requests \cup {0}, batch : Nat, rec : BOOLEAN,
   rev : {"ai_draft", "reviewed", "published", "rejected"}]
CaseRows == [id : Nat, st : CaseStages, docs : BOOLEAN, next : {0, 1}]
LeaseStates == {"none", "live", "revoked", "lapsed"}
PendingRows == [st : {"none", "awaiting", "cancelled", "executed"}, cand : SUBSET Notices, late : BOOLEAN]
JournalRows == [rev : Nat, n : Notices, id : Nat]
OpportunityRows == [st : OpenStages \cup Outcomes \cup {"none"}, trial : Nat, gone : BOOLEAN]
ResultRows == [of : Opps \cup {0}, out : Outcomes]

(* A scene begins with rows the desks could have left: the flags follow the    *)
(* drafts, cases are numbered and protected, no outcome lacks its result.      *)
Begun(s) ==
  /\ s.notice \in [Notices -> NoticeRows] /\ s.ctx \in [Versions -> ContextRows]
  /\ s.areq \in [Requests -> RequestRows] /\ s.drafts \in Seq(DraftRows)
  /\ s.case \in [Notices -> CaseRows] /\ s.opp \in [Opps -> OpportunityRows]
  /\ \A q \in Requests : IF s.areq[q].st = "none" THEN s.areq[q].batches = <<>> ELSE s.areq[q].ctx \in Versions
  /\ \A n \in Notices : /\ s.notice[n].rec = Effective(s.drafts, n)
                        /\ s.case[n].id <= Cardinality({m \in Notices : s.case[m].id # 0})
                        /\ s.case[n].id # 0 => s.notice[n].kept
  /\ \A o \in Opps : s.opp[o].st \in Outcomes => s.opp[o].trial # 0 /\ s.opp[o].st = "won"
ASSUME ScenesAssumption == \A s \in Scenes : Begun(s)

(* Type invariant of the desks.                                                *)
WfTypeOK ==
  /\ notice \in [Notices -> NoticeRows] /\ ctx \in [Versions -> ContextRows]
  /\ areq \in [Requests -> RequestRows] /\ drafts \in Seq(DraftRows)
  /\ mixed \subseteq Notices \X {"flag", "kept"}
  /\ case \in [Notices -> CaseRows]
  /\ made \in Nat /\ contracts \subseteq 1..made
  /\ lease \in [Leases -> LeaseStates]
  /\ pending \in [Pendings -> PendingRows]
  /\ revision \in Nat /\ journal \in Seq(JournalRows)
  /\ opp \in [Opps -> OpportunityRows]
  /\ result \in [Opps -> ResultRows] /\ tangled \subseteq Opps \cup {0}

(* The flag of a notice says what its latest draft says, rejections included,  *)
(* unless calls wrote the flag from an old read, a review was of an older      *)
(* draft, or sent the draft back (views_review, views_recommended, signals).   *)
FlagFollowsReview ==
  \A n \in Notices : <<n, "flag">> \notin mixed => notice[n].rec = Effective(drafts, n)

(* Analyses are made under one active context; a second one comes only of      *)
(* calls that overlap (activate of views_analysis_management).                 *)
OneActiveContext ==
  [][Cardinality(ActiveContexts) <= 1 /\ Cardinality(ActiveContexts') > 1
     => \E p \in Users : At(p, "activate", "retired") /\ call[p].met]_wfVars

(* A notice with a case is protected from retention when nothing is under way, *)
(* unless a removal or an ingestion wrote over somebody else's protection.     *)
CasesAreProtected ==
  \A n \in Notices : Quiet /\ case[n].id # 0 /\ <<n, "kept">> \notin mixed => notice[n].kept

(* A command selects under a lease of its conversation that was not revoked,   *)
(* or was while the command ran; a new case makes one journal entry with the   *)
(* next revision, and a confirmation uses its pending action up.               *)
CommandsAreAccounted ==
  [][/\ journal' # journal =>
          LET e == journal'[Len(journal')] IN
          /\ journal' = Append(journal, e) /\ e.rev = revision' /\ revision' = Len(journal')
          /\ case[e.n].id = 0 /\ case'[e.n].id = e.id
          /\ \A i \in DOMAIN journal : journal[i].id # e.id
          /\ \E p \in Users : /\ call[p].op \in {"command", "confirm"} /\ call'[p] = NoCall
                              /\ lease[Seen(p).l] \in {"live", "lapsed"} \/ call[p].met
     /\ \A k \in Pendings : pending[k].st \in {"cancelled", "executed"} => pending'[k].st = pending[k].st]_wfVars

(* A final stage is told by a stored result of the same outcome, unless a call *)
(* wrote the row as it was before or the result was moved (views_direct); the  *)
(* trial is won before it has a result.                                        *)
OutcomeIsTold ==
  \A o \in Opps :
    Quiet /\ o \notin tangled /\ opp[o].st \in Outcomes /\ ~(opp[o].trial # 0 /\ opp[o].st = "won")
    => [of |-> o, out |-> opp[o].st] \in {result[r] : r \in Opps}
==============================================================================
