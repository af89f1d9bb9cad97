------------------------- MODULE DirectOpportunities -------------------------
(* Opportunities that come without a notice: their stage, follow-ups and final *)
(* result, kept in two tables, and the guarded trial of the bridge, which      *)
(* takes a recommended draft from selection to a contract draft.               *)
EXTENDS AnalysisDesk

CONSTANTS Opps   \* 1..n: opportunities, and the rows of results
ASSUME OppsAssumption == IsFiniteSet(Opps) /\ Opps = 1..Cardinality(Opps)

VARIABLES opp,      \* per opportunity: stage, draft of the trial it is of, soft deletion
          result,   \* per result: opportunity (0: no such row), outcome
          tangled   \* history: opportunities written from an old read, or whose result was moved
directVars == <<opp, result, tangled>>

OpenStages == {"new", "following", "selected", "preparing", "submitted"}
Outcomes == {"won", "lost", "contract"}   \* the stages that tell of a result; "lost" also the other ends
HasResult(o) == \E r \in Opps : result[r].of = o
Visible(o) == opp[o].st # "none" /\ ~opp[o].gone
FreeOpp == CHOOSE o \in Opps : opp[o].st = "none" /\ \A x \in 1..(o - 1) : opp[x].st # "none"
HasFreeOpp == \E o \in Opps : opp[o].st = "none"
Tangles(p, os) == tangled' = IF call[p].met THEN tangled \cup os ELSE tangled

AnyStage(st) == st \in OpenStages \cup Outcomes
ValidStage(st) == st \in OpenStages

CreateOpportunity == \E st \in OpenStages :
  /\ HasFreeOpp /\ Spends("newopp")
  /\ opp' = [opp EXCEPT ![FreeOpp] = [@ EXCEPT !.st = st]]
  /\ UNCHANGED <<call, deskVars, result, tangled>>

ReadOpportunity(p) == \E op \in {"update", "hide", "contact"}, o \in Opps :
  /\ IF op = "contact" THEN opp[o].st # "none" ELSE Visible(o)
  /\ Begins(p, op, [o |-> o, saw |-> opp[o]])
  /\ UNCHANGED <<deskVars, directVars>>

(* A PATCH writes the whole row as loaded; the stage it gives is an open one.  *)
UpdateOpportunity(p) ==
  /\ At(p, "update", "read") /\ Ends(p)
  /\ \E st \in {s \in OpenStages \cup Outcomes : ValidStage(s)} \cup {Seen(p).saw.st} : opp' =
       [opp EXCEPT ![Seen(p).o] = [Seen(p).saw EXCEPT !.st = st]]
  /\ Tangles(p, {Seen(p).o})
  /\ UNCHANGED <<deskVars, result>>
SoftDelete(p) ==
  /\ At(p, "hide", "read") /\ Ends(p)
  /\ opp' = [opp EXCEPT ![Seen(p).o].gone = TRUE]
  /\ UNCHANGED <<deskVars, result, tangled>>
(* A follow-up writes the stage as loaded, or the first step on.               *)
FollowUp(p) ==
  /\ At(p, "contact", "read") /\ Ends(p)
  /\ opp' = [opp EXCEPT ![Seen(p).o].st = IF Seen(p).saw.st = "new" THEN "following" ELSE Seen(p).saw.st]
  /\ Tangles(p, {Seen(p).o})
  /\ UNCHANGED <<deskVars, result>>

(* A result is stored, once per opportunity, and then told by the stage.       *)
ReadForResult(p) == \E o \in Opps, out \in Outcomes :
  /\ opp[o].st # "none" /\ ~HasResult(o)
  /\ Begins(p, "result", [o |-> o, out |-> out, r |-> 0])
  /\ UNCHANGED <<deskVars, directVars>>
FreeResult == CHOOSE r \in Opps : result[r].of = 0
InsertResult(p) ==
  /\ At(p, "result", "read")
  /\ IF HasResult(Seen(p).o) THEN Ends(p) /\ UNCHANGED result
     ELSE /\ Continues(p, "stored", [Seen(p) EXCEPT !.r = FreeResult])
          /\ result' = [result EXCEPT ![FreeResult] = [of |-> Seen(p).o, out |-> Seen(p).out]]
  /\ UNCHANGED <<deskVars, opp, tangled>>

(* A result may be given another outcome, and another opportunity too.         *)
ReadForRevision(p) == \E r \in Opps, o \in Opps, out \in Outcomes :
  /\ result[r].of # 0 /\ opp[o].st # "none" /\ (o = result[r].of \/ ~HasResult(o))
  /\ Begins(p, "revise", [r |-> r, o |-> o, out |-> out, was |-> result[r].of])
  /\ UNCHANGED <<deskVars, directVars>>
ReviseResult(p) ==
  LET c == Seen(p) IN
  /\ At(p, "revise", "read")
  /\ IF \E r \in Opps \ {c.r} : result[r].of = c.o THEN Ends(p) /\ UNCHANGED <<result, tangled>>
     ELSE /\ Continues(p, "stored", Seen(p))
          /\ result' = [result EXCEPT ![c.r] = [of |-> c.o, out |-> c.out]]
          /\ tangled' = IF call[p].met \/ c.o # c.was THEN tangled \cup {c.o, c.was, result[c.r].of} ELSE tangled
  /\ UNCHANGED <<deskVars, opp>>

StageTold(out, st) == out
ApplyOutcome(p) == \E op \in {"result", "revise"} :
  /\ At(p, op, "stored") /\ Ends(p)
  /\ opp' = [opp EXCEPT ![Seen(p).o].st = StageTold(Seen(p).out, @)]
  /\ UNCHANGED <<deskVars, result, tangled>>

-----------------------------------------------------------------------------
(* The guarded trial.  Each command is a transaction that locks nothing.       *)
TrialOf(k) == {o \in Opps : opp[o].st # "none" /\ opp[o].trial = k}
ReadForTrial(p) == \E k \in DOMAIN drafts :
  /\ drafts[k].rev = "ai_draft" /\ drafts[k].rec
  /\ Begins(p, "trial", [k |-> k, found |-> TrialOf(k) # {}])
  /\ UNCHANGED <<deskVars, directVars>>
StartTrial(p) ==
  /\ At(p, "trial", "read") /\ Ends(p)
  /\ opp' = IF Seen(p).found \/ ~HasFreeOpp THEN opp
            ELSE [opp EXCEPT ![FreeOpp] = [@ EXCEPT !.st = "selected", !.trial = Seen(p).k]]
  /\ UNCHANGED <<deskVars, result, tangled>>

NextStage == [selected |-> "preparing", preparing |-> "submitted", submitted |-> "won"]
ReadForAdvance(p) == \E o \in Opps :
  /\ Visible(o) /\ opp[o].trial # 0 /\ opp[o].st \in DOMAIN NextStage
  /\ Begins(p, "advance", [o |-> o, st |-> NextStage[opp[o].st]])
  /\ UNCHANGED <<deskVars, directVars>>
AdvanceTrial(p) ==
  /\ At(p, "advance", "read") /\ Ends(p)
  /\ opp' = [opp EXCEPT ![Seen(p).o].st = Seen(p).st]
  /\ Tangles(p, {Seen(p).o})
  /\ UNCHANGED <<deskVars, result>>

(* The conversion makes the contract and the result; with a result that names  *)
(* no contract, or another one, it is refused.                                 *)
ReadForConversion(p) == \E o \in Opps :
  /\ Visible(o) /\ opp[o].trial # 0 /\ opp[o].st = "won"
  /\ Begins(p, "convert", [o |-> o])
  /\ UNCHANGED <<deskVars, directVars>>
ConvertTrial(p) ==
  LET o == Seen(p).o IN
  /\ At(p, "convert", "read") /\ Ends(p)
  /\ IF HasResult(o)
     THEN /\ UNCHANGED result
          /\ \/ UNCHANGED opp
             \/ /\ [of |-> o, out |-> "contract"] \in {result[r] : r \in Opps}
                /\ opp' = [opp EXCEPT ![o].st = "contract"]
     ELSE /\ result' = [result EXCEPT ![FreeResult] = [of |-> o, out |-> "contract"]]
          /\ opp' = [opp EXCEPT ![o].st = "contract"]
  /\ UNCHANGED <<deskVars, tangled>>

DirectStep == CreateOpportunity \/ \E p \in Users :
  \/ ReadOpportunity(p) \/ UpdateOpportunity(p) \/ SoftDelete(p) \/ FollowUp(p)
  \/ ReadForResult(p) \/ InsertResult(p) \/ ReadForRevision(p) \/ ReviseResult(p) \/ ApplyOutcome(p)
  \/ ReadForTrial(p) \/ StartTrial(p) \/ ReadForAdvance(p) \/ AdvanceTrial(p)
  \/ ReadForConversion(p) \/ ConvertTrial(p)
==============================================================================
