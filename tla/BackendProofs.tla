----------------------------- MODULE BackendProofs -----------------------------
(* The backend as a whole: the plan of the analysis lanes, and that extraction,*)
(* the desks and the plan keep side by side what each keeps alone.             *)
EXTENDS BackendSystem, ExtractionProofs, WorkflowProofs

-----------------------------------------------------------------------------
(* The plan of the analysis lanes reaches its own target, for every load, every*)
(* share the lanes import and lose, and every number of half hours.            *)

(* Ceiling division covers what it divides.                                   *)
LEMMA CeilCovers ==
  ASSUME NEW a \in Nat, NEW b \in Nat, b > 0
  PROVE  Ceil(a, b) \in Nat /\ b * Ceil(a, b) >= a
<1> DEFINE n == a + b - 1
<1>1. n \in Nat
  OBVIOUS
<1>2. n \div b \in Nat /\ n < b * (n \div b) + b
  BY <1>1, DivisionBounds
<1> QED
  BY <1>2 DEF Ceil

(* The lanes: none for nothing, all for much, and else enough of them for a    *)
(* reservation of 250 items each to cover what remains.                        *)
LEMMA LanesCover ==
  ASSUME NEW r \in Nat
  PROVE  /\ DesiredLanes(r) \in 0..40
         /\ r > 0 => DesiredLanes(r) > 0
         /\ r >= 10000 => DesiredLanes(r) = 40
         /\ r < 10000 => 250 * DesiredLanes(r) >= r
<1>1. Ceil(r, 250) \in Nat /\ 250 * Ceil(r, 250) >= r
  BY CeilCovers
<1>2. r < 10000 => Ceil(r, 250) <= 40
  <2>1. r < 10000 => (r + 250 - 1) \div 250 <= 40
    BY SMT
  <2> QED
    BY <2>1 DEF Ceil
<1> QED
  BY <1>1, <1>2, SMT DEF DesiredLanes, AtMost, AtLeast, MaxAnalysisLanes, ClaimReservationSize

(* The packages a lane may take by its window: 20 of 50 for a large backlog, at*)
(* least 5 from 250 items on, and enough for what remains below that.          *)
LEMMA BaseCovers ==
  ASSUME NEW r \in Nat, r > 0
  PROVE  /\ BasePackages(r) \in 1..20
         /\ r >= 10000 => BasePackages(r) = 20
         /\ r >= 250 => BasePackages(r) >= 5
         /\ r < 250 => 50 * BasePackages(r) >= r
<1> DEFINE window == AtMost(1000, ClaimWindow(r))
           packages == Ceil(window, 50)
<1>1. /\ window \in Nat
      /\ r >= 10000 => window = 1000
      /\ r >= 250 => window >= 250
      /\ r < 250 => window = r
      /\ window <= 1000
  BY SMT DEF ClaimWindow, AtMost
<1> HIDE DEF window
<1>2. packages \in Nat /\ 50 * packages >= window
  BY <1>1, CeilCovers
<1>3. window <= 1000 => packages <= 20
  <2>1. window <= 1000 => (window + 50 - 1) \div 50 <= 20
    BY <1>1, SMT
  <2> QED
    BY <2>1 DEF Ceil
<1>4. BasePackages(r) = AtMost(20, AtLeast(1, packages))
  BY DEF BasePackages, MaxPackagesPerLane, SafePackageSize, window
<1> HIDE DEF packages
<1> QED
  BY <1>1, <1>2, <1>3, <1>4, SMT DEF AtMost, AtLeast

(* A positive product has positive factors.                                    *)
LEMMA PositiveFactor ==
  ASSUME NEW m \in Nat, NEW n \in Nat, m * n >= 1
  PROVE  n >= 1
<1>1. CASE n = 0
  <2>1. m * 0 = 0
    BY SMT
  <2> QED
    BY <1>1, <2>1
<1> QED
  BY <1>1

Targets == {t \in Nat : 1 <= t /\ t <= DesignCapacity}

(* The plan for r items under a target t reaches t, or r.                      *)
LEMMA PlanCovers ==
  ASSUME NEW r \in Nat, NEW t \in Targets
  PROVE  PlannedCapacity(r, t) \in Nat /\ PlannedCapacity(r, t) >= AtMost(r, t)
<1> DEFINE lanes == DesiredLanes(r)
           base == BasePackages(r)
           ramp == PackagesForRamp(lanes, t)
<1>t. t \in Nat /\ t >= 1 /\ t <= 40000
  BY DEF Targets, DesignCapacity
<1>1. CASE r = 0
  BY <1>1, <1>t DEF PlannedCapacity, PackagesPerLane, DesiredLanes, SafePackageSize, AtMost
<1>2. CASE r > 0
  <2>1. /\ lanes \in 1..40 /\ (r >= 10000 => lanes = 40) /\ (r < 10000 => 250 * lanes >= r)
    BY <1>2, LanesCover
  <2>2. /\ base \in 1..20 /\ (r >= 10000 => base = 20)
        /\ (r >= 250 => base >= 5) /\ (r < 250 => 50 * base >= r)
    BY <1>2, BaseCovers
  <2> HIDE DEF lanes, base
  <2> DEFINE once == lanes * 50
  <2>0. once \in Nat /\ once > 0
    BY <2>1
  <2> HIDE DEF once
  <2>3. ramp \in Nat /\ once * ramp >= t
    <3>1. Ceil(t, once) \in Nat /\ once * Ceil(t, once) >= t
      BY <2>0, <1>t, CeilCovers
    <3>2. Ceil(t, once) >= 1
      <4> DEFINE q == Ceil(t, once)
      <4> HIDE DEF q
      <4>1. q \in Nat /\ once * q >= t
        BY <3>1 DEF q
      <4>2. once * q >= 1
        <5>1. once * q \in Nat
          BY <2>0, <4>1
        <5> QED
          BY <1>t, <4>1, <5>1
      <4>3. q >= 1
        BY <2>0, <4>1, <4>2, PositiveFactor
      <4> QED
        BY <4>3 DEF q
    <3>3. ramp = AtLeast(1, Ceil(t, once))
      BY DEF PackagesForRamp, SafePackageSize, ramp, once
    <3>4. ramp = Ceil(t, once)
      BY <3>1, <3>2, <3>3 DEF AtLeast
    <3> QED
      BY <3>1, <3>4
  <2> HIDE DEF ramp
  <2>4. PlannedCapacity(r, t) = once * AtMost(base, ramp)
    <3>1. AtMost(20, base) = base
      BY <2>2 DEF AtMost
    <3> QED
      BY <1>2, <3>1 DEF PlannedCapacity, PackagesPerLane, MaxPackagesPerLane, SafePackageSize, lanes, base, ramp, once
  <2>5. CASE AtMost(base, ramp) = ramp
    BY <2>0, <1>t, <2>3, <2>4, <2>5 DEF AtMost
  <2>6. CASE AtMost(base, ramp) = base
    <3>1. (lanes * 50) * base \in Nat /\ (lanes * 50) * base >= AtMost(r, t)
      <4>1. CASE r >= 10000
        BY <1>t, <2>1, <2>2, <4>1 DEF AtMost
      <4>2. CASE r < 10000 /\ r >= 250
        <5>1. (lanes * 50) * base >= (lanes * 50) * 5
          BY <2>1, <2>2, <4>2, SMT
        <5> QED
          BY <1>t, <2>1, <2>2, <4>2, <5>1 DEF AtMost
      <4>3. CASE r < 250
        <5>1. (lanes * 50) * base >= 50 * base
          BY <2>1, <2>2, SMT
        <5> QED
          BY <1>t, <2>1, <2>2, <4>3, <5>1 DEF AtMost
      <4> QED
        BY <4>1, <4>2, <4>3
    <3> QED
      BY <2>4, <2>6, <3>1 DEF once
  <2> QED
    BY <2>5, <2>6 DEF AtMost
<1> QED
  BY <1>1, <1>2

(* The target of the ramp is one of its stages.                                *)
LEMMA TargetIsStage ==
  ASSUME NEW c \in Nat, NEW e \in Nat
  PROVE  RampTarget(c, e) \in Targets
<1> DEFINE k == c \div 5000
           stage == 5000 * (k + 1)
<1>1. c < 30000 => k \in Int /\ 0 <= k /\ k <= 5
  OBVIOUS
<1> HIDE DEF k
<1>2. c < 30000 => /\ stage \in Int /\ 1 <= stage /\ stage <= 40000
                   /\ stage \in Targets
  <2>1. c < 30000 => stage \in Int /\ 1 <= stage /\ stage <= 40000
    BY ONLY <1>1
  <2> HIDE DEF stage
  <2> QED
    BY <2>1 DEF Targets, DesignCapacity
<1>3. 5000 \in Targets /\ 10000 \in Targets /\ 15000 \in Targets /\ 40000 \in Targets
  BY DEF Targets, DesignCapacity
<1>4. RampStage(c) \in Targets
  <2>1. RampStage(c) = IF c >= 30000 THEN 40000 ELSE stage
    BY DEF RampStage, DesignCapacity, k
  <2> HIDE DEF stage
  <2> QED
    BY <1>2, <1>3, <2>1
<1> QED
  BY <1>3, <1>4, SMT DEF RampTarget

(* Under the type invariant, what the loop counts are natural numbers.         *)
LEMMA LoopCounts ==
  ASSUME LoopTypeOK
  PROVE  /\ EffectiveBacklog \in Nat /\ EffectiveBacklog = backlog.raw - backlog.redundant
         /\ InTheHour("imported") \in Nat /\ InTheHour("expired") \in Nat
         /\ RampGoal \in Targets /\ PlannedNow \in Nat /\ PlannedNow >= AtMost(EffectiveBacklog, RampGoal)
<1>1. EffectiveBacklog \in Nat /\ EffectiveBacklog = backlog.raw - backlog.redundant
  BY DEF LoopTypeOK, EffectiveBacklog, AtLeast
<1>2. InTheHour("imported") \in Nat /\ InTheHour("expired") \in Nat
  BY DEF LoopTypeOK, Halves, InTheHour
<1>3. RampGoal \in Targets
  <2>1. \A c, e \in Nat : RampTarget(c, e) \in Targets
    BY TargetIsStage
  <2> QED
    BY <1>2, <2>1, Zenon DEF RampGoal
<1>4. /\ PlannedCapacity(EffectiveBacklog, RampGoal) \in Nat
      /\ PlannedCapacity(EffectiveBacklog, RampGoal) >= AtMost(EffectiveBacklog, RampGoal)
  <2>1. \A r \in Nat, t \in Targets :
          PlannedCapacity(r, t) \in Nat /\ PlannedCapacity(r, t) >= AtMost(r, t)
    BY PlanCovers
  <2> QED
    BY <1>1, <1>3, <2>1, Zenon
<1>5. PlannedNow = PlannedCapacity(EffectiveBacklog, RampGoal)
  BY DEF PlannedNow
<1> QED
  BY <1>1, <1>2, <1>3, <1>4, <1>5

(* The loop keeps its types, whatever the lanes import and lose.               *)
THEOREM LoopTypes == LoopSpec => []LoopTypeOK
<1>1. LoopInit => LoopTypeOK
  BY LoadsAssumption DEF LoopInit, LoopTypeOK, Halves
<1>2. LoopTypeOK /\ [HalfHour]_loopVars => LoopTypeOK'
  <2> SUFFICES ASSUME LoopTypeOK, [HalfHour]_loopVars PROVE LoopTypeOK'
    OBVIOUS
  <2>1. CASE HalfHour
    <3>1. PICK share \in Shares, reconciled \in BOOLEAN :
            LET done == AtMost(EffectiveBacklog, (share[1] * PlannedNow) \div 200)
                lost == (share[2] * PlannedNow) \div 200
                redundant == IF reconciled THEN 0 ELSE backlog.redundant
            IN /\ halvesLeft > 0 /\ halvesLeft' = halvesLeft - 1
               /\ backlog' = [raw |-> backlog.raw - done - (backlog.redundant - redundant), redundant |-> redundant]
               /\ hour' = << hour[2], [imported |-> done, expired |-> lost] >>
               /\ UNCHANGED load
      BY <2>1 DEF HalfHour
    <3> DEFINE done == AtMost(EffectiveBacklog, (share[1] * PlannedNow) \div 200)
               lost == (share[2] * PlannedNow) \div 200
               redundant == IF reconciled THEN 0 ELSE backlog.redundant
    <3>2. done \in 0..EffectiveBacklog /\ lost \in Nat
      <4>1. share[1] \in Nat /\ share[2] \in Nat
        BY SharesAssumption
      <4>2. EffectiveBacklog \in Nat /\ PlannedNow \in Nat
        BY LoopCounts
      <4>3. share[1] * PlannedNow \in Nat /\ share[2] * PlannedNow \in Nat
        BY <4>1, <4>2
      <4>4. (share[1] * PlannedNow) \div 200 \in Nat /\ (share[2] * PlannedNow) \div 200 \in Nat
        BY <4>3, DivisionBounds
      <4> QED
        BY <4>2, <4>4 DEF AtMost
    <3>3. EffectiveBacklog = backlog.raw - backlog.redundant
      BY LoopCounts
    <3>4. redundant \in Nat /\ redundant <= backlog.redundant
      BY DEF LoopTypeOK
    <3> HIDE DEF done, lost, redundant
    <3>5. /\ halvesLeft > 0 /\ halvesLeft' = halvesLeft - 1 /\ load' = load
          /\ backlog' = [raw |-> backlog.raw - done - (backlog.redundant - redundant), redundant |-> redundant]
          /\ hour' = << hour[2], [imported |-> done, expired |-> lost] >>
      BY <3>1 DEF done, lost, redundant
    <3>6. backlog' \in [raw : Nat, redundant : Nat] /\ backlog'.redundant <= backlog'.raw
      BY <3>2, <3>3, <3>4, <3>5 DEF LoopTypeOK
    <3>7. hour' \in Halves \X Halves
      BY <3>2, <3>3, <3>5 DEF LoopTypeOK, Halves
    <3> QED
      BY <3>5, <3>6, <3>7 DEF LoopTypeOK
  <2>2. CASE UNCHANGED loopVars
    BY <2>2 DEF loopVars, LoopTypeOK
  <2> QED
    BY <2>1, <2>2
<1> QED
  BY <1>1, <1>2, PTL DEF LoopSpec

(* The plan always reaches its target or all that is left.                     *)
THEOREM PlanAlwaysSuffices == LoopSpec => []PlanSuffices
<1>1. LoopTypeOK => PlanSuffices
  BY LoopCounts DEF PlanSuffices
<1> QED
  BY <1>1, LoopTypes, PTL

-----------------------------------------------------------------------------
(* The backend is its parts side by side.                                      *)

(* Every behaviour of the backend is one of the extraction and one of the loop.*)
LEMMA BackendIsItsParts == BackendSpec => FairSpec /\ LoopSpec
<1>1. BackendInit => Init /\ LoopInit
  BY DEF BackendInit
<1>2. [BackendNext]_backendVars => [Next]_vars
  BY DEF BackendNext, backendVars
<1>3. [BackendNext]_backendVars => [HalfHour]_loopVars
  BY DEF BackendNext, backendVars
<1> QED
  BY <1>1, <1>2, <1>3, PTL DEF BackendSpec, FairSpec, Spec, LoopSpec

(* What extraction, schedule, acceptance and plan keep alone, they keep beside *)
(* the desks.                                                                  *)
THEOREM PartsKeepTheirPromises ==
  BackendSpec => /\ [](RevisionsAreSemantic /\ SuccessIsComplete /\ OneScheduledRun /\ AcceptedMeansPassed /\ PlanSuffices)
                 /\ DeadlineMovesWithRevision /\ DetailsAreKept /\ CompleteMeansStored
  BY BackendIsItsParts, RevisionsStaySemantic, SuccessStaysComplete, OneRunIsScheduled, AcceptedHavePassed,
     PlanAlwaysSuffices, DeadlinesMoveWithRevisions, DetailsStayKept, CompleteListsAreStored, PTL DEF FairSpec

(* The desks stay in order whatever the rest of the backend does.              *)
LEMMA DesksAlways == BackendSpec => []DesksInv
<1>1. BackendInit => DesksInv
  BY WfInitKeeps DEF BackendInit
<1>2. DesksInv /\ [BackendNext]_backendVars => DesksInv'
  <2>1. [BackendNext]_backendVars => [WfNext]_wfVars
    BY DEF BackendNext, backendVars
  <2> QED
    BY <2>1, WfStepKeeps
<1> QED
  BY <1>1, <1>2, PTL DEF BackendSpec

(* Every table of the backend keeps its type.                                  *)
THEOREM BackendIsTyped == BackendSpec => []BackendTypeOK
<1>1. ExtractionTypeOK /\ DesksInv /\ LoopTypeOK => BackendTypeOK
  BY DesksAreTyped DEF BackendTypeOK
<1> QED
  BY <1>1, BackendIsItsParts, ExtractionIsTyped, LoopTypes, DesksAlways, PTL DEF FairSpec

(* The recommended flag of a notice says what its latest draft says, whatever  *)
(* calls come between a read and its write, unless one of those calls is in    *)
(* mixed (views_review, views_recommended, bridge and the signal of drafts).   *)
THEOREM FlagsFollowReviews == BackendSpec => []FlagFollowsReview
<1>1. DesksInv => FlagFollowsReview
  BY DEF DesksInv
<1> QED
  BY <1>1, DesksAlways, PTL

(* A notice with a case is protected from retention once nothing is under way: *)
(* case and protection are two statements in the views.                        *)
THEOREM CasesStayProtected == BackendSpec => []CasesAreProtected
<1>1. DesksInv => CasesAreProtected
  BY QuietDesks
<1> QED
  BY <1>1, DesksAlways, PTL

(* A final stage has a stored result of the same outcome once nothing is under *)
(* way: result and stage are two statements in views_direct.                   *)
THEOREM OutcomesAreTold == BackendSpec => []OutcomeIsTold
<1>1. DesksInv => OutcomeIsTold
  BY QuietDesks
<1> QED
  BY <1>1, DesksAlways, PTL

(* A second active context comes only of an activation that met another call:  *)
(* one that met none has retired every other (activate of                      *)
(* views_analysis_management).                                                 *)
THEOREM OneContextIsActive == BackendSpec => OneActiveContext
<1> DEFINE Once == Cardinality(ActiveContexts) <= 1 /\ Cardinality(ActiveContexts') > 1
                   => \E p \in Users : At(p, "activate", "retired") /\ call[p].met
<1>1. DesksInv /\ [BackendNext]_backendVars => [Once]_wfVars
  <2>1. [BackendNext]_backendVars => [WfNext]_wfVars
    BY DEF BackendNext, backendVars
  <2> QED
    BY <2>1, SecondContextIsOfOverlap
<1> QED
  BY <1>1, DesksAlways, PTL DEF BackendSpec, OneActiveContext

(* A command selects under a lease that was not revoked before it began, makes *)
(* one journal entry of the next revision for a new case, and uses up its      *)
(* pending action for good (interaction_contract).                             *)
THEOREM CommandsStayAccounted == BackendSpec => CommandsAreAccounted
<1> DEFINE Accounted ==
      /\ journal' # journal =>
           LET e == journal'[Len(journal')] IN
           /\ journal' = Append(journal, e) /\ e.rev = revision' /\ revision' = Len(journal')
           /\ case[e.n].id = 0 /\ case'[e.n].id = e.id
           /\ \A i \in DOMAIN journal : journal[i].id # e.id
           /\ \E p \in Users : /\ call[p].op \in {"command", "confirm"} /\ call'[p] = NoCall
                               /\ lease[Seen(p).l] \in {"live", "lapsed"} \/ call[p].met
      /\ \A k \in Pendings : pending[k].st \in {"cancelled", "executed"} => pending'[k].st = pending[k].st
<1>1. DesksInv /\ [BackendNext]_backendVars => [Accounted]_wfVars
  <2>1. [BackendNext]_backendVars => [WfNext]_wfVars
    BY DEF BackendNext, backendVars
  <2> QED
    BY <2>1, CommandsStep
<1> QED
  BY <1>1, DesksAlways, PTL DEF BackendSpec, CommandsAreAccounted
================================================================================
