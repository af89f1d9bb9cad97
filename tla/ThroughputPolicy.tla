--------------------------- MODULE ThroughputPolicy ---------------------------
(* The plan of the analysis lanes (procurement/analysis_throughput.py): from   *)
(* the open work and from what the last hour imported and lost to expired      *)
(* leases, how many lanes run and how many packages each may take in an hour.  *)
(* The plan closes a loop, for the lanes import what is counted next; the hour *)
(* is kept as two halves.  The lanes themselves are executors outside the code.*)
EXTENDS Integers

CONSTANTS Loads,   \* per behaviour: first rows, first half hour, half hours to come
          Shares   \* <<per cent of its plan a half hour imports, per cent it loses>>

ASSUME LoadsAssumption ==
  \A l \in Loads : l \in [raw : Nat, redundant : Nat, imported : Nat, halves : Nat] /\ l.redundant <= l.raw
ASSUME SharesAssumption == Shares \subseteq (0..100) \X (0..100)

VARIABLES load, backlog, hour, halvesLeft
loopVars == <<load, backlog, hour, halvesLeft>>

SafePackageSize == 50
MaxPackagesPerLane == 20
MaxAnalysisLanes == 40
ClaimReservationSize == 250
DesignCapacity == 40000

AtMost(a, b) == IF a <= b THEN a ELSE b
AtLeast(a, b) == IF a >= b THEN a ELSE b
Ceil(a, b) == (a + b - 1) \div b

ClaimWindow(remaining) ==
  IF remaining >= 10000 THEN 1000 ELSE IF remaining >= 5000 THEN 750
  ELSE IF remaining >= 500 THEN 500 ELSE AtMost(250, remaining)

DesiredLanes(remaining) ==
  IF remaining >= 10000 THEN MaxAnalysisLanes
  ELSE IF remaining > 0 THEN AtMost(MaxAnalysisLanes, AtLeast(1, Ceil(remaining, ClaimReservationSize)))
  ELSE 0

BasePackages(remaining) ==
  IF remaining = 0 THEN 0
  ELSE AtMost(MaxPackagesPerLane, AtLeast(1, Ceil(AtMost(1000, ClaimWindow(remaining)), SafePackageSize)))

(* Expired leases among what was decided in the hour, once that is a package.  *)
LossAt(completed, expired, percent) ==
  completed + expired >= SafePackageSize /\ 100 * expired >= percent * (completed + expired)

RampStage(completed) == IF completed >= 30000 THEN DesignCapacity ELSE 5000 * (completed \div 5000 + 1)
RampTarget(completed, expired) ==
  IF LossAt(completed, expired, 20) THEN 5000
  ELSE IF LossAt(completed, expired, 10) THEN 10000
  ELSE IF LossAt(completed, expired, 5) THEN 15000
  ELSE RampStage(completed)

\* Mutant: the packages of the ramp are rounded down.
RampRoundedDown(lanes, target) == AtLeast(1, target \div (lanes * SafePackageSize))
PackagesForRamp(lanes, target) == AtLeast(1, Ceil(target, lanes * SafePackageSize))

PackagesPerLane(remaining, target) ==
  IF remaining = 0 THEN 0
  ELSE AtMost(AtMost(MaxPackagesPerLane, BasePackages(remaining)),
              PackagesForRamp(DesiredLanes(remaining), target))

PlannedCapacity(remaining, target) ==
  DesiredLanes(remaining) * SafePackageSize * PackagesPerLane(remaining, target)

-----------------------------------------------------------------------------
(* Redundant items are skipped by the reconciliation, before or after.         *)
EffectiveBacklog == AtLeast(0, backlog.raw - backlog.redundant)
InTheHour(what) == hour[1][what] + hour[2][what]
RampGoal == RampTarget(InTheHour("imported"), InTheHour("expired"))
PlannedNow == PlannedCapacity(EffectiveBacklog, RampGoal)

LoopInit ==
  /\ load \in Loads /\ halvesLeft = load.halves
  /\ backlog = [raw |-> load.raw, redundant |-> load.redundant]
  /\ hour = << [imported |-> 0, expired |-> 0], [imported |-> load.imported, expired |-> 0] >>

(* Half an hour: the lanes import some of what was planned and lose some, which*)
(* stays open; the reconciliation may have come first.                         *)
HalfHour == \E share \in Shares, reconciled \in BOOLEAN :
  LET done == AtMost(EffectiveBacklog, (share[1] * PlannedNow) \div 200)
      lost == (share[2] * PlannedNow) \div 200
      redundant == IF reconciled THEN 0 ELSE backlog.redundant
  IN
  /\ halvesLeft > 0 /\ halvesLeft' = halvesLeft - 1
  /\ backlog' = [raw |-> backlog.raw - done - (backlog.redundant - redundant), redundant |-> redundant]
  /\ hour' = << hour[2], [imported |-> done, expired |-> lost] >>
  /\ UNCHANGED load

LoopSpec == LoopInit /\ [][HalfHour]_loopVars

-----------------------------------------------------------------------------
Halves == [imported : Nat, expired : Nat]
(* Type invariant of the loop.                                                 *)
LoopTypeOK ==
  /\ load \in Loads /\ halvesLeft \in Nat
  /\ backlog \in [raw : Nat, redundant : Nat] /\ backlog.redundant <= backlog.raw
  /\ hour \in Halves \X Halves

(* What the lanes may take in an hour reaches the stage the ramp asks for, or  *)
(* all that is left: the next stage is opened by imports, so a plan below its  *)
(* own stage would hold the loop there for good (adaptive_throughput_policy).  *)
PlanSuffices == PlannedNow >= AtMost(EffectiveBacklog, RampGoal)
===============================================================================
