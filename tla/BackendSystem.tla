---------------------------- MODULE BackendSystem ----------------------------
(* The backend outside the analysis runs: extraction with its schedule and the *)
(* acceptance of connectors, beside the desks people and the assistant work    *)
(* at and the plan of the analysis lanes.  A setup gives each part its inputs. *)
EXTENDS ExtractionSystem, WorkflowSystem, ThroughputPolicy

CONSTANT Setups   \* <<plan, scene, load>>

backendVars == <<vars, wfVars, loopVars>>
BackendInit == Init /\ WfInit /\ LoopInit /\ <<plan, scene, load>> \in Setups
BackendNext ==
  \/ Next /\ UNCHANGED <<wfVars, loopVars>>
  \/ WfNext /\ UNCHANGED <<vars, loopVars>>
  \/ HalfHour /\ UNCHANGED <<vars, wfVars>>
BackendSpec == BackendInit /\ [][BackendNext]_backendVars /\ Fairness

(* Type invariant of the backend.                                              *)
BackendTypeOK == ExtractionTypeOK /\ WfTypeOK /\ LoopTypeOK
==============================================================================
