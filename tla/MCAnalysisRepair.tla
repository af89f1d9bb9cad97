---- MODULE MCAnalysisRepair ----
(* Small instances of AnalysisRepair. *)
EXTENDS AnalysisRepair, TLC

Symmetry == Permutations(Churn)
====
