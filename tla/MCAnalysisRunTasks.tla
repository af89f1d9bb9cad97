---- MODULE MCAnalysisRunTasks ----
(* Small instances of AnalysisRunTasks. *)
EXTENDS AnalysisRunTasks
====
