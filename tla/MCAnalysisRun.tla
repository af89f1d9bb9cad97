---- MODULE MCAnalysisRun ----
(* Small instances of AnalysisRun. *)
EXTENDS AnalysisRun, TLC

Symmetry == Permutations(Notices) \cup Permutations(Workers) \cup Permutations(Tokens)
====
