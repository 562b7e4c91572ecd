---------------------------- MODULE MCPromotion ----------------------------
(* Promotion on small instances. Exporters differ in nothing but their name, *)
(* and so do reviewers: symmetry is used where no liveness is checked.       *)
EXTENDS Promotion, TLC

ProcessSymmetry == Permutations(Exporter) \cup Permutations(Reviewer)

\* From enqueueing to withdrawal, without the detours that never export.
ExportPath == {"candidate", "approved", "corrected", "rollback_needed"}
============================================================================
