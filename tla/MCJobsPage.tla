----------------------------- MODULE MCJobsPage -----------------------------
(* Small instances of JobsPage for TLC. *)
EXTENDS JobsPage, TLC

\* The workflows of this tab are interchangeable: nothing orders them.
Symmetry == Permutations(Mine)

=============================================================================
