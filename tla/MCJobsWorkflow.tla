--------------------------- MODULE MCJobsWorkflow ---------------------------
(* Small instances of JobsWorkflow for TLC. *)
EXTENDS JobsWorkflow, TLC

\* Workflows are interchangeable: nothing orders them.
Symmetry == Permutations(Workflows)

=============================================================================
