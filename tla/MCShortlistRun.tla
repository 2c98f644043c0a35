--------------------------- MODULE MCShortlistRun ---------------------------
(* Small instances of ShortlistRun for TLC. *)
EXTENDS ShortlistRun, TLC

\* Runs, jobs and requests are interchangeable: nothing orders them.
Symmetry == Permutations(Runs) \cup Permutations(Jobs) \cup Permutations(Tasks)

=============================================================================
