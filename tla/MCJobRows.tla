----------------------------- MODULE MCJobRows ------------------------------
(* Small instances of JobRows for TLC. *)
EXTENDS JobRows, TLC

\* Jobs and requests are interchangeable: nothing orders them.
Symmetry == Permutations(Jobs) \cup Permutations(Requests)

=============================================================================
