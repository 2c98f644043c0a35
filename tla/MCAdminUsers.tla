---------------------------- MODULE MCAdminUsers ----------------------------
(* Small instances of AdminUsers for TLC. *)
EXTENDS AdminUsers, TLC

\* Tabs and user names are interchangeable: nothing orders either.
Symmetry == Permutations(Tabs) \cup Permutations(Logins)

=============================================================================
