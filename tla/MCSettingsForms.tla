-------------------------- MODULE MCSettingsForms --------------------------
(* Small instances of SettingsForms for TLC. *)
EXTENDS SettingsForms, TLC

\* Tabs and texts are interchangeable: nothing orders them.
Symmetry == Permutations(Tabs) \cup Permutations(Texts)

=============================================================================
