--------------------------- MODULE MCSettingsList ----------------------------
(* A small instance of SettingsList for TLC. *)
EXTENDS SettingsListInv, TLC

Sizes == {1, 2}
Symmetry == Permutations(Id) \cup Permutations(Key) \cup Permutations(Node)
=============================================================================
