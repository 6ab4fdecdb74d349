---------------------------- MODULE MCSettingsStore ----------------------------
(***************************************************************************)
(* Model-checking instances of SettingsStore.                              *)
(***************************************************************************)
EXTENDS SettingsStore, TLC

Symmetry == Permutations(Edits) \cup Permutations(Writes)

================================================================================
