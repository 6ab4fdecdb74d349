---------------------------- MODULE MCKeyringStore -----------------------------
(***************************************************************************)
(* Model-checking instances of KeyringStore.                               *)
(***************************************************************************)
EXTENDS KeyringStore, TLC

Symmetry == Permutations(Callers) \cup Permutations(Keys) \cup Permutations(Values)

================================================================================
