---------------------------- MODULE MCRepositories -----------------------------
(***************************************************************************)
(* Model-checking instances of Repositories.                               *)
(***************************************************************************)
EXTENDS Repositories, TLC

Symmetry ==
  Permutations(Callers) \cup Permutations(Workspaces) \cup Permutations(Chats)
    \cup Permutations(Turns)

================================================================================
