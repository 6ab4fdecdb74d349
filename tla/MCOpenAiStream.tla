---------------------------- MODULE MCOpenAiStream -----------------------------
(***************************************************************************)
(* Model-checking instances of OpenAiStream.                               *)
(***************************************************************************)
EXTENDS OpenAiStream, TLC

Symmetry == Permutations(Ids)

================================================================================
