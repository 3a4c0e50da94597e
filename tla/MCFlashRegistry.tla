-------------------------- MODULE MCFlashRegistry --------------------------
(* Small instances of FlashRegistry for TLC. *)
EXTENDS FlashRegistry, TLC

\* Program ids are interchangeable.
IdSymmetry == Permutations(Ids)
=============================================================================
