-------------------------- MODULE MC_TextService ---------------------------
(* Small instances of TextService for TLC. *)
EXTENDS TextService, TLC

Symmetry == Permutations(Context)
=============================================================================
