---------------------------- MODULE MC_UserStore ----------------------------
(* Small instances of UserStore for TLC. *)
EXTENDS UserStore, TLC

Symmetry == Permutations(Writer) \union Permutations(Reader)
=============================================================================
