----------------------------- MODULE MCSharedOpen -----------------------------
(* Small instances of SharedOpen for TLC. *)
EXTENDS SharedOpen, TLC

Symmetry == Permutations(Openers)
===============================================================================
