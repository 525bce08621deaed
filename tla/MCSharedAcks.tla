----------------------------- MODULE MCSharedAcks -----------------------------
(* Small instances of SharedAcks for TLC. *)
EXTENDS SharedAcks, TLC

Symmetry == Permutations(Handles) \cup Permutations(Frames)
===============================================================================
