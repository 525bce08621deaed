----------------------------- MODULE MCCodexReview -----------------------------
(* Instances of CodexReview: two processes, each in a worktree of its own. *)
EXTENDS CodexReview, TLC

CONSTANTS p1, p2, w1, w2

Apart == (p1 :> w1) @@ (p2 :> w2)
================================================================================
