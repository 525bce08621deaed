----------------------------- MODULE MCSharedPark -----------------------------
(* A small instance of SharedPark for TLC. *)
EXTENDS SharedPark, TLC

Symmetry == Permutations(Handles)

Script(calls, breaks, frames) == [calls |-> calls, breaks |-> breaks, frames |-> frames]

\* Losses need two frames; an unplugged adapter and a receive without a deadline do not.
Library ==
    {Script({"send", "look", "diagnostics"}, FALSE, 2), Script({"recv", "diagnostics"}, FALSE, 2),
     Script({"recv", "wait"}, TRUE, 1), Script({"send", "look"}, TRUE, 1)}
===============================================================================
