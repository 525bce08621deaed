----------------------------- MODULE MCBackground ------------------------------
(* Instances of Background. *)
EXTENDS Background
================================================================================
