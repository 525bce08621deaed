----------------------------- MODULE MCOnThread ------------------------------
(* Small instances of OnThread for TLC. *)
EXTENDS OnThread
===============================================================================
