------------------------------- MODULE MCIsoTp -------------------------------
(* Small instances of IsoTp for TLC. *)
EXTENDS IsoTp, TLC
===============================================================================
