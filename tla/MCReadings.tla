------------------------------- MODULE MCReadings -------------------------------
(* Instances of Readings: one channel, one LIN bus, two threads. *)
EXTENDS Readings
================================================================================
