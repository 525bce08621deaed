----------------------------- MODULE MCEventLoop -----------------------------
(* Small instances of EventLoop for TLC: handlers of one channel, monitors of the same or of   *)
(* another one, two timers of different periods.                                               *)
EXTENDS EventLoop

CONSTANTS h1, h2, m1, m2, t1, t2, c1, c2

OneChannel == [x \in Handlers \cup Monitors |-> c1]
WantAll == [h \in Handlers |-> Ids]
Periods == [t \in Clocks |-> IF t = t1 THEN 2 ELSE 3]
===============================================================================
