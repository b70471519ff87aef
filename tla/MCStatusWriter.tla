--------------------------- MODULE MCStatusWriter ---------------------------
(* Model checking of StatusWriter: two status values that can be told apart, *)
(* three runtime timers (one of the current Write and two late ones).        *)
EXTENDS StatusWriter, TLC

CONSTANTS ready, notReady, t1, t2, t3

MCStatus == {ready, notReady}
MCTimers == {t1, t2, t3}
=============================================================================
