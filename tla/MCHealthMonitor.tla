-------------------------- MODULE MCHealthMonitor --------------------------
(* Model checking of HealthMonitor; the cfg files give the periods.        *)
EXTENDS HealthMonitor
=============================================================================
