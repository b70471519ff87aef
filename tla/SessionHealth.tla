--------------------------- MODULE SessionHealth ---------------------------
(***************************************************************************)
(* What the health monitor promises the engine about one transport         *)
(* session, without probes, counters or time.                              *)
(*                                                                         *)
(* A session starts unproven.  It becomes proven at most once, by a        *)
(* verdict "alive", and stays proven; "alive" is never said of an unproven *)
(* session; "dead" is the last verdict of a session.  HealthMonitor        *)
(* implements this, Engine is built on it.                                 *)
(***************************************************************************)
VARIABLES
  proven,   \* Monitor.Proven()
  verdict   \* what the last Assess returned

sessionVars == <<proven, verdict>>

Init ==
  /\ proven = FALSE
  /\ verdict = "doubtful"

Live == verdict # "dead"

Confirm ==
  /\ Live
  /\ proven' = TRUE
  /\ verdict' = "alive"

Doubts ==
  /\ Live
  /\ verdict' = "doubtful"
  /\ UNCHANGED proven

Die ==
  /\ Live
  /\ verdict' = "dead"
  /\ UNCHANGED proven

\* The transport is opened anew.
Reset ==
  /\ proven' = FALSE
  /\ verdict' = "doubtful"

Next == Confirm \/ Doubts \/ Die \/ Reset

Spec == Init /\ [][Next]_sessionVars
=============================================================================
