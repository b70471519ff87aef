------------------------------ MODULE MCEngine ------------------------------
(* Model checking of Engine in the automatic mode.  The paths settle so that *)
(* one step carries and the others open without carrying anything, which is  *)
(* what misleads a ladder.                                                    *)
EXTENDS Engine

Only(s, other) == [t \in 0..(N - 1) |-> IF t = s THEN "carries" ELSE other]

\* One step of the ladder works, the others open and carry nothing.
MCNets == {Only(s, "opens") : s \in 0..(N - 1)}
=============================================================================
