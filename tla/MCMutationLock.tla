--------------------------- MODULE MCMutationLock ---------------------------
(* Model checking of MutationLock: three or four processes, of which some     *)
(* may die.                                                                   *)
EXTENDS MutationLock

CONSTANTS p1, p2, p3, p4

MCThree == {p1, p2, p3}
MCFour == {p1, p2, p3, p4}
MCNobody == {}
MCOne == {p1}
MCTwo == {p1, p2}
=============================================================================
