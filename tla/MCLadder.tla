------------------------------ MODULE MCLadder ------------------------------
(* Model checking of Ladder: N and Cooldown come from the cfg.  Every start *)
(* position is an initial state.                                            *)
EXTENDS Ladder
=============================================================================
