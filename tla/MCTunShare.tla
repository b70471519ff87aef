----------------------------- MODULE MCTunShare -----------------------------
(* Model checking of TunShare: two handles, three packets in batches of two. *)
EXTENDS TunShare
=============================================================================
