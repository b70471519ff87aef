----------------------------- MODULE MCPanelJobs -----------------------------
(* Model checking of PanelJobs: the switch of the WARP card, which may be     *)
(* pressed again while its first job is followed, and a toggle of a page.     *)
EXTENDS PanelJobs, TLC

CONSTANTS on, off, flip, switch, toggle

MCJobs == {on, off, flip}
MCControls == {switch, toggle}
MCOf == (on :> switch) @@ (off :> switch) @@ (flip :> toggle)
MCCard == {switch}
MCToggles == {toggle}
==============================================================================
