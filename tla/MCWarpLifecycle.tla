--------------------------- MODULE MCWarpLifecycle ---------------------------
(* Model checking of WarpLifecycle: two presses of any kind.  Which of the    *)
(* two is which makes no difference, so each pair is given in one order.      *)
EXTENDS WarpLifecycle, Naturals, TLC

CONSTANTS o1, o2

MCPresses == {o1, o2}

Order == <<"enable", "if-idle", "disable", "restart">>
Pair(i, j) == (o1 :> Order[i]) @@ (o2 :> Order[j])
MCCalls == {Pair(ij[1], ij[2]) : ij \in {x \in (1..4) \X (1..4) : x[1] <= x[2]}}
MCOnOff == {Pair(1, 3)}
==============================================================================
