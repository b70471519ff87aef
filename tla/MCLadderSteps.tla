--------------------------- MODULE MCLadderSteps ---------------------------
(* Model checking of LadderSteps: an issued address with up to three ports,  *)
(* valid, invalid and repeated; an alternative; a fallback file with blocks  *)
(* of every small size; all spellings of the mode.                           *)
EXTENDS LadderSteps

Addr(n, o) == <<n, o>>
Block(n, o, s) == [addr |-> Addr(n, o), size |-> s]

MCNetworks == {"a", "b", "c", "d", "e"}

MCBuiltin == <<Block("c", 1, 0), Block("a", 0, 0)>>

MCFiles == {<<>>, <<Block("a", 0, 0)>>, <<Block("b", 4, 0), Block("b", 0, 4)>>}
           \cup {<<Block("b", 0, s)>> : s \in {1, 2, 4, 8}}

MCPorts == {<<>>, <<3>>, <<0, 3>>, <<2, 1, 4>>, <<3, 1, 3>>}

MCAlt == {<<>>} \cup {<<[host |-> Addr(n, 0), ports |-> p]>> :
                         n \in {"a", "d"}, p \in {<<>>, <<3, 1>>}}

MCSteps == {WG(Addr("a", 0), 2), WG(Addr("a", 0), 3), WG(Addr("c", 1), 2)}

MCPreferred == {<<>>, <<H2>>, <<WG(Addr("e", 9), 2)>>,
                <<WG(Addr("a", 0), 3), WG(Addr("b", 1), 2), WG(Addr("a", 0), 3)>>,
                <<WG(Addr("a", 0), 9), WG(NoHost, 2)>>}

MCInputs ==
  [v4 : {NoHost, Addr("a", 0)}, ports : MCPorts, alt : MCAlt, file : MCFiles,
   transport : {"", "auto", "wg", "h2", "masque", "typo"},
   start : {Nil, H2} \cup MCSteps, preferred : MCPreferred]
=============================================================================
