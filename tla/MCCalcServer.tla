--------------------------- MODULE MCCalcServer ---------------------------
(* Instances of CalcServer for TLC.                                        *)
EXTENDS CalcServer, TLC

CONSTANTS c1, c2, c3

TwoClients   == {c1, c2}
ThreeClients == {c1, c2, c3}

NoClient == {}
One      == {c1}

TwoThree  == (c1 :> 2) @@ (c2 :> 3)
OneOnly   == (c1 :> 3) @@ (c2 :> 3) @@ (c3 :> 1)
=============================================================================
