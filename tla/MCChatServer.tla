--------------------------- MODULE MCChatServer ---------------------------
(* Instances of ChatServer for TLC.                                        *)
EXTENDS ChatServer, TLC

CONSTANTS c1, c2, c3

ThreeClients == {c1, c2, c3}
OnlyC2       == {c2}

(* Unwritten words hold junk or what will be the descriptor of c2.         *)
JunkOrC2  == {Junk, c2}

TwoByC1 == (c1 :> 2) @@ (c2 :> 0) @@ (c3 :> 0)
=============================================================================
