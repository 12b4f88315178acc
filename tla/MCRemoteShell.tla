-------------------------- MODULE MCRemoteShell --------------------------
(* Instances of RemoteShell for TLC.                                       *)
EXTENDS RemoteShell, TLC

CONSTANTS c1, c2, c3

ThreeClients == {c1, c2, c3}
OnlyC2       == {c2}

TwoByC1 == (c1 :> 2) @@ (c2 :> 1) @@ (c3 :> 0)
=============================================================================
