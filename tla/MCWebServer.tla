---------------------------- MODULE MCWebServer ----------------------------
(* Instances of WebServer for TLC.                                         *)
EXTENDS WebServer, TLC

CONSTANTS c1, c2, c3

ThreeClients == {c1, c2, c3}
OnlyC1       == {c1}

(* The client that may leave asks once, another one twice.                 *)
OnceAndTwice == (c1 :> 1) @@ (c2 :> 2) @@ (c3 :> 0)
=============================================================================
