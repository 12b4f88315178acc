---------------------------- MODULE MCPopenShell ----------------------------
(* Instances of PopenShell for TLC.                                        *)
EXTENDS PopenShell

CONSTANTS c1, c2

TwoClients == {c1, c2}
=============================================================================
