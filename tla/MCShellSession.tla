--------------------------- MODULE MCShellSession ---------------------------
(* Instances of ShellSession for TLC.                                      *)
EXTENDS ShellSession

CONSTANTS c1, c2, c3

ThreeClients == {c1, c2, c3}
One          == {c1}
=============================================================================
