---------------------------- MODULE MCEchoServer ----------------------------
(* Instances of EchoServer for TLC.                                        *)
EXTENDS EchoServer

CONSTANTS c1, c2, c3

ThreeClients == {c1, c2, c3}

(* End of input, and text around "exit" as a read may cut it.              *)
Typed == {<<>>, <<"text", "exit">>, <<"exit", "text", "text">>}
=============================================================================
