--------------------------- MODULE MCInterpreter ---------------------------
(* Instances of Interpreter for TLC.                                       *)
EXTENDS Interpreter

Do(kind)   == [kind |-> kind, n |-> 0]
Source(n)  == [kind |-> "source", n |-> n]

(* Every kind of stage behind a source that fills no pipe, one pipe, and   *)
(* more than a read and a pipe take, with up to two stages behind it.      *)
AllLines ==
    LET First == {Source(n) : n \in {0, 1, 3, 7}} \cup {Do("redirect"), Do("fails")}
        Later == {Source(1), Do("cat"), Do("head"), Do("fails")}
    IN  {<<f>> : f \in First} \cup (First \X Later) \cup (First \X Later \X Later)
=============================================================================
