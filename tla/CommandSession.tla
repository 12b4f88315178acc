-------------------------- MODULE CommandSession --------------------------
(***************************************************************************)
(* What a server that runs commands for clients promises: a client is sent *)
(* output of its own commands only, never of one it has not asked for, and *)
(* none of a command once output of a later one has been sent.  The n-th   *)
(* command of client c and every block it causes are <<c, n>>.             *)
(***************************************************************************)
EXTENDS Naturals, Sequences

CONSTANTS Clients,
          MaxBlocks  \* bound: blocks sent at a time

VARIABLES asked,  \* the number of commands each client has sent
          got     \* the blocks sent to each client

Init ==
    /\ asked = [c \in Clients |-> 0]
    /\ got = [c \in Clients |-> <<>>]

Ask(c) ==
    /\ asked' = [asked EXCEPT ![c] = @ + 1]
    /\ UNCHANGED got

Deliver(c) ==
    /\ \E n \in 1 .. asked[c], k \in 1 .. MaxBlocks :
          /\ \A i \in DOMAIN got[c] : got[c][i][2] <= n
          /\ got' = [got EXCEPT ![c] = @ \o [i \in 1 .. k |-> <<c, n>>]]
    /\ UNCHANGED asked

Next == \E c \in Clients : Ask(c) \/ Deliver(c)

Spec == Init /\ [][Next]_<<asked, got>>
=============================================================================
