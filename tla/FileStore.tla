----------------------------- MODULE FileStore -----------------------------
(***************************************************************************)
(* What the file transfer promises about the contents of a transfer: once  *)
(* in the life of the server one client owns the store, and its file is    *)
(* put down piece by piece, in order, and each piece once.  It is not      *)
(* promised that the file is ever complete.                                *)
(***************************************************************************)
EXTENDS Naturals, Sequences

CONSTANTS Clients, None, Pieces

VARIABLES owner,  \* the client whose file is stored
          store   \* the pieces stored so far, each with its sender

vars == <<owner, store>>

Init == owner = None /\ store = <<>>

Claim ==
    /\ owner = None
    /\ owner' \in Clients
    /\ UNCHANGED store

Put ==
    /\ owner # None
    /\ \E n \in Len(store) + 1 .. Pieces :
          store' = [i \in 1 .. n |-> <<owner, i>>]
    /\ UNCHANGED owner

Next == Claim \/ Put

Spec == Init /\ [][Next]_vars
=============================================================================
