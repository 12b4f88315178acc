-------------------------- MODULE MCFileTransfer --------------------------
(* Instances of FileTransfer for TLC.                                      *)
EXTENDS FileTransfer, TLC

CONSTANTS c1, c2, c3

TwoClients   == {c1, c2}
ThreeClients == {c1, c2, c3}

(* Sizes of one, two and three digits: each makes the client read its      *)
(* answer differently.                                                     *)
AllLengths == c1 :> 1 @@ c2 :> 2 @@ c3 :> 3
TwoLengths == c1 :> 1 @@ c2 :> 2
=============================================================================
