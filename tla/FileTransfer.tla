--------------------------- MODULE FileTransfer ---------------------------
(***************************************************************************)
(* file_transfer/client.cpp and server.cpp.  A client announces the size   *)
(* of its file, waits for "OK", sends the file in chunks and "DONE" after  *)
(* it.  The server handles one connection at a time and appends what it    *)
(* reads to output.txt.                                                    *)
(*                                                                         *)
(* Piece 0 of a client is the size it announces, pieces 1 .. Chunks are    *)
(* its file and piece Chunks + 1 is "DONE".                                *)
(***************************************************************************)
EXTENDS Naturals, Sequences, FiniteSets

CONSTANTS Clients, None,
          Chunks,  \* bound: the chunks of a file
          Digits   \* for each client, the length of the size it announces

ASSUME TransferAssumption ==
    /\ None \notin Clients
    /\ Chunks \in Nat
    /\ Digits \in [Clients -> Nat \ {0}]

VARIABLES
    phase,    \* where each client stands
    pos,      \* the pieces each client has sent after the size
    up,       \* the pieces on their way to the server
    ok,       \* "OK" is on its way to the client
    backlog,  \* the connections the server has not accepted yet
    serving,  \* the connection the server reads from
    init,     \* the server's init: "OK" has been sent, to whomever
    fd,       \* save_file_fd
    mode,     \* output.txt: absent, or what its permissions allow
    out,      \* what output.txt holds
    granted   \* history: the client "OK" was sent to

clientVars == <<phase, pos>>
fileVars   == <<fd, mode, out>>
vars == <<clientVars, up, ok, backlog, serving, init, fileVars, granted>>

Pieces == Chunks + 1
Phases == {"start", "size", "wait", "send", "sent", "refused", "killed"}
Closed(c) == phase[c] \in {"sent", "refused", "killed"}

Init ==
    /\ phase = [c \in Clients |-> "start"]
    /\ pos = [c \in Clients |-> 0]
    /\ up = [c \in Clients |-> <<>>]
    /\ ok = [c \in Clients |-> FALSE]
    /\ backlog = <<>>
    /\ serving = None
    /\ init = FALSE
    /\ fd = "closed"
    /\ mode \in {"absent", "writable"}
    /\ out = <<>>
    /\ granted = None

-----------------------------------------------------------------------------
(* The client.                                                             *)

Move(c, from, to) == phase[c] = from /\ phase' = [phase EXCEPT ![c] = to]

Connect(c) ==
    /\ Move(c, "start", "size")
    /\ backlog' = Append(backlog, c)
    /\ UNCHANGED <<pos, up, ok, serving, init, fileVars, granted>>

SendSize(c) ==
    /\ Move(c, "size", "wait")
    /\ up' = [up EXCEPT ![c] = Append(@, 0)]
    /\ UNCHANGED <<pos, ok, backlog, serving, init, fileVars, granted>>

(* The reply is read over the size and not terminated: "OK" is recognised  *)
(* behind a size of two digits, never behind a longer one, and behind a    *)
(* single digit only if the byte after it, never written, happens to be 0. *)
Recognised(c) ==
    CASE Digits[c] = 1 -> BOOLEAN
      [] Digits[c] = 2 -> {TRUE}
      [] Digits[c] > 2 -> {FALSE}

ReadReply(c) ==
    /\ ok[c]
    /\ \E valid \in Recognised(c) :
          Move(c, "wait", IF valid THEN "send" ELSE "refused")
    /\ ok' = [ok EXCEPT ![c] = FALSE]
    /\ UNCHANGED <<pos, up, backlog, serving, init, fileVars, granted>>

(* send_file: the file is gone or cannot be opened.                        *)
NoFile(c) ==
    /\ pos[c] = 0
    /\ Move(c, "send", "refused")
    /\ UNCHANGED <<pos, up, ok, backlog, serving, init, fileVars, granted>>

(* Mutant: the end of the file is not noticed.                             *)
SendPiece_Endless(c) ==
    /\ phase[c] = "send"
    /\ pos' = [pos EXCEPT ![c] = @ + 1]
    /\ up' = [up EXCEPT ![c] = Append(@, pos[c] + 1)]
    /\ UNCHANGED <<phase, ok, backlog, serving, init, fileVars, granted>>

SendPiece(c) ==
    /\ phase[c] = "send" /\ pos[c] < Chunks
    /\ pos' = [pos EXCEPT ![c] = @ + 1]
    /\ up' = [up EXCEPT ![c] = Append(@, pos[c] + 1)]
    /\ UNCHANGED <<phase, ok, backlog, serving, init, fileVars, granted>>

(* "DONE", and the client exits with success.                              *)
SendDone(c) ==
    /\ pos[c] = Chunks
    /\ Move(c, "send", "sent")
    /\ pos' = [pos EXCEPT ![c] = Pieces]
    /\ up' = [up EXCEPT ![c] = Append(@, Pieces)]
    /\ UNCHANGED <<ok, backlog, serving, init, fileVars, granted>>

(* Somebody interrupts a client that has not finished.                     *)
Kill(c) ==
    /\ phase[c] \in {"size", "wait", "send"}
    /\ phase' = [phase EXCEPT ![c] = "killed"]
    /\ UNCHANGED <<pos, up, ok, backlog, serving, init, fileVars, granted>>

-----------------------------------------------------------------------------
(* The server.                                                             *)

(* open(O_CREAT | O_APPEND | O_WRONLY) without a mode: the file it creates  *)
(* has whatever permissions the missing argument makes, which later calls  *)
(* of open() are subject to.                                               *)
Created == IF mode = "absent" THEN {"writable", "readonly"} ELSE {mode}

(* accept() and open().                                                    *)
Accept ==
    /\ serving = None
    /\ backlog # <<>>
    /\ serving' = Head(backlog)
    /\ backlog' = Tail(backlog)
    /\ mode' \in Created
    /\ fd' = IF mode = "readonly" THEN "bad" ELSE "open"
    /\ UNCHANGED <<clientVars, up, ok, init, out, granted>>

(* accept() failed, which nobody notices: the file is opened all the same, *)
(* the read of descriptor -1 fails, and both are closed again.             *)
AcceptFails ==
    /\ serving = None
    /\ mode' \in Created
    /\ UNCHANGED <<clientVars, up, ok, backlog, serving, init, fd, out, granted>>

(* read() returns any part of what has arrived.                            *)
Received(k) ==
    /\ serving # None
    /\ k <= Len(up[serving])
    /\ up' = [up EXCEPT ![serving] = SubSeq(@, k + 1, Len(@))]
    /\ UNCHANGED <<clientVars, backlog, serving, fd, mode>>

(* The first buffer the server ever reads is answered with "OK": check_len *)
(* accepts everything, since isdigit is applied to a comparison.           *)
ReadFirst(k) ==
    /\ Received(k)
    /\ ~init
    /\ init' = TRUE
    /\ ok' = [ok EXCEPT ![serving] = TRUE]
    /\ granted' = serving
    /\ UNCHANGED out

Saved(k) == [i \in 1 .. k |-> <<serving, up[serving][i]>>]

(* Mutant: a size is answered, whoever sends it.                           *)
ReadData_Answers(k) ==
    /\ Received(k)
    /\ init
    /\ ok' = [ok EXCEPT ![serving] = up[serving][1] = 0]
    /\ out' = IF fd = "open" THEN out \o Saved(k) ELSE out
    /\ UNCHANGED <<init, granted>>

(* Every other buffer goes to the file, the sizes of later clients too.    *)
ReadData(k) ==
    /\ Received(k)
    /\ init
    /\ out' = IF fd = "open" THEN out \o Saved(k) ELSE out
    /\ UNCHANGED <<init, ok, granted>>

(* Mutant: the session ends with the connection closed by the client,      *)
(* whatever is still to be read.                                           *)
EndSession_Early ==
    /\ serving # None
    /\ Closed(serving)
    /\ serving' = None
    /\ fd' = "closed"
    /\ UNCHANGED <<clientVars, up, ok, backlog, init, mode, out, granted>>

(* Mutant: the server starts afresh for the next client.                   *)
EndSession_Resets ==
    /\ serving # None
    /\ up[serving] = <<>> /\ Closed(serving)
    /\ serving' = None
    /\ fd' = "closed"
    /\ init' = FALSE
    /\ UNCHANGED <<clientVars, up, ok, backlog, mode, out, granted>>

(* Mutant: the server leaves its loop and serves nobody any more.          *)
EndSession_Stays ==
    /\ serving # None
    /\ up[serving] = <<>> /\ Closed(serving)
    /\ fd' = "closed"
    /\ UNCHANGED <<clientVars, up, ok, backlog, serving, init, mode, out, granted>>

(* read() returned 0.  init stays as it is.                                *)
EndSession ==
    /\ serving # None
    /\ up[serving] = <<>> /\ Closed(serving)
    /\ serving' = None
    /\ fd' = "closed"
    /\ UNCHANGED <<clientVars, up, ok, backlog, init, mode, out, granted>>

-----------------------------------------------------------------------------
Client(c) ==
    SendSize(c) \/ ReadReply(c) \/ NoFile(c) \/ SendPiece(c) \/ SendDone(c)

Server ==
    \/ Accept
    \/ \E k \in 1 .. Chunks + 2 : ReadFirst(k) \/ ReadData(k)
    \/ EndSession

Next ==
    \/ Server
    \/ AcceptFails
    \/ \E c \in Clients : Connect(c) \/ Client(c) \/ Kill(c)

Spec == Init /\ [][Next]_vars

(* Both programs run whenever they can; nobody has to start a client or to *)
(* interrupt one, and accept() does not have to fail.                      *)
Fairness == WF_vars(Server) /\ \A c \in Clients : WF_vars(Client(c))

FairSpec == Spec /\ Fairness
-----------------------------------------------------------------------------
(* Properties.                                                             *)

TypeOK ==
    /\ phase \in [Clients -> Phases]
    /\ pos \in [Clients -> 0 .. Pieces]
    /\ up \in [Clients -> Seq(0 .. Pieces)]
    /\ ok \in [Clients -> BOOLEAN]
    /\ backlog \in Seq(Clients)
    /\ serving \in Clients \cup {None}
    /\ init \in BOOLEAN
    /\ fd \in {"closed", "open", "bad"}
    /\ mode \in {"absent", "writable", "readonly"}
    /\ out \in Seq(Clients \X (0 .. Pieces))
    /\ granted \in Clients \cup {None}

(* What output.txt holds up to the last piece of a file in it; sizes may   *)
(* only follow.                                                            *)
LastPiece ==
    CHOOSE n \in 0 .. Len(out) :
        /\ n > 0 => out[n][2] > 0
        /\ \A i \in n + 1 .. Len(out) : out[i][2] = 0

Stored == SubSeq(out, 1, LastPiece)

Store == INSTANCE FileStore WITH owner <- granted, store <- Stored

(* The file holds the pieces of one client, in order and none twice,       *)
(* however reads cut the stream and whoever connects later.                *)
StoresOneFile == Store!Spec

(* A client that reports success has its whole file in output.txt as soon  *)
(* as the server is done with its connection, unless output.txt was        *)
(* created without permission to write, which only the session that        *)
(* created it could still do.                                              *)
SuccessIsStored ==
    \A c \in Clients :
        /\ phase[c] = "sent" /\ serving # c
        /\ mode # "readonly"
        => Stored = [i \in 1 .. Pieces |-> <<c, i>>]

(* Only one client in the life of the server is ever answered, even if it  *)
(* then refuses, has no file to send or is interrupted: nobody else gets   *)
(* beyond waiting for "OK" but by being interrupted.                       *)
OnlyOneAnswered ==
    \A c \in Clients :
        ok[c] \/ phase[c] \in {"send", "sent", "refused"} => granted = c

(* The server waits for a client that waits for the server.                *)
Stuck ==
    /\ serving # None /\ init
    /\ phase[serving] = "wait" /\ ~ok[serving] /\ up[serving] = <<>>

(* A connection is accepted in the end, unless the one that is served and  *)
(* the server have come to wait for each other.                            *)
AcceptedOrStuck ==
    \A c \in Clients :
        (\E n \in DOMAIN backlog : backlog[n] = c) ~> serving = c \/ Stuck
=============================================================================
