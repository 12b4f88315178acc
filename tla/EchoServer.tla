----------------------------- MODULE EchoServer -----------------------------
(***************************************************************************)
(* server.c and client.c: a server that prints what its clients send, one  *)
(* connection after the other, and a client that sends one message.        *)
(*                                                                         *)
(* A message is a sequence of the parts "exit" and "text" that TCP may     *)
(* deliver apart.                                                          *)
(***************************************************************************)
EXTENDS Naturals, Sequences

CONSTANTS Clients, None,  \* None is the descriptor -1
          Backlog,   \* the connections the kernel queues, by the 5 of listen
          Messages   \* what users type; <<>> if they end the input instead

ASSUME EchoAssumption ==
    /\ None \notin Clients /\ Backlog \in Nat \ {0}
    /\ Messages \subseteq Seq({"exit", "text"})

VARIABLES
    at,       \* the call the server is in: "accept" or "read"
    fd,       \* client_sock_fd
    queue,    \* the connections not accepted yet
    phase,    \* where each client stands
    wrote,    \* what each client has written
    unread,   \* the part of it that the server has not read
    printed   \* each part the server printed: whose, what, its place in the buffer

serverVars == <<at, fd, printed>>
vars == <<serverVars, queue, phase, wrote, unread>>

Init ==
    /\ at = "accept" /\ fd = None /\ queue = <<>> /\ printed = <<>>
    /\ phase = [c \in Clients |-> "start"]
    /\ wrote = [c \in Clients |-> <<>>]
    /\ unread = [c \in Clients |-> <<>>]

-----------------------------------------------------------------------------
(* The server: main.                                                       *)

Accept ==
    /\ at = "accept" /\ queue # <<>>
    /\ at' = "read" /\ fd' = Head(queue) /\ queue' = Tail(queue)
    /\ UNCHANGED <<printed, phase, wrote, unread>>

(* A failure, of the first accept() or a later one, is printed, and the    *)
(* server goes on to read from -1, which fails for ever.                   *)
AcceptFails ==
    /\ at = "accept"
    /\ at' = "read" /\ fd' = None
    /\ UNCHANGED <<printed, queue, phase, wrote, unread>>

(* Mutant: "exit" is looked for at the beginning only.                     *)
IsExit_Prefix(chunk) == chunk[1] = "exit"

IsExit(chunk) == chunk = <<"exit">>

(* read() returns any part of what has arrived.  After "exit" the          *)
(* connection is closed, whatever may follow on it.                        *)
ReadMessage ==
    /\ at = "read" /\ fd # None
    /\ \E k \in 1 .. Len(unread[fd]) :
          LET chunk == SubSeq(unread[fd], 1, k)
              rest  == SubSeq(unread[fd], k + 1, Len(unread[fd]))
          IN  /\ printed' = printed \o [i \in 1 .. k |-> <<fd, chunk[i], i>>]
              /\ at' = IF IsExit(chunk) THEN "accept" ELSE "read"
              /\ unread' = [unread EXCEPT ![fd] = IF IsExit(chunk) THEN <<>> ELSE rest]
    /\ UNCHANGED <<fd, queue, phase, wrote>>

(* All that arrived has been read, and the peer is gone.                   *)
Drained(how) == at = "read" /\ fd # None /\ unread[fd] = <<>> /\ phase[fd] = how

(* Mutant: only "exit" ends a connection.                                  *)
ReadEof_Stays == Drained("closed") /\ UNCHANGED vars

(* read() returned 0: the next connection is accepted.                     *)
ReadEof ==
    /\ Drained("closed")
    /\ at' = "accept"
    /\ UNCHANGED <<fd, printed, queue, phase, wrote, unread>>

(* read() returned -1 on a broken connection, which it does once.          *)
ReadError ==
    /\ Drained("reset")
    /\ phase' = [phase EXCEPT ![fd] = "closed"]
    /\ UNCHANGED <<serverVars, queue, wrote, unread>>

-----------------------------------------------------------------------------
(* The clients: main of client.c.                                          *)

Transition(c, from, to) == phase[c] = from /\ phase' = [phase EXCEPT ![c] = to]

Connect(c) ==
    /\ Transition(c, "start", "type")
    /\ Len(queue) < Backlog
    /\ queue' = Append(queue, c)
    /\ UNCHANGED <<serverVars, wrote, unread>>

(* The queue stays full until connect() gives up.                          *)
ConnectFails(c) ==
    /\ Transition(c, "start", "failed")
    /\ Len(queue) >= Backlog
    /\ UNCHANGED <<serverVars, queue, wrote, unread>>

Write(c) ==
    /\ Transition(c, "type", "close")
    /\ \E m \in Messages :
          /\ wrote' = [wrote EXCEPT ![c] = m]
          /\ unread' = [unread EXCEPT ![c] = m]
    /\ UNCHANGED <<serverVars, queue>>

Close(c) == Transition(c, "close", "closed") /\ UNCHANGED <<serverVars, queue, wrote, unread>>

(* The user interrupts the client, or the connection breaks.               *)
Leave(c) ==
    /\ \E how \in {"closed", "reset"} : Transition(c, "type", how)
    /\ UNCHANGED <<serverVars, queue, wrote, unread>>

-----------------------------------------------------------------------------
Server == Accept \/ ReadMessage \/ ReadEof \/ ReadError

Client(c) == Connect(c) \/ ConnectFails(c) \/ Write(c) \/ Close(c) \/ Leave(c)

Next == Server \/ AcceptFails \/ \E c \in Clients : Client(c)

Spec == Init /\ [][Next]_vars

(* Server and clients run when they can; no user has to start a client or  *)
(* to type, and no call has to fail.                                       *)
FairSpec == Spec /\ WF_vars(Server) /\ \A c \in Clients : WF_vars(Close(c))
-----------------------------------------------------------------------------
(* Properties.                                                             *)

(* What has been printed of c's message stands together, behind the first  *)
(* b parts of the output, and is the first n parts of the message.         *)
Shows(c, b, n) ==
    /\ b + n <= Len(printed) /\ n <= Len(wrote[c])
    /\ \A i \in DOMAIN printed : printed[i][1] = c <=> i \in b + 1 .. b + n
    /\ \A i \in 1 .. n : printed[b + i][2] = wrote[c][i]

(* A read returned "exit" and nothing else, and this is where it ended.    *)
ExitAlone(i) == printed[i][2] = "exit" /\ printed[i][3] = 1

(* The server is done with the connection of c.                            *)
Over(c) ==
    /\ phase[c] = "closed" /\ \A i \in DOMAIN queue : queue[i] # c
    /\ fd # c \/ at = "accept"

(* When the server turns to the next connection it has printed all that    *)
(* was sent on the last one, in order and apart from everything else,      *)
(* however it was divided into reads; only if a read returned "exit" and   *)
(* nothing with it is the rest of that message lost.                       *)
MessagePrinted ==
    \A c \in Clients : \E b, n \in 0 .. Len(printed) :
        /\ Shows(c, b, n)
        /\ Over(c) => n = Len(wrote[c]) \/ (n > 0 /\ ExitAlone(b + n))

(* A connection is never accepted only if accept() has failed once, after  *)
(* which the server spins on read(), or if the client before it never      *)
(* types anything.                                                         *)
AcceptedOrHeldUp ==
    \A c \in Clients :
        <>[](\E i \in DOMAIN queue : queue[i] = c) =>
            <>[](at = "read" /\ (fd = None \/ phase[fd] = "type"))
=============================================================================
