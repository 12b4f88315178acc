---------------------------- MODULE ShellSession ----------------------------
(***************************************************************************)
(* shellInterpreter/server.cpp, remoteShell.cpp and ShellClient/client.cpp:*)
(* a shell server that handles one connection after the other and, in it,  *)
(* one command after the other; a command writes straight into the socket. *)
(* A client started with -f saves what it receives until the end of file;  *)
(* any other client never reads.                                           *)
(*                                                                         *)
(* The n-th command of client c, and every block it writes, is <<c, n>>.   *)
(* Commands that arrive together are one, with the number of the last.     *)
(***************************************************************************)
EXTENDS Naturals, Sequences, FiniteSets

CONSTANTS Clients, None,
          Savers,   \* the clients started with -f
          SockCap,  \* the blocks on their way that block the sender
          Outputs,  \* how many blocks commands write
          MaxCmds   \* bound: commands one client sends

ASSUME SessionAssumption ==
    /\ None \notin Clients
    /\ Savers \subseteq Clients
    /\ SockCap \in Nat \ {0} /\ Outputs \subseteq Nat /\ MaxCmds \in Nat

VARIABLES
    died,      \* what the server has ended of: "no", a failed "call" or "read"
    server,    \* where the server stands
    serving,   \* client_fd
    backlog,   \* the connections not accepted yet
    up,        \* the commands sent by each client and not read yet
    command,   \* the command the server has read
    children,  \* the commands, the reaped ones excepted
    down,      \* the blocks sent to each client and not read
    saved,     \* response.txt of each client
    phase,     \* where each client stands
    sent       \* the number of commands each client has sent

loopVars == <<died, serving, backlog, command>>
peerVars == <<down, saved, phase, sent>>
vars == <<loopVars, server, up, children, peerVars>>

Init ==
    /\ died = "no"
    /\ server = "accept" /\ serving = None /\ backlog = <<>>
    /\ up = [c \in Clients |-> <<>>]
    /\ command = <<>>
    /\ children = {}
    /\ down = [c \in Clients |-> <<>>]
    /\ saved = [c \in Clients |-> <<>>]
    /\ phase = [c \in Clients |-> "start"]
    /\ sent = [c \in Clients |-> 0]

-----------------------------------------------------------------------------
(* The server: main, interpret and handle_command.                         *)

Transition(from, to) == server = from /\ server' = to

(* The server ends, of the failure named.                                  *)
Dies(cause) ==
    /\ died' = cause
    /\ UNCHANGED <<server, serving, backlog, command, up, children, peerVars>>

Accept ==
    /\ backlog # <<>>
    /\ Transition("accept", "read")
    /\ serving' = Head(backlog) /\ backlog' = Tail(backlog)
    /\ UNCHANGED <<died, command, up, children, peerVars>>

(* accept() or fork() fails, which ends the server.                        *)
CallFails == server \in {"accept", "fork"} /\ Dies("call")

ReadCommand ==
    /\ Transition("read", "fork")
    /\ \E k \in 1 .. Len(up[serving]) :
          /\ command' = <<serving, up[serving][k]>>
          /\ up' = [up EXCEPT ![serving] = SubSeq(@, k + 1, Len(@))]
    /\ UNCHANGED <<died, serving, backlog, children, peerVars>>

(* All the client has sent has been read, and it is gone.                  *)
Drained(how) == server = "read" /\ up[serving] = <<>> /\ phase[serving] = how

(* Mutants of the end of a session: it ends the server; the server goes on *)
(* reading.                                                                *)
ReadEof_Exits == Drained("left") /\ Dies("read")
ReadEof_Stays == Drained("left") /\ UNCHANGED vars

(* read() returned 0: the connection is closed and the next one accepted.  *)
ReadEof ==
    /\ Drained("left")
    /\ server' = "accept" /\ serving' = None
    /\ UNCHANGED <<died, backlog, command, up, children, peerVars>>

(* read() returned -1.                                                     *)
ReadError == Drained("reset") /\ Dies("read")

(* A command that cannot be executed writes nothing, or what printf had    *)
(* left in the buffer of the server.                                       *)
Fork ==
    /\ Transition("fork", "wait")
    /\ \E n \in Outputs :
          children' = children \cup {[id |-> command, left |-> n, done |-> FALSE]}
    /\ UNCHANGED <<loopVars, up, peerVars>>

(* Mutant: the command is not waited for.                                  *)
Wait_Never ==
    /\ Transition("wait", "read")
    /\ UNCHANGED <<loopVars, up, children, peerVars>>

Wait ==
    /\ Transition("wait", "read")
    /\ \E k \in children : k.done /\ children' = children \ {k}
    /\ UNCHANGED <<loopVars, up, peerVars>>

-----------------------------------------------------------------------------
(* The commands.                                                           *)

Becomes(k, new) ==
    /\ children' = (children \ {k}) \cup {new}
    /\ UNCHANGED <<loopVars, server, up, saved, sent>>

Gone(c) == phase[c] \in {"left", "reset"}

(* A block is sent, as soon as there is room for it; what a client that    *)
(* has left is sent may reset the connection.                              *)
CommandWrites(k) ==
    LET c == k.id[1]
    IN  /\ k.left > 0 /\ phase[c] # "reset"
        /\ Gone(c) \/ Len(down[c]) < SockCap
        /\ down' = [down EXCEPT ![c] = Append(@, k.id)]
        /\ phase' \in IF Gone(c) THEN {phase, [phase EXCEPT ![c] = "reset"]}
                                 ELSE {phase}
        /\ Becomes(k, [k EXCEPT !.left = @ - 1])

(* The command is done, or SIGPIPE kills it.                               *)
CommandEnds(k) ==
    /\ ~k.done
    /\ k.left = 0 \/ phase[k.id[1]] = "reset"
    /\ Becomes(k, [k EXCEPT !.done = TRUE])
    /\ UNCHANGED <<down, phase>>

-----------------------------------------------------------------------------
(* The clients.                                                            *)

Connect(c) ==
    /\ phase[c] = "start"
    /\ phase' = [phase EXCEPT ![c] = "type"]
    /\ backlog' = Append(backlog, c)
    /\ UNCHANGED <<died, server, serving, command, up, children, down, saved, sent>>

Responding(c) ==
    /\ phase[c] = "type"
    /\ phase' = [phase EXCEPT ![c] = IF c \in Savers THEN "save" ELSE "type"]

Type(c) ==
    /\ Responding(c)
    /\ sent[c] < MaxCmds
    /\ sent' = [sent EXCEPT ![c] = @ + 1]
    /\ up' = [up EXCEPT ![c] = Append(@, sent[c] + 1)]
    /\ UNCHANGED <<loopVars, server, children, down, saved>>

(* An empty line: nothing is sent, and the response is waited for.         *)
TypeNothing(c) ==
    /\ Responding(c) /\ c \in Savers
    /\ UNCHANGED <<loopVars, server, up, children, down, saved, sent>>

(* read() and write() to response.txt.  The loop ends at the end of file   *)
(* only, and only the server could cause it.                               *)
Save(c) ==
    /\ phase[c] = "save" /\ down[c] # <<>>
    /\ saved' = [saved EXCEPT ![c] = @ \o down[c]]
    /\ down' = [down EXCEPT ![c] = <<>>]
    /\ UNCHANGED <<loopVars, server, up, children, sent, phase>>

(* The user interrupts the client.  If there is anything it has not read   *)
(* the connection is reset.                                                *)
Leave(c) ==
    /\ phase[c] \in {"type", "save"}
    /\ phase' = [phase EXCEPT ![c] = IF down[c] = <<>> THEN "left" ELSE "reset"]
    /\ UNCHANGED <<loopVars, server, up, children, down, saved, sent>>

-----------------------------------------------------------------------------
Server == Accept \/ ReadCommand \/ ReadEof \/ ReadError \/ Fork \/ Wait

Commands == \E k \in children : CommandWrites(k) \/ CommandEnds(k)

User(c) == Connect(c) \/ Type(c) \/ TypeNothing(c) \/ Leave(c)

Next ==
    /\ died = "no"
    /\ Server \/ CallFails \/ Commands \/ \E c \in Clients : User(c) \/ Save(c)

Spec == Init /\ [][Next]_vars

(* The server, the commands and the clients that are reading run when they *)
(* can; nobody has to type anything, and no call has to fail.              *)
Fairness ==
    /\ WF_vars(died = "no" /\ Server)
    /\ WF_vars(died = "no" /\ Commands)
    /\ \A c \in Clients : WF_vars(died = "no" /\ Save(c))

FairSpec == Spec /\ Fairness
-----------------------------------------------------------------------------
(* Properties.                                                             *)

(* A client is sent output of its own commands only, and all of one before *)
(* any of the next, although it does not wait and the commands write on    *)
(* their own.                                                              *)
Session == INSTANCE CommandSession WITH
    asked <- sent, got <- [c \in Clients |-> saved[c] \o down[c]], MaxBlocks <- 1

OwnOutput == Session!Spec

(* An error on a connection ends the server, and it takes a client that    *)
(* left output of its commands unread: leaving alone ends the session only.*)
UnreadKills ==
    died = "read" => \E c \in Clients : Gone(c) /\ down[c] # <<>>

(* The client whose connection is handled is there and keeps everybody     *)
(* else waiting: its user is thinking, or it waits for the end of file     *)
(* after its first command, or it does not read and a command is blocked   *)
(* by it.                                                                  *)
Stalled ==
    /\ serving # None /\ ~Gone(serving)
    /\ \/ server = "read" /\ up[serving] = <<>> /\ down[serving] = <<>>
       \/ server = "read" /\ up[serving] = <<>> /\ serving \notin Savers
       \/ server = "wait" /\ serving \notin Savers
            /\ Len(down[serving]) >= SockCap

(* A connection is never accepted only if the client before it stalls the  *)
(* server for ever.                                                        *)
AcceptedOrStalled ==
    \A c \in Clients :
        <>[](died = "no" /\ \E n \in DOMAIN backlog : backlog[n] = c) => <>[]Stalled
=============================================================================
