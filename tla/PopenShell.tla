----------------------------- MODULE PopenShell -----------------------------
(***************************************************************************)
(* remote_shell/server.cpp: a shell server that handles one connection     *)
(* after the other and hands each command to popen().                      *)
(*                                                                         *)
(* The n-th command of client c, and every line of its output, is <<c, n>>;*)
(* commands that arrive together are one, with the number of the last.     *)
(***************************************************************************)
EXTENDS Naturals, Sequences

CONSTANTS Clients, None,  \* None is no client
          MaxStreams,  \* the streams the process can have open
          Outputs,     \* how many lines commands write
          MaxCmds      \* bound: commands one client sends

VARIABLES
    server,   \* where the server stands: also "stopped" and "killed"
    serving,  \* client_fd
    backlog,  \* the connections not accepted yet
    up,       \* the commands sent by each client and not read yet
    command,  \* the command in buffer
    left,     \* the lines not read yet from the stream of the command
    streams,  \* the number of streams opened and never closed
    console,  \* what the server has printed
    down,     \* what has been written to the socket of each client
    open,     \* the clients that are connected
    sent      \* the number of commands each client has sent

clientVars == <<up, down, open, sent>>
vars == <<server, serving, backlog, command, left, streams, console, clientVars>>

Init ==
    /\ server = "accept" /\ serving = None /\ backlog = <<>>
    /\ up = [c \in Clients |-> <<>>]
    /\ command = <<>> /\ left = 0 /\ streams = 0 /\ console = <<>>
    /\ down = [c \in Clients |-> <<>>]
    /\ open = {} /\ sent = [c \in Clients |-> 0]

-----------------------------------------------------------------------------
(* The server: Server::start and Server::handle_shell.                     *)

Accept ==
    /\ server = "accept" /\ backlog # <<>>
    /\ serving' = Head(backlog) /\ backlog' = Tail(backlog)
    /\ server' = "read"
    /\ UNCHANGED <<command, left, streams, console, clientVars>>

(* The loop is left after one read() from -1, which fails.                 *)
AcceptFails ==
    /\ server = "accept"
    /\ server' = "stopped"
    /\ UNCHANGED <<serving, backlog, command, left, streams, console, clientVars>>

ReadCommand ==
    /\ server = "read"
    /\ \E k \in 1 .. Len(up[serving]) :
          /\ command' = <<serving, up[serving][k]>>
          /\ up' = [up EXCEPT ![serving] = SubSeq(@, k + 1, Len(@))]
    /\ server' = "popen"
    /\ UNCHANGED <<serving, backlog, left, streams, console, down, open, sent>>

(* read() returned 0 or -1.                                                *)
ReadEnd ==
    /\ server = "read"
    /\ up[serving] = <<>> /\ serving \notin open
    /\ server' = "accept" /\ serving' = None
    /\ UNCHANGED <<backlog, command, left, streams, console, clientVars>>

Popen ==
    /\ server = "popen" /\ streams < MaxStreams
    /\ streams' = streams + 1
    /\ left' \in Outputs
    /\ server' = "print"
    /\ UNCHANGED <<serving, backlog, command, console, clientVars>>

(* Mutant: a command that popen() cannot start is given up.                *)
PopenFails_GivenUp ==
    /\ server = "popen" /\ streams = MaxStreams
    /\ server' = "read"
    /\ UNCHANGED <<serving, backlog, command, left, streams, console, clientVars>>

(* popen() returns NULL, which is printed and then passed to fgets().      *)
PopenFails ==
    /\ server = "popen" /\ streams = MaxStreams
    /\ server' = "killed"
    /\ UNCHANGED <<serving, backlog, command, left, streams, console, clientVars>>

(* fgets() and printf(): a line goes to the output of the server.          *)
PrintLine ==
    /\ server = "print" /\ left > 0
    /\ left' = left - 1
    /\ console' = Append(console, command)
    /\ UNCHANGED <<server, serving, backlog, command, streams, clientVars>>

(* The end of the output.  The stream is not closed.                       *)
EndOfOutput ==
    /\ server = "print" /\ left = 0
    /\ server' = "read"
    /\ UNCHANGED <<serving, backlog, command, left, streams, console, clientVars>>

-----------------------------------------------------------------------------
(* The clients: any program that sends lines.                              *)

Connect(c) ==
    /\ c \notin open /\ sent[c] = 0
    /\ open' = open \cup {c} /\ backlog' = Append(backlog, c)
    /\ \A n \in DOMAIN backlog : backlog[n] # c
    /\ serving # c
    /\ UNCHANGED <<server, serving, command, left, streams, console, up, down, sent>>

Send(c) ==
    /\ c \in open /\ sent[c] < MaxCmds
    /\ sent' = [sent EXCEPT ![c] = @ + 1]
    /\ up' = [up EXCEPT ![c] = Append(@, sent[c] + 1)]
    /\ UNCHANGED <<server, serving, backlog, command, left, streams, console,
                   down, open>>

Leave(c) ==
    /\ c \in open /\ sent[c] > 0
    /\ open' = open \ {c}
    /\ UNCHANGED <<server, serving, backlog, command, left, streams, console,
                   up, down, sent>>

-----------------------------------------------------------------------------
Server ==
    \/ Accept \/ ReadCommand \/ ReadEnd
    \/ Popen \/ PopenFails \/ PrintLine \/ EndOfOutput

Next == Server \/ AcceptFails \/ \E c \in Clients : Connect(c) \/ Send(c) \/ Leave(c)

Spec == Init /\ [][Next]_vars

(* The server runs when it can; accept() need not fail, and nobody has to  *)
(* send anything or to leave.                                              *)
FairSpec == Spec /\ WF_vars(Server)
-----------------------------------------------------------------------------
(* Properties.                                                             *)

(* rules.txt asks for a command's output to be redirected into the socket: *)
(* once the server turns to the next command, every line the last one      *)
(* wrote has been written to the client that sent it.                      *)
OutputRedirected ==
    server = "read" =>
        \A i \in DOMAIN console :
            \E j \in DOMAIN down[console[i][1]] : down[console[i][1]][j] = console[i]

(* The server waits for a client that is connected and sends nothing.      *)
Silent == server = "read" /\ up[serving] = <<>> /\ serving \in open

(* Streams are used up over all sessions and come back with none: from     *)
(* then on the next command of any client kills the server, unless it is   *)
(* kept for ever by another client that is silent, or accepts no more.     *)
LeakKills ==
    \A c \in Clients :
        <>(streams = MaxStreams /\ up[c] # <<>>) =>
            <>(server \in {"killed", "stopped"}) \/ <>[](Silent /\ serving # c)
=============================================================================
