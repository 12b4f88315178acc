---------------------------- MODULE RemoteShell ----------------------------
(***************************************************************************)
(* remoteShell/: a shell server with one thread per client, and its        *)
(* client.  A thread makes one pipe for the whole session, forks a child   *)
(* for each command with the pipe as its standard output, closes its own   *)
(* write end after every fork, reads once from the pipe, sends what it     *)
(* read to the client and waits for a child, any child.                    *)
(*                                                                         *)
(* All threads share the descriptor table.  It is modelled entry by entry, *)
(* with the rule that the lowest free descriptor is handed out, because    *)
(* the second command of a session closes a descriptor that may belong to  *)
(* somebody else by then.                                                  *)
(*                                                                         *)
(* The n-th command of client c is <<c, n>>, and so is every chunk of its  *)
(* output; <<c, 0>> is the command "exit".                                 *)
(***************************************************************************)
EXTENDS Naturals, Sequences, FiniteSets

CONSTANTS Clients,
          MaxClients,  \* MAX_CLIENTS
          MaxFd,       \* the descriptors of the process beyond the first few
          PipeCap,     \* the chunks a pipe holds
          Outputs,     \* how many chunks commands write
          MaxCmds,     \* bound: after how many commands a user stops typing
          Leavers,     \* the clients that may be interrupted
          Unlucky      \* the clients for whom pthread_create and fork may fail

ASSUME ShellAssumption ==
    /\ IsFiniteSet(Clients)
    /\ MaxClients \in Nat /\ MaxFd \in Nat /\ PipeCap \in Nat \ {0}
    /\ Outputs \subseteq Nat /\ MaxCmds \in [Clients -> Nat]
    /\ Leavers \subseteq Clients /\ Unlucky \subseteq Clients

VARIABLES
    alive,       \* the server process has not died
    no_clients,  \* current_no_clients
    table,       \* the server's descriptor table
    stream,      \* what is to be read from each socket and each pipe
    children,    \* the child processes, the reaped ones excepted
    th,          \* each thread: where it stands, Client::sock_fd (sock),
                 \* c_to_p_pipe (r and w), the command it has read, how often
                 \* it has forked, the output it has read (buffer)
    client,      \* each client: where it stands, how many commands it has
                 \* sent (asked), how much of got it has read (seen)
    got          \* what has been written to each client

mainVars   == <<alive, no_clients>>
kernelVars == <<table, stream, children>>
vars == <<mainVars, kernelVars, th, client, got>>

Fds     == 1 .. MaxFd
Free    == <<"free">>
Console == <<"console">>
Sock(c) == <<"sock", c>>
Rd(c)   == <<"r", c>>
Wr(c)   == <<"w", c>>
Streams == {Sock(c) : c \in Clients} \cup {Rd(c) : c \in Clients}
Command == Clients \X Nat
Eof     == <<>>

NewThread ==
    [at |-> "idle", sock |-> 0, r |-> 0, w |-> 0, cmd |-> Eof, forked |-> 0, buffer |-> <<>>]

Init ==
    /\ alive = TRUE /\ no_clients = 0
    /\ table = [f \in Fds |-> Free]
    /\ stream = [s \in Streams |-> <<>>]
    /\ children = {}
    /\ th = [c \in Clients |-> NewThread]
    /\ client = [c \in Clients |-> [at |-> "away", asked |-> 0, seen |-> 0]]
    /\ got = [c \in Clients |-> <<>>]

-----------------------------------------------------------------------------
(* The kernel.                                                             *)

FreeFds == {f \in Fds : table[f] = Free}
Lowest(S) == CHOOSE f \in S : \A g \in S : f <= g
Object(f) == IF f \in Fds THEN table[f] ELSE Free

(* Nobody can write to the stream any more.                                *)
Ended(s) ==
    IF s[1] = "sock"
    THEN client[s[2]].at = "left"
    ELSE /\ \A f \in Fds : table[f] # Wr(s[2])
         /\ \A k \in children : k.state = "running" => s[2] \notin k.holds

(* The server still holds the read end of the pipe of c.                   *)
HasReader(c) == \E f \in Fds : table[f] = Rd(c)

(* What is written to a client arrives as long as the client is there.     *)
ToClient(d, data) ==
    got' = IF client[d].at = "left" THEN got ELSE [got EXCEPT ![d] = @ \o data]

-----------------------------------------------------------------------------
(* The main thread: RemoteShellServer::run.                                *)

(* Mutant: one more thread identifier stored beyond th_ids does no harm.   *)
HasPlace_OffByOne == no_clients <= MaxClients + 1

(* The identifier of thread MAX_CLIENTS lies on current_no_clients; the    *)
(* next one is stored far outside the object.                              *)
HasPlace == no_clients <= MaxClients

(* A connection that the main thread can accept.                           *)
Waiting(c) == client[c].at # "away" /\ th[c].at = "idle" /\ FreeFds # {}

(* accept() takes the lowest descriptor.  If the thread cannot be created  *)
(* the connection is closed again, but the client stays counted.           *)
Accept(c) ==
    /\ Waiting(c) /\ HasPlace
    /\ no_clients' = no_clients + 1
    /\ \/ /\ th' = [th EXCEPT ![c].at = "first", ![c].sock = Lowest(FreeFds)]
          /\ table' = [table EXCEPT ![Lowest(FreeFds)] = Sock(c)]
       \/ /\ c \in Unlucky
          /\ th' = [th EXCEPT ![c].at = "gone"]
          /\ UNCHANGED table
    /\ UNCHANGED <<alive, stream, children, client, got>>

WildStore ==
    /\ ~HasPlace /\ \E c \in Clients : Waiting(c)
    /\ alive' = FALSE
    /\ UNCHANGED <<no_clients, kernelVars, th, client, got>>

-----------------------------------------------------------------------------
(* The session threads: handle_shell_client.                               *)

Transition(c, from, to) == th[c].at = from /\ th' = [th EXCEPT ![c].at = to]

(* The loop ends at end of file, on an error and on "exit"; the socket is  *)
(* never closed.                                                           *)
After(t) == IF t = Eof \/ t[2] = 0 THEN "gone" ELSE "fork"

(* The thread has read t from its client.                                  *)
HasRead(c, t) ==
    th' = [th EXCEPT ![c].cmd = t, ![c].at = IF @ = "first" THEN "pipe" ELSE After(t)]

(* read() from what the thread takes for its client's socket.  Commands    *)
(* that arrive together are taken for one.                                 *)
ReadCommand(c) ==
    LET s == Object(th[c].sock)
    IN  /\ th[c].at \in {"first", "read"}
        /\ \/ /\ s \in Streams
              /\ \E n \in 1 .. Len(stream[s]) :
                    stream' = [stream EXCEPT ![s] = SubSeq(@, n + 1, Len(@))]
              /\ HasRead(c, Head(stream[s]))
           \/ /\ s \in Streams => stream[s] = <<>> /\ Ended(s)
              /\ HasRead(c, Eof)
              /\ UNCHANGED stream
        /\ UNCHANGED <<mainVars, table, children, client, got>>

(* Mutant: c_to_p_pipe is shared by all threads.                           *)
SetPipe_Global(c, r, w) ==
    th' = [d \in Clients |->
             [th[d] EXCEPT !.r = r, !.w = w, !.at = IF d = c THEN After(th[c].cmd) ELSE @]]

SetPipe(c, r, w) ==
    th' = [th EXCEPT ![c].r = r, ![c].w = w, ![c].at = After(th[c].cmd)]

(* pipe(), after the first read, whatever that returned.                   *)
MakePipe(c) ==
    /\ th[c].at = "pipe"
    /\ Cardinality(FreeFds) >= 2
    /\ LET r == Lowest(FreeFds)
           w == Lowest(FreeFds \ {r})
       IN  SetPipe(c, r, w) /\ table' = [table EXCEPT ![r] = Rd(c), ![w] = Wr(c)]
    /\ UNCHANGED <<mainVars, stream, children, client, got>>

(* No descriptors left: the client is deleted and its socket closed.       *)
PipeFails(c) ==
    /\ Transition(c, "pipe", "gone")
    /\ Cardinality(FreeFds) < 2
    /\ table' = [table EXCEPT ![th[c].sock] = Free]
    /\ UNCHANGED <<mainVars, stream, children, client, got>>

(* The child inherits every descriptor; its output goes where w points     *)
(* now, or to the server's own output if that is closed.                   *)
Child(c, output) ==
    [id    |-> <<c, th[c].forked + 1>>,
     prog  |-> th[c].cmd,
     left  |-> output,
     out   |-> LET o == Object(th[c].w) IN IF o[1] \in {"w", "sock"} THEN o ELSE Console,
     holds |-> {d \in Clients : \E f \in Fds : table[f] = Wr(d)},
     state |-> "running"]

Fork(c) ==
    /\ th[c].at = "fork"
    /\ \E output \in Outputs : children' = children \cup {Child(c, output)}
    /\ th' = [th EXCEPT ![c].at = "close", ![c].forked = @ + 1]
    /\ UNCHANGED <<mainVars, table, stream, client, got>>

(* fork() fails: exit() ends the server.                                   *)
ForkFails(c) ==
    /\ c \in Unlucky /\ th[c].at = "fork"
    /\ alive' = FALSE
    /\ UNCHANGED <<no_clients, kernelVars, th, client, got>>

(* Mutant: the other end of the pipe.                                      *)
ParentCloses_Reader(c) == th[c].r

ParentCloses(c) == th[c].w

(* close(c_to_p_pipe[1]), by number, after every fork.                     *)
CloseWrite(c) ==
    /\ Transition(c, "close", "output")
    /\ table' = [table EXCEPT ![ParentCloses(c)] = Free]
    /\ UNCHANGED <<mainVars, stream, children, client, got>>

(* One read() from the pipe, which returns any part of what is in it.  On  *)
(* an error the thread ends and leaves its child unreaped.                 *)
ReadOutput(c) ==
    LET s == Object(th[c].r)
    IN  /\ th[c].at = "output"
        /\ IF s \in Streams
             THEN /\ stream[s] = <<>> => Ended(s)
                  /\ \E n \in IF stream[s] = <<>> THEN {0} ELSE 1 .. Len(stream[s]) :
                        /\ th' = [th EXCEPT ![c].at = "reply",
                                            ![c].buffer = SubSeq(stream[s], 1, n)]
                        /\ stream' = [stream EXCEPT ![s] = SubSeq(@, n + 1, Len(@))]
             ELSE th' = [th EXCEPT ![c].at = "gone"] /\ UNCHANGED stream
        /\ UNCHANGED <<mainVars, table, children, client, got>>

(* write() to what the thread takes for its client's socket.  If the       *)
(* client has left, or nobody reads from the pipe that is there now,       *)
(* SIGPIPE may kill the server.                                            *)
Reply(c) ==
    LET o == Object(th[c].sock)
        output == th[c].buffer
    IN  /\ th[c].at = "reply"
        /\ \/ /\ o[1] = "sock" /\ output # <<>>
              /\ ToClient(o[2], output)
              /\ alive' \in BOOLEAN /\ (client[o[2]].at # "left" => alive')
              /\ UNCHANGED stream
           \/ /\ o[1] = "w"
              /\ stream' = [stream EXCEPT ![Rd(o[2])] = @ \o output]
              /\ alive' \in BOOLEAN /\ (HasReader(o[2]) => alive')
              /\ UNCHANGED got
           \/ /\ o[1] \in {"r", "free"} \/ output = <<>>
              /\ UNCHANGED <<alive, stream, got>>
        /\ th' = [th EXCEPT ![c].at = "wait", ![c].buffer = <<>>]
        /\ UNCHANGED <<no_clients, table, children, client>>

Zombies == {k \in children : k.state = "zombie"}

(* Mutant: whoever waits reaps every child that has ended.                 *)
Reaped_All == Zombies # {} /\ children' = children \ Zombies

(* wait() reaps any child of the process, or fails when there is none.     *)
Reaped ==
    \/ \E k \in Zombies : children' = children \ {k}
    \/ children = {} /\ UNCHANGED children

Wait(c) ==
    /\ Transition(c, "wait", "read")
    /\ Reaped
    /\ UNCHANGED <<mainVars, table, stream, client, got>>

-----------------------------------------------------------------------------
(* The children.                                                           *)

Becomes(k, new) ==
    /\ children' = (children \ {k}) \cup {new}
    /\ UNCHANGED <<mainVars, table, th, client>>

(* A chunk of output; a full pipe blocks the child.                        *)
ChildWrite(k) ==
    /\ k.state = "running" /\ k.left > 0
    /\ \/ /\ k.out[1] = "w"
          /\ Len(stream[Rd(k.out[2])]) < PipeCap
          /\ stream' = [stream EXCEPT ![Rd(k.out[2])] = Append(@, k.prog)]
          /\ UNCHANGED got
       \/ k.out[1] = "sock" /\ ToClient(k.out[2], <<k.prog>>) /\ UNCHANGED stream
       \/ k.out = Console /\ UNCHANGED <<stream, got>>
    /\ Becomes(k, [k EXCEPT !.left = @ - 1])

(* The command is done, or SIGPIPE kills it: the read end of its pipe is   *)
(* closed, unless some other command has inherited it.                     *)
ChildExit(k) ==
    /\ k.state = "running"
    /\ k.left = 0 \/ (k.out[1] = "w" /\ ~HasReader(k.out[2]))
    /\ Becomes(k, [k EXCEPT !.state = "zombie"])
    /\ UNCHANGED <<stream, got>>

-----------------------------------------------------------------------------
(* The clients: start_run.                                                 *)

Moves(c, from, to) == client[c].at = from /\ client' = [client EXCEPT ![c].at = to]

Connect(c) == Moves(c, "away", "think") /\ UNCHANGED <<mainVars, kernelVars, th, got>>

(* A line typed by the user; "exit" goes to the server like any other      *)
(* because the test sees the newline.                                      *)
Type(c) ==
    /\ client[c].at = "think" /\ client[c].asked < MaxCmds[c]
    /\ client' = [client EXCEPT ![c].at = "blocked", ![c].asked = @ + 1]
    /\ \E n \in {client[c].asked + 1, 0} :
          stream' = [stream EXCEPT ![Sock(c)] = Append(@, <<c, n>>)]
    /\ UNCHANGED <<mainVars, table, children, th, got>>

(* An empty line: nothing is sent, and the client waits for the answer.    *)
TypeNothing(c) ==
    /\ client[c].asked < MaxCmds[c]
    /\ Moves(c, "think", "blocked")
    /\ UNCHANGED <<mainVars, kernelVars, th, got>>

Receive(c) ==
    /\ client[c].at = "blocked" /\ client[c].seen < Len(got[c])
    /\ client' = [client EXCEPT ![c].at = "think", ![c].seen = Len(got[c])]
    /\ UNCHANGED <<mainVars, kernelVars, th, got>>

(* The user interrupts the client, or the client finds the connection      *)
(* closed by the server.                                                   *)
Leave(c) ==
    /\ Moves(c, client[c].at, "left")
    /\ client[c].at \in {"think", "blocked"}
    /\ c \in Leavers \/ (th[c].at # "idle" /\ \A f \in Fds : table[f] # Sock(c))
    /\ UNCHANGED <<mainVars, kernelVars, th, got>>

-----------------------------------------------------------------------------
Thread(c) ==
    \/ ReadCommand(c) \/ MakePipe(c) \/ PipeFails(c) \/ Fork(c) \/ ForkFails(c)
    \/ CloseWrite(c) \/ ReadOutput(c) \/ Reply(c) \/ Wait(c)

Children == \E k \in children : ChildWrite(k) \/ ChildExit(k)

User(c) == Connect(c) \/ Type(c) \/ TypeNothing(c) \/ Receive(c) \/ Leave(c)

Next ==
    /\ alive
    /\ \/ WildStore
       \/ Children
       \/ \E c \in Clients : Accept(c) \/ Thread(c) \/ User(c)

Spec == Init /\ [][Next]_vars

(* The kernel runs every thread and every child that can run.  No user has *)
(* to type anything, and accept() is not needed.                           *)
Fairness ==
    /\ \A c \in Clients : WF_vars(alive /\ Thread(c))
    /\ WF_vars(alive /\ Children)

FairSpec == Spec /\ Fairness
-----------------------------------------------------------------------------
(* Properties.                                                             *)

Writable == {Wr(c) : c \in Clients} \cup {Sock(c) : c \in Clients}

ThreadState ==
    [at : {"idle", "first", "pipe", "fork", "close", "output", "reply", "wait",
           "read", "gone"},
     sock : 0 .. MaxFd, r : 0 .. MaxFd, w : 0 .. MaxFd, cmd : Command \cup {Eof},
     forked : Nat, buffer : Seq(Command)]

ChildProcess ==
    [id : Command, prog : Command, left : Nat, out : {Console} \cup Writable,
     holds : SUBSET Clients, state : {"running", "zombie"}]

TypeOK ==
    /\ alive \in BOOLEAN /\ no_clients \in 0 .. MaxClients + 1
    /\ table \in [Fds -> {Free} \cup Streams \cup Writable]
    /\ stream \in [Streams -> Seq(Command)]
    /\ children \subseteq ChildProcess
    /\ th \in [Clients -> ThreadState]
    /\ client \in [Clients -> [at : {"away", "think", "blocked", "left"},
                               asked : Nat, seen : Nat]]
    /\ got \in [Clients -> Seq(Command)]

(* No session has come to its second command.                              *)
Fresh == \A c \in Clients : th[c].forked <= 1

(* Until then every session owns the descriptors it uses, whatever was     *)
(* closed and handed out again by the other sessions: nobody else's number *)
(* is its own, and each still stands for what the session opened.          *)
DescriptorsOwned ==
    Fresh => \A c \in Clients :
        /\ th[c].at \notin {"idle", "gone"} => Object(th[c].sock) = Sock(c)
        /\ th[c].at \in {"fork", "close", "output", "reply", "wait", "read"}
              => Object(th[c].r) = Rd(c)
        /\ th[c].at = "close" \/ (th[c].at = "fork" /\ th[c].forked = 0)
              => Object(th[c].w) = Wr(c)

(* Until then, and in a session alone with the server for good, a client   *)
(* receives only output of its own first command: not that of another      *)
(* session, and none of its second command, for the pipe is closed after   *)
(* the first.                                                              *)
OwnFirstOutput ==
    Fresh \/ no_clients <= 1 =>
        \A c \in Clients : \A m \in DOMAIN got[c] : got[c][m] = <<c, 1>>

(* wait() is called by threads that forked, so it never fails for want of  *)
(* a child: although each thread may reap another one's child, there are   *)
(* always as many as there are threads still to wait.                      *)
EnoughChildren ==
    Cardinality({c \in Clients : th[c].at \in {"close", "output", "reply", "wait"}})
        <= Cardinality(children)

(* The child has more to write than its pipe takes.                        *)
Blocked(k) ==
    /\ k.state = "running" /\ k.left > 0 /\ k.out[1] = "w"
    /\ Len(stream[Rd(k.out[2])]) >= PipeCap

(* A thread waits for ever in wait() only if some child is blocked by a    *)
(* full pipe for ever, whoever reaps whose child.                          *)
WaitEnds ==
    \A c \in Clients :
        <>[](alive /\ th[c].at = "wait") => <>[](\E k \in children : Blocked(k))

(* As long as no session comes to its second command, output of the first  *)
(* one reaches the client.                                                 *)
FirstOutputArrives ==
    \A c \in Clients :
        (\E k \in children : k.id = <<c, 1>> /\ k.state = "running" /\ k.left > 0)
            ~> got[c] # <<>> \/ ~Fresh \/ ~alive \/ client[c].at = "left"
=============================================================================
