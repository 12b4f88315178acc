----------------------------- MODULE WebServer -----------------------------
(***************************************************************************)
(* webServer.cpp: one thread per client.  For every request a thread makes *)
(* a pipe, forks a command that writes into it, closes its own write end,  *)
(* reads once, answers, waits for a child of the process, any child, and   *)
(* closes the read end.                                                    *)
(*                                                                         *)
(* The threads share the descriptor table, and fork() copies all of it: a  *)
(* command holds, until it ends, the ends of every pipe that was open in   *)
(* any thread when it was forked.                                          *)
(*                                                                         *)
(* The n-th request of client c, its pipe, its command, the header of its  *)
(* response and each block of text it causes are all named <<c, n>>.  A    *)
(* block is what the C library writes at a time, which is longer than a    *)
(* header if it is full.                                                   *)
(*                                                                         *)
(* A response is printed into the buffer it is made from.  The header      *)
(* overwrites what is read there, and what is printed behind it is that    *)
(* header and what then stands behind it: the rest of the output if that   *)
(* was longer, and otherwise what the response before has left there.      *)
(***************************************************************************)
EXTENDS Naturals, Sequences, FiniteSets

CONSTANTS Clients,
          MaxCons,   \* MAX_CONS
          PipeCap,   \* the blocks a pipe holds
          RespCap,   \* the blocks and headers that fit behind a header
          Outputs,   \* how many blocks commands write
          MaxReqs,   \* bound: requests each client sends
          Leavers    \* the clients that may leave

ASSUME WebAssumption ==
    /\ IsFiniteSet(Clients)
    /\ MaxCons \in Nat /\ PipeCap \in Nat \ {0} /\ RespCap \in Nat
    /\ Outputs \subseteq Nat /\ MaxReqs \in [Clients -> Nat] /\ Leavers \subseteq Clients

VARIABLES
    alive,       \* the server process has not ended
    no_clients,  \* Server::no_clients
    terminal,    \* whether standard output is a terminal
    log,         \* the requests stdio's buffer may hold the first lines of
    th,          \* each thread: where it stands, its request, c_to_p_pipe
                 \* (channel), the output it has read, and what its buffer
                 \* holds behind the header of its last response (rest)
    writeEnds,   \* the pipes whose write end the server holds
    readEnds,    \* the pipes whose read end the server holds
    data,        \* what is in each pipe
    children,    \* the commands, the reaped ones excepted
    pending,     \* the requests sent to each thread and not read yet
    conn,        \* the peer's half of each connection
    sent,        \* the number of requests each client has sent
    got          \* the responses written to each client

stdioVars  == <<terminal, log>>
mainVars   == <<alive, no_clients, stdioVars>>
pipeVars   == <<writeEnds, readEnds>>
kernelVars == <<pipeVars, data, children>>
clientVars == <<conn, sent, got>>
vars == <<mainVars, th, kernelVars, pending, clientVars>>

Request == UNION {{c} \X (1 .. MaxReqs[c]) : c \in Clients}
None    == <<>>

Init ==
    /\ alive = TRUE /\ no_clients = 0
    /\ terminal \in BOOLEAN /\ log = {}
    /\ th = [c \in Clients |->
               [at |-> "idle", request |-> None, channel |-> None,
                output |-> <<>>, rest |-> <<>>]]
    /\ writeEnds = {} /\ readEnds = {}
    /\ data = [p \in Request |-> <<>>]
    /\ children = {}
    /\ pending = [c \in Clients |-> <<>>]
    /\ conn = [c \in Clients |-> "open"]
    /\ sent = [c \in Clients |-> 0]
    /\ got = [c \in Clients |-> <<>>]

-----------------------------------------------------------------------------
(* The kernel's view of a pipe: who can still write into it and read from  *)
(* it, the server's own ends and those the running commands hold.          *)

Running == {k \in children : k.state = "running"}
HasWriter(p) == p \in writeEnds \/ \E k \in Running : p \in k.writes
HasReader(p) == p \in readEnds \/ \E k \in Running : p \in k.reads

(* The process ends with all its threads.                                  *)
Dies ==
    /\ alive' = FALSE
    /\ UNCHANGED <<no_clients, stdioVars, th, kernelVars, pending, clientVars>>

Transition(c, from, to) == th[c].at = from /\ th' = [th EXCEPT ![c].at = to]

-----------------------------------------------------------------------------
(* The main thread: start_server.                                          *)

(* Mutant: the limit is tested yet another client later.                   *)
HasPlace_OffByOne == no_clients <= MaxCons + 1

HasPlace == no_clients <= MaxCons

Accept(c) ==
    /\ HasPlace
    /\ Transition(c, "idle", "request")
    /\ no_clients' = no_clients + 1
    /\ UNCHANGED <<alive, stdioVars, kernelVars, pending, clientVars>>

(* accept() or pthread_create() fails.                                     *)
AcceptFails == HasPlace /\ Dies

(* The test comes one client late, after its thread was created behind the *)
(* end of ids, and does not refuse that client but ends the server.        *)
TooMany == ~HasPlace /\ Dies

-----------------------------------------------------------------------------
(* The client threads: handle_client and handle_request.                   *)

(* Whatever has arrived is taken for one request: only the first line of   *)
(* it is looked at.                                                        *)
ReadRequest(c) ==
    /\ th[c].at = "request"
    /\ \E k \in 1 .. Len(pending[c]) :
          pending' = [pending EXCEPT ![c] = SubSeq(@, k + 1, Len(@))]
    /\ th' = [th EXCEPT ![c].at = "pipe", ![c].request = <<c, Head(pending[c])>>]
    /\ UNCHANGED <<mainVars, kernelVars, clientVars>>

(* read() returned 0.  The socket is not closed.                           *)
ReadEof(c) ==
    /\ pending[c] = <<>> /\ conn[c] = "closed"
    /\ Transition(c, "request", "gone")
    /\ UNCHANGED <<mainVars, kernelVars, pending, clientVars>>

(* read() returned -1.                                                     *)
ReadError(c) ==
    /\ th[c].at = "request"
    /\ pending[c] = <<>> /\ conn[c] = "reset"
    /\ Dies

(* Mutant: c_to_p_pipe is shared by the threads.                           *)
SetChannel_Global(c, p) ==
    th' = [d \in Clients |->
             [th[d] EXCEPT !.channel = p, !.at = IF d = c THEN "fork" ELSE @]]

SetChannel(c, p) == th' = [th EXCEPT ![c].channel = p, ![c].at = "fork"]

MakePipe(c) ==
    /\ th[c].at = "pipe"
    /\ SetChannel(c, th[c].request)
    /\ writeEnds' = writeEnds \cup {th[c].request}
    /\ readEnds' = readEnds \cup {th[c].request}
    /\ UNCHANGED <<mainVars, data, children, pending, clientVars>>

(* pipe() or fork() fails, which ends the server, or the request has no    *)
(* line and strdup(NULL) does.                                             *)
RequestFails(c) == th[c].at \in {"pipe", "fork"} /\ Dies

(* The request is printed, a line that is flushed at once at a terminal.   *)
(* Otherwise it stays in the buffer until that is full, which is not       *)
(* modelled: it could only take texts away.                                *)
Printed(p) == IF terminal THEN log ELSE log \cup {p}

(* The command inherits every end of every pipe and closes the read end of *)
(* its own.                                                                *)
Child(c, text, n) ==
    [id |-> th[c].request, out |-> th[c].channel, text |-> text, left |-> n,
     writes |-> writeEnds, reads |-> readEnds \ {th[c].channel}, state |-> "running"]

(* A command that cannot be executed writes as well, for exit() flushes    *)
(* into the pipe what printf had left in the buffer: its name, which is    *)
(* text of its own, and the server's copy with lines of other requests.    *)
(* Such a block is named for one of those.                                 *)
Fork(c) ==
    /\ Transition(c, "fork", "close")
    /\ log' = Printed(th[c].request)
    /\ \/ \E n \in Outputs : children' = children \cup {Child(c, th[c].request, n)}
       \/ \E text \in log : children' = children \cup {Child(c, text, 1)}
    /\ UNCHANGED <<alive, no_clients, terminal, pipeVars, data, pending, clientVars>>

(* Mutant: the write end stays open.                                       *)
CloseWrite_Never(c) ==
    /\ Transition(c, "close", "read")
    /\ UNCHANGED <<mainVars, kernelVars, pending, clientVars>>

CloseWrite(c) ==
    /\ Transition(c, "close", "read")
    /\ writeEnds' = writeEnds \ {th[c].channel}
    /\ UNCHANGED <<mainVars, readEnds, data, children, pending, clientVars>>

(* One read(): any part of what is there, or end of file.                  *)
ReadOutput(c) ==
    LET p == th[c].channel
    IN  /\ th[c].at = "read"
        /\ data[p] = <<>> => ~HasWriter(p)
        /\ \E n \in IF data[p] = <<>> THEN {0} ELSE 1 .. Len(data[p]) :
              /\ th' = [th EXCEPT ![c].at = "reply", ![c].output = SubSeq(data[p], 1, n)]
              /\ data' = [data EXCEPT ![p] = SubSeq(@, n + 1, Len(@))]
        /\ UNCHANGED <<mainVars, pipeVars, children, pending, clientVars>>

(* What can stand behind the header of a response: the same header, which  *)
(* has overwritten the output, with the rest of the output if that was     *)
(* longer, with what was there before if it was shorter, or with nothing,  *)
(* as text that is copied onto itself may be lost.                         *)
Bodies(c) ==
    LET q == th[c].request
    IN  {<<q>>} \cup {<<q>> \o th[c].output}
            \cup (IF Len(th[c].output) <= 1 THEN {<<q>> \o th[c].rest} ELSE {})

(* The thread has made its response and has no more use for output.        *)
Replied(c, body) ==
    /\ th[c].at = "reply"
    /\ th' = [th EXCEPT ![c].at = "wait", ![c].output = <<>>, ![c].rest = body]
    /\ UNCHANGED <<mainVars, kernelVars, pending, sent>>

Reply(c) ==
    /\ conn[c] = "open"
    /\ \E body \in Bodies(c) :
          /\ Replied(c, body)
          /\ got' = [got EXCEPT ![c] = Append(@, [request |-> th[c].request, body |-> body])]
    /\ UNCHANGED conn

(* The peer has left: the response is lost.                                *)
ReplyLost(c) ==
    /\ conn[c] # "open"
    /\ \E body \in Bodies(c) : Replied(c, body)
    /\ conn' = [conn EXCEPT ![c] = "reset"]
    /\ UNCHANGED got

(* The peer has reset the connection and write() raises SIGPIPE, or the    *)
(* response is longer than its buffer and overwrites the stack, which      *)
(* shows at once or when handle_request returns.                           *)
ReplyDies(c) ==
    /\ \/ /\ th[c].at = "reply"
          /\ conn[c] = "reset" \/ \E body \in Bodies(c) : Len(body) > RespCap
       \/ th[c].at = "wait" /\ Len(th[c].rest) > RespCap
    /\ Dies

(* Mutants of the end of a request: it reaps every child that has ended;   *)
(* the read end is not closed.                                             *)
Reaped_All        == children \ Running # {} /\ children' = Running
CloseRead_Never(c) == UNCHANGED readEnds

(* wait() reaps any child, or fails when there is none.                    *)
Reaped ==
    \/ \E k \in children \ Running : children' = children \ {k}
    \/ children = {} /\ UNCHANGED children

CloseRead(c) == readEnds' = readEnds \ {th[c].channel}

(* wait() and close(); handle_request returns and its variables are gone.  *)
Wait(c) ==
    /\ th[c].at = "wait"
    /\ Reaped /\ CloseRead(c)
    /\ th' = [th EXCEPT ![c].at = "request", ![c].request = None, ![c].channel = None]
    /\ UNCHANGED <<mainVars, writeEnds, data, pending, clientVars>>

-----------------------------------------------------------------------------
(* The commands.                                                           *)

Becomes(k, new) ==
    /\ children' = (children \ {k}) \cup {new}
    /\ UNCHANGED <<mainVars, th, pipeVars, pending, clientVars>>

(* A block of output, as soon as the pipe has room for it.                 *)
CommandWrites(k) ==
    /\ k.left > 0
    /\ HasReader(k.out) /\ Len(data[k.out]) < PipeCap
    /\ data' = [data EXCEPT ![k.out] = Append(@, k.text)]
    /\ Becomes(k, [k EXCEPT !.left = @ - 1])

(* The command is done, or nobody can read what it writes.                 *)
CommandEnds(k) ==
    /\ k.left = 0 \/ ~HasReader(k.out)
    /\ Becomes(k, [k EXCEPT !.state = "ended"])
    /\ UNCHANGED data

-----------------------------------------------------------------------------
(* The clients.                                                            *)

Send(c) ==
    /\ conn[c] = "open" /\ sent[c] < MaxReqs[c]
    /\ sent' = [sent EXCEPT ![c] = @ + 1]
    /\ pending' = [pending EXCEPT ![c] = Append(@, sent[c] + 1)]
    /\ UNCHANGED <<mainVars, th, kernelVars, conn, got>>

Leave(c) ==
    /\ c \in Leavers /\ conn[c] = "open"
    /\ \E s \in {"closed", "reset"} : conn' = [conn EXCEPT ![c] = s]
    /\ UNCHANGED <<mainVars, th, kernelVars, pending, sent, got>>

-----------------------------------------------------------------------------
HandleRequest(c) ==
    \/ MakePipe(c) \/ RequestFails(c) \/ Fork(c) \/ CloseWrite(c)
    \/ ReadOutput(c) \/ Reply(c) \/ ReplyLost(c) \/ ReplyDies(c) \/ Wait(c)

HandleClient(c) ==
    ReadRequest(c) \/ ReadEof(c) \/ ReadError(c) \/ HandleRequest(c)

Command(p) == \E k \in Running : k.id = p /\ (CommandWrites(k) \/ CommandEnds(k))

Next ==
    /\ alive
    /\ \/ TooMany \/ AcceptFails
       \/ \E c \in Clients : Accept(c) \/ HandleClient(c) \/ Send(c) \/ Leave(c)
       \/ \E p \in Request : Command(p)

Spec == Init /\ [][Next]_vars

(* The kernel runs every thread and every command that can run.  Nobody    *)
(* has to send anything.                                                   *)
Fairness ==
    /\ \A c \in Clients : WF_vars(alive /\ HandleClient(c))
    /\ \A p \in Request : WF_vars(alive /\ Command(p))

FairSpec == Spec /\ Fairness
-----------------------------------------------------------------------------
(* Properties.                                                             *)

ThreadState ==
    [at : {"idle", "request", "pipe", "fork", "close", "read", "reply", "wait", "gone"},
     request : Request \cup {None}, channel : Request \cup {None},
     output : Seq(Request), rest : Seq(Request)]

ChildProcess ==
    [id : Request, out : Request, text : Request, left : Nat, 
     writes : SUBSET Request, reads : SUBSET Request, state : {"running", "ended"}]

Response == [request : Request, body : Seq(Request)]

TypeOK ==
    /\ alive \in BOOLEAN /\ no_clients \in 0 .. MaxCons + 1
    /\ terminal \in BOOLEAN /\ log \subseteq Request
    /\ th \in [Clients -> ThreadState]
    /\ writeEnds \subseteq Request /\ readEnds \subseteq Request
    /\ data \in [Request -> Seq(Request)]
    /\ children \subseteq ChildProcess
    /\ pending \in [Clients -> Seq(Nat)]
    /\ conn \in [Clients -> {"open", "closed", "reset"}]
    /\ sent \in [Clients -> Nat]
    /\ got \in [Clients -> Seq(Response)]

(* Although every thread may reap another one's child, there are always as *)
(* many children as threads that have forked and not waited: no wait()     *)
(* fails, and no child stays behind when all threads are done.             *)
ChildrenMatchWaits ==
    Cardinality(children) =
        Cardinality({c \in Clients : th[c].at \in {"close", "read", "reply", "wait"}})

(* A response shows its own request only, or behind that all of the        *)
(* response before it to the same client.                                  *)
OwnOrBefore(c, i) ==
    LET r == got[c][i]
    IN  \/ \A k \in DOMAIN r.body : r.body[k] = r.request
        \/ i > 1 /\ r.body = <<r.request>> \o got[c][i - 1].body

(* A client gets one response at most to each of its requests, in their    *)
(* order.  With a terminal as standard output a response shows nothing of  *)
(* another client's request or output; but what a thread has sent to a     *)
(* client it may send again, with the response to a later request.         *)
OwnAnswers ==
    \A c \in Clients : \A i \in DOMAIN got[c] :
        /\ got[c][i].request \in {c} \X (1 .. sent[c])
        /\ \A j \in 1 .. i - 1 : got[c][j].request[2] < got[c][i].request[2]
        /\ terminal => OwnOrBefore(c, i)

(* The command has more to write than its pipe takes.                      *)
Blocked(k) ==
    /\ k \in Running /\ k.left > 0
    /\ HasReader(k.out) /\ Len(data[k.out]) >= PipeCap

(* A thread waits for ever only for a command that is blocked on a full    *)
(* pipe for ever.  In wait() that may be its own.  Before its response it  *)
(* is that of another client, which has inherited the write end, so that   *)
(* end of file never comes.                                                *)
HeldUp ==
    \A c \in Clients :
        <>[](alive /\ th[c].at \in {"read", "wait"}) =>
            <>[](\E k \in children : Blocked(k) /\
                    (th[c].at = "read" => k.id[1] # c /\ th[c].channel \in k.writes))

(* No thread handles the request any more and its command still runs.      *)
Orphan(p) == th[p[1]].channel # p /\ \E k \in Running : k.id = p

(* A blocked command whose thread was released by the end of another one   *)
(* is killed by SIGPIPE, unless a command that is blocked itself has       *)
(* inherited the read end.                                                 *)
OrphanEnds ==
    \A p \in Request :
        <>[](alive /\ Orphan(p)) =>
            <>[](\E k \in children : Blocked(k) /\ p \in k.reads)
=============================================================================
