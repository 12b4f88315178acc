---------------------------- MODULE CalcServer ----------------------------
(***************************************************************************)
(* zk1/server.cpp: a calculator server.  One thread per client; a          *)
(* semaphore, initially 1, is meant to let one client at a time send a     *)
(* window of 10 requests.  A thread takes the semaphore when its local     *)
(* counter is 0 and gives it back, resetting the counter, when the counter *)
(* has reached the window.                                                 *)
(*                                                                         *)
(* A request is a line, given by its position in the client's stream and   *)
(* its kind:                                                               *)
(*   "mul"    has a '*' between two operands,                              *)
(*   "other"  has another operator between them,                           *)
(*   "plain"  has no operator,                                             *)
(*   "lone"   begins with its only '*' and has one operand.                *)
(* The reply to request n is n; 0 stands for a number that is the product  *)
(* of no request.                                                          *)
(*                                                                         *)
(* A request is taken apart by two calls of strtok, which keeps its place  *)
(* between them in memory that all threads share.                          *)
(***************************************************************************)
EXTENDS Naturals, Sequences, FiniteSets

CONSTANTS Clients,     \* the connections that may be made
          None,        \* no client
          MaxClients,  \* MAX_CLIENTS
          Window,      \* the literal 10 of handle_client
          MaxSent,     \* bound: requests each client sends
          Kinds,       \* the kinds of request the clients send
          Pipelined    \* the clients that send before the last request is handled

ASSUME CalcAssumption ==
    /\ IsFiniteSet(Clients) /\ None \notin Clients
    /\ MaxClients \in Nat \ {0}
    /\ Window \in Nat \ {0}
    /\ MaxSent \in [Clients -> Nat]
    /\ Kinds \subseteq {"mul", "other", "plain", "lone"}
    /\ Pipelined \subseteq Clients

VARIABLES
    alive,       \* the server process has not died
    no_clients,  \* Server::no_clients
    mutex,       \* the value of the semaphore
    conn,        \* the peer's half of each connection
    asked,       \* the kinds of the requests each client has sent
    pending,     \* the requests sent and not read yet
    th,          \* where each handler thread stands
    counter,     \* the handler's local counter
    buffer,      \* the requests the last read returned
    saved,       \* whose buffer strtok continues in, None behind a second call
    served,      \* history: buffers handled for each client
    replies,     \* the replies each client received
    admitted,    \* history: the threads whose sem_wait has returned
    posts        \* history: the calls of sem_post

clientVars == <<conn, asked>>
gateVars   == <<mutex, admitted, posts>>
loopVars   == <<counter, buffer, saved, served, replies>>
vars == <<alive, no_clients, clientVars, gateVars, pending, th, loopVars>>

Request == [n : Nat, kind : Kinds]

ThreadStates ==
    {"idle", "orphan", "read", "wait", "post", "serve", "second", "gone"}

Init ==
    /\ alive = TRUE
    /\ no_clients = 0
    /\ mutex = 1
    /\ conn = [c \in Clients |-> "open"]
    /\ asked = [c \in Clients |-> <<>>]
    /\ pending = [c \in Clients |-> <<>>]
    /\ th = [c \in Clients |-> "idle"]
    /\ counter = [c \in Clients |-> 0]
    /\ buffer = [c \in Clients |-> <<>>]
    /\ saved = None
    /\ served = [c \in Clients |-> 0]
    /\ replies = [c \in Clients |-> <<>>]
    /\ admitted = {}
    /\ posts = 0

-----------------------------------------------------------------------------
(* The main thread: Server::start.                                         *)

(* accept() and pthread_create() for one client.  A thread that could not  *)
(* be created is reported by a positive errno, which the test against -1   *)
(* does not see: the client counts and nobody serves it ("orphan").        *)
Accept(c) ==
    /\ no_clients <= MaxClients
    /\ th[c] = "idle"
    /\ no_clients' = no_clients + 1
    /\ \E outcome \in {"read", "orphan"} : th' = [th EXCEPT ![c] = outcome]
    /\ UNCHANGED <<alive, clientVars, gateVars, pending, loopVars>>

(* accept() failed: exit() ends the process, every client's thread too.    *)
AcceptFails ==
    /\ no_clients <= MaxClients
    /\ alive' = FALSE
    /\ UNCHANGED <<no_clients, clientVars, gateVars, pending, th, loopVars>>

(* th_ids[MAX_CLIENTS] is the word that holds no_clients: creating one     *)
(* thread too many overwrites the index, and the next turn of the loop     *)
(* stores through it, far outside the object.                              *)
WildStore ==
    /\ no_clients > MaxClients
    /\ alive' = FALSE
    /\ UNCHANGED <<no_clients, clientVars, gateVars, pending, th, loopVars>>

-----------------------------------------------------------------------------
(* The handler threads: handle_client.                                     *)

Transition(c, from, to) == th[c] = from /\ th' = [th EXCEPT ![c] = to]

(* Mutant: the window closes one request early.                            *)
Gate_Early(n) == CASE n = 0           -> "wait"
                   [] n >= Window - 1 -> "post"
                   [] OTHER           -> "serve"

(* What the two tests at the head of the loop make of the counter.         *)
Gate(n) == CASE n = 0       -> "wait"
             [] n >= Window -> "post"
             [] OTHER       -> "serve"

(* Mutant: the last request read is left to be read again.                 *)
Remaining_Again(s, k) == SubSeq(s, k, Len(s))

(* What read() leaves of s when it returns the first k requests.           *)
Remaining(s, k) == SubSeq(s, k + 1, Len(s))

(* read() returns everything, or any prefix, of what has arrived.          *)
Read(c) ==
    /\ Transition(c, "read", Gate(counter[c]))
    /\ \E k \in 1 .. Len(pending[c]) :
          /\ buffer' = [buffer EXCEPT ![c] = SubSeq(pending[c], 1, k)]
          /\ pending' = [pending EXCEPT ![c] = Remaining(@, k)]
    /\ UNCHANGED <<alive, no_clients, clientVars, gateVars, counter, saved,
                   served, replies>>

(* Mutants: sem_trywait with its failure ignored; no test at all.          *)
SemWait_As(c, value) ==
    /\ Transition(c, "wait", "serve")
    /\ mutex' = value
    /\ admitted' = admitted \cup {c}
    /\ UNCHANGED <<alive, no_clients, clientVars, posts, pending, loopVars>>

SemWait_Try(c)   == SemWait_As(c, IF mutex > 0 THEN mutex - 1 ELSE mutex)
SemWait_Blind(c) == SemWait_As(c, mutex - 1)

(* sem_wait returns.                                                       *)
SemWait(c) ==
    /\ mutex > 0
    /\ Transition(c, "wait", "serve")
    /\ mutex' = mutex - 1
    /\ admitted' = admitted \cup {c}
    /\ UNCHANGED <<alive, no_clients, clientVars, posts, pending, loopVars>>

(* Mutants of the end of a window: after it, the thread goes to "next" and *)
(* gives back n permits.                                                   *)
SemPost_As(c, next, n) ==
    /\ Transition(c, "post", next)
    /\ mutex' = mutex + n
    /\ posts' = posts + 1
    /\ counter' = [counter EXCEPT ![c] = 0]
    /\ UNCHANGED <<alive, no_clients, clientVars, admitted, pending, buffer,
                   saved, served, replies>>

SemPost_Waits(c)  == SemPost_As(c, "wait", 1)
SemPost_Skips(c)  == SemPost_As(c, "read", 1)
SemPost_Keeps(c)  == SemPost_As(c, "serve", 0)

(* The window is over: sem_post and a fresh counter, but no sem_wait.      *)
SemPost(c) ==
    /\ Transition(c, "post", "serve")
    /\ mutex' = mutex + 1
    /\ posts' = posts + 1
    /\ counter' = [counter EXCEPT ![c] = 0]
    /\ UNCHANGED <<alive, no_clients, clientVars, admitted, pending, buffer,
                   saved, served, replies>>

(* strstr, strtok and atoi see the whole buffer as one expression, and '*' *)
(* is looked for first.                                                    *)
Stars(b)       == {i \in DOMAIN b : b[i].kind \in {"mul", "lone"}}
HasOperator(b) == \E i \in DOMAIN b : b[i].kind # "plain"
OneOperand(b)  == Stars(b) = {1} /\ b[1].kind = "lone"
Answer(b)      == IF b[1].kind = "mul" THEN b[1].n ELSE 0

(* The first strtok finds the left operand and remembers, for any thread,  *)
(* where it stopped.                                                       *)
StrtokFirst(c) ==
    /\ HasOperator(buffer[c])
    /\ Transition(c, "serve", "second")
    /\ saved' = c
    /\ UNCHANGED <<alive, no_clients, clientVars, gateVars, pending, counter,
                   buffer, served, replies>>

(* What the second strtok returns: if another thread called strtok since,  *)
(* an operand of another buffer, or NULL where another thread stopped.     *)
Found(c) ==
    CASE saved # c             -> {"foreign", "NULL"}
      [] OneOperand(buffer[c]) -> {"NULL"}
      [] OTHER                 -> {"own"}

(* The rest of the loop body, from the second strtok on, around the reply. *)
EndOfTurn(c) ==
    /\ Transition(c, IF HasOperator(buffer[c]) THEN "second" ELSE "serve", "read")
    /\ saved' = IF th[c] = "second" THEN None ELSE saved
    /\ counter' = [counter EXCEPT ![c] = @ + 1]
    /\ served' = [served EXCEPT ![c] = @ + 1]
    /\ buffer' = [buffer EXCEPT ![c] = <<>>]
    /\ UNCHANGED <<no_clients, asked, gateVars, pending>>

(* No '*' in the buffer: nothing is written back.                          *)
ServeSilently(c) ==
    /\ EndOfTurn(c)
    /\ Stars(buffer[c]) = {}
    /\ UNCHANGED <<alive, conn, replies>>

ServeAnswer(c) ==
    /\ EndOfTurn(c)
    /\ Stars(buffer[c]) # {}
    /\ conn[c] = "open"
    /\ \E f \in Found(c) \ {"NULL"} :
          LET product == IF f = "own" THEN Answer(buffer[c]) ELSE 0
          IN  replies' = [replies EXCEPT ![c] = Append(@, product)]
    /\ UNCHANGED <<alive, conn>>

(* The peer has left: the answer is lost, and once the connection has been *)
(* reset the write raises SIGPIPE, which nobody handles.                   *)
ServeLost(c) ==
    /\ EndOfTurn(c)
    /\ Stars(buffer[c]) # {} /\ Found(c) # {"NULL"}
    /\ conn[c] # "open"
    /\ alive' \in BOOLEAN /\ (conn[c] = "closed" => alive')
    /\ \E s \in {conn[c], "reset"} : conn' = [conn EXCEPT ![c] = s]
    /\ UNCHANGED replies

(* The second strtok returns NULL and atoi(NULL) takes the process down.   *)
ServeCrash(c) ==
    /\ EndOfTurn(c)
    /\ Stars(buffer[c]) # {} /\ "NULL" \in Found(c)
    /\ alive' = FALSE
    /\ UNCHANGED <<conn, replies>>

(* read() returned 0: the thread ends, holding whatever it holds.          *)
ReadEof(c) ==
    /\ pending[c] = <<>> /\ conn[c] = "closed"
    /\ Transition(c, "read", "gone")
    /\ UNCHANGED <<alive, no_clients, clientVars, gateVars, pending, loopVars>>

(* read() returned -1: exit() ends the process, every other client too.    *)
ReadError(c) ==
    /\ th[c] = "read"
    /\ pending[c] = <<>> /\ conn[c] = "reset"
    /\ alive' = FALSE
    /\ UNCHANGED <<no_clients, clientVars, gateVars, pending, th, loopVars>>

-----------------------------------------------------------------------------
(* The clients.                                                            *)

(* A client that is not pipelined sends when its last request is done.     *)
MaySend(c) ==
    c \in Pipelined \/ (pending[c] = <<>> /\ th[c] \in {"idle", "read"})

Send(c) ==
    /\ conn[c] = "open"
    /\ Len(asked[c]) < MaxSent[c]
    /\ MaySend(c)
    /\ \E kind \in Kinds :
          /\ asked' = [asked EXCEPT ![c] = Append(@, kind)]
          /\ pending' = [pending EXCEPT
                ![c] = Append(@, [n |-> Len(asked[c]) + 1, kind |-> kind])]
    /\ UNCHANGED <<alive, no_clients, conn, gateVars, th, loopVars>>

Leave(c) ==
    /\ conn[c] = "open"
    /\ \E s \in {"closed", "reset"} : conn' = [conn EXCEPT ![c] = s]
    /\ UNCHANGED <<alive, no_clients, asked, gateVars, pending, th, loopVars>>

-----------------------------------------------------------------------------
Serve(c) ==
    StrtokFirst(c) \/ ServeSilently(c) \/ ServeAnswer(c) \/ ServeLost(c) \/ ServeCrash(c)

Handler(c) ==
    Read(c) \/ ReadEof(c) \/ ReadError(c) \/ SemWait(c) \/ SemPost(c) \/ Serve(c)

Next ==
    /\ alive
    /\ \/ AcceptFails
       \/ WildStore
       \/ \E c \in Clients : Accept(c) \/ Handler(c) \/ Send(c) \/ Leave(c)

Spec == Init /\ [][Next]_vars

(* The kernel runs every thread that can run and the clients keep typing;  *)
(* nobody is obliged to connect or to leave.                               *)
Fairness ==
    \A c \in Clients : WF_vars(alive /\ Handler(c)) /\ WF_vars(alive /\ Send(c))

FairSpec == Spec /\ Fairness
-----------------------------------------------------------------------------
(* Properties.                                                             *)

TypeOK ==
    /\ alive \in BOOLEAN
    /\ no_clients \in 0 .. MaxClients + 1
    /\ mutex \in Nat
    /\ conn \in [Clients -> {"open", "closed", "reset"}]
    /\ asked \in [Clients -> Seq(Kinds)]
    /\ pending \in [Clients -> Seq(Request)]
    /\ th \in [Clients -> ThreadStates]
    /\ counter \in [Clients -> Nat]
    /\ buffer \in [Clients -> Seq(Request)]
    /\ saved \in Clients \cup {None}
    /\ served \in [Clients -> Nat]
    /\ replies \in [Clients -> Seq(Nat)]
    /\ admitted \in SUBSET Clients
    /\ posts \in Nat

(* Every permit is accounted for: a client once let through never comes    *)
(* back to sem_wait (its counter restarts at 1, not at 0), so each release *)
(* of the semaphore lets exactly one more client in, for good.             *)
PermitAccounting == Cardinality(admitted) + mutex = 1 + posts

(* Two clients have been served only if some client has used up a whole    *)
(* window: the semaphore does hold back the second client until then.      *)
HandOver ==
    \A c, d \in Clients :
        c # d /\ served[c] > 0 /\ served[d] > 0
            => \E e \in Clients : served[e] >= Window

(* A handler that was let through once never blocks on the semaphore       *)
(* again, whoever else has been let through in the meantime.               *)
NeverBlockedAgain ==
    [][\A c \in admitted : th'[c] # "wait"]_vars

(* The permit is lost for good when the client that holds it leaves within *)
(* its window: no permit is left and no thread that could post one.        *)
Stranded == mutex = 0 /\ \A c \in admitted : th[c] = "gone"

(* From then on nobody who is not through gets through, however many       *)
(* clients are waiting and whatever they do.                               *)
StrandedForever == [][Stranded => admitted' = admitted /\ posts' = posts]_vars

(* As long as no window has been used up, the semaphore does protect what  *)
(* strtok keeps between two calls: no thread finds an operand of another   *)
(* one.  From the first post on nothing protects it.                       *)
OwnOperands == posts = 0 => \A c \in Clients : th[c] = "second" => saved = c

Muls(c) == {n \in DOMAIN asked[c] : asked[c][n] = "mul"}

(* A client that waits for each request to be handled gets one answer to   *)
(* every multiplication it asked for, and none to anything else.  Until    *)
(* some client has used up a window they are the products, in order.       *)
LockstepAnswers ==
    \A c \in Clients \ Pipelined :
        alive /\ conn[c] = "open" /\ th[c] = "read" /\ pending[c] = <<>>
          /\ (\A n \in DOMAIN asked[c] : asked[c][n] # "lone")
            => /\ Len(replies[c]) = Cardinality(Muls(c))
               /\ posts = 0 => {replies[c][i] : i \in DOMAIN replies[c]} = Muls(c)

(* The replies that are the product of some request.                       *)
Right(c) == {i \in DOMAIN replies[c] : replies[c][i] # 0}

(* A client that does not wait loses answers to coalesced reads, and a     *)
(* wrong operand makes a wrong answer, but nobody gets two answers for a   *)
(* request, an answer to what is no multiplication, or answers out of      *)
(* order.                                                                  *)
AnswersInOrder ==
    \A c \in Clients :
        /\ \A i, j \in Right(c) : i < j => replies[c][i] < replies[c][j]
        /\ \A i \in Right(c) : replies[c][i] \in Muls(c)
        /\ Len(replies[c]) <= served[c]

(* Nothing more will come from this thread: it has ended, or its client    *)
(* has sent all it will and all of it is handled.                          *)
Finished(c) ==
    \/ th[c] = "gone"
    \/ th[c] = "read" /\ pending[c] = <<>>
         /\ (conn[c] = "open" => Len(asked[c]) = MaxSent[c])

(* The windows that were used up and followed by another request.          *)
UsedWindows ==
    UNION {{c} \X {w \in 1 .. MaxSent[c] : served[c] > w * Window} : c \in Clients}

(* A client waiting for its turn gets it, unless the process dies, or all  *)
(* clients that were let through fall silent with their windows open: then *)
(* every window used up so far has let some other client in.               *)
WaiterServed ==
    \A c \in Clients :
        th[c] = "wait" ~>
            \/ th[c] # "wait" \/ ~alive
            \/ /\ \A d \in admitted : Finished(d)
               /\ Cardinality(admitted) = 1 + Cardinality(UsedWindows)
=============================================================================
