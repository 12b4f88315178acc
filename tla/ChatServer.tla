---------------------------- MODULE ChatServer ----------------------------
(***************************************************************************)
(* telnet_com/server.cpp: a chat server.  The main thread accepts clients  *)
(* and starts one thread for each; a thread reads what its client sends    *)
(* and writes it to every other client of the shared table.  Nothing is    *)
(* locked.  Every step below is one access to the shared Sock_desc, as the *)
(* threads interleave between any two of them.                             *)
(*                                                                         *)
(* The table is modelled word by word: words[0 .. MaxCon - 1] is fds and   *)
(* words[MaxCon], the int behind it, is current_active.  The n-th message  *)
(* of client s is the pair <<s, n>>.                                       *)
(***************************************************************************)
EXTENDS Naturals, Sequences, FiniteSets

CONSTANTS Clients,   \* the connections that may be made
          MaxCon,    \* MAX_CON, and the literal 3 of main
          MaxSent,   \* bound: messages each client sends
          Junk,      \* a word that is no client's descriptor
          Garbage,   \* what the words may hold before they are written
          Leavers    \* the clients that may disconnect

ASSUME ChatAssumption ==
    /\ MaxCon \in Nat \ {0}
    /\ MaxSent \in [Clients -> Nat]
    /\ Junk \notin Clients
    /\ Garbage \subseteq Clients \cup {Junk} /\ Garbage # {}
    /\ Leavers \subseteq Clients

VARIABLES
    alive,        \* the server process has not died
    main,         \* where the main thread stands
    client_fd,    \* main's local: the client accepted last
    current_num,  \* Sock_desc::current_num
    words,        \* Sock_desc::fds and current_active
    pc,           \* where each handler thread stands
    active,       \* handle_client's local: the client the thread serves
    at,           \* broad_cast's local i
    buffer,       \* handle_client's local: the messages of one read
    conn,         \* the peer's half of each connection
    sent,         \* how many messages each client has sent
    taken,        \* how many of them have been read
    got,          \* the messages each client has received
    order         \* history: the clients in the order they were accepted

mainVars   == <<main, client_fd, current_num, words, order>>
threadVars == <<pc, active, at, buffer>>
peerVars   == <<conn, sent, taken, got>>
vars == <<alive, mainVars, threadVars, peerVars>>

Slots   == 0 .. MaxCon
Threads == 1 .. MaxCon + 1
Nobody  == <<>>  \* the buffer before the first read

Init ==
    /\ alive = TRUE
    /\ main = "accept" /\ client_fd = Junk
    /\ current_num = 0
    /\ words \in [Slots -> Garbage]
    /\ order = <<>>
    /\ pc = [k \in Threads |-> "none"]
    /\ active = [k \in Threads |-> Junk]
    /\ at = [k \in Threads |-> 0]
    /\ buffer = [k \in Threads |-> Nobody]
    /\ conn = [c \in Clients |-> "open"]
    /\ sent = [c \in Clients |-> 0]
    /\ taken = [c \in Clients |-> 0]
    /\ got = [c \in Clients |-> <<>>]

-----------------------------------------------------------------------------
(* The main thread.                                                        *)

(* The table has MaxCon slots and the test is current_num > MaxCon, so one *)
(* client more is accepted.  It is counted before its slot is filled.      *)
Accept(c) ==
    /\ main = "accept"
    /\ current_num <= MaxCon
    /\ \A n \in DOMAIN order : order[n] # c
    /\ main' = "slot" /\ client_fd' = c
    /\ current_num' = current_num + 1
    /\ order' = Append(order, c)
    /\ UNCHANGED <<alive, words, threadVars, peerVars>>

(* accept() failed: exit() ends the process, every client's thread too.    *)
AcceptFails ==
    /\ main = "accept"
    /\ current_num <= MaxCon
    /\ alive' = FALSE
    /\ UNCHANGED <<mainVars, threadVars, peerVars>>

StoreSlot ==
    /\ main = "slot"
    /\ words' = [words EXCEPT ![current_num - 1] = client_fd]
    /\ main' = "active"
    /\ UNCHANGED <<alive, client_fd, current_num, order, threadVars, peerVars>>

(* Mutant: current_active is left as it was.                               *)
StoreActive_Never ==
    /\ main = "active"
    /\ main' = "create"
    /\ UNCHANGED <<alive, client_fd, current_num, words, order, threadVars, peerVars>>

StoreActive ==
    /\ main = "active"
    /\ words' = [words EXCEPT ![MaxCon] = client_fd]
    /\ main' = "create"
    /\ UNCHANGED <<alive, client_fd, current_num, order, threadVars, peerVars>>

(* pthread_create may fail, which is only printed.  With the table full    *)
(* main spins for ever on "Cannot accept more clients".                    *)
Create ==
    /\ main = "create"
    /\ \E outcome \in {"start", "failed"} :
          pc' = [pc EXCEPT ![current_num] = outcome]
    /\ main' = IF current_num > MaxCon THEN "spin" ELSE "accept"
    /\ UNCHANGED <<alive, client_fd, current_num, words, order, active, at,
                   buffer, peerVars>>

-----------------------------------------------------------------------------
(* The handler threads: handle_client and broad_cast.                      *)

(* The thread learns which client it serves from the shared table, when it *)
(* first runs.                                                             *)
Start(k) ==
    /\ pc[k] = "start"
    /\ active' = [active EXCEPT ![k] = words[MaxCon]]
    /\ pc' = [pc EXCEPT ![k] = "read"]
    /\ UNCHANGED <<alive, mainVars, at, buffer, peerVars>>

(* read() returns everything, or any prefix, of what has arrived.          *)
Read(k) ==
    /\ pc[k] = "read"
    /\ \E n \in taken[active[k]] + 1 .. sent[active[k]] :
          /\ buffer' = [buffer EXCEPT
               ![k] = [m \in 1 .. n - taken[active[k]] |->
                          <<active[k], taken[active[k]] + m>>]]
          /\ taken' = [taken EXCEPT ![active[k]] = n]
    /\ at' = [at EXCEPT ![k] = 0]
    /\ pc' = [pc EXCEPT ![k] = "test"]
    /\ UNCHANGED <<alive, mainVars, active, conn, sent, got>>

(* read() returned 0 or -1: the thread ends; the client keeps its slot.    *)
ReadEnd(k) ==
    /\ pc[k] = "read"
    /\ taken[active[k]] = sent[active[k]] /\ conn[active[k]] # "open"
    /\ pc' = [pc EXCEPT ![k] = "done"]
    /\ UNCHANGED <<alive, mainVars, active, at, buffer, peerVars>>

(* Mutants of the step of the loop.                                        *)
Advance_Twice(i) == i + 2
Advance_Not(i)   == i

Advance(i) == i + 1

(* Mutant: the test that leaves out the sender is missing.                 *)
Test_All(k) ==
    /\ pc[k] = "test"
    /\ at[k] < current_num
    /\ pc' = [pc EXCEPT ![k] = "write"]
    /\ UNCHANGED <<alive, mainVars, active, at, buffer, peerVars>>

(* fds[i] != excluded: the slot is loaded a first time.                    *)
Test(k) ==
    /\ pc[k] = "test"
    /\ at[k] < current_num
    /\ IF words[at[k]] # active[k]
         THEN pc' = [pc EXCEPT ![k] = "write"] /\ UNCHANGED at
         ELSE at' = [at EXCEPT ![k] = Advance(@)]   /\ UNCHANGED pc
    /\ UNCHANGED <<alive, mainVars, active, buffer, peerVars>>

EndBroadcast(k) ==
    /\ pc[k] = "test"
    /\ at[k] >= current_num
    /\ pc' = [pc EXCEPT ![k] = "read"]
    /\ UNCHANGED <<alive, mainVars, active, at, buffer, peerVars>>

(* A write to the client r: it arrives if r is there.  The first write to  *)
(* a closed connection resets it; one to a reset connection may raise      *)
(* SIGPIPE, which kills the server.  A word that is no client's descriptor *)
(* makes write() fail or reach something else; both go unnoticed.          *)
Deliver(r, messages) ==
    \/ /\ r = Junk
       /\ UNCHANGED <<alive, conn, got>>
    \/ /\ r # Junk /\ conn[r] = "open"
       /\ got' = [got EXCEPT ![r] = @ \o messages]
       /\ UNCHANGED <<alive, conn>>
    \/ /\ r # Junk /\ conn[r] # "open"
       /\ alive' \in BOOLEAN /\ (conn[r] = "closed" => alive')
       /\ \E s \in {conn[r], "reset"} : conn' = [conn EXCEPT ![r] = s]
       /\ UNCHANGED got

(* write(fds[i], ...): the slot is loaded a second time.                   *)
Write(k) ==
    /\ pc[k] = "write"
    /\ Deliver(words[at[k]], buffer[k])
    /\ at' = [at EXCEPT ![k] = Advance(@)]
    /\ pc' = [pc EXCEPT ![k] = "test"]
    /\ UNCHANGED <<mainVars, active, buffer, sent, taken>>

-----------------------------------------------------------------------------
(* The clients.  The kernel takes what they send before they are accepted. *)

Send(c) ==
    /\ conn[c] = "open"
    /\ sent[c] < MaxSent[c]
    /\ sent' = [sent EXCEPT ![c] = @ + 1]
    /\ UNCHANGED <<alive, mainVars, threadVars, conn, taken, got>>

Leave(c) ==
    /\ c \in Leavers
    /\ conn[c] = "open"
    /\ \E s \in {"closed", "reset"} : conn' = [conn EXCEPT ![c] = s]
    /\ UNCHANGED <<alive, mainVars, threadVars, sent, taken, got>>

-----------------------------------------------------------------------------
Main == StoreSlot \/ StoreActive \/ Create

Handler(k) ==
    Start(k) \/ Read(k) \/ ReadEnd(k) \/ Test(k) \/ EndBroadcast(k) \/ Write(k)

Next ==
    /\ alive
    /\ \/ Main
       \/ AcceptFails
       \/ \E c \in Clients : Accept(c) \/ Send(c) \/ Leave(c)
       \/ \E k \in Threads : Handler(k)

Spec == Init /\ [][Next]_vars

(* The kernel runs every thread that can run; nobody has to connect, to    *)
(* send or to leave.                                                       *)
Fairness ==
    /\ WF_vars(alive /\ Main)
    /\ \A k \in Threads : WF_vars(alive /\ Handler(k))

FairSpec == Spec /\ Fairness
-----------------------------------------------------------------------------
(* Properties.                                                             *)

Message == Clients \X Nat

TypeOK ==
    /\ alive \in BOOLEAN
    /\ main \in {"accept", "slot", "active", "create", "spin"}
    /\ client_fd \in Clients \cup {Junk}
    /\ current_num \in 0 .. MaxCon + 1
    /\ words \in [Slots -> Clients \cup {Junk}]
    /\ pc \in [Threads -> {"none", "failed", "start", "read", "test",
                           "write", "done"}]
    /\ active \in [Threads -> Clients \cup {Junk}]
    /\ at \in [Threads -> 0 .. MaxCon + 1]
    /\ buffer \in [Threads -> Seq(Message)]
    /\ conn \in [Clients -> {"open", "closed", "reset"}]
    /\ sent \in [Clients -> Nat]
    /\ taken \in [Clients -> Nat]
    /\ got \in [Clients -> Seq(Message)]
    /\ order \in Seq(Clients)

(* No client gets back what it wrote itself, although the slot is loaded   *)
(* once for the test and once more for the write and may change between    *)
(* the two: it changes only to a client that no thread serves yet.         *)
NoEcho == \A r \in Clients : \A m \in DOMAIN got[r] : got[r][m][1] # r

(* A thread that starts late serves a client accepted later than its own,  *)
(* never an earlier one, and never a word nobody wrote.                    *)
LateBinding ==
    \A k \in Threads :
        pc[k] \in {"read", "test", "write", "done"}
            => \E n \in DOMAIN order : n >= k /\ order[n] = active[k]

(* The client accepted last has a thread, or is the one its thread will    *)
(* find when it starts: whoever is overtaken, it is not the newest.        *)
NewestServed ==
    main \in {"accept", "spin"} /\ order # <<>> /\ pc[Len(order)] # "failed"
        => LET k == Len(order)
           IN  IF pc[k] = "start" THEN words[MaxCon] = order[k]
                                  ELSE active[k] = order[k]

Servers(c) == {k \in Threads : pc[k] # "start" /\ active[k] = c}

(* As long as no client too many was accepted, the messages of a client    *)
(* that one thread serves reach each other client in the order they were   *)
(* sent, and none twice.  A client whose descriptor happens to stand in a  *)
(* word nobody has written yet is sent a message again when a broadcast    *)
(* finds the newest client counted and its slot not filled.                *)
InOrder ==
    current_num <= MaxCon =>
        \A s \in Clients : Cardinality(Servers(s)) <= 1 =>
            \A r \in Clients \ Garbage : \A m, n \in DOMAIN got[r] :
                m < n /\ got[r][m][1] = s /\ got[r][n][1] = s
                    => got[r][m][2] < got[r][n][2]

(* The client is in the table and its slot will not change any more.       *)
Registered(c) ==
    \E n \in DOMAIN order :
        order[n] = c /\ ~(n = Len(order) /\ main = "slot")

(* A message of a client that has a thread reaches every other client that *)
(* is in the table by then, unless that one leaves or the server dies,     *)
(* also when two threads read from the same client.                        *)
Delivered ==
    \A s, r \in Clients : \A n \in 1 .. MaxSent[s] :
        s # r /\ Registered(r) /\ Servers(s) # {}
              /\ taken[s] < n /\ n <= sent[s]
            ~> \/ ~alive \/ conn[r] # "open"
               \/ \E m \in DOMAIN got[r] : got[r][m] = <<s, n>>
=============================================================================
