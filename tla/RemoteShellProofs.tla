------------------------- MODULE RemoteShellProofs -------------------------
(***************************************************************************)
(* Proofs about RemoteShell for any clients, commands, pipes and size of   *)
(* the descriptor table: the type invariant, that no wait() fails, and     *)
(* that sessions own their descriptors and their output until one of them  *)
(* comes to its second command.                                            *)
(***************************************************************************)
EXTENDS RemoteShell, FiniteSetTheorems, WellFoundedInduction, TLAPS

Served  == {"close", "output", "reply", "wait"}
Piped   == {"fork", "read"} \cup Served
Waiters == {c \in Clients : th[c].at \in Served}

(* Every client that was accepted is counted, for good.                    *)
CountInv ==
    \A c \in Clients : th[c].at # "idle" =>
        /\ no_clients >= 1
        /\ \A d \in Clients \ {c} : th[d].at # "idle" => no_clients >= 2

(* A thread forks only for a command, and has forked before it waits.      *)
ForkInv ==
    \A c \in Clients :
        /\ th[c].at \in {"idle", "first", "pipe"} => th[c].forked = 0
        /\ th[c].at \in Served \cup {"read"} => th[c].forked >= 1
        /\ th[c].at = "fork" => th[c].cmd \in Command

(* There is one child for a fork() at most.                                *)
ChildInv ==
    /\ \A k, l \in children : k.id = l.id => k = l
    /\ \A k \in children : k.id[2] <= th[k.id[1]].forked

MatchInv == IsFiniteSet(children) /\ EnoughChildren

(* No session has come to its second command, or there is only one.        *)
Orderly == Fresh \/ no_clients <= 1

(* The numbers a session holds stand for what it has opened.  That of its  *)
(* write end is stale once it was closed; when there is only one session   *)
(* it is then free for good.                                               *)
Owns(c) ==
    /\ th[c].at \notin {"idle", "gone"} => Object(th[c].sock) = Sock(c)
    /\ th[c].at \in Piped => Object(th[c].r) = Rd(c)
    /\ \/ th[c].at = "fork" /\ th[c].forked = 0
       \/ th[c].at = "close" /\ th[c].forked = 1
       => Object(th[c].w) = Wr(c)
    /\ /\ no_clients <= 1
       /\ \/ th[c].at = "fork" /\ th[c].forked > 0
          \/ th[c].at = "close" /\ th[c].forked > 1
          \/ th[c].at \in {"output", "reply", "wait", "read"}
       => Object(th[c].w) = Free

OwnInv == Orderly => \A c \in Clients : Owns(c)

(* The first line a client types is its first command, or "exit".          *)
FirstLines(c) == {<<c, 0>>, <<c, 1>>}

Typed(c) ==
    /\ th[c].at \in {"idle", "first"} =>
          IF client[c].asked = 0
          THEN stream[Sock(c)] = <<>>
          ELSE stream[Sock(c)] # <<>> /\ Head(stream[Sock(c)]) \in FirstLines(c)
    /\ th[c].at = "pipe" => th[c].cmd \in {Eof} \cup FirstLines(c)
    /\ th[c].at = "fork" /\ th[c].forked = 0 => th[c].cmd = <<c, 1>>

(* What flows to a client is output of its first command.                  *)
Flows(c) ==
    /\ stream[Rd(c)] \in Seq({<<c, 1>>}) /\ got[c] \in Seq({<<c, 1>>})
    /\ th[c].at = "reply" => th[c].buffer \in Seq({<<c, 1>>})

Feeds(k) ==
    \/ k.out = Console
    \/ k.out = Wr(k.id[1]) /\ k.prog = <<k.id[1], 1>>

FlowInv ==
    Orderly => /\ \A c \in Clients : Typed(c) /\ Flows(c)
               /\ \A k \in children : Feeds(k)

ShellInv ==
    /\ TypeOK /\ CountInv /\ ForkInv /\ ChildInv /\ MatchInv /\ OwnInv /\ FlowInv

-----------------------------------------------------------------------------
LEMMA NextCases ==
    ASSUME Next
    PROVE  \/ WildStore
           \/ \E c \in Clients :
                \/ Accept(c) \/ ReadCommand(c) \/ MakePipe(c) \/ PipeFails(c)
                \/ Fork(c) \/ ForkFails(c) \/ CloseWrite(c) \/ ReadOutput(c)
                \/ Reply(c) \/ Wait(c)
                \/ Connect(c) \/ Type(c) \/ TypeNothing(c) \/ Receive(c) \/ Leave(c)
           \/ \E k \in children : ChildWrite(k) \/ ChildExit(k)
  BY DEF Next, Thread, Children, User

(* Sockets, pipes and free entries are told apart.                         *)
LEMMA Names ==
    /\ \A c, d : Sock(c) # Rd(d) /\ Sock(c) # Wr(d) /\ Rd(c) # Wr(d)
    /\ \A c, d : /\ Sock(c) = Sock(d) => c = d
                 /\ Rd(c) = Rd(d) => c = d
                 /\ Wr(c) = Wr(d) => c = d
    /\ \A c : /\ Sock(c) # Free /\ Rd(c) # Free /\ Wr(c) # Free
              /\ Sock(c) # Console /\ Wr(c) # Console
    /\ \A c : /\ Sock(c)[1] = "sock" /\ Rd(c)[1] = "r" /\ Wr(c)[1] = "w"
              /\ Sock(c)[2] = c /\ Rd(c)[2] = c /\ Wr(c)[2] = c
    /\ Free[1] = "free" /\ Console[1] = "console"
  BY DEF Sock, Rd, Wr, Free, Console

LEMMA ObjectType ==
    ASSUME TypeOK, NEW f
    PROVE  \/ Object(f) = Free
           \/ \E d \in Clients : Object(f) \in {Sock(d), Rd(d), Wr(d)}
<1>1. Object(f) \in {Free} \cup Streams \cup Writable
  BY DEF TypeOK, Object
<1> QED
  BY <1>1 DEF Streams, Writable

(* The lowest of some descriptors is one of them.                          *)
LEMMA LowestIn ==
    ASSUME NEW S, S \subseteq Nat, S # {}
    PROVE  Lowest(S) \in S
<1> DEFINE Less == {p \in Nat \X Nat : p[1] < p[2]}
<1>1. PICK n \in S : \A m \in S : ~(<<m, n>> \in Less)
  <2>1. IsWellFoundedOn(Less, Nat)
    BY NatLessThanWellFounded DEF OpToRel
  <2> HIDE DEF Less
  <2> QED
    BY <2>1, WFMin
<1>2. ASSUME NEW m \in S PROVE n <= m
  <2>1. m \in Nat /\ n \in Nat /\ ~(<<m, n>> \in Less)
    BY <1>1
  <2> QED
    BY <2>1
<1>3. \E k \in S : \A m \in S : k <= m
  BY <1>2
<1> QED
  BY <1>3 DEF Lowest

LEMMA FreeLowest ==
    /\ FreeFds \subseteq Fds /\ FreeFds \subseteq Nat /\ IsFiniteSet(FreeFds)
    /\ FreeFds # {} => Lowest(FreeFds) \in FreeFds
    /\ Cardinality(FreeFds) >= 2 =>
          /\ Lowest(FreeFds) \in FreeFds
          /\ Lowest(FreeFds \ {Lowest(FreeFds)}) \in FreeFds \ {Lowest(FreeFds)}
<1>1. FreeFds \subseteq Fds /\ Fds \subseteq Nat
  BY ShellAssumption DEF FreeFds, Fds
<1>2. IsFiniteSet(FreeFds)
  <2>1. IsFiniteSet(Fds)
    BY FS_Interval, ShellAssumption DEF Fds
  <2> QED
    BY <1>1, <2>1, FS_Subset
<1>3. FreeFds # {} => Lowest(FreeFds) \in FreeFds
  BY <1>1, LowestIn
<1>4. ASSUME Cardinality(FreeFds) >= 2
      PROVE  /\ Lowest(FreeFds) \in FreeFds
             /\ Lowest(FreeFds \ {Lowest(FreeFds)}) \in FreeFds \ {Lowest(FreeFds)}
  <2> DEFINE r == Lowest(FreeFds)
  <2>1. r \in FreeFds
    BY <1>2, <1>3, <1>4, FS_EmptySet
  <2>2. Cardinality(FreeFds \ {r}) = Cardinality(FreeFds) - 1 /\ IsFiniteSet(FreeFds \ {r})
    BY <1>2, <2>1, FS_RemoveElement
  <2>3. Cardinality(FreeFds) \in Nat
    BY <1>2, FS_CardinalityType
  <2>4. FreeFds \ {r} # {}
    BY <1>4, <2>2, <2>3, FS_EmptySet
  <2>5. FreeFds \ {r} \subseteq Nat
    BY <1>1
  <2> HIDE DEF r
  <2>6. Lowest(FreeFds \ {r}) \in FreeFds \ {r}
    BY <2>4, <2>5, LowestIn
  <2> QED
    BY <2>1, <2>6 DEF r
<1> QED
  BY <1>1, <1>2, <1>3, <1>4

(* What each action of the thread of client c makes of its state; every    *)
(* other thread stays as it is.                                            *)
OthersStay(c) == \A d \in Clients \ {c} : th'[d] = th[d]

Moved(c, at, sock, r, w, cmd, forked, buffer) ==
    /\ th' \in [Clients -> ThreadState]
    /\ th'[c].at = at /\ th'[c].sock = sock /\ th'[c].r = r /\ th'[c].w = w
    /\ th'[c].cmd = cmd /\ th'[c].forked = forked /\ th'[c].buffer = buffer
    /\ OthersStay(c)

Goes(c, to) ==
    Moved(c, to, th[c].sock, th[c].r, th[c].w, th[c].cmd, th[c].forked, th[c].buffer)

LEMMA AcceptMoves ==
    ASSUME TypeOK, NEW c \in Clients, Accept(c)
    PROVE  /\ th[c].at = "idle" /\ FreeFds # {} /\ client[c].at # "away"
           /\ \/ /\ Moved(c, "first", Lowest(FreeFds), th[c].r, th[c].w,
                           th[c].cmd, th[c].forked, th[c].buffer)
                 /\ table' = [table EXCEPT ![Lowest(FreeFds)] = Sock(c)]
              \/ Goes(c, "gone") /\ UNCHANGED table
<1>1. th \in [Clients -> ThreadState] /\ th[c].at = "idle" /\ FreeFds # {}
  BY DEF TypeOK, Accept, Waiting
<1>2. Lowest(FreeFds) \in Fds /\ Fds = 1 .. MaxFd
  BY <1>1, FreeLowest DEF Fds
<1> PICK f \in Fds : f = Lowest(FreeFds)
  BY <1>2
<1>3. f \in 0 .. MaxFd
  BY <1>2, ShellAssumption
<1>4. CASE th' = [th EXCEPT ![c].at = "first", ![c].sock = f]
  <2>1. Moved(c, "first", f, th[c].r, th[c].w, th[c].cmd, th[c].forked, th[c].buffer)
    BY <1>1, <1>3, <1>4 DEF Moved, OthersStay, ThreadState
  <2>2. table' = [table EXCEPT ![f] = Sock(c)]
    BY <1>1, <1>4 DEF Accept, ThreadState
  <2> QED
    BY <1>1, <2>1, <2>2 DEF Accept, Waiting
<1>5. CASE th' = [th EXCEPT ![c].at = "gone"]
  <2>1. Goes(c, "gone")
    BY <1>1, <1>5 DEF Goes, Moved, OthersStay, ThreadState
  <2>2. th'[c].at = "gone"
    BY <2>1 DEF Goes, Moved
  <2>3. UNCHANGED table
    BY <1>1, <2>2 DEF Accept, ThreadState
  <2> QED
    BY <1>1, <2>1, <2>3 DEF Accept, Waiting
<1> QED
  BY <1>4, <1>5 DEF Accept

LEMMA Transits ==
    ASSUME TypeOK, NEW c \in Clients, NEW from,
           NEW to \in {"output", "read", "gone"}, Transition(c, from, to)
    PROVE  th[c].at = from /\ Goes(c, to)
<1>1. th \in [Clients -> ThreadState]
  BY DEF TypeOK
<1> QED
  BY <1>1 DEF Transition, Goes, Moved, OthersStay, ThreadState

LEMMA AfterType == \A t : After(t) \in {"gone", "fork"}
  BY DEF After

LEMMA HasReadMoves ==
    ASSUME TypeOK, NEW c \in Clients, NEW t \in Command \cup {Eof}, HasRead(c, t)
    PROVE  Moved(c, IF th[c].at = "first" THEN "pipe" ELSE After(t),
                 th[c].sock, th[c].r, th[c].w, t, th[c].forked, th[c].buffer)
<1>1. th \in [Clients -> ThreadState]
  BY DEF TypeOK
<1> PICK a : a = IF th[c].at = "first" THEN "pipe" ELSE After(t)
  OBVIOUS
<1>2. a \in {"pipe", "gone", "fork"}
  BY AfterType
<1>3. th' = [th EXCEPT ![c].cmd = t, ![c].at = a]
  BY <1>1 DEF HasRead, ThreadState
<1>4. Moved(c, a, th[c].sock, th[c].r, th[c].w, t, th[c].forked, th[c].buffer)
  BY <1>1, <1>2, <1>3, ZenonT(30) DEF Moved, OthersStay, ThreadState
<1> QED
  BY <1>4

LEMMA MakePipeMoves ==
    ASSUME TypeOK, NEW c \in Clients, MakePipe(c)
    PROVE  \E r \in FreeFds, w \in FreeFds :
              /\ th[c].at = "pipe" /\ r # w
              /\ Moved(c, After(th[c].cmd), th[c].sock, r, w, th[c].cmd, th[c].forked,
                       th[c].buffer)
              /\ table' = [table EXCEPT ![r] = Rd(c), ![w] = Wr(c)]
<1>1. th \in [Clients -> ThreadState] /\ th[c].at = "pipe"
  BY DEF TypeOK, MakePipe
<1> PICK r \in FreeFds : r = Lowest(FreeFds)
  BY FreeLowest DEF MakePipe
<1> PICK w \in FreeFds \ {r} : w = Lowest(FreeFds \ {r})
  BY FreeLowest DEF MakePipe
<1>2. r \in 0 .. MaxFd /\ w \in 0 .. MaxFd
  BY FreeLowest, ShellAssumption DEF Fds
<1>3. /\ SetPipe(c, r, w)
      /\ table' = [table EXCEPT ![r] = Rd(c), ![w] = Wr(c)]
  BY DEF MakePipe
<1> PICK a \in {"gone", "fork"} : a = After(th[c].cmd)
  BY AfterType
<1>4. th' = [th EXCEPT ![c].r = r, ![c].w = w, ![c].at = a]
  BY <1>3 DEF SetPipe
<1> DEFINE new == [th[c] EXCEPT !.r = r, !.w = w, !.at = a]
<1>5. /\ new \in ThreadState
      /\ new.at = a /\ new.sock = th[c].sock /\ new.r = r /\ new.w = w
      /\ new.cmd = th[c].cmd /\ new.forked = th[c].forked /\ new.buffer = th[c].buffer
  BY <1>1, <1>2 DEF ThreadState
<1>6. th' = [th EXCEPT ![c] = new]
  BY <1>1, <1>4
<1> HIDE DEF new
<1>7. Moved(c, a, th[c].sock, r, w, th[c].cmd, th[c].forked, th[c].buffer)
  BY <1>1, <1>5, <1>6 DEF Moved, OthersStay
<1> QED
  BY <1>1, <1>3, <1>7

LEMMA ForkMoves ==
    ASSUME TypeOK, NEW c \in Clients, Fork(c)
    PROVE  /\ th[c].at = "fork"
           /\ Moved(c, "close", th[c].sock, th[c].r, th[c].w, th[c].cmd,
                    th[c].forked + 1, th[c].buffer)
<1>1. th \in [Clients -> ThreadState] /\ th[c].forked \in Nat
  BY DEF TypeOK, ThreadState
<1>2. th' = [th EXCEPT ![c].at = "close", ![c].forked = @ + 1] /\ th[c].at = "fork"
  BY DEF Fork
<1> QED
  BY <1>1, <1>2 DEF Moved, OthersStay, ThreadState

(* One read() takes the first n chunks of the stream that is there.        *)
LEMMA ReadOutputMoves ==
    ASSUME TypeOK, NEW c \in Clients, ReadOutput(c)
    PROVE  \/ Goes(c, "gone") /\ UNCHANGED stream
           \/ \E s \in Streams, n \in Nat :
                /\ s = Object(th[c].r) /\ n <= Len(stream[s])
                /\ stream' = [stream EXCEPT ![s] = SubSeq(@, n + 1, Len(@))]
                /\ Moved(c, "reply", th[c].sock, th[c].r, th[c].w, th[c].cmd,
                         th[c].forked, SubSeq(stream[s], 1, n))
<1>1. th \in [Clients -> ThreadState]
  BY DEF TypeOK
<1> PICK s : s = Object(th[c].r)
  OBVIOUS
<1>2. CASE s \notin Streams
  BY <1>1, <1>2 DEF ReadOutput, Goes, Moved, OthersStay, ThreadState
<1>3. CASE s \in Streams
  <2>1. stream[s] \in Seq(Command)
    BY <1>3 DEF TypeOK
  <2>2. PICK n \in IF stream[s] = <<>> THEN {0} ELSE 1 .. Len(stream[s]) :
          /\ th' = [th EXCEPT ![c].at = "reply", ![c].buffer = SubSeq(stream[s], 1, n)]
          /\ stream' = [stream EXCEPT ![s] = SubSeq(@, n + 1, Len(@))]
    BY <1>3 DEF ReadOutput
  <2>3. n \in Nat /\ n <= Len(stream[s])
    BY <2>1
  <2>4. SubSeq(stream[s], 1, n) \in Seq(Command)
    BY <2>1, <2>3
  <2> PICK b \in Seq(Command) : b = SubSeq(stream[s], 1, n)
    BY <2>4
  <2>5. th' = [th EXCEPT ![c].at = "reply", ![c].buffer = b]
    BY <2>2
  <2>6. Moved(c, "reply", th[c].sock, th[c].r, th[c].w, th[c].cmd, th[c].forked, b)
    BY <1>1, <2>5 DEF Moved, OthersStay, ThreadState
  <2> QED
    BY <1>3, <2>2, <2>3, <2>6
<1> QED
  BY <1>2, <1>3

LEMMA ReplyMoves ==
    ASSUME TypeOK, NEW c \in Clients, Reply(c)
    PROVE  /\ th[c].at = "reply"
           /\ Moved(c, "wait", th[c].sock, th[c].r, th[c].w, th[c].cmd, th[c].forked, <<>>)
<1>1. th \in [Clients -> ThreadState] /\ <<>> \in Seq(Command)
  BY DEF TypeOK
<1>2. th' = [th EXCEPT ![c].at = "wait", ![c].buffer = <<>>] /\ th[c].at = "reply"
  BY DEF Reply
<1> QED
  BY <1>1, <1>2 DEF Moved, OthersStay, ThreadState

(* What the actions do to the streams, the clients and the children.       *)
LEMMA ReadsStream ==
    ASSUME TypeOK, NEW c \in Clients, ReadCommand(c)
    PROVE  /\ th[c].at \in {"first", "read"}
           /\ \/ HasRead(c, Eof) /\ UNCHANGED stream
              \/ \E s \in Streams, t \in Command, n \in Nat :
                   /\ s = Object(th[c].sock) /\ t = Head(stream[s])
                   /\ stream[s] # <<>> /\ n <= Len(stream[s])
                   /\ stream' = [stream EXCEPT ![s] = SubSeq(@, n + 1, Len(@))]
                   /\ HasRead(c, t)
<1> PICK s : s = Object(th[c].sock)
  OBVIOUS
<1>1. th[c].at \in {"first", "read"}
  BY DEF ReadCommand
<1>2. CASE HasRead(c, Eof) /\ UNCHANGED stream
  BY <1>1, <1>2
<1>3. CASE /\ s \in Streams
           /\ \E n \in 1 .. Len(stream[s]) :
                 stream' = [stream EXCEPT ![s] = SubSeq(@, n + 1, Len(@))]
           /\ HasRead(c, Head(stream[s]))
  <2>1. stream[s] \in Seq(Command)
    BY <1>3 DEF TypeOK
  <2>2. PICK n \in 1 .. Len(stream[s]) :
          stream' = [stream EXCEPT ![s] = SubSeq(@, n + 1, Len(@))]
    BY <1>3
  <2>3. stream[s] # <<>> /\ n \in Nat /\ n <= Len(stream[s])
    BY <2>1
  <2>4. Head(stream[s]) \in Command
    BY <2>1, <2>3
  <2> PICK t \in Command : t = Head(stream[s])
    BY <2>4
  <2>5. HasRead(c, t)
    BY <1>3 DEF HasRead
  <2> QED
    BY <1>1, <1>3, <2>2, <2>3, <2>5
<1> QED
  BY <1>2, <1>3 DEF ReadCommand

LEMMA ToClientGives ==
    ASSUME TypeOK, NEW d \in Clients, NEW data \in Seq(Command), ToClient(d, data)
    PROVE  /\ got' \in [Clients -> Seq(Command)]
           /\ \A e \in Clients \ {d} : got'[e] = got[e]
           /\ got'[d] = got[d] \/ got'[d] = got[d] \o data
<1>1. got \in [Clients -> Seq(Command)] /\ got[d] \o data \in Seq(Command)
  BY DEF TypeOK
<1> QED
  BY <1>1 DEF ToClient

LEMMA ReplyGoes ==
    ASSUME TypeOK, NEW c \in Clients, Reply(c)
    PROVE  \/ UNCHANGED <<stream, got>>
           \/ \E d \in Clients : /\ Object(th[c].sock) = Sock(d)
                                 /\ ToClient(d, th[c].buffer) /\ UNCHANGED stream
           \/ \E d \in Clients :
                /\ Object(th[c].sock) = Wr(d)
                /\ stream' = [stream EXCEPT ![Rd(d)] = @ \o th[c].buffer]
                /\ UNCHANGED got
<1> PICK o : o = Object(th[c].sock)
  OBVIOUS
<1>1. o = Free \/ \E d \in Clients : o \in {Sock(d), Rd(d), Wr(d)}
  BY ObjectType
<1>2. CASE UNCHANGED <<stream, got>>
  BY <1>2
<1>3. CASE o[1] = "sock" /\ ToClient(o[2], th[c].buffer) /\ UNCHANGED stream
  <2>1. PICK d \in Clients : o = Sock(d)
    BY <1>1, <1>3, Names
  <2>2. ToClient(d, th[c].buffer)
    <3>1. o[2] = d
      BY <2>1, Names
    <3>2. got' = IF client[o[2]].at = "left" THEN got
                 ELSE [got EXCEPT ![o[2]] = @ \o th[c].buffer]
      BY <1>3 DEF ToClient
    <3> QED
      BY <3>1, <3>2 DEF ToClient
  <2> QED
    BY <1>3, <2>1, <2>2
<1>4. CASE o[1] = "w" /\ stream' = [stream EXCEPT ![Rd(o[2])] = @ \o th[c].buffer]
                    /\ UNCHANGED got
  <2>1. PICK d \in Clients : o = Wr(d)
    BY <1>1, <1>4, Names
  <2>2. stream' = [stream EXCEPT ![Rd(d)] = @ \o th[c].buffer]
    BY <1>4, <2>1, Names
  <2> QED
    BY <1>4, <2>1, <2>2
<1> QED
  BY <1>2, <1>3, <1>4 DEF Reply

LEMMA WriteGoes ==
    ASSUME TypeOK, NEW k \in children, ChildWrite(k)
    PROVE  \/ UNCHANGED <<stream, got>>
           \/ \E d \in Clients : /\ k.out = Sock(d)
                                 /\ ToClient(d, <<k.prog>>) /\ UNCHANGED stream
           \/ \E d \in Clients :
                /\ k.out = Wr(d)
                /\ stream' = [stream EXCEPT ![Rd(d)] = Append(@, k.prog)]
                /\ UNCHANGED got
<1>1. k.out = Console \/ \E d \in Clients : k.out \in {Sock(d), Wr(d)}
  BY DEF TypeOK, ChildProcess, Writable
<1>2. CASE UNCHANGED <<stream, got>>
  BY <1>2
<1>3. CASE k.out[1] = "sock" /\ ToClient(k.out[2], <<k.prog>>) /\ UNCHANGED stream
  <2>1. PICK d \in Clients : k.out = Sock(d)
    BY <1>1, <1>3, Names
  <2>2. ToClient(d, <<k.prog>>)
    <3>1. k.out[2] = d
      BY <2>1, Names
    <3>2. got' = IF client[k.out[2]].at = "left" THEN got
                 ELSE [got EXCEPT ![k.out[2]] = @ \o <<k.prog>>]
      BY <1>3 DEF ToClient
    <3> QED
      BY <3>1, <3>2 DEF ToClient
  <2> QED
    BY <1>3, <2>1, <2>2
<1>4. CASE k.out[1] = "w" /\ stream' = [stream EXCEPT ![Rd(k.out[2])] = Append(@, k.prog)]
                        /\ UNCHANGED got
  <2>1. PICK d \in Clients : k.out = Wr(d)
    BY <1>1, <1>4, Names
  <2>2. stream' = [stream EXCEPT ![Rd(d)] = Append(@, k.prog)]
    BY <1>4, <2>1, Names
  <2> QED
    BY <1>4, <2>1, <2>2
<1> QED
  BY <1>2, <1>3, <1>4 DEF ChildWrite

LEMMA ForkChild ==
    ASSUME TypeOK, ForkInv, NEW c \in Clients, Fork(c)
    PROVE  \E kid \in ChildProcess :
              /\ children' = children \cup {kid}
              /\ kid.id = <<c, th[c].forked + 1>> /\ kid.prog = th[c].cmd
              /\ kid.out = IF Object(th[c].w)[1] \in {"w", "sock"}
                           THEN Object(th[c].w) ELSE Console
<1>1. PICK n \in Outputs : children' = children \cup {Child(c, n)}
  BY DEF Fork
<1>2. th[c].cmd \in Command /\ th[c].forked \in Nat
  BY DEF TypeOK, ThreadState, ForkInv, Fork
<1> PICK o : o = IF Object(th[c].w)[1] \in {"w", "sock"}
                 THEN Object(th[c].w) ELSE Console
  OBVIOUS
<1>3. o \in {Console} \cup Writable
  BY ObjectType, Names DEF Writable
<1> PICK h : h = {d \in Clients : \E f \in Fds : table[f] = Wr(d)}
  OBVIOUS
<1>4. Child(c, n) = [id |-> <<c, th[c].forked + 1>>, prog |-> th[c].cmd, left |-> n,
                     out |-> o, holds |-> h, state |-> "running"]
  BY DEF Child
<1>5. <<c, th[c].forked + 1>> \in Command /\ n \in Nat /\ h \subseteq Clients
  BY <1>2, ShellAssumption DEF Command
<1>6. Child(c, n) \in ChildProcess
  BY <1>2, <1>3, <1>4, <1>5 DEF ChildProcess
<1>7. /\ Child(c, n).id = <<c, th[c].forked + 1>> /\ Child(c, n).prog = th[c].cmd
      /\ Child(c, n).out = o
  BY <1>4
<1> QED
  BY <1>1, <1>6, <1>7

(* A child that is replaced keeps its name, its command and its output.    *)
LEMMA SameChild ==
    ASSUME TypeOK, NEW k \in children, ChildWrite(k) \/ ChildExit(k)
    PROVE  /\ UNCHANGED <<mainVars, table, th, client>>
           /\ k.id \in Command /\ k.prog \in Command
           /\ \E new \in ChildProcess :
                 /\ children' = (children \ {k}) \cup {new}
                 /\ new.id = k.id /\ new.prog = k.prog /\ new.out = k.out
<1>1. k \in ChildProcess
  BY DEF TypeOK
<1>2. CASE ChildWrite(k)
  <2>1. k.left - 1 \in Nat
    BY <1>1, <1>2 DEF ChildWrite, ChildProcess
  <2>2. [k EXCEPT !.left = @ - 1] \in ChildProcess
    BY <1>1, <2>1 DEF ChildProcess
  <2> QED
    BY <1>1, <1>2, <2>2 DEF ChildWrite, Becomes, ChildProcess
<1>3. CASE ChildExit(k)
  <2>1. [k EXCEPT !.state = "zombie"] \in ChildProcess
    BY <1>1 DEF ChildProcess
  <2> QED
    BY <1>1, <1>3, <2>1 DEF ChildExit, Becomes, ChildProcess
<1> QED
  BY <1>2, <1>3

LEMMA CutType ==
    ASSUME NEW S, NEW s \in Seq(S), NEW n \in Nat
    PROVE  SubSeq(s, n + 1, Len(s)) \in Seq(S)
  OBVIOUS

-----------------------------------------------------------------------------
LEMMA TypeInit == Init => TypeOK
<1> SUFFICES ASSUME Init PROVE TypeOK
  OBVIOUS
<1>1. NewThread \in ThreadState
  BY ShellAssumption DEF NewThread, ThreadState
<1>2. [at |-> "away", asked |-> 0, seen |-> 0] \in
        [at : {"away", "think", "blocked", "left"}, asked : Nat, seen : Nat]
  OBVIOUS
<1> QED
  BY <1>1, <1>2, ShellAssumption DEF Init, TypeOK

LEMMA TypeStep == TypeOK /\ ForkInv /\ [Next]_vars => TypeOK'
<1> SUFFICES ASSUME TypeOK, ForkInv, [Next]_vars
             PROVE  TypeOK'
  OBVIOUS
<1> USE DEF mainVars, kernelVars
<1>1. CASE WildStore
  BY <1>1 DEF WildStore, TypeOK
<1>2. ASSUME NEW c \in Clients, Accept(c) PROVE TypeOK'
  <2>1. th' \in [Clients -> ThreadState]
    BY <1>2, AcceptMoves DEF Goes, Moved
  <2>3. table' \in [Fds -> {Free} \cup Streams \cup Writable]
    <3>1. Sock(c) \in Streams
      BY DEF Streams
    <3>2. ASSUME table' = [table EXCEPT ![Lowest(FreeFds)] = Sock(c)]
          PROVE  table' \in [Fds -> {Free} \cup Streams \cup Writable]
      BY <3>1, <3>2 DEF TypeOK
    <3>3. ASSUME UNCHANGED table
          PROVE  table' \in [Fds -> {Free} \cup Streams \cup Writable]
      BY <3>3 DEF TypeOK
    <3> QED
      BY <1>2, <3>2, <3>3, AcceptMoves
  <2>2. no_clients' \in 0 .. MaxClients + 1
    BY <1>2, ShellAssumption DEF Accept, HasPlace, TypeOK
  <2> QED
    BY <1>2, <2>1, <2>2, <2>3 DEF Accept, TypeOK
<1>3. ASSUME NEW c \in Clients, ReadCommand(c) PROVE TypeOK'
  <2>1. th' \in [Clients -> ThreadState]
    <3>1. ASSUME NEW t \in Command \cup {Eof}, HasRead(c, t)
          PROVE  th' \in [Clients -> ThreadState]
      BY <3>1, HasReadMoves DEF Moved
    <3> QED
      BY <1>3, <3>1, ReadsStream
  <2>2. stream' \in [Streams -> Seq(Command)]
    <3>1. CASE UNCHANGED stream
      BY <3>1 DEF TypeOK
    <3>2. ASSUME NEW s \in Streams, NEW n \in Nat,
                 stream' = [stream EXCEPT ![s] = SubSeq(@, n + 1, Len(@))]
          PROVE  stream' \in [Streams -> Seq(Command)]
      BY <3>2, CutType DEF TypeOK
    <3> QED
      BY <1>3, <3>1, <3>2, ReadsStream
  <2> QED
    BY <1>3, <2>1, <2>2 DEF ReadCommand, TypeOK
<1>4. ASSUME NEW c \in Clients, MakePipe(c) PROVE TypeOK'
  <2>1. Rd(c) \in Streams /\ Wr(c) \in Writable
    BY DEF Streams, Writable
  <2>2. th' \in [Clients -> ThreadState] /\ table' \in [Fds -> {Free} \cup Streams \cup Writable]
    BY <1>4, <2>1, MakePipeMoves DEF Moved, TypeOK
  <2> QED
    BY <1>4, <2>2 DEF MakePipe, TypeOK
<1>5. ASSUME NEW c \in Clients, PipeFails(c) PROVE TypeOK'
  BY <1>5, Transits DEF PipeFails, Goes, Moved, TypeOK
<1>6. ASSUME NEW c \in Clients, Fork(c) PROVE TypeOK'
  <2>1. children' \subseteq ChildProcess
    BY <1>6, ForkChild DEF TypeOK
  <2> QED
    BY <1>6, <2>1, ForkMoves DEF Fork, Moved, TypeOK
<1>7. ASSUME NEW c \in Clients, ForkFails(c) PROVE TypeOK'
  BY <1>7 DEF ForkFails, TypeOK
<1>8. ASSUME NEW c \in Clients, CloseWrite(c) PROVE TypeOK'
  BY <1>8, Transits DEF CloseWrite, Goes, Moved, TypeOK
<1>9. ASSUME NEW c \in Clients, ReadOutput(c) PROVE TypeOK'
  <2>1. th' \in [Clients -> ThreadState]
    BY <1>9, ReadOutputMoves DEF Goes, Moved
  <2>2. stream' \in [Streams -> Seq(Command)]
    <3>1. CASE UNCHANGED stream
      BY <3>1 DEF TypeOK
    <3>2. ASSUME NEW s \in Streams, NEW n \in Nat,
                 stream' = [stream EXCEPT ![s] = SubSeq(@, n + 1, Len(@))]
          PROVE  stream' \in [Streams -> Seq(Command)]
      BY <3>2, CutType DEF TypeOK
    <3> QED
      BY <1>9, <3>1, <3>2, ReadOutputMoves
  <2> QED
    BY <1>9, <2>1, <2>2 DEF ReadOutput, TypeOK
<1>10. ASSUME NEW c \in Clients, Reply(c) PROVE TypeOK'
  <2>1. th' \in [Clients -> ThreadState] /\ th[c].buffer \in Seq(Command)
    BY <1>10, ReplyMoves DEF Moved, TypeOK, ThreadState
  <2>2. got' \in [Clients -> Seq(Command)]
    BY <1>10, <2>1, ReplyGoes, ToClientGives DEF TypeOK
  <2>3. stream' \in [Streams -> Seq(Command)]
    <3>1. CASE UNCHANGED stream
      BY <3>1 DEF TypeOK
    <3>2. ASSUME NEW d \in Clients,
                 stream' = [stream EXCEPT ![Rd(d)] = @ \o th[c].buffer]
          PROVE  stream' \in [Streams -> Seq(Command)]
      <4>1. Rd(d) \in Streams /\ stream[Rd(d)] \in Seq(Command)
        BY DEF Streams, TypeOK
      <4>2. stream[Rd(d)] \o th[c].buffer \in Seq(Command)
        BY <2>1, <4>1
      <4> QED
        BY <3>2, <4>1, <4>2 DEF TypeOK
    <3> QED
      BY <1>10, <3>1, <3>2, ReplyGoes
  <2>4. alive' \in BOOLEAN
    BY <1>10 DEF Reply, TypeOK
  <2> QED
    BY <1>10, <2>1, <2>2, <2>3, <2>4 DEF Reply, TypeOK
<1>11. ASSUME NEW c \in Clients, Wait(c) PROVE TypeOK'
  <2>1. children' \subseteq ChildProcess
    BY <1>11 DEF Wait, Reaped, TypeOK
  <2> QED
    BY <1>11, <2>1, Transits DEF Wait, Goes, Moved, TypeOK
<1>12. ASSUME NEW k \in children, ChildWrite(k) \/ ChildExit(k) PROVE TypeOK'
  <2>1. children' \subseteq ChildProcess
    BY <1>12, SameChild DEF TypeOK
  <2>2. <<k.prog>> \in Seq(Command)
    BY <1>12, SameChild
  <2>3. got' \in [Clients -> Seq(Command)]
    BY <1>12, <2>2, WriteGoes, ToClientGives DEF ChildExit, TypeOK
  <2>4. stream' \in [Streams -> Seq(Command)]
    <3>1. CASE UNCHANGED stream
      BY <3>1 DEF TypeOK
    <3>2. ASSUME NEW d \in Clients,
                 stream' = [stream EXCEPT ![Rd(d)] = Append(@, k.prog)]
          PROVE  stream' \in [Streams -> Seq(Command)]
      <4>1. Rd(d) \in Streams /\ stream[Rd(d)] \in Seq(Command) /\ k.prog \in Command
        BY <1>12, SameChild DEF Streams, TypeOK
      <4> QED
        BY <3>2, <4>1 DEF TypeOK
    <3> QED
      BY <1>12, <3>1, <3>2, WriteGoes DEF ChildExit
  <2> QED
    BY <1>12, <2>1, <2>3, <2>4, SameChild DEF TypeOK
<1>13. ASSUME NEW c \in Clients, Connect(c) \/ TypeNothing(c) \/ Leave(c) PROVE TypeOK'
  BY <1>13, ZenonT(30) DEF Connect, TypeNothing, Leave, Moves, TypeOK
<1>14. ASSUME NEW c \in Clients, Type(c) PROVE TypeOK'
  <2>1. Sock(c) \in Streams /\ stream[Sock(c)] \in Seq(Command) /\ client[c].asked \in Nat
    BY DEF Streams, TypeOK
  <2>2. PICK n \in {client[c].asked + 1, 0} :
          stream' = [stream EXCEPT ![Sock(c)] = Append(@, <<c, n>>)]
    BY <1>14 DEF Type
  <2>3. <<c, n>> \in Command
    BY <2>1 DEF Command
  <2>4. stream' \in [Streams -> Seq(Command)]
    BY <2>1, <2>2, <2>3 DEF TypeOK
  <2> PICK m \in Nat : m = client[c].asked + 1
    BY <2>1
  <2>5. client' = [client EXCEPT ![c].at = "blocked", ![c].asked = m]
    BY <1>14 DEF Type
  <2>6. client' \in [Clients -> [at : {"away", "think", "blocked", "left"},
                                 asked : Nat, seen : Nat]]
    BY <2>1, <2>5 DEF TypeOK
  <2> QED
    BY <1>14, <2>4, <2>6 DEF Type, TypeOK
<1>15. ASSUME NEW c \in Clients, Receive(c) PROVE TypeOK'
  <2>1. Len(got[c]) \in Nat
    BY DEF TypeOK
  <2>2. client' = [client EXCEPT ![c].at = "think", ![c].seen = Len(got[c])]
    BY <1>15 DEF Receive
  <2>3. client' \in [Clients -> [at : {"away", "think", "blocked", "left"},
                                 asked : Nat, seen : Nat]]
    BY <2>1, <2>2 DEF TypeOK
  <2> QED
    BY <1>15, <2>3 DEF Receive, TypeOK
<1>16. CASE UNCHANGED vars
  BY <1>16 DEF vars, TypeOK
<1> QED
  BY <1>1, <1>2, <1>3, <1>4, <1>5, <1>6, <1>7, <1>8, <1>9, <1>10, <1>11, <1>12,
     <1>13, <1>14, <1>15, <1>16, NextCases

-----------------------------------------------------------------------------
(* Only Accept wakes a thread.                                             *)
LEMMA StaysIdle ==
    ASSUME TypeOK, [Next]_vars
    PROVE  \/ \E c \in Clients : Accept(c)
           \/ /\ UNCHANGED no_clients
              /\ \A d \in Clients : th[d].at = "idle" => th'[d].at = "idle"
<1> DEFINE Still == /\ UNCHANGED no_clients
                    /\ \A d \in Clients : th[d].at = "idle" => th'[d].at = "idle"
<1> USE DEF mainVars
<1>1. CASE WildStore
  BY <1>1 DEF WildStore
<1>2. ASSUME NEW c \in Clients, ReadCommand(c) PROVE Still
  <2>1. th[c].at # "idle" /\ UNCHANGED no_clients
    BY <1>2 DEF ReadCommand
  <2>2. ASSUME NEW t \in Command \cup {Eof}, HasRead(c, t) PROVE OthersStay(c)
    BY <2>2, HasReadMoves DEF Moved
  <2>3. OthersStay(c)
    BY <1>2, <2>2, ReadsStream
  <2> QED
    BY <2>1, <2>3 DEF OthersStay
<1>3. ASSUME NEW c \in Clients, MakePipe(c) PROVE Still
  BY <1>3, MakePipeMoves DEF MakePipe, Moved, OthersStay
<1>4. ASSUME NEW c \in Clients, PipeFails(c) PROVE Still
  BY <1>4, Transits DEF PipeFails, Goes, Moved, OthersStay
<1>5. ASSUME NEW c \in Clients, Fork(c) PROVE Still
  BY <1>5, ForkMoves DEF Fork, Moved, OthersStay
<1>6. ASSUME NEW c \in Clients, ForkFails(c) PROVE Still
  BY <1>6 DEF ForkFails
<1>7. ASSUME NEW c \in Clients, CloseWrite(c) PROVE Still
  BY <1>7, Transits DEF CloseWrite, Goes, Moved, OthersStay
<1>8. ASSUME NEW c \in Clients, ReadOutput(c) PROVE Still
  <2>1. th[c].at = "output" /\ UNCHANGED no_clients
    BY <1>8 DEF ReadOutput
  <2>2. OthersStay(c)
    BY <1>8, ReadOutputMoves DEF Goes, Moved
  <2> QED
    BY <2>1, <2>2 DEF OthersStay
<1>9. ASSUME NEW c \in Clients, Reply(c) PROVE Still
  BY <1>9, ReplyMoves DEF Reply, Moved, OthersStay
<1>10. ASSUME NEW c \in Clients, Wait(c) PROVE Still
  BY <1>10, Transits DEF Wait, Goes, Moved, OthersStay
<1>11. ASSUME NEW k \in children, ChildWrite(k) \/ ChildExit(k) PROVE Still
  BY <1>11 DEF ChildWrite, ChildExit, Becomes
<1>12. ASSUME NEW c \in Clients,
              Connect(c) \/ Type(c) \/ TypeNothing(c) \/ Receive(c) \/ Leave(c)
       PROVE  Still
  BY <1>12 DEF Connect, Type, TypeNothing, Receive, Leave
<1>13. CASE UNCHANGED vars
  BY <1>13 DEF vars
<1> HIDE DEF Still
<1>14. (\E c \in Clients : Accept(c)) \/ Still
  BY <1>1, <1>2, <1>3, <1>4, <1>5, <1>6, <1>7, <1>8, <1>9, <1>10, <1>11, <1>12,
     <1>13, NextCases DEF Still
<1> QED
  BY <1>14 DEF Still

LEMMA CountStep == TypeOK /\ CountInv /\ [Next]_vars => CountInv'
<1> SUFFICES ASSUME TypeOK, CountInv, [Next]_vars
             PROVE  CountInv'
  OBVIOUS
<1>1. ASSUME NEW c \in Clients, Accept(c) PROVE CountInv'
  <2>1. no_clients' = no_clients + 1 /\ no_clients \in Nat
    BY <1>1 DEF Accept, TypeOK
  <2>2. \A d \in Clients \ {c} : th'[d].at = th[d].at
    BY <1>1, AcceptMoves DEF Goes, Moved, OthersStay
  <2>3. \A d \in Clients \ {c} : th'[d].at # "idle" => no_clients >= 1
    BY <2>2 DEF CountInv
  <2>4. no_clients' >= 1
    BY <2>1
  <2>5. ASSUME NEW d \in Clients, th'[d].at # "idle",
               NEW e \in Clients \ {d}, th'[e].at # "idle"
        PROVE  no_clients' >= 2
    <3>1. d # c \/ e # c
      BY <2>5
    <3> QED
      BY <2>1, <2>3, <2>5, <3>1
  <2> QED
    BY <2>4, <2>5 DEF CountInv
<1>2. CASE /\ UNCHANGED no_clients
           /\ \A d \in Clients : th[d].at = "idle" => th'[d].at = "idle"
  BY <1>2 DEF CountInv
<1> QED
  BY <1>1, <1>2, StaysIdle

LEMMA ForkStep == TypeOK /\ ForkInv /\ [Next]_vars => ForkInv'
<1> SUFFICES ASSUME TypeOK, ForkInv, [Next]_vars
             PROVE  ForkInv'
  OBVIOUS
<1> DEFINE Forked(t) ==
      /\ t.at \in {"idle", "first", "pipe"} => t.forked = 0
      /\ t.at \in Served \cup {"read"} => t.forked >= 1
      /\ t.at = "fork" => t.cmd \in Command
<1>1. \A c \in Clients : Forked(th[c]) /\ th[c].forked \in Nat /\ th[c].cmd \in Command \cup {Eof}
  BY DEF ForkInv, TypeOK, ThreadState
<1>2. ASSUME NEW c \in Clients, OthersStay(c), Forked(th'[c]) PROVE ForkInv'
  BY <1>1, <1>2 DEF OthersStay, ForkInv
<1>3. \A t : After(t) = "fork" => t # Eof
  BY DEF After
<1>4. ASSUME UNCHANGED th PROVE ForkInv'
  BY <1>4 DEF ForkInv
<1> USE DEF Served
<1>5. ASSUME NEW c \in Clients, Accept(c) PROVE ForkInv'
  BY <1>1, <1>2, <1>5, AcceptMoves DEF Goes, Moved
<1>6. ASSUME NEW c \in Clients, ReadCommand(c) PROVE ForkInv'
  <2>1. th[c].at \in {"first", "read"}
    BY <1>6 DEF ReadCommand
  <2>2. ASSUME NEW t \in Command \cup {Eof}, HasRead(c, t) PROVE ForkInv'
    <3>1. Moved(c, IF th[c].at = "first" THEN "pipe" ELSE After(t),
                th[c].sock, th[c].r, th[c].w, t, th[c].forked, th[c].buffer)
      BY <2>2, HasReadMoves
    <3>2. After(t) \in {"gone", "fork"}
      BY AfterType
    <3> QED
      BY <1>1, <1>2, <1>3, <2>1, <3>1, <3>2 DEF Moved
  <2> QED
    BY <1>6, <2>2, ReadsStream
<1>7. ASSUME NEW c \in Clients, MakePipe(c) PROVE ForkInv'
  <2>1. After(th[c].cmd) \in {"gone", "fork"}
    BY AfterType
  <2> QED
    BY <1>1, <1>2, <1>3, <1>7, <2>1, MakePipeMoves DEF Moved
<1>8. ASSUME NEW c \in Clients, PipeFails(c) PROVE ForkInv'
  BY <1>1, <1>2, <1>8, Transits DEF PipeFails, Goes, Moved
<1>9. ASSUME NEW c \in Clients, Fork(c) PROVE ForkInv'
  BY <1>1, <1>2, <1>9, ForkMoves DEF Moved
<1>10. ASSUME NEW c \in Clients, CloseWrite(c) PROVE ForkInv'
  BY <1>1, <1>2, <1>10, Transits DEF CloseWrite, Goes, Moved
<1>11. ASSUME NEW c \in Clients, ReadOutput(c) PROVE ForkInv'
  <2>1. th[c].at = "output"
    BY <1>11 DEF ReadOutput
  <2> QED
    BY <1>1, <1>2, <1>11, <2>1, ReadOutputMoves DEF Goes, Moved
<1>12. ASSUME NEW c \in Clients, Reply(c) PROVE ForkInv'
  BY <1>1, <1>2, <1>12, ReplyMoves DEF Moved
<1>13. ASSUME NEW c \in Clients, Wait(c) PROVE ForkInv'
  BY <1>1, <1>2, <1>13, Transits DEF Wait, Goes, Moved
<1>14. ASSUME NEW k \in children, ChildWrite(k) \/ ChildExit(k) PROVE ForkInv'
  BY <1>4, <1>14 DEF ChildWrite, ChildExit, Becomes
<1>15. ASSUME NEW c \in Clients,
              Connect(c) \/ Type(c) \/ TypeNothing(c) \/ Receive(c) \/ Leave(c)
       PROVE  ForkInv'
  BY <1>4, <1>15 DEF Connect, Type, TypeNothing, Receive, Leave
<1>16. CASE WildStore
  BY <1>4, <1>16 DEF WildStore
<1>17. ASSUME NEW c \in Clients, ForkFails(c) PROVE ForkInv'
  BY <1>4, <1>17 DEF ForkFails
<1>18. CASE UNCHANGED vars
  BY <1>4, <1>18 DEF vars
<1> QED
  BY <1>5, <1>6, <1>7, <1>8, <1>9, <1>10, <1>11, <1>12, <1>13, <1>14, <1>15,
     <1>16, <1>17, <1>18, NextCases

-----------------------------------------------------------------------------
LEMMA ChildStep == TypeOK /\ ForkInv /\ ChildInv /\ [Next]_vars => ChildInv'
<1> SUFFICES ASSUME TypeOK, ForkInv, ChildInv, [Next]_vars
             PROVE  ChildInv'
  OBVIOUS
<1> USE DEF mainVars, kernelVars
<1>1. \A k \in children : k.id[1] \in Clients /\ k.id[2] \in Nat
  BY DEF TypeOK, ChildProcess, Command
<1>2. ASSUME children' \subseteq children,
             \A d \in Clients : th'[d].forked = th[d].forked
      PROVE  ChildInv'
  BY <1>1, <1>2 DEF ChildInv
<1>3. ASSUME UNCHANGED children, NEW c \in Clients, OthersStay(c),
             th'[c].forked = th[c].forked
      PROVE  ChildInv'
  BY <1>2, <1>3 DEF OthersStay
<1>4. ASSUME UNCHANGED <<children, th>> PROVE ChildInv'
  BY <1>2, <1>4
<1>5. ASSUME NEW c \in Clients, Accept(c) PROVE ChildInv'
  BY <1>3, <1>5, AcceptMoves DEF Accept, Goes, Moved
<1>6. ASSUME NEW c \in Clients, ReadCommand(c) PROVE ChildInv'
  <2>1. UNCHANGED children
    BY <1>6 DEF ReadCommand
  <2>2. ASSUME NEW t \in Command \cup {Eof}, HasRead(c, t) PROVE ChildInv'
    BY <1>3, <2>1, <2>2, HasReadMoves DEF Moved
  <2> QED
    BY <1>6, <2>2, ReadsStream
<1>7. ASSUME NEW c \in Clients, MakePipe(c) PROVE ChildInv'
  BY <1>3, <1>7, MakePipeMoves DEF MakePipe, Moved
<1>8. ASSUME NEW c \in Clients, PipeFails(c) PROVE ChildInv'
  BY <1>3, <1>8, Transits DEF PipeFails, Goes, Moved
<1>9. ASSUME NEW c \in Clients, Fork(c) PROVE ChildInv'
  <2>1. PICK kid \in ChildProcess : children' = children \cup {kid}
                                    /\ kid.id = <<c, th[c].forked + 1>>
    BY <1>9, ForkChild
  <2>2. /\ th'[c].forked = th[c].forked + 1 /\ th[c].forked \in Nat
        /\ \A d \in Clients \ {c} : th'[d].forked = th[d].forked
    BY <1>9, ForkMoves, SMTT(30) DEF Moved, OthersStay, TypeOK, ThreadState
  <2>3. ASSUME NEW k \in children
        PROVE  k.id # kid.id /\ k.id[2] <= th'[k.id[1]].forked
    BY <1>1, <2>1, <2>2 DEF ChildInv
  <2>4. kid.id[2] <= th'[kid.id[1]].forked
    BY <2>1, <2>2
  <2>5. ASSUME NEW k \in children', NEW l \in children', k.id = l.id PROVE k = l
    BY <2>1, <2>3, <2>5 DEF ChildInv
  <2>6. ASSUME NEW k \in children' PROVE k.id[2] <= th'[k.id[1]].forked
    BY <2>1, <2>3, <2>4
  <2> QED
    BY <2>5, <2>6 DEF ChildInv
<1>10. ASSUME NEW c \in Clients, CloseWrite(c) PROVE ChildInv'
  BY <1>3, <1>10, Transits DEF CloseWrite, Goes, Moved
<1>11. ASSUME NEW c \in Clients, ReadOutput(c) PROVE ChildInv'
  BY <1>3, <1>11, ReadOutputMoves DEF ReadOutput, Goes, Moved
<1>12. ASSUME NEW c \in Clients, Reply(c) PROVE ChildInv'
  BY <1>3, <1>12, ReplyMoves DEF Reply, Moved
<1>13. ASSUME NEW c \in Clients, Wait(c) PROVE ChildInv'
  <2>1. children' \subseteq children
    BY <1>13 DEF Wait, Reaped
  <2> QED
    BY <1>2, <1>13, <2>1, Transits DEF Wait, Goes, Moved, OthersStay
<1>14. ASSUME NEW k \in children, ChildWrite(k) \/ ChildExit(k) PROVE ChildInv'
  <2>1. PICK new : children' = (children \ {k}) \cup {new} /\ new.id = k.id
    BY <1>14, SameChild
  <2>2. UNCHANGED th
    BY <1>14, SameChild
  <2>3. ASSUME NEW l \in children', NEW m \in children', l.id = m.id PROVE l = m
    BY <2>1, <2>3 DEF ChildInv
  <2>4. ASSUME NEW l \in children' PROVE l.id[2] <= th'[l.id[1]].forked
    BY <2>1, <2>2 DEF ChildInv
  <2> QED
    BY <2>3, <2>4 DEF ChildInv
<1>15. ASSUME NEW c \in Clients,
              Connect(c) \/ Type(c) \/ TypeNothing(c) \/ Receive(c) \/ Leave(c)
       PROVE  ChildInv'
  BY <1>4, <1>15 DEF Connect, Type, TypeNothing, Receive, Leave
<1>16. CASE WildStore
  BY <1>4, <1>16 DEF WildStore
<1>17. ASSUME NEW c \in Clients, ForkFails(c) PROVE ChildInv'
  BY <1>4, <1>17 DEF ForkFails
<1>18. CASE UNCHANGED vars
  BY <1>4, <1>18 DEF vars
<1> QED
  BY <1>5, <1>6, <1>7, <1>8, <1>9, <1>10, <1>11, <1>12, <1>13, <1>14, <1>15,
     <1>16, <1>17, <1>18, NextCases

(* Threads come to wait and leave wait() together with a child.            *)
LEMMA MatchStep ==
    TypeOK /\ ForkInv /\ ChildInv /\ MatchInv /\ [Next]_vars => MatchInv'
<1> SUFFICES ASSUME TypeOK, ForkInv, ChildInv, MatchInv, [Next]_vars
             PROVE  MatchInv'
  OBVIOUS
<1> USE DEF mainVars, kernelVars
<1>1. /\ EnoughChildren <=> Cardinality(Waiters) <= Cardinality(children)
      /\ EnoughChildren' <=> Cardinality(Waiters') <= Cardinality(children')
  BY DEF EnoughChildren, Waiters, Served
<1>2. /\ IsFiniteSet(Waiters) /\ IsFiniteSet(children)
      /\ Cardinality(Waiters) \in Nat /\ Cardinality(children) \in Nat
      /\ Cardinality(Waiters) <= Cardinality(children)
  BY <1>1, ShellAssumption, FS_Subset, FS_CardinalityType DEF Waiters, MatchInv
<1>3. ASSUME Waiters' \subseteq Waiters, UNCHANGED children PROVE MatchInv'
  <2>1. /\ Cardinality(Waiters') <= Cardinality(Waiters)
        /\ Cardinality(Waiters') \in Nat
    BY <1>2, <1>3, FS_Subset, FS_CardinalityType
  <2> QED
    BY <1>1, <1>2, <1>3, <2>1 DEF MatchInv
<1>4. ASSUME UNCHANGED <<th, children>> PROVE MatchInv'
  BY <1>3, <1>4 DEF Waiters
<1>5. ASSUME NEW c \in Clients, OthersStay(c), th'[c].at \in Served => th[c].at \in Served,
             UNCHANGED children
      PROVE  MatchInv'
  BY <1>3, <1>5 DEF OthersStay, Waiters
<1> USE DEF Served
<1>6. ASSUME NEW c \in Clients, Accept(c) PROVE MatchInv'
  BY <1>5, <1>6, AcceptMoves DEF Accept, Goes, Moved
<1>7. ASSUME NEW c \in Clients, ReadCommand(c) PROVE MatchInv'
  <2>1. UNCHANGED children
    BY <1>7 DEF ReadCommand
  <2>2. ASSUME NEW t \in Command \cup {Eof}, HasRead(c, t) PROVE MatchInv'
    BY <1>5, <2>1, <2>2, HasReadMoves, AfterType DEF Moved
  <2> QED
    BY <1>7, <2>2, ReadsStream
<1>8. ASSUME NEW c \in Clients, MakePipe(c) PROVE MatchInv'
  BY <1>5, <1>8, MakePipeMoves, AfterType DEF MakePipe, Moved
<1>9. ASSUME NEW c \in Clients, PipeFails(c) PROVE MatchInv'
  BY <1>5, <1>9, Transits DEF PipeFails, Goes, Moved
<1>10. ASSUME NEW c \in Clients, Fork(c) PROVE MatchInv'
  <2>1. PICK kid : children' = children \cup {kid} /\ kid.id = <<c, th[c].forked + 1>>
    BY <1>10, ForkChild
  <2>2. th[c].at = "fork" /\ th'[c].at = "close" /\ OthersStay(c) /\ th[c].forked \in Nat
    BY <1>10, ForkMoves DEF Moved, TypeOK, ThreadState
  <2>3. Waiters' = Waiters \cup {c} /\ c \notin Waiters
    BY <2>2 DEF OthersStay, Waiters
  <2>4. kid \notin children
    <3>1. kid \in children => kid.id[2] <= th[c].forked
      BY <2>1 DEF ChildInv
    <3> QED
      BY <2>1, <2>2, <3>1
  <2>5. /\ Cardinality(Waiters') = Cardinality(Waiters) + 1
        /\ Cardinality(children') = Cardinality(children) + 1 /\ IsFiniteSet(children')
    BY <1>2, <2>1, <2>3, <2>4, FS_AddElement
  <2> QED
    BY <1>1, <1>2, <2>5 DEF MatchInv
<1>11. ASSUME NEW c \in Clients, CloseWrite(c) PROVE MatchInv'
  BY <1>5, <1>11, Transits DEF CloseWrite, Goes, Moved
<1>12. ASSUME NEW c \in Clients, ReadOutput(c) PROVE MatchInv'
  <2>1. th[c].at = "output" /\ UNCHANGED children
    BY <1>12 DEF ReadOutput
  <2> QED
    BY <1>5, <1>12, <2>1, ReadOutputMoves DEF Goes, Moved
<1>13. ASSUME NEW c \in Clients, Reply(c) PROVE MatchInv'
  BY <1>5, <1>13, ReplyMoves DEF Reply, Moved
<1>14. ASSUME NEW c \in Clients, Wait(c) PROVE MatchInv'
  <2>1. th[c].at = "wait" /\ th'[c].at = "read" /\ OthersStay(c)
    BY <1>14, Transits DEF Wait, Goes, Moved
  <2>2. c \in Waiters /\ Waiters' = Waiters \ {c}
    BY <2>1 DEF OthersStay, Waiters
  <2>3. /\ Cardinality(Waiters') = Cardinality(Waiters) - 1
        /\ Cardinality(Waiters') \in Nat
    BY <1>2, <2>2, FS_RemoveElement, FS_CardinalityType
  <2>4. children # {}
    BY <1>2, <2>3, FS_EmptySet
  <2>5. PICK k \in children : children' = children \ {k}
    BY <1>14, <2>4 DEF Wait, Reaped, Zombies
  <2>6. Cardinality(children') = Cardinality(children) - 1 /\ IsFiniteSet(children')
    BY <1>2, <2>5, FS_RemoveElement
  <2> QED
    BY <1>1, <1>2, <2>3, <2>6 DEF MatchInv
<1>15. ASSUME NEW k \in children, ChildWrite(k) \/ ChildExit(k) PROVE MatchInv'
  <2>1. PICK new : children' = (children \ {k}) \cup {new} /\ new.id = k.id
    BY <1>15, SameChild
  <2>2. Waiters' = Waiters
    BY <1>15, SameChild DEF Waiters
  <2>3. new \notin children \ {k}
    BY <2>1 DEF ChildInv
  <2> PICK rest : rest = children \ {k}
    OBVIOUS
  <2>4. /\ Cardinality(rest) = Cardinality(children) - 1 /\ IsFiniteSet(rest)
        /\ Cardinality(rest) \in Nat
    BY <1>2, FS_RemoveElement, FS_CardinalityType
  <2>5. Cardinality(children') = Cardinality(rest) + 1 /\ IsFiniteSet(children')
    BY <2>1, <2>3, <2>4, FS_AddElement
  <2> QED
    BY <1>1, <1>2, <2>2, <2>4, <2>5 DEF MatchInv
<1>16. ASSUME NEW c \in Clients,
              Connect(c) \/ Type(c) \/ TypeNothing(c) \/ Receive(c) \/ Leave(c)
       PROVE  MatchInv'
  BY <1>4, <1>16 DEF Connect, Type, TypeNothing, Receive, Leave
<1>17. CASE WildStore
  BY <1>4, <1>17 DEF WildStore
<1>18. ASSUME NEW c \in Clients, ForkFails(c) PROVE MatchInv'
  BY <1>4, <1>18 DEF ForkFails
<1>19. CASE UNCHANGED vars
  BY <1>4, <1>19 DEF vars
<1> QED
  BY <1>6, <1>7, <1>8, <1>9, <1>10, <1>11, <1>12, <1>13, <1>14, <1>15,
     <1>16, <1>17, <1>18, <1>19, NextCases

-----------------------------------------------------------------------------
(* What the numbers of a session stand for stays the same in a step of     *)
(* another session that changes only free entries and its own.             *)
LEMMA OthersOwn ==
    ASSUME TypeOK, NEW c \in Clients, OthersStay(c), NEW d \in Clients \ {c}, Owns(d),
           no_clients' <= 1 => no_clients <= 1,
           \A f \in Fds : table[f] \in {Sock(d), Rd(d), Wr(d)} => table'[f] = table[f],
           \/ no_clients' <= 1 => th[d].at = "idle"
           \/ \A f \in Fds : table[f] = Free => table'[f] = Free
    PROVE  Owns(d)'
<1>1. th'[d] = th[d]
  BY DEF OthersStay
<1>2. ASSUME NEW f, Object(f) \in {Sock(d), Rd(d), Wr(d)}
      PROVE  f \in Fds /\ table'[f] = table[f] /\ table[f] = Object(f)
  BY <1>2, Names DEF Object
<1> PICK t : t = th[d]
  OBVIOUS
<1>3. /\ t.at \notin {"idle", "gone"} => Object(t.sock)' = Sock(d)
      /\ t.at \in Piped => Object(t.r)' = Rd(d)
      /\ (t.at = "fork" /\ t.forked = 0) \/ (t.at = "close" /\ t.forked = 1)
           => Object(t.w)' = Wr(d)
  <2>1. t.at \notin {"idle", "gone"} => Object(t.sock)' = Sock(d)
    BY <1>2 DEF Owns, Object
  <2>2. t.at \in Piped => Object(t.r)' = Rd(d)
    BY <1>2 DEF Owns, Object
  <2>3. (t.at = "fork" /\ t.forked = 0) \/ (t.at = "close" /\ t.forked = 1)
           => Object(t.w)' = Wr(d)
    BY <1>2 DEF Owns, Object
  <2> QED
    BY <2>1, <2>2, <2>3
<1>4. /\ no_clients' <= 1
      /\ \/ t.at = "fork" /\ t.forked > 0
         \/ t.at = "close" /\ t.forked > 1
         \/ t.at \in {"output", "reply", "wait", "read"}
      => Object(t.w)' = Free
  <2> SUFFICES ASSUME no_clients' <= 1,
                      \/ t.at = "fork" /\ t.forked > 0
                      \/ t.at = "close" /\ t.forked > 1
                      \/ t.at \in {"output", "reply", "wait", "read"}
               PROVE  Object(t.w)' = Free
    OBVIOUS
  <2>1. Object(t.w) = Free
    BY DEF Owns
  <2>2. \A f \in Fds : table[f] = Free => table'[f] = Free
    OBVIOUS
  <2> QED
    BY <2>1, <2>2 DEF Object
<1>5. t = th'[d]
  BY <1>1
<1> QED
  BY <1>3, <1>4, <1>5 DEF Owns, Object

(* A step of a session that leaves the table as it is, and after which it  *)
(* uses nothing it did not use before.                                     *)
LEMMA SameTableOwn ==
    ASSUME TypeOK, NEW c \in Clients, OthersStay(c), Owns(c), UNCHANGED table,
           no_clients' <= 1 => no_clients <= 1,
           th'[c].sock = th[c].sock, th'[c].r = th[c].r, th'[c].w = th[c].w,
           th'[c].at \notin {"idle", "gone"} => th[c].at \notin {"idle", "gone"},
           th'[c].at \in Piped => th[c].at \in Piped,
           \/ th'[c].at = "fork" /\ th'[c].forked = 0
           \/ th'[c].at = "close" /\ th'[c].forked = 1
           => \/ th[c].at = "fork" /\ th[c].forked = 0
              \/ th[c].at = "close" /\ th[c].forked = 1,
           \/ th'[c].at = "fork" /\ th'[c].forked > 0
           \/ th'[c].at = "close" /\ th'[c].forked > 1
           \/ th'[c].at \in {"output", "reply", "wait", "read"}
           => \/ th[c].at = "fork" /\ th[c].forked > 0
              \/ th[c].at = "close" /\ th[c].forked > 1
              \/ th[c].at \in {"output", "reply", "wait", "read"}
    PROVE  Owns(c)'
<1> PICK t : t = th[c]
  OBVIOUS
<1> PICK u : u = th'[c]
  OBVIOUS
<1>1. \A f : Object(f)' = Object(f)
  BY DEF Object
<1>2. Object(u.sock)' = Object(t.sock) /\ Object(u.r)' = Object(t.r) /\ Object(u.w)' = Object(t.w)
  BY <1>1
<1>3. /\ u.at \notin {"idle", "gone"} => Object(u.sock)' = Sock(c)
      /\ u.at \in Piped => Object(u.r)' = Rd(c)
  BY <1>2 DEF Owns
<1>4. (u.at = "fork" /\ u.forked = 0) \/ (u.at = "close" /\ u.forked = 1)
        => Object(u.w)' = Wr(c)
  BY <1>2 DEF Owns
<1>5. /\ no_clients' <= 1
      /\ \/ u.at = "fork" /\ u.forked > 0
         \/ u.at = "close" /\ u.forked > 1
         \/ u.at \in {"output", "reply", "wait", "read"}
      => Object(u.w)' = Free
  BY <1>2 DEF Owns
<1> QED
  BY <1>3, <1>4, <1>5 DEF Owns, Object

LEMMA OrderlyBefore ==
    ASSUME TypeOK, ForkInv, [Next]_vars, Orderly'
    PROVE  Orderly /\ (no_clients' <= 1 => no_clients <= 1)
<1>1. /\ no_clients' \in Nat /\ no_clients \in Nat
      /\ \A c \in Clients : th[c].forked \in Nat /\ th'[c].forked \in Nat
  <2>1. TypeOK'
    BY TypeStep
  <2> QED
    BY <2>1, SMTT(30) DEF TypeOK, ThreadState
<1> DEFINE Grows == /\ no_clients' >= no_clients
                    /\ \A d \in Clients : th'[d].forked >= th[d].forked
<1> USE DEF mainVars, kernelVars
<1>2. ASSUME NEW c \in Clients, OthersStay(c), th'[c].forked >= th[c].forked,
             no_clients' >= no_clients
      PROVE  Grows
  BY <1>1, <1>2 DEF OthersStay
<1>3. ASSUME UNCHANGED <<no_clients, th>> PROVE Grows
  BY <1>1, <1>3
<1>4. ASSUME NEW c \in Clients, Accept(c) PROVE Grows
  <2>1. OthersStay(c) /\ th'[c].forked = th[c].forked
    BY <1>4, AcceptMoves DEF Goes, Moved
  <2> QED
    BY <1>1, <1>2, <1>4, <2>1 DEF Accept
<1>5. ASSUME NEW c \in Clients, UNCHANGED no_clients, OthersStay(c),
             th'[c].forked = th[c].forked \/ th'[c].forked = th[c].forked + 1
      PROVE  Grows
  BY <1>1, <1>2, <1>5
<1> HIDE DEF Grows
<1>6. ASSUME NEW c \in Clients, ReadCommand(c) PROVE Grows
  <2>1. UNCHANGED no_clients
    BY <1>6 DEF ReadCommand
  <2>2. ASSUME NEW t \in Command \cup {Eof}, HasRead(c, t) PROVE Grows
    BY <1>5, <2>1, <2>2, HasReadMoves DEF Moved
  <2> QED
    BY <1>6, <2>2, ReadsStream
<1>7. ASSUME NEW c \in Clients, MakePipe(c) PROVE Grows
  BY <1>5, <1>7, MakePipeMoves DEF MakePipe, Moved
<1>8. ASSUME NEW c \in Clients, PipeFails(c) PROVE Grows
  BY <1>5, <1>8, Transits DEF PipeFails, Goes, Moved
<1>9. ASSUME NEW c \in Clients, Fork(c) PROVE Grows
  BY <1>5, <1>9, ForkMoves DEF Fork, Moved
<1>10. ASSUME NEW c \in Clients, CloseWrite(c) PROVE Grows
  BY <1>5, <1>10, Transits DEF CloseWrite, Goes, Moved
<1>11. ASSUME NEW c \in Clients, ReadOutput(c) PROVE Grows
  BY <1>5, <1>11, ReadOutputMoves DEF ReadOutput, Goes, Moved
<1>12. ASSUME NEW c \in Clients, Reply(c) PROVE Grows
  BY <1>5, <1>12, ReplyMoves DEF Reply, Moved
<1>13. ASSUME NEW c \in Clients, Wait(c) PROVE Grows
  BY <1>5, <1>13, Transits DEF Wait, Goes, Moved
<1>14. ASSUME NEW k \in children, ChildWrite(k) \/ ChildExit(k) PROVE Grows
  BY <1>3, <1>14 DEF ChildWrite, ChildExit, Becomes
<1>15. ASSUME NEW c \in Clients,
              Connect(c) \/ Type(c) \/ TypeNothing(c) \/ Receive(c) \/ Leave(c)
       PROVE  Grows
  BY <1>3, <1>15 DEF Connect, Type, TypeNothing, Receive, Leave
<1>16. ASSUME WildStore PROVE Grows
  BY <1>3, <1>16 DEF WildStore
<1>17. ASSUME NEW c \in Clients, ForkFails(c) PROVE Grows
  BY <1>3, <1>17 DEF ForkFails
<1>18. ASSUME UNCHANGED vars PROVE Grows
  BY <1>3, <1>18 DEF vars
<1>19. Grows
  BY <1>4, <1>6, <1>7, <1>8, <1>9, <1>10, <1>11, <1>12, <1>13, <1>14, <1>15,
     <1>16, <1>17, <1>18, NextCases
<1> QED
  BY <1>1, <1>19 DEF Grows, Orderly, Fresh

LEMMA OwnStep ==
    TypeOK /\ CountInv /\ ForkInv /\ OwnInv /\ [Next]_vars => OwnInv'
<1> SUFFICES ASSUME TypeOK, CountInv, ForkInv, OwnInv, [Next]_vars, Orderly'
             PROVE  \A d \in Clients : Owns(d)'
  BY DEF OwnInv
<1> USE DEF mainVars, kernelVars
<1>1. /\ \A d \in Clients : Owns(d)
      /\ no_clients' <= 1 => no_clients <= 1
  BY OrderlyBefore DEF OwnInv
<1>2. no_clients \in Nat /\ \A d \in Clients : th[d].forked \in Nat
  BY DEF TypeOK, ThreadState
<1> DEFINE Done == \A d \in Clients : Owns(d)'
<1>3. ASSUME UNCHANGED <<no_clients, table, th>> PROVE Done
  BY <1>1, <1>3 DEF Owns, Object
<1>4. ASSUME NEW c \in Clients, OthersStay(c), UNCHANGED table, Owns(c)' PROVE Done
  <2>1. ASSUME NEW d \in Clients \ {c} PROVE Owns(d)'
    BY <1>1, <1>4, OthersOwn
  <2> QED
    BY <1>4, <2>1
<1>5. ASSUME NEW c \in Clients, th[c].at # "idle", NEW d \in Clients \ {c}
      PROVE  no_clients' <= 1 => th[d].at = "idle"
  BY <1>1, <1>2, <1>5 DEF CountInv
<1>6. \A d, e \in Clients :
        d # e => Sock(d) \notin {Sock(e), Rd(e), Wr(e)} /\ Wr(d) \notin {Sock(e), Rd(e), Wr(e)}
  BY Names
<1> HIDE DEF Done
<1>7. ASSUME NEW c \in Clients, Accept(c) PROVE Done
  <2>1. CASE Goes(c, "gone") /\ UNCHANGED table
    <3>1. Owns(c)'
      BY <2>1 DEF Goes, Moved, Owns, Piped, Served
    <3> QED
      BY <1>4, <2>1, <3>1 DEF Goes, Moved
  <2>2. CASE /\ Moved(c, "first", Lowest(FreeFds), th[c].r, th[c].w,
                      th[c].cmd, th[c].forked, th[c].buffer)
             /\ table' = [table EXCEPT ![Lowest(FreeFds)] = Sock(c)]
    <3> PICK f \in FreeFds : f = Lowest(FreeFds)
      BY <1>7, AcceptMoves, FreeLowest
    <3>1. f \in Fds /\ table[f] = Free /\ table' = [table EXCEPT ![f] = Sock(c)]
      BY <2>2 DEF FreeFds
    <3>2. table'[f] = Sock(c)
      BY <3>1 DEF TypeOK
    <3>3. Owns(c)'
      BY <2>2, <3>1, <3>2 DEF Moved, Owns, Object, Piped, Served
    <3>4. ASSUME NEW d \in Clients \ {c} PROVE Owns(d)'
      <4>1. no_clients' <= 1 => th[d].at = "idle"
        BY <1>2, <1>7 DEF Accept, CountInv
      <4>2. \A g \in Fds : table[g] \in {Sock(d), Rd(d), Wr(d)} => table'[g] = table[g]
        BY <3>1, Names DEF TypeOK
      <4> QED
        BY <1>1, <2>2, <4>1, <4>2, OthersOwn DEF Moved
    <3> QED
      BY <3>3, <3>4 DEF Done
  <2> QED
    BY <1>7, <2>1, <2>2, AcceptMoves
<1>8. ASSUME NEW c \in Clients, ReadCommand(c) PROVE Done
  <2>1. UNCHANGED table /\ th[c].at \in {"first", "read"}
    BY <1>8 DEF ReadCommand
  <2>2. ASSUME NEW t \in Command \cup {Eof}, HasRead(c, t) PROVE Done
    <3> PICK a : a = IF th[c].at = "first" THEN "pipe" ELSE After(t)
      OBVIOUS
    <3>1. Moved(c, a, th[c].sock, th[c].r, th[c].w, t, th[c].forked, th[c].buffer)
      BY <2>2, HasReadMoves
    <3>2. IF th[c].at = "first" THEN a = "pipe" ELSE a \in {"gone", "fork"}
      BY AfterType
    <3>3. th[c].at = "read" => th[c].forked >= 1
      BY DEF ForkInv
    <3>4. Owns(c)'
      BY <1>1, <1>2, <2>1, <3>1, <3>2, <3>3, SameTableOwn DEF Moved, Piped, Served
    <3> QED
      BY <1>4, <2>1, <3>1, <3>4 DEF Moved
  <2> QED
    BY <1>8, <2>2, ReadsStream
<1>9. ASSUME NEW c \in Clients, MakePipe(c) PROVE Done
  <2> PICK r \in FreeFds, w \in FreeFds :
         /\ th[c].at = "pipe" /\ r # w
         /\ Moved(c, After(th[c].cmd), th[c].sock, r, w, th[c].cmd, th[c].forked,
                  th[c].buffer)
         /\ table' = [table EXCEPT ![r] = Rd(c), ![w] = Wr(c)]
    BY <1>9, MakePipeMoves
  <2> PICK a \in {"gone", "fork"} : a = After(th[c].cmd)
    BY AfterType
  <2>1. /\ r \in Fds /\ w \in Fds /\ table[r] = Free /\ table[w] = Free
        /\ table'[r] = Rd(c) /\ table'[w] = Wr(c)
        /\ \A f \in Fds \ {r, w} : table'[f] = table[f]
    BY DEF FreeFds, TypeOK
  <2> PICK s : s = th[c].sock
    OBVIOUS
  <2>2. s \in Fds /\ table[s] = Sock(c)
    BY <1>1, Names DEF Owns, Object
  <2>8. \A e : Free \notin {Sock(e), Rd(e), Wr(e)}
    BY Names
  <2>3. table'[s] = Sock(c)
    <3>1. s # r /\ s # w
      BY <2>1, <2>2, <2>8
    <3> QED
      BY <2>1, <2>2, <3>1
  <2>4. th[c].forked = 0
    BY DEF ForkInv
  <2>5. /\ th'[c].at = a /\ th'[c].sock = s /\ th'[c].r = r /\ th'[c].w = w
        /\ th'[c].forked = 0 /\ OthersStay(c)
    BY <2>4 DEF Moved
  <2>6. Owns(c)'
    BY <2>1, <2>2, <2>3, <2>5 DEF Owns, Object, Piped, Served
  <2>7. ASSUME NEW d \in Clients \ {c} PROVE Owns(d)'
    <3>1. ASSUME NEW g \in Fds, table[g] \in {Sock(d), Rd(d), Wr(d)}
          PROVE  table'[g] = table[g]
      <4>1. g # r /\ g # w
        BY <2>1, <2>8, <3>1
      <4> QED
        BY <2>1, <4>1
    <3>2. no_clients' <= 1 => th[d].at = "idle"
      BY <1>5
    <3> QED
      BY <1>1, <2>5, <3>1, <3>2, OthersOwn
  <2> QED
    BY <2>6, <2>7 DEF Done
<1>10. ASSUME NEW c \in Clients, PipeFails(c) PROVE Done
  <2> PICK s : s = th[c].sock
    OBVIOUS
  <2>1. /\ th[c].at = "pipe" /\ th'[c].at = "gone" /\ OthersStay(c)
        /\ table' = [table EXCEPT ![s] = Free]
    BY <1>10, Transits DEF PipeFails, Goes, Moved
  <2>2. s \in Fds /\ table[s] = Sock(c)
    BY <1>1, <2>1, Names DEF Owns, Object
  <2>3. Owns(c)'
    BY <2>1 DEF Owns, Piped, Served
  <2>4. ASSUME NEW d \in Clients \ {c} PROVE Owns(d)'
    <3>1. \A g \in Fds : table[g] \in {Sock(d), Rd(d), Wr(d)} => table'[g] = table[g]
      BY <1>6, <2>1, <2>2 DEF TypeOK
    <3>2. no_clients' <= 1 => th[d].at = "idle"
      BY <1>5, <2>1
    <3> QED
      BY <1>1, <2>1, <3>1, <3>2, OthersOwn
  <2> QED
    BY <2>3, <2>4 DEF Done
<1>11. ASSUME NEW c \in Clients, Fork(c) PROVE Done
  <2>1. UNCHANGED table /\ OthersStay(c)
    BY <1>11, ForkMoves DEF Fork, Moved
  <2>2. Owns(c)'
    BY <1>1, <1>2, <1>11, <2>1, ForkMoves, SameTableOwn DEF Moved, Piped, Served
  <2> QED
    BY <1>4, <2>1, <2>2
<1>12. ASSUME NEW c \in Clients, ForkFails(c) PROVE Done
  BY <1>3, <1>12 DEF ForkFails
<1>13. ASSUME NEW c \in Clients, CloseWrite(c) PROVE Done
  <2> PICK w : w = th[c].w
    OBVIOUS
  <2>1. /\ th[c].at = "close" /\ Goes(c, "output")
        /\ table' = [table EXCEPT ![w] = Free] /\ UNCHANGED no_clients
    BY <1>13, Transits DEF CloseWrite, ParentCloses
  <2>2. th[c].forked >= 1 /\ th'[c].forked = th[c].forked
    BY <2>1 DEF ForkInv, Served, Goes, Moved
  <2>3. Object(w) = Wr(c) \/ (no_clients <= 1 /\ Object(w) = Free)
    <3>1. CASE th[c].forked = 1
      BY <1>1, <2>1, <3>1 DEF Owns
    <3>2. CASE th[c].forked > 1
      <4>1. no_clients <= 1
        BY <1>1, <1>2, <2>1, <2>2, <3>2 DEF Orderly, Fresh
      <4> QED
        BY <1>1, <2>1, <3>2, <4>1 DEF Owns
    <3> QED
      BY <1>2, <2>2, <3>1, <3>2
  <2>4. w \in Fds => table[w] = Wr(c) \/ table[w] = Free
    BY <2>3 DEF Object
  <2>5. \A f \in Fds : table'[f] = IF f = w THEN Free ELSE table[f]
    BY <2>1 DEF TypeOK
  <2>6. Owns(c)'
    <3> PICK t : t = th[c]
      OBVIOUS
    <3> PICK u : u = th'[c]
      OBVIOUS
    <3>1. Object(t.sock) = Sock(c) /\ Object(t.r) = Rd(c)
      BY <1>1, <2>1 DEF Owns, Piped, Served
    <3>2. /\ t.sock \in Fds /\ table[t.sock] = Sock(c)
          /\ t.r \in Fds /\ table[t.r] = Rd(c)
      BY <3>1, Names DEF Object
    <3>3. table'[t.sock] = Sock(c) /\ table'[t.r] = Rd(c)
      BY <2>4, <2>5, <3>2, Names
    <3>4. u.at = "output" /\ u.sock = t.sock /\ u.r = t.r /\ u.w = w
      BY <2>1 DEF Goes, Moved
    <3>5. w \in Fds => table'[w] = Free
      BY <2>5
    <3> QED
      BY <3>2, <3>3, <3>4, <3>5 DEF Owns, Object
  <2>7. ASSUME NEW d \in Clients \ {c} PROVE Owns(d)'
    <3>1. \A g \in Fds : table[g] \in {Sock(d), Rd(d), Wr(d)} => table'[g] = table[g]
      BY <1>6, <2>4, <2>5, Names
    <3>2. no_clients' <= 1 => th[d].at = "idle"
      BY <1>5, <2>1
    <3> QED
      BY <1>1, <2>1, <3>1, <3>2, OthersOwn DEF Goes, Moved
  <2> QED
    BY <2>6, <2>7 DEF Done
<1>14. ASSUME NEW c \in Clients, ReadOutput(c) PROVE Done
  <2>1. UNCHANGED table /\ OthersStay(c) /\ th[c].at = "output"
    BY <1>14, ReadOutputMoves DEF ReadOutput, Goes, Moved
  <2>2. Owns(c)'
    BY <1>1, <1>14, <2>1, ReadOutputMoves, SameTableOwn DEF Goes, Moved, Piped, Served
  <2> QED
    BY <1>4, <2>1, <2>2
<1>15. ASSUME NEW c \in Clients, Reply(c) PROVE Done
  <2>1. UNCHANGED table /\ OthersStay(c)
    BY <1>15, ReplyMoves DEF Reply, Moved
  <2>2. Owns(c)'
    BY <1>1, <1>15, <2>1, ReplyMoves, SameTableOwn DEF Moved, Piped, Served
  <2> QED
    BY <1>4, <2>1, <2>2
<1>16. ASSUME NEW c \in Clients, Wait(c) PROVE Done
  <2>1. UNCHANGED table /\ OthersStay(c)
    BY <1>16, Transits DEF Wait, Goes, Moved
  <2>2. Owns(c)'
    BY <1>1, <1>16, <2>1, Transits, SameTableOwn DEF Wait, Goes, Moved, Piped, Served
  <2> QED
    BY <1>4, <2>1, <2>2
<1>17. ASSUME NEW k \in children, ChildWrite(k) \/ ChildExit(k) PROVE Done
  BY <1>3, <1>17 DEF ChildWrite, ChildExit, Becomes
<1>18. ASSUME NEW c \in Clients,
              Connect(c) \/ Type(c) \/ TypeNothing(c) \/ Receive(c) \/ Leave(c)
       PROVE  Done
  BY <1>3, <1>18 DEF Connect, Type, TypeNothing, Receive, Leave
<1>19. ASSUME WildStore PROVE Done
  BY <1>3, <1>19 DEF WildStore
<1>20. ASSUME UNCHANGED vars PROVE Done
  BY <1>3, <1>20 DEF vars
<1>21. Done
  BY <1>7, <1>8, <1>9, <1>10, <1>11, <1>12, <1>13, <1>14, <1>15, <1>16, <1>17,
     <1>18, <1>19, <1>20, NextCases
<1> QED
  BY <1>21 DEF Done

-----------------------------------------------------------------------------
(* A session nobody touches flows as before.                               *)
LEMMA FlowsOn ==
    ASSUME NEW d \in Clients, th'[d] = th[d], client'[d].asked = client[d].asked,
           stream'[Sock(d)] = stream[Sock(d)], stream'[Rd(d)] = stream[Rd(d)],
           got'[d] = got[d], Typed(d), Flows(d)
    PROVE  Typed(d)' /\ Flows(d)'
  BY DEF Typed, Flows

(* The thread of d has moved, and what is typed and flows is as before.    *)
LEMMA FlowsMoved ==
    ASSUME NEW d \in Clients, client'[d].asked = client[d].asked,
           stream'[Sock(d)] = stream[Sock(d)], stream'[Rd(d)] = stream[Rd(d)],
           got'[d] = got[d], Typed(d), Flows(d),
           th'[d].at \in {"idle", "first"} => th[d].at \in {"idle", "first"},
           th'[d].at = "pipe" => th'[d].cmd \in {Eof} \cup FirstLines(d),
           th'[d].at = "fork" /\ th'[d].forked = 0 => th'[d].cmd = <<d, 1>>,
           th'[d].at # "reply"
    PROVE  Typed(d)' /\ Flows(d)'
  BY DEF Typed, Flows

LEMMA TypeKeepsAsked ==
    ASSUME TypeOK, NEW c \in Clients, Connect(c) \/ TypeNothing(c) \/ Receive(c) \/ Leave(c)
    PROVE  /\ \A d \in Clients : client'[d].asked = client[d].asked
           /\ UNCHANGED <<no_clients, table, stream, children, th, got>>
<1>1. \A d \in Clients : client'[d].asked = client[d].asked
  <2>1. ASSUME NEW from, NEW to, Moves(c, from, to)
        PROVE  \A d \in Clients : client'[d].asked = client[d].asked
    BY <2>1 DEF Moves, TypeOK
  <2>2. CASE Connect(c)
    BY <2>1, <2>2 DEF Connect
  <2>3. CASE TypeNothing(c)
    BY <2>1, <2>3 DEF TypeNothing
  <2>4. CASE Leave(c)
    BY <2>1, <2>4 DEF Leave
  <2>5. CASE Receive(c)
    BY <2>5 DEF Receive, TypeOK
  <2> QED
    BY <2>2, <2>3, <2>4, <2>5
<1>2. UNCHANGED <<no_clients, table, stream, children, th, got>>
  BY DEF Connect, TypeNothing, Receive, Leave, mainVars, kernelVars
<1> QED
  BY <1>1, <1>2

LEMMA TypeSends ==
    ASSUME TypeOK, NEW c \in Clients, Type(c)
    PROVE  /\ UNCHANGED <<no_clients, table, children, th, got>>
           /\ \A d \in Clients \ {c} : client'[d].asked = client[d].asked
           /\ client'[c].asked = client[c].asked + 1
           /\ \E n \in {client[c].asked + 1, 0} :
                 stream' = [stream EXCEPT ![Sock(c)] = Append(@, <<c, n>>)]
<1>1. client' = [client EXCEPT ![c].at = "blocked", ![c].asked = @ + 1]
  BY DEF Type
<1>2. UNCHANGED <<no_clients, table, children, th, got>>
  BY DEF Type, mainVars
<1>3. client[c].asked \in Nat
  BY DEF TypeOK
<1>4. /\ \A d \in Clients \ {c} : client'[d].asked = client[d].asked
      /\ client'[c].asked = client[c].asked + 1
  BY <1>1, <1>3 DEF TypeOK
<1> QED
  BY <1>2, <1>4 DEF Type

LEMMA FlowStep ==
    TypeOK /\ ForkInv /\ OwnInv /\ FlowInv /\ [Next]_vars => FlowInv'
<1> SUFFICES ASSUME TypeOK, ForkInv, OwnInv, FlowInv, [Next]_vars, Orderly'
             PROVE  /\ \A d \in Clients : Typed(d)' /\ Flows(d)'
                    /\ \A k \in children' : Feeds(k)
  BY DEF FlowInv
<1> USE DEF mainVars, kernelVars
<1>1. /\ \A d \in Clients : Owns(d) /\ Typed(d) /\ Flows(d)
      /\ \A k \in children : Feeds(k)
  BY OrderlyBefore DEF OwnInv, FlowInv
<1>2. /\ \A d \in Clients : /\ Sock(d) \in Streams /\ Rd(d) \in Streams
                            /\ stream[Sock(d)] \in Seq(Command)
                            /\ stream[Rd(d)] \in Seq(Command)
      /\ stream \in [Streams -> Seq(Command)] /\ got \in [Clients -> Seq(Command)]
  BY DEF TypeOK, Streams
<1>3. /\ \A d, e \in Clients : d # e => Sock(d) # Sock(e) /\ Rd(d) # Rd(e)
      /\ \A d, e \in Clients : Sock(d) # Rd(e)
  BY Names
<1> DEFINE Done == /\ \A d \in Clients : Typed(d)' /\ Flows(d)'
                   /\ \A k \in children' : Feeds(k)
<1>4. ASSUME NEW c \in Clients, OthersStay(c), Typed(c)' /\ Flows(c)',
             \A k \in children' : Feeds(k),
             \A d \in Clients \ {c} :
                /\ client'[d].asked = client[d].asked /\ got'[d] = got[d]
                /\ stream'[Sock(d)] = stream[Sock(d)]
                /\ stream'[Rd(d)] = stream[Rd(d)]
      PROVE  Done
  <2>1. ASSUME NEW d \in Clients \ {c} PROVE Typed(d)' /\ Flows(d)'
    BY <1>1, <1>4, <2>1, FlowsOn DEF OthersStay
  <2> QED
    BY <1>4, <2>1
<1>5. ASSUME UNCHANGED <<stream, children, th, got>>,
             \A d \in Clients : client'[d].asked = client[d].asked
      PROVE  Done
  BY <1>1, <1>5, FlowsOn
<1> HIDE DEF Done
<1>6. ASSUME NEW c \in Clients, UNCHANGED <<stream, client, got>>, OthersStay(c),
             children' \subseteq children,
             th'[c].at \in {"idle", "first"} => th[c].at \in {"idle", "first"},
             th'[c].at = "pipe" => th'[c].cmd \in {Eof} \cup FirstLines(c),
             th'[c].at = "fork" /\ th'[c].forked = 0 => th'[c].cmd = <<c, 1>>,
             th'[c].at # "reply"
      PROVE  Done
  <2>1. Typed(c)' /\ Flows(c)'
    BY <1>1, <1>6, FlowsMoved
  <2> QED
    BY <1>1, <1>4, <1>6, <2>1
<1>7. ASSUME NEW c \in Clients, Accept(c) PROVE Done
  BY <1>6, <1>7, AcceptMoves DEF Accept, Goes, Moved
<1>8. ASSUME NEW c \in Clients, ReadCommand(c) PROVE Done
  <2>1. th[c].at \in {"first", "read"} /\ UNCHANGED <<children, client, got>>
    BY <1>8 DEF ReadCommand
  <2>2. ASSUME NEW t \in Command \cup {Eof}, HasRead(c, t),
               th[c].at = "first" => t \in {Eof} \cup FirstLines(c),
               \A d \in Clients : stream'[Rd(d)] = stream[Rd(d)],
               \A d \in Clients \ {c} : stream'[Sock(d)] = stream[Sock(d)]
        PROVE  Done
    <3> PICK a : a = IF th[c].at = "first" THEN "pipe" ELSE After(t)
      OBVIOUS
    <3>1. Moved(c, a, th[c].sock, th[c].r, th[c].w, t, th[c].forked, th[c].buffer)
      BY <2>2, HasReadMoves
    <3>2. IF th[c].at = "first" THEN a = "pipe" ELSE a \in {"gone", "fork"}
      BY AfterType
    <3>3. th[c].at = "read" => th[c].forked >= 1
      BY DEF ForkInv
    <3>4. th[c].forked \in Nat
      BY DEF TypeOK, ThreadState
    <3>5. Typed(c)' /\ Flows(c)'
      <4>1. stream'[Rd(c)] \in Seq({<<c, 1>>}) /\ got'[c] \in Seq({<<c, 1>>})
        BY <1>1, <2>1, <2>2 DEF Flows
      <4> QED
        BY <2>1, <2>2, <3>1, <3>2, <3>3, <3>4, <4>1 DEF Moved, Typed, Flows
    <3> QED
      BY <1>1, <1>4, <2>1, <2>2, <3>1, <3>5 DEF Moved
  <2>3. CASE HasRead(c, Eof) /\ UNCHANGED stream
    BY <2>2, <2>3
  <2>4. ASSUME NEW s \in Streams, NEW t \in Command, NEW n \in Nat,
               s = Object(th[c].sock), t = Head(stream[s]), stream[s] # <<>>,
               stream' = [stream EXCEPT ![s] = SubSeq(@, n + 1, Len(@))],
               HasRead(c, t)
        PROVE  Done
    <3>1. s = Sock(c)
      BY <1>1, <2>1, <2>4 DEF Owns
    <3>2. th[c].at = "first" => t \in FirstLines(c)
      BY <1>1, <2>4, <3>1 DEF Typed
    <3>3. \A d \in Clients : stream'[Rd(d)] = stream[Rd(d)]
      BY <1>2, <1>3, <2>4, <3>1
    <3>4. \A d \in Clients \ {c} : stream'[Sock(d)] = stream[Sock(d)]
      BY <1>2, <1>3, <2>4, <3>1
    <3> QED
      BY <2>2, <2>4, <3>2, <3>3, <3>4
  <2> QED
    BY <1>8, <2>3, <2>4, ReadsStream
<1>9. ASSUME NEW c \in Clients, MakePipe(c) PROVE Done
  <2>1. /\ th[c].at = "pipe" /\ th'[c].at = After(th[c].cmd) /\ th'[c].cmd = th[c].cmd
        /\ OthersStay(c)
    BY <1>9, MakePipeMoves DEF Moved
  <2>2. th[c].cmd \in {Eof} \cup FirstLines(c)
    BY <1>1, <2>1 DEF Typed
  <2>3. After(th[c].cmd) = "fork" => th[c].cmd = <<c, 1>>
    <3>1. <<c, 0>>[2] = 0
      OBVIOUS
    <3> QED
      BY <2>2, <3>1 DEF After, FirstLines
  <2> QED
    BY <1>6, <1>9, <2>1, <2>3, AfterType DEF MakePipe
<1>10. ASSUME NEW c \in Clients, PipeFails(c) PROVE Done
  BY <1>6, <1>10, Transits DEF PipeFails, Goes, Moved
<1>11. ASSUME NEW c \in Clients, Fork(c) PROVE Done
  <2> PICK o : o = Object(th[c].w)
    OBVIOUS
  <2>1. PICK kid \in ChildProcess :
          /\ children' = children \cup {kid}
          /\ kid.id = <<c, th[c].forked + 1>> /\ kid.prog = th[c].cmd
          /\ kid.out = IF o[1] \in {"w", "sock"} THEN o ELSE Console
    BY <1>11, ForkChild
  <2>2. /\ th[c].at = "fork" /\ th'[c].at = "close" /\ th'[c].forked = th[c].forked + 1
        /\ OthersStay(c) /\ th[c].forked \in Nat /\ no_clients \in Nat
        /\ UNCHANGED <<no_clients, stream, client, got>>
    <3>1. th[c].forked \in Nat /\ no_clients \in Nat
      BY DEF TypeOK, ThreadState
    <3>2. UNCHANGED <<no_clients, stream, client, got>>
      BY <1>11 DEF Fork
    <3> QED
      BY <1>11, <3>1, <3>2, ForkMoves DEF Moved
  <2>3. Feeds(kid)
    <3>1. CASE th[c].forked = 0
      <4>1. o = Wr(c) /\ kid.prog = <<c, 1>>
        BY <1>1, <2>1, <2>2, <3>1 DEF Owns, Typed
      <4>2. kid.out = Wr(c) /\ kid.id[1] = c
        BY <2>1, <4>1, Names
      <4> QED
        BY <4>1, <4>2 DEF Feeds
    <3>2. CASE th[c].forked > 0
      <4>1. no_clients <= 1
        BY <2>2, <3>2 DEF Orderly, Fresh
      <4>2. o = Free
        BY <1>1, <2>2, <3>2, <4>1 DEF Owns
      <4> QED
        BY <2>1, <4>2, Names DEF Feeds
    <3> QED
      BY <2>2, <3>1, <3>2
  <2>4. Typed(c)' /\ Flows(c)'
    BY <1>1, <2>2, FlowsMoved
  <2> QED
    BY <1>1, <1>4, <2>1, <2>2, <2>3, <2>4
<1>12. ASSUME NEW c \in Clients, ForkFails(c) PROVE Done
  BY <1>5, <1>12 DEF ForkFails
<1>13. ASSUME NEW c \in Clients, CloseWrite(c) PROVE Done
  BY <1>6, <1>13, Transits DEF CloseWrite, Goes, Moved
<1>14. ASSUME NEW c \in Clients, ReadOutput(c) PROVE Done
  <2>1. th[c].at = "output" /\ UNCHANGED <<children, client, got>>
    BY <1>14 DEF ReadOutput
  <2>2. CASE Goes(c, "gone") /\ UNCHANGED stream
    BY <1>6, <2>1, <2>2 DEF Goes, Moved
  <2>3. ASSUME NEW s \in Streams, NEW n \in Nat,
               s = Object(th[c].r), n <= Len(stream[s]),
               stream' = [stream EXCEPT ![s] = SubSeq(@, n + 1, Len(@))],
               Moved(c, "reply", th[c].sock, th[c].r, th[c].w, th[c].cmd,
                     th[c].forked, SubSeq(stream[s], 1, n))
        PROVE  Done
    <3>1. s = Rd(c)
      BY <1>1, <2>1, <2>3 DEF Owns, Piped, Served
    <3> PICK S : S = {<<c, 1>>}
      OBVIOUS
    <3>2. stream[s] \in Seq(S) /\ got[c] \in Seq(S)
      BY <1>1, <3>1 DEF Flows
    <3>3. SubSeq(stream[s], 1, n) \in Seq(S) /\ SubSeq(stream[s], n + 1, Len(stream[s])) \in Seq(S)
      BY <2>3, <3>2, CutType
    <3>4. stream'[Rd(c)] \in Seq(S) /\ \A d \in Clients \ {c} : stream'[Rd(d)] = stream[Rd(d)]
      BY <1>2, <1>3, <2>3, <3>1, <3>3
    <3>5. \A d \in Clients : stream'[Sock(d)] = stream[Sock(d)]
      BY <1>2, <1>3, <2>3, <3>1
    <3>6. Typed(c)' /\ Flows(c)'
      BY <2>1, <2>3, <3>2, <3>3, <3>4 DEF Moved, Typed, Flows
    <3> QED
      BY <1>1, <1>4, <2>1, <2>3, <3>4, <3>5, <3>6 DEF Moved
  <2> QED
    BY <1>14, <2>2, <2>3, ReadOutputMoves
<1>15. ASSUME NEW c \in Clients, Reply(c) PROVE Done
  <2> PICK S : S = {<<c, 1>>}
    OBVIOUS
  <2> PICK b : b = th[c].buffer
    OBVIOUS
  <2>1. /\ th[c].at = "reply" /\ th'[c].at = "wait" /\ OthersStay(c)
        /\ UNCHANGED <<children, client>>
    BY <1>15, ReplyMoves DEF Reply, Moved
  <2>2. Object(th[c].sock) = Sock(c) /\ b \in Seq(S) /\ got[c] \in Seq(S)
        /\ stream[Rd(c)] \in Seq(S)
    BY <1>1, <2>1 DEF Owns, Flows
  <2>3. b \in Seq(Command)
    BY DEF TypeOK, ThreadState
  <2>4. CASE UNCHANGED <<stream, got>>
    BY <1>6, <2>1, <2>4
  <2>5. ASSUME NEW d \in Clients, Object(th[c].sock) = Sock(d), ToClient(d, b),
               UNCHANGED stream
        PROVE  Done
    <3>1. d = c
      BY <2>2, <2>5, Names
    <3>2. /\ \A e \in Clients \ {c} : got'[e] = got[e]
          /\ got'[c] = got[c] \/ got'[c] = got[c] \o b
      BY <2>3, <2>5, <3>1, ToClientGives
    <3>3. got[c] \o b \in Seq(S)
      BY <2>2
    <3>4. got'[c] \in Seq(S)
      BY <2>2, <3>2, <3>3
    <3>5. Typed(c)' /\ Flows(c)'
      BY <2>1, <2>2, <2>5, <3>4 DEF Typed, Flows
    <3> QED
      BY <1>1, <1>4, <2>1, <2>5, <3>2, <3>5
  <2>6. ASSUME NEW d \in Clients, Object(th[c].sock) = Wr(d) PROVE FALSE
    BY <2>2, <2>6, Names
  <2> QED
    BY <1>15, <2>4, <2>5, <2>6, ReplyGoes
<1>16. ASSUME NEW c \in Clients, Wait(c) PROVE Done
  <2>1. children' \subseteq children
    BY <1>16 DEF Wait, Reaped
  <2> QED
    BY <1>6, <1>16, <2>1, Transits DEF Wait, Goes, Moved
<1>17. ASSUME NEW k \in children, ChildWrite(k) \/ ChildExit(k) PROVE Done
  <2>1. PICK new : /\ children' = (children \ {k}) \cup {new}
                   /\ new.id = k.id /\ new.prog = k.prog /\ new.out = k.out
    BY <1>17, SameChild
  <2>2. UNCHANGED <<th, client>> /\ k.prog \in Command
    BY <1>17, SameChild
  <2>3. Feeds(k) /\ \A l \in children' : Feeds(l)
    BY <1>1, <2>1 DEF Feeds
  <2>4. CASE UNCHANGED <<stream, got>>
    BY <1>1, <2>2, <2>3, <2>4, FlowsOn DEF Done
  <2>5. ASSUME NEW d \in Clients, k.out = Sock(d) PROVE FALSE
    BY <2>3, <2>5, Names DEF Feeds
  <2>6. ASSUME NEW d \in Clients, k.out = Wr(d), UNCHANGED got,
               stream' = [stream EXCEPT ![Rd(d)] = Append(@, k.prog)]
        PROVE  Done
    <3>1. k.prog = <<d, 1>>
      BY <2>3, <2>6, Names DEF Feeds
    <3> PICK S : S = {<<d, 1>>}
      OBVIOUS
    <3>2. stream[Rd(d)] \in Seq(S)
      BY <1>1 DEF Flows
    <3>3. Append(stream[Rd(d)], k.prog) \in Seq(S)
      BY <3>1, <3>2
    <3>4. /\ stream'[Rd(d)] \in Seq(S)
          /\ \A e \in Clients : stream'[Sock(e)] = stream[Sock(e)]
          /\ \A e \in Clients \ {d} : stream'[Rd(e)] = stream[Rd(e)]
      BY <1>2, <1>3, <2>6, <3>3
    <3>5. Typed(d)' /\ Flows(d)'
      BY <1>1, <2>2, <2>6, <3>4 DEF Typed, Flows
    <3> QED
      BY <1>4, <2>2, <2>3, <2>6, <3>4, <3>5 DEF OthersStay
  <2> QED
    BY <1>17, <2>4, <2>5, <2>6, WriteGoes DEF ChildExit
<1>18. ASSUME NEW c \in Clients, Connect(c) \/ TypeNothing(c) \/ Receive(c) \/ Leave(c)
       PROVE  Done
  BY <1>5, <1>18, TypeKeepsAsked
<1>19. ASSUME NEW c \in Clients, Type(c) PROVE Done
  <2>1. /\ UNCHANGED <<children, th, got>>
        /\ \A d \in Clients \ {c} : client'[d].asked = client[d].asked
        /\ client'[c].asked = client[c].asked + 1
    BY <1>19, TypeSends
  <2>2. PICK n \in {client[c].asked + 1, 0} :
          stream' = [stream EXCEPT ![Sock(c)] = Append(@, <<c, n>>)]
    BY <1>19, TypeSends
  <2> PICK q \in Seq(Command) : q = stream[Sock(c)]
    BY <1>2
  <2>3. client[c].asked \in Nat /\ <<c, n>> \in Command
    BY DEF TypeOK, Command
  <2>4. stream'[Sock(c)] = Append(q, <<c, n>>)
    BY <1>2, <2>2
  <2>5. /\ \A d \in Clients \ {c} : stream'[Sock(d)] = stream[Sock(d)]
        /\ \A d \in Clients : stream'[Rd(d)] = stream[Rd(d)]
    BY <1>2, <1>3, <2>2
  <2>6. th[c].at \in {"idle", "first"}
          => stream'[Sock(c)] # <<>> /\ Head(stream'[Sock(c)]) \in FirstLines(c)
    <3>1. CASE q = <<>>
      <4>1. th[c].at \in {"idle", "first"} => client[c].asked = 0
        BY <1>1, <3>1 DEF Typed
      <4>2. th[c].at \in {"idle", "first"} => <<c, n>> \in FirstLines(c)
        BY <2>3, <4>1 DEF FirstLines
      <4>3. Append(q, <<c, n>>) # <<>> /\ Head(Append(q, <<c, n>>)) = <<c, n>>
        BY <2>3, <3>1
      <4> QED
        BY <2>4, <4>2, <4>3
    <3>2. CASE q # <<>>
      <4>1. Append(q, <<c, n>>) # <<>> /\ Head(Append(q, <<c, n>>)) = Head(q)
        BY <2>3, <3>2
      <4>2. th[c].at \in {"idle", "first"} => Head(q) \in FirstLines(c)
        BY <1>1, <3>2 DEF Typed
      <4> QED
        BY <2>4, <4>1, <4>2
    <3> QED
      BY <3>1, <3>2
  <2>7. Typed(c)' /\ Flows(c)'
    BY <1>1, <2>1, <2>3, <2>5, <2>6, SMTT(30) DEF Typed, Flows
  <2> QED
    BY <1>1, <1>4, <2>1, <2>5, <2>7 DEF OthersStay
<1>20. ASSUME WildStore PROVE Done
  BY <1>5, <1>20 DEF WildStore
<1>21. ASSUME UNCHANGED vars PROVE Done
  BY <1>5, <1>21 DEF vars
<1>22. Done
  BY <1>7, <1>8, <1>9, <1>10, <1>11, <1>12, <1>13, <1>14, <1>15, <1>16, <1>17,
     <1>18, <1>19, <1>20, <1>21, NextCases
<1> QED
  BY <1>22 DEF Done

-----------------------------------------------------------------------------
LEMMA InvInit == Init => ShellInv
<1> SUFFICES ASSUME Init PROVE ShellInv
  OBVIOUS
<1>1. \A c \in Clients : th[c] = NewThread
  BY DEF Init
<1>2. \A c \in Clients : th[c].at = "idle" /\ th[c].forked = 0
  BY <1>1 DEF NewThread
<1>3. CountInv /\ ForkInv /\ ChildInv
  BY <1>2 DEF CountInv, ForkInv, ChildInv, Served, Init
<1>4. MatchInv
  <2>1. {c \in Clients : th[c].at \in {"close", "output", "reply", "wait"}} = {}
    BY <1>2
  <2>2. children = {}
    BY DEF Init
  <2> QED
    BY <2>1, <2>2, FS_EmptySet DEF MatchInv, EnoughChildren
<1>5. OwnInv
  BY <1>2 DEF OwnInv, Owns, Piped, Served
<1>6. FlowInv
  <2>1. ASSUME NEW c \in Clients PROVE Typed(c) /\ Flows(c)
    <3>1. /\ stream[Sock(c)] = <<>> /\ stream[Rd(c)] = <<>> /\ got[c] = <<>>
          /\ client[c].asked = 0
      BY DEF Init, Streams
    <3> QED
      BY <1>2, <3>1 DEF Typed, Flows
  <2> QED
    BY <2>1 DEF FlowInv, Init
<1> QED
  BY <1>3, <1>4, <1>5, <1>6, TypeInit DEF ShellInv

LEMMA InvHolds == Spec => []ShellInv
<1>1. ShellInv /\ [Next]_vars => ShellInv'
  BY TypeStep, CountStep, ForkStep, ChildStep, MatchStep, OwnStep, FlowStep DEF ShellInv
<1> QED
  BY InvInit, <1>1, PTL DEF Spec

(* The variables, and with them the descriptor table, the streams and the  *)
(* child processes, keep their types.                                      *)
THEOREM TypeCorrect == Spec => []TypeOK
<1>1. ShellInv => TypeOK
  BY DEF ShellInv
<1> QED
  BY InvHolds, <1>1, PTL

(* wait() never fails: the threads that have forked and have still to wait *)
(* are never more than the children, although each may reap any of them.   *)
THEOREM EnoughChildrenHold == Spec => []EnoughChildren
<1>1. ShellInv => EnoughChildren
  BY DEF ShellInv, MatchInv
<1> QED
  BY InvHolds, <1>1, PTL

(* Until some session comes to its second command, the numbers a session   *)
(* uses for its socket and its pipe stand for what it has opened.          *)
THEOREM DescriptorsOwnedHold == Spec => []DescriptorsOwned
<1>1. ASSUME ShellInv, Fresh, NEW c \in Clients
      PROVE  /\ th[c].at \notin {"idle", "gone"} => Object(th[c].sock) = Sock(c)
             /\ th[c].at \in {"fork", "close", "output", "reply", "wait", "read"}
                   => Object(th[c].r) = Rd(c)
             /\ th[c].at = "close" \/ (th[c].at = "fork" /\ th[c].forked = 0)
                   => Object(th[c].w) = Wr(c)
  <2>1. Owns(c)
    BY <1>1 DEF ShellInv, OwnInv, Orderly
  <2>2. th[c].at = "close" => th[c].forked = 1
    BY <1>1 DEF ShellInv, ForkInv, Fresh, TypeOK, ThreadState, Served
  <2> QED
    BY <2>1, <2>2 DEF Owns, Piped, Served
<1>2. ShellInv => DescriptorsOwned
  BY <1>1 DEF DescriptorsOwned
<1> QED
  BY InvHolds, <1>2, PTL

(* Until some session comes to its second command, and in a session that   *)
(* is alone for good, a client receives only output of its own first       *)
(* command.                                                                *)
THEOREM OwnFirstOutputHolds == Spec => []OwnFirstOutput
<1>1. ASSUME ShellInv, Fresh \/ no_clients <= 1, NEW c \in Clients,
             NEW m \in DOMAIN got[c]
      PROVE  got[c][m] = <<c, 1>>
  <2>1. got[c] \in Seq({<<c, 1>>})
    BY <1>1 DEF ShellInv, FlowInv, Flows, Orderly
  <2> QED
    BY <2>1
<1>2. ShellInv => OwnFirstOutput
  BY <1>1 DEF OwnFirstOutput
<1> QED
  BY InvHolds, <1>2, PTL
=============================================================================
