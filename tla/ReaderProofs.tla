---------------------------- MODULE ReaderProofs ----------------------------
(***************************************************************************)
(* Proofs about two programs that make something of a stream however it is *)
(* cut by their reads.  EchoServer prints the message of every client, for *)
(* any clients and messages.  CatCount counts the characters it is given   *)
(* right, for any files and any buffer; Char stands for the characters     *)
(* files consist of.                                                       *)
(***************************************************************************)
EXTENDS EchoServer, SequenceTheorems, WellFoundedInduction, TLAPS

(* What CatCount declares.                                                 *)
CONSTANTS Nul, Space, Newline, Missing, BufLen, ArgLists, OptionLists

VARIABLES cat, files, left, out, cnt, options, taken, option, local, count

Count == INSTANCE CatCount

-----------------------------------------------------------------------------
(* The server is reading from c, c waits to be accepted, or c has not come *)
(* that far.                                                               *)
Turn(c)   == at = "read" /\ fd = c
Queued(c) == \E i \in DOMAIN queue : queue[i] = c
Away(c)   == phase[c] \in {"start", "failed"}

Part == {"exit", "text"}

EchoType ==
    /\ at \in {"accept", "read"} /\ fd \in Clients \cup {None}
    /\ queue \in Seq(Clients)
    /\ phase \in [Clients -> {"start", "type", "close", "closed", "reset", "failed"}]
    /\ wrote \in [Clients -> Seq(Part)] /\ unread \in [Clients -> Seq(Part)]
    /\ printed \in Seq(Clients \X Part \X Nat)

(* A client connects once: it is queued once, and accepted after that.     *)
QueueInv ==
    /\ \A i, j \in DOMAIN queue : queue[i] = queue[j] => i = j
    /\ \A i \in DOMAIN queue : queue[i] # fd /\ ~Away(queue[i])
    /\ fd # None => ~Away(fd)

(* A connection that is over has nothing left to read, and its client has  *)
(* written what it will write.                                             *)
StageInv(c) ==
    /\ phase[c] \notin {"close", "closed"} => wrote[c] = <<>>
    /\ Away(c) \/ Queued(c) \/ Turn(c)
          \/ (phase[c] \in {"close", "closed"} /\ unread[c] = <<>>)

(* Of c's message n parts are printed and the others to be read, unless    *)
(* "exit" took them along.  While c is served its parts are the last.      *)
PrintInv(c, b, n) ==
    /\ b \in Nat /\ n \in Nat /\ Shows(c, b, n)
    /\ \/ /\ Len(unread[c]) = Len(wrote[c]) - n
          /\ \A i \in 1 .. Len(unread[c]) : unread[c][i] = wrote[c][n + i]
       \/ unread[c] = <<>> /\ n > 0 /\ ExitAlone(b + n)
    /\ Turn(c) => b + n = Len(printed)
    /\ Away(c) \/ Queued(c) => n = 0

EchoInv ==
    /\ EchoType /\ QueueInv
    /\ \A c \in Clients : StageInv(c) /\ \E b, n \in Nat : PrintInv(c, b, n)

LEMMA EchoInit ==
    ASSUME Init
    PROVE  EchoInv
<1> USE DEF Init
<1>1. EchoType
  BY DEF EchoType
<1>2. QueueInv
  BY DEF QueueInv
<1>3. ASSUME NEW c \in Clients PROVE StageInv(c) /\ PrintInv(c, 0, 0)
  BY DEF StageInv, PrintInv, Away, Turn, Shows
<1> QED
  BY <1>1, <1>2, <1>3 DEF EchoInv

(* What a step keeps that prints nothing.                                  *)
LEMMA PrintStays ==
    ASSUME NEW c \in Clients, NEW b, NEW n, PrintInv(c, b, n), printed' = printed,
           wrote'[c] = wrote[c], unread'[c] = unread[c],
           Turn(c)' => Turn(c), Away(c)' \/ Queued(c)' => Away(c) \/ Queued(c)
    PROVE  PrintInv(c, b, n)'
  BY DEF PrintInv, Shows, ExitAlone

LEMMA TailQueue ==
    ASSUME EchoType, QueueInv, queue # <<>>, queue' = Tail(queue)
    PROVE  /\ Head(queue) \in Clients /\ queue' \in Seq(Clients)
           /\ \A c \in Clients : Queued(c)' <=> Queued(c) /\ c # Head(queue)
           /\ \A i, j \in DOMAIN queue' : queue'[i] = queue'[j] => i = j
           /\ \A i \in DOMAIN queue' : queue'[i] # Head(queue) /\ ~Away(queue'[i])
           /\ Queued(Head(queue))
<1>1. /\ queue \in Seq(Clients) /\ Len(queue) \in Nat \ {0} /\ DOMAIN queue = 1 .. Len(queue)
      /\ Head(queue) = queue[1] /\ Head(queue) \in Clients
      /\ queue' \in Seq(Clients) /\ Len(queue') = Len(queue) - 1
      /\ DOMAIN queue' = 1 .. Len(queue) - 1
      /\ \A i \in 1 .. Len(queue) - 1 : queue'[i] = queue[i + 1]
  BY HeadTailProperties, LenProperties, EmptySeq DEF EchoType
<1>2. \A i, j \in 1 .. Len(queue) : queue[i] = queue[j] => i = j
  BY <1>1 DEF QueueInv
<1>3. \A i \in DOMAIN queue' : i \in 1 .. Len(queue) - 1 /\ i + 1 \in 1 .. Len(queue) /\ i + 1 # 1
  BY <1>1
<1>4. \A i \in DOMAIN queue' : queue'[i] # Head(queue) /\ ~Away(queue'[i])
  <2>1. 1 \in 1 .. Len(queue)
    BY <1>1
  <2> QED
    BY <1>1, <1>2, <1>3, <2>1 DEF QueueInv
<1>5. \A i, j \in DOMAIN queue' : queue'[i] = queue'[j] => i = j
  <2> SUFFICES ASSUME NEW i \in DOMAIN queue', NEW j \in DOMAIN queue', queue'[i] = queue'[j]
               PROVE  i = j
    OBVIOUS
  <2>1. queue[i + 1] = queue[j + 1] /\ i \in Nat /\ j \in Nat
    BY <1>1, <1>3
  <2>2. i + 1 = j + 1
    BY <1>2, <1>3, <2>1
  <2> QED
    BY <2>1, <2>2
<1>6. Queued(Head(queue))
  BY <1>1 DEF Queued
<1>7. \A c \in Clients : Queued(c)' => Queued(c) /\ c # Head(queue)
  BY <1>1, <1>3, <1>4 DEF Queued
<1>8. ASSUME NEW c \in Clients, Queued(c), c # Head(queue)
      PROVE  Queued(c)'
  <2>1. PICK i \in 1 .. Len(queue) : queue[i] = c
    BY <1>1, <1>8 DEF Queued
  <2>2. i # 1
    BY <1>1, <1>8, <2>1
  <2>3. i - 1 \in DOMAIN queue' /\ queue'[i - 1] = queue[i - 1 + 1] /\ i - 1 + 1 = i
    BY <1>1, <2>2
  <2> QED
    BY <2>1, <2>3 DEF Queued
<1> QED
  BY <1>1, <1>4, <1>5, <1>6, <1>7, <1>8

LEMMA AcceptStep ==
    ASSUME EchoInv, Accept
    PROVE  EchoInv'
<1> DEFINE h == Head(queue)
<1>1. /\ at = "accept" /\ queue # <<>> /\ at' = "read" /\ fd' = h /\ queue' = Tail(queue)
      /\ printed' = printed /\ phase' = phase /\ wrote' = wrote /\ unread' = unread
  BY DEF Accept
<1>2. EchoType /\ QueueInv /\ \A c \in Clients : StageInv(c) /\ \E b, n \in Nat : PrintInv(c, b, n)
  BY DEF EchoInv
<1>3. /\ h \in Clients /\ queue' \in Seq(Clients)
      /\ \A c \in Clients : Queued(c)' <=> Queued(c) /\ c # h
      /\ \A i, j \in DOMAIN queue' : queue'[i] = queue'[j] => i = j
      /\ \A i \in DOMAIN queue' : queue'[i] # h /\ ~Away(queue'[i])
      /\ Queued(h)
  BY <1>1, <1>2, TailQueue
<1> HIDE DEF h
<1>4. EchoType'
  BY <1>1, <1>2, <1>3 DEF EchoType
<1>5. ~Away(h)
  BY <1>2, <1>3 DEF QueueInv, Queued
<1>6. QueueInv'
  BY <1>1, <1>3, <1>5 DEF QueueInv, Away
<1>7. ASSUME NEW c \in Clients
      PROVE  StageInv(c)'
  BY <1>1, <1>2, <1>3 DEF StageInv, Away, Turn
<1>8. ASSUME NEW c \in Clients
      PROVE  \E b, n \in Nat : PrintInv(c, b, n)'
  <2>1. PICK b \in Nat, n \in Nat : PrintInv(c, b, n)
    BY <1>2
  <2>2. CASE c # h
    <3>1. ~Turn(c)' /\ (Away(c)' <=> Away(c))
      BY <1>1, <2>2 DEF Turn, Away
    <3>2. PrintInv(c, b, n)'
      BY <1>1, <1>3, <2>1, <3>1, PrintStays
    <3> QED
      BY <3>2
  <2>3. CASE c = h
    <3>1. n = 0 /\ Len(printed) \in Nat
      BY <1>2, <1>3, <2>1, <2>3, LenProperties DEF PrintInv, EchoType
    <3>2. PrintInv(c, Len(printed), 0)'
      BY <1>1, <2>1, <3>1 DEF PrintInv, Shows, ExitAlone
    <3> QED
      BY <3>1, <3>2
  <2> QED
    BY <2>2, <2>3
<1> QED
  BY <1>4, <1>6, <1>7, <1>8 DEF EchoInv

(* A step in which nothing is written, read or printed and nobody gets his *)
(* turn keeps what is said of every client's message.                      *)
LEMMA QuietStep ==
    ASSUME EchoInv, UNCHANGED <<printed, wrote, unread>>,
           \A c \in Clients : /\ Turn(c)' => Turn(c)
                              /\ Away(c)' \/ Queued(c)' => Away(c) \/ Queued(c)
    PROVE  \A c \in Clients : \E b, n \in Nat : PrintInv(c, b, n)'
<1> SUFFICES ASSUME NEW c \in Clients
             PROVE  \E b, n \in Nat : PrintInv(c, b, n)'
  OBVIOUS
<1>1. PICK b \in Nat, n \in Nat : PrintInv(c, b, n)
  BY DEF EchoInv
<1>2. PrintInv(c, b, n)'
  BY <1>1, PrintStays
<1> QED
  BY <1>2

(* Who is queued and served stays so while nobody comes or goes.           *)
LEMMA QueueStays ==
    ASSUME EchoType, QueueInv, UNCHANGED <<fd, queue>>,
           \A c \in Clients : Away(c)' <=> Away(c)
    PROVE  QueueInv'
<1> DEFINE Left(c) == phase'[c] \in {"start", "failed"}
<1>1. \A c \in Clients : Left(c) <=> Away(c)
  BY DEF Away
<1>2. \A i \in DOMAIN queue : queue[i] \in Clients
  BY ElementOfSeq, LenProperties DEF EchoType
<1> HIDE DEF Left
<1>3. \A i \in DOMAIN queue : queue[i] # fd /\ ~Left(queue[i])
  BY <1>1, <1>2 DEF QueueInv
<1>4. fd # None => ~Left(fd)
  BY <1>1 DEF QueueInv, EchoType
<1> QED
  BY <1>3, <1>4 DEF QueueInv, Away, Left

LEMMA AcceptFailsStep ==
    ASSUME EchoInv, AcceptFails
    PROVE  EchoInv'
<1>1. /\ at = "accept" /\ at' = "read" /\ fd' = None
      /\ UNCHANGED <<queue, phase, wrote, unread, printed>>
  BY DEF AcceptFails
<1>2. EchoType /\ QueueInv /\ \A c \in Clients : StageInv(c)
  BY DEF EchoInv
<1>3. EchoType'
  BY <1>1, <1>2 DEF EchoType
<1>4. QueueInv'
  <2>1. \A i \in DOMAIN queue : queue[i] \in Clients
    BY <1>2, ElementOfSeq, LenProperties DEF EchoType
  <2> QED
    BY <1>1, <1>2, <2>1, EchoAssumption DEF QueueInv, Away
<1>5. ASSUME NEW c \in Clients
      PROVE  StageInv(c)' /\ ~Turn(c)' /\ (Away(c)' <=> Away(c)) /\ (Queued(c)' <=> Queued(c))
  BY <1>1, <1>2, EchoAssumption DEF StageInv, Away, Turn, Queued
<1>6. \A c \in Clients : \E b, n \in Nat : PrintInv(c, b, n)'
  BY <1>1, <1>5, QuietStep
<1> QED
  BY <1>3, <1>4, <1>5, <1>6 DEF EchoInv

LEMMA ReadEofStep ==
    ASSUME EchoInv, ReadEof
    PROVE  EchoInv'
<1>1. /\ fd # None /\ unread[fd] = <<>> /\ phase[fd] = "closed" /\ at' = "accept"
      /\ UNCHANGED <<fd, queue, phase, wrote, unread, printed>>
  BY DEF ReadEof, Drained
<1>2. EchoType /\ QueueInv /\ \A c \in Clients : StageInv(c)
  BY DEF EchoInv
<1>3. EchoType' /\ QueueInv'
  BY <1>1, <1>2 DEF EchoType, QueueInv, Away
<1>4. ASSUME NEW c \in Clients
      PROVE  StageInv(c)' /\ ~Turn(c)' /\ (Away(c)' <=> Away(c)) /\ (Queued(c)' <=> Queued(c))
  BY <1>1, <1>2 DEF StageInv, Away, Turn, Queued
<1>5. \A c \in Clients : \E b, n \in Nat : PrintInv(c, b, n)'
  BY <1>1, <1>4, QuietStep
<1> QED
  BY <1>3, <1>4, <1>5 DEF EchoInv

LEMMA ReadErrorStep ==
    ASSUME EchoInv, ReadError
    PROVE  EchoInv'
<1>1. /\ fd # None /\ unread[fd] = <<>> /\ phase[fd] = "reset"
      /\ phase' = [phase EXCEPT ![fd] = "closed"]
      /\ UNCHANGED <<at, fd, queue, wrote, unread, printed>>
  BY DEF ReadError, Drained, serverVars
<1>2. EchoType /\ QueueInv /\ \A c \in Clients : StageInv(c)
  BY DEF EchoInv
<1>3. fd \in Clients /\ \A c \in Clients : phase'[c] = IF c = fd THEN "closed" ELSE phase[c]
  BY <1>1, <1>2 DEF EchoType
<1>4. \A c \in Clients : Away(c)' <=> Away(c)
  BY <1>1, <1>3 DEF Away
<1>5. EchoType'
  BY <1>1, <1>2 DEF EchoType
<1>6. QueueInv'
  BY <1>1, <1>2, <1>4, QueueStays
<1>7. ASSUME NEW c \in Clients
      PROVE  StageInv(c)' /\ (Turn(c)' <=> Turn(c)) /\ (Queued(c)' <=> Queued(c))
  BY <1>1, <1>2, <1>3, <1>4 DEF StageInv, Turn, Queued
<1>8. \A c \in Clients : \E b, n \in Nat : PrintInv(c, b, n)'
  BY <1>1, <1>4, <1>7, QuietStep
<1> QED
  BY <1>5, <1>6, <1>7, <1>8 DEF EchoInv

LEMMA ConnectStep ==
    ASSUME EchoInv, NEW d \in Clients, Connect(d)
    PROVE  EchoInv'
<1>1. /\ phase[d] = "start" /\ phase' = [phase EXCEPT ![d] = "type"]
      /\ queue' = Append(queue, d)
      /\ UNCHANGED <<at, fd, wrote, unread, printed>>
  BY DEF Connect, Transition, serverVars
<1>2. EchoType /\ QueueInv /\ \A c \in Clients : StageInv(c)
  BY DEF EchoInv
<1>3. \A c \in Clients : phase'[c] = IF c = d THEN "type" ELSE phase[c]
  BY <1>1, <1>2 DEF EchoType
<1>4. /\ Len(queue) \in Nat /\ DOMAIN queue = 1 .. Len(queue)
      /\ DOMAIN queue' = 1 .. Len(queue) + 1 /\ queue' \in Seq(Clients)
      /\ \A i \in 1 .. Len(queue) : queue'[i] = queue[i] /\ queue[i] \in Clients
      /\ queue'[Len(queue) + 1] = d
  <2>1. queue \in Seq(Clients)
    BY <1>2 DEF EchoType
  <2>2. \A i \in 1 .. Len(queue) : queue[i] \in Clients
    BY <2>1, ElementOfSeq
  <2> QED
    BY <1>1, <2>1, <2>2, AppendProperties, LenProperties
<1>5. Away(d) /\ ~Away(d)' /\ ~Queued(d) /\ fd # d
  BY <1>1, <1>2, <1>3, EchoAssumption DEF Away, QueueInv, Queued, EchoType
<1>6. \A c \in Clients \ {d} : (Away(c)' <=> Away(c)) /\ (Queued(c)' <=> Queued(c))
  BY <1>3, <1>4 DEF Away, Queued
<1>7. EchoType'
  BY <1>1, <1>2, <1>4 DEF EchoType
<1>8. QueueInv'
  <2> DEFINE Left(c) == phase'[c] \in {"start", "failed"}
  <2>1. \A c \in Clients : (Left(c) <=> Away(c) /\ c # d)
    BY <1>3, <1>5, <1>6 DEF Away
  <2> HIDE DEF Left
  <2>2. \A i \in 1 .. Len(queue) : queue[i] # d /\ queue[i] # fd /\ ~Away(queue[i])
    BY <1>2, <1>4, <1>5 DEF QueueInv, Queued
  <2>3. ASSUME NEW i \in DOMAIN queue', NEW j \in DOMAIN queue', queue'[i] = queue'[j]
        PROVE  i = j
    <3>1. /\ i \in 1 .. Len(queue) \/ i = Len(queue) + 1
          /\ j \in 1 .. Len(queue) \/ j = Len(queue) + 1
      BY <1>4
    <3>2. CASE i = Len(queue) + 1 \/ j = Len(queue) + 1
      BY <1>4, <2>2, <2>3, <3>1, <3>2
    <3>3. CASE i \in 1 .. Len(queue) /\ j \in 1 .. Len(queue)
      <4>1. queue[i] = queue[j]
        BY <1>4, <2>3, <3>3
      <4> QED
        BY <1>2, <1>4, <3>3, <4>1 DEF QueueInv
    <3> QED
      BY <3>1, <3>2, <3>3
  <2>4. ASSUME NEW i \in DOMAIN queue'
        PROVE  queue'[i] # fd' /\ ~Left(queue'[i])
    <3>1. CASE i \in 1 .. Len(queue)
      BY <1>1, <1>4, <2>1, <2>2, <3>1
    <3>2. CASE i = Len(queue) + 1
      BY <1>1, <1>4, <1>5, <2>1, <3>2
    <3> QED
      BY <1>4, <3>1, <3>2
  <2>5. fd' # None => ~Left(fd')
    <3>1. fd \in Clients \cup {None} /\ (fd # None => ~Away(fd))
      BY <1>2 DEF QueueInv, EchoType
    <3> QED
      BY <1>1, <2>1, <3>1
  <2> QED
    BY <2>3, <2>4, <2>5 DEF QueueInv, Away, Left
<1>9. ASSUME NEW c \in Clients
      PROVE  StageInv(c)' /\ (Turn(c)' <=> Turn(c)) /\ (Away(c)' \/ Queued(c)' => Away(c) \/ Queued(c))
  <2>1. Turn(c)' <=> Turn(c)
    BY <1>1 DEF Turn
  <2>2. CASE c = d
    <3>1. Queued(c)'
      BY <1>4, <2>2 DEF Queued
    <3> QED
      BY <1>1, <1>2, <1>3, <1>5, <2>1, <2>2, <3>1 DEF StageInv
  <2>3. CASE c # d
    BY <1>1, <1>2, <1>3, <1>6, <2>1, <2>3 DEF StageInv
  <2> QED
    BY <2>1, <2>2, <2>3
<1>10. \A c \in Clients : \E b, n \in Nat : PrintInv(c, b, n)'
  BY <1>1, <1>9, QuietStep
<1> QED
  BY <1>7, <1>8, <1>9, <1>10 DEF EchoInv

(* A client that comes to an end of its own.                               *)
LEMMA PhaseStep ==
    ASSUME EchoInv, NEW d \in Clients, NEW how, phase' = [phase EXCEPT ![d] = how],
           UNCHANGED <<at, fd, queue, wrote, unread, printed>>,
           \/ phase[d] = "start" /\ how = "failed"
           \/ phase[d] = "close" /\ how = "closed"
           \/ phase[d] = "type" /\ how \in {"closed", "reset"}
    PROVE  EchoInv'
<1>1. EchoType /\ QueueInv /\ \A c \in Clients : StageInv(c)
  BY DEF EchoInv
<1>2. \A c \in Clients : phase'[c] = IF c = d THEN how ELSE phase[c]
  BY <1>1 DEF EchoType
<1>3. \A c \in Clients : Away(c)' <=> Away(c)
  BY <1>2 DEF Away
<1>4. EchoType'
  BY <1>1 DEF EchoType
<1>5. QueueInv'
  BY <1>1, <1>3, QueueStays
<1>6. ASSUME NEW c \in Clients
      PROVE  StageInv(c)' /\ (Turn(c)' <=> Turn(c)) /\ (Queued(c)' <=> Queued(c))
  <2>1. (Turn(c)' <=> Turn(c)) /\ (Queued(c)' <=> Queued(c))
    BY DEF Turn, Queued
  <2> QED
    BY <1>1, <1>2, <1>3, <2>1 DEF StageInv
<1>7. \A c \in Clients : \E b, n \in Nat : PrintInv(c, b, n)'
  BY <1>3, <1>6, QuietStep
<1> QED
  BY <1>4, <1>5, <1>6, <1>7 DEF EchoInv

LEMMA WriteStep ==
    ASSUME EchoInv, NEW d \in Clients, Write(d)
    PROVE  EchoInv'
<1>1. PICK m \in Messages :
          wrote' = [wrote EXCEPT ![d] = m] /\ unread' = [unread EXCEPT ![d] = m]
  BY DEF Write
<1>2. /\ phase[d] = "type" /\ phase' = [phase EXCEPT ![d] = "close"]
      /\ UNCHANGED <<at, fd, queue, printed>>
  BY DEF Write, Transition, serverVars
<1>3. EchoType /\ QueueInv /\ \A c \in Clients : StageInv(c)
  BY DEF EchoInv
<1>4. /\ \A c \in Clients \ {d} : phase'[c] = phase[c] /\ wrote'[c] = wrote[c] /\ unread'[c] = unread[c]
      /\ phase'[d] = "close" /\ wrote'[d] = m /\ unread'[d] = m /\ wrote[d] = <<>>
  BY <1>1, <1>2, <1>3 DEF EchoType, StageInv
<1>5. \A c \in Clients : Away(c)' <=> Away(c)
  BY <1>2, <1>4 DEF Away
<1>6. EchoType'
  BY <1>1, <1>2, <1>3, EchoAssumption DEF EchoType, Part
<1>7. QueueInv'
  BY <1>2, <1>3, <1>5, QueueStays
<1>8. ASSUME NEW c \in Clients
      PROVE  StageInv(c)' /\ (Turn(c)' <=> Turn(c)) /\ (Queued(c)' <=> Queued(c))
  <2>1. (Turn(c)' <=> Turn(c)) /\ (Queued(c)' <=> Queued(c))
    BY <1>2 DEF Turn, Queued
  <2> QED
    BY <1>2, <1>3, <1>4, <1>5, <2>1 DEF StageInv, Away
<1>9. ASSUME NEW c \in Clients
      PROVE  \E b, n \in Nat : PrintInv(c, b, n)'
  <2>1. PICK b \in Nat, n \in Nat : PrintInv(c, b, n)
    BY DEF EchoInv
  <2>2. CASE c # d
    <3>1. PrintInv(c, b, n)'
      BY <1>2, <1>4, <1>5, <1>8, <2>1, <2>2, PrintStays
    <3> QED
      BY <3>1
  <2>3. CASE c = d
    <3>1. n = 0 /\ m \in Seq(Part) /\ Len(m) \in Nat
      BY <1>4, <2>1, <2>3, LenProperties, EmptySeq, EchoAssumption DEF PrintInv, Shows, Part
    <3>2. PrintInv(c, b, 0)'
      BY <1>2, <1>4, <1>8, <2>1, <2>3, <3>1 DEF PrintInv, Shows
    <3> QED
      BY <3>2
  <2> QED
    BY <2>2, <2>3
<1> QED
  BY <1>6, <1>7, <1>8, <1>9 DEF EchoInv

(* What the server prints when a read returns k parts.                     *)
LEMMA Grown ==
    ASSUME EchoType, NEW d \in Clients, NEW k \in 1 .. Len(unread[d]),
           printed' = printed \o [i \in 1 .. k |-> <<d, SubSeq(unread[d], 1, k)[i], i>>]
    PROVE  /\ printed' \in Seq(Clients \X Part \X Nat)
           /\ Len(printed) \in Nat /\ Len(printed') = Len(printed) + k
           /\ DOMAIN printed = 1 .. Len(printed) /\ DOMAIN printed' = 1 .. Len(printed) + k
           /\ \A i \in 1 .. Len(printed) : printed'[i] = printed[i]
           /\ \A i \in 1 .. k : printed'[Len(printed) + i] = <<d, unread[d][i], i>>
<1> DEFINE new == [i \in 1 .. k |-> <<d, SubSeq(unread[d], 1, k)[i], i>>]
<1>1. unread[d] \in Seq(Part) /\ Len(unread[d]) \in Nat /\ printed \in Seq(Clients \X Part \X Nat)
  BY LenProperties DEF EchoType
<1>2. \A i \in 1 .. Len(unread[d]) : unread[d][i] \in Part
  BY <1>1, ElementOfSeq
<1>3. k \in Nat /\ 1 .. k \subseteq 1 .. Len(unread[d])
  BY <1>1
<1>4. \A i \in 1 .. k : SubSeq(unread[d], 1, k)[i] = unread[d][i]
  BY <1>1, <1>2, <1>3, SubSeqProperties
<1>5. new = [i \in 1 .. k |-> <<d, unread[d][i], i>>]
  BY <1>4
<1>6. new \in Seq(Clients \X Part \X Nat) /\ Len(new) = k
  <2>1. new \in [1 .. k -> Clients \X Part \X Nat]
    BY <1>2, <1>3, <1>5
  <2> QED
    BY <1>3, <2>1, LenProperties
<1>7. \A i \in 1 .. k : new[i] = <<d, unread[d][i], i>>
  BY <1>5
<1> HIDE DEF new
<1>8. printed' = printed \o new
  BY DEF new
<1>9. /\ printed' \in Seq(Clients \X Part \X Nat) /\ Len(printed') = Len(printed) + k
      /\ \A i \in 1 .. Len(printed) + k :
            printed'[i] = IF i <= Len(printed) THEN printed[i] ELSE new[i - Len(printed)]
  <2>1. /\ printed \o new \in Seq(Clients \X Part \X Nat)
        /\ Len(printed \o new) = Len(printed) + Len(new)
        /\ \A i \in 1 .. Len(printed) + Len(new) :
              (printed \o new)[i] = IF i <= Len(printed) THEN printed[i] ELSE new[i - Len(printed)]
    BY <1>1, <1>6, ConcatProperties
  <2> QED
    BY <1>6, <1>8, <2>1
<1>10. Len(printed) \in Nat /\ DOMAIN printed = 1 .. Len(printed)
       /\ DOMAIN printed' = 1 .. Len(printed) + k
  BY <1>1, <1>9, LenProperties
<1>11. \A i \in 1 .. Len(printed) : printed'[i] = printed[i]
  BY <1>3, <1>9, <1>10
<1>12. ASSUME NEW i \in 1 .. k
       PROVE  printed'[Len(printed) + i] = <<d, unread[d][i], i>>
  <2>1. /\ Len(printed) + i \in 1 .. Len(printed) + k /\ ~(Len(printed) + i <= Len(printed))
        /\ Len(printed) + i - Len(printed) = i
    BY <1>3, <1>10
  <2> QED
    BY <1>7, <1>9, <2>1
<1> QED
  BY <1>9, <1>10, <1>11, <1>12

LEMMA ReadMessageStep ==
    ASSUME EchoInv, ReadMessage
    PROVE  EchoInv'
<1> DEFINE exit == at' = "accept"
<1>1. EchoType /\ QueueInv /\ \A c \in Clients : StageInv(c)
  BY DEF EchoInv
<1>2. PICK d \in Clients : fd = d /\ Turn(d) /\ UNCHANGED <<fd, queue, phase, wrote>>
  BY <1>1 DEF ReadMessage, EchoType, Turn
<1>3. PICK k \in 1 .. Len(unread[d]) :
          /\ printed' = printed \o [i \in 1 .. k |-> <<d, SubSeq(unread[d], 1, k)[i], i>>]
          /\ at' = IF IsExit(SubSeq(unread[d], 1, k)) THEN "accept" ELSE "read"
          /\ unread' = [unread EXCEPT ![d] = IF IsExit(SubSeq(unread[d], 1, k))
                              THEN <<>> ELSE SubSeq(unread[d], k + 1, Len(unread[d]))]
  <2>1. PICK k \in 1 .. Len(unread[fd]) :
            /\ printed' = printed \o [i \in 1 .. k |-> <<fd, SubSeq(unread[fd], 1, k)[i], i>>]
            /\ at' = IF IsExit(SubSeq(unread[fd], 1, k)) THEN "accept" ELSE "read"
            /\ unread' = [unread EXCEPT ![fd] = IF IsExit(SubSeq(unread[fd], 1, k))
                                THEN <<>> ELSE SubSeq(unread[fd], k + 1, Len(unread[fd]))]
    BY DEF ReadMessage
  <2>2. fd = d
    BY <1>2
  <2> QED
    BY <2>1, <2>2
<1>4. /\ Len(printed) \in Nat /\ Len(printed') = Len(printed) + k
      /\ DOMAIN printed = 1 .. Len(printed) /\ DOMAIN printed' = 1 .. Len(printed) + k
      /\ \A i \in 1 .. Len(printed) : printed'[i] = printed[i]
      /\ \A i \in 1 .. k : printed'[Len(printed) + i] = <<d, unread[d][i], i>>
      /\ printed' \in Seq(Clients \X Part \X Nat)
  BY <1>1, <1>2, <1>3, Grown
<1>5. /\ unread[d] \in Seq(Part) /\ Len(unread[d]) \in Nat /\ k \in Nat
      /\ \A i \in 1 .. Len(unread[d]) : unread[d][i] \in Part
  <2>1. unread[d] \in Seq(Part)
    BY <1>1, <1>2 DEF EchoType
  <2> QED
    BY <2>1, ElementOfSeq, LenProperties
<1>6. exit => k = 1 /\ unread[d][1] = "exit" /\ unread'[d] = <<>>
  <2> SUFFICES ASSUME exit
               PROVE  k = 1 /\ unread[d][1] = "exit" /\ unread'[d] = <<>>
    OBVIOUS
  <2>1. SubSeq(unread[d], 1, k) = <<"exit">> /\ unread'[d] = <<>>
    BY <1>1, <1>2, <1>3 DEF IsExit, EchoType
  <2>2. Len(SubSeq(unread[d], 1, k)) = k /\ SubSeq(unread[d], 1, k)[1] = unread[d][1]
    BY <1>5, SubSeqProperties
  <2>3. Len(<<"exit">>) = 1 /\ <<"exit">>[1] = "exit"
    OBVIOUS
  <2>4. k = 1
    BY <2>1, <2>2, <2>3
  <2>5. unread[d][1] = "exit"
    BY <2>1, <2>2, <2>3
  <2> QED
    BY <2>1, <2>4, <2>5
<1>7. ~exit => /\ at' = "read" /\ unread'[d] \in Seq(Part) /\ Len(unread'[d]) = Len(unread[d]) - k
               /\ \A i \in 1 .. Len(unread'[d]) : unread'[d][i] = unread[d][k + i]
  <2> SUFFICES ASSUME ~exit
               PROVE  /\ at' = "read" /\ unread'[d] \in Seq(Part) /\ Len(unread'[d]) = Len(unread[d]) - k
                      /\ \A i \in 1 .. Len(unread'[d]) : unread'[d][i] = unread[d][k + i]
    OBVIOUS
  <2>1. at' = "read" /\ unread'[d] = SubSeq(unread[d], k + 1, Len(unread[d]))
    BY <1>1, <1>2, <1>3 DEF EchoType
  <2>2. k + 1 \in Int /\ Len(unread[d]) \in Int /\ k <= Len(unread[d])
    BY <1>5
  <2>3. \A i \in k + 1 .. Len(unread[d]) : unread[d][i] \in Part
    BY <1>5
  <2>4. /\ SubSeq(unread[d], k + 1, Len(unread[d])) \in Seq(Part)
        /\ Len(SubSeq(unread[d], k + 1, Len(unread[d]))) = Len(unread[d]) - k
    BY <1>5, <2>2, <2>3, SubSeqProperties
  <2>5. \A i \in 1 .. Len(unread[d]) - k :
           SubSeq(unread[d], k + 1, Len(unread[d]))[i] = unread[d][k + i]
    BY <1>5, <2>2, <2>3, SubSeqProperties
  <2> QED
    BY <2>1, <2>4, <2>5
<1>8. EchoType'
  <2>1. unread' \in [Clients -> Seq(Part)] /\ at' \in {"accept", "read"}
    <3>1. unread'[d] \in Seq(Part)
      BY <1>6, <1>7, EmptySeq
    <3> QED
      BY <1>1, <1>2, <1>3, <3>1 DEF EchoType
  <2> QED
    BY <1>1, <1>2, <1>4, <2>1 DEF EchoType
<1>9. /\ \A c \in Clients \ {d} : unread'[c] = unread[c] /\ ~Turn(c) /\ ~Turn(c)'
      /\ \A c \in Clients : (Away(c)' <=> Away(c)) /\ (Queued(c)' <=> Queued(c))
      /\ ~Away(d) /\ ~Queued(d) /\ QueueInv'
  BY <1>1, <1>2, <1>3, EchoAssumption DEF EchoType, Away, Queued, QueueInv, Turn
<1>10. PICK b \in Nat, n \in Nat : PrintInv(d, b, n)
  BY <1>2 DEF EchoInv
<1>11. /\ b + n = Len(printed) /\ Len(unread[d]) = Len(wrote[d]) - n /\ Shows(d, b, n)
       /\ \A i \in 1 .. Len(unread[d]) : unread[d][i] = wrote[d][n + i]
  <2>1. unread[d] # <<>>
    BY <1>5, EmptySeq
  <2> QED
    BY <1>2, <1>10, <2>1 DEF PrintInv
<1>12. Len(wrote[d]) \in Nat /\ wrote[d] # <<>>
  <2>1. wrote[d] \in Seq(Part)
    BY <1>1, <1>2 DEF EchoType
  <2> QED
    BY <1>5, <1>11, <2>1, LenProperties, EmptySeq
<1>13. /\ Len(printed) \in Nat /\ Len(printed') = Len(printed) + k /\ b + n = Len(printed)
       /\ k \in Nat /\ k > 0 /\ k <= Len(unread[d]) /\ Len(unread[d]) \in Nat
       /\ Len(wrote[d]) = n + Len(unread[d]) /\ Len(wrote'[d]) = Len(wrote[d])
  <2>1. Len(printed) \in Nat /\ Len(printed') = Len(printed) + k /\ b + n = Len(printed)
    BY <1>4, <1>11
  <2>2. Len(unread[d]) \in Nat /\ Len(unread[d]) = Len(wrote[d]) - n /\ Len(wrote[d]) \in Nat
    BY <1>5, <1>11, <1>12
  <2>3. Len(wrote'[d]) = Len(wrote[d])
    BY <1>2
  <2> QED
    BY <2>1, <2>2, <2>3
<1>14. ASSUME NEW c \in Clients
       PROVE  StageInv(c)'
  <2>1. CASE c # d
    BY <1>1, <1>2, <1>9, <2>1 DEF StageInv
  <2>2. CASE c = d
    <3>1. phase[d] \in {"close", "closed"}
      BY <1>1, <1>2, <1>12 DEF StageInv
    <3> QED
      BY <1>2, <1>6, <1>7, <2>2, <3>1 DEF StageInv, Turn
  <2> QED
    BY <2>1, <2>2
<1>15. PrintInv(d, b, n + k)'
  <2>1. Shows(d, b, n + k)'
    <3>1. b + (n + k) <= Len(printed') /\ n + k <= Len(wrote'[d])
      BY <1>13
    <3>2. ASSUME NEW i \in DOMAIN printed'
          PROVE  printed'[i][1] = d <=> i \in b + 1 .. b + (n + k)
      <4>1. CASE i \in 1 .. Len(printed)
        <5>1. printed'[i] = printed[i] /\ (printed[i][1] = d <=> i \in b + 1 .. b + n)
          BY <1>4, <1>11, <4>1 DEF Shows
        <5>2. i \in b + 1 .. b + n <=> i \in b + 1 .. b + (n + k)
          BY <1>13, <4>1
        <5> QED
          BY <5>1, <5>2
      <4>2. CASE i \notin 1 .. Len(printed)
        <5>1. i - Len(printed) \in 1 .. k /\ i = Len(printed) + (i - Len(printed))
          BY <1>4, <1>5, <4>2
        <5>2. printed'[i] = <<d, unread[d][i - Len(printed)], i - Len(printed)>>
          BY <1>4, <5>1
        <5>3. i \in b + 1 .. b + (n + k)
          BY <1>13, <5>1
        <5> QED
          BY <5>2, <5>3
      <4> QED
        BY <4>1, <4>2
    <3>3. ASSUME NEW i \in 1 .. n + k
          PROVE  printed'[b + i][2] = wrote'[d][i]
      <4>1. CASE i <= n
        <5>1. i \in 1 .. n /\ b + i \in 1 .. Len(printed)
          BY <1>13, <4>1
        <5>2. printed'[b + i] = printed[b + i] /\ printed[b + i][2] = wrote[d][i]
          BY <1>4, <1>11, <5>1 DEF Shows
        <5> QED
          BY <1>2, <5>2
      <4>2. CASE i > n
        <5>1. /\ i - n \in 1 .. k /\ i - n \in 1 .. Len(unread[d])
              /\ b + i = Len(printed) + (i - n) /\ n + (i - n) = i
          BY <1>13, <4>2
        <5>2. printed'[Len(printed) + (i - n)] = <<d, unread[d][i - n], i - n>>
          BY <1>4, <5>1
        <5>3. unread[d][i - n] = wrote[d][n + (i - n)]
          BY <1>11, <5>1
        <5> QED
          BY <1>2, <5>1, <5>2, <5>3
      <4> QED
        BY <4>1, <4>2
    <3> QED
      BY <3>1, <3>2, <3>3 DEF Shows
  <2>2. CASE exit
    <3>1. 1 \in 1 .. k /\ b + (n + k) = Len(printed) + 1 /\ n + k \in Nat /\ n + k > 0
      <4>1. k = 1
        BY <1>6, <2>2
      <4> QED
        BY <1>13, <4>1
    <3>2. printed'[b + (n + k)] = <<d, "exit", 1>>
      BY <1>4, <1>6, <2>2, <3>1
    <3>3. ExitAlone(b + (n + k))'
      BY <3>2 DEF ExitAlone
    <3> QED
      BY <1>6, <1>9, <2>1, <2>2, <3>1, <3>3 DEF PrintInv, Turn
  <2>3. CASE ~exit
    <3>1. /\ n + k \in Nat /\ Len(unread'[d]) = Len(wrote'[d]) - (n + k)
          /\ b + (n + k) = Len(printed')
      <4>1. Len(unread'[d]) = Len(unread[d]) - k
        BY <1>7, <2>3
      <4> QED
        BY <1>13, <4>1
    <3>2. ASSUME NEW i \in 1 .. Len(unread'[d])
          PROVE  unread'[d][i] = wrote'[d][(n + k) + i]
      <4>1. k + i \in 1 .. Len(unread[d]) /\ n + (k + i) = (n + k) + i
        BY <1>5, <1>7, <2>3
      <4> QED
        BY <1>2, <1>7, <1>11, <2>3, <4>1
    <3> QED
      BY <1>9, <2>1, <3>1, <3>2 DEF PrintInv
  <2> QED
    BY <2>2, <2>3
<1>16. ASSUME NEW c \in Clients, c # d
       PROVE  \E x, y \in Nat : PrintInv(c, x, y)'
  <2>1. PICK x \in Nat, y \in Nat : PrintInv(c, x, y)
    BY DEF EchoInv
  <2>2. x + y <= Len(printed)
    BY <2>1 DEF PrintInv, Shows
  <2>3. Shows(c, x, y)'
    <3>1. ASSUME NEW i \in DOMAIN printed'
          PROVE  printed'[i][1] = c <=> i \in x + 1 .. x + y
      <4>1. CASE i \in 1 .. Len(printed)
        BY <1>4, <2>1, <4>1 DEF PrintInv, Shows
      <4>2. CASE i \notin 1 .. Len(printed)
        <5>1. i - Len(printed) \in 1 .. k /\ i = Len(printed) + (i - Len(printed))
          BY <1>4, <1>5, <4>2
        <5>2. printed'[i][1] = d
          BY <1>4, <5>1
        <5>3. i > x + y
          BY <1>13, <2>2, <5>1
        <5>4. i \notin x + 1 .. x + y
          BY <1>13, <5>1, <5>3
        <5> QED
          BY <1>16, <5>2, <5>4
      <4> QED
        BY <4>1, <4>2
    <3>2. ASSUME NEW i \in 1 .. y
          PROVE  printed'[x + i][2] = wrote'[c][i]
      <4>1. x + i \in 1 .. Len(printed)
        BY <1>13, <2>2
      <4> QED
        BY <1>2, <1>4, <2>1, <4>1 DEF PrintInv, Shows
    <3>3. x + y <= Len(printed') /\ y <= Len(wrote'[c])
      <4>1. y <= Len(wrote'[c])
        BY <1>2, <2>1 DEF PrintInv, Shows
      <4> QED
        BY <1>13, <2>2, <4>1
    <3> QED
      BY <3>1, <3>2, <3>3 DEF Shows
  <2>4. y > 0 /\ ExitAlone(x + y) => ExitAlone(x + y)'
    <3>1. y > 0 => x + y \in 1 .. Len(printed)
      BY <1>13, <2>2
    <3> QED
      BY <1>4, <3>1 DEF ExitAlone
  <2>5. PrintInv(c, x, y)'
    BY <1>2, <1>9, <1>16, <2>1, <2>3, <2>4 DEF PrintInv
  <2> QED
    BY <2>5
<1>17. \A c \in Clients : \E x, y \in Nat : PrintInv(c, x, y)'
  <2>1. n + k \in Nat
    BY <1>5
  <2> QED
    BY <1>15, <1>16, <2>1
<1> QED
  BY <1>8, <1>9, <1>14, <1>17 DEF EchoInv

LEMMA EchoNext ==
    ASSUME EchoInv, Next
    PROVE  EchoInv'
<1>1. CASE Server
  BY <1>1, AcceptStep, ReadMessageStep, ReadEofStep, ReadErrorStep DEF Server
<1>2. CASE AcceptFails
  BY <1>2, AcceptFailsStep
<1>3. ASSUME NEW c \in Clients, Client(c)
      PROVE  EchoInv'
  <2>1. CASE Connect(c)
    BY <2>1, ConnectStep
  <2>2. CASE ConnectFails(c)
    <3>1. /\ phase[c] = "start" /\ phase' = [phase EXCEPT ![c] = "failed"]
          /\ UNCHANGED <<at, fd, queue, wrote, unread, printed>>
      BY <2>2 DEF ConnectFails, Transition, serverVars
    <3> QED
      BY <3>1, PhaseStep
  <2>3. CASE Write(c)
    BY <2>3, WriteStep
  <2>4. CASE Close(c)
    <3>1. /\ phase[c] = "close" /\ phase' = [phase EXCEPT ![c] = "closed"]
          /\ UNCHANGED <<at, fd, queue, wrote, unread, printed>>
      BY <2>4 DEF Close, Transition, serverVars
    <3> QED
      BY <3>1, PhaseStep
  <2>5. CASE Leave(c)
    <3>1. PICK how \in {"closed", "reset"} :
              /\ phase[c] = "type" /\ phase' = [phase EXCEPT ![c] = how]
              /\ UNCHANGED <<at, fd, queue, wrote, unread, printed>>
      BY <2>5 DEF Leave, Transition, serverVars
    <3> QED
      BY <3>1, PhaseStep
  <2> QED
    BY <1>3, <2>1, <2>2, <2>3, <2>4, <2>5 DEF Client
<1> QED
  BY <1>1, <1>2, <1>3 DEF Next

LEMMA EchoStutter ==
    ASSUME EchoInv, UNCHANGED vars
    PROVE  EchoInv'
<1>1. UNCHANGED <<at, fd, queue, phase, wrote, unread, printed>>
  BY DEF vars, serverVars
<1> QED
  BY <1>1 DEF EchoInv, EchoType, QueueInv, StageInv, PrintInv, Turn, Queued, Away,
              Shows, ExitAlone

(* In what a reader of the server's output sees, every client's message    *)
(* stands in one piece and in order however often read() cut it, and it is *)
(* whole when the server turns to the next connection, unless a read       *)
(* returned "exit" and nothing with it: for any clients, queue and         *)
(* messages, and however many calls fail.                                  *)
THEOREM MessagePrintedHolds == Spec => []MessagePrinted
<1>1. Init => EchoInv
  BY EchoInit
<1>2. EchoInv /\ [Next]_vars => EchoInv'
  BY EchoNext, EchoStutter
<1>3. EchoInv => MessagePrinted
  <2> SUFFICES ASSUME EchoInv, NEW c \in Clients
               PROVE  \E b, n \in 0 .. Len(printed) :
                         /\ Shows(c, b, n)
                         /\ Over(c) => n = Len(wrote[c]) \/ (n > 0 /\ ExitAlone(b + n))
    BY DEF MessagePrinted
  <2>1. PICK b \in Nat, n \in Nat : PrintInv(c, b, n)
    BY DEF EchoInv
  <2>2. Len(printed) \in Nat /\ Len(wrote[c]) \in Nat
    BY LenProperties DEF EchoInv, EchoType
  <2>3. b \in 0 .. Len(printed) /\ n \in 0 .. Len(printed) /\ Shows(c, b, n)
    BY <2>1, <2>2 DEF PrintInv, Shows
  <2>4. ASSUME Over(c)
        PROVE  n = Len(wrote[c]) \/ (n > 0 /\ ExitAlone(b + n))
    <3>1. unread[c] = <<>>
      BY <2>4 DEF EchoInv, StageInv, Over, Away, Queued, Turn
    <3>2. Len(unread[c]) = 0
      BY <3>1
    <3> QED
      BY <2>1, <2>2, <3>2 DEF PrintInv, Shows
  <2> QED
    BY <2>3, <2>4
<1> QED
  BY <1>1, <1>2, <1>3, PTL DEF Spec

-----------------------------------------------------------------------------
(* CatCount.  What strlen() returns.                                       *)

LEMMA StrLenExists ==
    ASSUME NEW S, NEW s \in Seq(S)
    PROVE  \E n \in 0 .. Len(s) :
              /\ \A i \in 1 .. n : s[i] # Nul
              /\ n = Len(s) \/ s[n + 1] = Nul
<1> DEFINE T == {n \in Nat : n = Len(s) \/ (n < Len(s) /\ s[n + 1] = Nul)}
<1>1. T \subseteq Nat /\ T # {}
  <2>1. Len(s) \in T
    BY LenProperties
  <2> QED
    BY <2>1
<1> DEFINE Less == {p \in Nat \X Nat : p[1] < p[2]}
<1>2. PICK n \in T : \A m \in T : ~(<<m, n>> \in Less)
  <2>1. IsWellFoundedOn(Less, Nat)
    BY NatLessThanWellFounded DEF OpToRel
  <2> HIDE DEF T, Less
  <2> QED
    BY <1>1, <2>1, WFMin
<1>3. \A m \in T : ~(m < n)
  BY <1>2
<1>4. n \in 0 .. Len(s) /\ (n = Len(s) \/ s[n + 1] = Nul)
  BY LenProperties
<1>5. \A i \in 1 .. n : s[i] # Nul
  <2> SUFFICES ASSUME NEW i \in 1 .. n, s[i] = Nul
               PROVE  FALSE
    OBVIOUS
  <2>1. i - 1 \in T /\ i - 1 < n
    BY <1>4, LenProperties
  <2> QED
    BY <2>1, <1>3
<1> QED
  BY <1>4, <1>5

LEMMA StrLenType ==
    ASSUME NEW S, NEW s \in Seq(S)
    PROVE  /\ Count!StrLen(s) \in 0 .. Len(s)
           /\ \A i \in 1 .. Count!StrLen(s) : s[i] # Nul
           /\ Count!StrLen(s) = Len(s) \/ s[Count!StrLen(s) + 1] = Nul
  BY StrLenExists DEF Count!StrLen

(* What is printed contains no zero.                                       *)
LEMMA TerminatedType ==
    ASSUME NEW S, NEW s \in Seq(S)
    PROVE  Count!Terminated(s) \in Seq(S \ {Nul})
<1>1. \A i \in 1 .. Count!StrLen(s) : s[i] \in S \ {Nul}
  BY StrLenType, ElementOfSeq
<1>2. 1 \in Int /\ Count!StrLen(s) \in Int
  BY StrLenType, LenProperties
<1> QED
  BY <1>1, <1>2, SubSeqProperties DEF Count!Terminated

LEMMA StrLenFull ==
    ASSUME NEW S, NEW s \in Seq(S \ {Nul})
    PROVE  Count!StrLen(s) = Len(s)
<1>1. \A i \in 1 .. Len(s) : s[i] # Nul
  BY ElementOfSeq
<1> QED
  BY <1>1, StrLenType, LenProperties

-----------------------------------------------------------------------------
(* What is printed has no zero in it, and of that taken characters have    *)
(* been counted; the count is complete when cat has ended.                 *)
CountInv(Char) ==
    /\ files \in Seq(Seq(Char) \cup {Missing})
    /\ left \in Seq(Char)
    /\ out \in Seq(Char \ {Nul})
    /\ options = <<"c">> =>
          /\ option \in {0, 1}
          /\ taken \in 0 .. Len(out)
          /\ option = 0 => taken = 0 /\ cnt = "getopt"
          /\ cnt = "read" => local = taken
          /\ cnt = "printed" \/ (cnt = "getopt" /\ option = 1)
                => cat = "exit" /\ count = Len(out)

LEMMA CountInit ==
    ASSUME NEW Char, ArgLists \subseteq Seq(Seq(Char) \cup {Missing}), Count!Init
    PROVE  CountInv(Char)
  BY EmptySeq DEF Count!Init, Count!InitCat, Count!W!InitCnt, CountInv

LEMMA CatStep ==
    ASSUME NEW Char, CountInv(Char), Count!NextCat, UNCHANGED Count!cntVars
    PROVE  CountInv(Char)'
<1> USE DEF Count!cntVars, CountInv
<1>1. CASE Count!Open
  <2>1. Head(files) \in Seq(Char) /\ Tail(files) \in Seq(Seq(Char) \cup {Missing})
    BY <1>1, HeadTailProperties DEF Count!Open
  <2> QED
    BY <1>1, <2>1 DEF Count!Open
<1>2. CASE Count!OpenFails
  BY <1>2 DEF Count!OpenFails
<1>3. CASE Count!Copy
  <2>1. PICK n \in 1 .. Len(left) :
            /\ out' = out \o Count!Terminated(SubSeq(left, 1, n))
            /\ left' = SubSeq(left, n + 1, Len(left))
    BY <1>3 DEF Count!Copy
  <2>2. \A i \in 1 .. Len(left) : left[i] \in Char
    BY ElementOfSeq
  <2>3. n \in Int /\ n + 1 \in Int /\ Len(left) \in Int /\ n <= Len(left)
    BY LenProperties
  <2>4. SubSeq(left, 1, n) \in Seq(Char) /\ left' \in Seq(Char)
    BY <2>1, <2>2, <2>3, SubSeqProperties
  <2>5. Count!Terminated(SubSeq(left, 1, n)) \in Seq(Char \ {Nul})
    BY <2>4, TerminatedType
  <2>6. out' \in Seq(Char \ {Nul}) /\ Len(out') >= Len(out)
    BY <2>1, <2>5, ConcatProperties, LenProperties
  <2> QED
    BY <1>3, <2>4, <2>6, LenProperties DEF Count!Copy
<1>4. CASE Count!EndOfFile
  BY <1>4, EmptySeq DEF Count!EndOfFile
<1>5. CASE Count!ExitCat
  BY <1>5 DEF Count!ExitCat
<1> QED
  BY <1>1, <1>2, <1>3, <1>4, <1>5 DEF Count!NextCat

LEMMA CntStep ==
    ASSUME NEW Char, CountInv(Char), Count!W!NextCnt, UNCHANGED Count!catVars
    PROVE  CountInv(Char)'
<1> USE DEF Count!catVars, CountInv
<1>1. CASE Count!W!GetOption
  BY <1>1 DEF Count!W!GetOption
<1>2. CASE Count!W!Read
  <2>1. PICK n \in 1 .. Len(out) - taken :
            /\ local' = local + Count!W!Counted(SubSeq(out, taken + 1, taken + n))
            /\ taken' = taken + n
    BY <1>2 DEF Count!W!Read
  <2>2. ASSUME options = <<"c">>
        PROVE  Count!W!Counted(SubSeq(out, taken + 1, taken + n)) = n
                 /\ taken' \in 0 .. Len(out) /\ local' = taken'
    <3>1. taken \in Nat /\ n \in Nat /\ Len(out) \in Nat /\ taken + n <= Len(out)
      BY <2>2, LenProperties
    <3>2. \A i \in taken + 1 .. taken + n : out[i] \in Char \ {Nul}
      BY <3>1, ElementOfSeq
    <3>3. /\ SubSeq(out, taken + 1, taken + n) \in Seq(Char \ {Nul})
          /\ Len(SubSeq(out, taken + 1, taken + n)) = n
      BY <3>1, <3>2, SubSeqProperties
    <3>4. options[option] = "c"
      BY <1>2, <2>2 DEF Count!W!Read
    <3>5. Count!W!Counted(SubSeq(out, taken + 1, taken + n)) = n
      <4> DEFINE s == SubSeq(out, taken + 1, taken + n)
      <4>1. Count!W!Counted(s) = Count!W!StrLen(s)
        BY <3>4 DEF Count!W!Counted
      <4>2. Count!W!StrLen(s) = Count!StrLen(s)
        BY DEF Count!W!StrLen, Count!StrLen
      <4> QED
        BY <3>3, <4>1, <4>2, StrLenFull
    <3> QED
      BY <1>2, <2>1, <2>2, <3>1, <3>5 DEF Count!W!Read
  <2> QED
    BY <1>2, <2>2 DEF Count!W!Read
<1>3. CASE Count!W!ReadEnd
  BY <1>3 DEF Count!W!ReadEnd
<1>4. CASE Count!W!ReadFails
  BY <1>4 DEF Count!W!ReadFails
<1>5. CASE Count!W!PrintCount
  BY <1>5 DEF Count!W!PrintCount
<1> QED
  BY <1>1, <1>2, <1>3, <1>4, <1>5 DEF Count!W!NextCnt

(* The number that cnt2.cpp prints with -c is the number of characters it  *)
(* was given, whatever the files and wherever its reads and those of       *)
(* cat2.cpp divide them.                                                   *)
THEOREM CharsCountedHolds ==
    ASSUME NEW Char, ArgLists \subseteq Seq(Seq(Char) \cup {Missing})
    PROVE  Count!Spec => []Count!CharsCounted
<1>1. Count!Init => CountInv(Char)
  BY CountInit
<1>2. CountInv(Char) /\ [Count!Next]_(Count!vars) => CountInv(Char)'
  <2>1. ASSUME CountInv(Char), Count!Next
        PROVE  CountInv(Char)'
    BY <2>1, CatStep, CntStep DEF Count!Next
  <2>2. ASSUME CountInv(Char), UNCHANGED Count!vars
        PROVE  CountInv(Char)'
    BY <2>2 DEF CountInv, Count!vars, Count!catVars, Count!cntVars
  <2> QED
    BY <2>1, <2>2
<1>3. CountInv(Char) => Count!CharsCounted
  BY DEF CountInv, Count!CharsCounted
<1> QED
  BY <1>1, <1>2, <1>3, PTL DEF Count!Spec
=============================================================================
