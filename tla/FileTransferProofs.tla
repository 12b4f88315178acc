------------------------ MODULE FileTransferProofs ------------------------
(***************************************************************************)
(* Proofs about FileTransfer for any clients, files and sizes: the server  *)
(* answers one client in its life, no other gets past waiting, the file is *)
(* that client's, complete if it reports success, and what stops the       *)
(* server is a later client that waits for an answer.                      *)
(***************************************************************************)
EXTENDS FileTransfer, SequenceTheorems, TLAPS

(* init is the memory of having answered, and granted of whom.             *)
AnswerInv ==
    /\ phase \in [Clients -> Phases]
    /\ ok \in [Clients -> BOOLEAN]
    /\ serving \in Clients \cup {None}
    /\ backlog \in Seq(Clients)
    /\ init <=> granted # None
    /\ OnlyOneAnswered

LEMMA AnswerInit == Init => AnswerInv
  BY DEF Init, AnswerInv, OnlyOneAnswered, Phases

(* A client that moves without being answered stays within the invariant.  *)
LEMMA MoveStep ==
    ASSUME AnswerInv, NEW c \in Clients, NEW to \in Phases,
           phase' = [phase EXCEPT ![c] = to],
           \/ to \in {"size", "wait", "killed"}
           \/ granted = c,
           ok' = ok \/ ok' = [ok EXCEPT ![c] = FALSE],
           UNCHANGED <<serving, init, granted>>, backlog' \in Seq(Clients)
    PROVE  AnswerInv'
<1>1. phase' \in [Clients -> Phases] /\ ok' \in [Clients -> BOOLEAN]
  BY DEF AnswerInv
<1>2. ASSUME NEW d \in Clients,
             ok'[d] \/ phase'[d] \in {"send", "sent", "refused"}
      PROVE  granted' = d
  BY <1>2 DEF AnswerInv, OnlyOneAnswered
<1> QED
  BY <1>1, <1>2 DEF AnswerInv, OnlyOneAnswered

LEMMA AnswerStep == AnswerInv /\ [Next]_vars => AnswerInv'
<1> SUFFICES ASSUME AnswerInv, [Next]_vars
             PROVE  AnswerInv'
  OBVIOUS
<1>1. ASSUME NEW c \in Clients, Connect(c) PROVE AnswerInv'
  <2>1. Append(backlog, c) \in Seq(Clients)
    BY DEF AnswerInv
  <2> QED
    BY <1>1, <2>1, MoveStep DEF Connect, Move, Phases
<1>2. ASSUME NEW c \in Clients, SendSize(c) PROVE AnswerInv'
  BY <1>2, MoveStep DEF SendSize, Move, Phases, AnswerInv
<1>3. ASSUME NEW c \in Clients, ReadReply(c) PROVE AnswerInv'
  <2>1. granted = c
    BY <1>3 DEF ReadReply, AnswerInv, OnlyOneAnswered
  <2>2. PICK to \in {"send", "refused"} : phase' = [phase EXCEPT ![c] = to]
    BY <1>3 DEF ReadReply, Move
  <2> QED
    BY <1>3, <2>1, <2>2, MoveStep DEF ReadReply, Phases, AnswerInv
<1>4. ASSUME NEW c \in Clients, NoFile(c) \/ SendDone(c) PROVE AnswerInv'
  <2>1. granted = c
    BY <1>4 DEF NoFile, SendDone, Move, AnswerInv, OnlyOneAnswered
  <2>2. PICK to \in {"sent", "refused"} : phase' = [phase EXCEPT ![c] = to]
    BY <1>4 DEF NoFile, SendDone, Move
  <2> QED
    BY <1>4, <2>1, <2>2, MoveStep DEF NoFile, SendDone, Phases, AnswerInv
<1>5. ASSUME NEW c \in Clients, Kill(c) PROVE AnswerInv'
  BY <1>5, MoveStep DEF Kill, Phases, AnswerInv
<1>6. CASE \/ \E c \in Clients : SendPiece(c)
           \/ \E k \in 1 .. Chunks + 2 : ReadData(k)
           \/ AcceptFails \/ UNCHANGED vars
  <2>1. UNCHANGED <<phase, ok, serving, backlog, init, granted>>
    BY <1>6 DEF SendPiece, ReadData, Received, AcceptFails, vars, clientVars
  <2> QED
    BY <2>1 DEF AnswerInv, OnlyOneAnswered
<1>7. CASE Accept
  <2>1. /\ UNCHANGED <<phase, ok, init, granted>>
        /\ serving' \in Clients /\ backlog' \in Seq(Clients)
    BY <1>7 DEF Accept, clientVars, AnswerInv
  <2> QED
    BY <2>1 DEF AnswerInv, OnlyOneAnswered
<1>8. CASE EndSession
  <2>1. UNCHANGED <<phase, ok, backlog, init, granted>> /\ serving' = None
    BY <1>8 DEF EndSession, clientVars
  <2> QED
    BY <2>1 DEF AnswerInv, OnlyOneAnswered
<1>9. ASSUME NEW k \in 1 .. Chunks + 2, ReadFirst(k) PROVE AnswerInv'
  <2>1. /\ UNCHANGED <<phase, serving, backlog>>
        /\ serving \in Clients /\ ~init /\ init' = TRUE /\ granted' = serving
        /\ ok' = [ok EXCEPT ![serving] = TRUE]
    BY <1>9 DEF ReadFirst, Received, clientVars, AnswerInv
  <2>2. \A c \in Clients : ~ok[c] /\ phase[c] \notin {"send", "sent", "refused"}
    BY <2>1, TransferAssumption DEF AnswerInv, OnlyOneAnswered
  <2>3. ok' \in [Clients -> BOOLEAN]
    BY <2>1 DEF AnswerInv
  <2>4. OnlyOneAnswered'
    BY <2>1, <2>2 DEF AnswerInv, OnlyOneAnswered
  <2> QED
    BY <2>1, <2>3, <2>4, TransferAssumption DEF AnswerInv
<1> QED
  BY <1>1, <1>2, <1>3, <1>4, <1>5, <1>6, <1>7, <1>8, <1>9
     DEF Next, Server, Client

(* Whoever else connects, waits or leaves, one client is answered.         *)
THEOREM OneAnswer == Spec => []OnlyOneAnswered
<1>1. AnswerInv => OnlyOneAnswered
  BY DEF AnswerInv
<1> QED
  BY <1>1, AnswerInit, AnswerStep, PTL DEF Spec
-----------------------------------------------------------------------------
(* The stages of a client: what it has sent, and that it is closed once it *)
(* is no longer served.                                                    *)
ClientInv ==
    \A c \in Clients :
        /\ phase[c] \in {"start", "size"} => up[c] = <<>> /\ c # granted
        /\ IF phase[c] = "sent" THEN pos[c] = Pieces ELSE pos[c] <= Chunks
        /\ c # granted => pos[c] = 0 /\ up[c] \in {<<>>, <<0>>}
        /\ c = granted => /\ Len(up[c]) <= pos[c]
                          /\ \A i \in 1 .. Len(up[c]) : up[c][i] = pos[c] - Len(up[c]) + i
                          /\ serving # c => Closed(c) /\ up[c] = <<>>

(* Nobody is accepted twice.                                               *)
Queued(c) == \E i \in 1 .. Len(backlog) : backlog[i] = c

QueueInv ==
    /\ \A i, j \in 1 .. Len(backlog) : backlog[i] = backlog[j] => i = j
    /\ \A c \in Clients : phase[c] = "start" => c # serving
    /\ \A c \in Clients : Queued(c) => phase[c] # "start" /\ c # serving /\ c # granted

ModeInv ==
    /\ serving # None => fd \in {"open", "bad"} /\ mode # "absent"
    /\ fd = "bad" => mode = "readonly"

(* output.txt begins with n pieces of the client that was answered, and    *)
(* nothing but sizes follows.                                              *)
Holds(n) ==
    /\ n \in 0 .. Pieces /\ n <= Len(out)
    /\ \A i \in 1 .. n : out[i] = <<granted, i>>
    /\ \A i \in n + 1 .. Len(out) : out[i][2] = 0

(* The file can be written for as long as the client that was answered is  *)
(* served, and could be when nobody can tell any more.                     *)
Kept == IF serving = granted THEN fd = "open" ELSE mode # "readonly"

(* Unless the file could not be opened these are all the server has read.  *)
FileInv ==
    /\ granted = None => out = <<>>
    /\ granted # None =>
          \E n \in 0 .. Pieces :
              /\ Holds(n)
              /\ serving = granted => n = Len(out)
              /\ Kept => n = pos[granted] - Len(up[granted])

-----------------------------------------------------------------------------
LEMMA TypeInit == Init => TypeOK
<1> SUFFICES ASSUME Init PROVE TypeOK
  OBVIOUS
<1>1. <<>> \in Seq(0 .. Pieces) /\ <<>> \in Seq(Clients \X (0 .. Pieces)) /\ <<>> \in Seq(Clients)
  BY EmptySeq
<1>2. 0 \in 0 .. Pieces
  BY TransferAssumption DEF Pieces
<1> QED
  BY <1>1, <1>2 DEF Init, TypeOK, Phases

LEMMA TypeStep == TypeOK /\ [Next]_vars => TypeOK'
<1> SUFFICES ASSUME TypeOK, [Next]_vars
             PROVE  TypeOK'
  OBVIOUS
<1> USE TransferAssumption DEF TypeOK, Pieces
<1>1. ASSUME NEW c \in Clients, Connect(c) PROVE TypeOK'
  BY <1>1 DEF Connect, Move, Phases, fileVars
<1>2. ASSUME NEW c \in Clients, SendSize(c) PROVE TypeOK'
  BY <1>2 DEF SendSize, Move, Phases, fileVars
<1>3. ASSUME NEW c \in Clients, ReadReply(c) PROVE TypeOK'
  BY <1>3 DEF ReadReply, Move, Phases, fileVars
<1>4. ASSUME NEW c \in Clients, NoFile(c) PROVE TypeOK'
  BY <1>4 DEF NoFile, Move, Phases, fileVars
<1>5. ASSUME NEW c \in Clients, SendPiece(c) PROVE TypeOK'
  <2>1. pos[c] + 1 \in 0 .. Chunks + 1
    BY <1>5 DEF SendPiece
  <2> QED
    BY <1>5, <2>1, SMTT(30) DEF SendPiece, fileVars
<1>6. ASSUME NEW c \in Clients, SendDone(c) PROVE TypeOK'
  BY <1>6 DEF SendDone, Move, Phases, fileVars
<1>7. ASSUME NEW c \in Clients, Kill(c) PROVE TypeOK'
  BY <1>7 DEF Kill, Phases, fileVars
<1>8. CASE Accept
  BY <1>8, SMTT(30) DEF Accept, Created, clientVars
<1>9. ASSUME NEW k \in 1 .. Chunks + 2, ReadFirst(k) \/ ReadData(k) PROVE TypeOK'
  <2>1. /\ serving \in Clients /\ k <= Len(up[serving])
        /\ up' = [up EXCEPT ![serving] = SubSeq(@, k + 1, Len(@))]
        /\ UNCHANGED <<clientVars, backlog, serving, fd, mode>>
    BY <1>9 DEF ReadFirst, ReadData, Received
  <2>2. SubSeq(up[serving], k + 1, Len(up[serving])) \in Seq(0 .. Chunks + 1)
    BY <2>1, SMTT(30)
  <2>3. up' \in [Clients -> Seq(0 .. Chunks + 1)]
    BY <2>1, <2>2
  <2>4. ok' \in [Clients -> BOOLEAN] /\ init' \in BOOLEAN /\ granted' \in Clients \cup {None}
    BY <1>9, <2>1 DEF ReadFirst, ReadData
  <2>5. Saved(k) \in Seq(Clients \X (0 .. Chunks + 1))
    BY <2>1 DEF Saved
  <2>6. out' \in Seq(Clients \X (0 .. Chunks + 1))
    <3>1. out' = out \/ out' = out \o Saved(k)
      BY <1>9 DEF ReadFirst, ReadData
    <3>2. out \in Seq(Clients \X (0 .. Chunks + 1))
      OBVIOUS
    <3> HIDE DEF TypeOK, Pieces
    <3>3. out \o Saved(k) \in Seq(Clients \X (0 .. Chunks + 1))
      BY <2>5, <3>2, ConcatProperties
    <3> QED
      BY <3>1, <3>2, <3>3
  <2> QED
    BY <2>1, <2>3, <2>4, <2>6 DEF clientVars
<1>10. CASE EndSession
  BY <1>10 DEF EndSession, clientVars
<1>11. CASE AcceptFails
  BY <1>11, SMTT(30) DEF AcceptFails, Created, clientVars
<1>12. CASE UNCHANGED vars
  BY <1>12 DEF vars, clientVars, fileVars
<1> QED
  BY <1>1, <1>2, <1>3, <1>4, <1>5, <1>6, <1>7, <1>8, <1>9, <1>10, <1>11, <1>12
     DEF Next, Server, Client

(* Every variable keeps to its type; a client sends no piece it has not.   *)
THEOREM TypeCorrect == Spec => []TypeOK
<1> QED
  BY TypeInit, TypeStep, PTL DEF Spec
-----------------------------------------------------------------------------
StageInv == AnswerInv /\ TypeOK /\ ClientInv /\ QueueInv /\ ModeInv

LEMMA StageInit == Init => StageInv
<1> SUFFICES ASSUME Init PROVE StageInv
  OBVIOUS
<1>1. ClientInv
  BY TransferAssumption DEF Init, ClientInv
<1>2. QueueInv
  BY TransferAssumption DEF Init, QueueInv, Queued
<1>3. ModeInv
  BY DEF Init, ModeInv
<1> QED
  BY <1>1, <1>2, <1>3, AnswerInit, TypeInit DEF StageInv

(* Only the client that moves has a new stage to be shown.                 *)
LEMMA ClientStep ==
    ASSUME StageInv, NEW c \in Clients, Connect(c) \/ Client(c) \/ Kill(c)
    PROVE  ClientInv'
<1>1. UNCHANGED <<serving, granted>>
  BY DEF Connect, Client, SendSize, ReadReply, NoFile, SendPiece, SendDone, Kill
<1>2. ASSUME NEW d \in Clients, d # c
      PROVE  phase'[d] = phase[d] /\ pos'[d] = pos[d] /\ up'[d] = up[d]
  BY <1>2 DEF StageInv, TypeOK, Move,
       Connect, Client, SendSize, ReadReply, NoFile, SendPiece, SendDone, Kill
<1> DEFINE Same(d) == pos'[d] = pos[d] /\ up'[d] = up[d]
<1>3. ASSUME Connect(c) \/ Kill(c) \/ NoFile(c) \/ ReadReply(c)
      PROVE  /\ Same(c) /\ phase[c] # "sent" /\ phase'[c] # "sent" /\ ~Closed(c)
             /\ phase'[c] \in {"start", "size"} => phase[c] = "start"
  BY <1>3 DEF StageInv, TypeOK, Move, Closed, Connect, Kill, NoFile, ReadReply
<1>4. CASE Connect(c) \/ Kill(c) \/ NoFile(c) \/ ReadReply(c)
  BY <1>1, <1>2, <1>3, <1>4 DEF StageInv, ClientInv, Closed
<1>5. CASE SendSize(c)
  <2>1. /\ phase[c] = "size" /\ phase'[c] = "wait" /\ pos'[c] = pos[c]
        /\ up'[c] = Append(up[c], 0)
    BY <1>5 DEF SendSize, Move, StageInv, TypeOK
  <2>2. up[c] = <<>> /\ c # granted
    BY <2>1 DEF StageInv, ClientInv
  <2>3. up'[c] = <<0>>
    BY <2>1, <2>2
  <2>4. pos[c] = 0 /\ 0 <= Chunks
    BY <2>2, TransferAssumption DEF StageInv, ClientInv
  <2>5. SUFFICES ASSUME NEW d \in Clients, d # c, ClientInv
                 PROVE  ClientInv!(d)'
    BY <1>1, <2>1, <2>2, <2>3, <2>4 DEF StageInv, ClientInv
  <2> QED
    BY <1>1, <1>2, <2>5 DEF ClientInv, Closed
<1>6. CASE SendPiece(c) \/ SendDone(c)
  <2>1. /\ phase[c] = "send" /\ pos'[c] = pos[c] + 1
        /\ IF phase'[c] = "sent" THEN pos'[c] = Pieces
                                 ELSE phase'[c] = "send" /\ pos'[c] <= Chunks
        /\ up'[c] = Append(up[c], pos[c] + 1)
    BY <1>6, TransferAssumption, SMTT(30) DEF SendPiece, SendDone, Move, StageInv, TypeOK, Pieces
  <2>2. c = granted /\ serving = c
    BY <2>1 DEF StageInv, AnswerInv, OnlyOneAnswered, ClientInv, Closed
  <2>3. /\ up[c] \in Seq(0 .. Pieces) /\ pos[c] \in 0 .. Pieces /\ Len(up[c]) <= pos[c]
        /\ \A i \in 1 .. Len(up[c]) : up[c][i] = pos[c] - Len(up[c]) + i
    BY <2>2 DEF StageInv, TypeOK, ClientInv
  <2>4. /\ Len(up'[c]) = Len(up[c]) + 1
        /\ \A i \in 1 .. Len(up[c]) : up'[c][i] = up[c][i]
        /\ up'[c][Len(up[c]) + 1] = pos[c] + 1
    BY <2>1, <2>3, TransferAssumption DEF Pieces
  <2>5. /\ Len(up'[c]) <= pos'[c]
        /\ \A i \in 1 .. Len(up'[c]) : up'[c][i] = pos'[c] - Len(up'[c]) + i
    <3> DEFINE n == Len(up[c])
    <3>1. n \in Nat /\ pos[c] \in Nat
      BY <2>3, TransferAssumption DEF Pieces
    <3>2. ASSUME NEW i \in 1 .. n + 1 PROVE up'[c][i] = pos[c] + 1 - (n + 1) + i
      <4> HIDE DEF n
      <4>1. CASE i = n + 1
        BY <2>4, <3>1, <4>1 DEF n
      <4>2. CASE i # n + 1
        <5>1. i \in 1 .. n /\ pos[c] + 1 - (n + 1) + i = pos[c] - n + i
          BY <3>1, <4>2
        <5> QED
          BY <2>3, <2>4, <5>1 DEF n
      <4> QED
        BY <4>1, <4>2
    <3>3. Len(up'[c]) = n + 1 /\ pos'[c] = pos[c] + 1 /\ n <= pos[c]
      BY <2>1, <2>3, <2>4
    <3> HIDE DEF n
    <3> QED
      BY <3>1, <3>2, <3>3
  <2> QED
    BY <1>1, <1>2, <2>1, <2>2, <2>5 DEF StageInv, ClientInv, Closed
<1> QED
  BY <1>4, <1>5, <1>6 DEF Client

(* Connecting puts a client into the queue that was not in it.             *)
LEMMA QueueStep ==
    ASSUME StageInv, NEW c \in Clients, Connect(c) \/ Client(c) \/ Kill(c)
    PROVE  QueueInv' /\ ModeInv'
<1>1. UNCHANGED <<serving, granted, fd, mode>>
  BY DEF Connect, Client, SendSize, ReadReply, NoFile, SendPiece, SendDone, Kill, fileVars
<1>2. ModeInv'
  BY <1>1 DEF StageInv, ModeInv
<1>3. \A d \in Clients : phase'[d] = "start" => phase[d] = "start" /\ d # c
  BY DEF StageInv, TypeOK, Move,
       Connect, Client, SendSize, ReadReply, NoFile, SendPiece, SendDone, Kill
<1>4. CASE Connect(c)
  <2>1. /\ phase[c] = "start" /\ backlog' = Append(backlog, c) /\ backlog \in Seq(Clients)
        /\ \A d \in Clients : d # c => phase'[d] = phase[d]
    BY <1>4 DEF Connect, Move, StageInv, TypeOK
  <2>2. /\ Len(backlog') = Len(backlog) + 1
        /\ \A i \in 1 .. Len(backlog) : backlog'[i] = backlog[i] /\ backlog[i] # c
        /\ backlog'[Len(backlog) + 1] = c
    BY <2>1 DEF StageInv, QueueInv, Queued
  <2>3. c # serving /\ c # granted
    BY <2>1 DEF StageInv, QueueInv, ClientInv
  <2>4. \A i, j \in 1 .. Len(backlog') : backlog'[i] = backlog'[j] => i = j
    BY <2>1, <2>2 DEF StageInv, QueueInv
  <2>5. \A d \in Clients : Queued(d)' => phase'[d] # "start" /\ d # serving' /\ d # granted'
    BY <1>1, <1>3, <2>1, <2>2, <2>3 DEF StageInv, QueueInv, Queued
  <2> QED
    BY <1>1, <1>2, <1>3, <2>4, <2>5 DEF StageInv, QueueInv
<1>5. CASE Client(c) \/ Kill(c)
  <2>1. UNCHANGED backlog
    BY <1>5 DEF Client, SendSize, ReadReply, NoFile, SendPiece, SendDone, Kill
  <2> QED
    BY <1>1, <1>2, <1>3, <2>1 DEF StageInv, QueueInv, Queued
<1> QED
  BY <1>4, <1>5

LEMMA AcceptStep == StageInv /\ Accept => ClientInv' /\ QueueInv' /\ ModeInv'
<1> SUFFICES ASSUME StageInv, Accept PROVE ClientInv' /\ QueueInv' /\ ModeInv'
  OBVIOUS
<1> DEFINE c == Head(backlog)
<1>1. /\ backlog \in Seq(Clients) /\ backlog # <<>>
      /\ backlog' = Tail(backlog) /\ serving = None /\ serving' = c
      /\ UNCHANGED <<phase, pos, up, granted>>
      /\ c = backlog[1] /\ c \in Clients /\ 1 \in 1 .. Len(backlog)
  BY DEF Accept, StageInv, TypeOK, clientVars
<1>2. /\ Len(backlog') = Len(backlog) - 1
      /\ \A i \in 1 .. Len(backlog') : i + 1 \in 1 .. Len(backlog) /\ backlog'[i] = backlog[i + 1]
  BY <1>1
<1>3. phase[c] # "start" /\ c # granted
  BY <1>1 DEF StageInv, QueueInv, Queued
<1> HIDE DEF c
<1>4. ClientInv'
  BY <1>1, <1>3, TransferAssumption DEF StageInv, ClientInv, Closed
<1>5. \A i, j \in 1 .. Len(backlog') : backlog'[i] = backlog'[j] => i = j
  BY <1>1, <1>2 DEF StageInv, QueueInv
<1>6. \A i \in 1 .. Len(backlog') : backlog'[i] # c
  BY <1>1, <1>2 DEF StageInv, QueueInv
<1>7. \A d \in Clients : Queued(d)' => Queued(d) /\ d # c
  BY <1>2, <1>6 DEF Queued
<1>8. QueueInv'
  BY <1>1, <1>3, <1>5, <1>7 DEF StageInv, QueueInv
<1>9. ModeInv'
  BY DEF Accept, Created, StageInv, ModeInv, TypeOK
<1> QED
  BY <1>4, <1>8, <1>9

LEMMA EndStep == StageInv /\ EndSession => ClientInv' /\ QueueInv' /\ ModeInv'
<1> SUFFICES ASSUME StageInv, EndSession PROVE ClientInv' /\ QueueInv' /\ ModeInv'
  OBVIOUS
<1>1. /\ serving \in Clients /\ serving' = None /\ up[serving] = <<>> /\ Closed(serving)
      /\ fd' = "closed" /\ UNCHANGED <<phase, pos, up, granted, backlog, mode>>
  BY DEF EndSession, StageInv, TypeOK, clientVars
<1>2. ClientInv'
  BY <1>1 DEF StageInv, ClientInv, Closed
<1>3. QueueInv'
  BY <1>1, TransferAssumption DEF StageInv, QueueInv, Queued
<1>4. ModeInv'
  BY <1>1 DEF StageInv, ModeInv
<1> QED
  BY <1>2, <1>3, <1>4

(* What is read is the size of a client that is still to be answered, or   *)
(* never will be, or pieces of the one that was.                           *)
LEMMA ReadPart ==
    ASSUME StageInv, NEW k \in 1 .. Chunks + 2, Received(k)
    PROVE  /\ serving \in Clients /\ up[serving] \in Seq(0 .. Pieces)
           /\ k \in 1 .. Len(up[serving]) /\ phase[serving] \notin {"start", "size"}
           /\ \A c \in Clients : c # serving => up'[c] = up[c]
           /\ up'[serving] \in Seq(0 .. Pieces)
           /\ Len(up'[serving]) = Len(up[serving]) - k
           /\ \A i \in 1 .. Len(up'[serving]) : up'[serving][i] = up[serving][k + i]
<1>1. /\ serving \in Clients /\ up[serving] \in Seq(0 .. Pieces) /\ k <= Len(up[serving])
      /\ up' = [up EXCEPT ![serving] = SubSeq(@, k + 1, Len(@))]
  BY DEF Received, StageInv, TypeOK
<1>2. k \in 1 .. Len(up[serving])
  BY <1>1, TransferAssumption
<1>3. up'[serving] = SubSeq(up[serving], k + 1, Len(up[serving]))
  BY <1>1 DEF StageInv, TypeOK
<1>4. phase[serving] \notin {"start", "size"}
  BY <1>1, <1>2 DEF StageInv, ClientInv
<1>5. \A c \in Clients : c # serving => up'[c] = up[c]
  BY <1>1 DEF StageInv, TypeOK
<1>6. /\ up'[serving] \in Seq(0 .. Pieces)
      /\ Len(up'[serving]) = Len(up[serving]) - k
      /\ \A i \in 1 .. Len(up'[serving]) : up'[serving][i] = up[serving][k + i]
  <2>1. ASSUME NEW s \in Seq(0 .. Pieces), k \in 1 .. Len(s)
        PROVE  /\ SubSeq(s, k + 1, Len(s)) \in Seq(0 .. Pieces)
               /\ Len(SubSeq(s, k + 1, Len(s))) = Len(s) - k
               /\ \A i \in 1 .. Len(s) - k : SubSeq(s, k + 1, Len(s))[i] = s[k + i]
    <3>1. k + 1 \in Nat /\ Len(s) \in Nat /\ k + 1 <= Len(s) + 1
      BY <2>1
    <3>2. ASSUME NEW i \in k + 1 .. Len(s) PROVE s[i] \in 0 .. Pieces
      <4>1. i \in 1 .. Len(s)
        BY <2>1, <3>1
      <4> QED
        BY <4>1, ElementOfSeq
    <3> QED
      BY <2>1, <3>1, <3>2, SubSeqProperties
  <2> QED
    BY <1>1, <1>2, <1>3, <2>1
<1> QED
  BY <1>1, <1>2, <1>4, <1>5, <1>6

(* The buffer that is answered is the size and nothing else.               *)
LEMMA FirstPart ==
    ASSUME StageInv, NEW k \in 1 .. Chunks + 2, Received(k), serving # granted
    PROVE  up[serving] = <<0>> /\ k = 1 /\ up'[serving] = <<>> /\ pos[serving] = 0
<1>1. up[serving] \in {<<>>, <<0>>} /\ pos[serving] = 0
  BY ReadPart DEF StageInv, ClientInv
<1>2. up[serving] = <<0>> /\ k = 1
  <2>1. k \in 1 .. Len(up[serving])
    BY ReadPart
  <2>2. CASE up[serving] = <<>>
    BY <2>1, <2>2
  <2>3. CASE up[serving] = <<0>>
    BY <2>1, <2>3
  <2> QED
    BY <1>1, <2>2, <2>3
<1>3. up'[serving] \in Seq(0 .. Pieces) /\ Len(up'[serving]) = 0
  BY <1>2, ReadPart
<1> QED
  BY <1>1, <1>2, <1>3

LEMMA ReadStep ==
    ASSUME StageInv, NEW k \in 1 .. Chunks + 2, ReadFirst(k) \/ ReadData(k)
    PROVE  ClientInv' /\ QueueInv' /\ ModeInv'
<1>1. Received(k) /\ UNCHANGED <<phase, pos, backlog, serving, fd, mode>>
  BY DEF ReadFirst, ReadData, Received, clientVars
<1>2. ModeInv'
  BY <1>1 DEF StageInv, ModeInv
<1>3. ReadFirst(k) => granted = None /\ granted' = serving
  BY DEF ReadFirst, StageInv, AnswerInv
<1>4. ReadData(k) => granted # None /\ granted' = granted
  BY DEF ReadData, StageInv, AnswerInv
<1>5. QueueInv'
  BY <1>1, <1>3, <1>4 DEF StageInv, QueueInv, Queued
<1>6. CASE ReadFirst(k) \/ serving # granted
  <2>1. up'[serving] = <<>> /\ pos[serving] = 0
    BY <1>1, <1>3, <1>6, FirstPart, ReadPart, TransferAssumption
  <2>2. serving \in Clients /\ phase[serving] \notin {"start", "size"}
        /\ \A c \in Clients : c # serving => up'[c] = up[c]
    BY <1>1, ReadPart
  <2>3. granted' = serving \/ granted' = granted
    BY <1>3, <1>4
  <2>4. granted' = serving => granted = None \/ granted = serving
    BY <1>3, <1>4
  <2> QED
    BY <1>1, <1>2, <1>5, <2>1, <2>2, <2>3, <2>4, TransferAssumption
       DEF StageInv, ClientInv, Closed
<1>7. CASE ReadData(k) /\ serving = granted
  <2> DEFINE n == Len(up[serving])
  <2>1. /\ serving \in Clients /\ n \in Nat /\ k \in 1 .. n /\ Len(up'[serving]) = n - k
        /\ \A i \in 1 .. n - k : up'[serving][i] = up[serving][k + i]
        /\ phase[serving] \notin {"start", "size"}
        /\ \A c \in Clients : c # serving => up'[c] = up[c]
    BY <1>1, ReadPart
  <2>2. /\ n <= pos[serving] /\ pos[serving] \in Nat
        /\ \A i \in 1 .. n : up[serving][i] = pos[serving] - n + i
    BY <1>7, <2>1, TransferAssumption DEF StageInv, ClientInv, TypeOK, Pieces
  <2> HIDE DEF n
  <2>3. /\ n - k <= pos[serving]
        /\ \A i \in 1 .. n - k : up'[serving][i] = pos[serving] - (n - k) + i
    <3>1. \A i \in 1 .. n - k : k + i \in 1 .. n
      BY <2>1
    <3>2. \A i \in 1 .. n - k : up[serving][k + i] = pos[serving] - n + (k + i)
      BY <2>2, <3>1
    <3>3. \A i \in 1 .. n - k : pos[serving] - n + (k + i) = pos[serving] - (n - k) + i
      BY <2>1, <2>2
    <3>4. n - k <= pos[serving]
      BY <2>1, <2>2
    <3> QED
      BY <2>1, <3>2, <3>3, <3>4
  <2> QED
    BY <1>1, <1>2, <1>4, <1>5, <1>7, <2>1, <2>3, SMTT(30) DEF StageInv, ClientInv, Closed
<1> QED
  BY <1>6, <1>7

LEMMA StageStep == StageInv /\ [Next]_vars => StageInv'
<1> SUFFICES ASSUME StageInv, [Next]_vars PROVE StageInv'
  OBVIOUS
<1>1. AnswerInv' /\ TypeOK'
  BY AnswerStep, TypeStep DEF StageInv
<1>2. ASSUME NEW c \in Clients, Connect(c) \/ Client(c) \/ Kill(c)
      PROVE  ClientInv' /\ QueueInv' /\ ModeInv'
  BY <1>2, ClientStep, QueueStep
<1>3. CASE Accept
  BY <1>1, <1>3, AcceptStep DEF StageInv
<1>4. CASE EndSession
  BY <1>1, <1>4, EndStep DEF StageInv
<1>5. ASSUME NEW k \in 1 .. Chunks + 2, ReadFirst(k) \/ ReadData(k)
      PROVE  ClientInv' /\ QueueInv' /\ ModeInv'
  BY <1>5, ReadStep
<1>6. ASSUME AcceptFails \/ UNCHANGED vars PROVE ClientInv' /\ QueueInv' /\ ModeInv'
  <2>1. /\ UNCHANGED <<phase, pos, up, backlog, serving, granted, fd>>
        /\ serving # None \/ mode # "absent" => mode' = mode
    BY <1>6 DEF AcceptFails, Created, StageInv, ModeInv, vars, clientVars, fileVars
  <2>2. ClientInv'
    BY <2>1 DEF StageInv, ClientInv, Closed
  <2>3. QueueInv'
    BY <2>1 DEF StageInv, QueueInv, Queued
  <2>4. ModeInv'
    BY <2>1 DEF StageInv, ModeInv
  <2> QED
    BY <2>2, <2>3, <2>4
<1> QED
  BY <1>1, <1>2, <1>3, <1>4, <1>5, <1>6 DEF Next, Server, StageInv
-----------------------------------------------------------------------------
(* Nothing a client does changes what the server has read from another.    *)
LEMMA UnreadStep ==
    ASSUME StageInv, NEW c \in Clients, Connect(c) \/ Client(c) \/ Kill(c), granted # None
    PROVE  pos'[granted] - Len(up'[granted]) = pos[granted] - Len(up[granted])
<1>1. granted \in Clients
  BY DEF StageInv, TypeOK
<1>2. CASE SendPiece(c) \/ SendDone(c)
  <2>1. pos' = [pos EXCEPT ![c] = pos[c] + 1] /\ up' = [up EXCEPT ![c] = Append(up[c], pos[c] + 1)]
    BY <1>2 DEF SendPiece, SendDone, StageInv, TypeOK, Pieces
  <2>2. CASE c = granted
    <3>1. pos'[c] = pos[c] + 1 /\ up'[c] = Append(up[c], pos[c] + 1)
      BY <2>1 DEF StageInv, TypeOK
    <3>2. up[c] \in Seq(0 .. Pieces) /\ pos[c] \in Nat
      BY TransferAssumption DEF StageInv, TypeOK, Pieces
    <3>3. Len(up'[c]) = Len(up[c]) + 1 /\ Len(up[c]) \in Nat
      BY <3>1, <3>2
    <3> QED
      BY <2>2, <3>1, <3>2, <3>3
  <2>3. CASE c # granted
    BY <1>1, <2>1, <2>3 DEF StageInv, TypeOK
  <2> QED
    BY <2>2, <2>3
<1>3. CASE ~(SendPiece(c) \/ SendDone(c))
  <2>1. pos' = pos /\ (up' = up \/ SendSize(c))
    BY <1>3 DEF Connect, Client, SendSize, ReadReply, NoFile, Kill
  <2>2. SendSize(c) => c # granted
    BY DEF SendSize, Move, StageInv, ClientInv
  <2>3. SendSize(c) => up'[granted] = up[granted]
    BY <1>1, <2>2 DEF SendSize, StageInv, TypeOK
  <2> QED
    BY <2>1, <2>3
<1> QED
  BY <1>2, <1>3

LEMMA MorePieces ==
    ASSUME NEW S, NEW s \in Seq(S), NEW t \in Seq(S), NEW c,
           \A i \in 1 .. Len(s) : s[i] = <<c, i>>,
           \A i \in 1 .. Len(t) : t[i] = <<c, Len(s) + i>>
    PROVE  /\ Len(s \o t) = Len(s) + Len(t)
           /\ \A i \in 1 .. Len(s) + Len(t) : (s \o t)[i] = <<c, i>>
<1>1. /\ Len(s \o t) = Len(s) + Len(t)
      /\ \A i \in 1 .. Len(s) + Len(t) :
            (s \o t)[i] = IF i <= Len(s) THEN s[i] ELSE t[i - Len(s)]
  BY ConcatProperties
<1>2. ASSUME NEW i \in 1 .. Len(s) + Len(t) PROVE (s \o t)[i] = <<c, i>>
  <2>1. CASE i <= Len(s)
    BY <1>1, <2>1
  <2>2. CASE ~(i <= Len(s))
    <3>1. i - Len(s) \in 1 .. Len(t) /\ Len(s) + (i - Len(s)) = i
      BY <2>2
    <3> QED
      BY <1>1, <2>2, <3>1
  <2> QED
    BY <2>1, <2>2
<1> QED
  BY <1>1, <1>2

(* The pieces that are read are the next ones.                             *)
LEMMA PutStep ==
    ASSUME StageInv, NEW k \in 1 .. Chunks + 2, ReadData(k),
           serving = granted, fd = "open",
           NEW n \in 0 .. Pieces, Holds(n), n = Len(out),
           n = pos[granted] - Len(up[granted])
    PROVE  /\ n + k \in 0 .. Pieces /\ n + k = Len(out')
           /\ n + k = pos'[granted'] - Len(up'[granted'])
           /\ Holds(n + k)'
<1>1. /\ Received(k) /\ out' = out \o Saved(k) /\ UNCHANGED <<pos, granted>>
      /\ granted \in Clients
  BY TransferAssumption DEF ReadData, Received, clientVars, StageInv, TypeOK, AnswerInv
<1> DEFINE m == Len(up[granted])
<1>2. /\ m \in Nat /\ k \in 1 .. m /\ Len(up'[granted]) = m - k
      /\ pos[granted] \in 0 .. Pieces /\ Pieces \in Nat
      /\ \A i \in 1 .. m : up[granted][i] = pos[granted] - m + i
  BY <1>1, ReadPart, TransferAssumption, SMTT(30) DEF StageInv, ClientInv, TypeOK, Pieces
<1>3. Len(Saved(k)) = k /\ \A i \in 1 .. k : Saved(k)[i] = <<granted, up[granted][i]>>
  BY DEF Saved
<1> HIDE DEF m
<1>4. \A i \in 1 .. k : Saved(k)[i] = <<granted, n + i>>
  <2>1. n = pos[granted] - m
    BY DEF m
  <2>2. ASSUME NEW i \in 1 .. k PROVE up[granted][i] = n + i
    <3>1. i \in 1 .. m
      BY <1>2
    <3> QED
      BY <1>2, <2>1, <3>1
  <2> QED
    BY <1>3, <2>2
<1>5. Saved(k) \in Seq(Clients \X (0 .. Pieces))
  <2>1. ASSUME NEW i \in 1 .. k PROVE up[granted][i] \in 0 .. Pieces
    <3>1. up[granted] \in Seq(0 .. Pieces) /\ i \in 1 .. Len(up[granted])
      BY <1>1, <1>2 DEF m, StageInv, TypeOK
    <3> QED
      BY <3>1, ElementOfSeq
  <2> QED
    BY <1>1, <2>1 DEF Saved
<1>6. out \in Seq(Clients \X (0 .. Pieces)) /\ \A i \in 1 .. n : out[i] = <<granted, i>>
  BY DEF StageInv, TypeOK, Holds
<1>7. Len(out') = n + k /\ \A i \in 1 .. n + k : out'[i] = <<granted, i>>
  <2>1. /\ \A i \in 1 .. Len(out) : out[i] = <<granted, i>>
        /\ \A i \in 1 .. Len(Saved(k)) : Saved(k)[i] = <<granted, Len(out) + i>>
    BY <1>3, <1>4, <1>6
  <2>2. /\ Len(out \o Saved(k)) = Len(out) + Len(Saved(k))
        /\ \A i \in 1 .. Len(out) + Len(Saved(k)) : (out \o Saved(k))[i] = <<granted, i>>
    <3> DEFINE S == Clients \X (0 .. Pieces)
               t == Saved(k)
    <3>1. /\ out \in Seq(S) /\ t \in Seq(S)
          /\ \A i \in 1 .. Len(out) : out[i] = <<granted, i>>
          /\ \A i \in 1 .. Len(t) : t[i] = <<granted, Len(out) + i>>
      BY <1>5, <1>6, <2>1
    <3> HIDE DEF S, t
    <3>2. /\ Len(out \o t) = Len(out) + Len(t)
          /\ \A i \in 1 .. Len(out) + Len(t) : (out \o t)[i] = <<granted, i>>
      <4>1. \A s, u \in Seq(S) :
               /\ \A i \in 1 .. Len(s) : s[i] = <<granted, i>>
               /\ \A i \in 1 .. Len(u) : u[i] = <<granted, Len(s) + i>>
               => /\ Len(s \o u) = Len(s) + Len(u)
                  /\ \A i \in 1 .. Len(s) + Len(u) : (s \o u)[i] = <<granted, i>>
        BY MorePieces
      <4> QED
        BY <3>1, <4>1
    <3> QED
      BY <3>2 DEF t
  <2> QED
    BY <1>1, <1>3, <2>2
<1>8. n + k \in 0 .. Pieces /\ n + k = pos[granted] - (m - k)
  BY <1>2 DEF m
<1>9. n + k \in 0 .. Len(out') /\ Holds(n + k)'
  <2>1. \A i \in n + k + 1 .. Len(out') : out'[i][2] = 0
    BY <1>7, <1>8
  <2>2. n + k \in 0 .. Pieces /\ n + k <= Len(out')
    BY <1>7, <1>8
  <2>3. \A i \in 1 .. n + k : out'[i] = <<granted', i>>
    BY <1>1, <1>7
  <2> QED
    BY <1>8, <2>1, <2>2, <2>3 DEF Holds
<1>10. n + k = pos'[granted'] - Len(up'[granted'])
  BY <1>1, <1>2, <1>8
<1> QED
  BY <1>7, <1>8, <1>9, <1>10

(* A client that was not answered adds its size, and that to the end.      *)
LEMMA SizeStep ==
    ASSUME StageInv, NEW k \in 1 .. Chunks + 2, ReadData(k), serving # granted,
           NEW n, Holds(n)
    PROVE  Holds(n)'
<1>1. Received(k) /\ granted' = granted
  BY DEF ReadData
<1>2. k = 1 /\ up[serving] = <<0>>
  BY <1>1, FirstPart
<1>3. Saved(k) = << <<serving, 0>> >>
  BY <1>2 DEF Saved
<1>4. out' = out \/ out' = Append(out, <<serving, 0>>)
  BY <1>3 DEF ReadData, StageInv, TypeOK
<1>5. CASE out' = out
  BY <1>1, <1>5 DEF Holds
<1>6. CASE out' = Append(out, <<serving, 0>>)
  <2>1. out \in Seq(Clients \X (0 .. Pieces)) /\ Len(out) \in Nat
    BY DEF StageInv, TypeOK
  <2>2. /\ Len(out') = Len(out) + 1 /\ out'[Len(out) + 1] = <<serving, 0>>
        /\ \A i \in 1 .. Len(out) : out'[i] = out[i]
    BY <1>6, <2>1
  <2>3. /\ n \in 0 .. Pieces /\ n <= Len(out) /\ n \in Nat
        /\ \A i \in 1 .. n : out[i] = <<granted, i>>
        /\ \A i \in n + 1 .. Len(out) : out[i][2] = 0
    BY DEF Holds
  <2>4. ASSUME NEW i \in 1 .. n PROVE out'[i] = <<granted, i>>
    <3>1. i \in 1 .. Len(out)
      BY <2>1, <2>3
    <3> QED
      BY <2>2, <2>3, <3>1
  <2>5. ASSUME NEW i \in n + 1 .. Len(out') PROVE out'[i][2] = 0
    <3>1. \/ i \in n + 1 .. Len(out) /\ i \in 1 .. Len(out)
          \/ i = Len(out) + 1
      BY <2>1, <2>2, <2>3
    <3> QED
      BY <2>2, <2>3, <3>1
  <2>6. n <= Len(out')
    BY <2>1, <2>2, <2>3
  <2> QED
    BY <1>1, <2>3, <2>4, <2>5, <2>6 DEF Holds
<1> QED
  BY <1>4, <1>5, <1>6

LEMMA FileInit == Init => FileInv
  BY DEF Init, FileInv

LEMMA FileStep == StageInv /\ FileInv /\ [Next]_vars => FileInv'
<1> SUFFICES ASSUME StageInv, FileInv, [Next]_vars PROVE FileInv'
  OBVIOUS
<1>1. ASSUME UNCHANGED <<out, granted, serving, fd, mode>>,
             granted # None => pos'[granted] - Len(up'[granted]) = pos[granted] - Len(up[granted])
      PROVE  FileInv'
  <2>1. \A n \in 0 .. Pieces : Holds(n) => Holds(n)'
    BY <1>1 DEF Holds
  <2>2. Kept' <=> Kept
    BY <1>1 DEF Kept
  <2> QED
    BY <1>1, <2>1, <2>2 DEF FileInv
<1>2. ASSUME NEW c \in Clients, Connect(c) \/ Client(c) \/ Kill(c) PROVE FileInv'
  <2>1. UNCHANGED <<out, granted, serving, fd, mode>>
    BY <1>2 DEF Connect, Client, SendSize, ReadReply, NoFile, SendPiece, SendDone, Kill, fileVars
  <2> QED
    BY <1>1, <1>2, <2>1, UnreadStep
<1>3. CASE Accept \/ AcceptFails \/ EndSession
  <2>1. UNCHANGED <<out, granted, pos, up>>
    BY <1>3 DEF Accept, AcceptFails, EndSession, clientVars
  <2>2. \A n \in 0 .. Pieces : Holds(n) => Holds(n)'
    BY <2>1 DEF Holds
  <2>3. ASSUME granted # None
        PROVE  serving' # granted' /\ (Kept' => Kept)
    <3>1. CASE Accept
      <4>1. /\ backlog \in Seq(Clients) /\ backlog # <<>> /\ serving' = Head(backlog)
            /\ serving = None /\ granted \in Clients
            /\ mode \in {"absent", "writable", "readonly"}
            /\ mode = "readonly" => mode' = "readonly"
        BY <2>3, <3>1 DEF Accept, Created, StageInv, TypeOK
      <4>2. serving' \in Clients /\ Queued(serving')
        BY <4>1 DEF Queued
      <4>3. serving' # granted
        BY <4>2 DEF StageInv, QueueInv
      <4> QED
        BY <2>1, <4>1, <4>3, TransferAssumption DEF Kept
    <3>2. CASE EndSession
      <4>1. serving' = None /\ serving # None /\ mode' = mode
        BY <3>2 DEF EndSession
      <4>2. mode # "readonly" => fd = "open"
        BY <4>1 DEF StageInv, ModeInv
      <4> QED
        BY <2>1, <2>3, <4>1, <4>2 DEF Kept
    <3>3. CASE AcceptFails
      <4>1. /\ serving' = None /\ serving = None
            /\ mode = "readonly" => mode' = "readonly"
        BY <3>3 DEF AcceptFails, Created
      <4> QED
        BY <2>1, <2>3, <4>1 DEF Kept
    <3> QED
      BY <1>3, <3>1, <3>2, <3>3
  <2> QED
    BY <2>1, <2>2, <2>3 DEF FileInv
<1>4. ASSUME NEW k \in 1 .. Chunks + 2, ReadFirst(k) PROVE FileInv'
  <2>1. /\ Received(k) /\ granted = None /\ granted' = serving /\ serving' = serving
        /\ serving \in Clients /\ serving # granted /\ out' = out /\ pos' = pos
    BY <1>4, TransferAssumption DEF ReadFirst, Received, clientVars, StageInv, AnswerInv
  <2>2. out = <<>>
    BY <2>1 DEF FileInv
  <2>3. up'[serving] = <<>> /\ pos[serving] = 0
    BY <2>1, FirstPart
  <2>4. Holds(0)' /\ 0 \in 0 .. Pieces
    BY <2>1, <2>2, TransferAssumption DEF Holds, Pieces
  <2>5. granted' # None /\ Len(out') = 0 /\ pos'[granted'] - Len(up'[granted']) = 0
    <3>1. Len(up'[serving]) = 0 /\ pos'[serving] = 0
      BY <2>1, <2>3
    <3>2. Len(out') = 0
      BY <2>1, <2>2
    <3> QED
      BY <2>1, <3>1, <3>2, TransferAssumption
  <2> QED
    BY <2>4, <2>5 DEF FileInv
<1>5. ASSUME NEW k \in 1 .. Chunks + 2, ReadData(k) PROVE FileInv'
  <2>1. /\ Received(k) /\ granted # None
        /\ UNCHANGED <<granted, serving, fd, mode, pos>>
    BY <1>5 DEF ReadData, Received, clientVars, StageInv, AnswerInv
  <2>2. PICK n \in 0 .. Pieces :
            /\ Holds(n)
            /\ serving = granted => n = Len(out)
            /\ Kept => n = pos[granted] - Len(up[granted])
    BY <2>1 DEF FileInv
  <2>3. Kept' <=> Kept
    BY <2>1 DEF Kept
  <2>4. CASE serving = granted /\ fd = "open"
    <3>1. /\ n + k \in 0 .. Pieces /\ n + k = Len(out')
          /\ n + k = pos'[granted'] - Len(up'[granted'])
          /\ Holds(n + k)'
      BY <1>5, <2>2, <2>4, PutStep DEF Kept
    <3> QED
      BY <2>1, <3>1 DEF FileInv
  <2>5. CASE serving = granted /\ fd # "open"
    <3>1. out' = out /\ ~Kept'
      BY <1>5, <2>3, <2>5 DEF ReadData, Kept
    <3>2. Holds(n)'
      BY <2>1, <2>2, <3>1 DEF Holds
    <3> QED
      BY <2>1, <2>2, <3>1, <3>2 DEF FileInv
  <2>6. CASE serving # granted
    <3>1. Holds(n)'
      BY <1>5, <2>2, <2>6, SizeStep
    <3>2. up'[granted] = up[granted]
      BY <2>1, <2>6, ReadPart DEF StageInv, TypeOK
    <3> QED
      BY <2>1, <2>2, <2>3, <2>6, <3>1, <3>2 DEF FileInv
  <2> QED
    BY <2>4, <2>5, <2>6
<1>6. CASE UNCHANGED vars
  BY <1>1, <1>6 DEF vars, clientVars, fileVars
<1> QED
  BY <1>2, <1>3, <1>4, <1>5, <1>6 DEF Next, Server
-----------------------------------------------------------------------------
(* The pieces stored are those FileInv speaks of.                          *)
LEMMA StoredIs ==
    \A n \in 0 .. Pieces :
        Holds(n) /\ TypeOK => Stored = [i \in 1 .. n |-> <<granted, i>>]
<1> SUFFICES ASSUME NEW n \in 0 .. Pieces, Holds(n), TypeOK
             PROVE  Stored = [i \in 1 .. n |-> <<granted, i>>]
  OBVIOUS
<1> DEFINE Last(m) == /\ m > 0 => out[m][2] > 0
                      /\ \A i \in m + 1 .. Len(out) : out[i][2] = 0
<1>1. /\ n \in 0 .. Len(out) /\ Last(n)
      /\ n \in Nat /\ Len(out) \in Nat /\ out \in Seq(Clients \X (0 .. Pieces))
  <2>1. n \in Nat /\ Len(out) \in Nat /\ n <= Len(out) /\ out \in Seq(Clients \X (0 .. Pieces))
    BY TransferAssumption DEF Holds, TypeOK, Pieces
  <2>2. \A i \in n + 1 .. Len(out) : out[i][2] = 0
    BY DEF Holds
  <2>3. ASSUME n > 0 PROVE out[n][2] > 0
    <3>1. n \in 1 .. n
      BY <2>1, <2>3
    <3>2. out[n] = <<granted, n>>
      BY <3>1 DEF Holds
    <3> QED
      BY <2>3, <3>2
  <2> QED
    BY <2>1, <2>2, <2>3
<1>2. ASSUME NEW m \in 0 .. Len(out), Last(m) PROVE m = n
  <2>1. ~(m < n)
    <3>1. ASSUME m < n PROVE n \in m + 1 .. Len(out) /\ out[n][2] > 0
      BY <1>1, <3>1
    <3> QED
      BY <1>2, <3>1
  <2>2. ~(n < m)
    <3>1. ASSUME n < m PROVE m \in n + 1 .. Len(out) /\ out[m][2] > 0
      BY <1>1, <1>2, <3>1
    <3> QED
      BY <1>1, <3>1
  <2> QED
    BY <1>1, <2>1, <2>2
<1>3. LastPiece = n
  BY <1>1, <1>2 DEF LastPiece
<1>4. Stored = [i \in 1 .. n |-> out[i]]
  BY <1>1, <1>3 DEF Stored
<1> QED
  BY <1>4 DEF Holds

LEMMA SuccessFact == StageInv /\ FileInv => SuccessIsStored
<1> SUFFICES ASSUME StageInv, FileInv, NEW c \in Clients,
                    phase[c] = "sent", serving # c, mode # "readonly"
             PROVE  Stored = [i \in 1 .. Pieces |-> <<c, i>>]
  BY DEF SuccessIsStored
<1>1. granted = c /\ granted # None
  BY TransferAssumption DEF StageInv, AnswerInv, OnlyOneAnswered
<1>2. pos[c] = Pieces /\ up[c] = <<>>
  BY <1>1 DEF StageInv, ClientInv
<1>3. Kept
  BY <1>1 DEF Kept
<1>4. PICK n \in 0 .. Pieces : Holds(n) /\ n = pos[granted] - Len(up[granted])
  BY <1>1, <1>3 DEF FileInv
<1>5. n = Pieces
  BY <1>1, <1>2, <1>4, TransferAssumption DEF Pieces
<1> QED
  BY <1>1, <1>4, <1>5, StoredIs DEF StageInv

(* Whatever way reads cut the stream, and whoever connects meanwhile: the  *)
(* file of a client that reports success is in output.txt, all of it, once *)
(* the server has left the connection.                                     *)
THEOREM SuccessStored == Spec => []SuccessIsStored
<1> QED
  BY StageInit, StageStep, FileInit, FileStep, SuccessFact, PTL DEF Spec
-----------------------------------------------------------------------------
(* FileTransfer implements FileStore: answering a client claims the store, *)
(* reading its pieces puts them there, and no other step is seen.          *)
LEMMA StoreInit == Init => Store!Init
<1> SUFFICES ASSUME Init PROVE Store!Init
  OBVIOUS
<1>1. granted = None /\ Holds(0) /\ TypeOK /\ 0 \in 0 .. Pieces
  BY TypeInit, TransferAssumption DEF Init, Holds, Pieces
<1>2. Stored = [i \in 1 .. 0 |-> <<granted, i>>]
  BY <1>1, StoredIs
<1> QED
  BY <1>1, <1>2 DEF Store!Init

LEMMA StoreStep ==
    StageInv /\ FileInv /\ StageInv' /\ [Next]_vars => [Store!Next]_Store!vars
<1> SUFFICES ASSUME StageInv, FileInv, StageInv', [Next]_vars
             PROVE  [Store!Next]_Store!vars
  OBVIOUS
<1>1. ASSUME NEW m \in 0 .. Pieces, Holds(m)' PROVE Stored' = [i \in 1 .. m |-> <<granted', i>>]
  <2>1. (\A n \in 0 .. Pieces :
            Holds(n) /\ TypeOK => Stored = [i \in 1 .. n |-> <<granted, i>>])'
    BY StoredIs, PTL
  <2> QED
    BY <1>1, <2>1 DEF StageInv
<1>2. ASSUME UNCHANGED <<out, granted>> PROVE UNCHANGED Store!vars
  BY <1>2 DEF Store!vars, Stored, LastPiece
<1>3. ASSUME NEW k \in 1 .. Chunks + 2, ReadFirst(k) PROVE Store!Claim
  <2>1. /\ granted = None /\ granted' = serving /\ serving \in Clients /\ out' = out
    BY <1>3, TransferAssumption DEF ReadFirst, Received, StageInv, AnswerInv
  <2>2. Stored' = Stored
    BY <2>1 DEF Stored, LastPiece
  <2> QED
    BY <2>1, <2>2 DEF Store!Claim
<1>4. ASSUME NEW k \in 1 .. Chunks + 2, ReadData(k) PROVE [Store!Next]_Store!vars
  <2>1. granted # None /\ granted' = granted
    BY <1>4 DEF ReadData, StageInv, AnswerInv
  <2>2. PICK n \in 0 .. Pieces :
            /\ Holds(n)
            /\ serving = granted => n = Len(out)
            /\ Kept => n = pos[granted] - Len(up[granted])
    BY <2>1 DEF FileInv
  <2>3. Stored = [i \in 1 .. n |-> <<granted, i>>]
    BY <2>2, StoredIs DEF StageInv
  <2>4. CASE serving = granted /\ fd = "open"
    <3>1. n + k \in 0 .. Pieces /\ Holds(n + k)'
      BY <1>4, <2>2, <2>4, PutStep DEF Kept
    <3>2. Stored' = [i \in 1 .. n + k |-> <<granted, i>>]
      BY <1>1, <2>1, <3>1
    <3>3. Len(Stored) = n /\ n + k \in n + 1 .. Pieces
      BY <2>3, <3>1
    <3>4. Store!Put
      BY <2>1, <3>2, <3>3 DEF Store!Put
    <3> QED
      BY <3>4 DEF Store!Next
  <2>5. CASE serving = granted /\ fd # "open"
    BY <1>2, <1>4, <2>1, <2>5 DEF ReadData
  <2>6. CASE serving # granted
    <3>1. Holds(n)'
      BY <1>4, <2>2, <2>6, SizeStep
    <3>2. Stored' = Stored
      BY <1>1, <2>1, <2>3, <3>1
    <3> QED
      BY <2>1, <3>2 DEF Store!vars
  <2> QED
    BY <2>4, <2>5, <2>6
<1>5. CASE \/ \E c \in Clients : Connect(c) \/ Client(c) \/ Kill(c)
           \/ Accept \/ AcceptFails \/ EndSession \/ UNCHANGED vars
  <2>1. UNCHANGED <<out, granted>>
    BY <1>5 DEF Connect, Client, SendSize, ReadReply, NoFile, SendPiece, SendDone, Kill,
         Accept, AcceptFails, EndSession, vars, fileVars
  <2> QED
    BY <1>2, <2>1
<1> QED
  BY <1>3, <1>4, <1>5 DEF Next, Server, Store!Next

(* The pieces in output.txt are always those of one client, in order, and  *)
(* none twice.                                                             *)
THEOREM StoresOneFileHolds == Spec => StoresOneFile
<1>1. Spec => [](StageInv /\ FileInv)
  BY StageInit, StageStep, FileInit, FileStep, PTL DEF Spec
<1> QED
  BY <1>1, StoreInit, StoreStep, PTL DEF Spec, StoresOneFile, Store!Spec
-----------------------------------------------------------------------------
(* Who waits for whom.  A client that waits has its size yet to be read or *)
(* comes after one that was answered, and the one that was answered has    *)
(* "OK" to read.                                                           *)
WaitInv ==
    \A c \in Clients : phase[c] = "wait" => /\ up[c] = <<>> => init
                                            /\ c = granted => ok[c]

(* The server or the client it serves can take a step: a read, the end of  *)
(* the session, or the next call of the client.                            *)
Proceeds ==
    \/ up[serving] # <<>> \/ Closed(serving)
    \/ phase[serving] \in {"size", "send"}
    \/ phase[serving] = "wait" /\ ok[serving]

(* Server and client can only come to wait for each other when the client  *)
(* is not the one that was answered.                                       *)
StuckOnly == serving # None => Proceeds \/ (Stuck /\ serving # granted)

(* Once they do, nothing but the end of that client changes it.            *)
StuckStays == [][Stuck => (Stuck' /\ UNCHANGED serving) \/ Kill(serving)]_vars

LEMMA WaitStep == StageInv /\ WaitInv /\ [Next]_vars => WaitInv'
<1> SUFFICES ASSUME StageInv, WaitInv, [Next]_vars, NEW c \in Clients, phase'[c] = "wait"
             PROVE  (up'[c] = <<>> => init') /\ (c = granted' => ok'[c])
  BY DEF WaitInv
<1> USE DEF clientVars, fileVars
<1>1. TypeOK /\ AnswerInv /\ ClientInv
  BY DEF StageInv
<1>2. CASE UNCHANGED <<phase[c], up[c], init, granted, ok[c]>>
  BY <1>2 DEF WaitInv
<1>3. ASSUME NEW d \in Clients, SendSize(d) PROVE (up'[c] = <<>> => init') /\ (c = granted' => ok'[c])
  <2>1. CASE c = d
    <3>1. up'[c] = Append(up[c], 0) /\ up[c] \in Seq(0 .. Pieces) /\ 0 \in 0 .. Pieces
      BY <1>1, <1>3, <2>1, TransferAssumption DEF SendSize, TypeOK, Pieces
    <3>2. up'[c] # <<>>
      BY <3>1, AppendProperties
    <3>3. c # granted'
      BY <1>1, <1>3, <2>1 DEF SendSize, Move, ClientInv
    <3> QED
      BY <3>2, <3>3
  <2>2. CASE c # d
    BY <1>1, <1>2, <1>3, <2>2 DEF SendSize, Move, TypeOK
  <2> QED
    BY <2>1, <2>2
<1>4. ASSUME NEW d \in Clients,
             \/ Connect(d) \/ ReadReply(d) \/ NoFile(d)
             \/ SendPiece(d) \/ SendDone(d) \/ Kill(d)
      PROVE  UNCHANGED <<phase[c], up[c], init, granted, ok[c]>>
  <2>1. CASE Connect(d)
    BY <1>1, <2>1 DEF Connect, Move, TypeOK
  <2>2. CASE ReadReply(d)
    BY <1>1, <2>2 DEF ReadReply, Move, TypeOK
  <2>3. CASE NoFile(d)
    BY <1>1, <2>3 DEF NoFile, Move, TypeOK
  <2>4. CASE SendPiece(d)
    BY <1>1, <2>4 DEF SendPiece, TypeOK
  <2>5. CASE SendDone(d)
    BY <1>1, <2>5 DEF SendDone, Move, TypeOK
  <2>6. CASE Kill(d)
    BY <1>1, <2>6 DEF Kill, TypeOK
  <2> QED
    BY <1>4, <2>1, <2>2, <2>3, <2>4, <2>5, <2>6
<1>5. CASE Accept \/ AcceptFails \/ EndSession \/ UNCHANGED vars
  BY <1>2, <1>5 DEF Accept, AcceptFails, EndSession, vars
<1>6. ASSUME NEW k \in 1 .. Chunks + 2, ReadFirst(k)
      PROVE  init' /\ (c = granted' => ok'[c])
  BY <1>1, <1>6 DEF ReadFirst, TypeOK
<1>7. ASSUME NEW k \in 1 .. Chunks + 2, ReadData(k)
      PROVE  init' /\ (c = granted' => ok'[c])
  BY <1>1, <1>7 DEF ReadData, Received, WaitInv
<1> QED
  BY <1>2, <1>3, <1>4, <1>5, <1>6, <1>7 DEF Next, Server, Client

LEMMA WaitHolds == Spec => [](StageInv /\ WaitInv)
<1>1. Init => WaitInv
  BY DEF Init, WaitInv
<1> QED
  BY <1>1, WaitStep, StageInit, StageStep, PTL DEF Spec

(* The safety half of AcceptedOrStuck: what stops the server is a client   *)
(* that came after the one it answered and waits for an answer of its own. *)
THEOREM StuckOnlyHolds == Spec => []StuckOnly
<1>1. StageInv /\ WaitInv => StuckOnly
  <2> SUFFICES ASSUME StageInv, WaitInv, serving # None, ~Proceeds
               PROVE  Stuck /\ serving # granted
    BY DEF StuckOnly
  <2>1. serving \in Clients /\ phase[serving] \in Phases /\ phase[serving] # "start"
    BY DEF StageInv, TypeOK, QueueInv
  <2>2. phase[serving] = "wait" /\ up[serving] = <<>> /\ ~ok[serving]
    BY <2>1 DEF Proceeds, Closed, Phases
  <2> QED
    BY <2>1, <2>2 DEF WaitInv, Stuck
<1> QED
  BY <1>1, WaitHolds, PTL

(* The server does not come out of it by itself, whoever else connects.    *)
THEOREM StuckStaysHolds == Spec => StuckStays
<1>1. StageInv /\ [Next]_vars => [Stuck => (Stuck' /\ UNCHANGED serving) \/ Kill(serving)]_vars
  <2> SUFFICES ASSUME StageInv, [Next]_vars, Stuck, ~Kill(serving)
               PROVE  Stuck' /\ UNCHANGED serving
    OBVIOUS
  <2> USE DEF clientVars, fileVars
  <2>1. /\ TypeOK /\ serving \in Clients /\ serving # None /\ init
        /\ phase[serving] = "wait" /\ ~ok[serving] /\ up[serving] = <<>>
    BY DEF StageInv, TypeOK, Stuck
  <2>2. CASE UNCHANGED <<serving, init, phase[serving], ok[serving], up[serving]>>
    BY <2>1, <2>2 DEF Stuck
  <2>3. ASSUME NEW d \in Clients, Connect(d) \/ Client(d) \/ Kill(d)
        PROVE  UNCHANGED <<serving, init, phase[serving], ok[serving], up[serving]>>
    <3>1. d # serving
      BY <2>1, <2>3 DEF Connect, Client, SendSize, ReadReply, NoFile, SendPiece, SendDone, Move
    <3>2. CASE Connect(d) \/ SendSize(d)
      BY <2>1, <3>1, <3>2 DEF Connect, SendSize, Move, TypeOK
    <3>3. CASE ReadReply(d) \/ NoFile(d)
      BY <2>1, <3>1, <3>3 DEF ReadReply, NoFile, Move, TypeOK
    <3>4. CASE SendPiece(d) \/ SendDone(d)
      BY <2>1, <3>1, <3>4 DEF SendPiece, SendDone, Move, TypeOK
    <3>5. CASE Kill(d)
      BY <2>1, <3>1, <3>5 DEF Kill, TypeOK
    <3> QED
      BY <2>3, <3>2, <3>3, <3>4, <3>5 DEF Client
  <2>4. ~Accept /\ ~AcceptFails /\ ~EndSession
    BY <2>1 DEF Accept, AcceptFails, EndSession, Closed
  <2>5. ASSUME NEW k \in 1 .. Chunks + 2, ReadFirst(k) \/ ReadData(k) PROVE FALSE
    <3>1. k <= Len(<<>>)
      BY <2>1, <2>5 DEF ReadFirst, ReadData, Received
    <3> QED
      BY <3>1, TransferAssumption
  <2> QED
    BY <2>2, <2>3, <2>4, <2>5 DEF Next, Server, vars
<1>2. Spec => []StageInv
  BY StageInit, StageStep, PTL DEF Spec
<1> QED
  BY <1>1, <1>2, PTL DEF Spec, StuckStays
=============================================================================
