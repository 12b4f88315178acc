------------------------- MODULE ShellSessionProofs -------------------------
(***************************************************************************)
(* Proofs about ShellSession for any clients, commands and sockets: the    *)
(* server ends of an error on a connection only if output was left unread, *)
(* it implements CommandSession, and only the client it serves can stall   *)
(* it.                                                                     *)
(***************************************************************************)
EXTENDS ShellSession, TLAPS

Command == Clients \X Nat
Child   == [id : Command, left : Nat, done : BOOLEAN]

(* The server has read a command and is running it.                        *)
Handling == server \in {"fork", "wait"}

TypeInv ==
    /\ died \in {"no", "call", "read"}
    /\ server \in {"accept", "read", "fork", "wait"}
    /\ serving \in Clients \cup {None} /\ backlog \in Seq(Clients)
    /\ up \in [Clients -> Seq(Nat)]
    /\ Handling => command \in Command
    /\ children \subseteq Child
    /\ down \in [Clients -> Seq(Command)] /\ saved \in [Clients -> Seq(Command)]
    /\ phase \in [Clients -> {"start", "type", "save", "left", "reset"}]
    /\ sent \in [Clients -> Nat]

(* The server handles the commands of the client it serves, one at a time. *)
LoopInv ==
    /\ server # "accept" => serving \in Clients
    /\ server # "wait" => children = {}
    /\ server = "wait" => \E k \in Child : children = {k} /\ k.id = command

(* Commands that the server has not read yet come after command n.         *)
Later(c, n) == \A j \in DOMAIN up[c] : n < up[c][j]

(* Commands are sent and read in their order.                              *)
OrderOf(c) ==
    /\ \A i, j \in DOMAIN up[c] : i < j => up[c][i] < up[c][j]
    /\ \A j \in DOMAIN up[c] : up[c][j] \in 1 .. sent[c]

OrderInv ==
    /\ \A c \in Clients : OrderOf(c)
    /\ Handling => /\ command[1] = serving /\ command[2] \in 1 .. sent[serving]
                   /\ Later(serving, command[2])

(* Command p has been read: it is not later than the one being handled.    *)
Past(p) ==
    LET c == p[1]
    IN  /\ p[2] <= sent[c] /\ Later(c, p[2])
        /\ Handling /\ serving = c => p[2] <= command[2]

(* What has been sent to a client is output of its own commands that have  *)
(* been read.                                                              *)
Out == [c \in Clients |-> saved[c] \o down[c]]

OutInv == \A c \in Clients : \A i \in DOMAIN Out[c] : Out[c][i][1] = c /\ Past(Out[c][i])

(* A connection is reset only with output that nobody has read.            *)
ResetInv == \A c \in Clients : phase[c] = "reset" => down[c] # <<>>

SessionInv ==
    TypeInv /\ LoopInv /\ OrderInv /\ OutInv /\ ResetInv /\ UnreadKills

-----------------------------------------------------------------------------
LEMMA NextCases ==
    ASSUME Next
    PROVE  \/ Accept \/ ReadCommand \/ ReadEof \/ ReadError \/ CallFails
           \/ Fork \/ Wait
           \/ \E k \in children : CommandWrites(k) \/ CommandEnds(k)
           \/ \E c \in Clients :
                \/ Connect(c) \/ Type(c) \/ TypeNothing(c) \/ Leave(c) \/ Save(c)
  BY DEF Next, Server, Commands, User

LEMMA InvInit == Init => SessionInv
<1> SUFFICES ASSUME Init PROVE SessionInv
  OBVIOUS
<1> USE DEF Init, Handling
<1>1. TypeInv
  BY DEF TypeInv
<1>2. LoopInv /\ OrderInv /\ ResetInv /\ UnreadKills
  BY DEF LoopInv, OrderInv, OrderOf, ResetInv, UnreadKills
<1>3. OutInv
  BY DEF OutInv, Out
<1> QED
  BY <1>1, <1>2, <1>3 DEF SessionInv

(* What follows the first n elements of a sequence.                        *)
LEMMA CutType ==
    ASSUME NEW S, NEW s \in Seq(S), NEW n \in 0 .. Len(s)
    PROVE  /\ SubSeq(s, n + 1, Len(s)) \in Seq(S)
           /\ DOMAIN SubSeq(s, n + 1, Len(s)) = 1 .. Len(s) - n
           /\ \A i \in 1 .. Len(s) - n : SubSeq(s, n + 1, Len(s))[i] = s[i + n]
<1>1. SubSeq(s, n + 1, Len(s)) \in Seq(S)
  OBVIOUS
<1>2. Len(SubSeq(s, n + 1, Len(s))) = Len(s) - n
  OBVIOUS
<1>3. \A i \in 1 .. Len(s) - n : SubSeq(s, n + 1, Len(s))[i] = s[i + n]
  OBVIOUS
<1> QED
  BY <1>1, <1>2, <1>3

(* The command that is read, and what is left of those sent.               *)
LEMMA ReadsCommand ==
    ASSUME SessionInv, ReadCommand
    PROVE  \E n \in 1 .. Len(up[serving]) :
              /\ serving \in Clients /\ n \in DOMAIN up[serving]
              /\ command' = <<serving, up[serving][n]>> /\ command' \in Command
              /\ server = "read" /\ server' = "fork"
              /\ UNCHANGED <<died, serving, backlog, children, peerVars>>
              /\ up' \in [Clients -> Seq(Nat)]
              /\ \A d \in Clients \ {serving} : up'[d] = up[d]
              /\ \A i \in DOMAIN up'[serving] :
                    i \in Nat \ {0} /\ i + n \in DOMAIN up[serving]
                                   /\ up'[serving][i] = up[serving][i + n]
<1>0. serving \in Clients /\ up \in [Clients -> Seq(Nat)]
  BY DEF SessionInv, TypeInv, LoopInv, ReadCommand, Transition
<1>1. PICK n \in 1 .. Len(up[serving]) :
          /\ command' = <<serving, up[serving][n]>>
          /\ up' = [up EXCEPT ![serving] = SubSeq(@, n + 1, Len(@))]
  BY DEF ReadCommand
<1> DEFINE s   == up[serving]
           new == SubSeq(s, n + 1, Len(s))
<1>2. s \in Seq(Nat) /\ n \in 1 .. Len(s) /\ command' = <<serving, s[n]>>
  BY <1>0, <1>1
<1>3. up' = [up EXCEPT ![serving] = new]
  BY <1>1
<1>4. \A d \in Clients \ {serving} : up'[d] = up[d]
  BY <1>0, <1>1
<1>5. /\ server = "read" /\ server' = "fork"
      /\ UNCHANGED <<died, serving, backlog, children, peerVars>>
  BY DEF ReadCommand, Transition
<1> HIDE DEF s
<1>6. /\ Len(s) \in Nat /\ DOMAIN s = 1 .. Len(s) /\ n \in 0 .. Len(s)
      /\ n \in DOMAIN s /\ s[n] \in Nat
  BY <1>2
<1>7. /\ new \in Seq(Nat) /\ DOMAIN new = 1 .. Len(s) - n
      /\ \A i \in 1 .. Len(s) - n : new[i] = s[i + n]
  BY <1>2, <1>6, CutType
<1> HIDE DEF new
<1>8. ASSUME NEW i \in DOMAIN new
      PROVE  i \in Nat \ {0} /\ i + n \in DOMAIN s /\ new[i] = s[i + n]
  <2>1. i \in 1 .. Len(s) - n
    BY <1>7
  <2>2. i \in Nat \ {0} /\ i + n \in 1 .. Len(s)
    BY <1>6, <2>1
  <2> QED
    BY <1>6, <1>7, <2>1, <2>2
<1>9. command' \in Command
  BY <1>0, <1>2, <1>6 DEF Command
<1>10. up' \in [Clients -> Seq(Nat)] /\ up'[serving] = new
  BY <1>0, <1>3, <1>7
<1> QED
  BY <1>0, <1>2, <1>4, <1>5, <1>6, <1>8, <1>9, <1>10 DEF s

(* A client numbers its commands.                                          *)
LEMMA TypesNext ==
    ASSUME TypeInv, NEW c \in Clients, Type(c)
    PROVE  /\ UNCHANGED <<loopVars, server, children, down, saved>>
           /\ sent' \in [Clients -> Nat] /\ up' \in [Clients -> Seq(Nat)]
           /\ sent'[c] = sent[c] + 1
           /\ \A d \in Clients \ {c} : sent'[d] = sent[d] /\ up'[d] = up[d]
           /\ \A i \in DOMAIN up'[c] :
                 \/ i \in DOMAIN up[c] /\ up'[c][i] = up[c][i]
                 \/ i = Len(up[c]) + 1 /\ up'[c][i] = sent[c] + 1
<1>1. /\ sent \in [Clients -> Nat] /\ up \in [Clients -> Seq(Nat)]
      /\ sent' = [sent EXCEPT ![c] = @ + 1]
      /\ up' = [up EXCEPT ![c] = Append(@, sent[c] + 1)]
  BY DEF Type, TypeInv
<1> DEFINE s   == up[c]
           new == Append(s, sent[c] + 1)
<1>2. s \in Seq(Nat) /\ sent[c] + 1 \in Nat /\ up'[c] = new
  BY <1>1
<1>3. UNCHANGED <<loopVars, server, children, down, saved>>
  BY DEF Type
<1>4. sent' \in [Clients -> Nat] /\ up' \in [Clients -> Seq(Nat)]
  BY <1>1
<1>5. sent'[c] = sent[c] + 1 /\ \A d \in Clients \ {c} : sent'[d] = sent[d] /\ up'[d] = up[d]
  BY <1>1
<1> HIDE DEF s
<1>6. \A i \in DOMAIN new :
          \/ i \in DOMAIN s /\ new[i] = s[i]
          \/ i = Len(s) + 1 /\ new[i] = sent[c] + 1
  BY <1>2
<1> QED
  BY <1>2, <1>3, <1>4, <1>5, <1>6 DEF s

(* A child that is replaced keeps its name.                                *)
LEMMA SameChild ==
    ASSUME TypeInv, NEW k \in children
    PROVE  /\ k \in Child /\ k.id \in Command
           /\ k.left > 0 => [k EXCEPT !.left = @ - 1] \in Child
           /\ [k EXCEPT !.left = @ - 1].id = k.id
           /\ [k EXCEPT !.done = TRUE] \in Child /\ [k EXCEPT !.done = TRUE].id = k.id
<1>1. k \in Child
  BY DEF TypeInv
<1>2. k.left > 0 => k.left - 1 \in Nat
  BY <1>1 DEF Child
<1>3. k.left > 0 => [k EXCEPT !.left = @ - 1] \in Child
  BY <1>1, <1>2 DEF Child
<1> QED
  BY <1>1, <1>3 DEF Child

LEMMA TypeStep == SessionInv /\ [Next]_vars => TypeInv'
<1> SUFFICES ASSUME SessionInv, [Next]_vars
             PROVE  TypeInv'
  OBVIOUS
<1> USE DEF loopVars, peerVars, Handling, Transition
<1>0. TypeInv /\ LoopInv
  BY DEF SessionInv
<1>1. CASE Accept
  <2>1. Head(backlog) \in Clients /\ Tail(backlog) \in Seq(Clients)
    BY <1>0, <1>1 DEF Accept, TypeInv
  <2> QED
    BY <1>0, <1>1, <2>1 DEF Accept, TypeInv
<1>2. CASE ReadCommand
  BY <1>0, <1>2, ReadsCommand DEF TypeInv
<1>3. CASE ReadEof
  BY <1>0, <1>3 DEF ReadEof, Drained, TypeInv
<1>4. CASE ReadError \/ CallFails
  BY <1>0, <1>4 DEF ReadError, CallFails, Dies, TypeInv
<1>5. CASE Fork
  <2>1. PICK n \in Outputs :
          children' = children \cup {[id |-> command, left |-> n, done |-> FALSE]}
    BY <1>5 DEF Fork
  <2>2. [id |-> command, left |-> n, done |-> FALSE] \in Child
    BY <1>0, <1>5, SessionAssumption DEF Fork, TypeInv, Child
  <2> QED
    BY <1>0, <1>5, <2>1, <2>2 DEF Fork, TypeInv
<1>6. CASE Wait
  BY <1>0, <1>6 DEF Wait, TypeInv
<1>7. ASSUME NEW k \in children, CommandWrites(k) PROVE TypeInv'
  <2>1. [k EXCEPT !.left = @ - 1] \in Child /\ k.id \in Command /\ k.id[1] \in Clients
    BY <1>0, <1>7, SameChild DEF CommandWrites, Command
  <2>2. children' \subseteq Child
    BY <1>0, <1>7, <2>1 DEF CommandWrites, Becomes, TypeInv
  <2>3. down' \in [Clients -> Seq(Command)]
    <3>1. down[k.id[1]] \in Seq(Command)
      BY <1>0, <2>1 DEF TypeInv
    <3>2. Append(down[k.id[1]], k.id) \in Seq(Command)
      BY <2>1, <3>1
    <3> QED
      BY <1>0, <1>7, <2>1, <3>2 DEF CommandWrites, TypeInv
  <2>4. phase' \in [Clients -> {"start", "type", "save", "left", "reset"}]
    BY <1>0, <1>7, <2>1 DEF CommandWrites, TypeInv
  <2> QED
    BY <1>0, <1>7, <2>2, <2>3, <2>4 DEF CommandWrites, Becomes, TypeInv
<1>8. ASSUME NEW k \in children, CommandEnds(k) PROVE TypeInv'
  <2>1. [k EXCEPT !.done = TRUE] \in Child
    BY <1>0, SameChild
  <2>2. children' \subseteq Child
    BY <1>0, <1>8, <2>1 DEF CommandEnds, Becomes, TypeInv
  <2> QED
    BY <1>0, <1>8, <2>2 DEF CommandEnds, Becomes, TypeInv
<1>9. ASSUME NEW c \in Clients, Connect(c) PROVE TypeInv'
  BY <1>0, <1>9 DEF Connect, TypeInv
<1>10. ASSUME NEW c \in Clients, Responding(c)
       PROVE  phase' \in [Clients -> {"start", "type", "save", "left", "reset"}]
  BY <1>0, <1>10 DEF Responding, TypeInv
<1>11. ASSUME NEW c \in Clients, Type(c) PROVE TypeInv'
  <2>1. phase' \in [Clients -> {"start", "type", "save", "left", "reset"}]
    BY <1>10, <1>11 DEF Type
  <2> QED
    BY <1>0, <1>11, <2>1, TypesNext DEF TypeInv
<1>12. ASSUME NEW c \in Clients, TypeNothing(c) PROVE TypeInv'
  BY <1>0, <1>10, <1>12 DEF TypeNothing, TypeInv
<1>13. ASSUME NEW c \in Clients, Leave(c) PROVE TypeInv'
  BY <1>0, <1>13 DEF Leave, TypeInv
<1>14. ASSUME NEW c \in Clients, Save(c) PROVE TypeInv'
  <2>1. saved[c] \o down[c] \in Seq(Command) /\ <<>> \in Seq(Command)
    BY <1>0 DEF TypeInv
  <2> QED
    BY <1>0, <1>14, <2>1 DEF Save, TypeInv
<1>15. CASE UNCHANGED vars
  BY <1>0, <1>15 DEF vars, TypeInv
<1> QED
  BY <1>1, <1>2, <1>3, <1>4, <1>5, <1>6, <1>7, <1>8, <1>9, <1>11, <1>12, <1>13,
     <1>14, <1>15, NextCases

(* LoopInv.                                                                *)
LEMMA LoopStep == SessionInv /\ [Next]_vars => LoopInv'
<1> SUFFICES ASSUME SessionInv, [Next]_vars
             PROVE  LoopInv'
  OBVIOUS
<1> USE DEF loopVars, Transition
<1>0. TypeInv /\ LoopInv
  BY DEF SessionInv
<1>1. CASE Accept
  <2>1. Head(backlog) \in Clients
    BY <1>0, <1>1 DEF Accept, TypeInv
  <2> QED
    BY <1>0, <1>1, <2>1 DEF Accept, LoopInv
<1>2. CASE ReadCommand
  BY <1>0, <1>2, ReadsCommand DEF LoopInv
<1>3. CASE ReadEof
  BY <1>0, <1>3 DEF ReadEof, Drained, LoopInv
<1>4. CASE Fork
  <2>1. PICK n \in Outputs :
          children' = children \cup {[id |-> command, left |-> n, done |-> FALSE]}
    BY <1>4 DEF Fork
  <2> DEFINE kid == [id |-> command, left |-> n, done |-> FALSE]
  <2>2. kid \in Child /\ kid.id = command
    BY <1>0, <1>4, SessionAssumption DEF Fork, TypeInv, Child, Handling
  <2>3. children' = {kid}
    BY <1>0, <1>4, <2>1 DEF Fork, LoopInv
  <2>4. serving \in Clients /\ server' = "wait" /\ UNCHANGED <<serving, command>>
    BY <1>0, <1>4 DEF Fork, LoopInv
  <2> HIDE DEF kid
  <2> QED
    BY <2>2, <2>3, <2>4 DEF LoopInv
<1>5. CASE Wait
  BY <1>0, <1>5 DEF Wait, LoopInv
<1>6. ASSUME NEW k \in children, NEW new \in Child, new.id = k.id,
             children' = (children \ {k}) \cup {new}, UNCHANGED <<loopVars, server>>
      PROVE  LoopInv'
  BY <1>0, <1>6 DEF LoopInv
<1>7. ASSUME NEW k \in children, CommandWrites(k) \/ CommandEnds(k) PROVE LoopInv'
  BY <1>0, <1>6, <1>7, SameChild DEF CommandWrites, CommandEnds, Becomes
<1>8. CASE UNCHANGED <<serving, command, server, children>>
  BY <1>0, <1>8 DEF LoopInv
<1>9. ASSUME NEW c \in Clients,
             Connect(c) \/ Type(c) \/ TypeNothing(c) \/ Leave(c) \/ Save(c)
      PROVE  UNCHANGED <<serving, command, server, children>>
  BY <1>9 DEF Connect, Type, TypeNothing, Leave, Save
<1>10. CASE ReadError \/ CallFails \/ UNCHANGED vars
  BY <1>8, <1>10 DEF ReadError, CallFails, Dies, vars
<1> QED
  BY <1>1, <1>2, <1>3, <1>4, <1>5, <1>7, <1>8, <1>9, <1>10, NextCases

(* Commands are only sent and read in two steps.                           *)
LEMMA QueueCases ==
    ASSUME [Next]_vars
    PROVE  \/ ReadCommand
           \/ \E c \in Clients : Type(c)
           \/ /\ UNCHANGED <<up, sent>>
              /\ Handling' => Handling /\ UNCHANGED <<serving, command>>
<1> USE DEF loopVars, peerVars, Handling, Transition
<1>1. CASE Accept \/ ReadEof \/ ReadError \/ CallFails \/ Fork \/ Wait
  BY <1>1 DEF Accept, ReadEof, ReadError, CallFails, Dies, Fork, Wait
<1>2. ASSUME NEW k \in children, CommandWrites(k) \/ CommandEnds(k)
      PROVE  UNCHANGED <<up, sent, server, serving, command>>
  BY <1>2 DEF CommandWrites, CommandEnds, Becomes
<1>3. ASSUME NEW c \in Clients, Connect(c) \/ TypeNothing(c) \/ Leave(c) \/ Save(c)
      PROVE  UNCHANGED <<up, sent, server, serving, command>>
  BY <1>3 DEF Connect, TypeNothing, Leave, Save
<1>4. CASE UNCHANGED vars
  BY <1>4 DEF vars
<1> QED
  BY <1>1, <1>2, <1>3, <1>4, NextCases

(* OrderInv.                                                               *)
LEMMA OrderStep == SessionInv /\ [Next]_vars => OrderInv'
<1> SUFFICES ASSUME SessionInv, [Next]_vars
             PROVE  OrderInv'
  OBVIOUS
<1>0. TypeInv /\ OrderInv /\ \A c \in Clients : OrderOf(c)
  BY DEF SessionInv, OrderInv
<1>1. CASE ReadCommand
  <2>1. PICK n \in 1 .. Len(up[serving]) :
          /\ serving \in Clients /\ n \in DOMAIN up[serving]
          /\ command' = <<serving, up[serving][n]>>
          /\ server' = "fork"
          /\ UNCHANGED <<serving, sent>>
          /\ \A d \in Clients \ {serving} : up'[d] = up[d]
          /\ \A i \in DOMAIN up'[serving] :
                i \in Nat \ {0} /\ i + n \in DOMAIN up[serving]
                               /\ up'[serving][i] = up[serving][i + n]
    BY <1>1, ReadsCommand DEF peerVars
  <2>2. OrderOf(serving) /\ n \in Nat
    BY <1>0, <2>1
  <2>3. ASSUME NEW d \in Clients \ {serving} PROVE OrderOf(d)'
    BY <1>0, <2>1, <2>3 DEF OrderOf
  <2>4. ASSUME NEW i \in DOMAIN up'[serving], NEW j \in DOMAIN up'[serving], i < j
        PROVE  up'[serving][i] < up'[serving][j]
    <3>1. i + n < j + n
      BY <2>1, <2>2, <2>4
    <3> QED
      BY <2>1, <2>2, <3>1 DEF OrderOf
  <2>5. ASSUME NEW j \in DOMAIN up'[serving]
        PROVE  up'[serving][j] \in 1 .. sent'[serving] /\ up[serving][n] < up'[serving][j]
    <3>1. n < j + n
      BY <2>1, <2>2
    <3> QED
      BY <2>1, <2>2, <3>1 DEF OrderOf
  <2>6. OrderOf(serving)'
    BY <2>1, <2>4, <2>5 DEF OrderOf
  <2>7. command'[1] = serving /\ command'[2] = up[serving][n]
    BY <2>1
  <2>8. command'[2] \in 1 .. sent[serving]
    BY <2>1, <2>2, <2>7 DEF OrderOf
  <2> QED
    BY <2>1, <2>3, <2>5, <2>6, <2>7, <2>8 DEF OrderInv, Later
<1>2. ASSUME NEW c \in Clients, Type(c) PROVE OrderInv'
  <2>1. /\ UNCHANGED <<server, serving, command>>
        /\ sent'[c] = sent[c] + 1
        /\ \A d \in Clients \ {c} : sent'[d] = sent[d] /\ up'[d] = up[d]
        /\ \A i \in DOMAIN up'[c] :
              \/ i \in DOMAIN up[c] /\ up'[c][i] = up[c][i]
              \/ i = Len(up[c]) + 1 /\ up'[c][i] = sent[c] + 1
    BY <1>0, <1>2, TypesNext DEF loopVars
  <2>2. /\ DOMAIN up[c] = 1 .. Len(up[c]) /\ Len(up[c]) \in Nat /\ sent[c] \in Nat
        /\ OrderOf(c)
    BY <1>0 DEF TypeInv
  <2>3. ASSUME NEW d \in Clients \ {c} PROVE OrderOf(d)'
    BY <1>0, <2>1, <2>3 DEF OrderOf
  <2>4. ASSUME NEW j \in DOMAIN up'[c] PROVE up'[c][j] \in 1 .. sent'[c]
    BY <2>1, <2>2, <2>4 DEF OrderOf
  <2>5. ASSUME NEW i \in DOMAIN up'[c], NEW j \in DOMAIN up'[c], i < j
        PROVE  up'[c][i] < up'[c][j]
    <3>1. i \in DOMAIN up[c] /\ up[c][i] \in 1 .. sent[c]
      BY <2>1, <2>2, <2>5 DEF OrderOf
    <3> QED
      BY <2>1, <2>2, <2>5, <3>1 DEF OrderOf
  <2>6. OrderOf(c)'
    BY <2>4, <2>5 DEF OrderOf
  <2>7. ASSUME Handling', serving = c
        PROVE  /\ command[2] \in 1 .. sent'[c]
               /\ \A j \in DOMAIN up'[c] : command[2] < up'[c][j]
    <3>1. command[2] \in 1 .. sent[c] /\ Later(c, command[2])
      BY <1>0, <2>1, <2>7 DEF OrderInv, Handling
    <3> QED
      BY <2>1, <2>2, <3>1 DEF Later
  <2>8. ASSUME Handling', serving # c
        PROVE  /\ command[2] \in 1 .. sent'[serving]
               /\ \A j \in DOMAIN up'[serving] : command[2] < up'[serving][j]
    <3>1. serving \in Clients
      BY <2>1, <2>8 DEF SessionInv, LoopInv, Handling
    <3> QED
      BY <1>0, <2>1, <2>8, <3>1 DEF OrderInv, Handling, Later
  <2>9. Handling' => command[1] = serving
    BY <1>0, <2>1 DEF OrderInv, Handling
  <2> QED
    BY <2>1, <2>3, <2>6, <2>7, <2>8, <2>9 DEF OrderInv, Later
<1>3. CASE UNCHANGED <<up, sent>> /\ (Handling' => Handling /\ UNCHANGED <<serving, command>>)
  BY <1>0, <1>3 DEF OrderInv, OrderOf, Later
<1> QED
  BY <1>1, <1>2, <1>3, QueueCases

(* What has been read stays so.                                            *)
LEMMA PastStays ==
    ASSUME SessionInv, [Next]_vars, NEW p \in Command, Past(p)
    PROVE  Past(p)'
<1> DEFINE c == p[1]
<1>0. /\ TypeInv /\ OrderOf(c)
      /\ c \in Clients /\ p[2] \in Nat /\ p[2] <= sent[c] /\ Later(c, p[2])
      /\ Handling /\ serving = c => p[2] <= command[2]
  BY DEF SessionInv, OrderInv, Past, Command
<1>1. SUFFICES /\ p[2] <= sent'[c]
               /\ \A j \in DOMAIN up'[c] : p[2] < up'[c][j]
               /\ Handling' /\ serving' = c => p[2] <= command'[2]
  BY DEF Past, Later
<1> HIDE DEF c
<1>2. CASE ReadCommand
  <2>1. PICK n \in 1 .. Len(up[serving]) :
          /\ n \in DOMAIN up[serving]
          /\ command' = <<serving, up[serving][n]>>
          /\ UNCHANGED <<serving, sent>>
          /\ \A d \in Clients \ {serving} : up'[d] = up[d]
          /\ \A i \in DOMAIN up'[serving] :
                i + n \in DOMAIN up[serving] /\ up'[serving][i] = up[serving][i + n]
    BY <1>2, ReadsCommand DEF peerVars
  <2>2. serving = c => p[2] <= up[serving][n]
    BY <1>0, <2>1 DEF Later, OrderOf
  <2>3. command'[2] = up[serving][n]
    BY <2>1
  <2> QED
    BY <1>0, <2>1, <2>2, <2>3 DEF Later
<1>3. ASSUME NEW d \in Clients, Type(d)
      PROVE  /\ p[2] <= sent'[c]
             /\ \A j \in DOMAIN up'[c] : p[2] < up'[c][j]
             /\ Handling' /\ serving' = c => p[2] <= command'[2]
  <2>1. /\ UNCHANGED <<server, serving, command>>
        /\ sent'[d] = sent[d] + 1
        /\ \A e \in Clients \ {d} : sent'[e] = sent[e] /\ up'[e] = up[e]
        /\ \A i \in DOMAIN up'[d] :
              \/ i \in DOMAIN up[d] /\ up'[d][i] = up[d][i]
              \/ up'[d][i] = sent[d] + 1
    BY <1>0, <1>3, TypesNext DEF loopVars
  <2>2. sent[c] \in Nat
    BY <1>0 DEF TypeInv
  <2>3. CASE d = c
    BY <1>0, <2>1, <2>2, <2>3 DEF Later, Handling
  <2>4. CASE d # c
    BY <1>0, <2>1, <2>4 DEF Later, Handling
  <2> QED
    BY <2>3, <2>4
<1>4. CASE UNCHANGED <<up, sent>> /\ (Handling' => Handling /\ UNCHANGED <<serving, command>>)
  BY <1>0, <1>4 DEF Later
<1> QED
  BY <1>2, <1>3, <1>4, QueueCases

(* What a client has been sent grows by one block, of the command that is  *)
(* running, or stays; that a client saves some of it changes nothing.      *)
LEMMA OutCases ==
    ASSUME SessionInv, [Next]_vars
    PROVE  \/ UNCHANGED Out
           \/ /\ server = "wait" /\ command \in Command /\ UNCHANGED sent
              /\ Out' = [Out EXCEPT ![command[1]] = @ \o <<command>>]
<1> USE DEF loopVars, peerVars
<1>0. TypeInv /\ LoopInv
  BY DEF SessionInv
<1>1. ASSUME UNCHANGED <<saved, down>> PROVE UNCHANGED Out
  BY <1>1 DEF Out
<1>2. CASE Accept \/ ReadCommand \/ ReadEof \/ ReadError \/ CallFails \/ Fork \/ Wait
  BY <1>1, <1>2 DEF Accept, ReadCommand, ReadEof, ReadError, CallFails, Dies, Fork, Wait
<1>3. ASSUME NEW c \in Clients, Connect(c) \/ Type(c) \/ TypeNothing(c) \/ Leave(c)
      PROVE  UNCHANGED Out
  BY <1>1, <1>3 DEF Connect, Type, TypeNothing, Leave
<1>4. ASSUME NEW c \in Clients, Save(c) PROVE UNCHANGED Out
  <2>1. /\ saved' = [saved EXCEPT ![c] = @ \o down[c]]
        /\ down' = [down EXCEPT ![c] = <<>>]
    BY <1>4 DEF Save
  <2>2. /\ saved \in [Clients -> Seq(Command)] /\ down \in [Clients -> Seq(Command)]
        /\ saved[c] \o down[c] \in Seq(Command)
    BY <1>0 DEF TypeInv
  <2>3. saved'[c] \o down'[c] = saved[c] \o down[c]
    BY <2>1, <2>2
  <2>4. \A d \in Clients \ {c} : saved'[d] \o down'[d] = saved[d] \o down[d]
    BY <2>1, <2>2
  <2> QED
    BY <2>3, <2>4 DEF Out
<1>5. ASSUME NEW k \in children, CommandEnds(k) PROVE UNCHANGED Out
  BY <1>1, <1>5 DEF CommandEnds, Becomes
<1>6. ASSUME NEW k \in children, CommandWrites(k)
      PROVE  /\ server = "wait" /\ command \in Command /\ UNCHANGED sent
             /\ Out' = [Out EXCEPT ![command[1]] = @ \o <<command>>]
  <2>1. server = "wait" /\ command = k.id /\ command \in Command
    BY <1>0, SameChild DEF LoopInv
  <2>2. command[1] \in Clients
    BY <2>1 DEF Command
  <2>3. /\ down' = [down EXCEPT ![command[1]] = Append(@, command)]
        /\ UNCHANGED <<saved, sent>>
    BY <1>6, <2>1 DEF CommandWrites, Becomes
  <2> DEFINE c == command[1]
             s == saved[c]
             t == down[c]
  <2>4. s \in Seq(Command) /\ t \in Seq(Command)
    BY <1>0, <2>2 DEF TypeInv
  <2>5. down'[c] = Append(t, command) /\ \A d \in Clients \ {c} : down'[d] = down[d]
    BY <1>0, <2>2, <2>3 DEF TypeInv
  <2> HIDE DEF s, t
  <2>6. s \o Append(t, command) = (s \o t) \o <<command>>
    BY <2>1, <2>4
  <2>7. saved'[c] \o down'[c] = Out[c] \o <<command>>
    BY <2>2, <2>3, <2>5, <2>6 DEF Out, s, t
  <2>8. ASSUME NEW d \in Clients \ {c} PROVE saved'[d] \o down'[d] = Out[d]
    <3>1. saved'[d] = saved[d] /\ down'[d] = down[d]
      BY <2>3, <2>5
    <3> QED
      BY <3>1 DEF Out
  <2>9. Out' = [d \in Clients |-> saved'[d] \o down'[d]]
    BY DEF Out
  <2>10. Out' = [Out EXCEPT ![c] = @ \o <<command>>]
    BY <2>2, <2>7, <2>8, <2>9 DEF Out
  <2> QED
    BY <2>1, <2>3, <2>10
<1>7. CASE UNCHANGED vars
  BY <1>1, <1>7 DEF vars
<1> QED
  BY <1>2, <1>3, <1>4, <1>5, <1>6, <1>7, NextCases

(* The command that is handled has been read.                              *)
LEMMA CommandPast ==
    ASSUME SessionInv, server = "wait"
    PROVE  command[1] = serving /\ Past(command)
  BY DEF SessionInv, TypeInv, OrderInv, Handling, Past, LoopInv

(* OutInv.                                                                 *)
LEMMA OutStep == SessionInv /\ [Next]_vars => OutInv'
<1> SUFFICES ASSUME SessionInv, [Next]_vars,
                    NEW c \in Clients, NEW i \in DOMAIN Out'[c]
             PROVE  (Out[c][i][1] = c /\ Past(Out[c][i]))'
  BY DEF OutInv
<1>0. OutInv /\ TypeInv
  BY DEF SessionInv
<1>1. Out \in [Clients -> Seq(Command)]
  BY <1>0 DEF Out, TypeInv
<1>2. ASSUME NEW p \in Command, p = Out'[c][i], p[1] = c, Past(p)
      PROVE  (Out[c][i][1] = c /\ Past(Out[c][i]))'
  <2>1. Past(p)'
    BY <1>2, PastStays
  <2> QED
    BY <1>2, <2>1 DEF Past
<1>3. ASSUME i \in DOMAIN Out[c], Out'[c][i] = Out[c][i]
      PROVE  (Out[c][i][1] = c /\ Past(Out[c][i]))'
  <2>1. Out[c][i] \in Command /\ Out[c][i][1] = c /\ Past(Out[c][i])
    BY <1>0, <1>1, <1>3 DEF OutInv
  <2> QED
    BY <1>2, <1>3, <2>1
<1>4. CASE UNCHANGED Out
  BY <1>3, <1>4
<1>5. CASE /\ server = "wait" /\ command \in Command
           /\ Out' = [Out EXCEPT ![command[1]] = @ \o <<command>>]
  <2>1. CASE c # command[1]
    BY <1>1, <1>3, <1>5, <2>1
  <2>2. CASE c = command[1]
    <3>1. Out'[c] = Out[c] \o <<command>> /\ Out[c] \in Seq(Command)
      BY <1>1, <1>5, <2>2
    <3>2. PICK s \in Seq(Command) : s = Out[c]
      BY <3>1
    <3>3. \/ i \in DOMAIN s /\ (s \o <<command>>)[i] = s[i]
          \/ (s \o <<command>>)[i] = command
      <4>1. i \in DOMAIN (s \o <<command>>)
        BY <3>1, <3>2
      <4> QED
        BY <3>2, <4>1
    <3>4. CASE Out'[c][i] = command
      BY <1>2, <1>5, <2>2, <3>4, CommandPast
    <3> QED
      BY <1>3, <3>1, <3>2, <3>3, <3>4
  <2> QED
    BY <2>1, <2>2
<1> QED
  BY <1>4, <1>5, OutCases

(* ResetInv and UnreadKills.                                               *)
LEMMA ResetStep == SessionInv /\ [Next]_vars => ResetInv' /\ UnreadKills'
<1> SUFFICES ASSUME SessionInv, [Next]_vars
             PROVE  ResetInv' /\ UnreadKills'
  OBVIOUS
<1> USE DEF loopVars, peerVars
<1>0. TypeInv /\ LoopInv /\ ResetInv /\ UnreadKills
  BY DEF SessionInv
<1>1. CASE UNCHANGED <<phase, down, died>>
  BY <1>0, <1>1 DEF ResetInv, UnreadKills, Gone
<1>2. CASE Accept \/ ReadCommand \/ ReadEof \/ Fork \/ Wait
  BY <1>1, <1>2 DEF Accept, ReadCommand, ReadEof, Fork, Wait
<1>3. CASE CallFails
  BY <1>0, <1>3 DEF CallFails, Dies, ResetInv, UnreadKills
<1>4. CASE ReadError
  <2>1. serving \in Clients /\ phase[serving] = "reset" /\ UNCHANGED <<phase, down>>
    BY <1>0, <1>4 DEF ReadError, Drained, Dies, LoopInv
  <2> QED
    BY <1>0, <2>1 DEF ResetInv, UnreadKills, Gone
<1>5. UNCHANGED vars \/ died = "no"
  BY DEF Next
<1>6. ASSUME UNCHANGED died, died = "no" PROVE UnreadKills'
  BY <1>6 DEF UnreadKills
<1>7. ASSUME NEW k \in children, CommandWrites(k), died = "no"
      PROVE  ResetInv' /\ UnreadKills'
  <2>1. k.id \in Command /\ k.id[1] \in Clients
    BY <1>0, SameChild DEF Command
  <2>2. PICK c \in Clients : c = k.id[1]
    BY <2>1
  <2>3. /\ down' = [down EXCEPT ![c] = Append(@, k.id)]
        /\ phase' = phase \/ phase' = [phase EXCEPT ![c] = "reset"]
        /\ UNCHANGED died
    BY <1>7, <2>2 DEF CommandWrites, Becomes
  <2>4. \A s \in Seq(Command) : Append(s, k.id) # <<>>
    BY <2>1
  <2>5. down'[c] # <<>> /\ \A d \in Clients \ {c} : down'[d] = down[d]
    BY <1>0, <2>2, <2>3, <2>4 DEF TypeInv
  <2>6. \A d \in Clients \ {c} : phase'[d] = phase[d]
    BY <1>0, <2>3 DEF TypeInv
  <2> QED
    BY <1>0, <1>6, <1>7, <2>3, <2>5, <2>6 DEF ResetInv
<1>8. ASSUME NEW k \in children, CommandEnds(k) PROVE UNCHANGED <<phase, down, died>>
  BY <1>8 DEF CommandEnds, Becomes
<1>9. ASSUME NEW c \in Clients, died = "no",
             Connect(c) \/ Type(c) \/ TypeNothing(c) \/ Leave(c)
      PROVE  ResetInv' /\ UnreadKills'
  <2>1. /\ UNCHANGED <<down, died>>
        /\ \A d \in Clients \ {c} : phase'[d] = phase[d]
        /\ phase'[c] = "reset" => down[c] # <<>>
    BY <1>0, <1>9 DEF Connect, Type, TypeNothing, Responding, Leave, TypeInv
  <2> QED
    BY <1>0, <1>6, <1>9, <2>1 DEF ResetInv
<1>10. ASSUME NEW c \in Clients, died = "no", Save(c) PROVE ResetInv' /\ UnreadKills'
  <2>1. /\ UNCHANGED <<phase, died>> /\ phase[c] = "save"
        /\ \A d \in Clients \ {c} : down'[d] = down[d]
    BY <1>0, <1>10 DEF Save, TypeInv
  <2> QED
    BY <1>0, <1>6, <1>10, <2>1 DEF ResetInv
<1>11. CASE UNCHANGED vars
  BY <1>1, <1>11 DEF vars
<1> QED
  BY <1>1, <1>2, <1>3, <1>4, <1>5, <1>7, <1>8, <1>9, <1>10, <1>11, NextCases

(* SessionInv is inductive.                                                *)
LEMMA InvStep == SessionInv /\ [Next]_vars => SessionInv'
  BY TypeStep, LoopStep, OrderStep, OutStep, ResetStep DEF SessionInv

LEMMA InvHolds == Spec => []SessionInv
  BY InvInit, InvStep, PTL DEF Spec

-----------------------------------------------------------------------------
(* The server ends of an error on a connection only if some client left    *)
(* without reading all it was sent.                                        *)
THEOREM UnreadKillsHolds == Spec => []UnreadKills
<1>1. SessionInv => UnreadKills
  BY DEF SessionInv
<1> QED
  BY <1>1, InvHolds, PTL

(* The server implements CommandSession: a step is a command that is sent, *)
(* a block of the one command that runs, or neither.                       *)
THEOREM OwnOutputHolds == Spec => OwnOutput
<1>1. Init => Session!Init
  BY DEF Init, Session!Init
<1>2. SessionInv /\ [Next]_vars => [Session!Next]_<<sent, Out>>
  <2> SUFFICES ASSUME SessionInv, [Next]_vars
               PROVE  [Session!Next]_<<sent, Out>>
    OBVIOUS
  <2>0. TypeInv /\ OrderInv /\ OutInv
    BY DEF SessionInv
  <2>1. ASSUME NEW c \in Clients, c = command[1], UNCHANGED sent,
               server = "wait", command \in Command,
               Out' = [Out EXCEPT ![command[1]] = @ \o <<command>>]
        PROVE  Session!Deliver(c)
    <3> PICK n : n = command[2]
      OBVIOUS
    <3>1. command = <<c, n>> /\ c = serving
      BY <2>0, <2>1, CommandPast DEF Command
    <3>2. n \in 1 .. sent[c]
      BY <2>0, <2>1, <3>1 DEF OrderInv, Handling
    <3>3. \A i \in DOMAIN Out[c] : Out[c][i][2] <= n
      BY <2>0, <2>1, <3>1 DEF OutInv, Past, Handling
    <3>4. [i \in 1 .. 1 |-> <<c, n>>] = <<command>>
      BY <3>1
    <3>5. Out' = [Out EXCEPT ![c] = @ \o [i \in 1 .. 1 |-> <<c, n>>]]
      BY <2>1, <3>4
    <3>6. \E m \in 1 .. sent[c], k \in 1 .. 1 :
              /\ \A i \in DOMAIN Out[c] : Out[c][i][2] <= m
              /\ Out' = [Out EXCEPT ![c] = @ \o [i \in 1 .. k |-> <<c, m>>]]
      <4> WITNESS n \in 1 .. sent[c]
      <4> WITNESS 1 \in 1 .. 1
      <4> QED
        BY <3>3, <3>5
    <3> QED
      BY <2>1, <3>6 DEF Session!Deliver, Out
  <2>2. ASSUME NEW c \in Clients, Type(c) PROVE Session!Ask(c) /\ UNCHANGED Out
    BY <2>2 DEF Type, Session!Ask, Out
  <2>3. UNCHANGED sent \/ \E c \in Clients : Type(c)
    BY QueueCases DEF ReadCommand, peerVars
  <2>4. CASE \E c \in Clients : Type(c)
    BY <2>2, <2>4 DEF Session!Next
  <2>5. CASE UNCHANGED sent /\ UNCHANGED Out
    BY <2>5
  <2>6. CASE UNCHANGED sent /\ ~UNCHANGED Out
    <3>1. /\ server = "wait" /\ command \in Command
          /\ Out' = [Out EXCEPT ![command[1]] = @ \o <<command>>]
      BY <2>6, OutCases
    <3>2. PICK c \in Clients : c = command[1]
      BY <3>1 DEF Command
    <3>3. Session!Deliver(c)
      BY <2>1, <2>6, <3>1, <3>2
    <3> QED
      BY <3>3 DEF Session!Next
  <2> QED
    BY <2>3, <2>4, <2>5, <2>6
<1> QED
  BY <1>1, <1>2, InvHolds, PTL DEF Spec, OwnOutput, Session!Spec, Out
-----------------------------------------------------------------------------
(* Who waits for whom.  A client that is queued or served has connected.   *)
ConnectedInv ==
    /\ \A i \in DOMAIN backlog : phase[backlog[i]] # "start"
    /\ \A c \in Clients : c = serving => phase[c] # "start"

(* A client that saves what it is sent types once, and gets nothing before.*)
SaverOf(c) ==
    /\ phase[c] = "save" => c \in Savers
    /\ c \in Savers /\ phase[c] \in {"start", "type"} => sent[c] = 0 /\ down[c] = <<>>

UserInv == ConnectedInv /\ \A c \in Clients : SaverOf(c)

LEMMA ConnectedStep == SessionInv /\ ConnectedInv /\ [Next]_vars => ConnectedInv'
<1> SUFFICES ASSUME SessionInv, ConnectedInv, [Next]_vars
             PROVE  ConnectedInv'
  OBVIOUS
<1> USE DEF loopVars, peerVars, Transition
<1>1. /\ TypeInv /\ backlog \in Seq(Clients) /\ serving \in Clients \cup {None}
      /\ phase \in [Clients -> {"start", "type", "save", "left", "reset"}]
      /\ \A i \in DOMAIN backlog : backlog[i] \in Clients
  BY DEF SessionInv, TypeInv
<1>2. ASSUME \A c \in Clients : phase[c] # "start" => phase'[c] # "start",
             UNCHANGED <<backlog, serving>>
      PROVE  ConnectedInv'
  BY <1>1, <1>2 DEF ConnectedInv
<1>3. CASE Accept
  <2>1. /\ serving' = Head(backlog) /\ backlog' = Tail(backlog) /\ phase' = phase
        /\ backlog # <<>>
    BY <1>3 DEF Accept
  <2>2. /\ serving' = backlog[1] /\ 1 \in DOMAIN backlog
        /\ \A i \in DOMAIN backlog' : i + 1 \in DOMAIN backlog /\ backlog'[i] = backlog[i + 1]
    BY <1>1, <2>1
  <2> QED
    BY <2>1, <2>2 DEF ConnectedInv
<1>4. CASE ReadEof
  <2>1. serving' = None /\ UNCHANGED <<backlog, phase>>
    BY <1>4 DEF ReadEof
  <2> QED
    BY <2>1, SessionAssumption DEF ConnectedInv
<1>5. ASSUME NEW c \in Clients, Connect(c) PROVE ConnectedInv'
  <2>1. /\ backlog' = Append(backlog, c) /\ serving' = serving
        /\ phase'[c] # "start" /\ \A d \in Clients : d # c => phase'[d] = phase[d]
    BY <1>1, <1>5 DEF Connect
  <2>2. \A i \in DOMAIN backlog' : backlog'[i] = c \/ (i \in DOMAIN backlog /\ backlog'[i] = backlog[i])
    BY <1>1, <2>1
  <2> QED
    BY <1>1, <2>1, <2>2 DEF ConnectedInv
<1>6. ASSUME NEW k \in children, CommandWrites(k) \/ CommandEnds(k) PROVE ConnectedInv'
  <2>1. \A c \in Clients : phase[c] # "start" => phase'[c] # "start"
    BY <1>1, <1>6 DEF CommandWrites, CommandEnds
  <2> QED
    BY <1>2, <1>6, <2>1 DEF CommandWrites, CommandEnds, Becomes
<1>7. ASSUME NEW c \in Clients, Type(c) \/ TypeNothing(c) \/ Leave(c) \/ Save(c)
      PROVE  ConnectedInv'
  <2>1. \A d \in Clients : phase[d] # "start" => phase'[d] # "start"
    BY <1>1, <1>7 DEF Type, TypeNothing, Leave, Save, Responding
  <2> QED
    BY <1>2, <1>7, <2>1 DEF Type, TypeNothing, Leave, Save
<1>8. CASE \/ ReadCommand \/ ReadError \/ CallFails \/ Fork \/ Wait \/ UNCHANGED vars
  BY <1>2, <1>8 DEF ReadCommand, ReadError, CallFails, Dies, Fork, Wait, vars
<1> QED
  BY <1>3, <1>4, <1>5, <1>6, <1>7, <1>8, NextCases

LEMMA SaverStep ==
    ASSUME SessionInv, [Next]_vars, NEW c \in Clients, SaverOf(c)
    PROVE  SaverOf(c)'
<1> USE DEF loopVars, peerVars, Transition
<1>1. /\ TypeInv /\ LoopInv /\ OrderInv /\ down \in [Clients -> Seq(Command)]
      /\ phase \in [Clients -> {"start", "type", "save", "left", "reset"}]
      /\ sent \in [Clients -> Nat]
  BY DEF SessionInv, TypeInv
<1>2. CASE UNCHANGED <<phase[c], sent[c], down[c]>>
  BY <1>2 DEF SaverOf
<1>3. ASSUME NEW k \in children, CommandWrites(k) PROVE SaverOf(c)'
  <2>1. k.id[1] = serving /\ serving \in Clients /\ sent[serving] # 0
    BY <1>1, SameChild DEF LoopInv, OrderInv, Handling
  <2>2. CASE c = serving
    <3>1. sent[c] # 0
      BY <2>1, <2>2
    <3>2. phase'[c] = phase[c] \/ phase'[c] = "reset"
      BY <1>1, <1>3 DEF CommandWrites
    <3>3. c \in Savers => phase[c] \notin {"start", "type"}
      BY <3>1 DEF SaverOf
    <3> QED
      BY <3>2, <3>3 DEF SaverOf
  <2>3. CASE c # serving
    <3>1. UNCHANGED <<phase[c], sent[c], down[c]>>
      BY <1>1, <1>3, <2>1, <2>3 DEF CommandWrites, Becomes
    <3> QED
      BY <1>2, <3>1
  <2> QED
    BY <2>2, <2>3
<1>4. ASSUME NEW d \in Clients, d # c,
             Connect(d) \/ Type(d) \/ TypeNothing(d) \/ Leave(d) \/ Save(d)
      PROVE  SaverOf(c)'
  <2>1. UNCHANGED <<phase[c], sent[c], down[c]>>
    BY <1>1, <1>4 DEF Connect, Type, TypeNothing, Responding, Leave, Save
  <2> QED
    BY <1>2, <2>1
<1>5. CASE Connect(c)
  BY <1>1, <1>5 DEF Connect, SaverOf
<1>6. CASE Type(c) \/ TypeNothing(c)
  <2>1. phase'[c] = IF c \in Savers THEN "save" ELSE "type"
    BY <1>1, <1>6 DEF Type, TypeNothing, Responding
  <2> QED
    BY <2>1 DEF SaverOf
<1>7. CASE Leave(c) \/ Save(c)
  BY <1>1, <1>7 DEF Leave, Save, SaverOf
<1>8. CASE \/ Accept \/ ReadCommand \/ ReadEof \/ ReadError \/ CallFails \/ Fork \/ Wait
           \/ (\E k \in children : CommandEnds(k)) \/ UNCHANGED vars
  BY <1>2, <1>8 DEF Accept, ReadCommand, ReadEof, ReadError, CallFails, Dies, Fork, Wait,
                    CommandEnds, Becomes, vars
<1> QED
  BY <1>3, <1>4, <1>5, <1>6, <1>7, <1>8, NextCases

LEMMA UserHolds == Spec => [](SessionInv /\ UserInv)
<1>1. Init => UserInv
  BY SessionAssumption DEF Init, UserInv, ConnectedInv, SaverOf
<1>2. SessionInv /\ UserInv /\ [Next]_vars => UserInv'
  BY ConnectedStep, SaverStep DEF UserInv
<1> QED
  BY <1>1, <1>2, InvInit, InvStep, PTL DEF Spec

(* The guards of Server, of Commands, and of Save in the client served.    *)
Proceeds ==
    \/ server = "accept" /\ backlog # <<>>
    \/ server = "read" /\ (up[serving] # <<>> \/ Gone(serving))
    \/ server = "fork"
    \/ server = "wait" /\ \E k \in children : k.done
    \/ \E k \in children : ~k.done /\ (k.left = 0 \/ phase[k.id[1]] = "reset")
    \/ \E k \in children :
          /\ k.left > 0 /\ phase[k.id[1]] # "reset"
          /\ Gone(k.id[1]) \/ Len(down[k.id[1]]) < SockCap
    \/ serving # None /\ phase[serving] = "save" /\ down[serving] # <<>>

(* While a connection is waiting, the server, its command or the client it *)
(* serves can go on, or that client stalls the server.                     *)
StalledOnly == backlog # <<>> => Proceeds \/ Stalled

(* The safety half of AcceptedOrStalled: but for a client that is served   *)
(* and types, reads or closes nothing, nobody waits for anybody else.      *)
THEOREM StalledOnlyHolds == Spec => []StalledOnly
<1>1. SessionInv /\ UserInv => StalledOnly
  <2> SUFFICES ASSUME SessionInv, UserInv, backlog # <<>>, ~Proceeds
               PROVE  Stalled
    BY DEF StalledOnly
  <2>1. /\ TypeInv /\ LoopInv /\ OrderInv
        /\ server \in {"read", "wait"} /\ serving \in Clients /\ serving # None
        /\ phase[serving] \in {"start", "type", "save", "left", "reset"}
        /\ Len(down[serving]) \in Nat /\ (down[serving] = <<>> => Len(down[serving]) = 0)
    <3>1. TypeInv /\ LoopInv /\ OrderInv
      BY DEF SessionInv
    <3>2. server \in {"read", "wait"}
      BY <3>1 DEF TypeInv, Proceeds
    <3>3. serving \in Clients /\ serving # None
      BY <3>1, <3>2, SessionAssumption DEF LoopInv
    <3>4. /\ down[serving] \in Seq(Command)
          /\ phase[serving] \in {"start", "type", "save", "left", "reset"}
      BY <3>1, <3>3 DEF TypeInv
    <3>5. Len(down[serving]) \in Nat /\ (down[serving] = <<>> => Len(down[serving]) = 0)
      BY <3>4
    <3> QED
      BY <3>1, <3>2, <3>3, <3>4, <3>5
  <2>2. SaverOf(serving) /\ phase[serving] # "start"
    BY <2>1 DEF UserInv, ConnectedInv
  <2>3. ~Gone(serving) => down[serving] = <<>> \/ serving \notin Savers
    BY <2>1, <2>2 DEF Gone, SaverOf, Proceeds
  <2>4. CASE server = "read"
    BY <2>1, <2>3, <2>4 DEF Proceeds, Stalled
  <2>5. CASE server = "wait"
    <3>1. PICK k \in Child : children = {k} /\ k.id[1] = serving
      BY <2>1, <2>5 DEF LoopInv, OrderInv, Handling
    <3>2. ~k.done /\ k.left > 0 /\ phase[serving] # "reset"
      BY <2>5, <3>1 DEF Proceeds, Child
    <3>3. ~Gone(serving) /\ ~(Len(down[serving]) < SockCap)
      BY <3>1, <3>2 DEF Proceeds
    <3>4. Len(down[serving]) >= SockCap /\ down[serving] # <<>>
      BY <2>1, <3>3, SessionAssumption
    <3> QED
      BY <2>1, <2>3, <2>5, <3>3, <3>4 DEF Stalled
  <2> QED
    BY <2>1, <2>4, <2>5
<1> QED
  BY <1>1, UserHolds, PTL
=============================================================================
