-------------------------- MODULE WebServerProofs --------------------------
(***************************************************************************)
(* Proofs about WebServer for any clients, requests and pipes: the type    *)
(* invariant, that children and waits match, whose text a response shows,  *)
(* and what can hold up a thread or keep a command alive.                  *)
(***************************************************************************)
EXTENDS WebServer, FiniteSetTheorems, TLAPS

Own(c)  == {c} \X (1 .. MaxReqs[c])
Forked  == {"close", "read", "reply", "wait"}
Piped   == {"fork"} \cup Forked
Busy    == {"pipe"} \cup Piped
Waiters == {c \in Clients : th[c].at \in Forked}

(* Requests that a thread has not read yet come after request n.           *)
Later(c, n) == \A j \in DOMAIN pending[c] : n < pending[c][j]

(* A thread works on a request of its own client, with the pipe it made    *)
(* for it, and at a terminal has read text of that request only.           *)
ThreadInv ==
    \A c \in Clients :
        /\ th[c].at \in Busy => th[c].request \in Own(c)
        /\ th[c].at \in Piped => th[c].channel = th[c].request
        /\ terminal /\ th[c].at = "reply" => th[c].output \in Seq({th[c].request})

(* Requests are sent and read in their order.                              *)
OrderOf(c) ==
    /\ sent[c] \in 0 .. MaxReqs[c]
    /\ \A i, j \in DOMAIN pending[c] : i < j => pending[c][i] < pending[c][j]
    /\ \A j \in DOMAIN pending[c] : pending[c][j] \in 1 .. sent[c]
    /\ th[c].at \in Busy =>
          th[c].request[2] <= sent[c] /\ Later(c, th[c].request[2])

OrderInv == \A c \in Clients : OrderOf(c)

(* Request p has been read: it is not later than the one its thread is at. *)
Past(p) ==
    LET c == p[1]
    IN  /\ p[2] <= sent[c] /\ Later(c, p[2])
        /\ th[c].at \in Busy => p[2] <= th[c].request[2]

(* There is one child for a request at most, and none for a request that   *)
(* is still to be forked for; it writes into the pipe of its request.      *)
Unforked(p) == th[p[1]].at \in {"pipe", "fork"} => th[p[1]].request # p

ChildInv ==
    /\ \A k, l \in children : k.id = l.id => k = l
    /\ \A k \in children : k.out = k.id /\ Past(k.id) /\ Unforked(k.id)

(* At a terminal stdio's buffer is empty when a command is forked, so that *)
(* a command writes text of its own request only, into the pipe of that.   *)
TextInv ==
    terminal =>
        /\ log = {}
        /\ \A k \in children : k.text = k.id
        /\ \A p \in Request : data[p] \in Seq({p})

(* What has been written to a client answers requests of its own that have *)
(* been read, each later than the one before, and all before the request   *)
(* still to be answered; behind the header in the buffer of the thread is  *)
(* the body of the last response.                                          *)
LastBody(c) == IF got[c] = <<>> THEN <<>> ELSE got[c][Len(got[c])].body

Answers(c, i) ==
    /\ got[c][i].request \in Own(c) /\ Past(got[c][i].request)
    /\ th[c].at \in Busy \ {"wait"} => got[c][i].request[2] < th[c].request[2]
    /\ \A j \in 1 .. i - 1 : got[c][j].request[2] < got[c][i].request[2]
    /\ terminal => OwnOrBefore(c, i)

AnswerInv ==
    \A c \in Clients :
        /\ conn[c] = "open" => th[c].rest = LastBody(c)
        /\ \A i \in DOMAIN got[c] : Answers(c, i)

MatchInv == IsFiniteSet(children) /\ ChildrenMatchWaits

WebInv ==
    TypeOK /\ ThreadInv /\ OrderInv /\ ChildInv /\ TextInv /\ AnswerInv /\ MatchInv

-----------------------------------------------------------------------------
(* The steps of the server, the commands and the clients.                  *)
LEMMA NextCases ==
    ASSUME Next
    PROVE  \/ Dies
           \/ \E c \in Clients :
                \/ Accept(c) \/ ReadRequest(c) \/ ReadEof(c) \/ MakePipe(c)
                \/ Fork(c) \/ CloseWrite(c) \/ ReadOutput(c) \/ Reply(c)
                \/ ReplyLost(c) \/ Wait(c) \/ Send(c) \/ Leave(c)
           \/ \E k \in children :
                k.state = "running" /\ (CommandWrites(k) \/ CommandEnds(k))
  BY DEF Next, TooMany, AcceptFails, HandleClient, HandleRequest, ReadError, RequestFails,
         ReplyDies, Command, Running

(* A request is known by its client and its number.                        *)
LEMMA RequestPair ==
    ASSUME NEW p \in Request
    PROVE  p[1] \in Clients /\ p[2] \in 1 .. MaxReqs[p[1]] /\ p = <<p[1], p[2]>>
  BY DEF Request

LEMMA OwnRequest ==
    ASSUME NEW c \in Clients, NEW p \in Own(c)
    PROVE  /\ p \in Request /\ p[1] = c /\ p[2] \in 1 .. MaxReqs[c]
           /\ p = <<c, p[2]>> /\ p # None
<1>1. p \in {c} \X (1 .. MaxReqs[c])
  BY DEF Own
<1>2. p \in Request
  BY <1>1 DEF Request
<1>3. p[1] = c /\ p[2] \in 1 .. MaxReqs[c] /\ p = <<c, p[2]>>
  BY <1>1
<1>4. <<c, p[2]>> # <<>>
  BY <1>3
<1> QED
  BY <1>2, <1>3, <1>4 DEF None

(* Cutting a sequence in two leaves sequences of the same elements.        *)
LEMMA CutType ==
    ASSUME NEW S, NEW s \in Seq(S), NEW n \in 0 .. Len(s)
    PROVE  /\ SubSeq(s, 1, n) \in Seq(S)
           /\ Len(SubSeq(s, 1, n)) = n
           /\ \A i \in 1 .. n : SubSeq(s, 1, n)[i] = s[i]
           /\ SubSeq(s, n + 1, Len(s)) \in Seq(S)
           /\ Len(SubSeq(s, n + 1, Len(s))) = Len(s) - n
           /\ \A i \in 1 .. Len(s) - n : SubSeq(s, n + 1, Len(s))[i] = s[i + n]
  OBVIOUS

(* What each action of the thread of client c makes of the state of that   *)
(* thread; every other thread stays as it is.                              *)
OthersStay(c) == \A d \in Clients \ {c} : th'[d] = th[d]

Moved(c, at, request, channel, output, rest) ==
    /\ th' \in [Clients -> ThreadState]
    /\ th'[c].at = at /\ th'[c].request = request
    /\ th'[c].channel = channel /\ th'[c].output = output /\ th'[c].rest = rest
    /\ OthersStay(c)

LEMMA Transits ==
    ASSUME TypeOK, NEW c \in Clients, NEW from,
           NEW to \in {"request", "close", "read", "gone"}, Transition(c, from, to)
    PROVE  /\ th[c].at = from
           /\ Moved(c, to, th[c].request, th[c].channel, th[c].output, th[c].rest)
<1>1. th \in [Clients -> ThreadState]
  BY DEF TypeOK
<1> QED
  BY <1>1 DEF Transition, Moved, OthersStay, ThreadState

LEMMA ReadRequestMoves ==
    ASSUME TypeOK, NEW c \in Clients, ReadRequest(c), <<c, Head(pending[c])>> \in Request
    PROVE  Moved(c, "pipe", <<c, Head(pending[c])>>, th[c].channel, th[c].output, th[c].rest)
<1> DEFINE p == <<c, Head(pending[c])>>
<1>1. th \in [Clients -> ThreadState]
  BY DEF TypeOK
<1>2. th' = [th EXCEPT ![c].at = "pipe", ![c].request = p] /\ p \in Request
  BY DEF ReadRequest
<1> HIDE DEF p
<1>3. Moved(c, "pipe", p, th[c].channel, th[c].output, th[c].rest)
  BY <1>1, <1>2 DEF Moved, OthersStay, ThreadState
<1> QED
  BY <1>3 DEF p

LEMMA MakePipeMoves ==
    ASSUME TypeOK, NEW c \in Clients, MakePipe(c), th[c].request \in Request
    PROVE  Moved(c, "fork", th[c].request, th[c].request, th[c].output, th[c].rest)
<1> DEFINE p == th[c].request
<1>1. th \in [Clients -> ThreadState] /\ th[c].request = p
  BY DEF TypeOK
<1>2. th' = [th EXCEPT ![c].channel = p, ![c].at = "fork"] /\ p \in Request
  BY DEF MakePipe, SetChannel
<1> HIDE DEF p
<1>3. Moved(c, "fork", th[c].request, p, th[c].output, th[c].rest)
  BY <1>1, <1>2 DEF Moved, OthersStay, ThreadState
<1> QED
  BY <1>3 DEF p

(* One read() of the pipe takes the first n blocks that are in it.         *)
LEMMA ReadOutputMoves ==
    ASSUME TypeOK, NEW c \in Clients, ReadOutput(c), th[c].channel \in Request
    PROVE  \E n \in 0 .. Len(data[th[c].channel]) :
              /\ data' = [data EXCEPT ![th[c].channel] =
                                        SubSeq(@, n + 1, Len(@))]
              /\ Moved(c, "reply", th[c].request, th[c].channel,
                       SubSeq(data[th[c].channel], 1, n), th[c].rest)
<1> DEFINE p == th[c].channel
<1>1. th \in [Clients -> ThreadState] /\ data[p] \in Seq(Request)
  BY DEF TypeOK
<1>2. PICK n \in IF data[p] = <<>> THEN {0} ELSE 1 .. Len(data[p]) :
          /\ th' = [th EXCEPT ![c].at = "reply", ![c].output = SubSeq(data[p], 1, n)]
          /\ data' = [data EXCEPT ![p] = SubSeq(@, n + 1, Len(@))]
  BY DEF ReadOutput
<1>3. n \in 0 .. Len(data[p])
  BY <1>1
<1>4. SubSeq(data[p], 1, n) \in Seq(Request)
  BY <1>1, <1>3, CutType
<1> DEFINE o == SubSeq(data[p], 1, n)
<1>5. th' = [th EXCEPT ![c].at = "reply", ![c].output = o] /\ o \in Seq(Request)
  BY <1>2, <1>4
<1> HIDE DEF o
<1>6. Moved(c, "reply", th[c].request, th[c].channel, o, th[c].rest)
  BY <1>1, <1>5 DEF Moved, OthersStay, ThreadState
<1> QED
  BY <1>2, <1>3, <1>6 DEF o

(* A response is made of one of the bodies.                                *)
LEMMA RepliedMoves ==
    ASSUME TypeOK, ThreadInv, NEW c \in Clients, Reply(c) \/ ReplyLost(c)
    PROVE  /\ th[c].at = "reply" /\ th[c].request \in Own(c) /\ th[c].request \in Request
           /\ \E body \in Bodies(c) :
                 /\ body \in Seq(Request)
                 /\ Moved(c, "wait", th[c].request, th[c].channel, <<>>, body)
                 /\ Reply(c) => got' = [got EXCEPT ![c] =
                        Append(@, [request |-> th[c].request, body |-> body])]
<1>1. PICK body \in Bodies(c) :
          /\ Replied(c, body)
          /\ Reply(c) => got' = [got EXCEPT ![c] =
                 Append(@, [request |-> th[c].request, body |-> body])]
  <2>1. CASE Reply(c)
    BY <2>1 DEF Reply
  <2>2. CASE ~Reply(c)
    BY <2>2 DEF ReplyLost
  <2> QED
    BY <2>1, <2>2
<1>2. th[c].at = "reply"
  BY <1>1 DEF Replied
<1>3. th[c].request \in Own(c) /\ th[c].request \in Request
  BY <1>2, OwnRequest DEF ThreadInv, Busy, Piped, Forked
<1>4. th \in [Clients -> ThreadState]
  BY DEF TypeOK
<1>5. body \in Seq(Request)
  <2>1. <<th[c].request>> \in Seq(Request)
    BY <1>3
  <2>2. th[c].output \in Seq(Request) /\ th[c].rest \in Seq(Request)
    BY <1>4 DEF ThreadState
  <2>3. \A s, t \in Seq(Request) : s \o t \in Seq(Request)
    OBVIOUS
  <2> QED
    BY <2>1, <2>2, <2>3 DEF Bodies
<1>6. /\ th' = [th EXCEPT ![c].at = "wait", ![c].output = <<>>, ![c].rest = body]
      /\ <<>> \in Seq(Request)
  BY <1>1 DEF Replied
<1>7. Moved(c, "wait", th[c].request, th[c].channel, <<>>, body)
  BY <1>4, <1>5, <1>6 DEF Moved, OthersStay, ThreadState
<1> QED
  BY <1>1, <1>2, <1>3, <1>5, <1>7

LEMMA WaitMoves ==
    ASSUME TypeOK, NEW c \in Clients, Wait(c)
    PROVE  Moved(c, "request", None, None, th[c].output, th[c].rest)
<1>1. th \in [Clients -> ThreadState]
  BY DEF TypeOK
<1>2. th' = [th EXCEPT ![c].at = "request", ![c].request = None, ![c].channel = None]
  BY DEF Wait
<1> HIDE DEF None
<1> QED
  BY <1>1, <1>2 DEF Moved, OthersStay, ThreadState

LEMMA InvInit == Init => WebInv
<1> SUFFICES ASSUME Init PROVE WebInv
  OBVIOUS
<1>1. TypeOK
  BY WebAssumption DEF Init, TypeOK, ThreadState
<1>2. ThreadInv /\ OrderInv /\ ChildInv
  BY WebAssumption DEF Init, ThreadInv, OrderInv, OrderOf, ChildInv, Busy, Piped, Forked
<1>3. TextInv /\ AnswerInv
  BY WebAssumption DEF Init, TextInv, AnswerInv, LastBody
<1>4. MatchInv
  <2>1. {c \in Clients : th[c].at \in Forked} = {}
    BY DEF Init, Forked
  <2> QED
    BY <2>1, FS_EmptySet DEF Init, MatchInv, ChildrenMatchWaits, Forked
<1> QED
  BY <1>1, <1>2, <1>3, <1>4 DEF WebInv

(* A request that is read is one of its client's.                          *)
LEMMA ReadsOwnRequest ==
    ASSUME TypeOK, OrderInv, NEW c \in Clients, ReadRequest(c)
    PROVE  <<c, Head(pending[c])>> \in Own(c) /\ <<c, Head(pending[c])>> \in Request
<1>1. Len(pending[c]) # 0
  BY DEF ReadRequest, TypeOK
<1>2. Head(pending[c]) = pending[c][1] /\ 1 \in DOMAIN pending[c]
  BY <1>1 DEF TypeOK
<1>3. pending[c][1] \in 1 .. MaxReqs[c]
  BY <1>2, WebAssumption DEF OrderInv, OrderOf
<1>4. <<c, Head(pending[c])>> \in Own(c)
  BY <1>2, <1>3 DEF Own
<1> QED
  BY <1>4, OwnRequest

(* The command that is forked for a request, at a terminal with text of    *)
(* that request only.                                                      *)
LEMMA ForkAdds ==
    ASSUME WebInv, NEW c \in Clients, Fork(c)
    PROVE  /\ th[c].at = "fork" /\ th[c].channel = th[c].request
           /\ th[c].request \in Request /\ th[c].request[1] = c
           /\ \E new \in ChildProcess :
                 /\ children' = children \cup {new}
                 /\ new.id = th[c].request /\ new.out = th[c].request
                 /\ terminal => new.text = th[c].request
                 /\ new.writes = writeEnds /\ new.reads = readEnds \ {th[c].request}
<1>1. /\ th[c].at = "fork" /\ th[c].channel = th[c].request
      /\ th[c].request \in Request /\ th[c].request[1] = c
  BY OwnRequest DEF Fork, Transition, WebInv, ThreadInv, Busy, Piped
<1>2. PICK text \in {th[c].request} \cup log, n \in Nat :
          children' = children \cup {Child(c, text, n)}
  BY WebAssumption DEF Fork
<1> DEFINE new == Child(c, text, n)
<1>3. text \in Request /\ (terminal => text = th[c].request)
  BY <1>1, <1>2 DEF WebInv, TypeOK, TextInv
<1>4. new \in ChildProcess
  BY <1>1, <1>3 DEF Child, ChildProcess, WebInv, TypeOK
<1>5. /\ new.id = th[c].request /\ new.out = th[c].request /\ new.text = text
      /\ new.writes = writeEnds /\ new.reads = readEnds \ {th[c].request}
  BY <1>1 DEF Child
<1> HIDE DEF new
<1>6. children' = children \cup {new}
  BY <1>2 DEF new
<1> QED
  BY <1>1, <1>3, <1>4, <1>5, <1>6

LEMMA TypeStep == WebInv /\ [Next]_vars => TypeOK'
<1> SUFFICES ASSUME WebInv, [Next]_vars
             PROVE  TypeOK'
  OBVIOUS
<1> USE DEF stdioVars, mainVars, pipeVars, kernelVars, clientVars
<1>0. TypeOK
  BY DEF WebInv
<1>1. CASE Dies
  BY <1>0, <1>1 DEF Dies, TypeOK
<1>2. ASSUME NEW c \in Clients, Accept(c) PROVE TypeOK'
  <2>1. th' \in [Clients -> ThreadState]
    BY <1>0, <1>2, Transits DEF Accept, Moved
  <2>2. no_clients' \in 0 .. MaxCons + 1
    BY <1>0, <1>2, WebAssumption DEF Accept, HasPlace, TypeOK
  <2> QED
    BY <1>0, <1>2, <2>1, <2>2 DEF Accept, TypeOK
<1>3. ASSUME NEW c \in Clients, ReadRequest(c) PROVE TypeOK'
  <2>1. PICK n \in 1 .. Len(pending[c]) :
          pending' = [pending EXCEPT ![c] = SubSeq(@, n + 1, Len(@))]
    BY <1>3 DEF ReadRequest
  <2>2. pending' \in [Clients -> Seq(Nat)]
    BY <1>0, <2>1, CutType DEF TypeOK
  <2>3. th' \in [Clients -> ThreadState]
    BY <1>0, <1>3, ReadsOwnRequest, ReadRequestMoves DEF WebInv, Moved
  <2> QED
    BY <1>0, <1>3, <2>2, <2>3 DEF ReadRequest, TypeOK
<1>4. ASSUME NEW c \in Clients, ReadEof(c) PROVE TypeOK'
  BY <1>0, <1>4, Transits DEF ReadEof, Moved, TypeOK
<1>5. ASSUME NEW c \in Clients, MakePipe(c) PROVE TypeOK'
  <2>1. th[c].request \in Request
    BY <1>5, OwnRequest DEF MakePipe, WebInv, ThreadInv, Busy
  <2> QED
    BY <1>0, <1>5, <2>1, MakePipeMoves DEF MakePipe, Moved, TypeOK
<1>6. ASSUME NEW c \in Clients, Fork(c) PROVE TypeOK'
  <2>1. th[c].request \in Request /\ children' \subseteq ChildProcess
    BY <1>0, <1>6, ForkAdds DEF TypeOK
  <2>2. log' \subseteq Request
    BY <1>0, <1>6, <2>1 DEF Fork, Printed, TypeOK
  <2> QED
    BY <1>0, <1>6, <2>1, <2>2, Transits DEF Fork, Moved, TypeOK
<1>7. ASSUME NEW c \in Clients, CloseWrite(c) PROVE TypeOK'
  BY <1>0, <1>7, Transits DEF CloseWrite, Moved, TypeOK
<1>8. ASSUME NEW c \in Clients, ReadOutput(c) PROVE TypeOK'
  <2>1. th[c].channel \in Request
    BY <1>8, OwnRequest DEF ReadOutput, WebInv, ThreadInv, Busy, Piped, Forked
  <2>2. PICK n \in 0 .. Len(data[th[c].channel]) :
          /\ data' = [data EXCEPT ![th[c].channel] = SubSeq(@, n + 1, Len(@))]
          /\ Moved(c, "reply", th[c].request, th[c].channel,
                   SubSeq(data[th[c].channel], 1, n), th[c].rest)
    BY <1>0, <1>8, <2>1, ReadOutputMoves
  <2>3. data[th[c].channel] \in Seq(Request)
    BY <1>0, <2>1 DEF TypeOK
  <2>4. data' \in [Request -> Seq(Request)]
    BY <1>0, <2>1, <2>2, <2>3, CutType DEF TypeOK
  <2> QED
    BY <1>0, <1>8, <2>2, <2>4 DEF ReadOutput, Moved, TypeOK
<1>9. ASSUME NEW c \in Clients, Reply(c) PROVE TypeOK'
  <2>1. PICK body \in Seq(Request) :
          /\ th' \in [Clients -> ThreadState] /\ th[c].request \in Request
          /\ got' = [got EXCEPT ![c] =
                 Append(@, [request |-> th[c].request, body |-> body])]
    BY <1>0, <1>9, RepliedMoves DEF WebInv, Moved
  <2>2. [request |-> th[c].request, body |-> body] \in Response
    BY <2>1 DEF Response
  <2>3. got' \in [Clients -> Seq(Response)]
    BY <1>0, <2>1, <2>2 DEF TypeOK
  <2> QED
    BY <1>0, <1>9, <2>1, <2>3 DEF Reply, Replied, TypeOK
<1>10. ASSUME NEW c \in Clients, ReplyLost(c) PROVE TypeOK'
  <2>1. th' \in [Clients -> ThreadState]
    BY <1>0, <1>10, RepliedMoves DEF WebInv, Moved
  <2> QED
    BY <1>0, <1>10, <2>1 DEF ReplyLost, Replied, TypeOK
<1>11. ASSUME NEW c \in Clients, Wait(c) PROVE TypeOK'
  <2>1. children' \subseteq ChildProcess
    BY <1>0, <1>11 DEF Wait, Reaped, TypeOK
  <2> QED
    BY <1>0, <1>11, <2>1, WaitMoves DEF Wait, CloseRead, Moved, TypeOK
<1>12. ASSUME NEW c \in Clients, Send(c) PROVE TypeOK'
  <2>1. sent[c] + 1 \in Nat /\ Append(pending[c], sent[c] + 1) \in Seq(Nat)
    BY <1>0 DEF TypeOK
  <2> QED
    BY <1>0, <1>12, <2>1 DEF Send, TypeOK
<1>13. ASSUME NEW c \in Clients, Leave(c) PROVE TypeOK'
  BY <1>0, <1>13 DEF Leave, TypeOK
<1>14. ASSUME NEW k \in children, CommandWrites(k) PROVE TypeOK'
  <2>1. /\ k \in ChildProcess /\ k.out \in Request /\ k.text \in Request
        /\ k.left - 1 \in Nat
    BY <1>0, <1>14 DEF CommandWrites, ChildProcess, TypeOK
  <2>2. data' \in [Request -> Seq(Request)]
    BY <1>0, <1>14, <2>1 DEF CommandWrites, TypeOK
  <2>3. [k EXCEPT !.left = @ - 1] \in ChildProcess
    BY <2>1 DEF ChildProcess
  <2>4. children' \subseteq ChildProcess
    BY <1>0, <1>14, <2>3 DEF CommandWrites, Becomes, TypeOK
  <2> QED
    BY <1>0, <1>14, <2>2, <2>4 DEF CommandWrites, Becomes, TypeOK
<1>15. ASSUME NEW k \in children, CommandEnds(k) PROVE TypeOK'
  <2>1. [k EXCEPT !.state = "ended"] \in ChildProcess
    BY <1>0 DEF ChildProcess, TypeOK
  <2>2. children' \subseteq ChildProcess
    BY <1>0, <1>15, <2>1 DEF CommandEnds, Becomes, TypeOK
  <2> QED
    BY <1>0, <1>15, <2>2 DEF CommandEnds, Becomes, TypeOK
<1>16. CASE UNCHANGED vars
  BY <1>0, <1>16 DEF vars, TypeOK
<1> QED
  BY <1>1, <1>2, <1>3, <1>4, <1>5, <1>6, <1>7, <1>8, <1>9, <1>10, <1>11, <1>12,
     <1>13, <1>14, <1>15, <1>16, NextCases

(* Standard output stays what it is.                                       *)
LEMMA TerminalStays == [Next]_vars => UNCHANGED terminal
<1> SUFFICES ASSUME [Next]_vars PROVE UNCHANGED terminal
  OBVIOUS
<1> USE DEF stdioVars, mainVars
<1>1. CASE Dies \/ UNCHANGED vars
  BY <1>1 DEF Dies, vars
<1>2. ASSUME NEW c \in Clients,
             \/ Accept(c) \/ ReadRequest(c) \/ ReadEof(c) \/ MakePipe(c) \/ Fork(c)
             \/ CloseWrite(c) \/ ReadOutput(c) \/ Reply(c) \/ ReplyLost(c) \/ Wait(c)
             \/ Send(c) \/ Leave(c)
      PROVE  UNCHANGED terminal
  BY <1>2 DEF Accept, ReadRequest, ReadEof, MakePipe, Fork, CloseWrite, ReadOutput,
              Reply, ReplyLost, Replied, Wait, Send, Leave
<1>3. ASSUME NEW k \in children, CommandWrites(k) \/ CommandEnds(k)
      PROVE  UNCHANGED terminal
  BY <1>3 DEF CommandWrites, CommandEnds, Becomes
<1> QED
  BY <1>1, <1>2, <1>3, NextCases

(* ThreadInv.                                                              *)
LEMMA ThreadStep == WebInv /\ [Next]_vars => ThreadInv'
<1> SUFFICES ASSUME WebInv, [Next]_vars
             PROVE  ThreadInv'
  OBVIOUS
<1> USE DEF Busy, Piped, Forked
<1>0. TypeOK /\ ThreadInv /\ UNCHANGED terminal
  BY TerminalStays DEF WebInv
<1>1. CASE UNCHANGED th
  BY <1>0, <1>1 DEF ThreadInv
<1>2. ASSUME NEW c \in Clients, Accept(c) PROVE ThreadInv'
  <2>1. Moved(c, "request", th[c].request, th[c].channel, th[c].output, th[c].rest)
    BY <1>0, <1>2, Transits DEF Accept
  <2> QED
    BY <1>0, <2>1 DEF ThreadInv, Moved, OthersStay
<1>3. ASSUME NEW c \in Clients, ReadRequest(c) PROVE ThreadInv'
  <2>1. /\ <<c, Head(pending[c])>> \in Own(c)
        /\ Moved(c, "pipe", <<c, Head(pending[c])>>, th[c].channel, th[c].output, th[c].rest)
    BY <1>0, <1>3, ReadsOwnRequest, ReadRequestMoves DEF WebInv
  <2> QED
    BY <1>0, <2>1 DEF ThreadInv, Moved, OthersStay
<1>4. ASSUME NEW c \in Clients, ReadEof(c) PROVE ThreadInv'
  <2>1. Moved(c, "gone", th[c].request, th[c].channel, th[c].output, th[c].rest)
    BY <1>0, <1>4, Transits DEF ReadEof
  <2> QED
    BY <1>0, <2>1 DEF ThreadInv, Moved, OthersStay
<1>5. ASSUME NEW c \in Clients, MakePipe(c) PROVE ThreadInv'
  <2>1. th[c].request \in Own(c) /\ th[c].request \in Request
    BY <1>0, <1>5, OwnRequest DEF MakePipe, ThreadInv
  <2>2. Moved(c, "fork", th[c].request, th[c].request, th[c].output, th[c].rest)
    BY <1>0, <1>5, <2>1, MakePipeMoves
  <2> QED
    BY <1>0, <2>1, <2>2 DEF ThreadInv, Moved, OthersStay
<1>6. ASSUME NEW c \in Clients, Fork(c) PROVE ThreadInv'
  <2>1. /\ th[c].at = "fork"
        /\ Moved(c, "close", th[c].request, th[c].channel, th[c].output, th[c].rest)
    BY <1>0, <1>6, Transits DEF Fork
  <2> QED
    BY <1>0, <2>1 DEF ThreadInv, Moved, OthersStay
<1>7. ASSUME NEW c \in Clients, CloseWrite(c) PROVE ThreadInv'
  <2>1. /\ th[c].at = "close"
        /\ Moved(c, "read", th[c].request, th[c].channel, th[c].output, th[c].rest)
    BY <1>0, <1>7, Transits DEF CloseWrite
  <2> QED
    BY <1>0, <2>1 DEF ThreadInv, Moved, OthersStay
<1>8. ASSUME NEW c \in Clients, ReadOutput(c) PROVE ThreadInv'
  <2> DEFINE p == th[c].channel
  <2>1. /\ th[c].at = "read" /\ p = th[c].request
        /\ th[c].request \in Own(c) /\ p \in Request
    BY <1>0, <1>8, OwnRequest DEF ReadOutput, ThreadInv
  <2>2. PICK n \in 0 .. Len(data[p]) :
          Moved(c, "reply", th[c].request, p, SubSeq(data[p], 1, n), th[c].rest)
    BY <1>0, <1>8, <2>1, ReadOutputMoves
  <2>3. data[p] \in Seq(Request) /\ (terminal => data[p] \in Seq({p}))
    BY <1>0, <2>1 DEF WebInv, TextInv, TypeOK
  <2>4. terminal => SubSeq(data[p], 1, n) \in Seq({p})
    BY <2>3, CutType
  <2> DEFINE o == SubSeq(data[p], 1, n)
  <2>5. terminal => o \in Seq({th[c].request})
    BY <2>1, <2>4
  <2>6. Moved(c, "reply", th[c].request, p, o, th[c].rest)
    BY <2>2
  <2> HIDE DEF o
  <2> QED
    BY <1>0, <2>1, <2>5, <2>6 DEF ThreadInv, Moved, OthersStay
<1>9. ASSUME NEW c \in Clients, Reply(c) \/ ReplyLost(c) PROVE ThreadInv'
  <2>1. PICK body : /\ th[c].at = "reply"
                    /\ Moved(c, "wait", th[c].request, th[c].channel, <<>>, body)
    BY <1>0, <1>9, RepliedMoves
  <2> QED
    BY <1>0, <2>1 DEF ThreadInv, Moved, OthersStay
<1>10. ASSUME NEW c \in Clients, Wait(c) PROVE ThreadInv'
  <2>1. Moved(c, "request", None, None, th[c].output, th[c].rest)
    BY <1>0, <1>10, WaitMoves
  <2> QED
    BY <1>0, <2>1 DEF ThreadInv, Moved, OthersStay
<1>11. CASE Dies
  BY <1>1, <1>11 DEF Dies
<1>12. ASSUME NEW c \in Clients, Send(c) \/ Leave(c) PROVE ThreadInv'
  BY <1>1, <1>12 DEF Send, Leave
<1>13. ASSUME NEW k \in children, CommandWrites(k) \/ CommandEnds(k) PROVE ThreadInv'
  BY <1>1, <1>13 DEF CommandWrites, CommandEnds, Becomes
<1>14. CASE UNCHANGED vars
  BY <1>1, <1>14 DEF vars
<1> QED
  BY <1>2, <1>3, <1>4, <1>5, <1>6, <1>7, <1>8, <1>9, <1>10, <1>11, <1>12, <1>13,
     <1>14, NextCases

(* A thread that does not read a request is at the same request after the  *)
(* step as before it; it passes fork() in Fork and leaves in Wait.         *)
LEMMA SameRequest ==
    ASSUME WebInv, [Next]_vars, NEW d \in Clients, ~ReadRequest(d)
    PROVE  /\ th'[d].at \in Busy => th[d].at \in Busy /\ th'[d].request = th[d].request
           /\ ~Fork(d) =>
                 /\ th'[d].at \in {"pipe", "fork"} => th[d].at \in {"pipe", "fork"}
                 /\ th'[d].at \in Forked => th[d].at \in Forked
           /\ ~Wait(d) => (th[d].at \in Forked => th'[d].at \in Forked)
           /\ th[d].at = "wait" => th'[d].at \in {"wait", "request"}
<1> DEFINE Same ==
             /\ th'[d].at \in Busy =>
                    th[d].at \in Busy /\ th'[d].request = th[d].request
             /\ ~Fork(d) =>
                    /\ th'[d].at \in {"pipe", "fork"} => th[d].at \in {"pipe", "fork"}
                    /\ th'[d].at \in Forked => th[d].at \in Forked
             /\ ~Wait(d) => (th[d].at \in Forked => th'[d].at \in Forked)
             /\ th[d].at = "wait" => th'[d].at \in {"wait", "request"}
<1> SUFFICES Same
  OBVIOUS
<1> USE DEF Busy, Piped, Forked
<1>0. TypeOK /\ ThreadInv
  BY DEF WebInv
<1>1. CASE th'[d] = th[d]
  BY <1>1
<1>2. ASSUME NEW c \in Clients, c # d, OthersStay(c) PROVE th'[d] = th[d]
  BY <1>2 DEF OthersStay
<1>3. ASSUME NEW c \in Clients, Accept(c) PROVE Same
  BY <1>0, <1>1, <1>2, <1>3, Transits DEF Accept, Moved
<1>4. ASSUME NEW c \in Clients, ReadRequest(c) PROVE Same
  BY <1>0, <1>1, <1>2, <1>4, ReadsOwnRequest, ReadRequestMoves DEF WebInv, Moved
<1>5. ASSUME NEW c \in Clients, ReadEof(c) PROVE Same
  BY <1>0, <1>1, <1>2, <1>5, Transits DEF ReadEof, Moved
<1>6. ASSUME NEW c \in Clients, MakePipe(c) PROVE Same
  <2>1. th[c].at = "pipe" /\ th[c].request \in Request
    BY <1>0, <1>6, OwnRequest DEF MakePipe, ThreadInv
  <2> QED
    BY <1>0, <1>1, <1>2, <1>6, <2>1, MakePipeMoves DEF Moved
<1>7. ASSUME NEW c \in Clients, Fork(c) PROVE Same
  BY <1>0, <1>1, <1>2, <1>7, Transits DEF Fork, Moved
<1>8. ASSUME NEW c \in Clients, CloseWrite(c) PROVE Same
  BY <1>0, <1>1, <1>2, <1>8, Transits DEF CloseWrite, Moved
<1>9. ASSUME NEW c \in Clients, ReadOutput(c) PROVE Same
  <2>1. th[c].at = "read" /\ th[c].channel \in Request
    BY <1>0, <1>9, OwnRequest DEF ReadOutput, ThreadInv
  <2> QED
    BY <1>0, <1>1, <1>2, <1>9, <2>1, ReadOutputMoves DEF Moved
<1>10. ASSUME NEW c \in Clients, Reply(c) \/ ReplyLost(c) PROVE Same
  <2>1. PICK body : /\ th[c].at = "reply"
                    /\ Moved(c, "wait", th[c].request, th[c].channel, <<>>, body)
    BY <1>0, <1>10, RepliedMoves
  <2> QED
    BY <1>1, <1>2, <2>1 DEF Moved
<1>11. ASSUME NEW c \in Clients, Wait(c) PROVE Same
  BY <1>0, <1>1, <1>2, <1>11, WaitMoves DEF Moved
<1>12. ASSUME NEW c \in Clients, Send(c) \/ Leave(c) PROVE Same
  BY <1>1, <1>12 DEF Send, Leave
<1>13. ASSUME NEW k \in children, CommandWrites(k) \/ CommandEnds(k) PROVE Same
  BY <1>1, <1>13 DEF CommandWrites, CommandEnds, Becomes
<1>14. CASE Dies \/ UNCHANGED vars
  BY <1>1, <1>14 DEF Dies, vars
<1> QED
  BY <1>3, <1>4, <1>5, <1>6, <1>7, <1>8, <1>9, <1>10, <1>11, <1>12, <1>13, <1>14,
     NextCases

(* Requests are only sent and read in two steps.                           *)
LEMMA QueueCases ==
    ASSUME [Next]_vars
    PROVE  \/ \E c \in Clients : ReadRequest(c) \/ Send(c)
           \/ (\A c \in Clients : ~ReadRequest(c)) /\ UNCHANGED <<pending, sent>>
<1> USE DEF stdioVars, mainVars, pipeVars, kernelVars, clientVars
<1>1. CASE \E c \in Clients : ReadRequest(c) \/ Send(c)
  BY <1>1
<1>2. CASE ~\E c \in Clients : ReadRequest(c) \/ Send(c)
  <2>1. CASE Dies \/ UNCHANGED vars
    BY <1>2, <2>1 DEF Dies, vars
  <2>2. ASSUME NEW c \in Clients,
               \/ Accept(c) \/ ReadEof(c) \/ MakePipe(c) \/ Fork(c) \/ CloseWrite(c)
               \/ ReadOutput(c) \/ Reply(c) \/ ReplyLost(c) \/ Wait(c) \/ Leave(c)
        PROVE  UNCHANGED <<pending, sent>>
    BY <2>2 DEF Accept, ReadEof, MakePipe, Fork, CloseWrite, ReadOutput, Reply,
                ReplyLost, Replied, Wait, Leave
  <2>3. ASSUME NEW k \in children, CommandWrites(k) \/ CommandEnds(k)
        PROVE  UNCHANGED <<pending, sent>>
    BY <2>3 DEF CommandWrites, CommandEnds, Becomes
  <2> QED
    BY <1>2, <2>1, <2>2, <2>3, NextCases
<1> QED
  BY <1>1, <1>2

(* What a thread reads is the first of the requests that wait for it, and  *)
(* those left come after it.                                               *)
LEMMA ReadsInOrder ==
    ASSUME WebInv, NEW c \in Clients, ReadRequest(c)
    PROVE  \E n \in 1 .. Len(pending[c]) :
              /\ 1 \in DOMAIN pending[c]
              /\ th'[c].request = <<c, pending[c][1]>> /\ th'[c].at = "pipe"
              /\ OthersStay(c) /\ UNCHANGED sent
              /\ \A d \in Clients \ {c} : pending'[d] = pending[d]
              /\ DOMAIN pending'[c] = 1 .. Len(pending[c]) - n
              /\ \A i \in DOMAIN pending'[c] :
                    i + n \in DOMAIN pending[c] /\ pending'[c][i] = pending[c][i + n]
<1>0. pending \in [Clients -> Seq(Nat)]
  BY DEF WebInv, TypeOK
<1>1. PICK n \in 1 .. Len(pending[c]) :
          pending' = [pending EXCEPT ![c] = SubSeq(@, n + 1, Len(@))]
  BY DEF ReadRequest
<1> DEFINE s   == pending[c]
           new == SubSeq(s, n + 1, Len(s))
<1>2. s \in Seq(Nat) /\ n \in 1 .. Len(s) /\ pending'[c] = new
  BY <1>0, <1>1
<1>3. \A d \in Clients \ {c} : pending'[d] = pending[d]
  BY <1>0, <1>1
<1>4. UNCHANGED sent
  BY DEF ReadRequest, clientVars
<1>5. <<c, Head(s)>> \in Request
  BY ReadsOwnRequest DEF WebInv
<1>6. Moved(c, "pipe", <<c, Head(s)>>, th[c].channel, th[c].output, th[c].rest)
  BY <1>5, ReadRequestMoves DEF WebInv
<1> HIDE DEF s
<1>7. Len(s) \in Nat /\ DOMAIN s = 1 .. Len(s) /\ Head(s) = s[1] /\ n \in 0 .. Len(s)
  BY <1>2
<1>8. /\ new \in Seq(Nat) /\ Len(new) = Len(s) - n
      /\ \A i \in 1 .. Len(s) - n : new[i] = s[i + n]
  BY <1>2, <1>7, CutType, ZenonT(30)
<1> HIDE DEF new
<1>9. DOMAIN new = 1 .. Len(s) - n
  BY <1>8
<1>10. ASSUME NEW i \in DOMAIN new PROVE i + n \in DOMAIN s /\ new[i] = s[i + n]
  <2>1. i \in 1 .. Len(s) - n /\ n \in Nat /\ Len(s) \in Nat
    BY <1>7, <1>9
  <2>2. i + n \in 1 .. Len(s)
    BY <2>1
  <2> QED
    BY <1>7, <1>8, <2>1, <2>2
<1>11. 1 \in DOMAIN s
  BY <1>2, <1>7
<1>12. th'[c].request = <<c, s[1]>> /\ th'[c].at = "pipe" /\ OthersStay(c)
  BY <1>6, <1>7 DEF Moved
<1> QED
  BY <1>2, <1>3, <1>4, <1>9, <1>10, <1>11, <1>12 DEF s

(* A client numbers its requests.                                          *)
LEMMA SendsNext ==
    ASSUME TypeOK, NEW c \in Clients, Send(c)
    PROVE  /\ UNCHANGED <<th, children, data, got>>
           /\ sent[c] < MaxReqs[c] /\ sent'[c] = sent[c] + 1
           /\ \A d \in Clients \ {c} : sent'[d] = sent[d] /\ pending'[d] = pending[d]
           /\ DOMAIN pending'[c] = 1 .. Len(pending[c]) + 1
           /\ \A i \in DOMAIN pending'[c] :
                 \/ i \in DOMAIN pending[c] /\ pending'[c][i] = pending[c][i]
                 \/ i = Len(pending[c]) + 1 /\ pending'[c][i] = sent[c] + 1
<1>1. /\ sent \in [Clients -> Nat] /\ pending \in [Clients -> Seq(Nat)]
      /\ sent' = [sent EXCEPT ![c] = @ + 1]
      /\ pending' = [pending EXCEPT ![c] = Append(@, sent[c] + 1)]
  BY DEF Send, TypeOK
<1> DEFINE s == pending[c]
           new == Append(s, sent[c] + 1)
<1>2. s \in Seq(Nat) /\ sent[c] + 1 \in Nat /\ pending'[c] = new
  BY <1>1
<1> HIDE DEF s
<1>3. /\ DOMAIN new = 1 .. Len(s) + 1 /\ DOMAIN s = 1 .. Len(s) /\ Len(s) \in Nat
      /\ \A i \in 1 .. Len(s) : new[i] = s[i]
      /\ new[Len(s) + 1] = sent[c] + 1
  BY <1>2
<1>4. \A i \in DOMAIN new :
          \/ i \in DOMAIN s /\ new[i] = s[i]
          \/ i = Len(s) + 1 /\ new[i] = sent[c] + 1
  BY <1>3
<1>5. UNCHANGED <<th, children, data, got>> /\ sent[c] < MaxReqs[c]
  BY DEF Send, kernelVars
<1>6. /\ sent'[c] = sent[c] + 1
      /\ \A d \in Clients \ {c} : sent'[d] = sent[d] /\ pending'[d] = pending[d]
  BY <1>1
<1> QED
  BY <1>2, <1>3, <1>4, <1>5, <1>6 DEF s

(* OrderInv.                                                               *)
LEMMA OrderStep == WebInv /\ [Next]_vars => OrderInv'
<1> SUFFICES ASSUME WebInv, [Next]_vars
             PROVE  OrderInv'
  OBVIOUS
<1>0. TypeOK /\ OrderInv /\ ThreadInv
  BY DEF WebInv
<1>1. ASSUME NEW c \in Clients, ReadRequest(c) PROVE OrderInv'
  <2>1. PICK n \in 1 .. Len(pending[c]) :
          /\ 1 \in DOMAIN pending[c]
          /\ th'[c].request = <<c, pending[c][1]>> /\ th'[c].at = "pipe"
          /\ OthersStay(c) /\ UNCHANGED sent
          /\ \A d \in Clients \ {c} : pending'[d] = pending[d]
          /\ DOMAIN pending'[c] = 1 .. Len(pending[c]) - n
          /\ \A i \in DOMAIN pending'[c] :
                i + n \in DOMAIN pending[c] /\ pending'[c][i] = pending[c][i + n]
    BY <1>1, ReadsInOrder
  <2>2. Len(pending[c]) \in Nat
    BY <1>0 DEF TypeOK
  <2>3. /\ pending[c][1] <= sent[c]
        /\ \A j \in DOMAIN pending'[c] : pending[c][1] < pending'[c][j]
    <3>1. pending[c][1] <= sent[c]
      BY <1>0, <2>1, WebAssumption DEF OrderInv, OrderOf
    <3>2. ASSUME NEW j \in DOMAIN pending'[c] PROVE pending[c][1] < pending'[c][j]
      <4>1. j + n \in DOMAIN pending[c] /\ 1 < j + n /\ pending'[c][j] = pending[c][j + n]
        BY <2>1, <2>2, <3>2
      <4> QED
        BY <1>0, <2>1, <4>1 DEF OrderInv, OrderOf
    <3> QED
      BY <3>1, <3>2
  <2>4. ASSUME NEW i \in DOMAIN pending'[c], NEW j \in DOMAIN pending'[c], i < j
        PROVE  pending'[c][i] < pending'[c][j]
    <3>1. /\ i + n \in DOMAIN pending[c] /\ pending'[c][i] = pending[c][i + n]
          /\ j + n \in DOMAIN pending[c] /\ pending'[c][j] = pending[c][j + n]
          /\ i + n < j + n
      BY <2>1, <2>2, <2>4
    <3> QED
      BY <1>0, <3>1 DEF OrderInv, OrderOf
  <2>5. \A j \in DOMAIN pending'[c] : pending'[c][j] \in 1 .. sent[c]
    BY <1>0, <2>1 DEF OrderInv, OrderOf
  <2> QED
    <3>1. ASSUME NEW d \in Clients, d # c PROVE OrderOf(d)'
      BY <1>0, <2>1, <3>1 DEF OrderInv, OrderOf, OthersStay, Later
    <3>2. OrderOf(c)'
      <4>1. th'[c].request[2] = pending[c][1]
        BY <2>1
      <4> QED
        BY <1>0, <2>1, <2>3, <2>4, <2>5, <4>1 DEF OrderInv, OrderOf, Later
    <3> QED
      BY <3>1, <3>2 DEF OrderInv, OrderOf
<1>2. ASSUME NEW c \in Clients, Send(c) PROVE OrderInv'
  <2>0. /\ UNCHANGED th
        /\ sent[c] < MaxReqs[c] /\ sent'[c] = sent[c] + 1
        /\ \A d \in Clients \ {c} : sent'[d] = sent[d] /\ pending'[d] = pending[d]
        /\ \A i \in DOMAIN pending'[c] :
              \/ i \in DOMAIN pending[c] /\ pending'[c][i] = pending[c][i]
              \/ i = Len(pending[c]) + 1 /\ pending'[c][i] = sent[c] + 1
    BY <1>0, <1>2, SendsNext
  <2>1. ASSUME NEW d \in Clients, d # c PROVE OrderOf(d)'
    BY <1>0, <2>0, <2>1 DEF OrderInv, OrderOf, Later
  <2>2. DOMAIN pending[c] = 1 .. Len(pending[c]) /\ Len(pending[c]) \in Nat
    BY <1>0 DEF TypeOK
  <2>3. OrderOf(c)
    BY <1>0 DEF OrderInv
  <2>4. sent'[c] \in 0 .. MaxReqs[c] /\ sent[c] \in Nat
    BY <2>0, <2>3, WebAssumption DEF OrderOf
  <2>5. ASSUME NEW j \in DOMAIN pending'[c] PROVE pending'[c][j] \in 1 .. sent'[c]
    BY <2>0, <2>3, <2>4, <2>5 DEF OrderOf
  <2>6. ASSUME NEW i \in DOMAIN pending'[c], NEW j \in DOMAIN pending'[c], i < j
        PROVE  pending'[c][i] < pending'[c][j]
    <3>1. i \in DOMAIN pending[c] /\ pending[c][i] \in 1 .. sent[c]
      BY <2>0, <2>2, <2>3, <2>6 DEF OrderOf
    <3> QED
      BY <2>0, <2>2, <2>3, <2>4, <2>6, <3>1 DEF OrderOf
  <2>7. ASSUME th'[c].at \in Busy
        PROVE  /\ th'[c].request[2] <= sent'[c]
               /\ \A j \in DOMAIN pending'[c] : th'[c].request[2] < pending'[c][j]
    <3>1. th[c].at \in Busy /\ th'[c] = th[c]
      BY <2>0, <2>7
    <3>2. th[c].request[2] <= sent[c] /\ Later(c, th[c].request[2])
      BY <2>3, <3>1 DEF OrderOf
    <3>3. th[c].request[2] \in 1 .. MaxReqs[c] /\ MaxReqs[c] \in Nat
      BY <1>0, <3>1, OwnRequest, WebAssumption DEF ThreadInv
    <3> QED
      BY <2>0, <2>4, <3>1, <3>2, <3>3 DEF Later
  <2>8. OrderOf(c)'
    BY <2>4, <2>5, <2>6, <2>7 DEF OrderOf, Later
  <2> QED
    BY <2>1, <2>8 DEF OrderInv, OrderOf
<1>3. CASE (\A c \in Clients : ~ReadRequest(c)) /\ UNCHANGED <<pending, sent>>
  BY <1>0, <1>3, SameRequest DEF OrderInv, OrderOf, Later
<1> QED
  BY <1>1, <1>2, <1>3, QueueCases

(* What has been read stays so, and is not read again.                     *)
LEMMA PastStays ==
    ASSUME WebInv, [Next]_vars, NEW p \in Request, Past(p)
    PROVE  Past(p)' /\ (ReadRequest(p[1]) => th'[p[1]].request # p)
<1> DEFINE c == p[1]
<1>0. /\ TypeOK /\ ThreadInv /\ OrderOf(c)
      /\ c \in Clients /\ p[2] \in Nat /\ p[2] <= sent[c] /\ Later(c, p[2])
      /\ th[c].at \in Busy => p[2] <= th[c].request[2]
  BY RequestPair, WebAssumption DEF WebInv, OrderInv, Past
<1>1. sent[c] \in Nat /\ Len(pending[c]) \in Nat
  BY <1>0 DEF TypeOK
<1>2. SUFFICES /\ p[2] <= sent'[c]
               /\ \A j \in DOMAIN pending'[c] : p[2] < pending'[c][j]
               /\ th'[c].at \in Busy => p[2] <= th'[c].request[2]
               /\ ReadRequest(c) => th'[c].request # p
  BY DEF Past, Later
<1> HIDE DEF c
<1>3. CASE ReadRequest(c)
  <2>1. PICK n \in 1 .. Len(pending[c]) :
          /\ 1 \in DOMAIN pending[c]
          /\ th'[c].request = <<c, pending[c][1]>>
          /\ UNCHANGED sent
          /\ \A i \in DOMAIN pending'[c] :
                i + n \in DOMAIN pending[c] /\ pending'[c][i] = pending[c][i + n]
    BY <1>0, <1>3, ReadsInOrder
  <2>2. p[2] < pending[c][1] /\ pending[c][1] \in Nat
    BY <1>0, <1>1, <2>1 DEF Later, OrderOf
  <2>3. th'[c].request[2] = pending[c][1]
    BY <2>1
  <2>4. th'[c].request # p /\ p[2] <= th'[c].request[2]
    BY <1>0, <2>2, <2>3
  <2> QED
    BY <1>0, <2>1, <2>4 DEF Later
<1>4. CASE ~ReadRequest(c)
  <2>1. th'[c].at \in Busy => th[c].at \in Busy /\ th'[c].request = th[c].request
    BY <1>0, <1>4, SameRequest
  <2>2. p[2] <= sent'[c] /\ \A j \in DOMAIN pending'[c] : p[2] < pending'[c][j]
    <3>1. ASSUME NEW d \in Clients, d # c, ReadRequest(d)
          PROVE  pending'[c] = pending[c] /\ UNCHANGED sent
      BY <1>0, <3>1, ReadsInOrder
    <3>2. ASSUME NEW d \in Clients, d # c, Send(d)
          PROVE  pending'[c] = pending[c] /\ sent'[c] = sent[c]
      BY <1>0, <3>2, SendsNext
    <3>3. ASSUME Send(c)
          PROVE  /\ sent'[c] = sent[c] + 1
                 /\ \A i \in DOMAIN pending'[c] :
                       \/ i \in DOMAIN pending[c] /\ pending'[c][i] = pending[c][i]
                       \/ pending'[c][i] = sent[c] + 1
      BY <1>0, <3>3, SendsNext
    <3>4. \/ pending'[c] = pending[c] /\ sent'[c] = sent[c]
          \/ Send(c)
      BY <1>4, <3>1, <3>2, QueueCases
    <3> QED
      BY <1>0, <1>1, <3>3, <3>4 DEF Later
  <2> QED
    BY <1>0, <1>4, <2>1, <2>2
<1> QED
  BY <1>3, <1>4

(* The request that a thread is at has been read.                          *)
LEMMA CurrentPast ==
    ASSUME WebInv, NEW c \in Clients, th[c].at \in Busy
    PROVE  Past(th[c].request)
<1>1. th[c].request \in Own(c)
  BY DEF WebInv, ThreadInv
<1>2. th[c].request[1] = c /\ th[c].request[2] \in Nat
  BY <1>1, OwnRequest, WebAssumption
<1>3. th[c].request[2] <= sent[c] /\ Later(c, th[c].request[2])
  BY DEF WebInv, OrderInv, OrderOf
<1> QED
  BY <1>2, <1>3 DEF Past

(* The steps that change the children.                                     *)
LEMMA ChildCases ==
    ASSUME [Next]_vars
    PROVE  \/ \E c \in Clients : Fork(c) \/ Wait(c)
           \/ /\ \E k \in children :
                    \/ children' = (children \ {k}) \cup {[k EXCEPT !.left = @ - 1]}
                    \/ children' = (children \ {k}) \cup {[k EXCEPT !.state = "ended"]}
              /\ UNCHANGED th
           \/ (\A c \in Clients : ~Fork(c) /\ ~Wait(c)) /\ UNCHANGED children
<1> USE DEF stdioVars, mainVars, pipeVars, kernelVars, clientVars
<1>1. ASSUME NEW c \in Clients,
             \/ Accept(c) \/ ReadRequest(c) \/ ReadEof(c) \/ MakePipe(c) \/ CloseWrite(c)
             \/ ReadOutput(c) \/ Reply(c) \/ ReplyLost(c) \/ Send(c) \/ Leave(c)
      PROVE  UNCHANGED children
  BY <1>1 DEF Accept, ReadRequest, ReadEof, MakePipe, CloseWrite, ReadOutput, Reply,
              ReplyLost, Replied, Send, Leave
<1>2. ASSUME NEW k \in children, CommandWrites(k) \/ CommandEnds(k)
      PROVE  /\ \/ children' = (children \ {k}) \cup {[k EXCEPT !.left = @ - 1]}
                \/ children' = (children \ {k}) \cup {[k EXCEPT !.state = "ended"]}
             /\ UNCHANGED th
  BY <1>2 DEF CommandWrites, CommandEnds, Becomes
<1>3. CASE Dies \/ UNCHANGED vars
  BY <1>3 DEF Dies, vars
<1> QED
  BY <1>1, <1>2, <1>3, NextCases

(* A child that is replaced keeps its name and its pipe.                   *)
LEMMA SameChild ==
    ASSUME TypeOK, NEW k \in children
    PROVE  /\ k \in ChildProcess /\ k.id \in Request
           /\ [k EXCEPT !.left = @ - 1].id = k.id /\ [k EXCEPT !.left = @ - 1].out = k.out
           /\ [k EXCEPT !.state = "ended"].id = k.id
           /\ [k EXCEPT !.state = "ended"].out = k.out
  BY DEF TypeOK, ChildProcess

(* TextInv.                                                                *)
LEMMA TextStep == WebInv /\ [Next]_vars => TextInv'
<1> SUFFICES ASSUME WebInv, [Next]_vars, terminal
             PROVE  /\ log' = {}
                    /\ \A k \in children' : k.text = k.id
                    /\ \A p \in Request : data'[p] \in Seq({p})
  BY TerminalStays DEF TextInv
<1> USE DEF stdioVars, mainVars, pipeVars, kernelVars, clientVars
<1>0. TypeOK /\ ThreadInv /\ ChildInv /\ TextInv
  BY DEF WebInv
<1>1. log' = {}
  <2>1. ASSUME NEW c \in Clients, Fork(c) PROVE log' = log
    BY <2>1 DEF Fork, Printed
  <2>2. ASSUME NEW c \in Clients,
               \/ Accept(c) \/ ReadRequest(c) \/ ReadEof(c) \/ MakePipe(c)
               \/ CloseWrite(c) \/ ReadOutput(c) \/ Reply(c) \/ ReplyLost(c) \/ Wait(c)
               \/ Send(c) \/ Leave(c)
        PROVE  log' = log
    BY <2>2 DEF Accept, ReadRequest, ReadEof, MakePipe, CloseWrite, ReadOutput, Reply,
                ReplyLost, Replied, Wait, Send, Leave
  <2>3. ASSUME NEW k \in children, CommandWrites(k) \/ CommandEnds(k) PROVE log' = log
    BY <2>3 DEF CommandWrites, CommandEnds, Becomes
  <2>4. ASSUME Dies \/ UNCHANGED vars PROVE log' = log
    BY <2>4 DEF Dies, vars
  <2>5. log' = log
    BY <2>1, <2>2, <2>3, <2>4, NextCases
  <2> QED
    BY <1>0, <2>5 DEF TextInv
<1>2. \A k \in children' : k.text = k.id
  <2>1. ASSUME NEW c \in Clients, Fork(c) PROVE \A k \in children' : k.text = k.id
    BY <1>0, <2>1, ForkAdds DEF TextInv
  <2>2. ASSUME NEW c \in Clients, Wait(c) PROVE \A k \in children' : k.text = k.id
    BY <1>0, <2>2 DEF Wait, Reaped, TextInv
  <2>3. ASSUME NEW k \in children,
               NEW new \in {[k EXCEPT !.left = @ - 1], [k EXCEPT !.state = "ended"]},
               children' = (children \ {k}) \cup {new}
        PROVE  \A l \in children' : l.text = l.id
    <3>1. new.text = k.text /\ new.id = k.id
      BY <1>0 DEF TypeOK, ChildProcess
    <3> QED
      BY <1>0, <2>3, <3>1 DEF TextInv
  <2> QED
    BY <1>0, <2>1, <2>2, <2>3, ChildCases DEF TextInv
<1>3. \A p \in Request : data'[p] \in Seq({p})
  <2>1. CASE UNCHANGED data
    BY <1>0, <2>1 DEF TextInv
  <2>2. ASSUME NEW c \in Clients, ReadOutput(c)
        PROVE  \A p \in Request : data'[p] \in Seq({p})
    <3> DEFINE q == th[c].channel
    <3>1. q \in Request
      BY <1>0, <2>2, OwnRequest DEF ReadOutput, ThreadInv, Busy, Piped, Forked
    <3>2. PICK n \in 0 .. Len(data[q]) :
            data' = [data EXCEPT ![q] = SubSeq(@, n + 1, Len(@))]
      BY <1>0, <2>2, <3>1, ReadOutputMoves
    <3>3. data[q] \in Seq({q})
      BY <1>0, <3>1 DEF TextInv
    <3>4. SubSeq(data[q], n + 1, Len(data[q])) \in Seq({q})
      BY <3>3, CutType
    <3> QED
      BY <1>0, <3>1, <3>2, <3>4 DEF TextInv, TypeOK
  <2>3. ASSUME NEW k \in children, CommandWrites(k)
        PROVE  \A p \in Request : data'[p] \in Seq({p})
    <3>1. k.text = k.out /\ k.out \in Request /\ data[k.out] \in Seq({k.out})
      BY <1>0 DEF ChildInv, TextInv, TypeOK, ChildProcess
    <3>2. Append(data[k.out], k.text) \in Seq({k.out})
      BY <3>1
    <3> QED
      BY <1>0, <2>3, <3>1, <3>2 DEF CommandWrites, TextInv, TypeOK
  <2>4. CASE Dies \/ UNCHANGED vars
    BY <2>1, <2>4 DEF Dies, vars
  <2>5. ASSUME NEW c \in Clients,
               \/ Accept(c) \/ ReadRequest(c) \/ ReadEof(c) \/ MakePipe(c) \/ Fork(c)
               \/ CloseWrite(c) \/ Reply(c) \/ ReplyLost(c) \/ Wait(c)
               \/ Send(c) \/ Leave(c)
        PROVE  UNCHANGED data
    BY <2>5 DEF Accept, ReadRequest, ReadEof, MakePipe, Fork, CloseWrite, Reply,
                ReplyLost, Replied, Wait, Send, Leave
  <2>6. ASSUME NEW k \in children, CommandEnds(k) PROVE UNCHANGED data
    BY <2>6 DEF CommandEnds
  <2> QED
    BY <2>1, <2>2, <2>3, <2>4, <2>5, <2>6, NextCases
<1> QED
  BY <1>1, <1>2, <1>3

(* ChildInv.                                                               *)
LEMMA ChildStep == WebInv /\ [Next]_vars => ChildInv'
<1> SUFFICES ASSUME WebInv, [Next]_vars
             PROVE  ChildInv'
  OBVIOUS
<1>0. TypeOK /\ ThreadInv /\ ChildInv
  BY DEF WebInv
<1>1. ASSUME NEW k \in children
      PROVE  k.id \in Request /\ k.out = k.id /\ Past(k.id)' /\ Unforked(k.id)'
  <2>1. k.id \in Request /\ k.out = k.id /\ Past(k.id) /\ Unforked(k.id)
    BY <1>0, SameChild DEF ChildInv
  <2> DEFINE p == k.id
             c == p[1]
  <2>2. c \in Clients /\ Past(p)' /\ (ReadRequest(c) => th'[c].request # p)
    BY <2>1, PastStays, RequestPair
  <2>3. CASE ReadRequest(c)
    BY <2>1, <2>2, <2>3 DEF Unforked
  <2>4. CASE Fork(c)
    BY <1>0, <2>1, <2>2, <2>4, Transits DEF Fork, Moved, Unforked
  <2>5. CASE ~ReadRequest(c) /\ ~Fork(c)
    <3>1. /\ th'[c].at \in Busy => th[c].at \in Busy /\ th'[c].request = th[c].request
          /\ th'[c].at \in {"pipe", "fork"} => th[c].at \in {"pipe", "fork"}
      BY <2>2, <2>5, SameRequest
    <3> QED
      BY <2>1, <2>2, <3>1 DEF Unforked, Busy, Piped
  <2> QED
    BY <2>3, <2>4, <2>5
<1>2. CASE children' \subseteq children
  <2>1. ASSUME NEW k \in children', NEW l \in children', k.id = l.id PROVE k = l
    BY <1>0, <1>2, <2>1 DEF ChildInv
  <2> QED
    BY <1>1, <1>2, <2>1 DEF ChildInv
<1>3. ASSUME NEW c \in Clients, Fork(c) PROVE ChildInv'
  <2>1. th[c].at = "fork" /\ th[c].request \in Request /\ th[c].request[1] = c
    BY <1>3, ForkAdds
  <2> PICK p \in Request : p = th[c].request
    BY <2>1
  <2>2. PICK new : children' = children \cup {new} /\ new.id = p /\ new.out = p
    BY <1>3, ForkAdds
  <2>3. Past(p)'
    BY <2>1, CurrentPast, PastStays DEF Busy, Piped
  <2>4. th'[c].at = "close"
    BY <1>0, <1>3, Transits DEF Fork, Moved
  <2>5. Unforked(p)'
    BY <2>1, <2>4 DEF Unforked
  <2>6. \A k \in children : k.id # p
    BY <1>0, <2>1 DEF ChildInv, Unforked
  <2>7. ASSUME NEW k \in children', NEW l \in children', k.id = l.id PROVE k = l
    BY <1>0, <2>2, <2>6, <2>7 DEF ChildInv
  <2>8. ASSUME NEW k \in children' PROVE k.out = k.id /\ Past(k.id)' /\ Unforked(k.id)'
    BY <1>1, <2>2, <2>3, <2>5
  <2> QED
    BY <2>7, <2>8 DEF ChildInv
<1>4. ASSUME NEW c \in Clients, Wait(c) PROVE ChildInv'
  BY <1>2, <1>4 DEF Wait, Reaped
<1>5. ASSUME NEW k \in children, NEW new, new.id = k.id, new.out = k.out,
             children' = (children \ {k}) \cup {new}
      PROVE  ChildInv'
  <2>1. ASSUME NEW m \in children', NEW l \in children', m.id = l.id PROVE m = l
    BY <1>0, <1>5, <2>1 DEF ChildInv
  <2>2. ASSUME NEW m \in children' PROVE m.out = m.id /\ Past(m.id)' /\ Unforked(m.id)'
    BY <1>1, <1>5
  <2> QED
    BY <2>1, <2>2 DEF ChildInv
<1> QED
  BY <1>0, <1>2, <1>3, <1>4, <1>5, ChildCases, SameChild

(* Nothing but a response changes what a client has been answered and,     *)
(* while the client is there, what the buffer of its thread holds.         *)
LEMMA AnswersStay ==
    ASSUME WebInv, [Next]_vars, NEW d \in Clients, ~Reply(d)
    PROVE  /\ got'[d] = got[d]
           /\ conn'[d] = "open" => conn[d] = "open" /\ th'[d].rest = th[d].rest
<1> USE DEF stdioVars, mainVars, pipeVars, kernelVars, clientVars
<1>0. TypeOK /\ ThreadInv /\ OrderInv
  BY DEF WebInv
<1>1. ASSUME NEW c \in Clients, Reply(c)
      PROVE  got'[d] = got[d] /\ UNCHANGED conn /\ th'[d].rest = th[d].rest
  <2>1. d # c
    BY <1>1
  <2>2. th'[d] = th[d]
    BY <1>0, <1>1, <2>1, RepliedMoves DEF Moved, OthersStay
  <2>3. got'[d] = got[d] /\ UNCHANGED conn
    BY <1>1, <2>1 DEF Reply, TypeOK
  <2> QED
    BY <2>2, <2>3
<1>2. ASSUME NEW c \in Clients, ReplyLost(c)
      PROVE  /\ UNCHANGED got
             /\ conn'[d] = "open" => conn[d] = "open" /\ th'[d].rest = th[d].rest
  <2>1. OthersStay(c)
    BY <1>0, <1>2, RepliedMoves DEF Moved
  <2>2. UNCHANGED got /\ conn' = [conn EXCEPT ![c] = "reset"]
    BY <1>2 DEF ReplyLost
  <2> QED
    BY <1>0, <2>1, <2>2 DEF OthersStay, TypeOK
<1>3. ASSUME NEW c \in Clients, Leave(c)
      PROVE  /\ UNCHANGED <<got, th>> /\ (conn'[d] = "open" => conn[d] = "open")
  BY <1>0, <1>3 DEF Leave, TypeOK
<1>4. ASSUME NEW c \in Clients,
             \/ Accept(c) \/ ReadRequest(c) \/ ReadEof(c) \/ MakePipe(c) \/ Fork(c)
             \/ CloseWrite(c) \/ ReadOutput(c) \/ Wait(c) \/ Send(c)
      PROVE  UNCHANGED <<got, conn>> /\ th'[d].rest = th[d].rest
  <2>1. UNCHANGED <<got, conn>>
    BY <1>4 DEF Accept, ReadRequest, ReadEof, MakePipe, Fork, CloseWrite, ReadOutput,
                Wait, Send
  <2>2. CASE Accept(c) \/ ReadEof(c) \/ Fork(c) \/ CloseWrite(c)
    BY <1>0, <2>1, <2>2, Transits DEF Accept, ReadEof, Fork, CloseWrite, Moved, OthersStay
  <2>3. CASE ReadRequest(c)
    BY <1>0, <2>1, <2>3, ReadsOwnRequest, ReadRequestMoves DEF Moved, OthersStay
  <2>4. CASE MakePipe(c)
    <3>1. th[c].request \in Request
      BY <1>0, <2>4, OwnRequest DEF MakePipe, ThreadInv, Busy
    <3> QED
      BY <1>0, <2>1, <2>4, <3>1, MakePipeMoves DEF Moved, OthersStay
  <2>5. CASE ReadOutput(c)
    <3>1. th[c].channel \in Request
      BY <1>0, <2>5, OwnRequest DEF ReadOutput, ThreadInv, Busy, Piped, Forked
    <3> QED
      BY <1>0, <2>1, <2>5, <3>1, ReadOutputMoves DEF Moved, OthersStay
  <2>6. CASE Wait(c)
    BY <1>0, <2>1, <2>6, WaitMoves DEF Moved, OthersStay
  <2>7. CASE Send(c)
    BY <2>1, <2>7 DEF Send
  <2> QED
    BY <1>4, <2>1, <2>2, <2>3, <2>4, <2>5, <2>6, <2>7
<1>5. ASSUME NEW k \in children, CommandWrites(k) \/ CommandEnds(k)
      PROVE  UNCHANGED <<got, conn, th>>
  BY <1>5 DEF CommandWrites, CommandEnds, Becomes
<1>6. CASE Dies \/ UNCHANGED vars
  BY <1>6 DEF Dies, vars
<1> QED
  BY <1>1, <1>2, <1>3, <1>4, <1>5, <1>6, NextCases

(* A response that has been written stays an answer to a request before    *)
(* the one its thread is at.                                               *)
LEMMA EarlierStays ==
    ASSUME WebInv, [Next]_vars, NEW d \in Clients, NEW r \in Own(d), Past(r),
           th[d].at \in Busy \ {"wait"} => r[2] < th[d].request[2]
    PROVE  Past(r)' /\ (th'[d].at \in Busy \ {"wait"} => r[2] < th'[d].request[2])
<1>1. /\ r \in Request /\ r[1] = d /\ r[2] \in Nat
  BY OwnRequest, WebAssumption
<1>2. Past(r)'
  BY <1>1, PastStays
<1>3. CASE ReadRequest(d)
  <2>1. 1 \in DOMAIN pending[d] /\ th'[d].request = <<d, pending[d][1]>>
    BY <1>3, ReadsInOrder
  <2>2. r[2] < pending[d][1]
    BY <1>1, <2>1 DEF Past, Later
  <2> QED
    BY <1>2, <2>1, <2>2
<1>4. CASE ~ReadRequest(d)
  BY <1>2, <1>4, SameRequest DEF Busy, Piped, Forked
<1> QED
  BY <1>3, <1>4

(* AnswerInv.                                                              *)
LEMMA AnswerStep == WebInv /\ [Next]_vars => AnswerInv'
<1> SUFFICES ASSUME WebInv, [Next]_vars, NEW c \in Clients
             PROVE  /\ conn'[c] = "open" => th'[c].rest = LastBody(c)'
                    /\ \A i \in DOMAIN got'[c] : Answers(c, i)'
  BY DEF AnswerInv
<1>0. /\ TypeOK /\ ThreadInv /\ got[c] \in Seq(Response) /\ UNCHANGED terminal
      /\ conn[c] = "open" => th[c].rest = LastBody(c)
      /\ \A i \in DOMAIN got[c] : Answers(c, i)
  BY TerminalStays DEF WebInv, AnswerInv, TypeOK
<1>1. ASSUME NEW i \in DOMAIN got[c], NEW r, r = got[c][i].request
      PROVE  /\ r \in Own(c) /\ Past(r)'
             /\ th'[c].at \in Busy \ {"wait"} => r[2] < th'[c].request[2]
  <2>1. /\ r \in Own(c) /\ Past(r)
        /\ th[c].at \in Busy \ {"wait"} => r[2] < th[c].request[2]
    BY <1>0, <1>1 DEF Answers
  <2> QED
    BY <2>1, EarlierStays
<1>2. CASE ~Reply(c)
  <2>1. /\ got'[c] = got[c]
        /\ conn'[c] = "open" => conn[c] = "open" /\ th'[c].rest = th[c].rest
    BY <1>2, AnswersStay
  <2>2. ASSUME NEW i \in DOMAIN got'[c] PROVE Answers(c, i)'
    <3> PICK r : r = got[c][i].request
      OBVIOUS
    <3>1. r \in Own(c) /\ Past(r)' /\ (th'[c].at \in Busy \ {"wait"} => r[2] < th'[c].request[2])
      BY <1>1, <2>1
    <3>2. Answers(c, i)
      BY <1>0, <2>1
    <3>3. OwnOrBefore(c, i) => OwnOrBefore(c, i)'
      BY <2>1 DEF OwnOrBefore
    <3> QED
      BY <1>0, <2>1, <3>1, <3>2, <3>3 DEF Answers
  <2> QED
    BY <1>0, <2>1, <2>2 DEF LastBody
<1>3. CASE Reply(c)
  <2>1. PICK body \in Bodies(c) :
          /\ body \in Seq(Request)
          /\ th[c].at = "reply" /\ th[c].request \in Own(c) /\ th[c].request \in Request
          /\ Moved(c, "wait", th[c].request, th[c].channel, <<>>, body)
          /\ got' = [got EXCEPT ![c] =
                 Append(@, [request |-> th[c].request, body |-> body])]
    BY <1>0, <1>3, RepliedMoves
  <2> PICK q \in Request : q = th[c].request
    BY <2>1
  <2> PICK n \in Nat : n = Len(got[c])
    BY <1>0
  <2>2. got'[c] = Append(got[c], [request |-> q, body |-> body])
    BY <1>0, <2>1 DEF TypeOK
  <2>3. /\ DOMAIN got'[c] = 1 .. n + 1 /\ DOMAIN got[c] = 1 .. n
        /\ Len(got'[c]) = n + 1 /\ got'[c] # <<>>
        /\ got'[c][n + 1] = [request |-> q, body |-> body]
        /\ \A i \in 1 .. n : got'[c][i] = got[c][i]
    <3>1. [request |-> q, body |-> body] \in Response
      BY <2>1 DEF Response
    <3> QED
      BY <1>0, <2>2, <3>1
  <2>4. th'[c].at = "wait" /\ th'[c].rest = body /\ conn[c] = "open"
    BY <1>3, <2>1 DEF Moved, Reply
  <2>5. LastBody(c)' = body
    BY <2>3 DEF LastBody
  <2>6. ASSUME NEW i \in 1 .. n PROVE Answers(c, i)'
    <3> PICK r : r = got[c][i].request
      OBVIOUS
    <3>1. r \in Own(c) /\ Past(r)'
      BY <1>1, <2>3
    <3>2. /\ got'[c][i] = got[c][i] /\ Answers(c, i)
          /\ \A j \in 1 .. i - 1 : got'[c][j] = got[c][j]
          /\ i > 1 => got'[c][i - 1] = got[c][i - 1]
      BY <1>0, <2>3
    <3>3. OwnOrBefore(c, i) => OwnOrBefore(c, i)'
      BY <3>2 DEF OwnOrBefore
    <3> QED
      BY <1>0, <2>4, <3>1, <3>2, <3>3 DEF Answers
  <2>7. Answers(c, n + 1)'
    <3>1. q \in Own(c) /\ Past(q)'
      BY <2>1, CurrentPast, PastStays DEF Busy, Piped, Forked
    <3>2. ASSUME NEW j \in 1 .. n PROVE got'[c][j].request[2] < q[2]
      BY <1>0, <2>1, <2>3 DEF Answers, Busy, Piped, Forked
    <3>3. ASSUME terminal
          PROVE  \/ \A k \in DOMAIN body : body[k] = q
                 \/ n > 0 /\ body = <<q>> \o got'[c][n].body
      <4>1. th[c].output \in Seq({q})
        BY <1>0, <2>1, <3>3 DEF ThreadInv
      <4>2. CASE body = <<q>>
        BY <4>2
      <4>3. CASE body = <<q>> \o th[c].output
        BY <4>1, <4>3
      <4>4. CASE body = <<q>> \o th[c].rest
        <5>1. th[c].rest = LastBody(c)
          BY <1>0, <2>4
        <5>2. CASE got[c] = <<>>
          BY <4>4, <5>1, <5>2 DEF LastBody
        <5>3. CASE got[c] # <<>>
          <6>1. n \in 1 .. n
            BY <1>0, <5>3
          <6>2. th[c].rest = got'[c][n].body
            BY <2>3, <5>1, <5>3, <6>1 DEF LastBody
          <6> QED
            BY <4>4, <6>1, <6>2
        <5> QED
          BY <5>2, <5>3
      <4> QED
        BY <2>1, <4>2, <4>3, <4>4 DEF Bodies
    <3>4. ASSUME terminal' PROVE OwnOrBefore(c, n + 1)'
      <4>1. terminal /\ (n + 1) - 1 = n /\ (n > 0 => n + 1 > 1)
        BY <1>0, <3>4
      <4>2. got'[c][n + 1].request = q /\ got'[c][n + 1].body = body
        BY <2>3
      <4>3. CASE \A k \in DOMAIN body : body[k] = q
        BY <4>2, <4>3 DEF OwnOrBefore
      <4>4. CASE n > 0 /\ body = <<q>> \o got'[c][n].body
        BY <4>1, <4>2, <4>4 DEF OwnOrBefore
      <4> QED
        BY <3>3, <4>1, <4>3, <4>4
    <3>5. \A j \in 1 .. (n + 1) - 1 : j \in 1 .. n
      OBVIOUS
    <3> QED
      BY <2>3, <2>4, <3>1, <3>2, <3>4, <3>5, SMTT(30) DEF Answers
  <2> QED
    BY <2>3, <2>4, <2>5, <2>6, <2>7
<1> QED
  BY <1>2, <1>3

-----------------------------------------------------------------------------
(* Children and waits.                                                     *)
LEMMA MatchStep == WebInv /\ [Next]_vars => MatchInv'
<1> SUFFICES ASSUME WebInv, [Next]_vars
             PROVE  MatchInv'
  OBVIOUS
<1> USE DEF Waiters, Forked
<1>0. /\ TypeOK /\ ThreadInv /\ ChildInv
      /\ IsFiniteSet(children) /\ Cardinality(children) = Cardinality(Waiters)
  BY DEF WebInv, MatchInv, ChildrenMatchWaits
<1>1. Waiters \subseteq Clients /\ IsFiniteSet(Waiters)
  BY WebAssumption, FS_Subset
<1>2. SUFFICES IsFiniteSet(children') /\ Cardinality(children') = Cardinality(Waiters')
  BY DEF MatchInv, ChildrenMatchWaits
<1>3. ASSUME NEW c \in Clients, Fork(c)
      PROVE  IsFiniteSet(children') /\ Cardinality(children') = Cardinality(Waiters')
  <2>1. /\ th[c].at = "fork" /\ th[c].request \in Request /\ th[c].request[1] = c
    BY <1>0, <1>3, OwnRequest DEF Fork, Transition, ThreadInv, Busy, Piped
  <2>2. Moved(c, "close", th[c].request, th[c].channel, th[c].output, th[c].rest)
    BY <1>0, <1>3, Transits DEF Fork
  <2>3. Waiters' = Waiters \cup {c} /\ c \notin Waiters
    BY <2>1, <2>2 DEF Moved, OthersStay
  <2>4. PICK kid : children' = children \cup {kid} /\ kid.id = th[c].request
    BY <1>3, ForkAdds
  <2>5. kid \notin children
    BY <1>0, <2>1, <2>4 DEF ChildInv, Unforked
  <2>6. IsFiniteSet(children') /\ Cardinality(children') = Cardinality(children) + 1
    BY <1>0, <2>4, <2>5, FS_AddElement
  <2>7. Cardinality(Waiters') = Cardinality(Waiters) + 1
    BY <1>1, <2>3, FS_AddElement
  <2> QED
    BY <1>0, <2>6, <2>7
<1>4. ASSUME NEW c \in Clients, Wait(c)
      PROVE  IsFiniteSet(children') /\ Cardinality(children') = Cardinality(Waiters')
  <2>1. c \in Waiters
    BY <1>4 DEF Wait
  <2>2. Moved(c, "request", None, None, th[c].output, th[c].rest)
    BY <1>0, <1>4, WaitMoves
  <2>3. Waiters' = Waiters \ {c}
    BY <2>2 DEF Moved, OthersStay
  <2>4. children # {}
    BY <1>0, <1>1, <2>1, FS_EmptySet
  <2>5. PICK k \in children : children' = children \ {k}
    BY <1>4, <2>4 DEF Wait, Reaped, Running
  <2> QED
    BY <1>0, <1>1, <2>1, <2>3, <2>5, FS_RemoveElement, ZenonT(30)
<1>5. ASSUME NEW k \in children, NEW new, new.id = k.id,
             children' = (children \ {k}) \cup {new}, UNCHANGED th
      PROVE  IsFiniteSet(children') /\ Cardinality(children') = Cardinality(Waiters')
  <2>1. new \notin children \ {k}
    BY <1>0, <1>5 DEF ChildInv
  <2>2. IsFiniteSet(children \ {k}) /\ Cardinality(children \ {k}) = Cardinality(children) - 1
    BY <1>0, FS_RemoveElement
  <2>3. IsFiniteSet(children') /\ Cardinality(children') = Cardinality(children \ {k}) + 1
    BY <1>5, <2>1, <2>2, FS_AddElement
  <2>4. Cardinality(children) \in Nat
    BY <1>0, FS_CardinalityType
  <2> QED
    BY <1>0, <1>5, <2>2, <2>3, <2>4
<1>6. ASSUME \A c \in Clients : ~Fork(c) /\ ~Wait(c), UNCHANGED children
      PROVE  IsFiniteSet(children') /\ Cardinality(children') = Cardinality(Waiters')
  <2>1. \A c \in Clients : th'[c].at \in Forked <=> th[c].at \in Forked
    <3> SUFFICES ASSUME NEW c \in Clients
                 PROVE  th'[c].at \in Forked <=> th[c].at \in Forked
      OBVIOUS
    <3>1. CASE ReadRequest(c)
      BY <1>0, <3>1, ReadsInOrder DEF ReadRequest
    <3>2. CASE ~ReadRequest(c)
      BY <1>6, <3>2, SameRequest
    <3> QED
      BY <3>1, <3>2
  <2>2. Waiters' = Waiters
    BY <2>1
  <2> QED
    BY <1>0, <1>6, <2>2
<1> QED
  BY <1>0, <1>3, <1>4, <1>5, <1>6, ChildCases, SameChild

(* WebInv is inductive.                                                    *)
LEMMA InvStep == WebInv /\ [Next]_vars => WebInv'
  BY TypeStep, ThreadStep, OrderStep, ChildStep, TextStep, AnswerStep, MatchStep
     DEF WebInv

LEMMA InvHolds == Spec => []WebInv
  BY InvInit, InvStep, PTL DEF Spec

-----------------------------------------------------------------------------
(* The server's variables keep their types.                                *)
THEOREM TypeCorrect == Spec => []TypeOK
<1>1. WebInv => TypeOK
  BY DEF WebInv
<1> QED
  BY <1>1, InvHolds, PTL

(* Whoever reaps whose child, there are as many children as threads that   *)
(* have forked and not waited, for any clients and any commands.           *)
THEOREM ChildrenMatch == Spec => []ChildrenMatchWaits
<1>1. WebInv => ChildrenMatchWaits
  BY DEF WebInv, MatchInv
<1> QED
  BY <1>1, InvHolds, PTL

(* A client gets one response at most to each request, in order, and no    *)
(* response shows text of another client: behind the header stands text of *)
(* its own request or what the response before showed to the same client.  *)
THEOREM OwnAnswersHold == Spec => []OwnAnswers
<1>1. WebInv => OwnAnswers
  <2> SUFFICES ASSUME WebInv, NEW c \in Clients, NEW i \in DOMAIN got[c]
               PROVE  /\ got[c][i].request \in {c} \X (1 .. sent[c])
                      /\ \A j \in 1 .. i - 1 :
                            got[c][j].request[2] < got[c][i].request[2]
                      /\ terminal => OwnOrBefore(c, i)
    BY DEF OwnAnswers
  <2>1. Answers(c, i)
    BY DEF WebInv, AnswerInv
  <2> DEFINE r == got[c][i].request
  <2>2. r[1] = c /\ r[2] \in 1 .. MaxReqs[c] /\ r = <<c, r[2]>> /\ r[2] <= sent[c]
    BY <2>1, OwnRequest DEF Answers, Past
  <2>3. r[2] \in 1 .. sent[c]
    BY <2>2, WebAssumption DEF WebInv, TypeOK
  <2> QED
    BY <2>1, <2>2, <2>3 DEF Answers
<1> QED
  BY <1>1, InvHolds, PTL

-----------------------------------------------------------------------------
(* Who holds up whom.  The server holds the ends of the pipe of the        *)
(* request that a thread is at and of no other.                            *)
EndsOf(p) ==
    LET t == th[p[1]]
    IN  /\ p \in writeEnds => t.at \in {"fork", "close"} /\ t.request = p
        /\ p \in readEnds  => t.at \in Piped /\ t.request = p

EndsInv == \A p \in Request : EndsOf(p)

(* A command inherits no pipe that its own client had before, and does not *)
(* hold the read end of its own.                                           *)
Heirless(k) ==
    /\ \A p \in k.writes \cup k.reads : p[1] = k.id[1] => p = k.id
    /\ k.id \notin k.reads

HeirInv == \A k \in children : Heirless(k)

LEMMA EndsStep == WebInv /\ EndsInv /\ [Next]_vars => EndsInv'
<1> SUFFICES ASSUME WebInv, EndsInv, [Next]_vars, NEW p \in Request
             PROVE  EndsOf(p)'
  BY DEF EndsInv
<1> USE DEF stdioVars, mainVars, pipeVars, kernelVars, clientVars
<1>1. TypeOK /\ ThreadInv /\ OrderInv /\ EndsOf(p) /\ p[1] \in Clients
  BY RequestPair DEF WebInv, EndsInv
<1>2. ASSUME NEW c \in Clients, OthersStay(c), c # p[1] PROVE th'[p[1]] = th[p[1]]
  BY <1>1, <1>2 DEF OthersStay
<1>3. ASSUME th'[p[1]] = th[p[1]], p \in writeEnds' => p \in writeEnds,
             p \in readEnds' => p \in readEnds
      PROVE  EndsOf(p)'
  BY <1>1, <1>3 DEF EndsOf
<1>4. ASSUME NEW c \in Clients, Accept(c) \/ ReadRequest(c) \/ ReadEof(c) PROVE EndsOf(p)'
  <2>1. OthersStay(c) /\ th[c].at \in {"idle", "request"}
    <3>1. CASE Accept(c) \/ ReadEof(c)
      BY <1>1, <3>1, Transits DEF Accept, ReadEof, Moved, Transition
    <3>2. CASE ReadRequest(c)
      BY <1>1, <3>2, ReadsOwnRequest, ReadRequestMoves DEF ReadRequest, Moved
    <3> QED
      BY <1>4, <3>1, <3>2
  <2>2. UNCHANGED pipeVars
    BY <1>4 DEF Accept, ReadRequest, ReadEof
  <2>3. CASE c = p[1]
    BY <1>1, <2>1, <2>2, <2>3 DEF EndsOf, Piped, Forked
  <2> QED
    BY <1>2, <1>3, <2>1, <2>2, <2>3
<1>5. ASSUME NEW c \in Clients, MakePipe(c) PROVE EndsOf(p)'
  <2>1. th[c].at = "pipe" /\ th[c].request \in Request /\ th[c].request[1] = c
    BY <1>1, <1>5, OwnRequest DEF MakePipe, ThreadInv, Busy
  <2>2. /\ OthersStay(c) /\ th'[c].at = "fork" /\ th'[c].request = th[c].request
        /\ writeEnds' = writeEnds \cup {th[c].request}
        /\ readEnds' = readEnds \cup {th[c].request}
    BY <1>1, <1>5, <2>1, MakePipeMoves DEF MakePipe, Moved
  <2>3. CASE c = p[1]
    BY <1>1, <2>1, <2>2, <2>3 DEF EndsOf, Piped, Forked
  <2> QED
    BY <1>2, <1>3, <2>1, <2>2, <2>3
<1>6. ASSUME NEW c \in Clients, Fork(c) PROVE EndsOf(p)'
  <2>1. /\ OthersStay(c) /\ th[c].at = "fork" /\ th'[c].at = "close"
        /\ th'[c].request = th[c].request /\ UNCHANGED pipeVars
    BY <1>1, <1>6, Transits DEF Fork, Moved
  <2>2. CASE c = p[1]
    BY <1>1, <2>1, <2>2 DEF EndsOf, Piped, Forked
  <2> QED
    BY <1>2, <1>3, <2>1, <2>2
<1>7. ASSUME NEW c \in Clients, CloseWrite(c) PROVE EndsOf(p)'
  <2>1. /\ OthersStay(c) /\ th[c].at = "close" /\ th'[c].at = "read"
        /\ th'[c].request = th[c].request /\ th[c].channel = th[c].request
        /\ writeEnds' = writeEnds \ {th[c].channel} /\ UNCHANGED readEnds
    BY <1>1, <1>7, Transits DEF CloseWrite, Moved, Transition, ThreadInv, Piped, Forked
  <2>2. CASE c = p[1]
    BY <1>1, <2>1, <2>2 DEF EndsOf, Piped, Forked
  <2> QED
    BY <1>2, <1>3, <2>1, <2>2
<1>8. ASSUME NEW c \in Clients, ReadOutput(c) \/ Reply(c) \/ ReplyLost(c) PROVE EndsOf(p)'
  <2>1. /\ OthersStay(c) /\ th[c].at \in {"read", "reply"}
        /\ th'[c].at \in {"reply", "wait"} /\ th'[c].request = th[c].request
    <3>1. CASE ReadOutput(c)
      <4>1. th[c].at = "read" /\ th[c].channel \in Request
        BY <1>1, <3>1, OwnRequest DEF ReadOutput, ThreadInv, Busy, Piped, Forked
      <4> QED
        BY <1>1, <3>1, <4>1, ReadOutputMoves DEF Moved
    <3>2. CASE Reply(c) \/ ReplyLost(c)
      BY <1>1, <3>2, RepliedMoves DEF Moved
    <3> QED
      BY <1>8, <3>1, <3>2
  <2>2. UNCHANGED pipeVars
    BY <1>8 DEF ReadOutput, Reply, ReplyLost, Replied
  <2>3. CASE c = p[1]
    BY <1>1, <2>1, <2>2, <2>3 DEF EndsOf, Piped, Forked
  <2> QED
    BY <1>2, <1>3, <2>1, <2>2, <2>3
<1>9. ASSUME NEW c \in Clients, Wait(c) PROVE EndsOf(p)'
  <2>1. /\ OthersStay(c) /\ th[c].at = "wait" /\ th[c].channel = th[c].request
        /\ readEnds' = readEnds \ {th[c].channel} /\ UNCHANGED writeEnds
    BY <1>1, <1>9, WaitMoves DEF Wait, CloseRead, Moved, ThreadInv, Piped, Forked
  <2>2. CASE c = p[1]
    BY <1>1, <2>1, <2>2 DEF EndsOf
  <2> QED
    BY <1>2, <1>3, <2>1, <2>2
<1>10. ASSUME NEW c \in Clients, Send(c) \/ Leave(c) PROVE EndsOf(p)'
  BY <1>3, <1>10 DEF Send, Leave
<1>11. ASSUME NEW k \in children, CommandWrites(k) \/ CommandEnds(k) PROVE EndsOf(p)'
  BY <1>3, <1>11 DEF CommandWrites, CommandEnds, Becomes
<1>12. CASE Dies \/ UNCHANGED vars
  BY <1>3, <1>12 DEF Dies, vars
<1> QED
  BY <1>4, <1>5, <1>6, <1>7, <1>8, <1>9, <1>10, <1>11, <1>12, NextCases

LEMMA HeirStep == WebInv /\ EndsInv /\ HeirInv /\ [Next]_vars => HeirInv'
<1> SUFFICES ASSUME WebInv, EndsInv, HeirInv, [Next]_vars
             PROVE  HeirInv'
  OBVIOUS
<1>1. TypeOK /\ ThreadInv
  BY DEF WebInv
<1>2. CASE children' \subseteq children
  BY <1>2 DEF HeirInv, Heirless
<1>3. ASSUME NEW c \in Clients, Fork(c) PROVE HeirInv'
  <2>1. /\ th[c].at = "fork" /\ th[c].request \in Request /\ th[c].request[1] = c
        /\ \E new : /\ children' = children \cup {new} /\ new.id = th[c].request
                    /\ new.writes = writeEnds /\ new.reads = readEnds \ {th[c].request}
    BY <1>3, ForkAdds
  <2>2. \A p \in writeEnds \cup readEnds : p[1] = c => p = th[c].request
    BY <1>1 DEF TypeOK, EndsInv, EndsOf
  <2>3. PICK new : /\ children' = children \cup {new} /\ new.id = th[c].request
                   /\ new.writes = writeEnds
                   /\ new.reads = readEnds \ {th[c].request}
    BY <2>1
  <2>4. Heirless(new)
    BY <2>1, <2>2, <2>3 DEF Heirless
  <2> QED
    BY <2>3, <2>4 DEF HeirInv, Heirless
<1>4. ASSUME NEW c \in Clients, Wait(c) PROVE HeirInv'
  BY <1>2, <1>4 DEF Wait, Reaped
<1>5. ASSUME NEW k \in children,
             NEW new \in {[k EXCEPT !.left = @ - 1], [k EXCEPT !.state = "ended"]},
             children' = (children \ {k}) \cup {new}
      PROVE  HeirInv'
  <2>1. new.id = k.id /\ new.writes = k.writes /\ new.reads = k.reads
    BY <1>1 DEF TypeOK, ChildProcess
  <2> QED
    BY <1>5, <2>1 DEF HeirInv, Heirless
<1> QED
  BY <1>2, <1>3, <1>4, <1>5, ChildCases

LEMMA HeirsHold == Spec => [](WebInv /\ EndsInv /\ HeirInv)
<1>1. Init => EndsInv /\ HeirInv
  BY DEF Init, EndsInv, EndsOf, HeirInv
<1> QED
  BY <1>1, EndsStep, HeirStep, InvInit, InvStep, PTL DEF Spec

(* What a thread waits for that reads from an empty pipe: a command holds  *)
(* the write end, and one that does and is blocked is another client's,    *)
(* which has inherited it.                                                 *)
WaitsForHeirs ==
    \A c \in Clients :
        LET p == th[c].channel
        IN  th[c].at = "read" /\ data[p] = <<>> /\ HasWriter(p) =>
                /\ \E k \in Running : p \in k.writes
                /\ \A k \in Running : p \in k.writes /\ Blocked(k) => k.id[1] # c

(* The safety half of HeldUp: no thread waits for its own command to write *)
(* while that waits for the thread to read.                                *)
THEOREM WaitsForHeirsHolds == Spec => []WaitsForHeirs
<1>1. WebInv /\ EndsInv /\ HeirInv => WaitsForHeirs
  <2> SUFFICES ASSUME WebInv, EndsInv, HeirInv, NEW c \in Clients,
                      th[c].at = "read", data[th[c].channel] = <<>>,
                      HasWriter(th[c].channel)
               PROVE  /\ \E k \in Running : th[c].channel \in k.writes
                      /\ \A k \in Running :
                            th[c].channel \in k.writes /\ Blocked(k) => k.id[1] # c
    BY DEF WaitsForHeirs
  <2>1. th[c].channel \in Request /\ th[c].channel[1] = c
    BY OwnRequest DEF WebInv, ThreadInv, Busy, Piped, Forked
  <2>2. th[c].channel \notin writeEnds
    BY <2>1 DEF EndsInv, EndsOf
  <2>3. ASSUME NEW k \in Running, th[c].channel \in k.writes, Blocked(k)
        PROVE  k.id[1] # c
    <3>1. k \in children /\ k.out = k.id
      BY DEF Running, WebInv, ChildInv
    <3>2. Len(data[k.out]) > 0
      BY <2>3, <3>1, WebAssumption DEF Blocked, WebInv, TypeOK, ChildProcess
    <3>3. k.id # th[c].channel
      BY <3>1, <3>2
    <3> QED
      BY <2>1, <2>3, <3>1, <3>3 DEF HeirInv, Heirless
  <2> QED
    BY <2>2, <2>3 DEF HasWriter
<1> QED
  BY <1>1, HeirsHold, PTL

(* The safety half of OrphanEnds: a command whose thread has gone on can   *)
(* write on only while a running command of another client has inherited   *)
(* the read end of its pipe.                                               *)
OrphansRead ==
    \A p \in Request :
        Orphan(p) /\ HasReader(p) => \E k \in Running : p \in k.reads /\ k.id[1] # p[1]

THEOREM OrphansReadHolds == Spec => []OrphansRead
<1>1. WebInv /\ EndsInv /\ HeirInv => OrphansRead
  <2> SUFFICES ASSUME WebInv, EndsInv, HeirInv, NEW p \in Request, Orphan(p), HasReader(p)
               PROVE  \E k \in Running : p \in k.reads /\ k.id[1] # p[1]
    BY DEF OrphansRead
  <2>1. p \notin readEnds
    BY RequestPair DEF WebInv, ThreadInv, EndsInv, EndsOf, Orphan
  <2>2. PICK k \in Running : p \in k.reads
    BY <2>1 DEF HasReader
  <2> QED
    BY <2>2 DEF Running, HeirInv, Heirless
<1> QED
  BY <1>1, HeirsHold, PTL
=============================================================================
