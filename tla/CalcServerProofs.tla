------------------------- MODULE CalcServerProofs -------------------------
(***************************************************************************)
(* Proofs about CalcServer for every set of clients and every window: the  *)
(* type invariant, the accounting of permits, the hand-over between two    *)
(* clients, that no admitted thread blocks on the semaphore again, which   *)
(* answers a client gets, in which order, and what has become of every     *)
(* window used up when the threads fall silent.                            *)
(***************************************************************************)
EXTENDS CalcServer, FiniteSetTheorems, SequenceTheorems, TLAPS

(* The actions of one thread or client, as a proof step sees them.         *)
LEMMA NextCases ==
    ASSUME Next
    PROVE  \/ AcceptFails \/ WildStore
           \/ \E c \in Clients :
                \/ Accept(c) \/ Read(c) \/ ReadEof(c) \/ ReadError(c)
                \/ SemWait(c) \/ SemPost(c) \/ StrtokFirst(c) \/ ServeSilently(c)
                \/ ServeAnswer(c) \/ ServeLost(c) \/ ServeCrash(c)
                \/ Send(c) \/ Leave(c)
  BY DEF Next, Handler, Serve

(* Splitting a sequence of requests leaves sequences of requests.          *)
LEMMA SplitType ==
    ASSUME NEW s \in Seq(Request), NEW k \in 1 .. Len(s)
    PROVE  /\ SubSeq(s, 1, k) \in Seq(Request)
           /\ Remaining(s, k) \in Seq(Request)
  BY DEF Remaining

(* A buffer with a '*' in it is not empty, so it has an answer.            *)
LEMMA AnswerType ==
    ASSUME NEW b \in Seq(Request), Stars(b) # {}
    PROVE  Answer(b) \in Nat
<1>1. PICK i \in DOMAIN b : TRUE
  BY DEF Stars
<1>2. 1 \in DOMAIN b
  BY <1>1
<1>3. b[1] \in Request
  BY <1>2
<1> QED
  BY <1>3 DEF Answer, Request

(* What the end of a turn does to the types, whatever the reply was.       *)
LEMMA TurnType ==
    ASSUME TypeOK, NEW c \in Clients, EndOfTurn(c)
    PROVE  /\ counter' \in [Clients -> Nat] /\ served' \in [Clients -> Nat]
           /\ buffer' \in [Clients -> Seq(Request)]
           /\ saved' \in Clients \cup {None}
           /\ th' \in [Clients -> ThreadStates]
           /\ UNCHANGED <<no_clients, asked, mutex, admitted, posts, pending>>
<1>1. <<>> \in Seq(Request)
  OBVIOUS
<1>2. buffer' \in [Clients -> Seq(Request)]
  BY <1>1 DEF EndOfTurn, TypeOK
<1>3. UNCHANGED <<mutex, admitted, posts>>
  BY DEF EndOfTurn, gateVars
<1> QED
  BY <1>2, <1>3, SMTT(30) DEF EndOfTurn, Transition, TypeOK, ThreadStates

LEMMA TypeInit == Init => TypeOK
  BY CalcAssumption DEF Init, TypeOK, ThreadStates

LEMMA TypeStep == TypeOK /\ [Next]_vars => TypeOK'
<1> SUFFICES ASSUME TypeOK, [Next]_vars
             PROVE  TypeOK'
  OBVIOUS
<1> USE DEF TypeOK, ThreadStates, Transition
<1>1. CASE AcceptFails \/ WildStore
  BY <1>1 DEF AcceptFails, WildStore, clientVars, gateVars, loopVars
<1>2. ASSUME NEW c \in Clients, Accept(c) PROVE TypeOK'
  BY <1>2, CalcAssumption, SMTT(30) DEF Accept, clientVars, gateVars, loopVars
<1>3. ASSUME NEW c \in Clients, Read(c) PROVE TypeOK'
  <2>1. PICK k \in 1 .. Len(pending[c]) :
          /\ buffer' = [buffer EXCEPT ![c] = SubSeq(pending[c], 1, k)]
          /\ pending' = [pending EXCEPT ![c] = Remaining(pending[c], k)]
    BY <1>3 DEF Read
  <2>2. /\ SubSeq(pending[c], 1, k) \in Seq(Request)
        /\ Remaining(pending[c], k) \in Seq(Request)
    BY SplitType
  <2>3. buffer' \in [Clients -> Seq(Request)] /\ pending' \in [Clients -> Seq(Request)]
    BY <2>1, <2>2
  <2>4. Gate(counter[c]) \in ThreadStates
    BY DEF Gate
  <2> QED
    BY <1>3, <2>3, <2>4 DEF Read, clientVars, gateVars
<1>4. ASSUME NEW c \in Clients, ReadEof(c) PROVE TypeOK'
  BY <1>4 DEF ReadEof, clientVars, gateVars, loopVars
<1>5. ASSUME NEW c \in Clients, ReadError(c) PROVE TypeOK'
  BY <1>5 DEF ReadError, clientVars, gateVars, loopVars
<1>6. ASSUME NEW c \in Clients, SemWait(c) PROVE TypeOK'
  BY <1>6 DEF SemWait, clientVars, loopVars
<1>7. ASSUME NEW c \in Clients, SemPost(c) PROVE TypeOK'
  BY <1>7 DEF SemPost, clientVars
<1>8. ASSUME NEW c \in Clients, ServeSilently(c) PROVE TypeOK'
  BY <1>8, TurnType DEF ServeSilently
<1>9. ASSUME NEW c \in Clients, ServeAnswer(c) PROVE TypeOK'
  <2>1. Answer(buffer[c]) \in Nat
    BY <1>9, AnswerType DEF ServeAnswer
  <2>2. PICK product \in Nat : replies' = [replies EXCEPT ![c] = Append(@, product)]
    BY <1>9, <2>1 DEF ServeAnswer
  <2>3. replies' \in [Clients -> Seq(Nat)]
    BY <2>2
  <2> QED
    BY <1>9, <2>3, TurnType DEF ServeAnswer
<1>10. ASSUME NEW c \in Clients, ServeLost(c) PROVE TypeOK'
  BY <1>10, TurnType DEF ServeLost
<1>11. ASSUME NEW c \in Clients, ServeCrash(c) PROVE TypeOK'
  BY <1>11, TurnType DEF ServeCrash
<1>12. ASSUME NEW c \in Clients, Send(c) PROVE TypeOK'
  <2>1. PICK kind \in Kinds :
          /\ asked' = [asked EXCEPT ![c] = Append(@, kind)]
          /\ pending' = [pending EXCEPT
                ![c] = Append(@, [n |-> Len(asked[c]) + 1, kind |-> kind])]
    BY <1>12 DEF Send
  <2>2. [n |-> Len(asked[c]) + 1, kind |-> kind] \in Request
    BY DEF Request
  <2>3. asked' \in [Clients -> Seq(Kinds)]
    BY <2>1
  <2>4. pending' \in [Clients -> Seq(Request)]
    BY <2>1, <2>2
  <2> QED
    BY <1>12, <2>3, <2>4 DEF Send, gateVars, loopVars
<1>13. ASSUME NEW c \in Clients, Leave(c) PROVE TypeOK'
  BY <1>13 DEF Leave, gateVars, loopVars
<1>14. ASSUME NEW c \in Clients, StrtokFirst(c) PROVE TypeOK'
  BY <1>14 DEF StrtokFirst, clientVars, gateVars
<1>15. CASE UNCHANGED vars
  BY <1>15 DEF vars, clientVars, gateVars, loopVars
<1> QED
  BY <1>1, <1>2, <1>3, <1>4, <1>5, <1>6, <1>7, <1>8, <1>9, <1>10, <1>11,
     <1>12, <1>13, <1>14, <1>15, NextCases

(* Every variable keeps its type, whatever the clients do.                 *)
THEOREM TypeCorrect == Spec => []TypeOK
  BY TypeInit, TypeStep, PTL DEF Spec

-----------------------------------------------------------------------------
(* What is known of one thread.  A thread that was never let through has   *)
(* served nothing; one that was let through never stands at sem_wait, nor  *)
(* at the head of the loop with a counter of 0; the counter counts part of *)
(* what the thread has served.                                             *)
ThreadInv(c) ==
    /\ c \notin admitted =>
          /\ counter[c] = 0 /\ served[c] = 0
          /\ th[c] \in {"idle", "orphan", "read", "wait", "gone"}
    /\ c \in admitted =>
          /\ th[c] \notin {"idle", "orphan", "wait"}
          /\ th[c] = "read" => counter[c] >= 1
    /\ th[c] = "post" => counter[c] >= Window
    /\ counter[c] <= served[c]

(* A permit was posted only by a thread that had served a window.          *)
PostedInv == posts > 0 => \E e \in Clients : served[e] >= Window

GateInv ==
    /\ TypeOK
    /\ PermitAccounting
    /\ \A c \in Clients : ThreadInv(c)
    /\ PostedInv
    /\ OwnOperands

LEMMA AdmittedFinite == TypeOK => IsFiniteSet(admitted)
  BY CalcAssumption, FS_Subset DEF TypeOK

LEMMA AdmittedCount == TypeOK => Cardinality(admitted) \in Nat
  BY AdmittedFinite, FS_CardinalityType

LEMMA GateInit == Init => GateInv
<1> SUFFICES ASSUME Init PROVE GateInv
  OBVIOUS
<1>1. Cardinality(admitted) = 0
  BY FS_EmptySet DEF Init
<1>2. PermitAccounting
  BY <1>1 DEF Init, PermitAccounting
<1>3. ASSUME NEW c \in Clients PROVE ThreadInv(c)
  BY DEF Init, ThreadInv
<1>4. PostedInv
  BY DEF Init, PostedInv
<1>5. OwnOperands
  BY DEF Init, OwnOperands
<1> QED
  BY <1>2, <1>3, <1>4, <1>5, TypeInit DEF GateInv

(* Two clients have been let through only after a permit was posted.       *)
LEMMA TwoAdmitted ==
    ASSUME GateInv, NEW c \in admitted, NEW d \in admitted, c # d
    PROVE  posts > 0
<1>1. IsFiniteSet(admitted) /\ Cardinality(admitted) \in Nat
  BY AdmittedFinite, FS_CardinalityType DEF GateInv
<1>2. Cardinality({c, d}) = 2
  <2>1. IsFiniteSet({c}) /\ Cardinality({c}) = 1
    BY FS_Singleton
  <2>2. Cardinality({c} \cup {d}) = Cardinality({c}) + 1
    BY <2>1, FS_AddElement
  <2>3. {c} \cup {d} = {c, d}
    OBVIOUS
  <2> QED
    BY <2>1, <2>2, <2>3
<1>3. Cardinality({c, d}) <= Cardinality(admitted)
  BY <1>1, FS_Subset
<1> QED
  BY <1>1, <1>2, <1>3 DEF GateInv, PermitAccounting, TypeOK

(* Whatever a thread that was let through does to the saved place: as long *)
(* as no permit was posted, no other thread stands between two calls.      *)
LEMMA AloneInside ==
    ASSUME GateInv, NEW c \in admitted, NEW d \in Clients,
           posts = 0, th[d] = "second"
    PROVE  d = c
<1>1. d \in admitted
  BY DEF GateInv, ThreadInv
<1> QED
  BY <1>1, TwoAdmitted, SMTT(30) DEF GateInv, TypeOK

(* A step that leaves the semaphore alone and serves nobody keeps the      *)
(* accounting, and with it everything but the moved thread's own facts.    *)
LEMMA QuietStep ==
    ASSUME GateInv, TypeOK', NEW c \in Clients,
           UNCHANGED <<mutex, admitted, posts, counter, served, saved>>,
           \A d \in Clients : d # c => th'[d] = th[d],
           th'[c] # "second", ThreadInv(c)'
    PROVE  GateInv'
<1>1. PermitAccounting'
  BY DEF GateInv, PermitAccounting
<1>2. \A d \in Clients : ThreadInv(d)'
  BY DEF GateInv, ThreadInv
<1>3. PostedInv'
  BY DEF GateInv, PostedInv
<1>4. OwnOperands'
  BY DEF GateInv, OwnOperands
<1> QED
  BY <1>1, <1>2, <1>3, <1>4 DEF GateInv

(* A step that concerns neither the threads nor the semaphore.             *)
LEMMA StillStep ==
    ASSUME GateInv, TypeOK',
           UNCHANGED <<mutex, admitted, posts, counter, served, saved, th>>
    PROVE  GateInv'
<1>1. PermitAccounting' /\ PostedInv' /\ OwnOperands'
  BY DEF GateInv, PermitAccounting, PostedInv, OwnOperands
<1>2. \A c \in Clients : ThreadInv(c)'
  BY DEF GateInv, ThreadInv
<1> QED
  BY <1>1, <1>2 DEF GateInv

(* The end of a turn: only a thread that was let through gets there.       *)
LEMMA TurnStep ==
    ASSUME GateInv, TypeOK', NEW c \in Clients, EndOfTurn(c)
    PROVE  GateInv'
<1> USE DEF GateInv
<1>1. c \in admitted
  BY DEF ThreadInv, EndOfTurn, Transition
<1>2. UNCHANGED <<mutex, admitted, posts>>
  BY DEF EndOfTurn, gateVars
<1>3. /\ counter[c] \in Nat /\ served[c] \in Nat
      /\ counter' = [counter EXCEPT ![c] = counter[c] + 1]
      /\ served' = [served EXCEPT ![c] = served[c] + 1]
      /\ th' = [th EXCEPT ![c] = "read"]
  BY DEF EndOfTurn, Transition, TypeOK
<1>4. PermitAccounting'
  BY <1>2 DEF PermitAccounting
<1>5. ASSUME NEW d \in Clients PROVE ThreadInv(d)'
  <2>1. CASE d = c
    <3>1. counter'[c] = counter[c] + 1 /\ served'[c] = served[c] + 1 /\ th'[c] = "read"
      BY <1>3 DEF TypeOK
    <3>2. counter[c] <= served[c]
      BY DEF ThreadInv
    <3> QED
      BY <1>1, <1>2, <1>3, <2>1, <3>1, <3>2 DEF ThreadInv
  <2>2. CASE d # c
    BY <1>2, <1>3, <2>2 DEF ThreadInv, TypeOK
  <2> QED
    BY <2>1, <2>2
<1>6. PostedInv'
  <2> SUFFICES ASSUME posts > 0 PROVE \E e \in Clients : served'[e] >= Window
    BY <1>2 DEF PostedInv
  <2>1. PICK e \in Clients : served[e] >= Window
    BY DEF PostedInv
  <2>2. served[e] \in Nat /\ served'[e] \in {served[e], served[e] + 1}
    BY <1>3 DEF TypeOK
  <2>3. served'[e] >= Window
    BY <2>1, <2>2, CalcAssumption
  <2> QED
    BY <2>3
<1>7. OwnOperands'
  <2> SUFFICES ASSUME posts = 0, NEW d \in Clients, th'[d] = "second"
               PROVE  saved' = d
    BY <1>2 DEF OwnOperands
  <2>1. d # c /\ th[d] = "second"
    BY <1>3 DEF TypeOK
  <2> QED
    BY <1>1, <2>1, AloneInside
<1> QED
  BY <1>4, <1>5, <1>6, <1>7

LEMMA GateStep == GateInv /\ [Next]_vars => GateInv'
<1> SUFFICES ASSUME GateInv, [Next]_vars
             PROVE  GateInv'
  OBVIOUS
<1>0. TypeOK /\ TypeOK'
  BY TypeStep DEF GateInv
<1>1. CASE AcceptFails \/ WildStore
  <2>1. UNCHANGED <<mutex, admitted, posts, counter, served, saved, th>>
    BY <1>1 DEF AcceptFails, WildStore, gateVars, loopVars
  <2> QED
    BY <1>0, <2>1, StillStep
<1>2. ASSUME NEW c \in Clients, Accept(c) PROVE GateInv'
  <2>1. UNCHANGED <<mutex, admitted, posts, counter, served, saved>>
    BY <1>2 DEF Accept, gateVars, loopVars
  <2>2. PICK outcome \in {"read", "orphan"} : th' = [th EXCEPT ![c] = outcome]
    BY <1>2 DEF Accept
  <2>3. th[c] = "idle" /\ ThreadInv(c)
    BY <1>2 DEF Accept, GateInv
  <2>4. ThreadInv(c)'
    BY <1>0, <2>1, <2>2, <2>3 DEF ThreadInv, TypeOK
  <2> QED
    BY <1>0, <2>1, <2>2, <2>4, QuietStep DEF TypeOK
<1>3. ASSUME NEW c \in Clients, Read(c) PROVE GateInv'
  <2>1. UNCHANGED <<mutex, admitted, posts, counter, served, saved>>
    BY <1>3 DEF Read, gateVars
  <2>2. th[c] = "read" /\ th' = [th EXCEPT ![c] = Gate(counter[c])]
    BY <1>3 DEF Read, Transition
  <2>3. ThreadInv(c) /\ counter[c] \in Nat
    BY <1>0 DEF GateInv, TypeOK
  <2>4. ThreadInv(c)'
    BY <1>0, <2>1, <2>2, <2>3, CalcAssumption, SMTT(30) DEF ThreadInv, Gate, TypeOK
  <2> QED
    BY <1>0, <2>1, <2>2, <2>4, QuietStep DEF Gate, TypeOK
<1>4. ASSUME NEW c \in Clients, ReadEof(c) PROVE GateInv'
  <2>1. /\ UNCHANGED <<mutex, admitted, posts, counter, served, saved>>
        /\ th[c] = "read" /\ th' = [th EXCEPT ![c] = "gone"]
    BY <1>4 DEF ReadEof, Transition, gateVars, loopVars
  <2>2. ThreadInv(c)'
    BY <1>0, <2>1 DEF GateInv, ThreadInv, TypeOK
  <2> QED
    BY <1>0, <2>1, <2>2, QuietStep DEF TypeOK
<1>5. ASSUME NEW c \in Clients, ReadError(c) PROVE GateInv'
  <2>1. UNCHANGED <<mutex, admitted, posts, counter, served, saved, th>>
    BY <1>5 DEF ReadError, gateVars, loopVars
  <2> QED
    BY <1>0, <2>1, StillStep
<1>6. ASSUME NEW c \in Clients, SemWait(c) PROVE GateInv'
  <2>1. /\ th[c] = "wait" /\ mutex > 0 /\ mutex' = mutex - 1
        /\ admitted' = admitted \cup {c} /\ th' = [th EXCEPT ![c] = "serve"]
        /\ UNCHANGED <<posts, counter, served, saved>>
    BY <1>6 DEF SemWait, Transition, loopVars
  <2>2. c \notin admitted
    BY <2>1 DEF GateInv, ThreadInv
  <2>3. Cardinality(admitted') = Cardinality(admitted) + 1
    BY <1>0, <2>1, <2>2, AdmittedFinite, FS_AddElement
  <2>4. PermitAccounting'
    <3>1. /\ mutex \in Nat /\ posts \in Nat /\ Cardinality(admitted) \in Nat
          /\ Cardinality(admitted) + mutex = 1 + posts
      BY <1>0, AdmittedCount DEF GateInv, PermitAccounting, TypeOK
    <3> QED
      BY <2>1, <2>3, <3>1 DEF PermitAccounting
  <2>5. \A d \in Clients : ThreadInv(d)'
    BY <1>0, <2>1 DEF GateInv, ThreadInv, TypeOK
  <2>6. PostedInv'
    BY <2>1 DEF GateInv, PostedInv
  <2>7. OwnOperands'
    BY <1>0, <2>1 DEF GateInv, OwnOperands, TypeOK
  <2> QED
    BY <1>0, <2>4, <2>5, <2>6, <2>7 DEF GateInv
<1>7. ASSUME NEW c \in Clients, SemPost(c) PROVE GateInv'
  <2>1. /\ th[c] = "post" /\ mutex' = mutex + 1 /\ posts' = posts + 1
        /\ counter' = [counter EXCEPT ![c] = 0] /\ th' = [th EXCEPT ![c] = "serve"]
        /\ UNCHANGED <<admitted, served>>
    BY <1>7 DEF SemPost, Transition
  <2>2. c \in admitted /\ counter[c] >= Window /\ counter[c] <= served[c]
    BY <2>1 DEF GateInv, ThreadInv
  <2>3. served[c] >= Window
    BY <1>0, <2>2, CalcAssumption, SMTT(30) DEF TypeOK
  <2>4. PermitAccounting'
    <3>1. /\ mutex \in Nat /\ posts \in Nat /\ Cardinality(admitted) \in Nat
          /\ Cardinality(admitted) + mutex = 1 + posts
      BY <1>0, AdmittedCount DEF GateInv, PermitAccounting, TypeOK
    <3>2. Cardinality(admitted') = Cardinality(admitted)
      BY <2>1
    <3> QED
      BY <2>1, <3>1, <3>2 DEF PermitAccounting
  <2>5. ASSUME NEW d \in Clients PROVE ThreadInv(d)'
    <3>1. CASE d = c
      <4>1. counter'[c] = 0 /\ th'[c] = "serve" /\ served'[c] \in Nat /\ c \in admitted'
        BY <1>0, <2>1, <2>2 DEF TypeOK
      <4> QED
        BY <3>1, <4>1 DEF ThreadInv
    <3>2. CASE d # c
      <4>1. counter'[d] = counter[d] /\ th'[d] = th[d]
        BY <1>0, <2>1, <3>2 DEF TypeOK
      <4> QED
        BY <2>1, <4>1 DEF GateInv, ThreadInv
    <3> QED
      BY <3>1, <3>2
  <2>6. PostedInv'
    BY <2>1, <2>3 DEF PostedInv
  <2>7. OwnOperands'
    BY <1>0, <2>1 DEF OwnOperands, TypeOK
  <2> QED
    BY <1>0, <2>4, <2>5, <2>6, <2>7 DEF GateInv
<1>8. ASSUME NEW c \in Clients, EndOfTurn(c) PROVE GateInv'
  BY <1>0, <1>8, TurnStep
<1>9. ASSUME NEW c \in Clients, Send(c) \/ Leave(c) PROVE GateInv'
  <2>1. UNCHANGED <<mutex, admitted, posts, counter, served, saved, th>>
    BY <1>9 DEF Send, Leave, gateVars, loopVars
  <2> QED
    BY <1>0, <2>1, StillStep
<1>10. ASSUME NEW c \in Clients, StrtokFirst(c) PROVE GateInv'
  <2>1. /\ UNCHANGED <<mutex, admitted, posts, counter, served>>
        /\ th[c] = "serve" /\ th' = [th EXCEPT ![c] = "second"] /\ saved' = c
    BY <1>10 DEF StrtokFirst, Transition, gateVars
  <2>2. c \in admitted
    BY <2>1 DEF GateInv, ThreadInv
  <2>3. PermitAccounting' /\ PostedInv'
    BY <2>1 DEF GateInv, PermitAccounting, PostedInv
  <2>4. \A d \in Clients : ThreadInv(d)'
    BY <1>0, <2>1, <2>2 DEF GateInv, ThreadInv, TypeOK
  <2>5. OwnOperands'
    <3> SUFFICES ASSUME posts = 0, NEW d \in Clients, th'[d] = "second"
                 PROVE  d = c
      BY <2>1 DEF OwnOperands
    <3>1. d = c \/ th[d] = "second"
      BY <1>0, <2>1 DEF TypeOK
    <3> QED
      BY <2>2, <3>1, AloneInside
  <2> QED
    BY <1>0, <2>3, <2>4, <2>5 DEF GateInv
<1>11. CASE UNCHANGED vars
  BY <1>0, <1>11, StillStep DEF vars, gateVars, loopVars
<1> QED
  BY <1>1, <1>2, <1>3, <1>4, <1>5, <1>6, <1>7, <1>8, <1>9, <1>10, <1>11, NextCases
     DEF ServeSilently, ServeAnswer, ServeLost, ServeCrash

THEOREM GateCorrect == Spec => []GateInv
  BY GateInit, GateStep, PTL DEF Spec

(* Every release of the semaphore lets exactly one more client in.         *)
THEOREM PermitsAccounted == Spec => []PermitAccounting
<1>1. GateInv => PermitAccounting
  BY DEF GateInv
<1> QED
  BY <1>1, GateCorrect, PTL

(* Two clients are served only after one of them used up a whole window.   *)
THEOREM HandOverHolds == Spec => []HandOver
<1>1. GateInv => HandOver
  <2> SUFFICES ASSUME GateInv, NEW c \in Clients, NEW d \in Clients, c # d,
                      served[c] > 0, served[d] > 0
               PROVE  \E e \in Clients : served[e] >= Window
    BY DEF HandOver
  <2>1. c \in admitted /\ d \in admitted
    BY SMTT(30) DEF GateInv, ThreadInv, TypeOK
  <2>2. posts > 0
    BY <2>1, TwoAdmitted
  <2> QED
    BY <2>2 DEF GateInv, PostedInv
<1> QED
  BY <1>1, GateCorrect, PTL

(* Until a window has been used up, no thread finds another one's operand. *)
THEOREM OwnOperandsHold == Spec => []OwnOperands
<1>1. GateInv => OwnOperands
  BY DEF GateInv
<1> QED
  BY <1>1, GateCorrect, PTL

(* No thread that was let through once ever stands at sem_wait again.      *)
THEOREM NeverBlocked == Spec => NeverBlockedAgain
<1>1. GateInv /\ GateInv' /\ [Next]_vars
        => [\A c \in admitted : th'[c] # "wait"]_vars
  <2> SUFFICES ASSUME GateInv, GateInv', [Next]_vars, NEW c \in admitted
               PROVE  th'[c] # "wait"
    OBVIOUS
  <2>1. admitted \subseteq admitted'
    <3>1. CASE UNCHANGED admitted
      BY <3>1
    <3>2. CASE \E d \in Clients : admitted' = admitted \cup {d}
      BY <3>2
    <3> QED
      BY <3>1, <3>2, NextCases
         DEF vars, gateVars, AcceptFails, WildStore, Accept, Read, ReadEof, ReadError,
             SemWait, SemPost, StrtokFirst, ServeSilently, ServeAnswer,
             ServeLost, ServeCrash, EndOfTurn, Send, Leave
  <2> QED
    BY <2>1 DEF GateInv, ThreadInv, TypeOK
<1> QED
  BY <1>1, GateCorrect, PTL DEF Spec, NeverBlockedAgain

(* Once the permit is lost, nobody else is ever let through.               *)
THEOREM StrandedHolds == Spec => StrandedForever
<1>1. GateInv /\ [Next]_vars
        => [Stranded => admitted' = admitted /\ posts' = posts]_vars
  <2> SUFFICES ASSUME GateInv, [Next]_vars, Stranded
               PROVE  admitted' = admitted /\ posts' = posts
    OBVIOUS
  <2>1. ASSUME NEW c \in Clients, SemWait(c) PROVE FALSE
    BY <2>1 DEF SemWait, Stranded
  <2>2. ASSUME NEW c \in Clients, SemPost(c) PROVE FALSE
    BY <2>2 DEF SemPost, Transition, Stranded, GateInv, ThreadInv
  <2> QED
    BY <2>1, <2>2, NextCases
       DEF vars, gateVars, AcceptFails, WildStore, Accept, Read, ReadEof, ReadError,
           StrtokFirst, ServeSilently, ServeAnswer, ServeLost, ServeCrash,
           EndOfTurn, Send, Leave
<1> QED
  BY <1>1, GateCorrect, PTL DEF Spec, StrandedForever
-----------------------------------------------------------------------------
(* The requests of a client that are done with.                            *)
Done(c) == Len(asked[c]) - Len(pending[c]) - Len(buffer[c])

(* What a client has asked for is done with, being handled or on its way,  *)
(* in this order.                                                          *)
StreamInv(c) ==
    /\ Len(pending[c]) + Len(buffer[c]) <= Len(asked[c])
    /\ \A i \in DOMAIN buffer[c] :
          buffer[c][i] = [n |-> Done(c) + i, kind |-> asked[c][Done(c) + i]]
    /\ \A i \in DOMAIN pending[c] :
          LET n == Len(asked[c]) - Len(pending[c]) + i
          IN  pending[c][i] = [n |-> n, kind |-> asked[c][n]]
    /\ buffer[c] = <<>> <=> th[c] \in {"idle", "orphan", "read", "gone"}

(* Every product is one of a request done with, and later than the last.   *)
ReplyInv(c) ==
    /\ Len(replies[c]) <= served[c]
    /\ \A i \in Right(c) : replies[c][i] \in Muls(c) /\ replies[c][i] <= Done(c)
    /\ \A i, j \in Right(c) : i < j => replies[c][i] < replies[c][j]

(* The multiplications among them.                                         *)
Handled(c) == {n \in 1 .. Done(c) : asked[c][n] = "mul"}

(* The connection stands and nothing was sent that atoi(NULL) dies of.     *)
Calm(c) == alive /\ conn[c] = "open" /\ \A n \in DOMAIN asked[c] : asked[c][n] # "lone"

(* A client that waits has one request under way, and had its answers.     *)
LockstepInv(c) ==
    c \notin Pipelined =>
        /\ Len(pending[c]) + Len(buffer[c]) <= 1
        /\ Calm(c) =>
              /\ Len(replies[c]) = Cardinality(Handled(c))
              /\ posts = 0 => {replies[c][i] : i \in DOMAIN replies[c]} = Handled(c)

ClientInv(c) == StreamInv(c) /\ ReplyInv(c) /\ LockstepInv(c)

AnswerInv == \A c \in Clients : ClientInv(c)

(* The stands of a thread that has nothing in its buffer.                  *)
Resting == {"idle", "orphan", "read", "gone"}

LEMMA AnswerInit == Init => AnswerInv
<1> SUFFICES ASSUME Init, NEW c \in Clients
             PROVE  StreamInv(c) /\ ReplyInv(c) /\ LockstepInv(c)
  BY DEF AnswerInv, ClientInv
<1>1. StreamInv(c)
  BY DEF Init, StreamInv
<1>2. ReplyInv(c)
  BY DEF Init, ReplyInv, Right
<1>3. Handled(c) = {} /\ replies[c] = <<>>
  BY DEF Init, Handled, Done
<1>4. LockstepInv(c)
  BY <1>3, FS_EmptySet DEF Init, LockstepInv
<1> QED
  BY <1>1, <1>2, <1>4

(* What a client has under way is numbered without a gap.                  *)
LEMMA StreamType ==
    ASSUME TypeOK, NEW c \in Clients, StreamInv(c)
    PROVE  /\ asked[c] \in Seq(Kinds) /\ pending[c] \in Seq(Request)
           /\ buffer[c] \in Seq(Request) /\ replies[c] \in Seq(Nat) /\ served[c] \in Nat
           /\ Len(asked[c]) \in Nat /\ Len(pending[c]) \in Nat /\ Len(buffer[c]) \in Nat
           /\ Done(c) \in Nat
           /\ Done(c) + Len(buffer[c]) + Len(pending[c]) = Len(asked[c])
<1>1. /\ asked[c] \in Seq(Kinds) /\ pending[c] \in Seq(Request)
      /\ buffer[c] \in Seq(Request) /\ replies[c] \in Seq(Nat) /\ served[c] \in Nat
  BY DEF TypeOK
<1>2. Len(asked[c]) \in Nat /\ Len(pending[c]) \in Nat /\ Len(buffer[c]) \in Nat
  BY <1>1
<1>3. Len(pending[c]) + Len(buffer[c]) <= Len(asked[c])
  BY DEF StreamInv
<1>4. /\ Done(c) \in Nat
      /\ Done(c) + Len(buffer[c]) + Len(pending[c]) = Len(asked[c])
  <2>1. \A a, p, b \in Nat : p + b <= a => a - p - b \in Nat /\ a - p - b + b + p = a
    OBVIOUS
  <2> QED
    BY <1>2, <1>3, <2>1 DEF Done
<1> QED
  BY <1>1, <1>2, <1>4

(* A step that leaves the requests and replies of a client alone.          *)
LEMMA KeepStep ==
    ASSUME NEW c \in Clients, ClientInv(c),
           asked'[c] = asked[c], pending'[c] = pending[c], buffer'[c] = buffer[c],
           replies'[c] = replies[c], served'[c] = served[c],
           th'[c] \in Resting <=> th[c] \in Resting,
           alive' => alive, conn'[c] = "open" => conn[c] = "open",
           posts' = 0 => posts = 0
    PROVE  ClientInv(c)'
<1>1. StreamInv(c)'
  BY DEF ClientInv, StreamInv, Done, Resting
<1>2. ReplyInv(c)'
  BY DEF ClientInv, ReplyInv, Right, Done, Muls
<1>3. Handled(c)' = Handled(c) /\ (Calm(c)' => Calm(c))
  BY DEF Handled, Done, Calm
<1>4. LockstepInv(c)'
  BY <1>3 DEF ClientInv, LockstepInv
<1> QED
  BY <1>1, <1>2, <1>4 DEF ClientInv

(* read() moves requests from what is pending to the buffer.               *)
LEMMA ReadClient ==
    ASSUME TypeOK, NEW c \in Clients, Read(c), ClientInv(c)
    PROVE  ClientInv(c)' /\ Done(c)' = Done(c)
<1>1. PICK k \in 1 .. Len(pending[c]) :
        /\ buffer' = [buffer EXCEPT ![c] = SubSeq(pending[c], 1, k)]
        /\ pending' = [pending EXCEPT ![c] = SubSeq(pending[c], k + 1, Len(pending[c]))]
  BY DEF Read, Remaining
<1>2. /\ th[c] = "read" /\ th' = [th EXCEPT ![c] = Gate(counter[c])]
      /\ UNCHANGED <<asked, conn, alive, posts, replies, served>>
  BY DEF Read, Transition, clientVars, gateVars
<1>3. buffer[c] = <<>> /\ Len(buffer[c]) = 0 /\ th'[c] \notin Resting
  BY <1>2 DEF ClientInv, StreamInv, Gate, TypeOK, Resting
<1> DEFINE p == pending[c]
           l == Len(pending[c])
<1>4. /\ l \in Nat /\ k \in Nat /\ k >= 1 /\ k <= l /\ p \in Seq(Request)
      /\ Done(c) \in Nat /\ Len(asked[c]) \in Nat /\ Done(c) + l = Len(asked[c])
  BY <1>1, <1>3, StreamType DEF ClientInv
<1>5. buffer'[c] = SubSeq(p, 1, k) /\ pending'[c] = SubSeq(p, k + 1, l)
  BY <1>1 DEF TypeOK
<1>6. /\ Len(buffer'[c]) = k /\ Len(pending'[c]) = l - k
      /\ \A i \in 1 .. k : buffer'[c][i] = p[i]
      /\ \A i \in 1 .. l - k : pending'[c][i] = p[k + i]
  <2>1. \A i \in 1 .. l : p[i] \in Request
    BY <1>4
  <2>2. \A i \in k + 1 .. l : p[i] \in Request
    BY <1>4, <2>1
  <2>3. \A i \in 1 .. k : p[i] \in Request
    BY <1>4, <2>1
  <2>4. /\ Len(SubSeq(p, 1, k)) = k
        /\ \A i \in 1 .. k : SubSeq(p, 1, k)[i] = p[i]
    BY <1>4, <2>3, SubSeqProperties
  <2>5. /\ Len(SubSeq(p, k + 1, l)) = l - k
        /\ \A i \in 1 .. l - k : SubSeq(p, k + 1, l)[i] = p[k + i]
    BY <1>4, <2>2, SubSeqProperties
  <2> QED
    BY <1>5, <2>4, <2>5
<1>7. Done(c)' = Done(c)
  <2>1. Len(asked'[c]) - (l - k) - k = Len(asked[c]) - l - 0
    BY <1>2, <1>4
  <2> QED
    BY <1>3, <1>6, <2>1 DEF Done
<1>8. \A i \in 1 .. l : p[i] = [n |-> Done(c) + i, kind |-> asked[c][Done(c) + i]]
  <2>1. Len(asked[c]) - l = Done(c)
    <3> HIDE DEF l
    <3> QED
      BY <1>4
  <2>2. \A i \in DOMAIN p :
           p[i] = [n |-> Len(asked[c]) - l + i, kind |-> asked[c][Len(asked[c]) - l + i]]
    BY DEF ClientInv, StreamInv
  <2>3. DOMAIN p = 1 .. l
    BY <1>4
  <2> QED
    BY <2>1, <2>2, <2>3
<1> HIDE DEF l, p
<1>9. StreamInv(c)'
  <2>1. DOMAIN buffer'[c] = 1 .. k /\ DOMAIN pending'[c] = 1 .. l - k /\ buffer'[c] # <<>>
    <3>1. buffer'[c] \in Seq(Request) /\ pending'[c] \in Seq(Request)
      BY <1>1, <1>4, <1>5, SplitType DEF Remaining, l, p
    <3> QED
      BY <1>4, <1>6, <3>1
  <2>2. \A i \in 1 .. k : i \in 1 .. l
    BY <1>4
  <2>3. ASSUME NEW i \in 1 .. l - k
        PROVE  k + i \in 1 .. l /\ Len(asked[c]) - (l - k) + i = Done(c) + (k + i)
    BY <1>4, SMTT(30)
  <2>4. \A i \in 1 .. l - k :
           LET n == Len(asked[c]) - (l - k) + i
           IN  pending'[c][i] = [n |-> n, kind |-> asked[c][n]]
    BY <1>6, <1>8, <2>3
  <2>5. \A i \in 1 .. k :
           buffer'[c][i] = [n |-> Done(c) + i, kind |-> asked[c][Done(c) + i]]
    BY <1>6, <1>8, <2>2
  <2>6. (l - k) + k <= Len(asked[c])
    BY <1>4
  <2> QED
    BY <1>2, <1>3, <1>6, <1>7, <2>1, <2>4, <2>5, <2>6 DEF StreamInv, Resting
<1>10. ReplyInv(c)'
  BY <1>2, <1>7 DEF ClientInv, ReplyInv, Right, Muls
<1>11. LockstepInv(c)'
  <2>1. Handled(c)' = Handled(c) /\ (Calm(c)' <=> Calm(c))
    BY <1>2, <1>7 DEF Handled, Calm
  <2>2. (l - k) + k = l + 0
    BY <1>4
  <2> QED
    BY <1>2, <1>3, <1>6, <2>1, <2>2 DEF ClientInv, LockstepInv, l
<1> QED
  BY <1>7, <1>9, <1>10, <1>11 DEF ClientInv

LEMMA SendClient ==
    ASSUME TypeOK, NEW c \in Clients, Send(c), ClientInv(c)
    PROVE  ClientInv(c)' /\ Done(c)' = Done(c) /\ Len(asked'[c]) = Len(asked[c]) + 1
<1>1. PICK kind \in Kinds :
        /\ asked' = [asked EXCEPT ![c] = Append(asked[c], kind)]
        /\ pending' = [pending EXCEPT
              ![c] = Append(pending[c], [n |-> Len(asked[c]) + 1, kind |-> kind])]
  BY DEF Send
<1>2. UNCHANGED <<alive, conn, posts, th, buffer, replies, served>> /\ MaySend(c)
  BY DEF Send, gateVars, loopVars
<1> DEFINE a == Len(asked[c])
           p == Len(pending[c])
           b == Len(buffer[c])
           d == Done(c)
           r == [n |-> a + 1, kind |-> kind]
<1>3. /\ asked[c] \in Seq(Kinds) /\ pending[c] \in Seq(Request) /\ buffer[c] \in Seq(Request)
      /\ a \in Nat /\ p \in Nat /\ b \in Nat /\ d \in Nat /\ d + b + p = a
      /\ replies[c] \in Seq(Nat)
  BY StreamType DEF ClientInv
<1>4. /\ asked'[c] = Append(asked[c], kind) /\ pending'[c] = Append(pending[c], r)
      /\ buffer'[c] = buffer[c]
  BY <1>1, <1>2 DEF TypeOK
<1>5. /\ Len(asked'[c]) = a + 1 /\ DOMAIN asked'[c] = 1 .. a + 1
      /\ \A n \in 1 .. a : asked'[c][n] = asked[c][n]
      /\ asked'[c][a + 1] = kind
  BY <1>3, <1>4
<1>6. /\ Len(pending'[c]) = p + 1 /\ DOMAIN pending'[c] = 1 .. p + 1
      /\ \A i \in 1 .. p : pending'[c][i] = pending[c][i]
      /\ pending'[c][p + 1] = r
  <2>1. r \in Request
    BY <1>3 DEF Request
  <2> QED
    BY <1>3, <1>4, <2>1
<1>7. /\ \A i \in 1 .. b : buffer[c][i] = [n |-> d + i, kind |-> asked[c][d + i]]
      /\ \A i \in 1 .. p : pending[c][i] = [n |-> a - p + i, kind |-> asked[c][a - p + i]]
  <2>1. DOMAIN buffer[c] = 1 .. b /\ DOMAIN pending[c] = 1 .. p
    BY <1>3
  <2>2. /\ \A i \in DOMAIN buffer[c] :
              buffer[c][i] = [n |-> Done(c) + i, kind |-> asked[c][Done(c) + i]]
        /\ \A i \in DOMAIN pending[c] : pending[c][i] =
              [n |-> Len(asked[c]) - Len(pending[c]) + i,
               kind |-> asked[c][Len(asked[c]) - Len(pending[c]) + i]]
    BY DEF ClientInv, StreamInv
  <2> QED
    BY <2>1, <2>2
<1>8. DOMAIN buffer[c] = 1 .. b /\ DOMAIN asked[c] = 1 .. a
  BY <1>3
<1>9. d = a - p - b
  BY DEF Done
<1>10. Len(buffer'[c]) = b
  BY <1>4
<1> HIDE DEF a, p, b, d, r
<1>11. Done(c)' = d
  <2>1. (a + 1) - (p + 1) - b = a - p - b
    BY <1>3
  <2> QED
    BY <1>5, <1>6, <1>9, <1>10, <2>1 DEF Done
<1>12. StreamInv(c)'
  <2>1. Len(pending'[c]) + Len(buffer'[c]) <= Len(asked'[c])
    BY <1>3, <1>5, <1>6, <1>10
  <2>2. ASSUME NEW i \in DOMAIN buffer'[c]
        PROVE  buffer'[c][i] = [n |-> d + i, kind |-> asked'[c][d + i]]
    <3>1. i \in 1 .. b /\ d + i \in 1 .. a
      BY <1>3, <1>4, <1>8
    <3> QED
      BY <1>4, <1>5, <1>7, <3>1
  <2>3. ASSUME NEW i \in DOMAIN pending'[c]
        PROVE  LET n == Len(asked'[c]) - Len(pending'[c]) + i
               IN  pending'[c][i] = [n |-> n, kind |-> asked'[c][n]]
    <3>1. i \in 1 .. p + 1 /\ Len(asked'[c]) - Len(pending'[c]) + i = a - p + i
      BY <1>3, <1>5, <1>6
    <3>2. CASE i \in 1 .. p
      <4>1. a - p + i \in 1 .. a
        BY <1>3, <3>2
      <4> QED
        BY <1>5, <1>6, <1>7, <3>1, <3>2, <4>1, ZenonT(30)
    <3>3. CASE i = p + 1
      <4>1. a - p + i = a + 1
        BY <1>3, <3>3
      <4> QED
        BY <1>5, <1>6, <3>1, <3>3, <4>1 DEF r
    <3> QED
      BY <1>3, <3>1, <3>2, <3>3
  <2>4. buffer'[c] = <<>> <=> th'[c] \in Resting
    BY <1>2 DEF ClientInv, StreamInv, Resting
  <2> QED
    BY <1>11, <2>1, <2>2, <2>3, <2>4 DEF StreamInv, Resting
<1>13. ReplyInv(c)'
  <2>1. Right(c)' = Right(c) /\ Muls(c) \subseteq Muls(c)'
    BY <1>2, <1>3, <1>5, <1>8 DEF Right, Muls
  <2> QED
    BY <1>2, <1>11, <2>1 DEF ClientInv, ReplyInv, d
<1>14. LockstepInv(c)'
  <2> SUFFICES ASSUME c \notin Pipelined
               PROVE  /\ Len(pending'[c]) + Len(buffer'[c]) <= 1
                      /\ Calm(c)' =>
                            /\ Len(replies'[c]) = Cardinality(Handled(c)')
                            /\ posts' = 0 =>
                                  {replies'[c][i] : i \in DOMAIN replies'[c]} = Handled(c)'
    BY DEF LockstepInv
  <2>1. pending[c] = <<>> /\ buffer[c] = <<>>
    BY <1>2 DEF MaySend, ClientInv, StreamInv
  <2>2. p = 0 /\ b = 0
    BY <2>1 DEF p, b
  <2>3. Handled(c)' = Handled(c)
    <3>1. \A n \in 1 .. d : n \in 1 .. a
      BY <1>3
    <3> QED
      BY <1>5, <1>11, <3>1 DEF Handled, d
  <2>4. Calm(c)' => Calm(c)
    <3>1. \A n \in DOMAIN asked[c] : n \in DOMAIN asked'[c] /\ asked'[c][n] = asked[c][n]
      BY <1>3, <1>5, <1>8
    <3> QED
      BY <1>2, <3>1 DEF Calm
  <2>5. Len(pending'[c]) + Len(buffer'[c]) <= 1
    BY <1>6, <1>10, <2>2
  <2> QED
    BY <1>2, <2>3, <2>4, <2>5 DEF ClientInv, LockstepInv
<1> QED
  BY <1>5, <1>11, <1>12, <1>13, <1>14 DEF ClientInv, a, d

(* At the end of a turn the whole buffer is done with.                     *)
LEMMA TurnStream ==
    ASSUME TypeOK, NEW c \in Clients, EndOfTurn(c), ClientInv(c)
    PROVE  /\ StreamInv(c)' /\ buffer[c] # <<>> /\ Len(buffer[c]) \in Nat \ {0}
           /\ Done(c)' = Done(c) + Len(buffer[c])
           /\ served'[c] = served[c] + 1
           /\ UNCHANGED <<asked, pending, posts, admitted>>
           /\ buffer'[c] = <<>>
           /\ buffer[c][1] = [n |-> Done(c) + 1, kind |-> asked[c][Done(c) + 1]]
           /\ Done(c) + 1 \in DOMAIN asked[c]
<1>1. /\ UNCHANGED <<asked, pending, posts, admitted>>
      /\ th[c] \in {"second", "serve"} /\ th'[c] = "read"
      /\ buffer'[c] = <<>> /\ served'[c] = served[c] + 1
  BY DEF EndOfTurn, Transition, gateVars, TypeOK
<1> DEFINE a == Len(asked[c])
           p == Len(pending[c])
           b == Len(buffer[c])
<1>2. /\ asked[c] \in Seq(Kinds) /\ buffer[c] \in Seq(Request)
      /\ a \in Nat /\ p \in Nat /\ b \in Nat /\ Done(c) \in Nat /\ Done(c) + b + p = a
  BY StreamType DEF ClientInv
<1>3. buffer[c] # <<>>
  BY <1>1 DEF ClientInv, StreamInv
<1>4. b # 0 /\ DOMAIN buffer[c] = 1 .. b /\ DOMAIN asked[c] = 1 .. a
  BY <1>2, <1>3
<1>5. Done(c) = a - p - b /\ Done(c)' = a - p - 0
  BY <1>1 DEF Done
<1>6. \A i \in 1 .. b : buffer[c][i] = [n |-> Done(c) + i, kind |-> asked[c][Done(c) + i]]
  BY <1>4 DEF ClientInv, StreamInv
<1> HIDE DEF a, p, b
<1>7. Done(c)' = Done(c) + b /\ Done(c) + 1 \in 1 .. a /\ 1 \in 1 .. b
  BY <1>2, <1>4, <1>5
<1>8. StreamInv(c)'
  <2>1. Len(pending'[c]) + Len(buffer'[c]) <= Len(asked'[c])
    <3>1. p + 0 <= a
      BY <1>2
    <3>2. Len(pending'[c]) = p /\ Len(buffer'[c]) = 0 /\ Len(asked'[c]) = a
      BY <1>1 DEF a, p
    <3> QED
      BY <3>1, <3>2
  <2>2. DOMAIN buffer'[c] = {}
    BY <1>1
  <2>3. \A i \in DOMAIN pending'[c] :
           LET n == Len(asked'[c]) - Len(pending'[c]) + i
           IN  pending'[c][i] = [n |-> n, kind |-> asked'[c][n]]
    BY <1>1 DEF ClientInv, StreamInv
  <2>4. buffer'[c] = <<>> <=> th'[c] \in {"idle", "orphan", "read", "gone"}
    BY <1>1
  <2> QED
    BY <2>1, <2>2, <2>3, <2>4 DEF StreamInv
<1> QED
  BY <1>1, <1>2, <1>3, <1>4, <1>6, <1>7, <1>8 DEF b

(* Nothing is answered.                                                    *)
LEMMA TurnSilent ==
    ASSUME TypeOK, NEW c \in Clients, EndOfTurn(c), ClientInv(c), replies'[c] = replies[c],
           \/ Stars(buffer[c]) = {} /\ (Calm(c)' => Calm(c))
           \/ ~Calm(c)'
    PROVE  ClientInv(c)'
<1>1. /\ StreamInv(c)' /\ Len(buffer[c]) \in Nat \ {0} /\ Done(c) \in Nat
      /\ Done(c)' = Done(c) + Len(buffer[c])
      /\ served'[c] = served[c] + 1 /\ served[c] \in Nat
      /\ UNCHANGED <<asked, pending, posts>>
      /\ buffer'[c] = <<>> /\ Len(pending[c]) \in Nat
      /\ buffer[c][1] = [n |-> Done(c) + 1, kind |-> asked[c][Done(c) + 1]]
      /\ replies[c] \in Seq(Nat) /\ buffer[c] \in Seq(Request)
  BY TurnStream, StreamType DEF ClientInv
<1>2. ReplyInv(c)'
  <2>1. Right(c)' = Right(c) /\ Muls(c)' = Muls(c)
    BY <1>1 DEF Right, Muls
  <2>2. \A i \in Right(c) : replies[c][i] \in Nat
    BY <1>1 DEF Right
  <2>3. Len(replies[c]) \in Nat
    BY <1>1
  <2>4. Len(replies[c]) <= served[c] + 1
    BY <1>1, <2>3 DEF ClientInv, ReplyInv
  <2>5. \A i \in Right(c) : replies[c][i] <= Done(c) + Len(buffer[c])
    BY <1>1, <2>2 DEF ClientInv, ReplyInv
  <2> QED
    BY <1>1, <2>1, <2>4, <2>5 DEF ClientInv, ReplyInv
<1>3. LockstepInv(c)'
  <2> SUFFICES ASSUME c \notin Pipelined
               PROVE  /\ Len(pending'[c]) + Len(buffer'[c]) <= 1
                      /\ Calm(c)' =>
                            /\ Len(replies'[c]) = Cardinality(Handled(c)')
                            /\ posts' = 0 =>
                                  {replies'[c][i] : i \in DOMAIN replies'[c]} = Handled(c)'
    BY DEF LockstepInv
  <2>1. Len(buffer[c]) = 1 /\ Len(pending[c]) = 0
    <3>1. Len(pending[c]) + Len(buffer[c]) <= 1
      BY DEF ClientInv, LockstepInv
    <3>2. \A m \in Nat, n \in Nat \ {0} : m + n <= 1 => n = 1 /\ m = 0
      OBVIOUS
    <3> QED
      BY <1>1, <3>1, <3>2
  <2>2. Len(pending'[c]) + Len(buffer'[c]) <= 1
    BY <1>1, <2>1
  <2>3. ASSUME Calm(c)' PROVE Handled(c)' = Handled(c)
    <3>1. 1 \in DOMAIN buffer[c] /\ Stars(buffer[c]) = {}
      BY <1>1, <2>1, <2>3
    <3>2. buffer[c][1].kind # "mul"
      BY <3>1 DEF Stars
    <3>3. asked[c][Done(c) + 1] # "mul"
      BY <1>1, <3>2
    <3>4. \A n \in 1 .. Done(c) + 1 : n \in 1 .. Done(c) \/ n = Done(c) + 1
      BY <1>1
    <3>5. \A n \in 1 .. Done(c) : n \in 1 .. Done(c) + 1
      BY <1>1
    <3> QED
      BY <1>1, <2>1, <3>3, <3>4, <3>5 DEF Handled
  <2> QED
    BY <1>1, <2>2, <2>3 DEF ClientInv, LockstepInv
<1> QED
  BY <1>1, <1>2, <1>3 DEF ClientInv

LEMMA HandledFinite ==
    ASSUME NEW c \in Clients, Done(c) \in Nat
    PROVE  IsFiniteSet(Handled(c))
<1>1. IsFiniteSet(1 .. Done(c))
  BY FS_Interval
<1> QED
  BY <1>1, FS_Subset DEF Handled

(* A product is sent; it is the right one unless the second strtok finds   *)
(* an operand of another client.                                           *)
LEMMA TurnAnswer ==
    ASSUME GateInv, NEW c \in Clients, ServeAnswer(c), ClientInv(c)
    PROVE  ClientInv(c)'
<1>0. TypeOK /\ EndOfTurn(c) /\ UNCHANGED <<alive, conn>> /\ Stars(buffer[c]) # {}
  BY DEF GateInv, ServeAnswer
<1> DEFINE d == Done(c)
<1>1. /\ StreamInv(c)' /\ Len(buffer[c]) \in Nat \ {0} /\ d \in Nat
      /\ Done(c)' = d + Len(buffer[c])
      /\ served'[c] = served[c] + 1 /\ served[c] \in Nat
      /\ UNCHANGED <<asked, pending, posts>>
      /\ buffer'[c] = <<>> /\ Len(pending[c]) \in Nat
      /\ buffer[c][1] = [n |-> d + 1, kind |-> asked[c][d + 1]]
      /\ d + 1 \in DOMAIN asked[c]
      /\ replies[c] \in Seq(Nat) /\ buffer[c] \in Seq(Request)
  BY <1>0, TurnStream, StreamType DEF ClientInv
<1>2. PICK f \in Found(c) \ {"NULL"} :
         replies' = [replies EXCEPT
            ![c] = Append(replies[c], IF f = "own" THEN Answer(buffer[c]) ELSE 0)]
  BY DEF ServeAnswer
<1> DEFINE x == IF f = "own" THEN Answer(buffer[c]) ELSE 0
           l == Len(replies[c])
<1>3. x \in Nat /\ (x # 0 => x = d + 1 /\ asked[c][d + 1] = "mul")
  BY <1>1 DEF Answer
<1>4. /\ replies'[c] = Append(replies[c], x) /\ l \in Nat /\ Len(replies'[c]) = l + 1
      /\ DOMAIN replies[c] = 1 .. l /\ DOMAIN replies'[c] = 1 .. l + 1
      /\ \A i \in 1 .. l : replies'[c][i] = replies[c][i] /\ replies[c][i] \in Nat
      /\ replies'[c][l + 1] = x
  <2>1. replies'[c] = Append(replies[c], x)
    BY <1>0, <1>2 DEF TypeOK
  <2> HIDE DEF x
  <2>2. /\ Append(replies[c], x) \in Seq(Nat)
        /\ Len(Append(replies[c], x)) = Len(replies[c]) + 1
        /\ \A i \in 1 .. Len(replies[c]) : Append(replies[c], x)[i] = replies[c][i]
        /\ Append(replies[c], x)[Len(replies[c]) + 1] = x
    BY <1>1, <1>3, AppendProperties
  <2>3. /\ l \in Nat /\ DOMAIN replies[c] = 1 .. l
        /\ \A i \in 1 .. l : replies[c][i] \in Nat
    BY <1>1, SMTT(30)
  <2>4. DOMAIN replies'[c] = 1 .. l + 1
    BY <2>1, <2>2, <2>3
  <2> QED
    BY <2>1, <2>2, <2>3, <2>4
<1> HIDE DEF x, l, d
<1>5. ReplyInv(c)'
  <2>1. Muls(c)' = Muls(c)
    BY <1>1 DEF Muls
  <2>2. \A i \in Right(c)' : i \in Right(c) \/ (i = l + 1 /\ x # 0)
    BY <1>4 DEF Right
  <2>3. \A i \in Right(c) : i \in 1 .. l /\ replies'[c][i] = replies[c][i]
    BY <1>4 DEF Right
  <2>4. \A i \in Right(c) : replies[c][i] \in Muls(c) /\ replies[c][i] <= d
    BY DEF ClientInv, ReplyInv, d
  <2>5. ASSUME NEW i \in Right(c)'
        PROVE  replies'[c][i] \in Muls(c) /\ replies'[c][i] <= d + Len(buffer[c])
    <3>1. CASE i \in Right(c)
      BY <1>1, <1>4, <2>3, <2>4, <3>1, SMTT(30)
    <3>2. CASE i = l + 1 /\ x # 0
      BY <1>1, <1>3, <1>4, <3>2 DEF Muls
    <3> QED
      BY <2>2, <3>1, <3>2
  <2>6. ASSUME NEW i \in Right(c)', NEW j \in Right(c)', i < j
        PROVE  replies'[c][i] < replies'[c][j]
    <3>1. CASE j \in Right(c)
      <4>1. i \in Right(c)
        <5>1. j \in 1 .. l
          BY <2>3, <3>1
        <5>2. i # l + 1
          BY <1>4, <2>6, <5>1
        <5> QED
          BY <2>2, <5>2
      <4> QED
        BY <2>3, <2>6, <3>1, <4>1 DEF ClientInv, ReplyInv
    <3>2. CASE j = l + 1 /\ x # 0
      <4>1. i \in Right(c)
        <5>1. i # l + 1
          BY <1>4, <2>6, <3>2
        <5> QED
          BY <2>2, <5>1
      <4>2. replies'[c][i] \in Nat /\ replies'[c][i] <= d
        BY <1>4, <2>3, <2>4, <4>1
      <4>3. replies'[c][j] = d + 1 /\ d \in Nat
        BY <1>1, <1>3, <1>4, <3>2 DEF d
      <4> QED
        BY <4>2, <4>3
    <3> QED
      BY <2>2, <3>1, <3>2
  <2>7. Len(replies'[c]) <= served'[c]
    BY <1>1, <1>4 DEF ClientInv, ReplyInv, l
  <2> QED
    BY <1>1, <2>1, <2>5, <2>6, <2>7 DEF ReplyInv, d
<1>6. LockstepInv(c)'
  <2> SUFFICES ASSUME c \notin Pipelined
               PROVE  /\ Len(pending'[c]) + Len(buffer'[c]) <= 1
                      /\ Calm(c)' =>
                            /\ Len(replies'[c]) = Cardinality(Handled(c)')
                            /\ posts' = 0 =>
                                  {replies'[c][i] : i \in DOMAIN replies'[c]} = Handled(c)'
    BY DEF LockstepInv
  <2>1. Len(buffer[c]) = 1 /\ Len(pending[c]) = 0
    <3>1. Len(pending[c]) + Len(buffer[c]) <= 1
      BY DEF ClientInv, LockstepInv
    <3>2. \A m \in Nat, n \in Nat \ {0} : m + n <= 1 => n = 1 /\ m = 0
      OBVIOUS
    <3> QED
      BY <1>1, <3>1, <3>2
  <2>2. Len(pending'[c]) + Len(buffer'[c]) <= 1
    BY <1>1, <2>1
  <2>3. ASSUME Calm(c)'
        PROVE  /\ Len(replies'[c]) = Cardinality(Handled(c)')
               /\ posts' = 0 => {replies'[c][i] : i \in DOMAIN replies'[c]} = Handled(c)'
    <3>1. Calm(c)
      BY <1>0, <1>1, <2>3 DEF Calm
    <3>2. DOMAIN buffer[c] = {1}
      BY <1>1, <2>1
    <3>3. buffer[c][1].kind = "mul"
      <4>1. buffer[c][1].kind \in {"mul", "lone"}
        BY <1>0, <3>2 DEF Stars
      <4>2. buffer[c][1].kind # "lone"
        BY <1>1, <3>1 DEF Calm
      <4> QED
        BY <4>1, <4>2
    <3>4. Handled(c)' = Handled(c) \cup {d + 1} /\ d + 1 \notin Handled(c)
      <4>1. asked[c][d + 1] = "mul"
        BY <1>1, <3>3
      <4>2. \A n : n \in 1 .. d + 1 <=> n \in 1 .. d \/ n = d + 1
        BY <1>1
      <4>3. d + 1 \notin 1 .. d
        BY <1>1
      <4> QED
        BY <1>1, <2>1, <4>1, <4>2, <4>3 DEF Handled, d
    <3>5. Cardinality(Handled(c)') = Cardinality(Handled(c)) + 1
      BY <1>1, <3>4, HandledFinite, FS_AddElement, ZenonT(30) DEF d
    <3>6. l = Cardinality(Handled(c))
      BY <3>1 DEF ClientInv, LockstepInv, l
    <3>7. ASSUME posts' = 0 PROVE {replies'[c][i] : i \in DOMAIN replies'[c]} = Handled(c)'
      <4>1. {replies[c][i] : i \in 1 .. l} = Handled(c)
        BY <1>1, <1>4, <3>1, <3>7 DEF ClientInv, LockstepInv
      <4>2. th[c] = "second"
        <5>1. HasOperator(buffer[c])
          BY <3>2, <3>3 DEF HasOperator
        <5> QED
          BY <1>0, <5>1 DEF EndOfTurn, Transition
      <4>3. saved = c
        BY <1>1, <3>7, <4>2 DEF GateInv, OwnOperands
      <4>4. f = "own"
        BY <3>3, <4>3 DEF Found, OneOperand
      <4>5. x = d + 1
        BY <1>1, <3>3, <4>4 DEF x, Answer
      <4>6. {replies'[c][i] : i \in 1 .. l + 1} = {replies[c][i] : i \in 1 .. l} \cup {x}
        <5>1. \A i : i \in 1 .. l + 1 <=> i \in 1 .. l \/ i = l + 1
          BY <1>4
        <5> QED
          BY <1>4, <5>1
      <4> QED
        BY <1>4, <3>4, <4>1, <4>5, <4>6
    <3> QED
      BY <1>4, <3>5, <3>6, <3>7
  <2> QED
    BY <2>2, <2>3
<1> QED
  BY <1>1, <1>5, <1>6 DEF ClientInv

(* A step of the server or of another client, as one client sees it.       *)
LEMMA OtherStep ==
    ASSUME TypeOK, NEW c \in Clients, NEW d \in Clients, c # d, ClientInv(c),
           \/ Accept(d) \/ Read(d) \/ ReadEof(d) \/ ReadError(d) \/ SemWait(d)
           \/ SemPost(d) \/ StrtokFirst(d) \/ ServeSilently(d) \/ ServeAnswer(d)
           \/ ServeLost(d) \/ ServeCrash(d) \/ Send(d) \/ Leave(d),
           alive
    PROVE  ClientInv(c)'
<1> USE DEF TypeOK, Transition, EndOfTurn, clientVars, gateVars, loopVars
<1>1. /\ asked'[c] = asked[c] /\ pending'[c] = pending[c] /\ buffer'[c] = buffer[c]
      /\ replies'[c] = replies[c] /\ served'[c] = served[c]
  BY DEF Accept, Read, ReadEof, ReadError, SemWait, SemPost, StrtokFirst,
         ServeSilently, ServeAnswer, ServeLost, ServeCrash, Send, Leave
<1>2. th'[c] = th[c] /\ conn'[c] = conn[c]
  BY DEF Accept, Read, ReadEof, ReadError, SemWait, SemPost, StrtokFirst,
         ServeSilently, ServeAnswer, ServeLost, ServeCrash, Send, Leave
<1>3. posts' \in {posts, posts + 1} /\ posts \in Nat
  BY DEF Accept, Read, ReadEof, ReadError, SemWait, SemPost, StrtokFirst,
         ServeSilently, ServeAnswer, ServeLost, ServeCrash, Send, Leave
<1>4. posts' = 0 => posts = 0
  BY <1>3
<1> QED
  BY <1>1, <1>2, <1>4, KeepStep

(* A step of a thread between its reads and its answers.                   *)
LEMMA OwnStep ==
    ASSUME TypeOK, NEW c \in Clients, ClientInv(c), alive,
           \/ Accept(c) \/ ReadEof(c) \/ ReadError(c) \/ SemWait(c)
           \/ SemPost(c) \/ StrtokFirst(c) \/ Leave(c)
    PROVE  ClientInv(c)'
<1> USE DEF TypeOK, Transition, clientVars, gateVars, loopVars
<1>1. /\ asked' = asked /\ pending' = pending /\ buffer' = buffer
      /\ replies' = replies /\ served' = served
  BY DEF Accept, ReadEof, ReadError, SemWait, SemPost, StrtokFirst, Leave
<1>2. conn'[c] = "open" => conn[c] = "open"
  BY DEF Accept, ReadEof, ReadError, SemWait, SemPost, StrtokFirst, Leave
<1>3. th'[c] \in Resting <=> th[c] \in Resting
  BY DEF Accept, ReadEof, ReadError, SemWait, SemPost, StrtokFirst, Leave, Resting
<1>4. posts' \in {posts, posts + 1} /\ posts \in Nat
  BY DEF Accept, ReadEof, ReadError, SemWait, SemPost, StrtokFirst, Leave
<1>5. posts' = 0 => posts = 0
  BY <1>4
<1> QED
  BY <1>1, <1>2, <1>3, <1>5, KeepStep

LEMMA AnswerStep == GateInv /\ AnswerInv /\ [Next]_vars => AnswerInv'
<1> SUFFICES ASSUME GateInv, AnswerInv, [Next]_vars, NEW c \in Clients
             PROVE  ClientInv(c)'
  BY DEF AnswerInv
<1>0. TypeOK /\ ClientInv(c)
  BY DEF GateInv, AnswerInv
<1>1. CASE UNCHANGED vars
  <2>1. UNCHANGED <<asked, pending, buffer, replies, served, th, alive, conn, posts>>
    BY <1>1 DEF vars, clientVars, gateVars, loopVars
  <2> QED
    BY <1>0, <2>1, KeepStep
<1>2. CASE Next
  <2>0. alive
    BY <1>2 DEF Next
  <2>1. CASE AcceptFails \/ WildStore
    <3>1. /\ UNCHANGED <<asked, pending, buffer, replies, served, th, conn, posts>>
          /\ alive' = FALSE
      BY <2>1 DEF AcceptFails, WildStore, clientVars, gateVars, loopVars
    <3> QED
      BY <1>0, <3>1, KeepStep
  <2>2. ASSUME NEW d \in Clients, d # c,
               \/ Accept(d) \/ Read(d) \/ ReadEof(d) \/ ReadError(d) \/ SemWait(d)
               \/ SemPost(d) \/ StrtokFirst(d) \/ ServeSilently(d) \/ ServeAnswer(d)
               \/ ServeLost(d) \/ ServeCrash(d) \/ Send(d) \/ Leave(d)
        PROVE  ClientInv(c)'
    BY <1>0, <2>0, <2>2, OtherStep
  <2>3. CASE \/ Accept(c) \/ ReadEof(c) \/ ReadError(c) \/ SemWait(c)
             \/ SemPost(c) \/ StrtokFirst(c) \/ Leave(c)
    BY <1>0, <2>0, <2>3, OwnStep
  <2>4. CASE Read(c)
    BY <1>0, <2>4, ReadClient
  <2>5. CASE Send(c)
    BY <1>0, <2>5, SendClient
  <2>6. CASE ServeSilently(c)
    <3>1. asked' = asked /\ UNCHANGED <<alive, conn, replies>> /\ Stars(buffer[c]) = {}
      BY <2>6 DEF ServeSilently, EndOfTurn
    <3>2. Calm(c)' => Calm(c)
      BY <3>1 DEF Calm
    <3> QED
      BY <1>0, <2>6, <3>1, <3>2, TurnSilent DEF ServeSilently
  <2>7. CASE ServeAnswer(c)
    BY <1>0, <2>7, TurnAnswer
  <2>8. CASE ServeLost(c)
    <3>1. PICK s \in {conn[c], "reset"} : conn' = [conn EXCEPT ![c] = s]
      BY <2>8 DEF ServeLost
    <3>2. ~Calm(c)'
      BY <1>0, <2>8, <3>1 DEF ServeLost, Calm, TypeOK
    <3> QED
      BY <1>0, <2>8, <3>2, TurnSilent DEF ServeLost
  <2>9. CASE ServeCrash(c)
    <3>1. ~Calm(c)'
      BY <2>9 DEF ServeCrash, Calm
    <3> QED
      BY <1>0, <2>9, <3>1, TurnSilent DEF ServeCrash
  <2>10. PICK d \in Clients :
           \/ AcceptFails \/ WildStore \/ Accept(d) \/ Read(d) \/ ReadEof(d) \/ ReadError(d)
           \/ SemWait(d) \/ SemPost(d) \/ StrtokFirst(d) \/ ServeSilently(d)
           \/ ServeAnswer(d) \/ ServeLost(d) \/ ServeCrash(d) \/ Send(d) \/ Leave(d)
    BY <1>2, NextCases
  <2> QED
    BY <2>1, <2>2, <2>3, <2>4, <2>5, <2>6, <2>7, <2>8, <2>9, <2>10
<1> QED
  BY <1>1, <1>2

LEMMA AnswersCorrect == Spec => []AnswerInv
  BY AnswerInit, AnswerStep, GateCorrect, PTL DEF Spec

(* A client that waits for each request has had one answer to every        *)
(* multiplication, and the right ones until a window has been used up.     *)
THEOREM LockstepHolds == Spec => []LockstepAnswers
<1>1. GateInv /\ AnswerInv => LockstepAnswers
  <2> SUFFICES ASSUME GateInv, AnswerInv, NEW c \in Clients \ Pipelined,
                      alive, conn[c] = "open", th[c] = "read", pending[c] = <<>>,
                      \A n \in DOMAIN asked[c] : asked[c][n] # "lone"
               PROVE  /\ Len(replies[c]) = Cardinality(Muls(c))
                      /\ posts = 0 => {replies[c][i] : i \in DOMAIN replies[c]} = Muls(c)
    BY DEF LockstepAnswers
  <2>1. TypeOK /\ StreamInv(c) /\ LockstepInv(c) /\ Calm(c)
    BY DEF GateInv, AnswerInv, ClientInv, Calm
  <2>2. Len(pending[c]) = 0 /\ Len(buffer[c]) = 0
    BY <2>1 DEF StreamInv
  <2>3. Done(c) = Len(asked[c]) /\ asked[c] \in Seq(Kinds)
    <3>1. Len(asked[c]) \in Nat /\ asked[c] \in Seq(Kinds)
      BY <2>1, StreamType
    <3> QED
      BY <2>2, <3>1 DEF Done
  <2>4. Handled(c) = Muls(c)
    BY <2>3 DEF Handled, Muls
  <2> QED
    BY <2>1, <2>4 DEF LockstepInv
<1> QED
  BY <1>1, AnswersCorrect, GateCorrect, PTL

(* Nobody gets two answers to a request, an answer to what is no           *)
(* multiplication, or answers out of order.                                *)
THEOREM InOrderHolds == Spec => []AnswersInOrder
<1>1. AnswerInv => AnswersInOrder
  BY DEF AnswerInv, ClientInv, ReplyInv, AnswersInOrder
<1> QED
  BY <1>1, AnswersCorrect, PTL
-----------------------------------------------------------------------------
(* Windows.  After k whole windows a thread is in the next one.            *)
Windows(k) == UNION {{c} \X (1 .. k[c]) : c \in Clients}

WindowInv ==
    \E k \in [Clients -> Nat] :
        /\ \A c \in Clients : served[c] = Window * k[c] + counter[c] /\ counter[c] <= Window
        /\ posts = Cardinality(Windows(k))

(* What has been served was asked for; a thread that was let through has   *)
(* begun its window when it ends.                                          *)
PlaceInv(c) ==
    /\ Len(asked[c]) <= MaxSent[c] /\ served[c] <= Done(c)
    /\ th[c] \in {"serve", "second"} => counter[c] < Window
    /\ c \in admitted /\ th[c] = "gone" => counter[c] >= 1

UsedInv == WindowInv /\ \A c \in Clients : PlaceInv(c)

LEMMA WindowsFinite ==
    ASSUME NEW k \in [Clients -> Nat]
    PROVE  IsFiniteSet(Windows(k)) /\ Cardinality(Windows(k)) \in Nat
<1>1. IsFiniteSet(Clients)
  BY CalcAssumption
<1>2. \A c \in Clients : IsFiniteSet({c} \X (1 .. k[c]))
  <2> TAKE c \in Clients
  <2>1. IsFiniteSet(1 .. k[c])
    BY FS_Interval
  <2>2. IsFiniteSet({c})
    BY FS_Singleton
  <2> QED
    BY <2>1, <2>2, FS_Product
<1>3. IsFiniteSet({{c} \X (1 .. k[c]) : c \in Clients})
  <2> DEFINE F == [c \in Clients |-> {c} \X (1 .. k[c])]
             S == {{c} \X (1 .. k[c]) : c \in Clients}
  <2>1. F \in Surjection(Clients, S)
    BY DEF Surjection
  <2> HIDE DEF F, S
  <2>2. IsFiniteSet(S)
    BY <1>1, <2>1, FS_Surjection
  <2> QED
    BY <2>2 DEF S
<1>4. IsFiniteSet(Windows(k))
  BY <1>2, <1>3, FS_UNION DEF Windows
<1> QED
  BY <1>4, FS_CardinalityType

(* A window more for c is one window more.                                 *)
LEMMA WindowMore ==
    ASSUME NEW k \in [Clients -> Nat], NEW c \in Clients
    PROVE  Cardinality(Windows([k EXCEPT ![c] = k[c] + 1])) = Cardinality(Windows(k)) + 1
<1> DEFINE l == [k EXCEPT ![c] = k[c] + 1]
<1>1. l \in [Clients -> Nat] /\ l[c] = k[c] + 1 /\ \A d \in Clients \ {c} : l[d] = k[d]
  OBVIOUS
<1> HIDE DEF l
<1>2. Windows(l) = Windows(k) \cup {<<c, k[c] + 1>>}
  <2>1. \A d \in Clients, w \in Nat : w \in 1 .. l[d] <=> w \in 1 .. k[d] \/ (d = c /\ w = k[c] + 1)
    BY <1>1
  <2>2. \A d \in Clients : 1 .. l[d] \subseteq Nat /\ 1 .. k[d] \subseteq Nat
    BY <1>1
  <2>3. k[c] + 1 \in Nat
    OBVIOUS
  <2>4. \A p : p \in Windows(l) <=> \E d \in Clients : \E w \in 1 .. l[d] : p = <<d, w>>
    BY DEF Windows
  <2>5. \A p : p \in Windows(k) <=> \E d \in Clients : \E w \in 1 .. k[d] : p = <<d, w>>
    BY DEF Windows
  <2> QED
    BY <2>1, <2>2, <2>3, <2>4, <2>5
<1>3. <<c, k[c] + 1>> \notin Windows(k)
  BY DEF Windows
<1>4. IsFiniteSet(Windows(k))
  BY WindowsFinite
<1> QED
  BY <1>2, <1>3, <1>4, FS_AddElement DEF l

LEMMA UsedInit == Init => UsedInv
<1> SUFFICES ASSUME Init PROVE UsedInv
  OBVIOUS
<1> DEFINE k == [c \in Clients |-> 0]
<1>1. k \in [Clients -> Nat] /\ \A c \in Clients : k[c] = 0
  OBVIOUS
<1> HIDE DEF k
<1>2. Windows(k) = {}
  BY <1>1 DEF Windows
<1>3. Window * 0 = 0
  BY CalcAssumption
<1>4. \A c \in Clients : served[c] = Window * k[c] + counter[c] /\ counter[c] <= Window
  BY <1>1, <1>3, CalcAssumption DEF Init
<1>5. WindowInv
  BY <1>1, <1>2, <1>4, FS_EmptySet DEF WindowInv, Init
<1>6. ASSUME NEW c \in Clients PROVE PlaceInv(c)
  <2>1. MaxSent[c] \in Nat
    BY CalcAssumption
  <2> QED
    BY <2>1 DEF PlaceInv, Init, Done
<1> QED
  BY <1>5, <1>6 DEF UsedInv


(* The three things a step can do to the windows: nothing, ...             *)
LEMMA WindowStays ==
    ASSUME WindowInv, UNCHANGED <<counter, served, posts>>
    PROVE  WindowInv'
<1>1. PICK k \in [Clients -> Nat] :
          /\ \A c \in Clients : served[c] = Window * k[c] + counter[c] /\ counter[c] <= Window
          /\ posts = Cardinality(Windows(k))
  BY DEF WindowInv
<1> QED
  BY <1>1 DEF WindowInv

(* ... to handle one more buffer in one of them, ...                       *)
LEMMA WindowTurn ==
    ASSUME TypeOK, WindowInv, NEW c \in Clients, EndOfTurn(c), PlaceInv(c)
    PROVE  WindowInv'
<1>1. PICK k \in [Clients -> Nat] :
          /\ \A e \in Clients : served[e] = Window * k[e] + counter[e] /\ counter[e] <= Window
          /\ posts = Cardinality(Windows(k))
  BY DEF WindowInv
<1>2. /\ counter'[c] = counter[c] + 1 /\ served'[c] = served[c] + 1 /\ posts' = posts
      /\ \A e \in Clients \ {c} : counter'[e] = counter[e] /\ served'[e] = served[e]
      /\ counter[c] \in Nat /\ th[c] \in {"serve", "second"}
  BY DEF EndOfTurn, Transition, TypeOK, gateVars
<1>3. counter[c] < Window
  BY <1>2 DEF PlaceInv
<1>4. served'[c] = Window * k[c] + counter'[c] /\ counter'[c] <= Window
  <2> DEFINE m == Window * k[c]
  <2>1. m \in Nat /\ Window \in Nat
    BY CalcAssumption
  <2>2. served[c] = m + counter[c]
    BY <1>1
  <2> HIDE DEF m
  <2>3. served'[c] = m + counter'[c] /\ counter'[c] <= Window
    BY <1>2, <1>3, <2>1, <2>2
  <2> QED
    BY <2>3 DEF m
<1>5. \A e \in Clients : served'[e] = Window * k[e] + counter'[e] /\ counter'[e] <= Window
  <2> SUFFICES ASSUME NEW e \in Clients
               PROVE  served'[e] = Window * k[e] + counter'[e] /\ counter'[e] <= Window
    OBVIOUS
  <2>1. CASE e = c
    BY <1>4, <2>1
  <2>2. CASE e # c
    BY <1>1, <1>2, <2>2
  <2> QED
    BY <2>1, <2>2
<1> QED
  BY <1>1, <1>2, <1>5 DEF WindowInv

(* ... or to end one with a permit posted.                                 *)
LEMMA WindowPost ==
    ASSUME TypeOK, WindowInv, NEW c \in Clients, SemPost(c), ThreadInv(c)
    PROVE  WindowInv'
<1>1. PICK k \in [Clients -> Nat] :
          /\ \A e \in Clients : served[e] = Window * k[e] + counter[e] /\ counter[e] <= Window
          /\ posts = Cardinality(Windows(k))
  BY DEF WindowInv
<1>2. /\ th[c] = "post" /\ counter'[c] = 0 /\ served' = served /\ posts' = posts + 1
      /\ \A e \in Clients \ {c} : counter'[e] = counter[e]
      /\ counter[c] \in Nat
  BY DEF SemPost, Transition, TypeOK
<1>3. Window \in Nat /\ counter[c] = Window
  BY <1>1, <1>2, CalcAssumption DEF ThreadInv
<1> DEFINE l == [k EXCEPT ![c] = k[c] + 1]
<1>4. l \in [Clients -> Nat] /\ l[c] = k[c] + 1 /\ \A e \in Clients \ {c} : l[e] = k[e]
  OBVIOUS
<1>5. Cardinality(Windows(l)) = posts + 1
  BY <1>1, WindowMore
<1> HIDE DEF l
<1>6. served'[c] = Window * l[c] + counter'[c] /\ counter'[c] <= Window
  <2>1. Window * (k[c] + 1) = Window * k[c] + Window /\ Window * k[c] \in Nat
    BY <1>3
  <2>2. served'[c] = Window * (k[c] + 1)
    BY <1>1, <1>2, <1>3, <2>1
  <2>3. Window * (k[c] + 1) + 0 = Window * (k[c] + 1)
    BY <1>3, <2>1
  <2> QED
    BY <1>2, <1>3, <1>4, <2>2, <2>3
<1>7. \A e \in Clients : served'[e] = Window * l[e] + counter'[e] /\ counter'[e] <= Window
  <2> SUFFICES ASSUME NEW e \in Clients
               PROVE  served'[e] = Window * l[e] + counter'[e] /\ counter'[e] <= Window
    OBVIOUS
  <2>1. CASE e = c
    BY <1>6, <2>1
  <2>2. CASE e # c
    BY <1>1, <1>2, <1>4, <2>2
  <2> QED
    BY <2>1, <2>2
<1>8. posts' = Cardinality(Windows(l))
  BY <1>2, <1>5
<1> QED
  BY <1>4, <1>7, <1>8 DEF WindowInv

LEMMA WindowStep ==
    ASSUME TypeOK, WindowInv, \A c \in Clients : PlaceInv(c) /\ ThreadInv(c), [Next]_vars
    PROVE  WindowInv'
<1>1. CASE UNCHANGED <<counter, served, posts>>
  BY <1>1, WindowStays
<1>2. ASSUME NEW c \in Clients, EndOfTurn(c) PROVE WindowInv'
  BY <1>2, WindowTurn
<1>3. ASSUME NEW c \in Clients, SemPost(c) PROVE WindowInv'
  BY <1>3, WindowPost
<1>4. CASE UNCHANGED vars
  BY <1>1, <1>4 DEF vars, gateVars, loopVars
<1> QED
  BY <1>1, <1>2, <1>3, <1>4, NextCases
     DEF AcceptFails, WildStore, Accept, Read, ReadEof, ReadError, SemWait, StrtokFirst, ServeSilently,
         ServeAnswer, ServeLost, ServeCrash, Send, Leave, gateVars, loopVars

(* A step that serves client c nothing and asks nothing for it.            *)
LEMMA PlaceStays ==
    ASSUME NEW c \in Clients, PlaceInv(c),
           asked'[c] = asked[c], pending'[c] = pending[c], buffer'[c] = buffer[c],
           served'[c] = served[c], counter'[c] = counter[c],
           th'[c] \in {"serve", "second"} => th[c] \in {"serve", "second"},
           c \in admitted' /\ th'[c] = "gone" => c \in admitted /\ th[c] = "gone"
    PROVE  PlaceInv(c)'
  BY DEF PlaceInv, Done

LEMMA PlaceOther ==
    ASSUME TypeOK, NEW c \in Clients, NEW d \in Clients, c # d, PlaceInv(c),
           \/ Accept(d) \/ Read(d) \/ ReadEof(d) \/ ReadError(d) \/ SemWait(d)
           \/ SemPost(d) \/ StrtokFirst(d) \/ ServeSilently(d) \/ ServeAnswer(d)
           \/ ServeLost(d) \/ ServeCrash(d) \/ Send(d) \/ Leave(d)
    PROVE  PlaceInv(c)'
<1> USE DEF TypeOK, Transition, EndOfTurn, clientVars, gateVars, loopVars
<1>1. /\ asked'[c] = asked[c] /\ pending'[c] = pending[c] /\ buffer'[c] = buffer[c]
      /\ served'[c] = served[c]
  BY DEF Accept, Read, ReadEof, ReadError, SemWait, SemPost, StrtokFirst,
         ServeSilently, ServeAnswer, ServeLost, ServeCrash, Send, Leave
<1>2. th'[c] = th[c] /\ counter'[c] = counter[c]
  BY DEF Accept, Read, ReadEof, ReadError, SemWait, SemPost, StrtokFirst,
         ServeSilently, ServeAnswer, ServeLost, ServeCrash, Send, Leave
<1>3. c \in admitted' => c \in admitted
  BY DEF Accept, Read, ReadEof, ReadError, SemWait, SemPost, StrtokFirst,
         ServeSilently, ServeAnswer, ServeLost, ServeCrash, Send, Leave
<1> QED
  BY <1>1, <1>2, <1>3, PlaceStays

(* The end of a turn serves what was in the buffer.                        *)
LEMMA PlaceTurn ==
    ASSUME TypeOK, NEW c \in Clients, EndOfTurn(c), ClientInv(c), PlaceInv(c)
    PROVE  PlaceInv(c)'
<1>1. /\ Done(c)' = Done(c) + Len(buffer[c]) /\ Len(buffer[c]) \in Nat \ {0}
      /\ served'[c] = served[c] + 1 /\ asked' = asked
  BY TurnStream
<1>2. served[c] \in Nat /\ Done(c) \in Nat
  BY StreamType DEF ClientInv
<1>3. served'[c] <= Done(c)'
  <2>1. served[c] <= Done(c)
    BY DEF PlaceInv
  <2> QED
    BY <1>1, <1>2, <2>1
<1>4. th'[c] = "read"
  BY DEF EndOfTurn, Transition, TypeOK
<1> QED
  BY <1>1, <1>3, <1>4 DEF PlaceInv

LEMMA PlaceStep ==
    ASSUME GateInv, AnswerInv, NEW c \in Clients, PlaceInv(c), [Next]_vars
    PROVE  PlaceInv(c)'
<1>0. TypeOK /\ ClientInv(c) /\ ThreadInv(c)
  BY DEF GateInv, AnswerInv
<1> USE DEF Transition
<1>1. CASE UNCHANGED vars \/ AcceptFails \/ WildStore
  <2>1. UNCHANGED <<asked, pending, buffer, served, counter, th, admitted>>
    BY <1>1 DEF vars, AcceptFails, WildStore, clientVars, gateVars, loopVars
  <2> QED
    BY <2>1, PlaceStays
<1>2. ASSUME NEW d \in Clients, d # c,
             \/ Accept(d) \/ Read(d) \/ ReadEof(d) \/ ReadError(d) \/ SemWait(d)
             \/ SemPost(d) \/ StrtokFirst(d) \/ ServeSilently(d) \/ ServeAnswer(d)
             \/ ServeLost(d) \/ ServeCrash(d) \/ Send(d) \/ Leave(d)
      PROVE  PlaceInv(c)'
  BY <1>0, <1>2, PlaceOther
<1>3. CASE Accept(c) \/ ReadError(c) \/ StrtokFirst(c) \/ Leave(c)
  <2>1. UNCHANGED <<asked, pending, buffer, served, counter, admitted>>
    BY <1>3 DEF Accept, ReadError, StrtokFirst, Leave, clientVars, gateVars, loopVars
  <2>2. /\ th'[c] \in {"serve", "second"} => th[c] \in {"serve", "second"}
        /\ th'[c] = "gone" => th[c] = "gone"
    BY <1>0, <1>3 DEF Accept, ReadError, StrtokFirst, Leave, TypeOK
  <2> QED
    BY <2>1, <2>2, PlaceStays
<1>4. CASE Read(c)
  <2>1. Done(c)' = Done(c) /\ UNCHANGED <<asked, served, counter, admitted>>
    BY <1>0, <1>4, ReadClient DEF Read, clientVars, gateVars
  <2>2. th'[c] = Gate(counter[c])
    BY <1>0, <1>4 DEF Read, TypeOK
  <2>3. th'[c] # "gone" /\ (th'[c] \in {"serve", "second"} => counter[c] < Window)
    <3>1. counter[c] \in Nat /\ Window \in Nat
      BY <1>0, CalcAssumption DEF TypeOK
    <3> QED
      BY <2>2, <3>1 DEF Gate
  <2> QED
    BY <2>1, <2>3 DEF PlaceInv
<1>5. CASE ReadEof(c)
  <2>1. /\ UNCHANGED <<asked, pending, buffer, served, counter, admitted>>
        /\ th[c] = "read" /\ th'[c] = "gone"
    BY <1>0, <1>5 DEF ReadEof, clientVars, gateVars, loopVars, TypeOK
  <2>2. c \in admitted => counter[c] >= 1
    BY <1>0, <2>1 DEF ThreadInv
  <2>3. Done(c)' = Done(c)
    BY <2>1 DEF Done
  <2> QED
    BY <2>1, <2>2, <2>3 DEF PlaceInv
<1>6. CASE SemWait(c) \/ SemPost(c)
  <2>1. UNCHANGED <<asked, pending, buffer, served>> /\ th'[c] = "serve"
    BY <1>0, <1>6 DEF SemWait, SemPost, clientVars, loopVars, TypeOK
  <2>2. counter'[c] = 0
    <3>1. SemWait(c) => counter' = counter /\ counter[c] = 0
      BY <1>0 DEF SemWait, loopVars, ThreadInv
    <3>2. SemPost(c) => counter'[c] = 0
      BY <1>0 DEF SemPost, TypeOK
    <3> QED
      BY <1>6, <3>1, <3>2
  <2>3. Done(c)' = Done(c) /\ 0 < Window
    BY <2>1, CalcAssumption DEF Done
  <2> QED
    BY <2>1, <2>2, <2>3 DEF PlaceInv
<1>7. CASE ServeSilently(c) \/ ServeAnswer(c) \/ ServeLost(c) \/ ServeCrash(c)
  BY <1>0, <1>7, PlaceTurn DEF ServeSilently, ServeAnswer, ServeLost, ServeCrash
<1>8. CASE Send(c)
  <2>1. Done(c)' = Done(c) /\ Len(asked'[c]) = Len(asked[c]) + 1
    BY <1>0, <1>8, SendClient
  <2>2. UNCHANGED <<served, counter, th, admitted>> /\ Len(asked[c]) < MaxSent[c]
    BY <1>8 DEF Send, gateVars, loopVars
  <2>3. Len(asked[c]) \in Nat /\ MaxSent[c] \in Nat
    BY <1>0, CalcAssumption, StreamType DEF ClientInv
  <2>4. Len(asked'[c]) <= MaxSent[c]
    BY <2>1, <2>2, <2>3
  <2> QED
    BY <2>1, <2>2, <2>4 DEF PlaceInv
<1> QED
  BY <1>1, <1>2, <1>3, <1>4, <1>5, <1>6, <1>7, <1>8, NextCases

LEMMA UsedStep == GateInv /\ AnswerInv /\ UsedInv /\ [Next]_vars => UsedInv'
<1> SUFFICES ASSUME GateInv, AnswerInv, UsedInv, [Next]_vars
             PROVE  UsedInv'
  OBVIOUS
<1>1. WindowInv'
  BY WindowStep DEF UsedInv, GateInv
<1>2. \A c \in Clients : PlaceInv(c)'
  BY PlaceStep DEF UsedInv
<1> QED
  BY <1>1, <1>2 DEF UsedInv

(* Of a thread that will serve nothing more, the windows that count as     *)
(* used are those it posted a permit for.                                  *)
LEMMA UsedByFinished ==
    ASSUME TypeOK, NEW c \in Clients, NEW n \in Nat, ThreadInv(c), PlaceInv(c), ClientInv(c),
           c \in admitted => Finished(c),
           served[c] = Window * n + counter[c], counter[c] <= Window
    PROVE  {w \in 1 .. MaxSent[c] : served[c] > w * Window} = 1 .. n
<1>1. counter[c] \in Nat /\ served[c] \in Nat /\ Window \in Nat /\ Window >= 1 /\ MaxSent[c] \in Nat
  BY CalcAssumption DEF TypeOK
<1>2. served[c] <= MaxSent[c]
  <2>1. served[c] <= Done(c) /\ Len(asked[c]) <= MaxSent[c]
    BY DEF PlaceInv
  <2>2. Done(c) \in Nat /\ Done(c) <= Len(asked[c]) /\ Len(asked[c]) \in Nat
    BY StreamType DEF ClientInv
  <2> QED
    BY <1>1, <2>1, <2>2
<1>3. Window * n \in Nat /\ n <= Window * n
  BY <1>1
<1>4. CASE c \in admitted
  <2>1. counter[c] >= 1
    BY <1>4 DEF Finished, ThreadInv, PlaceInv
  <2>2. ASSUME NEW w \in Nat
        PROVE  served[c] > w * Window <=> w <= n
    <3>1. CASE w <= n
      <4>1. w * Window <= Window * n
        BY <1>1, <3>1
      <4>2. w * Window \in Nat
        BY <1>1
      <4> QED
        BY <1>1, <1>3, <2>1, <3>1, <4>1, <4>2
    <3>2. CASE w > n
      <4>1. w * Window >= (n + 1) * Window
        BY <1>1, <3>2
      <4>2. (n + 1) * Window = Window * n + Window /\ w * Window \in Nat
        BY <1>1
      <4> QED
        BY <1>1, <1>3, <3>2, <4>1, <4>2
    <3> QED
      BY <3>1, <3>2
  <2>3. n <= MaxSent[c]
    BY <1>1, <1>2, <1>3
  <2> QED
    BY <1>1, <2>2, <2>3
<1>5. CASE c \notin admitted
  <2>1. served[c] = 0
    BY <1>5 DEF ThreadInv
  <2>2. n = 0
    BY <1>1, <1>3, <2>1
  <2>3. \A w \in 1 .. MaxSent[c] : w * Window \in Nat
    BY <1>1
  <2> QED
    BY <2>1, <2>2, <2>3
<1> QED
  BY <1>4, <1>5

(* When all threads that were let through fall silent, every window used   *)
(* up has let some other client in or left a permit behind.                *)
WindowsAccounted ==
    (\A d \in admitted : Finished(d)) =>
        Cardinality(admitted) + mutex = 1 + Cardinality(UsedWindows)

(* The safety half of WaiterServed: who still waits when nobody will post  *)
(* any more does so because each window used up was given to another one,  *)
(* and no permit got lost on the way.                                      *)
THEOREM WindowsAccountedHolds == Spec => []WindowsAccounted
<1>1. Spec => []UsedInv
  BY UsedInit, UsedStep, GateCorrect, AnswersCorrect, PTL DEF Spec
<1>2. GateInv /\ AnswerInv /\ UsedInv => WindowsAccounted
  <2> SUFFICES ASSUME GateInv, AnswerInv, UsedInv, \A d \in admitted : Finished(d)
               PROVE  Cardinality(admitted) + mutex = 1 + Cardinality(UsedWindows)
    BY DEF WindowsAccounted
  <2>1. PICK k \in [Clients -> Nat] :
            /\ \A c \in Clients : served[c] = Window * k[c] + counter[c] /\ counter[c] <= Window
            /\ posts = Cardinality(Windows(k))
    BY DEF UsedInv, WindowInv
  <2>2. ASSUME NEW c \in Clients
        PROVE  {w \in 1 .. MaxSent[c] : served[c] > w * Window} = 1 .. k[c]
    BY <2>1, UsedByFinished DEF GateInv, AnswerInv, UsedInv
  <2>3. UsedWindows = Windows(k)
    BY <2>2 DEF UsedWindows, Windows
  <2> QED
    BY <2>1, <2>3 DEF GateInv, PermitAccounting
<1> QED
  BY <1>1, <1>2, GateCorrect, AnswersCorrect, PTL
=============================================================================
