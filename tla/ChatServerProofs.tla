------------------------- MODULE ChatServerProofs -------------------------
(***************************************************************************)
(* Proofs about ChatServer for any number of clients and slots, whatever   *)
(* the unwritten words of the table hold: no client is sent what it wrote  *)
(* itself, late threads serve only later clients, the client accepted last *)
(* is never the one without a thread, and the messages one thread reads    *)
(* from a client arrive in order.                                          *)
(***************************************************************************)
EXTENDS ChatServer, FiniteSetTheorems, SequenceTheorems, TLAPS

Running == {"read", "test", "write", "done"}

(* pthread_create has been called for thread k.                            *)
Created(k) ==
    \/ k < current_num
    \/ k = current_num /\ main \in {"accept", "spin"}

(* current_num counts the accepted clients, and client_fd is the last.     *)
OrderInv ==
    /\ Len(order) = current_num
    /\ \A m, n \in 1 .. current_num : order[m] = order[n] => m = n
    /\ main # "accept" => current_num > 0
    /\ current_num > 0 => client_fd = order[current_num]

(* What current_active, and a slot just stored, hold.  The slot behind the *)
(* table is current_active itself, so storing it changes both at once.     *)
TableInv ==
    /\ main = "active" => words[current_num - 1] = client_fd
    /\ main \in {"accept", "create", "spin"} /\ current_num > 0
          => words[MaxCon] = client_fd
    /\ main = "slot" /\ current_num > 1
          => words[MaxCon] = order[current_num - 1]
    /\ main = "active" /\ current_num > 1
          => words[MaxCon] \in {order[current_num - 1], order[current_num]}

(* A thread serves a client of its own turn or a later one, but none whose *)
(* slot is still to be stored; between the test and the write its slot     *)
(* never becomes that of its own client.                                   *)
ThreadInv(k) ==
    /\ pc[k] # "none" <=> Created(k)
    /\ pc[k] \in Running =>
          /\ \E n \in k .. current_num : order[n] = active[k]
          /\ main = "slot" => active[k] # client_fd
    /\ pc[k] = "write" => at[k] < current_num /\ words[at[k]] # active[k]
    /\ pc[k] \in {"test", "write"} =>
          \A m \in DOMAIN buffer[k] : buffer[k][m][1] = active[k]

ChatInv ==
    /\ TypeOK
    /\ OrderInv
    /\ TableInv
    /\ \A k \in Threads : ThreadInv(k)
    /\ NoEcho

LEMMA FunctionSeq ==
    ASSUME NEW S, NEW len \in Nat, NEW f \in [1 .. len -> S]
    PROVE  f \in Seq(S)
  BY SeqDef

(* Every element of a concatenation comes from one of its halves.          *)
LEMMA ConcatElement ==
    ASSUME NEW S, NEW s \in Seq(S), NEW t \in Seq(S), NEW m \in DOMAIN (s \o t)
    PROVE  \/ m \in DOMAIN s /\ (s \o t)[m] = s[m]
           \/ \E i \in DOMAIN t : (s \o t)[m] = t[i]
<1>1. Len(s) \in Nat /\ Len(t) \in Nat
  OBVIOUS
<1>2. m \in 1 .. Len(s) + Len(t)
  BY ConcatProperties
<1>3. (s \o t)[m] = IF m <= Len(s) THEN s[m] ELSE t[m - Len(s)]
  BY <1>2, ConcatProperties
<1>4. CASE m <= Len(s)
  BY <1>1, <1>2, <1>3, <1>4
<1>5. CASE ~(m <= Len(s))
  <2>1. m - Len(s) \in 1 .. Len(t)
    BY <1>1, <1>2, <1>5
  <2> QED
    BY <1>3, <1>5, <2>1
<1> QED
  BY <1>4, <1>5

(* Nothing from c in two sequences of messages, nothing in their sum.      *)
LEMMA ConcatNoEcho ==
    ASSUME NEW c, NEW s \in Seq(Message), NEW t \in Seq(Message),
           \A m \in DOMAIN s : s[m][1] # c,
           \A m \in DOMAIN t : t[m][1] # c
    PROVE  \A m \in DOMAIN (s \o t) : (s \o t)[m][1] # c
<1>1. ASSUME NEW m \in DOMAIN (s \o t) PROVE (s \o t)[m][1] # c
  <2>1. \/ m \in DOMAIN s /\ (s \o t)[m] = s[m]
        \/ \E i \in DOMAIN t : (s \o t)[m] = t[i]
    BY <1>1, ConcatElement
  <2> QED
    BY <2>1
<1> QED
  BY <1>1

LEMMA NextCases ==
    ASSUME Next
    PROVE  \/ StoreSlot \/ StoreActive \/ Create \/ AcceptFails
           \/ \E c \in Clients : Accept(c) \/ Send(c) \/ Leave(c)
           \/ \E k \in Threads :
                \/ Start(k) \/ Read(k) \/ ReadEnd(k) \/ Test(k)
                \/ EndBroadcast(k) \/ Write(k)
  BY DEF Next, Main, Handler

LEMMA ChatInit == Init => ChatInv
<1> SUFFICES ASSUME Init PROVE ChatInv
  OBVIOUS
<1>1. TypeOK
  BY ChatAssumption DEF Init, TypeOK, Slots, Threads, Nobody
<1>2. OrderInv /\ TableInv /\ NoEcho
  BY DEF Init, OrderInv, TableInv, NoEcho
<1>3. \A k \in Threads : ThreadInv(k)
  BY DEF Init, ThreadInv, Created, Running, Threads
<1> QED
  BY <1>1, <1>2, <1>3 DEF ChatInv

(* A thread that runs serves an accepted client.                           *)
LEMMA ActiveType ==
    ASSUME ChatInv, NEW k \in Threads, pc[k] \in Running
    PROVE  active[k] \in Clients
<1>1. PICK n \in k .. current_num : order[n] = active[k]
  BY DEF ChatInv, ThreadInv
<1>2. n \in 1 .. Len(order) /\ order \in Seq(Clients)
  BY <1>1 DEF ChatInv, OrderInv, TypeOK, Threads
<1> QED
  BY <1>1, <1>2

LEMMA AcceptStep ==
    ASSUME ChatInv, NEW c \in Clients, Accept(c)
    PROVE  ChatInv'
<1> USE DEF ChatInv
<1>1. /\ main = "accept" /\ main' = "slot" /\ client_fd' = c
      /\ current_num \in Nat /\ current_num' = current_num + 1
      /\ order' = Append(order, c) /\ order \in Seq(Clients)
      /\ Len(order) = current_num
      /\ UNCHANGED <<words, pc, active, at, buffer, got>>
  BY DEF Accept, threadVars, peerVars, TypeOK, OrderInv
<1>2. /\ Len(order') = current_num + 1 /\ order'[current_num + 1] = c
      /\ \A n \in 1 .. current_num : order'[n] = order[n] /\ order[n] # c
  BY <1>1 DEF Accept
<1>3. TypeOK'
  BY <1>1, ChatAssumption, SMTT(30) DEF Accept, threadVars, peerVars, TypeOK
<1>4. OrderInv'
  BY <1>1, <1>2 DEF OrderInv
<1>5. TableInv'
  BY <1>1, <1>2 DEF TableInv, OrderInv
<1>6. ASSUME NEW k \in Threads PROVE ThreadInv(k)'
  <2>1. k \in Nat
    BY ChatAssumption DEF Threads
  <2>2. Created(k)' <=> Created(k)
    BY <1>1, <2>1 DEF Created
  <2>3. ASSUME pc[k] \in Running
        PROVE  /\ \E n \in k .. current_num + 1 : order'[n] = active[k]
               /\ active[k] # c
    <3>1. PICK n \in k .. current_num : order[n] = active[k]
      BY <2>3 DEF ThreadInv
    <3>2. n \in 1 .. current_num /\ n \in k .. current_num + 1
      BY <1>1, <2>1, <3>1 DEF Threads
    <3> QED
      BY <1>2, <3>1, <3>2
  <2>4. pc[k] = "write" => at[k] < current_num + 1
    BY <1>1, ChatAssumption DEF ThreadInv, TypeOK
  <2> QED
    BY <1>1, <2>2, <2>3, <2>4 DEF ThreadInv
<1>7. NoEcho'
  BY <1>1 DEF NoEcho
<1> QED
  BY <1>3, <1>4, <1>5, <1>6, <1>7

LEMMA StoreSlotStep ==
    ASSUME ChatInv, StoreSlot
    PROVE  ChatInv'
<1> USE DEF ChatInv
<1>1. /\ main = "slot" /\ main' = "active"
      /\ words' = [words EXCEPT ![current_num - 1] = client_fd]
      /\ UNCHANGED <<client_fd, current_num, order, pc, active, at, buffer, got>>
      /\ current_num \in 1 .. MaxCon + 1 /\ current_num - 1 \in Slots
      /\ words \in [Slots -> Clients \cup {Junk}]
  BY ChatAssumption DEF StoreSlot, threadVars, peerVars, TypeOK, OrderInv, Slots
<1>2. TypeOK'
  BY <1>1, ChatAssumption DEF StoreSlot, threadVars, peerVars, TypeOK
<1>3. OrderInv'
  BY <1>1 DEF OrderInv
<1>4. TableInv'
  <2>1. words'[current_num - 1] = client_fd
    BY <1>1
  <2>2. MaxCon \in Slots /\ words'[MaxCon] \in {words[MaxCon], client_fd}
    BY <1>1, ChatAssumption DEF Slots
  <2> QED
    BY <1>1, <2>1, <2>2 DEF TableInv, OrderInv
<1>5. ASSUME NEW k \in Threads PROVE ThreadInv(k)'
  <2>1. Created(k)' <=> Created(k)
    BY <1>1 DEF Created
  <2>2. ASSUME pc[k] = "write" PROVE words'[at[k]] # active[k]
    <3>1. at[k] \in Slots
      BY <1>1, <2>2, ChatAssumption DEF ThreadInv, TypeOK, Slots
    <3>2. words'[at[k]] \in {words[at[k]], client_fd}
      BY <1>1, <3>1
    <3> QED
      BY <1>1, <2>2, <3>2 DEF ThreadInv, Running
  <2> QED
    BY <1>1, <2>1, <2>2 DEF ThreadInv
<1>6. NoEcho'
  BY <1>1 DEF NoEcho
<1> QED
  BY <1>2, <1>3, <1>4, <1>5, <1>6

LEMMA StoreActiveStep ==
    ASSUME ChatInv, StoreActive
    PROVE  ChatInv'
<1> USE DEF ChatInv
<1>1. /\ main = "active" /\ main' = "create"
      /\ words' = [words EXCEPT ![MaxCon] = client_fd]
      /\ UNCHANGED <<client_fd, current_num, order, pc, active, at, buffer, got>>
      /\ current_num \in 1 .. MaxCon + 1 /\ MaxCon \in Slots
      /\ words \in [Slots -> Clients \cup {Junk}]
  BY ChatAssumption DEF StoreActive, threadVars, peerVars, TypeOK, OrderInv, Slots
<1>2. TypeOK'
  BY <1>1, ChatAssumption DEF StoreActive, threadVars, peerVars, TypeOK
<1>3. OrderInv' /\ TableInv'
  BY <1>1 DEF OrderInv, TableInv
<1>4. ASSUME NEW k \in Threads PROVE ThreadInv(k)'
  <2>1. Created(k)' <=> Created(k)
    BY <1>1 DEF Created
  <2>2. ASSUME pc[k] = "write" PROVE words'[at[k]] # active[k]
    <3>1. at[k] \in Slots /\ at[k] < current_num /\ words[at[k]] # active[k]
      BY <1>1, <2>2, ChatAssumption DEF ThreadInv, TypeOK, Slots
    <3>2. CASE at[k] = MaxCon
      BY <1>1, <3>1, <3>2, ChatAssumption DEF TableInv
    <3>3. CASE at[k] # MaxCon
      BY <1>1, <3>1, <3>3
    <3> QED
      BY <3>2, <3>3
  <2> QED
    BY <1>1, <2>1, <2>2 DEF ThreadInv
<1>5. NoEcho'
  BY <1>1 DEF NoEcho
<1> QED
  BY <1>2, <1>3, <1>4, <1>5

LEMMA CreateStep ==
    ASSUME ChatInv, Create
    PROVE  ChatInv'
<1> USE DEF ChatInv
<1>1. PICK outcome \in {"start", "failed"} :
        pc' = [pc EXCEPT ![current_num] = outcome]
  BY DEF Create
<1>2. /\ main = "create" /\ main' \in {"spin", "accept"}
      /\ current_num \in 1 .. MaxCon + 1 /\ current_num \in Threads
      /\ UNCHANGED <<client_fd, current_num, words, order, active, at, buffer, got>>
  BY ChatAssumption DEF Create, peerVars, TypeOK, OrderInv, Threads
<1>3. TypeOK'
  BY <1>1, <1>2 DEF Create, peerVars, TypeOK
<1>4. OrderInv' /\ TableInv'
  BY <1>2 DEF OrderInv, TableInv
<1>5. ASSUME NEW k \in Threads PROVE ThreadInv(k)'
  <2>1. k \in Nat
    BY ChatAssumption DEF Threads, TypeOK
  <2>2. CASE k = current_num
    BY <1>1, <1>2, <2>2 DEF ThreadInv, Created, Running, TypeOK
  <2>3. CASE k # current_num
    BY <1>1, <1>2, <2>1, <2>3 DEF ThreadInv, Created, Running, TypeOK
  <2> QED
    BY <2>2, <2>3
<1>6. NoEcho'
  BY <1>2 DEF NoEcho
<1> QED
  BY <1>3, <1>4, <1>5, <1>6

(* A step of one thread leaves main's part and the other threads' alone.   *)
LEMMA ThreadStep ==
    ASSUME ChatInv, NEW k \in Threads, TypeOK', UNCHANGED mainVars,
           \A j \in Threads \ {k} :
              /\ pc'[j] = pc[j] /\ active'[j] = active[j]
              /\ at'[j] = at[j] /\ buffer'[j] = buffer[j],
           ThreadInv(k)', NoEcho'
    PROVE  ChatInv'
<1>1. UNCHANGED <<main, client_fd, current_num, words, order>>
  BY DEF mainVars
<1>2. OrderInv' /\ TableInv'
  BY <1>1 DEF ChatInv, OrderInv, TableInv
<1>3. ASSUME NEW j \in Threads \ {k} PROVE ThreadInv(j)'
  BY <1>1, <1>3 DEF ChatInv, ThreadInv, Created
<1> QED
  BY <1>2, <1>3 DEF ChatInv

LEMMA StartStep ==
    ASSUME ChatInv, NEW k \in Threads, Start(k)
    PROVE  ChatInv'
<1>1. /\ pc[k] = "start" /\ pc' = [pc EXCEPT ![k] = "read"]
      /\ active' = [active EXCEPT ![k] = words[MaxCon]]
      /\ UNCHANGED <<mainVars, at, buffer, got>>
      /\ UNCHANGED <<main, client_fd, current_num, words, order>>
  BY DEF Start, mainVars, peerVars
<1>2. /\ MaxCon \in Slots /\ k \in Nat /\ k >= 1 /\ current_num \in Nat
      /\ pc'[k] = "read" /\ active'[k] = words[MaxCon]
  BY <1>1, ChatAssumption DEF ChatInv, TypeOK, Slots, Threads
<1>3. TypeOK'
  BY <1>1, <1>2 DEF ChatInv, Start, mainVars, peerVars, TypeOK
<1>4. Created(k)
  BY <1>1 DEF ChatInv, ThreadInv
<1>5. /\ \E n \in k .. current_num : order[n] = words[MaxCon]
      /\ main = "slot" => words[MaxCon] # client_fd
  <2>1. current_num > 0
    BY <1>2, <1>4 DEF Created
  <2>2. CASE main \in {"accept", "create", "spin"}
    <3>1. words[MaxCon] = order[current_num] /\ current_num \in k .. current_num
      BY <1>2, <1>4, <2>1, <2>2 DEF ChatInv, TableInv, OrderInv, Created
    <3> QED
      BY <2>2, <3>1
  <2>3. CASE main \in {"slot", "active"}
    <3>1. current_num > 1 /\ current_num - 1 \in k .. current_num
                          /\ current_num \in k .. current_num
      BY <1>2, <1>4, <2>3 DEF Created
    <3>2. words[MaxCon] \in {order[current_num - 1], order[current_num]}
      BY <2>3, <3>1 DEF ChatInv, TableInv
    <3>3. main = "slot" => words[MaxCon] # client_fd
      BY <1>2, <3>1 DEF ChatInv, TableInv, OrderInv
    <3> QED
      BY <3>1, <3>2, <3>3
  <2> QED
    BY <2>2, <2>3 DEF ChatInv, TypeOK
<1>6. ThreadInv(k)'
  BY <1>1, <1>2, <1>4, <1>5 DEF ThreadInv, Created
<1>7. NoEcho'
  BY <1>1 DEF ChatInv, NoEcho
<1> QED
  BY <1>1, <1>3, <1>6, <1>7, ThreadStep DEF ChatInv, TypeOK

LEMMA ReadStep ==
    ASSUME ChatInv, NEW k \in Threads, Read(k)
    PROVE  ChatInv'
<1>1. PICK n \in taken[active[k]] + 1 .. sent[active[k]] :
        /\ buffer' = [buffer EXCEPT
             ![k] = [m \in 1 .. n - taken[active[k]] |->
                        <<active[k], taken[active[k]] + m>>]]
        /\ taken' = [taken EXCEPT ![active[k]] = n]
  BY DEF Read
<1>2. /\ pc[k] = "read" /\ pc' = [pc EXCEPT ![k] = "test"]
      /\ at' = [at EXCEPT ![k] = 0]
      /\ UNCHANGED <<mainVars, active, conn, sent, got, alive>>
      /\ UNCHANGED <<main, client_fd, current_num, words, order>>
  BY DEF Read, mainVars, peerVars
<1> DEFINE c == active[k]
           b == [m \in 1 .. n - taken[c] |-> <<c, taken[c] + m>>]
<1>3. c \in Clients
  BY <1>2, ActiveType DEF Running
<1>4. /\ taken[c] \in Nat /\ n \in Nat
      /\ n - taken[c] \in Nat
  BY <1>1, <1>3, ChatAssumption DEF ChatInv, TypeOK
<1>5. b \in Seq(Message)
  <2>1. ASSUME NEW m \in 1 .. n - taken[c] PROVE <<c, taken[c] + m>> \in Message
    <3>1. taken[c] + m \in Nat
      BY <1>4, <2>1
    <3> QED
      BY <1>3, <3>1 DEF Message
  <2>2. b \in [1 .. n - taken[c] -> Message]
    BY <2>1
  <2> QED
    BY <1>4, <2>2, FunctionSeq
<1>6. TypeOK'
  <2>1. buffer' \in [Threads -> Seq(Message)]
    BY <1>1, <1>5 DEF ChatInv, TypeOK
  <2>2. taken' \in [Clients -> Nat]
    BY <1>1, <1>3, <1>4 DEF ChatInv, TypeOK
  <2>3. /\ pc' \in [Threads -> {"none", "failed", "start", "read", "test",
                              "write", "done"}]
        /\ at' \in [Threads -> 0 .. MaxCon + 1]
    BY <1>2, ChatAssumption DEF ChatInv, TypeOK
  <2> QED
    BY <1>2, <2>1, <2>2, <2>3 DEF ChatInv, TypeOK
<1>7. ThreadInv(k)'
  <2>1. pc'[k] = "test" /\ buffer'[k] = b /\ active'[k] = c
    BY <1>1, <1>2 DEF ChatInv, TypeOK
  <2>2. \A m \in DOMAIN buffer'[k] : buffer'[k][m][1] = c
    BY <2>1
  <2> QED
    BY <1>2, <2>1, <2>2 DEF ChatInv, ThreadInv, Created, Running
<1>8. NoEcho'
  BY <1>2 DEF ChatInv, NoEcho
<1> QED
  BY <1>1, <1>2, <1>6, <1>7, <1>8, ThreadStep DEF ChatInv, TypeOK

(* The steps of a thread that change only where it stands.                 *)
LEMMA MoveStep ==
    ASSUME ChatInv, NEW k \in Threads, ReadEnd(k) \/ Test(k) \/ EndBroadcast(k)
    PROVE  ChatInv'
<1>1. /\ UNCHANGED <<alive, mainVars, active, buffer, conn, sent, taken, got>>
      /\ UNCHANGED <<main, client_fd, current_num, words, order>>
      /\ pc[k] \in {"read", "test"}
  BY DEF ReadEnd, Test, EndBroadcast, Advance, mainVars, peerVars
<1>2. /\ pc' = pc \/ \E s \in {"done", "write", "read"} : pc' = [pc EXCEPT ![k] = s]
      /\ at' = at \/ (at' = [at EXCEPT ![k] = at[k] + 1] /\ at[k] < current_num)
  BY DEF ReadEnd, Test, EndBroadcast, Advance, peerVars
<1>3. TypeOK'
  <2>1. pc' \in [Threads -> {"none", "failed", "start", "read", "test",
                           "write", "done"}]
    BY <1>2 DEF ChatInv, TypeOK
  <2>2. at' \in [Threads -> 0 .. MaxCon + 1]
    <3>1. /\ at \in [Threads -> 0 .. MaxCon + 1] /\ MaxCon \in Nat
          /\ current_num \in 0 .. MaxCon + 1
      BY ChatAssumption DEF ChatInv, TypeOK
    <3>2. at[k] < current_num => at[k] + 1 \in 0 .. MaxCon + 1
      BY <3>1
    <3> QED
      BY <1>2, <3>1, <3>2
  <2> QED
    BY <1>1, <2>1, <2>2 DEF ChatInv, TypeOK
<1>4. /\ pc'[k] = "write" => at[k] < current_num /\ words[at[k]] # active[k] /\ at' = at
                             /\ pc[k] = "test"
      /\ pc'[k] = "test" => pc[k] = "test"
      /\ pc'[k] \in Running
  BY <1>1 DEF ReadEnd, Test, EndBroadcast, Advance, peerVars, ChatInv, TypeOK, Running
<1>5. ThreadInv(k)'
  BY <1>1, <1>4 DEF ChatInv, ThreadInv, Created, Running
<1>6. NoEcho'
  BY <1>1 DEF ChatInv, NoEcho
<1> QED
  BY <1>1, <1>2, <1>3, <1>5, <1>6, ThreadStep DEF ChatInv, TypeOK

LEMMA WriteStep ==
    ASSUME ChatInv, NEW k \in Threads, Write(k)
    PROVE  ChatInv'
<1> DEFINE r == words[at[k]]
<1>1. /\ pc[k] = "write" /\ pc' = [pc EXCEPT ![k] = "test"]
      /\ at' = [at EXCEPT ![k] = at[k] + 1]
      /\ UNCHANGED <<mainVars, active, buffer, sent, taken>>
      /\ UNCHANGED <<main, client_fd, current_num, words, order>>
      /\ Deliver(r, buffer[k])
  BY DEF Write, Advance, mainVars, peerVars
<1>2. /\ at[k] < current_num /\ r # active[k]
      /\ \A m \in DOMAIN buffer[k] : buffer[k][m][1] = active[k]
  BY <1>1 DEF ChatInv, ThreadInv
<1>3. at[k] \in Slots /\ r \in Clients \cup {Junk} /\ buffer[k] \in Seq(Message)
  BY <1>2, ChatAssumption DEF ChatInv, TypeOK, Slots
<1>4. \/ got' = got
      \/ r \in Clients /\ got' = [got EXCEPT ![r] = got[r] \o buffer[k]]
  BY <1>1, <1>3 DEF Deliver
<1>5. TypeOK'
  <2>1. got' \in [Clients -> Seq(Message)]
    <3>1. CASE r \in Clients /\ got' = [got EXCEPT ![r] = got[r] \o buffer[k]]
      <4>1. got[r] \o buffer[k] \in Seq(Message)
        BY <1>3, <3>1, ConcatProperties DEF ChatInv, TypeOK
      <4> QED
        BY <3>1, <4>1 DEF ChatInv, TypeOK
    <3> QED
      BY <1>4, <3>1 DEF ChatInv, TypeOK
  <2>2. /\ alive' \in BOOLEAN
        /\ conn' \in [Clients -> {"open", "closed", "reset"}]
    BY <1>1, <1>3 DEF Deliver, ChatInv, TypeOK
  <2>3. /\ pc' \in [Threads -> {"none", "failed", "start", "read", "test",
                              "write", "done"}]
        /\ at' \in [Threads -> 0 .. MaxCon + 1]
    BY <1>1, <1>2, ChatAssumption DEF ChatInv, TypeOK
  <2> QED
    BY <1>1, <2>1, <2>2, <2>3 DEF ChatInv, TypeOK
<1>6. ThreadInv(k)'
  <2>1. pc'[k] = "test"
    BY <1>1 DEF ChatInv, TypeOK
  <2> QED
    BY <1>1, <1>2, <2>1 DEF ChatInv, ThreadInv, Created, Running
<1>7. NoEcho'
  <2>1. ASSUME NEW c \in Clients PROVE \A m \in DOMAIN got'[c] : got'[c][m][1] # c
    <3>1. got[c] \in Seq(Message) /\ \A m \in DOMAIN got[c] : got[c][m][1] # c
      BY DEF ChatInv, TypeOK, NoEcho
    <3>2. CASE got'[c] = got[c]
      BY <3>1, <3>2
    <3>3. CASE c = r /\ got'[c] = got[c] \o buffer[k]
      <4>1. \A m \in DOMAIN buffer[k] : buffer[k][m][1] # c
        BY <1>2, <3>3
      <4>2. buffer[k] \in Seq(Message)
        BY <1>3
      <4>3. \A m \in DOMAIN (got[c] \o buffer[k]) : (got[c] \o buffer[k])[m][1] # c
        BY <3>1, <4>1, <4>2, ConcatNoEcho
      <4> QED
        BY <3>3, <4>3
    <3> QED
      BY <1>4, <3>2, <3>3 DEF ChatInv, TypeOK
  <2> QED
    BY <2>1 DEF NoEcho
<1> QED
  BY <1>1, <1>5, <1>6, <1>7, ThreadStep DEF ChatInv, TypeOK

(* What the clients and the passing of time leave alone.                   *)
LEMMA OutsideStep ==
    ASSUME ChatInv, TypeOK', UNCHANGED <<mainVars, threadVars, got>>
    PROVE  ChatInv'
<1>1. UNCHANGED <<main, client_fd, current_num, words, order, pc, active, at,
                  buffer, got>>
  BY DEF mainVars, threadVars
<1> QED
  BY <1>1 DEF ChatInv, OrderInv, TableInv, ThreadInv, Created, NoEcho

LEMMA ChatStep == ChatInv /\ [Next]_vars => ChatInv'
<1> SUFFICES ASSUME ChatInv, [Next]_vars
             PROVE  ChatInv'
  OBVIOUS
<1>1. ASSUME NEW c \in Clients, Send(c) PROVE ChatInv'
  <2>1. TypeOK'
    BY <1>1, ChatAssumption DEF Send, mainVars, peerVars, threadVars, ChatInv, TypeOK
  <2> QED
    BY <1>1, <2>1, OutsideStep DEF Send
<1>2. ASSUME NEW c \in Clients, Leave(c) PROVE ChatInv'
  <2>1. TypeOK'
    BY <1>2 DEF Leave, mainVars, peerVars, threadVars, ChatInv, TypeOK
  <2> QED
    BY <1>2, <2>1, OutsideStep DEF Leave
<1>3. CASE UNCHANGED vars
  <2>1. TypeOK'
    BY <1>3 DEF vars, mainVars, peerVars, threadVars, ChatInv, TypeOK
  <2> QED
    BY <1>3, <2>1, OutsideStep DEF vars, peerVars
<1>4. CASE AcceptFails
  <2>1. TypeOK'
    BY <1>4 DEF AcceptFails, mainVars, peerVars, threadVars, ChatInv, TypeOK
  <2> QED
    BY <1>4, <2>1, OutsideStep DEF AcceptFails, peerVars
<1> QED
  BY <1>1, <1>2, <1>3, <1>4, NextCases, AcceptStep, StoreSlotStep, StoreActiveStep,
     CreateStep, StartStep, ReadStep, MoveStep, WriteStep

THEOREM ChatCorrect == Spec => []ChatInv
  BY ChatInit, ChatStep, PTL DEF Spec

(* Every variable keeps its type; so does the index into the table, which  *)
(* goes one word beyond it and no further.                                 *)
THEOREM TypeCorrect == Spec => []TypeOK
<1>1. ChatInv => TypeOK
  BY DEF ChatInv
<1> QED
  BY <1>1, ChatCorrect, PTL

(* No client is ever sent its own message.                                 *)
THEOREM NoEchoHolds == Spec => []NoEcho
<1>1. ChatInv => NoEcho
  BY DEF ChatInv
<1> QED
  BY <1>1, ChatCorrect, PTL

(* Whatever a late thread finds, it is a client accepted after its own.    *)
THEOREM LateBindingHolds == Spec => []LateBinding
<1>1. ChatInv => LateBinding
  <2> SUFFICES ASSUME ChatInv, NEW k \in Threads, pc[k] \in Running
               PROVE  \E n \in DOMAIN order : n >= k /\ order[n] = active[k]
    BY DEF LateBinding, Running
  <2>1. PICK n \in k .. current_num : order[n] = active[k]
    BY DEF ChatInv, ThreadInv
  <2>2. n \in DOMAIN order /\ n >= k
    BY <2>1 DEF ChatInv, OrderInv, TypeOK, Threads
  <2> QED
    BY <2>1, <2>2
<1> QED
  BY <1>1, ChatCorrect, PTL

(* The client accepted last is served, or about to be.                     *)
THEOREM NewestServedHolds == Spec => []NewestServed
<1>1. ChatInv => NewestServed
  <2> SUFFICES ASSUME ChatInv, main \in {"accept", "spin"}, order # <<>>,
                      pc[Len(order)] # "failed"
               PROVE  LET k == Len(order)
                      IN  IF pc[k] = "start" THEN words[MaxCon] = order[k]
                                             ELSE active[k] = order[k]
    BY DEF NewestServed
  <2> DEFINE k == Len(order)
  <2>1. k = current_num /\ k \in Threads /\ k \in Nat /\ k > 0
    BY ChatAssumption DEF ChatInv, OrderInv, TypeOK, Threads
  <2>2. CASE pc[k] = "start"
    BY <2>1, <2>2 DEF ChatInv, TableInv, OrderInv
  <2>3. CASE pc[k] # "start"
    <3>1. pc[k] \in Running
      BY <2>1, <2>3 DEF ChatInv, ThreadInv, Created, TypeOK, Running
    <3>2. \E n \in k .. k : order[n] = active[k]
      BY <2>1, <3>1 DEF ChatInv, ThreadInv
    <3> QED
      BY <2>1, <2>3, <3>2
  <2> QED
    BY <2>2, <2>3
<1> QED
  BY <1>1, ChatCorrect, PTL
-----------------------------------------------------------------------------
(* As long as no client too many was accepted, the slots filled so far     *)
(* hold the clients in the order they came, and the others what they held  *)
(* before.                                                                 *)
Filled(i) == i < current_num /\ ~(i = current_num - 1 /\ main = "slot")

SlotInv ==
    \A i \in 0 .. MaxCon - 1 :
        IF Filled(i) THEN words[i] = order[i + 1] ELSE words[i] \in Garbage

Alone(s) == \A j, k \in Servers(s) : j = k

(* What r was sent of s: nothing beyond n; in order.                       *)
UpTo(s, r, n) == \A m \in DOMAIN got[r] : got[r][m][1] = s => got[r][m][2] <= n

Sorted(s, r) ==
    \A m, n \in DOMAIN got[r] :
        m < n /\ got[r][m][1] = s /\ got[r][n][1] = s => got[r][m][2] < got[r][n][2]

(* The thread holds the messages of s that were read last.                 *)
Holds(k, s) ==
    /\ Len(buffer[k]) <= taken[s]
    /\ \A m \in 1 .. Len(buffer[k]) :
          buffer[k][m] = <<s, taken[s] - Len(buffer[k]) + m>>

(* The broadcast has not come by a slot that holds r.                      *)
ToCome(k, r) == \A i \in 0 .. MaxCon - 1 : i < at[k] => words[i] # r

(* The clients whose descriptor stands in no unwritten word.               *)
Clear == Clients \ Garbage

SentInv(s) ==
    Alone(s) =>
        /\ \A r \in Clear : UpTo(s, r, taken[s]) /\ Sorted(s, r)
        /\ \A k \in Servers(s) : pc[k] \in {"test", "write"} =>
              /\ Holds(k, s)
              /\ \A r \in Clear :
                    ToCome(k, r) => UpTo(s, r, taken[s] - Len(buffer[k]))

(* A thread that has not looked at the table serves nobody.                *)
IdleInv == \A k \in Threads : pc[k] \in {"none", "failed", "start"} => active[k] = Junk

CastInv ==
    /\ IdleInv
    /\ current_num <= MaxCon => SlotInv /\ \A s \in Clients : SentInv(s)

Casting == {"test", "write"}

LEMMA ServersAre ==
    ASSUME IdleInv, NEW s \in Clients
    PROVE  Servers(s) = {k \in Threads : active[k] = s}
  BY ChatAssumption DEF IdleInv, Servers

LEMMA CastInit == Init => CastInv
<1> SUFFICES ASSUME Init PROVE CastInv
  OBVIOUS
<1>1. IdleInv
  BY DEF Init, IdleInv
<1>2. SlotInv
  BY ChatAssumption DEF Init, SlotInv, Filled, Slots
<1>3. ASSUME NEW s \in Clients PROVE SentInv(s)
  <2>1. \A r \in Clear : UpTo(s, r, taken[s]) /\ Sorted(s, r)
    BY DEF Init, UpTo, Sorted, Clear
  <2>2. \A k \in Servers(s) : pc[k] \notin {"test", "write"}
    BY DEF Init, Servers
  <2> QED
    BY <2>1, <2>2 DEF SentInv
<1> QED
  BY <1>1, <1>2, <1>3 DEF CastInv

LEMMA IdleStep == ChatInv /\ IdleInv /\ [Next]_vars => IdleInv'
<1> SUFFICES ASSUME ChatInv, IdleInv, [Next]_vars PROVE IdleInv'
  OBVIOUS
<1>1. CASE UNCHANGED <<pc, active>>
  BY <1>1 DEF IdleInv
<1>2. CASE Create
  <2>1. UNCHANGED active /\ pc[current_num] = "none" /\ current_num \in Threads
    BY <1>2, ChatAssumption
       DEF Create, ChatInv, OrderInv, TypeOK, ThreadInv, Created, Threads
  <2>2. \A k \in Threads : k # current_num => pc'[k] = pc[k]
    BY <1>2 DEF Create, ChatInv, TypeOK
  <2> QED
    BY <2>1, <2>2 DEF IdleInv
<1>3. ASSUME NEW k \in Threads, pc'[k] \in Running, 
             \A j \in Threads : j # k => pc'[j] = pc[j] /\ active'[j] = active[j]
      PROVE  IdleInv'
  BY <1>3 DEF IdleInv, Running
<1>4. ASSUME NEW k \in Threads,
             \/ Start(k) \/ Read(k) \/ ReadEnd(k) \/ Test(k) \/ EndBroadcast(k) \/ Write(k)
      PROVE  IdleInv'
  <2>1. pc'[k] \in Running
    BY <1>4 DEF Start, Read, ReadEnd, Test, EndBroadcast, Write, Running, ChatInv, TypeOK
  <2>2. \A j \in Threads : j # k => pc'[j] = pc[j] /\ active'[j] = active[j]
    BY <1>4 DEF Start, Read, ReadEnd, Test, EndBroadcast, Write, ChatInv, TypeOK
  <2> QED
    BY <1>3, <2>1, <2>2
<1> QED
  BY <1>1, <1>2, <1>4, NextCases
     DEF StoreSlot, StoreActive, Accept, AcceptFails, Send, Leave, vars, threadVars

(* A step that neither reads nor delivers: no thread begins to broadcast,  *)
(* and what a broadcast has come by it still has.                          *)
LEMMA FrameStep ==
    ASSUME IdleInv, IdleInv', NEW s \in Clients, SentInv(s),
           UNCHANGED <<got, taken, buffer>>,
           \A k \in Threads : active[k] = s => active'[k] = s,
           \A k \in Threads :
              pc'[k] \in Casting /\ active'[k] = s => pc[k] \in Casting /\ active[k] = s,
           \A k \in Threads : \A r \in Clear :
              pc'[k] \in Casting /\ ToCome(k, r)' => ToCome(k, r)
    PROVE  SentInv(s)'
<1>1. Servers(s) = {k \in Threads : active[k] = s}
  BY ServersAre
<1>2. Servers(s)' = {k \in Threads : active'[k] = s}
  BY ChatAssumption DEF IdleInv, Servers
<1> SUFFICES ASSUME Alone(s)'
             PROVE  /\ \A r \in Clear : UpTo(s, r, taken[s])' /\ Sorted(s, r)'
                    /\ \A k \in Servers(s)' : pc'[k] \in {"test", "write"} =>
                          /\ Holds(k, s)'
                          /\ \A r \in Clear :
                                ToCome(k, r)' => UpTo(s, r, taken[s] - Len(buffer[k]))'
  BY DEF SentInv, Clear
<1>3. Alone(s)
  BY <1>1, <1>2 DEF Alone
<1>4. \A r \in Clear : UpTo(s, r, taken[s])' /\ Sorted(s, r)'
  BY <1>3 DEF SentInv, UpTo, Sorted
<1>5. ASSUME NEW k \in Servers(s)', pc'[k] \in {"test", "write"}
      PROVE  /\ Holds(k, s)'
             /\ \A r \in Clear :
                   ToCome(k, r)' => UpTo(s, r, taken[s] - Len(buffer[k]))'
  <2>1. k \in Servers(s) /\ k \in Threads /\ pc[k] \in {"test", "write"} /\ pc'[k] \in Casting
    BY <1>1, <1>2, <1>5 DEF Casting
  <2>2. /\ Holds(k, s)
        /\ \A r \in Clear : ToCome(k, r) => UpTo(s, r, taken[s] - Len(buffer[k]))
    BY <1>3, <2>1 DEF SentInv
  <2> QED
    BY <2>1, <2>2 DEF Holds, UpTo
<1> QED
  BY <1>4, <1>5

LEMMA SlotStep ==
    ASSUME ChatInv, current_num <= MaxCon, SlotInv, [Next]_vars
    PROVE  SlotInv'
<1>0. MaxCon \in Nat /\ current_num \in Nat /\ words \in [Slots -> Clients \cup {Junk}]
  BY ChatAssumption DEF ChatInv, TypeOK
<1>1. CASE UNCHANGED <<words, order, current_num, main>>
  BY <1>1 DEF SlotInv, Filled
<1>2. ASSUME NEW c \in Clients, Accept(c) PROVE SlotInv'
  <2>1. /\ main = "accept" /\ main' = "slot" /\ current_num' = current_num + 1
        /\ order' = Append(order, c) /\ order \in Seq(Clients) /\ Len(order) = current_num
        /\ words' = words
    BY <1>2 DEF Accept, ChatInv, TypeOK, OrderInv
  <2>2. \A i \in 0 .. MaxCon - 1 : Filled(i)' <=> i < current_num
    BY <1>0, <2>1 DEF Filled
  <2>3. \A i \in 0 .. MaxCon - 1 : Filled(i) <=> i < current_num
    BY <1>0, <2>1 DEF Filled
  <2>4. \A i \in 0 .. MaxCon - 1 : i < current_num => order'[i + 1] = order[i + 1]
    BY <1>0, <2>1
  <2> QED
    BY <2>1, <2>2, <2>3, <2>4 DEF SlotInv
<1>3. CASE StoreSlot
  <2>1. /\ main = "slot" /\ main' = "active" /\ current_num' = current_num
        /\ order' = order /\ current_num > 0 /\ client_fd = order[current_num]
        /\ words' = [words EXCEPT ![current_num - 1] = client_fd]
    BY <1>3 DEF StoreSlot, ChatInv, OrderInv
  <2>2. ASSUME NEW i \in 0 .. MaxCon - 1
        PROVE  IF Filled(i)' THEN words'[i] = order[i + 1] ELSE words'[i] \in Garbage
    <3>1. i \in Slots /\ current_num - 1 \in Slots
      BY <1>0, <2>1 DEF Slots
    <3>2. CASE i = current_num - 1
      BY <1>0, <2>1, <3>1, <3>2 DEF Filled
    <3>3. CASE i # current_num - 1
      <4>1. words'[i] = words[i]
        BY <1>0, <2>1, <3>1, <3>3
      <4>2. Filled(i)' <=> Filled(i)
        BY <2>1, <3>3 DEF Filled
      <4> QED
        BY <4>1, <4>2 DEF SlotInv
    <3> QED
      BY <3>2, <3>3
  <2> QED
    BY <2>1, <2>2 DEF SlotInv
<1>4. CASE StoreActive
  <2>1. /\ main = "active" /\ main' = "create" /\ UNCHANGED <<current_num, order>>
        /\ words' = [words EXCEPT ![MaxCon] = client_fd]
    BY <1>4 DEF StoreActive
  <2>2. \A i \in 0 .. MaxCon - 1 : words'[i] = words[i]
    BY <1>0, <2>1 DEF Slots
  <2> QED
    BY <2>1, <2>2 DEF SlotInv, Filled
<1>5. CASE Create
  <2>1. main = "create" /\ main' # "slot" /\ UNCHANGED <<current_num, order, words>>
    BY <1>5 DEF Create
  <2> QED
    BY <2>1 DEF SlotInv, Filled
<1> QED
  BY <1>1, <1>2, <1>3, <1>4, <1>5, NextCases
     DEF vars, mainVars, AcceptFails, Send, Leave, Start, Read, ReadEnd, Test,
         EndBroadcast, Write

(* Storing a slot hides no client from a broadcast that it has not passed. *)
LEMMA StillToCome ==
    ASSUME ChatInv, current_num <= MaxCon, SlotInv, [Next]_vars,
           NEW k \in Threads, NEW r \in Clear, ToCome(k, r)', at[k] <= at'[k]
    PROVE  ToCome(k, r)
<1>0. /\ MaxCon \in Nat /\ current_num \in Nat /\ words \in [Slots -> Clients \cup {Junk}]
      /\ at[k] \in Nat /\ at'[k] \in Nat
  <2>1. at \in [Threads -> 0 .. MaxCon + 1] /\ at' \in [Threads -> 0 .. MaxCon + 1]
    BY ChatStep DEF ChatInv, TypeOK
  <2> QED
    BY <2>1, ChatAssumption DEF ChatInv, TypeOK
<1>1. \A i \in 0 .. MaxCon - 1 : words'[i] = words[i] \/ words[i] \in Garbage
  <2>1. CASE UNCHANGED words
    BY <2>1
  <2>2. CASE StoreSlot
    <3>1. /\ main = "slot" /\ words' = [words EXCEPT ![current_num - 1] = client_fd]
      BY <2>2 DEF StoreSlot
    <3>2. ASSUME NEW i \in 0 .. MaxCon - 1, i = current_num - 1 PROVE words[i] \in Garbage
      BY <3>1, <3>2 DEF SlotInv, Filled
    <3> QED
      BY <1>0, <3>1, <3>2 DEF Slots
  <2>3. CASE StoreActive
    BY <1>0, <2>3 DEF StoreActive, Slots
  <2> QED
    BY <2>1, <2>2, <2>3, NextCases
       DEF vars, mainVars, Accept, AcceptFails, Create, Send, Leave, Start, Read, ReadEnd, Test,
           EndBroadcast, Write
<1> QED
  BY <1>0, <1>1 DEF ToCome, Clear

(* The slot of a client is one.                                            *)
LEMMA OneSlot ==
    ASSUME ChatInv, current_num <= MaxCon, SlotInv, NEW r \in Clear,
           NEW i \in 0 .. MaxCon - 1, NEW j \in 0 .. MaxCon - 1,
           words[i] = r, words[j] = r
    PROVE  i = j
<1>1. Filled(i) /\ Filled(j) /\ order[i + 1] = r /\ order[j + 1] = r
  BY DEF SlotInv, Clear
<1>2. i + 1 \in 1 .. current_num /\ j + 1 \in 1 .. current_num
  <2>1. MaxCon \in Nat /\ current_num \in Nat /\ i < current_num /\ j < current_num
    BY <1>1, ChatAssumption DEF Filled, ChatInv, TypeOK
  <2> QED
    BY <2>1
<1>3. i + 1 = j + 1
  BY <1>1, <1>2 DEF ChatInv, OrderInv
<1> QED
  BY <1>3, ChatAssumption

LEMMA ReadCast ==
    ASSUME ChatInv, IdleInv, IdleInv', NEW k \in Threads, Read(k),
           NEW s \in Clients, SentInv(s)
    PROVE  SentInv(s)'
<1> DEFINE c == active[k]
<1>1. PICK n \in taken[c] + 1 .. sent[c] :
        /\ buffer' = [buffer EXCEPT ![k] = [m \in 1 .. n - taken[c] |-> <<c, taken[c] + m>>]]
        /\ taken' = [taken EXCEPT ![c] = n]
  BY DEF Read
<1>2. /\ pc[k] = "read" /\ pc' = [pc EXCEPT ![k] = "test"]
      /\ at' = [at EXCEPT ![k] = 0] /\ UNCHANGED <<active, got, words>>
  BY DEF Read, mainVars
<1>3. c \in Clients
  BY <1>2, ActiveType DEF Running
<1>4. taken[c] \in Nat /\ sent[c] \in Nat /\ n \in Nat /\ n > taken[c]
  BY <1>1, <1>3, ChatAssumption DEF ChatInv, TypeOK
<1>5. Servers(s) = {j \in Threads : active[j] = s} /\ Servers(s)' = {j \in Threads : active[j] = s}
  BY <1>2, ChatAssumption DEF IdleInv, Servers
<1>6. Alone(s)' => Alone(s)
  BY <1>5 DEF Alone
<1>7. CASE c # s
  <2>1. taken'[s] = taken[s]
    BY <1>1, <1>7 DEF ChatInv, TypeOK
  <2>2. ASSUME NEW j \in Servers(s)
        PROVE  pc'[j] = pc[j] /\ at'[j] = at[j] /\ buffer'[j] = buffer[j]
    BY <1>1, <1>2, <1>5, <1>7, <2>2 DEF ChatInv, TypeOK
  <2>3. ASSUME Alone(s) PROVE \A r \in Clear : UpTo(s, r, taken[s])' /\ Sorted(s, r)'
    BY <1>2, <2>1, <2>3 DEF SentInv, UpTo, Sorted
  <2>4. ASSUME Alone(s), NEW j \in Servers(s), pc[j] \in {"test", "write"}
        PROVE  /\ Holds(j, s)'
               /\ \A r \in Clear :
                     ToCome(j, r)' => UpTo(s, r, taken[s] - Len(buffer[j]))'
    <3>1. /\ Holds(j, s)
          /\ \A r \in Clear : ToCome(j, r) => UpTo(s, r, taken[s] - Len(buffer[j]))
      BY <2>4 DEF SentInv
    <3> QED
      BY <1>2, <2>1, <2>2, <3>1 DEF Holds, UpTo, ToCome
  <2> QED
    BY <1>5, <1>6, <2>2, <2>3, <2>4 DEF SentInv, Clear
<1>8. CASE c = s
  <2>1. taken'[s] = n
    BY <1>1, <1>3, <1>8 DEF ChatInv, TypeOK
  <2>2. buffer'[k] = [m \in 1 .. n - taken[s] |-> <<s, taken[s] + m>>]
    BY <1>1, <1>8 DEF ChatInv, TypeOK
  <2>3. Len(buffer'[k]) = n - taken[s] /\ taken'[s] - Len(buffer'[k]) = taken[s]
    BY <1>4, <1>8, <2>1, <2>2
  <2>4. ASSUME NEW r \in Clear, UpTo(s, r, taken[s])
        PROVE  UpTo(s, r, taken[s])' /\ UpTo(s, r, taken[s] - Len(buffer[k]))'
    <3>1. \A m \in DOMAIN got[r] : got[r][m][2] \in Nat
      BY <2>4 DEF ChatInv, TypeOK, Message, Clear
    <3>2. \A m \in DOMAIN got[r] : got[r][m][1] = s => got[r][m][2] <= taken[s]
      BY <2>4 DEF UpTo
    <3>3. \A m \in DOMAIN got[r] : got[r][m][1] = s => got[r][m][2] <= n
      BY <1>4, <1>8, <3>1, <3>2
    <3> QED
      BY <1>2, <2>1, <2>3, <3>2, <3>3 DEF UpTo
  <2>5. Holds(k, s)'
    <3>1. \A m \in 1 .. n - taken[s] : buffer'[k][m] = <<s, taken[s] + m>>
      BY <2>2
    <3> QED
      BY <1>4, <1>8, <2>1, <2>3, <3>1 DEF Holds
  <2>6. ASSUME Alone(s)' PROVE \A j \in Servers(s)' : j = k
    BY <1>5, <1>8, <2>6 DEF Alone
  <2>7. \A r \in Clear : Sorted(s, r)' <=> Sorted(s, r)
    BY <1>2 DEF Sorted
  <2> QED
    BY <1>6, <2>4, <2>5, <2>6, <2>7 DEF SentInv, Clear
<1> QED
  BY <1>7, <1>8

(* Messages of s behind older ones of s: the order holds.                  *)
LEMMA MoreInOrder ==
    ASSUME NEW s, NEW n \in Nat, NEW old \in Seq(Message), NEW new \in Seq(Message),
           Len(new) <= n,
           \A m \in 1 .. Len(new) : new[m] = <<s, n - Len(new) + m>>,
           \A i \in DOMAIN old : old[i][1] = s => old[i][2] <= n - Len(new),
           \A i, j \in DOMAIN old :
              i < j /\ old[i][1] = s /\ old[j][1] = s => old[i][2] < old[j][2]
    PROVE  LET all == old \o new
           IN  /\ \A i \in DOMAIN all : all[i][1] = s => all[i][2] <= n
               /\ \A i, j \in DOMAIN all :
                     i < j /\ all[i][1] = s /\ all[j][1] = s => all[i][2] < all[j][2]
<1> DEFINE p == Len(old)
           q == Len(new)
           all == old \o new
<1>1. /\ p \in Nat /\ q \in Nat /\ DOMAIN old = 1 .. p /\ DOMAIN all = 1 .. p + q
      /\ \A i \in 1 .. p : all[i] = old[i] /\ old[i][2] \in Nat
      /\ \A i \in 1 .. p + q : i > p => all[i] = new[i - p]
  <2>1. /\ Len(all) = p + q /\ all \in Seq(Message)
        /\ \A i \in 1 .. p + q : all[i] = IF i <= p THEN old[i] ELSE new[i - p]
    BY ConcatProperties
  <2>2. \A i \in 1 .. p : old[i] \in Message
    OBVIOUS
  <2> QED
    BY <2>1, <2>2 DEF Message
<1>2. \A i \in 1 .. q : new[i] = <<s, n - q + i>>
  OBVIOUS
<1>3. \A i \in 1 .. p : old[i][1] = s => old[i][2] <= n - q
  BY <1>1
<1>4. \A i, j \in 1 .. p :
         i < j /\ old[i][1] = s /\ old[j][1] = s => old[i][2] < old[j][2]
  BY <1>1
<1>5. q <= n
  OBVIOUS
<1> HIDE DEF p, q, all
<1>6. ASSUME NEW i \in 1 .. p + q, i > p
      PROVE  i - p \in 1 .. q /\ all[i] = <<s, n - q + (i - p)>>
  <2>1. i - p \in 1 .. q
    BY <1>1, <1>6
  <2> QED
    BY <1>1, <1>2, <1>6, <2>1
<1>7. ASSUME NEW i \in 1 .. p + q, all[i][1] = s PROVE all[i][2] <= n
  <2>1. CASE i <= p
    <3>1. all[i] = old[i] /\ old[i][2] \in Nat /\ old[i][2] <= n - q
      BY <1>1, <1>3, <1>7, <2>1
    <3> QED
      BY <1>1, <1>5, <3>1
  <2>2. CASE i > p
    BY <1>1, <1>5, <1>6, <2>2
  <2> QED
    BY <1>1, <2>1, <2>2
<1>8. ASSUME NEW i \in 1 .. p + q, NEW j \in 1 .. p + q, i < j,
             all[i][1] = s, all[j][1] = s
      PROVE  all[i][2] < all[j][2]
  <2>1. CASE j <= p
    <3>1. i \in 1 .. p /\ j \in 1 .. p
      BY <1>1, <1>8, <2>1
    <3> QED
      BY <1>1, <1>4, <1>8, <3>1
  <2>2. CASE i <= p /\ j > p
    <3>1. all[i][2] \in Nat /\ all[i][2] <= n - q
      BY <1>1, <1>3, <1>8, <2>2
    <3>2. all[j][2] = n - q + (j - p)
      BY <1>6, <2>2
    <3> QED
      BY <1>1, <1>5, <2>2, <3>1, <3>2
  <2>3. CASE i > p
    <3>1. all[i][2] = n - q + (i - p) /\ all[j][2] = n - q + (j - p)
      BY <1>1, <1>6, <1>8, <2>3
    <3> QED
      BY <1>1, <1>5, <1>8, <3>1
  <2> QED
    BY <1>1, <2>1, <2>2, <2>3
<1> QED
  BY <1>1, <1>7, <1>8 DEF all

(* Messages of others do not matter.                                       *)
LEMMA OthersInOrder ==
    ASSUME NEW s, NEW old \in Seq(Message), NEW new \in Seq(Message),
           \A m \in DOMAIN new : new[m][1] # s
    PROVE  \A i \in DOMAIN (old \o new) :
              (old \o new)[i][1] = s => i \in DOMAIN old /\ (old \o new)[i] = old[i]
  BY ConcatElement

LEMMA WriteCast ==
    ASSUME ChatInv, IdleInv, IdleInv', current_num <= MaxCon, SlotInv,
           NEW k \in Threads, Write(k), NEW s \in Clients, SentInv(s)
    PROVE  SentInv(s)'
<1> DEFINE w == words[at[k]]
<1>1. /\ pc[k] = "write" /\ pc' = [pc EXCEPT ![k] = "test"]
      /\ at' = [at EXCEPT ![k] = at[k] + 1]
      /\ UNCHANGED <<active, buffer, taken, words>>
      /\ Deliver(w, buffer[k])
  BY DEF Write, Advance, mainVars
<1>2. /\ MaxCon \in Nat /\ current_num \in Nat /\ at[k] \in Nat /\ at[k] < current_num
      /\ at[k] \in 0 .. MaxCon - 1
      /\ \A m \in DOMAIN buffer[k] : buffer[k][m][1] = active[k]
  <2>1. at[k] \in 0 .. MaxCon + 1 /\ current_num \in Nat /\ MaxCon \in Nat
    BY ChatAssumption DEF ChatInv, TypeOK
  <2> QED
    BY <1>1, <2>1 DEF ChatInv, ThreadInv
<1>3. /\ w \in Clients \cup {Junk} /\ buffer[k] \in Seq(Message)
      /\ taken[s] \in Nat /\ got \in [Clients -> Seq(Message)]
  BY <1>2 DEF ChatInv, TypeOK, Slots
<1>4. ASSUME NEW r \in Clients
      PROVE  got'[r] = got[r] \/ (r = w /\ got'[r] = got[r] \o buffer[k])
  <2>1. \/ got' = got
        \/ w \in Clients /\ got' = [got EXCEPT ![w] = got[w] \o buffer[k]]
    BY <1>1, <1>3 DEF Deliver
  <2> QED
    BY <1>3, <2>1
<1>5. Servers(s) = {j \in Threads : active[j] = s} /\ Servers(s)' = {j \in Threads : active[j] = s}
  BY <1>1, ChatAssumption DEF IdleInv, Servers
<1> SUFFICES ASSUME Alone(s)'
             PROVE  /\ \A r \in Clear : UpTo(s, r, taken[s])' /\ Sorted(s, r)'
                    /\ \A j \in Servers(s) : pc'[j] \in {"test", "write"} =>
                          /\ Holds(j, s)'
                          /\ \A r \in Clear :
                                ToCome(j, r)' => UpTo(s, r, taken[s] - Len(buffer[j]))'
  BY <1>5 DEF SentInv, Clear
<1>6. Alone(s)
  BY <1>5 DEF Alone
<1>7. \A r \in Clear : UpTo(s, r, taken[s]) /\ Sorted(s, r)
  BY <1>6 DEF SentInv
<1>8. CASE active[k] # s
  <2>1. ASSUME NEW r \in Clients
        PROVE  \A i \in DOMAIN got'[r] :
                  got'[r][i][1] = s => i \in DOMAIN got[r] /\ got'[r][i] = got[r][i]
    <3>1. CASE got'[r] = got[r]
      BY <3>1
    <3>2. CASE got'[r] = got[r] \o buffer[k]
      <4>1. \A m \in DOMAIN buffer[k] : buffer[k][m][1] # s
        BY <1>2, <1>8
      <4>2. got[r] \in Seq(Message)
        BY <1>3
      <4>3. \A i \in DOMAIN (got[r] \o buffer[k]) :
               (got[r] \o buffer[k])[i][1] = s
                  => i \in DOMAIN got[r] /\ (got[r] \o buffer[k])[i] = got[r][i]
        BY <1>3, <4>1, <4>2, OthersInOrder
      <4> QED
        BY <3>2, <4>3
    <3> QED
      BY <1>4, <3>1, <3>2
  <2>2. \A r \in Clear : UpTo(s, r, taken[s])' /\ Sorted(s, r)'
    BY <1>1, <1>7, <2>1 DEF UpTo, Sorted, Clear
  <2>3. ASSUME NEW j \in Servers(s), pc'[j] \in {"test", "write"}
        PROVE  /\ Holds(j, s)'
               /\ \A r \in Clear :
                     ToCome(j, r)' => UpTo(s, r, taken[s] - Len(buffer[j]))'
    <3>1. j # k /\ pc[j] \in {"test", "write"} /\ at'[j] = at[j]
      BY <1>1, <1>5, <1>8, <2>3 DEF ChatInv, TypeOK
    <3>2. /\ Holds(j, s)
          /\ \A r \in Clear : ToCome(j, r) => UpTo(s, r, taken[s] - Len(buffer[j]))
      BY <1>6, <3>1 DEF SentInv
    <3>3. \A r \in Clear : ToCome(j, r)' => ToCome(j, r)
      BY <1>1, <3>1 DEF ToCome
    <3> QED
      BY <1>1, <2>1, <3>2, <3>3 DEF Holds, UpTo, Clear
  <2> QED
    BY <2>2, <2>3
<1>9. CASE active[k] = s
  <2>1. \A j \in Servers(s) : j = k
    BY <1>5, <1>6, <1>9 DEF Alone
  <2>2. /\ Holds(k, s)
        /\ \A r \in Clear : ToCome(k, r) => UpTo(s, r, taken[s] - Len(buffer[k]))
    BY <1>1, <1>5, <1>6, <1>9 DEF SentInv
  <2>3. Holds(k, s)'
    BY <1>1, <2>2 DEF Holds
  <2>4. at'[k] = at[k] + 1
    BY <1>1 DEF ChatInv, TypeOK
  <2>5. ASSUME NEW r \in Clear
        PROVE  /\ UpTo(s, r, taken[s])' /\ Sorted(s, r)'
               /\ ToCome(k, r)' => UpTo(s, r, taken[s] - Len(buffer[k]))'
    <3>1. r \in Clients
      BY DEF Clear
    <3>2. CASE got'[r] = got[r]
      <4>1. ToCome(k, r)' => ToCome(k, r)
        BY <1>1, <1>2, <2>4 DEF ToCome
      <4> QED
        BY <1>1, <1>7, <2>2, <3>2, <4>1 DEF UpTo, Sorted
    <3>3. CASE r = w /\ got'[r] = got[r] \o buffer[k]
      <4>1. ToCome(k, r)
        <5>1. \A i \in 0 .. MaxCon - 1 : words[i] = r => i = at[k]
          BY <1>2, <3>3, OneSlot
        <5> QED
          BY <1>2, <5>1 DEF ToCome
      <4>2. ~ToCome(k, r)'
        BY <1>1, <1>2, <2>4, <3>3 DEF ToCome
      <4>3. /\ got[r] \in Seq(Message) /\ Len(buffer[k]) <= taken[s]
            /\ \A m \in 1 .. Len(buffer[k]) : buffer[k][m] = <<s, taken[s] - Len(buffer[k]) + m>>
            /\ \A i \in DOMAIN got[r] : got[r][i][1] = s => got[r][i][2] <= taken[s] - Len(buffer[k])
            /\ \A i, j \in DOMAIN got[r] :
                  i < j /\ got[r][i][1] = s /\ got[r][j][1] = s => got[r][i][2] < got[r][j][2]
        BY <1>3, <1>7, <2>2, <3>1, <4>1 DEF Holds, UpTo, Sorted
      <4>4. LET all == got[r] \o buffer[k]
            IN  /\ \A i \in DOMAIN all : all[i][1] = s => all[i][2] <= taken[s]
                /\ \A i, j \in DOMAIN all :
                      i < j /\ all[i][1] = s /\ all[j][1] = s => all[i][2] < all[j][2]
        BY <1>3, <4>3, MoreInOrder
      <4> QED
        BY <1>1, <3>3, <4>2, <4>4 DEF UpTo, Sorted
    <3> QED
      BY <1>4, <3>1, <3>2, <3>3
  <2> QED
    BY <2>1, <2>3, <2>5
<1> QED
  BY <1>8, <1>9

LEMMA CastStep == ChatInv /\ CastInv /\ [Next]_vars => CastInv'
<1> SUFFICES ASSUME ChatInv, CastInv, [Next]_vars PROVE CastInv'
  OBVIOUS
<1>1. IdleInv /\ IdleInv'
  BY IdleStep DEF CastInv
<1> SUFFICES ASSUME current_num' <= MaxCon
             PROVE  SlotInv' /\ \A s \in Clients : SentInv(s)'
  BY <1>1 DEF CastInv
<1>2. current_num <= MaxCon
  <2>1. current_num' = current_num \/ current_num' = current_num + 1
    BY NextCases DEF Accept, AcceptFails, StoreSlot, StoreActive, Create, Send, Leave, Start, Read,
         ReadEnd, Test, EndBroadcast, Write, mainVars, vars
  <2> QED
    BY <2>1, ChatAssumption DEF ChatInv, TypeOK
<1>3. SlotInv /\ \A s \in Clients : SentInv(s)
  BY <1>2 DEF CastInv
<1>4. SlotInv'
  BY <1>2, <1>3, SlotStep
<1>5. ASSUME NEW s \in Clients PROVE SentInv(s)'
  <2>1. CASE \E k \in Threads : Read(k)
    BY <1>1, <1>3, <2>1, ReadCast
  <2>2. CASE \E k \in Threads : Write(k)
    BY <1>1, <1>2, <1>3, <2>2, WriteCast
  <2>3. ASSUME UNCHANGED <<got, taken, buffer>>,
               \A k \in Threads : at[k] <= at'[k],
               \A k \in Threads : active[k] = s => active'[k] = s,
               \A k \in Threads :
                  pc'[k] \in Casting /\ active'[k] = s => pc[k] \in Casting /\ active[k] = s
        PROVE  SentInv(s)'
    <3>1. \A k \in Threads : \A r \in Clear : ToCome(k, r)' => ToCome(k, r)
      BY <1>2, <1>3, <2>3, StillToCome
    <3> QED
      BY <1>1, <1>3, <2>3, <3>1, FrameStep
  <2>4. \A k \in Threads : at[k] \in Nat
    BY ChatAssumption DEF ChatInv, TypeOK
  <2>5. ASSUME UNCHANGED <<got, taken, buffer, pc, at, active>> PROVE SentInv(s)'
    BY <2>3, <2>4, <2>5
  <2>6. CASE Create
    <3>1. /\ UNCHANGED <<got, taken, buffer, at, active>>
          /\ \A k \in Threads : pc'[k] \in Casting => pc[k] \in Casting
      BY <2>6 DEF Create, peerVars, Casting, ChatInv, TypeOK
    <3> QED
      BY <2>3, <2>4, <3>1
  <2>7. ASSUME NEW k \in Threads, Start(k) PROVE SentInv(s)'
    <3>1. /\ UNCHANGED <<got, taken, buffer, at>> /\ pc[k] = "start" /\ pc'[k] = "read"
          /\ \A j \in Threads : j # k => pc'[j] = pc[j] /\ active'[j] = active[j]
      BY <2>7 DEF Start, peerVars, ChatInv, TypeOK
    <3>2. active[k] # s
      BY <1>1, <3>1, ChatAssumption DEF IdleInv
    <3> QED
      BY <2>3, <2>4, <3>1, <3>2 DEF Casting
  <2>8. ASSUME NEW k \in Threads, ReadEnd(k) \/ Test(k) \/ EndBroadcast(k) PROVE SentInv(s)'
    <3>1. /\ UNCHANGED <<got, taken, buffer, active>>
          /\ pc'[k] \in Casting => pc[k] \in Casting
          /\ at' = at \/ at' = [at EXCEPT ![k] = at[k] + 1]
          /\ \A j \in Threads : j # k => pc'[j] = pc[j]
      BY <2>8 DEF ReadEnd, Test, EndBroadcast, Advance, peerVars, Casting, ChatInv, TypeOK
    <3>2. \A j \in Threads : at[j] <= at'[j]
      <4>1. at \in [Threads -> 0 .. MaxCon + 1]
        BY DEF ChatInv, TypeOK
      <4>2. \A j \in Threads : at'[j] = at[j] \/ at'[j] = at[j] + 1
        BY <3>1, <4>1
      <4> QED
        BY <2>4, <4>2
    <3> QED
      BY <2>3, <3>1, <3>2
  <2> QED
    BY <2>1, <2>2, <2>5, <2>6, <2>7, <2>8, NextCases
       DEF Accept, AcceptFails, StoreSlot, StoreActive, Send, Leave, threadVars, peerVars, vars
<1> QED
  BY <1>4, <1>5

(* What one thread reads of a client arrives in order and once.            *)
THEOREM InOrderHolds == Spec => []InOrder
<1>1. ChatInv /\ CastInv => InOrder
  <2> SUFFICES ASSUME ChatInv, CastInv, current_num <= MaxCon,
                      NEW s \in Clients, Cardinality(Servers(s)) <= 1,
                      NEW r \in Clients \ Garbage
               PROVE  \A m, n \in DOMAIN got[r] :
                         m < n /\ got[r][m][1] = s /\ got[r][n][1] = s
                            => got[r][m][2] < got[r][n][2]
    BY DEF InOrder
  <2>1. Alone(s)
    <3> SUFFICES ASSUME NEW j \in Servers(s), NEW k \in Servers(s), j # k PROVE FALSE
      BY DEF Alone
    <3>1. IsFiniteSet(Servers(s))
      <4>1. IsFiniteSet(1 .. MaxCon + 1)
        BY ChatAssumption, FS_Interval
      <4> QED
        BY <4>1, FS_Subset DEF Servers, Threads
    <3>2. Cardinality({j, k}) = 2
      <4>1. IsFiniteSet({j}) /\ Cardinality({j}) = 1
        BY FS_Singleton
      <4>2. Cardinality({j} \cup {k}) = Cardinality({j}) + 1
        BY <4>1, FS_AddElement
      <4>3. {j} \cup {k} = {j, k}
        OBVIOUS
      <4> QED
        BY <4>1, <4>2, <4>3
    <3>3. Cardinality({j, k}) <= Cardinality(Servers(s)) /\ Cardinality(Servers(s)) \in Nat
      BY <3>1, FS_Subset, FS_CardinalityType
    <3> QED
      BY <3>2, <3>3
  <2>2. Sorted(s, r)
    BY <2>1 DEF CastInv, SentInv, Clear
  <2> QED
    BY <2>2 DEF Sorted
<1> QED
  BY <1>1, ChatInit, ChatStep, CastInit, CastStep, PTL DEF Spec
=============================================================================
