------------------------- MODULE InterpreterProofs -------------------------
(***************************************************************************)
(* Proofs about Interpreter for any lines, pipe and buffer of stdio: what  *)
(* is printed is a prefix of the pipeline's result, the input of a stage   *)
(* always fits into its pipe, and a line that is never done waits for a    *)
(* command that has more to write than one read() and the pipe take, or    *)
(* has ended the interpreter.                                              *)
(***************************************************************************)
EXTENDS Interpreter, SequenceTheorems, WellFoundedInduction, TLAPS

Block == Nat \X Nat \X Nat

TypeInv ==
    /\ at \in {"prompt", "fork", "write", "read", "wait", "print", "exit", "killed"}
    /\ lines \in Nat
    /\ line \in Seq(Stage)
    /\ data \in Seq(Block) /\ inPipe \in Seq(Block)
    /\ outPipe \in Seq(Block) /\ hold \in Seq(Block)
    /\ command \in {"none", "running", "ended"}
    /\ terminal \in BOOLEAN /\ buffered \in Seq(Block) /\ copied \in Seq(Seq(Block))

(* A stage of the line is running, or has run, and each that has been      *)
(* forked has copied the buffer.                                           *)
StageInv ==
    /\ at = "fork" => Len(copied) = stage - 1
    /\ at \in {"write", "read", "wait", "print"} => Len(copied) = stage
    /\ at \in {"fork", "write", "read", "wait", "print"} => stage \in 1 .. Len(line)
    /\ at = "print" => stage = Len(line)
    /\ at = "write" => inPipe = <<>>
    /\ at \in {"prompt", "fork", "print"} =>
          command = "none" /\ hold = <<>> /\ inPipe = <<>> /\ outPipe = <<>>

(* The buffer holds what one read() took from a pipe, and is clear when    *)
(* the next one comes.                                                     *)
SizeInv ==
    /\ Len(outPipe) <= PipeCap
    /\ at \in {"fork", "write", "wait"} => Len(data) <= PipeCap
    /\ at = "read" => data = <<>>

(* At a terminal, that a stage is done is said in a line of its own, which *)
(* leaves nothing to copy for the next one.                                *)
TerminalInv ==
    terminal => /\ \A i \in 2 .. Len(copied) : copied[i] = <<>>
                /\ at = "fork" /\ stage > 1 => buffered = <<>>

(* A stage that has written out, holds some more blocks and has yet to     *)
(* read unread is in order for the input and for what it makes itself.     *)
InOrder(kind, running, out, held, unread, input, own) ==
    CASE kind = "cat"  -> IsPrefix((out \o held) \o unread, input)
      [] kind = "head" -> /\ IsPrefix(out \o held, input) /\ Len(out \o held) <= 1
                          /\ running => out = <<>> /\ IsPrefix(held \o unread, input)
      [] OTHER         -> IsPrefix(out \o held, own)

(* Until the stage is read from, it has lost none of its output.           *)
StageOutput ==
    at \in {"write", "read"} =>
        /\ InOrder(Kind, command = "running", outPipe, hold,
                   IF at = "write" THEN data ELSE inPipe, Results[stage - 1], Own(stage))
        /\ at = "write" /\ Kind \in {"cat", "head"} => outPipe = <<>> /\ hold = <<>>

(* What passes to the next stage is a prefix of the result of this one.    *)
PassedOn ==
    /\ at = "fork" => IsPrefix(data, Results[stage - 1])
    /\ at \in {"wait", "print"} => IsPrefix(data, Results[stage])

OutputInv == StageOutput /\ PassedOn

LineInv == TypeInv /\ StageInv /\ SizeInv /\ TerminalInv /\ OutputInv

(* The line and its stage stay, and so does what each stage has, or would  *)
(* have, of the buffer.                                                    *)
Same == UNCHANGED <<lines, line, stage>> /\ \A i : Copy(i)' = Copy(i)

-----------------------------------------------------------------------------
(* Prefixes.                                                               *)
LEMMA PrefixAt ==
    ASSUME NEW S, NEW s \in Seq(S), NEW t \in Seq(S)
    PROVE  IsPrefix(s, t) <=> /\ Len(s) <= Len(t)
                              /\ \A i \in 1 .. Len(s) : s[i] = t[i]
<1>1. Len(s) \in Nat /\ Len(t) \in Nat
  BY LenProperties
<1>2. SUFFICES ASSUME Len(s) <= Len(t)
      PROVE  SubSeq(s, 1, Len(s)) = SubSeq(t, 1, Len(s))
                <=> \A i \in 1 .. Len(s) : s[i] = t[i]
  BY DEF IsPrefix
<1> DEFINE u == SubSeq(t, 1, Len(s))
<1>3. SubSeq(s, 1, Len(s)) = s
  BY SubSeqFull
<1>4. u \in Seq(S) /\ Len(u) = Len(s) /\ \A i \in 1 .. Len(s) : u[i] = t[i]
  BY <1>1, <1>2
<1> HIDE DEF u
<1>5. s = u <=> \A i \in 1 .. Len(s) : s[i] = t[i]
  <2>1. ASSUME \A i \in 1 .. Len(s) : s[i] = t[i] PROVE s = u
    BY <1>4, <2>1, SeqEqual
  <2> QED
    BY <1>4, <2>1
<1> QED
  BY <1>3, <1>5 DEF u

LEMMA PrefixOfEmpty ==
    ASSUME NEW S, NEW t \in Seq(S)
    PROVE  IsPrefix(<<>>, t) /\ IsPrefix(t, t)
<1>1. <<>> \in Seq(S) /\ Len(<<>>) = 0 /\ Len(t) \in Nat
  BY EmptySeq, LenProperties
<1> PICK e \in Seq(S) : e = <<>>
  BY <1>1
<1>2. Len(e) <= Len(t) /\ \A i \in 1 .. Len(e) : e[i] = t[i]
  BY <1>1
<1>3. IsPrefix(e, t)
  BY <1>2, PrefixAt
<1>4. IsPrefix(t, t)
  BY <1>1, PrefixAt
<1> QED
  BY <1>3, <1>4

LEMMA PrefixOfConcat ==
    ASSUME NEW S, NEW s \in Seq(S), NEW u \in Seq(S), NEW t \in Seq(S), IsPrefix(s \o u, t)
    PROVE  IsPrefix(s, t)
<1>1. /\ s \o u \in Seq(S) /\ Len(s \o u) = Len(s) + Len(u)
      /\ \A i \in 1 .. Len(s) : (s \o u)[i] = s[i]
      /\ Len(s) \in Nat /\ Len(u) \in Nat /\ Len(t) \in Nat
  BY ConcatProperties, LenProperties
<1>2. /\ Len(s \o u) <= Len(t)
      /\ \A i \in 1 .. Len(s \o u) : (s \o u)[i] = t[i]
  <2>1. ASSUME NEW v \in Seq(S), IsPrefix(v, t)
        PROVE  Len(v) <= Len(t) /\ \A i \in 1 .. Len(v) : v[i] = t[i]
    BY <2>1, PrefixAt
  <2> QED
    BY <1>1, <2>1
<1>3. Len(s) <= Len(t) /\ \A i \in 1 .. Len(s) : s[i] = t[i]
  BY <1>1, <1>2
<1> QED
  BY <1>3, PrefixAt

LEMMA PrefixCut ==
    ASSUME NEW S, NEW s \in Seq(S), NEW t \in Seq(S), IsPrefix(s, t),
           NEW n \in 0 .. Len(s)
    PROVE  SubSeq(s, 1, n) \in Seq(S) /\ IsPrefix(SubSeq(s, 1, n), t)
<1>1. Len(s) \in Nat /\ Len(t) \in Nat
  BY LenProperties
<1> DEFINE u == SubSeq(s, 1, n)
<1>2. u \in Seq(S) /\ Len(u) = n /\ \A i \in 1 .. n : u[i] = s[i]
  BY <1>1
<1>3. Len(s) <= Len(t) /\ \A i \in 1 .. Len(s) : s[i] = t[i]
  BY PrefixAt
<1> HIDE DEF u
<1>4. IsPrefix(u, t)
  BY <1>1, <1>2, <1>3, PrefixAt, SMTT(30)
<1> QED
  BY <1>2, <1>4 DEF u

(* A block at most is a prefix of the first block.                         *)
LEMMA PrefixHead ==
    ASSUME NEW S, NEW s \in Seq(S), NEW t \in Seq(S), IsPrefix(s, t), Len(s) <= 1
    PROVE  IsPrefix(s, SubSeq(t, 1, IF t = <<>> THEN 0 ELSE 1))
<1>1. Len(s) \in Nat /\ Len(t) \in Nat /\ (t # <<>> => Len(t) >= 1)
  BY LenProperties, EmptySeq
<1>2. Len(s) <= Len(t) /\ \A i \in 1 .. Len(s) : s[i] = t[i]
  BY PrefixAt
<1> PICK n \in 0 .. 1 : n = IF t = <<>> THEN 0 ELSE 1
  OBVIOUS
<1> DEFINE u == SubSeq(t, 1, n)
<1>3. u \in Seq(S) /\ Len(u) = n /\ \A i \in 1 .. n : u[i] = t[i]
  BY <1>1
<1>4. Len(s) <= n
  <2>1. t = <<>> => Len(t) = 0
    BY EmptySeq
  <2> QED
    BY <1>1, <1>2, <2>1
<1> HIDE DEF u
<1>5. IsPrefix(s, u)
  BY <1>1, <1>2, <1>3, <1>4, PrefixAt
<1> QED
  BY <1>5 DEF u

(* A block that moves from the front of one sequence to the end of the     *)
(* other stays in its place.                                               *)
LEMMA PassesOn ==
    ASSUME NEW S, NEW s \in Seq(S), NEW t \in Seq(S), t # <<>>
    PROVE  /\ Append(s, Head(t)) \in Seq(S) /\ Tail(t) \in Seq(S)
           /\ Len(Append(s, Head(t))) = Len(s) + 1
           /\ Append(s, Head(t)) \o Tail(t) = s \o t
<1>1. Len(s) \in Nat /\ Len(t) \in Nat \ {0}
  BY LenProperties, EmptySeq
<1> PICK h \in S : h = Head(t)
  BY HeadTailProperties
<1> PICK r \in Seq(S) : r = Tail(t)
  BY HeadTailProperties
<1>2. /\ Len(r) = Len(t) - 1 /\ \A i \in 1 .. Len(r) : r[i] = t[i + 1]
      /\ h = t[1]
  BY HeadTailProperties, <1>1
<1> PICK a : a = Append(s, h)
  OBVIOUS
<1>3. /\ a \in Seq(S) /\ Len(a) = Len(s) + 1
      /\ \A i \in 1 .. Len(s) : a[i] = s[i]
      /\ a[Len(s) + 1] = h
  BY <1>1
<1>4. /\ a \o r \in Seq(S) /\ Len(a \o r) = Len(a) + Len(r)
      /\ \A i \in 1 .. Len(a) + Len(r) :
            (a \o r)[i] = IF i <= Len(a) THEN a[i] ELSE r[i - Len(a)]
  BY <1>3, ConcatProperties
<1>5. /\ s \o t \in Seq(S) /\ Len(s \o t) = Len(s) + Len(t)
      /\ \A i \in 1 .. Len(s) + Len(t) :
            (s \o t)[i] = IF i <= Len(s) THEN s[i] ELSE t[i - Len(s)]
  BY ConcatProperties
<1>6. Len(a \o r) = Len(s \o t)
  BY <1>1, <1>2, <1>3, <1>4, <1>5
<1>7. ASSUME NEW i \in 1 .. Len(s) + Len(t) PROVE (a \o r)[i] = (s \o t)[i]
  <2>1. CASE i <= Len(s)
    BY <1>1, <1>2, <1>3, <1>4, <1>5, <2>1
  <2>2. CASE i = Len(s) + 1
    BY <1>1, <1>2, <1>3, <1>4, <1>5, <2>2
  <2>3. CASE i > Len(s) + 1
    <3>1. (a \o r)[i] = r[i - Len(a)]
      BY <1>1, <1>2, <1>3, <1>4, <2>3
    <3>2. i - Len(a) \in 1 .. Len(r) /\ i - Len(a) + 1 = i - Len(s)
      BY <1>1, <1>2, <1>3, <2>3
    <3>3. r[i - Len(a)] = t[i - Len(s)]
      BY <1>2, <3>2
    <3> QED
      BY <1>1, <1>5, <2>3, <3>1, <3>3
  <2> QED
    BY <1>1, <2>1, <2>2, <2>3
<1>8. a \o r = s \o t
  <2> PICK x \in Seq(S) : x = a \o r
    BY <1>4
  <2> PICK y \in Seq(S) : y = s \o t
    BY <1>5
  <2>1. Len(x) = Len(y) /\ \A i \in 1 .. Len(x) : x[i] = y[i]
    BY <1>5, <1>6, <1>7
  <2>2. x = y
    BY <2>1, SeqEqual
  <2> QED
    BY <2>2
<1> QED
  BY <1>3, <1>8

-----------------------------------------------------------------------------
(* The results of a line.                                                  *)
(* What the stages have of the buffer, and what they write, are sequences. *)
LEMMA CopyType == TypeInv => \A i : Copy(i) \in Seq(Block)
<1> SUFFICES ASSUME TypeInv, NEW i PROVE Copy(i) \in Seq(Block)
  OBVIOUS
<1>1. copied \in Seq(Seq(Block)) /\ buffered \in Seq(Block)
  BY DEF TypeInv
<1>2. i \in DOMAIN copied => copied[i] \in Seq(Block)
  BY <1>1
<1> QED
  BY <1>1, <1>2 DEF Copy

LEMMA OwnType ==
    ASSUME TypeInv, NEW i \in 1 .. Len(line)
    PROVE  /\ Own(i) \in Seq(Block)
           /\ line[i].kind \in {"cat", "head"} => Own(i) = <<>>
<1>1. line[i] \in Stage
  BY ElementOfSeq DEF TypeInv
<1> PICK stg \in Stage : stg = line[i]
  BY <1>1
<1>2. i \in Nat /\ lines \in Nat
  BY DEF TypeInv
<1>3. [k \in 1 .. stg.n |-> <<lines, i, k>>] \in Seq(Block)
  <2>1. stg.n \in Nat
    BY DEF Stage
  <2>2. \A k \in 1 .. stg.n : <<lines, i, k>> \in Block
    BY <1>2, <2>1 DEF Block
  <2> QED
    BY <2>1, <2>2
<1>4. Said(i) \in Seq(Block) /\ <<>> \in Seq(Block)
  BY <1>2 DEF Block, Said
<1>5. Copy(i) \o (IF i = 1 THEN <<>> ELSE Said(i)) \in Seq(Block)
  <2> PICK u \in Seq(Block) : u = Copy(i)
    BY CopyType
  <2> PICK v \in Seq(Block) : v = IF i = 1 THEN <<>> ELSE Said(i)
    BY <1>4
  <2> QED
    BY ConcatProperties
<1> QED
  BY <1>3, <1>4, <1>5 DEF Own

LEMMA ResultIn ==
    ASSUME NEW S, NEW i, Own(i) \in Seq(S), NEW s \in Seq(S)
    PROVE  Result(i, s) \in Seq(S)
<1>1. SubSeq(s, 1, IF s = <<>> THEN 0 ELSE 1) \in Seq(S)
  <2>1. s = <<>> \/ Len(s) \in Nat \ {0}
    BY EmptySeq
  <2>2. SubSeq(s, 1, 0) \in Seq(S)
    OBVIOUS
  <2>3. Len(s) \in Nat \ {0} => SubSeq(s, 1, 1) \in Seq(S)
    OBVIOUS
  <2> QED
    BY <2>1, <2>2, <2>3
<1> QED
  BY <1>1 DEF Result

(* The least number with a property.                                       *)
LEMMA Least ==
    ASSUME NEW T, T \subseteq Nat, T # {}
    PROVE  \E n \in T : \A m \in T : n <= m
<1> DEFINE Less == {p \in Nat \X Nat : p[1] < p[2]}
<1>1. PICK n \in T : \A m \in T : ~(<<m, n>> \in Less)
  <2>1. IsWellFoundedOn(Less, Nat)
    BY NatLessThanWellFounded DEF OpToRel
  <2> HIDE DEF Less
  <2> QED
    BY <2>1, WFMin
<1>2. ASSUME NEW m \in T PROVE n <= m
  <2>1. m \in Nat /\ n \in Nat /\ ~(<<m, n>> \in Less)
    BY <1>1
  <2> QED
    BY <2>1
<1> QED
  BY <1>2

(* There is such a function: it can be extended stage by stage.            *)
LEMMA ResultsExist ==
    ASSUME line \in Seq(Stage)
    PROVE  \E r : r = [i \in 0 .. Len(line) |->
                         IF i = 0 THEN <<>> ELSE Result(i, r[i - 1])]
<1> DEFINE Upto(n) == \E r : r = [i \in 0 .. n |->
                                    IF i = 0 THEN <<>> ELSE Result(i, r[i - 1])]
           T == {n \in Nat : ~Upto(n)}
<1>1. Len(line) \in Nat
  BY LenProperties
<1>2. SUFFICES ASSUME T # {} PROVE FALSE
  BY <1>1
<1>3. PICK n \in T : \A m \in T : n <= m
  <2>1. T \subseteq Nat
    OBVIOUS
  <2> HIDE DEF T
  <2> QED
    BY <1>2, <2>1, Least
<1>4. n \in Nat /\ ~Upto(n)
  OBVIOUS
<1>5. n # 0
  <2> DEFINE r == [i \in 0 .. 0 |-> <<>>]
  <2>1. r = [i \in 0 .. 0 |-> IF i = 0 THEN <<>> ELSE Result(i, r[i - 1])]
    OBVIOUS
  <2> HIDE DEF r
  <2>2. Upto(0)
    BY <2>1
  <2> QED
    BY <1>4, <2>2
<1>6. Upto(n - 1)
  <2>1. n - 1 \in Nat /\ ~(n <= n - 1)
    BY <1>4, <1>5
  <2> QED
    BY <1>3, <2>1
<1>7. PICK r : r = [i \in 0 .. n - 1 |->
                      IF i = 0 THEN <<>> ELSE Result(i, r[i - 1])]
  BY <1>6
<1> DEFINE q == [i \in 0 .. n |-> IF i = n THEN Result(n, r[n - 1]) ELSE r[i]]
<1>8. ASSUME NEW i \in 0 .. n
      PROVE  q[i] = IF i = 0 THEN <<>> ELSE Result(i, q[i - 1])
  <2>1. CASE i = n
    BY <1>4, <1>5, <2>1
  <2>2. CASE i # n
    <3>1. i \in 0 .. n - 1 /\ (i # 0 => i - 1 \in 0 .. n - 1 /\ i - 1 # n /\ i - 1 \in 0 .. n)
      BY <1>4, <2>2
    <3>2. q[i] = r[i] /\ (i # 0 => q[i - 1] = r[i - 1])
      BY <2>2, <3>1
    <3>3. r[i] = IF i = 0 THEN <<>> ELSE Result(i, r[i - 1])
      BY <1>7, <3>1
    <3> QED
      BY <3>2, <3>3
  <2> QED
    BY <2>1, <2>2
<1>9. q = [i \in 0 .. n |-> q[i]]
  OBVIOUS
<1> HIDE DEF q
<1>10. q = [i \in 0 .. n |-> IF i = 0 THEN <<>> ELSE Result(i, q[i - 1])]
  BY <1>8, <1>9
<1>11. Upto(n)
  BY <1>10
<1> QED
  BY <1>4, <1>11

LEMMA ResultsAre ==
    ASSUME line \in Seq(Stage)
    PROVE  /\ Results[0] = <<>>
           /\ \A i \in 1 .. Len(line) : Results[i] = Result(i, Results[i - 1])
<1>1. Len(line) \in Nat
  BY LenProperties
<1>2. Results = [i \in 0 .. Len(line) |->
                   IF i = 0 THEN <<>> ELSE Result(i, Results[i - 1])]
  BY ResultsExist DEF Results
<1>3. ASSUME NEW i \in 0 .. Len(line)
      PROVE  Results[i] = IF i = 0 THEN <<>> ELSE Result(i, Results[i - 1])
  BY <1>2
<1> QED
  BY <1>1, <1>3

(* The same as a formula, which can be primed.                             *)
LEMMA ResultsFormula ==
    line \in Seq(Stage) =>
        /\ Results[0] = <<>>
        /\ \A i \in 1 .. Len(line) : Results[i] = Result(i, Results[i - 1])
  BY ResultsAre

(* Results are made of what the stages write themselves.                  *)
LEMMA ResultsIn ==
    ASSUME line \in Seq(Stage), NEW S, \A i \in 1 .. Len(line) : Own(i) \in Seq(S),
           NEW n \in 0 .. Len(line)
    PROVE  Results[n] \in Seq(S)
<1> DEFINE T == {i \in 0 .. Len(line) : Results[i] \notin Seq(S)}
<1>1. Len(line) \in Nat
  BY LenProperties
<1>2. SUFFICES ASSUME T # {} PROVE FALSE
  OBVIOUS
<1>3. PICK m \in T : \A i \in T : m <= i
  <2>1. T \subseteq Nat
    BY <1>1
  <2> HIDE DEF T
  <2> QED
    BY <1>2, <2>1, Least
<1>4. m \in 0 .. Len(line) /\ Results[m] \notin Seq(S)
  OBVIOUS
<1>5. m # 0
  BY <1>4, ResultsAre, EmptySeq
<1>6. m - 1 \in 0 .. Len(line) /\ ~(m <= m - 1) /\ m \in 1 .. Len(line)
  BY <1>1, <1>4, <1>5
<1>7. Results[m - 1] \in Seq(S)
  BY <1>3, <1>6
<1>8. Results[m] \in Seq(S)
  BY <1>6, <1>7, ResultsAre, ResultIn
<1> QED
  BY <1>4, <1>8

LEMMA ResultsType ==
    ASSUME TypeInv, NEW n \in 0 .. Len(line)
    PROVE  Results[n] \in Seq(Block)
<1>1. line \in Seq(Stage)
  BY DEF TypeInv
<1> QED
  BY <1>1, OwnType, ResultsIn

(* The results depend on the line only, and on what was copied.            *)
LEMMA ResultsStay ==
    ASSUME Same
    PROVE  Results' = Results /\ \A i : Own(i)' = Own(i)
  BY DEF Same, Results, Result, Own, Said

(* The result of a stage depends on the stages up to it only.              *)
LEMMA ResultsUpto ==
    ASSUME TypeInv, UNCHANGED <<lines, line>>, NEW n \in 0 .. Len(line),
           \A i \in 1 .. n : Copy(i)' = Copy(i)
    PROVE  Results'[n] = Results[n]
<1> DEFINE T == {i \in 0 .. n : Results'[i] # Results[i]}
<1>1. line \in Seq(Stage) /\ Len(line) \in Nat
  BY LenProperties DEF TypeInv
<1>2. SUFFICES ASSUME T # {} PROVE FALSE
  BY <1>1
<1>3. PICK m \in T : \A i \in T : m <= i
  <2>1. T \subseteq Nat
    BY <1>1
  <2> HIDE DEF T
  <2> QED
    BY <1>2, <2>1, Least
<1>4. m \in 0 .. n /\ Results'[m] # Results[m]
  OBVIOUS
<1>5. /\ Results[0] = <<>>
      /\ \A i \in 1 .. Len(line) : Results[i] = Result(i, Results[i - 1])
  BY <1>1, ResultsAre
<1>6. /\ Results'[0] = <<>>
      /\ \A i \in 1 .. Len(line) : Results'[i] = Result(i, Results[i - 1])'
  <2>1. (line \in Seq(Stage) =>
            /\ Results[0] = <<>>
            /\ \A i \in 1 .. Len(line) : Results[i] = Result(i, Results[i - 1]))'
    BY ResultsFormula, PTL
  <2> QED
    BY <1>1, <2>1
<1>7. m # 0
  BY <1>4, <1>5, <1>6
<1>8. m - 1 \in 0 .. n /\ ~(m <= m - 1) /\ m \in 1 .. n /\ m \in 1 .. Len(line)
  BY <1>1, <1>4, <1>7
<1>9. Results'[m - 1] = Results[m - 1]
  BY <1>3, <1>8
<1>10. Own(m)' = Own(m)
  BY <1>8 DEF Own, Said
<1>11. Result(m, Results[m - 1])' = Result(m, Results[m - 1])
  BY <1>9, <1>10 DEF Result
<1> QED
  BY <1>4, <1>5, <1>6, <1>8, <1>11

-----------------------------------------------------------------------------
(* A stage that starts, reads a block, writes a block or ends stays in     *)
(* order; what it has written is the beginning of its result.              *)
LEMMA Starts ==
    ASSUME NEW kind, NEW unread \in Seq(Block), NEW input \in Seq(Block),
           NEW own \in Seq(Block), IsPrefix(unread, input),
           kind \in {"cat", "head"} => own = <<>>
    PROVE  InOrder(kind, TRUE, <<>>, own, unread, input, own)
<1>1. <<>> \in Seq(Block) /\ Len(<<>>) = 0
  BY EmptySeq
<1>2. <<>> \o own = own /\ <<>> \o unread = unread /\ <<>> \o <<>> = <<>>
  BY <1>1, ConcatEmptySeq
<1> PICK e \in Seq(Block) : e = <<>>
  BY <1>1
<1>3. IsPrefix(e, input) /\ IsPrefix(own, own) /\ Len(e) <= 1
  BY <1>1, PrefixOfEmpty
<1>4. e \o own = own /\ e \o unread = unread /\ e \o e = e
  BY <1>2
<1>5. CASE kind \in {"cat", "head"}
  <2>1. own = e
    BY <1>5
  <2>2. InOrder(kind, TRUE, e, e, unread, input, e)
    BY <1>3, <1>4, <1>5 DEF InOrder
  <2> QED
    BY <2>1, <2>2
<1>6. CASE kind \notin {"cat", "head"}
  <2>1. InOrder(kind, TRUE, e, own, unread, input, own)
    BY <1>3, <1>4, <1>6 DEF InOrder
  <2> QED
    BY <2>1
<1> QED
  BY <1>5, <1>6

LEMMA Reads ==
    ASSUME NEW kind \in {"cat", "head"}, NEW out \in Seq(Block),
           NEW unread \in Seq(Block), unread # <<>>, NEW input \in Seq(Block), NEW own,
           InOrder(kind, TRUE, out, <<>>, unread, input, own)
    PROVE  /\ <<Head(unread)>> \in Seq(Block) /\ Tail(unread) \in Seq(Block)
           /\ InOrder(kind, TRUE, out, <<Head(unread)>>, Tail(unread), input, own)
<1> PICK h \in Block : h = Head(unread)
  BY HeadTailProperties
<1> PICK r \in Seq(Block) : r = Tail(unread)
  BY HeadTailProperties
<1> PICK e \in Seq(Block) : e = <<>>
  BY EmptySeq
<1>8. <<h>> \in Seq(Block)
  OBVIOUS
<1> PICK b \in Seq(Block) : b = <<h>>
  BY <1>8
<1>1. Len(b) = 1 /\ Append(e, h) = b
  OBVIOUS
<1>2. e \o unread = unread /\ out \o e = out /\ e \o b = b
  BY ConcatEmptySeq
<1>3. out \o b = Append(out, h)
  BY AppendIsConcat
<1>4. Append(out, h) \o r = out \o unread /\ Append(e, h) \o r = e \o unread
  BY PassesOn
<1>5. (out \o b) \o r = (out \o e) \o unread /\ b \o r = unread
  BY <1>1, <1>2, <1>3, <1>4
<1>6. InOrder(kind, TRUE, out, e, unread, input, own)
  OBVIOUS
<1>7. InOrder(kind, TRUE, out, b, r, input, own)
  <2>1. CASE kind = "cat"
    BY <1>5, <1>6, <2>1 DEF InOrder
  <2>2. CASE kind = "head"
    <3>1. out = e /\ IsPrefix(e \o unread, input)
      BY <1>6, <2>2 DEF InOrder
    <3>2. IsPrefix(b \o r, input)
      BY <1>2, <1>5, <3>1
    <3>3. IsPrefix(b, input)
      BY <3>2, PrefixOfConcat
    <3>4. InOrder("head", TRUE, e, b, r, input, own)
      BY <1>1, <1>2, <3>2, <3>3 DEF InOrder
    <3> QED
      BY <2>2, <3>1, <3>4
  <2> QED
    BY <2>1, <2>2
<1> QED
  BY <1>7

LEMMA Writes ==
    ASSUME NEW kind, NEW out \in Seq(Block), NEW held \in Seq(Block), held # <<>>,
           NEW unread, NEW input, NEW own, NEW running, kind = "head" => ~running,
           InOrder(kind, TRUE, out, held, unread, input, own)
    PROVE  /\ Append(out, Head(held)) \in Seq(Block) /\ Tail(held) \in Seq(Block)
           /\ Len(Append(out, Head(held))) = Len(out) + 1
           /\ InOrder(kind, running, Append(out, Head(held)), Tail(held), unread,
                      input, own)
  BY PassesOn DEF InOrder

LEMMA Ends ==
    ASSUME NEW kind, NEW running \in BOOLEAN, NEW out, NEW held, NEW unread, NEW input,
           NEW own, InOrder(kind, running, out, held, unread, input, own)
    PROVE  InOrder(kind, FALSE, out, held, unread, input, own)
  BY DEF InOrder

LEMMA WrittenIsResult ==
    ASSUME TypeInv, NEW i \in 1 .. Len(line), NEW running,
           NEW unread \in Seq(Block),
           InOrder(line[i].kind, running, outPipe, hold, unread, Results[i - 1], Own(i))
    PROVE  IsPrefix(outPipe, Results[i])
<1> PICK o \in Seq(Block) : o = outPipe
  BY DEF TypeInv
<1> PICK h \in Seq(Block) : h = hold
  BY DEF TypeInv
<1> PICK kind : kind = line[i].kind
  OBVIOUS
<1>1. line \in Seq(Stage) /\ Len(line) \in Nat
  BY LenProperties DEF TypeInv
<1> PICK input \in Seq(Block) : input = Results[i - 1]
  BY <1>1, ResultsType
<1> PICK own \in Seq(Block) : own = Own(i)
  BY <1>1, OwnType
<1>2. o \o h \in Seq(Block)
  BY ConcatProperties
<1>3. InOrder(kind, running, o, h, unread, input, own)
  OBVIOUS
<1>4. Results[i] = CASE kind = "cat" -> input
                     [] kind = "head" -> SubSeq(input, 1, IF input = <<>> THEN 0 ELSE 1)
                     [] OTHER -> own
  BY <1>1, ResultsAre DEF Result
<1>5. CASE kind = "cat"
  <2>1. IsPrefix(o \o h, input)
    BY <1>2, <1>3, <1>5, PrefixOfConcat DEF InOrder
  <2>2. IsPrefix(o, input)
    BY <2>1, PrefixOfConcat
  <2> QED
    BY <1>4, <1>5, <2>2
<1>6. CASE kind = "head"
  <2>1. IsPrefix(o \o h, input) /\ Len(o \o h) <= 1
    BY <1>3, <1>6 DEF InOrder
  <2> PICK u : u = SubSeq(input, 1, IF input = <<>> THEN 0 ELSE 1)
    OBVIOUS
  <2>2. IsPrefix(o \o h, u)
    BY <1>2, <2>1, PrefixHead
  <2>3. u = Results[i]
    BY <1>4, <1>6
  <2>4. u \in Seq(Block)
    BY <1>1, <2>3, ResultsType
  <2>5. IsPrefix(o, u)
    BY <2>2, <2>4, PrefixOfConcat
  <2> QED
    BY <2>3, <2>5
<1>7. CASE kind \notin {"cat", "head"}
  <2>1. IsPrefix(o \o h, own)
    BY <1>3, <1>7 DEF InOrder
  <2>2. IsPrefix(o, own)
    BY <2>1, PrefixOfConcat
  <2> QED
    BY <1>4, <1>7, <2>2
<1> QED
  BY <1>5, <1>6, <1>7

-----------------------------------------------------------------------------
(* What stays in stdio's buffer is a sequence of blocks.                   *)
LEMMA BuffersType ==
    ASSUME TypeInv, NEW text \in Seq(Block), NEW t \in Buffers(text)
    PROVE  t \in Seq(Block)
<1> PICK u \in Seq(Block) : u = buffered
  BY DEF TypeInv
<1> PICK s \in Seq(Block) : s = u \o text
  BY ConcatProperties
<1>1. PICK k \in 1 .. Len(s) + 1 : t = SubSeq(s, k, Len(s))
  BY DEF Buffers
<1> QED
  BY <1>1

LEMMA SaidType == TypeInv => \A i \in Nat : Said(i) \in Seq(Block)
  BY DEF TypeInv, Said, Block

LEMMA TypeStep == TypeInv /\ StageInv /\ [Next]_vars => TypeInv'
<1> SUFFICES ASSUME TypeInv, StageInv, [Next]_vars
             PROVE  TypeInv'
  OBVIOUS
<1> USE DEF TypeInv, loop, pipes, child, stdio, Transition
<1>1. ASSUME NEW l \in Seq(Stage), Run(l) PROVE TypeInv'
  BY <1>1, EmptySeq DEF Run
<1>2. CASE ReadLine
  BY <1>1, <1>2, InterpreterAssumption DEF ReadLine
<1>3. CASE ReadEof
  <2>1. ASSUME NEW l \in Seq(Stage), l # <<>> PROVE <<l[1]>> \in Seq(Stage)
    BY <2>1
  <2>2. <<>> \in Seq(Stage)
    BY EmptySeq
  <2>3. \A l \in Lines : l \in Seq(Stage) /\ l # <<>>
    BY InterpreterAssumption
  <2> QED
    BY <1>1, <1>3, <2>1, <2>2, <2>3 DEF ReadEof
<1>4. CASE Exit \/ ForkFails \/ WriteKilled
  BY <1>4 DEF Exit, ForkFails, WriteKilled
<1>5. CASE Fork
  <2>1. stage \in 1 .. Len(line)
    BY <1>5 DEF Fork, StageInv
  <2>2. Own(stage) \in Seq(Block)
    BY <2>1, OwnType
  <2>3. Append(copied, buffered) \in Seq(Seq(Block))
    OBVIOUS
  <2> QED
    BY <1>5, <2>2, <2>3 DEF Fork
<1>6. CASE WriteInput
  BY <1>6, EmptySeq DEF WriteInput, Cleared
<1>7. CASE ReadOutput
  <2>1. CASE UNCHANGED <<data, outPipe>>
    BY <1>7, <2>1 DEF ReadOutput
  <2>2. ASSUME NEW k \in 1 .. Len(outPipe),
               data' = SubSeq(outPipe, 1, k) \o SubSeq(data, k + 1, Len(data)),
               outPipe' = SubSeq(outPipe, k + 1, Len(outPipe))
        PROVE  TypeInv'
    <3>1. Len(outPipe) \in Nat /\ Len(data) \in Nat
      BY LenProperties
    <3>2. SubSeq(outPipe, 1, k) \in Seq(Block) /\ SubSeq(data, k + 1, Len(data)) \in Seq(Block)
      BY <3>1
    <3>3. data' \in Seq(Block)
      BY <2>2, <3>2, ConcatProperties
    <3>4. outPipe' \in Seq(Block)
      BY <2>2, <3>1
    <3> QED
      BY <1>7, <3>3, <3>4 DEF ReadOutput
  <2> QED
    BY <1>7, <2>1, <2>2 DEF ReadOutput
<1>8. CASE Wait
  <2>1. stage \in Nat
    BY <1>8 DEF Wait, StageInv
  <2>2. Said(stage) \in Seq(Block)
    BY <2>1, SaidType
  <2>3. buffered' \in Seq(Block)
    BY <1>8, <2>2, BuffersType, EmptySeq DEF Wait
  <2> QED
    BY <1>8, <2>3, EmptySeq DEF Wait
<1>9. CASE CommandReads
  <2>1. Tail(inPipe) \in Seq(Block) /\ Head(inPipe) \in Block
    BY <1>9, HeadTailProperties DEF CommandReads
  <2>2. <<Head(inPipe)>> \in Seq(Block)
    BY <2>1
  <2> QED
    BY <1>9, <2>1, <2>2 DEF CommandReads
<1>10. CASE CommandWrites
  <2>1. Append(outPipe, Head(hold)) \in Seq(Block) /\ Tail(hold) \in Seq(Block)
    BY <1>10, PassesOn DEF CommandWrites
  <2> QED
    BY <1>10, <2>1 DEF CommandWrites
<1>11. CASE CommandEnds
  BY <1>11 DEF CommandEnds
<1>12. CASE UNCHANGED vars
  BY <1>12 DEF vars
<1>13. CASE ShowOutput
  <2>1. buffered' \in Seq(Block)
    BY <1>13, BuffersType DEF ShowOutput
  <2> QED
    BY <1>13, <2>1 DEF ShowOutput
<1> QED
  BY <1>2, <1>3, <1>4, <1>5, <1>6, <1>7, <1>8, <1>9, <1>10, <1>11, <1>12, <1>13
     DEF Next, Shell, Command

LEMMA StageStep == TypeInv /\ StageInv /\ [Next]_vars => StageInv'
<1> SUFFICES ASSUME TypeInv, StageInv, [Next]_vars
             PROVE  StageInv'
  OBVIOUS
<1>1. Len(line) \in Nat
  BY LenProperties DEF TypeInv
<1> USE DEF StageInv, loop, pipes, child, stdio, Transition
<1>2. ASSUME NEW l, l = <<>> \/ 1 \in 1 .. Len(l), Run(l) PROVE StageInv'
  BY <1>2 DEF Run
<1>3. CASE ReadLine
  <2>1. \A l \in Lines : 1 \in 1 .. Len(l)
    <3>1. \A l \in Lines : l \in Seq(Stage) /\ l # <<>>
      BY InterpreterAssumption
    <3>2. \A l \in Lines : Len(l) \in Nat \ {0}
      BY <3>1, EmptySeq
    <3> QED
      BY <3>2
  <2> QED
    BY <1>2, <1>3, <2>1 DEF ReadLine
<1>4. CASE ReadEof
  <2>1. \A s : 1 \in 1 .. Len(<<s>>)
    OBVIOUS
  <2> QED
    BY <1>2, <1>4, <2>1 DEF ReadEof
<1>5. CASE Exit \/ ForkFails \/ WriteKilled \/ ShowOutput
  BY <1>5 DEF Exit, ForkFails, WriteKilled, ShowOutput
<1>6. CASE Fork
  BY <1>6 DEF Fork
<1>7. CASE WriteInput
  BY <1>7 DEF WriteInput
<1>8. CASE ReadOutput
  BY <1>8 DEF ReadOutput
<1>9. CASE Wait
  BY <1>1, <1>9 DEF Wait
<1>10. CASE CommandReads
  BY <1>10 DEF CommandReads
<1>11. CASE CommandWrites
  BY <1>11 DEF CommandWrites
<1>12. CASE CommandEnds
  BY <1>12 DEF CommandEnds
<1>13. CASE UNCHANGED vars
  BY <1>13 DEF vars
<1> QED
  BY <1>3, <1>4, <1>5, <1>6, <1>7, <1>8, <1>9, <1>10, <1>11, <1>12, <1>13
     DEF Next, Shell, Command

(* The first stage starts with a clear buffer.                             *)
LEMMA FirstClear ==
    ASSUME LineInv, at = "fork", stage = 1
    PROVE  data = <<>>
<1>1. IsPrefix(data, <<>>)
  <2>1. line \in Seq(Stage)
    BY DEF LineInv, TypeInv
  <2>2. Results[stage - 1] = <<>>
    BY <2>1, ResultsAre
  <2> QED
    BY <2>2 DEF LineInv, OutputInv, PassedOn
<1>2. data \in Seq(Block) /\ <<>> \in Seq(Block) /\ Len(<<>>) = 0
  BY EmptySeq DEF LineInv, TypeInv
<1>3. Len(data) <= 0
  BY <1>1, <1>2, PrefixAt
<1> QED
  BY <1>2, <1>3, EmptySeq

LEMMA SizeStep == LineInv /\ [Next]_vars => SizeInv'
<1> SUFFICES ASSUME LineInv, [Next]_vars
             PROVE  SizeInv'
  OBVIOUS
<1>1. /\ PipeCap \in Nat
      /\ data \in Seq(Block) /\ outPipe \in Seq(Block) /\ hold \in Seq(Block)
      /\ Len(data) \in Nat /\ Len(outPipe) \in Nat
  BY InterpreterAssumption, LenProperties DEF LineInv, TypeInv
<1>2. Len(<<>>) = 0 /\ SizeInv
  BY EmptySeq DEF LineInv
<1> USE DEF SizeInv, loop, pipes, child, stdio, Transition
<1>3. ASSUME NEW l, Run(l) PROVE SizeInv'
  BY <1>1, <1>2, <1>3 DEF Run
<1>4. CASE ReadLine \/ ReadEof
  BY <1>3, <1>4 DEF ReadLine, ReadEof
<1>5. CASE Exit \/ ForkFails \/ WriteKilled \/ ShowOutput
  BY <1>2, <1>5 DEF Exit, ForkFails, WriteKilled, ShowOutput
<1>6. CASE Fork
  BY <1>2, <1>6, FirstClear DEF Fork
<1>7. CASE WriteInput
  BY <1>2, <1>7 DEF WriteInput, Cleared
<1>8. CASE ReadOutput
  <2>1. CASE UNCHANGED <<data, outPipe>>
    BY <1>1, <1>2, <1>8, <2>1 DEF ReadOutput
  <2>2. ASSUME NEW k \in 1 .. Len(outPipe),
               data' = SubSeq(outPipe, 1, k) \o SubSeq(data, k + 1, Len(data)),
               outPipe' = SubSeq(outPipe, k + 1, Len(outPipe))
        PROVE  SizeInv'
    <3>1. data = <<>>
      BY <1>2, <1>8 DEF ReadOutput
    <3>2. SubSeq(data, k + 1, Len(data)) = <<>>
      BY <1>1, <1>2, <3>1, SubSeqEmpty
    <3>3. SubSeq(outPipe, 1, k) \in Seq(Block) /\ Len(SubSeq(outPipe, 1, k)) = k
      BY <1>1
    <3>4. data' = SubSeq(outPipe, 1, k)
      BY <2>2, <3>2, <3>3, ConcatEmptySeq
    <3>5. Len(outPipe') <= PipeCap
      BY <1>1, <1>2, <2>2
    <3> QED
      BY <1>1, <1>2, <1>8, <3>3, <3>4, <3>5 DEF ReadOutput
  <2> QED
    BY <1>8, <2>1, <2>2 DEF ReadOutput
<1>9. CASE Wait
  BY <1>1, <1>2, <1>9 DEF Wait
<1>10. CASE CommandReads
  BY <1>2, <1>10 DEF CommandReads
<1>11. CASE CommandWrites
  <2>1. Len(Append(outPipe, Head(hold))) = Len(outPipe) + 1
    BY <1>1, <1>11, PassesOn DEF CommandWrites
  <2> QED
    BY <1>1, <1>2, <1>11, <2>1 DEF CommandWrites
<1>12. CASE CommandEnds
  BY <1>2, <1>12 DEF CommandEnds
<1>13. CASE UNCHANGED vars
  BY <1>2, <1>13 DEF vars
<1> QED
  BY <1>4, <1>5, <1>6, <1>7, <1>8, <1>9, <1>10, <1>11, <1>12, <1>13
     DEF Next, Shell, Command

(* What the buffer held at the fork of a stage is what it would have had.  *)
LEMMA SameSteps ==
    ASSUME TypeInv, StageInv,
           \/ Fork \/ WriteInput \/ WriteKilled \/ ReadOutput \/ Command \/ UNCHANGED vars
    PROVE  Same
<1> USE DEF loop, pipes, child, stdio, Transition
<1>1. CASE Fork
  <2>1. /\ UNCHANGED <<lines, line, stage, buffered>> /\ copied' = Append(copied, buffered)
        /\ copied \in Seq(Seq(Block)) /\ buffered \in Seq(Block)
    BY <1>1 DEF Fork, TypeInv
  <2>2. /\ DOMAIN copied' = DOMAIN copied \cup {Len(copied) + 1}
        /\ Len(copied) + 1 \notin DOMAIN copied
        /\ copied'[Len(copied) + 1] = buffered
        /\ \A i \in DOMAIN copied : copied'[i] = copied[i]
    BY <2>1
  <2> QED
    BY <2>1, <2>2 DEF Same, Copy
<1>2. CASE WriteInput \/ WriteKilled \/ ReadOutput \/ Command \/ UNCHANGED vars
  <2>1. UNCHANGED <<lines, line, stage, buffered, copied>>
    BY <1>2 DEF WriteInput, WriteKilled, ReadOutput, Command, CommandReads, CommandWrites,
                CommandEnds, vars
  <2> QED
    BY <2>1 DEF Same, Copy
<1> QED
  BY <1>1, <1>2

(* While the line and its stage stay, so does what they stand for.         *)
LEMMA SameStage ==
    ASSUME Same
    PROVE  /\ Results[stage - 1]' = Results[stage - 1] /\ Results[stage]' = Results[stage]
           /\ Own(stage)' = Own(stage) /\ Kind' = Kind
<1>1. Results' = Results
  BY ResultsStay
<1>2. Own(stage)' = Own(stage) /\ Kind' = Kind
  BY DEF Same, Own, Said, Kind
<1> QED
  BY <1>1, <1>2 DEF Same

LEMMA OutputStep == LineInv /\ [Next]_vars => OutputInv'
<1> SUFFICES ASSUME LineInv, [Next]_vars
             PROVE  OutputInv'
  OBVIOUS
<1>1. /\ TypeInv /\ line \in Seq(Stage) /\ data \in Seq(Block) /\ inPipe \in Seq(Block)
      /\ outPipe \in Seq(Block) /\ hold \in Seq(Block) /\ line' \in Seq(Stage)
      /\ command \in {"none", "running", "ended"}
  <2>1. TypeInv'
    BY TypeStep DEF LineInv
  <2> QED
    BY <2>1 DEF LineInv, TypeInv
<1>2. StageInv /\ SizeInv /\ StageOutput /\ PassedOn
  BY DEF LineInv, OutputInv
<1>3. at \in {"fork", "write", "read", "wait", "print"} =>
        /\ stage \in 1 .. Len(line) /\ stage - 1 \in 0 .. Len(line)
        /\ Results[stage - 1] \in Seq(Block) /\ Results[stage] \in Seq(Block)
        /\ Own(stage) \in Seq(Block)
        /\ Kind \in {"cat", "head"} => Own(stage) = <<>>
  <2>1. Len(line) \in Nat
    BY <1>1, LenProperties
  <2>2. ASSUME at \in {"fork", "write", "read", "wait", "print"}
        PROVE  stage \in 1 .. Len(line) /\ stage - 1 \in 0 .. Len(line) /\ stage \in 0 .. Len(line)
    BY <1>2, <2>1, <2>2 DEF StageInv
  <2> QED
    BY <1>1, <2>2, ResultsType, OwnType DEF Kind
<1> USE DEF loop, pipes, child, stdio, Transition
<1>4. ASSUME at' \notin {"fork", "write", "read", "wait", "print"} PROVE OutputInv'
  BY <1>4 DEF OutputInv, StageOutput, PassedOn
<1>5. ASSUME NEW l, Run(l) PROVE OutputInv'
  <2>1. (line \in Seq(Stage) =>
            /\ Results[0] = <<>>
            /\ \A i \in 1 .. Len(line) : Results[i] = Result(i, Results[i - 1]))'
    BY ResultsFormula, PTL
  <2>2. CASE l = <<>>
    BY <1>4, <1>5, <2>2 DEF Run
  <2>3. CASE l # <<>>
    <3>1. at' = "fork" /\ stage' = 1 /\ data' = <<>>
      BY <1>5, <2>3 DEF Run
    <3>2. IsPrefix(<<>>, <<>>)
      BY EmptySeq, PrefixOfEmpty
    <3>3. Results'[stage' - 1] = <<>>
      BY <1>1, <2>1, <3>1
    <3> QED
      BY <3>1, <3>2, <3>3 DEF OutputInv, StageOutput, PassedOn
  <2> QED
    BY <2>2, <2>3
<1>6. CASE ReadLine \/ ReadEof
  BY <1>5, <1>6 DEF ReadLine, ReadEof
<1>7. CASE Exit \/ ForkFails \/ WriteKilled \/ ShowOutput
  BY <1>4, <1>7 DEF Exit, ForkFails, WriteKilled, ShowOutput
<1> DEFINE Good(running, out, held, unread) ==
             InOrder(Kind, running, out, held, unread, Results[stage - 1], Own(stage))
<1>8. ASSUME Same, at' \in {"write", "read"},
             Good(command' = "running", outPipe', hold',
                  IF at' = "write" THEN data' ELSE inPipe'),
             at' = "write" /\ Kind \in {"cat", "head"} => outPipe' = <<>> /\ hold' = <<>>
      PROVE  OutputInv'
  <2>1. /\ Results[stage - 1]' = Results[stage - 1]
        /\ Own(stage)' = Own(stage) /\ Kind' = Kind
    BY <1>8, SameStage
  <2> QED
    BY <1>8, <2>1 DEF OutputInv, StageOutput, PassedOn
<1>9. ASSUME UNCHANGED <<at, data>>, Same, at \notin {"write", "read"} PROVE OutputInv'
  <2>1. Results[stage - 1]' = Results[stage - 1] /\ Results[stage]' = Results[stage]
    BY <1>9, SameStage
  <2> QED
    BY <1>2, <1>9, <2>1 DEF OutputInv, StageOutput, PassedOn
<1>10. CASE Fork
  <2>0. Same
    BY <1>1, <1>2, <1>10, SameSteps
  <2>1. /\ at = "fork" /\ at' \in {"write", "read"} /\ command' = "running"
        /\ outPipe' = <<>> /\ hold' = Own(stage) /\ inPipe' = <<>> /\ data' = data
        /\ UNCHANGED <<line, stage>>
    BY <1>2, <1>10 DEF Fork, StageInv
  <2>2. IsPrefix(data, Results[stage - 1]) /\ IsPrefix(<<>>, Results[stage - 1])
    BY <1>2, <1>3, <2>1, PrefixOfEmpty DEF PassedOn
  <2> PICK u \in Seq(Block) : u = IF at' = "write" THEN data' ELSE inPipe'
    BY <1>1, <2>1, EmptySeq
  <2>3. IsPrefix(u, Results[stage - 1])
    BY <2>1, <2>2
  <2>4. Good(TRUE, <<>>, Own(stage), u)
    BY <1>3, <2>1, <2>3, Starts
  <2>5. Good(command' = "running", outPipe', hold', u)
    BY <2>1, <2>4
  <2>6. Kind \in {"cat", "head"} => outPipe' = <<>> /\ hold' = <<>>
    BY <1>3, <2>1
  <2> QED
    BY <1>8, <2>0, <2>1, <2>5, <2>6
<1>11. CASE WriteInput
  <2>0. Same
    BY <1>1, <1>2, <1>11, SameSteps
  <2>1. /\ at = "write" /\ at' = "read" /\ inPipe' = data
        /\ UNCHANGED <<line, stage, command, outPipe, hold>>
    BY <1>11 DEF WriteInput
  <2>2. Good(command = "running", outPipe, hold, data)
    BY <1>2, <2>1 DEF StageOutput
  <2>3. Good(command' = "running", outPipe', hold', IF at' = "write" THEN data' ELSE inPipe')
    BY <2>1, <2>2
  <2> QED
    BY <1>8, <2>0, <2>1, <2>3
<1>12. CASE ReadOutput
  <2>0. Same
    BY <1>1, <1>2, <1>12, SameSteps
  <2>1. at = "read" /\ at' = "wait" /\ UNCHANGED <<line, stage>> /\ data = <<>>
    BY <1>2, <1>12 DEF ReadOutput, SizeInv
  <2>2. Good(command = "running", outPipe, hold, inPipe)
    BY <1>2, <2>1 DEF StageOutput
  <2>3. IsPrefix(outPipe, Results[stage])
    <3>1. TypeInv
      BY DEF LineInv
    <3>2. stage \in 1 .. Len(line)
      BY <1>3, <2>1
    <3> PICK i \in 1 .. Len(line) : i = stage
      BY <3>2
    <3>3. InOrder(line[i].kind, command = "running", outPipe, hold, inPipe,
                  Results[i - 1], Own(i))
      BY <2>2 DEF Kind
    <3>4. IsPrefix(outPipe, Results[i])
      BY <1>1, <3>1, <3>3, WrittenIsResult
    <3> QED
      BY <3>4
  <2>4. IsPrefix(data', Results[stage])
    <3>1. CASE data' = data
      BY <1>3, <2>1, <3>1, PrefixOfEmpty
    <3>2. ASSUME NEW k \in 1 .. Len(outPipe),
                 data' = SubSeq(outPipe, 1, k) \o SubSeq(data, k + 1, Len(data))
          PROVE  IsPrefix(data', Results[stage])
      <4>1. Len(outPipe) \in Nat /\ Len(data) = 0 /\ k \in 0 .. Len(outPipe)
        BY <1>1, <2>1, LenProperties, EmptySeq
      <4>2. SubSeq(data, k + 1, Len(data)) = <<>>
        BY <4>1, SubSeqEmpty
      <4>3. SubSeq(outPipe, 1, k) \in Seq(Block) /\ IsPrefix(SubSeq(outPipe, 1, k), Results[stage])
        BY <1>1, <1>3, <2>1, <2>3, <4>1, PrefixCut
      <4>4. data' = SubSeq(outPipe, 1, k)
        BY <3>2, <4>2, <4>3, ConcatEmptySeq
      <4> QED
        BY <4>3, <4>4
    <3> QED
      BY <1>12, <3>1, <3>2 DEF ReadOutput
  <2>5. Results[stage]' = Results[stage]
    BY <2>0, SameStage
  <2> QED
    BY <2>1, <2>4, <2>5 DEF OutputInv, StageOutput, PassedOn
<1>13. CASE Wait
  <2>1. /\ at = "wait" /\ UNCHANGED <<lines, line, data, copied>>
        /\ \/ at' = "fork" /\ stage' = stage + 1
           \/ at' = "print" /\ stage' = stage
    BY <1>13 DEF Wait
  <2>2. stage \in Nat /\ stage \in 0 .. Len(line) /\ Len(copied) = stage
    BY <1>2, <1>3, <2>1 DEF StageInv
  <2>3. \A i \in 1 .. stage : Copy(i)' = Copy(i)
    <3>1. DOMAIN copied = 1 .. stage
      BY <1>1, <2>2 DEF TypeInv
    <3> QED
      BY <2>1, <3>1 DEF Copy
  <2> PICK n \in 0 .. Len(line) : n = stage
    BY <2>2
  <2>4. Results'[n] = Results[n]
    BY <1>1, <2>1, <2>3, ResultsUpto
  <2>5. IsPrefix(data, Results[n])
    BY <1>2, <2>1 DEF PassedOn
  <2>6. at' = "fork" => stage' - 1 = n
    BY <2>1, <2>2
  <2> QED
    BY <2>1, <2>4, <2>5, <2>6 DEF OutputInv, StageOutput, PassedOn
<1>14. CASE CommandReads
  <2>0. Same
    BY <1>1, <1>2, <1>14, SameSteps DEF Command
  <2>1. /\ command = "running" /\ hold = <<>> /\ Kind \in {"cat", "head"} /\ inPipe # <<>>
        /\ hold' = <<Head(inPipe)>> /\ inPipe' = Tail(inPipe)
        /\ UNCHANGED <<at, line, stage, data, outPipe, command>>
    BY <1>14 DEF CommandReads
  <2>2. CASE at \notin {"write", "read"}
    BY <1>9, <2>0, <2>1, <2>2
  <2>3. CASE at = "write"
    BY <1>2, <2>1, <2>3 DEF StageInv
  <2>4. CASE at = "read"
    <3>1. Good(TRUE, outPipe, <<>>, inPipe)
      BY <1>2, <2>1, <2>4 DEF StageOutput
    <3>2. Good(TRUE, outPipe, <<Head(inPipe)>>, Tail(inPipe))
      BY <1>1, <1>3, <2>1, <2>4, <3>1, Reads
    <3>3. Good(command' = "running", outPipe', hold',
               IF at' = "write" THEN data' ELSE inPipe')
      BY <2>1, <2>4, <3>2
    <3> QED
      BY <1>8, <2>0, <2>1, <2>4, <3>3
  <2> QED
    BY <2>2, <2>3, <2>4
<1>15. CASE CommandWrites
  <2>0. Same
    BY <1>1, <1>2, <1>15, SameSteps DEF Command
  <2>1. /\ command = "running" /\ hold # <<>>
        /\ outPipe' = Append(outPipe, Head(hold)) /\ hold' = Tail(hold)
        /\ command' = IF Kind = "head" THEN "ended" ELSE "running"
        /\ UNCHANGED <<at, line, stage, data, inPipe>>
    BY <1>15 DEF CommandWrites
  <2>2. CASE at \notin {"write", "read"}
    BY <1>9, <2>0, <2>1, <2>2
  <2>3. CASE at \in {"write", "read"}
    <3> PICK u : u = IF at = "write" THEN data ELSE inPipe
      OBVIOUS
    <3>1. Good(TRUE, outPipe, hold, u)
      BY <1>2, <2>1, <2>3 DEF StageOutput
    <3> PICK running : running = (command' = "running")
      OBVIOUS
    <3>2. Kind = "head" => ~running
      BY <2>1
    <3>3. Good(running, Append(outPipe, Head(hold)), Tail(hold), u)
      <4>1. outPipe \in Seq(Block) /\ hold \in Seq(Block) /\ hold # <<>>
        BY <1>1, <2>1
      <4> QED
        BY <3>1, <3>2, <4>1, Writes
    <3>4. Good(command' = "running", outPipe', hold',
               IF at' = "write" THEN data' ELSE inPipe')
      BY <2>1, <3>3
    <3>5. ~(at = "write" /\ Kind \in {"cat", "head"})
      BY <1>2, <2>1 DEF StageOutput
    <3> QED
      BY <1>8, <2>0, <2>1, <2>3, <3>4, <3>5
  <2> QED
    BY <2>2, <2>3
<1>16. CASE CommandEnds
  <2>0. Same
    BY <1>1, <1>2, <1>16, SameSteps DEF Command
  <2>1. command' = "ended" /\ UNCHANGED <<at, line, stage, data, inPipe, outPipe, hold>>
    BY <1>16 DEF CommandEnds
  <2>2. CASE at \notin {"write", "read"}
    BY <1>9, <2>0, <2>1, <2>2
  <2>3. CASE at \in {"write", "read"}
    <3> PICK u : u = IF at = "write" THEN data ELSE inPipe
      OBVIOUS
    <3>1. Good(command = "running", outPipe, hold, u)
      BY <1>2, <2>3 DEF StageOutput
    <3>2. Good(FALSE, outPipe, hold, u)
      BY <3>1, Ends
    <3>3. (command' = "running") = FALSE
      BY <2>1
    <3>4. Good(command' = "running", outPipe', hold',
               IF at' = "write" THEN data' ELSE inPipe')
      BY <2>1, <3>2, <3>3
    <3>5. at = "write" /\ Kind \in {"cat", "head"} => outPipe = <<>> /\ hold = <<>>
      BY <1>2 DEF StageOutput
    <3> QED
      BY <1>8, <2>0, <2>1, <2>3, <3>4, <3>5
  <2> QED
    BY <2>2, <2>3
<1>17. CASE UNCHANGED vars
  <2>0. Same
    BY <1>1, <1>2, <1>17, SameSteps
  <2>1. UNCHANGED <<at, line, stage, data, inPipe, outPipe, hold, command>>
    BY <1>17 DEF vars
  <2>2. CASE at \notin {"write", "read"}
    BY <1>9, <2>0, <2>1, <2>2
  <2>3. CASE at \in {"write", "read"}
    BY <1>2, <1>8, <2>0, <2>1, <2>3 DEF StageOutput
  <2> QED
    BY <2>2, <2>3
<1> QED
  BY <1>6, <1>7, <1>10, <1>11, <1>12, <1>13, <1>14, <1>15, <1>16, <1>17
     DEF Next, Shell, Command

-----------------------------------------------------------------------------
(* TerminalInv.                                                            *)
LEMMA TerminalStep == TypeInv /\ StageInv /\ TerminalInv /\ [Next]_vars => TerminalInv'
<1> SUFFICES ASSUME TypeInv, StageInv, TerminalInv, [Next]_vars
             PROVE  TerminalInv'
  OBVIOUS
<1> USE DEF TerminalInv, loop, pipes, child, stdio, Transition
<1>1. ASSUME NEW l, Run(l) PROVE TerminalInv'
  BY <1>1 DEF Run
<1>2. CASE ReadLine \/ ReadEof
  BY <1>1, <1>2 DEF ReadLine, ReadEof
<1>3. CASE Fork
  <2>1. /\ copied' = Append(copied, buffered) /\ at' # "fork" /\ UNCHANGED terminal
        /\ copied \in Seq(Seq(Block)) /\ buffered \in Seq(Block) /\ Len(copied) = stage - 1
        /\ stage \in Nat /\ (terminal /\ stage > 1 => buffered = <<>>)
    BY <1>3 DEF Fork, TypeInv, StageInv
  <2>2. /\ Len(copied') = stage /\ copied'[stage] = buffered
        /\ \A i \in 1 .. stage - 1 : copied'[i] = copied[i]
    BY <2>1
  <2>3. \A i \in 2 .. stage : i \in 2 .. stage - 1 \/ (i = stage /\ stage > 1)
    BY <2>1
  <2> QED
    BY <2>1, <2>2, <2>3
<1>4. CASE Wait
  BY <1>4 DEF Wait
<1>5. CASE Exit \/ ForkFails \/ WriteKilled \/ ShowOutput \/ WriteInput \/ ReadOutput
  BY <1>5 DEF Exit, ForkFails, WriteKilled, ShowOutput, WriteInput, ReadOutput
<1>6. CASE Command \/ UNCHANGED vars
  BY <1>6 DEF Command, CommandReads, CommandWrites, CommandEnds, vars
<1> QED
  BY <1>2, <1>3, <1>4, <1>5, <1>6 DEF Next, Shell

(* At a terminal a line whose first stage can be executed has text of its  *)
(* own only.                                                               *)
LEMMA OwnText ==
    ASSUME LineInv, at = "print", terminal, line[1].kind # "fails"
    PROVE  \A k \in DOMAIN data : data[k][1] = lines
<1> DEFINE S == {b \in Block : b[1] = lines}
<1>1. /\ TypeInv /\ line \in Seq(Stage) /\ Len(line) \in Nat /\ stage = Len(line)
      /\ lines \in Nat /\ Len(copied) = Len(line) /\ copied \in Seq(Seq(Block))
      /\ \A i \in 2 .. Len(copied) : copied[i] = <<>>
      /\ data \in Seq(Block) /\ IsPrefix(data, Results[stage])
  BY LenProperties DEF LineInv, TypeInv, StageInv, TerminalInv, OutputInv, PassedOn
<1>2. ASSUME NEW i \in 1 .. Len(line) PROVE Own(i) \in Seq(S)
  <2>1. \A k \in Nat : <<lines, i, k>> \in S
    BY <1>1 DEF Block
  <2>2. Said(i) \in Seq(S) /\ <<>> \in Seq(S)
    BY <2>1 DEF Said
  <2>3. CASE line[i].kind = "source"
    <3>1. line[i].n \in Nat
      <4>1. line[i] \in Stage
        BY <1>1, ElementOfSeq
      <4> QED
        BY <4>1 DEF Stage
    <3>2. [k \in 1 .. line[i].n |-> <<lines, i, k>>] \in Seq(S)
      BY <2>1, <3>1
    <3> QED
      BY <2>3, <3>2 DEF Own
  <2>4. CASE line[i].kind = "fails"
    <3>1. i # 1
      BY <2>4
    <3>2. i \in DOMAIN copied /\ copied[i] = <<>>
      BY <1>1, <3>1
    <3>3. Own(i) = <<>> \o Said(i)
      BY <2>4, <3>1, <3>2 DEF Own, Copy
    <3> QED
      BY <2>2, <3>3, ConcatEmptySeq
  <2>5. CASE line[i].kind \notin {"source", "fails"}
    BY <2>2, <2>5 DEF Own
  <2> QED
    BY <2>3, <2>4, <2>5
<1> HIDE DEF S
<1> PICK u \in Seq(S) : u = Results[stage]
  <2>1. stage \in 0 .. Len(line)
    BY <1>1
  <2> QED
    BY <1>1, <1>2, <2>1, ResultsIn
<1>3. u \in Seq(Block)
  BY DEF S
<1>4. Len(data) <= Len(u) /\ \A k \in 1 .. Len(data) : data[k] = u[k]
  BY <1>1, <1>3, PrefixAt
<1>5. ASSUME NEW k \in DOMAIN data PROVE data[k][1] = lines
  <2>1. k \in 1 .. Len(u) /\ data[k] = u[k]
    BY <1>1, <1>4, LenProperties
  <2>2. u[k] \in S
    BY <2>1, ElementOfSeq
  <2> QED
    BY <2>1, <2>2 DEF S
<1> QED
  BY <1>5

LEMMA InvInit == Init => LineInv
<1> SUFFICES ASSUME Init PROVE LineInv
  OBVIOUS
<1>1. <<>> \in Seq(Stage) /\ <<>> \in Seq(Block) /\ Len(<<>>) = 0
  BY EmptySeq
<1>2. TypeInv /\ StageInv
  BY <1>1 DEF Init, TypeInv, StageInv
<1>3. SizeInv
  BY <1>1, InterpreterAssumption DEF Init, SizeInv
<1>4. OutputInv
  BY DEF Init, OutputInv, StageOutput, PassedOn
<1>5. TerminalInv
  BY <1>1 DEF Init, TerminalInv
<1> QED
  BY <1>2, <1>3, <1>4, <1>5 DEF LineInv

LEMMA InvHolds == Spec => []LineInv
<1>1. LineInv /\ [Next]_vars => LineInv'
  BY TypeStep, StageStep, SizeStep, TerminalStep, OutputStep DEF LineInv
<1> QED
  BY InvInit, <1>1, PTL DEF Spec

(* Writing the input of a stage never blocks: what one read() took from a  *)
(* pipe fits into the next pipe.                                           *)
THEOREM InputFitsHolds == Spec => []InputFits
<1>1. LineInv => InputFits
  BY DEF LineInv, SizeInv, InputFits
<1> QED
  BY InvHolds, <1>1, PTL

(* What a line prints is a prefix of what its pipeline computes, for any   *)
(* pipeline and however its stages and the interpreter are scheduled, and  *)
(* at a terminal text of an earlier line is in it only if the first stage  *)
(* cannot be executed.                                                     *)
THEOREM PrefixPrintedHolds == Spec => []PrefixPrinted
<1>1. LineInv => PrefixPrinted
  BY OwnText DEF LineInv, OutputInv, PassedOn, StageInv, PrefixPrinted
<1> QED
  BY InvHolds, <1>1, PTL
-----------------------------------------------------------------------------
(* Who waits for whom.  Nothing is read from while its command does not    *)
(* run, and of the commands that read none ends before its input is there. *)
AliveInv ==
    /\ \A i \in 2 .. Len(line) : line[i].kind # "redirect"
    /\ at \in {"write", "read", "wait"} => command # "none"
    /\ at = "write" =>
          /\ stage > 1 /\ IsPrefix(data, Results[stage - 1])
          /\ Kind \in {"cat", "head"} => command = "running"
    /\ at = "killed" => KilledByDeafStage /\ command = "ended"

(* What was read, what is in the pipes and what a command holds is no more *)
(* than the result of its stage; head writes the last it has.              *)
WaitInv ==
    at = "wait" =>
        CASE Kind = "cat"  -> Len(data) + Len(outPipe) + Len(hold) + Len(inPipe)
                                  <= Len(Results[stage])
          [] Kind = "head" -> command = "running" => outPipe = <<>>
          [] OTHER         -> Len(data) + Len(outPipe) + Len(hold) <= Len(Results[stage])

LEMMA AliveStep == LineInv /\ AliveInv /\ [Next]_vars => AliveInv'
<1> SUFFICES ASSUME LineInv, AliveInv, [Next]_vars
             PROVE  AliveInv'
  OBVIOUS
<1>1. /\ TypeInv /\ line \in Seq(Stage) /\ Len(line) \in Nat /\ data \in Seq(Block)
      /\ command \in {"none", "running", "ended"}
  BY LenProperties DEF LineInv, TypeInv
<1>2. StageInv /\ StageOutput /\ PassedOn
  BY DEF LineInv, OutputInv
<1> USE DEF loop, pipes, child, stdio, Transition
<1>3. ASSUME NEW l, Run(l), \A i \in 2 .. Len(l) : l[i].kind # "redirect"
      PROVE  AliveInv'
  BY <1>3 DEF Run, AliveInv
<1>4. CASE ReadLine \/ ReadEof
  <2>1. \A s : Len(<<s>>) = 1
    OBVIOUS
  <2>2. \A s : \A i \in 2 .. Len(<<s>>) : <<s>>[i].kind # "redirect"
    BY <2>1
  <2>3. \A i \in 2 .. Len(<<>>) : <<>>[i].kind # "redirect"
    BY EmptySeq
  <2>4. \A l \in Lines : \A i \in 2 .. Len(l) : l[i].kind # "redirect"
    BY InterpreterAssumption
  <2> QED
    BY <1>3, <1>4, <2>2, <2>3, <2>4 DEF ReadLine, ReadEof
<1>5. CASE Exit \/ ForkFails \/ ShowOutput \/ Wait
  BY <1>5 DEF Exit, ForkFails, ShowOutput, Wait, AliveInv
<1>6. CASE Fork
  <2>0. Same
    BY <1>1, <1>2, <1>6, SameSteps
  <2>1. /\ at = "fork" /\ stage \in 1 .. Len(line) /\ command' = "running"
        /\ at' = IF stage = 1 THEN "read" ELSE "write"
        /\ UNCHANGED <<line, stage, data>>
    BY <1>2, <1>6 DEF Fork, StageInv
  <2>2. Results[stage - 1]' = Results[stage - 1]
    BY <2>0, SameStage
  <2>3. at' = "write" => stage > 1 /\ IsPrefix(data, Results[stage - 1])
    BY <1>1, <1>2, <2>1 DEF PassedOn
  <2> QED
    BY <2>1, <2>2, <2>3 DEF AliveInv
<1>7. CASE WriteInput \/ ReadOutput
  BY <1>7 DEF WriteInput, ReadOutput, AliveInv
<1>8. CASE WriteKilled
  <2>0. Same
    BY <1>1, <1>2, <1>8, SameSteps
  <2>1. /\ at = "write" /\ at' = "killed" /\ command = "ended" /\ data # <<>>
        /\ UNCHANGED <<line, stage, command>>
    BY <1>8 DEF WriteKilled
  <2>2. Kind \in {"source", "fails"}
    <3>1. stage \in 2 .. Len(line)
      BY <1>1, <1>2, <2>1 DEF StageInv, AliveInv
    <3>2. Kind # "redirect" /\ Kind \notin {"cat", "head"}
      BY <2>1, <3>1 DEF AliveInv, Kind
    <3>3. line[stage] \in Stage
      BY <1>1, <3>1, ElementOfSeq
    <3> QED
      BY <3>2, <3>3 DEF Stage, Kind
  <2>3. Results[stage - 1] # <<>>
    <3>1. IsPrefix(data, Results[stage - 1]) /\ stage - 1 \in 0 .. Len(line)
      BY <1>1, <1>2, <2>1 DEF AliveInv, StageInv
    <3>2. Results[stage - 1] \in Seq(Block)
      BY <1>1, <3>1, ResultsType
    <3>3. Len(data) <= Len(Results[stage - 1])
      BY <1>1, <3>1, <3>2, PrefixAt
    <3>4. Len(data) \in Nat \ {0}
      BY <1>1, <2>1, LenProperties, EmptySeq
    <3> QED
      BY <3>3, <3>4
  <2>4. Results[stage - 1]' = Results[stage - 1] /\ Kind' = Kind
    BY <2>0, SameStage
  <2> QED
    BY <2>1, <2>2, <2>3, <2>4 DEF AliveInv, KilledByDeafStage
<1>9. CASE Command
  <2>0. Same
    BY <1>1, <1>2, <1>9, SameSteps
  <2>1. /\ command = "running" /\ command' \in {"running", "ended"}
        /\ UNCHANGED <<at, line, stage, data>>
    BY <1>9 DEF Command, CommandReads, CommandWrites, CommandEnds
  <2>2. Results[stage - 1]' = Results[stage - 1] /\ Kind' = Kind
    BY <2>0, SameStage
  <2>3. at = "write" /\ Kind \in {"cat", "head"} => command' = "running"
    <3>1. CASE CommandReads
      BY <2>1, <3>1 DEF CommandReads
    <3>2. CASE CommandWrites
      BY <1>2, <3>2 DEF CommandWrites, StageOutput
    <3>3. CASE CommandEnds
      BY <3>3 DEF CommandEnds, InputEnds
    <3> QED
      BY <1>9, <3>1, <3>2, <3>3 DEF Command
  <2>4. at # "killed"
    BY <2>1 DEF AliveInv
  <2> QED
    BY <2>1, <2>2, <2>3, <2>4 DEF AliveInv
<1>10. CASE UNCHANGED vars
  <2>0. Same
    BY <1>1, <1>2, <1>10, SameSteps
  <2>1. UNCHANGED <<at, line, stage, data, command>>
    BY <1>10 DEF vars
  <2>2. Results[stage - 1]' = Results[stage - 1] /\ Kind' = Kind
    BY <2>0, SameStage
  <2> QED
    BY <2>1, <2>2 DEF AliveInv, KilledByDeafStage
<1> QED
  BY <1>4, <1>5, <1>6, <1>7, <1>8, <1>9, <1>10 DEF Next, Shell

(* What a stage in order has produced is no longer than its result.        *)
LEMMA Produced ==
    ASSUME NEW kind, NEW running, NEW out \in Seq(Block), NEW held \in Seq(Block),
           NEW unread \in Seq(Block), NEW input \in Seq(Block), NEW own \in Seq(Block),
           InOrder(kind, running, out, held, unread, input, own)
    PROVE  /\ kind = "cat" => Len(out) + Len(held) + Len(unread) <= Len(input)
           /\ kind = "head" /\ running => out = <<>>
           /\ kind \notin {"cat", "head"} => Len(out) + Len(held) <= Len(own)
<1>1. out \o held \in Seq(Block) /\ Len(out \o held) = Len(out) + Len(held)
  BY ConcatProperties
<1>2. /\ (out \o held) \o unread \in Seq(Block)
      /\ Len((out \o held) \o unread) = Len(out \o held) + Len(unread)
  BY <1>1, ConcatProperties
<1>3. CASE kind = "cat"
  <2>1. IsPrefix((out \o held) \o unread, input)
    BY <1>3 DEF InOrder
  <2>2. Len((out \o held) \o unread) <= Len(input)
    BY <1>2, <2>1, PrefixAt
  <2> QED
    BY <1>1, <1>2, <1>3, <2>2
<1>4. CASE kind = "head"
  BY <1>4 DEF InOrder
<1>5. CASE kind \notin {"cat", "head"}
  <2>1. IsPrefix(out \o held, own)
    BY <1>5 DEF InOrder
  <2>2. Len(out \o held) <= Len(own)
    BY <1>1, <2>1, PrefixAt
  <2> QED
    BY <1>1, <1>5, <2>2
<1> QED
  BY <1>3, <1>4, <1>5

LEMMA WaitStep == LineInv /\ WaitInv /\ [Next]_vars => WaitInv'
<1> SUFFICES ASSUME LineInv, WaitInv, [Next]_vars, at' = "wait"
             PROVE  WaitInv'
  BY DEF WaitInv
<1>1. /\ TypeInv /\ StageInv /\ line \in Seq(Stage) /\ data \in Seq(Block) /\ inPipe \in Seq(Block)
      /\ outPipe \in Seq(Block) /\ hold \in Seq(Block)
      /\ Len(line) \in Nat /\ Len(data) \in Nat /\ Len(inPipe) \in Nat
      /\ Len(outPipe) \in Nat /\ Len(hold) \in Nat /\ Len(<<>>) = 0
  BY LenProperties, EmptySeq DEF LineInv, TypeInv
<1> USE DEF loop, pipes, child, stdio, Transition
<1>2. CASE at # "wait"
  <2>1. ReadOutput
    <3>1. ASSUME NEW l, Run(l) PROVE FALSE
      BY <3>1 DEF Run
    <3> QED
      BY <1>2, <3>1 DEF Next, Shell, Command, ReadLine, ReadEof, Exit, ForkFails, Fork, WriteInput,
         WriteKilled, Wait, ShowOutput, CommandReads, CommandWrites, CommandEnds, vars
  <2>2. /\ at = "read" /\ data = <<>> /\ stage \in 1 .. Len(line)
        /\ UNCHANGED <<line, stage, inPipe, hold, command>>
    BY <2>1 DEF ReadOutput, LineInv, SizeInv, StageInv
  <2>3. Results[stage]' = Results[stage] /\ Kind' = Kind
    BY <1>1, <2>1, SameSteps, SameStage
  <2>4. /\ Results[stage - 1] \in Seq(Block) /\ Own(stage) \in Seq(Block)
        /\ Results[stage] = Result(stage, Results[stage - 1])
    <3>1. stage - 1 \in 0 .. Len(line)
      BY <1>1, <2>2
    <3> QED
      BY <1>1, <2>2, <3>1, ResultsType, ResultsAre, OwnType
  <2>5. InOrder(Kind, command = "running", outPipe, hold, inPipe, Results[stage - 1], Own(stage))
    BY <2>2 DEF LineInv, OutputInv, StageOutput
  <2>6. /\ Kind = "cat" => Len(outPipe) + Len(hold) + Len(inPipe) <= Len(Results[stage])
        /\ Kind = "head" /\ command = "running" => outPipe = <<>>
        /\ Kind \notin {"cat", "head"} => Len(outPipe) + Len(hold) <= Len(Results[stage])
    <3>1. /\ Kind = "cat" => Len(outPipe) + Len(hold) + Len(inPipe) <= Len(Results[stage - 1])
          /\ Kind = "head" /\ (command = "running") => outPipe = <<>>
          /\ Kind \notin {"cat", "head"} => Len(outPipe) + Len(hold) <= Len(Own(stage))
      BY <1>1, <2>4, <2>5, Produced
    <3> QED
      BY <2>4, <3>1 DEF Result, Kind
  <2>7. /\ Len(data') + Len(outPipe') = Len(outPipe)
        /\ outPipe = <<>> => outPipe' = <<>>
    <3>1. CASE UNCHANGED <<data, outPipe>>
      BY <1>1, <2>2, <3>1
    <3>2. ASSUME NEW k \in 1 .. Len(outPipe),
                 data' = SubSeq(outPipe, 1, k) \o SubSeq(data, k + 1, Len(data)),
                 outPipe' = SubSeq(outPipe, k + 1, Len(outPipe))
          PROVE  Len(data') + Len(outPipe') = Len(outPipe) /\ outPipe # <<>>
      <4>1. SubSeq(data, k + 1, Len(data)) = <<>>
        BY <1>1, <2>2, SubSeqEmpty
      <4>2. SubSeq(outPipe, 1, k) \in Seq(Block) /\ Len(SubSeq(outPipe, 1, k)) = k
        BY <1>1
      <4>3. data' = SubSeq(outPipe, 1, k)
        BY <3>2, <4>1, <4>2, ConcatEmptySeq
      <4>4. Len(SubSeq(outPipe, k + 1, Len(outPipe))) = Len(outPipe) - k
        BY <1>1
      <4>5. outPipe # <<>>
        BY <1>1
      <4>6. Len(outPipe) \in Nat /\ k \in Nat /\ k <= Len(outPipe)
        BY <1>1
      <4>7. Len(data') = k /\ Len(outPipe') = Len(outPipe) - k
        BY <3>2, <4>2, <4>3, <4>4
      <4> QED
        BY <4>5, <4>6, <4>7
    <3> QED
      BY <2>1, <3>1, <3>2 DEF ReadOutput
  <2>8. Len(data') \in Nat /\ Len(outPipe') \in Nat
    <3>1. TypeInv'
      BY TypeStep DEF LineInv
    <3> QED
      BY <3>1, LenProperties DEF TypeInv
  <2>9. CASE Kind = "cat"
    <3>1. Len(data') + Len(outPipe') + Len(hold) + Len(inPipe) <= Len(Results[stage])
      BY <1>1, <2>6, <2>7, <2>8, <2>9
    <3> QED
      BY <2>2, <2>3, <2>9, <3>1 DEF WaitInv
  <2>10. CASE Kind = "head"
    BY <2>2, <2>3, <2>6, <2>7, <2>10 DEF WaitInv
  <2>11. CASE Kind \notin {"cat", "head"}
    <3>1. Len(data') + Len(outPipe') + Len(hold) <= Len(Results[stage])
      BY <1>1, <2>6, <2>7, <2>8, <2>11
    <3> QED
      BY <2>2, <2>3, <2>11, <3>1 DEF WaitInv
  <2> QED
    BY <2>9, <2>10, <2>11
<1>3. CASE at = "wait"
  <2>1. Command \/ UNCHANGED vars
    <3>1. ASSUME NEW l, Run(l) PROVE FALSE
      BY <1>3, <3>1 DEF Run
    <3> QED
      BY <1>3, <3>1 DEF Next, Shell, ReadLine, ReadEof, Exit, ForkFails, Fork, WriteInput,
         WriteKilled, ReadOutput, Wait, ShowOutput
  <2>2. UNCHANGED <<line, stage, data>> /\ (command' = "running" => command = "running")
    BY <2>1 DEF Command, CommandReads, CommandWrites, CommandEnds, vars
  <2>3. Results[stage]' = Results[stage] /\ Kind' = Kind
    BY <1>1, <2>1, SameSteps, SameStage
  <2>4. CASE CommandReads
    <3>1. /\ hold = <<>> /\ inPipe # <<>> /\ Kind \in {"cat", "head"} /\ outPipe' = outPipe
          /\ Len(hold') = 1 /\ Len(inPipe') = Len(inPipe) - 1 /\ Len(inPipe) >= 1
      <4>1. inPipe # <<>> /\ hold' = <<Head(inPipe)>> /\ inPipe' = Tail(inPipe)
        BY <2>4 DEF CommandReads
      <4>2. Len(inPipe) # 0 /\ Len(Tail(inPipe)) = Len(inPipe) - 1
        BY <1>1, <4>1, EmptySeq, HeadTailProperties
      <4> QED
        BY <1>1, <2>4, <4>1, <4>2 DEF CommandReads
    <3>2. Kind = "cat" => Len(data) + Len(outPipe) + Len(hold') + Len(inPipe') <= Len(Results[stage])
      <4>1. Len(hold) = 0
        BY <1>1, <3>1
      <4>2. Kind = "cat" => Len(data) + Len(outPipe) + Len(hold) + Len(inPipe) <= Len(Results[stage])
        BY <1>3 DEF WaitInv
      <4>3. /\ Len(data) + Len(outPipe) + Len(hold') + Len(inPipe')
               = Len(data) + Len(outPipe) + Len(hold) + Len(inPipe)
        BY <1>1, <3>1, <4>1
      <4> QED
        BY <4>2, <4>3
    <3> QED
      BY <1>3, <2>2, <2>3, <3>1, <3>2 DEF WaitInv
  <2>5. CASE CommandWrites
    <3>1. /\ Len(outPipe') = Len(outPipe) + 1 /\ Len(hold') = Len(hold) - 1 /\ inPipe' = inPipe
          /\ Kind = "head" => command' # "running"
      <4>1. hold # <<>> /\ outPipe' = Append(outPipe, Head(hold)) /\ hold' = Tail(hold)
        BY <2>5 DEF CommandWrites
      <4>2. Len(Append(outPipe, Head(hold))) = Len(outPipe) + 1
        BY <1>1, <4>1, PassesOn
      <4>3. Len(Tail(hold)) = Len(hold) - 1
        BY <1>1, <4>1, HeadTailProperties
      <4> QED
        BY <2>5, <4>1, <4>2, <4>3 DEF CommandWrites
    <3>2. /\ Len(data) + Len(outPipe') + Len(hold') = Len(data) + Len(outPipe) + Len(hold)
          /\ Len(data) + Len(outPipe') + Len(hold') + Len(inPipe)
               = Len(data) + Len(outPipe) + Len(hold) + Len(inPipe)
      BY <1>1, <3>1
    <3> QED
      BY <1>3, <2>2, <2>3, <3>1, <3>2 DEF WaitInv
  <2>6. CASE CommandEnds \/ UNCHANGED vars
    <3>1. UNCHANGED <<outPipe, hold, inPipe>>
      BY <2>6 DEF CommandEnds, vars
    <3> QED
      BY <1>3, <2>2, <2>3, <3>1 DEF WaitInv
  <2> QED
    BY <2>1, <2>4, <2>5, <2>6 DEF Command
<1> QED
  BY <1>2, <1>3

(* The guards of Shell and of Command: the interpreter, or the command of  *)
(* the running stage, has a step to take.                                  *)
ShellMoves ==
    \/ at \in {"fork", "print"}
    \/ at = "write" /\ (command = "running" \/ data = <<>>) /\ Len(data) <= PipeCap
    \/ at = "write" /\ command = "ended" /\ data # <<>>
    \/ at = "read" /\ (outPipe # <<>> \/ command = "ended")
    \/ at = "wait" /\ command = "ended"

CommandMoves ==
    /\ command = "running"
    /\ \/ hold # <<>> /\ Len(outPipe) < PipeCap
       \/ hold = <<>> /\ (Kind \in {"cat", "head"} => inPipe # <<>> \/ InputEnds)

(* Whoever does not wait for a user can go on, except for the two ways in  *)
(* which a line is never done.                                             *)
HangsOnly ==
    at \notin {"prompt", "exit"} =>
        ShellMoves \/ CommandMoves \/ WaitsForBlocked \/ KilledByDeafStage

(* The safety half of LineDone: interpreter and command never wait for     *)
(* each other, but for a command that has more to write than one read()    *)
(* and the pipe took, and only a stage that does not read what the stage   *)
(* before it wrote kills the interpreter.                                  *)
THEOREM HangsOnlyHolds == Spec => []HangsOnly
<1>1. Init => AliveInv /\ WaitInv
  <2>1. \A i \in 2 .. Len(<<>>) : <<>>[i].kind # "redirect"
    BY EmptySeq
  <2> QED
    BY <2>1 DEF Init, AliveInv, WaitInv
<1>2. LineInv /\ AliveInv /\ WaitInv => HangsOnly
  <2> SUFFICES ASSUME LineInv, AliveInv, WaitInv, at \notin {"prompt", "exit"},
                      ~ShellMoves, ~CommandMoves, ~KilledByDeafStage
               PROVE  WaitsForBlocked
    BY DEF HangsOnly
  <2>1. /\ at \in {"write", "read", "wait"} /\ command \in {"running", "ended"}
        /\ outPipe \in Seq(Block) /\ hold \in Seq(Block) /\ data \in Seq(Block)
        /\ Len(outPipe) \in Nat /\ Len(hold) \in Nat /\ Len(data) \in Nat /\ Len(inPipe) \in Nat
        /\ PipeCap \in Nat /\ PipeCap > 0 /\ Len(outPipe) <= PipeCap /\ Len(<<>>) = 0
    BY LenProperties, EmptySeq, InterpreterAssumption
       DEF LineInv, TypeInv, SizeInv, AliveInv, ShellMoves
  <2>2. at # "write"
    BY <2>1 DEF ShellMoves, LineInv, SizeInv
  <2>3. command = "running"
    BY <2>1, <2>2 DEF ShellMoves
  <2>4. hold # <<>> /\ Len(outPipe) = PipeCap
    BY <2>1, <2>2, <2>3 DEF CommandMoves, InputEnds
  <2>5. at = "wait"
    BY <2>1, <2>2, <2>4 DEF ShellMoves
  <2>6. Len(hold) > 0
    BY <2>1, <2>4, EmptySeq
  <2>7. Kind # "head"
    BY <2>1, <2>3, <2>4, <2>5 DEF WaitInv
  <2>8. Len(Results[stage]) > PipeCap
    <3>1. stage \in 0 .. Len(line) /\ TypeInv
      BY <2>5, LenProperties DEF LineInv, StageInv, TypeInv
    <3>2. Len(Results[stage]) \in Nat
      BY <3>1, ResultsType, LenProperties
    <3>3. CASE Kind = "cat"
      <4>1. Len(data) + Len(outPipe) + Len(hold) + Len(inPipe) <= Len(Results[stage])
        BY <2>5, <3>3 DEF WaitInv
      <4> QED
        BY <2>1, <2>4, <2>6, <3>2, <4>1
    <3>4. CASE Kind # "cat"
      <4>1. Len(data) + Len(outPipe) + Len(hold) <= Len(Results[stage])
        BY <2>5, <2>7, <3>4 DEF WaitInv
      <4> QED
        BY <2>1, <2>4, <2>6, <3>2, <4>1
    <3> QED
      BY <3>3, <3>4
  <2> QED
    BY <2>3, <2>4, <2>5, <2>8 DEF WaitsForBlocked
<1>3. Spec => [](AliveInv /\ WaitInv)
  BY <1>1, AliveStep, WaitStep, InvHolds, PTL DEF Spec
<1> QED
  BY <1>2, <1>3, InvHolds, PTL
=============================================================================
