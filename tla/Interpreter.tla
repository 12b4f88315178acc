---------------------------- MODULE Interpreter ----------------------------
(***************************************************************************)
(* shellInterpreter/interpreter.cpp: a shell whose pipelines run one stage *)
(* after the other.  A stage is forked, gets the data of the stage before  *)
(* it, is read from once and waited for; what was read is the data of the  *)
(* next stage, and of the last one it is printed.                          *)
(*                                                                         *)
(* A line is a sequence of stages.  A stage is one of                      *)
(*   "source"    writes n blocks and does not read,                        *)
(*   "cat"       writes every block it reads,                              *)
(*   "head"      writes the first block it reads,                          *)
(*   "fails"     cannot be executed, and says so in one block,             *)
(*   "redirect"  a first stage with ">", which writes to a file.           *)
(* Block k that stage i of line l made itself is <<l, i, k>>, and block 0  *)
(* what is said of it: that it cannot be executed, or that it is done.     *)
(*                                                                         *)
(* What is printed stays in stdio's buffer until that is full and, at a    *)
(* terminal, until its line is complete.  fork() copies the buffer.  Only  *)
(* a stage that cannot be executed has any use for its copy: exit() writes *)
(* it out, and standard output is the pipe by then.                        *)
(***************************************************************************)
EXTENDS Naturals, Sequences, SequencesExt

CONSTANTS Lines,    \* the lines that are typed, never empty
          PipeCap,  \* the blocks a pipe holds, fewer than PIPING_SIZE
          BufCap,   \* the blocks stdio's buffer holds
          MaxLines  \* bound: lines that are run

Stage == [kind : {"source", "cat", "head", "fails", "redirect"}, n : Nat]

ASSUME InterpreterAssumption ==
    /\ Lines \subseteq Seq(Stage) \ {<<>>}
    \* ">" is looked for in the first stage only.
    /\ \A l \in Lines : \A i \in 2 .. Len(l) : l[i].kind # "redirect"
    /\ PipeCap \in Nat \ {0} /\ BufCap \in Nat /\ MaxLines \in Nat

VARIABLES
    at,       \* where the interpreter stands
    lines,    \* the number of lines it has run
    line,     \* the line in the buffer of main
    stage,    \* executed_count, the stage that is running
    data,     \* output of interpret
    inPipe,   \* p_to_c_pipe
    outPipe,  \* c_to_p_pipe
    hold,     \* the blocks the command has to write
    command,  \* the command of the stage: "none", "running" or "ended"
    terminal, \* whether standard output is a terminal
    buffered, \* the blocks in stdio's buffer
    copied    \* the buffers that the forks of this line have copied

loop   == <<lines, line, stage>>
pipes  == <<inPipe, outPipe>>
child  == <<hold, command>>
stdio  == <<terminal, buffered, copied>>
vars   == <<at, loop, data, pipes, child, stdio>>

Init ==
    /\ at = "prompt" /\ lines = 0 /\ line = <<>> /\ stage = 0
    /\ data = <<>> /\ inPipe = <<>> /\ outPipe = <<>>
    /\ hold = <<>> /\ command = "none"
    /\ terminal \in BOOLEAN /\ buffered = <<>> /\ copied = <<>>

-----------------------------------------------------------------------------
(* main.                                                                   *)

Transition(from, to) == at = from /\ at' = to

Run(l) ==
    /\ at = "prompt" /\ lines < MaxLines
    /\ lines' = lines + 1
    /\ line' = l /\ data' = <<>>
    /\ stage' = IF l = <<>> THEN 0 ELSE 1
    /\ at' = IF l = <<>> THEN "prompt" ELSE "fork"
    /\ copied' = <<>>
    /\ UNCHANGED <<pipes, child, terminal, buffered>>

ReadLine == \E l \in Lines : Run(l)

(* The end of the input does not end the loop.  The buffer still holds the *)
(* line before, which strtok has cut behind its first stage, or before the *)
(* first line anything; the zero stored in front of it hits nothing used.  *)
ReadEof ==
    IF line # <<>> THEN Run(<<line[1]>>)
                   ELSE Run(<<>>) \/ \E l \in Lines : Run(<<l[1]>>)

Exit == Transition("prompt", "exit") /\ UNCHANGED <<loop, data, pipes, child, stdio>>

-----------------------------------------------------------------------------
(* interpret, handle_command and handle_command_read.                      *)

Said(i) == <<<<lines, i, 0>>>>

(* What may be left in stdio's buffer when text has been printed: any end  *)
(* of it that fits, as the length of a block is left open.                 *)
Buffers(text) ==
    LET s == buffered \o text
    IN  {t \in {SubSeq(s, k, Len(s)) : k \in 1 .. Len(s) + 1} : Len(t) <= BufCap}

(* What a stage has of the buffer, or would have if it was forked now.     *)
Copy(i) == IF i \in DOMAIN copied THEN copied[i] ELSE buffered

(* What a command has to write before it has read anything.  A first stage *)
(* that cannot be executed does not say so.                                *)
Own(i) ==
    CASE line[i].kind = "source" -> [k \in 1 .. line[i].n |-> <<lines, i, k>>]
      [] line[i].kind = "fails" -> Copy(i) \o (IF i = 1 THEN <<>> ELSE Said(i))
      [] OTHER -> <<>>

Fork ==
    /\ Transition("fork", IF stage = 1 THEN "read" ELSE "write")
    /\ command' = "running" /\ hold' = Own(stage)
    /\ copied' = Append(copied, buffered)
    /\ UNCHANGED <<loop, data, pipes, terminal, buffered>>

(* pipe() or fork() fails.                                                 *)
ForkFails == Transition("fork", "exit") /\ UNCHANGED <<loop, data, pipes, child, stdio>>

(* Mutant: the buffer is not cleared.                                      *)
Cleared_Never == data

Cleared == <<>>

(* All data is written before anything is read; then the write end is      *)
(* closed and the buffer cleared.                                          *)
WriteInput ==
    /\ Transition("write", "read")
    /\ command = "running" \/ data = <<>>
    /\ Len(data) <= PipeCap
    /\ inPipe' = data /\ data' = Cleared
    /\ UNCHANGED <<loop, outPipe, child, stdio>>

(* The command has ended already: SIGPIPE ends the interpreter.            *)
WriteKilled ==
    /\ Transition("write", "killed")
    /\ command = "ended" /\ data # <<>>
    /\ UNCHANGED <<loop, data, pipes, child, stdio>>

(* Mutant: read() is repeated until the end of file.                       *)
ReadOutput_Loop ==
    /\ at = "read"
    /\ \/ outPipe # <<>> /\ data' = data \o outPipe /\ outPipe' = <<>> /\ UNCHANGED at
       \/ outPipe = <<>> /\ command = "ended" /\ at' = "wait" /\ UNCHANGED <<data, outPipe>>
    /\ UNCHANGED <<loop, inPipe, child, stdio>>

(* One read(), into the front of the buffer: any part of what the command  *)
(* has written so far, or end of file.                                     *)
ReadOutput ==
    /\ Transition("read", "wait")
    /\ \/ \E k \in 1 .. Len(outPipe) :
             /\ data' = SubSeq(outPipe, 1, k) \o SubSeq(data, k + 1, Len(data))
             /\ outPipe' = SubSeq(outPipe, k + 1, Len(outPipe))
       \/ /\ outPipe = <<>> /\ command = "ended"
          /\ UNCHANGED <<data, outPipe>>
    /\ UNCHANGED <<loop, inPipe, child, stdio>>

(* wait(), then the pipes are gone with what is left in them.  It is said  *)
(* that the stage is done, in a complete line.                             *)
Wait ==
    /\ at = "wait" /\ command = "ended"
    /\ command' = "none" /\ hold' = <<>>
    /\ inPipe' = <<>> /\ outPipe' = <<>>
    /\ IF stage < Len(line)
         THEN at' = "fork" /\ stage' = stage + 1
         ELSE at' = "print" /\ UNCHANGED stage
    /\ buffered' \in IF terminal THEN {<<>>} ELSE Buffers(Said(stage))
    /\ UNCHANGED <<lines, line, data, terminal, copied>>

(* The data is printed after the last stage, and not flushed.              *)
ShowOutput ==
    /\ Transition("print", "prompt")
    /\ buffered' \in IF data = <<>> THEN {buffered} ELSE Buffers(data)
    /\ UNCHANGED <<loop, data, pipes, child, terminal, copied>>

-----------------------------------------------------------------------------
(* The command of the running stage.                                       *)

Kind == line[stage].kind

(* Mutant: the write end of the input is never closed.                     *)
InputEnds_Never == FALSE

InputEnds == at \in {"read", "wait"} /\ inPipe = <<>>

CommandReads ==
    /\ command = "running" /\ hold = <<>>
    /\ Kind \in {"cat", "head"} /\ inPipe # <<>>
    /\ hold' = <<Head(inPipe)>> /\ inPipe' = Tail(inPipe)
    /\ UNCHANGED <<at, loop, data, outPipe, command, stdio>>

(* A full pipe blocks the command.  head stops after its first block.      *)
CommandWrites ==
    /\ command = "running" /\ hold # <<>> /\ Len(outPipe) < PipeCap
    /\ outPipe' = Append(outPipe, Head(hold)) /\ hold' = Tail(hold)
    /\ command' = IF Kind = "head" THEN "ended" ELSE "running"
    /\ UNCHANGED <<at, loop, data, inPipe, stdio>>

CommandEnds ==
    /\ command = "running" /\ hold = <<>>
    /\ Kind \in {"cat", "head"} => InputEnds
    /\ command' = "ended"
    /\ UNCHANGED <<at, loop, data, pipes, hold, stdio>>

-----------------------------------------------------------------------------
Shell == Fork \/ WriteInput \/ WriteKilled \/ ReadOutput \/ Wait \/ ShowOutput

Command == CommandReads \/ CommandWrites \/ CommandEnds

Next == ReadLine \/ ReadEof \/ Exit \/ Shell \/ ForkFails \/ Command

Spec == Init /\ [][Next]_vars

(* The interpreter and the command run when they can; nobody has to type,  *)
(* and no call has to fail.                                                *)
FairSpec == Spec /\ WF_vars(Shell) /\ WF_vars(Command)
-----------------------------------------------------------------------------
(* Properties.                                                             *)

(* What a stage writes if it gets the input s, all of it, and is read to   *)
(* the end: the pipeline as any other shell runs it, but that a stage that *)
(* cannot be executed writes what it has of the buffer as well.            *)
Result(i, s) ==
    CASE line[i].kind = "cat"  -> s
      [] line[i].kind = "head" -> SubSeq(s, 1, IF s = <<>> THEN 0 ELSE 1)
      [] OTHER -> Own(i)

Results == LET r[i \in 0 .. Len(line)] ==
                   IF i = 0 THEN <<>> ELSE Result(i, r[i - 1])
           IN  r

(* Although each stage gets only what one read() returned, what is printed *)
(* is a prefix of the result of the pipeline, with nothing of an earlier   *)
(* stage left in the buffer.  At a terminal it contains nothing of earlier *)
(* lines either, unless the first stage cannot be executed: that may print *)
(* the end of what was printed last once more.                             *)
PrefixPrinted ==
    at = "print" =>
        /\ IsPrefix(data, Results[Len(line)])
        /\ terminal /\ line[1].kind # "fails" =>
              \A k \in DOMAIN data : data[k][1] = lines

(* The interpreter never blocks writing the input of a stage, although it  *)
(* writes all of it before it reads: it has only what one pipe held.       *)
InputFits == at = "write" => Len(data) <= PipeCap

(* The interpreter has been killed by a stage that does not read and gets  *)
(* input.                                                                  *)
KilledByDeafStage ==
    at = "killed" /\ Kind \in {"source", "fails"} /\ Results[stage - 1] # <<>>

(* The interpreter waits for a command that has more to write than one     *)
(* read() and the pipe took.                                               *)
WaitsForBlocked ==
    /\ at = "wait" /\ command = "running" /\ hold # <<>>
    /\ Len(outPipe) = PipeCap /\ Len(Results[stage]) > PipeCap

(* These are the only ways in which a line is never done: a stage that     *)
(* stops reading early does not kill the interpreter, and neither a read() *)
(* nor the write of a stage's input ever hangs.                            *)
LineDone ==
    <>[](at \notin {"prompt", "exit"}) => <>[](WaitsForBlocked \/ KilledByDeafStage)
=============================================================================
