# TLA+ models and proofs of the operating-systems programs

The repository holds the programs of an operating-systems course under
`src/op_systems`. They do not form one system: each directory, or single file,
is a program of its own, most often a TCP server with its client, and they share
no code and no files. What they share is their hazards: threads over an unlocked
table, a semaphore used as a turnstile, pipes and descriptors that every `fork`
copies, `wait` that reaps anybody's child, `strtok` with its one hidden place
for all threads, one `read` where a loop was needed, and peers that leave at the
wrong moment. This project models the servers one by one, each as a module of
its own.

## Inventory

| Part | Source | State | Operations | Interacts by |
|---|---|---|---|---|
| calculator server | `zk1/server.cpp` | `no_clients`, the semaphore, a counter per thread, the hidden place of `strtok` | accept, read, `sem_wait`, `sem_post`, answer | sockets; the semaphore and `strtok` between threads |
| chat server | `telnet_com/server.cpp` | the table `Sock_desc` (`fds`, `current_active`, `current_num`), unlocked | accept and register, read, broadcast | sockets; the table between main and all threads |
| file transfer | `file_transfer/client.cpp`, `server.cpp` | `init`, `save_file_fd`, `output.txt`; the client's buffer | announce size, answer, send chunks, store | one socket at a time, `output.txt` across sessions |
| remote shell | `remoteShell/` | descriptor table, one pipe per session, child processes | accept, fork a command, read its output, reply, wait | sockets, pipes, `fork`, `wait`, the shared descriptor table |
| web server | `webServer.cpp` | one pipe and one command per request | accept, read a request, fork, read output, respond, wait | sockets, pipes, `fork`, `wait` |
| shell session | `shellInterpreter/server.cpp`, `remoteShell.cpp`, `ShellClient/client.cpp` | the connection being served, the running command, `response.txt` | accept, read a command, fork, wait; type, save | one socket at a time; the command writes into it |
| pipeline interpreter | `shellInterpreter/interpreter.cpp` | one buffer that passes from stage to stage | run first stage, run next stage | pipes, `fork`, `wait` |
| popen shell | `remote_shell/` | the connection, the popen streams | accept, run a command, print its output | one socket; `popen` |
| word counter, cat | `cv1/cnt2.cpp`, `cv1/cat2.cpp` | a counter | count per `read` | standard input, files |
| echo server | `server.c`, `client.c` | the connection, the queue of `listen` | accept, read, print; connect, type | one socket at a time |
| call demos | `exec.cpp`, `fifo1.cpp`, `ls2.cpp`, `pipe.cpp`, `pipeF.cpp`, `popen.c`, `threads/thread.c` | none to speak of | one system call each | |
| graphics, draft | `openGL1.cpp`, `start.cpp`, `shellInterpreter/opengl.cpp`, `glad.c`, `study1/` | | | |

The first ten parts are modelled. What makes each correct, and what is hard:

* **calculator**: one client at a time, for a window of ten requests, and an
  answer to every multiplication. A thread posts after its window without
  waiting again, a client that leaves inside its window takes the permit along,
  and any read error ends the process for all. Two calls of `strtok` in one
  thread are a critical section that the semaphore protects only as long as it
  excludes anybody.
* **chat**: everybody but the sender gets each message. Main stores the counter,
  the slot and the active client one after the other, a thread looks the active
  client up when it first runs, and the broadcast loads each slot twice.
* **file transfer**: a file that the client reports as sent is stored, whole and
  unmixed. The server answers once in its life, and whether the client
  understands the answer depends on the number of digits of the size.
* **remote shell**: output of a command goes to the client that asked. The pipe
  is made once per session and its write end closed, by number, after every
  command; from the second command on that number may be somebody else's.
* **web server**: every request is answered, with output of its own command.
  Commands inherit each other's pipes, a large output blocks its command, and
  the response is printed into the buffer it is made from, so that it may repeat
  the response before it.
* **shell session**: the output of each command reaches the client. Server and
  client disagree on where a response ends.
* **pipeline interpreter**: a line prints what the pipeline computes. Each stage
  is read from once and waited for with its pipe open, and gets its input after
  it may have ended. What is printed waits in a buffer of stdio that every `fork`
  copies, and a stage that cannot be executed writes its copy into the pipe.
* **popen shell**: the output of a command is sent to the client that asked, says
  the assignment beside it; the server prints it. Streams are used up.
* **echo server**: what a client sends is printed, each connection apart.
  `accept` failing once is printed and then forgotten, and "exit" counts only if
  a `read` returns it alone.
* **word counter, cat**: the count is that of the text, however it is divided
  into reads. Two of the three counts are made per buffer.

Their full list, each at its line, is under `hazards` in `PROJECT.json`.

## Modules

All modules use the same conventions. A state is what another thread, process or
peer can observe between two steps; `th` (`pc` in the chat server) says before
which call a thread stands, and one action stands for one call together with the
private code around it. The action `Next` is guarded by `alive` (`died = "no"`),
since a call of `exit`, a wild store or an unhandled SIGPIPE ends all threads at
once. Streams are sequences of whole messages. A `read` takes any non-empty part
of what has arrived, so that messages may be joined; it never cuts one in the
middle. A connection is `open`, `closed` (the peer left in order, `read` returns
0) or `reset` (`read` returns -1, `write` may raise SIGPIPE). Output comes in
blocks, each named for the command or stage that caused it. An `accept` that
fails is an action, `AcceptFails`, where the code makes something of it: the
calculator, the chat and the web server end, as does the shell session
(`CallFails`), the echo server spins (below), the popen shell reads from -1 and
stops, and the file transfer opens its file all the same. The remote shell tries
again, which changes nothing. Names such as `Gate_Early` are plausible faults of
the code kept next to the definition they alter; the properties are validated by
putting them in its place.

**`CalcServer`** (`zk1/server.cpp`). `mutex` is the semaphore's value, `counter`
the local of `handle_client`, `th` where the thread stands. `Gate` is the pair
of tests at the head of the loop, `SemWait` and `SemPost` its two branches. A
request is evaluated in two steps, as the program calls `strtok` twice: the
first call stores its place in `saved`, the second continues at the place stored
last, whoever stored it, and what it finds there is `Found`; then come an
answer, an answer to a peer that left, or the end of the process in
`atoi(NULL)`. `Accept` includes the thread that was not created and not noticed;
`WildStore` is the store after `th_ids` was overrun. The histories `admitted`,
`posts` and `served` are written along and never read by a guard. A reply is the
number of the request it answers, as the arithmetic itself is one call of `atoi`
and a product.

**`ChatServer`** (`telnet_com/server.cpp`). `words` is the memory of the table,
slot by slot, with `current_active` as the word behind the last slot because
that is where the compiler puts it and where the client one too many is stored.
Main is four actions (`Accept`, `StoreSlot`, `StoreActive`, `Create`), a thread
`Start`, `Read`, then `Test` and `Write` for each slot, one load each. Words
nobody has written hold anything in `Garbage`, also a number that is some
client's descriptor.

**`FileTransfer`** (`file_transfer/`) has the actions of both programs:
`SendSize`, `ReadReply`, `SendPiece`, `SendDone` for the client, `Accept`,
`ReadFirst`, `ReadData`, `EndSession` for the server. `Recognised` is what the
unterminated reply makes of the comparison with `"OK"`. `mode` is what
`open(O_CREAT)` without a mode argument leaves on the file. **`FileStore`** is
the abstract specification: one client at most ever owns the store, and its
pieces are put down in order, each once; `FileTransfer` implements it with
`owner <- granted` and the file without the sizes for `store`.

**`CommandSession`** is the abstract specification of a server that runs commands
for clients: whatever a client is sent is output of a command it has asked for,
and none of a command after a later one. `ShellSession` implements it, with
`asked <- sent` and as `got` what has been saved followed by what is on its way.
The other three do not. In `RemoteShell` output goes astray from the second
command of a session on (see `OwnFirstOutput`), `WebServer` may send once more
what it has sent before, or lines it printed for other requests (see
`OwnAnswers`), and `PopenShell` sends nothing.

**`RemoteShell`** (`remoteShell/`). The descriptor table is explicit: `table`
maps every number to the object behind it, `accept` and `pipe` take the lowest
free ones, and the fields `sock`, `r` and `w` of a thread hold the numbers it
remembers. `Object` is what a remembered number stands for now, which after a
second `CloseWrite` need not be what it stood for. A child is a record of its
output's destination, what it still has to write, and whose write ends it
inherited. `Unlucky` are the clients for whom `pthread_create` and `fork` may
fail, `Leavers` those that may be interrupted.

A command that cannot be executed leaves by `exit`, which writes out the
server's own printed text if `fork` copied any. That is modelled in `WebServer`
and `Interpreter`. `RemoteShell` and `ShellSession` assume that nothing is left
in the buffer by then, as it is when standard output is a terminal: the child of
the one prints whole lines before it redirects its output, and the other prints
nothing but whole lines. With standard output in a file, lines of the server's
own log may be sent ahead of what the command writes.

**`WebServer`** (`webServer.cpp`). Here every number is closed once, so pipes
are named by their request; `writeEnds` and `readEnds` are the ends the server
holds and each command records the ends it inherited, both kinds, since end of
file and SIGPIPE depend on them. `th` is a record for each thread: where it
stands, its request, its pipe (`channel`) and the output it has read. The
`sprintf` of line 152 prints `output` into itself: the header overwrites the
output before `%s` has read it. What is then printed behind the header
(`Bodies`) is that same header, followed by the rest of a longer output or,
behind a shorter one, by whatever stands in the array. It is not initialised and
is in the same place of the stack for every request of a thread, so that this is
the end of the response before, which `rest` keeps. A body without room behind
the header (`RespCap`) may end the process, in `sprintf` or when
`handle_request` returns, and so may one after it (`ReplyDies`). `log` is what
stdio's buffer may hold of the lines printed for each request, which is nothing
if standard output is a `terminal`; a command that cannot be executed writes a
block of it in place of its output.

**`ShellSession`** (`shellInterpreter/`). `up` and `down` are the two directions
of a socket; `down` is bounded by `SockCap` because a command that writes to a
client that does not read blocks. `Savers` are the clients started with `-f`.
`Leave` resets the connection when something is left unread, as TCP does; `died`
tells what the server has ended of.

**`Interpreter`** (`shellInterpreter/interpreter.cpp`). `data` is the buffer that
passes from stage to stage; `WriteInput`, `ReadOutput` and `Wait` are the three
calls around a command, of which the five kinds of `Stage` are all that matters:
whether it reads, and how much it writes before and after. `ReadOutput` puts what
it read over the front of the buffer, as `read` does. `ReadEof` runs the first
stage of the line before, for a `size_t` is never negative and `strtok` has cut
the line there. A block says of which line and stage it is. The `printf` of line
164 does not flush: `buffered` is what may be left in stdio's buffer, any end of
the text printed last (`Buffers`), and when standard output is a `terminal`
nothing once a complete line follows, as it does when a stage is done. `copied`
records for the line what each fork copied of it (`Copy`). `exit` in a stage that
cannot be executed writes that into the pipe (`Own`), ahead of the message that
it cannot be executed (`Said`), which a first stage does not print.

**`PopenShell`** (`remote_shell/`). One connection after the other; `streams`
counts the popen streams, none of which is closed, and `PopenFails` is the NULL
that `fgets` then gets. `console` and `down` are where output goes and where it
should go.

**`EchoServer`** (`server.c`, `client.c`). A message is a sequence of parts, each
"exit" or other text, that `read` may return apart. `fd` is -1 (`None`) after a
failed `accept`, and stays so. The client sends one message and closes; `queue`
is bounded by the argument of `listen`. `printed` records of each part whose it
is and where in the read buffer it stood, for the properties only.

**`Cat`**, **`WordCount`** and **`CatCount`** (`cv1/`). A file is a sequence of
characters and `read` returns any part of what is left; what a zero in the buffer
hides from `printf` and `strlen` is in `CStrings`. The two programs are written
for one assignment and meet in a pipe: `CatCount` composes them, with the output
of `Cat` as the input of `WordCount`. The buffering of `printf` needs no state of
its own, as `cat` never waits for what reads it.

`MC*` modules name the clients and the small sets for TLC and define nothing
else; `*Proofs` modules hold the theorems.

## Runs

| Run | Instance | Shows |
|---|---|---|
| `calc_gate` | 3 clients, window 2, 3 requests each of two clients, 1 of the third | `PermitAccounting`, `HandOver`, `NeverBlockedAgain`, `StrandedForever`, `WaiterServed` |
| `calc_answers` | 2 clients (one sends ahead), one place, all kinds of request | `OwnOperands`, `LockstepAnswers`, `AnswersInOrder` |
| `chat` | 3 clients, table of 2, initial memory junk or a descriptor; one client sends twice, one may leave | `NoEcho`, `LateBinding`, `NewestServed`, `InOrder`, `Delivered` |
| `transfer` | 3 clients, sizes of 1, 2 and 3 digits, files of 2 pieces | `SuccessIsStored`, `OnlyOneAnswered`, `StoresOneFile`, `AcceptedOrStuck` |
| `shell` | 3 clients, 2 thread slots, 5 descriptors; two commands, one, none | `DescriptorsOwned`, `OwnFirstOutput`, `EnoughChildren`, `WaitEnds`, `FirstOutputArrives` |
| `web` | 3 clients, 2 thread slots; one request, two, none; a pipe of 1 block, room for 2 in a response; a terminal or not | `ChildrenMatchWaits`, `OwnAnswers`, `HeldUp`, `OrphanEnds` |
| `session` | 3 clients (one saves), 2 commands each | `UnreadKills`, `OwnOutput`, `AcceptedOrStalled` |
| `interpreter` | all pipelines of up to 3 stages, 2 lines; a pipe of 3 blocks, a buffer of 2; a terminal or not | `PrefixPrinted`, `InputFits`, `LineDone` |
| `popen_leak` | 2 clients, 2 commands each, 2 streams | `LeakKills` |
| `popen_output` | the same with 3 streams | `OutputRedirected` is violated: see the findings |
| `echo` | 3 clients, a queue of 1, messages with "exit" first or last | `MessagePrinted`, `AcceptedOrHeldUp` |
| `line_count` | files with empty lines, zeros, or missing; every option; a buffer of 3 | `LinesCounted` is violated: see the findings |

`calc_gate`, `chat`, `transfer`, `shell` and `web` also check the type invariant
of their module, which bounds the index that runs off the end of a table.

What the properties say of the programs:

* The semaphore of the calculator works as a turnstile, not as a lock: clients
  let through and free permits together are always one more than the permits
  posted, and nobody let through is ever held again. The second client is held
  back for exactly one window. A permit can be lost, and then nobody waiting
  ever passes. `WaiterServed` names the only two ways to wait for ever.
* As long as no window has been used up, at most one thread is inside and the
  hidden place of `strtok` is its own (`OwnOperands`). After the first hand-over
  TLC finds one thread computing with the operand of another, which is why the
  property, and `LockstepAnswers`, end there.
* In the chat, the double load of a slot and the late lookup are harmless: no
  client gets its own message and a late thread serves a later client. It may
  leave an earlier one without a thread; `NewestServed` says whom it cannot hit.
* Of the file transfer, what is stored is one client's file in order, and
  success means stored unless the file was created without permission to write.
  But one client is answered in the life of the server, and the next one and the
  server wait for each other (`Stuck`).
* Sessions of the remote shell are isolated up to anybody's second command, and
  not after it: with a second command TLC finds output delivered to another
  client, which is why `OwnFirstOutput` and `DescriptorsOwned` carry `Fresh`. A
  session alone on the server gets output of its first command and of no other.
  Waiting for any child never fails for want of one.
* A web client gets one response at most to each of its requests, in order. With
  a terminal as the server's output nothing in it belongs to another client, but
  it may be the header of the new response with all of the response before
  behind it (`OwnAnswers`). Without a terminal, a command that cannot be
  executed sends lines printed for other requests along. A client is kept
  waiting for ever by another client's command only if that is blocked and
  inherited the pipe (`HeldUp`); a command whose thread has gone on is killed
  unless such an heir of the read end is blocked.
* What a client of the shell session receives is output of its own commands, one
  after the other. The session serves one command to a client that saves, and
  ends altogether when a client that never reads leaves with output waiting.
* A pipeline prints a prefix of its result, whatever the timing, and at a
  terminal nothing of an earlier line, unless its first stage cannot be
  executed: then the end of what was printed last is printed once more. Without
  a terminal any stage that cannot be executed has text of the lines before it
  to print. The interpreter writes all input of a stage before it reads
  anything, and that is safe, as it only ever has what one pipe held. It hangs
  on a stage that writes more than a `read` and the pipe take, and is killed by
  one that does not read its input.
* `remote_shell/rules.txt` asks for the output to be redirected into the socket.
  The server writes nothing there (`popen_output`, expected to be violated). No
  stream is closed either, so that commands of earlier sessions kill the server
  in a later one (`LeakKills`).
* The echo server prints every message whole and apart, however it is cut,
  unless a `read` returns nothing but "exit". One failed `accept` is the end of
  accepting without being the end of the server (`AcceptedOrHeldUp`).
* The assignment in `cv1/cat2.cpp` has the counter print the number of lines
  that are not empty. With `-l` it prints how often `read` returned something
  (`line_count`, expected to be violated); with `-c` its number is right
  wherever the reads divide the text (`CharsCounted`, proved).

### Bounds

`Window`, `MaxCon`, `MaxCons`, `MaxClients`, `PipeCap`, `SockCap`, `RespCap`
(the response array) and `BufCap` (the buffer of stdio, smaller than a pipe as
it really is) are the program's own constants made small: every test against
them is passed and failed in some behaviour. There is one client more than
`MaxClients` or `MaxCons` admits where the run is to contain the client one too
many. `MaxSent`, `MaxReqs`, `MaxCmds` and `Chunks` bound what a peer sends, for
the first three client by client where one that sends more is needed next to
others that send less. They leave room for what the hazards need: in `calc_gate`
a full window and a request after it, in `chat` two messages of one sender
around a late thread, in `shell` a second command, which is the first to close a
foreign descriptor, in `web` two clients at work at once, enough for a command
to inherit a pipe, and a second request of one of them. An output of none, and
of more than a `read` and the pipe take together, are the two cases that block
or pass a shell's thread; the pipe of `web` takes one block, so that three are
more than a short `read` and the pipe take; in `session` one block is added, as
the client there keeps reading. No run uses symmetry: the configurations treat
the clients differently.

Deadlock checking is off in all runs, because every system here does come to
rest: clients need not send anything, the server may have ended, and several of
the properties are about states in which nothing moves any more.

### Fairness

Weak fairness of each thread, server process and command: the kernel runs what
can run, and a `sem_wait`, `read` or `wait` that can return does. In
`CalcServer` sending is fair too, since the property asks what happens while
clients keep typing; elsewhere no user has to type, connect or leave; the client
of the echo server closes after its one message, as its code does. No call has
to fail, and the main threads of the calculator, the remote shell and the web
server need not accept anybody for their properties. Strong fairness is assumed
nowhere: where several threads wait for the semaphore it is not promised that a
particular one passes. That `WaiterServed` holds nevertheless is because a
client that has passed never competes again.

## Theorems

Checked with TLAPS, for every set of clients and every value of the constants
the named assumptions allow. Eight modules hold the proofs; each proves an
inductive invariant step by step, one step per action, and draws its theorems
from it.

* `CalcServerProofs`: `TypeCorrect`, `PermitsAccounted`, `HandOverHolds`,
  `NeverBlocked`, `StrandedHolds`, `OwnOperandsHold`, `LockstepHolds`,
  `InOrderHolds`, `WindowsAccountedHolds`. The inductive invariant `GateInv`
  adds to the type invariant and the accounting what each thread's place says of
  its counter: one at `wait` has counter 0, was never served and is not
  admitted; one at `post` has used a window; one admitted and back at `read` has
  a counter above 0. Without it the accounting is not inductive, as a thread
  could be admitted twice. `PostedInv` (a permit was posted only after a whole
  window) gives `HandOver`. The answers rest on `AnswerInv`: what a client has
  asked for is done with (`Done`), in the buffer or pending, numbered without a
  gap (`StreamInv`); a product answers a request done with, later than the last
  one answered (`ReplyInv`); and a client that waits has one request under way
  at most and an answer to each multiplication before it (`LockstepInv`). That
  the answer is the right one comes from `OwnOperands`: until the first post the
  place of `strtok` is its own. The last theorem is the safety half of
  `WaiterServed`. `WindowInv` has the requests of a thread make up whole windows
  and the one it is in, and as many permits posted as there are whole windows;
  `PlaceInv` that a thread let through has begun its window when it ends. When
  all of them have fallen silent, each window used up has let somebody in or
  left a permit.
* `ChatServerProofs`: `TypeCorrect`, `NoEchoHolds`, `LateBindingHolds`,
  `NewestServedHolds`, `InOrderHolds`, for any table size and any initial
  memory. `ChatInv` consists of the order in which clients were accepted
  (`OrderInv`), what the word behind the table holds at each stage of main
  (`TableInv`), and for each thread that the client it serves is not one whose
  slot is still to be stored (`ThreadInv`); the last is what survives between
  the two loads of a slot. `CastInv` is what order needs: the slots filled hold
  the clients in order (`SlotInv`), and a broadcast holds the messages of the
  sender read last, none of which has reached a client whose slot it has not
  come by (`SentInv`, `ToCome`).
* `FileTransferProofs`: `TypeCorrect`, `OneAnswer`, `SuccessStored`,
  `StoresOneFileHolds`, `StuckOnlyHolds`, `StuckStaysHolds`. `AnswerInv` says
  that `init` is set exactly when somebody has been answered; `StageInv` adds
  what each stage of a client has sent, that nobody is queued twice, and what
  can have become of the mode of `output.txt`. `FileInv` says that the file
  begins with the first pieces of the client that was answered, with nothing but
  sizes behind them, and that these are all the server has read unless it could
  not open the file. `StoresOneFileHolds` is the refinement of `FileStore`: each
  step claims the store, puts the next piece, or stutters. The last two are the
  safety half of `AcceptedOrStuck`: by `WaitInv` the client that was answered
  has "OK" to read for as long as it waits, so that only a later one can be
  `Stuck`, and it is until somebody interrupts it.
* `RemoteShellProofs`: `TypeCorrect`, `EnoughChildrenHold`,
  `DescriptorsOwnedHold`, `OwnFirstOutputHolds`. `MatchInv` with `ForkInv` and
  `ChildInv` counts children against threads that wait, by a fork identified by
  thread and number. Ownership needs more than `DescriptorsOwned` says: `OwnInv`
  holds while the sessions are `Orderly`, that is, nobody has come to a second
  command or there is only one session, and says for each place of a thread
  which of its numbers stand for what it opened. With one session a write end
  that was closed stays free, as nobody takes the number, so that closing it
  again hits nothing. `FlowInv` follows the first command from the line typed to
  the output received.
* `WebServerProofs`: `TypeCorrect`, `ChildrenMatch`, `OwnAnswersHold`,
  `WaitsForHeirsHolds`, `OrphansReadHolds`. `WebInv`: a thread works on a
  request of its own client in the pipe made for it (`ThreadInv`), requests are
  read in their order (`OrderInv`), there is one child for a request at most and
  none for one still to be forked for (`ChildInv`), and at a terminal the buffer
  of stdio is empty at a fork, so that a command writes text of its own request
  only (`TextInv`). `AnswerInv` then has the responses in the order of the
  requests, and what a thread's array holds behind the header be the body of the
  last response it sent (`LastBody`): that is how far back a response can reach.
  The last two theorems are the safety halves of `HeldUp` and `OrphanEnds`.
  `EndsInv` says that the server holds the ends of the pipes its threads are at
  and of no other, `HeirInv` that a command has therefore inherited pipes of
  other clients only: a thread is never kept reading by its own blocked command,
  and nothing of its own client keeps an orphan alive. The second needs three
  clients at work at once to say anything (an orphan, a heir and a child reaped
  in their place), which is more than the run `web` has slots for; there every
  orphan is killed.
* `ShellSessionProofs`: `UnreadKillsHolds`, `OwnOutputHolds`,
  `StalledOnlyHolds`. `SessionInv` says that the one child there is runs the
  command being handled (`LoopInv`), that commands are read in order
  (`OrderInv`), that everything saved or on its way is output of a command
  already read (`OutInv`), and that a connection is reset only with output in it
  (`ResetInv`), which is what the server dies of. The safety half of
  `AcceptedOrStalled` adds `UserInv`: who is queued or served has connected, and
  a client that saves gets nothing before it has typed its one line.
* `InterpreterProofs`: `InputFitsHolds`, `PrefixPrintedHolds`, `HangsOnlyHolds`.
  `SizeInv` bounds the buffer by one pipe and has it empty before each read,
  which is why the `write` of a stage's input cannot block. `StageOutput` says
  of each kind of stage how its output, what it holds and what it has not read
  make up a prefix of its result, until the stage is read from; `PassedOn` that
  what was read is one. What a stage has of the buffer of stdio is fixed when it
  is forked and the same to the reference (`Same`); by `TerminalInv` a terminal
  leaves nothing to copy for any stage but the first, which with `PrefixPrinted`
  leaves a failing first stage as the only source of text of another line. The
  reference `Results` is a recursive function; that it exists and gives
  sequences for every line is proved by taking the least stage where it would
  not (`Least`, `ResultsExist`), as the induction theorems of the library cannot
  be applied. `HangsOnlyHolds` is the safety half of `LineDone`: by `AliveInv` a
  command that reads runs until its input is there, and what was read, is in the
  pipes or is held is no more than the stage's result (`WaitInv`), so that a
  command can only be blocked when that does not fit. It uses that ">" is looked
  for in the first stage of a line alone (`InterpreterAssumption`).
* `ReaderProofs`, on the two programs that make something of a stream however
  `read` cuts it. `CharsCountedHolds`, for any files and buffer sizes, comes from
  `CountInv`: no zero ever gets into the pipe, so that `strlen` sees all of each
  buffer (`StrLenFull`), and what has been counted is what has been read.
  `MessagePrintedHolds`, for any clients, queue and messages, comes from
  `EchoInv`: a client is queued once and served once (`QueueInv`); of its message
  a first part is printed, in one piece that stands last while its turn lasts,
  and the rest is to be read unless a lone "exit" dropped it (`PrintInv`); and a
  connection that is over has nothing left to read (`StageInv`).

One proof corrected what was stated. `InOrder` of the chat server used to speak
of every receiver, and that is false for the program's table of three: the table
is never initialised, and if a word nobody has written happens to hold the
descriptor of a client, a broadcast that finds the newest client counted and its
slot not yet stored sends that client the same message twice. The run did not
show it, since sender, receiver and the client just counted take three slots; the
attempted proof did, and TLC confirmed it with a table of three. The property now
excepts the clients whose number may stand in the uninitialised memory. `NoEcho`
and `LateBinding` need no such exception.

Every safety property of a passing run is proved. Only model-checked are the
liveness properties (`WaiterServed`, `Delivered`, `AcceptedOrStuck`, `WaitEnds`,
`FirstOutputArrives`, `HeldUp`, `OrphanEnds`, `AcceptedOrStalled`, `LineDone`,
`LeakKills`, `AcceptedOrHeldUp`): fairness and ENABLED are beyond the prover. For
six of them (`WaiterServed`, `AcceptedOrStuck`, `HeldUp`, `OrphanEnds`,
`AcceptedOrStalled`, `LineDone`) the theorems named above state in each state
what can stop the system, with the guards of the actions written out in place of
ENABLED; that what can be done is then done is left to the runs.

## Not modelled

Of the modelled programs: parsing of request and command lines, printed text,
the address setup before `listen`, a message cut in the middle by a `read`, data
with zero bytes in it (except in `CatCount`), and in the chat, calculator and
file transfer a `write` that blocks because the peer does not read. The modules
assume the layout of the structures the compilers in use produce where an array
is overrun.

The call demos run straight through one or two system calls, wait for nothing
but their own child or thread, and keep no state (`ls2.cpp` reads a directory
and prints nothing of it, `pipe.cpp` writes four bytes into a fifo nobody here
reads). The graphics programs call a library frame by frame, `glad.c` is a
generated loader, and the draft in `study1` does not compile. A model of any of
them would have no property that its code could break.

## Plan

Written, in this order, the servers whose threads share state first:
`CalcServer`, `ChatServer`, `FileTransfer` with `FileStore`, `RemoteShell`,
`WebServer`, `ShellSession`, `Interpreter`, `PopenShell`, `Cat` and `WordCount`
with `CatCount`, then `EchoServer` and the abstract `CommandSession`. No other
module composes two programs, for no other two meet; client and server of one
program are one module. The proofs followed in the same order. Without a theorem
is `PopenShell` alone, which has no safety property but the one it violates.
