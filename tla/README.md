# TLA+ verification of Posix-Network-Programming

The repository holds the homework of a course on POSIX network programming:
small C programs for six weeks, and one larger exercise, a program that talks
to the course's UNIX_TL server and then serves its commands. This directory
models the programs whose correctness depends on the order in which threads,
processes or pieces of a TCP stream get their turn, checks the models with TLC
and proves what matters most with TLAPS. All paths below are relative to the
repository.

To repeat a check, in this directory:

    tlc -config ProcessTree.cfg ProcessTree        (any row of "The runs")
    tlapm ProdConsProofs.tla                       (any of the *Proofs modules)

## Inventory

### The exercise: `exercise/exercise.c`

One program, three kinds of processes, all with the same signal handler.

    UNIX_TL <--- greeting connection ---> main
       |                                   | fork (line 137)          ^
       |                                   v                          |
       | --- connects to the port --->  childServer                   | exit seen
       |                                   | fork per connection      | by wait(0)
       |                                   v (line 437)               |
       | <--- commands E C F A Q # --->  newConnection ----> kill(getppid(), SIGTERM)
       | <--- file transfer connection ---   |

| part | state | operations | interacts through | hard behaviour |
|---|---|---|---|---|
| `main`, lines 47-166 | the round `n` (never initialised), the port, the server's pid | read a text, answer the first two, take the port from the fifth, fork the server, wait | TCP with UNIX_TL; fork, wait | reads taken for lines; UNIX_TL's timeouts; several exits, with a child alive or not |
| `childServer`, 394-464 | listening socket, open connections, children | bind, accept, fork per connection | fork; receives SIGTERM | fork and accept failing; zombies never waited for; descriptors left open |
| `newConnection` with `echoer`, `getsrcfldr`, `filetransfer`, 169-392 | `buffer[]`, the pending E line `ebuffer[]`/`esize`, the transfer socket and file | one branch per command letter | TCP with UNIX_TL, `kill(getppid())` | one read is taken for one line; only the first byte is looked at; a second connection in the middle; resets |
| `handle_signals`, 32-45 | none | message, one `wait(0)`, exit | SIGINT and SIGPIPE in any process | arrives at any instant, to one process or to all |
| `split`, 466-510 | line copy, separator count, result array | count separators, allocate, fill from `strtok` | called by `main` and `filetransfer` | array sized by one count and filled by another |

What makes each correct: `main` gives the answers asked for, serves the port it
was told, ends, and leaves no server behind; an order to stop reaches the server
and, through it, `main`; a connection answers each command rightly, never
leaves both ends waiting for each other, and stops the program when and only
when told; `split` returns the words and never writes beyond its array.

### Producers and consumers: `week6/unpv22e/mutex/prodcons6.c`

The book's program, changed by the author to several consumers. `nthreads`
producers fill `buff[]` under `put.mutex` and announce each item under
`nready.mutex`; `nthreads` consumers wait on `nready.cond` and check the array
with no lock; main joins everybody. Correct: no item lost or read before it is
stored, no consumer leaves while there is something to take, nobody waits for
ever. Hard: two mutexes whose counters disagree in between, a signal sent only
when `nready` is zero, wakeups handed from one consumer to the next, an
unlocked counter shared by two threads.

### Programs that pass data on: weeks 2 to 5

| part | state | operations | interacts through | hard behaviour |
|---|---|---|---|---|
| week 4, `teht6_server.c`, `teht6_client.c` (and `teht2.c`, the same client) | who holds which socket; a buffer in each process | accept, fork, close, echo what a read returned; send a line, read once, print | TCP; fork and inherited descriptors | a reply in pieces; a buffer that still holds the line sent; fork failing; anybody ending at any time |
| week 2, `teht5.c` | the pipe, who holds which end, two buffers | read a line, test its length, write; read what there is, write it twice; wait | a pipe; fork and wait | the end of input needs every copy of an end closed; `strlen()` of a buffer without a null byte |
| week 3, `teht1_1.c`, `teht1_2.c`, `teht1_3.c` | two FIFOs, three buffers | open, read, write a record or a text | FIFOs | opening waits for the other end; a record without a null byte; any of the three ending |
| week 5, `teht3_server.c`, `teht3_client.c` | connections waiting, the one served, descriptors left, buffers with addresses and old bytes in them | accept, print the text of what was read; send records of `maxBuffer` bytes | TCP | records cut in two; a connection is never closed; clients that wait |

What makes them correct: what comes out is what was put in, in that order, each
byte once; nobody sleeps for ever on somebody who will not come; the end of one
process leads to the end of those that depend on it; what was never typed does
not come out.

### The rest

| part | status |
|---|---|
| week 5: `daytimetcp*.c` | not modelled: the book's one-write server and its clients, no state to get wrong |
| week 6: `teht2_client.c`, `teht2_server.c` | not modelled: one datagram at a time, nothing kept between two |
| week 2: `teht2.c`, `testPipe.c`; week 1: all | not modelled: one child that is waited for; a tutorial program; sequential file copies to be timed |
| `week5/unpv13e`, `week6/unpv22e` but for `prodcons6.c`, `week5/unp.h`, `week5/config.h` | third-party: the sources of Stevens' books, which is nearly all of the repository's lines |
| `README.md`, `h*.txt`, `exercise/harj.txt`, `exercise/ohjeet.txt` | exercise sheets and written answers; `ohjeet.txt` is a transcript of what UNIX_TL sends, and what the models' UNIX_TL is made from |

The full list of hazards, each with its line and the properties that watch it,
is in `PROJECT.json`.

## The modules

    ItemHandoff <-refined by- ProdCons                        ProdConsProofs
    Requests <-refined by---- Connection <- MCConnection      ConnectionProofs
                              ProcessTree                     ProcessTreeProofs
                              Greeting <- MCGreeting          GreetingProofs
                              Split <- MCSplit                GreetingProofs
    ByteStream <-refined by-- Echo <- MCEcho                  EchoProofs
               <-refined by-- Pipe <- MCPipe                  PipesProofs
               <-refined by-- Fifos <- MCFifos                PipesProofs
                              Upload <- MCUpload              UploadProofs

    Places: what is picked out of a sequence; used by Words and Cuts
    Words: used by Split and Greeting
    Cuts: used by Echo, Upload and Doubled                    CommonProofs
    Descent: work that cannot go on for ever (for the proofs) CommonProofs
    Doubled: what Pipe and Fifos have in common

The MC modules give the constants of the runs. `PROJECT.json` maps every
definition that stands for code to its lines; definitions marked external there
are the kernel's, the thread library's or UNIX_TL's part, modelled from how the
code uses them. A comment that begins with "Mutant" marks an operator that
nothing uses: a plausible mistake in the code that some run must notice.

**ProdCons** (`prodcons6.c`). A step is what a thread does between two points
where another can see the difference: taking a mutex, each access to shared
data, releasing a mutex with the last access before it. `pc` names the place;
`put.*`, `nready.*`, `buff`, `count` are the program's; `idx` is the consumer's
local `i`. `pthread_cond_wait` is unlock-and-block, a wakeup (by signal or
spurious), and a relock. The unlocked `count[i] += 1` and `-= 1` are a load and
a store each, so updates can be lost as they can in the program.

**ItemHandoff** is what such a program promises, with no thread in it: items
become available in order, each is taken once, in that order, and none before it
is available. `ProdCons` maps `stored` to `put.nput` and `taken` to `put.nget`.

**Connection** (`newConnection` and what it calls, with UNIX_TL at the other
end). A line is the sequence of pieces in which TCP may deliver it, a piece
being named by its first letter, which is all the code looks at. `Scripts` gives
for each framing what UNIX_TL may send: with the "expected" framing of the
comments at lines 295 and 370-373 a read returns one piece, every line is one
piece and an E line two; with "any" framing `Reads` is any number of pieces. One
action per branch of the chain of ifs (`HandleE` ... `HandleOther`), and
`filetransfer` in four steps (`HandleF`, `Connect`, `FileNotFound` or
`SendSize`, `CopyFile`) because UNIX_TL acts in between. UNIX_TL sends the lines
of a script, waits for what they ask for, complains and says goodbye after a
wrong answer or a timeout, and closes; closing with replies unread resets the
connection, after which reads fail, and a write fails, leaving the handler in
its loop (and, in `SendSize`, the transfer socket and the file open), or raises
SIGPIPE. An F line that is cut or joined to another may still be served or end
the process in `split()` or behind it (`HandleF`, `Begins`, `Whole`). `garbage`
is what `strstr()` finds in the part of `buffer[]` that nothing has written.
`lookalike` records that a line UNIX_TL has sent may be cut in front of an A or
a 209, where its middle looks like an order to stop.

**Requests** is what a process that serves requests promises, with no line or
piece in it: whoever asks waits for one answer at a time, the process gives that
answer once or not at all, and what the asker reads while it waits is the answer
it waits for. `Connection` maps `asked` to what UNIX_TL waits for and `owed` to
the answer to the one request that is unread, half read (its E is in `ebuf`) or
being fetched. Under the "any" framing nothing of the kind holds, as finding 2
shows, and the mapping is constant: the refinement speaks of the expected framing.

**ProcessTree** (`main`, `childServer`, `handle_signals` as processes). `pc`,
`parent` and `sigint` are indexed by process; `Die` is the kernel's: a zombie
for the parent to wait for, orphans to init. `getppid()` and `kill()` are two
steps. `fork()` for a connection may fail at any time, and must when the process
table is full. `act.sa_mask` and `act.sa_flags` are never set, so whether the handler
blocks SIGTERM is left open (`Kill`). What a connection process does before it
ends or gives the order to stop is `Connection`; here it may do either at any
time.

**Split** and **Words**. `Split` is the function, position by position in the
counting loop and word by word in the `strtok` loop; `Words` is the reference
definition of the words of a text, written without either loop: the k-th word
lies between the k-th place where one begins and the k-th where one ends.
**Places** has that "k-th" and nothing else (`Kth`, the member of a set of
numbers with k - 1 below it; `Picked`, what a sequence holds at a set of
places). `Kth` is defined by a cardinality instead of by recursion, so that
proofs can reach it. Places is mathematics and stands for no code.

**Greeting** (the loop of `main`, lines 106-162). A text is a sequence of
words and separators; one read returns one segment. `Words` is what `split`
returns, which `ReturnsWords` of Split says. `n` starts at any member of
`NStart`, as the program never initialises it. The server it forks only listens
or fails here; `ProcessTree` has its life after that, and begins where the
connection to UNIX_TL is made. UNIX_TL calls only at the port it named.

**ByteStream** is what a program that passes data on promises, with no process
in it: what comes out is a growing prefix of what was put in. **Cuts** has what
the programs that pass data on share: what one read may return of a stream or of
typed lines, what somebody typed of a text (`Clean`), and what `strlen()` may
find in a buffer (`Stray`), depending on whether the buffer was cleared, never
written or left full, and on the byte behind it. **Doubled** is what weeks 2 and
3 have in common on top of that: the reader's `read()` of what is typed, the
doubler's `read()` of its channel, the stream the two are to be, and which of
the typed bytes belong to lines that fit the buffer (`Fitting`).

**Echo** (week 4). The typed bytes are numbered. A socket is known by who holds
it: `Hold` is the kernel's rule that a connection ends, with a FIN or a reset,
when its last holder lets go, so that `fork()`, the two `close()`s of parent and
child and the end of any process are the code's and what follows from them the
kernel's. `ReadReply` is one `read()` over the line that is still in the buffer.

**Pipe** (week 2). `rd` and `wr` are who holds each end of the pipe. `ReadLine`
reads and tests the length, `WriteLine` writes and clears; the doubler's two
writes are two steps because a kill may come between them, with what has been
written first in `once` and again in `twice`.

**Fifos** (week 3). The programs are started in any order; `Open1` and `Open2`
are the pairs of `open()` calls that wait for each other. The reader passes on a
record of the whole buffer, of which the model keeps the text up to the null
byte: nothing behind it is ever looked at, unless there is none. The doubler's
two writes (`WriteOnce`, `WriteAgain`) are two steps here too.

**Upload** (week 5). Here records are cut by the network, so null bytes matter
and the buffers are kept byte by byte: a positive number is a typed byte, `Null`
a null byte, `Junk` one that nobody typed. `StrLen` walks over the buffer, and
over the byte behind it when no null byte stops it. A connection is only closed
when a process ends; `left` counts the descriptors.

## The runs

| run | bounds | shows |
|---|---|---|
| `ProdCons.cfg` on ProdCons | 2 producers, 2 consumers, 3 items, 1 spurious wakeup | every unlocked read finds its item, the counters agree, what main prints never overstates the work, a blocked consumer has one to wake it (but for the exception of finding 1), that it implements ItemHandoff with its fairness, and that main returns unless one consumer went round for every item |
| `ProdConsStuck.cfg` | 2, 2, 2 items, no spurious wakeup | **violation**: main may wait for ever in `pthread_join` |
| `Connection.cfg` on MCConnection | expected framing: all conversations of up to 4 lines and an ending; any framing: up to 2 lines of 9 kinds and an ending, cut anywhere and joined in any way | with the expected framing it implements Requests, nobody waits for the other (but for a missing file), and the program is stopped when told; with any framing it is stopped only when told (or when a line sent may be cut in front of an A or a 209, or an unwritten buffer held a 209), echoes stay in order and are not repeated, and the process ends |
| `ConnectionWholeE.cfg` | one E line in one read | **violation**: it is never echoed |
| `ProcessTree.cfg` | 3 connections, 4 processes, 1 descriptor to spare, fork failing at any time, SIGINT to the group or to main | no server is left behind, a stop reaches the server and ends main, an interrupt from the terminal ends everything |
| `ProcessTreeSigint.cfg` | 1 connection, SIGINT to main alone | **violation**: the handler waits for a child nobody has told to end |
| `Split.cfg` on MCSplit | all lines of up to 7 letters over two letters and the separator | the array is large enough, the words are right, and the assertion fails exactly for lines with an empty word |
| `Greeting.cfg` on MCGreeting | `n` starting at -1 to 5; the order cut at two or more of six places (57 ways); failures and timeouts at any moment | right answers and no mutual wait (if `n` starts at zero); a server for the twelfth word of the third text after the login, and for nothing else, or, with `n` from 2 to 4, for what memory holds; the loop ends (whatever `n` is) |
| `Echo.cfg` on MCEcho | 2 clients, each with a line that fills the buffer and one that does not; fork failing, any process ended at any moment | echoes are a stream back to each client; a connection is open as long as its child lives; who waits gets on, unless fork() failed for it |
| `Pipe.cfg` on MCPipe | buffers of 2 bytes, lines of 1 to 3, a pipe of 3; memory in and behind the buffers of any content; kills | every byte of a line that fits comes out a first and a second time, in order, bytes nobody typed with the doubler's first portion at most, and both processes end |
| `Fifos.cfg` on MCFifos | buffers of 2, lines of 1 to 3, FIFOs of 2 records and 3 bytes; the same memory; any order of starting; kills | what is typed comes out in order, what is accepted comes out twice; the reader passes on all lines that fit until it goes deaf, and nothing after that; who writes gets on, and the converter ends after the doubler |
| `Upload.cfg` on MCUpload | 2 clients with lines below and above the record, records of 3 bytes, room for 2 on the way, descriptors for 1 or 2 connections | whole records lose nothing and no cut makes anything be printed twice or out of order; what nobody typed is printed with the first record at most; nobody is abandoned before its end, who waits is accepted or the server ends, no writer hangs |

### Why the bounds are enough to be interesting

* ProdCons: two of each are needed for every race in the program (two producers
  between store and announcement, two consumers and a wakeup passed on); three
  items let one consumer go round more often than the other and still meet both
  exits of the loop. The theorems drop these bounds.
* Connection: a pending E line outlives other commands, so an E, something in
  between and a line that completes it are the longest scenario the state of the
  handler can tell apart, and the cuts give one line the part of two. Each kind
  of file (there, missing, empty, ending in byte 0xFF) may be met at each
  request, and `Connect` leaves open whether UNIX_TL listens before it has the
  size, without which no file ever comes through. The theorems drop these
  bounds.
* ProcessTree: main, the server and three connections make five processes, one
  more than the process table holds, so `fork()` fails because of zombies; one
  descriptor to spare means the second failure leaves the server without any.
  The theorems drop these bounds.
* Split: seven letters hold up to four words, and every arrangement of leading,
  trailing and doubled separators around them.
* Greeting: UNIX_TL may give up before or after any of its texts, so the fork
  may come before, with or after the end of the talk, or never; from -1 to 5 `n`
  starts before, at and behind each round that does something. The order is the
  transcript's, cut behind each line, before "You have", inside a line behind a
  blank and before one, and before the port, in all combinations that give three
  segments or more. With fewer the complaint of UNIX_TL, which comes only when
  it gives up, is what main reads fifth: `NoMutualWait` is about the others,
  `ServesFifthText` is proved for all.
* Echo: two clients are needed for a child that inherits the connection of
  another client, after a failed fork; a line of two bytes is the shortest whose
  echo can come in pieces. The theorems drop these bounds.
* Pipe, Fifos: lines below, at and above a buffer of two bytes meet each other in
  both orders; channels smaller than two lines make writers wait. Memory is
  whatever it may be: `Stray` lets each first read find any number of bytes.
* Upload: a record of three bytes is the shortest that a cut can split into a
  text and null bytes, in both orders, beside an address of two bytes; of lines
  2, 1 and 4 long the last needs two records, the first of them without a null
  byte. A `write()` enters the connection as a whole when there is room (`Room`),
  the reader cuts it; all clients start with the same memory, and their
  addresses are of one length, as every client connects to its own host.

`CHECK_DEADLOCK FALSE` is set for ProcessTree, Echo, Fifos and Upload, where a
server that waits for a connection or a program that waits for its user is idle
and not an error, for Pipe, where both processes end, and for ProdCons, where
the end in which main waits for ever is the subject of a property of its own.

### The fairness assumed

Weak fairness of each thread's and process's own steps, as the kernel schedules
all of them and none yields to the others; in ProdCons a thread that waits for
a mutex is not promised it, only that it takes it if it stays free. Nothing is
promised of failures, spurious wakeups, signals from outside, or new
connections. UNIX_TL goes on and has timers (`ohjeet.txt`, "301 UNIX_TL server
timed out"), which is the fairness of `PeerStep`, and it closes its connections,
which is that of `Finish` in ProcessTree and is what `Ends` shows of Connection.
In Echo, Pipe, Fifos and Upload nobody has to type, start, end or kill anything:
typing is not fair, and a property that needs a client to end says so
(`AllServed`).

## What the violated properties say

Each quotes a sentence of the repository; `PROJECT.json` has the details.

1. "wait for all producers and the consumer" (`prodcons6.c:49`). A consumer that
   took every item leaves by the loop's test and passes no signal on; another
   that is blocked is never woken, and main never returns.
2. "send this line back in uppercase" (`ohjeet.txt:21`). An E line is echoed only
   when a second read completes it. The transcript, lines 43-44, shows the end
   of such a session.
3. "closing all child processes in case of SIGINT" (`exercise.c:30`). The handler
   only waits; it is the terminal that signals the others.

Met while modelling, and without a run of their own. In the exercise:

* "This is a comment, ignore it." (`ohjeet.txt:18`): a read that begins in the
  middle of a comment, at an A, is taken for the A command (`exercise.c:351`),
  which is why `StopOnlyWhenTold` excepts a `lookalike`;
* "Before creating the file transfer connection you should send the size"
  (`ohjeet.txt:29-30`): the code connects first (lines 192 and 215);
* "create your service at port 22074" (`ohjeet.txt:8`): the port is word 11 of
  the fifth read (line 133), which is right only if that read begins at "You
  have" and goes on to the end of the line. When the order comes line by line,
  word 11 is "have" and the port 0; when the line is cut short, word 11 is what
  memory holds behind the array. `ServesFifthText` says what main serves then;
* a goodbye read in one piece with a comment before it is found, but behind any
  other line it is lost, as is everything behind the first line of a read; and
  if it is cut inside "209" it is not found at all (line 328);
* a file whose last byte is 0xFF, or an empty one if the uninitialised `ch`
  happens to hold 0xFF, is announced and then the copy loop does not end well
  (line 228);
* a greeting that UNIX_TL breaks off once the server is forked leaves main and
  the server waiting for a caller that will not come: main's loop does not look
  for a goodbye;
* children of the server are never waited for (line 461 is not reached).

In the other programs:

* week 4: "reads the next line from standard input only once the previous line
  has been entirely received and printed" (`h4.txt:15-17`): the client reads
  once for each line (`teht6_client.c:68`), so an echo in two pieces leaves the
  second for the next line. `NeverBehind` states the promise, and `late` records
  where it is broken. What the client prints, "the data that it receives as
  reply" (`h4.txt:63-64`), is its buffer to the null byte, and the buffer still
  holds the line sent: with a reply in part, or none, it prints what has not come
  back. At the end of input the client sends nothing and waits in `read()` for
  ever. When `fork()` fails the server goes on and the connection stays open with
  nobody to serve it (`Abandoned`);
* week 2: the sheet wants each line doubled and long lines ignored
  (`h2.txt:90-97`). The doubler writes twice what one read returned, several
  lines or part of one; the reader takes a long line in pieces, as `read()` is
  asked for no more than the buffer takes, and gives up only if `strlen()` runs
  past the buffer, which depends on the byte behind it. `AllDoubledAtEnd` is
  about the bytes of the lines that fit, and says that they come out a first and
  a second time, not that they do so line by line. The reader reads descriptor
  1, which is the terminal only as long as nothing is redirected;
* week 3: the sheet wants long lines ignored and the others forwarded
  (`h3.txt:9-11`). Long lines go on in pieces here too. After a text that was too
  long the reader's buffer is never cleared again, and it drops every line after
  it, however short (`AcceptsUntilDeaf` says until when it forwards, and that it
  forwards nothing afterwards). The converter changes case in both directions
  (against `h3.txt:11-14`), and once their writers have ended the converter and
  the doubler spin instead of ending. `strlen()` may look behind the converter's
  buffer;
* week 5: "The server writes the data it receives to standard output"
  (`h5.txt:57-59`): the text behind a null byte in what one read returned is
  lost, which happens when a record was cut in two (`PrintedInOrder` has
  the condition). Connections are never closed, so the server ends with an error
  when its descriptors are used up.

## What is proved

TLAPS proves the following for all values of the constants, from the named
assumptions in the modules (numbers are naturals, sets are of the right kind).

**ProdConsProofs.** Any number of threads, items and spurious wakeups.
`Invariance` is that IInv = TypeOK /\ PlaceInv /\ PutInv /\ TakeInv /\
Accounting is inductive. None of the properties is so alone: that `nready` does
not fall below zero and `nput` does not pass the array needs `Accounting`
(stored = taken + announced + about to be announced, a cardinality over the
producers in between); `ItemInPlace` needs `TakeInv` (a consumer's own index
does not overtake the items taken by all) and `PutInv` (what put.mutex
protects: everything below `nput` is in place). From it follow `TypeCorrect`,
`ReadsInPlace`, `ItemsAccountedFor`, `ReturnsDrained` and `HandsOver`, that
every step is a step of ItemHandoff or a stutter. `Rescue` shows that a blocked
consumer has another to wake it, but for the one exception that finding 1 uses.
`NeverOverstates` (`CountsNeverOverstate`) is about the counters no mutex
protects, by `CountInv`: there are numbers `said[i]`, which the program does not
keep (what producer i has announced), that together come to no more than
`nget + nready`, and that no value of `count[i]` exceeds, in memory or about to
be stored by either of the two threads that share it. `ThreadsRunOut`: every
step lowers what is left (items to hand over and spurious wakeups; then what the
threads have to run until the next item; then joins). `StandsStillOnlyThere`:
when nobody can go on, main has exited or one consumer has gone round its loop
for every item, which is finding 1. It needs that main has created just the
threads up to its index (`BornInv`), that who holds a mutex is about to unlock
it (`HolderInv`), that a producer returns from a full array only (`FilledInv`),
and that no wakeup is lost (`SignalInv`): a producer signals only when `nready`
was zero, and yet while `nready` is positive not all consumers that have not
returned are blocked.

**ConnectionProofs.** Any set of scripts, files of any kind; UNIX_TL may time
out at any time.

* `TypeCorrect`.
* `StopsOnlyWhenTold`, by `StopInv`: as long as no line that may be cut in front
  of an A or a 209 has been sent, such a piece is in the stream only if UNIX_TL
  has said A or goodbye and sends nothing more, and a process that gave the order
  does nothing afterwards (or the first read found a 209 in `garbage`). Nothing is
  supposed of the scripts or the framing.
* `EchoesNeverOvertake` (`EchoesInOrder`), by `OrderInv`: pieces pass from the
  stream to `ebuf` and from there to an echo, each of the three is sorted, and
  all of one is ahead of all of the next.
* `HeedsGoodbye` (`GoodbyeHeeded`), by `GoodbyeInv`: with the expected framing
  an order to stop is the last piece of the stream until it is heeded.
* `AnswersRight` and `NobodyWaits` (`AnswerRight`, `NoMutualWait`), by
  `AnswerInv`: with the expected framing UNIX_TL and the handler are in step
  (the line it waits for is unread, half read, being fetched, or answered by the
  one reply it has not read), or UNIX_TL has given up and asks for nothing more.
  That no reply to an earlier line is ever taken for the answer rests on
  UNIX_TL's complaint being the end of its questions.
* `ServesRequests` (`Serves`): every step is a step of Requests or a stutter.
  `AnswerInv` says nothing of the handler once UNIX_TL has given up, and it may
  still be at work then; `DutyInv` says what it has to do in every state
  (`Duty(a)`: it has ended, has nothing to answer, or there is one request, in
  the stream, in `ebuf` or in the open file, whose answer is `a`, among comments
  and orders to stop), and `Moved` that a step of the handler leaves that as it
  is, gives the request up or gives its answer.
* `ConversationRunsOut` and `StandsStillOnlyAtEnd`, with any framing: every step
  lowers what is left (lines to say; then pieces to handle; then replies to
  hear), and when neither can go on the process has ended and the connection is
  closed. The second is for scripts that end, as the run's do, with a line that
  closes the program or the connection (`SaidToTheEnd`; by `PlanInv` UNIX_TL has
  that line still to send as long as it goes on): a UNIX_TL that fell silent
  would keep `newConnection()` in `read()`.

**ProcessTreeProofs.** Any number of connections, any limits, any interrupts.
IInv = TypeOK /\ PlaceInv /\ TreeInv /\ NoServerLeftBehind /\ StopReachesServer.
`TreeInv` is the family relations: a parent is only ever replaced by init, and
only when it dies, so a connection's parent is the server for as long as the
server lives. `ServerNeverLeftBehind` and `StopNeverMissesServer` follow.
`ProcessesRunOut`: every step lowers what is left (connections to accept; then
what the processes have to run until then; then the interrupt).
`StandsStillOnlyInAccept`: when no process can go on, all are gone, or the server
stands in `accept()` and no SIGINT has come from the terminal. `HeldInv` says
that such a SIGINT finds every living process, one just forked included, in its
handler or with the signal pending, and `RoomInv` that the server forks only for
a connection it has accepted.

**GreetingProofs.** The loop of main, for any order in any segments and any `n`
at first, and `split()`, for lines of any length over any alphabet.

* `SplitTypeCorrect`, `ArrayLargeEnough` (`RoomForTerminator`: `assert(idx <
  count)` never fails) and `SplitFindsWords` (`ReturnsWords`), by `SplitInv`:
  the count is the number of separators passed (`ScanInv`, `CountInv`),
  `strtok` has found at most one word more than it has passed separators
  (`TokenInv`), and what it has found are the words that begin, and those that
  end, where it has been, both listed in order (`FoundInv`). The last is what
  makes the reference definition, which looks at the whole line, follow from a
  loop that never does.
* `SplitRunsOut` and `GreetingRunsOut`: the two loops of `split()` and the loop
  of main lower what is left of the line and of the greeting at every step, so
  they end, whatever `n` is at first and however the order is cut.
* `TypeCorrect`: main has a port exactly when it has forked.
* `AnswersRight` and `NobodyWaits` (the second for orders of three segments or
  more), by `PhaseInv`: in each phase of UNIX_TL it says how many texts main has
  read, what it has said, and which text is under way.
* `ServesTheFifth` (`ServesFifthText`), by `NamedInv` and `OtherInv`, with no
  hypothesis about the order, its cuts or `n`. With `n` zero at first, either
  UNIX_TL has given up before the order, and there is no fifth text to come, or
  what main has read after the login and what is still to come are together the
  order and the complaint behind it, as far as UNIX_TL has said them, and what
  main has forked for is the third of these. With another `n` main reaches round
  4 before it has read the order, if ever: what it reads then are UNIX_TL's
  greetings and the complaint, none of which has twelve words (`LineWords`,
  `ShortComplaint`), so that the port is junk. `PortIsTwelfth` is what connects
  `PortsIn` of the code, which may also be the end of the program, with that
  word.

**CommonProofs, EchoProofs.** Any number of clients, lines of any length.
`CommonProofs` has the lemmas about sequences that all proofs use, those about
the measures of the section "Towards liveness", and those about streams that
three modules use: what a read
takes and what it leaves are the stream again; the typed bytes of a text, `InOrder`
from one number to another, stay so when texts are joined or cut between typed
bytes; and then `Clean` of it is those numbers. The inductive invariant of Echo is IInv = TypeOK /\
SockInv /\ DataInv. `SockInv` ties the state of the master and of each child to
what they hold, and gives `StaysOpen` (`OpenWhileServed`). `DataInv` adds to
`StreamIntact` that what has come back is the first part of what was sent also
after the connection is closed, that a child which does not write has no chunk,
and that a waiting client which is not behind has everything but the line in its
buffer; from it follow `NothingLost` (`StreamIntact`) and `IsAStream`, the
refinement to ByteStream.
`StandsStillOnlyAbandoned`: when nobody can go on but by what a user does, no
client waits for an echo, unless fork() failed for it. `HoldInv` says that a
connection is held by its child and, until `close(sockfd)`, by the master, and by
no other child, so that it is closed when that child ends; that one nobody has
accepted is held by the kernel only while somebody listens; and that a child
listens only before its `close(listenfd)`. With `DataInv`, a child that waits in
`read()` has echoed everything, and the client, which by `ReadingInv` has not
read everything, would have it on its way.

**PipesProofs.** Lines, buffers and channels of any size, memory of any content,
a kill at any moment. `PipeTypeCorrect` and `FifosTypeCorrect`: no text longer
than a buffer is passed on, no channel holds more than fits. `PipeIsAStream` and
`FifosIsAStream`: both programs refine ByteStream. The property looks only at
what was typed and what has come out of the far end, so the invariant, `Flow` and
`FlowAt`, says where everything in between is: what was typed is what came out,
then what the doubler holds, then what is in the channel, and so on back to the
reader's buffer, each continuing the one behind it, up to the first program that
has given up. `PipeAllDoubled` (`AllDoubledAtEnd`) needs `EndInv` besides: the
reader holds the write end as long as it may write, so the doubler finds the end
of the pipe only when nothing can follow, and what it has written first is what
it has written again. (It is proved for all that was typed; the property speaks
of the lines that fit only, as the others are to be ignored.) `PipeJunkAtFirst`
(`JunkOnlyAtFirst`), by `JunkInv`: when the first text enters the pipe the
doubler has read nothing, its first read takes all of that text, and every later
text and portion comes from a buffer that was cleared. `FifosAccepts`
(`AcceptsUntilDeaf`), by `AcceptInv`: the reader's memory is full of an old text
only if the byte behind its buffer is not null, until then all that was typed
has been accepted or is the text it holds, and from then on every text it reads
is too long. `PipeRunsOut`: every step of week 2 lowers what is left
(lines to type; then the rest of one and the reader's own steps; then bytes in
the pipe and the doubler's). `PipeStandsStill`: when neither can go on both have
ended, or the reader waits for a line and what was typed before has come out
twice or the doubler has ended. It needs that both close the end they do not use
(`ClosedInv`), without which the end of the pipe never comes and the parent stays
in `wait(0)`, and that a text fits into an empty pipe. `FifosStandStill`: in
whichever order the three programs of week 3 are started, when all run and none
can go on, the reader waits for a line and what was typed before has come out
twice, unless the reader has become deaf. By `OpenInv` both sides of a FIFO have
opened it or neither has.

**UploadProofs.** Any clients, lines and sizes.

* `TypeCorrect`, and `ServedToTheEnd` (`NoneAbandoned`), by `TurnInv`: between
  two clients the server serves nobody, and a client that has not started has no
  connection.
* `PrintedOnceInOrder` (`PrintedInOrder`). That nothing is printed twice or out
  of order, whatever the network cuts, is `OrderInv`: the numbers in what was
  printed, in what is on the way and in the client's buffer rise, those of each
  are below those of the next, and a buffer that is about to be read into holds
  none. That nothing is lost of records read whole is `EntireInv`, and needs to
  know what a record looks like on the way: the stream has `borders` Max apart,
  and behind each a record that begins with a typed byte and holds none after
  one that is not typed (`Solid`), so that the first null byte, where `strlen()`
  stops, has nothing typed behind it in the record.
* `StrayAtFirst` (`StrayOnlyAtFirst`), by `StrayInv`: what memory held at first
  is in a client's buffer only until its first record has left it, on the way
  only before anything was printed, and in what was printed only in the first
  Max bytes.
* `StandsStillOnlyForIdle`, by `StartedInv` (who is connected has started): when
  nobody can go on, every client that is stuck in `write()` waits to be accepted,
  and the server reads from a client that has nothing to write; nobody waits to
  be accepted but for that, or because the server has ended.

All invariants of the passing runs, and all their properties that speak of safety
only, are thereby proved.

### Towards liveness

That something happens at last is beyond the prover, but two things it rests on
are safety, and proved for every value of the constants:

* nothing goes on for ever: each of the theorems `...RunsOut` gives three
  natural numbers (`Left`) such that every step lowers the first, or keeps it
  and lowers the second, or keeps both and lowers the third. `Descent` has the
  ordering, `CommonProofs` that it is well founded (`DownEnds`), and the theorem
  says both, so that an infinite run consists of stutters from some point on;
* nobody is stuck: each of the theorems `StandsStill...` says what the state is
  when nobody can go on.

| program | runs out | stands still only where | what the two lead to |
|---|---|---|---|
| ProdCons | `ThreadsRunOut` | `StandsStillOnlyThere` | `MainReturnsUnlessOneTookAll` |
| Connection | `ConversationRunsOut` | `StandsStillOnlyAtEnd` | `Ends` |
| ProcessTree | `ProcessesRunOut` | `StandsStillOnlyInAccept` | `InterruptEndsAll` |
| Greeting | `GreetingRunsOut` | | `LoopEnds` |
| Split | `SplitRunsOut` | | |
| Pipe | `PipeRunsOut` | `PipeStandsStill` | `BothEnd` |
| Echo | | `StandsStillOnlyAbandoned` | part of `Answered` |
| Fifos | | `FifosStandStill` | part of `Delivered` |
| Upload | | `StandsStillOnlyForIdle` | part of `AllServed`, `NoStuckWriter` |

What is missing between the two columns and the last needs ENABLED and so is
not proved: that who is not "blocked" (`AllBlocked`, `PeerBlocked`,
`MasterBlocked` and the like, which spell out the guards of the steps that have
fairness) can take a step, and that by fairness somebody then does. For Greeting the second
column would say little, as UNIX_TL's timer can always expire; that `split()` is
never stuck is the deadlock check of its run. `StopEndsMain` does not follow from
the two: it looks at main alone and not at a standstill of all. The converter and
the doubler of week 3 spin for ever once their writers have ended, and a client
of week 4 whose server has closed sends nothing and reads nothing for ever at the
end of its input, so in Fifos and Echo nothing runs out. Upload would, but what
its clients have to write is the sum of their lines, which needs an induction
over them.

### Model-checked only

Liveness (`FairHandoff`, `MainReturnsUnlessOneTookAll`, `Ends`, `StopEndsMain`,
`InterruptEndsAll`, `LoopEnds`, `Answered`, `BothEnd`, `Delivered`,
`WritersGetOn`, `AllServed`, `NoStuckWriter`): temporal reasoning from fairness
and ENABLED is beyond the prover; the section above says what part of it is
proved. The project declares no RECURSIVE operator;
where the code walks over data (`split`, `strlen`, the sum of the counters) the
models say it with cardinalities and quantifiers, and the induction is that of
the steps.

Conversely, some invariants are proved and no longer part of a run: the types of
all modules but Pipe and Fifos, `AnswerRight` of Connection (`Serves` implies
it), `DoneMeansDrained`, `Handoff` (the safety part of
`FairHandoff`, which is run) and `StreamIntact`, on which `Streams` rests.

## What the models leave out

* Logging, messages, upper-casing, and what the bytes of a file are.
* `line[256]` in `split` and the fixed buffers elsewhere: lines are short enough.
* The steps of main before its loop (looking up the service, connecting): each
  ends the program or changes nothing.
* `fopen`, `fseek`, `malloc` in `filetransfer` failing for other reasons than a
  missing file; `strdup` in `split` failing.
* Other signals than SIGINT, SIGPIPE and SIGTERM.
* Data races beyond their values: `count[i]` and `buff[i]` are read and written
  as whole words.
* Signals other than the end they bring in Echo, Pipe, Fifos and Upload, and the
  failures of calls that end a program before it has a state: resolving a name,
  binding, making a pipe or a FIFO.
* Partial writes: a `write()` to a pipe, FIFO or socket enters it as a whole or
  waits. None of the programs looks at how much it wrote.
* In Echo and Connection a socket takes whatever is written to it, so `write()`
  never waits: a line is short, and a client of week 4 reads an echo before it
  sends again.

## Not modelled

* The sources of the UNIX Network Programming books: third-party code the
  exercises are built on, hundreds of separate examples, of which only
  `prodcons6.c` was changed by the author.
* The daytime programs, the UDP sender and receiver, week 1 and the two small
  programs of week 2 (`teht2.c`, `testPipe.c`): a process that does its calls in
  order and keeps nothing in between. There is no order of events in which they
  could go wrong other than a call that fails and ends them.
* Documents and answers.

## Plan

What could be done next, the most useful first.

1. Greeting composed with ProcessTree, so that one state has both the port and
   the life of the server.
2. A measure for Upload, with what is left to write as a variable of the proof.
