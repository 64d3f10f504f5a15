# os-seminars in TLA+

The repository is a course on operating systems: eighteen seminars, each with a
text and small C programs, and a Python exporter. There is no single system.
What the programs have in common, and what makes some of them hard to test, is
that they are *concurrent*: threads that share memory, processes joined by
pipes, signals, sockets. This directory models those programs one by one, checks
them with TLC on small instances, and proves for every size what matters most.

Contents: [inventory](#inventory), [plan](#plan), [modules](#modules),
[runs](#runs), [fairness](#fairness), [proofs](#proofs),
[what is only model-checked](#what-is-only-model-checked),
[what is not modelled](#what-is-not-modelled), [how to run](#how-to-run).

## Inventory

Modelled:

| component | state | operations | who interacts with whom | what makes it correct |
|---|---|---|---|---|
| mutex server, `15-threads/mutex-example.c` | shared buffer and length, mutex, two loop counters per thread | lock, write a byte, yield, unlock, return; create, join, tear down, dump | 10 threads and `main` share the server under one mutex | each message whole, no byte lost, nothing freed while in use, the program ends |
| condition variable, `15-threads/cond-var-example.c` | flag, server, mutex, wait set | wait, signal, spurious wake-up, lock, unlock, create, join, destroy | a writer signals a reader | the reader reads only a whole message, no wake-up is lost, the program ends |
| ring of doubles, `15-threads/threads-mutex.c` | k slots, mutex, exit status | three `+=` under the mutex; create or fail, join, print | neighbours in the ring share slots | every sum complete when printed, a failed run prints nothing |
| pipe and fifo programs, `14-dup-pipe/pipe/*.c`, `fifo/*.c` | a pipe's bytes, who holds its ends, exit codes | pipe, fork or failure, open, close, write, read, SIGPIPE, wait | one or two children write, the parent reads; two unrelated programs meet in `open` | nothing lost or reordered, EOF and SIGPIPE reach who needs them, nobody is left behind |
| thread creation and results, `15-threads/simple-create-join.c`, `threads/set-stack-size.c` | labels, words read, heap, output | scan, create or fail, join, print, free | a chain of threads, each joined by the one before; workers joined by `main` | the numbers come out reversed, or none does; each result belongs to its argument and is freed once |
| cancellation, `threads/cancel.c`, `cancel-async.c` | the request, the lock of stdout | cancel, act on it, print, join | `main` cancels a thread that prints and loops | when the join returns, and when it cannot |
| launcher, descriptors, fork and exec, `pipe-launch.c`, `dup/*.c`, five programs of `13-fork-and-exec` | descriptor tables over open files, the buffer of stdout, a pipe | open, dup, dup2, close, pipe, fork, exec, printf, exit, wait | a child inherits, another program takes over, the parent counts | the launched command reads and writes what it should; every text comes out where it should, once |
| signals, `16-signals/*.c` | pending set, queue of real-time signals, mask, handlers that run | block, unblock, pause, sleep, sigsuspend, deliver, kill, queue | a process, its parent or child, the alarm, a user | real-time signals arrive as often as they were sent; nobody waits for what has come |
| epoll reader, sleepy server and its readers, `17-networking` | the streams' data and ends, entries done, `files_left`, pending events | wait, process an event, poll, read, connect, accept, respond, close | one reader, a peer for each stream | all that was sent is read, and the reader ends |
| number clients, `udp/server.c` and `udp/client.c` | input, request, answer, datagrams in the network | scan, write, read, send, receive, break, lose, double | a client and a server; many clients and a server that takes one message | each line is the answer to its number; who waits for ever and why |
| exporter, `ejudge-exporter/ejudge_parser.py` | session, formats, folders and files | construct, log in, parse a page, download, save; an exception in each | a script and a site that may answer anything | the last accepted solution of every problem is saved |

Left out for good: the assembly examples (straight-line code), the shell scripts
and the test Makefile (text processing), `18-crypto-basics` (one call sequence
of a library), `threads-using-clone.c` (two calls), and the programs with one thread
that `main` creates and joins at once (`struct-args.c`, `value-arg.c`,
`simple-create-thread.c`). [What is not modelled](#what-is-not-modelled) has the
other reasons.
`PROJECT.json` lists every component with its files and all the hazards at their
lines, the ones that no property covers yet included.

## Plan

In this order, the most concurrent code first:

1. `MutexServer` with its abstract specification `MessageLog`; `CondVar`;
   `RingAdd`. **Written**, with their safety invariants proved.
2. `Pipe` (the kernel's pipe as operators) and `PipePrograms` on top of it.
   **Written.**
3. `ThreadPrograms`: creation trees, results and cancellation, one module with the
   program as a variable, as in `PipePrograms`. **Written.**
4. `FdPrograms`: descriptor tables over open files and stdio buffers, composed with
   `Pipe` for `pipe-launch.c`. **Written.**
5. `Signals`: pending sets, the real-time queue, nested handlers and `pause()`.
   **Written.**
6. `SocketReaders`, `Clients` and `Exporter`. **Written.**
7. The proofs of the safety invariants that the runs check, and the refinement of
   `MessageLog` without its fairness. **Written**: every invariant that a passing run
   checks is a theorem. Liveness stays with TLC
   (see [what is only model-checked](#what-is-only-model-checked)).

## Modules

| module | what it is |
|---|---|
| `MessageLog` | abstract: a log to which each thread appends its messages, each in one step |
| `MutexServer` | `mutex-example.c`, byte by byte |
| `MutexServer_proofs` | theorems about it |
| `CondVar` | `cond-var-example.c` |
| `CondVar_proofs` | theorems about it |
| `RingAdd` | `threads-mutex.c` |
| `RingAdd_proofs` | theorems about it |
| `Pipe` | operators for the kernel's pipe, external to the repository |
| `PipePrograms` | the six programs of `14-dup-pipe/pipe` and the two of `14-dup-pipe/fifo` |
| `PipePrograms_proofs` | theorems about it |
| `ThreadPrograms` | `simple-create-join.c`, `threads/set-stack-size.c`, `threads/cancel.c`, `threads/cancel-async.c` |
| `ThreadPrograms_proofs` | theorems about it |
| `FdPrograms` | `pipe-launch.c`, `dup/*.c` and `13-fork-and-exec`'s `exec-simple.c`, `exec-change-fd.c`, `fflush.c`, `simple-fork-example.c`, `zombie.c`, `orphan.c` |
| `Signals` | the eight programs of `16-signals` |
| `Signals_proofs` | theorems about it |
| `SocketReaders` | `epoll-read-fds-vector.c`, and `sleepy-server.c` with its readers |
| `SocketReaders_proofs` | theorems about it, and about `FdPrograms` |
| `Clients` | `tcp-client.c`, `udp-client.c`, and `udp/server.c` with `udp/client.c` |
| `Clients_proofs` | theorems about it, and about `Exporter` |
| `Exporter` | `ejudge_parser.py` |

The definitions that two components proved in one module would both have, such as
`Init` and `TypeOK`, have the prefix `Fd` in `FdPrograms` and `Exporter` in `Exporter`.

Each module is checked as it stands, with the constants of the `.cfg` of the same
name; `Exporter` and `CondVar` have a second one for the property that the code
violates. "Mutation" in a comment marks an operator that is not used: it is the
wrong version of the one after it, and `PROJECT.json` says which property
notices when the two are exchanged.

### MutexServer

A step is one access to shared memory or one call: `srv->len + 1 > srv->cap` is
`CheckRoom`, the store into the buffer `Store`, and `srv->len++` the two steps
`LoadLen` and `StoreLen`, so that the model without the mutex does lose bytes.
`sched_yield()` needs no action: any other thread may step between two steps. A
byte is represented by its author. `i`, `j`, `mi` are the loop counters, `tmp` the
register of the `++`, `alive` the set of shared objects not freed yet.

`ImplementsLog` maps each `msg_len` bytes of the buffer to one entry of
`MessageLog`'s log: of the four steps that each of
a message's bytes takes, exactly one, the last byte's `StoreLen`, appends the entry,
and the rest do not change the log. It includes the fairness of
`MessageLog`: all the messages are appended in the end.

### CondVar

`pthread_cond_wait` is `Wait` (releases the mutex and joins the wait set in one
step) and `ReaderRelock`. Between them the reader leaves the wait set by `Signal`
or by `Spurious`, and then competes for the mutex as a thread of its own. `full`
starts as any byte of `FlagBytes`, because the code does not initialise it;
`garbage` remembers which. This is the first finding: `WaitsForData`, what the
seminar's README says of the program, fails when the byte is 1, and
`ReadsWholeMessage` is the same with that case excluded.

### RingAdd

Amounts are integers, in hundredths of `N`: `.99 N`, `N` and `1.01 N` are 99, 100
and 101, and the 3.00 N that is printed is 300. Each `+=` is a `Load` and a
`Store`. `CreateFails` is `pthread_create` failing at any turn of the loop, after
which `exit(1)` stops every thread where it is.

### Pipe and PipePrograms

`Pipe` represents a pipe by its bytes and by the sets of processes that hold its
read and its write end. `Portions` is what one `write` may take: everything or
nothing up to `PIPE_BUF`, any part of a longer one. `PipePrograms` picks one of
the programs at the start (`prog`) and keeps it:

| `prog` | code | children | a `write` | the parent reads |
|---|---|---|---|---|
| `simple` | `pipe-simple.c`, `pipe-simple-alternative.c`, `unclosed-writer.c` | 1 | the message, once | one byte at a time until EOF |
| `reader` | `unclosed-reader.c` | 1 | one byte, for ever | five bytes, or until EOF |
| `overflow` | `pipe-buffer-overflow.c` | 1 | the message, for ever | nothing, it spins |
| `concurrent` | `pipe-concurrent.c` | 2 | a block longer than `PIPE_BUF`, for ever | blocks until EOF |
| `fifo` | `fifo-writer.c`, `fifo-reader.c` | the writer, forked by nobody | the message, `Limit` times | one byte at a time, for ever |

A byte is `<<child, position in the message>>`; `sent` and `got` are the positions
of the last byte written and read, so that a child that writes for ever has
finitely many states without a bound on what it writes. `counter` is a variable of
the process that counts: `unclosed-reader.c`'s parent counts what it reads, which its
child knows nothing of, and `fifo-writer.c` counts its own messages. So the child of
`reader` writes on until it meets the broken pipe, and its handler ends it with 1:
`KilledOnlyAsOrphan` says that it ends in no other way, `Finishes` that it does end, and
`NoOrphanWriter` that no child writes for ever once its parent reads no more, which
needs that the children close their read ends. `pipe` and `fork` may
fail, and then the parent returns 1 with whatever it has already forked still
running. A process that ends closes its descriptors. What the parents print is
left out: this includes the block that `pipe-concurrent.c` prints in full after
a read that was shorter, listed as a hazard.

### ThreadPrograms

Four programs, again chosen by `prog`. In `chain`, thread 0 is `main` and thread t
creates and joins thread t + 1; in `results`, `main` creates workers 1, 2, ... for
the arguments and joins them in that order. A number, a result or a printed line is
represented by the place of the word it comes from, so that copying and `toupper`
need no strings. `input` is any sequence of at most `MaxInput` words. `Fail` is
`exit(1)` or `exit(EXIT_FAILURE)` by whichever thread could not go on, `main` or a
worker: nothing moves after it. `set-stack-size.c` may have printed some results by
then, because a slow worker's `strdup` can fail after `main` has joined a fast one;
`simple-create-join.c` cannot have printed any. `OutputInOrder` says both. In
`cancel` and `async` a `printf` is two steps, between which stdout is locked; `main`
has one before the join and one after it, and blocks in either if the thread was
cancelled with stdout locked (`LockedOut`). A deferred request is acted upon between
them only, and the thread then unlocks; an asynchronous one anywhere, and whether
stdout stays locked is open, because `printf` may not be cancelled so. `main`'s
`sleep(1)` waits for nothing and is no step. `Termination` says exactly when each of
these programs hangs.

### FdPrograms

Every program is the list of its calls, written as it stands in `main` (and in the
child's branch), and each call is an action: `<<"dup2", "newfd", "fd1", "fd2">>`
assigns to the variable `newfd`. A descriptor refers to an open file description,
and since no program opens a file twice, files have one offset each. `stdio` is
what is still in the buffer of stdout: `Fork` copies it, `Exec` drops it, `Exit`
writes it, and `printf` writes a line at once only to a terminal. Every call that
returns an error may fail, which ends the program with 1, but where the code does
not look. The programs start with any subset of the descriptors 0, 1 and 2 open:
`Plumbing` and `Output` say on which of them they rely.

### Signals

A program is again a list of calls, of the process that gets the signals. `frames`
is the stack of handlers that run, each with the mask to go back to; a handler is
one step, but `counter++` is a load and a store. `pause`, `sleep` and `sigsuspend`
are entered and left in two steps, so that a signal can come before. Of several
signals that can be delivered, Linux takes the least number: this is why SIGINT
overtakes the real-time signals in `rt-signals.c` unless they have been handled
before it is sent, and the `sleep(1)` that is to see to it is no step. `early` and
`quiet` remember, for the properties, that a handler ran right before a `pause`, and
that nothing was pending when SIGINT was sent.

### SocketReaders

A stream has data that came (`avail`) of all that was ever sent (`fed`), and a peer
that is open, closed or has reset it. `read` takes a portion, or is 0 at the end,
or an error. In `epoll` each stream is of a `kind` that decides how its end shows:
`ReadsAll` and `Ends` say for which kinds `read_data_and_count` is correct. It is
for sockets that only this process has. With a pipe it never returns: the end of a
pipe is EPOLLHUP without EPOLLIN, which `process_event` skips. With a descriptor
that another process has too, `close` does not take the stream out of the epoll
set, and `files_left` goes down again at every event. A signal during `epoll_wait`
makes it crash. `files_left` is unsigned, here modulo N + 2. The two readers of the
sleepy server share the reading operators; the server is `Accept`, `Respond` and
`Shut`, one instance for each port. Its answer comes in portions, of which a `read`
takes all that is there; somebody may end the server before it answers (`Killed`),
and a connection may break (`Reset`), with the part of the answer that came still to be
read. `read-nonblock.c` has each stream's whole answer in the end, or none of it, unless
it was told of a reset. `read-slow.c` reads each stream once, goes on after an error and
returns 0 whatever it has met: `ReadsAll` promises of it only what it keeps, some part
of every answer of which anything came.

### Clients

The k-th answer is the parts `(k-1) * Size + 1` to `k * Size`, so that what is
printed shows which answer it was made from: a `read` that gets less than an int
overwrites the first parts of `recv`, and the reader is out of step from then on. A
`write` to a broken connection kills the TCP client by SIGPIPE, or is told of a
reset and ends it with 0, like a `read`. The input is a number of numbers, then its
end or a text, on which `scanf` returns 0 for ever, so that the last number is sent
again and again. Datagrams are a set from which delivery may or may not remove,
which is how they are doubled, and in no order. In `hello` the server's three calls
before `recvfrom` fail with exit codes of their own, and a datagram reaches it only
while it listens.

### Exporter

The solutions have their numbers, problems, status and language from `site`, any of
them; `outcome` is where the script stopped, `done` or one of six places in which an
exception ends it. `open` empties a file before anything is written to it: a write
that fails (`WriteFails`) leaves `CutOff`, where there may have been another
problem's solution, and an `open` that fails (`OpenFails`) leaves all as it was.
`formats` is `null` for an empty file, on which `.get` fails at the first download,
and a file that cannot be read ends the constructor, since the handler uses
`self.logger` before it is there. `Saved` includes that problems of the same name
overwrite each other, and that the file being written when the script stops may be
cut off. The second finding is `DownloadsProblemId`: with `--problem_id`, which the
README documents, there is no login.

## Runs

| run | expects | shows |
|---|---|---|
| `mutex_server` | pass | the buffer is a log of whole messages (`BlocksWhole`, `ImplementsLog`), every byte is in it (`NoByteLost`), nothing is used after it is freed (`NoUseAfterFree`), `main` ends (`Termination`) |
| `cond_var` | pass | the reader reads a whole message although it may be woken for nothing (`ReadsWholeMessage`), no signal is missed (`NoMissedSignal`), teardown comes last (`NoUseAfterDestroy`), everybody returns (`Termination`) |
| `cond_var_uninitialised` | violation of `WaitsForData` | with 1 on the stack, the reader reads before the writer has written |
| `ring_add` | pass | partial sums are exact at every step (`AddsUp`), output is complete or absent (`PrintsAllOrNothing`), the program exits (`Termination`) |
| `pipe_programs` | pass | what arrives is what was sent, in order and whole before EOF (`Delivered`), SIGPIPE ends only those whose reader is gone, and `unclosed-reader.c`'s child ends by it alone (`KilledOnlyAsOrphan`), the programs end that should, the unread pipe blocks its writer for good and the reader of the fifo never stops (`Finishes`), no child writes on when its parent has given up (`NoOrphanWriter`) |
| `thread_programs` | pass | output is the right words in the right order, or the first of them (`OutputInOrder`), memory outlives its users and is freed (`HeapSafe`), the programs exit, or hang in the join or in `printf` as said above (`Termination`) |
| `fd_programs` | pass | another program finds the right descriptors (`Plumbing`), each text is where it should be and there once, or twice, or lost, where the code does so (`Output`), the launcher ends and has counted everything (`Counts`) |
| `signals` | pass | every delivered SIGINT is counted (`CountsDelivered`), real-time signals are handled as often as sent, ordinary ones once or more (`AsOftenAsSent`), nobody waits for ever for a signal that comes, unless it came before the `pause` (`GoesOn`) |
| `socket_readers` | pass | a reader that ends has read everything, `read-slow.c` something of each answer, and `files_left` is the number of streams that are not done (`ReadsAll`), sockets make it end (`Ends`) |
| `clients` | pass | a line is the answer to its number, or what a piece or a double made of it (`RepliesMatch`), a client and the server end unless something was lost (`Ends`) |
| `exporter` | pass | the files hold what they should wherever the script stops, but for the one whose writing broke off (`Saved`) |
| `exporter_problem_id` | violation of `DownloadsProblemId` | with `--problem_id` there is no session |

Bounds, and why they are enough:

- `mutex_server`: 3 threads, 2 messages of 2 bytes (10, 3 and 32 in the code).
  Two threads are needed to collide, a third to collide with a thread that waits
  already; two bytes give a message an inside; two messages let a thread come
  back. The safety properties are proved for all sizes.
- `cond_var`: 3 bytes, as in the code; flag bytes 0, 1 and 255, the code only
  compares with 1; 2 spurious wake-ups, one before and one after the writer's
  turn. `MaxSpurious` is the only bound on behaviour. Proved for all values.
- `ring_add`: k = 4, the smallest ring in which a thread has a neighbour on each
  side and one that it shares no slot with at distance 2. Proved for every k.
- `pipe_programs`: capacity 5, `PIPE_BUF` 2, messages of 2, blocks of 3, and the
  code's own limit of 5 bytes for the reader that gives up. Real values are 65536,
  4096, 12 and 8192; what is kept is their order, that a message fits and a block
  does not fit `PIPE_BUF`, that the pipe does not hold a whole number of messages,
  and that it holds more than a block. No counter is cut off; `fifo-writer.c` writes
  5 messages instead of 10, more than the pipe holds. The safety properties are proved
  for all sizes in this order.
- `thread_programs`: all inputs of up to 4 words, none included. Each thread deals
  with its neighbour in the chain or with `main` only, so that three threads would
  do; the fourth lets a failure come both before and after results are printed. The
  safety properties are proved for inputs of any length.
- `fd_programs`: descriptors 0 to 5, two more than any program has open at once
  beside the standard ones; the command writes up to 3 bytes, one more than a
  `read` takes and than the pipe holds. The safety properties are proved for any
  number of descriptors from three up, and for all sizes.
- `signals`: each signal is sent 3 times instead of 10 by `rt-signals.c`, which is
  enough for one to be pending, one handled and one merged; the user sends each
  signal at most twice, so that a second comes into the handler of the first. The safety
  properties are proved for any number of each.
- `socket_readers`: 2 streams, as in the readers of the sleepy server, and 2 portions
  of data each, so that an answer can come in two pieces. Two are enough for one
  stream's events to spoil what is counted for
  the other. The safety properties are proved for any number of streams and portions.
- `clients`: 3 numbers and 4 requests, ints in 2 parts, 1 doubled datagram, any
  number of lost ones, 2 processes of `udp/client.c`. A text in the input makes the
  client send for ever: `MaxSent` cuts this off. The safety properties are proved for
  all these bounds.
- `exporter`: 2 problems, all 512 ways of 3 solutions: several accepted ones for a
  problem, a rejected one after an accepted one, a problem without any. The safety
  properties are proved for any number of both.

## Fairness

Weak fairness of each thread or process, and of nothing else: a thread that can
go on all the time is scheduled eventually, which is what the kernel's scheduler
does. No lock is assumed fair, and no spurious wake-up, failure or success of a
call is assumed to happen: `CreateFails`, `CreationFails`, `Fail` and the successful call are
alternatives of the same fair action. In `mutex-example.c` and `threads-mutex.c` a
thread takes the mutex finitely often, so nobody can be passed over for ever.
That `pipe-buffer-overflow.c` blocks needs the child to run; the parent's spinning
changes nothing and needs no fairness.
Of the world outside, fairness is assumed where a program waits for it and the
property says so: the peer of a stream closes sooner or later (`SocketReaders`), a
server answers (`Clients`), enter is pressed (`fifo`), a sleep is over. The network
may lose everything; no user need send a signal. `Exporter` states no liveness: it
has no loop that could go on.
`CondVar` needs no fairness for `Spurious`; its `Termination` shows that the
signal alone is enough.

## Proofs

TLAPS proves, for every value of the constants that satisfies the named
assumptions:

| module | assumptions | safety that is proved, beside `TypeOK` |
|---|---|---|
| `MutexServer_proofs` | `PositiveConstants` | mutual exclusion, `NoByteLost`, `BlocksWhole`, `NoUseAfterFree`, that no write is ever turned away, which the code relies on by ignoring the result; each step is a step of `MessageLog` or changes nothing of its log (`ImplementsLogSteps`) |
| `CondVar_proofs` | `CondVarConstants` | `ReadsWholeMessage`, `NoMissedSignal`, `NoUseAfterDestroy` |
| `RingAdd_proofs` | `RingSize` | `AddsUp`, `PrintsAllOrNothing` |
| `PipePrograms_proofs` | `PipeSizes`, `ProgramSizes` | `Delivered`, `KilledOnlyAsOrphan` |
| `ThreadPrograms_proofs` | `InputBound` | `OutputInOrder`, `HeapSafe` |
| `Signals_proofs` | `SignalBounds` | `CountsDelivered`, `AsOftenAsSent` |
| `SocketReaders_proofs` | `ReaderBounds`; `FdBounds`, `PipeSizes` | `ReadsAll`; of `FdPrograms` `Plumbing`, `Output`, and `LauncherCounts`, the safety part of `Counts` |
| `Clients_proofs` | `ClientBounds`; `ExporterBounds` | `RepliesMatch`; of `Exporter` `Saved` |

The assumptions say that sizes and bounds are natural numbers, positive where the
code needs one, in `PipePrograms` that a message fits `PIPE_BUF` and a block does
not, and in `FdPrograms` that a process may have three descriptors, the standard ones.
Each argument is one inductive invariant, `IInv`, `FdInv` or `ExporterInv`, which holds
initially and is kept by every action; a module has one lemma for an action that takes
more than a few lines.

*MutexServer.* `BlocksWhole` is not inductive: that the next byte continues its
block depends on how long the buffer is. `LenInv` therefore says what `len` is:
`MsgLen` times the number of finished messages, plus the bytes of the message
being written. `Finished`, the set of pairs of a thread and the number of one of
its finished messages, makes that number a cardinality: an unlock adds one
element, and since `Finished` is a proper subset of the pairs until the end
(`FinishedBound`), there is always room for the byte (`RoomForByte`). From `len`
follow the position within the block, and hence `BlockInv`. `Owner` ties each
thread's counters to its label and to the mutex; `MainInv` ties `main`'s loops to
the threads' labels and gives `NoUseAfterFree`. For the refinement, `MessagesCounted`
says that the log has as many entries of a thread as the thread has finished, one
more between the last byte and the unlock. A step then changes nothing that the log
is made of, stores a byte or counts one; only counting a message's last byte makes
the log longer, by one entry of its author, who has not appended `Tries` of them.

*CondVar.* `MutexInv` says who holds the mutex from the labels. `FlagInv` says that
the flag is up only by accident or after the loop, when all is written, and that a
sleeping reader with the flag up has a writer at its signal. The reader cannot
fall asleep later: it tests and waits under the mutex.

*RingAdd.* `AddsUp` needs that what a thread has loaded is still in the ring when it
stores (`Owner`), which the mutex gives. The remainders of the code are first
shown to be the neighbours in the ring (`Neighbours`), including k = 1 and 2, where
neighbours coincide. That no register exceeds 300, in `TypeOK`, follows from `AddsUp`.

*PipePrograms.* The contents of the pipe are in order from the last byte read to the
last one written (`OrderInv`): each byte of a child continues the one of the same child
before it (`Chain`), whatever the other child wrote between them. What is needed
of `Chain` and `Last` is how they behave when a portion is appended behind or taken
away in front, which is two lemmas about sequences. `WholeMessage` follows because
nobody has the write end once the parent has seen the end of the file (`Ends`), and the child
that has closed it has written all (`Progress`). SIGPIPE needs a pipe without a reader, and
`Stages` says at which labels of the parent that can be. `unclosed-reader.c`'s child never
closes its end itself, so its parent never sees the end of the file, and is done with
reading only when `counter` is 0 (`Progress`).

*ThreadPrograms.* In `simple-create-join.c` the threads that have printed are the last
ones, and one prints after the next is done (`ChainOut`), so that the length of the
output says who is next. In `set-stack-size.c` the heap is determined by the
labels: what is allocated is `thread_info`, and the results of the workers that are
done and whose turn in `main` has not come (`ResultHeap`).

*Signals.* A handler's signal is blocked while it runs, and the mask to which it
returns blocks the ones of the handlers below it: so the handlers on the stack are
of different signals (`Nested`), nothing changes the counter between the load and
the store of `counter++`, and `CountsDelivered` follows. In `rt-signals.c` the child
blocks everything but while it waits (`Child`), so one handler runs at a time, and
the child ends by that of SIGINT only. What the parent sent is either handled or
waiting (`Kept`), and of the signals that wait SIGUSR1 has a lesser number than
SIGRTMIN.

*SocketReaders.* `ReadsAll` needs that no event is left about a stream whose end has
been counted (`CountInv`), which is so where `close` takes the stream out of the epoll
set, for everything but shared descriptors. Each end is then counted once, and
`files_left` is the cardinality of the streams that are not done. What was written is
what was read and what can be read (`Data`), and nothing can be read of a stream at
its end (`Descriptors`). A server that has closed has written its answer or was ended
before (`Servers`), and `read-slow.c` has tried the streams before `idx` and touched no
other (`SlowInv`).

*Clients.* The k-th request is the k-th number, or the last one (`Requests`). As long
as whole numbers come, a TCP client has taken as many parts as it has printed
(`Stream`). Without a copy there is at most one datagram in the network, and it is of
the request that the UDP client waits for (`Datagrams`).

*Exporter.* A file holds the last accepted solution of a problem that the script has
come to, in the folder of its name and with the suffix of its language; a file is cut
off only if it is the one at hand and writing it was the exception (`FilesHold`).
The problems before the one where it is are done with: the file of each holds its
solution, or that of a later problem of the same name (`PastSaved`). What is downloaded
is the last accepted solution of the problem at hand (`Position`); that a finite set of
solutions has a last one is `LatestIsLast`, by `HasMin` of its upper bounds.

*FdPrograms.* `Course` says where a process is: what it has still to call is the rest of
its program, or it has failed and is about to exit with 1, or it runs another program.
`In(p, lo, hi)`, that p has made from lo to hi of its calls, then says at which calls a
fact holds, and each program has an invariant made of such facts: what a file holds
between two writes (`DupInv`, `Dup2FileInv`), what stdout is when the buffer is written
(`Dup2StdoutInv`), what `open` gave (`ChangeInv`). For `pipe-launch.c` there are three.
`ParentLaunch` and `ChildLaunch` follow the two ends of the pipe through `dup2` and
`close`, whether `open` and `pipe` gave 0 or not, and make `Plumbing`; `BothLaunch` says
that once the parent has seen the end of the file nobody can write and the pipe is
empty, which is why the count is complete. The three invariants about stdout (`LinesInv`
for the programs that fork, `FlushInv`, `ExecInv`) say where a line is: after its
`printf` in exactly one of the file and the two buffers, before it in none. A `fork`
with a line in the buffer would break this; `ForkingLines` shows that the buffer is
empty when the programs that promise single lines fork, and `FlushInv` counts the two
copies where it is not.

The invariants were checked by TLC before they were proved. Some definitions of the
model were restated to be proved about: `Open`, `Dup` and `MakePipe` of `FdPrograms` ask
for the free descriptor that they need before they choose it, and `Copies` counts the
places of a text without a bound on them; and `InOrder` of `PipePrograms` finds the byte
before by its position (`LastRead`) and not by filtering the sequence. The library's
induction theorems cannot be used here, and the lemmas that need a first or last element
take it from the well-founded order of the natural numbers (`HasMin`, `HasMax`).

## What is only model-checked

- Liveness: `Termination`, `Finishes`, `NoOrphanWriter`, `Counts`, `GoesOn`, `Ends`, and the
  part of `ImplementsLog` that is fairness. Liveness under fairness is out of the
  prover's reach.

Every invariant that a passing run checks is proved. Of `Counts` the safety part,
`LauncherCounts`, is proved, and of the refinement that every step of `MutexServer` is a
step of `MessageLog` or a stutter.

## What is not modelled

- In the modelled programs: `malloc` and `calloc` failing; `pthread_create` failing
  where the code ignores it (`mutex-example.c:80`, `cond-var-example.c:86-87`), a
  case in which the code joins an uninitialised thread; `pthread_join` failing,
  which needs an invalid thread; the `%s` that prints a buffer without a
  terminating zero (`mutex-example.c:39`); rounding of doubles; what is printed,
  except the lines of `threads-mutex.c`, `simple-create-join.c` and the joined
  results of `set-stack-size.c`; the command line and the attributes of the latter. Memory is sequentially consistent, which
  is what the mutexes guarantee for data accessed under them.
- In `FdPrograms`: writes that fail although the file is open; stdin's own buffer;
  what python does but print. In `Signals`: real-time signals other than SIGRTMIN,
  stop signals. In `SocketReaders` and `Clients`: failing `calloc` and
  `epoll_create1`; more than 10000 events; a second client of a sleepy server. In
  `Exporter`: the format of the pages, and files left over from an earlier run.
- `10-files`, `11-files-2`, `12-paging-mmap`: single processes that copy, filter or print
  files in a few calls, pure I/O. The tail that `pipe-concurrent.c` prints after a short
  read is listed as a hazard without a property.
- `11-0.c` and `fork-bomb.c` fork until the system refuses: only its limits decide.
  `12-0.c` and `interruptible-sleep.c` keep no state.
- `03-binary-representation`: pure functions of two integers, and an experiment with
  a compiler's treatment of overflow.
- What the inventory leaves out.

## How to run

    tlc -config MutexServer.cfg MutexServer
    tlc -config CondVar.cfg CondVar
    tlc -config CondVarUninitialised.cfg CondVar      (finds the violation)
    tlc -config RingAdd.cfg RingAdd
    tlc -config PipePrograms.cfg PipePrograms
    tlc -config ThreadPrograms.cfg ThreadPrograms
    tlc -config FdPrograms.cfg FdPrograms
    tlc -config Signals.cfg Signals
    tlc -config SocketReaders.cfg SocketReaders
    tlc -config Clients.cfg Clients
    tlc -config Exporter.cfg Exporter
    tlc -config ExporterProblemId.cfg Exporter        (finds the violation)
    tlapm MutexServer_proofs.tla
    tlapm CondVar_proofs.tla
    tlapm RingAdd_proofs.tla
    tlapm PipePrograms_proofs.tla
    tlapm ThreadPrograms_proofs.tla
    tlapm Signals_proofs.tla
    tlapm SocketReaders_proofs.tla
    tlapm Clients_proofs.tla
