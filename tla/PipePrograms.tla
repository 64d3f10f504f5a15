---------------------------- MODULE PipePrograms ----------------------------
(***************************************************************************)
(* The programs of 14-dup-pipe/pipe and fifo: a parent makes a pipe, forks *)
(* one or two children that write to it, and reads from it.  They share    *)
(* their skeleton and differ in who writes how much and in how long the    *)
(* parent reads; `prog' says which of them runs:                           *)
(*   "simple"      pipe-simple.c, pipe-simple-alternative.c and            *)
(*                 unclosed-writer.c: one message, read until EOF          *)
(*   "reader"      unclosed-reader.c: bytes for ever, five are read        *)
(*   "overflow"    pipe-buffer-overflow.c: messages for ever, none is read *)
(*   "concurrent"  pipe-concurrent.c: two children write long messages for *)
(*                 ever, and the parent reads them                         *)
(*   "fifo"        fifo-reader.c, as "parent", and fifo-writer.c, as       *)
(*                 "child1", which find each other by open()               *)
(* A byte is the child that wrote it and its position in the message.      *)
(***************************************************************************)
EXTENDS Pipe, FiniteSets

CONSTANTS Short,      \* strlen(mymessage): 12 in the code, at most PIPE_BUF
          Long,       \* BUF_SIZE: 8192 in the code, more than PIPE_BUF
          Limit       \* how many bytes unclosed-reader.c reads: 5, and how many
                      \* messages fifo-writer.c writes: 10

ASSUME ProgramSizes ==
    /\ Short \in Nat \ {0} /\ Long \in Nat /\ Limit \in Nat \ {0}
    /\ Short <= PipeBuf /\ PipeBuf < Long

Programs == {"simple", "reader", "overflow", "concurrent", "fifo"}
Children == {"child1", "child2"}
Processes == Children \cup {"parent"}

VARIABLES prog,      \* which program runs
          pipe,      \* the pipe
          pc,        \* where each process is
          exit,      \* how it ended: its exit code, or a signal
          sent, got, \* the position in its message of the last byte that a child
                     \* has written and of the last one the parent read from it
          counter    \* unclosed-reader.c's counter, and fifo-writer.c's

vars == <<prog, pipe, pc, exit, sent, got, counter>>

MessageLength == IF prog = "concurrent" THEN Long ELSE Short

TypeOK ==
    /\ prog \in Programs
    /\ pipe.buf \in Seq(Children \X (1 .. MessageLength)) /\ Len(pipe.buf) <= Capacity
    /\ pipe.readers \subseteq Processes /\ pipe.writers \subseteq Processes
    /\ pc.parent \in {"pipe", "fork1", "fork2", "closeWrite", "read", "spin",
                         "closeRead", "wait", "exited", "open", "opening"}
    /\ \A c \in Children :
          pc[c] \in {"unborn", "closeRead", "write", "closeWrite", "exited", "reaped",
                     "mkfifo", "open", "opening", "enter"}
    /\ exit \in [Processes -> {"none", "0", "1", "SIGPIPE", "SIGINT"}]
    /\ sent \in [Children -> 0 .. MessageLength]
    /\ got \in [Children -> 0 .. MessageLength]
    /\ counter \in 0 .. Limit

Init ==
    /\ prog \in Programs
    /\ pipe = [buf |-> << >>, readers |-> {}, writers |-> {}]
    /\ pc = [p \in Processes |->
                 IF prog = "fifo" /\ p # "child2" THEN IF p = "parent" THEN "open" ELSE "mkfifo"
                 ELSE IF p = "parent" THEN "pipe" ELSE "unborn"]
    /\ exit = [p \in Processes |-> "none"]
    /\ sent = [c \in Children |-> 0] /\ got = [c \in Children |-> 0]
    /\ counter = Limit

Goto(p, label) == pc' = [pc EXCEPT ![p] = label]

\* The end of a process, by exit, by return from main or by a signal.
Exit(p, code) ==
    /\ exit' = [exit EXCEPT ![p] = code]
    /\ pipe' = CloseBoth(pipe, p)
    /\ Goto(p, "exited")
    /\ UNCHANGED <<prog, sent, got, counter>>

-----------------------------------------------------------------------------
(* How fifo-reader.c and fifo-writer.c begin. *)

\* The fifo is made, or exists.
MkFifo ==
    /\ pc.child1 = "mkfifo"
    /\ Goto("child1", "open")
    /\ UNCHANGED <<prog, pipe, exit, sent, got, counter>>

\* open() waits until the other one has called it too.
OpenFifo(p, q) ==
    /\ prog = "fifo" /\ pc[p] = "open"
    /\ pipe' = [pipe EXCEPT !.readers = @ \cup ({p} \cap {"parent"}),
                           !.writers = @ \cup ({p} \cap {"child1"})]
    /\ IF pc[q] = "opening" THEN pc' = [pc EXCEPT !.parent = "read", !.child1 = "enter"]
                            ELSE Goto(p, "opening")
    /\ UNCHANGED <<prog, exit, sent, got, counter>>

\* mkfifo() or open() fails.
OpenFails(p) == pc[p] \in {"mkfifo", "open"} /\ Exit(p, "1")

\* The writer waits for the user to press enter.
PressEnter ==
    /\ pc.child1 = "enter"
    /\ Goto("child1", "write")
    /\ UNCHANGED <<prog, pipe, exit, sent, got, counter>>

\* Only the user ends the reader.
Interrupt == prog = "fifo" /\ pc.parent # "exited" /\ Exit("parent", "SIGINT")

-----------------------------------------------------------------------------
(* A child *)

\* close(pipefd[READ]).  (Mutation: the child keeps its copy of the read end.)
KeepsRead(c) == pipe
ClosesRead(c) == CloseRead(pipe, c)

ChildCloseRead(c) ==
    /\ pc[c] = "closeRead"
    /\ pipe' = ClosesRead(c)
    /\ Goto(c, "write")
    /\ UNCHANGED <<prog, exit, sent, got, counter>>

\* The length of one write().  (Mutation: the message without its last byte.)
OneByteShort == IF prog = "reader" THEN 1 ELSE MessageLength - 1
WriteLength == IF prog = "reader" THEN 1 ELSE MessageLength

\* Where the child is in its message, and how much of the current write() is left:
\* a long one goes on where its last portion stopped.  (Mutation: i is not reset.)
NotReset(c) == sent[c]
Sent(c) == IF sent[c] = MessageLength THEN 0 ELSE sent[c]
Left(c) == IF WriteLength > PipeBuf THEN WriteLength - Sent(c) ELSE WriteLength

\* The next k bytes.  (Mutation: mymessage instead of mymessage + i.)
FromTheStart(c, k) == [j \in 1 .. k |-> <<c, j>>]
NextBytes(c, k) == [j \in 1 .. k |-> <<c, Sent(c) + j>>]

\* fifo-writer.c counts its messages.
OneWritten == IF prog = "fifo" THEN counter - 1 ELSE counter

\* One message is enough for pipe-simple.c and a number of them for fifo-writer.c; the
\* other children write for ever (unclosed-reader.c:44).
LastWritten == prog = "simple" \/ (prog = "fifo" /\ counter' = 0)

Write(c) ==
    /\ pc[c] = "write" /\ ~IsBroken(pipe)
    /\ \E k \in Portions(pipe, WriteLength, Left(c)) :
          /\ pipe' = Appended(pipe, NextBytes(c, k))
          /\ sent' = [sent EXCEPT ![c] = Sent(c) + k]
    /\ counter' = OneWritten
    /\ Goto(c, IF LastWritten THEN "closeWrite" ELSE "write")
    /\ UNCHANGED <<prog, exit, got>>

\* SIGPIPE kills, but unclosed-reader.c has a handler that calls exit(1).
WriteBroken(c) ==
    /\ pc[c] = "write" /\ IsBroken(pipe)
    /\ Exit(c, IF prog = "reader" THEN "1" ELSE "SIGPIPE")

\* close(pipefd[WRITE]); return 0
ChildReturn(c) == pc[c] = "closeWrite" /\ Exit(c, "0")

Child(c) ==
    \/ ChildCloseRead(c) \/ Write(c) \/ WriteBroken(c) \/ ChildReturn(c)
    \/ c = "child1" /\ (MkFifo \/ OpenFifo(c, "parent") \/ OpenFails(c) \/ PressEnter)

-----------------------------------------------------------------------------
(* The parent *)

\* pipe() and fork() can fail, and then main returns 1, whoever it has forked.
Fail == pc.parent \in {"pipe", "fork1", "fork2"} /\ Exit("parent", "1")

MakePipe ==
    /\ pc.parent = "pipe"
    /\ pipe' = NewPipe("parent")
    /\ Goto("parent", "fork1")
    /\ UNCHANGED <<prog, exit, sent, got, counter>>

Fork(c, from, to) ==
    /\ pc.parent = from
    /\ pipe' = Forked(pipe, "parent", c)
    /\ pc' = [pc EXCEPT !.parent = to, ![c] = "closeRead"]
    /\ UNCHANGED <<prog, exit, sent, got, counter>>

ForkFirst == Fork("child1", "fork1", IF prog = "concurrent" THEN "fork2" ELSE "closeWrite")
ForkSecond == Fork("child2", "fork2", "closeWrite")

\* close(pipefd[WRITE]).  (Mutations: it is left open, as the TODO of
\* unclosed-writer.c:39 suggests to try; the other end is closed.)
KeepsWrite == pipe
ClosesOtherEnd == CloseRead(pipe, "parent")
ClosesWrite == CloseWrite(pipe, "parent")

ParentCloseWrite ==
    /\ pc.parent = "closeWrite"
    /\ pipe' = ClosesWrite
    /\ Goto("parent", IF prog = "overflow" THEN "spin" ELSE "read")
    /\ UNCHANGED <<prog, exit, sent, got, counter>>

\* while (1) sched_yield();
Spin == pc.parent = "spin" /\ UNCHANGED vars

\* fifo-reader.c ignores that read() is 0, and prints the last byte once more.
RepeatLast == prog = "fifo" /\ pc.parent = "read" /\ IsEOF(pipe) /\ UNCHANGED vars

ReadLength == IF prog = "concurrent" THEN Long ELSE 1

\* The last byte of child c among those read, if there is one.
LastRead(bytes, c) ==
    LET mine == {j \in DOMAIN bytes : bytes[j][1] = c}
    IN  IF mine = {} THEN got[c]
        ELSE bytes[CHOOSE j \in mine : \A k \in mine : k <= j][2]

\* Only unclosed-reader.c counts.  (Mutation: it never stops.)
NeverEnough == counter
OneRead == IF prog = "reader" THEN counter - 1 ELSE counter

Read ==
    /\ pc.parent = "read" /\ Readable(pipe)
    /\ got' = [c \in Children |-> LastRead(Portion(pipe, ReadLength), c)]
    /\ pipe' = Drained(pipe, ReadLength)
    /\ counter' = OneRead
    /\ Goto("parent", IF prog = "reader" /\ counter' = 0 THEN "closeRead" ELSE "read")
    /\ UNCHANGED <<prog, exit, sent>>

ReadEOF ==
    /\ pc.parent = "read" /\ IsEOF(pipe) /\ prog # "fifo"
    /\ Goto("parent", "closeRead")
    /\ UNCHANGED <<prog, pipe, exit, sent, got, counter>>

ParentCloseRead ==
    /\ pc.parent = "closeRead"
    /\ pipe' = CloseRead(pipe, "parent")
    /\ Goto("parent", "wait")
    /\ UNCHANGED <<prog, exit, sent, got, counter>>

\* wait(NULL) reaps a child that has ended; then main returns 0.
Wait ==
    /\ pc.parent = "wait"
    /\ \E c \in Children :
          /\ pc[c] = "exited"
          /\ pc' = [pc EXCEPT !.parent = "exited", ![c] = "reaped"]
    /\ exit' = [exit EXCEPT !.parent = "0"]
    /\ pipe' = CloseBoth(pipe, "parent")
    /\ UNCHANGED <<prog, sent, got, counter>>

Parent ==
    \/ Fail \/ MakePipe \/ ForkFirst \/ ForkSecond \/ ParentCloseWrite \/ Spin
    \/ Read \/ ReadEOF \/ RepeatLast \/ ParentCloseRead \/ Wait
    \/ OpenFifo("parent", "child1") \/ OpenFails("parent")

Ended(p) == pc[p] \in {"unborn", "exited", "reaped"}
\* Everybody has ended, but one of the fifo's programs may wait for the other in open().
Terminated ==
    /\ \A p \in Processes : Ended(p) \/ pc[p] = "opening"
    /\ UNCHANGED vars

Next == Parent \/ (\E c \in Children : Child(c)) \/ Interrupt \/ Terminated

\* A process that can go on is scheduled at some time, and enter is pressed.
Spec == Init /\ [][Next]_vars /\ WF_vars(Parent) /\ \A c \in Children : WF_vars(Child(c))

-----------------------------------------------------------------------------
(* What the programs promise. *)

\* What is in the pipe is, for each child, what follows the last byte the parent
\* read from it up to the last one it wrote: nothing is lost, repeated or
\* reordered, however the writes of two children mix.
Follows(bytes, c, j) ==
    bytes[j][1] = c => bytes[j][2] = (LastRead(SubSeq(bytes, 1, j - 1), c) % MessageLength) + 1

InOrder ==
    \A c \in Children :
       /\ \A j \in DOMAIN pipe.buf : Follows(pipe.buf, c, j)
       /\ LastRead(pipe.buf, c) = sent[c]

\* When pipe-simple.c's parent says that the message was received, it has read
\* all of it: EOF comes neither before the last byte nor before the child writes.
WholeMessage ==
    prog = "simple" /\ pc.parent \in {"closeRead", "wait"} => got.child1 = Short

\* What the parent receives is what was sent, all of it and in order.
Delivered == InOrder /\ WholeMessage

\* SIGPIPE kills nobody whose parent still runs: only a child of
\* pipe-concurrent.c whose parent could not fork the second one (l.62-64), and
\* fifo-writer.c when somebody has ended the reader.  unclosed-reader.c's child meets
\* it once its parent has read enough and closed its end, and ends in no other way
\* (l.12-15): what comes after its loop "is never going to be called" (l.52).
KilledOnlyAsOrphan ==
    \A c \in Children :
       /\ exit[c] = "SIGPIPE" => \/ prog = "concurrent" /\ exit.parent = "1"
                                 \/ prog = "fifo" /\ exit.parent = "SIGINT"
       /\ prog = "reader" /\ Ended(c) /\ pc[c] # "unborn" =>
             exit[c] = "1" /\ counter = 0 /\ pc.parent \in {"wait", "exited"}

\* pipe-simple.c and unclosed-reader.c come to their end, with the child reaped: the
\* former's has returned from main, the latter's has met the broken pipe.
\* pipe-buffer-overflow.c's child fills the pipe and then blocks for ever; and if
\* the fifo's programs meet and are not interrupted, the writer ends, and the
\* reader, which has got everything, repeats its last byte for ever.
Finishes ==
    /\ prog \in {"simple", "reader"} =>
          <>(\/ exit.parent = "1"
             \/ /\ exit.parent = "0" /\ pc.child1 = "reaped"
                /\ exit.child1 = IF prog = "simple" THEN "0" ELSE "1")
    /\ prog = "overflow" => <>[](pc.parent = "exited" \/ Room(pipe) < Short)
    /\ prog = "fifo" =>
          <>[]( \/ exit.parent # "none" \/ exit.child1 = "1"
                \/ /\ exit.child1 = "0" /\ got.child1 = Short
                   /\ pc.parent = "read" /\ IsEOF(pipe))

\* No child writes on for ever once its parent reads no more, because it has ended or
\* waits for the child, in whatever program and wherever the parent gave up: the next
\* write tells it (unclosed-reader.c:37-39).  Only a fifo-writer.c that waits for its
\* reader is not told.
NoOrphanWriter ==
    \A c \in Children :
       pc.parent \in {"wait", "exited"} ~> Ended(c) \/ pc[c] = "opening"
=============================================================================
