------------------------------ MODULE FdPrograms ------------------------------
(***************************************************************************)
(* The programs of 13-fork-and-exec and of 14-dup-pipe that juggle         *)
(* descriptors: what a number refers to, and what is still in the buffer   *)
(* of stdout, when a process forks, runs another program or ends.  Each is *)
(* given as the list of its calls, and one action says what a call does to *)
(* descriptors, files and buffers.  `program' says which of them runs,     *)
(* `std' which of the descriptors 0, 1 and 2 it starts with and `tty'      *)
(* whether its stdout is a terminal.  Writing to an open file succeeds.    *)
(***************************************************************************)
EXTENDS Pipe, FiniteSets

CONSTANTS MaxFd,      \* the greatest descriptor a process may have
          MaxBytes,   \* bound: how much the command of pipe-launch.c writes
          BufSize     \* BUF_SIZE: how much it reads at once

ASSUME FdBounds == MaxFd \in Nat \ {0, 1} /\ MaxBytes \in Nat /\ BufSize \in Nat \ {0}

Processes == {"parent", "child"}
Std == 0 .. 2
NoFd == MaxFd + 1    \* what a variable holds that was assigned no descriptor
Names == {"STDIN", "STDOUT", "in", "fd", "fd1", "fd2", "newfd", "READ", "WRITE"}

\* What a descriptor can refer to.  No program opens a file twice, so that a file
\* stands for its open file description, too.
Files == {"stdout", "hello", "hello1", "hello2", "new_stdout"}
Descriptions == Files \cup {"stdin", "stderr", "input", "pipeR", "pipeW"}
OldContents == {<< >>, <<"old", "old", "old">>}

-----------------------------------------------------------------------------
(* The programs: the calls of main, and of the child that it forks. *)

DupC == << <<"open", "fd", "hello">>, <<"dup", "newfd", "fd">>, <<"write", "fd", "123">>,
           <<"write", "newfd", "345">>, <<"close", "fd">>, <<"close", "newfd">> >>

Dup2File ==
    << <<"open", "fd1", "hello1">>, <<"open", "fd2", "hello2">>, <<"write", "fd2", "hello">>,
       <<"dup2", "newfd", "fd1", "fd2">>, <<"write", "fd1", "123">>,
       <<"write", "newfd", "567">>, <<"close", "fd1">>, <<"close", "newfd">> >>

\* (Mutation: the arguments of dup2 in the other order.)
SwappedDup2 == << <<"open", "fd", "hello1">>, <<"dup2", "newfd", "STDOUT", "fd">>,
                  <<"printf", "hello_world">>, <<"close", "fd">> >>
Dup2Stdout == << <<"open", "fd", "hello1">>, <<"dup2", "newfd", "fd", "STDOUT">>,
                 <<"printf", "hello_world">>, <<"close", "fd">> >>

\* (Mutation: the parent keeps its write end of the pipe.)
WriteEndKept ==
    << <<"open", "in", "input">>, <<"dup2", "newfd", "in", "STDIN">>, <<"close", "in">>,
       <<"pipe">>, <<"fork">>, <<"count", "READ">>, <<"wait">>,
       <<"close", "READ">>, <<"printf", "total_count">> >>
PipeLaunch ==
    << <<"open", "in", "input">>, <<"dup2", "newfd", "in", "STDIN">>, <<"close", "in">>,
       <<"pipe">>, <<"fork">>, <<"close", "WRITE">>, <<"count", "READ">>, <<"wait">>,
       <<"close", "READ">>, <<"printf", "total_count">> >>
\* (Mutation: the child does not close the original of the duplicate.)
OriginalKept ==
    << <<"close", "READ">>, <<"dup2", "newfd", "WRITE", "STDOUT">>,
       <<"exec", "cmd">>, <<"exit", "1">> >>
PipeLaunchChild ==
    << <<"close", "READ">>, <<"dup2", "newfd", "WRITE", "STDOUT">>, <<"close", "WRITE">>,
       <<"exec", "cmd">>, <<"exit", "1">> >>

ExecChangeFd == << <<"printf", "before_exec">>, <<"close", "STDOUT">>,
                   <<"open", "fd", "new_stdout">>, <<"printf", "new_stdout_is">>,
                   <<"exec", "python">>, <<"exit", "1">> >>
ExecSimple == << <<"printf", "before_exec">>, <<"exec", "python">>, <<"exit", "1">> >>

Fflush == << <<"puts", "hello_world">>, <<"fork">> >>    \* there is no newline
SimpleFork == << <<"fork">>, <<"printf", "parent_process">>, <<"wait">>,
                 <<"printf", "exit_status">> >>
SimpleForkChild == << <<"printf", "child_process">>, <<"exit", "1">> >>
Zombie == << <<"fork">>, <<"printf", "parent_process">> >>
ZombieChild == << <<"printf", "child_process">>, <<"exit", "0">> >>
OrphanChild == << <<"printf", "child_process">>, <<"printf", "my_parent">> >>

Text == [dup |-> DupC, dup2_file |-> Dup2File, dup2_stdout |-> Dup2Stdout,
         pipe_launch |-> PipeLaunch, exec_change_fd |-> ExecChangeFd,
         exec_simple |-> ExecSimple, fflush |-> Fflush,
         simple_fork |-> SimpleFork, zombie |-> Zombie, orphan |-> Zombie]
ChildText == [pipe_launch |-> PipeLaunchChild, fflush |-> << >>,
              simple_fork |-> SimpleForkChild, zombie |-> ZombieChild, orphan |-> OrphanChild]
Programs == DOMAIN Text

\* What the programs that are run do: the command of pipe-launch.c writes some
\* bytes; python prints its line, unless its input() fails.
Commands(name) ==
    IF name = "cmd" THEN {[i \in 1 .. k |-> <<"write", "STDOUT", "byte">>] : k \in 0 .. MaxBytes}
                    ELSE {<< >>, << <<"printf", "hello">> >>}

VARIABLES program, std, tty,
          todo,      \* the calls each process has still to make
          status,    \* "unborn", "running", "command" when it runs another program, or
                     \* its exit status; "reaped" when the parent has waited for it
          fds,       \* the descriptor tables
          var,       \* the variables that hold descriptors
          stdio,     \* what is in the buffer of stdout
          mode,      \* how it is used: "line" by line or only when "full"
          content,   \* what the files hold
          offset,    \* where the next write to a file goes
          pipeBuf,   \* what is in the pipe
          sent, total    \* how many bytes went into the pipe, and pipe-launch.c's count

fdVars == <<program, std, tty, todo, status, fds, var, stdio, mode, content, offset,
          pipeBuf, sent, total>>
constants == <<program, std, tty>>
counters == <<pipeBuf, sent, total>>
files == <<content, offset>>
buffers == <<stdio, mode>>

Ended(p) == status[p] \notin {"running", "command"}

FdTypeOK ==
    /\ program \in Programs /\ std \subseteq Std /\ tty \in BOOLEAN
    /\ status \in [Processes -> {"unborn", "running", "command", "0", "1", "reaped"}]
    /\ fds \in [Processes -> [0 .. MaxFd -> Descriptions \cup {"closed"}]]
    /\ var \in [Processes -> [Names -> 0 .. NoFd]]
    /\ \A p \in Processes : Ended(p) => todo[p] = << >> /\ \A n \in 0 .. MaxFd : fds[p][n] = "closed"
    /\ \A f \in Files : offset[f] \in 0 .. Len(content[f])
    /\ Len(pipeBuf) <= Capacity /\ sent \in 0 .. MaxBytes /\ total = sent - Len(pipeBuf)

FdInit ==
    /\ program \in Programs /\ std \in SUBSET Std
    /\ tty \in IF 1 \in std THEN BOOLEAN ELSE {FALSE}
    /\ todo = [p \in Processes |-> IF p = "parent" THEN Text[program] ELSE << >>]
    /\ status = [p \in Processes |-> IF p = "parent" THEN "running" ELSE "unborn"]
    /\ fds = [p \in Processes |-> [n \in 0 .. MaxFd |->
                 IF p = "child" \/ n \notin std THEN "closed"
                 ELSE CASE n = 0 -> "stdin" [] n = 1 -> "stdout" [] n = 2 -> "stderr"]]
    /\ var = [p \in Processes |-> [v \in Names |->
                 CASE v = "STDIN" -> 0 [] v = "STDOUT" -> 1 [] OTHER -> NoFd]]
    /\ stdio = [p \in Processes |-> << >>] /\ mode = [p \in Processes |-> "new"]
    /\ \E old \in OldContents :
          content = [f \in Files |-> IF f \in {"hello", "hello1", "hello2"} THEN old ELSE << >>]
    /\ offset = [f \in Files |-> 0]
    /\ pipeBuf = << >> /\ sent = 0 /\ total = 0

-----------------------------------------------------------------------------
(* The calls.  A call's arguments follow its name. *)

Calls(p, call) == ~Ended(p) /\ todo[p] # << >> /\ todo[p][1][1] = call
Arg(p, i) == todo[p][1][i + 1]
Fd(p, i) == var[p][Arg(p, i)]
Refers(p, n) == IF n \in 0 .. MaxFd THEN fds[p][n] ELSE "closed"
Returns(p) == todo' = [todo EXCEPT ![p] = Tail(@)]

\* A new descriptor is the lowest free one, if there is one.
Free(p) == {n \in 0 .. MaxFd : fds[p][n] = "closed"}
Lowest(free) == CHOOSE n \in free : \A m \in free : n <= m

\* Descriptor n refers to d from now on, and the variable of the call holds it.
Assign(p, n, d) ==
    /\ fds' = [fds EXCEPT ![p][n] = d]
    /\ var' = [var EXCEPT ![p][Arg(p, 1)] = n]
    /\ Returns(p)
    /\ UNCHANGED <<constants, status, buffers, files, counters>>

Open(p) == Calls(p, "open") /\ Free(p) # {} /\ Assign(p, Lowest(Free(p)), Arg(p, 2))
Dup(p) == Calls(p, "dup") /\ Free(p) # {} /\ Assign(p, Lowest(Free(p)), Refers(p, Fd(p, 2)))
Dup2(p) == Calls(p, "dup2") /\ Assign(p, Fd(p, 3), Refers(p, Fd(p, 2)))

Close(p) ==
    /\ Calls(p, "close")
    /\ fds' = [fds EXCEPT ![p] = [n \in 0 .. MaxFd |-> IF n = Fd(p, 1) THEN "closed" ELSE @[n]]]
    /\ Returns(p)
    /\ UNCHANGED <<constants, status, var, buffers, files, counters>>

MakePipe(p) ==
    /\ Calls(p, "pipe")
    /\ \E r \in Free(p), w \in Free(p) :
          /\ r # w /\ r = Lowest(Free(p)) /\ w = Lowest(Free(p) \ {r})
          /\ fds' = [fds EXCEPT ![p][r] = "pipeR", ![p][w] = "pipeW"]
          /\ var' = [var EXCEPT ![p].READ = r, ![p].WRITE = w]
    /\ Returns(p)
    /\ UNCHANGED <<constants, status, buffers, files, counters>>

\* Texts are written where a description stands; elsewhere than to a file, or to
\* a closed descriptor, they are lost.
Store(d, texts) ==
    IF d \in Files
    THEN /\ content' = [content EXCEPT ![d] = SubSeq(@, 1, offset[d]) \o texts \o
                                         SubSeq(@, offset[d] + Len(texts) + 1, Len(@))]
         /\ offset' = [offset EXCEPT ![d] = @ + Len(texts)]
    ELSE UNCHANGED files

Write(p) ==
    /\ Calls(p, "write") /\ Refers(p, Fd(p, 1)) # "pipeW"
    /\ Store(Refers(p, Fd(p, 1)), <<Arg(p, 2)>>)
    /\ Returns(p)
    /\ UNCHANGED <<constants, status, fds, var, buffers, counters>>

\* The first text finds out whether stdout is a terminal; only then a line is not
\* kept in the buffer.
ModeOf(p) ==
    IF mode[p] # "new" THEN mode[p]
    ELSE IF tty /\ Refers(p, 1) = "stdout" THEN "line" ELSE "full"

Printf(p) ==
    /\ Calls(p, "printf") \/ Calls(p, "puts")
    /\ mode' = [mode EXCEPT ![p] = ModeOf(p)]
    /\ IF ModeOf(p) = "line" /\ Calls(p, "printf")
         THEN Store(Refers(p, 1), <<Arg(p, 1)>>) /\ UNCHANGED stdio
         ELSE stdio' = [stdio EXCEPT ![p] = Append(@, Arg(p, 1))] /\ UNCHANGED files
    /\ Returns(p)
    /\ UNCHANGED <<constants, status, fds, var, counters>>

\* The child has copies of the descriptors, of the variables and of the buffer.
\* (Mutation: its buffer is empty.)
EmptyBuffer == << >>
CopiedBuffer == stdio.parent

Fork(p) ==
    /\ Calls(p, "fork")
    /\ status' = [status EXCEPT !.child = "running"]
    /\ todo' = [todo EXCEPT ![p] = Tail(@), !.child = ChildText[program]]
    /\ fds' = [fds EXCEPT !.child = fds.parent]
    /\ var' = [var EXCEPT !.child = var.parent]
    /\ stdio' = [stdio EXCEPT !.child = CopiedBuffer]
    /\ mode' = [mode EXCEPT !.child = mode.parent]
    /\ UNCHANGED <<constants, files, counters>>

\* The descriptors stay, the buffer is gone.
Exec(p) ==
    /\ Calls(p, "exec")
    /\ \E text \in Commands(Arg(p, 1)) : todo' = [todo EXCEPT ![p] = text]
    /\ status' = [status EXCEPT ![p] = "command"]
    /\ stdio' = [stdio EXCEPT ![p] = << >>]
    /\ mode' = [mode EXCEPT ![p] = "new"]
    /\ UNCHANGED <<constants, fds, var, files, counters>>

\* A call that fails ends the program with 1; but exec-change-fd.c and fflush.c do not
\* look at what open() and fork() return.
Fails(p) ==
    /\ \E call \in {"open", "dup", "dup2", "pipe", "fork", "exec"} : Calls(p, call)
    /\ todo' = [todo EXCEPT ![p] = IF program \in {"exec_change_fd", "fflush"} THEN Tail(@)
                                   ELSE << <<"exit", "1">> >>]
    /\ UNCHANGED <<constants, status, fds, var, buffers, files, counters>>

\* The end, by exit() or by return from main, writes what is in the buffer.
Exit(p) ==
    /\ \/ ~Ended(p) /\ todo[p] = << >>
       \/ Calls(p, "exit")
    /\ status' = [status EXCEPT ![p] = IF todo[p] = << >> THEN "0" ELSE Arg(p, 1)]
    /\ Store(Refers(p, 1), stdio[p])
    /\ todo' = [todo EXCEPT ![p] = << >>]
    /\ stdio' = [stdio EXCEPT ![p] = << >>]
    /\ fds' = [fds EXCEPT ![p] = [n \in 0 .. MaxFd |-> "closed"]]
    /\ UNCHANGED <<constants, mode, var, counters>>

\* wait(), waitpid(): the child has ended.
Wait(p) ==
    /\ Calls(p, "wait") /\ Ended("child")
    /\ status' = [status EXCEPT !.child = "reaped"]
    /\ Returns(p)
    /\ UNCHANGED <<constants, fds, var, buffers, files, counters>>

-----------------------------------------------------------------------------
(* The pipe of pipe-launch.c: its command writes, its parent counts. *)

Holders(d) == {p \in Processes : \E n \in 0 .. MaxFd : fds[p][n] = d}
ThePipe == [buf |-> pipeBuf, readers |-> Holders("pipeR"), writers |-> Holders("pipeW")]

WritePipe(p) ==
    /\ Calls(p, "write") /\ Refers(p, Fd(p, 1)) = "pipeW"
    /\ Portions(ThePipe, 1, 1) # {}
    /\ pipeBuf' = Append(pipeBuf, Arg(p, 2))
    /\ sent' = sent + 1
    /\ Returns(p)
    /\ UNCHANGED <<constants, status, fds, var, buffers, files, total>>

\* while ((c = read(...)) > 0) total_count += c.  (Mutation: what was asked for is
\* added.)
AskedFor == BufSize
BytesRead == Len(Portion(ThePipe, BufSize))

Count(p) ==
    /\ Calls(p, "count") /\ Readable(ThePipe)
    /\ pipeBuf' = Drained(ThePipe, BufSize).buf
    /\ total' = total + BytesRead
    /\ UNCHANGED <<constants, todo, status, fds, var, buffers, files, sent>>

CountEOF(p) ==
    /\ Calls(p, "count") /\ IsEOF(ThePipe)
    /\ Returns(p)
    /\ UNCHANGED <<constants, status, fds, var, buffers, files, counters>>

Process(p) ==
    \/ Open(p) \/ Dup(p) \/ Dup2(p) \/ Close(p) \/ MakePipe(p) \/ Write(p) \/ Printf(p)
    \/ Fork(p) \/ Exec(p) \/ Fails(p) \/ Exit(p) \/ Wait(p)
    \/ WritePipe(p) \/ Count(p) \/ CountEOF(p)

Terminated == (\A p \in Processes : Ended(p)) /\ UNCHANGED fdVars

FdNext == (\E p \in Processes : Process(p)) \/ Terminated

\* Each process that can go on goes on.
FdSpec == FdInit /\ [][FdNext]_fdVars /\ \A p \in Processes : WF_fdVars(Process(p))

-----------------------------------------------------------------------------
(* What the programs promise, and what becomes of it when they are started with
   some of the standard descriptors closed. *)

\* What another program finds.  The command of pipe-launch.c (l.27, l.47) has the
\* input as stdin, the pipe as stdout, and no other end of the pipe that would keep
\* it from ending, if 0 was open at the start; without it, 0 is the input's own
\* descriptor, which is closed, or an end of the pipe.  exec-change-fd.c's stdout is
\* the new file or closed (l.9-10) on the same condition.
Plumbing ==
    /\ status.child = "command" /\ 0 \in std =>
          /\ fds.child[0] = "input" /\ fds.child[1] = "pipeW"
          /\ \A n \in 2 .. MaxFd : fds.child[n] \in {"stderr", "closed"}
    /\ program = "exec_change_fd" /\ status.parent = "command" =>
          IF 0 \in std THEN fds.parent[1] \in {"new_stdout", "closed"}
                       ELSE fds.parent[1] = "closed"

\* Both duplicates of a descriptor write on from one another, over what the file held
\* before (dup.c:19-20, dup2-file.c:32-33: it is not truncated).  dup2-stdout.c's text,
\* which is written at the end, is in the file but when open() gave 1 itself, so that
\* l.23 closes it before.
Holds(f, texts) ==
    content[f] \in {texts \o SubSeq(old, Len(texts) + 1, Len(old)) : old \in OldContents}

Written ==
    status.parent = "0" =>
       /\ program = "dup" => Holds("hello", <<"123", "345">>)
       /\ program = "dup2_file" => Holds("hello1", <<"123", "567">>) /\ Holds("hello2", <<"hello">>)
       /\ program = "dup2_stdout" =>
             Holds("hello1", IF std \cap {0, 1} = {0} THEN << >> ELSE <<"hello_world">>)

\* A line comes out once, whoever forks before or after; but fflush.c's, which is in
\* the buffer when fork() copies it, twice (l.6-7); and a line in the buffer that exec()
\* discards, never (exec-simple.c:5-6).
Copies(text) ==
    Cardinality(UNION {{f} \X {i \in DOMAIN content[f] : content[f][i] = text} : f \in Files})

Lines(text) == {text[i][2] : i \in {j \in DOMAIN text : text[j][1] \in {"printf", "puts"}}}

OutOnce ==
    1 \in std /\ (\A p \in Processes : Ended(p)) =>
       /\ program \in {"fflush", "simple_fork", "zombie", "orphan", "pipe_launch"}
             /\ status.parent = "0" =>
             \A line \in Lines(Text[program]) :
                Copies(line) = IF program = "fflush" /\ status.child # "unborn" THEN 2 ELSE 1
       /\ program \in DOMAIN ChildText /\ status.child # "unborn" =>
             \A line \in Lines(ChildText[program]) : Copies(line) = 1
       /\ program \in {"exec_simple", "exec_change_fd"} /\ status.parent = "0" =>
             Copies("before_exec") = IF tty THEN 1 ELSE 0

\* What a program wrote is where it should be, once.
Output == Written /\ OutOnce

\* When pipe-launch.c prints its count (l.69), its command has ended and the count is all
\* that the command wrote.
LauncherCounts ==
    program = "pipe_launch" /\ "total_count" \in {stdio.parent[i] : i \in DOMAIN stdio.parent} =>
        total = sent /\ status.child \in {"0", "1", "reaped"}

\* pipe-launch.c comes to its end, having waited for its command, and prints how much
\* the command wrote.
Counts == (program = "pipe_launch" => <>Ended("parent")) /\ []LauncherCounts
=============================================================================
