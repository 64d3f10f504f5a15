------------------------------- MODULE CondVar -------------------------------
(***************************************************************************)
(* 15-threads/cond-var-example.c: a reader waits on a condition variable   *)
(* until a writer has put a message of msg_len bytes into the server and   *)
(* set `full'.  The wait set of the condition variable, spurious wake-ups  *)
(* and the reacquisition of the mutex are those of pthread_cond_wait().    *)
(*                                                                         *)
(* `full' is a variable of main that is never initialised (l.82), so it    *)
(* starts as whatever byte the stack holds: any value of FlagBytes.        *)
(***************************************************************************)
EXTENDS Naturals

CONSTANTS MsgLen,        \* msg_len, 3 in the code
          FlagBytes,     \* the values an uninitialised uint8_t can have
          MaxSpurious    \* bound: how many wake-ups no signal causes

ASSUME CondVarConstants ==
    MsgLen \in Nat /\ FlagBytes \subseteq 0 .. 255 /\ MaxSpurious \in Nat

Threads == {"reader", "writer"}
Resources == {"mutex", "cv", "server"}

VARIABLES pc,         \* where main, the reader and the writer are
          mutex,      \* who holds the mutex, or "nobody"
          waiting,    \* the threads in the condition variable's wait set
          full,       \* *arg->full
          garbage,    \* what `full' held before anybody assigned it
          len, i,     \* srv->len, and the writer's loop counter
          alive,      \* the shared objects main has not destroyed
          spurious    \* wake-ups without a signal so far

vars == <<pc, mutex, waiting, full, garbage, len, i, alive, spurious>>

TypeOK ==
    /\ pc \in [main : {"createReader", "createWriter", "joinReader", "joinWriter",
                       "mutex", "cv", "server", "done"},
               reader : {"absent", "lock", "test", "wait", "asleep", "relock",
                         "read", "unlock", "done"},
               writer : {"absent", "lock", "write", "signal", "unlock", "done"}]
    /\ mutex \in Threads \cup {"nobody"}
    /\ waiting \in SUBSET {"reader"}
    /\ full \in FlagBytes \cup {1}
    /\ garbage \in FlagBytes
    /\ len \in 0 .. MsgLen
    /\ i \in 0 .. MsgLen
    /\ alive \in SUBSET Resources
    /\ spurious \in 0 .. MaxSpurious

Init ==
    /\ pc = [main |-> "createReader", reader |-> "absent", writer |-> "absent"]
    /\ mutex = "nobody" /\ waiting = {}
    /\ garbage \in FlagBytes /\ full = garbage
    /\ len = 0 /\ i = 0
    /\ alive = Resources
    /\ spurious = 0

-----------------------------------------------------------------------------
(* The mutex *)

Goto(p, label) == pc' = [pc EXCEPT ![p] = label]

Acquire(t, from, to) ==
    /\ pc[t] = from /\ mutex = "nobody"
    /\ mutex' = t
    /\ Goto(t, to)
    /\ UNCHANGED <<waiting, full, garbage, len, i, alive, spurious>>

Release(t) ==
    /\ pc[t] = "unlock"
    /\ mutex' = "nobody"
    /\ Goto(t, "done")
    /\ UNCHANGED <<waiting, full, garbage, len, i, alive, spurious>>

-----------------------------------------------------------------------------
(* writer_func *)

WriterLock == Acquire("writer", "lock", "write")
WriterUnlock == Release("writer")

\* write_to_server: a byte when there is room for it, nothing otherwise.
WriteToServer == len' = IF len + 1 > MsgLen THEN len ELSE len + 1

\* The loop's test.  (Mutation: i <= msg_len.)
OneByteMore == i <= MsgLen
MoreBytes == i < MsgLen

\* One turn of the loop.  The sleep(1) that ends it is an interleaving.
WriteByte ==
    /\ pc.writer = "write" /\ MoreBytes
    /\ WriteToServer
    /\ i' = i + 1
    /\ UNCHANGED <<pc, mutex, waiting, full, garbage, alive, spurious>>

\* After the loop, *(arg->full) = 1.
SetFull ==
    /\ pc.writer = "write" /\ ~MoreBytes
    /\ full' = 1
    /\ Goto("writer", "signal")
    /\ UNCHANGED <<mutex, waiting, garbage, len, i, alive, spurious>>

\* pthread_cond_signal wakes one waiter, if there is one.  (Mutation: no call.)
NotSignalled(t) == FALSE
Signalled(t) == t \in waiting

Signal ==
    /\ pc.writer = "signal"
    /\ IF Signalled("reader")
         THEN /\ waiting' = waiting \ {"reader"}
              /\ pc' = [pc EXCEPT !.reader = "relock", !.writer = "unlock"]
         ELSE Goto("writer", "unlock") /\ UNCHANGED waiting
    /\ UNCHANGED <<mutex, full, garbage, len, i, alive, spurious>>

Writer == WriterLock \/ WriteByte \/ SetFull \/ Signal \/ WriterUnlock

-----------------------------------------------------------------------------
(* reader_func *)

ReaderLock == Acquire("reader", "lock", "test")
ReaderUnlock == Release("reader")

\* pthread_cond_wait returns with the mutex, to the test of the while loop.
\* (Mutation: an `if' instead of the `while', so that it is not tested again.)
WithoutRetest == "read"
AfterWait == "test"

ReaderRelock == Acquire("reader", "relock", AfterWait)

TestFull ==
    /\ pc.reader = "test"
    /\ Goto("reader", IF full # 1 THEN "wait" ELSE "read")
    /\ UNCHANGED <<mutex, waiting, full, garbage, len, i, alive, spurious>>

\* pthread_cond_wait gives up the mutex and starts to wait in one step.
Wait ==
    /\ pc.reader = "wait"
    /\ mutex' = "nobody"
    /\ waiting' = waiting \cup {"reader"}
    /\ Goto("reader", "asleep")
    /\ UNCHANGED <<full, garbage, len, i, alive, spurious>>

\* A wake-up that no signal caused.
Spurious ==
    /\ "reader" \in waiting /\ spurious < MaxSpurious
    /\ spurious' = spurious + 1
    /\ waiting' = waiting \ {"reader"}
    /\ Goto("reader", "relock")
    /\ UNCHANGED <<mutex, full, garbage, len, i, alive>>

\* "finally reading the buffer"
Read ==
    /\ pc.reader = "read"
    /\ Goto("reader", "unlock")
    /\ UNCHANGED <<mutex, waiting, full, garbage, len, i, alive, spurious>>

Reader == ReaderLock \/ TestFull \/ Wait \/ ReaderRelock \/ Read \/ ReaderUnlock

-----------------------------------------------------------------------------
(* main *)

Create(t, from, to) ==
    /\ pc.main = from
    /\ pc' = [pc EXCEPT !.main = to, ![t] = "lock"]
    /\ UNCHANGED <<mutex, waiting, full, garbage, len, i, alive, spurious>>

\* pthread_join returns once the thread has.  (Mutation: no join of the writer.)
OnlyReaderJoined(t) == t = "writer" \/ pc[t] = "done"
Joined(t) == pc[t] = "done"

Join(t, from, to) ==
    /\ pc.main = from /\ Joined(t)
    /\ Goto("main", to)
    /\ UNCHANGED <<mutex, waiting, full, garbage, len, i, alive, spurious>>

Destroy(resource, to) ==
    /\ pc.main = resource
    /\ alive' = alive \ {resource}
    /\ Goto("main", to)
    /\ UNCHANGED <<mutex, waiting, full, garbage, len, i, spurious>>

Main ==
    \/ Create("reader", "createReader", "createWriter")
    \/ Create("writer", "createWriter", "joinReader")
    \/ Join("reader", "joinReader", "joinWriter")
    \/ Join("writer", "joinWriter", "mutex")
    \/ Destroy("mutex", "cv") \/ Destroy("cv", "server") \/ Destroy("server", "done")

Terminated == pc.main = "done" /\ UNCHANGED vars

Next == Main \/ Writer \/ Reader \/ Spurious \/ Terminated

\* Each thread that can go on goes on; nothing obliges a spurious wake-up.
Spec == Init /\ [][Next]_vars /\ WF_vars(Main) /\ WF_vars(Writer) /\ WF_vars(Reader)

-----------------------------------------------------------------------------
(* What the program promises. *)

\* Provided the byte `full' started as is not already 1, the reader reads the
\* buffer only when the whole message is in it, however often it is woken for
\* nothing and whoever gets the mutex first (l.68-72).
ReadsWholeMessage == pc.reader = "read" /\ garbage # 1 => len = MsgLen

\* The same without the proviso: what the program is said to do.
WaitsForData == pc.reader = "read" => len = MsgLen

\* When the flag is up, a reader that still waits is about to be signalled: the
\* writer has not yet left the critical section in which it raised the flag.
NoMissedSignal ==
    "reader" \in waiting /\ full = 1 => pc.writer = "signal"

\* A thread runs only while the mutex, the condition variable and the server
\* exist (l.92-94 come after both joins).
NoUseAfterDestroy ==
    \A t \in Threads : pc[t] \notin {"absent", "done"} => alive = Resources

\* The reader is never left asleep: main joins both threads and exits.
Termination == <>(pc.main = "done")
=============================================================================
