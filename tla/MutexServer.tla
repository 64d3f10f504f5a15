---------------------------- MODULE MutexServer ----------------------------
(***************************************************************************)
(* 15-threads/mutex-example.c: n_threads threads write messages of msg_len *)
(* bytes into one shared buffer (the "server").  A message is written under*)
(* a mutex, one byte at a time, with a sched_yield() after every byte; main*)
(* creates the threads, joins them, destroys what they shared and dumps the*)
(* buffer.  Every load and store of the shared srv->len is a step of its   *)
(* own, so that it is the mutex, and not the model, that makes a message   *)
(* indivisible.  sched_yield() is any interleaving between two steps.      *)
(***************************************************************************)
EXTENDS Naturals, FiniteSets

CONSTANTS NThreads,   \* n_threads, 10 in the code
          Tries,      \* tries, 3 in the code
          MsgLen      \* msg_len, 32 in the code

ASSUME PositiveConstants ==
    NThreads \in Nat \ {0} /\ Tries \in Nat \ {0} /\ MsgLen \in Nat \ {0}

Threads == 0 .. (NThreads - 1)
\* No thread: the owner of a free mutex, the author of a byte calloc() zeroed.
NoThread == NThreads
\* The capacity main gives to init_server().
Cap == NThreads * Tries * MsgLen
Resources == {"args", "mutex", "server"}

VARIABLES mainPc,   \* where main is
          mi,       \* main's loop counter
          pc,       \* where each thread is
          i, j,     \* each thread's loop counters
          tmp,      \* each thread's register in srv->len++
          mutex,    \* the thread that holds the mutex, or NoThread
          buf, len, \* the server: the author of each byte, and srv->len
          alive     \* the shared objects that still exist

mainVars == <<mainPc, mi, alive>>
threadVars == <<pc, i, j, tmp>>
serverVars == <<buf, len>>
vars == <<mainVars, threadVars, mutex, serverVars>>

TypeOK ==
    /\ mainPc \in {"create", "join", "free", "destroy", "dump", "release", "done"}
    /\ mi \in 0 .. NThreads
    /\ pc \in [Threads -> {"absent", "lock", "check", "store", "load", "inc",
                           "unlock", "done"}]
    /\ i \in [Threads -> 0 .. MsgLen]
    /\ j \in [Threads -> 0 .. Tries]
    /\ tmp \in [Threads -> 0 .. Cap]
    /\ mutex \in Threads \cup {NoThread}
    /\ buf \in [0 .. (Cap - 1) -> Threads \cup {NoThread}]
    /\ len \in 0 .. Cap
    /\ alive \in SUBSET Resources

Init ==
    /\ mainPc = "create" /\ mi = 0
    /\ pc = [t \in Threads |-> "absent"]
    /\ i = [t \in Threads |-> 0]
    /\ j = [t \in Threads |-> 0]
    /\ tmp = [t \in Threads |-> 0]
    /\ mutex = NoThread
    /\ buf = [p \in 0 .. (Cap - 1) |-> NoThread]
    /\ len = 0
    /\ alive = Resources

-----------------------------------------------------------------------------
(* thread_func and write_to_server *)

Goto(t, label) == pc' = [pc EXCEPT ![t] = label]

\* The outer loop's test.  (Mutation: j <= tries.)
OneTryMore(t) == j[t] <= Tries
MoreTries(t) == j[t] < Tries

\* pthread_mutex_lock() waits while the mutex is taken.  (Mutation: the program
\* without its mutex, which the seminar's README suggests trying.)
NeverTaken == TRUE
MutexFree == mutex = NoThread

Lock(t) ==
    /\ pc[t] = "lock" /\ MoreTries(t)
    /\ MutexFree
    /\ mutex' = t
    /\ Goto(t, "check")
    /\ UNCHANGED <<mainVars, i, j, tmp, serverVars>>

\* The inner loop's increment and test.
NextByte(t) ==
    /\ i' = [i EXCEPT ![t] = @ + 1]
    /\ Goto(t, IF i[t] + 1 < MsgLen THEN "check" ELSE "unlock")

\* write_to_server's test of the capacity.  When there is no room it returns
\* -1, which the caller ignores: the byte is dropped.  (Mutation: off by one.)
HasRoomToSpare == len + 1 < Cap
HasRoom == len + 1 <= Cap

CheckRoom(t) ==
    /\ pc[t] = "check"
    /\ IF HasRoom THEN Goto(t, "store") /\ UNCHANGED i ELSE NextByte(t)
    /\ UNCHANGED <<mainVars, j, tmp, mutex, serverVars>>

Store(t) ==
    /\ pc[t] = "store"
    /\ buf' = [buf EXCEPT ![len] = t]
    /\ Goto(t, "load")
    /\ UNCHANGED <<mainVars, i, j, tmp, mutex, len>>

\* srv->len++ reads srv->len ...
LoadLen(t) ==
    /\ pc[t] = "load"
    /\ tmp' = [tmp EXCEPT ![t] = len]
    /\ Goto(t, "inc")
    /\ UNCHANGED <<mainVars, i, j, mutex, serverVars>>

\* ... and writes back what it read, plus one.
StoreLen(t) ==
    /\ pc[t] = "inc"
    /\ len' = tmp[t] + 1
    /\ NextByte(t)
    /\ UNCHANGED <<mainVars, j, tmp, mutex, buf>>

\* Who holds the mutex after pthread_mutex_unlock().  (Mutation: it is never
\* released.)
StillHeld == mutex
Released == NoThread

Unlock(t) ==
    /\ pc[t] = "unlock"
    /\ mutex' = Released
    /\ i' = [i EXCEPT ![t] = 0]
    /\ j' = [j EXCEPT ![t] = @ + 1]
    /\ Goto(t, "lock")
    /\ UNCHANGED <<mainVars, tmp, serverVars>>

Return(t) ==
    /\ pc[t] = "lock" /\ ~MoreTries(t)
    /\ Goto(t, "done")
    /\ UNCHANGED <<mainVars, i, j, tmp, mutex, serverVars>>

Thread(t) ==
    \/ Lock(t) \/ CheckRoom(t) \/ Store(t) \/ LoadLen(t) \/ StoreLen(t)
    \/ Unlock(t) \/ Return(t)

-----------------------------------------------------------------------------
(* main *)

\* One turn of the creation loop.  args[mi] and the mutex it points to live in
\* main's frame and heap.
CreateThread ==
    /\ mainPc = "create"
    /\ Goto(mi, "lock")
    /\ IF mi + 1 < NThreads
         THEN mi' = mi + 1 /\ UNCHANGED mainPc
         ELSE mi' = 0 /\ mainPc' = "join"
    /\ UNCHANGED <<alive, i, j, tmp, mutex, serverVars>>

\* pthread_join(t) returns once t has.  (Mutation: a join loop that starts from
\* the second thread.)
JoinSkipsFirst(t) == t = 0 \/ pc[t] = "done"
JoinReturns(t) == pc[t] = "done"

\* One turn of the join loop.
JoinThread ==
    /\ mainPc = "join"
    /\ JoinReturns(mi)
    /\ mi' = mi + 1
    /\ mainPc' = IF mi + 1 < NThreads THEN "join" ELSE "free"
    /\ UNCHANGED <<alive, threadVars, mutex, serverVars>>

Teardown(from, resource, to) ==
    /\ mainPc = from /\ mainPc' = to
    /\ alive' = alive \ {resource}
    /\ UNCHANGED <<mi, threadVars, mutex, serverVars>>

FreeArgs == Teardown("free", "args", "destroy")
DestroyMutex == Teardown("destroy", "mutex", "dump")
DestroyServer == Teardown("release", "server", "done")

DumpBuff ==
    /\ mainPc = "dump" /\ mainPc' = "release"
    /\ UNCHANGED <<mi, alive, threadVars, mutex, serverVars>>

Main ==
    CreateThread \/ JoinThread \/ FreeArgs \/ DestroyMutex \/ DumpBuff \/ DestroyServer

\* The program has exited.
Terminated == mainPc = "done" /\ UNCHANGED vars

Next == Main \/ (\E t \in Threads : Thread(t)) \/ Terminated

Fairness == WF_vars(Main) /\ \A t \in Threads : WF_vars(Thread(t))

Spec == Init /\ [][Next]_vars /\ Fairness

-----------------------------------------------------------------------------
(* What the program promises. *)

InCriticalSection(t) == pc[t] \in {"check", "store", "load", "inc", "unlock"}

\* The authors of the bytes written so far, by position.
BytesOf(t) == {p \in 0 .. (Cap - 1) : p < len /\ buf[p] = t}

\* Every byte a thread has written is in the buffer, and nothing else is:
\* srv->len++ loses no increment and the buffer never turns a byte away, so at
\* the dump each thread has exactly tries * msg_len bytes in it.
NoByteLost == \A t \in Threads : Cardinality(BytesOf(t)) = j[t] * MsgLen + i[t]

\* The bytes of a message stay together: within each msg_len-long block of the
\* buffer, the part written so far has one author, whatever sched_yield() does
\* between two bytes (l.59).
BlocksWhole ==
    \A b \in 0 .. (NThreads * Tries - 1) : \A o \in 0 .. (MsgLen - 1) :
        b * MsgLen + o < len => buf[b * MsgLen + o] = buf[b * MsgLen]

\* While a thread runs, the objects it reaches through its argument exist, and
\* so does the server main dumps: main tears down (l.87-91) only what no thread
\* can touch any more.
NoUseAfterFree ==
    /\ \A t \in Threads : pc[t] \notin {"absent", "done"} => alive = Resources
    /\ mainPc = "dump" => "server" \in alive /\ len = Cap

\* The buffer, read as one message per msg_len bytes, is a log of whole messages
\* (l.57-60 act as one step), and each thread's `tries' messages end up in it.
Log == INSTANCE MessageLog
         WITH log <- [b \in 1 .. (len \div MsgLen) |-> buf[(b - 1) * MsgLen]]
ImplementsLog == Log!Spec

\* main gets through its joins and exits: no thread waits for the mutex for ever.
Termination == <>(mainPc = "done")
=============================================================================
