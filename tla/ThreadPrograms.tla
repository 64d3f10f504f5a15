--------------------------- MODULE ThreadPrograms ---------------------------
(***************************************************************************)
(* The programs of 15-threads in which pthread_join matters; `prog' says   *)
(* which of them runs:                                                     *)
(*   "chain"    simple-create-join.c: every thread reads a number, creates *)
(*              the next thread, joins it and only then prints its number  *)
(*   "results"  threads/set-stack-size.c: main creates a thread for each   *)
(*              argument, joins them in order and prints what each of them *)
(*              returned, an upper-case copy of its argument               *)
(*   "cancel" and "async"   threads/cancel.c and threads/cancel-async.c:   *)
(*              main cancels and joins a thread that prints, then loops,   *)
(*              and prints before and after the join                       *)
(* Thread 0 is main.  exit() in any thread ends them all.  `prog' and      *)
(* `input', the words on stdin or the arguments, never change; a number, a *)
(* result or a printed line is the place of the word that it comes from.   *)
(***************************************************************************)
EXTENDS Naturals, Sequences

CONSTANT MaxInput    \* bound: how many words there are at most

ASSUME InputBound == MaxInput \in Nat

Words == {"number", "word"}    \* what scanf("%d") accepts, and what it does not
Threads == 0 .. (MaxInput + 1)
Workers == Threads \ {0}
TInfo == 0    \* calloc'ed by main; the memory a worker allocates has its number

VARIABLES prog, input,
          pc,      \* where each thread is
          nread,   \* how many words have been read from stdin
          tnum,    \* main's loop counter
          val,     \* what each thread has read, or made of its argument; 0: nothing
          heap,    \* the memory that is allocated
          out,     \* what has been printed
          status,  \* the exit status, or "running"
          cancelled,   \* whether pthread_cancel was called
          lock         \* the thread, if any, that has stdout locked

vars == <<prog, input, pc, nread, tnum, val, heap, out, status, cancelled, lock>>
cancelling == <<cancelled, lock>>

TypeOK ==
    /\ prog \in {"chain", "results", "cancel", "async"}
    /\ input \in Seq(Words) /\ Len(input) <= MaxInput
    /\ pc \in [Threads -> {"absent", "scan", "create", "join", "print", "work", "done",
                         "start", "ready", "printing", "loop", "cancel",
                         "joined", "last"}]
    /\ nread \in 0 .. Len(input)
    /\ tnum \in 0 .. Len(input)
    /\ val \in [Threads -> 0 .. Len(input)]
    /\ heap \in SUBSET Threads
    /\ out \in Seq(1 .. Len(input)) /\ Len(out) <= Len(input)
    /\ status \in {"running", "success", "failure"}
    /\ cancelled \in BOOLEAN /\ lock \subseteq {0, 1} /\ lock # {0, 1}

Init ==
    /\ prog \in {"chain", "results", "cancel", "async"}
    /\ \E n \in IF prog \in {"cancel", "async"} THEN {0} ELSE 0 .. MaxInput : input \in [1 .. n -> Words]
    /\ pc = [t \in Threads |-> IF t = 0 THEN "create" ELSE "absent"]
    /\ nread = 0 /\ tnum = 0
    /\ val = [t \in Threads |-> 0]
    /\ heap = IF prog = "results" THEN {TInfo} ELSE {}
    /\ out = << >>
    /\ status = "running"
    /\ cancelled = FALSE /\ lock = {}

Goto(t, label) == pc' = [pc EXCEPT ![t] = label]

\* exit(1), after a pthread_create or a strdup that fails.
Fail(t, label) ==
    /\ pc[t] = label
    /\ status' = "failure"
    /\ UNCHANGED <<prog, input, pc, nread, tnum, val, heap, out>>

\* pthread_join returns once t has.  (Mutation: the threads are not waited for.)
NotJoined(t) == pc[t] # "absent"
Joined(t) == pc[t] = "done"

-----------------------------------------------------------------------------
(* simple-create-join.c: main is thread 0, thread t creates thread t + 1. *)

IsNumber == nread < Len(input) /\ input[nread + 1] = "number"

\* scanf leaves a word that is not a number where it is.
Scan(t) ==
    /\ pc[t] = "scan"
    /\ IF IsNumber
         THEN /\ nread' = nread + 1
              /\ val' = [val EXCEPT ![t] = nread + 1]
              /\ Goto(t, "create")
         ELSE Goto(t, "done") /\ UNCHANGED <<nread, val>>
    /\ UNCHANGED <<prog, input, tnum, heap, out, status>>

CreateNext(t) ==
    /\ pc[t] = "create"
    /\ pc' = [pc EXCEPT ![t] = "join", ![t + 1] = "scan"]
    /\ UNCHANGED <<prog, input, nread, tnum, val, heap, out, status>>

JoinNext(t) ==
    /\ pc[t] = "join" /\ Joined(t + 1)
    /\ Goto(t, IF t = 0 THEN "done" ELSE "print")
    /\ status' = IF t = 0 THEN "success" ELSE status
    /\ UNCHANGED <<prog, input, nread, tnum, val, heap, out>>

PrintVal(t) ==
    /\ pc[t] = "print"
    /\ out' = Append(out, val[t])
    /\ Goto(t, "done")
    /\ UNCHANGED <<prog, input, nread, tnum, val, heap, status>>

ChainThread(t) ==
    /\ prog = "chain" /\ status = "running" /\ UNCHANGED cancelling
    /\ Scan(t) \/ CreateNext(t) \/ Fail(t, "create") \/ JoinNext(t) \/ PrintVal(t)

-----------------------------------------------------------------------------
(* set-stack-size.c: worker t has the t-th argument. *)

\* The loops count from 0; worker tnum + 1 is the one whose turn it is.
Turn == tnum + 1

CreateWorker ==
    /\ pc[0] = "create" /\ tnum < Len(input)
    /\ Goto(Turn, "work")
    /\ tnum' = tnum + 1
    /\ UNCHANGED <<prog, input, nread, val, heap, out, status>>

CreationFails == tnum < Len(input) /\ Fail(0, "create")

AllCreated ==
    /\ pc[0] = "create" /\ tnum = Len(input)
    /\ tnum' = 0
    /\ Goto(0, "join")
    /\ UNCHANGED <<prog, input, nread, val, heap, out, status>>

\* free(res).  (Mutation: the result is not freed, as in value-arg.c.)
ResultKept(t) == heap
ResultFreed(t) == heap \ {t}

\* The join loop's test.  (Mutation: tnum <= num_threads.)
OneJoinMore == tnum <= Len(input)
MoreToJoin == tnum < Len(input)

JoinWorker ==
    /\ pc[0] = "join" /\ MoreToJoin /\ Joined(Turn)
    /\ out' = Append(out, val[Turn])
    /\ heap' = ResultFreed(Turn)
    /\ tnum' = tnum + 1
    /\ UNCHANGED <<prog, input, pc, nread, val, status>>

\* free(tinfo); exit(EXIT_SUCCESS)
Finish ==
    /\ pc[0] = "join" /\ ~MoreToJoin
    /\ heap' = heap \ {TInfo}
    /\ Goto(0, "done")
    /\ status' = "success"
    /\ UNCHANGED <<prog, input, nread, tnum, val, out>>

ResultsMain ==
    /\ prog = "results" /\ status = "running" /\ UNCHANGED cancelling
    /\ CreateWorker \/ CreationFails \/ AllCreated \/ JoinWorker \/ Finish

\* The argument that worker t finds through the pointer it was given.
\* (Mutation: a pointer to one thread_info that main reuses for every worker.)
SharedArgument(t) == tnum
OwnArgument(t) == t

\* thread_start: an upper-case copy of the argument.
Work(t) ==
    /\ pc[t] = "work"
    /\ val' = [val EXCEPT ![t] = OwnArgument(t)]
    /\ heap' = heap \cup {t}
    /\ Goto(t, "done")
    /\ UNCHANGED <<prog, input, nread, tnum, out, status>>

Worker(t) ==
    /\ prog = "results" /\ status = "running" /\ UNCHANGED cancelling
    /\ Work(t) \/ Fail(t, "work")

-----------------------------------------------------------------------------
(* cancel.c and cancel-async.c: thread 1 is the one main cancels. *)

others == <<prog, input, nread, tnum, val, heap, out>>

CreateLooper ==
    /\ pc[0] = "create"
    /\ pc' = [pc EXCEPT ![0] = "cancel", ![1] = IF prog = "async" THEN "start" ELSE "ready"]
    /\ UNCHANGED <<others, status, cancelling>>

\* pthread_setcanceltype(PTHREAD_CANCEL_ASYNCHRONOUS, NULL)
SetCancelType ==
    /\ pc[1] = "start"
    /\ Goto(1, "ready")
    /\ UNCHANGED <<others, status, cancelling>>

\* main sleeps before, which gives the thread time, but waits for nothing.
Cancel ==
    /\ pc[0] = "cancel"
    /\ Goto(0, "ready") /\ cancelled' = TRUE
    /\ UNCHANGED <<others, status, lock>>

\* printf() locks stdout and unlocks it: once in the thread, and in main before and
\* after the join.
BeginPrintf(t) ==
    /\ lock = {} /\ lock' = {t}
    /\ \/ pc[t] = "ready" /\ Goto(t, "printing")
       \/ pc[t] = "joined" /\ Goto(t, "last")
    /\ UNCHANGED <<others, status, cancelled>>

EndPrintf(t) ==
    /\ pc[t] = "printing"
    /\ Goto(t, IF t = 0 THEN "join" ELSE "loop") /\ lock' = {}
    /\ UNCHANGED <<others, status, cancelled>>

\* A deferred cancellation waits for the write() in printf(), if stdout is not
\* buffered, which unlocks.
CancelledInPrintf ==
    /\ prog = "cancel" /\ cancelled /\ pc[1] = "printing"
    /\ Goto(1, "done") /\ lock' = {}
    /\ UNCHANGED <<others, status, cancelled>>

\* An asynchronous one comes anywhere, and whether printf() unlocks is undefined.
CancelledAnywhere ==
    /\ prog = "async" /\ cancelled /\ pc[1] \in {"ready", "printing", "loop"}
    /\ Goto(1, "done") /\ lock' \in {lock, lock \ {1}}
    /\ UNCHANGED <<others, status, cancelled>>

\* for (;;) {}
Loop == pc[1] = "loop" /\ UNCHANGED vars

JoinLooper ==
    /\ pc[0] = "join" /\ Joined(1)
    /\ Goto(0, "joined")
    /\ UNCHANGED <<others, status, cancelling>>

\* The end of main's last printf(), and return 0.
PrintDone ==
    /\ pc[0] = "last"
    /\ Goto(0, "done") /\ lock' = {} /\ status' = "success"
    /\ UNCHANGED <<others, cancelled>>

CancelMain ==
    /\ prog \in {"cancel", "async"} /\ status = "running"
    /\ CreateLooper \/ Cancel \/ BeginPrintf(0) \/ EndPrintf(0) \/ JoinLooper \/ PrintDone

Looper ==
    /\ prog \in {"cancel", "async"} /\ status = "running"
    /\ \/ SetCancelType \/ BeginPrintf(1) \/ EndPrintf(1) \/ Loop
       \/ CancelledInPrintf \/ CancelledAnywhere

-----------------------------------------------------------------------------

\* main waits for ever to print, before the join or after it, when its thread was
\* cancelled with stdout locked.
LockedOut == pc[0] \in {"ready", "joined"} /\ pc[1] = "done" /\ lock = {1}

Terminated == (status # "running" \/ LockedOut) /\ UNCHANGED vars

Next ==
    \/ CancelMain \/ Looper
    \/ \E t \in Threads : ChainThread(t)
    \/ ResultsMain
    \/ \E t \in Workers : Worker(t)
    \/ Terminated

\* Each thread that can go on goes on.
Spec ==
    /\ Init /\ [][Next]_vars
    /\ WF_vars(ResultsMain) /\ WF_vars(CancelMain) /\ WF_vars(Looper)
    /\ \A t \in Threads : WF_vars(ChainThread(t))
    /\ \A t \in Workers : WF_vars(Worker(t))

-----------------------------------------------------------------------------
(* What the programs promise. *)

\* How many numbers there are before the first word that is not one.
LeadingNumbers ==
    CHOOSE n \in 0 .. Len(input) :
        /\ \A k \in 1 .. n : input[k] = "number"
        /\ n < Len(input) => input[n + 1] # "number"

\* What a run prints that nothing stops.
Expected ==
    IF prog = "chain" THEN [k \in 1 .. LeadingNumbers |-> LeadingNumbers + 1 - k]
                      ELSE [k \in 1 .. Len(input) |-> k]

\* However the threads are scheduled, simple-create-join.c prints the numbers in
\* reverse and set-stack-size.c the results in the order of the arguments.  A run
\* that ends well prints them all; one that fails has printed the first of them
\* at most, and none in simple-create-join.c, where every creation comes before
\* every output.
OutputInOrder ==
    /\ out = SubSeq(Expected, 1, Len(out))
    /\ status = "success" => out = Expected
    /\ status = "failure" /\ prog = "chain" => out = << >>

\* set-stack-size.c frees nothing too early and forgets nothing: a worker that has
\* still to look at its argument finds it, a result main has still to print is
\* there, and in the end all is freed (l.119-122).
HeapSafe ==
    prog = "results" =>
        /\ \A t \in Workers : pc[t] = "work" => TInfo \in heap
        /\ \A t \in Workers : pc[t] = "done" => t \in heap \/ Len(out) >= t
        /\ status = "success" => heap = {}

\* The program exits, whatever main and the workers wait for: but cancel.c only if its
\* thread is cancelled before its printf is done, in spite of the sleep that is to let
\* it print (cancel.c:16), and cancel-async.c unless its thread is cancelled in its
\* printf with stdout locked, which stops main at its next printf, be it the one before
\* the join (cancel-async.c:19) or, if the thread came late, the one after it (l.21).
Termination ==
    <>[]( \/ status # "running"
          \/ prog = "cancel" /\ cancelled /\ pc[1] = "loop" /\ pc[0] = "join"
          \/ prog = "async" /\ LockedOut)
=============================================================================
