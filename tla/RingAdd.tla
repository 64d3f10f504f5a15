------------------------------- MODULE RingAdd -------------------------------
(***************************************************************************)
(* 15-threads/threads-mutex.c: k threads share a ring of k doubles.  Under *)
(* the mutex, thread i adds .99 N to the slot before its own, N to its own *)
(* and 1.01 N to the slot after it; main prints the slots after joining    *)
(* all the threads.  Every += is a load and a store.                       *)
(*                                                                         *)
(* Amounts are counted in hundredths of N, so that they are integers; the  *)
(* rounding of the doubles is left out.                                    *)
(***************************************************************************)
EXTENDS Integers, Sequences

CONSTANT K   \* k, the second command-line argument

ASSUME RingSize == K \in Nat \ {0}

Threads == 0 .. (K - 1)
NoThread == K

VARIABLES mainPc, mi,   \* main and its loop counter
          pc,           \* where each thread is
          next,         \* which of its three additions comes next (4: none)
          tmp,          \* the register of each thread's +=
          mutex,        \* the holder, or NoThread
          doubles,      \* the shared ring
          out,          \* the lines main has printed
          status        \* the exit status, or "running"

threadVars == <<pc, next, tmp, mutex, doubles>>
mainVars == <<mainPc, mi, out, status>>
vars == <<threadVars, mainVars>>

TypeOK ==
    /\ mainPc \in {"create", "join", "print", "done"}
    /\ mi \in 0 .. K
    /\ pc \in [Threads -> {"absent", "lock", "load", "store", "done"}]
    /\ next \in [Threads -> 1 .. 4]
    /\ tmp \in [Threads -> 0 .. 300]
    /\ mutex \in Threads \cup {NoThread}
    /\ doubles \in [Threads -> 0 .. 300]
    /\ out \in Seq(0 .. 300)
    /\ status \in {"running", "success", "failure"}

Init ==
    /\ mainPc = "create" /\ mi = 0 /\ out = << >> /\ status = "running"
    /\ pc = [t \in Threads |-> "absent"]
    /\ next = [t \in Threads |-> 1]
    /\ tmp = [t \in Threads |-> 0]
    /\ mutex = NoThread
    /\ doubles = [s \in Threads |-> 0]

-----------------------------------------------------------------------------
(* thread_func *)

\* Where thread t's n-th addition goes, and how much it adds.
Slot(t, n) == CASE n = 1 -> (t - 1 + K) % K
                [] n = 2 -> t
                [] n = 3 -> (t + 1) % K
\* (Mutation: one factor copied to the other.)
CopiedAmount(n) == IF n = 2 THEN 100 ELSE 101
Amount(n) == CASE n = 1 -> 99 [] n = 2 -> 100 [] n = 3 -> 101

Goto(t, label) == pc' = [pc EXCEPT ![t] = label]

\* pthread_mutex_lock waits.  (Mutation: no mutex.)
NeverTaken == TRUE
MutexFree == mutex = NoThread

Lock(t) ==
    /\ pc[t] = "lock" /\ MutexFree
    /\ mutex' = t
    /\ Goto(t, "load")
    /\ UNCHANGED <<next, tmp, doubles>>

Load(t) ==
    /\ pc[t] = "load" /\ next[t] <= 3
    /\ tmp' = [tmp EXCEPT ![t] = doubles[Slot(t, next[t])]]
    /\ Goto(t, "store")
    /\ UNCHANGED <<next, mutex, doubles>>

Store(t) ==
    /\ pc[t] = "store"
    /\ doubles' = [doubles EXCEPT ![Slot(t, next[t])] = tmp[t] + Amount(next[t])]
    /\ next' = [next EXCEPT ![t] = @ + 1]
    /\ Goto(t, "load")
    /\ UNCHANGED <<tmp, mutex>>

\* Who holds the mutex after pthread_mutex_unlock.  (Mutation: still the thread.)
StillHeld == mutex
Released == NoThread

Unlock(t) ==
    /\ pc[t] = "load" /\ next[t] > 3
    /\ mutex' = Released
    /\ Goto(t, "done")
    /\ UNCHANGED <<next, tmp, doubles>>

Thread(t) ==
    /\ status = "running"
    /\ Lock(t) \/ Load(t) \/ Store(t) \/ Unlock(t)
    /\ UNCHANGED mainVars

-----------------------------------------------------------------------------
(* main *)

\* Turn the loop at `from': the next thread, or on to `to'.
NextTurn(from, to) ==
    IF mi + 1 < K THEN mi' = mi + 1 /\ mainPc' = from
                  ELSE mi' = 0 /\ mainPc' = to

Create ==
    /\ mainPc = "create" /\ status = "running"
    /\ Goto(mi, "lock")
    /\ NextTurn("create", "join")
    /\ UNCHANGED <<next, tmp, mutex, doubles, out, status>>

\* pthread_create fails: exit(1), which ends the threads already running.
CreateFails ==
    /\ mainPc = "create" /\ status = "running"
    /\ status' = "failure"
    /\ UNCHANGED <<threadVars, mainPc, mi, out>>

\* pthread_join returns once t has.  (Mutation: the last thread is not waited for.)
LastNotJoined(t) == t = K - 1 \/ pc[t] = "done"
Joined(t) == pc[t] = "done"

Join ==
    /\ mainPc = "join" /\ Joined(mi)
    /\ NextTurn("join", "print")
    /\ UNCHANGED <<threadVars, out, status>>

PrintLine ==
    /\ mainPc = "print"
    /\ out' = Append(out, doubles[mi])
    /\ NextTurn("print", "done")
    /\ status' = IF mi + 1 < K THEN status ELSE "success"
    /\ UNCHANGED threadVars

Main == Create \/ CreateFails \/ Join \/ PrintLine

Terminated == status # "running" /\ UNCHANGED vars

Next == Main \/ (\E t \in Threads : Thread(t)) \/ Terminated

Spec == Init /\ [][Next]_vars /\ WF_vars(Main) /\ \A t \in Threads : WF_vars(Thread(t))

-----------------------------------------------------------------------------
(* What the program promises. *)

\* The additions made so far are all in the ring: each slot holds the .99 N of
\* the thread after it, the N of its own and the 1.01 N of the thread before it,
\* each as soon as it is made, and no addition overwrites another (l.22-24).
\* When k is 1 or 2 several of these are the same thread's.
AddsUp ==
    \A s \in Threads :
        doubles[s] = (IF next[(s + 1) % K] > 1 THEN 99 ELSE 0)
                   + (IF next[s] > 2 THEN 100 ELSE 0)
                   + (IF next[(s - 1 + K) % K] > 3 THEN 101 ELSE 0)

\* Every line printed is 3.00 N; a run that ends well prints one for each slot,
\* and one whose pthread_create fails prints nothing.
PrintsAllOrNothing ==
    /\ \A l \in DOMAIN out : out[l] = 300
    /\ status = "success" => Len(out) = K
    /\ status = "failure" => out = << >>

\* The program exits: nobody waits for the mutex or for a thread for ever.
Termination == <>(status # "running")
=============================================================================
