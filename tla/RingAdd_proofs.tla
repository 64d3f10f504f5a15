--------------------------- MODULE RingAdd_proofs ---------------------------
(***************************************************************************)
(* For every k, 1 and 2 included, every line that main prints is 3.00 N.   *)
(***************************************************************************)
EXTENDS RingAdd, TLAPS

Next1(s) == IF s + 1 < K THEN s + 1 ELSE 0      \* the thread after s
Prev1(s) == IF s > 0 THEN s - 1 ELSE K - 1      \* the thread before s

ThreadTypes ==
    /\ pc \in [Threads -> {"absent", "lock", "load", "store", "done"}]
    /\ next \in [Threads -> 1 .. 4]
    /\ mutex \in Threads \cup {NoThread}
    /\ doubles \in [Threads -> Int]

(* The mutex's holder is the only thread between its lock and its unlock, and  *)
(* while it adds, what it loaded is still in the ring.                         *)
Owner(t) ==
    /\ pc[t] \in {"load", "store"} <=> mutex = t
    /\ pc[t] \in {"absent", "lock"} => next[t] = 1
    /\ pc[t] = "store" => next[t] <= 3 /\ tmp[t] = doubles[Slot(t, next[t])]
    /\ pc[t] = "done" => next[t] = 4

(* AddsUp, with the neighbours written without the remainder. *)
Sum(s) == (IF next[Next1(s)] > 1 THEN 99 ELSE 0)
        + (IF next[s] > 2 THEN 100 ELSE 0)
        + (IF next[Prev1(s)] > 3 THEN 101 ELSE 0)

ThreadInv ==
    /\ ThreadTypes
    /\ tmp \in [Threads -> Int]
    /\ \A t \in Threads : Owner(t)
    /\ \A s \in Threads : doubles[s] = Sum(s)

(* main creates, joins and prints in order. *)
MainInv ==
    /\ mainPc \in {"create", "join", "print", "done"} /\ mi \in 0 .. K
    /\ status \in {"running", "success", "failure"}
    /\ mainPc # "done" => mi < K
    /\ mainPc = "create" => \A t \in Threads : t >= mi <=> pc[t] = "absent"
    /\ mainPc = "join" => \A t \in Threads : t < mi => pc[t] = "done"
    /\ mainPc \in {"print", "done"} => \A t \in Threads : pc[t] = "done"
    /\ out \in Seq(0 .. 300)
    /\ \A l \in DOMAIN out : out[l] = 300
    /\ Len(out) = IF mainPc = "print" THEN mi ELSE IF mainPc = "done" THEN K ELSE 0
    /\ status = "failure" => mainPc = "create"
    /\ status = "success" <=> mainPc = "done"

IInv == ThreadInv /\ MainInv

-----------------------------------------------------------------------------
(* The remainders of the code pick the neighbours in the ring. *)
LEMMA Remainder ==
    ASSUME NEW x \in 0 .. (2 * K - 1)
    PROVE  x % K = IF x < K THEN x ELSE x - K
<1>. USE RingSize
<1>1. CASE x < K
  BY <1>1
<1>2. CASE x >= K
  <2>1. x % K = (x - K) % K
    BY <1>2
  <2>. QED  BY <1>2, <2>1
<1>. QED  BY <1>1, <1>2

(* The neighbours of a slot, without the remainders. *)
LEMMA Neighbours ==
    ASSUME NEW s \in Threads
    PROVE  /\ (s + 1) % K = Next1(s) /\ (s - 1 + K) % K = Prev1(s)
           /\ Next1(s) \in Threads /\ Prev1(s) \in Threads
           /\ Prev1(Next1(s)) = s /\ Next1(Prev1(s)) = s
<1>. USE RingSize DEF Threads, Next1, Prev1
<1>1. (s + 1) % K = Next1(s)
  <2>1. s + 1 \in 0 .. (2 * K - 1)
    OBVIOUS
  <2>. QED  BY <2>1, Remainder
<1>2. (s - 1 + K) % K = Prev1(s)
  <2>1. s - 1 + K \in 0 .. (2 * K - 1)
    OBVIOUS
  <2>. QED  BY <2>1, Remainder
<1>. QED  BY <1>1, <1>2

(* The three slots that a thread adds to. *)
LEMMA SlotIsThread ==
    ASSUME NEW t \in Threads
    PROVE  Slot(t, 1) = Prev1(t) /\ Slot(t, 2) = t /\ Slot(t, 3) = Next1(t)
BY Neighbours DEF Slot

-----------------------------------------------------------------------------
(* The invariant holds in the initial states. *)
LEMMA InitInv == Init => IInv
<1>. SUFFICES ASSUME Init PROVE IInv
  OBVIOUS
<1>1. ThreadInv
  <2>1. \A s \in Threads : next[Next1(s)] = 1 /\ next[Prev1(s)] = 1
    BY Neighbours DEF Init
  <2>. QED  BY <2>1, RingSize DEF Init, ThreadInv, ThreadTypes, Owner, Sum, NoThread, Threads
<1>2. MainInv
  BY RingSize DEF Init, MainInv, Threads
<1>. QED  BY <1>1, <1>2 DEF IInv

(* A store completes one addition: it moves one slot's sum by its amount.      *)
LEMMA StoreStep ==
    ASSUME ThreadInv, NEW t \in Threads, Store(t)
    PROVE  ThreadInv'
<1>. USE RingSize
<1>1. /\ pc[t] = "store" /\ next[t] \in 1 .. 3 /\ mutex = t
      /\ tmp[t] = doubles[Slot(t, next[t])]
  BY DEF Store, ThreadInv, ThreadTypes, Owner
<1>2. Slot(t, next[t]) \in Threads /\ Amount(next[t]) \in Int
  BY <1>1, SlotIsThread, Neighbours DEF Amount
<1>3. /\ pc' \in [Threads -> {"absent", "lock", "load", "store", "done"}]
      /\ next' \in [Threads -> 1 .. 4] /\ doubles' \in [Threads -> Int]
      /\ UNCHANGED <<tmp, mutex>>
      /\ \A u \in Threads : pc'[u] = IF u = t THEN "load" ELSE pc[u]
      /\ \A u \in Threads : next'[u] = IF u = t THEN next[t] + 1 ELSE next[u]
      /\ \A s \in Threads : doubles'[s] = IF s = Slot(t, next[t])
                                         THEN doubles[s] + Amount(next[t]) ELSE doubles[s]
  BY <1>1, <1>2 DEF Store, Goto, ThreadInv, ThreadTypes
<1>4. ThreadTypes' /\ tmp' \in [Threads -> Int]
  BY <1>3 DEF ThreadInv, ThreadTypes
<1>5. \A u \in Threads : Owner(u)'
  <2>1. ASSUME NEW u \in Threads, u # t PROVE Owner(u)'
    <3>1. pc[u] \notin {"load", "store"} /\ pc'[u] = pc[u] /\ next'[u] = next[u]
      BY <1>1, <1>3, <2>1 DEF ThreadInv, Owner
    <3>. QED  BY <1>1, <1>3, <2>1, <3>1 DEF ThreadInv, Owner
  <2>2. Owner(t)'
    BY <1>1, <1>3 DEF Owner
  <2>. QED  BY <2>1, <2>2
<1>6. ASSUME NEW s \in Threads PROVE doubles'[s] = Sum(s)'
  <2>0. /\ doubles[s] = Sum(s) /\ next \in [Threads -> 1 .. 4]
        /\ doubles \in [Threads -> Int]
        /\ Next1(s) \in Threads /\ Prev1(s) \in Threads
        /\ Prev1(Next1(s)) = s /\ Next1(Prev1(s)) = s
        /\ Prev1(Next1(t)) = t /\ Next1(Prev1(t)) = t
    BY Neighbours DEF ThreadInv, ThreadTypes
  <2>1. CASE next[t] = 1
    <3>1. Slot(t, next[t]) = Prev1(t) /\ Amount(next[t]) = 99
      BY <2>1, SlotIsThread DEF Amount
    <3>2. s = Prev1(t) <=> Next1(s) = t
      BY <2>0
    <3>. QED  BY <1>3, <2>0, <2>1, <3>1, <3>2 DEF Sum
  <2>2. CASE next[t] = 2
    <3>1. Slot(t, next[t]) = t /\ Amount(next[t]) = 100
      BY <2>2, SlotIsThread DEF Amount
    <3>. QED  BY <1>3, <2>0, <2>2, <3>1 DEF Sum
  <2>3. CASE next[t] = 3
    <3>1. Slot(t, next[t]) = Next1(t) /\ Amount(next[t]) = 101
      BY <2>3, SlotIsThread DEF Amount
    <3>2. s = Next1(t) <=> Prev1(s) = t
      BY <2>0
    <3>. QED  BY <1>3, <2>0, <2>3, <3>1, <3>2 DEF Sum
  <2>. QED  BY <1>1, <2>1, <2>2, <2>3
<1>. QED  BY <1>4, <1>5, <1>6 DEF ThreadInv

(* The steps that add nothing. *)
LEMMA ThreadInvStep ==
    ASSUME ThreadInv, MainInv, [Next]_vars
    PROVE  ThreadInv'
<1>. USE RingSize
<1>1. ASSUME UNCHANGED <<next, doubles>>, ThreadTypes', tmp' \in [Threads -> Int],
             \A t \in Threads : Owner(t)'
      PROVE  ThreadInv'
  <2>1. \A s \in Threads : Sum(s)' = Sum(s)
    BY <1>1 DEF Sum
  <2>. QED  BY <1>1, <2>1 DEF ThreadInv
<1>2. ASSUME NEW t \in Threads, Lock(t) PROVE ThreadInv'
  <2>1. ThreadTypes' /\ tmp' \in [Threads -> Int] /\ \A u \in Threads : Owner(u)'
    BY <1>2 DEF Lock, MutexFree, Goto, ThreadInv, ThreadTypes, Owner, NoThread, Threads
  <2>. QED  BY <1>1, <1>2, <2>1 DEF Lock
<1>3. ASSUME NEW t \in Threads, Load(t) PROVE ThreadInv'
  <2>1. Slot(t, next[t]) \in Threads
    <3>1. next[t] \in 1 .. 3
      BY <1>3 DEF Load, ThreadInv, ThreadTypes
    <3>. QED  BY <3>1, SlotIsThread, Neighbours
  <2>2. ThreadTypes' /\ tmp' \in [Threads -> Int] /\ \A u \in Threads : Owner(u)'
    BY <1>3, <2>1 DEF Load, Goto, ThreadInv, ThreadTypes, Owner
  <2>. QED  BY <1>1, <1>3, <2>2 DEF Load
<1>4. ASSUME NEW t \in Threads, Unlock(t) PROVE ThreadInv'
  <2>1. next[t] = 4 /\ mutex = t /\ NoThread \notin Threads
    <3>1. next[t] = 4
      BY <1>4 DEF Unlock, ThreadInv, ThreadTypes
    <3>2. mutex = t
      BY <1>4 DEF Unlock, ThreadInv, Owner
    <3>. QED  BY <3>1, <3>2 DEF NoThread, Threads
  <2>2. ThreadTypes' /\ tmp' \in [Threads -> Int]
    BY <1>4 DEF Unlock, Released, Goto, ThreadInv, ThreadTypes
  <2>3. \A u \in Threads : Owner(u)'
    BY <1>4, <2>1 DEF Unlock, Released, Goto, ThreadInv, ThreadTypes, Owner
  <2>. QED  BY <1>1, <1>4, <2>2, <2>3 DEF Unlock
<1>5. CASE Create
  <2>1. mi \in Threads /\ pc[mi] = "absent"
    BY <1>5 DEF Create, MainInv, Threads
  <2>2. ThreadTypes' /\ tmp' \in [Threads -> Int] /\ \A u \in Threads : Owner(u)'
    BY <1>5, <2>1 DEF Create, Goto, ThreadInv, ThreadTypes, Owner
  <2>. QED  BY <1>1, <1>5, <2>2 DEF Create
<1>6. CASE UNCHANGED threadVars
  BY <1>6 DEF threadVars, ThreadInv, ThreadTypes, Owner, Sum
<1>7. CreateFails \/ Join \/ PrintLine \/ Terminated \/ UNCHANGED vars => UNCHANGED threadVars
  BY DEF CreateFails, Join, PrintLine, Terminated, vars, threadVars
<1>. QED
  BY <1>2, <1>3, <1>4, <1>5, <1>6, <1>7, StoreStep DEF Next, Main, Thread

(* main is where the threads that it created and joined say. *)
LEMMA MainInvStep ==
    ASSUME ThreadInv, MainInv, [Next]_vars
    PROVE  MainInv'
<1>. USE RingSize DEF MainInv
<1>1. ASSUME NEW t \in Threads, Thread(t) PROVE MainInv'
  <2>1. UNCHANGED mainVars /\ pc[t] \notin {"absent", "done"}
        /\ \E l \in {"load", "store", "done"} : pc' = [pc EXCEPT ![t] = l]
    BY <1>1 DEF Thread, Lock, Load, Store, Unlock, Goto
  <2>2. /\ mainPc \notin {"print", "done"} /\ UNCHANGED mainVars
        /\ \A u \in Threads : pc'[u] = "absent" <=> pc[u] = "absent"
        /\ \A u \in Threads : pc[u] = "done" => pc'[u] = "done"
    BY <2>1 DEF ThreadInv, ThreadTypes
  <2>3. UNCHANGED <<mainPc, mi, out, status>>
    BY <2>2 DEF mainVars
  <2>4. mainPc = "create" => \A u \in Threads : u >= mi <=> pc'[u] = "absent"
    BY <2>2
  <2>5. mainPc = "join" => \A u \in Threads : u < mi => pc'[u] = "done"
    BY <2>2
  <2>. QED  BY <2>2, <2>3, <2>4, <2>5
<1>2. CASE Create
  <2>1. /\ mi \in Threads /\ pc' = [pc EXCEPT ![mi] = "lock"]
        /\ mainPc = "create" /\ status = "running" /\ UNCHANGED <<out, status>>
        /\ NextTurn("create", "join")
    BY <1>2 DEF Create, Goto, Threads
  <2>2. CASE mi + 1 < K
    <3>1. \A t \in Threads : t >= mi + 1 <=> pc'[t] = "absent"
      BY <2>1 DEF ThreadInv, ThreadTypes, Threads
    <3>. QED  BY <2>1, <2>2, <3>1 DEF NextTurn
  <2>3. CASE ~(mi + 1 < K)
    <3>1. mi' = 0 /\ mainPc' = "join" /\ \A t \in Threads : ~(t < 0)
      BY <2>1, <2>3 DEF NextTurn, Threads
    <3>. QED  BY <2>1, <3>1
  <2>. QED  BY <2>2, <2>3
<1>3. CASE CreateFails
  BY <1>3 DEF CreateFails, threadVars
<1>4. CASE Join
  BY <1>4 DEF Join, Joined, NextTurn, threadVars, ThreadInv, ThreadTypes, Threads
<1>5. CASE PrintLine
  <2>1. doubles[mi] = 300
    <3>1. mi \in Threads /\ Next1(mi) \in Threads /\ Prev1(mi) \in Threads
      BY <1>5, Neighbours DEF PrintLine, Threads
    <3>2. next[mi] = 4 /\ next[Next1(mi)] = 4 /\ next[Prev1(mi)] = 4
      BY <1>5, <3>1 DEF PrintLine, ThreadInv, Owner
    <3>. QED  BY <3>1, <3>2 DEF ThreadInv, Sum
  <2>2. /\ out' = Append(out, 300) /\ Len(out) = mi
        /\ mainPc = "print" /\ pc' = pc
        /\ NextTurn("print", "done")
        /\ status' = IF mi + 1 < K THEN status ELSE "success"
    BY <1>5, <2>1 DEF PrintLine, threadVars
  <2>3. /\ out' \in Seq(0 .. 300) /\ Len(out') = mi + 1
        /\ \A l \in DOMAIN out' : out'[l] = 300
    BY <2>2
  <2>4. CASE mi + 1 < K
    BY <2>2, <2>3, <2>4 DEF NextTurn
  <2>5. CASE ~(mi + 1 < K)
    BY <2>2, <2>3, <2>5 DEF NextTurn
  <2>. QED  BY <2>4, <2>5
<1>6. CASE UNCHANGED vars
  BY <1>6 DEF vars, mainVars, threadVars
<1>. QED  BY <1>1, <1>2, <1>3, <1>4, <1>5, <1>6 DEF Next, Main, Terminated

-----------------------------------------------------------------------------
(* The inductive invariant: the sums in the ring, and main's progress. *)
THEOREM IInvHolds == Spec => []IInv
<1>1. IInv /\ [Next]_vars => IInv'
  BY ThreadInvStep, MainInvStep DEF IInv
<1>. QED  BY <1>1, InitInv, PTL DEF Spec

(* A slot never holds more than 3.00 N. *)
LEMMA SlotBound ==
    ASSUME ThreadInv
    PROVE  doubles \in [Threads -> 0 .. 300]
<1>1. \A s \in Threads : doubles[s] \in 0 .. 300
  BY Neighbours DEF ThreadInv, ThreadTypes, Sum
<1>. QED  BY <1>1 DEF ThreadInv, ThreadTypes

(* Nor does a register of a thread, which holds what a slot held before. *)
Registers == tmp \in [Threads -> 0 .. 300]

(* What a thread has loaded is at most what a slot can hold. *)
LEMMA RegistersStep ==
    ASSUME IInv, Registers, [Next]_vars
    PROVE  Registers'
<1>1. ASSUME NEW t \in Threads, Load(t) PROVE Registers'
  <2>1. next[t] \in 1 .. 3
    BY <1>1 DEF Load, IInv, ThreadInv, ThreadTypes
  <2>2. doubles[Slot(t, next[t])] \in 0 .. 300
    BY <2>1, SlotIsThread, Neighbours, SlotBound DEF IInv
  <2>. QED  BY <1>1, <2>2 DEF Load, Registers
<1>2. CASE UNCHANGED tmp
  BY <1>2 DEF Registers
<1>3. \A t \in Threads : Lock(t) \/ Store(t) \/ Unlock(t) => UNCHANGED tmp
  BY DEF Lock, Store, Unlock
<1>4. Main \/ Terminated \/ UNCHANGED vars => UNCHANGED tmp
  BY DEF Main, Create, CreateFails, Join, PrintLine, Terminated, vars, threadVars
<1>. QED  BY <1>1, <1>2, <1>3, <1>4 DEF Next, Thread

(* The variables keep their types: with no slot and no register above 3.00 N. *)
THEOREM TypeCorrect == Spec => []TypeOK
<1>1. Init => Registers
  BY DEF Init, Registers
<1>2. ASSUME IInv, Registers PROVE TypeOK
  BY <1>2, SlotBound DEF IInv, ThreadInv, ThreadTypes, MainInv, Registers, TypeOK
<1>. QED  BY <1>1, <1>2, RegistersStep, IInvHolds, PTL DEF Spec

(* No addition is lost, whatever the order of the threads. *)
THEOREM AddsUpHolds == Spec => []AddsUp
<1>1. ASSUME IInv PROVE AddsUp
  BY <1>1, Neighbours DEF IInv, ThreadInv, Sum, AddsUp
<1>. QED  BY <1>1, IInvHolds, PTL

(* Every line printed is 3.00 N, for every k; nothing is printed on failure. *)
THEOREM PrintsAllOrNothingHolds == Spec => []PrintsAllOrNothing
<1>1. ASSUME IInv PROVE PrintsAllOrNothing
  BY <1>1, RingSize DEF IInv, MainInv, PrintsAllOrNothing
<1>. QED  BY <1>1, IInvHolds, PTL
=============================================================================
