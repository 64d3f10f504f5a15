------------------------- MODULE MutexServer_proofs -------------------------
(***************************************************************************)
(* For every number of threads, messages and bytes per message: no byte is *)
(* lost, messages stay whole, and main frees nothing a thread still uses.  *)
(***************************************************************************)
EXTENDS MutexServer, Sequences, FiniteSetTheorems, TLAPS

(* The messages finished so far: thread t has finished <<t, 0>> .. <<t, j[t]-1>>. *)
Slots == Threads \X (0 .. (Tries - 1))
Finished == {m \in Slots : m[2] < j[m[1]]}

(* Bytes of the message being written. *)
Partial == IF mutex = NoThread THEN 0 ELSE i[mutex]

Labels == {"absent", "lock", "check", "store", "load", "inc", "unlock", "done"}

(* The part of the type invariant about the threads' own state and the mutex. *)
ThreadTypes ==
    /\ pc \in [Threads -> Labels]
    /\ i \in [Threads -> 0 .. MsgLen]
    /\ j \in [Threads -> 0 .. Tries]
    /\ mutex \in Threads \cup {NoThread}

(* Only the mutex's holder is past its lock, and each loop counter is where the *)
(* program counter says.                                                       *)
Owner(t) ==
    /\ InCriticalSection(t) <=> mutex = t
    /\ InCriticalSection(t) => j[t] < Tries
    /\ pc[t] \in {"check", "store", "load", "inc"} => i[t] < MsgLen
    /\ pc[t] = "unlock" => i[t] = MsgLen
    /\ ~InCriticalSection(t) => i[t] = 0
    /\ pc[t] = "done" => j[t] = Tries
    /\ pc[t] = "absent" => j[t] = 0

ThreadInv == ThreadTypes /\ \A t \in Threads : Owner(t)

(* srv->len counts the finished messages and the holder's bytes. *)
LenInv ==
    /\ len = MsgLen * Cardinality(Finished) + Partial
    /\ buf \in [0 .. (Cap - 1) -> Threads \cup {NoThread}]
    /\ tmp \in [Threads -> 0 .. Cap]
    /\ \A t \in Threads : pc[t] = "inc" => tmp[t] = len
    /\ \A t \in Threads : pc[t] \in {"load", "inc"} => buf[len] = t
    /\ \A t \in Threads : pc[t] \in {"store", "load", "inc"} => len < Cap

(* The bytes of the message being written are its author's. *)
BlockInv ==
    /\ BlocksWhole
    /\ \A o \in 0 .. (Partial - 1) : buf[MsgLen * Cardinality(Finished) + o] = mutex

(* main creates threads 0, 1, ... in order, joins them in order, and only then *)
(* tears down.                                                                 *)
MainInv ==
    /\ mainPc \in {"create", "join", "free", "destroy", "dump", "release", "done"}
    /\ mi \in 0 .. NThreads
    /\ alive \in SUBSET Resources
    /\ mainPc = "create" => /\ mi < NThreads
                            /\ \A t \in Threads : t >= mi <=> pc[t] = "absent"
    /\ mainPc # "create" => \A t \in Threads : pc[t] # "absent"
    /\ mainPc = "join" => /\ mi < NThreads
                          /\ \A t \in Threads : t < mi => pc[t] = "done"
    /\ mainPc \notin {"create", "join"} => \A t \in Threads : pc[t] = "done"
    /\ mainPc \in {"create", "join", "free"} => alive = Resources
    /\ mainPc \in {"destroy", "dump"} => "server" \in alive

IInv == ThreadInv /\ LenInv /\ BlockInv /\ NoByteLost /\ MainInv

-----------------------------------------------------------------------------
(* Arithmetic and counting *)

(* Multiplication is monotonic. *)
LEMMA Monotonic ==
    ASSUME NEW m \in Nat, NEW a \in Nat, NEW b \in Nat, a <= b
    PROVE  m * a <= m * b
BY SMT

(* A position has one block number and one offset. *)
LEMMA OneBlock ==
    ASSUME NEW m \in Nat \ {0}, NEW a \in Nat, NEW b \in Nat,
           NEW x \in 0 .. (m - 1), NEW y \in 0 .. (m - 1), a * m + x = b * m + y
    PROVE  a = b /\ x = y
<1>1. CASE a < b
  <2>1. m * (a + 1) <= m * b
    BY <1>1, Monotonic
  <2>. QED  BY <2>1
<1>2. CASE b < a
  <2>1. m * (b + 1) <= m * a
    BY <1>2, Monotonic
  <2>. QED  BY <2>1
<1>. QED  BY <1>1, <1>2

(* The messages the program sends are finitely many: n_threads * tries. *)
LEMMA SlotsFinite == IsFiniteSet(Slots) /\ Cardinality(Slots) = NThreads * Tries
<1>1. IsFiniteSet(Threads) /\ Cardinality(Threads) = NThreads
  BY FS_Interval, PositiveConstants DEF Threads
<1>2. IsFiniteSet(0 .. (Tries - 1)) /\ Cardinality(0 .. (Tries - 1)) = Tries
  BY FS_Interval, PositiveConstants
<1>. QED  BY <1>1, <1>2, FS_Product DEF Slots

(* So at most that many are finished, and one fewer while one is being sent. *)
LEMMA FinishedBound ==
    ASSUME ThreadTypes
    PROVE  /\ IsFiniteSet(Finished) /\ Cardinality(Finished) \in Nat
           /\ Cardinality(Finished) <= NThreads * Tries
           /\ \A t \in Threads : j[t] < Tries => Cardinality(Finished) < NThreads * Tries
<1>1. Finished \subseteq Slots
  BY DEF Finished
<1>2. IsFiniteSet(Finished) /\ Cardinality(Finished) \in Nat
      /\ Cardinality(Finished) <= NThreads * Tries
  BY <1>1, SlotsFinite, FS_Subset, FS_CardinalityType
<1>3. ASSUME NEW t \in Threads, j[t] < Tries
      PROVE  Cardinality(Finished) < NThreads * Tries
  <2>1. <<t, j[t]>> \in Slots /\ <<t, j[t]>> \notin Finished
    BY <1>3, PositiveConstants DEF Slots, Finished, ThreadTypes
  <2>2. Cardinality(Finished) # Cardinality(Slots)
    BY <1>1, <2>1, SlotsFinite, FS_Subset
  <2>3. NThreads * Tries \in Nat
    BY PositiveConstants
  <2>. QED  BY <1>2, <2>2, <2>3, SlotsFinite
<1>. QED  BY <1>2, <1>3
-----------------------------------------------------------------------------
(* The invariant holds initially and every step preserves it. *)

(* An unlocked mutex is held by none of the threads. *)
LEMMA NoThreadIsNone == NoThread \notin Threads
BY PositiveConstants DEF NoThread, Threads

(* The invariant holds in the initial states. *)
LEMMA InitInv == Init => IInv
<1>. SUFFICES ASSUME Init PROVE IInv
  OBVIOUS
<1>. USE PositiveConstants, NoThreadIsNone
<1>1. ThreadInv
  BY DEF Init, ThreadInv, ThreadTypes, Owner, InCriticalSection, Labels
<1>2. Finished = {}
  BY DEF Init, Finished, Slots
<1>3. Cap \in Nat /\ 0 \in 0 .. Cap /\ MsgLen * 0 = 0
  BY DEF Cap
<1>4. Partial = 0 /\ Cardinality(Finished) = 0
  BY <1>2, FS_EmptySet DEF Init, Partial
<1>5. LenInv
  BY <1>3, <1>4 DEF Init, LenInv
<1>6. BlockInv
  BY <1>3, <1>4 DEF Init, BlockInv, BlocksWhole
<1>7. NoByteLost
  <2>1. \A t \in Threads : BytesOf(t) = {}
    BY <1>3 DEF Init, BytesOf
  <2>2. \A t \in Threads : j[t] * MsgLen + i[t] = 0
    BY DEF Init
  <2>. QED  BY <2>1, <2>2, FS_EmptySet DEF NoByteLost
<1>8. MainInv
  BY DEF Init, MainInv, Threads, Resources
<1>. QED  BY <1>1, <1>5, <1>6, <1>7, <1>8 DEF IInv

(* Steps of the threads and of main on the program counters and the mutex. *)
LEMMA ThreadInvStep ==
    ASSUME ThreadInv, MainInv, [Next]_vars
    PROVE  ThreadInv'
<1>. USE PositiveConstants, NoThreadIsNone
<1>. USE DEF ThreadInv, ThreadTypes, Owner, InCriticalSection, Labels
<1>1. ASSUME NEW t \in Threads, Lock(t) PROVE ThreadInv'
  BY <1>1 DEF Lock, Goto, MoreTries, MutexFree
<1>2. ASSUME NEW t \in Threads, CheckRoom(t) PROVE ThreadInv'
  BY <1>2 DEF CheckRoom, Goto, NextByte
<1>3. ASSUME NEW t \in Threads, Store(t) PROVE ThreadInv'
  BY <1>3 DEF Store, Goto
<1>4. ASSUME NEW t \in Threads, LoadLen(t) PROVE ThreadInv'
  BY <1>4 DEF LoadLen, Goto
<1>5. ASSUME NEW t \in Threads, StoreLen(t) PROVE ThreadInv'
  BY <1>5 DEF StoreLen, Goto, NextByte
<1>6. ASSUME NEW t \in Threads, Unlock(t) PROVE ThreadInv'
  BY <1>6 DEF Unlock, Goto, Released
<1>7. ASSUME NEW t \in Threads, Return(t) PROVE ThreadInv'
  BY <1>7 DEF Return, Goto, MoreTries
<1>8. CASE CreateThread
  <2>1. mi \in Threads /\ pc[mi] = "absent"
    BY <1>8 DEF CreateThread, MainInv, Threads
  <2>. QED  BY <1>8, <2>1 DEF CreateThread, Goto
<1>9. CASE UNCHANGED <<threadVars, mutex>>
  BY <1>9 DEF threadVars
<1>10. (JoinThread \/ FreeArgs \/ DestroyMutex \/ DumpBuff \/ DestroyServer
        \/ Terminated \/ UNCHANGED vars) => UNCHANGED <<threadVars, mutex>>
  BY DEF JoinThread, FreeArgs, DestroyMutex, DumpBuff, DestroyServer, Teardown,
         Terminated, vars
<1>. QED
  BY <1>1, <1>2, <1>3, <1>4, <1>5, <1>6, <1>7, <1>8, <1>9, <1>10
     DEF Next, Main, Thread

(* The steps that leave every j alone leave the finished messages alone; an   *)
(* unlock finishes one more.                                                  *)
LEMMA FinishedStep ==
    ASSUME ThreadInv
    PROVE  /\ j' = j => Finished' = Finished
           /\ \A t \in Threads :
                Unlock(t) => Cardinality(Finished') = Cardinality(Finished) + 1
<1>1. ASSUME j' = j PROVE Finished' = Finished
  BY <1>1 DEF Finished
<1>2. ASSUME NEW t \in Threads, Unlock(t)
      PROVE  Cardinality(Finished') = Cardinality(Finished) + 1
  <2>1. j[t] \in 0 .. (Tries - 1) /\ j' = [j EXCEPT ![t] = @ + 1]
    BY <1>2, PositiveConstants DEF Unlock, ThreadInv, ThreadTypes, Owner, InCriticalSection
  <2>2. <<t, j[t]>> \in Slots /\ <<t, j[t]>> \notin Finished
    BY <2>1 DEF Slots, Finished
  <2>3. Finished' = Finished \cup {<<t, j[t]>>}
    <3>1. ASSUME NEW u \in Threads, NEW k \in 0 .. (Tries - 1)
          PROVE  k < j'[u] <=> k < j[u] \/ (u = t /\ k = j[t])
      BY <2>1 DEF ThreadInv, ThreadTypes
    <3>2. \A m \in Slots : m[1] \in Threads /\ m[2] \in 0 .. (Tries - 1) /\ m = <<m[1], m[2]>>
      BY DEF Slots
    <3>. QED  BY <2>2, <3>1, <3>2 DEF Finished
  <2>4. IsFiniteSet(Finished)
    BY FinishedBound DEF ThreadInv
  <2>. QED  BY <2>2, <2>3, <2>4, FS_AddElement
<1>. QED  BY <1>1, <1>2

(* The test in write_to_server never fails: a thread that reaches it has room. *)
LEMMA RoomForByte ==
    ASSUME ThreadInv, LenInv, NEW t \in Threads, pc[t] = "check"
    PROVE  len < Cap /\ len \in Nat
<1>. DEFINE F == Cardinality(Finished)
<1>1. F \in Nat /\ F < NThreads * Tries /\ NThreads * Tries \in Nat
  BY FinishedBound, PositiveConstants DEF ThreadInv, Owner, InCriticalSection
<1>2. Partial = i[t] /\ i[t] < MsgLen /\ i[t] \in Nat
  BY NoThreadIsNone, PositiveConstants
     DEF ThreadInv, ThreadTypes, Owner, InCriticalSection, Partial
<1>3. len = MsgLen * F + i[t]
  BY <1>2 DEF LenInv
<1>4. MsgLen * (F + 1) <= MsgLen * (NThreads * Tries)
  BY <1>1, Monotonic, PositiveConstants
<1>5. MsgLen * (F + 1) = MsgLen * F + MsgLen /\ MsgLen * (NThreads * Tries) = Cap
  BY <1>1, PositiveConstants DEF Cap
<1>. HIDE DEF F
<1>. QED  BY <1>1, <1>2, <1>3, <1>4, <1>5, PositiveConstants

(* A thread past its lock is the only one, and the message being written is its *)
(* own.                                                                         *)
LEMMA Holder ==
    ASSUME ThreadInv, NEW t \in Threads, InCriticalSection(t)
    PROVE  /\ mutex = t /\ Partial = i[t] /\ i[t] \in 0 .. MsgLen
           /\ \A u \in Threads : InCriticalSection(u) => u = t
BY NoThreadIsNone DEF ThreadInv, ThreadTypes, Owner, Partial

(* Steps that touch neither the server, nor the counters j, nor the mutex. *)
Elsewhere ==
    \/ JoinThread \/ FreeArgs \/ DestroyMutex \/ DumpBuff \/ DestroyServer
    \/ Terminated \/ UNCHANGED vars
    \/ (CreateThread /\ mi \in Threads /\ pc[mi] = "absent")
    \/ \E t \in Threads : Return(t)

(* What happens outside of the critical section leaves the server as it is. *)
LEMMA ElsewhereStep ==
    ASSUME ThreadInv, Elsewhere
    PROVE  /\ UNCHANGED <<i, j, tmp, mutex, buf, len>>
           /\ \A u \in Threads : InCriticalSection(u)' => pc'[u] = pc[u]
<1>1. UNCHANGED <<i, j, tmp, mutex, buf, len>>
  BY DEF Elsewhere, JoinThread, FreeArgs, DestroyMutex, DumpBuff, DestroyServer, Teardown,
         Terminated, vars, threadVars, serverVars, CreateThread, Return
<1>2. CASE UNCHANGED pc
  BY <1>1, <1>2
<1>3. ASSUME NEW t \in Threads, \/ pc' = [pc EXCEPT ![t] = "lock"]
                                \/ pc' = [pc EXCEPT ![t] = "done"]
      PROVE  \A u \in Threads : InCriticalSection(u)' => pc'[u] = pc[u]
  BY <1>3 DEF InCriticalSection, ThreadInv, ThreadTypes
<1>. QED
  BY <1>1, <1>2, <1>3
     DEF Elsewhere, JoinThread, FreeArgs, DestroyMutex, DumpBuff, DestroyServer, Teardown,
         Terminated, vars, threadVars, CreateThread, Return, Goto

(* Every step is one of the threads' in its critical section, or Elsewhere. *)
LEMMA NextCases ==
    ASSUME MainInv, [Next]_vars
    PROVE  \/ Elsewhere
           \/ \E t \in Threads : Lock(t) \/ CheckRoom(t) \/ Store(t) \/ LoadLen(t)
                               \/ StoreLen(t) \/ Unlock(t)
<1>1. CreateThread => mi \in Threads /\ pc[mi] = "absent"
  BY PositiveConstants DEF CreateThread, MainInv, Threads
<1>. QED  BY <1>1 DEF Next, Main, Thread, Elsewhere

(* len goes up by one with each byte that is stored in a critical section. *)
LEMMA LenInvStep ==
    ASSUME ThreadInv, ThreadInv', LenInv, MainInv, [Next]_vars
    PROVE  LenInv'
<1>. USE PositiveConstants, NoThreadIsNone
<1>0. Cap \in Nat /\ Cardinality(Finished) \in Nat
  BY FinishedBound DEF Cap, ThreadInv
<1>1. CASE Elsewhere
  <2>1. Finished' = Finished /\ Partial' = Partial
    BY <1>1, ElsewhereStep, FinishedStep DEF Partial
  <2>. QED  BY <1>1, <2>1, ElsewhereStep DEF LenInv, InCriticalSection
<1>2. ASSUME NEW t \in Threads, Lock(t) PROVE LenInv'
  <2>1. Finished' = Finished /\ UNCHANGED <<tmp, buf, len>>
    BY <1>2, FinishedStep DEF Lock, serverVars
  <2>2. Partial = 0 /\ Partial' = 0
    BY <1>2 DEF Lock, MutexFree, Partial, ThreadInv, ThreadTypes, Owner, InCriticalSection
  <2>. QED  BY <1>2, <2>1, <2>2 DEF Lock, Goto, LenInv, ThreadInv, ThreadTypes
<1>3. ASSUME NEW t \in Threads, CheckRoom(t) PROVE LenInv'
  <2>1. pc[t] = "check" /\ InCriticalSection(t) /\ UNCHANGED <<j, tmp, mutex, buf, len>>
    BY <1>3 DEF CheckRoom, InCriticalSection, serverVars
  <2>2. len < Cap /\ len \in Nat
    BY <2>1, RoomForByte
  <2>3. pc' = [pc EXCEPT ![t] = "store"] /\ UNCHANGED i
    BY <1>0, <1>3, <2>2 DEF CheckRoom, HasRoom, Goto
  <2>4. Finished' = Finished /\ Partial' = Partial
    BY <2>1, <2>3, FinishedStep DEF Partial
  <2>. QED  BY <2>1, <2>2, <2>3, <2>4 DEF LenInv, ThreadInv, ThreadTypes
<1>4. ASSUME NEW t \in Threads, Store(t) PROVE LenInv'
  <2>1. /\ InCriticalSection(t) /\ UNCHANGED <<i, j, tmp, mutex, len>>
        /\ buf' = [buf EXCEPT ![len] = t] /\ pc' = [pc EXCEPT ![t] = "load"]
    BY <1>4 DEF Store, InCriticalSection, Goto
  <2>2. Finished' = Finished /\ Partial' = Partial
    BY <2>1, FinishedStep DEF Partial
  <2>3. len \in Nat /\ len < Cap
    <3>1. Partial \in Nat
      BY <2>1, Holder
    <3>2. MsgLen * Cardinality(Finished) \in Nat
      BY <1>0
    <3>. QED  BY <1>4, <3>1, <3>2 DEF LenInv, Store
  <2>. QED  BY <1>0, <1>4, <2>1, <2>2, <2>3, Holder
               DEF LenInv, ThreadInv, ThreadTypes, InCriticalSection
<1>5. ASSUME NEW t \in Threads, LoadLen(t) PROVE LenInv'
  <2>1. /\ InCriticalSection(t) /\ UNCHANGED <<i, j, mutex, buf, len>>
        /\ tmp' = [tmp EXCEPT ![t] = len] /\ pc' = [pc EXCEPT ![t] = "inc"]
    BY <1>5 DEF LoadLen, InCriticalSection, Goto, serverVars
  <2>2. Finished' = Finished /\ Partial' = Partial
    BY <2>1, FinishedStep DEF Partial
  <2>3. len \in 0 .. Cap
    <3>1. Partial \in Nat
      BY <2>1, Holder
    <3>2. MsgLen * Cardinality(Finished) \in Nat
      BY <1>0
    <3>. QED  BY <1>0, <1>5, <3>1, <3>2 DEF LenInv, LoadLen
  <2>. QED  BY <1>5, <2>1, <2>2, <2>3 DEF LenInv, LoadLen, ThreadInv, ThreadTypes
<1>6. ASSUME NEW t \in Threads, StoreLen(t) PROVE LenInv'
  <2>1. /\ InCriticalSection(t) /\ UNCHANGED <<j, tmp, mutex, buf>>
        /\ len' = len + 1 /\ i' = [i EXCEPT ![t] = @ + 1]
        /\ \/ pc' = [pc EXCEPT ![t] = "check"]
           \/ pc' = [pc EXCEPT ![t] = "unlock"]
    BY <1>6 DEF StoreLen, InCriticalSection, Goto, NextByte, LenInv
  <2>2. Finished' = Finished
    BY <2>1, FinishedStep
  <2>3. Partial' = Partial + 1 /\ Partial \in Nat
    BY <2>1, Holder DEF Partial, ThreadInv, ThreadTypes
  <2>4. MsgLen * Cardinality(Finished) \in Nat
    BY <1>0
  <2>5. \A u \in Threads : pc'[u] \notin {"store", "load", "inc"}
    BY <2>1, Holder DEF ThreadInv, ThreadTypes, InCriticalSection
  <2>6. len' = MsgLen * Cardinality(Finished') + Partial'
    BY <2>1, <2>2, <2>3, <2>4 DEF LenInv
  <2>. QED  BY <2>1, <2>5, <2>6 DEF LenInv
<1>7. ASSUME NEW t \in Threads, Unlock(t) PROVE LenInv'
  <2>1. InCriticalSection(t) /\ mutex' = NoThread /\ UNCHANGED <<tmp, buf, len>>
        /\ i[t] = MsgLen /\ pc' = [pc EXCEPT ![t] = "lock"]
    BY <1>7 DEF Unlock, Released, InCriticalSection, Goto, serverVars, ThreadInv, Owner
  <2>2. Cardinality(Finished') = Cardinality(Finished) + 1
    BY <1>7, FinishedStep
  <2>3. Partial = MsgLen /\ Partial' = 0
    BY <2>1, Holder DEF Partial
  <2>4. MsgLen * (Cardinality(Finished) + 1) = MsgLen * Cardinality(Finished) + MsgLen
    BY <1>0
  <2>5. len' = MsgLen * Cardinality(Finished') + Partial'
    BY <1>0, <2>1, <2>2, <2>3, <2>4 DEF LenInv
  <2>. QED  BY <2>1, <2>5 DEF LenInv, ThreadInv, ThreadTypes
<1>. QED  BY <1>1, <1>2, <1>3, <1>4, <1>5, <1>6, <1>7, NextCases

(* What a step does to the server, as seen from the counters: nothing, or it    *)
(* stores the holder's byte, or counts it, or closes the holder's message.      *)
Quiet == /\ UNCHANGED <<buf, len, i, j>> /\ Partial' = Partial
         /\ mutex' = mutex \/ Partial = 0
StoresByte(t) == /\ mutex = t /\ Partial' = Partial /\ len < Cap
                 /\ buf' = [buf EXCEPT ![len] = t]
                 /\ UNCHANGED <<len, i, j, mutex>>
CountsByte(t) == /\ mutex = t /\ Partial' = Partial + 1 /\ len < Cap
                 /\ buf[len] = t /\ i[t] < MsgLen /\ Partial = i[t]
                 /\ len' = len + 1 /\ i' = [i EXCEPT ![t] = @ + 1]
                 /\ UNCHANGED <<buf, j, mutex>>
ClosesMessage(t) == /\ mutex = t /\ Partial = MsgLen /\ Partial' = 0
                    /\ i[t] = MsgLen /\ j[t] < Tries
                    /\ i' = [i EXCEPT ![t] = 0] /\ j' = [j EXCEPT ![t] = @ + 1]
                    /\ Cardinality(Finished') = Cardinality(Finished) + 1
                    /\ UNCHANGED <<buf, len>>

(* A step is one of four for the server: nothing, a byte, its count or the unlock. *)
LEMMA ServerSteps ==
    ASSUME ThreadInv, LenInv, MainInv, [Next]_vars
    PROVE  \/ Quiet
           \/ \E t \in Threads : StoresByte(t) \/ CountsByte(t) \/ ClosesMessage(t)
<1>. USE PositiveConstants, NoThreadIsNone
<1>1. CASE Elsewhere
  BY <1>1, ElsewhereStep DEF Quiet, Partial
<1>2. ASSUME NEW t \in Threads, Lock(t) PROVE Quiet
  BY <1>2 DEF Lock, MutexFree, Quiet, Partial, serverVars, ThreadInv, ThreadTypes, Owner,
              InCriticalSection
<1>3. ASSUME NEW t \in Threads, CheckRoom(t) PROVE Quiet
  <2>1. len < Cap /\ len \in Nat /\ Cap \in Nat
    BY <1>3, RoomForByte DEF CheckRoom, Cap
  <2>. QED  BY <1>3, <2>1 DEF CheckRoom, HasRoom, Quiet, Partial, serverVars
<1>4. ASSUME NEW t \in Threads, Store(t) PROVE StoresByte(t)
  BY <1>4, Holder DEF Store, StoresByte, InCriticalSection, LenInv, Partial
<1>5. ASSUME NEW t \in Threads, LoadLen(t) PROVE Quiet
  BY <1>5 DEF LoadLen, Quiet, Partial, serverVars
<1>6. ASSUME NEW t \in Threads, StoreLen(t) PROVE CountsByte(t)
  <2>1. mutex = t /\ Partial = i[t] /\ i[t] < MsgLen
    BY <1>6, Holder DEF StoreLen, InCriticalSection, ThreadInv, Owner
  <2>2. len' = len + 1 /\ len < Cap /\ buf[len] = t
    BY <1>6 DEF StoreLen, LenInv
  <2>3. i' = [i EXCEPT ![t] = @ + 1] /\ UNCHANGED <<buf, j, mutex>>
    BY <1>6 DEF StoreLen, NextByte
  <2>4. Partial' = Partial + 1
    BY <2>1, <2>3 DEF Partial, ThreadInv, ThreadTypes
  <2>. QED  BY <2>1, <2>2, <2>3, <2>4 DEF CountsByte
<1>7. ASSUME NEW t \in Threads, Unlock(t) PROVE ClosesMessage(t)
  BY <1>7, Holder, FinishedStep
     DEF Unlock, Released, ClosesMessage, InCriticalSection, Partial, serverVars,
         ThreadInv, Owner
<1>. QED  BY <1>1, <1>2, <1>3, <1>4, <1>5, <1>6, <1>7, NextCases

(* A byte is only stored where none was. *)
LEMMA NoByteLostStep ==
    ASSUME ThreadInv, LenInv, MainInv, NoByteLost, [Next]_vars
    PROVE  NoByteLost'
<1>. USE PositiveConstants
<1>0. Cap \in Nat /\ len \in Nat
  <2>1. Cardinality(Finished) \in Nat /\ Partial \in Nat
    BY FinishedBound, NoThreadIsNone DEF ThreadInv, ThreadTypes, Partial
  <2>2. MsgLen * Cardinality(Finished) \in Nat /\ Cap \in Nat
    BY <2>1 DEF Cap
  <2>. QED  BY <2>1, <2>2 DEF LenInv
<1>1. CASE Quiet
  BY <1>1 DEF Quiet, NoByteLost, BytesOf
<1>2. ASSUME NEW t \in Threads, StoresByte(t) PROVE NoByteLost'
  <2>1. \A u \in Threads : BytesOf(u)' = BytesOf(u)
    BY <1>0, <1>2 DEF StoresByte, BytesOf, LenInv
  <2>. QED  BY <1>2, <2>1 DEF StoresByte, NoByteLost
<1>3. ASSUME NEW t \in Threads, CountsByte(t) PROVE NoByteLost'
  <2>1. \A u \in Threads : IsFiniteSet(BytesOf(u))
    <3>1. \A u \in Threads : BytesOf(u) \in SUBSET (0 .. (Cap - 1))
      BY DEF BytesOf
    <3>2. IsFiniteSet(0 .. (Cap - 1))
      BY <1>0, FS_Interval
    <3>. QED  BY <3>1, <3>2, FS_Subset
  <2>2. BytesOf(t)' = BytesOf(t) \cup {len} /\ len \notin BytesOf(t)
    BY <1>0, <1>3 DEF CountsByte, BytesOf
  <2>3. Cardinality(BytesOf(t)') = Cardinality(BytesOf(t)) + 1
    BY <2>1, <2>2, FS_AddElement
  <2>4. ASSUME NEW u \in Threads, u # t
        PROVE  BytesOf(u)' = BytesOf(u) /\ i'[u] = i[u]
    BY <1>0, <1>3, <2>4 DEF CountsByte, BytesOf, ThreadInv, ThreadTypes
  <2>5. i'[t] = i[t] + 1 /\ j' = j /\ j[t] \in Nat /\ i[t] \in Nat
    BY <1>3 DEF CountsByte, ThreadInv, ThreadTypes
  <2>6. j[t] * MsgLen + (i[t] + 1) = (j[t] * MsgLen + i[t]) + 1
    BY <2>5
  <2>. QED  BY <2>3, <2>4, <2>5, <2>6 DEF NoByteLost
<1>4. ASSUME NEW t \in Threads, ClosesMessage(t) PROVE NoByteLost'
  <2>1. \A u \in Threads : BytesOf(u)' = BytesOf(u)
    BY <1>4 DEF ClosesMessage, BytesOf
  <2>2. j'[t] = j[t] + 1 /\ i'[t] = 0 /\ i[t] = MsgLen /\ j[t] \in Nat
    BY <1>4 DEF ClosesMessage, ThreadInv, ThreadTypes
  <2>3. (j[t] + 1) * MsgLen + 0 = j[t] * MsgLen + MsgLen
    BY <2>2
  <2>4. \A u \in Threads : u # t => j'[u] = j[u] /\ i'[u] = i[u]
    BY <1>4 DEF ClosesMessage, ThreadInv, ThreadTypes
  <2>. QED  BY <2>1, <2>2, <2>3, <2>4 DEF NoByteLost
<1>. QED  BY <1>1, <1>2, <1>3, <1>4, ServerSteps

(* The bytes of a message stand beside each other. *)
LEMMA BlockInvStep ==
    ASSUME ThreadInv, LenInv, BlockInv, MainInv, [Next]_vars
    PROVE  BlockInv'
<1>. USE PositiveConstants
<1>. DEFINE F == Cardinality(Finished)
            Blocks == 0 .. (NThreads * Tries - 1)
            Offsets == 0 .. (MsgLen - 1)
<1>0. /\ Cap \in Nat /\ len \in Nat /\ F \in Nat /\ Partial \in 0 .. MsgLen
      /\ MsgLen * F \in Nat /\ len = MsgLen * F + Partial
  <2>1. F \in Nat /\ Partial \in 0 .. MsgLen
    BY FinishedBound, NoThreadIsNone DEF ThreadInv, ThreadTypes, Partial
  <2>2. MsgLen * F \in Nat /\ Cap \in Nat
    BY <2>1 DEF Cap
  <2>. QED  BY <2>1, <2>2 DEF LenInv
<1>1. CASE Quiet
  <2>1. F' = F
    BY <1>1, FinishedStep DEF Quiet
  <2>. QED  BY <1>0, <1>1, <2>1 DEF Quiet, BlockInv, BlocksWhole
<1>2. ASSUME NEW t \in Threads, StoresByte(t) PROVE BlockInv'
  <2>1. F' = F
    BY <1>2, FinishedStep DEF StoresByte
  <2>2. \A x \in Nat : x < len => buf'[x] = buf[x]
    BY <1>0, <1>2 DEF StoresByte, LenInv
  <2>3. ASSUME NEW b \in Blocks, NEW o \in Offsets, b * MsgLen + o < len
        PROVE  buf'[b * MsgLen + o] = buf'[b * MsgLen]
    <3>1. b \in Nat /\ o \in Nat
      OBVIOUS
    <3>2. b * MsgLen \in Nat
      BY <3>1
    <3>3. b * MsgLen + o \in Nat /\ b * MsgLen < len
      BY <1>0, <2>3, <3>1, <3>2
    <3>. QED  BY <2>2, <2>3, <3>2, <3>3 DEF BlockInv, BlocksWhole
  <2>4. ASSUME NEW o \in 0 .. (Partial - 1) PROVE buf'[MsgLen * F + o] = mutex
    <3>1. MsgLen * F + o \in Nat /\ MsgLen * F + o < len
      BY <1>0
    <3>. QED  BY <2>2, <3>1 DEF BlockInv
  <2>. QED  BY <1>2, <2>1, <2>3, <2>4 DEF StoresByte, BlockInv, BlocksWhole
<1>3. ASSUME NEW t \in Threads, CountsByte(t) PROVE BlockInv'
  <2>1. F' = F /\ buf' = buf /\ mutex' = mutex /\ mutex = t /\ Partial < MsgLen
    BY <1>3, FinishedStep DEF CountsByte
  <2>2. ASSUME NEW o \in 0 .. Partial PROVE buf[MsgLen * F + o] = t
    BY <1>0, <1>3, <2>1 DEF CountsByte, BlockInv
  <2>3. ASSUME NEW b \in Blocks, NEW o \in Offsets, b * MsgLen + o < len + 1
        PROVE  buf[b * MsgLen + o] = buf[b * MsgLen]
    <3>1. b \in Nat /\ b * MsgLen \in Nat
      OBVIOUS
    <3>2. CASE b * MsgLen + o < len
      BY <3>2 DEF BlockInv, BlocksWhole
    <3>3. CASE b * MsgLen + o = len
      <4>1. b * MsgLen + o = F * MsgLen + Partial /\ Partial \in Offsets
        BY <1>0, <2>1, <3>3
      <4>2. b = F /\ o = Partial
        BY <1>0, <3>1, <4>1, OneBlock
      <4>3. b * MsgLen = MsgLen * F + 0 /\ 0 \in 0 .. Partial
        BY <1>0, <4>2
      <4>. QED  BY <1>0, <2>2, <3>3, <4>3, <1>3 DEF CountsByte
    <3>. QED  BY <1>0, <2>3, <3>1, <3>2, <3>3
  <2>4. len' = len + 1 /\ Partial' = Partial + 1
    BY <1>3 DEF CountsByte
  <2>5. BlocksWhole'
    BY <2>1, <2>3, <2>4 DEF BlocksWhole
  <2>6. \A o \in 0 .. (Partial' - 1) : buf'[MsgLen * F' + o] = mutex'
    BY <1>0, <2>1, <2>2, <2>4
  <2>. QED  BY <2>5, <2>6 DEF BlockInv
<1>4. ASSUME NEW t \in Threads, ClosesMessage(t) PROVE BlockInv'
  BY <1>4 DEF ClosesMessage, BlockInv, BlocksWhole
<1>. QED  BY <1>1, <1>2, <1>3, <1>4, ServerSteps

(* main is where the threads that it created and joined say. *)
LEMMA MainInvStep ==
    ASSUME ThreadInv, MainInv, [Next]_vars
    PROVE  MainInv'
<1>. USE PositiveConstants DEF MainInv
<1>1. ASSUME NEW t \in Threads, Thread(t) PROVE MainInv'
  <2>1. UNCHANGED mainVars /\ pc[t] \notin {"absent", "done"}
        /\ \E l \in Labels \ {"absent"} : pc' = [pc EXCEPT ![t] = l]
    BY <1>1 DEF Thread, Lock, CheckRoom, Store, LoadLen, StoreLen, Unlock, Return,
                NextByte, Goto, Labels
  <2>. QED  BY <2>1 DEF mainVars, ThreadInv, ThreadTypes, Threads
<1>2. CASE CreateThread
  <2>1. mainPc = "create" /\ mi \in Threads /\ alive' = alive
        /\ pc' = [pc EXCEPT ![mi] = "lock"]
    BY <1>2 DEF CreateThread, Goto, Threads
  <2>2. CASE mi + 1 < NThreads
    <3>1. mi' = mi + 1 /\ mainPc' = "create"
      BY <1>2, <2>1, <2>2 DEF CreateThread
    <3>2. \A t \in Threads : t >= mi + 1 <=> pc'[t] = "absent"
      BY <2>1 DEF ThreadInv, ThreadTypes, Threads
    <3>. QED  BY <2>1, <2>2, <3>1, <3>2
  <2>3. CASE ~(mi + 1 < NThreads)
    <3>1. mi' = 0 /\ mainPc' = "join"
      BY <1>2, <2>3 DEF CreateThread
    <3>2. \A t \in Threads : pc'[t] # "absent"
      BY <2>1, <2>3 DEF ThreadInv, ThreadTypes, Threads
    <3>. QED  BY <2>1, <3>1, <3>2 DEF Threads
  <2>. QED  BY <2>2, <2>3
<1>3. CASE JoinThread
  BY <1>3 DEF JoinThread, JoinReturns, threadVars, ThreadInv, ThreadTypes, Threads
<1>4. CASE FreeArgs \/ DestroyMutex \/ DumpBuff \/ DestroyServer
  BY <1>4 DEF FreeArgs, DestroyMutex, DumpBuff, DestroyServer, Teardown, threadVars, Resources
<1>5. CASE UNCHANGED vars
  BY <1>5 DEF vars, mainVars, threadVars
<1>. QED  BY <1>1, <1>2, <1>3, <1>4, <1>5 DEF Next, Main, Terminated

-----------------------------------------------------------------------------
(* The theorems *)

(* The inductive invariant: what each step of thread_func and main relies on.   *)
THEOREM IInvHolds == Spec => []IInv
<1>1. IInv /\ [Next]_vars => IInv'
  BY ThreadInvStep, LenInvStep, BlockInvStep, NoByteLostStep, MainInvStep DEF IInv
<1>. QED  BY <1>1, InitInv, PTL DEF Spec

(* Once every thread has returned, the buffer is exactly full. *)
LEMMA FullAtTheEnd ==
    ASSUME IInv, mainPc = "dump"
    PROVE  len = Cap
<1>. USE PositiveConstants, NoThreadIsNone
<1>1. \A t \in Threads : pc[t] = "done"
  BY DEF IInv, MainInv
<1>2. mutex = NoThread /\ \A t \in Threads : j[t] = Tries
  BY <1>1 DEF IInv, ThreadInv, ThreadTypes, Owner, InCriticalSection
<1>3. Finished = Slots
  BY <1>2 DEF Finished, Slots
<1>4. len = MsgLen * (NThreads * Tries) + 0
  BY <1>2, <1>3, SlotsFinite DEF IInv, LenInv, Partial
<1>. QED  BY <1>4 DEF Cap

(* The invariant has what TypeOK says. *)
LEMMA InvImpliesTypes == ASSUME IInv PROVE TypeOK
<1>1. Cardinality(Finished) \in Nat /\ Cardinality(Finished) <= NThreads * Tries
      /\ Cap \in Nat /\ NThreads * Tries \in Nat
  BY FinishedBound, PositiveConstants DEF IInv, ThreadInv, Cap
<1>2. CASE mutex = NoThread
  <2>1. MsgLen * Cardinality(Finished) <= MsgLen * (NThreads * Tries)
    BY <1>1, Monotonic, PositiveConstants
  <2>2. MsgLen * (NThreads * Tries) = Cap /\ MsgLen * Cardinality(Finished) \in Nat
    BY <1>1, PositiveConstants DEF Cap
  <2>3. len = MsgLen * Cardinality(Finished)
    BY <1>2, <2>2 DEF IInv, LenInv, Partial
  <2>. QED  BY <1>1, <2>1, <2>2, <2>3
            DEF IInv, ThreadInv, ThreadTypes, LenInv, MainInv, TypeOK, Labels
<1>3. CASE mutex \in Threads
  <2>1. Cardinality(Finished) + 1 <= NThreads * Tries /\ Partial \in 0 .. MsgLen
    BY <1>1, <1>3, FinishedBound, NoThreadIsNone
       DEF IInv, ThreadInv, ThreadTypes, Owner, Partial
  <2>2. MsgLen * (Cardinality(Finished) + 1) <= MsgLen * (NThreads * Tries)
    BY <1>1, <2>1, Monotonic, PositiveConstants
  <2>3. /\ MsgLen * (NThreads * Tries) = Cap /\ MsgLen * Cardinality(Finished) \in Nat
        /\ MsgLen * (Cardinality(Finished) + 1) = MsgLen * Cardinality(Finished) + MsgLen
    BY <1>1, PositiveConstants DEF Cap
  <2>4. len = MsgLen * Cardinality(Finished) + Partial
    BY <1>1 DEF IInv, LenInv
  <2>5. len \in 0 .. Cap
    BY <1>1, <2>1, <2>2, <2>3, <2>4, PositiveConstants
  <2>. QED  BY <2>5
            DEF IInv, ThreadInv, ThreadTypes, LenInv, MainInv, TypeOK, Labels
<1>. QED  BY <1>2, <1>3 DEF IInv, ThreadInv, ThreadTypes

(* The variables keep their types: in particular srv->len stays within the      *)
(* buffer although nothing but the count of the messages bounds it.             *)
THEOREM TypeCorrect == Spec => []TypeOK
BY InvImpliesTypes, IInvHolds, PTL

(* Mutual exclusion: at most one thread is between its lock and its unlock.     *)
THEOREM MutualExclusion ==
    Spec => [](\A t, u \in Threads :
                 InCriticalSection(t) /\ InCriticalSection(u) => t = u)
<1>1. ASSUME IInv PROVE \A t, u \in Threads :
                 InCriticalSection(t) /\ InCriticalSection(u) => t = u
  BY <1>1, Holder DEF IInv
<1>. QED  BY <1>1, IInvHolds, PTL

(* The result of write_to_server, which l.58 ignores, is never -1. *)
THEOREM EveryByteAccepted ==
    Spec => [](\A t \in Threads : pc[t] = "check" => HasRoom)
<1>1. ASSUME IInv PROVE \A t \in Threads : pc[t] = "check" => HasRoom
  <2>1. Cap \in Nat
    BY PositiveConstants DEF Cap
  <2>. QED  BY <1>1, <2>1, RoomForByte DEF IInv, HasRoom
<1>. QED  BY <1>1, IInvHolds, PTL

(* Every byte written is in the buffer, once. *)
THEOREM NoByteLostHolds == Spec => []NoByteLost
BY IInvHolds, PTL DEF IInv

(* Messages are never torn apart by another thread's bytes. *)
THEOREM BlocksWholeHolds == Spec => []BlocksWhole
BY IInvHolds, PTL DEF IInv, BlockInv

(* main frees nothing a thread can still reach, and dumps a complete buffer. *)
THEOREM NoUseAfterFreeHolds == Spec => []NoUseAfterFree
<1>1. ASSUME IInv PROVE NoUseAfterFree
  BY <1>1, FullAtTheEnd DEF IInv, MainInv, NoUseAfterFree, Resources
<1>. QED  BY <1>1, IInvHolds, PTL
-----------------------------------------------------------------------------
(* The buffer implements MessageLog: every step appends one whole message of    *)
(* its author's to the log, or leaves the log alone.                            *)

(* What Log's `log' stands for, its length, and how much is past it. *)
TheLog == [b \in 1 .. (len \div MsgLen) |-> buf[(b - 1) * MsgLen]]
Entries == len \div MsgLen
Authors == Threads \cup {NoThread}

(* A thread has as many messages in the log as it has finished, and one more    *)
(* between its last byte and its unlock.                                        *)
MessagesCounted ==
    \A t \in Threads : Log!MessagesOf(t) = IF i[t] = MsgLen THEN j[t] + 1 ELSE j[t]

(* The quotient of a multiple and a remainder. *)
LEMMA Quotient ==
    ASSUME NEW m \in Nat \ {0}, NEW q \in Nat, NEW r \in 0 .. (m - 1)
    PROVE  (m * q + r) \div m = q
BY SMTT(30)

LogShape ==
    /\ len \in 0 .. Cap /\ Cap \in Nat
    /\ Partial \in 0 .. MsgLen /\ Cardinality(Finished) \in Nat
    /\ Entries = Cardinality(Finished) + (IF Partial = MsgLen THEN 1 ELSE 0)
    /\ \A b \in 1 .. Entries : (b - 1) * MsgLen \in 0 .. (len - 1)
    /\ TheLog \in Seq(Authors) /\ Len(TheLog) = Entries

(* The blocks of the buffer are a sequence of authors. *)
LEMMA LogHasShape == IInv => LogShape
<1>. SUFFICES ASSUME IInv PROVE LogShape
  OBVIOUS
<1>. USE PositiveConstants
<1>. DEFINE F == Cardinality(Finished)
<1>1. F \in Nat /\ Partial \in 0 .. MsgLen /\ Cap \in Nat
  BY FinishedBound, NoThreadIsNone DEF IInv, ThreadInv, ThreadTypes, Partial, Cap
<1>2. len \in 0 .. Cap
  BY InvImpliesTypes DEF TypeOK
<1>3. len = MsgLen * F + Partial
  BY DEF IInv, LenInv
<1>. HIDE DEF F
<1>4. Entries = F + (IF Partial = MsgLen THEN 1 ELSE 0)
  <2>1. CASE Partial = MsgLen
    <3>1. len = MsgLen * (F + 1) + 0
      BY <1>1, <1>3, <2>1
    <3>. QED  BY <1>1, <2>1, <3>1, Quotient DEF Entries
  <2>2. CASE Partial # MsgLen
    <3>1. Partial \in 0 .. (MsgLen - 1)
      BY <1>1, <2>2
    <3>. QED  BY <1>1, <1>3, <2>2, <3>1, Quotient DEF Entries
  <2>. QED  BY <2>1, <2>2
<1>5. ASSUME NEW b \in 1 .. Entries PROVE (b - 1) * MsgLen \in 0 .. (len - 1)
  <2>1. b \in Nat /\ b - 1 \in Nat /\ b <= Entries /\ Entries \in Nat
    BY <1>1, <1>4
  <2>2. MsgLen * b <= MsgLen * Entries
    BY <2>1, Monotonic
  <2>3. MsgLen * Entries <= len
    <3>1. MsgLen * (F + 1) = MsgLen * F + MsgLen /\ MsgLen * F \in Nat
      BY <1>1
    <3>. QED  BY <1>1, <1>3, <1>4, <3>1
  <2>4. (b - 1) * MsgLen = MsgLen * b - MsgLen /\ (b - 1) * MsgLen \in Nat /\ MsgLen * b \in Nat
    BY <2>1
  <2>5. MsgLen * Entries \in Nat
    BY <2>1
  <2>. QED  BY <1>2, <2>2, <2>3, <2>4, <2>5
<1>6. TheLog \in Seq(Authors) /\ Len(TheLog) = Entries
  <2>1. \A b \in 1 .. Entries : buf[(b - 1) * MsgLen] \in Authors
    BY <1>1, <1>2, <1>5 DEF IInv, LenInv, Authors
  <2>2. Entries \in Nat
    BY <1>1, <1>4
  <2>. QED  BY <2>1, <2>2 DEF TheLog, Entries
<1>. QED  BY <1>1, <1>2, <1>4, <1>5, <1>6 DEF F, LogShape

(* What a step does to the log: the holder's last byte appends its message.     *)
AppendsMessage(t) ==
    /\ TheLog' = Append(TheLog, t)
    /\ i[t] < MsgLen /\ i' = [i EXCEPT ![t] = MsgLen]
    /\ j[t] < Tries /\ j' = j

KeepsLog ==
    /\ TheLog' = TheLog
    /\ \A t \in Threads : \/ i'[t] = i[t] /\ j'[t] = j[t]
                          \/ i[t] # MsgLen /\ i'[t] # MsgLen /\ j'[t] = j[t]
                          \/ i[t] = MsgLen /\ i'[t] = 0 /\ j'[t] = j[t] + 1

(* A step adds no message to the log, or one of one thread. *)
LEMMA LogSteps ==
    ASSUME IInv, IInv', [Next]_vars
    PROVE  KeepsLog \/ \E t \in Threads : AppendsMessage(t)
<1>. USE PositiveConstants
<1>. DEFINE F == Cardinality(Finished)
<1>0. LogShape /\ LogShape'
  <2>1. IInv' => LogShape'
    BY LogHasShape, PTL
  <2>. QED  BY <2>1, LogHasShape
<1>1. CASE Quiet
  BY <1>1 DEF Quiet, KeepsLog, TheLog
<1>2. ASSUME NEW t \in Threads, StoresByte(t) PROVE KeepsLog
  <2>1. \A b \in 1 .. Entries : buf'[(b - 1) * MsgLen] = buf[(b - 1) * MsgLen]
    <3>1. \A x \in 0 .. (len - 1) : buf'[x] = buf[x]
      BY <1>0, <1>2 DEF LogShape, StoresByte, IInv, LenInv
    <3>. QED  BY <1>0, <3>1 DEF LogShape
  <2>2. TheLog' = TheLog
    BY <1>2, <2>1 DEF StoresByte, TheLog, Entries
  <2>. QED  BY <1>2, <2>2 DEF StoresByte, KeepsLog
<1>3. ASSUME NEW t \in Threads, CountsByte(t)
      PROVE  KeepsLog \/ AppendsMessage(t)
  <2>1. /\ buf' = buf /\ j' = j /\ F' = F /\ Partial' = Partial + 1
        /\ i' = [i EXCEPT ![t] = @ + 1] /\ i[t] = Partial /\ i[t] < MsgLen
    BY <1>3, FinishedStep DEF CountsByte, IInv
  <2>2. i \in [Threads -> 0 .. MsgLen] /\ Entries = F /\ F \in Nat
    BY <1>0, <2>1 DEF LogShape, IInv, ThreadInv, ThreadTypes
  <2>3. /\ Entries' = F' + (IF Partial' = MsgLen THEN 1 ELSE 0)
        /\ TheLog \in Seq(Authors) /\ Len(TheLog) = Entries
        /\ TheLog' \in Seq(Authors) /\ Len(TheLog') = Entries'
    BY <1>0 DEF LogShape
  <2>4. CASE Partial + 1 = MsgLen
    <3>1. Entries' = F + 1
      BY <2>1, <2>2, <2>3, <2>4
    <3>2. buf[F * MsgLen] = t
      <4>1. CASE Partial = 0
        <5>1. len = MsgLen * F
          BY <2>2, <4>1 DEF IInv, LenInv
        <5>2. len = F * MsgLen
          BY <2>2, <5>1
        <5>. QED  BY <1>3, <5>2 DEF CountsByte
      <4>2. CASE Partial # 0
        <5>1. 0 \in 0 .. (Partial - 1)
          BY <1>0, <4>2 DEF LogShape
        <5>2. buf[MsgLen * F + 0] = mutex
          BY <5>1 DEF IInv, BlockInv
        <5>3. MsgLen * F + 0 = F * MsgLen
          BY <2>2
        <5>. QED  BY <1>3, <5>2, <5>3 DEF CountsByte
      <4>. QED  BY <4>1, <4>2
    <3>3. TheLog' = Append(TheLog, t)
      <4>1. \A b \in 1 .. F : TheLog'[b] = TheLog[b]
        BY <2>1, <2>2, <3>1 DEF TheLog, Entries
      <4>2. TheLog'[F + 1] = t
        BY <2>1, <2>2, <3>1, <3>2 DEF TheLog, Entries
      <4>3. t \in Authors
        BY DEF Authors
      <4>. QED  BY <2>2, <2>3, <3>1, <4>1, <4>2, <4>3
    <3>4. j[t] < Tries
      BY <1>3 DEF CountsByte, IInv, ThreadInv, Owner
    <3>5. i' = [i EXCEPT ![t] = MsgLen]
      BY <2>1, <2>2, <2>4
    <3>. QED  BY <2>1, <3>3, <3>4, <3>5 DEF AppendsMessage
  <2>5. CASE Partial + 1 # MsgLen
    <3>1. TheLog' = TheLog
      BY <2>1, <2>2, <2>3, <2>5 DEF TheLog, Entries
    <3>2. i'[t] # MsgLen /\ \A u \in Threads : u # t => i'[u] = i[u]
      BY <2>1, <2>2, <2>5
    <3>. QED  BY <2>1, <3>1, <3>2 DEF KeepsLog
  <2>. QED  BY <2>4, <2>5
<1>4. ASSUME NEW t \in Threads, ClosesMessage(t) PROVE KeepsLog
  BY <1>4 DEF ClosesMessage, KeepsLog, TheLog, IInv, ThreadInv, ThreadTypes
<1>. QED  BY <1>1, <1>2, <1>3, <1>4, ServerSteps DEF IInv

(* The abstract specification counts as this one does. *)
LEMMA SameCardinality == \A S : Log!Cardinality(S) = Cardinality(S)
BY DEF Log!Cardinality, Cardinality, Log!IsFiniteSet, IsFiniteSet

(* So a step of the server is a step of the log or none, and the counts stay right. *)
LEMMA MessagesCountedStep ==
    ASSUME IInv, IInv', MessagesCounted, [Next]_vars
    PROVE  MessagesCounted' /\ [Log!Next]_TheLog
<1>. USE PositiveConstants
<1>1. \A t \in Threads : /\ Log!MessagesOf(t) = Cardinality({k \in DOMAIN TheLog : TheLog[k] = t})
                         /\ Log!MessagesOf(t)' = Cardinality({k \in DOMAIN TheLog' : TheLog'[k] = t})
  BY SameCardinality DEF Log!MessagesOf, TheLog
<1>2. CASE KeepsLog
  <2>1. \A t \in Threads : Log!MessagesOf(t)' = Log!MessagesOf(t)
    BY <1>1, <1>2 DEF KeepsLog
  <2>. QED  BY <1>2, <2>1 DEF KeepsLog, MessagesCounted
<1>3. ASSUME NEW t \in Threads, AppendsMessage(t)
      PROVE  MessagesCounted' /\ Log!Next
  <2>. DEFINE Of(u) == {k \in DOMAIN TheLog : TheLog[k] = u}
  <2>1. /\ TheLog \in Seq(Authors) /\ TheLog' = Append(TheLog, t) /\ t \in Authors
        /\ Len(TheLog) \in Nat
    BY <1>3, LogHasShape DEF LogShape, AppendsMessage, Authors
  <2>2. \A u \in Threads : IsFiniteSet(Of(u))
    <3>1. IsFiniteSet(DOMAIN TheLog)
      BY <2>1, FS_Interval
    <3>. QED  BY <3>1, FS_Subset
  <2>3. Of(t)' = Of(t) \cup {Len(TheLog) + 1} /\ Len(TheLog) + 1 \notin Of(t)
    BY <2>1
  <2>4. \A u \in Threads : u # t => Of(u)' = Of(u)
    BY <2>1
  <2>5. Cardinality(Of(t)') = Cardinality(Of(t)) + 1
    BY <2>2, <2>3, FS_AddElement
  <2>. HIDE DEF Of
  <2>6. \A u \in Threads : Log!MessagesOf(u) = Cardinality(Of(u))
                        /\ Log!MessagesOf(u)' = Cardinality(Of(u)')
    BY <1>1 DEF Of
  <2>7. /\ i \in [Threads -> 0 .. MsgLen] /\ i' = [i EXCEPT ![t] = MsgLen]
        /\ i[t] < MsgLen /\ j[t] < Tries /\ j' = j
    BY <1>3 DEF AppendsMessage, IInv, ThreadInv, ThreadTypes
  <2>8. Log!MessagesOf(t) = j[t] /\ Log!MessagesOf(t)' = j[t] + 1
    BY <2>5, <2>6, <2>7 DEF MessagesCounted
  <2>9. MessagesCounted'
    BY <2>4, <2>6, <2>7, <2>8 DEF MessagesCounted
  <2>10. Log!Next
    BY <2>1, <2>7, <2>8 DEF Log!Next, Log!AppendMessage, TheLog
  <2>. QED  BY <2>9, <2>10
<1>. QED  BY <1>2, <1>3, LogSteps DEF KeepsLog

(* The refinement, without the fairness of MessageLog: a message is appended    *)
(* whole, in one step, and never more than `tries' by one thread.               *)
THEOREM ImplementsLogSteps == Spec => Log!Init /\ [][Log!Next]_TheLog
<1>1. Init => Log!Init /\ MessagesCounted
  <2>. SUFFICES ASSUME Init PROVE Log!Init /\ MessagesCounted
    OBVIOUS
  <2>. USE PositiveConstants
  <2>1. len \div MsgLen = 0
    BY DEF Init
  <2>2. TheLog = << >>
    BY <2>1 DEF TheLog
  <2>3. \A t \in Threads : Log!MessagesOf(t) = 0
    <3>1. \A t \in Threads : {k \in DOMAIN TheLog : TheLog[k] = t} = {}
      BY <2>2
    <3>. QED  BY <3>1, FS_EmptySet, SameCardinality DEF Log!MessagesOf, TheLog
  <2>. QED  BY <2>2, <2>3 DEF Init, Log!Init, TheLog, MessagesCounted
<1>. QED  BY <1>1, IInvHolds, MessagesCountedStep, PTL DEF Spec
=============================================================================
