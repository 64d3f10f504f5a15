--------------------------- MODULE CondVar_proofs ---------------------------
(***************************************************************************)
(* The reader of CondVar reads a whole message, for every message length,  *)
(* every initial flag byte and every number of spurious wake-ups.          *)
(***************************************************************************)
EXTENDS CondVar, TLAPS

(* The mutex is held by the thread that is past its lock, and by it alone. *)
MutexInv ==
    /\ mutex = "reader" <=> pc.reader \in {"test", "wait", "read", "unlock"}
    /\ mutex = "writer" <=> pc.writer \in {"write", "signal", "unlock"}
    /\ "reader" \in waiting <=> pc.reader = "asleep"

(* The writer has written i bytes, all of msg_len once it is past its loop, and *)
(* the flag is up only then or by accident of the stack.                        *)
FlagInv ==
    /\ len = i
    /\ pc.writer \in {"absent", "lock"} => i = 0
    /\ pc.writer \in {"signal", "unlock", "done"} => i = MsgLen /\ full = 1
    /\ full = 1 => garbage = 1 \/ pc.writer \in {"signal", "unlock", "done"}
    /\ garbage = 1 => full = 1
    /\ pc.reader = "wait" => full # 1
    /\ pc.reader = "read" => full = 1
    /\ pc.reader = "asleep" /\ full = 1 => pc.writer = "signal"

(* main destroys nothing before both threads have returned. *)
MainInv ==
    /\ pc.main = "createReader" => pc.reader = "absent"
    /\ pc.main \in {"createReader", "createWriter"} => pc.writer = "absent"
    /\ pc.main \in {"createReader", "createWriter", "joinReader", "joinWriter", "mutex"}
         => alive = Resources
    /\ pc.main \in {"joinWriter", "mutex", "cv", "server", "done"} => pc.reader = "done"
    /\ pc.main \in {"mutex", "cv", "server", "done"} => pc.writer = "done"

IInv == TypeOK /\ MutexInv /\ FlagInv /\ MainInv

(* The invariant holds initially, and every step preserves it. *)
THEOREM IInvHolds == Spec => []IInv
<1>1. Init => IInv
  BY CondVarConstants
     DEF Init, IInv, TypeOK, MutexInv, FlagInv, MainInv, Threads, Resources
<1>2. ASSUME IInv, [Next]_vars PROVE IInv'
  <2>. USE CondVarConstants
       DEF IInv, TypeOK, MutexInv, FlagInv, MainInv, Threads, Resources, Goto
  <2>1. CASE WriterLock
    BY <1>2, <2>1 DEF WriterLock, Acquire
  <2>2. CASE WriteByte
    BY <1>2, <2>2 DEF WriteByte, WriteToServer, MoreBytes
  <2>3. CASE SetFull
    BY <1>2, <2>3 DEF SetFull, MoreBytes
  <2>4. CASE Signal
    <3>1. CASE Signalled("reader")
      <4>1. /\ pc' \in [main : {pc.main}, reader : {"relock"}, writer : {"unlock"}]
            /\ waiting' = {} /\ UNCHANGED <<mutex, full, garbage, len, i, alive, spurious>>
        BY <1>2, <2>4, <3>1 DEF Signal, Signalled
      <4>. QED  BY <1>2, <2>4, <3>1, <4>1 DEF Signal, Signalled
    <3>2. CASE ~Signalled("reader")
      BY <1>2, <2>4, <3>2 DEF Signal, Signalled
    <3>. QED  BY <3>1, <3>2
  <2>5. CASE WriterUnlock
    BY <1>2, <2>5 DEF WriterUnlock, Release
  <2>6. CASE ReaderLock
    BY <1>2, <2>6 DEF ReaderLock, Acquire
  <2>7. CASE TestFull
    BY <1>2, <2>7 DEF TestFull
  <2>8. CASE Wait
    BY <1>2, <2>8 DEF Wait
  <2>9. CASE ReaderRelock
    BY <1>2, <2>9 DEF ReaderRelock, Acquire, AfterWait
  <2>10. CASE Read
    BY <1>2, <2>10 DEF Read
  <2>11. CASE ReaderUnlock
    BY <1>2, <2>11 DEF ReaderUnlock, Release
  <2>12. CASE Spurious
    BY <1>2, <2>12 DEF Spurious
  <2>13. CASE Main
    <3>1. CASE Create("reader", "createReader", "createWriter")
      <4>1. /\ pc' \in [main : {"createWriter"}, reader : {"lock"}, writer : {pc.writer}]
            /\ UNCHANGED <<mutex, waiting, full, garbage, len, i, alive, spurious>>
        BY <1>2, <3>1 DEF Create
      <4>. QED  BY <1>2, <3>1, <4>1 DEF Create
    <3>2. CASE Create("writer", "createWriter", "joinReader")
      <4>1. /\ pc' \in [main : {"joinReader"}, reader : {pc.reader}, writer : {"lock"}]
            /\ UNCHANGED <<mutex, waiting, full, garbage, len, i, alive, spurious>>
        BY <1>2, <3>2 DEF Create
      <4>. QED  BY <1>2, <3>2, <4>1 DEF Create
    <3>3. CASE Join("reader", "joinReader", "joinWriter")
      BY <1>2, <3>3 DEF Join, Joined
    <3>4. CASE Join("writer", "joinWriter", "mutex")
      BY <1>2, <3>4 DEF Join, Joined
    <3>5. CASE Destroy("mutex", "cv")
      BY <1>2, <3>5 DEF Destroy
    <3>6. CASE Destroy("cv", "server")
      BY <1>2, <3>6 DEF Destroy
    <3>7. CASE Destroy("server", "done")
      BY <1>2, <3>7 DEF Destroy
    <3>. QED  BY <2>13, <3>1, <3>2, <3>3, <3>4, <3>5, <3>6, <3>7 DEF Main
  <2>14. CASE UNCHANGED vars
    BY <1>2, <2>14 DEF vars
  <2>. QED
    BY <1>2, <2>1, <2>2, <2>3, <2>4, <2>5, <2>6, <2>7, <2>8, <2>9, <2>10, <2>11, <2>12,
       <2>13, <2>14 DEF Next, Writer, Reader, Terminated
<1>. QED  BY <1>1, <1>2, PTL DEF Spec

(* The variables keep their types. *)
THEOREM TypeCorrect == Spec => []TypeOK
BY IInvHolds, PTL DEF IInv

(* Unless the uninitialised flag happens to be 1, the reader reads after the   *)
(* writer has written its last byte.                                           *)
THEOREM ReadsWholeMessageHolds == Spec => []ReadsWholeMessage
<1>1. IInv => ReadsWholeMessage
  BY DEF IInv, FlagInv, MutexInv, TypeOK, ReadsWholeMessage
<1>. QED  BY <1>1, IInvHolds, PTL

(* The only reader still asleep under a raised flag is one about to be woken.  *)
THEOREM NoMissedSignalHolds == Spec => []NoMissedSignal
<1>1. IInv => NoMissedSignal
  BY DEF IInv, FlagInv, MutexInv, NoMissedSignal
<1>. QED  BY <1>1, IInvHolds, PTL

(* The mutex, the condition variable and the server outlive both threads.      *)
THEOREM NoUseAfterDestroyHolds == Spec => []NoUseAfterDestroy
<1>1. IInv => NoUseAfterDestroy
  BY DEF IInv, TypeOK, MainInv, NoUseAfterDestroy, Threads
<1>. QED  BY <1>1, IInvHolds, PTL
=============================================================================
