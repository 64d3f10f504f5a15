------------------------ MODULE ThreadPrograms_proofs ------------------------
(***************************************************************************)
(* For every input: the threads of simple-create-join.c and those of       *)
(* set-stack-size.c print in the order that the joins impose, whatever the *)
(* order they run in, and set-stack-size.c's memory is safe.               *)
(***************************************************************************)
EXTENDS ThreadPrograms, TLAPS

Types ==
    /\ prog \in {"chain", "results", "cancel", "async"}
    /\ input \in Seq(Words) /\ Len(input) <= MaxInput
    /\ nread \in 0 .. Len(input) /\ tnum \in 0 .. Len(input)
    /\ pc \in [Threads -> {"absent", "scan", "create", "join", "print", "work", "done",
                           "start", "ready", "printing", "loop", "cancel",
                           "joined", "last"}]
    /\ val \in [Threads -> 0 .. Len(input)]
    /\ heap \in SUBSET Threads
    /\ out \in Seq(1 .. Len(input)) /\ Len(out) <= Len(input)
    /\ status \in {"running", "success", "failure"}
    /\ cancelled \in BOOLEAN /\ lock \in {{}, {0}, {1}}

(* simple-create-join.c: the threads 1 .. nread have a number, and Last reads next. *)
Last == nread + 1

Stopped == pc[Last] = "done"

ChainStages ==
    /\ \A k \in 1 .. nread : input[k] = "number"
    /\ pc[Last] \in {"absent", "scan", "done"}
    /\ Stopped => ~IsNumber
    /\ pc[Last] = "absent" <=> pc[nread] = "create"
    /\ pc[nread] \in {"create", "join", "print", "done"}
    /\ \A t \in Threads : /\ t < nread => pc[t] \in {"join", "print", "done"}
                          /\ t > Last => pc[t] = "absent"
                          /\ val[t] = IF t \in 1 .. nread THEN t ELSE 0

(* The threads that have printed are the last ones; a thread prints after the next. *)
ChainOut ==
    /\ Len(out) <= nread /\ \A k \in 1 .. Len(out) : out[k] = Last - k
    /\ out # << >> => Stopped
    /\ \A t \in 1 .. nread : pc[t] = "done" <=> t > nread - Len(out)
    /\ \A t \in 0 .. nread : pc[t] \in {"print", "done"} => pc[t + 1] = "done" /\ Stopped
    /\ pc[0] # "print"
    /\ status = "success" => pc[0] = "done"
    /\ status = "failure" => out = << >>

ChainInv == prog = "chain" => ChainStages /\ ChainOut

(* set-stack-size.c: main has created the first workers, or all of them, and has  *)
(* printed the results of the first ones, which are done.                         *)
Created == IF pc[0] = "create" THEN tnum ELSE Len(input)
Printed == IF pc[0] = "create" THEN 0 ELSE tnum

ResultStages ==
    /\ pc[0] \in {"create", "join", "done"}
    /\ \A t \in Workers : /\ pc[t] \in {"absent", "work", "done"}
                          /\ pc[t] = "absent" <=> t > Created
                          /\ t <= Printed => pc[t] = "done"
                          /\ val[t] = IF pc[t] = "done" THEN t ELSE 0
    /\ Len(out) = Printed /\ \A k \in 1 .. Len(out) : out[k] = k
    /\ pc[0] = "done" => tnum = Len(input)
    /\ status = "success" => pc[0] = "done"

(* What is allocated is thread_info, until main ends, and each result not yet freed. *)
ResultHeap ==
    heap = {t \in Threads : IF t = TInfo THEN pc[0] # "done"
                                         ELSE pc[t] = "done" /\ t > Printed}

ResultInv == prog = "results" => ResultStages /\ ResultHeap

(* cancel.c and cancel-async.c have no input and no results. *)
CancelInv == prog \in {"cancel", "async"} => input = << >> /\ out = << >>

IInv == Types /\ ChainInv /\ ResultInv /\ CancelInv

-----------------------------------------------------------------------------
(* The invariant holds initially. *)

(* What the threads are. *)
LEMMA Bounds == MaxInput \in Nat /\ 0 \in Threads /\ 1 \in Threads
                /\ Threads \subseteq Nat /\ Workers \subseteq Threads
                /\ \A t \in Threads : t \in Workers <=> t > 0
BY InputBound DEF Threads, Workers

(* The invariant holds in the initial states. *)
LEMMA InitInv == Init => IInv
<1>. SUFFICES ASSUME Init PROVE IInv
  OBVIOUS
<1>1. PICK n \in 0 .. MaxInput : /\ input \in [1 .. n -> Words]
                                 /\ prog \in {"cancel", "async"} => n = 0
  BY Bounds DEF Init
<1>2. input \in Seq(Words) /\ Len(input) = n /\ n \in Nat
  BY <1>1, Bounds
<1>. USE Bounds DEF Init
<1>3. Types
  <2>1. /\ prog \in {"chain", "results", "cancel", "async"}
        /\ input \in Seq(Words) /\ Len(input) <= MaxInput
    BY <1>2
  <2>2. nread \in 0 .. Len(input) /\ tnum \in 0 .. Len(input)
    BY <1>2
  <2>3. pc \in [Threads -> {"absent", "create"}]
    OBVIOUS
  <2>4. val \in [Threads -> 0 .. Len(input)]
    BY <1>2
  <2>5. heap \in SUBSET Threads
    BY DEF TInfo
  <2>6. out \in Seq(1 .. Len(input)) /\ Len(out) <= Len(input)
    BY <1>2
  <2>7. status = "running" /\ cancelled \in BOOLEAN /\ lock = {}
    OBVIOUS
  <2>. QED  BY <2>1, <2>2, <2>3, <2>4, <2>5, <2>6, <2>7 DEF Types
<1>4. ChainInv
  BY <1>2 DEF ChainInv, ChainStages, ChainOut, Last, Stopped
<1>5. ResultInv
  BY <1>2 DEF ResultInv, ResultStages, ResultHeap, Created, Printed, TInfo, Workers
<1>6. CancelInv
  BY <1>1, <1>2 DEF CancelInv
<1>. QED  BY <1>3, <1>4, <1>5, <1>6 DEF IInv

-----------------------------------------------------------------------------
(* simple-create-join.c *)

(* The invariant's parts, and the types of the numbers in it. *)
LEMMA ChainFacts ==
    ASSUME IInv, prog = "chain"
    PROVE  /\ Types /\ ChainStages /\ ChainOut
           /\ MaxInput \in Nat /\ Threads = 0 .. (MaxInput + 1)
           /\ nread \in Nat /\ nread <= MaxInput /\ Last = nread + 1 /\ Len(out) \in Nat
           /\ Len(input) \in Nat /\ nread <= Len(input) /\ Len(input) <= MaxInput
BY Bounds DEF IInv, ChainInv, Types, Threads, Last

(* A thread of simple-create-join.c reads a number, or stops. *)
LEMMA ScanStep ==
    ASSUME IInv, prog = "chain", status = "running", UNCHANGED cancelling, NEW t \in Threads, Scan(t)
    PROVE  Types' /\ ChainInv'
<1>1. /\ Types /\ ChainStages /\ ChainOut
      /\ MaxInput \in Nat /\ Threads = 0 .. (MaxInput + 1)
      /\ nread \in Nat /\ nread <= MaxInput /\ Last = nread + 1 /\ Len(out) \in Nat
      /\ Len(input) \in Nat /\ nread <= Len(input) /\ Len(input) <= MaxInput
  BY ChainFacts
<1>2. /\ pc[t] = "scan" /\ UNCHANGED <<prog, input, tnum, heap, out, status>>
      /\ \/ /\ IsNumber /\ nread' = nread + 1
            /\ val' = [val EXCEPT ![t] = nread + 1] /\ pc' = [pc EXCEPT ![t] = "create"]
         \/ ~IsNumber /\ pc' = [pc EXCEPT ![t] = "done"] /\ UNCHANGED <<nread, val>>
  BY DEF Scan, Goto
<1>3. t = Last /\ out = << >> /\ ~Stopped
  BY <1>1, <1>2 DEF ChainStages, ChainOut, Last, Stopped
<1>4. CASE IsNumber
  <2>1. nread < Len(input) /\ input[nread + 1] = "number" /\ nread' = nread + 1 /\ Last < MaxInput + 1
    BY <1>1, <1>4, <1>2 DEF IsNumber, Types, Last
  <2>2. Types'
    <3>1. nread' \in 0 .. Len(input) /\ val' \in [Threads -> 0 .. Len(input)]
      <4>1. nread + 1 \in 0 .. Len(input)
        BY <1>1, <2>1
      <4>2. val' = [val EXCEPT ![t] = nread + 1]
        BY <1>2, <1>4
      <4>. QED  BY <1>1, <2>1, <4>1, <4>2 DEF Types
    <3>2. pc' = [pc EXCEPT ![t] = "create"]
      BY <1>2, <1>4
    <3>. QED  BY <1>1, <1>2, <3>1, <3>2 DEF Types, cancelling
  <2>3. Last + 1 \in Threads /\ pc[Last + 1] = "absent" /\ Last' = Last + 1
    BY <1>1, <2>1 DEF ChainStages, Last, Threads
  <2>4. /\ pc'[Last] = "create" /\ \A k \in Threads \ {Last} : pc'[k] = pc[k]
        /\ val'[Last] = Last /\ \A k \in Threads \ {Last} : val'[k] = val[k]
    BY <1>1, <1>2, <1>3, <1>4, <2>1 DEF Types, Last
  <2>5. pc[nread] \in {"join", "print", "done"}
    BY <1>1, <1>2, <1>3 DEF ChainStages
  <2>6. ChainStages'
    BY <1>1, <1>2, <2>1, <2>3, <2>4, <2>5 DEF ChainStages, Last, Stopped, IsNumber
  <2>7. ChainOut'
    <3>1. Len(out) = 0 /\ out' = << >> /\ Len(out') = 0
      BY <1>2, <1>3
    <3>2. \A k \in 0 .. nread : pc[k] \notin {"print", "done"} /\ pc'[k] = pc[k]
      BY <1>1, <1>3, <2>4 DEF ChainOut
    <3>3. \A k \in 0 .. nread' : pc'[k] \notin {"print", "done"}
      BY <1>1, <2>1, <2>4, <3>2
    <3>. QED  BY <1>1, <1>2, <2>1, <3>1, <3>3 DEF ChainOut
  <2>. QED  BY <2>2, <2>6, <2>7 DEF ChainInv
<1>5. CASE ~IsNumber
  <2>1. pc'[Last] = "done" /\ \A k \in Threads \ {Last} : pc'[k] = pc[k]
    BY <1>1, <1>2, <1>3, <1>5 DEF Types
  <2>2. UNCHANGED <<nread, val, input, out, status>> /\ Last' = Last /\ IsNumber' = IsNumber
    BY <1>2, <1>5 DEF Last, IsNumber
  <2>3. Types'
    BY <1>1, <1>2, <1>5 DEF Types, cancelling
  <2>4. ChainStages'
    <3>1. pc[nread] = pc'[nread] /\ pc[nread] # "create"
      BY <1>1, <1>2, <1>3, <2>1 DEF ChainStages
    <3>. QED  BY <1>1, <1>5, <2>1, <2>2, <3>1 DEF ChainStages, Stopped, IsNumber
  <2>5. ChainOut'
    BY <1>1, <1>3, <2>1, <2>2 DEF ChainOut, Last, Stopped
  <2>. QED  BY <2>3, <2>4, <2>5 DEF ChainInv
<1>. QED  BY <1>4, <1>5

(* It creates the next thread. *)
LEMMA CreateNextStep ==
    ASSUME IInv, prog = "chain", status = "running", UNCHANGED cancelling, NEW t \in Threads, CreateNext(t)
    PROVE  Types' /\ ChainInv'
<1>1. /\ Types /\ ChainStages /\ ChainOut
      /\ MaxInput \in Nat /\ Threads = 0 .. (MaxInput + 1)
      /\ nread \in Nat /\ nread <= MaxInput /\ Last = nread + 1 /\ Len(out) \in Nat
      /\ Len(input) \in Nat /\ nread <= Len(input) /\ Len(input) <= MaxInput
  BY ChainFacts
<1>2. /\ pc[t] = "create" /\ pc' = [pc EXCEPT ![t] = "join", ![t + 1] = "scan"]
      /\ UNCHANGED <<prog, input, nread, tnum, val, heap, out, status>>
  BY DEF CreateNext
<1>3. t = nread /\ pc[Last] = "absent" /\ ~Stopped /\ out = << >>
  <2>1. t = nread
    BY <1>1, <1>2 DEF ChainStages
  <2>2. pc[Last] = "absent"
    BY <1>1, <1>2, <2>1 DEF ChainStages
  <2>. QED  BY <1>1, <2>1, <2>2 DEF ChainOut, Stopped
<1>4. /\ pc'[nread] = "join" /\ pc'[Last] = "scan"
      /\ \A k \in Threads \ {nread, Last} : pc'[k] = pc[k]
  BY <1>1, <1>2, <1>3 DEF Types, Last
<1>5. Types'
  BY <1>1, <1>2 DEF Types, cancelling
<1>6. Last' = Last
  BY <1>2 DEF Last
<1>7. ChainStages'
  <2>1. nread \in Threads /\ Last \in Threads /\ pc'[Last] # "done"
    BY <1>1, <1>4
  <2>2. \A k \in Threads : /\ k < nread => pc'[k] = pc[k]
                           /\ k > Last => pc'[k] = pc[k]
    BY <1>1, <1>4
  <2>. QED  BY <1>1, <1>2, <1>4, <1>6, <2>1, <2>2 DEF ChainStages, Stopped, IsNumber
<1>8. ChainOut'
  <2>1. \A k \in 0 .. nread : pc[k] \notin {"print", "done"}
    BY <1>1, <1>3 DEF ChainOut
  <2>2. \A k \in 0 .. nread : pc'[k] \notin {"print", "done"}
    BY <1>1, <1>4, <2>1
  <2>3. Len(out) = 0 /\ Len(out') = 0
    BY <1>2, <1>3
  <2>4. 0 \in 0 .. nread /\ 1 .. nread \subseteq 0 .. nread
    BY <1>1
  <2>5. \A k \in 1 .. nread : pc'[k] = "done" <=> k > nread - Len(out')
    BY <1>1, <2>2, <2>3, <2>4
  <2>6. status' = "running" /\ nread' = nread /\ out' = << >>
    BY <1>2, <1>3
  <2>. QED  BY <1>1, <2>2, <2>3, <2>4, <2>5, <2>6 DEF ChainOut
<1>. QED  BY <1>5, <1>7, <1>8 DEF ChainInv

(* It cannot, and the program ends. *)
LEMMA ChainFailStep ==
    ASSUME IInv, prog = "chain", status = "running", UNCHANGED cancelling, NEW t \in Threads, Fail(t, "create")
    PROVE  Types' /\ ChainInv'
<1>1. /\ Types /\ ChainStages /\ ChainOut
      /\ MaxInput \in Nat /\ Threads = 0 .. (MaxInput + 1)
      /\ nread \in Nat /\ nread <= MaxInput /\ Last = nread + 1 /\ Len(out) \in Nat
      /\ Len(input) \in Nat /\ nread <= Len(input) /\ Len(input) <= MaxInput
  BY ChainFacts
<1>2. /\ pc[t] = "create" /\ status' = "failure"
      /\ UNCHANGED <<prog, input, pc, nread, tnum, val, heap, out>>
  BY DEF Fail
<1>3. out = << >>
  <2>1. t = nread
    BY <1>1, <1>2 DEF ChainStages
  <2>2. pc[Last] = "absent"
    BY <1>1, <1>2, <2>1 DEF ChainStages
  <2>. QED  BY <1>1, <2>2 DEF ChainOut, Stopped
<1>4. Types'
  BY <1>1, <1>2 DEF Types, cancelling
<1>5. ChainStages' /\ ChainOut'
  BY <1>1, <1>2, <1>3 DEF ChainStages, ChainOut, Last, Stopped, IsNumber
<1>. QED  BY <1>4, <1>5 DEF ChainInv

(* It has waited for the next thread, which has ended. *)
LEMMA JoinNextStep ==
    ASSUME IInv, prog = "chain", status = "running", UNCHANGED cancelling, NEW t \in Threads, JoinNext(t)
    PROVE  Types' /\ ChainInv'
<1>1. /\ Types /\ ChainStages /\ ChainOut
      /\ MaxInput \in Nat /\ Threads = 0 .. (MaxInput + 1)
      /\ nread \in Nat /\ nread <= MaxInput /\ Last = nread + 1 /\ Len(out) \in Nat
      /\ Len(input) \in Nat /\ nread <= Len(input) /\ Len(input) <= MaxInput
  BY ChainFacts
<1>2. /\ pc[t] = "join" /\ pc[t + 1] = "done"
      /\ pc' = [pc EXCEPT ![t] = IF t = 0 THEN "done" ELSE "print"]
      /\ status' = IF t = 0 THEN "success" ELSE status
      /\ UNCHANGED <<prog, input, nread, tnum, val, heap, out>>
  BY DEF JoinNext, Joined, Goto
<1>3. t \in 0 .. nread
  BY <1>1, <1>2 DEF ChainStages, Last
<1>4. Stopped
  <2>1. CASE t + 1 \in 1 .. nread
    BY <1>1, <1>2, <2>1 DEF ChainOut
  <2>2. CASE t = nread
    BY <1>2, <2>2 DEF Stopped, Last
  <2>. QED  BY <1>1, <1>3, <2>1, <2>2
<1>5. /\ pc'[t] = IF t = 0 THEN "done" ELSE "print"
      /\ \A k \in Threads \ {t} : pc'[k] = pc[k]
  BY <1>1, <1>2 DEF Types
<1>6. Types'
  BY <1>1, <1>2 DEF Types, cancelling
<1>7. Last' = Last /\ IsNumber' = IsNumber /\ Stopped'
  BY <1>2, <1>3, <1>4, <1>5 DEF Last, IsNumber, Stopped
<1>8. ChainStages'
  BY <1>1, <1>2, <1>3, <1>4, <1>5, <1>7 DEF ChainStages, Last, Stopped, IsNumber
<1>9. ChainOut'
  <2>1. \A k \in 1 .. nread : pc'[k] = "done" <=> k > nread - Len(out)
    BY <1>1, <1>2, <1>3, <1>5 DEF ChainOut
  <2>2. \A k \in 0 .. nread : pc'[k] \in {"print", "done"} => pc'[k + 1] = "done"
    <3>1. ASSUME NEW k \in 0 .. nread, pc'[k] \in {"print", "done"} PROVE pc[k + 1] = "done"
      BY <1>1, <1>2, <1>5, <3>1 DEF ChainOut
    <3>2. \A k \in Threads : pc[k] = "done" => pc'[k] = "done"
      BY <1>2, <1>5
    <3>. QED  BY <1>1, <3>1, <3>2
  <2>. QED  BY <1>1, <1>2, <1>5, <1>7, <2>1, <2>2 DEF ChainOut
<1>. QED  BY <1>6, <1>8, <1>9 DEF ChainInv

(* It prints: it is the last one that has not. *)
LEMMA PrintValStep ==
    ASSUME IInv, prog = "chain", status = "running", UNCHANGED cancelling, NEW t \in Threads, PrintVal(t)
    PROVE  Types' /\ ChainInv'
<1>1. /\ Types /\ ChainStages /\ ChainOut
      /\ MaxInput \in Nat /\ Threads = 0 .. (MaxInput + 1)
      /\ nread \in Nat /\ nread <= MaxInput /\ Last = nread + 1 /\ Len(out) \in Nat
      /\ Len(input) \in Nat /\ nread <= Len(input) /\ Len(input) <= MaxInput
  BY ChainFacts
<1>2. /\ pc[t] = "print" /\ out' = Append(out, val[t]) /\ pc' = [pc EXCEPT ![t] = "done"]
      /\ UNCHANGED <<prog, input, nread, tnum, val, heap, status>>
  BY DEF PrintVal, Goto
<1>3. t \in 1 .. nread
  <2>1. t # 0 /\ t # Last
    BY <1>1, <1>2 DEF ChainStages, ChainOut
  <2>2. t <= Last
    BY <1>1, <1>2 DEF ChainStages
  <2>. QED  BY <1>1, <2>1, <2>2
<1>4. pc[t + 1] = "done" /\ Stopped
  BY <1>1, <1>2, <1>3 DEF ChainOut
<1>5. t = nread - Len(out)
  <2>1. t <= nread - Len(out)
    BY <1>1, <1>2, <1>3 DEF ChainOut
  <2>2. t + 1 > nread - Len(out)
    <3>1. CASE t + 1 \in 1 .. nread
      BY <1>1, <1>4, <3>1 DEF ChainOut
    <3>2. CASE t = nread
      BY <1>1, <3>2
    <3>. QED  BY <1>1, <1>3, <3>1, <3>2
  <2>. QED  BY <1>1, <1>3, <2>1, <2>2
<1>6. val[t] = t /\ t \in 1 .. Len(input)
  BY <1>1, <1>3 DEF ChainStages, Types
<1>7. pc'[t] = "done" /\ \A k \in Threads \ {t} : pc'[k] = pc[k]
  BY <1>1, <1>2 DEF Types
<1>8. /\ out' \in Seq(1 .. Len(input)) /\ Len(out') = Len(out) + 1
      /\ \A k \in 1 .. Len(out) : out'[k] = out[k]
      /\ out'[Len(out) + 1] = t
  BY <1>1, <1>2, <1>6 DEF Types
<1>9. Types'
  <2>1. /\ out' \in Seq(1 .. Len(input')) /\ Len(out') <= Len(input')
        /\ nread' \in 0 .. Len(input')
    BY <1>1, <1>2, <1>3, <1>5, <1>8
  <2>2. pc' \in [Threads -> {"absent", "scan", "create", "join", "print", "work", "done",
                            "start", "ready", "printing", "loop", "cancel",
                           "joined", "last"}]
    BY <1>1, <1>2 DEF Types
  <2>3. Types
    BY <1>1
  <2>4. UNCHANGED <<prog, input, nread, tnum, val, heap, status, cancelled, lock>>
    BY <1>2 DEF cancelling
  <2>. QED  BY <2>1, <2>2, <2>3, <2>4 DEF Types
<1>10. Last' = Last /\ IsNumber' = IsNumber /\ Stopped'
  BY <1>2, <1>3, <1>4, <1>7 DEF Last, IsNumber, Stopped
<1>11. ChainStages'
  BY <1>1, <1>2, <1>3, <1>4, <1>7, <1>10 DEF ChainStages, Last, Stopped, IsNumber
<1>12. ChainOut'
  <2>1. \A k \in 1 .. Len(out') : out'[k] = Last - k
    <3>1. Last - (Len(out) + 1) = t
      BY <1>1, <1>5
    <3>2. \A k \in 1 .. Len(out) : out'[k] = Last - k
      BY <1>1, <1>8 DEF ChainOut
    <3>3. \A k \in 1 .. Len(out') : k \in 1 .. Len(out) \/ k = Len(out) + 1
      BY <1>1, <1>8
    <3>. QED  BY <1>8, <3>1, <3>2, <3>3
  <2>2. \A k \in 1 .. nread : pc'[k] = "done" <=> k > nread - Len(out')
    <3>1. ASSUME NEW k \in 1 .. nread PROVE pc'[k] = "done" <=> pc[k] = "done" \/ k = t
      BY <1>1, <1>7
    <3>2. \A k \in 1 .. nread : pc[k] = "done" <=> k > nread - Len(out)
      BY <1>1 DEF ChainOut
    <3>. QED  BY <1>1, <1>5, <1>8, <3>1, <3>2
  <2>3. \A k \in 0 .. nread : pc'[k] \in {"print", "done"} => pc'[k + 1] = "done"
    <3>1. ASSUME NEW k \in 0 .. nread, pc'[k] \in {"print", "done"} PROVE pc[k + 1] = "done"
      BY <1>1, <1>4, <1>7, <3>1 DEF ChainOut
    <3>2. \A k \in Threads : pc[k] = "done" => pc'[k] = "done"
      BY <1>7
    <3>. QED  BY <1>1, <3>1, <3>2
  <2>4. status = "running" /\ status' = status /\ Len(out') <= nread
    BY <1>1, <1>2, <1>3, <1>5, <1>8
  <2>5. pc'[0] # "print"
    BY <1>1, <1>3, <1>7 DEF ChainOut
  <2>. QED  BY <1>2, <1>10, <2>1, <2>2, <2>3, <2>4, <2>5 DEF ChainOut
<1>. QED  BY <1>9, <1>11, <1>12 DEF ChainInv

(* The threads of simple-create-join.c. *)
LEMMA ChainStep == ASSUME IInv, NEW t \in Threads, ChainThread(t) PROVE IInv'
<1>1. prog = "chain" /\ status = "running" /\ UNCHANGED cancelling /\ prog' = prog
  BY DEF ChainThread, Scan, CreateNext, Fail, JoinNext, PrintVal
<1>2. Types' /\ ChainInv'
  BY <1>1, ScanStep, CreateNextStep, ChainFailStep, JoinNextStep, PrintValStep DEF ChainThread
<1>. QED  BY <1>1, <1>2 DEF IInv, ResultInv, CancelInv

-----------------------------------------------------------------------------
(* set-stack-size.c *)

(* The invariant's parts, and the types of the numbers in it. *)
LEMMA ResultFacts ==
    ASSUME IInv, prog = "results"
    PROVE  /\ Types /\ ResultStages /\ ResultHeap
           /\ MaxInput \in Nat /\ Threads = 0 .. (MaxInput + 1) /\ Workers = 1 .. (MaxInput + 1)
           /\ Len(input) \in Nat /\ Len(input) <= MaxInput
           /\ tnum \in Nat /\ tnum <= Len(input) /\ TInfo = 0
           /\ \A t \in Workers : t \in Threads /\ t # 0
BY Bounds DEF IInv, ResultInv, Types, Threads, Workers, TInfo

(* set-stack-size.c's main creates a worker. *)
LEMMA CreateWorkerStep ==
    ASSUME IInv, prog = "results", status = "running", UNCHANGED cancelling, CreateWorker
    PROVE  Types' /\ ResultInv'
<1>1. /\ Types /\ ResultStages /\ ResultHeap
      /\ MaxInput \in Nat /\ Threads = 0 .. (MaxInput + 1) /\ Workers = 1 .. (MaxInput + 1)
      /\ Len(input) \in Nat /\ Len(input) <= MaxInput
      /\ tnum \in Nat /\ tnum <= Len(input) /\ TInfo = 0
      /\ \A t \in Workers : t \in Threads /\ t # 0
  BY ResultFacts
<1>2. /\ pc[0] = "create" /\ tnum < Len(input) /\ pc' = [pc EXCEPT ![tnum + 1] = "work"]
      /\ tnum' = tnum + 1
      /\ UNCHANGED <<prog, input, nread, val, heap, out, status>>
  BY DEF CreateWorker, Turn, Goto
<1>3. tnum + 1 \in Workers /\ pc'[0] = "create"
      /\ pc'[tnum + 1] = "work" /\ \A t \in Threads \ {tnum + 1} : pc'[t] = pc[t]
  BY <1>1, <1>2 DEF Types
<1>4. Types'
  <2>1. tnum' \in 0 .. Len(input)
    BY <1>1, <1>2
  <2>. QED  BY <1>1, <1>2, <1>3, <2>1 DEF Types, cancelling
<1>5. Created = tnum /\ Created' = tnum + 1 /\ Printed = 0 /\ Printed' = 0
  BY <1>2, <1>3 DEF Created, Printed
<1>6. pc[tnum + 1] = "absent" /\ val[tnum + 1] = 0
  BY <1>1, <1>3, <1>5 DEF ResultStages
<1>7. ResultStages'
  <2>1. ASSUME NEW t \in Workers
        PROVE  /\ pc'[t] \in {"absent", "work", "done"}
               /\ pc'[t] = "absent" <=> t > tnum + 1
               /\ ~(t <= 0)
               /\ val'[t] = IF pc'[t] = "done" THEN t ELSE 0
    <3>1. CASE t = tnum + 1
      BY <1>1, <1>2, <1>3, <1>6, <3>1
    <3>2. CASE t # tnum + 1
      BY <1>1, <1>2, <1>3, <1>5, <3>2 DEF ResultStages
    <3>. QED  BY <3>1, <3>2
  <2>. QED  BY <1>1, <1>2, <1>3, <1>5, <2>1 DEF ResultStages
<1>8. ResultHeap'
  BY <1>1, <1>2, <1>3, <1>5, <1>6 DEF ResultHeap
<1>. QED  BY <1>4, <1>7, <1>8 DEF ResultInv

(* It cannot, or a worker's strdup() fails, and the program ends. *)
LEMMA ResultsFailStep ==
    ASSUME IInv, prog = "results", status = "running", UNCHANGED cancelling,
           CreationFails \/ \E t \in Workers : Fail(t, "work")
    PROVE  Types' /\ ResultInv'
<1>1. Types /\ ResultStages /\ ResultHeap
  BY ResultFacts
<1>2. status' = "failure" /\ UNCHANGED <<prog, input, pc, nread, tnum, val, heap, out>>
  BY DEF CreationFails, Fail
<1>3. Types'
  BY <1>1, <1>2 DEF Types, cancelling
<1>4. ResultStages' /\ ResultHeap'
  BY <1>1, <1>2 DEF ResultStages, ResultHeap, Created, Printed
<1>. QED  BY <1>3, <1>4 DEF ResultInv

(* It has created all. *)
LEMMA AllCreatedStep ==
    ASSUME IInv, prog = "results", status = "running", UNCHANGED cancelling, AllCreated
    PROVE  Types' /\ ResultInv'
<1>1. /\ Types /\ ResultStages /\ ResultHeap
      /\ MaxInput \in Nat /\ Threads = 0 .. (MaxInput + 1) /\ Workers = 1 .. (MaxInput + 1)
      /\ Len(input) \in Nat /\ Len(input) <= MaxInput
      /\ tnum \in Nat /\ tnum <= Len(input) /\ TInfo = 0
      /\ \A t \in Workers : t \in Threads /\ t # 0
  BY ResultFacts
<1>2. /\ pc[0] = "create" /\ tnum = Len(input) /\ tnum' = 0 /\ pc' = [pc EXCEPT ![0] = "join"]
      /\ UNCHANGED <<prog, input, nread, val, heap, out, status>>
  BY DEF AllCreated, Goto
<1>3. pc'[0] = "join" /\ \A t \in Workers : pc'[t] = pc[t]
  BY <1>1, <1>2 DEF Types
<1>4. Types'
  BY <1>1, <1>2 DEF Types, cancelling
<1>5. Created = Len(input) /\ Created' = Len(input) /\ Printed = 0 /\ Printed' = 0
  BY <1>2, <1>3 DEF Created, Printed
<1>6. ResultStages'
  BY <1>1, <1>2, <1>3, <1>5 DEF ResultStages
<1>7. ResultHeap'
  BY <1>1, <1>2, <1>3, <1>5 DEF ResultHeap
<1>. QED  BY <1>4, <1>6, <1>7 DEF ResultInv

(* It joins a worker, prints its result and frees it. *)
LEMMA JoinWorkerStep ==
    ASSUME IInv, prog = "results", status = "running", UNCHANGED cancelling, JoinWorker
    PROVE  Types' /\ ResultInv'
<1>1. /\ Types /\ ResultStages /\ ResultHeap
      /\ MaxInput \in Nat /\ Threads = 0 .. (MaxInput + 1) /\ Workers = 1 .. (MaxInput + 1)
      /\ Len(input) \in Nat /\ Len(input) <= MaxInput
      /\ tnum \in Nat /\ tnum <= Len(input) /\ TInfo = 0
      /\ \A t \in Workers : t \in Threads /\ t # 0
  BY ResultFacts
<1>2. /\ pc[0] = "join" /\ tnum < Len(input) /\ pc[tnum + 1] = "done"
      /\ out' = Append(out, val[tnum + 1]) /\ heap' = heap \ {tnum + 1}
      /\ tnum' = tnum + 1
      /\ UNCHANGED <<prog, input, pc, nread, val, status>>
  BY DEF JoinWorker, MoreToJoin, Joined, Turn, ResultFreed
<1>3. tnum + 1 \in Workers /\ tnum + 1 \in 1 .. Len(input)
  BY <1>1, <1>2
<1>4. val[tnum + 1] = tnum + 1
  BY <1>1, <1>2, <1>3 DEF ResultStages
<1>5. Created = Len(input) /\ Created' = Len(input) /\ Printed = tnum /\ Printed' = tnum + 1
  BY <1>2 DEF Created, Printed
<1>6. Len(out) = tnum /\ out \in Seq(1 .. Len(input))
  BY <1>1, <1>5 DEF ResultStages, Types
<1>7. /\ out' \in Seq(1 .. Len(input)) /\ Len(out') = tnum + 1
      /\ \A k \in 1 .. tnum : out'[k] = out[k]
      /\ out'[tnum + 1] = tnum + 1
  BY <1>1, <1>2, <1>3, <1>4, <1>6
<1>8. Types'
  BY <1>1, <1>2, <1>3, <1>7 DEF Types, cancelling
<1>9. ResultStages'
  <2>1. \A k \in 1 .. tnum + 1 : out'[k] = k
    <3>1. \A k \in 1 .. tnum : out'[k] = k
      BY <1>1, <1>6, <1>7 DEF ResultStages
    <3>. QED  BY <1>1, <1>7, <3>1
  <2>2. \A t \in Workers : t <= tnum + 1 => pc[t] = "done"
    BY <1>1, <1>2, <1>5 DEF ResultStages
  <2>. QED  BY <1>1, <1>2, <1>5, <1>7, <2>1, <2>2 DEF ResultStages
<1>10. ResultHeap'
  <2>1. heap' = {t \in Threads : IF t = 0 THEN pc[0] # "done" ELSE pc[t] = "done" /\ t > tnum + 1}
    BY <1>1, <1>2, <1>3, <1>5 DEF ResultHeap
  <2>. QED  BY <1>1, <1>2, <1>5, <2>1 DEF ResultHeap
<1>. QED  BY <1>8, <1>9, <1>10 DEF ResultInv

(* It has joined all, and frees the table. *)
LEMMA FinishStep ==
    ASSUME IInv, prog = "results", status = "running", UNCHANGED cancelling, Finish
    PROVE  Types' /\ ResultInv'
<1>1. /\ Types /\ ResultStages /\ ResultHeap
      /\ MaxInput \in Nat /\ Threads = 0 .. (MaxInput + 1) /\ Workers = 1 .. (MaxInput + 1)
      /\ Len(input) \in Nat /\ Len(input) <= MaxInput
      /\ tnum \in Nat /\ tnum <= Len(input) /\ TInfo = 0
      /\ \A t \in Workers : t \in Threads /\ t # 0
  BY ResultFacts
<1>2. /\ pc[0] = "join" /\ tnum = Len(input) /\ heap' = heap \ {TInfo}
      /\ pc' = [pc EXCEPT ![0] = "done"] /\ status' = "success"
      /\ UNCHANGED <<prog, input, nread, tnum, val, out>>
  BY <1>1 DEF Finish, MoreToJoin, Goto
<1>3. pc'[0] = "done" /\ \A t \in Workers : pc'[t] = pc[t]
  BY <1>1, <1>2 DEF Types
<1>4. Types'
  BY <1>1, <1>2 DEF Types, cancelling
<1>5. Created = Len(input) /\ Created' = Len(input) /\ Printed = tnum /\ Printed' = tnum
  BY <1>2, <1>3 DEF Created, Printed
<1>6. ResultStages'
  BY <1>1, <1>2, <1>3, <1>5 DEF ResultStages
<1>7. ResultHeap'
  BY <1>1, <1>2, <1>3, <1>5 DEF ResultHeap
<1>. QED  BY <1>4, <1>6, <1>7 DEF ResultInv

(* A worker makes an upper-case copy of its argument. *)
LEMMA WorkStep ==
    ASSUME IInv, prog = "results", status = "running", UNCHANGED cancelling,
           NEW t \in Workers, Work(t)
    PROVE  Types' /\ ResultInv'
<1>1. /\ Types /\ ResultStages /\ ResultHeap
      /\ MaxInput \in Nat /\ Threads = 0 .. (MaxInput + 1) /\ Workers = 1 .. (MaxInput + 1)
      /\ Len(input) \in Nat /\ Len(input) <= MaxInput
      /\ tnum \in Nat /\ tnum <= Len(input) /\ TInfo = 0
      /\ \A k \in Workers : k \in Threads /\ k # 0
  BY ResultFacts
<1>2. /\ pc[t] = "work" /\ val' = [val EXCEPT ![t] = t] /\ heap' = heap \cup {t}
      /\ pc' = [pc EXCEPT ![t] = "done"]
      /\ UNCHANGED <<prog, input, nread, tnum, out, status>>
  BY DEF Work, OwnArgument, Goto
<1>3. /\ pc'[t] = "done" /\ \A k \in Threads \ {t} : pc'[k] = pc[k]
      /\ val'[t] = t /\ \A k \in Threads \ {t} : val'[k] = val[k]
      /\ pc'[0] = pc[0]
  BY <1>1, <1>2 DEF Types
<1>4. Created' = Created /\ Printed' = Printed
  BY <1>2, <1>3 DEF Created, Printed
<1>5. t <= Created /\ Created <= Len(input) /\ t > Printed
  <2>1. Created \in Nat /\ Printed \in Nat /\ Created <= Len(input)
    BY <1>1 DEF Created, Printed
  <2>. QED  BY <1>1, <1>2, <2>1 DEF ResultStages
<1>6. Types'
  <2>1. t \in 0 .. Len(input)
    BY <1>1, <1>5 DEF Created
  <2>. QED  BY <1>1, <1>2, <2>1 DEF Types, cancelling
<1>7. ResultStages'
  <2>1. ASSUME NEW k \in Workers
        PROVE  /\ pc'[k] \in {"absent", "work", "done"}
               /\ pc'[k] = "absent" <=> k > Created
               /\ k <= Printed => pc'[k] = "done"
               /\ val'[k] = IF pc'[k] = "done" THEN k ELSE 0
    <3>1. CASE k = t
      BY <1>1, <1>2, <1>3, <3>1 DEF ResultStages
    <3>2. CASE k # t
      BY <1>1, <1>3, <3>2 DEF ResultStages
    <3>. QED  BY <3>1, <3>2
  <2>. QED  BY <1>1, <1>2, <1>3, <1>4, <2>1 DEF ResultStages
<1>8. ResultHeap'
  BY <1>1, <1>2, <1>3, <1>4, <1>5 DEF ResultHeap
<1>. QED  BY <1>6, <1>7, <1>8 DEF ResultInv

(* The threads of set-stack-size.c. *)
LEMMA ResultsStep == ASSUME IInv, ResultsMain \/ \E t \in Workers : Worker(t) PROVE IInv'
<1>1. prog = "results" /\ status = "running" /\ UNCHANGED cancelling /\ prog' = prog
  BY DEF ResultsMain, Worker, CreateWorker, CreationFails, AllCreated, JoinWorker, Finish, Work, Fail
<1>2. Types' /\ ResultInv'
  BY <1>1, CreateWorkerStep, ResultsFailStep, AllCreatedStep, JoinWorkerStep, FinishStep, WorkStep
     DEF ResultsMain, Worker
<1>. QED  BY <1>1, <1>2 DEF IInv, ChainInv, CancelInv

-----------------------------------------------------------------------------
(* cancel.c and cancel-async.c *)

(* The two programs that cancel a thread have no heap and print nothing. *)
LEMMA CancelStep == ASSUME IInv, CancelMain \/ Looper PROVE IInv'
<1>1. prog \in {"cancel", "async"} /\ UNCHANGED others
  BY DEF CancelMain, Looper, CreateLooper, Cancel, BeginPrintf, EndPrintf, JoinLooper, PrintDone,
         SetCancelType,
         Loop, vars, CancelledInPrintf, CancelledAnywhere, others
<1>2. Types /\ input = << >> /\ out = << >>
  BY <1>1 DEF IInv, CancelInv
<1>3. pc' \in [Threads -> {"absent", "scan", "create", "join", "print", "work", "done",
                           "start", "ready", "printing", "loop", "cancel",
                           "joined", "last"}]
  BY <1>2 DEF CancelMain, Looper, CreateLooper, Cancel, BeginPrintf, EndPrintf, JoinLooper, PrintDone,
              SetCancelType, Loop, vars, CancelledInPrintf, CancelledAnywhere, Goto, Types
<1>4. /\ status' \in {"running", "success", "failure"}
      /\ cancelled' \in BOOLEAN /\ lock' \in {{}, {0}, {1}}
  <2>1. CASE CancelMain
    BY <1>2, <2>1 DEF CancelMain, CreateLooper, Cancel, BeginPrintf, EndPrintf, JoinLooper, PrintDone,
                      cancelling, Types
  <2>2. CASE Looper
    <3>1. status' = status /\ cancelled' = cancelled
      BY <2>2 DEF Looper, SetCancelType, BeginPrintf, EndPrintf, Loop, vars, CancelledInPrintf,
                  CancelledAnywhere, cancelling
    <3>2. lock' \in {lock, {}, {1}, lock \ {1}}
      BY <2>2 DEF Looper, SetCancelType, BeginPrintf, EndPrintf, Loop, vars, CancelledInPrintf,
                  CancelledAnywhere, cancelling
    <3>. QED  BY <1>2, <3>1, <3>2 DEF Types
  <2>. QED  BY <2>1, <2>2
<1>5. Types'
  BY <1>1, <1>2, <1>3, <1>4 DEF Types, others
<1>. QED  BY <1>1, <1>2, <1>5 DEF IInv, ChainInv, ResultInv, CancelInv, others

-----------------------------------------------------------------------------
(* The theorems *)

(* Every step keeps the invariant. *)
LEMMA NextInv == IInv /\ [Next]_vars => IInv'
<1>. SUFFICES ASSUME IInv, [Next]_vars PROVE IInv'
  OBVIOUS
<1>1. CASE UNCHANGED vars
  BY <1>1 DEF vars, IInv, Types, ChainInv, ChainStages, ChainOut, Last, Stopped, IsNumber,
              ResultInv, ResultStages, ResultHeap, Created, Printed, CancelInv
<1>. QED  BY <1>1, CancelStep, ChainStep, ResultsStep DEF Next, Terminated

(* The invariant has what TypeOK says. *)
LEMMA InvImpliesTypes == ASSUME IInv PROVE TypeOK
<1>1. Types
  BY DEF IInv
<1>2. lock \subseteq {0, 1}
  BY <1>1 DEF Types
<1>3. 0 \notin lock \/ 1 \notin lock
  BY <1>1 DEF Types
<1>4. lock # {0, 1}
  BY <1>3
<1>. QED  BY <1>1, <1>2, <1>4 DEF Types, TypeOK

(* When a thread has stopped to read, the numbers were the leading ones. *)
LEMMA NumbersRead ==
    ASSUME IInv, prog = "chain", Stopped
    PROVE  LeadingNumbers = nread
<1>1. /\ Types /\ ChainStages /\ Len(input) \in Nat /\ nread \in 0 .. Len(input)
  BY ChainFacts DEF Types
<1>. DEFINE P(n) == /\ \A k \in 1 .. n : input[k] = "number"
                    /\ n < Len(input) => input[n + 1] # "number"
<1>2. P(nread)
  BY <1>1 DEF ChainStages, IsNumber
<1>3. ASSUME NEW n \in 0 .. Len(input), P(n) PROVE n = nread
  <2>1. CASE n < nread
    <3>1. n + 1 \in 1 .. nread /\ n < Len(input)
      BY <1>1, <2>1
    <3>. QED  BY <1>2, <1>3, <3>1
  <2>2. CASE nread < n
    <3>1. nread + 1 \in 1 .. n /\ nread < Len(input)
      BY <1>1, <2>2
    <3>. QED  BY <1>2, <1>3, <3>1
  <2>. QED  BY <1>1, <2>1, <2>2
<1>4. LeadingNumbers = CHOOSE n \in 0 .. Len(input) : P(n)
  BY DEF LeadingNumbers
<1>. HIDE DEF P
<1>. QED  BY <1>1, <1>2, <1>3, <1>4

(* What is printed is what OutputInOrder says. *)
LEMMA InvImpliesOutput == ASSUME IInv PROVE OutputInOrder
<1>1. Types /\ Len(out) \in Nat /\ Len(input) \in Nat
  BY DEF IInv, Types
<1>2. CASE out = << >> /\ status # "success"
  BY <1>2 DEF OutputInOrder
<1>3. CASE prog = "chain" /\ (out # << >> \/ status = "success")
  <2>1. /\ ChainStages /\ ChainOut /\ nread \in Nat /\ Last = nread + 1
    BY <1>3, ChainFacts
  <2>2. Stopped /\ LeadingNumbers = nread
    <3>1. Stopped
      BY <1>3, <2>1 DEF ChainOut
    <3>. QED  BY <1>3, <3>1, NumbersRead
  <2>3. Expected = [k \in 1 .. nread |-> Last - k]
    BY <1>3, <2>1, <2>2 DEF Expected
  <2>4. Len(out) <= nread /\ \A k \in 1 .. Len(out) : out[k] = Last - k
    BY <2>1 DEF ChainOut
  <2>5. status = "success" => Len(out) = nread
    <3>1. CASE nread = 0
      BY <1>1, <2>4, <3>1
    <3>2. CASE nread # 0
      <4>1. status = "success" => pc[1] = "done"
        BY <2>1 DEF ChainOut
      <4>. QED  BY <1>1, <2>1, <2>4, <3>2, <4>1 DEF ChainOut
    <3>. QED  BY <3>1, <3>2
  <2>6. out = SubSeq(Expected, 1, Len(out))
    BY <1>1, <2>1, <2>3, <2>4 DEF Types
  <2>7. status = "success" => out = Expected
    <3>1. out = [k \in 1 .. Len(out) |-> out[k]]
      BY <1>1 DEF Types
    <3>2. out = [k \in 1 .. Len(out) |-> Last - k]
      BY <2>4, <3>1
    <3>. QED  BY <2>3, <2>5, <3>2
  <2>8. status = "failure" => out = << >>
    BY <2>1 DEF ChainOut
  <2>. QED  BY <2>6, <2>7, <2>8 DEF OutputInOrder
<1>4. CASE prog = "results"
  <2>1. ResultStages /\ Len(out) <= Len(input)
    BY <1>1, <1>4, ResultFacts DEF Types
  <2>2. Expected = [k \in 1 .. Len(input) |-> k]
    BY <1>4 DEF Expected
  <2>3. \A k \in 1 .. Len(out) : out[k] = k
    BY <2>1 DEF ResultStages
  <2>4. status = "success" => Len(out) = Len(input)
    BY <2>1 DEF ResultStages, Printed
  <2>5. out = SubSeq(Expected, 1, Len(out))
    BY <1>1, <2>1, <2>2, <2>3 DEF Types
  <2>6. status = "success" => out = Expected
    BY <1>1, <2>2, <2>3, <2>4 DEF Types
  <2>. QED  BY <1>4, <2>5, <2>6 DEF OutputInOrder
<1>5. CASE prog \in {"cancel", "async"}
  <2>1. input = << >> /\ out = << >>
    BY <1>5 DEF IInv, CancelInv
  <2>2. Expected = << >>
    BY <1>5, <2>1 DEF Expected
  <2>. QED  BY <1>5, <2>1, <2>2 DEF OutputInOrder
<1>. QED  BY <1>1, <1>2, <1>3, <1>4, <1>5 DEF Types

(* What is allocated is what HeapSafe says. *)
LEMMA InvImpliesHeapSafe == ASSUME IInv PROVE HeapSafe
<1>. SUFFICES ASSUME prog = "results" PROVE HeapSafe
  BY DEF HeapSafe
<1>1. /\ ResultStages /\ ResultHeap
      /\ MaxInput \in Nat /\ Threads = 0 .. (MaxInput + 1) /\ Workers = 1 .. (MaxInput + 1)
      /\ Len(input) \in Nat /\ Len(input) <= MaxInput
      /\ tnum \in Nat /\ tnum <= Len(input) /\ TInfo = 0
  BY ResultFacts
<1>2. ASSUME NEW t \in Workers, pc[t] = "work" PROVE TInfo \in heap
  <2>1. pc[0] # "done"
    <3>1. ~(t > Created) /\ ~(t <= Printed)
      BY <1>1, <1>2 DEF ResultStages
    <3>. QED  BY <1>1, <3>1 DEF Created, Printed, ResultStages
  <2>. QED  BY <1>1, <2>1 DEF ResultHeap
<1>3. \A t \in Workers : pc[t] = "done" => t \in heap \/ Len(out) >= t
  BY <1>1 DEF ResultHeap, ResultStages, Printed
<1>4. status = "success" => heap = {}
  <2>. SUFFICES ASSUME status = "success", NEW t \in heap PROVE FALSE
    OBVIOUS
  <2>1. pc[0] = "done" /\ tnum = Len(input) /\ Printed = Len(input) /\ Created = Len(input)
    BY <1>1 DEF ResultStages, Printed, Created
  <2>2. t \in Workers /\ pc[t] = "done" /\ t > Len(input)
    BY <1>1, <2>1 DEF ResultHeap
  <2>. QED  BY <1>1, <2>1, <2>2 DEF ResultStages
<1>. QED  BY <1>2, <1>3, <1>4 DEF HeapSafe

\* The states have their types: no loop of main and no read goes past the input, and at
\* most one thread has stdout locked.
THEOREM TypeCorrect == Spec => []TypeOK
BY InitInv, NextInv, InvImpliesTypes, PTL DEF Spec

\* However the threads are scheduled, simple-create-join.c prints the leading numbers in
\* reverse and set-stack-size.c the results in the order of the arguments.
THEOREM PrintedInOrder == Spec => []OutputInOrder
BY InitInv, NextInv, InvImpliesOutput, PTL DEF Spec

\* set-stack-size.c frees nothing that is still used, and everything in the end.
THEOREM MemorySafe == Spec => []HeapSafe
BY InitInv, NextInv, InvImpliesHeapSafe, PTL DEF Spec
=============================================================================
