------------------------- MODULE PipePrograms_proofs -------------------------
(***************************************************************************)
(* For every capacity of the pipe, PIPE_BUF and message length: what the   *)
(* parent receives is what was sent, all of it and in order; SIGPIPE kills *)
(* no child whose parent still runs, and unclosed-reader.c's child ends by *)
(* it alone.                                                               *)
(***************************************************************************)
EXTENDS PipePrograms, SequenceTheorems, WellFoundedInduction, TLAPS

Codes == {"none", "0", "1", "SIGPIPE", "SIGINT"}
ParentLabels == {"pipe", "fork1", "fork2", "closeWrite", "read", "spin", "closeRead", "wait",
                 "exited", "open", "opening"}
ChildLabels == {"unborn", "closeRead", "write", "closeWrite", "exited", "reaped", "mkfifo",
                "open", "opening", "enter"}

Bytes == Children \X (1 .. MessageLength)

Pipes == [buf : Seq(Bytes), readers : SUBSET Processes, writers : SUBSET Processes]

DataTypes ==
    /\ prog \in Programs
    /\ pipe \in Pipes
    /\ Len(pipe.buf) <= Capacity
    /\ sent \in [Children -> 0 .. MessageLength] /\ got \in [Children -> 0 .. MessageLength]

ControlTypes ==
    /\ pc \in [Processes -> ParentLabels \cup ChildLabels]
    /\ exit \in [Processes -> Codes]
    /\ counter \in 0 .. Limit

(* The part of the program that each process can be in, and whom it was preceded by. *)
Stages ==
    /\ prog = "fifo" =>
          /\ pc["parent"] \in {"open", "opening", "read", "exited"}
          /\ pc["child1"] \in {"mkfifo", "open", "opening", "enter", "write", "closeWrite", "exited"}
          /\ pc["child2"] = "unborn"
          /\ pc["child1"] \in {"enter", "write", "closeWrite"} =>
                pc["parent"] \in {"read", "exited"} /\ exit["parent"] # "1"
    /\ prog # "fifo" =>
          /\ pc["parent"] \in ParentLabels \ {"open", "opening"}
          /\ \A c \in Children :
                pc[c] \in {"unborn", "closeRead", "write", "closeWrite", "exited", "reaped"}
          /\ pc["parent"] \in {"pipe", "fork1"} => pc["child1"] = "unborn"
          /\ pc["parent"] \in {"pipe", "fork1", "fork2"} => pc["child2"] = "unborn"
          /\ pc["parent"] \in {"fork2", "closeWrite", "read", "spin", "closeRead", "wait"} =>
                pc["child1"] # "unborn"
    /\ prog # "concurrent" => pc["child2"] = "unborn" /\ pc["parent"] # "fork2"
    /\ \A c \in Children : pc[c] = "reaped" => pc["parent"] = "exited"

(* How the parent ended. *)
Endings ==
    /\ exit["parent"] = "none" <=> pc["parent"] # "exited"
    /\ exit["parent"] # "SIGPIPE"
    /\ exit["parent"] = "SIGINT" => prog = "fifo"
    /\ exit["parent"] = "0" => prog # "fifo"
    /\ exit["parent"] = "1" /\ prog \notin {"concurrent", "fifo"} =>
          \A c \in Children : pc[c] = "unborn"

(* Who holds which end of the pipe; there is no writer once end of file was seen. *)
Ends ==
    /\ pc["parent"] \in {"fork1", "fork2", "closeWrite", "read", "spin", "closeRead", "opening"}
       => "parent" \in pipe.readers
    /\ pc["parent"] \in {"fork1", "fork2", "closeWrite"} => "parent" \in pipe.writers
    /\ \A c \in Children :
          pc[c] \in {"closeRead", "write", "closeWrite", "enter", "opening"} => c \in pipe.writers
    /\ pc["parent"] \in {"closeRead", "wait"} \/ exit["parent"] = "0" =>
          prog = "reader" \/ pipe.writers = {}

(* How far the writers and unclosed-reader.c have come. *)
Progress ==
    /\ pc["parent"] = "pipe" => pipe.buf = << >>
    /\ prog \notin {"reader", "concurrent"} => \A c \in Children : sent[c] \in {0, MessageLength}
    /\ prog = "simple" /\ pc["child1"] \in {"closeWrite", "exited", "reaped"} =>
          sent["child1"] = MessageLength
    /\ prog = "reader" =>
          /\ pc["parent"] \in {"pipe", "fork1", "closeWrite", "read"} => counter > 0
          /\ pc["parent"] \in {"closeRead", "wait"} \/ exit["parent"] = "0" => counter = 0
          /\ pc["child1"] # "closeWrite"
    /\ prog = "fifo" /\ pc["child1"] \in {"mkfifo", "open", "opening", "enter", "write"} =>
          counter > 0

(* LastRead() after a byte d of child c that was the last one before. *)
Last(bytes, c, d) ==
    LET mine == {j \in DOMAIN bytes : bytes[j][1] = c}
    IN  IF mine = {} THEN d
        ELSE bytes[CHOOSE j \in mine : \A k \in mine : k <= j][2]

(* Every byte of c is the one after the one of c before it, the first after d. *)
Chain(s, c, d) ==
    \A j \in 1 .. Len(s) :
       s[j][1] = c => s[j][2] = (Last(SubSeq(s, 1, j - 1), c, d) % MessageLength) + 1

(* The pipe's contents are in order, from the last byte read to the last one written. *)
OrderInv ==
    \A c \in Children :
       Chain(pipe.buf, c, got[c]) /\ Last(pipe.buf, c, got[c]) = sent[c]

IInv ==
    /\ DataTypes /\ ControlTypes /\ Stages /\ Endings /\ Ends /\ Progress
    /\ OrderInv /\ WholeMessage /\ KilledOnlyAsOrphan

-----------------------------------------------------------------------------
(* The last byte of a child in a sequence of bytes *)

(* A nonempty set of natural numbers has a minimum. *)
LEMMA HasMin ==
    ASSUME NEW S \in SUBSET Nat, S # {}
    PROVE  \E m \in S : \A x \in S : m <= x
<1>1. \E m \in S : \A x \in S : ~(<<x, m>> \in OpToRel(<, Nat))
  BY NatLessThanWellFounded, WFMin, Zenon
<1>2. \A m \in S : \A x \in S : x < m => <<x, m>> \in OpToRel(<, Nat)
  BY Zenon DEF OpToRel
<1>3. \E m \in S : \A x \in S : ~(x < m)
  BY <1>1, <1>2, Zenon
<1>. QED  BY <1>3

(* One that is bounded has a maximum. *)
LEMMA HasMax ==
    ASSUME NEW n \in Nat, NEW S \in SUBSET (0 .. n), S # {}
    PROVE  \E m \in S : \A x \in S : x <= m
<1>. DEFINE T == {n - x : x \in S}
<1>1. T \in SUBSET Nat
  OBVIOUS
<1>2. T # {}
  <2>1. PICK x \in S : TRUE
    OBVIOUS
  <2>2. n - x \in T
    OBVIOUS
  <2>. QED  BY <2>2
<1>3. \A x \in S : n - x \in T
  OBVIOUS
<1>4. \A y \in T : \E x \in S : y = n - x
  OBVIOUS
<1>. HIDE DEF T
<1>5. PICK k \in T : \A y \in T : k <= y
  BY <1>1, <1>2, HasMin
<1>6. PICK m \in S : k = n - m
  BY <1>4
<1>7. \A x \in S : n - m <= n - x
  BY <1>3, <1>5, <1>6
<1>. QED  BY <1>7

(* j is the last position of child c. *)
IsLast(bytes, c, j) ==
    /\ j \in 1 .. Len(bytes) /\ bytes[j][1] = c
    /\ \A k \in 1 .. Len(bytes) : bytes[k][1] = c => k <= j

(* LastRead() is Last() after the last byte that was read. *)
LEMMA LastReadIsLast == \A bytes, c : LastRead(bytes, c) = Last(bytes, c, got[c])
BY DEF LastRead, Last

(* Without bytes of c the last one is still d. *)
LEMMA NoneOf ==
    ASSUME NEW S, NEW bytes \in Seq(S), NEW c, NEW d,
           \A j \in 1 .. Len(bytes) : bytes[j][1] # c
    PROVE  Last(bytes, c, d) = d
BY DEF Last

(* So it is in particular when there are no bytes. *)
LEMMA LastOfEmpty == \A c, d : Last(<< >>, c, d) = d
<1>1. << >> \in Seq({}) /\ \A j \in 1 .. Len(<< >>) : FALSE
  OBVIOUS
<1>. QED  BY <1>1, NoneOf

(* With them it is the one at the last position, of which there is only one. *)
LEMMA SomeOf ==
    ASSUME NEW S, NEW bytes \in Seq(S), NEW c, NEW d, NEW j, IsLast(bytes, c, j)
    PROVE  Last(bytes, c, d) = bytes[j][2]
<1>. DEFINE mine == {k \in DOMAIN bytes : bytes[k][1] = c}
            P(x) == \A k \in mine : k <= x
            m == CHOOSE x \in mine : P(x)
<1>1. j \in mine /\ P(j)
  BY DEF IsLast
<1>2. m \in mine /\ P(m)
  BY <1>1
<1>3. m = j
  <2>1. m \in Int /\ j \in Int /\ m <= j /\ j <= m
    BY <1>1, <1>2
  <2>. QED  BY <2>1
<1>4. mine # {}
  BY <1>1
<1>. QED  BY <1>3, <1>4 DEF Last

(* One of the two is the case. *)
LEMMA SomeOrNone ==
    ASSUME NEW S, NEW bytes \in Seq(S), NEW c
    PROVE  \/ \A j \in 1 .. Len(bytes) : bytes[j][1] # c
           \/ \E j \in 1 .. Len(bytes) : IsLast(bytes, c, j)
<1>. DEFINE mine == {k \in 1 .. Len(bytes) : bytes[k][1] = c}
<1>1. CASE mine = {}
  BY <1>1
<1>2. CASE mine # {}
  <2>1. mine \in SUBSET (0 .. Len(bytes)) /\ Len(bytes) \in Nat
    OBVIOUS
  <2>. HIDE DEF mine
  <2>2. PICK j \in mine : \A k \in mine : k <= j
    BY <1>2, <2>1, HasMax
  <2>. QED  BY <2>2 DEF IsLast, mine
<1>. QED  BY <1>1, <1>2

(* The last byte of a concatenation is that of the second part, after the first. *)
LEMMA LastOfConcat ==
    ASSUME NEW S, NEW s \in Seq(S), NEW t \in Seq(S), NEW c, NEW d
    PROVE  Last(s \o t, c, d) = Last(t, c, Last(s, c, d))
<1>. DEFINE u == s \o t
<1>1. /\ u \in Seq(S) /\ Len(u) = Len(s) + Len(t) /\ Len(s) \in Nat /\ Len(t) \in Nat
      /\ \A j \in 1 .. Len(s) : u[j] = s[j]
      /\ \A j \in 1 .. Len(t) : u[Len(s) + j] = t[j]
      /\ \A j \in 1 .. Len(u) : j \notin 1 .. Len(s) => j - Len(s) \in 1 .. Len(t)
                                                      /\ u[j] = t[j - Len(s)]
  OBVIOUS
<1>. HIDE DEF u
<1>2. CASE \E j \in 1 .. Len(t) : IsLast(t, c, j)
  <2>1. PICK j \in 1 .. Len(t) : IsLast(t, c, j)
    BY <1>2
  <2>2. IsLast(u, c, Len(s) + j)
    <3>1. Len(s) + j \in 1 .. Len(u) /\ u[Len(s) + j][1] = c
      BY <1>1, <2>1 DEF IsLast
    <3>2. ASSUME NEW k \in 1 .. Len(u), u[k][1] = c PROVE k <= Len(s) + j
      <4>1. CASE k \in 1 .. Len(s)
        BY <1>1, <4>1
      <4>2. CASE k \notin 1 .. Len(s)
        <5>1. k - Len(s) \in 1 .. Len(t) /\ t[k - Len(s)][1] = c
          BY <1>1, <3>2, <4>2
        <5>2. k - Len(s) <= j
          BY <5>1, <2>1 DEF IsLast
        <5>. QED  BY <5>2, <1>1
      <4>. QED  BY <4>1, <4>2
    <3>. QED  BY <3>1, <3>2 DEF IsLast
  <2>3. Last(u, c, d) = t[j][2] /\ Last(t, c, Last(s, c, d)) = t[j][2]
    BY <1>1, <2>1, <2>2, SomeOf
  <2>. QED  BY <2>3 DEF u
<1>3. CASE \A j \in 1 .. Len(t) : t[j][1] # c
  <2>1. Last(t, c, Last(s, c, d)) = Last(s, c, d)
    BY <1>3, NoneOf
  <2>2. CASE \E j \in 1 .. Len(s) : IsLast(s, c, j)
    <3>1. PICK j \in 1 .. Len(s) : IsLast(s, c, j)
      BY <2>2
    <3>2. IsLast(u, c, j)
      <4>1. j \in 1 .. Len(u) /\ u[j][1] = c
        BY <1>1, <3>1 DEF IsLast
      <4>2. ASSUME NEW k \in 1 .. Len(u), u[k][1] = c PROVE k <= j
        <5>1. k \in 1 .. Len(s)
          BY <1>1, <1>3, <4>2
        <5>2. s[k][1] = c
          BY <1>1, <4>2, <5>1
        <5>. QED  BY <3>1, <5>1, <5>2 DEF IsLast
      <4>. QED  BY <4>1, <4>2 DEF IsLast
    <3>3. Last(u, c, d) = s[j][2] /\ Last(s, c, d) = s[j][2]
      BY <1>1, <3>1, <3>2, SomeOf
    <3>. QED  BY <2>1, <3>3 DEF u
  <2>3. CASE \A j \in 1 .. Len(s) : s[j][1] # c
    <3>1. \A j \in 1 .. Len(u) : u[j][1] # c
      BY <1>1, <1>3, <2>3
    <3>2. Last(u, c, d) = d /\ Last(s, c, d) = d
      BY <1>1, <2>3, <3>1, NoneOf
    <3>. QED  BY <2>1, <3>2 DEF u
  <2>. QED  BY <2>2, <2>3, SomeOrNone
<1>. QED  BY <1>2, <1>3, SomeOrNone

-----------------------------------------------------------------------------
(* Sequences in order *)

(* Two sequences follow each other in order. *)
LEMMA ChainOfConcat ==
    ASSUME NEW S, NEW s \in Seq(S), NEW t \in Seq(S), NEW c, NEW d
    PROVE  Chain(s \o t, c, d) <=> Chain(s, c, d) /\ Chain(t, c, Last(s, c, d))
<1>. DEFINE u == s \o t
            n == Len(s)
            F(x, j, e) == x[j][1] = c
                          => x[j][2] = (Last(SubSeq(x, 1, j - 1), c, e) % MessageLength) + 1
<1>1. u \in Seq(S) /\ Len(u) = n + Len(t) /\ n \in Nat /\ Len(t) \in Nat
  OBVIOUS
<1>2. ASSUME NEW j \in 1 .. n PROVE F(u, j, d) <=> F(s, j, d)
  <2>1. u[j] = s[j]
    OBVIOUS
  <2>2. SubSeq(u, 1, j - 1) = SubSeq(s, 1, j - 1)
    OBVIOUS
  <2>. QED  BY <2>1, <2>2
<1>3. ASSUME NEW j \in 1 .. Len(t) PROVE F(u, n + j, d) <=> F(t, j, Last(s, c, d))
  <2>1. u[n + j] = t[j]
    OBVIOUS
  <2>2. SubSeq(u, 1, n + j - 1) = s \o SubSeq(t, 1, j - 1) /\ SubSeq(t, 1, j - 1) \in Seq(S)
    OBVIOUS
  <2>. DEFINE v == SubSeq(t, 1, j - 1)
  <2>3. v \in Seq(S)
    BY <2>2
  <2>. HIDE DEF v
  <2>4. Last(s \o v, c, d) = Last(v, c, Last(s, c, d))
    BY <2>3, LastOfConcat
  <2>5. Last(SubSeq(u, 1, n + j - 1), c, d) = Last(v, c, Last(s, c, d))
    BY <2>2, <2>4 DEF v
  <2>. QED  BY <2>1, <2>5 DEF v
<1>4. Chain(u, c, d) <=> \A j \in 1 .. n + Len(t) : F(u, j, d)
  BY <1>1 DEF Chain
<1>5. Chain(s, c, d) <=> \A j \in 1 .. n : F(s, j, d)
  BY DEF Chain
<1>6. Chain(t, c, Last(s, c, d)) <=> \A j \in 1 .. Len(t) : F(t, j, Last(s, c, d))
  BY DEF Chain
<1>. HIDE DEF F, u, n
<1>7. (\A j \in 1 .. n + Len(t) : F(u, j, d))
      <=> (\A j \in 1 .. n : F(u, j, d)) /\ (\A j \in 1 .. Len(t) : F(u, n + j, d))
  <2>1. ASSUME \A j \in 1 .. n : F(u, j, d), \A j \in 1 .. Len(t) : F(u, n + j, d),
               NEW j \in 1 .. n + Len(t)
        PROVE  F(u, j, d)
    <3>1. CASE j \in 1 .. n
      BY <2>1, <3>1
    <3>2. CASE j \notin 1 .. n
      <4>1. j - n \in 1 .. Len(t) /\ n + (j - n) = j
        BY <1>1, <3>2
      <4>2. F(u, n + (j - n), d)
        BY <4>1, <2>1
      <4>. QED  BY <4>1, <4>2
    <3>. QED  BY <3>1, <3>2
  <2>2. \A j \in 1 .. n : j \in 1 .. n + Len(t)
    BY <1>1
  <2>3. \A j \in 1 .. Len(t) : n + j \in 1 .. n + Len(t)
    BY <1>1
  <2>. QED  BY <2>1, <2>2, <2>3
<1>. QED  BY <1>2, <1>3, <1>4, <1>5, <1>6, <1>7 DEF u

(* That is what the property says. *)
LEMMA InOrderIsChain ==
    ASSUME DataTypes
    PROVE  InOrder <=> OrderInv
<1>1. DOMAIN pipe.buf = 1 .. Len(pipe.buf)
  BY DEF DataTypes, Pipes
<1>2. \A c \in Children, j \in 1 .. Len(pipe.buf) :
         Follows(pipe.buf, c, j) <=>
            (pipe.buf[j][1] = c
             => pipe.buf[j][2] = (Last(SubSeq(pipe.buf, 1, j - 1), c, got[c]) % MessageLength) + 1)
  BY LastReadIsLast DEF Follows
<1>3. \A c \in Children : LastRead(pipe.buf, c) = Last(pipe.buf, c, got[c])
  BY LastReadIsLast
<1>. QED  BY <1>1, <1>2, <1>3 DEF InOrder, OrderInv, Chain

-----------------------------------------------------------------------------
(* Writing and reading *)

(* What the sizes are, for the steps that write or read. *)
LEMMA Sizes == /\ MessageLength \in Nat \ {0} /\ Short \in Nat \ {0} /\ Long \in Nat \ {0}
               /\ Capacity \in Nat /\ PipeBuf \in Nat \ {0} /\ Limit \in Nat \ {0}
               /\ Short <= PipeBuf /\ PipeBuf < Long
BY ProgramSizes, PipeSizes DEF MessageLength

(* The next k bytes of a child's message follow those that it has sent. *)
LEMMA NextBytesFollow ==
    ASSUME NEW c \in Children, NEW k \in Nat \ {0},
           sent[c] \in 0 .. MessageLength, Sent(c) + k <= MessageLength
    PROVE  /\ NextBytes(c, k) \in Seq(Bytes) /\ Len(NextBytes(c, k)) = k
           /\ Sent(c) + k \in 0 .. MessageLength
           /\ Chain(NextBytes(c, k), c, sent[c])
           /\ Last(NextBytes(c, k), c, sent[c]) = Sent(c) + k
           /\ \A e \in Children \ {c} : \A d :
                 Chain(NextBytes(c, k), e, d) /\ Last(NextBytes(c, k), e, d) = d
<1>. DEFINE b == NextBytes(c, k)
            L == MessageLength
<1>1. Sent(c) \in 0 .. L - 1 /\ sent[c] % L = Sent(c) /\ L \in Nat \ {0}
  <2>1. L \in Nat \ {0}
    BY Sizes
  <2>. HIDE DEF L
  <2>2. CASE sent[c] = L
    <3>1. L % L = 0
      BY <2>1
    <3>. QED  BY <2>1, <2>2, <3>1 DEF Sent, L
  <2>3. CASE sent[c] # L
    <3>1. sent[c] \in 0 .. L - 1
      BY <2>1, <2>3 DEF L
    <3>2. sent[c] % L = sent[c]
      BY <2>1, <3>1
    <3>. QED  BY <2>1, <2>3, <3>1, <3>2 DEF Sent, L
  <2>. QED  BY <2>2, <2>3
<1>. HIDE DEF L
<1>2. Sent(c) + k <= L
  BY DEF L
<1>3. \A j \in 1 .. k : <<c, Sent(c) + j>> \in Bytes
  BY <1>1, <1>2 DEF Bytes, L
<1>4. b \in Seq(Bytes) /\ Len(b) = k /\ \A j \in 1 .. k : b[j] = <<c, Sent(c) + j>>
  BY <1>3 DEF NextBytes
<1>. HIDE DEF b
<1>5. ASSUME NEW j \in 1 .. k PROVE Last(SubSeq(b, 1, j), c, sent[c]) = Sent(c) + j
  <2>. DEFINE v == SubSeq(b, 1, j)
  <2>1. v \in Seq(Bytes) /\ Len(v) = j /\ \A x \in 1 .. j : v[x] = <<c, Sent(c) + x>>
    BY <1>4
  <2>. HIDE DEF v
  <2>2. IsLast(v, c, j)
    BY <2>1 DEF IsLast
  <2>3. Last(v, c, sent[c]) = v[j][2]
    BY <2>1, <2>2, SomeOf
  <2>. QED  BY <2>1, <2>3 DEF v
<1>6. Chain(b, c, sent[c])
  <2>1. ASSUME NEW j \in 1 .. k
        PROVE  b[j][2] = (Last(SubSeq(b, 1, j - 1), c, sent[c]) % L) + 1
    <3>1. CASE j = 1
      <4>1. SubSeq(b, 1, j - 1) = << >>
        BY <1>4, <3>1
      <4>2. Last(SubSeq(b, 1, j - 1), c, sent[c]) = sent[c]
        BY <4>1, LastOfEmpty
      <4>3. b[j][2] = Sent(c) + 1
        BY <1>4, <3>1
      <4>. QED  BY <1>1, <4>2, <4>3
    <3>2. CASE j # 1
      <4>1. j - 1 \in 1 .. k /\ Sent(c) + (j - 1) \in 0 .. L - 1
        BY <1>1, <1>2, <3>2
      <4>2. Last(SubSeq(b, 1, j - 1), c, sent[c]) = Sent(c) + (j - 1)
        BY <4>1, <1>5
      <4>3. (Sent(c) + (j - 1)) % L = Sent(c) + (j - 1)
        <5>. DEFINE x == Sent(c) + (j - 1)
        <5>1. x \in 0 .. L - 1
          BY <4>1
        <5>. HIDE DEF x
        <5>2. x % L = x
          BY <1>1, <5>1
        <5>. QED  BY <5>2 DEF x
      <4>4. b[j][2] = Sent(c) + j
        BY <1>4
      <4>. QED  BY <1>1, <4>2, <4>3, <4>4
    <3>. QED  BY <3>1, <3>2
  <2>. QED  BY <1>4, <2>1 DEF Chain, L
<1>7. Last(b, c, sent[c]) = Sent(c) + k
  <2>1. SubSeq(b, 1, k) = b
    BY <1>4
  <2>2. Last(SubSeq(b, 1, k), c, sent[c]) = Sent(c) + k
    BY <1>5
  <2>. QED  BY <2>1, <2>2
<1>8. ASSUME NEW e \in Children \ {c}, NEW d PROVE Chain(b, e, d) /\ Last(b, e, d) = d
  <2>1. \A j \in 1 .. Len(b) : b[j][1] # e
    BY <1>4
  <2>. QED  BY <1>4, <2>1, NoneOf DEF Chain
<1>. QED  BY <1>1, <1>2, <1>4, <1>6, <1>7, <1>8 DEF b, L

(* The end of a write() is at most the end of the message. *)
LEMMA PortionFits ==
    ASSUME DataTypes, Progress, NEW c \in Children, pc[c] = "write",
           NEW k \in Portions(pipe, WriteLength, Left(c))
    PROVE  /\ k \in Nat \ {0} /\ Sent(c) + k <= MessageLength /\ Len(pipe.buf) + k <= Capacity
           /\ prog \notin {"reader", "concurrent"} => Sent(c) + k = MessageLength
<1>1. sent[c] \in 0 .. MessageLength /\ Len(pipe.buf) \in Nat /\ Len(pipe.buf) <= Capacity
  BY DEF DataTypes, Pipes
<1>2. Left(c) \in Nat
  BY <1>1, Sizes DEF Left, Sent, WriteLength
<1>3. k \in Nat \ {0} /\ k <= Left(c) /\ k <= Capacity - Len(pipe.buf)
      /\ (WriteLength <= PipeBuf => k = Left(c))
  BY <1>2 DEF Portions, Room
<1>4. CASE prog = "reader"
  BY <1>1, <1>3, <1>4, Sizes DEF Left, Sent, WriteLength, MessageLength
<1>5. CASE prog = "concurrent"
  BY <1>1, <1>3, <1>5, Sizes DEF Left, Sent, WriteLength, MessageLength
<1>6. CASE prog \notin {"reader", "concurrent"}
  <2>1. Sent(c) = 0
    BY <1>6, Sizes DEF Progress, Sent
  <2>. QED  BY <1>1, <1>3, <1>6, <2>1, Sizes DEF Left, WriteLength, MessageLength
<1>. QED  BY <1>1, <1>3, <1>4, <1>5, <1>6, Sizes

(* A child's write() appends to what is in order. *)
LEMMA WriteData ==
    ASSUME IInv, NEW c \in Children, Write(c)
    PROVE  /\ DataTypes' /\ OrderInv'
           /\ prog \notin {"reader", "concurrent"} => sent'[c] = MessageLength
           /\ \A e \in Children \ {c} : sent'[e] = sent[e]
           /\ pipe'.readers = pipe.readers /\ pipe'.writers = pipe.writers
<1>. USE DEF IInv
<1>1. PICK k \in Portions(pipe, WriteLength, Left(c)) :
          /\ pipe' = Appended(pipe, NextBytes(c, k))
          /\ sent' = [sent EXCEPT ![c] = Sent(c) + k]
  BY DEF Write
<1>2. UNCHANGED <<prog, got>> /\ pc[c] = "write" /\ MessageLength' = MessageLength
  BY DEF Write, MessageLength
<1>3. /\ k \in Nat \ {0} /\ Sent(c) + k <= MessageLength /\ Len(pipe.buf) + k <= Capacity
      /\ prog \notin {"reader", "concurrent"} => Sent(c) + k = MessageLength
  BY <1>2, PortionFits
<1>4. sent[c] \in 0 .. MessageLength
  BY DEF DataTypes
<1>. DEFINE b == NextBytes(c, k)
<1>5. /\ b \in Seq(Bytes) /\ Len(b) = k /\ Sent(c) + k \in 0 .. MessageLength
      /\ Chain(b, c, sent[c]) /\ Last(b, c, sent[c]) = Sent(c) + k
      /\ \A e \in Children \ {c} : \A d : Chain(b, e, d) /\ Last(b, e, d) = d
  BY <1>3, <1>4, NextBytesFollow
<1>. HIDE DEF b
<1>6. /\ pipe' \in Pipes /\ pipe'.buf = pipe.buf \o b
      /\ pipe'.readers = pipe.readers /\ pipe'.writers = pipe.writers
      /\ pipe.buf \in Seq(Bytes) /\ Len(pipe'.buf) = Len(pipe.buf) + k
  <2>1. pipe.buf \in Seq(Bytes)
    BY DEF DataTypes, Pipes
  <2>2. pipe.buf \o b \in Seq(Bytes) /\ Len(pipe.buf \o b) = Len(pipe.buf) + k
    BY <1>5, <2>1
  <2>3. pipe' = [pipe EXCEPT !.buf = pipe.buf \o b]
    BY <1>1 DEF Appended, b
  <2>. QED  BY <2>1, <2>2, <2>3 DEF DataTypes, Pipes
<1>7. sent' \in [Children -> 0 .. MessageLength] /\ sent'[c] = Sent(c) + k
      /\ \A e \in Children \ {c} : sent'[e] = sent[e]
  BY <1>1, <1>5 DEF DataTypes
<1>8. DataTypes'
  BY <1>2, <1>3, <1>6, <1>7 DEF DataTypes, Pipes, Bytes
<1>9. ASSUME NEW e \in Children
      PROVE  Chain(pipe.buf \o b, e, got[e]) /\ Last(pipe.buf \o b, e, got[e]) = sent'[e]
  <2>1. Chain(pipe.buf, e, got[e]) /\ Last(pipe.buf, e, got[e]) = sent[e]
    BY DEF OrderInv
  <2>2. Chain(b, e, sent[e]) /\ Last(b, e, sent[e]) = sent'[e]
    BY <1>5, <1>7
  <2>3. Chain(pipe.buf \o b, e, got[e]) <=> Chain(pipe.buf, e, got[e]) /\ Chain(b, e, sent[e])
    BY <1>5, <1>6, <2>1, ChainOfConcat
  <2>4. Last(pipe.buf \o b, e, got[e]) = Last(b, e, sent[e])
    BY <1>5, <1>6, <2>1, LastOfConcat
  <2>. QED  BY <2>1, <2>2, <2>3, <2>4
<1>10. OrderInv'
  BY <1>2, <1>6, <1>9 DEF OrderInv, Chain
<1>. QED  BY <1>3, <1>6, <1>7, <1>8, <1>10

(* A first part of a sequence and the rest are the sequence. *)
LEMMA TwoParts ==
    ASSUME NEW S, NEW q \in Seq(S), NEW n \in 0 .. Len(q)
    PROVE  /\ SubSeq(q, 1, n) \in Seq(S) /\ Len(SubSeq(q, 1, n)) = n
           /\ SubSeq(q, n + 1, Len(q)) \in Seq(S) /\ Len(SubSeq(q, n + 1, Len(q))) = Len(q) - n
           /\ q = SubSeq(q, 1, n) \o SubSeq(q, n + 1, Len(q))
<1>1. Len(q) \in Nat /\ n \in Nat /\ n <= Len(q)
  OBVIOUS
<1>2. SubSeq(q, 1, n) \in Seq(S) /\ Len(SubSeq(q, 1, n)) = n
  BY <1>1, SubSeqProperties
<1>3. SubSeq(q, n + 1, Len(q)) \in Seq(S) /\ Len(SubSeq(q, n + 1, Len(q))) = Len(q) - n
  BY <1>1, SubSeqProperties
<1>4. SubSeq(q, 1, n) \o SubSeq(q, n + 1, Len(q)) = SubSeq(q, 1, Len(q))
  <2>1. 1 \in 1 .. Len(q) + 1 /\ n \in 1 - 1 .. Len(q) /\ Len(q) \in n .. Len(q)
    BY <1>1
  <2>. QED  BY <2>1, ConcatAdjacentSubSeq
<1>5. SubSeq(q, 1, Len(q)) = q
  BY SubSeqFull
<1>. QED  BY <1>2, <1>3, <1>4, <1>5

(* The parent's read() takes a first part of it. *)
LEMMA ReadData ==
    ASSUME IInv, Read
    PROVE  /\ DataTypes' /\ OrderInv'
           /\ pipe'.readers = pipe.readers /\ pipe'.writers = pipe.writers
<1>. USE DEF IInv
<1>. DEFINE n == IF ReadLength < Len(pipe.buf) THEN ReadLength ELSE Len(pipe.buf)
            s == SubSeq(pipe.buf, 1, n)
            r == SubSeq(pipe.buf, n + 1, Len(pipe.buf))
<1>1. UNCHANGED <<prog, sent>> /\ MessageLength' = MessageLength
  BY DEF Read, MessageLength
<1>2. pipe.buf \in Seq(Bytes) /\ Len(pipe.buf) \in Nat /\ Len(pipe.buf) <= Capacity
  BY DEF DataTypes, Pipes
<1>3. n \in 0 .. Len(pipe.buf)
  BY <1>2, Sizes DEF ReadLength
<1>4. Portion(pipe, ReadLength) = s
  BY DEF Portion
<1>. HIDE DEF n
<1>5. /\ s \in Seq(Bytes) /\ r \in Seq(Bytes) /\ pipe.buf = s \o r
      /\ Len(r) <= Len(pipe.buf) /\ Len(r) \in Nat /\ Len(s) = n
  <2>1. /\ s \in Seq(Bytes) /\ r \in Seq(Bytes) /\ pipe.buf = s \o r
        /\ Len(r) = Len(pipe.buf) - n /\ Len(s) = n
    BY <1>2, <1>3, TwoParts
  <2>. HIDE DEF s, r
  <2>. QED  BY <1>2, <1>3, <2>1
<1>6. /\ pipe' \in Pipes /\ pipe'.buf = r
      /\ pipe'.readers = pipe.readers /\ pipe'.writers = pipe.writers
  <2>1. pipe' = [pipe EXCEPT !.buf = r]
    BY <1>4, <1>5 DEF Read, Drained
  <2>. QED  BY <1>5, <2>1 DEF DataTypes, Pipes
<1>. HIDE DEF s, r
<1>7. got' = [c \in Children |-> Last(s, c, got[c])]
  BY <1>4, LastReadIsLast DEF Read
<1>8. ASSUME NEW c \in Children PROVE Last(s, c, got[c]) \in 0 .. MessageLength
  <2>1. CASE \A j \in 1 .. Len(s) : s[j][1] # c
    BY <1>5, <2>1, NoneOf DEF DataTypes
  <2>2. CASE \E j \in 1 .. Len(s) : IsLast(s, c, j)
    <3>1. PICK j \in 1 .. Len(s) : IsLast(s, c, j)
      BY <2>2
    <3>2. Last(s, c, got[c]) = s[j][2] /\ s[j] \in Bytes
      BY <1>5, <3>1, SomeOf
    <3>3. s[j][2] \in 1 .. MessageLength
      BY <3>2 DEF Bytes
    <3>. QED  BY <3>2, <3>3, Sizes
  <2>. QED  BY <1>5, <2>1, <2>2, SomeOrNone
<1>9. DataTypes'
  <2>1. Pipes' = Pipes
    BY <1>1 DEF Pipes, Bytes
  <2>2. got' \in [Children -> 0 .. MessageLength]
    BY <1>7, <1>8
  <2>3. Len(pipe'.buf) <= Capacity
    BY <1>2, <1>5, <1>6, Sizes
  <2>. QED  BY <1>1, <1>6, <2>1, <2>2, <2>3 DEF DataTypes
<1>10. ASSUME NEW c \in Children
       PROVE  Chain(r, c, got'[c]) /\ Last(r, c, got'[c]) = sent'[c]
  <2>1. Chain(s \o r, c, got[c]) /\ Last(s \o r, c, got[c]) = sent[c]
    BY <1>5 DEF OrderInv
  <2>2. Chain(r, c, Last(s, c, got[c]))
    BY <1>5, <2>1, ChainOfConcat
  <2>3. Last(r, c, Last(s, c, got[c])) = sent[c]
    BY <1>5, <2>1, LastOfConcat
  <2>. QED  BY <1>1, <1>7, <2>2, <2>3
<1>11. OrderInv'
  BY <1>1, <1>6, <1>10 DEF OrderInv, Chain
<1>. QED  BY <1>6, <1>9, <1>11

(* Whatever else leaves the data alone leaves them in order. *)
LEMMA DataKept ==
    ASSUME IInv, UNCHANGED <<prog, sent, got>>, pipe' \in Pipes, pipe'.buf = pipe.buf
    PROVE  DataTypes' /\ OrderInv'
<1>1. MessageLength' = MessageLength
  BY DEF MessageLength
<1>2. DataTypes'
  BY <1>1 DEF IInv, DataTypes, Pipes, Bytes
<1>3. OrderInv'
  BY <1>1 DEF IInv, OrderInv, Chain
<1>. QED  BY <1>2, <1>3

(* close() and exit() take a process from an end of the pipe or from both. *)
LEMMA Closings ==
    ASSUME DataTypes, NEW p
    PROVE  /\ CloseRead(pipe, p) \in Pipes /\ CloseWrite(pipe, p) \in Pipes
           /\ CloseBoth(pipe, p) \in Pipes
           /\ CloseRead(pipe, p).buf = pipe.buf /\ CloseWrite(pipe, p).buf = pipe.buf
           /\ CloseBoth(pipe, p).buf = pipe.buf
           /\ CloseRead(pipe, p).readers = pipe.readers \ {p}
           /\ CloseRead(pipe, p).writers = pipe.writers
           /\ CloseWrite(pipe, p).readers = pipe.readers
           /\ CloseWrite(pipe, p).writers = pipe.writers \ {p}
           /\ CloseBoth(pipe, p).readers = pipe.readers \ {p}
           /\ CloseBoth(pipe, p).writers = pipe.writers \ {p}
BY DEF DataTypes, Pipes, CloseRead, CloseWrite, CloseBoth

-----------------------------------------------------------------------------
(* Where the processes are *)

(* The invariant holds in the initial states. *)
LEMMA InitInv == Init => IInv
<1>. SUFFICES ASSUME Init PROVE IInv
  OBVIOUS
<1>. USE Sizes DEF Init
<1>1. DataTypes
  BY DEF DataTypes, Pipes, Processes
<1>2. ControlTypes
  BY DEF ControlTypes, ParentLabels, ChildLabels, Codes
<1>3. Stages
  BY DEF Stages, Processes, Children, ParentLabels
<1>4. Endings
  BY DEF Endings, Processes, Children
<1>5. Ends
  BY DEF Ends, Processes, Children
<1>6. Progress
  BY DEF Progress, Processes, Children
<1>7. OrderInv
  BY LastOfEmpty DEF OrderInv, Chain
<1>8. WholeMessage /\ KilledOnlyAsOrphan
  BY DEF WholeMessage, KilledOnlyAsOrphan, Ended, Processes, Children
<1>. QED  BY <1>1, <1>2, <1>3, <1>4, <1>5, <1>6, <1>7, <1>8 DEF IInv

(* A child closes its copy of the end it does not use. *)
LEMMA ChildCloseReadStep == ASSUME IInv, NEW c \in Children, ChildCloseRead(c) PROVE IInv'
<1>. USE DEF IInv, Processes, Children
<1>1. /\ pc[c] = "closeRead" /\ pc' = [pc EXCEPT ![c] = "write"]
      /\ pipe' = CloseRead(pipe, c)
      /\ UNCHANGED <<prog, exit, sent, got, counter>>
  BY DEF ChildCloseRead, ClosesRead, Goto
<1>2. /\ pipe' \in Pipes /\ pipe'.buf = pipe.buf
      /\ pipe'.readers = pipe.readers \ {c} /\ pipe'.writers = pipe.writers
  BY <1>1, Closings
<1>3. DataTypes' /\ OrderInv'
  BY <1>1, <1>2, DataKept
<1>4. MessageLength' = MessageLength
  BY <1>1 DEF MessageLength
<1>5. ControlTypes'
  BY <1>1 DEF ControlTypes, ChildLabels
<1>6. Stages'
  BY <1>1 DEF Stages, ControlTypes
<1>7. Endings'
  BY <1>1 DEF Endings, ControlTypes, Stages
<1>8. Ends'
  BY <1>1, <1>2 DEF Ends, ControlTypes
<1>9. Progress'
  BY <1>1, <1>2, <1>4 DEF Progress, ControlTypes, Stages
<1>10. WholeMessage'
  BY <1>1 DEF WholeMessage, ControlTypes
<1>11. KilledOnlyAsOrphan'
  BY <1>1 DEF KilledOnlyAsOrphan, Ended
<1>. QED  BY <1>3, <1>5, <1>6, <1>7, <1>8, <1>9, <1>10, <1>11

(* A child writes, and is done with it or not. *)
LEMMA WriteStep == ASSUME IInv, NEW c \in Children, Write(c) PROVE IInv'
<1>. USE DEF IInv, Processes, Children
<1>1. /\ pc[c] = "write" /\ UNCHANGED <<prog, exit, got>>
      /\ counter' = IF prog = "fifo" THEN counter - 1 ELSE counter
      /\ pc' = [pc EXCEPT ![c] = IF prog = "simple" \/ (prog = "fifo" /\ counter' = 0)
                                 THEN "closeWrite" ELSE "write"]
  BY DEF Write, LastWritten, OneWritten, Goto
<1>2. /\ DataTypes' /\ OrderInv'
      /\ prog \notin {"reader", "concurrent"} => sent'[c] = MessageLength
      /\ \A e \in Children \ {c} : sent'[e] = sent[e]
      /\ pipe'.readers = pipe.readers /\ pipe'.writers = pipe.writers
  BY WriteData
<1>3. MessageLength' = MessageLength
  BY <1>1 DEF MessageLength
<1>4. counter' \in 0 .. Limit /\ (pc[c] = "write" /\ prog = "fifo" => c = "child1")
  BY <1>1, Sizes DEF ControlTypes, Stages, Progress
<1>5. ControlTypes'
  BY <1>1, <1>2, <1>3, <1>4 DEF ControlTypes, ParentLabels, ChildLabels, Codes
<1>6. Stages'
  BY <1>1, <1>2, <1>3, <1>4 DEF Stages, ControlTypes, ParentLabels
<1>7. Endings'
  BY <1>1, <1>2, <1>3, <1>4 DEF Endings, ControlTypes, Stages
<1>8. Ends'
  BY <1>1, <1>2, <1>3, <1>4 DEF Ends, ControlTypes, Stages, Endings
<1>9. Progress'
  BY <1>1, <1>2, <1>3, <1>4 DEF Progress, ControlTypes, Stages
<1>10. WholeMessage'
  BY <1>1, <1>2, <1>3, <1>4 DEF WholeMessage, ControlTypes
<1>11. KilledOnlyAsOrphan'
  BY <1>1, <1>2, <1>3, <1>4 DEF KilledOnlyAsOrphan, Ended, ControlTypes, Stages, Progress
<1>. QED  BY <1>2, <1>5, <1>6, <1>7, <1>8, <1>9, <1>10, <1>11

(* Nobody can read any more only if the parent has ended in one of two ways, or reads no
   more; so it is here that SIGPIPE kills no child whose parent still runs. *)
LEMMA WriteBrokenStep == ASSUME IInv, NEW c \in Children, WriteBroken(c) PROVE IInv'
<1>. USE DEF IInv, Processes, Children
<1>1. /\ pc[c] = "write" /\ pipe.readers = {} /\ pc' = [pc EXCEPT ![c] = "exited"]
      /\ exit' = [exit EXCEPT ![c] = IF prog = "reader" THEN "1" ELSE "SIGPIPE"]
      /\ pipe' = CloseBoth(pipe, c) /\ UNCHANGED <<prog, sent, got, counter>>
  BY DEF WriteBroken, IsBroken, Exit, Goto
<1>2. /\ pipe' \in Pipes /\ pipe'.buf = pipe.buf
      /\ pipe'.readers = pipe.readers \ {c} /\ pipe'.writers = pipe.writers \ {c}
  BY <1>1, Closings
<1>3. DataTypes' /\ OrderInv'
  BY <1>1, <1>2, DataKept
<1>4. MessageLength' = MessageLength
  BY <1>1 DEF MessageLength
<1>5. \/ prog = "reader"
      \/ prog = "concurrent" /\ exit["parent"] = "1"
      \/ prog = "fifo" /\ exit["parent"] = "SIGINT"
  <2>1. c \in pipe.writers /\ pipe.writers # {}
    BY <1>1 DEF Ends
  <2>2. pc["parent"] \notin {"fork1", "fork2", "closeWrite", "read", "spin", "closeRead", "opening"}
    BY <1>1 DEF Ends
  <2>3. pc["parent"] \notin {"pipe", "open"}
    BY <1>1 DEF Stages
  <2>4. CASE prog # "reader" /\ pc["parent"] \in {"wait", "exited"}
    <3>1. pc["parent"] = "exited" /\ exit["parent"] \in {"1", "SIGINT"}
      BY <2>1, <2>4 DEF Ends, Endings, ControlTypes, Codes
    <3>. QED  BY <1>1, <3>1 DEF Endings, Stages
  <2>5. pc["parent"] \in {"wait", "exited"}
    BY <2>2, <2>3 DEF Stages, ParentLabels
  <2>. QED  BY <2>4, <2>5
<1>13. prog = "reader" => c = "child1" /\ counter = 0 /\ pc["parent"] \in {"wait", "exited"}
  <2>. SUFFICES ASSUME prog = "reader"
                PROVE  c = "child1" /\ counter = 0 /\ pc["parent"] \in {"wait", "exited"}
    OBVIOUS
  <2>1. c = "child1"
    BY <1>1 DEF Stages
  <2>2. pc["parent"] \in {"wait", "exited"}
    <3>1. pc["parent"] \notin {"fork1", "fork2", "closeWrite", "read", "spin", "closeRead", "opening"}
      BY <1>1 DEF Ends
    <3>2. pc["parent"] \notin {"pipe", "open"}
      BY <1>1 DEF Stages
    <3>. QED  BY <3>1, <3>2 DEF Stages, ParentLabels
  <2>3. pc["parent"] = "exited" => exit["parent"] = "0"
    BY <1>1 DEF Endings, ControlTypes, Codes
  <2>. QED  BY <2>1, <2>2, <2>3 DEF Progress
<1>6. ControlTypes'
  BY <1>1, <1>2, <1>4, <1>5 DEF ControlTypes, ParentLabels, ChildLabels, Codes
<1>7. Stages'
  BY <1>1, <1>2, <1>4, <1>5 DEF Stages, ControlTypes, ParentLabels
<1>8. Endings'
  BY <1>1, <1>2, <1>4, <1>5 DEF Endings, ControlTypes, Stages
<1>9. Ends'
  BY <1>1, <1>2, <1>4, <1>5 DEF Ends, ControlTypes, Stages, Endings
<1>10. Progress'
  BY <1>1, <1>2, <1>4, <1>5 DEF Progress, ControlTypes, Stages
<1>11. WholeMessage'
  BY <1>1, <1>2, <1>4, <1>5 DEF WholeMessage, ControlTypes
<1>12. KilledOnlyAsOrphan'
  <2>1. exit'[c] = "SIGPIPE" => \/ prog = "concurrent" /\ exit["parent"] = "1"
                                \/ prog = "fifo" /\ exit["parent"] = "SIGINT"
    BY <1>1, <1>5 DEF ControlTypes
  <2>2. /\ prog = "reader" => exit'[c] = "1"
        /\ exit'["parent"] = exit["parent"] /\ pc'["parent"] = pc["parent"]
        /\ \A e \in Children \ {c} : exit'[e] = exit[e] /\ pc'[e] = pc[e]
    BY <1>1 DEF ControlTypes
  <2>. QED  BY <1>1, <1>13, <2>1, <2>2 DEF KilledOnlyAsOrphan, Ended
<1>. QED  BY <1>3, <1>6, <1>7, <1>8, <1>9, <1>10, <1>11, <1>12

(* The child is done. *)
LEMMA ChildReturnStep == ASSUME IInv, NEW c \in Children, ChildReturn(c) PROVE IInv'
<1>. USE DEF IInv, Processes, Children
<1>1. /\ pc[c] = "closeWrite" /\ pc' = [pc EXCEPT ![c] = "exited"]
      /\ exit' = [exit EXCEPT ![c] = "0"]
      /\ pipe' = CloseBoth(pipe, c) /\ UNCHANGED <<prog, sent, got, counter>>
  BY DEF ChildReturn, Exit, Goto
<1>2. /\ pipe' \in Pipes /\ pipe'.buf = pipe.buf
      /\ pipe'.readers = pipe.readers \ {c}
      /\ pipe'.writers = pipe.writers \ {c}
  BY <1>1, Closings
<1>3. DataTypes' /\ OrderInv'
  BY <1>1, <1>2, DataKept
<1>4. MessageLength' = MessageLength
  BY <1>1 DEF MessageLength
<1>5. ControlTypes'
  BY <1>1, <1>2, <1>4 DEF ControlTypes, ParentLabels, ChildLabels, Codes
<1>6. Stages'
  BY <1>1, <1>2, <1>4 DEF Stages, ControlTypes, ParentLabels
<1>7. Endings'
  BY <1>1, <1>2, <1>4 DEF Endings, ControlTypes, Stages
<1>8. Ends'
  BY <1>1, <1>2, <1>4 DEF Ends, ControlTypes, Stages, Endings
<1>9. Progress'
  BY <1>1, <1>2, <1>4 DEF Progress, ControlTypes, Stages
<1>10. WholeMessage'
  BY <1>1, <1>2, <1>4 DEF WholeMessage, ControlTypes
<1>11. KilledOnlyAsOrphan'
  BY <1>1, <1>2, <1>4 DEF KilledOnlyAsOrphan, Ended, ControlTypes, Stages, Progress
<1>. QED  BY <1>3, <1>5, <1>6, <1>7, <1>8, <1>9, <1>10, <1>11

(* fifo-writer.c has a fifo, or is asked for enter. *)
LEMMA WriterGoesOnStep == ASSUME IInv, MkFifo \/ PressEnter PROVE IInv'
<1>. USE DEF IInv, Processes, Children
<1>1. /\ \/ pc["child1"] = "mkfifo" /\ pc' = [pc EXCEPT !["child1"] = "open"]
         \/ pc["child1"] = "enter" /\ pc' = [pc EXCEPT !["child1"] = "write"]
      /\ UNCHANGED <<prog, pipe, exit, sent, got, counter>>
  BY DEF MkFifo, PressEnter, Goto
<1>2. pipe' \in Pipes /\ pipe' = pipe /\ pipe'.buf = pipe.buf
  BY <1>1 DEF DataTypes
<1>3. DataTypes' /\ OrderInv'
  BY <1>1, <1>2, DataKept
<1>4. MessageLength' = MessageLength
  BY <1>1 DEF MessageLength
<1>5. ControlTypes'
  BY <1>1, <1>2, <1>4 DEF ControlTypes, ParentLabels, ChildLabels, Codes
<1>6. Stages'
  BY <1>1, <1>2, <1>4 DEF Stages, ControlTypes, ParentLabels
<1>7. Endings'
  BY <1>1, <1>2, <1>4 DEF Endings, ControlTypes, Stages
<1>8. Ends'
  BY <1>1, <1>2, <1>4 DEF Ends, ControlTypes, Stages, Endings
<1>9. Progress'
  BY <1>1, <1>2, <1>4 DEF Progress, ControlTypes, Stages
<1>10. WholeMessage'
  BY <1>1, <1>2, <1>4 DEF WholeMessage, ControlTypes
<1>11. KilledOnlyAsOrphan'
  BY <1>1, <1>2, <1>4 DEF KilledOnlyAsOrphan, Ended, ControlTypes, Stages, Progress
<1>. QED  BY <1>3, <1>5, <1>6, <1>7, <1>8, <1>9, <1>10, <1>11

(* fifo-writer.c opens the fifo, and goes on if the reader waits for it. *)
LEMMA WriterOpensStep == ASSUME IInv, OpenFifo("child1", "parent") PROVE IInv'
<1>. USE DEF IInv, Processes, Children
<1>1. /\ prog = "fifo" /\ pc["child1"] = "open"
      /\ pc' = IF pc["parent"] = "opening"
               THEN [pc EXCEPT !["parent"] = "read", !["child1"] = "enter"]
               ELSE [pc EXCEPT !["child1"] = "opening"]
      /\ pipe' = [pipe EXCEPT !.readers = @ \cup ({"child1"} \cap {"parent"}),
                               !.writers = @ \cup ({"child1"} \cap {"child1"})]
      /\ UNCHANGED <<prog, exit, sent, got, counter>>
  BY DEF OpenFifo, Goto
<1>2. /\ pipe' \in Pipes /\ pipe'.buf = pipe.buf
      /\ pipe'.readers = pipe.readers /\ pipe'.writers = pipe.writers \cup {"child1"}
  BY <1>1 DEF DataTypes, Pipes
<1>3. DataTypes' /\ OrderInv'
  BY <1>1, <1>2, DataKept
<1>4. MessageLength' = MessageLength
  BY <1>1 DEF MessageLength
<1>5. ControlTypes'
  BY <1>1, <1>2, <1>4 DEF ControlTypes, ParentLabels, ChildLabels, Codes
<1>6. Stages'
  BY <1>1, <1>2, <1>4 DEF Stages, ControlTypes, ParentLabels, Endings
<1>7. Endings'
  BY <1>1, <1>2, <1>4 DEF Endings, ControlTypes, Stages
<1>8. Ends'
  BY <1>1, <1>2, <1>4 DEF Ends, ControlTypes, Stages, Endings
<1>9. Progress'
  BY <1>1, <1>2, <1>4 DEF Progress, ControlTypes, Stages
<1>10. WholeMessage'
  BY <1>1, <1>2, <1>4 DEF WholeMessage, ControlTypes
<1>11. KilledOnlyAsOrphan'
  BY <1>1, <1>2, <1>4 DEF KilledOnlyAsOrphan, Ended, ControlTypes, Stages, Progress
<1>. QED  BY <1>3, <1>5, <1>6, <1>7, <1>8, <1>9, <1>10, <1>11

(* fifo-reader.c opens the fifo, and goes on if the writer waits for it. *)
LEMMA ReaderOpensStep == ASSUME IInv, OpenFifo("parent", "child1") PROVE IInv'
<1>. USE DEF IInv, Processes, Children
<1>1. /\ prog = "fifo" /\ pc["parent"] = "open"
      /\ pc' = IF pc["child1"] = "opening"
               THEN [pc EXCEPT !["parent"] = "read", !["child1"] = "enter"]
               ELSE [pc EXCEPT !["parent"] = "opening"]
      /\ pipe' = [pipe EXCEPT !.readers = @ \cup ({"parent"} \cap {"parent"}),
                               !.writers = @ \cup ({"parent"} \cap {"child1"})]
      /\ UNCHANGED <<prog, exit, sent, got, counter>>
  BY DEF OpenFifo, Goto
<1>2. /\ pipe' \in Pipes /\ pipe'.buf = pipe.buf
      /\ pipe'.readers = pipe.readers \cup {"parent"} /\ pipe'.writers = pipe.writers
  BY <1>1 DEF DataTypes, Pipes
<1>3. DataTypes' /\ OrderInv'
  BY <1>1, <1>2, DataKept
<1>4. MessageLength' = MessageLength
  BY <1>1 DEF MessageLength
<1>5. ControlTypes'
  BY <1>1, <1>2, <1>4 DEF ControlTypes, ParentLabels, ChildLabels, Codes
<1>6. Stages'
  BY <1>1, <1>2, <1>4 DEF Stages, ControlTypes, ParentLabels, Endings
<1>7. Endings'
  BY <1>1, <1>2, <1>4 DEF Endings, ControlTypes, Stages
<1>8. Ends'
  BY <1>1, <1>2, <1>4 DEF Ends, ControlTypes, Stages, Endings
<1>9. Progress'
  BY <1>1, <1>2, <1>4 DEF Progress, ControlTypes, Stages
<1>10. WholeMessage'
  BY <1>1, <1>2, <1>4 DEF WholeMessage, ControlTypes
<1>11. KilledOnlyAsOrphan'
  BY <1>1, <1>2, <1>4 DEF KilledOnlyAsOrphan, Ended, ControlTypes, Stages, Progress
<1>. QED  BY <1>3, <1>5, <1>6, <1>7, <1>8, <1>9, <1>10, <1>11

(* mkfifo() or open() fails, in one of the two. *)
LEMMA OpenFailsStep == ASSUME IInv, NEW p \in {"child1", "parent"}, OpenFails(p) PROVE IInv'
<1>. USE DEF IInv, Processes, Children
<1>1. /\ pc[p] \in {"mkfifo", "open"} /\ pc' = [pc EXCEPT ![p] = "exited"]
      /\ exit' = [exit EXCEPT ![p] = "1"]
      /\ pipe' = CloseBoth(pipe, p) /\ UNCHANGED <<prog, sent, got, counter>>
  BY DEF OpenFails, Exit, Goto
<1>2. /\ pipe' \in Pipes /\ pipe'.buf = pipe.buf
      /\ pipe'.readers = pipe.readers \ {p}
      /\ pipe'.writers = pipe.writers \ {p}
  BY <1>1, Closings
<1>3. DataTypes' /\ OrderInv'
  BY <1>1, <1>2, DataKept
<1>4. MessageLength' = MessageLength
  BY <1>1 DEF MessageLength
<1>5. ControlTypes'
  BY <1>1, <1>2, <1>4 DEF ControlTypes, ParentLabels, ChildLabels, Codes
<1>6. Stages'
  BY <1>1, <1>2, <1>4 DEF Stages, ControlTypes, ParentLabels
<1>7. Endings'
  BY <1>1, <1>2, <1>4 DEF Endings, ControlTypes, Stages, ParentLabels
<1>8. Ends'
  BY <1>1, <1>2, <1>4 DEF Ends, ControlTypes, Stages, Endings
<1>9. Progress'
  BY <1>1, <1>2, <1>4 DEF Progress, ControlTypes, Stages
<1>10. WholeMessage'
  BY <1>1, <1>2, <1>4 DEF WholeMessage, ControlTypes
<1>11. KilledOnlyAsOrphan'
  BY <1>1, <1>2, <1>4 DEF KilledOnlyAsOrphan, Ended, ControlTypes, Stages, Endings, Progress
<1>. QED  BY <1>3, <1>5, <1>6, <1>7, <1>8, <1>9, <1>10, <1>11

(* The user ends fifo-reader.c. *)
LEMMA InterruptStep == ASSUME IInv, Interrupt PROVE IInv'
<1>. USE DEF IInv, Processes, Children
<1>1. /\ prog = "fifo" /\ pc["parent"] # "exited" /\ pc' = [pc EXCEPT !["parent"] = "exited"]
      /\ exit' = [exit EXCEPT !["parent"] = "SIGINT"]
      /\ pipe' = CloseBoth(pipe, "parent") /\ UNCHANGED <<prog, sent, got, counter>>
  BY DEF Interrupt, Exit, Goto
<1>2. /\ pipe' \in Pipes /\ pipe'.buf = pipe.buf
      /\ pipe'.readers = pipe.readers \ {"parent"}
      /\ pipe'.writers = pipe.writers \ {"parent"}
  BY <1>1, Closings
<1>3. DataTypes' /\ OrderInv'
  BY <1>1, <1>2, DataKept
<1>4. MessageLength' = MessageLength
  BY <1>1 DEF MessageLength
<1>5. ControlTypes'
  BY <1>1, <1>2, <1>4 DEF ControlTypes, ParentLabels, ChildLabels, Codes
<1>6. Stages'
  BY <1>1, <1>2, <1>4 DEF Stages, ControlTypes, ParentLabels
<1>7. Endings'
  BY <1>1, <1>2, <1>4 DEF Endings, ControlTypes, Stages
<1>8. Ends'
  BY <1>1, <1>2, <1>4 DEF Ends, ControlTypes, Stages, Endings
<1>9. Progress'
  BY <1>1, <1>2, <1>4 DEF Progress, ControlTypes, Stages
<1>10. WholeMessage'
  BY <1>1, <1>2, <1>4 DEF WholeMessage, ControlTypes
<1>11. KilledOnlyAsOrphan'
  BY <1>1, <1>2, <1>4 DEF KilledOnlyAsOrphan, Ended, ControlTypes, Stages, Progress
<1>. QED  BY <1>3, <1>5, <1>6, <1>7, <1>8, <1>9, <1>10, <1>11

(* The parent gives up. *)
LEMMA FailStep == ASSUME IInv, Fail PROVE IInv'
<1>. USE DEF IInv, Processes, Children
<1>1. /\ pc["parent"] \in {"pipe", "fork1", "fork2"} /\ pc' = [pc EXCEPT !["parent"] = "exited"]
      /\ exit' = [exit EXCEPT !["parent"] = "1"]
      /\ pipe' = CloseBoth(pipe, "parent") /\ UNCHANGED <<prog, sent, got, counter>>
  BY DEF Fail, Exit, Goto
<1>2. /\ pipe' \in Pipes /\ pipe'.buf = pipe.buf
      /\ pipe'.readers = pipe.readers \ {"parent"}
      /\ pipe'.writers = pipe.writers \ {"parent"}
  BY <1>1, Closings
<1>3. DataTypes' /\ OrderInv'
  BY <1>1, <1>2, DataKept
<1>4. MessageLength' = MessageLength
  BY <1>1 DEF MessageLength
<1>5. ControlTypes'
  BY <1>1, <1>2, <1>4 DEF ControlTypes, ParentLabels, ChildLabels, Codes
<1>6. Stages'
  BY <1>1, <1>2, <1>4 DEF Stages, ControlTypes, ParentLabels
<1>7. Endings'
  BY <1>1, <1>2, <1>4 DEF Endings, ControlTypes, Stages
<1>8. Ends'
  BY <1>1, <1>2, <1>4 DEF Ends, ControlTypes, Stages, Endings
<1>9. Progress'
  BY <1>1, <1>2, <1>4 DEF Progress, ControlTypes, Stages
<1>10. WholeMessage'
  BY <1>1, <1>2, <1>4 DEF WholeMessage, ControlTypes
<1>11. KilledOnlyAsOrphan'
  BY <1>1, <1>2, <1>4 DEF KilledOnlyAsOrphan, Ended, ControlTypes, Stages, Endings, Progress
<1>. QED  BY <1>3, <1>5, <1>6, <1>7, <1>8, <1>9, <1>10, <1>11

(* The parent makes the pipe. *)
LEMMA MakePipeStep == ASSUME IInv, MakePipe PROVE IInv'
<1>. USE DEF IInv, Processes, Children
<1>1. /\ pc["parent"] = "pipe" /\ pc' = [pc EXCEPT !["parent"] = "fork1"]
      /\ pipe' = NewPipe("parent") /\ UNCHANGED <<prog, exit, sent, got, counter>>
  BY DEF MakePipe, Goto
<1>2. /\ pipe' \in Pipes /\ pipe'.buf = pipe.buf
      /\ pipe'.readers = {"parent"} /\ pipe'.writers = {"parent"}
  BY <1>1 DEF NewPipe, Pipes, Progress
<1>3. DataTypes' /\ OrderInv'
  BY <1>1, <1>2, DataKept
<1>4. MessageLength' = MessageLength
  BY <1>1 DEF MessageLength
<1>5. ControlTypes'
  BY <1>1, <1>2, <1>4 DEF ControlTypes, ParentLabels, ChildLabels, Codes
<1>6. Stages'
  BY <1>1, <1>2, <1>4 DEF Stages, ControlTypes, ParentLabels
<1>7. Endings'
  BY <1>1, <1>2, <1>4 DEF Endings, ControlTypes, Stages
<1>8. Ends'
  BY <1>1, <1>2, <1>4 DEF Ends, ControlTypes, Stages, Endings
<1>9. Progress'
  BY <1>1, <1>2, <1>4 DEF Progress, ControlTypes, Stages
<1>10. WholeMessage'
  BY <1>1, <1>2, <1>4 DEF WholeMessage, ControlTypes
<1>11. KilledOnlyAsOrphan'
  BY <1>1, <1>2, <1>4 DEF KilledOnlyAsOrphan, Ended, ControlTypes, Stages, Progress
<1>. QED  BY <1>3, <1>5, <1>6, <1>7, <1>8, <1>9, <1>10, <1>11

(* The first child gets both ends of the pipe. *)
LEMMA ForkFirstStep == ASSUME IInv, ForkFirst PROVE IInv'
<1>. USE DEF IInv, Processes, Children
<1>1. /\ pc["parent"] = "fork1"
      /\ pc' = [pc EXCEPT !["parent"] = IF prog = "concurrent" THEN "fork2" ELSE "closeWrite",
                         !["child1"] = "closeRead"]
      /\ pipe' = Forked(pipe, "parent", "child1") /\ UNCHANGED <<prog, exit, sent, got, counter>>
  BY DEF ForkFirst, Fork
<1>2. /\ pipe' \in Pipes /\ pipe'.buf = pipe.buf
      /\ pipe'.readers = pipe.readers \cup {"child1"} /\ pipe'.writers = pipe.writers \cup {"child1"}
  BY <1>1 DEF Forked, Ends, DataTypes, Pipes
<1>3. DataTypes' /\ OrderInv'
  BY <1>1, <1>2, DataKept
<1>4. MessageLength' = MessageLength
  BY <1>1 DEF MessageLength
<1>5. ControlTypes'
  BY <1>1, <1>2, <1>4 DEF ControlTypes, ParentLabels, ChildLabels, Codes
<1>6. Stages'
  BY <1>1, <1>2, <1>4 DEF Stages, ControlTypes, ParentLabels
<1>7. Endings'
  BY <1>1, <1>2, <1>4 DEF Endings, ControlTypes, Stages
<1>8. Ends'
  BY <1>1, <1>2, <1>4 DEF Ends, ControlTypes, Stages, Endings
<1>9. Progress'
  BY <1>1, <1>2, <1>4 DEF Progress, ControlTypes, Stages
<1>10. WholeMessage'
  BY <1>1, <1>2, <1>4 DEF WholeMessage, ControlTypes
<1>11. KilledOnlyAsOrphan'
  BY <1>1, <1>2, <1>4 DEF KilledOnlyAsOrphan, Ended, ControlTypes, Stages, Progress
<1>. QED  BY <1>3, <1>5, <1>6, <1>7, <1>8, <1>9, <1>10, <1>11

(* So does the second. *)
LEMMA ForkSecondStep == ASSUME IInv, ForkSecond PROVE IInv'
<1>. USE DEF IInv, Processes, Children
<1>1. /\ pc["parent"] = "fork2"
      /\ pc' = [pc EXCEPT !["parent"] = "closeWrite",
                         !["child2"] = "closeRead"]
      /\ pipe' = Forked(pipe, "parent", "child2") /\ UNCHANGED <<prog, exit, sent, got, counter>>
  BY DEF ForkSecond, Fork
<1>2. /\ pipe' \in Pipes /\ pipe'.buf = pipe.buf
      /\ pipe'.readers = pipe.readers \cup {"child2"} /\ pipe'.writers = pipe.writers \cup {"child2"}
  BY <1>1 DEF Forked, Ends, DataTypes, Pipes
<1>3. DataTypes' /\ OrderInv'
  BY <1>1, <1>2, DataKept
<1>4. MessageLength' = MessageLength
  BY <1>1 DEF MessageLength
<1>5. ControlTypes'
  BY <1>1, <1>2, <1>4 DEF ControlTypes, ParentLabels, ChildLabels, Codes
<1>6. Stages'
  BY <1>1, <1>2, <1>4 DEF Stages, ControlTypes, ParentLabels
<1>7. Endings'
  BY <1>1, <1>2, <1>4 DEF Endings, ControlTypes, Stages
<1>8. Ends'
  BY <1>1, <1>2, <1>4 DEF Ends, ControlTypes, Stages, Endings
<1>9. Progress'
  BY <1>1, <1>2, <1>4 DEF Progress, ControlTypes, Stages
<1>10. WholeMessage'
  BY <1>1, <1>2, <1>4 DEF WholeMessage, ControlTypes
<1>11. KilledOnlyAsOrphan'
  BY <1>1, <1>2, <1>4 DEF KilledOnlyAsOrphan, Ended, ControlTypes, Stages, Progress
<1>. QED  BY <1>3, <1>5, <1>6, <1>7, <1>8, <1>9, <1>10, <1>11

(* The parent closes its copy of the end it does not use. *)
LEMMA ParentCloseWriteStep == ASSUME IInv, ParentCloseWrite PROVE IInv'
<1>. USE DEF IInv, Processes, Children
<1>1. /\ pc["parent"] = "closeWrite"
      /\ pc' = [pc EXCEPT !["parent"] = IF prog = "overflow" THEN "spin" ELSE "read"]
      /\ pipe' = CloseWrite(pipe, "parent") /\ UNCHANGED <<prog, exit, sent, got, counter>>
  BY DEF ParentCloseWrite, ClosesWrite, Goto
<1>2. /\ pipe' \in Pipes /\ pipe'.buf = pipe.buf
      /\ pipe'.readers = pipe.readers
      /\ pipe'.writers = pipe.writers \ {"parent"}
  BY <1>1, Closings
<1>3. DataTypes' /\ OrderInv'
  BY <1>1, <1>2, DataKept
<1>4. MessageLength' = MessageLength
  BY <1>1 DEF MessageLength
<1>5. ControlTypes'
  BY <1>1, <1>2, <1>4 DEF ControlTypes, ParentLabels, ChildLabels, Codes
<1>6. Stages'
  BY <1>1, <1>2, <1>4 DEF Stages, ControlTypes, ParentLabels
<1>7. Endings'
  BY <1>1, <1>2, <1>4 DEF Endings, ControlTypes, Stages
<1>8. Ends'
  BY <1>1, <1>2, <1>4 DEF Ends, ControlTypes, Stages, Endings
<1>9. Progress'
  BY <1>1, <1>2, <1>4 DEF Progress, ControlTypes, Stages
<1>10. WholeMessage'
  BY <1>1, <1>2, <1>4 DEF WholeMessage, ControlTypes
<1>11. KilledOnlyAsOrphan'
  BY <1>1, <1>2, <1>4 DEF KilledOnlyAsOrphan, Ended, ControlTypes, Stages, Progress
<1>. QED  BY <1>3, <1>5, <1>6, <1>7, <1>8, <1>9, <1>10, <1>11

(* The parent reads, and unclosed-reader.c has had enough or not. *)
LEMMA ReadStep == ASSUME IInv, Read PROVE IInv'
<1>. USE DEF IInv, Processes, Children
<1>1. /\ pc["parent"] = "read" /\ UNCHANGED <<prog, exit, sent>>
      /\ counter' = IF prog = "reader" THEN counter - 1 ELSE counter
      /\ pc' = [pc EXCEPT !["parent"] = IF prog = "reader" /\ counter' = 0 THEN "closeRead"
                                                                          ELSE "read"]
  BY DEF Read, OneRead, Goto
<1>2. /\ DataTypes' /\ OrderInv'
      /\ pipe'.readers = pipe.readers /\ pipe'.writers = pipe.writers
  BY ReadData
<1>3. MessageLength' = MessageLength
  BY <1>1 DEF MessageLength
<1>4. counter' \in 0 .. Limit
  BY <1>1, Sizes DEF ControlTypes, Progress
<1>5. ControlTypes'
  BY <1>1, <1>2, <1>3, <1>4 DEF ControlTypes, ParentLabels, ChildLabels, Codes
<1>6. Stages'
  BY <1>1, <1>2, <1>3, <1>4 DEF Stages, ControlTypes, ParentLabels
<1>7. Endings'
  BY <1>1, <1>2, <1>3, <1>4 DEF Endings, ControlTypes, Stages
<1>8. Ends'
  BY <1>1, <1>2, <1>3, <1>4 DEF Ends, ControlTypes, Stages, Endings
<1>9. Progress'
  BY <1>1, <1>2, <1>3, <1>4 DEF Progress, ControlTypes, Stages
<1>10. WholeMessage'
  BY <1>1, <1>2, <1>3, <1>4 DEF WholeMessage, ControlTypes
<1>11. KilledOnlyAsOrphan'
  BY <1>1, <1>2, <1>3, <1>4 DEF KilledOnlyAsOrphan, Ended, ControlTypes, Stages, Progress
<1>. QED  BY <1>2, <1>5, <1>6, <1>7, <1>8, <1>9, <1>10, <1>11

(* End of file: the child has written all of its message, and the parent has read it; it
   never comes in unclosed-reader.c, whose child has its end open as long as it runs. *)
LEMMA ReadEOFStep == ASSUME IInv, ReadEOF PROVE IInv'
<1>. USE DEF IInv, Processes, Children
<1>1. /\ pc["parent"] = "read" /\ pipe.buf = << >> /\ pipe.writers = {} /\ prog # "fifo"
      /\ pc' = [pc EXCEPT !["parent"] = "closeRead"]
      /\ UNCHANGED <<prog, pipe, exit, sent, got, counter>>
  BY DEF ReadEOF, IsEOF, Goto
<1>2. pipe' \in Pipes /\ pipe' = pipe /\ pipe'.buf = pipe.buf
  BY <1>1 DEF DataTypes
<1>3. DataTypes' /\ OrderInv'
  BY <1>1, <1>2, DataKept
<1>4. MessageLength' = MessageLength
  BY <1>1 DEF MessageLength
<1>5. prog = "simple" => got["child1"] = Short
  <2>1. pc["child1"] \in {"exited", "reaped"}
    BY <1>1 DEF Stages, Ends
  <2>2. prog = "simple" => sent["child1"] = Short
    BY <2>1 DEF Progress, MessageLength
  <2>3. Last(<< >>, "child1", got["child1"]) = sent["child1"]
    BY <1>1 DEF OrderInv
  <2>. QED  BY <2>2, <2>3, LastOfEmpty
<1>13. prog # "reader"
  <2>1. pc["child1"] \notin {"closeRead", "write", "closeWrite", "unborn"}
    BY <1>1 DEF Ends, Stages
  <2>2. prog = "reader" => pc["child1"] \in {"exited", "reaped"}
    BY <1>1, <2>1 DEF Stages
  <2>. QED  BY <1>1, <2>2 DEF KilledOnlyAsOrphan, Ended
<1>6. ControlTypes'
  BY <1>1, <1>2, <1>4, <1>5 DEF ControlTypes, ParentLabels, ChildLabels, Codes
<1>7. Stages'
  BY <1>1, <1>2, <1>4, <1>5 DEF Stages, ControlTypes, ParentLabels
<1>8. Endings'
  BY <1>1, <1>2, <1>4, <1>5 DEF Endings, ControlTypes, Stages
<1>9. Ends'
  BY <1>1, <1>2, <1>4, <1>5 DEF Ends, ControlTypes, Stages, Endings
<1>10. Progress'
  BY <1>1, <1>2, <1>4, <1>13 DEF Progress, ControlTypes, Stages, Endings
<1>11. WholeMessage'
  BY <1>1, <1>2, <1>4, <1>5 DEF WholeMessage, ControlTypes
<1>12. KilledOnlyAsOrphan'
  BY <1>1, <1>2, <1>4, <1>5 DEF KilledOnlyAsOrphan, Ended, ControlTypes, Stages, Progress
<1>. QED  BY <1>3, <1>6, <1>7, <1>8, <1>9, <1>10, <1>11, <1>12

(* The parent has read. *)
LEMMA ParentCloseReadStep == ASSUME IInv, ParentCloseRead PROVE IInv'
<1>. USE DEF IInv, Processes, Children
<1>1. /\ pc["parent"] = "closeRead" /\ pc' = [pc EXCEPT !["parent"] = "wait"]
      /\ pipe' = CloseRead(pipe, "parent") /\ UNCHANGED <<prog, exit, sent, got, counter>>
  BY DEF ParentCloseRead, Goto
<1>2. /\ pipe' \in Pipes /\ pipe'.buf = pipe.buf
      /\ pipe'.readers = pipe.readers \ {"parent"}
      /\ pipe'.writers = pipe.writers
  BY <1>1, Closings
<1>3. DataTypes' /\ OrderInv'
  BY <1>1, <1>2, DataKept
<1>4. MessageLength' = MessageLength
  BY <1>1 DEF MessageLength
<1>5. ControlTypes'
  BY <1>1, <1>2, <1>4 DEF ControlTypes, ParentLabels, ChildLabels, Codes
<1>6. Stages'
  BY <1>1, <1>2, <1>4 DEF Stages, ControlTypes, ParentLabels
<1>7. Endings'
  BY <1>1, <1>2, <1>4 DEF Endings, ControlTypes, Stages
<1>8. Ends'
  BY <1>1, <1>2, <1>4 DEF Ends, ControlTypes, Stages, Endings
<1>9. Progress'
  BY <1>1, <1>2, <1>4 DEF Progress, ControlTypes, Stages
<1>10. WholeMessage'
  BY <1>1, <1>2, <1>4 DEF WholeMessage, ControlTypes
<1>11. KilledOnlyAsOrphan'
  BY <1>1, <1>2, <1>4 DEF KilledOnlyAsOrphan, Ended, ControlTypes, Stages, Progress
<1>. QED  BY <1>3, <1>5, <1>6, <1>7, <1>8, <1>9, <1>10, <1>11

(* The parent reaps a child and returns. *)
LEMMA WaitStep == ASSUME IInv, Wait PROVE IInv'
<1>. USE DEF IInv, Processes, Children
<1>1. PICK c \in Children :
          pc[c] = "exited" /\ pc' = [pc EXCEPT !["parent"] = "exited", ![c] = "reaped"]
  BY DEF Wait
<1>2. /\ pc["parent"] = "wait" /\ exit' = [exit EXCEPT !["parent"] = "0"]
      /\ pipe' = CloseBoth(pipe, "parent") /\ UNCHANGED <<prog, sent, got, counter>>
  BY DEF Wait
<1>3. /\ pipe' \in Pipes /\ pipe'.buf = pipe.buf
      /\ pipe'.readers = pipe.readers \ {"parent"}
      /\ pipe'.writers = pipe.writers \ {"parent"}
  BY <1>2, Closings
<1>4. DataTypes' /\ OrderInv'
  BY <1>2, <1>3, DataKept
<1>5. MessageLength' = MessageLength
  BY <1>2 DEF MessageLength
<1>6. ControlTypes'
  BY <1>1, <1>2, <1>3, <1>5 DEF ControlTypes, ParentLabels, ChildLabels, Codes
<1>7. Stages'
  BY <1>1, <1>2, <1>3, <1>5 DEF Stages, ControlTypes, ParentLabels
<1>8. Endings'
  BY <1>1, <1>2, <1>3, <1>5 DEF Endings, ControlTypes, Stages
<1>9. Ends'
  BY <1>1, <1>2, <1>3, <1>5 DEF Ends, ControlTypes, Stages, Endings
<1>10. Progress'
  BY <1>1, <1>2, <1>3, <1>5 DEF Progress, ControlTypes, Stages
<1>11. WholeMessage'
  BY <1>1, <1>2, <1>3, <1>5 DEF WholeMessage, ControlTypes
<1>12. KilledOnlyAsOrphan'
  BY <1>1, <1>2, <1>3, <1>5 DEF KilledOnlyAsOrphan, Ended, ControlTypes, Stages, Endings, Progress
<1>. QED  BY <1>4, <1>6, <1>7, <1>8, <1>9, <1>10, <1>11, <1>12

-----------------------------------------------------------------------------
(* The theorems *)

(* Every step keeps the invariant. *)
LEMMA NextInv == IInv /\ [Next]_vars => IInv'
<1>. SUFFICES ASSUME IInv, [Next]_vars PROVE IInv'
  OBVIOUS
<1>1. CASE UNCHANGED vars
  <2>1. Bytes' = Bytes /\ MessageLength' = MessageLength
    BY <1>1 DEF vars, Bytes, MessageLength
  <2>2. DataTypes' /\ ControlTypes' /\ Stages' /\ Endings' /\ Ends' /\ Progress'
    BY <1>1, <2>1 DEF vars, IInv, DataTypes, Pipes, ControlTypes, Stages, Endings, Ends, Progress
  <2>3. OrderInv' /\ WholeMessage' /\ KilledOnlyAsOrphan'
    BY <1>1, <2>1 DEF vars, IInv, OrderInv, Chain, WholeMessage, KilledOnlyAsOrphan,
                     Ended
  <2>. QED  BY <2>2, <2>3 DEF IInv
<1>2. ASSUME NEW c \in Children, Child(c) PROVE IInv'
  BY <1>2, ChildCloseReadStep, WriteStep, WriteBrokenStep, ChildReturnStep, WriterGoesOnStep,
     WriterOpensStep, OpenFailsStep DEF Child
<1>3. CASE Parent
  <2>1. CASE Spin \/ RepeatLast
    BY <1>1, <2>1 DEF Spin, RepeatLast
  <2>. QED  BY <1>3, <2>1, FailStep, MakePipeStep, ForkFirstStep, ForkSecondStep,
               ParentCloseWriteStep, ReadStep, ReadEOFStep, ParentCloseReadStep, WaitStep,
               ReaderOpensStep, OpenFailsStep DEF Parent
<1>4. CASE Interrupt
  BY <1>4, InterruptStep
<1>5. CASE Terminated
  BY <1>1, <1>5 DEF Terminated
<1>. QED  BY <1>1, <1>2, <1>3, <1>4, <1>5 DEF Next

(* The invariant has what TypeOK says. *)
LEMMA InvImpliesTypes == ASSUME IInv PROVE TypeOK
<1>. USE DEF IInv
<1>1. /\ pipe.buf \in Seq(Children \X (1 .. MessageLength)) /\ Len(pipe.buf) <= Capacity
      /\ pipe.readers \subseteq Processes /\ pipe.writers \subseteq Processes
  BY DEF DataTypes, Pipes, Bytes
<1>2. pc["parent"] \in ParentLabels
  BY DEF Stages, ParentLabels
<1>3. \A c \in Children : pc[c] \in ChildLabels
  BY DEF Stages, ChildLabels, Children
<1>. QED  BY <1>1, <1>2, <1>3 DEF TypeOK, DataTypes, ControlTypes, ParentLabels, ChildLabels, Codes

(* At the end the invariant has what Delivered says. *)
LEMMA InvImpliesDelivered == ASSUME IInv PROVE Delivered
BY InOrderIsChain DEF IInv, Delivered

\* The pipe never holds more than its capacity, nobody's position leaves its message,
\* and each process is where its part of the program is.
THEOREM TypeCorrect == Spec => []TypeOK
BY InitInv, NextInv, InvImpliesTypes, PTL DEF Spec

\* What the parent receives is what was sent, in order and, when pipe-simple.c's parent
\* says so, all of it: for every capacity of the pipe, however the portions of write()
\* and read() and the writes of two children mix.
THEOREM AllDelivered == Spec => []Delivered
BY InitInv, NextInv, InvImpliesDelivered, PTL DEF Spec

\* SIGPIPE kills only a child whose parent could not fork a second one, and
\* fifo-writer.c when somebody has ended the reader; and unclosed-reader.c's child, which
\* writes for ever, ends in SIGPIPE's handler, after its parent's last read and close.
THEOREM KilledAsOrphan == Spec => []KilledOnlyAsOrphan
<1>1. IInv => KilledOnlyAsOrphan
  BY DEF IInv
<1>. QED  BY <1>1, InitInv, NextInv, PTL DEF Spec
=============================================================================
