------------------------ MODULE SocketReaders_proofs ------------------------
(***************************************************************************)
(* For every number of streams and amount of data: a reader that ends well *)
(* has read all that was sent, or read-slow.c has tried each stream, and   *)
(* read_data_and_count()'s counter is the number of streams that are not   *)
(* at their end.  And, after them, for every size of the descriptor        *)
(* tables, of the pipe and of the reads: the programs that duplicate, fork *)
(* and exec leave their descriptors as meant and bring out each line as    *)
(* often as they promise.                                                  *)
(***************************************************************************)
EXTENDS SocketReaders, FdPrograms, SequenceTheorems, WellFoundedInduction, FiniteSetTheorems,
        TLAPS

-----------------------------------------------------------------------------
(* The readers of streams (SocketReaders). *)

(* What a program is run with: the clients of sleepy-server.c have sockets. *)
Settings ==
    /\ prog \in {"epoll", "nonblock", "slow"}
    /\ kind \in [Streams -> Kinds]
    /\ interrupts \in BOOLEAN
    /\ prog # "epoll" => \A i \in Streams : kind[i] = "socket"

(* The loops: idx is a stream's index while a loop runs. *)
Control ==
    /\ pc \in {"connect", "read", "ended"}
    /\ exit \in {"none", "0", "1", "segfault"}
    /\ exit = "none" <=> pc # "ended"
    /\ idx \in 1 .. N + 1
    /\ pc # "ended" => idx <= N
    /\ pc = "connect" => prog # "epoll"
    /\ prog = "slow" /\ exit = "0" => idx = N + 1

(* What was written is what was read and what can be read. *)
Data ==
    /\ avail \in [Streams -> Nat] /\ fed \in [Streams -> Nat] /\ count \in [Streams -> Nat]
    /\ \A i \in Streams : fed[i] <= MaxData /\ avail[i] + count[i] = fed[i]

(* sleepy-server.c, which the clients alone have, writes after it has slept, and has
   written its answer when it closes the connection, if nobody ended it before. *)
Servers ==
    /\ peer \in [Streams -> {"none", "queued", "asleep", "open", "closed", "reset"}]
    /\ prog # "epoll" => \A i \in Streams :
           /\ peer[i] \in {"none", "queued", "asleep"} => fed[i] = 0
           /\ peer[i] = "closed" => fed[i] \in {0, MaxData}
    /\ prog = "epoll" => \A i \in Streams : peer[i] \in {"open", "closed", "reset"}

(* Nothing comes from a stream whose end was read. *)
Descriptors ==
    /\ filesLeft \in 0 .. Modulus - 1
    /\ openFds \subseteq Streams /\ done \subseteq Streams /\ error \subseteq Streams
    /\ openFds \cap done = {}
    /\ pc = "connect" => done = {}
    /\ \A i \in done \cup error : avail[i] = 0
    /\ \A i \in done : peer[i] = "closed" \/ i \in error
    /\ \A i \in error : peer[i] = "reset"

(* read-slow.c has read the streams before idx, and not yet the others. *)
SlowInv ==
    prog = "slow" =>
        /\ pc = "connect" => \A i \in Streams : i < idx => i \in openFds
        /\ pc = "read" => \A i \in Streams : i >= idx => i \in openFds
        /\ pc = "read" \/ exit = "0" => \A i \in Streams : i < idx => TriedOnce(i)
        /\ pc # "ended" =>
              \A i \in Streams :
                 pc = "connect" \/ i >= idx => count[i] = 0 /\ i \notin done \cup error

(* An event is about a stream of the epoll set; EPOLLIN of a pipe is data. *)
EventTypes ==
    /\ epoll \subseteq Registered
    /\ events \subseteq Registered \X BOOLEAN
    /\ \A i \in Streams : ~(<<i, TRUE>> \in events /\ <<i, FALSE>> \in events)
    /\ \A i \in Streams : <<i, TRUE>> \in events /\ kind[i] = "pipe" => avail[i] > 0

NoneShared == \A i \in Streams : kind[i] # "shared"

(* No event is about a stream whose end was taken into account, so that each end is *)
(* counted once.                                                                    *)
CountInv ==
    NoneShared =>
        /\ epoll \cap done = {}
        /\ \A i \in Streams, in \in BOOLEAN : <<i, in>> \in events => i \notin done
        /\ prog # "slow" => filesLeft = Cardinality(Streams \ done)
        /\ exit = "0" /\ prog # "slow" => done = Streams
        /\ \A i \in done : kind[i] = "socket"

IInv == Settings /\ Control /\ Data /\ Servers /\ Descriptors /\ SlowInv /\ EventTypes /\ CountInv

-----------------------------------------------------------------------------
(* Counting the streams *)

(* The streams that are not done are finitely many, and one fewer when one of them *)
(* is done.                                                                        *)
LEMMA StreamsLeft ==
    ASSUME NEW S \in SUBSET Streams
    PROVE  /\ Cardinality(Streams \ S) \in 0 .. N
           /\ Cardinality(Streams \ S) = 0 => S = Streams
           /\ \A i \in Streams \ S : /\ Cardinality(Streams \ S) >= 1
                                     /\ Cardinality(Streams \ (S \cup {i}))
                                        = Cardinality(Streams \ S) - 1
<1>. DEFINE R == Streams \ S
<1>1. IsFiniteSet(Streams) /\ Cardinality(Streams) = N
  BY FS_Interval, ReaderBounds DEF Streams
<1>2. IsFiniteSet(R) /\ Cardinality(R) \in Nat /\ Cardinality(R) <= N
  BY <1>1, FS_Subset, FS_CardinalityType
<1>3. Cardinality(R) = 0 => S = Streams
  BY <1>2, FS_EmptySet
<1>4. ASSUME NEW i \in Streams \ S
      PROVE  Cardinality(R) >= 1 /\ Cardinality(Streams \ (S \cup {i})) = Cardinality(R) - 1
  <2>1. Streams \ (S \cup {i}) = R \ {i}
    OBVIOUS
  <2>2. Cardinality(R \ {i}) = Cardinality(R) - 1
    BY <1>2, FS_RemoveElement
  <2>3. Cardinality(R) # 0
    BY <1>4, <1>3
  <2>. QED  BY <2>1, <2>2, <2>3, <1>2
<1>. QED  BY <1>2, <1>3, <1>4, ReaderBounds

(* files_left-- of an unsigned number that is not zero. *)
LEMMA Decrement ==
    ASSUME NEW f \in Nat, f >= 1, f <= N
    PROVE  (f + Modulus - 1) % Modulus = f - 1
<1>1. N \in Nat /\ f - 1 \in 0 .. N /\ f + Modulus - 1 = (f - 1) + (N + 2)
  BY ReaderBounds DEF Modulus
<1>. DEFINE m == N + 2  g == f - 1
<1>2. m \in Nat /\ m > 0 /\ g \in 0 .. m - 1
  BY <1>1
<1>3. (g + m) % m = g
  <2>. HIDE DEF g, m
  <2>. QED  BY <1>2
<1>. QED  BY <1>1, <1>3 DEF Modulus

(* The loops over the streams: after the last one comes the first. *)
LEMMA NextIndex ==
    ASSUME NEW k \in 1 .. N
    PROVE  (k % N) + 1 = IF k = N THEN 1 ELSE k + 1
<1>1. N \in Nat \ {0}
  BY ReaderBounds
<1>2. CASE k = N
  <2>1. N % N = 0
    BY <1>1
  <2>. QED  BY <1>2, <2>1
<1>3. CASE k # N
  <2>1. k % N = k
    BY <1>1, <1>3
  <2>. QED  BY <1>3, <2>1
<1>. QED  BY <1>2, <1>3

-----------------------------------------------------------------------------
(* The invariant holds initially. *)

(* The invariant holds in the initial states. *)
LEMMA InitInv == Init => IInv
<1>. SUFFICES ASSUME Init PROVE IInv
  OBVIOUS
<1>. USE ReaderBounds DEF Init, Streams
<1>1. Settings
  BY DEF Settings, Kinds
<1>2. Control
  BY DEF Control
<1>3. Data
  BY DEF Data
<1>4. Servers
  BY DEF Servers
<1>5. Descriptors
  BY DEF Descriptors, Modulus
<1>6. SlowInv
  BY DEF SlowInv
<1>7. EventTypes
  BY DEF EventTypes
<1>8. CountInv
  <2>1. Cardinality(Streams) = N
    BY FS_Interval
  <2>. QED  BY <2>1 DEF CountInv
<1>. QED  BY <1>1, <1>2, <1>3, <1>4, <1>5, <1>6, <1>7, <1>8 DEF IInv

-----------------------------------------------------------------------------
(* The peers *)

(* What a peer leaves alone: everything that only the program writes. *)
LEMMA PeersStep ==
    ASSUME IInv, NEW i \in Streams, Peer(i)
    PROVE  IInv'
<1>. USE DEF IInv
<1>1. UNCHANGED others
  BY DEF Peer, Server, Accept, Respond, Shut, Feed, Killed, Reset
<1>2. /\ peer' \in [Streams -> {"none", "queued", "asleep", "open", "closed", "reset"}]
      /\ \A k \in Streams : k # i => peer'[k] = peer[k] /\ avail'[k] = avail[k] /\ fed'[k] = fed[k]
      /\ avail' \in [Streams -> Nat] /\ fed' \in [Streams -> Nat]
  <2>1. CASE Accept(i)
    BY <2>1 DEF Accept, PeerGoes, Servers, Data
  <2>2. CASE Respond(i)
    BY <2>2, ReaderBounds DEF Respond, Arrives, Servers, Data
  <2>3. CASE Shut(i)
    BY <2>3 DEF Shut, PeerGoes, Servers, Data
  <2>4. CASE Feed(i)
    BY <2>4 DEF Feed, Arrives, Servers, Data
  <2>5. CASE Killed(i)
    BY <2>5 DEF Killed, PeerGoes, Servers, Data
  <2>6. CASE Reset(i)
    BY <2>6 DEF Reset, PeerGoes, Servers, Data
  <2>. QED  BY <2>1, <2>2, <2>3, <2>4, <2>5, <2>6 DEF Peer, Server
<1>3. \/ /\ fed' = fed /\ avail' = avail
         /\ \/ peer[i] = "queued" /\ peer'[i] = "asleep"
            \/ peer[i] = "open" /\ peer'[i] = "closed" /\ (prog # "epoll" => fed[i] = MaxData)
            \/ peer[i] = "asleep" /\ peer'[i] = "closed"
            \/ peer[i] \in {"queued", "asleep", "open"} /\ peer'[i] = "reset"
      \/ /\ peer[i] \in {"asleep", "open"} /\ peer'[i] = "open"
         /\ \E k \in 1 .. MaxData - fed[i] :
               fed'[i] = fed[i] + k /\ avail'[i] = avail[i] + k
  <2>1. CASE Accept(i)
    BY <2>1 DEF Accept, PeerGoes, Servers
  <2>2. CASE Respond(i)
    <3>1. PICK k \in 1 .. MaxData - fed[i] : Arrives(i, k)
      BY <2>2 DEF Respond
    <3>2. fed'[i] = fed[i] + k /\ avail'[i] = avail[i] + k
      BY <3>1 DEF Arrives, Data
    <3>3. peer[i] \in {"asleep", "open"} /\ peer'[i] = "open"
      BY <2>2 DEF Respond, Servers
    <3>. QED  BY <3>2, <3>3
  <2>3. CASE Shut(i)
    BY <2>3 DEF Shut, PeerGoes, Servers
  <2>4. CASE Feed(i)
    <3>1. 1 \in 1 .. MaxData - fed[i]
      BY <2>4, ReaderBounds DEF Feed, Data
    <3>2. fed'[i] = fed[i] + 1 /\ avail'[i] = avail[i] + 1 /\ peer' = peer /\ peer[i] = "open"
      BY <2>4 DEF Feed, Arrives, Data
    <3>. QED  BY <3>1, <3>2
  <2>5. CASE Killed(i)
    BY <2>5 DEF Killed, PeerGoes, Servers
  <2>6. CASE Reset(i)
    BY <2>6 DEF Reset, PeerGoes, Servers
  <2>. QED  BY <2>1, <2>2, <2>3, <2>4, <2>5, <2>6 DEF Peer, Server
<1>4. Settings'
  BY <1>1 DEF others, setting, Settings
<1>5. Control'
  BY <1>1 DEF others, setting, Control
<1>6. Data'
  <2>1. count' = count /\ MaxData \in Nat
    BY <1>1, ReaderBounds DEF others
  <2>2. fed'[i] <= MaxData /\ avail'[i] + count[i] = fed'[i]
    <3>1. CASE fed' = fed /\ avail' = avail
      BY <3>1 DEF Data
    <3>2. CASE \E k \in 1 .. MaxData - fed[i] : fed'[i] = fed[i] + k /\ avail'[i] = avail[i] + k
      <4>1. PICK k \in 1 .. MaxData - fed[i] : fed'[i] = fed[i] + k /\ avail'[i] = avail[i] + k
        BY <3>2
      <4>2. /\ k \in Nat /\ k <= MaxData - fed[i] /\ fed[i] \in Nat /\ avail[i] \in Nat
            /\ count[i] \in Nat /\ avail[i] + count[i] = fed[i]
        BY <2>1 DEF Data
      <4>. QED  BY <4>1, <4>2, <2>1
    <3>. QED  BY <3>1, <3>2, <1>3
  <2>. QED  BY <2>1, <2>2, <1>2 DEF Data
<1>7. Servers'
  BY <1>1, <1>2, <1>3 DEF others, setting, Data, Servers
<1>8. Descriptors'
  BY <1>1, <1>2, <1>3 DEF others, Descriptors
<1>9. SlowInv'
  <2>1. UNCHANGED <<prog, pc, idx, exit, openFds, count, done, error>>
    BY <1>1 DEF others, setting
  <2>2. ASSUME NEW k \in Streams, k \in done \cup error PROVE fed'[k] = fed[k]
    BY <1>2, <1>3, <2>2 DEF Descriptors
  <2>3. \A k \in Streams : TriedOnce(k) => TriedOnce(k)'
    BY <2>1, <2>2 DEF TriedOnce
  <2>. QED  BY <2>1, <2>3 DEF SlowInv
<1>10. EventTypes'
  <2>1. \A k \in Streams : avail[k] > 0 => avail'[k] > 0
    BY <1>2, <1>3 DEF Data
  <2>2. UNCHANGED <<epoll, events, kind>> /\ Registered' = Registered
    BY <1>1 DEF others, setting, Registered
  <2>. QED  BY <2>1, <2>2 DEF EventTypes
<1>11. CountInv'
  BY <1>1 DEF others, setting, CountInv, NoneShared
<1>. QED  BY <1>4, <1>5, <1>6, <1>7, <1>8, <1>9, <1>10, <1>11

-----------------------------------------------------------------------------
(* read() of a stream *)

(* What a read() of stream i does, whatever its result: an end is taken once, from a *)
(* stream with nothing left to read, and a stream that was taken to its end stays so. *)
LEMMA ReadsOnce ==
    ASSUME IInv, NEW i \in Streams, ReadStream(i)
    PROVE  /\ UNCHANGED <<setting, peer, fed>> /\ Data'
           /\ \A k \in Streams : k # i => avail'[k] = avail[k] /\ count'[k] = count[k]
           /\ openFds' \subseteq Streams /\ done' \subseteq Streams /\ error' \subseteq Streams
           /\ openFds' \cap done' = {} /\ openFds' \subseteq openFds /\ openFds \subseteq openFds' \cup {i}
           /\ done' = done \/ (i \notin done /\ done' = done \cup {i} /\ avail[i] = 0)
           /\ error' = error \/ error' = error \cup {i}
           /\ \A k \in done' \cup error' : avail'[k] = 0
           /\ \A k \in done' : peer'[k] = "closed" \/ k \in error'
           /\ \A k \in error' : peer'[k] = "reset"
           /\ epoll' \subseteq epoll
           /\ NoneShared /\ epoll \cap done = {} => epoll' \cap done' = {}
<1>. USE DEF IInv
<1>1. CASE Take(i)
  <2>1. PICK k \in ReadSizes(i) :
            avail' = [avail EXCEPT ![i] = @ - k] /\ count' = [count EXCEPT ![i] = @ + k]
    BY <1>1 DEF Take
  <2>2. i \in openFds /\ UNCHANGED <<setting, peer, fed, openFds, done, epoll, error>>
    BY <1>1 DEF Take
  <2>3. avail[i] \in Nat /\ k \in Nat /\ k <= avail[i] /\ k >= 1
    BY DEF Data, ReadSizes
  <2>4. Data'
    BY <2>1, <2>2, <2>3 DEF Data
  <2>5. \A x \in Streams : x # i => avail'[x] = avail[x] /\ count'[x] = count[x]
    BY <2>1 DEF Data
  <2>6. i \notin done \cup error
    BY <2>2, <2>3 DEF Descriptors
  <2>. QED  BY <2>2, <2>4, <2>5, <2>6 DEF Descriptors
<1>2. CASE ReadEnd(i)
  <2>1. Data' /\ UNCHANGED <<setting, peer, fed, avail, count, error>>
    BY <1>2 DEF ReadEnd, data, Data
  <2>2. /\ i \in openFds /\ avail[i] = 0 /\ (peer[i] = "closed" \/ i \in error)
        /\ openFds' = openFds \ {i} /\ done' = done \cup {i} /\ epoll' = StillInSet(i)
    BY <1>2 DEF ReadEnd, AtEnd
  <2>3. i \notin done
    BY <2>2 DEF Descriptors
  <2>4. epoll' \subseteq epoll /\ (NoneShared => i \notin epoll')
    BY <2>2 DEF StillInSet, NoneShared
  <2>. QED  BY <2>1, <2>2, <2>3, <2>4 DEF Descriptors
<1>3. CASE ReadError(i)
  <2>1. Data' /\ UNCHANGED <<setting, peer, fed, avail, count, openFds, done, epoll>>
    BY <1>3 DEF ReadError, data, Data
  <2>2. error' = error \/ (error' = error \cup {i} /\ peer[i] = "reset" /\ avail[i] = 0)
    BY <1>3 DEF ReadError
  <2>. QED  BY <2>1, <2>2 DEF Descriptors
<1>. QED  BY <1>1, <1>2, <1>3 DEF ReadStream

-----------------------------------------------------------------------------
(* epoll-read-fds-vector.c *)

(* epoll_wait() reports streams that are not done. *)
LEMMA EpollWaitStep == IInv /\ EpollWait => IInv'
<1>. SUFFICES ASSUME IInv, EpollWait PROVE IInv'
  OBVIOUS
<1>. USE DEF IInv
<1>1. events = {} /\ events' = {<<i, HasEpollIn(i)>> : i \in Ready}
      /\ UNCHANGED <<setting, pc, idx, peer, data, filesLeft, openFds, done, epoll, error, exit>>
  BY DEF EpollWait, Waiting
<1>2. Ready \subseteq epoll /\ \A i \in Ready : HasEpollIn(i) \in BOOLEAN
  BY DEF Ready, HasEpollIn
<1>3. \A i, b : <<i, b>> \in events' <=> i \in Ready /\ b = HasEpollIn(i)
  BY <1>1
<1>4. Settings' /\ Control' /\ Data' /\ Servers' /\ Descriptors' /\ SlowInv'
  BY <1>1 DEF setting, data, Settings, Control, Data, Servers, Descriptors, SlowInv,
              TriedOnce
<1>5. EventTypes'
  <2>1. epoll' \subseteq Registered' /\ Registered' = Registered
    BY <1>1 DEF setting, Registered, EventTypes
  <2>2. events' \subseteq Registered' \X BOOLEAN
    <3>1. ASSUME NEW e \in events' PROVE e \in Registered \X BOOLEAN
      <4>1. PICK i \in Ready : e = <<i, HasEpollIn(i)>>
        BY <1>1, <3>1
      <4>2. i \in Registered /\ HasEpollIn(i) \in BOOLEAN
        BY <1>2 DEF EventTypes
      <4>. QED  BY <4>1, <4>2
    <3>. QED  BY <3>1, <2>1
  <2>3. \A i \in Streams : ~(<<i, TRUE>> \in events' /\ <<i, FALSE>> \in events')
    <3>1. ASSUME NEW i \in Streams, <<i, TRUE>> \in events' PROVE HasEpollIn(i)
      BY <1>3, <3>1
    <3>2. ASSUME NEW i \in Streams, <<i, FALSE>> \in events' PROVE ~HasEpollIn(i)
      BY <1>3, <3>2
    <3>. QED  BY <3>1, <3>2
  <2>4. ASSUME NEW i \in Streams, <<i, TRUE>> \in events', kind'[i] = "pipe"
        PROVE  avail'[i] > 0
    <3>1. HasEpollIn(i) /\ kind[i] = "pipe" /\ avail' = avail
      BY <1>1, <1>3, <2>4 DEF setting, data
    <3>. QED  BY <3>1 DEF HasEpollIn
  <2>. QED  BY <2>1, <2>2, <2>3, <2>4 DEF EventTypes
<1>6. CountInv'
  <2>1. UNCHANGED <<prog, kind, done, epoll, filesLeft, exit>>
    BY <1>1 DEF setting
  <2>. QED  BY <2>1, <1>2, <1>3 DEF CountInv, NoneShared
<1>. QED  BY <1>4, <1>5, <1>6

(* Interrupted and EpollReturn end the program, and only the latter well. *)
LEMMA EpollEndsStep == IInv /\ (Interrupted \/ EpollReturn) => IInv'
<1>. SUFFICES ASSUME IInv, Interrupted \/ EpollReturn PROVE IInv'
  OBVIOUS
<1>. USE DEF IInv
<1>1. /\ prog = "epoll" /\ pc' = "ended" /\ exit' \in {"segfault", "0"}
      /\ exit' = "0" => filesLeft = 0
      /\ UNCHANGED <<setting, idx, peer, data, filesLeft, openFds, done, epoll, events, error>>
  BY DEF Interrupted, EpollReturn, Waiting, End
<1>2. Settings' /\ Control' /\ Data' /\ Servers' /\ Descriptors' /\ SlowInv'
  BY <1>1 DEF setting, data, Settings, Control, Data, Servers, Descriptors, SlowInv
<1>3. EventTypes'
  BY <1>1 DEF setting, data, EventTypes, Registered
<1>4. CountInv'
  <2>1. UNCHANGED <<prog, kind, done, epoll, events, filesLeft>>
    BY <1>1 DEF setting
  <2>2. Cardinality(Streams \ done) = 0 => done = Streams
    BY StreamsLeft DEF Descriptors
  <2>. QED  BY <1>1, <2>1, <2>2 DEF CountInv, NoneShared
<1>. QED  BY <1>2, <1>3, <1>4

(* process_event(): the counter goes down with the streams, for each end once. *)
LEMMA ProcessEventStep ==
    ASSUME IInv, NEW i \in Streams, NEW in \in BOOLEAN, ProcessEvent(i, in)
    PROVE  IInv'
<1>. USE DEF IInv
<1>1. /\ prog = "epoll" /\ exit = "none" /\ <<i, in>> \in events
      /\ events' = events \ {<<i, in>>}
      /\ filesLeft' = IF i \in done' THEN (filesLeft + Modulus - 1) % Modulus ELSE filesLeft
      /\ UNCHANGED <<pc, idx, exit>>
  BY DEF ProcessEvent, Running
<1>2. /\ UNCHANGED <<setting, peer, fed>> /\ Data'
      /\ \A k \in Streams : k # i => avail'[k] = avail[k]
      /\ openFds' \subseteq Streams /\ done' \subseteq Streams /\ error' \subseteq Streams
      /\ openFds' \cap done' = {} /\ openFds' \subseteq openFds
      /\ done' = done \/ (in /\ i \notin done /\ done' = done \cup {i} /\ avail[i] = 0)
      /\ \A k \in done' \cup error' : avail'[k] = 0
      /\ \A k \in done' : peer'[k] = "closed" \/ k \in error'
      /\ \A k \in error' : peer'[k] = "reset"
      /\ epoll' \subseteq epoll
      /\ NoneShared /\ epoll \cap done = {} => epoll' \cap done' = {}
  <2>1. CASE in
    <3>1. ReadStream(i)
      BY <2>1 DEF ProcessEvent
    <3>. QED  BY <3>1, <2>1, ReadsOnce
  <2>2. CASE ~in
    <3>1. UNCHANGED <<setting, peer, data, openFds, done, epoll, error>>
      BY <2>2 DEF ProcessEvent
    <3>. QED  BY <3>1 DEF data, Data, Descriptors
  <2>. QED  BY <2>1, <2>2
<1>3. UNCHANGED <<prog, kind, interrupts>>
  BY <1>2 DEF setting
<1>4. Settings' /\ Control' /\ Servers' /\ SlowInv'
  BY <1>1, <1>2, <1>3 DEF Settings, Control, Servers, SlowInv
<1>5. Descriptors'
  <2>1. filesLeft' \in 0 .. Modulus - 1
    BY <1>1, ReaderBounds DEF Descriptors, Modulus
  <2>2. pc # "connect" /\ pc' = pc
    BY <1>1 DEF Control
  <2>. QED  BY <1>2, <2>1, <2>2 DEF Descriptors
<1>6. EventTypes'
  <2>1. Registered' = Registered /\ Registered \subseteq Streams
    BY <1>3 DEF Registered
  <2>2. \A k \in Streams : <<k, TRUE>> \in events' => <<k, TRUE>> \in events /\ k # i
    BY <1>1 DEF EventTypes
  <2>3. \A k \in Streams : <<k, TRUE>> \in events' /\ kind'[k] = "pipe" => avail'[k] > 0
    BY <1>2, <1>3, <2>2 DEF EventTypes
  <2>4. epoll' \subseteq Registered' /\ events' \subseteq Registered' \X BOOLEAN
    BY <1>1, <1>2, <2>1 DEF EventTypes
  <2>5. \A k \in Streams : ~(<<k, TRUE>> \in events' /\ <<k, FALSE>> \in events')
    BY <1>1 DEF EventTypes
  <2>. QED  BY <2>3, <2>4, <2>5 DEF EventTypes
<1>7. CountInv'
  <2>. SUFFICES ASSUME NoneShared' PROVE CountInv'
    BY DEF CountInv
  <2>1. NoneShared
    BY <1>3 DEF NoneShared
  <2>2. epoll' \cap done' = {}
    BY <1>2, <2>1 DEF CountInv
  <2>3. \A k \in Streams, b \in BOOLEAN : <<k, b>> \in events' => k \notin done'
    <3>1. \A b \in BOOLEAN : <<i, b>> \notin events'
      BY <1>1 DEF EventTypes
    <3>. QED  BY <1>1, <1>2, <2>1, <3>1 DEF CountInv
  <2>4. filesLeft' = Cardinality(Streams \ done')
    <3>1. i \notin done /\ filesLeft = Cardinality(Streams \ done)
      BY <1>1, <2>1 DEF CountInv
    <3>2. CASE done' = done
      BY <3>1, <3>2, <1>1
    <3>3. CASE done' = done \cup {i}
      <4>1. /\ filesLeft \in 0 .. N /\ filesLeft >= 1
            /\ Cardinality(Streams \ done') = filesLeft - 1
        BY <3>1, <3>3, StreamsLeft DEF Descriptors
      <4>2. filesLeft' = (filesLeft + Modulus - 1) % Modulus
        BY <1>1, <3>3
      <4>3. filesLeft \in Nat /\ filesLeft <= N
        BY <4>1, ReaderBounds
      <4>. QED  BY <4>1, <4>2, <4>3, Decrement
    <3>. QED  BY <3>2, <3>3, <1>2
  <2>5. ASSUME NEW k \in done' PROVE kind'[k] = "socket"
    <3>1. CASE k \in done
      BY <3>1, <2>1, <1>3 DEF CountInv
    <3>2. CASE k \notin done
      <4>1. k = i /\ in /\ avail[i] = 0
        BY <3>2, <2>5, <1>2
      <4>2. kind[i] # "pipe" /\ kind[i] # "file" /\ kind[i] # "shared"
        <5>1. i \in Registered /\ <<i, TRUE>> \in events
          BY <4>1, <1>1 DEF EventTypes
        <5>2. kind[i] = "pipe" => avail[i] > 0
          BY <5>1 DEF EventTypes
        <5>3. avail[i] = 0
          BY <4>1
        <5>4. kind[i] # "pipe"
          BY <5>2, <5>3
        <5>. QED  BY <5>1, <5>4, <2>1 DEF Registered, NoneShared
      <4>3. kind[i] \in Kinds
        BY DEF Settings
      <4>. QED  BY <4>1, <4>2, <4>3, <1>3 DEF Kinds
    <3>. QED  BY <3>1, <3>2
  <2>. QED  BY <1>1, <2>2, <2>3, <2>4, <2>5 DEF CountInv
<1>. QED  BY <1>2, <1>4, <1>5, <1>6, <1>7

-----------------------------------------------------------------------------
(* The clients of sleepy-server.c *)

(* Without read_data_and_count() there is no epoll set and no event. *)
LEMMA NoEvents == ASSUME EventTypes, prog # "epoll" PROVE epoll = {} /\ events = {}
BY DEF EventTypes, Registered

(* A reader connects, and gets its own descriptor. *)
LEMMA ConnectStep == IInv /\ Connect => IInv'
<1>. SUFFICES ASSUME IInv, Connect PROVE IInv'
  OBVIOUS
<1>. USE DEF IInv
<1>1. /\ pc = "connect" /\ prog # "epoll" /\ idx \in 1 .. N /\ exit = "none" /\ done = {}
      /\ peer[idx] = "none" /\ peer' = [peer EXCEPT ![idx] = "queued"]
      /\ openFds' = openFds \cup {idx} /\ idx' = (idx % N) + 1
      /\ pc' = IF idx = N THEN "read" ELSE "connect"
      /\ UNCHANGED <<setting, data, filesLeft, done, epoll, events, error, exit>>
  BY ReaderBounds DEF Connect, PeerGoes, Control, Descriptors
<1>2. UNCHANGED <<prog, kind, interrupts, avail, fed, count>>
  BY <1>1 DEF setting, data
<1>3. idx' = IF idx = N THEN 1 ELSE idx + 1
  BY <1>1, NextIndex
<1>4. Settings' /\ Data'
  BY <1>2 DEF Settings, Data
<1>5. Control'
  BY <1>1, <1>2, <1>3, ReaderBounds DEF Control
<1>6. Servers'
  BY <1>1, <1>2 DEF Servers, Streams
<1>7. Descriptors'
  BY <1>1, <1>2 DEF Descriptors, Streams
<1>8. SlowInv'
  <2>. SUFFICES ASSUME prog = "slow" PROVE SlowInv'
    BY <1>2 DEF SlowInv
  <2>1. \A i \in Streams : i < idx => i \in openFds
    BY <1>1 DEF SlowInv
  <2>2. \A i \in Streams : count[i] = 0 /\ i \notin done \cup error
    BY <1>1 DEF SlowInv
  <2>3. CASE idx = N
    <3>1. \A i \in Streams : i \in openFds'
      BY <1>1, <2>1, <2>3 DEF Streams
    <3>2. pc' = "read" /\ idx' = 1 /\ \A i \in Streams : ~(i < idx')
      BY <1>1, <1>3, <2>3 DEF Streams
    <3>. QED  BY <3>1, <3>2, <2>2, <1>1, <1>2 DEF SlowInv
  <2>4. CASE idx # N
    <3>1. pc' = "connect" /\ idx' = idx + 1 /\ exit' = "none"
      BY <1>1, <1>3, <2>4
    <3>2. \A i \in Streams : i < idx' => i \in openFds'
      BY <1>1, <2>1, <3>1 DEF Streams
    <3>. QED  BY <3>1, <3>2, <2>2, <1>1, <1>2 DEF SlowInv
  <2>. QED  BY <2>3, <2>4
<1>9. EventTypes'
  BY <1>1, <1>2 DEF EventTypes, Registered
<1>10. CountInv'
  BY <1>1, <1>2 DEF CountInv, NoneShared
<1>. QED  BY <1>4, <1>5, <1>6, <1>7, <1>8, <1>9, <1>10

(* A connection that fails ends the reader. *)
LEMMA ConnectFailsStep == IInv /\ ConnectFails => IInv'
<1>. SUFFICES ASSUME IInv, ConnectFails PROVE IInv'
  OBVIOUS
<1>. USE DEF IInv
<1>1. /\ pc = "connect" /\ exit' = "1" /\ pc' = "ended"
      /\ UNCHANGED <<setting, idx, peer, data, filesLeft, openFds, done, epoll, events, error>>
  BY DEF ConnectFails, End
<1>2. UNCHANGED <<prog, kind, interrupts, avail, fed, count>>
  BY <1>1 DEF setting, data
<1>3. Settings' /\ Control' /\ Data' /\ Servers' /\ Descriptors' /\ SlowInv'
  BY <1>1, <1>2 DEF Settings, Control, Data, Servers, Descriptors, SlowInv
<1>4. EventTypes' /\ CountInv'
  BY <1>1, <1>2 DEF EventTypes, Registered, CountInv, NoneShared, Control
<1>. QED  BY <1>3, <1>4

(* read-nonblock.c: `open' goes down with the streams that are not at their end. *)
LEMMA PollStep == IInv /\ Poll => IInv'
<1>. SUFFICES ASSUME IInv, Poll PROVE IInv'
  OBVIOUS
<1>. USE DEF IInv
<1>1. /\ prog = "nonblock" /\ pc = "read" /\ idx \in 1 .. N /\ exit = "none"
      /\ ReadStream(idx) /\ idx \in Streams
      /\ filesLeft' = filesLeft - Cardinality(done' \ done)
      /\ idx' = (idx % N) + 1
      /\ IF idx = N /\ filesLeft' = 0 THEN End("0") ELSE UNCHANGED <<pc, exit>>
      /\ UNCHANGED events
  BY ReaderBounds DEF Poll, Control, Streams
<1>2. /\ UNCHANGED <<setting, peer, fed>> /\ Data'
      /\ \A k \in Streams : k # idx => avail'[k] = avail[k]
      /\ openFds' \subseteq Streams /\ done' \subseteq Streams /\ error' \subseteq Streams
      /\ openFds' \cap done' = {} /\ openFds' \subseteq openFds
      /\ done' = done \/ (idx \notin done /\ done' = done \cup {idx} /\ avail[idx] = 0)
      /\ \A k \in done' \cup error' : avail'[k] = 0
      /\ \A k \in done' : peer'[k] = "closed" \/ k \in error'
      /\ \A k \in error' : peer'[k] = "reset"
      /\ epoll' \subseteq epoll
  BY <1>1, ReadsOnce
<1>3. UNCHANGED <<prog, kind, interrupts>>
  BY <1>2 DEF setting
<1>4. idx' \in 1 .. N
  BY <1>1, NextIndex, ReaderBounds
<1>5. epoll = {} /\ events = {} /\ epoll' = {} /\ events' = {} /\ NoneShared
  BY <1>1, <1>2, NoEvents DEF Settings, NoneShared
<1>6. filesLeft' = Cardinality(Streams \ done') /\ filesLeft' \in 0 .. N
  <2>1. filesLeft = Cardinality(Streams \ done)
    BY <1>1, <1>5 DEF CountInv
  <2>2. CASE done' = done
    <3>1. done' \ done = {} /\ filesLeft \in 0 .. N
      BY <2>1, <2>2, StreamsLeft DEF Descriptors
    <3>. QED  BY <3>1, <2>1, <2>2, <1>1, FS_EmptySet, ReaderBounds
  <2>3. CASE idx \notin done /\ done' = done \cup {idx}
    <3>1. done' \ done = {idx} /\ Cardinality({idx}) = 1
      BY <2>3, FS_Singleton
    <3>2. /\ Cardinality(Streams \ done) \in 0 .. N /\ Cardinality(Streams \ done) >= 1
          /\ Cardinality(Streams \ done') = Cardinality(Streams \ done) - 1
      BY <2>3, <1>1, StreamsLeft DEF Descriptors
    <3>3. filesLeft' = filesLeft - 1
      BY <3>1, <1>1
    <3>4. filesLeft \in 0 .. N /\ filesLeft >= 1
      BY <3>2, <2>1
    <3>. QED  BY <3>2, <3>3, <3>4, <2>1, ReaderBounds
  <2>. QED  BY <2>2, <2>3, <1>2
<1>7. \/ exit' = "0" /\ pc' = "ended" /\ filesLeft' = 0
      \/ exit' = "none" /\ pc' = "read"
  BY <1>1 DEF End
<1>8. Settings' /\ Servers'
  BY <1>2, <1>3 DEF Settings, Servers
<1>9. Control'
  BY <1>1, <1>3, <1>4, <1>7, ReaderBounds DEF Control
<1>10. Descriptors'
  BY <1>2, <1>6, <1>7, ReaderBounds DEF Descriptors, Modulus
<1>11. SlowInv'
  BY <1>1, <1>3 DEF SlowInv
<1>12. EventTypes'
  BY <1>5 DEF EventTypes
<1>13. CountInv'
  <2>1. Cardinality(Streams \ done') = 0 => done' = Streams
    BY <1>2, StreamsLeft
  <2>2. \A k \in Streams : kind'[k] = "socket"
    BY <1>1, <1>3 DEF Settings
  <2>. QED  BY <1>2, <1>5, <1>6, <1>7, <2>1, <2>2 DEF CountInv
<1>. QED  BY <1>2, <1>8, <1>9, <1>10, <1>11, <1>12, <1>13

(* read-slow.c: one read of each stream, whatever it gives. *)
LEMMA ReadOnceStep == IInv /\ ReadOnce => IInv'
<1>. SUFFICES ASSUME IInv, ReadOnce PROVE IInv'
  OBVIOUS
<1>. USE DEF IInv
<1>1. /\ prog = "slow" /\ pc = "read" /\ idx \in 1 .. N /\ exit = "none"
      /\ Take(idx) \/ ReadEnd(idx) \/ (peer[idx] = "reset" /\ ReadError(idx))
      /\ idx \in Streams /\ ReadStream(idx)
      /\ idx' = idx + 1
      /\ IF idx = N THEN End("0") ELSE UNCHANGED <<pc, exit>>
      /\ UNCHANGED <<filesLeft, events>>
  BY ReaderBounds DEF ReadOnce, Control, Streams, ReadStream
<1>2. /\ UNCHANGED <<setting, peer, fed>> /\ Data'
      /\ \A k \in Streams : k # idx => avail'[k] = avail[k] /\ count'[k] = count[k]
      /\ openFds' \subseteq Streams /\ done' \subseteq Streams /\ error' \subseteq Streams
      /\ openFds' \cap done' = {} /\ openFds \subseteq openFds' \cup {idx}
      /\ done' = done \/ done' = done \cup {idx}
      /\ error' = error \/ error' = error \cup {idx}
      /\ \A k \in done' \cup error' : avail'[k] = 0
      /\ \A k \in done' : peer'[k] = "closed" \/ k \in error'
      /\ \A k \in error' : peer'[k] = "reset"
      /\ epoll' \subseteq epoll
  BY <1>1, ReadsOnce
<1>3. UNCHANGED <<prog, kind, interrupts>>
  BY <1>2 DEF setting
<1>4. epoll' = {} /\ events' = {}
  BY <1>1, <1>2, NoEvents
<1>5. IF idx = N THEN exit' = "0" /\ pc' = "ended" ELSE exit' = "none" /\ pc' = "read"
  BY <1>1 DEF End
<1>6. ASSUME NEW k \in Streams, k = idx PROVE TriedOnce(k)'
  <2>1. /\ k \in openFds /\ count[k] = 0 /\ k \notin done \cup error
        /\ avail[k] \in Nat /\ fed[k] = avail[k] + count[k]
    BY <1>1, <1>6 DEF SlowInv, Data
  <2>2. CASE Take(idx)
    <3>1. PICK n \in ReadSizes(k) : count' = [count EXCEPT ![k] = @ + n]
      BY <2>2, <1>6 DEF Take
    <3>2. count'[k] > 0
      BY <2>1, <3>1, <1>6 DEF ReadSizes, Data
    <3>3. UNCHANGED <<done, error>>
      BY <2>2 DEF Take
    <3>. QED  BY <2>1, <3>2, <3>3, <1>6 DEF TriedOnce
  <2>3. CASE ReadEnd(idx)
    <3>1. avail[k] = 0 /\ count' = count /\ fed' = fed /\ k \in done'
      BY <2>3, <1>6 DEF ReadEnd, AtEnd, data
    <3>. QED  BY <2>1, <3>1, <1>6 DEF TriedOnce
  <2>4. CASE peer[idx] = "reset" /\ ReadError(idx)
    <3>1. avail[k] = 0 /\ count' = count /\ fed' = fed /\ k \in error'
      BY <2>1, <2>4, <1>6 DEF ReadError, data
    <3>. QED  BY <2>1, <3>1, <1>6 DEF TriedOnce
  <2>. QED  BY <2>2, <2>3, <2>4, <1>1
<1>7. Settings' /\ Servers'
  BY <1>2, <1>3 DEF Settings, Servers
<1>8. Control'
  BY <1>1, <1>3, <1>5, ReaderBounds DEF Control
<1>9. Descriptors'
  BY <1>1, <1>2, <1>5 DEF Descriptors, Modulus
<1>10. SlowInv'
  <2>1. ASSUME NEW k \in Streams, k # idx, TriedOnce(k) PROVE TriedOnce(k)'
    BY <1>2, <2>1 DEF TriedOnce
  <2>2. ASSUME NEW k \in Streams, k < idx' PROVE TriedOnce(k)'
    <3>1. CASE k = idx
      BY <3>1, <1>6
    <3>2. CASE k # idx
      <4>1. k < idx
        BY <2>2, <3>2, <1>1 DEF Streams
      <4>. QED  BY <4>1, <3>2, <1>1, <2>1 DEF SlowInv
    <3>. QED  BY <3>1, <3>2
  <2>3. ASSUME NEW k \in Streams, k >= idx'
        PROVE  k \in openFds' /\ count'[k] = 0 /\ k \notin done' \cup error'
    <3>1. k # idx /\ k >= idx
      BY <2>3, <1>1 DEF Streams
    <3>. QED  BY <3>1, <1>1, <1>2 DEF SlowInv
  <2>. QED  BY <1>5, <2>2, <2>3 DEF SlowInv
<1>11. EventTypes'
  BY <1>4 DEF EventTypes
<1>12. CountInv'
  <2>1. \A k \in Streams : kind'[k] = "socket"
    BY <1>1, <1>3 DEF Settings
  <2>. QED  BY <1>1, <1>2, <1>3, <1>4, <2>1 DEF CountInv
<1>. QED  BY <1>2, <1>7, <1>8, <1>9, <1>10, <1>11, <1>12

-----------------------------------------------------------------------------
(* The theorems *)

(* Every step keeps the invariant. *)
LEMMA NextInv == IInv /\ [Next]_vars => IInv'
<1>. SUFFICES ASSUME IInv, [Next]_vars PROVE IInv'
  OBVIOUS
<1>1. CASE Epoll
  BY <1>1, EpollWaitStep, EpollEndsStep, ProcessEventStep DEF Epoll
<1>2. CASE Client
  BY <1>2, ConnectStep, ConnectFailsStep, PollStep, ReadOnceStep DEF Client
<1>3. CASE \E i \in Streams : Peer(i)
  BY <1>3, PeersStep
<1>4. CASE UNCHANGED vars
  BY <1>4 DEF vars, IInv, Settings, Control, Data, Servers, Descriptors, SlowInv, TriedOnce, EventTypes,
              CountInv, NoneShared, Registered
<1>. QED  BY <1>1, <1>2, <1>3, <1>4 DEF Next

(* The invariant has what TypeOK says. *)
LEMMA InvImpliesTypes == ASSUME IInv PROVE TypeOK
<1>. USE ReaderBounds DEF IInv
<1>1. \A i \in Streams : fed[i] \in 0 .. MaxData /\ avail[i] + count[i] = fed[i]
  BY DEF Data
<1>2. epoll \subseteq Streams /\ events \subseteq Streams \X BOOLEAN
  BY DEF EventTypes, Registered
<1>. QED  BY <1>1, <1>2 DEF TypeOK, Settings, Control, Servers, Descriptors

(* Whoever is done has read all that was sent, or has tried. *)
LEMMA InvImpliesReadsAll == ASSUME IInv PROVE ReadsAll
<1>. USE DEF IInv
<1>. SUFFICES ASSUME NoneShared
              PROVE  /\ filesLeft = Cardinality(Streams \ done) \/ prog = "slow"
                     /\ exit = "0" => \A i \in Streams :
                            IF prog = "slow" THEN TriedOnce(i) ELSE ReadToItsEnd(i)
  BY DEF ReadsAll, NoneShared
<1>1. filesLeft = Cardinality(Streams \ done) \/ prog = "slow"
  BY DEF CountInv
<1>2. ASSUME exit = "0", prog = "slow", NEW i \in Streams PROVE TriedOnce(i)
  <2>1. i < idx
    BY <1>2, ReaderBounds DEF Control, Streams
  <2>. QED  BY <1>2, <2>1 DEF SlowInv
<1>3. ASSUME exit = "0", prog # "slow", NEW i \in Streams PROVE ReadToItsEnd(i)
  <2>1. /\ i \in done /\ kind[i] = "socket" /\ avail[i] = 0
        /\ peer[i] = "closed" \/ i \in error
    BY <1>3 DEF CountInv, Descriptors
  <2>2. count[i] = fed[i]
    BY <2>1 DEF Data
  <2>3. prog = "nonblock" /\ peer[i] = "closed" => fed[i] \in {0, MaxData}
    BY DEF Servers
  <2>. QED  BY <2>1, <2>2, <2>3 DEF ReadToItsEnd
<1>. QED  BY <1>1, <1>2, <1>3

\* The states have their types: in particular files_left, which is unsigned, never wraps
\* around in read-nonblock.c, and no peer has read what was not written.
THEOREM TypeCorrect == Spec => []TypeOK
BY InitInv, NextInv, InvImpliesTypes, PTL DEF Spec

\* When epoll-read-fds-vector.c or read-nonblock.c ends well it has read all that was ever
\* sent, from streams that were all at their end, and a server's answer is whole or missing
\* unless its connection was reset; until then the former counts the streams that it has
\* still to read, if no other process has a descriptor of one.  read-slow.c, which returns 0
\* even if it has met errors, has some part of every answer of which anything came.
THEOREM AllIsRead == Spec => []ReadsAll
BY InitInv, NextInv, InvImpliesReadsAll, PTL DEF Spec

-----------------------------------------------------------------------------
(* The programs that duplicate, fork and exec (FdPrograms). *)

(* What is written or printed, or was in a file before. *)
Texts == {"old", "123", "345", "567", "hello", "hello_world", "total_count", "before_exec",
          "new_stdout_is", "parent_process", "exit_status", "child_process", "my_parent",
          "byte"}

(* A call is a name and its arguments; it is not STDIN and STDOUT that are assigned to. *)
Assigned == {"in", "fd", "fd1", "fd2", "newfd"}
CallSet ==
    ({"open"} \X Assigned \X (Files \cup {"input"})) \cup ({"dup"} \X Assigned \X Names)
    \cup ({"dup2"} \X Assigned \X Names \X Names) \cup ({"close", "count"} \X Names)
    \cup ({"write"} \X Names \X Texts) \cup ({"printf", "puts"} \X Texts)
    \cup ({"exec"} \X {"cmd", "python"}) \cup ({"exit"} \X {"0", "1"})
    \cup {<<"pipe">>, <<"fork">>, <<"wait">>}

Typed ==
    /\ FdTypeOK
    /\ todo \in [Processes -> Seq(CallSet)]
    /\ stdio \in [Processes -> Seq(Texts)] /\ mode \in [Processes -> {"new", "line", "full"}]
    /\ content \in [Files -> Seq(Texts)] /\ offset \in [Files -> Nat]
    /\ pipeBuf \in Seq(Texts) /\ total \in Nat
    /\ \A p \in Processes :
          /\ \A v \in {"STDIN", "STDOUT"} : var[p][v] = IF v = "STDIN" THEN 0 ELSE 1
          /\ ~Ended(p) => \A n \in 0 .. MaxFd : fds[p][n] \in {"pipeR", "pipeW"} => program = "pipe_launch"

-----------------------------------------------------------------------------
(* Where a process is in its program. *)

Rest(s, k) == SubSeq(s, k + 1, Len(s))
Failed == << <<"exit", "1">> >>
CallsOf(p) == IF p = "parent" THEN Text[program] ELSE ChildText[program]
Done(p) == Len(CallsOf(p)) - Len(todo[p])
OnText(p) == Done(p) \in 0 .. Len(CallsOf(p)) /\ todo[p] = Rest(CallsOf(p), Done(p))

(* p, which has not failed, has made from lo to hi of its calls. *)
In(p, lo, hi) == status[p] = "running" /\ OnText(p) /\ Done(p) \in lo .. hi

Single == {"dup", "dup2_file", "dup2_stdout", "exec_simple", "exec_change_fd"}

Course ==
    /\ status.parent # "unborn"
    /\ program \in Single => status.child = "unborn"
    /\ \A p \in Processes : status[p] = "running" => OnText(p) \/ todo[p] = Failed
    /\ program \in {"fflush", "simple_fork", "zombie", "orphan", "pipe_launch"} =>
          \A k \in DOMAIN todo.parent : todo.parent[k][1] = "fork" => status.child = "unborn"
    /\ status.parent = "command" =>
          /\ program \in {"exec_simple", "exec_change_fd"}
          /\ todo.parent \in {<< >>, << <<"printf", "hello">> >>}
    /\ status.child = "command" =>
          /\ program = "pipe_launch"
          /\ \A k \in DOMAIN todo.child : todo.child[k] = <<"write", "STDOUT", "byte">>

-----------------------------------------------------------------------------
(* The descriptors. *)

Started(n) == IF n \notin std THEN "closed"
              ELSE CASE n = 0 -> "stdin" [] n = 1 -> "stdout" [] n = 2 -> "stderr"

AsStarted(p, but) == \A n \in (0 .. MaxFd) \ but : fds[p][n] = Started(n)

DupInv ==
    program = "dup" =>
       /\ stdio.parent = << >>
       /\ In("parent", 1, 4) => Refers("parent", var.parent.fd) = "hello"
       /\ In("parent", 2, 4) => Refers("parent", var.parent.newfd) = "hello"
       /\ In("parent", 0, 2) => Holds("hello", << >>) /\ offset.hello = 0
       /\ In("parent", 3, 3) => Holds("hello", <<"123">>) /\ offset.hello = 1
       /\ In("parent", 4, 6) \/ status.parent = "0" => Holds("hello", <<"123", "345">>)

Dup2FileInv ==
    program = "dup2_file" =>
       /\ stdio.parent = << >>
       /\ In("parent", 1, 5) => Refers("parent", var.parent.fd1) = "hello1"
       /\ In("parent", 2, 3) =>
             Refers("parent", var.parent.fd2) = "hello2" /\ var.parent.fd2 # var.parent.fd1
       /\ In("parent", 4, 5) => Refers("parent", var.parent.newfd) = "hello1"
       /\ In("parent", 0, 4) => Holds("hello1", << >>) /\ offset.hello1 = 0
       /\ In("parent", 5, 5) => Holds("hello1", <<"123">>) /\ offset.hello1 = 1
       /\ In("parent", 6, 8) \/ status.parent = "0" => Holds("hello1", <<"123", "567">>)
       /\ In("parent", 0, 2) => Holds("hello2", << >>) /\ offset.hello2 = 0
       /\ In("parent", 3, 8) \/ status.parent = "0" => Holds("hello2", <<"hello">>)

(* open() gives 1 if it is the lowest that is free. *)
GivenOne == std \cap {0, 1} = {0}

Dup2StdoutInv ==
    program = "dup2_stdout" =>
       /\ In("parent", 0, 0) => AsStarted("parent", {})
       /\ In("parent", 1, 3) =>
             Refers("parent", var.parent.fd) = "hello1" /\ (var.parent.fd = 1 <=> GivenOne)
       /\ In("parent", 2, 3) => fds.parent[1] = "hello1"
       /\ In("parent", 4, 4) => fds.parent[1] = IF GivenOne THEN "closed" ELSE "hello1"
       /\ In("parent", 0, 2) => stdio.parent = << >> /\ mode.parent = "new"
       /\ In("parent", 3, 4) => stdio.parent = <<"hello_world">>
       /\ In("parent", 0, 4) => Holds("hello1", << >>) /\ offset.hello1 = 0
       /\ status.parent = "0" =>
             Holds("hello1", IF GivenOne THEN << >> ELSE <<"hello_world">>)

ChangeInv ==
    program = "exec_change_fd" =>
       /\ In("parent", 0, 1) => AsStarted("parent", {})
       /\ In("parent", 2, 2) => AsStarted("parent", {1}) /\ fds.parent[1] = "closed"
       /\ In("parent", 3, 6) \/ status.parent = "command" =>
             IF 0 \in std THEN fds.parent[1] \in {"new_stdout", "closed"}
                          ELSE fds.parent[1] = "closed"

-----------------------------------------------------------------------------
(* pipe-launch.c *)

PipeMade(p) ==
    /\ var[p].READ < var[p].WRITE /\ var[p].WRITE <= MaxFd
    /\ var[p].READ \notin std /\ var[p].WRITE \notin std
    /\ fds[p][var[p].READ] = "pipeR" /\ fds[p][var[p].WRITE] = "pipeW"
    /\ 0 \in std => fds[p][0] = "input"
    /\ 0 \notin std => var[p].READ = 0
    /\ AsStarted(p, {0, var[p].READ, var[p].WRITE})

NoWriteEnd(p) == \A n \in 0 .. MaxFd : fds[p][n] # "pipeW"

(* The descriptors of the child but the ones of `but'. *)
AsGiven(but) ==
    /\ 0 \in std => fds.child[0] = "input"
    /\ \A n \in (1 .. MaxFd) \ but : fds.child[n] \in {Started(n), "closed"}

ParentLaunch ==
    /\ In("parent", 0, 0) => AsStarted("parent", {})
    /\ In("parent", 1, 2) =>
          /\ Refers("parent", var.parent.in) = "input" /\ var.parent.in \notin std
          /\ 0 \notin std => var.parent.in = 0
          /\ AsStarted("parent", {0, var.parent.in})
    /\ In("parent", 2, 3) /\ 0 \in std => fds.parent[0] = "input"
    /\ In("parent", 3, 3) => AsStarted("parent", {0}) /\ (0 \notin std => fds.parent[0] = "closed")
    /\ In("parent", 4, 5) => PipeMade("parent")
    /\ In("parent", 6, 8) => var.parent.READ \notin std
    /\ In("parent", 6, 10) => NoWriteEnd("parent")
    /\ In("parent", 0, 9) => stdio.parent = << >>
    /\ 1 \in std /\ status.parent = "running" => fds.parent[1] = "stdout"
    /\ "total_count" \in {stdio.parent[k] : k \in DOMAIN stdio.parent} => In("parent", 10, 10)

ChildLaunch ==
    /\ In("child", 0, 0) => PipeMade("child")
    /\ In("child", 1, 2) =>
          /\ var.child.READ < var.child.WRITE /\ var.child.WRITE <= MaxFd
          /\ var.child.READ \notin std /\ var.child.WRITE \notin std
          /\ fds.child[var.child.WRITE] = "pipeW"
    /\ In("child", 1, 1) => AsGiven({var.child.WRITE})
    /\ In("child", 2, 2) => fds.child[1] = "pipeW" /\ AsGiven({1, var.child.WRITE})
    /\ In("child", 3, 3) \/ status.child = "command" =>
          AsGiven({1}) /\ (std \cap {0, 1} # {} => fds.child[1] = "pipeW")
    /\ stdio.child = << >>

(* What each of them knows of the other. *)
BothLaunch ==
    /\ In("parent", 0, 4) => status.child = "unborn"
    /\ In("parent", 5, 10) => status.child # "unborn"
    /\ In("parent", 7, 10) => NoWriteEnd("child") /\ pipeBuf = << >>
    /\ In("parent", 8, 10) => status.child \in {"0", "1", "reaped"}
    /\ status.child \in {"unborn", "running"} => sent = 0
    /\ status.child = "command" => sent + Len(todo.child) <= MaxBytes

LaunchInv == program = "pipe_launch" => ParentLaunch /\ ChildLaunch /\ BothLaunch

NotPiped == program # "pipe_launch" => sent = 0 /\ pipeBuf = << >>

-----------------------------------------------------------------------------
(* What comes out on stdout. *)

Occurs(s, t) == {k \in DOMAIN s : s[k] = t}
NoneIn(s, t) == Occurs(s, t) = {}
OneIn(s, t) == \E k \in DOMAIN s : Occurs(s, t) = {k}

OneOut(t) ==
    \/ OneIn(content.stdout, t) /\ NoneIn(stdio.parent, t) /\ NoneIn(stdio.child, t)
    \/ NoneIn(content.stdout, t) /\ OneIn(stdio.parent, t) /\ NoneIn(stdio.child, t)
    \/ NoneIn(content.stdout, t) /\ NoneIn(stdio.parent, t) /\ OneIn(stdio.child, t)
NoneOut(t) ==
    NoneIn(content.stdout, t) /\ NoneIn(stdio.parent, t) /\ NoneIn(stdio.child, t)

Forking == {"simple_fork", "zombie", "orphan"}

OthersOld == \A f \in Files \ {"stdout"} : \A k \in DOMAIN content[f] : content[f][k] = "old"

Regular(p) ==
    /\ p = "parent" => status.parent \in {"running", "0"}
    /\ status[p] = "running" => OnText(p)

LinesInv ==
    program \in Forking \cup {"pipe_launch"} /\ 1 \in std =>
       /\ OthersOld /\ offset.stdout = Len(content.stdout)
       /\ program \in Forking =>
             /\ \A p \in Processes : status[p] = "running" => fds[p][1] = "stdout"
             /\ In("parent", 0, 0) => stdio.parent = << >>
             /\ In("parent", 1, 4) => status.child # "unborn"
             /\ \A p \in Processes : Ended(p) => stdio[p] = << >>
             /\ status.child = "running" => OnText("child")
       /\ \A p \in Processes : Regular(p) =>
             \A k \in DOMAIN CallsOf(p) : CallsOf(p)[k][1] \in {"printf", "puts"} =>
                IF status[p] # "unborn" /\ k <= Done(p) THEN OneOut(CallsOf(p)[k][2])
                                                         ELSE NoneOut(CallsOf(p)[k][2])

(* fflush.c *)
HelloWorld == <<"hello_world">>

FlushInv ==
    program = "fflush" /\ 1 \in std =>
       /\ OthersOld /\ offset.stdout = Len(content.stdout)
       /\ \A p \in Processes : status[p] = "running" => fds[p][1] = "stdout"
       /\ In("parent", 0, 0) => status.child = "unborn" /\ stdio.parent = << >>
       /\ In("parent", 1, 2) => stdio.parent = HelloWorld
       /\ \A p \in Processes : Ended(p) => stdio[p] = << >>
       /\ status.parent \in {"running", "0"}
       /\ status.parent = "running" => OnText("parent")
       /\ status.child \in {"unborn", "running", "0"}
       /\ todo.child = << >>
       /\ status.child = "running" => stdio.child = HelloWorld
       /\ content.stdout =
             CASE status.parent = "0" /\ status.child = "0" -> HelloWorld \o HelloWorld
               [] status.parent = "0" /\ status.child # "0" -> HelloWorld
               [] status.parent # "0" /\ status.child = "0" -> HelloWorld
               [] OTHER -> << >>

(* exec-simple.c and exec-change-fd.c *)
ExecInv ==
    program \in {"exec_simple", "exec_change_fd"} /\ 1 \in std =>
       /\ offset.stdout = Len(content.stdout)
       /\ status.parent \in {"running", "command", "0"} =>
             \A f \in Files \ {"stdout"} : NoneIn(content[f], "before_exec")
       /\ In("parent", 0, 0) =>
             /\ fds.parent[1] = "stdout" /\ mode.parent = "new" /\ stdio.parent = << >>
             /\ NoneIn(content.stdout, "before_exec")
       /\ In("parent", 1, 6) /\ tty => NoneIn(stdio.parent, "before_exec")
       /\ status.parent = "command" => NoneIn(stdio.parent, "before_exec")
       /\ In("parent", 1, 6) \/ status.parent \in {"command", "0"} =>
             IF tty THEN OneIn(content.stdout, "before_exec")
                    ELSE NoneIn(content.stdout, "before_exec")
       /\ status.parent = "running" => todo.parent # << >>
       /\ ~In("parent", 0, 0) /\ tty /\ status.parent = "running" => mode.parent = "line"

FdInv == /\ Typed /\ Course /\ DupInv /\ Dup2FileInv /\ Dup2StdoutInv /\ ChangeInv /\ LaunchInv
         /\ NotPiped /\ LinesInv /\ FlushInv /\ ExecInv

-----------------------------------------------------------------------------
(* The programs, call by call. *)

(* The arguments of a call. *)
LEMMA CallArguments ==
    ASSUME NEW c \in CallSet
    PROVE  /\ c[1] = "open" => c[2] \in Assigned /\ c[3] \in Files \cup {"input"}
           /\ c[1] = "dup" => c[2] \in Assigned /\ c[3] \in Names
           /\ c[1] = "dup2" => c[2] \in Assigned /\ c[3] \in Names /\ c[4] \in Names
           /\ c[1] \in {"close", "count"} => c[2] \in Names
           /\ c[1] = "write" => c[2] \in Names /\ c[3] \in Texts
           /\ c[1] \in {"printf", "puts"} => c[2] \in Texts
           /\ c[1] = "exec" => c[2] \in {"cmd", "python"}
           /\ c[1] = "exit" => c[2] \in {"0", "1"}
BY DEF CallSet

(* A list of some length is a sequence. *)
LEMMA Lists ==
    ASSUME NEW S
    PROVE  /\ << >> \in Seq(S)
           /\ \A a \in S : <<a>> \in Seq(S)
           /\ \A a, b \in S : <<a, b>> \in Seq(S)
           /\ \A a, b, c \in S : <<a, b, c>> \in Seq(S)
           /\ \A a, b, c, d \in S : <<a, b, c, d>> \in Seq(S)
           /\ \A a, b, c, d, e \in S : <<a, b, c, d, e>> \in Seq(S)
           /\ \A a, b, c, d, e, f \in S : <<a, b, c, d, e, f>> \in Seq(S)
           /\ \A a, b, c, d, e, f, g, h \in S : <<a, b, c, d, e, f, g, h>> \in Seq(S)
           /\ \A a, b, c, d, e, f, g, h, k, l \in S : <<a, b, c, d, e, f, g, h, k, l>> \in Seq(S)
OBVIOUS

(* The calls of every program, and their arguments, are such. *)
LEMMA DupCTyped == DupC \in Seq(CallSet)
<1>1. <<"open", "fd", "hello">> \in CallSet
  BY DEF CallSet, Assigned, Names, Files, Texts
<1>2. <<"dup", "newfd", "fd">> \in CallSet
  BY DEF CallSet, Assigned, Names, Files, Texts
<1>3. <<"write", "fd", "123">> \in CallSet
  BY DEF CallSet, Assigned, Names, Files, Texts
<1>4. <<"write", "newfd", "345">> \in CallSet
  BY DEF CallSet, Assigned, Names, Files, Texts
<1>5. <<"close", "fd">> \in CallSet
  BY DEF CallSet, Assigned, Names, Files, Texts
<1>6. <<"close", "newfd">> \in CallSet
  BY DEF CallSet, Assigned, Names, Files, Texts
<1>. QED  BY <1>1, <1>2, <1>3, <1>4, <1>5, <1>6, Lists DEF DupC

LEMMA Dup2FileTyped == Dup2File \in Seq(CallSet)
<1>1. <<"open", "fd1", "hello1">> \in CallSet
  BY DEF CallSet, Assigned, Names, Files, Texts
<1>2. <<"open", "fd2", "hello2">> \in CallSet
  BY DEF CallSet, Assigned, Names, Files, Texts
<1>3. <<"write", "fd2", "hello">> \in CallSet
  BY DEF CallSet, Assigned, Names, Files, Texts
<1>4. <<"dup2", "newfd", "fd1", "fd2">> \in CallSet
  BY DEF CallSet, Assigned, Names, Files, Texts
<1>5. <<"write", "fd1", "123">> \in CallSet
  BY DEF CallSet, Assigned, Names, Files, Texts
<1>6. <<"write", "newfd", "567">> \in CallSet
  BY DEF CallSet, Assigned, Names, Files, Texts
<1>7. <<"close", "fd1">> \in CallSet
  BY DEF CallSet, Assigned, Names, Files, Texts
<1>8. <<"close", "newfd">> \in CallSet
  BY DEF CallSet, Assigned, Names, Files, Texts
<1>. QED  BY <1>1, <1>2, <1>3, <1>4, <1>5, <1>6, <1>7, <1>8, Lists DEF Dup2File

LEMMA Dup2StdoutTyped == Dup2Stdout \in Seq(CallSet)
<1>1. <<"open", "fd", "hello1">> \in CallSet
  BY DEF CallSet, Assigned, Names, Files, Texts
<1>2. <<"dup2", "newfd", "fd", "STDOUT">> \in CallSet
  BY DEF CallSet, Assigned, Names, Files, Texts
<1>3. <<"printf", "hello_world">> \in CallSet
  BY DEF CallSet, Assigned, Names, Files, Texts
<1>4. <<"close", "fd">> \in CallSet
  BY DEF CallSet, Assigned, Names, Files, Texts
<1>. QED  BY <1>1, <1>2, <1>3, <1>4, Lists DEF Dup2Stdout

LEMMA PipeLaunchTyped == PipeLaunch \in Seq(CallSet)
<1>1. <<"open", "in", "input">> \in CallSet
  BY DEF CallSet, Assigned, Names, Files, Texts
<1>2. <<"dup2", "newfd", "in", "STDIN">> \in CallSet
  BY DEF CallSet, Assigned, Names, Files, Texts
<1>3. <<"close", "in">> \in CallSet
  BY DEF CallSet, Assigned, Names, Files, Texts
<1>4. <<"pipe">> \in CallSet
  BY DEF CallSet, Assigned, Names, Files, Texts
<1>5. <<"fork">> \in CallSet
  BY DEF CallSet, Assigned, Names, Files, Texts
<1>6. <<"close", "WRITE">> \in CallSet
  BY DEF CallSet, Assigned, Names, Files, Texts
<1>7. <<"count", "READ">> \in CallSet
  BY DEF CallSet, Assigned, Names, Files, Texts
<1>8. <<"wait">> \in CallSet
  BY DEF CallSet, Assigned, Names, Files, Texts
<1>9. <<"close", "READ">> \in CallSet
  BY DEF CallSet, Assigned, Names, Files, Texts
<1>10. <<"printf", "total_count">> \in CallSet
  BY DEF CallSet, Assigned, Names, Files, Texts
<1>. QED  BY <1>1, <1>2, <1>3, <1>4, <1>5, <1>6, <1>7, <1>8, <1>9, <1>10, Lists DEF PipeLaunch

LEMMA PipeLaunchChildTyped == PipeLaunchChild \in Seq(CallSet)
<1>1. <<"close", "READ">> \in CallSet
  BY DEF CallSet, Assigned, Names, Files, Texts
<1>2. <<"dup2", "newfd", "WRITE", "STDOUT">> \in CallSet
  BY DEF CallSet, Assigned, Names, Files, Texts
<1>3. <<"close", "WRITE">> \in CallSet
  BY DEF CallSet, Assigned, Names, Files, Texts
<1>4. <<"exec", "cmd">> \in CallSet
  BY DEF CallSet, Assigned, Names, Files, Texts
<1>5. <<"exit", "1">> \in CallSet
  BY DEF CallSet, Assigned, Names, Files, Texts
<1>. QED  BY <1>1, <1>2, <1>3, <1>4, <1>5, Lists DEF PipeLaunchChild

LEMMA ExecChangeFdTyped == ExecChangeFd \in Seq(CallSet)
<1>1. <<"printf", "before_exec">> \in CallSet
  BY DEF CallSet, Assigned, Names, Files, Texts
<1>2. <<"close", "STDOUT">> \in CallSet
  BY DEF CallSet, Assigned, Names, Files, Texts
<1>3. <<"open", "fd", "new_stdout">> \in CallSet
  BY DEF CallSet, Assigned, Names, Files, Texts
<1>4. <<"printf", "new_stdout_is">> \in CallSet
  BY DEF CallSet, Assigned, Names, Files, Texts
<1>5. <<"exec", "python">> \in CallSet
  BY DEF CallSet, Assigned, Names, Files, Texts
<1>6. <<"exit", "1">> \in CallSet
  BY DEF CallSet, Assigned, Names, Files, Texts
<1>. QED  BY <1>1, <1>2, <1>3, <1>4, <1>5, <1>6, Lists DEF ExecChangeFd

LEMMA ExecSimpleTyped == ExecSimple \in Seq(CallSet)
<1>1. <<"printf", "before_exec">> \in CallSet
  BY DEF CallSet, Assigned, Names, Files, Texts
<1>2. <<"exec", "python">> \in CallSet
  BY DEF CallSet, Assigned, Names, Files, Texts
<1>3. <<"exit", "1">> \in CallSet
  BY DEF CallSet, Assigned, Names, Files, Texts
<1>. QED  BY <1>1, <1>2, <1>3, Lists DEF ExecSimple

LEMMA FflushTyped == Fflush \in Seq(CallSet)
<1>1. <<"puts", "hello_world">> \in CallSet
  BY DEF CallSet, Assigned, Names, Files, Texts
<1>2. <<"fork">> \in CallSet
  BY DEF CallSet, Assigned, Names, Files, Texts
<1>. QED  BY <1>1, <1>2, Lists DEF Fflush

LEMMA SimpleForkTyped == SimpleFork \in Seq(CallSet)
<1>1. <<"fork">> \in CallSet
  BY DEF CallSet, Assigned, Names, Files, Texts
<1>2. <<"printf", "parent_process">> \in CallSet
  BY DEF CallSet, Assigned, Names, Files, Texts
<1>3. <<"wait">> \in CallSet
  BY DEF CallSet, Assigned, Names, Files, Texts
<1>4. <<"printf", "exit_status">> \in CallSet
  BY DEF CallSet, Assigned, Names, Files, Texts
<1>. QED  BY <1>1, <1>2, <1>3, <1>4, Lists DEF SimpleFork

LEMMA SimpleForkChildTyped == SimpleForkChild \in Seq(CallSet)
<1>1. <<"printf", "child_process">> \in CallSet
  BY DEF CallSet, Assigned, Names, Files, Texts
<1>2. <<"exit", "1">> \in CallSet
  BY DEF CallSet, Assigned, Names, Files, Texts
<1>. QED  BY <1>1, <1>2, Lists DEF SimpleForkChild

LEMMA ZombieTyped == Zombie \in Seq(CallSet)
<1>1. <<"fork">> \in CallSet
  BY DEF CallSet, Assigned, Names, Files, Texts
<1>2. <<"printf", "parent_process">> \in CallSet
  BY DEF CallSet, Assigned, Names, Files, Texts
<1>. QED  BY <1>1, <1>2, Lists DEF Zombie

LEMMA ZombieChildTyped == ZombieChild \in Seq(CallSet)
<1>1. <<"printf", "child_process">> \in CallSet
  BY DEF CallSet, Assigned, Names, Files, Texts
<1>2. <<"exit", "0">> \in CallSet
  BY DEF CallSet, Assigned, Names, Files, Texts
<1>. QED  BY <1>1, <1>2, Lists DEF ZombieChild

LEMMA OrphanChildTyped == OrphanChild \in Seq(CallSet)
<1>1. <<"printf", "child_process">> \in CallSet
  BY DEF CallSet, Assigned, Names, Files, Texts
<1>2. <<"printf", "my_parent">> \in CallSet
  BY DEF CallSet, Assigned, Names, Files, Texts
<1>. QED  BY <1>1, <1>2, Lists DEF OrphanChild

-----------------------------------------------------------------------------
(* Sequences and descriptors. *)

(* A nonempty set of natural numbers has a minimum. *)
LEMMA HasMin ==
    ASSUME NEW S \in SUBSET Nat, S # {}
    PROVE  \E m \in S : \A x \in S : m <= x
<1>1. \E m \in S : \A x \in S : ~(<<x, m>> \in OpToRel(<, Nat))
  BY NatLessThanWellFounded, WFMin, Zenon
<1>2. \A m \in S : \A x \in S : x < m => <<x, m>> \in OpToRel(<, Nat)
  BY Zenon DEF OpToRel
<1>3. \E m \in S : \A x \in S : ~(x < m)
  BY <1>1, <1>2, Zenon
<1>. QED  BY <1>3

(* Lowest finds the least of the free descriptors. *)
LEMMA LowestIsLowest ==
    ASSUME NEW free \in SUBSET (0 .. MaxFd), free # {}
    PROVE  Lowest(free) \in free /\ \A m \in free : Lowest(free) <= m
<1>1. free \in SUBSET Nat
  BY FdBounds
<1>2. \E n \in free : \A m \in free : n <= m
  BY <1>1, HasMin
<1>. QED  BY <1>2 DEF Lowest

(* What Store makes of the contents of a file. *)
Overwrite(c, o, t) == SubSeq(c, 1, o) \o t \o SubSeq(c, o + Len(t) + 1, Len(c))

(* The texts stand where they are written; before and after, all is as it was. *)
LEMMA Overwritten ==
    ASSUME NEW S, NEW c \in Seq(S), NEW t \in Seq(S), NEW o \in 0 .. Len(c)
    PROVE  LET u == Overwrite(c, o, t) IN
           /\ u \in Seq(S)
           /\ Len(u) = IF o + Len(t) <= Len(c) THEN Len(c) ELSE o + Len(t)
           /\ \A k \in 1 .. Len(u) : u[k] = IF k <= o THEN c[k]
                                            ELSE IF k <= o + Len(t) THEN t[k - o] ELSE c[k]
<1>. DEFINE u == Overwrite(c, o, t)
            a == SubSeq(c, 1, o)
            b == SubSeq(c, o + Len(t) + 1, Len(c))
<1>1. Len(c) \in Nat /\ Len(t) \in Nat /\ o \in Nat
  OBVIOUS
<1>2. a \in Seq(S) /\ Len(a) = o /\ \A k \in 1 .. o : a[k] = c[k]
  BY <1>1
<1>3. /\ b \in Seq(S)
      /\ Len(b) = IF o + Len(t) <= Len(c) THEN Len(c) - (o + Len(t)) ELSE 0
      /\ \A k \in 1 .. Len(b) : b[k] = c[o + Len(t) + k]
  BY <1>1, SubSeqProperties
<1>. HIDE DEF a, b
<1>. DEFINE v == a \o t
            n == o + Len(t)
<1>4. v \in Seq(S) /\ Len(v) = n /\ \A k \in 1 .. n : v[k] = IF k <= o THEN a[k] ELSE t[k - o]
  BY <1>1, <1>2, ConcatProperties
<1>5. u = v \o b
  BY DEF a, b, Overwrite
<1>6. n \in Nat /\ o <= n
  BY <1>1
<1>7. Len(b) = IF n <= Len(c) THEN Len(c) - n ELSE 0
  BY <1>3
<1>8. \A k \in 1 .. Len(b) : b[k] = c[n + k]
  BY <1>3
<1>. HIDE DEF u, v, n
<1>9. u \in Seq(S) /\ Len(u) = n + Len(b)
      /\ \A k \in 1 .. n + Len(b) : u[k] = IF k <= n THEN v[k] ELSE b[k - n]
  BY <1>3, <1>4, <1>5, ConcatProperties
<1>10. Len(u) = IF n <= Len(c) THEN Len(c) ELSE n
  BY <1>1, <1>6, <1>7, <1>9
<1>11. ASSUME NEW k \in 1 .. Len(u)
       PROVE  u[k] = IF k <= o THEN c[k] ELSE IF k <= n THEN t[k - o] ELSE c[k]
  <2>1. CASE k <= n
    BY <1>1, <1>2, <1>4, <1>6, <1>9, <2>1
  <2>2. CASE k > n
    <3>1. k - n \in 1 .. Len(b) /\ n + (k - n) = k
      BY <1>1, <1>6, <1>7, <1>9, <2>2
    <3>. QED  BY <1>6, <1>8, <1>9, <2>2, <3>1
  <2>. QED  BY <1>6, <2>1, <2>2
<1>. QED  BY <1>9, <1>10, <1>11 DEF u, n

(* A write changes the file that the descriptor refers to, and no other. *)
LEMMA StoreStep ==
    ASSUME Typed, NEW d \in Descriptions \cup {"closed"}, NEW t \in Seq(Texts), Store(d, t)
    PROVE  /\ content' \in [Files -> Seq(Texts)] /\ offset' \in [Files -> Nat]
           /\ \A f \in Files : offset'[f] \in 0 .. Len(content'[f])
           /\ \A f \in Files \ {d} : content'[f] = content[f] /\ offset'[f] = offset[f]
           /\ d \in Files =>
                 /\ offset'[d] = offset[d] + Len(t)
                 /\ Len(content'[d]) = IF offset[d] + Len(t) <= Len(content[d]) THEN Len(content[d])
                                       ELSE offset[d] + Len(t)
                 /\ \A k \in 1 .. Len(content'[d]) :
                       content'[d][k] = IF k <= offset[d] THEN content[d][k]
                                        ELSE IF k <= offset[d] + Len(t) THEN t[k - offset[d]]
                                        ELSE content[d][k]
<1>1. /\ content \in [Files -> Seq(Texts)] /\ offset \in [Files -> Nat]
      /\ \A f \in Files : offset[f] \in 0 .. Len(content[f])
  BY DEF Typed, FdTypeOK
<1>2. CASE d \in Files
  <2>. DEFINE u == Overwrite(content[d], offset[d], t)
  <2>1. content' = [content EXCEPT ![d] = u] /\ offset' = [offset EXCEPT ![d] = @ + Len(t)]
    BY <1>2 DEF Store, Overwrite
  <2>2. /\ u \in Seq(Texts)
        /\ Len(u) = IF offset[d] + Len(t) <= Len(content[d]) THEN Len(content[d])
                    ELSE offset[d] + Len(t)
        /\ \A k \in 1 .. Len(u) : u[k] = IF k <= offset[d] THEN content[d][k]
                                         ELSE IF k <= offset[d] + Len(t) THEN t[k - offset[d]]
                                         ELSE content[d][k]
    <3>1. content[d] \in Seq(Texts) /\ offset[d] \in 0 .. Len(content[d])
      BY <1>1, <1>2
    <3>. QED  BY <3>1, Overwritten
  <2>. HIDE DEF u
  <2>3. Len(t) \in Nat
    OBVIOUS
  <2>4. content' \in [Files -> Seq(Texts)] /\ content'[d] = u
        /\ \A f \in Files \ {d} : content'[f] = content[f]
    BY <1>1, <1>2, <2>1, <2>2
  <2>5. offset' \in [Files -> Nat] /\ offset'[d] = offset[d] + Len(t)
        /\ \A f \in Files \ {d} : offset'[f] = offset[f]
    BY <1>1, <1>2, <2>1, <2>3
  <2>6. offset'[d] \in 0 .. Len(content'[d])
    BY <1>1, <1>2, <2>2, <2>3, <2>4, <2>5
  <2>. QED  BY <1>1, <1>2, <2>2, <2>4, <2>5, <2>6
<1>3. CASE d \notin Files
  BY <1>1, <1>3 DEF Store, files
<1>. QED  BY <1>2, <1>3

(* Nothing is stored of an empty buffer. *)
LEMMA StoreNothing ==
    ASSUME Typed, NEW d \in Descriptions \cup {"closed"}, Store(d, << >>)
    PROVE  UNCHANGED <<content, offset>>
<1>1. CASE d \in Files
  <2>1. content \in [Files -> Seq(Texts)] /\ offset \in [Files -> Nat] /\ << >> \in Seq(Texts)
    BY Lists DEF Typed
  <2>2. /\ content' \in [Files -> Seq(Texts)] /\ offset' \in [Files -> Nat]
        /\ \A f \in Files \ {d} : content'[f] = content[f] /\ offset'[f] = offset[f]
        /\ offset'[d] = offset[d] + Len(<< >>)
        /\ Len(content'[d]) = IF offset[d] + Len(<< >>) <= Len(content[d]) THEN Len(content[d])
                              ELSE offset[d] + Len(<< >>)
        /\ \A k \in 1 .. Len(content'[d]) :
              content'[d][k] = IF k <= offset[d] THEN content[d][k]
                               ELSE IF k <= offset[d] + Len(<< >>) THEN (<< >>)[k - offset[d]]
                               ELSE content[d][k]
    BY <1>1, <2>1, StoreStep
  <2>3. offset[d] \in 0 .. Len(content[d]) /\ offset[d] \in Nat /\ Len(<< >>) = 0
    BY <1>1, <2>1 DEF Typed, FdTypeOK
  <2>4. offset'[d] = offset[d] /\ Len(content'[d]) = Len(content[d])
        /\ \A k \in 1 .. Len(content'[d]) : content'[d][k] = content[d][k]
    BY <2>2, <2>3
  <2>5. content'[d] = content[d]
    <3>1. content'[d] \in Seq(Texts) /\ content[d] \in Seq(Texts)
      BY <1>1, <2>1, <2>2
    <3>. QED  BY <2>4, <3>1, SeqEqual
  <2>. QED  BY <2>1, <2>2, <2>4, <2>5
<1>2. CASE d \notin Files
  BY <1>2 DEF Store, files
<1>. QED  BY <1>1, <1>2

(* What was in a file before. *)
LEMMA OldTyped == \A old \in OldContents : old \in Seq(Texts)
<1>1. "old" \in Texts
  BY DEF Texts
<1>. QED  BY <1>1, Lists DEF OldContents

(* A file that holds texts, and is written where they end, holds more texts. *)
LEMMA StoreHolds ==
    ASSUME Typed, NEW f \in Files, NEW t \in Seq(Texts), NEW u \in Seq(Texts),
           Holds(f, t), offset[f] = Len(t), Store(f, u)
    PROVE  Holds(f, t \o u)' /\ offset'[f] = Len(t) + Len(u)
<1>1. PICK old \in OldContents : content[f] = t \o SubSeq(old, Len(t) + 1, Len(old))
  BY DEF Holds
<1>2. old \in Seq(Texts) /\ Len(old) \in Nat /\ Len(t) \in Nat /\ Len(u) \in Nat
      /\ t \o u \in Seq(Texts) /\ Len(t \o u) = Len(t) + Len(u)
  BY OldTyped
<1>3. \A x \in Seq(Texts) : x \o SubSeq(old, Len(x) + 1, Len(old)) = Overwrite(old, 0, x)
  <2>1. SUFFICES ASSUME NEW x \in Seq(Texts)
                 PROVE  x \o SubSeq(old, Len(x) + 1, Len(old)) = Overwrite(old, 0, x)
    OBVIOUS
  <2>2. SubSeq(old, 1, 0) = << >> /\ << >> \o x = x /\ 0 + Len(x) + 1 = Len(x) + 1
    BY <1>2
  <2>. QED  BY <2>2 DEF Overwrite
<1>. DEFINE w == content'[f]
            v == Overwrite(old, 0, t \o u)
<1>4. content[f] = Overwrite(old, 0, t)
  BY <1>1, <1>3
<1>0. \A x \in Seq(Texts) :
          LET y == Overwrite(old, 0, x) IN
          /\ y \in Seq(Texts) /\ Len(y) = IF Len(x) <= Len(old) THEN Len(old) ELSE Len(x)
          /\ \A k \in 1 .. Len(y) : y[k] = IF k <= Len(x) THEN x[k] ELSE old[k]
  <2>1. SUFFICES ASSUME NEW x \in Seq(Texts)
                 PROVE  LET y == Overwrite(old, 0, x) IN
                        /\ y \in Seq(Texts)
                        /\ Len(y) = IF Len(x) <= Len(old) THEN Len(old) ELSE Len(x)
                        /\ \A k \in 1 .. Len(y) : y[k] = IF k <= Len(x) THEN x[k] ELSE old[k]
    OBVIOUS
  <2>2. 0 \in 0 .. Len(old) /\ Len(x) \in Nat
    BY <1>2
  <2>. QED  BY <1>2, <2>2, Overwritten
<1>5. /\ content[f] \in Seq(Texts)
      /\ Len(content[f]) = IF Len(t) <= Len(old) THEN Len(old) ELSE Len(t)
      /\ \A k \in 1 .. Len(content[f]) : content[f][k] = IF k <= Len(t) THEN t[k] ELSE old[k]
  BY <1>0, <1>4
<1>6. /\ v \in Seq(Texts)
      /\ Len(v) = IF Len(t) + Len(u) <= Len(old) THEN Len(old) ELSE Len(t) + Len(u)
      /\ \A k \in 1 .. Len(v) : v[k] = IF k <= Len(t) + Len(u) THEN (t \o u)[k] ELSE old[k]
  BY <1>0, <1>2
<1>7. \A k \in 1 .. Len(t) + Len(u) : (t \o u)[k] = IF k <= Len(t) THEN t[k] ELSE u[k - Len(t)]
  BY <1>2, ConcatProperties
<1>8. /\ w \in Seq(Texts) /\ offset'[f] = Len(t) + Len(u)
      /\ Len(w) = IF Len(t) + Len(u) <= Len(content[f]) THEN Len(content[f]) ELSE Len(t) + Len(u)
      /\ \A k \in 1 .. Len(w) : w[k] = IF k <= Len(t) THEN content[f][k]
                                       ELSE IF k <= Len(t) + Len(u) THEN u[k - Len(t)]
                                       ELSE content[f][k]
  <2>1. f \in Descriptions \cup {"closed"}
    BY DEF Descriptions
  <2>. QED  BY <2>1, StoreStep
<1>. HIDE DEF w, v
<1>9. Len(w) = Len(v)
  BY <1>2, <1>5, <1>6, <1>8
<1>10. ASSUME NEW k \in 1 .. Len(w) PROVE w[k] = v[k]
  <2>1. CASE k <= Len(t)
    BY <1>2, <1>5, <1>6, <1>7, <1>8, <1>9, <2>1
  <2>2. CASE k > Len(t) /\ k <= Len(t) + Len(u)
    BY <1>2, <1>6, <1>7, <1>8, <1>9, <2>2
  <2>3. CASE k > Len(t) + Len(u)
    <3>1. k \in 1 .. Len(content[f]) /\ k > Len(t)
      BY <1>2, <1>8, <2>3
    <3>. QED  BY <1>2, <1>5, <1>6, <1>8, <1>9, <2>3, <3>1
  <2>. QED  BY <1>2, <2>1, <2>2, <2>3
<1>11. w = v
  BY <1>6, <1>8, <1>9, <1>10, SeqEqual
<1>12. v = (t \o u) \o SubSeq(old, Len(t \o u) + 1, Len(old))
  BY <1>2, <1>3 DEF v
<1>. QED  BY <1>8, <1>11, <1>12 DEF Holds, w

-----------------------------------------------------------------------------
(* What a call needs and what it does. *)

(* The calls that a process has to make. *)
LEMMA CallsOfTyped ==
    ASSUME Typed, NEW p \in Processes, p = "child" => program \in DOMAIN ChildText
    PROVE  CallsOf(p) \in Seq(CallSet)
<1>1. \A x \in DOMAIN Text : Text[x] \in Seq(CallSet)
  BY DupCTyped, Dup2FileTyped, Dup2StdoutTyped, PipeLaunchTyped, ExecChangeFdTyped,
     ExecSimpleTyped, FflushTyped, SimpleForkTyped, ZombieTyped DEF Text
<1>2. \A x \in DOMAIN ChildText : ChildText[x] \in Seq(CallSet)
  <2>1. << >> \in Seq(CallSet)
    BY Lists
  <2>2. /\ DOMAIN ChildText = {"pipe_launch", "fflush", "simple_fork", "zombie", "orphan"}
        /\ ChildText["pipe_launch"] = PipeLaunchChild /\ ChildText["fflush"] = << >>
        /\ ChildText["simple_fork"] = SimpleForkChild /\ ChildText["zombie"] = ZombieChild
        /\ ChildText["orphan"] = OrphanChild
    BY DEF ChildText
  <2>. QED  BY <2>1, <2>2, PipeLaunchChildTyped, SimpleForkChildTyped, ZombieChildTyped,
               OrphanChildTyped
<1>3. program \in DOMAIN Text
  BY DEF Typed, FdTypeOK, Programs
<1>. QED  BY <1>1, <1>2, <1>3 DEF CallsOf, Processes

(* The call that a process has come to. *)
LEMMA Current ==
    ASSUME Typed, NEW p \in Processes, todo[p] # << >>
    PROVE  /\ todo[p][1] \in CallSet /\ todo[p] \in Seq(CallSet) /\ Len(todo[p]) \in Nat \ {0}
           /\ Tail(todo[p]) \in Seq(CallSet) /\ Len(Tail(todo[p])) = Len(todo[p]) - 1
           /\ \A k \in 1 .. Len(todo[p]) - 1 : Tail(todo[p])[k] = todo[p][k + 1]
<1>1. todo[p] \in Seq(CallSet)
  BY DEF Typed
<1>. QED  BY <1>1

(* A process on its way makes the calls in order. *)
LEMMA NextCall ==
    ASSUME Typed, NEW p \in Processes, p = "child" => program \in DOMAIN ChildText,
           OnText(p), todo[p] # << >>
    PROVE  /\ Done(p) \in 0 .. Len(CallsOf(p)) - 1
           /\ todo[p][1] = CallsOf(p)[Done(p) + 1]
           /\ Tail(todo[p]) = Rest(CallsOf(p), Done(p) + 1)
           /\ Len(CallsOf(p)) - Len(Tail(todo[p])) = Done(p) + 1
<1>. DEFINE T == CallsOf(p)
            k == Done(p)
<1>1. T \in Seq(CallSet) /\ Len(T) \in Nat
  BY CallsOfTyped
<1>2. k \in 0 .. Len(T) /\ todo[p] = SubSeq(T, k + 1, Len(T)) /\ k = Len(T) - Len(todo[p])
  BY DEF OnText, Rest, Done
<1>3. Len(todo[p]) \in Nat \ {0} /\ Len(Tail(todo[p])) = Len(todo[p]) - 1
  BY Current
<1>. DEFINE n == Len(todo[p])
<1>0. k = Len(T) - n /\ n \in Nat \ {0} /\ Len(Tail(todo[p])) = n - 1
  BY <1>2, <1>3
<1>. HIDE DEF T, k, n
<1>4. k \in 0 .. Len(T) - 1 /\ Len(T) - Len(Tail(todo[p])) = k + 1
  BY <1>0, <1>1, <1>2
<1>5. todo[p][1] = T[k + 1]
  <2>1. k + 1 \in Int /\ Len(T) \in Int /\ \A j \in k + 1 .. Len(T) : T[j] \in CallSet
    <3>1. \A j \in 1 .. Len(T) : T[j] \in CallSet
      BY <1>1
    <3>2. k \in Nat /\ \A j \in k + 1 .. Len(T) : j \in 1 .. Len(T)
      BY <1>1, <1>4
    <3>. QED  BY <1>1, <3>1, <3>2
  <2>2. \A j \in 1 .. Len(T) - (k + 1) + 1 : SubSeq(T, k + 1, Len(T))[j] = T[k + 1 + j - 1]
    BY <2>1, SubSeqProperties
  <2>3. 1 \in 1 .. Len(T) - (k + 1) + 1 /\ k + 1 + 1 - 1 = k + 1
    BY <1>1, <1>4
  <2>. QED  BY <1>2, <2>2, <2>3
<1>6. Tail(todo[p]) = SubSeq(T, k + 1 + 1, Len(T))
  <2>1. k + 1 \in 1 .. Len(T) /\ Len(T) \in k + 1 .. Len(T)
    BY <1>1, <1>4
  <2>. QED  BY <1>1, <1>2, <2>1, HeadTailOfSubSeq
<1>. QED  BY <1>4, <1>5, <1>6 DEF T, k, Rest

(* Which action a process can take depends on its next call. *)
LEMMA OneCall ==
    ASSUME NEW p \in Processes, Process(p)
    PROVE  /\ ~Ended(p)
           /\ todo[p] = << >> => Exit(p)
           /\ todo[p] # << >> =>
                 LET call == todo[p][1][1] IN
                 /\ call = "open" => Open(p) \/ Fails(p)
                 /\ call = "dup" => Dup(p) \/ Fails(p)
                 /\ call = "dup2" => Dup2(p) \/ Fails(p)
                 /\ call = "close" => Close(p)
                 /\ call = "pipe" => MakePipe(p) \/ Fails(p)
                 /\ call = "write" => Write(p) \/ WritePipe(p)
                 /\ call \in {"printf", "puts"} => Printf(p)
                 /\ call = "fork" => Fork(p) \/ Fails(p)
                 /\ call = "exec" => Exec(p) \/ Fails(p)
                 /\ call = "exit" => Exit(p)
                 /\ call = "wait" => Wait(p)
                 /\ call = "count" => Count(p) \/ CountEOF(p)
BY DEF Process, Open, Dup, Dup2, Close, MakePipe, Write, Printf, Fork, Exec, Fails, Exit, Wait,
       WritePipe, Count, CountEOF, Calls

(* A call that returns, with nothing changed that decides where a process is. *)
LEMMA ReturnStep ==
    ASSUME Typed, NEW p \in Processes, todo[p] # << >>, Returns(p)
    PROVE  /\ todo' \in [Processes -> Seq(CallSet)]
           /\ todo'[p] = Tail(todo[p]) /\ \A q \in Processes \ {p} : todo'[q] = todo[q]
<1>1. Tail(todo[p]) \in Seq(CallSet)
  BY Current
<1>. QED  BY <1>1 DEF Typed, Returns

(* open(), dup() and dup2() change one descriptor and one variable. *)
LEMMA AssignStep ==
    ASSUME Typed, NEW p \in Processes, NEW n \in 0 .. NoFd, NEW d \in Descriptions \cup {"closed"},
           ~Ended(p), todo[p] # << >>, Arg(p, 1) \in Assigned, Assign(p, n, d),
           d \in {"pipeR", "pipeW"} => program = "pipe_launch"
    PROVE  /\ Typed'
           /\ n <= MaxFd => fds'[p][n] = d
           /\ \A m \in (0 .. MaxFd) \ {n} : fds'[p][m] = fds[p][m]
           /\ var'[p][Arg(p, 1)] = n
           /\ \A v \in Names \ {Arg(p, 1)} : var'[p][v] = var[p][v]
           /\ \A q \in Processes \ {p} : fds'[q] = fds[q] /\ var'[q] = var[q]
           /\ Returns(p) /\ UNCHANGED <<constants, status, buffers, files, counters>>
<1>1. /\ Returns(p) /\ UNCHANGED <<constants, status, buffers, files, counters>>
      /\ fds' = [fds EXCEPT ![p][n] = d] /\ var' = [var EXCEPT ![p][Arg(p, 1)] = n]
  BY DEF Assign
<1>2. /\ fds \in [Processes -> [0 .. MaxFd -> Descriptions \cup {"closed"}]]
      /\ var \in [Processes -> [Names -> 0 .. NoFd]]
  BY DEF Typed, FdTypeOK
<1>3. Arg(p, 1) \in Names /\ Arg(p, 1) \notin {"STDIN", "STDOUT"} /\ {"STDIN", "STDOUT"} \subseteq Names
  BY DEF Assigned, Names
<1>4. /\ fds' \in [Processes -> [0 .. MaxFd -> Descriptions \cup {"closed"}]]
      /\ n <= MaxFd => fds'[p][n] = d
      /\ \A m \in (0 .. MaxFd) \ {n} : fds'[p][m] = fds[p][m]
      /\ \A q \in Processes \ {p} : fds'[q] = fds[q]
  <2>. DEFINE table == [fds[p] EXCEPT ![n] = d]
  <2>1. /\ table \in [0 .. MaxFd -> Descriptions \cup {"closed"}]
        /\ n \in 0 .. MaxFd => table[n] = d
        /\ \A m \in (0 .. MaxFd) \ {n} : table[m] = fds[p][m]
    BY <1>2
  <2>2. fds' = [fds EXCEPT ![p] = table]
    BY <1>1, <1>2
  <2>. HIDE DEF table
  <2>3. n <= MaxFd => n \in 0 .. MaxFd
    BY FdBounds DEF NoFd
  <2>. QED  BY <1>2, <2>1, <2>2, <2>3
<1>5. /\ var' \in [Processes -> [Names -> 0 .. NoFd]]
      /\ var'[p][Arg(p, 1)] = n
      /\ \A v \in Names \ {Arg(p, 1)} : var'[p][v] = var[p][v]
      /\ \A q \in Processes \ {p} : var'[q] = var[q]
  BY <1>1, <1>2, <1>3
<1>6. /\ UNCHANGED <<program, std, tty, status, stdio, mode, content, offset, pipeBuf, sent, total>>
      /\ todo' \in [Processes -> Seq(CallSet)] /\ \A q \in Processes \ {p} : todo'[q] = todo[q]
  BY <1>1, ReturnStep DEF constants, buffers, files, counters
<1>7. FdTypeOK'
  <2>1. \A q \in Processes : Ended(q)' => q # p /\ Ended(q)
    BY <1>6 DEF Ended
  <2>. QED  BY <1>4, <1>5, <1>6, <2>1 DEF Typed, FdTypeOK
<1>8. \A q \in Processes :
          /\ \A v \in {"STDIN", "STDOUT"} : var'[q][v] = IF v = "STDIN" THEN 0 ELSE 1
          /\ ~Ended(q)' => \A m \in 0 .. MaxFd :
                fds'[q][m] \in {"pipeR", "pipeW"} => program = "pipe_launch"
  <2>1. ASSUME NEW q \in Processes, NEW v \in {"STDIN", "STDOUT"} PROVE var'[q][v] = var[q][v]
    BY <1>3, <1>5
  <2>2. ASSUME NEW q \in Processes, ~Ended(q), NEW m \in 0 .. MaxFd
        PROVE  fds'[q][m] \in {"pipeR", "pipeW"} => program = "pipe_launch"
    <3>1. fds'[q][m] = fds[q][m] \/ fds'[q][m] = d
      BY <1>4
    <3>. QED  BY <2>2, <3>1 DEF Typed
  <2>. QED  BY <1>6, <2>1, <2>2 DEF Typed, Ended
<1>9. Typed'
  BY <1>6, <1>7, <1>8 DEF Typed
<1>. QED  BY <1>1, <1>4, <1>5, <1>9

(* Which calls the programs make. *)
LEMMA ParentCalls ==
    \A x \in DOMAIN Text : \A k \in DOMAIN Text[x] :
       LET call == Text[x][k][1] IN
       /\ call = "fork" => x \in DOMAIN ChildText
       /\ call \in {"pipe", "count"} => x = "pipe_launch"
       /\ call = "write" => x \in {"dup", "dup2_file"}
       /\ call = "exec" => x \in {"exec_simple", "exec_change_fd"} /\ Text[x][k][2] = "python"
       /\ call = "wait" => x \notin Single
<1>1. /\ DOMAIN Text = {"dup", "dup2_file", "dup2_stdout", "pipe_launch", "exec_change_fd",
                        "exec_simple", "fflush", "simple_fork", "zombie", "orphan"}
      /\ DOMAIN ChildText = {"pipe_launch", "fflush", "simple_fork", "zombie", "orphan"}
  BY DEF Text, ChildText
<1>. DEFINE Good(x) == \A k \in DOMAIN Text[x] :
               LET call == Text[x][k][1] IN
               /\ call = "fork" => x \in DOMAIN ChildText
               /\ call \in {"pipe", "count"} => x = "pipe_launch"
               /\ call = "write" => x \in {"dup", "dup2_file"}
               /\ call = "exec" => x \in {"exec_simple", "exec_change_fd"} /\ Text[x][k][2] = "python"
               /\ call = "wait" => x \notin Single
<1>2. Good("dup")
  BY <1>1 DEF Text, DupC
<1>3. Good("dup2_file")
  BY <1>1 DEF Text, Dup2File
<1>4. Good("dup2_stdout")
  BY <1>1 DEF Text, Dup2Stdout
<1>5. Good("pipe_launch")
  BY <1>1 DEF Text, PipeLaunch, Single
<1>6. Good("exec_change_fd")
  BY <1>1 DEF Text, ExecChangeFd
<1>7. Good("exec_simple")
  BY <1>1 DEF Text, ExecSimple
<1>8. Good("fflush")
  BY <1>1 DEF Text, Fflush
<1>9. Good("simple_fork")
  BY <1>1 DEF Text, SimpleFork, Single
<1>10. Good("zombie") /\ Good("orphan")
  BY <1>1 DEF Text, Zombie
<1>. HIDE DEF Good
<1>11. \A x \in DOMAIN Text : Good(x)
  BY <1>1, <1>2, <1>3, <1>4, <1>5, <1>6, <1>7, <1>8, <1>9, <1>10
<1>. QED  BY <1>11 DEF Good

(* What children call: nothing that makes a new file or a new process. *)
LEMMA ChildCalls ==
    \A x \in DOMAIN ChildText : \A k \in DOMAIN ChildText[x] :
       LET call == ChildText[x][k][1] IN
       /\ call \in {"close", "dup2", "exec", "exit", "printf"}
       /\ call \in {"close", "dup2", "exec"} => x = "pipe_launch"
       /\ call = "printf" => x \in Forking
       /\ call = "exec" => ChildText[x][k][2] = "cmd"
<1>1. DOMAIN ChildText = {"pipe_launch", "fflush", "simple_fork", "zombie", "orphan"}
  BY DEF ChildText
<1>. DEFINE Good(x) == \A k \in DOMAIN ChildText[x] :
               LET call == ChildText[x][k][1] IN
               /\ call \in {"close", "dup2", "exec", "exit", "printf"}
               /\ call \in {"close", "dup2", "exec"} => x = "pipe_launch"
               /\ call = "printf" => x \in Forking
               /\ call = "exec" => ChildText[x][k][2] = "cmd"
<1>2. Good("pipe_launch")
  BY DEF ChildText, PipeLaunchChild
<1>3. Good("fflush")
  BY DEF ChildText
<1>4. Good("simple_fork")
  BY DEF ChildText, SimpleForkChild, Forking
<1>5. Good("zombie")
  BY DEF ChildText, ZombieChild, Forking
<1>6. Good("orphan")
  BY DEF ChildText, OrphanChild, Forking
<1>. HIDE DEF Good
<1>7. \A x \in DOMAIN ChildText : Good(x)
  BY <1>1, <1>2, <1>3, <1>4, <1>5, <1>6
<1>. QED  BY <1>7 DEF Good

(* Who can make which call. *)
LEMMA Callers ==
    ASSUME Typed, Course, NEW p \in Processes, ~Ended(p), todo[p] # << >>
    PROVE  LET call == todo[p][1][1] IN
           /\ status[p] \in {"running", "command"}
           /\ p = "child" => program \in DOMAIN ChildText
           /\ call = "open" => p = "parent" /\ status[p] = "running"
           /\ call = "fork" => p = "parent" /\ status[p] = "running" /\ program \in DOMAIN ChildText
           /\ call = "pipe" => p = "parent" /\ status[p] = "running" /\ program = "pipe_launch"
           /\ call \in {"wait", "count"} => p = "parent" /\ program \notin Single
           /\ call = "count" => program = "pipe_launch"
           /\ call = "write" => \/ p = "parent" /\ program \in {"dup", "dup2_file"}
                                \/ /\ p = "child" /\ program = "pipe_launch"
                                   /\ status[p] = "command" /\ todo[p][1] = <<"write", "STDOUT", "byte">>
           /\ call = "exec" => /\ status[p] = "running"
                               /\ \/ p = "parent" /\ program \in {"exec_simple", "exec_change_fd"}
                                     /\ todo[p][1][2] = "python"
                                  \/ p = "child" /\ program = "pipe_launch" /\ todo[p][1][2] = "cmd"
           /\ call = "puts" => p = "parent"
           /\ p = "child" => call \notin {"open", "dup", "fork", "pipe", "wait", "count", "puts"}
<1>1. status[p] \in {"running", "command"}
  BY DEF Ended
<1>2. p = "child" => program \in DOMAIN ChildText
  <2>1. status.child # "unborn" => program \notin Single /\ program \in Programs
    BY DEF Course, Typed, FdTypeOK
  <2>. QED  BY <1>1, <2>1 DEF Programs, Text, ChildText, Single
<1>3. CASE status[p] = "command"
  <2>1. CASE p = "parent"
    <3>1. todo.parent = << <<"printf", "hello">> >>
      BY <1>3, <2>1 DEF Course
    <3>. QED  BY <1>3, <2>1, <3>1
  <2>2. CASE p = "child"
    <3>1. program = "pipe_launch" /\ 1 \in DOMAIN todo.child
      BY <1>3, <2>2, Current DEF Course
    <3>2. todo.child[1] = <<"write", "STDOUT", "byte">>
      BY <1>3, <2>2, <3>1 DEF Course
    <3>. QED  BY <1>2, <1>3, <2>2, <3>1, <3>2
  <2>. QED  BY <2>1, <2>2 DEF Processes
<1>4. CASE status[p] = "running" /\ todo[p] = Failed
  BY <1>2, <1>4 DEF Failed
<1>5. CASE status[p] = "running" /\ OnText(p)
  <2>. DEFINE j == Done(p) + 1
  <2>1. todo[p][1] = CallsOf(p)[j] /\ j \in DOMAIN CallsOf(p)
    <3>1. Done(p) \in 0 .. Len(CallsOf(p)) - 1 /\ todo[p][1] = CallsOf(p)[j]
      BY <1>2, <1>5, NextCall
    <3>2. CallsOf(p) \in Seq(CallSet)
      BY <1>2, CallsOfTyped
    <3>. QED  BY <3>1, <3>2
  <2>2. program \in DOMAIN Text
    BY DEF Typed, FdTypeOK, Programs
  <2>. HIDE DEF j
  <2>3. CASE p = "parent"
    <3>1. CallsOf(p) = Text[program]
      BY <2>3 DEF CallsOf
    <3>2. LET call == todo[p][1][1] IN
          /\ call = "fork" => program \in DOMAIN ChildText
          /\ call \in {"pipe", "count"} => program = "pipe_launch"
          /\ call = "write" => program \in {"dup", "dup2_file"}
          /\ call = "exec" => program \in {"exec_simple", "exec_change_fd"}
                              /\ todo[p][1][2] = "python"
          /\ call = "wait" => program \notin Single
      BY <2>1, <2>2, <3>1, ParentCalls
    <3>. QED  BY <1>5, <2>3, <3>2 DEF Single
  <2>4. CASE p = "child"
    <3>1. CallsOf(p) = ChildText[program]
      BY <2>4 DEF CallsOf
    <3>. QED  BY <1>2, <1>5, <2>1, <2>4, <3>1, ChildCalls
  <2>. QED  BY <2>3, <2>4 DEF Processes
<1>. QED  BY <1>1, <1>3, <1>4, <1>5 DEF Course

(* close(), the end and MakePipe change a table, and not the variables of FdTypeOK that
   depend on it. *)
LEMMA TableStep ==
    ASSUME Typed, NEW p \in Processes, NEW table \in [0 .. MaxFd -> Descriptions \cup {"closed"}],
           fds' = [fds EXCEPT ![p] = table]
    PROVE  /\ fds' \in [Processes -> [0 .. MaxFd -> Descriptions \cup {"closed"}]]
           /\ fds'[p] = table /\ \A q \in Processes \ {p} : fds'[q] = fds[q]
BY DEF Typed, FdTypeOK

(* close(). *)
LEMMA CloseStep ==
    ASSUME Typed, NEW p \in Processes, todo[p] # << >>, Close(p)
    PROVE  /\ Typed'
           /\ \A n \in 0 .. MaxFd : fds'[p][n] = IF n = Fd(p, 1) THEN "closed" ELSE fds[p][n]
           /\ \A q \in Processes \ {p} : fds'[q] = fds[q]
           /\ Returns(p) /\ UNCHANGED <<constants, status, var, buffers, files, counters>>
<1>. DEFINE table == [n \in 0 .. MaxFd |-> IF n = Fd(p, 1) THEN "closed" ELSE fds[p][n]]
<1>1. /\ fds \in [Processes -> [0 .. MaxFd -> Descriptions \cup {"closed"}]]
      /\ ~Ended(p)
  BY DEF Typed, FdTypeOK, Close, Calls
<1>2. fds' = [fds EXCEPT ![p] = table]
  BY <1>1 DEF Close
<1>3. table \in [0 .. MaxFd -> Descriptions \cup {"closed"}]
  BY <1>1
<1>4. \A n \in 0 .. MaxFd : table[n] = IF n = Fd(p, 1) THEN "closed" ELSE fds[p][n]
  OBVIOUS
<1>. HIDE DEF table
<1>5. /\ fds' \in [Processes -> [0 .. MaxFd -> Descriptions \cup {"closed"}]]
      /\ fds'[p] = table /\ \A q \in Processes \ {p} : fds'[q] = fds[q]
  BY <1>2, <1>3, TableStep
<1>6. /\ UNCHANGED <<program, std, tty, status, var, stdio, mode, content, offset, pipeBuf, sent, total>>
      /\ todo' \in [Processes -> Seq(CallSet)] /\ \A q \in Processes \ {p} : todo'[q] = todo[q]
      /\ Returns(p) /\ UNCHANGED <<constants, status, var, buffers, files, counters>>
  BY ReturnStep DEF Close, constants, buffers, files, counters
<1>7. FdTypeOK'
  <2>1. \A q \in Processes : Ended(q)' => q # p /\ Ended(q)
    BY <1>1, <1>6 DEF Ended
  <2>. QED  BY <1>5, <1>6, <2>1 DEF Typed, FdTypeOK
<1>8. \A q \in Processes : ~Ended(q)' => \A m \in 0 .. MaxFd :
         fds'[q][m] \in {"pipeR", "pipeW"} => program' = "pipe_launch"
  BY <1>4, <1>5, <1>6 DEF Typed, Ended
<1>9. Typed'
  BY <1>6, <1>7, <1>8 DEF Typed
<1>. QED  BY <1>4, <1>5, <1>6, <1>9

(* pipe(): the ends of the pipe are two different descriptors that were free, the
   reading one the lower. *)
LEMMA MakePipeStep ==
    ASSUME Typed, Course, NEW p \in Processes, todo[p] # << >>, MakePipe(p)
    PROVE  /\ Typed' /\ p = "parent" /\ program = "pipe_launch"
           /\ LET r == var'[p].READ
                  w == var'[p].WRITE
              IN  /\ r < w /\ r \in 0 .. MaxFd /\ w \in 0 .. MaxFd
                  /\ fds[p][r] = "closed" /\ fds[p][w] = "closed"
                  /\ fds'[p][r] = "pipeR" /\ fds'[p][w] = "pipeW"
                  /\ \A n \in (0 .. MaxFd) \ {r, w} : fds'[p][n] = fds[p][n]
                  /\ \A n \in 0 .. MaxFd : fds[p][n] = "closed" => r <= n
           /\ \A v \in Names \ {"READ", "WRITE"} : var'[p][v] = var[p][v]
           /\ \A q \in Processes \ {p} : fds'[q] = fds[q] /\ var'[q] = var[q]
           /\ Returns(p) /\ UNCHANGED <<constants, status, buffers, files, counters>>
<1>1. /\ fds \in [Processes -> [0 .. MaxFd -> Descriptions \cup {"closed"}]]
      /\ var \in [Processes -> [Names -> 0 .. NoFd]]
      /\ ~Ended(p)
  BY DEF Typed, FdTypeOK, MakePipe, Calls
<1>2. p = "parent" /\ program = "pipe_launch"
  BY <1>1, Callers DEF MakePipe, Calls
<1>3. PICK r \in Free(p), w \in Free(p) :
         /\ r # w /\ r = Lowest(Free(p)) /\ w = Lowest(Free(p) \ {r})
         /\ fds' = [fds EXCEPT ![p][r] = "pipeR", ![p][w] = "pipeW"]
         /\ var' = [var EXCEPT ![p].READ = r, ![p].WRITE = w]
  BY DEF MakePipe
<1>4. /\ r \in 0 .. MaxFd /\ w \in 0 .. MaxFd /\ r < w
      /\ fds[p][r] = "closed" /\ fds[p][w] = "closed"
      /\ \A n \in 0 .. MaxFd : fds[p][n] = "closed" => r <= n
  <2>1. Free(p) \in SUBSET (0 .. MaxFd)
    BY DEF Free
  <2>2. \A n \in Free(p) : r <= n
    BY <1>3, <2>1, LowestIsLowest
  <2>3. r \in Nat /\ w \in Nat /\ r \in 0 .. MaxFd /\ w \in 0 .. MaxFd
    BY <2>1, FdBounds
  <2>4. r <= w /\ r # w
    BY <1>3, <2>2
  <2>5. r < w
    BY <2>3, <2>4
  <2>6. \A n \in 0 .. MaxFd : fds[p][n] = "closed" => n \in Free(p)
    BY DEF Free
  <2>7. fds[p][r] = "closed" /\ fds[p][w] = "closed"
    BY DEF Free
  <2>. QED  BY <2>2, <2>3, <2>5, <2>6, <2>7
<1>. DEFINE table == [fds[p] EXCEPT ![r] = "pipeR", ![w] = "pipeW"]
            vs == [var[p] EXCEPT !.READ = r, !.WRITE = w]
<1>5. fds' = [fds EXCEPT ![p] = table] /\ var' = [var EXCEPT ![p] = vs]
  BY <1>1, <1>3
<1>6. /\ table \in [0 .. MaxFd -> Descriptions \cup {"closed"}]
      /\ table[r] = "pipeR" /\ table[w] = "pipeW"
      /\ \A n \in (0 .. MaxFd) \ {r, w} : table[n] = fds[p][n]
  <2>. DEFINE first == [fds[p] EXCEPT ![r] = "pipeR"]
  <2>1. fds[p] \in [0 .. MaxFd -> Descriptions \cup {"closed"}] /\ r # w
        /\ "pipeR" \in Descriptions /\ "pipeW" \in Descriptions
    BY <1>1, <1>3 DEF Descriptions
  <2>2. first \in [0 .. MaxFd -> Descriptions \cup {"closed"}] /\ first[r] = "pipeR"
        /\ \A n \in (0 .. MaxFd) \ {r} : first[n] = fds[p][n]
    BY <1>4, <2>1
  <2>3. table = [first EXCEPT ![w] = "pipeW"]
    OBVIOUS
  <2>. HIDE DEF first, table
  <2>. QED  BY <1>4, <2>1, <2>2, <2>3
<1>7. /\ vs \in [Names -> 0 .. NoFd] /\ vs.READ = r /\ vs.WRITE = w
      /\ \A v \in Names \ {"READ", "WRITE"} : vs[v] = var[p][v]
  <2>. DEFINE first == [var[p] EXCEPT !.READ = r]
  <2>1. var[p] \in [Names -> 0 .. NoFd] /\ "READ" \in Names /\ "WRITE" \in Names
    BY <1>1 DEF Names
  <2>2. r \in 0 .. NoFd /\ w \in 0 .. NoFd
    BY <1>4, FdBounds DEF NoFd
  <2>3. first \in [Names -> 0 .. NoFd] /\ first.READ = r
        /\ \A v \in Names \ {"READ"} : first[v] = var[p][v]
    BY <2>1, <2>2
  <2>4. vs = [first EXCEPT !.WRITE = w]
    OBVIOUS
  <2>. HIDE DEF first, vs
  <2>. QED  BY <2>1, <2>2, <2>3, <2>4
<1>. HIDE DEF table, vs
<1>8. /\ fds' \in [Processes -> [0 .. MaxFd -> Descriptions \cup {"closed"}]]
      /\ fds'[p] = table /\ \A q \in Processes \ {p} : fds'[q] = fds[q]
  BY <1>5, <1>6, TableStep
<1>9. /\ var' \in [Processes -> [Names -> 0 .. NoFd]]
      /\ var'[p] = vs /\ \A q \in Processes \ {p} : var'[q] = var[q]
  BY <1>1, <1>5, <1>7
<1>10. /\ UNCHANGED <<program, std, tty, status, stdio, mode, content, offset, pipeBuf, sent, total>>
       /\ todo' \in [Processes -> Seq(CallSet)] /\ \A q \in Processes \ {p} : todo'[q] = todo[q]
       /\ Returns(p) /\ UNCHANGED <<constants, status, buffers, files, counters>>
  BY ReturnStep DEF MakePipe, constants, buffers, files, counters
<1>11. FdTypeOK'
  <2>1. \A q \in Processes : Ended(q)' => q # p /\ Ended(q)
    BY <1>1, <1>10 DEF Ended
  <2>. QED  BY <1>8, <1>9, <1>10, <2>1 DEF Typed, FdTypeOK
<1>12. \A q \in Processes :
          /\ \A v \in {"STDIN", "STDOUT"} : var'[q][v] = IF v = "STDIN" THEN 0 ELSE 1
          /\ ~Ended(q)' => \A m \in 0 .. MaxFd :
                fds'[q][m] \in {"pipeR", "pipeW"} => program' = "pipe_launch"
  <2>1. ASSUME NEW q \in Processes, NEW v \in {"STDIN", "STDOUT"} PROVE var'[q][v] = var[q][v]
    BY <1>7, <1>9 DEF Names
  <2>. QED  BY <1>2, <1>8, <1>10, <2>1 DEF Typed, Ended
<1>13. Typed'
  BY <1>10, <1>11, <1>12 DEF Typed
<1>. QED  BY <1>2, <1>4, <1>6, <1>7, <1>8, <1>9, <1>10, <1>13

(* What a descriptor refers to, and the argument of a call. *)
LEMMA RefersTyped ==
    ASSUME Typed, NEW p \in Processes, NEW n
    PROVE  Refers(p, n) \in Descriptions \cup {"closed"}
<1>1. fds \in [Processes -> [0 .. MaxFd -> Descriptions \cup {"closed"}]]
  BY DEF Typed, FdTypeOK
<1>2. n \in 0 .. MaxFd => fds[p][n] \in Descriptions \cup {"closed"}
  BY <1>1
<1>. QED  BY <1>2 DEF Refers

(* The types again, when a call changed neither the descriptors nor the variables. *)
LEMMA SameTables ==
    ASSUME Typed, NEW p \in Processes, ~Ended(p),
           UNCHANGED <<program, std, tty, status, fds, var>>,
           todo' \in [Processes -> Seq(CallSet)], \A q \in Processes \ {p} : todo'[q] = todo[q],
           stdio' \in [Processes -> Seq(Texts)], mode' \in [Processes -> {"new", "line", "full"}],
           content' \in [Files -> Seq(Texts)], offset' \in [Files -> Nat],
           \A f \in Files : offset'[f] \in 0 .. Len(content'[f]),
           pipeBuf' \in Seq(Texts), total' \in Nat, Len(pipeBuf') <= Capacity,
           sent' \in 0 .. MaxBytes, total' = sent' - Len(pipeBuf')
    PROVE  Typed'
<1>1. \A q \in Processes : Ended(q)' => q # p /\ Ended(q)
  BY DEF Ended
<1>2. FdTypeOK'
  BY <1>1 DEF Typed, FdTypeOK
<1>3. \A q \in Processes :
          /\ \A v \in {"STDIN", "STDOUT"} : var'[q][v] = IF v = "STDIN" THEN 0 ELSE 1
          /\ ~Ended(q)' => \A m \in 0 .. MaxFd :
                fds'[q][m] \in {"pipeR", "pipeW"} => program' = "pipe_launch"
  BY DEF Typed, Ended
<1>. QED  BY <1>2, <1>3 DEF Typed

(* write() to anything but the pipe. *)
LEMMA WriteStep ==
    ASSUME Typed, NEW p \in Processes, todo[p] # << >>, Write(p)
    PROVE  /\ Typed'
           /\ Refers(p, Fd(p, 1)) \in Descriptions \cup {"closed"}
           /\ <<todo[p][1][3]>> \in Seq(Texts)
           /\ Store(Refers(p, Fd(p, 1)), <<todo[p][1][3]>>)
           /\ Returns(p) /\ UNCHANGED <<constants, status, fds, var, buffers, counters>>
<1>1. /\ ~Ended(p) /\ Refers(p, Fd(p, 1)) \in Descriptions \cup {"closed"}
      /\ todo[p][1][3] \in Texts
  BY Current, CallArguments, RefersTyped DEF Write, Calls
<1>2. <<todo[p][1][3]>> \in Seq(Texts)
  BY <1>1, Lists
<1>3. Store(Refers(p, Fd(p, 1)), <<todo[p][1][3]>>)
  BY DEF Write, Arg
<1>4. /\ content' \in [Files -> Seq(Texts)] /\ offset' \in [Files -> Nat]
      /\ \A f \in Files : offset'[f] \in 0 .. Len(content'[f])
  BY <1>1, <1>2, <1>3, StoreStep
<1>5. /\ todo' \in [Processes -> Seq(CallSet)] /\ \A q \in Processes \ {p} : todo'[q] = todo[q]
      /\ Returns(p) /\ UNCHANGED <<constants, status, fds, var, buffers, counters>>
  BY ReturnStep DEF Write
<1>6. UNCHANGED <<program, std, tty, status, fds, var, stdio, mode, pipeBuf, sent, total>>
  BY <1>5 DEF constants, buffers, counters
<1>7. /\ stdio' \in [Processes -> Seq(Texts)] /\ mode' \in [Processes -> {"new", "line", "full"}]
      /\ pipeBuf' \in Seq(Texts) /\ total' \in Nat /\ Len(pipeBuf') <= Capacity
      /\ sent' \in 0 .. MaxBytes /\ total' = sent' - Len(pipeBuf')
  BY <1>6 DEF Typed, FdTypeOK
<1>8. Typed'
  BY <1>1, <1>4, <1>5, <1>6, <1>7, SameTables
<1>. QED  BY <1>1, <1>2, <1>3, <1>5, <1>8

(* printf() and puts(). *)
LEMMA PrintfStep ==
    ASSUME Typed, NEW p \in Processes, todo[p] # << >>, Printf(p)
    PROVE  LET line == todo[p][1][2]
               direct == ModeOf(p) = "line" /\ todo[p][1][1] = "printf"
           IN  /\ Typed'
               /\ line \in Texts
               /\ mode'[p] = ModeOf(p) /\ \A q \in Processes \ {p} : mode'[q] = mode[q]
               /\ direct => Store(Refers(p, 1), <<line>>) /\ UNCHANGED stdio
               /\ ~direct => stdio'[p] = Append(stdio[p], line) /\ UNCHANGED files
               /\ \A q \in Processes \ {p} : stdio'[q] = stdio[q]
               /\ Returns(p) /\ UNCHANGED <<constants, status, fds, var, counters>>
<1>. DEFINE line == todo[p][1][2]
            direct == ModeOf(p) = "line" /\ todo[p][1][1] = "printf"
<1>1. ~Ended(p) /\ line \in Texts /\ ModeOf(p) \in {"new", "line", "full"}
  <2>1. mode[p] \in {"new", "line", "full"} /\ todo[p][1][1] \in {"printf", "puts"}
    BY DEF Typed, Printf, Calls
  <2>. QED  BY <2>1, Current, CallArguments DEF Printf, Calls, ModeOf
<1>2. mode' \in [Processes -> {"new", "line", "full"}]
      /\ mode'[p] = ModeOf(p) /\ \A q \in Processes \ {p} : mode'[q] = mode[q]
  <2>1. mode' = [mode EXCEPT ![p] = ModeOf(p)] /\ mode \in [Processes -> {"new", "line", "full"}]
    BY DEF Printf, Typed
  <2>. QED  BY <1>1, <2>1
<1>3. /\ todo' \in [Processes -> Seq(CallSet)] /\ \A q \in Processes \ {p} : todo'[q] = todo[q]
      /\ Returns(p) /\ UNCHANGED <<constants, status, fds, var, counters>>
  BY ReturnStep DEF Printf
<1>4. Calls(p, "printf") <=> todo[p][1][1] = "printf"
  BY <1>1 DEF Calls
<1>5. CASE direct
  <2>1. Store(Refers(p, 1), <<line>>) /\ UNCHANGED stdio
    BY <1>4, <1>5 DEF Printf, Arg
  <2>2. <<line>> \in Seq(Texts) /\ Refers(p, 1) \in Descriptions \cup {"closed"}
    BY <1>1, Lists, RefersTyped
  <2>3. /\ content' \in [Files -> Seq(Texts)] /\ offset' \in [Files -> Nat]
        /\ \A f \in Files : offset'[f] \in 0 .. Len(content'[f])
    BY <2>1, <2>2, StoreStep
  <2>4. stdio' \in [Processes -> Seq(Texts)]
    BY <2>1 DEF Typed
  <2>. QED  BY <1>1, <1>2, <1>3, <1>5, <2>1, <2>3, <2>4, SameTables DEF Typed, FdTypeOK, constants, counters
<1>6. CASE ~direct
  <2>1. stdio' = [stdio EXCEPT ![p] = Append(stdio[p], line)] /\ UNCHANGED files
    BY <1>4, <1>6 DEF Printf, Arg
  <2>2. stdio[p] \in Seq(Texts) /\ stdio \in [Processes -> Seq(Texts)]
    BY DEF Typed
  <2>3. Append(stdio[p], line) \in Seq(Texts)
    BY <1>1, <2>2
  <2>4. stdio' \in [Processes -> Seq(Texts)] /\ stdio'[p] = Append(stdio[p], line)
        /\ \A q \in Processes \ {p} : stdio'[q] = stdio[q]
    BY <2>1, <2>2, <2>3
  <2>5. UNCHANGED <<content, offset>>
    BY <2>1 DEF files
  <2>. QED  BY <1>1, <1>2, <1>3, <1>6, <2>1, <2>4, <2>5, SameTables DEF Typed, FdTypeOK, constants, counters
<1>. QED  BY <1>5, <1>6

(* What is not written at once is in the buffer. *)
LEMMA PrintfBuffered ==
    ASSUME Typed, NEW p \in Processes, todo[p] # << >>, Printf(p),
           ModeOf(p) # "line" \/ todo[p][1][1] # "printf"
    PROVE  stdio'[p] = Append(stdio[p], todo[p][1][2]) /\ UNCHANGED <<content, offset>>
<1>1. ~(ModeOf(p) = "line" /\ todo[p][1][1] = "printf")
  OBVIOUS
<1>2. stdio'[p] = Append(stdio[p], todo[p][1][2]) /\ UNCHANGED files
  BY <1>1, PrintfStep, Zenon
<1>. QED  BY <1>2 DEF files

(* The calls of the child. *)
LEMMA ChildTextTyped ==
    \A x \in DOMAIN ChildText : ChildText[x] \in Seq(CallSet)
<1>1. << >> \in Seq(CallSet)
  BY Lists
<1>2. /\ DOMAIN ChildText = {"pipe_launch", "fflush", "simple_fork", "zombie", "orphan"}
      /\ ChildText["pipe_launch"] = PipeLaunchChild /\ ChildText["fflush"] = << >>
      /\ ChildText["simple_fork"] = SimpleForkChild /\ ChildText["zombie"] = ZombieChild
      /\ ChildText["orphan"] = OrphanChild
  BY DEF ChildText
<1>. QED  BY <1>1, <1>2, PipeLaunchChildTyped, SimpleForkChildTyped, ZombieChildTyped,
             OrphanChildTyped

(* fork(): the child has what the parent has. *)
LEMMA ForkStep ==
    ASSUME Typed, Course, NEW p \in Processes, todo[p] # << >>, Fork(p)
    PROVE  /\ Typed' /\ p = "parent" /\ program \in DOMAIN ChildText
           /\ status.parent = "running" /\ status'.parent = "running"
           /\ status'.child = "running"
           /\ todo'.parent = Tail(todo.parent) /\ todo'.child = ChildText[program]
           /\ fds'.parent = fds.parent /\ fds'.child = fds.parent
           /\ var'.parent = var.parent /\ var'.child = var.parent
           /\ stdio'.parent = stdio.parent /\ stdio'.child = stdio.parent
           /\ mode'.parent = mode.parent /\ mode'.child = mode.parent
           /\ UNCHANGED <<constants, files, counters>>
<1>1. p = "parent" /\ program \in DOMAIN ChildText /\ status.parent = "running" /\ ~Ended(p)
  BY Callers DEF Fork, Calls
<1>2. /\ status \in [Processes -> {"unborn", "running", "command", "0", "1", "reaped"}]
      /\ fds \in [Processes -> [0 .. MaxFd -> Descriptions \cup {"closed"}]]
      /\ var \in [Processes -> [Names -> 0 .. NoFd]]
      /\ "parent" \in Processes /\ "child" \in Processes /\ Processes = {"parent", "child"}
  BY DEF Typed, FdTypeOK, Processes
<1>3. /\ todo \in [Processes -> Seq(CallSet)] /\ stdio \in [Processes -> Seq(Texts)]
      /\ mode \in [Processes -> {"new", "line", "full"}]
  BY DEF Typed
<1>4. /\ status' \in [Processes -> {"unborn", "running", "command", "0", "1", "reaped"}]
      /\ status'.parent = "running" /\ status'.child = "running"
  BY <1>1, <1>2 DEF Fork
<1>5. /\ todo' \in [Processes -> Seq(CallSet)]
      /\ todo'.parent = Tail(todo.parent) /\ todo'.child = ChildText[program]
  <2>1. todo' = [todo EXCEPT !["parent"] = Tail(todo.parent), !["child"] = ChildText[program]]
    BY <1>1 DEF Fork
  <2>2. Tail(todo.parent) \in Seq(CallSet) /\ ChildText[program] \in Seq(CallSet)
    BY <1>1, Current, ChildTextTyped
  <2>. QED  BY <1>2, <1>3, <2>1, <2>2
<1>6. /\ fds' \in [Processes -> [0 .. MaxFd -> Descriptions \cup {"closed"}]]
      /\ fds'.parent = fds.parent /\ fds'.child = fds.parent
  BY <1>2 DEF Fork
<1>7. /\ var' \in [Processes -> [Names -> 0 .. NoFd]]
      /\ var'.parent = var.parent /\ var'.child = var.parent
  BY <1>2 DEF Fork
<1>8. /\ stdio' \in [Processes -> Seq(Texts)]
      /\ stdio'.parent = stdio.parent /\ stdio'.child = stdio.parent
  BY <1>2, <1>3 DEF Fork, CopiedBuffer
<1>9. /\ mode' \in [Processes -> {"new", "line", "full"}]
      /\ mode'.parent = mode.parent /\ mode'.child = mode.parent
  BY <1>2, <1>3 DEF Fork
<1>10. UNCHANGED <<constants, files, counters>>
       /\ UNCHANGED <<program, std, tty, content, offset, pipeBuf, sent, total>>
  BY DEF Fork, constants, files, counters
<1>11. FdTypeOK'
  <2>1. \A q \in Processes : ~Ended(q)'
    BY <1>2, <1>4 DEF Ended
  <2>. QED  BY <1>4, <1>6, <1>7, <1>10, <2>1 DEF Typed, FdTypeOK
<1>12. \A q \in Processes :
          /\ \A v \in {"STDIN", "STDOUT"} : var'[q][v] = IF v = "STDIN" THEN 0 ELSE 1
          /\ ~Ended(q)' => \A m \in 0 .. MaxFd :
                fds'[q][m] \in {"pipeR", "pipeW"} => program' = "pipe_launch"
  <2>1. /\ \A v \in {"STDIN", "STDOUT"} : var.parent[v] = IF v = "STDIN" THEN 0 ELSE 1
        /\ \A m \in 0 .. MaxFd : fds.parent[m] \in {"pipeR", "pipeW"} => program = "pipe_launch"
    BY <1>1, <1>2 DEF Typed
  <2>. QED  BY <1>2, <1>6, <1>7, <1>10, <2>1
<1>13. Typed'
  BY <1>5, <1>8, <1>9, <1>10, <1>11, <1>12 DEF Typed
<1>. QED  BY <1>1, <1>4, <1>5, <1>6, <1>7, <1>8, <1>9, <1>10, <1>13

(* The calls of another program. *)
LEMMA CommandsTyped ==
    ASSUME NEW name \in {"cmd", "python"}, NEW text \in Commands(name)
    PROVE  /\ text \in Seq(CallSet)
           /\ name = "python" => text \in {<< >>, << <<"printf", "hello">> >>}
           /\ name = "cmd" => /\ Len(text) <= MaxBytes
                              /\ \A k \in DOMAIN text : text[k] = <<"write", "STDOUT", "byte">>
<1>1. CASE name = "cmd"
  <2>1. PICK k \in 0 .. MaxBytes : text = [i \in 1 .. k |-> <<"write", "STDOUT", "byte">>]
    BY <1>1 DEF Commands
  <2>2. <<"write", "STDOUT", "byte">> \in CallSet
    BY DEF CallSet, Names, Texts
  <2>3. k \in Nat /\ k <= MaxBytes
    BY FdBounds
  <2>4. text \in Seq(CallSet) /\ Len(text) = k
    BY <2>1, <2>2, <2>3
  <2>. QED  BY <1>1, <2>1, <2>3, <2>4
<1>2. CASE name = "python"
  <2>1. text \in {<< >>, << <<"printf", "hello">> >>}
    BY <1>2 DEF Commands
  <2>2. <<"printf", "hello">> \in CallSet
    BY DEF CallSet, Texts
  <2>. QED  BY <1>2, <2>1, <2>2, Lists
<1>. QED  BY <1>1, <1>2

(* exec(): the descriptors stay, the buffer is empty. *)
LEMMA ExecStep ==
    ASSUME Typed, Course, NEW p \in Processes, todo[p] # << >>, Exec(p)
    PROVE  /\ Typed'
           /\ \/ p = "parent" /\ program \in {"exec_simple", "exec_change_fd"}
                 /\ todo'[p] \in {<< >>, << <<"printf", "hello">> >>}
              \/ p = "child" /\ program = "pipe_launch" /\ Len(todo'[p]) <= MaxBytes
                 /\ \A k \in DOMAIN todo'[p] : todo'[p][k] = <<"write", "STDOUT", "byte">>
           /\ status[p] = "running" /\ status'[p] = "command"
           /\ stdio'[p] = << >> /\ mode'[p] = "new"
           /\ \A q \in Processes \ {p} : /\ todo'[q] = todo[q] /\ status'[q] = status[q]
                                         /\ stdio'[q] = stdio[q] /\ mode'[q] = mode[q]
           /\ UNCHANGED <<constants, fds, var, files, counters>>
<1>1. /\ status[p] = "running" /\ ~Ended(p)
      /\ \/ p = "parent" /\ program \in {"exec_simple", "exec_change_fd"} /\ Arg(p, 1) = "python"
         \/ p = "child" /\ program = "pipe_launch" /\ Arg(p, 1) = "cmd"
  BY Callers DEF Exec, Calls, Arg
<1>2. PICK text \in Commands(Arg(p, 1)) : todo' = [todo EXCEPT ![p] = text]
  BY DEF Exec
<1>3. /\ text \in Seq(CallSet)
      /\ Arg(p, 1) = "python" => text \in {<< >>, << <<"printf", "hello">> >>}
      /\ Arg(p, 1) = "cmd" => /\ Len(text) <= MaxBytes
                              /\ \A k \in DOMAIN text : text[k] = <<"write", "STDOUT", "byte">>
  <2>1. Arg(p, 1) \in {"cmd", "python"}
    BY <1>1
  <2>. QED  BY <2>1, CommandsTyped
<1>4. /\ todo' \in [Processes -> Seq(CallSet)] /\ todo'[p] = text
      /\ \A q \in Processes \ {p} : todo'[q] = todo[q]
  BY <1>2, <1>3 DEF Typed
<1>5. /\ status' \in [Processes -> {"unborn", "running", "command", "0", "1", "reaped"}]
      /\ status'[p] = "command" /\ \A q \in Processes \ {p} : status'[q] = status[q]
  BY DEF Typed, FdTypeOK, Exec
<1>6. /\ stdio' \in [Processes -> Seq(Texts)] /\ mode' \in [Processes -> {"new", "line", "full"}]
      /\ stdio'[p] = << >> /\ mode'[p] = "new"
      /\ \A q \in Processes \ {p} : stdio'[q] = stdio[q] /\ mode'[q] = mode[q]
  <2>1. << >> \in Seq(Texts)
    BY Lists
  <2>. QED  BY <2>1 DEF Typed, Exec
<1>7. UNCHANGED <<constants, fds, var, files, counters>>
      /\ UNCHANGED <<program, std, tty, fds, var, content, offset, pipeBuf, sent, total>>
  BY DEF Exec, constants, files, counters
<1>8. FdTypeOK'
  <2>1. \A q \in Processes : Ended(q)' => q # p /\ Ended(q)
    BY <1>5 DEF Ended
  <2>. QED  BY <1>4, <1>5, <1>7, <2>1 DEF Typed, FdTypeOK
<1>9. \A q \in Processes :
          /\ \A v \in {"STDIN", "STDOUT"} : var'[q][v] = IF v = "STDIN" THEN 0 ELSE 1
          /\ ~Ended(q)' => \A m \in 0 .. MaxFd :
                fds'[q][m] \in {"pipeR", "pipeW"} => program' = "pipe_launch"
  <2>1. \A q \in Processes : ~Ended(q)' => ~Ended(q)
    BY <1>1, <1>5 DEF Ended
  <2>. QED  BY <1>7, <2>1 DEF Typed
<1>10. Typed'
  BY <1>4, <1>6, <1>7, <1>8, <1>9 DEF Typed
<1>. QED  BY <1>1, <1>3, <1>4, <1>5, <1>6, <1>7, <1>10

(* A call that fails leaves everything but the calls still to make. *)
LEMMA FailsStep ==
    ASSUME Typed, Course, NEW p \in Processes, todo[p] # << >>, Fails(p)
    PROVE  /\ Typed'
           /\ status[p] = "running"
           /\ IF program \in {"exec_change_fd", "fflush"} THEN Returns(p) ELSE todo'[p] = Failed
           /\ \A q \in Processes \ {p} : todo'[q] = todo[q]
           /\ UNCHANGED <<constants, status, fds, var, buffers, files, counters>>
<1>1. /\ ~Ended(p) /\ todo[p][1][1] \in {"open", "dup", "dup2", "pipe", "fork", "exec"}
  BY DEF Fails, Calls
<1>2. status[p] = "running"
  <2>1. CASE status[p] = "command" /\ p = "parent"
    <3>1. todo[p] = << <<"printf", "hello">> >>
      BY <2>1 DEF Course
    <3>. QED  BY <1>1, <3>1
  <2>2. CASE status[p] = "command" /\ p = "child"
    <3>1. 1 \in DOMAIN todo[p]
      BY Current
    <3>2. todo[p][1] = <<"write", "STDOUT", "byte">>
      BY <2>2, <3>1 DEF Course
    <3>. QED  BY <1>1, <3>2
  <2>. QED  BY <1>1, <2>1, <2>2 DEF Ended, Processes
<1>3. /\ todo' \in [Processes -> Seq(CallSet)] /\ \A q \in Processes \ {p} : todo'[q] = todo[q]
      /\ IF program \in {"exec_change_fd", "fflush"} THEN Returns(p) ELSE todo'[p] = Failed
  <2>1. <<"exit", "1">> \in CallSet
    BY DEF CallSet
  <2>2. Failed \in Seq(CallSet)
    BY <2>1, Lists DEF Failed
  <2>3. CASE program \in {"exec_change_fd", "fflush"}
    <3>1. Returns(p)
      BY <2>3 DEF Fails, Returns
    <3>. QED  BY <2>3, <3>1, ReturnStep
  <2>4. CASE program \notin {"exec_change_fd", "fflush"}
    <3>1. todo' = [todo EXCEPT ![p] = Failed]
      BY <2>4 DEF Fails, Failed
    <3>. QED  BY <2>2, <2>4, <3>1 DEF Typed
  <2>. QED  BY <2>3, <2>4
<1>4. UNCHANGED <<constants, status, fds, var, buffers, files, counters>>
      /\ UNCHANGED <<program, std, tty, status, fds, var, stdio, mode, content, offset, pipeBuf,
                     sent, total>>
  BY DEF Fails, constants, buffers, files, counters
<1>5. /\ stdio' \in [Processes -> Seq(Texts)] /\ mode' \in [Processes -> {"new", "line", "full"}]
      /\ content' \in [Files -> Seq(Texts)] /\ offset' \in [Files -> Nat]
      /\ \A f \in Files : offset'[f] \in 0 .. Len(content'[f])
      /\ pipeBuf' \in Seq(Texts) /\ total' \in Nat /\ Len(pipeBuf') <= Capacity
      /\ sent' \in 0 .. MaxBytes /\ total' = sent' - Len(pipeBuf')
  BY <1>4 DEF Typed, FdTypeOK
<1>6. Typed'
  BY <1>1, <1>3, <1>4, <1>5, SameTables
<1>. QED  BY <1>2, <1>3, <1>4, <1>6

(* The end: of its calls none is left, or the next one is exit(). *)
LEMMA ExitStep ==
    ASSUME Typed, NEW p \in Processes, Exit(p)
    PROVE  /\ Typed'
           /\ ~Ended(p) /\ (todo[p] # << >> => todo[p][1][1] = "exit" /\ todo[p][1][2] \in {"0", "1"})
           /\ status'[p] = IF todo[p] = << >> THEN "0" ELSE todo[p][1][2]
           /\ Refers(p, 1) \in Descriptions \cup {"closed"}
           /\ Store(Refers(p, 1), stdio[p])
           /\ todo'[p] = << >> /\ stdio'[p] = << >> /\ \A n \in 0 .. MaxFd : fds'[p][n] = "closed"
           /\ \A q \in Processes \ {p} : /\ todo'[q] = todo[q] /\ status'[q] = status[q]
                                         /\ stdio'[q] = stdio[q] /\ fds'[q] = fds[q]
           /\ UNCHANGED <<constants, mode, var, counters>>
<1>1. /\ ~Ended(p) /\ (todo[p] # << >> => todo[p][1][1] = "exit" /\ todo[p][1][2] \in {"0", "1"})
      /\ Refers(p, 1) \in Descriptions \cup {"closed"}
  <2>1. ~Ended(p) /\ (todo[p] = << >> \/ (todo[p] # << >> /\ todo[p][1][1] = "exit"))
    BY DEF Exit, Calls
  <2>2. todo[p] # << >> => todo[p][1] \in CallSet
    BY Current
  <2>3. \A c \in CallSet : c[1] = "exit" => c[2] \in {"0", "1"}
    BY CallArguments
  <2>4. todo[p] # << >> => todo[p][1][1] = "exit" /\ todo[p][1][2] \in {"0", "1"}
    BY <2>1, <2>2, <2>3
  <2>5. Refers(p, 1) \in Descriptions \cup {"closed"}
    BY RefersTyped
  <2>. QED  BY <2>1, <2>4, <2>5
<1>. DEFINE code == IF todo[p] = << >> THEN "0" ELSE todo[p][1][2]
<1>2. code \in {"0", "1"}
  BY <1>1
<1>3. /\ status' \in [Processes -> {"unborn", "running", "command", "0", "1", "reaped"}]
      /\ status'[p] = code /\ \A q \in Processes \ {p} : status'[q] = status[q]
  <2>1. status' = [status EXCEPT ![p] = code]
    BY DEF Exit, Arg
  <2>2. code \in {"unborn", "running", "command", "0", "1", "reaped"}
    BY <1>2
  <2>. HIDE DEF code
  <2>. QED  BY <2>1, <2>2 DEF Typed, FdTypeOK
<1>. HIDE DEF code
<1>4. /\ todo' \in [Processes -> Seq(CallSet)] /\ todo'[p] = << >>
      /\ \A q \in Processes \ {p} : todo'[q] = todo[q]
      /\ stdio' \in [Processes -> Seq(Texts)] /\ stdio'[p] = << >>
      /\ \A q \in Processes \ {p} : stdio'[q] = stdio[q]
  <2>1. << >> \in Seq(Texts) /\ << >> \in Seq(CallSet)
    BY Lists
  <2>. QED  BY <2>1 DEF Typed, Exit
<1>5. /\ fds' \in [Processes -> [0 .. MaxFd -> Descriptions \cup {"closed"}]]
      /\ (\A n \in 0 .. MaxFd : fds'[p][n] = "closed")
      /\ \A q \in Processes \ {p} : fds'[q] = fds[q]
  <2>. DEFINE table == [n \in 0 .. MaxFd |-> "closed"]
  <2>1. table \in [0 .. MaxFd -> Descriptions \cup {"closed"}] /\ fds' = [fds EXCEPT ![p] = table]
    BY DEF Exit
  <2>2. \A n \in 0 .. MaxFd : table[n] = "closed"
    OBVIOUS
  <2>. HIDE DEF table
  <2>. QED  BY <2>1, <2>2, TableStep
<1>6. Store(Refers(p, 1), stdio[p])
  BY DEF Exit
<1>7. /\ content' \in [Files -> Seq(Texts)] /\ offset' \in [Files -> Nat]
      /\ \A f \in Files : offset'[f] \in 0 .. Len(content'[f])
  <2>1. stdio[p] \in Seq(Texts)
    BY DEF Typed
  <2>. QED  BY <1>1, <1>6, <2>1, StoreStep
<1>8. UNCHANGED <<constants, mode, var, counters>>
      /\ UNCHANGED <<program, std, tty, mode, var, pipeBuf, sent, total>>
  BY DEF Exit, constants, counters
<1>9. FdTypeOK'
  <2>1. \A q \in Processes : Ended(q)' => q = p \/ Ended(q)
    BY <1>3 DEF Ended
  <2>2. \A q \in Processes : Ended(q)' =>
            todo'[q] = << >> /\ \A n \in 0 .. MaxFd : fds'[q][n] = "closed"
    BY <1>4, <1>5, <2>1 DEF Typed, FdTypeOK
  <2>. QED  BY <1>3, <1>5, <1>7, <1>8, <2>2 DEF Typed, FdTypeOK
<1>10. \A q \in Processes :
          /\ \A v \in {"STDIN", "STDOUT"} : var'[q][v] = IF v = "STDIN" THEN 0 ELSE 1
          /\ ~Ended(q)' => \A m \in 0 .. MaxFd :
                fds'[q][m] \in {"pipeR", "pipeW"} => program' = "pipe_launch"
  <2>1. \A q \in Processes : ~Ended(q)' => q # p /\ ~Ended(q)
    BY <1>2, <1>3 DEF Ended
  <2>. QED  BY <1>5, <1>8, <2>1 DEF Typed
<1>11. Typed'
  BY <1>4, <1>7, <1>8, <1>9, <1>10 DEF Typed
<1>. QED  BY <1>1, <1>3, <1>4, <1>5, <1>6, <1>8, <1>11 DEF code

(* wait(). *)
LEMMA WaitStep ==
    ASSUME Typed, Course, NEW p \in Processes, todo[p] # << >>, Wait(p)
    PROVE  /\ Typed' /\ p = "parent" /\ program \notin Single
           /\ Ended("child")
           /\ status'.child = "reaped" /\ status'.parent = status.parent
           /\ Returns(p)
           /\ UNCHANGED <<constants, fds, var, buffers, files, counters>>
<1>1. p = "parent" /\ program \notin Single /\ ~Ended(p) /\ Ended("child")
  BY Callers DEF Wait, Calls
<1>2. /\ todo' \in [Processes -> Seq(CallSet)] /\ \A q \in Processes \ {p} : todo'[q] = todo[q]
      /\ Returns(p) /\ UNCHANGED <<constants, fds, var, buffers, files, counters>>
  BY ReturnStep DEF Wait
<1>3. /\ status' \in [Processes -> {"unborn", "running", "command", "0", "1", "reaped"}]
      /\ status'.child = "reaped" /\ status'.parent = status.parent
  <2>1. "parent" \in Processes /\ "child" \in Processes
    BY DEF Processes
  <2>. QED  BY <2>1 DEF Typed, FdTypeOK, Wait
<1>4. \A q \in Processes : Ended(q)' <=> Ended(q)
  BY <1>1, <1>3 DEF Ended, Processes
<1>5. UNCHANGED <<program, std, tty, fds, var, stdio, mode, content, offset, pipeBuf, sent, total>>
  BY <1>2 DEF constants, buffers, files, counters
<1>6. \A q \in Processes : Ended(q) => q # p
  BY <1>1
<1>7. FdTypeOK'
  BY <1>2, <1>3, <1>4, <1>5, <1>6 DEF Typed, FdTypeOK
<1>8. \A q \in Processes :
          /\ \A v \in {"STDIN", "STDOUT"} : var'[q][v] = IF v = "STDIN" THEN 0 ELSE 1
          /\ ~Ended(q)' => \A m \in 0 .. MaxFd :
                fds'[q][m] \in {"pipeR", "pipeW"} => program' = "pipe_launch"
  BY <1>4, <1>5 DEF Typed
<1>9. Typed'
  BY <1>2, <1>5, <1>7, <1>8 DEF Typed
<1>. QED  BY <1>1, <1>2, <1>3, <1>9

(* write() to the pipe: one more is sent, and the pipe holds no more than it can. *)
LEMMA WritePipeStep ==
    ASSUME Typed, Course, LaunchInv, NEW p \in Processes, todo[p] # << >>, WritePipe(p)
    PROVE  /\ Typed' /\ p = "child" /\ program = "pipe_launch" /\ status.child = "command"
           /\ Refers(p, Fd(p, 1)) = "pipeW"
           /\ sent' = sent + 1 /\ Len(pipeBuf') > 0
           /\ Returns(p) /\ UNCHANGED <<constants, status, fds, var, buffers, files, total>>
<1>1. /\ ~Ended(p) /\ todo[p][1][1] = "write" /\ Refers(p, Fd(p, 1)) = "pipeW"
  BY DEF WritePipe, Calls
<1>2. program = "pipe_launch"
  <2>1. Fd(p, 1) \in 0 .. MaxFd /\ fds[p][Fd(p, 1)] = "pipeW"
    BY <1>1 DEF Refers
  <2>. QED  BY <1>1, <2>1 DEF Typed
<1>3. /\ p = "child" /\ status.child = "command" /\ todo[p][1] = <<"write", "STDOUT", "byte">>
  BY <1>1, <1>2, Callers
<1>4. /\ todo' \in [Processes -> Seq(CallSet)] /\ \A q \in Processes \ {p} : todo'[q] = todo[q]
      /\ Returns(p) /\ UNCHANGED <<constants, status, fds, var, buffers, files, total>>
      /\ sent' = sent + 1
  BY ReturnStep DEF WritePipe
<1>5. UNCHANGED <<program, std, tty, status, fds, var, stdio, mode, content, offset, total>>
  BY <1>4 DEF constants, buffers, files
<1>6. /\ pipeBuf' \in Seq(Texts) /\ Len(pipeBuf') = Len(pipeBuf) + 1 /\ Len(pipeBuf') <= Capacity
      /\ Len(pipeBuf) \in Nat
  <2>1. pipeBuf' = Append(pipeBuf, "byte")
    BY <1>3 DEF WritePipe, Arg
  <2>2. "byte" \in Texts /\ pipeBuf \in Seq(Texts) /\ Len(pipeBuf) <= Capacity
    BY DEF Texts, Typed, FdTypeOK
  <2>3. PICK n \in 1 .. 1 : n <= Capacity - Len(pipeBuf)
    BY DEF WritePipe, Portions, Room, ThePipe
  <2>. QED  BY <2>1, <2>2, <2>3, PipeSizes
<1>7. sent' \in 0 .. MaxBytes /\ total' = sent' - Len(pipeBuf') /\ total' \in Nat
  <2>1. sent + Len(todo.child) <= MaxBytes
    BY <1>2, <1>3 DEF LaunchInv, BothLaunch
  <2>2. Len(todo.child) \in Nat \ {0}
    BY <1>3, Current
  <2>3. sent \in Nat /\ total = sent - Len(pipeBuf) /\ total \in Nat /\ MaxBytes \in Nat
    BY FdBounds DEF Typed, FdTypeOK
  <2>. QED  BY <1>4, <1>6, <2>1, <2>2, <2>3
<1>8. Typed'
  BY <1>1, <1>4, <1>5, <1>6, <1>7, SameTables DEF Typed, FdTypeOK
<1>. QED  BY <1>1, <1>2, <1>3, <1>4, <1>6, <1>8

(* read() from the pipe: what is counted is what was taken out. *)
LEMMA CountStep ==
    ASSUME Typed, Course, NEW p \in Processes, todo[p] # << >>, Count(p)
    PROVE  /\ Typed' /\ p = "parent" /\ program = "pipe_launch"
           /\ pipeBuf # << >>
           /\ UNCHANGED <<constants, todo, status, fds, var, buffers, files, sent>>
<1>1. /\ ~Ended(p) /\ p = "parent" /\ program = "pipe_launch" /\ pipeBuf # << >>
  BY Callers DEF Count, Calls, Readable, ThePipe
<1>2. UNCHANGED <<constants, todo, status, fds, var, buffers, files, sent>>
      /\ UNCHANGED <<program, std, tty, todo, status, fds, var, stdio, mode, content, offset, sent>>
  BY DEF Count, constants, buffers, files
<1>3. pipeBuf \in Seq(Texts) /\ Len(pipeBuf) \in Nat /\ Len(pipeBuf) <= Capacity /\ BufSize \in Nat
      /\ total \in Nat /\ sent \in Nat /\ total = sent - Len(pipeBuf)
  BY FdBounds DEF Typed, FdTypeOK
<1>. DEFINE n == IF BufSize < Len(pipeBuf) THEN BufSize ELSE Len(pipeBuf)
<1>4. n \in 0 .. Len(pipeBuf)
  BY <1>3
<1>5. Portion(ThePipe, BufSize) = SubSeq(pipeBuf, 1, n)
  BY DEF Portion, ThePipe
<1>. HIDE DEF n
<1>6. Len(SubSeq(pipeBuf, 1, n)) = n
  BY <1>3, <1>4
<1>7. pipeBuf' = SubSeq(pipeBuf, n + 1, Len(pipeBuf)) /\ total' = total + n
  BY <1>5, <1>6 DEF Count, Drained, ThePipe, BytesRead
<1>8. pipeBuf' \in Seq(Texts) /\ Len(pipeBuf') = Len(pipeBuf) - n
  BY <1>3, <1>4, <1>7
<1>9. /\ total' \in Nat /\ Len(pipeBuf') <= Capacity /\ total' = sent' - Len(pipeBuf')
  <2>1. n \in Nat /\ n <= Len(pipeBuf) /\ Capacity \in Nat
    BY <1>3, <1>4, PipeSizes
  <2>2. total' = total + n /\ sent' = sent /\ Len(pipeBuf') = Len(pipeBuf) - n
    BY <1>2, <1>7, <1>8
  <2>. QED  BY <1>3, <2>1, <2>2
<1>10. Typed'
  <2>1. /\ todo' \in [Processes -> Seq(CallSet)] /\ stdio' \in [Processes -> Seq(Texts)]
        /\ mode' \in [Processes -> {"new", "line", "full"}]
        /\ content' \in [Files -> Seq(Texts)] /\ offset' \in [Files -> Nat]
        /\ \A f \in Files : offset'[f] \in 0 .. Len(content'[f])
        /\ sent' \in 0 .. MaxBytes
    BY <1>2 DEF Typed, FdTypeOK
  <2>. QED  BY <1>1, <1>2, <1>8, <1>9, <2>1, SameTables
<1>. QED  BY <1>1, <1>2, <1>10

(* read() that finds the pipe at its end. *)
LEMMA CountEOFStep ==
    ASSUME Typed, Course, NEW p \in Processes, todo[p] # << >>, CountEOF(p)
    PROVE  /\ Typed' /\ p = "parent" /\ program = "pipe_launch"
           /\ pipeBuf = << >> /\ \A q \in Processes : \A n \in 0 .. MaxFd : fds[q][n] # "pipeW"
           /\ Returns(p) /\ UNCHANGED <<constants, status, fds, var, buffers, files, counters>>
<1>1. /\ ~Ended(p) /\ p = "parent" /\ program = "pipe_launch"
  BY Callers DEF CountEOF, Calls
<1>2. pipeBuf = << >> /\ Holders("pipeW") = {}
  BY DEF CountEOF, IsEOF, ThePipe
<1>3. /\ todo' \in [Processes -> Seq(CallSet)] /\ \A q \in Processes \ {p} : todo'[q] = todo[q]
      /\ Returns(p) /\ UNCHANGED <<constants, status, fds, var, buffers, files, counters>>
  BY ReturnStep DEF CountEOF
<1>4. UNCHANGED <<program, std, tty, status, fds, var, stdio, mode, content, offset, pipeBuf,
                  sent, total>>
  BY <1>3 DEF constants, buffers, files, counters
<1>5. Typed'
  BY <1>1, <1>3, <1>4, SameTables DEF Typed, FdTypeOK
<1>. QED  BY <1>1, <1>2, <1>3, <1>5 DEF Holders

(* open() and dup() give the lowest descriptor that is free; dup2() gives its own. *)
LEMMA OpenStep ==
    ASSUME Typed, NEW p \in Processes, todo[p] # << >>, Open(p)
    PROVE  LET v == todo[p][1][2]
               n == var'[p][v]
           IN  /\ Typed' /\ v \in Assigned
               /\ n \in 0 .. MaxFd /\ fds[p][n] = "closed" /\ fds'[p][n] = todo[p][1][3]
               /\ \A m \in 0 .. MaxFd : fds[p][m] = "closed" => n <= m
               /\ \A m \in (0 .. MaxFd) \ {n} : fds'[p][m] = fds[p][m]
               /\ \A x \in Names \ {v} : var'[p][x] = var[p][x]
               /\ \A q \in Processes \ {p} : fds'[q] = fds[q] /\ var'[q] = var[q]
               /\ Returns(p) /\ UNCHANGED <<constants, status, buffers, files, counters>>
<1>1. ~Ended(p) /\ Arg(p, 1) \in Assigned /\ Arg(p, 2) \in Files \cup {"input"}
  <2>1. ~Ended(p) /\ todo[p][1][1] = "open" /\ todo[p][1] \in CallSet
    BY Current DEF Open, Calls
  <2>. QED  BY <2>1, CallArguments DEF Arg
<1>. DEFINE n == Lowest(Free(p))
            d == Arg(p, 2)
<1>2. /\ n \in 0 .. MaxFd /\ n \in 0 .. NoFd /\ fds[p][n] = "closed"
      /\ \A m \in 0 .. MaxFd : fds[p][m] = "closed" => n <= m
  <2>1. Free(p) \in SUBSET (0 .. MaxFd) /\ Free(p) # {}
    BY DEF Free, Open
  <2>2. n \in Free(p) /\ \A m \in Free(p) : n <= m
    BY <2>1, LowestIsLowest
  <2>. QED  BY <2>2, FdBounds DEF Free, NoFd
<1>3. d \in Descriptions \cup {"closed"} /\ d \notin {"pipeR", "pipeW"}
  BY <1>1 DEF Descriptions, Files
<1>4. Assign(p, n, d)
  BY DEF Open
<1>. HIDE DEF n, d
<1>5. /\ Typed'
      /\ n <= MaxFd => fds'[p][n] = d
      /\ \A m \in (0 .. MaxFd) \ {n} : fds'[p][m] = fds[p][m]
      /\ var'[p][Arg(p, 1)] = n
      /\ \A v \in Names \ {Arg(p, 1)} : var'[p][v] = var[p][v]
      /\ \A q \in Processes \ {p} : fds'[q] = fds[q] /\ var'[q] = var[q]
      /\ Returns(p) /\ UNCHANGED <<constants, status, buffers, files, counters>>
  BY <1>1, <1>2, <1>3, <1>4, AssignStep
<1>. QED  BY <1>1, <1>2, <1>5 DEF Arg, d

(* dup(): the new descriptor refers to what the other one does. *)
LEMMA DupStep ==
    ASSUME Typed, NEW p \in Processes, todo[p] # << >>, Dup(p)
    PROVE  LET v == todo[p][1][2]
               n == var'[p][v]
           IN  /\ Typed' /\ v \in Assigned
               /\ n \in 0 .. MaxFd /\ fds[p][n] = "closed"
               /\ fds'[p][n] = Refers(p, var[p][todo[p][1][3]])
               /\ \A m \in (0 .. MaxFd) \ {n} : fds'[p][m] = fds[p][m]
               /\ \A x \in Names \ {v} : var'[p][x] = var[p][x]
               /\ \A q \in Processes \ {p} : fds'[q] = fds[q] /\ var'[q] = var[q]
               /\ Returns(p) /\ UNCHANGED <<constants, status, buffers, files, counters>>
<1>1. ~Ended(p) /\ Arg(p, 1) \in Assigned
  <2>1. ~Ended(p) /\ todo[p][1][1] = "dup" /\ todo[p][1] \in CallSet
    BY Current DEF Dup, Calls
  <2>. QED  BY <2>1, CallArguments DEF Arg
<1>. DEFINE n == Lowest(Free(p))
            d == Refers(p, Fd(p, 2))
<1>2. n \in 0 .. MaxFd /\ n \in 0 .. NoFd /\ fds[p][n] = "closed"
  <2>1. Free(p) \in SUBSET (0 .. MaxFd) /\ Free(p) # {}
    BY DEF Free, Dup
  <2>2. n \in Free(p)
    BY <2>1, LowestIsLowest
  <2>. QED  BY <2>2, FdBounds DEF Free, NoFd
<1>3. d \in Descriptions \cup {"closed"} /\ (d \in {"pipeR", "pipeW"} => program = "pipe_launch")
  BY <1>1, RefersTyped DEF Typed, Refers
<1>4. Assign(p, n, d)
  BY DEF Dup
<1>. HIDE DEF n, d
<1>5. /\ Typed'
      /\ n <= MaxFd => fds'[p][n] = d
      /\ \A m \in (0 .. MaxFd) \ {n} : fds'[p][m] = fds[p][m]
      /\ var'[p][Arg(p, 1)] = n
      /\ \A v \in Names \ {Arg(p, 1)} : var'[p][v] = var[p][v]
      /\ \A q \in Processes \ {p} : fds'[q] = fds[q] /\ var'[q] = var[q]
      /\ Returns(p) /\ UNCHANGED <<constants, status, buffers, files, counters>>
  BY <1>1, <1>2, <1>3, <1>4, AssignStep
<1>. QED  BY <1>1, <1>2, <1>5 DEF Arg, d, Fd

(* dup2(): so does the one that was asked for. *)
LEMMA Dup2Step ==
    ASSUME Typed, NEW p \in Processes, todo[p] # << >>, Dup2(p)
    PROVE  LET v == todo[p][1][2]
               n == var[p][todo[p][1][4]]
           IN  /\ Typed' /\ v \in Assigned /\ n \in 0 .. NoFd
               /\ n <= MaxFd => fds'[p][n] = Refers(p, var[p][todo[p][1][3]])
               /\ \A m \in (0 .. MaxFd) \ {n} : fds'[p][m] = fds[p][m]
               /\ var'[p][v] = n
               /\ \A x \in Names \ {v} : var'[p][x] = var[p][x]
               /\ \A q \in Processes \ {p} : fds'[q] = fds[q] /\ var'[q] = var[q]
               /\ Returns(p) /\ UNCHANGED <<constants, status, buffers, files, counters>>
<1>1. ~Ended(p) /\ Arg(p, 1) \in Assigned /\ Arg(p, 3) \in Names
  <2>1. ~Ended(p) /\ todo[p][1][1] = "dup2" /\ todo[p][1] \in CallSet
    BY Current DEF Dup2, Calls
  <2>. QED  BY <2>1, CallArguments DEF Arg
<1>. DEFINE n == Fd(p, 3)
            d == Refers(p, Fd(p, 2))
<1>2. n \in 0 .. NoFd
  <2>1. var \in [Processes -> [Names -> 0 .. NoFd]]
    BY DEF Typed, FdTypeOK
  <2>. QED  BY <1>1, <2>1 DEF Fd
<1>3. d \in Descriptions \cup {"closed"} /\ (d \in {"pipeR", "pipeW"} => program = "pipe_launch")
  BY <1>1, RefersTyped DEF Typed, Refers
<1>4. Assign(p, n, d)
  BY DEF Dup2
<1>. HIDE DEF n, d
<1>5. /\ Typed'
      /\ n <= MaxFd => fds'[p][n] = d
      /\ \A m \in (0 .. MaxFd) \ {n} : fds'[p][m] = fds[p][m]
      /\ var'[p][Arg(p, 1)] = n
      /\ \A v \in Names \ {Arg(p, 1)} : var'[p][v] = var[p][v]
      /\ \A q \in Processes \ {p} : fds'[q] = fds[q] /\ var'[q] = var[q]
      /\ Returns(p) /\ UNCHANGED <<constants, status, buffers, files, counters>>
  BY <1>1, <1>2, <1>3, <1>4, AssignStep
<1>. QED  BY <1>1, <1>2, <1>5 DEF Arg, n, d, Fd

(* Whatever a process does, everything is of its type. *)
LEMMA TypedStep ==
    ASSUME FdInv, NEW p \in Processes, Process(p)
    PROVE  Typed'
<1>. USE DEF FdInv
<1>1. CASE todo[p] = << >>
  BY <1>1, OneCall, ExitStep
<1>2. CASE todo[p] # << >>
  <2>1. CASE Open(p)
    BY <1>2, <2>1, OpenStep
  <2>2. CASE Dup(p)
    BY <1>2, <2>2, DupStep
  <2>3. CASE Dup2(p)
    BY <1>2, <2>3, Dup2Step
  <2>4. CASE Close(p)
    BY <1>2, <2>4, CloseStep
  <2>5. CASE MakePipe(p)
    BY <1>2, <2>5, MakePipeStep
  <2>6. CASE Write(p)
    BY <1>2, <2>6, WriteStep
  <2>7. CASE Printf(p)
    BY <1>2, <2>7, PrintfStep
  <2>8. CASE Fork(p)
    BY <1>2, <2>8, ForkStep
  <2>9. CASE Exec(p)
    BY <1>2, <2>9, ExecStep
  <2>10. CASE Fails(p)
    BY <1>2, <2>10, FailsStep
  <2>11. CASE Exit(p)
    BY <2>11, ExitStep
  <2>12. CASE Wait(p)
    BY <1>2, <2>12, WaitStep
  <2>13. CASE WritePipe(p)
    BY <1>2, <2>13, WritePipeStep
  <2>14. CASE Count(p)
    BY <1>2, <2>14, CountStep
  <2>15. CASE CountEOF(p)
    BY <1>2, <2>15, CountEOFStep
  <2>. QED  BY <2>1, <2>2, <2>3, <2>4, <2>5, <2>6, <2>7, <2>8, <2>9, <2>10, <2>11, <2>12, <2>13,
               <2>14, <2>15 DEF Process
<1>. QED  BY <1>1, <1>2

(* Nothing changes what was started, with which descriptors and where. *)
LEMMA SameProgram ==
    ASSUME NEW p \in Processes, Process(p)
    PROVE  UNCHANGED <<program, std, tty>>
BY DEF Process, Open, Dup, Dup2, Assign, Close, MakePipe, Write, Printf, Fork, Exec, Fails, Exit,
       Wait, WritePipe, Count, CountEOF, constants

(* A process that makes its next call has made one more, one that does not call has
   made as many as before, and one that fails is no longer on its way. *)
LEMMA Advance ==
    ASSUME Typed, NEW p \in Processes, p = "child" => program \in DOMAIN ChildText,
           OnText(p), todo[p] # << >>, todo'[p] = Tail(todo[p]), program' = program
    PROVE  OnText(p)' /\ Done(p)' = Done(p) + 1
<1>1. CallsOf(p)' = CallsOf(p)
  BY DEF CallsOf
<1>2. /\ Done(p) \in 0 .. Len(CallsOf(p)) - 1
      /\ Tail(todo[p]) = Rest(CallsOf(p), Done(p) + 1)
      /\ Len(CallsOf(p)) - Len(Tail(todo[p])) = Done(p) + 1
  BY NextCall
<1>3. Done(p)' = Done(p) + 1
  BY <1>1, <1>2 DEF Done
<1>4. Len(CallsOf(p)) \in Nat
  BY CallsOfTyped
<1>5. Done(p) + 1 \in 0 .. Len(CallsOf(p))
  BY <1>2, <1>4
<1>. QED  BY <1>1, <1>2, <1>3, <1>5 DEF OnText

(* A process whose calls do not change is where it was. *)
LEMMA Stays ==
    ASSUME NEW p \in Processes, todo'[p] = todo[p], program' = program
    PROVE  /\ OnText(p)' <=> OnText(p)
           /\ Done(p)' = Done(p)
           /\ \A lo, hi \in Nat : status'[p] = status[p] => (In(p, lo, hi)' <=> In(p, lo, hi))
<1>1. CallsOf(p)' = CallsOf(p)
  BY DEF CallsOf
<1>2. Done(p)' = Done(p)
  BY <1>1 DEF Done
<1>3. OnText(p)' <=> OnText(p)
  BY <1>1, <1>2 DEF OnText
<1>. QED  BY <1>2, <1>3 DEF In

(* A process that has failed is on its way only where exit(1) comes last anyway. *)
LEMMA NoReturn ==
    ASSUME Typed, NEW p \in Processes, p = "child" => program \in DOMAIN ChildText,
           todo'[p] = Failed, program' = program, OnText(p)'
    PROVE  /\ Len(CallsOf(p)) > 0 /\ Done(p)' = Len(CallsOf(p)) - 1
           /\ CallsOf(p)[Len(CallsOf(p))] = <<"exit", "1">>
<1>. DEFINE T == CallsOf(p)
            k == Done(p)'
<1>1. CallsOf(p)' = CallsOf(p)
  BY DEF CallsOf
<1>2. T \in Seq(CallSet) /\ Len(T) \in Nat
  BY CallsOfTyped
<1>3. k = Len(T) - 1 /\ k \in 0 .. Len(T) /\ Failed = SubSeq(T, k + 1, Len(T))
  <2>1. Len(Failed) = 1
    BY DEF Failed
  <2>2. k = Len(T) - Len(Failed)
    BY <1>1 DEF Done
  <2>. HIDE DEF T, k
  <2>3. k = Len(T) - 1
    BY <1>2, <2>1, <2>2
  <2>4. k \in 0 .. Len(T) /\ Failed = SubSeq(T, k + 1, Len(T))
    BY <1>1 DEF OnText, Rest, T, k
  <2>. QED  BY <2>3, <2>4
<1>. HIDE DEF T, k
<1>4. k + 1 = Len(T) /\ Len(T) \in 1 .. Len(T)
  BY <1>2, <1>3
<1>5. \A j \in 1 .. Len(T) - Len(T) + 1 : SubSeq(T, Len(T), Len(T))[j] = T[Len(T) + j - 1]
  <2>1. \A j \in Len(T) .. Len(T) : T[j] \in CallSet
    BY <1>2, <1>4
  <2>. QED  BY <1>2, <2>1, SubSeqProperties
<1>6. Failed[1] = T[Len(T)]
  <2>1. 1 \in 1 .. Len(T) - Len(T) + 1 /\ Len(T) + 1 - 1 = Len(T)
    BY <1>2
  <2>. QED  BY <1>3, <1>4, <1>5, <2>1
<1>7. Failed[1] = <<"exit", "1">>
  BY DEF Failed
<1>8. Len(T) > 0
  BY <1>2, <1>4
<1>. QED  BY <1>3, <1>6, <1>7, <1>8 DEF T, k

(* Where a process is that runs its program. *)
LEMMA RunningStep ==
    ASSUME Typed, Course, NEW p \in Processes, Process(p), status[p] = "running"
    PROVE  /\ p = "child" => program \in DOMAIN ChildText
           /\ \/ todo[p] = Failed /\ Exit(p)
              \/ /\ OnText(p) /\ Done(p) = Len(CallsOf(p)) /\ todo[p] = << >> /\ Exit(p)
              \/ /\ OnText(p) /\ Done(p) \in 0 .. Len(CallsOf(p)) - 1 /\ todo[p] # << >>
                 /\ todo[p][1] = CallsOf(p)[Done(p) + 1]
<1>1. p = "child" => program \in DOMAIN ChildText
  <2>1. status.child # "unborn" => program \notin Single /\ program \in Programs
    BY DEF Course, Typed, FdTypeOK
  <2>. QED  BY <2>1 DEF Programs, Text, ChildText, Single
<1>2. CASE todo[p] = Failed
  <2>1. todo[p] # << >> /\ todo[p][1][1] = "exit"
    BY <1>2 DEF Failed
  <2>. QED  BY <1>1, <1>2, <2>1, OneCall
<1>3. CASE OnText(p) /\ todo[p] = << >>
  <2>1. Done(p) = Len(CallsOf(p))
    <3>1. Len(CallsOf(p)) \in Nat /\ Len(todo[p]) = 0
      BY <1>1, <1>3, CallsOfTyped
    <3>. QED  BY <3>1 DEF Done
  <2>. QED  BY <1>1, <1>3, <2>1, OneCall
<1>4. CASE OnText(p) /\ todo[p] # << >>
  BY <1>1, <1>4, NextCall
<1>. QED  BY <1>2, <1>3, <1>4 DEF Course

-----------------------------------------------------------------------------
(* Course is kept. *)

(* Most calls just return; the others are what decides on the course of a process. *)
LEMMA Progress ==
    ASSUME FdInv, NEW p \in Processes, Process(p)
    PROVE  \/ /\ todo[p] # << >> /\ todo'[p] \in {Tail(todo[p]), todo[p]}
              /\ \A q \in Processes \ {p} : todo'[q] = todo[q]
              /\ status' = status /\ todo[p][1][1] # "fork"
           \/ todo[p] # << >> /\ Fails(p)
           \/ todo[p] # << >> /\ Fork(p)
           \/ todo[p] # << >> /\ Exec(p)
           \/ Exit(p)
           \/ todo[p] # << >> /\ Wait(p)
<1>. USE DEF FdInv
<1>1. CASE todo[p] = << >>
  BY <1>1, OneCall
<1>2. CASE todo[p] # << >>
  <2>1. CASE Open(p)
    BY <1>2, <2>1, OpenStep, ReturnStep DEF constants, Open, Calls
  <2>2. CASE Dup(p)
    BY <1>2, <2>2, DupStep, ReturnStep DEF constants, Dup, Calls
  <2>3. CASE Dup2(p)
    BY <1>2, <2>3, Dup2Step, ReturnStep DEF constants, Dup2, Calls
  <2>4. CASE Close(p)
    BY <1>2, <2>4, ReturnStep DEF Close, Calls
  <2>5. CASE MakePipe(p)
    BY <1>2, <2>5, ReturnStep DEF MakePipe, Calls
  <2>6. CASE Write(p)
    BY <1>2, <2>6, ReturnStep DEF Write, Calls
  <2>7. CASE Printf(p)
    BY <1>2, <2>7, ReturnStep DEF Printf, Calls
  <2>8. CASE WritePipe(p)
    BY <1>2, <2>8, ReturnStep DEF WritePipe, Calls
  <2>9. CASE Count(p)
    BY <1>2, <2>9 DEF Count, Calls
  <2>10. CASE CountEOF(p)
    BY <1>2, <2>10, ReturnStep DEF CountEOF, Calls
  <2>. QED  BY <1>2, <2>1, <2>2, <2>3, <2>4, <2>5, <2>6, <2>7, <2>8, <2>9, <2>10 DEF Process
<1>. QED  BY <1>1, <1>2

(* No program forks twice, or after it waited. *)
LEMMA OneFork ==
    \A x \in DOMAIN Text : \A j, k \in DOMAIN Text[x] :
       Text[x][j][1] \in {"fork", "wait"} /\ Text[x][k][1] = "fork" => k <= j
<1>. DEFINE Good(x) == \A j, k \in DOMAIN Text[x] :
               Text[x][j][1] \in {"fork", "wait"} /\ Text[x][k][1] = "fork" => k <= j
<1>1. DOMAIN Text = {"dup", "dup2_file", "dup2_stdout", "pipe_launch", "exec_change_fd",
                     "exec_simple", "fflush", "simple_fork", "zombie", "orphan"}
  BY DEF Text
<1>2. Good("dup")
  BY DEF Text, DupC
<1>3. Good("dup2_file")
  BY DEF Text, Dup2File
<1>4. Good("dup2_stdout")
  BY DEF Text, Dup2Stdout
<1>5. Good("pipe_launch")
  BY DEF Text, PipeLaunch
<1>6. Good("exec_change_fd")
  BY DEF Text, ExecChangeFd
<1>7. Good("exec_simple")
  BY DEF Text, ExecSimple
<1>8. Good("fflush")
  BY DEF Text, Fflush
<1>9. Good("simple_fork")
  BY DEF Text, SimpleFork
<1>10. Good("zombie") /\ Good("orphan")
  BY DEF Text, Zombie
<1>. HIDE DEF Good
<1>11. \A x \in DOMAIN Text : Good(x)
  BY <1>1, <1>2, <1>3, <1>4, <1>5, <1>6, <1>7, <1>8, <1>9, <1>10
<1>. QED  BY <1>11 DEF Good

(* The calls that are left, by their place in the program. *)
LEMMA RestAt ==
    ASSUME NEW S, NEW s \in Seq(S), NEW k \in 0 .. Len(s)
    PROVE  /\ Len(Rest(s, k)) = Len(s) - k
           /\ \A j \in 1 .. Len(s) - k : Rest(s, k)[j] = s[k + j]
           /\ Rest(s, k) \in Seq(S)
<1>1. \A j \in k + 1 .. Len(s) : s[j] \in S
  <2>1. \A j \in k + 1 .. Len(s) : j \in 1 .. Len(s)
    OBVIOUS
  <2>. QED  BY <2>1
<1>2. k + 1 \in Nat /\ Len(s) \in Nat
  OBVIOUS
<1>3. Len(Rest(s, k)) = Len(s) - k
  BY <1>1, <1>2 DEF Rest
<1>4. \A j \in 1 .. Len(s) - (k + 1) + 1 : SubSeq(s, k + 1, Len(s))[j] = s[k + 1 + j - 1]
  BY <1>1, <1>2, SubSeqProperties
<1>5. \A j \in 1 .. Len(s) - k : Rest(s, k)[j] = s[k + j]
  BY <1>4 DEF Rest
<1>6. Rest(s, k) \in Seq(S)
  BY <1>1, <1>2 DEF Rest
<1>. QED  BY <1>3, <1>5, <1>6

(* After fork(), or after wait(), no fork() is to come. *)
LEMMA ForkedOnce ==
    ASSUME Typed, OnText("parent"), todo.parent # << >>, todo.parent[1][1] \in {"fork", "wait"}
    PROVE  \A k \in DOMAIN Tail(todo.parent) : Tail(todo.parent)[k][1] # "fork"
<1>. DEFINE T == CallsOf("parent")
            n == Done("parent")
<1>1. "parent" \in Processes /\ "parent" # "child"
  BY DEF Processes
<1>2. T \in Seq(CallSet) /\ T = Text[program] /\ program \in DOMAIN Text
  BY <1>1, CallsOfTyped DEF CallsOf, Typed, FdTypeOK, Programs
<1>3. n \in 0 .. Len(T) - 1 /\ todo.parent[1] = T[n + 1] /\ Tail(todo.parent) = Rest(T, n + 1)
  BY <1>1, <1>2, NextCall
<1>. HIDE DEF T, n
<1>4. Len(T) \in Nat /\ DOMAIN T = 1 .. Len(T) /\ n + 1 \in 0 .. Len(T) /\ n + 1 \in DOMAIN T
  BY <1>2, <1>3
<1>5. /\ Len(Rest(T, n + 1)) = Len(T) - (n + 1)
      /\ \A j \in 1 .. Len(T) - (n + 1) : Rest(T, n + 1)[j] = T[n + 1 + j]
      /\ Rest(T, n + 1) \in Seq(CallSet)
  BY <1>2, <1>4, RestAt
<1>6. ASSUME NEW k \in DOMAIN Tail(todo.parent) PROVE Tail(todo.parent)[k][1] # "fork"
  <2>1. k \in 1 .. Len(T) - (n + 1)
    <3>1. DOMAIN Rest(T, n + 1) = 1 .. Len(Rest(T, n + 1))
      BY <1>5
    <3>. QED  BY <1>3, <1>5, <3>1
  <2>2. n + 1 + k \in DOMAIN T /\ ~(n + 1 + k <= n + 1)
    BY <1>3, <1>4, <2>1
  <2>3. Tail(todo.parent)[k] = T[n + 1 + k]
    BY <1>3, <1>5, <2>1
  <2>4. \A j, i \in DOMAIN T : T[j][1] \in {"fork", "wait"} /\ T[i][1] = "fork" => i <= j
    BY <1>2, OneFork
  <2>. QED  BY <1>3, <1>4, <2>2, <2>3, <2>4
<1>. QED  BY <1>6

(* Every call keeps the course of the programs. *)
LEMMA CourseStep ==
    ASSUME FdInv, NEW p \in Processes, Process(p)
    PROVE  Course'
<1>1. Typed /\ Course /\ LaunchInv /\ ~Ended(p) /\ UNCHANGED <<program, std, tty>>
      /\ "parent" \in Processes /\ "child" \in Processes
  BY OneCall, SameProgram DEF FdInv, Processes
<1>2. CASE /\ todo[p] # << >> /\ todo'[p] \in {Tail(todo[p]), todo[p]}
           /\ \A q \in Processes \ {p} : todo'[q] = todo[q]
           /\ status' = status
  <2>1. todo[p] \in Seq(CallSet) /\ Len(todo[p]) \in Nat \ {0}
        /\ Tail(todo[p]) \in Seq(CallSet) /\ Len(Tail(todo[p])) = Len(todo[p]) - 1
        /\ \A k \in 1 .. Len(todo[p]) - 1 : Tail(todo[p])[k] = todo[p][k + 1]
    BY <1>1, <1>2, Current
  <2>2. \A k \in DOMAIN todo'[p] : \E j \in DOMAIN todo[p] : todo'[p][k] = todo[p][j]
    <3>1. \A k \in DOMAIN Tail(todo[p]) : k \in 1 .. Len(todo[p]) - 1 /\ k + 1 \in DOMAIN todo[p]
      BY <2>1
    <3>2. \A k \in DOMAIN Tail(todo[p]) : Tail(todo[p])[k] = todo[p][k + 1]
      BY <2>1, <3>1
    <3>. QED  BY <1>2, <3>1, <3>2
  <2>3. \A q \in Processes : \A k \in DOMAIN todo'[q] :
            \E j \in DOMAIN todo[q] : todo'[q][k] = todo[q][j]
    BY <1>2, <2>2
  <2>4. ASSUME NEW q \in Processes, status'[q] = "running"
        PROVE  OnText(q)' \/ todo'[q] = Failed
    <3>1. OnText(q) \/ todo[q] = Failed
      BY <1>1, <1>2, <2>4 DEF Course
    <3>2. CASE todo'[q] = todo[q]
      BY <1>1, <3>1, <3>2, Stays
    <3>3. CASE q = p /\ todo'[p] = Tail(todo[p])
      <4>1. Process(p) /\ status[p] = "running" /\ p = q
        BY <1>2, <2>4, <3>3
      <4>2. p = "child" => program \in DOMAIN ChildText
        BY <1>1, <4>1, RunningStep
      <4>3. todo[p] # Failed
        <5>1. todo[p] = Failed => todo[p][1][1] = "exit" /\ todo[p] # << >>
          BY DEF Failed
        <5>2. todo[p] = Failed => Exit(p)
          BY <4>1, <5>1, OneCall
        <5>3. Exit(p) => status'[p] # "running"
          BY <1>1, ExitStep
        <5>. QED  BY <2>4, <4>1, <5>2, <5>3
      <4>. QED  BY <1>1, <1>2, <3>1, <3>3, <4>1, <4>2, <4>3, Advance
    <3>. QED  BY <1>2, <3>2, <3>3
  <2>5. program \in {"fflush", "simple_fork", "zombie", "orphan", "pipe_launch"} =>
          \A k \in DOMAIN todo'.parent : todo'.parent[k][1] = "fork" => status'.child = "unborn"
    BY <1>1, <1>2, <2>3 DEF Course
  <2>6. status'.parent = "command" =>
          /\ program \in {"exec_simple", "exec_change_fd"}
          /\ todo'.parent \in {<< >>, << <<"printf", "hello">> >>}
    <3>1. SUFFICES ASSUME status.parent = "command"
                   PROVE  todo'.parent \in {<< >>, << <<"printf", "hello">> >>}
      BY <1>1, <1>2 DEF Course
    <3>2. todo.parent \in {<< >>, << <<"printf", "hello">> >>}
      BY <1>1, <3>1 DEF Course
    <3>3. Tail(<< <<"printf", "hello">> >>) = << >>
      OBVIOUS
    <3>. QED  BY <1>1, <1>2, <3>2, <3>3
  <2>7. status'.child = "command" =>
          /\ program = "pipe_launch"
          /\ \A k \in DOMAIN todo'.child : todo'.child[k] = <<"write", "STDOUT", "byte">>
    BY <1>1, <1>2, <2>3 DEF Course
  <2>. QED  BY <1>1, <1>2, <2>4, <2>5, <2>6, <2>7 DEF Course
<1>3. CASE todo[p] # << >> /\ Fails(p)
  <2>1. /\ status[p] = "running" /\ status' = status
        /\ IF program \in {"exec_change_fd", "fflush"} THEN Returns(p) ELSE todo'[p] = Failed
        /\ \A q \in Processes \ {p} : todo'[q] = todo[q]
    BY <1>1, <1>3, FailsStep
  <2>2. CASE Returns(p)
    <3>1. todo'[p] = Tail(todo[p])
      BY <1>1, <1>3, <2>2, ReturnStep
    <3>. QED  BY <1>2, <1>3, <2>1, <3>1
  <2>3. CASE todo'[p] = Failed
    <3>1. \A q \in Processes : status'[q] = "running" => OnText(q)' \/ todo'[q] = Failed
      <4>1. ASSUME NEW q \in Processes \ {p}, status'[q] = "running"
            PROVE  OnText(q)' \/ todo'[q] = Failed
        <5>1. OnText(q) \/ todo[q] = Failed
          BY <1>1, <2>1, <4>1 DEF Course
        <5>. QED  BY <1>1, <2>1, <5>1, Stays
      <4>. QED  BY <2>3, <4>1
    <3>2. DOMAIN Failed = {1} /\ Failed[1][1] # "fork"
      BY DEF Failed
    <3>3. program \in {"fflush", "simple_fork", "zombie", "orphan", "pipe_launch"} =>
            \A k \in DOMAIN todo'.parent : todo'.parent[k][1] = "fork" => status'.child = "unborn"
      BY <1>1, <2>1, <2>3, <3>2 DEF Course
    <3>. QED  BY <1>1, <2>1, <2>3, <3>1, <3>3 DEF Course
  <2>. QED  BY <2>1, <2>2, <2>3
<1>4. CASE todo[p] # << >> /\ Fork(p)
  <2>1. /\ p = "parent" /\ program \in DOMAIN ChildText /\ status'.parent = "running"
        /\ status'.child = "running" /\ todo'.parent = Tail(todo.parent)
        /\ todo'.child = ChildText[program]
    BY <1>1, <1>4, ForkStep
  <2>2. /\ OnText("parent") /\ \A k \in DOMAIN todo'.parent : todo'.parent[k][1] # "fork"
    <3>1. todo.parent # << >> /\ todo.parent[1][1] = "fork" /\ status.parent = "running"
      BY <1>1, <1>4, <2>1, ForkStep DEF Fork, Calls
    <3>2. todo.parent # Failed
      BY <3>1 DEF Failed
    <3>3. OnText("parent")
      BY <1>1, <3>1, <3>2 DEF Course
    <3>. QED  BY <1>1, <2>1, <3>1, <3>3, ForkedOnce
  <2>3. OnText("parent")'
    BY <1>1, <1>4, <2>1, <2>2, Advance
  <2>4. OnText("child")'
    <3>1. CallsOf("child")' = ChildText[program]
      BY <1>1 DEF CallsOf
    <3>2. ChildText[program] \in Seq(CallSet)
      BY <2>1, ChildTextTyped
    <3>3. Done("child")' = 0
      BY <1>1, <2>1, <3>1, <3>2 DEF Done
    <3>4. SubSeq(ChildText[program], 1, Len(ChildText[program])) = ChildText[program]
      BY <3>2
    <3>. QED  BY <2>1, <3>1, <3>2, <3>3, <3>4 DEF OnText, Rest
  <2>5. program \notin Single
    BY <2>1 DEF ChildText, Single
  <2>. QED  BY <1>1, <2>1, <2>2, <2>3, <2>4, <2>5 DEF Course, Processes
<1>5. CASE todo[p] # << >> /\ Exec(p)
  <2>1. /\ \/ p = "parent" /\ program \in {"exec_simple", "exec_change_fd"}
              /\ todo'[p] \in {<< >>, << <<"printf", "hello">> >>}
           \/ p = "child" /\ program = "pipe_launch"
              /\ \A k \in DOMAIN todo'[p] : todo'[p][k] = <<"write", "STDOUT", "byte">>
        /\ status[p] = "running" /\ status'[p] = "command"
        /\ \A q \in Processes \ {p} : todo'[q] = todo[q] /\ status'[q] = status[q]
    BY <1>1, <1>5, ExecStep
  <2>2. ASSUME NEW q \in Processes, status'[q] = "running"
        PROVE  OnText(q)' \/ todo'[q] = Failed
    <3>1. q # p /\ (OnText(q) \/ todo[q] = Failed)
      BY <1>1, <2>1, <2>2 DEF Course
    <3>. QED  BY <1>1, <2>1, <3>1, Stays
  <2>3. CASE p = "parent"
    BY <1>1, <2>1, <2>2, <2>3 DEF Course
  <2>4. CASE p = "child"
    <3>1. \A k \in DOMAIN todo'.parent : todo'.parent[k][1] # "fork"
      BY <1>1, <2>1, <2>4 DEF Course
    <3>2. program = "pipe_launch" /\ program \notin Single
      BY <2>1, <2>4 DEF Single
    <3>. QED  BY <1>1, <2>1, <2>2, <2>4, <3>1, <3>2 DEF Course
  <2>. QED  BY <2>3, <2>4 DEF Processes
<1>6. CASE Exit(p)
  <2>1. /\ status'[p] \in {"0", "1"} /\ todo'[p] = << >>
        /\ \A q \in Processes \ {p} : todo'[q] = todo[q] /\ status'[q] = status[q]
    BY <1>1, <1>6, ExitStep
  <2>2. ASSUME NEW q \in Processes, status'[q] = "running"
        PROVE  OnText(q)' \/ todo'[q] = Failed
    <3>1. q # p /\ (OnText(q) \/ todo[q] = Failed)
      BY <1>1, <2>1, <2>2 DEF Course
    <3>. QED  BY <1>1, <2>1, <3>1, Stays
  <2>3. status.child = "unborn" => p # "child"
    BY <1>1 DEF Ended
  <2>4. program \in {"fflush", "simple_fork", "zombie", "orphan", "pipe_launch"} =>
          \A k \in DOMAIN todo'.parent : todo'.parent[k][1] = "fork" => status'.child = "unborn"
    BY <1>1, <2>1, <2>3 DEF Course, Processes
  <2>. QED  BY <1>1, <2>1, <2>2, <2>3, <2>4 DEF Course, Processes
<1>7. CASE todo[p] # << >> /\ Wait(p)
  <2>1. /\ p = "parent" /\ program \notin Single /\ status'.child = "reaped"
        /\ status'.parent = status.parent /\ todo[p][1][1] = "wait"
        /\ todo'[p] = Tail(todo[p]) /\ \A q \in Processes \ {p} : todo'[q] = todo[q]
    BY <1>1, <1>7, WaitStep, ReturnStep DEF Wait, Calls
  <2>2. status.parent = "running"
    <3>1. status.parent = "command" => program \in Single
      BY <1>1 DEF Course, Single
    <3>. QED  BY <1>1, <2>1, <3>1 DEF Ended
  <2>5. OnText("parent")
    <3>1. todo[p] # Failed
      BY <2>1 DEF Failed
    <3>. QED  BY <1>1, <2>1, <2>2, <3>1 DEF Course
  <2>3. OnText("parent")'
    BY <1>1, <1>7, <2>1, <2>2, <2>5, Advance
  <2>4. program \in {"fflush", "simple_fork", "zombie", "orphan", "pipe_launch"} =>
          \A k \in DOMAIN todo'.parent : todo'.parent[k][1] = "fork" => status'.child = "unborn"
    BY <1>1, <1>7, <2>1, <2>5, ForkedOnce
  <2>. QED  BY <1>1, <2>1, <2>2, <2>3, <2>4 DEF Course, Processes
<1>. QED  BY <1>2, <1>3, <1>4, <1>5, <1>6, <1>7, Progress

-----------------------------------------------------------------------------
(* The programs that do not fork. *)

(* They are the parent alone. *)
LEMMA Alone ==
    ASSUME FdInv, NEW p \in Processes, Process(p), program \in Single
    PROVE  /\ p = "parent"
           /\ \/ status[p] = "running"
              \/ status[p] = "command" /\ program \in {"exec_simple", "exec_change_fd"}
<1>1. ~Ended(p) /\ Course
  BY OneCall DEF FdInv
<1>2. p = "parent"
  BY <1>1 DEF Course, Ended, Processes
<1>. QED  BY <1>1, <1>2 DEF Course, Ended

(* When it has failed, or what it failed is not what it could do next. *)
LEMMA DupFailed ==
    ASSUME FdInv, NEW p \in Processes, Process(p), program \in {"dup", "dup2_file", "dup2_stdout"},
           todo[p] = Failed \/ (todo[p] # << >> /\ Fails(p))
    PROVE  /\ p = "parent"
           /\ \A lo, hi \in Nat : ~In("parent", lo, hi)'
           /\ status'.parent # "0"
           /\ stdio'.parent = stdio.parent \/ stdio'.parent = << >>
<1>1. Typed /\ Course /\ p = "parent" /\ status[p] = "running" /\ UNCHANGED <<program, std, tty>>
  BY Alone, SameProgram DEF FdInv, Single
<1>2. CASE todo[p] = Failed
  <2>1. Exit(p) /\ todo[p] # << >> /\ todo[p][1][2] = "1"
    <3>1. todo[p] # << >> /\ todo[p][1][1] = "exit" /\ todo[p][1][2] = "1"
      BY <1>2 DEF Failed
    <3>. QED  BY <3>1, OneCall
  <2>2. status'[p] = "1" /\ stdio'[p] = << >>
    BY <1>1, <2>1, ExitStep
  <2>. QED  BY <1>1, <2>2 DEF In
<1>3. CASE todo[p] # << >> /\ Fails(p)
  <2>1. status' = status /\ todo'[p] = Failed /\ stdio' = stdio
    BY <1>1, <1>3, FailsStep DEF buffers
  <2>2. CallsOf("parent")[Len(CallsOf("parent"))] # <<"exit", "1">>
    <3>1. DupC[Len(DupC)] # <<"exit", "1">> /\ Dup2File[Len(Dup2File)] # <<"exit", "1">>
          /\ Dup2Stdout[Len(Dup2Stdout)] # <<"exit", "1">>
      BY DEF DupC, Dup2File, Dup2Stdout
    <3>. QED  BY <3>1 DEF CallsOf, Text
  <2>3. ~OnText("parent")'
    BY <1>1, <2>1, <2>2, NoReturn
  <2>. QED  BY <1>1, <2>1, <2>3 DEF In
<1>. QED  BY <1>2, <1>3

(* A call that returns has been made. *)
LEMMA Returned ==
    ASSUME FdInv, NEW p \in Processes, Process(p), status[p] = "running", OnText(p),
           todo[p] # << >>, Returns(p)
    PROVE  OnText(p)' /\ Done(p)' = Done(p) + 1
<1>1. p = "child" => program \in DOMAIN ChildText
  BY RunningStep DEF FdInv
<1>2. todo'[p] = Tail(todo[p]) /\ program' = program
  BY ReturnStep, SameProgram DEF FdInv
<1>. QED  BY <1>1, <1>2, Advance DEF FdInv

(* The first text that is written to a file is over what the file held. *)
LEMMA StoreFirst ==
    ASSUME Typed, NEW f \in Files, NEW x, <<x>> \in Seq(Texts),
           Holds(f, << >>), offset[f] = 0, Store(f, <<x>>)
    PROVE  Holds(f, <<x>>)' /\ offset'[f] = 1
<1>1. << >> \in Seq(Texts) /\ Len(<< >>) = 0 /\ Len(<<x>>) = 1
  BY Lists
<1>2. << >> \o <<x>> = <<x>>
  OBVIOUS
<1>3. Holds(f, << >> \o <<x>>)' /\ offset'[f] = 0 + 1
  BY <1>1, StoreHolds
<1>. QED  BY <1>2, <1>3

(* A file that is not written to holds what it held. *)
LEMMA StillHolds ==
    ASSUME NEW f, NEW t, Holds(f, t), content'[f] = content[f]
    PROVE  Holds(f, t)'
BY DEF Holds

(* Two lists of one text. *)
LEMMA Joined ==
    ASSUME NEW x \in Texts, NEW y \in Texts
    PROVE  <<x>> \o <<y>> = <<x, y>>
<1>. DEFINE s == <<x>>
            t == <<y>>
            u == s \o t
            v == <<x, y>>
<1>1. s \in Seq(Texts) /\ t \in Seq(Texts) /\ v \in Seq(Texts)
  BY Lists
<1>2. Len(s) = 1 /\ s[1] = x /\ Len(t) = 1 /\ t[1] = y /\ Len(v) = 2 /\ v[1] = x /\ v[2] = y
  OBVIOUS
<1>. HIDE DEF s, t, v
<1>3. u \in Seq(Texts) /\ Len(u) = 2 /\ u[1] = x /\ u[2] = y
  BY <1>1, <1>2, ConcatProperties
<1>. HIDE DEF u
<1>4. \A k \in 1 .. Len(u) : u[k] = v[k]
  BY <1>2, <1>3
<1>5. u = v
  BY <1>1, <1>2, <1>3, <1>4, SeqEqual
<1>. QED  BY <1>5 DEF s, t, u, v

(* The second text is written after the first. *)
LEMMA StoreSecond ==
    ASSUME Typed, NEW f \in Files, NEW x \in Texts, NEW y \in Texts,
           Holds(f, <<x>>), offset[f] = 1, Store(f, <<y>>)
    PROVE  Holds(f, <<x, y>>)'
<1>1. <<x>> \in Seq(Texts) /\ Len(<<x>>) = 1 /\ <<y>> \in Seq(Texts)
  BY Lists
<1>2. Holds(f, <<x>> \o <<y>>)'
  BY <1>1, StoreHolds
<1>. QED  BY <1>2, Joined

(* dup.c: whichever descriptor is written to, the file goes on from where it was. *)
LEMMA DupKept ==
    ASSUME FdInv, NEW p \in Processes, Process(p)
    PROVE  DupInv'
<1>. SUFFICES ASSUME program = "dup" PROVE DupInv'
  BY SameProgram DEF DupInv
<1>1. /\ Typed /\ Typed' /\ Course /\ DupInv /\ UNCHANGED <<program, std, tty>>
      /\ p = "parent" /\ status.parent = "running" /\ stdio.parent = << >>
  BY Alone, SameProgram, TypedStep DEF FdInv, Single, DupInv
<1>. DEFINE D == Done("parent")
            call == todo.parent[1]
<1>2. CASE todo[p] = Failed \/ (todo[p] # << >> /\ Fails(p))
  BY <1>1, <1>2, DupFailed DEF DupInv
<1>3. CASE OnText(p) /\ D = Len(CallsOf(p)) /\ todo[p] = << >> /\ Exit(p)
  <2>1. D = 6
    BY <1>1, <1>3 DEF CallsOf, Text, DupC
  <2>2. In("parent", 4, 6)
    BY <1>1, <1>3, <2>1 DEF In
  <2>3. Holds("hello", <<"123", "345">>)
    BY <1>1, <2>2 DEF DupInv
  <2>4. status'.parent = "0" /\ stdio'.parent = << >> /\ content' = content
    <3>1. Refers(p, 1) \in Descriptions \cup {"closed"} /\ Store(Refers(p, 1), << >>)
      BY <1>1, <1>3, ExitStep
    <3>. QED  BY <1>1, <1>3, <3>1, ExitStep, StoreNothing
  <2>. QED  BY <2>3, <2>4 DEF DupInv, In, Holds
<1>4. CASE OnText(p) /\ D \in 0 .. Len(CallsOf(p)) - 1 /\ todo[p] # << >> /\ ~Fails(p)
           /\ call = CallsOf(p)[D + 1]
  <2>1. /\ D \in 0 .. 5
        /\ D = 0 => call = <<"open", "fd", "hello">>
        /\ D = 1 => call = <<"dup", "newfd", "fd">>
        /\ D = 2 => call = <<"write", "fd", "123">>
        /\ D = 3 => call = <<"write", "newfd", "345">>
        /\ D = 4 => call = <<"close", "fd">>
        /\ D = 5 => call = <<"close", "newfd">>
    BY <1>1, <1>4 DEF CallsOf, Text, DupC
  <2>2. Returns(p) => OnText("parent")' /\ Done("parent")' = D + 1
    BY <1>1, <1>4, Returned
  <2>. HIDE DEF D, call
  <2>3. CASE D = 0
    <3>1. Open(p)
      BY <1>1, <1>4, <2>1, <2>3, OneCall DEF call
    <3>2. Refers("parent", var.parent.fd)' = "hello"
      BY <1>1, <1>4, <2>1, <2>3, <3>1, OpenStep DEF call, Refers
    <3>3. Returns(p) /\ UNCHANGED <<status, stdio, content, offset>>
      BY <1>1, <1>4, <3>1, OpenStep DEF buffers, files
    <3>4. Holds("hello", << >>) /\ offset.hello = 0
      BY <1>1, <1>4, <2>3 DEF DupInv, In, D
    <3>5. Holds("hello", << >>)' /\ offset'.hello = 0
      BY <3>3, <3>4 DEF Holds
    <3>. QED  BY <1>1, <2>2, <2>3, <3>2, <3>3, <3>5 DEF DupInv, In
  <2>4. CASE D = 1
    <3>1. Dup(p)
      BY <1>1, <1>4, <2>1, <2>4, OneCall DEF call
    <3>2. Refers("parent", var.parent.fd) = "hello"
      BY <1>1, <1>4, <2>4 DEF DupInv, In, D
    <3>3. Refers("parent", var.parent.newfd)' = "hello" /\ Refers("parent", var.parent.fd)' = "hello"
      BY <1>1, <1>4, <2>1, <2>4, <3>1, <3>2, DupStep DEF call, Refers, Names
    <3>4. Returns(p) /\ UNCHANGED <<status, stdio, content, offset>>
      BY <1>1, <1>4, <3>1, DupStep DEF buffers, files
    <3>5. Holds("hello", << >>) /\ offset.hello = 0
      BY <1>1, <1>4, <2>4 DEF DupInv, In, D
    <3>6. Holds("hello", << >>)' /\ offset'.hello = 0
      BY <3>4, <3>5 DEF Holds
    <3>. QED  BY <1>1, <2>2, <2>4, <3>3, <3>4, <3>6 DEF DupInv, In
  <2>5. CASE D = 2
    <3>1. Refers("parent", var.parent.fd) = "hello" /\ Refers("parent", var.parent.newfd) = "hello"
      BY <1>1, <1>4, <2>5 DEF DupInv, In, D
    <3>2. Write(p)
      BY <1>1, <1>4, <2>1, <2>5, <3>1, OneCall DEF call, WritePipe, Fd, Arg
    <3>3. Store("hello", <<"123">>) /\ <<"123">> \in Seq(Texts)
      BY <1>1, <1>4, <2>1, <2>5, <3>1, <3>2, WriteStep DEF call, Fd, Arg
    <3>4. Returns(p) /\ UNCHANGED <<status, stdio, fds, var>>
      BY <1>1, <1>4, <3>2, WriteStep DEF buffers
    <3>5. Holds("hello", << >>) /\ offset.hello = 0
      BY <1>1, <1>4, <2>5 DEF DupInv, In, D
    <3>6. Holds("hello", <<"123">>)' /\ offset'.hello = 1
      BY <1>1, <3>3, <3>5, StoreFirst DEF Files
    <3>7. Refers("parent", var.parent.fd)' = "hello" /\ Refers("parent", var.parent.newfd)' = "hello"
      BY <3>1, <3>4 DEF Refers
    <3>. QED  BY <1>1, <2>2, <2>5, <3>4, <3>6, <3>7 DEF DupInv, In
  <2>6. CASE D = 3
    <3>1. Refers("parent", var.parent.fd) = "hello" /\ Refers("parent", var.parent.newfd) = "hello"
      BY <1>1, <1>4, <2>6 DEF DupInv, In, D
    <3>2. Write(p)
      BY <1>1, <1>4, <2>1, <2>6, <3>1, OneCall DEF call, WritePipe, Fd, Arg
    <3>3. Store("hello", <<"345">>) /\ <<"345">> \in Seq(Texts)
      BY <1>1, <1>4, <2>1, <2>6, <3>1, <3>2, WriteStep DEF call, Fd, Arg
    <3>4. Returns(p) /\ UNCHANGED <<status, stdio, fds, var>>
      BY <1>1, <1>4, <3>2, WriteStep DEF buffers
    <3>5. Holds("hello", <<"123">>) /\ offset.hello = 1
      BY <1>1, <1>4, <2>6 DEF DupInv, In, D
    <3>6. Holds("hello", <<"123", "345">>)'
      BY <1>1, <3>3, <3>5, StoreSecond DEF Files, Texts
    <3>7. Refers("parent", var.parent.fd)' = "hello" /\ Refers("parent", var.parent.newfd)' = "hello"
      BY <3>1, <3>4 DEF Refers
    <3>. QED  BY <1>1, <2>2, <2>6, <3>4, <3>6, <3>7 DEF DupInv, In
  <2>7. CASE D \in {4, 5}
    <3>1. Close(p)
      BY <1>1, <1>4, <2>1, <2>7, OneCall DEF call
    <3>2. Returns(p) /\ UNCHANGED <<status, stdio, content, offset>>
      BY <1>1, <1>4, <3>1, CloseStep DEF buffers, files
    <3>3. Holds("hello", <<"123", "345">>)
      BY <1>1, <1>4, <2>7 DEF DupInv, In, D
    <3>4. Holds("hello", <<"123", "345">>)'
      BY <3>2, <3>3 DEF Holds
    <3>. QED  BY <1>1, <2>2, <2>7, <3>2, <3>4 DEF DupInv, In
  <2>. QED  BY <2>1, <2>3, <2>4, <2>5, <2>6, <2>7
<1>. QED  BY <1>1, <1>2, <1>3, <1>4, RunningStep DEF D, call

(* dup2-file.c: from dup2() on, both descriptors are one of hello1. *)
LEMMA Dup2FileKept ==
    ASSUME FdInv, NEW p \in Processes, Process(p)
    PROVE  Dup2FileInv'
<1>. SUFFICES ASSUME program = "dup2_file" PROVE Dup2FileInv'
  BY SameProgram DEF Dup2FileInv
<1>1. /\ Typed /\ Typed' /\ Course /\ Dup2FileInv /\ UNCHANGED <<program, std, tty>>
      /\ p = "parent" /\ status.parent = "running" /\ stdio.parent = << >>
  BY Alone, SameProgram, TypedStep DEF FdInv, Single, Dup2FileInv
<1>. DEFINE D == Done("parent")
            call == todo.parent[1]
<1>2. CASE todo[p] = Failed \/ (todo[p] # << >> /\ Fails(p))
  BY <1>1, <1>2, DupFailed DEF Dup2FileInv
<1>3. CASE OnText(p) /\ D = Len(CallsOf(p)) /\ todo[p] = << >> /\ Exit(p)
  <2>1. D = 8
    BY <1>1, <1>3 DEF CallsOf, Text, Dup2File
  <2>2. In("parent", 6, 8) /\ In("parent", 3, 8)
    BY <1>1, <1>3, <2>1 DEF In
  <2>3. Holds("hello1", <<"123", "567">>) /\ Holds("hello2", <<"hello">>)
    BY <1>1, <2>2 DEF Dup2FileInv
  <2>4. status'.parent = "0" /\ stdio'.parent = << >> /\ content' = content
    <3>1. Refers(p, 1) \in Descriptions \cup {"closed"} /\ Store(Refers(p, 1), << >>)
      BY <1>1, <1>3, ExitStep
    <3>. QED  BY <1>1, <1>3, <3>1, ExitStep, StoreNothing
  <2>. QED  BY <2>3, <2>4 DEF Dup2FileInv, In, Holds
<1>4. CASE OnText(p) /\ D \in 0 .. Len(CallsOf(p)) - 1 /\ todo[p] # << >> /\ ~Fails(p)
           /\ call = CallsOf(p)[D + 1]
  <2>1. /\ D \in 0 .. 7
        /\ D = 0 => call = <<"open", "fd1", "hello1">>
        /\ D = 1 => call = <<"open", "fd2", "hello2">>
        /\ D = 2 => call = <<"write", "fd2", "hello">>
        /\ D = 3 => call = <<"dup2", "newfd", "fd1", "fd2">>
        /\ D = 4 => call = <<"write", "fd1", "123">>
        /\ D = 5 => call = <<"write", "newfd", "567">>
        /\ D = 6 => call = <<"close", "fd1">>
        /\ D = 7 => call = <<"close", "newfd">>
    BY <1>1, <1>4 DEF CallsOf, Text, Dup2File
  <2>2. Returns(p) => OnText("parent")' /\ Done("parent")' = D + 1
    BY <1>1, <1>4, Returned
  <2>12. /\ D \in 0 .. 4 => Holds("hello1", << >>) /\ offset.hello1 = 0
         /\ D = 5 => Holds("hello1", <<"123">>) /\ offset.hello1 = 1
         /\ D \in 6 .. 8 => Holds("hello1", <<"123", "567">>)
         /\ D \in 0 .. 2 => Holds("hello2", << >>) /\ offset.hello2 = 0
         /\ D \in 3 .. 8 => Holds("hello2", <<"hello">>)
    BY <1>1, <1>4 DEF Dup2FileInv, In
  <2>13. /\ D \in 1 .. 5 => Refers("parent", var.parent.fd1) = "hello1"
         /\ D \in 2 .. 3 => Refers("parent", var.parent.fd2) = "hello2" /\ var.parent.fd2 # var.parent.fd1
         /\ D \in 4 .. 5 => Refers("parent", var.parent.newfd) = "hello1"
    BY <1>1, <1>4 DEF Dup2FileInv, In
  <2>. HIDE DEF D, call
  <2>3. CASE D = 0
    <3>1. Open(p)
      BY <1>1, <1>4, <2>1, <2>3, OneCall DEF call
    <3>2. Refers("parent", var.parent.fd1)' = "hello1"
      BY <1>1, <1>4, <2>1, <2>3, <3>1, OpenStep DEF call, Refers
    <3>3. Returns(p) /\ UNCHANGED <<status, stdio, content, offset>>
      BY <1>1, <1>4, <3>1, OpenStep DEF buffers, files
    <3>4. /\ Holds("hello1", << >>)' /\ offset'.hello1 = 0
          /\ Holds("hello2", << >>)' /\ offset'.hello2 = 0
      BY <2>3, <2>12, <3>3 DEF Holds
    <3>. QED  BY <1>1, <2>2, <2>3, <3>2, <3>3, <3>4 DEF Dup2FileInv, In
  <2>4. CASE D = 1
    <3>1. Open(p)
      BY <1>1, <1>4, <2>1, <2>4, OneCall DEF call
    <3>2. Refers("parent", var.parent.fd2)' = "hello2" /\ Refers("parent", var.parent.fd1)' = "hello1"
          /\ var'.parent.fd2 # var'.parent.fd1
      BY <1>1, <1>4, <2>1, <2>4, <2>13, <3>1, OpenStep DEF call, Refers, Names
    <3>3. Returns(p) /\ UNCHANGED <<status, stdio, content, offset>>
      BY <1>1, <1>4, <3>1, OpenStep DEF buffers, files
    <3>4. /\ Holds("hello1", << >>)' /\ offset'.hello1 = 0
          /\ Holds("hello2", << >>)' /\ offset'.hello2 = 0
      BY <2>4, <2>12, <3>3 DEF Holds
    <3>. QED  BY <1>1, <2>2, <2>4, <3>2, <3>3, <3>4 DEF Dup2FileInv, In
  <2>5. CASE D = 2
    <3>1. Write(p)
      BY <1>1, <1>4, <2>1, <2>5, <2>13, OneCall DEF call, WritePipe, Fd, Arg
    <3>2. Store("hello2", <<"hello">>) /\ <<"hello">> \in Seq(Texts)
      BY <1>1, <1>4, <2>1, <2>5, <2>13, <3>1, WriteStep DEF call, Fd, Arg
    <3>3. Returns(p) /\ UNCHANGED <<status, stdio, fds, var>>
      BY <1>1, <1>4, <3>1, WriteStep DEF buffers
    <3>4. Holds("hello2", <<"hello">>)'
      BY <1>1, <2>5, <2>12, <3>2, StoreFirst DEF Files
    <3>5. content'.hello1 = content.hello1 /\ offset'.hello1 = offset.hello1
      <4>1. "hello1" \in Files \ {"hello2"} /\ "hello2" \in Descriptions
        BY DEF Files, Descriptions
      <4>. QED  BY <1>1, <3>2, <4>1, StoreStep
    <3>6. Holds("hello1", << >>)' /\ offset'.hello1 = 0
      BY <2>5, <2>12, <3>5 DEF Holds
    <3>7. /\ Refers("parent", var.parent.fd1)' = "hello1"
          /\ Refers("parent", var.parent.fd2)' = "hello2" /\ var'.parent.fd2 # var'.parent.fd1
      BY <2>5, <2>13, <3>3 DEF Refers
    <3>. QED  BY <1>1, <2>2, <2>5, <3>3, <3>4, <3>6, <3>7 DEF Dup2FileInv, In
  <2>6. CASE D = 3
    <3>1. Dup2(p)
      BY <1>1, <1>4, <2>1, <2>6, OneCall DEF call
    <3>2. Refers("parent", var.parent.newfd)' = "hello1" /\ Refers("parent", var.parent.fd1)' = "hello1"
      <4>1. var.parent.fd1 \in 0 .. MaxFd /\ var.parent.fd2 \in 0 .. MaxFd
            /\ var.parent.fd2 # var.parent.fd1 /\ fds.parent[var.parent.fd1] = "hello1"
            /\ Refers("parent", var.parent.fd1) = "hello1"
        BY <2>6, <2>13 DEF Refers
      <4>2. var.parent.fd2 <= MaxFd
        BY <4>1
      <4>3. /\ fds'.parent[var.parent.fd2] = "hello1" /\ fds'.parent[var.parent.fd1] = "hello1"
            /\ var'.parent.newfd = var.parent.fd2 /\ var'.parent.fd1 = var.parent.fd1
        BY <1>1, <1>4, <2>1, <2>6, <3>1, <4>1, <4>2, Dup2Step DEF call, Names
      <4>. QED  BY <4>1, <4>3 DEF Refers
    <3>3. Returns(p) /\ UNCHANGED <<status, stdio, content, offset>>
      BY <1>1, <1>4, <3>1, Dup2Step DEF buffers, files
    <3>4. Holds("hello1", << >>)' /\ offset'.hello1 = 0 /\ Holds("hello2", <<"hello">>)'
      BY <2>6, <2>12, <3>3 DEF Holds
    <3>. QED  BY <1>1, <2>2, <2>6, <3>2, <3>3, <3>4 DEF Dup2FileInv, In
  <2>7. CASE D = 4
    <3>1. Write(p)
      BY <1>1, <1>4, <2>1, <2>7, <2>13, OneCall DEF call, WritePipe, Fd, Arg
    <3>2. Store("hello1", <<"123">>) /\ <<"123">> \in Seq(Texts)
      BY <1>1, <1>4, <2>1, <2>7, <2>13, <3>1, WriteStep DEF call, Fd, Arg
    <3>3. Returns(p) /\ UNCHANGED <<status, stdio, fds, var>>
      BY <1>1, <1>4, <3>1, WriteStep DEF buffers
    <3>4. Holds("hello1", <<"123">>)' /\ offset'.hello1 = 1
      BY <1>1, <2>7, <2>12, <3>2, StoreFirst DEF Files
    <3>5. content'.hello2 = content.hello2
      <4>1. "hello2" \in Files \ {"hello1"} /\ "hello1" \in Descriptions
        BY DEF Files, Descriptions
      <4>. QED  BY <1>1, <3>2, <4>1, StoreStep
    <3>6. Holds("hello2", <<"hello">>)'
      <4>1. Holds("hello2", <<"hello">>)
        BY <2>7, <2>12
      <4>. QED  BY <3>5, <4>1, StillHolds
    <3>7. /\ Refers("parent", var.parent.fd1)' = "hello1"
          /\ Refers("parent", var.parent.newfd)' = "hello1"
      BY <2>7, <2>13, <3>3 DEF Refers
    <3>. QED  BY <1>1, <2>2, <2>7, <3>3, <3>4, <3>6, <3>7 DEF Dup2FileInv, In
  <2>8. CASE D = 5
    <3>1. Write(p)
      BY <1>1, <1>4, <2>1, <2>8, <2>13, OneCall DEF call, WritePipe, Fd, Arg
    <3>2. Store("hello1", <<"567">>) /\ <<"567">> \in Seq(Texts)
      BY <1>1, <1>4, <2>1, <2>8, <2>13, <3>1, WriteStep DEF call, Fd, Arg
    <3>3. Returns(p) /\ UNCHANGED <<status, stdio, fds, var>>
      BY <1>1, <1>4, <3>1, WriteStep DEF buffers
    <3>4. Holds("hello1", <<"123", "567">>)'
      BY <1>1, <2>8, <2>12, <3>2, StoreSecond DEF Files, Texts
    <3>5. content'.hello2 = content.hello2
      <4>1. "hello2" \in Files \ {"hello1"} /\ "hello1" \in Descriptions
        BY DEF Files, Descriptions
      <4>. QED  BY <1>1, <3>2, <4>1, StoreStep
    <3>6. Holds("hello2", <<"hello">>)'
      <4>1. Holds("hello2", <<"hello">>)
        BY <2>8, <2>12
      <4>. QED  BY <3>5, <4>1, StillHolds
    <3>. QED  BY <1>1, <2>2, <2>8, <3>3, <3>4, <3>6 DEF Dup2FileInv, In
  <2>9. CASE D \in {6, 7}
    <3>1. Close(p)
      BY <1>1, <1>4, <2>1, <2>9, OneCall DEF call
    <3>2. Returns(p) /\ UNCHANGED <<status, stdio, content, offset>>
      BY <1>1, <1>4, <3>1, CloseStep DEF buffers, files
    <3>3. Holds("hello1", <<"123", "567">>)' /\ Holds("hello2", <<"hello">>)'
      <4>1. Holds("hello1", <<"123", "567">>) /\ Holds("hello2", <<"hello">>)
        BY <2>9, <2>12
      <4>. QED  BY <3>2, <4>1, StillHolds
    <3>. QED  BY <1>1, <2>2, <2>9, <3>2, <3>3 DEF Dup2FileInv, In
  <2>. QED  BY <2>1, <2>3, <2>4, <2>5, <2>6, <2>7, <2>8, <2>9
<1>. QED  BY <1>1, <1>2, <1>3, <1>4, RunningStep DEF D, call

(* Which descriptors are free at the start. *)
LEMMA StartedClosed ==
    ASSUME Typed, NEW n \in 0 .. MaxFd
    PROVE  /\ Started(n) = "closed" <=> n \notin std
           /\ Started(n) = "stdin" <=> n = 0 /\ 0 \in std
           /\ Started(n) = "stdout" <=> n = 1 /\ 1 \in std
           /\ Started(n) \in {"closed", "stdin", "stdout", "stderr"}
           /\ n \in std => n \in {0, 1, 2}
<1>1. std \subseteq {0, 1, 2}
  BY DEF Typed, FdTypeOK, Std
<1>. QED  BY <1>1 DEF Started

(* What a descriptor was at the start does not change. *)
LEMMA SameStart ==
    ASSUME std' = std, NEW n
    PROVE  Started(n)' = Started(n)
BY DEF Started

(* There are descriptors enough for stdin, stdout and stderr. *)
LEMMA FdZeroOne == 0 \in 0 .. MaxFd /\ 1 \in 0 .. MaxFd /\ 2 \in 0 .. MaxFd /\ MaxFd \in Nat
BY FdBounds

(* dup2-stdout.c: what stdout is when the buffer is written depends on whether open()
   gave 1. *)
LEMMA Dup2StdoutKept ==
    ASSUME FdInv, NEW p \in Processes, Process(p)
    PROVE  Dup2StdoutInv'
<1>. SUFFICES ASSUME program = "dup2_stdout" PROVE Dup2StdoutInv'
  BY SameProgram DEF Dup2StdoutInv
<1>1. /\ Typed /\ Typed' /\ Course /\ Dup2StdoutInv /\ UNCHANGED <<program, std, tty>>
      /\ p = "parent" /\ status.parent = "running" /\ (GivenOne' <=> GivenOne)
  BY Alone, SameProgram, TypedStep DEF FdInv, Single, GivenOne
<1>. DEFINE D == Done("parent")
            call == todo.parent[1]
<1>2. CASE todo[p] = Failed \/ (todo[p] # << >> /\ Fails(p))
  BY <1>1, <1>2, DupFailed DEF Dup2StdoutInv
<1>3. CASE OnText(p) /\ D = Len(CallsOf(p)) /\ todo[p] = << >> /\ Exit(p)
  <2>1. D = 4
    BY <1>1, <1>3 DEF CallsOf, Text, Dup2Stdout
  <2>2. In("parent", 4, 4) /\ In("parent", 3, 4) /\ In("parent", 0, 4)
    BY <1>1, <1>3, <2>1 DEF In
  <2>3. /\ Holds("hello1", << >>) /\ offset.hello1 = 0 /\ stdio.parent = <<"hello_world">>
        /\ fds.parent[1] = IF GivenOne THEN "closed" ELSE "hello1"
    BY <1>1, <2>2 DEF Dup2StdoutInv
  <2>4. Store(Refers(p, 1), <<"hello_world">>) /\ status'.parent = "0"
    BY <1>1, <1>3, <2>3, ExitStep
  <2>5. Refers(p, 1) = IF GivenOne THEN "closed" ELSE "hello1"
    BY <1>1, <2>3, FdZeroOne DEF Refers
  <2>6. Holds("hello1", IF GivenOne THEN << >> ELSE <<"hello_world">>)'
    <3>1. CASE GivenOne
      <4>1. UNCHANGED content
        BY <2>4, <2>5, <3>1 DEF Store, files, Files
      <4>. QED  BY <1>1, <2>3, <3>1, <4>1 DEF Holds
    <3>2. CASE ~GivenOne
      <4>1. Store("hello1", <<"hello_world">>) /\ <<"hello_world">> \in Seq(Texts) /\ "hello1" \in Files
        BY <2>4, <2>5, <3>2, Lists DEF Texts, Files
      <4>2. Holds("hello1", <<"hello_world">>)'
        BY <1>1, <2>3, <4>1, StoreFirst
      <4>. QED  BY <1>1, <3>2, <4>2
    <3>. QED  BY <3>1, <3>2
  <2>. QED  BY <1>1, <2>4, <2>6 DEF Dup2StdoutInv, In
<1>4. CASE OnText(p) /\ D \in 0 .. Len(CallsOf(p)) - 1 /\ todo[p] # << >> /\ ~Fails(p)
           /\ call = CallsOf(p)[D + 1]
  <2>1. /\ D \in 0 .. 3
        /\ D = 0 => call = <<"open", "fd", "hello1">>
        /\ D = 1 => call = <<"dup2", "newfd", "fd", "STDOUT">>
        /\ D = 2 => call = <<"printf", "hello_world">>
        /\ D = 3 => call = <<"close", "fd">>
    BY <1>1, <1>4 DEF CallsOf, Text, Dup2Stdout
  <2>2. Returns(p) => OnText("parent")' /\ Done("parent")' = D + 1
    BY <1>1, <1>4, Returned
  <2>3. /\ D = 0 => AsStarted("parent", {})
        /\ D \in 1 .. 3 =>
              Refers("parent", var.parent.fd) = "hello1" /\ (var.parent.fd = 1 <=> GivenOne)
        /\ D \in 2 .. 3 => fds.parent[1] = "hello1"
        /\ D \in 0 .. 2 => stdio.parent = << >> /\ mode.parent = "new"
        /\ D = 3 => stdio.parent = <<"hello_world">>
        /\ Holds("hello1", << >>) /\ offset.hello1 = 0
    BY <1>1, <1>4, <2>1 DEF Dup2StdoutInv, In
  <2>4. ASSUME UNCHANGED <<content, offset>> PROVE Holds("hello1", << >>)' /\ offset'.hello1 = 0
    BY <2>3, <2>4, StillHolds
  <2>. HIDE DEF D, call
  <2>5. CASE D = 0
    <3>1. Open(p)
      BY <1>1, <1>4, <2>1, <2>5, OneCall DEF call
    <3>2. LET n == var'.parent.fd IN
          /\ n \in 0 .. MaxFd /\ fds.parent[n] = "closed" /\ fds'.parent[n] = "hello1"
          /\ \A m \in 0 .. MaxFd : fds.parent[m] = "closed" => n <= m
      BY <1>1, <1>4, <2>1, <2>5, <3>1, OpenStep DEF call
    <3>3. Refers("parent", var.parent.fd)' = "hello1"
      BY <3>2 DEF Refers
    <3>4. var'.parent.fd = 1 <=> GivenOne
      <4>1. \A n \in 0 .. MaxFd : fds.parent[n] = "closed" <=> n \notin std
        BY <1>1, <2>3, <2>5, StartedClosed DEF AsStarted
      <4>. HIDE DEF GivenOne
      <4>2. var'.parent.fd = 1 <=> (0 \in std /\ 1 \notin std)
        BY <3>2, <4>1, FdZeroOne
      <4>. QED  BY <4>2 DEF GivenOne
    <3>5. Returns(p) /\ UNCHANGED <<status, stdio, mode, content, offset>>
      BY <1>1, <1>4, <3>1, OpenStep DEF buffers, files
    <3>. QED  BY <1>1, <2>2, <2>3, <2>4, <2>5, <3>3, <3>4, <3>5 DEF Dup2StdoutInv, In
  <2>6. CASE D = 1
    <3>1. Dup2(p)
      BY <1>1, <1>4, <2>1, <2>6, OneCall DEF call
    <3>2. var.parent.STDOUT = 1 /\ "fd" # "newfd"
      BY <1>1 DEF Typed
    <3>3. /\ 1 <= MaxFd => fds'.parent[1] = "hello1"
          /\ \A m \in (0 .. MaxFd) \ {1} : fds'.parent[m] = fds.parent[m]
          /\ var'.parent.fd = var.parent.fd
      BY <1>1, <1>4, <2>1, <2>3, <2>6, <3>1, <3>2, Dup2Step DEF call, Names
    <3>4. fds'.parent[1] = "hello1" /\ Refers("parent", var.parent.fd)' = "hello1"
      BY <2>3, <2>6, <3>3, FdZeroOne DEF Refers
    <3>5. Returns(p) /\ UNCHANGED <<status, stdio, mode, content, offset>>
      BY <1>1, <1>4, <3>1, Dup2Step DEF buffers, files
    <3>. QED  BY <1>1, <2>2, <2>3, <2>4, <2>6, <3>3, <3>4, <3>5 DEF Dup2StdoutInv, In
  <2>7. CASE D = 2
    <3>1. Printf(p)
      BY <1>1, <1>4, <2>1, <2>7, OneCall DEF call
    <3>2. ModeOf(p) = "full"
      BY <1>1, <2>3, <2>7, FdZeroOne DEF ModeOf, Refers
    <3>3. /\ stdio'.parent = Append(<< >>, "hello_world") /\ UNCHANGED files
          /\ Returns(p) /\ UNCHANGED <<status, fds, var>>
      <4>1. ~(ModeOf(p) = "line" /\ todo[p][1][1] = "printf")
        BY <3>2
      <4>2. /\ stdio'[p] = Append(stdio[p], todo[p][1][2]) /\ UNCHANGED files
            /\ Returns(p) /\ UNCHANGED <<status, fds, var>>
        BY <1>1, <1>4, <3>1, <4>1, PrintfStep, Zenon
      <4>. QED  BY <1>1, <2>1, <2>3, <2>7, <4>2 DEF call
    <3>4. stdio'.parent = <<"hello_world">> /\ UNCHANGED <<content, offset>>
      BY <3>3 DEF files
    <3>5. Refers("parent", var.parent.fd)' = "hello1" /\ (var'.parent.fd = 1 <=> GivenOne)
          /\ fds'.parent[1] = "hello1"
      BY <2>3, <2>7, <3>3 DEF Refers
    <3>. QED  BY <1>1, <2>2, <2>4, <2>7, <3>3, <3>4, <3>5 DEF Dup2StdoutInv, In
  <2>8. CASE D = 3
    <3>1. Close(p)
      BY <1>1, <1>4, <2>1, <2>8, OneCall DEF call
    <3>2. \A n \in 0 .. MaxFd : fds'.parent[n] = IF n = var.parent.fd THEN "closed" ELSE fds.parent[n]
      BY <1>1, <1>4, <2>1, <2>8, <3>1, CloseStep DEF call, Fd, Arg
    <3>3. fds'.parent[1] = IF GivenOne THEN "closed" ELSE "hello1"
      BY <2>3, <2>8, <3>2, FdZeroOne
    <3>4. Returns(p) /\ UNCHANGED <<status, stdio, content, offset>>
      BY <1>1, <1>4, <3>1, CloseStep DEF buffers, files
    <3>. QED  BY <1>1, <2>2, <2>3, <2>4, <2>8, <3>3, <3>4 DEF Dup2StdoutInv, In
  <2>. QED  BY <2>1, <2>5, <2>6, <2>7, <2>8
<1>. QED  BY <1>1, <1>2, <1>3, <1>4, RunningStep DEF D, call

(* exec-change-fd.c: open() takes the place of stdout if 0 is not free. *)
LEMMA ChangeKept ==
    ASSUME FdInv, NEW p \in Processes, Process(p)
    PROVE  ChangeInv'
<1>. SUFFICES ASSUME program = "exec_change_fd" PROVE ChangeInv'
  BY SameProgram DEF ChangeInv
<1>1. /\ Typed /\ Typed' /\ Course /\ ChangeInv /\ UNCHANGED <<program, std, tty>>
      /\ p = "parent" /\ status.parent \in {"running", "command"}
  BY Alone, SameProgram, TypedStep DEF FdInv, Single
<1>. DEFINE D == Done("parent")
            call == todo.parent[1]
<1>2. CASE Exit(p)
  <2>1. status'.parent \in {"0", "1"}
    BY <1>1, <1>2, ExitStep
  <2>. QED  BY <2>1 DEF ChangeInv, In
<1>3. CASE status.parent = "command" /\ ~Exit(p)
  <2>1. todo[p] = << <<"printf", "hello">> >>
    BY <1>1, <1>3, OneCall DEF Course
  <2>2. todo[p] # << >> /\ todo[p][1][1] = "printf"
    BY <2>1
  <2>3. Printf(p)
    BY <2>2, OneCall
  <2>4. UNCHANGED <<status, fds>>
    BY <1>1, <2>2, <2>3, PrintfStep
  <2>. QED  BY <1>1, <1>3, <2>4 DEF ChangeInv, In
<1>4. CASE OnText(p) /\ D \in 0 .. Len(CallsOf(p)) - 1 /\ todo[p] # << >> /\ ~Exit(p)
           /\ call = CallsOf(p)[D + 1] /\ status[p] = "running"
  <2>1. /\ D \in 0 .. 5
        /\ D = 0 => call = <<"printf", "before_exec">>
        /\ D = 1 => call = <<"close", "STDOUT">>
        /\ D = 2 => call = <<"open", "fd", "new_stdout">>
        /\ D = 3 => call = <<"printf", "new_stdout_is">>
        /\ D = 4 => call = <<"exec", "python">>
        /\ D = 5 => call = <<"exit", "1">>
    BY <1>1, <1>4 DEF CallsOf, Text, ExecChangeFd
  <2>2. Returns(p) => OnText("parent")' /\ Done("parent")' = D + 1
    BY <1>1, <1>4, Returned
  <2>3. /\ D \in 0 .. 1 => AsStarted("parent", {})
        /\ D = 2 => AsStarted("parent", {1}) /\ fds.parent[1] = "closed"
        /\ D \in 3 .. 6 => IF 0 \in std THEN fds.parent[1] \in {"new_stdout", "closed"}
                                        ELSE fds.parent[1] = "closed"
    BY <1>1, <1>4 DEF ChangeInv, In
  <2>. HIDE DEF D, call
  <2>4. CASE D \in {0, 3}
    <3>1. Printf(p)
      BY <1>1, <1>4, <2>1, <2>4, OneCall DEF call
    <3>2. Returns(p) /\ UNCHANGED <<status, fds>>
      BY <1>1, <1>4, <3>1, PrintfStep
    <3>3. AsStarted("parent", {}) => AsStarted("parent", {})'
      BY <1>1, <3>2, SameStart DEF AsStarted
    <3>. QED  BY <1>1, <2>2, <2>3, <2>4, <3>2, <3>3 DEF ChangeInv, In
  <2>5. CASE D = 1
    <3>1. Close(p)
      BY <1>1, <1>4, <2>1, <2>5, OneCall DEF call
    <3>2. /\ \A n \in 0 .. MaxFd : fds'.parent[n] = IF n = 1 THEN "closed" ELSE fds.parent[n]
          /\ Returns(p) /\ UNCHANGED status
      <4>1. var.parent.STDOUT = 1
        BY <1>1 DEF Typed
      <4>. QED  BY <1>1, <1>4, <2>1, <2>5, <3>1, <4>1, CloseStep DEF call, Fd, Arg
    <3>3. (AsStarted("parent", {1}) /\ fds.parent[1] = "closed")'
      BY <1>1, <2>3, <2>5, <3>2, FdZeroOne, SameStart DEF AsStarted
    <3>. QED  BY <1>1, <2>2, <2>5, <3>2, <3>3 DEF ChangeInv, In
  <2>6. CASE D = 2
    <3>1. CASE Open(p)
      <4>1. LET n == var'.parent.fd IN
            /\ n \in 0 .. MaxFd /\ fds.parent[n] = "closed" /\ fds'.parent[n] = "new_stdout"
            /\ \A m \in 0 .. MaxFd : fds.parent[m] = "closed" => n <= m
            /\ \A m \in (0 .. MaxFd) \ {n} : fds'.parent[m] = fds.parent[m]
            /\ Returns(p) /\ UNCHANGED status
        BY <1>1, <1>4, <2>1, <2>6, <3>1, OpenStep DEF call
      <4>2. fds.parent[1] = "closed" /\ (fds.parent[0] = "closed" <=> 0 \notin std)
        <5>1. fds.parent[0] = Started(0) /\ fds.parent[1] = "closed"
          BY <2>3, <2>6, FdZeroOne DEF AsStarted
        <5>. QED  BY <1>1, <5>1, StartedClosed, FdZeroOne
      <4>3. IF 0 \in std THEN fds'.parent[1] \in {"new_stdout", "closed"}
                         ELSE fds'.parent[1] = "closed"
        BY <4>1, <4>2, FdZeroOne
      <4>. QED  BY <1>1, <2>2, <2>6, <4>1, <4>3 DEF ChangeInv, In
    <3>2. CASE Fails(p)
      <4>1. Returns(p) /\ UNCHANGED <<status, fds>>
        BY <1>1, <1>4, <3>2, FailsStep
      <4>. QED  BY <1>1, <2>2, <2>3, <2>6, <4>1 DEF ChangeInv, In
    <3>. QED  BY <1>1, <1>4, <2>1, <2>6, <3>1, <3>2, OneCall DEF call
  <2>7. CASE D = 4
    <3>1. CASE Exec(p)
      <4>1. status'.parent = "command" /\ UNCHANGED fds
        BY <1>1, <1>4, <3>1, ExecStep
      <4>. QED  BY <1>1, <2>3, <2>7, <4>1 DEF ChangeInv, In
    <3>2. CASE Fails(p)
      <4>1. Returns(p) /\ UNCHANGED <<status, fds>>
        BY <1>1, <1>4, <3>2, FailsStep
      <4>. QED  BY <1>1, <2>2, <2>3, <2>7, <4>1 DEF ChangeInv, In
    <3>. QED  BY <1>1, <1>4, <2>1, <2>7, <3>1, <3>2, OneCall DEF call
  <2>8. CASE D = 5
    BY <1>1, <1>4, <2>1, <2>8, OneCall DEF call
  <2>. QED  BY <2>1, <2>4, <2>5, <2>6, <2>7, <2>8
<1>. QED  BY <1>1, <1>2, <1>3, <1>4, RunningStep DEF D, call

-----------------------------------------------------------------------------
(* What is once in a sequence, or not at all. *)

(* Where a text is in two lists put together: where it is in one of them. *)
LEMMA OccursInBoth ==
    ASSUME NEW s \in Seq(Texts), NEW t \in Seq(Texts), NEW x
    PROVE  /\ s \o t \in Seq(Texts) /\ Len(s \o t) = Len(s) + Len(t)
           /\ \A k \in DOMAIN (s \o t) : (s \o t)[k] = x <=>
                 \/ k \in DOMAIN s /\ s[k] = x
                 \/ k - Len(s) \in DOMAIN t /\ t[k - Len(s)] = x
           /\ \A k \in DOMAIN s : k \in DOMAIN (s \o t)
           /\ \A k \in DOMAIN t : Len(s) + k \in DOMAIN (s \o t) /\ Len(s) + k \notin DOMAIN s
<1>. DEFINE u == s \o t
            m == Len(s)
            n == Len(t)
<1>1. m \in Nat /\ n \in Nat /\ DOMAIN s = 1 .. m /\ DOMAIN t = 1 .. n
  OBVIOUS
<1>2. u \in Seq(Texts) /\ Len(u) = m + n
      /\ \A k \in 1 .. m + n : u[k] = IF k <= m THEN s[k] ELSE t[k - m]
  BY ConcatProperties
<1>. HIDE DEF u, m, n
<1>3. DOMAIN u = 1 .. m + n
  BY <1>1, <1>2
<1>4. ASSUME NEW k \in DOMAIN u
      PROVE  u[k] = x <=> \/ k \in DOMAIN s /\ s[k] = x
                          \/ k - m \in DOMAIN t /\ t[k - m] = x
  <2>1. CASE k <= m
    BY <1>1, <1>2, <1>3, <1>4, <2>1
  <2>2. CASE k > m
    BY <1>1, <1>2, <1>3, <1>4, <2>2
  <2>. QED  BY <1>1, <1>3, <2>1, <2>2
<1>5. /\ \A k \in DOMAIN s : k \in DOMAIN u
      /\ \A k \in DOMAIN t : m + k \in DOMAIN u /\ m + k \notin DOMAIN s
  BY <1>1, <1>3
<1>. QED  BY <1>2, <1>4, <1>5 DEF u, m, n

(* It is there once if it is once in one of them. *)
LEMMA OccursAppended ==
    ASSUME NEW s \in Seq(Texts), NEW t \in Seq(Texts), NEW x
    PROVE  /\ NoneIn(s, x) /\ NoneIn(t, x) => NoneIn(s \o t, x)
           /\ OneIn(s, x) /\ NoneIn(t, x) => OneIn(s \o t, x)
           /\ NoneIn(s, x) /\ OneIn(t, x) => OneIn(s \o t, x)
<1>. DEFINE u == s \o t
            m == Len(s)
<1>1. /\ \A k \in DOMAIN u : u[k] = x <=>
               \/ k \in DOMAIN s /\ s[k] = x
               \/ k - m \in DOMAIN t /\ t[k - m] = x
      /\ \A k \in DOMAIN s : k \in DOMAIN u
      /\ \A k \in DOMAIN t : m + k \in DOMAIN u /\ m + k \notin DOMAIN s
  BY OccursInBoth
<1>2. m \in Nat /\ (\A k \in DOMAIN t : k \in Nat) /\ (\A k \in DOMAIN u : k \in Nat)
      /\ \A k \in DOMAIN s : k \in 1 .. m
  <2>1. u \in Seq(Texts)
    OBVIOUS
  <2>. QED  BY <2>1
<1>. HIDE DEF u, m
<1>3. ASSUME NoneIn(s, x), NoneIn(t, x) PROVE NoneIn(u, x)
  BY <1>1, <1>3 DEF NoneIn, Occurs
<1>4. ASSUME OneIn(s, x), NoneIn(t, x) PROVE OneIn(u, x)
  <2>1. PICK k \in DOMAIN s : Occurs(s, x) = {k}
    BY <1>4 DEF OneIn
  <2>2. Occurs(u, x) = {k}
    BY <1>1, <1>4, <2>1 DEF NoneIn, Occurs
  <2>. QED  BY <1>1, <2>2 DEF OneIn
<1>5. ASSUME NoneIn(s, x), OneIn(t, x) PROVE OneIn(u, x)
  <2>1. PICK k \in DOMAIN t : Occurs(t, x) = {k}
    BY <1>5 DEF OneIn
  <2>2. m + k \in DOMAIN u /\ k \in Nat /\ u[m + k] = x
    <3>1. m + k \in DOMAIN u /\ m + k - m = k /\ t[k] = x
      BY <1>1, <1>2, <2>1 DEF Occurs
    <3>. QED  BY <1>1, <1>2, <3>1
  <2>3. ASSUME NEW j \in DOMAIN u, u[j] = x PROVE j = m + k
    <3>1. j \notin DOMAIN s \/ s[j] # x
      BY <1>5 DEF NoneIn, Occurs
    <3>2. j - m \in DOMAIN t /\ t[j - m] = x
      BY <1>1, <2>3, <3>1
    <3>3. j - m = k
      BY <2>1, <3>2 DEF Occurs
    <3>. QED  BY <1>2, <2>2, <3>3
  <2>4. Occurs(u, x) = {m + k}
    BY <2>2, <2>3 DEF Occurs
  <2>. QED  BY <2>2, <2>4 DEF OneIn
<1>. QED  BY <1>3, <1>4, <1>5 DEF u

(* A list of one text. *)
LEMMA OccursSingle ==
    ASSUME NEW x
    PROVE  /\ NoneIn(<< >>, x) /\ OneIn(<<x>>, x)
           /\ \A y : y # x => NoneIn(<<y>>, x)
BY DEF NoneIn, OneIn, Occurs

(* One more text. *)
LEMMA AppendJoins ==
    ASSUME NEW s \in Seq(Texts), NEW y \in Texts
    PROVE  Append(s, y) = s \o <<y>>
BY AppendIsConcat

(* Written where a file ends, a text is appended. *)
LEMMA StoreAppends ==
    ASSUME Typed, NEW f \in Files, NEW t \in Seq(Texts), Store(f, t), offset[f] = Len(content[f])
    PROVE  content'[f] = content[f] \o t /\ offset'[f] = Len(content'[f])
<1>. DEFINE u == content'[f]
            c == content[f]
            v == c \o t
<1>1. f \in Descriptions \cup {"closed"} /\ c \in Seq(Texts) /\ Len(c) \in Nat /\ Len(t) \in Nat
  BY DEF Descriptions, Typed
<1>2. /\ u \in Seq(Texts) /\ offset'[f] = Len(c) + Len(t)
      /\ Len(u) = IF Len(c) + Len(t) <= Len(c) THEN Len(c) ELSE Len(c) + Len(t)
      /\ \A k \in 1 .. Len(u) : u[k] = IF k <= Len(c) THEN c[k]
                                       ELSE IF k <= Len(c) + Len(t) THEN t[k - Len(c)]
                                       ELSE c[k]
  BY <1>1, StoreStep
<1>3. v \in Seq(Texts) /\ Len(v) = Len(c) + Len(t)
      /\ \A k \in 1 .. Len(c) + Len(t) : v[k] = IF k <= Len(c) THEN c[k] ELSE t[k - Len(c)]
  BY <1>1, ConcatProperties
<1>. HIDE DEF u, c, v
<1>4. Len(u) = Len(c) + Len(t)
  BY <1>1, <1>2
<1>5. ASSUME NEW k \in 1 .. Len(u) PROVE u[k] = v[k]
  <2>1. k \in 1 .. Len(c) + Len(t)
    BY <1>4
  <2>2. CASE k <= Len(c)
    BY <1>2, <1>3, <2>1, <2>2
  <2>3. CASE k > Len(c)
    <3>1. ~(k <= Len(c)) /\ k <= Len(c) + Len(t)
      BY <1>1, <2>1, <2>3
    <3>2. u[k] = t[k - Len(c)]
      BY <1>2, <3>1
    <3>3. v[k] = t[k - Len(c)]
      BY <1>3, <2>1, <3>1
    <3>. QED  BY <3>2, <3>3
  <2>. QED  BY <1>1, <2>1, <2>2, <2>3
<1>6. u = v
  BY <1>2, <1>3, <1>4, <1>5, SeqEqual
<1>. QED  BY <1>2, <1>4, <1>6 DEF u, v, c

(* What is not written does not come into a file. *)
LEMMA StoreAvoids ==
    ASSUME Typed, NEW d \in Descriptions \cup {"closed"}, NEW t \in Seq(Texts), Store(d, t),
           NEW f \in Files, NEW x, NoneIn(content[f], x), NoneIn(t, x)
    PROVE  NoneIn(content[f], x)'
<1>1. CASE f # d
  BY <1>1, StoreStep DEF NoneIn, Occurs
<1>2. CASE f = d
  <2>. DEFINE u == content'[f]
              c == content[f]
              o == offset[f]
  <2>1. c \in Seq(Texts) /\ Len(c) \in Nat /\ Len(t) \in Nat /\ o \in 0 .. Len(c)
    BY DEF Typed, FdTypeOK
  <2>2. /\ u \in Seq(Texts)
        /\ Len(u) = IF o + Len(t) <= Len(c) THEN Len(c) ELSE o + Len(t)
        /\ \A k \in 1 .. Len(u) : u[k] = IF k <= o THEN c[k]
                                         ELSE IF k <= o + Len(t) THEN t[k - o]
                                         ELSE c[k]
    BY <1>2, StoreStep
  <2>. HIDE DEF u, c, o
  <2>3. /\ \A k \in 1 .. Len(c) : c[k] # x
        /\ \A k \in 1 .. Len(t) : t[k] # x
    BY <2>1 DEF NoneIn, Occurs, c
  <2>4. ASSUME NEW k \in 1 .. Len(u) PROVE u[k] # x
    <3>1. CASE k <= o
      BY <2>1, <2>2, <2>3, <3>1
    <3>2. CASE k > o /\ k <= o + Len(t)
      <4>1. k - o \in 1 .. Len(t)
        BY <2>1, <3>2
      <4>2. u[k] = t[k - o]
        BY <2>1, <2>2, <3>2
      <4>. QED  BY <2>3, <4>1, <4>2
    <3>3. CASE k > o + Len(t)
      BY <2>1, <2>2, <2>3, <3>3
    <3>. QED  BY <2>1, <3>1, <3>2, <3>3
  <2>5. DOMAIN u = 1 .. Len(u)
    BY <2>2
  <2>. QED  BY <2>4, <2>5 DEF NoneIn, Occurs, u
<1>. QED  BY <1>1, <1>2

(* The programs that run another one, up to there. *)
ExecPrograms == {"exec_simple", "exec_change_fd"}

(* All that ExecInv says once the line was printed. *)
ExecPrinted ==
    /\ offset.stdout = Len(content.stdout)
    /\ \A f \in Files \ {"stdout"} : NoneIn(content[f], "before_exec")
    /\ IF tty THEN OneIn(content.stdout, "before_exec") ELSE NoneIn(content.stdout, "before_exec")

(* It still holds when something else is written. *)
LEMMA ExecStore ==
    ASSUME Typed, ExecPrinted, tty' = tty, NEW d \in Descriptions \cup {"closed"},
           NEW t \in Seq(Texts), Store(d, t), NoneIn(t, "before_exec")
    PROVE  ExecPrinted'
<1>1. "stdout" \in Files
  BY DEF Files
<1>2. \A f \in Files \ {"stdout"} : NoneIn(content[f], "before_exec")'
  BY StoreAvoids DEF ExecPrinted
<1>3. CASE d = "stdout"
  <2>1. content'.stdout = content.stdout \o t /\ offset'.stdout = Len(content'.stdout)
    BY <1>1, <1>3, StoreAppends DEF ExecPrinted
  <2>2. content.stdout \in Seq(Texts)
    BY <1>1 DEF Typed
  <2>3. IF tty THEN OneIn(content'.stdout, "before_exec") ELSE NoneIn(content'.stdout, "before_exec")
    BY <2>1, <2>2, OccursAppended DEF ExecPrinted
  <2>. QED  BY <1>2, <2>1, <2>3 DEF ExecPrinted
<1>4. CASE d # "stdout"
  <2>1. content'.stdout = content.stdout /\ offset'.stdout = offset.stdout
    BY <1>1, <1>4, StoreStep
  <2>2. IF tty THEN OneIn(content'.stdout, "before_exec") ELSE NoneIn(content'.stdout, "before_exec")
    BY <2>1 DEF ExecPrinted
  <2>. QED  BY <1>2, <2>1, <2>2 DEF ExecPrinted
<1>. QED  BY <1>3, <1>4

(* What there is when it has not been printed yet. *)
LEMMA ExecBefore ==
    ASSUME Typed, ExecInv, program \in ExecPrograms, 1 \in std, In("parent", 0, 0)
    PROVE  /\ mode.parent = "new" /\ stdio.parent = << >> /\ Refers("parent", 1) = "stdout"
           /\ offset.stdout = Len(content.stdout)
           /\ \A f \in Files : NoneIn(content[f], "before_exec")
<1>1. status.parent = "running"
  BY DEF In
<1>. QED  BY <1>1, FdZeroOne DEF ExecInv, ExecPrograms, Refers

(* What is known once before_exec has been printed. *)
LEMMA ExecAfter ==
    ASSUME Typed, ExecInv, program \in ExecPrograms, 1 \in std,
           In("parent", 1, 6) \/ status.parent = "command"
    PROVE  /\ ExecPrinted
           /\ tty \/ status.parent = "command" => NoneIn(stdio.parent, "before_exec")
           /\ tty /\ status.parent = "running" => mode.parent = "line"
<1>1. status.parent \in {"running", "command"}
  BY DEF In
<1>2. ExecPrinted
  BY <1>1 DEF ExecInv, ExecPrograms, ExecPrinted
<1>3. In("parent", 1, 6) => ~In("parent", 0, 0)
  BY DEF In
<1>. QED  BY <1>1, <1>2, <1>3 DEF ExecInv, ExecPrograms

(* What there is to show of a step after that. *)
LEMMA ExecSet ==
    ASSUME program \in ExecPrograms, program' = program, std' = std, tty' = tty, ExecPrinted',
           ~In("parent", 0, 0)',
           tty \/ status'.parent = "command" => NoneIn(stdio.parent, "before_exec")',
           status'.parent = "running" => todo'.parent # << >>,
           status'.parent = "running" /\ tty => mode'.parent = "line"
    PROVE  ExecInv'
BY DEF ExecInv, ExecPrinted, ExecPrograms

(* exec-simple.c and exec-change-fd.c: the line comes out at once or never. *)
LEMMA ExecKept ==
    ASSUME FdInv, NEW p \in Processes, Process(p)
    PROVE  ExecInv'
<1>. SUFFICES ASSUME program \in ExecPrograms, 1 \in std PROVE ExecInv'
  BY SameProgram DEF ExecInv, ExecPrograms
<1>1. /\ Typed /\ Typed' /\ Course /\ ExecInv /\ ChangeInv /\ UNCHANGED <<program, std, tty>>
      /\ p = "parent" /\ status.parent \in {"running", "command"}
  BY Alone, SameProgram, TypedStep DEF FdInv, Single, ExecPrograms
<1>. DEFINE D == Done("parent")
            call == todo.parent[1]
            b == "before_exec"
<1>2. offset.stdout = Len(content.stdout) /\ (status.parent = "running" => todo.parent # << >>)
  BY <1>1 DEF ExecInv, ExecPrograms
<1>3. CASE status.parent = "running" /\ Exit(p)
  <2>1. /\ todo[p] # << >> /\ status'.parent = todo[p][1][2] /\ todo[p][1][1] = "exit"
        /\ Refers(p, 1) \in Descriptions \cup {"closed"} /\ Store(Refers(p, 1), stdio[p])
    BY <1>1, <1>2, <1>3, ExitStep
  <2>2. todo[p][1][2] = "1"
    <3>1. CASE todo[p] = Failed
      BY <3>1 DEF Failed
    <3>2. CASE OnText(p) /\ D \in 0 .. Len(CallsOf(p)) - 1 /\ call = CallsOf(p)[D + 1]
      <4>1. \A k \in 1 .. Len(CallsOf(p)) : CallsOf(p)[k][1] = "exit" => CallsOf(p)[k][2] = "1"
        <5>1. CASE program = "exec_simple"
          BY <1>1, <5>1 DEF CallsOf, Text, ExecSimple
        <5>2. CASE program = "exec_change_fd"
          BY <1>1, <5>2 DEF CallsOf, Text, ExecChangeFd
        <5>. QED  BY <5>1, <5>2 DEF ExecPrograms
      <4>2. D + 1 \in 1 .. Len(CallsOf(p))
        <5>1. Len(CallsOf(p)) \in Nat
          BY <1>1, CallsOfTyped
        <5>. QED  BY <3>2, <5>1
      <4>. QED  BY <1>1, <2>1, <3>2, <4>1, <4>2
    <3>. QED  BY <1>1, <1>3, <2>1, <3>1, <3>2, RunningStep
  <2>3. offset'.stdout = Len(content'.stdout)
    <3>1. "stdout" \in Files /\ stdio[p] \in Seq(Texts)
      BY <1>1 DEF Files, Typed
    <3>2. CASE Refers(p, 1) = "stdout"
      BY <1>1, <1>2, <2>1, <3>1, <3>2, StoreAppends
    <3>3. CASE Refers(p, 1) # "stdout"
      <4>1. content'.stdout = content.stdout /\ offset'.stdout = offset.stdout
        BY <1>1, <2>1, <3>1, <3>3, StoreStep
      <4>. QED  BY <1>2, <4>1
    <3>. QED  BY <3>2, <3>3
  <2>4. status'.parent = "1"
    BY <2>1, <2>2
  <2>. QED  BY <1>1, <2>3, <2>4 DEF ExecInv, In
<1>4. CASE status.parent = "command" /\ Exit(p)
  <2>1. ExecPrinted /\ NoneIn(stdio.parent, b)
    BY <1>1, <1>4, ExecAfter
  <2>2. /\ todo[p] = << >> /\ status'.parent = "0" /\ stdio'.parent = << >>
        /\ Refers(p, 1) \in Descriptions \cup {"closed"} /\ Store(Refers(p, 1), stdio[p])
    <3>1. todo[p] = << >> \/ todo[p] = << <<"printf", "hello">> >>
      BY <1>1, <1>4 DEF Course
    <3>2. todo[p] = << >> \/ todo[p][1][1] = "printf"
      BY <3>1
    <3>. QED  BY <1>1, <1>4, <3>2, ExitStep
  <2>3. stdio[p] \in Seq(Texts)
    BY <1>1 DEF Typed
  <2>4. ExecPrinted'
    BY <1>1, <2>1, <2>2, <2>3, ExecStore
  <2>. QED  BY <1>1, <2>2, <2>4, ExecSet, OccursSingle DEF In
<1>5. CASE status.parent = "command" /\ ~Exit(p)
  <2>1. ExecPrinted /\ NoneIn(stdio.parent, b)
    BY <1>1, <1>5, ExecAfter
  <2>2. todo[p] # << >> /\ todo[p][1] = <<"printf", "hello">>
    <3>1. todo[p] = << <<"printf", "hello">> >>
      BY <1>1, <1>5, OneCall DEF Course
    <3>. QED  BY <3>1
  <2>3. Printf(p)
    BY <2>2, OneCall
  <2>4. UNCHANGED status
    BY <1>1, <2>2, <2>3, PrintfStep
  <2>5. stdio.parent \in Seq(Texts) /\ "hello" \in Texts /\ <<"hello">> \in Seq(Texts)
        /\ NoneIn(<<"hello">>, b)
    <3>1. stdio.parent \in Seq(Texts) /\ "hello" \in Texts
      BY <1>1 DEF Typed, Texts, Processes
    <3>2. <<"hello">> \in Seq(Texts)
      BY <3>1, Lists
    <3>3. "hello" # b
      OBVIOUS
    <3>4. NoneIn(<<"hello">>, b)
      BY <3>3, OccursSingle
    <3>. QED  BY <3>1, <3>2, <3>4
  <2>6. CASE ModeOf(p) = "line"
    <3>1. Store(Refers(p, 1), <<"hello">>) /\ stdio' = stdio
      BY <1>1, <2>2, <2>3, <2>6, PrintfStep
    <3>2. ExecPrinted'
      BY <1>1, <2>1, <2>5, <3>1, RefersTyped, ExecStore
    <3>. QED  BY <1>1, <1>5, <2>1, <2>4, <3>1, <3>2, ExecSet DEF In
  <2>7. CASE ModeOf(p) # "line"
    <3>1. stdio'.parent = Append(stdio.parent, "hello") /\ UNCHANGED <<content, offset>>
      BY <1>1, <2>2, <2>3, <2>7, PrintfBuffered
    <3>2. NoneIn(stdio'.parent, b)
      BY <2>1, <2>5, <3>1, AppendJoins, OccursAppended
    <3>3. ExecPrinted'
      BY <1>1, <2>1, <3>1 DEF ExecPrinted
    <3>. QED  BY <1>1, <1>5, <2>4, <3>2, <3>3, ExecSet DEF In
  <2>. QED  BY <2>6, <2>7
<1>6. CASE OnText(p) /\ D \in 0 .. Len(CallsOf(p)) - 1 /\ todo[p] # << >> /\ ~Exit(p)
           /\ call = CallsOf(p)[D + 1] /\ status[p] = "running"
  <2>1. /\ D \in 0 .. Len(CallsOf(p)) - 2 /\ Len(CallsOf(p)) \in 2 .. 6
        /\ D = 0 => call = <<"printf", "before_exec">>
        /\ D # 0 => call \in {<<"exec", "python">>, <<"close", "STDOUT">>,
                              <<"open", "fd", "new_stdout">>, <<"printf", "new_stdout_is">>}
    <3>1. call # <<"exit", "1">>
      BY <1>6, OneCall, <1>1
    <3>2. CASE program = "exec_simple"
      BY <1>1, <1>6, <3>1, <3>2 DEF CallsOf, Text, ExecSimple
    <3>3. CASE program = "exec_change_fd"
      BY <1>1, <1>6, <3>1, <3>3 DEF CallsOf, Text, ExecChangeFd
    <3>. QED  BY <3>2, <3>3 DEF ExecPrograms
  <2>12. D \in 0 .. 4 /\ Len(CallsOf("parent")) \in 2 .. 6 /\ D <= Len(CallsOf("parent")) - 2
    <3>. DEFINE n == Len(CallsOf(p))
    <3>1. n \in 2 .. 6 /\ D \in 0 .. n - 2
      BY <2>1
    <3>2. n = Len(CallsOf("parent"))
      BY <1>1
    <3>. HIDE DEF D, n
    <3>3. D \in 0 .. 4 /\ n \in 2 .. 6 /\ D <= n - 2
      BY <3>1
    <3>. QED  BY <3>2, <3>3
  <2>2. Returns(p) => OnText("parent")' /\ Done("parent")' = D + 1 /\ todo'.parent # << >>
    <3>1. Returns(p) => OnText("parent")' /\ Done("parent")' = D + 1
      BY <1>1, <1>6, Returned
    <3>2. CallsOf("parent")' = CallsOf("parent")
      BY <1>1 DEF CallsOf
    <3>4. Done("parent")' = Len(CallsOf("parent")) - Len(todo'.parent)
      BY <3>2 DEF Done
    <3>3. Returns(p) => Len(todo'.parent) # 0
      BY <2>12, <3>1, <3>4
    <3>. QED  BY <3>1, <3>3
  <2>3. D \in 1 .. 6 => In("parent", 1, 6)
    BY <1>1, <1>6 DEF In
  <2>4. D = 0 => In("parent", 0, 0)
    BY <1>1, <1>6 DEF In
  <2>5. ASSUME D # 0, UNCHANGED <<status, stdio, mode, content, offset>>, todo'.parent # << >>,
               OnText("parent")' => Done("parent")' # 0
        PROVE  ExecInv'
    <3>0. In("parent", 1, 6)
      BY <2>3, <2>5, <2>12
    <3>1. /\ ExecPrinted /\ (tty => NoneIn(stdio.parent, b)) /\ (tty => mode.parent = "line")
      BY <1>1, <1>6, <3>0, ExecAfter
    <3>2. ExecPrinted'
      BY <1>1, <2>5, <3>1 DEF ExecPrinted
    <3>3. ~In("parent", 0, 0)'
      BY <2>5 DEF In
    <3>. QED  BY <1>1, <1>6, <2>5, <3>1, <3>2, <3>3, ExecSet
  <2>. HIDE DEF D, call
  <2>6. CASE D = 0
    <3>1. Printf(p) /\ todo[p][1][1] = "printf" /\ todo[p][1][2] = b
      BY <1>1, <1>6, <2>1, <2>6, OneCall DEF call
    <3>2. /\ mode.parent = "new" /\ stdio.parent = << >> /\ Refers("parent", 1) = "stdout"
          /\ offset.stdout = Len(content.stdout)
          /\ \A f \in Files : NoneIn(content[f], b)
      BY <1>1, <2>4, <2>6, ExecBefore
    <3>3. ModeOf(p) = IF tty THEN "line" ELSE "full"
      BY <1>1, <3>2 DEF ModeOf
    <3>4. Returns(p) /\ UNCHANGED status /\ mode'.parent = ModeOf(p)
      BY <1>1, <1>6, <3>1, PrintfStep
    <3>5. ~In("parent", 0, 0)' /\ todo'.parent # << >>
      BY <2>2, <2>6, <3>4 DEF In
    <3>6. "stdout" \in Files /\ content.stdout \in Seq(Texts) /\ <<b>> \in Seq(Texts)
      BY <1>1, Lists DEF Files, Typed, Texts
    <3>7. CASE tty
      <4>1. Store("stdout", <<b>>) /\ stdio'.parent = << >>
        BY <1>1, <1>6, <3>1, <3>2, <3>3, <3>7, PrintfStep
      <4>2. content'.stdout = content.stdout \o <<b>> /\ offset'.stdout = Len(content'.stdout)
        BY <1>1, <3>2, <3>6, <4>1, StoreAppends
      <4>3. OneIn(content'.stdout, b)
        <5>1. NoneIn(content.stdout, b) /\ OneIn(<<b>>, b)
          BY <3>2, <3>6, OccursSingle
        <5>. QED  BY <3>6, <4>2, <5>1, OccursAppended
      <4>4. \A f \in Files \ {"stdout"} : content'[f] = content[f]
        BY <1>1, <3>6, <4>1, StoreStep DEF Descriptions
      <4>5. ExecPrinted'
        BY <1>1, <3>2, <3>7, <4>2, <4>3, <4>4 DEF ExecPrinted
      <4>. QED  BY <1>1, <1>6, <3>3, <3>4, <3>5, <3>7, <4>1, <4>5, ExecSet, OccursSingle
    <3>8. CASE ~tty
      <4>1. UNCHANGED <<content, offset>>
        BY <1>1, <1>6, <3>1, <3>3, <3>8, PrintfStep DEF files
      <4>2. ExecPrinted'
        BY <1>1, <3>2, <3>6, <3>8, <4>1 DEF ExecPrinted
      <4>. QED  BY <1>1, <1>6, <3>4, <3>5, <3>8, <4>2, ExecSet
    <3>. QED  BY <3>7, <3>8
  <2>7. CASE D # 0 /\ call[1] = "printf"
    <3>1. Printf(p) /\ todo[p][1] = <<"printf", "new_stdout_is">>
      BY <1>1, <1>6, <2>1, <2>7, OneCall DEF call
    <3>2. /\ ExecPrinted /\ (tty => NoneIn(stdio.parent, b)) /\ (tty => mode.parent = "line")
      <4>1. In("parent", 1, 6)
        BY <2>3, <2>7, <2>12
      <4>. QED  BY <1>1, <1>6, <4>1, ExecAfter
    <3>3. Returns(p) /\ UNCHANGED status /\ mode'.parent = ModeOf(p)
      BY <1>1, <1>6, <3>1, PrintfStep
    <3>4. ~In("parent", 0, 0)' /\ todo'.parent # << >>
      BY <2>1, <2>2, <2>7, <3>3 DEF In
    <3>5. stdio.parent \in Seq(Texts) /\ "new_stdout_is" \in Texts /\ <<"new_stdout_is">> \in Seq(Texts)
          /\ NoneIn(<<"new_stdout_is">>, b)
      <4>1. stdio.parent \in Seq(Texts) /\ "new_stdout_is" \in Texts
        BY <1>1 DEF Typed, Texts, Processes
      <4>2. <<"new_stdout_is">> \in Seq(Texts)
        BY <4>1, Lists
      <4>3. "new_stdout_is" # b
        OBVIOUS
      <4>4. NoneIn(<<"new_stdout_is">>, b)
        BY <4>3, OccursSingle
      <4>. QED  BY <4>1, <4>2, <4>4
    <3>6. tty => mode'.parent = "line"
      BY <1>1, <3>2, <3>3 DEF ModeOf
    <3>7. CASE ModeOf(p) = "line"
      <4>1. Store(Refers(p, 1), <<"new_stdout_is">>) /\ stdio' = stdio
        BY <1>1, <1>6, <3>1, <3>7, PrintfStep
      <4>2. ExecPrinted'
        BY <1>1, <3>2, <3>5, <4>1, RefersTyped, ExecStore
      <4>. QED  BY <1>1, <1>6, <3>2, <3>3, <3>4, <3>6, <4>1, <4>2, ExecSet
    <3>8. CASE ModeOf(p) # "line"
      <4>1. stdio'.parent = Append(stdio.parent, "new_stdout_is") /\ UNCHANGED <<content, offset>>
        BY <1>1, <1>6, <3>1, <3>8, PrintfBuffered
      <4>2. tty => NoneIn(stdio'.parent, b)
        BY <3>2, <3>5, <4>1, AppendJoins, OccursAppended
      <4>3. ExecPrinted'
        BY <1>1, <3>2, <4>1 DEF ExecPrinted
      <4>. QED  BY <1>1, <1>6, <3>3, <3>4, <3>6, <4>2, <4>3, ExecSet
    <3>. QED  BY <3>7, <3>8
  <2>8. CASE call[1] = "close"
    <3>1. Close(p)
      BY <1>1, <1>6, <2>8, OneCall DEF call
    <3>2. Returns(p) /\ UNCHANGED <<status, stdio, mode, content, offset>>
      BY <1>1, <1>6, <3>1, CloseStep DEF buffers, files
    <3>. QED  BY <2>1, <2>2, <2>5, <2>8, <3>2
  <2>9. CASE call[1] = "open" /\ Open(p)
    <3>2. Returns(p) /\ UNCHANGED <<status, stdio, mode, content, offset>>
      BY <1>1, <1>6, <2>9, OpenStep DEF buffers, files
    <3>. QED  BY <2>1, <2>2, <2>5, <2>9, <3>2
  <2>10. CASE call[1] \in {"open", "exec"} /\ Fails(p)
    <3>1. UNCHANGED <<status, stdio, mode, content, offset>> /\ (Returns(p) \/ todo'[p] = Failed)
      BY <1>1, <1>6, <2>10, FailsStep DEF buffers, files
    <3>2. CASE Returns(p)
      BY <2>1, <2>2, <2>5, <2>10, <3>1, <3>2
    <3>3. CASE todo'[p] = Failed
      <4>1. OnText("parent")' => Done("parent")' = Len(CallsOf(p)) - 1
        BY <1>1, <3>3, NoReturn
      <4>2. todo'.parent # << >>
        <5>1. Failed # << >>
          BY DEF Failed
        <5>. QED  BY <1>1, <3>3, <5>1, Zenon
      <4>. QED  BY <2>1, <2>5, <2>10, <3>1, <4>1, <4>2
    <3>. QED  BY <3>1, <3>2, <3>3
  <2>11. CASE call[1] = "exec" /\ Exec(p)
    <3>1. status'.parent = "command" /\ stdio'.parent = << >> /\ UNCHANGED <<content, offset>>
      BY <1>1, <1>6, <2>11, ExecStep DEF files
    <3>2. ExecPrinted
      <4>1. D # 0
        BY <2>1, <2>11
      <4>2. In("parent", 1, 6)
        BY <2>3, <2>12, <4>1
      <4>. QED  BY <1>1, <4>2, ExecAfter
    <3>3. ExecPrinted'
      BY <1>1, <3>1, <3>2 DEF ExecPrinted
    <3>. QED  BY <1>1, <3>1, <3>3, ExecSet, OccursSingle DEF In
  <2>. QED
    <3>1. \/ D = 0
          \/ D # 0 /\ call[1] \in {"exec", "close", "open", "printf"}
      BY <2>1
    <3>2. call[1] = "open" => Open(p) \/ Fails(p)
      BY <1>1, <1>6, OneCall DEF call
    <3>3. call[1] = "exec" => Exec(p) \/ Fails(p)
      BY <1>1, <1>6, OneCall DEF call
    <3>. QED  BY <2>6, <2>7, <2>8, <2>9, <2>10, <2>11, <3>1, <3>2, <3>3
<1>. QED
  <2>1. status.parent = "running" /\ ~Exit(p) =>
           OnText(p) /\ D \in 0 .. Len(CallsOf(p)) - 1 /\ todo[p] # << >> /\ call = CallsOf(p)[D + 1]
    BY <1>1, RunningStep
  <2>. QED  BY <1>1, <1>3, <1>4, <1>5, <1>6, <2>1

-----------------------------------------------------------------------------
(* pipe-launch.c *)

(* What is known of a process stays true while the other one goes on. *)
LEMMA PipeMadeStays ==
    ASSUME NEW p, PipeMade(p), std' = std, fds'[p] = fds[p], var'[p] = var[p]
    PROVE  PipeMade(p)'
<1>1. AsStarted(p, {0, var[p].READ, var[p].WRITE})'
  BY SameStart DEF AsStarted, PipeMade
<1>. QED  BY <1>1 DEF PipeMade

(* The descriptors of the child stay as they are. *)
LEMMA AsGivenStays ==
    ASSUME std' = std, fds'.child = fds.child, var'.child = var.child
    PROVE  /\ AsGiven({1}) => AsGiven({1})'
           /\ AsGiven({var.child.WRITE}) => AsGiven({var.child.WRITE})'
           /\ AsGiven({1, var.child.WRITE}) => AsGiven({1, var.child.WRITE})'
<1>1. \A n : Started(n)' = Started(n)
  BY SameStart
<1>2. AsGiven({1}) => AsGiven({1})'
  BY <1>1 DEF AsGiven
<1>3. AsGiven({var.child.WRITE}) => AsGiven({var.child.WRITE})'
  BY <1>1 DEF AsGiven
<1>4. AsGiven({1, var.child.WRITE}) => AsGiven({1, var.child.WRITE})'
  BY <1>1 DEF AsGiven
<1>. QED  BY <1>2, <1>3, <1>4

(* A step of the parent that leaves the child alone. *)
LEMMA ChildUntouched ==
    ASSUME ChildLaunch, program' = program, std' = std, fds'.child = fds.child,
           var'.child = var.child, todo'.child = todo.child, stdio'.child = stdio.child,
           status'.child \in {status.child, "reaped"}
    PROVE  ChildLaunch'
<1>1. "child" \in Processes
  BY DEF Processes
<1>2. ASSUME NEW k \in 0 .. 3, In("child", k, k)' PROVE In("child", k, k)
  <2>1. status'.child = "running"
    BY <1>2 DEF In
  <2>. QED  BY <1>1, <1>2, <2>1, Stays
<1>3. In("child", 1, 2)' => In("child", 1, 2)
  <2>1. In("child", 1, 2)' => status'.child = "running"
    BY DEF In
  <2>. QED  BY <1>1, <2>1, Stays
<1>4. In("child", 0, 0)' => PipeMade("child")'
  BY <1>2, PipeMadeStays DEF ChildLaunch
<1>5. In("child", 1, 2)' =>
          /\ var'.child.READ < var'.child.WRITE /\ var'.child.WRITE <= MaxFd
          /\ var'.child.READ \notin std /\ var'.child.WRITE \notin std
          /\ fds'.child[var'.child.WRITE] = "pipeW"
  BY <1>3 DEF ChildLaunch
<1>6. In("child", 1, 1)' => AsGiven({var.child.WRITE})'
  BY <1>2, AsGivenStays DEF ChildLaunch
<1>7. In("child", 2, 2)' => fds'.child[1] = "pipeW" /\ AsGiven({1, var.child.WRITE})'
  BY <1>2, AsGivenStays DEF ChildLaunch
<1>8. In("child", 3, 3)' \/ status'.child = "command" =>
          AsGiven({1})' /\ (std \cap {0, 1} # {} => fds'.child[1] = "pipeW")
  BY <1>2, AsGivenStays DEF ChildLaunch
<1>. QED  BY <1>4, <1>5, <1>6, <1>7, <1>8 DEF ChildLaunch

(* A step of the child leaves the parent where it is. *)
LEMMA ParentUntouched ==
    ASSUME ParentLaunch, program' = program, std' = std, fds'.parent = fds.parent,
           var'.parent = var.parent, todo'.parent = todo.parent, stdio'.parent = stdio.parent,
           status'.parent = status.parent
    PROVE  ParentLaunch'
<1>1. "parent" \in Processes
  BY DEF Processes
<1>2. \A lo, hi \in Nat : In("parent", lo, hi)' <=> In("parent", lo, hi)
  BY <1>1, Stays
<1>3. \A n : Started(n)' = Started(n)
  BY SameStart
<1>4. In("parent", 0, 0)' => AsStarted("parent", {})'
  BY <1>2, <1>3 DEF ParentLaunch, AsStarted
<1>5. In("parent", 1, 2)' =>
          /\ Refers("parent", var.parent.in)' = "input" /\ var'.parent.in \notin std
          /\ 0 \notin std => var'.parent.in = 0
          /\ AsStarted("parent", {0, var.parent.in})'
  BY <1>2, <1>3 DEF ParentLaunch, AsStarted, Refers
<1>6. In("parent", 3, 3)' => AsStarted("parent", {0})' /\ (0 \notin std => fds'.parent[0] = "closed")
  BY <1>2, <1>3 DEF ParentLaunch, AsStarted
<1>7. In("parent", 4, 5)' => PipeMade("parent")'
  BY <1>2, PipeMadeStays DEF ParentLaunch
<1>8. In("parent", 6, 10)' => NoWriteEnd("parent")'
  BY <1>2 DEF ParentLaunch, NoWriteEnd
<1>9. /\ In("parent", 2, 3)' /\ 0 \in std => fds'.parent[0] = "input"
      /\ In("parent", 6, 8)' => var'.parent.READ \notin std
      /\ In("parent", 0, 9)' => stdio'.parent = << >>
  BY <1>2 DEF ParentLaunch
<1>10. /\ 1 \in std /\ status'.parent = "running" => fds'.parent[1] = "stdout"
       /\ "total_count" \in {stdio'.parent[k] : k \in DOMAIN stdio'.parent} => In("parent", 10, 10)'
  BY <1>2 DEF ParentLaunch
<1>. QED  BY <1>4, <1>5, <1>6, <1>7, <1>8, <1>9, <1>10 DEF ParentLaunch

(* The parent. *)
LEMMA LaunchParentKept ==
    ASSUME FdInv, Process("parent"), program = "pipe_launch"
    PROVE  ParentLaunch' /\ ChildLaunch' /\ BothLaunch'
<1>. DEFINE p == "parent"
            D == Done("parent")
            call == todo.parent[1]
<1>1. /\ Typed /\ Typed' /\ Course /\ ParentLaunch /\ ChildLaunch /\ BothLaunch
      /\ UNCHANGED <<program, std, tty>> /\ "parent" \in Processes /\ "child" \in Processes
      /\ Processes \ {"parent"} = {"child"}
  BY SameProgram, TypedStep DEF FdInv, LaunchInv, Processes
<1>2. status.parent = "running"
  <2>1. ~Ended("parent")
    BY <1>1, OneCall
  <2>. QED  BY <1>1, <2>1 DEF Course, Ended
<1>3. CASE Exit("parent")
  <2>1. /\ status'.parent \in {"0", "1"} /\ stdio'.parent = << >>
        /\ fds'.child = fds.child /\ var'.child = var.child /\ todo'.child = todo.child
        /\ stdio'.child = stdio.child /\ status'.child = status.child /\ sent' = sent
        /\ pipeBuf' = pipeBuf
    BY <1>1, <1>3, ExitStep DEF counters
  <2>2. \A lo, hi \in Nat : ~In("parent", lo, hi)'
    BY <2>1 DEF In
  <2>3. ChildLaunch'
    BY <1>1, <2>1, ChildUntouched
  <2>4. ParentLaunch'
    BY <2>1, <2>2 DEF ParentLaunch
  <2>5. BothLaunch'
    BY <1>1, <2>1, <2>2 DEF BothLaunch
  <2>. QED  BY <2>3, <2>4, <2>5
<1>4. CASE OnText(p) /\ D \in 0 .. Len(CallsOf(p)) - 1 /\ todo[p] # << >> /\ ~Exit(p)
           /\ call = CallsOf(p)[D + 1]
  <2>1. /\ D \in 0 .. 9
        /\ D = 0 => call = <<"open", "in", "input">>
        /\ D = 1 => call = <<"dup2", "newfd", "in", "STDIN">>
        /\ D = 2 => call = <<"close", "in">>
        /\ D = 3 => call = <<"pipe">>
        /\ D = 4 => call = <<"fork">>
        /\ D = 5 => call = <<"close", "WRITE">>
        /\ D = 6 => call = <<"count", "READ">>
        /\ D = 7 => call = <<"wait">>
        /\ D = 8 => call = <<"close", "READ">>
        /\ D = 9 => call = <<"printf", "total_count">>
    BY <1>1, <1>4 DEF CallsOf, Text, PipeLaunch
  <2>2. Returns(p) => OnText("parent")' /\ Done("parent")' = D + 1
    BY <1>1, <1>2, <1>4, Returned
  <2>3. \A lo, hi \in Nat : In("parent", lo, hi) <=> D \in lo .. hi
    BY <1>2, <1>4 DEF In
  <2>. HIDE DEF D, call
  <2>4. CASE Fails(p)
    <3>1. /\ status' = status /\ todo'[p] = Failed /\ todo'.child = todo.child
          /\ UNCHANGED <<fds, var, stdio, pipeBuf, sent>>
          /\ call[1] \in {"open", "dup", "dup2", "pipe", "fork", "exec"}
      BY <1>1, <1>4, <2>4, FailsStep DEF buffers, counters, Fails, Calls, call
    <3>2. ~OnText("parent")'
      <4>1. CallsOf("parent")[Len(CallsOf("parent"))] # <<"exit", "1">>
        BY DEF CallsOf, Text, PipeLaunch
      <4>. QED  BY <1>1, <3>1, <4>1, NoReturn
    <3>3. \A lo, hi \in Nat : ~In("parent", lo, hi)'
      BY <3>2 DEF In
    <3>4. ChildLaunch'
      BY <1>1, <3>1, ChildUntouched
    <3>5. stdio.parent = << >>
      BY <1>1, <2>1, <2>3, <3>1 DEF ParentLaunch
    <3>6. ParentLaunch'
      BY <1>1, <3>1, <3>3, <3>5 DEF ParentLaunch
    <3>7. BothLaunch'
      BY <1>1, <3>1, <3>3 DEF BothLaunch
    <3>. QED  BY <3>4, <3>6, <3>7
  <2>5. ASSUME Returns(p), UNCHANGED <<status, pipeBuf, sent>>, fds'.child = fds.child,
               var'.child = var.child, stdio'.child = stdio.child, D \notin {4, 6, 7}
        PROVE  ChildLaunch' /\ BothLaunch' /\ \A lo, hi \in Nat : In("parent", lo, hi)' <=> D + 1 \in lo .. hi
    <3>1. todo'.child = todo.child
      BY <1>1, <1>4, <2>5, ReturnStep
    <3>2. ChildLaunch'
      BY <1>1, <2>5, <3>1, ChildUntouched
    <3>3. \A lo, hi \in Nat : In("parent", lo, hi)' <=> D + 1 \in lo .. hi
      BY <1>2, <2>2, <2>5 DEF In
    <3>4. /\ D + 1 \in 0 .. 4 => status'.child = "unborn"
          /\ D + 1 \in 5 .. 10 => status'.child # "unborn"
          /\ D + 1 \in 7 .. 10 => NoWriteEnd("child")' /\ pipeBuf' = << >>
          /\ D + 1 \in 8 .. 10 => status'.child \in {"0", "1", "reaped"}
      BY <1>1, <2>1, <2>3, <2>5 DEF BothLaunch, NoWriteEnd
    <3>5. BothLaunch'
      BY <1>1, <2>5, <3>1, <3>3, <3>4 DEF BothLaunch
    <3>. QED  BY <3>2, <3>3, <3>5
  <2>6. CASE D = 0 /\ Open(p)
    <3>1. LET n == var'.parent.in IN
          /\ n \in 0 .. MaxFd /\ fds.parent[n] = "closed" /\ fds'.parent[n] = "input"
          /\ \A m \in 0 .. MaxFd : fds.parent[m] = "closed" => n <= m
          /\ \A m \in (0 .. MaxFd) \ {n} : fds'.parent[m] = fds.parent[m]
          /\ Returns(p) /\ UNCHANGED status
      BY <1>1, <1>4, <2>1, <2>6, OpenStep DEF call
    <3>2. /\ fds'.child = fds.child /\ var'.child = var.child /\ UNCHANGED <<stdio, pipeBuf, sent>>
      BY <1>1, <1>4, <2>6, OpenStep DEF buffers, counters
    <3>3. ChildLaunch' /\ BothLaunch' /\ \A lo, hi \in Nat : In("parent", lo, hi)' <=> 1 \in lo .. hi
      BY <2>5, <2>6, <3>1, <3>2
    <3>4. \A n \in 0 .. MaxFd : fds.parent[n] = "closed" <=> n \notin std
      BY <1>1, <2>3, <2>6, StartedClosed DEF ParentLaunch, AsStarted
    <3>5. /\ Refers("parent", var.parent.in)' = "input" /\ var'.parent.in \notin std
          /\ 0 \notin std => var'.parent.in = 0
      BY <3>1, <3>4, FdZeroOne DEF Refers
    <3>6. AsStarted("parent", {0, var.parent.in})'
      BY <1>1, <2>3, <2>6, <3>1, SameStart DEF ParentLaunch, AsStarted
    <3>7. stdio'.parent = << >>
      BY <1>1, <2>3, <2>6, <3>2 DEF ParentLaunch
    <3>8. 1 \in std => fds'.parent[1] = "stdout"
      BY <1>1, <1>2, <3>1, <3>5, FdZeroOne DEF ParentLaunch
    <3>9. ParentLaunch'
      BY <1>1, <3>3, <3>5, <3>6, <3>7, <3>8 DEF ParentLaunch
    <3>. QED  BY <3>3, <3>9
  <2>7. CASE D = 1 /\ Dup2(p)
    <3>1. var.parent.STDIN = 0 /\ Refers("parent", var.parent.in) = "input" /\ var.parent.in \notin std
          /\ (0 \notin std => var.parent.in = 0) /\ AsStarted("parent", {0, var.parent.in})
      BY <1>1, <2>3, <2>7 DEF Typed, ParentLaunch
    <3>2. /\ fds'.parent[0] = "input"
          /\ \A m \in (0 .. MaxFd) \ {0} : fds'.parent[m] = fds.parent[m]
          /\ var'.parent.in = var.parent.in
          /\ Returns(p) /\ UNCHANGED status
      BY <1>1, <1>4, <2>1, <2>7, <3>1, Dup2Step, FdZeroOne DEF call, Names
    <3>3. /\ fds'.child = fds.child /\ var'.child = var.child /\ UNCHANGED <<stdio, pipeBuf, sent>>
      BY <1>1, <1>4, <2>7, Dup2Step DEF buffers, counters
    <3>4. ChildLaunch' /\ BothLaunch' /\ \A lo, hi \in Nat : In("parent", lo, hi)' <=> 2 \in lo .. hi
      BY <2>5, <2>7, <3>2, <3>3
    <3>5. Refers("parent", var.parent.in)' = "input"
      BY <3>1, <3>2, FdZeroOne DEF Refers
    <3>6. AsStarted("parent", {0, var.parent.in})'
      BY <1>1, <3>1, <3>2, SameStart DEF AsStarted
    <3>7. stdio'.parent = << >>
      BY <1>1, <2>3, <2>7, <3>3 DEF ParentLaunch
    <3>8. 1 \in std => fds'.parent[1] = "stdout"
      BY <1>1, <1>2, <3>2, FdZeroOne DEF ParentLaunch
    <3>9. ParentLaunch'
      BY <1>1, <3>1, <3>2, <3>4, <3>5, <3>6, <3>7, <3>8 DEF ParentLaunch
    <3>. QED  BY <3>4, <3>9
  <2>8. CASE D = 2
    <3>1. Close(p)
      BY <1>1, <1>4, <2>1, <2>8, OneCall DEF call
    <3>2. Refers("parent", var.parent.in) = "input" /\ var.parent.in \notin std
          /\ (0 \notin std => var.parent.in = 0) /\ AsStarted("parent", {0, var.parent.in})
          /\ (0 \in std => fds.parent[0] = "input")
      BY <1>1, <2>3, <2>8 DEF ParentLaunch
    <3>3. /\ \A n \in 0 .. MaxFd : fds'.parent[n] = IF n = var.parent.in THEN "closed" ELSE fds.parent[n]
          /\ Returns(p) /\ UNCHANGED <<status, var, stdio, pipeBuf, sent>> /\ fds'.child = fds.child
      BY <1>1, <1>4, <2>1, <2>8, <3>1, CloseStep DEF call, buffers, counters, Fd, Arg
    <3>4. ChildLaunch' /\ BothLaunch' /\ \A lo, hi \in Nat : In("parent", lo, hi)' <=> 3 \in lo .. hi
      BY <2>5, <2>8, <3>3
    <3>5. AsStarted("parent", {0})'
      <4>1. ASSUME NEW n \in (0 .. MaxFd) \ {0} PROVE fds'.parent[n] = Started(n)
        <5>1. CASE n = var.parent.in
          BY <1>1, <3>2, <3>3, <5>1, StartedClosed
        <5>2. CASE n # var.parent.in
          BY <3>2, <3>3, <5>2 DEF AsStarted
        <5>. QED  BY <5>1, <5>2
      <4>. QED  BY <1>1, <4>1, SameStart DEF AsStarted
    <3>6. /\ 0 \notin std => fds'.parent[0] = "closed"
          /\ 0 \in std => fds'.parent[0] = "input"
      BY <3>2, <3>3, FdZeroOne
    <3>7. stdio'.parent = << >>
      BY <1>1, <2>3, <2>8, <3>3 DEF ParentLaunch
    <3>8. 1 \in std => fds'.parent[1] = "stdout"
      BY <1>1, <1>2, <3>2, <3>3, FdZeroOne DEF ParentLaunch
    <3>9. ParentLaunch'
      BY <1>1, <3>4, <3>5, <3>6, <3>7, <3>8 DEF ParentLaunch
    <3>. QED  BY <3>4, <3>9
  <2>9. CASE D = 3 /\ MakePipe(p)
    <3>1. AsStarted("parent", {0}) /\ (0 \notin std => fds.parent[0] = "closed")
          /\ (0 \in std => fds.parent[0] = "input")
      BY <1>1, <2>3, <2>9 DEF ParentLaunch
    <3>2. LET r == var'.parent.READ
              w == var'.parent.WRITE
          IN  /\ r < w /\ r \in 0 .. MaxFd /\ w \in 0 .. MaxFd
              /\ fds.parent[r] = "closed" /\ fds.parent[w] = "closed"
              /\ fds'.parent[r] = "pipeR" /\ fds'.parent[w] = "pipeW"
              /\ \A n \in (0 .. MaxFd) \ {r, w} : fds'.parent[n] = fds.parent[n]
              /\ \A n \in 0 .. MaxFd : fds.parent[n] = "closed" => r <= n
      BY <1>1, <1>4, <2>9, MakePipeStep
    <3>3. /\ Returns(p) /\ UNCHANGED <<status, stdio, pipeBuf, sent>>
          /\ fds'.child = fds.child /\ var'.child = var.child
      BY <1>1, <1>4, <2>9, MakePipeStep DEF buffers, counters
    <3>4. ChildLaunch' /\ BothLaunch' /\ \A lo, hi \in Nat : In("parent", lo, hi)' <=> 4 \in lo .. hi
      BY <2>5, <2>9, <3>3
    <3>5. \A n \in 0 .. MaxFd : fds.parent[n] = "closed" <=> n \notin std
      <4>1. \A n \in (0 .. MaxFd) \ {0} : fds.parent[n] = "closed" <=> n \notin std
        BY <1>1, <3>1, StartedClosed DEF AsStarted
      <4>. QED  BY <3>1, <4>1
    <3>6. PipeMade("parent")'
      <4>1. AsStarted("parent", {0, var.parent.READ, var.parent.WRITE})'
        BY <1>1, <3>1, <3>2, SameStart DEF AsStarted
      <4>2. 0 \notin std => var'.parent.READ = 0
        BY <3>2, <3>5, FdZeroOne
      <4>3. 0 \in std => fds'.parent[0] = "input"
        BY <3>1, <3>2, <3>5, FdZeroOne
      <4>4. /\ var'.parent.READ < var'.parent.WRITE /\ var'.parent.WRITE <= MaxFd
            /\ var'.parent.READ \notin std /\ var'.parent.WRITE \notin std
            /\ fds'.parent[var'.parent.READ] = "pipeR" /\ fds'.parent[var'.parent.WRITE] = "pipeW"
        BY <3>2, <3>5
      <4>. QED  BY <1>1, <4>1, <4>2, <4>3, <4>4 DEF PipeMade
    <3>7. stdio'.parent = << >>
      <4>1. In("parent", 0, 9)
        BY <2>3, <2>9
      <4>2. stdio.parent = << >>
        BY <1>1, <4>1 DEF ParentLaunch
      <4>. QED  BY <3>3, <4>2
    <3>8. 1 \in std => fds'.parent[1] = "stdout"
      BY <1>1, <1>2, <3>2, <3>5, FdZeroOne DEF ParentLaunch
    <3>9. ParentLaunch'
      BY <1>1, <3>4, <3>6, <3>7, <3>8 DEF ParentLaunch
    <3>. QED  BY <3>4, <3>9
  <2>10. CASE D = 4 /\ Fork(p)
    <3>1. /\ Returns(p) \/ todo'.parent = Tail(todo.parent)
          /\ status'.parent = "running" /\ status'.child = "running"
          /\ todo'.child = ChildText[program] /\ stdio'.child = stdio.parent
          /\ stdio'.parent = stdio.parent
          /\ fds'.parent = fds.parent /\ fds'.child = fds.parent
          /\ var'.parent = var.parent /\ var'.child = var.parent /\ UNCHANGED <<pipeBuf, sent>>
      BY <1>1, <1>4, <2>10, ForkStep DEF counters
    <3>2. todo'.parent = Tail(todo.parent)
      BY <1>1, <1>4, <2>10, ForkStep
    <3>3. OnText("parent")' /\ Done("parent")' = 5
      BY <1>1, <1>4, <2>10, <3>2, Advance DEF D
    <3>4. PipeMade("parent") /\ stdio.parent = << >> /\ status.child = "unborn"
      <4>1. In("parent", 4, 5) /\ In("parent", 0, 9) /\ In("parent", 0, 4)
        BY <2>3, <2>10
      <4>2. PipeMade("parent") /\ stdio.parent = << >>
        BY <1>1, <4>1 DEF ParentLaunch
      <4>3. status.child = "unborn"
        BY <1>1, <4>1 DEF BothLaunch
      <4>. QED  BY <4>2, <4>3
    <3>5. PipeMade("parent")'
      BY <1>1, <3>1, <3>4, PipeMadeStays
    <3>6. PipeMade("child")'
      BY <3>1, <3>5 DEF PipeMade, AsStarted
    <3>7. Done("child")' = 0
      BY <1>1, <3>1 DEF Done, CallsOf
    <3>8. /\ \A lo, hi \in Nat : In("parent", lo, hi)' <=> 5 \in lo .. hi
          /\ \A lo, hi \in Nat : In("child", lo, hi)' => 0 \in lo .. hi
      BY <3>1, <3>3, <3>7 DEF In
    <3>9. 1 \in std => fds'.parent[1] = "stdout"
      BY <1>1, <1>2, <3>1 DEF ParentLaunch
    <3>10. ParentLaunch'
      <4>1. /\ ~In("parent", 0, 0)' /\ ~In("parent", 1, 2)' /\ ~In("parent", 2, 3)'
            /\ ~In("parent", 3, 3)' /\ ~In("parent", 6, 8)' /\ ~In("parent", 6, 10)'
        BY <3>8
      <4>2. stdio'.parent = << >>
        BY <3>1, <3>4
      <4>3. "total_count" \notin {stdio'.parent[k] : k \in DOMAIN stdio'.parent}
        BY <4>2
      <4>. QED  BY <1>1, <3>5, <3>9, <4>1, <4>2, <4>3 DEF ParentLaunch
    <3>11. ChildLaunch'
      BY <3>1, <3>4, <3>6, <3>8 DEF ChildLaunch
    <3>12. BothLaunch'
      BY <1>1, <3>1, <3>4, <3>8 DEF BothLaunch
    <3>. QED  BY <3>10, <3>11, <3>12
  <2>11. CASE D = 5
    <3>1. Close(p)
      BY <1>1, <1>4, <2>1, <2>11, OneCall DEF call
    <3>2. PipeMade("parent")
      BY <1>1, <2>3, <2>11 DEF ParentLaunch
    <3>3. /\ \A n \in 0 .. MaxFd : fds'.parent[n] = IF n = var.parent.WRITE THEN "closed" ELSE fds.parent[n]
          /\ Returns(p) /\ UNCHANGED <<status, var, stdio, pipeBuf, sent>> /\ fds'.child = fds.child
      BY <1>1, <1>4, <2>1, <2>11, <3>1, CloseStep DEF call, buffers, counters, Fd, Arg
    <3>4. ChildLaunch' /\ BothLaunch' /\ \A lo, hi \in Nat : In("parent", lo, hi)' <=> 6 \in lo .. hi
      BY <2>5, <2>11, <3>3
    <3>5. ASSUME NEW n \in 0 .. MaxFd PROVE fds'.parent[n] # "pipeW"
      <4>1. CASE n \in {var.parent.READ, var.parent.WRITE}
        BY <3>2, <3>3, <4>1 DEF PipeMade
      <4>2. CASE n = 0 /\ n # var.parent.READ
        BY <3>2, <3>3, <4>2 DEF PipeMade
      <4>3. CASE n \notin {0, var.parent.READ, var.parent.WRITE}
        <5>1. fds.parent[n] = Started(n)
          BY <3>2, <4>3 DEF PipeMade, AsStarted
        <5>. QED  BY <1>1, <3>3, <4>3, <5>1, StartedClosed
      <4>. QED  BY <4>1, <4>2, <4>3
    <3>6. NoWriteEnd("parent")' /\ var'.parent.READ \notin std
      BY <3>2, <3>3, <3>5 DEF NoWriteEnd, PipeMade
    <3>7. stdio'.parent = << >>
      BY <1>1, <2>3, <2>11, <3>3 DEF ParentLaunch
    <3>8. 1 \in std => fds'.parent[1] = "stdout"
      BY <1>1, <1>2, <3>2, <3>3, FdZeroOne DEF ParentLaunch, PipeMade
    <3>9. ParentLaunch'
      BY <1>1, <3>4, <3>6, <3>7, <3>8 DEF ParentLaunch
    <3>. QED  BY <3>4, <3>9
  <2>12. CASE D = 6 /\ Count(p)
    <3>1. UNCHANGED <<todo, status, fds, var, stdio, sent>>
      BY <1>1, <1>4, <2>12, CountStep DEF buffers
    <3>2. ChildLaunch' /\ ParentLaunch'
      BY <1>1, <3>1, ChildUntouched, ParentUntouched
    <3>3. \A lo, hi \in Nat : In("parent", lo, hi)' <=> 6 \in lo .. hi
      BY <1>1, <2>3, <2>12, <3>1, Stays
    <3>4. BothLaunch'
      BY <1>1, <2>3, <2>12, <3>1, <3>3 DEF BothLaunch
    <3>. QED  BY <3>2, <3>4
  <2>13. CASE D = 6 /\ CountEOF(p)
    <3>1. /\ pipeBuf = << >> /\ NoWriteEnd("parent") /\ NoWriteEnd("child")
          /\ Returns(p) /\ UNCHANGED <<status, fds, var, stdio, pipeBuf, sent>>
      BY <1>1, <1>4, <2>13, CountEOFStep DEF buffers, counters, NoWriteEnd
    <3>2. todo'.child = todo.child
      BY <1>1, <1>4, <3>1, ReturnStep
    <3>3. ChildLaunch'
      BY <1>1, <3>1, <3>2, ChildUntouched
    <3>4. \A lo, hi \in Nat : In("parent", lo, hi)' <=> 7 \in lo .. hi
      BY <1>2, <2>2, <2>13, <3>1 DEF In
    <3>5. NoWriteEnd("parent")' /\ NoWriteEnd("child")'
      BY <3>1 DEF NoWriteEnd
    <3>6. status.child # "unborn"
      BY <1>1, <2>3, <2>13 DEF BothLaunch
    <3>7. BothLaunch'
      BY <1>1, <3>1, <3>2, <3>4, <3>5, <3>6 DEF BothLaunch
    <3>8. stdio.parent = << >> /\ var.parent.READ \notin std
      BY <1>1, <2>3, <2>13 DEF ParentLaunch
    <3>9. 1 \in std => fds'.parent[1] = "stdout"
      BY <1>1, <1>2, <3>1 DEF ParentLaunch
    <3>10. ParentLaunch'
      BY <1>1, <3>1, <3>4, <3>5, <3>8, <3>9 DEF ParentLaunch
    <3>. QED  BY <3>3, <3>7, <3>10
  <2>14. CASE D = 7
    <3>1. Wait(p)
      BY <1>1, <1>4, <2>1, <2>14, OneCall DEF call
    <3>2. /\ Ended("child") /\ status'.child = "reaped" /\ status'.parent = "running"
          /\ Returns(p) /\ UNCHANGED <<fds, var, stdio, pipeBuf, sent>>
      BY <1>1, <1>2, <1>4, <3>1, WaitStep DEF buffers, counters
    <3>3. todo'.child = todo.child
      BY <1>1, <1>4, <3>2, ReturnStep
    <3>4. ChildLaunch'
      BY <1>1, <3>2, <3>3, ChildUntouched
    <3>5. \A lo, hi \in Nat : In("parent", lo, hi)' <=> 8 \in lo .. hi
      BY <2>2, <2>14, <3>2 DEF In
    <3>6. NoWriteEnd("parent") /\ NoWriteEnd("child") /\ pipeBuf = << >>
          /\ stdio.parent = << >> /\ var.parent.READ \notin std
      BY <1>1, <2>3, <2>14 DEF ParentLaunch, BothLaunch
    <3>7. NoWriteEnd("parent")' /\ NoWriteEnd("child")'
      BY <3>2, <3>6 DEF NoWriteEnd
    <3>8. BothLaunch'
      BY <1>1, <3>2, <3>5, <3>6, <3>7 DEF BothLaunch
    <3>9. 1 \in std => fds'.parent[1] = "stdout"
      BY <1>1, <1>2, <3>2 DEF ParentLaunch
    <3>10. ParentLaunch'
      BY <1>1, <3>2, <3>5, <3>6, <3>7, <3>9 DEF ParentLaunch
    <3>. QED  BY <3>4, <3>8, <3>10
  <2>15. CASE D = 8
    <3>1. Close(p)
      BY <1>1, <1>4, <2>1, <2>15, OneCall DEF call
    <3>2. NoWriteEnd("parent") /\ stdio.parent = << >> /\ var.parent.READ \notin std
      BY <1>1, <2>3, <2>15 DEF ParentLaunch
    <3>3. /\ \A n \in 0 .. MaxFd : fds'.parent[n] = IF n = var.parent.READ THEN "closed" ELSE fds.parent[n]
          /\ Returns(p) /\ UNCHANGED <<status, var, stdio, pipeBuf, sent>> /\ fds'.child = fds.child
      BY <1>1, <1>4, <2>1, <2>15, <3>1, CloseStep DEF call, buffers, counters, Fd, Arg
    <3>4. ChildLaunch' /\ BothLaunch' /\ \A lo, hi \in Nat : In("parent", lo, hi)' <=> 9 \in lo .. hi
      BY <2>5, <2>15, <3>3
    <3>5. NoWriteEnd("parent")'
      BY <3>2, <3>3 DEF NoWriteEnd
    <3>6. 1 \in std => fds'.parent[1] = "stdout"
      BY <1>1, <1>2, <3>2, <3>3, FdZeroOne DEF ParentLaunch
    <3>7. ParentLaunch'
      <4>1. /\ ~In("parent", 0, 0)' /\ ~In("parent", 1, 2)' /\ ~In("parent", 2, 3)'
            /\ ~In("parent", 3, 3)' /\ ~In("parent", 4, 5)' /\ ~In("parent", 6, 8)'
        BY <3>4
      <4>2. stdio'.parent = << >>
        BY <3>2, <3>3
      <4>3. "total_count" \notin {stdio'.parent[k] : k \in DOMAIN stdio'.parent}
        BY <4>2
      <4>. QED  BY <1>1, <3>5, <3>6, <4>1, <4>2, <4>3 DEF ParentLaunch
    <3>. QED  BY <3>4, <3>7
  <2>16. CASE D = 9
    <3>1. Printf(p)
      BY <1>1, <1>4, <2>1, <2>16, OneCall DEF call
    <3>2. /\ stdio'.child = stdio.child /\ Returns(p)
          /\ UNCHANGED <<status, fds, var, pipeBuf, sent>>
      BY <1>1, <1>4, <3>1, PrintfStep DEF counters
    <3>3. ChildLaunch' /\ BothLaunch' /\ \A lo, hi \in Nat : In("parent", lo, hi)' <=> 10 \in lo .. hi
      BY <2>5, <2>16, <3>2
    <3>4. NoWriteEnd("parent")'
      BY <1>1, <2>3, <2>16, <3>2 DEF ParentLaunch, NoWriteEnd
    <3>5. 1 \in std => fds'.parent[1] = "stdout"
      BY <1>1, <1>2, <3>2 DEF ParentLaunch
    <3>6. ParentLaunch'
      BY <1>1, <3>3, <3>4, <3>5 DEF ParentLaunch
    <3>. QED  BY <3>3, <3>6
  <2>. QED
    <3>1. /\ call[1] = "open" => Open(p) \/ Fails(p)
          /\ call[1] = "dup2" => Dup2(p) \/ Fails(p)
          /\ call[1] = "pipe" => MakePipe(p) \/ Fails(p)
          /\ call[1] = "fork" => Fork(p) \/ Fails(p)
          /\ call[1] = "count" => Count(p) \/ CountEOF(p)
      BY <1>1, <1>4, OneCall DEF call
    <3>. QED  BY <2>1, <2>4, <2>6, <2>7, <2>8, <2>9, <2>10, <2>11, <2>12, <2>13, <2>14, <2>15,
                 <2>16, <3>1
<1>. QED
  <2>1. \/ Exit("parent")
        \/ OnText(p) /\ D \in 0 .. Len(CallsOf(p)) - 1 /\ todo[p] # << >> /\ call = CallsOf(p)[D + 1]
    BY <1>1, <1>2, RunningStep
  <2>. QED  BY <1>3, <1>4, <2>1

(* The same when the child goes on: by then the parent is past fork(), and a child that
   still has a write end has not let it come to the end of the pipe. *)
LEMMA LaunchChildKept ==
    ASSUME FdInv, Process("child"), program = "pipe_launch"
    PROVE  ParentLaunch' /\ ChildLaunch' /\ BothLaunch'
<1>. DEFINE p == "child"
            D == Done("child")
            call == todo.child[1]
<1>1. /\ Typed /\ Typed' /\ Course /\ LaunchInv /\ ParentLaunch /\ ChildLaunch /\ BothLaunch
      /\ UNCHANGED <<program, std, tty>> /\ "parent" \in Processes /\ "child" \in Processes
      /\ Processes \ {"child"} = {"parent"}
  BY SameProgram, TypedStep DEF FdInv, LaunchInv, Processes
<1>2. status.child \in {"running", "command"}
  <2>1. ~Ended("child")
    BY <1>1, OneCall
  <2>. QED  BY <2>1 DEF Ended
<1>3. ~In("parent", 0, 4) /\ ~In("parent", 8, 10)
  BY <1>1, <1>2 DEF BothLaunch
<1>4. ASSUME fds'.parent = fds.parent, var'.parent = var.parent, todo'.parent = todo.parent,
             stdio'.parent = stdio.parent, status'.parent = status.parent,
             status'.child \in {"running", "command", "0", "1"},
             In("parent", 7, 10) => NoWriteEnd("child")' /\ pipeBuf' = pipeBuf,
             status'.child = "running" => status.child = "running" /\ sent' = sent,
             status'.child = "command" => sent' + Len(todo'.child) <= MaxBytes
      PROVE  ParentLaunch' /\ BothLaunch'
  <2>1. ParentLaunch'
    BY <1>1, <1>4, ParentUntouched
  <2>2. \A lo, hi \in Nat : In("parent", lo, hi)' <=> In("parent", lo, hi)
    BY <1>1, <1>4, Stays
  <2>3. In("parent", 7, 10)' => NoWriteEnd("child")' /\ pipeBuf' = << >>
    BY <1>1, <1>4, <2>2 DEF BothLaunch
  <2>4. ~In("parent", 0, 4)' /\ ~In("parent", 8, 10)'
    BY <1>3, <2>2
  <2>5. status'.child \in {"unborn", "running"} => sent' = 0
    BY <1>1, <1>4 DEF BothLaunch
  <2>6. BothLaunch'
    BY <1>4, <2>3, <2>4, <2>5 DEF BothLaunch
  <2>. QED  BY <2>1, <2>6
<1>5. ASSUME status'.child \notin {"running", "command"}, stdio'.child = << >>
      PROVE  ChildLaunch'
  <2>1. \A lo, hi \in Nat : ~In("child", lo, hi)'
    BY <1>5 DEF In
  <2>. QED  BY <1>5, <2>1 DEF ChildLaunch
<1>6. CASE Exit("child")
  <2>1. /\ status'.child \in {"0", "1"} /\ stdio'.child = << >>
        /\ \A n \in 0 .. MaxFd : fds'.child[n] = "closed"
        /\ fds'.parent = fds.parent /\ var'.parent = var.parent /\ todo'.parent = todo.parent
        /\ stdio'.parent = stdio.parent /\ status'.parent = status.parent
        /\ pipeBuf' = pipeBuf
    BY <1>1, <1>6, ExitStep DEF counters
  <2>2. NoWriteEnd("child")'
    BY <1>1, <2>1 DEF NoWriteEnd
  <2>. QED  BY <1>4, <1>5, <2>1, <2>2
<1>7. CASE status.child = "command" /\ ~Exit("child")
  <2>1. todo.child # << >> /\ call = <<"write", "STDOUT", "byte">>
    <3>1. todo.child # << >>
      BY <1>1, <1>7, OneCall
    <3>. QED  BY <1>1, <1>7, <3>1, Current DEF Course
  <2>2. /\ Returns("child") /\ UNCHANGED <<status, fds, var, stdio>>
        /\ \/ UNCHANGED <<sent, pipeBuf>>
           \/ sent' = sent + 1 /\ Refers("child", Fd("child", 1)) = "pipeW"
    <3>1. Write("child") \/ WritePipe("child")
      BY <1>1, <2>1, OneCall
    <3>2. CASE Write("child")
      BY <1>1, <2>1, <3>2, WriteStep DEF counters, buffers
    <3>3. CASE WritePipe("child")
      BY <1>1, <2>1, <3>3, WritePipeStep DEF buffers
    <3>. QED  BY <3>1, <3>2, <3>3
  <2>3. todo'.child = Tail(todo.child) /\ todo'.parent = todo.parent
    BY <1>1, <2>1, <2>2, ReturnStep
  <2>4. Len(todo.child) \in Nat \ {0} /\ Len(todo'.child) = Len(todo.child) - 1
    BY <1>1, <2>1, <2>3, Current
  <2>5. sent' + Len(todo'.child) <= MaxBytes
    <3>1. sent + Len(todo.child) <= MaxBytes /\ sent \in Nat /\ MaxBytes \in Nat
      BY <1>1, <1>7, FdBounds DEF BothLaunch, Typed, FdTypeOK
    <3>. QED  BY <2>2, <2>4, <3>1
  <2>6. NoWriteEnd("child") => NoWriteEnd("child")' /\ pipeBuf' = pipeBuf
    <3>1. NoWriteEnd("child") => Refers("child", Fd("child", 1)) # "pipeW"
      BY DEF NoWriteEnd, Refers
    <3>. QED  BY <1>1, <2>2, <3>1 DEF NoWriteEnd
  <2>7. In("parent", 7, 10) => NoWriteEnd("child")
    BY <1>1 DEF BothLaunch
  <2>8. AsGiven({1}) /\ (std \cap {0, 1} # {} => fds.child[1] = "pipeW") /\ stdio.child = << >>
    BY <1>1, <1>7 DEF ChildLaunch
  <2>9. AsGiven({1})'
    BY <1>1, <2>2, <2>8, AsGivenStays
  <2>10. \A lo, hi \in Nat : ~In("child", lo, hi)'
    BY <1>7, <2>2 DEF In
  <2>11. ChildLaunch'
    BY <1>1, <2>2, <2>8, <2>9, <2>10 DEF ChildLaunch
  <2>12. ParentLaunch' /\ BothLaunch'
    BY <1>4, <1>7, <2>2, <2>3, <2>5, <2>6, <2>7
  <2>. QED  BY <2>11, <2>12
<1>8. CASE OnText(p) /\ D \in 0 .. Len(CallsOf(p)) - 1 /\ todo[p] # << >> /\ ~Exit(p)
           /\ call = CallsOf(p)[D + 1] /\ status.child = "running"
  <2>1. /\ D \in 0 .. 4
        /\ D = 0 => call = <<"close", "READ">>
        /\ D = 1 => call = <<"dup2", "newfd", "WRITE", "STDOUT">>
        /\ D = 2 => call = <<"close", "WRITE">>
        /\ D = 3 => call = <<"exec", "cmd">>
        /\ D = 4 => call = <<"exit", "1">>
    BY <1>1, <1>8 DEF CallsOf, ChildText, PipeLaunchChild
  <2>2. Returns(p) => OnText("child")' /\ Done("child")' = D + 1
    BY <1>1, <1>8, Returned
  <2>3. \A lo, hi \in Nat : In("child", lo, hi) <=> D \in lo .. hi
    BY <1>8 DEF In
  <2>. HIDE DEF D, call
  <2>4. stdio.child = << >> /\ sent = 0 /\ MaxBytes \in Nat /\ MaxFd \in Nat /\ std \subseteq 0 .. 2
    BY <1>1, <1>8, FdBounds DEF ChildLaunch, BothLaunch, Typed, FdTypeOK, Std
  <2>12. /\ var.child.READ \in 0 .. NoFd /\ var.child.WRITE \in 0 .. NoFd
         /\ var.child.STDOUT = 1
    <3>1. var.child \in [Names -> 0 .. NoFd] /\ \A v \in {"STDIN", "STDOUT"} : var.child[v] = IF v = "STDIN" THEN 0 ELSE 1
      BY <1>1 DEF Typed, FdTypeOK
    <3>2. "READ" \in Names /\ "WRITE" \in Names
      BY DEF Names
    <3>. QED  BY <3>1, <3>2
  <2>5. CASE Fails(p)
    <3>1. /\ status' = status /\ todo'.child = Failed /\ todo'.parent = todo.parent
          /\ UNCHANGED <<fds, var, stdio, pipeBuf, sent>>
      BY <1>1, <1>8, <2>5, FailsStep DEF buffers, counters
    <3>2. OnText("child")' => Done("child")' = 4
      <4>1. program \in DOMAIN ChildText
        BY DEF ChildText
      <4>2. Len(CallsOf("child")) = 5
        BY DEF CallsOf, ChildText, PipeLaunchChild
      <4>3. ASSUME OnText("child")' PROVE Done("child")' = 4
        <5>1. Typed /\ "child" \in Processes /\ program' = program /\ todo'["child"] = Failed
          BY <1>1, <3>1
        <5>2. Done("child")' = Len(CallsOf("child")) - 1
          BY <4>1, <4>3, <5>1, NoReturn
        <5>3. Done("child")' = 5 - 1
          BY <4>2, <5>2, Zenon
        <5>. QED  BY <5>3
      <4>. QED  BY <4>3
    <3>3. \A lo, hi \in Nat : In("child", lo, hi)' => 4 \in lo .. hi
      BY <3>2 DEF In
    <3>4. ChildLaunch'
      BY <1>8, <2>4, <3>1, <3>3 DEF ChildLaunch
    <3>5. In("parent", 7, 10) => NoWriteEnd("child")'
      BY <1>1, <3>1 DEF BothLaunch, NoWriteEnd
    <3>. QED  BY <1>4, <1>8, <3>1, <3>4, <3>5
  <2>6. ASSUME Returns(p), UNCHANGED <<status, stdio, pipeBuf, sent>>, fds'.parent = fds.parent,
               var'.parent = var.parent, NoWriteEnd("child") => NoWriteEnd("child")'
        PROVE  /\ ParentLaunch' /\ BothLaunch' /\ stdio'.child = << >>
               /\ \A lo, hi \in Nat : In("child", lo, hi)' <=> D + 1 \in lo .. hi
    <3>1. todo'.parent = todo.parent
      BY <1>1, <1>8, <2>6, ReturnStep
    <3>2. In("parent", 7, 10) => NoWriteEnd("child")'
      BY <1>1, <2>6 DEF BothLaunch
    <3>3. ParentLaunch' /\ BothLaunch'
      BY <1>4, <1>8, <2>6, <3>1, <3>2
    <3>4. \A lo, hi \in Nat : In("child", lo, hi)' <=> D + 1 \in lo .. hi
      BY <1>8, <2>2, <2>6 DEF In
    <3>. QED  BY <2>4, <2>6, <3>3, <3>4
  <2>7. CASE D = 0
    <3>1. Close(p)
      BY <1>1, <1>8, <2>1, <2>7, OneCall DEF call
    <3>2. /\ \A n \in 0 .. MaxFd : fds'.child[n] = IF n = var.child.READ THEN "closed" ELSE fds.child[n]
          /\ Returns(p) /\ UNCHANGED <<status, var, stdio, pipeBuf, sent>> /\ fds'.parent = fds.parent
      BY <1>1, <1>8, <2>1, <2>7, <3>1, CloseStep DEF call, buffers, counters, Fd, Arg
    <3>3. NoWriteEnd("child") => NoWriteEnd("child")'
      BY <3>2 DEF NoWriteEnd
    <3>4. /\ ParentLaunch' /\ BothLaunch' /\ stdio'.child = << >>
          /\ \A lo, hi \in Nat : In("child", lo, hi)' <=> 1 \in lo .. hi
      BY <2>6, <2>7, <3>2, <3>3
    <3>5. PipeMade("child")
      BY <1>1, <2>3, <2>7 DEF ChildLaunch
    <3>6. var.child.READ \in 0 .. NoFd /\ var.child.WRITE \in 0 .. NoFd
      BY <2>12
    <3>7. /\ var'.child.READ < var'.child.WRITE /\ var'.child.WRITE <= MaxFd
          /\ var'.child.READ \notin std /\ var'.child.WRITE \notin std
          /\ fds'.child[var'.child.WRITE] = "pipeW"
      BY <2>4, <3>2, <3>5, <3>6 DEF PipeMade
    <3>8. 0 \in std => fds'.child[0] = "input"
      BY <3>2, <3>5, FdZeroOne DEF PipeMade
    <3>9. ASSUME NEW n \in (1 .. MaxFd) \ {var.child.WRITE} PROVE fds'.child[n] \in {Started(n), "closed"}
      <4>1. CASE n = var.child.READ
        BY <2>4, <3>2, <4>1
      <4>2. CASE n # var.child.READ
        BY <2>4, <3>2, <3>5, <4>2 DEF PipeMade, AsStarted
      <4>. QED  BY <4>1, <4>2
    <3>10. AsGiven({var.child.WRITE})'
      BY <1>1, <3>2, <3>8, <3>9, SameStart DEF AsGiven
    <3>11. ChildLaunch'
      BY <1>1, <1>8, <3>2, <3>4, <3>7, <3>10 DEF ChildLaunch
    <3>. QED  BY <3>4, <3>11
  <2>8. CASE D = 1 /\ Dup2(p)
    <3>1. /\ var.child.READ < var.child.WRITE /\ var.child.WRITE <= MaxFd
          /\ var.child.READ \notin std /\ var.child.WRITE \notin std
          /\ fds.child[var.child.WRITE] = "pipeW" /\ AsGiven({var.child.WRITE})
      BY <1>1, <2>3, <2>8 DEF ChildLaunch
    <3>2. var.child.READ \in 0 .. NoFd /\ var.child.WRITE \in 0 .. NoFd /\ var.child.STDOUT = 1
      BY <2>12
    <3>3. Refers("child", var.child.WRITE) = "pipeW"
      BY <2>4, <3>1, <3>2 DEF Refers
    <3>4. /\ fds'.child[1] = "pipeW"
          /\ \A m \in (0 .. MaxFd) \ {1} : fds'.child[m] = fds.child[m]
          /\ var'.child.READ = var.child.READ /\ var'.child.WRITE = var.child.WRITE
      BY <1>1, <1>8, <2>1, <2>8, <3>2, <3>3, Dup2Step, FdZeroOne DEF call, Names
    <3>5. /\ fds'.parent = fds.parent /\ var'.parent = var.parent /\ Returns(p)
          /\ UNCHANGED <<status, stdio, pipeBuf, sent>>
      BY <1>1, <1>8, <2>8, Dup2Step DEF buffers, counters
    <3>6. ~NoWriteEnd("child")
      BY <2>4, <3>1, <3>2 DEF NoWriteEnd
    <3>7. /\ ParentLaunch' /\ BothLaunch' /\ stdio'.child = << >>
          /\ \A lo, hi \in Nat : In("child", lo, hi)' <=> 2 \in lo .. hi
      BY <2>6, <2>8, <3>5, <3>6
    <3>8. fds'.child[var'.child.WRITE] = "pipeW"
      BY <2>4, <3>1, <3>2, <3>4
    <3>9. AsGiven({1, var.child.WRITE})'
      <4>1. 0 \in std => fds'.child[0] = "input"
        BY <3>1, <3>4, FdZeroOne DEF AsGiven
      <4>2. \A n \in (1 .. MaxFd) \ {1, var'.child.WRITE} : fds'.child[n] \in {Started(n), "closed"}
        BY <2>4, <3>1, <3>4 DEF AsGiven
      <4>. QED  BY <1>1, <4>1, <4>2, SameStart DEF AsGiven
    <3>10. ChildLaunch'
      BY <1>1, <1>8, <3>1, <3>4, <3>5, <3>7, <3>8, <3>9 DEF ChildLaunch
    <3>. QED  BY <3>7, <3>10
  <2>9. CASE D = 2
    <3>1. Close(p)
      BY <1>1, <1>8, <2>1, <2>9, OneCall DEF call
    <3>2. /\ \A n \in 0 .. MaxFd : fds'.child[n] = IF n = var.child.WRITE THEN "closed" ELSE fds.child[n]
          /\ Returns(p) /\ UNCHANGED <<status, var, stdio, pipeBuf, sent>> /\ fds'.parent = fds.parent
      BY <1>1, <1>8, <2>1, <2>9, <3>1, CloseStep DEF call, buffers, counters, Fd, Arg
    <3>3. NoWriteEnd("child") => NoWriteEnd("child")'
      BY <3>2 DEF NoWriteEnd
    <3>4. /\ ParentLaunch' /\ BothLaunch' /\ stdio'.child = << >>
          /\ \A lo, hi \in Nat : In("child", lo, hi)' <=> 3 \in lo .. hi
      BY <2>6, <2>9, <3>2, <3>3
    <3>5. /\ var.child.READ < var.child.WRITE /\ var.child.WRITE <= MaxFd
          /\ var.child.READ \notin std /\ var.child.WRITE \notin std
          /\ fds.child[1] = "pipeW" /\ AsGiven({1, var.child.WRITE})
      BY <1>1, <2>3, <2>9 DEF ChildLaunch
    <3>6. var.child.READ \in 0 .. NoFd /\ var.child.WRITE \in 0 .. NoFd
      BY <2>12
    <3>7. AsGiven({1})'
      <4>1. 0 \in std => fds'.child[0] = "input"
        BY <3>2, <3>5, FdZeroOne DEF AsGiven
      <4>2. \A n \in (1 .. MaxFd) \ {1} : fds'.child[n] \in {Started(n), "closed"}
        BY <2>4, <3>2, <3>5 DEF AsGiven
      <4>. QED  BY <1>1, <4>1, <4>2, SameStart DEF AsGiven
    <3>8. std \cap {0, 1} # {} => fds'.child[1] = "pipeW"
      <4>1. std \cap {0, 1} # {} => var.child.WRITE # 1
        BY <3>5, <3>6
      <4>. QED  BY <3>2, <3>5, <4>1, FdZeroOne
    <3>9. ChildLaunch'
      BY <1>1, <1>8, <3>2, <3>4, <3>7, <3>8 DEF ChildLaunch
    <3>. QED  BY <3>4, <3>9
  <2>10. CASE D = 3 /\ Exec(p)
    <3>1. /\ status'.child = "command" /\ status'.parent = status.parent
          /\ todo'.parent = todo.parent /\ stdio'.parent = stdio.parent /\ stdio'.child = << >>
          /\ Len(todo'.child) <= MaxBytes /\ UNCHANGED <<fds, var, pipeBuf, sent>>
      BY <1>1, <1>8, <2>10, ExecStep DEF counters
    <3>2. In("parent", 7, 10) => NoWriteEnd("child")'
      BY <1>1, <3>1 DEF BothLaunch, NoWriteEnd
    <3>3. Len(todo'.child) \in Nat
      BY <1>1 DEF Typed
    <3>4. ParentLaunch' /\ BothLaunch'
      BY <1>4, <2>4, <3>1, <3>2, <3>3
    <3>5. AsGiven({1}) /\ (std \cap {0, 1} # {} => fds.child[1] = "pipeW")
      BY <1>1, <2>3, <2>10 DEF ChildLaunch
    <3>6. AsGiven({1})'
      BY <1>1, <3>1, <3>5, AsGivenStays
    <3>7. \A lo, hi \in Nat : ~In("child", lo, hi)'
      BY <3>1 DEF In
    <3>8. ChildLaunch'
      BY <1>1, <3>1, <3>5, <3>6, <3>7 DEF ChildLaunch
    <3>. QED  BY <3>4, <3>8
  <2>. QED
    <3>1. /\ call[1] = "dup2" => Dup2(p) \/ Fails(p)
          /\ call[1] = "exec" => Exec(p) \/ Fails(p)
          /\ call[1] = "exit" => Exit(p)
      BY <1>1, <1>8, OneCall DEF call
    <3>. QED  BY <1>8, <2>1, <2>5, <2>7, <2>8, <2>9, <2>10, <3>1
<1>. QED
  <2>1. status.child = "running" =>
        \/ Exit("child")
        \/ OnText(p) /\ D \in 0 .. Len(CallsOf(p)) - 1 /\ todo[p] # << >> /\ call = CallsOf(p)[D + 1]
    BY <1>1, RunningStep
  <2>. QED  BY <1>2, <1>6, <1>7, <1>8, <2>1

(* The plumbing of pipe-launch.c is kept. *)
LEMMA LaunchKept ==
    ASSUME FdInv, NEW p \in Processes, Process(p)
    PROVE  LaunchInv'
<1>1. program' = program
  BY SameProgram
<1>2. CASE program = "pipe_launch"
  <2>1. CASE p = "parent"
    BY <1>1, <1>2, <2>1, LaunchParentKept DEF LaunchInv
  <2>2. CASE p = "child"
    BY <1>1, <1>2, <2>2, LaunchChildKept DEF LaunchInv
  <2>. QED  BY <2>1, <2>2 DEF Processes
<1>. QED  BY <1>1, <1>2 DEF LaunchInv

(* No other program puts anything into the pipe. *)
LEMMA NotPipedKept ==
    ASSUME FdInv, NEW p \in Processes, Process(p)
    PROVE  NotPiped'
<1>1. Typed /\ Course /\ LaunchInv /\ NotPiped /\ program' = program
  BY SameProgram DEF FdInv
<1>2. program # "pipe_launch" => UNCHANGED <<sent, pipeBuf>>
  <2>1. CASE Exit(p)
    BY <1>1, <2>1, ExitStep DEF counters
  <2>2. CASE todo[p] # << >> /\ (Open(p) \/ Dup(p) \/ Dup2(p) \/ Close(p))
    BY <1>1, <2>2, OpenStep, DupStep, Dup2Step, CloseStep DEF counters
  <2>3. CASE todo[p] # << >> /\ (Write(p) \/ Printf(p) \/ Fork(p) \/ Exec(p) \/ Fails(p) \/ Wait(p))
    BY <2>3 DEF Write, Printf, Fork, Exec, Fails, Wait, counters
  <2>4. CASE todo[p] # << >> /\ MakePipe(p)
    BY <2>4 DEF MakePipe, counters
  <2>5. CASE todo[p] # << >> /\ WritePipe(p)
    BY <1>1, <2>5, WritePipeStep
  <2>6. CASE todo[p] # << >> /\ Count(p)
    BY <1>1, <2>6, CountStep
  <2>7. CASE todo[p] # << >> /\ CountEOF(p)
    BY <1>1, <2>7, CountEOFStep
  <2>8. ~Exit(p) => todo[p] # << >>
    BY OneCall
  <2>. QED  BY <2>1, <2>2, <2>3, <2>4, <2>5, <2>6, <2>7, <2>8 DEF Process
<1>. QED  BY <1>1, <1>2 DEF NotPiped

-----------------------------------------------------------------------------
(* The programs that fork. *)

(* A buffer is appended to the file, or nothing is. *)
Printing(p) == todo[p] # << >> /\ todo[p][1][1] \in {"printf", "puts"}
Flushed(p) == content'.stdout = content.stdout \o stdio[p] /\ stdio'[p] = << >>
Silent(p) == content'.stdout = content.stdout /\ stdio'[p] = stdio[p]
Direct(p) ==
    /\ content'.stdout = content.stdout \o <<todo[p][1][2]>> /\ stdio'[p] = stdio[p]
    /\ todo[p][1][1] = "printf"
Buffered(p) == content'.stdout = content.stdout /\ stdio'[p] = Append(stdio[p], todo[p][1][2])

(* What a call but fork() does to stdout, when it was open at the start. *)
LEMMA Effects ==
    ASSUME FdInv, NEW p \in Processes, Process(p), ~(todo[p] # << >> /\ Fork(p)),
           program \in DOMAIN ChildText, 1 \in std, offset.stdout = Len(content.stdout),
           program # "pipe_launch" => fds[p][1] = "stdout"
    PROVE  /\ \A f \in Files \ {"stdout"} : content'[f] = content[f]
           /\ offset'.stdout = Len(content'.stdout)
           /\ \A q \in Processes \ {p} : stdio'[q] = stdio[q]
           /\ IF Printing(p) THEN Direct(p) \/ Buffered(p)
                             ELSE Silent(p) \/ (Exit(p) /\ Flushed(p))
<1>1. /\ Typed /\ Course /\ LaunchInv /\ program' = program /\ "stdout" \in Files
      /\ "stdout" \in Descriptions \cup {"closed"} /\ 1 \in 0 .. MaxFd /\ ~Ended(p)
      /\ content.stdout \in Seq(Texts)
  BY SameProgram, FdZeroOne, OneCall DEF FdInv, Files, Descriptions, Typed
<1>2. ASSUME NEW t \in Seq(Texts), Store("stdout", t)
      PROVE  /\ \A f \in Files \ {"stdout"} : content'[f] = content[f]
             /\ offset'.stdout = Len(content'.stdout) /\ content'.stdout = content.stdout \o t
  BY <1>1, <1>2, StoreAppends, StoreStep
<1>9. ASSUME UNCHANGED <<content, offset>>
      PROVE  /\ \A f \in Files \ {"stdout"} : content'[f] = content[f]
             /\ offset'.stdout = Len(content'.stdout) /\ content'.stdout = content.stdout
  <2>1. content' = content /\ offset' = offset
    BY <1>9
  <2>. QED  BY <2>1
<1>3. CASE Exit(p)
  <2>1. /\ Store(Refers(p, 1), stdio[p]) /\ stdio'[p] = << >>
        /\ \A q \in Processes \ {p} : stdio'[q] = stdio[q]
        /\ todo[p] # << >> => todo[p][1][1] = "exit"
        /\ Refers(p, 1) \in Descriptions \cup {"closed"}
    BY <1>1, <1>3, ExitStep
  <2>2. ~Printing(p)
    BY <2>1 DEF Printing
  <2>3. CASE Refers(p, 1) = "stdout"
    <3>1. stdio[p] \in Seq(Texts) /\ Store("stdout", stdio[p])
      BY <1>1, <2>1, <2>3 DEF Typed
    <3>. QED  BY <1>2, <1>3, <2>1, <2>2, <3>1 DEF Flushed
  <2>4. CASE Refers(p, 1) # "stdout"
    <3>1. program = "pipe_launch" /\ fds[p][1] # "stdout"
      BY <1>1, <2>4 DEF Refers
    <3>2. p = "parent" => status.parent = "running"
      BY <1>1, <3>1 DEF Ended, Course
    <3>3. p = "child"
      BY <1>1, <3>1, <3>2 DEF LaunchInv, ParentLaunch, Processes
    <3>4. stdio[p] = << >>
      BY <1>1, <3>1, <3>3 DEF LaunchInv, ChildLaunch
    <3>5. UNCHANGED <<content, offset>>
      BY <1>1, <2>1, <3>4, StoreNothing
    <3>6. Silent(p)
      BY <2>1, <3>4, <3>5 DEF Silent
    <3>. QED  BY <1>9, <2>1, <2>2, <3>5, <3>6
  <2>. QED  BY <2>3, <2>4
<1>4. CASE todo[p] # << >> /\ Printf(p)
  <2>1. Printing(p)
    BY <1>4 DEF Printing, Printf, Calls
  <2>2. fds[p][1] = "stdout"
    <3>1. program = "pipe_launch" => p = "parent"
      <4>1. p = "child" => todo[p][1][1] \notin {"printf", "puts"} \/ program # "pipe_launch"
        <5>1. CASE status[p] = "running"
          <6>1. todo[p] # Failed \/ todo[p][1][1] = "exit"
            BY DEF Failed
          <6>2. OnText(p) => todo[p][1] = CallsOf(p)[Done(p) + 1] /\ Done(p) \in 0 .. Len(CallsOf(p)) - 1
            BY <1>1, <1>4, NextCall
          <6>3. p = "child" /\ program = "pipe_launch" /\ OnText(p) => todo[p][1][1] # "printf" /\ todo[p][1][1] # "puts"
            BY <6>2 DEF CallsOf, ChildText, PipeLaunchChild
          <6>. QED  BY <1>1, <5>1, <6>1, <6>3 DEF Course
        <5>2. CASE status[p] = "command"
          <6>1. p = "child" => todo[p][1] = <<"write", "STDOUT", "byte">>
            BY <1>1, <1>4, <5>2, Current DEF Course
          <6>. QED  BY <6>1
        <5>. QED  BY <1>1, <5>1, <5>2 DEF Ended, Typed, FdTypeOK
      <4>. QED  BY <2>1, <4>1 DEF Printing, Processes
    <3>2. program = "pipe_launch" => status.parent = "running"
      BY <1>1, <3>1 DEF Ended, Course
    <3>. QED  BY <1>1, <3>1, <3>2 DEF LaunchInv, ParentLaunch
  <2>3. Refers(p, 1) = "stdout"
    BY <1>1, <2>2 DEF Refers
  <2>4. CASE ModeOf(p) = "line" /\ todo[p][1][1] = "printf"
    <3>1. /\ todo[p][1][2] \in Texts /\ stdio' = stdio /\ Store("stdout", <<todo[p][1][2]>>)
      BY <1>1, <1>4, <2>3, <2>4, PrintfStep
    <3>2. <<todo[p][1][2]>> \in Seq(Texts)
      BY <3>1, Lists
    <3>. QED  BY <1>2, <2>1, <2>4, <3>1, <3>2 DEF Direct
  <2>5. CASE ModeOf(p) # "line" \/ todo[p][1][1] # "printf"
    <3>1. stdio'[p] = Append(stdio[p], todo[p][1][2]) /\ UNCHANGED <<content, offset>>
      BY <1>1, <1>4, <2>5, PrintfBuffered
    <3>2. \A q \in Processes \ {p} : stdio'[q] = stdio[q]
      BY <1>1, <1>4, PrintfStep
    <3>. QED  BY <1>1, <2>1, <3>1, <3>2 DEF Buffered
  <2>. QED  BY <2>4, <2>5
<1>5. CASE /\ todo[p] # << >> /\ ~Printing(p)
           /\ UNCHANGED <<content, offset>> /\ \A q \in Processes : stdio'[q] = stdio[q]
  <2>1. Silent(p)
    BY <1>5, <1>9 DEF Silent
  <2>. QED  BY <1>5, <1>9, <2>1
<1>6. CASE todo[p] # << >> /\ ~Exit(p) /\ ~Printf(p)
  <2>1. ~Printing(p)
    BY <1>6, OneCall DEF Printing
  <2>2. UNCHANGED <<content, offset>> /\ \A q \in Processes : stdio'[q] = stdio[q]
    <3>1. CASE Open(p) \/ Dup(p) \/ Dup2(p) \/ Close(p)
      BY <1>1, <1>6, <3>1, OpenStep, DupStep, Dup2Step, CloseStep DEF files, buffers
    <3>2. CASE MakePipe(p) \/ Fails(p) \/ Wait(p)
      BY <1>1, <1>6, <3>2, MakePipeStep, FailsStep, WaitStep DEF files, buffers
    <3>3. CASE WritePipe(p) \/ Count(p) \/ CountEOF(p)
      BY <1>1, <1>6, <3>3, WritePipeStep, CountStep, CountEOFStep DEF files, buffers
    <3>4. CASE Write(p)
      <4>1. todo[p][1][1] = "write" /\ Refers(p, Fd(p, 1)) # "pipeW"
        BY <3>4 DEF Write, Calls
      <4>2. p = "child" /\ program = "pipe_launch" /\ status[p] = "command"
            /\ todo[p][1] = <<"write", "STDOUT", "byte">>
        <5>1. program \notin {"dup", "dup2_file"}
          BY DEF ChildText
        <5>. QED  BY <1>1, <1>6, <4>1, <5>1, Callers
      <4>3. fds.child[1] = "pipeW" /\ var.child.STDOUT = 1
        BY <1>1, <4>2 DEF LaunchInv, ChildLaunch, Typed, Processes
      <4>. QED  BY <1>1, <4>1, <4>2, <4>3 DEF Fd, Arg, Refers
    <3>5. CASE Exec(p)
      <4>1. /\ \/ p = "parent" /\ program \in {"exec_simple", "exec_change_fd"}
               \/ p = "child" /\ program = "pipe_launch"
            /\ stdio'[p] = << >> /\ \A q \in Processes \ {p} : stdio'[q] = stdio[q]
            /\ UNCHANGED <<content, offset>>
        BY <1>1, <1>6, <3>5, ExecStep DEF files
      <4>2. p = "child" /\ program = "pipe_launch"
        BY <4>1 DEF ChildText
      <4>3. stdio[p] = << >>
        BY <1>1, <4>2 DEF LaunchInv, ChildLaunch
      <4>. QED  BY <4>1, <4>3
    <3>. QED  BY <1>6, <3>1, <3>2, <3>3, <3>4, <3>5 DEF Process
  <2>. QED  BY <1>5, <1>6, <2>1, <2>2
<1>. QED
  <2>1. ~Exit(p) => todo[p] # << >>
    BY OneCall
  <2>. QED  BY <1>3, <1>4, <1>6, <2>1

(* A line that is printed is out; another one is where it was, or not. *)
LEMMA OutStep ==
    ASSUME Typed, Typed', NEW p \in Processes, NEW x,
           \A q \in Processes \ {p} : stdio'[q] = stdio[q],
           IF Printing(p) THEN Direct(p) \/ Buffered(p) ELSE Silent(p) \/ (Exit(p) /\ Flushed(p))
    PROVE  /\ ~Printing(p) \/ todo[p][1][2] # x => /\ OneOut(x) => OneOut(x)'
                                                   /\ NoneOut(x) => NoneOut(x)'
           /\ Printing(p) /\ todo[p][1][2] = x /\ NoneOut(x) => OneOut(x)'
<1>. DEFINE line == todo[p][1][2]
            c == content.stdout
<1>1. c \in Seq(Texts) /\ stdio.parent \in Seq(Texts) /\ stdio.child \in Seq(Texts) /\ stdio[p] \in Seq(Texts)
  BY DEF Typed, Processes, Files
<1>2. \/ p = "parent" /\ stdio'.child = stdio.child
      \/ p = "child" /\ stdio'.parent = stdio.parent
  BY DEF Processes
<1>3. NoneIn(<< >>, x) /\ OneIn(<<x>>, x) /\ \A y : y # x => NoneIn(<<y>>, x)
  BY OccursSingle
<1>4. Printing(p) => line \in Texts
  BY Current, CallArguments DEF Printing
<1>5. CASE Printing(p) /\ Direct(p)
  <2>1. <<line>> \in Seq(Texts)
    BY <1>4, <1>5, Lists
  <2>2. content'.stdout = c \o <<line>> /\ stdio'.parent = stdio.parent /\ stdio'.child = stdio.child
    BY <1>2, <1>5 DEF Direct
  <2>. HIDE DEF line, c
  <2>3. line # x => /\ OneIn(c, x) => OneIn(c \o <<line>>, x)
                    /\ NoneIn(c, x) => NoneIn(c \o <<line>>, x)
    BY <1>1, <1>3, <2>1, OccursAppended
  <2>4. line = x => (NoneIn(c, x) => OneIn(c \o <<line>>, x))
    BY <1>1, <1>3, <2>1, OccursAppended
  <2>. QED  BY <1>5, <2>2, <2>3, <2>4 DEF OneOut, NoneOut, line, c
<1>6. CASE Printing(p) /\ Buffered(p)
  <2>1. <<line>> \in Seq(Texts)
    BY <1>4, <1>6, Lists
  <2>2. content'.stdout = c /\ stdio'[p] = stdio[p] \o <<line>>
    BY <1>1, <1>4, <1>6, AppendJoins DEF Buffered
  <2>. HIDE DEF line, c
  <2>3. line # x => /\ OneIn(stdio[p], x) => OneIn(stdio[p] \o <<line>>, x)
                    /\ NoneIn(stdio[p], x) => NoneIn(stdio[p] \o <<line>>, x)
    BY <1>1, <1>3, <2>1, OccursAppended
  <2>4. line = x => (NoneIn(stdio[p], x) => OneIn(stdio[p] \o <<line>>, x))
    BY <1>1, <1>3, <2>1, OccursAppended
  <2>. QED  BY <1>2, <1>6, <2>2, <2>3, <2>4 DEF OneOut, NoneOut, line, c
<1>7. CASE ~Printing(p) /\ Silent(p)
  BY <1>2, <1>7 DEF OneOut, NoneOut, Silent
<1>8. CASE ~Printing(p) /\ Flushed(p)
  <2>1. /\ OneIn(c, x) /\ NoneIn(stdio[p], x) => OneIn(c \o stdio[p], x)
        /\ NoneIn(c, x) /\ NoneIn(stdio[p], x) => NoneIn(c \o stdio[p], x)
        /\ NoneIn(c, x) /\ OneIn(stdio[p], x) => OneIn(c \o stdio[p], x)
    BY <1>1, OccursAppended
  <2>2. content'.stdout = c \o stdio[p] /\ stdio'[p] = << >>
    BY <1>8 DEF Flushed
  <2>. HIDE DEF c
  <2>. QED  BY <1>2, <1>3, <1>8, <2>1, <2>2 DEF OneOut, NoneOut, c
<1>. QED  BY <1>5, <1>6, <1>7, <1>8

(* No line is printed in two places, and a program ends where it says so. *)
LEMMA LinesDiffer ==
    \A x \in Forking \cup {"pipe_launch"} :
       /\ x \in DOMAIN Text /\ x \in DOMAIN ChildText
       /\ \A j, k \in DOMAIN Text[x] :
             /\ Text[x][j][1] \in {"printf", "puts"} /\ Text[x][k][1] \in {"printf", "puts"}
             /\ Text[x][j][2] = Text[x][k][2]
             => j = k
       /\ \A j, k \in DOMAIN ChildText[x] :
             /\ ChildText[x][j][1] \in {"printf", "puts"} /\ ChildText[x][k][1] \in {"printf", "puts"}
             /\ ChildText[x][j][2] = ChildText[x][k][2]
             => j = k
       /\ \A j \in DOMAIN Text[x], k \in DOMAIN ChildText[x] :
             Text[x][j][1] \in {"printf", "puts"} /\ ChildText[x][k][1] \in {"printf", "puts"}
             => Text[x][j][2] # ChildText[x][k][2]
<1>1. ASSUME NEW x \in {"simple_fork"} PROVE Text[x] = SimpleFork /\ ChildText[x] = SimpleForkChild
  BY DEF Text, ChildText
<1>2. ASSUME NEW x \in {"zombie"} PROVE Text[x] = Zombie /\ ChildText[x] = ZombieChild
  BY DEF Text, ChildText
<1>3. ASSUME NEW x \in {"orphan"} PROVE Text[x] = Zombie /\ ChildText[x] = OrphanChild
  BY DEF Text, ChildText
<1>4. ASSUME NEW x \in {"pipe_launch"} PROVE Text[x] = PipeLaunch /\ ChildText[x] = PipeLaunchChild
  BY DEF Text, ChildText
<1>5. ASSUME NEW x \in Forking \cup {"pipe_launch"} PROVE x \in DOMAIN Text /\ x \in DOMAIN ChildText
  BY DEF Forking, Text, ChildText
<1>. DEFINE Differ(s, t) ==
        /\ \A j, k \in DOMAIN s :
              /\ s[j][1] \in {"printf", "puts"} /\ s[k][1] \in {"printf", "puts"} /\ s[j][2] = s[k][2]
              => j = k
        /\ \A j, k \in DOMAIN t :
              /\ t[j][1] \in {"printf", "puts"} /\ t[k][1] \in {"printf", "puts"} /\ t[j][2] = t[k][2]
              => j = k
        /\ \A j \in DOMAIN s, k \in DOMAIN t :
              s[j][1] \in {"printf", "puts"} /\ t[k][1] \in {"printf", "puts"} => s[j][2] # t[k][2]
<1>6. Differ(SimpleFork, SimpleForkChild)
  BY DEF SimpleFork, SimpleForkChild
<1>7. Differ(Zombie, ZombieChild)
  BY DEF Zombie, ZombieChild
<1>8. Differ(Zombie, OrphanChild)
  BY DEF Zombie, OrphanChild
<1>9. Differ(PipeLaunch, PipeLaunchChild)
  <2>1. \A k \in DOMAIN PipeLaunchChild : PipeLaunchChild[k][1] \notin {"printf", "puts"}
    BY DEF PipeLaunchChild
  <2>2. \A k \in DOMAIN PipeLaunch : PipeLaunch[k][1] \in {"printf", "puts"} => k = 10
    BY DEF PipeLaunch
  <2>. QED  BY <2>1, <2>2
<1>10. ASSUME NEW x \in Forking \cup {"pipe_launch"} PROVE Differ(Text[x], ChildText[x])
  BY <1>1, <1>2, <1>3, <1>4, <1>6, <1>7, <1>8, <1>9 DEF Forking
<1>. QED  BY <1>5, <1>10

(* exit() is the child's last call, and not one of the parent. *)
LEMMA LastCalls ==
    \A x \in Forking \cup {"pipe_launch"} :
       /\ \A k \in DOMAIN Text[x] : Text[x][k][1] # "exit"
       /\ \A k \in DOMAIN ChildText[x] : ChildText[x][k][1] = "exit" => k = Len(ChildText[x])
       /\ x # "pipe_launch" =>
             /\ Len(Text[x]) > 0 /\ Text[x][1][1] = "fork"
             /\ \A k \in DOMAIN Text[x] : /\ Text[x][k][1] \in {"fork", "printf", "wait"}
                                          /\ Text[x][k][1] = "fork" => k = 1
                                          /\ Len(Text[x]) \in 1 .. 4
             /\ \A k \in DOMAIN ChildText[x] : ChildText[x][k][1] \in {"printf", "exit"}
<1>1. /\ Text["simple_fork"] = SimpleFork /\ ChildText["simple_fork"] = SimpleForkChild
      /\ Text["zombie"] = Zombie /\ ChildText["zombie"] = ZombieChild
      /\ Text["orphan"] = Zombie /\ ChildText["orphan"] = OrphanChild
      /\ Text["pipe_launch"] = PipeLaunch /\ ChildText["pipe_launch"] = PipeLaunchChild
  BY DEF Text, ChildText
<1>2. /\ \A k \in DOMAIN SimpleFork : /\ SimpleFork[k][1] \in {"fork", "printf", "wait"}
                                      /\ SimpleFork[k][1] = "fork" => k = 1
      /\ Len(SimpleFork) = 4 /\ SimpleFork[1][1] = "fork"
  BY DEF SimpleFork
<1>3. /\ \A k \in DOMAIN Zombie : /\ Zombie[k][1] \in {"fork", "printf", "wait"}
                                  /\ Zombie[k][1] = "fork" => k = 1
      /\ Len(Zombie) = 2 /\ Zombie[1][1] = "fork"
  BY DEF Zombie
<1>4. \A k \in DOMAIN PipeLaunch : PipeLaunch[k][1] # "exit"
  BY DEF PipeLaunch
<1>5. \A k \in DOMAIN SimpleForkChild : /\ SimpleForkChild[k][1] \in {"printf", "exit"}
                                        /\ SimpleForkChild[k][1] = "exit" => k = Len(SimpleForkChild)
  BY DEF SimpleForkChild
<1>6. \A k \in DOMAIN ZombieChild : /\ ZombieChild[k][1] \in {"printf", "exit"}
                                    /\ ZombieChild[k][1] = "exit" => k = Len(ZombieChild)
  BY DEF ZombieChild
<1>7. \A k \in DOMAIN OrphanChild : OrphanChild[k][1] = "printf"
  BY DEF OrphanChild
<1>8. \A k \in DOMAIN PipeLaunchChild : PipeLaunchChild[k][1] = "exit" => k = Len(PipeLaunchChild)
  BY DEF PipeLaunchChild
<1>. QED  BY <1>1, <1>2, <1>3, <1>4, <1>5, <1>6, <1>7, <1>8 DEF Forking

(* A process that prints is on its way. *)
LEMMA Prints ==
    ASSUME FdInv, NEW q \in Processes, Process(q), Printing(q), program \in Forking \cup {"pipe_launch"}
    PROVE  /\ status[q] = "running" /\ OnText(q) /\ Done(q) + 1 \in DOMAIN CallsOf(q)
           /\ todo[q][1] = CallsOf(q)[Done(q) + 1] /\ Done(q) \in Nat
<1>1. Typed /\ Course /\ ~Ended(q) /\ todo[q] # << >> /\ program \in DOMAIN ChildText
  BY OneCall, LinesDiffer DEF FdInv, Printing
<1>2. status[q] = "running"
  <2>1. status[q] \in {"running", "command"}
    BY <1>1 DEF Ended
  <2>2. ASSUME status[q] = "command" PROVE FALSE
    <3>1. q = "child"
      BY <1>1, <2>2 DEF Course, Processes, Forking
    <3>2. todo[q][1] = <<"write", "STDOUT", "byte">>
      BY <1>1, <2>2, <3>1, Current DEF Course
    <3>. QED  BY <3>2 DEF Printing
  <2>. QED  BY <2>1, <2>2
<1>3. OnText(q)
  <2>1. todo[q] # Failed
    BY DEF Printing, Failed
  <2>. QED  BY <1>1, <1>2, <2>1 DEF Course
<1>4. CallsOf(q) \in Seq(CallSet)
  BY <1>1, CallsOfTyped
<1>5. Done(q) \in 0 .. Len(CallsOf(q)) - 1 /\ todo[q][1] = CallsOf(q)[Done(q) + 1]
  BY <1>1, <1>3, NextCall
<1>. QED  BY <1>2, <1>3, <1>4, <1>5

(* Of what a process prints, k of its lines are out. *)
Printed(p, k) == status[p] # "unborn" /\ k <= Done(p)

(* The line that is printed next differs from all others. *)
LEMMA OtherLine ==
    ASSUME FdInv, NEW q \in Processes, Process(q), Printing(q), program \in Forking \cup {"pipe_launch"},
           NEW p \in Processes, NEW k \in DOMAIN CallsOf(p),
           CallsOf(p)[k][1] \in {"printf", "puts"}, ~(p = q /\ k = Done(p) + 1)
    PROVE  CallsOf(p)[k][2] # todo[q][1][2]
<1>. DEFINE j == Done(q) + 1
<1>1. j \in DOMAIN CallsOf(q) /\ todo[q][1] = CallsOf(q)[j]
      /\ CallsOf(q)[j][1] \in {"printf", "puts"}
  BY Prints DEF Printing
<1>. HIDE DEF j
<1>2. CASE p = q
  <2>1. k # j
    BY <1>2 DEF j
  <2>2. CASE p = "parent"
    BY <1>1, <1>2, <2>1, <2>2, LinesDiffer DEF CallsOf
  <2>3. CASE p = "child"
    BY <1>1, <1>2, <2>1, <2>3, LinesDiffer DEF CallsOf
  <2>. QED  BY <2>2, <2>3 DEF Processes
<1>3. CASE p = "parent" /\ q = "child"
  BY <1>1, <1>3, LinesDiffer DEF CallsOf
<1>4. CASE p = "child" /\ q = "parent"
  BY <1>1, <1>4, LinesDiffer DEF CallsOf
<1>. QED  BY <1>2, <1>3, <1>4 DEF Processes

(* A call prints at most the line that it stands for, and none comes back from where a
   program has left its course. *)
LEMMA PrintedStep ==
    ASSUME FdInv, NEW q \in Processes, Process(q), 1 \in std, program \in Forking \cup {"pipe_launch"},
           NEW p \in Processes, Regular(p)', NEW k \in DOMAIN CallsOf(p),
           CallsOf(p)[k][1] \in {"printf", "puts"}
    PROVE  /\ Regular(p)
           /\ Printed(p, k)' <=> Printed(p, k) \/ (p = q /\ Printing(q) /\ k = Done(p) + 1)
<1>. DEFINE T == CallsOf(p)
            D == Done(p)
<1>1. /\ Typed /\ Course /\ LinesInv /\ LaunchInv /\ program' = program
      /\ program \in DOMAIN ChildText /\ program \notin ExecPrograms /\ ~Ended(q)
  BY OneCall, SameProgram, LinesDiffer DEF FdInv, ExecPrograms, Forking
<1>2. T \in Seq(CallSet) /\ k \in 1 .. Len(T) /\ Len(T) \in Nat /\ k \in Nat
  <2>1. T \in Seq(CallSet)
    BY <1>1, CallsOfTyped
  <2>. QED  BY <2>1
<1>3. D \in Int
  <2>1. Len(todo[p]) \in Nat
    BY <1>1 DEF Typed
  <2>. QED  BY <1>2, <2>1 DEF Done
<1>4. ASSUME p # q, todo'[p] = todo[p], status'[p] = "unborn" <=> status[p] = "unborn",
             p = "parent" => status'[p] = status[p], status[p] = "running" => status'[p] = "running"
      PROVE  /\ Regular(p)
             /\ Printed(p, k)' <=> Printed(p, k) \/ (p = q /\ Printing(q) /\ k = Done(p) + 1)
  <2>1. (OnText(p)' <=> OnText(p)) /\ Done(p)' = Done(p)
    BY <1>1, <1>4, Stays
  <2>. QED  BY <1>4, <2>1 DEF Regular, Printed
<1>5. CASE p = "parent" /\ q = "child"
  <2>1. /\ todo[q] # << >> => ~Fork(q) /\ ~Wait(q)
    BY <1>1, <1>5, ForkStep, WaitStep
  <2>2. todo'.parent = todo.parent /\ status'.parent = status.parent
    <3>1. p \in Processes \ {q}
      BY <1>5
    <3>2. CASE todo[q] # << >> /\ Fails(q)
      BY <1>1, <1>5, <3>1, <3>2, FailsStep
    <3>3. CASE todo[q] # << >> /\ Exec(q)
      BY <1>1, <1>5, <3>1, <3>3, ExecStep
    <3>4. CASE Exit(q)
      BY <1>1, <1>5, <3>1, <3>4, ExitStep
    <3>. QED  BY <1>5, <2>1, <3>1, <3>2, <3>3, <3>4, Progress
  <2>. QED  BY <1>4, <1>5, <2>2
<1>6. CASE p = "child" /\ q = "parent"
  <2>1. CASE todo[q] # << >> /\ Fork(q)
    <3>1. status.child = "unborn"
      <4>1. todo.parent[1][1] = "fork" /\ 1 \in DOMAIN todo.parent
        <5>1. todo.parent[1][1] = "fork"
          BY <1>6, <2>1 DEF Fork, Calls
        <5>2. todo.parent \in Seq(CallSet) /\ Len(todo.parent) \in Nat \ {0}
          BY <1>1, <1>6, <2>1, Current
        <5>. QED  BY <5>1, <5>2
      <4>. QED  BY <1>1, <4>1 DEF Course, Forking
    <3>2. status'.child = "running" /\ todo'.child = ChildText[program]
      BY <1>1, <1>6, <2>1, ForkStep
    <3>3. Done(p)' = 0
      BY <1>1, <1>2, <1>6, <3>2 DEF Done, CallsOf
    <3>. QED  BY <1>2, <1>6, <3>1, <3>2, <3>3 DEF Regular, Printed
  <2>2. CASE todo[q] # << >> /\ Wait(q)
    <3>1. todo'.child = todo.child /\ status'.child = "reaped" /\ Ended("child")
      BY <1>1, <1>6, <2>2, WaitStep, ReturnStep
    <3>2. todo.parent[1][1] = "wait"
      BY <1>6, <2>2 DEF Wait, Calls
    <3>3. status.parent = "running" /\ OnText("parent")
      <4>1. status.parent = "running"
        BY <1>1, <1>6 DEF Ended, Course, ExecPrograms
      <4>2. todo.parent # Failed
        BY <3>2 DEF Failed
      <4>. QED  BY <1>1, <1>6, <4>1, <4>2 DEF Course
    <3>4. /\ Done("parent") \in 0 .. Len(CallsOf("parent")) - 1
          /\ CallsOf("parent")[Done("parent") + 1][1] = "wait"
      BY <1>1, <1>6, <2>2, <3>2, <3>3, NextCall
    <3>5. status.child # "unborn"
      <4>1. CASE program = "pipe_launch"
        <5>1. Done("parent") = 7
          BY <3>4, <4>1 DEF CallsOf, Text, PipeLaunch
        <5>2. In("parent", 5, 10)
          BY <3>3, <5>1 DEF In
        <5>. QED  BY <1>1, <4>1, <5>2 DEF LaunchInv, BothLaunch
      <4>2. CASE program \in Forking
        <5>1. /\ Len(CallsOf("parent")) \in 1 .. 4 /\ CallsOf("parent")[1][1] = "fork"
          <6>1. program # "pipe_launch" /\ CallsOf("parent") = Text[program]
            BY <4>2 DEF Forking, CallsOf
          <6>2. Text[program] \in Seq(CallSet)
            BY <1>1, <6>1, CallsOfTyped DEF Processes
          <6>3. Len(Text[program]) > 0 => 1 \in DOMAIN Text[program]
            BY <6>2
          <6>. QED  BY <4>2, <6>1, <6>3, LastCalls
        <5>2. In("parent", 1, 4)
          <6>1. Done("parent") # 0
            BY <3>4, <5>1
          <6>2. Done("parent") \in 1 .. 4
            <7>. DEFINE d == Done("parent")
                        n == Len(CallsOf("parent"))
            <7>1. d \in 0 .. n - 1 /\ n \in 1 .. 4 /\ d # 0
              BY <3>4, <5>1, <6>1
            <7>. HIDE DEF d, n
            <7>2. d \in 1 .. 4
              BY <7>1
            <7>. QED  BY <7>2 DEF d
          <6>. QED  BY <3>3, <6>2 DEF In
        <5>. QED  BY <1>1, <4>2, <5>2 DEF LinesInv
      <4>. QED  BY <4>1, <4>2
    <3>. QED  BY <1>4, <1>6, <3>1, <3>5 DEF Ended
  <2>3. CASE ~(todo[q] # << >> /\ (Fork(q) \/ Wait(q)))
    <3>1. p \in Processes \ {q}
      BY <1>6
    <3>2. todo'.child = todo.child /\ status'.child = status.child
      <4>2. CASE todo[q] # << >> /\ Fails(q)
        BY <1>1, <1>6, <3>1, <4>2, FailsStep
      <4>3. CASE todo[q] # << >> /\ Exec(q)
        BY <1>1, <1>6, <3>1, <4>3, ExecStep
      <4>4. CASE Exit(q)
        BY <1>1, <1>6, <3>1, <4>4, ExitStep
      <4>. QED  BY <1>6, <2>3, <3>1, <4>2, <4>3, <4>4, Progress
    <3>. QED  BY <1>4, <1>6, <3>2
  <2>. QED  BY <2>1, <2>2, <2>3
<1>7. CASE p = q
  <2>1. ~(p = "child" /\ program = "pipe_launch")
    BY <1>2 DEF CallsOf, ChildText, PipeLaunchChild
  <2>2. status[p] = "running"
    BY <1>1, <1>7, <2>1 DEF Ended, Course, ExecPrograms, Processes
  <2>3. CASE ~OnText(p)
    <3>1. todo[p] = Failed /\ Exit(p)
      BY <1>1, <1>7, <2>2, <2>3, RunningStep
    <3>2. p = "parent"
      BY <1>1, <2>1, <2>2, <2>3 DEF LinesInv, Processes
    <3>3. status'[p] = todo[p][1][2] /\ todo[p][1][2] = "1"
      BY <1>1, <3>1, ExitStep DEF Failed
    <3>. QED  BY <3>2, <3>3 DEF Regular
  <2>4. CASE OnText(p) /\ Exit(p)
    <3>1. todo'[p] = << >> /\ status'[p] \in {"0", "1"} /\ (todo[p] # << >> => todo[p][1][1] = "exit")
      BY <1>1, <2>4, ExitStep
    <3>2. Done(p)' = Len(T) - 0
      BY <1>1, <3>1 DEF Done, CallsOf
    <3>3. Printed(p, k)'
      BY <1>2, <3>1, <3>2 DEF Printed
    <3>4. Regular(p)
      BY <2>2, <2>4 DEF Regular
    <3>5. k <= Done(p)
      <4>1. CASE todo[p] = << >>
        BY <1>2, <4>1 DEF Done
      <4>2. CASE todo[p] # << >>
        <5>1. D \in 0 .. Len(T) - 1 /\ T[D + 1][1] = "exit"
          BY <1>1, <2>4, <3>1, <4>2, NextCall
        <5>2. D + 1 \in DOMAIN T
          BY <1>2, <5>1
        <5>3. p = "child"
          BY <5>1, <5>2, LastCalls DEF CallsOf, Processes
        <5>4. D + 1 = Len(T)
          BY <5>1, <5>2, <5>3, LastCalls DEF CallsOf
        <5>5. k # D + 1
          BY <5>1
        <5>. QED  BY <1>2, <5>1, <5>4, <5>5
      <4>. QED  BY <4>1, <4>2
    <3>. QED  BY <2>2, <3>3, <3>4, <3>5 DEF Printed
  <2>5. CASE OnText(p) /\ ~Exit(p)
    <3>1. todo[p] # << >> /\ D \in 0 .. Len(T) - 1 /\ todo[p][1] = T[D + 1] /\ Regular(p)
      <4>1. todo[p] # << >>
        BY <1>7, <2>5, OneCall
      <4>. QED  BY <1>1, <2>2, <2>5, <4>1, NextCall DEF Regular
    <3>2. Printing(q) <=> T[D + 1][1] \in {"printf", "puts"}
      BY <1>7, <3>1 DEF Printing
    <3>3. ASSUME todo'[p] = Tail(todo[p]), status'[p] = "running"
          PROVE  Printed(p, k)' <=> Printed(p, k) \/ (p = q /\ Printing(q) /\ k = Done(p) + 1)
      <4>1. Done(p)' = D + 1
        BY <1>1, <2>5, <3>1, <3>3, Advance
      <4>. QED  BY <1>2, <1>3, <1>7, <2>2, <3>2, <3>3, <4>1 DEF Printed
    <3>4. CASE todo'[p] = Tail(todo[p]) /\ status'[p] = "running"
      BY <3>1, <3>3, <3>4
    <3>5. CASE todo'[p] = todo[p] /\ status' = status
      <4>1. ~Printing(q)
        <5>1. ASSUME Printing(q) PROVE FALSE
          <6>1. Printf(q)
            BY <5>1, OneCall DEF Printing
          <6>2. todo'[p] = Tail(todo[p])
            BY <1>1, <1>7, <3>1, <6>1, PrintfStep, ReturnStep
          <6>3. Len(todo[p]) \in Nat /\ Len(Tail(todo[p])) = Len(todo[p]) - 1
            BY <1>1, <3>1, Current
          <6>4. Tail(todo[p]) = todo[p]
            BY <3>5, <6>2
          <6>. DEFINE n == Len(todo[p])
          <6>5. n = n - 1 /\ n \in Nat
            BY <6>3, <6>4, Zenon
          <6>. HIDE DEF n
          <6>. QED  BY <6>5
        <5>. QED  BY <5>1
      <4>2. Done(p)' = D
        BY <1>1, <3>5, Stays
      <4>. QED  BY <3>1, <3>5, <4>1, <4>2 DEF Printed
    <3>6. CASE Fails(p)
      <4>1. /\ todo'[p] = Failed /\ status' = status
            /\ todo[p][1][1] \in {"open", "dup", "dup2", "pipe", "fork", "exec"}
        <5>1. program \notin {"exec_change_fd", "fflush"}
          BY DEF Forking
        <5>. QED  BY <1>1, <3>1, <3>6, <5>1, FailsStep DEF Fails, Calls
      <4>2. OnText(p)'
        BY <2>2, <4>1 DEF Regular
      <4>3. Len(T) > 0 /\ T[Len(T)] = <<"exit", "1">>
        BY <1>1, <4>1, <4>2, NoReturn
      <4>4. p = "parent" => T = Text[program] /\ Len(T) \in DOMAIN T
        BY <1>2, <4>3 DEF CallsOf
      <4>5. p = "child"
        BY <4>3, <4>4, LastCalls DEF Processes
      <4>6. D + 1 \in DOMAIN ChildText[program] /\ T = ChildText[program]
        BY <1>2, <3>1, <4>5 DEF CallsOf
      <4>. QED  BY <2>1, <3>1, <4>1, <4>5, <4>6, LastCalls
    <3>7. CASE Fork(p) \/ Wait(p)
      <4>1. todo'[p] = Tail(todo[p]) /\ status'[p] = "running"
        BY <1>1, <2>2, <3>1, <3>7, ForkStep, WaitStep, ReturnStep
      <4>. QED  BY <3>1, <3>3, <4>1
    <3>8. ~Exec(p)
      BY <1>1, <2>1, <3>1, ExecStep DEF ExecPrograms
    <3>. QED  BY <1>7, <2>2, <2>5, <3>1, <3>4, <3>5, <3>6, <3>7, <3>8, Progress
  <2>. QED  BY <2>3, <2>4, <2>5
<1>. QED  BY <1>5, <1>6, <1>7 DEF Processes

(* Before fork() nothing is in the buffer. *)
LEMMA ForkStart ==
    ASSUME FdInv, 1 \in std, program \in Forking \cup {"pipe_launch"}, todo.parent # << >>,
           Fork("parent")
    PROVE  stdio.parent = << >> /\ stdio.child = << >> /\ status.child = "unborn" /\ OnText("parent")
<1>1. /\ Typed /\ Course /\ LaunchInv /\ LinesInv /\ "parent" \in Processes /\ "child" \in Processes
      /\ todo.parent[1][1] = "fork" /\ status.parent = "running"
  BY ForkStep DEF FdInv, Processes, Fork, Calls
<1>2. status.child = "unborn"
  <2>1. todo.parent \in Seq(CallSet) /\ Len(todo.parent) \in Nat \ {0}
    BY <1>1, Current
  <2>2. 1 \in DOMAIN todo.parent
    BY <2>1
  <2>. QED  BY <1>1, <2>2 DEF Course, Forking
<1>3. OnText("parent")
  <2>1. todo.parent # Failed
    BY <1>1 DEF Failed
  <2>. QED  BY <1>1, <2>1 DEF Course
<1>4. /\ Done("parent") \in 0 .. Len(CallsOf("parent")) - 1
      /\ CallsOf("parent")[Done("parent") + 1][1] = "fork"
      /\ CallsOf("parent") \in Seq(CallSet)
  BY <1>1, <1>3, NextCall, CallsOfTyped
<1>5. CASE program = "pipe_launch"
  <2>1. Done("parent") \in 0 .. 9
    BY <1>4, <1>5 DEF CallsOf, Text, PipeLaunch
  <2>2. In("parent", 0, 9)
    BY <1>1, <1>3, <2>1 DEF In
  <2>. QED  BY <1>1, <1>2, <1>3, <1>5, <2>2 DEF LaunchInv, ParentLaunch, ChildLaunch
<1>6. CASE program \in Forking
  <2>1. Done("parent") + 1 \in DOMAIN Text[program] /\ Text[program][Done("parent") + 1][1] = "fork"
    BY <1>4 DEF CallsOf
  <2>2. Done("parent") + 1 = 1
    <3>1. program # "pipe_launch"
      BY <1>6 DEF Forking
    <3>. QED  BY <2>1, <3>1, LastCalls
  <2>3. In("parent", 0, 0)
    BY <1>1, <1>3, <1>4, <2>2 DEF In
  <2>4. Ended("child")
    BY <1>2 DEF Ended
  <2>. QED  BY <1>1, <1>2, <1>3, <1>6, <2>3, <2>4 DEF LinesInv
<1>. QED  BY <1>5, <1>6

(* Of each line the copies are as many as they were, or one if it was printed now. *)
LEMMA LinesOut ==
    ASSUME FdInv, NEW q \in Processes, Process(q), 1 \in std, program \in Forking \cup {"pipe_launch"}
    PROVE  /\ OthersOld' /\ offset'.stdout = Len(content'.stdout)
           /\ \A p \in Processes : Regular(p)' =>
                 \A k \in DOMAIN CallsOf(p) : \A x \in {CallsOf(p)[k][2]} :
                    CallsOf(p)[k][1] \in {"printf", "puts"} =>
                    IF Printed(p, k)' THEN OneOut(x)' ELSE NoneOut(x)'
<1>1. /\ Typed /\ Typed' /\ Course /\ LaunchInv /\ LinesInv /\ program' = program
      /\ program \in DOMAIN ChildText /\ ~Ended(q) /\ OthersOld /\ offset.stdout = Len(content.stdout)
  BY TypedStep, SameProgram, LinesDiffer, OneCall DEF FdInv, LinesInv
<1>2. ASSUME NEW p \in Processes, Regular(p)', NEW k \in DOMAIN CallsOf(p),
             CallsOf(p)[k][1] \in {"printf", "puts"}, NEW x \in {CallsOf(p)[k][2]}
      PROVE  /\ Printed(p, k)' <=> Printed(p, k) \/ (p = q /\ Printing(q) /\ k = Done(p) + 1)
             /\ IF Printed(p, k) THEN OneOut(x) ELSE NoneOut(x)
  BY <1>1, <1>2, PrintedStep DEF LinesInv, Printed
<1>3. CASE todo[q] # << >> /\ Fork(q)
  <2>1. q = "parent" /\ ~Printing(q)
    BY <1>1, <1>3, ForkStep DEF Printing, Fork, Calls
  <2>2. stdio.parent = << >> /\ stdio.child = << >>
    BY <1>3, <2>1, ForkStart
  <2>3. /\ stdio'.parent = stdio.parent /\ stdio'.child = stdio.child
        /\ content' = content /\ offset' = offset
    BY <1>1, <1>3, <2>1, <2>2, ForkStep DEF files
  <2>4. \A x : (OneOut(x) => OneOut(x)') /\ (NoneOut(x) => NoneOut(x)')
    BY <2>3 DEF OneOut, NoneOut
  <2>5. OthersOld' /\ offset'.stdout = Len(content'.stdout)
    BY <1>1, <2>3 DEF OthersOld
  <2>. QED  BY <1>2, <2>1, <2>4, <2>5
<1>4. CASE ~(todo[q] # << >> /\ Fork(q))
  <2>1. program # "pipe_launch" => fds[q][1] = "stdout"
    <3>1. program # "pipe_launch" => status[q] = "running" /\ program \in Forking
      BY <1>1 DEF Ended, Course, Processes, Forking
    <3>. QED  BY <1>1, <3>1 DEF LinesInv
  <2>2. /\ \A f \in Files \ {"stdout"} : content'[f] = content[f]
        /\ offset'.stdout = Len(content'.stdout)
        /\ \A p \in Processes \ {q} : stdio'[p] = stdio[p]
        /\ IF Printing(q) THEN Direct(q) \/ Buffered(q) ELSE Silent(q) \/ (Exit(q) /\ Flushed(q))
    BY <1>1, <1>4, <2>1, Effects
  <2>3. OthersOld'
    BY <1>1, <2>2 DEF OthersOld
  <2>4. \A x : /\ ~Printing(q) \/ todo[q][1][2] # x => /\ OneOut(x) => OneOut(x)'
                                                       /\ NoneOut(x) => NoneOut(x)'
               /\ Printing(q) /\ todo[q][1][2] = x /\ NoneOut(x) => OneOut(x)'
    BY <1>1, <2>2, OutStep
  <2>5. ASSUME NEW p \in Processes, Regular(p)', NEW k \in DOMAIN CallsOf(p),
               CallsOf(p)[k][1] \in {"printf", "puts"}, NEW x \in {CallsOf(p)[k][2]}
        PROVE  IF Printed(p, k)' THEN OneOut(x)' ELSE NoneOut(x)'
    <3>1. CASE p = q /\ Printing(q) /\ k = Done(p) + 1
      <4>1. todo[q][1] = CallsOf(p)[k] /\ Done(p) \in Nat
        BY <3>1, Prints
      <4>2. ~Printed(p, k)
        BY <3>1, <4>1 DEF Printed
      <4>. QED  BY <1>2, <2>4, <2>5, <3>1, <4>1, <4>2
    <3>2. CASE ~(p = q /\ Printing(q) /\ k = Done(p) + 1)
      <4>1. ~Printing(q) \/ todo[q][1][2] # x
        BY <2>5, <3>2, OtherLine
      <4>2. Printed(p, k)' <=> Printed(p, k)
        BY <1>2, <2>5, <3>2
      <4>. QED  BY <1>2, <2>4, <2>5, <4>1, <4>2
    <3>. QED  BY <3>1, <3>2
  <2>. QED  BY <2>2, <2>3, <2>5
<1>. QED  BY <1>3, <1>4

(* What LinesInv says of the programs that only fork and print. *)
ForkingLines ==
    /\ \A p \in Processes : status[p] = "running" => fds[p][1] = "stdout"
    /\ In("parent", 0, 0) => stdio.parent = << >>
    /\ In("parent", 1, 4) => status.child # "unborn"
    /\ \A p \in Processes : Ended(p) => stdio[p] = << >>
    /\ status.child = "running" => OnText("child")

(* It is kept. *)
LEMMA ForkingKept ==
    ASSUME FdInv, NEW q \in Processes, Process(q), 1 \in std, program \in Forking
    PROVE  ForkingLines'
<1>1. /\ Typed /\ Course /\ LinesInv /\ ForkingLines /\ program' = program
      /\ program \in DOMAIN ChildText /\ program # "pipe_launch" /\ ~Ended(q)
      /\ "parent" \in Processes /\ "child" \in Processes
  BY SameProgram, LinesDiffer, OneCall DEF FdInv, LinesInv, ForkingLines, Forking, Processes
<1>2. status[q] = "running" /\ fds[q][1] = "stdout"
  <2>1. status[q] = "running"
    BY <1>1 DEF Ended, Course, Processes, Forking
  <2>. QED  BY <1>1, <2>1 DEF ForkingLines
<1>3. ASSUME OnText(q), todo[q] # << >>
      PROVE  /\ Done(q) \in Nat /\ todo[q][1][1] \in {"fork", "printf", "wait", "exit"}
             /\ q = "parent" /\ todo[q][1][1] # "fork" => Done(q) # 0
             /\ q = "parent" => todo[q][1][1] # "exit"
             /\ q = "child" => todo[q][1][1] \in {"printf", "exit"}
             /\ Returns(q) => OnText(q)' /\ Done(q)' = Done(q) + 1
  <2>. DEFINE T == CallsOf(q)
              D == Done(q)
  <2>1. T \in Seq(CallSet) /\ D \in 0 .. Len(T) - 1 /\ todo[q][1] = T[D + 1]
    BY <1>1, <1>3, NextCall, CallsOfTyped
  <2>2. D + 1 \in DOMAIN T
    BY <2>1
  <2>3. Returns(q) => OnText(q)' /\ Done(q)' = D + 1
    BY <1>2, <1>3, Returned
  <2>4. CASE q = "parent"
    <3>1. T = Text[program]
      BY <2>4 DEF CallsOf
    <3>2. T[1][1] = "fork" /\ T[D + 1][1] \in {"fork", "printf", "wait"}
      BY <1>1, <2>2, <3>1, LastCalls
    <3>. QED  BY <2>1, <2>3, <2>4, <3>2
  <2>5. CASE q = "child"
    <3>1. T = ChildText[program]
      BY <2>5 DEF CallsOf
    <3>2. T[D + 1][1] \in {"printf", "exit"}
      BY <1>1, <2>2, <3>1, LastCalls
    <3>. QED  BY <2>1, <2>3, <2>5, <3>2
  <2>. QED  BY <2>4, <2>5 DEF Processes
<1>4. ASSUME NEW p \in Processes, todo'[p] = todo[p]
      PROVE  (OnText(p)' <=> OnText(p)) /\ Done(p)' = Done(p)
  BY <1>1, <1>4, Stays
<1>5. CASE Exit(q)
  <2>1. /\ status'[q] \in {"0", "1"} /\ stdio'[q] = << >>
        /\ \A p \in Processes \ {q} : /\ todo'[p] = todo[p] /\ status'[p] = status[p]
                                      /\ stdio'[p] = stdio[p] /\ fds'[p] = fds[p]
    BY <1>1, <1>5, ExitStep
  <2>2. CASE q = "parent"
    BY <1>1, <1>4, <2>1, <2>2 DEF ForkingLines, In, Ended, Processes
  <2>3. CASE q = "child"
    <3>1. \A lo, hi \in Nat : In("parent", lo, hi)' <=> In("parent", lo, hi)
      BY <1>1, <2>1, <2>3, Stays
    <3>. QED  BY <1>1, <2>1, <2>3, <3>1 DEF ForkingLines, Ended, Processes
  <2>. QED  BY <2>2, <2>3 DEF Processes
<1>6. CASE todo[q] # << >> /\ Printf(q)
  <2>1. /\ UNCHANGED <<status, fds>> /\ Returns(q)
        /\ \A p \in Processes \ {q} : stdio'[p] = stdio[p] /\ todo'[p] = todo[p]
        /\ todo[q][1][1] \in {"printf", "puts"}
    BY <1>1, <1>6, PrintfStep, ReturnStep DEF Printf, Calls
  <2>2. OnText(q)
    <3>1. todo[q] # Failed
      BY <2>1 DEF Failed
    <3>. QED  BY <1>1, <1>2, <3>1 DEF Course
  <2>3. OnText(q)' /\ Done(q)' = Done(q) + 1 /\ Done(q) \in Nat
    BY <1>3, <1>6, <2>1, <2>2
  <2>4. /\ \A p \in Processes : status'[p] = "running" => fds'[p][1] = "stdout"
        /\ \A p \in Processes : Ended(p)' => stdio'[p] = << >>
    BY <1>1, <2>1 DEF ForkingLines, Ended
  <2>5. status'.child = "running" => OnText("child")'
    BY <1>1, <1>4, <2>1, <2>3 DEF ForkingLines
  <2>6. CASE q = "parent"
    <3>1. Done(q) # 0
      BY <1>3, <1>6, <2>1, <2>2, <2>6
    <3>2. ~In("parent", 0, 0)'
      BY <2>3, <2>6 DEF In
    <3>3. In("parent", 1, 4)' => In("parent", 1, 4)
      BY <1>2, <2>2, <2>3, <2>6, <3>1 DEF In
    <3>. QED  BY <1>1, <2>1, <2>4, <2>5, <3>2, <3>3 DEF ForkingLines
  <2>7. CASE q = "child"
    <3>1. \A lo, hi \in Nat : In("parent", lo, hi)' <=> In("parent", lo, hi)
      BY <1>1, <2>1, <2>7, Stays
    <3>2. stdio'.parent = stdio.parent /\ status'.child = "running"
      BY <1>1, <1>2, <2>1, <2>7
    <3>. QED  BY <1>1, <2>4, <2>5, <3>1, <3>2 DEF ForkingLines
  <2>. QED  BY <2>6, <2>7 DEF Processes
<1>7. CASE todo[q] # << >> /\ Wait(q)
  <2>1. /\ q = "parent" /\ UNCHANGED <<fds, stdio>> /\ Returns(q) /\ status'.child = "reaped"
        /\ status'.parent = "running" /\ Ended("child") /\ todo[q][1][1] = "wait"
    BY <1>1, <1>2, <1>7, WaitStep DEF buffers, Wait, Calls
  <2>2. OnText(q)
    <3>1. todo[q] # Failed
      BY <2>1 DEF Failed
    <3>. QED  BY <1>1, <1>2, <3>1 DEF Course
  <2>3. OnText(q)' /\ Done(q)' = Done(q) + 1 /\ Done(q) \in Nat
    BY <1>3, <1>7, <2>1, <2>2
  <2>4. ~In("parent", 0, 0)'
    BY <2>1, <2>3 DEF In
  <2>. QED  BY <1>1, <1>2, <2>1, <2>4 DEF ForkingLines, Ended, Processes
<1>8. CASE todo[q] # << >> /\ Fork(q)
  <2>1. /\ q = "parent" /\ status'.parent = "running" /\ status'.child = "running"
        /\ fds'.parent = fds.parent /\ fds'.child = fds.parent
        /\ todo'.parent = Tail(todo.parent) /\ todo'.child = ChildText[program]
    BY <1>1, <1>8, ForkStep
  <2>2. OnText("parent")
    BY <1>8, <2>1, ForkStart
  <2>3. OnText("parent")' /\ Done("parent")' = Done("parent") + 1
    BY <1>1, <1>8, <2>1, <2>2, Advance
  <2>4. ~In("parent", 0, 0)'
    BY <2>2, <2>3 DEF In, OnText
  <2>5. OnText("child")'
    <3>. DEFINE T == ChildText[program]
    <3>1. T \in Seq(CallSet)
      BY <1>1, ChildTextTyped
    <3>2. Len(T) \in Nat /\ SubSeq(T, 1, Len(T)) = T
      BY <3>1
    <3>3. Done("child")' = 0
      BY <1>1, <2>1, <3>2 DEF Done, CallsOf
    <3>4. CallsOf("child")' = T
      BY <1>1 DEF CallsOf
    <3>5. Rest(T, 0) = T
      BY <3>2 DEF Rest
    <3>. QED  BY <2>1, <3>2, <3>3, <3>4, <3>5 DEF OnText
  <2>. QED  BY <1>1, <1>2, <2>1, <2>4, <2>5 DEF ForkingLines, Ended, Processes
<1>9. CASE todo[q] # << >> /\ Fails(q)
  <2>1. /\ todo'[q] = Failed /\ UNCHANGED <<status, fds, stdio>>
        /\ \A p \in Processes \ {q} : todo'[p] = todo[p]
        /\ todo[q][1][1] \in {"open", "dup", "dup2", "pipe", "fork", "exec"}
    <3>1. program \notin {"exec_change_fd", "fflush"}
      BY DEF Forking
    <3>. QED  BY <1>1, <1>9, <3>1, FailsStep DEF Fails, Calls, buffers
  <2>2. q = "parent"
    <3>1. todo[q] # Failed
      BY <2>1 DEF Failed
    <3>2. OnText(q)
      BY <1>1, <1>2, <3>1 DEF Course
    <3>. QED  BY <1>3, <1>9, <2>1, <3>2 DEF Processes
  <2>3. ~OnText("parent")'
    <3>1. ASSUME OnText("parent")' PROVE FALSE
      <4>1. Len(CallsOf("parent")) > 0 /\ CallsOf("parent")[Len(CallsOf("parent"))] = <<"exit", "1">>
        BY <1>1, <2>1, <2>2, <3>1, NoReturn
      <4>2. CallsOf("parent") = Text[program] /\ CallsOf("parent") \in Seq(CallSet)
        BY <1>1, CallsOfTyped DEF CallsOf
      <4>3. Len(CallsOf("parent")) \in DOMAIN CallsOf("parent")
        BY <4>1, <4>2
      <4>. QED  BY <4>1, <4>2, <4>3, LastCalls
    <3>. QED  BY <3>1
  <2>4. \A lo, hi \in Nat : ~In("parent", lo, hi)'
    BY <2>3 DEF In
  <2>5. OnText("child")' <=> OnText("child")
    BY <1>1, <1>4, <2>1, <2>2
  <2>. QED  BY <1>1, <2>1, <2>4, <2>5 DEF ForkingLines, Ended
<1>10. Exit(q) \/ (todo[q] # << >> /\ todo[q][1][1] \in {"fork", "printf", "wait"})
  <2>1. CASE OnText(q)
    BY <1>3, <2>1, OneCall
  <2>2. CASE ~OnText(q)
    BY <1>1, <1>2, <2>2, RunningStep
  <2>. QED  BY <2>1, <2>2
<1>. QED  BY <1>5, <1>6, <1>7, <1>8, <1>9, <1>10, OneCall

(* The lines of the programs that fork and of pipe-launch.c. *)
LEMMA LinesKept ==
    ASSUME FdInv, NEW q \in Processes, Process(q)
    PROVE  LinesInv'
<1>1. program' = program /\ std' = std
  BY SameProgram
<1>2. SUFFICES ASSUME program \in Forking \cup {"pipe_launch"}, 1 \in std PROVE LinesInv'
  BY <1>1 DEF LinesInv
<1>3. OthersOld' /\ offset'.stdout = Len(content'.stdout)
  BY <1>2, LinesOut
<1>4. program \in Forking => ForkingLines'
  BY <1>2, ForkingKept
<1>5. ASSUME NEW p \in Processes, Regular(p)', NEW k \in DOMAIN CallsOf(p),
             CallsOf(p)[k][1] \in {"printf", "puts"}
      PROVE  IF status'[p] # "unborn" /\ k <= Done(p)' THEN OneOut(CallsOf(p)[k][2])'
                                                        ELSE NoneOut(CallsOf(p)[k][2])'
  <2>. DEFINE x == CallsOf(p)[k][2]
  <2>1. x \in {CallsOf(p)[k][2]} /\ x' = x
    BY <1>1 DEF CallsOf
  <2>2. IF Printed(p, k)' THEN OneOut(x)' ELSE NoneOut(x)'
    <3>1. \A y \in {x} : IF Printed(p, k)' THEN OneOut(y)' ELSE NoneOut(y)'
      BY <1>2, <1>5, LinesOut
    <3>. QED  BY <2>1, <3>1 DEF OneOut, NoneOut
  <2>. QED  BY <2>2 DEF Printed
<1>6. \A p \in Processes : CallsOf(p)' = CallsOf(p)
  BY <1>1 DEF CallsOf
<1>. QED  BY <1>1, <1>3, <1>4, <1>5, <1>6 DEF LinesInv, ForkingLines

(* What the buffers of fflush.c hold is kept. *)
LEMMA FlushKept ==
    ASSUME FdInv, NEW q \in Processes, Process(q)
    PROVE  FlushInv'
<1>1. program' = program /\ std' = std
  BY SameProgram
<1>2. SUFFICES ASSUME program = "fflush", 1 \in std PROVE FlushInv'
  BY <1>1 DEF FlushInv
<1>. DEFINE Sofar(sp, sc) == CASE sp = "0" /\ sc = "0" -> HelloWorld \o HelloWorld
                               [] sp = "0" /\ sc # "0" -> HelloWorld
                               [] sp # "0" /\ sc = "0" -> HelloWorld
                               [] OTHER -> << >>
            D == Done("parent")
<1>3. /\ Typed /\ Course /\ ~Ended(q) /\ program \in DOMAIN ChildText
      /\ "parent" \in Processes /\ "child" \in Processes
  BY OneCall, <1>2 DEF FdInv, Processes, ChildText
<1>4. /\ OthersOld /\ offset.stdout = Len(content.stdout)
      /\ \A p \in Processes : status[p] = "running" => fds[p][1] = "stdout"
      /\ In("parent", 0, 0) => status.child = "unborn" /\ stdio.parent = << >>
      /\ In("parent", 1, 2) => stdio.parent = HelloWorld
      /\ \A p \in Processes : Ended(p) => stdio[p] = << >>
      /\ status.parent \in {"running", "0"}
      /\ status.parent = "running" => OnText("parent")
      /\ status.child \in {"unborn", "running", "0"}
      /\ todo.child = << >>
      /\ status.child = "running" => stdio.child = HelloWorld
      /\ content.stdout = Sofar(status.parent, status.child)
  BY <1>2 DEF FdInv, FlushInv
<1>5. status[q] = "running" /\ fds[q][1] = "stdout"
  BY <1>3, <1>4 DEF Ended, Processes
<1>6. ~(todo[q] # << >> /\ Fork(q)) =>
      /\ \A f \in Files \ {"stdout"} : content'[f] = content[f]
      /\ offset'.stdout = Len(content'.stdout)
      /\ \A p \in Processes \ {q} : stdio'[p] = stdio[p]
      /\ IF Printing(q) THEN Direct(q) \/ Buffered(q) ELSE Silent(q) \/ (Exit(q) /\ Flushed(q))
  BY <1>2, <1>3, <1>4, <1>5, Effects
<1>7. /\ HelloWorld # << >> /\ HelloWorld \in Seq(Texts) /\ << >> \o HelloWorld = HelloWorld
      /\ Append(<< >>, "hello_world") = HelloWorld
  <2>1. "hello_world" \in Texts
    BY DEF Texts
  <2>. QED  BY <2>1 DEF HelloWorld
<1>8. CASE q = "child"
  <2>1. Exit("child") /\ todo.child = << >> /\ ~Printing("child")
    BY <1>4, <1>8, OneCall DEF Printing
  <2>2. /\ status'.child = "0" /\ stdio'.child = << >> /\ todo'.child = << >>
        /\ todo'.parent = todo.parent /\ status'.parent = status.parent
        /\ stdio'.parent = stdio.parent /\ fds'.parent = fds.parent
    BY <1>3, <2>1, ExitStep DEF Processes
  <2>3. stdio.child = HelloWorld
    BY <1>4, <1>5, <1>8
  <2>4. content'.stdout = content.stdout \o HelloWorld
    BY <1>6, <1>7, <1>8, <2>1, <2>2, <2>3 DEF Silent, Flushed, Fork, Calls
  <2>5. OthersOld' /\ offset'.stdout = Len(content'.stdout)
    <3>1. (\A f \in Files \ {"stdout"} : content'[f] = content[f]) /\ offset'.stdout = Len(content'.stdout)
      BY <1>6, <1>8, <2>1
    <3>. QED  BY <1>4, <3>1 DEF OthersOld
  <2>6. content.stdout = IF status.parent = "0" THEN HelloWorld ELSE << >>
    BY <1>4, <1>5, <1>8
  <2>7. content'.stdout = Sofar(status'.parent, status'.child)
    BY <1>7, <2>2, <2>4, <2>6
  <2>8. (\A lo, hi \in Nat : In("parent", lo, hi)' <=> In("parent", lo, hi))
        /\ (OnText("parent")' <=> OnText("parent"))
    BY <1>1, <1>3, <2>2, Stays
  <2>9. ~In("parent", 0, 0)
    BY <1>4, <1>5, <1>8
  <2>. HIDE DEF Sofar
  <2>10. /\ \A p \in Processes : status'[p] = "running" => fds'[p][1] = "stdout"
         /\ \A p \in Processes : Ended(p)' => stdio'[p] = << >>
    BY <1>4, <2>2 DEF Ended, Processes
  <2>. QED  BY <1>4, <2>2, <2>5, <2>7, <2>8, <2>9, <2>10 DEF FlushInv, Sofar
<1>9. CASE q = "parent"
  <2>1. OnText("parent") /\ status.parent = "running"
    BY <1>4, <1>5, <1>9
  <2>2. CallsOf("parent") = Fflush /\ Len(Fflush) = 2 /\ Fflush[1] = <<"puts", "hello_world">>
        /\ Fflush[2] = <<"fork">>
    BY <1>2 DEF CallsOf, Text, Fflush
  <2>3. D \in 0 .. 2 /\ \A lo, hi \in Nat : In("parent", lo, hi) <=> D \in lo .. hi
    BY <2>1, <2>2 DEF OnText, In
  <2>4. /\ D = 2 <=> todo.parent = << >>
        /\ D = 0 => todo.parent[1] = <<"puts", "hello_world">>
        /\ D = 1 => todo.parent[1] = <<"fork">>
    <3>. DEFINE n == Len(CallsOf("parent"))
                m == Len(todo.parent)
    <3>0. n = 2
      BY <2>2, Zenon
    <3>3. D = n - m /\ (todo.parent = << >> => m = 0)
      BY DEF Done
    <3>4. todo.parent # << >> => D \in 0 .. n - 1 /\ todo.parent[1] = CallsOf("parent")[D + 1]
      BY <1>3, <2>1, NextCall
    <3>5. todo.parent # << >> => todo.parent[1] = Fflush[D + 1]
      BY <2>2, <3>4, Zenon
    <3>. HIDE DEF n, m, D
    <3>1. todo.parent # << >> => D \in 0 .. 1 /\ todo.parent[1] = Fflush[D + 1]
      BY <3>0, <3>4, <3>5
    <3>2. todo.parent = << >> => D = 2
      BY <3>0, <3>3
    <3>. QED  BY <2>2, <2>3, <3>1, <3>2
  <2>5. content.stdout = IF status.child = "0" THEN HelloWorld ELSE << >>
    BY <1>4, <2>1
  <2>6. Returns("parent") /\ todo.parent # << >> =>
           /\ OnText("parent")' /\ Done("parent")' = D + 1 /\ todo'.child = todo.child
    BY <1>3, <1>5, <1>9, <2>1, Returned, ReturnStep DEF Processes
  <2>. HIDE DEF D, Sofar
  <2>7. CASE D = 0
    <3>0. todo.parent # << >> /\ todo.parent[1][1] = "puts" /\ todo.parent[1][2] = "hello_world"
      BY <2>4, <2>7
    <3>1. Printf("parent") /\ todo.parent # << >> /\ Printing("parent")
          /\ ~Fork("parent") /\ todo.parent[1][2] = "hello_world" /\ ~Direct("parent")
      BY <1>9, <3>0, OneCall DEF Printing, Fork, Calls, Direct
    <3>2. UNCHANGED <<status, fds>> /\ Returns("parent")
      BY <1>3, <3>1, PrintfStep
    <3>3. stdio.parent = << >> /\ status.child = "unborn"
      <4>1. In("parent", 0, 0)
        BY <2>3, <2>7
      <4>. QED  BY <1>4, <4>1
    <3>4. /\ stdio'.parent = HelloWorld /\ stdio'.child = stdio.child
          /\ \A f \in Files : content'[f] = content[f]
          /\ content'.stdout = content.stdout /\ offset'.stdout = Len(content'.stdout)
      BY <1>3, <1>6, <1>7, <1>9, <3>1, <3>3 DEF Buffered, Processes
    <3>5. OthersOld'
      BY <1>4, <3>4 DEF OthersOld
    <3>6. OnText("parent")' /\ Done("parent")' = 1 /\ todo'.child = << >>
      BY <1>4, <2>6, <2>7, <3>1, <3>2
    <3>7. ~In("parent", 0, 0)'
      BY <3>6 DEF In
    <3>8. /\ \A p \in Processes : status'[p] = "running" => fds'[p][1] = "stdout"
          /\ \A p \in Processes : Ended(p)' => stdio'[p] = << >>
      BY <1>4, <2>1, <3>2, <3>4 DEF Ended, Processes
    <3>9. content'.stdout = Sofar(status'.parent, status'.child)
      BY <1>4, <3>2, <3>4
    <3>. QED  BY <1>4, <2>1, <3>2, <3>3, <3>4, <3>5, <3>6, <3>7, <3>8, <3>9 DEF FlushInv, Sofar
  <2>8. CASE D = 1 /\ Fork("parent")
    <3>1. todo.parent # << >> /\ stdio.parent = HelloWorld
      BY <1>4, <2>3, <2>4, <2>8
    <3>2. status.child = "unborn"
      <4>1. todo.parent \in Seq(CallSet) /\ Len(todo.parent) \in Nat \ {0} /\ todo.parent[1][1] = "fork"
        BY <1>3, <2>4, <2>8, <3>1, Current
      <4>2. 1 \in DOMAIN todo.parent
        BY <4>1
      <4>. QED  BY <1>2, <1>3, <4>1, <4>2 DEF Course
    <3>3. /\ status'.parent = "running" /\ status'.child = "running"
          /\ todo'.parent = Tail(todo.parent) /\ todo'.child = ChildText[program]
          /\ fds'.parent = fds.parent /\ fds'.child = fds.parent
          /\ stdio'.parent = stdio.parent /\ stdio'.child = stdio.parent
          /\ content' = content /\ offset' = offset
      BY <1>3, <2>8, <3>1, ForkStep DEF files
    <3>4. todo'.child = << >>
      BY <1>2, <3>3 DEF ChildText
    <3>5. OnText("parent")' /\ Done("parent")' = 2
      BY <1>1, <1>3, <2>1, <2>8, <3>1, <3>3, Advance DEF D
    <3>6. OthersOld' /\ offset'.stdout = Len(content'.stdout)
      BY <1>4, <3>3 DEF OthersOld
    <3>7. ~In("parent", 0, 0)'
      BY <3>5 DEF In
    <3>8. /\ \A p \in Processes : status'[p] = "running" => fds'[p][1] = "stdout"
          /\ \A p \in Processes : Ended(p)' => stdio'[p] = << >>
      BY <1>4, <2>1, <3>3 DEF Ended, Processes
    <3>9. content'.stdout = Sofar(status'.parent, status'.child)
      BY <2>5, <3>2, <3>3 DEF Sofar
    <3>. QED  BY <3>1, <3>3, <3>4, <3>5, <3>6, <3>7, <3>8, <3>9 DEF FlushInv, Sofar
  <2>9. CASE D = 1 /\ Fails("parent")
    <3>1. todo.parent # << >> /\ stdio.parent = HelloWorld
      BY <1>4, <2>3, <2>4, <2>9
    <3>2. Returns("parent") /\ UNCHANGED <<status, fds, stdio, content, offset>>
      BY <1>2, <1>3, <2>9, <3>1, FailsStep DEF buffers, files
    <3>3. OnText("parent")' /\ Done("parent")' = 2 /\ todo'.child = << >>
      BY <1>4, <2>6, <2>9, <3>1, <3>2
    <3>4. OthersOld' /\ offset'.stdout = Len(content'.stdout)
      BY <1>4, <3>2 DEF OthersOld
    <3>5. ~In("parent", 0, 0)'
      BY <3>3 DEF In
    <3>6. /\ \A p \in Processes : status'[p] = "running" => fds'[p][1] = "stdout"
          /\ \A p \in Processes : Ended(p)' => stdio'[p] = << >>
      BY <1>4, <3>2 DEF Ended
    <3>7. content'.stdout = Sofar(status'.parent, status'.child)
      BY <1>4, <3>2
    <3>. QED  BY <1>4, <3>1, <3>2, <3>3, <3>4, <3>5, <3>6, <3>7 DEF FlushInv, Sofar
  <2>10. CASE D = 2
    <3>1. Exit("parent") /\ todo.parent = << >> /\ ~Printing("parent")
      BY <1>9, <2>4, <2>10, OneCall DEF Printing
    <3>2. /\ status'.parent = "0" /\ stdio'.parent = << >> /\ todo'.child = todo.child
          /\ status'.child = status.child /\ stdio'.child = stdio.child /\ fds'.child = fds.child
      BY <1>3, <3>1, ExitStep DEF Processes
    <3>3. stdio.parent = HelloWorld
      BY <1>4, <2>3, <2>10
    <3>4. content'.stdout = content.stdout \o HelloWorld
      BY <1>6, <1>7, <1>9, <3>1, <3>2, <3>3 DEF Silent, Flushed
    <3>5. OthersOld' /\ offset'.stdout = Len(content'.stdout)
      BY <1>4, <1>6, <1>9, <3>1 DEF OthersOld
    <3>6. content'.stdout = Sofar(status'.parent, status'.child)
      BY <1>7, <2>5, <3>2, <3>4 DEF Sofar
    <3>7. /\ \A p \in Processes : status'[p] = "running" => fds'[p][1] = "stdout"
          /\ \A p \in Processes : Ended(p)' => stdio'[p] = << >>
      BY <1>4, <3>2 DEF Ended, Processes
    <3>8. \A lo, hi \in Nat : ~In("parent", lo, hi)'
      BY <3>2 DEF In
    <3>. QED  BY <1>4, <3>2, <3>5, <3>6, <3>7, <3>8 DEF FlushInv, Sofar
  <2>. QED
    <3>1. D = 1 => Fork("parent") \/ Fails("parent")
      BY <1>9, <2>4, OneCall
    <3>. QED  BY <2>3, <2>7, <2>8, <2>9, <2>10, <3>1
<1>. QED  BY <1>8, <1>9 DEF Processes

-----------------------------------------------------------------------------
(* The invariant. *)

(* It holds at the start. *)
LEMMA FdInitInv == FdInit => FdInv
<1>. SUFFICES ASSUME FdInit PROVE FdInv
  OBVIOUS
<1>1. /\ program \in Programs /\ std \in SUBSET Std /\ tty \in BOOLEAN
      /\ todo = [p \in Processes |-> IF p = "parent" THEN Text[program] ELSE << >>]
      /\ status = [p \in Processes |-> IF p = "parent" THEN "running" ELSE "unborn"]
      /\ fds = [p \in Processes |-> [n \in 0 .. MaxFd |->
                   IF p = "child" \/ n \notin std THEN "closed"
                   ELSE CASE n = 0 -> "stdin" [] n = 1 -> "stdout" [] n = 2 -> "stderr"]]
      /\ var = [p \in Processes |-> [v \in Names |->
                   CASE v = "STDIN" -> 0 [] v = "STDOUT" -> 1 [] OTHER -> NoFd]]
      /\ stdio = [p \in Processes |-> << >>] /\ mode = [p \in Processes |-> "new"]
      /\ offset = [f \in Files |-> 0] /\ pipeBuf = << >> /\ sent = 0 /\ total = 0
  BY DEF FdInit
<1>2. PICK old \in OldContents :
         content = [f \in Files |-> IF f \in {"hello", "hello1", "hello2"} THEN old ELSE << >>]
  BY DEF FdInit
<1>3. /\ "parent" \in Processes /\ "child" \in Processes /\ Processes = {"parent", "child"}
      /\ status.parent = "running" /\ status.child = "unborn" /\ todo.parent = Text[program]
      /\ todo.child = << >> /\ stdio.parent = << >> /\ stdio.child = << >> /\ mode.parent = "new"
  BY <1>1 DEF Processes
<1>4. Text[program] \in Seq(CallSet) /\ program \in DOMAIN Text
  BY <1>1, DupCTyped, Dup2FileTyped, Dup2StdoutTyped, PipeLaunchTyped, ExecChangeFdTyped,
     ExecSimpleTyped, FflushTyped, SimpleForkTyped, ZombieTyped DEF Text, Programs
<1>5. Done("parent") = 0 /\ OnText("parent")
  <2>1. CallsOf("parent") = Text[program]
    BY DEF CallsOf
  <2>2. Len(Text[program]) \in Nat /\ SubSeq(Text[program], 1, Len(Text[program])) = Text[program]
    BY <1>4
  <2>3. Done("parent") = 0
    BY <1>3, <2>1, <2>2 DEF Done
  <2>4. Rest(Text[program], 0) = Text[program]
    BY <2>2 DEF Rest
  <2>. QED  BY <1>3, <2>1, <2>2, <2>3, <2>4 DEF OnText
<1>6. /\ \A lo, hi \in Nat : In("parent", lo, hi) => lo = 0
      /\ \A lo, hi \in Nat : ~In("child", lo, hi)
  BY <1>3, <1>5 DEF In
<1>7. MaxFd \in Nat /\ 0 \in 0 .. MaxFd /\ 1 \in 0 .. MaxFd /\ NoFd = MaxFd + 1 /\ MaxBytes \in Nat
      /\ BufSize \in Nat /\ Capacity \in Nat
  BY FdZeroOne, FdBounds, PipeSizes DEF NoFd
<1>8. \A n \in 0 .. MaxFd : fds.parent[n] = Started(n) /\ fds.child[n] = "closed"
  <2>1. ASSUME NEW n \in 0 .. MaxFd PROVE fds.parent[n] = Started(n) /\ fds.child[n] = "closed"
    <3>1. fds.child[n] = "closed"
      BY <1>1, <1>3
    <3>2. n \notin std => fds.parent[n] = "closed"
      BY <1>1, <1>3
    <3>3. n \in std => n \in {0, 1, 2}
      BY <1>1 DEF Std
    <3>4. n \in std => fds.parent[n] = CASE n = 0 -> "stdin" [] n = 1 -> "stdout" [] n = 2 -> "stderr"
      BY <1>1, <1>3
    <3>. QED  BY <3>1, <3>2, <3>3, <3>4 DEF Started
  <2>. QED  BY <2>1
<1>9. AsStarted("parent", {})
  BY <1>8 DEF AsStarted
<1>10. /\ "stdout" \in Files /\ "hello" \in Files /\ "hello1" \in Files /\ "hello2" \in Files
       /\ content.stdout = << >> /\ content.hello = old /\ content.hello1 = old /\ content.hello2 = old
       /\ offset.hello = 0 /\ offset.hello1 = 0 /\ offset.hello2 = 0 /\ offset.stdout = 0
       /\ \A f \in Files : content[f] \in {old, << >>}
  BY <1>1, <1>2 DEF Files
<1>11. \A f \in Files : \A k \in DOMAIN content[f] : content[f][k] = "old"
  BY <1>10 DEF OldContents
<1>12. Holds("hello", << >>) /\ Holds("hello1", << >>) /\ Holds("hello2", << >>)
  <2>1. old \in Seq(Texts)
    BY OldTyped
  <2>2. << >> \o SubSeq(old, Len(<< >>) + 1, Len(old)) = old
    <3>1. Len(<< >>) + 1 = 1 /\ SubSeq(old, 1, Len(old)) = old /\ << >> \o old = old
      BY <2>1
    <3>. QED  BY <3>1
  <2>. QED  BY <1>10, <2>2 DEF Holds
<1>13. OthersOld
  BY <1>11 DEF OthersOld
<1>14. Typed
  <2>1. todo \in [Processes -> Seq(CallSet)]
    <3>1. << >> \in Seq(CallSet)
      BY Lists
    <3>. QED  BY <1>1, <1>4, <3>1
  <2>2. /\ stdio \in [Processes -> Seq(Texts)] /\ mode \in [Processes -> {"new", "line", "full"}]
        /\ offset \in [Files -> Nat] /\ pipeBuf \in Seq(Texts) /\ total \in Nat
    <3>1. << >> \in Seq(Texts)
      BY Lists
    <3>. QED  BY <1>1, <3>1
  <2>3. content \in [Files -> Seq(Texts)]
    <3>1. << >> \in Seq(Texts) /\ old \in Seq(Texts)
      BY Lists, OldTyped
    <3>. QED  BY <1>2, <3>1
  <2>4. \A p \in Processes : \A v \in {"STDIN", "STDOUT"} : var[p][v] = IF v = "STDIN" THEN 0 ELSE 1
    BY <1>1 DEF Names
  <2>5. \A n \in 0 .. MaxFd : Started(n) \in {"stdin", "stdout", "stderr", "closed"}
    BY <1>1, <1>7 DEF Started, Std
  <2>6. fds \in [Processes -> [0 .. MaxFd -> Descriptions \cup {"closed"}]]
    <3>1. \A p \in Processes : \A n \in 0 .. MaxFd : fds[p][n] \in Descriptions \cup {"closed"}
      BY <1>3, <1>8, <2>5 DEF Descriptions, Files
    <3>. DEFINE D == Descriptions \cup {"closed"}
    <3>3. fds = [p \in Processes |-> fds[p]]
      BY <1>1
    <3>4. ASSUME NEW p \in Processes PROVE fds[p] \in [0 .. MaxFd -> D]
      <4>. DEFINE F(n) == IF p = "child" \/ n \notin std THEN "closed"
                          ELSE CASE n = 0 -> "stdin" [] n = 1 -> "stdout" [] n = 2 -> "stderr"
      <4>1. fds[p] = [n \in 0 .. MaxFd |-> F(n)]
        BY <1>1
      <4>. HIDE DEF F, D
      <4>2. \A n \in 0 .. MaxFd : F(n) \in D
        BY <3>1, <4>1 DEF D
      <4>. QED  BY <4>1, <4>2
    <3>. HIDE DEF D
    <3>. QED  BY <3>3, <3>4 DEF D
  <2>7. \A p \in Processes : \A n \in 0 .. MaxFd : fds[p][n] \notin {"pipeR", "pipeW"}
    BY <1>3, <1>8, <2>5
  <2>8. var \in [Processes -> [Names -> 0 .. NoFd]]
    BY <1>1, <1>7
  <2>9. \A p \in Processes : Ended(p) => todo[p] = << >> /\ \A n \in 0 .. MaxFd : fds[p][n] = "closed"
    BY <1>3, <1>8 DEF Ended
  <2>10. status \in [Processes -> {"unborn", "running", "command", "0", "1", "reaped"}]
    BY <1>1
  <2>11. \A f \in Files : offset[f] \in 0 .. Len(content[f])
    <3>1. \A f \in Files : content[f] \in Seq(Texts)
      BY <2>3
    <3>2. \A f \in Files : Len(content[f]) \in Nat
      BY <3>1
    <3>. QED  BY <1>1, <3>2
  <2>12. FdTypeOK
    <3>1. Len(pipeBuf) <= Capacity /\ sent \in 0 .. MaxBytes /\ total = sent - Len(pipeBuf)
      <4>1. pipeBuf = << >> /\ sent = 0 /\ total = 0
        BY <1>1
      <4>. DEFINE n == Len(pipeBuf)
      <4>2. n = 0
        BY <4>1
      <4>. HIDE DEF n
      <4>3. n <= Capacity /\ sent \in 0 .. MaxBytes /\ total = sent - n
        BY <1>7, <4>1, <4>2
      <4>. QED  BY <4>3 DEF n
    <3>2. program \in Programs /\ std \subseteq Std /\ tty \in BOOLEAN
      BY <1>1
    <3>. QED  BY <2>6, <2>8, <2>9, <2>10, <2>11, <3>1, <3>2 DEF FdTypeOK
  <2>. QED  BY <2>1, <2>2, <2>3, <2>4, <2>7, <2>12 DEF Typed
<1>15. Course
  BY <1>3, <1>5 DEF Course
<1>16. DupInv
  BY <1>3, <1>6, <1>10, <1>12 DEF DupInv
<1>17. Dup2FileInv
  BY <1>3, <1>6, <1>10, <1>12 DEF Dup2FileInv
<1>18. Dup2StdoutInv
  <2>1. ~In("parent", 1, 3) /\ ~In("parent", 2, 3) /\ ~In("parent", 4, 4) /\ ~In("parent", 3, 4)
    BY <1>6
  <2>. QED  BY <1>3, <1>9, <1>10, <1>12, <2>1 DEF Dup2StdoutInv
<1>19. ChangeInv
  BY <1>3, <1>6, <1>9 DEF ChangeInv
<1>20. LaunchInv
  <2>1. 1 \in std => fds.parent[1] = "stdout"
    BY <1>7, <1>8 DEF Started
  <2>2. ParentLaunch
    BY <1>3, <1>6, <1>9, <2>1 DEF ParentLaunch
  <2>3. ChildLaunch
    BY <1>3, <1>6 DEF ChildLaunch
  <2>4. BothLaunch
    <3>1. ~In("parent", 5, 10) /\ ~In("parent", 7, 10) /\ ~In("parent", 8, 10)
      BY <1>6
    <3>. QED  BY <1>1, <1>3, <3>1 DEF BothLaunch
  <2>. QED  BY <2>2, <2>3, <2>4 DEF LaunchInv
<1>21. NotPiped
  BY <1>1 DEF NotPiped
<1>22. \A x : NoneOut(x)
  BY <1>3, <1>10, OccursSingle DEF NoneOut
<1>23. offset.stdout = Len(content.stdout)
  BY <1>10
<1>24. LinesInv
  <2>1. ASSUME NEW p \in Processes, NEW k \in DOMAIN CallsOf(p), Regular(p),
               program \in Forking \cup {"pipe_launch"}
        PROVE  ~(status[p] # "unborn" /\ k <= Done(p))
    <3>1. CASE p = "parent"
      <4>1. k \in Nat \ {0}
        BY <1>4, <3>1 DEF CallsOf
      <4>. QED  BY <1>5, <3>1, <4>1
    <3>2. CASE p = "child"
      BY <1>3, <3>2
    <3>. QED  BY <1>3, <3>1, <3>2
  <2>2. 1 \in std => ForkingLines
    <3>1. 1 \in std => fds.parent[1] = "stdout"
      BY <1>7, <1>8 DEF Started
    <3>. QED  BY <1>3, <1>6, <3>1 DEF ForkingLines, Ended
  <2>. QED  BY <1>13, <1>22, <1>23, <2>1, <2>2 DEF LinesInv, ForkingLines
<1>25. FlushInv
  <2>1. 1 \in std => fds.parent[1] = "stdout"
    BY <1>7, <1>8 DEF Started
  <2>2. ~In("parent", 1, 2)
    BY <1>6
  <2>3. /\ \A p \in Processes : status[p] = "running" /\ 1 \in std => fds[p][1] = "stdout"
        /\ \A p \in Processes : Ended(p) => stdio[p] = << >>
    BY <1>3, <2>1 DEF Ended
  <2>. QED  BY <1>3, <1>5, <1>10, <1>13, <1>23, <2>2, <2>3 DEF FlushInv
<1>26. ExecInv
  <2>1. 1 \in std => fds.parent[1] = "stdout"
    BY <1>7, <1>8 DEF Started
  <2>2. \A f \in Files : NoneIn(content[f], "before_exec")
    BY <1>11 DEF NoneIn, Occurs
  <2>3. program \in ExecPrograms => todo.parent # << >> /\ In("parent", 0, 0)
    <3>1. program \in ExecPrograms => Text[program] # << >>
      BY DEF ExecPrograms, Text, ExecSimple, ExecChangeFd
    <3>. QED  BY <1>3, <1>5, <3>1 DEF In
  <2>4. ~In("parent", 1, 6)
    BY <1>6
  <2>. QED  BY <1>3, <1>10, <1>23, <2>1, <2>2, <2>3, <2>4 DEF ExecInv, ExecPrograms
<1>. QED  BY <1>14, <1>15, <1>16, <1>17, <1>18, <1>19, <1>20, <1>21, <1>24, <1>25, <1>26 DEF FdInv

(* Nothing changes it when nothing changes. *)
LEMMA FdStutters ==
    ASSUME FdInv, UNCHANGED fdVars
    PROVE  FdInv'
<1>1. /\ UNCHANGED <<program, std, tty, todo, status, fds, var>>
      /\ UNCHANGED <<stdio, mode, content, offset, pipeBuf, sent, total>>
  BY DEF fdVars
<1>2. Typed'
  BY <1>1 DEF FdInv, Typed, FdTypeOK, Ended
<1>3. Course'
  BY <1>1 DEF FdInv, Course, OnText, Done, CallsOf
<1>4. DupInv'
  BY <1>1 DEF FdInv, DupInv, In, OnText, Done, CallsOf, Refers, Holds
<1>5. Dup2FileInv'
  BY <1>1 DEF FdInv, Dup2FileInv, In, OnText, Done, CallsOf, Refers, Holds
<1>6. Dup2StdoutInv'
  BY <1>1 DEF FdInv, Dup2StdoutInv, In, OnText, Done, CallsOf, Refers, Holds, AsStarted, Started, GivenOne
<1>7. ChangeInv'
  BY <1>1 DEF FdInv, ChangeInv, In, OnText, Done, CallsOf, AsStarted, Started
<1>8. LaunchInv'
  <2>1. program = "pipe_launch" => ParentLaunch /\ ChildLaunch /\ BothLaunch
    BY DEF FdInv, LaunchInv
  <2>2. ParentLaunch => ParentLaunch'
    BY <1>1, ParentUntouched
  <2>3. ChildLaunch => ChildLaunch'
    BY <1>1, ChildUntouched
  <2>4. BothLaunch => BothLaunch'
    BY <1>1 DEF BothLaunch, NoWriteEnd, In, OnText, Done, CallsOf
  <2>. QED  BY <1>1, <2>1, <2>2, <2>3, <2>4 DEF LaunchInv
<1>9. NotPiped'
  BY <1>1 DEF FdInv, NotPiped
<1>10. LinesInv'
  <2>1. OthersOld' <=> OthersOld
    BY <1>1 DEF OthersOld
  <2>2. ForkingLines' <=> ForkingLines
    BY <1>1 DEF ForkingLines, Ended, In, OnText, Done, CallsOf
  <2>3. \A p \in Processes : /\ Regular(p)' <=> Regular(p)
                              /\ CallsOf(p)' = CallsOf(p) /\ Done(p)' = Done(p)
    BY <1>1 DEF Regular, OnText, Done, CallsOf
  <2>4. ASSUME NEW p \in Processes, NEW k \in DOMAIN CallsOf(p)
        PROVE  /\ OneOut(CallsOf(p)[k][2])' <=> OneOut(CallsOf(p)[k][2])
               /\ NoneOut(CallsOf(p)[k][2])' <=> NoneOut(CallsOf(p)[k][2])
    <3>. DEFINE x == CallsOf(p)[k][2]
    <3>1. x' = x
      BY <1>1 DEF CallsOf
    <3>2. (OneOut(x)' <=> OneOut(x)) /\ (NoneOut(x)' <=> NoneOut(x))
      BY <1>1, <3>1 DEF OneOut, NoneOut
    <3>. QED  BY <3>2
  <2>5. LinesInv
    BY DEF FdInv
  <2>. QED  BY <1>1, <2>1, <2>2, <2>3, <2>4, <2>5 DEF LinesInv, ForkingLines
<1>11. FlushInv'
  BY <1>1 DEF FdInv, FlushInv, OthersOld, Ended, In, OnText, Done, CallsOf
<1>12. ExecInv'
  BY <1>1 DEF FdInv, ExecInv, In, OnText, Done, CallsOf
<1>. QED  BY <1>2, <1>3, <1>4, <1>5, <1>6, <1>7, <1>8, <1>9, <1>10, <1>11, <1>12 DEF FdInv

(* Every step keeps it. *)
LEMMA FdInvKept == FdInv /\ [FdNext]_fdVars => FdInv'
<1>. SUFFICES ASSUME FdInv, [FdNext]_fdVars PROVE FdInv'
  OBVIOUS
<1>1. ASSUME NEW p \in Processes, Process(p) PROVE FdInv'
  BY <1>1, TypedStep, CourseStep, DupKept, Dup2FileKept, Dup2StdoutKept, ChangeKept, LaunchKept,
     NotPipedKept, LinesKept, FlushKept, ExecKept DEF FdInv
<1>2. CASE UNCHANGED fdVars
  BY <1>2, FdStutters
<1>. QED  BY <1>1, <1>2 DEF FdNext, Terminated

(* It holds in every state. *)
THEOREM FdInvariant == FdSpec => []FdInv
BY FdInitInv, FdInvKept, PTL DEF FdSpec

(* The descriptors, the variables and the buffers of all the programs are what they can be,
   and nothing is left of a process that has ended. *)
THEOREM FdTypeCorrect == FdSpec => []FdTypeOK
<1>1. FdInv => FdTypeOK
  BY DEF FdInv, Typed
<1>. QED  BY <1>1, FdInvariant, PTL

(* What the command of pipe-launch.c and what python find as their descriptors. *)
THEOREM PlumbingHolds == FdSpec => []Plumbing
<1>1. ASSUME FdInv PROVE Plumbing
  <2>1. Typed /\ Course /\ ChangeInv /\ LaunchInv
    BY <1>1 DEF FdInv
  <2>2. ASSUME status.child = "command", 0 \in std
        PROVE  /\ fds.child[0] = "input" /\ fds.child[1] = "pipeW"
               /\ \A n \in 2 .. MaxFd : fds.child[n] \in {"stderr", "closed"}
    <3>1. program = "pipe_launch"
      BY <2>1, <2>2 DEF Course
    <3>2. AsGiven({1}) /\ fds.child[1] = "pipeW"
      BY <2>1, <2>2, <3>1 DEF LaunchInv, ChildLaunch
    <3>3. ASSUME NEW n \in 2 .. MaxFd PROVE fds.child[n] \in {"stderr", "closed"}
      <4>1. n \in (1 .. MaxFd) \ {1} /\ n # 0
        BY FdZeroOne
      <4>2. fds.child[n] \in {Started(n), "closed"}
        BY <3>2, <4>1 DEF AsGiven
      <4>3. Started(n) \in {"stderr", "closed"}
        <5>1. n \in std => n = 2
          BY <2>1, <4>1 DEF Typed, FdTypeOK, Std
        <5>. QED  BY <5>1 DEF Started
      <4>. QED  BY <4>2, <4>3
    <3>. QED  BY <2>2, <3>2, <3>3 DEF AsGiven
  <2>3. program = "exec_change_fd" /\ status.parent = "command" =>
           IF 0 \in std THEN fds.parent[1] \in {"new_stdout", "closed"} ELSE fds.parent[1] = "closed"
    BY <2>1 DEF ChangeInv
  <2>. QED  BY <2>2, <2>3 DEF Plumbing
<1>. QED  BY <1>1, FdInvariant, PTL

(* What the duplicates of a descriptor have written is in the files. *)
LEMMA WrittenHolds == FdInv => Written
BY DEF FdInv, Written, DupInv, Dup2FileInv, Dup2StdoutInv, GivenOne

(* The places in all files where a text is. *)
Places(text) == UNION {{f} \X {i \in DOMAIN content[f] : content[f][i] = text} : f \in Files}

(* A text that is once in stdout, and in no other file, has one copy. *)
LEMMA OneCopy ==
    ASSUME NEW x, OneIn(content.stdout, x), \A f \in Files \ {"stdout"} : NoneIn(content[f], x)
    PROVE  Copies(x) = 1
<1>1. PICK k \in DOMAIN content.stdout : Occurs(content.stdout, x) = {k}
  BY DEF OneIn
<1>2. Places(x) = {<<"stdout", k>>}
  <2>1. "stdout" \in Files
    BY DEF Files
  <2>2. \A f \in Files : f # "stdout" => {i \in DOMAIN content[f] : content[f][i] = x} = {}
    BY DEF NoneIn, Occurs
  <2>3. {i \in DOMAIN content.stdout : content.stdout[i] = x} = {k}
    BY <1>1 DEF Occurs
  <2>. QED  BY <2>1, <2>2, <2>3 DEF Places
<1>. QED  BY <1>2, FS_Singleton DEF Copies, Places

(* A text that is nowhere has none. *)
LEMMA NoCopy ==
    ASSUME NEW x, \A f \in Files : NoneIn(content[f], x)
    PROVE  Copies(x) = 0
<1>1. Places(x) = {}
  BY DEF Places, NoneIn, Occurs
<1>. QED  BY <1>1, FS_EmptySet DEF Copies, Places

(* hello_world, when it is all that is in stdout. *)
LEMMA HelloCopies ==
    ASSUME OthersOld
    PROVE  /\ content.stdout = HelloWorld => Copies("hello_world") = 1
           /\ content.stdout = HelloWorld \o HelloWorld => Copies("hello_world") = 2
<1>1. \A f \in Files \ {"stdout"} : NoneIn(content[f], "hello_world")
  BY DEF OthersOld, NoneIn, Occurs
<1>2. content.stdout = HelloWorld => OneIn(content.stdout, "hello_world")
  BY OccursSingle DEF HelloWorld
<1>3. ASSUME content.stdout = HelloWorld \o HelloWorld PROVE Copies("hello_world") = 2
  <2>. DEFINE u == HelloWorld \o HelloWorld
  <2>1. DOMAIN u = 1 .. 2 /\ \A k \in 1 .. 2 : u[k] = "hello_world"
    <3>1. HelloWorld \in Seq(Texts) /\ Len(HelloWorld) = 1 /\ HelloWorld[1] = "hello_world"
      BY DEF HelloWorld, Texts
    <3>. DEFINE m == Len(HelloWorld)
    <3>2. /\ u \in Seq(Texts) /\ Len(u) = m + m
          /\ \A k \in 1 .. m + m : u[k] = IF k <= m THEN HelloWorld[k] ELSE HelloWorld[k - m]
      BY <3>1, ConcatProperties
    <3>3. m = 1
      BY <3>1
    <3>. HIDE DEF u, m
    <3>4. 1 + 1 = 2 /\ 2 - 1 = 1
      OBVIOUS
    <3>5. Len(u) = 2
      BY <3>2, <3>3, <3>4
    <3>6. u[1] = HelloWorld[1]
      BY <3>2, <3>3
    <3>7. u[2] = HelloWorld[1]
      <4>1. u[2] = HelloWorld[2 - m]
        BY <3>2, <3>3
      <4>. QED  BY <3>3, <3>4, <4>1, Zenon
    <3>8. \A k \in 1 .. 2 : k = 1 \/ k = 2
      OBVIOUS
    <3>9. DOMAIN u = 1 .. Len(u)
      BY <3>2
    <3>10. u[1] = "hello_world" /\ u[2] = "hello_world"
      BY <3>1, <3>6, <3>7, Zenon
    <3>11. DOMAIN u = 1 .. 2
      BY <3>5, <3>9, Zenon
    <3>. QED  BY <3>8, <3>10, <3>11
  <2>. HIDE DEF u
  <2>2. {i \in DOMAIN content.stdout : content.stdout[i] = "hello_world"} = {1, 2}
    BY <1>3, <2>1 DEF u
  <2>3. "stdout" \in Files
    BY DEF Files
  <2>4. \A f \in Files : f # "stdout" =>
            {i \in DOMAIN content[f] : content[f][i] = "hello_world"} = {}
    BY <1>1 DEF NoneIn, Occurs
  <2>5. Places("hello_world") = {<<"stdout", 1>>} \cup {<<"stdout", 2>>}
    BY <2>2, <2>3, <2>4 DEF Places
  <2>6. IsFiniteSet({<<"stdout", 1>>}) /\ Cardinality({<<"stdout", 1>>}) = 1
    BY FS_Singleton
  <2>7. Cardinality({<<"stdout", 1>>} \cup {<<"stdout", 2>>}) = 2
    <3>. DEFINE S == {<<"stdout", 1>>}
                x == <<"stdout", 2>>
    <3>1. x \notin S
      OBVIOUS
    <3>. HIDE DEF x
    <3>2. Cardinality(S \cup {x}) = Cardinality(S) + 1
      BY <2>6, <3>1, FS_AddElement
    <3>. QED  BY <2>6, <3>2 DEF x
  <2>. QED  BY <2>5, <2>7 DEF Copies, Places
<1>. QED  BY <1>1, <1>2, <1>3, OneCopy

(* Which lines the programs that fork print. *)
LEMMA WhatIsPrinted ==
    /\ \A x \in Forking \cup {"pipe_launch"} :
          /\ \A k \in DOMAIN Text[x] : Text[x][k][1] \in {"printf", "puts"} =>
                Text[x][k][2] # "old" /\ (x = "pipe_launch" => Text[x][k][2] = "total_count")
          /\ \A k \in DOMAIN ChildText[x] : ChildText[x][k][1] \in {"printf", "puts"} =>
                ChildText[x][k][2] # "old" /\ x # "pipe_launch"
    /\ Lines(Text["fflush"]) = {"hello_world"} /\ Lines(ChildText["fflush"]) = {}
<1>1. ASSUME NEW x \in {"simple_fork"} PROVE Text[x] = SimpleFork /\ ChildText[x] = SimpleForkChild
  BY DEF Text, ChildText
<1>2. ASSUME NEW x \in {"zombie"} PROVE Text[x] = Zombie /\ ChildText[x] = ZombieChild
  BY DEF Text, ChildText
<1>3. ASSUME NEW x \in {"orphan"} PROVE Text[x] = Zombie /\ ChildText[x] = OrphanChild
  BY DEF Text, ChildText
<1>4. ASSUME NEW x \in {"pipe_launch"} PROVE Text[x] = PipeLaunch /\ ChildText[x] = PipeLaunchChild
  BY DEF Text, ChildText
<1>5. /\ \A k \in DOMAIN SimpleFork : SimpleFork[k][1] \in {"printf", "puts"} => SimpleFork[k][2] # "old"
      /\ \A k \in DOMAIN SimpleForkChild : SimpleForkChild[k][1] \in {"printf", "puts"} =>
            SimpleForkChild[k][2] # "old"
  BY DEF SimpleFork, SimpleForkChild
<1>6. /\ \A k \in DOMAIN Zombie : Zombie[k][1] \in {"printf", "puts"} => Zombie[k][2] # "old"
      /\ \A k \in DOMAIN ZombieChild : ZombieChild[k][1] \in {"printf", "puts"} =>
            ZombieChild[k][2] # "old"
      /\ \A k \in DOMAIN OrphanChild : OrphanChild[k][1] \in {"printf", "puts"} =>
            OrphanChild[k][2] # "old"
  BY DEF Zombie, ZombieChild, OrphanChild
<1>7. \A k \in DOMAIN PipeLaunch : PipeLaunch[k][1] \in {"printf", "puts"} =>
         PipeLaunch[k][2] = "total_count"
  BY DEF PipeLaunch
<1>8. \A k \in DOMAIN PipeLaunchChild : PipeLaunchChild[k][1] \notin {"printf", "puts"}
  BY DEF PipeLaunchChild
<1>9. Lines(Text["fflush"]) = {"hello_world"}
  <2>1. Text["fflush"] = Fflush
    BY DEF Text
  <2>2. DOMAIN Fflush = 1 .. 2 /\ Fflush[1] = <<"puts", "hello_world">> /\ Fflush[2] = <<"fork">>
    BY DEF Fflush
  <2>3. {j \in DOMAIN Fflush : Fflush[j][1] \in {"printf", "puts"}} = {1}
    BY <2>2
  <2>4. Lines(Fflush) = {"hello_world"}
    BY <2>2, <2>3 DEF Lines
  <2>. QED  BY <2>1, <2>4
<1>10. Lines(ChildText["fflush"]) = {}
  <2>1. ChildText["fflush"] = << >>
    BY DEF ChildText
  <2>. QED  BY <2>1 DEF Lines
<1>. QED  BY <1>1, <1>2, <1>3, <1>4, <1>5, <1>6, <1>7, <1>8, <1>9, <1>10 DEF Forking

(* When both processes of a program that forks have ended, every line of one that has not
   failed is in stdout. *)
LEMMA LinesAreOut ==
    ASSUME FdInv, 1 \in std, \A p \in Processes : Ended(p),
           program \in Forking \cup {"pipe_launch"},
           NEW p \in Processes, Regular(p), status[p] # "unborn", NEW line \in Lines(CallsOf(p))
    PROVE  Copies(line) = 1
<1>1. Typed /\ Course /\ LinesInv
  BY DEF FdInv
<1>2. PICK k \in DOMAIN CallsOf(p) :
         CallsOf(p)[k][1] \in {"printf", "puts"} /\ CallsOf(p)[k][2] = line
  BY DEF Lines
<1>3. k <= Done(p)
  <2>1. todo[p] = << >>
    BY <1>1 DEF Typed, FdTypeOK
  <2>2. CallsOf(p) \in Seq(CallSet)
    BY <1>1, LinesDiffer, CallsOfTyped DEF Typed, FdTypeOK, Programs, Processes
  <2>. DEFINE n == Len(CallsOf(p))
              m == Len(todo[p])
  <2>3. n \in Nat /\ k \in 1 .. n
    BY <2>2
  <2>4. m = 0
    BY <2>1
  <2>. HIDE DEF n, m
  <2>5. k <= n - m
    BY <2>3, <2>4
  <2>. QED  BY <2>5 DEF n, m, Done
<1>4. OneOut(line)
  BY <1>1, <1>2, <1>3 DEF LinesInv
<1>5. line # "old" /\ (program = "pipe_launch" => line = "total_count")
  BY <1>2, WhatIsPrinted DEF CallsOf
<1>6. NoneIn(stdio.parent, line) /\ NoneIn(stdio.child, line)
  <2>1. CASE program \in Forking
    <3>1. stdio.parent = << >> /\ stdio.child = << >>
      BY <1>1, <2>1 DEF LinesInv, Processes
    <3>. QED  BY <3>1, OccursSingle
  <2>2. CASE program = "pipe_launch"
    <3>1. ParentLaunch /\ ChildLaunch
      BY <2>2 DEF FdInv, LaunchInv
    <3>2. ~In("parent", 10, 10)
      BY DEF In, Ended, Processes
    <3>3. NoneIn(stdio.parent, line)
      BY <1>5, <2>2, <3>1, <3>2 DEF ParentLaunch, NoneIn, Occurs
    <3>4. NoneIn(stdio.child, line)
      BY <3>1, OccursSingle DEF ChildLaunch
    <3>. QED  BY <3>3, <3>4
  <2>. QED  BY <2>1, <2>2
<1>7. OneIn(content.stdout, line)
  BY <1>4, <1>6 DEF OneOut, OneIn, NoneIn
<1>8. \A f \in Files \ {"stdout"} : NoneIn(content[f], line)
  BY <1>1, <1>5 DEF LinesInv, OthersOld, NoneIn, Occurs
<1>. QED  BY <1>7, <1>8, OneCopy

(* A line is there as often as it should be. *)
LEMMA OutOnceHolds == FdInv => OutOnce
<1>. SUFFICES ASSUME FdInv, 1 \in std, \A p \in Processes : Ended(p) PROVE OutOnce
  BY DEF OutOnce
<1>1. Typed /\ FlushInv /\ ExecInv /\ "parent" \in Processes /\ "child" \in Processes
  BY DEF FdInv, Processes
<1>2. status.parent # "running" /\ status.child # "running"
  BY <1>1 DEF Ended
<1>3. ASSUME program = "fflush", status.parent = "0", NEW line \in Lines(Text[program])
      PROVE  Copies(line) = IF program = "fflush" /\ status.child # "unborn" THEN 2 ELSE 1
  <2>1. line = "hello_world"
    BY <1>3, WhatIsPrinted
  <2>2. OthersOld /\ status.child \in {"unborn", "0"}
    BY <1>1, <1>2, <1>3 DEF FlushInv
  <2>3. status.child = "unborn" => content.stdout = HelloWorld
    BY <1>1, <1>3 DEF FlushInv
  <2>4. status.child = "0" => content.stdout = HelloWorld \o HelloWorld
    BY <1>1, <1>3 DEF FlushInv
  <2>. QED  BY <1>3, <2>1, <2>2, <2>3, <2>4, HelloCopies
<1>4. ASSUME program \in Forking \cup {"pipe_launch"}, status.parent = "0",
             NEW line \in Lines(Text[program])
      PROVE  Copies(line) = 1
  <2>1. Regular("parent") /\ CallsOf("parent") = Text[program]
    BY <1>4 DEF Regular, CallsOf
  <2>. QED  BY <1>1, <1>4, <2>1, LinesAreOut
<1>5. ASSUME program \in DOMAIN ChildText, status.child # "unborn",
             NEW line \in Lines(ChildText[program])
      PROVE  Copies(line) = 1
  <2>1. Regular("child") /\ CallsOf("child") = ChildText[program]
    BY <1>2 DEF Regular, CallsOf
  <2>2. program \in Forking \cup {"pipe_launch", "fflush"}
    BY <1>5 DEF ChildText, Forking
  <2>3. program # "fflush"
    BY <1>5, WhatIsPrinted
  <2>. QED  BY <1>1, <1>5, <2>1, <2>2, <2>3, LinesAreOut
<1>6. ASSUME program \in {"exec_simple", "exec_change_fd"}, status.parent = "0"
      PROVE  Copies("before_exec") = IF tty THEN 1 ELSE 0
  <2>1. /\ \A f \in Files \ {"stdout"} : NoneIn(content[f], "before_exec")
        /\ IF tty THEN OneIn(content.stdout, "before_exec")
                  ELSE NoneIn(content.stdout, "before_exec")
    BY <1>1, <1>6 DEF ExecInv
  <2>2. CASE tty
    BY <2>1, <2>2, OneCopy
  <2>3. CASE ~tty
    BY <2>1, <2>3, NoCopy
  <2>. QED  BY <2>2, <2>3
<1>. QED  BY <1>3, <1>4, <1>5, <1>6 DEF OutOnce, Forking

(* The files hold what the programs wrote to them, and each line comes out as often as its
   program promises: once, but where fork() or exec() meets a buffer that is not empty. *)
THEOREM OutputHolds == FdSpec => []Output
<1>1. FdInv => Output
  BY WrittenHolds, OutOnceHolds DEF Output
<1>. QED  BY <1>1, FdInvariant, PTL

(* When pipe-launch.c prints its count, it is all that its command wrote, and the command
   has ended: only at the last call is it in the buffer, and then both pipe ends that could
   write are closed and the pipe is empty. *)
THEOREM LauncherCountsAll == FdSpec => []LauncherCounts
<1>1. ASSUME FdInv PROVE LauncherCounts
  <2>. SUFFICES ASSUME program = "pipe_launch",
                       "total_count" \in {stdio.parent[i] : i \in DOMAIN stdio.parent}
                PROVE  total = sent /\ status.child \in {"0", "1", "reaped"}
    BY DEF LauncherCounts
  <2>1. Typed /\ ParentLaunch /\ BothLaunch
    BY <1>1 DEF FdInv, LaunchInv
  <2>2. In("parent", 10, 10)
    BY <2>1 DEF ParentLaunch
  <2>3. In("parent", 7, 10) /\ In("parent", 8, 10)
    BY <2>2 DEF In
  <2>4. pipeBuf = << >> /\ status.child \in {"0", "1", "reaped"}
    BY <2>1, <2>3 DEF BothLaunch
  <2>5. total = sent
    <3>. DEFINE n == Len(pipeBuf)
    <3>1. n = 0
      BY <2>4
    <3>2. total = sent - n /\ sent \in Nat
      BY <2>1, FdBounds DEF Typed, FdTypeOK
    <3>. HIDE DEF n
    <3>. QED  BY <3>1, <3>2
  <2>. QED  BY <2>4, <2>5
<1>. QED  BY <1>1, FdInvariant, PTL
=============================================================================
