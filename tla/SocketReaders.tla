---------------------------- MODULE SocketReaders ----------------------------
(***************************************************************************)
(* The programs of 17-networking that read several streams until their     *)
(* end; `prog' says which of them runs:                                    *)
(*   "epoll"     epoll-read-fds-vector.c: the streams that are ready       *)
(*   "nonblock"  read-nonblock.c: each of them, over and over              *)
(*   "slow"      read-slow.c: one read of each, in order                   *)
(* The last two are clients of epoll-intro-examples/sleepy-server.c, of    *)
(* which one may run for each port.  What read_data_and_count() gets is of *)
(* any `kind':                                                             *)
(*   "socket"  a stream socket                                             *)
(*   "pipe"    its end is reported as EPOLLHUP, without EPOLLIN            *)
(*   "shared"  a socket of which another process has a descriptor, so that *)
(*             close() does not take it out of the epoll set               *)
(*   "file"    what epoll_ctl() refuses                                    *)
(***************************************************************************)
EXTENDS Naturals, FiniteSets

CONSTANTS N,          \* how many streams there are: 2 in the clients
          MaxData     \* how long a server's answer is, and a bound: how much a peer of
                      \* read_data_and_count() writes

ASSUME ReaderBounds == N \in Nat \ {0} /\ MaxData \in Nat \ {0}

Streams == 1 .. N
Kinds == {"socket", "pipe", "shared", "file"}
Modulus == N + 2    \* stands for 2^64: files_left is unsigned

VARIABLES prog, kind,
          interrupts,    \* whether signals interrupt the program
          pc,            \* where it is: "connect", "read" or "ended"
          idx,           \* its loop counter
          peer,          \* the other side: "none", "queued" for accept(), "asleep",
                         \* "open", "closed", or "reset"
          avail, fed,    \* the data that can be read, and that was ever written
          count,         \* data_t.count: how much was read
          filesLeft,     \* files_left, or read-nonblock.c's open
          openFds, done, \* the descriptors that are open, the entries that are done
          epoll,         \* the entries in the epoll set
          events,        \* the entries with an event still to be processed, and
                         \* whether it has EPOLLIN
          error,         \* the reset streams whose error was read
          exit           \* the exit code, "segfault", or "none"

vars == <<prog, kind, interrupts, pc, idx, peer, avail, fed, count, filesLeft, openFds, done,
          epoll, events, error, exit>>
setting == <<prog, kind, interrupts>>
data == <<avail, fed, count>>

TypeOK ==
    /\ prog \in {"epoll", "nonblock", "slow"} /\ kind \in [Streams -> Kinds]
    /\ interrupts \in BOOLEAN
    /\ pc \in {"connect", "read", "ended"} /\ idx \in 1 .. N + 1
    /\ peer \in [Streams -> {"none", "queued", "asleep", "open", "closed", "reset"}]
    /\ \A i \in Streams : fed[i] \in 0 .. MaxData /\ avail[i] + count[i] = fed[i]
    /\ filesLeft \in 0 .. Modulus - 1
    /\ openFds \subseteq Streams /\ done \subseteq Streams \ openFds /\ epoll \subseteq Streams
    /\ events \subseteq Streams \X BOOLEAN /\ error \subseteq Streams
    /\ exit \in {"none", "0", "1", "segfault"}

\* epoll_ctl() fails for a file, and nobody notices.
Registered == {i \in Streams : prog = "epoll" /\ kind[i] # "file"}

Init ==
    /\ prog \in {"epoll", "nonblock", "slow"}
    /\ kind \in [Streams -> IF prog = "epoll" THEN Kinds ELSE {"socket"}]
    /\ interrupts \in IF prog = "epoll" THEN BOOLEAN ELSE {FALSE}
    /\ pc = IF prog = "epoll" THEN "read" ELSE "connect"
    /\ idx = 1
    /\ peer = [i \in Streams |-> IF prog = "epoll" THEN "open" ELSE "none"]
    /\ avail = [i \in Streams |-> 0] /\ fed = avail /\ count = avail
    /\ filesLeft = N
    /\ openFds = IF prog = "epoll" THEN Streams ELSE {}
    /\ epoll = Registered
    /\ done = {} /\ events = {} /\ error = {}
    /\ exit = "none"

Running == exit = "none"
End(code) == exit' = code /\ pc' = "ended"

-----------------------------------------------------------------------------
(* The peers. *)

PeerGoes(i, from, to) == peer[i] = from /\ peer' = [peer EXCEPT ![i] = to]
others == <<setting, pc, idx, count, filesLeft, openFds, done, epoll, events, error, exit>>

\* More data can be read.
Arrives(i, k) ==
    avail' = [avail EXCEPT ![i] = @ + k] /\ fed' = [fed EXCEPT ![i] = @ + k]

\* sleepy-server.c: accept, sleep, write, shutdown and close, and again.
Accept(i) == PeerGoes(i, "queued", "asleep") /\ UNCHANGED <<others, avail, fed>>

\* The answer is written at once and comes in portions.
Respond(i) ==
    /\ prog # "epoll" /\ peer[i] \in {"asleep", "open"}
    /\ \E k \in 1 .. MaxData - fed[i] : Arrives(i, k)
    /\ peer' = [peer EXCEPT ![i] = "open"]
    /\ UNCHANGED others

Shut(i) ==
    /\ prog # "epoll" => fed[i] = MaxData
    /\ PeerGoes(i, "open", "closed")
    /\ UNCHANGED <<others, avail, fed>>

\* Somebody ends the server before it answers: the system closes the connection.
Killed(i) == PeerGoes(i, "asleep", "closed") /\ UNCHANGED <<others, avail, fed>>

\* The other side of what read_data_and_count() reads, a file is all there.
Feed(i) ==
    /\ prog = "epoll" /\ peer[i] = "open" /\ fed[i] < MaxData
    /\ Arrives(i, 1)
    /\ UNCHANGED <<others, peer>>

\* The connection breaks, or the server ends that has not accepted it yet.
Reset(i) ==
    /\ kind[i] \in {"socket", "shared"}
    /\ \E from \in {"queued", "asleep", "open"} : PeerGoes(i, from, "reset")
    /\ UNCHANGED <<others, avail, fed>>

Server(i) == Accept(i) \/ Respond(i) \/ Shut(i)
Peer(i) == Server(i) \/ Feed(i) \/ Killed(i) \/ Reset(i)

-----------------------------------------------------------------------------
(* read() of stream i, which takes some of the data, closes the descriptor at the end, and
   is an error or finds nothing otherwise. *)

AtEnd(i) ==
    /\ i \in openFds /\ avail[i] = 0
    /\ peer[i] = "closed" \/ (peer[i] = "reset" /\ i \in error)

\* (Mutation: the stream is not closed.)
NotClosed(i) == epoll

\* close() takes the stream out of the epoll set, if there is no other descriptor.
StillInSet(i) == IF kind[i] = "shared" THEN epoll ELSE epoll \ {i}

\* How much one read() takes: the clients' buffer (bufSize) has room for the answer.
ReadSizes(i) == {k \in 1 .. avail[i] : prog = "epoll" \/ k = avail[i]}

\* (Mutation: it is the size of the buffer that is counted, not the result of read().)
CountsBuffer(i) ==
    /\ i \in openFds
    /\ \E k \in ReadSizes(i) :
           avail' = [avail EXCEPT ![i] = @ - k] /\ count' = [count EXCEPT ![i] = @ + MaxData]
    /\ UNCHANGED <<setting, peer, fed, openFds, done, epoll, error>>

Take(i) ==
    /\ i \in openFds
    /\ \E k \in ReadSizes(i) :
           avail' = [avail EXCEPT ![i] = @ - k] /\ count' = [count EXCEPT ![i] = @ + k]
    /\ UNCHANGED <<setting, peer, fed, openFds, done, epoll, error>>

ReadEnd(i) ==
    /\ AtEnd(i)
    /\ openFds' = openFds \ {i} /\ done' = done \cup {i} /\ epoll' = StillInSet(i)
    /\ UNCHANGED <<setting, peer, data, error>>

ReadError(i) ==
    /\ i \notin openFds \/ (avail[i] = 0 /\ ~AtEnd(i))
    /\ error' = IF i \in openFds /\ peer[i] = "reset" THEN error \cup {i} ELSE error
    /\ UNCHANGED <<setting, peer, data, openFds, done, epoll>>

ReadStream(i) == Take(i) \/ ReadEnd(i) \/ ReadError(i)

-----------------------------------------------------------------------------
(* epoll-read-fds-vector.c *)

Ready == {i \in epoll : avail[i] > 0 \/ peer[i] # "open"}

\* (Mutation: the end of a stream is not an event to be read.)
HasData(i) == avail[i] > 0

HasEpollIn(i) == avail[i] > 0 \/ kind[i] # "pipe"

\* The head of the loop.
Waiting == prog = "epoll" /\ Running /\ events = {} /\ filesLeft # 0

EpollWait ==
    /\ Waiting /\ Ready # {}
    /\ events' = {<<i, HasEpollIn(i)>> : i \in Ready}
    /\ UNCHANGED <<setting, pc, idx, peer, data, filesLeft, openFds, done, epoll, error, exit>>

\* epoll_wait() is -1, which the comparison with a size_t makes the largest number
\* there is: the loop runs on into the entries of `pending' that are zero.
Interrupted ==
    /\ Waiting /\ interrupts
    /\ End("segfault")
    /\ UNCHANGED <<setting, idx, peer, data, filesLeft, openFds, done, epoll, events, error>>

\* process_event()
ProcessEvent(i, in) ==
    /\ prog = "epoll" /\ Running /\ <<i, in>> \in events
    /\ events' = events \ {<<i, in>>}
    /\ IF in THEN ReadStream(i) ELSE UNCHANGED <<setting, peer, data, openFds, done, epoll, error>>
    /\ filesLeft' = IF i \in done' THEN (filesLeft + Modulus - 1) % Modulus ELSE filesLeft
    /\ UNCHANGED <<pc, idx, exit>>

EpollReturn ==
    /\ prog = "epoll" /\ Running /\ events = {} /\ filesLeft = 0
    /\ End("0")
    /\ UNCHANGED <<setting, idx, peer, data, filesLeft, openFds, done, epoll, events, error>>

Epoll ==
    \/ EpollWait \/ Interrupted \/ EpollReturn
    \/ \E i \in Streams, in \in BOOLEAN : ProcessEvent(i, in)

-----------------------------------------------------------------------------
(* The clients of sleepy-server.c *)

Connect ==
    /\ pc = "connect"
    /\ PeerGoes(idx, "none", "queued")
    /\ openFds' = openFds \cup {idx}
    /\ idx' = (idx % N) + 1
    /\ pc' = IF idx = N THEN "read" ELSE "connect"
    /\ UNCHANGED <<setting, data, filesLeft, done, epoll, events, error, exit>>

\* socket() or connect() fails, for instance because no server listens.
ConnectFails ==
    /\ pc = "connect"
    /\ End("1")
    /\ UNCHANGED <<setting, idx, peer, data, filesLeft, openFds, done, epoll, events, error>>

\* The for loop of read-nonblock.c, which is left when it is at its end only.
Poll ==
    /\ prog = "nonblock" /\ pc = "read"
    /\ ReadStream(idx)
    /\ filesLeft' = filesLeft - Cardinality(done' \ done)
    /\ idx' = (idx % N) + 1
    /\ IF idx = N /\ filesLeft' = 0 THEN End("0") ELSE UNCHANGED <<pc, exit>>
    /\ UNCHANGED events

\* The one of read-slow.c: read() waits for data, for the end or for an error, and after
\* each of them the loop goes on to the next stream.
ReadOnce ==
    /\ prog = "slow" /\ pc = "read"
    /\ Take(idx) \/ ReadEnd(idx) \/ (peer[idx] = "reset" /\ ReadError(idx))
    /\ idx' = idx + 1
    /\ IF idx = N THEN End("0") ELSE UNCHANGED <<pc, exit>>
    /\ UNCHANGED <<filesLeft, events>>

Client == Connect \/ ConnectFails \/ Poll \/ ReadOnce

-----------------------------------------------------------------------------

Next == Epoll \/ Client \/ \E i \in Streams : Peer(i)

\* The reader runs, and a peer or a server closes its side sooner or later.
Spec ==
    /\ Init /\ [][Next]_vars
    /\ WF_vars(Epoll) /\ WF_vars(Client)
    /\ \A i \in Streams : WF_vars(Server(i))

-----------------------------------------------------------------------------
(* Properties. *)

\* All that came of a stream was read, up to its end, which only a socket ever is at; of
\* a server's answer that is all or nothing, unless the program was told of a reset.
ReadToItsEnd(i) ==
    /\ count[i] = fed[i] /\ i \in done /\ kind[i] = "socket"
    /\ prog = "nonblock" => count[i] \in {0, MaxData} \/ i \in error

\* read-slow.c has taken what it found of the answer, or it has met the end or an error
\* and then there was nothing to take.
TriedOnce(i) ==
    IF count[i] > 0 THEN i \notin done \cup error
                    ELSE fed[i] = 0 /\ i \in done \cup error

\* When epoll-read-fds-vector.c or read-nonblock.c ends well, it has read all that was
\* ever sent, from streams that were all at their end.  Until then it knows how many it
\* has still to read, however their events come, if nobody else has a descriptor of one:
\* an end is taken into account for every event that follows it.  read-slow.c returns 0
\* whatever it has met, but it has had some part of every answer of which anything came.
ReadsAll ==
    (\A i \in Streams : kind[i] # "shared")
    =>  /\ filesLeft = Cardinality(Streams \ done) \/ prog = "slow"
        /\ exit = "0" => \A i \in Streams :
               IF prog = "slow" THEN TriedOnce(i) ELSE ReadToItsEnd(i)

\* If all streams are sockets, a reader ends once their other sides were closed or
\* reset; a crash of read_data_and_count() has an interruption as its cause.  (One
\* that reads a pipe to its end never returns: EPOLLHUP comes for ever.)
Ends ==
    (\A i \in Streams : kind[i] = "socket")
    => <>( \/ exit = "0"
          \/ (exit = "1" /\ prog # "epoll")
          \/ (exit = "segfault" /\ interrupts))
=============================================================================
