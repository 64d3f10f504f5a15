------------------------------- MODULE Clients -------------------------------
(***************************************************************************)
(* The programs of 17-networking that ask and answer; `prog' says which of *)
(* them runs:                                                              *)
(*   "tcp"    tcp-client.c and a server that answers each of its numbers   *)
(*   "udp"    udp-client.c and such a server of datagrams                  *)
(*   "hello"  udp/server.c and several processes of udp/client.c           *)
(* The first two read numbers, send each and print what comes back.  The   *)
(* input begins with `numbers' of them; then it ends, or a text follows    *)
(* that scanf() neither accepts nor skips.  An int travels in Size parts,  *)
(* the jth part of the answer to the kth request is number (k-1)*Size + j, *)
(* and 0 is what was never written.                                        *)
(***************************************************************************)
EXTENDS Naturals, Sequences, FiniteSets

CONSTANTS Size,         \* parts in an int: 4 bytes in the code
          MaxNumbers,   \* bound: numbers in the input
          MaxSent,      \* bound: requests sent, for an input that is no number
          MaxCopies,    \* bound: datagrams that the network delivers twice
          HelloClients  \* the processes of udp/client.c

ASSUME ClientBounds ==
    /\ Size \in Nat \ {0} /\ MaxNumbers \in Nat /\ MaxSent \in Nat /\ MaxCopies \in Nat
    /\ MaxSent > MaxNumbers /\ IsFiniteSet(HelloClients)

VARIABLES prog, numbers, text,  \* the input: how many numbers, and whether text follows
          pc,         \* where the client is: "start", "scan", "write", "read" or "ended"
          value,      \* `send': which number of the input it holds
          sent,       \* the value of each request that was sent
          answered,   \* tcp: the requests that were answered
          arrived,    \* tcp: the parts of the answers that arrived,
          taken,      \*      and those the client has read
          broken,     \* tcp: the server has closed or reset the connection
          net,        \* the datagrams in the network: <<destination, number>>
          lost, copies,  \* whether one was lost, and how often one was doubled
          recv,       \* `recv', part by part
          printed,    \* the values of `recv' that were printed
          whole,      \* whether all that was read came in whole numbers
          server,     \* udp/server.c's next call: "socket", "bind", "getsockname",
                      \* "recvfrom", or "ended"
          waiting,    \* the processes of udp/client.c that are still to start
          exit        \* the exit code of the client, or of udp/server.c; or "SIGPIPE"

vars == <<prog, numbers, text, pc, value, sent, answered, arrived, taken, broken, net, lost,
          copies, recv, printed, whole, server, waiting, exit>>
input == <<prog, numbers, text>>
tcp == <<answered, arrived, taken, broken>>
network == <<net, lost, copies>>
output == <<recv, printed, whole>>
hello == <<server, waiting>>

Parts == 0 .. Size * MaxSent
Ints == [1 .. Size -> Parts]

TypeOK ==
    /\ prog \in {"tcp", "udp", "hello"} /\ numbers \in 0 .. MaxNumbers /\ text \in BOOLEAN
    /\ pc \in {"start", "scan", "write", "read", "ended"}
    /\ value \in 0 .. numbers /\ Len(sent) <= MaxSent
    /\ \A k \in DOMAIN sent : sent[k] \in 0 .. value
    /\ answered \in 0 .. Len(sent) /\ arrived \in 0 .. Size * answered /\ taken \in 0 .. arrived
    /\ broken \in BOOLEAN /\ lost \in BOOLEAN /\ whole \in BOOLEAN
    /\ net \subseteq {"server", "client"} \X (1 .. MaxSent \cup HelloClients)
    /\ copies \in 0 .. MaxCopies
    /\ recv \in Ints /\ \A k \in DOMAIN printed : printed[k] \in Ints
    /\ server \in {"socket", "bind", "getsockname", "recvfrom", "ended"}
    /\ waiting \subseteq HelloClients
    /\ exit \in {"none", "0", "1", "2", "3", "4", "SIGPIPE"}

Init ==
    /\ prog \in {"tcp", "udp", "hello"}
    /\ numbers \in IF prog = "hello" THEN {0} ELSE 0 .. MaxNumbers
    /\ text \in IF prog = "hello" THEN {FALSE} ELSE BOOLEAN
    /\ pc = "start" /\ value = 0 /\ sent = <<>>
    /\ answered = 0 /\ arrived = 0 /\ taken = 0 /\ broken = FALSE
    /\ net = {} /\ lost = FALSE /\ copies = 0
    /\ recv = [j \in 1 .. Size |-> 0] /\ printed = <<>> /\ whole = TRUE
    /\ server = "socket" /\ waiting = HelloClients
    /\ exit = "none"

\* The answer to the kth request.
Answer(k) == [j \in 1 .. Size |-> (k - 1) * Size + j]

NumberClient == prog \in {"tcp", "udp"}
End(code) == pc' = "ended" /\ exit' = code

-----------------------------------------------------------------------------
(* The number clients. *)

\* The wrong arguments, or no socket, or no connection.
StartFails ==
    /\ NumberClient /\ pc = "start"
    /\ End("1")
    /\ UNCHANGED <<input, value, sent, tcp, network, output, hello>>

StartClient ==
    /\ NumberClient /\ pc = "start"
    /\ pc' = "scan"
    /\ UNCHANGED <<input, value, sent, tcp, network, output, hello, exit>>

\* scanf() != EOF.  (Mutation: scanf() != 0.)
NotZero == value < numbers \/ ~text
NotEOF == value < numbers \/ text

\* The text leaves `send' as it was.  (Mutation: it is taken for a number.)
TextScanned == value + 1
Scanned == IF value < numbers THEN value + 1 ELSE value

Scan ==
    /\ pc = "scan" /\ NotEOF
    /\ value' = Scanned
    /\ pc' = "write"
    /\ UNCHANGED <<input, sent, tcp, network, output, hello, exit>>

ScanEOF ==
    /\ pc = "scan" /\ ~NotEOF
    /\ End("0")
    /\ UNCHANGED <<input, value, sent, tcp, network, output, hello>>

Write ==
    /\ prog = "tcp" /\ pc = "write" /\ Len(sent) < MaxSent
    /\ sent' = Append(sent, value)
    /\ pc' = "read"
    /\ UNCHANGED <<input, value, tcp, network, output, hello, exit>>

\* write() or read() is not positive: the loop is left, and main() returns 0.  But a
\* write() that finds the connection broken raises SIGPIPE, unless it is told of a reset.
Break ==
    /\ prog = "tcp" /\ broken
    /\ \/ pc = "write" /\ (End("0") \/ End("SIGPIPE"))
       \/ pc = "read" /\ taken = arrived /\ End("0")
    /\ UNCHANGED <<input, value, sent, tcp, network, output, hello>>

PrintLine(number) == recv' = number /\ printed' = Append(printed, number)

\* read() overwrites as many parts of `recv' as it gets.
Overwritten(k) == [j \in 1 .. Size |-> IF j <= k THEN taken + j ELSE recv[j]]

\* (Mutation: read() is asked for one part less than an int has.)
OneLess == Size - 1
Asked == Size

Read ==
    /\ prog = "tcp" /\ pc = "read" /\ taken < arrived
    /\ LET k == IF arrived - taken < Asked THEN arrived - taken ELSE Asked
       IN  /\ PrintLine(Overwritten(k))
           /\ taken' = taken + k
           /\ whole' = (whole /\ k = Asked)
    /\ pc' = "scan"
    /\ UNCHANGED <<input, value, sent, answered, arrived, broken, network, hello, exit>>

\* sendto(), whose result is not looked at, is as good as lost when it fails.
SendTo ==
    /\ prog = "udp" /\ pc = "write" /\ Len(sent) < MaxSent
    /\ sent' = Append(sent, value)
    /\ net' = net \cup {<<"server", Len(sent')>>}
    /\ pc' = "read"
    /\ UNCHANGED <<input, value, tcp, lost, copies, output, hello, exit>>

\* A datagram leaves the network when it is delivered, or there is another copy of it.
Delivered(m, n) ==
    \/ n = net \ {m} /\ UNCHANGED copies
    \/ n = net /\ copies < MaxCopies /\ copies' = copies + 1

RecvFrom ==
    /\ prog = "udp" /\ pc = "read"
    /\ \E m \in net :
          /\ m[1] = "client"
          /\ \E n \in {net, net \ {m}} : Delivered(m, n) /\ net' = n
          /\ PrintLine(Answer(m[2]))
    /\ pc' = "scan"
    /\ UNCHANGED <<input, value, sent, tcp, lost, whole, hello, exit>>

Client == StartFails \/ StartClient \/ Scan \/ ScanEOF \/ Write \/ Break \/ Read \/ SendTo \/ RecvFrom

-----------------------------------------------------------------------------
(* What they talk to, and the network. *)

others == <<input, pc, value, sent, output, hello, exit>>

AnswerRequest ==
    /\ ~broken /\ prog = "tcp" /\ answered < Len(sent)
    /\ answered' = answered + 1
    /\ UNCHANGED <<others, arrived, taken, broken, network>>

\* A stream keeps no message apart: it may stop at any part.
Arrive ==
    /\ arrived < Size * answered
    /\ arrived' = arrived + 1
    /\ UNCHANGED <<others, answered, taken, broken, network>>

\* The server closes or crashes: no more of its answers will come.
BreakConnection ==
    /\ prog = "tcp" /\ pc # "start" /\ ~broken
    /\ broken' = TRUE
    /\ UNCHANGED <<others, answered, arrived, taken, network>>

AnswerDatagram ==
    /\ prog = "udp"
    /\ \E m \in net :
          /\ m[1] = "server"
          /\ \E n \in {net, net \ {m}} : Delivered(m, n) /\ net' = n \cup {<<"client", m[2]>>}
    /\ UNCHANGED <<others, tcp, lost>>

Lose ==
    /\ \E m \in net : net' = net \ {m}
    /\ lost' = TRUE
    /\ UNCHANGED <<others, tcp, copies>>

Answers == AnswerRequest \/ Arrive \/ AnswerDatagram

-----------------------------------------------------------------------------
(* udp/server.c and udp/client.c *)

unchanged == <<input, pc, value, sent, tcp, output>>

\* The calls before recvfrom(), and the exit code of each when it fails.
NextCall == [socket |-> "bind", bind |-> "getsockname", getsockname |-> "recvfrom"]
FailureCode == [socket |-> "1", bind |-> "2", getsockname |-> "3", recvfrom |-> "4"]

ServerCall ==
    /\ prog = "hello" /\ server \in DOMAIN NextCall
    /\ server' = NextCall[server]
    /\ UNCHANGED <<unchanged, network, waiting, exit>>

ServerFails ==
    /\ prog = "hello" /\ server # "ended"
    /\ server' = "ended" /\ exit' = FailureCode[server]
    /\ UNCHANGED <<unchanged, network, waiting>>

\* It takes one message, and prints and ends.
ServerReceives ==
    /\ prog = "hello" /\ server = "recvfrom"
    /\ \E m \in net : net' = net \ {m}
    /\ server' = "ended" /\ exit' = "0"
    /\ UNCHANGED <<unchanged, lost, copies, waiting>>

\* The client ends at once, with 0 whatever becomes of its datagram: it reaches the
\* server only if it has printed its port before, and not ended since.
Listening == server = "recvfrom"

HelloClient(c) ==
    /\ prog = "hello" /\ c \in waiting
    /\ waiting' = waiting \ {c}
    /\ net' \in {net, IF Listening THEN net \cup {<<"server", c>>} ELSE net}
    /\ UNCHANGED <<unchanged, lost, copies, server, exit>>

Server == ServerCall \/ ServerFails \/ ServerReceives

-----------------------------------------------------------------------------

\* Everybody is at the end, or udp-client.c or udp/server.c waits for a datagram that
\* will never come, or the bound on the requests is reached.
Stopped ==
    /\ pc = "ended" \/ (pc = "read" /\ net = {}) \/ Len(sent) = MaxSent \/ prog = "hello"
    /\ UNCHANGED vars

Next ==
    \/ Client \/ Answers \/ BreakConnection \/ Lose
    \/ Server \/ \E c \in HelloClients : HelloClient(c)
    \/ Stopped

\* The programs run and the servers answer; the network may lose what it likes.
Spec == Init /\ [][Next]_vars /\ WF_vars(Client) /\ WF_vars(Answers) /\ WF_vars(Server)

-----------------------------------------------------------------------------
(* Properties. *)

\* What is printed in line i is the answer to the ith request, and this is the ith
\* number, unless a datagram came twice, an answer came in pieces or the input was none
\* (tcp-client.c:36, udp-client.c:32).  Even then a line is the answer to an earlier
\* request with udp-client.c, and with tcp-client.c no part of it is from a later one.
RepliesMatch ==
    \A i \in DOMAIN printed :
       /\ whole /\ copies = 0 => printed[i] = Answer(i)
       /\ i <= numbers => sent[i] = i
       /\ IF prog = "udp" THEN \E k \in 1 .. i : printed[i] = Answer(k)
          ELSE \A j \in 1 .. Size : printed[i][j] \in 0 .. Answer(i)[Size]

\* With numbers only for its input, a client ends, with a line for each of them, unless
\* the connection broke or a datagram was lost; and udp/server.c ends, unless it never
\* got a datagram: because each client failed, was too early, or its datagram was lost.
Ends ==
    /\ NumberClient /\ ~text =>
          <>(lost \/ (pc = "ended" /\ (exit = "1" \/ broken \/ Len(printed) = numbers)))
    /\ prog = "hello" => [](net # {} => <>(lost \/ server = "ended"))
=============================================================================
