---------------------------- MODULE Clients_proofs ----------------------------
(***************************************************************************)
(* What is proved of the programs that are somebody's client.  The number  *)
(* clients of 17-networking: that Clients stays within its types, and that *)
(* what they print is what was answered, for ints of any Size and any      *)
(* bounds.  The exporter, the client of ejudge: that Exporter stays within *)
(* its types, and that it has saved each problem it is done with, for any  *)
(* number of problems and of solutions.                                    *)
(***************************************************************************)
EXTENDS Clients, Exporter, WellFoundedInduction, TLAPS

Number == [1 .. Size -> Nat]

Types ==
    /\ prog \in {"tcp", "udp", "hello"} /\ numbers \in 0 .. MaxNumbers /\ text \in BOOLEAN
    /\ pc \in {"start", "scan", "write", "read", "ended"}
    /\ value \in 0 .. numbers
    /\ sent \in Seq(Nat) /\ Len(sent) <= MaxSent
    /\ answered \in Nat /\ arrived \in Nat /\ taken \in Nat
    /\ broken \in BOOLEAN /\ lost \in BOOLEAN /\ whole \in BOOLEAN
    /\ copies \in 0 .. MaxCopies
    /\ recv \in Number /\ printed \in Seq(Number)
    /\ server \in {"socket", "bind", "getsockname", "recvfrom", "ended"}
    /\ waiting \in SUBSET HelloClients
    /\ exit \in {"none", "0", "1", "2", "3", "4", "SIGPIPE"}

(* The kth request is the kth number, or the last one if there is none. *)
Nth(k) == IF k < numbers THEN k ELSE numbers

Requests ==
    /\ \A k \in 1 .. Len(sent) : sent[k] = Nth(k)
    /\ Nth(Len(sent)) <= value
    /\ pc \in {"start", "scan", "read"} => value = Nth(Len(sent))
    /\ pc = "write" => value = Nth(Len(sent) + 1)

(* A client reads once for each request. *)
OneByOne ==
    /\ Len(printed) <= Len(sent)
    /\ pc \in {"start", "scan", "write"} => Len(printed) = Len(sent)
    /\ pc = "read" => Len(sent) = Len(printed) + 1
    /\ prog = "hello" => sent = << >> /\ pc = "start"

(* The stream: no part is read before it was sent, and as long as whole numbers come the
   client is as many parts further as it has printed. *)
Stream ==
    /\ answered <= Len(sent) /\ arrived <= Size * answered /\ taken <= arrived
    /\ prog # "tcp" => answered = 0 /\ taken = 0 /\ whole
    /\ prog = "tcp" /\ whole => taken = Size * Len(printed)
    /\ prog = "tcp" => \A j \in 1 .. Size : recv[j] <= taken

(* The datagrams: each is of a request that was sent, and without a copy there is only
   one, which belongs to the request that the client waits for. *)
Datagrams ==
    /\ prog = "tcp" => net = {}
    /\ prog = "hello" => net \in SUBSET ({"server"} \X HelloClients)
    /\ prog = "udp" => net \in SUBSET ({"server", "client"} \X (1 .. Len(sent)))
    /\ prog # "udp" => copies = 0
    /\ prog = "udp" /\ copies = 0 =>
          /\ pc # "read" => net = {}
          /\ \A m \in net : m[2] = Len(sent)
          /\ \A m, n \in net : m = n

(* The lines. *)
Matched ==
    \A e \in 1 .. Len(printed) :
       /\ whole /\ copies = 0 => printed[e] = Answer(e)
       /\ IF prog = "udp" THEN \E k \in 1 .. e : printed[e] = Answer(k)
          ELSE \A j \in 1 .. Size : printed[e][j] <= Size * e

Received == prog # "tcp" => \A j \in 1 .. Size : recv[j] <= Size * Len(sent)

IInv == Types /\ Requests /\ OneByOne /\ Stream /\ Datagrams /\ Matched /\ Received

-----------------------------------------------------------------------------
(* Parts and numbers *)

(* More numbers have more parts. *)
LEMMA MoreParts == ASSUME NEW a \in Nat, NEW b \in Nat, a <= b
                   PROVE  Size * a \in Nat /\ Size * b \in Nat /\ Size * a <= Size * b
<1>1. Size \in Nat
  BY ClientBounds
<1>2. PICK d \in Nat : b = a + d
  <2>1. b - a \in Nat /\ b = a + (b - a)
    OBVIOUS
  <2>. QED  BY <2>1
<1>3. Size * b = Size * a + Size * d /\ Size * d \in Nat /\ Size * a \in Nat
  BY <1>1, <1>2
<1>. QED  BY <1>3

(* One number more has Size parts more. *)
LEMMA OneMore == ASSUME NEW a \in Nat PROVE Size * (a + 1) = Size * a + Size /\ Size * 0 = 0
BY ClientBounds

(* The parts of the kth answer come after those of the answers before it. *)
LEMMA AnswerParts ==
    ASSUME NEW k \in Nat \ {0}
    PROVE  /\ Answer(k) \in Number
           /\ \A j \in 1 .. Size : Answer(k)[j] = Size * (k - 1) + j /\ Answer(k)[j] <= Size * k
<1>1. Size \in Nat /\ k - 1 \in Nat /\ k = (k - 1) + 1
  BY ClientBounds
<1>2. Size * k = Size * (k - 1) + Size /\ Size * (k - 1) \in Nat /\ (k - 1) * Size = Size * (k - 1)
  BY <1>1
<1>3. \A j \in 1 .. Size : Answer(k)[j] = Size * (k - 1) + j
  BY <1>1, <1>2 DEF Answer
<1>4. \A j \in 1 .. Size : Size * (k - 1) + j \in Nat /\ Size * (k - 1) + j <= Size * k
  BY <1>1, <1>2
<1>5. Answer(k) = [j \in 1 .. Size |-> Answer(k)[j]]
  BY DEF Answer
<1>6. \A j \in 1 .. Size : Answer(k)[j] \in Nat
  BY <1>3, <1>4
<1>. QED  BY <1>3, <1>4, <1>5, <1>6 DEF Number

-----------------------------------------------------------------------------
(* What leaves a part of the invariant as it is. *)

(* The requests and the number that the client holds. *)
LEMMA SameRequests ==
    ASSUME Requests, UNCHANGED <<numbers, value, sent>>,
           pc' \in {"start", "scan", "read"} => value = Nth(Len(sent)),
           pc' = "write" => value = Nth(Len(sent) + 1)
    PROVE  Requests'
BY DEF Requests, Nth

(* The stream, when requests are only added. *)
LEMMA SameStream ==
    ASSUME Stream, UNCHANGED <<prog, answered, arrived, taken, whole, recv, printed>>,
           Len(sent) \in Nat, Len(sent') \in Nat, answered \in Nat, Len(sent) <= Len(sent')
    PROVE  Stream'
BY DEF Stream

(* The network. *)
LEMMA SameDatagrams ==
    ASSUME Datagrams, UNCHANGED <<prog, sent, net, copies>>, pc' = "read" <=> pc = "read"
    PROVE  Datagrams'
BY DEF Datagrams

(* The lines. *)
LEMMA SameMatched == ASSUME Matched, UNCHANGED <<prog, whole, copies, printed>> PROVE Matched'
BY DEF Matched

(* One line more. *)
LEMMA OneLineMore ==
    ASSUME Types, Matched, NEW x \in Number, printed' = Append(printed, x), UNCHANGED prog,
           whole' => whole, UNCHANGED copies,
           whole' /\ copies = 0 => x = Answer(Len(printed) + 1),
           IF prog = "udp" THEN \E k \in 1 .. Len(printed) + 1 : x = Answer(k)
           ELSE \A j \in 1 .. Size : x[j] <= Size * (Len(printed) + 1)
    PROVE  printed' \in Seq(Number) /\ Len(printed') = Len(printed) + 1 /\ Matched'
<1>. DEFINE n == Len(printed)
<1>1. /\ n \in Nat /\ printed' \in Seq(Number) /\ Len(printed') = n + 1
      /\ \A e \in 1 .. n : printed'[e] = printed[e]
      /\ printed'[n + 1] = x
      /\ \A e \in 1 .. n + 1 : e \in 1 .. n \/ e = n + 1
  BY DEF Types
<1>2. ASSUME NEW e \in 1 .. n + 1
      PROVE  /\ whole' /\ copies = 0 => printed'[e] = Answer(e)
             /\ IF prog = "udp" THEN \E k \in 1 .. e : printed'[e] = Answer(k)
                ELSE \A j \in 1 .. Size : printed'[e][j] <= Size * e
  <2>1. CASE e \in 1 .. n
    BY <1>1, <2>1 DEF Matched
  <2>2. CASE e = n + 1
    BY <1>1, <2>2
  <2>. QED  BY <1>1, <2>1, <2>2
<1>. QED  BY <1>1, <1>2 DEF Matched, Answer

-----------------------------------------------------------------------------
(* The beginning *)

(* The invariant holds in the initial states. *)
LEMMA InitInv == Init => IInv
<1>. SUFFICES ASSUME Init PROVE IInv
  OBVIOUS
<1>1. numbers \in 0 .. MaxNumbers /\ MaxNumbers \in Nat /\ MaxSent \in Nat /\ MaxCopies \in Nat
      /\ Size \in Nat
  BY ClientBounds DEF Init
<1>2. sent \in Seq(Nat) /\ Len(sent) = 0 /\ printed \in Seq(Number) /\ Len(printed) = 0
  BY DEF Init
<1>3. recv \in Number /\ \A j \in 1 .. Size : recv[j] = 0
  BY DEF Init, Number
<1>4. Types
  <2>1. text \in BOOLEAN
    BY DEF Init
  <2>2. broken \in BOOLEAN /\ lost \in BOOLEAN /\ whole \in BOOLEAN
    BY DEF Init
  <2>3. /\ prog \in {"tcp", "udp", "hello"} /\ pc = "start" /\ value = 0
        /\ answered = 0 /\ arrived = 0 /\ taken = 0 /\ copies = 0
        /\ server = "socket" /\ waiting = HelloClients /\ exit = "none"
    BY DEF Init
  <2>. QED  BY <1>1, <1>2, <1>3, <2>1, <2>2, <2>3 DEF Types
<1>5. Requests
  BY <1>1, <1>2 DEF Init, Requests, Nth
<1>6. OneByOne
  BY <1>1, <1>2 DEF Init, OneByOne
<1>7. Stream
  BY <1>1, <1>2, <1>3, OneMore DEF Init, Stream
<1>8. Datagrams
  BY DEF Init, Datagrams
<1>9. Matched
  BY <1>2 DEF Matched
<1>10. Received
  BY <1>2, <1>3, OneMore DEF Received
<1>. QED  BY <1>4, <1>5, <1>6, <1>7, <1>8, <1>9, <1>10 DEF IInv

-----------------------------------------------------------------------------
(* The number clients *)

(* The steps before the first request and those that end a client. *)
LEMMA StartStep == ASSUME IInv, StartFails \/ StartClient PROVE IInv'
<1>1. Types /\ Requests /\ OneByOne /\ Stream /\ Datagrams /\ Matched /\ Received
  BY DEF IInv
<1>2. /\ prog \in {"tcp", "udp"} /\ pc = "start" /\ pc' \in {"scan", "ended"}
      /\ exit' \in {exit, "1"}
      /\ UNCHANGED <<prog, numbers, text, value, sent, answered, arrived, taken, broken, net, lost,
                     copies, recv, printed, whole, server, waiting>>
  BY DEF StartFails, StartClient, NumberClient, End, input, tcp, network, output, hello
<1>3. Types' /\ OneByOne' /\ Received'
  BY <1>1, <1>2 DEF Types, OneByOne, Received
<1>4. Requests'
  BY <1>1, <1>2, SameRequests DEF Requests
<1>5. Stream'
  BY <1>1, <1>2, SameStream DEF Types
<1>. QED  BY <1>1, <1>2, <1>3, <1>4, <1>5, SameDatagrams, SameMatched DEF IInv

(* The input ends, or the connection is broken. *)
LEMMA EndStep == ASSUME IInv, ScanEOF \/ Break PROVE IInv'
<1>1. Types /\ Requests /\ OneByOne /\ Stream /\ Datagrams /\ Matched /\ Received
  BY DEF IInv
<1>2. /\ pc \in {"scan", "write", "read"} /\ pc' = "ended" /\ exit' \in {"0", "SIGPIPE"}
      /\ pc # "scan" => prog = "tcp"
      /\ UNCHANGED <<prog, numbers, text, value, sent, answered, arrived, taken, broken, net, lost,
                     copies, recv, printed, whole, server, waiting>>
  BY DEF ScanEOF, Break, End, input, tcp, network, output, hello
<1>3. Types' /\ OneByOne' /\ Received'
  BY <1>1, <1>2 DEF Types, OneByOne, Received
<1>4. Requests'
  BY <1>1, <1>2, SameRequests
<1>5. Stream'
  BY <1>1, <1>2, SameStream DEF Types
<1>6. Datagrams'
  BY <1>1, <1>2 DEF Datagrams, OneByOne
<1>. QED  BY <1>1, <1>2, <1>3, <1>4, <1>5, <1>6, SameMatched DEF IInv

(* scanf(): the next number, or none at a text, so that `send' stays. *)
LEMMA ScanStep == ASSUME IInv, Scan PROVE IInv'
<1>1. Types /\ Requests /\ OneByOne /\ Stream /\ Datagrams /\ Matched /\ Received
  BY DEF IInv
<1>2. /\ pc = "scan" /\ pc' = "write"
      /\ value' = (IF value < numbers THEN value + 1 ELSE value)
      /\ UNCHANGED <<prog, numbers, text, sent, answered, arrived, taken, broken, net, lost,
                     copies, recv, printed, whole, server, waiting, exit>>
  BY DEF Scan, Scanned, input, tcp, network, output, hello
<1>3. Len(sent) \in Nat /\ numbers \in Nat /\ value \in 0 .. numbers /\ value' \in 0 .. numbers
  BY <1>1, <1>2 DEF Types
<1>4. Types' /\ OneByOne' /\ Received'
  BY <1>1, <1>2, <1>3 DEF Types, OneByOne, Received
<1>5. Requests'
  <2>1. value = Nth(Len(sent)) /\ value' = Nth(Len(sent) + 1) /\ Nth(Len(sent)) <= value'
    BY <1>1, <1>2, <1>3 DEF Requests, Nth
  <2>. QED  BY <1>1, <1>2, <2>1 DEF Requests, Nth
<1>6. Stream'
  BY <1>1, <1>2, <1>3, SameStream DEF Types
<1>. QED  BY <1>1, <1>2, <1>4, <1>5, <1>6, SameDatagrams, SameMatched DEF IInv

(* A request is sent, to the server of either kind. *)
LEMMA RequestSent ==
    ASSUME IInv, pc = "write", pc' = "read", Len(sent) < MaxSent, sent' = Append(sent, value),
           UNCHANGED <<prog, numbers, text, value, answered, arrived, taken, broken, lost, copies,
                       recv, printed, whole, server, waiting, exit>>
    PROVE  /\ Len(sent') = Len(sent) + 1
           /\ Types' /\ Requests' /\ OneByOne' /\ Stream' /\ Matched' /\ Received'
<1>1. Types /\ Requests /\ OneByOne /\ Stream /\ Matched /\ Received
  BY DEF IInv
<1>. DEFINE n == Len(sent)
<1>2. /\ n \in Nat /\ numbers \in Nat /\ value \in Nat /\ sent \in Seq(Nat) /\ MaxSent \in Nat
      /\ Len(printed) \in Nat /\ n = Len(printed)
  BY <1>1, ClientBounds DEF Types, OneByOne
<1>3. /\ sent' \in Seq(Nat) /\ Len(sent') = n + 1 /\ sent'[n + 1] = value
      /\ \A k \in 1 .. n : sent'[k] = sent[k]
      /\ \A k \in 1 .. n + 1 : k \in 1 .. n \/ k = n + 1
  BY <1>2
<1>4. Types'
  BY <1>1, <1>2, <1>3 DEF Types
<1>5. Requests'
  <2>1. value = Nth(n + 1)
    BY <1>1 DEF Requests
  <2>2. \A k \in 1 .. n + 1 : sent'[k] = Nth(k)
    BY <1>1, <1>3, <2>1 DEF Requests
  <2>3. value <= value
    BY <1>2
  <2>. QED  BY <1>3, <2>1, <2>2, <2>3 DEF Requests, Nth
<1>6. OneByOne'
  BY <1>1, <1>2, <1>3 DEF OneByOne
<1>7. Stream'
  <2>1. n \in Nat /\ Len(sent') \in Nat /\ answered \in Nat /\ n <= Len(sent')
    BY <1>1, <1>2, <1>3 DEF Types
  <2>. QED  BY <1>1, <2>1, SameStream
<1>8. Received'
  <2>1. Size * n <= Size * Len(sent') /\ Size * n \in Nat /\ Size * Len(sent') \in Nat
    BY <1>2, <1>3, MoreParts
  <2>2. \A j \in 1 .. Size : recv[j] \in Nat
    BY <1>1 DEF Types, Number
  <2>. QED  BY <1>1, <2>1, <2>2 DEF Received
<1>. QED  BY <1>1, <1>3, <1>4, <1>5, <1>6, <1>7, <1>8, SameMatched

(* tcp-client.c's request goes to the stream, and no datagram is sent. *)
LEMMA WriteStep == ASSUME IInv, Write PROVE IInv'
<1>1. Datagrams /\ prog = "tcp" /\ UNCHANGED <<prog, net, copies>>
  BY DEF IInv, Write, network, input
<1>2. Types' /\ Requests' /\ OneByOne' /\ Stream' /\ Matched' /\ Received'
  BY RequestSent DEF Write, input, tcp, network, output, hello
<1>3. Datagrams'
  BY <1>1 DEF Datagrams
<1>. QED  BY <1>2, <1>3 DEF IInv

(* udp-client.c's request is the only datagram if none was copied before. *)
LEMMA SendToStep == ASSUME IInv, SendTo PROVE IInv'
<1>1. Datagrams /\ prog = "udp" /\ pc = "write" /\ pc' = "read" /\ UNCHANGED <<prog, copies>>
      /\ net' = net \cup {<<"server", Len(sent')>>}
  BY DEF IInv, SendTo, input
<1>2. /\ Len(sent') = Len(sent) + 1
      /\ Types' /\ Requests' /\ OneByOne' /\ Stream' /\ Matched' /\ Received'
  BY RequestSent DEF SendTo, input, tcp, network, output, hello
<1>3. Len(sent) \in Nat
  BY DEF IInv, Types
<1>4. Datagrams'
  <2>1. net' \in SUBSET ({"server", "client"} \X (1 .. Len(sent')))
    <3>1. <<"server", Len(sent')>> \in {"server", "client"} \X (1 .. Len(sent'))
      BY <1>2, <1>3
    <3>2. \A m \in {"server", "client"} \X (1 .. Len(sent)) : m \in {"server", "client"} \X (1 .. Len(sent'))
      BY <1>2, <1>3
    <3>. QED  BY <1>1, <3>1, <3>2 DEF Datagrams
  <2>2. copies = 0 => net' = {<<"server", Len(sent')>>}
    BY <1>1 DEF Datagrams
  <2>. QED  BY <1>1, <2>1, <2>2 DEF Datagrams
<1>. QED  BY <1>2, <1>4 DEF IInv

(* read() gives at most one number, and nothing of a later answer. *)
LEMMA ReadStep == ASSUME IInv, Read PROVE IInv'
<1>1. Types /\ Requests /\ OneByOne /\ Stream /\ Datagrams /\ Matched /\ Received
  BY DEF IInv
<1>. DEFINE k == IF arrived - taken < Size THEN arrived - taken ELSE Size
            n == Len(printed)
<1>2. /\ prog = "tcp" /\ pc = "read" /\ pc' = "scan" /\ taken < arrived
      /\ recv' = Overwritten(k) /\ printed' = Append(printed, recv')
      /\ taken' = taken + k /\ whole' = (whole /\ k = Size)
      /\ UNCHANGED <<prog, numbers, text, value, sent, answered, arrived, broken, net, lost,
                     copies, server, waiting, exit>>
  BY DEF Read, PrintLine, Asked, input, network, hello
<1>3. whole' => whole /\ k = Size
  BY <1>2, Zenon
<1>4. whole' \in BOOLEAN
  BY <1>2
<1>5. Size \in Nat /\ arrived \in Nat /\ taken \in Nat /\ answered \in Nat /\ n \in Nat
      /\ Len(sent) \in Nat
  BY <1>1, ClientBounds DEF Types
<1>6. k \in Nat /\ k > 0 /\ k <= Size /\ taken + k <= arrived
  BY <1>2, <1>5, ClientBounds
<1>. HIDE DEF k
<1>7. n + 1 = Len(sent) /\ answered <= Len(sent)
  BY <1>1, <1>2 DEF OneByOne, Stream
<1>8. arrived <= Size * (n + 1) /\ Size * (n + 1) \in Nat
  <2>1. Size * answered \in Nat /\ Size * (n + 1) \in Nat /\ Size * answered <= Size * (n + 1)
    BY <1>5, <1>7, MoreParts
  <2>. QED  BY <1>1, <1>5, <2>1 DEF Stream
<1>9. recv' \in Number /\ \A j \in 1 .. Size : recv'[j] = IF j <= k THEN taken + j ELSE recv[j]
  <2>1. \A j \in 1 .. Size : recv[j] \in Nat /\ taken + j \in Nat
    BY <1>1, <1>5 DEF Types, Number
  <2>2. recv' = [j \in 1 .. Size |-> IF j <= k THEN taken + j ELSE recv[j]]
    BY <1>2 DEF Overwritten
  <2>. QED  BY <1>5, <2>1, <2>2 DEF Number
<1>10. \A j \in 1 .. Size : recv'[j] <= taken'
  <2>1. \A j \in 1 .. Size : recv[j] <= taken /\ recv[j] \in Nat
    BY <1>1, <1>2 DEF Stream, Types, Number
  <2>. QED  BY <1>2, <1>5, <1>6, <1>9, <2>1
<1>11. whole' => taken' = Size * (n + 1) /\ recv' = Answer(n + 1)
  <2>. SUFFICES ASSUME whole' PROVE taken' = Size * (n + 1) /\ recv' = Answer(n + 1)
    OBVIOUS
  <2>1. taken = Size * n /\ k = Size
    BY <1>1, <1>2, <1>3 DEF Stream
  <2>2. Size * (n + 1) = Size * n + Size
    BY <1>5, OneMore
  <2>3. Answer(n + 1) \in Number /\ \A j \in 1 .. Size : Answer(n + 1)[j] = Size * n + j
    <3>1. n + 1 \in Nat \ {0} /\ (n + 1) - 1 = n
      BY <1>5
    <3>. QED  BY <3>1, AnswerParts
  <2>4. \A j \in 1 .. Size : recv'[j] = Answer(n + 1)[j]
    BY <1>5, <1>9, <2>1, <2>3
  <2>5. recv' = [j \in 1 .. Size |-> recv'[j]] /\ Answer(n + 1) = [j \in 1 .. Size |-> Answer(n + 1)[j]]
    BY <1>9, <2>3 DEF Number
  <2>6. recv' = Answer(n + 1)
    BY <2>4, <2>5
  <2>. QED  BY <1>2, <2>1, <2>2, <2>6
<1>12. printed' \in Seq(Number) /\ Len(printed') = n + 1 /\ Matched'
  <2>1. \A j \in 1 .. Size : recv'[j] \in Nat /\ recv'[j] <= Size * (n + 1)
    BY <1>2, <1>5, <1>6, <1>8, <1>9, <1>10 DEF Number
  <2>. QED  BY <1>1, <1>2, <1>3, <1>9, <1>11, <2>1, OneLineMore
<1>13. Types'
  BY <1>1, <1>2, <1>4, <1>5, <1>6, <1>9, <1>12 DEF Types
<1>14. Requests'
  BY <1>1, <1>2 DEF Requests, Nth
<1>15. OneByOne'
  BY <1>2, <1>5, <1>7, <1>12 DEF OneByOne
<1>16. Stream'
  BY <1>1, <1>2, <1>5, <1>6, <1>10, <1>11, <1>12 DEF Stream
<1>17. Datagrams' /\ Received'
  BY <1>1, <1>2 DEF Datagrams, Received
<1>. QED  BY <1>12, <1>13, <1>14, <1>15, <1>16, <1>17 DEF IInv

-----------------------------------------------------------------------------
(* The datagrams *)

(* What Delivered(m, n) leaves of the network: no more than was in it, and all that was
   only if a copy was made. *)
LEMMA DeliveredOnce ==
    ASSUME Types, NEW m, NEW n, Delivered(m, n)
    PROVE  /\ copies' \in 0 .. MaxCopies /\ copies' >= copies
           /\ \A x \in n : x \in net
           /\ copies' = 0 => copies = 0 /\ n = net \ {m}
BY ClientBounds DEF Delivered, Types

(* recvfrom() takes an answer to this request, or to an earlier one that came late or
   twice. *)
LEMMA RecvFromStep == ASSUME IInv, RecvFrom PROVE IInv'
<1>1. Types /\ Requests /\ OneByOne /\ Stream /\ Datagrams /\ Matched /\ Received
  BY DEF IInv
<1>. DEFINE n == Len(printed)
<1>2. PICK m \in net : /\ m[1] = "client"
                       /\ \E rest \in {net, net \ {m}} : Delivered(m, rest) /\ net' = rest
                       /\ recv' = Answer(m[2]) /\ printed' = Append(printed, recv')
  BY DEF RecvFrom, PrintLine
<1>3. /\ prog = "udp" /\ pc = "read" /\ pc' = "scan"
      /\ UNCHANGED <<prog, numbers, text, value, sent, answered, arrived, taken, broken, lost,
                     whole, server, waiting, exit>>
  BY DEF RecvFrom, input, tcp, hello
<1>4. /\ copies' \in 0 .. MaxCopies /\ copies' >= copies
      /\ \A x \in net' : x \in net
      /\ copies' = 0 => copies = 0 /\ net' = net \ {m}
  BY <1>1, <1>2, DeliveredOnce
<1>5. n \in Nat /\ Len(sent) = n + 1 /\ Len(sent) \in Nat /\ copies \in Nat
  BY <1>1, <1>3 DEF Types, OneByOne
<1>6. m[2] \in 1 .. n + 1 /\ m[2] \in Nat \ {0}
  BY <1>1, <1>2, <1>3, <1>5 DEF Datagrams
<1>7. recv' \in Number /\ \A j \in 1 .. Size : recv'[j] <= Size * m[2]
  BY <1>2, <1>6, AnswerParts
<1>8. /\ printed' \in Seq(Number) /\ Len(printed') = n + 1
      /\ \A e \in 1 .. n : printed'[e] = printed[e]
      /\ printed'[n + 1] = recv'
      /\ \A e \in 1 .. n + 1 : e \in 1 .. n \/ e = n + 1
  BY <1>1, <1>2, <1>5, <1>7 DEF Types
<1>9. Types'
  BY <1>1, <1>3, <1>4, <1>7, <1>8 DEF Types
<1>10. Requests'
  BY <1>1, <1>3 DEF Requests, Nth
<1>11. OneByOne'
  BY <1>3, <1>5, <1>8 DEF OneByOne
<1>12. Stream'
  BY <1>1, <1>3 DEF Stream
<1>13. Datagrams'
  <2>1. net' \in SUBSET ({"server", "client"} \X (1 .. Len(sent)))
    BY <1>1, <1>3, <1>4 DEF Datagrams
  <2>2. copies' = 0 => net' = {}
    BY <1>1, <1>3, <1>4 DEF Datagrams
  <2>. QED  BY <1>3, <2>1, <2>2 DEF Datagrams
<1>14. Matched'
  <2>1. copies' = 0 => copies = 0 /\ recv' = Answer(n + 1)
    BY <1>1, <1>2, <1>3, <1>4, <1>5 DEF Datagrams
  <2>2. ASSUME NEW e \in 1 .. n + 1
        PROVE  /\ whole' /\ copies' = 0 => printed'[e] = Answer(e)
               /\ \E k \in 1 .. e : printed'[e] = Answer(k)
    <3>1. CASE e \in 1 .. n
      BY <1>1, <1>3, <1>8, <2>1, <3>1 DEF Matched
    <3>2. CASE e = n + 1
      BY <1>2, <1>6, <1>8, <2>1, <3>2
    <3>. QED  BY <1>8, <3>1, <3>2
  <2>. QED  BY <1>3, <1>8, <2>2 DEF Matched, Answer
<1>15. Received'
  <2>1. Size * m[2] <= Size * Len(sent) /\ Size * m[2] \in Nat /\ Size * Len(sent) \in Nat
    <3>. HIDE DEF n
    <3>1. m[2] \in Nat /\ Len(sent) \in Nat /\ m[2] <= Len(sent)
      BY <1>5, <1>6
    <3>. QED  BY <3>1, MoreParts
  <2>2. \A j \in 1 .. Size : recv'[j] \in Nat
    BY <1>7 DEF Number
  <2>. QED  BY <1>3, <1>7, <2>1, <2>2 DEF Received
<1>. QED  BY <1>9, <1>10, <1>11, <1>12, <1>13, <1>14, <1>15 DEF IInv

(* What the servers and the network do to the client: nothing. *)
LEMMA SameClient ==
    ASSUME IInv, UNCHANGED <<prog, numbers, text, pc, value, sent, recv, printed, whole>>
    PROVE  Requests' /\ OneByOne' /\ Received'
<1>1. Requests /\ OneByOne /\ Received
  BY DEF IInv
<1>2. Requests'
  BY <1>1, SameRequests DEF Requests
<1>. QED  BY <1>1, <1>2 DEF OneByOne, Received

(* The server's answer takes the place of the request. *)
LEMMA AnswerDatagramStep == ASSUME IInv, AnswerDatagram PROVE IInv'
<1>1. Types /\ Stream /\ Datagrams /\ Matched
  BY DEF IInv
<1>2. PICK m \in net : /\ m[1] = "server"
                       /\ \E rest \in {net, net \ {m}} :
                             Delivered(m, rest) /\ net' = rest \cup {<<"client", m[2]>>}
  BY DEF AnswerDatagram
<1>3. PICK rest \in {net, net \ {m}} : Delivered(m, rest) /\ net' = rest \cup {<<"client", m[2]>>}
  BY <1>2
<1>4. /\ prog = "udp"
      /\ UNCHANGED <<prog, numbers, text, pc, value, sent, recv, printed, whole, server, waiting,
                     exit, answered, arrived, taken, broken, lost>>
  BY DEF AnswerDatagram, others, input, output, hello, tcp
<1>5. /\ copies' \in 0 .. MaxCopies /\ copies' >= copies /\ copies \in Nat
      /\ \A x \in rest : x \in net
      /\ copies' = 0 => copies = 0 /\ rest = net \ {m}
  BY <1>1, <1>3, DeliveredOnce, ClientBounds DEF Types
<1>6. Types'
  BY <1>1, <1>4, <1>5 DEF Types
<1>7. Stream'
  BY <1>1, <1>4 DEF Stream
<1>8. Datagrams'
  <2>1. m[2] \in 1 .. Len(sent)
    BY <1>1, <1>2, <1>4 DEF Datagrams
  <2>2. net' \in SUBSET ({"server", "client"} \X (1 .. Len(sent)))
    BY <1>1, <1>3, <1>4, <1>5, <2>1 DEF Datagrams
  <2>3. copies' = 0 => net' = {<<"client", Len(sent)>>} /\ pc = "read"
    BY <1>1, <1>2, <1>3, <1>4, <1>5 DEF Datagrams
  <2>. QED  BY <1>4, <2>2, <2>3 DEF Datagrams
<1>9. Matched'
  BY <1>1, <1>4, <1>5 DEF Matched, Answer
<1>. QED  BY <1>4, <1>6, <1>7, <1>8, <1>9, SameClient DEF IInv

(* A datagram that is lost leaves the others as they are. *)
LEMMA LoseStep == ASSUME IInv, Lose PROVE IInv'
<1>1. Types /\ Stream /\ Datagrams /\ Matched
  BY DEF IInv
<1>2. /\ \A m \in net' : m \in net
      /\ lost' = TRUE
      /\ UNCHANGED <<prog, numbers, text, pc, value, sent, recv, printed, whole, server, waiting,
                     exit, answered, arrived, taken, broken, copies>>
  BY DEF Lose, others, input, output, hello, tcp
<1>3. Types'
  <2>1. lost' \in BOOLEAN
    BY <1>2
  <2>. QED  BY <1>1, <1>2, <2>1 DEF Types
<1>4. Stream'
  BY <1>1, <1>2 DEF Stream
<1>5. Datagrams'
  BY <1>1, <1>2 DEF Datagrams
<1>. QED  BY <1>1, <1>2, <1>3, <1>4, <1>5, SameClient, SameMatched DEF IInv

-----------------------------------------------------------------------------
(* The stream *)

(* An answer is sent or a part of it arrives, and no more than that. *)
LEMMA StreamStep == ASSUME IInv, AnswerRequest \/ Arrive \/ BreakConnection PROVE IInv'
<1>1. Types /\ Stream /\ Datagrams /\ Matched
  BY DEF IInv
<1>2. /\ UNCHANGED <<prog, numbers, text, pc, value, sent, recv, printed, whole, server, waiting,
                     exit, taken, net, lost, copies>>
      /\ broken' \in {broken, TRUE}
      /\ \/ prog = "tcp" /\ answered < Len(sent) /\ answered' = answered + 1 /\ arrived' = arrived
         \/ arrived < Size * answered /\ arrived' = arrived + 1 /\ answered' = answered
         \/ UNCHANGED <<answered, arrived>>
  BY DEF AnswerRequest, Arrive, BreakConnection, others, input, output, hello, network
<1>3. /\ answered \in Nat /\ arrived \in Nat /\ taken \in Nat /\ Size \in Nat /\ Len(sent) \in Nat
      /\ answered + 1 \in Nat
  BY <1>1, ClientBounds DEF Types
<1>4. Types'
  <2>1. broken' \in BOOLEAN
    BY <1>1, <1>2 DEF Types
  <2>2. answered' \in Nat /\ arrived' \in Nat
    BY <1>2, <1>3
  <2>. QED  BY <1>1, <1>2, <2>1, <2>2 DEF Types
<1>5. Stream'
  <2>1. answered' <= Len(sent) /\ taken <= arrived'
    BY <1>1, <1>2, <1>3 DEF Stream
  <2>2. arrived' <= Size * answered'
    <3>1. Size * answered <= Size * (answered + 1) /\ Size * answered \in Nat
          /\ Size * (answered + 1) \in Nat
      BY <1>3, MoreParts
    <3>. QED  BY <1>1, <1>2, <1>3, <3>1 DEF Stream
  <2>3. prog # "tcp" => answered' = 0
    <3>1. Size * 0 = 0
      BY <1>3, OneMore
    <3>. QED  BY <1>1, <1>2, <1>3, <3>1 DEF Stream
  <2>. QED  BY <1>1, <1>2, <2>1, <2>2, <2>3 DEF Stream
<1>. QED  BY <1>1, <1>2, <1>4, <1>5, SameClient, SameDatagrams, SameMatched DEF IInv

-----------------------------------------------------------------------------
(* udp/server.c and its clients *)

(* They send datagrams to each other, and no client of numbers runs. *)
LEMMA HelloStep ==
    ASSUME IInv, Server \/ \E c \in HelloClients : HelloClient(c)
    PROVE  IInv'
<1>1. Types /\ Stream /\ Datagrams /\ Matched
  BY DEF IInv
<1>2. /\ prog = "hello"
      /\ UNCHANGED <<prog, numbers, text, pc, value, sent, recv, printed, whole, answered,
                     arrived, taken, broken, lost, copies>>
  BY DEF Server, ServerCall, ServerFails, ServerReceives, HelloClient, unchanged, network, input,
         tcp, output
<1>3. net' \in SUBSET ({"server"} \X HelloClients) /\ waiting' \in SUBSET HelloClients
  BY <1>1, <1>2 DEF Server, ServerCall, ServerFails, ServerReceives, HelloClient, network,
                    Datagrams, Types
<1>4. /\ server' \in {"socket", "bind", "getsockname", "recvfrom", "ended"}
      /\ exit' \in {exit, "0", "1", "2", "3", "4"}
  BY <1>1 DEF Server, ServerCall, ServerFails, ServerReceives, HelloClient, NextCall, FailureCode,
              Types
<1>5. Types'
  BY <1>1, <1>2, <1>3, <1>4 DEF Types
<1>6. Stream'
  BY <1>1, <1>2 DEF Stream
<1>7. Datagrams'
  BY <1>1, <1>2, <1>3 DEF Datagrams
<1>. QED  BY <1>1, <1>2, <1>5, <1>6, <1>7, SameClient, SameMatched DEF IInv

-----------------------------------------------------------------------------
(* The theorems *)

(* Every step keeps the invariant. *)
LEMMA NextInv == IInv /\ [Next]_vars => IInv'
<1>. SUFFICES ASSUME IInv, [Next]_vars PROVE IInv'
  OBVIOUS
<1>1. CASE UNCHANGED vars
  <2>1. UNCHANGED <<prog, numbers, text, pc, value, sent, answered, arrived, taken, broken, net,
                    lost, copies, recv, printed, whole, server, waiting, exit>>
    BY <1>1 DEF vars
  <2>2. Types' /\ Stream' /\ Datagrams' /\ Matched'
    BY <2>1 DEF IInv, Types, Stream, Datagrams, Matched
  <2>. QED  BY <2>1, <2>2, SameClient DEF IInv
<1>2. CASE Client
  BY <1>2, StartStep, EndStep, ScanStep, WriteStep, SendToStep, ReadStep, RecvFromStep DEF Client
<1>3. CASE Answers
  BY <1>3, StreamStep, AnswerDatagramStep DEF Answers
<1>. QED  BY <1>1, <1>2, <1>3, StreamStep, LoseStep, HelloStep DEF Next, Stopped

(* The invariant has what TypeOK says. *)
LEMMA InvImpliesTypes == ASSUME IInv PROVE TypeOK
<1>1. Types /\ Requests /\ OneByOne /\ Stream /\ Datagrams /\ Matched /\ Received
  BY DEF IInv
<1>2. /\ Len(sent) \in Nat /\ Len(printed) \in Nat /\ numbers \in Nat /\ value \in Nat
      /\ answered \in Nat /\ arrived \in Nat /\ taken \in Nat /\ MaxSent \in Nat /\ Size \in Nat
      /\ Len(sent) <= MaxSent /\ Len(printed) <= Len(sent) /\ answered <= Len(sent)
  BY <1>1, ClientBounds DEF Types, OneByOne, Stream
<1>3. \A k \in DOMAIN sent : sent[k] \in 0 .. value
  <2>1. \A k \in 1 .. Len(sent) : Nth(k) \in Nat /\ Nth(k) <= Nth(Len(sent))
    BY <1>2 DEF Nth
  <2>. QED  BY <1>1, <1>2, <2>1 DEF Requests, Types, Nth
<1>4. answered \in 0 .. Len(sent) /\ arrived \in 0 .. Size * answered /\ taken \in 0 .. arrived
  BY <1>1, <1>2 DEF Stream
<1>5. net \subseteq {"server", "client"} \X (1 .. MaxSent \cup HelloClients)
  BY <1>1, <1>2 DEF Datagrams, Types
<1>6. /\ Size * Len(sent) <= Size * MaxSent /\ Size * Len(sent) \in Nat /\ Size * MaxSent \in Nat
      /\ Size * answered <= Size * MaxSent
  BY <1>2, MoreParts
<1>7. ASSUME NEW x \in Number, \A j \in 1 .. Size : x[j] <= Size * MaxSent PROVE x \in Ints
  BY <1>2, <1>6, <1>7 DEF Number, Ints, Parts
<1>8. recv \in Ints
  <2>1. recv \in Number /\ \A j \in 1 .. Size : recv[j] \in Nat
    BY <1>1 DEF Types, Number
  <2>2. \A j \in 1 .. Size : recv[j] <= Size * MaxSent
    <3>1. CASE prog = "tcp"
      <4>1. Size * answered \in Nat /\ Size * answered <= Size * MaxSent
        BY <1>2, MoreParts
      <4>2. arrived <= Size * answered /\ taken <= arrived /\ \A j \in 1 .. Size : recv[j] <= taken
        BY <1>1, <3>1 DEF Stream
      <4>3. taken <= Size * MaxSent
        BY <1>2, <1>6, <4>1, <4>2
      <4>. QED  BY <1>2, <1>6, <2>1, <4>2, <4>3
    <3>2. CASE prog # "tcp"
      BY <1>1, <1>6, <2>1, <3>2 DEF Received
    <3>. QED  BY <3>1, <3>2
  <2>. QED  BY <1>7, <2>1, <2>2
<1>9. ASSUME NEW k \in DOMAIN printed PROVE printed[k] \in Ints
  <2>1. k \in 1 .. Len(printed) /\ k \in Nat /\ k <= MaxSent /\ printed[k] \in Number
    BY <1>1, <1>2 DEF Types
  <2>2. Size * k <= Size * MaxSent /\ Size * k \in Nat
    BY <1>2, <2>1, MoreParts
  <2>3. \A j \in 1 .. Size : printed[k][j] \in Nat
    BY <2>1 DEF Number
  <2>4. \A j \in 1 .. Size : printed[k][j] <= Size * MaxSent
    <3>1. CASE prog = "udp"
      <4>1. PICK l \in 1 .. k : printed[k] = Answer(l)
        BY <1>1, <2>1, <3>1 DEF Matched
      <4>2. l \in Nat \ {0} /\ l <= MaxSent
        BY <1>2, <2>1
      <4>3. Size * l <= Size * MaxSent /\ Size * l \in Nat
        BY <1>2, <4>2, MoreParts
      <4>4. \A j \in 1 .. Size : printed[k][j] <= Size * l
        BY <4>1, <4>2, AnswerParts
      <4>. QED  BY <1>6, <2>3, <4>3, <4>4
    <3>2. CASE prog # "udp"
      BY <1>1, <1>6, <2>1, <2>2, <2>3, <3>2 DEF Matched
    <3>. QED  BY <3>1, <3>2
  <2>. QED  BY <1>7, <2>1, <2>4
<1>. QED  BY <1>1, <1>2, <1>3, <1>4, <1>5, <1>8, <1>9 DEF Types, TypeOK

(* The lines and the requests of the invariant are those of RepliesMatch. *)
LEMMA InvImpliesMatch == ASSUME IInv PROVE RepliesMatch
<1>1. Types /\ Requests /\ OneByOne /\ Matched
  BY DEF IInv
<1>2. SUFFICES ASSUME NEW e \in DOMAIN printed
               PROVE  /\ whole /\ copies = 0 => printed[e] = Answer(e)
                      /\ e <= numbers => sent[e] = e
                      /\ IF prog = "udp" THEN \E k \in 1 .. e : printed[e] = Answer(k)
                         ELSE \A j \in 1 .. Size : printed[e][j] \in 0 .. Answer(e)[Size]
  BY DEF RepliesMatch
<1>3. e \in 1 .. Len(printed) /\ e \in 1 .. Len(sent) /\ e \in Nat \ {0} /\ printed[e] \in Number
  BY <1>1 DEF Types, OneByOne
<1>4. e <= numbers => sent[e] = e
  BY <1>1, <1>3 DEF Requests, Nth, Types
<1>5. prog # "udp" => \A j \in 1 .. Size : printed[e][j] \in 0 .. Answer(e)[Size]
  <2>1. Size \in 1 .. Size /\ Size \in Nat
    BY ClientBounds
  <2>2. Answer(e)[Size] = Size * (e - 1) + Size
    BY <1>3, <2>1, AnswerParts
  <2>3. Size * ((e - 1) + 1) = Size * (e - 1) + Size /\ (e - 1) + 1 = e
    <3>1. e - 1 \in Nat /\ (e - 1) + 1 = e
      BY <1>3
    <3>. QED  BY <3>1, OneMore
  <2>4. Answer(e)[Size] = Size * e /\ Size * e \in Nat
    BY <1>3, <2>1, <2>2, <2>3
  <2>5. \A j \in 1 .. Size : printed[e][j] \in Nat
    BY <1>3 DEF Number
  <2>. QED  BY <1>1, <1>3, <2>4, <2>5 DEF Matched
<1>. QED  BY <1>1, <1>3, <1>4, <1>5 DEF Matched

(* Clients stays within its types: no datagram is of a request that was not sent, nothing
   is read before it arrived, and no int has other parts than those of an answer. *)
THEOREM TypeCorrect == Spec => []TypeOK
BY InitInv, NextInv, InvImpliesTypes, PTL DEF Spec

(* tcp-client.c and udp-client.c print in each line what was answered to this request, as
   long as no answer comes twice or in pieces; and never what belongs to a later one. *)
THEOREM AnswersMatch == Spec => []RepliesMatch
BY InitInv, NextInv, InvImpliesMatch, PTL DEF Spec

-----------------------------------------------------------------------------
(* The exporter: each problem that it is done with is saved.  This is not inductive as it
   stands: it takes that run() never goes beyond `count', so that a later problem of the
   same name and format is no later than where the script is, and that the solution to be
   downloaded is the last accepted one of the problem. *)

(* The solution of its problem that counts, if it was accepted: none later was. *)
IsLast(s) == \A t \in Solutions : site[t].problem = site[s].problem /\ site[t].ok => t <= s

(* The problems that run() is done with. *)
Past == 1 .. i - 1 \cup (IF outcome = "done" /\ count > 0 THEN {i} ELSE {})

(* Where the script is: run() never goes beyond `count', and at a download the solution
   is the last accepted one. *)
Position ==
    /\ sameName \in BOOLEAN
    /\ stage \in {"parse", "download"} /\ problem_id = 0 => i <= count
    /\ stage = "login" => problem_id = 0
    /\ stage \in {"start", "login"} => i = 1
    /\ stage = "download" => solution \in Accepted(i) /\ IsLast(solution)

(* A file holds an accepted solution, the last of its problem, which is one the script
   has come to; or it was being written when the script stopped. *)
FilesHold ==
    \A path \in Paths :
       /\ files[path] \in Solutions =>
             /\ site[files[path]].ok /\ IsLast(files[path]) /\ Path(files[path]) = path
             /\ problem_id = 0 => site[files[path]].problem <= i
       /\ files[path] = CutOff => outcome = "write" /\ path = Path(solution)

(* The solution of each problem that is done with is in its file, or one of a later problem
   is, if the file is not cut off. *)
PastSaved ==
    problem_id = 0 =>
       \A s \in Solutions :
          site[s].ok /\ IsLast(s) /\ site[s].problem \in Past \ skipped
          => /\ files[Path(s)] # 0
             /\ files[Path(s)] \in Solutions =>
                   site[files[Path(s)]].problem \in site[s].problem .. i

ExporterInv == ExporterTypeOK /\ Position /\ FilesHold /\ PastSaved

(* A nonempty set of natural numbers has a minimum. *)
LEMMA HasMin ==
    ASSUME NEW S \in SUBSET Nat, S # {}
    PROVE  \E m \in S : \A x \in S : m <= x
<1>1. \E m \in S : \A x \in S : ~(<<x, m>> \in OpToRel(<, Nat))
  BY NatLessThanWellFounded, WFMin, Zenon
<1>2. \A m \in S : \A x \in S : x < m => <<x, m>> \in OpToRel(<, Nat)
  BY Zenon DEF OpToRel
<1>3. \E m \in S : \A x \in S : ~(x < m)
  BY <1>1, <1>2, Zenon
<1>. QED  BY <1>3

(* The greatest of some solutions is one of them. *)
LEMMA LatestIsLast ==
    ASSUME NEW S \in SUBSET Solutions, S # {}
    PROVE  Latest(S) \in S /\ \A t \in S : t <= Latest(S)
<1>1. NumSolutions \in Nat /\ S \in SUBSET (0 .. NumSolutions)
  BY ExporterBounds DEF Solutions
<1>. DEFINE Above == {n \in Nat : \A y \in S : y <= n}
<1>2. Above \in SUBSET Nat /\ NumSolutions \in Above
  BY <1>1
<1>3. \A n \in Nat : n \in Above <=> \A y \in S : y <= n
  OBVIOUS
<1>. HIDE DEF Above
<1>4. PICK n \in Above : \A m \in Above : n <= m
  BY <1>2, HasMin
<1>5. n \in S
  <2>. SUFFICES ASSUME n \notin S PROVE FALSE
    OBVIOUS
  <2>1. \A y \in S : y \in Nat /\ y < n
    BY <1>1, <1>2, <1>3, <1>4
  <2>2. n - 1 \in Nat
    BY <1>2, <1>4, <2>1
  <2>3. n - 1 \in Above
    BY <1>2, <1>3, <1>4, <2>1, <2>2
  <2>. QED  BY <1>2, <1>4, <2>2, <2>3
<1>6. \A t \in S : n >= t
  BY <1>1, <1>2, <1>3, <1>4
<1>7. \E x \in S : \A y \in S : x >= y
  BY <1>5, <1>6
<1>8. Latest(S) \in S /\ \A y \in S : Latest(S) >= y
  BY <1>7 DEF Latest, Max
<1>. QED  BY <1>1, <1>8

(* What does not change keeps its meaning. *)
LEMMA Kept ==
    ASSUME UNCHANGED setting
    PROVE  /\ \A s : IsLast(s)' <=> IsLast(s)
           /\ \A p : Accepted(p)' = Accepted(p)
           /\ \A s : Path(s)' = Path(s)
           /\ Paths' = Paths /\ UNCHANGED <<site, sameName, count, problem_id>>
BY DEF setting, IsLast, Accepted, Path, Format, Name, Paths

(* The path of a solution is one. *)
LEMMA PathTyped == ASSUME ExporterTypeOK, NEW s \in Solutions PROVE Path(s) \in Paths
<1>1. site[s].problem \in Problems
  BY DEF ExporterTypeOK
<1>. QED  BY <1>1 DEF Path, Paths, Format

(* A step that changes no file, and leaves behind only problems without an accepted
   solution. *)
LEMMA NoFileChanged ==
    ASSUME ExporterInv, UNCHANGED <<setting, files>>, i' \in Problems, skipped \subseteq skipped',
           outcome = "none" \/ UNCHANGED <<outcome, solution>>,
           problem_id = 0 =>
              i' >= i /\ \A p \in Past' \ skipped' : p \in Past \ skipped \/ Accepted(p) = {}
    PROVE  FilesHold' /\ PastSaved'
<1>1. ExporterTypeOK /\ FilesHold /\ PastSaved
  BY DEF ExporterInv
<1>2. i \in Nat /\ i' \in Nat /\ files' = files /\ Problems \in SUBSET Nat
  BY <1>1, ExporterBounds DEF ExporterTypeOK, Problems
<1>3. \A path \in Paths : files[path] \in Solutions => site[files[path]].problem \in Nat
  BY <1>1, <1>2 DEF ExporterTypeOK
<1>4. FilesHold'
  <2>1. SUFFICES ASSUME NEW path \in Paths
                 PROVE  /\ files[path] \in Solutions =>
                              /\ site[files[path]].ok /\ IsLast(files[path])
                              /\ Path(files[path]) = path
                              /\ problem_id = 0 => site[files[path]].problem <= i'
                        /\ files[path] = CutOff => outcome' = "write" /\ path = Path(solution)'
    BY <1>2, Kept DEF FilesHold
  <2>2. files[path] = CutOff => outcome' = "write" /\ path = Path(solution)'
    <3>1. files[path] = CutOff => outcome = "write" /\ path = Path(solution)
      BY <1>1 DEF FilesHold
    <3>2. UNCHANGED solution => Path(solution)' = Path(solution)
      BY Kept DEF Path, Format, Name
    <3>. QED  BY <3>1, <3>2
  <2>. QED  BY <1>1, <1>2, <1>3, <2>2 DEF FilesHold
<1>5. PastSaved'
  <2>1. SUFFICES ASSUME problem_id = 0, NEW s \in Solutions, site[s].ok, IsLast(s),
                        site[s].problem \in Past' \ skipped'
                 PROVE  /\ files[Path(s)] # 0
                        /\ files[Path(s)] \in Solutions =>
                              site[files[Path(s)]].problem \in site[s].problem .. i'
    BY <1>2, Kept DEF PastSaved
  <2>2. s \in Accepted(site[s].problem)
    BY <2>1 DEF Accepted
  <2>3. /\ files[Path(s)] # 0
        /\ files[Path(s)] \in Solutions => site[files[Path(s)]].problem \in site[s].problem .. i
    BY <1>1, <2>1, <2>2 DEF PastSaved
  <2>4. site[s].problem \in Nat
    BY <1>1, <1>2 DEF ExporterTypeOK
  <2>. QED  BY <1>2, <2>1, <2>3, <2>4
<1>. QED  BY <1>4, <1>5

(* Proceed goes on to the next problem, if there is one. *)
LEMMA ProceedStep ==
    ASSUME ExporterInv, stage \in {"parse", "download"}, Proceed, UNCHANGED setting
    PROVE  /\ i' \in Problems /\ i' >= i
           /\ (stage' = "parse" /\ outcome' = "none") \/ (stage' = "ended" /\ outcome' = "done")
           /\ stage' = "parse" /\ problem_id = 0 => i' <= count
           /\ \A p \in Past' : p \in Past \/ p = i
<1>1. ExporterTypeOK /\ Position
  BY DEF ExporterInv
<1>2. i \in Problems /\ NumProblems \in Nat /\ count \in 0 .. NumProblems /\ outcome = "none"
      /\ count' = count
  BY <1>1, ExporterBounds DEF ExporterTypeOK, setting
<1>3. CASE problem_id # 0 \/ TheLast
  BY <1>2, <1>3 DEF Proceed, Stop, Past, Problems
<1>4. CASE ~(problem_id # 0 \/ TheLast)
  <2>1. i < count
    BY <1>1, <1>2, <1>4 DEF TheLast, Position, Problems
  <2>2. i' = i + 1 /\ stage' = "parse" /\ outcome' = outcome
    BY <1>4 DEF Proceed, Goto
  <2>. QED  BY <1>2, <2>1, <2>2 DEF Past, Problems
<1>. QED  BY <1>3, <1>4

(* __init__() *)
LEMMA ConstructStep == ASSUME ExporterInv, Construct PROVE ExporterInv'
<1>1. ExporterTypeOK /\ Position
  BY DEF ExporterInv
<1>2. UNCHANGED <<setting, sid, solution, skipped, folders, files>>
  BY DEF Construct, saved
<1>3. stage = "start" /\ formats' \in {"none", "table", "null"} /\ i' \in Problems
      /\ (problem_id = 0 => i' = 1) /\ outcome' \in {"none", "formats"}
      /\ stage' \in {"login", "parse", "ended"} /\ (stage' = "ended" <=> outcome' # "none")
      /\ (stage' \in {"login", "parse"} => (stage' = "login" <=> problem_id = 0))
  BY <1>1, ExporterBounds DEF Construct, Stop, Goto, ExporterTypeOK, Problems
<1>4. Position'
  BY <1>1, <1>2, <1>3 DEF Position, setting
<1>5. ExporterTypeOK'
  <2>1. stage' = "ended" <=> outcome' # "none"
    BY <1>3
  <2>2. UNCHANGED <<site, sameName, count, problem_id>> /\ Paths' = Paths
    BY <1>2, Kept
  <2>. QED  BY <1>1, <1>2, <1>3, <2>1, <2>2 DEF ExporterTypeOK, Name, Failures
<1>6. problem_id = 0 => i' >= i /\ \A p \in Past' : FALSE
  BY <1>1, <1>3, ExporterBounds DEF Position, Past, Problems
<1>7. outcome = "none"
  BY <1>1, <1>3 DEF ExporterTypeOK
<1>. QED  BY <1>2, <1>3, <1>4, <1>5, <1>6, <1>7, NoFileChanged DEF ExporterInv

(* login(), when nothing of it fails *)
LEMMA LoginStep == ASSUME ExporterInv, Login PROVE ExporterInv'
<1>1. ExporterTypeOK /\ Position /\ count \in Nat
  BY ExporterBounds DEF ExporterInv, ExporterTypeOK
<1>2. stage = "login" /\ sid' = TRUE
      /\ UNCHANGED <<setting, formats, i, solution, skipped, folders, files>>
  BY DEF Login, saved
<1>3. /\ stage' \in {"parse", "ended"} /\ outcome' \in {"none", "done"}
      /\ stage' = "ended" <=> outcome' = "done"
      /\ stage' = "parse" => count > 0
      /\ outcome' = "done" => count = 0
  BY <1>1, <1>2 DEF Login, Stop, Goto, ExporterTypeOK
<1>4. i = 1
  BY <1>1, <1>2 DEF Position
<1>5. Position'
  BY <1>1, <1>2, <1>3, <1>4 DEF Position, setting
<1>6. ExporterTypeOK'
  BY <1>1, <1>2, <1>3, Kept DEF ExporterTypeOK, Name
<1>7. \A p \in Past' : FALSE
  BY <1>1, <1>2, <1>3, <1>4 DEF Past, setting
<1>. QED  BY <1>1, <1>2, <1>4, <1>5, <1>6, <1>7, NoFileChanged, ExporterBounds
          DEF ExporterInv, ExporterTypeOK, Problems

(* An exception, wherever it is raised before a file is written. *)
LEMMA FailureStep ==
    ASSUME ExporterInv, stage # "ended", NEW o \in Failures, Stop(o), MakeFolder \/ UNCHANGED folders,
           UNCHANGED <<setting, formats, sid, i, solution, skipped, files>>
    PROVE  ExporterInv'
<1>1. ExporterTypeOK /\ Position
  BY DEF ExporterInv
<1>2. stage' = "ended" /\ outcome' = o /\ o \notin {"none", "done"}
  BY DEF Stop, Failures
<1>3. folders \subseteq folders' /\ folders' \subseteq {Name(p) : p \in Problems}
  BY <1>1 DEF MakeFolder, ExporterTypeOK
<1>4. Position'
  BY <1>1, <1>2 DEF Position, setting
<1>5. ExporterTypeOK'
  BY <1>1, <1>2, <1>3, Kept DEF ExporterTypeOK, Name, Failures
<1>6. i \in Problems /\ outcome = "none" /\ \A p \in Past' : p \in Past
  BY <1>1, <1>2 DEF ExporterTypeOK, Past, setting
<1>. QED  BY <1>4, <1>5, <1>6, NoFileChanged, ExporterBounds DEF ExporterInv, Problems

(* The five actions that raise one and leave the files as they are. *)
LEMMA FailureSteps ==
    ASSUME ExporterInv, LoginFails \/ NoSession \/ BadPage \/ BadSolution \/ OpenFails
    PROVE  ExporterInv'
<1>1. CASE LoginFails
  BY <1>1, FailureStep DEF LoginFails, Failures, saved
<1>2. CASE NoSession
  BY <1>2, FailureStep DEF NoSession, Failures, saved
<1>3. CASE BadPage
  BY <1>3, FailureStep DEF BadPage, Failures, saved
<1>4. CASE BadSolution
  BY <1>4, FailureStep DEF BadSolution, Failures
<1>5. CASE OpenFails
  BY <1>5, FailureStep DEF OpenFails, Failures
<1>. QED  BY <1>1, <1>2, <1>3, <1>4, <1>5

(* parse_problem(): no table of solutions, or none that was accepted. *)
LEMMA NothingToSaveStep == ASSUME ExporterInv, NoTable \/ NoneAccepted PROVE ExporterInv'
<1>1. ExporterTypeOK /\ Position
  BY DEF ExporterInv
<1>2. /\ stage = "parse" /\ Proceed
      /\ UNCHANGED <<setting, formats, sid, solution, folders, files>>
      /\ skipped' = skipped \cup {i} \/ (skipped' = skipped /\ Accepted(i) = {})
  BY DEF NoTable, NoneAccepted, saved
<1>3. /\ i' \in Problems /\ i' >= i
      /\ (stage' = "parse" /\ outcome' = "none") \/ (stage' = "ended" /\ outcome' = "done")
      /\ stage' = "parse" /\ problem_id = 0 => i' <= count
      /\ \A p \in Past' : p \in Past \/ p = i
  BY <1>2, ProceedStep
<1>4. Position'
  BY <1>1, <1>2, <1>3 DEF Position, setting
<1>5. ExporterTypeOK'
  BY <1>1, <1>2, <1>3, Kept DEF ExporterTypeOK, Name
<1>6. outcome = "none"
  BY <1>1, <1>2 DEF ExporterTypeOK
<1>. QED  BY <1>2, <1>3, <1>4, <1>5, <1>6, NoFileChanged DEF ExporterInv

(* parse_problem(): the last accepted solution is chosen. *)
LEMMA ChooseStep == ASSUME ExporterInv, Choose PROVE ExporterInv'
<1>1. ExporterTypeOK /\ Position
  BY DEF ExporterInv
<1>2. /\ stage = "parse" /\ stage' = "download" /\ outcome' = outcome
      /\ Accepted(i) # {} /\ solution' = Latest(Accepted(i))
      /\ UNCHANGED <<setting, formats, sid, i, skipped, folders, files>>
  BY DEF Choose, Goto, saved
<1>3. Accepted(i) \in SUBSET Solutions
  BY DEF Accepted
<1>4. solution' \in Accepted(i) /\ solution' \in Solutions /\ IsLast(solution')
  BY <1>2, <1>3, LatestIsLast DEF IsLast, Accepted
<1>5. Position'
  <2>1. solution' \in Accepted(i)' /\ IsLast(solution)'
    BY <1>2, <1>4 DEF Accepted, IsLast, setting
  <2>. QED  BY <1>1, <1>2, <2>1 DEF Position, setting
<1>6. ExporterTypeOK'
  BY <1>1, <1>2, <1>4, Kept DEF ExporterTypeOK, Name
<1>7. i \in Problems /\ outcome = "none" /\ \A p \in Past' : p \in Past
  BY <1>1, <1>2 DEF ExporterTypeOK, Past, setting
<1>. QED  BY <1>2, <1>5, <1>6, <1>7, NoFileChanged, ExporterBounds DEF ExporterInv, Problems

(* download_solution(): the folder and the file are made. *)
LEMMA SaveStep == ASSUME ExporterInv, Save PROVE ExporterInv'
<1>. DEFINE path == Path(solution)
<1>1. ExporterTypeOK /\ Position /\ FilesHold /\ PastSaved
  BY DEF ExporterInv
<1>2. /\ stage = "download" /\ Proceed /\ MakeFolder /\ Name(i) \in folders'
      /\ files' = [files EXCEPT ![path] = solution] /\ solution' = 0
      /\ UNCHANGED <<setting, formats, sid, skipped>>
  BY DEF Save, OpenAndWrite
<1>3. /\ i' \in Problems /\ i' >= i
      /\ (stage' = "parse" /\ outcome' = "none") \/ (stage' = "ended" /\ outcome' = "done")
      /\ stage' = "parse" /\ problem_id = 0 => i' <= count
      /\ \A p \in Past' : p \in Past \/ p = i
  BY <1>2, ProceedStep
<1>4. solution \in Solutions /\ solution # 0 /\ site[solution].problem = i /\ site[solution].ok
      /\ IsLast(solution)
  BY <1>1, <1>2, ExporterBounds DEF Position, Accepted, Solutions
<1>5. path \in Paths /\ path[1] = Name(i)
  BY <1>1, <1>4, PathTyped DEF Path
<1>6. /\ UNCHANGED <<site, sameName, count, problem_id>> /\ Paths' = Paths
      /\ \A s : IsLast(s)' <=> IsLast(s)
      /\ \A s : Path(s)' = Path(s)
  BY <1>2, Kept
<1>7. files' \in [Paths -> Solutions \cup {0, CutOff}] /\ files'[path] = solution
      /\ \A q \in Paths : q # path => files'[q] = files[q]
  BY <1>1, <1>2, <1>4, <1>5 DEF ExporterTypeOK
<1>8. i \in Nat /\ i' \in Nat /\ \A s \in Solutions : site[s].problem \in Nat
  BY <1>1, <1>3, ExporterBounds DEF ExporterTypeOK, Problems
<1>. HIDE DEF path
<1>9. Position'
  BY <1>1, <1>2, <1>3, <1>6 DEF Position
<1>10. ExporterTypeOK'
  <2>1. folders \subseteq folders' /\ folders' \subseteq {Name(p) : p \in Problems}
    BY <1>1, <1>2 DEF MakeFolder, ExporterTypeOK
  <2>2. \A q \in Paths : files'[q] # 0 => q[1] \in folders'
    BY <1>1, <1>2, <1>5, <1>7, <2>1 DEF ExporterTypeOK
  <2>. QED  BY <1>1, <1>2, <1>3, <1>6, <1>7, <2>1, <2>2 DEF ExporterTypeOK, Name
<1>11. FilesHold'
  <2>1. SUFFICES ASSUME NEW q \in Paths
                 PROVE  /\ files'[q] # CutOff
                        /\ files'[q] \in Solutions =>
                              /\ site[files'[q]].ok /\ IsLast(files'[q]) /\ Path(files'[q]) = q
                              /\ problem_id = 0 => site[files'[q]].problem <= i'
    BY <1>6 DEF FilesHold
  <2>2. CASE q = path
    BY <1>3, <1>4, <1>7, <1>8, <2>2, ExporterBounds DEF path, CutOff, Solutions
  <2>3. CASE q # path
    <3>1. files'[q] = files[q] /\ outcome = "none"
      BY <1>1, <1>2, <1>7, <2>1, <2>3 DEF ExporterTypeOK
    <3>. QED  BY <1>1, <1>3, <1>8, <2>1, <3>1 DEF FilesHold
  <2>. QED  BY <2>2, <2>3
<1>12. PastSaved'
  <2>1. SUFFICES ASSUME problem_id = 0, NEW s \in Solutions, site[s].ok, IsLast(s),
                        site[s].problem \in Past' \ skipped
                 PROVE  /\ files'[Path(s)] # 0
                        /\ files'[Path(s)] \in Solutions =>
                              site[files'[Path(s)]].problem \in site[s].problem .. i'
    BY <1>2, <1>6 DEF PastSaved
  <2>2. site[s].problem \in Past \/ site[s].problem = i
    BY <1>3, <2>1
  <2>3. Path(s) \in Paths
    BY <1>1, PathTyped
  <2>4. site[s].problem <= i
    BY <1>1, <1>8, <2>2 DEF Past
  <2>5. CASE Path(s) = path
    BY <1>3, <1>4, <1>7, <1>8, <2>4, <2>5
  <2>6. CASE Path(s) # path
    <3>1. site[s].problem # i
      <4>. SUFFICES ASSUME site[s].problem = i PROVE FALSE
        OBVIOUS
      <4>1. s <= solution /\ solution <= s
        BY <1>4, <2>1 DEF IsLast
      <4>2. s = solution
        BY <1>4, <4>1, ExporterBounds DEF Solutions
      <4>. QED  BY <2>6, <4>2 DEF path
    <3>2. /\ files[Path(s)] # 0
          /\ files[Path(s)] \in Solutions =>
                site[files[Path(s)]].problem \in site[s].problem .. i
      BY <1>1, <2>1, <2>2, <3>1 DEF PastSaved
    <3>. QED  BY <1>3, <1>7, <1>8, <2>3, <2>6, <3>2
  <2>. QED  BY <2>5, <2>6
<1>. QED  BY <1>9, <1>10, <1>11, <1>12 DEF ExporterInv

(* download_solution(): the file is made or emptied, and its writing breaks off. *)
LEMMA WriteFailsStep == ASSUME ExporterInv, WriteFails PROVE ExporterInv'
<1>. DEFINE path == Path(solution)
<1>1. ExporterTypeOK /\ Position /\ FilesHold /\ PastSaved
  BY DEF ExporterInv
<1>2. /\ stage = "download" /\ MakeFolder /\ Name(i) \in folders'
      /\ files' = [files EXCEPT ![path] = CutOff]
      /\ stage' = "ended" /\ outcome' = "write"
      /\ UNCHANGED <<setting, formats, sid, i, solution, skipped>>
  BY DEF WriteFails, OpenAndWrite, Stop
<1>3. solution \in Solutions /\ site[solution].problem = i
  BY <1>1, <1>2 DEF Position, Accepted
<1>4. path \in Paths /\ path[1] = Name(i)
  BY <1>1, <1>3, PathTyped DEF Path
<1>5. /\ UNCHANGED <<site, sameName, count, problem_id>> /\ Paths' = Paths
      /\ \A s : IsLast(s)' <=> IsLast(s)
      /\ \A s : Path(s)' = Path(s)
  BY <1>2, Kept
<1>6. Path(solution)' = path
  BY <1>2, <1>5 DEF Path, Format, Name
<1>7. files' \in [Paths -> Solutions \cup {0, CutOff}] /\ files'[path] = CutOff
      /\ \A q \in Paths : q # path => files'[q] = files[q]
  BY <1>1, <1>2, <1>4 DEF ExporterTypeOK
<1>8. CutOff \notin Solutions /\ CutOff # 0 /\ outcome = "none"
  BY <1>1, <1>2, ExporterBounds DEF CutOff, Solutions, ExporterTypeOK
<1>. HIDE DEF path
<1>9. Position'
  BY <1>1, <1>2, <1>5 DEF Position
<1>10. ExporterTypeOK'
  <2>1. folders \subseteq folders' /\ folders' \subseteq {Name(p) : p \in Problems}
    BY <1>1, <1>2 DEF MakeFolder, ExporterTypeOK
  <2>2. \A q \in Paths : files'[q] # 0 => q[1] \in folders'
    BY <1>1, <1>2, <1>4, <1>7, <2>1 DEF ExporterTypeOK
  <2>. QED  BY <1>1, <1>2, <1>5, <1>7, <2>1, <2>2 DEF ExporterTypeOK, Name, Failures
<1>11. FilesHold'
  <2>1. SUFFICES ASSUME NEW q \in Paths
                 PROVE  /\ files'[q] \in Solutions =>
                              /\ site[files'[q]].ok /\ IsLast(files'[q]) /\ Path(files'[q]) = q
                              /\ problem_id = 0 => site[files'[q]].problem <= i
                        /\ files'[q] = CutOff => q = path
    BY <1>2, <1>5, <1>6 DEF FilesHold
  <2>2. CASE q = path
    BY <1>7, <1>8, <2>2
  <2>3. CASE q # path
    BY <1>1, <1>7, <1>8, <2>1, <2>3 DEF FilesHold
  <2>. QED  BY <2>2, <2>3
<1>12. PastSaved'
  <2>1. SUFFICES ASSUME problem_id = 0, NEW s \in Solutions, site[s].ok, IsLast(s),
                        site[s].problem \in Past' \ skipped
                 PROVE  /\ files'[Path(s)] # 0
                        /\ files'[Path(s)] \in Solutions =>
                              site[files'[Path(s)]].problem \in site[s].problem .. i
    BY <1>2, <1>5 DEF PastSaved
  <2>2. site[s].problem \in Past
    BY <1>2, <1>5, <2>1 DEF Past
  <2>3. Path(s) \in Paths
    BY <1>1, PathTyped
  <2>4. CASE Path(s) = path
    BY <1>7, <1>8, <2>4
  <2>5. CASE Path(s) # path
    BY <1>1, <1>7, <2>1, <2>2, <2>3, <2>5 DEF PastSaved
  <2>. QED  BY <2>4, <2>5
<1>. QED  BY <1>9, <1>10, <1>11, <1>12 DEF ExporterInv

(* Nothing is done at the start. *)
LEMMA ExporterInitially == ASSUME ExporterInit PROVE ExporterInv
<1>1. ExporterTypeOK
  <2>1. i \in Problems
    BY ExporterBounds DEF ExporterInit, Problems
  <2>2. files \in [Paths -> Solutions \cup {0, CutOff}] /\ \A path \in Paths : files[path] = 0
    BY DEF ExporterInit
  <2>3. stage = "ended" <=> outcome # "none"
    BY DEF ExporterInit
  <2>. QED  BY <2>1, <2>2, <2>3 DEF ExporterInit, ExporterTypeOK
<1>2. Position /\ FilesHold
  BY ExporterBounds DEF ExporterInit, Position, FilesHold, CutOff, Solutions
<1>3. PastSaved
  BY DEF ExporterInit, PastSaved, Past
<1>. QED  BY <1>1, <1>2, <1>3 DEF ExporterInv

(* Every step of the script keeps the invariant. *)
LEMMA ExporterSteps == ExporterInv /\ [ExporterNext]_exporterVars => ExporterInv'
<1>. SUFFICES ASSUME ExporterInv, [ExporterNext]_exporterVars PROVE ExporterInv'
  OBVIOUS
<1>1. CASE UNCHANGED exporterVars
  <2>1. UNCHANGED <<setting, formats, sid, solution, skipped, folders, files, stage, i, outcome>>
    BY <1>1 DEF exporterVars, setting
  <2>2. ExporterTypeOK'
    BY <2>1, Kept DEF ExporterInv, ExporterTypeOK, Name
  <2>3. Position'
    BY <2>1, Kept DEF ExporterInv, Position
  <2>4. i \in Nat /\ i \in Problems /\ Past' = Past
    BY <2>1, ExporterBounds DEF ExporterInv, ExporterTypeOK, Past, Problems, setting
  <2>. QED  BY <2>1, <2>2, <2>3, <2>4, NoFileChanged DEF ExporterInv
<1>2. CASE ExporterNext
  BY <1>1, <1>2, ConstructStep, LoginStep, FailureSteps, NothingToSaveStep, ChooseStep, SaveStep,
     WriteFailsStep
  DEF ExporterNext, Ended
<1>. QED  BY <1>1, <1>2

(* The invariant of the exporter. *)
LEMMA ExporterInvariant == ExporterSpec => []ExporterInv
BY ExporterInitially, ExporterSteps, PTL DEF ExporterSpec

(* Exporter stays within its types: run() never goes beyond --count, so that it is always at
   one of the contest's problems, each file is in a folder that exists, and the script has
   ended when, and only when, it has an outcome (ejudge_parser.py:114-171). *)
THEOREM ExporterTypeCorrect == ExporterSpec => []ExporterTypeOK
<1>1. ExporterInv => ExporterTypeOK
  BY DEF ExporterInv
<1>. QED  BY <1>1, ExporterInvariant, PTL

(* Saved: wherever the script stops, by itself or by an exception, the last accepted solution
   of each problem that run() is done with is in its file, or one of a later problem with the
   same name and format.  No file has a rejected solution, or one that a later accepted
   solution replaced; and none is cut off but the one whose writing was the exception, which
   may have been an earlier problem's (ejudge_parser.py:89-171). *)
THEOREM SavedHolds == ExporterSpec => []Saved
<1>1. ASSUME ExporterInv PROVE Saved
  <2>1. ExporterTypeOK /\ FilesHold /\ PastSaved
    BY <1>1 DEF ExporterInv
  <2>2. \A path \in Paths :
           /\ files[path] \in Solutions \cup {0, CutOff}
           /\ files[path] = CutOff => outcome = "write" /\ path = Path(solution)
           /\ files[path] \in Solutions =>
                 site[files[path]].ok /\ IsLast(files[path]) /\ Path(files[path]) = path
    BY <2>1 DEF FilesHold, ExporterTypeOK
  <2>3. ASSUME problem_id = 0, NEW s \in Solutions, site[s].ok, IsLast(s),
               site[s].problem \in Past \ skipped
        PROVE  \/ files[Path(s)] \in Solutions
                  /\ site[files[Path(s)]].problem \in site[s].problem .. i
               \/ outcome = "write" /\ Path(s) = Path(solution) /\ files[Path(s)] = CutOff
    <3>1. Path(s) \in Paths
      BY <2>1, PathTyped
    <3>. QED  BY <2>1, <2>2, <2>3, <3>1 DEF PastSaved
  <2>. QED  BY <2>2, <2>3 DEF Saved, IsLast, Past
<1>. QED  BY <1>1, ExporterInvariant, PTL
=============================================================================
