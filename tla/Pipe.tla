-------------------------------- MODULE Pipe --------------------------------
(***************************************************************************)
(* A kernel pipe, as the programs of 14-dup-pipe use it (pipe(7)): a       *)
(* bounded byte queue, and the processes that hold each of its two ends.   *)
(* External to the repository.                                             *)
(***************************************************************************)
EXTENDS Naturals, Sequences

CONSTANTS Capacity,   \* how many bytes the pipe buffers
          PipeBuf     \* PIPE_BUF: a write of at most so many bytes is atomic

ASSUME PipeSizes == PipeBuf \in Nat \ {0} /\ Capacity \in Nat /\ PipeBuf <= Capacity

\* pipe() gives both ends to the process that calls it.
NewPipe(p) == [buf |-> << >>, readers |-> {p}, writers |-> {p}]

\* fork() duplicates the descriptors that the parent p has open.
Forked(pipe, p, child) ==
    LET share(ends) == IF p \in ends THEN ends \cup {child} ELSE ends
    IN  [pipe EXCEPT !.readers = share(@), !.writers = share(@)]

CloseRead(pipe, p) == [pipe EXCEPT !.readers = @ \ {p}]
CloseWrite(pipe, p) == [pipe EXCEPT !.writers = @ \ {p}]

\* exit() and a fatal signal close whatever the process has open.
CloseBoth(pipe, p) == CloseRead(CloseWrite(pipe, p), p)

\* write() of n bytes, of which `left' are still to be written: SIGPIPE when nobody
\* can read; otherwise it takes as many as it likes of those there is room for, but
\* all or nothing when n is at most PIPE_BUF, and blocks when it can take none.
IsBroken(pipe) == pipe.readers = {}
Room(pipe) == Capacity - Len(pipe.buf)
Portions(pipe, n, left) ==
    {k \in 1 .. left : k <= Room(pipe) /\ (n <= PipeBuf => k = left)}
Appended(pipe, bytes) == [pipe EXCEPT !.buf = @ \o bytes]

\* read(): what there is, up to n bytes; 0 when there is nothing and nobody can
\* write; otherwise it blocks.
Readable(pipe) == pipe.buf # << >>
IsEOF(pipe) == pipe.buf = << >> /\ pipe.writers = {}
Portion(pipe, n) == SubSeq(pipe.buf, 1, IF n < Len(pipe.buf) THEN n ELSE Len(pipe.buf))
Drained(pipe, n) == [pipe EXCEPT !.buf = SubSeq(@, Len(Portion(pipe, n)) + 1, Len(@))]
=============================================================================
