----------------------------- MODULE MessageLog -----------------------------
(***************************************************************************)
(* What 15-threads/mutex-example.c promises about its "server": it is a    *)
(* log to which every thread appends each of its `tries' messages in one   *)
(* indivisible step, and to which all the messages are appended in the end.*)
(* MutexServer, where a message is msg_len bytes stored one by one, is     *)
(* shown to implement this.                                                *)
(***************************************************************************)
EXTENDS Naturals, Sequences, FiniteSets

CONSTANTS Threads,   \* the threads that append
          Tries      \* how many messages each of them appends

VARIABLE log         \* the author of every message, oldest first

MessagesOf(t) == Cardinality({k \in DOMAIN log : log[k] = t})

Init == log = << >>

AppendMessage(t) ==
    /\ MessagesOf(t) < Tries
    /\ log' = Append(log, t)

Next == \E t \in Threads : AppendMessage(t)

Complete == \A t \in Threads : MessagesOf(t) = Tries

Spec == Init /\ [][Next]_log /\ WF_log(Next)
=============================================================================
