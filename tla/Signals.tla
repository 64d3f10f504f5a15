------------------------------- MODULE Signals -------------------------------
(***************************************************************************)
(* The programs of 16-signals: signals sent to a process that blocks,      *)
(* awaits and handles them.  `prog' says which program runs; the process   *)
(* that is described call by call is the one that gets the signals: the    *)
(* child of rt-signals.c, otherwise the one that runs main.  The other     *)
(* process, the alarm and a user who sends signals are beside it.          *)
(***************************************************************************)
EXTENDS Integers, Sequences

CONSTANTS Times,     \* how often rt-signals.c sends each signal: 10 in the code
          MaxSent    \* bound: how often the user sends a signal

ASSUME SignalBounds == Times \in Nat \ {0} /\ MaxSent \in Nat

Number == [INT |-> 2, USR1 |-> 10, ALRM |-> 14, TERM |-> 15, CHLD |-> 17, RTMIN |-> 34]
Signals == DOMAIN Number

-----------------------------------------------------------------------------
(* The programs.  "while" tests `done' and leaves for the line given. *)

CountSigint == << <<"sigaction", {"INT", "TERM"}>>, <<"while", 5>>, <<"pause">>, <<"goto", 2>>,
                  <<"return">> >>
FinishedChild == << <<"sigaction", {"CHLD"}>>, <<"fork">>, <<"pause">>, <<"return">> >>
SigAlarm == << <<"sigaction", {"ALRM"}>>, <<"alarm">>, <<"pause">>, <<"return">> >>
\* (Mutation: the signal is never unblocked.)
BlockedForEver == << <<"sigaction", {"INT"}>>, <<"block", {"INT"}>>, <<"sleep">>, <<"goto", 2>> >>
DelayedHandler == << <<"sigaction", {"INT"}>>, <<"block", {"INT"}>>, <<"sleep">>,
                     <<"unblock", {"INT"}>>, <<"goto", 2>> >>
SimpleExample == << <<"sigaction", {"INT"}>>, <<"while", 5>>, <<"sleep">>, <<"goto", 2>>,
                    <<"return">> >>
MaskBlockAll == << <<"block", Signals>>, <<"pause">>, <<"goto", 2>> >>
SigusrOverride == << <<"sigaction", {"USR1"}>>, <<"pause">>, <<"goto", 2>> >>
RtChild == << <<"suspend">>, <<"goto", 1>> >>

Text == [count_sigint |-> CountSigint, finished_child |-> FinishedChild, sig_alarm |-> SigAlarm,
         delayed |-> DelayedHandler, simple |-> SimpleExample, block_all |-> MaskBlockAll,
         sigusr |-> SigusrOverride, rt |-> RtChild]
Programs == DOMAIN Text

VARIABLES prog,
          pc,          \* the call that is next, or goes on
          inCall,      \* whether the process waits in it
          status,      \* "running", "exited" or "killed"
          handlers,    \* the signals that have a handler
          blocked,     \* the signal mask
          pending,     \* the ordinary signals to be delivered
          queued,      \* how many SIGRTMIN are
          frames,      \* the handlers that run, the last on top: the signal, the mask
                       \* to go back to, and what count-sigint.c's loaded of counter
          counter, done,
          other,       \* the other process: "absent", "running", "waiting" or "ended"
          sent, handled,    \* how often each signal was sent, how often its handler ran
          early,       \* whether a handler ran right before a pause(), and
          quiet        \* whether nothing was pending when rt-signals.c's parent sent
                       \* SIGINT: both are there for the properties only

vars == <<prog, pc, inCall, status, handlers, blocked, pending, queued, frames, counter,
          done, other, sent, handled, early, quiet>>
place == <<pc, inCall>>
process == <<status, handlers, frames, counter, done>>
history == <<handled, early>>
world == <<other, sent, quiet>>

NotLoaded == -1

TypeOK ==
    /\ prog \in Programs /\ pc \in DOMAIN Text[prog] /\ inCall \in BOOLEAN
    /\ status \in {"running", "exited", "killed"}
    /\ handlers \subseteq Signals /\ blocked \subseteq Signals
    /\ pending \subseteq Signals \ {"RTMIN"} /\ queued \in 0 .. Times
    /\ frames \in Seq(Signals \X (SUBSET Signals) \X (NotLoaded .. MaxSent))
    /\ counter \in 0 .. MaxSent /\ done \in {0, 1}
    /\ other \in {"absent", "running", "waiting", "ended"}
    /\ sent \in [Signals -> 0 .. Times + MaxSent] /\ sent.RTMIN <= Times
    /\ \A s \in Signals : handled[s] + (IF s \in pending THEN 1 ELSE 0) <= sent[s]
    /\ early \in BOOLEAN /\ quiet \in BOOLEAN

\* rt-signals.c blocks everything and installs the handlers before it forks.
Init ==
    /\ prog \in Programs /\ pc = 1 /\ inCall = FALSE /\ status = "running"
    /\ handlers = IF prog = "rt" THEN {"USR1", "INT", "RTMIN"} ELSE {}
    /\ blocked = IF prog = "rt" THEN Signals ELSE {}
    /\ pending = {} /\ queued = 0 /\ frames = << >>
    /\ counter = 0 /\ done = 0
    /\ other = IF prog = "rt" THEN "running" ELSE "absent"
    /\ sent = [s \in Signals |-> 0] /\ handled = [s \in Signals |-> 0]
    /\ early = FALSE /\ quiet = FALSE

-----------------------------------------------------------------------------
(* The calls of the process, outside of its handlers. *)

\* Of the signals that can be delivered, Linux takes the one with the least number.
Deliverable == (pending \cup (IF queued > 0 THEN {"RTMIN"} ELSE {})) \ blocked
Next1 == CHOOSE s \in Deliverable : \A r \in Deliverable : Number[s] <= Number[r]

Call == Text[prog][pc][1]
Arg == Text[prog][pc][2]
InMain == status = "running" /\ frames = << >>
Waits == {"pause", "sleep", "suspend"}

SetUp ==
    /\ InMain /\ Call \in {"sigaction", "block"}
    /\ handlers' = IF Call = "sigaction" THEN handlers \cup Arg ELSE handlers
    /\ blocked' = IF Call = "block" THEN blocked \cup Arg ELSE blocked
    /\ pc' = pc + 1
    /\ UNCHANGED <<prog, inCall, status, pending, queued, frames, counter, done, history, world>>

Jump ==
    /\ InMain /\ Call \in {"goto", "while"}
    /\ pc' = IF Call = "while" /\ done = 0 THEN pc + 1 ELSE Arg
    /\ UNCHANGED <<prog, inCall, process, blocked, pending, queued, history, world>>

\* fork() in finished-child-process.c, which can fail, and alarm().
Start ==
    /\ InMain /\ Call \in {"fork", "alarm"}
    /\ other' = "running"
    /\ pc' = pc + 1
    /\ UNCHANGED <<prog, inCall, process, blocked, pending, queued, history, sent, quiet>>

Return ==
    /\ InMain /\ Call \in {"return", "fork"}
    /\ status' = "exited"
    /\ UNCHANGED <<prog, place, handlers, blocked, pending, queued, frames, counter, done,
                   history, world>>

\* sigsuspend() waits with another mask, the empty one, and the handler that ends it
\* goes back to the one before.  Unblocking does not return before it has delivered.
Enter ==
    /\ InMain /\ Call \in Waits \cup {"unblock"} /\ ~inCall
    /\ inCall' = TRUE
    /\ blocked' = CASE Call = "suspend" -> {}
                    [] Call = "unblock" -> blocked \ Arg
                    [] OTHER -> blocked
    /\ UNCHANGED <<prog, pc, process, pending, queued, history, world>>

\* The time of a sleep() is over, or there is nothing to deliver.
Leave ==
    /\ InMain /\ inCall
    /\ Call = "sleep" \/ (Call = "unblock" /\ Deliverable = {})
    /\ inCall' = FALSE
    /\ pc' = pc + 1
    /\ UNCHANGED <<prog, process, blocked, pending, queued, history, world>>

Main == SetUp \/ Jump \/ Start \/ Return \/ Enter \/ Leave

-----------------------------------------------------------------------------
(* Signals are delivered. *)

\* What is blocked while the handler of s runs: sa_mask and s itself, but rt-signals.c
\* (l.30) has everything in sa_mask.  (Mutation: SA_NODEFER, and no sa_mask.)
NothingMore(s) == blocked
InHandler(s) == IF prog = "rt" THEN Signals ELSE blocked \cup {s}
MaskBefore == IF prog = "rt" THEN Signals ELSE blocked

Deliver ==
    /\ status = "running" /\ Deliverable # {} /\ Next1 \in handlers
    /\ pending' = pending \ {Next1}
    /\ queued' = IF Next1 = "RTMIN" THEN queued - 1 ELSE queued
    /\ frames' = Append(frames, <<Next1, MaskBefore, NotLoaded>>)
    /\ blocked' = InHandler(Next1)
    /\ handled' = [handled EXCEPT ![Next1] = @ + 1]
    /\ early' = (early \/ (Call = "pause" /\ ~inCall))
    /\ UNCHANGED <<prog, place, status, handlers, counter, done, world>>

\* Without a handler a signal kills.
Kill ==
    /\ status = "running" /\ Deliverable # {} /\ Next1 \notin handlers
    /\ status' = "killed"
    /\ pending' = pending \ {Next1}
    /\ UNCHANGED <<prog, place, handlers, blocked, queued, frames, counter, done, history, world>>

-----------------------------------------------------------------------------
(* The handlers. *)

Top == frames[Len(frames)]
Counts == prog = "count_sigint" /\ Top[1] = "INT"

\* counter++ is a load and a store.
Load ==
    /\ status = "running" /\ frames # << >> /\ Counts /\ Top[3] = NotLoaded
    /\ frames' = [frames EXCEPT ![Len(frames)][3] = counter]
    /\ UNCHANGED <<prog, place, status, handlers, blocked, pending, queued, counter, done,
                   history, world>>

\* The end of a handler, with the store, or exit(0) in rt-signals.c's handler of SIGINT;
\* the last handler ends the call in which the process waited.
EndHandler ==
    /\ status = "running" /\ frames # << >> /\ (Counts => Top[3] # NotLoaded)
    /\ counter' = IF Counts THEN Top[3] + 1 ELSE counter
    /\ done' = IF prog = "count_sigint" /\ Top[1] = "TERM" THEN 1 ELSE done
    /\ status' = IF prog = "rt" /\ Top[1] = "INT" THEN "exited" ELSE status
    /\ blocked' = Top[2]
    /\ frames' = SubSeq(frames, 1, Len(frames) - 1)
    /\ LET back == frames' = << >> /\ inCall /\ Call \in Waits
       IN  /\ inCall' = (inCall /\ ~back)
           /\ pc' = IF back THEN pc + 1 ELSE pc
    /\ UNCHANGED <<prog, handlers, pending, queued, history, world>>

Handler == Load \/ EndHandler

-----------------------------------------------------------------------------
(* Those who send signals. *)

\* Of an ordinary signal a bit is kept, a real-time signal is queued.
\* (Mutation: it is kept as a bit, too.)
OneAtMost == 1
OneMore == queued + 1

Post(s) ==
    /\ sent' = [sent EXCEPT ![s] = @ + 1]
    /\ IF status # "running" THEN UNCHANGED <<pending, queued>>
       ELSE IF s = "RTMIN" THEN queued' = OneMore /\ UNCHANGED pending
       ELSE pending' = pending \cup {s} /\ UNCHANGED queued
    /\ UNCHANGED <<prog, place, process, blocked, history>>

\* rt-signals.c's parent: SIGUSR1, SIGRTMIN, a pause of a second, which warrants nothing,
\* and SIGINT.  (Mutation: i <= 10 in the second loop.)
OneSignalMore ==
    IF sent.USR1 < Times THEN "USR1" ELSE IF sent.RTMIN <= Times THEN "RTMIN" ELSE "INT"
RtSignal == IF sent.USR1 < Times THEN "USR1" ELSE IF sent.RTMIN < Times THEN "RTMIN" ELSE "INT"

RtParent ==
    /\ prog = "rt" /\ other = "running"
    /\ Post(RtSignal)
    /\ other' = IF RtSignal = "INT" THEN "waiting" ELSE "running"
    /\ quiet' = (pending = {} /\ queued = 0)

RtWait ==
    /\ other = "waiting" /\ status # "running"
    /\ other' = "ended"
    /\ UNCHANGED <<prog, place, process, blocked, pending, queued, history, sent, quiet>>

\* The child of finished-child-process.c ends, or the alarm goes off.
OtherEnds ==
    /\ prog \in {"finished_child", "sig_alarm"} /\ other = "running"
    /\ Post(IF prog = "sig_alarm" THEN "ALRM" ELSE "CHLD")
    /\ other' = "ended"
    /\ UNCHANGED quiet

Other == RtParent \/ RtWait \/ OtherEnds

User ==
    /\ prog # "rt" /\ status = "running"
    /\ \E s \in {"INT", "TERM", "USR1"} : sent[s] < MaxSent /\ Post(s)
    /\ UNCHANGED <<other, quiet>>

Next == Main \/ Deliver \/ Kill \/ Handler \/ Other \/ User

\* The process and the one beside it go on, and signals are delivered; the user sends
\* what he likes.
Spec ==
    /\ Init /\ [][Next]_vars
    /\ WF_vars(Main) /\ WF_vars(Deliver \/ Kill) /\ WF_vars(Handler) /\ WF_vars(Other)

-----------------------------------------------------------------------------
(* What the programs promise. *)

\* count-sigint.c counts every SIGINT that is delivered, though counter++ is not atomic and
\* SIGTERM can interrupt it; SIGINTs that come together are one.
CountsDelivered ==
    prog = "count_sigint" /\ frames = << >> => counter = handled.INT /\ (done = 1 <=> handled.TERM > 0)

\* rt-signals.c: a real-time signal is handled as often as it was sent, an ordinary one at
\* least once and at most so often, and first, having the lesser number (README.md:102) -
\* provided nothing is pending any more when SIGINT is sent (l.45-47): it would come before.
AsOftenAsSent ==
    prog = "rt" =>
       /\ handled.RTMIN > 0 => handled.USR1 \in 1 .. Times
       /\ handled.RTMIN + queued = sent.RTMIN
       /\ status = "exited" /\ quiet => handled.RTMIN = Times /\ handled.USR1 > 0

\* Whoever waits for a signal goes on when it comes; but pause() misses one that is handled
\* between the test, the fork or the alarm and the pause (finished-child-process.c:30,
\* sig-alarm.c:19, count-sigint.c:33), and then waits for another.  SIGINT comes after the
\* sleep of delayed-signal-handler.c, and never to mask-block-all.c.
GoesOn ==
    /\ prog = "rt" => <>(status = "exited" /\ other = "ended")
    /\ prog \in {"finished_child", "sig_alarm"} => <>(status # "running" \/ early)
    /\ prog = "count_sigint" => (done = 1 ~> status # "running" \/ early)
    /\ prog = "delayed" => ("INT" \in pending ~> "INT" \notin pending \/ status = "killed")
    /\ prog = "block_all" => [](pc = 2 => [](status = "running"))
=============================================================================
