---------------------------- MODULE Signals_proofs ----------------------------
(***************************************************************************)
(* What is proved of the programs of 16-signals: that Signals stays within *)
(* its types, that count-sigint.c counts each SIGINT that is delivered     *)
(* whichever handler interrupts the other, and that the child of           *)
(* rt-signals.c handles what its parent sent it, for every Times and       *)
(* MaxSent.                                                                *)
(***************************************************************************)
EXTENDS Signals, SequenceTheorems, TLAPS

Frames == Signals \X (SUBSET Signals) \X Int

Types ==
    /\ prog \in Programs /\ pc \in DOMAIN Text[prog] /\ inCall \in BOOLEAN
    /\ status \in {"running", "exited", "killed"}
    /\ handlers \in SUBSET Signals /\ blocked \in SUBSET Signals
    /\ pending \in SUBSET (Signals \ {"RTMIN"}) /\ queued \in Nat
    /\ frames \in Seq(Frames)
    /\ counter \in Int /\ done \in {0, 1}
    /\ other \in {"absent", "running", "waiting", "ended"}
    /\ sent \in [Signals -> Nat] /\ handled \in [Signals -> Nat]
    /\ early \in BOOLEAN /\ quiet \in BOOLEAN

(* No signal is handled that was not sent: one that is pending is not yet handled. *)
Owed ==
    /\ \A s \in Signals : handled[s] <= sent[s] /\ (s \in pending => handled[s] < sent[s])
    /\ handled["RTMIN"] + queued <= sent["RTMIN"]

(* What can be sent: the user's signals, and the one of a process beside it, which comes
   once. *)
Beside == prog \in {"finished_child", "sig_alarm"}

Limits ==
    prog # "rt" =>
       /\ \A s \in {"INT", "TERM", "USR1"} : sent[s] <= MaxSent
       /\ sent["RTMIN"] = 0
       /\ sent["ALRM"] <= 1 /\ sent["CHLD"] <= 1
       /\ other # "ended" => sent["ALRM"] = 0 /\ sent["CHLD"] = 0
       /\ other # "waiting"
       /\ Beside => (other = "absent" <=> pc <= 2)
       /\ ~Beside => other = "absent"

(* Only count-sigint.c writes to counter, and loads it. *)
Unused ==
    prog # "count_sigint" =>
       counter = 0 /\ \A k \in 1 .. Len(frames) : frames[k][3] = NotLoaded

(* count-sigint.c: the handlers that run are those of different signals, which are
   blocked, and each has for its mask those of the handlers below it. *)
Runs(s) == \E k \in 1 .. Len(frames) : frames[k][1] = s

Nested ==
    /\ handlers \in SUBSET {"INT", "TERM"}
    /\ \A k \in 1 .. Len(frames) : frames[k][1] \in {"INT", "TERM"}
    /\ \A j, k \in 1 .. Len(frames) : j < k => frames[j][1] # frames[k][1]
    /\ \A s \in Signals : s \in blocked <=> Runs(s)
    /\ \A k \in 1 .. Len(frames), s \in Signals :
          s \in frames[k][2] <=> \E j \in 1 .. k - 1 : frames[j][1] = s

(* So nobody else adds to counter between the load and the store of a handler. *)
Counted ==
    /\ \A k \in 1 .. Len(frames) :
          frames[k][3] # NotLoaded => frames[k][1] = "INT" /\ frames[k][3] = counter
    /\ counter = handled["INT"] - (IF Runs("INT") THEN 1 ELSE 0)
    /\ done = 1 <=> handled["TERM"] > (IF Runs("TERM") THEN 1 ELSE 0)
    /\ \A s \in Signals : Runs(s) => handled[s] > 0

CountInv == prog = "count_sigint" => Nested /\ Counted

(* rt-signals.c: how far the parent is. *)
Parent ==
    /\ sent["USR1"] <= Times /\ sent["RTMIN"] <= Times /\ sent["INT"] <= 1
    /\ sent["TERM"] = 0 /\ sent["ALRM"] = 0 /\ sent["CHLD"] = 0
    /\ sent["RTMIN"] > 0 => sent["USR1"] = Times
    /\ other \in {"running", "waiting", "ended"}
    /\ other = "running" => sent["INT"] = 0
    /\ other # "running" => sent["USR1"] = Times /\ sent["RTMIN"] = Times

(* The child has all signals blocked but while it waits, so that one handler runs at a
   time, and it ends only by that of SIGINT. *)
Child ==
    /\ handlers = {"USR1", "INT", "RTMIN"}
    /\ blocked = Signals \/ (blocked = {} /\ frames = << >>)
    /\ Len(frames) <= 1
    /\ \A k \in 1 .. Len(frames) : frames[k][2] = Signals /\ handled[frames[k][1]] > 0
    /\ status = "running" \/ other # "running"

(* No SIGRTMIN is lost, and of the SIGUSR1s the last is not. *)
Kept ==
    /\ handled["RTMIN"] + queued = sent["RTMIN"]
    /\ sent["USR1"] > 0 => "USR1" \in pending \/ handled["USR1"] > 0
    /\ handled["RTMIN"] > 0 => handled["USR1"] > 0
    /\ other # "running" /\ quiet => handled["RTMIN"] = Times /\ handled["USR1"] > 0

RtInv == prog = "rt" => Parent /\ Child /\ Kept

IInv == Types /\ Owed /\ Limits /\ Unused /\ CountInv /\ RtInv

-----------------------------------------------------------------------------
(* The programs and the signals *)

(* The names that the records of the model have. *)
LEMMA Names ==
    /\ Signals = {"INT", "USR1", "ALRM", "TERM", "CHLD", "RTMIN"}
    /\ Programs = {"count_sigint", "finished_child", "sig_alarm", "delayed", "simple",
                   "block_all", "sigusr", "rt"}
BY DEF Signals, Programs, Number, Text

(* What the proofs use of a line of a program: it has a next one if it is not the last,
   it jumps to one, and only some programs have some of the calls. *)
CallsHere ==
    /\ Call \in {"sigaction", "block", "fork", "alarm", "while", "unblock"} \cup Waits
       => pc + 1 \in DOMAIN Text[prog]
    /\ Call \in {"goto", "while"} => Arg \in DOMAIN Text[prog] /\ ~Beside
    /\ Call \in {"sigaction", "block", "unblock"} => Arg \in SUBSET Signals
    /\ Call \in {"fork", "alarm"} => Beside
    /\ Beside /\ pc = 2 => Call \in {"fork", "alarm"}
    /\ Call \in {"fork", "alarm"} => pc = 2
    /\ prog = "rt" => Call \in {"suspend", "goto"}
    /\ prog = "count_sigint" => /\ Call \in {"sigaction", "while", "pause", "goto", "return"}
                                /\ Call = "sigaction" => Arg = {"INT", "TERM"}

(* This is so in each line of each program. *)
LEMMA Lines == ASSUME prog \in Programs, pc \in DOMAIN Text[prog] PROVE pc \in Int /\ CallsHere
<1>1. CASE prog = "count_sigint"
  <2>1. Text[prog] = CountSigint /\ pc \in 1 .. 5
    BY <1>1 DEF Text, CountSigint
  <2>. QED  BY <1>1, <2>1, Names DEF CallsHere, Call, Arg, Waits, Beside, CountSigint
<1>2. CASE prog = "finished_child"
  <2>1. Text[prog] = FinishedChild /\ pc \in 1 .. 4
    BY <1>2 DEF Text, FinishedChild
  <2>. QED  BY <1>2, <2>1, Names DEF CallsHere, Call, Arg, Waits, Beside, FinishedChild
<1>3. CASE prog = "sig_alarm"
  <2>1. Text[prog] = SigAlarm /\ pc \in 1 .. 4
    BY <1>3 DEF Text, SigAlarm
  <2>. QED  BY <1>3, <2>1, Names DEF CallsHere, Call, Arg, Waits, Beside, SigAlarm
<1>4. CASE prog = "delayed"
  <2>1. Text[prog] = DelayedHandler /\ pc \in 1 .. 5
    BY <1>4 DEF Text, DelayedHandler
  <2>. QED  BY <1>4, <2>1, Names DEF CallsHere, Call, Arg, Waits, Beside, DelayedHandler
<1>5. CASE prog = "simple"
  <2>1. Text[prog] = SimpleExample /\ pc \in 1 .. 5
    BY <1>5 DEF Text, SimpleExample
  <2>. QED  BY <1>5, <2>1, Names DEF CallsHere, Call, Arg, Waits, Beside, SimpleExample
<1>6. CASE prog = "block_all"
  <2>1. Text[prog] = MaskBlockAll /\ pc \in 1 .. 3
    BY <1>6 DEF Text, MaskBlockAll
  <2>. QED  BY <1>6, <2>1, Names DEF CallsHere, Call, Arg, Waits, Beside, MaskBlockAll
<1>7. CASE prog = "sigusr"
  <2>1. Text[prog] = SigusrOverride /\ pc \in 1 .. 3
    BY <1>7 DEF Text, SigusrOverride
  <2>. QED  BY <1>7, <2>1, Names DEF CallsHere, Call, Arg, Waits, Beside, SigusrOverride
<1>8. CASE prog = "rt"
  <2>1. Text[prog] = RtChild /\ pc \in 1 .. 2
    BY <1>8 DEF Text, RtChild
  <2>. QED  BY <1>8, <2>1, Names DEF CallsHere, Call, Arg, Waits, Beside, RtChild
<1>. QED  BY <1>1, <1>2, <1>3, <1>4, <1>5, <1>6, <1>7, <1>8, Names

(* Linux takes a signal that is there, and no other of these has a lesser number. *)
LEMMA TakesLeast ==
    ASSUME Types, Deliverable # {}
    PROVE  /\ Next1 \in Signals /\ Next1 \notin blocked
           /\ IF Next1 = "RTMIN" THEN queued > 0 ELSE Next1 \in pending
           /\ Next1 = "RTMIN" => "USR1" \notin pending \/ "USR1" \in blocked
<1>1. /\ Deliverable \in SUBSET Signals
      /\ \A s \in Deliverable : /\ s \notin blocked
                                /\ IF s = "RTMIN" THEN queued > 0 ELSE s \in pending
      /\ "USR1" \in pending /\ "USR1" \notin blocked => "USR1" \in Deliverable
  BY Names DEF Deliverable, Types
<1>2. /\ Number["INT"] = 2 /\ Number["USR1"] = 10 /\ Number["ALRM"] = 14
      /\ Number["TERM"] = 15 /\ Number["CHLD"] = 17 /\ Number["RTMIN"] = 34
  BY DEF Number
<1>. DEFINE least(s) == \A r \in Deliverable : Number[s] <= Number[r]
<1>3. \E s \in Deliverable : least(s)
  <2>1. \A s, r \in Signals : Number[s] <= Number[r] \/ Number[r] <= Number[s]
    BY Names, <1>2
  <2>2. CASE "INT" \in Deliverable
    <3>1. least("INT")
      BY <1>1, <1>2, Names
    <3>. QED  BY <2>2, <3>1
  <2>3. CASE "INT" \notin Deliverable /\ "USR1" \in Deliverable
    <3>1. least("USR1")
      BY <1>1, <1>2, Names, <2>3
    <3>. QED  BY <2>3, <3>1
  <2>4. CASE {"INT", "USR1"} \cap Deliverable = {} /\ "ALRM" \in Deliverable
    <3>1. least("ALRM")
      BY <1>1, <1>2, Names, <2>4
    <3>. QED  BY <2>4, <3>1
  <2>5. CASE {"INT", "USR1", "ALRM"} \cap Deliverable = {} /\ "TERM" \in Deliverable
    <3>1. least("TERM")
      BY <1>1, <1>2, Names, <2>5
    <3>. QED  BY <2>5, <3>1
  <2>6. CASE {"INT", "USR1", "ALRM", "TERM"} \cap Deliverable = {} /\ "CHLD" \in Deliverable
    <3>1. least("CHLD")
      BY <1>1, <1>2, Names, <2>6
    <3>. QED  BY <2>6, <3>1
  <2>7. CASE {"INT", "USR1", "ALRM", "TERM", "CHLD"} \cap Deliverable = {}
    <3>1. PICK r \in Deliverable : TRUE
      OBVIOUS
    <3>2. r = "RTMIN"
      BY <1>1, <2>7, <3>1, Names
    <3>3. least("RTMIN")
      BY <1>1, <1>2, Names, <2>7
    <3>. QED  BY <3>1, <3>2, <3>3
  <2>. QED  BY <2>2, <2>3, <2>4, <2>5, <2>6, <2>7
<1>4. Next1 \in Deliverable /\ least(Next1)
  <2>. HIDE DEF least
  <2>1. Next1 = CHOOSE s \in Deliverable : least(s)
    BY DEF Next1, least
  <2>. QED  BY <1>3, <2>1
<1>. QED  BY <1>1, <1>2, <1>4

-----------------------------------------------------------------------------
(* The beginning *)

(* The invariant holds in the initial states. *)
LEMMA InitInv == Init => IInv
<1>. SUFFICES ASSUME Init PROVE IInv
  OBVIOUS
<1>1. pc \in DOMAIN Text[prog]
  <2>1. 1 \in DOMAIN Text[prog]
    BY Names DEF Init, Text, CountSigint, FinishedChild, SigAlarm, DelayedHandler, SimpleExample,
                 MaskBlockAll, SigusrOverride, RtChild
  <2>. QED  BY <2>1 DEF Init
<1>2. Types
  <2>1. {} \in SUBSET Signals /\ {"USR1", "INT", "RTMIN"} \in SUBSET Signals
    BY Names
  <2>2. frames \in Seq(Frames) /\ sent \in [Signals -> Nat] /\ handled \in [Signals -> Nat]
    BY DEF Init
  <2>3. handlers \in SUBSET Signals /\ blocked \in SUBSET Signals
    BY <2>1 DEF Init
  <2>4. /\ prog \in Programs /\ status \in {"running", "exited", "killed"}
        /\ pending \in SUBSET (Signals \ {"RTMIN"}) /\ queued \in Nat
        /\ counter \in Int /\ done \in {0, 1}
    BY DEF Init
  <2>5. other \in {"absent", "running", "waiting", "ended"}
    BY DEF Init
  <2>6. inCall \in BOOLEAN /\ early \in BOOLEAN /\ quiet \in BOOLEAN
    BY DEF Init
  <2>. QED  BY <1>1, <2>2, <2>3, <2>4, <2>5, <2>6 DEF Types
<1>3. Owed /\ Limits /\ Unused
  BY SignalBounds, Names DEF Init, Owed, Limits, Beside, Unused
<1>4. CountInv
  BY SignalBounds, Names DEF Init, CountInv, Nested, Counted, Runs
<1>5. RtInv
  BY SignalBounds, Names DEF Init, RtInv, Parent, Child, Kept
<1>. QED  BY <1>2, <1>3, <1>4, <1>5 DEF IInv

-----------------------------------------------------------------------------
(* What leaves a part of the invariant as it is. *)

(* Nothing is sent or handled. *)
LEMMA SameOwed == ASSUME Owed, UNCHANGED <<pending, queued, sent, handled>> PROVE Owed'
BY DEF Owed

(* Nothing is loaded or counted. *)
LEMMA SameUnused == ASSUME Unused, UNCHANGED <<prog, frames, counter>> PROVE Unused'
BY DEF Unused

(* It is another program than count-sigint.c, or nothing is handled. *)
LEMMA SameCount ==
    ASSUME CountInv, UNCHANGED prog,
           prog = "count_sigint" => UNCHANGED <<handlers, blocked, frames, counter, done, handled>>
    PROVE  CountInv'
BY DEF CountInv, Nested, Counted, Runs

(* It is another program than rt-signals.c, or nothing is sent or handled. *)
LEMMA SameRt ==
    ASSUME RtInv, UNCHANGED prog,
           prog = "rt" => UNCHANGED <<handlers, blocked, pending, queued, frames, status, other,
                                      sent, handled, quiet>>
    PROVE  RtInv'
BY DEF RtInv, Parent, Child, Kept

(* Nothing is sent, and the process beside it is not started. *)
LEMMA SameLimits ==
    ASSUME Limits, UNCHANGED <<prog, other, sent>>, Beside => (pc' <= 2 <=> pc <= 2)
    PROVE  Limits'
BY DEF Limits, Beside

-----------------------------------------------------------------------------
(* The calls of main *)

(* sigaction() and sigprocmask(). *)
LEMMA SetUpStep == ASSUME IInv, SetUp PROVE IInv'
<1>1. Types /\ Owed /\ Limits /\ Unused /\ CountInv /\ RtInv /\ pc \in Int /\ CallsHere
  BY Lines DEF IInv, Types
<1>2. /\ Call \in {"sigaction", "block"} /\ pc' = pc + 1 
      /\ handlers' = (IF Call = "sigaction" THEN handlers \cup Arg ELSE handlers)
      /\ blocked' = (IF Call = "block" THEN blocked \cup Arg ELSE blocked)
      /\ UNCHANGED <<prog, inCall, status, pending, queued, frames, counter, done, other, sent,
                     handled, early, quiet>>
  BY DEF SetUp, history, world
<1>3. Types'
  <2>1. pc' \in DOMAIN Text[prog] /\ Arg \in SUBSET Signals
    BY <1>1, <1>2 DEF CallsHere
  <2>2. handlers' \in SUBSET Signals /\ blocked' \in SUBSET Signals
    BY <1>1, <1>2, <2>1 DEF Types
  <2>. QED  BY <1>1, <1>2, <2>1, <2>2 DEF Types
<1>4. Owed' /\ Unused'
  BY <1>1, <1>2, SameOwed, SameUnused
<1>5. Limits'
  <2>1. Beside => pc # 2
    BY <1>1, <1>2 DEF CallsHere
  <2>. QED  BY <1>1, <1>2, <2>1, SameLimits
<1>6. CountInv'
  <2>1. CASE prog = "count_sigint"
    <3>1. blocked' = blocked /\ handlers' \in SUBSET {"INT", "TERM"}
      BY <1>1, <1>2, <2>1 DEF CallsHere, CountInv, Nested
    <3>. QED  BY <1>1, <1>2, <2>1, <3>1 DEF CountInv, Nested, Counted, Runs
  <2>2. CASE prog # "count_sigint"
    BY <1>1, <1>2, <2>2, SameCount
  <2>. QED  BY <2>1, <2>2
<1>7. RtInv'
  <2>1. prog # "rt"
    BY <1>1, <1>2 DEF CallsHere
  <2>. QED  BY <1>1, <1>2, <2>1, SameRt
<1>. QED  BY <1>3, <1>4, <1>5, <1>6, <1>7 DEF IInv

(* The loops. *)
LEMMA JumpStep == ASSUME IInv, Jump PROVE IInv'
<1>1. Types /\ Owed /\ Limits /\ Unused /\ CountInv /\ RtInv /\ pc \in Int /\ CallsHere
  BY Lines DEF IInv, Types
<1>2. /\ Call \in {"goto", "while"}
      /\ pc' = (IF Call = "while" /\ done = 0 THEN pc + 1 ELSE Arg)
      /\ UNCHANGED <<prog, inCall, status, handlers, frames, counter, done, blocked, pending,
                     queued, other, sent, handled, early, quiet>>
  BY DEF Jump, process, history, world
<1>3. Types'
  <2>1. pc' \in DOMAIN Text[prog]
    BY <1>1, <1>2 DEF CallsHere
  <2>. QED  BY <1>1, <1>2, <2>1 DEF Types
<1>4. Limits'
  <2>1. ~Beside
    BY <1>1, <1>2 DEF CallsHere
  <2>. QED  BY <1>1, <1>2, <2>1, SameLimits
<1>. QED  BY <1>1, <1>2, <1>3, <1>4, SameOwed, SameUnused, SameCount, SameRt DEF IInv

(* fork() and alarm(), which no program calls twice. *)
LEMMA StartStep == ASSUME IInv, Start PROVE IInv'
<1>1. Types /\ Owed /\ Limits /\ Unused /\ CountInv /\ RtInv /\ pc \in Int /\ CallsHere
  BY Lines DEF IInv, Types
<1>2. /\ Call \in {"fork", "alarm"} /\ pc' = pc + 1 /\ other' = "running"
      /\ UNCHANGED <<prog, inCall, status, handlers, frames, counter, done, blocked, pending,
                     queued, sent, handled, early, quiet>>
  BY DEF Start, process, history
<1>3. Beside /\ pc = 2 /\ prog # "rt"
  BY <1>1, <1>2 DEF CallsHere, Beside
<1>4. Types'
  <2>1. pc' \in DOMAIN Text[prog]
    BY <1>1, <1>2 DEF CallsHere
  <2>. QED  BY <1>1, <1>2, <2>1 DEF Types
<1>5. Limits'
  <2>1. other = "absent"
    BY <1>1, <1>3 DEF Limits
  <2>. QED  BY <1>1, <1>2, <1>3, <2>1 DEF Limits, Beside
<1>6. RtInv'
  BY <1>1, <1>2, <1>3, SameRt
<1>. QED  BY <1>1, <1>2, <1>4, <1>5, <1>6, SameOwed, SameUnused, SameCount DEF IInv

(* The end of main, which the child of rt-signals.c never comes to. *)
LEMMA ReturnStep == ASSUME IInv, Return PROVE IInv'
<1>1. Types /\ Owed /\ Limits /\ Unused /\ CountInv /\ RtInv /\ pc \in Int /\ CallsHere
  BY Lines DEF IInv, Types
<1>2. /\ Call \in {"return", "fork"} /\ status' = "exited"
      /\ UNCHANGED <<prog, pc, inCall, handlers, frames, counter, done, blocked, pending,
                     queued, other, sent, handled, early, quiet>>
  BY DEF Return, place, history, world
<1>3. prog # "rt"
  BY <1>1, <1>2 DEF CallsHere
<1>4. Types'
  BY <1>1, <1>2 DEF Types
<1>5. Limits'
  BY <1>1, <1>2, SameLimits
<1>6. RtInv'
  BY <1>1, <1>2, <1>3, SameRt
<1>. QED  BY <1>1, <1>2, <1>4, <1>5, <1>6, SameOwed, SameUnused, SameCount DEF IInv

(* A call that waits; sigsuspend() lets all signals in. *)
LEMMA EnterStep == ASSUME IInv, Enter PROVE IInv'
<1>1. Types /\ Owed /\ Limits /\ Unused /\ CountInv /\ RtInv /\ pc \in Int /\ CallsHere
  BY Lines DEF IInv, Types
<1>2. /\ Call \in Waits \cup {"unblock"} /\ inCall' = TRUE /\ frames = << >>
      /\ blocked' = CASE Call = "suspend" -> {}
                      [] Call = "unblock" -> blocked \ Arg
                      [] OTHER -> blocked
      /\ UNCHANGED <<prog, pc, status, handlers, frames, counter, done, pending,
                     queued, other, sent, handled, early, quiet>>
  BY DEF Enter, InMain, process, history, world
<1>3. /\ Call = "suspend" => blocked' = {}
      /\ Call = "unblock" => blocked' = blocked \ Arg
      /\ Call \notin {"suspend", "unblock"} => blocked' = blocked
  BY <1>2
<1>4. Types'
  <2>1. blocked' \in SUBSET Signals
    BY <1>1, <1>3 DEF Types
  <2>2. inCall' \in BOOLEAN
    BY <1>2
  <2>. QED  BY <1>1, <1>2, <2>1, <2>2 DEF Types
<1>5. Limits'
  BY <1>1, <1>2, SameLimits
<1>6. CountInv'
  <2>1. prog = "count_sigint" => blocked' = blocked
    BY <1>1, <1>3 DEF CallsHere
  <2>. QED  BY <1>1, <1>2, <2>1, SameCount
<1>7. RtInv'
  <2>1. prog = "rt" => blocked' = {}
    BY <1>1, <1>2, <1>3 DEF CallsHere, Waits
  <2>. QED  BY <1>1, <1>2, <2>1 DEF RtInv, Parent, Child, Kept
<1>. QED  BY <1>1, <1>2, <1>4, <1>5, <1>6, <1>7, SameOwed, SameUnused DEF IInv

(* A call that has waited. *)
LEMMA LeaveStep == ASSUME IInv, Leave PROVE IInv'
<1>1. Types /\ Owed /\ Limits /\ Unused /\ CountInv /\ RtInv /\ pc \in Int /\ CallsHere
  BY Lines DEF IInv, Types
<1>2. /\ Call \in {"sleep", "unblock"} /\ inCall' = FALSE /\ pc' = pc + 1
      /\ UNCHANGED <<prog, status, handlers, frames, counter, done, blocked, pending,
                     queued, other, sent, handled, early, quiet>>
  BY DEF Leave, process, history, world
<1>3. Types'
  <2>1. pc' \in DOMAIN Text[prog]
    BY <1>1, <1>2 DEF CallsHere, Waits
  <2>2. inCall' \in BOOLEAN
    BY <1>2
  <2>. QED  BY <1>1, <1>2, <2>1, <2>2 DEF Types
<1>4. Limits'
  <2>1. Beside => pc # 2
    BY <1>1, <1>2 DEF CallsHere
  <2>. QED  BY <1>1, <1>2, <2>1, SameLimits
<1>. QED  BY <1>1, <1>2, <1>3, <1>4, SameOwed, SameUnused, SameCount, SameRt DEF IInv

-----------------------------------------------------------------------------
(* Delivery and the handlers *)

(* A handler starts: of a signal that is not blocked, which is thus none that runs. *)
LEMMA DeliverStep == ASSUME IInv, Deliver PROVE IInv'
<1>1. Types /\ Owed /\ Limits /\ Unused /\ CountInv /\ RtInv /\ pc \in Int /\ CallsHere
  BY Lines DEF IInv, Types
<1>. DEFINE s == Next1
            mask == MaskBefore
            n == Len(frames)
<1>2. /\ Next1 \in Signals /\ Next1 \notin blocked /\ Next1 \in handlers
      /\ IF Next1 = "RTMIN" THEN queued > 0 ELSE Next1 \in pending
      /\ Next1 = "RTMIN" => "USR1" \notin pending \/ "USR1" \in blocked
      /\ status = "running"
  BY <1>1, TakesLeast DEF Deliver
<1>3. /\ pending' = pending \ {s}
      /\ queued' = (IF s = "RTMIN" THEN queued - 1 ELSE queued)
      /\ frames' = Append(frames, <<s, mask, NotLoaded>>)
      /\ blocked' = (IF prog = "rt" THEN Signals ELSE blocked \cup {s})
      /\ mask = (IF prog = "rt" THEN Signals ELSE blocked)
      /\ handled' = [handled EXCEPT ![s] = @ + 1]
      /\ UNCHANGED <<prog, pc, inCall, status, handlers, counter, done, other, sent, quiet>>
      /\ early' \in BOOLEAN
  BY DEF Deliver, InHandler, MaskBefore, place, world
<1>4. s \in Signals /\ s \notin blocked /\ s \in handlers
  BY <1>2
<1>5. s = "RTMIN" => queued > 0 /\ ("USR1" \notin pending \/ "USR1" \in blocked)
  BY <1>2
<1>6. s # "RTMIN" => s \in pending
  BY <1>2
<1>. HIDE DEF s, mask
<1>7. /\ frames' \in Seq(Frames) /\ n \in Nat /\ Len(frames') = n + 1
      /\ \A k \in 1 .. n : frames'[k] = frames[k]
      /\ frames'[n + 1] = <<s, mask, NotLoaded>>
      /\ \A k \in 1 .. n + 1 : k \in 1 .. n \/ k = n + 1
  <2>1. <<s, mask, NotLoaded>> \in Frames
    BY <1>1, <1>3, <1>4 DEF Types, Frames, NotLoaded
  <2>. QED  BY <1>1, <1>3, <2>1 DEF Types
<1>8. /\ handled' \in [Signals -> Nat] /\ handled'[s] = handled[s] + 1
      /\ \A r \in Signals : r # s => handled'[r] = handled[r]
      /\ \A r \in Signals : handled[r] \in Nat /\ sent[r] \in Nat /\ handled'[r] >= handled[r]
  BY <1>1, <1>3, <1>4 DEF Types
<1>9. queued \in Nat /\ queued' \in Nat
  BY <1>1, <1>3, <1>5 DEF Types
<1>10. Types'
  <2>1. pending' \in SUBSET (Signals \ {"RTMIN"}) /\ blocked' \in SUBSET Signals
    BY <1>1, <1>3, <1>4 DEF Types
  <2>. QED  BY <1>1, <1>3, <1>7, <1>8, <1>9, <2>1 DEF Types
<1>11. Owed'
  <2>1. "RTMIN" \in Signals /\ "RTMIN" \notin pending
    BY <1>1, Names DEF Types
  <2>2. ASSUME NEW r \in Signals
        PROVE  handled'[r] <= sent[r] /\ (r \in pending' => handled'[r] < sent[r])
    <3>1. CASE r # s
      BY <1>1, <1>3, <1>8, <3>1 DEF Owed
    <3>2. CASE r = s /\ s # "RTMIN"
      BY <1>1, <1>3, <1>6, <1>8, <3>2 DEF Owed
    <3>3. CASE r = s /\ s = "RTMIN"
      BY <1>1, <1>3, <1>5, <1>8, <1>9, <2>1, <3>3 DEF Owed
    <3>. QED  BY <3>1, <3>2, <3>3
  <2>3. handled'["RTMIN"] + queued' <= sent["RTMIN"]
    BY <1>1, <1>3, <1>5, <1>8, <1>9, <2>1 DEF Owed
  <2>. QED  BY <1>3, <2>2, <2>3 DEF Owed
<1>12. Limits'
  BY <1>1, <1>3, SameLimits
<1>13. Unused'
  <2>1. <<s, mask, NotLoaded>>[3] = NotLoaded
    OBVIOUS
  <2>. QED  BY <1>1, <1>3, <1>7, <2>1 DEF Unused
<1>14. CountInv'
  <2>. SUFFICES ASSUME prog = "count_sigint" PROVE Nested' /\ Counted'
    BY <1>3 DEF CountInv
  <2>1. /\ frames'[n + 1][1] = s /\ frames'[n + 1][2] = blocked /\ frames'[n + 1][3] = NotLoaded
        /\ blocked' = blocked \cup {s}
    BY <1>3, <1>7
  <2>2. Nested /\ Counted
    BY <1>1 DEF CountInv
  <2>3. \A r \in Signals : Runs(r)' <=> Runs(r) \/ r = s
    BY <1>7, <2>1 DEF Runs
  <2>4. ~Runs(s) /\ s \in {"INT", "TERM"} /\ {"INT", "TERM"} \subseteq Signals
    BY <1>4, <2>2, Names DEF Nested
  <2>5. Nested'
    <3>1. handlers' \in SUBSET {"INT", "TERM"}
      BY <1>3, <2>2 DEF Nested
    <3>2. \A k \in 1 .. Len(frames') : frames'[k][1] \in {"INT", "TERM"}
      BY <1>7, <2>1, <2>2, <2>4 DEF Nested
    <3>3. \A j, k \in 1 .. Len(frames') : j < k => frames'[j][1] # frames'[k][1]
      <4>. SUFFICES ASSUME NEW j \in 1 .. n + 1, NEW k \in 1 .. n + 1, j < k
                    PROVE  frames'[j][1] # frames'[k][1]
        BY <1>7
      <4>1. j \in 1 .. n /\ frames'[j][1] = frames[j][1]
        BY <1>7
      <4>2. CASE k \in 1 .. n
        BY <1>7, <2>2, <4>1, <4>2 DEF Nested
      <4>3. CASE k = n + 1
        BY <1>7, <2>1, <2>4, <4>1, <4>3 DEF Runs
      <4>. QED  BY <1>7, <4>2, <4>3
    <3>4. \A r \in Signals : r \in blocked' <=> Runs(r)'
      BY <2>1, <2>2, <2>3 DEF Nested
    <3>5. ASSUME NEW k \in 1 .. Len(frames'), NEW r \in Signals
          PROVE  r \in frames'[k][2] <=> \E j \in 1 .. k - 1 : frames'[j][1] = r
      <4>1. CASE k \in 1 .. n
        <5>1. \A j \in 1 .. k - 1 : frames'[j] = frames[j]
          BY <1>7, <4>1
        <5>. QED  BY <1>7, <2>2, <4>1, <5>1 DEF Nested
      <4>2. CASE k = n + 1
        <5>1. k - 1 = n
          BY <1>7, <4>2
        <5>. QED  BY <1>7, <2>1, <2>2, <4>2, <5>1 DEF Nested, Runs
      <4>. QED  BY <1>7, <4>1, <4>2
    <3>. QED  BY <3>1, <3>2, <3>3, <3>4, <3>5 DEF Nested
  <2>6. Counted'
    <3>1. \A k \in 1 .. Len(frames') :
             frames'[k][3] # NotLoaded => frames'[k][1] = "INT" /\ frames'[k][3] = counter
      BY <1>7, <2>1, <2>2 DEF Counted
    <3>2. counter = handled'["INT"] - (IF Runs("INT")' THEN 1 ELSE 0)
      BY <1>1, <1>8, <2>2, <2>3, <2>4 DEF Counted, Types
    <3>3. done = 1 <=> handled'["TERM"] > (IF Runs("TERM")' THEN 1 ELSE 0)
      BY <1>1, <1>8, <2>2, <2>3, <2>4 DEF Counted, Types
    <3>4. \A r \in Signals : Runs(r)' => handled'[r] > 0
      BY <1>8, <2>2, <2>3 DEF Counted
    <3>. QED  BY <1>3, <3>1, <3>2, <3>3, <3>4 DEF Counted
  <2>. QED  BY <2>5, <2>6
<1>15. RtInv'
  <2>. SUFFICES ASSUME prog = "rt" PROVE Parent' /\ Child' /\ Kept'
    BY <1>3 DEF RtInv
  <2>1. Parent /\ Child /\ Kept
    BY <1>1 DEF RtInv
  <2>2. blocked = {} /\ frames = << >> /\ n = 0
    BY <1>4, <2>1 DEF Child
  <2>3. s \in {"USR1", "INT", "RTMIN"} /\ {"USR1", "RTMIN"} \subseteq Signals
    BY <1>4, <2>1, Names DEF Child
  <2>4. Parent'
    BY <1>3, <2>1 DEF Parent
  <2>5. Child'
    <3>1. frames'[1][1] = s /\ frames'[1][2] = Signals /\ Len(frames') = 1
      BY <1>3, <1>7, <2>2
    <3>2. handled'[s] > 0
      BY <1>4, <1>8
    <3>. QED  BY <1>3, <2>1, <3>1, <3>2 DEF Child
  <2>6. Kept'
    <3>1. handled'["RTMIN"] + queued' = sent["RTMIN"]
      BY <1>3, <1>5, <1>8, <1>9, <2>1, <2>3 DEF Kept
    <3>2. sent["USR1"] > 0 => "USR1" \in pending' \/ handled'["USR1"] > 0
      BY <1>3, <1>8, <2>1, <2>3 DEF Kept
    <3>3. handled'["RTMIN"] > 0 => handled'["USR1"] > 0
      <4>1. CASE s # "RTMIN"
        BY <1>8, <2>1, <2>3, <4>1 DEF Kept
      <4>2. CASE s = "RTMIN"
        <5>1. "USR1" \notin pending
          BY <1>5, <2>2, <4>2
        <5>2. sent["USR1"] > 0
          <6>1. handled'["RTMIN"] <= sent["RTMIN"]
            BY <1>3, <1>11, <2>3 DEF Owed
          <6>2. sent["RTMIN"] > 0
            BY <1>4, <1>8, <4>2, <6>1
          <6>. QED  BY <2>1, <6>2, SignalBounds DEF Parent
        <5>. QED  BY <1>8, <2>1, <2>3, <5>1, <5>2 DEF Kept
      <4>. QED  BY <4>1, <4>2
    <3>4. other # "running" /\ quiet => handled'["RTMIN"] = Times /\ handled'["USR1"] > 0
      <4>. SUFFICES ASSUME other # "running", quiet
                    PROVE  handled'["RTMIN"] = Times /\ handled'["USR1"] > 0
        OBVIOUS
      <4>1. handled["RTMIN"] = Times /\ handled["USR1"] > 0 /\ sent["RTMIN"] = Times
        BY <2>1 DEF Kept, Parent
      <4>2. handled'["RTMIN"] <= sent["RTMIN"]
        BY <1>3, <1>11, <2>3 DEF Owed
      <4>. QED  BY <1>8, <2>3, <4>1, <4>2, SignalBounds
    <3>. QED  BY <1>3, <3>1, <3>2, <3>3, <3>4 DEF Kept
  <2>. QED  BY <2>4, <2>5, <2>6
<1>. QED  BY <1>10, <1>11, <1>12, <1>13, <1>14, <1>15 DEF IInv

(* A signal without a handler, which the child of rt-signals.c never gets. *)
LEMMA KillStep == ASSUME IInv, Kill PROVE IInv'
<1>1. Types /\ Owed /\ Limits /\ Unused /\ CountInv /\ RtInv /\ pc \in Int /\ CallsHere
  BY Lines DEF IInv, Types
<1>2. /\ Next1 \in Signals /\ Next1 \notin blocked /\ Next1 \notin handlers
      /\ Next1 # "RTMIN" => Next1 \in pending
      /\ pending' = pending \ {Next1} /\ status' = "killed"
      /\ UNCHANGED <<prog, pc, inCall, handlers, blocked, queued, frames, counter, done, other,
                     sent, handled, early, quiet>>
  BY <1>1, TakesLeast DEF Kill, place, history, world
<1>3. Types'
  <2>1. pending' \in SUBSET (Signals \ {"RTMIN"})
    BY <1>1, <1>2 DEF Types
  <2>. QED  BY <1>1, <1>2, <2>1 DEF Types
<1>4. Owed'
  BY <1>1, <1>2 DEF Owed
<1>5. Limits'
  BY <1>1, <1>2, SameLimits
<1>6. RtInv'
  <2>1. prog # "rt"
    <3>. SUFFICES ASSUME prog = "rt" PROVE FALSE
      OBVIOUS
    <3>1. Parent /\ Child
      BY <1>1 DEF RtInv
    <3>2. Next1 \in {"ALRM", "TERM", "CHLD"} /\ Next1 \in pending
      BY <1>2, <3>1, Names DEF Child
    <3>3. handled[Next1] < sent[Next1] /\ handled[Next1] \in Nat
      BY <1>1, <1>2, <3>2 DEF Owed, Types
    <3>. QED  BY <3>1, <3>2, <3>3 DEF Parent
  <2>. QED  BY <1>1, <1>2, <2>1, SameRt
<1>. QED  BY <1>1, <1>2, <1>3, <1>4, <1>5, <1>6, SameUnused, SameCount DEF IInv

(* count-sigint.c's handler loads the counter. *)
LEMMA LoadStep == ASSUME IInv, Load PROVE IInv'
<1>1. Types /\ Owed /\ Limits /\ Unused /\ CountInv /\ RtInv /\ pc \in Int /\ CallsHere
  BY Lines DEF IInv, Types
<1>. DEFINE n == Len(frames)
<1>2. /\ frames # << >> /\ prog = "count_sigint" /\ frames[n][1] = "INT"
      /\ frames' = [frames EXCEPT ![n][3] = counter]
      /\ UNCHANGED <<prog, pc, inCall, status, handlers, blocked, pending, queued, counter, done,
                     other, sent, handled, early, quiet>>
  BY DEF Load, Counts, Top, place, history, world
<1>3. /\ frames' \in Seq(Frames) /\ n \in Nat /\ n > 0 /\ Len(frames') = n
      /\ \A k \in 1 .. n : k # n => frames'[k] = frames[k]
      /\ frames'[n] = [frames[n] EXCEPT ![3] = counter]
      /\ frames[n] \in Frames
  <2>1. n \in 1 .. n /\ frames \in Seq(Frames) /\ frames[n] \in Frames
    BY <1>1, <1>2 DEF Types
  <2>2. [frames[n] EXCEPT ![3] = counter] \in Frames
    <3>1. PICK r \in Signals, m \in SUBSET Signals, x \in Int : frames[n] = <<r, m, x>>
      BY <2>1 DEF Frames
    <3>2. [<<r, m, x>> EXCEPT ![3] = counter] = <<r, m, counter>>
      OBVIOUS
    <3>. QED  BY <1>1, <3>1, <3>2 DEF Frames, Types
  <2>3. frames' = [frames EXCEPT ![n] = [frames[n] EXCEPT ![3] = counter]]
    BY <1>2
  <2>. QED  BY <2>1, <2>2, <2>3
<1>4. frames'[n][1] = frames[n][1] /\ frames'[n][2] = frames[n][2] /\ frames'[n][3] = counter
  BY <1>3 DEF Frames
<1>5. Types'
  BY <1>1, <1>2, <1>3 DEF Types
<1>6. Limits' /\ Unused' /\ Owed'
  BY <1>1, <1>2, SameLimits, SameOwed DEF Unused
<1>7. CountInv'
  <2>1. Nested /\ Counted
    BY <1>1, <1>2 DEF CountInv
  <2>2. \A k \in 1 .. n : frames'[k][1] = frames[k][1] /\ frames'[k][2] = frames[k][2]
    BY <1>3, <1>4
  <2>3. \A r \in Signals : Runs(r)' <=> Runs(r)
    BY <1>3, <2>2 DEF Runs
  <2>4. Nested'
    BY <1>2, <1>3, <2>1, <2>2, <2>3 DEF Nested
  <2>5. Counted'
    <3>1. \A k \in 1 .. n :
             frames'[k][3] # NotLoaded => frames'[k][1] = "INT" /\ frames'[k][3] = counter
      BY <1>2, <1>3, <1>4, <2>1 DEF Counted
    <3>. QED  BY <1>2, <1>3, <2>1, <2>3, <3>1, Names DEF Counted
  <2>. QED  BY <1>2, <2>4, <2>5 DEF CountInv
<1>8. RtInv'
  BY <1>1, <1>2, SameRt
<1>. QED  BY <1>5, <1>6, <1>7, <1>8 DEF IInv

(* The last handler that was started ends: what it loaded is still the counter. *)
LEMMA EndHandlerStep == ASSUME IInv, EndHandler PROVE IInv'
<1>1. Types /\ Owed /\ Limits /\ Unused /\ CountInv /\ RtInv /\ pc \in Int /\ CallsHere
  BY Lines DEF IInv, Types
<1>. DEFINE n == Len(frames)
            top == frames[n]
            back == frames' = << >> /\ inCall /\ Call \in Waits
<1>2. /\ frames # << >>
      /\ prog = "count_sigint" /\ top[1] = "INT" => top[3] # NotLoaded
      /\ counter' = (IF prog = "count_sigint" /\ top[1] = "INT" THEN top[3] + 1 ELSE counter)
      /\ done' = (IF prog = "count_sigint" /\ top[1] = "TERM" THEN 1 ELSE done)
      /\ status' = (IF prog = "rt" /\ top[1] = "INT" THEN "exited" ELSE status)
      /\ blocked' = top[2]
      /\ frames' = SubSeq(frames, 1, n - 1)
      /\ inCall' = (inCall /\ ~back)
      /\ pc' = (IF back THEN pc + 1 ELSE pc)
      /\ UNCHANGED <<prog, handlers, pending, queued, other, sent, handled, early, quiet>>
  BY DEF EndHandler, Counts, Top, history, world
<1>3. back => pc + 1 \in DOMAIN Text[prog] /\ (Beside => pc # 2)
  BY <1>1 DEF CallsHere, Waits
<1>. HIDE DEF back
<1>4. /\ n \in Nat /\ n > 0 /\ top \in Frames
      /\ frames' \in Seq(Frames) /\ Len(frames') = n - 1
      /\ \A k \in 1 .. n - 1 : frames'[k] = frames[k]
      /\ \A k \in 1 .. n : k \in 1 .. n - 1 \/ k = n
      /\ \A k \in 1 .. n - 1 : k \in 1 .. n
  <2>1. frames \in Seq(Frames) /\ n \in Nat /\ n > 0
    BY <1>1, <1>2 DEF Types
  <2>2. top \in Frames
    BY <2>1
  <2>3. /\ SubSeq(frames, 1, n - 1) \in Seq(Frames) /\ Len(SubSeq(frames, 1, n - 1)) = n - 1
        /\ \A k \in 1 .. n - 1 : SubSeq(frames, 1, n - 1)[k] = frames[k]
    <3>1. 1 \in 1 .. Len(frames) + 1 /\ n - 1 \in 1 - 1 .. Len(frames) /\ n - 1 = (n - 1) - 1 + 1
      BY <2>1
    <3>2. \A k \in 1 .. n - 1 : 1 + k - 1 = k
      BY <2>1
    <3>. QED  BY <2>1, <3>1, <3>2, SubSeqProperties
  <2>. QED  BY <1>2, <2>1, <2>2, <2>3
<1>5. top[1] \in Signals /\ top[2] \in SUBSET Signals /\ top[3] \in Int
  BY <1>4 DEF Frames
<1>6. Types'
  <2>1. inCall' \in BOOLEAN
    BY <1>2
  <2>2. counter' \in Int /\ done' \in {0, 1} /\ status' \in {"running", "exited", "killed"}
    BY <1>1, <1>2, <1>5 DEF Types
  <2>3. pc' \in DOMAIN Text[prog]
    BY <1>1, <1>2, <1>3 DEF Types
  <2>. QED  BY <1>1, <1>2, <1>4, <1>5, <2>1, <2>2, <2>3 DEF Types
<1>7. Owed'
  BY <1>1, <1>2, SameOwed
<1>8. Limits'
  BY <1>1, <1>2, <1>3, SameLimits
<1>9. Unused'
  BY <1>1, <1>2, <1>4 DEF Unused
<1>10. CountInv'
  <2>. SUFFICES ASSUME prog = "count_sigint" PROVE Nested' /\ Counted'
    BY <1>2 DEF CountInv
  <2>1. Nested /\ Counted
    BY <1>1 DEF CountInv
  <2>2. \A k \in 1 .. n - 1 : frames[k][1] # top[1]
    BY <1>4, <2>1 DEF Nested
  <2>3. \A r \in Signals : Runs(r)' <=> Runs(r) /\ r # top[1]
    <3>. SUFFICES ASSUME NEW r \in Signals PROVE Runs(r)' <=> Runs(r) /\ r # top[1]
      OBVIOUS
    <3>1. ASSUME Runs(r)' PROVE Runs(r) /\ r # top[1]
      BY <1>4, <2>2, <3>1 DEF Runs
    <3>2. ASSUME Runs(r), r # top[1] PROVE Runs(r)'
      BY <1>4, <3>2 DEF Runs
    <3>. QED  BY <3>1, <3>2
  <2>4. Runs(top[1]) /\ top[1] \in {"INT", "TERM"}
    BY <1>4, <2>1 DEF Runs, Nested
  <2>5. Nested'
    <3>1. \A r \in Signals : r \in blocked' <=> Runs(r)'
      <4>1. \A r \in Signals : r \in top[2] <=> \E j \in 1 .. n - 1 : frames[j][1] = r
        BY <1>4, <2>1 DEF Nested
      <4>. QED  BY <1>2, <1>4, <4>1 DEF Runs
    <3>2. ASSUME NEW k \in 1 .. Len(frames'), NEW r \in Signals
          PROVE  r \in frames'[k][2] <=> \E j \in 1 .. k - 1 : frames'[j][1] = r
      <4>1. k \in 1 .. n - 1 /\ k \in 1 .. n /\ \A j \in 1 .. k - 1 : frames'[j] = frames[j]
        BY <1>4
      <4>. QED  BY <1>4, <2>1, <4>1 DEF Nested
    <3>3. \A j, k \in 1 .. Len(frames') : j < k => frames'[j][1] # frames'[k][1]
      BY <1>4, <2>1 DEF Nested
    <3>. QED  BY <1>2, <1>4, <2>1, <3>1, <3>2, <3>3 DEF Nested
  <2>6. Counted'
    <3>1. \A k \in 1 .. n - 1 :
             frames'[k][3] # NotLoaded => frames'[k][1] = "INT" /\ frames'[k][3] = counter
      BY <1>4, <2>1 DEF Counted
    <3>2. \A r \in Signals : handled[r] \in Nat
      BY <1>1 DEF Types
    <3>3. CASE top[1] = "INT"
      <4>1. top[3] = counter /\ counter' = counter + 1 /\ done' = done
        BY <1>2, <1>4, <2>1, <3>3 DEF Counted
      <4>2. \A k \in 1 .. n - 1 : frames'[k][3] = NotLoaded
        BY <1>4, <2>1, <2>2, <3>1, <3>3
      <4>3. Runs("INT") /\ ~Runs("INT")' /\ (Runs("TERM")' <=> Runs("TERM"))
        BY <2>3, <2>4, <3>3, Names
      <4>4. counter' = handled["INT"]
        BY <2>1, <3>2, <4>1, <4>3, Names DEF Counted
      <4>5. done' = 1 <=> handled["TERM"] > (IF Runs("TERM")' THEN 1 ELSE 0)
        BY <2>1, <4>1, <4>3 DEF Counted
      <4>6. \A r \in Signals : Runs(r)' => handled[r] > 0
        BY <2>1, <2>3 DEF Counted
      <4>7. counter' = handled["INT"] - (IF Runs("INT")' THEN 1 ELSE 0)
        BY <3>2, <4>3, <4>4, Names
      <4>. QED  BY <1>2, <1>4, <4>2, <4>5, <4>6, <4>7 DEF Counted
    <3>4. CASE top[1] = "TERM"
      <4>1. counter' = counter /\ done' = 1
        BY <1>2, <3>4
      <4>2. Runs("TERM") /\ ~Runs("TERM")' /\ (Runs("INT")' <=> Runs("INT"))
        BY <2>3, <2>4, <3>4, Names
      <4>3. handled["TERM"] > 0
        BY <2>1, <4>2, Names DEF Counted
      <4>. QED  BY <1>2, <1>4, <2>1, <2>3, <3>1, <4>1, <4>2, <4>3 DEF Counted
    <3>. QED  BY <2>4, <3>3, <3>4
  <2>. QED  BY <2>5, <2>6
<1>11. RtInv'
  <2>. SUFFICES ASSUME prog = "rt" PROVE Parent' /\ Child' /\ Kept'
    BY <1>2 DEF RtInv
  <2>1. Parent /\ Child /\ Kept
    BY <1>1 DEF RtInv
  <2>2. n = 1 /\ top[2] = Signals /\ handled[top[1]] > 0
    BY <1>4, <2>1 DEF Child
  <2>3. top[1] = "INT" => other # "running"
    <3>1. "INT" \in Signals
      BY Names
    <3>2. handled["INT"] <= sent["INT"] /\ handled["INT"] \in Nat /\ sent["INT"] \in Nat
      BY <1>1, <3>1 DEF Owed, Types
    <3>. QED  BY <2>1, <2>2, <3>2 DEF Parent
  <2>4. Child'
    BY <1>2, <1>4, <2>1, <2>2, <2>3 DEF Child
  <2>. QED  BY <1>2, <2>1, <2>4 DEF Parent, Kept
<1>. QED  BY <1>6, <1>7, <1>8, <1>9, <1>10, <1>11 DEF IInv

-----------------------------------------------------------------------------
(* Those who send signals *)

(* Whoever sends a signal: what was sent is owed, if the process can still get it. *)
LEMMA PostStep ==
    ASSUME IInv, NEW s \in Signals, Post(s), other' \in {"absent", "running", "waiting", "ended"},
           quiet' \in BOOLEAN, s = "RTMIN" => prog = "rt"
    PROVE  /\ Types' /\ Owed' /\ Unused' /\ CountInv'
           /\ sent'[s] = sent[s] + 1 /\ \A r \in Signals \ {s} : sent'[r] = sent[r]
           /\ UNCHANGED <<prog, pc, status, handlers, frames, blocked, handled>>
           /\ status = "running" => /\ queued' = IF s = "RTMIN" THEN queued + 1 ELSE queued
                                    /\ s # "RTMIN" => pending' = pending \cup {s}
                                    /\ s = "RTMIN" => pending' = pending
<1>1. Types /\ Owed /\ Limits /\ Unused /\ CountInv /\ RtInv
  BY DEF IInv
<1>2. /\ sent' = [sent EXCEPT ![s] = @ + 1]
      /\ UNCHANGED <<prog, pc, inCall, status, handlers, frames, counter, done, blocked, handled,
                     early>>
      /\ status = "running" /\ s = "RTMIN" => queued' = queued + 1 /\ pending' = pending
      /\ status = "running" /\ s # "RTMIN" => queued' = queued /\ pending' = pending \cup {s}
      /\ status # "running" => queued' = queued /\ pending' = pending
  BY DEF Post, OneMore, place, process, history
<1>3. /\ sent' \in [Signals -> Nat] /\ sent'[s] = sent[s] + 1
      /\ \A r \in Signals \ {s} : sent'[r] = sent[r]
      /\ \A r \in Signals : sent[r] \in Nat /\ handled[r] \in Nat /\ sent'[r] >= sent[r]
  BY <1>1, <1>2 DEF Types
<1>4. queued' \in Nat /\ pending' \in SUBSET (Signals \ {"RTMIN"})
  BY <1>1, <1>2 DEF Types
<1>5. Types'
  BY <1>1, <1>2, <1>3, <1>4 DEF Types
<1>6. Owed'
  <2>1. ASSUME NEW r \in Signals
        PROVE  handled[r] <= sent'[r] /\ (r \in pending' => handled[r] < sent'[r])
    <3>1. CASE r = s
      BY <1>1, <1>3, <3>1 DEF Owed
    <3>2. CASE r # s
      <4>1. sent'[r] = sent[r] /\ (r \in pending' => r \in pending)
        BY <1>2, <1>3, <3>2
      <4>. QED  BY <1>1, <4>1 DEF Owed
    <3>. QED  BY <3>1, <3>2
  <2>2. handled["RTMIN"] + queued' <= sent'["RTMIN"]
    <3>1. "RTMIN" \in Signals /\ queued \in Nat
      BY <1>1, Names DEF Types
    <3>2. CASE s = "RTMIN"
      BY <1>1, <1>2, <1>3, <3>1, <3>2 DEF Owed
    <3>3. CASE s # "RTMIN"
      BY <1>1, <1>2, <1>3, <3>1, <3>3 DEF Owed
    <3>. QED  BY <3>2, <3>3
  <2>. QED  BY <1>2, <2>1, <2>2 DEF Owed
<1>7. Unused' /\ CountInv'
  BY <1>1, <1>2, SameUnused, SameCount
<1>. QED  BY <1>2, <1>3, <1>5, <1>6, <1>7

(* The parent of rt-signals.c sends its signals in their order. *)
LEMMA RtParentStep == ASSUME IInv, RtParent PROVE IInv'
<1>1. Types /\ Owed /\ RtInv /\ prog = "rt" /\ other = "running"
  BY DEF IInv, RtParent
<1>2. Parent /\ Child /\ Kept /\ status = "running"
  BY <1>1 DEF RtInv, Child
<1>. DEFINE s == RtSignal
<1>3. /\ s \in Signals /\ Post(s) /\ other' = (IF s = "INT" THEN "waiting" ELSE "running")
      /\ quiet' = (pending = {} /\ queued = 0)
  BY Names DEF RtParent, RtSignal
<1>4. s = IF sent["USR1"] < Times THEN "USR1" ELSE IF sent["RTMIN"] < Times THEN "RTMIN" ELSE "INT"
  BY DEF RtSignal
<1>. HIDE DEF s
<1>5. other' \in {"absent", "running", "waiting", "ended"} /\ quiet' \in BOOLEAN
  BY <1>3
<1>6. /\ Types' /\ Owed' /\ Unused' /\ CountInv'
      /\ sent'[s] = sent[s] + 1 /\ \A r \in Signals \ {s} : sent'[r] = sent[r]
      /\ UNCHANGED <<prog, pc, status, handlers, frames, blocked, handled>>
      /\ queued' = (IF s = "RTMIN" THEN queued + 1 ELSE queued)
      /\ s # "RTMIN" => pending' = pending \cup {s}
      /\ s = "RTMIN" => pending' = pending
  BY <1>1, <1>2, <1>3, <1>5, PostStep
<1>7. Limits'
  BY <1>1, <1>6 DEF Limits
<1>8. \A r \in Signals : sent[r] \in Nat /\ handled[r] \in Nat
  BY <1>1 DEF Types
<1>9. Child'
  BY <1>2, <1>6 DEF Child
<1>10. CASE s = "USR1"
  <2>1. sent["USR1"] < Times /\ other' = "running"
    BY <1>3, <1>4, <1>10
  <2>2. Parent'
    BY <1>1, <1>2, <1>6, <1>8, <1>10, <2>1, Names, SignalBounds DEF Parent
  <2>3. Kept'
    BY <1>2, <1>6, <1>8, <1>10, <2>1, Names DEF Kept
  <2>. QED  BY <1>6, <1>7, <1>9, <2>2, <2>3 DEF IInv, RtInv
<1>11. CASE s = "RTMIN"
  <2>1. sent["USR1"] = Times /\ sent["RTMIN"] < Times /\ other' = "running"
    BY <1>2, <1>3, <1>4, <1>8, <1>11, Names, SignalBounds DEF Parent
  <2>2. Parent'
    BY <1>1, <1>2, <1>6, <1>8, <1>11, <2>1, Names, SignalBounds DEF Parent
  <2>3. Kept'
    BY <1>1, <1>2, <1>6, <1>8, <1>11, <2>1, Names DEF Kept, Types
  <2>. QED  BY <1>6, <1>7, <1>9, <2>2, <2>3 DEF IInv, RtInv
<1>12. CASE s = "INT"
  <2>1. sent["USR1"] = Times /\ sent["RTMIN"] = Times /\ other' = "waiting"
    BY <1>2, <1>3, <1>4, <1>8, <1>12, Names, SignalBounds DEF Parent
  <2>2. Parent'
    BY <1>1, <1>2, <1>6, <1>8, <1>12, <2>1, Names, SignalBounds DEF Parent
  <2>3. Kept'
    <3>0. quiet' => pending = {} /\ queued = 0
      BY <1>3, Zenon
    <3>1. quiet' => handled["RTMIN"] = Times /\ handled["USR1"] > 0
      BY <3>0, <1>2, <1>3, <1>8, <2>1, Names, SignalBounds DEF Kept
    <3>. QED  BY <1>2, <1>6, <1>8, <1>12, <2>1, <3>1, Names DEF Kept
  <2>. QED  BY <1>6, <1>7, <1>9, <2>2, <2>3 DEF IInv, RtInv
<1>. QED  BY <1>4, <1>10, <1>11, <1>12

(* The parent of rt-signals.c has waited for its child. *)
LEMMA RtWaitStep == ASSUME IInv, RtWait PROVE IInv'
<1>1. Types /\ Owed /\ Limits /\ Unused /\ CountInv /\ RtInv
  BY DEF IInv
<1>2. /\ other = "waiting" /\ other' = "ended"
      /\ UNCHANGED <<prog, pc, inCall, status, handlers, frames, counter, done, blocked, pending,
                     queued, handled, early, sent, quiet>>
  BY DEF RtWait, place, process, history
<1>3. prog = "rt"
  BY <1>1, <1>2 DEF Limits
<1>4. Types'
  BY <1>1, <1>2 DEF Types
<1>5. Limits'
  BY <1>2, <1>3 DEF Limits
<1>6. RtInv'
  BY <1>1, <1>2, <1>3 DEF RtInv, Parent, Child, Kept
<1>. QED  BY <1>1, <1>2, <1>4, <1>5, <1>6, SameOwed, SameUnused, SameCount DEF IInv

(* The child of finished-child-process.c, or the alarm, sends one signal. *)
LEMMA OtherEndsStep == ASSUME IInv, OtherEnds PROVE IInv'
<1>1. Types /\ Limits /\ RtInv
  BY DEF IInv
<1>. DEFINE s == IF prog = "sig_alarm" THEN "ALRM" ELSE "CHLD"
<1>2. Beside /\ prog # "rt" /\ other = "running" /\ Post(s) /\ other' = "ended" /\ quiet' = quiet
  BY DEF OtherEnds, Beside
<1>3. s \in Signals /\ s \in {"ALRM", "CHLD"}
  BY Names
<1>. HIDE DEF s
<1>4. other' \in {"absent", "running", "waiting", "ended"} /\ quiet' \in BOOLEAN
  BY <1>1, <1>2 DEF Types
<1>5. /\ Types' /\ Owed' /\ Unused' /\ CountInv'
      /\ sent'[s] = sent[s] + 1 /\ \A r \in Signals \ {s} : sent'[r] = sent[r]
      /\ UNCHANGED <<prog, pc, status, handlers, frames, blocked, handled>>
  BY <1>2, <1>3, <1>4, PostStep
<1>6. Limits'
  <2>1. pc > 2 <=> ~(pc <= 2)
    BY <1>1, Lines DEF Types
  <2>. QED  BY <1>1, <1>2, <1>3, <1>5, <2>1, Names DEF Limits, Beside
<1>7. RtInv'
  BY <1>2, <1>5 DEF RtInv
<1>. QED  BY <1>5, <1>6, <1>7 DEF IInv

(* The user sends a signal. *)
LEMMA UserStep == ASSUME IInv, User PROVE IInv'
<1>1. Types /\ Limits /\ RtInv /\ prog # "rt" /\ other' = other /\ quiet' = quiet
  BY DEF IInv, User
<1>2. PICK s \in {"INT", "TERM", "USR1"} : sent[s] < MaxSent /\ Post(s)
  BY DEF User
<1>3. s \in Signals /\ s # "RTMIN"
  BY Names
<1>4. other' \in {"absent", "running", "waiting", "ended"} /\ quiet' \in BOOLEAN
  BY <1>1 DEF Types
<1>5. /\ Types' /\ Owed' /\ Unused' /\ CountInv'
      /\ sent'[s] = sent[s] + 1 /\ \A r \in Signals \ {s} : sent'[r] = sent[r]
      /\ UNCHANGED <<prog, pc, status, handlers, frames, blocked, handled>>
  BY <1>2, <1>3, <1>4, PostStep
<1>6. Limits'
  <2>1. sent[s] \in Nat
    BY <1>1, <1>3 DEF Types
  <2>. QED  BY <1>1, <1>2, <1>3, <1>5, <2>1, Names, SignalBounds DEF Limits, Beside
<1>7. RtInv'
  BY <1>1, <1>5 DEF RtInv
<1>. QED  BY <1>5, <1>6, <1>7 DEF IInv

-----------------------------------------------------------------------------
(* The theorems *)

(* Every step keeps the invariant. *)
LEMMA NextInv == IInv /\ [Next]_vars => IInv'
<1>. SUFFICES ASSUME IInv, [Next]_vars PROVE IInv'
  OBVIOUS
<1>1. CASE UNCHANGED vars
  <2>1. /\ UNCHANGED <<prog, pc, inCall, status, handlers, blocked, pending, queued, frames>>
        /\ UNCHANGED <<counter, done, other, sent, handled, early, quiet>>
    BY <1>1 DEF vars
  <2>2. Types'
    BY <2>1 DEF IInv, Types
  <2>. QED  BY <2>1, <2>2, SameOwed, SameUnused, SameCount, SameRt, SameLimits DEF IInv
<1>2. CASE Main
  BY <1>2, SetUpStep, JumpStep, StartStep, ReturnStep, EnterStep, LeaveStep DEF Main
<1>3. CASE Handler
  BY <1>3, LoadStep, EndHandlerStep DEF Handler
<1>4. CASE Other
  BY <1>4, RtParentStep, RtWaitStep, OtherEndsStep DEF Other
<1>. QED  BY <1>1, <1>2, <1>3, <1>4, DeliverStep, KillStep, UserStep DEF Next

(* What was counted is no more than what the user sent. *)
LEMMA CounterBound == ASSUME IInv PROVE counter \in 0 .. MaxSent
<1>1. Types /\ Owed /\ Limits /\ Unused /\ CountInv
  BY DEF IInv
<1>2. CASE prog = "count_sigint"
  <2>1. handled["INT"] \in Nat /\ handled["INT"] <= sent["INT"] /\ sent["INT"] \in Nat
    BY <1>1, Names DEF Types, Owed
  <2>2. sent["INT"] <= MaxSent
    BY <1>1, <1>2 DEF Limits
  <2>3. Runs("INT") => handled["INT"] > 0
    BY <1>1, <1>2, Names DEF CountInv, Counted
  <2>4. counter = handled["INT"] - (IF Runs("INT") THEN 1 ELSE 0)
    BY <1>1, <1>2 DEF CountInv, Counted
  <2>. QED  BY <2>1, <2>2, <2>3, <2>4, SignalBounds
<1>3. CASE prog # "count_sigint"
  BY <1>1, <1>3, SignalBounds DEF Unused
<1>. QED  BY <1>2, <1>3

(* The invariant has what TypeOK says. *)
LEMMA InvImpliesTypes == ASSUME IInv PROVE TypeOK
<1>1. Types /\ Owed /\ Limits /\ Unused /\ CountInv /\ RtInv
  BY DEF IInv
<1>2. \A s \in Signals : sent[s] \in Nat /\ handled[s] \in Nat
  BY <1>1 DEF Types
<1>3. queued \in 0 .. Times /\ sent.RTMIN <= Times /\ sent \in [Signals -> 0 .. Times + MaxSent]
  <2>1. /\ queued \in Nat /\ handled["RTMIN"] \in Nat /\ sent["RTMIN"] \in Nat
        /\ handled["RTMIN"] + queued <= sent["RTMIN"]
    BY <1>1, <1>2, Names DEF Types, Owed
  <2>2. sent["RTMIN"] <= Times
    BY <1>1, SignalBounds DEF Limits, RtInv, Parent
  <2>3. ASSUME NEW s \in Signals PROVE sent[s] \in 0 .. Times + MaxSent
    <3>1. CASE prog = "rt"
      BY <1>1, <1>2, <3>1, Names, SignalBounds DEF RtInv, Parent
    <3>2. CASE prog # "rt"
      BY <1>1, <1>2, <3>2, Names, SignalBounds DEF Limits
    <3>. QED  BY <3>1, <3>2
  <2>4. sent \in [Signals -> 0 .. Times + MaxSent]
    BY <1>1, <2>3 DEF Types
  <2>. QED  BY <2>1, <2>2, <2>4, SignalBounds
<1>4. counter \in 0 .. MaxSent
  BY CounterBound
<1>5. frames \in Seq(Signals \X (SUBSET Signals) \X (NotLoaded .. MaxSent))
  <2>. DEFINE F == Signals \X (SUBSET Signals) \X (NotLoaded .. MaxSent)
  <2>1. frames \in Seq(Frames) /\ Len(frames) \in Nat /\ \A k \in 1 .. Len(frames) : frames[k] \in Frames
    BY <1>1 DEF Types
  <2>2. ASSUME NEW k \in 1 .. Len(frames) PROVE frames[k] \in F
    <3>1. PICK s \in Signals, m \in SUBSET Signals, x \in Int : frames[k] = <<s, m, x>>
      BY <2>1 DEF Frames
    <3>2. x = NotLoaded \/ x = counter
      BY <1>1, <3>1 DEF Unused, CountInv, Counted
    <3>3. x \in NotLoaded .. MaxSent
      BY <1>4, <3>2, SignalBounds DEF NotLoaded
    <3>. QED  BY <3>1, <3>3
  <2>. HIDE DEF F
  <2>3. frames = [k \in 1 .. Len(frames) |-> frames[k]]
    BY <2>1
  <2>4. frames \in Seq(F)
    BY <2>1, <2>2, <2>3
  <2>. QED  BY <2>4 DEF F
<1>6. \A s \in Signals : handled[s] + (IF s \in pending THEN 1 ELSE 0) <= sent[s]
  BY <1>1, <1>2 DEF Owed
<1>. QED  BY <1>1, <1>3, <1>4, <1>5, <1>6 DEF Types, TypeOK

(* Without a handler that runs, the counts are those that were delivered. *)
LEMMA InvImpliesCounts == ASSUME IInv PROVE CountsDelivered
<1>. SUFFICES ASSUME prog = "count_sigint", frames = << >>
              PROVE  counter = handled.INT /\ (done = 1 <=> handled.TERM > 0)
  BY DEF CountsDelivered
<1>1. Types /\ Counted
  BY DEF IInv, CountInv
<1>2. ~Runs("INT") /\ ~Runs("TERM")
  BY DEF Runs
<1>3. handled["INT"] \in Nat
  BY <1>1, Names DEF Types
<1>. QED  BY <1>1, <1>2, <1>3 DEF Counted

(* What the child of rt-signals.c has kept is what it was sent. *)
LEMMA InvImpliesAsOften == ASSUME IInv PROVE AsOftenAsSent
<1>. SUFFICES ASSUME prog = "rt"
              PROVE  /\ handled.RTMIN > 0 => handled.USR1 \in 1 .. Times
                     /\ handled.RTMIN + queued = sent.RTMIN
                     /\ status = "exited" /\ quiet => handled.RTMIN = Times /\ handled.USR1 > 0
  BY DEF AsOftenAsSent
<1>1. Types /\ Owed /\ Parent /\ Child /\ Kept
  BY DEF IInv, RtInv
<1>2. handled["USR1"] \in Nat /\ sent["USR1"] \in Nat /\ handled["USR1"] <= sent["USR1"]
  BY <1>1, Names DEF Types, Owed
<1>3. handled["RTMIN"] > 0 => handled["USR1"] \in 1 .. Times
  BY <1>1, <1>2, SignalBounds DEF Parent, Kept
<1>4. status = "exited" /\ quiet => handled["RTMIN"] = Times /\ handled["USR1"] > 0
  BY <1>1 DEF Child, Kept
<1>. QED  BY <1>1, <1>3, <1>4 DEF Kept

(* Signals stays within its types: in particular the program never runs past its last
   call, no signal is handled more often than it was sent, and the queue of SIGRTMIN holds
   at most Times. *)
THEOREM TypeCorrect == Spec => []TypeOK
BY InitInv, NextInv, InvImpliesTypes, PTL DEF Spec

(* count-sigint.c counts each SIGINT that is delivered, and leaves its loop after a
   SIGTERM: the handlers that interrupt each other are of different signals. *)
THEOREM EachIsCounted == Spec => []CountsDelivered
BY InitInv, NextInv, InvImpliesCounts, PTL DEF Spec

(* rt-signals.c: no SIGRTMIN is lost, and a SIGUSR1 is handled before the first. *)
THEOREM NoneIsLost == Spec => []AsOftenAsSent
BY InitInv, NextInv, InvImpliesAsOften, PTL DEF Spec
=============================================================================
