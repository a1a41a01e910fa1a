----------------------------- MODULE PromptTurn -----------------------------
(***************************************************************************)
(* One turn of `session prompt` (session/turn.rs and turn/supervisor.rs):  *)
(* the machine of the turn with its three timers, the threads that watch   *)
(* the child, and the child with whatever it leaves behind on its pipes.   *)
(*                                                                         *)
(* A line of stdout is a result that says it succeeded, one that says it   *)
(* failed or anything else; the last one may have no newline.  A timer is  *)
(* the time it has left, 0 when it is due.                                 *)
(***************************************************************************)
EXTENDS Integers, Sequences

CONSTANTS
  Limit,   \* --timeout, in ticks
  Grace,   \* RESULT_EXIT_GRACE
  Drain,   \* PIPE_DRAIN
  MaxLines \* bound: lines written to stdout

TurnAssumption ==
  /\ Limit \in Nat \ {0} /\ Grace \in Nat \ {0} /\ Drain \in Nat \ {0}
  /\ MaxLines \in Nat

VARIABLES
  child,     \* "running", "exited" (not waited for yet) or "reaped"
  code,      \* how it left: "zero", "other", "signal"
  doomed,    \* SIGKILL was sent to it
  holds,     \* the pipes the child has open
  heirs,     \* the pipes a process it started has open
  pipe,      \* lines of stdout nobody has read
  lines,     \* how many may still be written
  hand,      \* what the reader of stdout has read and not sent
  reading,   \* pipes whose reader has not told the end
  waiting,   \* the thread that waits for the exit has not told it
  queue,     \* the channel
  at,        \* where run and linger are
  phase,     \* Phase
  timer,     \* deadline, grace and drain, or Off
  timedOut,  \* Turn::timed_out
  isOpen,    \* out_open, err_open
  payload,   \* what Reader::payload says, None before a result
  pending,   \* Reader::pending: a line that has not ended
  outcome,   \* what finish gave
  last,      \* history: the last result written before the outcome
  missed,    \* history: the drain ended with a reader behind
  age,       \* history: ticks since the start, up to Limit
  since,     \* history: ticks since a result was read, up to Grace
  stray      \* history: a kill was asked for after the reap

world == <<child, code, doomed, holds, heirs, pipe, lines>>
threads == <<hand, reading, waiting, queue>>
machine == <<at, phase, timer, timedOut, isOpen, payload, pending, outcome>>
history == <<last, missed, age, since, stray>>
vars == <<world, threads, machine, history>>

Pipe == {"out", "err"}
None == "none"
Off == -1

\* "ok" and "failed" are results; "ok/" and "failed/" the same with no newline.
Line == {"text", "ok", "failed", "ok/", "failed/"}
Says(l) == CASE l \in {"ok", "ok/"} -> "ok" [] l \in {"failed", "failed/"} -> "failed" [] OTHER -> None
Cut(l) == l \in {"ok/", "failed/"}

TypeOK ==
  /\ child \in {"running", "exited", "reaped"} /\ code \in {"zero", "other", "signal"}
  /\ doomed \in BOOLEAN
  /\ holds \subseteq Pipe /\ heirs \subseteq Pipe
  /\ pipe \in Seq(Line) /\ lines \in 0..MaxLines
  /\ hand \in Line \cup {None}
  /\ reading \subseteq Pipe /\ waiting \in BOOLEAN
  /\ queue \in Seq(Line \cup Pipe \cup {"exited"})
  /\ at \in {"run", "drained", "finish", "linger", "over"}
  /\ phase \in {"Running", "Resulted", "Exited"}
  /\ timer \in [{"deadline", "grace", "drain"} -> Off..(Limit + Grace + Drain)]
  /\ timedOut \in BOOLEAN /\ isOpen \subseteq Pipe
  /\ payload \in {"ok", "failed", None} /\ pending \in Line \cup {None}
  /\ outcome \in {None, "ok", "killed-after-result", "timeout", "exited"}
  /\ phase = "Exited" <=> child = "reaped"
  /\ timer["grace"] # Off => phase = "Resulted"
  /\ timer["drain"] # Off => phase = "Exited"

Init ==
  /\ child = "running" /\ code = "zero" /\ doomed = FALSE
  /\ holds = Pipe /\ heirs \in SUBSET Pipe
  /\ pipe = <<>> /\ lines = MaxLines
  /\ hand = None /\ reading = Pipe /\ waiting = TRUE /\ queue = <<>>
  /\ at = "run" /\ phase = "Running"
  /\ \E limit \in {Limit, Off} :
       timer = [deadline |-> limit, grace |-> Off, drain |-> Off]
  /\ timedOut = FALSE /\ isOpen = Pipe
  /\ payload = None /\ pending = None /\ outcome = None
  /\ last = None /\ missed = FALSE /\ age = 0 /\ since = 0 /\ stray = FALSE

-----------------------------------------------------------------------------
(* The child and its heirs *)

\* Nothing follows a line with no newline.
WriteLine(l) ==
  /\ "out" \in holds \cup heirs /\ lines > 0
  /\ pipe' = Append(pipe, l)
  /\ lines' = IF Cut(l) THEN 0 ELSE lines - 1
  /\ last' = IF at \in {"run", "drained"} /\ Says(l) # None THEN Says(l) ELSE last
  /\ UNCHANGED <<child, code, doomed, holds, heirs, threads, machine, missed, age, since, stray>>

ClosePipe(p) ==
  /\ \/ p \in holds /\ holds' = holds \ {p} /\ UNCHANGED heirs
     \/ p \in heirs /\ heirs' = heirs \ {p} /\ UNCHANGED holds
  /\ UNCHANGED <<child, code, doomed, pipe, lines, threads, machine, history>>

\* The child leaves, on its own or by the signal.
ChildExits ==
  /\ child = "running"
  /\ child' = "exited" /\ holds' = {}
  /\ code' \in IF doomed THEN {"zero", "other", "signal"} ELSE {"zero", "other"}
  /\ UNCHANGED <<doomed, heirs, pipe, lines, threads, machine, history>>

-----------------------------------------------------------------------------
(* The threads: read_pipe and wait_for_exit *)

ReadLine ==
  /\ "out" \in reading /\ hand = None /\ pipe # <<>>
  /\ hand' = Head(pipe) /\ pipe' = Tail(pipe)
  /\ UNCHANGED <<child, code, doomed, holds, heirs, lines, reading, waiting, queue, machine, history>>

SendLine ==
  /\ hand # None
  /\ queue' = Append(queue, hand) /\ hand' = None
  /\ UNCHANGED <<world, reading, waiting, machine, history>>

ReadEnd(p) ==
  /\ p \in reading \ (holds \cup heirs)
  /\ p = "out" => pipe = <<>> /\ hand = None
  /\ reading' = reading \ {p}
  /\ queue' = Append(queue, p)
  /\ UNCHANGED <<world, hand, waiting, machine, history>>

TellExit ==
  /\ waiting /\ child # "running"
  /\ waiting' = FALSE
  /\ queue' = Append(queue, "exited")
  /\ UNCHANGED <<world, hand, reading, machine, history>>

-----------------------------------------------------------------------------
(* The machine: take, timers, run *)

\* Mutant: a result leaves the deadline armed.
AfterResult_KeepsDeadline(t) ==
  IF phase = "Running" THEN [t EXCEPT !["grace"] = Grace] ELSE t

\* after_a_result: the deadline goes, and the first result of a child that is
\* still there arms the grace.
AfterResult(t) ==
  CASE phase = "Running" -> [t EXCEPT !["deadline"] = Off, !["grace"] = Grace]
    [] phase = "Exited" -> [t EXCEPT !["deadline"] = Off]
    [] phase = "Resulted" -> t

\* timers, on every pass, and how the pass ends: with the drain over, closed,
\* or with another one.
Timers(t) ==
  LET due == {k \in DOMAIN t : t[k] = 0}
      kill == ("deadline" \in due /\ phase' # "Exited") \/ "grace" \in due
  IN /\ timer' = [k \in DOMAIN t |-> IF k \in due THEN Off ELSE t[k]]
     /\ timedOut' = (timedOut \/ "deadline" \in due)
     /\ doomed' = (doomed \/ (kill /\ child' # "reaped"))
     /\ stray' = (stray \/ (kill /\ child' = "reaped"))
     /\ at' = IF "drain" \in due THEN "drained"
              ELSE IF phase' = "Exited" /\ isOpen' = {} THEN "finish" ELSE "run"

\* Reader::push: a line with no newline waits for the end.
Hear(l) ==
  IF Cut(l) THEN pending' = l /\ UNCHANGED payload
  ELSE /\ payload' = IF Says(l) # None THEN Says(l) ELSE payload
       /\ UNCHANGED pending

Receive(l) == queue # <<>> /\ Head(queue) = l /\ queue' = Tail(queue)

TakeOut ==
  /\ at = "run"
  /\ \E l \in Line : Receive(l) /\ Hear(l)
  /\ IF payload' # None
       THEN /\ phase' = IF phase = "Running" THEN "Resulted" ELSE phase
            /\ UNCHANGED <<child, isOpen>>
            /\ Timers(AfterResult(timer))
       ELSE /\ UNCHANGED <<phase, child, isOpen>>
            /\ Timers(timer)
  /\ UNCHANGED <<code, holds, heirs, pipe, lines, hand, reading, waiting, outcome,
                 last, missed, age, since>>

TakeEnd ==
  /\ at = "run"
  /\ \E p \in Pipe : Receive(p) /\ isOpen' = isOpen \ {p}
  /\ UNCHANGED <<phase, child>>
  /\ Timers(timer)
  /\ UNCHANGED <<code, holds, heirs, pipe, lines, hand, reading, waiting, payload, pending,
                 outcome, last, missed, age, since>>

\* The child is reaped, the grace ends and the drain begins; the deadline stays.
TakeExited ==
  /\ at = "run" /\ Receive("exited")
  /\ child' = "reaped" /\ phase' = "Exited"
  /\ UNCHANGED isOpen
  /\ Timers([timer EXCEPT !["grace"] = Off, !["drain"] = Drain])
  /\ UNCHANGED <<code, holds, heirs, pipe, lines, hand, reading, waiting, payload, pending,
                 outcome, last, missed, age, since>>

\* The wait for a message ends with the first timer.
TimeIsUp ==
  /\ at = "run" /\ queue = <<>> /\ \E k \in DOMAIN timer : timer[k] = 0
  /\ UNCHANGED <<phase, child, isOpen>>
  /\ Timers(timer)
  /\ UNCHANGED <<code, holds, heirs, pipe, lines, threads, payload, pending, outcome,
                 last, missed, age, since>>

\* The drain is over: what is queued is taken still ...
DrainTake ==
  /\ at = "drained"
  /\ \/ \E l \in Line : Receive(l) /\ Hear(l) /\ UNCHANGED isOpen
     \/ \E p \in Pipe : Receive(p) /\ isOpen' = isOpen \ {p} /\ UNCHANGED <<payload, pending>>
  /\ timer' = IF payload' # None THEN AfterResult(timer) ELSE timer
  /\ UNCHANGED <<world, hand, reading, waiting, at, phase, timedOut, outcome, history>>

\* Mutant: the pipes are not asked.
DrainStops_Unasked ==
  /\ at = "drained" /\ queue = <<>>
  /\ at' = "finish"
  /\ missed' = (hand # None)
  /\ UNCHANGED <<world, threads, phase, timer, timedOut, isOpen, payload, pending, outcome,
                 last, age, since, stray>>

Readable == \E p \in isOpen : (p = "out" /\ pipe # <<>>) \/ p \notin holds \cup heirs

\* ... until nothing is queued and no pipe is readable ...
DrainStops ==
  /\ at = "drained" /\ queue = <<>> /\ ~Readable
  /\ at' = "finish"
  /\ missed' = (hand # None)
  /\ UNCHANGED <<world, threads, phase, timer, timedOut, isOpen, payload, pending, outcome,
                 last, age, since, stray>>

\* ... or READER_WAIT is over.
DrainGivesUp ==
  /\ at = "drained"
  /\ at' = "finish"
  /\ missed' = TRUE
  /\ UNCHANGED <<world, threads, phase, timer, timedOut, isOpen, payload, pending, outcome,
                 last, age, since, stray>>

\* finish: the line that has not ended is read first, and may be the result.
Finish ==
  /\ at = "finish"
  /\ payload' = IF pending # None THEN Says(pending) ELSE payload
  /\ pending' = None
  /\ outcome' = CASE payload' = "ok" /\ code = "zero" -> "ok"
                  [] payload' = "ok" /\ code # "zero" -> "killed-after-result"
                  [] payload' # "ok" /\ timedOut -> "timeout"
                  [] payload' # "ok" /\ ~timedOut -> "exited"
  /\ timer' = IF payload' # None THEN AfterResult(timer) ELSE timer
  /\ at' = "linger"
  /\ UNCHANGED <<world, threads, phase, timedOut, isOpen, history>>

\* Mutant: the process ends with the first pipe that does.
Linger_OneEnd ==
  /\ at = "linger" /\ isOpen # Pipe
  /\ at' = "over"
  /\ UNCHANGED <<world, threads, phase, timer, timedOut, isOpen, payload, pending, outcome, history>>

\* linger: until both pipes have ended, whatever their lines say.
Linger ==
  /\ at = "linger"
  /\ IF isOpen = {}
       THEN at' = "over" /\ UNCHANGED <<queue, isOpen>>
       ELSE /\ queue # <<>> /\ queue' = Tail(queue)
            /\ isOpen' = isOpen \ {Head(queue)}
            /\ UNCHANGED at
  /\ UNCHANGED <<world, hand, reading, waiting, phase, timer, timedOut, payload, pending,
                 outcome, history>>

Tick ==
  /\ at = "run"
  /\ timer' = [k \in DOMAIN timer |-> IF timer[k] > 0 THEN timer[k] - 1 ELSE timer[k]]
  /\ age' = IF age < Limit THEN age + 1 ELSE age
  /\ since' = IF payload # None /\ since < Grace THEN since + 1 ELSE since
  /\ UNCHANGED <<world, threads, at, phase, timedOut, isOpen, payload, pending, outcome,
                 last, missed, stray>>

-----------------------------------------------------------------------------
Loop ==
  \/ TakeOut \/ TakeEnd \/ TakeExited \/ TimeIsUp
  \/ DrainTake \/ DrainStops \/ Finish \/ Linger

ReaderOut == ReadLine \/ SendLine \/ ReadEnd("out")

Next ==
  \/ \E l \in Line : WriteLine(l)
  \/ \E p \in Pipe : ClosePipe(p)
  \/ ChildExits
  \/ ReaderOut \/ ReadEnd("err") \/ TellExit
  \/ Loop \/ DrainGivesUp
  \/ Tick

Spec == Init /\ [][Next]_vars

\* The threads and the loop run, time goes by, and SIGKILL ends the child.
FairSpec ==
  /\ Spec
  /\ WF_vars(Loop) /\ WF_vars(ReaderOut) /\ WF_vars(ReadEnd("err")) /\ WF_vars(TellExit)
  /\ WF_vars(Tick) /\ WF_vars(doomed /\ ChildExits)

-----------------------------------------------------------------------------
(* Properties *)

\* The turn succeeded exactly when the last result that was written says so,
\* in whatever order the exit, the ends of the pipes and the lines were told
\* and whether or not the line had its newline, except for what a reader that
\* was behind at the end of the drain still had (take, queued, finish).
OutcomeIsOfTheLastResult ==
  outcome # None /\ ~missed => (outcome \in {"ok", "killed-after-result"} <=> last = "ok")

\* No signal is asked for once the child is reaped: its pid may be another
\* process by then (World::reap, timers).
NoSignalAfterReap == ~stray

\* The child is killed at its time limit while no result was read, or when it
\* stayed the whole grace after one, and at no other time (after_a_result).
NoEarlyKill ==
  [][doomed' /\ ~doomed => (age = Limit /\ payload' = None) \/ since = Grace]_vars

\* The process does not leave while somebody can still write to a pipe of the
\* child, nor with something in one that nobody read (linger).
LingersForHeirs == at = "over" => heirs = {} /\ pipe = <<>> /\ hand = None

\* A turn with a limit ends, and so does one that had a result, whatever the
\* child and its heirs do with the pipes.
Ending == timer["deadline"] # Off \/ payload # None
TurnEnds == Ending ~> outcome # None
=============================================================================
