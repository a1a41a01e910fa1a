----------------------------- MODULE ChildCall -----------------------------
(***************************************************************************)
(* One program run as a child (child.rs): the leader of a process group,   *)
(* what it starts in the group and outside of it, the threads that read    *)
(* its two pipes and wait for its exit, and `supervise`, one loop with one *)
(* deadline that is the timeout, then the end of the grace, then that of   *)
(* the drain.                                                              *)
(*                                                                         *)
(* Time is in ticks of DRAIN_STEP.  The supervisor and the thread that     *)
(* waits run within a tick; the readers of the pipes may be late, which is *)
(* what the wait past the drain is for.  The thread that writes stdin is   *)
(* left out: nothing waits for it.                                         *)
(***************************************************************************)
EXTENDS Integers, Sequences, FiniteSets

CONSTANTS
  Timeout,    \* Policy::timeout
  Grace,      \* Policy::kill_grace, where there is one
  Drain,      \* Policy::drain
  ReaderWait, \* READER_WAIT
  Cap,        \* Policy::cap, in chunks
  MaxChunks,  \* bound: chunks written to the two pipes
  MaxHeirs    \* bound: who else is given the pipes

\* Whoever runs a program gives it a drain; with none, what is left of the
\* group when it is killed could still be writing when the call is over.
CallAssumption ==
  /\ Timeout \in Nat /\ Grace \in Nat /\ Drain \in Nat \ {0} /\ ReaderWait \in Nat
  /\ Cap \in Nat /\ MaxChunks \in Nat /\ MaxHeirs \in Nat

VARIABLES
  program,   \* "runs", "zombie" or "reaped"
  member,    \* another process of the group runs
  holders,   \* who has the write end of each pipe
  signalled, \* the signals the group got
  pipe,      \* chunks in each pipe
  quota,     \* chunks that may still be written
  hand,      \* the reader of each pipe has a chunk it has not pushed
  kept,      \* Capture::bytes
  cut,       \* Capture::cut
  reading,   \* the pipes whose reader thread goes on
  waiting,   \* the thread that waits for the exit has not told it
  stop,      \* the stop of the call came
  queue,     \* the channel
  at,        \* where run is
  grace,     \* Policy::kill_grace of this call
  deadline,  \* ticks to the deadline, or Off
  reason,    \* why the call stopped the program
  open,      \* the pipes with no Eof yet, by their duplicates
  gone,      \* ticks since the exit was seen, or Off
  owed,      \* history: the pipes with chunks of the group not pushed yet
  late,      \* history: the call was over before its readers were
  asked,     \* history: ticks since the program was asked to stop, or Off
  stray      \* history: a signal went to a group whose id was free

world == <<program, member, holders, signalled, pipe, quota>>
readers == <<hand, kept, cut, reading>>
machine == <<at, grace, deadline, reason, open, gone>>
history == <<owed, late, asked, stray>>
vars == <<world, readers, waiting, stop, queue, machine, history>>

Pipe == {"out", "err"}
Group == {"program", "member"}
Off == -1

\* How long a call that stopped nothing waits after the exit.
Bound == Drain + (IF grace = Off THEN ReaderWait ELSE grace)

TypeOK ==
  /\ program \in {"runs", "zombie", "reaped"} /\ member \in BOOLEAN
  /\ holders \in [Pipe -> SUBSET (Group \cup {"outsider"})]
  /\ signalled \subseteq {"TERM", "KILL"}
  /\ pipe \in [Pipe -> 0..MaxChunks] /\ quota \in 0..MaxChunks
  /\ hand \subseteq Pipe /\ kept \in [Pipe -> 0..Cap] /\ cut \subseteq Pipe
  /\ reading \subseteq Pipe /\ waiting \in BOOLEAN /\ stop \in BOOLEAN
  /\ queue \in Seq(Pipe \cup {"exited", "stop"})
  /\ at \in {"launch", "supervise", "over", "failed"}
  /\ grace \in {Grace, Off} /\ deadline \in Off..(Timeout + Grace + Bound)
  /\ reason \in {"none", "timeout", "cancelled"} /\ open \subseteq Pipe
  /\ gone \in Off..Bound
  /\ owed \subseteq Pipe /\ late \in BOOLEAN /\ stray \in BOOLEAN
  /\ asked \in Off..(Grace + Drain + 1)

\* The program starts with both pipes; what it starts has what it is given.
Init ==
  /\ program = "runs" /\ member \in BOOLEAN
  /\ \E heirs \in SUBSET {"member", "outsider"} :
       /\ Cardinality(heirs) <= MaxHeirs /\ ("member" \in heirs => member)
       /\ holders = [p \in Pipe |-> {"program"} \cup heirs]
  /\ signalled = {} /\ pipe = [p \in Pipe |-> 0] /\ quota = MaxChunks
  /\ hand = {} /\ kept = [p \in Pipe |-> 0] /\ cut = {}
  /\ reading = {} /\ waiting = FALSE /\ stop = FALSE /\ queue = <<>>
  /\ at = "launch" /\ grace \in {Grace, Off} /\ deadline = Off
  /\ reason = "none" /\ open = {} /\ gone = Off
  /\ owed = {} /\ late = FALSE /\ asked = Off /\ stray = FALSE

-----------------------------------------------------------------------------
(* The program and what it starts *)

Alive(who) ==
  CASE who = "program" -> program = "runs" [] who = "member" -> member [] OTHER -> TRUE

\* A pipe that nobody reads any more is EPIPE.
Write(p, who) ==
  /\ who \in holders[p] /\ Alive(who) /\ quota > 0
  /\ p \in reading \/ at = "launch"
  /\ pipe' = [pipe EXCEPT ![p] = @ + 1] /\ quota' = quota - 1
  /\ owed' = IF who \in Group THEN owed \cup {p} ELSE owed
  /\ UNCHANGED <<program, member, holders, signalled, readers, waiting, stop, queue, machine,
                 late, asked, stray>>

Close(p, who) ==
  /\ who \in holders[p]
  /\ holders' = [holders EXCEPT ![p] = @ \ {who}]
  /\ UNCHANGED <<program, member, signalled, pipe, quota, readers, waiting, stop, queue, machine,
                 history>>

Left(who) == holders' = [p \in Pipe |-> holders[p] \ {who}]

ProgramExits ==
  /\ program = "runs"
  /\ program' = "zombie" /\ Left("program")
  /\ UNCHANGED <<member, signalled, pipe, quota, readers, waiting, stop, queue, machine, history>>

MemberExits ==
  /\ member
  /\ member' = FALSE /\ Left("member")
  /\ UNCHANGED <<program, signalled, pipe, quota, readers, waiting, stop, queue, machine, history>>

-----------------------------------------------------------------------------
(* The threads *)

\* A thread or a descriptor is refused: the program is killed and reaped.
LaunchFails ==
  /\ at = "launch"
  /\ signalled' = signalled \cup {"KILL"}
  /\ program' = "reaped" /\ member' = FALSE
  /\ holders' = [p \in Pipe |-> holders[p] \ Group]
  /\ reading' \in {{}, {"out"}, Pipe}
  /\ at' = "failed"
  /\ UNCHANGED <<pipe, quota, hand, kept, cut, waiting, stop, queue, grace, deadline, reason, open,
                 gone, history>>

\* launch: a stop that has come already is delivered at once.
Launch ==
  /\ at = "launch"
  /\ reading' = Pipe /\ open' = Pipe /\ waiting' = TRUE
  /\ queue' = IF stop THEN <<"stop">> ELSE <<>>
  /\ deadline' = Timeout /\ at' = "supervise"
  /\ UNCHANGED <<world, hand, kept, cut, stop, grace, reason, gone, history>>

\* Stop::stop, which calls the watcher that launch has left.
StopComes ==
  /\ ~stop /\ at \in {"launch", "supervise"}
  /\ stop' = TRUE
  /\ queue' = IF at = "supervise" THEN Append(queue, "stop") ELSE queue
  /\ UNCHANGED <<world, readers, waiting, machine, history>>

\* A read of a pipe; once the call is over the reader lets go of it.
ReadChunk(p) ==
  /\ p \in reading \ hand /\ pipe[p] > 0
  /\ pipe' = [pipe EXCEPT ![p] = @ - 1]
  /\ IF at = "over" THEN reading' = reading \ {p} /\ UNCHANGED hand
     ELSE hand' = hand \cup {p} /\ UNCHANGED reading
  /\ UNCHANGED <<program, member, holders, signalled, quota, kept, cut, waiting, stop, queue,
                 machine, history>>

\* Capture::push: a stream is cut when it is longer than the cap.
Push(p) ==
  /\ p \in hand
  /\ hand' = hand \ {p}
  /\ IF kept[p] < Cap THEN kept' = [kept EXCEPT ![p] = @ + 1] /\ UNCHANGED cut
     ELSE cut' = cut \cup {p} /\ UNCHANGED kept
  /\ owed' = IF pipe[p] = 0 THEN owed \ {p} ELSE owed
  /\ UNCHANGED <<world, reading, waiting, stop, queue, machine, late, asked, stray>>

Tells(what) == queue' = IF at = "supervise" THEN Append(queue, what) ELSE queue

ReadEnd(p) ==
  /\ p \in reading \ hand /\ pipe[p] = 0 /\ holders[p] = {}
  /\ reading' = reading \ {p}
  /\ Tells(p)
  /\ UNCHANGED <<world, hand, kept, cut, waiting, stop, machine, history>>

\* wait_for_exit: the zombie keeps the id of the group.
TellExit ==
  /\ waiting /\ program = "zombie"
  /\ waiting' = FALSE
  /\ Tells("exited")
  /\ UNCHANGED <<world, readers, stop, machine, history>>

-----------------------------------------------------------------------------
(* supervise *)

\* A signal to the group; SIGKILL is the end of who is in it.
Signal(sig) ==
  /\ signalled' = signalled \cup {sig}
  /\ stray' = (stray \/ program = "reaped")

\* stopping: SIGTERM and the grace, or SIGKILL and nothing to wait for.
Stopping ==
  /\ IF grace # Off THEN Signal("TERM") /\ deadline' = grace
     ELSE Signal("KILL") /\ deadline' = Off
  /\ asked' = IF asked = Off THEN 0 ELSE asked

Receive(what) ==
  at = "supervise" /\ queue # <<>> /\ Head(queue) = what /\ queue' = Tail(queue)

\* Only of a program that was not asked to stop yet, and is there.
TakeStop ==
  /\ Receive("stop")
  /\ IF gone = Off /\ reason = "none" THEN reason' = "cancelled" /\ Stopping
     ELSE UNCHANGED <<reason, deadline, asked, signalled, stray>>
  /\ UNCHANGED <<program, member, holders, pipe, quota, readers, waiting, stop, at, grace, open,
                 gone, owed, late>>

TakeEof(p) ==
  /\ Receive(p)
  /\ open' = open \ {p}
  /\ at' = IF open' = {} /\ gone # Off THEN "over" ELSE at
  /\ UNCHANGED <<world, readers, waiting, stop, grace, deadline, reason, gone, history>>

\* Mutant: the group is signalled after its id was given back.
TakeExited_ReapsFirst ==
  /\ Receive("exited")
  /\ program' = "reaped" /\ signalled' = signalled \cup {"KILL"} /\ stray' = TRUE
  /\ gone' = 0
  /\ IF open = {} THEN at' = "over" /\ UNCHANGED deadline ELSE deadline' = Drain /\ UNCHANGED at
  /\ UNCHANGED <<member, holders, pipe, quota, readers, waiting, stop, grace, reason, open, owed,
                 late, asked>>

\* What is left in the group is killed, then the zombie is reaped.
TakeExited ==
  /\ Receive("exited")
  /\ Signal("KILL") /\ program' = "reaped" /\ gone' = 0
  /\ IF open = {} THEN at' = "over" /\ UNCHANGED deadline ELSE deadline' = Drain /\ UNCHANGED at
  /\ UNCHANGED <<member, holders, pipe, quota, readers, waiting, stop, grace, reason, open, owed,
                 late, asked>>

\* A pipe has bytes, or nobody who could write any: its reader is late.
Readable == \E p \in open : pipe[p] > 0 \/ holders[p] = {}

Due == at = "supervise" /\ queue = <<>> /\ deadline = 0

\* Mutant: the call ends with the drain.
DrainIsOver_AtOnce ==
  /\ Due /\ gone # Off
  /\ at' = "over" /\ late' = FALSE
  /\ UNCHANGED <<world, readers, waiting, stop, queue, grace, deadline, reason, open, gone, owed,
                 asked, stray>>

\* The drain, or a step after it: a stopped call is given up on, another waits
\* for a reader that is late.
DrainIsOver ==
  /\ Due /\ gone # Off
  /\ IF reason # "none" \/ gone >= Bound \/ ~Readable
       THEN /\ at' = "over" /\ late' = (gone >= Bound \/ hand # {}) /\ UNCHANGED deadline
       ELSE /\ deadline' = 1 /\ UNCHANGED <<at, late>>
  /\ UNCHANGED <<world, readers, waiting, stop, queue, grace, reason, open, gone, owed, asked, stray>>

TimesOut ==
  /\ Due /\ gone = Off /\ reason = "none"
  /\ reason' = "timeout" /\ Stopping
  /\ UNCHANGED <<program, member, holders, pipe, quota, readers, waiting, stop, queue, at, grace,
                 open, gone, owed, late>>

\* Mutant: the end of the grace asks again.
GraceIsOver_Again ==
  /\ Due /\ gone = Off /\ reason # "none"
  /\ Signal("TERM") /\ deadline' = grace
  /\ UNCHANGED <<program, member, holders, pipe, quota, readers, waiting, stop, queue, at, grace,
                 reason, open, gone, owed, late, asked>>

GraceIsOver ==
  /\ Due /\ gone = Off /\ reason # "none"
  /\ Signal("KILL") /\ deadline' = Off
  /\ UNCHANGED <<program, member, holders, pipe, quota, readers, waiting, stop, queue, at, grace,
                 reason, open, gone, owed, late, asked>>

-----------------------------------------------------------------------------
\* Who was sent SIGKILL does nothing more.
Dies == "KILL" \in signalled /\ (ProgramExits \/ MemberExits)

\* What does not wait for a tick.
Prompt ==
  \/ at = "supervise" /\ (queue # <<>> \/ deadline = 0)
  \/ waiting /\ program = "zombie"
  \/ "KILL" \in signalled /\ (program = "runs" \/ member)

Tick ==
  /\ at = "supervise" /\ ~Prompt
  /\ deadline' = IF deadline > 0 THEN deadline - 1 ELSE deadline
  /\ gone' = IF gone \in 0..(Bound - 1) THEN gone + 1 ELSE gone
  /\ asked' = IF asked \in 0..(Grace + Drain) THEN asked + 1 ELSE asked
  /\ UNCHANGED <<world, readers, waiting, stop, queue, at, grace, reason, open, owed, late, stray>>

Supervise ==
  \/ Launch \/ TakeStop \/ TakeExited \/ DrainIsOver \/ TimesOut \/ GraceIsOver
  \/ \E p \in Pipe : TakeEof(p)

Next ==
  \/ \E p \in Pipe, who \in Group \cup {"outsider"} : Write(p, who) \/ Close(p, who)
  \/ \E p \in Pipe : ReadChunk(p) \/ Push(p) \/ ReadEnd(p)
  \/ ProgramExits \/ MemberExits \/ StopComes \/ LaunchFails
  \/ TellExit \/ Supervise \/ Tick

Spec == Init /\ [][Next]_vars

\* The supervisor and the thread that waits run, time passes, SIGKILL kills.
\* Nothing is assumed of the readers, the program or who has its pipes.
FairSpec ==
  Spec /\ WF_vars(Supervise) /\ WF_vars(TellExit) /\ WF_vars(Tick) /\ WF_vars(Dies)

-----------------------------------------------------------------------------
(* Properties *)

\* Nothing of the group outlives the call: at its end the program is reaped
\* and who is left in the group was killed, with no signal to an id that was
\* free by then (TakeExited, the two ends of the grace, LaunchFails).
GroupIsGone ==
  /\ at \in {"over", "failed"} => program = "reaped" /\ (member => "KILL" \in signalled)
  /\ ~stray

\* A program that was not stopped loses nothing it wrote, whoever else has its
\* pipes and however its end, the ends of the pipes and the drain are told,
\* but for a reader that is late past the grace or in the middle of a push.
OutputIsKept == at = "over" /\ reason = "none" /\ ~late => owed = {}

\* A program that was asked to stop is over within the grace and the drain,
\* whatever it and its heirs do and whenever a second stop or the timeout
\* comes: it is what the ending of the mcp server counts on (SHUTDOWN_MARGIN).
StoppedInTime == at = "supervise" /\ asked # Off => asked <= Grace + Drain

\* SIGKILL comes to a program that runs only when there is no grace or the
\* whole grace is over (stopping).
GraceIsGiven ==
  [][("KILL" \in signalled' /\ "KILL" \notin signalled /\ program = "runs" /\ at = "supervise")
       => (grace = Off \/ asked = Grace)]_vars

\* A call ends, also one whose program hears no SIGTERM, whose pipes are held
\* for ever by who left the group, and whose readers never run.
CallEnds == <>(at \in {"over", "failed"})
=============================================================================
