----------------------------- MODULE McpServer -----------------------------
(***************************************************************************)
(* The loop of the mcp server (mcp/server.rs) over the runner of programs  *)
(* (mcp/run.rs): one thread reads, every tools/call runs on a thread of    *)
(* its own, and whoever finds that the client is gone ends the server.     *)
(*                                                                         *)
(* Each step is one critical section of the registry or of a Stop, one     *)
(* write of a line, or one step of a program.  Time is in ticks; a thread  *)
(* that can run does so before the next tick, so what the margin of the    *)
(* ending has to cover is what a stopped program takes.                    *)
(***************************************************************************)
EXTENDS Naturals

CONSTANTS
  Ids,       \* the ids a client gives its requests
  Falsy,     \* the ids that are falsy in JavaScript
  NoId,      \* no id
  MaxCalls,  \* bound: tools/call requests
  StopMost,  \* ticks a stopped program has: kill_grace and the drain
  EndWait    \* ticks an ending waits: kill_grace and shutdown_margin

ASSUME McpAssumption ==
  /\ MaxCalls \in Nat /\ Falsy \subseteq Ids /\ NoId \notin Ids
  /\ StopMost \in Nat /\ EndWait \in Nat /\ StopMost < EndWait

VARIABLES
  next,      \* RegistryState::next
  idOf,      \* Entry::id of each serial, kept after the entry is gone
  calls,     \* the serials in RegistryState::calls
  byId,      \* RegistryState::by_id
  cancelled, \* the serials whose Entry::cancelled was set
  closing,   \* RegistryState::closing
  stops,     \* the serials whose Stop is stopped
  told,      \* the serials whose supervisor was told to stop
  ending,    \* Server::ending
  toStop,    \* what stop_all has still to stop
  reader,    \* where the reading thread is
  at,        \* the call it is about
  thread,    \* where the thread of each call is
  ender,     \* where each thread that ends the server is
  wait,      \* ticks wait_empty has left
  age,       \* ticks since the program of a call was told to stop
  client,    \* what the client does with the output
  written,   \* the calls that were answered
  left,      \* the process has left
  closedOn,  \* history: the calls in flight when closing was set
  early      \* history: a wait_empty was over before closing was set

vars == <<next, idOf, calls, byId, cancelled, closing, stops, told, ending,
          toStop, reader, at, thread, ender, wait, age, client, written, left,
          closedOn, early>>

registry == <<next, idOf, calls, byId, cancelled, closing, closedOn>>
tokens == <<stops, told, toStop>>
endings == <<ending, ender, wait, early>>
output == <<client, written>>

Calls == 0..(MaxCalls - 1)
NoCall == MaxCalls

\* The threads that may end the server: those of calls and the two others.
Reader == MaxCalls
Signals == MaxCalls + 1
Enders == Calls \cup {Reader, Signals}

TypeOK ==
  /\ next \in 0..MaxCalls
  /\ idOf \in [Calls -> Ids \cup {NoId}] /\ byId \in [Ids -> Calls \cup {NoCall}]
  /\ calls \subseteq 0..(next - 1) /\ cancelled \subseteq 0..(next - 1)
  /\ stops \subseteq 0..(next - 1) /\ told \subseteq stops
  /\ toStop \subseteq closedOn /\ closedOn \subseteq 0..(next - 1)
  /\ written \subseteq 0..(next - 1)
  /\ closing \in BOOLEAN /\ ending \in BOOLEAN /\ left \in BOOLEAN /\ early \in BOOLEAN
  /\ reader \in {"read", "spawn", "stop", "reply", "end"} /\ at \in Calls \cup {NoCall}
  /\ thread \in [Calls -> {"none", "begun", "launch", "program", "over", "answer",
                           "dropped", "sent", "unsent", "refused", "gone"}]
  /\ ender \in [Enders -> {"no", "asked", "stopAll", "stopping", "wait", "asleep",
                           "awake", "done"}]
  /\ wait \in [Enders -> 0..EndWait] /\ age \in [Calls -> 0..StopMost]
  /\ client \in {"reads", "stalled", "gone"}

Init ==
  /\ next = 0 /\ idOf = [s \in Calls |-> NoId] /\ byId = [id \in Ids |-> NoCall]
  /\ calls = {} /\ cancelled = {} /\ closing = FALSE /\ closedOn = {}
  /\ stops = {} /\ told = {} /\ toStop = {}
  /\ ending = FALSE /\ ender = [e \in Enders |-> "no"]
  /\ wait = [e \in Enders |-> 0] /\ early = FALSE
  /\ reader = "read" /\ at = NoCall /\ thread = [s \in Calls |-> "none"]
  /\ age = [s \in Calls |-> 0]
  /\ client = "reads" /\ written = {} /\ left = FALSE

\* Stop::stop: the watcher of a program that runs is called here.
Stopping(s) ==
  /\ stops' = stops \cup {s}
  /\ told' = told \cup {t \in {s} : thread[t] = "program"}

\* Registry::finish: who waits for the last call is woken.
Woken(rest) ==
  [e \in Enders |-> IF rest = {} /\ ender[e] = "asleep" THEN "awake" ELSE ender[e]]

Removed(s) == calls' = calls \ {s} /\ ender' = Woken(calls \ {s})

-----------------------------------------------------------------------------
(* The reading thread *)

\* Mutant: a call that begins while the server closes is not stopped.
Begin_Open(id) ==
  /\ reader = "read" /\ next \in Calls
  /\ calls' = calls \cup {next} /\ byId' = [byId EXCEPT ![id] = next]
  /\ idOf' = [idOf EXCEPT ![next] = id] /\ next' = next + 1
  /\ at' = next /\ reader' = "spawn"
  /\ UNCHANGED <<cancelled, closing, closedOn, tokens, endings, thread, age, output, left>>

Begin(id) ==
  /\ reader = "read" /\ next \in Calls
  /\ calls' = calls \cup {next} /\ byId' = [byId EXCEPT ![id] = next]
  /\ idOf' = [idOf EXCEPT ![next] = id] /\ next' = next + 1
  /\ stops' = IF closing THEN stops \cup {next} ELSE stops
  /\ at' = next /\ reader' = "spawn"
  /\ UNCHANGED <<cancelled, closing, closedOn, told, toStop, endings, thread, age, output, left>>

Spawned ==
  /\ reader = "spawn"
  /\ thread' = [thread EXCEPT ![at] = "begun"]
  /\ reader' = "read" /\ at' = NoCall
  /\ UNCHANGED <<registry, tokens, endings, age, output, left>>

\* The system refuses the thread: the call is over and the reading thread says so.
SpawnFails ==
  /\ reader = "spawn"
  /\ Removed(at)
  /\ thread' = [thread EXCEPT ![at] = "refused"]
  /\ reader' = "reply"
  /\ UNCHANGED <<next, idOf, byId, cancelled, closing, closedOn, tokens, ending, wait,
                 early, at, age, output, left>>

\* A request that is answered at once: initialize, ping, tools/list, a refusal.
ReadQuick ==
  /\ reader = "read"
  /\ reader' = "reply"
  /\ UNCHANGED <<registry, tokens, endings, at, thread, age, output, left>>

\* A line nobody reads ends the loop; one nobody takes yet holds it.
Reply ==
  /\ reader = "reply" /\ client # "stalled"
  /\ IF client = "reads"
       THEN /\ reader' = "read"
            /\ written' = written \cup ({at} \ {NoCall})
            /\ UNCHANGED ender
       ELSE /\ reader' = "end" /\ ender' = [ender EXCEPT ![Reader] = "asked"]
            /\ UNCHANGED written
  /\ at' = NoCall
  /\ UNCHANGED <<registry, tokens, ending, wait, early, thread, age, client, left>>

\* notifications/cancelled; of an id that names no call, nothing comes.
Cancel(id) ==
  /\ reader = "read" /\ id \notin Falsy /\ byId[id] \in calls
  /\ cancelled' = cancelled \cup {byId[id]}
  /\ at' = byId[id] /\ reader' = "stop"
  /\ UNCHANGED <<next, idOf, calls, byId, closing, closedOn, tokens, endings, thread, age, output, left>>

\* The stop itself is outside the lock.
CancelStops ==
  /\ reader = "stop"
  /\ Stopping(at)
  /\ reader' = "read" /\ at' = NoCall
  /\ UNCHANGED <<registry, toStop, endings, thread, age, output, left>>

\* The input ends, cannot be read, or has a line that is too long.
InputEnds ==
  /\ reader = "read"
  /\ reader' = "end" /\ ender' = [ender EXCEPT ![Reader] = "asked"]
  /\ UNCHANGED <<registry, tokens, ending, wait, early, at, thread, age, output, left>>

-----------------------------------------------------------------------------
(* The thread of a call *)

CallMoves(s, from, to) ==
  /\ thread[s] = from
  /\ thread' = [thread EXCEPT ![s] = to]

\* A tool that is not there, arguments that do not fit, no tmux to open a window in.
Refuse(s) ==
  /\ CallMoves(s, "begun", "over")
  /\ UNCHANGED <<registry, tokens, endings, reader, at, age, output, left>>

\* A call that was stopped before its program started has none.
NotStarted(s) ==
  /\ s \in stops
  /\ CallMoves(s, "begun", "over")
  /\ UNCHANGED <<registry, tokens, endings, reader, at, age, output, left>>

Proceed(s) ==
  /\ s \notin stops
  /\ CallMoves(s, "begun", "launch")
  /\ UNCHANGED <<registry, tokens, endings, reader, at, age, output, left>>

LaunchFails(s) ==
  /\ CallMoves(s, "launch", "over")
  /\ UNCHANGED <<registry, tokens, endings, reader, at, age, output, left>>

\* The program runs and its supervisor watches the stop, which may have come.
Launch(s) ==
  /\ CallMoves(s, "launch", "program")
  /\ told' = told \cup {t \in {s} : t \in stops}
  /\ UNCHANGED <<registry, stops, toStop, endings, reader, at, age, output, left>>

\* The program is over, by itself or by the signals of its supervisor.
ProgramEnds(s) ==
  /\ CallMoves(s, "program", "over")
  /\ age' = [age EXCEPT ![s] = 0]
  /\ UNCHANGED <<registry, tokens, endings, reader, at, output, left>>

\* Mutant: a call that is to be answered keeps its id until then.
Settle_KeepsId(s) ==
  /\ CallMoves(s, "over", IF s \in cancelled THEN "dropped" ELSE "answer")
  /\ UNCHANGED <<registry, tokens, endings, reader, at, age, output, left>>

\* Registry::settle: the flag is read and the id released under one lock.
Settle(s) ==
  /\ CallMoves(s, "over", IF s \in cancelled THEN "dropped" ELSE "answer")
  /\ byId' = [id \in Ids |-> IF byId[id] = s THEN NoCall ELSE byId[id]]
  /\ UNCHANGED <<next, idOf, calls, cancelled, closing, closedOn, tokens, endings,
                 reader, at, age, output, left>>

Send(s) ==
  /\ client # "stalled"
  /\ CallMoves(s, "answer", IF client = "reads" THEN "sent" ELSE "unsent")
  /\ written' = IF client = "reads" THEN written \cup {s} ELSE written
  /\ UNCHANGED <<registry, tokens, endings, reader, at, age, client, left>>

\* The call leaves the registry; one whose answer nobody took ends the server next.
Finish(s) ==
  /\ thread[s] \in {"dropped", "sent", "unsent"}
  /\ calls' = calls \ {s}
  /\ ender' = IF thread[s] = "unsent"
                THEN [Woken(calls \ {s}) EXCEPT ![s] = "asked"]
                ELSE Woken(calls \ {s})
  /\ thread' = [thread EXCEPT ![s] = "gone"]
  /\ UNCHANGED <<next, idOf, byId, cancelled, closing, closedOn, tokens, ending, wait,
                 early, reader, at, age, output, left>>

-----------------------------------------------------------------------------
(* An ending: of the reading thread, of a call, or of a signal *)

EnderMoves(e, from, to) ==
  /\ ender[e] = from
  /\ ender' = [ender EXCEPT ![e] = to]

SignalComes ==
  /\ EnderMoves(Signals, "no", "asked")
  /\ UNCHANGED <<registry, tokens, ending, wait, early, reader, at, thread, age, output, left>>

\* Only the first that ends the server stops the calls.
End(e) ==
  /\ EnderMoves(e, "asked", IF ending THEN "wait" ELSE "stopAll")
  /\ ending' = TRUE
  /\ UNCHANGED <<registry, tokens, wait, early, reader, at, thread, age, output, left>>

\* Registry::stop_all: under the lock the flag is set and the stops are taken.
StopAll(e) ==
  /\ EnderMoves(e, "stopAll", "stopping")
  /\ closing' = TRUE /\ toStop' = calls /\ closedOn' = calls
  /\ UNCHANGED <<next, idOf, calls, byId, cancelled, stops, told, ending, wait, early,
                 reader, at, thread, age, output, left>>

StopOne(e) ==
  /\ ender[e] = "stopping"
  /\ \E s \in toStop : Stopping(s) /\ toStop' = toStop \ {s}
  /\ UNCHANGED <<registry, endings, reader, at, thread, age, output, left>>

\* Registry::wait_empty looks at the calls, at first and when it is woken.
WaitEmpty(e) ==
  /\ ender[e] \in {"wait", "awake"} \/ (ender[e] = "stopping" /\ toStop = {})
  /\ ender' = [ender EXCEPT ![e] = IF calls = {} THEN "done" ELSE "asleep"]
  /\ wait' = IF ender[e] # "awake" THEN [wait EXCEPT ![e] = EndWait] ELSE wait
  /\ early' = (early \/ (calls = {} /\ ~closing))
  /\ UNCHANGED <<registry, tokens, ending, reader, at, thread, age, output, left>>

\* Mutant: the wait has no end but the last call's.
WaitEnds_Never(e) == FALSE

WaitEnds(e) ==
  /\ wait[e] = 0
  /\ EnderMoves(e, "asleep", "done")
  /\ UNCHANGED <<registry, tokens, ending, wait, early, reader, at, thread, age, output, left>>

\* The ending is over, and its thread leaves the process.
Leave(e) ==
  /\ ender[e] = "done"
  /\ left' = TRUE
  /\ UNCHANGED <<registry, tokens, endings, reader, at, thread, age, output>>

-----------------------------------------------------------------------------
(* The client and the time *)

\* The client stops reading, or closes the pipe.
ClientChanges(how) ==
  /\ \/ client = "reads"
     \/ client = "stalled" /\ how = "gone"
  /\ client' = how
  /\ UNCHANGED <<registry, tokens, endings, reader, at, thread, age, written, left>>

\* A thread or a deadline has a step to take that waits for nothing.
Ready ==
  \/ reader \in {"spawn", "stop"}
  \/ reader = "reply" /\ client # "stalled"
  \/ \E s \in Calls :
       \/ thread[s] \in {"begun", "launch", "over", "dropped", "sent", "unsent"}
       \/ thread[s] = "answer" /\ client # "stalled"
       \/ thread[s] = "program" /\ s \in told /\ age[s] = StopMost
  \/ \E e \in Enders :
       \/ ender[e] \in {"asked", "stopAll", "stopping", "wait", "awake", "done"}
       \/ ender[e] = "asleep" /\ wait[e] = 0

Told == {s \in told : thread[s] = "program"}
Asleep == {e \in Enders : ender[e] = "asleep"}

Tick ==
  /\ ~Ready /\ (Told # {} \/ Asleep # {})
  /\ age' = [s \in Calls |-> IF s \in Told THEN age[s] + 1 ELSE age[s]]
  /\ wait' = [e \in Enders |-> IF e \in Asleep THEN wait[e] - 1 ELSE wait[e]]
  /\ UNCHANGED <<registry, tokens, ending, ender, early, reader, at, thread, output, left>>

-----------------------------------------------------------------------------
ReaderStep == Spawned \/ SpawnFails \/ Reply \/ CancelStops

CallStep(s) ==
  \/ Refuse(s) \/ NotStarted(s) \/ Proceed(s) \/ LaunchFails(s) \/ Launch(s)
  \/ Settle(s) \/ Send(s) \/ Finish(s)

EnderStep(e) ==
  End(e) \/ StopAll(e) \/ StopOne(e) \/ WaitEmpty(e) \/ WaitEnds(e) \/ Leave(e)

Next ==
  /\ ~left
  /\ \/ ReaderStep \/ ReadQuick \/ InputEnds
     \/ \E id \in Ids : Begin(id) \/ Cancel(id)
     \/ \E s \in Calls : CallStep(s) \/ ProgramEnds(s)
     \/ \E e \in Enders : EnderStep(e)
     \/ SignalComes \/ Tick
     \/ \E how \in {"stalled", "gone"} : ClientChanges(how)

Spec == Init /\ [][Next]_vars

\* Threads run, time passes, and a supervisor that was told ends its program.
\* The client, the signals and a program nobody stopped owe nothing.
FairSpec ==
  /\ Spec
  /\ WF_vars(~left /\ ReaderStep) /\ WF_vars(~left /\ Tick)
  /\ \A s \in Calls :
       WF_vars(~left /\ CallStep(s)) /\ WF_vars(~left /\ s \in told /\ ProgramEnds(s))
  /\ \A e \in Enders : WF_vars(~left /\ EnderStep(e))

-----------------------------------------------------------------------------
(* Properties *)

\* Nothing a call starts outlives the process: when it leaves no program runs
\* and none is about to, whoever ended the server, a call that began in the
\* middle of the ending included (Registry, end).  The exception is a second
\* ending that found no call before the first had set closing.
NothingOutlives ==
  left /\ ~early => \A s \in Calls : thread[s] \notin {"launch", "program"}

\* Each call that was in flight when the server began to close is answered
\* before the process leaves, if its client still reads and did not cancel it
\* (settle, finish, wait_empty).
AnsweredBeforeLeaving ==
  left /\ ~early /\ client = "reads" =>
    \A s \in closedOn : s \in written \cup cancelled \/ thread[s] = "refused"

\* What an ending leaves: no program, and no answer unsaid.
LeavesNothingOpen == NothingOutlives /\ AnsweredBeforeLeaving

\* An ending is over, whatever the client and the other endings do: also with
\* an answer nobody takes (end, wait_empty).
EndingLeaves == (\E e \in Enders : ender[e] # "no") ~> left

-----------------------------------------------------------------------------
(* What the client may count on *)

Fate(s) ==
  IF s \in written THEN "answered"
  ELSE IF s \in cancelled THEN "silent"
  ELSE IF s >= next THEN "none"
  ELSE IF thread[s] \in {"answer", "unsent", "refused", "gone"} THEN "settled"
  ELSE "open"

fate == [s \in Calls |-> Fate(s)]

Contract == INSTANCE RequestContract WITH over <- left

\* A request has one fate: it is answered once, or cancelled in time and never
\* answered; and a cancellation is of the last request of its id.
KeepsContract == Contract!Spec
=============================================================================
