--------------------------- MODULE MCNotifyIntake ---------------------------
(***************************************************************************)
(* The two ways into the notify service side by side in one run: a         *)
(* behaviour is one of the event stream or of the process around the       *)
(* engine.  The part that is not of the behaviour stays in one first state. *)
(***************************************************************************)
EXTENDS Naturals, Sequences

CONSTANTS Hook, Rotator, MaxFiles, RotateAt, HookRotateAt  \* EventStream
CONSTANT MaxChanges                                        \* NotifyService

VARIABLES content, path, made, switch, hook, fd, follows, cur, old, graceOver,
          armed, entries, wake, delivered, excused, disturbed, left
VARIABLES at, gate, said, stopped, messages, locked, engine, code, signal, watch,
          dir, armedFile, pending, refused, mode, settings, inForce, log, config,
          plugins, file, inode, changes
VARIABLE part  \* the part the behaviour is of

E == INSTANCE EventStream WITH at <- follows
S == INSTANCE NotifyService WITH armed <- armedFile

ASSUME IntakeAssumption == E!StreamAssumption /\ MaxChanges \in Nat

ofStream == <<content, path, made, switch, hook, fd, follows, cur, old, graceOver,
              armed, entries, wake, delivered, excused, disturbed, left>>
ofService == <<at, gate, said, stopped, messages, locked, engine, code, signal, watch,
               dir, armedFile, pending, refused, mode, settings, inForce, log, config,
               plugins, file, inode, changes>>
vars == <<part, ofStream, ofService>>

Init ==
  /\ part \in {"stream", "service"}
  /\ E!Init /\ S!Init
  /\ part = "stream" => ~config

InStream == part = "stream" /\ UNCHANGED <<part, ofService>>
InService == part = "service" /\ UNCHANGED <<part, ofStream>>

Next == (InStream /\ E!Next) \/ (InService /\ S!Next)

\* The fairness of each part, as its module states it.
FairSpec ==
  /\ Init /\ [][Next]_vars
  /\ WF_vars(InStream /\ E!WatchThread) /\ WF_vars(InStream /\ E!FollowerStep)
  /\ WF_vars(InStream /\ E!GraceElapses)
  /\ WF_vars(InService /\ S!Main) /\ WF_vars(InService /\ S!SignalThread)

-----------------------------------------------------------------------------
\* No line is given to the engine twice or out of nothing (EventStream).
ReadOnce == E!ReadOnce

\* The switch is on only while somebody follows (EventStream).
SwitchIsOfAFollower == E!SwitchIsOfAFollower

\* The log tells how the service went, at every point of its life
\* (NotifyService).
LogIsTrue == S!LogIsTrue

\* A loop that waits runs on what the options file says (NotifyService).
OptionsAreFresh == S!OptionsAreFresh

\* The lock is let go of last on every path (NotifyService).
LockIsReleasedLast == S!LockIsReleasedLast

\* A line that was written is delivered, and a service that caught a signal
\* ends (EventStream, NotifyService).
LinesAndSignalsArrive ==
  (\/ part = "stream" /\ \E h \in Hook : hook[h] = "done"
   \/ part = "service" /\ signal = "gate")
    ~> IF part = "stream" THEN \A h \in Hook : hook[h] = "done" => E!Arrived(h)
       ELSE at = "exited"
=============================================================================
