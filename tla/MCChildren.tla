----------------------------- MODULE MCChildren -----------------------------
(***************************************************************************)
(* The two supervisors of a child process side by side in one run: a       *)
(* behaviour is one of a turn of `session prompt` or of a call of          *)
(* child::run.  The part that is not of the behaviour stays in one first   *)
(* state.                                                                  *)
(***************************************************************************)
EXTENDS Integers, Sequences

CONSTANTS Limit, MaxLines                                \* PromptTurn
CONSTANTS Timeout, ReaderWait, Cap, MaxChunks, MaxHeirs  \* ChildCall
CONSTANTS Grace, Drain                                   \* both

VARIABLES child, code, doomed, holds, heirs, pipe, lines, hand, reading, waiting,
          queue, at, phase, timer, timedOut, isOpen, payload, pending, outcome,
          last, missed, age, since, stray
VARIABLES program, member, holders, signalled, pipes, quota, hands, kept, cut,
          readers, exitWaiting, stop, events, step, grace, deadline, reason, open,
          gone, owed, late, asked, strayed
VARIABLE part  \* the part the behaviour is of

T == INSTANCE PromptTurn
C == INSTANCE ChildCall WITH
       pipe <- pipes, hand <- hands, reading <- readers, waiting <- exitWaiting,
       queue <- events, at <- step, stray <- strayed

ASSUME ChildrenAssumption == T!TurnAssumption /\ C!CallAssumption

ofTurn == <<child, code, doomed, holds, heirs, pipe, lines, hand, reading, waiting,
            queue, at, phase, timer, timedOut, isOpen, payload, pending, outcome,
            last, missed, age, since, stray>>
ofCall == <<program, member, holders, signalled, pipes, quota, hands, kept, cut,
            readers, exitWaiting, stop, events, step, grace, deadline, reason, open,
            gone, owed, late, asked, strayed>>
vars == <<part, ofTurn, ofCall>>

Init ==
  /\ part \in {"turn", "call"}
  /\ T!Init /\ C!Init
  /\ part = "call" => heirs = {} /\ timer["deadline"] = Limit
  /\ part = "turn" => /\ member /\ grace = Grace
                      /\ \A p \in {"out", "err"} : holders[p] = {"program"}

InTurn == part = "turn" /\ UNCHANGED <<part, ofCall>>
InCall == part = "call" /\ UNCHANGED <<part, ofTurn>>

Next == (InTurn /\ T!Next) \/ (InCall /\ C!Next)

\* The fairness of each part, as its module states it.
FairSpec ==
  /\ Init /\ [][Next]_vars
  /\ WF_vars(InTurn /\ T!Loop) /\ WF_vars(InTurn /\ T!ReaderOut)
  /\ WF_vars(InTurn /\ T!ReadEnd("err")) /\ WF_vars(InTurn /\ T!TellExit)
  /\ WF_vars(InTurn /\ T!Tick) /\ WF_vars(InTurn /\ doomed /\ T!ChildExits)
  /\ WF_vars(InCall /\ C!Supervise) /\ WF_vars(InCall /\ C!TellExit)
  /\ WF_vars(InCall /\ C!Tick) /\ WF_vars(InCall /\ C!Dies)

-----------------------------------------------------------------------------
\* A turn succeeds exactly when the last result that was written says so, in
\* whatever order lines, ends and exit were told (PromptTurn).
OutcomeIsOfTheLastResult == T!TypeOK /\ T!OutcomeIsOfTheLastResult

\* A call that stopped nothing has all its program wrote (ChildCall).
OutputIsKept == C!TypeOK /\ C!OutputIsKept

\* Neither supervisor signals an id that was given back, and a call leaves
\* nobody of the group alive (PromptTurn, ChildCall).
SignalsAreOfTheLiving == T!NoSignalAfterReap /\ C!GroupIsGone

\* A child is killed at the end of its limit or its grace and never before;
\* a call that asked its program to stop is over in time (PromptTurn, ChildCall).
GraceIsGiven == T!NoEarlyKill /\ C!GraceIsGiven /\ [](C!StoppedInTime)

\* A turn waits for who can still write to its pipes (PromptTurn).
LingersForHeirs == T!LingersForHeirs

\* A turn with a limit or a result has its outcome, and a call ends, whatever
\* the child, its heirs and the readers do (PromptTurn, ChildCall).
TurnAndCallEnd ==
  (part = "call" \/ T!Ending)
    ~> IF part = "turn" THEN outcome # T!None ELSE step \in {"over", "failed"}
=============================================================================
