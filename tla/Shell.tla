------------------------------- MODULE Shell -------------------------------
(***************************************************************************)
(* The two protocols of the shell side over files of the state directory,  *)
(* side by side: a behaviour is one of the session records or of a lock    *)
(* directory.  The part that is not of the behaviour stays in its first    *)
(* state.                                                                  *)
(***************************************************************************)
EXTENDS Naturals, FiniteSets

CONSTANTS Proc, Sid, None, Pane, MayBe, MaySid, ParentOf, Events, Missed  \* AgentRecords
CONSTANTS Locker, Nobody, Ages                                            \* LockDir

VARIABLES rec, live, reused, kind, sid, stage, left, front, hook, mem, abort, past
VARIABLES dir, owner, old, take, takeOld, alive, pc, saw, robbed, crossed, aged
VARIABLE part  \* the part the behaviour is of

R == INSTANCE AgentRecords
L == INSTANCE LockDir WITH Proc <- Locker

ASSUME ShellAssumption == R!RecordsAssumption /\ L!LockAssumption

ofRecords == <<rec, live, reused, kind, sid, stage, left, front, hook, mem, abort, past>>
ofLock == <<dir, owner, old, take, takeOld, alive, pc, saw, robbed, crossed, aged>>
vars == <<part, ofRecords, ofLock>>

Init == part \in {"records", "lock"} /\ R!Init /\ L!Init

InRecords == part = "records" /\ UNCHANGED <<part, ofLock>>
InLock == part = "lock" /\ UNCHANGED <<part, ofRecords>>

Next == (InRecords /\ R!Next) \/ (InLock /\ L!Next)

Spec == Init /\ [][Next]_vars

-----------------------------------------------------------------------------
\* A session's record is where it belongs (AgentRecords).
RecordsAtHome == R!TypeOK /\ R!RecordsAtHome

\* A session that ended leaves no record for an abort to find (AgentRecords).
RecordsEndWithTheirs == R!RecordsEndWithTheirs

\* One process holds the lock directory (LockDir).
OneHolder == L!TypeOK /\ L!OneHolder
=============================================================================
