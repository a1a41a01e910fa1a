------------------------------ MODULE LockDir ------------------------------
(***************************************************************************)
(* The lock directories of the shell side: lock_dir, lock_dead and         *)
(* unlock_dir of lib/tagents/core.sh, which migrate, select and resurrect  *)
(* take.                                                                   *)
(*                                                                         *)
(* mkdir, each read of the owner, each kill -0, each stat of an age, each  *)
(* rmdir and the two removals of an rm -rf are steps of their own.  Each   *)
(* process takes the lock once and exits.  Pids are not used again.        *)
(***************************************************************************)
EXTENDS Naturals

CONSTANTS
  Proc,    \* the processes
  Nobody,  \* none of them
  Ages     \* a lock may get older than <stale> with its holder at work

LockAssumption == Nobody \notin Proc /\ Ages \in BOOLEAN

VARIABLES
  dir,     \* the lock directory: who made it
  owner,   \* its file owner: the pid in it
  old,     \* it is older than <stale>
  take,    \* <dir>.take: who made it
  takeOld, \* it is older than 5 seconds
  alive,   \* the processes that run
  pc,      \* where each is
  saw,     \* the owner it has read
  robbed,  \* history: kill -0 told of an owner whose lock was gone by then
  crossed, \* history: a .take went that was made after the old one was judged
  aged     \* history: a lock or a .take got old with its maker alive

vars == <<dir, owner, old, take, takeOld, alive, pc, saw, robbed, crossed, aged>>

TypeOK ==
  /\ dir \in Proc \cup {Nobody} /\ owner \in Proc \cup {Nobody} /\ take \in Proc \cup {Nobody}
  /\ old \in BOOLEAN /\ takeOld \in BOOLEAN
  /\ robbed \in BOOLEAN /\ crossed \in BOOLEAN /\ aged \in BOOLEAN
  /\ alive \subseteq Proc
  /\ pc \in [Proc -> {"try", "own", "held", "free", "rmdir", "look", "judge", "age", "take", "take age", "clear",
                      "look again", "judge again", "age again", "remove", "remove dir", "untake", "rest", "over"}]
  /\ saw \in [Proc -> Proc \cup {Nobody}]
  /\ dir = Nobody => owner = Nobody /\ ~old

Init ==
  /\ dir = Nobody /\ owner = Nobody /\ old = FALSE /\ take = Nobody /\ takeOld = FALSE
  /\ alive = Proc /\ pc = [p \in Proc |-> "try"] /\ saw = [p \in Proc |-> Nobody]
  /\ robbed = FALSE /\ crossed = FALSE /\ aged = FALSE

Lock == <<dir, owner, old>>
Taking == <<take, takeOld>>
History == <<robbed, crossed, aged>>

At(p, place) == p \in alive /\ pc[p] = place
Go(p, place) == pc' = [pc EXCEPT ![p] = place]
NoDir == dir' = Nobody /\ owner' = Nobody /\ old' = FALSE

-----------------------------------------------------------------------------
(* lock_dir *)

MakeDir(p) ==
  /\ At(p, "try") /\ dir = Nobody
  /\ dir' = p /\ owner' = Nobody /\ old' = FALSE
  /\ Go(p, "own")
  /\ UNCHANGED <<Taking, alive, saw, History>>

\* The pid goes into the directory at the path, whose ever it is by then.
WriteOwner(p) ==
  /\ At(p, "own")
  /\ owner' = IF dir = Nobody THEN Nobody ELSE p
  /\ Go(p, "held")
  /\ UNCHANGED <<dir, old, Taking, alive, saw, History>>

MakeFails(p) ==
  /\ At(p, "try") /\ dir # Nobody
  /\ Go(p, "look")
  /\ UNCHANGED <<Lock, Taking, alive, saw, History>>

\* lock_dead: the owner is read ...
Look(p, from, to) ==
  /\ At(p, from)
  /\ saw' = [saw EXCEPT ![p] = owner]
  /\ Go(p, to)
  /\ UNCHANGED <<Lock, Taking, alive, History>>

\* ... and asked for with kill -0 ...
Gone(p) == saw[p] # Nobody /\ saw[p] \notin alive

Judge(p) ==
  /\ At(p, "judge")
  /\ Go(p, IF Gone(p) THEN "take" ELSE "age")
  /\ UNCHANGED <<Lock, Taking, alive, saw, History>>

JudgeAgain(p) ==
  /\ At(p, "judge again")
  /\ Go(p, IF Gone(p) THEN "remove" ELSE "age again")
  /\ robbed' = (robbed \/ (Gone(p) /\ saw[p] # dir))
  /\ UNCHANGED <<Lock, Taking, alive, saw, crossed, aged>>

\* ... and one that runs, or that is not written yet, keeps a lock that is not
\* too old; one that is not there is as young as now.
Age(p, from, dead, held) ==
  /\ At(p, from)
  /\ Go(p, IF old THEN dead ELSE held)
  /\ UNCHANGED <<Lock, Taking, alive, saw, History>>

\* Mutant: the taker does not look again.
MakeTake_NoLook(p) ==
  /\ At(p, "take") /\ take = Nobody
  /\ take' = p /\ takeOld' = FALSE
  /\ Go(p, "remove")
  /\ UNCHANGED <<Lock, alive, saw, History>>

MakeTake(p) ==
  /\ At(p, "take") /\ take = Nobody
  /\ take' = p /\ takeOld' = FALSE
  /\ Go(p, "look again")
  /\ UNCHANGED <<Lock, alive, saw, History>>

\* Another one takes over: the age of its .take is asked ...
TakeFails(p) ==
  /\ At(p, "take") /\ take # Nobody
  /\ Go(p, "take age")
  /\ UNCHANGED <<Lock, Taking, alive, saw, History>>

TakeAge(p) ==
  /\ At(p, "take age")
  /\ Go(p, IF takeOld THEN "clear" ELSE "rest")
  /\ UNCHANGED <<Lock, Taking, alive, saw, History>>

\* ... and the .take at the path is cleared, whose ever it is by then.
ClearTake(p) ==
  /\ At(p, "clear")
  /\ take' = Nobody /\ takeOld' = FALSE
  /\ crossed' = (crossed \/ (take # Nobody /\ ~takeOld))
  /\ Go(p, "rest")
  /\ UNCHANGED <<Lock, alive, saw, robbed, aged>>

\* rm -rf: what is in the directory goes, and then the directory, if nothing
\* came into it.
RemoveOwner(p, from, to) ==
  /\ At(p, from)
  /\ owner' = Nobody
  /\ Go(p, to)
  /\ UNCHANGED <<dir, old, Taking, alive, saw, History>>

RemoveDir(p, from, to) ==
  /\ At(p, from)
  /\ IF owner = Nobody THEN NoDir ELSE UNCHANGED Lock
  /\ Go(p, to)
  /\ UNCHANGED <<Taking, alive, saw, History>>

Untake(p) ==
  /\ At(p, "untake")
  /\ take' = Nobody /\ takeOld' = FALSE
  /\ Go(p, "rest")
  /\ UNCHANGED <<Lock, alive, saw, History>>

\* Another try, or none is left: the caller goes on without the lock.
Rest(p) ==
  /\ At(p, "rest")
  /\ \E to \in {"try", "over"} : Go(p, to)
  /\ UNCHANGED <<Lock, Taking, alive, saw, History>>

Unlock(p) ==
  /\ At(p, "held")
  /\ Go(p, "free")
  /\ UNCHANGED <<Lock, Taking, alive, saw, History>>

-----------------------------------------------------------------------------
(* What happens to the processes, and time *)

\* A process is killed, or done.
Leaves(p) ==
  /\ p \in alive
  /\ alive' = alive \ {p}
  /\ UNCHANGED <<Lock, Taking, pc, saw, History>>

LockAges ==
  /\ dir # Nobody /\ ~old /\ (Ages \/ dir \notin alive)
  /\ old' = TRUE
  /\ aged' = (aged \/ dir \in alive)
  /\ UNCHANGED <<dir, owner, Taking, alive, pc, saw, robbed, crossed>>

TakeAges ==
  /\ take # Nobody /\ ~takeOld /\ (Ages \/ take \notin alive)
  /\ takeOld' = TRUE
  /\ aged' = (aged \/ take \in alive)
  /\ UNCHANGED <<Lock, take, alive, pc, saw, robbed, crossed>>

-----------------------------------------------------------------------------
LockStep(p) ==
  \/ MakeDir(p) \/ WriteOwner(p) \/ MakeFails(p)
  \/ Look(p, "look", "judge") \/ Judge(p) \/ Age(p, "age", "take", "rest")
  \/ MakeTake(p) \/ TakeFails(p) \/ TakeAge(p) \/ ClearTake(p)
  \/ Look(p, "look again", "judge again") \/ JudgeAgain(p) \/ Age(p, "age again", "remove", "untake")
  \/ RemoveOwner(p, "remove", "remove dir") \/ RemoveDir(p, "remove dir", "untake")
  \/ Untake(p) \/ Rest(p)

UnlockStep(p) ==
  Unlock(p) \/ RemoveOwner(p, "free", "rmdir") \/ RemoveDir(p, "rmdir", "over")

\* What comes after is of no property: the model ends there.
Next ==
  /\ ~aged /\ ~robbed /\ ~crossed
  /\ \/ \E p \in Proc : LockStep(p) \/ UnlockStep(p) \/ Leaves(p)
     \/ LockAges \/ TakeAges

Spec == Init /\ [][Next]_vars

-----------------------------------------------------------------------------
(* Properties *)

Holders == {p \in alive : pc[p] \in {"own", "held"}}

\* One process holds the lock, however many saw its holder dead and whoever
\* was killed in a takeover (lock_dir, with .take and the second look), unless
\* a lock or a .take outlived its limit with its maker at work, or the owner
\* that the second look read let the lock go and was gone before kill -0 asked
\* for it, or a .take that was too old was cleared and made anew between the
\* stat of another waiter and its rmdir.
OneHolder == ~aged /\ ~robbed /\ ~crossed => \A p, q \in Holders : p = q
=============================================================================
