----------------------------- MODULE NotifyLock -----------------------------
(***************************************************************************)
(* The lock file of the notify service: `notify.lock` of the state         *)
(* directory, taken with `take_lock` and given up with `release_lock`.     *)
(*                                                                         *)
(* A process is a pid and the incarnation of it that lives now: pids are   *)
(* reused, so the lock names a pid AND its start time.  Every system call  *)
(* on the shared file is a step of its own: the sweep of the temp files,   *)
(* the temp file, the link, the stat and the read of read_lock, the signal *)
(* 0 and the ps of holds, the second read and the removal of a takeover,   *)
(* the read and the removal of a release.  A process may be killed between *)
(* any two of them, and the machine may be rebooted.                       *)
(***************************************************************************)
EXTENDS Naturals

CONSTANTS
  Pid,        \* the pids of the machine
  NoPid,      \* what a lock that names no pid is parsed to
  NoFile,     \* there is no lock file
  LockTries,  \* LOCK_TRIES: the passes of the loop of take_lock
  MaxBorn,    \* bound: incarnations of one pid
  MaxBoot     \* bound: reboots of the machine

\* The start time of a process is its incarnation number, from 1 on.
Unknown == 0  \* a start time that was not recorded, or that ps cannot tell

\* Who a lock names (LockContent): two locks are the same text when they
\* agree on pid and started; boot is the boot the file was written in, which
\* is all `holds` makes of its mtime.
Lock == [pid : Pid \cup {NoPid}, started : Nat, boot : Nat]

ASSUME LockAssumption ==
  /\ NoPid \notin Pid
  /\ NoFile \notin Lock
  /\ LockTries \in Nat \ {0}
  /\ MaxBorn \in Nat \ {0}
  /\ MaxBoot \in Nat

VARIABLES
  file,     \* the lock file
  temps,    \* temp files of create_lock: whose they are, and older than a minute
  boot,     \* the boot the machine is in
  pc,       \* where each pid is
  born,     \* the incarnation of each pid, the last one when it is absent
  me,       \* the start time a starter knows of itself (LockDeps::me)
  seen,     \* the lock file as a starter last read it
  tries,    \* passes of the loop of take_lock so far
  owners,   \* history: the processes whose link made the lock, until they end
  robbed,   \* history: the owners whose file was removed by somebody else
  faulty    \* history: a kill, a reboot, a start time ps could not tell, a release whose
            \* unlink failed, or a file left before

vars == <<file, temps, boot, pc, born, me, seen, tries, owners, robbed, faulty>>

Temp == [pid : Pid, old : BOOLEAN]

PC == {"absent", "stranger", "sweep", "temp", "link", "unlinkWon",
       "unlinkLost", "stat", "read", "alive", "start", "reread", "remove",
       "running", "relRead", "relRemove"}

TypeOK ==
  /\ file \in Lock \cup {NoFile}
  /\ temps \subseteq Temp
  /\ boot \in Nat
  /\ pc \in [Pid -> PC]
  /\ born \in [Pid -> Nat]
  /\ me \in [Pid -> Nat]
  /\ seen \in [Pid -> Lock]
  /\ tries \in [Pid -> Nat]
  /\ owners \subseteq Pid
  /\ robbed \subseteq owners
  /\ faulty \in BOOLEAN

Blank == [pid |-> NoPid, started |-> Unknown, boot |-> 0]

(***************************************************************************)
(* What may be on disk before the first process: nothing, a file that      *)
(* names no pid, or the lock of an earlier process in either format,       *)
(* written before the last boot or after it.                               *)
(***************************************************************************)
Leftover == [pid : Pid \cup {NoPid}, started : {Unknown, 1}, boot : {0, 1}]

Init ==
  /\ file \in Leftover \cup {NoFile}
  /\ temps = {}
  /\ boot = 1
  /\ pc = [p \in Pid |-> "absent"]
  /\ born = [p \in Pid |-> 1]
  /\ me = [p \in Pid |-> Unknown]
  /\ seen = [p \in Pid |-> Blank]
  /\ tries = [p \in Pid |-> 0]
  /\ owners = {}
  /\ robbed = {}
  /\ faulty = (file # NoFile)

-----------------------------------------------------------------------------
Alive(p) == pc[p] # "absent"

SameText(a, b) == a.pid = b.pid /\ a.started = b.started

\* The process that took the file over from its owner, if it is not the owner.
Victims(p) == {q \in owners \ {p} : file # NoFile /\ file.pid = q /\ file.started = me[q]}

Go(p, to) == pc' = [pc EXCEPT ![p] = to]

\* `continue` of the loop of take_lock, and its end: the failed start, whose
\* exit releases the lock as every exit does.
Again(p) == Go(p, IF tries[p] < LockTries THEN "temp" ELSE "relRead")

Gone(p) ==
  /\ Go(p, "absent")
  /\ owners' = owners \ {p}

-----------------------------------------------------------------------------
\* A process starts on a free pid; ps may be unable to say when.
Start(p) ==
  /\ pc[p] = "absent" /\ born[p] < MaxBorn
  /\ born' = [born EXCEPT ![p] = @ + 1]
  /\ \E known \in BOOLEAN :
       /\ me' = [me EXCEPT ![p] = IF known THEN born[p] + 1 ELSE Unknown]
       /\ faulty' = (faulty \/ ~known)
  /\ tries' = [tries EXCEPT ![p] = 0]
  /\ Go(p, "sweep")
  /\ UNCHANGED <<file, temps, boot, seen, owners, robbed>>

\* The pid is reused by a program that is no notify service.
StrangerStarts(p) ==
  /\ pc[p] = "absent" /\ born[p] < MaxBorn
  /\ born' = [born EXCEPT ![p] = @ + 1]
  /\ Go(p, "stranger")
  /\ UNCHANGED <<file, temps, boot, me, seen, tries, owners, robbed, faulty>>

StrangerEnds(p) ==
  /\ pc[p] = "stranger"
  /\ Go(p, "absent")
  /\ UNCHANGED <<file, temps, boot, born, me, seen, tries, owners, robbed, faulty>>

\* Mutant: a sweep that takes every temp file for a crash.
SweepTempLocks_TakesAll(p) ==
  /\ pc[p] = "sweep"
  /\ temps' = {}
  /\ Go(p, "temp")
  /\ UNCHANGED <<file, boot, born, me, seen, tries, owners, robbed, faulty>>

\* sweep_temp_locks: the temp files of processes that are gone, and the old ones.
SweepTempLocks(p) ==
  /\ pc[p] = "sweep"
  /\ temps' = {t \in temps : Alive(t.pid) /\ ~t.old}
  /\ Go(p, "temp")
  /\ UNCHANGED <<file, boot, born, me, seen, tries, owners, robbed, faulty>>

\* A minute goes by over a temp file: its owner was suspended.
TempAges(t) ==
  /\ t \in temps /\ ~t.old
  /\ temps' = (temps \ {t}) \cup {[t EXCEPT !.old = TRUE]}
  /\ UNCHANGED <<file, boot, pc, born, me, seen, tries, owners, robbed, faulty>>

\* create_lock: the text goes into a temp file, which costs the pass ...
WriteTemp(p) ==
  /\ pc[p] = "temp"
  /\ temps' = temps \cup {[pid |-> p, old |-> FALSE]}
  /\ tries' = [tries EXCEPT ![p] = @ + 1]
  /\ Go(p, "link")
  /\ UNCHANGED <<file, boot, born, me, seen, owners, robbed, faulty>>

\* ... or it cannot be written, which ends the start.
WriteTempFails(p) ==
  /\ pc[p] = "temp"
  /\ tries' = [tries EXCEPT ![p] = @ + 1]
  /\ Go(p, "relRead")
  /\ UNCHANGED <<file, temps, boot, born, me, seen, owners, robbed, faulty>>

HasTemp(p) == \E t \in temps : t.pid = p

\* Mutant: the lock is made with a rename, which replaces what is there.
LinkTakes_Renames(p) ==
  /\ pc[p] = "link" /\ HasTemp(p)
  /\ file' = [pid |-> p, started |-> me[p], boot |-> boot]
  /\ owners' = owners \cup {p}
  /\ Go(p, "unlinkWon")
  /\ UNCHANGED <<temps, boot, born, me, seen, tries, robbed, faulty>>

\* hard_link: made whole, or refused because something is there.
LinkTakes(p) ==
  /\ pc[p] = "link" /\ HasTemp(p) /\ file = NoFile
  /\ file' = [pid |-> p, started |-> me[p], boot |-> boot]
  /\ owners' = owners \cup {p}
  /\ Go(p, "unlinkWon")
  /\ UNCHANGED <<temps, boot, born, me, seen, tries, robbed, faulty>>

LinkRefused(p) ==
  /\ pc[p] = "link" /\ HasTemp(p) /\ file # NoFile
  /\ Go(p, "unlinkLost")
  /\ UNCHANGED <<file, temps, boot, born, me, seen, tries, owners, robbed, faulty>>

\* The temp file was swept by another starter: an error, which ends the start.
LinkFails(p) ==
  /\ pc[p] = "link" /\ ~HasTemp(p)
  /\ Go(p, "relRead")
  /\ UNCHANGED <<file, temps, boot, born, me, seen, tries, owners, robbed, faulty>>

UnlinkTemp(p) ==
  /\ pc[p] \in {"unlinkWon", "unlinkLost"}
  /\ temps' = {t \in temps : t.pid # p}
  /\ Go(p, IF pc[p] = "unlinkWon" THEN "running" ELSE "stat")
  /\ UNCHANGED <<file, boot, born, me, seen, tries, owners, robbed, faulty>>

-----------------------------------------------------------------------------
\* read_lock looks at the mtime first ...
StatLock(p) ==
  /\ pc[p] = "stat"
  /\ IF file = NoFile
       THEN Again(p) /\ UNCHANGED seen
       ELSE Go(p, "read") /\ seen' = [seen EXCEPT ![p].boot = file.boot]
  /\ UNCHANGED <<file, temps, boot, born, me, tries, owners, robbed, faulty>>

\* ... and reads the text after it.
ReadLock(p) ==
  /\ pc[p] = "read"
  /\ IF file = NoFile
       THEN Again(p) /\ UNCHANGED seen
       ELSE /\ Go(p, "alive")
            /\ seen' = [seen EXCEPT ![p].pid = file.pid, ![p].started = file.started]
  /\ UNCHANGED <<file, temps, boot, born, me, tries, owners, robbed, faulty>>

\* holds, first half: no pid, our own pid, and a pid no process has hold nothing.
JudgeAlive(p) ==
  /\ pc[p] = "alive"
  /\ Go(p, IF seen[p].pid \in Pid \ {p} /\ Alive(seen[p].pid) THEN "start" ELSE "reread")
  /\ UNCHANGED <<file, temps, boot, born, me, seen, tries, owners, robbed, faulty>>

\* What ps may answer: nothing at all, or the start time of a process that is there.
PsAnswers(q) == {Unknown} \cup (IF Alive(q) THEN {born[q]} ELSE {})

Holds(lock, answer) ==
  IF lock.started # Unknown /\ answer # Unknown
    THEN lock.started = answer
    ELSE lock.boot >= boot

\* holds, second half.  A lock that is held ends the starter with exit 0,
\* which releases nothing.
JudgeStart(p) ==
  /\ pc[p] = "start"
  /\ \E answer \in PsAnswers(seen[p].pid) :
       Go(p, IF Holds(seen[p], answer) THEN "absent" ELSE "reread")
  /\ UNCHANGED <<file, temps, boot, born, me, seen, tries, owners, robbed, faulty>>

\* The stale file is removed only while it still says what was judged.
Reread(p) ==
  /\ pc[p] = "reread"
  /\ IF file # NoFile /\ SameText(file, seen[p]) THEN Go(p, "remove") ELSE Again(p)
  /\ UNCHANGED <<file, temps, boot, born, me, seen, tries, owners, robbed, faulty>>

RemoveStale(p) ==
  /\ pc[p] = "remove"
  /\ file' = NoFile
  /\ robbed' = robbed \cup Victims(p)
  /\ Again(p)
  /\ UNCHANGED <<temps, boot, born, me, seen, tries, owners, faulty>>

\* The unlink fails: the file stays, and so fails the start.
RemoveStaleFails(p) ==
  /\ pc[p] = "remove"
  /\ Go(p, "relRead")
  /\ UNCHANGED <<file, temps, boot, born, me, seen, tries, owners, robbed, faulty>>

-----------------------------------------------------------------------------
\* A service that has the lock stops: a signal, a dead watch, nothing to post
\* with, a start that failed after the lock.
Stop(p) ==
  /\ pc[p] = "running"
  /\ Go(p, "relRead")
  /\ UNCHANGED <<file, temps, boot, born, me, seen, tries, owners, robbed, faulty>>

\* release_lock: the file is this process's only while it names its pid.
ReleaseRead(p) ==
  /\ pc[p] = "relRead"
  /\ IF file # NoFile /\ file.pid = p
       THEN Go(p, "relRemove") /\ UNCHANGED <<owners, robbed>>
       ELSE Gone(p) /\ robbed' = robbed \ {p}
  /\ UNCHANGED <<file, temps, boot, born, me, seen, tries, faulty>>

ReleaseRemove(p) ==
  /\ pc[p] = "relRemove"
  /\ file' = NoFile
  /\ robbed' = (robbed \cup Victims(p)) \ {p}
  /\ Gone(p)
  /\ UNCHANGED <<temps, boot, born, me, seen, tries, faulty>>

\* The unlink of a release fails: the lock outlives its process.
ReleaseFails(p) ==
  /\ pc[p] = "relRemove"
  /\ Gone(p)
  /\ robbed' = robbed \ {p}
  /\ faulty' = TRUE
  /\ UNCHANGED <<file, temps, boot, born, me, seen, tries>>

\* A process is killed: whatever it left on disk stays.
Kill(p) ==
  /\ pc[p] \notin {"absent", "stranger"}
  /\ Gone(p)
  /\ robbed' = robbed \ {p}
  /\ faulty' = TRUE
  /\ UNCHANGED <<file, temps, boot, born, me, seen, tries>>

Reboot ==
  /\ boot <= MaxBoot
  /\ boot' = boot + 1
  /\ pc' = [p \in Pid |-> "absent"]
  /\ owners' = {}
  /\ robbed' = {}
  /\ faulty' = TRUE
  /\ UNCHANGED <<file, temps, born, me, seen, tries>>

-----------------------------------------------------------------------------
TakeLockStep(p) ==
  \/ SweepTempLocks(p) \/ WriteTemp(p) \/ WriteTempFails(p)
  \/ LinkTakes(p) \/ LinkRefused(p) \/ LinkFails(p) \/ UnlinkTemp(p)
  \/ StatLock(p) \/ ReadLock(p) \/ JudgeAlive(p) \/ JudgeStart(p)
  \/ Reread(p) \/ RemoveStale(p) \/ RemoveStaleFails(p)

ReleaseStep(p) == ReleaseRead(p) \/ ReleaseRemove(p) \/ ReleaseFails(p)

Next ==
  \/ \E p \in Pid :
       \/ Start(p) \/ StrangerStarts(p) \/ StrangerEnds(p)
       \/ TakeLockStep(p) \/ Stop(p) \/ ReleaseStep(p) \/ Kill(p)
  \/ \E t \in temps : TempAges(t)
  \/ Reboot

Spec == Init /\ [][Next]_vars

\* A process that is in the loop of take_lock or in its release runs on; that
\* it starts, stops or is killed is up to the world.
Fairness == \A p \in Pid : WF_vars(TakeLockStep(p) \/ ReleaseStep(p))

FairSpec == Spec /\ Fairness

-----------------------------------------------------------------------------
(* Properties *)

\* A daemon whose lock nobody robbed finds it on disk, naming it: no path of
\* another starter or of a release loses or overwrites the lock of an owner
\* without being counted as a robbery (create_lock, release_lock).
OwnerKeepsItsLock ==
  \A p \in owners \ robbed :
    file # NoFile /\ file.pid = p /\ file.started = me[p]

\* While every process ends in its own time and takes its lock along, ps tells a
\* starter when it started and the first start found no file, one daemon runs and
\* nobody robs it: the window needs a stale file to judge.
OneDaemonWithoutFaults ==
  ~faulty => robbed = {} /\ (\A p, q \in owners : p = q)

-----------------------------------------------------------------------------
(* The inductive strengthening of the two invariants above *)

\* A process that made the lock is between its link and its end.
OwnersRun == \A p \in owners : pc[p] \in {"unlinkWon", "running", "relRead", "relRemove"}

\* A lock is on disk only while the daemon it names runs.
FileIsHeld == file # NoFile => file.pid \in owners /\ file.boot = boot

\* What a starter has read is of this boot and names another process of this
\* boot: one that holds the lock, or one that is gone, or an earlier one.
SeenIsReal(p) ==
  LET q == seen[p].pid IN
  /\ pc[p] \in {"read", "alive", "start"} => seen[p].boot = boot
  /\ pc[p] \in {"alive", "start", "reread"} =>
       /\ q \in Pid \ {p}
       /\ seen[p].started <= born[q]
       /\ seen[p].started = born[q] =>
            pc[q] = "absent" \/ (pc[p] # "reread" /\ q \in owners)

\* Nobody gets as far as to remove a file but the daemon that it names.
NobodyRemoves(p) ==
  /\ pc[p] # "remove"
  /\ pc[p] = "relRemove" => p \in owners

KnowsItsStart(p) == pc[p] \notin {"absent", "stranger"} => me[p] = born[p]

CalmInv ==
  ~faulty =>
    /\ robbed = {}
    /\ FileIsHeld
    /\ \A p \in Pid : SeenIsReal(p) /\ NobodyRemoves(p) /\ KnowsItsStart(p)

LockInv == OwnersRun /\ OwnerKeepsItsLock /\ CalmInv

-----------------------------------------------------------------------------
\* A starter loses the race for its own temp file only after it was suspended
\* for a minute: a sweep leaves the young temp file of a live process alone.
YoungTempSurvives ==
  [][\A p \in Pid : pc[p] = "link" /\ [pid |-> p, old |-> FALSE] \in temps /\ pc'[p] = "link"
       => HasTemp(p)']_vars

\* The lock of a daemon that recorded its start time is taken from it only
\* when the file changed between the second read of the takeover and the
\* removal: "between that read and the removal another process could still put
\* its own lock there, and the window is the one ..." (head of lock.rs).
RobbedOnlyInTheWindow ==
  [][\A p \in Pid :
       pc[p] = "remove" /\ (\E q \in Victims(p) \ robbed : me[q] # Unknown)
         /\ file' = NoFile
       => ~SameText(file, seen[p])]_vars
=============================================================================
