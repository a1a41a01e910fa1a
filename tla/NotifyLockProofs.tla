-------------------------- MODULE NotifyLockProofs --------------------------
(***************************************************************************)
(* Proofs about the lock of the notify service, for any number of pids,    *)
(* incarnations, reboots and passes of the loop of take_lock.              *)
(***************************************************************************)
EXTENDS NotifyLock, TLAPS

\* Every variable keeps its type, through kills, reboots and reused pids: a
\* lock is a lock whatever was left on disk, and only a daemon whose link made
\* the lock is ever counted as robbed.
THEOREM TypeCorrect == Spec => []TypeOK
<1>1. Init => TypeOK
  BY LockAssumption DEF Init, TypeOK, Leftover, Lock, Blank, Unknown, PC
<1>2. TypeOK /\ [Next]_vars => TypeOK'
  <2> SUFFICES ASSUME TypeOK, [Next]_vars PROVE TypeOK'
    OBVIOUS
  <2> USE LockAssumption DEF TypeOK, Go, Lock, PC
  <2>1. ASSUME NEW p \in Pid, Start(p) PROVE TypeOK'
    BY <2>1 DEF Start, Unknown
  <2>2. ASSUME NEW p \in Pid, StrangerStarts(p) \/ StrangerEnds(p) PROVE TypeOK'
    BY <2>2 DEF StrangerStarts, StrangerEnds
  <2>3. ASSUME NEW p \in Pid, SweepTempLocks(p) PROVE TypeOK'
    BY <2>3 DEF SweepTempLocks
  <2>4. ASSUME NEW p \in Pid, WriteTemp(p) \/ WriteTempFails(p) PROVE TypeOK'
    <3>1. temps' \subseteq Temp
      <4>1. [pid |-> p, old |-> FALSE] \in Temp
        BY Zenon DEF Temp
      <4>2. temps' \subseteq temps \cup {[pid |-> p, old |-> FALSE]}
        BY <2>4 DEF WriteTemp, WriteTempFails
      <4> QED
        BY <4>1, <4>2
    <3>2. /\ UNCHANGED <<file, boot, born, me, seen, owners, robbed, faulty>>
          /\ pc' \in [Pid -> PC]
          /\ tries' \in [Pid -> Nat]
      BY <2>4 DEF WriteTemp, WriteTempFails
    <3> QED
      BY <3>1, <3>2
  <2>5. ASSUME NEW p \in Pid, LinkTakes(p) \/ LinkRefused(p) \/ LinkFails(p) PROVE TypeOK'
    BY <2>5 DEF LinkTakes, LinkRefused, LinkFails
  <2>6. ASSUME NEW p \in Pid, UnlinkTemp(p) PROVE TypeOK'
    BY <2>6 DEF UnlinkTemp
  <2>7. ASSUME NEW p \in Pid, StatLock(p) PROVE TypeOK'
    BY <2>7 DEF StatLock, Again
  <2>8. ASSUME NEW p \in Pid, ReadLock(p) PROVE TypeOK'
    BY <2>8 DEF ReadLock, Again
  <2>9. ASSUME NEW p \in Pid, JudgeAlive(p) \/ JudgeStart(p) PROVE TypeOK'
    BY <2>9 DEF JudgeAlive, JudgeStart
  <2>10. ASSUME NEW p \in Pid, Reread(p) \/ RemoveStale(p) \/ RemoveStaleFails(p) PROVE TypeOK'
    BY <2>10 DEF Reread, RemoveStale, RemoveStaleFails, Again, Victims
  <2>11. ASSUME NEW p \in Pid, Stop(p) PROVE TypeOK'
    BY <2>11 DEF Stop
  <2>12. ASSUME NEW p \in Pid, ReleaseStep(p) PROVE TypeOK'
    BY <2>12 DEF ReleaseStep, ReleaseRead, ReleaseRemove, ReleaseFails, Gone, Victims
  <2>13. ASSUME NEW p \in Pid, Kill(p) PROVE TypeOK'
    BY <2>13 DEF Kill, Gone
  <2>14. ASSUME NEW t \in temps, TempAges(t) PROVE TypeOK'
    BY <2>14 DEF TempAges, Temp
  <2>15. CASE Reboot
    BY <2>15 DEF Reboot
  <2>16. CASE UNCHANGED vars
    BY <2>16 DEF vars
  <2> QED
    BY <2>1, <2>2, <2>3, <2>4, <2>5, <2>6, <2>7, <2>8, <2>9, <2>10, <2>11,
       <2>12, <2>13, <2>14, <2>15, <2>16 DEF Next, TakeLockStep
<1> QED
  BY <1>1, <1>2, PTL DEF Spec

-----------------------------------------------------------------------------
(* A daemon that nobody robbed finds its lock on disk *)

Kept == OwnersRun /\ OwnerKeepsItsLock

LEMMA KeptInit == Init => Kept
  BY DEF Init, Kept, OwnersRun, OwnerKeepsItsLock

\* One step per action that touches what Kept speaks of: the file, the owners,
\* the robbed, where an owner is and the start time that it knows.
LEMMA KeptStep == TypeOK /\ Kept /\ [Next]_vars => Kept'
<1> SUFFICES ASSUME TypeOK, Kept, [Next]_vars PROVE Kept'
  OBVIOUS
<1> USE DEF Kept, OwnersRun, OwnerKeepsItsLock, TypeOK, Go
<1>1. ASSUME NEW p \in Pid, Start(p) PROVE Kept'
  BY <1>1 DEF Start
<1>2. ASSUME NEW p \in Pid, StrangerStarts(p) \/ StrangerEnds(p) PROVE Kept'
  BY <1>2 DEF StrangerStarts, StrangerEnds
<1>3. ASSUME NEW p \in Pid, SweepTempLocks(p) PROVE Kept'
  BY <1>3 DEF SweepTempLocks
<1>4. ASSUME NEW p \in Pid, WriteTemp(p) \/ WriteTempFails(p) PROVE Kept'
  BY <1>4 DEF WriteTemp, WriteTempFails
<1>5. ASSUME NEW p \in Pid, LinkTakes(p) PROVE Kept'
  \* The file was not there, so no owner but a robbed one was left.
  <2>1. owners \ robbed = {}
    BY <1>5 DEF LinkTakes
  <2>2. OwnersRun'
    BY <1>5 DEF LinkTakes
  <2>3. owners' \ robbed' \subseteq {p}
    BY <1>5, <2>1 DEF LinkTakes
  <2>4. file'.pid = p /\ file'.started = me'[p] /\ file' # NoFile
    BY <1>5, LockAssumption DEF LinkTakes, Lock
  <2> QED
    BY <2>2, <2>3, <2>4
<1>6. ASSUME NEW p \in Pid, LinkRefused(p) \/ LinkFails(p) PROVE Kept'
  BY <1>6 DEF LinkRefused, LinkFails
<1>7. ASSUME NEW p \in Pid, UnlinkTemp(p) PROVE Kept'
  BY <1>7 DEF UnlinkTemp
<1>8. ASSUME NEW p \in Pid, StatLock(p) \/ ReadLock(p) PROVE Kept'
  BY <1>8 DEF StatLock, ReadLock, Again
<1>9. ASSUME NEW p \in Pid, JudgeAlive(p) \/ JudgeStart(p) PROVE Kept'
  BY <1>9 DEF JudgeAlive, JudgeStart
<1>10. ASSUME NEW p \in Pid, Reread(p) PROVE Kept'
  BY <1>10 DEF Reread, Again
<1>11. ASSUME NEW p \in Pid, RemoveStale(p) PROVE Kept'
  \* The owner the file was taken from is counted.
  <2>1. p \notin owners
    BY <1>11 DEF RemoveStale
  <2>2. owners \ robbed \subseteq Victims(p)
    BY <2>1 DEF Victims
  <2>3. owners' \ robbed' = {}
    BY <1>11, <2>2 DEF RemoveStale
  <2>4. OwnersRun'
    BY <1>11, <2>1 DEF RemoveStale, Again
  <2> QED
    BY <2>3, <2>4
<1>12. ASSUME NEW p \in Pid, Stop(p) \/ RemoveStaleFails(p) PROVE Kept'
  BY <1>12 DEF Stop, RemoveStaleFails
<1>13. ASSUME NEW p \in Pid, ReleaseRead(p) PROVE Kept'
  BY <1>13 DEF ReleaseRead, Gone
<1>14. ASSUME NEW p \in Pid, ReleaseRemove(p) PROVE Kept'
  <2>1. (owners \ robbed) \ {p} \subseteq Victims(p)
    BY DEF Victims
  <2>2. owners' \ robbed' = {}
    BY <1>14, <2>1 DEF ReleaseRemove, Gone
  <2>3. OwnersRun'
    BY <1>14 DEF ReleaseRemove, Gone
  <2> QED
    BY <2>2, <2>3
<1>15. ASSUME NEW p \in Pid, Kill(p) \/ ReleaseFails(p) PROVE Kept'
  BY <1>15 DEF Kill, ReleaseFails, Gone
<1>16. ASSUME NEW t \in temps, TempAges(t) PROVE Kept'
  BY <1>16 DEF TempAges
<1>17. CASE Reboot
  BY <1>17 DEF Reboot
<1>18. CASE UNCHANGED vars
  BY <1>18 DEF vars
<1> QED
  BY <1>1, <1>2, <1>3, <1>4, <1>5, <1>6, <1>7, <1>8, <1>9, <1>10, <1>11, <1>12,
     <1>13, <1>14, <1>15, <1>16, <1>17, <1>18 DEF Next, TakeLockStep, ReleaseStep

\* Whatever starters, releases, kills and reboots do to the file, a running
\* daemon loses its lock only by a removal that is counted as a robbery: the
\* link never replaces a lock and a release never takes one that names another.
THEOREM OwnerKeepsItsLockHolds == Spec => []OwnerKeepsItsLock
<1>1. Kept => OwnerKeepsItsLock
  BY DEF Kept
<1> QED
  BY KeptInit, KeptStep, TypeCorrect, <1>1, PTL DEF Spec

-----------------------------------------------------------------------------
(* While nothing goes wrong one daemon runs and nobody robs it *)

\* What a calm step works from: the invariant, and no fault so far or by it.
Calm ==
  /\ robbed = {}
  /\ FileIsHeld
  /\ \A p \in Pid : SeenIsReal(p) /\ NobodyRemoves(p) /\ KnowsItsStart(p)

LEMMA CalmInit == Init => LockInv
<1> SUFFICES ASSUME Init PROVE LockInv
  OBVIOUS
<1>1. Kept
  BY KeptInit
<1>2. CalmInv
  BY DEF Init, CalmInv, FileIsHeld, SeenIsReal, NobodyRemoves, KnowsItsStart, Blank
<1> QED
  BY <1>1, <1>2 DEF LockInv, Kept

LEMMA CalmStep ==
  ASSUME TypeOK, Kept, Calm, [Next]_vars, ~faulty'
  PROVE  Calm'
<1> USE DEF Calm, TypeOK, Go, FileIsHeld, SeenIsReal, NobodyRemoves, KnowsItsStart
<1>1. ASSUME NEW p \in Pid, Start(p) PROVE Calm'
  \* A pid that starts is no owner, and its incarnation is newer than any read.
  <2>1. /\ p \notin owners
        /\ me' = [me EXCEPT ![p] = born[p] + 1]
        /\ born' = [born EXCEPT ![p] = @ + 1]
        /\ pc' = [pc EXCEPT ![p] = "sweep"]
        /\ UNCHANGED <<file, boot, seen, owners, robbed>>
    BY <1>1 DEF Start, Kept, OwnersRun
  <2>2. FileIsHeld' /\ robbed' = {}
    BY <2>1
  <2>3. ASSUME NEW r \in Pid PROVE NobodyRemoves(r)' /\ KnowsItsStart(r)'
    BY <2>1
  <2>4. ASSUME NEW r \in Pid, r # p PROVE SeenIsReal(r)'
    <3> DEFINE q == seen[r].pid
    <3>1. pc'[r] = pc[r] /\ seen'[r] = seen[r] /\ seen[r].started \in Nat
      BY <2>1, <2>4 DEF Lock
    <3>2. CASE q = p
      BY <2>1, <3>1, <3>2
    <3>3. CASE q # p
      BY <2>1, <3>1, <3>3
    <3> QED
      BY <3>2, <3>3
  <2>5. SeenIsReal(p)'
    BY <2>1
  <2> QED
    BY <2>2, <2>3, <2>4, <2>5
<1>2. ASSUME NEW p \in Pid, StrangerStarts(p) \/ StrangerEnds(p) PROVE Calm'
  BY <1>2 DEF StrangerStarts, StrangerEnds, Lock, Kept, OwnersRun
<1>3. ASSUME NEW p \in Pid, SweepTempLocks(p) PROVE Calm'
  BY <1>3 DEF SweepTempLocks
<1>4. ASSUME NEW p \in Pid, WriteTemp(p) \/ WriteTempFails(p) PROVE Calm'
  BY <1>4 DEF WriteTemp, WriteTempFails
<1>5. ASSUME NEW p \in Pid, LinkTakes(p) PROVE Calm'
  BY <1>5 DEF LinkTakes
<1>6. ASSUME NEW p \in Pid, LinkRefused(p) \/ LinkFails(p) PROVE Calm'
  BY <1>6 DEF LinkRefused, LinkFails
<1>7. ASSUME NEW p \in Pid, UnlinkTemp(p) PROVE Calm'
  BY <1>7 DEF UnlinkTemp
<1>8. ASSUME NEW p \in Pid, StatLock(p) PROVE Calm'
  BY <1>8 DEF StatLock, Again, Lock
<1>9. ASSUME NEW p \in Pid, ReadLock(p) PROVE Calm'
  BY <1>9 DEF ReadLock, Again, Lock, Kept, OwnersRun, OwnerKeepsItsLock
<1>10. ASSUME NEW p \in Pid, JudgeAlive(p) PROVE Calm'
  BY <1>10 DEF JudgeAlive, Alive
<1>11. ASSUME NEW p \in Pid, JudgeStart(p) PROVE Calm'
  BY <1>11 DEF JudgeStart, Alive, PsAnswers, Holds, Unknown
<1>12. ASSUME NEW p \in Pid, Reread(p) PROVE Calm'
  BY <1>12 DEF Reread, Again, SameText, Kept, OwnersRun, OwnerKeepsItsLock
<1>13. ASSUME NEW p \in Pid, RemoveStale(p) PROVE Calm'
  BY <1>13 DEF RemoveStale
<1>14. ASSUME NEW p \in Pid, Stop(p) \/ RemoveStaleFails(p) PROVE Calm'
  BY <1>14 DEF Stop, RemoveStaleFails
<1>15. ASSUME NEW p \in Pid, ReleaseRead(p) PROVE Calm'
  BY <1>15 DEF ReleaseRead, Gone
<1>16. ASSUME NEW p \in Pid, ReleaseRemove(p) PROVE Calm'
  BY <1>16 DEF ReleaseRemove, Gone, Victims, Kept, OwnersRun, OwnerKeepsItsLock
<1>17. ASSUME NEW p \in Pid, Kill(p) \/ ReleaseFails(p) PROVE Calm'
  BY <1>17 DEF Kill, ReleaseFails
<1>18. ASSUME NEW t \in temps, TempAges(t) PROVE Calm'
  BY <1>18 DEF TempAges
<1>19. CASE Reboot
  BY <1>19 DEF Reboot
<1>20. CASE UNCHANGED vars
  BY <1>20 DEF vars
<1> QED
  BY <1>1, <1>2, <1>3, <1>4, <1>5, <1>6, <1>7, <1>8, <1>9, <1>10, <1>11, <1>12,
     <1>13, <1>14, <1>15, <1>16, <1>17, <1>18, <1>19, <1>20
     DEF Next, TakeLockStep, ReleaseStep
\* What went wrong stays on the record.
LEMMA FaultsStay == TypeOK /\ [Next]_vars /\ faulty => faulty'
  BY DEF TypeOK, Next, vars, TakeLockStep, ReleaseStep, Start, StrangerStarts,
     StrangerEnds, SweepTempLocks, WriteTemp, WriteTempFails, LinkTakes,
     LinkRefused, LinkFails, UnlinkTemp, StatLock, ReadLock, JudgeAlive,
     JudgeStart, Reread, RemoveStale, RemoveStaleFails, Stop, ReleaseRead, ReleaseRemove,
     ReleaseFails, Kill, TempAges, Reboot

LEMMA LockInvStep == TypeOK /\ LockInv /\ [Next]_vars => LockInv'
<1> SUFFICES ASSUME TypeOK, LockInv, [Next]_vars PROVE LockInv'
  OBVIOUS
<1>1. Kept /\ Kept'
  BY KeptStep DEF LockInv, Kept
<1>2. ASSUME ~faulty' PROVE Calm'
  <2>1. ~faulty
    BY <1>2, FaultsStay
  <2>2. Calm
    BY <2>1 DEF LockInv, CalmInv, Calm
  <2> QED
    BY <1>1, <1>2, <2>2, CalmStep
<1>3. CalmInv'
  BY <1>2 DEF CalmInv, Calm
<1> QED
  BY <1>1, <1>3 DEF LockInv, Kept

\* While no process is killed, the machine stays up, ps tells each starter when
\* it started, no release fails to unlink and no file was left over, at most one daemon has taken the lock
\* and not ended, and no starter removed its file: the second read of a
\* takeover, the own pid and the start time that are compared leave no gap.
THEOREM OneDaemonWithoutFaultsHolds == Spec => []OneDaemonWithoutFaults
<1>1. LockInv => OneDaemonWithoutFaults
  <2> SUFFICES ASSUME LockInv, ~faulty, NEW p \in owners, NEW q \in owners
               PROVE  robbed = {} /\ p = q
    BY DEF OneDaemonWithoutFaults, LockInv, CalmInv
  <2>1. robbed = {}
    BY DEF LockInv, CalmInv
  <2> QED
    BY <2>1 DEF LockInv, OwnerKeepsItsLock
<1> QED
  BY CalmInit, LockInvStep, TypeCorrect, <1>1, PTL DEF Spec

-----------------------------------------------------------------------------
(* The temp file of a starter that is at work *)

LEMMA YoungTempStep ==
  ASSUME TypeOK, Next, NEW p \in Pid, pc[p] = "link", pc'[p] = "link",
         [pid |-> p, old |-> FALSE] \in temps
  PROVE  HasTemp(p)'
<1> DEFINE t == [pid |-> p, old |-> FALSE]
<1>1. t.pid = p /\ ~t.old /\ Alive(p)
  BY DEF Alive
<1>2. t \in temps' => HasTemp(p)'
  BY <1>1 DEF HasTemp
<1>3. ASSUME NEW q \in Pid, SweepTempLocks(q) PROVE t \in temps'
  BY <1>1, <1>3 DEF SweepTempLocks
<1>4. ASSUME NEW q \in Pid, UnlinkTemp(q) PROVE t \in temps'
  \* A starter unlinks its own temp file when its link is over.
  <2>1. q # p
    BY <1>4 DEF UnlinkTemp
  <2> QED
    BY <1>1, <1>4, <2>1 DEF UnlinkTemp
<1>5. ASSUME NEW u \in temps, TempAges(u) PROVE HasTemp(p)'
  <2>1. CASE u # t
    BY <1>2, <1>5, <2>1 DEF TempAges
  <2>2. CASE u = t
    <3>1. [t EXCEPT !.old = TRUE] \in temps' /\ [t EXCEPT !.old = TRUE].pid = p
      BY <1>5, <2>2 DEF TempAges
    <3> QED
      BY <3>1 DEF HasTemp
  <2> QED
    BY <2>1, <2>2
<1>6. ASSUME NEW q \in Pid, WriteTemp(q) PROVE t \in temps'
  BY <1>6 DEF WriteTemp
<1>7. ASSUME NEW q \in Pid,
             \/ Start(q) \/ StrangerStarts(q) \/ StrangerEnds(q) \/ WriteTempFails(q) \/ LinkTakes(q)
             \/ LinkRefused(q) \/ LinkFails(q) \/ StatLock(q) \/ ReadLock(q) \/ JudgeAlive(q)
             \/ JudgeStart(q) \/ Reread(q) \/ RemoveStale(q) \/ RemoveStaleFails(q) \/ Stop(q)
             \/ ReleaseStep(q) \/ Kill(q)
      PROVE  t \in temps'
  BY <1>7 DEF Start, StrangerStarts, StrangerEnds, WriteTempFails, LinkTakes, LinkRefused, LinkFails,
     StatLock, ReadLock, JudgeAlive, JudgeStart, Reread, RemoveStale, RemoveStaleFails, Stop,
     ReleaseStep, ReleaseRead, ReleaseRemove, ReleaseFails, Kill
<1>8. CASE Reboot
  BY <1>8 DEF Reboot
<1> QED
  BY <1>2, <1>3, <1>4, <1>5, <1>6, <1>7, <1>8 DEF Next, TakeLockStep

\* A starter finds the temp file that it wrote when it makes the link, unless it
\* was suspended for a minute: no sweep takes the young file of a live process.
THEOREM YoungTempSurvivesHolds == Spec => YoungTempSurvives
<1>1. ASSUME TypeOK, [Next]_vars,
             NEW p \in Pid, pc[p] = "link", [pid |-> p, old |-> FALSE] \in temps, pc'[p] = "link"
      PROVE  HasTemp(p)'
  <2>1. CASE Next
    BY <1>1, <2>1, YoungTempStep
  <2>2. CASE UNCHANGED vars
    BY <1>1, <2>2 DEF vars, HasTemp
  <2> QED
    BY <1>1, <2>1, <2>2
<1>2. TypeOK /\ [Next]_vars =>
        [\A p \in Pid : pc[p] = "link" /\ [pid |-> p, old |-> FALSE] \in temps /\ pc'[p] = "link"
             => HasTemp(p)']_vars
  BY <1>1
<1> QED
  BY <1>2, TypeCorrect, PTL DEF Spec, YoungTempSurvives
=============================================================================
