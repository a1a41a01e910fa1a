---------------------------- MODULE ShellProofs ----------------------------
(***************************************************************************)
(* The two protocols of the shell side, for any number of processes.  A    *)
(* lock directory has one holder, whoever is killed in whichever step of a *)
(* takeover.  The record of a session is where the rules of the hook put   *)
(* it, and a session that is over leaves none.  And the references of the  *)
(* sessions, for documents, directories and command lines of any size:     *)
(* what is taken reads back as it was printed, and a session is found by   *)
(* what it is listed with.                                                 *)
(***************************************************************************)
EXTENDS Shell, MCSessions, TLAPS, SequenceTheorems, FiniteSetTheorems, WellFoundedInduction

-----------------------------------------------------------------------------
(* The lock directories: the strengthening *)

\* Who holds the lock or lets go of it made the directory that is there.
HoldersMadeIt ==
  \A p \in alive : pc[p] \in {"own", "held", "free", "rmdir"} => dir = p

Takeover == {"look again", "judge again", "age again", "remove", "remove dir", "untake"}

\* One process at a time is between the making and the removal of a .take.
OneTakes ==
  /\ \A p \in alive : pc[p] \in Takeover => take = p
  /\ take # Nobody /\ takeOld => take \notin alive

\* The maker of a lock that is removed in a takeover is gone.
RemovesTheDead ==
  /\ \A p \in alive : pc[p] \in {"remove", "remove dir"} => dir # Nobody /\ dir \notin alive
  /\ old => dir \notin alive

LockInv ==
  /\ L!TypeOK
  /\ ~aged /\ ~robbed /\ ~crossed => HoldersMadeIt /\ OneTakes /\ RemovesTheDead

-----------------------------------------------------------------------------
(* The lock directories: the proof *)

LEMMA LockInit == L!Init => LockInv
  BY ShellAssumption DEF L!Init, LockInv, L!TypeOK, HoldersMadeIt, OneTakes,
     RemovesTheDead, Takeover, L!LockAssumption

LEMMA LockTypeStep == LockInv /\ [L!Next]_ofLock => L!TypeOK'
<1> SUFFICES ASSUME LockInv, [L!Next]_ofLock PROVE L!TypeOK'
  OBVIOUS
<1>0. L!TypeOK
  BY DEF LockInv
<1>1. CASE UNCHANGED ofLock
  BY <1>0, <1>1 DEF ofLock, L!TypeOK
<1>2. CASE L!Next
  <2> DEFINE Places == {"try", "own", "held", "free", "rmdir", "look", "judge", "age", "take", "take age", "clear",
                        "look again", "judge again", "age again", "remove", "remove dir", "untake", "rest", "over"}
  <2> USE DEF L!Next, L!LockStep, L!UnlockStep, L!MakeDir, L!WriteOwner, L!MakeFails, L!Look, L!Judge,
          L!MakeTake, L!TakeFails, L!TakeAge, L!ClearTake, L!JudgeAgain, L!Age, L!RemoveOwner, L!RemoveDir, L!Untake, L!Rest, L!Unlock,
          L!Leaves, L!LockAges, L!TakeAges, L!Go, L!NoDir, L!Lock, L!Taking, L!History
  <2>1. dir' \in Locker \cup {Nobody} /\ owner' \in Locker \cup {Nobody}
    BY <1>0, <1>2 DEF L!TypeOK
  <2>2. take' \in Locker \cup {Nobody} /\ alive' \subseteq Locker
    BY <1>0, <1>2 DEF L!TypeOK
  <2>3. old' = old \/ old' = TRUE \/ old' = FALSE
    BY <1>2
  <2>4. takeOld' = takeOld \/ takeOld' = TRUE \/ takeOld' = FALSE
    BY <1>2
  <2>5. robbed' = robbed \/ robbed' \in BOOLEAN
    BY <1>2
  <2>6. aged' = aged \/ aged' \in BOOLEAN
    BY <1>2
  <2>15. crossed' = crossed \/ crossed' \in BOOLEAN
    BY <1>2
  <2>7. pc' = pc \/ \E p \in Locker, to \in Places : pc' = [pc EXCEPT ![p] = to]
    BY <1>2
  <2>8. saw' = saw \/ \E p \in Locker : saw' = [saw EXCEPT ![p] = owner]
    BY <1>2
  <2>9. dir' = Nobody => owner' = Nobody /\ old' = FALSE
    BY <1>0, <1>2, ShellAssumption DEF L!TypeOK, L!LockAssumption
  <2>10. pc' \in [Locker -> Places]
    BY <1>0, <2>7 DEF L!TypeOK
  <2>11. saw' \in [Locker -> Locker \cup {Nobody}]
    BY <1>0, <2>8 DEF L!TypeOK
  <2>12. old' \in BOOLEAN /\ takeOld' \in BOOLEAN
    BY <1>0, <2>3, <2>4, Zenon DEF L!TypeOK
  <2>13. robbed' \in BOOLEAN /\ crossed' \in BOOLEAN /\ aged' \in BOOLEAN
    BY <1>0, <2>5, <2>6, <2>15, Zenon DEF L!TypeOK
  <2>14. dir' = Nobody => owner' = Nobody /\ ~old'
    BY <2>9, Zenon
  <2> QED
    BY <2>1, <2>2, <2>10, <2>11, <2>12, <2>13, <2>14, Zenon DEF L!TypeOK
<1> QED
  BY <1>1, <1>2

LEMMA LockStepKeeps == LockInv /\ [L!Next]_ofLock => LockInv'
<1> SUFFICES ASSUME LockInv, [L!Next]_ofLock, ~aged', ~robbed', ~crossed'
             PROVE  HoldersMadeIt' /\ OneTakes' /\ RemovesTheDead'
  BY LockTypeStep DEF LockInv
<1> DEFINE Kept == HoldersMadeIt' /\ OneTakes' /\ RemovesTheDead'
<1> USE ShellAssumption DEF L!LockAssumption, L!At, L!Go, L!NoDir, L!Lock, L!Taking, L!History,
        HoldersMadeIt, OneTakes, RemovesTheDead, Takeover
<1>1. CASE UNCHANGED ofLock
  BY <1>1 DEF ofLock, LockInv
<1> SUFFICES ASSUME L!Next PROVE Kept
  BY <1>1
<1>2. /\ HoldersMadeIt /\ OneTakes /\ RemovesTheDead
      /\ DOMAIN pc = Locker /\ DOMAIN saw = Locker /\ alive \subseteq Locker
      /\ dir \in Locker \cup {Nobody} /\ dir = Nobody => owner = Nobody /\ ~old
  BY DEF L!Next, LockInv, L!TypeOK
<1>3. ASSUME NEW p \in Locker, L!MakeDir(p) PROVE Kept
  BY <1>2, <1>3 DEF L!MakeDir
<1>4. ASSUME NEW p \in Locker, L!WriteOwner(p) \/ L!MakeFails(p) \/ L!Unlock(p) PROVE Kept
  <2>1. /\ UNCHANGED <<dir, old, take, takeOld, alive, saw>>
        /\ \/ pc[p] = "own" /\ pc' = [pc EXCEPT ![p] = "held"]
           \/ pc[p] = "held" /\ pc' = [pc EXCEPT ![p] = "free"]
           \/ pc' = [pc EXCEPT ![p] = "look"]
    BY <1>4 DEF L!WriteOwner, L!MakeFails, L!Unlock
  <2> QED
    BY <1>2, <2>1
<1>5. ASSUME NEW p \in Locker, L!Look(p, "look", "judge") PROVE Kept
  BY <1>2, <1>5 DEF L!Look
<1>6. ASSUME NEW p \in Locker, L!Look(p, "look again", "judge again") PROVE Kept
  BY <1>2, <1>6 DEF L!Look
<1>7. ASSUME NEW p \in Locker,
             L!Judge(p) \/ L!Age(p, "age", "take", "rest") \/ L!TakeFails(p) \/ L!TakeAge(p) \/ L!ClearTake(p)
      PROVE  Kept
  <2>1. /\ UNCHANGED <<dir, old, alive, saw>>
        /\ \E to \in {"rest", "take", "age", "take age", "clear"} : pc' = [pc EXCEPT ![p] = to]
        /\ \/ UNCHANGED <<take, takeOld>>
           \/ (take = Nobody \/ takeOld) /\ take' = Nobody /\ takeOld' = FALSE
    BY <1>7 DEF L!Judge, L!Age, L!TakeFails, L!TakeAge, L!ClearTake
  <2> HIDE DEF HoldersMadeIt, RemovesTheDead
  <2>2. \A q \in alive : pc'[q] \in {"own", "held", "free", "rmdir"} \cup Takeover => pc'[q] = pc[q]
    BY <1>2, <2>1
  <2>3. take' = take \/ (take \notin alive /\ take' = Nobody)
    BY <1>2, <2>1
  <2>4. HoldersMadeIt' /\ RemovesTheDead'
    BY <1>2, <2>1, <2>2 DEF HoldersMadeIt, RemovesTheDead
  <2>5. \A q \in alive : pc'[q] \in Takeover => take' = q
    <3> SUFFICES ASSUME NEW q \in alive, pc'[q] \in Takeover
                 PROVE  take' = q
      OBVIOUS
    <3>1. pc[q] \in Takeover
      BY <2>2
    <3>2. take = q
      BY <1>2, <3>1
    <3> QED
      BY <2>3, <3>2
  <2>6. take' # Nobody /\ takeOld' => take' \notin alive
    BY <1>2, <2>1, Zenon
  <2>7. OneTakes'
    BY <2>1, <2>5, <2>6
  <2> QED
    BY <2>4, <2>7
<1>8. ASSUME NEW p \in Locker, L!JudgeAgain(p) PROVE Kept
  BY <1>2, <1>8 DEF L!JudgeAgain, L!Gone
<1>17. ASSUME NEW p \in Locker, L!Age(p, "age again", "remove", "untake") PROVE Kept
  BY <1>2, <1>17 DEF L!Age
<1>9. ASSUME NEW p \in Locker, L!MakeTake(p) PROVE Kept
  BY <1>2, <1>9 DEF L!MakeTake
<1>10. ASSUME NEW p \in Locker, L!RemoveOwner(p, "remove", "remove dir") PROVE Kept
  BY <1>2, <1>10 DEF L!RemoveOwner
<1>11. ASSUME NEW p \in Locker, L!RemoveDir(p, "remove dir", "untake") PROVE Kept
  BY <1>2, <1>11 DEF L!RemoveDir
<1>12. ASSUME NEW p \in Locker, L!RemoveOwner(p, "free", "rmdir") PROVE Kept
  BY <1>2, <1>12 DEF L!RemoveOwner
<1>13. ASSUME NEW p \in Locker, L!RemoveDir(p, "rmdir", "over") PROVE Kept
  BY <1>2, <1>13 DEF L!RemoveDir
<1>14. ASSUME NEW p \in Locker, L!Untake(p) \/ L!Rest(p) PROVE Kept
  <2>1. /\ UNCHANGED <<dir, old, alive, saw>> /\ p \in alive
        /\ \E to \in {"rest", "try", "over"} : pc' = [pc EXCEPT ![p] = to]
        /\ UNCHANGED <<take, takeOld>> \/ (pc[p] = "untake" /\ take' = Nobody /\ takeOld' = FALSE)
    BY <1>14 DEF L!Untake, L!Rest
  <2>2. \A q \in alive : pc'[q] \in {"own", "held", "free", "rmdir"} \cup Takeover => q # p /\ pc'[q] = pc[q]
    BY <1>2, <2>1
  <2>3. HoldersMadeIt' /\ RemovesTheDead'
    BY <1>2, <2>1, <2>2
  <2>4. \A q \in alive : pc'[q] \in Takeover => take' = q
    BY <1>2, <2>1, <2>2
  <2>5. take' # Nobody /\ takeOld' => take' \notin alive
    BY <1>2, <2>1, Zenon
  <2>6. OneTakes'
    BY <2>1, <2>4, <2>5
  <2> QED
    BY <2>3, <2>6
<1>15. ASSUME NEW p \in Locker, L!Leaves(p) PROVE Kept
  BY <1>2, <1>15 DEF L!Leaves
<1>16. CASE L!LockAges \/ L!TakeAges
  <2>1. UNCHANGED <<dir, take, alive, pc, saw>>
    BY <1>16 DEF L!LockAges, L!TakeAges
  <2>2. old' => old \/ dir \notin alive
    BY <1>16 DEF L!LockAges, L!TakeAges
  <2>3. takeOld' => takeOld \/ take \notin alive
    BY <1>16 DEF L!LockAges, L!TakeAges
  <2> QED
    BY <1>2, <2>1, <2>2, <2>3
<1> QED
  BY <1>3, <1>4, <1>5, <1>6, <1>7, <1>8, <1>9, <1>10, <1>11, <1>12, <1>13, <1>14, <1>15, <1>16, <1>17
     DEF L!Next, L!LockStep, L!UnlockStep

LEMMA OneMadeIt == LockInv => L!OneHolder
  BY DEF LockInv, HoldersMadeIt, L!Holders, L!OneHolder

\* A lock directory alone, for any number of processes that take it, leave and
\* are killed (lock_dir, lock_dead, unlock_dir).
THEOREM LockDirHasOneHolder == L!Spec => []L!OneHolder
<1>1. LockInv /\ [L!Next]_(L!vars) => LockInv'
  BY LockStepKeeps DEF L!vars, ofLock
<1> QED
  BY <1>1, LockInit, OneMadeIt, PTL DEF L!Spec

\* The same beside the records, with the types (LockDir).
THEOREM OneHolderHolds == Spec => []OneHolder
<1>1. Init => LockInv
  BY LockInit DEF Init
<1>2. LockInv /\ [Next]_vars => LockInv'
  BY LockStepKeeps DEF Next, vars, InRecords, InLock
<1>3. LockInv => OneHolder
  BY OneMadeIt DEF LockInv, OneHolder
<1> QED
  BY <1>1, <1>2, <1>3, PTL DEF Spec

-----------------------------------------------------------------------------
(* The session records: the strengthening *)

Keys == Sid \cup {Pane}
Deciding == {"own", "own read", "pane", "walk", "family", "unadopt", "guard"}
Acting == {"write", "kids", "remove kid", "remove"}

\* What a hook carries along.
Carried(m) ==
  /\ DOMAIN m = {"event", "key", "parsid", "mine", "above", "kids", "kid"}
  /\ m.event \in {"none", "start", "update", "end"} /\ m.key \in Keys \cup {None}
  /\ m.parsid \in Sid \cup {None} /\ m.above \in Proc \cup {None}
  /\ m.kids \subseteq Sid /\ m.kid \in Sid \cup {None}

HookIsTyped(p) == hook[p] \in Deciding \cup Acting \cup {"idle"} /\ Carried(mem[p])

InHook(p) == hook[p] # "idle"
Active(p) == p \in live \/ InHook(p)

\* A hook and a process are of one that was started, of a kind it may have.
OfTheStarted ==
  /\ \A p \in Proc : Active(p) \/ stage[p] # "new" => p \in R!Started
  /\ \A p \in R!Started : kind[p] \in MayBe[p]
  /\ reused \subseteq R!Started /\ abort.pid \in R!Started \cup {None}

\* A process is in the stage its hook has put it in.
InItsStage(p) == InHook(p) =>
  /\ stage[p] = IF mem[p].event = "end" THEN "over" ELSE "open"
  /\ hook[p] \in {"own", "own read", "pane"} => mem[p].event # "start"
  /\ hook[p] = "unadopt" => mem[p].event = "start"
  /\ hook[p] \in Acting => (mem[p].event = "end" <=> hook[p] # "write")

\* A session is resumed once its process and its hooks are gone, and a child has
\* a session of its own.
SessionsApart ==
  \A p, q \in R!Started : p # q /\ sid[p] = sid[q] =>
    /\ ~(Active(p) /\ Active(q))
    /\ kind[p] = "child" => ~Active(p) /\ kind[q] # "child"

\* The record of a session names it and a process that runs or ran it.
RecordsAreOfTheirKey ==
  /\ \A s \in Sid : rec[s] # R!NoRecord =>
       rec[s].sid = s /\ rec[s].pid \in Proc /\ sid[rec[s].pid] = s
  /\ rec[Pane].pid = None

Unnamed(p) == \A s \in Sid : rec[s].pid # p

\* A process whose hook decides, or has decided for the pane, has no record
\* under its session.
DecidesWithout(p) ==
  \/ stage[p] = "new"
  \/ hook[p] \in Deciding \ {"own", "own read"}
  \/ hook[p] \in Acting /\ mem[p].key = Pane
  => Unnamed(p)

\* A hook acts on the record of its session or on that of the pane, and on the
\* latter if it is of a process of the pane or of a background job.
ActsOnItsOwn(p) ==
  /\ hook[p] \in Acting => mem[p].key \in {Pane, sid[p]}
  /\ hook[p] = "remove kid" => mem[p].kid \in Sid
  /\ hook[p] = "pane" => kind[p] \in {"pane", "child"}
  /\ hook[p] \in {"unadopt", "guard"} => mem[p].key = Pane /\ kind[p] \in {"pane", "job"}
  /\ hook[p] = "guard" => kind[p] = "job"
  /\ hook[p] \in Acting /\ mem[p].key = Pane => kind[p] \in {"pane", "job"}
  /\ hook[p] = "family" => kind[p] # "job" /\ (kind[p] = "pane" => p \notin live)
  /\ kind[p] = "pane" /\ p \in live => Unnamed(p) /\ (hook[p] \in Acting => mem[p].key = Pane)

\* What a hook has judged is still so when it acts.
JudgedStands(p) ==
  /\ hook[p] = "remove kid" => rec[mem[p].kid].pid \notin live
  /\ hook[p] = "remove" => rec[mem[p].key].sid \in {None, sid[p]}
  /\ hook[p] = "write" /\ kind[p] = "job" /\ mem[p].key = Pane => rec[Pane].sid \in {None, sid[p]}

\* RecordsAtHome of one process.
IsAtHome(p) == p \in live /\ stage[p] = "open" /\ ~InHook(p) =>
  /\ kind[p] \in {"child", "headless"} => rec[sid[p]].pid = p /\ rec[sid[p]].sid = sid[p]
  /\ kind[p] = "pane" /\ (\A q \in R!Started \ {p} : kind[q] # "pane") => rec[Pane].sid = sid[p]

\* A process that is over is named by no record.
OverIsNotNamed(p) == R!Over(p) => Unnamed(p)

\* The start of a session removes or takes over what a child with its id left.
Starting(p) ==
  \/ stage[p] = "new"
  \/ /\ mem[p].event = "start"
     /\ hook[p] \in {"walk", "family", "unadopt"} \/ (hook[p] = "write" /\ mem[p].key # Pane)

ChildIsReplaced(p) ==
  p \in R!Started /\ kind[p] # "child" /\ ~Starting(p) =>
    \A q \in Proc \ {p} : rec[sid[p]].pid = q => kind[q] # "child"

\* Nobody but its children ran the session.
Alone(p) == \A q \in R!Started \ {p} : sid[q] = sid[p] => kind[q] = "child"

\* The record of the pane is of a session of the pane or of a job from the end
\* of its first hook, until it is over or has a record under its own id.
HasNoPane(p) ==
  \/ R!Over(p) \/ stage[p] = "new"
  \/ InHook(p) /\ mem[p].event = "start"
  \/ hook[p] \in Acting /\ mem[p].key # Pane
  \/ kind[p] = "pane" /\ hook[p] \in {"own read", "walk", "family"}
  \/ rec[sid[p]].pid = p

PaneIsLeft(p) ==
  p \in R!Started /\ Alone(p) /\ kind[p] \in {"pane", "job"} /\ HasNoPane(p) => rec[Pane].sid # sid[p]

PaneIsOfThePane ==
  rec[Pane] # R!NoRecord =>
    \E p \in R!Started : kind[p] \in {"pane", "job"} /\ sid[p] = rec[Pane].sid

\* A process's part of the invariant while things are orderly.
IsOrderly(p) ==
  /\ JudgedStands(p) /\ ActsOnItsOwn(p) /\ IsAtHome(p) /\ OverIsNotNamed(p)
  /\ ChildIsReplaced(p) /\ PaneIsLeft(p)

OrderlyInv ==
  /\ \A p \in Proc : IsOrderly(p)
  /\ PaneIsOfThePane
  /\ ~abort.stale /\ "stranger" \notin past

RecordsInv ==
  /\ R!TypeOK /\ DOMAIN hook = Proc /\ DOMAIN mem = Proc
  /\ OfTheStarted /\ SessionsApart /\ RecordsAreOfTheirKey
  /\ \A p \in Proc : HookIsTyped(p) /\ InItsStage(p) /\ DecidesWithout(p)
  /\ R!Orderly => OrderlyInv

-----------------------------------------------------------------------------
(* The session records: a step of a hook that leaves the records alone *)

\* What the assumptions say of the names.
LEMMA Names ==
  /\ Pane \notin Sid /\ None \notin Proc /\ None \notin Sid /\ None # Pane
  /\ \A p \in Missed : p \in Proc => MayBe[p] \subseteq {"child"}
  /\ \A p \in Proc : ParentOf[p] \in Proc \cup {None}
BY ShellAssumption DEF R!RecordsAssumption, R!Key

\* A process that is at work was started and has a session.
LEMMA AtWork ==
  ASSUME RecordsInv, NEW p \in Proc, Active(p) \/ stage[p] # "new"
  PROVE  p \in R!Started /\ sid[p] \in Sid /\ sid[p] # Pane /\ sid[p] # None
BY Names DEF RecordsInv, OfTheStarted, R!Started, R!TypeOK

LEMMA MoveKeeps ==
  ASSUME RecordsInv, R!Orderly, NEW p \in Proc, Active(p),
         NEW to, NEW m, NEW st \in {"new", "open", "over"},
         hook' = [hook EXCEPT ![p] = to], mem' = [mem EXCEPT ![p] = m],
         stage' = [stage EXCEPT ![p] = st], left' \in 0..Events,
         UNCHANGED <<rec, live, reused, kind, sid, front, abort>>,
         R!Orderly' => past' = past,
         HookIsTyped(p)', InItsStage(p)', DecidesWithout(p)',
         R!Orderly' => IsOrderly(p)'
  PROVE  RecordsInv'
<1> USE DEF RecordsInv
<1>1. R!TypeOK' /\ DOMAIN hook' = Proc /\ DOMAIN mem' = Proc
  BY DEF R!TypeOK
<1>2. \A q \in Proc \ {p} : hook'[q] = hook[q] /\ mem'[q] = mem[q] /\ stage'[q] = stage[q]
  BY DEF R!TypeOK
<1>3. R!Started' = R!Started  BY DEF R!Started
<1>4. OfTheStarted'
  <2>1. p \in R!Started  BY DEF OfTheStarted
  <2>2. \A q \in Proc \ {p} : Active(q)' <=> Active(q)  BY <1>2 DEF Active, InHook
  <2> QED  BY <1>2, <1>3, <2>1, <2>2 DEF OfTheStarted
<1>5. SessionsApart'
  <2>1. \A q \in Proc : Active(q)' => Active(q)  BY <1>2 DEF Active, InHook
  <2>2. R!Started \subseteq Proc  BY DEF R!Started
  <2> QED  BY <1>3, <2>1, <2>2 DEF SessionsApart
<1>6. RecordsAreOfTheirKey'  BY DEF RecordsAreOfTheirKey, R!NoRecord
<1>7. \A q \in Proc : (HookIsTyped(q) /\ InItsStage(q) /\ DecidesWithout(q))'
  <2> SUFFICES ASSUME NEW q \in Proc \ {p}
               PROVE  (HookIsTyped(q) /\ InItsStage(q) /\ DecidesWithout(q))'
    OBVIOUS
  <2>1. HookIsTyped(q)'  BY <1>2 DEF HookIsTyped
  <2>2. InItsStage(q)'  BY <1>2 DEF InItsStage, InHook
  <2>3. DecidesWithout(q)'  BY <1>2 DEF DecidesWithout, Unnamed
  <2> QED  BY <2>1, <2>2, <2>3
<1>8. ASSUME R!Orderly' PROVE OrderlyInv'
  <2>1. ASSUME NEW q \in Proc \ {p} PROVE IsOrderly(q)'
    <3>0. IsOrderly(q)  BY DEF OrderlyInv
    <3> USE <1>2, <1>3 DEF IsOrderly, InHook
    <3>1. JudgedStands(q)'  BY <3>0 DEF JudgedStands
    <3>2. ActsOnItsOwn(q)'  BY <3>0 DEF ActsOnItsOwn, Unnamed
    <3>3. IsAtHome(q)'  BY <3>0 DEF IsAtHome
    <3>4. OverIsNotNamed(q)'  BY <3>0 DEF OverIsNotNamed, R!Over, Unnamed
    <3>5. ChildIsReplaced(q)'  BY <3>0 DEF ChildIsReplaced, Starting
    <3>6. PaneIsLeft(q)'  BY <3>0 DEF PaneIsLeft, HasNoPane, Alone, R!Over
    <3> QED  BY <3>1, <3>2, <3>3, <3>4, <3>5, <3>6
  <2>2. PaneIsOfThePane'  BY <1>3 DEF OrderlyInv, PaneIsOfThePane, R!NoRecord
  <2>3. ~abort'.stale /\ "stranger" \notin past'  BY <1>8 DEF OrderlyInv
  <2> QED  BY <1>8, <2>1, <2>2, <2>3 DEF OrderlyInv
<1> QED  BY <1>1, <1>4, <1>5, <1>6, <1>7, <1>8

\* A record is decided: the hook publishes, or sees whom to take along.
LEMMA DecidedKeeps ==
  ASSUME RecordsInv, R!Orderly, NEW p \in Proc, hook[p] \in Deciding,
         NEW m, Carried(m), m.event = mem[p].event, R!Decided(p, m),
         UNCHANGED <<rec, live, reused, kind, sid, stage, left, front, abort>>,
         R!Orderly' => past' = past,
         m.key \in {Pane, sid[p]},
         m.key = Pane => Unnamed(p),
         R!Orderly' /\ m.key = Pane =>
           /\ kind[p] \in {"pane", "job"} /\ ~Starting(p)
           /\ kind[p] = "job" => rec[Pane].sid \in {None, sid[p]},
         R!Orderly' /\ m.key # Pane =>
           /\ ~(kind[p] = "pane" /\ p \in live)
           /\ Alone(p) /\ kind[p] \in {"pane", "job"} => rec[Pane].sid # sid[p]
  PROVE  RecordsInv'
<1>1. PICK to, n :
        /\ hook' = [hook EXCEPT ![p] = to] /\ mem' = [mem EXCEPT ![p] = n]
        /\ to = IF m.event = "end" THEN "kids" ELSE "write"
        /\ Carried(n) /\ n.event = m.event /\ n.key = m.key
  <2>1. CASE m.event = "end"
    <3> DEFINE K == {k \in Sid : rec[k].parsid = sid[p]}
    <3>1. hook' = [hook EXCEPT ![p] = "kids"] /\ mem' = [mem EXCEPT ![p] = [m EXCEPT !.kids = K]]
      BY <2>1 DEF R!Decided, R!Go
    <3>2. Carried([m EXCEPT !.kids = K])  BY DEF Carried
    <3>3. [m EXCEPT !.kids = K].event = m.event /\ [m EXCEPT !.kids = K].key = m.key
      BY DEF Carried
    <3> QED  BY <2>1, <3>1, <3>2, <3>3
  <2>2. CASE m.event # "end"  BY <2>2 DEF R!Decided, R!Go
  <2> QED  BY <2>1, <2>2
<1>2. hook'[p] = to /\ mem'[p] = n /\ Active(p) /\ InHook(p)
  BY <1>1 DEF RecordsInv, Active, InHook, Deciding
<1>3. /\ hook'[p] = IF mem'[p].event = "end" THEN "kids" ELSE "write"
      /\ mem'[p].event = mem[p].event /\ mem'[p].key = m.key /\ stage'[p] = stage[p]
  BY <1>1, <1>2
<1>4. HookIsTyped(p)'  BY <1>1, <1>2, <1>3 DEF HookIsTyped, Acting
<1>5. /\ stage[p] = IF mem[p].event = "end" THEN "over" ELSE "open"
      /\ hook[p] = "unadopt" => mem[p].event = "start"
  BY <1>2 DEF RecordsInv, InItsStage
<1>6. InItsStage(p)'  BY <1>3, <1>5 DEF InItsStage, InHook, Acting
<1>7. ASSUME R!Orderly' PROVE IsOrderly(p)'
  <2>0. IsOrderly(p)  BY DEF RecordsInv, OrderlyInv
  <2>1. JudgedStands(p)'  BY <1>3, <1>7 DEF JudgedStands
  <2>2. ActsOnItsOwn(p)'
    BY <1>3, <1>7, <2>0 DEF ActsOnItsOwn, Acting, IsOrderly, Unnamed
  <2>3. IsAtHome(p)' /\ OverIsNotNamed(p)'
    BY <1>3 DEF IsAtHome, InHook, OverIsNotNamed, R!Over
  <2>4. ChildIsReplaced(p)'
    <3>1. Starting(p) => Starting(p)'  BY <1>3, <1>5, <1>7 DEF Starting
    <3> QED  BY <2>0, <3>1 DEF ChildIsReplaced, R!Started, IsOrderly
  <2>5. PaneIsLeft(p)'
    <3>1. HasNoPane(p)' => HasNoPane(p) \/ m.key # Pane
      BY <1>2, <1>3 DEF HasNoPane, InHook, R!Over, Deciding
    <3>2. m.key = Pane => PaneIsLeft(p)'
      BY <2>0, <3>1 DEF PaneIsLeft, R!Started, IsOrderly, Alone
    <3>3. m.key # Pane => PaneIsLeft(p)'  BY <1>7 DEF PaneIsLeft, R!Started, Alone
    <3> QED  BY <3>2, <3>3
  <2> QED  BY <2>1, <2>2, <2>3, <2>4, <2>5 DEF IsOrderly
<1>8. stage' = [stage EXCEPT ![p] = stage[p]] /\ left' \in 0..Events
  BY DEF RecordsInv, R!TypeOK
<1> HIDE DEF R!Orderly
<1>9. DecidesWithout(p)'
  BY <1>3, <1>5 DEF DecidesWithout, Acting, Deciding, Unnamed
<1>10. stage[p] \in {"new", "open", "over"}  BY <1>5
<1> QED  BY <1>1, <1>2, <1>4, <1>6, <1>7, <1>8, <1>9, <1>10, MoveKeeps

\* A hook goes on to decide.
LEMMA DecidesKeeps ==
  ASSUME RecordsInv, R!Orderly, NEW p \in Proc, hook[p] \in Deciding,
         NEW to \in {"pane", "walk", "family", "unadopt", "guard"},
         NEW m, Carried(m), m.event = mem[p].event, R!Go(p, to, m),
         UNCHANGED <<rec, live, reused, kind, sid, stage, left, front, abort>>,
         R!Orderly' => past' = past,
         Unnamed(p),
         to = "pane" => m.event # "start" /\ kind[p] \in {"pane", "child"},
         to = "unadopt" => m.event = "start",
         R!Orderly' =>
           /\ Starting(p) => to \in {"walk", "family", "unadopt"}
           /\ to \in {"unadopt", "guard"} => m.key = Pane /\ kind[p] \in {"pane", "job"}
           /\ to = "guard" => kind[p] = "job"
           /\ to = "family" => kind[p] # "job" /\ (kind[p] = "pane" => p \notin live)
           /\ to \in {"walk", "family"} /\ Alone(p) /\ kind[p] = "pane" => rec[Pane].sid # sid[p]
  PROVE  RecordsInv'
<1>1. hook' = [hook EXCEPT ![p] = to] /\ mem' = [mem EXCEPT ![p] = m]
  BY DEF R!Go
<1>2. hook'[p] = to /\ mem'[p] = m /\ Active(p) /\ InHook(p)
  BY <1>1 DEF RecordsInv, Active, InHook, Deciding
<1>3. mem'[p].event = mem[p].event /\ mem'[p].key = m.key /\ stage'[p] = stage[p]
  BY <1>2
<1>4. HookIsTyped(p)'  BY <1>2 DEF HookIsTyped, Deciding
<1>5. stage[p] = IF mem[p].event = "end" THEN "over" ELSE "open"
  BY <1>2 DEF RecordsInv, InItsStage
<1>6. InItsStage(p)'  BY <1>2, <1>3, <1>5 DEF InItsStage, InHook, Acting
<1>7. DecidesWithout(p)'  BY DEF DecidesWithout, Unnamed
<1>8. ASSUME R!Orderly' PROVE IsOrderly(p)'
  <2>0. IsOrderly(p)  BY DEF RecordsInv, OrderlyInv
  <2>1. JudgedStands(p)'  BY <1>2 DEF JudgedStands
  <2>2. ActsOnItsOwn(p)'
    BY <1>2, <1>8, <2>0 DEF ActsOnItsOwn, Acting, IsOrderly, Unnamed
  <2>3. IsAtHome(p)' /\ OverIsNotNamed(p)'
    BY <1>2 DEF IsAtHome, InHook, OverIsNotNamed, R!Over
  <2>4. ChildIsReplaced(p)'
    <3>1. Starting(p) => Starting(p)'
      BY <1>2, <1>3, <1>5, <1>8 DEF Starting, Deciding
    <3> QED  BY <2>0, <3>1 DEF ChildIsReplaced, R!Started, IsOrderly
  <2>5. PaneIsLeft(p)'
    <3>1. HasNoPane(p)' => HasNoPane(p) \/ (to \in {"walk", "family"} /\ kind[p] = "pane")
      BY <1>2, <1>3 DEF HasNoPane, InHook, R!Over, Acting
    <3>2. HasNoPane(p) => PaneIsLeft(p)'
      BY <2>0 DEF PaneIsLeft, R!Started, IsOrderly, Alone
    <3>3. to \in {"walk", "family"} /\ kind[p] = "pane" => PaneIsLeft(p)'
      BY <1>8 DEF PaneIsLeft, R!Started, Alone
    <3>4. ~HasNoPane(p)' => PaneIsLeft(p)'  BY DEF PaneIsLeft
    <3> QED  BY <3>1, <3>2, <3>3, <3>4
  <2> QED  BY <2>1, <2>2, <2>3, <2>4, <2>5 DEF IsOrderly
<1>9. stage' = [stage EXCEPT ![p] = stage[p]] /\ left' \in 0..Events /\ stage[p] \in {"new", "open", "over"}
  BY <1>5 DEF RecordsInv, R!TypeOK
<1> QED  BY <1>1, <1>2, <1>4, <1>6, <1>7, <1>8, <1>9, MoveKeeps

-----------------------------------------------------------------------------
(* The session records: the steps of a hook that read *)

\* What a hook that is being decided knows, in one place.
LEMMA Deciders ==
  ASSUME RecordsInv, R!Orderly, NEW p \in Proc, hook[p] \in Deciding
  PROVE  /\ Active(p) /\ InHook(p) /\ Carried(mem[p]) /\ InItsStage(p) /\ stage[p] # "new"
         /\ mem[p].event # "start" => ~Starting(p)
         /\ p \in R!Started /\ sid[p] \in Sid /\ sid[p] # Pane /\ sid[p] # None
         /\ IsOrderly(p) /\ DecidesWithout(p)
<1>1. Active(p) /\ InHook(p) /\ InItsStage(p)  BY DEF RecordsInv, Active, InHook, Deciding
<1>2. stage[p] # "new"  BY <1>1 DEF InItsStage
<1>3. mem[p].event # "start" => ~Starting(p)  BY <1>2 DEF Starting
<1> QED  BY <1>1, <1>2, <1>3, AtWork DEF RecordsInv, OrderlyInv, HookIsTyped

LEMMA TestOwnKeeps ==
  ASSUME RecordsInv, R!Orderly, NEW p \in Proc, R!TestOwn(p) PROVE RecordsInv'
<1> DEFINE r == rec[sid[p]]
<1>0. hook[p] = "own" /\ past' = past
  BY DEF R!TestOwn, R!At
<1>1. /\ Active(p) /\ InHook(p) /\ Carried(mem[p]) /\ InItsStage(p) /\ stage[p] # "new"
      /\ mem[p].event # "start" => ~Starting(p)
      /\ p \in R!Started /\ sid[p] \in Sid /\ sid[p] # Pane /\ sid[p] # None
      /\ IsOrderly(p) /\ DecidesWithout(p)
  BY <1>0, Deciders DEF Deciding
<1>2. mem[p].event # "start" /\ ~Starting(p)  BY <1>0, <1>1 DEF InItsStage
<1>3. UNCHANGED <<rec, live, reused, kind, sid, stage, left, front, abort>>
  BY DEF R!TestOwn, R!World
<1>4. RecordsAreOfTheirKey  BY DEF RecordsInv
<1>5. CASE r # R!NoRecord /\ R!Go(p, "own read", mem[p])
  <2>1. hook' = [hook EXCEPT ![p] = "own read"] /\ mem' = [mem EXCEPT ![p] = mem[p]]
    BY <1>5 DEF R!Go
  <2>2. hook'[p] = "own read" /\ mem'[p] = mem[p] /\ stage'[p] = stage[p]
    BY <1>3, <2>1 DEF RecordsInv
  <2>3. Alone(p) /\ kind[p] = "pane" => rec[Pane].sid # sid[p]
    <3>1. CASE r.pid = p  BY <1>1, <3>1 DEF IsOrderly, PaneIsLeft, HasNoPane
    <3>2. CASE r.pid # p
      <4> DEFINE q == r.pid
      <4>1. q \in Proc /\ sid[q] = sid[p] /\ q \in R!Started /\ q # p
        BY <1>1, <1>4, <1>5, <3>2 DEF RecordsAreOfTheirKey, R!Started
      <4>2. kind[p] # "child" => kind[q] # "child"
        BY <1>1, <1>2, <4>1 DEF IsOrderly, ChildIsReplaced
      <4> QED  BY <4>1, <4>2 DEF Alone
    <3> QED  BY <3>1, <3>2
  <2>4. HookIsTyped(p)'  BY <1>1, <2>2 DEF HookIsTyped, Deciding
  <2>5. InItsStage(p)'  BY <1>1, <1>2, <2>2 DEF InItsStage, InHook, Acting
  <2>6. DecidesWithout(p)'
    BY <1>1, <2>2 DEF DecidesWithout, Deciding, Acting
  <2>7. ASSUME R!Orderly' PROVE IsOrderly(p)'
    <3>1. JudgedStands(p)'  BY <2>2 DEF JudgedStands
    <3>2. ActsOnItsOwn(p)'
      BY <1>1, <1>3, <2>2 DEF ActsOnItsOwn, Acting, IsOrderly, Unnamed
    <3>3. IsAtHome(p)' /\ OverIsNotNamed(p)'
      BY <2>2 DEF IsAtHome, InHook, OverIsNotNamed, R!Over
    <3>4. ChildIsReplaced(p)'
      BY <1>1, <1>2, <1>3 DEF ChildIsReplaced, R!Started, IsOrderly
    <3>5. PaneIsLeft(p)'
      <4>1. HasNoPane(p)' => HasNoPane(p) \/ kind[p] = "pane"
        BY <1>0, <1>1, <1>2, <1>3, <2>2 DEF HasNoPane, InHook, R!Over, Acting
      <4> QED  BY <1>1, <1>3, <2>3, <4>1 DEF PaneIsLeft, R!Started, IsOrderly, Alone
    <3> QED  BY <3>1, <3>2, <3>3, <3>4, <3>5 DEF IsOrderly
  <2>8. stage' = [stage EXCEPT ![p] = stage[p]] /\ left' \in 0..Events /\ stage[p] \in {"new", "open", "over"}
    BY <1>1, <1>3 DEF RecordsInv, R!TypeOK
  <2> QED  BY <1>0, <1>1, <1>3, <2>1, <2>4, <2>5, <2>6, <2>7, <2>8, MoveKeeps
<1>6. CASE r = R!NoRecord /\ R!Go(p, IF R!Handed(p) THEN "pane" ELSE "walk", mem[p])
  <2>1. Unnamed(p)
    BY <1>1, <1>4, <1>6, Names DEF Unnamed, RecordsAreOfTheirKey, R!NoRecord
  <2>2. CASE R!Handed(p)
    BY <1>0, <1>1, <1>2, <1>3, <1>6, <2>1, <2>2, DecidesKeeps DEF Deciding, R!Handed
  <2>3. CASE ~R!Handed(p)
    BY <1>0, <1>1, <1>2, <1>3, <1>6, <2>1, <2>3, DecidesKeeps DEF Deciding, R!Handed
  <2> QED  BY <2>2, <2>3
<1> QED  BY <1>5, <1>6 DEF R!TestOwn

LEMMA ReadOwnKeeps ==
  ASSUME RecordsInv, R!Orderly, NEW p \in Proc, R!ReadOwn(p) PROVE RecordsInv'
<1> DEFINE r == rec[sid[p]]
<1>0. hook[p] = "own read" /\ past' = past
  BY DEF R!ReadOwn, R!At
<1>1. /\ Active(p) /\ InHook(p) /\ Carried(mem[p]) /\ InItsStage(p) /\ stage[p] # "new"
      /\ mem[p].event # "start" => ~Starting(p)
      /\ p \in R!Started /\ sid[p] \in Sid /\ sid[p] # Pane /\ sid[p] # None
      /\ IsOrderly(p) /\ DecidesWithout(p)
  BY <1>0, Deciders DEF Deciding
<1>2. mem[p].event # "start" /\ ~Starting(p)  BY <1>0, <1>1 DEF InItsStage
<1>3. UNCHANGED <<rec, live, reused, kind, sid, stage, left, front, abort>>
  BY DEF R!ReadOwn, R!World
<1>4. RecordsAreOfTheirKey  BY DEF RecordsInv
<1>5. r.pid # p => Unnamed(p)
  BY <1>1, <1>4, Names DEF Unnamed, RecordsAreOfTheirKey, R!NoRecord
<1>6. CASE r.pid = p /\ R!Decided(p, [mem[p] EXCEPT !.key = sid[p], !.parsid = r.parsid])
  <2> DEFINE m == [mem[p] EXCEPT !.key = sid[p], !.parsid = r.parsid]
  <2>1. Carried(m) /\ m.event = mem[p].event /\ m.key = sid[p]
    BY <1>1 DEF Carried, Keys, RecordsInv, R!TypeOK, R!Key
  <2>2. ~(kind[p] = "pane" /\ p \in live)
    BY <1>1, <1>6 DEF IsOrderly, ActsOnItsOwn, Unnamed
  <2>3. Alone(p) /\ kind[p] \in {"pane", "job"} => rec[Pane].sid # sid[p]
    BY <1>1, <1>6 DEF IsOrderly, PaneIsLeft, HasNoPane
  <2> HIDE DEF m
  <2> QED  BY <1>0, <1>1, <1>3, <1>6, <2>1, <2>2, <2>3, DecidedKeeps DEF Deciding, m
<1>7. CASE r.pid # p /\ R!Go(p, "walk", mem[p])
  <2>1. Alone(p) /\ kind[p] = "pane" => rec[Pane].sid # sid[p]
    BY <1>0, <1>1 DEF IsOrderly, PaneIsLeft, HasNoPane
  <2> QED  BY <1>0, <1>1, <1>2, <1>3, <1>5, <1>7, <2>1, DecidesKeeps DEF Deciding
<1> QED  BY <1>6, <1>7 DEF R!ReadOwn

LEMMA ReadPaneKeeps ==
  ASSUME RecordsInv, R!Orderly, NEW p \in Proc, R!ReadPane(p) PROVE RecordsInv'
<1>0. hook[p] = "pane"  BY DEF R!ReadPane, R!At
<1>1. /\ Active(p) /\ InHook(p) /\ Carried(mem[p]) /\ InItsStage(p) /\ stage[p] # "new"
      /\ mem[p].event # "start" => ~Starting(p)
      /\ p \in R!Started /\ sid[p] \in Sid /\ sid[p] # Pane /\ sid[p] # None
      /\ IsOrderly(p) /\ DecidesWithout(p)
  BY <1>0, Deciders DEF Deciding
<1>2. ~Starting(p) /\ Unnamed(p) /\ kind[p] \in {"pane", "child"}
  BY <1>0, <1>1 DEF InItsStage, IsOrderly, ActsOnItsOwn, DecidesWithout, Deciding
<1>3. UNCHANGED <<rec, live, reused, kind, sid, stage, left, front, abort>>
  BY DEF R!ReadPane, R!World
<1>4. R!Orderly' => past' = past /\ ~(rec[Pane].sid = None /\ kind[p] = "child")
  BY DEF R!ReadPane, R!Mark, R!Orderly
<1>5. CASE rec[Pane].sid \in {None, sid[p]} /\ R!Decided(p, [mem[p] EXCEPT !.key = Pane])
  <2> DEFINE m == [mem[p] EXCEPT !.key = Pane]
  <2>1. Carried(m) /\ m.event = mem[p].event /\ m.key = Pane
    BY <1>1 DEF Carried, Keys
  <2>2. ASSUME R!Orderly' PROVE kind[p] = "pane"
    <3> SUFFICES ASSUME kind[p] = "child" PROVE FALSE  BY <1>2
    <3>1. rec[Pane].sid = sid[p]  BY <1>4, <1>5, <2>2
    <3>2. PICK q \in R!Started : kind[q] \in {"pane", "job"} /\ sid[q] = sid[p]
      BY <1>1, <3>1 DEF RecordsInv, OrderlyInv, PaneIsOfThePane, R!NoRecord
    <3>3. ~Active(p)  BY <1>1, <3>2 DEF RecordsInv, SessionsApart
    <3> QED  BY <1>1, <3>3
  <2> HIDE DEF m
  <2>3. R!Decided(p, m)  BY <1>5 DEF m
  <2> QED  BY <1>0, <1>1, <1>2, <1>3, <1>4, <2>1, <2>2, <2>3, DecidedKeeps DEF Deciding
<1>6. CASE rec[Pane].sid \notin {None, sid[p]} /\ R!Go(p, "walk", mem[p])
  BY <1>0, <1>1, <1>2, <1>3, <1>4, <1>6, DecidesKeeps DEF Deciding
<1> QED  BY <1>5, <1>6 DEF R!ReadPane

LEMMA WalkKeeps ==
  ASSUME RecordsInv, R!Orderly, NEW p \in Proc, R!Walk(p) PROVE RecordsInv'
<1> DEFINE m == [mem[p] EXCEPT !.mine = R!Reaches(p), !.above = R!Above(p)]
<1>0. hook[p] = "walk"  BY DEF R!Walk, R!At
<1>1. /\ Active(p) /\ InHook(p) /\ Carried(mem[p]) /\ InItsStage(p) /\ stage[p] # "new"
      /\ mem[p].event # "start" => ~Starting(p)
      /\ p \in R!Started /\ sid[p] \in Sid /\ sid[p] # Pane /\ sid[p] # None
      /\ IsOrderly(p) /\ DecidesWithout(p)
  BY <1>0, Deciders DEF Deciding
<1>2. Unnamed(p)  BY <1>0, <1>1 DEF DecidesWithout, Deciding
<1>3. UNCHANGED <<rec, live, reused, kind, sid, stage, left, front, abort>>
  BY DEF R!Walk, R!World
<1>4. R!Orderly' => past' = past /\ ~(kind[p] = "job" /\ p \notin live)
  BY DEF R!Walk, R!Mark, R!Orderly
<1>5. R!Above(p) \in Proc \cup {None}  BY Names DEF R!Above
<1>6. /\ Carried(m) /\ m.event = mem[p].event
      /\ m.mine = R!Reaches(p) /\ m.above = R!Above(p)
  BY <1>1, <1>5 DEF Carried
<1>7. kind[p] \in {"pane", "child", "job", "headless"}
  BY DEF RecordsInv, R!TypeOK, R!Kinds
<1>8. PaneIsLeft(p)  BY <1>1 DEF IsOrderly
<1>9. Alone(p) /\ (kind[p] = "pane" \/ (kind[p] = "job" /\ mem[p].event = "start")) => rec[Pane].sid # sid[p]
  BY <1>0, <1>1, <1>8 DEF PaneIsLeft, HasNoPane
<1> HIDE DEF m
<1>10. CASE (m.above # None \/ (R!Handed(p) /\ ~m.mine)) /\ R!Go(p, "family", m)
  <2>1. m.above # None => kind[p] = "child"  BY <1>6 DEF R!Above
  <2>2. R!Handed(p) => kind[p] \in {"pane", "child"}  BY DEF R!Handed
  <2>3. kind[p] # "job" /\ (kind[p] = "pane" => p \notin live)
    BY <1>6, <1>10, <2>1, <2>2 DEF R!Reaches
  <2> QED  BY <1>0, <1>1, <1>2, <1>3, <1>4, <1>6, <1>9, <1>10, <2>3, DecidesKeeps DEF Deciding
<1>11. CASE ~(m.above # None \/ (R!Handed(p) /\ ~m.mine)) /\ R!NotAChild(p, m)
  <2>1. m.mine <=> p \in live /\ kind[p] \in {"pane", "job"}
    BY <1>6, <1>11 DEF R!Reaches
  <2>2. R!Handed(p) => m.mine  BY <1>11
  <2>3. CASE m.mine
    <3> DEFINE n == [m EXCEPT !.key = Pane]
    <3>1. Carried(n) /\ n.event = mem[p].event /\ n.key = Pane
      BY <1>6 DEF Carried, Keys
    <3>2. p \in live /\ kind[p] \in {"pane", "job"} /\ (R!Handed(p) <=> kind[p] = "pane")
      BY <2>1, <2>3 DEF R!Handed
    <3>3. /\ mem[p].event = "start" => R!Go(p, "unadopt", n)
          /\ mem[p].event # "start" /\ R!Handed(p) => R!Decided(p, n)
          /\ mem[p].event # "start" /\ ~R!Handed(p) => R!Go(p, "guard", n)
      BY <1>6, <1>11, <2>3 DEF R!NotAChild
    <3> HIDE DEF n
    <3>4. CASE mem[p].event = "start"
      BY <1>0, <1>1, <1>2, <1>3, <1>4, <3>1, <3>2, <3>3, <3>4, DecidesKeeps DEF Deciding
    <3>5. CASE mem[p].event # "start" /\ R!Handed(p)
      BY <1>0, <1>1, <1>2, <1>3, <1>4, <3>1, <3>2, <3>3, <3>5, DecidedKeeps DEF Deciding
    <3>6. CASE mem[p].event # "start" /\ ~R!Handed(p)
      BY <1>0, <1>1, <1>2, <1>3, <1>4, <3>1, <3>2, <3>3, <3>6, DecidesKeeps DEF Deciding
    <3> QED  BY <3>4, <3>5, <3>6
  <2>4. CASE ~m.mine
    <3> DEFINE n == [m EXCEPT !.key = sid[p]]
    <3>1. Carried(n) /\ n.event = mem[p].event /\ n.key = sid[p]
      BY <1>1, <1>6 DEF Carried, Keys
    <3>2. R!Decided(p, n)  BY <1>11, <2>2, <2>4 DEF R!NotAChild
    <3>3. ~R!Handed(p) /\ kind[p] # "pane"  BY <2>2, <2>4 DEF R!Handed
    <3>4. R!Orderly' => kind[p] \notin {"pane", "job"}  BY <1>4, <2>1, <2>4, <3>3
    <3> HIDE DEF n
    <3> QED
      BY <1>0, <1>1, <1>3, <1>4, <3>1, <3>2, <3>3, <3>4, DecidedKeeps DEF Deciding
  <2> QED  BY <2>3, <2>4
<1> QED  BY <1>10, <1>11 DEF R!Walk, m

LEMMA FamilyKeeps ==
  ASSUME RecordsInv, R!Orderly, NEW p \in Proc, R!Family(p) PROVE RecordsInv'
<1>0. hook[p] = "family" /\ past' = past  BY DEF R!Family, R!At
<1>1. /\ Active(p) /\ InHook(p) /\ Carried(mem[p]) /\ InItsStage(p) /\ stage[p] # "new"
      /\ mem[p].event # "start" => ~Starting(p)
      /\ p \in R!Started /\ sid[p] \in Sid /\ sid[p] # Pane /\ sid[p] # None
      /\ IsOrderly(p) /\ DecidesWithout(p)
  BY <1>0, Deciders DEF Deciding
<1>2. UNCHANGED <<rec, live, reused, kind, sid, stage, left, front, abort>>
  BY DEF R!Family, R!World
<1>3. PICK m : R!Decided(p, m) /\ Carried(m) /\ m.event = mem[p].event /\ m.key = sid[p]
  <2> DEFINE child(parent) == [mem[p] EXCEPT !.key = sid[p], !.parsid = parent]
             own == [mem[p] EXCEPT !.key = sid[p]]
  <2>1. \A k \in Keys : rec[k].sid \in Sid \cup {None}
    BY DEF RecordsInv, R!TypeOK, R!Key, Keys
  <2>2. \A s \in Sid \cup {None} :
          Carried(child(s)) /\ child(s).event = mem[p].event /\ child(s).key = sid[p]
    BY <1>1 DEF Carried, Keys
  <2>3. Carried(own) /\ own.event = mem[p].event /\ own.key = sid[p]
    BY <1>1 DEF Carried, Keys
  <2>4. (\E k \in Keys : R!Decided(p, child(rec[k].sid))) \/ R!Decided(p, own)
    BY DEF R!Family, R!NotAChild, Keys
  <2> HIDE DEF child, own
  <2> QED  BY <2>1, <2>2, <2>3, <2>4
<1>4. kind[p] # "job" /\ (kind[p] = "pane" => p \notin live)
  BY <1>0, <1>1 DEF IsOrderly, ActsOnItsOwn
<1>5. Alone(p) /\ kind[p] = "pane" => rec[Pane].sid # sid[p]
  BY <1>0, <1>1 DEF IsOrderly, PaneIsLeft, HasNoPane
<1> QED  BY <1>0, <1>1, <1>2, <1>3, <1>4, <1>5, DecidedKeeps DEF Deciding

LEMMA GuardKeeps ==
  ASSUME RecordsInv, R!Orderly, NEW p \in Proc, R!Guard(p) PROVE RecordsInv'
<1>0. hook[p] = "guard" /\ past' = past  BY DEF R!Guard, R!At
<1>1. /\ Active(p) /\ InHook(p) /\ Carried(mem[p]) /\ InItsStage(p) /\ stage[p] # "new"
      /\ mem[p].event # "start" => ~Starting(p)
      /\ p \in R!Started /\ sid[p] \in Sid /\ sid[p] # Pane /\ sid[p] # None
      /\ IsOrderly(p) /\ DecidesWithout(p)
  BY <1>0, Deciders DEF Deciding
<1>2. UNCHANGED <<rec, live, reused, kind, sid, stage, left, front, abort>>
  BY DEF R!Guard, R!World
<1>3. Unnamed(p) /\ kind[p] = "job" /\ mem[p].key = Pane /\ ~Starting(p)
  BY <1>0, <1>1 DEF DecidesWithout, Deciding, IsOrderly, ActsOnItsOwn, Starting
<1>4. CASE rec[Pane].sid \in {None, sid[p]} /\ R!Decided(p, mem[p])
  BY <1>0, <1>1, <1>2, <1>3, <1>4, DecidedKeeps DEF Deciding
<1>5. CASE rec[Pane].sid \notin {None, sid[p]} /\ R!Decided(p, [mem[p] EXCEPT !.key = sid[p]])
  <2> DEFINE m == [mem[p] EXCEPT !.key = sid[p]]
  <2>1. Carried(m) /\ m.event = mem[p].event /\ m.key = sid[p]
    BY <1>1 DEF Carried, Keys
  <2>2. R!Decided(p, m)  BY <1>5
  <2> HIDE DEF m
  <2> QED  BY <1>0, <1>1, <1>2, <1>3, <1>5, <2>1, <2>2, DecidedKeeps DEF Deciding
<1> QED  BY <1>4, <1>5 DEF R!Guard

LEMMA ReadKidKeeps ==
  ASSUME RecordsInv, R!Orderly, NEW p \in Proc, R!ReadKid(p) PROVE RecordsInv'
<1>0. hook[p] = "kids" /\ past' = past  BY DEF R!ReadKid, R!At
<1>1. Active(p) /\ InHook(p) /\ Carried(mem[p]) /\ InItsStage(p) /\ IsOrderly(p) /\ DecidesWithout(p)
  BY <1>0 DEF RecordsInv, OrderlyInv, Active, InHook, HookIsTyped
<1>2. UNCHANGED <<rec, live, reused, kind, sid, stage, left, front, abort>>
  BY DEF R!ReadKid, R!World
<1>3. PICK to, m : /\ hook' = [hook EXCEPT ![p] = to] /\ mem' = [mem EXCEPT ![p] = m]
                   /\ to \in {"kids", "remove kid"} /\ Carried(m)
                   /\ m.event = mem[p].event /\ m.key = mem[p].key
                   /\ to = "remove kid" => m.kid \in Sid /\ rec[m.kid].pid \notin live
  <2>1. PICK k \in mem[p].kids :
          LET m == [mem[p] EXCEPT !.kids = @ \ {k}]
              gone == rec[k].parsid = sid[p] /\ rec[k].pid \notin live \cup reused IN
          R!Go(p, IF gone THEN "remove kid" ELSE "kids", IF gone THEN [m EXCEPT !.kid = k] ELSE m)
    BY DEF R!ReadKid
  <2> DEFINE m == [mem[p] EXCEPT !.kids = @ \ {k}]
             n == [m EXCEPT !.kid = k]
             gone == rec[k].parsid = sid[p] /\ rec[k].pid \notin live \cup reused
  <2>2. k \in Sid  BY <1>1 DEF Carried
  <2>3. Carried(m) /\ m.event = mem[p].event /\ m.key = mem[p].key
    BY <1>1 DEF Carried
  <2>4. Carried(n) /\ n.event = mem[p].event /\ n.key = mem[p].key /\ n.kid = k
    BY <2>2, <2>3 DEF Carried
  <2> HIDE DEF m, n
  <2>5. CASE gone
    <3>1. R!Go(p, "remove kid", n)  BY <2>1, <2>5 DEF m, n
    <3> QED  BY <2>2, <2>4, <2>5, <3>1 DEF R!Go
  <2>6. CASE ~gone
    <3>1. R!Go(p, "kids", m)  BY <2>1, <2>6 DEF m, n
    <3>2. hook' = [hook EXCEPT ![p] = "kids"] /\ mem' = [mem EXCEPT ![p] = m]
      BY <3>1 DEF R!Go
    <3>3. "kids" \in {"kids", "remove kid"} /\ "kids" # "remove kid"  OBVIOUS
    <3> QED  BY <2>3, <3>2, <3>3
  <2> QED  BY <2>5, <2>6
<1>4. /\ hook'[p] = to /\ mem'[p] = m /\ mem'[p].event = mem[p].event /\ mem'[p].key = mem[p].key
      /\ stage'[p] = stage[p]
  BY <1>2, <1>3 DEF RecordsInv
<1>5. HookIsTyped(p)'  BY <1>3, <1>4 DEF HookIsTyped, Acting
<1>6. InItsStage(p)' /\ stage[p] = "over"
  BY <1>0, <1>1, <1>3, <1>4 DEF InItsStage, InHook, Acting
<1>7. DecidesWithout(p)'
  BY <1>0, <1>1, <1>2, <1>3, <1>4, <1>6 DEF DecidesWithout, Acting, Deciding, Unnamed
<1>8. ASSUME R!Orderly' PROVE IsOrderly(p)'
  <2>1. JudgedStands(p)'
    <3>1. to = "remove kid" => mem'[p].kid = m.kid /\ rec[m.kid].pid \notin live
      BY <1>3, <1>4
    <3>2. hook'[p] = to /\ to \notin {"write", "remove"}  BY <1>3, <1>4
    <3>3. rec' = rec /\ live' = live  BY <1>2
    <3> QED  BY <3>1, <3>2, <3>3 DEF JudgedStands
  <2>2. ActsOnItsOwn(p)'
    BY <1>0, <1>1, <1>2, <1>3, <1>4 DEF ActsOnItsOwn, Acting, IsOrderly, Unnamed
  <2>3. IsAtHome(p)' /\ OverIsNotNamed(p)'
    BY <1>3, <1>4 DEF IsAtHome, InHook, OverIsNotNamed, R!Over
  <2>4. ChildIsReplaced(p)'
    <3>1. ~Starting(p)  BY <1>0, <1>6 DEF Starting
    <3> QED  BY <1>1, <1>2, <3>1 DEF ChildIsReplaced, R!Started, IsOrderly
  <2>5. PaneIsLeft(p)'
    <3>1. HasNoPane(p)' => HasNoPane(p)
      BY <1>0, <1>2, <1>3, <1>4 DEF HasNoPane, InHook, R!Over, Acting
    <3> QED  BY <1>1, <1>2, <3>1 DEF PaneIsLeft, R!Started, IsOrderly, Alone
  <2> QED  BY <2>1, <2>2, <2>3, <2>4, <2>5 DEF IsOrderly
<1>9. stage' = [stage EXCEPT ![p] = stage[p]] /\ left' \in 0..Events /\ stage[p] \in {"new", "open", "over"}
  BY <1>2, <1>6 DEF RecordsInv, R!TypeOK
<1> QED  BY <1>0, <1>1, <1>2, <1>3, <1>5, <1>6, <1>7, <1>8, <1>9, MoveKeeps

LEMMA QuietIsCarried == Carried(R!Quiet) /\ R!Quiet.event = "none"
BY DEF Carried, R!Quiet

LEMMA ReadOwnerKeeps ==
  ASSUME RecordsInv, R!Orderly, NEW p \in Proc, R!ReadOwner(p) PROVE RecordsInv'
<1>0. hook[p] = "kids" /\ past' = past  BY DEF R!ReadOwner, R!At
<1>1. Active(p) /\ InHook(p) /\ Carried(mem[p]) /\ InItsStage(p) /\ IsOrderly(p) /\ DecidesWithout(p)
  BY <1>0 DEF RecordsInv, OrderlyInv, Active, InHook, HookIsTyped
<1>2. UNCHANGED <<rec, live, reused, kind, sid, stage, left, front, abort>>
  BY DEF R!ReadOwner, R!World
<1>3. stage[p] = "over" /\ mem[p].event = "end" /\ ~Starting(p)
  BY <1>0, <1>1 DEF InItsStage, Acting, Starting
<1>4. p \in R!Started /\ sid[p] \in Sid  BY <1>1, AtWork
<1>5. stage' = [stage EXCEPT ![p] = stage[p]] /\ left' \in 0..Events /\ stage[p] \in {"new", "open", "over"}
  BY <1>2, <1>3 DEF RecordsInv, R!TypeOK
<1>6. mem[p].key = Pane => Unnamed(p)  BY <1>0, <1>1 DEF DecidesWithout, Acting
<1>7. mem[p].key \in {Pane, sid[p]}  BY <1>0, <1>1 DEF IsOrderly, ActsOnItsOwn, Acting
<1>8. CASE rec[mem[p].key].sid \in {None, sid[p]} /\ R!Go(p, "remove", mem[p])
  <2>1. hook' = [hook EXCEPT ![p] = "remove"] /\ mem' = [mem EXCEPT ![p] = mem[p]]
    BY <1>8 DEF R!Go
  <2>2. hook'[p] = "remove" /\ mem'[p] = mem[p] /\ stage'[p] = stage[p]
    BY <1>2, <2>1 DEF RecordsInv
  <2>3. HookIsTyped(p)'  BY <1>1, <2>2 DEF HookIsTyped, Acting
  <2>4. InItsStage(p)'  BY <1>3, <2>2 DEF InItsStage, InHook, Acting
  <2>5. DecidesWithout(p)'
    BY <1>2, <1>3, <1>6, <2>2 DEF DecidesWithout, Acting, Deciding, Unnamed
  <2>6. IsOrderly(p)'
    <3>1. JudgedStands(p)'  BY <1>2, <1>8, <2>2 DEF JudgedStands
    <3>2. ActsOnItsOwn(p)'
      BY <1>0, <1>1, <1>2, <2>2 DEF ActsOnItsOwn, Acting, IsOrderly, Unnamed
    <3>3. IsAtHome(p)' /\ OverIsNotNamed(p)'
      BY <2>2 DEF IsAtHome, InHook, OverIsNotNamed, R!Over
    <3>4. ChildIsReplaced(p)'
      BY <1>1, <1>2, <1>3 DEF ChildIsReplaced, R!Started, IsOrderly
    <3>5. PaneIsLeft(p)'
      <4>1. HasNoPane(p)' => HasNoPane(p)
        BY <1>0, <1>2, <2>2 DEF HasNoPane, InHook, R!Over, Acting
      <4> QED  BY <1>1, <1>2, <4>1 DEF PaneIsLeft, R!Started, IsOrderly, Alone
    <3> QED  BY <3>1, <3>2, <3>3, <3>4, <3>5 DEF IsOrderly
  <2> QED  BY <1>0, <1>1, <1>2, <1>5, <2>1, <2>3, <2>4, <2>5, <2>6, MoveKeeps
<1>9. CASE rec[mem[p].key].sid \notin {None, sid[p]} /\ R!Ended(p)
  <2>1. hook' = [hook EXCEPT ![p] = "idle"] /\ mem' = [mem EXCEPT ![p] = R!Quiet]
    BY <1>9 DEF R!Ended
  <2>2. hook'[p] = "idle" /\ mem'[p] = R!Quiet /\ stage'[p] = stage[p]
    BY <1>2, <2>1 DEF RecordsInv
  <2>3. HookIsTyped(p)'  BY <2>2, QuietIsCarried DEF HookIsTyped
  <2>4. InItsStage(p)'  BY <2>2 DEF InItsStage, InHook
  <2>5. DecidesWithout(p)'  BY <1>3, <2>2 DEF DecidesWithout, Acting, Deciding
  <2>6. mem[p].key = Pane /\ Unnamed(p) /\ rec[Pane].sid # sid[p]
    BY <1>4, <1>6, <1>7, <1>9, Names DEF RecordsInv, RecordsAreOfTheirKey, R!NoRecord
  <2>7. IsOrderly(p)'
    <3>1. JudgedStands(p)'  BY <2>2 DEF JudgedStands
    <3>2. ActsOnItsOwn(p)'  BY <1>2, <2>2, <2>6 DEF ActsOnItsOwn, Acting, Unnamed
    <3>3. IsAtHome(p)' /\ OverIsNotNamed(p)'
      BY <1>2, <1>3, <2>2, <2>6 DEF IsAtHome, OverIsNotNamed, Unnamed
    <3>4. ChildIsReplaced(p)'
      BY <1>1, <1>2, <1>3 DEF ChildIsReplaced, R!Started, IsOrderly
    <3>5. PaneIsLeft(p)'  BY <1>2, <2>6 DEF PaneIsLeft
    <3> QED  BY <3>1, <3>2, <3>3, <3>4, <3>5 DEF IsOrderly
  <2> QED  BY <1>0, <1>1, <1>2, <1>5, <2>1, <2>3, <2>4, <2>5, <2>7, MoveKeeps
<1> QED  BY <1>8, <1>9 DEF R!ReadOwner

\* A hook begins in a process that has none.
LEMMA FireKeeps ==
  ASSUME RecordsInv, R!Orderly, NEW p \in Proc, NEW event \in {"start", "update", "end"},
         R!Fire(p, event)
  PROVE  RecordsInv'
<1> DEFINE to == IF event = "start" THEN "walk" ELSE "own"
           m == [R!Quiet EXCEPT !.event = event]
           st == IF event = "end" THEN "over" ELSE "open"
<1>0. /\ p \in live /\ hook[p] = "idle" /\ past' = past
      /\ IF event = "start" THEN stage[p] = "new"
         ELSE stage[p] = "open" \/ (stage[p] = "new" /\ p \in Missed)
  BY DEF R!Fire, R!At
<1>1. Active(p) /\ ~InHook(p) /\ IsOrderly(p) /\ DecidesWithout(p)
  BY <1>0 DEF RecordsInv, OrderlyInv, Active, InHook
<1>2. UNCHANGED <<rec, live, reused, kind, sid, front, abort>>  BY DEF R!Fire
<1>3. Carried(m) /\ m.event = event
  BY QuietIsCarried DEF Carried, R!Quiet
<1>4. /\ hook' = [hook EXCEPT ![p] = to] /\ mem' = [mem EXCEPT ![p] = m]
      /\ stage' = [stage EXCEPT ![p] = st]
  BY DEF R!Fire, R!Go
<1>5. left' \in 0..Events
  <2>1. Events \in Nat  BY ShellAssumption DEF R!RecordsAssumption
  <2>2. left \in 0..Events  BY DEF RecordsInv, R!TypeOK
  <2>3. left' = left \/ (left > 0 /\ left' = left - 1)  BY DEF R!Fire
  <2> QED  BY <2>1, <2>2, <2>3
<1> HIDE DEF m
<1>6. hook'[p] = to /\ mem'[p] = m /\ stage'[p] = st /\ mem'[p].event = event
  BY <1>3, <1>4 DEF RecordsInv, R!TypeOK
<1>7. HookIsTyped(p)'  BY <1>3, <1>6 DEF HookIsTyped, Deciding
<1>8. InItsStage(p)'  BY <1>6 DEF InItsStage, InHook, Acting
<1>9. DecidesWithout(p)'
  BY <1>0, <1>1, <1>2, <1>6 DEF DecidesWithout, Acting, Deciding, Unnamed
<1>10. p \in R!Started /\ kind[p] \in MayBe[p]
  BY <1>1 DEF RecordsInv, OfTheStarted
<1>11. IsOrderly(p)'
  <2>1. JudgedStands(p)'  BY <1>6 DEF JudgedStands
  <2>2. ActsOnItsOwn(p)'  BY <1>1, <1>2, <1>6 DEF ActsOnItsOwn, Acting, IsOrderly, Unnamed
  <2>3. IsAtHome(p)' /\ OverIsNotNamed(p)'
    BY <1>6 DEF IsAtHome, InHook, OverIsNotNamed, R!Over
  <2>4. ChildIsReplaced(p)'
    <3>1. CASE event = "start"  BY <1>6, <3>1 DEF ChildIsReplaced, Starting
    <3>2. CASE event # "start" /\ stage[p] = "open"
      <4>1. ~Starting(p)  BY <1>0, <3>2 DEF Starting
      <4> QED  BY <1>1, <1>2, <4>1 DEF ChildIsReplaced, R!Started, IsOrderly
    <3>3. CASE p \in Missed
      <4>1. kind[p] = "child"  BY <1>10, <3>3, Names
      <4> QED  BY <1>2, <4>1 DEF ChildIsReplaced
    <3> QED  BY <1>0, <3>1, <3>2, <3>3
  <2>5. PaneIsLeft(p)'
    <3>1. HasNoPane(p)' => HasNoPane(p)
      BY <1>0, <1>2, <1>6 DEF HasNoPane, InHook, R!Over, Acting
    <3> QED  BY <1>1, <1>2, <3>1 DEF PaneIsLeft, R!Started, IsOrderly, Alone
  <2> QED  BY <2>1, <2>2, <2>3, <2>4, <2>5 DEF IsOrderly
<1>12. st \in {"new", "open", "over"} OBVIOUS
<1> HIDE DEF to, st
<1> QED  BY <1>0, <1>1, <1>2, <1>4, <1>5, <1>7, <1>8, <1>9, <1>11, <1>12, MoveKeeps

-----------------------------------------------------------------------------
(* The session records: the steps of a hook that change a record *)

\* A hook removes a record or writes its own: what the others rely on stays.
LEMMA ChangeKeeps ==
  ASSUME RecordsInv, R!Orderly, NEW p \in Proc, InHook(p),
         NEW key \in Keys, NEW r, NEW to, NEW m,
         rec' = [rec EXCEPT ![key] = r],
         hook' = [hook EXCEPT ![p] = to], mem' = [mem EXCEPT ![p] = m],
         UNCHANGED <<live, reused, kind, sid, stage, left, front, abort>>,
         R!Orderly' => past' = past,
         \/ r = R!NoRecord
         \/ /\ r.sid = sid[p] /\ r.pid = IF key = Pane THEN None ELSE p
            /\ r \in [sid : Sid \cup {None}, pid : Proc \cup {None}, parsid : Sid \cup {None}]
            /\ key \in {Pane, sid[p]} /\ (R!Orderly' => ~R!Judged(p, key)),
         key \in {Pane, sid[p]} \/ rec[key].pid \notin live,
         key = Pane =>
           kind[p] \in {"pane", "job"} /\ (kind[p] = "job" => rec[Pane].sid \in {None, sid[p]}),
         HookIsTyped(p)', InItsStage(p)', DecidesWithout(p)',
         R!Orderly' => IsOrderly(p)'
  PROVE  RecordsInv'
<1>0. /\ p \in R!Started /\ sid[p] \in Sid /\ sid[p] # Pane /\ sid[p] # None /\ Active(p)
      /\ R!TypeOK /\ SessionsApart
  BY AtWork DEF Active, RecordsInv
<1>1. R!NoRecord \in [sid : Sid \cup {None}, pid : Proc \cup {None}, parsid : Sid \cup {None}]
  BY DEF R!NoRecord
<1>2. R!TypeOK' /\ DOMAIN hook' = Proc /\ DOMAIN mem' = Proc
  BY <1>1 DEF RecordsInv, R!TypeOK
<1>3. \A q \in Proc \ {p} : hook'[q] = hook[q] /\ mem'[q] = mem[q] /\ stage'[q] = stage[q]
  BY DEF RecordsInv
<1>4. rec'[key] = r /\ \A k \in Keys \ {key} : rec'[k] = rec[k]
  BY <1>0 DEF R!TypeOK, R!Key, Keys
<1>5. r.pid \in {None, p} /\ r.sid \in {None, sid[p]}  BY DEF R!NoRecord
<1>6. R!Started' = R!Started /\ R!Started \subseteq Proc  BY DEF R!Started
<1>7. \A q \in Proc : Active(q)' => Active(q)  BY <1>0, <1>3 DEF Active, InHook
<1>8. OfTheStarted'  BY <1>6, <1>7 DEF RecordsInv, OfTheStarted
<1>9. SessionsApart'  BY <1>0, <1>6, <1>7 DEF SessionsApart
<1>10. RecordsAreOfTheirKey'
  <2>1. RecordsAreOfTheirKey  BY DEF RecordsInv
  <2>2. rec'[Pane].pid = None
    BY <1>4, <2>1 DEF RecordsAreOfTheirKey, Keys, R!NoRecord
  <2>3. ASSUME NEW s \in Sid, rec'[s] # R!NoRecord
        PROVE  rec'[s].sid = s /\ rec'[s].pid \in Proc /\ sid[rec'[s].pid] = s
    <3>1. CASE s = key  BY <1>4, <2>3, <3>1, Names
    <3>2. CASE s # key  BY <1>4, <2>1, <2>3, <3>2 DEF RecordsAreOfTheirKey, Keys
    <3> QED  BY <3>1, <3>2
  <2> QED  BY <2>2, <2>3 DEF RecordsAreOfTheirKey, R!NoRecord
<1>11. \A q \in Proc \ {p} : Unnamed(q) => Unnamed(q)'
  BY <1>4, <1>5, Names DEF Unnamed, Keys
<1>12. ASSUME NEW q \in Proc \ {p} PROVE (HookIsTyped(q) /\ InItsStage(q) /\ DecidesWithout(q))'
  <2>1. HookIsTyped(q) /\ InItsStage(q) /\ DecidesWithout(q)  BY DEF RecordsInv
  <2>2. HookIsTyped(q)' /\ InItsStage(q)'  BY <1>3, <2>1 DEF HookIsTyped, InItsStage, InHook
  <2>3. DecidesWithout(q)'  BY <1>3, <1>11, <2>1 DEF DecidesWithout
  <2> QED  BY <2>2, <2>3
<1>13. ASSUME R!Orderly', NEW q \in Proc \ {p} PROVE IsOrderly(q)'
  <2>0. IsOrderly(q)  BY DEF RecordsInv, OrderlyInv
  <2>a. JudgedStands(q) /\ ActsOnItsOwn(q)  BY <2>0 DEF IsOrderly
  <2>b. hook'[q] = hook[q] /\ mem'[q] = mem[q] /\ kind' = kind /\ sid' = sid /\ live' = live
    BY <1>3
  <2>c. hook[q] = "remove kid" => mem[q].kid \in Keys  BY <2>a DEF ActsOnItsOwn, Keys
  <2>1. JudgedStands(q)'
    <3>1. r = R!NoRecord \/ ~R!Judged(p, key)  BY <1>13
    <3>2. None \notin live  BY <1>0, Names DEF R!TypeOK
    <3>3. CASE r = R!NoRecord
      <4>1. r.sid = None /\ r.pid = None  BY <3>3 DEF R!NoRecord
      <4>2. ASSUME hook[q] = "remove kid" PROVE rec'[mem[q].kid].pid \notin live
        BY <1>4, <2>a, <2>c, <3>2, <4>1, <4>2 DEF JudgedStands
      <4>3. ASSUME hook[q] = "remove" PROVE rec'[mem[q].key].sid \in {None, sid[q]}
        <5>1. mem[q].key \in {Pane, sid[q]} /\ sid[q] \in Sid
          BY <2>0, <4>3, AtWork DEF IsOrderly, ActsOnItsOwn, Acting, Active, InHook
        <5> QED  BY <1>4, <2>0, <4>1, <4>3, <5>1 DEF IsOrderly, JudgedStands, Keys
      <4>4. rec[Pane].sid \in {None, sid[q]} => rec'[Pane].sid \in {None, sid[q]}
        BY <1>4, <4>1 DEF Keys
      <4> QED  BY <2>a, <2>b, <4>2, <4>3, <4>4 DEF JudgedStands
    <3>4. CASE ~R!Judged(p, key)
      <4>1. /\ hook[q] \in {"write", "remove"} => mem[q].key # key
            /\ hook[q] = "remove kid" => mem[q].kid # key
        BY <3>4 DEF R!Judged
      <4>2. ASSUME hook[q] = "remove kid" PROVE rec'[mem[q].kid].pid \notin live
        BY <1>4, <2>a, <2>c, <4>1, <4>2 DEF JudgedStands
      <4>3. ASSUME hook[q] = "remove" PROVE rec'[mem[q].key].sid \in {None, sid[q]}
        <5>1. mem[q].key \in {Pane, sid[q]} /\ sid[q] \in Sid
          BY <2>0, <4>3, AtWork DEF IsOrderly, ActsOnItsOwn, Acting, Active, InHook
        <5> QED  BY <1>4, <2>0, <4>1, <4>3, <5>1 DEF IsOrderly, JudgedStands, Keys
      <4>4. hook[q] = "write" /\ mem[q].key = Pane => rec'[Pane] = rec[Pane]
        BY <1>4, <4>1 DEF Keys
      <4> QED  BY <2>a, <2>b, <4>2, <4>3, <4>4 DEF JudgedStands
    <3> QED  BY <3>1, <3>3, <3>4
  <2>2. ActsOnItsOwn(q)'
    <3>1. Unnamed(q) => Unnamed(q)'  BY <1>11
    <3> QED  BY <2>a, <2>b, <3>1 DEF ActsOnItsOwn
  <2>3. IsAtHome(q)'
    <3>0. q \in live => q \in R!Started /\ sid[q] \in Sid /\ sid[q] # sid[p]
      BY <1>0, AtWork DEF Active, SessionsApart
    <3> SUFFICES ASSUME q \in live, stage[q] = "open", hook[q] = "idle"
                 PROVE  /\ kind[q] \in {"child", "headless"} =>
                             rec'[sid[q]].pid = q /\ rec'[sid[q]].sid = sid[q]
                        /\ kind[q] = "pane" /\ (\A x \in R!Started \ {q} : kind[x] # "pane") =>
                             rec'[Pane].sid = sid[q]
      BY <1>3, <1>6 DEF IsAtHome, InHook
    <3>1. IsAtHome(q)  BY <2>0 DEF IsOrderly
    <3>2. ASSUME kind[q] \in {"child", "headless"}
          PROVE  rec'[sid[q]].pid = q /\ rec'[sid[q]].sid = sid[q]
      <4>1. rec[sid[q]].pid = q /\ rec[sid[q]].sid = sid[q]
        BY <3>1, <3>2 DEF IsAtHome, InHook
      <4>2. key # sid[q]  BY <3>0, <4>1, Names
      <4> QED  BY <1>4, <3>0, <4>1, <4>2 DEF Keys
    <3>3. ASSUME kind[q] = "pane", \A x \in R!Started \ {q} : kind[x] # "pane"
          PROVE  rec'[Pane].sid = sid[q]
      <4>1. rec[Pane].sid = sid[q]  BY <3>1, <3>3 DEF IsAtHome, InHook
      <4>2. key # Pane
        <5> SUFFICES ASSUME key = Pane PROVE FALSE  OBVIOUS
        <5>1. kind[p] = "job"  BY <1>0, <3>3
        <5>2. rec[Pane].sid \in {None, sid[p]}  BY <5>1
        <5> QED  BY <3>0, <4>1, <5>2, Names
      <4> QED  BY <1>4, <4>1, <4>2 DEF Keys
    <3> QED  BY <3>2, <3>3
  <2>4. OverIsNotNamed(q)'
    BY <1>3, <1>11, <2>0 DEF IsOrderly, OverIsNotNamed, R!Over
  <2>5. ChildIsReplaced(q)'
    <3>1. Starting(q)' <=> Starting(q)  BY <1>3 DEF Starting
    <3> SUFFICES ASSUME q \in R!Started, kind[q] # "child", ~Starting(q),
                        NEW x \in Proc \ {q}, rec'[sid[q]].pid = x
                 PROVE  kind[x] # "child"
      BY <1>6, <3>1 DEF ChildIsReplaced
    <3>2. sid[q] \in Sid  BY <1>0 DEF R!Started, R!TypeOK
    <3>3. CASE rec[sid[q]].pid = x  BY <2>0, <3>3 DEF IsOrderly, ChildIsReplaced
    <3>4. CASE rec[sid[q]].pid # x
      <4>1. key = sid[q] /\ r.pid = x  BY <1>4, <3>2, <3>4 DEF Keys
      <4>2. x = p /\ r # R!NoRecord  BY <1>5, <4>1, Names DEF R!NoRecord
      <4>3. sid[p] = sid[q]  BY <3>2, <4>1, <4>2, Names
      <4> QED  BY <1>0, <4>2, <4>3 DEF SessionsApart
    <3> QED  BY <3>3, <3>4
  <2>6. PaneIsLeft(q)'
    <3> SUFFICES ASSUME q \in R!Started, Alone(q), kind[q] \in {"pane", "job"}, HasNoPane(q)'
                 PROVE  rec'[Pane].sid # sid[q]
      BY <1>6 DEF PaneIsLeft, Alone
    <3>1. sid[q] \in Sid /\ sid[q] # None  BY <1>0, Names DEF R!Started, R!TypeOK
    <3>2. rec'[sid[q]].pid = q => rec[sid[q]].pid = q
      BY <1>4, <1>5, <3>1, Names DEF Keys
    <3>3. HasNoPane(q)  BY <1>3, <3>2 DEF HasNoPane, InHook, R!Over
    <3>4. rec[Pane].sid # sid[q]  BY <2>0, <3>3 DEF IsOrderly, PaneIsLeft
    <3>5. key = Pane => sid[q] # sid[p]  BY <1>0 DEF Alone
    <3> QED  BY <1>4, <1>5, <3>1, <3>4, <3>5 DEF Keys
  <2> QED  BY <2>1, <2>2, <2>3, <2>4, <2>5, <2>6 DEF IsOrderly
<1>14. ASSUME R!Orderly' PROVE OrderlyInv'
  <2>1. PaneIsOfThePane'
    <3>1. CASE key # Pane
      <4>1. rec'[Pane] = rec[Pane]  BY <1>4, <3>1 DEF Keys
      <4> QED  BY <1>6, <4>1 DEF RecordsInv, OrderlyInv, PaneIsOfThePane, R!NoRecord
    <3>2. CASE key = Pane
      <4>1. rec'[Pane] = R!NoRecord \/ rec'[Pane].sid = sid[p]  BY <1>4, <3>2
      <4> QED  BY <1>0, <1>6, <3>2, <4>1 DEF PaneIsOfThePane, R!NoRecord
    <3> QED  BY <3>1, <3>2
  <2>2. ~abort'.stale /\ "stranger" \notin past'
    BY <1>14 DEF RecordsInv, OrderlyInv
  <2> QED  BY <1>13, <1>14, <2>1, <2>2 DEF OrderlyInv
<1> QED  BY <1>2, <1>8, <1>9, <1>10, <1>12, <1>14 DEF RecordsInv

\* What a hook that acts knows, in one place.
LEMMA Actors ==
  ASSUME RecordsInv, R!Orderly, NEW p \in Proc, hook[p] \in Acting
  PROVE  /\ Active(p) /\ InHook(p) /\ Carried(mem[p]) /\ InItsStage(p) /\ stage[p] # "new"
         /\ p \in R!Started /\ sid[p] \in Sid /\ sid[p] # Pane /\ sid[p] # None
         /\ IsOrderly(p) /\ DecidesWithout(p) /\ mem[p].key \in {Pane, sid[p]}
         /\ mem[p].key = Pane => kind[p] \in {"pane", "job"} /\ Unnamed(p)
<1>1. Active(p) /\ InHook(p) /\ InItsStage(p)  BY DEF RecordsInv, Active, InHook, Acting
<1>2. stage[p] # "new"  BY <1>1 DEF InItsStage
<1>3. IsOrderly(p) /\ DecidesWithout(p)  BY DEF RecordsInv, OrderlyInv
<1> QED
  BY <1>1, <1>2, <1>3, AtWork DEF RecordsInv, HookIsTyped, IsOrderly, ActsOnItsOwn,
     DecidesWithout

LEMMA UnadoptKeeps ==
  ASSUME RecordsInv, R!Orderly, NEW p \in Proc, R!Unadopt(p) PROVE RecordsInv'
<1>0. hook[p] = "unadopt" /\ past' = past /\ rec' = [rec EXCEPT ![sid[p]] = R!NoRecord]
  BY DEF R!Unadopt, R!At
<1>1. /\ InHook(p) /\ Carried(mem[p]) /\ InItsStage(p) /\ stage[p] # "new"
      /\ p \in R!Started /\ sid[p] \in Sid /\ sid[p] # Pane /\ sid[p] # None
      /\ IsOrderly(p) /\ DecidesWithout(p)
  BY <1>0, Deciders DEF Deciding
<1>2. UNCHANGED <<live, reused, kind, sid, stage, left, front, abort>>
  BY DEF R!Unadopt, R!World
<1>3. /\ mem[p].event = "start" /\ mem[p].key = Pane /\ kind[p] \in {"pane", "job"}
      /\ Unnamed(p) /\ stage[p] = "open"
  BY <1>0, <1>1 DEF InItsStage, IsOrderly, ActsOnItsOwn, DecidesWithout, Deciding
<1>4. PICK to \in {"write", "guard"} :
        /\ hook' = [hook EXCEPT ![p] = to] /\ mem' = [mem EXCEPT ![p] = mem[p]]
        /\ to = IF kind[p] = "pane" THEN "write" ELSE "guard"
  <2>1. R!Handed(p) <=> kind[p] = "pane"  BY <1>3 DEF R!Handed
  <2>2. CASE kind[p] = "pane"
    BY <1>3, <2>1, <2>2 DEF R!Unadopt, R!Decided, R!Go
  <2>3. CASE kind[p] # "pane"  BY <2>1, <2>3 DEF R!Unadopt, R!Go
  <2> QED  BY <2>2, <2>3
<1>5. hook'[p] = to /\ mem'[p] = mem[p] /\ stage'[p] = stage[p]
  BY <1>2, <1>4 DEF RecordsInv
<1>6. /\ rec'[sid[p]].pid = None /\ rec'[Pane] = rec[Pane]
      /\ \A s \in Sid : rec'[s] = rec[s] \/ rec'[s].pid = None
  BY <1>0, <1>1 DEF RecordsInv, R!TypeOK, R!Key, R!NoRecord
<1>7. Unnamed(p)'  BY <1>3, <1>6, Names DEF Unnamed
<1>8. HookIsTyped(p)'  BY <1>1, <1>5 DEF HookIsTyped, Deciding, Acting
<1>9. InItsStage(p)'  BY <1>3, <1>5 DEF InItsStage, InHook, Acting
<1>10. DecidesWithout(p)'  BY <1>7 DEF DecidesWithout
<1>11. IsOrderly(p)'
  <2>1. JudgedStands(p)'  BY <1>2, <1>3, <1>4, <1>5 DEF JudgedStands
  <2>2. ActsOnItsOwn(p)'  BY <1>2, <1>3, <1>4, <1>5, <1>7 DEF ActsOnItsOwn, Acting
  <2>3. IsAtHome(p)' /\ OverIsNotNamed(p)'
    BY <1>5 DEF IsAtHome, InHook, OverIsNotNamed, R!Over
  <2>4. ChildIsReplaced(p)'
    <3>1. None \notin Proc /\ sid' = sid  BY <1>2, Names
    <3> QED  BY <1>6, <3>1 DEF ChildIsReplaced
  <2>5. PaneIsLeft(p)'
    BY <1>1, <1>2, <1>3, <1>6 DEF IsOrderly, PaneIsLeft, HasNoPane, R!Started, Alone
  <2> QED  BY <2>1, <2>2, <2>3, <2>4, <2>5 DEF IsOrderly
<1>12. sid[p] \in Keys /\ sid[p] # Pane  BY <1>1 DEF Keys
<1> QED
  BY <1>0, <1>1, <1>2, <1>4, <1>8, <1>9, <1>10, <1>11, <1>12, ChangeKeeps

LEMMA WriteKeeps ==
  ASSUME RecordsInv, R!Orderly, NEW p \in Proc, R!Write(p) PROVE RecordsInv'
<1> DEFINE key == mem[p].key
           r == R!RecordOf(p, mem[p])
<1>0. /\ hook[p] = "write" /\ rec' = [rec EXCEPT ![key] = r]
      /\ hook' = [hook EXCEPT ![p] = "idle"] /\ mem' = [mem EXCEPT ![p] = R!Quiet]
  BY DEF R!Write, R!At, R!Ended
<1>1. /\ InHook(p) /\ Carried(mem[p]) /\ InItsStage(p)
      /\ p \in R!Started /\ sid[p] \in Sid /\ sid[p] # Pane /\ sid[p] # None
      /\ IsOrderly(p) /\ DecidesWithout(p) /\ key \in {Pane, sid[p]}
      /\ key = Pane => kind[p] \in {"pane", "job"} /\ Unnamed(p)
  BY <1>0, Actors DEF Acting
<1>2. UNCHANGED <<live, reused, kind, sid, stage, left, front, abort>>
  BY DEF R!Write, R!World
<1>3. stage[p] = "open"  BY <1>0, <1>1 DEF InItsStage, Acting
<1>4. R!Orderly' => past' = past /\ ~R!Judged(p, key)
  BY DEF R!Write, R!Mark, R!Orderly
<1>5. r.sid = sid[p] /\ r.pid = IF key = Pane THEN None ELSE p
  BY DEF R!RecordOf
<1>6. r \in [sid : Sid \cup {None}, pid : Proc \cup {None}, parsid : Sid \cup {None}]
  BY <1>1 DEF R!RecordOf, Carried
<1> HIDE DEF r
<1>7. key \in Keys  BY <1>1 DEF Keys
<1>8. rec'[key] = r /\ \A k \in Keys \ {key} : rec'[k] = rec[k]
  BY <1>0, <1>7 DEF RecordsInv, R!TypeOK, R!Key, Keys
<1>9. hook'[p] = "idle" /\ mem'[p] = R!Quiet /\ stage'[p] = "open"
  BY <1>0, <1>2, <1>3 DEF RecordsInv
<1>10. key = Pane => Unnamed(p)'
  BY <1>1, <1>8, Names DEF Unnamed, Keys
<1>11. HookIsTyped(p)'  BY <1>9, QuietIsCarried DEF HookIsTyped
<1>12. InItsStage(p)'  BY <1>9 DEF InItsStage, InHook
<1>13. DecidesWithout(p)'  BY <1>9 DEF DecidesWithout, Acting, Deciding
<1>14. kind[p] = "pane" /\ p \in live => key = Pane
  BY <1>0, <1>1 DEF IsOrderly, ActsOnItsOwn, Acting
<1>15. IsOrderly(p)'
  <2>1. JudgedStands(p)'  BY <1>9 DEF JudgedStands
  <2>2. ActsOnItsOwn(p)'  BY <1>2, <1>9, <1>10, <1>14 DEF ActsOnItsOwn, Acting
  <2>3. IsAtHome(p)'
    <3>1. CASE key = Pane
      <4>1. rec'[Pane].sid = sid[p] /\ kind[p] \in {"pane", "job"}
        BY <1>1, <1>5, <1>8, <3>1
      <4> QED  BY <1>2, <4>1 DEF IsAtHome
    <3>2. CASE key # Pane
      <4>1. rec'[sid[p]].sid = sid[p] /\ rec'[sid[p]].pid = p /\ ~(kind[p] = "pane" /\ p \in live)
        BY <1>1, <1>5, <1>8, <1>14, <3>2
      <4> QED  BY <1>2, <4>1 DEF IsAtHome
    <3> QED  BY <3>1, <3>2
  <2>4. OverIsNotNamed(p)'  BY <1>9 DEF OverIsNotNamed, R!Over
  <2>5. ChildIsReplaced(p)'
    <3>1. CASE key = Pane
      <4>1. ~Starting(p)  BY <1>0, <1>3, <3>1 DEF Starting
      <4>2. rec'[sid[p]] = rec[sid[p]] /\ sid' = sid /\ kind' = kind
        BY <1>1, <1>2, <1>8, <3>1 DEF Keys
      <4> QED  BY <1>1, <4>1, <4>2 DEF ChildIsReplaced, R!Started, IsOrderly
    <3>2. CASE key # Pane
      <4>1. rec'[sid[p]].pid = p /\ sid' = sid  BY <1>1, <1>2, <1>5, <1>8, <3>2
      <4> QED  BY <4>1 DEF ChildIsReplaced
    <3> QED  BY <3>1, <3>2
  <2>6. PaneIsLeft(p)'
    <3>1. CASE key = Pane
      <4>1. rec'[sid[p]].pid # p  BY <1>1, <1>10, <3>1 DEF Unnamed
      <4>2. ~HasNoPane(p)'
        BY <1>2, <1>9, <4>1 DEF HasNoPane, R!Over, InHook, Acting
      <4> QED  BY <4>2 DEF PaneIsLeft
    <3>2. CASE key # Pane
      <4>1. rec'[Pane] = rec[Pane] /\ HasNoPane(p)
        BY <1>0, <1>8, <3>2 DEF Keys, HasNoPane, Acting
      <4> QED  BY <1>1, <1>2, <4>1 DEF PaneIsLeft, R!Started, IsOrderly, Alone
    <3> QED  BY <3>1, <3>2
  <2> QED  BY <2>1, <2>2, <2>3, <2>4, <2>5, <2>6 DEF IsOrderly
<1>16. key = Pane /\ kind[p] = "job" => rec[Pane].sid \in {None, sid[p]}
  BY <1>0, <1>1 DEF IsOrderly, JudgedStands
<1> HIDE DEF key
<1> QED
  BY <1>0, <1>1, <1>2, <1>4, <1>5, <1>6, <1>7, <1>11, <1>12, <1>13, <1>15, <1>16, ChangeKeeps

LEMMA RemoveKidKeeps ==
  ASSUME RecordsInv, R!Orderly, NEW p \in Proc, R!RemoveKid(p) PROVE RecordsInv'
<1> DEFINE key == mem[p].kid
           m == [mem[p] EXCEPT !.kid = None]
<1>0. /\ hook[p] = "remove kid" /\ rec' = [rec EXCEPT ![key] = R!NoRecord]
      /\ hook' = [hook EXCEPT ![p] = "kids"] /\ mem' = [mem EXCEPT ![p] = m]
  BY DEF R!RemoveKid, R!At, R!Go
<1>1. /\ InHook(p) /\ Carried(mem[p]) /\ InItsStage(p)
      /\ p \in R!Started /\ sid[p] \in Sid /\ sid[p] # Pane /\ sid[p] # None
      /\ IsOrderly(p) /\ DecidesWithout(p) /\ mem[p].key \in {Pane, sid[p]}
      /\ mem[p].key = Pane => kind[p] \in {"pane", "job"} /\ Unnamed(p)
  BY <1>0, Actors DEF Acting
<1>2. UNCHANGED <<live, reused, kind, sid, stage, left, front, abort>>
  BY DEF R!RemoveKid, R!World
<1>3. key \in Sid /\ key # Pane /\ rec[key].pid \notin live
  BY <1>0, <1>1, Names DEF IsOrderly, ActsOnItsOwn, JudgedStands
<1>4. past' = past  BY <1>3 DEF R!RemoveKid, R!Mark
<1>5. Carried(m) /\ m.event = mem[p].event /\ m.key = mem[p].key
  BY <1>1 DEF Carried
<1>6. stage[p] = "over" /\ mem[p].event = "end" /\ ~Starting(p)
  BY <1>0, <1>1 DEF InItsStage, Acting, Starting
<1> HIDE DEF m
<1>7. hook'[p] = "kids" /\ mem'[p] = m /\ stage'[p] = "over"
  BY <1>0, <1>2, <1>6 DEF RecordsInv
<1>8. rec'[key] = R!NoRecord /\ \A k \in Keys \ {key} : rec'[k] = rec[k]
  BY <1>0, <1>3 DEF RecordsInv, R!TypeOK, R!Key, Keys
<1>9. rec'[Pane] = rec[Pane] /\ \A s \in Sid : rec'[s] = rec[s] \/ rec'[s].pid = None
  BY <1>3, <1>8 DEF Keys, R!NoRecord
<1>10. Unnamed(p) => Unnamed(p)'  BY <1>9, Names DEF Unnamed
<1>11. HookIsTyped(p)'  BY <1>5, <1>7 DEF HookIsTyped, Acting
<1>12. InItsStage(p)'  BY <1>5, <1>6, <1>7 DEF InItsStage, InHook, Acting
<1>13. DecidesWithout(p)'
  BY <1>1, <1>5, <1>7, <1>10 DEF DecidesWithout, Acting, Deciding
<1>14. IsOrderly(p)'
  <2>1. JudgedStands(p)'  BY <1>7 DEF JudgedStands
  <2>2. ActsOnItsOwn(p)'
    BY <1>0, <1>1, <1>2, <1>5, <1>7, <1>10 DEF ActsOnItsOwn, Acting, IsOrderly
  <2>3. IsAtHome(p)' /\ OverIsNotNamed(p)'
    BY <1>7 DEF IsAtHome, InHook, OverIsNotNamed, R!Over
  <2>4. ChildIsReplaced(p)'
    <3>1. None \notin Proc /\ sid' = sid /\ kind' = kind  BY <1>2, Names
    <3> QED  BY <1>1, <1>6, <1>9, <3>1 DEF ChildIsReplaced, R!Started, IsOrderly
  <2>5. PaneIsLeft(p)'
    <3>1. rec'[sid[p]].pid = p => rec[sid[p]].pid = p  BY <1>1, <1>9, Names
    <3>2. HasNoPane(p)' => HasNoPane(p)
      BY <1>0, <1>2, <1>5, <1>6, <1>7, <3>1 DEF HasNoPane, InHook, R!Over, Acting
    <3> QED  BY <1>1, <1>2, <1>9, <3>2 DEF PaneIsLeft, R!Started, IsOrderly, Alone
  <2> QED  BY <2>1, <2>2, <2>3, <2>4, <2>5 DEF IsOrderly
<1>15. key \in Keys  BY <1>3 DEF Keys
<1> HIDE DEF key
<1> QED
  BY <1>0, <1>1, <1>2, <1>3, <1>4, <1>11, <1>12, <1>13, <1>14, <1>15, ChangeKeeps

LEMMA RemoveKeeps ==
  ASSUME RecordsInv, R!Orderly, NEW p \in Proc, R!Remove(p) PROVE RecordsInv'
<1> DEFINE key == mem[p].key
<1>0. /\ hook[p] = "remove" /\ rec' = [rec EXCEPT ![key] = R!NoRecord]
      /\ hook' = [hook EXCEPT ![p] = "idle"] /\ mem' = [mem EXCEPT ![p] = R!Quiet]
  BY DEF R!Remove, R!At, R!Ended
<1>1. /\ InHook(p) /\ Carried(mem[p]) /\ InItsStage(p)
      /\ p \in R!Started /\ sid[p] \in Sid /\ sid[p] # Pane /\ sid[p] # None
      /\ IsOrderly(p) /\ DecidesWithout(p) /\ key \in {Pane, sid[p]}
      /\ key = Pane => kind[p] \in {"pane", "job"} /\ Unnamed(p)
  BY <1>0, Actors DEF Acting
<1>2. UNCHANGED <<live, reused, kind, sid, stage, left, front, abort>>
  BY DEF R!Remove, R!World
<1>3. rec[key].sid \in {None, sid[p]}  BY <1>0, <1>1 DEF IsOrderly, JudgedStands
<1>4. past' = past  BY <1>3 DEF R!Remove, R!Mark
<1>5. stage[p] = "over" /\ mem[p].event = "end" /\ ~Starting(p)
  BY <1>0, <1>1 DEF InItsStage, Acting, Starting
<1>6. key \in Keys  BY <1>1 DEF Keys
<1>7. hook'[p] = "idle" /\ mem'[p] = R!Quiet /\ stage'[p] = "over"
  BY <1>0, <1>2, <1>5 DEF RecordsInv
<1>8. rec'[key] = R!NoRecord /\ \A k \in Keys \ {key} : rec'[k] = rec[k]
  BY <1>0, <1>6 DEF RecordsInv, R!TypeOK, R!Key, Keys
<1>9. \A k \in Keys : rec'[k] = rec[k] \/ (rec'[k].pid = None /\ rec'[k].sid = None)
  BY <1>8 DEF R!NoRecord
<1>10. Unnamed(p)'
  <2>1. CASE key = Pane  BY <1>1, <1>9, <2>1, Names DEF Unnamed, Keys
  <2>2. CASE key # Pane
    <3>1. ASSUME NEW s \in Sid, rec'[s].pid = p PROVE FALSE
      <4>1. s # key  BY <1>8, <3>1, Names DEF R!NoRecord
      <4>2. rec[s].pid = p  BY <1>8, <3>1, <4>1 DEF Keys
      <4>3. sid[p] = s  BY <4>2, Names DEF RecordsInv, RecordsAreOfTheirKey, R!NoRecord
      <4> QED  BY <1>1, <2>2, <4>1, <4>3
    <3> QED  BY <3>1 DEF Unnamed
  <2> QED  BY <2>1, <2>2
<1>11. HookIsTyped(p)'  BY <1>7, QuietIsCarried DEF HookIsTyped
<1>12. InItsStage(p)'  BY <1>7 DEF InItsStage, InHook
<1>13. DecidesWithout(p)'  BY <1>10 DEF DecidesWithout
<1>14. IsOrderly(p)'
  <2>1. JudgedStands(p)'  BY <1>7 DEF JudgedStands
  <2>2. ActsOnItsOwn(p)'  BY <1>7, <1>10 DEF ActsOnItsOwn, Acting
  <2>3. IsAtHome(p)' /\ OverIsNotNamed(p)'
    BY <1>7, <1>10 DEF IsAtHome, OverIsNotNamed
  <2>4. ChildIsReplaced(p)'
    <3>1. None \notin Proc /\ sid' = sid /\ kind' = kind  BY <1>2, Names
    <3>2. rec'[sid[p]] = rec[sid[p]] \/ rec'[sid[p]].pid = None  BY <1>1, <1>9 DEF Keys
    <3> QED  BY <1>1, <1>5, <3>1, <3>2 DEF ChildIsReplaced, R!Started, IsOrderly
  <2>5. PaneIsLeft(p)'
    <3>1. CASE key = Pane
      BY <1>1, <1>2, <1>8, <3>1 DEF PaneIsLeft, R!NoRecord
    <3>2. CASE key # Pane
      <4>1. rec'[Pane] = rec[Pane] /\ HasNoPane(p)
        BY <1>0, <1>8, <3>2 DEF Keys, HasNoPane, Acting
      <4> QED  BY <1>1, <1>2, <4>1 DEF PaneIsLeft, R!Started, IsOrderly, Alone
    <3> QED  BY <3>1, <3>2
  <2> QED  BY <2>1, <2>2, <2>3, <2>4, <2>5 DEF IsOrderly
<1> HIDE DEF key
<1> QED
  BY <1>0, <1>1, <1>2, <1>3, <1>4, <1>6, <1>11, <1>12, <1>13, <1>14, ChangeKeeps

\* Every step of a hook.
LEMMA HookKeeps ==
  ASSUME RecordsInv, R!Orderly, NEW p \in Proc, R!HookStep(p) PROVE RecordsInv'
BY FireKeeps, TestOwnKeeps, ReadOwnKeeps, ReadPaneKeeps, WalkKeeps, FamilyKeeps, UnadoptKeeps, GuardKeeps,
   WriteKeeps, ReadKidKeeps, RemoveKidKeeps, ReadOwnerKeeps, RemoveKeeps
   DEF R!HookStep

-----------------------------------------------------------------------------
(* The session records: the processes, and the abort *)

\* A process exits, whatever the abort was about.
LEMMA DiesKeeps ==
  ASSUME RecordsInv, R!Orderly, NEW p \in Proc, R!Dies(p),
         abort' \in {abort, R!NoAbort}
  PROVE  RecordsInv'
<1>0. /\ p \in live /\ live' = live \ {p} /\ past' = past
      /\ UNCHANGED <<rec, reused, kind, sid, stage, left, front, hook, mem>>
  BY DEF R!Dies
<1>1. live' \subseteq live /\ R!Started' = R!Started  BY <1>0 DEF R!Started
<1>2. \A q \in Proc : Active(q)' => Active(q)  BY <1>0, <1>1 DEF Active, InHook
<1>3. R!TypeOK' /\ DOMAIN hook' = Proc /\ DOMAIN mem' = Proc
  <2>1. abort'.pid \in Proc \cup {None}  BY DEF RecordsInv, R!TypeOK, R!NoAbort
  <2>2. live' \subseteq Proc /\ reused' \subseteq Proc \ live'
    BY <1>0 DEF RecordsInv, R!TypeOK
  <2> QED  BY <1>0, <2>1, <2>2 DEF RecordsInv, R!TypeOK
<1>4. OfTheStarted'
  <2>1. abort'.pid \in R!Started \cup {None}
    BY DEF RecordsInv, OfTheStarted, R!NoAbort
  <2> QED  BY <1>0, <1>1, <1>2, <2>1 DEF RecordsInv, OfTheStarted
<1>5. SessionsApart'
  <2>1. R!Started \subseteq Proc  BY DEF R!Started
  <2> QED  BY <1>0, <1>1, <1>2, <2>1 DEF RecordsInv, SessionsApart
<1>6. RecordsAreOfTheirKey'  BY <1>0 DEF RecordsInv, RecordsAreOfTheirKey, R!NoRecord
<1>7. \A q \in Proc : (HookIsTyped(q) /\ InItsStage(q) /\ DecidesWithout(q))'
  BY <1>0 DEF RecordsInv, HookIsTyped, InItsStage, InHook, DecidesWithout, Unnamed
<1>8. OrderlyInv'
  <2>1. ASSUME NEW q \in Proc PROVE IsOrderly(q)'
    <3>0. IsOrderly(q)  BY DEF RecordsInv, OrderlyInv
    <3> USE <1>0, <1>1 DEF IsOrderly, InHook
    <3>1. JudgedStands(q)'  BY <3>0 DEF JudgedStands
    <3>2. ActsOnItsOwn(q)'  BY <3>0 DEF ActsOnItsOwn, Unnamed
    <3>3. IsAtHome(q)'  BY <3>0 DEF IsAtHome
    <3>4. OverIsNotNamed(q)'  BY <3>0 DEF OverIsNotNamed, R!Over, Unnamed
    <3>5. ChildIsReplaced(q)'  BY <3>0 DEF ChildIsReplaced, Starting
    <3>6. PaneIsLeft(q)'  BY <3>0 DEF PaneIsLeft, HasNoPane, Alone, R!Over
    <3> QED  BY <3>1, <3>2, <3>3, <3>4, <3>5, <3>6
  <2>2. PaneIsOfThePane'
    BY <1>0, <1>1 DEF RecordsInv, OrderlyInv, PaneIsOfThePane, R!NoRecord
  <2>3. ~abort'.stale  BY DEF RecordsInv, OrderlyInv, R!NoAbort
  <2>4. "stranger" \notin past'  BY <1>0 DEF RecordsInv, OrderlyInv
  <2> QED  BY <2>1, <2>2, <2>3, <2>4 DEF OrderlyInv
<1> QED  BY <1>3, <1>4, <1>5, <1>6, <1>7, <1>8 DEF RecordsInv

\* The pane, the pid and the abort are no part of what the hooks rely on.
LEMMA AsideKeeps ==
  ASSUME RecordsInv,
         UNCHANGED <<rec, live, kind, sid, stage, left, hook, mem, past>>,
         front' \in Proc \cup {None},
         reused' \subseteq R!Started \ live,
         abort'.pid \in R!Started \cup {None}, R!Orderly => ~abort'.stale
  PROVE  RecordsInv'
<1>1. R!Started' = R!Started /\ R!Started \subseteq Proc  BY DEF R!Started
<1>2. R!TypeOK' /\ DOMAIN hook' = Proc /\ DOMAIN mem' = Proc
  BY <1>1 DEF RecordsInv, R!TypeOK
<1>3. OfTheStarted' /\ SessionsApart'
  BY <1>1 DEF RecordsInv, OfTheStarted, SessionsApart, Active, InHook
<1>4. RecordsAreOfTheirKey'  BY DEF RecordsInv, RecordsAreOfTheirKey, R!NoRecord
<1>5. \A q \in Proc : (HookIsTyped(q) /\ InItsStage(q) /\ DecidesWithout(q))'
  BY DEF RecordsInv, HookIsTyped, InItsStage, InHook, DecidesWithout, Unnamed
<1>6. ASSUME R!Orderly' PROVE OrderlyInv'
  <2>0. R!Orderly  BY <1>6 DEF R!Orderly
  <2>1. ASSUME NEW q \in Proc PROVE IsOrderly(q)'
    <3>0. IsOrderly(q)  BY <2>0 DEF RecordsInv, OrderlyInv
    <3> USE <1>1 DEF IsOrderly, InHook
    <3>1. JudgedStands(q)'  BY <3>0 DEF JudgedStands
    <3>2. ActsOnItsOwn(q)'  BY <3>0 DEF ActsOnItsOwn, Unnamed
    <3>3. IsAtHome(q)'  BY <3>0 DEF IsAtHome
    <3>4. OverIsNotNamed(q)'  BY <3>0 DEF OverIsNotNamed, R!Over, Unnamed
    <3>5. ChildIsReplaced(q)'  BY <3>0 DEF ChildIsReplaced, Starting
    <3>6. PaneIsLeft(q)'  BY <3>0 DEF PaneIsLeft, HasNoPane, Alone, R!Over
    <3> QED  BY <3>1, <3>2, <3>3, <3>4, <3>5, <3>6
  <2>2. PaneIsOfThePane'  BY <1>1, <2>0 DEF RecordsInv, OrderlyInv, PaneIsOfThePane, R!NoRecord
  <2>3. "stranger" \notin past'  BY <2>0 DEF RecordsInv, OrderlyInv
  <2> QED  BY <2>0, <2>1, <2>2, <2>3 DEF OrderlyInv
<1> QED  BY <1>2, <1>3, <1>4, <1>5, <1>6 DEF RecordsInv

\* The abort reads the record of a session that is not over.
LEMMA AbortReadsKeeps ==
  ASSUME RecordsInv, R!Orderly, NEW s \in Sid, R!AbortReads(s) PROVE RecordsInv'
<1>1. PICK k \in Sid : rec[k].sid = s /\ abort' = [pid |-> rec[k].pid, stale |-> R!Over(rec[k].pid)]
  BY DEF R!AbortReads
<1>2. UNCHANGED <<rec, live, reused, kind, sid, stage, left, front, hook, mem, past>>
  BY DEF R!AbortReads, R!World
<1>3. rec[k] # R!NoRecord  BY <1>1, Names DEF R!NoRecord
<1>4. rec[k].pid \in Proc /\ sid[rec[k].pid] = k
  BY <1>3 DEF RecordsInv, RecordsAreOfTheirKey
<1>5. rec[k].pid \in R!Started  BY <1>4, Names DEF R!Started
<1>6. ~R!Over(rec[k].pid)
  BY <1>4 DEF RecordsInv, OrderlyInv, IsOrderly, OverIsNotNamed, Unnamed
<1>7. abort'.pid \in R!Started \cup {None} /\ ~abort'.stale  BY <1>1, <1>5, <1>6
<1>8. front' \in Proc \cup {None} /\ reused' \subseteq R!Started \ live
  BY <1>2 DEF RecordsInv, R!TypeOK, OfTheStarted
<1> QED  BY <1>2, <1>7, <1>8, AsideKeeps

LEMMA AbortKillsKeeps ==
  ASSUME RecordsInv, R!Orderly, R!AbortKills PROVE RecordsInv'
<1>1. abort' = R!NoAbort /\ ~R!NoAbort.stale /\ R!NoAbort.pid = None
  BY DEF R!AbortKills, R!NoAbort
<1>2. CASE abort.pid \in live /\ R!Dies(abort.pid)
  <2>1. abort.pid \in Proc  BY <1>2 DEF RecordsInv, R!TypeOK
  <2> QED  BY <1>1, <1>2, <2>1, DiesKeeps
<1>3. CASE /\ R!Mark("stranger", abort.stale /\ abort.pid \in reused)
           /\ UNCHANGED <<rec, R!World, stage, hook, mem>>
  <2>1. ~abort.stale  BY DEF RecordsInv, OrderlyInv
  <2>2. past' = past  BY <1>3, <2>1 DEF R!Mark
  <2>3. UNCHANGED <<rec, live, reused, kind, sid, stage, left, front, hook, mem, past>>
    BY <1>3, <2>2 DEF R!World
  <2>4. front' \in Proc \cup {None} /\ reused' \subseteq R!Started \ live
    BY <2>3 DEF RecordsInv, R!TypeOK, OfTheStarted
  <2> QED  BY <1>1, <2>3, <2>4, AsideKeeps
<1> QED  BY <1>2, <1>3 DEF R!AbortKills

\* A process that is started takes a session nobody runs.
LEMMA LaunchKeeps ==
  ASSUME RecordsInv, R!Orderly, NEW p \in Proc, R!Launch(p) PROVE RecordsInv'
<1>0. /\ sid[p] = None /\ live' = live \cup {p}
      /\ UNCHANGED <<rec, reused, stage, left, hook, mem, abort, past>>
  BY DEF R!Launch
<1>1. PICK k \in MayBe[p], s \in MaySid[p] :
        /\ k = "child" => \A q \in Proc : sid[q] # s
        /\ \A q \in Proc : sid[q] = s => q \notin live /\ hook[q] = "idle"
        /\ kind' = [kind EXCEPT ![p] = k] /\ sid' = [sid EXCEPT ![p] = s]
        /\ front' = IF k = "pane" THEN p ELSE front
  BY DEF R!Launch, R!At
<1>2. k \in R!Kinds /\ s \in Sid
  BY ShellAssumption DEF R!RecordsAssumption
<1>3. p \notin R!Started /\ R!Started' = R!Started \cup {p} /\ R!Started \subseteq Proc
  BY <1>0, <1>1, <1>2, Names DEF R!Started, RecordsInv, R!TypeOK
<1>4. ~Active(p) /\ stage[p] = "new" /\ p \notin reused /\ p \notin live /\ hook[p] = "idle"
  BY <1>3 DEF RecordsInv, OfTheStarted, Active, InHook, R!TypeOK
<1>5. /\ kind'[p] = k /\ sid'[p] = s
      /\ \A q \in Proc \ {p} : kind'[q] = kind[q] /\ sid'[q] = sid[q]
  BY <1>1 DEF RecordsInv, R!TypeOK
<1>6. \A q \in Proc \ {p} : Active(q)' <=> Active(q)  BY <1>0 DEF Active, InHook
<1>7. \A q \in Proc : sid[q] = s => ~Active(q)  BY <1>1 DEF Active, InHook
<1>8. R!TypeOK' /\ DOMAIN hook' = Proc /\ DOMAIN mem' = Proc
  <2>1. kind' \in [Proc -> R!Kinds] /\ sid' \in [Proc -> Sid \cup {None}]
    BY <1>1, <1>2 DEF RecordsInv, R!TypeOK
  <2>2. live' \subseteq Proc /\ reused' \subseteq Proc \ live' /\ front' \in Proc \cup {None}
    BY <1>0, <1>1, <1>4 DEF RecordsInv, R!TypeOK
  <2> QED  BY <1>0, <2>1, <2>2 DEF RecordsInv, R!TypeOK
<1>9. OfTheStarted'
  <2>1. \A q \in Proc : Active(q)' \/ stage'[q] # "new" => q \in R!Started'
    BY <1>0, <1>3, <1>6 DEF RecordsInv, OfTheStarted
  <2>2. \A q \in R!Started' : kind'[q] \in MayBe[q]
    BY <1>1, <1>3, <1>5 DEF RecordsInv, OfTheStarted
  <2> QED  BY <1>0, <1>3, <2>1, <2>2 DEF RecordsInv, OfTheStarted
<1>10. SessionsApart'
  <2> SUFFICES ASSUME NEW x \in R!Started', NEW y \in R!Started', x # y, sid'[x] = sid'[y]
               PROVE  /\ ~(Active(x)' /\ Active(y)')
                      /\ kind'[x] = "child" => ~Active(x)' /\ kind'[y] # "child"
    BY DEF SessionsApart
  <2>1. CASE x # p /\ y # p
    BY <1>3, <1>5, <1>6, <2>1 DEF RecordsInv, SessionsApart
  <2>2. CASE x = p
    BY <1>1, <1>3, <1>5, <1>6, <1>7, <2>2
  <2>3. CASE y = p
    <3>1. x \in Proc \ {p} /\ sid[x] = s  BY <1>3, <1>5, <2>3
    <3>2. ~Active(x)' /\ k # "child"  BY <1>1, <1>6, <1>7, <3>1
    <3> QED  BY <1>5, <2>3, <3>2
  <2> QED  BY <2>1, <2>2, <2>3
<1>11. Unnamed(p)  BY <1>4 DEF RecordsInv, DecidesWithout
<1>12. RecordsAreOfTheirKey'
  <2>1. \A x \in Sid : rec[x] # R!NoRecord => rec[x].pid \in Proc \ {p} /\ sid[rec[x].pid] = x
    BY <1>11 DEF RecordsInv, RecordsAreOfTheirKey, Unnamed
  <2> QED  BY <1>0, <1>5, <2>1 DEF RecordsInv, RecordsAreOfTheirKey, R!NoRecord
<1>13. \A q \in Proc : (HookIsTyped(q) /\ InItsStage(q) /\ DecidesWithout(q))'
  BY <1>0 DEF RecordsInv, HookIsTyped, InItsStage, InHook, DecidesWithout, Unnamed
<1>14. PaneIsOfThePane /\ RecordsAreOfTheirKey  BY DEF RecordsInv, OrderlyInv
<1>15. \A q \in Proc \ {p} : q \in R!Started' <=> q \in R!Started  BY <1>3
<1>16. ASSUME NEW q \in Proc \ {p} PROVE IsOrderly(q)'
  <2>0. IsOrderly(q)  BY DEF RecordsInv, OrderlyInv
  <2>a. /\ rec' = rec /\ hook'[q] = hook[q] /\ mem'[q] = mem[q] /\ stage'[q] = stage[q]
        /\ kind'[q] = kind[q] /\ sid'[q] = sid[q] /\ (q \in live' <=> q \in live)
    BY <1>0, <1>5
  <2>b. Unnamed(q)' <=> Unnamed(q)  BY <2>a DEF Unnamed
  <2>1. JudgedStands(q)'
    <3>1. hook[q] = "remove kid" => rec[mem[q].kid].pid \notin live'
      BY <1>0, <1>11, <2>0 DEF IsOrderly, JudgedStands, ActsOnItsOwn, Unnamed
    <3> QED  BY <2>0, <2>a, <3>1 DEF IsOrderly, JudgedStands
  <2>2. ActsOnItsOwn(q)'
    <3>1. ActsOnItsOwn(q)  BY <2>0 DEF IsOrderly
    <3> QED  BY <2>a, <2>b, <3>1 DEF ActsOnItsOwn
  <2>3. IsAtHome(q)'
    <3>1. IsAtHome(q)  BY <2>0 DEF IsOrderly
    <3>2. (\A x \in R!Started' \ {q} : kind'[x] # "pane") =>
            \A x \in R!Started \ {q} : kind[x] # "pane"
      BY <1>3, <1>5
    <3> QED  BY <2>a, <3>1, <3>2 DEF IsAtHome, InHook
  <2>4. OverIsNotNamed(q)'
    BY <2>0, <2>a, <2>b DEF IsOrderly, OverIsNotNamed, R!Over
  <2>5. ChildIsReplaced(q)'
    <3>1. ChildIsReplaced(q)  BY <2>0 DEF IsOrderly
    <3>2. Starting(q)' <=> Starting(q)  BY <2>a DEF Starting
    <3>3. q \in R!Started => sid[q] \in Sid  BY DEF R!Started, RecordsInv, R!TypeOK
    <3>4. q \in R!Started => rec[sid[q]].pid # p  BY <1>11, <3>3 DEF Unnamed
    <3> QED  BY <1>5, <1>15, <2>a, <3>1, <3>2, <3>4 DEF ChildIsReplaced
  <2>6. PaneIsLeft(q)'
    <3>1. PaneIsLeft(q)  BY <2>0 DEF IsOrderly
    <3>2. Alone(q)' => Alone(q)  BY <1>3, <1>5, <2>a DEF Alone
    <3>3. HasNoPane(q)' <=> HasNoPane(q)  BY <2>a DEF HasNoPane, InHook, R!Over
    <3> QED  BY <1>15, <2>a, <3>1, <3>2, <3>3 DEF PaneIsLeft
  <2> QED  BY <2>1, <2>2, <2>3, <2>4, <2>5, <2>6 DEF IsOrderly
<1>17. IsOrderly(p)'
  <2>0. hook'[p] = "idle" /\ stage'[p] = "new" /\ rec' = rec  BY <1>0, <1>4
  <2>1. JudgedStands(p)'  BY <2>0 DEF JudgedStands
  <2>2. Unnamed(p)'  BY <1>11, <2>0 DEF Unnamed
  <2>3. ActsOnItsOwn(p)'  BY <2>0, <2>2 DEF ActsOnItsOwn, Acting
  <2>4. IsAtHome(p)' /\ OverIsNotNamed(p)' /\ ChildIsReplaced(p)'
    BY <2>0 DEF IsAtHome, OverIsNotNamed, R!Over, ChildIsReplaced, Starting
  <2>5. PaneIsLeft(p)'
    <3> SUFFICES ASSUME Alone(p)', kind'[p] \in {"pane", "job"}, rec[Pane].sid = s PROVE FALSE
      BY <1>5, <2>0 DEF PaneIsLeft
    <3>1. PICK q \in R!Started : kind[q] \in {"pane", "job"} /\ sid[q] = s
      BY <1>2, <1>14, Names DEF PaneIsOfThePane, R!NoRecord
    <3>2. q \in R!Started' \ {p} /\ sid'[q] = sid'[p] /\ kind'[q] # "child"
      BY <1>3, <1>5, <3>1
    <3> QED  BY <3>2 DEF Alone
  <2> QED  BY <2>1, <2>3, <2>4, <2>5 DEF IsOrderly
<1>18. OrderlyInv'
  <2>1. PaneIsOfThePane'
    BY <1>0, <1>3, <1>5, <1>14 DEF PaneIsOfThePane, R!NoRecord
  <2>2. ~abort'.stale /\ "stranger" \notin past'
    BY <1>0 DEF RecordsInv, OrderlyInv
  <2> QED  BY <1>16, <1>17, <2>1, <2>2 DEF OrderlyInv
<1> QED  BY <1>8, <1>9, <1>10, <1>12, <1>13, <1>18 DEF RecordsInv

-----------------------------------------------------------------------------
(* The session records: the theorems *)

LEMMA RecordsInit == R!Init => RecordsInv
<1> SUFFICES ASSUME R!Init PROVE RecordsInv  OBVIOUS
<1> USE DEF R!Init
<1>1. R!TypeOK /\ DOMAIN hook = Proc /\ DOMAIN mem = Proc
  BY ShellAssumption DEF R!TypeOK, R!RecordsAssumption, R!NoRecord, R!NoAbort, R!Kinds
<1>2. R!Started = {} /\ past = {} /\ ~abort.stale /\ abort.pid = None  BY DEF R!Started, R!NoAbort
<1>3. \A p \in Proc : hook[p] = "idle" /\ mem[p] = R!Quiet /\ stage[p] = "new" /\ p \notin live
  OBVIOUS
<1>4. \A k \in Keys : rec[k] = R!NoRecord /\ rec[k].pid = None
  BY DEF Keys, R!Key, R!NoRecord
<1>5. OfTheStarted /\ SessionsApart
  BY <1>2, <1>3 DEF OfTheStarted, SessionsApart, Active, InHook
<1>6. RecordsAreOfTheirKey  BY <1>4 DEF RecordsAreOfTheirKey, Keys
<1>7. \A p \in Proc : Unnamed(p)  BY <1>4, Names DEF Unnamed, Keys
<1>8. \A p \in Proc : HookIsTyped(p) /\ InItsStage(p) /\ DecidesWithout(p)
  BY <1>3, <1>7, QuietIsCarried DEF HookIsTyped, InItsStage, InHook, DecidesWithout
<1>9. ASSUME NEW p \in Proc PROVE IsOrderly(p)
  <2>1. JudgedStands(p) /\ ActsOnItsOwn(p)
    BY <1>3, <1>7 DEF JudgedStands, ActsOnItsOwn, Acting
  <2>2. IsAtHome(p) /\ OverIsNotNamed(p)  BY <1>3 DEF IsAtHome, OverIsNotNamed, R!Over
  <2>3. ChildIsReplaced(p) /\ PaneIsLeft(p)  BY <1>2 DEF ChildIsReplaced, PaneIsLeft
  <2> QED  BY <2>1, <2>2, <2>3 DEF IsOrderly
<1>10. PaneIsOfThePane  BY <1>4 DEF PaneIsOfThePane, Keys
<1> QED  BY <1>1, <1>2, <1>5, <1>6, <1>8, <1>9, <1>10 DEF RecordsInv, OrderlyInv

LEMMA RecordsStep == RecordsInv /\ [R!Next]_ofRecords => RecordsInv'
<1> SUFFICES ASSUME RecordsInv, [R!Next]_ofRecords PROVE RecordsInv'
  OBVIOUS
<1>1. front \in Proc \cup {None} /\ reused \subseteq R!Started \ live /\ abort.pid \in R!Started \cup {None}
  BY DEF RecordsInv, R!TypeOK, OfTheStarted
<1>2. R!Orderly => ~abort.stale  BY DEF RecordsInv, OrderlyInv
<1>3. CASE UNCHANGED ofRecords
  BY <1>1, <1>2, <1>3, AsideKeeps DEF ofRecords
<1>4. ASSUME R!Orderly, NEW p \in Proc, R!Resume(p) PROVE RecordsInv'
  BY <1>1, <1>2, <1>4, AsideKeeps DEF R!Resume
<1>5. ASSUME R!Orderly, NEW p \in Proc, R!Reuse(p) PROVE RecordsInv'
  <2>1. p \in R!Started /\ p \notin live
    <3>1. ASSUME NEW k \in R!Key, rec[k].pid = p PROVE p \in R!Started
      <4>1. k \in Sid /\ rec[k] # R!NoRecord
        BY <3>1, Names DEF RecordsInv, RecordsAreOfTheirKey, R!Key, R!NoRecord
      <4> QED  BY <3>1, <4>1, Names DEF RecordsInv, RecordsAreOfTheirKey, R!Started
    <3>2. abort.pid = p => p \in R!Started  BY <1>1, Names
    <3> QED  BY <1>5, <3>1, <3>2 DEF R!Reuse
  <2>2. reused' \subseteq R!Started \ live  BY <1>1, <1>5, <2>1 DEF R!Reuse
  <2> QED  BY <1>1, <1>2, <1>5, <2>2, AsideKeeps DEF R!Reuse
<1> QED
  BY <1>3, <1>4, <1>5, LaunchKeeps, HookKeeps, DiesKeeps, AbortReadsKeeps, AbortKillsKeeps
     DEF R!Next

LEMMA RecordsInvHolds == Spec => []RecordsInv
<1>1. Init => RecordsInv  BY RecordsInit DEF Init
<1>2. RecordsInv /\ [Next]_vars => RecordsInv'
  <2>1. [Next]_vars => [R!Next]_ofRecords
    BY DEF Next, vars, InRecords, InLock, ofRecords
  <2> QED  BY <2>1, RecordsStep
<1> QED  BY <1>1, <1>2, PTL DEF Spec

\* The record of a session is where the rules of tmux-agent-state.sh put it, for
\* any number of processes, whatever kind each is started as.
THEOREM RecordsAtHomeHolds == Spec => []RecordsAtHome
<1>1. RecordsInv => RecordsAtHome
  <2> SUFFICES ASSUME RecordsInv PROVE RecordsAtHome  OBVIOUS
  <2>1. R!TypeOK /\ live \subseteq Proc  BY DEF RecordsInv, R!TypeOK
  <2>2. ASSUME R!Orderly, NEW p \in live, stage[p] = "open", hook[p] = "idle"
        PROVE  /\ kind[p] \in {"child", "headless"} => rec[sid[p]].pid = p /\ rec[sid[p]].sid = sid[p]
               /\ kind[p] = "pane" /\ (\A q \in R!Started \ {p} : kind[q] # "pane") => rec[Pane].sid = sid[p]
    <3>1. IsAtHome(p)  BY <2>1, <2>2 DEF RecordsInv, OrderlyInv, IsOrderly
    <3> QED  BY <2>2, <3>1 DEF IsAtHome, InHook
  <2>3. R!Orderly => PaneIsOfThePane  BY DEF RecordsInv, OrderlyInv
  <2> QED  BY <2>1, <2>2, <2>3 DEF RecordsAtHome, R!RecordsAtHome, R!At, PaneIsOfThePane
<1> QED  BY <1>1, RecordsInvHolds, PTL

\* What a session leaves when it has been through its SessionEnd: no record that
\* an abort could follow to the next owner of its pid (abort.rs).
THEOREM RecordsEndWithTheirsHolds == Spec => []RecordsEndWithTheirs
<1>1. RecordsInv => RecordsEndWithTheirs
  <2> SUFFICES ASSUME RecordsInv, R!Orderly,
                      NEW p \in R!Started, R!Over(p),
                      \A q \in R!Started \ {p} : sid[q] = sid[p] => kind[q] = "child",
                      NEW k \in R!Key, rec[k].sid = sid[p]
               PROVE  FALSE
    BY DEF RecordsEndWithTheirs, R!RecordsEndWithTheirs, RecordsInv, OrderlyInv
  <2>1. p \in Proc /\ sid[p] \in Sid  BY DEF R!Started, RecordsInv, R!TypeOK
  <2>2. IsOrderly(p) /\ PaneIsOfThePane /\ RecordsAreOfTheirKey
    BY <2>1 DEF RecordsInv, OrderlyInv
  <2>3. rec[k] # R!NoRecord  BY <2>1, Names DEF R!NoRecord
  <2>4. CASE k \in Sid
    <3> DEFINE q == rec[k].pid
    <3>1. k = sid[p] /\ q \in Proc /\ sid[q] = sid[p]
      BY <2>2, <2>3, <2>4 DEF RecordsAreOfTheirKey
    <3>2. q # p  BY <2>1, <2>2, <3>1 DEF IsOrderly, OverIsNotNamed, Unnamed
    <3>3. q \in R!Started /\ kind[q] = "child"  BY <2>1, <3>1, <3>2, Names DEF R!Started
    <3>4. kind[p] = "child"
      <4>1. HookIsTyped(p) /\ ~Starting(p)
        BY <2>1 DEF RecordsInv, R!Over, Starting
      <4> QED  BY <2>2, <3>1, <3>2, <3>3, <4>1 DEF IsOrderly, ChildIsReplaced
    <3> QED  BY <3>1, <3>2, <3>3, <3>4 DEF RecordsInv, SessionsApart
  <2>5. CASE k = Pane
    <3>1. PICK q \in R!Started : kind[q] \in {"pane", "job"} /\ sid[q] = sid[p]
      BY <2>2, <2>3, <2>5 DEF PaneIsOfThePane
    <3>2. q = p  BY <3>1
    <3> QED  BY <2>2, <2>5, <3>1, <3>2 DEF IsOrderly, PaneIsLeft, HasNoPane, Alone
  <2> QED  BY <2>4, <2>5 DEF R!Key
<1> QED  BY <1>1, RecordsInvHolds, PTL

-----------------------------------------------------------------------------
(* Counting and recursion *)

\* A set of numbers has a least.
LEMMA LeastNat == ASSUME NEW T, T \subseteq Nat, T # {} PROVE \E x \in T : \A y \in T : x <= y
<1>1. PICK x \in T : \A y \in T : ~(<<y, x>> \in OpToRel(<, Nat))
  BY WFMin, NatLessThanWellFounded
<1>2. \A y \in T : ~(y < x)  BY <1>1 DEF OpToRel
<1> QED  BY <1>2

\* What holds of zero, and of the next of any number it holds of, holds of all.
LEMMA Counting ==
  ASSUME NEW S, 0 \in S, \A n \in Nat : n \in S => n + 1 \in S
  PROVE  \A n \in Nat : n \in S
<1> SUFFICES ASSUME Nat \ S # {} PROVE FALSE  OBVIOUS
<1>1. PICK x \in Nat \ S : \A y \in Nat \ S : x <= y  BY LeastNat
<1>2. x # 0 /\ x - 1 \in Nat  BY <1>1
<1>3. x - 1 \in S  BY <1>1, <1>2
<1> QED  BY <1>1, <1>2, <1>3

\* A set of numbers has a least, and it is the one Min chooses.
LEMMA MinIs ==
  ASSUME NEW T, T \subseteq Nat, T # {}
  PROVE  Refs!Min(T) \in T /\ \A y \in T : Refs!Min(T) <= y
<1>2. \E x \in T : \A y \in T : x <= y  BY LeastNat
<1>3. Refs!Min(T) = CHOOSE a \in T : \A b \in T : a <= b  BY DEF Refs!Min
<1> QED  BY <1>2, <1>3

\* What a function is up to m that goes on from nothing by these steps, each
\* of a sequence that becomes another: `adds` says which numbers change it and
\* `becomes` what it becomes.
GoesOn(h, becomes, m) ==
  h = [n \in 0..m |-> IF n = 0 THEN <<>> ELSE becomes[<<n, h[n - 1]>>]]

\* There is one.
LEMMA Recursion ==
  ASSUME NEW T, <<>> \in T, NEW becomes, \A n \in Nat : \A x \in T : becomes[<<n, x>>] \in T, NEW m \in Nat
  PROVE  \E h \in [0..m -> T] : GoesOn(h, becomes, m)
<1> DEFINE Is(h, k) == h[0] = <<>> /\ \A n \in 1..k : h[n] = becomes[<<n, h[n - 1]>>]
           S == {k \in Nat : \E h \in [0..k -> T] : Is(h, k)}
<1>1. 0 \in S
  <2> DEFINE f == [n \in 0..0 |-> <<>>]
  <2>1. f \in [0..0 -> T] /\ Is(f, 0)  OBVIOUS
  <2> QED  BY <2>1
<1>2. ASSUME NEW k \in Nat, k \in S PROVE k + 1 \in S
  <2>1. PICK f \in [0..k -> T] : Is(f, k)  BY <1>2
  <2> DEFINE g == [n \in 0..(k + 1) |-> IF n = k + 1 THEN becomes[<<k + 1, f[k]>>] ELSE f[n]]
  <2>2. g \in [0..(k + 1) -> T]  OBVIOUS
  <2>3. g[k + 1] = becomes[<<k + 1, f[k]>>] /\ \A n \in 0..k : g[n] = f[n]  OBVIOUS
  <2> HIDE DEF g
  <2>4. ASSUME NEW n \in 1..(k + 1) PROVE g[n] = becomes[<<n, g[n - 1]>>]
    <3>1. CASE n = k + 1
      <4>1. n - 1 = k /\ k \in 0..k  BY <3>1
      <4> QED  BY <2>3, <3>1, <4>1
    <3>2. CASE n # k + 1
      <4>1. n \in 1..k /\ n - 1 \in 0..k /\ n \in 0..k  BY <3>2
      <4>2. g[n] = f[n] /\ g[n - 1] = f[n - 1]  BY <2>3, <4>1
      <4> QED  BY <2>1, <4>1, <4>2
    <3> QED  BY <3>1, <3>2
  <2>5. Is(g, k + 1)  BY <2>1, <2>3, <2>4
  <2> QED  BY <2>2, <2>5
<1> HIDE DEF S
<1>3. m \in S  BY <1>1, <1>2, Counting
<1>4. PICK h \in [0..m -> T] : Is(h, m)  BY <1>3 DEF S
<1>5. \A n \in 0..m : h[n] = IF n = 0 THEN <<>> ELSE becomes[<<n, h[n - 1]>>]
  <2> TAKE n \in 0..m
  <2>1. n # 0 => n \in 1..m  OBVIOUS
  <2> QED  BY <1>4, <2>1
<1>6. h = [n \in 0..m |-> h[n]]  BY <1>4
<1> QED  BY <1>5, <1>6 DEF GoesOn

-----------------------------------------------------------------------------
(* What is kept of a sequence *)

\* The keeping of these places up to n.
Keeping(h, s, places) ==
  h = [n \in 0..Len(s) |->
         IF n = 0 THEN <<>> ELSE IF n \in places THEN Append(h[n - 1], s[n]) ELSE h[n - 1]]

LEMMA KeepIs ==
  ASSUME NEW S, NEW s \in Seq(S), NEW places
  PROVE  \E h : Keeping(h, s, places) /\ Refs!Keep(s, places) = h[Len(s)]
<1> DEFINE N == Len(s)
           becomes == [p \in Nat \X Seq(S) |->
             IF p[1] \in places /\ p[1] \in 1..N THEN Append(p[2], s[p[1]]) ELSE p[2]]
<1>1. N \in Nat /\ \A n \in 1..N : s[n] \in S  OBVIOUS
<1>2. ASSUME NEW n \in Nat, NEW x \in Seq(S)
      PROVE  /\ becomes[<<n, x>>] = (IF n \in places /\ n \in 1..N THEN Append(x, s[n]) ELSE x)
             /\ becomes[<<n, x>>] \in Seq(S)
  <2>1. becomes[<<n, x>>] = (IF n \in places /\ n \in 1..N THEN Append(x, s[n]) ELSE x)  OBVIOUS
  <2> HIDE DEF becomes
  <2> QED  BY <1>1, <2>1
<1> HIDE DEF becomes
<1>2a. <<>> \in Seq(S) /\ \A n \in Nat : \A x \in Seq(S) : becomes[<<n, x>>] \in Seq(S)  BY <1>2
<1>3. PICK f \in [0..N -> Seq(S)] : GoesOn(f, becomes, N)  BY <1>1, <1>2a, Recursion
<1>3a. \A n \in 0..N : f[n] = IF n = 0 THEN <<>> ELSE becomes[<<n, f[n - 1]>>]  BY <1>3 DEF GoesOn
<1>4. Keeping(f, s, places)
  <2>1. ASSUME NEW n \in 0..N
        PROVE  f[n] = IF n = 0 THEN <<>> ELSE IF n \in places THEN Append(f[n - 1], s[n]) ELSE f[n - 1]
    <3>1. f[n] = IF n = 0 THEN <<>> ELSE becomes[<<n, f[n - 1]>>]  BY <1>3a
    <3>1a. n # 0 => n \in Nat /\ n \in 1..N /\ n - 1 \in 0..N  BY <1>1
    <3>1b. \A k \in 0..N : f[k] \in Seq(S)  BY <1>3
    <3>2. n # 0 => n \in Nat /\ n \in 1..N /\ f[n - 1] \in Seq(S)  BY <3>1a, <3>1b
    <3> QED  BY <1>2, <3>1, <3>2
  <2>2. f = [n \in 0..N |-> f[n]]  BY <1>3
  <2> HIDE DEF N
  <2> QED  BY <2>1, <2>2 DEF Keeping, N
<1> DEFINE g == CHOOSE h : Keeping(h, s, places)
<1>5. Keeping(g, s, places)  BY <1>4
<1>6. Refs!Keep(s, places) = g[N]  BY DEF Refs!Keep, Keeping
<1> QED  BY <1>5, <1>6

\* What is kept of the first n: e says from which place each entry comes, the
\* places in their order and every place that is kept.
Kept(S, s, places, n, kept) ==
  \E e \in [1..Len(kept) -> {p \in places : p <= n}] :
    /\ kept \in Seq(S)
    /\ \A i \in 1..Len(kept) : kept[i] = s[e[i]]
    /\ \A i, j \in 1..Len(kept) : i < j => e[i] < e[j]
    /\ \A p \in places : p <= n => \E i \in 1..Len(kept) : e[i] = p

\* Keep keeps the entries at its places, in their order.
LEMMA KeepKeeps ==
  ASSUME NEW S, NEW s \in Seq(S), NEW places \in SUBSET (1..Len(s))
  PROVE  Kept(S, s, places, Len(s), Refs!Keep(s, places))
<1>0. Len(s) \in Nat /\ \A p \in places : p \in Nat /\ p >= 1  OBVIOUS
<1>1. PICK f : Keeping(f, s, places) /\ Refs!Keep(s, places) = f[Len(s)]  BY KeepIs
<1>2. \A i \in 0..Len(s) : f[i] = IF i = 0 THEN <<>> ELSE IF i \in places THEN Append(f[i - 1], s[i]) ELSE f[i - 1]
  BY <1>1 DEF Keeping
<1> DEFINE T == {n \in Nat : n <= Len(s) => Kept(S, s, places, n, f[n])}
<1>3. 0 \in T
  <2>1. f[0] = <<>>  BY <1>0, <1>2
  <2>2. Len(f[0]) = 0 /\ f[0] \in Seq(S)  BY <2>1
  <2>3. \A p \in places : ~(p <= 0)  BY <1>0
  <2> DEFINE g == [i \in 1..0 |-> 1]
  <2>4. g \in [1..Len(f[0]) -> {p \in places : p <= 0}]  BY <2>2, <2>3
  <2>5. Kept(S, s, places, 0, f[0])  BY <2>2, <2>3, <2>4 DEF Kept
  <2> QED  BY <2>5
<1>4. ASSUME NEW n \in Nat, n \in T PROVE n + 1 \in T
  <2> SUFFICES ASSUME n + 1 <= Len(s) PROVE Kept(S, s, places, n + 1, f[n + 1])  OBVIOUS
  <2>1. Kept(S, s, places, n, f[n])  BY <1>0, <1>4
  <2>2. n \in 0..Len(s) /\ n + 1 \in 0..Len(s) /\ n + 1 # 0 /\ (n + 1) - 1 = n /\ n + 1 \in 1..Len(s)
    BY <1>0
  <2>3. f[n + 1] = IF n + 1 \in places THEN Append(f[n], s[n + 1]) ELSE f[n]  BY <1>2, <2>2
  <2> DEFINE earlier == f[n]
             new == f[n + 1]
  <2>4. PICK e \in [1..Len(earlier) -> {p \in places : p <= n}] :
           /\ earlier \in Seq(S)
           /\ \A i \in 1..Len(earlier) : earlier[i] = s[e[i]]
           /\ \A i, j \in 1..Len(earlier) : i < j => e[i] < e[j]
           /\ \A p \in places : p <= n => \E i \in 1..Len(earlier) : e[i] = p
    BY <2>1 DEF Kept
  <2> HIDE DEF earlier, new
  <2>5. CASE n + 1 \notin places
    <3>1. new = earlier  BY <2>3, <2>5 DEF earlier, new
    <3>2. \A p \in places : p <= n + 1 <=> p <= n  BY <1>0, <2>5
    <3>3. {p \in places : p <= n + 1} = {p \in places : p <= n}  BY <3>2
    <3> QED  BY <2>4, <3>1, <3>2, <3>3 DEF Kept, new
  <2>6. CASE n + 1 \in places
    <3>1. new = Append(earlier, s[n + 1]) /\ s[n + 1] \in S  BY <2>2, <2>3, <2>6 DEF earlier, new
    <3>2. /\ new \in Seq(S) /\ Len(new) = Len(earlier) + 1 /\ Len(earlier) \in Nat
          /\ new[Len(earlier) + 1] = s[n + 1]
          /\ \A i \in 1..Len(earlier) : new[i] = earlier[i]
      BY <2>4, <3>1
    <3> DEFINE d == [i \in 1..Len(new) |-> IF i = Len(new) THEN n + 1 ELSE e[i]]
    <3>3. \A i \in 1..Len(earlier) : e[i] \in places /\ e[i] <= n /\ e[i] \in Nat  BY <1>0, <2>4
    <3>4. \A i \in 1..Len(new) : i = Len(new) \/ i \in 1..Len(earlier)  BY <3>2
    <3>5. d \in [1..Len(new) -> {p \in places : p <= n + 1}]  BY <2>6, <3>3, <3>4
    <3>6. \A i \in 1..Len(new) : new[i] = s[d[i]]  BY <2>4, <3>2, <3>4
    <3>7. \A i, j \in 1..Len(new) : i < j => d[i] < d[j]
      <4> TAKE i, j \in 1..Len(new)
      <4> HAVE i < j
      <4>1. i \in 1..Len(earlier) /\ d[i] = e[i]  BY <3>2, <3>4
      <4> QED  BY <2>4, <3>3, <3>4, <4>1
    <3>8. ASSUME NEW p \in places, p <= n + 1 PROVE \E i \in 1..Len(new) : d[i] = p
      <4>1. CASE p = n + 1  BY <3>2, <4>1
      <4>2. CASE p # n + 1
        <5>1. p <= n  BY <1>0, <3>8, <4>2
        <5>2. PICK i \in 1..Len(earlier) : e[i] = p  BY <2>4, <5>1
        <5> QED  BY <3>2, <5>2
      <4> QED  BY <4>1, <4>2
    <3> HIDE DEF d
    <3> QED  BY <3>2, <3>5, <3>6, <3>7, <3>8 DEF Kept, new
  <2> QED  BY <2>5, <2>6
<1> HIDE DEF T
<1>5. Len(s) \in T  BY <1>0, <1>3, <1>4, Counting
<1> QED  BY <1>0, <1>1, <1>5 DEF T

\* Whoever keeps every place keeps it all.
LEMMA KeepAll ==
  ASSUME NEW S, NEW s \in Seq(S), NEW places, \A n \in 1..Len(s) : n \in places
  PROVE  Refs!Keep(s, places) = s
<1>0. Len(s) \in Nat  OBVIOUS
<1>1. PICK f : Keeping(f, s, places) /\ Refs!Keep(s, places) = f[Len(s)]  BY KeepIs
<1>2. \A i \in 0..Len(s) : f[i] = IF i = 0 THEN <<>> ELSE IF i \in places THEN Append(f[i - 1], s[i]) ELSE f[i - 1]
  BY <1>1 DEF Keeping
<1> DEFINE T == {n \in Nat : n <= Len(s) => f[n] = SubSeq(s, 1, n)}
<1>3. 0 \in T
  <2>1. f[0] = <<>>  BY <1>0, <1>2
  <2>2. SubSeq(s, 1, 0) = <<>>  BY SubSeqEmpty
  <2> QED  BY <2>1, <2>2
<1>4. ASSUME NEW n \in Nat, n \in T PROVE n + 1 \in T
  <2> SUFFICES ASSUME n + 1 <= Len(s) PROVE f[n + 1] = SubSeq(s, 1, n + 1)  OBVIOUS
  <2>1. n + 1 \in 0..Len(s) /\ n + 1 # 0 /\ (n + 1) - 1 = n /\ n + 1 \in 1..Len(s) /\ n <= Len(s)  BY <1>0
  <2>2. f[n + 1] = Append(f[n], s[n + 1]) /\ f[n] = SubSeq(s, 1, n)  BY <1>2, <1>4, <2>1
  <2>3. SubSeq(s, 1, n + 1) = Append(SubSeq(s, 1, n), s[n + 1])  BY <2>1
  <2> QED  BY <2>2, <2>3
<1> HIDE DEF T
<1>5. Len(s) \in T  BY <1>0, <1>3, <1>4, Counting
<1>6. SubSeq(s, 1, Len(s)) = s  OBVIOUS
<1> QED  BY <1>0, <1>1, <1>5, <1>6 DEF T

-----------------------------------------------------------------------------
(* The rows of a directory *)

NewestFirst(rows) == \A i, j \in 1..Len(rows) : i < j => rows[i].at >= rows[j].at

LEMMA HookFileIs ==
  \A file \in HookFile : file.at \in Int /\ file.session \in Seq(Nat) /\ file.name \in Seq(Nat)
BY DEF HookFile

\* A row is placed behind those that are as new, before those that are older.
LEMMA PlacedIs ==
  ASSUME NEW rows \in Seq(HookFile), NEW row \in HookFile, NewestFirst(rows)
  PROVE  LET new == Refs!Placed(rows, row)
         IN  /\ new \in Seq(HookFile) /\ Len(new) = Len(rows) + 1
             /\ \E k \in 1..(Len(rows) + 1) :
                  /\ new[k] = row
                  /\ \A i \in 1..(k - 1) : new[i] = rows[i] /\ rows[i].at >= row.at
                  /\ \A i \in k..Len(rows) : new[i + 1] = rows[i] /\ rows[i].at < row.at
<1> DEFINE older == {i \in DOMAIN rows : rows[i].at < row.at}
           k == Refs!Min(older \cup {Len(rows) + 1})
           new == Refs!Placed(rows, row)
<1>1. Len(rows) \in Nat /\ DOMAIN rows = 1..Len(rows) /\ older \subseteq 1..Len(rows)  OBVIOUS
<1>2. k \in older \cup {Len(rows) + 1} /\ \A i \in older : k <= i
  <2>1. older \cup {Len(rows) + 1} \subseteq Nat  BY <1>1
  <2> HIDE DEF older
  <2> QED  BY <2>1, MinIs
<1>3. new = Refs!InsertAt(rows, k, row)  BY DEF Refs!Placed
<1>3a. new = SubSeq(rows, 1, k - 1) \o <<row>> \o SubSeq(rows, k, Len(rows))  BY <1>3 DEF Refs!InsertAt
<1> HIDE DEF k, new
<1>4. k \in 1..(Len(rows) + 1) /\ k \in Nat /\ k - 1 \in Nat  BY <1>1, <1>2
<1>5. \A i \in 1..Len(rows) : rows[i] \in HookFile /\ rows[i].at \in Int  BY HookFileIs
<1>5a. row.at \in Int  BY HookFileIs
<1>6. \A i \in 1..(k - 1) : rows[i].at >= row.at
  <2> TAKE i \in 1..(k - 1)
  <2>1. i \in 1..Len(rows) /\ i < k  BY <1>1, <1>4
  <2>2. i \notin older  BY <1>2, <1>4, <2>1
  <2> QED  BY <1>1, <1>5, <1>5a, <2>1, <2>2
<1>7. \A i \in k..Len(rows) : rows[i].at < row.at
  <2> TAKE i \in k..Len(rows)
  <2>1. k \in 1..Len(rows) /\ i \in 1..Len(rows) /\ k <= i  BY <1>1, <1>4
  <2>2. k \in older  BY <1>1, <1>2, <2>1
  <2>3. rows[k].at >= rows[i].at  BY <1>5, <2>1 DEF NewestFirst
  <2> QED  BY <1>5, <1>5a, <2>1, <2>2, <2>3
<1> DEFINE a == SubSeq(rows, 1, k - 1)
           b == SubSeq(rows, k, Len(rows))
<1>8. a \in Seq(HookFile) /\ Len(a) = k - 1 /\ \A i \in 1..(k - 1) : a[i] = rows[i]
  BY <1>1, <1>4, SubSeqProperties
<1>9. b \in Seq(HookFile) /\ Len(b) = Len(rows) - k + 1 /\ \A i \in 1..(Len(rows) - k + 1) : b[i] = rows[k + i - 1]
  BY <1>1, <1>4, SubSeqProperties
<1> HIDE DEF a, b
<1>10. new = (a \o <<row>>) \o b  BY <1>3a DEF a, b
<1>11. a \o <<row>> \in Seq(HookFile) /\ Len(a \o <<row>>) = k /\ (a \o <<row>>)[k] = row
       /\ \A i \in 1..(k - 1) : (a \o <<row>>)[i] = rows[i]
  BY <1>4, <1>8
<1> DEFINE c == a \o <<row>>
<1> HIDE DEF c
<1>12. c \in Seq(HookFile) /\ Len(c) = k /\ c[k] = row /\ (\A i \in 1..(k - 1) : c[i] = rows[i]) /\ new = c \o b
  BY <1>10, <1>11 DEF c
<1>13. new \in Seq(HookFile) /\ Len(new) = Len(rows) + 1  BY <1>1, <1>4, <1>9, <1>12
<1>14. (\A i \in 1..k : new[i] = c[i]) /\ \A i \in 1..Len(b) : new[k + i] = b[i]
  BY <1>4, <1>9, <1>12
<1>15. new[k] = row /\ \A i \in 1..(k - 1) : new[i] = rows[i]
  <2>1. k \in 1..k /\ \A i \in 1..(k - 1) : i \in 1..k  BY <1>4
  <2> QED  BY <1>12, <1>14, <2>1
<1>16. \A i \in k..Len(rows) : new[i + 1] = rows[i]
  <2> TAKE i \in k..Len(rows)
  <2>1. i - k + 1 \in 1..Len(b) /\ k + (i - k + 1) = i + 1 /\ k + (i - k + 1) - 1 = i
        /\ i - k + 1 \in 1..(Len(rows) - k + 1)
    BY <1>1, <1>4, <1>9
  <2>2. new[k + (i - k + 1)] = b[i - k + 1]  BY <1>14, <2>1
  <2>3. b[i - k + 1] = rows[k + (i - k + 1) - 1]  BY <1>9, <2>1
  <2> QED  BY <2>1, <2>2, <2>3
<1> QED  BY <1>4, <1>6, <1>7, <1>13, <1>15, <1>16 DEF new

\* The sorting of the first n files.
Sorting(h, files) ==
  h = [n \in 0..Len(files) |->
         IF n = 0 THEN <<>>
         ELSE IF Refs!IsRow(files[n]) THEN Refs!Placed(h[n - 1], files[n]) ELSE h[n - 1]]

\* The rows of the first n files, newest first and each of them once.
AreRows(files, n, rows) ==
  /\ rows \in Seq(HookFile) /\ NewestFirst(rows)
  /\ \A k \in 1..Len(rows) : \E i \in 1..n : Refs!IsRow(files[i]) /\ rows[k] = files[i]
  /\ \A i \in 1..n : Refs!IsRow(files[i]) => \E k \in 1..Len(rows) : rows[k] = files[i]
  /\ \A k, l \in 1..Len(rows) : rows[k].name = rows[l].name => k = l

\* One file more.
LEMMA RowsOn ==
  ASSUME NEW files, IsDirectory(files), NEW n \in Nat, n + 1 <= Len(files), NEW rows, AreRows(files, n, rows),
         Refs!IsRow(files[n + 1])
  PROVE  AreRows(files, n + 1, Refs!Placed(rows, files[n + 1]))
<1> DEFINE row == files[n + 1]
           new == Refs!Placed(rows, row)
<1>1. /\ rows \in Seq(HookFile) /\ NewestFirst(rows)
      /\ \A k \in 1..Len(rows) : \E i \in 1..n : Refs!IsRow(files[i]) /\ rows[k] = files[i]
      /\ \A i \in 1..n : Refs!IsRow(files[i]) => \E k \in 1..Len(rows) : rows[k] = files[i]
      /\ \A k, l \in 1..Len(rows) : rows[k].name = rows[l].name => k = l
  BY DEF AreRows
<1>1a. Len(rows) \in Nat  BY <1>1
<1>2a. files \in Seq(HookFile) /\ \A i, j \in DOMAIN files : files[i].name = files[j].name => i = j
  BY DEF IsDirectory
<1>2b. Len(files) \in Nat /\ DOMAIN files = 1..Len(files) /\ \A i \in 1..Len(files) : files[i] \in HookFile
  BY <1>2a
<1>2. /\ Len(files) \in Nat /\ n + 1 \in 1..Len(files)
      /\ \A i \in 1..Len(files) : files[i] \in HookFile
      /\ \A i, j \in 1..Len(files) : files[i].name = files[j].name => i = j
  BY <1>2a, <1>2b
<1>3. row \in HookFile /\ row.at \in Int  BY <1>2, HookFileIs
<1>3b. \A i \in 1..Len(rows) : rows[i] \in HookFile  BY <1>1
<1>3a. \A i \in 1..Len(rows) : rows[i].at \in Int  BY <1>3b, HookFileIs
<1> HIDE DEF new
<1>4. /\ new \in Seq(HookFile) /\ Len(new) = Len(rows) + 1
      /\ \E k \in 1..(Len(rows) + 1) :
                  /\ new[k] = row
                  /\ \A i \in 1..(k - 1) : new[i] = rows[i] /\ rows[i].at >= row.at
                  /\ \A i \in k..Len(rows) : new[i + 1] = rows[i] /\ rows[i].at < row.at
  BY <1>1, <1>3, PlacedIs DEF new
<1>5. PICK k \in 1..(Len(rows) + 1) :
        /\ new[k] = row
        /\ \A i \in 1..(k - 1) : new[i] = rows[i] /\ rows[i].at >= row.at
        /\ \A i \in k..Len(rows) : new[i + 1] = rows[i] /\ rows[i].at < row.at
  BY <1>4
\* Where an entry of the new ones was.
<1> DEFINE was(i) == IF i < k THEN i ELSE i - 1
<1>6. \A i \in 1..Len(new) : i # k =>
        /\ was(i) \in 1..Len(rows) /\ new[i] = rows[was(i)]
        /\ i < k => rows[was(i)].at >= row.at
        /\ i > k => row.at >= rows[was(i)].at
  <2> TAKE i \in 1..Len(new)
  <2> HAVE i # k
  <2>1. CASE i < k
    <3>1. i \in 1..(k - 1) /\ i \in 1..Len(rows)  BY <1>1, <1>4, <2>1
    <3> QED  BY <1>5, <2>1, <3>1
  <2>2. CASE i > k
    <3>1. i - 1 \in k..Len(rows) /\ i - 1 \in 1..Len(rows) /\ (i - 1) + 1 = i /\ ~(i < k)  BY <1>1, <1>4, <2>2
    <3>2. new[(i - 1) + 1] = rows[i - 1] /\ rows[i - 1].at < row.at  BY <1>5, <3>1
    <3> QED  BY <1>3, <1>3a, <2>2, <3>1, <3>2
  <2> QED  BY <1>1, <1>4, <2>1, <2>2
<1>7. \A i, j \in 1..Len(new) : i # k /\ j # k => (was(i) = was(j) => i = j) /\ (i < j => was(i) < was(j))
  BY <1>1, <1>4
<1>8. NewestFirst(new)
  <2> SUFFICES ASSUME NEW i \in 1..Len(new), NEW j \in 1..Len(new), i < j PROVE new[i].at >= new[j].at
    BY DEF NewestFirst
  <2>1. CASE i = k
    <3>1. j > k /\ j # k  BY <1>1a, <1>4, <2>1
    <3> QED  BY <1>5, <1>6, <2>1, <3>1
  <2>2. CASE j = k
    <3>1. i < k /\ i # k  BY <1>1a, <1>4, <2>2
    <3> QED  BY <1>5, <1>6, <2>2, <3>1
  <2>3. CASE i # k /\ j # k
    <3>1. was(i) \in 1..Len(rows) /\ was(j) \in 1..Len(rows) /\ was(i) < was(j)  BY <1>6, <1>7, <2>3
    <3>2. rows[was(i)].at >= rows[was(j)].at  BY <1>1, <3>1 DEF NewestFirst
    <3> QED  BY <1>6, <2>3, <3>2
  <2> QED  BY <2>1, <2>2, <2>3
<1>9. \A i \in 1..Len(new) : \E m \in 1..(n + 1) : Refs!IsRow(files[m]) /\ new[i] = files[m]
  <2> TAKE i \in 1..Len(new)
  <2>1. CASE i = k  BY <1>5, <2>1
  <2>2. CASE i # k
    <3>1. PICK m \in 1..n : Refs!IsRow(files[m]) /\ rows[was(i)] = files[m]  BY <1>1, <1>6, <2>2
    <3> QED  BY <1>6, <2>2, <3>1
  <2> QED  BY <2>1, <2>2
<1>10. \A m \in 1..(n + 1) : Refs!IsRow(files[m]) => \E i \in 1..Len(new) : new[i] = files[m]
  <2> TAKE m \in 1..(n + 1)
  <2> HAVE Refs!IsRow(files[m])
  <2>1. CASE m = n + 1
    <3>1. k \in 1..Len(new)  BY <1>4
    <3> QED  BY <1>5, <2>1, <3>1
  <2>2. CASE m # n + 1
    <3>1. m \in 1..n  BY <2>2
    <3>2. PICK i \in 1..Len(rows) : rows[i] = files[m]  BY <1>1, <3>1
    <3>3. CASE i < k
      <4>1. i \in 1..(k - 1) /\ i \in 1..Len(new)  BY <1>1, <1>4, <3>3
      <4> QED  BY <1>5, <3>2, <4>1
    <3>4. CASE ~(i < k)
      <4>1. i \in k..Len(rows) /\ i + 1 \in 1..Len(new)  BY <1>1, <1>4, <3>4
      <4> QED  BY <1>5, <3>2, <4>1
    <3> QED  BY <3>3, <3>4
  <2> QED  BY <2>1, <2>2
<1>11. \A i \in 1..Len(rows) : rows[i].name # row.name
  <2> TAKE i \in 1..Len(rows)
  <2>1. PICK m \in 1..n : rows[i] = files[m]  BY <1>1
  <2>2. m \in 1..Len(files) /\ m # n + 1  BY <1>2
  <2> QED  BY <1>2, <2>1, <2>2
<1>12. \A i, j \in 1..Len(new) : new[i].name = new[j].name => i = j
  <2> TAKE i, j \in 1..Len(new)
  <2> HAVE new[i].name = new[j].name
  <2>1. i = k \/ j = k => i = j  BY <1>5, <1>6, <1>11
  <2>2. CASE i # k /\ j # k
    <3>1. was(i) \in 1..Len(rows) /\ was(j) \in 1..Len(rows) /\ rows[was(i)].name = rows[was(j)].name
      BY <1>6, <2>2
    <3>2. was(i) = was(j)  BY <1>1, <3>1
    <3> QED  BY <1>7, <2>2, <3>2
  <2> QED  BY <2>1, <2>2
<1> QED  BY <1>4, <1>8, <1>9, <1>10, <1>12 DEF AreRows, new

\* read_agent_state: the rows are those of the files.
LEMMA RowsAre == ASSUME NEW files, IsDirectory(files) PROVE AreRows(files, Len(files), Refs!Rows(files))
<1> DEFINE N == Len(files)
           Ordered == {rows \in Seq(HookFile) : NewestFirst(rows)}
           becomes == [p \in Nat \X Ordered |->
             IF p[1] \in 1..N /\ Refs!IsRow(files[p[1]]) THEN Refs!Placed(p[2], files[p[1]]) ELSE p[2]]
<1>1. N \in Nat /\ files \in Seq(HookFile) /\ \A n \in 1..N : files[n] \in HookFile  BY DEF IsDirectory
<1>2. ASSUME NEW n \in Nat, NEW x \in Ordered
      PROVE  /\ becomes[<<n, x>>] = (IF n \in 1..N /\ Refs!IsRow(files[n]) THEN Refs!Placed(x, files[n]) ELSE x)
             /\ becomes[<<n, x>>] \in Ordered
  <2>1. becomes[<<n, x>>] = (IF n \in 1..N /\ Refs!IsRow(files[n]) THEN Refs!Placed(x, files[n]) ELSE x)  OBVIOUS
  <2>2. ASSUME n \in 1..N PROVE Refs!Placed(x, files[n]) \in Ordered
    <3> DEFINE new == Refs!Placed(x, files[n])
               row == files[n]
    <3>0. x \in Seq(HookFile) /\ NewestFirst(x) /\ row \in HookFile /\ Len(x) \in Nat  BY <1>1, <2>2
    <3>0a. \A i \in 1..Len(x) : x[i] \in HookFile  BY <3>0
    <3>1. x \in Seq(HookFile) /\ NewestFirst(x) /\ row \in HookFile /\ row.at \in Int /\ Len(x) \in Nat
          /\ \A i \in 1..Len(x) : x[i].at \in Int
      BY <3>0, <3>0a, HookFileIs
    <3> HIDE DEF new, row
    <3>2. /\ new \in Seq(HookFile) /\ Len(new) = Len(x) + 1
          /\ \E k \in 1..(Len(x) + 1) :
                  /\ new[k] = row
                  /\ \A i \in 1..(k - 1) : new[i] = x[i] /\ x[i].at >= row.at
                  /\ \A i \in k..Len(x) : new[i + 1] = x[i] /\ x[i].at < row.at
      BY <3>1, PlacedIs DEF new, row
    <3>3. PICK k \in 1..(Len(x) + 1) :
                  /\ new[k] = row
                  /\ \A i \in 1..(k - 1) : new[i] = x[i] /\ x[i].at >= row.at
                  /\ \A i \in k..Len(x) : new[i + 1] = x[i] /\ x[i].at < row.at
      BY <3>2
    <3>4. \A i \in 1..Len(new) : \/ i = k
                                 \/ i < k /\ i \in 1..(k - 1) /\ i \in 1..Len(x)
                                 \/ i > k /\ i - 1 \in k..Len(x) /\ i - 1 \in 1..Len(x) /\ (i - 1) + 1 = i
      BY <3>1, <3>2
    <3>4a. \A i \in 1..Len(new) : i \in Int /\ k \in Int  BY <3>1, <3>2
    <3>5a. \A i \in 1..Len(new) : i < k => new[i] = x[i] /\ new[i].at >= row.at /\ i \in 1..Len(x)
      BY <3>3, <3>4, <3>4a
    <3>5b. \A i \in 1..Len(new) : i > k => new[i] = x[i - 1] /\ new[i].at < row.at /\ i - 1 \in 1..Len(x)
      <4> TAKE i \in 1..Len(new)
      <4> HAVE i > k
      <4>1. i - 1 \in k..Len(x) /\ i - 1 \in 1..Len(x) /\ (i - 1) + 1 = i  BY <3>4, <3>4a
      <4>2. new[(i - 1) + 1] = x[i - 1] /\ x[i - 1].at < row.at  BY <3>3, <4>1
      <4> QED  BY <4>1, <4>2
    <3>5. \A i \in 1..Len(new) : (i < k => new[i] = x[i] /\ new[i].at >= row.at /\ i \in 1..Len(x))
                                 /\ (i > k => new[i] = x[i - 1] /\ new[i].at < row.at /\ i - 1 \in 1..Len(x))
      BY <3>5a, <3>5b
    <3>6. ASSUME NEW i \in 1..Len(new), NEW j \in 1..Len(new), i < j PROVE new[i].at >= new[j].at
      <4>00. new[i] \in HookFile /\ new[j] \in HookFile  BY <3>2
      <4>0. new[i].at \in Int /\ new[j].at \in Int  BY <4>00, HookFileIs
      <4>1. CASE i = k \/ j = k  BY <3>1, <3>3, <3>5, <3>6, <4>0, <4>1
      <4>2. CASE i < k /\ j < k  BY <3>1, <3>5, <3>6, <4>2 DEF NewestFirst
      <4>3. CASE i < k /\ j > k  BY <3>1, <3>5, <4>0, <4>3
      <4>4. CASE i > k /\ j > k
        <5>1. i - 1 < j - 1 /\ i - 1 \in 1..Len(x) /\ j - 1 \in 1..Len(x)  BY <3>5, <3>6, <4>4
        <5>2. x[i - 1].at >= x[j - 1].at  BY <3>1, <5>1 DEF NewestFirst
        <5> QED  BY <3>5, <4>4, <5>2
      <4> QED  BY <3>2, <3>6, <4>1, <4>2, <4>3, <4>4
    <3> QED  BY <3>2, <3>6 DEF NewestFirst, new, row
  <2> HIDE DEF becomes
  <2> QED  BY <2>1, <2>2
<1> HIDE DEF becomes
<1>2a. <<>> \in Ordered  BY DEF NewestFirst
<1>2b. \A n \in Nat : \A x \in Ordered : becomes[<<n, x>>] \in Ordered  BY <1>2
<1> HIDE DEF Ordered
<1>3. PICK f \in [0..N -> Ordered] : GoesOn(f, becomes, N)  BY <1>1, <1>2a, <1>2b, Recursion
<1>3a. \A n \in 0..N : f[n] = IF n = 0 THEN <<>> ELSE becomes[<<n, f[n - 1]>>]  BY <1>3 DEF GoesOn
<1>4. Sorting(f, files)
  <2>1. ASSUME NEW n \in 0..N
        PROVE  f[n] = IF n = 0 THEN <<>>
                      ELSE IF Refs!IsRow(files[n]) THEN Refs!Placed(f[n - 1], files[n]) ELSE f[n - 1]
    <3>1. f[n] = IF n = 0 THEN <<>> ELSE becomes[<<n, f[n - 1]>>]  BY <1>3a
    <3>1a. n # 0 => n \in Nat /\ n \in 1..N /\ n - 1 \in 0..N  BY <1>1
    <3>1b. \A k \in 0..N : f[k] \in Ordered  BY <1>3
    <3>2. n # 0 => n \in Nat /\ n \in 1..N /\ f[n - 1] \in Ordered  BY <3>1a, <3>1b
    <3> QED  BY <1>2, <3>1, <3>2
  <2>2. f = [n \in 0..N |-> f[n]]  BY <1>3
  <2> HIDE DEF N
  <2> QED  BY <2>1, <2>2 DEF Sorting, N
<1> DEFINE g == CHOOSE h : Sorting(h, files)
<1>5. Sorting(g, files)  BY <1>4
<1>6. Refs!Rows(files) = g[N]  BY DEF Refs!Rows, Sorting
<1> HIDE DEF g
<1>7. \A n \in 0..N : g[n] = IF n = 0 THEN <<>>
                             ELSE IF Refs!IsRow(files[n]) THEN Refs!Placed(g[n - 1], files[n]) ELSE g[n - 1]
  BY <1>5 DEF Sorting
<1> DEFINE T == {n \in Nat : n <= N => AreRows(files, n, g[n])}
<1>8. 0 \in T
  <2>1. g[0] = <<>>  BY <1>1, <1>7
  <2>2. AreRows(files, 0, <<>>)  BY DEF AreRows, NewestFirst
  <2> QED  BY <2>1, <2>2
<1>9. ASSUME NEW n \in Nat, n \in T PROVE n + 1 \in T
  <2> SUFFICES ASSUME n + 1 <= N PROVE AreRows(files, n + 1, g[n + 1])  OBVIOUS
  <2>1. n + 1 \in 0..N /\ n + 1 # 0 /\ (n + 1) - 1 = n /\ n + 1 \in 1..N /\ n <= N  BY <1>1
  <2>2. AreRows(files, n, g[n])  BY <1>9, <2>1
  <2>3. g[n + 1] = IF Refs!IsRow(files[n + 1]) THEN Refs!Placed(g[n], files[n + 1]) ELSE g[n]  BY <1>7, <2>1
  <2>4. CASE Refs!IsRow(files[n + 1])  BY <2>1, <2>2, <2>3, <2>4, RowsOn
  <2>5. CASE ~Refs!IsRow(files[n + 1])
    <3>1. \A i \in 1..(n + 1) : i # n + 1 => i \in 1..n  OBVIOUS
    <3>2. \A i \in 1..n : i \in 1..(n + 1)  OBVIOUS
    <3> DEFINE rows == g[n]
    <3>3. /\ rows \in Seq(HookFile) /\ NewestFirst(rows)
          /\ \A k \in 1..Len(rows) : \E i \in 1..n : Refs!IsRow(files[i]) /\ rows[k] = files[i]
          /\ \A i \in 1..n : Refs!IsRow(files[i]) => \E k \in 1..Len(rows) : rows[k] = files[i]
          /\ \A k, l \in 1..Len(rows) : rows[k].name = rows[l].name => k = l
      BY <2>2 DEF AreRows
    <3> HIDE DEF rows
    <3>4. AreRows(files, n + 1, rows)  BY <2>5, <3>1, <3>2, <3>3 DEF AreRows
    <3> QED  BY <2>3, <2>5, <3>4 DEF rows
  <2> QED  BY <2>4, <2>5
<1> HIDE DEF T
<1>10. N \in T  BY <1>1, <1>8, <1>9, Counting
<1> QED  BY <1>1, <1>6, <1>10 DEF T

-----------------------------------------------------------------------------
(* A session is found by what it is listed with *)

LEMMA NonEmptyIs ==
  ASSUME NEW text
  PROVE  LET t == Refs!NonEmpty(text)
         IN  /\ text = "" => t = Refs!None /\ t.some = FALSE
             /\ text # "" => t = Refs!Some(text) /\ t.some = TRUE /\ t.text = text
<1>1. text = "" => Refs!NonEmpty(text) = Refs!None  BY DEF Refs!NonEmpty
<1>2. text # "" => Refs!NonEmpty(text) = Refs!Some(text)  BY DEF Refs!NonEmpty
<1>3. Refs!None.some = FALSE  BY DEF Refs!None
<1>4. Refs!Some(text).some = TRUE /\ Refs!Some(text).text = text  BY DEF Refs!Some
<1> QED  BY <1>1, <1>2, <1>3, <1>4

\* A listing goes by e: the reference i is of the row e[i].
GoesBy(e, files, history, label, states) ==
  LET all == Refs!Rows(files)
      refs == Refs!Listed(files, history, label, states)
  IN /\ DOMAIN refs = 1..Len(refs) /\ Len(refs) \in Nat
     /\ e \in [1..Len(refs) -> 1..Len(all)]
     /\ \A i \in 1..Len(refs) : Refs!IsListed(all[e[i]], history, label, states)
                                /\ refs[i] = Refs!OfRow(all[e[i]], Refs!LabelOf(history, all[e[i]].session))
     /\ \A i, j \in 1..Len(refs) : i < j => e[i] < e[j]
     /\ \A p \in 1..Len(all) : Refs!IsListed(all[p], history, label, states) => \E i \in 1..Len(refs) : e[i] = p

LEMMA ListedIs ==
  ASSUME NEW files, IsDirectory(files), NEW history, NEW label, NEW states
  PROVE  \E e : GoesBy(e, files, history, label, states)
<1> DEFINE all == Refs!Rows(files)
           places == {i \in DOMAIN all : Refs!IsListed(all[i], history, label, states)}
           rows == Refs!Keep(all, places)
           refs == Refs!Listed(files, history, label, states)
<1>1. all \in Seq(HookFile)  BY RowsAre DEF AreRows
<1>1a. refs = [i \in DOMAIN rows |-> Refs!OfRow(rows[i], Refs!LabelOf(history, rows[i].session))]  BY DEF Refs!Listed
<1> HIDE DEF all, refs
<1>2. DOMAIN all = 1..Len(all) /\ Len(all) \in Nat /\ places \in SUBSET (1..Len(all))  BY <1>1
<1>3. Kept(HookFile, all, places, Len(all), rows)
  <2> HIDE DEF places
  <2> QED  BY <1>1, <1>2, KeepKeeps
<1> HIDE DEF rows
<1>4. PICK e \in [1..Len(rows) -> {p \in places : p <= Len(all)}] :
        /\ rows \in Seq(HookFile)
        /\ \A i \in 1..Len(rows) : rows[i] = all[e[i]]
        /\ \A i, j \in 1..Len(rows) : i < j => e[i] < e[j]
        /\ \A p \in places : p <= Len(all) => \E i \in 1..Len(rows) : e[i] = p
  BY <1>3 DEF Kept
<1>5. DOMAIN rows = 1..Len(rows) /\ Len(rows) \in Nat  BY <1>4
<1>6. Len(refs) = Len(rows) /\ DOMAIN refs = 1..Len(rows)  BY <1>1a, <1>5
<1>7. \A i \in 1..Len(rows) : e[i] \in places /\ e[i] \in 1..Len(all)  BY <1>2, <1>4
<1>8. e \in [1..Len(refs) -> 1..Len(all)]  BY <1>4, <1>6, <1>7
<1>9. \A i \in 1..Len(refs) : refs[i] = Refs!OfRow(all[e[i]], Refs!LabelOf(history, all[e[i]].session))
  BY <1>1a, <1>4, <1>5, <1>6
<1>10. \A i \in 1..Len(refs) : Refs!IsListed(all[e[i]], history, label, states)  BY <1>6, <1>7
<1>11. \A p \in 1..Len(all) : Refs!IsListed(all[p], history, label, states) => \E i \in 1..Len(refs) : e[i] = p
  BY <1>2, <1>4, <1>6
<1> QED  BY <1>4, <1>5, <1>6, <1>8, <1>9, <1>10, <1>11 DEF GoesBy, all, refs

\* What the rows are, in the terms of a listing.
LEMMA RowsSaid ==
  ASSUME NEW files, IsDirectory(files)
  PROVE  LET all == Refs!Rows(files)
         IN  /\ Len(all) \in Nat /\ DOMAIN all = 1..Len(all)
             /\ \A k \in 1..Len(all) : /\ all[k] \in HookFile /\ Refs!IsRow(all[k]) /\ all[k] \in Refs!Range(files)
             /\ \A file \in Refs!Range(files) : Refs!IsRow(file) => \E k \in 1..Len(all) : all[k] = file
             /\ \A k, l \in 1..Len(all) : k < l => all[k].at >= all[l].at
             /\ \A k, l \in 1..Len(all) : all[k].name = all[l].name => k = l
             /\ \A k \in 1..Len(all) : \A file \in Refs!Range(files) : file.name = all[k].name => file = all[k]
<1> DEFINE all == Refs!Rows(files)
<1>1. /\ all \in Seq(HookFile)
      /\ \A k, l \in 1..Len(all) : k < l => all[k].at >= all[l].at
      /\ \A k \in 1..Len(all) : \E i \in 1..Len(files) : Refs!IsRow(files[i]) /\ all[k] = files[i]
      /\ \A i \in 1..Len(files) : Refs!IsRow(files[i]) => \E k \in 1..Len(all) : all[k] = files[i]
      /\ \A k, l \in 1..Len(all) : all[k].name = all[l].name => k = l
  BY RowsAre DEF AreRows, NewestFirst
<1> HIDE DEF all
<1>2. files \in Seq(HookFile) /\ \A i, j \in DOMAIN files : files[i].name = files[j].name => i = j
  BY DEF IsDirectory
<1>3. DOMAIN files = 1..Len(files)  BY <1>2
<1>4. Refs!Range(files) = {files[i] : i \in 1..Len(files)}  BY <1>3 DEF Refs!Range
<1>5. Len(all) \in Nat /\ DOMAIN all = 1..Len(all) /\ \A k \in 1..Len(all) : all[k] \in HookFile  BY <1>1
<1>6. \A k \in 1..Len(all) : Refs!IsRow(all[k]) /\ all[k] \in Refs!Range(files)  BY <1>1, <1>4
<1>7. \A file \in Refs!Range(files) : Refs!IsRow(file) => \E k \in 1..Len(all) : all[k] = file  BY <1>1, <1>4
<1>8. \A k \in 1..Len(all) : \A file \in Refs!Range(files) : file.name = all[k].name => file = all[k]
  <2> TAKE k \in 1..Len(all)
  <2> TAKE file \in Refs!Range(files)
  <2> HAVE file.name = all[k].name
  <2>1. PICK i \in 1..Len(files) : all[k] = files[i]  BY <1>1
  <2>2. PICK j \in 1..Len(files) : file = files[j]  BY <1>4
  <2> QED  BY <1>2, <1>3, <2>1, <2>2
<1> QED  BY <1>1, <1>5, <1>6, <1>7, <1>8 DEF all

\* A session that is listed is found again by its key and by its whole id, a
\* session that resumes it reads the transcript it names, and asking for all
\* states is asking for none, in any directory (resolve, listed, open, last).
LEMMA FoundAsListed ==
  ASSUME NEW files, IsDirectory(files), NEW history, NEW raw \in Seq(Nat), NEW disk
  PROVE  Refs!SessionsAreFound(files, history, raw, disk)
<1> DEFINE all == Refs!Rows(files)
           refs == Refs!Listed(files, history, Refs!None, {})
           label(i) == IF refs[i].label.some THEN refs[i].label.text ELSE ""
           apart == \A i, j \in DOMAIN refs : refs[i].key # refs[j].session
           fileOf(i) == CHOOSE f \in Refs!Range(files) : f.name = refs[i].key
           latest(i) == \A f \in Refs!Range(files) :
                     Refs!IsRow(f) /\ f.session = refs[i].session /\ f.transcript # "" /\ f.name # refs[i].key =>
                       f.at < fileOf(i).at
<1>1. /\ Len(all) \in Nat /\ DOMAIN all = 1..Len(all)
      /\ \A k \in 1..Len(all) : /\ all[k] \in HookFile /\ Refs!IsRow(all[k]) /\ all[k] \in Refs!Range(files)
      /\ \A file \in Refs!Range(files) : Refs!IsRow(file) => \E k \in 1..Len(all) : all[k] = file
      /\ \A k, l \in 1..Len(all) : k < l => all[k].at >= all[l].at
      /\ \A k, l \in 1..Len(all) : all[k].name = all[l].name => k = l
      /\ \A k \in 1..Len(all) : \A file \in Refs!Range(files) : file.name = all[k].name => file = all[k]
  BY RowsSaid
<1>2. PICK e : GoesBy(e, files, history, Refs!None, {})  BY ListedIs
<1>3. /\ DOMAIN refs = 1..Len(refs) /\ Len(refs) \in Nat
      /\ e \in [1..Len(refs) -> 1..Len(all)]
      /\ \A i \in 1..Len(refs) : Refs!IsListed(all[e[i]], history, Refs!None, {})
                                 /\ refs[i] = Refs!OfRow(all[e[i]], Refs!LabelOf(history, all[e[i]].session))
      /\ \A i, j \in 1..Len(refs) : i < j => e[i] < e[j]
      /\ \A p \in 1..Len(all) : Refs!IsListed(all[p], history, Refs!None, {}) => \E i \in 1..Len(refs) : e[i] = p
  BY <1>2 DEF GoesBy
<1> HIDE DEF all, refs
<1>1a. Len(all) \in Nat /\ DOMAIN all = 1..Len(all)  BY <1>1
<1>1b. \A k \in 1..Len(all) : all[k] \in HookFile /\ Refs!IsRow(all[k]) /\ all[k] \in Refs!Range(files)  BY <1>1
<1>1c. \A k \in 1..Len(all) : all[k].at \in Int  BY <1>1b, HookFileIs
<1>1d. \A k, l \in 1..Len(all) : k < l => all[k].at >= all[l].at  BY <1>1
<1>1e. \A k, l \in 1..Len(all) : all[k].name = all[l].name => k = l  BY <1>1
<1>1f. \A k \in 1..Len(all) : \A file \in Refs!Range(files) : file.name = all[k].name => file = all[k]  BY <1>1
<1>3a. DOMAIN refs = 1..Len(refs) /\ Len(refs) \in Nat /\ \A i \in 1..Len(refs) : e[i] \in 1..Len(all)  BY <1>3
<1>3b. \A i, j \in 1..Len(refs) : i < j => e[i] < e[j]  BY <1>3
<1>4. \A i \in 1..Len(refs) :
        /\ e[i] \in 1..Len(all) /\ refs[i].key = all[e[i]].name /\ refs[i].session = all[e[i]].session
        /\ refs[i].transcript = Refs!NonEmpty(all[e[i]].transcript)
        /\ refs[i].label = Refs!NonEmpty(Refs!LabelOf(history, all[e[i]].session))
        /\ all[e[i]].state # "subdone"
  BY <1>3 DEF Refs!OfRow, Refs!IsListed
\* The references have different keys.
<1>5. \A i, j \in 1..Len(refs) : refs[i].key = refs[j].key => i = j
  <2> TAKE i, j \in 1..Len(refs)
  <2> HAVE refs[i].key = refs[j].key
  <2>0. all[e[i]].name = all[e[j]].name  BY <1>4
  <2>1. e[i] = e[j] /\ e[i] \in Int  BY <1>1a, <1>1e, <1>3a, <2>0
  <2>2. ~(i < j) /\ ~(j < i)  BY <1>3b, <2>1
  <2> QED  BY <1>3a, <2>2
<1>6. \A i \in 1..Len(refs) : fileOf(i) = all[e[i]] /\ all[e[i]] \in Refs!Range(files)
  <2> TAKE i \in 1..Len(refs)
  <2>1. all[e[i]] \in Refs!Range(files) /\ all[e[i]].name = refs[i].key  BY <1>1b, <1>3a, <1>4
  <2>2. \A f \in Refs!Range(files) : f.name = refs[i].key => f = all[e[i]]  BY <1>1f, <1>3a, <2>1
  <2> QED  BY <2>1, <2>2
<1> HIDE DEF fileOf
<1> DEFINE whole(text) == {i \in DOMAIN refs : refs[i].key = text \/ (refs[i].session # <<>> /\ refs[i].session = text)}
           begun(text) == {i \in DOMAIN refs : refs[i].session # <<>> /\ Refs!IsPrefix(text, refs[i].session)}
           places(text) == IF whole(text) # {} THEN whole(text) ELSE begun(text)
<1>7. \A text : Refs!Known(refs, text) = IF places(text) = {} THEN <<>> ELSE <<refs[Refs!Min(places(text))]>>
  BY DEF Refs!Known, Refs!FirstOf
<1>8. \A text : places(text) # {} => Refs!Min(places(text)) \in places(text)
  <2> TAKE text
  <2> HAVE places(text) # {}
  <2>1. places(text) \subseteq Nat  BY <1>3
  <2> HIDE DEF places
  <2> QED  BY <2>1, MinIs
<1>9. ASSUME apart, NEW i \in 1..Len(refs) PROVE Refs!Known(refs, refs[i].key) = <<refs[i]>>
  <2>0. \A j \in DOMAIN refs : refs[j].session # refs[i].key  BY <1>3a, <1>9
  <2>1. whole(refs[i].key) = {i}  BY <1>3a, <1>5, <2>0
  <2>2. places(refs[i].key) = {i}  BY <2>1
  <2>3. Refs!Min(places(refs[i].key)) = i  BY <1>8, <2>2
  <2> QED  BY <1>7, <2>2, <2>3
<1>10. ASSUME apart, NEW i \in 1..Len(refs), refs[i].session # <<>>
       PROVE  Refs!Known(refs, refs[i].session)[1].session = refs[i].session
  <2> DEFINE text == refs[i].session
             m == Refs!Min(places(text))
  <2>1. i \in whole(text)  BY <1>3, <1>10
  <2>2. m \in whole(text)  BY <1>8, <2>1
  <2>3. refs[m].session = text  BY <1>3, <1>10, <2>2
  <2>4. places(text) # {}  BY <2>1
  <2> HIDE DEF places
  <2>5. Refs!Known(refs, text) = <<refs[m]>>  BY <1>7, <2>4
  <2>6. Refs!Known(refs, text)[1] = refs[m]  BY <2>5
  <2> QED  BY <2>3, <2>6
<1>11. Refs!Known(refs, raw) # <<>> =>
         Refs!Known(refs, raw)[1].key = raw \/ Refs!IsPrefix(raw, Refs!Known(refs, raw)[1].session)
  <2> DEFINE m == Refs!Min(places(raw))
  <2> HAVE Refs!Known(refs, raw) # <<>>
  <2>1. places(raw) # {} /\ Refs!Known(refs, raw) = <<refs[m]>> /\ Refs!Known(refs, raw)[1] = refs[m]
    <3> HIDE DEF places
    <3>1. places(raw) # {}  BY <1>7
    <3>2. Refs!Known(refs, raw) = <<refs[m]>>  BY <1>7, <3>1
    <3> QED  BY <3>1, <3>2
  <2>2. m \in places(raw)  BY <1>8, <2>1
  <2>3. Refs!IsPrefix(raw, raw)
    <3>1. Len(raw) \in Nat /\ SubSeq(raw, 1, Len(raw)) = raw  OBVIOUS
    <3> QED  BY <3>1 DEF Refs!IsPrefix
  <2>4. refs[m].key = raw \/ Refs!IsPrefix(raw, refs[m].session)  BY <2>2, <2>3
  <2> QED  BY <2>1, <2>4
<1>12. Refs!Known(refs, raw) = <<>> =>
         \A i \in DOMAIN refs : refs[i].key # raw /\ (refs[i].session = <<>> \/ ~Refs!IsPrefix(raw, refs[i].session))
  <2> HAVE Refs!Known(refs, raw) = <<>>
  <2>1. places(raw) = {}
    <3> HIDE DEF places
    <3>1. \A x : <<x>> # <<>>  OBVIOUS
    <3> QED  BY <1>7, <3>1
  <2>2. whole(raw) = {} /\ begun(raw) = {}  BY <2>1
  <2> QED  BY <2>2
\* A session that resumes it reads the transcript of the newest of its rows.
<1>13. ASSUME NEW i \in 1..Len(refs), refs[i].transcript.some, refs[i].session # <<>>, latest(i)
       PROVE  Refs!LastVerb([transcript |-> Refs!None, session |-> refs[i].session], files, disk)
                = Refs!LastVerb(refs[i], files, disk)
  <2> DEFINE row == all[e[i]]
             named == {k \in DOMAIN all : refs[i].session # <<>> /\ all[k].session = refs[i].session /\ all[k].transcript # ""}
             m == Refs!Min(named)
             read == Refs!TranscriptOf(files, refs[i].session)
  <2>1. row.transcript # "" /\ refs[i].transcript = Refs!Some(row.transcript)
    <3>1. refs[i].transcript = Refs!NonEmpty(row.transcript)  BY <1>4
    <3> HIDE DEF row
    <3>2. row.transcript # ""  BY <1>13, <3>1, NonEmptyIs
    <3> QED  BY <3>1, <3>2, NonEmptyIs
  <2>2. e[i] \in named /\ named \subseteq Nat /\ named \subseteq 1..Len(all)
    <3>1. all[e[i]].session = refs[i].session /\ e[i] \in DOMAIN all  BY <1>1a, <1>3a, <1>4
    <3>2. e[i] \in named  BY <1>13, <2>1, <3>1
    <3>3. named \subseteq DOMAIN all  OBVIOUS
    <3>4. DOMAIN all = 1..Len(all) /\ DOMAIN all \subseteq Nat  BY <1>1a
    <3> QED  BY <3>2, <3>3, <3>4
  <2>3. m \in named /\ m <= e[i]
    <3> HIDE DEF named
    <3> QED  BY <2>2, MinIs
  <2>4. read = Refs!Some(all[m].transcript)  BY <2>2 DEF Refs!TranscriptOf, all
  <2>5. m = e[i]
    <3> SUFFICES ASSUME m # e[i] PROVE FALSE  OBVIOUS
    <3>0. m # e[i]  OBVIOUS
    <3> HIDE DEF m, named
    <3>1. m \in 1..Len(all) /\ e[i] \in 1..Len(all) /\ m < e[i]  BY <1>1a, <1>3a, <2>2, <2>3, <3>0
    <3>2. all[m].at >= row.at /\ all[m].name # row.name  BY <1>1d, <1>1e, <3>1
    <3>3. all[m].session = refs[i].session /\ all[m].transcript # ""  BY <2>3 DEF named
    <3>4. all[m].at < row.at
      <4>1. fileOf(i) = row  BY <1>6
      <4>2. all[m] \in Refs!Range(files) /\ Refs!IsRow(all[m]) /\ all[m].name # refs[i].key
          BY <1>1b, <1>4, <3>1, <3>2
      <4> QED  BY <1>13, <3>3, <4>1, <4>2
    <3>6. all[m].at \in Int /\ row.at \in Int  BY <1>1c, <3>1
    <3> QED  BY <3>2, <3>4, <3>6
  <2>6. read = refs[i].transcript  BY <2>1, <2>4, <2>5
  <2> HIDE DEF read
  <2> DEFINE none == [transcript |-> Refs!None, session |-> refs[i].session]
             answer(file) ==
               IF ~file.some \/ file.text = "" \/ file.text \notin DOMAIN disk
               THEN [code |-> 0, answer |-> "null", of |-> ""]
               ELSE CASE disk[file.text] = "unreadable" -> [code |-> 1, answer |-> "io", of |-> file.text]
                      [] disk[file.text] = "silent" -> [code |-> 0, answer |-> "null", of |-> ""]
                      [] OTHER -> [code |-> 0, answer |-> "reply", of |-> file.text]
  <2>7. \A ref : Refs!LastVerb(ref, files, disk)
                   = answer(IF ref.transcript.some THEN ref.transcript ELSE Refs!TranscriptOf(files, ref.session))
    BY DEF Refs!LastVerb
  <2> HIDE DEF answer
  <2>8. Refs!LastVerb(refs[i], files, disk) = answer(refs[i].transcript)  BY <1>13, <2>7
  <2>9. ~none.transcript.some /\ none.session = refs[i].session  BY DEF Refs!None
  <2>10. Refs!LastVerb(none, files, disk) = answer(read)  BY <2>7, <2>9 DEF read
  <2> QED  BY <2>6, <2>8, <2>10
<1>14. Refs!ListVerb(files, history, Refs!None, Refs!States).refs = refs
  <2> DEFINE listed(states) == {k \in DOMAIN all : Refs!IsListed(all[k], history, Refs!None, states)}
  <2>1. ASSUME NEW k \in DOMAIN all
        PROVE  Refs!IsListed(all[k], history, Refs!None, Refs!States) <=> Refs!IsListed(all[k], history, Refs!None, {})
    <3>1. all[k].state \in Refs!States \cup {"subdone"}  BY <1>1 DEF Refs!IsRow
    <3>2. Refs!States # {}  BY DEF Refs!States
    <3> HIDE DEF Refs!States
    <3> QED  BY <3>1, <3>2 DEF Refs!IsListed
  <2>2. listed(Refs!States) = listed({})  BY <2>1
  <2>3. Refs!Listed(files, history, Refs!None, Refs!States) = Refs!Listed(files, history, Refs!None, {})
    BY <2>2 DEF Refs!Listed, all
  <2> QED  BY <2>3 DEF Refs!ListVerb, refs
\* The label it is listed under, and its state, list it.
<1>15. ASSUME NEW i \in 1..Len(refs)
       PROVE  refs[i] \in Refs!Range(Refs!Listed(files, history, Refs!Some(label(i)), {fileOf(i).state}))
  <2> DEFINE row == all[e[i]]
             said == Refs!LabelOf(history, row.session)
             asked == {fileOf(i).state}
             other == Refs!Listed(files, history, Refs!Some(label(i)), asked)
  <2>1. label(i) = said
    <3>1. refs[i].label = Refs!NonEmpty(said)  BY <1>4
    <3> HIDE DEF said
    <3> QED  BY <3>1, NonEmptyIs
  <2>2. Refs!IsListed(row, history, Refs!Some(label(i)), asked)
    <3>1. fileOf(i).state = row.state /\ row.state # "subdone"  BY <1>4, <1>6
    <3> QED  BY <2>1, <3>1 DEF Refs!IsListed, Refs!Some
  <2> HIDE DEF label, asked
  <2>3. PICK d : GoesBy(d, files, history, Refs!Some(label(i)), asked)  BY ListedIs
  <2>4. /\ DOMAIN other = 1..Len(other)
        /\ \A j \in 1..Len(other) : other[j] = Refs!OfRow(all[d[j]], Refs!LabelOf(history, all[d[j]].session))
        /\ \A p \in 1..Len(all) : Refs!IsListed(all[p], history, Refs!Some(label(i)), asked) =>
             \E j \in 1..Len(other) : d[j] = p
    BY <2>3 DEF GoesBy, all
  <2> HIDE DEF other
  <2>5. PICK j \in 1..Len(other) : d[j] = e[i]  BY <1>4, <2>2, <2>4
  <2>6. other[j] = Refs!OfRow(row, said)  BY <2>4, <2>5
  <2>7. refs[i] = other[j]  BY <1>3, <2>6
  <2>8. other[j] \in Refs!Range(other)  BY <2>4 DEF Refs!Range
  <2> QED  BY <2>7, <2>8 DEF other, asked
<1>16. ASSUME NEW i \in 1..Len(refs), NEW j \in 1..Len(refs), i < j PROVE fileOf(i).at >= fileOf(j).at
  <2>1. e[i] < e[j] /\ e[i] \in 1..Len(all) /\ e[j] \in 1..Len(all)  BY <1>3a, <1>3b, <1>16
  <2>2. all[e[i]].at >= all[e[j]].at  BY <1>1d, <2>1
  <2> QED  BY <1>6, <2>2
<1>17. \A i \in 1..Len(refs) : fileOf(i).state # "subdone"  BY <1>4, <1>6
<1>18. DOMAIN refs = 1..Len(refs)  BY <1>3
<1> QED
  BY <1>9, <1>10, <1>11, <1>12, <1>13, <1>14, <1>15, <1>16, <1>17, <1>18
  DEF Refs!SessionsAreFound, refs, fileOf

-----------------------------------------------------------------------------
(* A reference is printed as one that reads back the same *)

EntryOf == [name : STRING, value : JsonValue]

IsOptional(text) == text = Refs!None \/ text = Refs!Some(text.text)
IsSequence(s) == DOMAIN s = 1..Len(s) /\ Len(s) \in Nat /\ s = [i \in DOMAIN s |-> s[i]]

\* A reference that a program can be given (Reference).
IsReference(ref) ==
  /\ ref = [id |-> ref.id, claudeSessionId |-> ref.claudeSessionId, transcript |-> ref.transcript, cwd |-> ref.cwd,
            skipPermissions |-> ref.skipPermissions, texts |-> [key \in Refs!OptionalKeys |-> ref.texts[key]],
            configDir |-> [given |-> ref.configDir.given, dir |-> ref.configDir.dir],
            tools |-> [given |-> ref.tools.given, names |-> ref.tools.names],
            env |-> [given |-> ref.env.given, set |-> ref.env.set]]
  /\ IsOptional(ref.claudeSessionId) /\ IsOptional(ref.transcript) /\ IsOptional(ref.configDir.dir)
  /\ \A key \in Refs!OptionalKeys : IsOptional(ref.texts[key])
  /\ {ref.skipPermissions, ref.configDir.given, ref.tools.given, ref.env.given} \subseteq BOOLEAN
  /\ IsSequence(ref.tools.names) /\ IsSequence(ref.env.set)
  /\ ref.id # "nul" /\ ref.claudeSessionId.text # "nul" /\ ref.transcript.text # "nul" /\ ref.cwd # "nul"
  /\ \A key \in Refs!OptionalKeys : ref.texts[key].text # "nul"
  /\ ref.texts["bin"] # Refs!Some("")
  /\ ref.configDir.dir.text # "nul" /\ (~ref.configDir.given => ref.configDir.dir = Refs!None)
  /\ \A i \in DOMAIN ref.tools.names : ref.tools.names[i] # "nul"
  /\ \A i \in DOMAIN ref.env.set : /\ ref.env.set[i] = [name |-> ref.env.set[i].name, value |-> ref.env.set[i].value]
                                   /\ ref.env.set[i].name \notin {"", "=", "nul", "__proto__"}
                                   /\ ref.env.set[i].value # "nul"

\* The pairs that are kept have a name.
LEMMA KeptEnvIs ==
  ASSUME NEW env \in Seq(EntryOf)
  PROVE  LET kept == Refs!KeptEnv(env)
         IN  kept \in Seq(EntryOf) /\ \A i \in DOMAIN kept : kept[i].name # "__proto__"
<1> DEFINE places == {i \in DOMAIN env : env[i].name # "__proto__"}
           kept == Refs!Keep(env, places)
<1>1. places \in SUBSET (1..Len(env)) /\ Refs!KeptEnv(env) = kept  BY DEF Refs!KeptEnv
<1>2. \A p \in places : env[p].name # "__proto__"  OBVIOUS
<1> HIDE DEF places, kept
<1>3. Kept(EntryOf, env, places, Len(env), kept)  BY <1>1, KeepKeeps DEF kept
<1>4. PICK e \in [1..Len(kept) -> {p \in places : p <= Len(env)}] :
        kept \in Seq(EntryOf) /\ \A i \in 1..Len(kept) : kept[i] = env[e[i]]
  BY <1>3 DEF Kept
<1>5. DOMAIN kept = 1..Len(kept)  BY <1>4
<1>6. \A i \in DOMAIN kept : e[i] \in places  BY <1>4, <1>5
<1> QED  BY <1>1, <1>2, <1>4, <1>5, <1>6

\* Where no name is dropped, every pair is kept.
LEMMA AllEnvIsKept ==
  ASSUME NEW S, NEW env \in Seq(S), \A i \in DOMAIN env : env[i].name # "__proto__"
  PROVE  Refs!KeptEnv(env) = env
<1> DEFINE places == {i \in DOMAIN env : env[i].name # "__proto__"}
<1>1. \A n \in 1..Len(env) : n \in places  OBVIOUS
<1> HIDE DEF places
<1>2. Refs!Keep(env, places) = env  BY <1>1, KeepAll
<1> QED  BY <1>2 DEF Refs!KeptEnv, places

\* What is given is printed, and what is not is absent or null.
LEMMA PrintedText ==
  ASSUME NEW text, IsOptional(text)
  PROVE  /\ text.some \in BOOLEAN
         /\ ~text.some => text = Refs!None /\ text.text = ""
         /\ text.some => text = Refs!Some(text.text)
         /\ Refs!MaybeNull(Refs!OrNull(text)) = text
         /\ Refs!IsNullable(Refs!OrNull(text)) /\ Refs!OrNull(text).text = text.text
         /\ Refs!OrNull(text).type \in {"string", "null"} /\ Refs!OrNull(text) # Refs!Absent
         /\ LET value == IF text.some THEN Refs!Str(text.text) ELSE Refs!Absent
            IN  /\ Refs!Maybe(value) = text /\ value.text = text.text
                /\ value = Refs!Absent \/ (Refs!IsText(value) /\ value.type = "string")
                /\ value = Refs!Str("") => text = Refs!Some("")
<1>1. CASE text = Refs!None
  <2>1. text.some = FALSE /\ text.text = ""  BY <1>1 DEF Refs!None
  <2>2. Refs!OrNull(text) = Refs!Null  BY <2>1 DEF Refs!OrNull
  <2>3. /\ Refs!MaybeNull(Refs!Null) = Refs!None /\ Refs!IsNullable(Refs!Null)
        /\ Refs!Null.text = "" /\ Refs!Null.type = "null" /\ Refs!Null # Refs!Absent
    BY DEF Refs!MaybeNull, Refs!Null, Refs!IsNullable, Refs!Absent
  <2>4. Refs!Maybe(Refs!Absent) = Refs!None /\ Refs!Absent.text = "" /\ Refs!Absent # Refs!Str("")
    BY DEF Refs!Maybe, Refs!Absent, Refs!Str
  <2> DEFINE value == IF text.some THEN Refs!Str(text.text) ELSE Refs!Absent
  <2>5. value = Refs!Absent  BY <2>1
  <2> HIDE DEF value
  <2>6. /\ Refs!Maybe(value) = text /\ value.text = text.text
        /\ value = Refs!Absent \/ (Refs!IsText(value) /\ value.type = "string")
        /\ value = Refs!Str("") => text = Refs!Some("")
    BY <1>1, <2>1, <2>4, <2>5
  <2>7. text.some \in BOOLEAN /\ ~text.some  BY <2>1
  <2> QED  BY <1>1, <2>1, <2>2, <2>3, <2>6, <2>7 DEF value
<1>2. CASE text = Refs!Some(text.text)
  <2>1. text.some = TRUE /\ text = [some |-> TRUE, text |-> text.text]  BY <1>2 DEF Refs!Some
  <2> QED
    BY <2>1 DEF Refs!None, Refs!OrNull, Refs!Null, Refs!Absent, Refs!Str, Refs!Some, Refs!Maybe, Refs!MaybeNull,
                Refs!IsNullable, Refs!IsText
<1> QED  BY <1>1, <1>2 DEF IsOptional

\* to_value and read: such a reference is printed as one that is taken.
LEMMA PrintedIsRead ==
  ASSUME NEW ref, IsReference(ref)
  PROVE  Refs!Read(Refs!ToValue(ref)) = [kind |-> "ref", refs |-> <<ref>>]
<1> DEFINE v == Refs!ToValue(ref)
           text(key) == IF ref.texts[key].some THEN Refs!Str(ref.texts[key].text) ELSE Refs!Absent
           names == ref.tools.names
           set == ref.env.set
           items == [i \in DOMAIN names |-> Refs!Str(names[i])]
           pairs == [i \in DOMAIN set |-> [name |-> set[i].name, value |-> Refs!Str(set[i].value)]]
<1>1. /\ IsOptional(ref.claudeSessionId) /\ IsOptional(ref.transcript) /\ IsOptional(ref.configDir.dir)
      /\ \A key \in Refs!OptionalKeys : IsOptional(ref.texts[key])
      /\ ref.skipPermissions \in BOOLEAN /\ ref.configDir.given \in BOOLEAN /\ ref.tools.given \in BOOLEAN
      /\ ref.env.given \in BOOLEAN /\ IsSequence(names) /\ IsSequence(set)
  BY DEF IsReference
<1>1a. ref = [id |-> ref.id, claudeSessionId |-> ref.claudeSessionId, transcript |-> ref.transcript, cwd |-> ref.cwd,
              skipPermissions |-> ref.skipPermissions, texts |-> [key \in Refs!OptionalKeys |-> ref.texts[key]],
              configDir |-> [given |-> ref.configDir.given, dir |-> ref.configDir.dir],
              tools |-> [given |-> ref.tools.given, names |-> names], env |-> [given |-> ref.env.given, set |-> set]]
  BY DEF IsReference
<1>2. /\ ref.id # "nul" /\ ref.claudeSessionId.text # "nul" /\ ref.transcript.text # "nul" /\ ref.cwd # "nul"
      /\ \A key \in Refs!OptionalKeys : ref.texts[key].text # "nul"
      /\ ref.texts["bin"] # Refs!Some("")
      /\ ref.configDir.dir.text # "nul" /\ (~ref.configDir.given => ref.configDir.dir = Refs!None)
      /\ \A i \in DOMAIN names : names[i] # "nul"
      /\ \A i \in DOMAIN set : /\ set[i] = [name |-> set[i].name, value |-> set[i].value]
                              /\ set[i].name \notin {"", "=", "nul", "__proto__"} /\ set[i].value # "nul"
  BY DEF IsReference
\* What is printed.
<1>3. /\ v.object = TRUE /\ v.loneKey = FALSE /\ v.id = Refs!Str(ref.id)
      /\ v.claudeSessionId = Refs!OrNull(ref.claudeSessionId) /\ v.transcript = Refs!OrNull(ref.transcript)
      /\ v.spec.object = TRUE /\ v.spec.kind = Refs!Str("claude") /\ v.spec.cwd = Refs!Str(ref.cwd)
      /\ v.spec.skipPermissions = [type |-> "boolean", text |-> IF ref.skipPermissions THEN "true" ELSE "false"]
      /\ v.spec.configDir = Refs!ConfigDirValue(ref.configDir)
      /\ v.spec.disallowedTools = [type |-> IF ref.tools.given THEN "array" ELSE "absent", items |-> items]
      /\ v.spec.env = [type |-> IF ref.env.given THEN "object" ELSE "absent", items |-> pairs]
      /\ v.spec.bin = text("bin")
  BY DEF Refs!ToValue
<1>4. \A key \in Refs!OptionalKeys : v.spec[key] = text(key)  BY DEF Refs!ToValue, Refs!OptionalKeys
<1> HIDE DEF v
<1>5. \A key \in Refs!OptionalKeys :
        /\ Refs!Maybe(text(key)) = ref.texts[key] /\ text(key).text = ref.texts[key].text
        /\ text(key) = Refs!Absent \/ (Refs!IsText(text(key)) /\ text(key).type = "string")
        /\ text(key) = Refs!Str("") => ref.texts[key] = Refs!Some("")
  BY <1>1, PrintedText
<1> HIDE DEF text
<1>6. /\ Refs!MaybeNull(v.claudeSessionId) = ref.claudeSessionId /\ Refs!IsNullable(v.claudeSessionId)
      /\ v.claudeSessionId.text # "nul" /\ v.claudeSessionId.type # "units"
  <2>1. /\ Refs!MaybeNull(Refs!OrNull(ref.claudeSessionId)) = ref.claudeSessionId /\ Refs!IsNullable(Refs!OrNull(ref.claudeSessionId))
        /\ Refs!OrNull(ref.claudeSessionId).text = ref.claudeSessionId.text /\ Refs!OrNull(ref.claudeSessionId).type \in {"string", "null"}
    BY <1>1, PrintedText
  <2> QED  BY <1>2, <1>3, <2>1
<1>7. /\ Refs!MaybeNull(v.transcript) = ref.transcript /\ Refs!IsNullable(v.transcript)
      /\ v.transcript.text # "nul" /\ v.transcript.type # "units"
  <2>1. /\ Refs!MaybeNull(Refs!OrNull(ref.transcript)) = ref.transcript /\ Refs!IsNullable(Refs!OrNull(ref.transcript))
        /\ Refs!OrNull(ref.transcript).text = ref.transcript.text /\ Refs!OrNull(ref.transcript).type \in {"string", "null"}
    BY <1>1, PrintedText
  <2> QED  BY <1>2, <1>3, <2>1
<1>8. /\ (v.spec.configDir # Refs!Absent) = ref.configDir.given
      /\ Refs!MaybeNull(v.spec.configDir) = ref.configDir.dir
      /\ v.spec.configDir = Refs!Absent \/ Refs!IsNullable(v.spec.configDir)
      /\ v.spec.configDir.text # "nul" /\ v.spec.configDir.type # "units"
  <2> DEFINE c == ref.configDir
  <2>1. c.given \in BOOLEAN /\ IsOptional(c.dir)  BY <1>1
  <2>2. CASE c.given
    <3>1. v.spec.configDir = Refs!OrNull(c.dir)  BY <1>3, <2>2 DEF Refs!ConfigDirValue
    <3>2. /\ Refs!MaybeNull(v.spec.configDir) = c.dir /\ v.spec.configDir # Refs!Absent
          /\ Refs!IsNullable(v.spec.configDir) /\ v.spec.configDir.text # "nul" /\ v.spec.configDir.type # "units"
      <4>1. /\ Refs!MaybeNull(Refs!OrNull(c.dir)) = c.dir /\ Refs!IsNullable(Refs!OrNull(c.dir))
            /\ Refs!OrNull(c.dir).text = c.dir.text /\ Refs!OrNull(c.dir).type \in {"string", "null"}
            /\ Refs!OrNull(c.dir) # Refs!Absent
        BY <2>1, PrintedText
      <4> QED  BY <1>2, <3>1, <4>1
    <3> QED  BY <2>1, <2>2, <3>2
  <2>3. CASE ~c.given
    <3>1. v.spec.configDir = Refs!Absent  BY <1>3, <2>3 DEF Refs!ConfigDirValue
    <3>2. c.dir = Refs!None  BY <1>2, <2>3
    <3>3. Refs!MaybeNull(Refs!Absent) = Refs!None /\ Refs!Absent.text # "nul" /\ Refs!Absent.type # "units"
      BY DEF Refs!MaybeNull, Refs!Absent
    <3> QED  BY <2>1, <2>3, <3>1, <3>2, <3>3
  <2> QED  BY <2>1, <2>2, <2>3
\* Its tools and its environment.
<1>9. IsSequence(names) /\ IsSequence(set)  BY <1>1
<1>10. /\ DOMAIN items = DOMAIN names
       /\ \A i \in DOMAIN names : items[i].type = "string" /\ items[i].text = names[i] /\ Refs!IsText(items[i])
  BY DEF Refs!Str, Refs!IsText
<1>11. [i \in DOMAIN items |-> items[i].text] = names
  <2>1. names = [i \in DOMAIN names |-> names[i]]  BY <1>9 DEF IsSequence
  <2> HIDE DEF items, names
  <2> QED  BY <1>10, <2>1
<1>12. /\ pairs \in Seq(Refs!Range(pairs)) /\ DOMAIN pairs = DOMAIN set
       /\ \A i \in DOMAIN set : /\ pairs[i].name = set[i].name /\ pairs[i].value.type = "string"
                                /\ pairs[i].value.text = set[i].value /\ Refs!IsText(pairs[i].value)
  <2>1. DOMAIN set = 1..Len(set) /\ Len(set) \in Nat  BY <1>9 DEF IsSequence
  <2>2. DOMAIN pairs = DOMAIN set /\ pairs = [i \in DOMAIN set |-> pairs[i]]  OBVIOUS
  <2>3. /\ \A i \in DOMAIN set : /\ pairs[i].name = set[i].name /\ pairs[i].value.type = "string"
                                 /\ pairs[i].value.text = set[i].value /\ Refs!IsText(pairs[i].value)
    BY DEF Refs!Str, Refs!IsText
  <2> HIDE DEF pairs, set
  <2>4. \A i \in 1..Len(set) : pairs[i] \in Refs!Range(pairs)  BY <2>1, <2>2 DEF Refs!Range
  <2>5. pairs \in [1..Len(set) -> Refs!Range(pairs)]  BY <2>1, <2>2, <2>4
  <2> QED  BY <2>1, <2>2, <2>3, <2>5
<1>13. Refs!KeptEnv(v.spec.env.items) = pairs
  <2>1. \A i \in DOMAIN pairs : pairs[i].name # "__proto__"  BY <1>2, <1>12
  <2> HIDE DEF pairs
  <2>2. Refs!KeptEnv(pairs) = pairs  BY <1>12, <2>1, AllEnvIsKept
  <2> QED  BY <1>3, <2>2
<1>14. [i \in DOMAIN pairs |-> [name |-> pairs[i].name, value |-> pairs[i].value.text]] = set
  <2>1. set = [i \in DOMAIN set |-> set[i]]  BY <1>9 DEF IsSequence
  <2>2. \A i \in DOMAIN set : set[i] = [name |-> set[i].name, value |-> set[i].value]  BY <1>2
  <2> HIDE DEF pairs, set
  <2> QED  BY <1>12, <2>1, <2>2
<1> HIDE DEF items, pairs
\* It is valid.
<1>15. Refs!IsValid(v)
  <2>1. \A key \in Refs!OptionalKeys : v.spec[key] = Refs!Absent \/ Refs!IsText(v.spec[key])  BY <1>4, <1>5
  <2>2. Refs!IsText(v.id) /\ Refs!IsText(v.spec.cwd)  BY <1>3 DEF Refs!IsText, Refs!Str
  <2>3. v.spec.disallowedTools.type \in {"absent", "array"} /\ v.spec.disallowedTools.items = items
        /\ v.spec.env.type \in {"absent", "object"}
        /\ v.spec.skipPermissions.type = "boolean"
    BY <1>3
  <2>4. \A i \in DOMAIN items : Refs!IsText(items[i])  BY <1>10
  <2>5. \A i \in DOMAIN pairs : Refs!IsText(pairs[i].value)  BY <1>12
  <2> QED  BY <1>3, <1>6, <1>7, <1>8, <1>13, <2>1, <2>2, <2>3, <2>4, <2>5 DEF Refs!IsValid
\* It is usable.
<1>16. ~Refs!IsUnusable(v)
  <2>1. ASSUME NEW value \in Refs!KeptStrings(v) PROVE value.type # "units" /\ value.text # "nul"
    <3>1. /\ Refs!IsText(value)
          /\ \/ value \in {v.id, v.claudeSessionId, v.transcript, v.spec.cwd, v.spec.configDir}
             \/ \E key \in Refs!OptionalKeys : value = v.spec[key]
             \/ value \in Refs!Range(v.spec.disallowedTools.items)
             \/ \E i \in DOMAIN pairs : value = pairs[i].value
      BY <1>13, <2>1 DEF Refs!KeptStrings
    <3>2. CASE value \in {v.id, v.claudeSessionId, v.transcript, v.spec.cwd, v.spec.configDir}
      <4>1. v.id.type = "string" /\ v.id.text = ref.id /\ v.spec.cwd.type = "string" /\ v.spec.cwd.text = ref.cwd
        BY <1>3 DEF Refs!Str
      <4> QED  BY <1>2, <1>6, <1>7, <1>8, <3>2, <4>1
    <3>3. CASE \E key \in Refs!OptionalKeys : value = v.spec[key]
      <4>1. PICK key \in Refs!OptionalKeys : value = v.spec[key]  BY <3>3
      <4>2. value = text(key) /\ value.text = ref.texts[key].text  BY <1>4, <1>5, <4>1
      <4>3. value # Refs!Absent
        <5>1. ~Refs!IsText(Refs!Absent)  BY DEF Refs!IsText, Refs!Absent
        <5> QED  BY <3>1, <5>1
      <4> QED  BY <1>2, <1>5, <4>2, <4>3
    <3>4. CASE value \in Refs!Range(v.spec.disallowedTools.items)
      <4>1. PICK i \in DOMAIN items : value = items[i]  BY <1>3, <3>4 DEF Refs!Range
      <4> QED  BY <1>2, <1>10, <4>1
    <3>5. CASE \E i \in DOMAIN pairs : value = pairs[i].value  BY <1>2, <1>12, <3>5
    <3> QED  BY <3>1, <3>2, <3>3, <3>4, <3>5
  <2>2. \A i \in DOMAIN pairs : pairs[i].name \notin {"", "=", "nul"}  BY <1>2, <1>12
  <2>3. v.spec.bin # Refs!Str("")
    <3>1. "bin" \in Refs!OptionalKeys  BY DEF Refs!OptionalKeys
    <3> QED  BY <1>2, <1>3, <1>5, <3>1
  <2> QED  BY <1>3, <1>13, <2>1, <2>2, <2>3 DEF Refs!IsUnusable
\* It is read as the same.
<1>17. Refs!ReferenceOf(v) = ref
  <2>1. v.id.text = ref.id /\ v.spec.cwd.text = ref.cwd  BY <1>3 DEF Refs!Str
  <2>2. (v.spec.skipPermissions.text = "true") = ref.skipPermissions  BY <1>1, <1>3
  <2>3. [key \in Refs!OptionalKeys |-> Refs!Maybe(v.spec[key])] = [key \in Refs!OptionalKeys |-> ref.texts[key]]
    <3>1. \A key \in Refs!OptionalKeys : Refs!Maybe(v.spec[key]) = ref.texts[key]  BY <1>4, <1>5
    <3> QED  BY <3>1
  <2>4. [given |-> v.spec.disallowedTools.type = "array",
         names |-> [i \in DOMAIN v.spec.disallowedTools.items |-> v.spec.disallowedTools.items[i].text]]
          = [given |-> ref.tools.given, names |-> names]
    <3>1. v.spec.disallowedTools.items = items /\ (v.spec.disallowedTools.type = "array") = ref.tools.given
      BY <1>1, <1>3
    <3> HIDE DEF names
    <3> QED  BY <1>11, <3>1
  <2>5. [given |-> v.spec.env.type = "object",
         set |-> [i \in DOMAIN pairs |-> [name |-> pairs[i].name, value |-> pairs[i].value.text]]]
          = [given |-> ref.env.given, set |-> set]
    <3>1. (v.spec.env.type = "object") = ref.env.given  BY <1>1, <1>3
    <3> HIDE DEF set
    <3> QED  BY <1>14, <3>1
  <2> HIDE DEF names, set
  <2>6. Refs!ReferenceOf(v) =
          [id |-> ref.id, claudeSessionId |-> ref.claudeSessionId, transcript |-> ref.transcript, cwd |-> ref.cwd,
           skipPermissions |-> ref.skipPermissions, texts |-> [key \in Refs!OptionalKeys |-> ref.texts[key]],
           configDir |-> [given |-> ref.configDir.given, dir |-> ref.configDir.dir],
           tools |-> [given |-> ref.tools.given, names |-> names], env |-> [given |-> ref.env.given, set |-> set]]
    BY <1>6, <1>7, <1>8, <1>13, <2>1, <2>2, <2>3, <2>4, <2>5 DEF Refs!ReferenceOf
  <2> QED  BY <1>1a, <2>6 DEF names, set
<1> QED  BY <1>15, <1>16, <1>17 DEF Refs!Read, v

\* What has the places of a sequence is one.
LEMMA SequenceIs ==
  ASSUME NEW S, NEW s \in Seq(S), NEW t, t = [i \in DOMAIN s |-> t[i]]
  PROVE  IsSequence(t)
<1>1. DOMAIN s = 1..Len(s) /\ Len(s) \in Nat  OBVIOUS
<1>2. DOMAIN t = 1..Len(s)  BY <1>1
<1>3. \A i \in 1..Len(s) : t[i] \in Refs!Range(t)  BY <1>2 DEF Refs!Range
<1>4. t \in [1..Len(s) -> Refs!Range(t)]  BY <1>1, <1>3
<1>5. t \in Seq(Refs!Range(t))  BY <1>1, <1>4
<1> QED  BY <1>1, <1>5 DEF IsSequence

LEMMA MaybeIs ==
  \A value : IsOptional(Refs!Maybe(value)) /\ IsOptional(Refs!MaybeNull(value))
BY DEF IsOptional, Refs!Maybe, Refs!MaybeNull, Refs!None, Refs!Some

\* read: what it accepts can be given to a program.
LEMMA ReadIsReference ==
  ASSUME NEW doc \in Document, Refs!IsValid(doc), ~Refs!IsUnusable(doc)
  PROVE  IsReference(Refs!ReferenceOf(doc))
<1> DEFINE spec == doc.spec
           env == Refs!KeptEnv(spec.env.items)
           items == spec.disallowedTools.items
           ref == Refs!ReferenceOf(doc)
           set == [i \in DOMAIN env |-> [name |-> env[i].name, value |-> env[i].value.text]]
           names == [i \in DOMAIN items |-> items[i].text]
<1>1. /\ Refs!IsText(doc.id) /\ Refs!IsNullable(doc.claudeSessionId) /\ Refs!IsNullable(doc.transcript)
      /\ Refs!IsText(spec.cwd)
      /\ \A key \in Refs!OptionalKeys : spec[key] = Refs!Absent \/ Refs!IsText(spec[key])
      /\ spec.configDir = Refs!Absent \/ Refs!IsNullable(spec.configDir)
      /\ \A i \in DOMAIN items : Refs!IsText(items[i])
      /\ \A i \in DOMAIN env : Refs!IsText(env[i].value)
  BY DEF Refs!IsValid
<1>2. /\ \A value \in Refs!KeptStrings(doc) : value.type # "units" /\ value.text # "nul"
      /\ \A i \in DOMAIN env : env[i].name \notin {"", "=", "nul"}
      /\ spec.bin # Refs!Str("")
  BY DEF Refs!IsUnusable
<1>3. \A value : Refs!IsText(value) =>
        /\ value \in {doc.id, doc.claudeSessionId, doc.transcript, spec.cwd, spec.configDir} =>
             value \in Refs!KeptStrings(doc)
        /\ \A key \in Refs!OptionalKeys : value = spec[key] => value \in Refs!KeptStrings(doc)
        /\ \A i \in DOMAIN items : value = items[i] => value \in Refs!KeptStrings(doc)
        /\ \A i \in DOMAIN env : value = env[i].value => value \in Refs!KeptStrings(doc)
  BY DEF Refs!KeptStrings, Refs!Range
<1>4. /\ spec \in [object : BOOLEAN, kind : JsonValue, cwd : JsonValue, skipPermissions : JsonValue, label : JsonValue,
                   model : JsonValue, effort : JsonValue, systemPromptFile : JsonValue, mcpConfig : JsonValue,
                   bin : JsonValue, logFile : JsonValue, configDir : JsonValue,
                   disallowedTools : [type : STRING, items : Seq(JsonValue)], env : [type : STRING, items : Seq(EntryOf)]]
  BY DEF Document, EntryOf
<1>5. items \in Seq(JsonValue) /\ spec.env.items \in Seq(EntryOf) /\ spec.bin \in JsonValue  BY <1>4
<1>6. env \in Seq(EntryOf) /\ \A i \in DOMAIN env : env[i].name # "__proto__"  BY <1>5, KeptEnvIs
<1>7. /\ ref.id = doc.id.text /\ ref.claudeSessionId = Refs!MaybeNull(doc.claudeSessionId)
      /\ ref.transcript = Refs!MaybeNull(doc.transcript) /\ ref.cwd = spec.cwd.text
      /\ ref.skipPermissions = (spec.skipPermissions.text = "true")
      /\ ref.texts = [key \in Refs!OptionalKeys |-> Refs!Maybe(spec[key])]
      /\ ref.configDir = [given |-> spec.configDir # Refs!Absent, dir |-> Refs!MaybeNull(spec.configDir)]
      /\ ref.tools = [given |-> spec.disallowedTools.type = "array", names |-> names]
      /\ ref.env = [given |-> spec.env.type = "object", set |-> set]
      /\ ref = [id |-> ref.id, claudeSessionId |-> ref.claudeSessionId, transcript |-> ref.transcript, cwd |-> ref.cwd,
                skipPermissions |-> ref.skipPermissions, texts |-> ref.texts, configDir |-> ref.configDir,
                tools |-> ref.tools, env |-> ref.env]
  BY DEF Refs!ReferenceOf
<1>8. names = [i \in DOMAIN items |-> names[i]] /\ set = [i \in DOMAIN env |-> set[i]]  OBVIOUS
<1>8a. \A i \in DOMAIN env : set[i] = [name |-> env[i].name, value |-> env[i].value.text]  OBVIOUS
<1>8b. \A i \in DOMAIN items : names[i] = items[i].text  OBVIOUS
<1>8c. DOMAIN set = DOMAIN env /\ DOMAIN names = DOMAIN items  OBVIOUS
<1> HIDE DEF ref, set, names, env, items, spec
<1>9. /\ \A key \in Refs!OptionalKeys : ref.texts[key] = Refs!Maybe(spec[key])
      /\ ref.texts = [key \in Refs!OptionalKeys |-> ref.texts[key]]
      /\ ref.configDir.given = (spec.configDir # Refs!Absent) /\ ref.configDir.dir = Refs!MaybeNull(spec.configDir)
      /\ ref.configDir = [given |-> ref.configDir.given, dir |-> ref.configDir.dir]
      /\ ref.tools.given = (spec.disallowedTools.type = "array") /\ ref.tools.names = names
      /\ ref.tools = [given |-> ref.tools.given, names |-> ref.tools.names]
      /\ ref.env.given = (spec.env.type = "object") /\ ref.env.set = set
      /\ ref.env = [given |-> ref.env.given, set |-> ref.env.set]
  BY <1>7
<1>10. ref = [id |-> ref.id, claudeSessionId |-> ref.claudeSessionId, transcript |-> ref.transcript, cwd |-> ref.cwd,
            skipPermissions |-> ref.skipPermissions, texts |-> [key \in Refs!OptionalKeys |-> ref.texts[key]],
            configDir |-> [given |-> ref.configDir.given, dir |-> ref.configDir.dir],
            tools |-> [given |-> ref.tools.given, names |-> ref.tools.names],
            env |-> [given |-> ref.env.given, set |-> ref.env.set]]
  BY <1>7, <1>9
<1>11. /\ IsOptional(ref.claudeSessionId) /\ IsOptional(ref.transcript) /\ IsOptional(ref.configDir.dir)
       /\ \A key \in Refs!OptionalKeys : IsOptional(ref.texts[key])
  BY <1>7, <1>9, MaybeIs
<1>12. {ref.skipPermissions, ref.configDir.given, ref.tools.given, ref.env.given} \subseteq BOOLEAN
  <2>1. ref.skipPermissions \in BOOLEAN  BY <1>7
  <2> QED  BY <1>9, <2>1
<1>13. IsSequence(ref.tools.names) /\ IsSequence(ref.env.set)  BY <1>5, <1>6, <1>8, <1>9, SequenceIs
\* A text that is null or absent is not "nul"; any other is kept.
<1>14. \A value : Refs!IsText(value) \/ Refs!MaybeNull(value).text # "nul" \/ ~Refs!IsNullable(value)
  BY DEF Refs!IsText, Refs!IsNullable, Refs!MaybeNull, Refs!None
<1>15. \A value : value.text # "nul" => Refs!MaybeNull(value).text # "nul" /\ Refs!Maybe(value).text # "nul"
  <2> TAKE value
  <2> HAVE value.text # "nul"
  <2>1. Refs!None.text # "nul" /\ Refs!Some(value.text).text # "nul"  BY DEF Refs!None, Refs!Some
  <2> QED  BY <2>1 DEF Refs!MaybeNull, Refs!Maybe
<1>16. ref.id # "nul" /\ ref.cwd # "nul"  BY <1>1, <1>2, <1>3, <1>7
<1>17. ref.claudeSessionId.text # "nul"
  <2>1. Refs!IsText(doc.claudeSessionId) => doc.claudeSessionId.text # "nul"  BY <1>2, <1>3
  <2> QED  BY <1>1, <1>7, <1>14, <1>15, <2>1
<1>18. ref.transcript.text # "nul"
  <2>1. Refs!IsText(doc.transcript) => doc.transcript.text # "nul"  BY <1>2, <1>3
  <2> QED  BY <1>1, <1>7, <1>14, <1>15, <2>1
<1>19. Refs!Absent.text # "nul" /\ Refs!Maybe(Refs!Absent) = Refs!None /\ Refs!MaybeNull(Refs!Absent) = Refs!None
  BY DEF Refs!Absent, Refs!Maybe, Refs!MaybeNull
<1>20. ref.configDir.dir.text # "nul"
  <2>1. Refs!IsText(spec.configDir) => spec.configDir.text # "nul"  BY <1>2, <1>3
  <2> QED  BY <1>1, <1>9, <1>14, <1>15, <1>19, <2>1
<1>21. ~ref.configDir.given => ref.configDir.dir = Refs!None  BY <1>9, <1>19
<1>22. ASSUME NEW key \in Refs!OptionalKeys PROVE ref.texts[key].text # "nul"
  <2>1. Refs!IsText(spec[key]) => spec[key].text # "nul"  BY <1>2, <1>3
  <2>2. spec[key].text # "nul"  BY <1>1, <1>19, <2>1
  <2> QED  BY <1>9, <1>15, <2>2
<1>23. ref.texts["bin"] # Refs!Some("")
  <2> SUFFICES ASSUME ref.texts["bin"] = Refs!Some("") PROVE FALSE  OBVIOUS
  <2>0. "bin" \in Refs!OptionalKeys  BY DEF Refs!OptionalKeys
  <2>1. Refs!Maybe(spec.bin) = Refs!Some("")  BY <1>9, <2>0
  <2>2. spec.bin.type # "absent" /\ spec.bin.text = ""  BY <2>1 DEF Refs!Maybe, Refs!None, Refs!Some
  <2>3. Refs!IsText(spec.bin)
    <3>1. spec["bin"] = Refs!Absent \/ Refs!IsText(spec["bin"])  BY <1>1, <2>0
    <3>2. Refs!Absent.type = "absent"  BY DEF Refs!Absent
    <3>3. spec.bin # Refs!Absent  BY <2>2, <3>2
    <3> QED  BY <3>1, <3>3
  <2>4. spec.bin.type = "string"
    <3>1. spec["bin"] \in Refs!KeptStrings(doc)  BY <1>3, <2>0, <2>3
    <3>2. spec["bin"].type # "units"  BY <1>2, <3>1
    <3>3. spec.bin.type \in {"string", "units"}  BY <2>3 DEF Refs!IsText
    <3> QED  BY <3>2, <3>3
  <2>5. spec.bin = [type |-> spec.bin.type, text |-> spec.bin.text]  BY <1>5 DEF JsonValue
  <2> QED  BY <1>2, <2>2, <2>4, <2>5 DEF Refs!Str
<1>24. \A i \in DOMAIN names : names[i] # "nul"  BY <1>1, <1>2, <1>3, <1>8b, <1>8c
<1>25. \A i \in DOMAIN set : /\ set[i] = [name |-> set[i].name, value |-> set[i].value]
                             /\ set[i].name \notin {"", "=", "nul", "__proto__"} /\ set[i].value # "nul"
  <2> TAKE i \in DOMAIN set
  <2>1. i \in DOMAIN env /\ set[i] = [name |-> env[i].name, value |-> env[i].value.text]  BY <1>8a, <1>8c
  <2>2. set[i].name = env[i].name /\ set[i].value = env[i].value.text  BY <2>1
  <2>3. env[i].value.text # "nul"  BY <1>1, <1>2, <1>3, <2>1
  <2> QED  BY <1>2, <1>6, <2>1, <2>2, <2>3
<1> QED
  BY <1>9, <1>10, <1>11, <1>12, <1>13, <1>16, <1>17, <1>18, <1>20, <1>21, <1>22, <1>23, <1>24, <1>25
  DEF IsReference, ref

\* A reference that is taken is printed as one that reads back the same, and
\* nothing in it is what a program cannot be given (Reader, to_value).
LEMMA TakenReadsBack == ASSUME NEW doc \in Document PROVE Refs!ReferencesReadBack(doc)
<1> DEFINE ref == Refs!ReferenceOf(doc)
<1> SUFFICES ASSUME Refs!Read(doc).kind = "ref"
             PROVE  /\ Refs!Read(doc).refs[1] = ref /\ Refs!Read(Refs!ToValue(ref)) = Refs!Read(doc)
                    /\ \A i \in DOMAIN ref.env.set : ref.env.set[i].name \notin {"", "=", "nul", "__proto__"}
                    /\ \A i \in DOMAIN ref.env.set : ref.env.set[i].value # "nul"
                    /\ ref.cwd # "nul" /\ ref.texts["bin"] # Refs!Some("")
  BY DEF Refs!ReferencesReadBack
<1>1. Refs!IsValid(doc) /\ ~Refs!IsUnusable(doc)  BY DEF Refs!Read
<1>2. Refs!Read(doc) = [kind |-> "ref", refs |-> <<ref>>]  BY <1>1 DEF Refs!Read
<1>3. IsReference(ref)  BY <1>1, ReadIsReference
<1> HIDE DEF ref
<1>4. Refs!Read(Refs!ToValue(ref)) = [kind |-> "ref", refs |-> <<ref>>]  BY <1>3, PrintedIsRead
<1>5. Refs!Read(doc).refs[1] = ref  BY <1>2
<1> QED  BY <1>2, <1>3, <1>4, <1>5 DEF IsReference

\* The transcript a resumed session gets is one of its rows.
LEMMA TranscriptIs ==
  ASSUME NEW files, IsDirectory(files), \A k \in DOMAIN files : files[k].transcript # "nul", NEW session
  PROVE  LET read == Refs!TranscriptOf(files, session) IN IsOptional(read) /\ read.text # "nul"
<1> DEFINE all == Refs!Rows(files)
           named == {i \in DOMAIN all : session # <<>> /\ all[i].session = session /\ all[i].transcript # ""}
           m == Refs!Min(named)
<1>1. Refs!TranscriptOf(files, session) = IF named = {} THEN Refs!None ELSE Refs!Some(all[m].transcript)
  BY DEF Refs!TranscriptOf
<1>2. DOMAIN all = 1..Len(all) /\ Len(all) \in Nat /\ \A k \in 1..Len(all) : all[k] \in Refs!Range(files)  BY RowsSaid
<1>3. \A k \in 1..Len(all) : all[k].transcript # "nul"  BY <1>2 DEF Refs!Range
<1>4. named \subseteq DOMAIN all /\ DOMAIN all \subseteq Nat
  <2>1. named \subseteq DOMAIN all  OBVIOUS
  <2> HIDE DEF named, all
  <2> QED  BY <1>2, <2>1
<1> HIDE DEF named, all
<1>5. named # {} => m \in named  BY <1>4, MinIs
<1>6. named # {} => all[m].transcript # "nul"  BY <1>2, <1>3, <1>4, <1>5
<1>7. IsOptional(Refs!None) /\ Refs!None.text # "nul"  BY DEF IsOptional, Refs!None
<1>8. \A text : IsOptional(Refs!Some(text)) /\ Refs!Some(text).text = text  BY DEF IsOptional, Refs!Some
<1> QED  BY <1>1, <1>6, <1>7, <1>8

\* What `session open` prints, every other verb takes (open, read).
LEMMA OpenedIsRead ==
  ASSUME NEW args \in Arguments, NEW cwd, NEW files, NEW random \in BOOLEAN, IsDirectory(files),
         \A k \in DOMAIN files : files[k].transcript # "nul"
  PROVE  Refs!OpenedIsTaken(args, cwd, files, random)
<1> DEFINE opened == Refs!Open(args, cwd, files, random)
           texts == [key \in Refs!OptionalKeys |-> IF key \in {"bin", "logFile"} THEN Refs!None ELSE args.texts[key]]
           resumed == IF args.resume.some THEN Refs!Some(IF args.resume.session = <<>> THEN "" ELSE "session") ELSE Refs!None
           transcript == IF args.resume.some THEN Refs!TranscriptOf(files, args.resume.session) ELSE Refs!None
           ref == [id |-> "random", claudeSessionId |-> resumed, transcript |-> transcript,
                   cwd |-> "absolute", skipPermissions |-> args.skipPermissions, texts |-> texts,
                   configDir |-> Refs!AccountOf(args), tools |-> [given |-> FALSE, names |-> <<>>],
                   env |-> [given |-> FALSE, set |-> <<>>]]
<1>1. /\ opened.code = 0 => /\ opened.refs = <<ref>> /\ random
                           /\ ~(args.noConfigDir /\ args.configDir.some) /\ args.cwd \notin {"absent", ""}
      /\ opened.code # 0 => opened.refs = <<>>
  <2> DEFINE open == [code |-> 0, why |-> "", refs |-> <<ref>>]
             grammar == [code |-> 2, why |-> "grammar", refs |-> <<>>]
             nowhere == [code |-> 2, why |-> "no --cwd", refs |-> <<>>]
             accounts == [code |-> 2, why |-> "two accounts", refs |-> <<>>]
             gone == [code |-> 1, why |-> "cwd is gone", refs |-> <<>>]
             nameless == [code |-> 1, why |-> "no random bytes", refs |-> <<>>]
             two == args.configDir.some /\ args.noConfigDir
  <2>1. opened = IF args.refused THEN grammar
                 ELSE IF args.cwd \in {"absent", ""} THEN nowhere
                 ELSE IF two THEN accounts
                 ELSE IF args.cwd = "relative" /\ cwd = "gone" THEN gone
                 ELSE IF ~random THEN nameless ELSE open
    BY DEF Refs!Open
  <2>2. open.code = 0 /\ open.refs = <<ref>>  OBVIOUS
  <2>3. /\ grammar.code = 2 /\ nowhere.code = 2 /\ accounts.code = 2 /\ gone.code = 1 /\ nameless.code = 1
        /\ grammar.refs = <<>> /\ nowhere.refs = <<>> /\ accounts.refs = <<>> /\ gone.refs = <<>>
        /\ nameless.refs = <<>>
    OBVIOUS
  <2> HIDE DEF opened, open, ref, grammar, nowhere, accounts, gone, nameless
  <2>4. CASE args.refused \/ args.cwd \in {"absent", ""} \/ two
    <3>1. opened \in {grammar, nowhere, accounts}  BY <2>1, <2>4
    <3>2. opened.code = 2 /\ opened.refs = <<>>  BY <2>3, <3>1
    <3> QED  BY <3>2
  <2>5. CASE ~args.refused /\ args.cwd \notin {"absent", ""} /\ ~two
    <3>1. opened \in {gone, nameless} \/ (opened = open /\ random)  BY <2>1, <2>5
    <3>2. (opened.code = 1 /\ opened.refs = <<>>) \/ (opened.code = 0 /\ opened.refs = <<ref>> /\ random)  BY <2>2, <2>3, <3>1
    <3>3. opened.code = 1 => ~(opened.code = 0)  OBVIOUS
    <3>4. ~(args.noConfigDir /\ args.configDir.some) /\ args.cwd \notin {"absent", ""}  BY <2>5
    <3> HIDE DEF two
    <3> QED  BY <3>2, <3>3, <3>4
  <2> QED  BY <2>4, <2>5
<1>2. /\ args.skipPermissions \in BOOLEAN /\ args.noConfigDir \in BOOLEAN /\ args.configDir \in ArgumentText
      /\ args.texts \in [Refs!OptionalKeys \ {"bin", "logFile"} -> ArgumentText]
  BY DEF Arguments
<1>3. IsOptional(Refs!None) /\ Refs!None.text # "nul" /\ Refs!None # Refs!Some("")  BY DEF IsOptional, Refs!None, Refs!Some
<1>4. \A text : IsOptional(Refs!Some(text)) /\ Refs!Some(text).text = text  BY DEF IsOptional, Refs!Some
<1>5. \A text \in ArgumentText : IsOptional(text) /\ text.text # "nul" /\ text.some \in BOOLEAN /\ (~text.some => text = Refs!None)
  <2> TAKE text \in ArgumentText
  <2>1. CASE text = Refs!None  BY <1>3, <2>1 DEF Refs!None
  <2>2. CASE text \in [some : {TRUE}, text : STRING \ {"nul"}]
    <3>1. text.some = TRUE /\ text = [some |-> TRUE, text |-> text.text] /\ text.text # "nul"  BY <2>2
    <3> QED  BY <3>1 DEF IsOptional, Refs!Some
  <2> QED  BY <2>1, <2>2 DEF ArgumentText
<1>6. IsOptional(resumed) /\ resumed.text # "nul"  BY <1>3, <1>4
<1>7. IsOptional(transcript) /\ transcript.text # "nul"  BY <1>3, TranscriptIs
<1>8. \A key \in Refs!OptionalKeys : IsOptional(texts[key]) /\ texts[key].text # "nul"  BY <1>2, <1>3, <1>5
<1>9. texts["bin"] # Refs!Some("")
  <2>1. "bin" \in Refs!OptionalKeys  BY DEF Refs!OptionalKeys
  <2> QED  BY <1>3, <2>1
<1>10. texts = [key \in Refs!OptionalKeys |-> texts[key]]  OBVIOUS
<1> HIDE DEF resumed, transcript, texts
<1> DEFINE account == Refs!AccountOf(args)
<1>11. account = [given |-> args.noConfigDir \/ args.configDir.some, dir |-> args.configDir]  BY DEF Refs!AccountOf
<1>12. /\ account = [given |-> account.given, dir |-> account.dir] /\ account.given \in BOOLEAN
       /\ IsOptional(account.dir) /\ account.dir.text # "nul" /\ (~account.given => account.dir = Refs!None)
  <2>1. account.dir = args.configDir /\ account.given = (args.noConfigDir \/ args.configDir.some)  BY <1>11
  <2> QED  BY <1>2, <1>5, <1>11, <2>1
<1> HIDE DEF account
<1>13. IsSequence(<<>>) /\ DOMAIN <<>> = {}
  <2>1. <<>> \in Seq({}) /\ Len(<<>>) = 0  OBVIOUS
  <2>2. DOMAIN <<>> = {} /\ 1..0 = {}  OBVIOUS
  <2>3. <<>> = [i \in DOMAIN <<>> |-> <<>>[i]]  BY <2>2
  <2> QED  BY <2>1, <2>2, <2>3 DEF IsSequence
<1>14. ref = [id |-> "random", claudeSessionId |-> resumed, transcript |-> transcript,
                   cwd |-> "absolute", skipPermissions |-> args.skipPermissions, texts |-> texts,
                   configDir |-> account, tools |-> [given |-> FALSE, names |-> <<>>],
                   env |-> [given |-> FALSE, set |-> <<>>]]
  BY DEF account
<1> HIDE DEF ref
<1>15. /\ ref.id = "random" /\ ref.claudeSessionId = resumed /\ ref.transcript = transcript /\ ref.cwd = "absolute"
       /\ ref.skipPermissions = args.skipPermissions /\ ref.texts = texts /\ ref.configDir = account
       /\ ref.tools.given = FALSE /\ ref.tools.names = <<>> /\ ref.env.given = FALSE /\ ref.env.set = <<>>
       /\ ref.tools = [given |-> ref.tools.given, names |-> ref.tools.names]
       /\ ref.env = [given |-> ref.env.given, set |-> ref.env.set]
       /\ ref = [id |-> ref.id, claudeSessionId |-> ref.claudeSessionId, transcript |-> ref.transcript, cwd |-> ref.cwd,
                 skipPermissions |-> ref.skipPermissions, texts |-> ref.texts, configDir |-> ref.configDir,
                 tools |-> ref.tools, env |-> ref.env]
  BY <1>14
<1>16. ref = [id |-> ref.id, claudeSessionId |-> ref.claudeSessionId, transcript |-> ref.transcript, cwd |-> ref.cwd,
            skipPermissions |-> ref.skipPermissions, texts |-> [key \in Refs!OptionalKeys |-> ref.texts[key]],
            configDir |-> [given |-> ref.configDir.given, dir |-> ref.configDir.dir],
            tools |-> [given |-> ref.tools.given, names |-> ref.tools.names],
            env |-> [given |-> ref.env.given, set |-> ref.env.set]]
  BY <1>10, <1>12, <1>15
<1>17. "random" # "nul" /\ "absolute" # "nul"  OBVIOUS
<1>18. IsReference(ref)
  BY <1>2, <1>6, <1>7, <1>8, <1>9, <1>12, <1>13, <1>15, <1>16, <1>17 DEF IsReference
<1>19. Refs!Read(Refs!ToValue(ref)) = [kind |-> "ref", refs |-> <<ref>>]  BY <1>18, PrintedIsRead
<1> HIDE DEF opened
<1>20. opened.code = 0 => opened.refs = <<ref>> /\ opened.refs[1] = ref
  <2>1. <<ref>>[1] = ref  OBVIOUS
  <2> QED  BY <1>1, <2>1
<1> QED  BY <1>1, <1>19, <1>20 DEF Refs!OpenedIsTaken, opened

\* SessionsAreFound, of any document, directory and command line
\* (session/reference.rs, session/read.rs, notify/state.rs).
THEOREM SessionsAreFoundHolds == ASSUME IsSessionInput(given) PROVE SessionsAreFound
<1> DEFINE i == given.input
<1>1. CASE given.of = "reference"
  <2>1. i \in Document  BY <1>1 DEF IsSessionInput
  <2> HIDE DEF i
  <2>2. Refs!ReferencesReadBack(i)  BY <2>1, TakenReadsBack
  <2> QED  BY <1>1, <2>2 DEF SessionsAreFound, i
<1>2. CASE given.of = "hook"
  <2>1. IsDirectory(i.files) /\ i.raw \in Seq(Nat)  BY <1>2 DEF IsSessionInput
  <2> HIDE DEF i
  <2>2. Refs!SessionsAreFound(i.files, i.history, i.raw, Disk)  BY <2>1, FoundAsListed
  <2> QED  BY <1>2, <2>2 DEF SessionsAreFound, i
<1>3. CASE given.of = "open"
  <2>1. /\ IsDirectory(i.files) /\ i.args \in Arguments /\ i.random \in BOOLEAN
        /\ \A k \in DOMAIN i.files : i.files[k].transcript # "nul"
    BY <1>3 DEF IsSessionInput
  <2> HIDE DEF i
  <2>2. Refs!OpenedIsTaken(i.args, i.cwd, i.files, i.random)  BY <2>1, OpenedIsRead
  <2> QED  BY <1>3, <2>2 DEF SessionsAreFound, i
<1>4. CASE given.of \notin {"reference", "hook", "open"}  BY <1>4 DEF SessionsAreFound
<1> QED  BY <1>1, <1>2, <1>3, <1>4
=============================================================================
