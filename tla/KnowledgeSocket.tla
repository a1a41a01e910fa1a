-------------------------- MODULE KnowledgeSocket --------------------------
(***************************************************************************)
(* How the sessions of one environment end with one shared knowledge       *)
(* server: the socket file, the lock directory beside it and the pid file, *)
(* as the starters (`ensure` of socket.rs) and the daemons (`bind`,        *)
(* `release_socket` and `run` of daemon.rs) use them.                      *)
(*                                                                         *)
(* bind(2) and listen(2) are two steps, and so are every probe, mkdir,     *)
(* stat and unlink.  Time is the two facts the code asks of it: that the   *)
(* lock is older than LOCK_STALE, and that a wait has lasted its limit.    *)
(***************************************************************************)
EXTENDS Naturals

CONSTANTS
  Starter,       \* processes that call ensure
  Daemon,        \* processes that become a server, each used once
  Left,          \* the daemon that was killed before, whose files are still there
  Nobody,        \* no process: no file, no lock, no child
  BindAttempts,  \* BIND_ATTEMPTS
  Faults         \* what else happens: "stall", "killStarter", "manual"

Proc == Starter \cup Daemon

ASSUME SocketAssumption ==
  /\ Starter \cap Daemon = {}
  /\ Nobody \notin Proc
  /\ Left \in Daemon \cup {Nobody}
  /\ BindAttempts \in Nat \ {0}
  /\ Faults \subseteq {"stall", "killStarter", "manual"}

VARIABLES
  file,      \* the socket file: the daemon that bound it
  open,      \* the daemons whose listener is listening
  lock,      \* the lock directory: who made it
  lockOld,   \* it is older than LOCK_STALE
  pidFile,   \* the pid file: the daemon it names
  pc,        \* where each process is
  child,     \* the daemon a starter started
  tries      \* passes of the loop of bind

vars == <<file, open, lock, lockOld, pidFile, pc, child, tries>>

StarterPC == {"off", "first", "lock", "break", "probe", "remove", "spawn",
              "wait", "drop:ok", "drop:err", "ok", "err"}
DaemonPC == {"off", "bind", "listen", "first", "lock", "break", "probe",
             "remove", "rebind", "relisten", "drop:up", "drop:again",
             "drop:gone", "pid", "up", "closing", "pidRead", "pidRemove", "gone"}

TypeOK ==
  /\ file \in Daemon \cup {Nobody}
  /\ open \subseteq Daemon
  /\ lock \in Proc \cup {Nobody}
  /\ lockOld \in BOOLEAN
  /\ pidFile \in Daemon \cup {Nobody}
  /\ pc \in [Proc -> StarterPC \cup DaemonPC]
  /\ child \in [Starter -> Daemon \cup {Nobody}]
  /\ tries \in [Daemon -> Nat]
  /\ lockOld => lock # Nobody
  /\ \A s \in Starter : pc[s] = "wait" => child[s] # Nobody

Init ==
  /\ file = Left /\ open = {}
  /\ lock = Nobody /\ lockOld = FALSE
  /\ pidFile = Left
  /\ pc = [x \in Proc |-> IF x = Left THEN "gone" ELSE "off"]
  /\ child = [s \in Starter |-> Nobody]
  /\ tries = [d \in Daemon |-> 0]

Go(x, to) == pc' = [pc EXCEPT ![x] = to]

\* probe: what a connection to the path tells.
Absent == file = Nobody
Live == file \in open
Stale == ~Absent /\ ~Live

Disk == <<file, open, lock, lockOld, pidFile>>
Counts == <<child, tries>>

-----------------------------------------------------------------------------
(* The lock directory: take_lock and the Drop of Lock *)

\* mkdir makes the lock, or finds it there.
MakeLock(x) ==
  /\ pc[x] = "lock" /\ lock = Nobody
  /\ lock' = x /\ lockOld' = FALSE
  /\ Go(x, "probe")
  /\ UNCHANGED <<file, open, pidFile, Counts>>

\* Mutant: a waiter that never finds the lock too old.
FindStaleLock_Never(x) ==
  /\ pc[x] = "lock" /\ lockOld /\ FALSE
  /\ Go(x, "break")
  /\ UNCHANGED <<Disk, Counts>>

\* The lock is there and its mtime is too old ...
FindStaleLock(x) ==
  /\ pc[x] = "lock" /\ lock # Nobody /\ lockOld
  /\ Go(x, "break")
  /\ UNCHANGED <<Disk, Counts>>

\* ... so the directory is removed, whichever it is by now.
BreakLock(x) ==
  /\ pc[x] = "break"
  /\ lock' = Nobody /\ lockOld' = FALSE
  /\ Go(x, "lock")
  /\ UNCHANGED <<file, open, pidFile, Counts>>

\* settled: what a starter wanted was done by whoever held the lock.
LockSettled(s) ==
  /\ pc[s] = "lock" /\ lock # Nobody /\ ~lockOld /\ Live
  /\ Go(s, "ok")
  /\ UNCHANGED <<Disk, Counts>>

\* LOCK_WAIT is over.
LockWaitEnds(x) ==
  /\ "stall" \in Faults
  /\ pc[x] = "lock" /\ lock # Nobody /\ ~lockOld
  /\ Go(x, IF x \in Starter THEN "err" ELSE "gone")
  /\ UNCHANGED <<Disk, Counts>>

\* The Drop removes the directory at its path, and leads to what comes after.
DropLock(x) ==
  /\ pc[x] \in {"drop:ok", "drop:err", "drop:up", "drop:again", "drop:gone"}
  /\ lock' = Nobody /\ lockOld' = FALSE
  /\ Go(x, CASE pc[x] = "drop:ok" -> "ok"
             [] pc[x] = "drop:err" -> "err"
             [] pc[x] = "drop:up" -> "pid"
             [] pc[x] = "drop:again" -> "bind"
             [] pc[x] = "drop:gone" -> "gone")
  /\ UNCHANGED <<file, open, pidFile, Counts>>

\* The lock gets older than LOCK_STALE: its holder died, or takes that long.
LockAges ==
  /\ lock # Nobody /\ ~lockOld
  /\ pc[lock] \in {"ok", "err", "gone"} \/ "stall" \in Faults
  /\ lockOld' = TRUE
  /\ UNCHANGED <<file, open, lock, pidFile, pc, Counts>>

-----------------------------------------------------------------------------
(* A starter: ensure *)

Ensure(s) ==
  /\ pc[s] = "off"
  /\ Go(s, "first")
  /\ UNCHANGED <<Disk, Counts>>

FirstProbe(x) ==
  /\ pc[x] = "first"
  /\ Go(x, IF ~Live THEN "lock" ELSE IF x \in Starter THEN "ok" ELSE "gone")
  /\ UNCHANGED <<Disk, Counts>>

\* The probe under the lock, of a starter and of a daemon.
ProbeAgain(x) ==
  /\ pc[x] = "probe"
  /\ Go(x, CASE Live -> (IF x \in Starter THEN "drop:ok" ELSE "drop:gone")
             [] Stale -> "remove"
             [] Absent -> (IF x \in Starter THEN "spawn" ELSE "rebind"))
  /\ UNCHANGED <<Disk, Counts>>

\* remove_dead: the file at the path goes; one that is not there is an error.
RemoveDead(x) ==
  /\ pc[x] = "remove"
  /\ file' = Nobody
  /\ Go(x, IF Absent THEN (IF x \in Starter THEN "drop:err" ELSE "drop:gone")
           ELSE IF x \in Starter THEN "spawn" ELSE "rebind")
  /\ UNCHANGED <<open, lock, lockOld, pidFile, Counts>>

\* A probe, the mkdir or remove_dead fails: no answer but an error, a path that is
\* no socket, an unlink that is refused.
CallFails(x) ==
  LET under == pc[x] \in {"probe", "remove"} IN
  /\ under \/ pc[x] \in {"first", "lock"}
  /\ Go(x, IF x \in Starter THEN IF under THEN "drop:err" ELSE "err"
           ELSE IF under THEN "drop:gone" ELSE "gone")
  /\ UNCHANGED <<Disk, Counts>>

Spawn(s) ==
  /\ pc[s] = "spawn"
  /\ \E d \in Daemon :
       /\ pc[d] = "off"
       /\ pc' = [pc EXCEPT ![s] = "wait", ![d] = "bind"]
       /\ child' = [child EXCEPT ![s] = d]
  /\ UNCHANGED <<Disk, tries>>

SpawnFails(s) ==
  /\ pc[s] = "spawn"
  /\ Go(s, "drop:err")
  /\ UNCHANGED <<Disk, Counts>>

\* The starter waits under the lock until the socket answers, or its child is
\* gone and nothing answers, or START_WAIT is over.
SeesAnswer(s) ==
  /\ pc[s] = "wait" /\ Live
  /\ Go(s, "drop:ok")
  /\ UNCHANGED <<Disk, Counts>>

SeesChildEnded(s) ==
  /\ pc[s] = "wait" /\ ~Live /\ pc[child[s]] = "gone"
  /\ Go(s, "drop:err")
  /\ UNCHANGED <<Disk, Counts>>

StartWaitEnds(s) ==
  /\ "stall" \in Faults
  /\ pc[s] = "wait" /\ ~Live
  /\ Go(s, "drop:err")
  /\ UNCHANGED <<Disk, Counts>>

KillStarter(s) ==
  /\ "killStarter" \in Faults
  /\ pc[s] \notin {"off", "ok", "err"}
  /\ Go(s, "err")
  /\ UNCHANGED <<Disk, Counts>>

-----------------------------------------------------------------------------
(* A daemon: bind, run, release_socket *)

\* `serve --foreground` of a person, not of a starter.
StartByHand(d) ==
  /\ "manual" \in Faults
  /\ pc[d] = "off"
  /\ Go(d, "bind")
  /\ UNCHANGED <<Disk, Counts>>

\* bind(2) makes the file, or finds it there.  The first call of each pass is
\* outside the lock, the second under it.
BindFile(d) ==
  /\ pc[d] \in {"bind", "rebind"} /\ Absent
  /\ file' = d
  /\ Go(d, IF pc[d] = "bind" THEN "listen" ELSE "relisten")
  /\ tries' = [tries EXCEPT ![d] = IF pc[d] = "bind" THEN @ + 1 ELSE @]
  /\ UNCHANGED <<open, lock, lockOld, pidFile, child>>

BindInUse(d) ==
  /\ pc[d] = "bind" /\ ~Absent
  /\ IF tries[d] < BindAttempts
       THEN Go(d, "first") /\ tries' = [tries EXCEPT ![d] = @ + 1]
       ELSE Go(d, "gone") /\ UNCHANGED tries
  /\ UNCHANGED <<Disk, child>>

RebindInUse(d) ==
  /\ pc[d] = "rebind" /\ ~Absent
  /\ Go(d, "drop:again")
  /\ UNCHANGED <<Disk, Counts>>

Listen(d) ==
  /\ pc[d] \in {"listen", "relisten"}
  /\ open' = open \cup {d}
  /\ Go(d, IF pc[d] = "listen" THEN "pid" ELSE "drop:up")
  /\ UNCHANGED <<file, lock, lockOld, pidFile, Counts>>

WritePid(d) ==
  /\ pc[d] = "pid"
  /\ pidFile' = d
  /\ Go(d, "up")
  /\ UNCHANGED <<file, open, lock, lockOld, Counts>>

\* Mutant: the listener is closed first, and the file goes after it.
ReleaseSocket_Swapped(d) ==
  \/ /\ pc[d] \in {"pid", "up"}
     /\ open' = open \ {d}
     /\ Go(d, "closing")
     /\ UNCHANGED <<file, lock, lockOld, pidFile, Counts>>
  \/ /\ pc[d] = "closing"
     /\ file' = Nobody
     /\ Go(d, "pidRead")
     /\ UNCHANGED <<open, lock, lockOld, pidFile, Counts>>

\* release_socket, when the daemon leaves or its pid file cannot be written:
\* the file first, whichever is at the path, and the listener after it.
ReleaseSocket(d) ==
  \/ /\ pc[d] \in {"pid", "up"}
     /\ file' = Nobody
     /\ Go(d, "closing")
     /\ UNCHANGED <<open, lock, lockOld, pidFile, Counts>>
  \/ /\ pc[d] = "closing"
     /\ open' = open \ {d}
     /\ Go(d, "pidRead")
     /\ UNCHANGED <<file, lock, lockOld, pidFile, Counts>>

\* The pid file is removed while it names this daemon.
ReadPid(d) ==
  /\ pc[d] = "pidRead"
  /\ Go(d, IF pidFile = d THEN "pidRemove" ELSE "gone")
  /\ UNCHANGED <<Disk, Counts>>

RemovePid(d) ==
  /\ pc[d] = "pidRemove"
  /\ pidFile' = Nobody
  /\ Go(d, "gone")
  /\ UNCHANGED <<file, open, lock, lockOld, Counts>>

\* A daemon is killed: its files stay, its listener does not.
KillDaemon(d) ==
  /\ pc[d] \notin {"off", "gone"}
  /\ open' = open \ {d}
  /\ Go(d, "gone")
  /\ UNCHANGED <<file, lock, lockOld, pidFile, Counts>>

-----------------------------------------------------------------------------
TakeLockStep(x) ==
  MakeLock(x) \/ FindStaleLock(x) \/ BreakLock(x) \/ DropLock(x)

StarterStep(s) ==
  \/ FirstProbe(s) \/ TakeLockStep(s) \/ LockSettled(s) \/ ProbeAgain(s)
  \/ RemoveDead(s) \/ Spawn(s) \/ SpawnFails(s) \/ SeesAnswer(s) \/ SeesChildEnded(s)

BindStep(d) ==
  \/ BindFile(d) \/ BindInUse(d) \/ Listen(d) \/ FirstProbe(d) \/ TakeLockStep(d)
  \/ ProbeAgain(d) \/ RemoveDead(d) \/ RebindInUse(d)

RunStep(d) ==
  WritePid(d) \/ ReleaseSocket(d) \/ ReadPid(d) \/ RemovePid(d)

Next ==
  \/ \E s \in Starter :
       \/ Ensure(s) \/ StarterStep(s) \/ LockWaitEnds(s) \/ StartWaitEnds(s)
       \/ KillStarter(s)
  \/ \E d \in Daemon :
       \/ StartByHand(d) \/ BindStep(d) \/ RunStep(d) \/ LockWaitEnds(d)
       \/ KillDaemon(d)
  \/ \E x \in Proc : CallFails(x)
  \/ LockAges

Spec == Init /\ [][Next]_vars

\* The processes run on and time goes by; that a daemon leaves or is killed is
\* up to the world, and no fairness is asked of the limits of the waits.
Fairness ==
  /\ \A s \in Starter : WF_vars(StarterStep(s))
  /\ \A d \in Daemon : WF_vars(BindStep(d))
  /\ WF_vars(LockAges)

FairSpec == Spec /\ Fairness

-----------------------------------------------------------------------------
(* Properties *)

\* Every server that serves is the one its path leads to: nobody takes the
\* socket file of a server from it, so no two servers run and every starter
\* reaches the one there is (ensure, bind, release_socket).  It holds while
\* no lock outlives LOCK_STALE and every daemon is started by ensure.
ServerIsReachable == \A d \in Daemon : pc[d] \in {"pid", "up"} => file = d

-----------------------------------------------------------------------------
(* The inductive strengthening of ServerIsReachable, when Faults is empty *)

\* The lock is its maker's from the mkdir to the Drop.
UnderLock(s) == pc[s] \in {"probe", "remove", "spawn", "wait", "drop:ok", "drop:err"}

LockIsHeld ==
  /\ ~lockOld
  /\ lock # Nobody => lock \in Starter /\ UnderLock(lock)
  /\ \A s \in Starter : UnderLock(s) => lock = s

\* What a starter knows of the file once it has the lock.
StarterInv(s) ==
  /\ pc[s] \in StarterPC \ {"break"}
  /\ pc[s] = "spawn" => Absent
  /\ pc[s] = "remove" => Stale

\* A daemon that is not listening yet has the name to itself, because the
\* starter that waits for it holds the lock; its first bind succeeds.
DaemonInv(d) ==
  /\ pc[d] \in {"off", "bind", "listen", "pid", "up", "closing", "pidRead",
                "pidRemove", "gone"}
  /\ pc[d] \in {"bind", "listen"} => \E s \in Starter : pc[s] = "wait" /\ child[s] = d
  /\ pc[d] = "bind" => Absent
  /\ pc[d] = "listen" => file = d
  /\ d \in open <=> pc[d] \in {"pid", "up", "closing"}
  /\ pc[d] \in {"pid", "up"} => file = d

SocketInv ==
  /\ LockIsHeld
  /\ \A s \in Starter : StarterInv(s)
  /\ \A d \in Daemon : DaemonInv(d)

-----------------------------------------------------------------------------
\* The lock is not broken under a starter that waits for its daemon: a lock
\* that is too old "was left by a process that died inside the critical
\* section, which takes milliseconds" (LOCK_STALE).
WaitingStarterKeepsLock ==
  [][\A x \in Proc : pc[x] = "break" /\ pc'[x] = "lock" /\ lock \in Starter => pc[lock] # "wait"]_vars
=============================================================================
