------------------------------ MODULE MCLocks ------------------------------
(***************************************************************************)
(* The two services that run once, side by side in one run: a behaviour is *)
(* one of the starters of the notify service, or of the starters and       *)
(* daemons of a shared knowledge server, where waits end at their limits,  *)
(* processes are killed and people start daemons.  The part that is not of *)
(* the behaviour stays in a first state.                                   *)
(***************************************************************************)
EXTENDS NotifyLock

CONSTANTS Starter, Left, Nobody, BindAttempts, Faults  \* KnowledgeSocket

VARIABLES socket, open, lock, lockOld, pidFile, at, child, passes
VARIABLE part  \* the part the behaviour is of

\* A process is of the service that the behaviour is of.
Daemon == Pid \cup {Left}

S == INSTANCE KnowledgeSocket WITH file <- socket, pc <- at, tries <- passes

ofSocket == <<socket, open, lock, lockOld, pidFile, at, child, passes>>
bothVars == <<part, vars, ofSocket>>

BothInit ==
  /\ part \in {"notify", "socket"}
  /\ Init /\ S!Init
  /\ part = "socket" => file = NoFile

InNotify == part = "notify" /\ UNCHANGED <<part, ofSocket>>
InSocket == part = "socket" /\ UNCHANGED <<part, vars>>

BothNext == (InNotify /\ Next) \/ (InSocket /\ S!Next)

\* The fairness of each part, as its module states it.
BothSpec ==
  /\ BothInit /\ [][BothNext]_bothVars
  /\ \A s \in Starter : WF_bothVars(InSocket /\ S!StarterStep(s))
  /\ \A d \in Daemon : WF_bothVars(
       \/ InSocket /\ S!BindStep(d)
       \/ InNotify /\ d \in Pid /\ (TakeLockStep(d) \/ ReleaseStep(d)))
  /\ WF_bothVars(InSocket /\ S!LockAges)

-----------------------------------------------------------------------------
\* A start ends, of either part.  A process that looks for the lock of the
\* notify service ends with the lock, with the word that another holds it, or as
\* a failed start (take_lock); a daemon that looks for the socket name gets it
\* or gives up, though its starter may hold the lock it waits for while it waits
\* for the daemon (bind).
Starts(d) == IF part = "socket" THEN at[d] = "bind" ELSE d \in Pid /\ pc[d] = "sweep"
Settled(d) == IF part = "socket" THEN at[d] \in {"pid", "gone"} ELSE d \in Pid => pc[d] \in {"running", "absent"}
StartsEnd == \A d \in Daemon : Starts(d) ~> Settled(d)
=============================================================================
