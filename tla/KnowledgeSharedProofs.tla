----------------------- MODULE KnowledgeSharedProofs -----------------------
(***************************************************************************)
(* The socket name of the shared knowledge server has one owner, for any   *)
(* number of starters and daemons, daemons that are killed included; its   *)
(* accept loop drops nobody but in the gap that join retries for, for any  *)
(* number of clients; and a join hands over the whole input, for any input *)
(* and any REPLAY_CAP.                                                     *)
(***************************************************************************)
EXTENDS MCKnowledgeShared, SequenceTheorems, TLAPS
-----------------------------------------------------------------------------
(* The socket name has one owner *)

LEMMA SocketTypeInit == Init => TypeOK
<1> SUFFICES ASSUME Init PROVE TypeOK
  OBVIOUS
<1>1. {"off", "gone"} \subseteq StarterPC \cup DaemonPC
  BY DEF StarterPC, DaemonPC
<1>2. pc \in [Proc -> StarterPC \cup DaemonPC]
  BY <1>1 DEF Init
<1>3. \A s \in Starter : pc[s] = "off"
  BY SocketAssumption DEF Init, Proc
<1> QED
  BY <1>2, <1>3, SocketAssumption DEF Init, TypeOK, Proc

LEMMA SocketTypeStep == TypeOK /\ [Next]_vars => TypeOK'
<1> SUFFICES ASSUME TypeOK, [Next]_vars PROVE TypeOK'
  OBVIOUS
<1> USE SocketAssumption DEF TypeOK, Go, Proc, StarterPC, DaemonPC, Disk, Counts
<1>1. ASSUME NEW x \in Proc, MakeLock(x) \/ FindStaleLock(x) PROVE TypeOK'
  BY <1>1 DEF MakeLock, FindStaleLock
<1>2. ASSUME NEW x \in Proc, BreakLock(x) PROVE TypeOK'
  BY <1>2 DEF BreakLock
<1>3. ASSUME NEW x \in Proc, DropLock(x) PROVE TypeOK'
  BY <1>3 DEF DropLock
<1>4. ASSUME NEW x \in Proc, LockWaitEnds(x) PROVE TypeOK'
  BY <1>4 DEF LockWaitEnds
<1>5. ASSUME NEW x \in Proc, FirstProbe(x) PROVE TypeOK'
  BY <1>5 DEF FirstProbe
<1>6. ASSUME NEW x \in Proc, ProbeAgain(x) PROVE TypeOK'
  BY <1>6 DEF ProbeAgain, Absent, Live, Stale
<1>7. ASSUME NEW x \in Proc, RemoveDead(x) PROVE TypeOK'
  BY <1>7 DEF RemoveDead
<1>8. ASSUME NEW s \in Starter, Ensure(s) \/ LockSettled(s) \/ KillStarter(s) PROVE TypeOK'
  BY <1>8 DEF Ensure, LockSettled, KillStarter
<1>9. ASSUME NEW s \in Starter, Spawn(s) PROVE TypeOK'
  BY <1>9 DEF Spawn
<1>10. ASSUME NEW s \in Starter, SpawnFails(s) \/ SeesAnswer(s) \/ SeesChildEnded(s) \/ StartWaitEnds(s)
       PROVE TypeOK'
  BY <1>10 DEF SpawnFails, SeesAnswer, SeesChildEnded, StartWaitEnds
<1>11. ASSUME NEW d \in Daemon, StartByHand(d) \/ Listen(d) \/ WritePid(d) PROVE TypeOK'
  BY <1>11 DEF StartByHand, Listen, WritePid
<1>12. ASSUME NEW d \in Daemon, BindFile(d) \/ BindInUse(d) PROVE TypeOK'
  BY <1>12 DEF BindFile, BindInUse
<1>13. ASSUME NEW d \in Daemon, RebindInUse(d) \/ ReleaseSocket(d) PROVE TypeOK'
  BY <1>13 DEF RebindInUse, ReleaseSocket
<1>14. ASSUME NEW d \in Daemon, ReadPid(d) \/ RemovePid(d) \/ KillDaemon(d) PROVE TypeOK'
  BY <1>14 DEF ReadPid, RemovePid, KillDaemon
<1>15. CASE LockAges
  BY <1>15 DEF LockAges
<1>16. CASE UNCHANGED vars
  BY <1>16 DEF vars
<1>17. ASSUME NEW x \in Proc, CallFails(x) PROVE TypeOK'
  BY <1>17 DEF CallFails
<1> QED
  BY <1>1, <1>2, <1>3, <1>4, <1>5, <1>6, <1>7, <1>8, <1>9, <1>10, <1>11, <1>12,
     <1>13, <1>14, <1>15, <1>16, <1>17
     DEF Next, StarterStep, BindStep, RunStep, TakeLockStep

\* Every variable keeps its type: a lock that is too old is there, and a
\* starter that waits knows the process it waits for.
THEOREM SocketTypeCorrect == Spec => []TypeOK
  BY SocketTypeInit, SocketTypeStep, PTL DEF Spec

-----------------------------------------------------------------------------
LEMMA SocketInvInit == Init => SocketInv
  BY SocketAssumption DEF Init, SocketInv, LockIsHeld, UnderLock, StarterInv,
     DaemonInv, StarterPC, Absent, Stale, Live, Proc

\* A daemon that is not listening yet is the child of the starter that holds
\* the lock.
LEMMA ChildOfHolder ==
  ASSUME TypeOK, SocketInv, NEW d \in Daemon, pc[d] \in {"bind", "listen"}
  PROVE  lock \in Starter /\ pc[lock] = "wait" /\ child[lock] = d
BY DEF SocketInv, DaemonInv, LockIsHeld, UnderLock

\* One step per action; a starter's steps touch the lock and one starter, a
\* daemon's steps the file, the listeners and one daemon.
LEMMA SocketInvStep ==
  ASSUME Faults = {}, TypeOK, SocketInv, [Next]_vars
  PROVE  SocketInv'
<1> USE SocketAssumption DEF TypeOK, Go, Proc, StarterPC, Disk, Counts, SocketInv,
        LockIsHeld, UnderLock, StarterInv, DaemonInv, Absent, Live, Stale
<1>1. ASSUME NEW x \in Proc, MakeLock(x) \/ FindStaleLock(x) PROVE SocketInv'
  BY <1>1 DEF MakeLock, FindStaleLock
<1>2. ASSUME NEW x \in Proc, BreakLock(x) PROVE SocketInv'
  BY <1>2 DEF BreakLock
<1>3. ASSUME NEW x \in Proc, DropLock(x) PROVE SocketInv'
  BY <1>3 DEF DropLock
<1>4. ASSUME NEW x \in Proc, LockWaitEnds(x) PROVE SocketInv'
  BY <1>4 DEF LockWaitEnds
<1>5. ASSUME NEW x \in Proc, FirstProbe(x) PROVE SocketInv'
  BY <1>5 DEF FirstProbe
<1>6. ASSUME NEW x \in Proc, ProbeAgain(x) PROVE SocketInv'
  BY <1>6 DEF ProbeAgain
<1>7. ASSUME NEW x \in Proc, RemoveDead(x) PROVE SocketInv'
  BY <1>7, ChildOfHolder DEF RemoveDead
<1>8. ASSUME NEW s \in Starter, Ensure(s) \/ LockSettled(s) \/ KillStarter(s) PROVE SocketInv'
  BY <1>8 DEF Ensure, LockSettled, KillStarter
<1>9. ASSUME NEW s \in Starter, Spawn(s) PROVE SocketInv'
  BY <1>9 DEF Spawn
<1>10. ASSUME NEW s \in Starter, SpawnFails(s) \/ SeesAnswer(s) \/ SeesChildEnded(s) \/ StartWaitEnds(s)
       PROVE SocketInv'
  BY <1>10, ChildOfHolder DEF SpawnFails, SeesAnswer, SeesChildEnded, StartWaitEnds
<1>11. ASSUME NEW d \in Daemon, StartByHand(d) PROVE SocketInv'
  BY <1>11 DEF StartByHand
<1>12. ASSUME NEW d \in Daemon, BindFile(d) \/ BindInUse(d) \/ RebindInUse(d) PROVE SocketInv'
  BY <1>12, ChildOfHolder DEF BindFile, BindInUse, RebindInUse
<1>13. ASSUME NEW d \in Daemon, Listen(d) PROVE SocketInv'
  BY <1>13, ChildOfHolder DEF Listen
<1>14. ASSUME NEW d \in Daemon, WritePid(d) PROVE SocketInv'
  BY <1>14 DEF WritePid
<1>15. ASSUME NEW d \in Daemon, ReleaseSocket(d) PROVE SocketInv'
  BY <1>15, ChildOfHolder DEF ReleaseSocket
<1>16. ASSUME NEW d \in Daemon, ReadPid(d) \/ RemovePid(d) PROVE SocketInv'
  BY <1>16 DEF ReadPid, RemovePid
<1>17. ASSUME NEW d \in Daemon, KillDaemon(d) PROVE SocketInv'
  BY <1>17 DEF KillDaemon
<1>18. CASE LockAges
  BY <1>18 DEF LockAges
<1>19. CASE UNCHANGED vars
  BY <1>19 DEF vars
<1>20. ASSUME NEW x \in Proc, CallFails(x) PROVE SocketInv'
  BY <1>20, ChildOfHolder DEF CallFails
<1> QED
  BY <1>1, <1>2, <1>3, <1>4, <1>5, <1>6, <1>7, <1>8, <1>9, <1>10, <1>11, <1>12,
     <1>13, <1>14, <1>15, <1>16, <1>17, <1>18, <1>19, <1>20
     DEF Next, StarterStep, BindStep, RunStep, TakeLockStep

\* As long as no lock outlives LOCK_STALE under a live holder, no wait ends at
\* its limit, no starter is killed and nobody starts a daemon by hand, a server
\* that serves is the one at the path, though daemons are killed at any point
\* between bind(2), listen(2), the unlink and the close.
THEOREM ServerIsReachableHolds == ASSUME Faults = {} PROVE Spec => []ServerIsReachable
<1>1. SocketInv => ServerIsReachable
  BY DEF SocketInv, DaemonInv, ServerIsReachable
<1>2. TypeOK /\ SocketInv /\ [Next]_vars => SocketInv'
  BY SocketInvStep
<1> QED
  BY SocketInvInit, SocketTypeCorrect, <1>1, <1>2, PTL DEF Spec

-----------------------------------------------------------------------------
(* The accept loop: the strengthening *)

\* A client that has not connected is nowhere in the server.
Unconnected == \A c \in Client : client[c] = "off" => c \notin backlog \cup connections

\* A server that was not stopped decides to leave with nobody connected, and
\* what is in its backlog then came in the gap or was refused.
LeavesAlone ==
  ~stopped =>
    /\ loop \in {"decide", "unlink", "close"} => backlog \subseteq gap \cup refused
    /\ loop \in {"unlink", "close", "shut", "wait", "gone"} => connections = {}

AcceptInv ==
  D!TypeOK /\ D!CountIsOfThreads /\ Unconnected /\ LeavesAlone /\ D!LostOnlyInTheGap

-----------------------------------------------------------------------------
(* The join: the strengthening *)

\* What the input gave and forward has recorded.
Recorded == IF fwd = "read" THEN taken - 1 ELSE taken

\* While nothing was given up, what is kept is all that was read.
KeepsAll ==
  /\ kept = "All" => bytes = J!Prefix(Recorded)
  /\ kept # "All" => bytes = <<>>
  /\ kept = "Replied" <=> answered # {}
  /\ answered \subseteq {Len(link)}

\* Where forward is in the input, and what the connection has of it.
ForwardKeepsUp ==
  /\ \A i \in 1..Len(link) : \E n \in 0..Chunks : link[i] = J!Prefix(n)
  /\ fwd # "off" => link # <<>>
  /\ fwd = "replay" => link[Len(link)] = <<>> /\ replay = J!Prefix(taken)
  /\ fwd = "poll" => link[Len(link)] = J!Prefix(taken)
  /\ fwd \in {"read", "write"} =>
       taken > 0 /\ chunk = taken /\ link[Len(link)] = J!Prefix(taken - 1)

\* The loop of relay: a connection is asked for with all of the session kept.
RelayKnows ==
  /\ main \in {"connect", "here", "ok", "error"} => fwd = "off"
  /\ main = "connect" => kept = "All"
  /\ Len(link) = (IF retried THEN 1 ELSE 0) + (IF main \in {"connect", "here"} THEN 0 ELSE 1)
  /\ main = "gone" => answered # {}

JoinInv ==
  /\ J!TypeOK /\ KeepsAll /\ ForwardKeepsUp /\ RelayKnows
  /\ J!HereGetsAll /\ J!UnansweredIsRetried

-----------------------------------------------------------------------------
(* The accept loop *)

LEMMA AcceptInit == D!Init => AcceptInv
  BY SharedAssumption DEF D!Init, AcceptInv, D!TypeOK, D!CountIsOfThreads, Unconnected,
     LeavesAlone,
     D!LostOnlyInTheGap, D!DaemonAssumption

\* Who finds his connection closed was waiting or served; the others see nothing.
LEMMA WhoIsClosed ==
  ASSUME D!TypeOK, NEW S, D!Closed(S)
  PROVE  /\ client' \in [Client -> {"off", "waiting", "replied", "left", "lost", "cut"}]
         /\ \A c \in Client : (client'[c] = "off") <=> (client[c] = "off")
         /\ \A c \in Client : client'[c] = "lost" => client[c] = "lost" \/ c \in S
  BY DEF D!TypeOK, D!Closed

LEMMA AcceptTypeStep == AcceptInv /\ [D!Next]_ofAccept => D!TypeOK'
<1> SUFFICES ASSUME AcceptInv, [D!Next]_ofAccept PROVE D!TypeOK'
  OBVIOUS
<1> USE DEF AcceptInv, D!TypeOK, D!Set, D!Thread
<1>1. ASSUME NEW c \in Client, D!Connect(c) PROVE D!TypeOK'
  BY <1>1 DEF D!Connect, Unconnected
<1>2. ASSUME NEW c \in Client, D!ClientLeaves(c) \/ D!Reply(c) \/ D!ServeEnds(c) PROVE D!TypeOK'
  BY <1>2 DEF D!ClientLeaves, D!Reply, D!ServeEnds
<1>3. ASSUME NEW c \in Client, D!ServeFails(c) PROVE D!TypeOK'
  BY <1>3, WhoIsClosed DEF D!ServeFails
<1>4. ASSUME NEW c \in Client, D!Release(c) \/ D!Admit(c) PROVE D!TypeOK'
  BY <1>4 DEF D!Release, D!Admit
<1>5. ASSUME NEW c \in Client, D!SetUpFails(c) PROVE D!TypeOK'
  BY <1>5, WhoIsClosed DEF D!SetUpFails
<1>6. CASE D!Drained \/ D!AcceptFails \/ D!Decide \/ D!Poll \/ D!PollFails
  BY <1>6 DEF D!Drained, D!AcceptFails, D!Decide, D!Poll, D!PollFails
<1>7. CASE D!IdleElapses \/ D!StopComes \/ D!UnlinkSocket \/ D!WaitEmpty
  BY <1>7 DEF D!IdleElapses, D!StopComes, D!UnlinkSocket, D!WaitEmpty
<1>8. CASE D!CloseListener \/ D!ShutConnections
  BY <1>8, WhoIsClosed DEF D!CloseListener, D!ShutConnections
<1>9. CASE UNCHANGED ofAccept
  BY <1>9 DEF ofAccept
<1> QED
  BY <1>1, <1>2, <1>3, <1>4, <1>5, <1>6, <1>7, <1>8, <1>9
     DEF D!Next, D!LoopStep, D!ThreadStep

LEMMA CountStep == AcceptInv /\ [D!Next]_ofAccept => D!CountIsOfThreads' /\ Unconnected'
<1> SUFFICES ASSUME AcceptInv, [D!Next]_ofAccept PROVE D!CountIsOfThreads' /\ Unconnected'
  OBVIOUS
<1> USE DEF AcceptInv, D!TypeOK, D!Set, D!Thread, D!CountIsOfThreads, Unconnected
<1>1. ASSUME NEW c \in Client, D!Connect(c) PROVE D!CountIsOfThreads' /\ Unconnected'
  BY <1>1 DEF D!Connect
<1>2. ASSUME NEW c \in Client, D!ClientLeaves(c) \/ D!Reply(c) \/ D!ServeEnds(c)
      PROVE  D!CountIsOfThreads' /\ Unconnected'
  BY <1>2 DEF D!ClientLeaves, D!Reply, D!ServeEnds
<1>3. ASSUME NEW c \in Client, D!ServeFails(c) PROVE D!CountIsOfThreads' /\ Unconnected'
  BY <1>3, WhoIsClosed DEF D!ServeFails
<1>4. ASSUME NEW c \in Client, D!Release(c) \/ D!Admit(c) PROVE D!CountIsOfThreads' /\ Unconnected'
  BY <1>4 DEF D!Release, D!Admit
<1>5. ASSUME NEW c \in Client, D!SetUpFails(c) PROVE D!CountIsOfThreads' /\ Unconnected'
  BY <1>5, WhoIsClosed DEF D!SetUpFails
<1>6. CASE D!WaitEmpty
  BY <1>6 DEF D!WaitEmpty
<1>7. CASE D!CloseListener \/ D!ShutConnections
  BY <1>7, WhoIsClosed DEF D!CloseListener, D!ShutConnections
<1>8. CASE UNCHANGED <<backlog, connections, thread, client>>
  BY <1>8
<1> QED
  BY <1>1, <1>2, <1>3, <1>4, <1>5, <1>6, <1>7, <1>8
     DEF D!Next, D!LoopStep, D!ThreadStep, D!Drained, D!AcceptFails, D!Decide, D!Poll,
         D!PollFails,
         D!IdleElapses, D!StopComes, D!UnlinkSocket, ofAccept

LEMMA LeavesAloneStep == AcceptInv /\ [D!Next]_ofAccept => LeavesAlone'
<1> SUFFICES ASSUME AcceptInv, [D!Next]_ofAccept PROVE LeavesAlone'
  OBVIOUS
<1> USE DEF AcceptInv, D!TypeOK, LeavesAlone
<1>1. ASSUME NEW c \in Client,
             D!Connect(c) \/ D!ClientLeaves(c) \/ D!Reply(c) \/ D!ServeEnds(c) \/ D!ServeFails(c)
               \/ D!Release(c) \/ D!Admit(c) \/ D!SetUpFails(c)
      PROVE  LeavesAlone'
  BY <1>1 DEF D!Connect, D!ClientLeaves, D!Reply, D!ServeEnds, D!ServeFails, D!Release, D!Admit,
     D!SetUpFails
<1>2. CASE D!Drained \/ D!AcceptFails \/ D!Decide \/ D!Poll \/ D!PollFails
  BY <1>2 DEF D!Drained, D!AcceptFails, D!Decide, D!Poll, D!PollFails
<1>3. CASE D!IdleElapses \/ D!StopComes \/ D!UnlinkSocket \/ D!WaitEmpty \/ D!CloseListener
             \/ D!ShutConnections
  BY <1>3 DEF D!IdleElapses, D!StopComes, D!UnlinkSocket, D!WaitEmpty, D!CloseListener,
     D!ShutConnections
<1>4. CASE UNCHANGED ofAccept
  BY <1>4 DEF ofAccept
<1> QED
  BY <1>1, <1>2, <1>3, <1>4 DEF D!Next, D!LoopStep, D!ThreadStep

\* A client is cut off by a failure of its own, by the listener that closes on
\* the backlog, or by the shutdown of what is connected.
LEMMA LostStep == AcceptInv /\ [D!Next]_ofAccept => D!LostOnlyInTheGap'
<1> SUFFICES ASSUME AcceptInv, [D!Next]_ofAccept PROVE D!LostOnlyInTheGap'
  OBVIOUS
<1> USE DEF AcceptInv, D!LostOnlyInTheGap
<1>1. ASSUME NEW c \in Client, D!ServeFails(c) \/ D!SetUpFails(c) PROVE D!LostOnlyInTheGap'
  BY <1>1, WhoIsClosed DEF D!ServeFails, D!SetUpFails
<1>2. CASE D!CloseListener
  BY <1>2, WhoIsClosed DEF D!CloseListener, LeavesAlone
<1>3. CASE D!ShutConnections
  BY <1>3, WhoIsClosed DEF D!ShutConnections, LeavesAlone
<1>4. ASSUME NEW c \in Client, D!Connect(c) \/ D!ClientLeaves(c) \/ D!Reply(c) PROVE D!LostOnlyInTheGap'
  BY <1>4 DEF D!Connect, D!ClientLeaves, D!Reply, D!Set, D!TypeOK
<1>5. ASSUME UNCHANGED <<client, gap, broken>>, refused \subseteq refused', stopped => stopped'
      PROVE  D!LostOnlyInTheGap'
  BY <1>5
<1> QED
  BY <1>1, <1>2, <1>3, <1>4, <1>5
     DEF D!Next, D!LoopStep, D!ThreadStep, D!ServeEnds, D!Release, D!Admit, D!Drained,
         D!AcceptFails,
         D!Decide, D!Poll, D!PollFails, D!IdleElapses, D!StopComes, D!UnlinkSocket, D!WaitEmpty, ofAccept

LEMMA AcceptStep == AcceptInv /\ [D!Next]_ofAccept => AcceptInv'
  BY AcceptTypeStep, CountStep, LeavesAloneStep, LostStep DEF AcceptInv

\* The accept loop alone, whoever connects, fails and goes: nobody is dropped
\* but in the gap, and who is counted has a thread (KnowledgeDaemon).
THEOREM DaemonDropsNobody == D!Spec => [](D!CountIsOfThreads /\ D!LostOnlyInTheGap)
<1>1. AcceptInv /\ [D!Next]_(D!vars) => AcceptInv'
  BY AcceptStep DEF D!vars, ofAccept
<1>2. AcceptInv => D!CountIsOfThreads /\ D!LostOnlyInTheGap
  BY DEF AcceptInv
<1> QED
  BY <1>1, <1>2, AcceptInit, PTL DEF D!Spec

\* The same of the run that has the socket, the loop and the join side by side.
THEOREM LostOnlyInTheGapHolds == AllSpec => []LostOnlyInTheGap
<1>1. AllInit => AcceptInv
  BY AcceptInit DEF AllInit
<1>2. AcceptInv /\ [AllNext]_allVars => AcceptInv'
  BY AcceptStep DEF AllNext, allVars, InSocket, InAccept, InJoin
<1>3. AcceptInv => LostOnlyInTheGap
  BY DEF AcceptInv, LostOnlyInTheGap
<1> QED
  BY <1>1, <1>2, <1>3, PTL DEF AllSpec

-----------------------------------------------------------------------------
(* The join: what the input gives *)

LEMMA PrefixIs ==
  ASSUME NEW n \in 0..Chunks
  PROVE  /\ J!Prefix(n) \in Seq(1..Chunks) /\ Len(J!Prefix(n)) = n
         /\ \A i \in 1..n : J!Prefix(n)[i] = i
<1>1. J!Input \in Seq(1..Chunks) /\ Len(J!Input) = Chunks
  BY SharedAssumption, IsASeq DEF J!Input, J!JoinAssumption
<1> QED
  BY <1>1, SharedAssumption, SubSeqProperties DEF J!Prefix, J!JoinAssumption, J!Input

LEMMA PrefixIsOne ==
  ASSUME NEW n \in 0..Chunks, NEW s \in Seq(1..Chunks), Len(s) = n, \A i \in 1..n : s[i] = i
  PROVE  s = J!Prefix(n)
  BY PrefixIs, SeqEqual

LEMMA PrefixZero == J!Prefix(0) = <<>>
  BY PrefixIs, SharedAssumption, EmptySeq DEF J!JoinAssumption

LEMMA PrefixGrows ==
  ASSUME NEW n \in Nat, n + 1 <= Chunks
  PROVE  /\ Append(J!Prefix(n), n + 1) = J!Prefix(n + 1)
         /\ J!Prefix(n) \o <<n + 1>> = J!Prefix(n + 1)
<1>1. n \in 0..Chunks /\ n + 1 \in 0..Chunks /\ n + 1 \in 1..Chunks
  BY SharedAssumption DEF J!JoinAssumption
<1>2. J!Prefix(n) \in Seq(1..Chunks) /\ Len(J!Prefix(n)) = n /\ \A i \in 1..n : J!Prefix(n)[i] = i
  BY <1>1, PrefixIs
<1>3. Append(J!Prefix(n), n + 1) = J!Prefix(n + 1)
  <2> DEFINE s == Append(J!Prefix(n), n + 1)
  <2>1. /\ s \in Seq(1..Chunks) /\ Len(s) = n + 1
        /\ \A i \in 1..n : s[i] = J!Prefix(n)[i]
        /\ s[n + 1] = n + 1
    BY <1>1, <1>2, AppendProperties
  <2>2. \A i \in 1..(n + 1) : s[i] = i
    BY <1>2, <2>1
  <2> HIDE DEF s
  <2>3. s = J!Prefix(n + 1)
    BY <1>1, <2>1, <2>2, PrefixIsOne
  <2> QED
    BY <2>3 DEF s
<1> QED
  BY <1>1, <1>2, <1>3, AppendIsConcat

LEMMA PrefixOfPrefix ==
  ASSUME NEW n \in 0..Chunks, NEW k \in 0..n
  PROVE  SubSeq(J!Prefix(n), 1, k) = J!Prefix(k)
<1>1. k \in 0..Chunks /\ k <= n /\ n \in Nat
  BY SharedAssumption DEF J!JoinAssumption
<1>2. J!Prefix(n) \in Seq(1..Chunks) /\ Len(J!Prefix(n)) = n /\ \A i \in 1..n : J!Prefix(n)[i] = i
  BY PrefixIs
<1> DEFINE s == J!Prefix(n)
           t == SubSeq(s, 1, k)
<1>3. \A i \in 1..k : s[i] \in 1..Chunks /\ s[i] = i
  BY <1>1, <1>2, SharedAssumption DEF J!JoinAssumption
<1> HIDE DEF s
<1>4. /\ t \in Seq(1..Chunks) /\ Len(t) = k
      /\ \A i \in 1..k : t[i] = s[i]
  BY <1>1, <1>3, SubSeqProperties
<1>5. \A i \in 1..k : t[i] = i
  BY <1>3, <1>4
<1> HIDE DEF t
<1>6. t = J!Prefix(k)
  BY <1>1, <1>4, <1>5, PrefixIsOne
<1> QED
  BY <1>6 DEF s, t

\* What a write leaves in the connections.
LEMMA Writes ==
  ASSUME J!TypeOK, ForwardKeepsUp, link # <<>>, NEW s, NEW m \in 0..Chunks, J!Write(s),
         link[Len(link)] \o s = J!Prefix(m)
  PROVE  /\ link' \in Seq(Seq(1..Chunks)) /\ Len(link') = Len(link)
         /\ link'[Len(link')] = J!Prefix(m)
         /\ \A i \in 1..Len(link') : \E n \in 0..Chunks : link'[i] = J!Prefix(n)
<1>1. link \in Seq(Seq(1..Chunks)) /\ Len(link) \in 1..Len(link)
  BY EmptySeq DEF J!TypeOK
<1>2. J!Prefix(m) \in Seq(1..Chunks)
  BY PrefixIs
<1>3. link' = [link EXCEPT ![Len(link)] = J!Prefix(m)]
  BY DEF J!Write
<1>4. /\ link' \in Seq(Seq(1..Chunks)) /\ Len(link') = Len(link)
      /\ \A i \in 1..Len(link) : link'[i] = IF i = Len(link) THEN J!Prefix(m) ELSE link[i]
  BY <1>1, <1>2, <1>3, ExceptSeq
<1> QED
  BY <1>1, <1>4 DEF ForwardKeepsUp

\* Whatever part of the replay or of the chunk was taken, the connection has
\* the input from its first byte on.
LEMMA ForwardWrites ==
  ASSUME J!TypeOK, ForwardKeepsUp, J!ForwardReplay \/ J!ForwardWrite
  PROVE  /\ link' \in Seq(Seq(1..Chunks)) /\ Len(link') = Len(link)
         /\ fwd' \in {"poll", "off"} /\ shut' \in BOOLEAN
         /\ fwd' = "poll" => link'[Len(link')] = J!Prefix(taken)
         /\ \A i \in 1..Len(link') : \E n \in 0..Chunks : link'[i] = J!Prefix(n)
<1>1. Chunks \in Nat /\ taken \in 0..Chunks /\ link # <<>>
  BY SharedAssumption DEF J!JoinAssumption, J!TypeOK, ForwardKeepsUp, J!ForwardReplay,
     J!ForwardWrite
<1>2. ASSUME NEW n \in 0..Chunks PROVE J!Prefix(n) \o <<>> = J!Prefix(n) /\ <<>> \o J!Prefix(n) = J!Prefix(n)
  BY PrefixIs, ConcatEmptySeq
<1>3. CASE J!ForwardReplay
  <2>1. link[Len(link)] = <<>> /\ replay = J!Prefix(taken) /\ Len(replay) = taken
    BY <1>1, <1>3, PrefixIs DEF ForwardKeepsUp, J!ForwardReplay
  <2>2. CASE J!Write(replay) /\ fwd' = "poll" /\ UNCHANGED shut
    BY <1>1, <1>2, <2>1, <2>2, Writes DEF J!TypeOK
  <2>3. CASE J!CutShort(replay)
    <3>1. PICK n \in 0..(taken - 1) : J!Write(SubSeq(replay, 1, n)) /\ shut' = TRUE /\ fwd' = "off"
      BY <2>1, <2>3 DEF J!CutShort
    <3>2. n \in 0..Chunks /\ n \in 0..taken
      BY <1>1
    <3>3. SubSeq(replay, 1, n) = J!Prefix(n)
      BY <1>1, <2>1, <3>2, PrefixOfPrefix
    <3> QED
      BY <1>1, <1>2, <2>1, <3>1, <3>2, <3>3, Writes
  <2> QED
    BY <1>3, <2>2, <2>3 DEF J!ForwardReplay
<1>4. CASE J!ForwardWrite
  <2>1. taken > 0 /\ chunk = taken /\ link[Len(link)] = J!Prefix(taken - 1)
    BY <1>4 DEF ForwardKeepsUp, J!ForwardWrite
  <2>2. taken - 1 \in Nat /\ (taken - 1) + 1 = taken /\ taken - 1 \in 0..Chunks
    BY <1>1, <2>1
  <2>3. J!Prefix(taken - 1) \o <<taken>> = J!Prefix(taken)
    BY <1>1, <2>2, PrefixGrows
  <2>4. CASE J!Write(<<chunk>>) /\ fwd' = "poll" /\ UNCHANGED shut
    BY <1>1, <2>1, <2>3, <2>4, Writes DEF J!TypeOK
  <2>5. CASE J!CutShort(<<chunk>>)
    <3>1. Len(<<chunk>>) = 1
      OBVIOUS
    <3>2. J!Write(SubSeq(<<chunk>>, 1, 0)) /\ shut' = TRUE /\ fwd' = "off"
      BY <2>5, <3>1 DEF J!CutShort
    <3>3. SubSeq(<<chunk>>, 1, 0) = <<>>
      BY SubSeqEmpty
    <3> QED
      BY <1>1, <1>2, <2>1, <2>2, <3>2, <3>3, Writes
  <2> QED
    BY <1>4, <2>4, <2>5 DEF J!ForwardWrite
<1> QED
  BY <1>3, <1>4

\* A connection that is made has nothing yet, and is given what is kept.
LEMMA Connects ==
  ASSUME JoinInv, J!Connected
  PROVE  /\ link' \in Seq(Seq(1..Chunks)) /\ Len(link') = Len(link) + 1 /\ link' # <<>>
         /\ link'[Len(link')] = <<>> /\ replay' = J!Prefix(taken)
         /\ answered = {} /\ fwd = "off" /\ kept = "All"
         /\ \A i \in 1..Len(link') : \E n \in 0..Chunks : link'[i] = J!Prefix(n)
<1>1. <<>> \in Seq(1..Chunks) /\ link \in Seq(Seq(1..Chunks)) /\ Len(link) \in Nat
  BY EmptySeq DEF JoinInv, J!TypeOK
<1>2. /\ link' \in Seq(Seq(1..Chunks)) /\ Len(link') = Len(link) + 1 /\ link' # <<>>
      /\ \A i \in 1..Len(link) : link'[i] = link[i]
      /\ link'[Len(link) + 1] = <<>>
  BY <1>1, AppendProperties DEF J!Connected
<1>3. kept = "All" /\ fwd = "off" /\ answered = {} /\ bytes = J!Prefix(taken)
  BY DEF JoinInv, KeepsAll, RelayKnows, Recorded, J!Connected
<1>4. 0 \in 0..Chunks
  BY SharedAssumption DEF J!JoinAssumption
<1> QED
  BY <1>1, <1>2, <1>3, <1>4, PrefixZero DEF J!Connected, JoinInv, ForwardKeepsUp

-----------------------------------------------------------------------------
(* The join *)

LEMMA JoinInit == J!Init => JoinInv
<1> SUFFICES ASSUME J!Init PROVE JoinInv
  OBVIOUS
<1>1. /\ <<>> \in Seq(1..Chunks) /\ <<>> \in Seq(Seq(1..Chunks)) /\ Len(<<>>) = 0
      /\ J!Prefix(0) = <<>> /\ Chunks \in Nat /\ ReplayCap \in Nat
  BY EmptySeq, PrefixZero, SharedAssumption DEF J!JoinAssumption
<1>2. J!TypeOK
  <2>1. /\ taken \in 0..Chunks /\ chunk \in 0..Chunks /\ Len(bytes) <= ReplayCap
        /\ answered \subseteq 1..Len(link) /\ Len(link) <= 2
    BY <1>1 DEF J!Init
  <2>2. /\ bytes \in Seq(1..Chunks) /\ link \in Seq(Seq(1..Chunks))
        /\ replay \in Seq(1..Chunks) /\ here \in Seq(1..Chunks)
    BY <1>1 DEF J!Init
  <2> QED
    BY <2>1, <2>2 DEF J!Init, J!TypeOK
<1> QED
  BY <1>1, <1>2 DEF J!Init, JoinInv, KeepsAll, ForwardKeepsUp, RelayKnows, Recorded,
     J!HereGetsAll,
     J!UnansweredIsRetried

\* Most steps of the loop of relay and of the server move no byte.
Bytes == <<taken, kept, bytes, link, answered, fwd, replay, chunk>>

LEMMA RecordsTheChunk ==
  ASSUME JoinInv, J!ForwardRecord
  PROVE  /\ bytes' \in Seq(1..Chunks) /\ Len(bytes') <= ReplayCap
         /\ kept' \in {"All", "TooMuch", "Replied"} /\ (kept' = "Replied" <=> kept = "Replied")
         /\ kept' = "All" => bytes' = J!Prefix(taken)
         /\ kept' # "All" => bytes' = <<>>
         /\ kept = "TooMuch" => kept' = "TooMuch"
<1>1. /\ bytes \in Seq(1..Chunks) /\ Len(bytes) \in Nat /\ Len(bytes) <= ReplayCap
      /\ ReplayCap \in Nat /\ Chunks \in Nat /\ taken \in 0..Chunks
      /\ <<>> \in Seq(1..Chunks) /\ Len(<<>>) = 0
  BY SharedAssumption, LenProperties, EmptySeq DEF JoinInv, J!TypeOK, J!JoinAssumption
<1>2. taken > 0 /\ chunk = taken
  BY DEF JoinInv, ForwardKeepsUp, J!ForwardRecord
<1>3. kept = "All" => bytes = J!Prefix(taken - 1)
  BY DEF JoinInv, KeepsAll, Recorded, J!ForwardRecord
<1>4. kept # "All" => bytes = <<>>
  BY DEF JoinInv, KeepsAll
<1>5. kept \in {"All", "TooMuch", "Replied"}
  BY DEF JoinInv, J!TypeOK
<1>6. CASE bytes' = Append(bytes, chunk) /\ Len(bytes) + 1 <= ReplayCap /\ kept = "All" /\ kept' = kept
  <2>1. Append(bytes, chunk) \in Seq(1..Chunks) /\ Len(Append(bytes, chunk)) = Len(bytes) + 1
    BY <1>1, <1>2, AppendProperties
  <2>2. taken - 1 \in Nat /\ (taken - 1) + 1 = taken
    BY <1>1, <1>2
  <2>3. Append(bytes, chunk) = J!Prefix(taken)
    <3>1. taken - 1 + 1 <= Chunks
      BY <1>1, <2>2
    <3>2. Append(J!Prefix(taken - 1), taken - 1 + 1) = J!Prefix(taken - 1 + 1)
      BY <2>2, <3>1, PrefixGrows
    <3> QED
      BY <1>2, <1>3, <1>6, <2>2, <3>2
  <2> QED
    BY <1>1, <1>6, <2>1, <2>3
<1>7. CASE kept # "All" /\ UNCHANGED <<bytes, kept>>
  BY <1>1, <1>4, <1>5, <1>7
<1>8. CASE kept = "All" /\ kept' = "TooMuch" /\ bytes' = <<>>
  BY <1>1, <1>8
<1> QED
  BY <1>1, <1>6, <1>7, <1>8 DEF J!ForwardRecord

\* The loop of relay, the server and the end of the input move no byte.
Rests ==
  J!EndConnection \/ J!Joined \/ J!OutputGone \/ J!GoneJoined \/ J!ServerClosed
    \/ J!ForwardCancelled \/ J!ForwardEnd \/ J!ServerCloses

LEMMA JoinTypeStep == JoinInv /\ [J!Next]_ofJoin => J!TypeOK'
<1> SUFFICES ASSUME JoinInv, [J!Next]_ofJoin PROVE J!TypeOK'
  OBVIOUS
<1> USE DEF J!Sent, J!Session
<1>1. /\ J!TypeOK /\ ForwardKeepsUp
      /\ Chunks \in Nat /\ ReplayCap \in Nat /\ <<>> \in Seq(1..Chunks) /\ Len(<<>>) = 0
  BY SharedAssumption, EmptySeq DEF J!JoinAssumption, JoinInv
<1>2. CASE J!Connected
  <2>1. Len(link) \in Nat /\ Len(link) <= 1
    BY <1>2 DEF JoinInv, J!TypeOK, RelayKnows, J!Connected
  <2>2. link' \in Seq(Seq(1..Chunks)) /\ Len(link') <= 2 /\ answered' = {}
    <3>1. link' \in Seq(Seq(1..Chunks)) /\ Len(link') = Len(link) + 1 /\ answered = {}
      BY <1>2, Connects
    <3>2. answered' = answered
      BY <1>2 DEF J!Connected
    <3> QED
      BY <2>1, <3>1, <3>2
  <2>3. UNCHANGED <<taken, kept, bytes, ended, retried, here, chunk, cancel>> /\ replay' = bytes
        /\ main' = "copy" /\ fwd' = "replay" /\ shut' = FALSE /\ eof' = FALSE
    BY <1>2 DEF J!Connected
  <2> QED
    BY <1>1, <2>2, <2>3 DEF J!TypeOK
<1>3. CASE J!ServeHere
  BY <1>1, <1>3 DEF J!ServeHere, J!TypeOK
<1>4. CASE Rests
  BY <1>1, <1>4 DEF Rests, J!EndConnection, J!Joined, J!OutputGone, J!GoneJoined,
     J!ServerClosed,
     J!ForwardCancelled, J!ForwardEnd, J!ServerCloses, J!TypeOK
<1>5. CASE J!Replied
  <2>1. Len(link) \in 1..Len(link)
    BY <1>5 DEF JoinInv, RelayKnows, J!TypeOK, J!Replied
  <2>2. answered' \subseteq 1..Len(link) /\ bytes' \in Seq(1..Chunks) /\ Len(bytes') <= ReplayCap
    <3>1. answered' = answered \cup {Len(link)} /\ bytes' = <<>>
      BY <1>5 DEF J!Replied
    <3>2. answered \subseteq 1..Len(link)
      BY <1>1 DEF J!TypeOK
    <3>3. answered' \subseteq 1..Len(link)
      BY <2>1, <3>1, <3>2
    <3>4. bytes' \in Seq(1..Chunks) /\ Len(bytes') <= ReplayCap
      BY <1>1, <3>1
    <3> QED
      BY <3>3, <3>4
  <2>3. UNCHANGED <<taken, ended, retried, here, link, shut, eof, main, fwd, replay, chunk, cancel>>
        /\ kept' = "Replied"
    BY <1>5 DEF J!Replied
  <2> QED
    BY <1>1, <2>2, <2>3 DEF J!TypeOK
<1>6. CASE J!ForwardReplay \/ J!ForwardWrite
  <2>1. UNCHANGED <<taken, kept, bytes, ended, retried, here, answered, eof, main, replay, chunk, cancel>>
    BY <1>6 DEF J!ForwardReplay, J!ForwardWrite
  <2> QED
    BY <1>1, <1>6, <2>1, ForwardWrites DEF J!TypeOK
<1>7. CASE J!ForwardRead
  BY <1>1, <1>7 DEF J!ForwardRead, J!TypeOK
<1>8. CASE J!ForwardRecord
  BY <1>1, <1>8, RecordsTheChunk DEF J!ForwardRecord, J!TypeOK
<1>9. CASE UNCHANGED ofJoin
  BY <1>1, <1>9 DEF ofJoin, J!TypeOK
<1> QED
  BY <1>2, <1>3, <1>4, <1>5, <1>6, <1>7, <1>8, <1>9 DEF J!Next, J!RelayStep, J!ForwardStep,
     Rests

LEMMA KeepsAllStep == JoinInv /\ [J!Next]_ofJoin => KeepsAll'
<1> SUFFICES ASSUME JoinInv, [J!Next]_ofJoin PROVE KeepsAll'
  OBVIOUS
<1> USE DEF J!Sent, J!Session
<1>1. KeepsAll /\ taken \in Nat
  BY SharedAssumption DEF JoinInv, J!TypeOK, J!JoinAssumption
<1>2. CASE J!Connected
  BY <1>1, <1>2, Connects DEF J!Connected, KeepsAll, Recorded
<1>3. CASE J!ServeHere
  BY <1>1, <1>3 DEF J!ServeHere, KeepsAll, Recorded
<1>4. CASE Rests
  <2>1. UNCHANGED <<taken, kept, bytes, link, answered>>
    BY <1>4 DEF Rests, J!EndConnection, J!Joined, J!OutputGone, J!GoneJoined, J!ServerClosed,
       J!ForwardCancelled, J!ForwardEnd, J!ServerCloses
  <2>2. fwd' = "read" <=> fwd = "read"
    BY <1>4 DEF Rests, J!EndConnection, J!Joined, J!OutputGone, J!GoneJoined, J!ServerClosed,
       J!ForwardCancelled, J!ForwardEnd, J!ServerCloses
  <2> QED
    BY <1>1, <2>1, <2>2 DEF KeepsAll, Recorded
<1>5. CASE J!Replied
  BY <1>1, <1>5 DEF J!Replied, KeepsAll
<1>6. CASE J!ForwardReplay \/ J!ForwardWrite
  <2>1. UNCHANGED <<taken, kept, bytes, answered>> /\ fwd # "read"
    BY <1>6 DEF J!ForwardReplay, J!ForwardWrite
  <2>2. fwd' # "read" /\ Len(link') = Len(link)
    BY <1>6, ForwardWrites DEF JoinInv
  <2> QED
    BY <1>1, <2>1, <2>2 DEF KeepsAll, Recorded
<1>7. CASE J!ForwardRead
  BY <1>1, <1>7 DEF J!ForwardRead, KeepsAll, Recorded
<1>8. CASE J!ForwardRecord
  <2>1. UNCHANGED <<taken, answered, link>> /\ fwd' = "write"
    BY <1>8 DEF J!ForwardRecord
  <2> QED
    BY <1>1, <1>8, <2>1, RecordsTheChunk DEF KeepsAll, Recorded
<1>9. CASE UNCHANGED ofJoin
  BY <1>1, <1>9 DEF ofJoin, KeepsAll, Recorded
<1> QED
  BY <1>2, <1>3, <1>4, <1>5, <1>6, <1>7, <1>8, <1>9 DEF J!Next, J!RelayStep, J!ForwardStep,
     Rests

LEMMA ForwardKeepsUpStep == JoinInv /\ [J!Next]_ofJoin => ForwardKeepsUp'
<1> SUFFICES ASSUME JoinInv, [J!Next]_ofJoin PROVE ForwardKeepsUp'
  OBVIOUS
<1> USE DEF J!Sent, J!Session
<1>1. ForwardKeepsUp /\ taken \in Nat /\ J!TypeOK
  BY SharedAssumption DEF JoinInv, J!TypeOK, J!JoinAssumption
<1>2. CASE J!Connected
  <2>1. fwd' = "replay" /\ UNCHANGED taken
    BY <1>2 DEF J!Connected
  <2> QED
    BY <1>2, <2>1, Connects DEF ForwardKeepsUp
<1>3. CASE J!ServeHere \/ J!Replied
  BY <1>1, <1>3 DEF J!ServeHere, J!Replied, ForwardKeepsUp
<1>4. CASE Rests
  <2>1. UNCHANGED <<taken, chunk, replay, link>> /\ fwd' \in {fwd, "off"}
    BY <1>4 DEF Rests, J!EndConnection, J!Joined, J!OutputGone, J!GoneJoined, J!ServerClosed,
       J!ForwardCancelled, J!ForwardEnd, J!ServerCloses
  <2> QED
    BY <1>1, <2>1 DEF ForwardKeepsUp
<1>6. CASE J!ForwardReplay \/ J!ForwardWrite
  <2>1. UNCHANGED <<taken, chunk, replay>> /\ link # <<>> /\ Len(link) > 0
    BY <1>1, <1>6, EmptySeq DEF J!ForwardReplay, J!ForwardWrite, ForwardKeepsUp, J!TypeOK
  <2>2. link' # <<>>
    BY <1>1, <1>6, <2>1, ForwardWrites, EmptySeq
  <2> QED
    BY <1>1, <1>6, <2>1, <2>2, ForwardWrites DEF ForwardKeepsUp
<1>7. CASE J!ForwardRead \/ J!ForwardRecord
  BY <1>1, <1>7 DEF J!ForwardRead, J!ForwardRecord, ForwardKeepsUp
<1>9. CASE UNCHANGED ofJoin
  BY <1>1, <1>9 DEF ofJoin, ForwardKeepsUp
<1> QED
  BY <1>2, <1>3, <1>4, <1>6, <1>7, <1>9 DEF J!Next, J!RelayStep, J!ForwardStep, Rests

LEMMA RelayKnowsStep == JoinInv /\ [J!Next]_ofJoin => RelayKnows'
<1> SUFFICES ASSUME JoinInv, [J!Next]_ofJoin PROVE RelayKnows'
  OBVIOUS
<1> USE DEF J!Sent, J!Session
<1>1. RelayKnows /\ J!TypeOK /\ KeepsAll /\ Len(link) \in Nat
  BY DEF JoinInv, J!TypeOK
<1>2. CASE J!Connected
  <2>1. Len(link') = Len(link) + 1 /\ kept = "All"
    BY <1>2, Connects
  <2>2. main = "connect" /\ main' = "copy" /\ UNCHANGED retried
    BY <1>2 DEF J!Connected
  <2> QED
    BY <1>1, <2>1, <2>2 DEF RelayKnows, J!TypeOK
<1>3. CASE J!ServeHere \/ J!Replied
  BY <1>1, <1>3 DEF J!ServeHere, J!Replied, RelayKnows
<1>4. CASE Rests
  BY <1>1, <1>4 DEF Rests, J!EndConnection, J!Joined, J!OutputGone, J!GoneJoined,
     J!ServerClosed,
     J!ForwardCancelled, J!ForwardEnd, J!ServerCloses, RelayKnows, J!Retryable, J!TypeOK
<1>6. CASE J!ForwardReplay \/ J!ForwardWrite
  <2>1. UNCHANGED <<kept, main, retried, answered>> /\ fwd # "off"
    BY <1>6 DEF J!ForwardReplay, J!ForwardWrite
  <2>2. Len(link') = Len(link)
    BY <1>6, ForwardWrites DEF JoinInv
  <2> QED
    BY <1>1, <2>1, <2>2 DEF RelayKnows
<1>7. CASE J!ForwardRead \/ J!ForwardRecord
  BY <1>1, <1>7 DEF J!ForwardRead, J!ForwardRecord, RelayKnows
<1>9. CASE UNCHANGED ofJoin
  BY <1>1, <1>9 DEF ofJoin, RelayKnows
<1> QED
  BY <1>2, <1>3, <1>4, <1>6, <1>7, <1>9 DEF J!Next, J!RelayStep, J!ForwardStep, Rests

LEMMA HandsOverStep == JoinInv /\ [J!Next]_ofJoin => J!HereGetsAll' /\ J!UnansweredIsRetried'
<1> SUFFICES ASSUME JoinInv, [J!Next]_ofJoin PROVE J!HereGetsAll' /\ J!UnansweredIsRetried'
  OBVIOUS
<1> USE DEF J!Sent, J!Session
<1>1. /\ RelayKnows /\ J!TypeOK /\ KeepsAll /\ Len(link) \in Nat
      /\ J!HereGetsAll /\ J!UnansweredIsRetried
  BY DEF JoinInv, J!TypeOK
<1>2. CASE J!ServeHere
  BY <1>1, <1>2 DEF J!ServeHere, RelayKnows, KeepsAll, Recorded, J!HereGetsAll,
     J!UnansweredIsRetried,
     J!Prefix
<1>3. CASE J!Joined
  <2>1. main' # "here" /\ UNCHANGED <<taken, kept, answered, link>> /\ fwd = "off"
    BY <1>3 DEF J!Joined
  <2>2. ASSUME main' = "ok", answered = {}, taken # 0, kept # "TooMuch" PROVE Len(link) = 2
    <3>1. kept = "All"
      BY <1>1, <2>2 DEF KeepsAll, J!TypeOK
    <3>2. bytes = J!Prefix(taken) /\ Len(bytes) = taken
      BY <1>1, <2>1, <3>1, PrefixIs DEF KeepsAll, Recorded, J!TypeOK
    <3>3. bytes # <<>>
      BY <2>2, <3>2
    <3>4. J!Retryable
      BY <3>1, <3>3 DEF J!Retryable
    <3>5. retried
      BY <1>3, <2>2, <3>4 DEF J!Joined
    <3> QED
      BY <1>1, <1>3, <3>5 DEF J!Joined, RelayKnows
  <2> QED
    BY <2>1, <2>2 DEF J!HereGetsAll, J!UnansweredIsRetried
<1>4. CASE J!GoneJoined
  BY <1>1, <1>4 DEF J!GoneJoined, RelayKnows, J!HereGetsAll, J!UnansweredIsRetried
<1>5. CASE UNCHANGED ofJoin
  BY <1>1, <1>5 DEF ofJoin, J!HereGetsAll, J!UnansweredIsRetried
<1>6. ASSUME main' \notin {"here", "ok"} PROVE J!HereGetsAll' /\ J!UnansweredIsRetried'
  BY <1>6 DEF J!HereGetsAll, J!UnansweredIsRetried
<1>7. ASSUME main \in {"here", "ok"}, J!Next PROVE FALSE
  BY <1>1, <1>7 DEF J!Next, J!RelayStep, J!ForwardStep, J!Connected, J!ServeHere,
     J!EndConnection, J!Joined,
     J!OutputGone, J!GoneJoined, J!ServerClosed, J!Replied, J!ForwardCancelled, J!ForwardReplay,
     J!ForwardWrite, J!ForwardRead, J!ForwardRecord, J!ForwardEnd, J!ServerCloses, RelayKnows
<1> QED
  BY <1>1, <1>2, <1>3, <1>4, <1>5, <1>6, <1>7
     DEF J!Next, J!RelayStep, J!ForwardStep, J!Connected, J!EndConnection,
     J!OutputGone, J!ServerClosed, J!Replied, J!ForwardCancelled, J!ForwardReplay,
     J!ForwardWrite, J!ForwardRead, J!ForwardRecord, J!ForwardEnd, J!ServerCloses, RelayKnows

LEMMA JoinStep == JoinInv /\ [J!Next]_ofJoin => JoinInv'
  BY JoinTypeStep, KeepsAllStep, ForwardKeepsUpStep, RelayKnowsStep, HandsOverStep DEF JoinInv

LEMMA JoinKeepsItsWord == JoinInv => J!EachLinkIsAPrefix /\ J!HereGetsAll /\ J!UnansweredIsRetried
<1> SUFFICES ASSUME JoinInv PROVE J!EachLinkIsAPrefix
  BY DEF JoinInv
<1>1. Chunks \in Nat /\ answered \subseteq {Len(link)} /\ Len(link) \in Nat
  BY SharedAssumption DEF JoinInv, KeepsAll, J!TypeOK, J!JoinAssumption
<1>2. ASSUME NEW i \in 1..Len(link) PROVE J!IsPrefix(link[i], J!Input)
  <2>1. PICK n \in 0..Chunks : link[i] = J!Prefix(n)
    BY DEF JoinInv, ForwardKeepsUp
  <2>2. Len(link[i]) = n /\ SubSeq(link[i], 1, n) = J!Prefix(n)
    BY <1>1, <2>1, PrefixIs, PrefixOfPrefix
  <2>3. Len(J!Input) = Chunks
    BY <1>1 DEF J!Input
  <2> QED
    BY <1>1, <2>2, <2>3 DEF J!IsPrefix, J!Prefix
<1> QED
  BY <1>1, <1>2 DEF J!EachLinkIsAPrefix

\* A join alone: no connection misses a byte or gets one twice, a session that
\* is served here gets all that was read, and a question with no answer is asked
\* again (KnowledgeJoin).
THEOREM JoinHandsOver == J!Spec => [](J!EachLinkIsAPrefix /\ J!HereGetsAll /\ J!UnansweredIsRetried)
<1>1. JoinInv /\ [J!Next]_(J!vars) => JoinInv'
  BY JoinStep DEF J!vars, ofJoin
<1> QED
  BY <1>1, JoinInit, JoinKeepsItsWord, PTL DEF J!Spec

LEMMA JoinInvariant == AllSpec => []JoinInv
<1>1. AllInit => JoinInv
  BY JoinInit DEF AllInit
<1>2. JoinInv /\ [AllNext]_allVars => JoinInv'
  BY JoinStep DEF AllNext, allVars, InSocket, InAccept, InJoin
<1> QED
  BY <1>1, <1>2, PTL DEF AllSpec

\* In the run: each connection of a join gets the session with no gap and no
\* byte twice, for any input and any REPLAY_CAP (Sent, forward).
THEOREM EachLinkIsAPrefixHolds == AllSpec => []EachLinkIsAPrefix
<1>1. JoinInv => EachLinkIsAPrefix
  BY JoinKeepsItsWord DEF JoinInv, EachLinkIsAPrefix
<1> QED
  BY <1>1, JoinInvariant, PTL

\* In the run: nothing the client said is lost on the way to another server or
\* to the session that is served here (relay, retryable).
THEOREM HereGetsAllHolds == AllSpec => []HereGetsAll
<1>1. JoinInv => HereGetsAll
  BY DEF JoinInv, HereGetsAll
<1> QED
  BY <1>1, JoinInvariant, PTL
=============================================================================
