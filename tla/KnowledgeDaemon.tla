-------------------------- MODULE KnowledgeDaemon --------------------------
(***************************************************************************)
(* The shared knowledge server while it has its socket: the accept loop,   *)
(* the threads of its connections and its decision to leave (daemon.rs,    *)
(* from accept_loop on).                                                   *)
(*                                                                         *)
(* The loop is drain, decide, poll; the decision reads the connections     *)
(* under the mutex in which connections are counted in and out.  Clients   *)
(* connect and go at any time, and one that connects is in the backlog of  *)
(* the listener until the loop accepts it.                                 *)
(***************************************************************************)
EXTENDS Naturals, FiniteSets

CONSTANTS
  Client,        \* clients, each connects once
  AcceptMayFail  \* accept may fail for want of a descriptor

DaemonAssumption == AcceptMayFail \in BOOLEAN

VARIABLES
  loop,         \* where the accept loop is
  timed,        \* its poll has a time limit: nobody was connected
  backlog,      \* clients that connected and were not accepted
  connections,  \* Shared::state.connections: the clients counted in
  thread,       \* the thread of each connection
  idleOver,     \* `idle` has passed since idle_since
  wake,         \* there is a byte in the wake pipe
  stopped,      \* the Stop came
  client,       \* what each client has had
  gap,          \* history: who connected after a drain and before the next one
  broken,       \* history: connections that failed by themselves
  refused       \* history: who waited in the backlog when accept failed

vars == <<loop, timed, backlog, connections, thread, idleOver, wake, stopped,
          client, gap, broken, refused>>

TypeOK ==
  /\ loop \in {"drain", "decide", "poll", "unlink", "close", "shut", "wait", "gone"}
  /\ timed \in BOOLEAN /\ idleOver \in BOOLEAN /\ wake \in BOOLEAN /\ stopped \in BOOLEAN
  /\ backlog \subseteq Client
  /\ connections \subseteq Client
  /\ thread \in [Client -> {"none", "serving", "over"}]
  /\ client \in [Client -> {"off", "waiting", "replied", "left", "lost", "cut"}]
  /\ gap \subseteq Client /\ broken \subseteq Client /\ refused \subseteq Client
  /\ backlog \cap connections = {}

Init ==
  /\ loop = "drain" /\ timed = FALSE
  /\ backlog = {} /\ connections = {}
  /\ thread = [c \in Client |-> "none"]
  /\ idleOver = FALSE /\ wake = FALSE /\ stopped = FALSE
  /\ client = [c \in Client |-> "off"]
  /\ gap = {} /\ broken = {} /\ refused = {}

\* What a client finds when the server's end of its connection is closed.
Closed(S) ==
  client' = [c \in Client |->
    IF c \notin S THEN client[c]
    ELSE CASE client[c] = "waiting" -> "lost"
           [] client[c] = "replied" -> "cut"
           [] OTHER -> client[c]]

Set(c, to) == client' = [client EXCEPT ![c] = to]
Thread(c, to) == thread' = [thread EXCEPT ![c] = to]

-----------------------------------------------------------------------------
(* The clients *)

Connect(c) ==
  /\ client[c] = "off" /\ loop \notin {"close", "shut", "wait", "gone"}
  /\ backlog' = backlog \cup {c}
  /\ Set(c, "waiting")
  /\ gap' = IF loop \in {"decide", "unlink"} THEN gap \cup {c} ELSE gap
  /\ UNCHANGED <<loop, timed, connections, thread, idleOver, wake, stopped, broken, refused>>

\* The client closes its writing side, or goes.
ClientLeaves(c) ==
  /\ client[c] \in {"waiting", "replied"}
  /\ Set(c, "left")
  /\ UNCHANGED <<loop, timed, backlog, connections, thread, idleOver, wake, stopped, gap, broken, refused>>

-----------------------------------------------------------------------------
(* The threads of the connections *)

Reply(c) ==
  /\ thread[c] = "serving" /\ client[c] = "waiting"
  /\ Set(c, "replied")
  /\ UNCHANGED <<loop, timed, backlog, connections, thread, idleOver, wake, stopped, gap, broken, refused>>

\* The read finds the end of the client's stream, or a stream that was shut.
ServeEnds(c) ==
  /\ thread[c] = "serving" /\ client[c] \in {"left", "lost", "cut"}
  /\ Thread(c, "over")
  /\ UNCHANGED <<loop, timed, backlog, connections, idleOver, wake, stopped, client, gap, broken, refused>>

\* A failure or a panic of the thread costs this connection only.
ServeFails(c) ==
  /\ thread[c] = "serving"
  /\ Thread(c, "over")
  /\ Closed({c})
  /\ broken' = broken \cup {c}
  /\ UNCHANGED <<loop, timed, backlog, connections, idleOver, wake, stopped, gap, refused>>

\* Mutant: a connection that is counted out does not wake the loop.
Release_Silent(c) ==
  /\ thread[c] = "over"
  /\ Thread(c, "none")
  /\ connections' = connections \ {c}
  /\ idleOver' = FALSE
  /\ UNCHANGED <<loop, timed, backlog, wake, stopped, client, gap, broken, refused>>

\* The Drop of Admitted: counted out, the idle clock started, the loop woken.
Release(c) ==
  /\ thread[c] = "over"
  /\ Thread(c, "none")
  /\ connections' = connections \ {c}
  /\ idleOver' = FALSE
  /\ wake' = TRUE
  /\ UNCHANGED <<loop, timed, backlog, stopped, client, gap, broken, refused>>

-----------------------------------------------------------------------------
(* The accept loop *)

\* accept_pending takes one connection: it is counted in and gets a thread ...
Admit(c) ==
  /\ loop = "drain" /\ c \in backlog
  /\ backlog' = backlog \ {c}
  /\ connections' = connections \cup {c}
  /\ Thread(c, "serving")
  /\ UNCHANGED <<loop, timed, idleOver, wake, stopped, client, gap, broken, refused>>

\* ... or it cannot be set up: refused a clone of its stream, it is closed and
\* never counted; refused a thread, it is counted out again.
SetUpFails(c) ==
  /\ loop = "drain" /\ c \in backlog
  /\ backlog' = backlog \ {c}
  /\ Closed({c})
  /\ broken' = broken \cup {c}
  /\ \/ UNCHANGED <<idleOver, wake>>
     \/ idleOver' = FALSE /\ wake' = TRUE
  /\ UNCHANGED <<loop, timed, connections, thread, stopped, gap, refused>>

\* Mutant: one connection is taken a turn and the rest of the backlog waits.
Drained_TakesOne ==
  /\ loop = "drain"
  /\ loop' = "decide"
  /\ UNCHANGED <<timed, backlog, connections, thread, idleOver, wake, stopped, client, gap, broken, refused>>

\* accept finds nothing more.
Drained ==
  /\ loop = "drain" /\ backlog = {}
  /\ loop' = "decide"
  /\ UNCHANGED <<timed, backlog, connections, thread, idleOver, wake, stopped, client, gap, broken, refused>>

\* accept fails: the loop rests and goes on with the backlog as it is.
AcceptFails ==
  /\ AcceptMayFail
  /\ loop = "drain" /\ backlog # {}
  /\ loop' = "decide"
  /\ refused' = refused \cup backlog
  /\ UNCHANGED <<timed, backlog, connections, thread, idleOver, wake, stopped, client, gap, broken>>

\* Under the mutex: leave, or wait with the time that is left when nobody is
\* connected and with none when somebody is.
Decide ==
  /\ loop = "decide"
  /\ IF stopped \/ (connections = {} /\ idleOver)
       THEN loop' = "unlink" /\ UNCHANGED timed
       ELSE loop' = "poll" /\ timed' = (connections = {})
  /\ UNCHANGED <<backlog, connections, thread, idleOver, wake, stopped, client, gap, broken, refused>>

\* wait_for: a connection, a wake or the end of the idle time.
Poll ==
  /\ loop = "poll"
  /\ backlog # {} \/ wake \/ (timed /\ idleOver)
  /\ wake' = FALSE
  /\ loop' = "drain"
  /\ UNCHANGED <<timed, backlog, connections, thread, idleOver, stopped, client, gap, broken, refused>>

\* poll fails, which ends the serving.
PollFails ==
  /\ loop = "poll"
  /\ stopped' = TRUE
  /\ loop' = "unlink"
  /\ UNCHANGED <<timed, backlog, connections, thread, idleOver, wake, client, gap, broken, refused>>

IdleElapses ==
  /\ connections = {} /\ ~idleOver /\ loop # "gone"
  /\ idleOver' = TRUE
  /\ UNCHANGED <<loop, timed, backlog, connections, thread, wake, stopped, client, gap, broken, refused>>

\* A signal: the Stop is set, and its watcher wakes the loop.
StopComes ==
  /\ ~stopped /\ loop # "gone"
  /\ stopped' = TRUE
  /\ wake' = TRUE
  /\ UNCHANGED <<loop, timed, backlog, connections, thread, idleOver, client, gap, broken, refused>>

-----------------------------------------------------------------------------
(* Leaving: serve_then_leave and the end of run *)

UnlinkSocket ==
  /\ loop = "unlink"
  /\ loop' = "close"
  /\ UNCHANGED <<timed, backlog, connections, thread, idleOver, wake, stopped, client, gap, broken, refused>>

\* The listener closes, and with it whatever is in its backlog.
CloseListener ==
  /\ loop = "close"
  /\ Closed(backlog)
  /\ backlog' = {}
  /\ loop' = "shut"
  /\ UNCHANGED <<timed, connections, thread, idleOver, wake, stopped, gap, broken, refused>>

ShutConnections ==
  /\ loop = "shut"
  /\ Closed(connections)
  /\ loop' = "wait"
  /\ UNCHANGED <<timed, backlog, connections, thread, idleOver, wake, stopped, gap, broken, refused>>

\* wait_empty, which ends when the last connection is counted out or its time
\* is over; the process ends after it, threads and all.
WaitEmpty ==
  /\ loop = "wait"
  /\ loop' = "gone"
  /\ thread' = [c \in Client |-> "none"]
  /\ connections' = {}
  /\ UNCHANGED <<timed, backlog, idleOver, wake, stopped, client, gap, broken, refused>>

-----------------------------------------------------------------------------
LoopStep ==
  \/ \E c \in Client : Admit(c) \/ SetUpFails(c)
  \/ Drained \/ AcceptFails \/ Decide \/ Poll
  \/ UnlinkSocket \/ CloseListener \/ ShutConnections \/ WaitEmpty

ThreadStep(c) == ServeEnds(c) \/ Release(c)

Next ==
  \/ LoopStep \/ PollFails \/ IdleElapses \/ StopComes
  \/ \E c \in Client :
       Connect(c) \/ ClientLeaves(c) \/ Reply(c) \/ ServeFails(c) \/ ThreadStep(c)

Spec == Init /\ [][Next]_vars

\* The loop and the threads run and time goes by; what clients do is theirs.
FairSpec ==
  /\ Spec
  /\ WF_vars(LoopStep) /\ WF_vars(IdleElapses)
  /\ \A c \in Client : WF_vars(ThreadStep(c)) /\ WF_vars(Reply(c))

-----------------------------------------------------------------------------
(* Properties *)

\* A server that leaves because it was idle closes a connection with no reply
\* only when it came between the last drain of the backlog and the close, the
\* gap join retries for, or when accept failed for it (accept_pending,
\* serve_until_left, serve_then_leave).
LostOnlyInTheGap ==
  ~stopped => \A c \in Client : client[c] = "lost" => c \in gap \cup broken \cup refused

\* The count is the count of the threads, so that a connection that failed
\* does not keep the server from leaving (Admitted).
CountIsOfThreads == connections = {c \in Client : thread[c] # "none"}

Quiet == \A c \in Client : client[c] \notin {"waiting", "replied"}

\* A server with nobody connected ends, and one that is stopped ends whoever
\* is connected: no wake of the loop is lost.
LeavesWhenQuiet == (<>[]Quiet \/ <>stopped) => <>(loop = "gone")
=============================================================================
