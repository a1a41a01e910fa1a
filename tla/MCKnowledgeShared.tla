------------------------- MODULE MCKnowledgeShared -------------------------
(***************************************************************************)
(* A shared knowledge server from its start to its end, side by side in    *)
(* one run: a behaviour is one of the starters and daemons that meet at    *)
(* the socket name, of the accept loop of a server, or of a join.  The     *)
(* parts that are not of the behaviour stay in their first state.          *)
(***************************************************************************)
EXTENDS KnowledgeSocket, Naturals, Sequences

CONSTANTS Client, AcceptMayFail  \* KnowledgeDaemon
CONSTANTS Chunks, ReplayCap      \* KnowledgeJoin

VARIABLES loop, timed, backlog, connections, thread, idleOver, wake, stopped,
          client, gap, broken, refused
VARIABLES taken, kept, bytes, ended, retried, link, answered, shut, eof, main,
          fwd, replay, chunk, cancel, here
VARIABLE part  \* the part the behaviour is of

D == INSTANCE KnowledgeDaemon
J == INSTANCE KnowledgeJoin

ASSUME SharedAssumption == D!DaemonAssumption /\ J!JoinAssumption

ofAccept == <<loop, timed, backlog, connections, thread, idleOver, wake, stopped,
              client, gap, broken, refused>>
ofJoin == <<taken, kept, bytes, ended, retried, link, answered, shut, eof, main,
            fwd, replay, chunk, cancel, here>>
allVars == <<part, vars, ofAccept, ofJoin>>

AllInit ==
  /\ part \in {"socket", "accept", "join"}
  /\ Init /\ D!Init /\ J!Init

InSocket == part = "socket" /\ UNCHANGED <<part, ofAccept, ofJoin>>
InAccept == part = "accept" /\ UNCHANGED <<part, vars, ofJoin>>
InJoin == part = "join" /\ UNCHANGED <<part, vars, ofAccept>>

AllNext == (InSocket /\ Next) \/ (InAccept /\ D!Next) \/ (InJoin /\ J!Next)

\* The fairness of the accept loop and the join, as their modules state it; of
\* the starters and daemons only what may never happen is asked here.
AllSpec ==
  /\ AllInit /\ [][AllNext]_allVars
  /\ WF_allVars(InAccept /\ D!LoopStep) /\ WF_allVars(InAccept /\ D!IdleElapses)
  /\ \A c \in Client : WF_allVars(InAccept /\ D!ThreadStep(c)) /\ WF_allVars(InAccept /\ D!Reply(c))
  /\ WF_allVars(InJoin /\ J!RelayStep) /\ WF_allVars(InJoin /\ J!ForwardStep)
  /\ WF_allVars(InJoin /\ ended /\ J!ForwardEnd) /\ WF_allVars(InJoin /\ eof /\ J!ServerCloses)

-----------------------------------------------------------------------------
\* A server that leaves because it was idle drops nobody but in the gap that
\* join retries for, and counts as connected who has a thread (KnowledgeDaemon).
LostOnlyInTheGap == D!TypeOK /\ D!CountIsOfThreads /\ D!LostOnlyInTheGap

\* A connection gets the session from its first byte on with no gap and no
\* byte twice, also after a retry (KnowledgeJoin).
EachLinkIsAPrefix == J!TypeOK /\ J!EachLinkIsAPrefix

\* Nothing the client said is lost on the way to another server or to the
\* session that is served here (KnowledgeJoin).
HereGetsAll == J!HereGetsAll /\ J!UnansweredIsRetried

\* A server nobody uses leaves; a join whose server went notices it, and ends
\* when its input has (KnowledgeDaemon, KnowledgeJoin).
ServerAndJoinEnd ==
  /\ (part = "accept") => D!LeavesWhenQuiet
  /\ J!ServerGoneIsNoticed
  /\ J!InputEndEndsJoin
=============================================================================
