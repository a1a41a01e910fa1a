--------------------------- MODULE KnowledgeJoin ---------------------------
(***************************************************************************)
(* `knowledge join` (join.rs): the relay between the standard streams of a *)
(* session and the shared server, with its one retry.                      *)
(*                                                                         *)
(* The input is the chunks 1, 2, .. and then its end; it may also stay     *)
(* open for good.  `forward` and `copy_replies` are two threads.  The      *)
(* server is the environment: it takes bytes, replies and closes when it   *)
(* likes.  A connection is the sequence of chunks that were written to it. *)
(***************************************************************************)
EXTENDS Naturals, Sequences, SequencesExt

CONSTANTS
  Chunks,    \* bound: chunks of input
  ReplayCap  \* REPLAY_CAP, in chunks

JoinAssumption == Chunks \in Nat /\ ReplayCap \in Nat

VARIABLES
  taken,    \* chunks read from the input
  kept,     \* Sent::kept
  bytes,    \* Sent::bytes
  ended,    \* Sent::ended
  retried,  \* the retry was used
  link,     \* what was written to each connection so far, in order
  answered, \* connections that gave a reply byte
  shut,     \* the server's end of the last connection is closed
  eof,      \* forward shut the writing half of it
  main,     \* where copy_replies and the loop of relay are
  fwd,      \* where forward is
  replay,   \* what the connection is given again
  chunk,    \* the chunk forward has read
  cancel,   \* the wake pipe has a byte
  here      \* what serve_here was given

vars == <<taken, kept, bytes, ended, retried, link, answered, shut, eof, main,
          fwd, replay, chunk, cancel, here>>

Input == [n \in 1..Chunks |-> n]
Prefix(n) == SubSeq(Input, 1, n)

TypeOK ==
  /\ taken \in 0..Chunks
  /\ kept \in {"All", "TooMuch", "Replied"}
  /\ bytes \in Seq(1..Chunks) /\ Len(bytes) <= ReplayCap
  /\ ended \in BOOLEAN /\ retried \in BOOLEAN /\ shut \in BOOLEAN
  /\ eof \in BOOLEAN /\ cancel \in BOOLEAN
  /\ link \in Seq(Seq(1..Chunks)) /\ Len(link) <= 2
  /\ answered \subseteq 1..Len(link)
  /\ main \in {"connect", "copy", "cancel", "join", "here", "gone", "ok", "error"}
  /\ fwd \in {"off", "replay", "poll", "read", "write"}
  /\ replay \in Seq(1..Chunks) /\ chunk \in 0..Chunks
  /\ here \in Seq(1..Chunks)

Init ==
  /\ taken = 0 /\ kept = "All" /\ bytes = <<>> /\ ended = FALSE
  /\ retried = FALSE /\ link = <<>> /\ answered = {} /\ shut = FALSE /\ eof = FALSE
  /\ main = "connect" /\ fwd = "off" /\ replay = <<>> /\ chunk = 0
  /\ cancel = FALSE /\ here = <<>>

Sent == <<kept, bytes, ended>>
Session == <<retried, here>>

-----------------------------------------------------------------------------
(* The loop of relay *)

\* connect gives a connection to the server, started when none answers.
Connected ==
  /\ main = "connect"
  /\ link' = Append(link, <<>>)
  /\ shut' = FALSE /\ eof' = FALSE
  /\ main' = "copy" /\ fwd' = "replay" /\ replay' = bytes
  /\ UNCHANGED <<taken, Sent, Session, answered, chunk, cancel>>

\* No server can be had: the session is served here, with what was read.
ServeHere ==
  /\ main = "connect"
  /\ here' = bytes
  /\ main' = "here"
  /\ UNCHANGED <<taken, Sent, retried, link, answered, shut, eof, fwd, replay, chunk, cancel>>

\* The connection ended: it is shut, and forward is told to stop.
EndConnection ==
  /\ main = "cancel"
  /\ shut' = TRUE /\ cancel' = TRUE
  /\ main' = "join"
  /\ UNCHANGED <<taken, Sent, Session, link, answered, eof, fwd, replay, chunk>>

\* Mutant: a connection that ended after a reply is tried again.
Retryable_Replied == kept # "TooMuch" /\ (bytes # <<>> \/ ~ended)

Retryable == kept = "All" /\ (bytes # <<>> \/ ~ended)

\* forward has returned: once more, or the end of the session.
Joined ==
  /\ main = "join" /\ fwd = "off"
  /\ cancel' = FALSE
  /\ IF ~retried /\ Retryable
       THEN main' = "connect" /\ retried' = TRUE
       ELSE main' = (IF ended THEN "ok" ELSE "error") /\ UNCHANGED retried
  /\ UNCHANGED <<taken, Sent, here, link, answered, shut, eof, fwd, replay, chunk>>

\* The output is gone: nothing more can be done here.
OutputGone ==
  /\ main = "copy" /\ Len(link) \in answered
  /\ shut' = TRUE /\ cancel' = TRUE
  /\ main' = "gone"
  /\ UNCHANGED <<taken, Sent, Session, link, answered, eof, fwd, replay, chunk>>

\* The scope waits for forward, and then the exit is 0.
GoneJoined ==
  /\ main = "gone" /\ fwd = "off"
  /\ cancel' = FALSE /\ main' = "ok"
  /\ UNCHANGED <<taken, Sent, Session, link, answered, shut, eof, fwd, replay, chunk>>

\* copy_replies: bytes came; nothing is kept and nothing retried from now on.
\* They may have been sent before the server closed.
Replied ==
  /\ main = "copy"
  /\ kept' = "Replied" /\ bytes' = <<>>
  /\ answered' = answered \cup {Len(link)}
  /\ UNCHANGED <<taken, ended, Session, link, shut, eof, main, fwd, replay, chunk, cancel>>

ServerClosed ==
  /\ main = "copy" /\ shut
  /\ main' = "cancel"
  /\ UNCHANGED <<taken, Sent, Session, link, answered, shut, eof, fwd, replay, chunk, cancel>>

-----------------------------------------------------------------------------
(* forward *)

Write(s) == link' = [link EXCEPT ![Len(link)] = @ \o s]

\* The server closes before it has taken all of what is written.
CutShort(what) ==
  \E n \in 0..(Len(what) - 1) :
    /\ shut => n = 0
    /\ Write(SubSeq(what, 1, n)) /\ shut' = TRUE /\ fwd' = "off"

\* What was kept when the connection was made is written first.
ForwardReplay ==
  /\ fwd = "replay"
  /\ \/ (shut => replay = <<>>) /\ Write(replay) /\ fwd' = "poll" /\ UNCHANGED shut
     \/ CutShort(replay)
  /\ UNCHANGED <<taken, Sent, Session, answered, eof, main, replay, chunk, cancel>>

ForwardCancelled ==
  /\ fwd = "poll" /\ cancel
  /\ fwd' = "off"
  /\ UNCHANGED <<taken, Sent, Session, link, answered, shut, eof, main, replay, chunk, cancel>>

ForwardRead ==
  /\ fwd = "poll" /\ ~cancel /\ ~ended /\ taken < Chunks
  /\ taken' = taken + 1 /\ chunk' = taken + 1
  /\ fwd' = "read"
  /\ UNCHANGED <<Sent, Session, link, answered, shut, eof, main, replay, cancel>>

\* Mutant: a chunk is recorded only once it was written.
ForwardRecord_AfterWrite ==
  /\ fwd = "read"
  /\ \/ ~shut /\ Write(<<chunk>>) /\ fwd' = "poll"
        /\ IF kept = "All" /\ Len(bytes) < ReplayCap
             THEN bytes' = Append(bytes, chunk) /\ UNCHANGED kept
             ELSE UNCHANGED <<bytes, kept>>
     \/ shut /\ fwd' = "off" /\ UNCHANGED <<link, bytes, kept>>
  /\ UNCHANGED <<taken, ended, Session, answered, shut, eof, main, replay, chunk, cancel>>

\* Sent::record, before the write: too much is as good as nothing kept.
ForwardRecord ==
  /\ fwd = "read"
  /\ IF kept # "All" THEN UNCHANGED <<bytes, kept>>
     ELSE IF Len(bytes) + 1 > ReplayCap THEN kept' = "TooMuch" /\ bytes' = <<>>
     ELSE bytes' = Append(bytes, chunk) /\ UNCHANGED kept
  /\ fwd' = "write"
  /\ UNCHANGED <<taken, ended, Session, link, answered, shut, eof, main, replay, chunk, cancel>>

ForwardWrite ==
  /\ fwd = "write"
  /\ \/ ~shut /\ Write(<<chunk>>) /\ fwd' = "poll" /\ UNCHANGED shut
     \/ CutShort(<<chunk>>)
  /\ UNCHANGED <<taken, Sent, Session, answered, eof, main, replay, chunk, cancel>>

\* The end of the input, or an input that cannot be read any more: it may come
\* after any chunk, and is read again by the forward of a retry.
ForwardEnd ==
  /\ fwd = "poll" /\ ~cancel
  /\ ended' = TRUE /\ eof' = TRUE
  /\ fwd' = "off"
  /\ UNCHANGED <<taken, kept, bytes, Session, link, answered, shut, main, replay, chunk, cancel>>

-----------------------------------------------------------------------------
\* The server closes, when it leaves or dies or has seen the end of the input.
ServerCloses ==
  /\ main = "copy" /\ ~shut
  /\ shut' = TRUE
  /\ UNCHANGED <<taken, Sent, Session, link, answered, eof, main, fwd, replay, chunk, cancel>>

Over == main \in {"here", "ok", "error"}

RelayStep ==
  Connected \/ ServeHere \/ EndConnection \/ Joined \/ GoneJoined \/ ServerClosed

\* The steps of forward that need nothing from the client.
ForwardStep ==
  ForwardReplay \/ ForwardCancelled \/ ForwardRecord \/ ForwardWrite

Next ==
  \/ RelayStep \/ OutputGone \/ Replied
  \/ ForwardStep \/ ForwardRead \/ ForwardEnd
  \/ ServerCloses

Spec == Init /\ [][Next]_vars

\* The threads run; an input that has ended is read as ended again; a server
\* that saw the end of the input closes.  A client may say nothing for ever.
FairSpec ==
  /\ Spec
  /\ WF_vars(RelayStep) /\ WF_vars(ForwardStep) /\ WF_vars(ended /\ ForwardEnd)
  /\ WF_vars(eof /\ ServerCloses)

-----------------------------------------------------------------------------
(* Properties *)

\* Each connection gets the session from its first byte on with no gap and no
\* byte twice, whatever a retry had to send again, and a connection that gave
\* a reply is the last (Sent, forward).
EachLinkIsAPrefix ==
  \A i \in 1..Len(link) : IsPrefix(link[i], Input) /\ (i < Len(link) => i \notin answered)

\* A session that is served here gets the input from its first byte on: what
\* was read already is handed over, the rest is still to be read (relay).
HereGetsAll == main = "here" => here = Prefix(taken)

\* A question that was asked and never answered is not dropped by the first
\* server that leaves: exit 0 with no reply takes a second connection, or a
\* session that asked nothing or more than is kept (relay, retryable).
UnansweredIsRetried ==
  main = "ok" /\ answered = {} => Len(link) = 2 \/ taken = 0 \/ kept = "TooMuch"

\* A server that went away is noticed though the client says nothing: forward
\* waits in a poll for the input, and has to be woken (relay, watch::wake).
ServerGoneIsNoticed == shut ~> ~shut \/ Over

\* join ends once its input has ended, a retry on the way or not.
InputEndEndsJoin == ended ~> Over
=============================================================================
