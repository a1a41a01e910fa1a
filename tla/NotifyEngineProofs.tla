------------------------- MODULE NotifyEngineProofs -------------------------
(***************************************************************************)
(* What the engine of the notify daemon keeps for any number of sessions,  *)
(* events, deaths and options.  First what a run can do: one post lands    *)
(* after the stop, a permission prompt is held back for a question that is *)
(* up, and an engine nobody feeds has the re-follow that brings it back.   *)
(* Then what the engine waits for: a notice at rest and an armed key are   *)
(* of what the session does.  Last, that it warns once of one cache.       *)
(*                                                                         *)
(* The argument of the second is about what is pending, the queue and the  *)
(* feed behind it: the last line of a key tells what its session does, so  *)
(* what the engine holds of a key is right as soon as nothing of it is     *)
(* pending.  A call of the loop keeps what is pending but for deadlines    *)
(* that came, a job takes the first, a hook adds a last.                   *)
(***************************************************************************)
EXTENDS MCNotifyEngine, WellFoundedInduction, SequenceTheorems, FiniteSetTheorems, TLAPS

-----------------------------------------------------------------------------
(* The strengthening *)

EngineFields ==
  {"queue", "deadlines", "armedBy", "questions", "warnedAt", "following", "refollow",
   "after", "followedAt", "followedAfter", "heard"}

IsEngine(e) == DOMAIN e = EngineFields /\ e.after \in RefollowMin..RefollowMax

\* The loop takes no job once it is stopped, so no post starts after the one
\* that was in flight.
PostsBeforeTheStop ==
  /\ landed \in 0..1
  /\ ~stop \/ pc = "post" => landed = 0

\* A question that is remembered has its notice up, or it was dropped because
\* the pane was in front.
QuestionsAreUp ==
  /\ DOMAIN eng.questions \subseteq up \cup inFront
  /\ ~bare

\* Before the start nobody follows and nothing waits, and after the end too.
FollowsOrWill ==
  pc \in {"wait", "run", "post"} => eng.following \/ eng.refollow.at # None

EngineInv ==
  /\ clock \in Nat /\ IsEngine(eng)
  /\ PostsBeforeTheStop /\ QuestionsAreUp /\ FollowsOrWill

-----------------------------------------------------------------------------
(* What the operators of the engine leave alone *)

\* Two states of an engine that differ in its jobs and its waits only.
SameQuestions(e, f) == IsEngine(f) /\ f.questions = e.questions

SameFollower(e, f) == f.following = e.following /\ f.refollow = e.refollow

Followed(e) == e.following \/ e.refollow.at # None

\* Engine::sweep moves deadlines to the queue and does nothing else.
LEMMA SweepMovesDeadlines ==
  ASSUME NEW e, IsEngine(e)
  PROVE  SameQuestions(e, Sweep(e)) /\ SameFollower(e, Sweep(e))
BY DEF Sweep, IsEngine, EngineFields, SameQuestions, SameFollower

\* Engine::refollow_soon: a re-follow waits, and the next wait is in its range.
LEMMA RefollowSoonWaits ==
  ASSUME NEW e, IsEngine(e), clock \in Nat
  PROVE  SameQuestions(e, RefollowSoon(e)) /\ RefollowSoon(e).refollow.at # None
BY EngineAssumption DEF RefollowSoon, AtMost, IsEngine, EngineFields, SameQuestions, None

\* Engine::on_dead: nobody follows, and a re-follow waits.
LEMMA OnDeadWaits ==
  ASSUME NEW e, IsEngine(e), clock \in Nat
  PROVE  SameQuestions(e, OnDead(e)) /\ OnDead(e).refollow.at # None
<1> DEFINE d == [e EXCEPT !.following = FALSE, !.after = IF Proven(e) THEN RefollowMin ELSE @]
<1>1. IsEngine(d) /\ d.questions = e.questions
  BY EngineAssumption DEF IsEngine, EngineFields
<1> QED  BY <1>1, RefollowSoonWaits DEF OnDead, SameQuestions

\* Engine::ingest: a follower that lives goes on, and one that dies is followed.
LEMMA IngestFollows ==
  ASSUME NEW e, IsEngine(e), clock \in Nat, NEW lines, NEW death,
         e.following
  PROVE  SameQuestions(e, Ingest(e, lines, death)) /\ Followed(Ingest(e, lines, death))
<1> DEFINE taken == TakeLines(e, lines)
           all == [e EXCEPT !.heard = @ \/ lines # <<>>,
                            !.queue = taken.queue, !.deadlines = taken.deadlines]
<1>1. IsEngine(all) /\ all.questions = e.questions /\ all.following = e.following
  BY DEF IsEngine, EngineFields
<1>2. CASE death  BY <1>1, <1>2, OnDeadWaits DEF Ingest, SameQuestions, Followed
<1>3. CASE ~death  BY <1>1, <1>3 DEF Ingest, SameQuestions, Followed
<1> QED  BY <1>2, <1>3

\* Engine::follow: somebody follows, or his first read died and a re-follow waits.
LEMMA FollowFollows ==
  ASSUME NEW e, IsEngine(e), clock \in Nat, NEW precededBy, NEW death
  PROVE  SameQuestions(e, Follow(e, precededBy, death)) /\ Followed(Follow(e, precededBy, death))
<1> DEFINE opened == [e EXCEPT !.following = TRUE]
           read == Ingest(opened, <<>>, death)
<1>1. IsEngine(opened) /\ opened.questions = e.questions /\ opened.following
  BY DEF IsEngine, EngineFields
<1>2. SameQuestions(opened, read) /\ Followed(read)  BY <1>1, IngestFollows
<1> HIDE DEF read
<1>3. Follow(e, precededBy, death)
        = [read EXCEPT !.followedAt = clock, !.followedAfter = precededBy, !.heard = FALSE]
  BY DEF Follow, read
<1> QED  BY <1>1, <1>2, <1>3 DEF SameQuestions, Followed, IsEngine, EngineFields

\* Engine::arm_from_states touches what arms and its deadlines only.
LEMMA ArmingLeavesTheRest ==
  ASSUME NEW e, IsEngine(e), NEW rows
  PROVE  SameQuestions(e, ArmFromStates(e, rows)) /\ SameFollower(e, ArmFromStates(e, rows))
BY DEF ArmFromStates, ArmRows, IsEngine, EngineFields, SameQuestions, SameFollower

\* Engine::follow_again: it follows, or another re-follow waits.
LEMMA FollowAgainFollows ==
  ASSUME IsEngine(eng), clock \in Nat, NEW failed, NEW death, NEW rows
  PROVE  LET f == FollowAgain(failed, death, rows) IN SameQuestions(eng, f) /\ Followed(f)
<1> DEFINE quiet == [eng EXCEPT !.refollow = NoRefollow]
           follows == Follow(quiet, eng.refollow.wait, death)
<1>1. IsEngine(quiet) /\ quiet.questions = eng.questions
  BY DEF IsEngine, EngineFields
<1>2. CASE failed
  BY <1>1, <1>2, RefollowSoonWaits DEF FollowAgain, SameQuestions, Followed
<1>3. CASE ~failed
  <2>1. SameQuestions(quiet, follows) /\ Followed(follows)  BY <1>1, FollowFollows
  <2> HIDE DEF follows, quiet
  <2>2. /\ SameQuestions(follows, ArmFromStates(follows, rows))
        /\ SameFollower(follows, ArmFromStates(follows, rows))
    BY <2>1, ArmingLeavesTheRest DEF SameQuestions
  <2>3. FollowAgain(failed, death, rows) = ArmFromStates(follows, rows)
    BY <1>3 DEF FollowAgain, follows, quiet
  <2> QED  BY <1>1, <2>1, <2>2, <2>3 DEF SameQuestions, SameFollower, Followed
<1> QED  BY <1>2, <1>3

\* A job takes its own key's question back at the most, and nobody's follower.
LEMMA JobsLeaveTheFollower ==
  ASSUME IsEngine(eng), NEW l
  PROVE  LET e == Armed(Cancelled(Unasked(Rest, l), l), l) IN
         /\ IsEngine(e) /\ SameFollower(eng, e)
         /\ DOMAIN e.questions \subseteq DOMAIN eng.questions
         /\ Verdict(l.event).cancel => l.key \notin DOMAIN e.questions
<1> DEFINE rest == Rest
           unasked == Unasked(rest, l)
           cancelled == Cancelled(unasked, l)
           armed == Armed(cancelled, l)
<1>1. SameQuestions(eng, rest) /\ SameFollower(eng, rest)
  BY DEF Rest, IsEngine, EngineFields, SameQuestions, SameFollower
<1> HIDE DEF rest
<1>2. /\ IsEngine(unasked) /\ SameFollower(rest, unasked)
      /\ DOMAIN unasked.questions \subseteq DOMAIN rest.questions
      /\ Verdict(l.event).cancel => l.key \notin DOMAIN unasked.questions
  BY <1>1 DEF Unasked, Without, Restrict, IsEngine, EngineFields, SameFollower, SameQuestions
<1> HIDE DEF unasked
<1>3. SameQuestions(unasked, cancelled) /\ SameFollower(unasked, cancelled)
  BY <1>2 DEF Cancelled, IsEngine, EngineFields, SameFollower, SameQuestions
<1> HIDE DEF cancelled
<1>4. SameQuestions(cancelled, armed) /\ SameFollower(cancelled, armed)
  BY <1>3 DEF Armed, IsEngine, EngineFields, SameFollower, SameQuestions
<1>5. armed = Armed(Cancelled(Unasked(Rest, l), l), l)
  BY DEF cancelled, unasked, rest
<1> HIDE DEF armed
<1> QED  BY <1>1, <1>2, <1>3, <1>4, <1>5 DEF SameQuestions, SameFollower

-----------------------------------------------------------------------------
(* Each step keeps it *)

LEMMA EngineInvInit == Init => EngineInv
<1> SUFFICES ASSUME Init PROVE EngineInv  OBVIOUS
<1>1. clock \in Nat /\ IsEngine(eng)
  BY EngineAssumption DEF Init, IsEngine, EngineFields
<1>2. PostsBeforeTheStop  BY DEF Init, PostsBeforeTheStop
<1>3. QuestionsAreUp  BY DEF Init, QuestionsAreUp, NoQuestions
<1>4. FollowsOrWill  BY DEF Init, FollowsOrWill
<1> QED  BY <1>1, <1>2, <1>3, <1>4 DEF EngineInv

\* A step that leaves the questions and what is on screen alone, and the
\* posts, keeps the invariant if somebody follows or will.
LEMMA CallsOfTheLoop ==
  ASSUME EngineInv, SameQuestions(eng, eng'), Followed(eng'),
         UNCHANGED <<clock, up, stop, landed, inFront>>, ~bare',
         pc' # "post"
  PROVE  EngineInv'
<1>1. (clock \in Nat /\ IsEngine(eng))'  BY DEF EngineInv, SameQuestions, IsEngine
<1>2. PostsBeforeTheStop'  BY DEF EngineInv, PostsBeforeTheStop
<1>3. QuestionsAreUp'  BY DEF EngineInv, QuestionsAreUp, SameQuestions
<1>4. FollowsOrWill'  BY DEF FollowsOrWill, Followed
<1> QED  BY <1>1, <1>2, <1>3, <1>4 DEF EngineInv

LEMMA StartKeeps == ASSUME EngineInv, Start PROVE EngineInv'
<1> PICK death \in {FALSE, budget.deaths > 0},
         rows \in NewestFirst({k \in Key : Rearmable(eng, k)}) :
       eng' = ArmFromStates(Follow(eng, 0, death), rows)
  BY DEF Start
<1> DEFINE f == Follow(eng, 0, death)
<1>1. SameQuestions(eng, f) /\ Followed(f)  BY FollowFollows DEF EngineInv
<1> HIDE DEF f
<1>2. SameQuestions(f, eng') /\ SameFollower(f, eng')
  BY <1>1, ArmingLeavesTheRest DEF SameQuestions, f
<1>3. SameQuestions(eng, eng') /\ Followed(eng')
  BY <1>1, <1>2 DEF SameQuestions, SameFollower, Followed
<1> QED  BY <1>3, CallsOfTheLoop DEF past, Start, EngineInv, QuestionsAreUp

LEMMA WakeKeeps == ASSUME EngineInv, Wake PROVE EngineInv'
<1> PICK death \in {FALSE, budget.deaths > 0} : eng' = Sweep(Ingest(eng, feed, death))
  BY DEF Wake
<1> DEFINE f == Ingest(eng, feed, death)
<1>1. SameQuestions(eng, f) /\ Followed(f)  BY IngestFollows DEF EngineInv, Wake
<1> HIDE DEF f
<1>2. SameQuestions(f, eng') /\ SameFollower(f, eng')
  BY <1>1, SweepMovesDeadlines DEF SameQuestions, f
<1>3. SameQuestions(eng, eng') /\ Followed(eng')
  BY <1>1, <1>2 DEF SameQuestions, SameFollower, Followed
<1> QED  BY <1>3, CallsOfTheLoop DEF past, Wake, EngineInv, QuestionsAreUp

LEMMA TickKeeps == ASSUME EngineInv, Tick PROVE EngineInv'
<1>1. SameQuestions(eng, eng') /\ SameFollower(eng, eng')
  BY SweepMovesDeadlines DEF EngineInv, Tick
<1>2. Followed(eng')
  BY <1>1 DEF Tick, EngineInv, FollowsOrWill, SameFollower, Followed
<1> QED  BY <1>1, <1>2, CallsOfTheLoop DEF past, Tick, EngineInv, QuestionsAreUp

LEMMA RefollowsKeeps == ASSUME EngineInv, Refollows PROVE EngineInv'
<1> PICK failed \in {FALSE, budget.deaths > 0}, death \in {FALSE, budget.deaths > 0},
         rows \in NewestFirst({k \in Key : Rearmable(eng, k)}) :
       eng' = Sweep(FollowAgain(failed, death, rows))
  BY DEF Refollows
<1> DEFINE f == FollowAgain(failed, death, rows)
<1>1. SameQuestions(eng, f) /\ Followed(f)  BY FollowAgainFollows DEF EngineInv
<1> HIDE DEF f
<1>2. SameQuestions(f, eng') /\ SameFollower(f, eng')
  BY <1>1, SweepMovesDeadlines DEF SameQuestions, f
<1>3. SameQuestions(eng, eng') /\ Followed(eng')
  BY <1>1, <1>2 DEF SameQuestions, SameFollower, Followed
<1> QED  BY <1>3, CallsOfTheLoop DEF past, Refollows, EngineInv, QuestionsAreUp

LEMMA RunEndsKeeps == ASSUME EngineInv, RunEnds PROVE EngineInv'
<1>1. SameQuestions(eng, eng') /\ SameFollower(eng, eng')
  BY DEF EngineInv, RunEnds, IsEngine, EngineFields, SameQuestions, SameFollower
<1>2. Followed(eng')
  BY <1>1 DEF RunEnds, EngineInv, FollowsOrWill, SameFollower, Followed
<1> QED  BY <1>1, <1>2, CallsOfTheLoop DEF past, RunEnds, EngineInv, QuestionsAreUp

\* A prompt is held back for a question that is remembered, and so for one
\* whose notice is up or whose pane was in front.
LEMMA StepOverKeeps == ASSUME EngineInv, StepOver PROVE EngineInv'
<1> DEFINE l == Head(eng.queue).line
<1>1. SameQuestions(eng, eng') /\ SameFollower(eng, eng')
  BY DEF EngineInv, StepOver, Rest, IsEngine, EngineFields, SameQuestions, SameFollower
<1>2. bare' = (bare \/ (HeldBack(l) /\ l.key \notin up \cup inFront))  BY DEF StepOver
<1>3. HeldBack(l) => l.key \in up \cup inFront
  BY DEF HeldBack, EngineInv, QuestionsAreUp
<1>4. ~bare'
  <2>1. ~bare  BY DEF EngineInv, QuestionsAreUp
  <2> QED  BY <1>2, <1>3, <2>1
<1>5. Followed(eng')
  BY <1>1 DEF StepOver, TakesJob, EngineInv, FollowsOrWill, SameFollower, Followed
<1>6. pc' # "post"  BY DEF StepOver, TakesJob
<1> QED  BY <1>1, <1>4, <1>5, <1>6, CallsOfTheLoop DEF past, StepOver

\* An event that starts a post finds no stop, and takes the notice of its key
\* down with the question only.
LEMMA StepKeeps == ASSUME EngineInv, Step PROVE EngineInv'
<1> DEFINE l == Head(eng.queue).line
           v == Verdict(l.event)
<1>1. /\ IsEngine(eng') /\ SameFollower(eng, eng')
      /\ DOMAIN eng'.questions \subseteq DOMAIN eng.questions
      /\ v.cancel => l.key \notin DOMAIN eng'.questions
  <2>1. eng' = Armed(Cancelled(Unasked(Rest, l), l), l)  BY DEF Step
  <2> QED  BY <2>1, JobsLeaveTheFollower DEF EngineInv
<1>2. up' = IF v.withdraw THEN up \ {l.key} ELSE up  BY DEF Step
<1>3. v.withdraw = v.cancel  BY DEF Verdict
<1>4. PostsBeforeTheStop'
  BY DEF Step, TakesJob, EngineInv, PostsBeforeTheStop
<1>5. QuestionsAreUp'
  <2>1. ~bare'  BY DEF Step, EngineInv, QuestionsAreUp
  <2>2. DOMAIN eng.questions \subseteq up \cup inFront  BY DEF EngineInv, QuestionsAreUp
  <2>3. inFront' = inFront  BY DEF Step
  <2>4. DOMAIN eng'.questions \subseteq up' \cup inFront'
    BY <1>1, <1>2, <1>3, <2>2, <2>3
  <2> QED  BY <2>1, <2>4 DEF QuestionsAreUp
<1>6. FollowsOrWill'
  BY <1>1 DEF Step, TakesJob, EngineInv, FollowsOrWill, SameFollower
<1>7. (clock \in Nat)'  BY DEF Step, EngineInv
<1> QED  BY <1>1, <1>4, <1>5, <1>6, <1>7 DEF EngineInv

LEMMA DueKeeps == ASSUME EngineInv, Due PROVE EngineInv'
<1> DEFINE k == Head(eng.queue).key
<1>1. eng' \in {Rest, [Rest EXCEPT !.armedBy[k] = None]}  BY DEF Due
<1>2. SameQuestions(eng, eng') /\ SameFollower(eng, eng')
  BY <1>1 DEF EngineInv, Rest, IsEngine, EngineFields, SameQuestions, SameFollower
<1>3. PostsBeforeTheStop'
  BY DEF past, Due, TakesJob, EngineInv, PostsBeforeTheStop
<1>4. QuestionsAreUp'
  BY <1>2 DEF past, Due, EngineInv, QuestionsAreUp, SameQuestions
<1>5. FollowsOrWill'
  BY <1>2 DEF Due, TakesJob, EngineInv, FollowsOrWill, SameFollower
<1>6. (clock \in Nat)'  BY DEF Due, EngineInv
<1> QED  BY <1>2, <1>3, <1>4, <1>5, <1>6 DEF EngineInv, SameQuestions

\* The post in flight is the one that lands, and what it remembers of a
\* question it has shown.
LEMMA PostEndsKeeps == ASSUME EngineInv, PostEnds PROVE EngineInv'
<1> DEFINE k == posting.key
<1> PICK gone \in BOOLEAN, result \in {"shown", "dropped", "failed"} : Answered(k, gone, result)
  BY DEF PostEnds
<1> DEFINE answered == result # "failed" /\ ~(gone /\ posting.kind = "cache_expiring")
           shown == answered /\ result = "shown"
           dropped == answered /\ result # "shown"
           questions == Remembered(k, gone, shown)
<1>1. /\ eng' = [eng EXCEPT !.questions = questions,
                           !.warnedAt[k] = IF answered /\ posting.kind = "cache_expiring"
                                             THEN posting.at ELSE @]
      /\ up' = (IF shown THEN up \cup {k} ELSE IF dropped THEN up \ {k} ELSE up)
      /\ inFront' = (IF shown THEN inFront \ {k} ELSE IF dropped THEN inFront \cup {k} ELSE inFront)
  BY Zenon DEF Answered
<1>2. IsEngine(eng') /\ SameFollower(eng, eng') /\ eng'.questions = questions
  <2> HIDE DEF questions, answered
  <2> QED  BY <1>1 DEF EngineInv, IsEngine, EngineFields, SameFollower
<1>3. DOMAIN questions \subseteq up' \cup inFront'
  <2>1. DOMAIN eng.questions \subseteq up \cup inFront  BY DEF EngineInv, QuestionsAreUp
  <2>2. up \cup inFront \subseteq up' \cup inFront' /\ (shown => k \in up')
    <3> HIDE DEF answered
    <3> QED  BY <1>1
  <2>3. DOMAIN questions \subseteq DOMAIN eng.questions \cup (IF shown THEN {k} ELSE {})
    <3> HIDE DEF answered
    <3> QED  BY DEF Remembered, With, Without, Restrict
  <2> QED  BY <2>1, <2>2, <2>3
<1>4. PostsBeforeTheStop'
  BY DEF PostEnds, EngineInv, PostsBeforeTheStop
<1>5. QuestionsAreUp'
  <2>1. ~bare'  BY DEF PostEnds, EngineInv, QuestionsAreUp
  <2> QED  BY <1>2, <1>3, <2>1 DEF QuestionsAreUp
<1>6. FollowsOrWill'
  BY <1>2 DEF PostEnds, EngineInv, FollowsOrWill, SameFollower
<1>7. (clock \in Nat)'  BY DEF PostEnds, EngineInv
<1> QED  BY <1>2, <1>4, <1>5, <1>6, <1>7 DEF EngineInv

LEMMA StopEngineKeeps == ASSUME EngineInv, StopEngine PROVE EngineInv'
<1>1. IsEngine(eng') /\ eng'.questions = NoQuestions
  BY DEF EngineInv, StopEngine, IsEngine, EngineFields
<1>2. PostsBeforeTheStop'  BY DEF past, StopEngine, EngineInv, PostsBeforeTheStop
<1>3. QuestionsAreUp'
  BY <1>1 DEF past, StopEngine, EngineInv, QuestionsAreUp, NoQuestions
<1>4. FollowsOrWill'  BY DEF StopEngine, FollowsOrWill
<1>5. (clock \in Nat)'  BY DEF StopEngine, EngineInv
<1> QED  BY <1>1, <1>2, <1>3, <1>4, <1>5 DEF EngineInv

\* What the sessions, the clock, the options and the signal do.
LEMMA TheRestKeeps ==
  ASSUME EngineInv,
         \/ \E k \in Key : HookAppends(k) \/ ToolRuns(k) \/ HookPublishes(k)
         \/ StartFails \/ Reload \/ Signal \/ Advance \/ UNCHANGED vars
  PROVE  EngineInv'
<1>1. /\ clock' = clock \/ clock' = clock + 1
      /\ eng' = eng /\ up' = up /\ inFront' = inFront /\ landed' = landed
      /\ pc' = pc \/ pc' = "ended"
      /\ stop' = stop \/ landed = 0
  BY DEF HookAppends, ToolRuns, HookPublishes, StartFails, Reload, Signal, Advance, Idle, vars,
     world, past,
         EngineInv, PostsBeforeTheStop
<1>2. ~bare'
  BY DEF HookAppends, ToolRuns, HookPublishes, StartFails, Reload, Signal, Advance, vars, past, EngineInv,
         QuestionsAreUp
<1>3. PostsBeforeTheStop'  BY <1>1 DEF EngineInv, PostsBeforeTheStop
<1>4. QuestionsAreUp'  BY <1>1, <1>2 DEF EngineInv, QuestionsAreUp
<1>5. FollowsOrWill'  BY <1>1 DEF EngineInv, FollowsOrWill
<1>6. (clock \in Nat)'  BY <1>1 DEF EngineInv
<1> QED  BY <1>1, <1>3, <1>4, <1>5, <1>6 DEF EngineInv, IsEngine

LEMMA EngineInvStep == EngineInv /\ [Next]_vars => EngineInv'
<1> SUFFICES ASSUME EngineInv, [Next]_vars PROVE EngineInv'  OBVIOUS
<1>1. CASE LoopStep
  BY <1>1, StartKeeps, WakeKeeps, TickKeeps, RefollowsKeeps, StepOverKeeps, StepKeeps,
     DueKeeps, PostEndsKeeps, RunEndsKeeps, StopEngineKeeps DEF LoopStep
<1>2. CASE ~LoopStep  BY <1>2, TheRestKeeps DEF Next
<1> QED  BY <1>1, <1>2

\* The invariant of the engine, with everything it rests on.
THEOREM EngineKeepsItsWord == Spec => []EngineInv
BY EngineInvInit, EngineInvStep, PTL DEF Spec

-----------------------------------------------------------------------------
(* The properties of the run *)

\* For any number of sessions, deaths and options: after the stop one post
\* lands at the most, the one in flight (run of engine.rs).
THEOREM OneLandsAfterStopHolds == Spec => []OneLandsAfterStop
<1>1. EngineInv => OneLandsAfterStop
  BY DEF EngineInv, PostsBeforeTheStop, OneLandsAfterStop
<1> QED  BY <1>1, EngineKeepsItsWord, PTL

\* A permission prompt is held back only while the notice of its key is up or
\* its pane was in front, whatever answers, ends of turns, panes that are gone
\* and posts that fail come between (step and post of engine.rs).
THEOREM HeldBackForAQuestionHolds == Spec => []HeldBackForAQuestion
<1>1. EngineInv => HeldBackForAQuestion
  BY DEF EngineInv, QuestionsAreUp, HeldBackForAQuestion
<1> QED  BY <1>1, EngineKeepsItsWord, PTL

\* An engine nobody feeds has its re-follow waiting, after any sequence of
\* deaths, follows that fail and first reads that die (follow_again, on_dead).
THEOREM DeadIsFollowedAgainHolds == Spec => []DeadIsFollowedAgain
<1>1. EngineInv => DeadIsFollowedAgain
  BY DEF EngineInv, FollowsOrWill, DeadIsFollowedAgain
<1> QED  BY <1>1, EngineKeepsItsWord, PTL

-----------------------------------------------------------------------------
(* Lists that are kept in part *)

\* A set of numbers that is not empty has a least one.
LEMMA LeastNat == ASSUME NEW T, T \subseteq Nat, T # {} PROVE \E x \in T : \A y \in T : x <= y
<1>1. PICK x \in T : \A y \in T : ~(<<y, x>> \in OpToRel(<, Nat))
  BY WFMin, NatLessThanWellFounded
<1>2. \A y \in T : ~(y < x)  BY <1>1 DEF OpToRel
<1> QED  BY <1>2

\* Induction over the numbers, for a set: with 0 and each next number in it,
\* every number is.
LEMMA Counting ==
  ASSUME NEW S, 0 \in S, \A n \in Nat : n \in S => n + 1 \in S
  PROVE  \A n \in Nat : n \in S
<1> SUFFICES ASSUME Nat \ S # {} PROVE FALSE  OBVIOUS
<1>1. PICK x \in Nat \ S : \A y \in Nat \ S : x <= y  BY LeastNat
<1>2. x # 0 /\ x - 1 \in Nat  BY <1>1
<1>3. x - 1 \in S  BY <1>1, <1>2
<1> QED  BY <1>1, <1>2, <1>3

\* What At counts with: the places kept among the first n entries.
Upto(f, list, places, N) ==
  f = [n \in 0..N |-> IF n = 0 THEN <<>>
        ELSE IF n \in places THEN Append(f[n - 1], list[n]) ELSE f[n - 1]]

\* Such a function exists for every list, whatever is kept of it.
LEMMA UptoExists ==
  ASSUME NEW list, NEW places, NEW m \in Nat
  PROVE  \E f : Upto(f, list, places, m)
<1> DEFINE S == {n \in Nat : \E f : Upto(f, list, places, n)}
<1>1. 0 \in S
  <2> DEFINE f == [n \in 0..0 |-> <<>>]
  <2>1. Upto(f, list, places, 0)  BY DEF Upto
  <2> QED  BY <2>1
<1>2. ASSUME NEW n \in Nat, n \in S PROVE n + 1 \in S
  <2>1. PICK f : Upto(f, list, places, n)  BY <1>2
  <2> DEFINE next == IF n + 1 \in places THEN Append(f[n], list[n + 1]) ELSE f[n]
             g == [i \in 0..(n + 1) |-> IF i = n + 1 THEN next ELSE f[i]]
  <2>2. DOMAIN f = 0..n  BY <2>1 DEF Upto
  <2>3. \A i \in 0..n : f[i] =
            IF i = 0 THEN <<>>
            ELSE IF i \in places THEN Append(f[i - 1], list[i])
            ELSE f[i - 1]
    BY <2>1 DEF Upto
  <2>4. \A i \in 0..n : g[i] = f[i]  OBVIOUS
  <2>4a. g[n + 1] = next  OBVIOUS
  <2>6. DOMAIN g = 0..(n + 1)  OBVIOUS
  <2> HIDE DEF g
  <2>5. \A i \in 0..(n + 1) : g[i] =
            IF i = 0 THEN <<>>
            ELSE IF i \in places THEN Append(g[i - 1], list[i])
            ELSE g[i - 1]
    <3> TAKE i \in 0..(n + 1)
    <3>1. CASE i = n + 1
      <4>1. i - 1 = n /\ i - 1 \in 0..n /\ i # 0  BY <3>1
      <4> QED  BY <2>4, <2>4a, <3>1, <4>1
    <3>2. CASE i # n + 1
      <4>1. i \in 0..n /\ (i # 0 => i - 1 \in 0..n)  BY <3>2
      <4> QED  BY <2>3, <2>4, <4>1
    <3> QED  BY <3>1, <3>2
  <2>7. Upto(g, list, places, n + 1)
    <3>1. g = [i \in 0..(n + 1) |-> g[i]]  BY <2>6 DEF g
    <3> QED  BY <2>5, <3>1 DEF Upto
  <2> QED  BY <2>7
<1> HIDE DEF S
<1>3. m \in S  BY <1>1, <1>2, Counting
<1> QED  BY <1>3 DEF S

\* At is the value of that function at the end of the list.
LEMMA AtIs ==
  ASSUME NEW list, NEW places, Len(list) \in Nat
  PROVE  \E f : Upto(f, list, places, Len(list)) /\ At(list, places) = f[Len(list)]
<1> DEFINE f == CHOOSE f : Upto(f, list, places, Len(list))
<1>1. Upto(f, list, places, Len(list))  BY UptoExists
<1>2. At(list, places) = f[Len(list)]  BY DEF At, Upto
<1> QED  BY <1>1, <1>2

\* What is kept of a list: g says from which place each entry comes, each place
\* that is kept once.
Kept(S, list, places, n, kept) ==
  \E g \in [1..Len(kept) -> {p \in places : p <= n}] :
    /\ kept \in Seq(S)
    /\ \A i \in 1..Len(kept) : kept[i] = list[g[i]]
    /\ \A i, j \in 1..Len(kept) : g[i] = g[j] => i = j
    /\ \A p \in places : p <= n => \E i \in 1..Len(kept) : g[i] = p

\* At keeps the entries at its places, and each of them once.
LEMMA AtKeeps ==
  ASSUME NEW S, NEW list \in Seq(S), NEW places \in SUBSET (1..Len(list))
  PROVE  Kept(S, list, places, Len(list), At(list, places))
<1>0. /\ Len(list) \in Nat
      /\ \A p \in places : p \in Nat /\ p >= 1
OBVIOUS
<1>1. PICK f : Upto(f, list, places, Len(list)) /\ At(list, places) = f[Len(list)]
  BY <1>0, AtIs
<1>2. \A i \in 0..Len(list) : f[i] =
          IF i = 0 THEN <<>>
          ELSE IF i \in places THEN Append(f[i - 1], list[i])
          ELSE f[i - 1]
  BY <1>1 DEF Upto
<1> DEFINE T == {n \in Nat : n <= Len(list) => Kept(S, list, places, n, f[n])}
<1>3. 0 \in T
  <2>1. f[0] = <<>>  BY <1>0, <1>2
  <2>2. Len(f[0]) = 0 /\ f[0] \in Seq(S)  BY <2>1
  <2>3. \A p \in places : ~(p <= 0)  BY <1>0
  <2> DEFINE g == [i \in 1..0 |-> 1]
  <2>4. g \in [1..Len(f[0]) -> {p \in places : p <= 0}]  BY <2>2, <2>3
  <2>5. Kept(S, list, places, 0, f[0])  BY <2>2, <2>3, <2>4 DEF Kept
  <2> QED  BY <2>5
<1>4. ASSUME NEW n \in Nat, n \in T PROVE n + 1 \in T
  <2> SUFFICES ASSUME n + 1 <= Len(list) PROVE Kept(S, list, places, n + 1, f[n + 1])  OBVIOUS
  <2>1. Kept(S, list, places, n, f[n])  BY <1>0, <1>4
  <2>2. /\ n \in 0..Len(list) /\ n + 1 \in 0..Len(list) /\ n + 1 # 0 /\ (n + 1) - 1 = n
        /\ n + 1 \in 1..Len(list)
    BY <1>0
  <2>3. f[n + 1] = IF n + 1 \in places THEN Append(f[n], list[n + 1]) ELSE f[n]  BY <1>2, <2>2
  <2> DEFINE old == f[n]
             new == f[n + 1]
  <2>4. PICK g \in [1..Len(old) -> {p \in places : p <= n}] :
           /\ old \in Seq(S)
           /\ \A i \in 1..Len(old) : old[i] = list[g[i]]
           /\ \A i, j \in 1..Len(old) : g[i] = g[j] => i = j
           /\ \A p \in places : p <= n => \E i \in 1..Len(old) : g[i] = p
    BY <2>1 DEF Kept
  <2> HIDE DEF old, new
  <2>5. CASE n + 1 \notin places
    <3>1. new = old  BY <2>3, <2>5 DEF old, new
    <3>2. \A p \in places : p <= n + 1 <=> p <= n  BY <1>0, <2>5
    <3>3. {p \in places : p <= n + 1} = {p \in places : p <= n}  BY <3>2
    <3> QED  BY <2>4, <3>1, <3>2, <3>3 DEF Kept, new
  <2>6. CASE n + 1 \in places
    <3>1. new = Append(old, list[n + 1]) /\ list[n + 1] \in S  BY <2>2, <2>3, <2>6 DEF old, new
    <3>2. /\ new \in Seq(S) /\ Len(new) = Len(old) + 1 /\ Len(old) \in Nat
          /\ new[Len(old) + 1] = list[n + 1]
          /\ \A i \in 1..Len(old) : new[i] = old[i]
      BY <2>4, <3>1
    <3> DEFINE h == [i \in 1..Len(new) |-> IF i = Len(new) THEN n + 1 ELSE g[i]]
    <3>3. \A i \in 1..Len(old) : g[i] \in places /\ g[i] <= n /\ g[i] \in Nat  BY <1>0, <2>4
    <3>4. \A i \in 1..Len(new) : i = Len(new) \/ i \in 1..Len(old)  BY <3>2
    <3>5. h \in [1..Len(new) -> {p \in places : p <= n + 1}]  BY <2>6, <3>3, <3>4
    <3>6. \A i \in 1..Len(new) : new[i] = list[h[i]]  BY <2>4, <3>2, <3>4
    <3>7. \A i, j \in 1..Len(new) : h[i] = h[j] => i = j  BY <2>4, <3>3, <3>4
    <3>8. ASSUME NEW p \in places, p <= n + 1 PROVE \E i \in 1..Len(new) : h[i] = p
      <4>1. CASE p = n + 1  BY <3>2, <4>1
      <4>2. CASE p # n + 1
        <5>1. p <= n  BY <3>8, <4>2
        <5>2. PICK i \in 1..Len(old) : g[i] = p  BY <2>4, <5>1
        <5> QED  BY <3>2, <5>2
      <4> QED  BY <4>1, <4>2
    <3> HIDE DEF h
    <3> QED  BY <3>2, <3>5, <3>6, <3>7, <3>8 DEF Kept, new
  <2> QED  BY <2>5, <2>6
<1> HIDE DEF T
<1>5. Len(list) \in T  BY <1>0, <1>3, <1>4, Counting
<1> QED  BY <1>0, <1>1, <1>5 DEF T

-----------------------------------------------------------------------------
(* What a queue shows of another *)

\* What waits in the queue of the engine.
Job == [job : {"event"}, line : Line] \cup [job : {"due"}, key : Key, since : Time]

\* A job is an event or a deadline that came.
IsEvent(j) == j.job = "event"

\* A job that changes what the engine holds of a key: an idle ping does not.
Acts(j, k) == j.job = "event" /\ j.line.key = k /\ j.line.event # "ping"

\* A job tells what the key does now.
Told(p, k) == \E i \in 1..Len(p) : Acts(p[i], k)

\* The last thing the jobs tell of a key.
IsLast(p, k, i) == Acts(p[i], k) /\ \A j \in 1..Len(p) : j > i => ~Acts(p[j], k)

\* A deadline that has come by now.
Ripe(j) == ~IsEvent(j) /\ j.since + After <= clock

\* A queue shows another: its events stand in their order, the last of a key
\* is the last, and what it has besides is due.
Shows(p, q) ==
  /\ \A i, j \in 1..Len(q) : i < j /\ IsEvent(q[i]) /\ IsEvent(q[j]) =>
       \E m, n \in 1..Len(p) : m < n /\ p[m] = q[i] /\ p[n] = q[j]
  /\ \A k \in Key : \A i \in 1..Len(q) : IsLast(q, k, i) =>
       \E m \in 1..Len(p) : IsLast(p, k, m) /\ p[m] = q[i]
  /\ \A i \in 1..Len(q) : Ripe(q[i]) \/ \E m \in 1..Len(p) : p[m] = q[i]

\* No key of which something is told is left without.
ToldToo(p, q) == \A k \in Key : Told(p, k) => Told(q, k)

\* A queue shows itself.
LEMMA ShowsItself == ASSUME NEW p PROVE Shows(p, p) /\ ToldToo(p, p)
BY DEF Shows, ToldToo

\* What shows a queue shows what that one shows.
LEMMA ShowsOn ==
  ASSUME NEW p, NEW q, NEW r, Shows(p, q), Shows(q, r)
  PROVE  Shows(p, r)
<1>1. \A i, j \in 1..Len(r) : i < j /\ IsEvent(r[i]) /\ IsEvent(r[j]) =>
       \E m, n \in 1..Len(p) : m < n /\ p[m] = r[i] /\ p[n] = r[j]
  <2> TAKE i, j \in 1..Len(r)
  <2> HAVE i < j /\ IsEvent(r[i]) /\ IsEvent(r[j])
  <2>1. PICK m, n \in 1..Len(q) : m < n /\ q[m] = r[i] /\ q[n] = r[j]  BY DEF Shows
  <2>2. \E x, y \in 1..Len(p) : x < y /\ p[x] = q[m] /\ p[y] = q[n]  BY <2>1 DEF Shows
  <2> QED  BY <2>1, <2>2
<1>2. \A k \in Key : \A i \in 1..Len(r) : IsLast(r, k, i) =>
       \E m \in 1..Len(p) : IsLast(p, k, m) /\ p[m] = r[i]
  BY DEF Shows
<1>3. \A i \in 1..Len(r) : Ripe(r[i]) \/ \E m \in 1..Len(p) : p[m] = r[i]  BY DEF Shows
<1> QED  BY <1>1, <1>2, <1>3 DEF Shows

\* Where the entries of two joined lists stand.
LEMMA Joined ==
  ASSUME NEW S, NEW a \in Seq(S), NEW b \in Seq(S)
  PROVE  /\ a \o b \in Seq(S) /\ Len(a) \in Nat /\ Len(b) \in Nat
         /\ Len(a \o b) = Len(a) + Len(b)
         /\ \A i \in 1..Len(a) : (a \o b)[i] = a[i]
         /\ \A i \in 1..Len(b) : (a \o b)[Len(a) + i] = b[i]
OBVIOUS

\* A list may be joined to another by its first entry and then the others.
LEMMA JoinedByOne ==
  ASSUME NEW S, NEW a \in Seq(S), NEW b \in Seq(S), b # <<>>
  PROVE  a \o b = Append(a, b[1]) \o Tail(b)
OBVIOUS

\* Deadlines that came may stand between two parts of the queue (sweep).
LEMMA DuesBetween ==
  ASSUME NEW a \in Seq(Job), NEW b \in Seq(Job), NEW d \in Seq(Job),
         \A i \in 1..Len(d) : Ripe(d[i])
  PROVE  Shows(a \o b, a \o (d \o b)) /\ ToldToo(a \o b, a \o (d \o b))
<1> DEFINE p == a \o b
           q == a \o (d \o b)
           back(m) == IF m <= Len(a) THEN m ELSE m - Len(d)
           on(m) == IF m <= Len(a) THEN m ELSE m + Len(d)
<1>1. /\ Len(a) \in Nat /\ Len(b) \in Nat /\ Len(d) \in Nat
      /\ Len(p) = Len(a) + Len(b) /\ Len(q) = Len(a) + Len(d) + Len(b)
OBVIOUS
<1>2. \A m \in 1..Len(q) : m <= Len(a) \/ m > Len(a) + Len(d) =>
        back(m) \in 1..Len(p) /\ p[back(m)] = q[m]
  BY <1>1
<1>3. \A m \in 1..Len(q) : m > Len(a) /\ m <= Len(a) + Len(d) => Ripe(q[m])  BY <1>1
<1>4. \A m \in 1..Len(p) : on(m) \in 1..Len(q) /\ q[on(m)] = p[m]
  <2> TAKE m \in 1..Len(p)
  <2>1. CASE m <= Len(a)  BY <1>1, <2>1
  <2>2. CASE m > Len(a)
    <3> DEFINE n == m - Len(a)
    <3>1. n \in 1..Len(b) /\ m = Len(a) + n /\ Len(d) + n \in 1..(Len(d) + Len(b))
      BY <1>1, <2>2
    <3>2. p[m] = b[n]
      <4> HIDE DEF n
      <4> QED  BY <3>1, Joined
    <3>3. d \o b \in Seq(Job) /\ Len(d \o b) = Len(d) + Len(b) /\ (d \o b)[Len(d) + n] = b[n]
      <4> HIDE DEF n
      <4> QED  BY <3>1, Joined
    <3>4. q[Len(a) + (Len(d) + n)] = (d \o b)[Len(d) + n]
      <4> HIDE DEF n
      <4> QED  BY <3>1, <3>3, Joined
    <3>5. on(m) = Len(a) + (Len(d) + n) /\ on(m) \in 1..Len(q)  BY <1>1, <2>2
    <3> HIDE DEF on, n, p, q
    <3> QED  BY <3>2, <3>3, <3>4, <3>5
  <2> QED  BY <1>1, <2>1, <2>2
<1> HIDE DEF p, q
<1>5. \A m \in 1..Len(q) : IsEvent(q[m]) => m <= Len(a) \/ m > Len(a) + Len(d)
  BY <1>1, <1>3 DEF Ripe
<1>6. \A i, j \in 1..Len(q) : i < j /\ IsEvent(q[i]) /\ IsEvent(q[j]) =>
       \E m, n \in 1..Len(p) : m < n /\ p[m] = q[i] /\ p[n] = q[j]
  <2> TAKE i, j \in 1..Len(q)
  <2> HAVE i < j /\ IsEvent(q[i]) /\ IsEvent(q[j])
  <2>1. back(i) \in 1..Len(p) /\ p[back(i)] = q[i] /\ back(j) \in 1..Len(p) /\ p[back(j)] = q[j]
    BY <1>2, <1>5
  <2>2. back(i) < back(j)  BY <1>1, <1>5
  <2> QED  BY <2>1, <2>2
<1>7. ASSUME NEW k \in Key, NEW i \in 1..Len(q), IsLast(q, k, i)
      PROVE  \E m \in 1..Len(p) : IsLast(p, k, m) /\ p[m] = q[i]
  <2>1. IsEvent(q[i]) /\ back(i) \in 1..Len(p) /\ p[back(i)] = q[i]
    BY <1>2, <1>5, <1>7 DEF IsLast, Acts, IsEvent
  <2>2. ASSUME NEW j \in 1..Len(p), j > back(i) PROVE ~Acts(p[j], k)
    <3>1. on(j) \in 1..Len(q) /\ q[on(j)] = p[j]  BY <1>4
    <3>2. on(j) > i  BY <1>1, <1>5, <2>1, <2>2
    <3> QED  BY <1>7, <3>1, <3>2 DEF IsLast
  <2> QED  BY <1>7, <2>1, <2>2 DEF IsLast
<1>8. \A i \in 1..Len(q) : Ripe(q[i]) \/ \E m \in 1..Len(p) : p[m] = q[i]  BY <1>1, <1>2, <1>3
<1>9. Shows(p, q)  BY <1>6, <1>7, <1>8 DEF Shows
<1>10. ToldToo(p, q)  BY <1>4 DEF ToldToo, Told
<1> QED  BY <1>9, <1>10 DEF p, q

\* The queue without its first job shows, and tells all but what was the last
\* of its key.
LEMMA TailShows ==
  ASSUME NEW p \in Seq(Job), p # <<>>
  PROVE  /\ Shows(p, Tail(p))
         /\ \A k \in Key : Told(p, k) => Told(Tail(p), k) \/ IsLast(p, k, 1)
<1> DEFINE q == Tail(p)
<1>1. /\ Len(p) \in Nat /\ Len(q) = Len(p) - 1 /\ Len(p) >= 1
      /\ \A i \in 1..Len(q) : i + 1 \in 1..Len(p) /\ q[i] = p[i + 1]
OBVIOUS
<1>2. \A j \in 1..Len(p) : j > 1 => j - 1 \in 1..Len(q) /\ q[j - 1] = p[j]  BY <1>1
<1> HIDE DEF q
<1>3. \A i, j \in 1..Len(q) : i < j => \E m, n \in 1..Len(p) : m < n /\ p[m] = q[i] /\ p[n] = q[j]
  <2> TAKE i, j \in 1..Len(q)
  <2> HAVE i < j
  <2> i + 1 < j + 1  BY <1>1
  <2> QED  BY <1>1
<1>4. ASSUME NEW k \in Key, NEW i \in 1..Len(q), IsLast(q, k, i)
      PROVE  \E m \in 1..Len(p) : IsLast(p, k, m) /\ p[m] = q[i]
  <2>1. i + 1 \in 1..Len(p) /\ p[i + 1] = q[i]  BY <1>1
  <2>2. ASSUME NEW j \in 1..Len(p), j > i + 1 PROVE ~Acts(p[j], k)
    <3>1. j - 1 \in 1..Len(q) /\ q[j - 1] = p[j] /\ j - 1 > i  BY <1>1, <1>2, <2>2
    <3> QED  BY <1>4, <3>1 DEF IsLast
  <2> QED  BY <1>4, <2>1, <2>2 DEF IsLast
<1>5. Shows(p, q)  BY <1>1, <1>3, <1>4 DEF Shows
<1>6. ASSUME NEW k \in Key, Told(p, k) PROVE Told(q, k) \/ IsLast(p, k, 1)
  <2>1. CASE \E j \in 1..Len(p) : j > 1 /\ Acts(p[j], k)  BY <1>2, <2>1 DEF Told
  <2>2. CASE ~\E j \in 1..Len(p) : j > 1 /\ Acts(p[j], k)
    <3>1. PICK j \in 1..Len(p) : Acts(p[j], k)  BY <1>6 DEF Told
    <3>2. j = 1  BY <1>1, <2>2, <3>1
    <3> QED  BY <2>2, <3>1, <3>2 DEF IsLast
  <2> QED  BY <2>1, <2>2
<1> QED  BY <1>5, <1>6 DEF q

-----------------------------------------------------------------------------
(* The deadlines *)

\* The list of the deadlines: the time each is due, and no key twice.
IsWaiting(w) ==
  /\ w \in Seq([key : Key, since : Time, due : Int])
  /\ \A i \in 1..Len(w) : w[i].due = w[i].since + After
  /\ \A i, j \in 1..Len(w) : w[i].key = w[j].key => i = j

\* A key waits since a time.
Has(w, k, since) == \E i \in 1..Len(w) : w[i].key = k /\ w[i].since = since

\* What the entries of the list are.
LEMMA WaitingHas ==
  ASSUME NEW w, IsWaiting(w)
  PROVE  /\ Len(w) \in Nat
         /\ \A i \in 1..Len(w) : /\ w[i].key \in Key /\ w[i].since \in Time /\ w[i].due \in Int
                                 /\ w[i].due = w[i].since + After
<1> DEFINE S == [key : Key, since : Time, due : Int]
<1>1. w \in Seq(S) /\ \A i \in 1..Len(w) : w[i].due = w[i].since + After  BY DEF IsWaiting
<1>2. \A e \in S : e.key \in Key /\ e.since \in Time /\ e.due \in Int  OBVIOUS
<1> HIDE DEF S
<1>3. Len(w) \in Nat /\ \A i \in 1..Len(w) : w[i] \in S  BY <1>1
<1> QED  BY <1>1, <1>2, <1>3

\* The list at some of its places is one, with the entries of those places.
LEMMA AtWaits ==
  ASSUME NEW w, IsWaiting(w), NEW places \in SUBSET (1..Len(w))
  PROVE  /\ IsWaiting(At(w, places))
         /\ \A i \in 1..Len(At(w, places)) : \E p \in places : At(w, places)[i] = w[p]
         /\ \A p \in places : \E i \in 1..Len(At(w, places)) : At(w, places)[i] = w[p]
<1> DEFINE S == [key : Key, since : Time, due : Int]
           kept == At(w, places)
<1>1. /\ w \in Seq(S) /\ Len(w) \in Nat
      /\ \A i \in 1..Len(w) : w[i].due = w[i].since + After
      /\ \A i, j \in 1..Len(w) : w[i].key = w[j].key => i = j
  BY DEF IsWaiting
<1> HIDE DEF S
<1>2. Kept(S, w, places, Len(w), kept)  BY <1>1, AtKeeps
<1> HIDE DEF kept
<1>3. \A p \in places : p <= Len(w) /\ p \in 1..Len(w)  BY <1>1
<1>4. PICK g \in [1..Len(kept) -> {p \in places : p <= Len(w)}] :
           /\ kept \in Seq(S)
           /\ \A i \in 1..Len(kept) : kept[i] = w[g[i]]
           /\ \A i, j \in 1..Len(kept) : g[i] = g[j] => i = j
           /\ \A p \in places : p <= Len(w) => \E i \in 1..Len(kept) : g[i] = p
  BY <1>2 DEF Kept
<1>5. \A i \in 1..Len(kept) : g[i] \in places /\ g[i] \in 1..Len(w)  BY <1>3, <1>4
<1>6. \A i \in 1..Len(kept) : kept[i].due = kept[i].since + After  BY <1>1, <1>4, <1>5
<1>7. \A i, j \in 1..Len(kept) : kept[i].key = kept[j].key => i = j  BY <1>1, <1>4, <1>5
<1>8. \A p \in places : \E i \in 1..Len(kept) : kept[i] = w[p]  BY <1>3, <1>4
<1>9. IsWaiting(kept)  BY <1>4, <1>6, <1>7 DEF IsWaiting, S
<1>10. \A i \in 1..Len(kept) : \E p \in places : kept[i] = w[p]  BY <1>4, <1>5
<1> QED  BY <1>8, <1>9, <1>10 DEF kept

\* Deadlines::arm: the key waits since the time, and the others as they did.
LEMMA ArmDeadlineWaits ==
  ASSUME NEW w, IsWaiting(w), NEW k \in Key, NEW t \in Time
  PROVE  /\ IsWaiting(ArmDeadline(w, k, t))
         /\ Has(ArmDeadline(w, k, t), k, t)
         /\ \A o \in Key : \A s : o # k /\ Has(w, o, s) => Has(ArmDeadline(w, k, t), o, s)
<1> DEFINE new == [key |-> k, since |-> t, due |-> t + After]
           armed == ArmDeadline(w, k, t)
<1>1. /\ w \in Seq([key : Key, since : Time, due : Int]) /\ Len(w) \in Nat
      /\ new \in [key : Key, since : Time, due : Int]
  BY EngineAssumption DEF IsWaiting, Time
<1>2. CASE \E i \in 1..Len(w) : w[i].key = k
  <2>1. armed = [i \in 1..Len(w) |-> IF w[i].key = k THEN new ELSE w[i]]
    BY <1>2 DEF ArmDeadline
  <2>2. armed \in Seq([key : Key, since : Time, due : Int]) /\ Len(armed) = Len(w)
    <3> DEFINE S == [key : Key, since : Time, due : Int]
    <3>1. w \in Seq(S) /\ new \in S /\ Len(w) \in Nat  BY <1>1
    <3> HIDE DEF S, new
    <3>2. \A i \in 1..Len(w) : w[i] \in S  BY <3>1
    <3>3. [i \in 1..Len(w) |-> IF w[i].key = k THEN new ELSE w[i]] \in Seq(S)  BY <3>1, <3>2
    <3>4. armed \in Seq(S) /\ Len(armed) = Len(w)  BY <2>1, <3>1, <3>3
    <3> QED  BY <3>4 DEF S
  <2>3. \A i \in 1..Len(w) : armed[i] = IF w[i].key = k THEN new ELSE w[i]  BY <2>1
  <2> HIDE DEF armed
  <2>4. \A i \in 1..Len(w) : armed[i].key = w[i].key /\ armed[i].due = armed[i].since + After
    BY <2>3 DEF IsWaiting
  <2>5. IsWaiting(armed)  BY <2>2, <2>4 DEF IsWaiting
  <2>6. Has(armed, k, t)  BY <1>2, <2>2, <2>3 DEF Has
  <2>7. ASSUME NEW o \in Key, NEW s, o # k, Has(w, o, s) PROVE Has(armed, o, s)
    <3>1. PICK i \in 1..Len(w) : w[i].key = o /\ w[i].since = s  BY <2>7 DEF Has
    <3> QED  BY <2>2, <2>3, <2>7, <3>1 DEF Has
  <2> QED  BY <2>5, <2>6, <2>7 DEF armed
<1>3. CASE ~\E i \in 1..Len(w) : w[i].key = k
  <2>1. armed = Append(w, new)  BY <1>3 DEF ArmDeadline
  <2>2. /\ armed \in Seq([key : Key, since : Time, due : Int]) /\ Len(armed) = Len(w) + 1
        /\ armed[Len(w) + 1] = new /\ \A i \in 1..Len(w) : armed[i] = w[i]
    BY <1>1, <2>1
  <2> HIDE DEF armed
  <2>3. \A i \in 1..Len(armed) : i \in 1..Len(w) \/ i = Len(w) + 1  BY <1>1, <2>2
  <2> HIDE DEF new
  <2>a. new.key = k /\ new.due = new.since + After  BY DEF new
  <2>4. IsWaiting(armed)
    <3>1. /\ \A i \in 1..Len(w) : w[i].due = w[i].since + After
          /\ \A i, j \in 1..Len(w) : w[i].key = w[j].key => i = j
      BY DEF IsWaiting
    <3>2. \A i \in 1..Len(armed) : armed[i].due = armed[i].since + After
      BY <2>2, <2>3, <2>a, <3>1
    <3>3. \A i, j \in 1..Len(armed) : armed[i].key = armed[j].key => i = j
      BY <1>3, <2>2, <2>3, <2>a, <3>1
    <3> QED  BY <2>2, <3>2, <3>3 DEF IsWaiting
  <2>5. 1..Len(w) \subseteq 1..Len(armed) /\ Len(w) + 1 \in 1..Len(armed)  BY <1>1, <2>2
  <2>6. Has(armed, k, t) /\ \A o \in Key : \A s : o # k /\ Has(w, o, s) => Has(armed, o, s)
    BY <2>2, <2>5 DEF Has, new
  <2> QED  BY <2>4, <2>6 DEF armed
<1> QED  BY <1>2, <1>3

\* Deadlines::cancel leaves the other keys waiting.
LEMMA CancelWaits ==
  ASSUME NEW w, IsWaiting(w), NEW k \in Key
  PROVE  /\ IsWaiting(CancelDeadline(w, k))
         /\ \A o \in Key : \A s : o # k /\ Has(w, o, s) => Has(CancelDeadline(w, k), o, s)
<1> DEFINE places == {i \in 1..Len(w) : w[i].key # k}
<1>0. places \in SUBSET (1..Len(w))  OBVIOUS
<1>1. /\ IsWaiting(At(w, places))
      /\ \A p \in places : \E i \in 1..Len(At(w, places)) : At(w, places)[i] = w[p]
  BY <1>0, AtWaits
<1>2. CancelDeadline(w, k) = At(w, places)  BY DEF CancelDeadline
<1> QED  BY <1>1, <1>2 DEF Has

\* Deadlines::take_due: each waiting key is taken or goes on waiting.
LEMMA DueOrWaits ==
  ASSUME NEW w, IsWaiting(w), clock \in Nat
  PROVE  /\ IsWaiting(TakenDue(w)) /\ \A i \in 1..Len(TakenDue(w)) : TakenDue(w)[i].due <= clock
         /\ IsWaiting(StillWaiting(w))
         /\ \A k \in Key : \A s : Has(w, k, s) =>
              Has(TakenDue(w), k, s) \/ Has(StillWaiting(w), k, s)
<1> DEFINE now == {i \in 1..Len(w) : w[i].due <= clock}
           later == {i \in 1..Len(w) : w[i].due > clock}
           due == At(w, now)
           rest == At(w, later)
<1>0. now \in SUBSET (1..Len(w)) /\ later \in SUBSET (1..Len(w))  OBVIOUS
<1>1. due = TakenDue(w) /\ rest = StillWaiting(w)  BY DEF TakenDue, StillWaiting
<1>2. /\ IsWaiting(due) /\ \A p \in now : \E i \in 1..Len(due) : due[i] = w[p]
      /\ \A i \in 1..Len(due) : \E p \in now : due[i] = w[p]
  BY <1>0, AtWaits
<1>3. IsWaiting(rest) /\ \A p \in later : \E i \in 1..Len(rest) : rest[i] = w[p]
  BY <1>0, AtWaits
<1>4. \A i \in 1..Len(w) : i \in now \/ i \in later  BY WaitingHas
<1> HIDE DEF due, rest
<1>5. \A i \in 1..Len(due) : due[i].due <= clock  BY <1>2
<1> HIDE DEF now, later
<1>6. ASSUME NEW k \in Key, NEW s, Has(w, k, s) PROVE Has(due, k, s) \/ Has(rest, k, s)
  <2>1. PICK i \in 1..Len(w) : w[i].key = k /\ w[i].since = s  BY <1>6 DEF Has
  <2>2. CASE i \in now
    <3>1. PICK n \in 1..Len(due) : due[n] = w[i]  BY <1>2, <2>2
    <3> QED  BY <2>1, <3>1 DEF Has
  <2>3. CASE i \in later
    <3>1. PICK n \in 1..Len(rest) : rest[n] = w[i]  BY <1>3, <2>3
    <3> QED  BY <2>1, <3>1 DEF Has
  <2> QED  BY <1>4, <2>2, <2>3
<1> QED  BY <1>1, <1>2, <1>3, <1>5, <1>6

-----------------------------------------------------------------------------
(* What the operators of the engine do *)

\* The fields of the engine.
EngineOk(e) ==
  /\ DOMAIN e = EngineFields /\ e.after \in RefollowMin..RefollowMax
  /\ e.queue \in Seq(Job) /\ IsWaiting(e.deadlines)
  /\ e.armedBy \in [Key -> {None} \cup Time] /\ e.warnedAt \in [Key -> {None} \cup Time]
  /\ e.questions \in UNION {[asked -> Time] : asked \in SUBSET Key}
  /\ e.following \in BOOLEAN
  /\ e.following => e.refollow = NoRefollow

\* What armed a key has its deadline in the list or in the queue.
Waits(e, k, since) ==
  \/ Has(e.deadlines, k, since)
  \/ \E i \in 1..Len(e.queue) :
       e.queue[i].job = "due" /\ e.queue[i].key = k /\ e.queue[i].since = since

\* No deadline is forgotten from one engine to another.
KeepsWaits(e, f) == \A k \in Key : \A since : Waits(e, k, since) => Waits(f, k, since)

\* Two engines that hold the same of every key.
SameArms(e, f) ==
  f.armedBy = e.armedBy /\ f.warnedAt = e.warnedAt /\ f.questions = e.questions

\* Engine::sweep appends deadlines that came, and forgets none.
LEMMA SweepIs ==
  ASSUME NEW e, EngineOk(e), clock \in Nat
  PROVE  /\ EngineOk(Sweep(e)) /\ SameArms(e, Sweep(e)) /\ SameFollower(e, Sweep(e))
         /\ KeepsWaits(e, Sweep(e))
         /\ \E d \in Seq(Job) : /\ \A i \in 1..Len(d) : Ripe(d[i])
                                /\ Sweep(e).queue = e.queue \o d
<1> DEFINE due == TakenDue(e.deadlines)
           still == StillWaiting(e.deadlines)
           d == [i \in 1..Len(due) |-> [job |-> "due", key |-> due[i].key, since |-> due[i].since]]
           f == Sweep(e)
<1>1. f = [e EXCEPT !.queue = @ \o d, !.deadlines = still]  BY DEF Sweep
<1>2. /\ IsWaiting(due) /\ \A i \in 1..Len(due) : due[i].due <= clock
      /\ IsWaiting(still)
      /\ \A k \in Key : \A s : Has(e.deadlines, k, s) => Has(due, k, s) \/ Has(still, k, s)
  BY DueOrWaits DEF EngineOk
<1> HIDE DEF due, still
<1>3. /\ Len(due) \in Nat
      /\ \A i \in 1..Len(due) : /\ due[i].key \in Key /\ due[i].since \in Time
                                /\ due[i].due = due[i].since + After
  BY <1>2, WaitingHas
<1>4. d \in Seq(Job) /\ Len(d) = Len(due)
  <2>1. \A i \in 1..Len(due) : [job |-> "due", key |-> due[i].key, since |-> due[i].since] \in Job
    BY <1>3 DEF Job
  <2> HIDE DEF Job
  <2> QED  BY <1>3, <2>1
<1>5. \A i \in 1..Len(due) :
        d[i].job = "due" /\ d[i].key = due[i].key /\ d[i].since = due[i].since
OBVIOUS
<1> HIDE DEF d
<1>6. \A i \in 1..Len(d) : Ripe(d[i])  BY <1>2, <1>3, <1>4, <1>5 DEF Ripe, IsEvent
<1> HIDE DEF f
<1>7. /\ DOMAIN f = EngineFields /\ f.queue = e.queue \o d /\ f.deadlines = still
      /\ SameArms(e, f) /\ SameFollower(e, f) /\ f.after = e.after
  BY <1>1 DEF EngineOk, EngineFields, SameArms, SameFollower
<1>8. e.queue \in Seq(Job) /\ f.queue \in Seq(Job)  BY <1>4, <1>7 DEF EngineOk
<1>9. EngineOk(f)  BY <1>2, <1>7, <1>8 DEF EngineOk, SameArms, SameFollower
<1>10. ASSUME NEW k \in Key, NEW s, Waits(e, k, s) PROVE Waits(f, k, s)
  <2>1. CASE Has(e.deadlines, k, s)
    <3>1. CASE Has(still, k, s)  BY <1>7, <3>1 DEF Waits
    <3>2. CASE Has(due, k, s)
      <4>1. PICK i \in 1..Len(d) : d[i].job = "due" /\ d[i].key = k /\ d[i].since = s
        BY <1>4, <1>5, <3>2 DEF Has
      <4>2. Len(e.queue) + i \in 1..Len(f.queue) /\ f.queue[Len(e.queue) + i] = d[i]
        BY <1>4, <1>7, <1>8
      <4> QED  BY <4>1, <4>2 DEF Waits
    <3> QED  BY <1>2, <2>1, <3>1, <3>2
  <2>2. CASE ~Has(e.deadlines, k, s)
    <3>1. PICK i \in 1..Len(e.queue) :
            e.queue[i].job = "due" /\ e.queue[i].key = k /\ e.queue[i].since = s
      BY <1>10, <2>2 DEF Waits
    <3>2. i \in 1..Len(f.queue) /\ f.queue[i] = e.queue[i]  BY <1>4, <1>7, <1>8
    <3> QED  BY <3>1, <3>2 DEF Waits
  <2> QED  BY <2>1, <2>2
<1>11. KeepsWaits(e, f)  BY <1>10 DEF KeepsWaits
<1> QED  BY <1>4, <1>6, <1>7, <1>9, <1>11 DEF f

\* A line of the feed is a job.
LEMMA JobsAre ==
  ASSUME NEW lines \in Seq(Line)
  PROVE  /\ Jobs(lines) \in Seq(Job) /\ Len(Jobs(lines)) = Len(lines)
         /\ \A i \in 1..Len(lines) : Jobs(lines)[i] = [job |-> "event", line |-> lines[i]]
<1>1. Len(lines) \in Nat /\ \A i \in 1..Len(lines) : lines[i] \in Line  OBVIOUS
<1>2. \A i \in 1..Len(lines) : [job |-> "event", line |-> lines[i]] \in Job  BY <1>1 DEF Job
<1> HIDE DEF Job, Line
<1> QED  BY <1>1, <1>2 DEF Jobs

\* The lines of a read behind the queue, with the deadlines that are due.
LEMMA TakeLinesIs ==
  ASSUME NEW e, EngineOk(e), clock \in Nat, NEW lines \in Seq(Line)
  PROVE  LET f == TakeLines(e, lines) IN
         /\ EngineOk(f) /\ SameArms(e, f) /\ SameFollower(e, f) /\ KeepsWaits(e, f)
         /\ Shows(e.queue \o Jobs(lines), f.queue) /\ ToldToo(e.queue \o Jobs(lines), f.queue)
<1> DEFINE f == TakeLines(e, lines)
           js == Jobs(lines)
<1>1. e.queue \in Seq(Job) /\ js \in Seq(Job) /\ Len(js) = Len(lines)  BY JobsAre DEF EngineOk
<1>2. CASE lines = <<>>
  <2>1. f = e  BY <1>2 DEF TakeLines
  <2>2. js = <<>>  BY <1>1, <1>2
  <2>3. e.queue \o js = e.queue  BY <1>1, <2>2
  <2> HIDE DEF js
  <2> QED  BY <2>1, <2>3, ShowsItself DEF SameArms, SameFollower, KeepsWaits, js
<1>3. CASE lines # <<>>
  <2> DEFINE one == [e EXCEPT !.queue = Append(@, js[1])]
             first == Sweep(one)
             rest == Tail(js)
  <2>1. f = [first EXCEPT !.queue = @ \o rest]  BY <1>3 DEF TakeLines
  <2>2. js # <<>> /\ js[1] \in Job /\ rest \in Seq(Job)  BY <1>1, <1>3
  <2> HIDE DEF js
  <2>3. EngineOk(one) /\ one.queue = Append(e.queue, js[1]) /\ one.queue \in Seq(Job)
    BY <1>1, <2>2 DEF EngineOk, EngineFields
  <2>4. SameArms(e, one) /\ SameFollower(e, one) /\ one.deadlines = e.deadlines
    BY DEF EngineOk, EngineFields, SameArms, SameFollower
  <2> HIDE DEF one
  <2>5. /\ EngineOk(first) /\ SameArms(one, first) /\ SameFollower(one, first)
        /\ KeepsWaits(one, first)
    BY <2>3, SweepIs
  <2>6. PICK d \in Seq(Job) : /\ \A i \in 1..Len(d) : Ripe(d[i])
                              /\ first.queue = one.queue \o d
    BY <2>3, SweepIs
  <2> HIDE DEF first
  <2>7. first.queue \in Seq(Job)  BY <2>5 DEF EngineOk
  <2>8. /\ EngineOk(f) /\ SameArms(first, f) /\ SameFollower(first, f)
        /\ f.deadlines = first.deadlines /\ f.queue = first.queue \o rest /\ f.queue \in Seq(Job)
    <3>1. DOMAIN first = EngineFields  BY <2>5 DEF EngineOk
    <3>2. DOMAIN f = EngineFields /\ f.queue = first.queue \o rest
      BY <2>1, <3>1 DEF EngineFields
    <3>3. /\ f.deadlines = first.deadlines /\ f.armedBy = first.armedBy
          /\ f.warnedAt = first.warnedAt /\ f.questions = first.questions
          /\ f.following = first.following /\ f.refollow = first.refollow
          /\ f.after = first.after
      BY <2>1, <3>1 DEF EngineFields
    <3>4. first.queue \o rest \in Seq(Job)
      <4> HIDE DEF rest, Job
      <4> QED  BY <2>2, <2>7
    <3>5. f.queue \in Seq(Job)  BY <3>2, <3>4
    <3> HIDE DEF f, rest
    <3>6. EngineOk(f)  BY <2>5, <3>2, <3>3, <3>5 DEF EngineOk
    <3>7. SameArms(first, f)  BY <3>3 DEF SameArms
    <3>8. SameFollower(first, f)  BY <3>3 DEF SameFollower
    <3> QED  BY <3>2, <3>3, <3>5, <3>6, <3>7, <3>8
  <2> HIDE DEF f, rest
  <2>9. e.queue \o js = one.queue \o rest
    <3>1. \A a, b \in Seq(Job) : b # <<>> => a \o b = Append(a, b[1]) \o Tail(b)
      BY JoinedByOne
    <3>2. e.queue \o js = Append(e.queue, js[1]) \o Tail(js)  BY <1>1, <2>2, <3>1
    <3> QED  BY <2>3, <3>2 DEF rest
  <2>10. f.queue = one.queue \o (d \o rest)
    <3>1. \A a, b, c \in Seq(Job) : (a \o b) \o c = a \o (b \o c)
      <4> TAKE a, b, c \in Seq(Job)
      <4> HIDE DEF Job
      <4>1. Len(a) \in Nat /\ Len(b) \in Nat /\ Len(c) \in Nat  OBVIOUS
      <4>2. Len((a \o b) \o c) = Len(a \o (b \o c))  BY <4>1
      <4>3. \A i \in 1..Len((a \o b) \o c) : ((a \o b) \o c)[i] = (a \o (b \o c))[i]  BY <4>1
      <4>4. (a \o b) \o c \in Seq(Job) /\ a \o (b \o c) \in Seq(Job)  OBVIOUS
      <4> QED  BY <4>2, <4>3, <4>4, SeqEqual
    <3>2. (one.queue \o d) \o rest = one.queue \o (d \o rest)  BY <2>2, <2>3, <3>1
    <3> QED  BY <2>6, <2>8, <3>2
  <2>11. Shows(e.queue \o js, f.queue) /\ ToldToo(e.queue \o js, f.queue)
    BY <2>2, <2>3, <2>6, <2>9, <2>10, DuesBetween
  <2>12. KeepsWaits(e, f)
    <3>1. ASSUME NEW k \in Key, NEW s, Waits(e, k, s) PROVE Waits(one, k, s)
      <4>1. \A i \in 1..Len(e.queue) : i \in 1..Len(one.queue) /\ one.queue[i] = e.queue[i]
        BY <1>1, <2>2, <2>3
      <4> QED  BY <2>4, <3>1, <4>1 DEF Waits
    <3>2. ASSUME NEW k \in Key, NEW s, Waits(first, k, s) PROVE Waits(f, k, s)
      <4>1. \A i \in 1..Len(first.queue) : i \in 1..Len(f.queue) /\ f.queue[i] = first.queue[i]
        BY <2>2, <2>7, <2>8
      <4> QED  BY <2>8, <3>2, <4>1 DEF Waits
    <3> QED  BY <2>5, <3>1, <3>2 DEF KeepsWaits
  <2> QED  BY <2>4, <2>5, <2>8, <2>11, <2>12 DEF SameArms, SameFollower, f, js
<1> QED  BY <1>2, <1>3

\* Engine::refollow_soon touches the follower only.
LEMMA RefollowSoonIs ==
  ASSUME NEW e, EngineOk(e), ~e.following
  PROVE  LET f == RefollowSoon(e) IN
         /\ EngineOk(f) /\ SameArms(e, f) /\ ~f.following /\ f.queue = e.queue
         /\ f.deadlines = e.deadlines
<1> DEFINE f == RefollowSoon(e)
<1>1. /\ DOMAIN f = EngineFields /\ f.queue = e.queue /\ f.deadlines = e.deadlines
      /\ SameArms(e, f) /\ f.following = e.following /\ f.after \in RefollowMin..RefollowMax
  BY EngineAssumption DEF RefollowSoon, AtMost, EngineOk, EngineFields, SameArms
<1> HIDE DEF f
<1>2. EngineOk(f)  BY <1>1 DEF EngineOk, SameArms
<1> QED  BY <1>1, <1>2 DEF f

\* Engine::on_dead: nobody follows, and the rest is as it was.
LEMMA OnDeadIs ==
  ASSUME NEW e, EngineOk(e)
  PROVE  LET f == OnDead(e) IN
         /\ EngineOk(f) /\ SameArms(e, f) /\ ~f.following /\ f.queue = e.queue
         /\ f.deadlines = e.deadlines
<1> DEFINE d == [e EXCEPT !.following = FALSE, !.after = IF Proven(e) THEN RefollowMin ELSE @]
<1>1. /\ DOMAIN d = EngineFields /\ d.queue = e.queue /\ d.deadlines = e.deadlines
      /\ SameArms(e, d) /\ d.following = FALSE /\ d.after \in RefollowMin..RefollowMax
  BY EngineAssumption DEF EngineOk, EngineFields, SameArms
<1>2. OnDead(e) = RefollowSoon(d)  BY DEF OnDead
<1> HIDE DEF d
<1>3. EngineOk(d) /\ ~d.following  BY <1>1 DEF EngineOk, SameArms
<1>4. LET f == RefollowSoon(d) IN
      /\ EngineOk(f) /\ SameArms(d, f) /\ ~f.following /\ f.queue = d.queue
      /\ f.deadlines = d.deadlines
  BY <1>3, RefollowSoonIs
<1> QED  BY <1>1, <1>2, <1>4 DEF SameArms

\* Engine::ingest: the queue shows what was in it and the lines, and no deadline
\* is forgotten.
LEMMA IngestIs ==
  ASSUME NEW e, EngineOk(e), clock \in Nat, NEW lines \in Seq(Line), NEW death
  PROVE  LET f == Ingest(e, lines, death) IN
         /\ EngineOk(f) /\ SameArms(e, f) /\ KeepsWaits(e, f) /\ (f.following => e.following)
         /\ Shows(e.queue \o Jobs(lines), f.queue) /\ ToldToo(e.queue \o Jobs(lines), f.queue)
         /\ lines = <<>> => f.queue = e.queue /\ f.deadlines = e.deadlines
<1> DEFINE taken == TakeLines(e, lines)
           all == [e EXCEPT !.heard = @ \/ lines # <<>>,
                            !.queue = taken.queue, !.deadlines = taken.deadlines]
           f == Ingest(e, lines, death)
<1>1. /\ EngineOk(taken) /\ KeepsWaits(e, taken)
      /\ Shows(e.queue \o Jobs(lines), taken.queue) /\ ToldToo(e.queue \o Jobs(lines), taken.queue)
  BY TakeLinesIs
<1>2. lines = <<>> => taken = e  BY DEF TakeLines
<1> HIDE DEF taken
<1>3. /\ DOMAIN all = EngineFields /\ SameArms(e, all) /\ SameFollower(e, all)
      /\ all.after = e.after
      /\ all.queue = taken.queue /\ all.deadlines = taken.deadlines
  BY DEF EngineOk, EngineFields, SameArms, SameFollower
<1>4. f = IF death THEN OnDead(all) ELSE all  BY DEF Ingest, taken
<1> HIDE DEF all, f
<1>5. EngineOk(all)  BY <1>1, <1>3 DEF EngineOk, SameArms, SameFollower
<1>6. /\ EngineOk(f) /\ SameArms(all, f) /\ (f.following => e.following)
      /\ f.queue = all.queue /\ f.deadlines = all.deadlines
  <2>1. CASE death  BY <1>4, <1>5, <2>1, OnDeadIs
  <2>2. CASE ~death  BY <1>3, <1>4, <1>5, <2>2 DEF SameArms, SameFollower
  <2> QED  BY <2>1, <2>2
<1>7. KeepsWaits(e, f)  BY <1>1, <1>3, <1>6 DEF KeepsWaits, Waits
<1> QED  BY <1>1, <1>2, <1>3, <1>6, <1>7 DEF SameArms, f

\* Engine::follow reads nothing, dead or alive.
LEMMA FollowIs ==
  ASSUME NEW e, EngineOk(e), e.refollow = NoRefollow, clock \in Nat, NEW before, NEW death
  PROVE  LET f == Follow(e, before, death) IN
         EngineOk(f) /\ SameArms(e, f) /\ f.queue = e.queue /\ f.deadlines = e.deadlines
<1> DEFINE opened == [e EXCEPT !.following = TRUE]
           read == Ingest(opened, <<>>, death)
           f == Follow(e, before, death)
<1>1. /\ DOMAIN opened = EngineFields /\ SameArms(e, opened) /\ opened.refollow = NoRefollow
      /\ opened.queue = e.queue /\ opened.deadlines = e.deadlines /\ opened.after = e.after
      /\ opened.following = TRUE
  BY DEF EngineOk, EngineFields, SameArms
<1>2. f = [read EXCEPT !.followedAt = clock, !.followedAfter = before, !.heard = FALSE]
  BY DEF Follow
<1> HIDE DEF opened
<1>3. EngineOk(opened)  BY <1>1 DEF EngineOk, SameArms
<1>4. /\ EngineOk(read) /\ SameArms(opened, read)
      /\ read.queue = opened.queue /\ read.deadlines = opened.deadlines
  <2>1. <<>> \in Seq(Line)  OBVIOUS
  <2> QED  BY <1>3, <2>1, IngestIs
<1> HIDE DEF read
<1>5. /\ DOMAIN f = EngineFields /\ SameArms(read, f) /\ SameFollower(read, f)
      /\ f.queue = read.queue /\ f.deadlines = read.deadlines /\ f.after = read.after
  BY <1>2, <1>4 DEF EngineOk, EngineFields, SameArms, SameFollower
<1> HIDE DEF f
<1>6. EngineOk(f)  BY <1>4, <1>5 DEF EngineOk, SameArms, SameFollower
<1> QED  BY <1>1, <1>4, <1>5, <1>6 DEF SameArms, f

\* Arming from the rows of a set of keys: each of them waits since its row, and
\* the other keys as they did, whatever is listed of either.
LEMMA ArmRowsIs ==
  ASSUME NEW e, EngineOk(e), NEW K \in SUBSET Key, NEW rows \in NewestFirst(K),
         \A k \in K : row[k].at \in Time
  PROVE  LET f == ArmRows(e, rows) IN
         /\ EngineOk(f) /\ f.queue = e.queue /\ SameFollower(e, f)
         /\ f.warnedAt = e.warnedAt /\ f.questions = e.questions
         /\ \A k \in Key : f.armedBy[k] = IF k \in K THEN row[k].at ELSE e.armedBy[k]
         /\ \A k \in K : Has(f.deadlines, k, row[k].at)
         /\ \A k \in Key \ K : \A s : Has(e.deadlines, k, s) => Has(f.deadlines, k, s)
<1> DEFINE armed(k) == [key |-> k, since |-> row[k].at, due |-> row[k].at + After]
           w == e.deadlines
           waits(k) == \E i \in 1..Len(w) : w[i].key = k
           fresh == {i \in 1..Len(rows) : ~waits(rows[i])}
           new == At(rows, fresh)
           old == [i \in 1..Len(w) |-> IF w[i].key \in K THEN armed(w[i].key) ELSE w[i]]
           more == [i \in 1..Len(new) |-> armed(new[i])]
           f == ArmRows(e, rows)
           S == [key : Key, since : Time, due : Int]
<1>1. /\ Range(rows) = K /\ rows \in [1..Cardinality(K) -> K]
      /\ \A i, j \in 1..Cardinality(K) : i < j =>
           \/ row[rows[i]].at > row[rows[j]].at
           \/ row[rows[i]].at = row[rows[j]].at /\ rows[i] < rows[j]
  BY DEF NewestFirst
<1>2. Cardinality(K) \in Nat  BY EngineAssumption, FS_Subset, FS_CardinalityType
<1>3. rows \in Seq(K) /\ Len(rows) = Cardinality(K)  BY <1>1, <1>2
<1>4. \A i, j \in 1..Len(rows) : rows[i] = rows[j] => i = j
  <2>1. ASSUME NEW i \in 1..Len(rows), NEW j \in 1..Len(rows), i < j PROVE rows[i] # rows[j]
    <3>1. rows[i] \in K /\ rows[j] \in K  BY <1>1, <1>3
    <3>2. \A k \in K : k \in Nat /\ row[k].at \in Nat  BY EngineAssumption DEF Time
    <3> QED  BY <1>1, <1>3, <2>1, <3>1, <3>2
  <2> QED  BY <1>2, <1>3, <2>1
<1>5. Kept(K, rows, fresh, Len(rows), new)
  <2> HIDE DEF waits
  <2>1. fresh \in SUBSET (1..Len(rows))  OBVIOUS
  <2> HIDE DEF fresh
  <2> QED  BY <1>3, <2>1, AtKeeps
<1> HIDE DEF new
<1>6. PICK g \in [1..Len(new) -> {p \in fresh : p <= Len(rows)}] :
        /\ new \in Seq(K)
        /\ \A i \in 1..Len(new) : new[i] = rows[g[i]]
        /\ \A i, j \in 1..Len(new) : g[i] = g[j] => i = j
        /\ \A p \in fresh : p <= Len(rows) => \E i \in 1..Len(new) : g[i] = p
  BY <1>5 DEF Kept
<1>7. \A i \in 1..Len(new) : g[i] \in 1..Len(rows) /\ ~waits(rows[g[i]])
  <2> HIDE DEF waits
  <2> QED  BY <1>6
<1>8. /\ \A i \in 1..Len(new) : new[i] \in K /\ ~waits(new[i])
      /\ \A i, j \in 1..Len(new) : new[i] = new[j] => i = j
  <2> HIDE DEF waits, fresh
  <2>1. \A i \in 1..Len(new) : new[i] = rows[g[i]] /\ rows[g[i]] \in K  BY <1>1, <1>3, <1>6, <1>7
  <2>2. \A i, j \in 1..Len(new) : new[i] = new[j] => g[i] = g[j]  BY <1>4, <1>7, <2>1
  <2> QED  BY <1>6, <1>7, <2>1, <2>2
<1>9. \A k \in K : waits(k) \/ \E i \in 1..Len(new) : new[i] = k
  <2> HIDE DEF waits
  <2> TAKE k \in K
  <2> SUFFICES ASSUME ~waits(k) PROVE \E i \in 1..Len(new) : new[i] = k  OBVIOUS
  <2>1. PICK p \in 1..Len(rows) : rows[p] = k  BY <1>1, <1>3 DEF Range
  <2>2. p \in fresh /\ p <= Len(rows)  BY <1>2, <1>3, <2>1
  <2> HIDE DEF fresh
  <2> QED  BY <1>6, <2>1, <2>2
<1> HIDE DEF fresh
<1>10. /\ Len(w) \in Nat /\ w \in Seq(S)
       /\ \A i \in 1..Len(w) : /\ w[i].key \in Key /\ w[i].since \in Time /\ w[i].due \in Int
                               /\ w[i].due = w[i].since + After
       /\ \A i, j \in 1..Len(w) : w[i].key = w[j].key => i = j
  BY WaitingHas DEF EngineOk, IsWaiting
<1>11. \A k \in K : armed(k) \in S /\ armed(k).key = k /\ armed(k).since = row[k].at
                    /\ armed(k).due = armed(k).since + After
  BY EngineAssumption DEF Time
<1> HIDE DEF armed
<1>12. \A i \in 1..Len(w) : w[i] \in S
  <2> HIDE DEF S
  <2> QED  BY <1>10
<1>13. old \in Seq(S) /\ Len(old) = Len(w)
  <2> HIDE DEF S
  <2> QED  BY <1>10, <1>11, <1>12
<1>14. more \in Seq(S) /\ Len(more) = Len(new) /\ Len(new) \in Nat
  <2> HIDE DEF S
  <2>1. Len(new) \in Nat  BY <1>6
  <2> QED  BY <1>8, <1>11, <2>1
<1>15. /\ \A i \in 1..Len(w) : old[i] = IF w[i].key \in K THEN armed(w[i].key) ELSE w[i]
       /\ \A i \in 1..Len(new) : more[i] = armed(new[i])
OBVIOUS
<1>16. \A i \in 1..Len(w) : old[i].key = w[i].key /\ old[i].due = old[i].since + After
                           /\ (w[i].key \in K => old[i].since = row[w[i].key].at)
                           /\ (w[i].key \notin K => old[i] = w[i])
  BY <1>10, <1>11, <1>15
<1>17. \A i \in 1..Len(new) : more[i].key = new[i] /\ more[i].due = more[i].since + After
                             /\ more[i].since = row[new[i]].at
  BY <1>8, <1>11, <1>15
<1>18. f = [e EXCEPT !.armedBy = [k \in Key |-> IF k \in K THEN row[k].at ELSE e.armedBy[k]],
                     !.deadlines = old \o more]
  BY <1>1 DEF ArmRows, new, fresh, armed
<1> HIDE DEF old, more
<1> DEFINE both == old \o more
<1>19. /\ both \in Seq(S) /\ Len(both) = Len(w) + Len(new)
       /\ \A i \in 1..Len(w) : both[i] = old[i]
       /\ \A i \in 1..Len(new) : both[Len(w) + i] = more[i]
  <2> HIDE DEF S, w
  <2>0. old \in Seq(S) /\ more \in Seq(S)  BY <1>13, <1>14
  <2>1. \A a, b \in Seq(S) : /\ a \o b \in Seq(S) /\ Len(a \o b) = Len(a) + Len(b)
                             /\ \A i \in 1..Len(a) : (a \o b)[i] = a[i]
                             /\ \A i \in 1..Len(b) : (a \o b)[Len(a) + i] = b[i]
    BY Joined
  <2> HIDE DEF f, waits
  <2>2. /\ both \in Seq(S) /\ Len(both) = Len(old) + Len(more)
        /\ \A i \in 1..Len(old) : both[i] = old[i]
        /\ \A i \in 1..Len(more) : both[Len(old) + i] = more[i]
    BY <2>0, <2>1
  <2> QED  BY <1>13, <1>14, <2>2
<1>20. \A i \in 1..Len(both) :
         \/ i \in 1..Len(w) /\ both[i] = old[i]
         \/ \E j \in 1..Len(new) : i = Len(w) + j /\ both[i] = more[j]
  <2> TAKE i \in 1..Len(both)
  <2>1. i \in 1..Len(w) \/ (i - Len(w) \in 1..Len(new) /\ i = Len(w) + (i - Len(w)))
    BY <1>10, <1>14, <1>19
  <2> QED  BY <1>19, <2>1
<1> HIDE DEF both
<1>21. \A i \in 1..Len(both) : both[i].due = both[i].since + After
  <2> HIDE DEF w
  <2> TAKE i \in 1..Len(both)
  <2>1. CASE i \in 1..Len(w) /\ both[i] = old[i]  BY <1>16, <2>1
  <2>2. CASE \E j \in 1..Len(new) : i = Len(w) + j /\ both[i] = more[j]  BY <1>17, <2>2
  <2> QED  BY <1>20, <2>1, <2>2
<1>22. \A i \in 1..Len(w), j \in 1..Len(new) : old[i].key # more[j].key  BY <1>8, <1>16, <1>17
<1>23. \A i, j \in 1..Len(both) : both[i].key = both[j].key => i = j
  <2> TAKE i, j \in 1..Len(both)
  <2> HAVE both[i].key = both[j].key
  <2> HIDE DEF w
  <2>1. CASE i \in 1..Len(w) /\ both[i] = old[i] /\ j \in 1..Len(w) /\ both[j] = old[j]
    <3>1. w[i].key = w[j].key  BY <1>16, <2>1
    <3> QED  BY <1>10, <2>1, <3>1
  <2>2. CASE /\ i \in 1..Len(w) /\ both[i] = old[i]
             /\ \E n \in 1..Len(new) : j = Len(w) + n /\ both[j] = more[n]
    BY <1>22, <2>2
  <2>3. CASE /\ \E n \in 1..Len(new) : i = Len(w) + n /\ both[i] = more[n]
             /\ j \in 1..Len(w) /\ both[j] = old[j]
    BY <1>22, <2>3
  <2>4. CASE /\ \E n \in 1..Len(new) : i = Len(w) + n /\ both[i] = more[n]
             /\ \E n \in 1..Len(new) : j = Len(w) + n /\ both[j] = more[n]
    <3>1. PICK m, n \in 1..Len(new) : /\ i = Len(w) + m /\ both[i] = more[m]
                                      /\ j = Len(w) + n /\ both[j] = more[n]
      BY <2>4
    <3>2. new[m] = new[n]  BY <1>17, <3>1
    <3> QED  BY <1>8, <3>1, <3>2
  <2> QED  BY <1>20, <2>1, <2>2, <2>3, <2>4
<1>24. IsWaiting(both)  BY <1>19, <1>21, <1>23 DEF IsWaiting
<1>25. /\ 1..Len(w) \subseteq 1..Len(both)
       /\ \A j \in 1..Len(new) : Len(w) + j \in 1..Len(both)
  BY <1>10, <1>14, <1>19
<1>26. \A k \in K : Has(both, k, row[k].at)
  <2> TAKE k \in K
  <2>1. CASE waits(k)
    <3>1. PICK i \in 1..Len(w) : w[i].key = k  BY <2>1
    <3>2. old[i].key = k /\ old[i].since = row[k].at  BY <1>16, <3>1
    <3>3. i \in 1..Len(both) /\ both[i] = old[i]  BY <1>19, <1>25
    <3> QED  BY <3>2, <3>3 DEF Has
  <2>2. CASE ~waits(k)
    <3>1. PICK j \in 1..Len(new) : new[j] = k  BY <1>9, <2>2
    <3>2. Len(w) + j \in 1..Len(both) /\ both[Len(w) + j] = more[j]  BY <1>19, <1>25
    <3> QED  BY <1>17, <3>1, <3>2 DEF Has
  <2> QED  BY <2>1, <2>2
<1>27. ASSUME NEW k \in Key \ K, NEW s, Has(w, k, s) PROVE Has(both, k, s)
  <2>1. PICK i \in 1..Len(w) : w[i].key = k /\ w[i].since = s  BY <1>27 DEF Has
  <2>2. old[i] = w[i]  BY <1>16, <2>1
  <2>3. i \in 1..Len(both) /\ both[i] = old[i]  BY <1>19, <1>25
  <2> QED  BY <2>1, <2>2, <2>3 DEF Has
<1> HIDE DEF f
<1>28. /\ DOMAIN f = EngineFields /\ f.queue = e.queue /\ SameFollower(e, f) /\ f.after = e.after
       /\ f.warnedAt = e.warnedAt /\ f.questions = e.questions /\ f.deadlines = both
       /\ f.armedBy = [k \in Key |-> IF k \in K THEN row[k].at ELSE e.armedBy[k]]
  BY <1>18 DEF EngineOk, EngineFields, SameFollower, both
<1>29. f.armedBy \in [Key -> {None} \cup Time]  BY <1>28 DEF EngineOk
<1>30. EngineOk(f)  BY <1>24, <1>28, <1>29 DEF EngineOk, SameFollower
<1> QED  BY <1>26, <1>27, <1>28, <1>30 DEF f

\* No key is armed without its deadline.
Covered(e) == \A k \in Key : e.armedBy[k] # None => Waits(e, k, e.armedBy[k])

\* The rows have a time each.
RowsTyped == \A k \in Key : row[k].at \in Time

\* What arming from the rows of some keys does.
ArmsFrom(K, e, f) ==
  /\ f.warnedAt = e.warnedAt /\ f.questions = e.questions
  /\ \A k \in Key : f.armedBy[k] = e.armedBy[k] \/ (k \in K /\ f.armedBy[k] = row[k].at)
  /\ Covered(e) => Covered(f)

\* Engine::arm_from_states: it arms those keys, or none, the warning off.
LEMMA ArmFromStatesIs ==
  ASSUME NEW e, EngineOk(e), NEW K \in SUBSET Key, NEW rows \in NewestFirst(K), RowsTyped
  PROVE  LET f == ArmFromStates(e, rows) IN
         EngineOk(f) /\ f.queue = e.queue /\ SameFollower(e, f) /\ ArmsFrom(K, e, f)
<1> DEFINE f == ArmFromStates(e, rows)
<1>1. CASE ~options.cache  BY <1>1 DEF ArmFromStates, SameFollower, ArmsFrom
<1>2. CASE options.cache
  <2>1. f = ArmRows(e, rows)  BY <1>2 DEF ArmFromStates
  <2>2. /\ EngineOk(f) /\ f.queue = e.queue /\ SameFollower(e, f)
        /\ f.warnedAt = e.warnedAt /\ f.questions = e.questions
        /\ \A k \in Key : f.armedBy[k] = IF k \in K THEN row[k].at ELSE e.armedBy[k]
        /\ \A k \in K : Has(f.deadlines, k, row[k].at)
        /\ \A k \in Key \ K : \A s : Has(e.deadlines, k, s) => Has(f.deadlines, k, s)
    <3>1. \A k \in K : row[k].at \in Time  BY DEF RowsTyped
    <3> QED  BY <2>1, <3>1, ArmRowsIs
  <2> HIDE DEF f
  <2>3. ASSUME Covered(e), NEW k \in Key, f.armedBy[k] # None PROVE Waits(f, k, f.armedBy[k])
    <3>1. CASE k \in K  BY <2>2, <3>1 DEF Waits
    <3>2. CASE k \notin K  BY <2>2, <2>3, <3>2 DEF Waits, Covered
    <3> QED  BY <3>1, <3>2
  <2> QED  BY <2>2, <2>3 DEF ArmsFrom, Covered, f
<1> QED  BY <1>1, <1>2

\* Engine::follow_again: the follower, and what is armed from the rows.
LEMMA FollowAgainIs ==
  ASSUME EngineOk(eng), ~eng.following, clock \in Nat, NEW failed, NEW death,
         NEW K \in SUBSET Key, NEW rows \in NewestFirst(K), RowsTyped
  PROVE  LET f == FollowAgain(failed, death, rows) IN
         EngineOk(f) /\ f.queue = eng.queue /\ ArmsFrom(K, eng, f)
<1> DEFINE f == FollowAgain(failed, death, rows)
           quiet == [eng EXCEPT !.refollow = NoRefollow]
           followed == Follow(quiet, eng.refollow.wait, death)
<1>1. /\ DOMAIN quiet = EngineFields /\ SameArms(eng, quiet) /\ quiet.following = eng.following
      /\ quiet.queue = eng.queue /\ quiet.deadlines = eng.deadlines /\ quiet.after = eng.after
      /\ quiet.refollow = NoRefollow
  BY DEF EngineOk, EngineFields, SameArms
<1>2. f = IF failed THEN RefollowSoon(quiet) ELSE ArmFromStates(followed, rows)
  BY DEF FollowAgain
<1> HIDE DEF quiet
<1>3. EngineOk(quiet)  BY <1>1 DEF EngineOk, SameArms
<1>4. CASE failed
  <2>1. EngineOk(f) /\ SameArms(quiet, f) /\ f.queue = quiet.queue /\ f.deadlines = quiet.deadlines
    BY <1>1, <1>2, <1>3, <1>4, RefollowSoonIs
  <2> HIDE DEF f
  <2> QED  BY <1>1, <2>1 DEF SameArms, ArmsFrom, Covered, Waits, f
<1>5. CASE ~failed
  <2>1. /\ EngineOk(followed) /\ SameArms(quiet, followed)
        /\ followed.queue = quiet.queue /\ followed.deadlines = quiet.deadlines
    BY <1>1, <1>3, FollowIs
  <2> HIDE DEF followed
  <2>2. EngineOk(f) /\ f.queue = followed.queue /\ ArmsFrom(K, followed, f)
    BY <1>2, <1>5, <2>1, ArmFromStatesIs
  <2> HIDE DEF f
  <2>3. Covered(eng) => Covered(followed)  BY <1>1, <2>1 DEF SameArms, Covered, Waits
  <2> QED  BY <1>1, <2>1, <2>2, <2>3 DEF SameArms, ArmsFrom, f
<1> QED  BY <1>4, <1>5

\* What a key is armed by, and warned at, after an event.
ArmedBy(e, l) ==
  IF Verdict(l.event).cancel THEN None
  ELSE IF Verdict(l.event).arms /\ options.cache THEN l.at ELSE e.armedBy[l.key]

WarnedAt(e, l) ==
  IF Verdict(l.event).cancel \/ (Verdict(l.event).arms /\ options.cache) THEN None
  ELSE e.warnedAt[l.key]

\* A job that is taken is all the queue loses.
LEMMA RestIs ==
  ASSUME EngineOk(eng), eng.queue # <<>>
  PROVE  /\ EngineOk(Rest) /\ Rest.queue = Tail(eng.queue) /\ SameArms(eng, Rest)
         /\ SameFollower(eng, Rest) /\ Rest.deadlines = eng.deadlines
         /\ Head(eng.queue) \in Job
         /\ \A k \in Key : \A s : Waits(eng, k, s) => \/ Waits(Rest, k, s)
                                                      \/ /\ Head(eng.queue).job = "due"
                                                         /\ Head(eng.queue).key = k
                                                         /\ Head(eng.queue).since = s
<1> DEFINE q == eng.queue
<1>1. /\ Rest.queue = Tail(eng.queue) /\ SameArms(eng, Rest) /\ DOMAIN Rest = EngineFields
      /\ SameFollower(eng, Rest) /\ Rest.deadlines = eng.deadlines /\ Rest.after = eng.after
  BY DEF Rest, EngineOk, EngineFields, SameArms, SameFollower
<1>2. q \in Seq(Job)  BY DEF EngineOk
<1>3. /\ Tail(q) \in Seq(Job) /\ Head(q) = q[1] /\ q[1] \in Job /\ Len(q) \in Nat
      /\ \A i \in 1..Len(q) : i = 1 \/ (i - 1 \in 1..Len(Tail(q)) /\ Tail(q)[i - 1] = q[i])
  <2> HIDE DEF Job, q
  <2> QED  BY <1>2 DEF q
<1>4. EngineOk(Rest)  BY <1>1, <1>3 DEF EngineOk, SameArms, SameFollower
<1>5. ASSUME NEW k \in Key, NEW s, Waits(eng, k, s), ~Waits(Rest, k, s)
      PROVE  q[1].job = "due" /\ q[1].key = k /\ q[1].since = s
  <2>1. PICK i \in 1..Len(q) : q[i].job = "due" /\ q[i].key = k /\ q[i].since = s
    BY <1>1, <1>5 DEF Waits
  <2> QED  BY <1>1, <1>3, <1>5, <2>1 DEF Waits
<1> QED  BY <1>1, <1>3, <1>4, <1>5

\* What an event has done to an engine.
JobDone(l, e) ==
  /\ EngineOk(e) /\ SameFollower(eng, e) /\ e.queue = Tail(eng.queue)
  /\ e.armedBy = [eng.armedBy EXCEPT ![l.key] = ArmedBy(eng, l)]
  /\ e.warnedAt = [eng.warnedAt EXCEPT ![l.key] = WarnedAt(eng, l)]
  /\ DOMAIN e.questions \subseteq DOMAIN eng.questions
  /\ \A k \in DOMAIN e.questions : e.questions[k] = eng.questions[k]
  /\ Verdict(l.event).cancel => l.key \notin DOMAIN e.questions
  /\ Covered(eng) => Covered(e)

\* A function that is changed at one place.
LEMMA ExceptIn ==
  ASSUME NEW S, NEW T, NEW f \in [S -> T], NEW x \in S, NEW y \in T
  PROVE  [f EXCEPT ![x] = y] \in [S -> T]
OBVIOUS

\* A key's time that is forgotten.
LEMMA ClearedIn ==
  ASSUME NEW f \in [Key -> {None} \cup Time], NEW k \in Key
  PROVE  [f EXCEPT ![k] = None] \in [Key -> {None} \cup Time]
<1> DEFINE T == {None} \cup Time
<1>1. None \in T /\ f \in [Key -> T]  OBVIOUS
<1> HIDE DEF T
<1>2. [f EXCEPT ![k] = None] \in [Key -> T]  BY <1>1, ExceptIn
<1> QED  BY <1>2 DEF T

\* step: an event takes back its question, cancels and arms, and no other key
\* notices.
LEMMA JobIs ==
  ASSUME EngineOk(eng), eng.queue # <<>>, Head(eng.queue).job = "event",
         NEW l, l = Head(eng.queue).line,
         NEW e, e = Armed(Cancelled(Unasked(Rest, l), l), l)
  PROVE  JobDone(l, e)
<1> DEFINE v == Verdict(l.event)
<1>0. l \in Line /\ l.key \in Key /\ l.at \in Time
  <2>1. l \in Line  BY RestIs DEF Job
  <2> QED  BY <2>1 DEF Line
<1>r. PICK rest : rest = Rest  OBVIOUS
<1>1. /\ EngineOk(rest) /\ rest.queue = Tail(eng.queue) /\ SameArms(eng, rest)
      /\ SameFollower(eng, rest) /\ rest.deadlines = eng.deadlines
      /\ \A k \in Key : \A s : Waits(eng, k, s) => Waits(rest, k, s)
  BY <1>r, RestIs
<1>u. PICK unasked : unasked = Unasked(rest, l)  OBVIOUS
<1>2. /\ DOMAIN unasked = EngineFields /\ unasked.queue = rest.queue
      /\ unasked.deadlines = rest.deadlines /\ SameFollower(rest, unasked)
      /\ unasked.after = rest.after
      /\ unasked.armedBy = rest.armedBy /\ unasked.warnedAt = rest.warnedAt
      /\ unasked.questions = IF v.cancel \/ l.event = "stop" THEN Without(rest.questions, l.key)
                             ELSE rest.questions
  BY <1>1, <1>u DEF Unasked, EngineOk, EngineFields, SameFollower
<1>3. /\ unasked.questions \in UNION {[asked -> Time] : asked \in SUBSET Key}
      /\ DOMAIN unasked.questions \subseteq DOMAIN rest.questions
      /\ \A k \in DOMAIN unasked.questions : unasked.questions[k] = rest.questions[k]
      /\ v.cancel => l.key \notin DOMAIN unasked.questions
  <2>1. PICK asked \in SUBSET Key : rest.questions \in [asked -> Time]  BY <1>1 DEF EngineOk
  <2>2. CASE v.cancel \/ l.event = "stop"
    <3>1. unasked.questions = [k \in asked \ {l.key} |-> rest.questions[k]]
      BY <1>2, <2>1, <2>2 DEF Without, Restrict
    <3>2. unasked.questions \in [asked \ {l.key} -> Time]  BY <2>1, <3>1
    <3>3. asked \ {l.key} \in SUBSET Key  BY <2>1
    <3> QED  BY <2>1, <3>1, <3>2, <3>3
  <2>3. CASE ~(v.cancel \/ l.event = "stop")  BY <1>2, <2>1, <2>3
  <2> QED  BY <2>2, <2>3
<1>4. EngineOk(unasked)  BY <1>1, <1>2, <1>3 DEF EngineOk, SameFollower
<1>5. /\ unasked.queue = Tail(eng.queue) /\ SameFollower(eng, unasked)
      /\ unasked.armedBy = eng.armedBy /\ unasked.warnedAt = eng.warnedAt
      /\ DOMAIN unasked.questions \subseteq DOMAIN eng.questions
      /\ \A k \in DOMAIN unasked.questions : unasked.questions[k] = eng.questions[k]
      /\ \A k \in Key : \A s : Waits(eng, k, s) => Waits(unasked, k, s)
      /\ eng.armedBy \in [Key -> {None} \cup Time] /\ eng.warnedAt \in [Key -> {None} \cup Time]
  <2>1. \A k \in Key : \A s : Waits(eng, k, s) => Waits(unasked, k, s)
    BY <1>1, <1>2 DEF Waits
  <2>2. eng.armedBy \in [Key -> {None} \cup Time] /\ eng.warnedAt \in [Key -> {None} \cup Time]
    BY DEF EngineOk
  <2> QED  BY <1>1, <1>2, <1>3, <2>1, <2>2 DEF SameArms, SameFollower
<1>c. PICK cancelled : cancelled = Cancelled(unasked, l)  OBVIOUS
<1>d. e = Armed(cancelled, l)  BY <1>c, <1>u, <1>r
<1>6. CASE v.cancel
  <2>1. /\ DOMAIN cancelled = EngineFields /\ cancelled.queue = unasked.queue
        /\ cancelled.deadlines = CancelDeadline(unasked.deadlines, l.key)
        /\ SameFollower(unasked, cancelled) /\ cancelled.after = unasked.after
        /\ cancelled.armedBy = [eng.armedBy EXCEPT ![l.key] = None]
        /\ cancelled.warnedAt = [eng.warnedAt EXCEPT ![l.key] = None]
        /\ cancelled.questions = unasked.questions
    BY <1>4, <1>5, <1>6, <1>c DEF Cancelled, EngineOk, EngineFields, SameFollower
  <2>2. ~v.arms  BY <1>6 DEF Verdict, MovesOn
  <2>3. e = cancelled  BY <1>d, <2>2 DEF Armed
  <2>4. /\ IsWaiting(e.deadlines)
        /\ \A o \in Key : \A s : o # l.key /\ Has(unasked.deadlines, o, s) => Has(e.deadlines, o, s)
    BY <1>0, <1>4, <2>1, <2>3, CancelWaits DEF EngineOk
  <2>5. e.armedBy \in [Key -> {None} \cup Time] /\ e.warnedAt \in [Key -> {None} \cup Time]
    <3>1. /\ [eng.armedBy EXCEPT ![l.key] = None] \in [Key -> {None} \cup Time]
          /\ [eng.warnedAt EXCEPT ![l.key] = None] \in [Key -> {None} \cup Time]
      BY <1>0, <1>5, ClearedIn
    <3> QED  BY <2>1, <2>3, <3>1
  <2>6. EngineOk(e)  BY <1>4, <2>1, <2>3, <2>4, <2>5 DEF EngineOk, SameFollower
  <2>7. ASSUME Covered(eng), NEW k \in Key, e.armedBy[k] # None PROVE Waits(e, k, e.armedBy[k])
    <3>1. k # l.key /\ e.armedBy[k] = eng.armedBy[k]  BY <1>5, <2>1, <2>3, <2>7
    <3>2. Waits(unasked, k, eng.armedBy[k])  BY <1>5, <2>7, <3>1 DEF Covered
    <3>3. Has(unasked.deadlines, k, eng.armedBy[k]) => Has(e.deadlines, k, eng.armedBy[k])
      BY <2>4, <3>1
    <3>4. e.queue = unasked.queue  BY <2>1, <2>3
    <3> QED  BY <3>1, <3>2, <3>3, <3>4 DEF Waits
  <2>8. ArmedBy(eng, l) = None /\ WarnedAt(eng, l) = None  BY <1>6 DEF ArmedBy, WarnedAt
  <2>9. e.armedBy = [eng.armedBy EXCEPT ![l.key] = ArmedBy(eng, l)]
        /\ e.warnedAt = [eng.warnedAt EXCEPT ![l.key] = WarnedAt(eng, l)]
    BY <2>1, <2>3, <2>8
  <2>10. SameFollower(eng, e) /\ e.queue = Tail(eng.queue) /\ e.questions = unasked.questions
    BY <1>5, <2>1, <2>3 DEF SameFollower
  <2>11. Covered(eng) => Covered(e)  BY <2>7 DEF Covered
  <2>12. /\ DOMAIN e.questions \subseteq DOMAIN eng.questions
         /\ \A k \in DOMAIN e.questions : e.questions[k] = eng.questions[k]
         /\ l.key \notin DOMAIN e.questions
    <3>1. e.questions = unasked.questions /\ l.key \notin DOMAIN unasked.questions
      BY <1>3, <1>6, <2>10
    <3> QED  BY <1>5, <3>1
  <2> QED  BY <2>6, <2>9, <2>10, <2>11, <2>12 DEF JobDone
<1>7. CASE ~v.cancel /\ v.arms /\ options.cache
  <2>0. cancelled = unasked  BY <1>7, <1>c DEF Cancelled
  <2>1. /\ DOMAIN e = EngineFields /\ e.queue = unasked.queue
        /\ e.deadlines = ArmDeadline(unasked.deadlines, l.key, l.at)
        /\ SameFollower(unasked, e) /\ e.after = unasked.after
        /\ e.armedBy = [eng.armedBy EXCEPT ![l.key] = l.at]
        /\ e.warnedAt = [eng.warnedAt EXCEPT ![l.key] = None]
        /\ e.questions = unasked.questions
    <3>1. e = [unasked EXCEPT !.armedBy[l.key] = l.at, !.warnedAt[l.key] = None,
                              !.deadlines = ArmDeadline(@, l.key, l.at)]
      BY <1>7, <1>d, <2>0 DEF Armed
    <3>2. DOMAIN unasked = EngineFields  BY <1>4 DEF EngineOk
    <3>3. /\ DOMAIN e = EngineFields /\ e.queue = unasked.queue /\ e.after = unasked.after
          /\ e.deadlines = ArmDeadline(unasked.deadlines, l.key, l.at)
          /\ e.following = unasked.following /\ e.refollow = unasked.refollow
          /\ e.questions = unasked.questions
      BY <3>1, <3>2 DEF EngineFields
    <3>4. /\ e.armedBy = [unasked.armedBy EXCEPT ![l.key] = l.at]
          /\ e.warnedAt = [unasked.warnedAt EXCEPT ![l.key] = None]
      BY <3>1, <3>2 DEF EngineFields
    <3> QED  BY <1>5, <3>3, <3>4 DEF SameFollower
  <2>2. /\ IsWaiting(e.deadlines) /\ Has(e.deadlines, l.key, l.at)
        /\ \A o \in Key : \A s : o # l.key /\ Has(unasked.deadlines, o, s) => Has(e.deadlines, o, s)
    <3>1. IsWaiting(unasked.deadlines)  BY <1>4 DEF EngineOk
    <3>2. /\ IsWaiting(ArmDeadline(unasked.deadlines, l.key, l.at))
          /\ Has(ArmDeadline(unasked.deadlines, l.key, l.at), l.key, l.at)
          /\ \A o \in Key : \A s : o # l.key /\ Has(unasked.deadlines, o, s) =>
               Has(ArmDeadline(unasked.deadlines, l.key, l.at), o, s)
      BY <1>0, <3>1, ArmDeadlineWaits
    <3>3. e.deadlines = ArmDeadline(unasked.deadlines, l.key, l.at)  BY <2>1
    <3> QED  BY <3>2, <3>3
  <2>3. e.armedBy \in [Key -> {None} \cup Time] /\ e.warnedAt \in [Key -> {None} \cup Time]
    <3>1. l.at \in {None} \cup Time  BY <1>0
    <3>2. [eng.armedBy EXCEPT ![l.key] = l.at] \in [Key -> {None} \cup Time]
      <4> DEFINE T == {None} \cup Time
      <4>1. l.at \in T /\ eng.armedBy \in [Key -> T]  BY <1>5, <3>1
      <4> HIDE DEF T
      <4>2. [eng.armedBy EXCEPT ![l.key] = l.at] \in [Key -> T]  BY <1>0, <4>1, ExceptIn
      <4> QED  BY <4>2 DEF T
    <3>3. [eng.warnedAt EXCEPT ![l.key] = None] \in [Key -> {None} \cup Time]
      BY <1>0, <1>5, ClearedIn
    <3> QED  BY <2>1, <3>2, <3>3
  <2>4. EngineOk(e)  BY <1>4, <2>1, <2>2, <2>3 DEF EngineOk, SameFollower
  <2>5. ASSUME Covered(eng), NEW k \in Key, e.armedBy[k] # None PROVE Waits(e, k, e.armedBy[k])
    <3>1. CASE k = l.key  BY <1>0, <1>5, <2>1, <2>2, <3>1 DEF Waits
    <3>2. CASE k # l.key
      <4>1. e.armedBy[k] = eng.armedBy[k]  BY <1>5, <2>1, <3>2
      <4>2. Waits(unasked, k, eng.armedBy[k])  BY <1>5, <2>5, <4>1 DEF Covered
      <4>3. Has(unasked.deadlines, k, eng.armedBy[k]) => Has(e.deadlines, k, eng.armedBy[k])
        BY <2>2, <3>2
      <4>4. e.queue = unasked.queue  BY <2>1
      <4> QED  BY <4>1, <4>2, <4>3, <4>4 DEF Waits
    <3> QED  BY <3>1, <3>2
  <2>6. ArmedBy(eng, l) = l.at /\ WarnedAt(eng, l) = None  BY <1>7 DEF ArmedBy, WarnedAt
  <2>7. e.armedBy = [eng.armedBy EXCEPT ![l.key] = ArmedBy(eng, l)]
        /\ e.warnedAt = [eng.warnedAt EXCEPT ![l.key] = WarnedAt(eng, l)]
    BY <2>1, <2>6
  <2>8. SameFollower(eng, e) /\ e.queue = Tail(eng.queue) /\ e.questions = unasked.questions
    BY <1>5, <2>1 DEF SameFollower
  <2>9. Covered(eng) => Covered(e)  BY <2>5 DEF Covered
  <2>10. /\ DOMAIN e.questions \subseteq DOMAIN eng.questions
         /\ \A k \in DOMAIN e.questions : e.questions[k] = eng.questions[k]
    BY <1>5, <2>8
  <2> QED  BY <1>7, <2>4, <2>7, <2>8, <2>9, <2>10 DEF JobDone
<1>8. CASE ~v.cancel /\ ~(v.arms /\ options.cache)
  <2>1. e = unasked  BY <1>8, <1>c, <1>d DEF Cancelled, Armed
  <2>2. ArmedBy(eng, l) = eng.armedBy[l.key] /\ WarnedAt(eng, l) = eng.warnedAt[l.key]
    BY <1>8 DEF ArmedBy, WarnedAt
  <2>3. /\ e.armedBy = [eng.armedBy EXCEPT ![l.key] = ArmedBy(eng, l)]
        /\ e.warnedAt = [eng.warnedAt EXCEPT ![l.key] = WarnedAt(eng, l)]
    BY <1>5, <2>1, <2>2
  <2>4. Covered(eng) => Covered(e)  BY <1>5, <2>1 DEF Covered
  <2> QED  BY <1>4, <1>5, <1>8, <2>1, <2>3, <2>4 DEF JobDone
<1> QED  BY <1>6, <1>7, <1>8

-----------------------------------------------------------------------------
(* The invariant of what the engine waits for *)

\* What the engine has not looked at: its queue, and the feed behind it.
Pending == eng.queue \o Jobs(feed)

\* The rows as they are when the hooks have ended.
Rows == [k \in Key |-> IF hook[k] = NoRow THEN row[k] ELSE hook[k]]

\* What each session does as far as lines tell it: one that goes on without a
\* line is still blocked.
Modes == [k \in Key |-> IF k \in unheard /\ mode[k] = "working" THEN "blocked" ELSE mode[k]]

\* The keys of which nothing has been lost, or nothing since the follower came.
Sure == {k \in Key : eng.following \/ k \notin blurred}

\* A session that is at work: it wants nobody.
Turning == {"fresh", "working"}

Mode == {"none", "fresh", "working", "asking", "blocked", "done", "quiet"}

Row == [state : RowState, at : Time]

\* The states a row may be armed from; a line wrote such a row.
Waiting == {"done", "blocked", "question"}

Post == [key : Key, kind : Kind, event : Event \cup {"due"}, at : Time]

\* The last line of a key is of what its session does: a ping is no news.
Fits(l, m, r) ==
  /\ m \in {"done", "quiet"} => l.event = "stop"
  /\ m \in Turning => l.event \in {"start", "prompt", "answer"}
  /\ m # "quiet" /\ (r.state \in Waiting \/ m = "done") => l.at = r.at

\* The events that are pending are in the order of their times, none later than
\* its row, and the last of a key is what its session does.
LinesOk(p, modes, rows, sure) ==
  /\ \A i, j \in 1..Len(p) : i < j /\ IsEvent(p[i]) /\ IsEvent(p[j]) =>
       p[i].line.at <= p[j].line.at
  /\ \A i \in 1..Len(p) : IsEvent(p[i]) => p[i].line.at <= rows[p[i].line.key].at
  /\ \A k \in sure : \A i \in 1..Len(p) : IsLast(p, k, i) => Fits(p[i].line, modes[k], rows[k])

\* A deadline in the queue has come.
DuesOk(p, now) == \A i \in 1..Len(p) : ~IsEvent(p[i]) => p[i].since + After <= now

\* A session that works, with nothing pending of it, has no notice up, none in
\* flight and no deadline.
FreshOk(p, modes, ups, post, armed, keys) ==
  \A k \in keys : modes[k] \in Turning /\ ~Told(p, k) =>
    k \notin ups /\ post.key # k /\ armed[k] = None

\* No row is of the future, and that of a session at work says so.
RowsOk(modes, rows, now) ==
  \A k \in Key : /\ rows[k].at \in Nat /\ rows[k].at <= now
                 /\ modes[k] \in Turning => rows[k].state \in {"new", "working"}

\* The types, with the notice in flight during a post only.
Typed ==
  /\ clock \in Time /\ mode \in [Key -> Mode] /\ unheard \in SUBSET Key /\ row \in [Key -> Row]
  /\ hook \in [Key -> {NoRow} \cup Row] /\ feed \in Seq(Line)
  /\ EngineOk(eng) /\ options \in InForce
  /\ up \in SUBSET Key /\ blurred \in SUBSET Key /\ outdated \in SUBSET Key
  /\ inFront \in SUBSET Key
  /\ pc \in {"start", "wait", "run", "post", "ended"}
  /\ stop \in BOOLEAN /\ bare \in BOOLEAN
  /\ warned \in [Key -> Nat] /\ landed \in Nat
  /\ IF pc = "post" THEN posting \in Post ELSE posting = [key |-> None]

\* The queue is empty while the loop waits.
AtRest ==
  /\ pc \in {"start", "wait"} => eng.queue = <<>>
  /\ pc = "start" => /\ feed = <<>> /\ eng.refollow = NoRefollow /\ ~stop
                     /\ \A k \in Key : hook[k] = NoRow

\* What the pending lines tell, until the service stops.
Tells ==
  /\ ~eng.following => feed = <<>>
  /\ LinesOk(Pending, Modes, Rows, Sure)
  /\ DuesOk(Pending, clock)
  /\ FreshOk(Pending, Modes, up, posting, eng.armedBy, Key \ blurred)
  /\ Covered(eng)

\* The invariant: what is pending tells what each session does, and what the
\* engine holds of a key is of what the rest has told.
Sound == Typed /\ AtRest /\ RowsOk(Modes, Rows, clock) /\ (~stop => Tells)

-----------------------------------------------------------------------------
(* What the steps rest on *)

\* What the constants are.
LEMMA Basics ==
  /\ Time \subseteq Nat /\ None \notin Time /\ None \notin Key /\ After \in Nat \ {0}
  /\ \A o \in InForce : o.cache \in BOOLEAN /\ o.kinds \subseteq Kind
  /\ "none" \notin Kind
<1>1. InForce \subseteq [cache : BOOLEAN, kinds : SUBSET Kind]  BY EngineAssumption
<1>2. \A o \in InForce : o.cache \in BOOLEAN /\ o.kinds \subseteq Kind  BY <1>1
<1> QED  BY EngineAssumption, <1>2 DEF Time, None, Kind

\* A queue that shows another keeps its lines in order, for fewer keys too.
LEMMA LinesShow ==
  ASSUME NEW p, NEW q, NEW modes, NEW rows, NEW sure \in SUBSET Key, NEW less \in SUBSET sure,
         LinesOk(p, modes, rows, sure), Shows(p, q)
  PROVE  LinesOk(q, modes, rows, less)
<1>1. \A i, j \in 1..Len(q) : i < j /\ IsEvent(q[i]) /\ IsEvent(q[j]) =>
        q[i].line.at <= q[j].line.at
  <2> SUFFICES ASSUME NEW i \in 1..Len(q), NEW j \in 1..Len(q), i < j, IsEvent(q[i]), IsEvent(q[j])
               PROVE  q[i].line.at <= q[j].line.at
OBVIOUS
  <2>1. PICK m, n \in 1..Len(p) : m < n /\ p[m] = q[i] /\ p[n] = q[j]  BY DEF Shows
  <2> QED  BY <2>1 DEF LinesOk
<1>2. \A i \in 1..Len(q) : IsEvent(q[i]) => q[i].line.at <= rows[q[i].line.key].at
  <2> SUFFICES ASSUME NEW i \in 1..Len(q), IsEvent(q[i])
               PROVE  q[i].line.at <= rows[q[i].line.key].at
OBVIOUS
  <2>1. PICK m \in 1..Len(p) : p[m] = q[i]  BY DEF Shows, Ripe
  <2> QED  BY <2>1 DEF LinesOk
<1>3. ASSUME NEW k \in less, NEW i \in 1..Len(q), IsLast(q, k, i)
      PROVE  Fits(q[i].line, modes[k], rows[k])
  <2>1. PICK m \in 1..Len(p) : IsLast(p, k, m) /\ p[m] = q[i]  BY <1>3 DEF Shows
  <2> QED  BY <2>1 DEF LinesOk
<1> QED  BY <1>1, <1>2, <1>3 DEF LinesOk

\* A queue that shows another has no deadline that has not come.
LEMMA DuesShow ==
  ASSUME NEW p, NEW q, DuesOk(p, clock), Shows(p, q)
  PROVE  DuesOk(q, clock)
BY DEF DuesOk, Shows, Ripe

\* A queue that tells as much leaves the working sessions alone.
LEMMA FreshShow ==
  ASSUME NEW p, NEW q, NEW modes, NEW ups, NEW post, NEW armed, NEW more,
         NEW keys \in SUBSET Key, NEW less \in SUBSET keys,
         FreshOk(p, modes, ups, post, armed, keys), ToldToo(p, q),
         \A k \in less : modes[k] \in Turning => more[k] = armed[k]
  PROVE  FreshOk(q, modes, ups, post, more, less)
BY DEF FreshOk, ToldToo

\* Three queues, one behind the other.
LEMMA ConcatAssoc ==
  ASSUME NEW a \in Seq(Job), NEW b \in Seq(Job), NEW c \in Seq(Job)
  PROVE  (a \o b) \o c = a \o (b \o c)
<1> HIDE DEF Job
<1>1. Len(a) \in Nat /\ Len(b) \in Nat /\ Len(c) \in Nat  OBVIOUS
<1>2. Len((a \o b) \o c) = Len(a \o (b \o c))  BY <1>1
<1>3. \A i \in 1..Len((a \o b) \o c) : ((a \o b) \o c)[i] = (a \o (b \o c))[i]  BY <1>1
<1>4. (a \o b) \o c \in Seq(Job) /\ a \o (b \o c) \in Seq(Job)  OBVIOUS
<1> QED  BY <1>2, <1>3, <1>4, SeqEqual

\* A sweep with lines behind: the deadlines that came stand before them.
LEMMA SweepShows ==
  ASSUME NEW e, EngineOk(e), clock \in Nat, NEW lines \in Seq(Line)
  PROVE  /\ Shows(e.queue \o Jobs(lines), Sweep(e).queue \o Jobs(lines))
         /\ ToldToo(e.queue \o Jobs(lines), Sweep(e).queue \o Jobs(lines))
<1>1. PICK d \in Seq(Job) : (\A i \in 1..Len(d) : Ripe(d[i])) /\ Sweep(e).queue = e.queue \o d
  BY SweepIs
<1>2. e.queue \in Seq(Job) /\ Jobs(lines) \in Seq(Job)  BY JobsAre DEF EngineOk
<1>3. (e.queue \o d) \o Jobs(lines) = e.queue \o (d \o Jobs(lines))  BY <1>2, ConcatAssoc
<1> QED  BY <1>1, <1>2, <1>3, DuesBetween

\* No line is no job.
LEMMA NoJobs == Jobs(<<>>) = <<>>
BY DEF Jobs

\* Nothing behind the queue is the queue.
LEMMA NoLines == ASSUME NEW q \in Seq(Job) PROVE q \o Jobs(<<>>) = q
BY NoJobs

\* The first of what is pending is the first of the queue.
LEMMA PendingIs ==
  ASSUME EngineOk(eng), feed \in Seq(Line)
  PROVE  /\ Pending \in Seq(Job)
         /\ feed = <<>> => Pending = eng.queue
         /\ eng.queue # <<>> =>
              /\ Tail(eng.queue) \o Jobs(feed) = Tail(Pending)
              /\ Pending # <<>> /\ Pending[1] = Head(eng.queue) /\ Head(eng.queue) \in Job
<1>1. eng.queue \in Seq(Job) /\ Jobs(feed) \in Seq(Job)  BY JobsAre DEF EngineOk
<1>2. Pending \in Seq(Job)  BY <1>1 DEF Pending
<1>3. feed = <<>> => Pending = eng.queue  BY <1>1, NoLines DEF Pending
<1>4. ASSUME eng.queue # <<>>
      PROVE  /\ Tail(eng.queue) \o Jobs(feed) = Tail(Pending)
             /\ Pending # <<>> /\ Pending[1] = Head(eng.queue) /\ Head(eng.queue) \in Job
  <2> DEFINE q == eng.queue
             b == Jobs(feed)
  <2>0. q \in Seq(Job) /\ b \in Seq(Job) /\ q # <<>> /\ Pending = q \o b
    BY <1>1, <1>4 DEF Pending
  <2> HIDE DEF Job, q, b
  <2>1. Len(q) \in Nat /\ Len(q) >= 1 /\ Len(b) \in Nat  BY <2>0
  <2>2. Len(Pending) = Len(q) + Len(b) /\ \A i \in 1..Len(q) : Pending[i] = q[i]  BY <2>0
  <2>3. Pending # <<>> /\ Pending[1] = Head(q) /\ Head(q) \in Job  BY <2>0, <2>1, <2>2
  <2>4. Tail(q) \o b \in Seq(Job) /\ Tail(Pending) \in Seq(Job)  BY <2>0, <2>3, <1>2
  <2>5. Len(Tail(q) \o b) = Len(Tail(Pending))  BY <2>0, <2>1, <2>2, <2>3, <1>2
  <2>6. \A i \in 1..Len(Tail(q) \o b) : (Tail(q) \o b)[i] = Tail(Pending)[i]
    BY <2>0, <2>1, <2>2, <2>3, <1>2
  <2>7. Tail(q) \o b = Tail(Pending)  BY <2>4, <2>5, <2>6, SeqEqual
  <2> QED  BY <2>3, <2>7 DEF q, b
<1> QED  BY <1>2, <1>3, <1>4

-----------------------------------------------------------------------------
(* The calls of the loop keep it *)

\* What a call of the loop leaves alone.
CallLeaves ==
  UNCHANGED <<clock, mode, unheard, row, hook, options, up, posting, stop, warned, outdated, inFront,
              landed, bare>>

\* What a call of the loop does: the queue shows what was pending, no deadline
\* is forgotten, and what it arms is of a row that is published.
CallDone ==
  /\ CallLeaves /\ ~stop /\ EngineOk(eng') /\ Covered(eng')
  /\ blurred' \in SUBSET Key /\ blurred \subseteq blurred'
  /\ feed' \in Seq(Line) /\ (~eng'.following => feed' = <<>>)
  /\ pc \in {"start", "wait"} /\ (pc' = "run" \/ (pc' = "wait" /\ eng'.queue = <<>>))
  /\ Shows(Pending, Pending') /\ ToldToo(Pending, Pending')
  /\ (eng'.following => eng.following) \/ Pending = <<>>
  /\ eng'.warnedAt = eng.warnedAt /\ eng'.questions = eng.questions
  /\ \A k \in Key \ blurred' :
       \/ eng'.armedBy[k] = eng.armedBy[k]
       \/ /\ eng'.armedBy[k] = row[k].at
          /\ Pending = <<>> /\ hook[k] = NoRow /\ Rearmable(eng, k)

\* The row of a session at work arms nothing.
LEMMA TurningIsNotRearmed ==
  ASSUME Sound, NEW e, NEW k \in Key, Modes[k] \in Turning, hook[k] = NoRow
  PROVE  ~Rearmable(e, k)
<1>1. Rows[k] = row[k]  BY DEF Rows
<1>2. row[k].state \in {"new", "working"}  BY <1>1 DEF Sound, RowsOk
<1> QED  BY <1>2 DEF Rearmable

\* Such a call keeps the invariant.
LEMMA LoopCalls ==
  ASSUME Sound, CallDone
  PROVE  Sound'
<1> PICK q : q = Pending'  OBVIOUS
<1>0. /\ CallLeaves /\ ~stop /\ EngineOk(eng') /\ Covered(eng')
      /\ blurred' \in SUBSET Key /\ blurred \subseteq blurred'
      /\ feed' \in Seq(Line) /\ (~eng'.following => feed' = <<>>)
      /\ pc \in {"start", "wait"} /\ (pc' = "run" \/ (pc' = "wait" /\ eng'.queue = <<>>))
      /\ Pending' = q /\ Shows(Pending, q) /\ ToldToo(Pending, q)
      /\ (eng'.following => eng.following) \/ Pending = <<>>
  BY DEF CallDone
<1>t. \A k \in Key \ blurred' : Modes[k] \in Turning => eng'.armedBy[k] = eng.armedBy[k]
  BY TurningIsNotRearmed DEF CallDone
<1>1. /\ Rows' = Rows /\ Modes' = Modes
      /\ UNCHANGED <<clock, mode, unheard, row, hook, options, up, posting, stop>>
  BY <1>0 DEF Rows, Modes, CallLeaves
<1>3. Typed'
  <2>1. pc # "post" /\ pc' # "post" /\ pc' \in {"start", "wait", "run", "post", "ended"}
    BY <1>0
  <2>2. posting' = [key |-> None]  BY <1>0, <1>1, <2>1 DEF Sound, Typed
  <2> QED  BY <1>0, <2>1, <2>2 DEF Sound, Typed, CallLeaves
<1>4. AtRest'  BY <1>0 DEF AtRest
<1>5. (RowsOk(Modes, Rows, clock))'  BY <1>0, <1>1 DEF Sound, RowsOk
<1>7. Tells  BY <1>0 DEF Sound
<1>8. LinesOk(Pending, Modes, Rows, Sure')
  <2>1. CASE eng'.following => eng.following
    <3>1. Sure' \in SUBSET Sure /\ Sure \in SUBSET Key  BY <1>0, <2>1 DEF Sure
    <3> QED  BY <1>0, <1>7, <3>1, LinesShow, ShowsItself DEF Tells
  <2>2. CASE Pending = <<>>  BY <2>2 DEF LinesOk
  <2> QED  BY <1>0, <2>1, <2>2
<1>9. LinesOk(q, Modes, Rows, Sure')
  <2>1. Sure' \in SUBSET Key /\ Sure' \in SUBSET Sure'  BY DEF Sure
  <2> QED  BY <1>0, <1>8, <2>1, LinesShow
<1>10. (LinesOk(Pending, Modes, Rows, Sure))'  BY <1>0, <1>1, <1>9 DEF LinesOk
<1>11. (DuesOk(Pending, clock))'
  <2>1. DuesOk(q, clock)  BY <1>0, <1>7, DuesShow DEF Tells
  <2> QED  BY <1>0, <1>1, <2>1 DEF DuesOk
<1>12. (FreshOk(Pending, Modes, up, posting, eng.armedBy, Key \ blurred))'
  <2>1. Key \ blurred' \in SUBSET (Key \ blurred) /\ Key \ blurred \in SUBSET Key  BY <1>0
  <2>2. FreshOk(q, Modes, up, posting, eng'.armedBy, Key \ blurred')
    BY <1>0, <1>7, <1>t, <2>1, FreshShow DEF Tells
  <2> QED  BY <1>0, <1>1, <2>2 DEF FreshOk
<1>13. (~eng.following => feed = <<>>)'  BY <1>0
<1> QED  BY <1>0, <1>3, <1>4, <1>5, <1>10, <1>11, <1>12, <1>13 DEF Sound, Tells, Covered, Waits

\* wake is such a call: the feed goes to the queue.
LEMMA WakeCalls == ASSUME Sound, Wake PROVE CallDone
<1> PICK death \in {FALSE, budget.deaths > 0} : eng' = Sweep(Ingest(eng, feed, death))
  BY DEF Wake
<1>1. /\ EngineOk(eng) /\ clock \in Nat /\ feed \in Seq(Line) /\ ~stop /\ Tells
      /\ pc = "wait" /\ pc' = "run" /\ feed' = <<>> /\ eng.following
      /\ blurred' = blurred /\ blurred \in SUBSET Key
  BY Basics DEF Wake, Sound, Typed, world
<1>2. PICK f : f = Ingest(eng, feed, death)  OBVIOUS
<1>3. /\ EngineOk(f) /\ SameArms(eng, f) /\ KeepsWaits(eng, f)
      /\ Shows(Pending, f.queue) /\ ToldToo(Pending, f.queue)
  BY <1>1, <1>2, IngestIs DEF Pending
<1>4. eng' = Sweep(f)  BY <1>2
<1>5. /\ EngineOk(eng') /\ SameArms(f, eng') /\ KeepsWaits(f, eng')
  BY <1>1, <1>3, <1>4, SweepIs
<1>6. Shows(f.queue, eng'.queue) /\ ToldToo(f.queue, eng'.queue)
  <2>1. <<>> \in Seq(Line) /\ f.queue \in Seq(Job) /\ eng'.queue \in Seq(Job)
    BY <1>3, <1>5 DEF EngineOk
  <2>2. /\ Shows(f.queue \o Jobs(<<>>), Sweep(f).queue \o Jobs(<<>>))
        /\ ToldToo(f.queue \o Jobs(<<>>), Sweep(f).queue \o Jobs(<<>>))
    BY <1>1, <1>3, <2>1, SweepShows
  <2> QED  BY <1>4, <2>1, <2>2, NoLines
<1>7. Shows(Pending, eng'.queue)  BY <1>3, <1>6, ShowsOn
<1>8. ToldToo(Pending, eng'.queue)  BY <1>3, <1>6 DEF ToldToo
<1>9. Covered(eng')  BY <1>1, <1>3, <1>5 DEF Tells, Covered, SameArms, KeepsWaits
<1>10. CallLeaves  BY DEF Wake, CallLeaves, world, past
<1>11. SameArms(eng, eng')  BY <1>3, <1>5 DEF SameArms
<1>12. Pending' = eng'.queue /\ feed' \in Seq(Line)
  BY <1>1, <1>5, NoLines DEF Pending, EngineOk
<1> QED  BY <1>1, <1>5, <1>7, <1>8, <1>9, <1>10, <1>11, <1>12 DEF CallDone, SameArms

\* A sweep alone shows the queue.
LEMMA SweepOnly ==
  ASSUME NEW e, EngineOk(e), clock \in Nat
  PROVE  Shows(e.queue, Sweep(e).queue) /\ ToldToo(e.queue, Sweep(e).queue)
<1>1. <<>> \in Seq(Line) /\ e.queue \in Seq(Job) /\ Sweep(e).queue \in Seq(Job)
  BY SweepIs DEF EngineOk
<1>2. /\ Shows(e.queue \o Jobs(<<>>), Sweep(e).queue \o Jobs(<<>>))
      /\ ToldToo(e.queue \o Jobs(<<>>), Sweep(e).queue \o Jobs(<<>>))
  BY <1>1, SweepShows
<1> QED  BY <1>1, <1>2, NoLines

\* tick is such a call.
LEMMA TickCalls == ASSUME Sound, Tick PROVE CallDone
<1>1. /\ EngineOk(eng) /\ clock \in Nat /\ feed \in Seq(Line) /\ ~stop /\ Tells
      /\ pc = "wait" /\ pc' = "run" /\ feed' = feed
      /\ blurred' = blurred /\ blurred \in SUBSET Key /\ eng' = Sweep(eng)
  BY Basics DEF Tick, Sound, Typed, world
<1>2. /\ EngineOk(eng') /\ SameArms(eng, eng') /\ KeepsWaits(eng, eng') /\ SameFollower(eng, eng')
  BY <1>1, SweepIs
<1>3. Shows(Pending, eng'.queue \o Jobs(feed)) /\ ToldToo(Pending, eng'.queue \o Jobs(feed))
  BY <1>1, SweepShows DEF Pending
<1>4. Pending' = eng'.queue \o Jobs(feed)  BY <1>1 DEF Pending
<1>5. Covered(eng')  BY <1>1, <1>2 DEF Tells, Covered, SameArms, KeepsWaits
<1>6. CallLeaves  BY DEF Tick, CallLeaves, world, past
<1>8. (eng'.following => eng.following) /\ (~eng'.following => feed' = <<>>)
  BY <1>1, <1>2 DEF SameFollower, Tells
<1> QED  BY <1>1, <1>2, <1>3, <1>4, <1>5, <1>6, <1>8 DEF CallDone, SameArms

\* The turn that follows again is such a call: a row whose hook has not
\* published it is of a key of which the engine is told less.
LEMMA RefollowsCalls == ASSUME Sound, Refollows PROVE CallDone
<1> DEFINE K == {k \in Key : Rearmable(eng, k)}
<1> PICK failed \in {FALSE, budget.deaths > 0}, death \in {FALSE, budget.deaths > 0},
         rows \in NewestFirst(K) : eng' = Sweep(FollowAgain(failed, death, rows))
  BY DEF Refollows
<1>1. /\ EngineOk(eng) /\ clock \in Nat /\ feed \in Seq(Line) /\ ~stop /\ Tells /\ AtRest
      /\ pc = "wait" /\ pc' = "run" /\ feed' = feed /\ RowsTyped
      /\ blurred' = blurred \cup {k \in Key : hook[k] # NoRow} /\ blurred \in SUBSET Key
  BY Basics DEF Refollows, Sound, Typed, RowsTyped, Row
<1>2. ~eng.following /\ feed = <<>> /\ Pending = <<>>
  <2>1. ~eng.following  BY <1>1 DEF Refollows, RefollowDue, EngineOk, NoRefollow
  <2>2. feed = <<>> /\ eng.queue = <<>>  BY <1>1, <2>1 DEF Tells, AtRest
  <2> QED  BY <1>1, <2>1, <2>2, PendingIs
<1>3. PICK f : f = FollowAgain(failed, death, rows)  OBVIOUS
<1>4. K \in SUBSET Key  OBVIOUS
<1> HIDE DEF K
<1>5. EngineOk(f) /\ f.queue = eng.queue /\ ArmsFrom(K, eng, f)
  BY <1>1, <1>2, <1>3, <1>4, FollowAgainIs
<1>6. eng' = Sweep(f)  BY <1>3
<1>7. EngineOk(eng') /\ SameArms(f, eng') /\ KeepsWaits(f, eng')  BY <1>1, <1>5, <1>6, SweepIs
<1>8. Shows(Pending, eng'.queue) /\ ToldToo(Pending, eng'.queue)
  <2>1. Shows(f.queue, eng'.queue) /\ ToldToo(f.queue, eng'.queue)
    BY <1>1, <1>5, <1>6, SweepOnly
  <2>2. Pending = f.queue  BY <1>1, <1>2, <1>5, PendingIs
  <2> QED  BY <2>1, <2>2
<1>9. Covered(eng')
  <2>1. Covered(f)  BY <1>1, <1>5 DEF Tells, ArmsFrom
  <2> QED  BY <1>7, <2>1 DEF Covered, SameArms, KeepsWaits
<1>10. CallLeaves  BY DEF Refollows, CallLeaves, world, past
<1>11. ASSUME NEW k \in Key \ blurred'
       PROVE  \/ eng'.armedBy[k] = eng.armedBy[k]
              \/ eng'.armedBy[k] = row[k].at /\ hook[k] = NoRow /\ Rearmable(eng, k)
  <2>1. k \in Key /\ hook[k] = NoRow  BY <1>1
  <2>2. \/ eng'.armedBy[k] = eng.armedBy[k]
        \/ eng'.armedBy[k] = row[k].at /\ k \in K
    BY <1>5, <1>7, <2>1 DEF ArmsFrom, SameArms
  <2> QED  BY <2>1, <2>2 DEF K
<1>12. Pending' = eng'.queue /\ feed' \in Seq(Line) /\ feed' = <<>>
  BY <1>1, <1>2, <1>7, NoLines DEF Pending, EngineOk
<1>13. blurred' \in SUBSET Key /\ blurred \subseteq blurred'  BY <1>1
<1> QED
  BY <1>1, <1>2, <1>5, <1>7, <1>8, <1>9, <1>10, <1>11, <1>12, <1>13
     DEF CallDone, SameArms, ArmsFrom

\* start is such a call.
LEMMA StartCalls == ASSUME Sound, Start PROVE CallDone
<1> DEFINE K == {k \in Key : Rearmable(eng, k)}
<1> PICK death \in {FALSE, budget.deaths > 0},
         rows \in NewestFirst(K) : eng' = ArmFromStates(Follow(eng, 0, death), rows)
  BY DEF Start
<1>1. /\ EngineOk(eng) /\ clock \in Nat /\ feed \in Seq(Line) /\ AtRest
      /\ pc = "start" /\ pc' = "wait" /\ feed' = feed /\ RowsTyped
      /\ blurred' = blurred /\ blurred \in SUBSET Key /\ feed = <<>> /\ eng.queue = <<>>
      /\ eng.refollow = NoRefollow /\ ~stop /\ Tells
      /\ \A k \in Key : hook[k] = NoRow
  BY Basics DEF Start, Sound, Typed, RowsTyped, Row, AtRest, world
<1>2. Pending = <<>>  BY <1>1, PendingIs
<1>3. PICK f : f = Follow(eng, 0, death)  OBVIOUS
<1>4. K \in SUBSET Key  OBVIOUS
<1> HIDE DEF K
<1>5. EngineOk(f) /\ SameArms(eng, f) /\ f.queue = eng.queue /\ f.deadlines = eng.deadlines
  BY <1>1, <1>3, FollowIs
<1>6. EngineOk(eng') /\ eng'.queue = f.queue /\ ArmsFrom(K, f, eng')
  BY <1>1, <1>3, <1>4, <1>5, ArmFromStatesIs
<1>7. Shows(Pending, eng'.queue) /\ ToldToo(Pending, eng'.queue)
  BY <1>1, <1>2, <1>5, <1>6, ShowsItself
<1>8. Covered(eng')
  <2>1. Covered(f)  BY <1>1, <1>5 DEF Tells, Covered, Waits, SameArms
  <2> QED  BY <1>6, <2>1 DEF ArmsFrom
<1>9. CallLeaves  BY DEF Start, CallLeaves, world, past
<1>10. ASSUME NEW k \in Key \ blurred'
       PROVE  \/ eng'.armedBy[k] = eng.armedBy[k]
              \/ eng'.armedBy[k] = row[k].at /\ hook[k] = NoRow /\ Rearmable(eng, k)
  <2>1. \/ eng'.armedBy[k] = eng.armedBy[k]
        \/ eng'.armedBy[k] = row[k].at /\ k \in K
    BY <1>5, <1>6 DEF ArmsFrom, SameArms
  <2> QED  BY <1>1, <2>1 DEF K
<1>11. Pending' = eng'.queue /\ feed' \in Seq(Line) /\ feed' = <<>>
  BY <1>1, <1>6, NoLines DEF Pending, EngineOk
<1> QED
  BY <1>1, <1>2, <1>5, <1>6, <1>7, <1>8, <1>9, <1>10, <1>11 DEF CallDone, SameArms, ArmsFrom

-----------------------------------------------------------------------------
(* The jobs keep it *)

\* What a job of the engine leaves alone.
JobLeaves == UNCHANGED <<clock, mode, unheard, row, hook, feed, options, stop, landed, inFront>>

\* A job keeps the invariant if the notices and deadlines it leaves are of what
\* the rest tells.
LEMMA JobCalls ==
  ASSUME Sound, TakesJob, JobLeaves, EngineOk(eng'), SameFollower(eng, eng'),
         eng'.queue = Tail(eng.queue), Covered(eng'),
         up' \in SUBSET Key, blurred' \in SUBSET blurred, outdated' \in SUBSET Key,
         blurred' = blurred \/ eng.following,
         warned' \in [Key -> Nat], bare' \in BOOLEAN,
         \/ pc' = "run" /\ posting' = posting
         \/ pc' = "post" /\ posting' \in Post,
         FreshOk(Tail(Pending), Modes, up', posting', eng'.armedBy, Key \ blurred')
  PROVE  Sound'
<1>1. /\ EngineOk(eng) /\ feed \in Seq(Line) /\ ~stop /\ Tells /\ pc = "run" /\ eng.queue # <<>>
      /\ UNCHANGED <<clock, mode, unheard, row, hook, feed, options, stop>>
      /\ blurred \in SUBSET Key
  BY DEF TakesJob, JobLeaves, Sound, Typed
<1>2. Rows' = Rows /\ Modes' = Modes  BY <1>1 DEF Rows, Modes
<1>3. Pending' = Tail(Pending) /\ Pending \in Seq(Job) /\ Pending # <<>>
  <2>1. Pending' = Tail(eng.queue) \o Jobs(feed)  BY <1>1 DEF Pending
  <2> QED  BY <1>1, <2>1, PendingIs
<1>4. Sure' = Sure /\ Sure \in SUBSET Key  BY <1>1 DEF Sure, SameFollower
<1>5. Shows(Pending, Tail(Pending))  BY <1>3, TailShows
<1>6. Typed'
  <2>1. IF pc' = "post" THEN posting' \in Post ELSE posting' = [key |-> None]
    BY <1>1 DEF Sound, Typed
  <2> QED  BY <1>1, <2>1 DEF Sound, Typed, JobLeaves
<1>7. AtRest'  BY DEF AtRest
<1>8. (RowsOk(Modes, Rows, clock))'  BY <1>1, <1>2 DEF Sound, RowsOk
<1>9. (LinesOk(Pending, Modes, Rows, Sure))'
  <2>1. LinesOk(Tail(Pending), Modes, Rows, Sure)  BY <1>1, <1>4, <1>5, LinesShow DEF Tells
  <2> QED  BY <1>1, <1>2, <1>3, <1>4, <2>1 DEF LinesOk
<1>10. (DuesOk(Pending, clock))'
  <2>1. DuesOk(Tail(Pending), clock)  BY <1>1, <1>5, DuesShow DEF Tells
  <2> QED  BY <1>1, <1>3, <2>1 DEF DuesOk
<1>11. (FreshOk(Pending, Modes, up, posting, eng.armedBy, Key \ blurred))'
  BY <1>1, <1>2, <1>3 DEF FreshOk
<1>12. (~eng.following => feed = <<>>)'  BY <1>1 DEF SameFollower, Tells
<1> QED  BY <1>6, <1>7, <1>8, <1>9, <1>10, <1>11, <1>12 DEF Sound, Tells, Covered, Waits

\* What the first job tells: the last event of its key is what the session does.
LEMMA FirstJob ==
  ASSUME Sound, TakesJob
  PROVE  /\ EngineOk(eng) /\ Tells /\ eng.queue # <<>> /\ Head(eng.queue) \in Job
         /\ \A k \in Key : Told(Pending, k) =>
              \/ Told(Tail(Pending), k)
              \/ /\ Acts(Head(eng.queue), k)
                 /\ k \in Sure => Fits(Head(eng.queue).line, Modes[k], Rows[k])
         /\ IsEvent(Head(eng.queue)) =>
              /\ Head(eng.queue).line \in Line
              /\ Head(eng.queue).line.at <= Rows[Head(eng.queue).line.key].at
              /\ \A i \in 1..Len(Tail(Pending)) : IsEvent(Tail(Pending)[i]) =>
                   Head(eng.queue).line.at <= Tail(Pending)[i].line.at
         /\ ~IsEvent(Head(eng.queue)) =>
              /\ Head(eng.queue).key \in Key /\ Head(eng.queue).since \in Time
              /\ Head(eng.queue).since + After <= clock
<1> DEFINE j == Head(eng.queue)
           p == Pending
<1>1. EngineOk(eng) /\ feed \in Seq(Line) /\ Tells /\ eng.queue # <<>>
  BY DEF Sound, Typed, TakesJob
<1>2. p \in Seq(Job) /\ p # <<>> /\ p[1] = j /\ j \in Job  BY <1>1, PendingIs
<1>3. LinesOk(p, Modes, Rows, Sure) /\ DuesOk(p, clock)  BY <1>1 DEF Tells
<1> HIDE DEF p
<1>4. /\ Len(p) \in Nat /\ 1 \in 1..Len(p) /\ Len(Tail(p)) = Len(p) - 1
      /\ \A i \in 1..Len(Tail(p)) : i + 1 \in 1..Len(p) /\ 1 < i + 1 /\ Tail(p)[i] = p[i + 1]
  <2> HIDE DEF Job, j
  <2> QED  BY <1>2
<1>5. ASSUME NEW k \in Key, Told(p, k), ~Told(Tail(p), k)
      PROVE  Acts(j, k) /\ (k \in Sure => Fits(j.line, Modes[k], Rows[k]))
  <2>1. IsLast(p, k, 1)  BY <1>2, <1>5, TailShows
  <2> QED  BY <1>2, <1>3, <1>4, <2>1 DEF IsLast, LinesOk
<1>6. ASSUME IsEvent(j)
      PROVE  /\ j.line \in Line /\ j.line.at <= Rows[j.line.key].at
             /\ \A i \in 1..Len(Tail(p)) : IsEvent(Tail(p)[i]) => j.line.at <= Tail(p)[i].line.at
  <2>1. j.line \in Line  BY <1>2, <1>6 DEF Job, IsEvent
  <2>2. j.line.at <= Rows[j.line.key].at  BY <1>2, <1>3, <1>4, <1>6 DEF LinesOk
  <2>3. ASSUME NEW i \in 1..Len(Tail(p)), IsEvent(Tail(p)[i]) PROVE j.line.at <= Tail(p)[i].line.at
    BY <1>2, <1>3, <1>4, <1>6, <2>3 DEF LinesOk
  <2> QED  BY <2>1, <2>2, <2>3
<1>7. ASSUME ~IsEvent(j)
      PROVE  j.key \in Key /\ j.since \in Time /\ j.since + After <= clock
  <2>1. j.key \in Key /\ j.since \in Time  BY <1>2, <1>7 DEF Job, IsEvent
  <2> QED  BY <1>2, <1>3, <1>4, <1>7, <2>1 DEF DuesOk
<1> QED  BY <1>1, <1>2, <1>5, <1>6, <1>7 DEF p

\* An event that means nothing, or is held back, changes nothing.
LEMMA StepOverSound == ASSUME Sound, StepOver PROVE Sound'
<1> DEFINE j == Head(eng.queue)
<1>1. /\ EngineOk(eng) /\ Tells /\ eng.queue # <<>> /\ TakesJob /\ eng' = Rest
      /\ j.job = "event" /\ (j.line.event = "ping" \/ HeldBack(j.line))
      /\ UNCHANGED <<clock, mode, unheard, row, hook, feed, options, stop, landed, inFront,
                     up, blurred, outdated, warned, posting, pc>>
      /\ bare' = (bare \/ (HeldBack(j.line) /\ j.line.key \notin up \cup inFront))
  BY FirstJob DEF StepOver, world, past
<1>2. /\ EngineOk(eng') /\ eng'.queue = Tail(eng.queue) /\ SameArms(eng, eng')
      /\ SameFollower(eng, eng')
      /\ \A k \in Key : \A s : Waits(eng, k, s) => Waits(eng', k, s)
  BY <1>1, RestIs
<1>3. Covered(eng')  BY <1>1, <1>2 DEF Tells, Covered, SameArms
<1>4. FreshOk(Tail(Pending), Modes, up, posting, eng'.armedBy, Key \ blurred)
  <2> SUFFICES ASSUME NEW k \in Key \ blurred, Modes[k] \in Turning, ~Told(Tail(Pending), k)
               PROVE  k \notin up /\ posting.key # k /\ eng'.armedBy[k] = None
    BY DEF FreshOk
  <2>1. ~Told(Pending, k)
    <3> SUFFICES ASSUME Told(Pending, k) PROVE FALSE  OBVIOUS
    <3>1. Acts(j, k) /\ Fits(j.line, Modes[k], Rows[k])  BY <1>1, FirstJob DEF Sure
    <3> QED  BY <1>1, <3>1 DEF Acts, Fits, HeldBack
  <2> QED  BY <1>1, <1>2, <2>1 DEF Tells, FreshOk, SameArms
<1>5. JobLeaves  BY <1>1 DEF JobLeaves
<1>6. /\ up' \in SUBSET Key /\ blurred' \in SUBSET blurred /\ outdated' \in SUBSET Key
      /\ warned' \in [Key -> Nat] /\ pc' = "run" /\ bare' \in BOOLEAN
  BY <1>1 DEF Sound, Typed, TakesJob
<1> QED  BY <1>1, <1>2, <1>3, <1>4, <1>5, <1>6, JobCalls

\* An event that is stepped: for a session that works it took everything back,
\* for another there is more to come.
LEMMA StepSound == ASSUME Sound, Step PROVE Sound'
<1> PICK l : l = Head(eng.queue).line  OBVIOUS
<1> DEFINE v == Verdict(l.event)
<1>1. /\ EngineOk(eng) /\ Tells /\ eng.queue # <<>> /\ TakesJob /\ Head(eng.queue).job = "event"
      /\ l \in Line /\ l.event # "ping"
      /\ eng' = Armed(Cancelled(Unasked(Rest, l), l), l)
      /\ up' = IF v.withdraw THEN up \ {l.key} ELSE up
      /\ Posts(v.kind \in options.kinds, l.key, v.kind, l.event, l.at)
      /\ blurred' = IF v.cancel /\ eng.following THEN blurred \ {l.key} ELSE blurred
      /\ warned' = [warned EXCEPT ![l.key] = 0]
      /\ outdated' = IF v.cancel \/ options.cache THEN outdated \ {l.key}
                     ELSE outdated \cup {k \in {l.key} : eng.armedBy[k] # None}
      /\ UNCHANGED <<clock, mode, unheard, row, hook, feed, options, stop, landed, inFront, bare>>
  BY FirstJob DEF Step, IsEvent
<1>2. l.key \in Key /\ l.at \in Time /\ l.event \in Event  BY <1>1 DEF Line
<1>3. JobDone(l, eng')  BY <1>1, JobIs
<1>4. /\ EngineOk(eng') /\ SameFollower(eng, eng') /\ eng'.queue = Tail(eng.queue)
      /\ eng'.armedBy = [eng.armedBy EXCEPT ![l.key] = ArmedBy(eng, l)] /\ Covered(eng')
      /\ eng.armedBy \in [Key -> {None} \cup Time]
  BY <1>1, <1>3 DEF JobDone, Tells, EngineOk
<1>5. \/ pc' = "run" /\ posting' = posting
      \/ /\ pc' = "post" /\ v.kind \in options.kinds
         /\ posting' = [key |-> l.key, kind |-> v.kind, event |-> l.event, at |-> l.at]
  BY <1>1 DEF Posts, TakesJob
<1>6. options.kinds \subseteq Kind /\ "none" \notin options.kinds  BY Basics DEF Sound, Typed
<1>7. FreshOk(Tail(Pending), Modes, up', posting', eng'.armedBy, Key \ blurred')
  <2> SUFFICES ASSUME NEW k \in Key \ blurred', Modes[k] \in Turning, ~Told(Tail(Pending), k)
               PROVE  k \notin up' /\ posting'.key # k /\ eng'.armedBy[k] = None
    BY DEF FreshOk
  <2>1. CASE k = l.key
    <3>1. k \in Sure  BY <1>1, <2>1 DEF Sure
    <3>2. Told(Pending, k)
      <4>1. Acts(Head(eng.queue), k)  BY <1>1, <2>1 DEF Acts
      <4>2. Pending # <<>> /\ Pending \in Seq(Job) /\ Pending[1] = Head(eng.queue)
        BY <1>1, PendingIs DEF Sound, Typed
      <4>3. 1 \in 1..Len(Pending)
        <5> HIDE DEF Job
        <5> QED  BY <4>2
      <4> QED  BY <4>1, <4>2, <4>3 DEF Told
    <3>3. Fits(l, Modes[k], Rows[k])  BY <1>1, <3>1, <3>2, FirstJob
    <3>4. l.event \in {"start", "prompt", "answer"}  BY <3>3 DEF Fits
    <3>5. v.cancel /\ v.withdraw /\ v.kind = "none"
      <4>1. CASE l.event = "start"  BY <4>1 DEF Verdict, MovesOn
      <4>2. CASE l.event = "prompt"  BY <4>2 DEF Verdict, MovesOn
      <4>3. CASE l.event = "answer"  BY <4>3 DEF Verdict, MovesOn
      <4> QED  BY <3>4, <4>1, <4>2, <4>3
    <3>6. pc' = "run" /\ posting' = posting  BY <1>5, <1>6, <3>5
    <3>7. posting.key = None /\ k # None
      <4>1. pc = "run"  BY <1>1 DEF TakesJob
      <4>2. posting.key = None  BY <4>1 DEF Sound, Typed
      <4> QED  BY <4>2, Basics
    <3>8. ArmedBy(eng, l) = None  BY <3>5 DEF ArmedBy
    <3> QED  BY <1>1, <1>2, <1>4, <2>1, <3>5, <3>6, <3>7, <3>8
  <2>2. CASE k # l.key
    <3>1. k \notin blurred  BY <1>1, <2>2
    <3>2. ~Told(Pending, k)  BY <1>1, <2>2, FirstJob DEF Acts
    <3>3. k \notin up /\ posting.key # k /\ eng.armedBy[k] = None
      BY <1>1, <3>1, <3>2 DEF Tells, FreshOk
    <3>4. k \notin up' /\ eng'.armedBy[k] = None  BY <1>1, <1>4, <2>2, <3>3
    <3>5. posting'.key # k  BY <1>5, <2>2, <3>3
    <3> QED  BY <3>4, <3>5
  <2> QED  BY <2>1, <2>2
<1>8. v.kind # "none" => v.kind \in Kind  BY DEF Verdict, Kind
<1>9. \/ pc' = "run" /\ posting' = posting
      \/ pc' = "post" /\ posting' \in Post
  BY <1>2, <1>5, <1>6, <1>8 DEF Post
<1>10. /\ up' \in SUBSET Key /\ blurred' \in SUBSET blurred /\ outdated' \in SUBSET Key
       /\ warned' \in [Key -> Nat] /\ bare' \in BOOLEAN /\ (blurred' = blurred \/ eng.following)
  <2>1. up \in SUBSET Key /\ outdated \in SUBSET Key /\ warned \in [Key -> Nat] /\ bare \in BOOLEAN
    BY DEF Sound, Typed
  <2> HIDE DEF v
  <2>2. up' \in SUBSET Key  BY <1>1, <2>1
  <2>3. blurred' \in SUBSET blurred /\ (blurred' = blurred \/ eng.following)  BY <1>1
  <2>4. outdated' \in SUBSET Key  BY <1>1, <1>2, <2>1
  <2> QED  BY <1>1, <1>2, <2>1, <2>2, <2>3, <2>4
<1>11. JobLeaves  BY <1>1 DEF JobLeaves
<1> QED  BY <1>1, <1>4, <1>7, <1>9, <1>10, <1>11, JobCalls

\* due: the key is armed no more.
LEMMA DueIs ==
  ASSUME EngineOk(eng), eng.queue # <<>>, Head(eng.queue).job = "due", NEW k \in Key,
         k = Head(eng.queue).key, Stands(k, Head(eng.queue).since),
         NEW e, e = [Rest EXCEPT !.armedBy[k] = None]
  PROVE  /\ EngineOk(e) /\ SameFollower(eng, e) /\ e.queue = Tail(eng.queue)
         /\ e.armedBy = [eng.armedBy EXCEPT ![k] = None]
         /\ e.warnedAt = eng.warnedAt /\ e.questions = eng.questions
         /\ Covered(eng) => Covered(e)
<1>1. /\ EngineOk(Rest) /\ Rest.queue = Tail(eng.queue) /\ SameArms(eng, Rest)
      /\ SameFollower(eng, Rest) /\ Rest.deadlines = eng.deadlines
      /\ \A o \in Key : \A s : Waits(eng, o, s) => \/ Waits(Rest, o, s)
                                                   \/ Head(eng.queue).key = o
  BY RestIs
<1>r. PICK rest : rest = Rest  OBVIOUS
<1>2. DOMAIN rest = EngineFields  BY <1>1, <1>r DEF EngineOk
<1>3. /\ DOMAIN e = EngineFields /\ e.queue = rest.queue /\ e.deadlines = rest.deadlines
      /\ e.following = rest.following /\ e.refollow = rest.refollow /\ e.after = rest.after
      /\ e.warnedAt = rest.warnedAt /\ e.questions = rest.questions
      /\ e.armedBy = [rest.armedBy EXCEPT ![k] = None]
  BY <1>2, <1>r DEF EngineFields
<1>4. e.armedBy = [eng.armedBy EXCEPT ![k] = None] /\ eng.armedBy \in [Key -> {None} \cup Time]
  BY <1>1, <1>3, <1>r DEF SameArms, EngineOk
<1>5. e.armedBy \in [Key -> {None} \cup Time]
  <2>1. [eng.armedBy EXCEPT ![k] = None] \in [Key -> {None} \cup Time]  BY <1>4, ClearedIn
  <2> QED  BY <1>4, <2>1
<1>6. EngineOk(e)  BY <1>1, <1>3, <1>5, <1>r DEF EngineOk
<1>7. ASSUME Covered(eng), NEW o \in Key, e.armedBy[o] # None PROVE Waits(e, o, e.armedBy[o])
  <2>1. o # k /\ e.armedBy[o] = eng.armedBy[o]  BY <1>4, <1>7
  <2>2. Waits(Rest, o, eng.armedBy[o])  BY <1>1, <1>7, <2>1 DEF Covered
  <2> QED  BY <1>3, <1>r, <2>1, <2>2 DEF Waits
<1>8. Covered(eng) => Covered(e)  BY <1>7 DEF Covered
<1> QED  BY <1>1, <1>3, <1>4, <1>6, <1>8, <1>r DEF SameArms, SameFollower

\* A deadline that came posts for a key that is armed, and so of no session
\* that works unless more is told of it.
LEMMA DueSound == ASSUME Sound, Due PROVE Sound'
<1> PICK k : k = Head(eng.queue).key  OBVIOUS
<1> PICK since : since = Head(eng.queue).since  OBVIOUS
<1>1. /\ EngineOk(eng) /\ Tells /\ eng.queue # <<>> /\ TakesJob /\ Head(eng.queue).job = "due"
      /\ k \in Key /\ since \in Time
      /\ IF ~Stands(k, since) THEN eng' = Rest /\ UNCHANGED <<pc, posting>>
         ELSE /\ eng' = [Rest EXCEPT !.armedBy[k] = None]
              /\ Posts(Warns(k, since), k, "cache_expiring", "due", clock)
      /\ UNCHANGED <<clock, mode, unheard, row, hook, feed, options, stop, landed, inFront,
                     up, blurred, outdated, warned, bare>>
  BY FirstJob DEF Due, world, past, IsEvent
<1>2. JobLeaves  BY <1>1 DEF JobLeaves
<1>3. /\ up' \in SUBSET Key /\ blurred' \in SUBSET blurred /\ outdated' \in SUBSET Key
      /\ warned' \in [Key -> Nat] /\ pc = "run" /\ bare' \in BOOLEAN /\ clock \in Time
  BY <1>1 DEF Sound, Typed, TakesJob
<1>4. \A o \in Key : ~Told(Tail(Pending), o) => ~Told(Pending, o)  BY <1>1, FirstJob DEF Acts
<1>5. CASE ~Stands(k, since)
  <2>1. eng' = Rest /\ pc' = pc /\ posting' = posting  BY <1>1, <1>5
  <2>2. /\ EngineOk(eng') /\ eng'.queue = Tail(eng.queue) /\ SameArms(eng, eng')
        /\ SameFollower(eng, eng')
        /\ \A o \in Key : \A s : Waits(eng, o, s) => Waits(eng', o, s) \/ (k = o /\ since = s)
    BY <1>1, <2>1, RestIs
  <2>3. Covered(eng')  BY <1>1, <1>5, <2>2 DEF Tells, Covered, SameArms, Stands
  <2>4. FreshOk(Tail(Pending), Modes, up', posting', eng'.armedBy, Key \ blurred')
    BY <1>1, <1>4, <2>1, <2>2 DEF Tells, FreshOk, SameArms
  <2> QED  BY <1>1, <1>2, <1>3, <2>1, <2>2, <2>3, <2>4, JobCalls
<1>6. CASE Stands(k, since)
  <2>1. /\ eng' = [Rest EXCEPT !.armedBy[k] = None]
        /\ Posts(Warns(k, since), k, "cache_expiring", "due", clock)
    BY <1>1, <1>6
  <2>2. /\ EngineOk(eng') /\ SameFollower(eng, eng') /\ eng'.queue = Tail(eng.queue)
        /\ eng'.armedBy = [eng.armedBy EXCEPT ![k] = None]
        /\ Covered(eng) => Covered(eng')
    BY <1>1, <1>6, <2>1, DueIs
  <2>3. \/ pc' = "run" /\ posting' = posting
        \/ /\ pc' = "post"
           /\ posting' = [key |-> k, kind |-> "cache_expiring", event |-> "due", at |-> clock]
    BY <1>3, <2>1 DEF Posts
  <2>4. \/ pc' = "run" /\ posting' = posting
        \/ pc' = "post" /\ posting' \in Post
    BY <1>1, <1>3, <2>3 DEF Post, Kind
  <2>5. FreshOk(Tail(Pending), Modes, up', posting', eng'.armedBy, Key \ blurred')
    <3> SUFFICES ASSUME NEW o \in Key \ blurred, Modes[o] \in Turning, ~Told(Tail(Pending), o)
                 PROVE  o \notin up /\ posting'.key # o /\ eng'.armedBy[o] = None
      BY <1>1 DEF FreshOk
    <3>1. o \notin up /\ posting.key # o /\ eng.armedBy[o] = None
      BY <1>1, <1>4 DEF Tells, FreshOk
    <3>2. o # k  BY <1>1, <1>6, <3>1, Basics DEF Stands
    <3>3. posting'.key # o  BY <2>3, <3>1, <3>2
    <3>4. eng'.armedBy[o] = None  BY <1>1, <2>2, <3>1, <3>2 DEF EngineOk
    <3> QED  BY <3>1, <3>3, <3>4
  <2> QED  BY <1>1, <1>2, <1>3, <2>2, <2>4, <2>5, JobCalls DEF Tells
<1> QED  BY <1>5, <1>6

-----------------------------------------------------------------------------
(* The other steps keep it *)

\* A step that leaves the queue, the feed and what the rows come to.
LEMMA SmallSteps ==
  ASSUME Sound, UNCHANGED <<feed, blurred>>, Modes' = Modes, Rows' = Rows, Typed', AtRest',
         ~stop' => ~stop,
         ~stop => /\ eng'.queue = eng.queue /\ eng'.deadlines = eng.deadlines
                  /\ eng'.armedBy = eng.armedBy /\ eng'.following = eng.following,
         clock' = clock \/ clock' = clock + 1,
         ~stop' => FreshOk(Pending, Modes, up', posting', eng.armedBy, Key \ blurred)
  PROVE  Sound'
<1>1. clock \in Nat  BY Basics DEF Sound, Typed
<1>2. (RowsOk(Modes, Rows, clock))'
  <2>1. RowsOk(Modes, Rows, clock')  BY <1>1 DEF Sound, RowsOk
  <2> QED  BY <2>1 DEF RowsOk
<1>3. ASSUME ~stop' PROVE Tells'
  <2>1. /\ Tells /\ Pending' = Pending /\ Sure' = Sure
        /\ eng'.queue = eng.queue /\ eng'.deadlines = eng.deadlines
        /\ eng'.armedBy = eng.armedBy /\ eng'.following = eng.following
    BY <1>3 DEF Sound, Pending, Sure
  <2>2. (LinesOk(Pending, Modes, Rows, Sure))'  BY <2>1 DEF Tells, LinesOk
  <2>3. DuesOk(Pending, clock')
    <3>1. Pending \in Seq(Job) /\ DuesOk(Pending, clock)
      BY <2>1, PendingIs DEF Tells, Sound, Typed
    <3>2. \A i \in 1..Len(Pending) : Pending[i] \in Job
      <4> HIDE DEF Job
      <4> QED  BY <3>1
    <3>3. \A i \in 1..Len(Pending) : ~IsEvent(Pending[i]) => Pending[i].since \in Nat
      BY <3>2, Basics DEF Job, IsEvent
    <3> QED  BY <1>1, <3>1, <3>3, Basics DEF DuesOk
  <2>4. (DuesOk(Pending, clock))'  BY <2>1, <2>3 DEF DuesOk
  <2>5. (FreshOk(Pending, Modes, up, posting, eng.armedBy, Key \ blurred))'
    BY <1>3, <2>1 DEF FreshOk
  <2>6. (Covered(eng))'  BY <2>1 DEF Tells, Covered, Waits
  <2> QED  BY <2>1, <2>2, <2>4, <2>5, <2>6 DEF Tells
<1> QED  BY <1>2, <1>3 DEF Sound

\* The row a hook publishes is the one that counted.
LEMMA HookPublishesSound == ASSUME Sound, NEW k \in Key, HookPublishes(k) PROVE Sound'
<1>1. /\ row' = [row EXCEPT ![k] = hook[k]] /\ hook' = [hook EXCEPT ![k] = NoRow] /\ hook[k] # NoRow
      /\ UNCHANGED <<clock, mode, unheard, feed, eng, options, up, posting, pc, stop, blurred, past, bare>>
      /\ row \in [Key -> Row] /\ hook \in [Key -> {NoRow} \cup Row]
  BY DEF HookPublishes, Sound, Typed
<1>2. Rows' = Rows /\ Modes' = Modes
  <2>1. \A o \in Key : (IF hook'[o] = NoRow THEN row'[o] ELSE hook'[o])
                       = (IF hook[o] = NoRow THEN row[o] ELSE hook[o])
    BY <1>1
  <2>2. Modes' = Modes  BY <1>1 DEF Modes
  <2> QED  BY <2>1, <2>2 DEF Rows
<1>3. row' \in [Key -> Row] /\ hook' \in [Key -> {NoRow} \cup Row]  BY <1>1
<1>4. Typed'  BY <1>1, <1>3 DEF Sound, Typed, past
<1>5. AtRest'  BY <1>1 DEF Sound, AtRest
<1>6. ~stop' => FreshOk(Pending, Modes, up', posting', eng.armedBy, Key \ blurred)
  BY <1>1 DEF Sound, Tells
<1> QED  BY <1>1, <1>2, <1>4, <1>5, <1>6, SmallSteps

\* A reload, the signal, the clock, a failed start.
LEMMA OthersSound ==
  ASSUME Sound, Reload \/ Signal \/ Advance \/ StartFails \/ UNCHANGED vars
  PROVE  Sound'
<1>1. /\ UNCHANGED <<mode, unheard, row, hook, blurred, feed, eng, up, posting, past, bare>>
      /\ options' = options \/ options' \in InForce
      /\ clock' = clock \/ (clock' = clock + 1 /\ clock < MaxTime)
      /\ stop' = stop \/ (stop' = TRUE /\ pc # "start")
      /\ pc' = pc \/ (pc' = "ended" /\ pc = "start")
  BY DEF Reload, Signal, Advance, StartFails, vars, world, past, Idle
<1>2. Rows' = Rows /\ Modes' = Modes  BY <1>1 DEF Rows, Modes
<1>3. Typed'
  <2>1. clock' \in Time  BY <1>1, EngineAssumption DEF Sound, Typed, Time
  <2>2. UNCHANGED <<warned, outdated, landed, inFront, bare>>  BY <1>1 DEF past
  <2>3. /\ options' \in InForce /\ stop' \in BOOLEAN
        /\ pc' \in {"start", "wait", "run", "post", "ended"}
    BY <1>1 DEF Sound, Typed
  <2>4. IF pc' = "post" THEN posting' \in Post ELSE posting' = [key |-> None]
    BY <1>1 DEF Sound, Typed
  <2> QED  BY <1>1, <2>1, <2>2, <2>3, <2>4 DEF Sound, Typed
<1>4. AtRest'  BY <1>1 DEF Sound, AtRest
<1>5. ~stop' => FreshOk(Pending, Modes, up', posting', eng.armedBy, Key \ blurred)
  BY <1>1 DEF Sound, Tells
<1> QED  BY <1>1, <1>2, <1>3, <1>4, <1>5, SmallSteps

\* The end of a run: the queue is empty, or the service stops.
LEMMA RunEndsSound == ASSUME Sound, RunEnds PROVE Sound'
<1>1. /\ UNCHANGED <<clock, mode, unheard, row, hook, blurred, feed, options, up, posting, stop, past, bare>>
      /\ eng' = [eng EXCEPT !.queue = <<>>] /\ pc = "run" /\ pc' = "wait"
      /\ eng.queue = <<>> \/ stop
  BY DEF RunEnds, world
<1>2. EngineOk(eng)  BY DEF Sound, Typed
<1>3. /\ EngineOk(eng') /\ eng'.queue = <<>> /\ eng'.deadlines = eng.deadlines
      /\ eng'.armedBy = eng.armedBy /\ eng'.following = eng.following
  BY <1>1, <1>2 DEF EngineOk, EngineFields
<1>4. Rows' = Rows /\ Modes' = Modes  BY <1>1 DEF Rows, Modes
<1>5. Typed'  BY <1>1, <1>3 DEF Sound, Typed, past
<1>6. AtRest'  BY <1>1, <1>3 DEF AtRest
<1>7. ~stop' => FreshOk(Pending, Modes, up', posting', eng.armedBy, Key \ blurred)
  BY <1>1 DEF Sound, Tells
<1> QED  BY <1>1, <1>3, <1>4, <1>5, <1>6, <1>7, SmallSteps

\* The stop forgets everything.
LEMMA StopEngineSound == ASSUME Sound, StopEngine PROVE Sound'
<1>1. /\ UNCHANGED <<clock, mode, unheard, row, hook, blurred, feed, options, up, posting, stop, past, bare>>
      /\ eng' = [eng EXCEPT !.following = FALSE, !.refollow = NoRefollow, !.queue = <<>>,
                        !.deadlines = <<>>, !.armedBy = [k \in Key |-> None],
                        !.questions = NoQuestions, !.warnedAt = [k \in Key |-> None]]
      /\ pc = "wait" /\ pc' = "ended" /\ stop
  BY DEF StopEngine, world
<1>2. EngineOk(eng)  BY DEF Sound, Typed
<1>3. EngineOk(eng')
  <2>1. /\ DOMAIN eng' = EngineFields /\ eng'.queue = <<>> /\ eng'.deadlines = <<>>
        /\ eng'.armedBy = [k \in Key |-> None] /\ eng'.warnedAt = [k \in Key |-> None]
        /\ eng'.questions = <<>> /\ eng'.following = FALSE /\ eng'.after = eng.after
    BY <1>1, <1>2 DEF EngineOk, EngineFields, NoQuestions
  <2>2. IsWaiting(<<>>)  BY DEF IsWaiting
  <2>3. <<>> \in UNION {[asked -> Time] : asked \in SUBSET Key}
    <3>1. <<>> \in [{} -> Time] /\ {} \in SUBSET Key  OBVIOUS
    <3> QED  BY <3>1
  <2>4. [k \in Key |-> None] \in [Key -> {None} \cup Time]  OBVIOUS
  <2>5. <<>> \in Seq(Job)  OBVIOUS
  <2>6. eng.after \in RefollowMin..RefollowMax  BY <1>2 DEF EngineOk
  <2> QED  BY <2>1, <2>2, <2>3, <2>4, <2>5, <2>6 DEF EngineOk
<1>4. Rows' = Rows /\ Modes' = Modes  BY <1>1 DEF Rows, Modes
<1>5. Typed'  BY <1>1, <1>3 DEF Sound, Typed, past
<1>6. AtRest'  BY <1>1 DEF AtRest
<1> QED  BY <1>1, <1>4, <1>5, <1>6, SmallSteps

\* What is remembered of a question is of the post, or was.
LEMMA RememberedIs ==
  ASSUME EngineOk(eng), posting \in Post, NEW gone, NEW shown
  PROVE  LET r == Remembered(posting.key, gone, shown) IN
         /\ r \in UNION {[asked -> Time] : asked \in SUBSET Key}
         /\ \A k \in DOMAIN r :
              \/ k \in DOMAIN eng.questions /\ r[k] = eng.questions[k]
              \/ k = posting.key /\ posting.kind = "question" /\ r[k] = posting.at
<1> DEFINE k == posting.key
           r == Remembered(k, gone, shown)
<1>1. PICK asked \in SUBSET Key : eng.questions \in [asked -> Time]  BY DEF EngineOk
<1>2. k \in Key /\ posting.at \in Time  BY DEF Post
<1> HIDE DEF k
<1>3. CASE r = With(eng.questions, k, posting.at) /\ posting.kind = "question"
  <2>1. r = [q \in asked \cup {k} |-> IF q = k THEN posting.at ELSE eng.questions[q]]
    BY <1>1, <1>3 DEF With
  <2>2. r \in [asked \cup {k} -> Time] /\ asked \cup {k} \in SUBSET Key  BY <1>1, <1>2, <2>1
  <2> HIDE DEF r
  <2>3. \A o \in DOMAIN r : \/ o \in DOMAIN eng.questions /\ r[o] = eng.questions[o]
                            \/ o = k /\ r[o] = posting.at
    BY <1>1, <2>1
  <2> QED  BY <1>3, <2>2, <2>3 DEF r, k
<1>4. CASE r = Without(eng.questions, k)
  <2>1. r = [q \in asked \ {k} |-> eng.questions[q]]  BY <1>1, <1>4 DEF Without, Restrict
  <2>2. r \in [asked \ {k} -> Time] /\ asked \ {k} \in SUBSET Key  BY <1>1, <2>1
  <2> HIDE DEF r
  <2>3. \A o \in DOMAIN r : o \in DOMAIN eng.questions /\ r[o] = eng.questions[o]  BY <1>1, <2>1
  <2> QED  BY <2>2, <2>3 DEF r, k
<1>5. CASE r = eng.questions
  <2> HIDE DEF r
  <2>1. r \in UNION {[a -> Time] : a \in SUBSET Key}  BY <1>5 DEF EngineOk
  <2> QED  BY <1>5, <2>1 DEF r, k
<1> QED  BY <1>3, <1>4, <1>5 DEF Remembered

\* What the end of a post changes.
PostDone(k, warns) ==
  /\ EngineOk(eng') /\ eng'.queue = eng.queue /\ eng'.deadlines = eng.deadlines
  /\ eng'.armedBy = eng.armedBy /\ SameFollower(eng, eng')
  /\ eng'.warnedAt = IF warns THEN [eng.warnedAt EXCEPT ![k] = posting.at] ELSE eng.warnedAt
  /\ \A o \in DOMAIN eng'.questions :
       \/ o \in DOMAIN eng.questions /\ eng'.questions[o] = eng.questions[o]
       \/ o = k /\ posting.kind = "question" /\ eng'.questions[o] = posting.at
  /\ warned' = IF warns THEN [warned EXCEPT ![k] = @ + 1] ELSE warned
  /\ up' \in {up \cup {k}, up, up \ {k}} /\ inFront' \in {inFront \cup {k}, inFront, inFront \ {k}}
  /\ warns => posting.kind = "cache_expiring"

\* Every answer of tmux and of the backend does that.
LEMMA PostEndsIs ==
  ASSUME EngineOk(eng), posting \in Post, PostEnds
  PROVE  \E warns \in BOOLEAN : PostDone(posting.key, warns)
<1> DEFINE k == posting.key
<1> PICK gone \in BOOLEAN, result \in {"shown", "dropped", "failed"} : Answered(k, gone, result)
  BY DEF PostEnds
<1> DEFINE cache == posting.kind = "cache_expiring"
           answered == result # "failed" /\ ~(gone /\ cache)
           shown == answered /\ result = "shown"
           dropped == answered /\ result # "shown"
           questions == Remembered(k, gone, shown)
           warns == answered /\ cache
<1>1. /\ eng' = [eng EXCEPT !.questions = questions,
                           !.warnedAt[k] = IF warns THEN posting.at ELSE @]
      /\ up' = (IF shown THEN up \cup {k} ELSE IF dropped THEN up \ {k} ELSE up)
      /\ inFront' = (IF shown THEN inFront \ {k} ELSE IF dropped THEN inFront \cup {k} ELSE inFront)
      /\ warned' = (IF warns THEN [warned EXCEPT ![k] = @ + 1] ELSE warned)
  BY Zenon DEF Answered
<1>2. /\ questions \in UNION {[asked -> Time] : asked \in SUBSET Key}
      /\ \A o \in DOMAIN questions :
              \/ o \in DOMAIN eng.questions /\ questions[o] = eng.questions[o]
              \/ o = k /\ posting.kind = "question" /\ questions[o] = posting.at
  BY RememberedIs
<1>3. k \in Key /\ posting.at \in Time  BY DEF Post
<1> HIDE DEF questions, k
<1>4. DOMAIN eng = EngineFields /\ eng.warnedAt \in [Key -> {None} \cup Time]  BY DEF EngineOk
<1> PICK on \in BOOLEAN : on = warns  OBVIOUS
<1>5. warns = on  OBVIOUS
<1>6. /\ DOMAIN eng' = EngineFields /\ eng'.queue = eng.queue /\ eng'.deadlines = eng.deadlines
      /\ eng'.armedBy = eng.armedBy /\ eng'.following = eng.following
      /\ eng'.refollow = eng.refollow /\ eng'.after = eng.after /\ eng'.questions = questions
  BY <1>1, <1>4 DEF EngineFields
<1>7. eng'.warnedAt = [eng.warnedAt EXCEPT ![k] = IF warns THEN posting.at ELSE @]
  BY <1>1, <1>4 DEF EngineFields
<1>8. eng'.warnedAt = IF on THEN [eng.warnedAt EXCEPT ![k] = posting.at] ELSE eng.warnedAt
  BY <1>3, <1>4, <1>5, <1>7
<1>9. eng'.warnedAt \in [Key -> {None} \cup Time]
  <2>1. CASE on  BY <1>3, <1>4, <1>8, <2>1, ExceptIn
  <2>2. CASE ~on  BY <1>4, <1>8, <2>2
  <2> QED  BY <2>1, <2>2
<1>10. EngineOk(eng')  BY <1>2, <1>6, <1>9 DEF EngineOk
<1>11. warned' = IF on THEN [warned EXCEPT ![k] = @ + 1] ELSE warned  BY <1>1, <1>5
<1>12. /\ up' \in {up \cup {k}, up, up \ {k}}
       /\ inFront' \in {inFront \cup {k}, inFront, inFront \ {k}}
  BY <1>1
<1>13. on => posting.kind = "cache_expiring"  BY <1>5
<1>14. PostDone(k, on)
  BY <1>2, <1>6, <1>8, <1>10, <1>11, <1>12, <1>13 DEF PostDone, SameFollower
<1> QED  BY <1>14 DEF k

\* A notice comes up for the key of the post only.
LEMMA PostEndsSound == ASSUME Sound, PostEnds PROVE Sound'
<1>1. /\ EngineOk(eng) /\ posting \in Post /\ pc = "post" /\ pc' = "run"
      /\ posting' = [key |-> None]
      /\ UNCHANGED <<clock, mode, unheard, row, hook, blurred, feed, options, stop, outdated, bare>>
      /\ landed' = IF stop THEN landed + 1 ELSE landed
      /\ (~stop => Tells)
  BY DEF PostEnds, Sound, Typed, world
<1> PICK k \in Key : k = posting.key  BY <1>1 DEF Post
<1> PICK warns \in BOOLEAN : PostDone(k, warns)  BY <1>1, PostEndsIs
<1>2. Rows' = Rows /\ Modes' = Modes  BY <1>1 DEF Rows, Modes
<1>3. Typed'
  <2>1. up' \in SUBSET Key /\ inFront' \in SUBSET Key  BY DEF PostDone, Sound, Typed
  <2>2. warned' \in [Key -> Nat]  BY DEF PostDone, Sound, Typed
  <2>3. landed' \in Nat  BY <1>1 DEF Sound, Typed
  <2> QED  BY <1>1, <2>1, <2>2, <2>3 DEF PostDone, Sound, Typed
<1>4. AtRest'  BY <1>1 DEF AtRest
<1>5. ASSUME ~stop' PROVE FreshOk(Pending, Modes, up', posting', eng.armedBy, Key \ blurred)
  <2>1. FreshOk(Pending, Modes, up, posting, eng.armedBy, Key \ blurred)  BY <1>1, <1>5 DEF Tells
  <2> SUFFICES ASSUME NEW o \in Key \ blurred, Modes[o] \in Turning, ~Told(Pending, o)
               PROVE  o \notin up' /\ posting'.key # o /\ eng.armedBy[o] = None
    BY DEF FreshOk
  <2>2. o \notin up /\ posting.key # o /\ eng.armedBy[o] = None  BY <2>1 DEF FreshOk
  <2>3. posting'.key # o  BY <1>1, Basics
  <2>4. o \notin up'  BY <2>2 DEF PostDone
  <2> QED  BY <2>2, <2>3, <2>4
<1> QED  BY <1>1, <1>2, <1>3, <1>4, <1>5, SmallSteps DEF PostDone, SameFollower

\* What the sessions do, and what the hook writes of it.
LEMMA GoesAre ==
  \A g \in Goes :
    /\ g[2] \in Event /\ g[3] \in Mode
    /\ g[3] = "done" => g[2] = "stop"
    /\ g[3] \in Turning => /\ g[2] \in {"start", "prompt", "answer"}
                           /\ StateOf(g[2]) \in {"new", "working"}
    /\ g[3] = "quiet" => g[2] = "ping" /\ g[1] = "done"
    /\ g[2] = "ping" => g[3] = "quiet"
    /\ StateOf(g[2]) \in RowState
<1> SUFFICES ASSUME NEW g \in Goes
    PROVE /\ g[2] \in Event /\ g[3] \in Mode
          /\ g[3] = "done" => g[2] = "stop"
          /\ g[3] \in Turning => /\ g[2] \in {"start", "prompt", "answer"}
                                 /\ StateOf(g[2]) \in {"new", "working"}
          /\ g[3] = "quiet" => g[2] = "ping" /\ g[1] = "done"
          /\ g[2] = "ping" => g[3] = "quiet"
          /\ StateOf(g[2]) \in RowState
OBVIOUS
<1>1. CASE g \in {<<m, "end", "none">> : m \in {"working", "asking", "blocked", "done", "quiet"}}
  BY <1>1 DEF Event, Mode, Turning, StateOf, RowState
<1>2. CASE g \notin {<<m, "end", "none">> : m \in {"working", "asking", "blocked", "done", "quiet"}}
  BY <1>2 DEF Goes, Event, Mode, Turning, StateOf, RowState
<1> QED  BY <1>1, <1>2

\* One more line is the last of its key.
LEMMA LineAdded ==
  ASSUME NEW p \in Seq(Job), NEW modes \in [Key -> Mode], NEW rows, DOMAIN rows = Key,
         NEW sure \in SUBSET Key, LinesOk(p, modes, rows, sure),
         NEW l \in Line, NEW m, NEW r, r.at = l.at,
         \A k \in Key : rows[k].at \in Nat /\ rows[k].at <= l.at,
         \A i \in 1..Len(p) : IsEvent(p[i]) => p[i].line \in Line,
         IF l.event = "ping" THEN m = "quiet" /\ modes[l.key] = "done" ELSE Fits(l, m, r)
  PROVE  LinesOk(Append(p, [job |-> "event", line |-> l]),
                 [modes EXCEPT ![l.key] = m], [rows EXCEPT ![l.key] = r], sure)
<1> DEFINE j == [job |-> "event", line |-> l]
           q == Append(p, j)
           ms == [modes EXCEPT ![l.key] = m]
           rs == [rows EXCEPT ![l.key] = r]
<1>0. l.key \in Key /\ l.at \in Nat  BY Basics DEF Line
<1>1. /\ Len(p) \in Nat /\ Len(q) = Len(p) + 1 /\ q[Len(p) + 1] = j
      /\ \A i \in 1..Len(p) : i \in 1..Len(q) /\ q[i] = p[i]
      /\ Len(p) + 1 \in 1..Len(q)
      /\ \A i \in 1..Len(q) : i \in 1..Len(p) \/ i = Len(p) + 1
  <2> HIDE DEF Job, j
  <2> QED  OBVIOUS
<1>2. j.line = l /\ j.job = "event"  OBVIOUS
<1> HIDE DEF j, q
<1>3. \A k \in Key : ms[k] = (IF k = l.key THEN m ELSE modes[k])
                     /\ rs[k] = (IF k = l.key THEN r ELSE rows[k])
  BY <1>0
<1> HIDE DEF ms, rs
<1>4. \A i \in 1..Len(q) : IsEvent(q[i]) =>
        q[i].line \in Line /\ q[i].line.at \in Nat /\ q[i].line.key \in Key
  BY <1>1, <1>2, Basics DEF Line
<1>5. \A i \in 1..Len(p) : IsEvent(p[i]) => p[i].line.at <= l.at
  <2> SUFFICES ASSUME NEW i \in 1..Len(p), IsEvent(p[i]) PROVE p[i].line.at <= l.at  OBVIOUS
  <2>1. p[i].line.at <= rows[p[i].line.key].at /\ p[i].line.key \in Key /\ p[i].line.at \in Nat
    BY <1>1, <1>4 DEF LinesOk
  <2> QED  BY <1>0, <2>1
<1>6. \A i, n \in 1..Len(q) : i < n /\ IsEvent(q[i]) /\ IsEvent(q[n]) =>
        q[i].line.at <= q[n].line.at
  <2> SUFFICES ASSUME NEW i \in 1..Len(q), NEW n \in 1..Len(q), i < n, IsEvent(q[i]), IsEvent(q[n])
               PROVE  q[i].line.at <= q[n].line.at
OBVIOUS
  <2>1. i \in 1..Len(p)  BY <1>1
  <2>2. CASE n \in 1..Len(p)  BY <1>1, <2>1, <2>2 DEF LinesOk
  <2>3. CASE n = Len(p) + 1  BY <1>1, <1>2, <1>5, <2>1, <2>3
  <2> QED  BY <1>1, <2>2, <2>3
<1>7. \A i \in 1..Len(q) : IsEvent(q[i]) => q[i].line.at <= rs[q[i].line.key].at
  <2> SUFFICES ASSUME NEW i \in 1..Len(q), IsEvent(q[i]) PROVE q[i].line.at <= rs[q[i].line.key].at
    OBVIOUS
  <2>1. q[i].line.key \in Key  BY <1>4
  <2>2. q[i].line.at <= l.at  BY <1>0, <1>1, <1>2, <1>5
  <2>3. CASE q[i].line.key = l.key  BY <1>3, <2>1, <2>2, <2>3
  <2>4. CASE q[i].line.key # l.key
    <3>1. i \in 1..Len(p)  BY <1>1, <1>2, <2>4
    <3> QED  BY <1>1, <1>3, <2>1, <2>4, <3>1 DEF LinesOk
  <2> QED  BY <2>3, <2>4
<1>8. ASSUME NEW k \in sure, NEW i \in 1..Len(q), IsLast(q, k, i)
      PROVE  Fits(q[i].line, ms[k], rs[k])
  <2>0. k \in Key  OBVIOUS
  <2>1. CASE i = Len(p) + 1
    <3>1. k = l.key /\ l.event # "ping" /\ q[i].line = l
      BY <1>1, <1>2, <1>8, <2>1 DEF IsLast, Acts
    <3> QED  BY <1>3, <2>0, <3>1
  <2>2. CASE i \in 1..Len(p)
    <3>1. IsLast(p, k, i) /\ q[i] = p[i]  BY <1>1, <1>8, <2>2 DEF IsLast
    <3>2. Fits(p[i].line, modes[k], rows[k])  BY <2>2, <3>1 DEF LinesOk
    <3>3. ~Acts(j, k)  BY <1>1, <1>8, <2>2 DEF IsLast
    <3>4. CASE k = l.key
      <4>1. l.event = "ping"  BY <1>2, <3>3, <3>4 DEF Acts
      <4>2. m = "quiet" /\ modes[k] = "done"  BY <3>4, <4>1
      <4>3. p[i].line.event = "stop"  BY <3>2, <4>2 DEF Fits
      <4>4. ms[k] = "quiet"  BY <1>3, <2>0, <3>4, <4>2
      <4> QED  BY <3>1, <4>3, <4>4 DEF Fits, Turning
    <3>5. CASE k # l.key  BY <1>3, <2>0, <3>1, <3>2, <3>5
    <3> QED  BY <3>4, <3>5
  <2> QED  BY <1>1, <2>1, <2>2
<1>9. LinesOk(q, ms, rs, sure)  BY <1>6, <1>7, <1>8 DEF LinesOk
<1> QED  BY <1>9 DEF q, j, ms, rs

\* A line that nobody follows leaves its key untold.
LEMMA LineLost ==
  ASSUME NEW p \in Seq(Job), NEW modes \in [Key -> Mode], NEW rows, DOMAIN rows = Key,
         NEW sure \in SUBSET Key, LinesOk(p, modes, rows, sure),
         NEW k \in Key, NEW m, NEW r, r.at \in Nat, rows[k].at \in Nat, rows[k].at <= r.at,
         \A i \in 1..Len(p) : IsEvent(p[i]) => p[i].line \in Line
  PROVE  LinesOk(p, [modes EXCEPT ![k] = m], [rows EXCEPT ![k] = r], sure \ {k})
<1> DEFINE ms == [modes EXCEPT ![k] = m]
           rs == [rows EXCEPT ![k] = r]
<1>1. \A o \in Key : /\ ms[o] = (IF o = k THEN m ELSE modes[o])
                     /\ rs[o] = (IF o = k THEN r ELSE rows[o])
OBVIOUS
<1> HIDE DEF ms, rs
<1>2. \A i \in 1..Len(p) : IsEvent(p[i]) => p[i].line.at <= rs[p[i].line.key].at
  <2> SUFFICES ASSUME NEW i \in 1..Len(p), IsEvent(p[i]) PROVE p[i].line.at <= rs[p[i].line.key].at
    OBVIOUS
  <2>1. p[i].line.key \in Key /\ p[i].line.at \in Nat /\ p[i].line.at <= rows[p[i].line.key].at
    BY Basics DEF LinesOk, Line
  <2> QED  BY <1>1, <2>1
<1>3. \A o \in sure \ {k} : \A i \in 1..Len(p) : IsLast(p, o, i) => Fits(p[i].line, ms[o], rs[o])
  BY <1>1 DEF LinesOk
<1>4. \A i, j \in 1..Len(p) : i < j /\ IsEvent(p[i]) /\ IsEvent(p[j]) =>
        p[i].line.at <= p[j].line.at
  BY DEF LinesOk
<1> QED  BY <1>2, <1>3, <1>4 DEF LinesOk, ms, rs

\* A queue with one more job.
LEMMA AppendIs ==
  ASSUME NEW p \in Seq(Job), NEW j
  PROVE  /\ Len(p) \in Nat /\ Len(Append(p, j)) = Len(p) + 1 /\ Append(p, j)[Len(p) + 1] = j
         /\ \A i \in 1..Len(p) : i \in 1..Len(Append(p, j)) /\ Append(p, j)[i] = p[i]
         /\ Len(p) + 1 \in 1..Len(Append(p, j))
         /\ \A i \in 1..Len(Append(p, j)) : i \in 1..Len(p) \/ i = Len(p) + 1
<1> HIDE DEF Job
<1> QED  OBVIOUS

\* It tells of the key of that job, too.
LEMMA ToldOfMore ==
  ASSUME NEW p \in Seq(Job), NEW j, NEW k
  PROVE  Told(Append(p, j), k) <=> Told(p, k) \/ Acts(j, k)
<1> DEFINE q == Append(p, j)
<1>1. /\ q[Len(p) + 1] = j
      /\ \A i \in 1..Len(p) : i \in 1..Len(q) /\ q[i] = p[i]
      /\ Len(p) + 1 \in 1..Len(q)
      /\ \A i \in 1..Len(q) : i \in 1..Len(p) \/ i = Len(p) + 1
  BY AppendIs
<1> HIDE DEF q
<1>2. Told(q, k) <=> Told(p, k) \/ Acts(j, k)  BY <1>1 DEF Told
<1> QED  BY <1>2 DEF q

\* Two sequences, one behind the other.
LEMMA ConcatIs ==
  ASSUME NEW S, NEW s \in Seq(S), NEW t \in Seq(S)
  PROVE  /\ Len(s \o t) = Len(s) + Len(t) /\ \A i \in 1..Len(s) : (s \o t)[i] = s[i]
         /\ \A i \in 1..Len(t) : (s \o t)[Len(s) + i] = t[i]
OBVIOUS

\* A line at the end of the feed is at the end of what is pending.
LEMMA PendingMore ==
  ASSUME EngineOk(eng), feed \in Seq(Line), NEW l \in Line
  PROVE  eng.queue \o Jobs(Append(feed, l)) = Append(Pending, [job |-> "event", line |-> l])
<1> DEFINE j == [job |-> "event", line |-> l]
           q == eng.queue
           a == Jobs(feed)
           b == Jobs(Append(feed, l))
<1>1. q \in Seq(Job) /\ a \in Seq(Job) /\ Len(a) = Len(feed)
      /\ \A i \in 1..Len(feed) : a[i] = [job |-> "event", line |-> feed[i]]
  BY JobsAre DEF EngineOk
<1>2. /\ Append(feed, l) \in Seq(Line) /\ Len(Append(feed, l)) = Len(feed) + 1 /\ Len(feed) \in Nat
      /\ Append(feed, l)[Len(feed) + 1] = l
      /\ \A i \in 1..Len(feed) : Append(feed, l)[i] = feed[i]
  <2> HIDE DEF Line
  <2> QED  OBVIOUS
<1>3. /\ b \in Seq(Job) /\ Len(b) = Len(feed) + 1
      /\ \A i \in 1..(Len(feed) + 1) : b[i] = [job |-> "event", line |-> Append(feed, l)[i]]
  BY <1>2, JobsAre
<1>4. b[Len(feed) + 1] = j /\ \A i \in 1..Len(feed) : b[i] = a[i]  BY <1>1, <1>2, <1>3
<1>5. j \in Job  BY DEF Job
<1>6. Len(b) = Len(a) + 1 /\ b[Len(a) + 1] = j /\ \A i \in 1..Len(a) : b[i] = a[i]
  BY <1>1, <1>3, <1>4
<1> HIDE DEF j, q, a, b, Job
<1>7. q \o b \in Seq(Job) /\ Append(q \o a, j) \in Seq(Job)  BY <1>1, <1>3, <1>5
<1>a. Len(q) \in Nat /\ Len(a) \in Nat /\ q \o a \in Seq(Job)  BY <1>1
<1>b. /\ Len(q \o a) = Len(q) + Len(a) /\ \A i \in 1..Len(q) : (q \o a)[i] = q[i]
      /\ \A i \in 1..Len(a) : (q \o a)[Len(q) + i] = a[i]
  BY <1>1, <1>a
<1>e. q \in Seq(Job) /\ b \in Seq(Job)  BY <1>1, <1>3
<1>c. /\ Len(q \o b) = Len(q) + Len(b) /\ \A i \in 1..Len(q) : (q \o b)[i] = q[i]
      /\ \A i \in 1..Len(b) : (q \o b)[Len(q) + i] = b[i]
  BY <1>e, ConcatIs
<1>d. /\ Len(Append(q \o a, j)) = Len(q \o a) + 1
      /\ \A i \in 1..Len(q \o a) : Append(q \o a, j)[i] = (q \o a)[i]
      /\ Append(q \o a, j)[Len(q \o a) + 1] = j
  BY <1>a
<1>8. Len(q \o b) = Len(Append(q \o a, j))  BY <1>6, <1>a, <1>b, <1>c, <1>d
<1>9. \A i \in 1..Len(q \o b) : (q \o b)[i] = Append(q \o a, j)[i]
  <2> SUFFICES ASSUME NEW i \in 1..Len(q \o b) PROVE (q \o b)[i] = Append(q \o a, j)[i]  OBVIOUS
  <2>1. CASE i \in 1..Len(q)  BY <1>a, <1>b, <1>c, <1>d, <2>1
  <2>2. CASE i - Len(q) \in 1..Len(a)
    <3>1. i = Len(q) + (i - Len(q)) /\ i \in 1..Len(q \o a) /\ i - Len(q) \in 1..Len(b)
      BY <1>6, <1>a, <1>b, <2>2
    <3>2. (q \o b)[i] = b[i - Len(q)] /\ (q \o a)[i] = a[i - Len(q)]  BY <1>b, <1>c, <2>2, <3>1
    <3> QED  BY <1>6, <1>d, <2>2, <3>1, <3>2
  <2>3. CASE i = Len(q) + Len(a) + 1
    <3>1. i = Len(q) + (Len(a) + 1) /\ Len(a) + 1 \in 1..Len(b)  BY <1>6, <1>a, <2>3
    <3>2. (q \o b)[i] = b[Len(a) + 1]  BY <1>c, <3>1
    <3> QED  BY <1>6, <1>b, <1>d, <2>3, <3>2
  <2> QED  BY <1>6, <1>a, <1>c, <2>1, <2>2, <2>3
<1>10. q \o b = Append(q \o a, j)  BY <1>7, <1>8, <1>9, SeqEqual
<1> QED  BY <1>10 DEF Pending, q, a, b, j

\* What its lines tell of a session after a hook: where it is now, unless the
\* line is lost.
ToldAs(k, g) ==
  IF ~eng.following /\ k \in unheard /\ g[3] = "working" THEN "blocked" ELSE g[3]

\* What a hook that starts changes.
Said(k, g, l) ==
  /\ g \in Goes /\ g[1] = mode[k] /\ l = [key |-> k, event |-> g[2], at |-> clock]
  /\ g[2] = "ping" => clock \in row[k].at + 1 .. row[k].at + After - 1
  /\ mode' = [mode EXCEPT ![k] = g[3]]
  /\ unheard' \in SUBSET Key
  /\ DOMAIN Modes = Key /\ Modes \in [Key -> Mode] /\ Modes' = [Modes EXCEPT ![k] = ToldAs(k, g)]
  /\ hook' = [hook EXCEPT ![k] = [state |-> StateOf(g[2]), at |-> clock]]
  /\ Rows' = [Rows EXCEPT ![k] = [state |-> StateOf(g[2]), at |-> clock]]
  /\ DOMAIN Rows = Key /\ hook[k] = NoRow /\ Rows[k] = row[k]
  /\ l \in Line
  /\ IF eng.following
       THEN /\ feed' = Append(feed, l) /\ UNCHANGED <<blurred, warned>>
            /\ Pending' = Append(Pending, [job |-> "event", line |-> l])
       ELSE /\ blurred' = blurred \cup {k} /\ warned' = [warned EXCEPT ![k] = 0]
            /\ feed' = feed /\ Pending' = Pending
  /\ UNCHANGED <<clock, row, eng, options, up, posting, pc, stop, outdated, landed, inFront, bare>>
  /\ ~stop /\ pc \in {"wait", "post"}

\* A hook that starts does that.
LEMMA HookSays ==
  ASSUME Sound, NEW k \in Key, HookAppends(k)
  PROVE  \E g, l : Said(k, g, l)
<1>1. /\ hook[k] = NoRow /\ hook \in [Key -> {NoRow} \cup Row] /\ EngineOk(eng)
      /\ feed \in Seq(Line)
      /\ clock \in Time /\ ~stop /\ pc \in {"wait", "post"}
  BY DEF HookAppends, Sound, Typed, Idle
<1> PICK g \in Goes :
       /\ g[1] = mode[k]
       /\ g[2] = "ping" => clock \in row[k].at + 1 .. row[k].at + After - 1
       /\ mode' = [mode EXCEPT ![k] = g[3]]
       /\ hook' = [hook EXCEPT ![k] = [state |-> StateOf(g[2]), at |-> clock]]
       /\ unheard' = IF eng.following /\ g[2] \in MovesOn THEN unheard \ {k} ELSE unheard
       /\ IF eng.following
            THEN /\ feed' = Append(feed, [key |-> k, event |-> g[2], at |-> clock])
                 /\ UNCHANGED <<blurred, warned>>
            ELSE /\ blurred' = blurred \cup {k}
                 /\ warned' = [warned EXCEPT ![k] = 0]
                 /\ UNCHANGED feed
  BY DEF HookAppends
<1> PICK l : l = [key |-> k, event |-> g[2], at |-> clock]  OBVIOUS
<1>2. UNCHANGED <<clock, row, eng, options, up, posting, pc, stop, outdated, landed, inFront, bare>>
  BY DEF HookAppends
<1>3. l \in Line  BY <1>1, GoesAre DEF Line
<1>4. Rows' = [Rows EXCEPT ![k] = [state |-> StateOf(g[2]), at |-> clock]] /\ DOMAIN Rows = Key
      /\ Rows[k] = row[k]
  <2>1. [state |-> StateOf(g[2]), at |-> clock] # NoRow  BY <1>1, Basics DEF NoRow
  <2>2. \A o \in Key : (IF hook'[o] = NoRow THEN row'[o] ELSE hook'[o])
          = IF o = k THEN [state |-> StateOf(g[2]), at |-> clock]
            ELSE IF hook[o] = NoRow THEN row[o] ELSE hook[o]
    BY <1>1, <1>2, <2>1
  <2> QED  BY <1>1, <2>2 DEF Rows
<1>5. IF eng.following
       THEN /\ feed' = Append(feed, l) /\ UNCHANGED <<blurred, warned>>
            /\ Pending' = Append(Pending, [job |-> "event", line |-> l])
       ELSE /\ blurred' = blurred \cup {k} /\ warned' = [warned EXCEPT ![k] = 0]
            /\ feed' = feed /\ Pending' = Pending
  <2>1. CASE eng.following
    <3>1. feed' = Append(feed, l) /\ UNCHANGED <<blurred, warned>>  BY <2>1
    <3>2. Pending' = eng.queue \o Jobs(Append(feed, l))  BY <1>2, <3>1 DEF Pending
    <3> QED  BY <1>1, <1>3, <2>1, <3>1, <3>2, PendingMore
  <2>2. CASE ~eng.following  BY <1>2, <2>2 DEF Pending
  <2> QED  BY <2>1, <2>2
<1>6. /\ unheard' \in SUBSET Key /\ DOMAIN Modes = Key /\ Modes \in [Key -> Mode]
      /\ Modes' = [Modes EXCEPT ![k] = ToldAs(k, g)]
  <2>1. unheard \in SUBSET Key /\ mode \in [Key -> Mode] /\ "blocked" \in Mode
    BY DEF Sound, Typed, Mode
  <2>2. Modes \in [Key -> Mode] /\ unheard' \in SUBSET Key  BY <2>1 DEF Modes
  <2>3. g[3] = "working" => g[2] \in MovesOn  BY GoesAre DEF Turning, MovesOn
  <2>4. k \in unheard' /\ g[3] = "working" <=> ~eng.following /\ k \in unheard /\ g[3] = "working"
    BY <2>3
  <2>5. \A o \in Key : Modes'[o] = IF o = k THEN ToldAs(k, g) ELSE Modes[o]
    <3> TAKE o \in Key
    <3>1. CASE o = k  BY <2>1, <2>4, <3>1 DEF Modes, ToldAs
    <3>2. CASE o # k  BY <2>1, <3>2 DEF Modes
    <3> QED  BY <3>1, <3>2
  <2> QED  BY <2>2, <2>5 DEF Modes
<1> QED  BY <1>1, <1>2, <1>3, <1>4, <1>5, <1>6 DEF Said

\* A line that is followed is pending, and one that is not is of a key the engine
\* is told less of.
LEMMA HookAppendsSound == ASSUME Sound, NEW k \in Key, HookAppends(k) PROVE Sound'
<1> PICK g, l : Said(k, g, l)  BY HookSays
<1>1. /\ g[2] \in Event /\ g[3] \in Mode
      /\ g[3] = "done" => g[2] = "stop"
      /\ g[3] \in Turning => /\ g[2] \in {"start", "prompt", "answer"}
                             /\ StateOf(g[2]) \in {"new", "working"}
      /\ g[3] = "quiet" => g[2] = "ping" /\ g[1] = "done"
      /\ g[2] = "ping" => g[3] = "quiet"
      /\ StateOf(g[2]) \in RowState
  BY GoesAre DEF Said
<1> DEFINE r == [state |-> StateOf(g[2]), at |-> clock]
           j == [job |-> "event", line |-> l]
<1>2. /\ clock \in Time /\ clock \in Nat /\ mode \in [Key -> Mode] /\ EngineOk(eng) /\ Tells
      /\ feed \in Seq(Line) /\ Pending \in Seq(Job)
  BY Basics, PendingIs DEF Said, Sound, Typed
<1>3. Typed'
  <2>1. mode' \in [Key -> Mode] /\ hook' \in [Key -> {NoRow} \cup Row]
    BY <1>1, <1>2 DEF Said, Sound, Typed, Row
  <2>2. feed' \in Seq(Line)
    <3> HIDE DEF Line
    <3>1. feed' = feed \/ feed' = Append(feed, l)  BY DEF Said
    <3>2. l \in Line  BY DEF Said
    <3> QED  BY <1>2, <3>1, <3>2
  <2>3. blurred' \in SUBSET Key /\ warned' \in [Key -> Nat]
    <3>1. blurred \in SUBSET Key /\ warned \in [Key -> Nat]  BY DEF Sound, Typed
    <3>2. CASE eng.following  BY <3>1, <3>2 DEF Said
    <3>3. CASE ~eng.following  BY <3>1, <3>3 DEF Said
    <3> QED  BY <3>2, <3>3
  <2> QED  BY <2>1, <2>2, <2>3 DEF Said, Sound, Typed
<1>4. AtRest'  BY DEF Said, Sound, AtRest
<1>5. \A o \in Key : Rows[o].at \in Nat /\ Rows[o].at <= clock  BY DEF Sound, RowsOk
<1>6. (RowsOk(Modes, Rows, clock))'
  <2>1. ToldAs(k, g) \in Turning => g[3] \in Turning  BY DEF ToldAs, Turning
  <2>2. RowsOk([Modes EXCEPT ![k] = ToldAs(k, g)], [Rows EXCEPT ![k] = r], clock)
    BY <1>1, <1>2, <2>1 DEF Sound, RowsOk, Said
  <2> QED  BY <2>2 DEF RowsOk, Said
<1>7. \A i \in 1..Len(Pending) : IsEvent(Pending[i]) => Pending[i].line \in Line
  <2>1. \A i \in 1..Len(Pending) : Pending[i] \in Job
    <3> HIDE DEF Job
    <3> QED  BY <1>2
  <2> QED  BY <2>1 DEF Job, IsEvent
<1>8. (LinesOk(Pending, Modes, Rows, Sure))'
  <2>1. LinesOk(Pending, Modes, Rows, Sure) /\ Sure \in SUBSET Key  BY <1>2 DEF Tells, Sure
  <2>2. CASE eng.following
    <3>1. IF l.event = "ping" THEN g[3] = "quiet" /\ Modes[l.key] = "done"
                                 ELSE Fits(l, g[3], r)
      <4>1. l.event = "ping" => Modes[l.key] = "done"  BY <1>1 DEF Said, Modes
      <4> QED  BY <1>1, <4>1 DEF Said, Fits
    <3>2. l.key = k /\ l.at = clock /\ r.at = l.at /\ l \in Line  BY DEF Said
    <3>3. LinesOk(Append(Pending, j), [Modes EXCEPT ![k] = g[3]], [Rows EXCEPT ![k] = r], Sure)
      <4> HIDE DEF j, r
      <4>0. Modes \in [Key -> Mode]  BY DEF Said
      <4>1. DOMAIN Rows = Key  BY DEF Said
      <4>2. \A o \in Key : Rows[o].at \in Nat /\ Rows[o].at <= l.at  BY <1>5, <3>2
      <4>3. LinesOk(Append(Pending, [job |-> "event", line |-> l]),
                    [Modes EXCEPT ![l.key] = g[3]], [Rows EXCEPT ![l.key] = r], Sure)
        BY <1>2, <1>7, <2>1, <3>1, <3>2, <4>0, <4>1, <4>2, LineAdded
      <4> QED  BY <3>2, <4>3 DEF j
    <3>4. Sure' = Sure /\ ToldAs(k, g) = g[3]  BY <2>2 DEF Said, Sure, ToldAs
    <3> QED  BY <2>2, <3>3, <3>4 DEF Said, LinesOk
  <2>3. CASE ~eng.following
    <3>1. LinesOk(Pending, [Modes EXCEPT ![k] = ToldAs(k, g)], [Rows EXCEPT ![k] = r], Sure \ {k})
      <4>1. /\ DOMAIN Rows = Key /\ r.at = clock /\ r.at \in Nat /\ Rows[k].at \in Nat
            /\ Rows[k].at <= r.at /\ Modes \in [Key -> Mode]
        BY <1>2, <1>5 DEF Said
      <4> HIDE DEF r
      <4> QED  BY <1>2, <1>7, <2>1, <4>1, LineLost
    <3>2. Sure' = Sure \ {k}  BY <2>3 DEF Said, Sure
    <3> QED  BY <2>3, <3>1, <3>2 DEF Said, LinesOk
  <2> QED  BY <2>2, <2>3
<1>9. (DuesOk(Pending, clock))'
  <2>1. DuesOk(Pending, clock)  BY <1>2 DEF Tells
  <2>2. DuesOk(Append(Pending, j), clock)
    <3>1. IsEvent(j)  BY DEF IsEvent
    <3> HIDE DEF j
    <3> QED  BY <1>2, <2>1, <3>1, AppendIs DEF DuesOk
  <2> QED  BY <2>1, <2>2 DEF Said, DuesOk
<1>10. (FreshOk(Pending, Modes, up, posting, eng.armedBy, Key \ blurred))'
  <2> SUFFICES ASSUME NEW o \in Key \ blurred', Modes'[o] \in Turning, ~Told(Pending', o)
               PROVE  o \notin up /\ posting.key # o /\ eng.armedBy[o] = None
    BY DEF FreshOk, Said
  <2>1. o \notin blurred /\ (o = k => eng.following)  BY DEF Said
  <2>2. ~Told(Pending, o) /\ (eng.following => ~Acts(j, o))
    <3>1. CASE eng.following  BY <1>2, <3>1, ToldOfMore DEF Said
    <3>2. CASE ~eng.following  BY <3>2 DEF Said
    <3> QED  BY <3>1, <3>2
  <2>3. o # k
    <3> SUFFICES ASSUME o = k PROVE FALSE  OBVIOUS
    <3>1. Modes'[k] = ToldAs(k, g)  BY <1>2 DEF Said
    <3>2. g[3] \in Turning  BY <3>1 DEF ToldAs, Turning
    <3>3. g[2] # "ping"  BY <1>1, <3>2
    <3>4. Acts(j, k)  BY <3>3 DEF Acts, Said
    <3> QED  BY <2>1, <2>2, <3>4
  <2>4. Modes[o] \in Turning  BY <1>2, <2>3 DEF Said
  <2> QED  BY <1>2, <2>1, <2>2, <2>4 DEF Tells, FreshOk
<1>11. (~eng.following => feed = <<>>)'  BY <1>2 DEF Said, Tells
<1>12. (Covered(eng))'  BY <1>2 DEF Said, Tells, Covered, Waits
<1> QED  BY <1>3, <1>4, <1>6, <1>8, <1>9, <1>10, <1>11, <1>12 DEF Sound, Tells

\* Rows that are newer, with states nothing is armed from, keep what was told.
LEMMA RowsMove ==
  ASSUME NEW p, NEW modes, NEW rows, DOMAIN rows = Key, NEW sure \in SUBSET Key,
         LinesOk(p, modes, rows, sure), NEW k \in Key, NEW r, r.state \notin Waiting,
         r.at \in Nat, rows[k].at \in Nat, rows[k].at <= r.at, modes[k] # "done",
         \A i \in 1..Len(p) : IsEvent(p[i]) => p[i].line \in Line
  PROVE  LinesOk(p, modes, [rows EXCEPT ![k] = r], sure)
<1> DEFINE rs == [rows EXCEPT ![k] = r]
<1>1. \A o \in Key : rs[o] = (IF o = k THEN r ELSE rows[o])  OBVIOUS
<1> HIDE DEF rs
<1>2. \A i \in 1..Len(p) : IsEvent(p[i]) => p[i].line.at <= rs[p[i].line.key].at
  <2> SUFFICES ASSUME NEW i \in 1..Len(p), IsEvent(p[i]) PROVE p[i].line.at <= rs[p[i].line.key].at
    OBVIOUS
  <2>1. p[i].line.key \in Key /\ p[i].line.at \in Nat /\ p[i].line.at <= rows[p[i].line.key].at
    BY Basics DEF LinesOk, Line
  <2> QED  BY <1>1, <2>1
<1>3. \A o \in sure : \A i \in 1..Len(p) : IsLast(p, o, i) => Fits(p[i].line, modes[o], rs[o])
  <2> TAKE o \in sure
  <2> TAKE i \in 1..Len(p)
  <2>1. IsLast(p, o, i) => Fits(p[i].line, modes[o], rows[o])  BY DEF LinesOk
  <2>2. CASE o = k  BY <1>1, <2>1, <2>2 DEF Fits
  <2>3. CASE o # k  BY <1>1, <2>1, <2>3
  <2> QED  BY <2>2, <2>3
<1>4. \A i, j \in 1..Len(p) : i < j /\ IsEvent(p[i]) /\ IsEvent(p[j]) =>
        p[i].line.at <= p[j].line.at
  BY DEF LinesOk
<1> QED  BY <1>2, <1>3, <1>4 DEF LinesOk, rs

\* What a tool that asks nothing changes: a row, and no more than its lines tell.
Ran(k) ==
  /\ Rows' = [Rows EXCEPT ![k] = [state |-> "working", at |-> clock]]
  /\ DOMAIN Rows = Key /\ Rows[k].at <= clock /\ Rows[k].at \in Nat /\ clock \in Nat
  /\ mode' \in [Key -> Mode] /\ unheard' \in SUBSET Key /\ Modes' = Modes
  /\ hook' \in [Key -> {NoRow} \cup Row] /\ Modes[k] \notin {"done", "quiet"} /\ Pending' = Pending
  /\ UNCHANGED <<clock, row, feed, eng, options, up, posting, pc, stop, blurred, past, bare>>
  /\ ~stop /\ pc \in {"wait", "post"}

\* It does that.
LEMMA ToolRunsIs == ASSUME Sound, NEW k \in Key, ToolRuns(k) PROVE Ran(k)
<1>1. /\ hook[k] = NoRow /\ hook \in [Key -> {NoRow} \cup Row] /\ clock \in Time /\ clock \in Nat
      /\ ~stop /\ pc \in {"wait", "post"} /\ mode[k] \in {"working", "asking", "blocked"}
      /\ mode \in [Key -> Mode] /\ unheard \in SUBSET Key
      /\ mode' = [mode EXCEPT ![k] = IF @ = "blocked" THEN "working" ELSE @]
      /\ unheard' = IF mode[k] = "blocked" THEN unheard \cup {k} ELSE unheard
      /\ hook' = [hook EXCEPT ![k] = [state |-> "working", at |-> clock]]
      /\ UNCHANGED <<clock, row, feed, eng, options, up, posting, pc, stop, blurred, past, bare>>
  BY Basics DEF ToolRuns, Idle, Sound, Typed
<1>2. [state |-> "working", at |-> clock] # NoRow /\ [state |-> "working", at |-> clock] \in Row
  BY <1>1, Basics DEF NoRow, Row, RowState
<1>3. Rows' = [Rows EXCEPT ![k] = [state |-> "working", at |-> clock]]
  <2>1. \A o \in Key : (IF hook'[o] = NoRow THEN row'[o] ELSE hook'[o])
          = IF o = k THEN [state |-> "working", at |-> clock]
            ELSE IF hook[o] = NoRow THEN row[o] ELSE hook[o]
    BY <1>1, <1>2
  <2> QED  BY <2>1 DEF Rows
<1>4. mode' \in [Key -> Mode] /\ unheard' \in SUBSET Key  BY <1>1 DEF Mode
<1>5. Modes' = Modes
  <2>1. \A o \in Key : Modes'[o] = Modes[o]
    <3> TAKE o \in Key
    <3>1. CASE o = k  BY <1>1, <3>1 DEF Modes
    <3>2. CASE o # k  BY <1>1, <3>2 DEF Modes
    <3> QED  BY <3>1, <3>2
  <2> QED  BY <2>1 DEF Modes
<1>6. Modes[k] \notin {"done", "quiet"}  BY <1>1 DEF Modes
<1>7. hook' \in [Key -> {NoRow} \cup Row]  BY <1>1, <1>2
<1>8. Rows[k].at <= clock /\ Rows[k].at \in Nat /\ DOMAIN Rows = Key
  BY DEF Sound, RowsOk, Rows
<1>9. Pending' = Pending  BY <1>1 DEF Pending
<1> QED  BY <1>1, <1>3, <1>4, <1>5, <1>6, <1>7, <1>8, <1>9 DEF Ran

\* A tool that asks nothing keeps the invariant.
LEMMA ToolRunsSound == ASSUME Sound, NEW k \in Key, ToolRuns(k) PROVE Sound'
<1>1. Ran(k)  BY ToolRunsIs
<1>2. Tells /\ EngineOk(eng) /\ feed \in Seq(Line) /\ Pending \in Seq(Job)
  BY <1>1, PendingIs DEF Ran, Sound, Typed
<1>3. Typed'  BY <1>1 DEF Ran, Sound, Typed, past
<1>4. AtRest'  BY <1>1 DEF Ran, Sound, AtRest
<1>5. (RowsOk(Modes, Rows, clock))'
  <2>1. RowsOk(Modes, [Rows EXCEPT ![k] = [state |-> "working", at |-> clock]], clock)
    BY <1>1 DEF Sound, RowsOk, Ran
  <2> QED  BY <1>1, <2>1 DEF RowsOk, Ran
<1>6. \A i \in 1..Len(Pending) : IsEvent(Pending[i]) => Pending[i].line \in Line
  <2>1. \A i \in 1..Len(Pending) : Pending[i] \in Job
    <3> HIDE DEF Job
    <3> QED  BY <1>2
  <2> QED  BY <2>1 DEF Job, IsEvent
<1>7. (LinesOk(Pending, Modes, Rows, Sure))'
  <2>1. LinesOk(Pending, Modes, Rows, Sure) /\ Sure \in SUBSET Key  BY <1>2 DEF Tells, Sure
  <2> DEFINE r == [state |-> "working", at |-> clock]
  <2>2. r.state \notin Waiting /\ r.at = clock  BY DEF Waiting
  <2> HIDE DEF r
  <2>3. Rows' = [Rows EXCEPT ![k] = r]  BY <1>1 DEF Ran, r
  <2>4. LinesOk(Pending, Modes, Rows', Sure)
    <3>1. DOMAIN Rows = Key /\ Rows[k].at <= r.at /\ Rows[k].at \in Nat /\ r.at \in Nat
          /\ Modes[k] # "done"
      BY <1>1, <2>2 DEF Ran
    <3> HIDE DEF LinesOk, Rows, Modes, Sure, IsEvent, Pending, Line
    <3>2. LinesOk(Pending, Modes, [Rows EXCEPT ![k] = r], Sure)
      BY <1>6, <2>1, <2>2, <3>1, RowsMove
    <3> QED  BY <2>3, <3>2
  <2>5. Sure' = Sure /\ Pending' = Pending /\ Modes' = Modes  BY <1>1 DEF Ran, Sure
  <2> QED  BY <2>4, <2>5 DEF LinesOk
<1>8. (DuesOk(Pending, clock))'  BY <1>1, <1>2 DEF Ran, Tells, DuesOk
<1>9. (FreshOk(Pending, Modes, up, posting, eng.armedBy, Key \ blurred))'
  BY <1>1, <1>2 DEF Ran, Tells, FreshOk
<1>10. (~eng.following => feed = <<>>)' /\ (Covered(eng))'
  BY <1>1, <1>2 DEF Ran, Tells, Covered, Waits
<1> QED  BY <1>3, <1>4, <1>5, <1>7, <1>8, <1>9, <1>10 DEF Sound, Tells

-----------------------------------------------------------------------------
(* The first theorem *)

\* The invariant holds before the start.
LEMMA SoundInit == Init => Sound
<1> SUFFICES ASSUME Init PROVE Sound  OBVIOUS
<1>1. PICK s \in [Key -> {<<"none", "none">>, <<"working", "working">>, <<"done", "done">>}] :
       /\ mode = [k \in Key |-> s[k][1]]
       /\ row = [k \in Key |-> [state |-> s[k][2], at |-> 0]]
  BY DEF Init
<1>2. EngineOk(eng) /\ eng.queue = <<>> /\ eng.refollow = NoRefollow /\ ~eng.following
      /\ eng.armedBy = [k \in Key |-> None]
  <2>1. IsWaiting(<<>>)  BY DEF IsWaiting
  <2>2. <<>> \in UNION {[asked -> Time] : asked \in SUBSET Key}
    <3>1. <<>> \in [{} -> Time] /\ {} \in SUBSET Key  OBVIOUS
    <3> QED  BY <3>1
  <2>3. [k \in Key |-> None] \in [Key -> {None} \cup Time]  OBVIOUS
  <2>4. <<>> \in Seq(Job)  OBVIOUS
  <2>5. RefollowMin \in RefollowMin..RefollowMax  BY EngineAssumption
  <2>6. /\ DOMAIN eng = EngineFields /\ eng.queue = <<>> /\ eng.deadlines = <<>>
        /\ eng.armedBy = [k \in Key |-> None] /\ eng.warnedAt = [k \in Key |-> None]
        /\ eng.questions = <<>> /\ eng.following = FALSE /\ eng.refollow = NoRefollow
        /\ eng.after = RefollowMin
    BY DEF Init, EngineFields, NoQuestions
  <2> QED  BY <2>1, <2>2, <2>3, <2>4, <2>5, <2>6 DEF EngineOk
<1>3. \A k \in Key : mode[k] \in Mode /\ row[k] \in Row /\ row[k].at = 0
                     /\ (Modes[k] \in Turning => row[k].state = "working")
  <2> TAKE k \in Key
  <2>1. s[k] \in {<<"none", "none">>, <<"working", "working">>, <<"done", "done">>}  OBVIOUS
  <2>2. 0 \in Time  BY EngineAssumption DEF Time
  <2>3. mode[k] = s[k][1] /\ row[k] = [state |-> s[k][2], at |-> 0]  BY <1>1
  <2>4. unheard = {}  BY DEF Init
  <2>5. Modes[k] = mode[k]  BY <2>4 DEF Modes
  <2>6. mode[k] \in Mode /\ row[k] \in Row /\ row[k].at = 0
    BY <2>1, <2>2, <2>3 DEF Mode, Row, RowState
  <2>7. mode[k] \in Turning => row[k].state = "working"  BY <2>1, <2>3 DEF Turning
  <2> QED  BY <2>5, <2>6, <2>7
<1>4. mode \in [Key -> Mode] /\ row \in [Key -> Row] /\ hook = [k \in Key |-> NoRow] /\ feed = <<>>
      /\ clock = 0 /\ clock \in Time
  <2>1. 0 \in Time  BY EngineAssumption DEF Time
  <2> QED  BY <1>1, <1>3, <2>1 DEF Init
<1>5. Typed
  <2>1. hook \in [Key -> {NoRow} \cup Row] /\ warned \in [Key -> Nat] /\ feed \in Seq(Line)
    BY <1>4 DEF Init
  <2> QED  BY <1>2, <1>4, <2>1 DEF Init, Typed
<1>6. AtRest  BY <1>2, <1>4 DEF AtRest, Init
<1>7. RowsOk(Modes, Rows, clock)  BY <1>3, <1>4 DEF RowsOk, Rows, Modes, Init
<1>8. Tells
  <2>1. Pending = <<>>  BY <1>2, <1>4, PendingIs
  <2>2. FreshOk(Pending, Modes, up, posting, eng.armedBy, Key \ blurred)
    BY <1>2, Basics DEF FreshOk, Init
  <2> QED  BY <1>2, <1>4, <2>1, <2>2 DEF Tells, LinesOk, DuesOk, Covered
<1> QED  BY <1>5, <1>6, <1>7, <1>8 DEF Sound

\* Each step keeps it.
LEMMA SoundStep == Sound /\ [Next]_vars => Sound'
<1> SUFFICES ASSUME Sound, [Next]_vars PROVE Sound'  OBVIOUS
<1>1. CASE \E k \in Key : HookAppends(k) \/ ToolRuns(k) \/ HookPublishes(k)
  BY <1>1, HookAppendsSound, ToolRunsSound, HookPublishesSound
<1>2. CASE LoopStep
  BY <1>2, StartCalls, WakeCalls, TickCalls, RefollowsCalls, LoopCalls, StepOverSound,
     StepSound, DueSound,
     PostEndsSound, RunEndsSound, StopEngineSound DEF LoopStep
<1>3. CASE Reload \/ Signal \/ Advance \/ StartFails \/ UNCHANGED vars  BY <1>3, OthersSound
<1> QED  BY <1>1, <1>2, <1>3 DEF Next

\* The type invariant of the run is part of it.
LEMMA SoundTypes == Sound => TypeOK
<1> SUFFICES ASSUME Sound PROVE TypeOK  OBVIOUS
<1>1. Typed /\ EngineOk(eng)  BY DEF Sound, Typed
<1>2. eng.deadlines \in Seq(Deadline)
  <2>1. [key : Key, since : Time, due : Int] \subseteq Deadline  BY Basics DEF Deadline, Time
  <2>2. eng.deadlines \in Seq([key : Key, since : Time, due : Int])
    BY <1>1 DEF EngineOk, IsWaiting
  <2> DEFINE S == [key : Key, since : Time, due : Int]
  <2> HIDE DEF S, Deadline
  <2>3. S \subseteq Deadline /\ eng.deadlines \in Seq(S)  BY <2>1, <2>2 DEF S
  <2> QED  BY <2>3
<1>3. \A i, j \in 1..Len(eng.deadlines) : eng.deadlines[i].key = eng.deadlines[j].key => i = j
  BY <1>1 DEF EngineOk, IsWaiting
<1>4. /\ {eng.armedBy, eng.warnedAt} \subseteq [Key -> {None} \cup Time]
      /\ eng.questions \in UNION {[asked -> Time] : asked \in SUBSET Key}
      /\ eng.following => eng.refollow = NoRefollow
      /\ eng.after \in RefollowMin..RefollowMax
  BY <1>1 DEF EngineOk
<1>5. {up, blurred, unheard, outdated, inFront} \subseteq SUBSET Key  BY <1>1 DEF Typed
<1> QED  BY <1>1, <1>2, <1>3, <1>4, <1>5 DEF Typed, TypeOK, Mode, Row

\* For any number of sessions, events, deaths and options: what is on screen at
\* rest is of what its session does, and a key that is armed has the deadline it
\* was armed with, whatever cancelled, armed again or took out its deadline and
\* whoever followed (arm_from_states, step, due and post of engine.rs).
THEOREM WaitsForWhatStandsHolds == Spec => []WaitsForWhatStands
<1>1. Sound => WaitsForWhatStands
  <2> SUFFICES ASSUME Sound PROVE WaitsForWhatStands  OBVIOUS
  <2>1. NothingStaleAtRest
    <3> SUFFICES ASSUME pc = "wait", ~stop, eng.queue = <<>>, feed = <<>>, NEW k \in up,
                        mode[k] \in {"fresh", "working"}, k \notin blurred, k \notin unheard
                 PROVE  FALSE
      BY DEF NothingStaleAtRest, AtRestWorking
    <3>1. Pending = <<>> /\ k \in Key /\ Tells  BY PendingIs DEF Sound, Typed
    <3>2. ~Told(Pending, k)  BY <3>1 DEF Told
    <3>3. Modes[k] \in Turning  BY <3>1 DEF Modes, Turning
    <3> QED  BY <3>1, <3>2, <3>3 DEF Tells, FreshOk
  <2>2. ArmedHasDeadline  BY DEF ArmedHasDeadline, Sound, Tells, Covered, Waits, Has
  <2> QED  BY <2>1, <2>2, SoundTypes DEF WaitsForWhatStands
<1> QED  BY <1>1, SoundInit, SoundStep, PTL DEF Spec

-----------------------------------------------------------------------------
(* The invariant of the warnings *)

\* A question that is remembered is older than its row and than what is pending,
\* and so is one whose notice is in flight.
AsksOk(p, rows, asked, post) ==
  /\ \A k \in DOMAIN asked :
       /\ asked[k] <= rows[k].at
       /\ \A i \in 1..Len(p) : IsEvent(p[i]) => asked[k] <= p[i].line.at
  /\ post.key # None /\ post.kind # "cache_expiring" =>
       /\ post.at <= rows[post.key].at
       /\ \A i \in 1..Len(p) : IsEvent(p[i]) => post.at <= p[i].line.at

\* The notice in flight warns of the cache of a key, or tells of an event.
WarnsOf(post, k) == post.key = k /\ post.kind = "cache_expiring"

TellsOf(post, k) == post.key = k /\ post.kind # "cache_expiring"

\* Of a key that was warned about: nothing arms it, and its row is older than the
\* warning unless something is pending that will be taken in.  For a question
\* that is remembered, the warning came later than its window.
WarnsOk(p, k, m, r, e, w, post) ==
  /\ w = 1 => e.armedBy[k] = None /\ e.warnedAt[k] # None /\ post.key # k
  /\ WarnsOf(post, k) => e.armedBy[k] = None
  /\ k \in DOMAIN e.questions =>
       /\ w = 1 => e.questions[k] + After <= e.warnedAt[k]
       /\ e.armedBy[k] # None => e.questions[k] <= e.armedBy[k]
       /\ WarnsOf(post, k) => e.questions[k] + After <= post.at
  /\ TellsOf(post, k) /\ e.armedBy[k] # None => post.at <= e.armedBy[k]
  /\ ~Told(p, k) =>
       /\ e.armedBy[k] # None /\ m = "done" => r.at <= e.armedBy[k]
       /\ WarnsOf(post, k) => /\ r.state \in Waiting => r.at <= post.at
                              /\ m = "done" => r.at + After <= post.at
       /\ w = 1 => /\ r.state \in Waiting => r.at <= e.warnedAt[k]
                   /\ m = "done" => r.at + After <= e.warnedAt[k]

\* The keys the property is about.
Clear == Key \ (blurred \cup outdated)

\* A person was warned once, or will be.
CountOk(k, w, post) == w <= 1 /\ (WarnsOf(post, k) => w = 0)

\* The invariant of the warnings.
Once ==
  /\ \A k \in Clear : CountOk(k, warned[k], posting)
  /\ ~stop => /\ AsksOk(Pending, Rows, eng.questions, posting)
              /\ \A k \in Clear :
                   WarnsOk(Pending, k, Modes[k], Rows[k], eng, warned[k], posting)

-----------------------------------------------------------------------------
(* Each step keeps it, too *)

\* A queue that shows another is no older.
LEMMA AsksShow ==
  ASSUME NEW p, NEW q, NEW rows, NEW asked, NEW post, AsksOk(p, rows, asked, post), Shows(p, q)
  PROVE  AsksOk(q, rows, asked, post)
<1>1. \A i \in 1..Len(q) : IsEvent(q[i]) => \E m \in 1..Len(p) : p[m] = q[i]  BY DEF Shows, Ripe
<1> QED  BY <1>1 DEF AsksOk

\* What is the same for a key keeps what was said of it.
LEMMA WarnsStay ==
  ASSUME NEW p, NEW q, NEW k, NEW m, NEW r, NEW e, NEW f, NEW w, NEW post, NEW more,
         WarnsOk(p, k, m, r, e, w, post), Told(p, k) => Told(q, k),
         f.armedBy[k] = e.armedBy[k], f.warnedAt[k] = e.warnedAt[k],
         k \in DOMAIN f.questions => k \in DOMAIN e.questions /\ f.questions[k] = e.questions[k],
         more.key # k \/ more = post
  PROVE  WarnsOk(q, k, m, r, f, w, more)
BY DEF WarnsOk, WarnsOf, TellsOf

\* A call of the loop arms no key that was warned about: its row is not newer.
LEMMA CallsOnce == ASSUME Sound, Once, CallDone PROVE Once'
<1>1. /\ UNCHANGED <<clock, mode, unheard, row, hook, posting, stop, warned, outdated>>
      /\ Rows' = Rows /\ Modes' = Modes
      /\ Shows(Pending, Pending') /\ ToldToo(Pending, Pending') /\ ~stop
      /\ eng'.warnedAt = eng.warnedAt /\ eng'.questions = eng.questions
      /\ \A k \in Key \ blurred' :
           \/ eng'.armedBy[k] = eng.armedBy[k]
           \/ /\ eng'.armedBy[k] = row[k].at
              /\ Pending = <<>> /\ hook[k] = NoRow /\ Rearmable(eng, k)
      /\ blurred \subseteq blurred'
  BY DEF CallDone, CallLeaves, Rows, Modes
<1>2. posting.key = None /\ \A k \in Key : k # None  BY Basics DEF CallDone, Sound, Typed
<1>3. AsksOk(Pending', Rows, eng.questions, posting)  BY <1>1, AsksShow DEF Once
<1>4. \A k \in Clear' : k \in Key /\ k \in Clear /\ k \notin blurred'  BY <1>1 DEF Clear
<1>5. ASSUME NEW k \in Clear'
      PROVE  WarnsOk(Pending', k, Modes[k], Rows[k], eng', warned[k], posting)
  <2>1. /\ WarnsOk(Pending, k, Modes[k], Rows[k], eng, warned[k], posting) /\ k \in Key
        /\ k \notin blurred'
    BY <1>1, <1>4 DEF Once
  <2>2. CASE eng'.armedBy[k] = eng.armedBy[k]
    <3>1. Told(Pending, k) => Told(Pending', k)  BY <1>1, <2>1 DEF ToldToo
    <3> QED  BY <1>1, <2>1, <2>2, <3>1, WarnsStay
  <2>3. CASE /\ eng'.armedBy[k] = row[k].at
             /\ Pending = <<>> /\ hook[k] = NoRow /\ Rearmable(eng, k)
    <3>1. Rows[k] = row[k] /\ Rows[k].at \in Nat  BY <2>1, <2>3 DEF Rows, Sound, RowsOk
    <3>2. ~Told(Pending, k)  BY <2>3 DEF Told
    <3>3. warned[k] # 1  BY <2>1, <2>3, <3>1, <3>2 DEF WarnsOk, Rearmable, Waiting
    <3>4. k \in DOMAIN eng'.questions => eng'.questions[k] <= eng'.armedBy[k]
      BY <1>1, <2>3, <3>1 DEF Once, AsksOk
    <3>5. posting.key # k  BY <1>2, <2>1
    <3>6. Rows[k].at <= eng'.armedBy[k]  BY <2>3, <3>1
    <3> QED  BY <3>3, <3>4, <3>5, <3>6 DEF WarnsOk, WarnsOf, TellsOf
  <2> QED  BY <1>1, <2>1, <2>2, <2>3
<1>6. \A k \in Clear' : CountOk(k, warned[k], posting)  BY <1>4 DEF Once
<1> QED  BY <1>1, <1>3, <1>5, <1>6 DEF Once, CountOk, WarnsOk, AsksOk

\* A prompt that is held back came within the window of its question, and so
\* before any warning of it: this is where Window < After is needed.
LEMMA StepOverOnce == ASSUME Window < After, Sound, Once, StepOver PROVE Once'
<1> DEFINE j == Head(eng.queue)
           l == j.line
<1>1. /\ EngineOk(eng) /\ Tells /\ eng.queue # <<>> /\ TakesJob /\ eng' = Rest /\ ~stop
      /\ j.job = "event" /\ (l.event = "ping" \/ HeldBack(l))
      /\ UNCHANGED <<clock, mode, unheard, row, hook, feed, stop, up, blurred, outdated, warned, posting,
                      pc>>
  BY FirstJob DEF StepOver, world, past, TakesJob
<1>2. /\ Rows' = Rows /\ Modes' = Modes /\ Clear' = Clear /\ Clear \subseteq Key
      /\ \A k \in Clear : k \in Sure
  BY <1>1 DEF Rows, Modes, Clear, Sure
<1>3. SameArms(eng, eng') /\ eng'.queue = Tail(eng.queue)  BY <1>1, RestIs
<1>4. Pending' = Tail(Pending) /\ Shows(Pending, Tail(Pending))
  <2>1. feed \in Seq(Line)  BY DEF Sound, Typed
  <2>2. Pending' = Tail(eng.queue) \o Jobs(feed)  BY <1>1, <1>3 DEF Pending
  <2>3. Pending \in Seq(Job) /\ Pending # <<>> /\ Pending' = Tail(Pending)
    BY <1>1, <2>1, <2>2, PendingIs
  <2> QED  BY <2>3, TailShows
<1>5. AsksOk(Tail(Pending), Rows, eng.questions, posting)  BY <1>1, <1>4, AsksShow DEF Once
<1>6. ASSUME NEW k \in Clear
      PROVE  WarnsOk(Tail(Pending), k, Modes[k], Rows[k], eng', warned[k], posting)
  <2>1. WarnsOk(Pending, k, Modes[k], Rows[k], eng, warned[k], posting) /\ k \in Key /\ k \in Sure
    BY <1>1, <1>2 DEF Once
  <2>2. CASE Told(Pending, k) => Told(Tail(Pending), k)
    BY <1>3, <2>1, <2>2, WarnsStay DEF SameArms
  <2>3. CASE Told(Pending, k) /\ ~Told(Tail(Pending), k)
    <3>1. Acts(j, k) /\ Fits(l, Modes[k], Rows[k])  BY <1>1, <2>1, <2>3, FirstJob
    <3>2. HeldBack(l) /\ l.key = k /\ l.event = "permission"  BY <1>1, <3>1 DEF Acts, HeldBack
    <3>3. Modes[k] # "done" /\ (Rows[k].state \in Waiting => l.at = Rows[k].at)
      BY <3>1, <3>2 DEF Fits
    <3>4. k \in DOMAIN eng.questions /\ l.at - eng.questions[k] <= Window  BY <3>2 DEF HeldBack
    <3>5. warned[k] = 1 /\ Rows[k].state \in Waiting => Rows[k].at <= eng.warnedAt[k]
      <4> SUFFICES ASSUME warned[k] = 1, Rows[k].state \in Waiting
                   PROVE Rows[k].at <= eng.warnedAt[k]
        OBVIOUS
      <4>1. eng.questions[k] + After <= eng.warnedAt[k] /\ eng.warnedAt[k] # None
        BY <2>1, <3>4 DEF WarnsOk
      <4>2. eng.questions[k] \in Nat /\ eng.warnedAt[k] \in Nat
        <5>1. PICK asked \in SUBSET Key : eng.questions \in [asked -> Time]
          BY <1>1 DEF EngineOk
        <5>2. eng.warnedAt \in [Key -> {None} \cup Time]  BY <1>1 DEF EngineOk
        <5>3. eng.questions[k] \in Time  BY <3>4, <5>1
        <5>4. eng.warnedAt[k] \in Time  BY <2>1, <4>1, <5>2
        <5> QED  BY <5>3, <5>4, Basics
      <4>3. Rows[k].at \in Nat /\ Window \in Nat /\ After \in Nat
        BY <2>1, EngineAssumption DEF Sound, RowsOk
      <4> QED  BY <3>3, <3>4, <4>1, <4>2, <4>3
    <3>6. posting.key # k  BY <1>1, <2>1, Basics DEF Sound, Typed, TakesJob
    <3>7. /\ eng'.armedBy = eng.armedBy /\ eng'.warnedAt = eng.warnedAt
          /\ eng'.questions = eng.questions
      BY <1>3 DEF SameArms
    <3> QED  BY <2>1, <3>3, <3>5, <3>6, <3>7 DEF WarnsOk, WarnsOf, TellsOf
  <2> QED  BY <2>2, <2>3
<1>7. \A k \in Clear : CountOk(k, warned[k], posting)  BY DEF Once
<1> QED
  BY <1>1, <1>2, <1>3, <1>4, <1>5, <1>6, <1>7 DEF Once, CountOk, AsksOk, WarnsOk, SameArms

\* An event that is stepped starts the count over.
LEMMA StepOnce == ASSUME Sound, Once, Step PROVE Once'
<1> PICK l : l = Head(eng.queue).line  OBVIOUS
<1> DEFINE v == Verdict(l.event)
<1>1. /\ EngineOk(eng) /\ Tells /\ eng.queue # <<>> /\ TakesJob /\ Head(eng.queue).job = "event"
      /\ l \in Line /\ l.event # "ping" /\ ~stop
      /\ eng' = Armed(Cancelled(Unasked(Rest, l), l), l)
      /\ Posts(v.kind \in options.kinds, l.key, v.kind, l.event, l.at)
      /\ blurred' = IF v.cancel /\ eng.following THEN blurred \ {l.key} ELSE blurred
      /\ warned' = [warned EXCEPT ![l.key] = 0]
      /\ outdated' = IF v.cancel \/ options.cache THEN outdated \ {l.key}
                     ELSE outdated \cup {k \in {l.key} : eng.armedBy[k] # None}
      /\ UNCHANGED <<clock, mode, unheard, row, hook, feed, options, stop>>
  BY FirstJob DEF Step, IsEvent, TakesJob
<1>2. l.key \in Key /\ l.at \in Nat /\ l.event \in Event  BY <1>1, Basics DEF Line
<1>3. /\ EngineOk(eng') /\ eng'.queue = Tail(eng.queue)
      /\ eng'.armedBy = [eng.armedBy EXCEPT ![l.key] = ArmedBy(eng, l)]
      /\ eng'.warnedAt = [eng.warnedAt EXCEPT ![l.key] = WarnedAt(eng, l)]
      /\ DOMAIN eng'.questions \subseteq DOMAIN eng.questions
      /\ \A k \in DOMAIN eng'.questions : eng'.questions[k] = eng.questions[k]
      /\ v.cancel => l.key \notin DOMAIN eng'.questions
      /\ eng.armedBy \in [Key -> {None} \cup Time] /\ eng.warnedAt \in [Key -> {None} \cup Time]
  <2>1. JobDone(l, eng')  BY <1>1, JobIs
  <2>2. eng.armedBy \in [Key -> {None} \cup Time] /\ eng.warnedAt \in [Key -> {None} \cup Time]
    BY <1>1 DEF EngineOk
  <2> QED  BY <2>1, <2>2 DEF JobDone
<1>4. posting.key = None /\ None \notin Key /\ warned \in [Key -> Nat]
  <2>1. pc = "run"  BY <1>1 DEF TakesJob
  <2>2. posting.key = None /\ warned \in [Key -> Nat]  BY <2>1 DEF Sound, Typed
  <2> QED  BY <2>2, Basics
<1>5. \/ posting' = posting
      \/ posting' = [key |-> l.key, kind |-> v.kind, event |-> l.event, at |-> l.at]
  BY <1>1 DEF Posts
<1>6. v.kind # "cache_expiring"  BY DEF Verdict
<1>7. \A k \in Key : ~WarnsOf(posting', k) /\ (posting'.key = k => k = l.key /\ posting'.at = l.at)
  BY <1>4, <1>5, <1>6 DEF WarnsOf
<1>8. Rows' = Rows /\ Modes' = Modes  BY <1>1 DEF Rows, Modes
<1>9. Pending' = Tail(Pending) /\ Shows(Pending, Tail(Pending)) /\ Told(Pending, l.key)
  <2>1. feed \in Seq(Line)  BY DEF Sound, Typed
  <2>2. Pending' = Tail(eng.queue) \o Jobs(feed)  BY <1>1, <1>3 DEF Pending
  <2>3. Pending \in Seq(Job) /\ Pending # <<>> /\ Pending' = Tail(Pending)
        /\ Pending[1] = Head(eng.queue)
    BY <1>1, <2>1, <2>2, PendingIs
  <2>4. Acts(Head(eng.queue), l.key)  BY <1>1 DEF Acts
  <2>5. 1 \in 1..Len(Pending)
    <3> HIDE DEF Job
    <3> QED  BY <2>3
  <2>6. Told(Pending, l.key)  BY <2>3, <2>4, <2>5 DEF Told
  <2> QED  BY <2>3, <2>6, TailShows
<1>10. AsksOk(Tail(Pending), Rows, eng'.questions, posting')
  <2>1. AsksOk(Tail(Pending), Rows, eng.questions, posting)  BY <1>1, <1>9, AsksShow DEF Once
  <2>2. /\ l.at <= Rows[l.key].at
        /\ \A i \in 1..Len(Tail(Pending)) : IsEvent(Tail(Pending)[i]) =>
                   l.at <= Tail(Pending)[i].line.at
    BY <1>1, FirstJob DEF IsEvent
  <2>3. \A k \in DOMAIN eng'.questions :
          /\ eng'.questions[k] <= Rows[k].at
          /\ \A i \in 1..Len(Tail(Pending)) : IsEvent(Tail(Pending)[i]) =>
               eng'.questions[k] <= Tail(Pending)[i].line.at
    BY <1>3, <2>1 DEF AsksOk
  <2>4. posting'.key # None =>
          posting' = [key |-> l.key, kind |-> v.kind, event |-> l.event, at |-> l.at]
    BY <1>4, <1>5
  <2>5. posting'.key # None => posting'.key = l.key /\ posting'.at = l.at  BY <2>4
  <2> QED  BY <2>2, <2>3, <2>5 DEF AsksOk
<1>11. ASSUME NEW k \in Clear', k # l.key
       PROVE  /\ CountOk(k, warned'[k], posting')
              /\ WarnsOk(Tail(Pending), k, Modes[k], Rows[k], eng', warned'[k], posting')
  <2>1. k \in Clear /\ k \in Key /\ warned'[k] = warned[k]  BY <1>1, <1>2, <1>4, <1>11 DEF Clear
  <2>2. /\ WarnsOk(Pending, k, Modes[k], Rows[k], eng, warned[k], posting)
        /\ CountOk(k, warned[k], posting)
    BY <1>1, <2>1 DEF Once
  <2>3. Told(Pending, k) => Told(Tail(Pending), k)  BY <1>1, <1>11, <2>1, FirstJob DEF Acts
  <2>4. eng'.armedBy[k] = eng.armedBy[k] /\ eng'.warnedAt[k] = eng.warnedAt[k]
    BY <1>2, <1>3, <1>11, <2>1
  <2>5. posting'.key # k  BY <1>7, <1>11, <2>1
  <2>6. k \in DOMAIN eng'.questions =>
          k \in DOMAIN eng.questions /\ eng'.questions[k] = eng.questions[k]
    BY <1>3
  <2>7. WarnsOk(Tail(Pending), k, Modes[k], Rows[k], eng', warned[k], posting')
    BY <2>2, <2>3, <2>4, <2>5, <2>6, WarnsStay
  <2> QED  BY <2>1, <2>2, <2>5, <2>7 DEF CountOk, WarnsOf
<1>12. ASSUME l.key \in Clear'
       PROVE  /\ CountOk(l.key, warned'[l.key], posting')
              /\ WarnsOk(Tail(Pending), l.key, Modes[l.key], Rows[l.key], eng', warned'[l.key],
                          posting')
  <2> PICK k \in Key : k = l.key  BY <1>2
  <2>1. /\ warned'[k] = 0 /\ ~WarnsOf(posting', k)
        /\ eng'.armedBy[k] = ArmedBy(eng, l)
        /\ (k \in DOMAIN eng'.questions =>
              k \in DOMAIN eng.questions /\ eng'.questions[k] = eng.questions[k])
    BY <1>1, <1>3, <1>4, <1>7
  <2>2. CASE v.cancel
    <3>1. eng'.armedBy[k] = None  BY <2>1, <2>2 DEF ArmedBy
    <3> QED  BY <2>1, <3>1 DEF CountOk, WarnsOk
  <2>3. CASE ~v.cancel /\ v.arms /\ options.cache
    <3>1. eng'.armedBy[k] = l.at  BY <2>1, <2>3 DEF ArmedBy
    <3>2. k \in DOMAIN eng'.questions => eng'.questions[k] <= l.at
      <4>1. AsksOk(Pending, Rows, eng.questions, posting)  BY <1>1 DEF Once
      <4>2. Pending[1] = Head(eng.queue) /\ IsEvent(Pending[1]) /\ 1 \in 1..Len(Pending)
        <5>1. Pending \in Seq(Job) /\ Pending # <<>> /\ Pending[1] = Head(eng.queue)
          BY <1>1, PendingIs DEF Sound, Typed
        <5>2. 1 \in 1..Len(Pending)
          <6> HIDE DEF Job
          <6> QED  BY <5>1
        <5> QED  BY <1>1, <5>1, <5>2 DEF IsEvent
      <4> QED  BY <2>1, <4>1, <4>2 DEF AsksOk
    <3>3. TellsOf(posting', k) => posting'.at <= eng'.armedBy[k]
      BY <1>2, <1>7, <3>1 DEF TellsOf
    <3>4. ~Told(Tail(Pending), k) /\ Modes[k] = "done" => Rows[k].at <= eng'.armedBy[k]
      <4> SUFFICES ASSUME ~Told(Tail(Pending), k), Modes[k] = "done"
                   PROVE Rows[k].at <= eng'.armedBy[k]
        OBVIOUS
      <4>1. k \in Sure  BY <1>1, <1>12, <2>3 DEF Clear, Sure
      <4>2. Fits(l, Modes[k], Rows[k])  BY <1>1, <1>9, <4>1, FirstJob
      <4> QED  BY <1>2, <3>1, <4>2 DEF Fits
    <3> QED  BY <2>1, <3>1, <3>2, <3>3, <3>4 DEF CountOk, WarnsOk
  <2>4. CASE ~v.cancel /\ v.arms /\ ~options.cache
    <3>1. eng.armedBy[k] = None  BY <1>1, <1>12, <2>4 DEF Clear
    <3>2. eng'.armedBy[k] = None  BY <2>1, <2>4, <3>1 DEF ArmedBy
    <3> QED  BY <2>1, <3>2 DEF CountOk, WarnsOk
  <2>5. v.cancel \/ v.arms  BY <1>1, <1>2 DEF Verdict, MovesOn, Event
  <2> QED  BY <2>2, <2>3, <2>4, <2>5
<1>13. \A k \in Clear' : /\ CountOk(k, warned'[k], posting')
                         /\ WarnsOk(Tail(Pending), k, Modes[k], Rows[k], eng', warned'[k], posting')
  BY <1>11, <1>12
<1> HIDE DEF v
<1>14. Modes' = Modes  BY <1>1 DEF Modes
<1>15. /\ AsksOk(Pending', Rows', eng'.questions, posting')
       /\ \A k \in Clear' :
            WarnsOk(Pending', k, Modes'[k], Rows'[k], eng', warned'[k], posting')
  BY <1>8, <1>9, <1>10, <1>13, <1>14
<1> QED  BY <1>13, <1>15 DEF Once, CountOk, AsksOk, WarnsOk

\* A deadline that came is of a key nobody was warned about.
LEMMA DueOnce == ASSUME Sound, Once, Due PROVE Once'
<1> PICK k : k = Head(eng.queue).key  OBVIOUS
<1> PICK since : since = Head(eng.queue).since  OBVIOUS
<1>1. /\ EngineOk(eng) /\ Tells /\ eng.queue # <<>> /\ TakesJob /\ Head(eng.queue).job = "due"
      /\ k \in Key /\ since \in Time /\ since + After <= clock /\ ~stop
      /\ IF ~Stands(k, since) THEN eng' = Rest /\ UNCHANGED <<pc, posting>>
         ELSE /\ eng' = [Rest EXCEPT !.armedBy[k] = None]
              /\ Posts(Warns(k, since), k, "cache_expiring", "due", clock)
      /\ UNCHANGED <<clock, mode, unheard, row, hook, feed, stop, blurred, outdated, warned>>
  BY FirstJob DEF Due, world, past, IsEvent, TakesJob
<1>2. posting.key = None /\ None \notin Key /\ clock \in Nat /\ since \in Nat /\ After \in Nat
      /\ since # None
  BY <1>1, Basics DEF Sound, Typed, TakesJob
<1>3. \A o \in Key : Told(Pending, o) => Told(Tail(Pending), o)  BY <1>1, FirstJob DEF Acts
<1>4. eng'.queue = Tail(eng.queue) => Pending' = Tail(Pending) /\ Shows(Pending, Tail(Pending))
  <2> SUFFICES ASSUME eng'.queue = Tail(eng.queue)
               PROVE  Pending' = Tail(Pending) /\ Shows(Pending, Tail(Pending))
OBVIOUS
  <2>1. feed \in Seq(Line)  BY DEF Sound, Typed
  <2>2. Pending' = Tail(eng.queue) \o Jobs(feed)  BY <1>1 DEF Pending
  <2>3. Pending \in Seq(Job) /\ Pending # <<>> /\ Pending' = Tail(Pending)
    BY <1>1, <2>1, <2>2, PendingIs
  <2> QED  BY <2>3, TailShows
<1>5. Rows' = Rows /\ Modes' = Modes /\ Clear' = Clear /\ Clear \subseteq Key
  BY <1>1 DEF Rows, Modes, Clear
<1>6. CASE ~Stands(k, since)
  <2>1. eng' = Rest /\ posting' = posting  BY <1>1, <1>6
  <2>2. eng'.queue = Tail(eng.queue) /\ SameArms(eng, eng')  BY <1>1, <2>1, RestIs
  <2>3. AsksOk(Tail(Pending), Rows, eng.questions, posting)
    BY <1>1, <1>4, <2>2, AsksShow DEF Once
  <2>4. ASSUME NEW o \in Clear
        PROVE  WarnsOk(Tail(Pending), o, Modes[o], Rows[o], eng', warned[o], posting)
    <3>1. WarnsOk(Pending, o, Modes[o], Rows[o], eng, warned[o], posting) /\ o \in Key
      BY <1>1, <1>5 DEF Once
    <3> QED  BY <1>3, <2>2, <3>1, WarnsStay DEF SameArms
  <2>5. \A o \in Clear : CountOk(o, warned[o], posting)  BY DEF Once
  <2> QED
    BY <1>1, <1>4, <1>5, <2>1, <2>2, <2>3, <2>4, <2>5 DEF Once, CountOk, AsksOk, WarnsOk,
       SameArms
<1>7. CASE Stands(k, since)
  <2>1. /\ eng' = [Rest EXCEPT !.armedBy[k] = None]
        /\ Posts(Warns(k, since), k, "cache_expiring", "due", clock)
    BY <1>1, <1>7
  <2>2. /\ eng'.queue = Tail(eng.queue)
        /\ eng'.armedBy = [eng.armedBy EXCEPT ![k] = None]
        /\ eng'.warnedAt = eng.warnedAt /\ eng'.questions = eng.questions
        /\ eng.armedBy \in [Key -> {None} \cup Time]
    <3>1. eng.armedBy \in [Key -> {None} \cup Time]  BY <1>1 DEF EngineOk
    <3> QED  BY <1>1, <1>7, <2>1, <3>1, DueIs
  <2>3. \/ posting' = posting
        \/ posting' = [key |-> k, kind |-> "cache_expiring", event |-> "due", at |-> clock]
    BY <2>1 DEF Posts
  <2>4. AsksOk(Tail(Pending), Rows, eng.questions, posting')
    <3>1. AsksOk(Tail(Pending), Rows, eng.questions, posting)
      BY <1>1, <1>4, <2>2, AsksShow DEF Once
    <3> QED  BY <2>3, <3>1 DEF AsksOk
  <2>5. ASSUME NEW o \in Clear
        PROVE  /\ CountOk(o, warned[o], posting')
               /\ WarnsOk(Tail(Pending), o, Modes[o], Rows[o], eng', warned[o], posting')
    <3>1. /\ WarnsOk(Pending, o, Modes[o], Rows[o], eng, warned[o], posting) /\ o \in Key
          /\ CountOk(o, warned[o], posting)
      BY <1>1, <1>5 DEF Once
    <3>2. CASE o # k
      <4>1. posting'.key # o  BY <1>2, <2>3, <3>1, <3>2
      <4>2. eng'.armedBy[o] = eng.armedBy[o]  BY <1>1, <2>2, <3>1, <3>2
      <4>3. WarnsOk(Tail(Pending), o, Modes[o], Rows[o], eng', warned[o], posting')
        BY <1>3, <2>2, <3>1, <4>1, <4>2, WarnsStay
      <4> QED  BY <3>1, <4>1, <4>3 DEF CountOk, WarnsOf
    <3>3. CASE o = k
      <4>1. eng.armedBy[k] = since /\ eng'.armedBy[k] = None  BY <1>1, <1>7, <2>2 DEF Stands
      <4>2. warned[k] # 1 /\ warned[k] <= 1 /\ warned[k] \in Nat
        <5>1. warned[k] \in Nat  BY <1>1 DEF Sound, Typed
        <5> QED  BY <1>2, <3>1, <3>3, <4>1, <5>1 DEF WarnsOk, CountOk
      <4>3. warned[k] = 0  BY <4>2
      <4>4. Rows[k].at \in Nat /\ Rows[k].at <= clock  BY <1>1 DEF Sound, RowsOk
      <4>5. WarnsOf(posting', k) => posting'.at = clock  BY <1>1, <1>2, <2>3 DEF WarnsOf
      <4>6. k \in DOMAIN eng.questions => eng.questions[k] + After <= clock
        <5> SUFFICES ASSUME k \in DOMAIN eng.questions PROVE eng.questions[k] + After <= clock
          OBVIOUS
        <5>1. eng.questions[k] <= since  BY <1>2, <3>1, <3>3, <4>1 DEF WarnsOk
        <5>2. PICK asked \in SUBSET Key : eng.questions \in [asked -> Time]
          BY <1>1 DEF EngineOk
        <5>3. eng.questions[k] \in Nat  BY <5>2, Basics
        <5> QED  BY <1>1, <1>2, <5>1, <5>3
      <4>7. ~Told(Tail(Pending), k) /\ Modes[k] = "done" => Rows[k].at + After <= clock
        <5> SUFFICES ASSUME ~Told(Tail(Pending), k), Modes[k] = "done"
                     PROVE  Rows[k].at + After <= clock
OBVIOUS
        <5>1. Rows[k].at <= since  BY <1>1, <1>2, <1>3, <3>1, <3>3, <4>1 DEF WarnsOk
        <5> QED  BY <1>1, <1>2, <4>4, <5>1
      <4> QED  BY <2>2, <3>3, <4>1, <4>3, <4>4, <4>5, <4>6, <4>7 DEF CountOk, WarnsOk
    <3> QED  BY <3>2, <3>3
  <2> QED  BY <1>1, <1>4, <1>5, <2>2, <2>4, <2>5 DEF Once, CountOk, AsksOk, WarnsOk
<1> QED  BY <1>6, <1>7

\* A warning that is answered is the first, and is remembered.
LEMMA PostEndsOnce == ASSUME Sound, Once, PostEnds PROVE Once'
<1>1. /\ EngineOk(eng) /\ posting \in Post /\ posting' = [key |-> None]
      /\ UNCHANGED <<clock, mode, unheard, row, hook, blurred, feed, stop, outdated>>
      /\ warned \in [Key -> Nat] /\ eng.warnedAt \in [Key -> {None} \cup Time]
  BY DEF PostEnds, Sound, Typed, world, EngineOk
<1> PICK k \in Key : k = posting.key  BY <1>1 DEF Post
<1> PICK warns \in BOOLEAN : PostDone(k, warns)  BY <1>1, PostEndsIs
<1>2. /\ Rows' = Rows /\ Modes' = Modes /\ Clear' = Clear /\ Clear \subseteq Key
      /\ Pending' = Pending
  BY <1>1 DEF Rows, Modes, Clear, Pending, PostDone
<1>3. /\ posting.at \in Nat /\ posting.at # None /\ posting.key # None
      /\ \A o \in Key : posting'.key # o
  BY <1>1, Basics DEF Post
<1>4. /\ eng'.armedBy = eng.armedBy
      /\ eng'.warnedAt = IF warns THEN [eng.warnedAt EXCEPT ![k] = posting.at] ELSE eng.warnedAt
      /\ \A o \in DOMAIN eng'.questions :
           \/ o \in DOMAIN eng.questions /\ eng'.questions[o] = eng.questions[o]
           \/ o = k /\ posting.kind = "question" /\ eng'.questions[o] = posting.at
      /\ warned' = IF warns THEN [warned EXCEPT ![k] = @ + 1] ELSE warned
      /\ warns => posting.kind = "cache_expiring"
  BY DEF PostDone
<1>5. \A o \in Clear : CountOk(o, warned'[o], posting')
  <2> SUFFICES ASSUME NEW o \in Clear PROVE CountOk(o, warned'[o], posting')  OBVIOUS
  <2>1. CountOk(o, warned[o], posting) /\ o \in Key  BY <1>2 DEF Once
  <2>2. CASE warns /\ o = k  BY <1>1, <1>3, <1>4, <2>1, <2>2 DEF CountOk, WarnsOf
  <2>3. CASE ~(warns /\ o = k)  BY <1>1, <1>3, <1>4, <2>1, <2>3 DEF CountOk, WarnsOf
  <2> QED  BY <2>2, <2>3
<1>6. ASSUME ~stop PROVE AsksOk(Pending, Rows, eng'.questions, posting')
  <2>1. AsksOk(Pending, Rows, eng.questions, posting)  BY <1>6 DEF Once
  <2>2. posting'.key = None  BY <1>1
  <2>3. ASSUME NEW o \in DOMAIN eng'.questions
        PROVE  /\ eng'.questions[o] <= Rows[o].at
               /\ \A i \in 1..Len(Pending) : IsEvent(Pending[i]) =>
                    eng'.questions[o] <= Pending[i].line.at
    <3>1. CASE o \in DOMAIN eng.questions /\ eng'.questions[o] = eng.questions[o]
      BY <2>1, <3>1 DEF AsksOk
    <3>2. CASE o = k /\ posting.kind = "question" /\ eng'.questions[o] = posting.at
      BY <1>3, <2>1, <3>2 DEF AsksOk
    <3> QED  BY <1>4, <3>1, <3>2
  <2> QED  BY <2>2, <2>3 DEF AsksOk
<1>7. ASSUME ~stop, NEW o \in Clear
      PROVE  WarnsOk(Pending, o, Modes[o], Rows[o], eng', warned'[o], posting')
  <2>1. /\ WarnsOk(Pending, o, Modes[o], Rows[o], eng, warned[o], posting) /\ o \in Key
        /\ CountOk(o, warned[o], posting)
    BY <1>2, <1>7 DEF Once
  <2>2. CASE o # k
    <3>1. warned'[o] = warned[o] /\ eng'.warnedAt[o] = eng.warnedAt[o] /\ posting'.key # o
      BY <1>1, <1>3, <1>4, <2>1, <2>2
    <3> QED  BY <1>4, <2>1, <2>2, <3>1, WarnsStay
  <2>3. CASE o = k /\ warns
    <3>1. WarnsOf(posting, k) /\ warned'[k] = 1 /\ eng'.warnedAt[k] = posting.at
      BY <1>1, <1>4, <2>1, <2>3 DEF WarnsOf, CountOk
    <3>2. eng'.armedBy[k] = None  BY <1>4, <2>1, <2>3, <3>1 DEF WarnsOk
    <3>3. k \in DOMAIN eng'.questions => eng'.questions[k] + After <= posting.at
      BY <1>4, <2>1, <2>3, <3>1 DEF WarnsOk
    <3>4. ~WarnsOf(posting', k) /\ ~TellsOf(posting', k) /\ posting'.key # k
      BY <1>3 DEF WarnsOf, TellsOf
    <3> QED  BY <1>3, <2>1, <2>3, <3>1, <3>2, <3>3, <3>4 DEF WarnsOk
  <2>4. CASE o = k /\ ~warns
    <3>1. warned'[k] = warned[k] /\ warned[k] # 1  BY <1>4, <2>1, <2>4 DEF WarnsOk
    <3>2. k \in DOMAIN eng'.questions /\ eng'.armedBy[k] # None =>
            eng'.questions[k] <= eng'.armedBy[k]
      BY <1>4, <2>1, <2>4 DEF WarnsOk, TellsOf
    <3>3. ~WarnsOf(posting', k) /\ ~TellsOf(posting', k) /\ posting'.key # k
      BY <1>3 DEF WarnsOf, TellsOf
    <3>4. ~Told(Pending, k) /\ eng'.armedBy[k] # None /\ Modes[k] = "done" =>
            Rows[k].at <= eng'.armedBy[k]
      BY <1>4, <2>1, <2>4 DEF WarnsOk
    <3> QED  BY <2>4, <3>1, <3>2, <3>3, <3>4 DEF WarnsOk
  <2> QED  BY <2>2, <2>3, <2>4
<1> QED  BY <1>1, <1>2, <1>5, <1>6, <1>7 DEF Once, CountOk, AsksOk, WarnsOk

\* A step that leaves what a warning is about.
LEMMA QuietOnce ==
  ASSUME Sound, Once,
         \/ \E k \in Key : HookPublishes(k)
         \/ RunEnds \/ StopEngine \/ Reload \/ Signal \/ Advance \/ StartFails \/ UNCHANGED vars
  PROVE  Once'
<1>1. UNCHANGED <<mode, unheard, posting, blurred, outdated, warned>> /\ (~stop' => ~stop)
  BY DEF HookPublishes, RunEnds, StopEngine, Reload, Signal, Advance, StartFails, vars,
     world, past
<1>2. Clear' = Clear /\ Modes' = Modes  BY <1>1 DEF Clear, Modes
<1>3. \A k \in Clear : CountOk(k, warned[k], posting)  BY DEF Once
<1>4. ASSUME ~stop'
      PROVE  /\ Rows' = Rows /\ Pending' = Pending /\ eng'.questions = eng.questions
             /\ eng'.armedBy = eng.armedBy /\ eng'.warnedAt = eng.warnedAt
  <2>1. CASE \E k \in Key : HookPublishes(k)
    <3> PICK k \in Key : HookPublishes(k)  BY <2>1
    <3>1. /\ row' = [row EXCEPT ![k] = hook[k]] /\ hook' = [hook EXCEPT ![k] = NoRow]
          /\ hook[k] # NoRow /\ row \in [Key -> Row] /\ hook \in [Key -> {NoRow} \cup Row]
          /\ eng' = eng /\ feed' = feed
      BY DEF HookPublishes, Sound, Typed
    <3>2. \A o \in Key : (IF hook'[o] = NoRow THEN row'[o] ELSE hook'[o])
                         = (IF hook[o] = NoRow THEN row[o] ELSE hook[o])
      BY <3>1
    <3> QED  BY <3>1, <3>2 DEF Rows, Pending
  <2>2. CASE RunEnds \/ StopEngine
    <3>1. /\ eng' = [eng EXCEPT !.queue = <<>>] /\ eng.queue = <<>>
          /\ UNCHANGED <<row, hook, feed>> /\ EngineOk(eng)
      BY <1>4, <2>2 DEF RunEnds, StopEngine, world, Sound, Typed
    <3>2. /\ eng'.queue = eng.queue /\ eng'.questions = eng.questions
          /\ eng'.armedBy = eng.armedBy /\ eng'.warnedAt = eng.warnedAt
      BY <3>1 DEF EngineOk, EngineFields
    <3> QED  BY <3>1, <3>2 DEF Rows, Pending
  <2>3. CASE Reload \/ Signal \/ Advance \/ StartFails \/ UNCHANGED vars
    BY <2>3 DEF Rows, Pending, Reload, Signal, Advance, StartFails, vars, world
  <2> QED  BY <2>1, <2>2, <2>3
<1>5. ASSUME ~stop'
      PROVE  /\ AsksOk(Pending, Rows, eng'.questions, posting)
             /\ \A k \in Clear : WarnsOk(Pending, k, Modes[k], Rows[k], eng', warned[k], posting)
  BY <1>1, <1>4, <1>5 DEF Once, WarnsOk
<1> QED  BY <1>1, <1>2, <1>3, <1>4, <1>5 DEF Once, CountOk, AsksOk, WarnsOk

\* A line that is followed is pending, and a ping comes before any warning.
LEMMA HookAppendsOnce == ASSUME Sound, Once, NEW k \in Key, HookAppends(k) PROVE Once'
<1> PICK g, l : Said(k, g, l)  BY HookSays
<1> DEFINE r == [state |-> StateOf(g[2]), at |-> clock]
           j == [job |-> "event", line |-> l]
<1>1. /\ g[2] = "ping" => g[3] = "quiet"
      /\ g[3] = "quiet" => g[1] = "done"
  BY GoesAre DEF Said
<1>2. /\ clock \in Nat /\ mode \in [Key -> Mode] /\ EngineOk(eng)
      /\ feed \in Seq(Line) /\ Pending \in Seq(Job) /\ ~stop /\ After \in Nat
  BY Basics, PendingIs DEF Said, Sound, Typed
<1>3. /\ Modes' = [Modes EXCEPT ![k] = ToldAs(k, g)] /\ Rows' = [Rows EXCEPT ![k] = r]
      /\ DOMAIN Rows = Key /\ Modes \in [Key -> Mode]
      /\ eng' = eng /\ posting' = posting /\ stop' = stop /\ Rows[k] = row[k] /\ mode[k] = g[1]
      /\ outdated' = outdated
      /\ l = [key |-> k, event |-> g[2], at |-> clock]
  BY DEF Said
<1>4. \A o \in Key : Rows[o].at \in Nat /\ Rows[o].at <= clock  BY DEF Sound, RowsOk
<1>5. \A o \in Key : Rows'[o].at \in Nat /\ Rows[o].at <= Rows'[o].at  BY <1>2, <1>3, <1>4
<1>6. \/ Pending' = Pending
      \/ Pending' = Append(Pending, j)
  BY DEF Said
<1>7. \A i \in 1..Len(Pending') : IsEvent(Pending'[i]) =>
        \/ Pending'[i].line.at = clock
        \/ \E n \in 1..Len(Pending) : Pending[n] = Pending'[i]
  <2>1. CASE Pending' = Pending  BY <2>1
  <2>2. CASE Pending' = Append(Pending, j)
    <3>1. j.line.at = clock  BY <1>3
    <3> HIDE DEF j
    <3> QED  BY <1>2, <2>2, <3>1, AppendIs
  <2> QED  BY <1>6, <2>1, <2>2
<1>8. AsksOk(Pending', Rows', eng.questions, posting)
  <2>1. AsksOk(Pending, Rows, eng.questions, posting)  BY <1>2 DEF Once
  <2>2. PICK asked \in SUBSET Key : eng.questions \in [asked -> Time]  BY <1>2 DEF EngineOk
  <2>3. ASSUME NEW o \in DOMAIN eng.questions
        PROVE  /\ eng.questions[o] <= Rows'[o].at
               /\ \A i \in 1..Len(Pending') : IsEvent(Pending'[i]) =>
                    eng.questions[o] <= Pending'[i].line.at
    <3>1. o \in Key /\ eng.questions[o] \in Nat  BY <2>2, Basics
    <3>2. eng.questions[o] <= Rows[o].at  BY <2>1 DEF AsksOk
    <3>3. eng.questions[o] <= Rows'[o].at /\ eng.questions[o] <= clock
      BY <1>2, <1>4, <1>5, <3>1, <3>2
    <3> QED  BY <1>7, <2>1, <3>3 DEF AsksOk
  <2>4. ASSUME posting.key # None, posting.kind # "cache_expiring"
        PROVE  /\ posting.at <= Rows'[posting.key].at
               /\ \A i \in 1..Len(Pending') : IsEvent(Pending'[i]) =>
                    posting.at <= Pending'[i].line.at
    <3>0. posting \in Post
      <4>1. [key |-> None].key = None  OBVIOUS
      <4> QED  BY <2>4, <4>1 DEF Sound, Typed
    <3>1. posting.key \in Key /\ posting.at \in Nat  BY <3>0, Basics DEF Post
    <3>2. posting.at <= Rows[posting.key].at  BY <2>1, <2>4 DEF AsksOk
    <3>3. posting.at <= Rows'[posting.key].at /\ posting.at <= clock
      BY <1>2, <1>4, <1>5, <3>1, <3>2
    <3> QED  BY <1>7, <2>1, <2>4, <3>3 DEF AsksOk
  <2> QED  BY <2>3, <2>4 DEF AsksOk
<1>9. ASSUME NEW o \in Clear'
      PROVE  o \in Clear /\ o \in Key /\ warned'[o] = warned[o] /\ (o = k => eng.following)
  <2>1. warned \in [Key -> Nat]  BY DEF Sound, Typed
  <2> QED  BY <1>9, <2>1 DEF Clear, Said
<1>10. ASSUME NEW o \in Clear'
       PROVE  WarnsOk(Pending', o, Modes'[o], Rows'[o], eng, warned[o], posting)
  <2>1. /\ WarnsOk(Pending, o, Modes[o], Rows[o], eng, warned[o], posting) /\ o \in Key
        /\ CountOk(o, warned[o], posting)
    BY <1>2, <1>9 DEF Once
  <2>2. Told(Pending, o) => Told(Pending', o)  BY <1>2, <1>6, ToldOfMore
  <2>3. CASE o # k
    <3>1. Modes'[o] = Modes[o] /\ Rows'[o] = Rows[o]  BY <1>2, <1>3, <2>1, <2>3
    <3> QED  BY <2>1, <2>2, <3>1, WarnsStay
  <2>4. CASE o = k /\ g[2] # "ping"
    <3>1. Pending' = Append(Pending, j)  BY <1>9, <2>4 DEF Said
    <3>2. Acts(j, k)  BY <1>3, <2>4 DEF Acts
    <3>3. Told(Pending', o)  BY <1>2, <2>4, <3>1, <3>2, ToldOfMore
    <3> QED  BY <2>1, <3>3 DEF WarnsOk
  <2>5. CASE o = k /\ g[2] = "ping"
    <3>1. /\ Modes'[k] = "quiet" /\ Modes[k] = "done" /\ Rows'[k].at = clock
          /\ Rows[k].at \in Nat
      BY <1>1, <1>2, <1>3, <1>4, <2>5 DEF ToldAs, Modes
    <3>2. clock \in Rows[k].at + 1 .. Rows[k].at + After - 1  BY <1>3, <2>5 DEF Said
    <3>3. clock <= Rows[k].at + After  BY <1>2, <3>1, <3>2
    <3>4. ASSUME ~Told(Pending, k), WarnsOf(posting, k) PROVE clock <= posting.at
      <4>1. Rows[k].at + After <= posting.at  BY <2>1, <2>5, <3>1, <3>4 DEF WarnsOk
      <4>2. posting.at \in Nat
          <5>1. k \in Key /\ None \notin Key /\ [key |-> None].key = None  BY Basics
          <5>2. posting \in Post  BY <3>4, <5>1 DEF WarnsOf, Sound, Typed
          <5> QED  BY <5>2, Basics DEF Post
      <4> QED  BY <1>2, <3>1, <3>3, <4>1, <4>2
    <3>5. ASSUME ~Told(Pending, k), warned[k] = 1 PROVE clock <= eng.warnedAt[k]
      <4>1. Rows[k].at + After <= eng.warnedAt[k] /\ eng.warnedAt[k] # None
        BY <2>1, <2>5, <3>1, <3>5 DEF WarnsOk
      <4>2. eng.warnedAt[k] \in Nat
        <5>1. eng.warnedAt \in [Key -> {None} \cup Time]  BY <1>2 DEF EngineOk
        <5> QED  BY <4>1, <5>1, Basics
      <4> QED  BY <1>2, <3>1, <3>3, <4>1, <4>2
    <3> QED  BY <2>1, <2>2, <2>5, <3>1, <3>4, <3>5 DEF WarnsOk
  <2> QED  BY <2>3, <2>4, <2>5
<1>11. \A o \in Clear' : CountOk(o, warned'[o], posting)  BY <1>9 DEF Once
<1>12. \A o \in Clear' : WarnsOk(Pending', o, Modes'[o], Rows'[o], eng, warned'[o], posting)
  BY <1>9, <1>10
<1> HIDE DEF r, j
<1> QED  BY <1>3, <1>8, <1>11, <1>12 DEF Once, CountOk, AsksOk, WarnsOk

\* A tool that asks nothing makes a row that nothing is armed from.
LEMMA ToolRunsOnce == ASSUME Sound, Once, NEW k \in Key, ToolRuns(k) PROVE Once'
<1>1. Ran(k)  BY ToolRunsIs
<1> DEFINE r == [state |-> "working", at |-> clock]
<1>2. r.state \notin Waiting /\ r.at = clock  BY DEF Waiting
<1> HIDE DEF r
<1>3. /\ Rows' = [Rows EXCEPT ![k] = r] /\ Modes' = Modes /\ Modes[k] \notin {"done", "quiet"}
      /\ Pending' = Pending /\ ~stop
      /\ UNCHANGED <<eng, posting, blurred, outdated, warned, stop>>
      /\ Rows[k].at <= clock /\ Rows[k].at \in Nat /\ clock \in Nat /\ DOMAIN Rows = Key
  BY <1>1 DEF Ran, r, past
<1>4. Clear' = Clear /\ Clear \subseteq Key  BY <1>3 DEF Clear
<1>5. \A o \in Key : Rows'[o] = IF o = k THEN r ELSE Rows[o]  BY <1>3
<1>6. AsksOk(Pending, Rows', eng.questions, posting)
  <2>1. AsksOk(Pending, Rows, eng.questions, posting)  BY <1>3 DEF Once
  <2>2. PICK asked \in SUBSET Key : eng.questions \in [asked -> Time]
    BY DEF Sound, Typed, EngineOk
  <2>3. ASSUME NEW o \in DOMAIN eng.questions PROVE eng.questions[o] <= Rows'[o].at
    <3>1. o \in Key /\ eng.questions[o] \in Nat /\ eng.questions[o] <= Rows[o].at
      BY <2>1, <2>2, Basics DEF AsksOk
    <3> QED  BY <1>2, <1>3, <1>5, <3>1
  <2>4. ASSUME posting.key # None, posting.kind # "cache_expiring"
        PROVE  posting.at <= Rows'[posting.key].at
    <3>1. posting \in Post
      <4>1. [key |-> None].key = None  OBVIOUS
      <4> QED  BY <2>4, <4>1 DEF Sound, Typed
    <3>2. posting.key \in Key /\ posting.at \in Nat  BY <3>1, Basics DEF Post
    <3>3. posting.at <= Rows[posting.key].at  BY <2>1, <2>4 DEF AsksOk
    <3> QED  BY <1>2, <1>3, <1>5, <3>2, <3>3
  <2> QED  BY <2>1, <2>3, <2>4 DEF AsksOk
<1>7. ASSUME NEW o \in Clear
      PROVE  WarnsOk(Pending, o, Modes[o], Rows'[o], eng, warned[o], posting)
  <2>1. WarnsOk(Pending, o, Modes[o], Rows[o], eng, warned[o], posting) /\ o \in Key
    BY <1>3, <1>4 DEF Once
  <2>2. CASE o = k  BY <1>2, <1>3, <1>5, <2>1, <2>2 DEF WarnsOk
  <2>3. CASE o # k  BY <1>5, <2>1, <2>3
  <2> QED  BY <2>2, <2>3
<1>8. \A o \in Clear : CountOk(o, warned[o], posting)  BY DEF Once
<1> QED  BY <1>3, <1>4, <1>6, <1>7, <1>8 DEF Once, CountOk, AsksOk, WarnsOk

\* It holds before the start.
LEMMA OnceInit == Init => Once
<1> SUFFICES ASSUME Init PROVE Once  OBVIOUS
<1>1. /\ posting = [key |-> None] /\ eng.armedBy = [k \in Key |-> None] /\ eng.questions = <<>>
      /\ warned = [k \in Key |-> 0]
  BY DEF Init, NoQuestions
<1>2. \A k \in Key : posting.key # k /\ eng.armedBy[k] = None /\ warned[k] = 0  BY <1>1, Basics
<1>3. DOMAIN eng.questions = {}  BY <1>1
<1>4. posting.key = None  BY <1>1
<1> QED  BY <1>2, <1>3, <1>4 DEF Once, Clear, CountOk, AsksOk, WarnsOk, WarnsOf, TellsOf

\* Each step keeps it.
LEMMA OnceStep == ASSUME Window < After PROVE Sound /\ Once /\ [Next]_vars => Once'
<1> SUFFICES ASSUME Sound, Once, [Next]_vars PROVE Once'  OBVIOUS
<1>1. CASE \E k \in Key : HookAppends(k) \/ ToolRuns(k) \/ HookPublishes(k)
  BY <1>1, HookAppendsOnce, ToolRunsOnce, QuietOnce
<1>2. CASE LoopStep
  BY <1>2, StartCalls, WakeCalls, TickCalls, RefollowsCalls, CallsOnce, StepOverOnce, StepOnce,
     DueOnce, PostEndsOnce, QuietOnce DEF LoopStep
<1>3. CASE Reload \/ Signal \/ Advance \/ StartFails \/ UNCHANGED vars  BY <1>3, QuietOnce
<1> QED  BY <1>1, <1>2, <1>3 DEF Next

\* A person is warned once of one cache, for any number of sessions, events,
\* deaths, options and re-follows, as long as a warning comes later than a
\* permission prompt is held back for (arm_from_states, due and post of
\* engine.rs).
THEOREM WarnedOncePerWaitHolds == ASSUME Window < After PROVE Spec => []WarnedOncePerWait
<1>1. Once => WarnedOncePerWait  BY DEF Once, Clear, CountOk, WarnedOncePerWait
<1>2. Sound /\ Once /\ [Next]_vars => Once'  BY OnceStep
<1> QED  BY <1>1, <1>2, SoundInit, SoundStep, OnceInit, PTL DEF Spec
=============================================================================
