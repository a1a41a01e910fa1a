---------------------------- MODULE NotifyEngine ----------------------------
(***************************************************************************)
(* The engine of the notify daemon (notify/engine.rs, deadlines.rs,        *)
(* kinds.rs, feed.rs): events of the sessions in, notices out, and the     *)
(* deadlines of the prompt caches in between, with the loop that calls it  *)
(* (serve of service.rs) and the hook that feeds it.                       *)
(*                                                                         *)
(* The engine is one thread.  A turn of the loop makes jobs, a job is a    *)
(* step, and a post is two: the sessions, the clock and the signal go on   *)
(* while the backend is at work.  One unit of the clock is at least a      *)
(* second, what the hook writes.                                           *)
(***************************************************************************)
EXTENDS Integers, Sequences, FiniteSets, Functions

CONSTANTS
  Key,          \* the panes with a session
  After, Ttl,   \* the options after and ttl of cache_expiring
  Window,       \* QUESTION_PROMPT_WINDOW_MS
  RefollowMin, RefollowMax,
  InForce,      \* the options that may come in force: [cache, kinds]
  MaxTime, MaxEvents, MaxDeaths  \* bounds

Kind == {"question", "permission", "turn_done", "cache_expiring", "session_end"}

ASSUME EngineAssumption ==
  /\ Key \subseteq Nat /\ IsFiniteSet(Key)
  /\ {After, Ttl, RefollowMin, RefollowMax} \subseteq Nat \ {0} /\ Window \in Nat
  /\ After < Ttl /\ RefollowMin <= RefollowMax
  /\ InForce \subseteq [cache : BOOLEAN, kinds : SUBSET Kind]
  /\ {MaxTime, MaxEvents, MaxDeaths} \subseteq Nat

None == -1  \* no time
Time == 0..MaxTime
Event == {"start", "prompt", "ask", "answer", "dialog", "permission", "stop", "ping", "end"}
RowState == {"none", "new", "working", "question", "blocked", "done"}
NoRefollow == [at |-> None, wait |-> 0]
NoRow == [state |-> "none", at |-> None]
NoQuestions == <<>>  \* an empty map: key to when it was asked

VARIABLES
  clock,
  mode,      \* what each session is at
  row,       \* its state row: [state, at]
  hook,      \* the row its hook is about to write, or that of no hook
  feed,      \* lines of the events file the follower has not read
  eng,       \* the fields of Engine
  options,   \* Engine::options
  up,        \* Engine::up: whose notice is on screen, as far as the engine knows
  posting,   \* the notice that is being posted
  pc,        \* where the loop is
  stop,      \* the Stop of the service is tripped
  blurred,   \* history: keys the engine was told less of than there is to know
  unheard,   \* history: keys that went on working without a line that says so
  warned,    \* history: warnings since the last event of the key was taken in
  outdated,  \* history: keys armed by an event before the last that would arm them
  landed,    \* history: posts that ended after the stop
  inFront,   \* history: keys whose last notice was dropped, its pane in front
  bare,      \* history: a prompt was held back for nothing
  budget     \* what is left of the bounds

world == <<mode, row, hook, blurred, unheard>>
past == <<warned, outdated, landed, inFront>>
vars == <<clock, world, feed, eng, options, up, posting, pc, stop, past, bare, budget>>

Line == [key : Key, event : Event, at : Time]
Deadline == [key : Key, since : Int, due : Int]

TypeOK ==
  /\ clock \in Time
  /\ mode \in [Key -> {"none", "fresh", "working", "asking", "blocked", "done", "quiet"}]
  /\ row \in [Key -> [state : RowState, at : Time]]
  /\ hook \in [Key -> {NoRow} \cup [state : RowState, at : Time]]
  /\ feed \in Seq(Line)
  /\ eng.deadlines \in Seq(Deadline)
  /\ {eng.armedBy, eng.warnedAt} \subseteq [Key -> {None} \cup Time]
  /\ eng.questions \in UNION {[asked -> Time] : asked \in SUBSET Key}
  /\ eng.following => eng.refollow = NoRefollow
  /\ eng.after \in RefollowMin..RefollowMax
  /\ \A i, j \in 1..Len(eng.deadlines) : eng.deadlines[i].key = eng.deadlines[j].key => i = j
  /\ options \in InForce
  /\ {up, blurred, unheard, outdated, inFront} \subseteq SUBSET Key
  /\ pc \in {"start", "wait", "run", "post", "ended"}
  /\ stop \in BOOLEAN /\ bare \in BOOLEAN
  /\ warned \in [Key -> Nat] /\ landed \in Nat

Init ==
  /\ clock = 0
  /\ \E r \in [Key -> {<<"none", "none">>, <<"working", "working">>, <<"done", "done">>}] :
       /\ mode = [k \in Key |-> r[k][1]]
       /\ row = [k \in Key |-> [state |-> r[k][2], at |-> 0]]
  /\ hook = [k \in Key |-> NoRow] /\ feed = <<>>
  /\ eng = [queue |-> <<>>, deadlines |-> <<>>,
            armedBy |-> [k \in Key |-> None], questions |-> NoQuestions,
            warnedAt |-> [k \in Key |-> None],
            following |-> FALSE, refollow |-> NoRefollow, after |-> RefollowMin,
            followedAt |-> 0, followedAfter |-> 0, heard |-> FALSE]
  /\ options \in InForce
  /\ up = {} /\ posting = [key |-> None] /\ pc = "start" /\ stop = FALSE
  /\ blurred = {} /\ unheard = {} /\ outdated = {}
  /\ warned = [k \in Key |-> 0] /\ landed = 0 /\ inFront = {} /\ bare = FALSE
  /\ budget = [events |-> MaxEvents, deaths |-> MaxDeaths]

-----------------------------------------------------------------------------
(* The sessions and their hook *)

\* What is not a step of the engine happens while the loop waits or a backend
\* is at work, since the rest of a turn takes no time, and what happens after
\* the stop is of no matter.
Idle == pc \in {"wait", "post"} /\ ~stop

\* What a session may do next.  A plan that was rejected is no answer, so a
\* question can follow a question.
Goes ==
  {<<"none", "start", "fresh">>, <<"fresh", "prompt", "working">>,
   <<"working", "ask", "asking">>, <<"working", "dialog", "blocked">>,
   <<"working", "permission", "blocked">>, <<"working", "stop", "done">>,
   <<"asking", "answer", "working">>, <<"asking", "permission", "asking">>,
   <<"asking", "ask", "asking">>, <<"asking", "prompt", "working">>,
   <<"blocked", "prompt", "working">>, <<"blocked", "stop", "done">>,
   <<"done", "prompt", "working">>, <<"done", "ping", "quiet">>,
   <<"quiet", "prompt", "working">>}
  \cup {<<m, "end", "none">> : m \in {"working", "asking", "blocked", "done", "quiet"}}

\* The state column of the hook.
StateOf(ev) ==
  CASE ev = "start" -> "new"
    [] ev \in {"prompt", "answer"} -> "working"
    [] ev = "ask" -> "question"
    [] ev \in {"dialog", "permission"} -> "blocked"
    [] ev \in {"stop", "ping"} -> "done"
    [] ev = "end" -> "none"

\* The events that say that a session went on (Verdict::GONE, SessionEnd).
MovesOn == {"start", "prompt", "answer", "end"}

\* The hook appends the line of the event, which is lost when nobody follows.
\* The idle ping comes a minute after the stop, sooner than any warning.
HookAppends(k) ==
  /\ Idle /\ hook[k] = NoRow /\ budget.events > 0
  /\ \E g \in Goes :
       LET ev == g[2] IN
       /\ g[1] = mode[k]
       /\ ev = "ping" => clock \in row[k].at + 1 .. row[k].at + After - 1
       /\ mode' = [mode EXCEPT ![k] = g[3]]
       /\ hook' = [hook EXCEPT ![k] = [state |-> StateOf(ev), at |-> clock]]
       /\ unheard' = IF eng.following /\ ev \in MovesOn THEN unheard \ {k} ELSE unheard
       /\ IF eng.following
            THEN /\ feed' = Append(feed, [key |-> k, event |-> ev, at |-> clock])
                 /\ UNCHANGED <<blurred, warned>>
            ELSE /\ blurred' = blurred \cup {k}
                 /\ warned' = [warned EXCEPT ![k] = 0]
                 /\ UNCHANGED feed
  /\ budget' = [budget EXCEPT !.events = @ - 1]
  /\ UNCHANGED <<clock, row, eng, options, up, posting, pc, stop, outdated, landed, inFront, bare>>

\* A tool that asks nothing is called or has run: the row says working again,
\* and no line says so.  Such is the end of a permission or an elicitation.
ToolRuns(k) ==
  /\ Idle /\ hook[k] = NoRow /\ budget.events > 0
  /\ mode[k] \in {"working", "asking", "blocked"}
  /\ mode' = [mode EXCEPT ![k] = IF @ = "blocked" THEN "working" ELSE @]
  /\ unheard' = IF mode[k] = "blocked" THEN unheard \cup {k} ELSE unheard
  /\ hook' = [hook EXCEPT ![k] = [state |-> "working", at |-> clock]]
  /\ budget' = [budget EXCEPT !.events = @ - 1]
  /\ UNCHANGED <<clock, row, feed, eng, options, up, posting, pc, stop, blurred, past, bare>>

HookPublishes(k) ==
  /\ hook[k] # NoRow
  /\ row' = [row EXCEPT ![k] = hook[k]]
  /\ hook' = [hook EXCEPT ![k] = NoRow]
  /\ UNCHANGED <<clock, mode, feed, eng, options, up, posting, pc, stop, blurred, unheard, past,
                 bare, budget>>

-----------------------------------------------------------------------------
(* The deadlines: keys in the order they were armed *)

\* Deadlines::arm: an armed key keeps its place.
ArmDeadline(waiting, k, since) ==
  LET new == [key |-> k, since |-> since, due |-> since + After] IN
  IF \E i \in 1..Len(waiting) : waiting[i].key = k
    THEN [i \in 1..Len(waiting) |-> IF waiting[i].key = k THEN new ELSE waiting[i]]
    ELSE Append(waiting, new)

\* The entries of a list at some of its places, in their order: a recursive
\* function, for the proofs to see what it keeps.
At(list, places) ==
  LET upTo[n \in 0..Len(list)] ==
        IF n = 0 THEN <<>>
        ELSE IF n \in places THEN Append(upTo[n - 1], list[n]) ELSE upTo[n - 1]
  IN upTo[Len(list)]

CancelDeadline(waiting, k) == At(waiting, {i \in 1..Len(waiting) : waiting[i].key # k})

\* Deadlines::take_due: what is due and what goes on waiting, in their order.
TakenDue(waiting) == At(waiting, {i \in 1..Len(waiting) : waiting[i].due <= clock})
StillWaiting(waiting) == At(waiting, {i \in 1..Len(waiting) : waiting[i].due > clock})

\* Engine::sweep.
Sweep(e) ==
  LET due == TakenDue(e.deadlines) IN
  [e EXCEPT !.queue = @ \o [i \in 1..Len(due) |->
                              [job |-> "due", key |-> due[i].key, since |-> due[i].since]],
            !.deadlines = StillWaiting(@)]

-----------------------------------------------------------------------------
(* The follower *)

AtMost(a, b) == IF a <= b THEN a ELSE b

RefollowSoon(e) ==
  [e EXCEPT !.refollow = [at |-> clock + e.after, wait |-> e.after],
            !.after = AtMost(2 * @, RefollowMax)]

Proven(e) == e.heard \/ clock - e.followedAt > e.followedAfter

OnDead(e) ==
  RefollowSoon([e EXCEPT !.following = FALSE, !.after = IF Proven(e) THEN RefollowMin ELSE @])

Jobs(lines) == [i \in 1..Len(lines) |-> [job |-> "event", line |-> lines[i]]]

\* Each line a job, with the deadlines that are due right behind it: behind the
\* first, for none is due any more when the next is taken.
TakeLines(e, lines) ==
  IF lines = <<>> THEN e
  ELSE LET first == Sweep([e EXCEPT !.queue = Append(@, Jobs(lines)[1])])
       IN [first EXCEPT !.queue = @ \o Tail(Jobs(lines))]

Ingest(e, lines, death) ==
  LET taken == TakeLines(e, lines)
      all == [e EXCEPT !.heard = @ \/ lines # <<>>,
                       !.queue = taken.queue, !.deadlines = taken.deadlines]
  IN IF death THEN OnDead(all) ELSE all

\* follow, whose feed has started: the first read may have died already.
Follow(e, precededBy, death) ==
  [Ingest([e EXCEPT !.following = TRUE], <<>>, death)
     EXCEPT !.followedAt = clock, !.followedAfter = precededBy, !.heard = FALSE]

\* Mutant: a key is armed although it was warned about in this idle period.
Rearmable_Warned(e, k) ==
  /\ row[k].state \in {"done", "blocked", "question"}
  /\ clock - row[k].at < Ttl

\* The rows arm_from_states arms from.
Rearmable(e, k) ==
  /\ row[k].state \in {"done", "blocked", "question"}
  /\ clock - row[k].at < Ttl
  /\ ~(e.warnedAt[k] # None /\ row[k].at <= e.warnedAt[k])

\* The order of the rows, the newest first.
NewestFirst(keys) ==
  {rows \in [1..Cardinality(keys) -> keys] :
     /\ Range(rows) = keys
     /\ \A i, j \in 1..Cardinality(keys) : i < j =>
          \/ row[rows[i]].at > row[rows[j]].at
          \/ row[rows[i]].at = row[rows[j]].at /\ rows[i] < rows[j]}

\* Each of them is armed, one that waits already where it stands.
ArmRows(e, rows) ==
  LET armed(k) == [key |-> k, since |-> row[k].at, due |-> row[k].at + After]
      waits(k) == \E i \in 1..Len(e.deadlines) : e.deadlines[i].key = k
      new == At(rows, {i \in 1..Len(rows) : ~waits(rows[i])})
  IN [e EXCEPT
       !.armedBy = [k \in Key |-> IF k \in Range(rows) THEN row[k].at ELSE @[k]],
       !.deadlines = [i \in 1..Len(@) |-> IF @[i].key \in Range(rows) THEN armed(@[i].key)
                                          ELSE @[i]]
                     \o [i \in 1..Len(new) |-> armed(new[i])]]

ArmFromStates(e, rows) == IF options.cache THEN ArmRows(e, rows) ELSE e

-----------------------------------------------------------------------------
(* The calls of the loop *)

\* Engine::start; a follow that fails ends the start of the service.
Start ==
  /\ pc = "start"
  /\ \E death \in {FALSE, budget.deaths > 0},
        rows \in NewestFirst({k \in Key : Rearmable(eng, k)}) :
       /\ eng' = ArmFromStates(Follow(eng, 0, death), rows)
       /\ budget' = [budget EXCEPT !.deaths = IF death THEN @ - 1 ELSE @]
  /\ pc' = "wait"
  /\ UNCHANGED <<clock, world, feed, options, up, posting, stop, past, bare>>

StartFails ==
  /\ pc = "start"
  /\ pc' = "ended"
  /\ UNCHANGED <<clock, world, feed, eng, options, up, posting, stop, past, bare, budget>>

RefollowDue == eng.refollow.at # None /\ clock >= eng.refollow.at

\* Mutant: a follow that fails is not tried again.
FollowAgain_Once(failed, death, rows) ==
  LET quiet == [eng EXCEPT !.refollow = NoRefollow] IN
  IF failed THEN quiet ELSE ArmFromStates(Follow(quiet, eng.refollow.wait, death), rows)

\* follow_again, when the time of the re-follow has come.
FollowAgain(failed, death, rows) ==
  LET quiet == [eng EXCEPT !.refollow = NoRefollow] IN
  IF failed THEN RefollowSoon(quiet)
  ELSE ArmFromStates(Follow(quiet, eng.refollow.wait, death), rows)

\* turn of wake and tick while no re-follow is due: wake reads the feed, and
\* tick is what next_due asks for.
Wake ==
  /\ pc = "wait" /\ ~stop /\ ~RefollowDue /\ eng.following
  /\ \E death \in {FALSE, budget.deaths > 0} :
       /\ feed # <<>> \/ death
       /\ eng' = Sweep(Ingest(eng, feed, death))
       /\ budget' = [budget EXCEPT !.deaths = IF death THEN @ - 1 ELSE @]
  /\ feed' = <<>>
  /\ pc' = "run"
  /\ UNCHANGED <<clock, world, options, up, posting, stop, past, bare>>

Tick ==
  /\ pc = "wait" /\ ~stop /\ ~RefollowDue
  /\ eng.queue # <<>> \/ \E i \in 1..Len(eng.deadlines) : eng.deadlines[i].due <= clock
  /\ eng' = Sweep(eng)
  /\ pc' = "run"
  /\ UNCHANGED <<clock, world, feed, options, up, posting, stop, past, bare, budget>>

\* The turn that follows again.  Nothing is in the file that start opened at
\* its end; a row whose hook has not published it is armed from as it is.
Refollows ==
  /\ pc = "wait" /\ ~stop /\ RefollowDue
  /\ \E failed, death \in {FALSE, budget.deaths > 0},
        rows \in NewestFirst({k \in Key : Rearmable(eng, k)}) :
       /\ ~(failed /\ death)
       /\ eng' = Sweep(FollowAgain(failed, death, rows))
       /\ budget' = [budget EXCEPT !.deaths = IF failed \/ death THEN @ - 1 ELSE @]
  /\ blurred' = blurred \cup {k \in Key : hook[k] # NoRow}
  /\ pc' = "run"
  /\ UNCHANGED <<clock, mode, row, hook, unheard, feed, options, up, posting, stop, past, bare>>

Reload ==
  /\ pc = "wait" /\ ~stop
  /\ options' \in InForce \ {options}
  /\ UNCHANGED <<clock, world, feed, eng, up, posting, pc, stop, past, bare, budget>>

-----------------------------------------------------------------------------
(* The jobs *)

\* classify: what an event means, for the events that mean something.
Verdict(ev) ==
  LET gone == ev \in MovesOn IN
  [kind |-> CASE ev \in {"ask", "dialog"} -> "question"
              [] ev = "permission" -> "permission"
              [] ev = "stop" -> "turn_done"
              [] ev = "end" -> "session_end"
              [] OTHER -> "none",
   arms |-> ev \in {"ask", "dialog", "permission", "stop"},
   withdraw |-> gone, cancel |-> gone]

HeldBack(l) ==
  /\ l.event = "permission"
  /\ l.key \in DOMAIN eng.questions /\ l.at - eng.questions[l.key] <= Window

\* Mutant: the stop is not looked at between two jobs.
TakesJob_Stopped == pc = "run" /\ eng.queue # <<>>

\* run: the next job, unless the stop is tripped.
TakesJob == pc = "run" /\ ~stop /\ eng.queue # <<>>

Rest == [eng EXCEPT !.queue = Tail(@)]

\* The questions with that of a key, and without it.
With(questions, k, at) ==
  [q \in DOMAIN questions \cup {k} |-> IF q = k THEN at ELSE questions[q]]
Without(questions, k) == Restrict(questions, DOMAIN questions \ {k})

\* Mutant: only the end of the turn takes the question back.
Unasked_AtStop(e, l) ==
  IF l.event = "stop" THEN [e EXCEPT !.questions = Without(@, l.key)] ELSE e

\* The answer, a prompt, the end of the turn or of the session.
Unasked(e, l) ==
  IF Verdict(l.event).cancel \/ l.event = "stop"
    THEN [e EXCEPT !.questions = Without(@, l.key)] ELSE e

Cancelled(e, l) ==
  IF Verdict(l.event).cancel
    THEN [e EXCEPT !.deadlines = CancelDeadline(@, l.key), !.armedBy[l.key] = None,
                   !.warnedAt[l.key] = None]
    ELSE e

Armed(e, l) ==
  IF Verdict(l.event).arms /\ options.cache
    THEN [e EXCEPT !.armedBy[l.key] = l.at, !.warnedAt[l.key] = None,
                   !.deadlines = ArmDeadline(@, l.key, l.at)]
    ELSE e

\* A notice is posted, or the next job runs.  What a post notes when it has been
\* answered is the time of its event, or the one its deadline was looked at.
Posts(post, k, kind, ev, at) ==
  IF post THEN pc' = "post" /\ posting' = [key |-> k, kind |-> kind, event |-> ev, at |-> at]
  ELSE UNCHANGED <<pc, posting>>

\* step of an event that means nothing, or is held back.
StepOver ==
  /\ TakesJob
  /\ LET j == Head(eng.queue) IN
     /\ j.job = "event" /\ (j.line.event = "ping" \/ HeldBack(j.line))
     /\ bare' = (bare \/ (HeldBack(j.line) /\ j.line.key \notin up \cup inFront))
  /\ eng' = Rest
  /\ UNCHANGED <<clock, world, feed, options, up, posting, pc, stop, past, budget>>

\* step of any other event.
Step ==
  /\ TakesJob /\ Head(eng.queue).job = "event"
  /\ LET l == Head(eng.queue).line
         v == Verdict(l.event)
     IN /\ l.event # "ping" /\ ~HeldBack(l)
        /\ eng' = Armed(Cancelled(Unasked(Rest, l), l), l)
        /\ up' = IF v.withdraw THEN up \ {l.key} ELSE up
        /\ Posts(v.kind \in options.kinds, l.key, v.kind, l.event, l.at)
        /\ blurred' = IF v.cancel /\ eng.following THEN blurred \ {l.key} ELSE blurred
        /\ warned' = [warned EXCEPT ![l.key] = 0]
        /\ outdated' = IF v.cancel \/ options.cache THEN outdated \ {l.key}
                       ELSE outdated \cup {k \in {l.key} : eng.armedBy[k] # None}
  /\ UNCHANGED <<clock, mode, row, hook, unheard, feed, options, stop, landed, inFront, bare,
                 budget>>

\* Mutant: a deadline that came is not asked whether it still stands.
Stands_Always(k, since) == TRUE

\* The deadline that came is the one that is armed.
Stands(k, since) == eng.armedBy[k] = since

\* due: what the row and the clock say when the deadline comes.
Warns(k, since) ==
  /\ options.cache
  /\ row[k].state \notin {"none", "new"}
  /\ ~(row[k].state \in {"working", "question"} /\ row[k].at > since)
  /\ clock - since < Ttl

Due ==
  /\ TakesJob /\ Head(eng.queue).job = "due"
  /\ LET k == Head(eng.queue).key
         since == Head(eng.queue).since
     IN IF ~Stands(k, since) THEN eng' = Rest /\ UNCHANGED <<pc, posting>>
        ELSE /\ eng' = [Rest EXCEPT !.armedBy[k] = None]
             /\ Posts(Warns(k, since), k, "cache_expiring", "due", clock)
  /\ UNCHANGED <<clock, world, feed, options, up, stop, past, bare, budget>>

\* What is remembered of the question of a key when its post has ended.
Remembered(k, gone, shown) ==
  IF shown /\ posting.kind = "question" /\ posting.event = "ask" /\ ~gone
    THEN With(eng.questions, k, posting.at)
  ELSE IF gone THEN Without(eng.questions, k) ELSE eng.questions

\* The answers of tmux on the pane and of the backend on the notice.
Answered(k, gone, result) ==
  LET cache == posting.kind = "cache_expiring"
      answered == result # "failed" /\ ~(gone /\ cache)
      shown == answered /\ result = "shown"
      dropped == answered /\ result # "shown"
  IN /\ eng' = [eng EXCEPT !.questions = Remembered(k, gone, shown),
                          !.warnedAt[k] = IF answered /\ cache THEN posting.at ELSE @]
     /\ up' = (IF shown THEN up \cup {k} ELSE IF dropped THEN up \ {k} ELSE up)
     /\ inFront' = (IF shown THEN inFront \ {k} ELSE IF dropped THEN inFront \cup {k} ELSE inFront)
     /\ warned' = (IF answered /\ cache THEN [warned EXCEPT ![k] = @ + 1] ELSE warned)

PostEnds ==
  /\ pc = "post"
  /\ \E gone \in BOOLEAN, result \in {"shown", "dropped", "failed"} :
       Answered(posting.key, gone, result)
  /\ landed' = IF stop THEN landed + 1 ELSE landed
  /\ pc' = "run" /\ posting' = [key |-> None]
  /\ UNCHANGED <<clock, world, feed, options, stop, outdated, bare, budget>>

\* run ends with its queue empty, or drops it once the stop is tripped.
RunEnds ==
  /\ pc = "run" /\ (eng.queue = <<>> \/ stop)
  /\ eng' = [eng EXCEPT !.queue = <<>>]
  /\ pc' = "wait"
  /\ UNCHANGED <<clock, world, feed, options, up, posting, stop, past, bare, budget>>

-----------------------------------------------------------------------------
(* The stop, and time *)

\* The signal, or the watch ends.
Signal ==
  /\ Idle /\ ~stop /\ pc # "ended"
  /\ stop' = TRUE
  /\ UNCHANGED <<clock, world, feed, eng, options, up, posting, pc, past, bare, budget>>

\* end of service.rs and Engine::stop.
StopEngine ==
  /\ pc = "wait" /\ stop
  /\ eng' = [eng EXCEPT !.following = FALSE, !.refollow = NoRefollow, !.queue = <<>>,
                        !.deadlines = <<>>, !.armedBy = [k \in Key |-> None],
                        !.questions = NoQuestions, !.warnedAt = [k \in Key |-> None]]
  /\ pc' = "ended"
  /\ UNCHANGED <<clock, world, feed, options, up, posting, stop, past, bare, budget>>

Advance ==
  /\ Idle \/ pc = "start"
  /\ \A k \in Key : hook[k] = NoRow
  /\ clock < MaxTime
  /\ clock' = clock + 1
  /\ UNCHANGED <<world, feed, eng, options, up, posting, pc, stop, past, bare, budget>>

LoopStep ==
  \/ Start \/ Wake \/ Tick \/ Refollows \/ StepOver \/ Step \/ Due \/ PostEnds
  \/ RunEnds \/ StopEngine

Next ==
  \/ \E k \in Key : HookAppends(k) \/ ToolRuns(k) \/ HookPublishes(k)
  \/ LoopStep \/ StartFails \/ Reload \/ Signal \/ Advance

Spec == Init /\ [][Next]_vars

-----------------------------------------------------------------------------
(* Properties *)

\* A person is warned once of one cache: neither a re-follow that arms from
\* the rows, nor a row the idle ping rewrote, nor a deadline that was taken
\* out of the list before its key was armed again makes a second warning.
\* A key of which an event was lost may be warned about twice, and so may one
\* that stays armed by the event before the last, which came while the warning
\* was off: arm leaves the deadline of the older one.
WarnedOncePerWait == \A k \in Key \ (blurred \cup outdated) : warned[k] <= 1

\* The sessions at work that have a notice up while the engine has nothing to do.
AtRestWorking ==
  {k \in up : /\ pc = "wait" /\ ~stop /\ eng.queue = <<>> /\ feed = <<>>
             /\ mode[k] \in {"fresh", "working"}}

\* When the engine has nothing left to read or run, no notice is up for a
\* session that works again, whatever deadline, re-follow or reload came in
\* between.  A withdrawal that failed leaves one, and so does an event that
\* nobody followed or a row that was read before it was published; and a session
\* that was given its permission goes on without a line (NoStaleNotice).
NothingStaleAtRest ==
  AtRestWorking \subseteq blurred \cup unheard

\* "a notice that is no longer true is withdrawn" (README of packages/notify),
\* of every session whose events were all followed.
NoStaleNotice == AtRestWorking \subseteq blurred

\* After the stop one post ends at the most, the one in flight (run).
OneLandsAfterStop == landed <= 1

\* A permission prompt is held back only while the notice of its key is up, or
\* the last one was dropped because the pane was in front: not for a question
\* that was answered or belongs to an earlier turn (step, post).
HeldBackForAQuestion == ~bare

\* What armed a key has its deadline, in the list or as a job that waits, with
\* the idle-since it was armed with: no key is forgotten, whatever cancelled,
\* armed again or took out its deadline.
ArmedHasDeadline ==
  \A k \in Key : ~stop /\ eng.armedBy[k] # None =>
    \/ \E i \in 1..Len(eng.deadlines) :
         eng.deadlines[i].key = k /\ eng.deadlines[i].since = eng.armedBy[k]
    \/ \E i \in 1..Len(eng.queue) :
         eng.queue[i].job = "due" /\ eng.queue[i].key = k /\ eng.queue[i].since = eng.armedBy[k]

\* While nobody follows, the re-follow that brings the engine back waits for its
\* time: after a death, a follow that failed and a first read that died.
DeadIsFollowedAgain ==
  pc \in {"wait", "run", "post"} /\ ~eng.following => eng.refollow.at # None

\* "The wait starts over only for a follower that heard an event, or that
\* lived longer than the wait before it" (on_dead).  Where no follower lived
\* before the step it has not.
WaitStartsOverIfProven ==
  [][eng'.refollow # eng.refollow /\ eng'.refollow.wait = RefollowMin /\ ~eng.following
       => eng.after = RefollowMin]_vars

\* What the engine waits for is what stands: a notice on screen at rest is of
\* what its session does, and a key that is armed has the deadline it was
\* armed with, listed or on its way through the queue.
WaitsForWhatStands == TypeOK /\ NothingStaleAtRest /\ ArmedHasDeadline
=============================================================================
