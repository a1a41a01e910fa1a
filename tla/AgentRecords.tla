---------------------------- MODULE AgentRecords ----------------------------
(***************************************************************************)
(* The state records of the sessions: hooks/tmux-agent-state.sh, which     *)
(* decides whose record an event belongs to and publishes or removes it,   *)
(* and session/abort.rs, which kills what a record names.                  *)
(*                                                                         *)
(* A pane, and claude processes: in the pane, as a child of another one,   *)
(* as a background job of the pane, or with no pane at all.  A hook is     *)
(* steps that each read or write one file, or look at the process table,   *)
(* and goes on when its claude dies.  A process has one hook at a time.    *)
(* The files of sub/ and prompt/ and the option @agent come and go with    *)
(* the record.  The pane stays open and tmux answers.                      *)
(***************************************************************************)
EXTENDS Naturals, FiniteSets

CONSTANTS
  Proc,     \* the claude processes
  Sid,      \* the ids of their sessions
  None,     \* none of them
  Pane,     \* the pane, which is the key of its record too
  MayBe,    \* process -> the kinds it may be started as
  MaySid,   \* process -> the sessions it may run or resume
  ParentOf, \* process -> the process that starts it as a child
  Events,   \* bound: the events between the starts and the ends, all processes together
  Missed    \* the processes whose SessionStart may never come

Kinds == {"pane", "child", "job", "headless"}
Key == Sid \cup {Pane}
NoRecord == [sid |-> None, pid |-> None, parsid |-> None]

\* A child starts no child here, and the SessionStart that goes missing is of one.
RecordsAssumption ==
  /\ MayBe \in [Proc -> SUBSET Kinds] /\ MaySid \in [Proc -> SUBSET Sid]
  /\ ParentOf \in [Proc -> Proc \cup {None}]
  /\ \A p \in Proc : ParentOf[p] # None => "child" \notin MayBe[ParentOf[p]]
  /\ Pane \notin Sid /\ None \notin Proc \cup Key /\ Events \in Nat
  /\ Missed \subseteq {p \in Proc : MayBe[p] = {"child"}}

VARIABLES
  rec,    \* the record files
  live,   \* the processes that run
  reused, \* the pids that strangers have by now
  kind,   \* how each process was started
  sid,    \* the session each runs
  stage,  \* "new", "open" or "over"
  left,   \* the events there may still be
  front,  \* the process of the pane that is not suspended
  hook,   \* where its hook is
  mem,    \* what its hook has decided and read
  abort,  \* the session abort of this model
  past    \* history: "behind" a record changed after a hook had judged it,
          \* "unproven" a child whose SessionStart never came met a pane with no
          \* record, "blind" a job died before its hook saw the process table,
          \* "stranger" a process killed for a session that was over

vars == <<rec, live, reused, kind, sid, stage, left, front, hook, mem, abort, past>>

Quiet == [event |-> "none", key |-> None, parsid |-> None, mine |-> FALSE, above |-> None,
          kids |-> {}, kid |-> None]
NoAbort == [pid |-> None, stale |-> FALSE]

TypeOK ==
  /\ rec \in [Key -> [sid : Sid \cup {None}, pid : Proc \cup {None}, parsid : Sid \cup {None}]]
  /\ live \subseteq Proc /\ reused \subseteq Proc \ live
  /\ kind \in [Proc -> Kinds] /\ sid \in [Proc -> Sid \cup {None}]
  /\ stage \in [Proc -> {"new", "open", "over"}] /\ left \in 0..Events
  /\ front \in Proc \cup {None} /\ abort.pid \in Proc \cup {None}

Init ==
  /\ rec = [k \in Key |-> NoRecord]
  /\ live = {} /\ reused = {}
  /\ kind = [p \in Proc |-> "headless"] /\ sid = [p \in Proc |-> None]
  /\ stage = [p \in Proc |-> "new"] /\ left = Events
  /\ front = None
  /\ hook = [p \in Proc |-> "idle"] /\ mem = [p \in Proc |-> Quiet]
  /\ abort = NoAbort
  /\ past = {}

World == <<live, reused, kind, sid, left, front>>
At(p, place) == hook[p] = place
Go(p, place, m) == hook' = [hook EXCEPT ![p] = place] /\ mem' = [mem EXCEPT ![p] = m]
Ended(p) == hook' = [hook EXCEPT ![p] = "idle"] /\ mem' = [mem EXCEPT ![p] = Quiet]
Mark(what, when) == past' = IF when THEN past \cup {what} ELSE past

\* What a process sees of the pane: the one it was handed in its environment,
\* and the one its chain of parents reaches; and the claude above it.
Handed(p) ==
  kind[p] = "pane" \/ (kind[p] = "child" /\ kind[ParentOf[p]] = "pane")
Above(p) ==
  IF p \in live /\ kind[p] = "child" /\ ParentOf[p] \in live THEN ParentOf[p] ELSE None
Reaches(p) ==
  p \in live /\ (kind[p] \in {"pane", "job"} \/ (Above(p) # None /\ kind[ParentOf[p]] = "pane"))

-----------------------------------------------------------------------------
(* The processes *)

\* A session is resumed when its process and its last hook are gone, and not as
\* a child.
Launch(p) ==
  /\ sid[p] = None
  /\ \E k \in MayBe[p], s \in MaySid[p] :
       /\ k = "child" => ParentOf[p] \in live /\ \A q \in Proc : sid[q] # s
       /\ \A q \in Proc : sid[q] = s => q \notin live /\ At(q, "idle")
       /\ kind' = [kind EXCEPT ![p] = k] /\ sid' = [sid EXCEPT ![p] = s]
       /\ front' = IF k = "pane" THEN p ELSE front
  /\ live' = live \cup {p}
  /\ UNCHANGED <<rec, reused, stage, left, hook, mem, abort, past>>

\* It exits after its SessionEnd, or is killed before.
Dies(p) ==
  /\ p \in live
  /\ live' = live \ {p}
  /\ UNCHANGED <<rec, reused, kind, sid, stage, left, front, hook, mem, past>>

\* fg of a process of the pane, which suspends the one in front.
Resume(p) ==
  /\ p \in live /\ kind[p] = "pane" /\ front # p
  /\ front' = p
  /\ UNCHANGED <<rec, live, reused, kind, sid, stage, left, hook, mem, abort, past>>

\* One pid is used again, and it matters only while a record or the abort names it.
Reuse(p) ==
  /\ reused = {} /\ p \notin live /\ (abort.pid = p \/ \E k \in Key : rec[k].pid = p)
  /\ reused' = reused \cup {p}
  /\ UNCHANGED <<rec, live, kind, sid, stage, left, front, hook, mem, abort, past>>

-----------------------------------------------------------------------------
(* The hook: whose record this event belongs to *)

\* A SessionStart decides from scratch, every other event looks for a record.
Fire(p, event) ==
  /\ p \in live /\ At(p, "idle") /\ (kind[p] = "pane" => front = p)
  /\ IF event = "start" THEN stage[p] = "new"
     ELSE stage[p] = "open" \/ (stage[p] = "new" /\ p \in Missed)
  /\ event = "update" => left > 0
  /\ left' = IF event = "update" THEN left - 1 ELSE left
  /\ stage' = [stage EXCEPT ![p] = IF event = "end" THEN "over" ELSE "open"]
  /\ Go(p, IF event = "start" THEN "walk" ELSE "own", [Quiet EXCEPT !.event = event])
  /\ UNCHANGED <<rec, live, reused, kind, sid, front, abort, past>>

\* The session's record, once it is decided: publish, or see whom to take along.
Decided(p, m) ==
  IF m.event = "end" THEN Go(p, "kids", [m EXCEPT !.kids = {k \in Sid : rec[k].parsid = sid[p]}])
  ELSE Go(p, "write", m)

\* Under its own session id: a record that is there is its own if it names
\* this process.
TestOwn(p) ==
  /\ At(p, "own")
  /\ Go(p, IF rec[sid[p]] # NoRecord THEN "own read" ELSE IF Handed(p) THEN "pane" ELSE "walk", mem[p])
  /\ UNCHANGED <<rec, World, stage, abort, past>>

ReadOwn(p) ==
  LET r == rec[sid[p]] IN
  /\ At(p, "own read")
  /\ IF r.pid = p THEN Decided(p, [mem[p] EXCEPT !.key = sid[p], !.parsid = r.parsid])
     ELSE Go(p, "walk", mem[p])
  /\ UNCHANGED <<rec, World, stage, abort, past>>

\* In the pane it was handed: the record is its own if it names the session.
ReadPane(p) ==
  /\ At(p, "pane")
  /\ IF rec[Pane].sid \in {None, sid[p]}
     THEN Decided(p, [mem[p] EXCEPT !.key = Pane])
     ELSE Go(p, "walk", mem[p])
  /\ Mark("unproven", rec[Pane].sid = None /\ kind[p] = "child")
  /\ UNCHANGED <<rec, World, stage, abort>>

\* No child: the pane it reaches or was handed, or none.
NotAChild(p, m) ==
  IF m.mine \/ Handed(p)
  THEN LET n == [m EXCEPT !.key = Pane] IN
       IF m.event = "start" THEN Go(p, "unadopt", n)
       ELSE IF Handed(p) THEN Decided(p, n) ELSE Go(p, "guard", n)
  ELSE Decided(p, [m EXCEPT !.key = sid[p]])

\* ta_walk, and the rules that need no more.
\* Mutant: a pane handed to a process that does not reach it is its own.
Walk_TakesTheHanded(p) ==
  LET m == [mem[p] EXCEPT !.mine = Reaches(p), !.above = Above(p)] IN
  /\ At(p, "walk")
  /\ IF m.above # None THEN Go(p, "family", m) ELSE NotAChild(p, m)
  /\ Mark("blind", kind[p] = "job" /\ p \notin live)
  /\ UNCHANGED <<rec, World, stage, abort>>

Walk(p) ==
  LET m == [mem[p] EXCEPT !.mine = Reaches(p), !.above = Above(p)] IN
  /\ At(p, "walk")
  /\ IF m.above # None \/ (Handed(p) /\ ~m.mine) THEN Go(p, "family", m) ELSE NotAChild(p, m)
  /\ Mark("blind", kind[p] = "job" /\ p \notin live)
  /\ UNCHANGED <<rec, World, stage, abort>>

\* The parent: the session whose record names the claude above, or the one in
\* the pane that is reached, or that was only inherited.
Family(p) ==
  LET m == mem[p]
      Named == {k \in Sid : m.above # None /\ rec[k].pid = m.above}
      Child(parent) == Decided(p, [m EXCEPT !.key = sid[p], !.parsid = parent])
  IN
  /\ At(p, "family")
  /\ \/ \E k \in Named : Child(rec[k].sid)
     \/ Named = {} /\ (m.mine \/ Handed(p)) /\ Child(rec[Pane].sid)
     \/ Named = {} /\ ~(m.mine \/ Handed(p)) /\ NotAChild(p, m)
  /\ UNCHANGED <<rec, World, stage, abort, past>>

-----------------------------------------------------------------------------
(* The hook: the record *)

\* Mutant: the record of the session without a pane stays.
Unadopt_Not(p) ==
  /\ At(p, "unadopt")
  /\ IF Handed(p) THEN Decided(p, mem[p]) ELSE Go(p, "guard", mem[p])
  /\ UNCHANGED <<rec, World, stage, abort, past>>

\* A record this session left as a child or without a pane must not adopt it.
Unadopt(p) ==
  /\ At(p, "unadopt")
  /\ rec' = [rec EXCEPT ![sid[p]] = NoRecord]
  /\ IF Handed(p) THEN Decided(p, mem[p]) ELSE Go(p, "guard", mem[p])
  /\ UNCHANGED <<World, stage, abort, past>>

\* A background job reaches the pane of somebody else.
Guard(p) ==
  /\ At(p, "guard")
  /\ Decided(p, IF rec[Pane].sid \in {None, sid[p]} THEN mem[p]
                ELSE [mem[p] EXCEPT !.key = sid[p]])
  /\ UNCHANGED <<rec, World, stage, abort, past>>

RecordOf(p, m) ==
  [sid |-> sid[p], pid |-> IF m.key = Pane THEN None ELSE p, parsid |-> m.parsid]

\* A hook has judged this record and not acted yet.
Judged(p, key) ==
  \E q \in Proc \ {p} : \/ hook[q] \in {"write", "remove"} /\ mem[q].key = key
                        \/ hook[q] = "remove kid" /\ mem[q].kid = key

Write(p) ==
  LET key == mem[p].key IN
  /\ At(p, "write")
  /\ rec' = [rec EXCEPT ![key] = RecordOf(p, mem[p])]
  /\ Mark("behind", Judged(p, key))
  /\ Ended(p)
  /\ UNCHANGED <<World, stage, abort>>

\* A session that ends takes along its children whose claude is gone; the records
\* of the others are passed over.
ReadKid(p) ==
  /\ At(p, "kids")
  /\ \E k \in mem[p].kids :
       LET m == [mem[p] EXCEPT !.kids = @ \ {k}]
           gone == rec[k].parsid = sid[p] /\ rec[k].pid \notin live \cup reused IN
       Go(p, IF gone THEN "remove kid" ELSE "kids", IF gone THEN [m EXCEPT !.kid = k] ELSE m)
  /\ UNCHANGED <<rec, World, stage, abort, past>>

RemoveKid(p) ==
  /\ At(p, "remove kid")
  /\ rec' = [rec EXCEPT ![mem[p].kid] = NoRecord]
  /\ Go(p, "kids", [mem[p] EXCEPT !.kid = None])
  /\ UNCHANGED <<World, stage, abort, past>>

\* gowner: a record that names another conversation is somebody else's.
ReadOwner(p) ==
  /\ At(p, "kids") /\ mem[p].kids = {}
  /\ IF rec[mem[p].key].sid \in {None, sid[p]} THEN Go(p, "remove", mem[p]) ELSE Ended(p)
  /\ UNCHANGED <<rec, World, stage, abort, past>>

Remove(p) ==
  /\ At(p, "remove")
  /\ rec' = [rec EXCEPT ![mem[p].key] = NoRecord]
  /\ Ended(p)
  /\ UNCHANGED <<World, stage, abort, past>>

-----------------------------------------------------------------------------
(* session abort *)

Over(p) == stage[p] = "over" /\ hook[p] = "idle"

\* The record of the session; a pane's is refused.  stale: history, its process
\* had been through its SessionEnd.
AbortReads(s) ==
  /\ abort = NoAbort
  /\ \E k \in Sid : /\ rec[k].sid = s
                    /\ abort' = [pid |-> rec[k].pid, stale |-> Over(rec[k].pid)]
  /\ UNCHANGED <<rec, World, stage, hook, mem, past>>

\* is_alive and the kill: a pid that is nobody's is refused by either.
AbortKills ==
  /\ abort # NoAbort
  /\ abort' = NoAbort
  /\ \/ abort.pid \in live /\ Dies(abort.pid)
     \/ /\ abort.pid \notin live
        /\ Mark("stranger", abort.stale /\ abort.pid \in reused)
        /\ UNCHANGED <<rec, World, stage, hook, mem>>

-----------------------------------------------------------------------------
HookStep(p) ==
  \/ \E event \in {"start", "update", "end"} : Fire(p, event)
  \/ TestOwn(p) \/ ReadOwn(p) \/ ReadPane(p) \/ Walk(p) \/ Family(p)
  \/ Unadopt(p) \/ Guard(p) \/ Write(p)
  \/ ReadKid(p) \/ RemoveKid(p) \/ ReadOwner(p) \/ Remove(p)

Orderly == past \cap {"behind", "unproven", "blind"} = {}

\* What comes after is of no property: the model ends there.  So a record that
\* another hook wrote between the look of this one and its removal is lost in the
\* code, and the model says nothing of it.
Next ==
  /\ Orderly
  /\ \/ \E p \in Proc : \/ Launch(p) \/ Resume(p) \/ Reuse(p) \/ HookStep(p)
                        \/ Dies(p) /\ UNCHANGED abort
     \/ \E s \in Sid : AbortReads(s)
     \/ AbortKills

Spec == Init /\ [][Next]_vars

-----------------------------------------------------------------------------
(* Properties *)

Started == {p \in Proc : sid[p] # None}

\* A session is where it belongs, unless a record changed between a look at it
\* and the step taken on it, or a child with no SessionStart found its pane with
\* no record: a child or headless session has a record of its own with its pid,
\* whatever its parent does; the pane's record is of a session that runs in the
\* pane, never of a child that was only handed it; and one that is alone in the
\* pane keeps it, whoever its children and background jobs are.
RecordsAtHome ==
  Orderly =>
    /\ \A p \in live : stage[p] = "open" /\ At(p, "idle") =>
         /\ kind[p] \in {"child", "headless"} => rec[sid[p]].pid = p /\ rec[sid[p]].sid = sid[p]
         /\ kind[p] = "pane" /\ (\A q \in Started \ {p} : kind[q] # "pane")
              => rec[Pane].sid = sid[p]
    /\ rec[Pane] # NoRecord =>
         \E p \in Started : kind[p] \in {"pane", "job"} /\ sid[p] = rec[Pane].sid

\* A session that has been through its SessionEnd leaves no record behind, nor
\* one of the child it resumed, so that a session abort of it never reaches the
\* next owner of its pid.
RecordsEndWithTheirs ==
  Orderly =>
    /\ "stranger" \notin past
    /\ \A p \in Started :
         Over(p) /\ (\A q \in Started \ {p} : sid[q] = sid[p] => kind[q] = "child")
           => \A k \in Key : rec[k].sid # sid[p]
=============================================================================
