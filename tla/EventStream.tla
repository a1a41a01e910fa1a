---------------------------- MODULE EventStream ----------------------------
(***************************************************************************)
(* The event stream: the hooks that append lines to events.tsv while the   *)
(* switch events.on is there, the follower of the notify service that      *)
(* reads them back and rotates the file (notify/events.rs), and the watch  *)
(* that wakes it (watch/).                                                 *)
(*                                                                         *)
(* A hook process writes one line, in two halves because a reader may see  *)
(* the first page of a write before the second.  Files are inodes, numbered *)
(* as they are made; the path names one of them, or 0.                     *)
(***************************************************************************)
EXTENDS Naturals, Sequences, FiniteSets

CONSTANTS
  Hook,          \* hook processes, each with its line
  Rotator,       \* those of them that rotate the file (SessionStart)
  MaxFiles,      \* bound: files made
  RotateAt,      \* ROTATE_BYTES, in halves
  HookRotateAt   \* the size above which rotate of the hook renames

StreamAssumption ==
  /\ Rotator \subseteq Hook
  /\ {MaxFiles, RotateAt, HookRotateAt} \subseteq Nat \ {0}

VARIABLES
  content,   \* what each file holds: halves of lines
  path,      \* the file events.tsv names
  made,      \* files made
  switch,    \* events.on is there
  hook,      \* where each hook is
  fd,        \* the file it has open
  at,        \* where the follower is
  cur,       \* Inner::cur: file, offset, rest
  old,       \* Inner::grace, its file 0 without one
  graceOver, \* its due time has come
  armed,     \* the file under the file watch
  entries,   \* the directory changed and the watch thread has not seen it
  wake,      \* the watch has a wake for the follower
  delivered, \* how often the engine was given the event of each line
  excused,   \* history: lines nobody was there to read
  disturbed, \* history: the hook rotated, a read failed, the file was emptied
  left       \* history: the switch that is there is one a follower left behind

stream == <<content, path, made, switch>>
hooks == <<hook, fd>>
follower == <<at, cur, old, graceOver>>
watch == <<armed, entries, wake>>
history == <<excused, disturbed, left>>
vars == <<stream, hooks, follower, watch, delivered, history>>

File == 1..MaxFiles
Half == Hook \X {1, 2}
Cursor == [file : 0..MaxFiles, offset : Nat, rest : Seq(Half)]
NoCursor == [file |-> 0, offset |-> 0, rest |-> <<>>]

Follows == at # "off"

TypeOK ==
  /\ content \in [File -> Seq(Half)]
  /\ path \in 0..made /\ made \in 0..MaxFiles
  /\ switch \in BOOLEAN /\ graceOver \in BOOLEAN /\ entries \in BOOLEAN /\ wake \in BOOLEAN
  /\ hook \in [Hook -> {"off", "size", "mv", "open", "first", "second", "done"}]
  /\ fd \in [Hook -> 0..made]
  /\ at \in {"off", "arm", "switch", "idle", "pump", "names", "reopen", "rearm",
             "rename", "fresh"}
  /\ cur \in Cursor /\ old \in Cursor
  /\ armed \in 0..made
  /\ delivered \in [Hook -> Nat] /\ excused \subseteq Hook
  /\ disturbed \in BOOLEAN /\ left \in BOOLEAN
  /\ Follows <=> cur.file # 0
  /\ old.file # 0 => Follows /\ old.file # cur.file
  /\ \A c \in {cur, old} : Len(c.rest) <= 1

Init ==
  /\ content = [f \in File |-> <<>>] /\ path = 0 /\ made = 0 /\ switch = FALSE
  /\ hook = [h \in Hook |-> "off"] /\ fd = [h \in Hook |-> 0]
  /\ at = "off" /\ cur = NoCursor /\ old = NoCursor /\ graceOver = FALSE
  /\ armed = 0 /\ entries = FALSE /\ wake = FALSE
  /\ delivered = [h \in Hook |-> 0] /\ excused = {} /\ disturbed = FALSE /\ left = FALSE

\* A file watch hears of every change of its file.
Touch(f) == wake' = (wake \/ (armed = f /\ at # "off"))

\* open(2) with O_CREAT of the path.
OpenPath(f) ==
  IF path # 0 THEN f = path /\ UNCHANGED <<path, made, entries>>
  ELSE made < MaxFiles /\ f = made + 1 /\ made' = f /\ path' = f /\ entries' = TRUE

-----------------------------------------------------------------------------
(* A hook: the event stream block of tmux-agent-state.sh *)

HookStarts(h) ==
  /\ hook[h] = "off" /\ switch
  /\ hook' = [hook EXCEPT ![h] = IF h \in Rotator THEN "size" ELSE "open"]
  /\ UNCHANGED <<stream, fd, follower, watch, delivered, history>>

\* rotate: the size is looked at ...
HookSize(h) ==
  /\ hook[h] = "size"
  /\ hook' = [hook EXCEPT ![h] =
       IF path # 0 /\ Len(content[path]) > HookRotateAt THEN "mv" ELSE "open"]
  /\ UNCHANGED <<stream, fd, follower, watch, delivered, history>>

\* ... and then whatever is at the path is moved.
HookMoves(h) ==
  /\ hook[h] = "mv"
  /\ hook' = [hook EXCEPT ![h] = "open"]
  /\ path' = 0
  /\ entries' = (entries \/ path # 0) /\ Touch(path)
  /\ disturbed' = TRUE
  /\ UNCHANGED <<content, made, switch, fd, follower, armed, delivered, excused, left>>

HookOpens(h) ==
  /\ hook[h] = "open"
  /\ \E f \in File : OpenPath(f) /\ fd' = [fd EXCEPT ![h] = f]
  /\ hook' = [hook EXCEPT ![h] = "first"]
  /\ UNCHANGED <<content, switch, follower, armed, wake, delivered, history>>

\* The append, under the lock of the inode.  A line that ends in a file nobody
\* has open or will open is excused.
HookWrites(h) ==
  LET f == fd[h]
      part == IF hook[h] = "first" THEN 1 ELSE 2
  IN /\ hook[h] \in {"first", "second"}
     /\ part = 1 => \A g \in Hook : hook[g] = "second" => fd[g] # f
     /\ content' = [content EXCEPT ![f] = Append(@, <<h, part>>)]
     /\ hook' = [hook EXCEPT ![h] = IF part = 1 THEN "second" ELSE "done"]
     /\ excused' = IF ~Follows \/ f \notin {path, cur.file, old.file}
                     THEN excused \cup {h} ELSE excused
     /\ Touch(f)
     /\ UNCHANGED <<path, made, switch, fd, follower, armed, entries, delivered, disturbed, left>>

-----------------------------------------------------------------------------
(* The watch thread: the directory is heard of once the path was armed again *)

WatchThread ==
  /\ entries /\ at # "off"
  /\ entries' = FALSE
  /\ armed' = path /\ wake' = TRUE
  /\ UNCHANGED <<stream, hooks, follower, delivered, history>>

-----------------------------------------------------------------------------
(* The follower *)

\* parse_event_line of each line that has ended, for the engine: a line whose
\* head was not read has too few fields and is none.
Times(s, h) == Cardinality({i \in 2..Len(s) : s[i] = <<h, 2>> /\ s[i - 1] = <<h, 1>>})
Deliver(s) == delivered' = [h \in Hook |-> delivered[h] + Times(s, h)]

\* What comes after the last newline.
Rest(s) == IF s # <<>> /\ s[Len(s)][2] = 1 THEN <<s[Len(s)]>> ELSE <<>>

\* Where pump starts: a size below the offset is a truncation.
From(c) ==
  IF Len(content[c.file]) < c.offset THEN [c EXCEPT !.offset = 0, !.rest = <<>>] ELSE c

New(c) == From(c).rest \o SubSeq(content[c.file], From(c).offset + 1, Len(content[c.file]))

Pumped(c) == [file |-> c.file, offset |-> Len(content[c.file]), rest |-> Rest(New(c))]

\* Follower::start: the path is opened at its end.
StartOpens ==
  /\ at = "off"
  /\ \E f \in File :
       /\ OpenPath(f)
       /\ cur' = [file |-> f, offset |-> Len(content[f]), rest |-> <<>>]
       /\ excused' = excused \cup {content[f][i][1] : i \in 1..Len(content[f])}
  /\ at' = "arm"
  /\ UNCHANGED <<content, switch, hooks, old, graceOver, armed, wake, delivered, disturbed, left>>

Arm ==
  /\ at = "arm" /\ path # 0
  /\ armed' = path
  /\ at' = "switch"
  /\ UNCHANGED <<stream, hooks, cur, old, graceOver, entries, wake, delivered, history>>

\* switch_in: events.on is touched, and events.tsv after it.  The first wake
\* comes right after.
SwitchOn ==
  /\ at = "switch"
  /\ \E f \in File : OpenPath(f)
  /\ switch' = TRUE /\ left' = FALSE
  /\ at' = "pump"
  /\ UNCHANGED <<content, hooks, cur, old, graceOver, armed, wake, delivered, excused, disturbed>>

\* Mutant: the old file is read from its start.
EndGrace_FromStart ==
  /\ at = "idle" /\ old.file # 0 /\ graceOver
  /\ Deliver(New([old EXCEPT !.offset = 0, !.rest = <<>>]))
  /\ old' = NoCursor /\ graceOver' = FALSE
  /\ UNCHANGED <<stream, hooks, at, cur, watch, history>>

\* end_grace: what the old file gained, and then it is closed.
EndGrace ==
  /\ at = "idle" /\ old.file # 0 /\ graceOver
  /\ Deliver(New(old))
  /\ old' = NoCursor /\ graceOver' = FALSE
  /\ UNCHANGED <<stream, hooks, at, cur, watch, history>>

\* The old file cannot be read: it is closed all the same.
EndGraceFails ==
  /\ at = "idle" /\ old.file # 0 /\ graceOver
  /\ old' = NoCursor /\ graceOver' = FALSE
  /\ disturbed' = TRUE
  /\ UNCHANGED <<stream, hooks, at, cur, watch, delivered, excused, left>>

\* wake: the grace that is over comes first.
Wake ==
  /\ at = "idle" /\ wake /\ ~(old.file # 0 /\ graceOver)
  /\ wake' = FALSE
  /\ at' = "pump"
  /\ UNCHANGED <<stream, hooks, cur, old, graceOver, armed, entries, delivered, history>>

Pump ==
  /\ at = "pump"
  /\ cur' = Pumped(cur)
  /\ Deliver(New(cur))
  /\ at' = "names"
  /\ UNCHANGED <<stream, hooks, old, graceOver, watch, history>>

\* A read that fails ends this call and nothing else: the next wake reads on.
PumpFails ==
  /\ at = "pump"
  /\ at' = "idle"
  /\ disturbed' = TRUE
  /\ UNCHANGED <<stream, hooks, cur, old, graceOver, watch, delivered, excused, left>>

NamesFile ==
  /\ at = "names"
  /\ at' = CASE path # cur.file -> "reopen"
             [] path = cur.file /\ cur.offset >= RotateAt /\ old.file = 0 -> "rename"
             [] OTHER -> "idle"
  /\ UNCHANGED <<stream, hooks, cur, old, graceOver, watch, delivered, history>>

Reopen ==
  /\ at = "reopen"
  /\ \E f \in File : OpenPath(f) /\ cur' = [NoCursor EXCEPT !.file = f]
  /\ at' = "rearm"
  /\ UNCHANGED <<content, switch, hooks, old, graceOver, armed, wake, delivered, history>>

\* arm_file, and the loop reads again.
Rearm ==
  /\ at = "rearm" /\ path # 0
  /\ armed' = path
  /\ at' = "pump"
  /\ UNCHANGED <<stream, hooks, cur, old, graceOver, entries, wake, delivered, history>>

\* rotate: the rename, of whatever is at the path, which fails without one ...
Rename ==
  /\ at = "rename"
  /\ IF path = 0 THEN at' = "idle" /\ UNCHANGED <<path, entries, wake>>
     ELSE /\ at' = "fresh" /\ path' = 0
          /\ entries' = TRUE /\ Touch(path)
  /\ UNCHANGED <<content, made, switch, hooks, cur, old, graceOver, armed, delivered, history>>

\* ... or for another reason, and the follower goes on with the file.
RenameFails ==
  /\ at = "rename"
  /\ at' = "idle"
  /\ UNCHANGED <<stream, hooks, cur, old, graceOver, watch, delivered, history>>

\* The fresh file is followed from 0 and the old one kept for the grace.
Fresh ==
  /\ at = "fresh"
  /\ \E f \in File : OpenPath(f) /\ cur' = [NoCursor EXCEPT !.file = f]
  /\ old' = cur /\ graceOver' = FALSE
  /\ at' = "rearm"
  /\ UNCHANGED <<content, switch, hooks, armed, wake, delivered, history>>

GraceElapses ==
  /\ old.file # 0 /\ ~graceOver
  /\ graceOver' = TRUE
  /\ UNCHANGED <<stream, hooks, at, cur, old, watch, delivered, history>>

Undelivered == {h \in Hook : hook[h] \in {"second", "done"} /\ delivered[h] = 0}

LetGo ==
  /\ at' = "off" /\ cur' = NoCursor /\ old' = NoCursor /\ graceOver' = FALSE
  /\ armed' = 0 /\ wake' = FALSE
  /\ excused' = excused \cup Undelivered

\* Mutant: the switch stays when the follower goes.
SwitchOut_Stays == UNCHANGED <<switch, left>>

\* switch_out: the switch is removed, or it is there and stays, which is an
\* error that is reported and nothing more.
SwitchOut ==
  \/ switch' = FALSE /\ left' = FALSE
  \/ switch /\ left' = TRUE /\ UNCHANGED switch

\* A start that fails: the watch cannot be armed, or the switch not be turned
\* on.  The follower was not counted in, so nothing turns it off: when events.on
\* was touched and events.tsv could not be, it stays.
StartFails ==
  /\ at \in {"arm", "switch"}
  /\ LetGo
  /\ \/ UNCHANGED <<switch, left>>
     \/ at = "switch" /\ switch' = TRUE /\ left' = TRUE
  /\ UNCHANGED <<content, path, made, hooks, entries, delivered, disturbed>>

\* A death: the path cannot be opened again or the watch not be armed.
Die ==
  /\ at \in {"reopen", "rearm", "fresh"}
  /\ LetGo /\ SwitchOut
  /\ UNCHANGED <<content, path, made, hooks, entries, delivered, disturbed>>

\* The path was moved between the open and the arming, which fails.
ArmMissing == path = 0 /\ ((at = "arm" /\ StartFails) \/ (at = "rearm" /\ Die))

Close ==
  /\ at = "idle"
  /\ LetGo /\ SwitchOut
  /\ UNCHANGED <<content, path, made, hooks, entries, delivered, disturbed>>

Kill ==
  /\ at # "off"
  /\ LetGo
  /\ left' = switch
  /\ UNCHANGED <<stream, hooks, entries, delivered, disturbed>>

\* The owner empties the file.
Empty ==
  /\ path # 0 /\ content[path] # <<>> /\ ~disturbed
  /\ content' = [content EXCEPT ![path] = <<>>]
  /\ disturbed' = TRUE
  /\ Touch(path)
  /\ UNCHANGED <<path, made, switch, hooks, follower, armed, entries, delivered, excused, left>>

-----------------------------------------------------------------------------
HookStep(h) ==
  HookStarts(h) \/ HookSize(h) \/ HookMoves(h) \/ HookOpens(h) \/ HookWrites(h)

FollowerStep ==
  \/ Arm \/ SwitchOn \/ EndGrace \/ Wake \/ Pump \/ NamesFile \/ Reopen \/ Rearm
  \/ Rename \/ Fresh \/ ArmMissing

Next ==
  \/ \E h \in Hook : HookStep(h)
  \/ WatchThread
  \/ StartOpens \/ FollowerStep \/ PumpFails \/ EndGraceFails \/ RenameFails
  \/ GraceElapses \/ StartFails \/ Die \/ Close \/ Kill
  \/ Empty

Spec == Init /\ [][Next]_vars

\* The service and its watch thread run, and time goes by.
FairSpec ==
  /\ Spec
  /\ WF_vars(WatchThread) /\ WF_vars(FollowerStep) /\ WF_vars(GraceElapses)

-----------------------------------------------------------------------------
(* Properties *)

\* The engine is given no event twice, over every rotation, replacement and
\* new start of the follower, and none before its line has ended (pump, rotate,
\* end_grace).
AtMostOnce == \A h \in Hook : delivered[h] <= IF hook[h] = "done" THEN 1 ELSE 0

\* The hooks write while somebody reads: the switch is there only while a
\* follower follows, over every start, death and close of one, unless it was left
\* there: by a service that was killed, by a removal that failed, or by a start
\* that failed after it had made it (switch_in, switch_out).  A start that
\* succeeds takes a switch over that was left, and the follower's end removes it.
SwitchIsOfAFollower == switch /\ ~left => Follows

\* A line that a hook ended in a file the follower has open, or will open, is
\* delivered without another wake: no write falls between an arming and a
\* read, none into a rotated file during its grace (start_with, drain,
\* rotate).  The rotation of the hook, a read that failed and a file that was
\* emptied can cost one.
Arrived(h) == h \in excused \/ disturbed \/ delivered[h] > 0
LineIsDelivered == \A h \in Hook : hook[h] = "done" ~> Arrived(h)

\* The stream is read by one cursor or by two, and once.
ReadOnce == TypeOK /\ AtMostOnce
=============================================================================
