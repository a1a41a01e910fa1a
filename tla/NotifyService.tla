--------------------------- MODULE NotifyService ---------------------------
(***************************************************************************)
(* The process of the notify service around its engine (service.rs): the   *)
(* start with every step that may fail, the loop over one channel, the two *)
(* ends and the release of the lock, with the thread that hears the signal *)
(* (ending.rs), the watch thread (watch/) and the people who write the     *)
(* options file while all of them run.                                     *)
(*                                                                         *)
(* What the engine does with a wake is NotifyEngine, who gets the lock is  *)
(* NotifyLock; here the engine runs or not and the lock is taken, held by  *)
(* another or an error.                                                    *)
(***************************************************************************)
EXTENDS Naturals, Sequences

CONSTANT MaxChanges  \* bound: changes of the options file and its directory

VARIABLES
  at,        \* where run is
  gate,      \* Gate: "starting", "signalled" in it, or "running"
  said,      \* Said
  stopped,   \* Stop
  messages,  \* the channel
  locked,    \* the lock is this process's
  engine,    \* the engine was started and not drained
  code,      \* the exit code it ends with
  signal,    \* where the signal thread is
  watch,     \* the watch: "none", "open", "dead" or "closed"
  dir,       \* the directory armed for Key::Options: "none", "config" or "plugins"
  armed,     \* the inode under the file watch, or 0
  pending,   \* what the kernel has for the watch thread
  refused,   \* history: the file could not be armed, and was not since
  mode,      \* OptionsWatch::mode
  settings,  \* Settings
  inForce,   \* the options of the engine
  log,       \* history: the lines of the service itself
  config,    \* the config directory exists
  plugins,   \* its directory plugins exists
  file,      \* what notify.toml says
  inode,     \* the file it is
  changes    \* bound: changes so far

process == <<at, gate, said, stopped, locked, engine, code>>
watches == <<watch, dir, armed, pending, refused>>
options == <<mode, settings, inForce>>
disk == <<config, plugins, file, inode, changes>>
vars == <<process, messages, signal, watches, options, log, disk>>

Content == {"missing", "same", "other", "none", "bad", "worse"}

\* load: the options of a file; a bad one and none at all are the defaults.
OptionsOf(c) == IF c \in {"other", "none"} THEN c ELSE "same"
Invalid(c) == c \in {"bad", "worse"}

TypeOK ==
  /\ at \in {"signals", "mkdir", "lock", "options", "watch", "engine", "look", "parent", "adopt",
             "armDir", "armFile", "read", "reload", "started", "settle", "serve", "fail",
             "close", "drain", "release", "exited"}
  /\ gate \in {"starting", "signalled", "running"} /\ said \in BOOLEAN /\ stopped \in BOOLEAN
  /\ messages \in Seq({"events", "options", "ended", "stop"})
  /\ locked \in BOOLEAN /\ engine \in BOOLEAN /\ code \in {0, 1}
  /\ signal \in {"off", "waits", "gate", "said", "line", "stop", "send", "done"}
  /\ watch \in {"none", "open", "dead", "closed"} /\ dir \in {"none", "config", "plugins"}
  /\ armed \in Nat /\ pending \subseteq {"dir", "file", "events"} /\ refused \in BOOLEAN
  /\ mode \in {"plugins", "parent", "off"} /\ inForce \in {"same", "other", "none"}
  /\ settings \in [current : {"same", "other", "none"}, seen : {"", "bad", "worse"}]
  /\ log \in Seq({"started", "stopping", "failed", "leaves", "held"})
  /\ config \in BOOLEAN /\ plugins \in BOOLEAN /\ file \in Content
  /\ inode \in Nat /\ changes \in 0..MaxChanges

Init ==
  /\ at = "signals" /\ gate = "starting" /\ said = FALSE /\ stopped = FALSE
  /\ messages = <<>> /\ locked = FALSE /\ engine = FALSE /\ code = 0 /\ signal = "off"
  /\ watch = "none" /\ dir = "none" /\ armed = 0 /\ pending = {} /\ refused = FALSE
  /\ mode = "off" /\ settings = [current |-> "same", seen |-> ""] /\ inForce = "same"
  /\ log = <<>>
  /\ config \in BOOLEAN /\ plugins \in {FALSE, config}
  /\ file \in IF plugins THEN Content ELSE {"missing"}
  /\ inode = (IF file = "missing" THEN 0 ELSE 1) /\ changes = 0

Says(line) == log' = Append(log, line)
Tells(message) == messages' = Append(messages, message)
Here(place) == at = place
Goes(place) == at' = place

-----------------------------------------------------------------------------
(* The disk *)

Changes ==
  /\ changes < MaxChanges /\ changes' = changes + 1
  /\ UNCHANGED <<config, process, messages, signal, watch, dir, armed, refused, options, log>>

Heard(what, armedFor) ==
  pending' = IF watch = "open" /\ armedFor THEN pending \cup {what} ELSE pending

\* plugins is made, or moved into place with what it holds.
MakePlugins ==
  /\ config /\ ~plugins
  /\ plugins' = TRUE
  /\ \E c \in Content : file' = c /\ inode' = IF c = "missing" THEN inode ELSE inode + 1
  /\ Heard("dir", dir = "config")
  /\ Changes

\* The file is made, removed, or another is renamed over it.
Replace ==
  /\ plugins
  /\ \E c \in Content \ {file} :
       file' = c /\ inode' = IF c = "missing" THEN inode ELSE inode + 1
  /\ Heard("dir", dir = "plugins")
  /\ Changes /\ UNCHANGED plugins

\* The file is written where it is: kqueue tells only a watch of the file.
WriteInPlace ==
  /\ file # "missing"
  /\ \E c \in Content \ {"missing", file} : file' = c
  /\ Heard("file", armed = inode)
  /\ Changes /\ UNCHANGED <<plugins, inode>>

\* A line of the event stream.
EventComes ==
  /\ watch = "open" /\ engine /\ "events" \notin pending /\ changes < MaxChanges
  /\ changes' = changes + 1 /\ pending' = pending \cup {"events"}
  /\ UNCHANGED <<config, plugins, file, inode, process, messages, signal, watch, dir, armed,
                 refused, options, log>>

-----------------------------------------------------------------------------
(* The watch thread *)

Rearmed == IF file = "missing" THEN 0 ELSE inode

\* The file is opened again before the key is reported.
WatchThread ==
  /\ watch = "open" /\ pending # {} /\ at # "exited"
  /\ pending' = {}
  /\ IF "dir" \in pending /\ dir = "plugins" THEN armed' = Rearmed /\ refused' = FALSE
     ELSE UNCHANGED <<armed, refused>>
  /\ messages' = messages \o (IF "events" \in pending THEN <<"events">> ELSE <<>>)
                          \o (IF pending \cap {"dir", "file"} # {} THEN <<"options">> ELSE <<>>)
  /\ UNCHANGED <<process, signal, watch, dir, options, log, disk>>

\* A wait or a re-arm fails: the last word of the thread.
WatchDies ==
  /\ watch = "open" /\ at # "exited"
  /\ watch' = "dead" /\ Tells("ended") /\ pending' = {}
  /\ UNCHANGED <<process, signal, dir, armed, refused, options, log, disk>>

-----------------------------------------------------------------------------
(* The signal thread: Signalling::signal, for the first signal only *)

SignalStep(from, to) == signal = from /\ at # "exited" /\ signal' = to

SignalComes ==
  /\ SignalStep("waits", "gate")
  /\ UNCHANGED <<process, messages, watches, options, log, disk>>

\* Mutant: the gate is not asked.
SignalAtGate_Open ==
  /\ SignalStep("gate", "said")
  /\ UNCHANGED <<process, messages, watches, options, log, disk>>

\* StartGate::signalled: of a start it is only remembered.
SignalAtGate ==
  /\ SignalStep("gate", IF gate = "running" THEN "said" ELSE "stop")
  /\ gate' = IF gate = "running" THEN gate ELSE "signalled"
  /\ UNCHANGED <<at, said, stopped, locked, engine, code, messages, watches, options, log, disk>>

SignalSaid ==
  /\ SignalStep("said", IF said THEN "stop" ELSE "line")
  /\ said' = TRUE
  /\ UNCHANGED <<at, gate, stopped, locked, engine, code, messages, watches, options, log, disk>>

SignalLine ==
  /\ SignalStep("line", "stop") /\ Says("stopping")
  /\ UNCHANGED <<process, messages, watches, options, disk>>

SignalStops ==
  /\ SignalStep("stop", "send") /\ stopped' = TRUE
  /\ UNCHANGED <<at, gate, said, locked, engine, code, messages, watches, options, log, disk>>

\* Mutant: only the stop is tripped.
SignalSends_Nothing ==
  /\ SignalStep("send", "done")
  /\ UNCHANGED <<process, messages, watches, options, log, disk>>

SignalSends ==
  /\ SignalStep("send", "done") /\ Tells("stop")
  /\ UNCHANGED <<process, watches, options, log, disk>>

-----------------------------------------------------------------------------
(* run: the start *)

Step(from, to) == Here(from) /\ Goes(to)

Begins ==
  \/ /\ Step("signals", "mkdir") /\ signal' = "waits"
     /\ UNCHANGED <<gate, said, stopped, locked, engine, code, messages, watches, options, log,
                    disk>>
  \/ /\ Step("signals", "fail") \/ Step("mkdir", "lock") \/ Step("mkdir", "fail")
     /\ UNCHANGED <<gate, said, stopped, locked, engine, code, messages, signal, watches, options,
                    log, disk>>

TakesLock ==
  /\ Here("lock")
  /\ \/ Goes("options") /\ locked' = TRUE /\ UNCHANGED log
     \/ Goes("exited") /\ Says("held") /\ UNCHANGED locked
     \/ Goes("fail") /\ UNCHANGED <<locked, log>>
  /\ UNCHANGED <<gate, said, stopped, engine, code, messages, signal, watches, options, disk>>

\* Settings::apply: the problems are remembered, an invalid file is the defaults.
Apply ==
  settings' = [current |-> OptionsOf(file), seen |-> IF Invalid(file) THEN file ELSE ""]

\* The first read, and leave: a backend of none, or of no system known.
ReadsOptions ==
  /\ Here("options") /\ Apply
  /\ \/ OptionsOf(file) # "none" /\ Goes("watch") /\ UNCHANGED log
     \/ Goes("release") /\ Says("leaves")
  /\ UNCHANGED <<gate, said, stopped, locked, engine, code, messages, signal, watches, mode,
                 inForce, disk>>

OpensWatch ==
  /\ \/ Step("watch", "engine") /\ watch' = "open"
     \/ Step("watch", "fail") /\ UNCHANGED watch
  /\ UNCHANGED <<gate, said, stopped, locked, engine, code, messages, signal, dir, armed, pending,
                 refused, options, log, disk>>

StartsEngine ==
  /\ \/ Step("engine", "look") /\ watch = "open" /\ engine' = TRUE /\ inForce' = settings.current
     \/ Step("engine", "fail") /\ UNCHANGED <<engine, inForce>>
  /\ UNCHANGED <<gate, said, stopped, locked, code, messages, signal, watches, mode, settings, log,
                 disk>>

-----------------------------------------------------------------------------
(* OptionsWatch: watch_plugins, wait_for_plugins, adopt *)

Arms(from, to) ==
  /\ Step(from, to)
  /\ UNCHANGED <<gate, said, stopped, locked, engine, code, messages, signal, log, disk>>

\* start: the directory is there, or its parent, or the reload is off.
Looks ==
  /\ Arms("look", IF plugins THEN "armDir" ELSE IF config THEN "parent" ELSE "reload")
  /\ UNCHANGED <<watches, options>>

\* Mutant: no look after the parent was armed.
ArmsParent_NoLook ==
  \/ /\ Arms("parent", "reload") /\ watch = "open" /\ dir' = "config" /\ mode' = "parent"
     /\ UNCHANGED <<watch, armed, pending, refused, settings, inForce>>
  \/ /\ Arms("parent", "reload") /\ UNCHANGED <<watches, options>>

\* An arming that fails leaves the reload off.
ArmsParent ==
  \/ /\ Arms("parent", "adopt") /\ watch = "open" /\ dir' = "config" /\ mode' = "parent"
     /\ UNCHANGED <<watch, armed, pending, refused, settings, inForce>>
  \/ /\ Arms("parent", "reload") /\ UNCHANGED <<watches, options>>

Adopts ==
  /\ Arms("adopt", IF plugins THEN "armDir" ELSE "reload")
  /\ UNCHANGED <<watches, options>>

ArmsDir ==
  \/ /\ Arms("armDir", "armFile") /\ watch = "open" /\ dir' = "plugins" /\ mode' = "plugins"
     /\ UNCHANGED <<watch, armed, pending, refused, settings, inForce>>
  \/ /\ Arms("armDir", "reload") /\ mode' = "off"
     /\ UNCHANGED <<watches, settings, inForce>>

\* A file that cannot be armed is logged; a missing one is not an error.
ArmsFile ==
  /\ Arms("armFile", "read")
  /\ \/ watch = "open" /\ armed' = Rearmed /\ refused' = FALSE
     \/ armed' = 0 /\ refused' = TRUE
  /\ UNCHANGED <<watch, dir, pending, options>>

Reads ==
  /\ Arms("read", "reload") /\ Apply
  /\ UNCHANGED <<watches, mode, inForce>>

\* Engine::reload, in the start and in the loop.
Reloads ==
  /\ Arms("reload", IF gate = "running" THEN "serve" ELSE "started")
  /\ inForce' = settings.current
  /\ UNCHANGED <<watches, mode, settings>>

Started ==
  /\ Step("started", "settle") /\ Says("started")
  /\ UNCHANGED <<gate, said, stopped, locked, engine, code, messages, signal, watches, options,
                 disk>>

\* Signalling::settle: the line of a signal that came meanwhile.
Settles ==
  /\ Step("settle", "serve") /\ gate' = "running"
  /\ IF gate = "signalled" /\ ~said THEN said' = TRUE /\ Says("stopping") ELSE UNCHANGED <<said, log>>
  /\ UNCHANGED <<stopped, locked, engine, code, messages, signal, watches, options, disk>>

-----------------------------------------------------------------------------
(* serve and the ends *)

\* end, of a watch that died: the stop of a signal with another reason.
WatchFailed ==
  IF said THEN UNCHANGED <<said, log>> ELSE said' = TRUE /\ Says("stopping")

\* One message; the stop is looked at before it is.
Serves ==
  /\ Here("serve") /\ messages # <<>> /\ messages' = Tail(messages)
  /\ IF stopped \/ Head(messages) = "stop"
       THEN Goes("close") /\ code' = 0 /\ UNCHANGED <<stopped, said, log>>
     ELSE IF Head(messages) = "ended"
       THEN Goes("close") /\ code' = 1 /\ stopped' = TRUE /\ WatchFailed
     ELSE /\ Goes(IF Head(messages) = "events" THEN "serve"
                  ELSE CASE mode = "plugins" -> "read" [] mode = "parent" -> "adopt"
                         [] mode = "off" -> "reload")
          /\ UNCHANGED <<code, stopped, said, log>>
  /\ UNCHANGED <<gate, locked, engine, signal, watches, options, disk>>

\* A deadline of the engine: its tick, or the stop.
Ticks ==
  /\ Here("serve") /\ messages = <<>> /\ stopped
  /\ Goes("close") /\ code' = 0
  /\ UNCHANGED <<gate, said, stopped, locked, engine, messages, signal, watches, options, log, disk>>

\* fail: a stop that was requested wins, before or during the close.
Fails ==
  /\ Step("fail", "close") /\ code' = IF stopped THEN 0 ELSE 1
  /\ IF stopped THEN UNCHANGED log ELSE Says("failed")
  /\ UNCHANGED <<gate, said, stopped, locked, engine, messages, signal, watches, options, disk>>

ClosesWatch ==
  /\ Step("close", "drain")
  /\ watch' = (IF watch = "none" THEN "none" ELSE "closed") /\ pending' = {}
  /\ UNCHANGED <<gate, said, stopped, locked, engine, code, messages, signal, dir, armed, refused,
                 options, log, disk>>

\* Mutant: the lock goes before what is in flight.
Drains_Unlocked ==
  /\ Step("drain", "release") /\ locked' = FALSE
  /\ \/ ~engine \/ stopped
  /\ UNCHANGED <<gate, said, stopped, engine, code, messages, signal, watches, options, log, disk>>

\* drain, which hands back what the engine has in flight.
Drains ==
  /\ Step("drain", "release") /\ engine' = FALSE
  /\ UNCHANGED <<gate, said, stopped, locked, code, messages, signal, watches, options, log, disk>>

\* Lock::release, then the exit; fail looks at the stop once more.
Exits ==
  /\ Step("release", "exited") /\ locked' = FALSE
  /\ code' = IF gate # "running" /\ stopped THEN 0 ELSE code
  /\ UNCHANGED <<gate, said, stopped, engine, messages, signal, watches, options, log, disk>>

-----------------------------------------------------------------------------
Main ==
  \/ Begins \/ TakesLock \/ ReadsOptions \/ OpensWatch \/ StartsEngine
  \/ Looks \/ ArmsParent \/ Adopts \/ ArmsDir \/ ArmsFile \/ Reads \/ Reloads
  \/ Started \/ Settles \/ Serves \/ Fails \/ ClosesWatch \/ Drains \/ Exits

SignalThread == SignalAtGate \/ SignalSaid \/ SignalLine \/ SignalStops \/ SignalSends

\* A process that ended stays ended.
Ended == Here("exited") /\ UNCHANGED vars

Next ==
  \/ Main \/ Ticks \/ SignalComes \/ SignalThread \/ WatchThread \/ WatchDies
  \/ MakePlugins \/ Replace \/ WriteInPlace \/ EventComes \/ Ended

Spec == Init /\ [][Next]_vars

\* The two threads go on; no deadline of the engine need come.
FairSpec == Spec /\ WF_vars(Main) /\ WF_vars(SignalThread)

-----------------------------------------------------------------------------
(* Properties *)

Had(line) == \E i \in DOMAIN log : log[i] = line

\* `stopping` is written once at most, never by a service that did not say
\* `started` before, and never left out by one that did: but for a watch that
\* dies while the signal thread has taken the line and not written it, when the
\* process is gone before it is (StartGate, Said, end).
StoppingIsSaidOnce ==
  /\ \A i, j \in DOMAIN log : log[i] = "stopping" /\ log[j] = "stopping" => i = j
  /\ Had("stopping") => Head(log) = "started"
  /\ Here("exited") /\ Had("started") =>
       Had("stopping") \/ (watch = "closed" /\ code = 1 /\ signal = "line")

\* When the loop waits with nothing told and nothing heard, the engine runs on
\* what the file says, and a directory that is there is watched: a change
\* between a look, an arming and a read is never lost (watch_plugins, adopt).
OptionsAreFresh ==
  Here("serve") /\ messages = <<>> /\ pending = {} /\ watch = "open" =>
    /\ mode = "parent" => ~plugins
    /\ mode = "plugins" /\ ~refused => inForce = OptionsOf(file)

\* The lock is let go of last on every path: no watch is open and the engine
\* hands nothing back any more when another service may start (end, fail,
\* leave), and no path ends with the lock.
LockIsReleasedLast ==
  /\ engine \/ watch \in {"open", "dead"} => locked
  /\ Here("exited") => ~locked

\* A service that caught a signal ends, asleep or in its start, with no help
\* of a deadline or a wake (Signalling::signal, serve, fail).
SignalEndsService == (signal = "gate") ~> Here("exited")

\* The log tells how the service went, at every point of its life.
LogIsTrue == TypeOK /\ StoppingIsSaidOnce
=============================================================================
