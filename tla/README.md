# Verification of tagents

TLA+ models of tagents: its concurrent parts, step by step, and its pure parts, as
operators against what their result must be; the TLC runs that check them on small
instances, and TLAPS proofs of facts that hold for every size. Paths
are those of the repository; `core/` stands for `crates/tagents-core/src/`.

- [The system](#the-system): its parts, their state, how they meet
- [The models](#the-models): which module is which code, and what it leaves out
- [The runs](#the-runs): what each checks, with which bounds
- [Fairness](#fairness)
- [The proofs](#the-proofs)
- [Where the code and its words differ](#where-the-code-and-its-words-differ)
- [Not modelled](#not-modelled)
- [Plan](#plan)

To run: `tlc -config MCLocks.cfg MCLocks` (the module of each run is in
`PROJECT.json`) and `tlapm NotifyLockProofs.tla`.

## The system

tagents is a dashboard for sessions of Claude Code in tmux. Claude Code calls
hooks; the hooks write small files; everything else reads them. The Rust program
`tagents-core` serves the long-running parts and most verbs of the command line.

| component | state it keeps | operations | who it meets, and how |
|---|---|---|---|
| agent state hook (`hooks/tmux-agent-state.sh`) | one `<key>.tsv` per session, `events.tsv`, tmux options | one process per event of a session | writes files that the notify service, the dashboard and `session` read; runs at any time, several at once |
| session abort (`core/session/abort.rs`) | none | read a record, kill its pid | the hooks that write and remove the record |
| session references, transcripts (`reference.rs`, `read.rs`, `sessions.rs`, `transcripts.rs`) | none | resolve, read, list, search, show | files of the hook and of Claude Code, which grow while they are read |
| lock directories (`lib/tagents/core.sh`) | `<dir>/owner`, `<dir>.take` | `lock_dir`, `unlock_dir` | shells that run at once over one state directory |
| notify lock (`core/notify/lock.rs`) | `notify.lock`, temp files | `take_lock`, `release_lock` | services that start at the same time share one directory |
| event stream (`core/notify/events.rs`, `core/watch/`) | the switch `events.on`, two cursors, file and directory watches | follow, wake, rotate, close | hooks append while it reads; both sides rotate the file |
| notify engine (`core/notify/engine.rs`, `deadlines.rs`, `kinds.rs`, `feed.rs`) | queue of jobs, deadlines, what is on screen, re-follow | start, wake, tick, reload, stop | lines of the stream in, rows read from the state files, posts out through a helper process |
| notify service (`core/notify/service.rs`, `options.rs`) | a channel of messages, options, the start gate | run, serve, end; a signal thread | owns the lock, the watch and the engine |
| child processes (`core/child.rs`) | deadline, grace, drain, the ends of two pipes | run a program, stop it | the program, its group, who inherits its pipes; the thread that asks to stop |
| session prompt turn (`core/session/turn.rs`, `turn/supervisor.rs`) | deadline, grace, drain, open pipes, the last result | one child and four threads | the child, and processes that inherit its pipes |
| knowledge socket (`core/knowledge/socket.rs`, `serve.rs`) | socket file, lock directory, pid file | ensure, bind, release | every session of one environment starts or finds one server |
| knowledge daemon (`core/knowledge/daemon.rs`) | backlog, count of connections, idle clock | accept loop, a thread per connection, leave | clients that connect while it decides to leave |
| knowledge join (`core/knowledge/join.rs`) | what was sent, replied or not, one retry | two threads over a connection | a client on stdin/stdout, a server that may leave |
| knowledge index, search, usage (`index.rs`, `doc.rs`, `search.rs`, `usage.rs`) | SQLite files beside the folder | build, search, list, get, report | other programs that build the same file, the owner who edits the folder |
| mcp server (`core/mcp/server.rs`, `rpc.rs`) | registry of calls, program per call, a buffer of bytes | request, cancel, ending | a client; `core/child.rs` runs and stops the programs |
| mcp tools and contract (`core/mcp/tools.rs`, `contract.rs`, `run.rs`, `parse_args.rs`) | none | contract to tools, call to command line, end to answer | the contract files of the programs |
| plugins (`core/plugin.rs`, `plugin/`) | the owner's configuration, a new plugin's files | add, remove, new, list | the text the owner wrote by hand |
| json and node conversions (`json.rs`, `js.rs`, `date.rs`) | none | pure | every other part |
| session spawn, front door, telegram, doctor | none | one-shot verbs, and their text | |
| dashboard (`tagents`, `lib/tagents/`) | lock directories, counted rings, snapshots | refresher loop, resurrect, lists | shells, tmux |
| node packages, site, generators | | | the earlier implementation, and build tools |

What makes it hard: unrelated processes share files with no server between them
(locks, stream, socket), any of them can be killed between two system calls, pids
are reused, a decision is made from state read a moment ago, and several timers
race with what they wait for. The hazards, at their lines, are in
`PROJECT.json`.

What makes each part correct:

- lock: one service per state directory; a takeover never costs a live one its lock.
- stream: every event once, none missed while somebody follows, nobody writes for nobody.
- engine: one warning per cache, no notice that the stream has said is over, no session forgotten.
- turn: the outcome is that of the result the child wrote; signals only to a child that is
  there; it ends.
- socket: one reachable server, whoever starts it and whoever dies.
- daemon: leaving drops nobody it could have served, and it does leave.
- join: a session is relayed whole, or tried again whole, or served here whole.
- mcp server: one fate for every request; no program outlives the server; it leaves in bounded time.
- child: it ends, keeps what was written, stops all of its group and nobody else.
- service: its log is true, its options are those of the file, its lock goes last, a signal ends it.
- records: one file per session, its own, gone when it ends; an abort kills who it means.
- lock directories: one holder, whoever dies in a takeover.
- index: an answer is of one moment of the folder, the file one whole index.
- pure parts: each result against what it is for (a call comes out of the command line as it went in).

## The models

Each module says in its head what a step is. In all of them a system call on
something shared is one step; what a single thread does between two of them is
not split. Names are those of the source. A definition whose name ends in
`_Something` and whose comment begins with "Mutant" is a plausible bug: the
property it breaks is listed in `PROJECT.json`, and it is part of no specification.

**NotifyLock** (`core/notify/lock.rs`, and `run`, `end`, `leave`, `fail` of
`service.rs`). A process is a pid and the incarnation of it that lives now; the
lock names both. `pc` walks through the sweep of temp files, the temp file, the
link, the stat and the read of `read_lock`, signal 0 and `ps` of `holds`, the
second read and the removal. Kills, reboots, reused pids, a suspended process
whose temp file grows old, a `ps` that fails, and leftovers of both lock formats
are in the model. The mtime is the boot the file was written in, which is all
`holds` makes of it. Left out: a boot time that cannot be read, which only makes
more locks count as held. A removal that fails says so and ends the start or the release.

**KnowledgeSocket** (`core/knowledge/socket.rs`; `bind`, `run`,
`release_socket` of `daemon.rs`). Starters and daemons over three paths: the
socket file, the lock directory and the pid file. bind(2) and listen(2) are two
steps. `Faults` turns on a start slower than `LOCK_STALE` ("stall"), starters
that are killed, and daemons started by hand ("manual"); daemons that are killed
are always there. Time is two facts: the lock is old, and a wait is over.

**KnowledgeDaemon** (`core/knowledge/daemon.rs` from `accept_loop` on). Drain,
decide, poll, with the count read under its mutex; clients that connect at any
time sit in the backlog; `accept`, the set-up of a connection, its thread and
`poll` may fail; a signal may come. The way out is step by step: unlink, close,
shut, wait.

**KnowledgeJoin** (`core/knowledge/join.rs`). The two threads of the relay, the
record of what was sent with its cap, the wake that gets `forward` out of its
poll, the one retry, and the fallback of serving here. The server is the
environment. Left out: a poll of `forward` that fails but for a signal (`join.rs:161`), which ends
the thread and leaves the relay to wait for the server: its descriptors are open until it is joined, so
that takes a kernel without memory.

**McpServer** (`core/mcp/server.rs`, `call_tool` of `mcp/run.rs`, `core/ending.rs`). The
reading thread, a thread for each `tools/call`, and whoever ends the server: the
reading thread, a call whose answer nobody takes, a signal. A step is one critical
section of the registry (begin, cancel, settle, finish, stop_all, wait_empty), one stop of
one token, or one line written. The program of a call is one state: it ends by itself
at any time, and once it was told to stop within `StopMost`. The client may stop
reading, which holds every writer, or close the pipe. A thread that can run does so
before the next tick, so the slack of `SHUTDOWN_MARGIN` over the drain is what stands for
a slow machine. Left out: that threads can panic. The tools of `core/knowledge` are
served by the same loop with no program; for them the module says what it says of
calls that end by themselves. A program told to stop is over in time: that is
`StoppedInTime` of ChildCall.

**RequestContract** is what the client may count on, with no threads in it: each
request is open, then settled and answered once, or cancelled while open and silent for
ever. McpServer implements it (`KeepsContract`): `fate` maps the registry, the threads
and the output to the fate of each request.

**PromptTurn** (`core/session/turn.rs`, `turn/supervisor.rs`; parts of
`stream.rs`, `outcome.rs`, `prompt.rs`). The child, its heirs on the pipes, the
readers, the thread that waits for the exit, the channel, the machine with its
three timers, `drain` and `linger`. A line is a result that succeeded, one that
failed, or text; the last may have no newline. Left out: the writer thread of
stdout with its `ORDER_WAIT`, the events, the documents and the text of errors.
`Next::Closed` cannot happen, because the receiving side keeps a sender.

**EventStream** (`core/notify/events.rs`, `core/watch/`, and the event stream
block of `hooks/tmux-agent-state.sh`). Files are inodes; the path names one of
them. A hook looks at the switch and the size, may rotate, opens, and writes its
line in two halves, since a reader may see the first page of a write alone. The
follower opens, arms, reads to the end, rotates with a grace for writers that
opened the old path, and gives up the switch when it dies. The switch may refuse to go, and a
start may fail after it has made it; a read of either file may fail, and a rename. What the engine was given
is a count for each line, since no property is about the order. The watch is that of
macOS (kqueue). Left out: several followers of one directory in one process, and
inotify.

**NotifyEngine** (`core/notify/engine.rs`, `deadlines.rs`, `kinds.rs`, the rows
of `state.rs`, and the calls of `serve`). `eng` is the record of the fields of
`Engine`; one action per call (`Start`, `Wake`, `Tick`, `Reload`, `StopEngine`),
one per job (`StepOver`, `Step`, `Due`), and a post in two, because sessions,
clock and signal go on while the helper is at work. Sessions are the
environment, by the hooks Claude Code fires for them: a hook appends its line
first and publishes its row after it. A permission that is approved changes the row and
writes no line. What the first read of a follower finds is the wake that comes right after it.
Left out: texts, clicks, a panic inside a job (logged and skipped) and the log of failures.

**NotifyService** (`core/notify/service.rs`, `feed.rs`, the end of `core/ending.rs`). The
process around the engine: the start with each step that may fail, the loop over one
channel, the signal thread with `StartGate` and `Said`, the options watch in its two modes
(the parent until the directory is there, then the directory and the file) with the look
after each arming, and the ways out. The engine runs or does not; the lock is taken, held by
another or an error. Left out: the removal of a directory that was adopted, and symlinks.

**ChildCall** (`core/child.rs`). `run` and `supervise`: one deadline that is the timeout,
then the end of the grace, then that of the drain; two pipes with their readers, the
thread that waits, the stop, the group and who left it. A tick is a `DRAIN_STEP`. A chunk
is what one read gets; `MaxChunks` bounds both pipes together. Left out: the thread that
writes stdin, which nothing waits for.

**AgentRecords** (`hooks/tmux-agent-state.sh`, `core/session/abort.rs`). A pane, and claude
processes: in it, a child of one, a background job of it, or with no pane. A hook reads its
own record and the pane's, walks up the process table, classifies, and writes or removes,
each a step that other hooks, kills and resumes interleave with. An abort reads, refuses a
record of a pane, and kills the pid, which a stranger may have by then. Assumed: one pane
that stays open and a tmux that answers, `CLAUDE_PID` set, one hook of a process at a time,
a child starts no child, a session is resumed after its process and last hook are gone, a
pid is reused at most once; a SessionStart that never comes (`Missed`) is that of a process
that can be nothing but a child, the case `tmux-agent-state.sh:372` names. `Events` bounds the events between start and end, of all
processes together. The files of `sub/` and `prompt/`, the history and the option `@agent`
go with the record or are left out.

**LockDir** (`lib/tagents/core.sh`). `lock_dir` with `lock_dead`, `lock_age` and the takeover
inside `<dir>.take`, and `unlock_dir`; a `mkdir`, a `cat`, a `kill -0`, the `stat` of an age, each
removal of an `rm -rf` and a `rmdir` is a step. Each process takes the lock once, and pids are not reused.
**Shell** has the two beside each other for any processes; `MCShell` is the cast of the run.

**KnowledgeIndex** (`core/knowledge/index.rs`, `with_db` of `tools.rs`). Two programs bring
one file in line with a folder that is edited meanwhile, and ask it. A statement of
SQLite is a step, and what is done under its write lock is one but for the looks at
the folder. A modification time is a number; two edits in one millisecond have the same.
The statements that make the tables, and the one that writes their version, are one step.

**KnowledgeDocs** (`doc.rs`, `front_matter.rs`, `date.rs`) and **KnowledgeQueries** (`args.rs`,
`search.rs`, `tools.rs`, `usage.rs`, `paths.rs`): a file to a document with its sections and
fields, and the arguments, hits, lists, counts and reports of the tools. The rank
FTS5 gives is an input.

**McpTools** (`contract.rs`, `tools.rs`, `parse_args.rs`, `run.rs`) and **McpMessages** (`rpc.rs`,
the requests of `server.rs`): a contract to tools, the arguments of a call to a command
line and back through the parser, the end of a program to an answer; bytes to lines,
lines to messages, messages to answers.

**SessionRefs** (`reference.rs`, `read.rs`, `notify/state.rs`), **Transcripts**
(`transcripts.rs`, `sessions.rs`), **JsonText** (`json.rs`), **NotifyOptions** (`options.rs`),
**PluginConfig** and **Plugins** (`plugin/config.rs`; `plugin.rs`, `plugin/resolve.rs`): pure
parts, as operators. What they abstract is said at their heads: a text is what a
property tells apart of it. In Plugins the write of each file of a new plugin may fail at any
directory on its way or at the file, which is there whole, half or not at all by then; in PluginConfig an
edit of the configuration is the sequence of what the disk holds after each of its system calls.

Where the code goes over a sequence the parts that are proved have a recursive function over
numbers (`Frame`, `Keep`, `Rows`, `Modules`) or say in closed form what the loop comes to
(`RemoveDirs` of Plugins: of the directories, deepest first, those go that hold nothing else).
The inputs of each are in a module of its own, **MCMcp**, **MCSessions**,
**MCPlugins**, **MCKnowledge**, with what an input of any size is (`IsMcpInput`, `IsSessionInput`,
`IsPluginInput`), those of the transcripts, JSON and options in **MCConversions**; **Given** is the
variable that holds the one that is given.

How the modules meet: `EventStream` is what `feed` of NotifyEngine stands for (a
line is read once or its loss is excused); `NotifyLock` and `NotifyEngine` are what
`NotifyService` takes and starts; `NotifyOptions` is what it reads; `ChildCall` is the
program of a call of `McpServer` and the helper of a post; `McpMessages` and `McpTools`
are what its threads do with a line and a call; `KnowledgeSocket` gives the daemon of
KnowledgeDaemon its name, and its gap is what the retry of KnowledgeJoin is for;
`AgentRecords` writes what `SessionRefs` reads. Each is checked against what it takes of the
others; the products are too large, and the interfaces are narrow: a line, a lock, a stop.

## The runs

Every property of a passing run has a mutant of the code that breaks it. Where a run
holds several modules side by side, `part` says which one a behaviour is of; the others
stay in their first state, so that the run checks each as if it were alone.

| run | bounds | what it checks |
|---|---|---|
| `locks` | notify: 2 pids, 2 incarnations of each, 1 reboot, `LockTries` 2; socket: 1 starter, 3 daemons, one of them dead before with its files, all faults | `OwnerKeepsItsLock`, `OneDaemonWithoutFaults`, `YoungTempSurvives` of the notify lock; `StartsEnd` of both |
| `notify_lock_window` | 2 pids, 2 incarnations, no reboot | violated: `RobbedOnlyInTheWindow` |
| `knowledge_socket_stale` | 2 starters, 2 daemons, "stall" | violated: `WaitingStarterKeepsLock` |
| `knowledge_shared` | socket: 3 starters, 3 daemons, one of them dead before with its files, no faults; accept: 2 clients; join: 4 chunks, cap of 2 | `ServerIsReachable`; `LostOnlyInTheGap` (with the count of connections); `EachLinkIsAPrefix`, `HereGetsAll` (with `UnansweredIsRetried`); `ServerAndJoinEnd` |
| `mcp_server` | 2 requests, 2 ids (one falsy), a stopped program 1 tick, the ending 2 | `LeavesNothingOpen` (`NothingOutlives`, `AnsweredBeforeLeaving`); `KeepsContract`; `EndingLeaves` |
| `children` | turn: limit 2, 2 lines; call: timeout 1, 2 chunks, cap of 1, 1 heir, with and without a grace; grace 1, drain 1 | `OutcomeIsOfTheLastResult`, `LingersForHeirs` of the turn; `OutputIsKept` of the call; of both `SignalsAreOfTheLiving`, `GraceIsGiven` (with `StoppedInTime`), `TurnAndCallEnd` |
| `notify_intake` | stream: 2 hooks, one of which rotates, 4 files; service: 2 changes of the options | `ReadOnce`, `SwitchIsOfAFollower` of the stream; `LogIsTrue`, `OptionsAreFresh`, `LockIsReleasedLast` of the service; `LinesAndSignalsArrive` |
| `notify_engine` | 1 session, 3 events, clock to 3, 2 deaths, `after` 2, `ttl` 3 | `WaitsForWhatStands` (`NothingStaleAtRest`, `ArmedHasDeadline`); `WarnedOncePerWait`; `OneLandsAfterStop`; `HeldBackForAQuestion`; `DeadIsFollowedAgain` |
| `notify_engine_permission` | 1 session, 3 events, no deaths | violated: `NoStaleNotice` |
| `notify_engine_refollow` | no events, 3 deaths, clock to 4 | violated: `WaitStartsOverIfProven` |
| `shell_state` | records: a session, its child, and a later session or job of the pane, 1 event; lock: 3 processes | `RecordsAtHome`, `RecordsEndWithTheirs`; `OneHolder` |
| `conversions` | index: 2 programs, 1 document, 3 texts, 2 edits; pure parts: every input of the sets in `MCConversions`, `MCKnowledge`, `MCMcp`, `MCSessions`, `MCPlugins` | `IndexIsWhole`; `FilesAreAnswered` (documents, queries, counts, transcripts); `InputsAreChecked` (JSON, options, the halves of a line, the tools of a contract, the edits of a configuration); `McpIsAnswered`; `SessionsAreFound`; `PluginsAreWhole` |

The type invariants of the modules with proofs are theorems; those of the others are
conjuncts of the invariants above. A pure part makes no step: its input is chosen in the
initial state, and its property is a predicate of the initial states. Of the inputs whose
properties are proved the run also checks, as assumptions of `MCConversions`, that they are
inputs in the sense of the theorems.

Why the bounds are enough:

- Lock: the races are between two processes, one that judges and one that
  replaces; a second incarnation is what makes a pid reused, and one reboot makes
  a file older than the boot. The same facts without liveness are proved for any
  number of each.
- Socket: a race of `remove_dead` has one starter that holds the lock, one that
  waits and one that comes late, over the file of a dead daemon, and two daemons that
  follow each other; the fact is proved for any number. For `StartsEnd` a third daemon has the
  name in use twice, at the first bind and again under the lock.
- Daemon: the decision reads a count of 0 or more; the second client is the one
  that comes in the gap while the first is counted out.
- Join: 4 chunks with a cap of 2 give a session below, at and over the cap, with
  input still to read when the retry begins.
- Mcp: two requests may share an id and be settled in either order, or one may begin
  while the server that stops the other is closing; the threads that end the server
  are up to four. What matters of the ticks is their order: a stopped program needs the
  grace and the drain (2250 ms), an ending waits the grace and the margin (4000 ms).
- Call: two chunks with a cap of one let a pipe be cut, or each pipe have one; a timeout
  that is no more than the grace lets a stop, the timeout and the exit come in any order;
  who holds the pipes besides the program is one at a time of its group or one that left it.
- Turn: two lines let a failed result follow one that succeeded and the other way
  round, and text follow either; with a limit and a grace of 2 a timer can be set, half gone
  and due.
- Stream: four files are a start, a rotation of each side, and a file made anew
  after the second; two halves of two lines at the size limit put a rotation
  inside a line.
- Service: two changes are one that makes the directory and one that replaces or writes the
  file; each may fall between any look, arming and read.
- Records: a is the session everything is about, c its child, b whoever comes next to the pane, as
  a pane's session, as a job, or with the child's session resumed; `Missed` lets the SessionStart
  of the child never come. One event at any place is what makes a hook late.
- Lock directory: a holder that dies, one that judges it, and one that takes over; three
  reach both windows below, and four two holders by the second of them.
- Index: of one document all of its three tables can be old or new; the second program is
  the one that writes between a look and a statement of the first.
- Pure parts: the sets hold every shape the code branches on, and the edges: empty, one
  too many, a duplicate, a fault beside another, the largest number and one more. For
  `McpIsAnswered`, `SessionsAreFound` and `PluginsAreWhole` the size is no matter: they are proved.
- Engine: deadlines, rows and the screen are per session and only the queue is
  shared, whose order matters within one session; three events are a question or
  a turn, what ends it, and what comes after; a clock of 3 reaches the warning and the end
  of the cache, and two deaths
  are a re-follow and the re-follow of that.

What some properties excuse, and why:

- `ServerIsReachable` needs `Faults = {}`: with a lock broken as stale two starters
  are in the critical section; and of a daemon started by hand the first bind
  (`daemon.rs:172`) is outside the lock, so that a file may be removed between its
  bind(2) and its listen(2). The comment at `daemon.rs:168` has only the second in mind.
- `LostOnlyInTheGap`: `gap` is who came between the last drain and the close, which
  the head of `daemon.rs` names; `broken` and `refused` are those for whom a system call failed.
- `LineIsDelivered`: the rotation of the hook (past 5 MiB), a read that failed and
  a file emptied by hand can lose the wake for a line; a line nobody followed is nobody's.
- `OutcomeIsOfTheLastResult`: `missed` is a reader thread that did not run for the
  whole drain, or the wait for it, while its pipe had bytes.
- `OutputIsKept`: `late` is a reader that was behind past the grace, or held a chunk it
  had not pushed when the drain was over.
- `LogIsTrue`: a watch that dies while the signal thread has taken the line `stopping` and
  not written it ends the process without it.
- `RecordsAtHome` and the two after it hold until a "behind" (a record changed between the
  judgement of a hook and its act), an "unproven" (a child whose SessionStart never came
  finds its pane with no record) or a "blind" (a job died before its hook saw the process
  table); the model ends there.
- `SwitchIsOfAFollower`: `left` is a switch that a follower could not remove, or that a start which
  failed had made already (`events.rs:471`, `:475`), or that of a service that was killed. The next
  start takes it over.
- `OneHolder` holds until `aged` (a lock or `.take` outlived its limit with its maker at work),
  `robbed` or `crossed`; the model ends there. A lock without an owner that is taken over by its age is
  within it. The other two are windows that are left in the code: `robbed`, the owner that the second
  look read leaves between its `cat` and the `kill -0`, and the taker removes the lock of the next one;
  `crossed`, a waiter has found a `.take` older than 5 seconds, another one clears it and makes it anew,
  and the `rmdir` of the first (`core.sh:70`) takes the new one away.
- `IndexIsWhole`: documents edited twice in one millisecond (`blurred`) are as the file system tells
  them; `torn` is a schema replaced by two programs at once.
- `NothingOutlives` and `AnsweredBeforeLeaving`: `early` is an ending that looked at
  the registry after another had set `ending` and before that one had set `closing`:
  it leaves at once, and a call that the reading thread begins in between has nobody to
  stop it. `refused` is a call whose thread could not be started: it leaves the registry
  before its failure is written (`server.rs:458`), so an ending may come first.
- `NothingStaleAtRest`: `unheard` holds the sessions that went on from a permission, or from a form
  that was answered, of which the stream says nothing: there the notice does stay up
  (`notify_engine_permission`), until the turn ends.
- `NothingStaleAtRest` and `WarnedOncePerWait`: `blurred` holds sessions of which the engine was
  told less than there is to know, because nobody followed or the row was not published yet. The
  second excepts `outdated` too: an event that would arm and comes while the warning is off leaves
  the key armed by the one before it (`arm`, `engine.rs:493`), whose deadline warns too
  early once the warning is on again; a re-follow may then warn once more.
- `HeldBackForAQuestion`: when the notice of a later question of the same key is
  dropped because its pane is in front, the notice on screen is taken down while
  the key stays in `questions`, so "Keys with a question notice on screen" is not
  quite what that field holds.

Environment assumptions of NotifyEngine: a unit of its clock is a second at least;
the rest of a turn of the loop takes no time, so the world moves while the loop
waits or a post is in flight; a hook publishes its row within one unit of its line; the idle ping of
Claude Code comes before `after`. The time a warning is remembered by is the one `due` looked at,
not the one of the answer. In the run `Window < After` (20 s and 50 min by default, the bounds
1 and 2); options with an `after` below 20 s are accepted, and with them a question may be warned
about twice: the prompt that is held back writes its row anew, after the warning, and a re-follow arms
from it.

## Fairness

Fairness is weak and given to threads and processes that only need the processor:
the steps of the threads of the mcp server, of the main and the signal thread of the service, of
`supervise` and the thread that waits in a call, of a starter within `take_lock` and
`release_lock`, of `ensure` and
`bind`, of the accept loop and a connection's thread, of the relay, of the readers
and the machine of a turn, of the follower and the watch thread. It is also given
to time: a lock ages, an idle time passes, a timer ticks, a grace is over. Two
things of the environment are fair because their cause is certain: a
child that was sent SIGKILL exits (and a program of a call that was told to stop, with it),
and a server that saw the end of its input closes.
In the accept part of `knowledge_shared` a client that waits gets a reply, which is the server's doing. Nothing
makes a client speak, a child write or leave, a hook run or a signal come, nothing makes a
reader of a call's pipes run, and no deadline of the engine need come to wake the service. In a
run of several modules the fairness is that of the module the behaviour is of, as the module states it. The
properties of NotifyEngine, AgentRecords, LockDir and KnowledgeIndex are safety; in the first `ArmedHasDeadline` and
`DeadIsFollowedAgain` say that what would make progress is there.

## The proofs

They hold for every value of the constants the named assumptions allow, and rest on nothing
else. Each is an inductive invariant that TLC has passed on the run first, a lemma for each
part of it with a step for each action, and a theorem for each property of the run. A run of
several modules has the proof of each of them, and the others untouched.

**NotifyLockProofs**, for every number of pids, incarnations, reboots and passes:

- `TypeCorrect`: `Spec => []TypeOK`.
- `OwnerKeepsItsLockHolds`: a daemon that was not robbed finds its lock. The invariant
  is not inductive alone: a process must not be an owner before its link or after
  its end, so `Kept` adds `OwnersRun` (an owner is between its link and its removal).
- `OneDaemonWithoutFaultsHolds`: no second daemon while nothing goes wrong. The
  strengthening is `CalmInv`: the file on disk is of an owner that runs
  (`FileIsHeld`); what a starter has read is of this boot and is a holder's, or of
  one that is gone, or of an earlier incarnation (`SeenIsReal`); nobody but the
  daemon itself gets as far as the removal (`NobodyRemoves`); a process knows its
  start (`KnowsItsStart`). `faulty` never goes back (`FaultsStay`), so the step is
  proved for calm steps (`CalmStep`) and the others are trivial.
- `YoungTempSurvivesHolds`: no step takes the young temp file of a starter about to link
  it. The action property needs the types only: a sweep removes an old file or one whose
  pid is not alive.

**McpServerProofs**, for every number of requests and ids, every `StopMost < EndWait`:

- `McpTypeCorrect`: `Spec => []TypeOK`. The ids the reading thread works with are those
  of requests that were sent, which takes part of the invariant below.
- `KeepsContractHolds`: `Spec => KeepsContract`, the refinement of RequestContract. The
  initial states map to its initial states; each step turns one fate the way the
  contract has it, or none (`ContractStep`). It rests on `ContractInv`: what the reading thread
  is about has no thread yet or never had one (`ReaderKnows`, `Begun`); what is
  cancelled is not to be answered and the other way round (`FatesApart`); `by_id` names
  the last request of its id, and one whose fate is open (`IdIsOfTheLast`), which is
  what `settle` keeps by releasing the id under the lock it reads the flag under.

- `LeavesNothingOpenHolds`: no program outlives an ending and what was in flight is answered.
  `EndingInv` follows the two flags: one thread stops the calls, the one that found nobody
  ending (`OneStops`); what was in flight is stopped or about to be, and what begins later is
  stopped from the start (`ClosingStops`). It relates the two clocks with `Outlasts`: since
  the last stop a program has aged as long as a wait has gone on, so that the wait is over
  no sooner than every program that was told, because `StopMost < EndWait`.
- `McpIsAnsweredHolds`: `McpIsAnswered` for every input that is one (`IsMcpInput`), of any size, and
  any bound of the buffer. It has four theorems under it.
  `LinesAreOfTheStreamHolds`: however a stream is cut into chunks, its lines are read whole and
  in order, until one is longer than the bound; by what a framer has after n chunks (`Framed`: the
  lines of what it was given, and the rest). `AnswersTellHolds`: the end of a program is told as the table
  of its tool has it. `RequestsAreAnsweredHolds`: a request gets one answer with its id, whose issues are
  those of its fields (`Wrong`), and nothing else is answered. `CallsAreCarriedHolds`: a call is refused for
  what is wrong with it and for nothing else (`IsWrong`), and of the words of one that is not the
  parser of the verb reads what the call gave, and the defaults; `HasRead` is what the parser has after
  some of the words, and there is a lemma for what each kind of option adds to it.

The sequences of the pure parts are gone over by recursive functions. A lemma for each says that
it is what it makes of nothing, and with one entry more what its step makes of what it was; that
there is such a function (`Recursion`) and that something holds of every number of entries is an
argument on a set of numbers with no least element (`Counting`).

**KnowledgeSharedProofs**, for every number of starters, daemons and passes, of clients, every
input and every cap:

- `SocketTypeCorrect`: `Spec => []TypeOK`.
- `ServerIsReachableHolds`: with `Faults = {}`, `Spec => []ServerIsReachable`, daemons
  that are killed at any step included. `SocketInv` says that the lock is its
  maker's from mkdir to the Drop (`LockIsHeld`), that a starter about to remove or
  spawn knows the file as it is (`StarterInv`), and that a daemon not yet listening
  is the child of the holder, with the name to itself (`DaemonInv`, `ChildOfHolder`).
- `LostOnlyInTheGapHolds`, with the count of connections: the count and the threads move under
  one mutex, and who is in the backlog after the decision came in the gap or was refused
  (`LeavesAlone`).
- `EachLinkIsAPrefixHolds`, `HereGetsAllHolds`: what every connection and the server in this
  process were given is a beginning of the input, the latter of all that was read. `JoinInv` says
  that what is kept is what was read until something was given up (`KeepsAll`), where `forward`
  is in it (`ForwardKeepsUp`), and that a connection is asked for only with all of it
  (`RelayKnows`).

**ConversionsProofs**. `IndexIsWholeHolds`, for every number of programs, documents and edits,
whatever the texts. The types carry the clock of the edits: no row has a time later than the
last edit, so an edit takes a time no row has, but for two in one millisecond. `IndexInv` adds
the order of the drops (`DropsInOrder`) and, while no schema was torn down under somebody, that the
tables are whole or empty and unused (`WholeOrEmpty`), that a row with the time of its file has
its text (`TimeTells`), and for each place of a call what it was shown by then: of the files
not on its list (`ListIsOfTheFolder`), of the rows it compares (`RowsAreShown`), of what its
transaction has passed and what it will remove (`WriterIsShown`). One lemma says what survives
the step of another (`BesideIsKept`), one for each step what it does to the call itself.

`PluginsAreWholeHolds`: `PluginsAreWhole` for every input that is one (`IsPluginInput`): any
configuration file, any folders with any manifests, any call and name, and any tree with
files of others, of any depth.

- The files of a new plugin are there all or none, but for directories above a target that could not be
  made (`FilesAllOrNone`). Paths are compared as
  beginnings of each other (`UpIs`, `PrefixesCompare`). Of the way to the target what is above the
  shortest directory that is missing is there, and nothing from it on (`TopmostIs`), so that what the undo
  takes of it was made; what was made below the target is none of what was there, for nothing was. A
  directory with a file of another in it stays, with all above it (`UndoneIs`). It assumes that
  the files of others are not on the way of the plugin's, nor the other way round.
- An edit of the configuration is whole (`EditIsWhole`): at each of its system calls, whichever of them
  fail and whatever the edit made of the text.
- What edits says so, and has a plugin and a name (`FailuresAreNoEdits`); the name a package gets
  without one is its own from the last slash on, less two prefixes, and is never empty
  (`NamesAreTyped`).
- The nearest folder that has the package decides (`FoundIs`), after the package the call is made in
  (`SelfIs`) and before the global folder; what resolves has its entry (`ResolvedIs`).

**ChildrenProofs**, for every limit, grace, drain and cap, any number of lines and chunks:

- `SignalsAreOfTheLivingHolds`: no signal goes to a pid or a group that may be another's. Only
  the supervisor reaps, once, and signals only before (`ReapedOnce`, `ReapedBeforeTheEnd`).
- `GraceIsGivenHolds`: SIGKILL comes to a program that runs only at the limit or after the
  whole grace, and a call that was asked to stop is over within the grace and the drain,
  because the deadline is what is left of the one, then of the other (`KeepsTheGrace`,
  `TimersAreWhatIsLeft`).
- `OutputIsKeptHolds`: what was written is in a pipe or in a reader's hand until the call is over
  (`KeepsTheOutput`). It takes `Drain > 0`: with a drain of nothing, which only a test sets, the
  call may be over while a member of the group that was just killed still writes. In
  production it is 250 ms.
- `OutcomeIsOfTheLastResultHolds`: queue, hand and pipe are one way, of which the last result is
  the last that was written (`OnTheWay`); an end of a pipe and a line without newline come last
  (`EndsComeLast`, `CutIsTheLast`). The lemmas on queues (`EndsAppend`, `EndsTail`, ...) say it
  without induction, by positions.
- `LingersForHeirsHolds`: a turn is not over while anybody can write to its pipes.

**NotifyIntakeProofs**, for every number of hooks, files, lines and changes of the options:

- `LogIsTrueHolds`, `OptionsAreFreshHolds`, `LockIsReleasedLastHolds`. `HoldsWhatIsOpen` says what is
  open at each step of the two ends; `LogInv` who has the line `stopping` to write, and what a
  signal of the start may do (`OneSaysIt`, `GateIsPassedOnce`, `StopIsSaid`); `FreshInv` that a
  file which says other than what is in force was told, or will be (`FreshOrTold`).
- `SwitchIsOfAFollowerHolds`, by `SwitchIsCounted`: a follower on its way to the switch has not made it
  (one that it finds is `left`), and every way out of the others removes it or leaves it behind.
- `ReadOnceHolds`: no line is given to the engine twice, and none before it has ended, over
  rotations of both sides, files that are emptied, deaths and new starts. `StreamInv`: files are
  made in an order that the follower goes along (`FilesInOrder`); a line ends in one place
  (`LinesEndOnce`); what a cursor keeps has not ended (`RestsAreHeads`); and where a line that was
  given ended is behind both cursors (`ReadIsBehind`), also when a shrunken file sends one of
  them back to its start.

**NotifyEngineProofs**, for every number of sessions, events and deaths, whatever the texts and
options:

- `OneLandsAfterStopHolds` (at most one post lands after the stop), `HeldBackForAQuestionHolds` and
  `DeadIsFollowedAgainHolds`. `EngineInv` is inductive over the
  whole of the loop because of lemmas that say what each operator of the engine leaves alone
  (`JobsLeaveTheFollower`, `SweepMovesDeadlines`, ...).
- `WaitsForWhatStandsHolds`: at rest, with the feed and the queue empty, no notice is up for a
  session that works, unless it went on from a permission (`unheard`), and at every step an armed key
  has its deadline. At rest is where all
  was told, so the invariant `Sound` is about what has not been: the queue and the feed behind it are
  one sequence, `Pending`, whose last line of a key is of what its session does (`Fits`, `LinesOk`). A
  session that works and of which nothing is pending has no notice up, none in flight and nothing
  armed (`FreshOk`). That takes the rows (`RowsOk`), since a re-follow arms from them, and the
  deadlines (`DuesOk`, `Covered`). A call of the loop is a `CallDone`: it shows what
  was pending (`Shows`) with deadlines put between, and arms from published rows only. A job
  takes the first (`FirstJob`), a hook adds a last (`LineAdded`) or loses it (`LineLost`).
- `WarnedOncePerWaitHolds`, with `Window < After` as its hypothesis, for the reason above. `Once`
  adds to `Sound` what follows a warning: the key is not armed, and its row is no newer than the
  warning, or a line is pending that will be taken in (`WarnsOk`). For a key with a question
  that is remembered the warning came after its window, so what is held back came before the
  warning; and questions are older than what is pending (`AsksOk`).

The deadlines that are taken and those that stay are parts of a list in its order. `At` says so with
a recursive function, and `AtKeeps` what it keeps, by an induction over the numbers that is
an argument on a set with no least element (`Counting`).

**ShellProofs**, for every number of processes, sessions and events:

- `OneHolderHolds`: while no lock outlived its limit with its maker at work, none was
  robbed and no `.take` crossed, who holds it made it (`HoldersMadeIt`), one process is between the
  making and the removal of a `.take` (`OneTakes`), and who removes a lock removes that of a dead maker
  (`RemovesTheDead`).
- `RecordsAtHomeHolds`, `RecordsEndWithTheirsHolds`. `RecordsInv` has a part that
  always holds (who can run at once under one session: `SessionsApart`; what is in a record:
  `RecordsAreOfTheirKey`; what a hook that decides for the pane knows: `DecidesWithout`) and one
  that holds while things are orderly, of each process: what its hook has judged is still so
  when it acts (`JudgedStands`), it acts on its own session or on its pane (`ActsOnItsOwn`), and
  nobody who is over is named (`OverIsNotNamed`, `ChildIsReplaced`, `PaneIsLeft`). Every action that
  changes a record goes through one lemma, `ChangeKeeps`.
- `SessionsAreFoundHolds`: `SessionsAreFound` for every document, directory of the hook, history
  and command line that is one (`IsSessionInput`), of any size. What the reader of references makes
  of any document is printed as one that reads back the same (`TakenReadsBack`, by what each field
  of a reference may be: `IsReference`); what `session open` prints is taken (`OpenedIsRead`). The rows of a
  directory are those of its files that are rows, each in its place by its time (`AreRows`, kept by
  each one that is put in: `RowsOn`), what is listed is kept of them in order (`Kept`), and so the session that a
  listed handle names is found with it (`GoesBy`, `FoundAsListed`).

Only model-checked:

- Liveness: `StartsEnd`, `ServerAndJoinEnd`, `EndingLeaves`, `TurnAndCallEnd`,
  `LinesAndSignalsArrive`. The prover has no rule for fairness and ENABLED that would reach them.
- Of `conversions` `FilesAreAnswered` and `InputsAreChecked`: their operators are recursive over
  nested data (JSON, options), or folds, sorts and filters of the library; what those compute for
  every input would need induction over data, which is out of the prover's reach.

## Where the code and its words differ

Four runs end in a violation, each of one sentence of the repository:

- `notify_lock_window`: `read_lock` takes the mtime before the text, so the two may be
  of two files; with a `ps` that cannot answer, a live daemon loses its lock though
  the file did not change after the second read (`lock.rs:127` against `lock.rs:5`).
- `knowledge_socket_stale`: a starter holds the lock while it waits up to 8 s for its
  daemon, and a lock is stale after 3 s (`socket.rs:262` against `socket.rs:44`).
- `notify_engine_refollow`: `follow` ingests before it notes the time, so a follower
  that dies in its first read is judged by the one before it and the wait starts
  over every time (`engine.rs:411` against `engine.rs:448`).
- `notify_engine_permission`: the hooks of a permission that is approved write no line of the stream,
  so the notice that asks for it stays up while the session works on
  (`tmux-agent-state.sh:522-525` against `packages/notify/README.md:9`, "a notice that is no longer true
  is withdrawn").

Seen while modelling, with no run of their own: an event of a session that is in
front again, in a pane where another one has started since, writes over the record of that one,
where `tmux-agent-state.sh:618` says that outside SessionStart nothing can: the walk that
follows the failed proof finds the pane itself, and no guard is asked on that way; a session that ends reads whose
record it is and removes it in two commands (`tmux-agent-state.sh:590`), so the record that another one has
published in between is lost until the next event of that one, although the comment before it (`:586`) has the
look as what keeps that from happening; the takeover of a lock
directory has the windows `robbed` and `crossed`, above, where `core.sh:59` has one takeover at a
time; a `plugin new` whose target could not be made leaves the directories above it that were
(the loop of `undo` begins at the target and ends at the first removal that fails), where `plugin.rs:264` says that
the directories made on the way to it are removed; when `accept` fails the backlog is
not drained, and the daemon may leave with a connection in it, which the head of
`daemon.rs` does not allow for (`refused` in `LostOnlyInTheGap`); "the second caller waits
with the first" (`server.rs:346`) does not hold between the two flags of the first
(`early`, above); a turn whose child left in time with no
result reads as a timeout when an heir holds a pipe past the limit, where
`outcome.rs:41` says that the limit killed it; a test asks for it.

## Not modelled

- Text and layout: the words of errors, help, notices, reports and the scaffold of a new
  plugin; the printing of numbers, and the path functions of node. The repository compares
  them with the node program byte by byte.
- `session spawn`, the front door and `telegram`: each is a command line, a choice or one
  request; what follows a spawn is PromptTurn.
- Of `session prompt` the writer thread of stdout, the events and the documents; of the event
  stream several followers in one process, and the watch of Linux (one interface, another
  system call); of the knowledge tools the SQL of the tables, the resources of the session.
- Of the agent hook a process without `CLAUDE_PID`, and what it keeps beside the record.
- Of plugins two `plugin add` at once, which have no lock and may lose one of two edits; arrays of
  tables; the TOML parser itself (a library).
- The dashboard's refresher, rings, views and launch, `resurrect`, `tnotes`, `tusage`, the other
  hooks: shell around tmux, fzf, git and jq. What they share by a protocol is LockDir.
- Node packages, site, generators, installer: not the core.

Where a pure part is narrower than the repository's words: a required list argument accepts an
empty array though its schema has `minItems` 1 (`McpTools`); a window of a transcript that
begins exactly at a line drops that line, and a file that goes away fails the whole call
(`Transcripts`); a string of several lines that holds a plugin's header makes `plugin remove`
refuse (`PluginConfig`). The models do as the code does.

## Plan

Done: the components above, in the order in which a wrong step costs most. Still open are
AgentRecords with several panes and hooks without `CLAUDE_PID`, several followers of one
directory, and KnowledgeDaemon with KnowledgeJoin as one product (a question in
the gap is answered by the next server), whose states are too many for a run beside the rest.

Every safety property of a protocol the runs check is proved, and of the pure parts what the mcp
server, the references of sessions and the plugins do. What is left of those, `FilesAreAnswered` and
`InputsAreChecked`, would be next: the edits of a configuration and the windows of a transcript go
line by line, and can be recursive functions over numbers as well.
