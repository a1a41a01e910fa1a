------------------------- MODULE NotifyIntakeProofs -------------------------
(***************************************************************************)
(* The process of the notify service keeps its word for any number of      *)
(* changes of its options file: its log is true, it runs on what the file  *)
(* says, and its lock goes last.  The switch of the event stream is of a   *)
(* follower and no line is read twice, for any number of hooks and files.  *)
(***************************************************************************)
EXTENDS MCNotifyIntake, TLAPS, FiniteSetTheorems, SequenceTheorems

-----------------------------------------------------------------------------
(* The service: the strengthening *)

Arming == {"adopt", "armDir", "armFile", "read", "reload"}
Closing == {"close", "drain", "release", "exited"}

\* What is open is open under the lock, and each end closes it in its order.
HoldsWhatIsOpen ==
  /\ engine \/ watch \in {"open", "dead"} => locked
  /\ at \in {"signals", "mkdir", "lock", "exited"} => ~locked
  /\ at \in {"signals", "mkdir", "lock", "options", "watch"} => watch = "none"
  /\ at \in {"options", "watch"} => locked /\ ~engine
  /\ at \in {"drain", "release"} => watch \in {"none", "closed"}
  /\ at = "release" => ~engine

WrittenOnce == \A i, j \in DOMAIN log : log[i] = "stopping" /\ log[j] = "stopping" => i = j

\* Who has a line to write has it alone: the signal thread between `said` and
\* the write, or nobody once it is written.
OneSaysIt ==
  /\ ~said \/ signal = "line" => ~S!Had("stopping")
  /\ said /\ signal # "line" => S!Had("stopping")
  /\ signal = "line" => said
  /\ WrittenOnce

\* A signal of the start stays at the gate, and a service that runs has said so.
GateIsPassedOnce ==
  /\ signal \in {"said", "line"} \/ said => gate = "running"
  /\ gate = "signalled" => signal \in {"stop", "send", "done"}
  /\ at = "signals" => signal = "off"
  /\ gate = "starting" => signal \in {"off", "waits", "gate"}
  /\ gate = "running" => log # <<>> /\ Head(log) = "started" /\ at \in Arming \cup Closing \cup {"serve"}
  /\ gate # "running" => /\ at # "serve"
                         /\ at # "settle" => ~S!Had("started")
                         /\ at \notin Closing \cup {"settle"} => log = <<>>
  /\ at = "settle" => log = <<"started">>

Waits(what) == \E i \in DOMAIN messages : messages[i] = what

\* A stop that is tripped or told is the signal thread's, and a loop that ends
\* has its line written or in the hand of that thread.
StopIsSaid ==
  /\ gate = "running" /\ signal \in {"stop", "send", "done"} => said
  /\ stopped /\ at \notin Closing => signal \in {"send", "done"}
  /\ Waits("stop") => signal = "done"
  /\ gate = "running" /\ at \in Closing => said /\ (code = 1 \/ signal # "line")
  /\ at \in {"engine", "look", "parent", "started", "settle", "serve"} \cup Arming => watch \in {"open", "dead"}
  /\ gate = "running" /\ at \in {"drain", "release", "exited"} => watch = "closed"
  /\ gate = "running" /\ at = "close" => watch # "none"

\* A change the loop will hear of.
Told == Waits("options") \/ pending \cap {"dir", "file"} # {}

\* Which directory is watched, in which mode.
WatchesWhatItSays ==
  /\ mode = "plugins" => /\ dir = "plugins"
                         /\ at \in {"armFile", "read", "reload", "started", "settle", "serve"} \cup Closing
  /\ mode = "parent" => /\ dir = "config"
                        /\ at \in {"adopt", "armDir", "reload", "started", "settle", "serve"} \cup Closing
  /\ mode = "plugins" \/ at = "armDir" => plugins
  /\ at = "armFile" => mode = "plugins"
  /\ Waits("ended") => watch \in {"dead", "closed"}

\* What the loop runs on is what is on the disk, or it will be told.
FreshOrTold ==
  watch = "open" /\ at \notin Closing =>
    /\ mode = "parent" /\ plugins => at \in {"adopt", "armDir"} \/ Told
    /\ mode = "plugins" /\ ~refused =>
         /\ at # "armFile" => armedFile = S!Rearmed \/ "dir" \in pending
         /\ at = "reload" => settings.current = S!OptionsOf(file) \/ Told
         /\ at \in {"started", "settle", "serve"} => inForce = S!OptionsOf(file) \/ Told

LogInv == OneSaysIt /\ GateIsPassedOnce /\ StopIsSaid
FreshInv == WatchesWhatItSays /\ FreshOrTold

-----------------------------------------------------------------------------
(* The channel and the log *)

Message == {"events", "options", "ended", "stop"}

\* What waits after a message was sent, taken or neither (Tells, Serves).
LEMMA WaitsAfter ==
  ASSUME S!TypeOK, NEW what
  PROVE  /\ UNCHANGED messages => (Waits(what)' <=> Waits(what))
         /\ \A m \in Message : messages' = Append(messages, m) => (Waits(what)' <=> Waits(what) \/ what = m)
         /\ messages # <<>> => Waits(Head(messages))
         /\ messages # <<>> /\ messages' = Tail(messages)
              => (Waits(what)' => Waits(what)) /\ (Waits(what) => Waits(what)' \/ what = Head(messages))
<1> USE DEF Waits, Message
<1>0. messages \in Seq(Message)
  BY DEF S!TypeOK
<1>1. UNCHANGED messages => (Waits(what)' <=> Waits(what))
  OBVIOUS
<1>2. ASSUME NEW m \in Message, messages' = Append(messages, m) PROVE Waits(what)' <=> Waits(what) \/ what = m
  <2>1. /\ DOMAIN messages = 1..Len(messages) /\ DOMAIN messages' = 1..(Len(messages) + 1)
        /\ messages'[Len(messages) + 1] = m /\ Len(messages) \in Nat
        /\ \A i \in 1..Len(messages) : messages'[i] = messages[i]
    BY <1>0, <1>2
  <2> QED
    BY <2>1
<1>3. messages # <<>> => Waits(Head(messages))
  BY <1>0
<1>4. ASSUME messages # <<>>, messages' = Tail(messages)
      PROVE  (Waits(what)' => Waits(what)) /\ (Waits(what) => Waits(what)' \/ what = Head(messages))
  <2>1. /\ Len(messages) \in Nat \ {0} /\ DOMAIN messages = 1..Len(messages)
        /\ DOMAIN messages' = 1..(Len(messages) - 1) /\ Head(messages) = messages[1]
        /\ \A i \in 1..(Len(messages) - 1) : messages'[i] = messages[i + 1]
    BY <1>0, <1>4
  <2>2. Waits(what)' => Waits(what)
    <3> SUFFICES ASSUME NEW i \in DOMAIN messages', messages'[i] = what PROVE Waits(what)
      OBVIOUS
    <3>1. i + 1 \in DOMAIN messages /\ messages[i + 1] = what
      BY <2>1
    <3> QED
      BY <3>1
  <2>3. Waits(what) => Waits(what)' \/ what = Head(messages)
    <3> SUFFICES ASSUME NEW i \in DOMAIN messages, messages[i] = what, i # 1 PROVE Waits(what)'
      BY <2>1
    <3>1. i - 1 \in DOMAIN messages' /\ messages'[i - 1] = what
      BY <2>1
    <3> QED
      BY <3>1
  <2> QED
    BY <2>2, <2>3
<1> QED
  BY <1>1, <1>2, <1>3, <1>4

\* What waits after the watch thread has reported (WatchThread).
LEMMA WaitsAfterReport ==
  ASSUME S!TypeOK, S!WatchThread, NEW what
  PROVE  Waits(what)' <=> \/ Waits(what)
                          \/ what = "events" /\ "events" \in pending
                          \/ what = "options" /\ pending \cap {"dir", "file"} # {}
<1> DEFINE a == IF "events" \in pending THEN <<"events">> ELSE <<>>
           b == IF pending \cap {"dir", "file"} # {} THEN <<"options">> ELSE <<>>
<1>0. messages \in Seq(Message) /\ messages' = (messages \o a) \o b
  BY DEF S!TypeOK, S!WatchThread, Message
<1>1. /\ a \in Seq(Message) /\ Len(a) \in Nat /\ DOMAIN a = 1..Len(a)
      /\ (\E i \in 1..Len(a) : a[i] = what) <=> (what = "events" /\ "events" \in pending)
  <2>1. CASE "events" \in pending
    <3>1. a = <<"events">> /\ Len(a) = 1 /\ a[1] = "events" /\ a \in Seq(Message)
      BY <2>1 DEF Message
    <3> HIDE DEF a
    <3> QED
      BY <2>1, <3>1
  <2>2. CASE ~("events" \in pending)
    <3>1. a = <<>> /\ Len(a) = 0 /\ a \in Seq(Message)
      BY <2>2
    <3> HIDE DEF a
    <3> QED
      BY <2>2, <3>1
  <2> QED
    BY <2>1, <2>2
<1>2. /\ b \in Seq(Message) /\ Len(b) \in Nat /\ DOMAIN b = 1..Len(b)
      /\ (\E i \in 1..Len(b) : b[i] = what) <=> (what = "options" /\ pending \cap {"dir", "file"} # {})
  <2>1. CASE pending \cap {"dir", "file"} # {}
    <3>1. b = <<"options">> /\ Len(b) = 1 /\ b[1] = "options" /\ b \in Seq(Message)
      BY <2>1 DEF Message
    <3> HIDE DEF b
    <3> QED
      BY <2>1, <3>1
  <2>2. CASE ~(pending \cap {"dir", "file"} # {})
    <3>1. b = <<>> /\ Len(b) = 0 /\ b \in Seq(Message)
      BY <2>2
    <3> HIDE DEF b
    <3> QED
      BY <2>2, <3>1
  <2> QED
    BY <2>1, <2>2
<1> HIDE DEF a, b
<1>3. ASSUME NEW s \in Seq(Message), NEW t \in Seq(Message)
      PROVE  (\E i \in DOMAIN (s \o t) : (s \o t)[i] = what)
               <=> (\E i \in DOMAIN s : s[i] = what) \/ (\E i \in 1..Len(t) : t[i] = what)
  <2>1. /\ Len(s) \in Nat /\ Len(t) \in Nat /\ DOMAIN s = 1..Len(s) /\ DOMAIN (s \o t) = 1..(Len(s) + Len(t))
        /\ \A i \in 1..Len(s) : (s \o t)[i] = s[i]
        /\ \A i \in (Len(s) + 1)..(Len(s) + Len(t)) : (s \o t)[i] = t[i - Len(s)]
    BY <1>3
  <2>2. ASSUME NEW i \in 1..Len(t), t[i] = what PROVE \E j \in DOMAIN (s \o t) : (s \o t)[j] = what
    <3>1. Len(s) + i \in DOMAIN (s \o t) /\ (s \o t)[Len(s) + i] = t[i]
      BY <2>1, <2>2
    <3> QED
      BY <3>1, <2>2
  <2>3. ASSUME NEW i \in DOMAIN (s \o t), (s \o t)[i] = what, i > Len(s) PROVE \E j \in 1..Len(t) : t[j] = what
    <3>1. i - Len(s) \in 1..Len(t) /\ t[i - Len(s)] = what
      BY <2>1, <2>3
    <3> QED
      BY <3>1
  <2> QED
    BY <2>1, <2>2, <2>3
<1>4. messages \o a \in Seq(Message)
  BY <1>0, <1>1
<1>5. (\E i \in DOMAIN messages' : messages'[i] = what)
        <=> (\E i \in DOMAIN (messages \o a) : (messages \o a)[i] = what) \/ (\E i \in 1..Len(b) : b[i] = what)
  BY <1>0, <1>2, <1>3, <1>4
<1>6. (\E i \in DOMAIN (messages \o a) : (messages \o a)[i] = what)
        <=> (\E i \in DOMAIN messages : messages[i] = what) \/ (\E i \in 1..Len(a) : a[i] = what)
  BY <1>0, <1>1, <1>3
<1> QED
  BY <1>1, <1>2, <1>5, <1>6 DEF Waits

Line == {"started", "stopping", "failed", "leaves", "held"}

\* What the log has after a line, or none (Says).
LEMMA HadAfter ==
  ASSUME S!TypeOK, NEW line
  PROVE  /\ UNCHANGED log => (S!Had(line)' <=> S!Had(line))
         /\ \A l \in Line : log' = Append(log, l) =>
              /\ S!Had(line)' <=> S!Had(line) \/ line = l
              /\ log' # <<>> /\ Head(log') = (IF log = <<>> THEN l ELSE Head(log))
              /\ log = <<>> => log' = <<l>>
         /\ log = <<>> => ~S!Had(line)
<1> USE DEF S!Had, Line
<1>0. log \in Seq(Line)
  BY DEF S!TypeOK
<1>1. UNCHANGED log => (S!Had(line)' <=> S!Had(line))
  OBVIOUS
<1>2. ASSUME NEW l \in Line, log' = Append(log, l)
      PROVE  /\ S!Had(line)' <=> S!Had(line) \/ line = l
             /\ log' # <<>> /\ Head(log') = (IF log = <<>> THEN l ELSE Head(log))
             /\ log = <<>> => log' = <<l>>
  <2>1. /\ DOMAIN log = 1..Len(log) /\ DOMAIN log' = 1..(Len(log) + 1)
        /\ log'[Len(log) + 1] = l /\ Len(log) \in Nat
        /\ \A i \in 1..Len(log) : log'[i] = log[i]
    BY <1>0, <1>2
  <2>2. S!Had(line)' <=> S!Had(line) \/ line = l
    BY <2>1
  <2>3. log' # <<>> /\ Head(log') = (IF log = <<>> THEN l ELSE Head(log))
    BY <1>0, <1>2
  <2>4. log = <<>> => log' = <<l>>
    BY <1>2
  <2> QED
    BY <2>2, <2>3, <2>4
<1>3. log = <<>> => ~S!Had(line)
  OBVIOUS
<1> QED
  BY <1>1, <1>2, <1>3

\* A line that is written once stays so.
LEMMA WrittenOnceAfter ==
  ASSUME S!TypeOK, WrittenOnce
  PROVE  /\ UNCHANGED log => WrittenOnce'
         /\ \A l \in Line : log' = Append(log, l) /\ (l = "stopping" => ~S!Had("stopping")) => WrittenOnce'
<1> USE DEF WrittenOnce, S!Had, Line
<1>0. log \in Seq(Line)
  BY DEF S!TypeOK
<1>1. UNCHANGED log => WrittenOnce'
  OBVIOUS
<1>2. ASSUME NEW l \in Line, log' = Append(log, l), l = "stopping" => ~S!Had("stopping") PROVE WrittenOnce'
  <2>1. /\ DOMAIN log = 1..Len(log) /\ DOMAIN log' = 1..(Len(log) + 1)
        /\ log'[Len(log) + 1] = l /\ Len(log) \in Nat
        /\ \A i \in 1..Len(log) : log'[i] = log[i]
    BY <1>0, <1>2
  <2> QED
    BY <1>2, <2>1
<1> QED
  BY <1>1, <1>2

-----------------------------------------------------------------------------
(* The service: its steps *)

\* What a step of the service writes to each variable.
LEMMA WhatAStepWrites ==
  ASSUME S!TypeOK, [S!Next]_ofService
  PROVE  /\ at' \in {"signals", "mkdir", "lock", "options", "watch", "engine", "look", "parent", "adopt",
                "armDir", "armFile", "read", "reload", "started", "settle", "serve", "fail",
                "close", "drain", "release", "exited"}
         /\ gate' \in {"starting", "signalled", "running"} /\ mode' \in {"plugins", "parent", "off"}
         /\ (said' = said \/ said' = TRUE)
         /\ (stopped' = stopped \/ stopped' = TRUE)
         /\ (locked' = locked \/ locked' = TRUE \/ locked' = FALSE)
         /\ (engine' = engine \/ engine' = TRUE \/ engine' = FALSE)
         /\ (refused' = refused \/ refused' = TRUE \/ refused' = FALSE)
         /\ (config' = config /\ (plugins' = plugins \/ plugins' = TRUE))
         /\ (code' = code \/ code' \in {0, 1})
         /\ (signal' = signal \/ signal' \in {"waits", "gate", "said", "line", "stop", "send", "done"})
         /\ (watch' = watch \/ watch' \in {"none", "open", "dead", "closed"})
         /\ (dir' = dir \/ dir' \in {"config", "plugins"})
         /\ armedFile' \in {armedFile, inode, 0}
         /\ \/ pending' \in {pending, {}}
            \/ \E what \in {"dir", "file", "events"} : pending' = pending \cup {what}
         /\ \/ settings' = settings
            \/ settings' = [current |-> S!OptionsOf(file), seen |-> IF S!Invalid(file) THEN file ELSE ""]
         /\ inForce' \in {inForce, settings.current}
         /\ (log' = log \/ \E l \in Line : log' = Append(log, l))
         /\ (file' = file \/ file' \in S!Content)
         /\ inode' \in {inode, inode + 1}
         /\ (changes' = changes \/ (changes < MaxChanges /\ changes' = changes + 1))
         /\ \/ UNCHANGED messages \/ S!WatchThread
            \/ messages # <<>> /\ messages' = Tail(messages)
            \/ \E m \in Message : messages' = Append(messages, m)
<1>0. /\ at \in {"signals", "mkdir", "lock", "options", "watch", "engine", "look", "parent", "adopt",
                "armDir", "armFile", "read", "reload", "started", "settle", "serve", "fail",
                "close", "drain", "release", "exited"}
      /\ mode \in {"plugins", "parent", "off"} /\ gate \in {"starting", "signalled", "running"}
  BY DEF S!TypeOK
<1> USE <1>0 DEF ofService, S!Next, S!Main, S!SignalThread, S!Ended, S!vars, S!process, S!watches, S!options,
        S!disk, S!Step, S!Here, S!Goes, S!Says, S!Tells, S!Arms, S!Rearmed, S!Apply, S!SignalStep,
        S!Heard, S!Changes, S!WatchFailed, S!Begins, S!TakesLock, S!ReadsOptions, S!OpensWatch,
        S!StartsEngine, S!Looks, S!ArmsParent, S!Adopts, S!ArmsDir, S!ArmsFile, S!Reads, S!Reloads,
        S!Started, S!Settles, S!Serves, S!Ticks, S!Fails, S!ClosesWatch, S!Drains, S!Exits,
        S!SignalComes, S!SignalAtGate, S!SignalSaid, S!SignalLine, S!SignalStops, S!SignalSends,
        S!WatchThread, S!WatchDies, S!MakePlugins, S!Replace, S!WriteInPlace, S!EventComes
<1>1. at' \in {"signals", "mkdir", "lock", "options", "watch", "engine", "look", "parent", "adopt",
           "armDir", "armFile", "read", "reload", "started", "settle", "serve", "fail",
           "close", "drain", "release", "exited"}
  OBVIOUS
<1>2. gate' \in {"starting", "signalled", "running"}
  OBVIOUS
<1>3. mode' \in {"plugins", "parent", "off"}
  OBVIOUS
<1>4. said' = said \/ said' = TRUE
  OBVIOUS
<1>5. stopped' = stopped \/ stopped' = TRUE
  OBVIOUS
<1>6. locked' = locked \/ locked' = TRUE \/ locked' = FALSE
  OBVIOUS
<1>7. engine' = engine \/ engine' = TRUE \/ engine' = FALSE
  OBVIOUS
<1>8. refused' = refused \/ refused' = TRUE \/ refused' = FALSE
  OBVIOUS
<1>9. config' = config /\ (plugins' = plugins \/ plugins' = TRUE)
  OBVIOUS
<1>10. code' = code \/ code' \in {0, 1}
  OBVIOUS
<1>11. signal' = signal \/ signal' \in {"waits", "gate", "said", "line", "stop", "send", "done"}
  OBVIOUS
<1>12. watch' = watch \/ watch' \in {"none", "open", "dead", "closed"}
  OBVIOUS
<1>13. dir' = dir \/ dir' \in {"config", "plugins"}
  OBVIOUS
<1>14. armedFile' \in {armedFile, inode, 0}
  OBVIOUS
<1>15. pending' \in {pending, {}} \/ \E what \in {"dir", "file", "events"} : pending' = pending \cup {what}
  OBVIOUS
<1>16. \/ settings' = settings
       \/ settings' = [current |-> S!OptionsOf(file), seen |-> IF S!Invalid(file) THEN file ELSE ""]
  OBVIOUS
<1>17. inForce' \in {inForce, settings.current}
  OBVIOUS
<1>18. log' = log \/ \E l \in Line : log' = Append(log, l)
  BY DEF Line
<1>19. file' = file \/ file' \in S!Content
  OBVIOUS
<1>20. inode' \in {inode, inode + 1}
  OBVIOUS
<1>21. changes' = changes \/ (changes < MaxChanges /\ changes' = changes + 1)
  OBVIOUS
<1>22. \/ UNCHANGED messages \/ S!WatchThread
       \/ messages # <<>> /\ messages' = Tail(messages)
       \/ \E m \in Message : messages' = Append(messages, m)
  BY DEF Message
<1> QED
  BY ONLY <1>1, <1>2, <1>3, <1>4, <1>5, <1>6, <1>7, <1>8, <1>9, <1>10, <1>11, <1>12, <1>13,
     <1>14, <1>15, <1>16, <1>17, <1>18, <1>19, <1>20, <1>21, <1>22

\* Types are kept.
LEMMA ServiceTypeStep == S!TypeOK /\ [S!Next]_ofService => S!TypeOK'
<1> SUFFICES ASSUME S!TypeOK, [S!Next]_ofService PROVE S!TypeOK'
  OBVIOUS
<1>1. said' \in BOOLEAN /\ stopped' \in BOOLEAN /\ locked' \in BOOLEAN
  BY WhatAStepWrites, Zenon DEF S!TypeOK
<1>2. engine' \in BOOLEAN /\ refused' \in BOOLEAN /\ config' \in BOOLEAN /\ plugins' \in BOOLEAN
  BY WhatAStepWrites, Zenon DEF S!TypeOK
<1>3. code' \in {0, 1} /\ signal' \in {"off", "waits", "gate", "said", "line", "stop", "send", "done"}
  BY WhatAStepWrites DEF S!TypeOK
<1>4. watch' \in {"none", "open", "dead", "closed"} /\ dir' \in {"none", "config", "plugins"}
  BY WhatAStepWrites DEF S!TypeOK
<1>5. inode' \in Nat /\ armedFile' \in Nat
  <2>1. inode \in Nat /\ armedFile \in Nat
    BY DEF S!TypeOK
  <2>2. inode' \in {inode, inode + 1} /\ armedFile' \in {armedFile, inode, 0}
    BY WhatAStepWrites
  <2> QED
    BY <2>1, <2>2
<1>6. pending' \subseteq {"dir", "file", "events"}
  BY WhatAStepWrites DEF S!TypeOK
<1>7. settings' \in [current : {"same", "other", "none"}, seen : {"", "bad", "worse"}]
  <2>1. settings \in [current : {"same", "other", "none"}, seen : {"", "bad", "worse"}] /\ file \in S!Content
    BY DEF S!TypeOK
  <2>2. settings' = settings
        \/ settings' = [current |-> S!OptionsOf(file), seen |-> IF S!Invalid(file) THEN file ELSE ""]
    BY WhatAStepWrites
  <2>3. S!OptionsOf(file) \in {"same", "other", "none"}
    BY DEF S!OptionsOf
  <2>4. (IF S!Invalid(file) THEN file ELSE "") \in {"", "bad", "worse"}
    BY DEF S!Invalid
  <2>5. ASSUME NEW c \in {"same", "other", "none"}, NEW s \in {"", "bad", "worse"}
        PROVE  [current |-> c, seen |-> s] \in [current : {"same", "other", "none"}, seen : {"", "bad", "worse"}]
    OBVIOUS
  <2>6. settings' = settings \/ \E c \in {"same", "other", "none"}, s \in {"", "bad", "worse"} :
                                  settings' = [current |-> c, seen |-> s]
    BY <2>2, <2>3, <2>4, Zenon
  <2>7. CASE settings' = settings
    BY <2>1, <2>7
  <2>8. ASSUME NEW c \in {"same", "other", "none"}, NEW s \in {"", "bad", "worse"},
               settings' = [current |-> c, seen |-> s]
        PROVE  settings' \in [current : {"same", "other", "none"}, seen : {"", "bad", "worse"}]
    BY <2>5, <2>8
  <2> QED
    BY <2>6, <2>7, <2>8
<1>8. inForce' \in {"same", "other", "none"}
  BY WhatAStepWrites DEF S!TypeOK
<1>9. log' \in Seq(Line)
  <2>1. log \in Seq(Line)
    BY DEF S!TypeOK, Line
  <2>2. log' = log \/ \E l \in Line : log' = Append(log, l)
    BY WhatAStepWrites
  <2> QED
    BY <2>1, <2>2
<1>10. file' \in S!Content
  BY WhatAStepWrites DEF S!TypeOK
<1>11. changes' \in 0..MaxChanges
  <2>1. changes \in 0..MaxChanges /\ MaxChanges \in Nat
    BY IntakeAssumption DEF S!TypeOK
  <2>2. changes' = changes \/ (changes < MaxChanges /\ changes' = changes + 1)
    BY WhatAStepWrites
  <2> QED
    BY <2>1, <2>2
<1>12. messages' \in Seq(Message)
  <2>1. messages \in Seq(Message)
    BY DEF S!TypeOK, Message
  <2>2. CASE S!WatchThread
    <3> DEFINE a == IF "events" \in pending THEN <<"events">> ELSE <<>>
               b == IF pending \cap {"dir", "file"} # {} THEN <<"options">> ELSE <<>>
    <3>1. messages' = (messages \o a) \o b
      BY <2>2 DEF S!WatchThread
    <3>2. <<"events">> \in Seq(Message) /\ <<"options">> \in Seq(Message) /\ <<>> \in Seq(Message)
      BY DEF Message
    <3>3. a \in Seq(Message) /\ b \in Seq(Message)
      BY <3>2, Zenon
    <3> HIDE DEF a, b
    <3> QED
      BY <2>1, <3>1, <3>3
  <2>3. \/ UNCHANGED messages \/ S!WatchThread
        \/ messages # <<>> /\ messages' = Tail(messages)
        \/ \E m \in Message : messages' = Append(messages, m)
    BY WhatAStepWrites
  <2> QED
    BY <2>1, <2>2, <2>3
<1> QED
  BY WhatAStepWrites, <1>1, <1>2, <1>3, <1>4, <1>5, <1>6, <1>7, <1>8, <1>9, <1>10, <1>11,
     <1>12, Zenon
     DEF Line, Message, S!TypeOK

\* The lock is held for as long as something is open.
LEMMA ReleaseStep == S!TypeOK /\ HoldsWhatIsOpen /\ [S!Next]_ofService => HoldsWhatIsOpen'
<1> SUFFICES ASSUME S!TypeOK /\ HoldsWhatIsOpen, [S!Next]_ofService PROVE HoldsWhatIsOpen'
  OBVIOUS
<1> USE DEF S!process, S!watches, S!options, S!disk, S!Step, S!Here, S!Goes, HoldsWhatIsOpen
<1>1. CASE UNCHANGED ofService
  BY <1>1 DEF ofService
<1>2. CASE S!Begins
  BY <1>2 DEF S!Begins
<1>3. CASE S!ReadsOptions
  BY <1>3 DEF S!ReadsOptions, S!Says, S!Apply
<1>4. CASE S!OpensWatch
  BY <1>4 DEF S!OpensWatch
<1>5. CASE S!StartsEngine
  BY <1>5 DEF S!StartsEngine
<1>6. CASE S!Looks \/ S!ArmsParent \/ S!Adopts \/ S!ArmsDir
  BY <1>6 DEF S!Looks, S!Arms, S!ArmsParent, S!Adopts, S!ArmsDir
<1>7. CASE S!Reads
  BY <1>7 DEF S!Reads, S!Arms, S!Apply
<1>8. CASE S!Reloads
  BY <1>8 DEF S!Reloads, S!Arms
<1>9. CASE S!Started
  BY <1>9 DEF S!Started, S!Says
<1>10. CASE S!ArmsFile \/ S!Settles \/ S!Ticks \/ S!Fails
  BY <1>10 DEF S!ArmsFile, S!Arms, S!Rearmed, S!Settles, S!Says, S!Ticks, S!Fails
<1>11. CASE S!ClosesWatch \/ S!Drains \/ S!Exits \/ S!SignalComes
  BY <1>11 DEF S!ClosesWatch, S!Drains, S!Exits, S!SignalComes, S!SignalStep
<1>12. CASE S!SignalAtGate \/ S!SignalSaid \/ S!SignalLine \/ S!SignalStops
  BY <1>12 DEF S!SignalAtGate, S!SignalStep, S!SignalSaid, S!SignalLine, S!Says, S!SignalStops
<1>13. CASE S!WatchThread
  BY <1>13 DEF S!WatchThread, S!Rearmed
<1>14. CASE S!MakePlugins
  BY <1>14 DEF S!MakePlugins, S!Heard, S!Changes
<1>15. CASE S!Replace
  BY <1>15 DEF S!Replace, S!Heard, S!Changes
<1>16. CASE S!SignalSends \/ S!WatchDies \/ S!WriteInPlace \/ S!EventComes
  BY <1>16 DEF S!SignalSends, S!SignalStep, S!Tells, S!WatchDies, S!WriteInPlace, S!Heard,
     S!Changes, S!EventComes
<1>17. CASE S!TakesLock
  <2>1. UNCHANGED <<engine, watch>> /\ at = "lock"
    BY <1>17 DEF S!TakesLock
  <2>2. (at' = "options" /\ locked') \/ (at' \in {"exited", "fail"} /\ UNCHANGED locked)
    BY <1>17 DEF S!TakesLock
  <2>3. ~locked /\ ~engine /\ watch \notin {"open", "dead"}
    BY <2>1
  <2>4. CASE at' = "options" /\ locked'
    BY <2>1, <2>3, <2>4
  <2>5. CASE at' \in {"exited", "fail"} /\ UNCHANGED locked
    BY <2>1, <2>3, <2>5
  <2> QED
    BY <2>2, <2>4, <2>5
<1>18. CASE S!Serves
  <2>1. UNCHANGED <<engine, watch, locked>> /\ at = "serve" /\ at' \in {"serve", "read", "adopt", "reload", "close"}
    BY <1>18 DEF S!Serves, S!TypeOK
  <2> QED
    BY <2>1
<1> QED
  BY <1>1, <1>2, <1>3, <1>4, <1>5, <1>6, <1>7, <1>8, <1>9, <1>10, <1>11, <1>12, <1>13,
     <1>14, <1>15, <1>16, <1>17, <1>18 DEF S!Next, S!Main, S!SignalThread, S!Ended, S!vars, ofService

\* The line is written by whoever took it, and once.
LEMMA SaysStep == S!TypeOK /\ GateIsPassedOnce /\ OneSaysIt /\ [S!Next]_ofService => OneSaysIt'
<1> SUFFICES ASSUME S!TypeOK /\ GateIsPassedOnce /\ OneSaysIt, [S!Next]_ofService PROVE OneSaysIt'
  OBVIOUS
<1> USE DEF S!process, S!watches, S!options, S!disk, S!Step, S!Here, S!Goes, OneSaysIt, Line
<1>0. /\ UNCHANGED log => (S!Had("stopping")' <=> S!Had("stopping"))
      /\ \A l \in Line : log' = Append(log, l) =>
           /\ S!Had("stopping")' <=> S!Had("stopping") \/ "stopping" = l
           /\ log' # <<>> /\ Head(log') = (IF log = <<>> THEN l ELSE Head(log))
           /\ log = <<>> => log' = <<l>>
      /\ log = <<>> => ~S!Had("stopping")
  BY HadAfter
<1> USE <1>0
<1>w. WrittenOnce => /\ UNCHANGED log => WrittenOnce'
                    /\ \A l \in Line : log' = Append(log, l) /\ (l = "stopping" => ~S!Had("stopping")) => WrittenOnce'
  BY WrittenOnceAfter
<1> USE <1>w
<1>1. CASE UNCHANGED ofService
  BY <1>1 DEF ofService
<1>2. CASE S!ReadsOptions
  BY <1>2 DEF S!ReadsOptions, S!Says, S!Apply
<1>3. CASE S!TakesLock \/ S!OpensWatch \/ S!StartsEngine \/ S!Looks
  BY <1>3 DEF S!TakesLock, S!Says, S!OpensWatch, S!StartsEngine, S!Looks, S!Arms
<1>4. CASE S!ArmsParent \/ S!Adopts \/ S!ArmsDir \/ S!ArmsFile
  BY <1>4 DEF S!ArmsParent, S!Arms, S!Adopts, S!ArmsDir, S!ArmsFile, S!Rearmed
<1>5. CASE S!Reads
  BY <1>5 DEF S!Reads, S!Arms, S!Apply
<1>6. CASE S!Started
  BY <1>6 DEF S!Started, S!Says
<1>7. CASE S!Reloads \/ S!Settles \/ S!Serves \/ S!Ticks
  BY <1>7 DEF S!Reloads, S!Arms, S!Settles, S!Says, S!Serves, S!WatchFailed, S!Ticks
<1>8. CASE S!Fails \/ S!ClosesWatch \/ S!Drains \/ S!Exits
  BY <1>8 DEF S!Fails, S!Says, S!ClosesWatch, S!Drains, S!Exits
<1>9. CASE S!SignalComes \/ S!SignalAtGate \/ S!SignalSaid \/ S!SignalLine
  BY <1>9 DEF S!SignalComes, S!SignalStep, S!SignalAtGate, S!SignalSaid, S!SignalLine, S!Says
<1>10. CASE S!WatchThread
  BY <1>10 DEF S!WatchThread, S!Rearmed
<1>11. CASE S!WatchDies
  BY <1>11 DEF S!WatchDies, S!Tells
<1>12. CASE S!MakePlugins
  BY <1>12 DEF S!MakePlugins, S!Heard, S!Changes
<1>13. CASE S!Replace
  BY <1>13 DEF S!Replace, S!Heard, S!Changes
<1>14. CASE S!SignalStops \/ S!SignalSends \/ S!WriteInPlace \/ S!EventComes
  BY <1>14 DEF S!SignalStops, S!SignalStep, S!SignalSends, S!Tells, S!WriteInPlace,
     S!Heard, S!Changes, S!EventComes
<1>15. CASE S!Begins
  BY <1>15 DEF S!Begins, GateIsPassedOnce
<1> QED
  BY <1>1, <1>2, <1>3, <1>4, <1>5, <1>6, <1>7, <1>8, <1>9, <1>10, <1>11, <1>12, <1>13,
     <1>14, <1>15 DEF S!Next, S!Main, S!SignalThread, S!Ended, S!vars, ofService

\* The gate opens once, behind the line `started`.
LEMMA GateStep == S!TypeOK /\ GateIsPassedOnce /\ [S!Next]_ofService => GateIsPassedOnce'
<1> SUFFICES ASSUME S!TypeOK /\ GateIsPassedOnce, [S!Next]_ofService PROVE GateIsPassedOnce'
  OBVIOUS
<1> USE DEF S!process, S!watches, S!options, S!disk, S!Step, S!Here, S!Goes, GateIsPassedOnce, Arming,
        Closing, Line
<1>0. /\ UNCHANGED log => (S!Had("started")' <=> S!Had("started"))
      /\ \A l \in Line : log' = Append(log, l) =>
           /\ S!Had("started")' <=> S!Had("started") \/ "started" = l
           /\ log' # <<>> /\ Head(log') = (IF log = <<>> THEN l ELSE Head(log))
           /\ log = <<>> => log' = <<l>>
      /\ log = <<>> => ~S!Had("started")
  BY HadAfter
<1> USE <1>0
<1>1. CASE UNCHANGED ofService
  BY <1>1 DEF ofService
<1>2. CASE S!TakesLock
  BY <1>2 DEF S!TakesLock, S!Says
<1>3. CASE S!ReadsOptions
  BY <1>3 DEF S!ReadsOptions, S!Says, S!Apply
<1>4. CASE S!Begins \/ S!OpensWatch \/ S!StartsEngine \/ S!Looks
  BY <1>4 DEF S!Begins, S!OpensWatch, S!StartsEngine, S!Looks, S!Arms
<1>5. CASE S!ArmsParent \/ S!Adopts \/ S!ArmsDir \/ S!ArmsFile
  BY <1>5 DEF S!ArmsParent, S!Arms, S!Adopts, S!ArmsDir, S!ArmsFile, S!Rearmed
<1>6. CASE S!Reads
  BY <1>6 DEF S!Reads, S!Arms, S!Apply
<1>7. CASE S!Started
  BY <1>7 DEF S!Started, S!Says
<1>8. CASE S!Reloads \/ S!Settles \/ S!Ticks \/ S!Fails
  BY <1>8 DEF S!Reloads, S!Arms, S!Settles, S!Says, S!Ticks, S!Fails
<1>9. CASE S!ClosesWatch \/ S!Drains \/ S!Exits \/ S!SignalComes
  BY <1>9 DEF S!ClosesWatch, S!Drains, S!Exits, S!SignalComes, S!SignalStep
<1>10. CASE S!SignalAtGate \/ S!SignalSaid \/ S!SignalLine \/ S!SignalStops
  BY <1>10 DEF S!SignalAtGate, S!SignalStep, S!SignalSaid, S!SignalLine, S!Says, S!SignalStops
<1>11. CASE S!SignalSends
  BY <1>11 DEF S!SignalSends, S!SignalStep, S!Tells
<1>12. CASE S!WatchThread
  BY <1>12 DEF S!WatchThread, S!Rearmed
<1>13. CASE S!WatchDies \/ S!MakePlugins \/ S!Replace \/ S!WriteInPlace
  BY <1>13 DEF S!WatchDies, S!Tells, S!MakePlugins, S!Heard, S!Changes, S!Replace,
     S!WriteInPlace
<1>14. CASE S!EventComes
  BY <1>14 DEF S!EventComes
<1>15. CASE S!Serves
  <2>1. at = "serve" /\ messages # <<>> /\ messages' = Tail(messages)
    BY <1>15 DEF S!Serves
  <2>2. UNCHANGED <<gate, locked, engine, signal, watch, dir, armedFile, pending, refused, mode, settings, inForce,
                    config, plugins, file, inode>>
    BY <1>15 DEF S!Serves
  <2>3. mode \in {"plugins", "parent", "off"}
    BY DEF S!TypeOK
  <2>4. \/ at' \in {"close", "serve"} \/ (at' = "read" /\ mode = "plugins")
        \/ (at' = "adopt" /\ mode = "parent") \/ (at' = "reload" /\ mode = "off")
    BY <1>15, <2>3 DEF S!Serves
  <2>5. UNCHANGED log \/ log' = Append(log, "stopping")
    BY <1>15 DEF S!Serves, S!WatchFailed, S!Says
  <2>6. gate = "running"
    BY <2>1
  <2> QED
    BY <2>1, <2>2, <2>4, <2>5, <2>6
<1> QED
  BY <1>1, <1>2, <1>3, <1>4, <1>5, <1>6, <1>7, <1>8, <1>9, <1>10, <1>11, <1>12, <1>13,
     <1>14, <1>15 DEF S!Next, S!Main, S!SignalThread, S!Ended, S!vars, ofService

\* A stop is said before the loop ends.
LEMMA StopStep ==
  S!TypeOK /\ HoldsWhatIsOpen /\ GateIsPassedOnce /\ OneSaysIt /\ StopIsSaid
    /\ [S!Next]_ofService => StopIsSaid'
<1> SUFFICES ASSUME S!TypeOK /\ HoldsWhatIsOpen /\ GateIsPassedOnce /\ OneSaysIt /\ StopIsSaid, [S!Next]_ofService
             PROVE  StopIsSaid'
  OBVIOUS
<1> USE DEF S!process, S!watches, S!options, S!disk, S!Step, S!Here, S!Goes, StopIsSaid, Arming, Closing,
        Message
<1>0. /\ UNCHANGED messages => (Waits("stop")' <=> Waits("stop"))
      /\ \A m \in Message : messages' = Append(messages, m) => (Waits("stop")' <=> Waits("stop") \/ "stop" = m)
      /\ messages # <<>> => Waits(Head(messages))
      /\ messages # <<>> /\ messages' = Tail(messages)
           => /\ (Waits("stop")' => Waits("stop"))
              /\ (Waits("stop") => Waits("stop")' \/ "stop" = Head(messages))
  BY WaitsAfter
<1> USE <1>0
<1>1. CASE UNCHANGED ofService
  BY <1>1 DEF ofService
<1>2. CASE S!OpensWatch \/ S!StartsEngine \/ S!Looks \/ S!ArmsParent
  BY <1>2 DEF S!OpensWatch, S!StartsEngine, S!Looks, S!Arms, S!ArmsParent
<1>3. CASE S!ArmsDir
  BY <1>3 DEF S!ArmsDir, S!Arms
<1>4. CASE S!Reads
  BY <1>4 DEF S!Reads, S!Arms, S!Apply
<1>5. CASE S!Adopts \/ S!ArmsFile \/ S!Reloads \/ S!Started
  BY <1>5 DEF S!Adopts, S!Arms, S!ArmsFile, S!Rearmed, S!Reloads, S!Started, S!Says
<1>6. CASE S!Ticks \/ S!ClosesWatch \/ S!Drains \/ S!Exits
  BY <1>6 DEF S!Ticks, S!ClosesWatch, S!Drains, S!Exits
<1>7. CASE S!SignalComes \/ S!SignalAtGate \/ S!SignalSaid \/ S!SignalStops
  BY <1>7 DEF S!SignalComes, S!SignalStep, S!SignalAtGate, S!SignalSaid, S!SignalStops
<1>8. CASE S!SignalSends
  BY <1>8 DEF S!SignalSends, S!SignalStep, S!Tells
<1>9. CASE S!WatchDies \/ S!MakePlugins \/ S!Replace \/ S!WriteInPlace
  BY <1>9 DEF S!WatchDies, S!Tells, S!MakePlugins, S!Heard, S!Changes, S!Replace, S!WriteInPlace
<1>10. CASE S!EventComes
  BY <1>10 DEF S!EventComes
<1>11. CASE S!Begins
  BY <1>11 DEF S!Begins, GateIsPassedOnce, HoldsWhatIsOpen
<1>12. CASE S!TakesLock
  BY <1>12 DEF S!TakesLock, GateIsPassedOnce, HoldsWhatIsOpen
<1>13. CASE S!ReadsOptions
  BY <1>13 DEF S!ReadsOptions, GateIsPassedOnce, HoldsWhatIsOpen
<1>14. CASE S!Settles
  <2>1. at = "settle" /\ at' = "serve" /\ gate' = "running" /\ UNCHANGED <<stopped, signal, messages, watch>>
    BY <1>14 DEF S!Settles
  <2>2. (gate = "signalled" /\ ~said => said') /\ (said => said')
    BY <1>14 DEF S!Settles
  <2>3. signal \in {"stop", "send", "done"} => gate = "signalled" \/ said
    BY <2>1 DEF GateIsPassedOnce, S!TypeOK
  <2> QED
    BY <2>1, <2>2, <2>3
<1>15. CASE S!Serves
  <2>1. at = "serve" /\ messages # <<>> /\ messages' = Tail(messages)
    BY <1>15 DEF S!Serves
  <2>2. UNCHANGED <<gate, locked, engine, signal, watch, dir, armedFile, pending, refused, mode, settings, inForce,
                    config, plugins, file, inode>>
    BY <1>15 DEF S!Serves
  <2>3. mode \in {"plugins", "parent", "off"}
    BY DEF S!TypeOK
  <2>4. \/ at' \in {"close", "serve"} \/ (at' = "read" /\ mode = "plugins")
        \/ (at' = "adopt" /\ mode = "parent") \/ (at' = "reload" /\ mode = "off")
    BY <1>15, <2>3 DEF S!Serves
  <2>5. \/ at' = "close" /\ (stopped \/ Head(messages) = "stop") /\ UNCHANGED <<stopped, said>>
        \/ at' = "close" /\ code' = 1 /\ said'
        \/ at' # "close" /\ UNCHANGED <<code, stopped, said>>
    BY <1>15, <2>3 DEF S!Serves, S!WatchFailed
  <2>6. signal = "line" => said
    BY DEF OneSaysIt
  <2>7. gate = "running" /\ watch \in {"open", "dead"}
    BY <2>1 DEF GateIsPassedOnce
  <2> QED
    BY <2>1, <2>2, <2>4, <2>5, <2>6, <2>7
<1>16. CASE S!Fails
  BY <1>16 DEF S!Fails, GateIsPassedOnce, HoldsWhatIsOpen
<1>17. CASE S!SignalLine
  BY <1>17 DEF S!SignalLine, S!SignalStep, OneSaysIt
<1>18. CASE S!WatchThread
  <2>1. Waits("stop")' <=> Waits("stop")
    BY <1>18, WaitsAfterReport
  <2>2. UNCHANGED <<gate, signal, said, stopped, at, code, watch>>
    BY <1>18 DEF S!WatchThread
  <2> QED
    BY <2>1, <2>2
<1> QED
  BY <1>1, <1>2, <1>3, <1>4, <1>5, <1>6, <1>7, <1>8, <1>9, <1>10, <1>11, <1>12, <1>13,
     <1>14, <1>15, <1>16, <1>17, <1>18 DEF S!Next, S!Main, S!SignalThread, S!Ended, S!vars, ofService

\* The mode is of the directory that is watched.
LEMMA WatchesStep ==
  S!TypeOK /\ HoldsWhatIsOpen /\ WatchesWhatItSays /\ [S!Next]_ofService => WatchesWhatItSays'
<1> SUFFICES ASSUME S!TypeOK /\ HoldsWhatIsOpen /\ WatchesWhatItSays, [S!Next]_ofService
             PROVE  WatchesWhatItSays'
  OBVIOUS
<1> USE DEF S!process, S!watches, S!options, S!disk, S!Step, S!Here, S!Goes, WatchesWhatItSays, Arming,
        Closing, Message
<1>0. /\ UNCHANGED messages => (Waits("ended")' <=> Waits("ended"))
      /\ \A m \in Message : messages' = Append(messages, m) => (Waits("ended")' <=> Waits("ended") \/ "ended" = m)
      /\ messages # <<>> => Waits(Head(messages))
      /\ messages # <<>> /\ messages' = Tail(messages)
           => /\ (Waits("ended")' => Waits("ended"))
              /\ (Waits("ended") => Waits("ended")' \/ "ended" = Head(messages))
  BY WaitsAfter
<1> USE <1>0
<1>1. CASE UNCHANGED ofService
  BY <1>1 DEF ofService
<1>2. CASE S!Begins \/ S!TakesLock \/ S!ReadsOptions \/ S!StartsEngine
  BY <1>2 DEF S!Begins, S!TakesLock, S!Says, S!ReadsOptions, S!Apply, S!StartsEngine
<1>3. CASE S!ArmsDir
  BY <1>3 DEF S!ArmsDir, S!Arms
<1>4. CASE S!ArmsFile
  BY <1>4 DEF S!ArmsFile, S!Arms, S!Rearmed
<1>5. CASE S!Reads
  BY <1>5 DEF S!Reads, S!Arms, S!Apply
<1>6. CASE S!Looks \/ S!ArmsParent \/ S!Adopts \/ S!Reloads
  BY <1>6 DEF S!Looks, S!Arms, S!ArmsParent, S!Adopts, S!Reloads
<1>7. CASE S!Started \/ S!Settles \/ S!Ticks \/ S!Fails
  BY <1>7 DEF S!Started, S!Says, S!Settles, S!Ticks, S!Fails
<1>8. CASE S!ClosesWatch \/ S!Drains \/ S!Exits \/ S!SignalComes
  BY <1>8 DEF S!ClosesWatch, S!Drains, S!Exits, S!SignalComes, S!SignalStep
<1>9. CASE S!SignalAtGate \/ S!SignalSaid \/ S!SignalLine \/ S!SignalStops
  BY <1>9 DEF S!SignalAtGate, S!SignalStep, S!SignalSaid, S!SignalLine, S!Says, S!SignalStops
<1>10. CASE S!SignalSends \/ S!WatchDies \/ S!MakePlugins \/ S!Replace
  BY <1>10 DEF S!SignalSends, S!SignalStep, S!Tells, S!WatchDies, S!MakePlugins, S!Heard,
     S!Changes, S!Replace
<1>11. CASE S!WriteInPlace \/ S!EventComes
  BY <1>11 DEF S!WriteInPlace, S!Heard, S!Changes, S!EventComes
<1>12. CASE S!OpensWatch
  BY <1>12 DEF S!OpensWatch, HoldsWhatIsOpen
<1>13. CASE S!Serves
  <2>1. at = "serve" /\ messages # <<>> /\ messages' = Tail(messages)
    BY <1>13 DEF S!Serves
  <2>2. UNCHANGED <<gate, locked, engine, signal, watch, dir, armedFile, pending, refused, mode, settings, inForce,
                    config, plugins, file, inode>>
    BY <1>13 DEF S!Serves
  <2>3. mode \in {"plugins", "parent", "off"}
    BY DEF S!TypeOK
  <2>4. \/ at' \in {"close", "serve"} \/ (at' = "read" /\ mode = "plugins")
        \/ (at' = "adopt" /\ mode = "parent") \/ (at' = "reload" /\ mode = "off")
    BY <1>13, <2>3 DEF S!Serves
  <2> QED
    BY <2>1, <2>2, <2>4
<1>14. CASE S!WatchThread
  <2>1. Waits("ended")' <=> Waits("ended")
    BY <1>14, WaitsAfterReport
  <2>2. UNCHANGED <<watch, mode, dir, at, plugins>>
    BY <1>14 DEF S!WatchThread
  <2> QED
    BY <2>1, <2>2
<1> QED
  BY <1>1, <1>2, <1>3, <1>4, <1>5, <1>6, <1>7, <1>8, <1>9, <1>10, <1>11, <1>12, <1>13,
     <1>14 DEF S!Next, S!Main, S!SignalThread, S!Ended, S!vars, ofService

\* A change is read, or the loop is told of it.
LEMMA FreshStep == S!TypeOK /\ WatchesWhatItSays /\ FreshOrTold /\ [S!Next]_ofService => FreshOrTold'
<1> SUFFICES ASSUME S!TypeOK /\ WatchesWhatItSays /\ FreshOrTold, [S!Next]_ofService PROVE FreshOrTold'
  OBVIOUS
<1> USE DEF S!process, S!watches, S!options, S!disk, S!Step, S!Here, S!Goes, FreshOrTold, Told, Arming,
        Closing, Message, S!Rearmed, S!OptionsOf
<1>0. /\ UNCHANGED messages => (Waits("options")' <=> Waits("options"))
      /\ \A m \in Message : messages' = Append(messages, m) => (Waits("options")' <=> Waits("options") \/ "options" = m)
      /\ messages # <<>> => Waits(Head(messages))
      /\ messages # <<>> /\ messages' = Tail(messages)
           => /\ (Waits("options")' => Waits("options"))
              /\ (Waits("options") => Waits("options")' \/ "options" = Head(messages))
  BY WaitsAfter
<1> USE <1>0
<1>1. CASE UNCHANGED ofService
  BY <1>1 DEF ofService
<1>2. CASE S!Begins \/ S!TakesLock \/ S!ReadsOptions \/ S!StartsEngine
  BY <1>2 DEF S!Begins, S!TakesLock, S!Says, S!ReadsOptions, S!Apply, S!StartsEngine
<1>3. CASE S!ArmsDir
  BY <1>3 DEF S!ArmsDir, S!Arms
<1>4. CASE S!ArmsFile
  BY <1>4 DEF S!ArmsFile, S!Arms, S!Rearmed
<1>5. CASE S!Reads
  BY <1>5 DEF S!Reads, S!Arms, S!Apply
<1>6. CASE S!Reloads
  BY <1>6 DEF S!Reloads, S!Arms
<1>7. CASE S!Started \/ S!Settles \/ S!Serves \/ S!Ticks
  BY <1>7 DEF S!Started, S!Says, S!Settles, S!Serves, S!WatchFailed, S!Ticks
<1>8. CASE S!Fails \/ S!ClosesWatch \/ S!Drains \/ S!Exits
  BY <1>8 DEF S!Fails, S!Says, S!ClosesWatch, S!Drains, S!Exits
<1>9. CASE S!SignalComes \/ S!SignalAtGate \/ S!SignalSaid \/ S!SignalLine
  BY <1>9 DEF S!SignalComes, S!SignalStep, S!SignalAtGate, S!SignalSaid, S!SignalLine, S!Says
<1>10. CASE S!SignalStops \/ S!SignalSends \/ S!WatchDies \/ S!WriteInPlace
  BY <1>10 DEF S!SignalStops, S!SignalStep, S!SignalSends, S!Tells, S!WatchDies,
     S!WriteInPlace, S!Heard, S!Changes
<1>11. CASE S!EventComes
  BY <1>11 DEF S!EventComes
<1>12. CASE S!OpensWatch
  BY <1>12 DEF S!OpensWatch, WatchesWhatItSays
<1>13. CASE S!Looks
  BY <1>13 DEF S!Looks, S!Arms, WatchesWhatItSays
<1>14. CASE S!ArmsParent
  BY <1>14 DEF S!ArmsParent, S!Arms, WatchesWhatItSays
<1>15. CASE S!Adopts
  BY <1>15 DEF S!Adopts, S!Arms, WatchesWhatItSays
<1>16. CASE S!WatchThread
  <2>1. Waits("options")' <=> Waits("options") \/ pending \cap {"dir", "file"} # {}
    BY <1>16, WaitsAfterReport
  <2>2. UNCHANGED <<watch, at, mode, plugins, dir, file, inode, settings, inForce>> /\ pending' = {}
    BY <1>16 DEF S!WatchThread
  <2>3. IF "dir" \in pending /\ dir = "plugins" THEN armedFile' = S!Rearmed ELSE UNCHANGED <<armedFile, refused>>
    BY <1>16 DEF S!WatchThread
  <2>4. mode = "plugins" => dir = "plugins"
    BY DEF WatchesWhatItSays
  <2> QED
    BY <2>1, <2>2, <2>3, <2>4
<1>17. CASE S!MakePlugins
  BY <1>17 DEF S!MakePlugins, S!Heard, S!Changes, WatchesWhatItSays
<1>18. CASE S!Replace
  BY <1>18 DEF S!Replace, S!Heard, S!Changes, WatchesWhatItSays
<1> QED
  BY <1>1, <1>2, <1>3, <1>4, <1>5, <1>6, <1>7, <1>8, <1>9, <1>10, <1>11, <1>12, <1>13,
     <1>14, <1>15, <1>16, <1>17, <1>18 DEF S!Next, S!Main, S!SignalThread, S!Ended, S!vars, ofService

-----------------------------------------------------------------------------
(* The service: the theorems *)

ServiceInv == S!TypeOK /\ HoldsWhatIsOpen /\ LogInv /\ FreshInv

\* A service that was just started.
LEMMA ServiceStart == S!Init => ServiceInv
<1> SUFFICES ASSUME S!Init PROVE ServiceInv
  OBVIOUS
<1>1. /\ at = "signals" /\ gate = "starting" /\ said = FALSE /\ stopped = FALSE /\ locked = FALSE /\ engine = FALSE
      /\ code = 0 /\ signal = "off" /\ watch = "none" /\ dir = "none" /\ armedFile = 0 /\ pending = {}
      /\ refused = FALSE /\ mode = "off" /\ inForce = "same" /\ messages = <<>> /\ log = <<>> /\ changes = 0
  BY DEF S!Init
<1>2. S!TypeOK
  <2>1. config \in BOOLEAN /\ plugins \in BOOLEAN /\ inode \in Nat
    BY DEF S!Init
  <2>2. file \in S!Content
    BY DEF S!Init, S!Content
  <2>3. settings \in [current : {"same", "other", "none"}, seen : {"", "bad", "worse"}]
    BY DEF S!Init
  <2>4. messages \in Seq(Message) /\ log \in Seq(Line)
    BY <1>1
  <2>5. changes \in 0..MaxChanges
    BY <1>1, IntakeAssumption
  <2> QED
    BY <1>1, <2>1, <2>2, <2>3, <2>4, <2>5 DEF S!TypeOK, Message, Line
<1>3. HoldsWhatIsOpen
  BY <1>1 DEF HoldsWhatIsOpen
<1>4. \A m : ~Waits(m) /\ ~S!Had(m)
  BY <1>1 DEF Waits, S!Had
<1>5. OneSaysIt
  BY <1>1, <1>4 DEF OneSaysIt, WrittenOnce
<1>6. GateIsPassedOnce
  BY <1>1, <1>4 DEF GateIsPassedOnce
<1>7. StopIsSaid
  BY <1>1, <1>4 DEF StopIsSaid, Arming, Closing
<1>8. WatchesWhatItSays /\ FreshOrTold
  BY <1>1, <1>4 DEF WatchesWhatItSays, FreshOrTold, Closing
<1> QED
  BY <1>2, <1>3, <1>5, <1>6, <1>7, <1>8 DEF ServiceInv, LogInv, FreshInv

\* The strengthening is inductive.
LEMMA ServiceStep == ServiceInv /\ [S!Next]_ofService => ServiceInv'
  BY ServiceTypeStep, ReleaseStep, SaysStep, GateStep, StopStep, WatchesStep, FreshStep
     DEF ServiceInv, LogInv, FreshInv

\* What it says of the service.
LEMMA ServiceIsSafe == ServiceInv => S!LogIsTrue /\ S!OptionsAreFresh /\ S!LockIsReleasedLast
<1> SUFFICES ASSUME ServiceInv PROVE S!LogIsTrue /\ S!OptionsAreFresh /\ S!LockIsReleasedLast
  OBVIOUS
<1>1. S!LockIsReleasedLast
  BY DEF ServiceInv, HoldsWhatIsOpen, S!LockIsReleasedLast, S!Here
<1>2. S!OptionsAreFresh
  <2> SUFFICES ASSUME at = "serve", messages = <<>>, pending = {}, watch = "open"
               PROVE  /\ mode = "parent" => ~plugins
                      /\ mode = "plugins" /\ ~refused => inForce = S!OptionsOf(file)
    BY DEF S!OptionsAreFresh, S!Here
  <2>1. ~Told
    BY DEF Told, Waits
  <2> QED
    BY <2>1 DEF ServiceInv, FreshInv, FreshOrTold, Closing
<1>3. S!StoppingIsSaidOnce
  <2>1. OneSaysIt /\ GateIsPassedOnce /\ StopIsSaid
    BY DEF ServiceInv, LogInv
  <2>2. \A i, j \in DOMAIN log : log[i] = "stopping" /\ log[j] = "stopping" => i = j
    BY <2>1 DEF OneSaysIt, WrittenOnce
  <2>3. S!Had("stopping") => Head(log) = "started"
    BY <2>1 DEF OneSaysIt, GateIsPassedOnce
  <2>4. at = "exited" /\ S!Had("started") =>
          S!Had("stopping") \/ (watch = "closed" /\ code = 1 /\ signal = "line")
    BY <2>1 DEF OneSaysIt, GateIsPassedOnce, StopIsSaid, Closing
  <2> QED
    BY <2>2, <2>3, <2>4 DEF S!StoppingIsSaidOnce, S!Here
<1> QED
  BY <1>1, <1>2, <1>3 DEF ServiceInv, S!LogIsTrue

\* The process around the engine, for any number of changes of the options
\* file: its log is true, what it runs on is what the file says, and its lock
\* goes last (service.rs, ending.rs).
THEOREM ServiceKeepsItsWord == S!Spec => [](S!LogIsTrue /\ S!OptionsAreFresh /\ S!LockIsReleasedLast)
<1>1. ServiceInv /\ [S!Next]_(S!vars) => ServiceInv'
  BY ServiceStep DEF S!vars, S!process, S!watches, S!options, S!disk, ofService
<1> QED
  BY <1>1, ServiceStart, ServiceIsSafe, PTL DEF S!Spec

\* It holds beside the event stream.
LEMMA ServiceInvariant == FairSpec => []ServiceInv
<1>1. Init => ServiceInv
  BY ServiceStart DEF Init
<1>2. ServiceInv /\ [Next]_vars => ServiceInv'
  BY ServiceStep DEF Next, vars, InStream, InService
<1> QED
  BY <1>1, <1>2, PTL DEF FairSpec

\* `stopping` is said once, of a service that said `started`, and left out only
\* by a watch that dies with the line in the hand of the signal thread (Said,
\* StartGate, end).
THEOREM LogIsTrueHolds == FairSpec => []LogIsTrue
<1>1. ServiceInv => LogIsTrue
  BY ServiceIsSafe DEF LogIsTrue
<1> QED
  BY <1>1, ServiceInvariant, PTL

\* No change of the options file falls between a look, an arming and a read
\* (watch_plugins, adopt).
THEOREM OptionsAreFreshHolds == FairSpec => []OptionsAreFresh
<1>1. ServiceInv => OptionsAreFresh
  BY ServiceIsSafe DEF OptionsAreFresh
<1> QED
  BY <1>1, ServiceInvariant, PTL

\* No path ends with the lock, and none lets go of it before the watch and the
\* engine (end, fail, leave).
THEOREM LockIsReleasedLastHolds == FairSpec => []LockIsReleasedLast
<1>1. ServiceInv => LockIsReleasedLast
  BY ServiceIsSafe DEF LockIsReleasedLast
<1> QED
  BY <1>1, ServiceInvariant, PTL

-----------------------------------------------------------------------------
(* The event stream *)

\* A switch that nobody left there is of a follower that was counted in: one that
\* is still on its way to the switch has not made it (start_with).
SwitchIsCounted == switch /\ ~left => follows \notin {"off", "arm", "switch"}

LEMMA SwitchStep == SwitchIsCounted /\ E!Next => SwitchIsCounted'
<1> SUFFICES ASSUME SwitchIsCounted, E!Next PROVE SwitchIsCounted'
  OBVIOUS
<1> USE DEF SwitchIsCounted, E!stream, E!hooks, E!follower, E!watch, E!history, E!LetGo, E!SwitchOut
<1>1. ASSUME NEW h \in Hook, E!HookStep(h) PROVE SwitchIsCounted'
  BY <1>1 DEF E!HookStep, E!HookStarts, E!HookSize, E!HookMoves, E!HookOpens, E!HookWrites
<1>2. CASE E!WatchThread \/ E!Empty \/ E!GraceElapses \/ E!PumpFails \/ E!EndGraceFails \/ E!RenameFails
  BY <1>2 DEF E!WatchThread, E!Empty, E!GraceElapses, E!PumpFails, E!EndGraceFails, E!RenameFails
<1>3. CASE E!Arm \/ E!SwitchOn
  BY <1>3 DEF E!Arm, E!SwitchOn
<1>4. CASE E!EndGrace \/ E!Wake \/ E!Pump \/ E!NamesFile \/ E!Reopen \/ E!Rearm \/ E!Rename \/ E!Fresh
  BY <1>4 DEF E!EndGrace, E!Wake, E!Pump, E!NamesFile, E!Reopen, E!Rearm, E!Rename, E!Fresh
<1>5. CASE E!StartOpens
  BY <1>5 DEF E!StartOpens
<1>9. CASE E!Kill
  BY <1>9, Zenon DEF E!Kill
<1>6. CASE E!StartFails
  <2>1. CASE UNCHANGED <<switch, left>>
    BY <1>6, <2>1 DEF E!StartFails
  <2>2. CASE switch' = TRUE /\ left' = TRUE
    BY <2>2
  <2> QED
    BY <1>6, <2>1, <2>2 DEF E!StartFails
<1>7. CASE E!Die \/ E!Close
  BY <1>7 DEF E!Die, E!Close
<1>8. CASE E!ArmMissing
  BY <1>6, <1>7, <1>8 DEF E!ArmMissing
<1> QED
  BY <1>1, <1>2, <1>3, <1>4, <1>5, <1>6, <1>7, <1>8, <1>9 DEF E!Next, E!FollowerStep

\* The switch is there only while a follower follows, unless it was left there:
\* by a service that was killed, by a removal that failed, or by a start that
\* failed after it had made it (switch_in, switch_out, set_events_on).
THEOREM SwitchIsOfAFollowerHolds == FairSpec => []SwitchIsOfAFollower
<1>1. Init => SwitchIsCounted
  BY DEF Init, E!Init, SwitchIsCounted
<1>2. SwitchIsCounted /\ [Next]_vars => SwitchIsCounted'
  <2>1. CASE UNCHANGED ofStream
    BY <2>1 DEF ofStream, SwitchIsCounted
  <2> QED
    BY <2>1, SwitchStep DEF Next, vars, InStream, InService
<1>3. SwitchIsCounted => SwitchIsOfAFollower
  BY DEF SwitchIsCounted, SwitchIsOfAFollower, E!SwitchIsOfAFollower, E!Follows
<1> QED
  BY <1>1, <1>2, <1>3, PTL DEF FairSpec

-----------------------------------------------------------------------------
(* What is read is read once: the strengthening *)

\* Files are made one after the other: the path names the last one or none, the
\* follower goes forward, and its grace is for an earlier one.
FilesInOrder ==
  /\ path \in {0, made}
  /\ cur.file <= made
  /\ old.file # 0 => old.file < cur.file
  /\ follows \in {"reopen", "fresh"} => path # cur.file
  /\ \A f \in E!File : f > made => content[f] = <<>>
  /\ \A h \in Hook : hook[h] \in {"first", "second"} => fd[h] # 0

\* A line has ended in one place.
LinesEndOnce ==
  /\ \A f \in E!File : \A i \in 1..Len(content[f]) : \A h \in Hook :
       content[f][i] = <<h, 2>> => hook[h] = "done"
  /\ \A f, g \in E!File : \A i \in 1..Len(content[f]), j \in 1..Len(content[g]) : \A h \in Hook :
       content[f][i] = <<h, 2>> /\ content[g][j] = <<h, 2>> => f = g /\ i = j

\* What a cursor keeps from one read to the next has not ended.
RestsAreHeads == \A c \in {cur, old} : \A i \in 1..Len(c.rest) : c.rest[i][2] = 1

\* A cursor on a file has read this place of it.
Past(c, f, i) == c.file = f => i <= c.offset /\ c.offset <= Len(content[f])

\* No cursor will come to this place again.
Behind(f, i) == cur.file # 0 => f <= cur.file /\ Past(cur, f, i) /\ Past(old, f, i)

ReadIsBehind ==
  \A h \in Hook : delivered[h] > 0 =>
    /\ delivered[h] = 1 /\ hook[h] = "done"
    /\ \A f \in E!File : \A i \in 1..Len(content[f]) : content[f][i] = <<h, 2>> => Behind(f, i)

StreamInv == E!TypeOK /\ FilesInOrder /\ LinesEndOnce /\ RestsAreHeads /\ ReadIsBehind

-----------------------------------------------------------------------------
(* What is read is read once: the steps *)

\* What a read of a cursor on a file sees: what it kept, then the file from
\* where it goes on.
LEMMA NewIsRestAndTail ==
  ASSUME E!StreamAssumption, E!TypeOK, NEW c \in E!Cursor, c.file # 0
  PROVE  LET s == E!New(c)
             t == content[c.file]
             o == E!From(c).offset
             k == Len(E!From(c).rest)
         IN /\ s \in Seq(E!Half) /\ t \in Seq(E!Half)
            /\ E!From(c).rest \in Seq(E!Half) /\ E!From(c).rest \in {c.rest, <<>>}
            /\ k \in Nat /\ o \in 0..Len(t) /\ Len(s) = k + (Len(t) - o)
            /\ c.offset <= Len(t) => o = c.offset
            /\ \A i \in 1..k : s[i] = E!From(c).rest[i]
            /\ \A i \in k + 1..Len(s) : s[i] = t[o + (i - k)]
<1> DEFINE t == content[c.file]
           o == E!From(c).offset
           r == E!From(c).rest
<1>1. t \in Seq(E!Half)
  BY DEF E!TypeOK, E!StreamAssumption, E!Cursor, E!File
<1>2. /\ r \in Seq(E!Half) /\ r \in {c.rest, <<>>}
      /\ o \in 0..Len(t)
      /\ c.offset <= Len(t) => o = c.offset
  <2>1. CASE Len(t) < c.offset
    BY <1>1, <2>1 DEF E!From, E!Cursor
  <2>2. CASE ~(Len(t) < c.offset)
    BY <1>1, <2>2 DEF E!From, E!Cursor
  <2> QED
    BY <2>1, <2>2
<1>3. E!New(c) = r \o SubSeq(t, o + 1, Len(t))
  BY DEF E!New
<1> HIDE DEF t, o, r
<1>4. /\ SubSeq(t, o + 1, Len(t)) \in Seq(E!Half)
      /\ Len(SubSeq(t, o + 1, Len(t))) = Len(t) - o
      /\ \A i \in 1..(Len(t) - o) : SubSeq(t, o + 1, Len(t))[i] = t[o + i]
  <2>1. Len(t) \in Nat /\ o \in Nat /\ o <= Len(t)
    BY <1>1, <1>2
  <2>2. \A i \in o + 1..Len(t) : t[i] \in E!Half
    BY <1>1, <2>1
  <2>3. /\ SubSeq(t, o + 1, Len(t)) \in Seq(E!Half)
        /\ Len(SubSeq(t, o + 1, Len(t))) = IF o + 1 <= Len(t) THEN Len(t) - (o + 1) + 1 ELSE 0
        /\ \A i \in 1..Len(t) - (o + 1) + 1 : SubSeq(t, o + 1, Len(t))[i] = t[o + 1 + i - 1]
    BY <2>1, <2>2, SubSeqProperties
  <2>4. Len(SubSeq(t, o + 1, Len(t))) = Len(t) - o
    BY <2>1, <2>3
  <2>5. ASSUME NEW i \in 1..(Len(t) - o) PROVE SubSeq(t, o + 1, Len(t))[i] = t[o + i]
    <3>1. i \in 1..Len(t) - (o + 1) + 1 /\ o + 1 + i - 1 = o + i
      BY <2>1
    <3> QED
      BY <2>3, <3>1
  <2> QED
    BY <2>3, <2>4, <2>5
<1> DEFINE u == SubSeq(t, o + 1, Len(t))
<1>5. u \in Seq(E!Half) /\ Len(u) = Len(t) - o /\ \A i \in 1..(Len(t) - o) : u[i] = t[o + i]
  BY <1>4
<1> HIDE DEF u
<1>6. /\ r \o u \in Seq(E!Half) /\ Len(r \o u) = Len(r) + Len(u) /\ Len(r) \in Nat
      /\ \A i \in 1..Len(r) : (r \o u)[i] = r[i]
      /\ \A i \in Len(r) + 1..Len(r \o u) : (r \o u)[i] = u[i - Len(r)]
  <2>1. /\ r \o u \in Seq(E!Half) /\ Len(r \o u) = Len(r) + Len(u)
        /\ \A i \in 1..Len(r) + Len(u) :
             (r \o u)[i] = IF i <= Len(r) THEN r[i] ELSE u[i - Len(r)]
    <3>1. r \in Seq(E!Half) /\ u \in Seq(E!Half)
      BY <1>2, <1>5
    <3> QED
      BY <3>1, ConcatProperties, Zenon
  <2>2. Len(r) \in Nat /\ Len(u) \in Nat
    BY <1>2, <1>5
  <2> QED
    BY <2>1, <2>2
<1>7. \A i \in Len(r) + 1..Len(r \o u) : (r \o u)[i] = t[o + (i - Len(r))]
  BY <1>1, <1>2, <1>5, <1>6
<1>8. E!New(c) = r \o u
  BY <1>3 DEF u
<1>9. /\ r \o u \in Seq(E!Half) /\ t \in Seq(E!Half)
      /\ r \in Seq(E!Half) /\ r \in {c.rest, <<>>}
      /\ Len(r) \in Nat /\ o \in 0..Len(t) /\ Len(r \o u) = Len(r) + (Len(t) - o)
      /\ c.offset <= Len(t) => o = c.offset
      /\ \A i \in 1..Len(r) : (r \o u)[i] = r[i]
      /\ \A i \in Len(r) + 1..Len(r \o u) : (r \o u)[i] = t[o + (i - Len(r))]
  BY <1>1, <1>2, <1>5, <1>6, <1>7
<1> QED
  BY <1>8, <1>9 DEF t, o, r

\* A line that ends in at most one place of what is read is counted once or
\* not at all.
LEMMA TimesOfOne ==
  ASSUME NEW s \in Seq(E!Half), NEW h \in Hook,
         \A i, j \in 1..Len(s) : s[i] = <<h, 2>> /\ s[j] = <<h, 2>> => i = j
  PROVE  /\ E!Times(s, h) \in {0, 1}
         /\ E!Times(s, h) = 1 => \E i \in 1..Len(s) : s[i] = <<h, 2>>
<1> DEFINE ends == {i \in 2..Len(s) : s[i] = <<h, 2>> /\ s[i - 1] = <<h, 1>>}
<1>1. E!Times(s, h) = E!Cardinality(ends)
  BY DEF E!Times
<1> HIDE DEF ends
<1>2. E!Cardinality(ends) = Cardinality(ends)
  BY Zenon DEF E!Cardinality, Cardinality
<1>3. CASE ends = {}
  BY <1>1, <1>2, <1>3, FS_EmptySet
<1>4. CASE ends # {}
  <2> PICK i \in ends : TRUE
    BY <1>4
  <2>1. i \in 1..Len(s) /\ s[i] = <<h, 2>>
    BY DEF ends
  <2>2. \A j \in ends : j = i
    <3> TAKE j \in ends
    <3>1. j \in 1..Len(s) /\ s[j] = <<h, 2>>
      BY DEF ends
    <3> QED
      BY <2>1, <3>1
  <2>3. ends = {i}
    BY <2>2
  <2>4. Cardinality(ends) = 1
    BY <2>3, FS_Singleton
  <2> QED
    BY <1>1, <1>2, <2>1, <2>4
<1> QED
  BY <1>3, <1>4

\* A cursor reads a line that has ended once, and none that was read before.
LEMMA ReadsWhatIsNew ==
  ASSUME E!StreamAssumption, StreamInv, NEW c \in {cur, old}, c.file # 0, NEW h \in Hook
  PROVE  /\ E!Times(E!New(c), h) \in {0, 1}
         /\ E!Times(E!New(c), h) = 1 =>
              /\ delivered[h] = 0 /\ hook[h] = "done"
              /\ \A f \in E!File : \A i \in 1..Len(content[f]) :
                   content[f][i] = <<h, 2>> => f = c.file
<1> DEFINE s == E!New(c)
           t == content[c.file]
           o == E!From(c).offset
           r == E!From(c).rest
<1>1. c \in E!Cursor /\ c.file \in E!File /\ cur.file # 0
  BY DEF StreamInv, E!TypeOK, E!Cursor, E!File, E!StreamAssumption, E!Follows
<1>2. /\ s \in Seq(E!Half) /\ t \in Seq(E!Half)
      /\ r \in Seq(E!Half) /\ r \in {c.rest, <<>>}
      /\ Len(r) \in Nat /\ o \in 0..Len(t) /\ Len(s) = Len(r) + (Len(t) - o)
      /\ c.offset <= Len(t) => o = c.offset
      /\ \A i \in 1..Len(r) : s[i] = r[i]
      /\ \A i \in Len(r) + 1..Len(s) : s[i] = t[o + (i - Len(r))]
  BY <1>1, NewIsRestAndTail DEF StreamInv
<1> HIDE DEF s, t, o, r
<1>3. \A i \in 1..Len(r) : r[i][2] = 1
  BY <1>2 DEF StreamInv, RestsAreHeads
<1>4. ASSUME NEW i \in 1..Len(s), s[i] = <<h, 2>>
      PROVE  /\ i > Len(r) /\ o + (i - Len(r)) \in 1..Len(t) /\ o + (i - Len(r)) > o
             /\ t[o + (i - Len(r))] = <<h, 2>>
  <2>1. i \notin 1..Len(r)
    BY <1>2, <1>3, <1>4
  <2>2. i \in Nat /\ i > Len(r) /\ i <= Len(r) + (Len(t) - o) /\ Len(t) \in Nat /\ o \in Nat
    BY <1>2, <2>1
  <2>3. o + (i - Len(r)) \in 1..Len(t) /\ o + (i - Len(r)) > o
    BY <1>2, <2>2
  <2>4. t[o + (i - Len(r))] = <<h, 2>>
    BY <1>2, <1>4, <2>2
  <2> QED
    BY <2>2, <2>3, <2>4
<1>5. \A p, q \in 1..Len(t) : t[p] = <<h, 2>> /\ t[q] = <<h, 2>> => p = q
  BY <1>1 DEF StreamInv, LinesEndOnce, t
<1>6. \A i, j \in 1..Len(s) : s[i] = <<h, 2>> /\ s[j] = <<h, 2>> => i = j
  <2> TAKE i, j \in 1..Len(s)
  <2> HAVE s[i] = <<h, 2>> /\ s[j] = <<h, 2>>
  <2>1. o + (i - Len(r)) = o + (j - Len(r))
    BY <1>4, <1>5
  <2> QED
    BY <1>2, <2>1
<1>7. /\ E!Times(s, h) \in {0, 1}
      /\ E!Times(s, h) = 1 => \E i \in 1..Len(s) : s[i] = <<h, 2>>
  BY <1>2, <1>6, TimesOfOne
<1>8. ASSUME NEW i \in 1..Len(s), s[i] = <<h, 2>>
      PROVE  /\ delivered[h] = 0 /\ hook[h] = "done"
             /\ \A f \in E!File : \A j \in 1..Len(content[f]) :
                  content[f][j] = <<h, 2>> => f = c.file
  <2> DEFINE p == o + (i - Len(r))
  <2>1. p \in 1..Len(t) /\ p > o /\ t[p] = <<h, 2>>
    BY <1>4, <1>8
  <2> HIDE DEF p
  <2>2. hook[h] = "done"
    BY <1>1, <2>1 DEF StreamInv, LinesEndOnce, t
  <2>3. \A f \in E!File : \A j \in 1..Len(content[f]) :
          content[f][j] = <<h, 2>> => f = c.file
    <3> TAKE f \in E!File
    <3> TAKE j \in 1..Len(content[f])
    <3> HAVE content[f][j] = <<h, 2>>
    <3>1. p \in 1..Len(content[c.file]) /\ content[c.file][p] = <<h, 2>>
      BY <2>1 DEF t
    <3> QED
      BY <1>1, <3>1 DEF StreamInv, LinesEndOnce
  <2>4. ~(p <= c.offset /\ c.offset <= Len(t))
    BY <1>2, <2>1
  <2>5. ~Past(c, c.file, p)
    BY <2>4 DEF Past, t
  <2>6. ~Behind(c.file, p)
    BY <1>1, <2>5 DEF Behind
  <2>7. ~(delivered[h] > 0)
    BY <1>1, <2>1, <2>6 DEF StreamInv, ReadIsBehind, t
  <2>8. delivered[h] = 0
    BY <2>7 DEF StreamInv, E!TypeOK
  <2> QED
    BY <2>2, <2>3, <2>8
<1> QED
  BY <1>7, <1>8 DEF s

LEMMA StreamStart == E!StreamAssumption /\ E!Init => StreamInv
<1> SUFFICES ASSUME E!StreamAssumption, E!Init PROVE StreamInv
  OBVIOUS
<1>1. /\ cur = E!NoCursor /\ old = E!NoCursor
      /\ E!NoCursor \in E!Cursor /\ E!NoCursor.rest = <<>> /\ E!NoCursor.file = 0
  BY DEF E!Init, E!NoCursor, E!Cursor, E!StreamAssumption
<1>2. \A f \in E!File : content[f] = <<>>
  BY DEF E!Init
<1>3. E!TypeOK
  <2>1. MaxFiles \in Nat /\ <<>> \in Seq(E!Half)
    BY DEF E!StreamAssumption
  <2>2. /\ content \in [E!File -> Seq(E!Half)] /\ path \in 0..made /\ made \in 0..MaxFiles
        /\ hook \in [Hook -> {"off", "size", "mv", "open", "first", "second", "done"}]
        /\ fd \in [Hook -> 0..made] /\ armed \in 0..made
        /\ delivered \in [Hook -> Nat] /\ excused \subseteq Hook
    BY <2>1 DEF E!Init
  <2>3. \A c \in {cur, old} : Len(c.rest) <= 1
    BY <1>1
  <2> QED
    BY <1>1, <2>2, <2>3 DEF E!Init, E!TypeOK, E!Follows
<1>4. FilesInOrder
  BY <1>1, <1>2 DEF E!Init, FilesInOrder
<1>5. LinesEndOnce /\ RestsAreHeads /\ ReadIsBehind
  BY <1>1, <1>2 DEF E!Init, LinesEndOnce, RestsAreHeads, ReadIsBehind
<1> QED
  BY <1>3, <1>4, <1>5 DEF StreamInv

\* A file that is opened is the last one: the one at the path or a new one.
LEMMA OpensTheLast ==
  ASSUME E!StreamAssumption, StreamInv, NEW f \in E!File, E!OpenPath(f)
  PROVE  /\ f \in Nat \ {0} /\ f = path' /\ f = made' /\ made <= made'
         /\ made' \in 0..MaxFiles /\ path' \in 0..made' /\ entries' \in BOOLEAN
         /\ \A g \in E!File : g > made' => content[g] = <<>>
         /\ path = 0 => f > made
<1>1. f \in Nat \ {0} /\ MaxFiles \in Nat /\ made \in 0..MaxFiles /\ path \in {0, made} /\ entries \in BOOLEAN
  BY DEF E!StreamAssumption, E!File, StreamInv, E!TypeOK, FilesInOrder
<1>2. \A g \in E!File : g \in Nat /\ (g > made => content[g] = <<>>)
  BY DEF StreamInv, FilesInOrder, E!File
<1>3. CASE path # 0
  <2>1. f = path /\ path' = path /\ made' = made /\ entries' = entries
    BY <1>3 DEF E!OpenPath
  <2>2. entries' \in BOOLEAN
    BY <1>1, <2>1
  <2>3. \A g \in E!File : g > made' => content[g] = <<>>
    BY <1>2, <2>1
  <2>4. /\ f \in Nat \ {0} /\ f = path' /\ f = made' /\ made <= made'
        /\ made' \in 0..MaxFiles /\ path' \in 0..made'
    BY <1>1, <1>3, <2>1
  <2> QED
    BY <1>3, <2>2, <2>3, <2>4
<1>4. CASE path = 0
  BY <1>1, <1>2, <1>4 DEF E!OpenPath
<1> QED
  BY <1>3, <1>4

\* Nobody writes and nobody reads: what was read stays behind the cursors.
LEMMA ReadStaysBehind ==
  ASSUME StreamInv, UNCHANGED <<content, delivered>>,
         \A h \in Hook : hook[h] = "done" => hook'[h] = "done",
         cur' \in {cur, E!NoCursor} /\ old' \in {old, E!NoCursor}
  PROVE  LinesEndOnce' /\ RestsAreHeads' /\ ReadIsBehind'
<1>1. E!NoCursor.rest = <<>> /\ E!NoCursor.file = 0
  BY DEF E!NoCursor
<1>2. LinesEndOnce'
  BY DEF StreamInv, LinesEndOnce
<1>3. RestsAreHeads'
  BY <1>1 DEF StreamInv, RestsAreHeads
<1>4. ASSUME NEW f \in E!File, NEW i, Behind(f, i) PROVE Behind(f, i)'
  <2>1. f # 0
    BY DEF E!File
  <2>2. ASSUME NEW c, NEW d \in {c, E!NoCursor}, Past(c, f, i) PROVE d.file = f => i <= d.offset /\ d.offset <= Len(content'[f])
    BY <1>1, <2>1, <2>2 DEF Past
  <2>3. CASE cur' = cur
    BY <1>4, <2>2, <2>3 DEF Behind, Past
  <2>4. CASE cur' = E!NoCursor
    BY <1>1, <2>4 DEF Behind
  <2> QED
    BY <2>3, <2>4
<1>5. ReadIsBehind'
  BY <1>4 DEF StreamInv, ReadIsBehind
<1> QED
  BY <1>2, <1>3, <1>5

LEMMA PumpedIsTyped ==
  ASSUME E!StreamAssumption, E!TypeOK, NEW c \in E!Cursor, c.file # 0
  PROVE  /\ E!Pumped(c) \in E!Cursor /\ E!Pumped(c).file = c.file
         /\ E!Pumped(c).offset = Len(content[c.file])
         /\ Len(E!Pumped(c).rest) <= 1
         /\ \A i \in 1..Len(E!Pumped(c).rest) : E!Pumped(c).rest[i][2] = 1
<1> DEFINE s == E!New(c)
<1>1. s \in Seq(E!Half) /\ content[c.file] \in Seq(E!Half) /\ c.file \in 0..MaxFiles
  BY NewIsRestAndTail DEF E!Cursor
<1> HIDE DEF s
<1>2. /\ E!Rest(s) \in Seq(E!Half) /\ Len(E!Rest(s)) <= 1
      /\ \A i \in 1..Len(E!Rest(s)) : E!Rest(s)[i][2] = 1
  <2>1. CASE s # <<>> /\ s[Len(s)][2] = 1
    <3>1. s[Len(s)] \in E!Half /\ s[Len(s)][2] = 1
      BY <1>1, <2>1
    <3>2. E!Rest(s) = <<s[Len(s)]>>
      BY <2>1 DEF E!Rest
    <3> QED
      BY <3>1, <3>2
  <2>2. CASE ~(s # <<>> /\ s[Len(s)][2] = 1)
    <3>1. E!Rest(s) = <<>>
      BY <2>2 DEF E!Rest
    <3> QED
      BY <3>1
  <2> QED
    BY <2>1, <2>2
<1>3. E!Pumped(c) = [file |-> c.file, offset |-> Len(content[c.file]), rest |-> E!Rest(s)]
  BY DEF E!Pumped, s
<1>4. Len(content[c.file]) \in Nat
  BY <1>1
<1> QED
  BY <1>1, <1>2, <1>3, <1>4 DEF E!Cursor

\* What the engine was given is counted.
LEMMA DeliverIsTyped ==
  ASSUME E!StreamAssumption, StreamInv, NEW c \in {cur, old}, c.file # 0, E!Deliver(E!New(c))
  PROVE  delivered' \in [Hook -> Nat]
<1>1. \A h \in Hook : E!Times(E!New(c), h) \in {0, 1}
  BY ReadsWhatIsNew
<1>2. delivered \in [Hook -> Nat]
  BY DEF StreamInv, E!TypeOK
<1> QED
  BY <1>1, <1>2 DEF E!Deliver

LEMMA HookStepIsTyped ==
  ASSUME E!StreamAssumption, StreamInv, NEW h \in Hook, E!HookStep(h)
  PROVE  E!TypeOK'
<1> USE DEF E!stream, E!hooks, E!follower, E!watch, E!history, E!Follows
<1>1. E!TypeOK /\ MaxFiles \in Nat
  BY DEF StreamInv, E!StreamAssumption
<1>2. CASE E!HookStarts(h)
  BY <1>1, <1>2 DEF E!TypeOK, E!HookStarts
<1>3. CASE E!HookSize(h)
  BY <1>1, <1>3 DEF E!TypeOK, E!HookSize
<1>4. CASE E!HookMoves(h)
  BY <1>1, <1>4 DEF E!TypeOK, E!HookMoves, E!Touch
<1>5. CASE E!HookOpens(h)
  <2> PICK f \in E!File : E!OpenPath(f) /\ fd' = [fd EXCEPT ![h] = f]
    BY <1>5 DEF E!HookOpens
  <2>1. /\ f = made' /\ made <= made' /\ made' \in 0..MaxFiles /\ path' \in 0..made'
        /\ entries' \in BOOLEAN /\ made \in Nat
    BY <1>1, OpensTheLast DEF E!TypeOK
  <2>2. fd' \in [Hook -> 0..made'] /\ armed' \in 0..made'
    BY <1>1, <1>5, <2>1 DEF E!TypeOK, E!HookOpens
  <2> QED
    BY <1>1, <1>5, <2>1, <2>2 DEF E!TypeOK, E!HookOpens
<1>6. CASE E!HookWrites(h)
  <2>1. fd[h] \in E!File /\ (h \in Hook)
    BY <1>1, <1>6 DEF E!TypeOK, E!HookWrites, StreamInv, FilesInOrder, E!File
  <2>2. content' \in [E!File -> Seq(E!Half)]
    <3>1. \A p \in {1, 2} : <<h, p>> \in E!Half
      BY DEF E!Half
    <3> PICK p \in {1, 2} : content' = [content EXCEPT ![fd[h]] = Append(content[fd[h]], <<h, p>>)]
      BY <1>6 DEF E!HookWrites
    <3>2. content \in [E!File -> Seq(E!Half)]
      BY <1>1 DEF E!TypeOK
    <3>3. Append(content[fd[h]], <<h, p>>) \in Seq(E!Half)
      <4>1. content[fd[h]] \in Seq(E!Half) /\ <<h, p>> \in E!Half
        BY <2>1, <3>1, <3>2
      <4> QED
        BY <4>1
    <3> QED
      BY <3>2, <3>3
  <2> QED
    BY <1>1, <1>6, <2>2 DEF E!TypeOK, E!HookWrites, E!Touch
<1> QED
  BY <1>2, <1>3, <1>4, <1>5, <1>6 DEF E!HookStep

LEMMA FollowerStepIsTyped ==
  ASSUME E!StreamAssumption, StreamInv, E!FollowerStep
  PROVE  E!TypeOK'
<1> USE DEF E!stream, E!hooks, E!follower, E!watch, E!history, E!Follows
<1>1. /\ E!TypeOK /\ MaxFiles \in Nat /\ cur \in E!Cursor /\ old \in E!Cursor /\ made \in Nat
      /\ E!NoCursor \in E!Cursor /\ Len(E!NoCursor.rest) <= 1 /\ E!NoCursor.file = 0
  BY DEF StreamInv, E!StreamAssumption, E!TypeOK, E!NoCursor, E!Cursor
<1>2. CASE E!Arm \/ E!SwitchOn \/ E!Wake \/ E!NamesFile \/ E!Rearm \/ E!Rename
  <2>1. CASE E!Arm
    BY <1>1, <2>1 DEF E!TypeOK, E!Arm
  <2>2. CASE E!SwitchOn
    <3> PICK f \in E!File : E!OpenPath(f)
      BY <2>2 DEF E!SwitchOn
    <3>1. made <= made' /\ made' \in 0..MaxFiles /\ path' \in 0..made' /\ entries' \in BOOLEAN
      BY OpensTheLast
    <3>2. fd' \in [Hook -> 0..made'] /\ armed' \in 0..made'
      BY <1>1, <2>2, <3>1 DEF E!TypeOK, E!SwitchOn
    <3> QED
      BY <1>1, <2>2, <3>1, <3>2 DEF E!TypeOK, E!SwitchOn
  <2>3. CASE E!Wake
    BY <1>1, <2>3 DEF E!TypeOK, E!Wake
  <2>4. CASE E!NamesFile
    <3>1. follows' \in {"reopen", "rename", "idle"} /\ follows = "names"
      BY <2>4 DEF E!NamesFile
    <3> QED
      BY <1>1, <2>4, <3>1 DEF E!TypeOK, E!NamesFile
  <2>5. CASE E!Rearm
    BY <1>1, <2>5 DEF E!TypeOK, E!Rearm
  <2>6. CASE E!Rename
    <3>1. path' \in 0..made /\ entries' \in BOOLEAN /\ wake' \in BOOLEAN
      <4>1. CASE path = 0
        BY <1>1, <2>6, <4>1 DEF E!TypeOK, E!Rename
      <4>2. CASE path # 0
        BY <1>1, <2>6, <4>2 DEF E!TypeOK, E!Rename, E!Touch
      <4> QED
        BY <4>1, <4>2
    <3>2. follows' \in {"idle", "fresh"} /\ follows = "rename"
      BY <2>6 DEF E!Rename
    <3> QED
      BY <1>1, <2>6, <3>1, <3>2 DEF E!TypeOK, E!Rename
  <2> QED
    BY <1>2, <2>1, <2>2, <2>3, <2>4, <2>5, <2>6
<1>3. CASE E!EndGrace
  <2>1. delivered' \in [Hook -> Nat]
    BY <1>3, DeliverIsTyped DEF E!EndGrace
  <2> QED
    BY <1>1, <1>3, <2>1 DEF E!TypeOK, E!EndGrace
<1>4. CASE E!Pump
  <2>1. cur.file # 0
    BY <1>1, <1>4 DEF E!TypeOK, E!Pump
  <2>2. delivered' \in [Hook -> Nat]
    BY <1>4, <2>1, DeliverIsTyped DEF E!Pump
  <2>3. cur' \in E!Cursor /\ cur'.file = cur.file /\ Len(cur'.rest) <= 1
    BY <1>1, <1>4, <2>1, PumpedIsTyped DEF E!Pump
  <2> QED
    BY <1>1, <1>4, <2>1, <2>2, <2>3 DEF E!TypeOK, E!Pump
<1>5. CASE E!Reopen \/ E!Fresh
  <2> PICK f \in E!File : E!OpenPath(f) /\ cur' = [E!NoCursor EXCEPT !.file = f]
    BY <1>5 DEF E!Reopen, E!Fresh
  <2>1. /\ f = made' /\ made <= made' /\ made' \in 0..MaxFiles /\ path' \in 0..made'
        /\ entries' \in BOOLEAN /\ f # 0 /\ f = path' /\ (path = 0 => f > made)
    BY OpensTheLast
  <2>2. cur' \in E!Cursor /\ cur'.file = f /\ Len(cur'.rest) <= 1
    BY <1>1, <2>1 DEF E!NoCursor, E!Cursor
  <2>3. f > cur.file
    BY <1>1, <1>5, <2>1 DEF StreamInv, FilesInOrder, E!Reopen, E!Fresh, E!OpenPath,
       E!TypeOK, E!Cursor
  <2>4. fd' \in [Hook -> 0..made'] /\ armed' \in 0..made'
    BY <1>1, <1>5, <2>1 DEF E!TypeOK, E!Reopen, E!Fresh
  <2>5. CASE E!Reopen
    <3>1. old'.file # 0 => old'.file # cur'.file
      BY <1>1, <2>2, <2>3, <2>5 DEF E!Reopen, StreamInv, FilesInOrder, E!Cursor
    <3> QED
      BY <1>1, <2>1, <2>2, <2>4, <2>5, <3>1 DEF E!TypeOK, E!Reopen
  <2>6. CASE E!Fresh
    <3>1. old' = cur /\ old'.file # cur'.file /\ follows = "fresh" /\ follows' = "rearm"
      BY <1>1, <2>2, <2>3, <2>6 DEF E!Fresh, E!Cursor
    <3> QED
      BY <1>1, <2>1, <2>2, <2>4, <2>6, <3>1 DEF E!TypeOK, E!Fresh
  <2> QED
    BY <1>5, <2>5, <2>6
<1>6. CASE E!ArmMissing
  BY <1>1, <1>6 DEF E!TypeOK, E!ArmMissing, E!StartFails, E!Die, E!SwitchOut, E!LetGo, E!Undelivered
<1> QED
  BY <1>2, <1>3, <1>4, <1>5, <1>6 DEF E!FollowerStep

LEMMA StreamIsTyped == E!StreamAssumption /\ StreamInv /\ E!Next => E!TypeOK'
<1> SUFFICES ASSUME E!StreamAssumption, StreamInv, E!Next PROVE E!TypeOK'
  OBVIOUS
<1> USE DEF E!stream, E!hooks, E!follower, E!watch, E!history, E!Follows
<1>1. /\ E!TypeOK /\ MaxFiles \in Nat
      /\ E!NoCursor \in E!Cursor /\ Len(E!NoCursor.rest) <= 1 /\ E!NoCursor.file = 0
  BY DEF StreamInv, E!StreamAssumption, E!NoCursor, E!Cursor
<1>2. ASSUME NEW h \in Hook, E!HookStep(h) PROVE E!TypeOK'
  BY <1>2, HookStepIsTyped
<1>3. CASE E!FollowerStep
  BY <1>3, FollowerStepIsTyped
<1>4. CASE E!StartOpens
  <2> PICK f \in E!File :
        /\ E!OpenPath(f)
        /\ cur' = [file |-> f, offset |-> Len(content[f]), rest |-> <<>>]
        /\ excused' = excused \cup {content[f][i][1] : i \in 1..Len(content[f])}
    BY <1>4 DEF E!StartOpens
  <2>1. /\ f \in 0..MaxFiles /\ f # 0
        /\ made <= made' /\ made' \in 0..MaxFiles /\ path' \in 0..made' /\ entries' \in BOOLEAN
    BY OpensTheLast DEF E!File
  <2>2. content[f] \in Seq(E!Half)
    BY <1>1 DEF E!TypeOK
  <2>3. cur' \in E!Cursor /\ cur'.file # 0 /\ Len(cur'.rest) <= 1
    BY <2>1, <2>2 DEF E!Cursor
  <2>4. excused' \subseteq Hook
    <3>1. \A i \in 1..Len(content[f]) : content[f][i][1] \in Hook
      BY <2>2 DEF E!Half
    <3> QED
      BY <1>1, <3>1 DEF E!TypeOK
  <2>5. fd' \in [Hook -> 0..made'] /\ armed' \in 0..made'
    BY <1>1, <1>4, <2>1 DEF E!TypeOK, E!StartOpens
  <2>6. old.file = 0
    BY <1>1, <1>4 DEF E!TypeOK, E!StartOpens
  <2> QED
    BY <1>1, <1>4, <2>1, <2>3, <2>4, <2>5, <2>6 DEF E!TypeOK, E!StartOpens
<1>5. CASE E!WatchThread \/ E!PumpFails \/ E!EndGraceFails \/ E!RenameFails \/ E!GraceElapses
  <2>1. CASE E!WatchThread
    BY <1>1, <2>1 DEF E!TypeOK, E!WatchThread
  <2>2. CASE E!PumpFails
    BY <1>1, <2>2 DEF E!TypeOK, E!PumpFails
  <2>3. CASE E!GraceElapses
    BY <1>1, <2>3 DEF E!TypeOK, E!GraceElapses
  <2>4. CASE E!EndGraceFails \/ E!RenameFails
    BY <1>1, <2>4 DEF E!TypeOK, E!EndGraceFails, E!RenameFails
  <2> QED
    BY <1>5, <2>1, <2>2, <2>3, <2>4
<1>6. CASE E!StartFails \/ E!Die \/ E!Close \/ E!Kill
  <2>1. excused' \subseteq Hook /\ E!LetGo
    BY <1>1, <1>6 DEF E!TypeOK, E!StartFails, E!Die, E!Close, E!Kill, E!LetGo, E!Undelivered
  <2>2. UNCHANGED <<content, path, made, hook, fd, entries, delivered>> /\ disturbed' = disturbed
    BY <1>6 DEF E!StartFails, E!Die, E!Close, E!Kill
  <2>3. switch' \in BOOLEAN /\ left' \in BOOLEAN
    BY <1>1, <1>6 DEF E!TypeOK, E!StartFails, E!Die, E!Close, E!Kill, E!SwitchOut
  <2>4. /\ cur' = E!NoCursor /\ old' = E!NoCursor /\ follows' = "off" /\ graceOver' = FALSE
        /\ armed' = 0 /\ wake' = FALSE
    BY <2>1 DEF E!LetGo
  <2>5. fd' \in [Hook -> 0..made'] /\ armed' \in 0..made'
    BY <1>1, <2>2, <2>4 DEF E!TypeOK
  <2> QED
    BY <1>1, <2>1, <2>2, <2>3, <2>4, <2>5 DEF E!TypeOK
<1>7. CASE E!Empty
  <2>1. content' \in [E!File -> Seq(E!Half)]
    <3>1. content' = [content EXCEPT ![path] = <<>>] /\ <<>> \in Seq(E!Half)
      BY <1>7 DEF E!Empty
    <3> QED
      BY <1>1, <3>1 DEF E!TypeOK
  <2>2. wake' \in BOOLEAN
    BY <1>1, <1>7 DEF E!TypeOK, E!Empty, E!Touch
  <2> QED
    BY <1>1, <1>7, <2>1, <2>2 DEF E!TypeOK, E!Empty
<1> QED
  BY <1>2, <1>3, <1>4, <1>5, <1>6, <1>7 DEF E!Next

LEMMA OrderStep == E!StreamAssumption /\ StreamInv /\ E!TypeOK' /\ E!Next => FilesInOrder'
<1> SUFFICES ASSUME E!StreamAssumption, StreamInv, E!TypeOK', E!Next PROVE FilesInOrder'
  OBVIOUS
<1> USE DEF E!stream, E!hooks, E!follower, E!watch, E!history
<1>1. /\ E!TypeOK /\ FilesInOrder /\ MaxFiles \in Nat /\ made \in Nat
      /\ cur.file \in Nat /\ old.file \in Nat /\ E!File \subseteq Nat \ {0} /\ E!NoCursor.file = 0
  <2>1. MaxFiles \in Nat
    BY DEF E!StreamAssumption
  <2>2. cur \in E!Cursor /\ old \in E!Cursor /\ made \in Nat
    BY <2>1 DEF StreamInv, E!TypeOK
  <2>3. cur.file \in Nat /\ old.file \in Nat /\ E!File \subseteq Nat \ {0}
    BY <2>1, <2>2 DEF E!Cursor, E!File
  <2> QED
    BY <2>1, <2>2, <2>3 DEF StreamInv, E!NoCursor
<1>2. ASSUME NEW h \in Hook, E!HookStep(h) PROVE FilesInOrder'
  <2>1. CASE E!HookStarts(h) \/ E!HookSize(h)
    BY <1>1, <2>1 DEF FilesInOrder, E!HookStarts, E!HookSize, E!TypeOK
  <2>2. CASE E!HookMoves(h)
    <3>1. follows \in {"reopen", "fresh"} => path' # cur.file
      BY <1>1, <2>2 DEF E!HookMoves, E!TypeOK, E!Follows
    <3>2. \A g \in Hook : hook'[g] \in {"first", "second"} => fd'[g] # 0
      BY <1>1, <2>2 DEF E!HookMoves, E!TypeOK, FilesInOrder
    <3> QED
      BY <1>1, <2>2, <3>1, <3>2 DEF FilesInOrder, E!HookMoves
  <2>3. CASE E!HookOpens(h)
    <3> PICK f \in E!File : E!OpenPath(f) /\ fd' = [fd EXCEPT ![h] = f]
      BY <2>3 DEF E!HookOpens
    <3>1. /\ f = path' /\ f = made' /\ made <= made' /\ made' \in Nat
          /\ \A g \in E!File : g > made' => content[g] = <<>>
          /\ path = 0 => f > made
      BY OpensTheLast
    <3>2. \A g \in Hook : hook'[g] \in {"first", "second"} => fd'[g] # 0
      BY <1>1, <2>3 DEF E!HookOpens, E!TypeOK, FilesInOrder
    <3>3. follows \in {"reopen", "fresh"} => path' # cur.file
      BY <1>1, <3>1 DEF FilesInOrder, E!OpenPath
    <3> QED
      BY <1>1, <2>3, <3>1, <3>2, <3>3 DEF FilesInOrder, E!HookOpens
  <2>4. CASE E!HookWrites(h)
    <3>1. fd[h] <= made
      BY <1>1 DEF E!TypeOK
    <3>2. \A g \in E!File : g > made => content'[g] = content[g]
      BY <1>1, <2>4, <3>1 DEF E!HookWrites, E!TypeOK
    <3>3. \A g \in Hook : hook'[g] \in {"first", "second"} => fd'[g] # 0
      BY <1>1, <2>4 DEF E!HookWrites, E!TypeOK, FilesInOrder
    <3> QED
      BY <1>1, <2>4, <3>2, <3>3 DEF FilesInOrder, E!HookWrites
  <2> QED
    BY <1>2, <2>1, <2>2, <2>3, <2>4 DEF E!HookStep
<1>3. CASE \/ E!Arm \/ E!Wake \/ E!Rearm \/ E!WatchThread \/ E!PumpFails \/ E!RenameFails
           \/ E!GraceElapses
  BY <1>1, <1>3 DEF FilesInOrder, E!Arm, E!Wake, E!Rearm, E!WatchThread, E!PumpFails,
     E!RenameFails, E!GraceElapses
<1>12. CASE E!SwitchOn
  <2> PICK f \in E!File : E!OpenPath(f)
    BY <1>12 DEF E!SwitchOn
  <2>1. /\ f = path' /\ f = made' /\ made <= made' /\ made' \in Nat
        /\ \A g \in E!File : g > made' => content[g] = <<>>
    BY OpensTheLast
  <2>2. follows' = "pump" /\ UNCHANGED <<content, hook, fd, cur, old>>
    BY <1>12 DEF E!SwitchOn
  <2> QED
    BY <1>1, <2>1, <2>2 DEF FilesInOrder
<1>4. CASE E!NamesFile
  BY <1>1, <1>4 DEF FilesInOrder, E!NamesFile
<1>5. CASE E!EndGrace \/ E!EndGraceFails
  BY <1>1, <1>5 DEF FilesInOrder, E!EndGrace, E!EndGraceFails
<1>6. CASE E!Pump
  <2>1. cur'.file = cur.file
    BY <1>6 DEF E!Pump, E!Pumped
  <2> QED
    BY <1>1, <1>6, <2>1 DEF FilesInOrder, E!Pump
<1>7. CASE E!Rename
  <2>1. path' \in {0, made} /\ (follows' = "fresh" => path' = 0) /\ follows' \in {"idle", "fresh"}
    BY <1>1, <1>7 DEF FilesInOrder, E!Rename
  <2>2. cur.file # 0
    BY <1>1, <1>7 DEF E!Rename, E!TypeOK, E!Follows
  <2> QED
    BY <1>1, <1>7, <2>1, <2>2 DEF FilesInOrder, E!Rename
<1>8. CASE E!Reopen \/ E!Fresh
  <2> PICK f \in E!File : E!OpenPath(f) /\ cur' = [E!NoCursor EXCEPT !.file = f]
    BY <1>8 DEF E!Reopen, E!Fresh
  <2>1. /\ f = path' /\ f = made' /\ made <= made' /\ made' \in Nat
        /\ \A g \in E!File : g > made' => content[g] = <<>>
        /\ path = 0 => f > made
    BY OpensTheLast
  <2>2. cur'.file = f
    BY DEF E!NoCursor
  <2>3. f > cur.file
    BY <1>1, <1>8, <2>1 DEF FilesInOrder, E!Reopen, E!Fresh, E!OpenPath
  <2>4. /\ follows' = "rearm" /\ old'.file \in {old.file, cur.file}
        /\ UNCHANGED <<content, hook, fd>>
    BY <1>8 DEF E!Reopen, E!Fresh
  <2> QED
    BY <1>1, <2>1, <2>2, <2>3, <2>4 DEF FilesInOrder
<1>9. CASE E!StartOpens
  <2> PICK f \in E!File :
        /\ E!OpenPath(f)
        /\ cur' = [file |-> f, offset |-> Len(content[f]), rest |-> <<>>]
    BY <1>9 DEF E!StartOpens
  <2>1. /\ f = path' /\ f = made' /\ made <= made' /\ made' \in Nat
        /\ \A g \in E!File : g > made' => content[g] = <<>>
    BY OpensTheLast
  <2>2. old.file = 0 /\ cur'.file = f
    BY <1>1, <1>9 DEF E!StartOpens, E!TypeOK, E!Follows
  <2> QED
    BY <1>1, <1>9, <2>1, <2>2 DEF FilesInOrder, E!StartOpens
<1>10. CASE E!StartFails \/ E!Die \/ E!Close \/ E!Kill
  <2>1. UNCHANGED <<content, path, made, hook, fd>> /\ E!LetGo
    BY <1>10 DEF E!StartFails, E!Die, E!Close, E!Kill
  <2> QED
    BY <1>1, <2>1 DEF FilesInOrder, E!LetGo
<1>11. CASE E!Empty
  <2>1. \A g \in E!File : content'[g] \in {content[g], <<>>}
    BY <1>1, <1>11 DEF E!Empty, E!TypeOK
  <2> QED
    BY <1>1, <1>11, <2>1 DEF FilesInOrder, E!Empty
<1> QED
  BY <1>2, <1>3, <1>4, <1>5, <1>6, <1>7, <1>8, <1>9, <1>10, <1>11, <1>12
  DEF E!Next, E!FollowerStep, E!ArmMissing

\* The end of a line goes behind whatever was written, and nobody has read it.
LEMMA WriteKeeps ==
  ASSUME E!StreamAssumption, StreamInv, NEW w \in Hook, E!HookWrites(w)
  PROVE  LinesEndOnce' /\ RestsAreHeads' /\ ReadIsBehind'
<1> USE DEF E!follower
<1> DEFINE f == fd[w]
           n == Len(content[f])
<1>1. /\ f \in E!File /\ content \in [E!File -> Seq(E!Half)] /\ DOMAIN hook = Hook
      /\ hook[w] \in {"first", "second"} /\ delivered \in [Hook -> Nat]
      /\ UNCHANGED <<cur, old, delivered>>
  <2>1. hook[w] \in {"first", "second"} /\ UNCHANGED <<cur, old, delivered>>
    BY DEF E!HookWrites
  <2>2. /\ content \in [E!File -> Seq(E!Half)] /\ delivered \in [Hook -> Nat]
        /\ fd[w] \in 0..made /\ made \in 0..MaxFiles
        /\ hook \in [Hook -> {"off", "size", "mv", "open", "first", "second", "done"}]
    BY DEF StreamInv, E!TypeOK
  <2>3. fd[w] # 0 /\ MaxFiles \in Nat
    BY <2>1 DEF StreamInv, FilesInOrder, E!StreamAssumption
  <2>4. fd[w] \in E!File
    BY <2>2, <2>3 DEF E!File
  <2> QED
    BY <2>1, <2>2, <2>4
<1>2. PICK p \in {1, 2} : /\ content' = [content EXCEPT ![f] = Append(content[f], <<w, p>>)]
                          /\ hook' = [hook EXCEPT ![w] = IF p = 1 THEN "second" ELSE "done"]
  BY DEF E!HookWrites
<1>3. n \in Nat /\ content[f] \in Seq(E!Half)
  BY <1>1
<1>4. /\ Len(content'[f]) = n + 1 /\ content'[f][n + 1] = <<w, p>>
      /\ \A i \in 1..n : content'[f][i] = content[f][i]
      /\ \A g \in E!File : g # f => content'[g] = content[g]
  BY <1>1, <1>2, <1>3
<1> HIDE DEF f, n
<1>5. \A g \in E!File : \A i \in 1..Len(content'[g]) :
        \/ i \in 1..Len(content[g]) /\ content'[g][i] = content[g][i]
        \/ g = f /\ i = n + 1 /\ content'[g][i] = <<w, p>>
  <2> TAKE g \in E!File
  <2> TAKE i \in 1..Len(content'[g])
  <2>1. CASE g # f
    BY <1>4, <2>1
  <2>2. CASE g = f
    <3>1. i \in 1..n \/ i = n + 1
      BY <1>3, <1>4, <2>2
    <3> QED
      BY <1>4, <2>2, <3>1 DEF n
  <2> QED
    BY <2>1, <2>2
<1>6. \A h \in Hook : /\ hook[h] = "done" => hook'[h] = "done"
                      /\ p = 2 => hook'[w] = "done"
  BY <1>1, <1>2
<1>7. LinesEndOnce'
  <2>1. hook[w] # "done"
    BY <1>1
  <2>2. ASSUME NEW g \in E!File, NEW i \in 1..Len(content'[g]), NEW h \in Hook,
               content'[g][i] = <<h, 2>>
        PROVE  /\ hook'[h] = "done"
               /\ h # w => i \in 1..Len(content[g]) /\ content[g][i] = <<h, 2>>
               /\ h = w => g = f /\ i = n + 1
    <3>1. CASE i \in 1..Len(content[g]) /\ content'[g][i] = content[g][i]
      BY <1>6, <2>1, <2>2, <3>1 DEF StreamInv, LinesEndOnce
    <3>2. CASE g = f /\ i = n + 1 /\ content'[g][i] = <<w, p>>
      BY <1>6, <2>2, <3>2
    <3> QED
      BY <1>5, <3>1, <3>2
  <2>3. ASSUME NEW g \in E!File, NEW k \in E!File,
               NEW i \in 1..Len(content'[g]), NEW j \in 1..Len(content'[k]), NEW h \in Hook,
               content'[g][i] = <<h, 2>>, content'[k][j] = <<h, 2>>
        PROVE  g = k /\ i = j
    <3>1. CASE h = w
      BY <2>2, <2>3, <3>1
    <3>2. CASE h # w
      <4>1. /\ i \in 1..Len(content[g]) /\ content[g][i] = <<h, 2>>
            /\ j \in 1..Len(content[k]) /\ content[k][j] = <<h, 2>>
        BY <2>2, <2>3, <3>2
      <4> QED
        BY <4>1 DEF StreamInv, LinesEndOnce
    <3> QED
      BY <3>1, <3>2
  <2> QED
    BY <2>2, <2>3 DEF LinesEndOnce
<1>8. RestsAreHeads'
  BY <1>1 DEF StreamInv, RestsAreHeads
<1>9. ReadIsBehind'
  <2>1. \A g \in E!File : Len(content[g]) \in Nat /\ Len(content'[g]) \in Nat
                          /\ Len(content[g]) <= Len(content'[g])
    BY <1>1, <1>3, <1>4 DEF n
  <2>2. cur.file # 0 => cur.file \in E!File /\ cur.offset \in Nat
    BY DEF StreamInv, E!TypeOK, E!Cursor, E!File
  <2>3. old.file # 0 => old.file \in E!File /\ old.offset \in Nat
    BY DEF StreamInv, E!TypeOK, E!Cursor, E!File
  <2>4. ASSUME NEW g \in E!File, NEW i, Behind(g, i) PROVE Behind(g, i)'
    <3>1. ASSUME cur.file # 0 PROVE Past(cur, g, i)'
      BY <1>1, <2>1, <2>2, <2>4, <3>1 DEF Behind, Past
    <3>2. ASSUME cur.file # 0 PROVE Past(old, g, i)'
      BY <1>1, <2>1, <2>3, <2>4, <3>2 DEF Behind, Past, E!File
    <3> QED
      BY <1>1, <2>4, <3>1, <3>2 DEF Behind
  <2>5. ASSUME NEW h \in Hook, delivered'[h] > 0
        PROVE  /\ delivered'[h] = 1 /\ hook'[h] = "done"
               /\ \A g \in E!File : \A i \in 1..Len(content'[g]) :
                    content'[g][i] = <<h, 2>> => Behind(g, i)'
    <3>1. delivered[h] = 1 /\ hook[h] = "done" /\ h # w
      BY <1>1, <2>5 DEF StreamInv, ReadIsBehind
    <3>2. ASSUME NEW g \in E!File, NEW i \in 1..Len(content'[g]), content'[g][i] = <<h, 2>>
          PROVE  Behind(g, i)'
      <4>1. i \in 1..Len(content[g]) /\ content[g][i] = <<h, 2>>
        BY <1>5, <3>1, <3>2
      <4> QED
        BY <1>1, <2>4, <2>5, <4>1 DEF StreamInv, ReadIsBehind
    <3> QED
      BY <1>1, <1>6, <3>1, <3>2
  <2> QED
    BY <2>5 DEF ReadIsBehind
<1> QED
  BY <1>7, <1>8, <1>9

\* A read gives the engine what is new, and the cursor goes behind it or goes.
LEMMA ReadKeeps ==
  ASSUME E!StreamAssumption, StreamInv, NEW c \in {cur, old}, c.file # 0, E!Deliver(E!New(c)),
         UNCHANGED <<content, hook>>,
         \/ c = cur /\ cur' = E!Pumped(cur) /\ old' = old
         \/ c = old /\ cur' = cur /\ old' = E!NoCursor
  PROVE  LinesEndOnce' /\ RestsAreHeads' /\ ReadIsBehind'
<1>1. /\ c \in E!Cursor /\ cur \in E!Cursor /\ cur.file # 0
      /\ content \in [E!File -> Seq(E!Half)] /\ delivered \in [Hook -> Nat]
      /\ old.file # 0 => old.file < cur.file
      /\ E!NoCursor.rest = <<>> /\ E!NoCursor.file = 0
  BY DEF StreamInv, E!TypeOK, FilesInOrder, E!Follows, E!NoCursor
<1>2. LinesEndOnce'
  BY DEF StreamInv, LinesEndOnce
<1>3. cur' = E!Pumped(cur) =>
        /\ cur'.file = cur.file /\ cur'.offset = Len(content[cur.file])
        /\ \A i \in 1..Len(cur'.rest) : cur'.rest[i][2] = 1
  BY <1>1, PumpedIsTyped DEF StreamInv
<1>4. RestsAreHeads'
  BY <1>1, <1>3 DEF StreamInv, RestsAreHeads
<1>5. \A f \in E!File : Len(content[f]) \in Nat /\ f \in Nat \ {0}
  BY <1>1 DEF E!File, E!StreamAssumption
<1>6. \A f \in E!File : \A i \in 1..Len(content[f]) : Behind(f, i) => Behind(f, i)'
  <2> TAKE f \in E!File
  <2> TAKE i \in 1..Len(content[f])
  <2> HAVE Behind(f, i)
  <2>1. CASE c = cur /\ cur' = E!Pumped(cur) /\ old' = old
    BY <1>1, <1>3, <1>5, <2>1 DEF Behind, Past
  <2>2. CASE c = old /\ cur' = cur /\ old' = E!NoCursor
    BY <1>1, <1>5, <2>2 DEF Behind, Past
  <2> QED
    BY <2>1, <2>2
<1>7. \A i \in 1..Len(content[c.file]) : c.file \in E!File => Behind(c.file, i)'
  <2> TAKE i \in 1..Len(content[c.file])
  <2> HAVE c.file \in E!File
  <2>1. CASE c = cur /\ cur' = E!Pumped(cur) /\ old' = old
    BY <1>1, <1>3, <1>5, <2>1 DEF Behind, Past, E!Cursor
  <2>2. CASE c = old /\ cur' = cur /\ old' = E!NoCursor
    BY <1>1, <1>5, <2>2 DEF Behind, Past, E!Cursor
  <2> QED
    BY <2>1, <2>2
<1>8. ASSUME NEW h \in Hook, delivered'[h] > 0
      PROVE  /\ delivered'[h] = 1 /\ hook'[h] = "done"
             /\ \A f \in E!File : \A i \in 1..Len(content[f]) :
                  content[f][i] = <<h, 2>> => Behind(f, i)'
  <2> DEFINE t == E!Times(E!New(c), h)
  <2>1. /\ t \in {0, 1}
        /\ t = 1 => /\ delivered[h] = 0 /\ hook[h] = "done"
                    /\ \A f \in E!File : \A i \in 1..Len(content[f]) :
                         content[f][i] = <<h, 2>> => f = c.file
    BY ReadsWhatIsNew
  <2>2. delivered'[h] = delivered[h] + t /\ delivered[h] \in Nat
    BY <1>1 DEF E!Deliver
  <2> HIDE DEF t
  <2>3. CASE t = 0
    <3>1. delivered[h] > 0 /\ delivered'[h] = delivered[h]
      BY <1>8, <2>2, <2>3
    <3>2. /\ delivered[h] = 1 /\ hook[h] = "done"
          /\ \A f \in E!File : \A i \in 1..Len(content[f]) :
               content[f][i] = <<h, 2>> => Behind(f, i)
      BY <3>1 DEF StreamInv, ReadIsBehind
    <3> QED
      BY <1>6, <3>1, <3>2
  <2>4. CASE t = 1
    <3>1. delivered'[h] = 1 /\ hook'[h] = "done"
      BY <2>1, <2>2, <2>4
    <3> QED
      BY <1>7, <2>1, <2>4, <3>1
  <2> QED
    BY <2>1, <2>3, <2>4
<1>9. ReadIsBehind'
  BY <1>8 DEF ReadIsBehind
<1> QED
  BY <1>2, <1>4, <1>9

\* A cursor on the last file starts behind what was read: of an older file it
\* sees nothing, of this one what is new.
LEMMA OpenKeeps ==
  ASSUME E!StreamAssumption, StreamInv, NEW f \in E!File, E!OpenPath(f),
         f > cur.file, UNCHANGED <<content, hook, delivered>>,
         cur'.file = f, cur'.rest = <<>>, old' \in {old, cur}, cur.file # 0
  PROVE  LinesEndOnce' /\ RestsAreHeads' /\ ReadIsBehind'
<1>1. /\ f = made' /\ \A g \in E!File : g \in Nat /\ (g > made' => content[g] = <<>>)
      /\ \A g \in E!File : g <= f \/ content[g] = <<>>
  BY OpensTheLast DEF E!File
<1>2. LinesEndOnce'
  BY DEF StreamInv, LinesEndOnce
<1>3. RestsAreHeads'
  BY <1>1 DEF StreamInv, RestsAreHeads
<1>4. cur.file \in Nat /\ f \in Nat /\ \A g \in E!File : g \in Nat
  BY DEF StreamInv, E!TypeOK, E!Cursor, E!File, E!StreamAssumption
<1>5. \A g \in E!File : \A i \in 1..Len(content[g]) : Behind(g, i) => Behind(g, i)'
  <2> TAKE g \in E!File
  <2> TAKE i \in 1..Len(content[g])
  <2> HAVE Behind(g, i)
  <2>1. g <= cur.file /\ Past(cur, g, i) /\ Past(old, g, i)
    BY DEF Behind
  <2>2. g <= f /\ g # f
    BY <1>4, <2>1
  <2> QED
    BY <1>1, <2>1, <2>2 DEF Behind, Past
<1>6. ReadIsBehind'
  BY <1>5 DEF StreamInv, ReadIsBehind
<1> QED
  BY <1>2, <1>3, <1>6

\* A follower starts at the end of the last file.
LEMMA StartKeeps ==
  ASSUME E!StreamAssumption, StreamInv, E!StartOpens
  PROVE  LinesEndOnce' /\ RestsAreHeads' /\ ReadIsBehind'
<1> PICK f \in E!File :
      /\ E!OpenPath(f)
      /\ cur' = [file |-> f, offset |-> Len(content[f]), rest |-> <<>>]
  BY DEF E!StartOpens
<1>1. UNCHANGED <<content, hook, old, delivered>> /\ follows = "off"
  BY DEF E!StartOpens, E!hooks
<1>2. old.file = 0 /\ content \in [E!File -> Seq(E!Half)] /\ \A g \in E!File : g \in Nat \ {0}
  BY <1>1 DEF StreamInv, E!TypeOK, E!Follows, E!File, E!StreamAssumption
<1>3. \A g \in E!File : g <= f \/ content[g] = <<>>
  BY <1>2, OpensTheLast
<1>4. LinesEndOnce'
  BY <1>1 DEF StreamInv, LinesEndOnce
<1>5. RestsAreHeads'
  <2>1. \A i \in 1..Len(cur'.rest) : cur'.rest[i][2] = 1
    OBVIOUS
  <2> QED
    BY <1>1, <2>1 DEF StreamInv, RestsAreHeads
<1>6. \A g \in E!File : \A i \in 1..Len(content[g]) : Behind(g, i)'
  <2> TAKE g \in E!File
  <2> TAKE i \in 1..Len(content[g])
  <2>1. g <= f
    BY <1>3
  <2>2. Past(cur, g, i)'
    BY <1>1, <1>2 DEF Past
  <2>3. Past(old, g, i)'
    BY <1>1, <1>2 DEF Past
  <2> QED
    BY <2>1, <2>2, <2>3 DEF Behind
<1>7. ReadIsBehind'
  BY <1>1, <1>6 DEF StreamInv, ReadIsBehind
<1> QED
  BY <1>4, <1>5, <1>7

\* An emptied file has nothing to read again.
LEMMA EmptyKeeps ==
  ASSUME E!StreamAssumption, StreamInv, E!Empty
  PROVE  LinesEndOnce' /\ RestsAreHeads' /\ ReadIsBehind'
<1>1. /\ content' = [content EXCEPT ![path] = <<>>]
      /\ UNCHANGED <<hook, cur, old, delivered>>
  BY DEF E!Empty, E!hooks, E!follower
<1>2. content \in [E!File -> Seq(E!Half)]
  BY DEF StreamInv, E!TypeOK
<1>3. \A g \in E!File : content'[g] = content[g] \/ content'[g] = <<>>
  BY <1>1, <1>2
<1>4. \A g \in E!File : \A i \in 1..Len(content'[g]) : content'[g] = content[g]
  BY <1>3
<1>5. LinesEndOnce'
  <2>1. \A g \in E!File : \A i \in 1..Len(content'[g]) :
          i \in 1..Len(content[g]) /\ content'[g][i] = content[g][i]
    BY <1>4
  <2>2. \A g \in E!File : \A i \in 1..Len(content'[g]) : \A h \in Hook :
          content'[g][i] = <<h, 2>> => hook'[h] = "done"
    BY <1>1, <2>1 DEF StreamInv, LinesEndOnce
  <2>3. ASSUME NEW f \in E!File, NEW g \in E!File,
               NEW i \in 1..Len(content'[f]), NEW j \in 1..Len(content'[g]), NEW h \in Hook,
               content'[f][i] = <<h, 2>>, content'[g][j] = <<h, 2>>
        PROVE  f = g /\ i = j
    <3>1. /\ i \in 1..Len(content[f]) /\ content[f][i] = <<h, 2>>
          /\ j \in 1..Len(content[g]) /\ content[g][j] = <<h, 2>>
      BY <2>1, <2>3
    <3> QED
      BY <3>1 DEF StreamInv, LinesEndOnce
  <2> QED
    BY <2>2, <2>3 DEF LinesEndOnce
<1>6. RestsAreHeads'
  BY <1>1 DEF StreamInv, RestsAreHeads
<1>7. \A g \in E!File : \A i \in 1..Len(content'[g]) : Behind(g, i) => Behind(g, i)'
  BY <1>1, <1>4 DEF Behind, Past
<1>8. ReadIsBehind'
  BY <1>1, <1>4, <1>7 DEF StreamInv, ReadIsBehind
<1> QED
  BY <1>5, <1>6, <1>8

LEMMA StreamStep == E!StreamAssumption /\ StreamInv /\ E!Next => StreamInv'
<1> SUFFICES ASSUME E!StreamAssumption, StreamInv, E!Next PROVE StreamInv'
  OBVIOUS
<1>1. E!TypeOK' /\ FilesInOrder'
  BY StreamIsTyped, OrderStep
<1> SUFFICES LinesEndOnce' /\ RestsAreHeads' /\ ReadIsBehind'
  BY <1>1 DEF StreamInv
<1> USE DEF E!stream, E!hooks, E!follower
<1>2. cur.file # 0 <=> follows # "off"
  BY DEF StreamInv, E!TypeOK, E!Follows
<1>3. ASSUME NEW h \in Hook, E!HookStep(h) PROVE LinesEndOnce' /\ RestsAreHeads' /\ ReadIsBehind'
  <2>1. CASE E!HookWrites(h)
    BY <2>1, WriteKeeps
  <2>2. CASE E!HookStarts(h) \/ E!HookSize(h) \/ E!HookMoves(h) \/ E!HookOpens(h)
    <3>1. UNCHANGED <<content, delivered, cur, old>>
      BY <2>2 DEF E!HookStarts, E!HookSize, E!HookMoves, E!HookOpens
    <3>2. \A g \in Hook : hook[g] = "done" => hook'[g] = "done"
      BY <2>2 DEF E!HookStarts, E!HookSize, E!HookMoves, E!HookOpens, StreamInv, E!TypeOK
    <3> QED
      BY <3>1, <3>2, ReadStaysBehind
  <2> QED
    BY <1>3, <2>1, <2>2 DEF E!HookStep
<1>4. CASE \/ E!Arm \/ E!SwitchOn \/ E!Wake \/ E!NamesFile \/ E!Rearm \/ E!Rename
           \/ E!WatchThread \/ E!PumpFails \/ E!EndGraceFails \/ E!RenameFails \/ E!GraceElapses
  <2>1. UNCHANGED <<content, delivered, hook, cur>> /\ old' \in {old, E!NoCursor}
    BY <1>4 DEF E!Arm, E!SwitchOn, E!Wake, E!NamesFile, E!Rearm, E!Rename, E!WatchThread,
       E!PumpFails, E!EndGraceFails, E!RenameFails, E!GraceElapses
  <2> QED
    BY <2>1, ReadStaysBehind
<1>5. CASE E!ArmMissing \/ E!StartFails \/ E!Die \/ E!Close \/ E!Kill
  <2>1. /\ UNCHANGED <<content, delivered, hook>>
        /\ cur' = E!NoCursor /\ old' = E!NoCursor
    BY <1>5 DEF E!ArmMissing, E!StartFails, E!Die, E!Close, E!Kill, E!LetGo
  <2> QED
    BY <2>1, ReadStaysBehind
<1>6. CASE E!EndGrace
  <2>1. /\ old.file # 0 /\ E!Deliver(E!New(old)) /\ UNCHANGED <<content, hook>>
        /\ cur' = cur /\ old' = E!NoCursor
    BY <1>6 DEF E!EndGrace
  <2> QED
    BY <2>1, ReadKeeps
<1>7. CASE E!Pump
  <2>1. /\ cur.file # 0 /\ E!Deliver(E!New(cur)) /\ UNCHANGED <<content, hook>>
        /\ cur' = E!Pumped(cur) /\ old' = old
    BY <1>2, <1>7 DEF E!Pump
  <2> QED
    BY <2>1, ReadKeeps
<1>8. CASE E!Reopen \/ E!Fresh
  <2> PICK f \in E!File : E!OpenPath(f) /\ cur' = [E!NoCursor EXCEPT !.file = f]
    BY <1>8 DEF E!Reopen, E!Fresh
  <2>1. cur'.file = f /\ cur'.rest = <<>>
    BY DEF E!NoCursor
  <2>2. UNCHANGED <<content, hook, delivered>> /\ old' \in {old, cur} /\ follows \in {"reopen", "fresh"}
    BY <1>8 DEF E!Reopen, E!Fresh
  <2>3. f > cur.file
    <3>1. /\ f = path' /\ f = made' /\ made <= made' /\ made' \in Nat /\ f \in Nat
          /\ path = 0 => f > made
      BY OpensTheLast
    <3>2. /\ path \in {0, made} /\ cur.file <= made /\ path # cur.file
          /\ cur.file \in Nat /\ made \in Nat
      BY <2>2 DEF StreamInv, FilesInOrder, E!TypeOK, E!Cursor
    <3>3. path # 0 => f = path
      BY DEF E!OpenPath
    <3> QED
      BY <3>1, <3>2, <3>3
  <2> QED
    BY <1>2, <2>1, <2>2, <2>3, OpenKeeps
<1>9. CASE E!StartOpens
  BY <1>9, StartKeeps
<1>10. CASE E!Empty
  BY <1>10, EmptyKeeps
<1> QED
  BY <1>3, <1>4, <1>5, <1>6, <1>7, <1>8, <1>9, <1>10 DEF E!Next, E!FollowerStep

LEMMA StreamUntouched == StreamInv /\ UNCHANGED ofStream => StreamInv'
<1> SUFFICES ASSUME StreamInv, UNCHANGED ofStream PROVE StreamInv'
  OBVIOUS
<1> USE DEF ofStream
<1>1. E!TypeOK'
  BY DEF StreamInv, E!TypeOK, E!Follows
<1>2. FilesInOrder'
  BY DEF StreamInv, FilesInOrder
<1>3. \A h \in Hook : hook[h] = "done" => hook'[h] = "done"
  OBVIOUS
<1>4. UNCHANGED <<content, delivered, cur, old>>
  OBVIOUS
<1> QED
  BY <1>1, <1>2, <1>3, <1>4, ReadStaysBehind DEF StreamInv

\* No event is given to the engine twice, and none before its line has ended,
\* over every rotation, replacement, emptying and new start of the follower,
\* for any number of hooks and files (pump, rotate, end_grace, start_with).
THEOREM ReadOnceHolds == FairSpec => []ReadOnce
<1> USE IntakeAssumption DEF IntakeAssumption
<1>1. Init => StreamInv
  BY StreamStart DEF Init
<1>2. StreamInv /\ [Next]_vars => StreamInv'
  <2> SUFFICES ASSUME StreamInv, [Next]_vars PROVE StreamInv'
    OBVIOUS
  <2>1. UNCHANGED ofStream \/ E!Next
    BY DEF Next, InStream, InService, vars
  <2> QED
    BY <2>1, StreamStep, StreamUntouched
<1>3. StreamInv => ReadOnce
  <2> SUFFICES ASSUME StreamInv, NEW h \in Hook
               PROVE  delivered[h] <= IF hook[h] = "done" THEN 1 ELSE 0
    BY DEF StreamInv, ReadOnce, E!ReadOnce, E!AtMostOnce
  <2>1. delivered[h] \in Nat
    BY DEF StreamInv, E!TypeOK
  <2>2. delivered[h] > 0 => delivered[h] = 1 /\ hook[h] = "done"
    BY DEF StreamInv, ReadIsBehind
  <2> QED
    BY <2>1, <2>2
<1> QED
  BY <1>1, <1>2, <1>3, PTL DEF FairSpec
=============================================================================
