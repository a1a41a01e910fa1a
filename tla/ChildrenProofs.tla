--------------------------- MODULE ChildrenProofs ---------------------------
(***************************************************************************)
(* The two supervisors of a child, for any limits, graces and drains and   *)
(* for any number of lines and chunks: no signal goes to an id that is     *)
(* free, a kill comes at its time, nothing that was written is lost, and   *)
(* the outcome of a turn is of its last result.                            *)
(***************************************************************************)
EXTENDS MCChildren, TLAPS

-----------------------------------------------------------------------------
(* What is in a queue *)

In(x, s) == \E i \in DOMAIN s : s[i] = x
Once(x, s) == \A i, j \in DOMAIN s : s[i] = x /\ s[j] = x => i = j

\* The queue has one of `what`; no line comes after one of `what`.
Has(what, s) == \E i \in DOMAIN s : s[i] \in what
NoLine(s) == \A i \in DOMAIN s : s[i] \notin T!Line
NoLineAfter(what, s) ==
  \A i, j \in DOMAIN s : s[i] \in what /\ i < j => s[j] \notin T!Line

\* Who hears the lines of a queue after `before` has heard `after` at its end.
Silent(s) == \A i \in DOMAIN s : T!Says(s[i]) = T!None
Ends(s, before, after) ==
  \/ Silent(s) /\ after = before
  \/ \E i \in DOMAIN s :
       /\ T!Says(s[i]) # T!None /\ after = T!Says(s[i])
       /\ \A j \in DOMAIN s : j > i => T!Says(s[j]) = T!None
Heard(l, before) == IF T!Says(l) # T!None THEN T!Says(l) ELSE before

-----------------------------------------------------------------------------
(* The strengthening: a call of child::run *)

\* What is in the pipes was written.
ChunksWereWritten == pipes["out"] + pipes["err"] + quota <= MaxChunks

\* Nothing is of the call before its launch.
BeforeTheLaunch ==
  step = "launch" =>
    /\ program # "reaped" /\ ~exitWaiting /\ gone = C!Off /\ reason = "none"
    /\ signalled = {} /\ asked = C!Off /\ events = <<>> /\ readers = {} /\ hands = {}

\* The program is reaped when its exit is taken, which is told once, and no
\* signal is sent later.
ReapedOnce ==
  /\ ~strayed
  /\ step = "supervise" => (gone = C!Off <=> program # "reaped")
  /\ gone # C!Off => program = "reaped" /\ "KILL" \in signalled /\ ~exitWaiting
  /\ step = "over" => gone # C!Off
  /\ step = "failed" => program = "reaped" /\ ~member /\ ~exitWaiting /\ gone = C!Off
  /\ exitWaiting => step = "supervise" /\ program # "reaped"

ExitIsToldOnce ==
  step = "supervise" =>
    /\ program = "runs" => exitWaiting
    /\ Once("exited", events)
    /\ In("exited", events) => ~exitWaiting /\ program = "zombie"
    /\ program = "zombie" /\ ~exitWaiting => In("exited", events)

\* Since the stop the deadline is what is left of the grace, then of the drain.
KeepsTheGrace ==
  /\ reason = "none" <=> asked = C!Off
  /\ step = "supervise" /\ gone = C!Off /\ reason # "none" =>
       \/ "KILL" \in signalled /\ deadline = C!Off /\ asked <= Grace
       \/ "KILL" \notin signalled /\ grace = Grace /\ deadline >= 0 /\ asked + deadline = Grace
  /\ step = "supervise" /\ gone = C!Off /\ "KILL" \in signalled => reason # "none"
  /\ step = "supervise" /\ gone # C!Off /\ reason # "none" =>
       deadline >= 0 /\ asked + deadline <= Grace + Drain

\* Who has a pipe is there.
HoldersAreThere ==
  \A p \in C!Pipe : /\ "program" \in holders[p] => program = "runs"
                    /\ "member" \in holders[p] => member

\* A reader goes on until its pipe has ended, and its end is told after that.
ReadersReadToTheEnd ==
  /\ hands \subseteq readers
  /\ step = "supervise" => \A p \in C!Pipe :
       /\ p \notin readers => pipes[p] = 0 /\ holders[p] = {}
       /\ p \notin open \/ In(p, events) => p \notin readers

\* What was written is in a pipe or a hand until the call is over, and then
\* nobody of the group is left to write.
KeepsTheOutput ==
  /\ step \in {"launch", "supervise"} => \A p \in owed : pipes[p] > 0 \/ p \in hands
  /\ step = "supervise" /\ gone # C!Off /\ member => deadline > 0
  /\ step = "over" /\ reason = "none" /\ ~late => owed = {} /\ (member => readers = {})

CallInv ==
  /\ ChunksWereWritten /\ BeforeTheLaunch /\ ReapedOnce /\ ExitIsToldOnce /\ KeepsTheGrace
  /\ HoldersAreThere /\ ReadersReadToTheEnd /\ KeepsTheOutput

-----------------------------------------------------------------------------
(* The strengthening: a turn of session prompt *)

\* The machine leaves its loop with the child reaped, and gives its outcome once.
ReapedBeforeTheEnd ==
  /\ at # "run" => phase = "Exited"
  /\ at \in {"run", "drained", "finish"} <=> outcome = T!None
  /\ ~stray

\* A result is known from when it is heard, and the timers are what is left.
TimersAreWhatIsLeft ==
  /\ age \in Nat /\ since \in Nat
  /\ phase = "Running" => payload = T!None
  /\ phase = "Resulted" => payload # T!None
  /\ payload = T!None => since = 0
  /\ timer["deadline"] # T!Off => payload = T!None /\ timer["deadline"] + age = Limit
  /\ timer["grace"] # T!Off => timer["grace"] + since = Grace

\* An end is told after everything that was read, and is of a pipe nobody has.
EndsComeLast ==
  /\ \A p \in T!Pipe :
       /\ p \notin isOpen \/ In(p, queue) => p \notin reading
       /\ p \notin reading => p \notin holds /\ p \notin heirs
  /\ "out" \notin reading => pipe = <<>> /\ hand = T!None
  /\ at = "over" => isOpen = {}
  /\ "out" \notin isOpen => NoLine(queue)
  /\ NoLineAfter({"out"}, queue)

\* Nothing is written after a line with no newline.
Cuts == {"ok/", "failed/"}
CutIsTheLast ==
  /\ NoLineAfter(Cuts, pipe) /\ (Has(Cuts, pipe) => lines = 0)
  /\ hand \in Cuts => lines = 0 /\ pipe = <<>>
  /\ NoLineAfter(Cuts, queue)
  /\ Has(Cuts, queue) => lines = 0 /\ pipe = <<>> /\ hand = T!None
  /\ pending # T!None =>
       pending \in Cuts /\ lines = 0 /\ pipe = <<>> /\ hand = T!None /\ NoLine(queue)

\* What finish would say of what the machine has heard.
Told == IF pending # T!None THEN T!Says(pending) ELSE payload

\* The last result that was written is the last one on the way.
OnTheWay == \E a : Ends(queue, Told, a) /\ Ends(pipe, Heard(hand, a), last)
LastIsOnTheWay == at \in {"run", "drained"} => OnTheWay

OutcomeIsOfWhatWasTold ==
  /\ at = "finish" /\ ~missed => last = Told
  /\ at \in {"linger", "over"} /\ ~missed =>
       (outcome \in {"ok", "killed-after-result"} <=> last = "ok")

TurnInv ==
  /\ ReapedBeforeTheEnd /\ TimersAreWhatIsLeft /\ EndsComeLast /\ CutIsTheLast
  /\ LastIsOnTheWay /\ OutcomeIsOfWhatWasTold

-----------------------------------------------------------------------------
(* Queues *)

LEMMA InAppend ==
  ASSUME NEW S, NEW s \in Seq(S), NEW e \in S, NEW x
  PROVE  /\ In(x, s) => In(x, Append(s, e))
         /\ In(x, Append(s, e)) => In(x, s) \/ x = e
         /\ In(e, Append(s, e))
<1>1. /\ Len(Append(s, e)) = Len(s) + 1
      /\ \A i \in DOMAIN s : Append(s, e)[i] = s[i]
      /\ Append(s, e)[Len(s) + 1] = e
      /\ DOMAIN s = 1..Len(s) /\ DOMAIN Append(s, e) = 1..(Len(s) + 1)
      /\ Len(s) \in Nat
  OBVIOUS
<1> QED
  BY <1>1 DEF In

LEMMA InTail ==
  ASSUME NEW S, NEW s \in Seq(S), s # <<>>, NEW x
  PROVE  /\ In(x, Tail(s)) => In(x, s)
         /\ In(x, s) => Head(s) = x \/ In(x, Tail(s))
         /\ In(Head(s), s)
<1>1. /\ Head(s) = s[1] /\ Len(s) \in Nat /\ Len(s) >= 1
      /\ DOMAIN s = 1..Len(s) /\ DOMAIN Tail(s) = 1..(Len(s) - 1)
      /\ \A i \in DOMAIN Tail(s) : Tail(s)[i] = s[i + 1]
  OBVIOUS
<1>2. ASSUME In(x, s) PROVE Head(s) = x \/ In(x, Tail(s))
  <2>1. PICK i \in DOMAIN s : s[i] = x
    BY <1>2 DEF In
  <2>2. CASE i = 1
    BY <1>1, <2>1, <2>2
  <2>3. CASE i # 1
    <3>1. i - 1 \in DOMAIN Tail(s) /\ Tail(s)[i - 1] = x
      BY <1>1, <2>1, <2>3
    <3> QED
      BY <3>1 DEF In
  <2> QED
    BY <2>2, <2>3
<1> QED
  BY <1>1, <1>2 DEF In

LEMMA OnceAppend ==
  ASSUME NEW S, NEW s \in Seq(S), NEW e \in S, NEW x, Once(x, s), e # x \/ ~In(x, s)
  PROVE  Once(x, Append(s, e))
<1>1. /\ \A i \in DOMAIN s : Append(s, e)[i] = s[i]
      /\ Append(s, e)[Len(s) + 1] = e
      /\ DOMAIN s = 1..Len(s) /\ DOMAIN Append(s, e) = 1..(Len(s) + 1)
      /\ Len(s) \in Nat
  OBVIOUS
<1> QED
  BY <1>1 DEF In, Once

LEMMA OnceTail ==
  ASSUME NEW S, NEW s \in Seq(S), s # <<>>, NEW x, Once(x, s)
  PROVE  Once(x, Tail(s)) /\ (Head(s) = x => ~In(x, Tail(s)))
<1>1. /\ Head(s) = s[1] /\ Len(s) \in Nat /\ Len(s) >= 1
      /\ DOMAIN s = 1..Len(s) /\ DOMAIN Tail(s) = 1..(Len(s) - 1)
      /\ \A i \in DOMAIN Tail(s) : Tail(s)[i] = s[i + 1]
  OBVIOUS
<1>2. \A i \in DOMAIN Tail(s) : i + 1 \in DOMAIN s
  BY <1>1
<1>3. Once(x, Tail(s))
  BY <1>1, <1>2 DEF Once
<1>4. Head(s) = x => ~In(x, Tail(s))
  <2>1. SUFFICES ASSUME Head(s) = x, NEW i \in DOMAIN Tail(s), Tail(s)[i] = x PROVE FALSE
    BY DEF In
  <2>2. 1 \in DOMAIN s /\ s[1] = x /\ i + 1 \in DOMAIN s /\ s[i + 1] = x /\ i + 1 # 1
    BY <1>1, <1>2, <2>1
  <2> QED
    BY <2>2 DEF Once
<1> QED
  BY <1>3, <1>4

LEMMA HasAppend ==
  ASSUME NEW S, NEW s \in Seq(S), NEW e \in S, NEW what
  PROVE  /\ Has(what, Append(s, e)) <=> Has(what, s) \/ e \in what
         /\ NoLine(s) /\ e \notin T!Line => NoLine(Append(s, e))
         /\ NoLineAfter(what, s) /\ (e \notin T!Line \/ ~Has(what, s))
              => NoLineAfter(what, Append(s, e))
<1>1. /\ \A i \in DOMAIN s : Append(s, e)[i] = s[i] /\ i \in DOMAIN Append(s, e)
      /\ Append(s, e)[Len(s) + 1] = e
      /\ DOMAIN s = 1..Len(s) /\ DOMAIN Append(s, e) = 1..(Len(s) + 1)
      /\ Len(s) \in Nat
  OBVIOUS
<1>2. \A i \in DOMAIN Append(s, e) : i \in DOMAIN s \/ i = Len(s) + 1
  BY <1>1
<1>3. Len(s) + 1 \in DOMAIN Append(s, e)
  BY <1>1
<1>4. Has(what, Append(s, e)) <=> Has(what, s) \/ e \in what
  BY <1>1, <1>2, <1>3 DEF Has
<1>5. NoLine(s) /\ e \notin T!Line => NoLine(Append(s, e))
  BY <1>1, <1>2 DEF NoLine
<1>6. ASSUME NoLineAfter(what, s), e \notin T!Line \/ ~Has(what, s)
      PROVE  NoLineAfter(what, Append(s, e))
  <2> SUFFICES ASSUME NEW i \in DOMAIN Append(s, e), NEW j \in DOMAIN Append(s, e),
                      Append(s, e)[i] \in what, i < j
               PROVE  Append(s, e)[j] \notin T!Line
    BY DEF NoLineAfter
  <2>1. i \in DOMAIN s /\ s[i] \in what
    BY <1>1, <1>2
  <2>2. CASE j \in DOMAIN s
    BY <1>1, <1>6, <2>1, <2>2 DEF NoLineAfter
  <2>3. CASE j = Len(s) + 1
    BY <1>1, <1>6, <2>1, <2>3 DEF Has
  <2> QED
    BY <1>2, <2>2, <2>3
<1> QED
  BY <1>4, <1>5, <1>6

LEMMA HasTail ==
  ASSUME NEW S, NEW s \in Seq(S), s # <<>>, NEW what
  PROVE  /\ Has(what, Tail(s)) => Has(what, s)
         /\ Head(s) \in what => Has(what, s)
         /\ NoLine(s) => NoLine(Tail(s)) /\ Head(s) \notin T!Line
         /\ NoLineAfter(what, s) => /\ NoLineAfter(what, Tail(s))
                                    /\ Head(s) \in what => NoLine(Tail(s))
<1>1. /\ Head(s) = s[1] /\ Len(s) \in Nat /\ Len(s) >= 1
      /\ DOMAIN s = 1..Len(s) /\ DOMAIN Tail(s) = 1..(Len(s) - 1)
      /\ \A i \in DOMAIN Tail(s) : Tail(s)[i] = s[i + 1]
  OBVIOUS
<1>2. /\ 1 \in DOMAIN s
      /\ \A i \in DOMAIN Tail(s) : i \in Nat /\ i + 1 \in DOMAIN s /\ 1 < i + 1
  BY <1>1
<1>3. Has(what, Tail(s)) => Has(what, s)
  BY <1>1, <1>2 DEF Has
<1>4. Head(s) \in what => Has(what, s)
  BY <1>1, <1>2 DEF Has
<1>5. NoLine(s) => NoLine(Tail(s)) /\ Head(s) \notin T!Line
  BY <1>1, <1>2 DEF NoLine
<1>6. ASSUME NoLineAfter(what, s) PROVE NoLineAfter(what, Tail(s))
  <2> SUFFICES ASSUME NEW i \in DOMAIN Tail(s), NEW j \in DOMAIN Tail(s),
                      Tail(s)[i] \in what, i < j
               PROVE  Tail(s)[j] \notin T!Line
    BY DEF NoLineAfter
  <2>1. /\ i + 1 \in DOMAIN s /\ j + 1 \in DOMAIN s /\ i + 1 < j + 1
        /\ s[i + 1] \in what /\ Tail(s)[j] = s[j + 1]
    BY <1>1, <1>2
  <2> QED
    BY <1>6, <2>1 DEF NoLineAfter
<1>7. ASSUME NoLineAfter(what, s), Head(s) \in what PROVE NoLine(Tail(s))
  BY <1>1, <1>2, <1>7 DEF NoLineAfter, NoLine
<1> QED
  BY <1>3, <1>4, <1>5, <1>6, <1>7

LEMMA EndsAppend ==
  ASSUME NEW S, NEW s \in Seq(S), NEW l \in S, NEW before, NEW after, Ends(s, before, after)
  PROVE  Ends(Append(s, l), before, Heard(l, after))
<1>1. /\ \A i \in DOMAIN s : Append(s, l)[i] = s[i] /\ i \in DOMAIN Append(s, l)
      /\ Append(s, l)[Len(s) + 1] = l
      /\ DOMAIN s = 1..Len(s) /\ DOMAIN Append(s, l) = 1..(Len(s) + 1)
      /\ Len(s) \in Nat
  OBVIOUS
<1>2. /\ \A i \in DOMAIN Append(s, l) : i \in DOMAIN s \/ i = Len(s) + 1
      /\ \A i \in DOMAIN Append(s, l) : ~(i > Len(s) + 1)
      /\ Len(s) + 1 \in DOMAIN Append(s, l)
  BY <1>1
<1>3. CASE T!Says(l) # T!None
  BY <1>1, <1>2, <1>3 DEF Ends, Heard
<1>4. CASE T!Says(l) = T!None
  <2>1. CASE Silent(s) /\ after = before
    <3>1. Silent(Append(s, l))
      BY <1>1, <1>2, <1>4, <2>1 DEF Silent
    <3> QED
      BY <1>4, <2>1, <3>1 DEF Ends, Heard
  <2>2. ASSUME NEW i \in DOMAIN s, T!Says(s[i]) # T!None, after = T!Says(s[i]),
               \A j \in DOMAIN s : j > i => T!Says(s[j]) = T!None
        PROVE  Ends(Append(s, l), before, Heard(l, after))
    <3>1. i \in DOMAIN Append(s, l) /\ Append(s, l)[i] = s[i]
      BY <1>1
    <3>2. \A j \in DOMAIN Append(s, l) : j > i => T!Says(Append(s, l)[j]) = T!None
      BY <1>1, <1>2, <1>4, <2>2
    <3> QED
      BY <1>4, <2>2, <3>1, <3>2 DEF Ends, Heard
  <2> QED
    BY <2>1, <2>2 DEF Ends
<1> QED
  BY <1>3, <1>4

LEMMA EndsTail ==
  ASSUME NEW S, NEW s \in Seq(S), s # <<>>, NEW before, NEW after, Ends(s, before, after)
  PROVE  Ends(Tail(s), Heard(Head(s), before), after)
<1>1. /\ Head(s) = s[1] /\ Len(s) \in Nat /\ Len(s) >= 1
      /\ DOMAIN s = 1..Len(s) /\ DOMAIN Tail(s) = 1..(Len(s) - 1)
      /\ \A i \in DOMAIN Tail(s) : Tail(s)[i] = s[i + 1]
  OBVIOUS
<1>2. /\ 1 \in DOMAIN s
      /\ \A i \in DOMAIN Tail(s) : i \in Nat /\ i + 1 \in DOMAIN s /\ i + 1 > 1
  BY <1>1
<1>3. CASE Silent(s) /\ after = before
  <2>1. Silent(Tail(s)) /\ T!Says(Head(s)) = T!None
    BY <1>1, <1>2, <1>3 DEF Silent
  <2> QED
    BY <1>3, <2>1 DEF Ends, Heard
<1>4. ASSUME NEW i \in DOMAIN s, T!Says(s[i]) # T!None, after = T!Says(s[i]),
             \A j \in DOMAIN s : j > i => T!Says(s[j]) = T!None
      PROVE  Ends(Tail(s), Heard(Head(s), before), after)
  <2>1. CASE i = 1
    <3>1. Silent(Tail(s))
      BY <1>1, <1>2, <1>4, <2>1 DEF Silent
    <3> QED
      BY <1>1, <1>4, <2>1, <3>1 DEF Ends, Heard
  <2>2. CASE i # 1
    <3>1. i - 1 \in DOMAIN Tail(s) /\ Tail(s)[i - 1] = s[i]
      BY <1>1, <2>2
    <3>2. \A j \in DOMAIN Tail(s) : j > i - 1 => T!Says(Tail(s)[j]) = T!None
      <4> SUFFICES ASSUME NEW j \in DOMAIN Tail(s), j > i - 1
                   PROVE  T!Says(Tail(s)[j]) = T!None
        OBVIOUS
      <4>1. j + 1 \in DOMAIN s /\ j + 1 > i /\ Tail(s)[j] = s[j + 1]
        BY <1>1, <1>2
      <4> QED
        BY <1>4, <4>1
    <3> QED
      BY <1>4, <3>1, <3>2 DEF Ends
  <2> QED
    BY <2>1, <2>2
<1> QED
  BY <1>3, <1>4 DEF Ends

\* With no line left, what was heard is all there is.
LEMMA EndsOfNoLine ==
  ASSUME NEW s, NoLine(s), NEW before, NEW after, Ends(s, before, after)
  PROVE  after = before
  BY DEF Ends, NoLine, T!Says, T!Line, T!None

-----------------------------------------------------------------------------
(* A call: how it starts, and its types *)

\* What the channel of a call carries.
Messages == C!Pipe \cup {"exited", "stop"}

LEMMA CallStarts == C!Init => C!TypeOK /\ CallInv
<1> SUFFICES ASSUME C!Init PROVE C!TypeOK /\ CallInv
  OBVIOUS
<1> USE ChildrenAssumption DEF C!CallAssumption, C!Init, C!Off, C!Pipe, C!Group
<1>1. holders \in [C!Pipe -> SUBSET (C!Group \cup {"outsider"})] /\ HoldersAreThere
  BY DEF HoldersAreThere
<1>2. pipes \in [C!Pipe -> 0..MaxChunks] /\ kept \in [C!Pipe -> 0..Cap]
  OBVIOUS
<1>3. events \in Seq(Messages) /\ C!Bound >= 0 /\ C!Bound \in Int
  BY DEF Messages, C!Bound
<1>4. grace \in {Grace, C!Off} /\ deadline \in C!Off..(Timeout + Grace + C!Bound)
      /\ gone \in C!Off..C!Bound /\ asked \in C!Off..(Grace + Drain + 1)
  BY <1>3
<1>5. quota \in 0..MaxChunks /\ hands \subseteq C!Pipe /\ readers \subseteq C!Pipe
  OBVIOUS
<1>6. C!TypeOK
  BY <1>1, <1>2, <1>3, <1>4, <1>5 DEF C!TypeOK, Messages
<1> QED
  BY <1>1, <1>6 DEF CallInv, ChunksWereWritten, BeforeTheLaunch, ReapedOnce, ExitIsToldOnce,
     KeepsTheGrace, ReadersReadToTheEnd, KeepsTheOutput

LEMMA CallTypeStep == C!TypeOK /\ CallInv /\ C!Next => C!TypeOK'
<1> SUFFICES ASSUME C!TypeOK, CallInv, C!Next PROVE C!TypeOK'
  OBVIOUS
<1> USE ChildrenAssumption
    DEF C!CallAssumption, C!TypeOK, C!Pipe, C!Group, C!Off, C!Bound, C!world, C!readers,
        C!machine, C!history
<1>1. ASSUME NEW p \in C!Pipe, NEW who \in C!Group \cup {"outsider"}, C!Write(p, who)
      PROVE  C!TypeOK'
  <2>1. pipes' = [pipes EXCEPT ![p] = @ + 1] /\ quota' = quota - 1
    BY <1>1 DEF C!Write
  <2>2. quota' \in 0..MaxChunks /\ pipes[p] + 1 \in 0..MaxChunks
    BY <1>1, <2>1 DEF C!Write, CallInv, ChunksWereWritten
  <2>3. pipes' \in [C!Pipe -> 0..MaxChunks]
    BY <2>1, <2>2
  <2> QED
    BY <1>1, <2>2, <2>3 DEF C!Write
<1>2. ASSUME NEW p \in C!Pipe, NEW who \in C!Group \cup {"outsider"}, C!Close(p, who)
      PROVE  C!TypeOK'
  BY <1>2 DEF C!Close
<1>3. ASSUME NEW p \in C!Pipe, C!ReadChunk(p) PROVE C!TypeOK'
  <2>1. pipes' \in [C!Pipe -> 0..MaxChunks]
    BY <1>3 DEF C!ReadChunk
  <2>2. hands' \subseteq C!Pipe /\ readers' \subseteq C!Pipe
    BY <1>3 DEF C!ReadChunk
  <2> QED
    BY <1>3, <2>1, <2>2 DEF C!ReadChunk
<1>4. ASSUME NEW p \in C!Pipe, C!Push(p) PROVE C!TypeOK'
  <2>1. kept' \in [C!Pipe -> 0..Cap] /\ cut' \subseteq C!Pipe
    <3>1. CASE kept[p] < Cap
      <4>1. kept' = [kept EXCEPT ![p] = @ + 1] /\ cut' = cut /\ kept[p] + 1 \in 0..Cap
        BY <1>4, <3>1 DEF C!Push
      <4> QED
        BY <4>1
    <3>2. CASE ~(kept[p] < Cap)
      BY <1>4, <3>2 DEF C!Push
    <3> QED
      BY <3>1, <3>2
  <2>2. hands' \subseteq C!Pipe /\ owed' \subseteq C!Pipe
    BY <1>4 DEF C!Push
  <2> QED
    BY <1>4, <2>1, <2>2 DEF C!Push
<1>5. ASSUME NEW p \in C!Pipe, C!ReadEnd(p) PROVE C!TypeOK'
  BY <1>5 DEF C!ReadEnd, C!Tells
<1>6. CASE C!ProgramExits \/ C!MemberExits
  <2>1. holders' \in [C!Pipe -> SUBSET (C!Group \cup {"outsider"})]
    BY <1>6 DEF C!ProgramExits, C!MemberExits, C!Left
  <2>2. program' \in {"runs", "zombie", "reaped"} /\ member' \in BOOLEAN
    BY <1>6 DEF C!ProgramExits, C!MemberExits
  <2>3. CASE C!ProgramExits
    BY <2>1, <2>2, <2>3 DEF C!ProgramExits
  <2>4. CASE C!MemberExits
    BY <2>1, <2>2, <2>4 DEF C!MemberExits
  <2> QED
    BY <1>6, <2>3, <2>4
<1>7. CASE C!StopComes
  BY <1>7 DEF C!StopComes
<1>8. CASE C!LaunchFails
  BY <1>8 DEF C!LaunchFails
<1>9. CASE C!TellExit
  <2>1. events' \in Seq(C!Pipe \cup {"exited", "stop"})
    BY <1>9 DEF C!TellExit, C!Tells
  <2> QED
    BY <1>9, <2>1 DEF C!TellExit
<1>10. CASE C!Launch
  <2>1. events' \in Seq(C!Pipe \cup {"exited", "stop"})
    <3>1. events' = <<"stop">> \/ events' = <<>>
      BY <1>10 DEF C!Launch
    <3>2. "stop" \in C!Pipe \cup {"exited", "stop"}
      OBVIOUS
    <3>3. ASSUME NEW S, NEW e \in S PROVE <<>> \in Seq(S) /\ <<e>> \in Seq(S)
      OBVIOUS
    <3>4. /\ <<>> \in Seq(C!Pipe \cup {"exited", "stop"})
          /\ <<"stop">> \in Seq(C!Pipe \cup {"exited", "stop"})
      BY <3>2, <3>3, Zenon
    <3> QED
      BY <3>1, <3>4, Zenon
  <2>2. deadline' \in C!Off..(Timeout + Grace + C!Bound)
    BY <1>10 DEF C!Launch
  <2> QED
    BY <1>10, <2>1, <2>2 DEF C!Launch
<1>11. CASE C!TakeStop
  <2>1. events' \in Seq(C!Pipe \cup {"exited", "stop"})
    BY <1>11 DEF C!TakeStop, C!Receive
  <2>2. deadline' \in C!Off..(Timeout + Grace + C!Bound) /\ asked' \in C!Off..(Grace + Drain + 1)
    BY <1>11 DEF C!TakeStop, C!Stopping, C!Signal
  <2>3. /\ signalled' \subseteq {"TERM", "KILL"}
        /\ reason' \in {"none", "timeout", "cancelled"}
    BY <1>11 DEF C!TakeStop, C!Stopping, C!Signal
  <2>4. strayed' = strayed \/ strayed' = (strayed \/ program = "reaped")
    BY <1>11 DEF C!TakeStop, C!Stopping, C!Signal
  <2>5. strayed' \in BOOLEAN
    BY <2>4
  <2> QED
    BY <1>11, <2>1, <2>2, <2>3, <2>5 DEF C!TakeStop
<1>12. CASE C!TakeExited
  BY <1>12 DEF C!TakeExited, C!Receive, C!Signal
<1>13. CASE C!DrainIsOver
  <2>1. deadline' \in C!Off..(Timeout + Grace + C!Bound)
    BY <1>13 DEF C!DrainIsOver
  <2>2. late' = late \/ late' = (gone >= C!Bound \/ hands # {})
    BY <1>13 DEF C!DrainIsOver
  <2>3. late' \in BOOLEAN
    BY <2>2
  <2> QED
    BY <1>13, <2>1, <2>3 DEF C!DrainIsOver
<1>14. CASE C!TimesOut
  <2>1. deadline' \in C!Off..(Timeout + Grace + C!Bound) /\ asked' \in C!Off..(Grace + Drain + 1)
    BY <1>14 DEF C!TimesOut, C!Stopping, C!Signal
  <2>2. signalled' \subseteq {"TERM", "KILL"}
    BY <1>14 DEF C!TimesOut, C!Stopping, C!Signal
  <2>3. strayed' = (strayed \/ program = "reaped")
    BY <1>14 DEF C!TimesOut, C!Stopping, C!Signal
  <2>4. strayed' \in BOOLEAN
    BY <2>3
  <2> QED
    BY <1>14, <2>1, <2>2, <2>4 DEF C!TimesOut
<1>15. CASE C!GraceIsOver
  BY <1>15 DEF C!GraceIsOver, C!Due, C!Signal
<1>16. ASSUME NEW p \in C!Pipe, C!TakeEof(p) PROVE C!TypeOK'
  BY <1>16 DEF C!TakeEof, C!Receive
<1>17. CASE C!Tick
  BY <1>17 DEF C!Tick
<1> QED
  BY <1>1, <1>2, <1>3, <1>4, <1>5, <1>6, <1>7, <1>8, <1>9, <1>10, <1>11, <1>12, <1>13,
     <1>14, <1>15, <1>16, <1>17 DEF C!Next, C!Supervise

LEMMA BoundIsNat == C!TypeOK => C!Bound \in Nat
  BY ChildrenAssumption DEF C!CallAssumption, C!TypeOK, C!Bound, C!Off

LEMMA CallNumbers ==
  C!TypeOK => /\ gone \in Int /\ gone >= C!Off /\ gone <= C!Bound
              /\ deadline \in Int /\ deadline >= C!Off
              /\ asked \in Int /\ asked >= C!Off /\ asked <= Grace + Drain + 1
  BY BoundIsNat, ChildrenAssumption DEF C!CallAssumption, C!TypeOK, C!Off

-----------------------------------------------------------------------------
(* A call: the steps keep the strengthening *)

LEMMA ChunksStep == C!TypeOK /\ CallInv /\ C!Next => ChunksWereWritten'
<1> SUFFICES ASSUME C!TypeOK, CallInv, C!Next PROVE ChunksWereWritten'
  OBVIOUS
<1>a. /\ pipes \in [C!Pipe -> 0..MaxChunks] /\ quota \in 0..MaxChunks
      /\ ChunksWereWritten
  BY BoundIsNat, CallNumbers, ChildrenAssumption DEF C!TypeOK, C!Pipe, C!Group, C!Off,
     CallInv, C!Pipe
<1> USE <1>a, ChildrenAssumption
    DEF C!CallAssumption, C!Pipe, C!Group, C!Off, ChunksWereWritten, C!world, C!readers,
        C!machine, C!history
<1>1. ASSUME NEW p \in C!Pipe, NEW who \in C!Group \cup {"outsider"}, C!Write(p, who)
      PROVE  ChunksWereWritten'
  BY <1>1 DEF C!Write, C!Alive
<1>2. ASSUME NEW p \in C!Pipe, NEW who \in C!Group \cup {"outsider"}, C!Close(p, who)
      PROVE  ChunksWereWritten'
  BY <1>2 DEF C!Close
<1>3. ASSUME NEW p \in C!Pipe, C!ReadChunk(p) PROVE ChunksWereWritten'
  BY <1>3 DEF C!ReadChunk
<1>4. ASSUME NEW p \in C!Pipe, C!Push(p) PROVE ChunksWereWritten'
  BY <1>4 DEF C!Push
<1>5. ASSUME NEW p \in C!Pipe, C!ReadEnd(p) PROVE ChunksWereWritten'
  BY <1>5 DEF C!ReadEnd, C!Tells
<1>6. CASE C!ProgramExits \/ C!MemberExits
  BY <1>6 DEF C!ProgramExits, C!MemberExits, C!Left
<1>7. CASE C!StopComes
  BY <1>7 DEF C!StopComes
<1>8. CASE C!LaunchFails
  BY <1>8 DEF C!LaunchFails
<1>9. CASE C!TellExit
  BY <1>9 DEF C!TellExit, C!Tells
<1>10. CASE C!Launch
  BY <1>10 DEF C!Launch
<1>11. CASE C!TakeStop
  BY <1>11 DEF C!TakeStop, C!Receive, C!Stopping, C!Signal
<1>12. CASE C!TakeExited
  BY <1>12 DEF C!TakeExited, C!Receive, C!Signal
<1>13. CASE C!DrainIsOver
  BY <1>13 DEF C!DrainIsOver, C!Due
<1>14. CASE C!TimesOut
  BY <1>14 DEF C!TimesOut, C!Due, C!Stopping, C!Signal
<1>15. CASE C!GraceIsOver
  BY <1>15 DEF C!GraceIsOver, C!Due, C!Signal
<1>16. ASSUME NEW p \in C!Pipe, C!TakeEof(p) PROVE ChunksWereWritten'
  BY <1>16 DEF C!TakeEof, C!Receive
<1>17. CASE C!Tick
  BY <1>17 DEF C!Tick
<1> QED
  BY <1>1, <1>2, <1>3, <1>4, <1>5, <1>6, <1>7, <1>8, <1>9, <1>10, <1>11, <1>12, <1>13,
     <1>14, <1>15, <1>16, <1>17 DEF C!Next, C!Supervise

LEMMA LaunchStep == C!TypeOK /\ CallInv /\ C!Next => BeforeTheLaunch'
<1> SUFFICES ASSUME C!TypeOK, CallInv, C!Next PROVE BeforeTheLaunch'
  OBVIOUS
<1>a. BeforeTheLaunch /\ step \in {"launch", "supervise", "over", "failed"}
  BY BoundIsNat, CallNumbers, ChildrenAssumption DEF C!TypeOK, C!Pipe, C!Group, C!Off,
     CallInv, ReapedOnce
<1> USE <1>a, ChildrenAssumption
    DEF C!CallAssumption, C!Pipe, C!Group, C!Off, BeforeTheLaunch, C!world, C!readers,
        C!machine, C!history
<1>1. ASSUME NEW p \in C!Pipe, NEW who \in C!Group \cup {"outsider"}, C!Write(p, who)
      PROVE  BeforeTheLaunch'
  BY <1>1 DEF C!Write, C!Alive
<1>2. ASSUME NEW p \in C!Pipe, NEW who \in C!Group \cup {"outsider"}, C!Close(p, who)
      PROVE  BeforeTheLaunch'
  BY <1>2 DEF C!Close
<1>3. ASSUME NEW p \in C!Pipe, C!ReadChunk(p) PROVE BeforeTheLaunch'
  BY <1>3 DEF C!ReadChunk
<1>4. ASSUME NEW p \in C!Pipe, C!Push(p) PROVE BeforeTheLaunch'
  BY <1>4 DEF C!Push
<1>5. ASSUME NEW p \in C!Pipe, C!ReadEnd(p) PROVE BeforeTheLaunch'
  BY <1>5 DEF C!ReadEnd, C!Tells
<1>6. CASE C!ProgramExits \/ C!MemberExits
  BY <1>6 DEF C!ProgramExits, C!MemberExits, C!Left
<1>7. CASE C!StopComes
  BY <1>7 DEF C!StopComes
<1>8. CASE C!LaunchFails
  BY <1>8 DEF C!LaunchFails
<1>9. CASE C!TellExit
  BY <1>9 DEF C!TellExit, C!Tells
<1>10. CASE C!Launch
  BY <1>10 DEF C!Launch
<1>11. CASE C!TakeStop
  BY <1>11 DEF C!TakeStop, C!Receive, C!Stopping, C!Signal
<1>12. CASE C!TakeExited
  BY <1>12 DEF C!TakeExited, C!Receive, C!Signal
<1>13. CASE C!DrainIsOver
  BY <1>13 DEF C!DrainIsOver, C!Due
<1>14. CASE C!TimesOut
  BY <1>14 DEF C!TimesOut, C!Due, C!Stopping, C!Signal
<1>15. CASE C!GraceIsOver
  BY <1>15 DEF C!GraceIsOver, C!Due, C!Signal
<1>16. ASSUME NEW p \in C!Pipe, C!TakeEof(p) PROVE BeforeTheLaunch'
  BY <1>16 DEF C!TakeEof, C!Receive
<1>17. CASE C!Tick
  BY <1>17 DEF C!Tick
<1> QED
  BY <1>1, <1>2, <1>3, <1>4, <1>5, <1>6, <1>7, <1>8, <1>9, <1>10, <1>11, <1>12, <1>13,
     <1>14, <1>15, <1>16, <1>17 DEF C!Next, C!Supervise

LEMMA ReapedStep == C!TypeOK /\ CallInv /\ C!Next => ReapedOnce'
<1> SUFFICES ASSUME C!TypeOK, CallInv, C!Next PROVE ReapedOnce'
  OBVIOUS
<1>a. /\ BeforeTheLaunch /\ ReapedOnce /\ ExitIsToldOnce
      /\ gone \in Int /\ C!Bound \in Int
      /\ step \in {"launch", "supervise", "over", "failed"}
  BY BoundIsNat, CallNumbers, ChildrenAssumption DEF C!TypeOK, C!Pipe, C!Group, C!Off,
     CallInv, C!CallAssumption
<1> USE <1>a, ChildrenAssumption
    DEF C!CallAssumption, C!Pipe, C!Group, C!Off, BeforeTheLaunch, ReapedOnce,
        ExitIsToldOnce, C!world, C!readers, C!machine, C!history
<1>1. ASSUME NEW p \in C!Pipe, NEW who \in C!Group \cup {"outsider"}, C!Write(p, who)
      PROVE  ReapedOnce'
  BY <1>1 DEF C!Write, C!Alive
<1>2. ASSUME NEW p \in C!Pipe, NEW who \in C!Group \cup {"outsider"}, C!Close(p, who)
      PROVE  ReapedOnce'
  BY <1>2 DEF C!Close
<1>3. ASSUME NEW p \in C!Pipe, C!ReadChunk(p) PROVE ReapedOnce'
  BY <1>3 DEF C!ReadChunk
<1>4. ASSUME NEW p \in C!Pipe, C!Push(p) PROVE ReapedOnce'
  BY <1>4 DEF C!Push
<1>5. ASSUME NEW p \in C!Pipe, C!ReadEnd(p) PROVE ReapedOnce'
  BY <1>5 DEF C!ReadEnd, C!Tells
<1>6. CASE C!ProgramExits \/ C!MemberExits
  BY <1>6 DEF C!ProgramExits, C!MemberExits, C!Left
<1>7. CASE C!StopComes
  BY <1>7 DEF C!StopComes
<1>8. CASE C!LaunchFails
  BY <1>8 DEF C!LaunchFails
<1>9. CASE C!TellExit
  BY <1>9 DEF C!TellExit, C!Tells
<1>10. CASE C!Launch
  BY <1>10 DEF C!Launch
<1>11. CASE C!TakeStop
  BY <1>11 DEF C!TakeStop, C!Receive, C!Stopping, C!Signal
<1>12. CASE C!TakeExited
  <2>1. In("exited", events) /\ program = "zombie" /\ step = "supervise"
    <3>1. step = "supervise" /\ events # <<>> /\ Head(events) = "exited"
      BY <1>12 DEF C!TakeExited, C!Receive
    <3>2. events \in Seq(Messages)
      BY DEF C!TypeOK, Messages, C!Pipe
    <3> QED
      BY <3>1, <3>2, InTail DEF ExitIsToldOnce
  <2>2. strayed' = (strayed \/ program = "reaped")
    BY <1>12 DEF C!TakeExited, C!Signal
  <2>3. ~strayed'
    BY <2>1, <2>2
  <2>4. /\ program' = "reaped" /\ gone' = 0 /\ "KILL" \in signalled'
        /\ step' \in {"supervise", "over"} /\ exitWaiting' = exitWaiting
    BY <1>12, <2>1 DEF C!TakeExited, C!Signal
  <2>5. ~exitWaiting
    BY <2>1
  <2> QED
    BY <2>3, <2>4, <2>5
<1>13. CASE C!DrainIsOver
  BY <1>13 DEF C!DrainIsOver, C!Due
<1>14. CASE C!TimesOut
  BY <1>14 DEF C!TimesOut, C!Due, C!Stopping, C!Signal
<1>15. CASE C!GraceIsOver
  BY <1>15 DEF C!GraceIsOver, C!Due, C!Signal
<1>16. ASSUME NEW p \in C!Pipe, C!TakeEof(p) PROVE ReapedOnce'
  BY <1>16 DEF C!TakeEof, C!Receive
<1>17. CASE C!Tick
  BY <1>17 DEF C!Tick
<1> QED
  BY <1>1, <1>2, <1>3, <1>4, <1>5, <1>6, <1>7, <1>8, <1>9, <1>10, <1>11, <1>12, <1>13,
     <1>14, <1>15, <1>16, <1>17 DEF C!Next, C!Supervise

LEMMA GraceStep == C!TypeOK /\ CallInv /\ C!Next => KeepsTheGrace'
<1> SUFFICES ASSUME C!TypeOK, CallInv, C!Next PROVE KeepsTheGrace'
  OBVIOUS
<1>a. /\ BeforeTheLaunch /\ ReapedOnce /\ ExitIsToldOnce /\ KeepsTheGrace
      /\ gone \in Int /\ gone >= -1 /\ asked \in Int /\ asked >= -1 /\ deadline \in Int /\ deadline >= -1
      /\ grace \in {Grace, -1}
      /\ step \in {"launch", "supervise", "over", "failed"}
  BY BoundIsNat, CallNumbers, ChildrenAssumption DEF C!TypeOK, C!Pipe, C!Group, C!Off,
     CallInv, C!CallAssumption
<1> USE <1>a, ChildrenAssumption
    DEF C!CallAssumption, C!Pipe, C!Group, C!Off, BeforeTheLaunch, ReapedOnce,
        ExitIsToldOnce, KeepsTheGrace, C!world, C!readers, C!machine, C!history
<1>1. ASSUME NEW p \in C!Pipe, NEW who \in C!Group \cup {"outsider"}, C!Write(p, who)
      PROVE  KeepsTheGrace'
  BY <1>1 DEF C!Write, C!Alive
<1>2. ASSUME NEW p \in C!Pipe, NEW who \in C!Group \cup {"outsider"}, C!Close(p, who)
      PROVE  KeepsTheGrace'
  BY <1>2 DEF C!Close
<1>3. ASSUME NEW p \in C!Pipe, C!ReadChunk(p) PROVE KeepsTheGrace'
  BY <1>3 DEF C!ReadChunk
<1>4. ASSUME NEW p \in C!Pipe, C!Push(p) PROVE KeepsTheGrace'
  BY <1>4 DEF C!Push
<1>5. ASSUME NEW p \in C!Pipe, C!ReadEnd(p) PROVE KeepsTheGrace'
  BY <1>5 DEF C!ReadEnd, C!Tells
<1>6. CASE C!ProgramExits \/ C!MemberExits
  BY <1>6 DEF C!ProgramExits, C!MemberExits, C!Left
<1>7. CASE C!StopComes
  BY <1>7 DEF C!StopComes
<1>8. CASE C!LaunchFails
  BY <1>8 DEF C!LaunchFails
<1>9. CASE C!TellExit
  BY <1>9 DEF C!TellExit, C!Tells
<1>10. CASE C!Launch
  BY <1>10 DEF C!Launch
<1>11. CASE C!TakeStop
  BY <1>11 DEF C!TakeStop, C!Receive, C!Stopping, C!Signal
<1>12. CASE C!TakeExited
  <2>1. In("exited", events) /\ program = "zombie" /\ step = "supervise"
    <3>1. step = "supervise" /\ events # <<>> /\ Head(events) = "exited"
      BY <1>12 DEF C!TakeExited, C!Receive
    <3>2. events \in Seq(Messages)
      BY DEF C!TypeOK, Messages, C!Pipe
    <3> QED
      BY <3>1, <3>2, InTail DEF ExitIsToldOnce
  <2> QED
    BY <1>12, <2>1 DEF C!TakeExited, C!Signal
<1>13. CASE C!DrainIsOver
  BY <1>13 DEF C!DrainIsOver, C!Due
<1>14. CASE C!TimesOut
  BY <1>14 DEF C!TimesOut, C!Due, C!Stopping, C!Signal
<1>15. CASE C!GraceIsOver
  BY <1>15 DEF C!GraceIsOver, C!Due, C!Signal
<1>16. ASSUME NEW p \in C!Pipe, C!TakeEof(p) PROVE KeepsTheGrace'
  BY <1>16 DEF C!TakeEof, C!Receive
<1>17. CASE C!Tick
  <2>1. /\ step = "supervise" /\ events = <<>> /\ deadline # 0
        /\ ~(exitWaiting /\ program = "zombie")
        /\ "KILL" \in signalled => program # "runs" /\ ~member
    BY <1>17 DEF C!Tick, C!Prompt
  <2>2. ~In("exited", events)
    BY <2>1 DEF In
  <2>3. gone = -1 => program = "runs" \/ program = "zombie"
    BY <2>1 DEF C!TypeOK
  <2>4. gone = -1 => "KILL" \notin signalled
    BY <2>1, <2>2, <2>3
  <2>5. /\ deadline' = IF deadline > 0 THEN deadline - 1 ELSE deadline
        /\ gone' = IF gone \in 0..(C!Bound - 1) THEN gone + 1 ELSE gone
        /\ asked' = IF asked \in 0..(Grace + Drain) THEN asked + 1 ELSE asked
        /\ UNCHANGED <<signalled, step, grace, reason>>
    BY <1>17 DEF C!Tick
  <2>6. (gone' = -1 <=> gone = -1) /\ (asked' = -1 <=> asked = -1)
    BY <2>5
  <2> QED
    BY <2>1, <2>4, <2>5, <2>6
<1> QED
  BY <1>1, <1>2, <1>3, <1>4, <1>5, <1>6, <1>7, <1>8, <1>9, <1>10, <1>11, <1>12, <1>13,
     <1>14, <1>15, <1>16, <1>17 DEF C!Next, C!Supervise

LEMMA HoldersStep == C!TypeOK /\ CallInv /\ C!Next => HoldersAreThere'
<1> SUFFICES ASSUME C!TypeOK, CallInv, C!Next PROVE HoldersAreThere'
  OBVIOUS
<1>a. /\ HoldersAreThere /\ ReapedOnce /\ ExitIsToldOnce
      /\ holders \in [C!Pipe -> SUBSET (C!Group \cup {"outsider"})]
  BY BoundIsNat, CallNumbers, ChildrenAssumption DEF C!TypeOK, C!Pipe, C!Group, C!Off,
     CallInv, C!Pipe
<1> USE <1>a, ChildrenAssumption
    DEF C!CallAssumption, C!Pipe, C!Group, C!Off, HoldersAreThere, ReapedOnce,
        ExitIsToldOnce, C!world, C!readers, C!machine, C!history
<1>1. ASSUME NEW p \in C!Pipe, NEW who \in C!Group \cup {"outsider"}, C!Write(p, who)
      PROVE  HoldersAreThere'
  BY <1>1 DEF C!Write, C!Alive
<1>2. ASSUME NEW p \in C!Pipe, NEW who \in C!Group \cup {"outsider"}, C!Close(p, who)
      PROVE  HoldersAreThere'
  BY <1>2 DEF C!Close
<1>3. ASSUME NEW p \in C!Pipe, C!ReadChunk(p) PROVE HoldersAreThere'
  BY <1>3 DEF C!ReadChunk
<1>4. ASSUME NEW p \in C!Pipe, C!Push(p) PROVE HoldersAreThere'
  BY <1>4 DEF C!Push
<1>5. ASSUME NEW p \in C!Pipe, C!ReadEnd(p) PROVE HoldersAreThere'
  BY <1>5 DEF C!ReadEnd, C!Tells
<1>6. CASE C!ProgramExits \/ C!MemberExits
  BY <1>6 DEF C!ProgramExits, C!MemberExits, C!Left
<1>7. CASE C!StopComes
  BY <1>7 DEF C!StopComes
<1>8. CASE C!LaunchFails
  BY <1>8 DEF C!LaunchFails
<1>9. CASE C!TellExit
  BY <1>9 DEF C!TellExit, C!Tells
<1>10. CASE C!Launch
  BY <1>10 DEF C!Launch
<1>11. CASE C!TakeStop
  BY <1>11 DEF C!TakeStop, C!Receive, C!Stopping, C!Signal
<1>12. CASE C!TakeExited
  <2>1. In("exited", events) /\ program = "zombie" /\ step = "supervise"
    <3>1. step = "supervise" /\ events # <<>> /\ Head(events) = "exited"
      BY <1>12 DEF C!TakeExited, C!Receive
    <3>2. events \in Seq(Messages)
      BY DEF C!TypeOK, Messages, C!Pipe
    <3> QED
      BY <3>1, <3>2, InTail DEF ExitIsToldOnce
  <2> QED
    BY <1>12, <2>1 DEF C!TakeExited, C!Signal
<1>13. CASE C!DrainIsOver
  BY <1>13 DEF C!DrainIsOver, C!Due
<1>14. CASE C!TimesOut
  BY <1>14 DEF C!TimesOut, C!Due, C!Stopping, C!Signal
<1>15. CASE C!GraceIsOver
  BY <1>15 DEF C!GraceIsOver, C!Due, C!Signal
<1>16. ASSUME NEW p \in C!Pipe, C!TakeEof(p) PROVE HoldersAreThere'
  BY <1>16 DEF C!TakeEof, C!Receive
<1>17. CASE C!Tick
  BY <1>17 DEF C!Tick
<1> QED
  BY <1>1, <1>2, <1>3, <1>4, <1>5, <1>6, <1>7, <1>8, <1>9, <1>10, <1>11, <1>12, <1>13,
     <1>14, <1>15, <1>16, <1>17 DEF C!Next, C!Supervise

LEMMA ExitStep == C!TypeOK /\ CallInv /\ C!Next => ExitIsToldOnce'
<1> SUFFICES ASSUME C!TypeOK, CallInv, C!Next PROVE ExitIsToldOnce'
  OBVIOUS
<1>a. /\ BeforeTheLaunch /\ ReapedOnce /\ ExitIsToldOnce
      /\ step \in {"launch", "supervise", "over", "failed"}
  BY BoundIsNat, CallNumbers, ChildrenAssumption DEF C!TypeOK, C!Pipe, C!Group, C!Off,
     CallInv, C!Pipe
<1>q. /\ events \in Seq(Messages) /\ "stop" \in Messages /\ "exited" \in Messages
      /\ "out" \in Messages /\ "err" \in Messages
  BY DEF C!TypeOK, Messages, C!Pipe
<1> USE <1>a, ChildrenAssumption
    DEF C!CallAssumption, C!Pipe, C!Group, C!Off, BeforeTheLaunch, ReapedOnce,
        ExitIsToldOnce, C!world, C!readers, C!machine, C!history
<1>1. ASSUME NEW p \in C!Pipe, NEW who \in C!Group \cup {"outsider"}, C!Write(p, who)
      PROVE  ExitIsToldOnce'
  BY <1>1 DEF C!Write, C!Alive
<1>2. ASSUME NEW p \in C!Pipe, NEW who \in C!Group \cup {"outsider"}, C!Close(p, who)
      PROVE  ExitIsToldOnce'
  BY <1>2 DEF C!Close
<1>3. ASSUME NEW p \in C!Pipe, C!ReadChunk(p) PROVE ExitIsToldOnce'
  BY <1>3 DEF C!ReadChunk
<1>4. ASSUME NEW p \in C!Pipe, C!Push(p) PROVE ExitIsToldOnce'
  BY <1>4 DEF C!Push
<1>5. ASSUME NEW p \in C!Pipe, C!ReadEnd(p) PROVE ExitIsToldOnce'
  <2>1. CASE step = "supervise"
    <3>1. events' = Append(events, p) /\ p \in Messages /\ p # "exited"
      BY <1>5, <1>q, <2>1 DEF C!ReadEnd, C!Tells, C!Pipe
    <3>2. Once("exited", events') /\ (In("exited", events') <=> In("exited", events))
      BY <1>q, <2>1, <3>1, OnceAppend, InAppend
    <3> QED
      BY <1>5, <2>1, <3>2 DEF C!ReadEnd, C!Tells
  <2>2. CASE step # "supervise"
    BY <1>5, <2>2 DEF C!ReadEnd, C!Tells
  <2> QED
    BY <2>1, <2>2
<1>6. CASE C!ProgramExits \/ C!MemberExits
  BY <1>6 DEF C!ProgramExits, C!MemberExits, C!Left
<1>7. CASE C!StopComes
  <2>1. CASE step = "supervise"
    <3>1. events' = Append(events, "stop") /\ "stop" \in Messages /\ "stop" # "exited"
      BY <1>7, <1>q, <2>1 DEF C!StopComes, C!Pipe
    <3>2. Once("exited", events') /\ (In("exited", events') <=> In("exited", events))
      BY <1>q, <2>1, <3>1, OnceAppend, InAppend
    <3> QED
      BY <1>7, <2>1, <3>2 DEF C!StopComes
  <2>2. CASE step # "supervise"
    BY <1>7, <2>2 DEF C!StopComes
  <2> QED
    BY <2>1, <2>2
<1>8. CASE C!LaunchFails
  BY <1>8 DEF C!LaunchFails
<1>9. CASE C!TellExit
  <2>1. CASE step = "supervise"
    <3>1. events' = Append(events, "exited") /\ ~In("exited", events)
      BY <1>9, <2>1 DEF C!TellExit, C!Tells
    <3>2. Once("exited", events') /\ In("exited", events')
      BY <1>q, <2>1, <3>1, OnceAppend, InAppend
    <3> QED
      BY <1>9, <2>1, <3>2 DEF C!TellExit
  <2>2. CASE step # "supervise"
    BY <1>9, <2>2 DEF C!TellExit
  <2> QED
    BY <2>1, <2>2
<1>10. CASE C!Launch
  <2>1. exitWaiting' /\ (events' = <<"stop">> \/ events' = <<>>)
    BY <1>10 DEF C!Launch
  <2>2. ~In("exited", events') /\ Once("exited", events')
    BY <2>1 DEF In, Once
  <2> QED
    BY <2>1, <2>2
<1>11. CASE C!TakeStop
  <2>1. /\ step = "supervise" /\ events # <<>> /\ Head(events) = "stop" /\ "stop" # "exited"
        /\ events' = Tail(events) /\ UNCHANGED <<program, exitWaiting>>
    BY <1>11 DEF C!TakeStop, C!Receive, C!Pipe
  <2>2. Once("exited", events') /\ (In("exited", events') <=> In("exited", events))
    BY <1>q, <2>1, OnceTail, InTail
  <2> QED
    BY <2>1, <2>2
<1>12. CASE C!TakeExited
  <2>1. /\ step = "supervise" /\ events # <<>> /\ Head(events) = "exited"
        /\ events' = Tail(events) /\ program' = "reaped"
    BY <1>12 DEF C!TakeExited, C!Receive
  <2>2. Once("exited", events') /\ ~In("exited", events')
    BY <1>q, <2>1, OnceTail
  <2> QED
    BY <2>1, <2>2
<1>13. CASE C!DrainIsOver
  BY <1>13 DEF C!DrainIsOver, C!Due
<1>14. CASE C!TimesOut
  BY <1>14 DEF C!TimesOut, C!Due, C!Stopping, C!Signal
<1>15. CASE C!GraceIsOver
  BY <1>15 DEF C!GraceIsOver, C!Due, C!Signal
<1>16. ASSUME NEW p \in C!Pipe, C!TakeEof(p) PROVE ExitIsToldOnce'
  <2>1. /\ step = "supervise" /\ events # <<>> /\ Head(events) = p /\ p # "exited"
        /\ events' = Tail(events) /\ UNCHANGED <<program, exitWaiting>>
    BY <1>16 DEF C!TakeEof, C!Receive, C!Pipe
  <2>2. Once("exited", events') /\ (In("exited", events') <=> In("exited", events))
    BY <1>q, <2>1, OnceTail, InTail
  <2> QED
    BY <2>1, <2>2
<1>17. CASE C!Tick
  BY <1>17 DEF C!Tick
<1> QED
  BY <1>1, <1>2, <1>3, <1>4, <1>5, <1>6, <1>7, <1>8, <1>9, <1>10, <1>11, <1>12, <1>13,
     <1>14, <1>15, <1>16, <1>17 DEF C!Next, C!Supervise

LEMMA ReadersStep == C!TypeOK /\ CallInv /\ C!Next => ReadersReadToTheEnd'
<1> SUFFICES ASSUME C!TypeOK, CallInv, C!Next PROVE ReadersReadToTheEnd'
  OBVIOUS
<1>a. /\ ReadersReadToTheEnd /\ BeforeTheLaunch
      /\ step \in {"launch", "supervise", "over", "failed"}
      /\ pipes \in [C!Pipe -> 0..MaxChunks] /\ hands \subseteq C!Pipe /\ readers \subseteq C!Pipe
      /\ holders \in [C!Pipe -> SUBSET (C!Group \cup {"outsider"})]
  BY BoundIsNat, CallNumbers, ChildrenAssumption DEF C!TypeOK, C!Pipe, C!Group, C!Off,
     CallInv, C!Pipe
<1>q. /\ events \in Seq(Messages) /\ "stop" \in Messages /\ "exited" \in Messages
      /\ "out" \in Messages /\ "err" \in Messages
  BY DEF C!TypeOK, Messages, C!Pipe
<1> USE <1>a, ChildrenAssumption
    DEF C!CallAssumption, C!Pipe, C!Group, C!Off, ReadersReadToTheEnd, BeforeTheLaunch,
        C!world, C!readers, C!machine, C!history
<1>1. ASSUME NEW p \in C!Pipe, NEW who \in C!Group \cup {"outsider"}, C!Write(p, who)
      PROVE  ReadersReadToTheEnd'
  BY <1>1 DEF C!Write, C!Alive
<1>2. ASSUME NEW p \in C!Pipe, NEW who \in C!Group \cup {"outsider"}, C!Close(p, who)
      PROVE  ReadersReadToTheEnd'
  BY <1>2 DEF C!Close
<1>3. ASSUME NEW p \in C!Pipe, C!ReadChunk(p) PROVE ReadersReadToTheEnd'
  <2>1. /\ p \in readers \ hands /\ UNCHANGED <<holders, open, events, step>>
        /\ \A q \in C!Pipe : q # p => pipes'[q] = pipes[q]
    BY <1>3 DEF C!ReadChunk
  <2>2. \/ step = "over" /\ readers' = readers \ {p} /\ hands' = hands
        \/ step # "over" /\ readers' = readers /\ hands' = hands \cup {p}
    BY <1>3 DEF C!ReadChunk
  <2>3. hands' \subseteq readers'
    <3>1. hands \subseteq readers /\ p \in readers /\ p \notin hands
      BY <2>1
    <3>2. CASE readers' = readers \ {p} /\ hands' = hands
      BY <3>1, <3>2
    <3>3. CASE readers' = readers /\ hands' = hands \cup {p}
      BY <3>1, <3>3
    <3> QED
      BY <2>2, <3>2, <3>3
  <2> QED
    BY <2>1, <2>2, <2>3
<1>4. ASSUME NEW p \in C!Pipe, C!Push(p) PROVE ReadersReadToTheEnd'
  BY <1>4 DEF C!Push
<1>5. ASSUME NEW p \in C!Pipe, C!ReadEnd(p) PROVE ReadersReadToTheEnd'
  <2>1. \A q \in C!Pipe : In(q, events') => In(q, events) \/ q = p
    BY <1>5, <1>q, InAppend DEF C!ReadEnd, C!Tells
  <2> QED
    BY <1>5, <2>1 DEF C!ReadEnd, C!Tells
<1>6. CASE C!ProgramExits \/ C!MemberExits
  BY <1>6 DEF C!ProgramExits, C!MemberExits, C!Left
<1>7. CASE C!StopComes
  <2>1. \A q \in C!Pipe : In(q, events') => In(q, events) \/ FALSE
    BY <1>7, <1>q, InAppend DEF C!StopComes
  <2> QED
    BY <1>7, <2>1 DEF C!StopComes
<1>8. CASE C!LaunchFails
  BY <1>8 DEF C!LaunchFails
<1>9. CASE C!TellExit
  <2>1. \A q \in C!Pipe : In(q, events') => In(q, events) \/ FALSE
    BY <1>9, <1>q, InAppend DEF C!TellExit, C!Tells
  <2> QED
    BY <1>9, <2>1 DEF C!TellExit, C!Tells
<1>10. CASE C!Launch
  <2>1. events' = <<"stop">> \/ events' = <<>>
    BY <1>10 DEF C!Launch
  <2>2. \A q \in C!Pipe : ~In(q, events')
    BY <2>1 DEF In
  <2>3. readers' = C!Pipe /\ open' = C!Pipe
    BY <1>10 DEF C!Launch
  <2>4. hands' \subseteq readers'
    BY <1>10, <2>3 DEF C!Launch
  <2> QED
    BY <2>2, <2>3, <2>4
<1>11. CASE C!TakeStop
  <2>1. step = "supervise" /\ events # <<>> /\ events' = Tail(events)
    BY <1>11 DEF C!TakeStop, C!Receive
  <2>2. \A q \in C!Pipe : (In(q, events') => In(q, events)) /\ In(Head(events), events)
    BY <1>q, <2>1, InTail
  <2> QED
    BY <1>11, <2>1, <2>2 DEF C!TakeStop, C!Receive
<1>12. CASE C!TakeExited
  <2>1. step = "supervise" /\ events # <<>> /\ events' = Tail(events)
    BY <1>12 DEF C!TakeExited, C!Receive
  <2>2. \A q \in C!Pipe : (In(q, events') => In(q, events)) /\ In(Head(events), events)
    BY <1>q, <2>1, InTail
  <2> QED
    BY <1>12, <2>1, <2>2 DEF C!TakeExited, C!Receive
<1>13. CASE C!DrainIsOver
  BY <1>13 DEF C!DrainIsOver, C!Due
<1>14. CASE C!TimesOut
  BY <1>14 DEF C!TimesOut, C!Due, C!Stopping, C!Signal
<1>15. CASE C!GraceIsOver
  BY <1>15 DEF C!GraceIsOver, C!Due, C!Signal
<1>16. ASSUME NEW p \in C!Pipe, C!TakeEof(p) PROVE ReadersReadToTheEnd'
  <2>1. step = "supervise" /\ events # <<>> /\ events' = Tail(events)
    BY <1>16 DEF C!TakeEof, C!Receive
  <2>2. \A q \in C!Pipe : (In(q, events') => In(q, events)) /\ In(Head(events), events)
    BY <1>q, <2>1, InTail
  <2> QED
    BY <1>16, <2>1, <2>2 DEF C!TakeEof, C!Receive
<1>17. CASE C!Tick
  BY <1>17 DEF C!Tick
<1> QED
  BY <1>1, <1>2, <1>3, <1>4, <1>5, <1>6, <1>7, <1>8, <1>9, <1>10, <1>11, <1>12, <1>13,
     <1>14, <1>15, <1>16, <1>17 DEF C!Next, C!Supervise

LEMMA OutputStep == C!TypeOK /\ CallInv /\ C!Next => KeepsTheOutput'
<1> SUFFICES ASSUME C!TypeOK, CallInv, C!Next PROVE KeepsTheOutput'
  OBVIOUS
<1>a. /\ KeepsTheOutput /\ HoldersAreThere /\ ReadersReadToTheEnd /\ ReapedOnce /\ BeforeTheLaunch
      /\ step \in {"launch", "supervise", "over", "failed"}
      /\ pipes \in [C!Pipe -> 0..MaxChunks] /\ hands \subseteq C!Pipe /\ readers \subseteq C!Pipe
      /\ owed \subseteq C!Pipe /\ open \subseteq C!Pipe /\ deadline \in Int
  BY BoundIsNat, CallNumbers, ChildrenAssumption DEF C!TypeOK, C!Pipe, C!Group, C!Off,
     CallInv, C!Pipe
<1>q. /\ events \in Seq(Messages) /\ "stop" \in Messages /\ "exited" \in Messages
      /\ "out" \in Messages /\ "err" \in Messages
  BY DEF C!TypeOK, Messages, C!Pipe
<1> USE <1>a, ChildrenAssumption
    DEF C!CallAssumption, C!Pipe, C!Group, C!Off, KeepsTheOutput, HoldersAreThere,
        ReadersReadToTheEnd, ReapedOnce, BeforeTheLaunch, C!world, C!readers, C!machine,
        C!history
<1>1. ASSUME NEW p \in C!Pipe, NEW who \in C!Group \cup {"outsider"}, C!Write(p, who)
      PROVE  KeepsTheOutput'
  BY <1>1 DEF C!Write, C!Alive
<1>2. ASSUME NEW p \in C!Pipe, NEW who \in C!Group \cup {"outsider"}, C!Close(p, who)
      PROVE  KeepsTheOutput'
  BY <1>2 DEF C!Close
<1>3. ASSUME NEW p \in C!Pipe, C!ReadChunk(p) PROVE KeepsTheOutput'
  BY <1>3 DEF C!ReadChunk
<1>4. ASSUME NEW p \in C!Pipe, C!Push(p) PROVE KeepsTheOutput'
  BY <1>4 DEF C!Push
<1>5. ASSUME NEW p \in C!Pipe, C!ReadEnd(p) PROVE KeepsTheOutput'
  BY <1>5 DEF C!ReadEnd, C!Tells
<1>6. CASE C!ProgramExits \/ C!MemberExits
  BY <1>6 DEF C!ProgramExits, C!MemberExits, C!Left
<1>7. CASE C!StopComes
  BY <1>7 DEF C!StopComes
<1>8. CASE C!LaunchFails
  BY <1>8 DEF C!LaunchFails
<1>9. CASE C!TellExit
  BY <1>9 DEF C!TellExit, C!Tells
<1>10. CASE C!Launch
  BY <1>10 DEF C!Launch
<1>11. CASE C!TakeStop
  BY <1>11 DEF C!TakeStop, C!Receive, C!Stopping, C!Signal
<1>12. CASE C!TakeExited
  <2>1. /\ step = "supervise" /\ gone' = 0
        /\ UNCHANGED <<member, owed, readers, hands, pipes, late>>
        /\ \/ open = {} /\ step' = "over"
           \/ open # {} /\ step' = step /\ deadline' = Drain
    BY <1>12 DEF C!TakeExited, C!Receive
  <2>2. ASSUME open = {} PROVE owed = {} /\ readers = {}
    BY <2>1, <2>2
  <2> QED
    BY <2>1, <2>2
<1>13. CASE C!DrainIsOver
  <2>1. /\ step = "supervise" /\ deadline = 0 /\ gone # -1
        /\ UNCHANGED <<member, owed, readers, hands, pipes, gone, reason>>
    BY <1>13 DEF C!DrainIsOver, C!Due
  <2>2. ~member
    BY <2>1
  <2>3. CASE reason # "none" \/ gone >= C!Bound \/ ~C!Readable
    <3>1. step' = "over" /\ late' = (gone >= C!Bound \/ hands # {})
      BY <1>13, <2>3 DEF C!DrainIsOver
    <3>2. ASSUME reason = "none", ~late' PROVE owed = {}
      <4>1. hands = {} /\ ~C!Readable
        BY <2>3, <3>1, <3>2
      <4>2. \A q \in C!Pipe : pipes[q] = 0
        BY <2>1, <4>1 DEF C!Readable
      <4> QED
        BY <2>1, <4>1, <4>2
    <3> QED
      BY <2>1, <2>2, <3>1, <3>2
  <2>4. CASE ~(reason # "none" \/ gone >= C!Bound \/ ~C!Readable)
    BY <1>13, <2>1, <2>2, <2>4 DEF C!DrainIsOver
  <2> QED
    BY <2>3, <2>4
<1>14. CASE C!TimesOut
  BY <1>14 DEF C!TimesOut, C!Due, C!Stopping, C!Signal
<1>15. CASE C!GraceIsOver
  BY <1>15 DEF C!GraceIsOver, C!Due, C!Signal
<1>16. ASSUME NEW p \in C!Pipe, C!TakeEof(p) PROVE KeepsTheOutput'
  <2>1. /\ step = "supervise" /\ events # <<>> /\ Head(events) = p /\ open' = open \ {p}
        /\ step' = IF open' = {} /\ gone # -1 THEN "over" ELSE step
        /\ UNCHANGED <<member, owed, readers, hands, pipes, late, gone, deadline, reason>>
    BY <1>16 DEF C!TakeEof, C!Receive
  <2>2. In(p, events)
    BY <1>q, <2>1, InTail
  <2>3. ASSUME open' = {} PROVE owed = {} /\ readers = {}
    <3>1. \A q \in C!Pipe : q \notin open \/ q = p
      BY <2>1, <2>3
    <3> QED
      BY <2>1, <2>2, <3>1
  <2> QED
    BY <2>1, <2>3
<1>17. CASE C!Tick
  <2>1. /\ step = "supervise" /\ deadline # 0 /\ ("KILL" \in signalled => ~member)
        /\ gone' = (IF gone \in 0..(C!Bound - 1) THEN gone + 1 ELSE gone)
        /\ UNCHANGED <<member, owed, readers, hands, pipes, late, step, reason>>
    BY <1>17 DEF C!Tick, C!Prompt
  <2>2. (gone' = -1 <=> gone = -1)
    BY <2>1, CallNumbers
  <2> QED
    BY <2>1, <2>2
<1> QED
  BY <1>1, <1>2, <1>3, <1>4, <1>5, <1>6, <1>7, <1>8, <1>9, <1>10, <1>11, <1>12, <1>13,
     <1>14, <1>15, <1>16, <1>17 DEF C!Next, C!Supervise

-----------------------------------------------------------------------------
(* A turn: the timers *)

\* The three timers and the time they have left.
Timers == [{"deadline", "grace", "drain"} -> T!Off..(Limit + Grace + Drain)]

\* What a pass over the timers t does.
Fired(t) ==
  /\ timer' \in Timers
  /\ \A k \in {"deadline", "grace", "drain"} :
       timer'[k] = IF t[k] = 0 THEN T!Off ELSE t[k]
  /\ timedOut' \in BOOLEAN /\ doomed' \in BOOLEAN
  /\ doomed' /\ ~doomed => (t["deadline"] = 0 /\ phase' # "Exited") \/ t["grace"] = 0
  /\ stray' /\ ~stray =>
       child' = "reaped" /\ ((t["deadline"] = 0 /\ phase' # "Exited") \/ t["grace"] = 0)
  /\ at' \in {"run", "drained", "finish"}
  /\ at' = "drained" => t["drain"] = 0
  /\ at' = "finish" => phase' = "Exited" /\ isOpen' = {}

LEMMA TimersFire ==
  ASSUME T!TypeOK, NEW t \in Timers, T!Timers(t)
  PROVE  Fired(t)
<1> DEFINE due == {k \in DOMAIN t : t[k] = 0}
           kill == ("deadline" \in due /\ phase' # "Exited") \/ "grace" \in due
<1> USE ChildrenAssumption DEF T!TurnAssumption
<1>1. /\ timer' = [k \in DOMAIN t |-> IF k \in due THEN T!Off ELSE t[k]]
      /\ timedOut' = (timedOut \/ "deadline" \in due)
      /\ doomed' = (doomed \/ (kill /\ child' # "reaped"))
      /\ stray' = (stray \/ (kill /\ child' = "reaped"))
      /\ at' = IF "drain" \in due THEN "drained"
               ELSE IF phase' = "Exited" /\ isOpen' = {} THEN "finish" ELSE "run"
  BY DEF T!Timers
<1>2. DOMAIN t = {"deadline", "grace", "drain"}
  BY DEF Timers
<1>3. \A k \in {"deadline", "grace", "drain"} : k \in due <=> t[k] = 0
  BY <1>2
<1>4. timer' \in Timers
  BY <1>1, <1>2 DEF Timers, T!Off
<1>5. timedOut' \in BOOLEAN /\ doomed' \in BOOLEAN
  BY <1>1
<1> HIDE DEF due
<1>6. /\ doomed' /\ ~doomed => kill
      /\ stray' /\ ~stray => child' = "reaped" /\ kill
  BY <1>1
<1>7. kill => (t["deadline"] = 0 /\ phase' # "Exited") \/ t["grace"] = 0
  BY <1>3
<1>8. /\ at' \in {"run", "drained", "finish"}
      /\ at' = "drained" => t["drain"] = 0
      /\ at' = "finish" => phase' = "Exited" /\ isOpen' = {}
  BY <1>1, <1>3
<1>9. \A k \in {"deadline", "grace", "drain"} :
         timer'[k] = IF t[k] = 0 THEN T!Off ELSE t[k]
  BY <1>1, <1>2, <1>3
<1> QED
  BY <1>4, <1>5, <1>6, <1>7, <1>8, <1>9 DEF Fired

\* The timers a pass starts from.
LEMMA TimersOfATake ==
  ASSUME T!TypeOK, T!TakeOut \/ T!TakeEnd \/ T!TakeExited \/ T!TimeIsUp
  PROVE  \E t \in Timers :
           /\ Fired(t)
           /\ \/ T!TakeOut /\ payload' # T!None /\ t = T!AfterResult(timer)
              \/ T!TakeOut /\ payload' = T!None /\ t = timer
              \/ (T!TakeEnd \/ T!TimeIsUp) /\ t = timer
              \/ T!TakeExited /\ t = [timer EXCEPT !["grace"] = T!Off, !["drain"] = Drain]
<1> USE ChildrenAssumption DEF T!TurnAssumption
<1>1. timer \in Timers /\ T!AfterResult(timer) \in Timers
  BY DEF T!TypeOK, Timers, T!AfterResult, T!Off
<1>2. [timer EXCEPT !["grace"] = T!Off, !["drain"] = Drain] \in Timers
  BY DEF T!TypeOK, Timers, T!Off
<1>3. CASE T!TakeOut /\ payload' # T!None
  <2>1. T!Timers(T!AfterResult(timer))
    BY <1>3 DEF T!TakeOut
  <2> QED
    BY <1>1, <1>3, <2>1, TimersFire
<1>4. CASE T!TakeOut /\ payload' = T!None
  <2>1. T!Timers(timer)
    BY <1>4 DEF T!TakeOut
  <2> QED
    BY <1>1, <1>4, <2>1, TimersFire
<1>5. CASE T!TakeEnd \/ T!TimeIsUp
  <2>1. T!Timers(timer)
    BY <1>5 DEF T!TakeEnd, T!TimeIsUp
  <2> QED
    BY <1>1, <1>5, <2>1, TimersFire
<1>6. CASE T!TakeExited
  <2>1. T!Timers([timer EXCEPT !["grace"] = T!Off, !["drain"] = Drain])
    BY <1>6 DEF T!TakeExited
  <2> QED
    BY <1>2, <1>6, <2>1, TimersFire
<1> QED
  BY <1>3, <1>4, <1>5, <1>6

-----------------------------------------------------------------------------
(* A turn: how it starts, and its types *)

LEMMA TurnStarts == T!Init => T!TypeOK /\ TurnInv
<1> SUFFICES ASSUME T!Init PROVE T!TypeOK /\ TurnInv
  OBVIOUS
<1> USE ChildrenAssumption DEF T!TurnAssumption, T!Init, T!Off, T!Pipe, T!None
<1>1. PICK limit \in {Limit, T!Off} :
         timer = [deadline |-> limit, grace |-> T!Off, drain |-> T!Off]
  OBVIOUS
<1>2. timer \in [{"deadline", "grace", "drain"} -> T!Off..(Limit + Grace + Drain)]
  BY <1>1
<1>3. timer["deadline"] = limit /\ timer["grace"] = T!Off /\ timer["drain"] = T!Off
  BY <1>1
<1>4. pipe \in Seq(T!Line) /\ queue \in Seq(T!Line \cup T!Pipe \cup {"exited"})
  OBVIOUS
<1>5. T!TypeOK
  <2>1. /\ lines \in 0..MaxLines /\ phase = "Running" /\ child = "running"
        /\ pending \in T!Line \cup {T!None} /\ hand \in T!Line \cup {T!None}
    OBVIOUS
  <2> QED
    BY <1>2, <1>3, <1>4, <2>1 DEF T!TypeOK
<1>6. Ends(queue, Told, T!None) /\ Ends(pipe, Heard(hand, T!None), last)
  BY DEF Ends, Silent, Told, Heard, T!Says
<1>7. /\ hand \notin Cuts /\ NoLine(queue) /\ ~Has(Cuts, pipe) /\ ~Has(Cuts, queue)
      /\ NoLineAfter(Cuts, pipe) /\ NoLineAfter(Cuts, queue) /\ NoLineAfter({"out"}, queue)
  BY DEF Cuts, NoLine, Has, NoLineAfter
<1> QED
  BY <1>3, <1>5, <1>6, <1>7 DEF TurnInv, ReapedBeforeTheEnd, TimersAreWhatIsLeft, EndsComeLast,
     CutIsTheLast, LastIsOnTheWay, OnTheWay, OutcomeIsOfWhatWasTold, In

LEMMA TurnTypeStep == T!TypeOK /\ TurnInv /\ T!Next => T!TypeOK'
<1> SUFFICES ASSUME T!TypeOK, TurnInv, T!Next PROVE T!TypeOK'
  OBVIOUS
<1>a. ReapedBeforeTheEnd /\ TimersAreWhatIsLeft
  BY DEF TurnInv
<1> USE <1>a, ChildrenAssumption DEF T!TurnAssumption, T!TypeOK, T!Pipe, T!None, T!Off,
        T!world, T!threads, T!machine, T!history
<1>1. ASSUME NEW l \in T!Line, T!WriteLine(l) PROVE T!TypeOK'
  BY <1>1 DEF T!WriteLine
<1>2. ASSUME NEW p \in T!Pipe, T!ClosePipe(p) PROVE T!TypeOK'
  <2>1. holds' \subseteq T!Pipe /\ heirs' \subseteq T!Pipe
    BY <1>2 DEF T!ClosePipe
  <2> QED
    BY <1>2, <2>1 DEF T!ClosePipe
<1>3. CASE T!ChildExits
  BY <1>3 DEF T!ChildExits
<1>4. CASE T!ReadLine
  BY <1>4 DEF T!ReadLine
<1>5. CASE T!SendLine
  BY <1>5 DEF T!SendLine
<1>6. ASSUME NEW p \in T!Pipe, T!ReadEnd(p) PROVE T!TypeOK'
  BY <1>6 DEF T!ReadEnd
<1>7. CASE T!TellExit
  <2>1. queue' \in Seq(T!Line \cup T!Pipe \cup {"exited"})
    BY <1>7 DEF T!TellExit
  <2>2. UNCHANGED <<child, code, doomed, holds, heirs, pipe, lines, hand, reading, at, phase, timer,
                    timedOut, isOpen, payload, pending, outcome>>
    BY <1>7 DEF T!TellExit
  <2>3. waiting' = FALSE
    BY <1>7 DEF T!TellExit
  <2>4. /\ timer' \in [{"deadline", "grace", "drain"} -> T!Off..(Limit + Grace + Drain)]
        /\ phase' = "Exited" <=> child' = "reaped"
        /\ timer'["grace"] # T!Off => phase' = "Resulted"
        /\ timer'["drain"] # T!Off => phase' = "Exited"
    BY <2>2
  <2>5. pipe' \in Seq(T!Line)
    BY <2>2
  <2>6. /\ child' \in {"running", "exited", "reaped"} /\ code' \in {"zero", "other", "signal"}
        /\ doomed' \in BOOLEAN /\ holds' \subseteq T!Pipe /\ heirs' \subseteq T!Pipe
        /\ lines' \in 0..MaxLines /\ hand' \in T!Line \cup {T!None}
        /\ reading' \subseteq T!Pipe
    BY <2>2
  <2>7. /\ at' \in {"run", "drained", "finish", "linger", "over"}
        /\ phase' \in {"Running", "Resulted", "Exited"} /\ timedOut' \in BOOLEAN
        /\ isOpen' \subseteq T!Pipe /\ payload' \in {"ok", "failed", T!None}
        /\ pending' \in T!Line \cup {T!None}
        /\ outcome' \in {T!None, "ok", "killed-after-result", "timeout", "exited"}
    BY <2>2
  <2> QED
    BY <2>1, <2>3, <2>4, <2>5, <2>6, <2>7
<1>8. CASE T!TakeOut
  <2>1. PICK t \in Timers :
          Fired(t) /\ t = IF payload' # T!None THEN T!AfterResult(timer) ELSE timer
    <3>1. ~T!TakeEnd /\ ~T!TakeExited /\ ~T!TimeIsUp
      BY <1>8 DEF T!TakeOut, T!TakeEnd, T!TakeExited, T!TimeIsUp, T!Receive, T!Line
    <3> QED
      BY <1>8, <3>1, TimersOfATake
  <2>4. /\ phase' = IF payload' # T!None /\ phase = "Running" THEN "Resulted" ELSE phase
        /\ UNCHANGED <<child, isOpen>>
    BY <1>8 DEF T!TakeOut
  <2>2. /\ phase' \in {"Running", "Resulted", "Exited"} /\ child' \in {"running", "exited", "reaped"}
        /\ phase' = "Exited" <=> child' = "reaped"
        /\ t["grace"] # T!Off => phase' = "Resulted"
        /\ t["drain"] # T!Off => phase' = "Exited"
    BY <2>1, <2>4 DEF T!AfterResult
  <2>3. /\ queue' \in Seq(T!Line \cup T!Pipe \cup {"exited"})
        /\ payload' \in {"ok", "failed", T!None} /\ pending' \in T!Line \cup {T!None}
    <3>1. PICK l \in T!Line : T!Receive(l) /\ T!Hear(l)
      BY <1>8 DEF T!TakeOut
    <3> QED
      BY <3>1 DEF T!Receive, T!Hear, T!Says
  <2>9. /\ timer' \in Timers /\ at' \in {"run", "drained", "finish"}
        /\ timedOut' \in BOOLEAN /\ doomed' \in BOOLEAN
        /\ timer'["grace"] # T!Off => phase' = "Resulted"
        /\ timer'["drain"] # T!Off => phase' = "Exited"
    BY <2>1, <2>2 DEF Fired
  <2> QED
    BY <1>8, <2>4, <2>2, <2>3, <2>9 DEF Timers, T!TakeOut
<1>9. CASE T!TakeEnd
  <2>1. PICK t \in Timers : Fired(t) /\ t = timer
    <3>1. ~T!TakeOut /\ ~T!TakeExited
      BY <1>9 DEF T!TakeOut, T!TakeEnd, T!TakeExited, T!Receive, T!Line
    <3> QED
      BY <1>9, <3>1, TimersOfATake
  <2>2. UNCHANGED <<phase, child>>
    BY <1>9 DEF T!TakeEnd
  <2>3. /\ queue' \in Seq(T!Line \cup T!Pipe \cup {"exited"})
        /\ isOpen' \subseteq T!Pipe
    BY <1>9 DEF T!TakeEnd, T!Receive
  <2>9. /\ timer' \in Timers /\ at' \in {"run", "drained", "finish"}
        /\ timedOut' \in BOOLEAN /\ doomed' \in BOOLEAN
        /\ timer'["grace"] # T!Off => phase' = "Resulted"
        /\ timer'["drain"] # T!Off => phase' = "Exited"
    BY <2>1, <2>2 DEF Fired
  <2> QED
    BY <1>9, <2>2, <2>3, <2>9 DEF Timers, T!TakeEnd
<1>10. CASE T!TakeExited
  <2>1. PICK t \in Timers :
          Fired(t) /\ t = [timer EXCEPT !["grace"] = T!Off, !["drain"] = Drain]
    <3>1. ~T!TakeOut /\ ~T!TakeEnd /\ ~T!TimeIsUp
      BY <1>10 DEF T!TakeOut, T!TakeEnd, T!TakeExited, T!TimeIsUp, T!Receive, T!Line
    <3> QED
      BY <1>10, <3>1, TimersOfATake
  <2>2. phase' = "Exited" /\ child' = "reaped" /\ t["grace"] = T!Off
    BY <1>10, <2>1 DEF T!TakeExited
  <2>3. /\ queue' \in Seq(T!Line \cup T!Pipe \cup {"exited"})
        /\ isOpen' = isOpen
    BY <1>10 DEF T!TakeExited, T!Receive
  <2>9. /\ timer' \in Timers /\ at' \in {"run", "drained", "finish"}
        /\ timedOut' \in BOOLEAN /\ doomed' \in BOOLEAN
        /\ timer'["grace"] # T!Off => phase' = "Resulted"
        /\ timer'["drain"] # T!Off => phase' = "Exited"
    BY <2>1, <2>2 DEF Fired
  <2> QED
    BY <1>10, <2>2, <2>3, <2>9 DEF Timers, T!TakeExited
<1>11. CASE T!TimeIsUp
  <2>1. PICK t \in Timers : Fired(t) /\ t = timer
    <3>1. ~T!TakeOut /\ ~T!TakeExited
      BY <1>11 DEF T!TakeOut, T!TakeExited, T!TimeIsUp, T!Receive
    <3> QED
      BY <1>11, <3>1, TimersOfATake
  <2>2. UNCHANGED <<phase, child>>
    BY <1>11 DEF T!TimeIsUp
  <2>3. UNCHANGED <<queue, isOpen>>
    BY <1>11 DEF T!TimeIsUp
  <2>9. /\ timer' \in Timers /\ at' \in {"run", "drained", "finish"}
        /\ timedOut' \in BOOLEAN /\ doomed' \in BOOLEAN
        /\ timer'["grace"] # T!Off => phase' = "Resulted"
        /\ timer'["drain"] # T!Off => phase' = "Exited"
    BY <2>1, <2>2 DEF Fired
  <2> QED
    BY <1>11, <2>2, <2>3, <2>9 DEF Timers, T!TimeIsUp
<1>12. CASE T!DrainTake
  <2>1. /\ timer' = timer \/ timer' = T!AfterResult(timer)
        /\ at = "drained" /\ phase = "Exited"
    BY <1>12 DEF T!DrainTake, ReapedBeforeTheEnd
  <2>5. UNCHANGED <<child, code, doomed, holds, heirs, pipe, lines, hand, reading, waiting, at,
                    phase, timedOut, outcome>>
    BY <1>12 DEF T!DrainTake
  <2>2. timer' = timer \/ timer' = [timer EXCEPT !["deadline"] = T!Off]
    BY <2>1 DEF T!AfterResult
  <2>3. /\ queue' \in Seq(T!Line \cup T!Pipe \cup {"exited"}) /\ isOpen' \subseteq T!Pipe
        /\ payload' \in {"ok", "failed", T!None} /\ pending' \in T!Line \cup {T!None}
    <3>1. CASE \E l \in T!Line : T!Receive(l) /\ T!Hear(l) /\ UNCHANGED isOpen
      <4>1. PICK l \in T!Line : T!Receive(l) /\ T!Hear(l) /\ UNCHANGED isOpen
        BY <3>1
      <4> QED
        BY <4>1 DEF T!Receive, T!Hear, T!Says
    <3>2. CASE \E p \in T!Pipe :
                 T!Receive(p) /\ isOpen' = isOpen \ {p} /\ UNCHANGED <<payload, pending>>
      BY <3>2 DEF T!Receive
    <3> QED
      BY <1>12, <3>1, <3>2 DEF T!DrainTake
  <2>4. /\ timer' \in [{"deadline", "grace", "drain"} -> T!Off..(Limit + Grace + Drain)]
        /\ timer'["grace"] # T!Off => phase' = "Resulted"
        /\ timer'["drain"] # T!Off => phase' = "Exited"
    BY <2>1, <2>2, <2>5
  <2> QED
    BY <2>1, <2>3, <2>4, <2>5
<1>13. CASE T!DrainStops
  BY <1>13 DEF T!DrainStops
<1>14. CASE T!DrainGivesUp
  BY <1>14 DEF T!DrainGivesUp
<1>15. CASE T!Finish
  <2>1. /\ timer' = timer \/ timer' = T!AfterResult(timer)
        /\ at = "finish" /\ phase = "Exited" /\ at' = "linger" /\ pending' = T!None
        /\ payload' = (IF pending # T!None THEN T!Says(pending) ELSE payload)
    BY <1>15 DEF T!Finish, ReapedBeforeTheEnd
  <2>6. UNCHANGED <<child, code, doomed, holds, heirs, pipe, lines, hand, reading, waiting, queue,
                    phase, timedOut, isOpen>>
    BY <1>15 DEF T!Finish
  <2>2. timer' = timer \/ timer' = [timer EXCEPT !["deadline"] = T!Off]
    BY <2>1 DEF T!AfterResult
  <2>3. payload' \in {"ok", "failed", T!None}
    BY <2>1 DEF T!Says
  <2>4. outcome' \in {T!None, "ok", "killed-after-result", "timeout", "exited"}
    BY <1>15 DEF T!Finish
  <2>5. /\ timer' \in [{"deadline", "grace", "drain"} -> T!Off..(Limit + Grace + Drain)]
        /\ timer'["grace"] # T!Off => phase' = "Resulted"
        /\ timer'["drain"] # T!Off => phase' = "Exited"
    BY <2>1, <2>2, <2>6
  <2> QED
    BY <2>1, <2>3, <2>4, <2>5, <2>6
<1>16. CASE T!Linger
  <2>1. \/ isOpen = {} /\ at' = "over" /\ UNCHANGED <<queue, isOpen>>
        \/ /\ queue # <<>> /\ queue' = Tail(queue) /\ isOpen' = isOpen \ {Head(queue)}
           /\ at' = "linger"
    BY <1>16 DEF T!Linger
  <2>3. /\ queue' \in Seq(T!Line \cup T!Pipe \cup {"exited"}) /\ isOpen' \subseteq T!Pipe
        /\ at' \in {"linger", "over"}
    <3>1. CASE UNCHANGED <<queue, isOpen>>
      BY <2>1, <3>1
    <3>2. CASE queue # <<>> /\ queue' = Tail(queue) /\ isOpen' = isOpen \ {Head(queue)}
      <4>1. queue' \in Seq(T!Line \cup T!Pipe \cup {"exited"})
        BY <3>2
      <4> QED
        BY <2>1, <3>2, <4>1
    <3> QED
      BY <2>1, <3>1, <3>2
  <2>2. UNCHANGED <<child, code, doomed, holds, heirs, pipe, lines, hand, reading, waiting, phase,
                    timer, timedOut, payload, pending, outcome>>
    BY <1>16 DEF T!Linger
  <2> QED
    BY <2>2, <2>3
<1>17. CASE T!Tick
  BY <1>17 DEF T!Tick
<1>e. "out" \in T!Pipe /\ "err" \in T!Pipe
  BY DEF T!Pipe
<1> QED
  BY <1>e, <1>1, <1>2, <1>3, <1>4, <1>5, <1>6, <1>7, <1>8, <1>9, <1>10, <1>11, <1>12,
     <1>13, <1>14, <1>15, <1>16, <1>17 DEF T!Next, T!Loop, T!ReaderOut

\* What the machine knows after a message or a timer, before the pass.
LEMMA TakeOf ==
  ASSUME T!TypeOK, TurnInv, T!TakeOut \/ T!TakeEnd \/ T!TakeExited \/ T!TimeIsUp
  PROVE  \E t \in Timers :
           /\ Fired(t)
           /\ t["grace"] # T!Off => phase' = "Resulted"
           /\ t["drain"] # T!Off => phase' = "Exited"
           /\ (phase' = "Exited" <=> child' = "reaped")
           /\ t["deadline"] # T!Off => payload' = T!None /\ t["deadline"] + age = Limit
           /\ t["grace"] \in {timer["grace"], T!Off} \/ (t["grace"] = Grace /\ since = 0)
           /\ phase' = "Running" => payload' = T!None
           /\ phase' = "Resulted" => payload' # T!None
           /\ payload' = T!None => payload = T!None
           /\ UNCHANGED <<age, since, outcome, last, missed>> /\ at = "run"
<1> USE ChildrenAssumption DEF T!TurnAssumption
<1>a. /\ TimersAreWhatIsLeft /\ timer \in Timers
      /\ (phase = "Exited" <=> child = "reaped")
      /\ timer["grace"] # T!Off => phase = "Resulted"
      /\ timer["drain"] # T!Off => phase = "Exited"
      /\ phase \in {"Running", "Resulted", "Exited"}
  BY DEF TurnInv, T!TypeOK, Timers
<1>b. UNCHANGED <<age, since, outcome, last, missed>> /\ at = "run"
  BY DEF T!TakeOut, T!TakeEnd, T!TakeExited, T!TimeIsUp, T!threads
<1>c. ASSUME T!TakeOut
      PROVE  /\ payload' = T!None => payload = T!None
             /\ phase' = IF payload' # T!None /\ phase = "Running" THEN "Resulted" ELSE phase
             /\ child' = child
  <2>1. payload' = T!None => payload = T!None
    BY <1>c DEF T!TakeOut, T!Hear
  <2> QED
    BY <1>c, <2>1 DEF T!TakeOut
<1>d. ASSUME ~T!TakeOut PROVE payload' = payload
  BY <1>d DEF T!TakeEnd, T!TakeExited, T!TimeIsUp
<1>e. PICK t \in Timers :
        /\ Fired(t)
        /\ \/ T!TakeOut /\ payload' # T!None /\ t = T!AfterResult(timer)
           \/ T!TakeOut /\ payload' = T!None /\ t = timer
           \/ (T!TakeEnd \/ T!TimeIsUp) /\ t = timer
           \/ T!TakeExited /\ t = [timer EXCEPT !["grace"] = T!Off, !["drain"] = Drain]
  BY TimersOfATake
<1> USE DEF TimersAreWhatIsLeft, Timers, T!Off
<1>1. CASE T!TakeOut /\ payload' # T!None /\ t = T!AfterResult(timer)
  BY <1>1, <1>a, <1>b, <1>c, <1>e DEF T!AfterResult
<1>2. CASE T!TakeOut /\ payload' = T!None /\ t = timer
  BY <1>2, <1>a, <1>b, <1>c, <1>e
<1>3. CASE ~T!TakeOut /\ (T!TakeEnd \/ T!TimeIsUp) /\ t = timer
  <2>1. UNCHANGED <<phase, child>>
    BY <1>3 DEF T!TakeEnd, T!TimeIsUp
  <2> QED
    BY <1>3, <1>a, <1>b, <1>d, <1>e, <2>1
<1>4. CASE ~T!TakeOut /\ T!TakeExited /\ t = [timer EXCEPT !["grace"] = T!Off, !["drain"] = Drain]
  <2>1. phase' = "Exited" /\ child' = "reaped"
    BY <1>4 DEF T!TakeExited
  <2> QED
    BY <1>4, <1>a, <1>b, <1>d, <1>e, <2>1
<1>5. T!TakeOut => ~T!TakeEnd /\ ~T!TakeExited /\ ~T!TimeIsUp
  BY DEF T!TakeOut, T!TakeEnd, T!TakeExited, T!TimeIsUp, T!Receive, T!Line, T!Pipe
<1> QED
  BY <1>1, <1>2, <1>3, <1>4, <1>5, <1>e

-----------------------------------------------------------------------------
(* A turn: the steps keep the strengthening *)

LEMMA ReapedEndStep == T!TypeOK /\ TurnInv /\ T!Next => ReapedBeforeTheEnd'
<1> SUFFICES ASSUME T!TypeOK, TurnInv, T!Next PROVE ReapedBeforeTheEnd'
  OBVIOUS
<1>a. ReapedBeforeTheEnd /\ timedOut \in BOOLEAN /\ code \in {"zero", "other", "signal"}
      /\ at \in {"run", "drained", "finish", "linger", "over"}
  BY DEF T!TypeOK, T!Pipe, T!None, T!Off, TurnInv
<1> USE <1>a, ChildrenAssumption
    DEF T!TurnAssumption, T!Pipe, T!None, T!Off, ReapedBeforeTheEnd, T!world, T!threads,
        T!machine, T!history
<1>1. ASSUME NEW l \in T!Line, T!WriteLine(l) PROVE ReapedBeforeTheEnd'
  BY <1>1 DEF T!WriteLine
<1>2. ASSUME NEW p \in T!Pipe, T!ClosePipe(p) PROVE ReapedBeforeTheEnd'
  BY <1>2 DEF T!ClosePipe
<1>3. CASE T!ChildExits
  BY <1>3 DEF T!ChildExits
<1>4. CASE T!ReadLine
  BY <1>4 DEF T!ReadLine
<1>5. CASE T!SendLine
  BY <1>5 DEF T!SendLine
<1>6. ASSUME NEW p \in T!Pipe, T!ReadEnd(p) PROVE ReapedBeforeTheEnd'
  BY <1>6 DEF T!ReadEnd
<1>7. CASE T!TellExit
  BY <1>7 DEF T!TellExit
<1>8. CASE T!TakeOut \/ T!TakeEnd \/ T!TakeExited \/ T!TimeIsUp
  <2>1. PICK t \in Timers :
          /\ Fired(t)
          /\ t["grace"] # T!Off => phase' = "Resulted"
          /\ t["drain"] # T!Off => phase' = "Exited"
          /\ (phase' = "Exited" <=> child' = "reaped")
          /\ t["deadline"] # T!Off => payload' = T!None /\ t["deadline"] + age = Limit
          /\ t["grace"] \in {timer["grace"], T!Off} \/ (t["grace"] = Grace /\ since = 0)
          /\ phase' = "Running" => payload' = T!None
          /\ phase' = "Resulted" => payload' # T!None
          /\ payload' = T!None => payload = T!None
          /\ UNCHANGED <<age, since, outcome, last, missed>> /\ at = "run"
    BY <1>8, TakeOf
  <2>2. ~stray'
    <3>1. stray' => child' = "reaped" /\ ((t["deadline"] = 0 /\ phase' # "Exited") \/ t["grace"] = 0)
      BY <2>1 DEF Fired
    <3> QED
      BY <2>1, <3>1
  <2>3. /\ at' \in {"run", "drained", "finish"}
        /\ at' = "drained" => t["drain"] = 0
        /\ at' = "finish" => phase' = "Exited"
    BY <2>1 DEF Fired
  <2> QED
    BY <2>1, <2>2, <2>3
<1>9. CASE T!DrainTake
  BY <1>9 DEF T!DrainTake, T!Receive, T!Hear, T!AfterResult
<1>10. CASE T!DrainStops
  BY <1>10 DEF T!DrainStops
<1>11. CASE T!DrainGivesUp
  BY <1>11 DEF T!DrainGivesUp
<1>12. CASE T!Finish
  BY <1>12 DEF T!Finish, T!AfterResult
<1>13. CASE T!Linger
  BY <1>13 DEF T!Linger
<1>14. CASE T!Tick
  BY <1>14 DEF T!Tick
<1> QED
  BY <1>1, <1>2, <1>3, <1>4, <1>5, <1>6, <1>7, <1>8, <1>9, <1>10, <1>11, <1>12, <1>13,
     <1>14 DEF T!Next, T!Loop, T!ReaderOut

LEMMA TimersStep == T!TypeOK /\ TurnInv /\ T!Next => TimersAreWhatIsLeft'
<1> SUFFICES ASSUME T!TypeOK, TurnInv, T!Next PROVE TimersAreWhatIsLeft'
  OBVIOUS
<1>a. /\ TimersAreWhatIsLeft /\ ReapedBeforeTheEnd /\ CutIsTheLast
      /\ phase \in {"Running", "Resulted", "Exited"} /\ timer \in Timers
      /\ timer["grace"] # T!Off => phase = "Resulted"
  BY DEF T!TypeOK, T!Pipe, T!None, T!Off, TurnInv, Timers
<1> USE <1>a, ChildrenAssumption
    DEF T!TurnAssumption, T!Pipe, T!None, T!Off, TimersAreWhatIsLeft, ReapedBeforeTheEnd,
        Timers, T!world, T!threads, T!machine, T!history
<1>1. ASSUME NEW l \in T!Line, T!WriteLine(l) PROVE TimersAreWhatIsLeft'
  BY <1>1 DEF T!WriteLine
<1>2. ASSUME NEW p \in T!Pipe, T!ClosePipe(p) PROVE TimersAreWhatIsLeft'
  BY <1>2 DEF T!ClosePipe
<1>3. CASE T!ChildExits
  BY <1>3 DEF T!ChildExits
<1>4. CASE T!ReadLine
  BY <1>4 DEF T!ReadLine
<1>5. CASE T!SendLine
  BY <1>5 DEF T!SendLine
<1>6. ASSUME NEW p \in T!Pipe, T!ReadEnd(p) PROVE TimersAreWhatIsLeft'
  BY <1>6 DEF T!ReadEnd
<1>7. CASE T!TellExit
  BY <1>7 DEF T!TellExit
<1>8. CASE T!TakeOut \/ T!TakeEnd \/ T!TakeExited \/ T!TimeIsUp
  <2>1. PICK t \in Timers :
          /\ Fired(t)
          /\ t["grace"] # T!Off => phase' = "Resulted"
          /\ t["drain"] # T!Off => phase' = "Exited"
          /\ (phase' = "Exited" <=> child' = "reaped")
          /\ t["deadline"] # T!Off => payload' = T!None /\ t["deadline"] + age = Limit
          /\ t["grace"] \in {timer["grace"], T!Off} \/ (t["grace"] = Grace /\ since = 0)
          /\ phase' = "Running" => payload' = T!None
          /\ phase' = "Resulted" => payload' # T!None
          /\ payload' = T!None => payload = T!None
          /\ UNCHANGED <<age, since, outcome, last, missed>> /\ at = "run"
    BY <1>8, TakeOf
  <2>2. /\ timer' \in Timers
        /\ \A k \in {"deadline", "grace", "drain"} :
             timer'[k] = IF t[k] = 0 THEN T!Off ELSE t[k]
    BY <2>1 DEF Fired
  <2> QED
    BY <2>1, <2>2 DEF Timers
<1>9. CASE T!DrainTake
  BY <1>9 DEF T!DrainTake, T!Receive, T!Hear, T!AfterResult
<1>10. CASE T!DrainStops
  BY <1>10 DEF T!DrainStops
<1>11. CASE T!DrainGivesUp
  BY <1>11 DEF T!DrainGivesUp
<1>12. CASE T!Finish
  <2>1. payload' = T!None => payload = T!None
    BY <1>12 DEF T!Finish, CutIsTheLast, Cuts, T!Says
  <2>2. /\ phase = "Exited" /\ phase' = phase /\ UNCHANGED <<age, since>>
        /\ timer' = IF payload' # T!None THEN T!AfterResult(timer) ELSE timer
    BY <1>12 DEF T!Finish
  <2>3. timer' = IF payload' # T!None THEN [timer EXCEPT !["deadline"] = T!Off] ELSE timer
    BY <2>2 DEF T!AfterResult
  <2> QED
    BY <2>1, <2>2, <2>3
<1>13. CASE T!Linger
  BY <1>13 DEF T!Linger
<1>14. CASE T!Tick
  BY <1>14 DEF T!Tick
<1> QED
  BY <1>1, <1>2, <1>3, <1>4, <1>5, <1>6, <1>7, <1>8, <1>9, <1>10, <1>11, <1>12, <1>13,
     <1>14 DEF T!Next, T!Loop, T!ReaderOut

\* What NoEarlyKill says of a step.
KillIsDue == doomed' /\ ~doomed => (age = Limit /\ payload' = T!None) \/ since = Grace

LEMMA KillStep == T!TypeOK /\ TurnInv /\ T!Next => KillIsDue
<1> SUFFICES ASSUME T!TypeOK, TurnInv, T!Next PROVE KillIsDue
  OBVIOUS
<1>a. /\ TimersAreWhatIsLeft /\ timer \in Timers
  BY DEF T!TypeOK, T!Pipe, T!None, T!Off, TurnInv, Timers
<1> USE <1>a, ChildrenAssumption
    DEF KillIsDue, T!TurnAssumption, T!Pipe, T!None, T!Off, TimersAreWhatIsLeft, T!world,
        T!threads,
        T!machine, T!history
<1>1. ASSUME NEW l \in T!Line, T!WriteLine(l)
      PROVE  KillIsDue
  BY <1>1 DEF T!WriteLine
<1>2. ASSUME NEW p \in T!Pipe, T!ClosePipe(p)
      PROVE  KillIsDue
  BY <1>2 DEF T!ClosePipe
<1>3. CASE T!ChildExits
  BY <1>3 DEF T!ChildExits
<1>4. CASE T!ReadLine
  BY <1>4 DEF T!ReadLine
<1>5. CASE T!SendLine
  BY <1>5 DEF T!SendLine
<1>6. ASSUME NEW p \in T!Pipe, T!ReadEnd(p)
      PROVE  KillIsDue
  BY <1>6 DEF T!ReadEnd
<1>7. CASE T!TellExit
  BY <1>7 DEF T!TellExit
<1>8. CASE T!TakeOut \/ T!TakeEnd \/ T!TakeExited \/ T!TimeIsUp
  <2>1. PICK t \in Timers :
          /\ Fired(t)
          /\ t["grace"] # T!Off => phase' = "Resulted"
          /\ t["drain"] # T!Off => phase' = "Exited"
          /\ (phase' = "Exited" <=> child' = "reaped")
          /\ t["deadline"] # T!Off => payload' = T!None /\ t["deadline"] + age = Limit
          /\ t["grace"] \in {timer["grace"], T!Off} \/ (t["grace"] = Grace /\ since = 0)
          /\ phase' = "Running" => payload' = T!None
          /\ phase' = "Resulted" => payload' # T!None
          /\ payload' = T!None => payload = T!None
          /\ UNCHANGED <<age, since, outcome, last, missed>> /\ at = "run"
    BY <1>8, TakeOf
  <2>2. doomed' /\ ~doomed => (t["deadline"] = 0 /\ phase' # "Exited") \/ t["grace"] = 0
    BY <2>1 DEF Fired
  <2>3. t["grace"] = 0 => timer["grace"] = 0
    BY <2>1
  <2> QED
    BY <2>1, <2>2, <2>3
<1>9. CASE T!DrainTake
  BY <1>9 DEF T!DrainTake, T!Receive, T!Hear, T!AfterResult
<1>10. CASE T!DrainStops
  BY <1>10 DEF T!DrainStops
<1>11. CASE T!DrainGivesUp
  BY <1>11 DEF T!DrainGivesUp
<1>12. CASE T!Finish
  BY <1>12 DEF T!Finish, T!AfterResult
<1>13. CASE T!Linger
  BY <1>13 DEF T!Linger
<1>14. CASE T!Tick
  BY <1>14 DEF T!Tick
<1> QED
  BY <1>1, <1>2, <1>3, <1>4, <1>5, <1>6, <1>7, <1>8, <1>9, <1>10, <1>11, <1>12, <1>13,
     <1>14 DEF T!Next, T!Loop, T!ReaderOut

\* A pass takes the first message, if any, and what it takes is a line, an end
\* or the exit.
LEMMA TakesTheFirst ==
  ASSUME T!TypeOK, T!TakeOut \/ T!TakeEnd \/ T!TakeExited \/ T!TimeIsUp
  PROVE  /\ \/ queue' = queue /\ isOpen' = isOpen
            \/ /\ queue # <<>> /\ queue' = Tail(queue)
               /\ isOpen' = isOpen \/ isOpen' = isOpen \ {Head(queue)}
         /\ UNCHANGED <<holds, heirs, reading, pipe, hand, lines>>
         /\ at' \in {"run", "drained", "finish"}
<1>1. at' \in {"run", "drained", "finish"}
  BY TimersOfATake DEF Fired
<1>2. CASE T!TakeOut
  BY <1>1, <1>2 DEF T!TakeOut, T!Receive
<1>3. CASE T!TakeEnd
  BY <1>1, <1>3 DEF T!TakeEnd, T!Receive
<1>4. CASE T!TakeExited
  BY <1>1, <1>4 DEF T!TakeExited, T!Receive
<1>5. CASE T!TimeIsUp
  BY <1>1, <1>5 DEF T!TimeIsUp, T!threads
<1> QED
  BY <1>2, <1>3, <1>4, <1>5

LEMMA PipeEndsStep == T!TypeOK /\ TurnInv /\ T!Next => EndsComeLast'
<1> SUFFICES ASSUME T!TypeOK, TurnInv, T!Next PROVE EndsComeLast'
  OBVIOUS
<1>a. /\ EndsComeLast
      /\ queue \in Seq(T!Line \cup T!Pipe \cup {"exited"}) /\ pipe \in Seq(T!Line)
      /\ hand \in T!Line \cup {T!None} /\ pending \in T!Line \cup {T!None}
      /\ isOpen \subseteq T!Pipe /\ reading \subseteq T!Pipe /\ holds \subseteq T!Pipe
      /\ heirs \subseteq T!Pipe
  BY DEF T!TypeOK, T!Pipe, T!None, T!Off, TurnInv
<1> USE <1>a, ChildrenAssumption DEF T!TurnAssumption, T!Pipe, T!None, T!Off, EndsComeLast,
        T!world, T!threads, T!machine, T!history
<1>m. /\ \A x \in T!Pipe \cup {"exited"} : x \notin T!Line
      /\ \A l \in T!Line : l \notin T!Pipe /\ l # T!None
      /\ "exited" \notin T!Pipe /\ "out" \in T!Pipe
  BY DEF T!Pipe, T!Line, T!None
<1>1. ASSUME NEW l \in T!Line, T!WriteLine(l) PROVE EndsComeLast'
  BY <1>1 DEF T!WriteLine
<1>2. ASSUME NEW p \in T!Pipe, T!ClosePipe(p) PROVE EndsComeLast'
  BY <1>2 DEF T!ClosePipe
<1>3. CASE T!ChildExits
  BY <1>3 DEF T!ChildExits
<1>4. CASE T!ReadLine
  <2>1. /\ "out" \in reading /\ pipe' = Tail(pipe)
        /\ UNCHANGED <<queue, isOpen, reading, holds, heirs, at>>
    BY <1>4 DEF T!ReadLine
  <2> QED
    BY <2>1
<1>5. CASE T!SendLine
  <2>1. queue' = Append(queue, hand) /\ hand \in T!Line /\ hand' = T!None
        /\ UNCHANGED <<isOpen, reading, holds, heirs, pipe, at>>
    BY <1>5 DEF T!SendLine
  <2>2. \A q \in T!Pipe : In(q, queue') => In(q, queue)
    BY <1>m, <2>1, InAppend
  <2>3. "out" \in isOpen /\ ~Has({"out"}, queue)
    BY <1>m, <2>1 DEF In, Has
  <2>4. NoLineAfter({"out"}, queue')
    BY <1>m, <2>1, <2>3, HasAppend
  <2> QED
    BY <2>1, <2>2, <2>3, <2>4
<1>6. ASSUME NEW p \in T!Pipe, T!ReadEnd(p) PROVE EndsComeLast'
  <2>1. queue' = Append(queue, p)
    BY <1>6 DEF T!ReadEnd
  <2>2. \A q \in T!Pipe : In(q, queue') => In(q, queue) \/ q = p
    BY <1>6, <1>m, <2>1, InAppend DEF T!ReadEnd
  <2>3. /\ NoLine(queue) => NoLine(queue')
        /\ NoLineAfter({"out"}, queue')
    BY <1>6, <1>m, <2>1, HasAppend DEF T!ReadEnd
  <2> QED
    BY <1>6, <1>m, <2>2, <2>3 DEF T!ReadEnd
<1>7. CASE T!TellExit
  <2>1. queue' = Append(queue, "exited")
    BY <1>7 DEF T!TellExit
  <2>2. \A q \in T!Pipe : In(q, queue') => In(q, queue) \/ q = "exited"
    BY <1>7, <1>m, <2>1, InAppend DEF T!TellExit
  <2>3. /\ NoLine(queue) => NoLine(queue')
        /\ NoLineAfter({"out"}, queue')
    BY <1>7, <1>m, <2>1, HasAppend DEF T!TellExit
  <2> QED
    BY <1>7, <1>m, <2>2, <2>3 DEF T!TellExit
<1>8. CASE T!TakeOut \/ T!TakeEnd \/ T!TakeExited \/ T!TimeIsUp
  <2>1. /\ \/ queue' = queue /\ isOpen' = isOpen
           \/ /\ queue # <<>> /\ queue' = Tail(queue)
              /\ isOpen' = isOpen \/ isOpen' = isOpen \ {Head(queue)}
        /\ UNCHANGED <<holds, heirs, reading, pipe, hand, lines>>
        /\ at' # "over"
    BY <1>8, TakesTheFirst
  <2>2. ASSUME queue # <<>>, queue' = Tail(queue)
        PROVE  /\ \A q \in T!Pipe : In(q, queue') => In(q, queue)
               /\ In(Head(queue), queue)
               /\ NoLine(queue) => NoLine(queue')
               /\ NoLineAfter({"out"}, queue')
               /\ Head(queue) = "out" => NoLine(queue')
    BY <2>2, InTail, HasTail
  <2>3. \A p \in T!Pipe : p \notin isOpen' => p \notin isOpen \/ (queue # <<>> /\ p = Head(queue))
    BY <2>1
  <2>4. \A p \in T!Pipe : p \notin isOpen' \/ In(p, queue') => p \notin reading
    BY <2>1, <2>2, <2>3
  <2>5. ("out" \notin isOpen' => NoLine(queue')) /\ NoLineAfter({"out"}, queue')
    BY <1>m, <2>1, <2>2, <2>3
  <2> QED
    BY <2>1, <2>4, <2>5
<1>9. CASE T!DrainTake
  <2>1. /\ \/ queue' = queue /\ isOpen' = isOpen
           \/ /\ queue # <<>> /\ queue' = Tail(queue)
              /\ isOpen' = isOpen \/ isOpen' = isOpen \ {Head(queue)}
        /\ UNCHANGED <<holds, heirs, reading, pipe, hand, lines>>
        /\ at' # "over"
    BY <1>9 DEF T!DrainTake, T!Receive
  <2>2. ASSUME queue # <<>>, queue' = Tail(queue)
        PROVE  /\ \A q \in T!Pipe : In(q, queue') => In(q, queue)
               /\ In(Head(queue), queue)
               /\ NoLine(queue) => NoLine(queue')
               /\ NoLineAfter({"out"}, queue')
               /\ Head(queue) = "out" => NoLine(queue')
    BY <2>2, InTail, HasTail
  <2>3. \A p \in T!Pipe : p \notin isOpen' => p \notin isOpen \/ (queue # <<>> /\ p = Head(queue))
    BY <2>1
  <2>4. \A p \in T!Pipe : p \notin isOpen' \/ In(p, queue') => p \notin reading
    BY <2>1, <2>2, <2>3
  <2>5. ("out" \notin isOpen' => NoLine(queue')) /\ NoLineAfter({"out"}, queue')
    BY <1>m, <2>1, <2>2, <2>3
  <2> QED
    BY <2>1, <2>4, <2>5
<1>10. CASE T!DrainStops
  BY <1>10 DEF T!DrainStops
<1>11. CASE T!DrainGivesUp
  BY <1>11 DEF T!DrainGivesUp
<1>12. CASE T!Finish
  BY <1>12 DEF T!Finish, T!AfterResult
<1>13. CASE T!Linger
  <2>1. /\ \/ isOpen = {} /\ at' = "over" /\ queue' = queue /\ isOpen' = isOpen
           \/ /\ queue # <<>> /\ queue' = Tail(queue) /\ isOpen' = isOpen \ {Head(queue)}
              /\ at' = "linger"
        /\ UNCHANGED <<holds, heirs, reading, pipe, hand, lines>>
    BY <1>13 DEF T!Linger
  <2>2. ASSUME queue # <<>>, queue' = Tail(queue)
        PROVE  /\ \A q \in T!Pipe : In(q, queue') => In(q, queue)
               /\ In(Head(queue), queue)
               /\ NoLine(queue) => NoLine(queue')
               /\ NoLineAfter({"out"}, queue')
               /\ Head(queue) = "out" => NoLine(queue')
    BY <2>2, InTail, HasTail
  <2>3. \A p \in T!Pipe : p \notin isOpen' => p \notin isOpen \/ (queue # <<>> /\ p = Head(queue))
    BY <2>1
  <2>4. \A p \in T!Pipe : p \notin isOpen' \/ In(p, queue') => p \notin reading
    BY <2>1, <2>2, <2>3
  <2>5. ("out" \notin isOpen' => NoLine(queue')) /\ NoLineAfter({"out"}, queue')
    BY <1>m, <2>1, <2>2, <2>3
  <2> QED
    BY <2>1, <2>4, <2>5
<1>14. CASE T!Tick
  BY <1>14 DEF T!Tick
<1> QED
  BY <1>1, <1>2, <1>3, <1>4, <1>5, <1>6, <1>7, <1>8, <1>9, <1>10, <1>11, <1>12, <1>13,
     <1>14 DEF T!Next, T!Loop, T!ReaderOut

LEMMA CutStep == T!TypeOK /\ TurnInv /\ T!Next => CutIsTheLast'
<1> SUFFICES ASSUME T!TypeOK, TurnInv, T!Next PROVE CutIsTheLast'
  OBVIOUS
<1>a. /\ CutIsTheLast /\ lines \in Nat
      /\ queue \in Seq(T!Line \cup T!Pipe \cup {"exited"}) /\ pipe \in Seq(T!Line)
      /\ hand \in T!Line \cup {T!None} /\ pending \in T!Line \cup {T!None}
  BY DEF T!TypeOK, T!Pipe, T!None, T!Off, TurnInv
<1> USE <1>a, ChildrenAssumption DEF T!TurnAssumption, T!Pipe, T!None, T!Off, CutIsTheLast,
        T!world, T!threads, T!machine, T!history
<1>n. /\ \A x \in T!Pipe \cup {"exited"} : x \notin Cuts /\ x \notin T!Line /\ T!Says(x) = T!None
      /\ \A x : T!Cut(x) <=> x \in Cuts
      /\ T!None \notin Cuts /\ T!None \notin T!Line /\ T!Says(T!None) = T!None
      /\ \A x : T!Says(x) # T!None => x \in T!Line
      /\ \A x \in Cuts : T!Says(x) # T!None
  BY DEF T!Pipe, T!Line, T!None, Cuts, T!Cut, T!Says
<1>1. ASSUME NEW l \in T!Line, T!WriteLine(l) PROVE CutIsTheLast'
  <2>1. /\ lines > 0 /\ pipe' = Append(pipe, l) /\ lines' = (IF l \in Cuts THEN 0 ELSE lines - 1)
        /\ UNCHANGED <<queue, hand, pending>>
    BY <1>1, <1>n DEF T!WriteLine
  <2>2. /\ Has(Cuts, pipe') <=> Has(Cuts, pipe) \/ l \in Cuts
        /\ NoLineAfter(Cuts, pipe')
    BY <2>1, HasAppend
  <2> QED
    BY <2>1, <2>2
<1>2. ASSUME NEW p \in T!Pipe, T!ClosePipe(p) PROVE CutIsTheLast'
  BY <1>2 DEF T!ClosePipe
<1>3. CASE T!ChildExits
  BY <1>3 DEF T!ChildExits
<1>4. CASE T!ReadLine
  <2>1. /\ pipe # <<>> /\ hand' = Head(pipe) /\ pipe' = Tail(pipe) /\ hand = T!None
        /\ UNCHANGED <<queue, lines, pending>>
    BY <1>4 DEF T!ReadLine
  <2>2. /\ Has(Cuts, pipe') => Has(Cuts, pipe)
        /\ Head(pipe) \in Cuts => Has(Cuts, pipe) /\ NoLine(pipe')
        /\ NoLineAfter(Cuts, pipe')
    BY <2>1, HasTail
  <2>3. NoLine(pipe') => pipe' = <<>>
    <3>1. pipe' \in Seq(T!Line)
      BY <2>1
    <3> QED
      BY <3>1 DEF NoLine
  <2> QED
    BY <2>1, <2>2, <2>3
<1>5. CASE T!SendLine
  <2>1. queue' = Append(queue, hand) /\ hand \in T!Line /\ hand' = T!None
        /\ UNCHANGED <<pipe, lines, pending>>
    BY <1>5 DEF T!SendLine
  <2>2. ~Has(Cuts, queue) /\ pending = T!None
    BY <1>n, <2>1
  <2>3. /\ Has(Cuts, queue') <=> Has(Cuts, queue) \/ hand \in Cuts
        /\ NoLineAfter(Cuts, queue')
    BY <2>1, <2>2, HasAppend
  <2> QED
    BY <1>n, <2>1, <2>2, <2>3
<1>6. ASSUME NEW p \in T!Pipe, T!ReadEnd(p) PROVE CutIsTheLast'
  <2>1. queue' = Append(queue, p) /\ UNCHANGED <<pipe, lines, hand, pending>>
    BY <1>6 DEF T!ReadEnd
  <2>2. /\ Has(Cuts, queue') <=> Has(Cuts, queue)
        /\ NoLine(queue) => NoLine(queue')
        /\ NoLineAfter(Cuts, queue')
    BY <1>6, <1>n, <2>1, HasAppend DEF T!ReadEnd
  <2> QED
    BY <2>1, <2>2
<1>7. CASE T!TellExit
  <2>1. queue' = Append(queue, "exited") /\ UNCHANGED <<pipe, lines, hand, pending>>
    BY <1>7 DEF T!TellExit
  <2>2. /\ Has(Cuts, queue') <=> Has(Cuts, queue)
        /\ NoLine(queue) => NoLine(queue')
        /\ NoLineAfter(Cuts, queue')
    BY <1>7, <1>n, <2>1, HasAppend DEF T!TellExit
  <2> QED
    BY <2>1, <2>2
<1>8. CASE T!TakeOut
  <2>1. PICK l \in T!Line : T!Receive(l) /\ T!Hear(l)
    BY <1>8 DEF T!TakeOut
  <2>2. ASSUME queue # <<>>, queue' = Tail(queue)
        PROVE  /\ Has(Cuts, queue') => Has(Cuts, queue)
               /\ Head(queue) \in Cuts => Has(Cuts, queue) /\ NoLine(queue')
               /\ NoLine(queue) => NoLine(queue') /\ Head(queue) \notin T!Line
               /\ NoLineAfter(Cuts, queue')
    BY <2>2, HasTail
  <2>3. UNCHANGED <<pipe, lines, hand>>
    BY <1>8 DEF T!TakeOut
  <2>4. queue # <<>> /\ queue' = Tail(queue) /\ Head(queue) = l /\ pending = T!None
    BY <2>1, <2>2 DEF T!Receive
  <2>5. pending' = (IF l \in Cuts THEN l ELSE pending)
    BY <1>n, <2>1 DEF T!Hear
  <2> QED
    BY <2>2, <2>3, <2>4, <2>5
<1>9. CASE T!TakeEnd
  <2>1. queue # <<>> /\ queue' = Tail(queue) /\ UNCHANGED <<pipe, lines, hand, pending>>
    BY <1>9 DEF T!TakeEnd, T!Receive
  <2>2. ASSUME queue # <<>>, queue' = Tail(queue)
        PROVE  /\ Has(Cuts, queue') => Has(Cuts, queue)
               /\ Head(queue) \in Cuts => Has(Cuts, queue) /\ NoLine(queue')
               /\ NoLine(queue) => NoLine(queue') /\ Head(queue) \notin T!Line
               /\ NoLineAfter(Cuts, queue')
    BY <2>2, HasTail
  <2> QED
    BY <2>1, <2>2
<1>10. CASE T!TakeExited
  <2>1. queue # <<>> /\ queue' = Tail(queue) /\ UNCHANGED <<pipe, lines, hand, pending>>
    BY <1>10 DEF T!TakeExited, T!Receive
  <2>2. ASSUME queue # <<>>, queue' = Tail(queue)
        PROVE  /\ Has(Cuts, queue') => Has(Cuts, queue)
               /\ Head(queue) \in Cuts => Has(Cuts, queue) /\ NoLine(queue')
               /\ NoLine(queue) => NoLine(queue') /\ Head(queue) \notin T!Line
               /\ NoLineAfter(Cuts, queue')
    BY <2>2, HasTail
  <2> QED
    BY <2>1, <2>2
<1>11. CASE T!TimeIsUp
  BY <1>11 DEF T!TimeIsUp
<1>12. CASE T!DrainTake
  <2>1. ASSUME NEW l \in T!Line, T!Receive(l), T!Hear(l) PROVE CutIsTheLast'
    <3>2. ASSUME queue # <<>>, queue' = Tail(queue)
          PROVE  /\ Has(Cuts, queue') => Has(Cuts, queue)
                 /\ Head(queue) \in Cuts => Has(Cuts, queue) /\ NoLine(queue')
                 /\ NoLine(queue) => NoLine(queue') /\ Head(queue) \notin T!Line
                 /\ NoLineAfter(Cuts, queue')
      BY <3>2, HasTail
    <3>3. UNCHANGED <<pipe, lines, hand>>
      BY <1>12 DEF T!DrainTake
    <3>4. queue # <<>> /\ queue' = Tail(queue) /\ Head(queue) = l /\ pending = T!None
      BY <2>1, <3>2 DEF T!Receive
    <3>5. pending' = (IF l \in Cuts THEN l ELSE pending)
      BY <1>n, <2>1 DEF T!Hear
    <3> QED
      BY <3>2, <3>3, <3>4, <3>5
  <2>2. ASSUME NEW p \in T!Pipe, T!Receive(p), UNCHANGED pending PROVE CutIsTheLast'
    <3>1. queue # <<>> /\ queue' = Tail(queue) /\ UNCHANGED <<pipe, lines, hand, pending>>
      BY <1>12, <2>2 DEF T!DrainTake, T!Receive
    <3>2. /\ Has(Cuts, queue') => Has(Cuts, queue)
          /\ NoLine(queue) => NoLine(queue')
          /\ NoLineAfter(Cuts, queue')
      BY <3>1, HasTail
    <3> QED
      BY <3>1, <3>2
  <2> QED
    BY <1>12, <2>1, <2>2 DEF T!DrainTake
<1>13. CASE T!DrainStops
  BY <1>13 DEF T!DrainStops
<1>14. CASE T!DrainGivesUp
  BY <1>14 DEF T!DrainGivesUp
<1>15. CASE T!Finish
  <2>1. pending' = T!None /\ UNCHANGED <<queue, pipe, lines, hand>>
    BY <1>15 DEF T!Finish
  <2> QED
    BY <2>1
<1>16. CASE T!Linger
  <2>1. /\ UNCHANGED <<pipe, lines, hand, pending>>
        /\ queue' = queue \/ (queue # <<>> /\ queue' = Tail(queue))
    BY <1>16 DEF T!Linger
  <2>2. ASSUME queue # <<>>, queue' = Tail(queue)
        PROVE  /\ Has(Cuts, queue') => Has(Cuts, queue)
               /\ Head(queue) \in Cuts => Has(Cuts, queue) /\ NoLine(queue')
               /\ NoLine(queue) => NoLine(queue') /\ Head(queue) \notin T!Line
               /\ NoLineAfter(Cuts, queue')
    BY <2>2, HasTail
  <2> QED
    BY <2>1, <2>2
<1>17. CASE T!Tick
  BY <1>17 DEF T!Tick
<1> QED
  BY <1>1, <1>2, <1>3, <1>4, <1>5, <1>6, <1>7, <1>8, <1>9, <1>10, <1>11, <1>12, <1>13,
     <1>14, <1>15, <1>16, <1>17 DEF T!Next, T!Loop, T!ReaderOut

LEMMA WayStep ==
  T!TypeOK /\ TurnInv /\ T!Next /\ at \in {"run", "drained"} => OnTheWay'
<1> SUFFICES ASSUME T!TypeOK, TurnInv, T!Next, at \in {"run", "drained"} PROVE OnTheWay'
  OBVIOUS
<1>a. /\ OnTheWay /\ CutIsTheLast /\ at \in {"run", "drained"}
      /\ queue \in Seq(T!Line \cup T!Pipe \cup {"exited"}) /\ pipe \in Seq(T!Line)
      /\ hand \in T!Line \cup {T!None} /\ pending \in T!Line \cup {T!None}
  BY DEF T!TypeOK, T!Pipe, T!None, T!Off, TurnInv, LastIsOnTheWay
<1> USE <1>a, ChildrenAssumption DEF T!TurnAssumption, T!Pipe, T!None, T!Off, CutIsTheLast,
        T!world, T!threads, T!machine, T!history
<1>n. /\ \A x \in T!Pipe \cup {"exited"} : x \notin Cuts /\ x \notin T!Line /\ T!Says(x) = T!None
      /\ \A x : T!Cut(x) <=> x \in Cuts
      /\ T!None \notin Cuts /\ T!None \notin T!Line /\ T!Says(T!None) = T!None
      /\ \A x : T!Says(x) # T!None => x \in T!Line
      /\ \A x \in Cuts : T!Says(x) # T!None
  BY DEF T!Pipe, T!Line, T!None, Cuts, T!Cut, T!Says
<1>h. PICK a : Ends(queue, Told, a) /\ Ends(pipe, Heard(hand, a), last)
  BY DEF OnTheWay
<1>s. ASSUME UNCHANGED <<queue, pipe, hand, last, payload, pending>> PROVE OnTheWay'
  BY <1>h, <1>s DEF OnTheWay, Told
<1>t. ASSUME queue # <<>>, queue' = Tail(queue), UNCHANGED <<pipe, hand, last>>,
             Told' = Heard(Head(queue), Told)
      PROVE  OnTheWay'
  <2>1. Ends(queue', Heard(Head(queue), Told), a)
    BY <1>h, <1>t, EndsTail
  <2> QED
    BY <1>h, <1>t, <2>1 DEF OnTheWay
<1>p. ASSUME NEW x \in T!Pipe \cup {"exited"}, queue' = Append(queue, x),
             UNCHANGED <<pipe, hand, last, payload, pending>>
      PROVE  OnTheWay'
  <2>1. Ends(queue', Told, Heard(x, a)) /\ Heard(x, a) = a
    BY <1>h, <1>n, <1>p, EndsAppend DEF Heard
  <2> QED
    BY <1>h, <1>p, <2>1 DEF OnTheWay, Told
<1>1. ASSUME NEW l \in T!Line, T!WriteLine(l) PROVE OnTheWay'
  <2>1. /\ pipe' = Append(pipe, l) /\ UNCHANGED <<queue, hand, payload, pending>>
        /\ last' = Heard(l, last)
    BY <1>1 DEF T!WriteLine, Heard
  <2>2. Ends(pipe', Heard(hand, a), last')
    BY <1>h, <2>1, EndsAppend
  <2> QED
    BY <1>h, <2>1, <2>2 DEF OnTheWay, Told
<1>2. ASSUME NEW p \in T!Pipe, T!ClosePipe(p) PROVE OnTheWay'
  BY <1>2, <1>s DEF T!ClosePipe
<1>3. CASE T!ChildExits
  BY <1>3, <1>s DEF T!ChildExits
<1>4. CASE T!ReadLine
  <2>1. /\ pipe # <<>> /\ hand' = Head(pipe) /\ pipe' = Tail(pipe) /\ hand = T!None
        /\ UNCHANGED <<queue, last, payload, pending>>
    BY <1>4 DEF T!ReadLine
  <2>2. Heard(hand, a) = a
    BY <1>n, <2>1 DEF Heard
  <2>3. Ends(pipe', Heard(hand', a), last)
    BY <1>h, <2>1, <2>2, EndsTail
  <2> QED
    BY <1>h, <2>1, <2>3 DEF OnTheWay, Told
<1>5. CASE T!SendLine
  <2>1. /\ queue' = Append(queue, hand) /\ hand \in T!Line /\ hand' = T!None
        /\ UNCHANGED <<pipe, last, payload, pending>>
    BY <1>5 DEF T!SendLine
  <2>2. Ends(queue', Told, Heard(hand, a))
    BY <1>h, <2>1, EndsAppend
  <2>3. Heard(hand', Heard(hand, a)) = Heard(hand, a)
    BY <1>n, <2>1 DEF Heard
  <2> QED
    BY <1>h, <2>1, <2>2, <2>3 DEF OnTheWay, Told
<1>6. ASSUME NEW p \in T!Pipe, T!ReadEnd(p) PROVE OnTheWay'
  BY <1>6, <1>p DEF T!ReadEnd
<1>7. CASE T!TellExit
  BY <1>7, <1>p DEF T!TellExit
<1>8. CASE T!TakeOut
  <2>1. PICK l \in T!Line : T!Receive(l) /\ T!Hear(l)
    BY <1>8 DEF T!TakeOut
  <2>2. queue # <<>> /\ queue' = Tail(queue) /\ Head(queue) = l
    BY <2>1 DEF T!Receive
  <2>3. pending = T!None
    BY <2>1, <2>2, HasTail
  <2>4. Told' = Heard(Head(queue), Told)
    BY <1>n, <2>1, <2>2, <2>3 DEF T!Hear, Told, Heard
  <2> QED
    BY <1>8, <1>t, <2>2, <2>4 DEF T!TakeOut
<1>9. CASE T!TakeEnd
  <2>1. /\ queue # <<>> /\ queue' = Tail(queue) /\ Head(queue) \in T!Pipe \cup {"exited"}
        /\ UNCHANGED <<pipe, hand, last, payload, pending>>
    BY <1>9 DEF T!TakeEnd, T!Receive
  <2>2. Told' = Heard(Head(queue), Told)
    BY <1>n, <2>1 DEF Heard, Told
  <2> QED
    BY <1>t, <2>1, <2>2
<1>10. CASE T!TakeExited
  <2>1. /\ queue # <<>> /\ queue' = Tail(queue) /\ Head(queue) \in T!Pipe \cup {"exited"}
        /\ UNCHANGED <<pipe, hand, last, payload, pending>>
    BY <1>10 DEF T!TakeExited, T!Receive
  <2>2. Told' = Heard(Head(queue), Told)
    BY <1>n, <2>1 DEF Heard, Told
  <2> QED
    BY <1>t, <2>1, <2>2
<1>11. CASE T!TimeIsUp
  BY <1>11, <1>s DEF T!TimeIsUp
<1>12. CASE T!DrainTake
  <2>1. ASSUME NEW l \in T!Line, T!Receive(l), T!Hear(l) PROVE OnTheWay'
    <3>1. queue # <<>> /\ queue' = Tail(queue) /\ Head(queue) = l
      BY <2>1 DEF T!Receive
    <3>2. pending = T!None
      BY <3>1, HasTail
    <3>3. Told' = Heard(Head(queue), Told)
      BY <1>n, <2>1, <3>1, <3>2 DEF T!Hear, Told, Heard
    <3> QED
      BY <1>12, <1>t, <3>1, <3>3 DEF T!DrainTake
  <2>2. ASSUME NEW p \in T!Pipe, T!Receive(p), UNCHANGED <<payload, pending>> PROVE OnTheWay'
    <3>1. queue # <<>> /\ queue' = Tail(queue) /\ Head(queue) = p
      BY <2>2 DEF T!Receive
    <3>2. Told' = Heard(Head(queue), Told)
      BY <1>n, <2>2, <3>1 DEF Heard, Told
    <3> QED
      BY <1>12, <1>t, <3>1, <3>2 DEF T!DrainTake
  <2> QED
    BY <1>12, <2>1, <2>2 DEF T!DrainTake
<1>13. CASE T!DrainStops
  BY <1>13, <1>s DEF T!DrainStops
<1>14. CASE T!DrainGivesUp
  BY <1>14, <1>s DEF T!DrainGivesUp
<1>15. CASE T!Finish
  BY <1>15 DEF T!Finish
<1>16. CASE T!Linger
  BY <1>16 DEF T!Linger
<1>17. CASE T!Tick
  BY <1>17, <1>s DEF T!Tick
<1> QED
  BY <1>1, <1>2, <1>3, <1>4, <1>5, <1>6, <1>7, <1>8, <1>9, <1>10, <1>11, <1>12, <1>13,
     <1>14, <1>15, <1>16, <1>17 DEF T!Next, T!Loop, T!ReaderOut

LEMMA OutcomeStep == T!TypeOK /\ TurnInv /\ T!Next => OutcomeIsOfWhatWasTold'
<1> SUFFICES ASSUME T!TypeOK, TurnInv, T!Next PROVE OutcomeIsOfWhatWasTold'
  OBVIOUS
<1>a. /\ OutcomeIsOfWhatWasTold /\ LastIsOnTheWay /\ EndsComeLast
      /\ code \in {"zero", "other", "signal"} /\ timedOut \in BOOLEAN
  BY DEF T!TypeOK, T!Pipe, T!None, T!Off, TurnInv
<1> USE <1>a, ChildrenAssumption
    DEF T!TurnAssumption, T!Pipe, T!None, T!Off, OutcomeIsOfWhatWasTold, T!world, T!threads,
        T!machine, T!history
<1>n. /\ \A x \in T!Pipe \cup {"exited"} : x \notin Cuts /\ x \notin T!Line /\ T!Says(x) = T!None
      /\ \A x : T!Cut(x) <=> x \in Cuts
      /\ T!None \notin Cuts /\ T!None \notin T!Line /\ T!Says(T!None) = T!None
      /\ \A x : T!Says(x) # T!None => x \in T!Line
      /\ \A x \in Cuts : T!Says(x) # T!None
  BY DEF T!Pipe, T!Line, T!None, Cuts, T!Cut, T!Says
<1>1. ASSUME NEW l \in T!Line, T!WriteLine(l) PROVE OutcomeIsOfWhatWasTold'
  <2>1. /\ UNCHANGED <<at, outcome, missed, payload, pending>>
        /\ at \notin {"run", "drained"} => UNCHANGED last
    BY <1>1 DEF T!WriteLine
  <2> QED
    BY <2>1 DEF Told
<1>2. ASSUME NEW p \in T!Pipe, T!ClosePipe(p) PROVE OutcomeIsOfWhatWasTold'
  <2>1. /\ UNCHANGED <<at, outcome, missed, payload, pending>>
        /\ at \notin {"run", "drained"} => UNCHANGED last
    BY <1>2 DEF T!ClosePipe
  <2> QED
    BY <2>1 DEF Told
<1>3. CASE T!ChildExits
  <2>1. /\ UNCHANGED <<at, outcome, missed, payload, pending>>
        /\ at \notin {"run", "drained"} => UNCHANGED last
    BY <1>3 DEF T!ChildExits
  <2> QED
    BY <2>1 DEF Told
<1>4. CASE T!ReadLine
  <2>1. /\ UNCHANGED <<at, outcome, missed, payload, pending>>
        /\ at \notin {"run", "drained"} => UNCHANGED last
    BY <1>4 DEF T!ReadLine
  <2> QED
    BY <2>1 DEF Told
<1>5. CASE T!SendLine
  <2>1. /\ UNCHANGED <<at, outcome, missed, payload, pending>>
        /\ at \notin {"run", "drained"} => UNCHANGED last
    BY <1>5 DEF T!SendLine
  <2> QED
    BY <2>1 DEF Told
<1>6. ASSUME NEW p \in T!Pipe, T!ReadEnd(p) PROVE OutcomeIsOfWhatWasTold'
  <2>1. /\ UNCHANGED <<at, outcome, missed, payload, pending>>
        /\ at \notin {"run", "drained"} => UNCHANGED last
    BY <1>6 DEF T!ReadEnd
  <2> QED
    BY <2>1 DEF Told
<1>7. CASE T!TellExit
  <2>1. /\ UNCHANGED <<at, outcome, missed, payload, pending>>
        /\ at \notin {"run", "drained"} => UNCHANGED last
    BY <1>7 DEF T!TellExit
  <2> QED
    BY <2>1 DEF Told
<1>8. CASE T!TakeOut \/ T!TakeEnd \/ T!TakeExited \/ T!TimeIsUp
  <2>1. /\ at \in {"run", "drained"} /\ at' \in {"run", "drained", "finish"}
        /\ at' = "finish" => isOpen' = {}
    BY <1>8, TimersOfATake DEF Fired, T!TakeOut, T!TakeEnd, T!TakeExited, T!TimeIsUp
  <2>2. ASSUME at' = "finish" PROVE last' = Told'
    <3>1. PICK a : Ends(queue', Told', a) /\ Ends(pipe', Heard(hand', a), last')
      BY <2>1, WayStep DEF OnTheWay
    <3>2. "out" \notin isOpen' /\ "out" \notin reading'
      BY <2>1, <2>2, PipeEndsStep DEF EndsComeLast
    <3>3. NoLine(queue') /\ NoLine(pipe') /\ hand' = T!None
      BY <3>2, PipeEndsStep DEF EndsComeLast, NoLine
    <3>4. a = Told' /\ last' = Heard(hand', a)
      BY <3>1, <3>3, EndsOfNoLine
    <3> QED
      BY <1>n, <3>3, <3>4 DEF Heard
  <2> QED
    BY <2>1, <2>2
<1>9. CASE T!DrainTake
  BY <1>9 DEF T!DrainTake
<1>10. CASE T!DrainStops
  <2>1. /\ at = "drained" /\ queue = <<>> /\ ~T!Readable /\ at' = "finish"
        /\ missed' = (hand # T!None) /\ UNCHANGED <<last, payload, pending>>
    BY <1>10 DEF T!DrainStops
  <2>2. ASSUME hand = T!None PROVE last = Told
    <3>1. PICK a : Ends(queue, Told, a) /\ Ends(pipe, Heard(hand, a), last)
      BY <2>1 DEF LastIsOnTheWay, OnTheWay
    <3>2. pipe = <<>>
      BY <2>1 DEF T!Readable, EndsComeLast
    <3>3. NoLine(queue) /\ NoLine(pipe)
      BY <2>1, <3>2 DEF NoLine
    <3>4. a = Told /\ last = Heard(hand, a)
      BY <3>1, <3>3, EndsOfNoLine
    <3> QED
      BY <1>n, <2>2, <3>4 DEF Heard
  <2> QED
    BY <2>1, <2>2 DEF Told
<1>11. CASE T!DrainGivesUp
  BY <1>11 DEF T!DrainGivesUp
<1>12. CASE T!Finish
  <2>1. /\ at = "finish" /\ at' = "linger" /\ UNCHANGED <<last, missed>>
        /\ payload' = Told
        /\ outcome' \in {"ok", "killed-after-result"} <=> payload' = "ok"
    BY <1>12 DEF T!Finish, Told
  <2> QED
    BY <2>1
<1>13. CASE T!Linger
  <2>1. at = "linger" /\ at' \in {"linger", "over"} /\ UNCHANGED <<outcome, last, missed>>
    BY <1>13 DEF T!Linger
  <2> QED
    BY <2>1
<1>14. CASE T!Tick
  <2>1. /\ UNCHANGED <<at, outcome, missed, payload, pending>>
        /\ at \notin {"run", "drained"} => UNCHANGED last
    BY <1>14 DEF T!Tick
  <2> QED
    BY <2>1 DEF Told
<1> QED
  BY <1>1, <1>2, <1>3, <1>4, <1>5, <1>6, <1>7, <1>8, <1>9, <1>10, <1>11, <1>12, <1>13,
     <1>14 DEF T!Next, T!Loop, T!ReaderOut

LEMMA KillOfACall ==
  C!TypeOK /\ CallInv /\ C!Next =>
    ("KILL" \in signalled' /\ "KILL" \notin signalled /\ program = "runs" /\ step = "supervise"
       => grace = C!Off \/ asked = Grace)
<1> SUFFICES ASSUME C!TypeOK, CallInv, C!Next, "KILL" \in signalled', "KILL" \notin signalled,
                    program = "runs", step = "supervise"
             PROVE  grace = C!Off \/ asked = Grace
  OBVIOUS
<1>a. /\ KeepsTheGrace /\ ExitIsToldOnce /\ ReapedOnce
      /\ asked \in Int /\ deadline \in Int /\ signalled \subseteq {"TERM", "KILL"}
  BY CallNumbers DEF C!TypeOK, CallInv
<1>q. events \in Seq(Messages)
  BY DEF C!TypeOK, Messages, C!Pipe
<1>1. C!LaunchFails \/ C!TakeStop \/ C!TakeExited \/ C!TimesOut \/ C!GraceIsOver \/ UNCHANGED signalled
  BY DEF C!Next, C!Supervise, C!Write, C!Close, C!ReadChunk, C!Push, C!ReadEnd, C!ProgramExits,
     C!MemberExits, C!StopComes, C!TellExit, C!Launch, C!DrainIsOver, C!TakeEof, C!Tick, C!world
<1>2. CASE C!LaunchFails
  BY <1>2 DEF C!LaunchFails
<1>3. CASE C!TakeStop \/ C!TimesOut
  BY <1>3 DEF C!TakeStop, C!TimesOut, C!Stopping, C!Signal
<1>4. CASE C!TakeExited
  <2>1. events # <<>> /\ Head(events) = "exited"
    BY <1>4 DEF C!TakeExited, C!Receive
  <2> QED
    BY <1>a, <1>q, <2>1, InTail DEF ExitIsToldOnce
<1>5. CASE C!GraceIsOver
  <2>1. gone = C!Off /\ reason # "none" /\ deadline = 0
    BY <1>5 DEF C!GraceIsOver, C!Due
  <2> QED
    BY <1>a, <2>1 DEF KeepsTheGrace
<1> QED
  BY <1>1, <1>2, <1>3, <1>4, <1>5

-----------------------------------------------------------------------------
(* Both *)

ChildrenInv == C!TypeOK /\ CallInv /\ T!TypeOK /\ TurnInv

\* The part the behaviour is not of stays as it is.
LEMMA CallStays ==
  ASSUME C!TypeOK, CallInv, UNCHANGED ofCall
  PROVE  C!TypeOK' /\ CallInv'
<1>1. C!TypeOK'
  BY DEF C!TypeOK, C!Bound, ofCall
<1> QED
  BY <1>1 DEF ofCall, CallInv, ChunksWereWritten, BeforeTheLaunch, ReapedOnce, ExitIsToldOnce,
     KeepsTheGrace, HoldersAreThere, ReadersReadToTheEnd, KeepsTheOutput

LEMMA TurnStays ==
  ASSUME T!TypeOK, TurnInv, UNCHANGED ofTurn
  PROVE  T!TypeOK' /\ TurnInv'
<1>1. T!TypeOK'
  BY DEF T!TypeOK, ofTurn
<1> QED
  BY <1>1 DEF ofTurn, TurnInv, ReapedBeforeTheEnd, TimersAreWhatIsLeft, EndsComeLast,
     CutIsTheLast, LastIsOnTheWay, OnTheWay, Told, OutcomeIsOfWhatWasTold

LEMMA ChildrenInit == Init => ChildrenInv
  BY CallStarts, TurnStarts DEF Init, ChildrenInv

LEMMA ChildrenStep == ChildrenInv /\ [Next]_vars => ChildrenInv'
<1> SUFFICES ASSUME ChildrenInv, [Next]_vars PROVE ChildrenInv'
  OBVIOUS
<1>1. ASSUME T!Next PROVE T!TypeOK' /\ TurnInv'
  <2>1. LastIsOnTheWay'
    <3>1. at' \in {"run", "drained"} => at \in {"run", "drained"}
      BY <1>1, TimersOfATake
         DEF ChildrenInv, T!Next, T!Loop, T!ReaderOut, T!WriteLine, T!ClosePipe,
             T!ChildExits, T!ReadLine, T!SendLine,
             T!ReadEnd, T!TellExit, T!TakeOut, T!TakeEnd, T!TakeExited, T!TimeIsUp, T!DrainTake,
             T!DrainStops, T!DrainGivesUp, T!Finish, T!Linger, T!Tick, T!machine
    <3> QED
      BY <1>1, <3>1, WayStep DEF ChildrenInv, LastIsOnTheWay
  <2> QED
    BY <1>1, <2>1, TurnTypeStep, ReapedEndStep, TimersStep, PipeEndsStep, CutStep, OutcomeStep
       DEF ChildrenInv, TurnInv
<1>2. ASSUME C!Next PROVE C!TypeOK' /\ CallInv'
  BY <1>2, CallTypeStep, ChunksStep, LaunchStep, ReapedStep, ExitStep, GraceStep, HoldersStep,
     ReadersStep, OutputStep DEF ChildrenInv, CallInv
<1>3. CASE InTurn /\ T!Next
  BY <1>1, <1>3, CallStays DEF InTurn, ChildrenInv
<1>4. CASE InCall /\ C!Next
  BY <1>2, <1>4, TurnStays DEF InCall, ChildrenInv
<1>5. CASE UNCHANGED vars
  BY <1>5, CallStays, TurnStays DEF vars, ChildrenInv
<1> QED
  BY <1>3, <1>4, <1>5 DEF Next

\* Whatever a turn or a call does, its state is one its invariants allow.
THEOREM ChildrenKeepTheirWord == FairSpec => []ChildrenInv
<1>1. FairSpec => Init /\ [][Next]_vars
  BY PTL DEF FairSpec
<1> QED
  BY <1>1, ChildrenInit, ChildrenStep, PTL

\* No signal goes to an id that was given back, by a timer of a turn or by a
\* call, and a call leaves nobody of the group alive that was not killed.
THEOREM SignalsAreOfTheLivingHolds == FairSpec => []SignalsAreOfTheLiving
<1>1. ChildrenInv => SignalsAreOfTheLiving
  BY DEF ChildrenInv, CallInv, TurnInv, ReapedOnce, ReapedBeforeTheEnd, SignalsAreOfTheLiving,
     T!NoSignalAfterReap, C!GroupIsGone
<1> QED
  BY <1>1, ChildrenKeepTheirWord, PTL

\* A call that stopped nothing has all that its group wrote, for every drain
\* and cap, but for a reader that was late past the whole wait.
THEOREM OutputIsKeptHolds == FairSpec => []OutputIsKept
<1>1. ChildrenInv => OutputIsKept
  BY DEF ChildrenInv, CallInv, KeepsTheOutput, OutputIsKept, C!OutputIsKept
<1> QED
  BY <1>1, ChildrenKeepTheirWord, PTL

\* The outcome of a turn is of the last result that was written.
THEOREM OutcomeIsOfTheLastResultHolds == FairSpec => []OutcomeIsOfTheLastResult
<1>1. ChildrenInv => OutcomeIsOfTheLastResult
  <2> SUFFICES ASSUME ChildrenInv, outcome # T!None, ~missed
               PROVE  outcome \in {"ok", "killed-after-result"} <=> last = "ok"
    BY DEF ChildrenInv, OutcomeIsOfTheLastResult, T!OutcomeIsOfTheLastResult
  <2>1. at \in {"linger", "over"}
    BY DEF ChildrenInv, T!TypeOK, TurnInv, ReapedBeforeTheEnd
  <2> QED
    BY <2>1 DEF ChildrenInv, TurnInv, OutcomeIsOfWhatWasTold
<1> QED
  BY <1>1, ChildrenKeepTheirWord, PTL

\* The process of a turn leaves when nobody can write to its pipes any more,
\* and with nothing in them that nobody read.
THEOREM LingersForHeirsHolds == FairSpec => []LingersForHeirs
<1>1. ChildrenInv => LingersForHeirs
  <2> SUFFICES ASSUME ChildrenInv, at = "over"
               PROVE  heirs = {} /\ pipe = <<>> /\ hand = T!None
    BY DEF LingersForHeirs, T!LingersForHeirs
  <2>1. /\ EndsComeLast /\ heirs \subseteq T!Pipe /\ "out" \in T!Pipe
    BY DEF ChildrenInv, TurnInv, T!TypeOK, T!Pipe
  <2> QED
    BY <2>1 DEF EndsComeLast
<1> QED
  BY <1>1, ChildrenKeepTheirWord, PTL

\* A child is killed when its limit or its grace is over and never before, and
\* a call that asked its program to stop is over within the grace and the
\* drain, for every length of the three.
THEOREM GraceIsGivenHolds == FairSpec => GraceIsGiven
<1>1. ChildrenInv => C!StoppedInTime
  <2> SUFFICES ASSUME ChildrenInv, step = "supervise", asked # C!Off PROVE asked <= Grace + Drain
    BY DEF C!StoppedInTime
  <2>1. /\ KeepsTheGrace /\ asked \in Int /\ deadline \in Int /\ gone \in Int
    BY CallNumbers DEF ChildrenInv, CallInv
  <2> QED
    BY <2>1, ChildrenAssumption DEF KeepsTheGrace, C!CallAssumption
<1>2. ChildrenInv /\ [Next]_vars =>
        [doomed' /\ ~doomed => (age = Limit /\ payload' = T!None) \/ since = Grace]_(T!vars)
  <2>1. ChildrenInv /\ InTurn /\ T!Next =>
          (doomed' /\ ~doomed => (age = Limit /\ payload' = T!None) \/ since = Grace)
    BY KillStep DEF ChildrenInv, KillIsDue
  <2>2. InCall \/ UNCHANGED vars => UNCHANGED T!vars
    BY DEF InCall, vars, ofTurn, T!vars, T!world, T!threads, T!machine, T!history
  <2> QED
    BY <2>1, <2>2 DEF Next
<1>3. ChildrenInv /\ [Next]_vars =>
        [("KILL" \in signalled' /\ "KILL" \notin signalled /\ program = "runs" /\ step = "supervise")
           => (grace = C!Off \/ asked = Grace)]_(C!vars)
  <2>1. ChildrenInv /\ InCall /\ C!Next =>
          (("KILL" \in signalled' /\ "KILL" \notin signalled /\ program = "runs" /\ step = "supervise")
             => (grace = C!Off \/ asked = Grace))
    BY KillOfACall DEF ChildrenInv
  <2>2. InTurn \/ UNCHANGED vars => UNCHANGED C!vars
    BY DEF InTurn, vars, ofCall, C!vars, C!world, C!readers, C!machine, C!history
  <2> QED
    BY <2>1, <2>2 DEF Next
<1>4. FairSpec => [][Next]_vars
  BY PTL DEF FairSpec
<1> QED
  BY <1>1, <1>2, <1>3, <1>4, ChildrenKeepTheirWord, PTL
     DEF GraceIsGiven, T!NoEarlyKill, C!GraceIsGiven
=============================================================================
