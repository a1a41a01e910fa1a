-------------------------- MODULE McpServerProofs --------------------------
(***************************************************************************)
(* The mcp server gives every request one fate, for any number of requests *)
(* and ids: it implements RequestContract.  And its ending leaves nothing  *)
(* open, for any margin of its wait over what a stopped program takes.     *)
(*                                                                         *)
(* And its parts that keep no state do what is asked of them for inputs of *)
(* any size: the lines of a stream, the answers of the requests, the words *)
(* of a call and what the verb reads of them, the end of a program.  What  *)
(* goes over a sequence is a recursive function here: each is shown to be  *)
(* what it makes of nothing, and one entry more a step on what it made of  *)
(* those before it (Appending).                                            *)
(***************************************************************************)
EXTENDS McpServer, MCMcp, TLAPS, FiniteSetTheorems, SequenceTheorems, WellFoundedInduction

-----------------------------------------------------------------------------
(* The strengthening *)

\* A request has a thread from the spawn on, and an id from the begin on.
Begun ==
  /\ \A s \in Calls : s >= next => thread[s] = "none" /\ idOf[s] = NoId
  /\ \A s \in Calls : s < next /\ thread[s] = "none" => reader = "spawn" /\ at = s

\* What the reading thread is about.
ReaderKnows ==
  /\ reader = "spawn" => at \in 0..(next - 1) /\ thread[at] = "none"
  /\ reader = "reply" /\ at # NoCall => at \in Calls /\ thread[at] = "refused"
  /\ reader = "stop" => at \in 0..(next - 1) /\ at \in cancelled
  /\ reader = "read" => at = NoCall

\* What is cancelled is not to be answered, what is answered was not cancelled,
\* and a thread that sends or drops its answer does so for one of the two.
FatesApart ==
  /\ \A s \in Calls : thread[s] \in {"none", "answer", "sent", "unsent", "refused"} =>
       s \notin cancelled
  /\ \A s \in written : s \notin cancelled /\ thread[s] \in {"sent", "gone", "refused"}
  /\ \A s \in Calls : thread[s] = "sent" => s \in written
  /\ \A s \in Calls : thread[s] = "dropped" => s \in cancelled

\* by_id names the last request of an id, until its fate is settled.
IdIsOfTheLast ==
  /\ \A id \in Ids : byId[id] # NoCall =>
       /\ byId[id] < next /\ idOf[byId[id]] = id
       /\ thread[byId[id]] \in {"none", "begun", "launch", "program", "over", "refused"}
       /\ \A t \in Calls : t > byId[id] => idOf[t] # id
  /\ \A s \in calls : thread[s] # "refused"

ContractInv == Begun /\ ReaderKnows /\ FatesApart /\ IdIsOfTheLast

-----------------------------------------------------------------------------
(* Types *)

LEMMA McpTypeInit == Init => TypeOK
<1> SUFFICES ASSUME Init PROVE TypeOK
  OBVIOUS
<1> USE McpAssumption DEF Init, Calls, NoCall
<1>1. next \in 0..MaxCalls /\ at \in Calls \cup {NoCall}
  OBVIOUS
<1>2. idOf \in [Calls -> Ids \cup {NoId}] /\ byId \in [Ids -> Calls \cup {NoCall}]
  OBVIOUS
<1>3. wait \in [Enders -> 0..EndWait] /\ age \in [Calls -> 0..StopMost]
  OBVIOUS
<1> QED
  BY <1>1, <1>2, <1>3 DEF TypeOK

LEMMA McpTypeStep == TypeOK /\ ContractInv /\ [Next]_vars => TypeOK'
<1> SUFFICES ASSUME TypeOK, ContractInv, [Next]_vars PROVE TypeOK'
  OBVIOUS
<1> USE McpAssumption DEF TypeOK, Calls, NoCall, registry, tokens, endings, output
<1>1. ASSUME NEW id \in Ids, Begin(id) PROVE TypeOK'
  BY <1>1 DEF Begin
<1>2. CASE Spawned \/ ReadQuick
  BY <1>2 DEF Spawned, ReadQuick
<1>3. CASE SpawnFails
  BY <1>3 DEF SpawnFails, Removed, Woken
<1>4. CASE Reply
  <2>1. at # NoCall => at \in 0..(next - 1)
    BY <1>4 DEF Reply, ContractInv, ReaderKnows, Begun
  <2> QED
    BY <1>4, <2>1 DEF Reply
<1>5. ASSUME NEW id \in Ids, Cancel(id) PROVE TypeOK'
  BY <1>5 DEF Cancel
<1>6. CASE CancelStops
  BY <1>6 DEF CancelStops, Stopping, ContractInv, ReaderKnows
<1>7. CASE InputEnds \/ SignalComes
  BY <1>7 DEF InputEnds, SignalComes, EnderMoves
<1>8. ASSUME NEW s \in Calls, Refuse(s) \/ NotStarted(s) PROVE TypeOK'
  BY <1>8 DEF Refuse, NotStarted, CallMoves
<1>9. ASSUME NEW s \in Calls, Proceed(s) \/ LaunchFails(s) PROVE TypeOK'
  BY <1>9 DEF Proceed, LaunchFails, CallMoves
<1>10. ASSUME NEW s \in Calls, Launch(s) PROVE TypeOK'
  BY <1>10 DEF Launch, CallMoves
<1>11. ASSUME NEW s \in Calls, ProgramEnds(s) PROVE TypeOK'
  BY <1>11 DEF ProgramEnds, CallMoves
<1>12. ASSUME NEW s \in Calls, Settle(s) PROVE TypeOK'
  BY <1>12 DEF Settle, CallMoves
<1>13. ASSUME NEW s \in Calls, Send(s) PROVE TypeOK'
  BY <1>13 DEF Send, CallMoves, ContractInv, Begun
<1>14. ASSUME NEW s \in Calls, Finish(s) PROVE TypeOK'
  BY <1>14 DEF Finish, Woken, Enders
<1>15. ASSUME NEW e \in Enders, End(e) \/ StopAll(e) \/ StopOne(e) PROVE TypeOK'
  <2>1. CASE End(e)
    BY <2>1 DEF End, EnderMoves
  <2>2. CASE StopAll(e)
    BY <2>2 DEF StopAll, EnderMoves
  <2>3. CASE StopOne(e)
    BY <2>3 DEF StopOne, Stopping
  <2> QED
    BY <1>15, <2>1, <2>2, <2>3
<1>16. ASSUME NEW e \in Enders, WaitEmpty(e) PROVE TypeOK'
  <2>1. /\ wait' \in [Enders -> 0..EndWait]
        /\ early' \in BOOLEAN
    <3>1. EndWait \in 0..EndWait
      OBVIOUS
    <3>2. wait' = wait \/ wait' = [wait EXCEPT ![e] = EndWait]
      BY <1>16 DEF WaitEmpty
    <3>3. early' = (early \/ (calls = {} /\ ~closing))
      BY <1>16 DEF WaitEmpty
    <3> QED
      BY <3>1, <3>2, <3>3
  <2>2. ender' \in [Enders -> {"no", "asked", "stopAll", "stopping", "wait", "asleep",
                               "awake", "done"}]
    <3>1. \/ ender' = [ender EXCEPT ![e] = "done"]
          \/ ender' = [ender EXCEPT ![e] = "asleep"]
      BY <1>16 DEF WaitEmpty
    <3> QED
      BY <3>1
  <2>3. UNCHANGED <<registry, tokens, ending, reader, at, thread, age, output, left>>
    BY <1>16 DEF WaitEmpty
  <2> QED
    BY <2>1, <2>2, <2>3
<1>17. ASSUME NEW e \in Enders, WaitEnds(e) \/ Leave(e) PROVE TypeOK'
  BY <1>17 DEF WaitEnds, Leave, EnderMoves
<1>18. CASE Tick
  <2>1. age' \in [Calls -> 0..StopMost]
    <3>1. \A s \in Calls : s \in Told => age[s] \in 0..(StopMost - 1)
      BY <1>18 DEF Tick, Ready, Told
    <3>2. age' = [s \in Calls |-> IF s \in Told THEN age[s] + 1 ELSE age[s]]
      BY <1>18 DEF Tick
    <3> HIDE DEF TypeOK
    <3>3. age \in [Calls -> 0..StopMost]
      BY DEF TypeOK
    <3> QED
      BY <3>1, <3>2, <3>3
  <2>2. wait' \in [Enders -> 0..EndWait]
    <3>1. \A e \in Enders : e \in Asleep => wait[e] \in 1..EndWait
      BY <1>18 DEF Tick, Ready, Asleep
    <3>2. wait' = [e \in Enders |-> IF e \in Asleep THEN wait[e] - 1 ELSE wait[e]]
      BY <1>18 DEF Tick
    <3> HIDE DEF TypeOK
    <3>3. wait \in [Enders -> 0..EndWait]
      BY DEF TypeOK
    <3> QED
      BY <3>1, <3>2, <3>3
  <2>3. UNCHANGED <<registry, tokens, ending, ender, early, reader, at, thread, output, left>>
    BY <1>18 DEF Tick
  <2> QED
    BY <2>1, <2>2, <2>3
<1>19. ASSUME NEW how \in {"stalled", "gone"}, ClientChanges(how) PROVE TypeOK'
  BY <1>19 DEF ClientChanges
<1>20. CASE UNCHANGED vars
  BY <1>20 DEF vars
<1> QED
  BY <1>1, <1>2, <1>3, <1>4, <1>5, <1>6, <1>7, <1>8, <1>9, <1>10, <1>11, <1>12,
     <1>13, <1>14, <1>15, <1>16, <1>17, <1>18, <1>19, <1>20
     DEF Next, ReaderStep, CallStep, EnderStep

-----------------------------------------------------------------------------
(* The strengthening is inductive *)

Seen == <<next, idOf, calls, byId, cancelled, reader, at, thread, written>>

\* Most steps of an ending and of the client touch nothing it speaks of.
LEMMA NotSeen == ContractInv /\ UNCHANGED Seen => ContractInv'
  BY DEF ContractInv, Begun, ReaderKnows, FatesApart, IdIsOfTheLast, Seen

\* A call that gets on with its work keeps its fate open.
LEMMA CallWorks ==
  ASSUME TypeOK, ContractInv, NEW s \in Calls,
         UNCHANGED <<next, idOf, calls, byId, cancelled, reader, at, written>>,
         thread[s] \in {"begun", "launch", "program"},
         NEW to \in {"launch", "program", "over"}, thread' = [thread EXCEPT ![s] = to]
  PROVE  ContractInv'
<1> USE DEF TypeOK, ContractInv
<1>1. Begun'
  BY DEF Begun
<1>2. ReaderKnows'
  BY McpAssumption DEF ReaderKnows, Calls, NoCall
<1>3. FatesApart'
  BY DEF FatesApart
<1>4. IdIsOfTheLast'
  BY McpAssumption DEF IdIsOfTheLast, Calls, NoCall
<1> QED
  BY <1>1, <1>2, <1>3, <1>4

LEMMA ContractInvInit == Init => ContractInv
  BY McpAssumption DEF Init, ContractInv, Begun, ReaderKnows, FatesApart, IdIsOfTheLast,
     Calls, NoCall

LEMMA ContractInvStep == TypeOK /\ ContractInv /\ [Next]_vars => ContractInv'
<1> SUFFICES ASSUME TypeOK, ContractInv, [Next]_vars PROVE ContractInv'
  OBVIOUS
<1> USE McpAssumption DEF TypeOK, ContractInv, Calls, NoCall, registry, tokens, endings, output
<1>1. ASSUME NEW id \in Ids, Begin(id) PROVE ContractInv'
  <2> USE <1>1 DEF Begin
  <2>1. Begun'
    BY DEF Begun, ReaderKnows
  <2>2. ReaderKnows'
    BY DEF ReaderKnows, Begun
  <2>3. FatesApart'
    BY DEF FatesApart, Begun
  <2>4. IdIsOfTheLast'
    BY DEF IdIsOfTheLast, Begun
  <2> QED
    BY <2>1, <2>2, <2>3, <2>4
<1>2. CASE Spawned
  <2> USE <1>2 DEF Spawned
  <2>1. Begun'
    BY DEF Begun, ReaderKnows
  <2>2. ReaderKnows'
    BY DEF ReaderKnows
  <2>3. FatesApart'
    BY DEF FatesApart, ReaderKnows
  <2>4. IdIsOfTheLast'
    BY DEF IdIsOfTheLast, ReaderKnows
  <2> QED
    BY <2>1, <2>2, <2>3, <2>4
<1>3. CASE SpawnFails
  <2> USE <1>3 DEF SpawnFails, Removed
  <2>1. Begun'
    BY DEF Begun, ReaderKnows
  <2>2. ReaderKnows'
    BY DEF ReaderKnows
  <2>3. FatesApart'
    BY DEF FatesApart, ReaderKnows
  <2>4. IdIsOfTheLast'
    BY DEF IdIsOfTheLast, ReaderKnows
  <2> QED
    BY <2>1, <2>2, <2>3, <2>4
<1>4. CASE ReadQuick
  BY <1>4 DEF ReadQuick, Begun, ReaderKnows, FatesApart, IdIsOfTheLast
<1>5. CASE Reply
  <2> USE <1>5 DEF Reply
  <2>1. Begun'
    BY DEF Begun
  <2>2. ReaderKnows'
    BY DEF ReaderKnows
  <2>3. FatesApart'
    BY DEF FatesApart, ReaderKnows
  <2>4. IdIsOfTheLast'
    BY DEF IdIsOfTheLast
  <2> QED
    BY <2>1, <2>2, <2>3, <2>4
<1>6. ASSUME NEW id \in Ids, Cancel(id) PROVE ContractInv'
  <2> USE <1>6 DEF Cancel
  <2>1. Begun'
    BY DEF Begun
  <2>2. ReaderKnows'
    BY DEF ReaderKnows
  <2>3. FatesApart'
    <3>1. byId[id] \in Calls /\ byId[id] < next /\ byId[id] # NoCall
      OBVIOUS
    <3>2. thread[byId[id]] \in {"begun", "launch", "program", "over"}
      BY <3>1 DEF IdIsOfTheLast, Begun
    <3> QED
      BY <3>1, <3>2 DEF FatesApart
  <2>4. IdIsOfTheLast'
    BY DEF IdIsOfTheLast
  <2> QED
    BY <2>1, <2>2, <2>3, <2>4
<1>7. CASE CancelStops \/ InputEnds
  <2>1. /\ UNCHANGED <<next, idOf, calls, byId, cancelled, thread, written>>
        /\ reader # "spawn" /\ reader' \in {"read", "end"} /\ (reader' = "read" => at' = NoCall)
    BY <1>7 DEF CancelStops, InputEnds
  <2> QED
    BY <2>1 DEF Begun, ReaderKnows, FatesApart, IdIsOfTheLast
<1>8. ASSUME NEW s \in Calls,
             Refuse(s) \/ NotStarted(s) \/ Proceed(s) \/ LaunchFails(s) \/ Launch(s) \/ ProgramEnds(s)
      PROVE ContractInv'
  BY <1>8, CallWorks DEF Refuse, NotStarted, Proceed, LaunchFails, Launch, ProgramEnds,
     CallMoves
<1>9. ASSUME NEW s \in Calls, Settle(s) PROVE ContractInv'
  <2> USE <1>9 DEF Settle, CallMoves
  <2>1. Begun'
    BY DEF Begun
  <2>2. ReaderKnows'
    BY DEF ReaderKnows
  <2>3. FatesApart'
    BY DEF FatesApart
  <2>4. IdIsOfTheLast'
    BY DEF IdIsOfTheLast
  <2> QED
    BY <2>1, <2>2, <2>3, <2>4
<1>10. ASSUME NEW s \in Calls, Send(s) PROVE ContractInv'
  <2> USE <1>10 DEF Send, CallMoves
  <2>1. Begun'
    BY DEF Begun
  <2>2. ReaderKnows'
    BY DEF ReaderKnows
  <2>3. FatesApart'
    BY DEF FatesApart
  <2>4. IdIsOfTheLast'
    BY DEF IdIsOfTheLast
  <2> QED
    BY <2>1, <2>2, <2>3, <2>4
<1>11. ASSUME NEW s \in Calls, Finish(s) PROVE ContractInv'
  <2> USE <1>11 DEF Finish
  <2>1. Begun'
    BY DEF Begun
  <2>2. ReaderKnows'
    BY DEF ReaderKnows
  <2>3. FatesApart'
    BY DEF FatesApart
  <2>4. IdIsOfTheLast'
    BY DEF IdIsOfTheLast
  <2> QED
    BY <2>1, <2>2, <2>3, <2>4
<1>12. ASSUME NEW e \in Enders, EnderStep(e) PROVE ContractInv'
  BY <1>12, NotSeen
     DEF EnderStep, End, StopAll, StopOne, WaitEmpty, WaitEnds, Leave, EnderMoves, Seen
<1>13. CASE SignalComes \/ Tick
  BY <1>13, NotSeen DEF SignalComes, Tick, EnderMoves, Seen
<1>14. ASSUME NEW how \in {"stalled", "gone"}, ClientChanges(how) PROVE ContractInv'
  BY <1>14, NotSeen DEF ClientChanges, Seen
<1>15. CASE UNCHANGED vars
  BY <1>15, NotSeen DEF vars, Seen
<1> QED
  BY <1>1, <1>2, <1>3, <1>4, <1>5, <1>6, <1>7, <1>8, <1>9, <1>10, <1>11, <1>12, <1>13,
     <1>14, <1>15
     DEF Next, ReaderStep, CallStep

-----------------------------------------------------------------------------
(* The refinement *)

LEMMA ContractInit == Init => Contract!Init
  BY McpAssumption DEF Init, Contract!Init, Contract!Calls, fate, Fate, Calls

LEMMA OneTurns ==
  ASSUME NEW s \in Calls, NEW to, Fate(s)' = to,
         \A t \in Calls : t # s => Fate(t)' = Fate(t)
  PROVE  fate' = [fate EXCEPT ![s] = to]
  BY DEF fate

LEMMA NoneTurns == (\A t \in Calls : Fate(t)' = Fate(t)) => UNCHANGED fate
  BY DEF fate

\* What a step does to the fates, if it does something: one of them turns.
LEMMA ContractStep == TypeOK /\ ContractInv /\ [Next]_vars => [Contract!Next]_(Contract!vars)
<1> SUFFICES ASSUME TypeOK, ContractInv, [Next]_vars
             PROVE  [Contract!Next]_(Contract!vars)
  OBVIOUS
<1> USE McpAssumption DEF TypeOK, ContractInv, Calls, NoCall, registry, tokens, endings, output
<1> DEFINE Same == UNCHANGED <<next, idOf, fate, left>>
           Turn(s, from, to) ==
             /\ s \in Calls /\ fate[s] = from /\ fate' = [fate EXCEPT ![s] = to]
             /\ UNCHANGED <<next, idOf, left>>
<1>1. Contract!Calls = Calls
  BY DEF Contract!Calls
<1>2. CASE UNCHANGED vars
  <2>1. Same
    BY <1>2 DEF vars, fate, Fate
  <2> QED
    BY <2>1 DEF Contract!vars
<1>3. SUFFICES ASSUME Next PROVE Contract!Next \/ Same
  BY <1>2, <1>3 DEF Contract!vars
<1>4. ~left
  BY <1>3 DEF Next
<1>5. ASSUME NEW s, Turn(s, "open", "settled") PROVE Contract!Next
  BY <1>1, <1>4, <1>5 DEF Contract!Next, Contract!Settle, Contract!Turns
<1>6. ASSUME NEW s, Turn(s, "settled", "answered") PROVE Contract!Next
  BY <1>1, <1>4, <1>6 DEF Contract!Next, Contract!Answer, Contract!Turns
<1>7. ASSUME NEW id \in Ids, Begin(id) PROVE Contract!Next
  <2>1. next \in Calls /\ thread[next] = "none" /\ next \notin written \cup cancelled
    BY <1>7 DEF Begin, Begun
  <2>2. fate[next] = "none" /\ fate' = [fate EXCEPT ![next] = "open"]
    <3>1. PICK s \in Calls : s = next
      BY <2>1
    <3>2. UNCHANGED <<cancelled, written, thread>> /\ next' = next + 1
      BY <1>7 DEF Begin
    <3>3. Fate(s) = "none" /\ Fate(s)' = "open"
      BY <2>1, <3>1, <3>2 DEF Fate
    <3>4. \A t \in Calls : t # s => Fate(t)' = Fate(t)
      BY <3>1, <3>2 DEF Fate
    <3> QED
      BY <3>1, <3>3, <3>4, OneTurns DEF fate
  <2>3. idOf' = [idOf EXCEPT ![next] = id] /\ next' = next + 1 /\ UNCHANGED left
    BY <1>7 DEF Begin
  <2>4. Contract!Ask(id)
    BY <1>1, <1>4, <2>1, <2>2, <2>3 DEF Contract!Ask, Contract!Turns
  <2> QED
    BY <2>4 DEF Contract!Next
<1>8. CASE Spawned
  <2>1. thread[at] = "none" /\ thread' = [thread EXCEPT ![at] = "begun"]
    BY <1>8 DEF Spawned, ReaderKnows
  <2>2. Same
    BY <1>8, <2>1 DEF Spawned, fate, Fate
  <2> QED
    BY <2>2
<1>9. CASE SpawnFails
  <2>1. /\ at \in Calls /\ at < next /\ thread[at] = "none"
        /\ at \notin written \cup cancelled
    <3>1. at \in Calls /\ at < next /\ thread[at] = "none"
      BY <1>9 DEF SpawnFails, ReaderKnows
    <3> QED
      BY <3>1 DEF FatesApart
  <2>2. thread' = [thread EXCEPT ![at] = "refused"]
    BY <1>9 DEF SpawnFails
  <2>3. fate[at] = "open" /\ fate' = [fate EXCEPT ![at] = "settled"]
    <3>1. UNCHANGED <<next, cancelled, written>>
      BY <1>9 DEF SpawnFails
    <3>2. PICK s \in Calls : s = at
      BY <2>1
    <3>3. Fate(s) = "open" /\ Fate(s)' = "settled"
      BY <2>1, <2>2, <3>1, <3>2 DEF Fate
    <3>4. \A t \in Calls : t # s => Fate(t)' = Fate(t)
      BY <2>2, <3>1, <3>2 DEF Fate
    <3> QED
      BY <3>2, <3>3, <3>4, OneTurns DEF fate
  <2>4. Turn(at, "open", "settled")
    BY <1>9, <2>1, <2>3 DEF SpawnFails
  <2> QED
    BY <1>5, <2>4
<1>10. CASE Reply
  <2>1. CASE client = "reads" /\ at # NoCall /\ at \notin written
    <3>1. at \in Calls /\ thread[at] = "refused" /\ at \notin cancelled /\ at < next
      BY <1>10, <2>1 DEF Reply, ReaderKnows, FatesApart, Begun
    <3>2. fate[at] = "settled" /\ fate' = [fate EXCEPT ![at] = "answered"]
      <4>1. UNCHANGED <<next, cancelled, thread>> /\ written' = written \cup {at}
        BY <1>10, <2>1 DEF Reply
      <4>2. PICK s \in Calls : s = at
        BY <3>1
      <4>3. Fate(s) = "settled" /\ Fate(s)' = "answered"
        BY <2>1, <3>1, <4>1, <4>2 DEF Fate
      <4>4. \A t \in Calls : t # s => Fate(t)' = Fate(t)
        BY <4>1, <4>2 DEF Fate
      <4> QED
        BY <4>2, <4>3, <4>4, OneTurns DEF fate
    <3>3. Turn(at, "settled", "answered")
      BY <1>10, <3>1, <3>2 DEF Reply
    <3> QED
      BY <1>6, <3>3
  <2>2. CASE ~(client = "reads" /\ at # NoCall /\ at \notin written)
    <3>1. UNCHANGED <<next, idOf, cancelled, written, thread, left>>
      BY <1>10, <2>2 DEF Reply
    <3> QED
      BY <3>1 DEF fate, Fate
  <2> QED
    BY <2>1, <2>2
<1>11. ASSUME NEW id \in Ids, Cancel(id) PROVE Contract!Next \/ Same
  <2>0. PICK s \in Calls : s = byId[id]
    BY <1>11 DEF Cancel
  <2>1. s < next /\ s # NoCall
    BY <1>11, <2>0 DEF Cancel
  <2>2. thread[s] \in {"begun", "launch", "program", "over"}
    BY <1>11, <2>0, <2>1 DEF Cancel, IdIsOfTheLast, Begun
  <2>3. idOf[s] = id /\ id \notin Falsy /\ \A t \in Calls : t > s => idOf[t] # id
    BY <1>11, <2>0, <2>1 DEF Cancel, IdIsOfTheLast
  <2>4. UNCHANGED <<next, idOf, written, thread, left>> /\ cancelled' = cancelled \cup {s}
    BY <1>11, <2>0 DEF Cancel
  <2>5. CASE s \in cancelled
    BY <2>4, <2>5 DEF fate, Fate
  <2>6. CASE s \notin cancelled
    <3>1. s \notin written
      BY <2>2 DEF FatesApart
    <3>2. fate[s] = "open" /\ fate' = [fate EXCEPT ![s] = "silent"]
      <4>1. Fate(s) = "open" /\ Fate(s)' = "silent"
        BY <2>1, <2>2, <2>4, <2>6, <3>1 DEF Fate
      <4>2. \A t \in Calls : t # s => Fate(t)' = Fate(t)
        BY <2>4 DEF Fate
      <4> QED
        BY <2>1, <4>1, <4>2, OneTurns DEF fate
    <3>3. Contract!Cancel(s)
      BY <1>1, <1>4, <2>3, <2>4, <3>2 DEF Contract!Cancel, Contract!Turns
    <3> QED
      BY <1>1, <2>1, <3>3 DEF Contract!Next
  <2> QED
    BY <2>5, <2>6
<1>12. CASE ReadQuick \/ CancelStops \/ InputEnds \/ SignalComes \/ Tick
  <2>1. UNCHANGED <<next, idOf, cancelled, written, thread, left>>
    BY <1>12 DEF ReadQuick, CancelStops, InputEnds, SignalComes, Tick
  <2> QED
    BY <2>1 DEF fate, Fate
<1>13. ASSUME NEW s \in Calls, ProgramEnds(s) \/ Refuse(s) \/ NotStarted(s) PROVE Same
  <2>1. /\ thread[s] \in {"begun", "program"} /\ thread' = [thread EXCEPT ![s] = "over"]
        /\ UNCHANGED <<next, idOf, cancelled, written, left>>
    BY <1>13 DEF ProgramEnds, Refuse, NotStarted, CallMoves
  <2> QED
    BY <2>1 DEF fate, Fate
<1>14. ASSUME NEW s \in Calls, Proceed(s) \/ LaunchFails(s) \/ Launch(s) PROVE Same
  <2>1. /\ thread[s] \in {"begun", "launch"}
        /\ \E to \in {"launch", "over", "program"} : thread' = [thread EXCEPT ![s] = to]
        /\ UNCHANGED <<next, idOf, cancelled, written, left>>
    BY <1>14 DEF Proceed, LaunchFails, Launch, CallMoves
  <2> QED
    BY <2>1 DEF fate, Fate
<1>15. ASSUME NEW s \in Calls, Settle(s) PROVE Contract!Next \/ Same
  <2>1. /\ thread[s] = "over" /\ s < next /\ s \notin written
        /\ thread' = [thread EXCEPT ![s] = IF s \in cancelled THEN "dropped" ELSE "answer"]
        /\ UNCHANGED <<next, idOf, cancelled, written, left>>
    BY <1>15 DEF Settle, CallMoves, Begun, FatesApart
  <2>2. CASE s \in cancelled
    BY <2>1, <2>2 DEF fate, Fate
  <2>3. CASE s \notin cancelled
    <3>1. fate[s] = "open" /\ fate' = [fate EXCEPT ![s] = "settled"]
      <4>1. Fate(s) = "open" /\ Fate(s)' = "settled"
        BY <2>1, <2>3 DEF Fate
      <4>2. \A t \in Calls : t # s => Fate(t)' = Fate(t)
        BY <2>1 DEF Fate
      <4> QED
        BY <4>1, <4>2, OneTurns DEF fate
    <3> QED
      BY <1>5, <2>1, <3>1
  <2> QED
    BY <2>2, <2>3
<1>16. ASSUME NEW s \in Calls, Send(s) PROVE Contract!Next \/ Same
  <2>1. /\ thread[s] = "answer" /\ s < next /\ s \notin written \cup cancelled
        /\ UNCHANGED <<next, idOf, cancelled, left>>
    <3>1. thread[s] = "answer" /\ UNCHANGED <<next, idOf, cancelled, left>>
      BY <1>16 DEF Send, CallMoves
    <3>2. s < next
      BY <3>1 DEF Begun
    <3> QED
      BY <3>1, <3>2 DEF FatesApart
  <2>2. CASE client = "reads"
    <3>1. written' = written \cup {s} /\ thread' = [thread EXCEPT ![s] = "sent"]
      BY <1>16, <2>2 DEF Send, CallMoves
    <3>2. fate[s] = "settled" /\ fate' = [fate EXCEPT ![s] = "answered"]
      <4>1. Fate(s) = "settled" /\ Fate(s)' = "answered"
        BY <2>1, <3>1 DEF Fate
      <4>2. \A t \in Calls : t # s => Fate(t)' = Fate(t)
        BY <2>1, <3>1 DEF Fate
      <4> QED
        BY <4>1, <4>2, OneTurns DEF fate
    <3> QED
      BY <1>6, <2>1, <3>2
  <2>3. CASE client # "reads"
    <3>1. written' = written /\ thread' = [thread EXCEPT ![s] = "unsent"]
      BY <1>16, <2>3 DEF Send, CallMoves
    <3>2. \A t \in Calls : Fate(t)' = Fate(t)
      BY <2>1, <3>1 DEF Fate
    <3> QED
      BY <2>1, <3>2, NoneTurns
  <2> QED
    BY <2>2, <2>3
<1>17. ASSUME NEW s \in Calls, Finish(s) PROVE Same
  <2>1. /\ thread[s] \in {"dropped", "sent", "unsent"}
        /\ thread' = [thread EXCEPT ![s] = "gone"]
        /\ UNCHANGED <<next, idOf, cancelled, written, left>>
    BY <1>17 DEF Finish
  <2>2. s \in written \cup cancelled \/ thread[s] = "unsent"
    BY <2>1 DEF FatesApart
  <2> QED
    BY <2>1, <2>2 DEF fate, Fate
<1>18. ASSUME NEW e \in Enders, Leave(e) PROVE Contract!Next
  <2>1. left' = TRUE /\ UNCHANGED <<next, idOf, cancelled, written, thread>>
    BY <1>18 DEF Leave
  <2>2. UNCHANGED fate
    BY <2>1 DEF fate, Fate
  <2> QED
    BY <1>4, <2>1, <2>2 DEF Contract!Next, Contract!Leave
<1>19. ASSUME NEW e \in Enders,
              End(e) \/ StopAll(e) \/ StopOne(e) \/ WaitEmpty(e) \/ WaitEnds(e)
       PROVE  Same
  <2>1. UNCHANGED <<next, idOf, cancelled, written, thread, left>>
    BY <1>19 DEF End, StopAll, StopOne, WaitEmpty, WaitEnds
  <2> QED
    BY <2>1 DEF fate, Fate
<1>20. ASSUME NEW how \in {"stalled", "gone"}, ClientChanges(how) PROVE Same
  <2>1. UNCHANGED <<next, idOf, cancelled, written, thread, left>>
    BY <1>20 DEF ClientChanges
  <2> QED
    BY <2>1 DEF fate, Fate
<1> QED
  BY <1>3, <1>7, <1>8, <1>9, <1>10, <1>11, <1>12, <1>13, <1>14, <1>15, <1>16, <1>17,
     <1>18, <1>19, <1>20
     DEF Next, ReaderStep, CallStep, EnderStep

LEMMA McpInvariant == Spec => [](TypeOK /\ ContractInv)
<1>1. Init => TypeOK /\ ContractInv
  BY McpTypeInit, ContractInvInit
<1>2. TypeOK /\ ContractInv /\ [Next]_vars => (TypeOK /\ ContractInv)'
  BY McpTypeStep, ContractInvStep
<1> QED
  BY <1>1, <1>2, PTL DEF Spec

\* The state of the server and of its threads has its types, the two clocks of
\* an ending and of a stopped program in their bounds included (Registry, Tick).
THEOREM McpTypeCorrect == Spec => []TypeOK
  BY McpInvariant, PTL

\* The loop of the server, its threads and its endings together keep what the
\* client may count on: one fate for each request (Registry, start_call, end).
THEOREM KeepsContractHolds == Spec => KeepsContract
<1>1. Spec => Contract!Init /\ [][Contract!Next]_(Contract!vars)
  BY ContractInit, ContractStep, McpInvariant, PTL DEF Spec
<1> QED
  BY <1>1, PTL DEF KeepsContract, Contract!Spec

-----------------------------------------------------------------------------
(* What an ending leaves open: the strengthening *)

\* A call is registered from its begin to its finish.
Registered == \A s \in Calls : s \in calls <=> s < next /\ thread[s] \notin {"gone", "refused"}

\* An answer nobody took was for a client that is gone for good; every other
\* call that is gone was answered or cancelled.
NobodyTookIt ==
  \A s \in Calls :
    /\ thread[s] = "unsent" => client = "gone"
    /\ thread[s] = "gone" => s \in written \cup cancelled \/ client = "gone"

\* A thread ends the server when its own work is done.
EndersAreFresh ==
  /\ \A s \in Calls : thread[s] # "gone" => ender[s] = "no"
  /\ reader # "end" => ender[Reader] = "no"

\* One thread stops the calls, and it is the one that found nobody ending.
OneStops ==
  /\ \A e \in Enders :
       /\ ender[e] \in {"stopAll", "stopping", "wait", "asleep", "awake", "done"} => ending
       /\ ender[e] = "stopAll" => ~closing
       /\ ender[e] = "stopping" => closing
       /\ \A f \in Enders : {ender[e], ender[f]} \subseteq {"stopAll", "stopping"} => e = f
  /\ closing => ending
  /\ ending /\ ~closing => \E e \in Enders : ender[e] = "stopAll"
  /\ toStop # {} => \E e \in Enders : ender[e] = "stopping"
  /\ ~closing => closedOn = {} /\ toStop = {}

\* A program of a call that was stopped was told.
StopsAreTold == \A s \in Calls : thread[s] = "program" /\ s \in stops => s \in told

\* What was in flight when closing was set is stopped or about to be; what
\* began since is stopped from the start and runs no program.
ClosingStops ==
  closing =>
    /\ closedOn \subseteq stops \cup toStop
    /\ \A s \in Calls \ closedOn :
         /\ thread[s] \notin {"launch", "program"}
         /\ s < next /\ thread[s] \in {"none", "begun"} => s \in stops

\* A wait that time has gone by in outlasts every program that was told, and
\* every answer that a client takes.
Outlasts(e) ==
  /\ closing /\ toStop = {}
  /\ \A s \in Calls :
       /\ thread[s] # "launch"
       /\ thread[s] = "program" => s \in told /\ age[s] + wait[e] >= EndWait
       /\ s \in closedOn /\ client = "reads" =>
            thread[s] \in {"gone", "refused"} \/ wait[e] + StopMost >= EndWait

\* Nothing runs, nothing is about to, and what was in flight is over.
NothingOpen ==
  /\ closing
  /\ \A s \in Calls :
       /\ thread[s] \notin {"launch", "program"}
       /\ s < next /\ thread[s] \in {"none", "begun"} => s \in stops
       /\ s \in closedOn /\ client = "reads" => thread[s] \in {"gone", "refused"}

WaitsLast ==
  \A e \in Enders :
    /\ ender[e] \in {"asleep", "awake"} => wait[e] = EndWait \/ Outlasts(e)
    /\ ender[e] = "done" /\ ~early => NothingOpen

LeavesWhenDone == left => \E e \in Enders : ender[e] = "done"

EndingInv ==
  /\ Registered /\ NobodyTookIt /\ EndersAreFresh /\ OneStops /\ StopsAreTold
  /\ ClosingStops /\ WaitsLast /\ LeavesWhenDone

-----------------------------------------------------------------------------
(* It is inductive *)

LEMMA EndingInvInit == Init => EndingInv
  BY McpAssumption DEF Init, EndingInv, Registered, NobodyTookIt, EndersAreFresh, OneStops,
     StopsAreTold, ClosingStops, WaitsLast, LeavesWhenDone, Calls, Enders

\* Who is woken was asleep, and nobody else is touched.
LEMMA OnlySleepersAreWoken ==
  ASSUME TypeOK, NEW rest
  PROVE  /\ Woken(rest) \in [Enders -> {"no", "asked", "stopAll", "stopping", "wait", "asleep",
                                          "awake", "done"}]
         /\ \A e \in Enders : ender[e] # "asleep" => Woken(rest)[e] = ender[e]
         /\ \A e \in Enders : ender[e] = "asleep" => Woken(rest)[e] \in {"asleep", "awake"}
  BY DEF TypeOK, Woken

LEMMA RegisteredStep == TypeOK /\ ContractInv /\ EndingInv /\ [Next]_vars => Registered'
<1> SUFFICES ASSUME TypeOK, ContractInv, EndingInv, [Next]_vars PROVE Registered'
  OBVIOUS
<1> USE McpAssumption DEF TypeOK, EndingInv, Calls, NoCall, registry, tokens, endings, output, Registered
<1>1. ASSUME NEW id \in Ids, Begin(id) PROVE Registered'
  BY <1>1 DEF Begin, ContractInv, Begun
<1>2. CASE Spawned \/ SpawnFails
  BY <1>2 DEF Spawned, SpawnFails, Removed, ContractInv, ReaderKnows
<1>3. ASSUME NEW s \in Calls, CallStep(s) \/ ProgramEnds(s) PROVE Registered'
  BY <1>3 DEF CallStep, Refuse, NotStarted, Proceed, LaunchFails, Launch, Settle, Send, Finish,
     ProgramEnds, CallMoves
<1>4. CASE UNCHANGED <<next, calls, thread>>
  BY <1>4
<1> QED
  BY <1>1, <1>2, <1>3, <1>4
     DEF Next, ReaderStep, Reply, CancelStops, ReadQuick, InputEnds, Cancel, SignalComes,
         Tick, ClientChanges,
         EnderStep, End, StopAll, StopOne, WaitEmpty, WaitEnds, Leave, vars

LEMMA NobodyTookItStep == TypeOK /\ ContractInv /\ EndingInv /\ [Next]_vars => NobodyTookIt'
<1> SUFFICES ASSUME TypeOK, ContractInv, EndingInv, [Next]_vars PROVE NobodyTookIt'
  OBVIOUS
<1> USE McpAssumption DEF TypeOK, EndingInv, Calls, NoCall, registry, tokens, endings, output, NobodyTookIt
<1>2. CASE Spawned \/ SpawnFails \/ Reply
  BY <1>2 DEF Spawned, SpawnFails, Reply
<1>3. ASSUME NEW s \in Calls, CallStep(s) \/ ProgramEnds(s) PROVE NobodyTookIt'
  BY <1>3 DEF CallStep, Refuse, NotStarted, Proceed, LaunchFails, Launch, Settle, Send, Finish,
     ProgramEnds, CallMoves, ContractInv, FatesApart
<1>5. ASSUME NEW how \in {"stalled", "gone"}, ClientChanges(how) PROVE NobodyTookIt'
  BY <1>5 DEF ClientChanges
<1>6. ASSUME NEW id \in Ids, Cancel(id) PROVE NobodyTookIt'
  BY <1>6 DEF Cancel
<1>4. CASE UNCHANGED <<thread, client, written, cancelled>>
  BY <1>4
<1> QED
  BY <1>2, <1>3, <1>4, <1>5, <1>6
     DEF Next, ReaderStep, CancelStops, ReadQuick, InputEnds, Begin, SignalComes, Tick,
         EnderStep, End, StopAll, StopOne, WaitEmpty, WaitEnds, Leave, vars

LEMMA EndersAreFreshStep == TypeOK /\ ContractInv /\ EndingInv /\ [Next]_vars => EndersAreFresh'
<1> SUFFICES ASSUME TypeOK, ContractInv, EndingInv, [Next]_vars PROVE EndersAreFresh'
  OBVIOUS
<1> USE DEF registry, tokens, endings, output, EndersAreFresh
<1>1. Calls \subseteq Enders /\ Reader \in Enders /\ Reader \notin Calls /\ Signals \in Enders
      /\ Signals \notin Calls /\ Signals # Reader
  BY McpAssumption DEF Calls, Enders, Reader, Signals
<1>2. DOMAIN thread = Calls /\ DOMAIN ender = Enders
  BY DEF TypeOK
<1>3. EndersAreFresh
  BY DEF EndingInv
<1>4. ASSUME NEW rest, NEW e \in Enders, ender[e] = "no" PROVE Woken(rest)[e] = "no"
  BY <1>4, OnlySleepersAreWoken
<1>5. CASE Spawned
  BY <1>5, <1>1, <1>2, <1>3 DEF Spawned, ContractInv, ReaderKnows
<1>6. CASE Reply \/ InputEnds
  <2>1. UNCHANGED thread /\ reader # "end"
    BY <1>6 DEF Reply, InputEnds
  <2>2. \/ ender' = ender
        \/ reader' = "end" /\ ender' = [ender EXCEPT ![Reader] = "asked"]
    BY <1>6 DEF Reply, InputEnds
  <2> QED
    BY <1>1, <1>2, <1>3, <2>1, <2>2
<1>7. CASE SpawnFails
  <2>1. /\ thread' = [thread EXCEPT ![at] = "refused"] /\ ender' = Woken(calls \ {at})
        /\ reader = "spawn" /\ reader' = "reply" /\ thread[at] = "none"
    BY <1>7 DEF SpawnFails, Removed, ContractInv, ReaderKnows
  <2>2. \A s \in Calls : thread'[s] # "gone" => thread[s] # "gone"
    BY <1>2, <2>1
  <2> QED
    BY <1>1, <1>3, <1>4, <2>1, <2>2
<1>8. ASSUME NEW s \in Calls, Finish(s) PROVE EndersAreFresh'
  <2>1. thread' = [thread EXCEPT ![s] = "gone"] /\ reader' = reader
    BY <1>8 DEF Finish
  <2>2. \/ ender' = Woken(calls \ {s})
        \/ ender' = [Woken(calls \ {s}) EXCEPT ![s] = "asked"]
    BY <1>8 DEF Finish
  <2>3. ASSUME NEW e \in Enders, e # s, ender[e] = "no" PROVE ender'[e] = "no"
    BY <1>4, <2>2, <2>3, OnlySleepersAreWoken
  <2>4. ASSUME NEW t \in Calls, thread'[t] # "gone" PROVE ender'[t] = "no"
    BY <1>1, <1>2, <1>3, <2>1, <2>3, <2>4
  <2>5. reader # "end" => ender'[Reader] = "no"
    BY <1>1, <1>3, <2>3
  <2> QED
    BY <2>1, <2>4, <2>5
<1>9. ASSUME NEW s \in Calls, ProgramEnds(s) \/ Refuse(s) \/ NotStarted(s) \/ Proceed(s) \/ LaunchFails(s)
                              \/ Launch(s) \/ Settle(s) \/ Send(s)
      PROVE EndersAreFresh'
  <2>1. /\ UNCHANGED <<ender, reader>> /\ thread[s] # "gone"
        /\ \E to : thread' = [thread EXCEPT ![s] = to]
    BY <1>9 DEF Refuse, NotStarted, Proceed, LaunchFails, Launch, Settle, Send,
       ProgramEnds, CallMoves
  <2> QED
    BY <1>2, <1>3, <2>1
<1>10. ASSUME NEW e \in Enders, EnderStep(e) \/ SignalComes PROVE EndersAreFresh'
  <2>1. UNCHANGED <<thread, reader>>
    BY <1>10 DEF SignalComes, EnderStep, End, StopAll, StopOne, WaitEmpty, WaitEnds, Leave
  <2>2. \/ ender' = ender
        \/ ender' = [ender EXCEPT ![Signals] = "asked"]
        \/ ender[e] # "no" /\ \E to : ender' = [ender EXCEPT ![e] = to]
    BY <1>10 DEF SignalComes, EnderStep, End, StopAll, StopOne, WaitEmpty, WaitEnds, Leave,
       EnderMoves
  <2> QED
    BY <1>1, <1>2, <1>3, <2>1, <2>2
<1>11. CASE /\ UNCHANGED <<ender, thread>>
            /\ reader' = "end" => reader = "end"
            /\ reader = "end" => reader' = "end"
  BY <1>3, <1>11
<1> QED
  BY <1>1, <1>5, <1>6, <1>7, <1>8, <1>9, <1>10, <1>11
     DEF Next, ReaderStep, CallStep, Tick, ReadQuick, CancelStops, vars, ClientChanges,
         Begin, Cancel

LEMMA OneStopsStep == TypeOK /\ ContractInv /\ EndingInv /\ [Next]_vars => OneStops'
<1> SUFFICES ASSUME TypeOK, ContractInv, EndingInv, [Next]_vars PROVE OneStops'
  OBVIOUS
<1> USE DEF registry, tokens, endings, output
<1>1. Calls \subseteq Enders /\ Reader \in Enders /\ Signals \in Enders
  BY DEF Calls, Enders, Reader, Signals
<1>2. DOMAIN ender = Enders
  BY DEF TypeOK
<1>3. OneStops /\ EndersAreFresh
  BY DEF EndingInv
<1>4. ASSUME UNCHANGED <<ending, closing, closedOn, toStop>>,
             \A e \in Enders : \/ ender'[e] = ender[e]
                               \/ ender[e] = "asleep" /\ ender'[e] = "awake"
                               \/ ender[e] = "no" /\ ender'[e] = "asked"
      PROVE  OneStops'
  BY <1>3, <1>4 DEF OneStops
<1>5. CASE Reply \/ InputEnds \/ SignalComes
  <2>1. UNCHANGED <<ending, closing, closedOn, toStop>>
    BY <1>5 DEF Reply, InputEnds, SignalComes
  <2>2. \/ ender' = ender
        \/ ender[Reader] = "no" /\ ender' = [ender EXCEPT ![Reader] = "asked"]
        \/ ender[Signals] = "no" /\ ender' = [ender EXCEPT ![Signals] = "asked"]
    BY <1>3, <1>5 DEF Reply, InputEnds, SignalComes, EnderMoves, EndersAreFresh
  <2> QED
    BY <1>1, <1>2, <1>4, <2>1, <2>2
<1>6. CASE SpawnFails
  BY <1>4, <1>6, OnlySleepersAreWoken DEF SpawnFails, Removed
<1>7. ASSUME NEW s \in Calls, Finish(s) PROVE OneStops'
  <2>1. UNCHANGED <<ending, closing, closedOn, toStop>> /\ ender[s] = "no" /\ s \in Enders
    BY <1>1, <1>3, <1>7 DEF Finish, EndersAreFresh
  <2>2. \/ ender' = Woken(calls \ {s})
        \/ ender' = [Woken(calls \ {s}) EXCEPT ![s] = "asked"]
    BY <1>7 DEF Finish
  <2>3. ASSUME NEW e \in Enders
        PROVE  \/ ender'[e] = ender[e]
               \/ ender[e] = "asleep" /\ ender'[e] = "awake"
               \/ ender[e] = "no" /\ ender'[e] = "asked"
    BY <2>1, <2>2, OnlySleepersAreWoken
  <2> QED
    BY <1>4, <2>1, <2>3
<1>8. ASSUME NEW e \in Enders, End(e) PROVE OneStops'
  BY <1>2, <1>3, <1>8 DEF End, EnderMoves, OneStops
<1>9. ASSUME NEW e \in Enders, StopAll(e) PROVE OneStops'
  BY <1>2, <1>3, <1>9 DEF StopAll, EnderMoves, OneStops
<1>10. ASSUME NEW e \in Enders, StopOne(e) PROVE OneStops'
  BY <1>2, <1>3, <1>10 DEF StopOne, OneStops
<1>11. ASSUME NEW e \in Enders, WaitEmpty(e) \/ WaitEnds(e) PROVE OneStops'
  <2>1. /\ UNCHANGED <<ending, closing, closedOn, toStop>>
        /\ ender[e] \in {"wait", "awake", "asleep", "stopping"}
        /\ ender[e] = "stopping" => toStop = {}
        /\ \E to \in {"done", "asleep"} : ender' = [ender EXCEPT ![e] = to]
    BY <1>11 DEF WaitEmpty, WaitEnds, EnderMoves
  <2>2. ending
    BY <1>3, <2>1 DEF OneStops
  <2>3. \A f \in Enders : f # e => ender'[f] = ender[f]
    BY <1>2, <2>1
  <2>4. ender'[e] \in {"done", "asleep"}
    BY <1>2, <2>1
  <2>5. ending /\ ~closing => \E f \in Enders : ender'[f] = "stopAll"
    BY <1>3, <2>1, <2>3 DEF OneStops
  <2>6. toStop # {} => \E f \in Enders : ender'[f] = "stopping"
    BY <1>3, <2>1, <2>3 DEF OneStops
  <2> QED
    BY <1>3, <2>1, <2>2, <2>3, <2>4, <2>5, <2>6 DEF OneStops
<1>12. CASE UNCHANGED <<ender, ending, closing, closedOn, toStop>>
  BY <1>4, <1>12
<1> QED
  BY <1>5, <1>6, <1>7, <1>8, <1>9, <1>10, <1>11, <1>12
     DEF Next, ReaderStep, CallStep, EnderStep, Spawned, CancelStops, ReadQuick, Begin,
         Cancel, Tick, ClientChanges,
         Refuse, NotStarted, Proceed, LaunchFails, Launch, Settle, Send, ProgramEnds,
         Leave, vars

LEMMA StopsAreToldStep == TypeOK /\ ContractInv /\ EndingInv /\ [Next]_vars => StopsAreTold'
<1> SUFFICES ASSUME TypeOK, ContractInv, EndingInv, [Next]_vars PROVE StopsAreTold'
  OBVIOUS
<1> USE McpAssumption DEF TypeOK, EndingInv, NoCall, registry, tokens, endings, output, StopsAreTold, Stopping
<1>1. CASE Spawned \/ SpawnFails \/ CancelStops
  BY <1>1 DEF Spawned, SpawnFails, CancelStops
<1>2. ASSUME NEW id \in Ids, Begin(id) PROVE StopsAreTold'
  BY <1>2 DEF Begin, ContractInv, Begun
<1>3. ASSUME NEW s \in Calls, CallStep(s) \/ ProgramEnds(s) PROVE StopsAreTold'
  BY <1>3 DEF CallStep, Refuse, NotStarted, Proceed, LaunchFails, Launch, Settle, Send, Finish,
     ProgramEnds, CallMoves
<1>4. ASSUME NEW e \in Enders, StopOne(e) PROVE StopsAreTold'
  BY <1>4 DEF StopOne
<1>5. CASE UNCHANGED <<thread, stops, told>>
  BY <1>5
<1> QED
  BY <1>1, <1>2, <1>3, <1>4, <1>5
     DEF Next, ReaderStep, EnderStep, Reply, ReadQuick, InputEnds, Cancel, SignalComes,
         Tick, ClientChanges,
         End, StopAll, WaitEmpty, WaitEnds, Leave, vars

LEMMA ClosingStopsStep == TypeOK /\ ContractInv /\ EndingInv /\ [Next]_vars => ClosingStops'
<1> SUFFICES ASSUME TypeOK, ContractInv, EndingInv, [Next]_vars PROVE ClosingStops'
  OBVIOUS
<1> USE DEF registry, tokens, endings, output
<1>1. DOMAIN thread = Calls /\ calls \subseteq 0..(next - 1) /\ next \in Nat
  BY McpAssumption DEF TypeOK
<1>2. ClosingStops /\ OneStops /\ Registered /\ Begun
  BY DEF EndingInv, ContractInv
<1>3. CASE Spawned \/ SpawnFails
  <2>1. /\ UNCHANGED <<next, stops, closing, closedOn, toStop>>
        /\ at \in 0..(next - 1) /\ thread[at] = "none"
        /\ \E to \in {"begun", "refused"} : thread' = [thread EXCEPT ![at] = to]
    BY <1>3 DEF Spawned, SpawnFails, ContractInv, ReaderKnows
  <2> QED
    BY <1>1, <1>2, <2>1 DEF ClosingStops
<1>4. CASE CancelStops
  BY <1>2, <1>4 DEF ClosingStops, CancelStops, Stopping
<1>5. ASSUME NEW id \in Ids, Begin(id) PROVE ClosingStops'
  <2>1. /\ UNCHANGED <<closing, closedOn, toStop, thread>>
        /\ next' = next + 1 /\ stops \subseteq stops' /\ (closing => next \in stops')
    BY <1>5 DEF Begin
  <2>2. \A s \in Calls : s < next' => s < next \/ s = next
    BY <1>1, <2>1 DEF Calls
  <2> QED
    BY <1>2, <2>1, <2>2 DEF ClosingStops
<1>6. ASSUME NEW s \in Calls, CallStep(s) \/ ProgramEnds(s) PROVE ClosingStops'
  <2>1. UNCHANGED <<next, stops, closing, closedOn, toStop>>
    BY <1>6 DEF CallStep, Refuse, NotStarted, Proceed, LaunchFails, Launch, Settle, Send,
       Finish, ProgramEnds
  <2>2. \E to \in {"launch", "program", "over", "dropped", "answer", "sent", "unsent", "gone"} :
          /\ thread' = [thread EXCEPT ![s] = to]
          /\ to = "launch" => s \notin stops /\ thread[s] = "begun"
          /\ to = "program" => thread[s] = "launch"
    BY <1>6 DEF CallStep, Refuse, NotStarted, Proceed, LaunchFails, Launch, Settle, Send,
       Finish,
       ProgramEnds, CallMoves
  <2>3. thread[s] = "begun" => s < next
    BY <1>1, <1>2 DEF Begun, Calls
  <2> QED
    BY <1>1, <1>2, <2>1, <2>2, <2>3 DEF ClosingStops
<1>7. ASSUME NEW e \in Enders, StopOne(e) PROVE ClosingStops'
  BY <1>2, <1>7 DEF ClosingStops, StopOne, Stopping
<1>8. ASSUME NEW e \in Enders, StopAll(e) PROVE ClosingStops'
  <2>1. toStop' = calls /\ closedOn' = calls /\ UNCHANGED <<next, thread, stops>>
    BY <1>8 DEF StopAll
  <2>2. \A s \in Calls : s \notin calls /\ s < next => thread[s] \in {"gone", "refused"}
    BY <1>2 DEF Registered
  <2>3. \A s \in Calls : ~(s < next) => thread[s] = "none"
    BY <1>1, <1>2 DEF Begun, Calls
  <2> QED
    BY <2>1, <2>2, <2>3 DEF ClosingStops
<1>9. CASE UNCHANGED <<next, thread, stops, closing, closedOn, toStop>>
  BY <1>2, <1>9 DEF ClosingStops
<1> QED
  BY <1>3, <1>4, <1>5, <1>6, <1>7, <1>8, <1>9
     DEF Next, ReaderStep, EnderStep, Reply, ReadQuick, InputEnds, Cancel, SignalComes,
         Tick, ClientChanges,
         End, WaitEmpty, WaitEnds, Leave, vars


\* What no step undoes once the server closes.
LEMMA ClosingLasts ==
  ASSUME TypeOK, ContractInv, EndingInv, Next, closing
  PROVE  /\ closing' /\ closedOn' = closedOn /\ toStop' \subseteq toStop
         /\ told \subseteq told' /\ stops \subseteq stops'
         /\ client' = "reads" => client = "reads"
         /\ \A s \in Calls :
              /\ thread[s] \in {"gone", "refused"} => thread'[s] = thread[s]
              /\ thread'[s] = "program" => thread[s] \in {"program", "launch"}
              /\ thread'[s] = "launch" => thread[s] = "launch" \/ (thread[s] = "begun" /\ s \notin stops)
              /\ thread'[s] \in {"none", "begun"} => thread[s] \in {"none", "begun"}
              /\ s < next' => s < next \/ s \in stops'
<1> USE DEF registry, tokens, endings, output
<1> DEFINE Kept(s) ==
              /\ thread[s] \in {"gone", "refused"} => thread'[s] = thread[s]
              /\ thread'[s] = "program" => thread[s] \in {"program", "launch"}
              /\ thread'[s] = "launch" => thread[s] = "launch" \/ (thread[s] = "begun" /\ s \notin stops)
              /\ thread'[s] \in {"none", "begun"} => thread[s] \in {"none", "begun"}
           Flags == closing' = closing /\ closedOn' = closedOn
           Stops == toStop' \subseteq toStop /\ told \subseteq told' /\ stops \subseteq stops'
           Reads == client' = "reads" => client = "reads"
           Old == \A s \in Calls : s < next' => s < next \/ s \in stops'
           Same == Flags /\ Stops /\ Reads /\ next' = next
<1>1. DOMAIN thread = Calls /\ next \in Nat
  BY McpAssumption DEF TypeOK
<1>2. ASSUME Spawned \/ SpawnFails PROVE Same /\ \A s \in Calls : Kept(s)
  <2>1. thread[at] = "none" /\ \E to \in {"begun", "refused"} : thread' = [thread EXCEPT ![at] = to]
    BY <1>2 DEF Spawned, SpawnFails, ContractInv, ReaderKnows
  <2>2. Same
    BY <1>2 DEF Spawned, SpawnFails
  <2>3. ASSUME NEW s \in Calls PROVE Kept(s)
    BY <1>1, <2>1
  <2> QED
    BY <2>2, <2>3
<1>3. ASSUME NEW id \in Ids, Begin(id) PROVE Flags /\ Stops /\ Reads /\ Old /\ UNCHANGED thread
  <2>1. Flags /\ Stops /\ Reads /\ UNCHANGED thread
    BY <1>3 DEF Begin
  <2>2. next' = next + 1 /\ next \in stops'
    BY <1>3 DEF Begin
  <2> QED
    BY <1>1, <2>1, <2>2 DEF Calls
<1>4. ASSUME CancelStops PROVE Same /\ UNCHANGED thread
  <2>1. Flags /\ Reads /\ UNCHANGED <<thread, toStop, next>>
    BY <1>4 DEF CancelStops
  <2>2. told \subseteq told' /\ stops \subseteq stops'
    BY <1>4 DEF CancelStops, Stopping
  <2> QED
    BY <2>1, <2>2
<1>5. ASSUME NEW s \in Calls, CallStep(s) \/ ProgramEnds(s)
      PROVE  Same /\ \A t \in Calls : Kept(t)
  <2>1. Same
    BY <1>5 DEF CallStep, Refuse, NotStarted, Proceed, LaunchFails, Launch, Settle, Send,
       Finish, ProgramEnds
  <2>2. /\ thread[s] \notin {"none", "gone", "refused"}
        /\ \E to \in {"launch", "program", "over", "dropped", "answer", "sent", "unsent", "gone"} :
          /\ thread' = [thread EXCEPT ![s] = to]
          /\ to = "launch" => s \notin stops /\ thread[s] = "begun"
          /\ to = "program" => thread[s] = "launch"
    BY <1>5 DEF CallStep, Refuse, NotStarted, Proceed, LaunchFails, Launch, Settle, Send,
       Finish,
       ProgramEnds, CallMoves
  <2>3. ASSUME NEW t \in Calls PROVE Kept(t)
    BY <1>1, <2>2
  <2> QED
    BY <2>1, <2>3
<1>6. ASSUME NEW e \in Enders, EnderStep(e)
      PROVE  Same /\ UNCHANGED thread
  <2>1. ender[e] # "stopAll"
    BY DEF EndingInv, OneStops
  <2> QED
    BY <1>6, <2>1 DEF EnderStep, End, StopAll, StopOne, WaitEmpty, WaitEnds, Leave,
       EnderMoves, Stopping
<1>7. ASSUME Reply \/ ReadQuick \/ InputEnds \/ SignalComes \/ Tick
             \/ (\E id \in Ids : Cancel(id)) \/ \E how \in {"stalled", "gone"} : ClientChanges(how)
      PROVE  Same /\ UNCHANGED thread
  BY <1>7 DEF Reply, ReadQuick, InputEnds, SignalComes, Tick, Cancel, ClientChanges
<1>8. Flags /\ Stops /\ Reads /\ Old
  <2>1. Same => Old
    OBVIOUS
  <2> HIDE DEF Flags, Stops, Reads, Old
  <2> QED
    BY <1>2, <1>3, <1>4, <1>5, <1>6, <1>7, <2>1 DEF Next, ReaderStep
<1>9. ASSUME NEW t \in Calls PROVE Kept(t)
  <2>1. UNCHANGED thread => Kept(t)
    OBVIOUS
  <2> HIDE DEF Kept, Flags, Stops, Reads, Old
  <2> QED
    BY <1>2, <1>3, <1>4, <1>5, <1>6, <1>7, <2>1 DEF Next, ReaderStep
<1> QED
  BY <1>8, <1>9

\* Once nothing is open nothing opens again.
LEMMA NothingOpenLasts ==
  ASSUME TypeOK, ContractInv, EndingInv, Next, NothingOpen
  PROVE  NothingOpen'
<1>1. closing /\ Begun
  BY DEF NothingOpen, ContractInv
<1>2. \A s \in Calls : thread[s] = "begun" => s < next
  BY <1>1, McpAssumption DEF Begun, TypeOK, Calls
<1> QED
  BY <1>1, <1>2, ClosingLasts DEF NothingOpen

\* The time an ending has is enough until it passes.
LEMMA OutlastsLasts ==
  ASSUME TypeOK, ContractInv, EndingInv, Next, NEW e \in Enders, Outlasts(e),
         wait'[e] = wait[e],
         \A s \in Calls : thread[s] = "program" /\ thread'[s] = "program" => age'[s] = age[s]
  PROVE  Outlasts(e)'
<1>1. closing /\ Begun /\ ClosingStops
  BY DEF Outlasts, ContractInv, EndingInv
<1>2. \A s \in Calls : thread[s] = "begun" => s \in stops
  <2>1. \A s \in Calls : thread[s] = "begun" => s < next
    BY <1>1, McpAssumption DEF Begun, TypeOK, Calls
  <2> QED
    BY <1>1, <2>1 DEF ClosingStops, Outlasts
<1> QED
  BY <1>1, <1>2, ClosingLasts DEF Outlasts

\* A tick goes by only when every program that runs was told, and it is not
\* the last one of its time.
LEMMA TickOutlasts ==
  ASSUME TypeOK, ContractInv, EndingInv, Tick, NEW e \in Enders, ender[e] = "asleep"
  PROVE  Outlasts(e)'
<1>1. OneStops /\ Begun /\ ClosingStops /\ StopsAreTold /\ WaitsLast /\ ReaderKnows
  BY DEF EndingInv, ContractInv
<1>2. closing /\ toStop = {}
  BY <1>1 DEF Tick, Ready, OneStops
<1>3. wait[e] \in 1..EndWait /\ EndWait \in Nat /\ StopMost \in Nat
  BY McpAssumption DEF Tick, Ready, TypeOK
<1>4. wait' = [wait EXCEPT ![e] = wait[e] - 1] \/ wait'[e] = wait[e] - 1
  BY DEF Tick, Asleep
<1>5. wait'[e] = wait[e] - 1
  BY <1>4 DEF Tick, Asleep
<1>6. ASSUME NEW s \in Calls, thread[s] = "program"
      PROVE  s \in told /\ age[s] \in 0..(StopMost - 1) /\ age'[s] = age[s] + 1 /\ age[s] + wait[e] >= EndWait
  <2>1. s \in told
    BY <1>1, <1>2, <1>6 DEF ClosingStops, StopsAreTold
  <2>2. age[s] \in 0..StopMost
    BY DEF TypeOK
  <2>3. age[s] # StopMost
    BY <1>6, <2>1 DEF Tick, Ready
  <2>4. age'[s] = age[s] + 1
    BY <1>6, <2>1 DEF Tick, Told
  <2>5. age[s] + wait[e] >= EndWait
    BY <1>1, <1>3, <1>6, <2>2 DEF WaitsLast, Outlasts
  <2> QED
    BY <1>3, <2>1, <2>2, <2>3, <2>4, <2>5
<1>7. ASSUME NEW s \in Calls, s \in closedOn, client = "reads", thread[s] \notin {"gone", "refused"}
      PROVE  thread[s] = "program"
  <2>1. s < next
    BY <1>7, McpAssumption DEF TypeOK, Calls
  <2>2. thread[s] # "none"
    BY <1>1, <2>1 DEF Begun, Tick, Ready
  <2> QED
    BY <1>7, <2>2 DEF Tick, Ready, TypeOK
<1>8. UNCHANGED <<closing, toStop, thread, told, closedOn, client>>
  BY DEF Tick, registry, tokens, output
<1>9. \A s \in Calls : thread[s] # "launch"
  BY DEF Tick, Ready
<1> QED
  <2>1. ASSUME NEW s \in Calls, thread[s] = "program"
        PROVE  age'[s] + wait'[e] >= EndWait /\ wait'[e] + StopMost >= EndWait
    BY <1>3, <1>5, <1>6, <2>1
  <2> QED
    BY <1>2, <1>6, <1>7, <1>8, <1>9, <2>1 DEF Outlasts

LEMMA WaitsLastStep == TypeOK /\ ContractInv /\ EndingInv /\ [Next]_vars => WaitsLast'
<1> SUFFICES ASSUME TypeOK, ContractInv, EndingInv, [Next]_vars PROVE WaitsLast'
  OBVIOUS
<1> USE DEF registry, tokens, endings, output
<1>1. DOMAIN ender = Enders /\ DOMAIN wait = Enders /\ DOMAIN thread = Calls /\ Calls \subseteq Enders
  BY DEF TypeOK, Enders
<1>2. WaitsLast /\ Registered /\ Begun
  BY DEF EndingInv, ContractInv
<1>3. CASE UNCHANGED vars
  BY <1>2, <1>3 DEF vars, WaitsLast, Outlasts, NothingOpen
<1>4. CASE Next
  <2>1. ASSUME NEW e \in Enders, ender[e] = "done" \/ ender'[e] = ender[e], ender'[e] = "done", ~early', early => early'
        PROVE  NothingOpen'
    BY <1>2, <1>4, <2>1, NothingOpenLasts DEF WaitsLast
  <2>2. ASSUME NEW e \in Enders, ender[e] \in {"asleep", "awake"}, wait'[e] = wait[e],
               \A s \in Calls : thread[s] = "program" /\ thread'[s] = "program" => age'[s] = age[s]
        PROVE  wait'[e] = EndWait \/ Outlasts(e)'
    BY <1>2, <1>4, <2>2, OutlastsLasts DEF WaitsLast
  <2>3. ASSUME UNCHANGED <<wait, early>>,
               \A s \in Calls : thread[s] = "program" /\ thread'[s] = "program" => age'[s] = age[s],
               \A e \in Enders :
                 /\ ender'[e] \in {"asleep", "awake"} => ender[e] \in {"asleep", "awake"}
                 /\ ender'[e] = "done" => ender[e] = "done"
        PROVE  WaitsLast'
    BY <2>1, <2>2, <2>3 DEF WaitsLast
  <2>4. CASE Tick
    <3>1. UNCHANGED <<ender, early>> /\ \A e \in Enders : ender[e] # "awake"
      BY <2>4 DEF Tick, Ready
    <3> QED
      BY <2>1, <2>4, <3>1, TickOutlasts DEF WaitsLast
  <2>5. ASSUME NEW e \in Enders, WaitEmpty(e) PROVE WaitsLast'
    <3>1. /\ UNCHANGED <<thread, age, closing, next, closedOn>>
          /\ early' = (early \/ (calls = {} /\ ~closing))
          /\ wait' = IF ender[e] # "awake" THEN [wait EXCEPT ![e] = EndWait] ELSE wait
          /\ ender' = [ender EXCEPT ![e] = IF calls = {} THEN "done" ELSE "asleep"]
      BY <2>5 DEF WaitEmpty
    <3>2. ASSUME NEW f \in Enders, f # e PROVE ender'[f] = ender[f] /\ wait'[f] = wait[f]
      BY <1>1, <3>1, <3>2
    <3>3. ender'[e] = IF calls = {} THEN "done" ELSE "asleep"
      BY <1>1, <3>1
    <3>4. ender'[e] = "asleep" => wait'[e] = EndWait \/ Outlasts(e)'
      BY <1>1, <2>2, <3>1
    <3>5. ender'[e] = "done" /\ ~early' => NothingOpen'
      <4>1. SUFFICES ASSUME ender'[e] = "done", ~early' PROVE NothingOpen'
        OBVIOUS
      <4>5. calls = {}
        BY <3>3, <4>1
      <4>6. closing
        BY <3>1, <4>1, <4>5
      <4>2. \A s \in Calls : s < next => thread[s] \in {"gone", "refused"}
        BY <1>2, <4>5 DEF Registered
      <4>3. \A s \in Calls : ~(s < next) => thread[s] = "none"
        BY <1>2, McpAssumption DEF Begun, Calls, TypeOK
      <4>4. \A s \in closedOn : s < next
        BY McpAssumption DEF TypeOK
      <4> QED
        BY <3>1, <4>6, <4>2, <4>3, <4>4 DEF NothingOpen
    <3>6. early => early'
      BY <3>1
    <3>7. ASSUME NEW f \in Enders, f # e
          PROVE  /\ ender'[f] \in {"asleep", "awake"} => wait'[f] = EndWait \/ Outlasts(f)'
                 /\ ender'[f] = "done" /\ ~early' => NothingOpen'
      <4>1. ender'[f] = ender[f] /\ wait'[f] = wait[f]
        BY <3>2, <3>7
      <4>2. \A s \in Calls : age'[s] = age[s]
        BY <3>1
      <4> QED
        BY <2>1, <2>2, <3>6, <4>1, <4>2
    <3>8. ender'[e] # "awake"
      BY <3>3
    <3> QED
      BY <3>4, <3>5, <3>7, <3>8 DEF WaitsLast
  <2>6. ASSUME NEW e \in Enders, WaitEnds(e) PROVE WaitsLast'
    <3>1. /\ UNCHANGED <<thread, age, wait, early>>
          /\ ender[e] = "asleep" /\ ender' = [ender EXCEPT ![e] = "done"] /\ wait[e] = 0
      BY <2>6 DEF WaitEnds, EnderMoves
    <3>2. Outlasts(e) /\ ClosingStops
      BY <1>2, <3>1, McpAssumption DEF WaitsLast, EndingInv
    <3>3. NothingOpen
      <4>1. \A s \in Calls : age[s] < EndWait
        BY McpAssumption DEF TypeOK
      <4>2. \A s \in Calls : thread[s] # "program"
        BY <3>1, <3>2, <4>1, McpAssumption DEF Outlasts, TypeOK
      <4>3. \A s \in Calls : s \in closedOn /\ client = "reads" => thread[s] \in {"gone", "refused"}
        BY <3>1, <3>2, McpAssumption DEF Outlasts
      <4>4. \A s \in Calls : s < next /\ thread[s] \in {"none", "begun"} => s \in stops
        BY <3>2 DEF Outlasts, ClosingStops
      <4> QED
        BY <3>2, <4>2, <4>3, <4>4 DEF NothingOpen, Outlasts
    <3>4. NothingOpen'
      BY <1>4, <3>3, NothingOpenLasts
    <3> QED
      BY <1>1, <2>1, <2>2, <3>1, <3>4 DEF WaitsLast
  <2>7. CASE SpawnFails
    BY <2>3, <2>7, OnlySleepersAreWoken DEF SpawnFails, Removed, TypeOK
  <2>8. ASSUME NEW s \in Calls, Finish(s) PROVE WaitsLast'
    <3>1. UNCHANGED <<wait, early, age>>
      BY <2>8 DEF Finish
    <3>2. \/ ender' = Woken(calls \ {s})
          \/ ender' = [Woken(calls \ {s}) EXCEPT ![s] = "asked"]
      BY <2>8 DEF Finish
    <3>3. ASSUME NEW e \in Enders
          PROVE  /\ ender'[e] \in {"asleep", "awake"} => ender[e] \in {"asleep", "awake"}
                 /\ ender'[e] = "done" => ender[e] = "done"
      BY <1>1, <3>2, OnlySleepersAreWoken
    <3> QED
      BY <2>3, <3>1, <3>3
  <2>9. ASSUME NEW s \in Calls, ProgramEnds(s) PROVE WaitsLast'
    BY <1>1, <2>3, <2>9 DEF ProgramEnds, CallMoves
  <2>10. ASSUME UNCHANGED <<ender, wait, early, age>> PROVE WaitsLast'
    BY <2>3, <2>10
  <2>11. ASSUME NEW e \in Enders, End(e) \/ StopAll(e) PROVE WaitsLast'
    BY <1>1, <2>3, <2>11 DEF End, StopAll, EnderMoves
  <2>12. CASE Reply \/ InputEnds \/ SignalComes
    BY <1>1, <2>3, <2>12 DEF Reply, InputEnds, SignalComes, EnderMoves
  <2> QED
    BY <1>4, <2>4, <2>5, <2>6, <2>7, <2>8, <2>9, <2>10, <2>11, <2>12
       DEF Next, ReaderStep, CallStep, EnderStep, Spawned, CancelStops, ReadQuick, Begin,
           Cancel, ClientChanges,
           Refuse, NotStarted, Proceed, LaunchFails, Launch, Settle, Send, StopOne, Leave
<1> QED
  BY <1>3, <1>4

LEMMA LeavesWhenDoneStep == TypeOK /\ EndingInv /\ [Next]_vars => LeavesWhenDone'
<1> SUFFICES ASSUME TypeOK, EndingInv, [Next]_vars PROVE LeavesWhenDone'
  OBVIOUS
<1> USE DEF LeavesWhenDone, registry, tokens, endings, output
<1>1. CASE UNCHANGED vars
  BY <1>1 DEF vars, EndingInv
<1>2. ASSUME NEW e \in Enders, Leave(e) PROVE LeavesWhenDone'
  BY <1>2 DEF Leave
<1>3. ASSUME UNCHANGED left, ~left PROVE LeavesWhenDone'
  BY <1>3
<1> QED
  BY <1>1, <1>2, <1>3
     DEF Next, ReaderStep, CallStep, EnderStep, Spawned, SpawnFails, Reply, InputEnds,
         SignalComes, CancelStops,
         ReadQuick, Begin, Cancel, Tick, ClientChanges, Refuse, NotStarted, Proceed,
         LaunchFails, Launch, Settle,
         Send, Finish, ProgramEnds, End, StopAll, StopOne, WaitEmpty, WaitEnds

LEMMA EndingInvariant == Spec => []EndingInv
<1>1. TypeOK /\ ContractInv /\ EndingInv /\ [Next]_vars => EndingInv'
  BY RegisteredStep, NobodyTookItStep, EndersAreFreshStep, OneStopsStep, StopsAreToldStep,
     ClosingStopsStep, WaitsLastStep, LeavesWhenDoneStep DEF EndingInv
<1> QED
  BY <1>1, EndingInvInit, McpInvariant, PTL DEF Spec

\* When the process leaves, however it was ended and whatever calls began in
\* the middle of it, no program it started is left behind, and what was in
\* flight when it began to close was answered (Registry, end, wait_empty).
THEOREM LeavesNothingOpenHolds == Spec => []LeavesNothingOpen
<1>1. TypeOK /\ ContractInv /\ EndingInv => LeavesNothingOpen
  <2> SUFFICES ASSUME TypeOK, ContractInv, EndingInv, left, ~early PROVE LeavesNothingOpen
    BY DEF LeavesNothingOpen, NothingOutlives, AnsweredBeforeLeaving
  <2>1. NothingOpen
    BY DEF EndingInv, LeavesWhenDone, WaitsLast
  <2>2. \A s \in closedOn : s \in Calls
    BY McpAssumption DEF TypeOK, Calls
  <2> QED
    BY <2>1, <2>2 DEF LeavesNothingOpen, NothingOutlives, AnsweredBeforeLeaving,
       NothingOpen, EndingInv,
       NobodyTookIt
<1> QED
  BY <1>1, EndingInvariant, McpInvariant, PTL

-----------------------------------------------------------------------------
(* Counting and recursion *)

\* A set of numbers has a least.
LEMMA LeastNat == ASSUME NEW T, T \subseteq Nat, T # {} PROVE \E x \in T : \A y \in T : x <= y
<1>1. PICK x \in T : \A y \in T : ~(<<y, x>> \in OpToRel(<, Nat))
  BY WFMin, NatLessThanWellFounded
<1>2. \A y \in T : ~(y < x)  BY <1>1 DEF OpToRel
<1> QED  BY <1>2

\* What holds of zero, and of the next of any number it holds of, holds of all.
LEMMA Counting ==
  ASSUME NEW S, 0 \in S, \A n \in Nat : n \in S => n + 1 \in S
  PROVE  \A n \in Nat : n \in S
<1> SUFFICES ASSUME Nat \ S # {} PROVE FALSE  OBVIOUS
<1>1. PICK x \in Nat \ S : \A y \in Nat \ S : x <= y  BY LeastNat
<1>2. x # 0 /\ x - 1 \in Nat  BY <1>1
<1>3. x - 1 \in S  BY <1>1, <1>2
<1> QED  BY <1>1, <1>2, <1>3

\* A function that begins with base and goes on by step, of a type.
StaysIn(T, step) == \A n \in Nat : \A x \in T : step[<<n, x>>] \in T
Steps(f, T, base, step, m) ==
  f \in [0..m -> T] /\ f[0] = base /\ \A n \in 1..m : f[n] = step[<<n, f[n - 1]>>]

\* A step that stays in a type makes a function.
LEMMA Recursion ==
  ASSUME NEW T, NEW base, base \in T, NEW step, StaysIn(T, step), NEW m, m \in Nat
  PROVE  \E f : Steps(f, T, base, step, m)
<1> USE DEF StaysIn
<1> DEFINE Is(f, k) == f[0] = base /\ \A n \in 1..k : f[n] = step[<<n, f[n - 1]>>]
           S == {k \in Nat : \E f \in [0..k -> T] : Is(f, k)}
<1>1. 0 \in S
  <2> DEFINE f == [n \in 0..0 |-> base]
  <2>1. f \in [0..0 -> T] /\ Is(f, 0)  OBVIOUS
  <2> QED  BY <2>1
<1>2. ASSUME NEW k \in Nat, k \in S PROVE k + 1 \in S
  <2>1. PICK f \in [0..k -> T] : Is(f, k)  BY <1>2
  <2> DEFINE g == [n \in 0..(k + 1) |-> IF n = k + 1 THEN step[<<k + 1, f[k]>>] ELSE f[n]]
  <2>2. g \in [0..(k + 1) -> T]  OBVIOUS
  <2>3. g[k + 1] = step[<<k + 1, f[k]>>] /\ \A n \in 0..k : g[n] = f[n]  OBVIOUS
  <2> HIDE DEF g
  <2>4. ASSUME NEW n \in 1..(k + 1) PROVE g[n] = step[<<n, g[n - 1]>>]
    <3>1. CASE n = k + 1
      <4>1. n - 1 = k /\ k \in 0..k  BY <3>1
      <4> QED  BY <2>3, <3>1, <4>1
    <3>2. CASE n # k + 1
      <4>1. n \in 1..k /\ n - 1 \in 0..k /\ n \in 0..k  BY <3>2
      <4>2. g[n] = f[n] /\ g[n - 1] = f[n - 1]  BY <2>3, <4>1
      <4> QED  BY <2>1, <4>1, <4>2
    <3> QED  BY <3>1, <3>2
  <2>5. Is(g, k + 1)  BY <2>1, <2>3, <2>4
  <2> QED  BY <2>2, <2>5
<1> HIDE DEF S
<1>3. m \in S  BY <1>1, <1>2, Counting
<1> QED  BY <1>3 DEF S, Steps

\* Two that begin and go on alike are alike.
LEMMA Agree ==
  ASSUME NEW f, NEW g, NEW m \in Nat, f[0] = g[0],
         \A n \in 1..m : f[n - 1] = g[n - 1] => f[n] = g[n]
  PROVE  \A n \in 0..m : f[n] = g[n]
<1> DEFINE S == {n \in Nat : n <= m => f[n] = g[n]}
<1>1. 0 \in S  OBVIOUS
<1>2. ASSUME NEW n \in Nat, n \in S PROVE n + 1 \in S
  <2> SUFFICES ASSUME n + 1 <= m PROVE f[n + 1] = g[n + 1]  OBVIOUS
  <2>1. n + 1 \in 1..m /\ (n + 1) - 1 = n /\ n <= m  OBVIOUS
  <2> QED  BY <1>2, <2>1
<1> HIDE DEF S
<1>3. \A n \in Nat : n \in S  BY <1>1, <1>2, Counting
<1> QED  BY <1>3 DEF S

\* What holds of no entries, and of one more than it holds of, holds of every
\* sequence.
LEMMA Appending ==
  ASSUME NEW S, NEW P, <<>> \in P, \A s \in Seq(S) : \A x \in S : s \in P => Append(s, x) \in P
  PROVE  \A s \in Seq(S) : s \in P
<1> DEFINE N == {n \in Nat : \A s \in Seq(S) : Len(s) = n => s \in P}
<1>1. 0 \in N
  <2>1. \A s \in Seq(S) : Len(s) = 0 => s = <<>>  OBVIOUS
  <2> QED  BY <2>1
<1>2. ASSUME NEW n \in Nat, n \in N PROVE n + 1 \in N
  <2> SUFFICES ASSUME NEW s \in Seq(S), Len(s) = n + 1 PROVE s \in P  OBVIOUS
  <2> DEFINE t == SubSeq(s, 1, n)
  <2>1. t \in Seq(S) /\ Len(t) = n /\ s[n + 1] \in S  OBVIOUS
  <2>2. s = Append(t, s[n + 1])  OBVIOUS
  <2> HIDE DEF t
  <2>3. t \in P  BY <1>2, <2>1
  <2> QED  BY <2>1, <2>2, <2>3
<1> HIDE DEF N
<1>3. \A n \in Nat : n \in N  BY <1>1, <1>2, Counting
<1> QED  BY <1>3 DEF N

\* To append to the second of two is to append to both.
LEMMA AppendBehind ==
  ASSUME NEW S, NEW s \in Seq(S), NEW t \in Seq(S), NEW x \in S
  PROVE  s \o Append(t, x) = Append(s \o t, x)
<1>1. <<x>> \in Seq(S) /\ s \o t \in Seq(S)  OBVIOUS
<1>2. Append(t, x) = t \o <<x>> /\ Append(s \o t, x) = (s \o t) \o <<x>>  BY <1>1, AppendIsConcat
<1> QED  BY <1>1, <1>2, ConcatAssociative

-----------------------------------------------------------------------------
(* The lines of a buffer (mcp/rpc.rs) *)

ReadLines == [lines : Seq(Seq(Bytes)), rest : Seq(Bytes)]
NoLines == [lines |-> <<>>, rest |-> <<>>]

\* One byte on.
Taken(read, byte) ==
  IF byte = "n" THEN [lines |-> Append(read.lines, M!Cut(read.rest)), rest |-> <<>>]
  ELSE [read EXCEPT !.rest = Append(@, byte)]

\* A line without its return is a line, and not a longer one.
LEMMA CutIs ==
  ASSUME NEW line \in Seq(Bytes)
  PROVE  M!Cut(line) \in Seq(Bytes) /\ Len(M!Cut(line)) <= Len(line)
<1>1. CASE line # <<>> /\ M!Last(line) = "r"
  <2>1. M!Cut(line) = SubSeq(line, 1, Len(line) - 1)  BY <1>1 DEF M!Cut, M!Front
  <2>2. Len(line) \in Nat /\ Len(line) # 0  BY <1>1
  <2>2a. \A m \in 0..Len(line) : SubSeq(line, 1, m) \in Seq(Bytes) /\ Len(SubSeq(line, 1, m)) = m  OBVIOUS
  <2>2b. Len(line) - 1 \in 0..Len(line)  BY <2>2
  <2>3. M!Cut(line) \in Seq(Bytes) /\ Len(M!Cut(line)) = Len(line) - 1  BY <2>1, <2>2a, <2>2b
  <2> QED  BY <2>2, <2>3
<1>2. CASE ~(line # <<>> /\ M!Last(line) = "r")
  BY <1>2 DEF M!Cut
<1> QED  BY <1>1, <1>2

\* A reader of lines stays one, a byte on.
LEMMA TakenType ==
  ASSUME NEW read \in ReadLines, NEW byte \in Bytes PROVE Taken(read, byte) \in ReadLines
<1>1. read.lines \in Seq(Seq(Bytes)) /\ read.rest \in Seq(Bytes)  BY DEF ReadLines
<1>2. M!Cut(read.rest) \in Seq(Bytes)  BY <1>1, CutIs
<1>3. Append(read.lines, M!Cut(read.rest)) \in Seq(Seq(Bytes)) /\ Append(read.rest, byte) \in Seq(Bytes)
  BY <1>1, <1>2
<1>4. [read EXCEPT !.rest = Append(@, byte)] \in ReadLines  BY <1>1, <1>3 DEF ReadLines
<1>5. [lines |-> Append(read.lines, M!Cut(read.rest)), rest |-> <<>>] \in ReadLines  BY <1>3 DEF ReadLines
<1> QED  BY <1>4, <1>5 DEF Taken

\* A reader of the lines of a buffer.
Reads(f, buf) ==
  /\ f \in [0..Len(buf) -> ReadLines]
  /\ f[0] = NoLines
  /\ \A n \in 1..Len(buf) : f[n] = Taken(f[n - 1], buf[n])

\* Lines is what the reader has when the buffer is over.
LEMMA LinesIs ==
  ASSUME NEW buf \in Seq(Bytes)
  PROVE  \E f : Reads(f, buf) /\ M!Lines(buf) = f[Len(buf)]
<1> DEFINE N == Len(buf)
           step == [p \in Nat \X ReadLines |-> IF p[1] \in 1..N THEN Taken(p[2], buf[p[1]]) ELSE p[2]]
           Raw(h) == h = [n \in 0..N |->
              IF n = 0 THEN [lines |-> <<>>, rest |-> <<>>]
              ELSE IF buf[n] = "n" THEN [lines |-> Append(h[n - 1].lines, M!Cut(h[n - 1].rest)), rest |-> <<>>]
              ELSE [h[n - 1] EXCEPT !.rest = Append(@, buf[n])]]
<1>1. NoLines \in ReadLines /\ N \in Nat  BY DEF NoLines, ReadLines
<1>2. ASSUME NEW n \in Nat, NEW x \in ReadLines
      PROVE  step[<<n, x>>] = (IF n \in 1..N THEN Taken(x, buf[n]) ELSE x) /\ step[<<n, x>>] \in ReadLines
  <2>1. step[<<n, x>>] = (IF n \in 1..N THEN Taken(x, buf[n]) ELSE x)  OBVIOUS
  <2>2. n \in 1..N => Taken(x, buf[n]) \in ReadLines  BY TakenType
  <2> HIDE DEF step
  <2> QED  BY <2>1, <2>2
<1> HIDE DEF step
<1>2a. StaysIn(ReadLines, step)  BY <1>2 DEF StaysIn
<1>3. PICK f : Steps(f, ReadLines, NoLines, step, N)  BY <1>1, <1>2a, Recursion
<1>3a. f \in [0..N -> ReadLines] /\ f[0] = NoLines /\ \A n \in 1..N : f[n] = step[<<n, f[n - 1]>>]
  BY <1>3 DEF Steps
<1>4. ASSUME NEW n \in 1..N PROVE f[n] = Taken(f[n - 1], buf[n])
  <2>1. n \in Nat /\ n - 1 \in 0..N  BY <1>1
  <2> QED  BY <1>2, <1>3a, <2>1
<1>5. Reads(f, buf)  BY <1>3a, <1>4 DEF Reads
<1>6. Raw(f)
  <2>1. ASSUME NEW n \in 0..N
        PROVE  f[n] = IF n = 0 THEN [lines |-> <<>>, rest |-> <<>>]
              ELSE IF buf[n] = "n" THEN [lines |-> Append(f[n - 1].lines, M!Cut(f[n - 1].rest)), rest |-> <<>>]
              ELSE [f[n - 1] EXCEPT !.rest = Append(@, buf[n])]
    <3>1. CASE n = 0  BY <1>3a, <3>1 DEF NoLines
    <3>2. CASE n # 0
      <4>1. n \in 1..N  BY <1>1, <3>2
      <4> QED  BY <1>4, <3>2, <4>1 DEF Taken
    <3> QED  BY <3>1, <3>2
  <2>2. f = [n \in 0..N |-> f[n]]  BY <1>3a
  <2> HIDE DEF N
  <2> QED  BY <2>1, <2>2
<1> DEFINE g == CHOOSE h : Raw(h)
<1>7. Raw(g)  BY <1>6
<1>8. M!Lines(buf) = g[N]  BY DEF M!Lines
<1> HIDE DEF g
<1>9. \A n \in 0..N : f[n] = g[n]
  <2>1. f[0] = g[0]  BY <1>1, <1>6, <1>7
  <2>2. ASSUME NEW n \in 1..N, f[n - 1] = g[n - 1] PROVE f[n] = g[n]
    <3>1. n \in 0..N /\ n # 0  BY <1>1
    <3>2. f[n] = IF buf[n] = "n" THEN [lines |-> Append(f[n - 1].lines, M!Cut(f[n - 1].rest)), rest |-> <<>>]
              ELSE [f[n - 1] EXCEPT !.rest = Append(@, buf[n])]
      BY <1>6, <3>1
    <3>3. g[n] = IF buf[n] = "n" THEN [lines |-> Append(g[n - 1].lines, M!Cut(g[n - 1].rest)), rest |-> <<>>]
              ELSE [g[n - 1] EXCEPT !.rest = Append(@, buf[n])]
      BY <1>7, <3>1
    <3> QED  BY <2>2, <3>2, <3>3
  <2> QED  BY <1>1, <2>1, <2>2, Agree
<1>10. M!Lines(buf) = f[N]  BY <1>1, <1>8, <1>9
<1> QED  BY <1>5, <1>10

\* No buffer has no lines.
LEMMA LinesNil == M!Lines(<<>>) = NoLines
<1>1. <<>> \in Seq(Bytes) /\ Len(<<>>) = 0  OBVIOUS
<1>2. PICK f : Reads(f, <<>>) /\ M!Lines(<<>>) = f[0]  BY <1>1, LinesIs
<1> QED  BY <1>2 DEF Reads

\* The lines of one byte more are those of the reader one byte on.
LEMMA LinesAppend ==
  ASSUME NEW buf \in Seq(Bytes), NEW byte \in Bytes
  PROVE  M!Lines(Append(buf, byte)) = Taken(M!Lines(buf), byte) /\ M!Lines(buf) \in ReadLines
<1> DEFINE N == Len(buf)
           longer == Append(buf, byte)
<1>1. longer \in Seq(Bytes) /\ Len(longer) = N + 1 /\ N \in Nat /\ longer[N + 1] = byte
      /\ \A n \in 1..N : longer[n] = buf[n]
  OBVIOUS
<1> HIDE DEF longer
<1>2. PICK f : Reads(f, buf) /\ M!Lines(buf) = f[N]  BY LinesIs
<1>3. PICK g : Reads(g, longer) /\ M!Lines(longer) = g[N + 1]  BY <1>1, LinesIs
<1>4. f[0] = g[0]  BY <1>2, <1>3 DEF Reads
<1>5. ASSUME NEW n \in 1..N, f[n - 1] = g[n - 1] PROVE f[n] = g[n]
  <2>1. n \in 1..(N + 1)  BY <1>1
  <2> QED  BY <1>1, <1>2, <1>3, <1>5, <2>1 DEF Reads
<1>6. \A n \in 0..N : f[n] = g[n]  BY <1>1, <1>4, <1>5, Agree
<1>7. g[N + 1] = Taken(f[N], byte)
  <2>1. N + 1 \in 1..(N + 1) /\ (N + 1) - 1 = N /\ N \in 0..N  BY <1>1
  <2>2. g[N + 1] = Taken(g[(N + 1) - 1], longer[N + 1])  BY <1>1, <1>3, <2>1 DEF Reads
  <2> QED  BY <1>1, <1>6, <2>1, <2>2
<1>8. f[N] \in ReadLines  BY <1>1, <1>2 DEF Reads
<1> QED  BY <1>2, <1>3, <1>7, <1>8 DEF longer

\* What is held over ends no line.
LEMMA RestIsLeft ==
  ASSUME NEW buf \in Seq(Bytes)
  PROVE  M!Lines(M!Lines(buf).rest) = [lines |-> <<>>, rest |-> M!Lines(buf).rest]
<1> DEFINE P == {s \in Seq(Bytes) : M!Lines(M!Lines(s).rest) = [lines |-> <<>>, rest |-> M!Lines(s).rest]}
<1>1. <<>> \in P  BY LinesNil DEF NoLines
<1>2. ASSUME NEW s \in Seq(Bytes), NEW b \in Bytes, s \in P PROVE Append(s, b) \in P
  <2>1. M!Lines(Append(s, b)) = Taken(M!Lines(s), b) /\ M!Lines(s) \in ReadLines  BY LinesAppend
  <2> DEFINE r == M!Lines(s).rest
  <2>2. r \in Seq(Bytes) /\ M!Lines(r) = [lines |-> <<>>, rest |-> r]  BY <1>2, <2>1 DEF ReadLines
  <2>3. CASE b = "n"
    <3>1. M!Lines(Append(s, b)).rest = <<>>  BY <2>1, <2>3 DEF Taken
    <3> QED  BY <3>1, LinesNil DEF NoLines
  <2>4. CASE b # "n"
    <3>1. M!Lines(Append(s, b)).rest = Append(r, b)  BY <2>1, <2>4 DEF Taken, ReadLines
    <3>2. M!Lines(Append(r, b)) = Taken([lines |-> <<>>, rest |-> r], b)  BY <2>2, LinesAppend
    <3>3. M!Lines(Append(r, b)) = [lines |-> <<>>, rest |-> Append(r, b)]  BY <2>4, <3>2 DEF Taken
    <3>4. Append(s, b) \in Seq(Bytes)  OBVIOUS
    <3> HIDE DEF r
    <3> QED  BY <3>1, <3>3, <3>4
  <2> QED  BY <2>3, <2>4
<1> HIDE DEF P
<1>3. buf \in P  BY <1>1, <1>2, Appending
<1> QED  BY <1>3 DEF P

\* The lines of two pieces: those of the first, then those of what it held over
\* and the second.
LEMMA LinesOn ==
  ASSUME NEW s \in Seq(Bytes), NEW chunk \in Seq(Bytes)
  PROVE  LET on == M!Lines(M!Lines(s).rest \o chunk)
         IN  /\ M!Lines(s \o chunk) = [lines |-> M!Lines(s).lines \o on.lines, rest |-> on.rest]
             /\ on \in ReadLines /\ M!Lines(s) \in ReadLines
<1> DEFINE A == M!Lines(s)
           before == A.lines
           held == A.rest
           Is(t) == M!Lines(s \o t) = [lines |-> before \o M!Lines(held \o t).lines, rest |-> M!Lines(held \o t).rest]
           P == {t \in Seq(Bytes) : Is(t)}
<1>0. A \in ReadLines /\ held \in Seq(Bytes) /\ before \in Seq(Seq(Bytes))
      /\ A = [lines |-> before, rest |-> held] /\ M!Lines(held) = [lines |-> <<>>, rest |-> held]
  <2>1. A \in ReadLines  BY LinesAppend DEF Bytes
  <2> QED  BY <2>1, RestIsLeft DEF ReadLines
<1>0a. M!Lines(s) = [lines |-> before, rest |-> held]  BY <1>0
<1> HIDE DEF A, before, held
<1>1. <<>> \in P
  <2>1. s \o <<>> = s /\ held \o <<>> = held /\ before \o <<>> = before  BY <1>0
  <2>2. M!Lines(held \o <<>>).lines = <<>> /\ M!Lines(held \o <<>>).rest = held  BY <1>0, <2>1
  <2>3. M!Lines(s \o <<>>) = [lines |-> before, rest |-> held]  BY <1>0a, <2>1
  <2>4. Is(<<>>)  BY <2>1, <2>2, <2>3
  <2> QED  BY <2>4
<1>2. ASSUME NEW t \in Seq(Bytes), NEW b \in Bytes, t \in P PROVE Append(t, b) \in P
  <2> DEFINE B == M!Lines(held \o t)
             C == M!Lines(s \o t)
  <2>0. held \o t \in Seq(Bytes) /\ s \o t \in Seq(Bytes) /\ Append(t, b) \in Seq(Bytes)  BY <1>0
  <2>1. s \o Append(t, b) = Append(s \o t, b) /\ held \o Append(t, b) = Append(held \o t, b)
    BY <1>0, AppendBehind
  <2>2. M!Lines(held \o Append(t, b)) = Taken(B, b) /\ B \in ReadLines  BY <2>0, <2>1, LinesAppend
  <2>3. M!Lines(s \o Append(t, b)) = Taken(C, b) /\ C \in ReadLines  BY <2>0, <2>1, LinesAppend
  <2>4. C = [lines |-> before \o B.lines, rest |-> B.rest]  BY <1>2
  <2>5. B.lines \in Seq(Seq(Bytes)) /\ B.rest \in Seq(Bytes) /\ M!Cut(B.rest) \in Seq(Bytes)
    BY <2>2, CutIs DEF ReadLines
  <2> DEFINE of == B.lines
             cut == M!Cut(B.rest)
  <2> HIDE DEF B, C, of, cut
  <2>6. before \o Append(of, cut) = Append(before \o of, cut)
    <3> DEFINE Row == Seq(Bytes)
    <3>1. before \in Seq(Row) /\ of \in Seq(Row) /\ cut \in Row  BY <1>0, <2>5 DEF of, cut
    <3> HIDE DEF Row
    <3> QED  BY <3>1, AppendBehind
  <2>7. CASE b = "n"
    <3>1. Taken(C, b) = [lines |-> before \o Append(of, cut), rest |-> <<>>]
      BY <2>4, <2>6, <2>7 DEF Taken, of, cut
    <3>2. Taken(B, b) = [lines |-> Append(of, cut), rest |-> <<>>]  BY <2>7 DEF Taken, of, cut
    <3>3. Is(Append(t, b))  BY <2>2, <2>3, <3>1, <3>2
    <3> QED  BY <2>0, <3>3
  <2>8. CASE b # "n"
    <3>1. Taken(C, b) = [lines |-> before \o of, rest |-> Append(B.rest, b)]  BY <2>4, <2>8 DEF Taken, of
    <3>2. Taken(B, b) = [lines |-> of, rest |-> Append(B.rest, b)]  BY <2>2, <2>8 DEF Taken, ReadLines, of
    <3>3. Is(Append(t, b))  BY <2>2, <2>3, <3>1, <3>2
    <3> QED  BY <2>0, <3>3
  <2> QED  BY <2>7, <2>8
<1> HIDE DEF P
<1>3. chunk \in P  BY <1>1, <1>2, Appending
<1>4. M!Lines(held \o chunk) \in ReadLines
  <2>1. held \o chunk \in Seq(Bytes)  BY <1>0
  <2> QED  BY <2>1, LinesAppend DEF Bytes
<1> QED  BY <1>0, <1>3, <1>4 DEF P, A, before, held

\* A line is shorter than its buffer, by its newline.
LEMMA LinesAreShort ==
  ASSUME NEW buf \in Seq(Bytes)
  PROVE  /\ \A i \in DOMAIN M!Lines(buf).lines : Len(M!Lines(buf).lines[i]) < Len(buf)
         /\ Len(M!Lines(buf).rest) <= Len(buf)
<1> DEFINE Short(s, k) == (\A i \in DOMAIN M!Lines(s).lines : Len(M!Lines(s).lines[i]) < k) /\ Len(M!Lines(s).rest) <= k
           P == {s \in Seq(Bytes) : Short(s, Len(s))}
<1>1. <<>> \in P
  <2>1. M!Lines(<<>>).lines = <<>> /\ M!Lines(<<>>).rest = <<>>  BY LinesNil DEF NoLines
  <2> QED  BY <2>1
<1>2. ASSUME NEW s \in Seq(Bytes), NEW b \in Bytes, s \in P PROVE Append(s, b) \in P
  <2> DEFINE R == M!Lines(s)
             Q == M!Lines(Append(s, b))
  <2>1. Q = Taken(R, b) /\ R \in ReadLines  BY LinesAppend
  <2>2. R.lines \in Seq(Seq(Bytes)) /\ R.rest \in Seq(Bytes)  BY <2>1 DEF ReadLines
  <2>3. (\A i \in DOMAIN R.lines : Len(R.lines[i]) < Len(s)) /\ Len(R.rest) <= Len(s)  BY <1>2
  <2>4. Len(Append(s, b)) = Len(s) + 1 /\ Len(s) \in Nat  OBVIOUS
  <2>4a. \A i \in DOMAIN R.lines : Len(R.lines[i]) \in Nat  BY <2>2
  <2>4b. DOMAIN R.lines = 1..Len(R.lines)  BY <2>2
  <2> HIDE DEF R, Q
  <2>5. CASE b = "n"
    <3> DEFINE cut == M!Cut(R.rest)
    <3>1. Q.lines = Append(R.lines, cut) /\ Q.rest = <<>>  BY <2>1, <2>5 DEF Taken
    <3>2. cut \in Seq(Bytes) /\ Len(cut) <= Len(R.rest) /\ Len(cut) \in Nat /\ Len(R.rest) \in Nat  BY <2>2, CutIs
    <3> HIDE DEF cut
    <3>3. \A i \in DOMAIN Q.lines : (i \in DOMAIN R.lines /\ Q.lines[i] = R.lines[i]) \/ Q.lines[i] = cut
      BY <2>2, <2>4b, <3>1, <3>2
    <3>4. \A i \in DOMAIN Q.lines : Len(Q.lines[i]) < Len(s) + 1  BY <2>3, <2>4, <2>4a, <3>2, <3>3
    <3>5. Len(Q.rest) = 0  BY <3>1
    <3> QED  BY <2>4, <3>4, <3>5 DEF Q
  <2>6. CASE b # "n"
    <3>1. Q.lines = R.lines /\ Q.rest = Append(R.rest, b)  BY <2>1, <2>6 DEF Taken, ReadLines
    <3>2. Len(Q.rest) = Len(R.rest) + 1 /\ Len(R.rest) \in Nat  BY <2>2, <3>1
    <3>3. \A i \in DOMAIN Q.lines : Len(Q.lines[i]) < Len(s) + 1  BY <2>3, <2>4, <2>4a, <3>1
    <3> QED  BY <2>3, <2>4, <3>2, <3>3 DEF Q
  <2> QED  BY <2>5, <2>6
<1> HIDE DEF P
<1>3. buf \in P  BY <1>1, <1>2, Appending
<1> QED  BY <1>3 DEF P

-----------------------------------------------------------------------------
(* What is flattened *)

\* What FlattenSeq goes by.
Flattens(f, S, seqs) ==
  /\ f \in [0..Len(seqs) -> Seq(S)]
  /\ f[0] = <<>>
  /\ \A n \in 1..Len(seqs) : f[n] = f[n - 1] \o seqs[n]

\* FlattenSeq is what such a function ends with.
LEMMA FlattenIs ==
  ASSUME NEW S, NEW seqs \in Seq(Seq(S))
  PROVE  \E f : Flattens(f, S, seqs) /\ FlattenSeq(seqs) = f[Len(seqs)]
<1> DEFINE N == Len(seqs)
           Row == Seq(S)
           step == [p \in Nat \X Row |-> IF p[1] \in 1..N THEN p[2] \o seqs[p[1]] ELSE p[2]]
           Raw(h) == h = [i \in 1..N |-> IF i = 1 THEN seqs[i] ELSE h[i - 1] \o seqs[i]]
<1>1. <<>> \in Row /\ N \in Nat /\ \A n \in 1..N : seqs[n] \in Seq(S)  OBVIOUS
<1>2. ASSUME NEW n \in Nat, NEW x \in Row
      PROVE  step[<<n, x>>] = (IF n \in 1..N THEN x \o seqs[n] ELSE x) /\ step[<<n, x>>] \in Row
  <2>1. step[<<n, x>>] = (IF n \in 1..N THEN x \o seqs[n] ELSE x)  OBVIOUS
  <2>2. n \in 1..N => x \o seqs[n] \in Row  BY <1>1
  <2> HIDE DEF step
  <2> QED  BY <2>1, <2>2
<1> HIDE DEF step
<1>2a. StaysIn(Row, step)  BY <1>2 DEF StaysIn
<1>3. PICK f : Steps(f, Row, <<>>, step, N)  BY <1>1, <1>2a, Recursion
<1>3a. f \in [0..N -> Row] /\ f[0] = <<>> /\ \A n \in 1..N : f[n] = step[<<n, f[n - 1]>>]
  BY <1>3 DEF Steps
<1>4. ASSUME NEW n \in 1..N PROVE f[n] = f[n - 1] \o seqs[n]
  <2>1. n \in Nat /\ n - 1 \in 0..N  BY <1>1
  <2>2. f[n - 1] \in Row  BY <1>3a, <2>1
  <2> QED  BY <1>2, <1>3a, <2>1, <2>2
<1>4a. 1 \in 1..N => f[1] = <<>> \o seqs[1] /\ seqs[1] \in Seq(S)
  <2>1. 1 \in 1..N => f[1] = f[1 - 1] \o seqs[1]  BY <1>4
  <2>2. 1 - 1 = 0  OBVIOUS
  <2> QED  BY <1>1, <1>3a, <2>1, <2>2
<1>5. Flattens(f, S, seqs)  BY <1>3a, <1>4 DEF Flattens
<1>6. CASE N = 0
  <2>1. FlattenSeq(seqs) = <<>>  BY <1>6 DEF FlattenSeq
  <2> QED  BY <1>3a, <1>5, <1>6, <2>1
<1>7. CASE N # 0
  <2> DEFINE g == [i \in 1..N |-> f[i]]
  <2>1. Raw(g)
    <3>1. ASSUME NEW i \in 1..N PROVE g[i] = IF i = 1 THEN seqs[i] ELSE g[i - 1] \o seqs[i]
      <4>1. CASE i = 1
        <5>1. f[1] = <<>> \o seqs[1] /\ seqs[1] \in Seq(S)  BY <1>4a, <4>1
        <5> QED  BY <4>1, <5>1
      <4>2. CASE i # 1
        <5>1. i - 1 \in 1..N  BY <1>1, <4>2
        <5> QED  BY <1>4, <4>2, <5>1
      <4> QED  BY <4>1, <4>2
    <3> HIDE DEF N
    <3>2. g = [i \in 1..N |-> g[i]]  OBVIOUS
    <3> HIDE DEF g
    <3> QED  BY <3>1, <3>2
  <2> DEFINE h == CHOOSE h : Raw(h)
             k == [n \in 0..N |-> IF n = 0 THEN <<>> ELSE h[n]]
  <2>2. Raw(h)  BY <2>1
  <2>3. FlattenSeq(seqs) = h[N]  BY <1>7 DEF FlattenSeq
  <2> HIDE DEF h
  <2>4. \A n \in 0..N : f[n] = k[n]
    <3>1. f[0] = k[0]  BY <1>1, <1>3a
    <3>2. ASSUME NEW n \in 1..N, f[n - 1] = k[n - 1] PROVE f[n] = k[n]
      <4>1. h[n] = IF n = 1 THEN seqs[n] ELSE h[n - 1] \o seqs[n]  BY <2>2
      <4>2. n \in 0..N /\ n # 0 /\ n - 1 \in 0..N  BY <1>1
      <4>2a. k[n] = h[n]  BY <4>2
      <4>3. CASE n = 1
        <5>1. f[1] = <<>> \o seqs[1] /\ seqs[1] \in Seq(S)  BY <1>4a, <4>3
        <5> QED  BY <4>1, <4>2a, <4>3, <5>1
      <4>4. CASE n # 1
        <5>1. k[n - 1] = h[n - 1]  BY <4>2, <4>4
        <5> QED  BY <1>4, <3>2, <4>1, <4>2a, <4>4, <5>1
      <4> QED  BY <4>3, <4>4
    <3> HIDE DEF k
    <3> QED  BY <1>1, <3>1, <3>2, Agree
  <2>5. k[N] = h[N]  BY <1>1, <1>7
  <2>6. N \in 0..N  BY <1>1
  <2> HIDE DEF k
  <2>7. FlattenSeq(seqs) = f[N]  BY <2>3, <2>4, <2>5, <2>6
  <2> QED  BY <1>5, <2>7
<1> QED  BY <1>6, <1>7

\* Of no sequences there is nothing.
LEMMA FlattenNil == FlattenSeq(<<>>) = <<>>
BY DEF FlattenSeq

\* One sequence more is flattened behind the others.
LEMMA FlattenAppend ==
  ASSUME NEW S, NEW seqs \in Seq(Seq(S)), NEW seq \in Seq(S)
  PROVE  FlattenSeq(Append(seqs, seq)) = FlattenSeq(seqs) \o seq /\ FlattenSeq(seqs) \in Seq(S)
<1> DEFINE N == Len(seqs)
           Row == Seq(S)
           more == Append(seqs, seq)
<1>1. more \in Seq(Row) /\ Len(more) = N + 1 /\ N \in Nat /\ more[N + 1] = seq
      /\ \A n \in 1..N : more[n] = seqs[n]
  OBVIOUS
<1> HIDE DEF more
<1>2. PICK f : Flattens(f, S, seqs) /\ FlattenSeq(seqs) = f[N]  BY FlattenIs
<1>3. PICK g : Flattens(g, S, more) /\ FlattenSeq(more) = g[N + 1]  BY <1>1, FlattenIs
<1>4. f[0] = g[0]  BY <1>2, <1>3 DEF Flattens
<1>5. ASSUME NEW n \in 1..N, f[n - 1] = g[n - 1] PROVE f[n] = g[n]
  <2>1. n \in 1..(N + 1)  BY <1>1
  <2> QED  BY <1>1, <1>2, <1>3, <1>5, <2>1 DEF Flattens
<1>6. \A n \in 0..N : f[n] = g[n]  BY <1>1, <1>4, <1>5, Agree
<1>7. g[N + 1] = f[N] \o seq
  <2>1. N + 1 \in 1..(N + 1) /\ (N + 1) - 1 = N /\ N \in 0..N  BY <1>1
  <2>2. g[N + 1] = g[(N + 1) - 1] \o more[N + 1]  BY <1>1, <1>3, <2>1 DEF Flattens
  <2> QED  BY <1>1, <1>6, <2>1, <2>2
<1>8. f[N] \in Seq(S)
  <2>1. f \in [0..N -> Seq(S)] /\ N \in 0..N  BY <1>1, <1>2 DEF Flattens
  <2> QED  BY <2>1
<1> QED  BY <1>2, <1>3, <1>7, <1>8 DEF more

-----------------------------------------------------------------------------
(* The framer and its bound *)

Framers == [buf : Seq(Bytes), lines : Seq(Seq(Bytes)), over : BOOLEAN]
NewFramer == [buf |-> <<>>, lines |-> <<>>, over |-> FALSE]

\* A framer stays one, a chunk on.
LEMMA ReadChunkType ==
  ASSUME NEW framer \in Framers, NEW chunk \in Seq(Bytes) PROVE M!ReadChunk(framer, chunk) \in Framers
<1>1. CASE framer.over
  BY <1>1 DEF M!ReadChunk
<1>2. CASE ~framer.over /\ M!Overflows(framer.buf, chunk)
  <2>1. M!ReadChunk(framer, chunk) = [buf |-> <<>>, lines |-> framer.lines, over |-> TRUE]
    BY <1>2 DEF M!ReadChunk, Framers
  <2> QED  BY <2>1 DEF Framers
<1>3. CASE ~framer.over /\ ~M!Overflows(framer.buf, chunk)
  <2> DEFINE on == M!Lines(framer.buf \o chunk)
  <2>1. framer.buf \in Seq(Bytes) /\ framer.lines \in Seq(Seq(Bytes))  BY DEF Framers
  <2>2. framer.buf \o chunk \in Seq(Bytes)  BY <2>1
  <2>3. on \in ReadLines  BY <2>2, LinesAppend DEF Bytes
  <2> HIDE DEF on
  <2>4. on.rest \in Seq(Bytes) /\ framer.lines \o on.lines \in Seq(Seq(Bytes))  BY <2>1, <2>3 DEF ReadLines
  <2>5. M!ReadChunk(framer, chunk) = [buf |-> on.rest, lines |-> framer.lines \o on.lines, over |-> FALSE]
    BY <1>3 DEF M!ReadChunk, on
  <2> QED  BY <2>4, <2>5 DEF Framers
<1> QED  BY <1>1, <1>2, <1>3 DEF Framers

\* What Frame goes by.
Frames(f, chunks) ==
  /\ f \in [0..Len(chunks) -> Framers]
  /\ f[0] = NewFramer
  /\ \A n \in 1..Len(chunks) : f[n] = M!ReadChunk(f[n - 1], chunks[n])

\* Frame is what the framer has when the chunks are over.
LEMMA FrameIs ==
  ASSUME NEW chunks, IsStream(chunks)
  PROVE  \E f : Frames(f, chunks) /\ M!Frame(chunks) = f[Len(chunks)]
<1> DEFINE N == Len(chunks)
           step == [p \in Nat \X Framers |-> IF p[1] \in 1..N THEN M!ReadChunk(p[2], chunks[p[1]]) ELSE p[2]]
           Raw(h) == h = [n \in 0..N |-> IF n = 0 THEN [buf |-> <<>>, lines |-> <<>>, over |-> FALSE]
                                         ELSE M!ReadChunk(h[n - 1], chunks[n])]
<1>1. NewFramer \in Framers /\ N \in Nat /\ \A n \in 1..N : chunks[n] \in Seq(Bytes)
  BY DEF IsStream, NewFramer, Framers
<1>2. ASSUME NEW n \in Nat, NEW x \in Framers
      PROVE  step[<<n, x>>] = (IF n \in 1..N THEN M!ReadChunk(x, chunks[n]) ELSE x) /\ step[<<n, x>>] \in Framers
  <2>1. step[<<n, x>>] = (IF n \in 1..N THEN M!ReadChunk(x, chunks[n]) ELSE x)  OBVIOUS
  <2>2. n \in 1..N => M!ReadChunk(x, chunks[n]) \in Framers  BY <1>1, ReadChunkType
  <2> HIDE DEF step
  <2> QED  BY <2>1, <2>2
<1> HIDE DEF step
<1>2a. StaysIn(Framers, step)  BY <1>2 DEF StaysIn
<1>3. PICK f : Steps(f, Framers, NewFramer, step, N)  BY <1>1, <1>2a, Recursion
<1>3a. f \in [0..N -> Framers] /\ f[0] = NewFramer /\ \A n \in 1..N : f[n] = step[<<n, f[n - 1]>>]
  BY <1>3 DEF Steps
<1>4. ASSUME NEW n \in 1..N PROVE f[n] = M!ReadChunk(f[n - 1], chunks[n])
  <2>1. n \in Nat /\ n - 1 \in 0..N  BY <1>1
  <2>2. f[n - 1] \in Framers  BY <1>3a, <2>1
  <2> QED  BY <1>2, <1>3a, <2>1, <2>2
<1>5. Frames(f, chunks)  BY <1>3a, <1>4 DEF Frames
<1>6. Raw(f)
  <2>1. ASSUME NEW n \in 0..N
        PROVE  f[n] = IF n = 0 THEN [buf |-> <<>>, lines |-> <<>>, over |-> FALSE] ELSE M!ReadChunk(f[n - 1], chunks[n])
    <3>1. CASE n = 0  BY <1>3a, <3>1 DEF NewFramer
    <3>2. CASE n # 0
      <4>1. n \in 1..N  BY <1>1, <3>2
      <4> QED  BY <1>4, <3>2, <4>1
    <3> QED  BY <3>1, <3>2
  <2>2. f = [n \in 0..N |-> f[n]]  BY <1>3a
  <2> HIDE DEF N
  <2> QED  BY <2>1, <2>2
<1> DEFINE g == CHOOSE h : Raw(h)
<1>7. Raw(g)  BY <1>6
<1>8. M!Frame(chunks) = g[N]  BY DEF M!Frame
<1> HIDE DEF g
<1>9. \A n \in 0..N : f[n] = g[n]
  <2>1. f[0] = g[0]  BY <1>1, <1>6, <1>7
  <2>2. ASSUME NEW n \in 1..N, f[n - 1] = g[n - 1] PROVE f[n] = g[n]
    <3>1. n \in 0..N /\ n # 0  BY <1>1
    <3>2. f[n] = M!ReadChunk(f[n - 1], chunks[n])  BY <1>6, <3>1
    <3>3. g[n] = M!ReadChunk(g[n - 1], chunks[n])  BY <1>7, <3>1
    <3> QED  BY <2>2, <3>2, <3>3
  <2> QED  BY <1>1, <2>1, <2>2, Agree
<1>10. N \in 0..N  BY <1>1
<1> QED  BY <1>5, <1>8, <1>9, <1>10

\* Of no chunks there is a new framer.
LEMMA FrameNil == M!Frame(<<>>) = NewFramer
<1>1. IsStream(<<>>) /\ Len(<<>>) = 0  BY DEF IsStream
<1>2. PICK f : Frames(f, <<>>) /\ M!Frame(<<>>) = f[0]  BY <1>1, FrameIs
<1> QED  BY <1>2 DEF Frames

\* One chunk more is read by the framer of the others.
LEMMA FrameAppend ==
  ASSUME NEW chunks, IsStream(chunks), NEW chunk \in Seq(Bytes)
  PROVE  M!Frame(Append(chunks, chunk)) = M!ReadChunk(M!Frame(chunks), chunk) /\ M!Frame(chunks) \in Framers
<1> DEFINE N == Len(chunks)
           more == Append(chunks, chunk)
<1>1. IsStream(more) /\ Len(more) = N + 1 /\ N \in Nat /\ more[N + 1] = chunk
      /\ \A n \in 1..N : more[n] = chunks[n]
  BY DEF IsStream
<1> HIDE DEF more
<1>2. PICK f : Frames(f, chunks) /\ M!Frame(chunks) = f[N]  BY FrameIs
<1>3. PICK g : Frames(g, more) /\ M!Frame(more) = g[N + 1]  BY <1>1, FrameIs
<1>4. f[0] = g[0]  BY <1>2, <1>3 DEF Frames
<1>5. ASSUME NEW n \in 1..N, f[n - 1] = g[n - 1] PROVE f[n] = g[n]
  <2>1. n \in 1..(N + 1)  BY <1>1
  <2> QED  BY <1>1, <1>2, <1>3, <1>5, <2>1 DEF Frames
<1>6. \A n \in 0..N : f[n] = g[n]  BY <1>1, <1>4, <1>5, Agree
<1>7. g[N + 1] = M!ReadChunk(f[N], chunk)
  <2>1. N + 1 \in 1..(N + 1) /\ (N + 1) - 1 = N /\ N \in 0..N  BY <1>1
  <2>2. g[N + 1] = M!ReadChunk(g[(N + 1) - 1], more[N + 1])  BY <1>1, <1>3, <2>1 DEF Frames
  <2> QED  BY <1>1, <1>6, <2>1, <2>2
<1>8. f[N] \in Framers
  <2>1. f \in [0..N -> Framers] /\ N \in 0..N  BY <1>1, <1>2 DEF Frames
  <2> QED  BY <2>1
<1> QED  BY <1>2, <1>3, <1>7, <1>8 DEF more

Whole(chunks) == M!Lines(FlattenSeq(chunks))

\* The overflow is at a chunk that did not fit with what was held.
GivesUpAt(chunks) ==
  \E i \in 1..Len(chunks) : Len(M!Frame(SubSeq(chunks, 1, i - 1)).buf) + Len(chunks[i]) > MaxBuffer

Framed(chunks) ==
  /\ \E more \in Seq(Seq(Bytes)) : Whole(chunks).lines = M!Frame(chunks).lines \o more
  /\ ~M!Frame(chunks).over =>
       M!Frame(chunks).lines = Whole(chunks).lines /\ M!Frame(chunks).buf = Whole(chunks).rest
  /\ M!Frame(chunks).over => GivesUpAt(chunks)
  /\ \A i \in DOMAIN M!Frame(chunks).lines : Len(M!Frame(chunks).lines[i]) < MaxBuffer
  /\ Len(M!Frame(chunks).buf) <= MaxBuffer

\* A framer that gave up has given up with one chunk more.
LEMMA GivesUpStays ==
  ASSUME NEW chunks, IsStream(chunks), NEW chunk \in Seq(Bytes),
         GivesUpAt(chunks) \/ Len(M!Frame(chunks).buf) + Len(chunk) > MaxBuffer
  PROVE  GivesUpAt(Append(chunks, chunk))
<1> DEFINE N == Len(chunks)
           Row == Seq(Bytes)
           more == Append(chunks, chunk)
<1>1. chunks \in Seq(Row) /\ chunk \in Row  BY DEF IsStream
<1> HIDE DEF Row
<1>2. Len(more) = N + 1 /\ N \in Nat /\ more[N + 1] = chunk /\ \A n \in 1..N : more[n] = chunks[n]  BY <1>1
<1>3. ASSUME NEW i \in 0..N PROVE SubSeq(more, 1, i) = SubSeq(chunks, 1, i)  BY <1>1
<1>4. SubSeq(more, 1, N) = chunks  BY <1>1
<1> HIDE DEF more
<1>5. ASSUME GivesUpAt(chunks) PROVE GivesUpAt(more)
  <2>1. PICK i \in 1..N : Len(M!Frame(SubSeq(chunks, 1, i - 1)).buf) + Len(chunks[i]) > MaxBuffer
    BY <1>5 DEF GivesUpAt
  <2>2. i - 1 \in 0..N /\ i \in 1..Len(more)  BY <1>2
  <2>3. SubSeq(more, 1, i - 1) = SubSeq(chunks, 1, i - 1) /\ more[i] = chunks[i]  BY <1>2, <1>3, <2>2
  <2> QED  BY <2>1, <2>2, <2>3 DEF GivesUpAt
<1>6. ASSUME Len(M!Frame(chunks).buf) + Len(chunk) > MaxBuffer PROVE GivesUpAt(more)
  <2>1. N + 1 \in 1..Len(more) /\ (N + 1) - 1 = N  BY <1>2
  <2>2. SubSeq(more, 1, (N + 1) - 1) = chunks /\ more[N + 1] = chunk  BY <1>2, <1>4, <2>1
  <2> QED  BY <1>6, <2>1, <2>2 DEF GivesUpAt
<1> QED  BY <1>5, <1>6 DEF more

\* What was framed stays framed, a chunk on: the invariant of the framer.
LEMMA FramedStep ==
  ASSUME MaxBuffer \in Nat, NEW chunks, IsStream(chunks), NEW chunk \in Seq(Bytes), Framed(chunks)
  PROVE  Framed(Append(chunks, chunk))
<1> DEFINE Row == Seq(Bytes)
           old == M!Frame(chunks)
           new == M!Frame(Append(chunks, chunk))
           all == Whole(chunks)
           longer == Whole(Append(chunks, chunk))
           flat == FlattenSeq(chunks)
           after == M!Lines(all.rest \o chunk)
<1>1. new = M!ReadChunk(old, chunk) /\ old \in Framers  BY FrameAppend
<1>2. FlattenSeq(Append(chunks, chunk)) = flat \o chunk /\ flat \in Seq(Bytes)  BY FlattenAppend DEF IsStream
<1>3. longer = [lines |-> all.lines \o after.lines, rest |-> after.rest] /\ after \in ReadLines /\ all \in ReadLines
  <2>1. all = M!Lines(flat) /\ longer = M!Lines(flat \o chunk)  BY <1>2 DEF Whole
  <2> HIDE DEF flat, all, longer
  <2> QED  BY <1>2, <2>1, LinesOn
<1>4. /\ \E more \in Seq(Row) : all.lines = old.lines \o more
      /\ ~old.over => old.lines = all.lines /\ old.buf = all.rest
      /\ old.over => GivesUpAt(chunks)
      /\ \A i \in DOMAIN old.lines : Len(old.lines[i]) < MaxBuffer
      /\ Len(old.buf) <= MaxBuffer
  BY DEF Framed
<1>5. old.lines \in Seq(Row) /\ old.buf \in Row /\ old.over \in BOOLEAN
      /\ all.lines \in Seq(Row) /\ all.rest \in Row /\ after.lines \in Seq(Row) /\ after.rest \in Row
  BY <1>1, <1>3 DEF Framers, ReadLines
<1> SUFFICES /\ \E more \in Seq(Row) : longer.lines = new.lines \o more
             /\ ~new.over => new.lines = longer.lines /\ new.buf = longer.rest
             /\ new.over => GivesUpAt(Append(chunks, chunk))
             /\ \A i \in DOMAIN new.lines : Len(new.lines[i]) < MaxBuffer
             /\ Len(new.buf) <= MaxBuffer
  BY DEF Framed
<1>6. GivesUpAt(chunks) \/ Len(old.buf) + Len(chunk) > MaxBuffer => GivesUpAt(Append(chunks, chunk))
  BY GivesUpStays
<1>7. PICK more \in Seq(Row) : all.lines = old.lines \o more  BY <1>4
<1> HIDE DEF old, new, all, longer, after, Row
<1>7a. longer.lines = all.lines \o after.lines /\ longer.rest = after.rest  BY <1>3
<1>8. longer.lines = old.lines \o (more \o after.lines) /\ more \o after.lines \in Seq(Row)
  <2> DEFINE a == old.lines
             c == after.lines
  <2>1. a \in Seq(Row) /\ c \in Seq(Row)  BY <1>5
  <2>2. longer.lines = (a \o more) \o c  BY <1>7, <1>7a
  <2> HIDE DEF a, c
  <2>3. (a \o more) \o c = a \o (more \o c) /\ more \o c \in Seq(Row)  BY <2>1, ConcatAssociative
  <2> QED  BY <2>2, <2>3 DEF a, c
<1>9. CASE old.over \/ M!Overflows(old.buf, chunk)
  <2>1. new.lines = old.lines /\ new.over
    BY <1>1, <1>9 DEF M!ReadChunk, Framers
  <2>2. new.buf = old.buf \/ new.buf = <<>>
    BY <1>1, <1>9 DEF M!ReadChunk, Framers
  <2>3. GivesUpAt(Append(chunks, chunk))  BY <1>4, <1>6, <1>9 DEF M!Overflows
  <2>4. Len(new.buf) <= MaxBuffer  BY <1>4, <2>2
  <2> QED  BY <1>4, <1>8, <2>1, <2>3, <2>4
<1>10. CASE ~old.over /\ ~M!Overflows(old.buf, chunk)
  <2>1. old.buf = all.rest /\ old.lines = all.lines  BY <1>4, <1>10
  <2>2. M!Lines(old.buf \o chunk) = after  BY <2>1 DEF after
  <2>3. new = [buf |-> after.rest, lines |-> old.lines \o after.lines, over |-> FALSE]
    BY <1>1, <1>10, <2>2 DEF M!ReadChunk
  <2>4. new.lines = longer.lines /\ new.buf = longer.rest /\ ~new.over  BY <1>7a, <2>1, <2>3
  <2>5. old.buf \o chunk \in Seq(Bytes) /\ Len(old.buf \o chunk) <= MaxBuffer
    <3> DEFINE b == old.buf
    <3>1. b \in Seq(Bytes)  BY <1>5 DEF Row
    <3>2. Len(b) + Len(chunk) <= MaxBuffer  BY <1>10, <3>1 DEF M!Overflows
    <3> HIDE DEF b
    <3>3. b \o chunk \in Seq(Bytes) /\ Len(b \o chunk) <= MaxBuffer  BY <3>1, <3>2
    <3> QED  BY <3>3 DEF b
  <2>6. (\A i \in DOMAIN after.lines : Len(after.lines[i]) < Len(old.buf \o chunk))
        /\ Len(after.rest) <= Len(old.buf \o chunk)
    BY <2>2, <2>5, LinesAreShort
  <2>7. Len(old.buf \o chunk) \in Nat /\ \A i \in DOMAIN after.lines : Len(after.lines[i]) \in Nat
    <3>1. after.lines \in Seq(Seq(Bytes))  BY <1>5 DEF Row
    <3> QED  BY <2>5, <3>1
  <2>8. Len(after.rest) \in Nat  BY <1>5 DEF Row
  <2>9. ASSUME NEW i \in DOMAIN new.lines PROVE Len(new.lines[i]) < MaxBuffer
    <3> DEFINE a == old.lines
               c == after.lines
    <3>1. a \in Seq(Row) /\ c \in Seq(Row) /\ new.lines = a \o c  BY <1>5, <2>3
    <3> HIDE DEF a, c
    <3>2. i \in 1..(Len(a) + Len(c)) /\ (a \o c)[i] = IF i <= Len(a) THEN a[i] ELSE c[i - Len(a)]  BY <2>9, <3>1
    <3>3. CASE i <= Len(a)
      <4>1. i \in DOMAIN a  BY <3>1, <3>2, <3>3
      <4> QED  BY <1>4, <3>1, <3>2, <3>3, <4>1 DEF a
    <3>4. CASE ~(i <= Len(a))
      <4>1. i - Len(a) \in DOMAIN c  BY <3>1, <3>2, <3>4
      <4>2. Len(c[i - Len(a)]) < Len(old.buf \o chunk) /\ Len(c[i - Len(a)]) \in Nat  BY <2>6, <2>7, <4>1 DEF c
      <4> QED  BY <2>5, <2>7, <3>1, <3>2, <3>4, <4>2
    <3> QED  BY <3>3, <3>4
  <2>10. Len(new.buf) <= MaxBuffer  BY <2>3, <2>5, <2>6, <2>7, <2>8
  <2>11. \E m \in Seq(Row) : longer.lines = new.lines \o m
    <3>1. longer.lines \in Seq(Row)
      <4> DEFINE a == old.lines
                 c == after.lines
      <4>1. a \in Seq(Row) /\ c \in Seq(Row) /\ new.lines = a \o c  BY <1>5, <2>3
      <4> HIDE DEF a, c
      <4> QED  BY <2>4, <4>1
    <3>2. longer.lines \o <<>> = longer.lines /\ <<>> \in Seq(Row)  BY <3>1
    <3> QED  BY <2>4, <3>2
  <2> QED  BY <2>4, <2>9, <2>10, <2>11
<1> QED  BY <1>9, <1>10, <1>5

\* The FlattenSeq of the messages is the one of here.
LEMMA StreamFlattens == \A chunks : M!FlattenSeq(chunks) = FlattenSeq(chunks)
BY DEF M!FlattenSeq, FlattenSeq

\* However the bytes of a client are cut into chunks, the lines that are read are
\* those of the whole, without loss or repetition, up to the chunk that overflows
\* the buffer, and the framer gives up only there: for any chunks and any bound.
THEOREM LinesAreOfTheStreamHolds ==
  ASSUME MaxBuffer \in Nat, NEW chunks, IsStream(chunks)
  PROVE  M!LinesAreOfTheStream(chunks)
<1> DEFINE Row == Seq(Bytes)
           P == {s \in Seq(Row) : Framed(s)}
<1>1. <<>> \in P
  <2>1. M!Frame(<<>>) = NewFramer  BY FrameNil
  <2>2. Whole(<<>>) = NoLines  BY FlattenNil, LinesNil DEF Whole
  <2>3. <<>> \in Seq(Row) /\ <<>> = <<>> \o <<>> /\ Len(<<>>) = 0  OBVIOUS
  <2>3a. /\ M!Frame(<<>>).lines = <<>> /\ M!Frame(<<>>).buf = <<>> /\ ~M!Frame(<<>>).over
         /\ Whole(<<>>).lines = <<>> /\ Whole(<<>>).rest = <<>>
    BY <2>1, <2>2 DEF NewFramer, NoLines
  <2>3b. Whole(<<>>).lines = M!Frame(<<>>).lines \o <<>>  BY <2>3, <2>3a
  <2>3c. \A i \in DOMAIN M!Frame(<<>>).lines : Len(M!Frame(<<>>).lines[i]) < MaxBuffer
    <3>1. DOMAIN <<>> = {}  OBVIOUS
    <3> QED  BY <2>3a, <3>1
  <2>3d. Len(M!Frame(<<>>).buf) <= MaxBuffer  BY <2>3, <2>3a
  <2>4. Framed(<<>>)  BY <2>3, <2>3a, <2>3b, <2>3c, <2>3d DEF Framed
  <2> QED  BY <2>3, <2>4
<1>2. ASSUME NEW s \in Seq(Row), NEW c \in Row, s \in P PROVE Append(s, c) \in P
  <2>1. IsStream(s) /\ Framed(s)  BY <1>2 DEF IsStream
  <2>2. Framed(Append(s, c))  BY <2>1, FramedStep
  <2> QED  BY <2>2
<1> HIDE DEF P
<1>3. chunks \in P  BY <1>1, <1>2, Appending DEF IsStream
<1>4. Framed(chunks)  BY <1>3 DEF P
<1> DEFINE read == M!Frame(chunks)
           lines == read.lines
           all == M!Lines(M!FlattenSeq(chunks)).lines
<1>5. all = Whole(chunks).lines  BY StreamFlattens DEF Whole
<1>6. M!IsPrefix(lines, all)
  <2>0. <<>> \in Seq(Bytes)  OBVIOUS
  <2>1. read \in Framers  BY <2>0, FrameAppend
  <2>2. lines \in Seq(Row)  BY <2>1 DEF Framers
  <2>3. PICK more \in Seq(Row) : all = lines \o more  BY <1>4, <1>5 DEF Framed
  <2> HIDE DEF lines, all, Row
  <2>4. Len(lines) <= Len(all) /\ SubSeq(all, 1, Len(lines)) = lines /\ SubSeq(lines, 1, Len(lines)) = lines
    BY <2>2, <2>3
  <2> QED  BY <2>4 DEF M!IsPrefix
<1>7. DOMAIN chunks = 1..Len(chunks)  BY DEF IsStream
<1>8. /\ ~read.over => lines = all
      /\ read.over => \E i \in DOMAIN chunks : Len(M!Frame(SubSeq(chunks, 1, i - 1)).buf) + Len(chunks[i]) > MaxBuffer
      /\ \A i \in DOMAIN lines : Len(lines[i]) < MaxBuffer
      /\ Len(read.buf) <= MaxBuffer
  BY <1>4, <1>5, <1>7 DEF Framed, GivesUpAt
<1> QED  BY <1>6, <1>8 DEF M!LinesAreOfTheStream

-----------------------------------------------------------------------------
(* The table of a tool and its answer (mcp/run.rs) *)

\* Min is the least.
LEMMA LeastIsMin ==
  ASSUME NEW T, T \subseteq Nat, T # {}
  PROVE  Min(T) \in T /\ \A y \in T : Min(T) <= y
BY LeastNat DEF Min

\* The code of a name is that of its entry, or the one to fall back on.
LEMMA CodeIs ==
  ASSUME NEW exit, IsTable(exit), NEW name, NEW fallback
  PROVE  \/ Code(exit, name, fallback) = fallback
         \/ \E i \in DOMAIN exit : exit[i].name = name /\ exit[i].code = Code(exit, name, fallback)
<1> DEFINE named == {i \in DOMAIN exit : exit[i].name = name}
<1>1. named \subseteq Nat  BY DEF IsTable
<1>2. CASE named = {}  BY <1>2 DEF Code
<1>3. CASE named # {}
  <2>1. Min(named) \in named  BY <1>1, <1>3, LeastIsMin
  <2> QED  BY <1>3, <2>1 DEF Code
<1> QED  BY <1>2, <1>3

\* The name of a code that the table has is of an entry with the code.
LEMMA OutcomeIs ==
  ASSUME NEW exit, IsTable(exit), NEW code, NEW j \in DOMAIN exit, exit[j].code = code
  PROVE  \E i \in DOMAIN exit : exit[i].code = code /\ exit[i].name = OutcomeOf(exit, code)
<1> DEFINE coded == {i \in DOMAIN exit : exit[i].code = code}
<1>1. coded \subseteq Nat /\ coded # {}  BY DEF IsTable
<1>2. Min(coded) \in coded  BY <1>1, LeastIsMin
<1> QED  BY <1>1, <1>2 DEF OutcomeOf

\* The answer of a call tells how its program ended, by any table and for any end.
THEOREM AnswersTellHolds ==
  ASSUME NEW exit, IsTable(exit), NEW done, IsEnd(done)
  PROVE  AnswersTell(exit, done)
<1> DEFINE answer == Answer(exit, done)
           entries == {<<e.name, e.code>> : e \in ToSet(exit)}
<1>1. done.reason \in {"none", "timeout", "cancelled"} /\ done.code \in Int
      /\ done.cut.stdout \in BOOLEAN /\ done.cut.stderr \in BOOLEAN
  BY DEF IsEnd
<1>2. \A i \in DOMAIN exit : exit[i] \in ToSet(exit) /\ <<exit[i].name, exit[i].code>> \in entries  BY DEF ToSet
<1>3. /\ answer.code = IF done.reason = "timeout" THEN Code(exit, "timeout", 4)
                       ELSE IF done.reason = "cancelled" \/ done.code = Killed THEN Code(exit, "error", 1)
                       ELSE done.code
      /\ answer.outcome = IF done.reason = "none" THEN OutcomeOf(exit, answer.code) ELSE done.reason
      /\ answer.isError = (answer.code # 0)
      /\ answer.truncated = (done.cut.stdout \/ done.cut.stderr)
      /\ answer.stdout = Stdout(done.stdout, done.cut.stdout)
  BY DEF Answer
<1> HIDE DEF answer
<1>4. ASSUME done.reason # "none" \/ done.code = Killed, ~answer.isError
      PROVE  \E e \in ToSet(exit) : e.name \in {"error", "timeout"} /\ e.code = 0
  <2>1. answer.code = 0  BY <1>3, <1>4
  <2>2. CASE done.reason = "timeout"
    <3>1. Code(exit, "timeout", 4) = 0  BY <1>3, <2>1, <2>2
    <3> QED  BY <1>2, <3>1, CodeIs
  <2>3. CASE done.reason # "timeout"
    <3>1. Code(exit, "error", 1) = 0  BY <1>1, <1>3, <1>4, <2>1, <2>3
    <3> QED  BY <1>2, <3>1, CodeIs
  <2> QED  BY <2>2, <2>3
<1>5. ASSUME done.reason = "none", NEW e \in entries, e[2] = answer.code
      PROVE  <<answer.outcome, answer.code>> \in entries
  <2>1. PICK j \in DOMAIN exit : e = <<exit[j].name, exit[j].code>>  BY <1>5 DEF ToSet
  <2>2. exit[j].code = answer.code  BY <1>5, <2>1
  <2>3. PICK i \in DOMAIN exit : exit[i].code = answer.code /\ exit[i].name = OutcomeOf(exit, answer.code)
    BY <2>2, OutcomeIs
  <2>4. answer.outcome = exit[i].name  BY <1>3, <1>5, <2>3
  <2> QED  BY <1>2, <2>3, <2>4
<1>6. done.reason = "none" /\ done.code # Killed => answer.code = done.code  BY <1>3
<1>7. done.cut.stdout => answer.truncated /\ answer.stdout = "text"  BY <1>3 DEF Stdout
<1> QED  BY <1>3, <1>4, <1>5, <1>6, <1>7 DEF AnswersTell, answer

-----------------------------------------------------------------------------
(* The issues of a request (mcp/server.rs) *)

\* A list of issues tells each of some places, and each once.
Tells(issues, places) ==
  /\ \E S : issues \in Seq(S)
  /\ {issues[i].path : i \in DOMAIN issues} = places
  /\ \A i, j \in DOMAIN issues : issues[i].path = issues[j].path => i = j

\* A place, where its value is not of a type.
Unfit(place, v, types) == IF v.type \in types THEN {} ELSE {place}

\* No issues are of no places.
LEMMA TellsNone == Tells(<<>>, {})
<1>1. <<>> \in Seq({})  OBVIOUS
<1> QED  BY <1>1 DEF Tells

\* One issue is of its place.
LEMMA TellsOne ==
  ASSUME NEW issue PROVE Tells(<<issue>>, {issue.path})
<1> DEFINE one == <<issue>>
<1>1. one \in Seq({issue}) /\ DOMAIN one = {1} /\ one[1] = issue  OBVIOUS
<1> HIDE DEF one
<1>2. {one[i].path : i \in DOMAIN one} = {issue.path}  BY <1>1
<1>3. Tells(one, {issue.path})  BY <1>1, <1>2 DEF Tells
<1> QED  BY <1>3 DEF one

\* The issues of apart places are told one behind the other.
LEMMA TellsBoth ==
  ASSUME NEW some, NEW others, NEW S, NEW T, Tells(some, S), Tells(others, T), S \cap T = {}
  PROVE  Tells(some \o others, S \cup T)
<1> DEFINE n == Len(some)
           k == Len(others)
           both == some \o others
<1>0. \E Issues : some \in Seq(Issues) /\ others \in Seq(Issues)
  <2>1. PICK I, J : some \in Seq(I) /\ others \in Seq(J)  BY DEF Tells
  <2>2. some \in Seq(I \cup J) /\ others \in Seq(I \cup J)  BY <2>1
  <2> QED  BY <2>2
<1> PICK Issues : some \in Seq(Issues) /\ others \in Seq(Issues)  BY <1>0
<1>1. some \in Seq(Issues) /\ others \in Seq(Issues) /\ n \in Nat /\ k \in Nat  OBVIOUS
<1>2. both \in Seq(Issues) /\ DOMAIN both = 1..(n + k) /\ DOMAIN some = 1..n /\ DOMAIN others = 1..k
      /\ \A i \in 1..(n + k) : both[i] = IF i <= n THEN some[i] ELSE others[i - n]
  BY <1>1
<1> HIDE DEF both
<1>3. {some[i].path : i \in 1..n} = S /\ {others[i].path : i \in 1..k} = T  BY <1>2 DEF Tells
<1>4. /\ \A i, j \in 1..n : some[i].path = some[j].path => i = j
      /\ \A i, j \in 1..k : others[i].path = others[j].path => i = j
  BY <1>2 DEF Tells
<1> HIDE DEF n, k
<1>5. ASSUME NEW i \in 1..(n + k)
      PROVE  \/ i <= n /\ i \in 1..n /\ both[i] = some[i] /\ some[i].path \in S
             \/ i > n /\ i - n \in 1..k /\ both[i] = others[i - n] /\ others[i - n].path \in T
  BY <1>1, <1>2, <1>3
<1>6. \A i, j \in 1..(n + k) : both[i].path = both[j].path => i = j
  <2> TAKE i, j \in 1..(n + k)
  <2> HAVE both[i].path = both[j].path
  <2>1. CASE i <= n /\ j <= n
    <3>1. i \in 1..n /\ j \in 1..n  BY <1>1, <2>1
    <3>2. both[i] = some[i] /\ both[j] = some[j]  BY <1>1, <1>5, <2>1
    <3> QED  BY <1>4, <3>1, <3>2
  <2>2. CASE i > n /\ j > n
    <3>1. i - n = j - n  BY <1>1, <1>4, <1>5, <2>2
    <3> QED  BY <1>1, <3>1
  <2>3. CASE i <= n /\ j > n
    <3>1. both[i].path \in S /\ both[j].path \in T  BY <1>1, <1>5, <2>3
    <3> QED  BY <3>1
  <2>4. CASE i > n /\ j <= n
    <3>1. both[i].path \in T /\ both[j].path \in S  BY <1>1, <1>5, <2>4
    <3> QED  BY <3>1
  <2> QED  BY <1>1, <2>1, <2>2, <2>3, <2>4
<1>7. {both[i].path : i \in 1..(n + k)} \subseteq S \cup T  BY <1>5
<1>8. S \subseteq {both[i].path : i \in 1..(n + k)}
  <2> SUFFICES ASSUME NEW x \in S PROVE \E i \in 1..(n + k) : x = both[i].path  OBVIOUS
  <2>1. PICK i \in 1..n : x = some[i].path  BY <1>3
  <2>2. i \in 1..(n + k) /\ i <= n  BY <1>1
  <2> QED  BY <1>2, <2>1, <2>2
<1>9. T \subseteq {both[i].path : i \in 1..(n + k)}
  <2> SUFFICES ASSUME NEW x \in T PROVE \E i \in 1..(n + k) : x = both[i].path  OBVIOUS
  <2>1. PICK i \in 1..k : x = others[i].path  BY <1>3
  <2>2. i + n \in 1..(n + k) /\ ~(i + n <= n) /\ (i + n) - n = i  BY <1>1
  <2> QED  BY <1>2, <2>1, <2>2
<1> QED  BY <1>2, <1>6, <1>7, <1>8, <1>9 DEF Tells, both

\* One issue is told where a value is wrong, and none where it is not.
LEMMA OneTells ==
  ASSUME NEW v, NEW place, NEW expected
  PROVE  Tells(M!Issue(place, expected, v), {place})
<1> DEFINE issue == [path |-> place, expected |-> expected, received |-> v.type]
<1>1. M!Issue(place, expected, v) = <<issue>> /\ issue.path = place  BY DEF M!Issue
<1> HIDE DEF issue
<1> QED  BY <1>1, TellsOne

\* A string is told of where it is none.
LEMMA StringTells ==
  ASSUME NEW v, NEW place
  PROVE  Tells(M!StringAt(v, place), Unfit(place, v, {"string"}))
<1>1. CASE v.type = "string"  BY <1>1, TellsNone DEF M!StringAt, M!IsString, Unfit
<1>2. CASE v.type # "string"
  <2>1. Tells(M!Issue(place, "string", v), {place})  BY OneTells
  <2>2. M!StringAt(v, place) = M!Issue(place, "string", v) /\ Unfit(place, v, {"string"}) = {place}
    BY <1>2 DEF M!StringAt, M!IsString, Unfit
  <2> QED  BY <2>1, <2>2
<1> QED  BY <1>1, <1>2

\* So is an object.
LEMMA ObjectTells ==
  ASSUME NEW v, NEW place
  PROVE  Tells(M!ObjectAt(v, place), Unfit(place, v, {"object"}))
<1>1. CASE v.type = "object"  BY <1>1, TellsNone DEF M!ObjectAt, Unfit
<1>2. CASE v.type # "object"
  <2>1. Tells(M!Issue(place, "object", v), {place})  BY OneTells
  <2>2. M!ObjectAt(v, place) = M!Issue(place, "object", v) /\ Unfit(place, v, {"object"}) = {place}
    BY <1>2 DEF M!ObjectAt, Unfit
  <2> QED  BY <2>1, <2>2
<1> QED  BY <1>1, <1>2

\* The places of the params that do not fit their method.
Wrong(method, fields) ==
  CASE method = "initialize" ->
         {k \in {"protocolVersion"} : ~M!IsString(fields[k])}
         \cup {k \in {"capabilities", "clientInfo"} : fields[k].type # "object"}
         \cup {k \in {"name", "version"} : fields.clientInfo.type = "object" /\ ~M!IsString(fields[k])}
    [] method = "tools/call" ->
         {k \in {"name"} : ~M!IsString(fields[k])}
         \cup {k \in {"arguments"} : fields[k].type \notin {"undefined", "object"}}
    [] method = "tools/list" -> {k \in {"cursor"} : fields[k].type \notin {"undefined", "string"}}
    [] OTHER -> {}

Fields == [DOMAIN NoFields -> Value]

\* The issues of initialize tell of each field that is wrong, of those inside clientInfo
\* only where it is an object.
LEMMA InitializeTells ==
  ASSUME NEW p, p.type # "undefined", NEW fields \in Fields
  PROVE  Tells(M!InitializeIssues(p, fields), Wrong("initialize", fields))
<1> DEFINE a == M!StringAt(fields.protocolVersion, "protocolVersion")
           b == M!ObjectAt(fields.capabilities, "capabilities")
           c == IF fields.clientInfo.type = "object"
                  THEN M!StringAt(fields.name, "name") \o M!StringAt(fields.version, "version")
                ELSE M!ObjectAt(fields.clientInfo, "clientInfo")
           A == Unfit("protocolVersion", fields.protocolVersion, {"string"})
           B == Unfit("capabilities", fields.capabilities, {"object"})
           N == Unfit("name", fields.name, {"string"})
           U == Unfit("version", fields.version, {"string"})
           I == Unfit("clientInfo", fields.clientInfo, {"object"})
           C == IF fields.clientInfo.type = "object" THEN N \cup U ELSE I
<1>1. /\ fields.protocolVersion \in Value /\ fields.capabilities \in Value /\ fields.clientInfo \in Value
      /\ fields.name \in Value /\ fields.version \in Value
  BY DEF Fields, NoFields
<1>2. Tells(a, A) /\ Tells(b, B)  BY <1>1, StringTells, ObjectTells
<1>3. Tells(c, C)
  <2>1. Tells(M!StringAt(fields.name, "name"), N) /\ Tells(M!StringAt(fields.version, "version"), U)
    BY <1>1, StringTells
  <2>2. N \cap U = {}  BY DEF Unfit
  <2> HIDE DEF N, U
  <2>3. Tells(M!StringAt(fields.name, "name") \o M!StringAt(fields.version, "version"), N \cup U)
    BY <2>1, <2>2, TellsBoth
  <2>4. Tells(M!ObjectAt(fields.clientInfo, "clientInfo"), I)  BY <1>1, ObjectTells
  <2> QED  BY <2>3, <2>4
<1>4. A \cap B = {} /\ (A \cup B) \cap C = {}  BY DEF Unfit
<1>5. M!InitializeIssues(p, fields) = a \o b \o c  BY DEF M!InitializeIssues
<1>6. Wrong("initialize", fields) = (A \cup B) \cup C
  <2>1. \A x : x \in Wrong("initialize", fields) <=>
          \/ x = "protocolVersion" /\ ~M!IsString(fields.protocolVersion)
          \/ x = "capabilities" /\ fields.capabilities.type # "object"
          \/ x = "clientInfo" /\ fields.clientInfo.type # "object"
          \/ x = "name" /\ fields.clientInfo.type = "object" /\ ~M!IsString(fields.name)
          \/ x = "version" /\ fields.clientInfo.type = "object" /\ ~M!IsString(fields.version)
    BY DEF Wrong
  <2>2. \A x : x \in (A \cup B) \cup C <=>
          \/ x = "protocolVersion" /\ ~M!IsString(fields.protocolVersion)
          \/ x = "capabilities" /\ fields.capabilities.type # "object"
          \/ x = "clientInfo" /\ fields.clientInfo.type # "object"
          \/ x = "name" /\ fields.clientInfo.type = "object" /\ ~M!IsString(fields.name)
          \/ x = "version" /\ fields.clientInfo.type = "object" /\ ~M!IsString(fields.version)
    BY DEF Unfit, M!IsString
  <2> HIDE DEF A, B, C
  <2> QED  BY <2>1, <2>2
<1> HIDE DEF a, b, c, A, B, C
<1>7. Tells(a \o b, A \cup B)  BY <1>2, <1>4, TellsBoth
<1>8. Tells((a \o b) \o c, (A \cup B) \cup C)  BY <1>3, <1>4, <1>7, TellsBoth
<1> QED  BY <1>5, <1>6, <1>8

\* Those of tools/call tell of its name and its arguments.
LEMMA CallTells ==
  ASSUME NEW p, p.type # "undefined", NEW fields \in Fields
  PROVE  Tells(M!CallIssues(p, fields), Wrong("tools/call", fields))
<1> DEFINE a == M!StringAt(fields.name, "name")
           fits == fields.arguments.type \in {"undefined", "object"}
           b == IF fits THEN <<>> ELSE M!Issue("arguments", "record", fields.arguments)
           A == Unfit("name", fields.name, {"string"})
           B == Unfit("arguments", fields.arguments, {"undefined", "object"})
<1>1. fields.name \in Value /\ fields.arguments \in Value  BY DEF Fields, NoFields
<1>2. Tells(a, A)  BY <1>1, StringTells
<1>3. Tells(b, B)
  <2>1. CASE fits  BY <2>1, TellsNone DEF Unfit
  <2>2. CASE ~fits
    <3>2. Tells(M!Issue("arguments", "record", fields.arguments), {"arguments"})  BY <1>1, OneTells
    <3>3. b = M!Issue("arguments", "record", fields.arguments) /\ B = {"arguments"}  BY <2>2 DEF Unfit
    <3> QED  BY <3>2, <3>3
  <2> QED  BY <2>1, <2>2
<1>4. A \cap B = {}  BY DEF Unfit
<1>5. M!CallIssues(p, fields) = a \o b  BY DEF M!CallIssues
<1>6. Wrong("tools/call", fields) = A \cup B  BY DEF Wrong, Unfit, M!IsString
<1> HIDE DEF a, b, A, B
<1> QED  BY <1>2, <1>3, <1>4, <1>5, <1>6, TellsBoth

\* Those of tools/list tell of its cursor.
LEMMA ListTells ==
  ASSUME NEW p, p.type # "undefined", NEW fields \in Fields
  PROVE  Tells(M!ListIssues(p, fields), Wrong("tools/list", fields))
<1>1. fields.cursor \in Value  BY DEF Fields, NoFields
<1>2. Wrong("tools/list", fields) = {k \in {"cursor"} : fields.cursor.type \notin {"undefined", "string"}}
  BY DEF Wrong
<1>3. CASE fields.cursor.type \in {"undefined", "string"}
  BY <1>2, <1>3, TellsNone DEF M!ListIssues
<1>4. CASE fields.cursor.type \notin {"undefined", "string"}
  <2>1. ~M!IsString(fields.cursor)  BY <1>4 DEF M!IsString
  <2>2. Tells(M!StringAt(fields.cursor, "cursor"), Unfit("cursor", fields.cursor, {"string"}))
    BY <1>1, StringTells
  <2>3. Wrong("tools/list", fields) = Unfit("cursor", fields.cursor, {"string"})  BY <1>2, <1>4, <2>1 DEF Unfit
  <2>4. M!ListIssues(p, fields) = M!StringAt(fields.cursor, "cursor")  BY <1>4 DEF M!ListIssues
  <2> QED  BY <2>2, <2>3, <2>4
<1> QED  BY <1>3, <1>4

\* The issues of params tell each place that does not fit, and each once.
LEMMA IssuesTell ==
  ASSUME NEW p, p.type # "undefined", NEW fields \in Fields, NEW method
  PROVE  Tells(M!IssuesOf(method, p, fields), Wrong(method, fields))
<1>1. CASE method = "initialize"  BY <1>1, InitializeTells DEF M!IssuesOf
<1>2. CASE method = "tools/call"  BY <1>2, CallTells DEF M!IssuesOf
<1>3. CASE method = "tools/list"  BY <1>3, ListTells DEF M!IssuesOf
<1>4. CASE method \notin {"initialize", "tools/call", "tools/list"}
  <2>1. M!IssuesOf(method, p, fields) = <<>> /\ Wrong(method, fields) = {}  BY <1>4 DEF M!IssuesOf, Wrong
  <2> QED  BY <2>1, TellsNone
<1> QED  BY <1>1, <1>2, <1>3, <1>4

-----------------------------------------------------------------------------
(* Every request is answered *)

Asked == {"initialize", "tools/list", "tools/call"}

\* The cases of a request.
Answers(sdk, m, fields, issues, said) ==
  /\ m.method \notin Asked \cup {"ping"} => said = M!Said("failure", m.id, "-32601", <<>>)
  /\ m.method = "ping" => said = M!Said("success", m.id, "", <<>>)
  /\ m.method \in Asked /\ issues # <<>> =>
       said = IF sdk = "Server" THEN M!Said("failure", m.id, "-32602", <<Head(issues)>>)
              ELSE M!Said("failure", m.id, "-32603", issues)
  /\ m.method = "initialize" /\ issues = <<>> =>
       said = M!Said("success", m.id, M!ProtocolVersion(fields.protocolVersion), <<>>)
  /\ m.method = "tools/list" /\ issues = <<>> => said = M!Said("success", m.id, "", <<>>)
  /\ m.method = "tools/call" /\ issues = <<>> => said = M!Said("call", m.id, fields.name.n, <<>>)

\* The answer of the code is the one of these cases.
LEMMA AnswerIs ==
  ASSUME NEW sdk \in {"Server", "McpServer"}, NEW m, NEW fields
  PROVE  Answers(sdk, m, fields, M!IssuesOf(m.method, m.params, fields), M!Answer(sdk, m, fields))
<1> DEFINE issues == M!IssuesOf(m.method, m.params, fields)
           said == M!Answer(sdk, m, fields)
<1> SUFFICES Answers(sdk, m, fields, issues, said)  OBVIOUS
<1> USE DEF Answers
<1>1. CASE m.method \notin Asked \cup {"ping"}  BY <1>1 DEF M!Answer, Asked
<1>2. CASE m.method = "ping"  BY <1>2 DEF M!Answer, Asked
<1>3. CASE m.method \in Asked /\ issues # <<>>  BY <1>3 DEF M!Answer, Asked
<1>4. CASE m.method \in Asked /\ issues = <<>>
  <2>1. CASE m.method = "initialize"  BY <1>4, <2>1 DEF M!Answer, Asked
  <2>2. CASE m.method = "tools/list"  BY <1>4, <2>2 DEF M!Answer, Asked
  <2>3. CASE m.method = "tools/call"  BY <1>4, <2>3 DEF M!Answer, Asked
  <2> QED  BY <1>4, <2>1, <2>2, <2>3 DEF Asked
<1> QED  BY <1>1, <1>2, <1>3, <1>4

\* A list of issues is empty when no place is told, and its first tells one.
LEMMA TellsSome ==
  ASSUME NEW issues, NEW places, Tells(issues, places)
  PROVE  /\ issues = <<>> <=> places = {}
         /\ issues # <<>> => Head(issues).path \in places
<1>1. PICK S : issues \in Seq(S)  BY DEF Tells
<1>2. CASE issues = <<>>  BY <1>2 DEF Tells
<1>3. CASE issues # <<>>
  <2>1. 1 \in DOMAIN issues /\ Head(issues) = issues[1]  BY <1>1, <1>3
  <2>2. issues[1].path \in places  BY <2>1 DEF Tells
  <2> QED  BY <1>3, <2>1, <2>2
<1> QED  BY <1>2, <1>3

\* What an answer says of the places that do not fit.
Refuses(sdk, said, wrong) ==
  /\ wrong = {} <=> said.is # "failure" \/ said.what = "-32601"
  /\ sdk = "McpServer" =>
       /\ {said.issues[i].path : i \in DOMAIN said.issues} = wrong
       /\ \A i, j \in DOMAIN said.issues : said.issues[i].path = said.issues[j].path => i = j
  /\ sdk = "Server" =>
       /\ {said.issues[i].path : i \in DOMAIN said.issues} \subseteq wrong
       /\ wrong = {} \/ Len(said.issues) = 1

\* A request without issues is not refused.
LEMMA RefusesNone ==
  ASSUME NEW sdk, NEW said, said.issues = <<>>, said.is # "failure" \/ said.what = "-32601"
  PROVE  Refuses(sdk, said, {})
BY DEF Refuses

\* One with issues is refused for them, by each sdk in its way.
LEMMA RefusesSome ==
  ASSUME NEW sdk \in {"Server", "McpServer"}, NEW said, NEW issues, NEW wrong, Tells(issues, wrong), issues # <<>>,
         said.is = "failure", said.what \in {"-32602", "-32603"},
         said.issues = IF sdk = "Server" THEN <<Head(issues)>> ELSE issues
  PROVE  Refuses(sdk, said, wrong)
<1>1. wrong # {} /\ Head(issues).path \in wrong  BY TellsSome
<1>2. CASE sdk = "McpServer"
  <2>1. said.issues = issues  BY <1>2
  <2> QED  BY <1>1, <1>2, <2>1 DEF Refuses, Tells
<1>3. CASE sdk = "Server"
  <2> DEFINE h == Head(issues)
             one == <<h>>
  <2> HIDE DEF h
  <2>1. DOMAIN one = {1} /\ one[1] = h /\ Len(one) = 1  OBVIOUS
  <2>2. said.issues = one  BY <1>3 DEF h
  <2> HIDE DEF one
  <2>3. {one[i].path : i \in DOMAIN one} \subseteq wrong  BY <1>1, <2>1 DEF h
  <2> QED  BY <1>1, <1>3, <2>1, <2>2, <2>3 DEF Refuses
<1> QED  BY <1>2, <1>3

\* A request is answered by its own id, and by what its method asks for.
LEMMA RequestIsAnswered ==
  ASSUME NEW sdk \in {"Server", "McpServer"}, NEW m, NEW fields \in Fields
  PROVE  LET said == M!Answer(sdk, m, fields)
         IN /\ said.is \in {"success", "failure", "call"}
            /\ said.id = m.id
            /\ m.params.type = "object" => Refuses(sdk, said, Wrong(m.method, fields))
            /\ said.is = "success" /\ m.method = "initialize" =>
                 said.what = M!ProtocolVersion(fields.protocolVersion)
<1> DEFINE issues == M!IssuesOf(m.method, m.params, fields)
           said == M!Answer(sdk, m, fields)
           wrong == Wrong(m.method, fields)
<1>0. m.params.type = "object" => Tells(issues, wrong)
  <2> SUFFICES ASSUME m.params.type = "object" PROVE Tells(issues, wrong)  OBVIOUS
  <2>1. m.params.type # "undefined"  OBVIOUS
  <2> QED  BY <2>1, IssuesTell
<1>b. m.method \notin Asked => wrong = {}  BY DEF Wrong, Asked
<1>a. Answers(sdk, m, fields, issues, said)  BY AnswerIs
<1> HIDE DEF said, issues, wrong
<1>1. CASE m.method \notin Asked
  <2>1. said.is \in {"success", "failure"} /\ said.id = m.id /\ said.issues = <<>>
        /\ (said.is # "failure" \/ said.what = "-32601")
    <3>1. CASE m.method = "ping"
      <4>1. said = M!Said("success", m.id, "", <<>>)  BY <1>a, <3>1 DEF Answers
      <4> QED  BY <4>1 DEF M!Said
    <3>2. CASE m.method # "ping"
      <4>1. said = M!Said("failure", m.id, "-32601", <<>>)  BY <1>1, <1>a, <3>2 DEF Answers
      <4> QED  BY <4>1 DEF M!Said
    <3> QED  BY <3>1, <3>2
  <2>2. wrong = {} /\ m.method # "initialize"  BY <1>1, <1>b DEF Asked
  <2>3. Refuses(sdk, said, wrong)  BY <2>1, <2>2, RefusesNone
  <2> QED  BY <2>1, <2>2, <2>3 DEF said, wrong
<1>2. CASE m.method \in Asked /\ issues # <<>>
  <2>1. said = IF sdk = "Server" THEN M!Said("failure", m.id, "-32602", <<Head(issues)>>)
               ELSE M!Said("failure", m.id, "-32603", issues)
    BY <1>2, <1>a DEF Answers
  <2>2. said.is = "failure" /\ said.id = m.id /\ said.what \in {"-32602", "-32603"}
        /\ said.issues = IF sdk = "Server" THEN <<Head(issues)>> ELSE issues
    BY <2>1 DEF M!Said
  <2>3. m.params.type = "object" => Refuses(sdk, said, wrong)
    <3> SUFFICES ASSUME m.params.type = "object" PROVE Refuses(sdk, said, wrong)  OBVIOUS
    <3>1. Tells(issues, wrong)  BY <1>0
    <3> QED  BY <1>2, <2>2, <3>1, RefusesSome
  <2> QED  BY <2>2, <2>3 DEF said, wrong
<1>3. CASE m.method \in Asked /\ issues = <<>>
  <2>1. /\ said.is \in {"success", "call"} /\ said.id = m.id /\ said.issues = <<>>
        /\ m.method = "initialize" => said.what = M!ProtocolVersion(fields.protocolVersion)
    <3>1. CASE m.method = "initialize"  BY <1>3, <1>a, <3>1 DEF Answers, M!Said
    <3>2. CASE m.method = "tools/list"
      <4>1. said = M!Said("success", m.id, "", <<>>)  BY <1>3, <1>a, <3>2 DEF Answers
      <4> QED  BY <3>2, <4>1 DEF M!Said
    <3>3. CASE m.method = "tools/call"  BY <1>3, <1>a, <3>3 DEF Answers, M!Said
    <3> QED  BY <1>3, <3>1, <3>2, <3>3 DEF Asked
  <2>2. m.params.type = "object" => wrong = {}  BY <1>0, <1>3, TellsSome
  <2>3. m.params.type = "object" => Refuses(sdk, said, wrong)  BY <2>1, <2>2, RefusesNone
  <2> QED  BY <2>1, <2>3 DEF said, wrong
<1> QED  BY <1>1, <1>2, <1>3

\* A message keeps what the line had.
LEMMA ParseIs ==
  ASSUME NEW line
  PROVE  LET m == M!Parse(line)
         IN \/ m.is = "nothing"
            \/ m.is \in {"request", "notification"} /\ m.id = line.id /\ m.params = line.params
BY DEF M!Parse, M!Nothing

\* What is not a request is not answered.
LEMMA DispatchIs ==
  ASSUME NEW sdk, NEW line
  PROVE  LET m == M!Parse(line)
             said == M!Dispatch(sdk, line)
         IN /\ m.is = "request" => said = M!Answer(sdk, m, line.fields)
            /\ m.is # "request" =>
                 \/ said = M!Silence
                 \/ /\ m.is = "notification" /\ M!CancelledId(m, line.fields) # M!Missing
                    /\ said = M!Said("cancel", M!CancelledId(m, line.fields), "", <<>>)
<1> DEFINE m == M!Parse(line)
           aside == M!CancelledId(m, line.fields)
           said == M!Dispatch(sdk, line)
<1>1. CASE m.is = "request"  BY <1>1 DEF M!Dispatch
<1>2. CASE m.is = "notification" /\ aside # M!Missing  BY <1>2 DEF M!Dispatch
<1>3. CASE m.is # "request" /\ ~(m.is = "notification" /\ aside # M!Missing)  BY <1>3 DEF M!Dispatch
<1> QED  BY <1>1, <1>2, <1>3

\* Whatever line comes, a request gets one answer of its own id, the issues of a
\* refusal are those of its fields and each is told once, and nothing else is
\* answered.
THEOREM RequestsAreAnsweredHolds ==
  ASSUME NEW sdk \in {"Server", "McpServer"}, NEW line \in ClientLine
  PROVE  M!RequestsAreAnswered(sdk, line)
<1> DEFINE m == M!Parse(line)
           said == M!Dispatch(sdk, line)
           fields == line.fields
           wrong == Wrong(m.method, fields)
<1>1. fields \in Fields  BY DEF ClientLine, Fields
<1>2. \/ m.is = "nothing"
      \/ m.is \in {"request", "notification"} /\ m.id = line.id /\ m.params = line.params
  BY ParseIs
<1>3. CASE m.is = "request"
  <2>1. said = M!Answer(sdk, m, fields)  BY <1>3, DispatchIs
  <2> HIDE DEF m, said, fields, wrong
  <2>2. /\ said.is \in {"success", "failure", "call"}
        /\ said.id = m.id
        /\ m.params.type = "object" => Refuses(sdk, said, wrong)
        /\ said.is = "success" /\ m.method = "initialize" =>
             said.what = M!ProtocolVersion(fields.protocolVersion)
    BY <1>1, <2>1, RequestIsAnswered DEF wrong
  <2>3. m.id = line.id  BY <1>2, <1>3
  <2>4. M!ProtocolVersion(fields.protocolVersion) = fields.protocolVersion.n
        \/ (M!ProtocolVersion(fields.protocolVersion) = Versions[1]
            /\ fields.protocolVersion.n \notin {Versions[i] : i \in DOMAIN Versions})
    BY DEF M!ProtocolVersion
  <2> QED  BY <1>3, <2>2, <2>3, <2>4 DEF M!RequestsAreAnswered, Refuses, Wrong, m, said, fields, wrong
<1>4. CASE m.is # "request" /\ said = M!Silence
  <2> HIDE DEF m, said
  <2>1. said.is = "silence"  BY <1>4 DEF M!Silence, M!Said
  <2> QED  BY <1>4, <2>1 DEF M!RequestsAreAnswered, m, said
<1>5. CASE /\ m.is = "notification" /\ M!CancelledId(m, fields) # M!Missing
           /\ said = M!Said("cancel", M!CancelledId(m, fields), "", <<>>)
  <2> HIDE DEF m, said
  <2>1. said.is = "cancel" /\ said.id = M!CancelledId(m, fields)  BY <1>5 DEF M!Said
  <2>2. said.id = fields.requestId /\ ~M!IsFalsy(said.id)
    BY <1>5, <2>1 DEF M!CancelledId
  <2> QED  BY <1>5, <2>1, <2>2 DEF M!RequestsAreAnswered, m, said
<1> QED  BY <1>3, <1>4, <1>5, DispatchIs

-----------------------------------------------------------------------------
(* The verb reads its command line (parse_args.rs) *)

\* What the reader of a command line goes by.
Reading(f, command, positionals, words) ==
  f = [n \in 0..Len(words) |-> IF n = 0 THEN Unread(command)
                               ELSE ReadWord(command, positionals, f[n - 1], words[n])]

\* What it has read when the words are over.
ReadSoFar(command, positionals, words) ==
  (CHOOSE f : Reading(f, command, positionals, words))[Len(words)]

\* ReadWords is what was read when the words are over, and an option that still wants its text.
LEMMA ReadWordsIs ==
  ASSUME NEW command, NEW positionals, NEW words
  PROVE  LET parsed == ReadSoFar(command, positionals, words)
         IN ReadWords(command, positionals, words) =
              IF parsed.error = "" /\ parsed.wants # "" THEN [parsed EXCEPT !.error = "missing"] ELSE parsed
BY DEF ReadWords, ReadSoFar, Reading

\* There is such a reader of all words.
LEMMA Readable ==
  ASSUME NEW command, NEW positionals, NEW S, NEW words \in Seq(S)
  PROVE  \E f : Reading(f, command, positionals, words)
<1> DEFINE P == {s \in Seq(S) : \E f : Reading(f, command, positionals, s)}
<1>1. <<>> \in P
  <2> DEFINE f == [n \in 0..Len(<<>>) |-> Unread(command)]
  <2>1. \A n \in 0..Len(<<>>) : n = 0  OBVIOUS
  <2>2. Reading(f, command, positionals, <<>>)  BY <2>1 DEF Reading
  <2>3. <<>> \in Seq(S)  OBVIOUS
  <2> QED  BY <2>2, <2>3
<1>2. ASSUME NEW s \in Seq(S), NEW x \in S, s \in P PROVE Append(s, x) \in P
  <2> DEFINE k == Len(s)
             more == Append(s, x)
  <2>1. more \in Seq(S) /\ Len(more) = k + 1 /\ k \in Nat /\ more[k + 1] = x /\ \A n \in 1..k : more[n] = s[n]
    OBVIOUS
  <2>2. PICK f : Reading(f, command, positionals, s)  BY <1>2
  <2>3. \A n \in 0..k : f[n] = IF n = 0 THEN Unread(command) ELSE ReadWord(command, positionals, f[n - 1], s[n])
    BY <2>2 DEF Reading
  <2> HIDE DEF more, k
  <2> DEFINE g == [n \in 0..(k + 1) |-> IF n = k + 1 THEN ReadWord(command, positionals, f[k], x) ELSE f[n]]
  <2>4. g[k + 1] = ReadWord(command, positionals, f[k], x)
        /\ \A n \in 0..k : g[n] = f[n]
    BY <2>1
  <2>4a. g = [n \in 0..(k + 1) |-> g[n]]  OBVIOUS
  <2> HIDE DEF g
  <2>5. ASSUME NEW n \in 0..(k + 1)
        PROVE  g[n] = IF n = 0 THEN Unread(command) ELSE ReadWord(command, positionals, g[n - 1], more[n])
    <3>1. CASE n = k + 1
      <4>1. n # 0 /\ n - 1 = k /\ k \in 0..k  BY <2>1, <3>1
      <4> QED  BY <2>1, <2>4, <3>1, <4>1
    <3>2. CASE n \in 1..k
      <4>1. n # 0 /\ n - 1 \in 0..k /\ n \in 0..k  BY <2>1, <3>2
      <4> QED  BY <2>1, <2>3, <2>4, <3>2, <4>1
    <3>3. CASE n = 0
      <4>1. 0 \in 0..k  BY <2>1
      <4> QED  BY <2>3, <2>4, <3>3, <4>1
    <3> QED  BY <2>1, <3>1, <3>2, <3>3
  <2>6. Reading(g, command, positionals, more)  BY <2>1, <2>4a, <2>5 DEF Reading
  <2> QED  BY <2>1, <2>6 DEF more
<1> HIDE DEF P
<1>3. words \in P  BY <1>1, <1>2, Appending
<1> QED  BY <1>3 DEF P

\* It begins with nothing and goes on by ReadWord.
LEMMA ReadsOn ==
  ASSUME NEW command, NEW positionals, NEW S, NEW words \in Seq(S)
  PROVE  \E f : /\ f[0] = Unread(command)
                /\ \A n \in 1..Len(words) : f[n] = ReadWord(command, positionals, f[n - 1], words[n])
                /\ ReadSoFar(command, positionals, words) = f[Len(words)]
<1> DEFINE f == CHOOSE f : Reading(f, command, positionals, words)
           N == Len(words)
<1>1. Reading(f, command, positionals, words)  BY Readable
<1>2. ReadSoFar(command, positionals, words) = f[N]  BY DEF ReadSoFar
<1> HIDE DEF f
<1>3. N \in Nat  OBVIOUS
<1> HIDE DEF N
<1>4. \A n \in 0..N : f[n] = IF n = 0 THEN Unread(command) ELSE ReadWord(command, positionals, f[n - 1], words[n])
  BY <1>1 DEF Reading, N
<1>5. f[0] = Unread(command)  BY <1>3, <1>4
<1>6. \A n \in 1..N : f[n] = ReadWord(command, positionals, f[n - 1], words[n])  BY <1>3, <1>4
<1> QED  BY <1>2, <1>5, <1>6 DEF N

\* Of no words nothing is read.
LEMMA ReadNone ==
  ASSUME NEW command, NEW positionals, NEW S, NEW words \in Seq(S)
  PROVE  Len(words) = 0 => ReadSoFar(command, positionals, words) = Unread(command)
<1>1. PICK f : /\ f[0] = Unread(command)
               /\ \A n \in 1..Len(words) : f[n] = ReadWord(command, positionals, f[n - 1], words[n])
               /\ ReadSoFar(command, positionals, words) = f[Len(words)]
  BY ReadsOn
<1> QED  BY <1>1

\* Neither of the empty line.
LEMMA ReadNil ==
  ASSUME NEW command, NEW positionals
  PROVE  ReadSoFar(command, positionals, <<>>) = Unread(command)
<1> DEFINE none == <<>>
<1>1. none \in Seq({}) /\ Len(none) = 0  OBVIOUS
<1> HIDE DEF none
<1>2. ReadSoFar(command, positionals, none) = Unread(command)  BY <1>1, ReadNone
<1> QED  BY <1>2 DEF none

\* One word more is read on what was read of the others.
LEMMA ReadAppend ==
  ASSUME NEW command, NEW positionals, NEW S, NEW words \in Seq(S), NEW word \in S
  PROVE  ReadSoFar(command, positionals, Append(words, word)) =
           ReadWord(command, positionals, ReadSoFar(command, positionals, words), word)
<1> DEFINE N == Len(words)
           more == Append(words, word)
<1>1. more \in Seq(S) /\ Len(more) = N + 1 /\ N \in Nat /\ more[N + 1] = word
      /\ \A n \in 1..N : more[n] = words[n]
  OBVIOUS
<1> HIDE DEF more
<1>2. PICK f : /\ f[0] = Unread(command)
               /\ \A n \in 1..N : f[n] = ReadWord(command, positionals, f[n - 1], words[n])
               /\ ReadSoFar(command, positionals, words) = f[N]
  BY ReadsOn
<1>3. PICK g : /\ g[0] = Unread(command)
               /\ \A n \in 1..(N + 1) : g[n] = ReadWord(command, positionals, g[n - 1], more[n])
               /\ ReadSoFar(command, positionals, more) = g[N + 1]
  BY <1>1, ReadsOn
<1> HIDE DEF N
<1>4. ASSUME NEW n \in 1..N, f[n - 1] = g[n - 1] PROVE f[n] = g[n]
  <2>1. n \in 1..(N + 1)  BY <1>1
  <2> QED  BY <1>1, <1>2, <1>3, <1>4, <2>1
<1>5. f[N] = g[N]
  <2>1. f[0] = g[0]  BY <1>2, <1>3
  <2>2. N \in Nat /\ \A n \in 1..N : f[n - 1] = g[n - 1] => f[n] = g[n]  BY <1>1, <1>4
  <2>3. \A n \in 0..N : f[n] = g[n]  BY <2>1, <2>2, Agree
  <2> QED  BY <1>1, <2>3
<1>6. N + 1 \in 1..(N + 1) /\ (N + 1) - 1 = N  BY <1>1
<1> QED  BY <1>1, <1>2, <1>3, <1>5, <1>6 DEF more

\* A reader.
Parsed(error, texts, flags, positionals, wants, ended) ==
  [error |-> error, texts |-> texts, flags |-> flags, positionals |-> positionals, wants |-> wants, ended |-> ended]

\* One that nothing went wrong for.
Has(texts, flags, positionals) == Parsed("", texts, flags, positionals, "", FALSE)

\* To change the texts of a reader is to have others.
LEMMA HasTexts ==
  ASSUME NEW texts, NEW flags, NEW some, NEW more
  PROVE  [Has(texts, flags, some) EXCEPT !.texts = more] = Has(more, flags, some)
<1> DEFINE e == ""
           no == FALSE
<1>1. \A t, f, p : Has(t, f, p) = Parsed(e, t, f, p, e, no)  BY DEF Has
<1> HIDE DEF e, no
<1>2. [Parsed(e, texts, flags, some, e, no) EXCEPT !.texts = more] = Parsed(e, more, flags, some, e, no)
  BY DEF Parsed
<1> QED  BY <1>1, <1>2

\* So of its flags.
LEMMA HasFlags ==
  ASSUME NEW texts, NEW flags, NEW some, NEW more
  PROVE  [Has(texts, flags, some) EXCEPT !.flags = more] = Has(texts, more, some)
<1> DEFINE e == ""
           no == FALSE
<1>1. \A t, f, p : Has(t, f, p) = Parsed(e, t, f, p, e, no)  BY DEF Has
<1> HIDE DEF e, no
<1>2. [Parsed(e, texts, flags, some, e, no) EXCEPT !.flags = more] = Parsed(e, texts, more, some, e, no)
  BY DEF Parsed
<1> QED  BY <1>1, <1>2

\* And of its positionals.
LEMMA HasPositionals ==
  ASSUME NEW texts, NEW flags, NEW some, NEW more
  PROVE  [Has(texts, flags, some) EXCEPT !.positionals = more] = Has(texts, flags, more)
<1> DEFINE e == ""
           no == FALSE
<1>1. \A t, f, p : Has(t, f, p) = Parsed(e, t, f, p, e, no)  BY DEF Has
<1> HIDE DEF e, no
<1>2. [Parsed(e, texts, flags, some, e, no) EXCEPT !.positionals = more] = Parsed(e, texts, flags, more, e, no)
  BY DEF Parsed
<1> QED  BY <1>1, <1>2

Texts == DOMAIN Shapes
Named(command) == {o.name : o \in ToSet(command.options)}

\* The options of a command are of different names, none of them empty.
AreOptions(options) ==
  /\ options \in Seq([name : STRING \ {""}, kind : {"boolean", "string"}, multiple : BOOLEAN])
  /\ \A i, j \in DOMAIN options : options[i].name = options[j].name => i = j

HasOption(command, o) == AreOptions(command.options) /\ o \in ToSet(command.options)

\* Those that are on, and those that take texts.
HasFlag(command, o) == HasOption(command, o) /\ o.kind = "boolean"
TakesTexts(command, o) == HasOption(command, o) /\ o.kind # "boolean"

\* The option of a name is the one that has it.
LEMMA OptionIs ==
  ASSUME NEW command, NEW o, HasOption(command, o)
  PROVE  /\ OptionOf(command, o.name) = {o}
         /\ o.name # "" /\ o.name \in Named(command) /\ o.name \in STRING
         /\ o.kind \in {"boolean", "string"} /\ o.multiple \in BOOLEAN
<1> DEFINE options == command.options
<1>0. AreOptions(options) /\ o \in ToSet(options)  BY DEF HasOption
<1>1. PICK i \in DOMAIN options : o = options[i]  BY <1>0 DEF ToSet
<1>2. \A p \in ToSet(options) : p.name = o.name => p = o
  <2> TAKE p \in ToSet(options)
  <2>1. PICK j \in DOMAIN options : p = options[j]  BY DEF ToSet
  <2> QED  BY <1>0, <1>1, <2>1 DEF AreOptions
<1> DEFINE R == [name : STRING \ {""}, kind : {"boolean", "string"}, multiple : BOOLEAN]
<1>3. o \in R
  <2>1. options \in Seq(R)  BY <1>0 DEF AreOptions
  <2> HIDE DEF R
  <2> QED  BY <1>1, <2>1
<1> QED  BY <1>0, <1>2, <1>3 DEF OptionOf, Named

\* Unread is a reader that has nothing.
LEMMA NothingIs ==
  ASSUME NEW command PROVE Unread(command) = Has([name \in Named(command) |-> <<>>], {}, <<>>)
BY DEF Unread, Has, Parsed, Named

\* The flags, with one more, and the positionals.
Raised(flags, o) == flags \cup {o.name}
Behind(some, text) == Append(some, text)

\* A flag is raised.
LEMMA ReadsFlag ==
  ASSUME NEW command, NEW o, HasFlag(command, o),
         NEW positionals, NEW texts, NEW flags, NEW some
  PROVE  ReadWord(command, positionals, Has(texts, flags, some), Flag(o.name)) =
           Has(texts, Raised(flags, o), some)
<1> DEFINE parsed == Has(texts, flags, some)
           word == Flag(o.name)
           option == CHOOSE p \in OptionOf(command, o.name) : TRUE
<1>0. HasOption(command, o) /\ o.kind = "boolean"  BY DEF HasFlag
<1>1. option = o /\ OptionOf(command, o.name) # {}
  <2>1. OptionOf(command, o.name) = {o}  BY <1>0, OptionIs
  <2> QED  BY <2>1
<1>2. /\ parsed.error = "" /\ ~parsed.ended /\ parsed.wants = "" /\ parsed.flags = flags
      /\ word.name = o.name /\ word.inline = <<>> /\ Shapes[word.text] = "long"
  BY DEF Has, Parsed, Flag, Shapes
<1>3. [parsed EXCEPT !.flags = flags \cup {o.name}] = Has(texts, flags \cup {o.name}, some)
  <2> DEFINE more == flags \cup {o.name}
  <2> HIDE DEF more
  <2>1. [parsed EXCEPT !.flags = more] = Has(texts, more, some)  BY HasFlags
  <2> QED  BY <2>1 DEF more
<1> HIDE DEF parsed, word, option
<1>4. ReadWord(command, positionals, parsed, word) = [parsed EXCEPT !.flags = @ \cup {o.name}]
  BY <1>0, <1>1, <1>2 DEF ReadWord, option
<1> QED  BY <1>2, <1>3, <1>4 DEF parsed, word, Raised

\* The texts, with one more of an option.
Kept(texts, o, text) == [texts EXCEPT ![o.name] = IF o.multiple THEN Append(@, text) ELSE <<text>>]

\* A text an option carries is kept for it, whatever the text looks like.
LEMMA ReadsCarried ==
  ASSUME NEW command, NEW o, TakesTexts(command, o),
         NEW positionals, NEW texts, NEW flags, NEW some, NEW text
  PROVE  ReadWord(command, positionals, Has(texts, flags, some), Carried(o.name, text)) =
           Has(Kept(texts, o, text), flags, some)
<1> DEFINE parsed == Has(texts, flags, some)
           word == Carried(o.name, text)
           option == CHOOSE p \in OptionOf(command, o.name) : TRUE
<1>0. HasOption(command, o) /\ o.kind # "boolean"  BY DEF TakesTexts
<1>1. option = o /\ OptionOf(command, o.name) # {}
  <2>1. OptionOf(command, o.name) = {o}  BY <1>0, OptionIs
  <2> QED  BY <2>1
<1>2. /\ parsed.error = "" /\ ~parsed.ended /\ parsed.wants = ""
      /\ word.name = o.name /\ word.inline = <<text>> /\ word.inline # <<>> /\ word.inline[1] = text
      /\ Shapes[word.text] = "long"
  BY DEF Has, Parsed, Flag, Carried, Shapes
<1>3. parsed.texts = texts  BY DEF Has, Parsed
<1>4. \A more : [parsed EXCEPT !.texts = more] = Has(more, flags, some)  BY HasTexts
<1> HIDE DEF parsed, word, option
<1>5. ReadWord(command, positionals, parsed, word) = Keep(parsed, o, text)
  BY <1>0, <1>1, <1>2 DEF ReadWord, option
<1>6. Keep(parsed, o, text) = [parsed EXCEPT !.texts = Kept(texts, o, text)]
  BY <1>3 DEF Keep, Kept
<1>7. ReadWord(command, positionals, parsed, word) = Has(Kept(texts, o, text), flags, some)
  BY <1>4, <1>5, <1>6
<1> QED  BY <1>7 DEF parsed, word

\* A text that is no option, and a verb that takes it.
IsPlain(text) == text \in Texts /\ Shapes[text] = "none"
TakesPlain(positionals, text) == positionals = TRUE /\ IsPlain(text)

\* A word without dashes is behind the positionals.
LEMMA ReadsPlain ==
  ASSUME NEW command, NEW positionals, NEW texts, NEW flags, NEW some, NEW text,
         TakesPlain(positionals, text)
  PROVE  ReadWord(command, positionals, Has(texts, flags, some), PlainWord(text)) = Has(texts, flags, Behind(some, text))
<1> DEFINE parsed == Has(texts, flags, some)
           word == PlainWord(text)
<1>1. /\ parsed.error = "" /\ ~parsed.ended /\ parsed.wants = "" /\ parsed.positionals = some
      /\ word.text = text
  BY DEF Has, Parsed, PlainWord
<1>2. [parsed EXCEPT !.positionals = Append(some, text)] = Has(texts, flags, Append(some, text))
  <2> DEFINE more == Append(some, text)
  <2> HIDE DEF more
  <2>1. [parsed EXCEPT !.positionals = more] = Has(texts, flags, more)
    BY HasPositionals
  <2> QED  BY <2>1 DEF more
<1> HIDE DEF parsed, word
<1>3. ReadWord(command, positionals, parsed, word) = [parsed EXCEPT !.positionals = Append(@, text)]
  BY <1>1 DEF ReadWord, IsPlain, TakesPlain
<1> QED  BY <1>1, <1>2, <1>3 DEF parsed, word, Behind

-----------------------------------------------------------------------------
(* Words that are read, one on *)

\* Each entry of a sequence, by a function.
Apply(g, s) == [k \in DOMAIN s |-> g[s[k]]]

\* A function that takes every member of a set into another.
Into(g, S, T) == \A y \in S : g[y] \in T

\* Of none there are none.
LEMMA ApplyNil == ASSUME NEW g PROVE Apply(g, <<>>) = <<>>
BY DEF Apply

\* One more is applied to behind the others.
LEMMA ApplyAppend ==
  ASSUME NEW S, NEW T, NEW g, Into(g, S, T), NEW s \in Seq(S), NEW x \in S
  PROVE  Apply(g, s) \in Seq(T) /\ Apply(g, Append(s, x)) = Append(Apply(g, s), g[x])
<1> DEFINE N == Len(s)
           a == [k \in 1..N |-> g[s[k]]]
           more == Append(s, x)
           b == [k \in 1..(N + 1) |-> g[more[k]]]
<1>0. \A y \in S : g[y] \in T  BY DEF Into
<1>1. N \in Nat /\ DOMAIN s = 1..N /\ \A k \in 1..N : s[k] \in S  OBVIOUS
<1>2. DOMAIN more = 1..(N + 1) /\ more[N + 1] = x /\ \A k \in 1..N : more[k] = s[k]  OBVIOUS
<1>3. Apply(g, s) = a /\ Apply(g, more) = b  BY <1>1, <1>2 DEF Apply
<1>4. a \in Seq(T)
  <2>1. a \in [1..N -> T]  BY <1>0, <1>1
  <2> HIDE DEF a
  <2> QED  BY <1>1, <2>1
<1> HIDE DEF more
<1>5. /\ Len(a) = N /\ \A k \in 1..N : a[k] = g[s[k]]
      /\ DOMAIN b = 1..(N + 1) /\ \A k \in 1..(N + 1) : b[k] = g[more[k]]
  BY <1>1
<1> HIDE DEF N
<1>6. b \in Seq(T)
  <2>0. N + 1 \in Nat  BY <1>1
  <2>1. ASSUME NEW k \in 1..(N + 1) PROVE g[more[k]] \in T
    <3>1. CASE k = N + 1  BY <1>0, <1>2, <3>1
    <3>2. CASE k \in 1..N  BY <1>0, <1>1, <1>2, <3>2
    <3> QED  BY <1>1, <3>1, <3>2
  <2>2. b \in [1..(N + 1) -> T]  BY <2>1
  <2> HIDE DEF b
  <2> QED  BY <2>0, <2>2
<1> HIDE DEF a, b
<1>7. \A k \in 1..(N + 1) : b[k] = Append(a, g[x])[k]
  <2> TAKE k \in 1..(N + 1)
  <2>1. CASE k = N + 1  BY <1>1, <1>2, <1>4, <1>5, <2>1
  <2>2. CASE k \in 1..N  BY <1>1, <1>2, <1>4, <1>5, <2>2
  <2>3. k = N + 1 \/ k \in 1..N  BY <1>1
  <2> QED  BY <2>1, <2>2, <2>3
<1>8. Append(a, g[x]) \in Seq(T) /\ Len(Append(a, g[x])) = N + 1 /\ Len(b) = N + 1
  <2>1. g[x] \in T  BY <1>0
  <2> QED  BY <1>1, <1>4, <1>5, <1>6, <2>1
<1>9. b = Append(a, g[x])  BY <1>6, <1>7, <1>8, SeqEqual
<1> QED  BY <1>3, <1>4, <1>9 DEF more

\* What a function makes of a sequence is a sequence.
LEMMA ApplyType ==
  ASSUME NEW S, NEW T, NEW g, Into(g, S, T), NEW s \in Seq(S)
  PROVE  Apply(g, s) \in Seq(T)
<1>1. Len(s) \in Nat /\ DOMAIN s = 1..Len(s) /\ \A k \in 1..Len(s) : g[s[k]] \in T  BY DEF Into
<1>2. Apply(g, s) \in [1..Len(s) -> T]  BY <1>1 DEF Apply
<1> QED  BY <1>1, <1>2

\* The words of a command line.
Words ==
  {Flag(name) : name \in STRING} \cup {Carried(name, text) : name \in STRING, text \in Texts}
  \cup {PlainWord(text) : text \in Texts}

\* What was read of some words, without an error.
HasRead(command, positionals, words, texts, flags, some) ==
  /\ words \in Seq(Words)
  /\ texts \in [Named(command) -> Seq(Texts)]
  /\ ReadSoFar(command, positionals, words) = Has(texts, flags, some)

\* What was read is read on by one word.
LEMMA HasReadOn ==
  ASSUME NEW command, NEW positionals, NEW words, NEW texts, NEW flags, NEW some, NEW word, NEW t, NEW f, NEW q
  PROVE  /\ HasRead(command, positionals, words, texts, flags, some)
         /\ word \in Words
         /\ t \in [Named(command) -> Seq(Texts)]
         /\ ReadWord(command, positionals, Has(texts, flags, some), word) = Has(t, f, q)
         => HasRead(command, positionals, Append(words, word), t, f, q)
<1>1. SUFFICES ASSUME HasRead(command, positionals, words, texts, flags, some), word \in Words,
                      t \in [Named(command) -> Seq(Texts)],
                      ReadWord(command, positionals, Has(texts, flags, some), word) = Has(t, f, q)
               PROVE  HasRead(command, positionals, Append(words, word), t, f, q)
  OBVIOUS
<1>2. words \in Seq(Words) /\ ReadSoFar(command, positionals, words) = Has(texts, flags, some)
  BY <1>1 DEF HasRead
<1>3. ReadSoFar(command, positionals, Append(words, word)) =
        ReadWord(command, positionals, ReadSoFar(command, positionals, words), word)
  BY <1>1, <1>2, ReadAppend
<1>4. ReadSoFar(command, positionals, Append(words, word)) = Has(t, f, q)  BY <1>1, <1>2, <1>3
<1>5. Append(words, word) \in Seq(Words)  BY <1>1, <1>2
<1> QED  BY <1>1, <1>4, <1>5 DEF HasRead

\* Nothing is read of nothing.
LEMMA NothingIsRead ==
  ASSUME NEW command, NEW positionals
  PROVE  HasRead(command, positionals, <<>>, [name \in Named(command) |-> <<>>], {}, <<>>)
<1> DEFINE none == <<>>
           texts == [name \in Named(command) |-> none]
<1>1. none \in Seq(Words) /\ none \in Seq(Texts)  OBVIOUS
<1> HIDE DEF none
<1>2. texts \in [Named(command) -> Seq(Texts)]  BY <1>1
<1>3. ReadSoFar(command, positionals, none) = Has(texts, {}, none)
  BY ReadNil, NothingIs DEF none
<1>4. HasRead(command, positionals, none, texts, {}, none)
  <2> HIDE DEF texts
  <2> QED  BY <1>1, <1>2, <1>3 DEF HasRead
<1> QED  BY <1>4 DEF none

\* A text an option carries is read.
LEMMA CarriedIsRead ==
  ASSUME NEW command, NEW positionals, NEW words, NEW texts, NEW flags, NEW some, NEW o, NEW text
  PROVE  HasRead(command, positionals, words, texts, flags, some) /\ TakesTexts(command, o) /\ text \in Texts
         => HasRead(command, positionals, Append(words, Carried(o.name, text)), Kept(texts, o, text), flags, some)
<1>1. SUFFICES ASSUME HasRead(command, positionals, words, texts, flags, some), TakesTexts(command, o), text \in Texts
               PROVE  HasRead(command, positionals, Append(words, Carried(o.name, text)), Kept(texts, o, text),
                              flags, some)
  OBVIOUS
<1>2. HasOption(command, o) /\ o.name \in STRING /\ o.name \in Named(command)  BY <1>1, OptionIs DEF TakesTexts
<1>3. Carried(o.name, text) \in Words  BY <1>1, <1>2 DEF Words
<1>4. Kept(texts, o, text) \in [Named(command) -> Seq(Texts)]
  <2> DEFINE x == IF o.multiple THEN Append(texts[o.name], text) ELSE <<text>>
  <2>1. texts \in [Named(command) -> Seq(Texts)]  BY <1>1 DEF HasRead
  <2>2. x \in Seq(Texts)
    <3>1. texts[o.name] \in Seq(Texts)  BY <1>2, <2>1
    <3> QED  BY <1>1, <3>1
  <2>3. Kept(texts, o, text) = [texts EXCEPT ![o.name] = x]  BY DEF Kept
  <2> HIDE DEF x
  <2> QED  BY <2>1, <2>2, <2>3
<1>5. ReadWord(command, positionals, Has(texts, flags, some), Carried(o.name, text)) =
        Has(Kept(texts, o, text), flags, some)
  BY <1>1, ReadsCarried
<1> QED  BY <1>1, <1>3, <1>4, <1>5, HasReadOn

\* A flag is read.
LEMMA FlagIsRead ==
  ASSUME NEW command, NEW positionals, NEW words, NEW texts, NEW flags, NEW some, NEW o
  PROVE  HasRead(command, positionals, words, texts, flags, some) /\ HasFlag(command, o)
         => HasRead(command, positionals, Append(words, Flag(o.name)), texts, Raised(flags, o), some)
<1>1. SUFFICES ASSUME HasRead(command, positionals, words, texts, flags, some), HasFlag(command, o)
               PROVE  HasRead(command, positionals, Append(words, Flag(o.name)), texts, Raised(flags, o), some)
  OBVIOUS
<1> DEFINE more == Raised(flags, o)
<1>2. HasOption(command, o) /\ o.name \in STRING  BY <1>1, OptionIs DEF HasFlag
<1>3. Flag(o.name) \in Words  BY <1>2 DEF Words
<1>4. texts \in [Named(command) -> Seq(Texts)]  BY <1>1 DEF HasRead
<1>5. ReadWord(command, positionals, Has(texts, flags, some), Flag(o.name)) = Has(texts, more, some)
  BY <1>1, ReadsFlag
<1> HIDE DEF more
<1>6. HasRead(command, positionals, Append(words, Flag(o.name)), texts, more, some)
  BY <1>1, <1>3, <1>4, <1>5, HasReadOn
<1> QED  BY <1>6 DEF more

\* A plain word is read.
LEMMA PlainIsRead ==
  ASSUME NEW command, NEW positionals, NEW words, NEW texts, NEW flags, NEW some, NEW text
  PROVE  HasRead(command, positionals, words, texts, flags, some) /\ TakesPlain(positionals, text)
         => HasRead(command, positionals, Append(words, PlainWord(text)), texts, flags, Behind(some, text))
<1>1. SUFFICES ASSUME HasRead(command, positionals, words, texts, flags, some), TakesPlain(positionals, text)
               PROVE  HasRead(command, positionals, Append(words, PlainWord(text)), texts, flags, Behind(some, text))
  OBVIOUS
<1> DEFINE more == Behind(some, text)
<1>3. PlainWord(text) \in Words  BY <1>1 DEF Words, IsPlain, TakesPlain
<1>4. texts \in [Named(command) -> Seq(Texts)]  BY <1>1 DEF HasRead
<1>5. ReadWord(command, positionals, Has(texts, flags, some), PlainWord(text)) = Has(texts, flags, more)
  BY <1>1, ReadsPlain
<1> HIDE DEF more
<1>6. HasRead(command, positionals, Append(words, PlainWord(text)), texts, flags, more)
  BY <1>1, <1>3, <1>4, <1>5, HasReadOn
<1> QED  BY <1>6 DEF more

-----------------------------------------------------------------------------
(* The words of one option *)

\* The words that carry the texts of an option, and those that are texts.
Carry(name, s) == [k \in DOMAIN s |-> Carried(name, s[k])]
Plains(s) == [k \in DOMAIN s |-> PlainWord(s[k])]

\* One text more is carried behind the others.
LEMMA CarryAppend ==
  ASSUME NEW name \in STRING, NEW s \in Seq(Texts), NEW x \in Texts
  PROVE  Carry(name, s) \in Seq(Words) /\ Carry(name, Append(s, x)) = Append(Carry(name, s), Carried(name, x))
<1> DEFINE g == [text \in Texts |-> Carried(name, text)]
           more == Append(s, x)
<1>1. \A y \in Texts : g[y] = Carried(name, y)  OBVIOUS
<1>2. Into(g, Texts, Words)  BY <1>1 DEF Into, Words
<1>3. ASSUME NEW t \in Seq(Texts) PROVE Carry(name, t) = Apply(g, t)
  <2>1. \A k \in DOMAIN t : t[k] \in Texts  OBVIOUS
  <2> HIDE DEF g
  <2> QED  BY <1>1, <2>1 DEF Carry, Apply
<1> HIDE DEF g
<1>4a. Apply(g, s) \in Seq(Words)  BY <1>2, ApplyType
<1>4. Apply(g, Append(s, x)) = Append(Apply(g, s), g[x])  BY <1>2, ApplyAppend
<1>5. more \in Seq(Texts)  OBVIOUS
<1>6. Carry(name, s) = Apply(g, s) /\ Carry(name, more) = Apply(g, more)  BY <1>3, <1>5
<1> QED  BY <1>1, <1>4, <1>4a, <1>6

\* One word more is behind the others.
LEMMA PlainsAppend ==
  ASSUME NEW s \in Seq(Texts), NEW x \in Texts
  PROVE  Plains(s) \in Seq(Words) /\ Plains(Append(s, x)) = Append(Plains(s), PlainWord(x))
<1> DEFINE g == [text \in Texts |-> PlainWord(text)]
           more == Append(s, x)
<1>1. \A y \in Texts : g[y] = PlainWord(y)  OBVIOUS
<1>2. Into(g, Texts, Words)  BY <1>1 DEF Into, Words
<1>3. \A t \in Seq(Texts) : Plains(t) = Apply(g, t)  BY DEF Plains, Apply
<1> HIDE DEF g
<1>4a. Apply(g, s) \in Seq(Words)  BY <1>2, ApplyType
<1>4. Apply(g, Append(s, x)) = Append(Apply(g, s), g[x])  BY <1>2, ApplyAppend
<1>5. more \in Seq(Texts)  OBVIOUS
<1>6. Plains(s) = Apply(g, s) /\ Plains(more) = Apply(g, more)  BY <1>3, <1>5
<1> QED  BY <1>1, <1>4, <1>4a, <1>6

\* The texts, with those of one option.
Put(texts, o, s) == [texts EXCEPT ![o.name] = s]

\* The words of some texts and one more.
LEMMA WordsOn ==
  ASSUME NEW words \in Seq(Words), NEW more \in Seq(Words), NEW word \in Words
  PROVE  words \o Append(more, word) = Append(words \o more, word)
BY AppendBehind

\* All texts of an option of many are read, in their order.
LEMMA ManyAreRead ==
  ASSUME NEW command, NEW positionals, NEW words, NEW texts, NEW flags, NEW some, NEW o
  PROVE  HasRead(command, positionals, words, texts, flags, some) /\ TakesTexts(command, o) /\ o.multiple
         /\ texts[o.name] = <<>>
         => \A s \in Seq(Texts) :
              HasRead(command, positionals, words \o Carry(o.name, s), Put(texts, o, s), flags, some)
<1>0. SUFFICES ASSUME HasRead(command, positionals, words, texts, flags, some), TakesTexts(command, o), o.multiple,
                      texts[o.name] = <<>>
               PROVE  \A s \in Seq(Texts) :
                        HasRead(command, positionals, words \o Carry(o.name, s), Put(texts, o, s), flags, some)
  OBVIOUS
<1> DEFINE P == {s \in Seq(Texts) :
                   HasRead(command, positionals, words \o Carry(o.name, s), Put(texts, o, s), flags, some)}
<1>1. words \in Seq(Words) /\ texts \in [Named(command) -> Seq(Texts)]  BY <1>0 DEF HasRead
<1>2. o.name \in STRING /\ o.name \in Named(command)  BY <1>0, OptionIs DEF TakesTexts
<1>3. <<>> \in P
  <2> DEFINE none == <<>>
  <2>1. none \in Seq(Texts)  OBVIOUS
  <2>2. Carry(o.name, none) = none  BY DEF Carry
  <2>3. Put(texts, o, none) = texts  BY <1>0, <1>1, <1>2 DEF Put
  <2>4. words \o none = words  BY <1>1
  <2> HIDE DEF none
  <2>5. HasRead(command, positionals, words \o Carry(o.name, none), Put(texts, o, none), flags, some)
    BY <1>0, <2>2, <2>3, <2>4
  <2>6. none \in P  BY <2>1, <2>5
  <2> QED  BY <2>6 DEF none
<1>4. ASSUME NEW s \in Seq(Texts), NEW x \in Texts, s \in P PROVE Append(s, x) \in P
  <2> DEFINE more == Append(s, x)
             c == Carry(o.name, s)
             w == Carried(o.name, x)
  <2>1. HasRead(command, positionals, words \o c, Put(texts, o, s), flags, some)  BY <1>4
  <2>2. c \in Seq(Words) /\ Carry(o.name, more) = Append(c, w)  BY <1>2, CarryAppend
  <2>3. w \in Words  BY <1>2 DEF Words
  <2>4. Kept(Put(texts, o, s), o, x) = Put(texts, o, more)  BY <1>0, <1>1, <1>2 DEF Kept, Put
  <2>5. more \in Seq(Texts)  OBVIOUS
  <2> HIDE DEF more, c, w, P
  <2>6. words \o Append(c, w) = Append(words \o c, w)  BY <1>1, <2>2, <2>3, WordsOn
  <2>7. HasRead(command, positionals, Append(words \o c, w), Put(texts, o, more), flags, some)
    <3> DEFINE all == words \o c
               t == Put(texts, o, s)
    <3> HIDE DEF all, t
    <3>1. HasRead(command, positionals, Append(all, Carried(o.name, x)), Kept(t, o, x), flags, some)
      BY <1>0, <2>1, CarriedIsRead DEF all, t
    <3> QED  BY <2>4, <3>1 DEF all, t, w
  <2>8. HasRead(command, positionals, words \o Carry(o.name, more), Put(texts, o, more), flags, some)
    BY <2>2, <2>6, <2>7
  <2> QED  BY <2>5, <2>8 DEF P, more
<1> HIDE DEF P
<1>5. \A s \in Seq(Texts) : s \in P  BY <1>3, <1>4, Appending
<1> QED  BY <1>5 DEF P

PlainTexts == {text \in Texts : IsPlain(text)}

\* All plain texts are read, in their order.
LEMMA PlainsAreRead ==
  ASSUME NEW command, NEW positionals, NEW words, NEW texts, NEW flags, NEW some
  PROVE  HasRead(command, positionals, words, texts, flags, some) /\ positionals = TRUE /\ some \in Seq(Texts)
         => \A s \in Seq(PlainTexts) :
              HasRead(command, positionals, words \o Plains(s), texts, flags, some \o s)
<1>0. SUFFICES ASSUME HasRead(command, positionals, words, texts, flags, some), positionals = TRUE,
                      some \in Seq(Texts)
               PROVE  \A s \in Seq(PlainTexts) :
                        HasRead(command, positionals, words \o Plains(s), texts, flags, some \o s)
  OBVIOUS
<1> DEFINE P == {s \in Seq(PlainTexts) :
                   HasRead(command, positionals, words \o Plains(s), texts, flags, some \o s)}
<1>1. words \in Seq(Words)  BY <1>0 DEF HasRead
<1>3. <<>> \in P
  <2> DEFINE none == <<>>
  <2>1. none \in Seq(PlainTexts)  OBVIOUS
  <2>2. Plains(none) = none  BY DEF Plains
  <2>3. some \o none = some  BY <1>0
  <2>4. words \o none = words  BY <1>1
  <2> HIDE DEF none
  <2>5. HasRead(command, positionals, words \o Plains(none), texts, flags, some \o none)
    BY <1>0, <2>2, <2>3, <2>4
  <2>6. none \in P  BY <2>1, <2>5
  <2> QED  BY <2>6 DEF none
<1>4. ASSUME NEW s \in Seq(PlainTexts), NEW x \in PlainTexts, s \in P PROVE Append(s, x) \in P
  <2> DEFINE more == Append(s, x)
             c == Plains(s)
             w == PlainWord(x)
  <2>1. HasRead(command, positionals, words \o c, texts, flags, some \o s)  BY <1>4
  <2>0. s \in Seq(Texts) /\ x \in Texts  BY DEF PlainTexts
  <2>2. c \in Seq(Words) /\ Plains(more) = Append(c, w)  BY <2>0, PlainsAppend
  <2>3. w \in Words  BY <2>0 DEF Words
  <2>4. some \o more = Behind(some \o s, x)
    <3>1. some \o Append(s, x) = Append(some \o s, x)  BY <1>0, <2>0, AppendBehind
    <3> QED  BY <3>1 DEF Behind
  <2>5. more \in Seq(PlainTexts)  OBVIOUS
  <2> HIDE DEF more, c, w, P
  <2>6. words \o Append(c, w) = Append(words \o c, w)  BY <1>1, <2>2, <2>3, WordsOn
  <2>7. HasRead(command, positionals, Append(words \o c, w), texts, flags, some \o more)
    <3> DEFINE all == words \o c
               q == some \o s
    <3> HIDE DEF all, q
    <3>1. TakesPlain(positionals, x)  BY <1>0 DEF PlainTexts, TakesPlain
    <3>2. HasRead(command, positionals, Append(all, PlainWord(x)), texts, flags, Behind(q, x))
      BY <2>1, <3>1, PlainIsRead DEF all, q
    <3> QED  BY <2>4, <3>2 DEF all, q, w
  <2>8. HasRead(command, positionals, words \o Plains(more), texts, flags, some \o more)
    BY <2>2, <2>6, <2>7
  <2> QED  BY <2>5, <2>8 DEF P, more
<1> HIDE DEF P
<1>5. \A s \in Seq(PlainTexts) : s \in P  BY <1>3, <1>4, Appending
<1> QED  BY <1>5 DEF P

\* What a call gives for an option fits it.
Fits(args, o) ==
  /\ TextsOf(args, o.name) \in Seq(Texts)
  /\ o.kind # "boolean" /\ ~o.multiple =>
       TextsOf(args, o.name) = <<>> \/ \E text \in Texts : TextsOf(args, o.name) = <<text>>

\* The texts and the flags, with what an option is given.
TextsWith(texts, args, o) == IF o.kind = "boolean" THEN texts ELSE Put(texts, o, TextsOf(args, o.name))
FlagsWith(flags, command, args, o) ==
  IF o.kind = "boolean" /\ IsOn(command, args, o) THEN Raised(flags, o) ELSE flags

\* The words of an option are words.
LEMMA FlagWords ==
  ASSUME NEW command, NEW args, NEW o, HasOption(command, o), Fits(args, o)
  PROVE  FlagsOf(command, args, o) \in Seq(Words)
<1>1. o.name \in STRING  BY OptionIs
<1>2. CASE o.kind = "boolean"
  <2>1. Flag(o.name) \in Words  BY <1>1 DEF Words
  <2> QED  BY <1>2, <2>1 DEF FlagsOf
<1>3. CASE o.kind # "boolean"
  <2> DEFINE s == TextsOf(args, o.name)
  <2>1. s \in Seq(Texts)  BY DEF Fits
  <2>2. FlagsOf(command, args, o) = Carry(o.name, s)  BY <1>3 DEF FlagsOf, Carry
  <2> HIDE DEF s
  <2>3. DOMAIN s = 1..Len(s) /\ Len(s) \in Nat /\ \A k \in 1..Len(s) : Carried(o.name, s[k]) \in Words
    BY <1>1, <2>1 DEF Words
  <2>4. Carry(o.name, s) \in [1..Len(s) -> Words]  BY <2>3 DEF Carry
  <2> QED  BY <2>2, <2>3, <2>4
<1> QED  BY <1>2, <1>3

\* What a call gives for one option is read.
LEMMA GivenIsRead ==
  ASSUME NEW command, NEW positionals, NEW words, NEW texts, NEW flags, NEW some, NEW args, NEW o
  PROVE  HasRead(command, positionals, words, texts, flags, some) /\ HasOption(command, o) /\ Fits(args, o)
         /\ texts[o.name] = <<>>
         => HasRead(command, positionals, words \o FlagsOf(command, args, o),
                    TextsWith(texts, args, o), FlagsWith(flags, command, args, o), some)
<1>0. SUFFICES ASSUME HasRead(command, positionals, words, texts, flags, some), HasOption(command, o), Fits(args, o),
                      texts[o.name] = <<>>
               PROVE  HasRead(command, positionals, words \o FlagsOf(command, args, o),
                              TextsWith(texts, args, o), FlagsWith(flags, command, args, o), some)
  OBVIOUS
<1>1. words \in Seq(Words) /\ words \o <<>> = words  BY <1>0 DEF HasRead
<1>2. o.name \in STRING /\ o.name \in Named(command) /\ o.multiple \in BOOLEAN  BY <1>0, OptionIs
<1>3. CASE o.kind = "boolean" /\ IsOn(command, args, o)
  <2>1. FlagsOf(command, args, o) = <<Flag(o.name)>>  BY <1>3 DEF FlagsOf
  <2>2. words \o <<Flag(o.name)>> = Append(words, Flag(o.name))  BY <1>1
  <2>3. TextsWith(texts, args, o) = texts /\ FlagsWith(flags, command, args, o) = Raised(flags, o)
    BY <1>3 DEF TextsWith, FlagsWith
  <2>4. HasFlag(command, o)  BY <1>0, <1>3 DEF HasFlag
  <2>5. HasRead(command, positionals, Append(words, Flag(o.name)), texts, Raised(flags, o), some)
    BY <1>0, <2>4, FlagIsRead
  <2> QED  BY <2>1, <2>2, <2>3, <2>5
<1>4. CASE o.kind = "boolean" /\ ~IsOn(command, args, o)
  <2>1. FlagsOf(command, args, o) = <<>>  BY <1>4 DEF FlagsOf
  <2>2. TextsWith(texts, args, o) = texts /\ FlagsWith(flags, command, args, o) = flags
    BY <1>4 DEF TextsWith, FlagsWith
  <2> QED  BY <1>0, <1>1, <2>1, <2>2
<1>5. CASE o.kind # "boolean"
  <2> DEFINE s == TextsOf(args, o.name)
  <2>1. FlagsOf(command, args, o) = Carry(o.name, s)  BY <1>5 DEF FlagsOf, Carry
  <2>2. TextsWith(texts, args, o) = Put(texts, o, s) /\ FlagsWith(flags, command, args, o) = flags
    BY <1>5 DEF TextsWith, FlagsWith
  <2>3. TakesTexts(command, o)  BY <1>0, <1>5 DEF TakesTexts
  <2>4. s \in Seq(Texts) /\ (~o.multiple => s = <<>> \/ \E text \in Texts : s = <<text>>)
    BY <1>0, <1>5 DEF Fits
  <2> HIDE DEF s
  <2>5. HasRead(command, positionals, words \o Carry(o.name, s), Put(texts, o, s), flags, some)
    <3>1. CASE o.multiple  BY <1>0, <2>3, <2>4, <3>1, ManyAreRead
    <3>2. CASE s = <<>>
      <4>1. Carry(o.name, s) = <<>>  BY <3>2 DEF Carry
      <4>2. Put(texts, o, s) = texts
        <5>1. texts \in [Named(command) -> Seq(Texts)]  BY <1>0 DEF HasRead
        <5> QED  BY <1>0, <1>2, <3>2, <5>1 DEF Put
      <4> QED  BY <1>0, <1>1, <4>1, <4>2
    <3>3. ASSUME NEW text \in Texts, s = <<text>>, ~o.multiple
          PROVE  HasRead(command, positionals, words \o Carry(o.name, s), Put(texts, o, s), flags, some)
      <4>1. Carry(o.name, s) = <<Carried(o.name, text)>>  BY <3>3 DEF Carry
      <4>2. words \o <<Carried(o.name, text)>> = Append(words, Carried(o.name, text))  BY <1>1
      <4>3. Kept(texts, o, text) = Put(texts, o, s)  BY <3>3 DEF Kept, Put
      <4>4. HasRead(command, positionals, Append(words, Carried(o.name, text)), Kept(texts, o, text), flags, some)
        BY <1>0, <2>3, CarriedIsRead
      <4> QED  BY <4>1, <4>2, <4>3, <4>4
    <3> QED  BY <1>2, <2>4, <3>1, <3>2, <3>3
  <2> QED  BY <2>1, <2>2, <2>5
<1> QED  BY <1>3, <1>4, <1>5

-----------------------------------------------------------------------------
(* The words of all options and positionals *)

\* The first of some sequences, one after the other.
Firsts(seqs, n) == FlattenSeq(SubSeq(seqs, 1, n))

\* The first sequences, flattened, one on.
LEMMA FirstsAre ==
  ASSUME NEW S, NEW seqs \in Seq(Seq(S))
  PROVE  /\ Firsts(seqs, 0) = <<>>
         /\ Firsts(seqs, Len(seqs)) = FlattenSeq(seqs)
         /\ \A n \in 0..(Len(seqs) - 1) : Firsts(seqs, n) \in Seq(S) /\ Firsts(seqs, n + 1) = Firsts(seqs, n) \o seqs[n + 1]
<1> DEFINE Row == Seq(S)
<1>0. seqs \in Seq(Row) /\ Len(seqs) \in Nat  OBVIOUS
<1> HIDE DEF Row
<1>1. SubSeq(seqs, 1, 0) = <<>> /\ SubSeq(seqs, 1, Len(seqs)) = seqs  BY <1>0
<1>2. Firsts(seqs, 0) = <<>> /\ Firsts(seqs, Len(seqs)) = FlattenSeq(seqs)  BY <1>1, FlattenNil DEF Firsts
<1>3. ASSUME NEW n \in 0..(Len(seqs) - 1)
      PROVE  Firsts(seqs, n) \in Seq(S) /\ Firsts(seqs, n + 1) = Firsts(seqs, n) \o seqs[n + 1]
  <2> DEFINE some == SubSeq(seqs, 1, n)
             seq == seqs[n + 1]
  <2>1. some \in Seq(Row) /\ seq \in Row /\ SubSeq(seqs, 1, n + 1) = Append(some, seq)  BY <1>0
  <2> HIDE DEF some, seq
  <2>2. FlattenSeq(Append(some, seq)) = FlattenSeq(some) \o seq /\ FlattenSeq(some) \in Seq(S)
    BY <2>1, FlattenAppend DEF Row
  <2> QED  BY <2>1, <2>2 DEF Firsts, some, seq
<1> QED  BY <1>2, <1>3

\* What was read of the first options of a command.
Given(command, args, texts, flags, n) ==
  \A i \in 1..Len(command.options) :
    LET o == command.options[i]
    IN /\ texts[o.name] = IF i <= n /\ o.kind # "boolean" THEN TextsOf(args, o.name) ELSE <<>>
       /\ o.name \in flags <=> i <= n /\ o.kind = "boolean" /\ IsOn(command, args, o)

\* What is given of the first options, one option on.
LEMMA GivenOn ==
  ASSUME NEW command, NEW args, NEW texts, NEW flags, NEW n, NEW words, NEW positionals, NEW some
  PROVE  AreOptions(command.options) /\ Given(command, args, texts, flags, n) /\ n \in 0..(Len(command.options) - 1)
         /\ texts \in [Named(command) -> Seq(Texts)]
         => LET o == command.options[n + 1]
            IN Given(command, args, TextsWith(texts, args, o), FlagsWith(flags, command, args, o), n + 1)
<1>0. SUFFICES ASSUME AreOptions(command.options), Given(command, args, texts, flags, n),
                      n \in 0..(Len(command.options) - 1), texts \in [Named(command) -> Seq(Texts)]
               PROVE  LET o == command.options[n + 1]
                      IN Given(command, args, TextsWith(texts, args, o), FlagsWith(flags, command, args, o), n + 1)
  OBVIOUS
<1> DEFINE options == command.options
           N == Len(options)
           o == options[n + 1]
           t == TextsWith(texts, args, o)
           f == FlagsWith(flags, command, args, o)
<1>1. N \in Nat /\ DOMAIN options = 1..N /\ n + 1 \in 1..N /\ n \in Nat
  <2> DEFINE R == [name : STRING \ {""}, kind : {"boolean", "string"}, multiple : BOOLEAN]
  <2>1. options \in Seq(R)  BY <1>0 DEF AreOptions
  <2> HIDE DEF R
  <2>2. N \in Nat /\ DOMAIN options = 1..N  BY <2>1
  <2>3. n \in 0..(N - 1)  BY <1>0
  <2> HIDE DEF N
  <2> QED  BY <2>2, <2>3
<1>2. \A i \in 1..N : HasOption(command, options[i])  BY <1>0, <1>1 DEF HasOption, ToSet
<1>3. \A i \in 1..N : options[i].name \in Named(command)  BY <1>2, OptionIs
<1>4. \A i \in 1..N : options[i].name = o.name => i = n + 1  BY <1>0, <1>1 DEF AreOptions
<1>5. ASSUME NEW i \in 1..N
      PROVE  /\ texts[options[i].name] =
                  IF i <= n /\ options[i].kind # "boolean" THEN TextsOf(args, options[i].name) ELSE <<>>
             /\ options[i].name \in flags <=> i <= n /\ options[i].kind = "boolean" /\ IsOn(command, args, options[i])
  BY <1>0 DEF Given
<1>6. ASSUME NEW i \in 1..N, i # n + 1
      PROVE  t[options[i].name] = texts[options[i].name]
             /\ (options[i].name \in f <=> options[i].name \in flags)
  <2>1. options[i].name # o.name /\ options[i].name \in Named(command)  BY <1>3, <1>4, <1>6
  <2> DEFINE m == options[i].name
  <2> HIDE DEF m, options
  <2>2. t[m] = texts[m]  BY <1>0, <2>1 DEF TextsWith, Put, m
  <2>3. m \in f <=> m \in flags  BY <2>1 DEF FlagsWith, Raised, m
  <2> QED  BY <2>2, <2>3 DEF m
<1>7. /\ t[o.name] = IF o.kind # "boolean" THEN TextsOf(args, o.name) ELSE <<>>
      /\ o.name \in f <=> o.kind = "boolean" /\ IsOn(command, args, o)
  <2>1. texts[o.name] = <<>> /\ o.name \notin flags /\ o.name \in Named(command)  BY <1>1, <1>3, <1>5
  <2> HIDE DEF o
  <2>2. t[o.name] = IF o.kind # "boolean" THEN TextsOf(args, o.name) ELSE <<>>
    BY <1>0, <2>1 DEF TextsWith, Put
  <2>3. o.name \in f <=> o.kind = "boolean" /\ IsOn(command, args, o)
    BY <2>1 DEF FlagsWith, Raised
  <2> QED  BY <2>2, <2>3
<1> HIDE DEF t, f
<1>8. ASSUME NEW i \in 1..N
      PROVE  /\ t[options[i].name] =
                  IF i <= n + 1 /\ options[i].kind # "boolean" THEN TextsOf(args, options[i].name) ELSE <<>>
             /\ options[i].name \in f <=>
                  i <= n + 1 /\ options[i].kind = "boolean" /\ IsOn(command, args, options[i])
  <2>1. CASE i = n + 1  BY <1>1, <1>7, <2>1
  <2>2. CASE i # n + 1
    <3>1. i <= n + 1 <=> i <= n  BY <1>1, <2>2
    <3> QED  BY <1>5, <1>6, <2>2, <3>1
  <2> QED  BY <2>1, <2>2
<1> QED  BY <1>8 DEF Given, t, f

\* The words of the options of a call, and what is read of them.
OptionWords(command, args) ==
  FlattenSeq([i \in DOMAIN command.options |-> FlagsOf(command, args, command.options[i])])
Gives(command, args, texts, flags) ==
  \A o \in ToSet(command.options) :
    IF o.kind = "boolean" THEN o.name \in flags <=> IsOn(command, args, o) ELSE texts[o.name] = TextsOf(args, o.name)

\* Every option is read, as it was given.
LEMMA OptionsAreRead ==
  ASSUME NEW command, NEW positionals, NEW args
  PROVE  AreOptions(command.options) /\ (\A o \in ToSet(command.options) : Fits(args, o))
         => \E texts, flags : HasRead(command, positionals, OptionWords(command, args), texts, flags, <<>>)
                              /\ Gives(command, args, texts, flags)
<1>0. SUFFICES ASSUME AreOptions(command.options), \A o \in ToSet(command.options) : Fits(args, o)
               PROVE  \E texts, flags : HasRead(command, positionals, OptionWords(command, args), texts, flags, <<>>)
                                        /\ Gives(command, args, texts, flags)
  OBVIOUS
<1> DEFINE options == command.options
           N == Len(options)
           seqs == [i \in 1..N |-> FlagsOf(command, args, options[i])]
           Is(n) == \E texts, flags : HasRead(command, positionals, Firsts(seqs, n), texts, flags, <<>>)
                                     /\ Given(command, args, texts, flags, n)
           T == {n \in Nat : n <= N => Is(n)}
<1>1. N \in Nat /\ DOMAIN options = 1..N
  <2> DEFINE R == [name : STRING \ {""}, kind : {"boolean", "string"}, multiple : BOOLEAN]
  <2>1. options \in Seq(R)  BY <1>0 DEF AreOptions
  <2> HIDE DEF R
  <2> QED  BY <2>1
<1>2. \A i \in 1..N : HasOption(command, options[i]) /\ Fits(args, options[i])
      /\ options[i] \in ToSet(options)
  BY <1>0, <1>1 DEF HasOption, ToSet
<1>3. seqs \in Seq(Seq(Words)) /\ Len(seqs) = N /\ \A i \in 1..N : seqs[i] = FlagsOf(command, args, options[i])
  <2> DEFINE Row == Seq(Words)
  <2>1. \A i \in 1..N : FlagsOf(command, args, options[i]) \in Row  BY <1>2, FlagWords
  <2> HIDE DEF Row, options
  <2>2. seqs \in [1..N -> Row] /\ \A i \in 1..N : seqs[i] = FlagsOf(command, args, options[i])  BY <2>1
  <2> HIDE DEF N, seqs
  <2>3. seqs \in Seq(Row) /\ Len(seqs) = N  BY <1>1, <2>2
  <2> QED  BY <2>2, <2>3 DEF Row
<1>4. FlattenSeq([i \in DOMAIN command.options |-> FlagsOf(command, args, command.options[i])]) = FlattenSeq(seqs)
  BY <1>1
<1> HIDE DEF seqs, options
<1>5. 0 \in T
  <2> DEFINE texts == [name \in Named(command) |-> <<>>]
  <2>1. HasRead(command, positionals, Firsts(seqs, 0), texts, {}, <<>>)
    <3>1. Firsts(seqs, 0) = <<>>  BY <1>3, FirstsAre
    <3>2. HasRead(command, positionals, <<>>, texts, {}, <<>>)  BY NothingIsRead
    <3> QED  BY <3>1, <3>2
  <2>2. Given(command, args, texts, {}, 0)
    <3>1. \A i \in 1..N : ~(i <= 0) /\ options[i].name \in Named(command)
      <4>1. \A i \in 1..N : options[i].name \in Named(command)  BY <1>2, OptionIs
      <4> QED  BY <1>1, <4>1
    <3> QED  BY <3>1 DEF Given, options
  <2> QED  BY <2>1, <2>2
<1>6. ASSUME NEW n \in Nat, n \in T PROVE n + 1 \in T
  <2> SUFFICES ASSUME n + 1 <= N PROVE Is(n + 1)  OBVIOUS
  <2>1. n <= N /\ n \in 0..(N - 1) /\ n + 1 \in 1..N  BY <1>1
  <2>2. PICK texts, flags : HasRead(command, positionals, Firsts(seqs, n), texts, flags, <<>>)
                            /\ Given(command, args, texts, flags, n)
    BY <1>6, <2>1
  <2> DEFINE o == options[n + 1]
             t == TextsWith(texts, args, o)
             f == FlagsWith(flags, command, args, o)
  <2>3. HasOption(command, o) /\ Fits(args, o)  BY <1>2, <2>1
  <2>4. texts[o.name] = <<>>
    <3>1. ~(n + 1 <= n)  BY <2>1
    <3> QED  BY <2>1, <2>2, <3>1 DEF Given, options
  <2>5. Firsts(seqs, n + 1) = Firsts(seqs, n) \o FlagsOf(command, args, o)  BY <1>3, <2>1, FirstsAre
  <2>6. Given(command, args, t, f, n + 1)
    <3>1. texts \in [Named(command) -> Seq(Texts)]  BY <2>2 DEF HasRead
    <3>2. Given(command, args, TextsWith(texts, args, command.options[n + 1]),
                FlagsWith(flags, command, args, command.options[n + 1]), n + 1)
      BY <1>0, <2>1, <2>2, <3>1, GivenOn DEF options
    <3> QED  BY <3>2 DEF options
  <2> HIDE DEF o
  <2>7. HasRead(command, positionals, Firsts(seqs, n) \o FlagsOf(command, args, o), t, f, <<>>)
    BY <2>2, <2>3, <2>4, GivenIsRead
  <2> QED  BY <2>5, <2>6, <2>7
<1>7. Is(N)
  <2> HIDE DEF T
  <2>1. N \in T  BY <1>1, <1>5, <1>6, Counting
  <2> QED  BY <1>1, <2>1 DEF T
<1>8. PICK texts, flags : HasRead(command, positionals, Firsts(seqs, N), texts, flags, <<>>)
                          /\ Given(command, args, texts, flags, N)
  BY <1>7
<1>9. Firsts(seqs, N) = FlattenSeq(seqs)  BY <1>3, FirstsAre
<1>10. ASSUME NEW o \in ToSet(options)
       PROVE  IF o.kind = "boolean" THEN o.name \in flags <=> IsOn(command, args, o)
              ELSE texts[o.name] = TextsOf(args, o.name)
  <2>1. PICK i \in 1..N : o = options[i]  BY <1>1 DEF ToSet
  <2>2. i <= N  BY <1>1
  <2> QED  BY <1>8, <2>1, <2>2 DEF Given, options
<1>11. HasRead(command, positionals, OptionWords(command, args), texts, flags, <<>>)
  BY <1>4, <1>8, <1>9 DEF OptionWords, options
<1>12. Gives(command, args, texts, flags)  BY <1>10 DEF Gives, options
<1> QED  BY <1>11, <1>12

\* Every positional is read, as it was given.
LEMMA PositionalsAreRead ==
  ASSUME NEW command, NEW places, NEW P, NEW args, NEW words, NEW texts, NEW flags, NEW takes
  PROVE  /\ places \in Seq(P) /\ takes = (places # <<>>)
         /\ \A i \in DOMAIN places : TextsOf(args, places[i].name) \in Seq(PlainTexts)
         /\ HasRead(command, takes, words, texts, flags, <<>>)
         => HasRead(command, takes, words \o FlattenSeq([i \in DOMAIN places |-> WordsOf(args, places[i])]),
                    texts, flags, FlattenSeq([i \in DOMAIN places |-> TextsOf(args, places[i].name)]))
<1>0. SUFFICES ASSUME places \in Seq(P), takes = (places # <<>>),
                      \A i \in DOMAIN places : TextsOf(args, places[i].name) \in Seq(PlainTexts),
                      HasRead(command, takes, words, texts, flags, <<>>)
               PROVE  HasRead(command, takes, words \o FlattenSeq([i \in DOMAIN places |-> WordsOf(args, places[i])]),
                              texts, flags, FlattenSeq([i \in DOMAIN places |-> TextsOf(args, places[i].name)]))
  OBVIOUS
<1> DEFINE N == Len(places)
           TextsAt(i) == TextsOf(args, places[i].name)
           seqs == [i \in 1..N |-> WordsOf(args, places[i])]
           lists == [i \in 1..N |-> TextsAt(i)]
           Is(n) == HasRead(command, takes, words \o Firsts(seqs, n), texts, flags, Firsts(lists, n))
           T == {n \in Nat : n <= N => Is(n)}
<1>1. N \in Nat /\ DOMAIN places = 1..N /\ words \in Seq(Words)  BY <1>0 DEF HasRead
<1>2. \A i \in 1..N : TextsAt(i) \in Seq(PlainTexts) /\ TextsAt(i) \in Seq(Texts)
  <2>1. PlainTexts \subseteq Texts  BY DEF PlainTexts
  <2> TAKE i \in 1..N
  <2>2. TextsAt(i) \in Seq(PlainTexts)  BY <1>0, <1>1
  <2> HIDE DEF TextsAt
  <2> QED  BY <2>1, <2>2
<1>3. \A i \in 1..N : WordsOf(args, places[i]) = Plains(TextsAt(i))  BY DEF WordsOf, Plains
<1>3a. \A i \in 1..N : Plains(TextsAt(i)) \in Seq(Words)
  <2> TAKE i \in 1..N
  <2> DEFINE s == TextsAt(i)
  <2>1. s \in Seq(Texts)  BY <1>2
  <2> HIDE DEF s
  <2>2. Plains(s) \in Seq(Words)
    <3>1. DOMAIN s = 1..Len(s) /\ Len(s) \in Nat /\ \A k \in 1..Len(s) : PlainWord(s[k]) \in Words
      BY <2>1 DEF Words
    <3>2. Plains(s) \in [1..Len(s) -> Words]  BY <3>1 DEF Plains
    <3> QED  BY <3>1, <3>2
  <2> QED  BY <2>2 DEF s
<1> HIDE DEF TextsAt
<1>4. seqs \in Seq(Seq(Words)) /\ Len(seqs) = N /\ \A i \in 1..N : seqs[i] = Plains(TextsAt(i))
  <2> DEFINE Row == Seq(Words)
  <2>1. \A i \in 1..N : WordsOf(args, places[i]) \in Row  BY <1>3, <1>3a
  <2> HIDE DEF Row
  <2>2. seqs \in [1..N -> Row] /\ \A i \in 1..N : seqs[i] = Plains(TextsAt(i))  BY <1>3, <2>1
  <2> HIDE DEF N, seqs
  <2>3. seqs \in Seq(Row) /\ Len(seqs) = N  BY <1>1, <2>2
  <2> QED  BY <2>2, <2>3 DEF Row
<1>5. lists \in Seq(Seq(Texts)) /\ Len(lists) = N /\ \A i \in 1..N : lists[i] = TextsAt(i)
  <2> DEFINE Row == Seq(Texts)
  <2>1. \A i \in 1..N : TextsAt(i) \in Row  BY <1>2
  <2> HIDE DEF Row
  <2>2. lists \in [1..N -> Row] /\ \A i \in 1..N : lists[i] = TextsAt(i)  BY <2>1
  <2> HIDE DEF N, lists
  <2>3. lists \in Seq(Row) /\ Len(lists) = N  BY <1>1, <2>2
  <2> QED  BY <2>2, <2>3 DEF Row
<1>6. /\ [i \in DOMAIN places |-> WordsOf(args, places[i])] = seqs
      /\ [i \in DOMAIN places |-> TextsOf(args, places[i].name)] = lists
  BY <1>1 DEF TextsAt
<1> HIDE DEF seqs, lists
<1>7. 0 \in T
  <2>1. Firsts(seqs, 0) = <<>> /\ Firsts(lists, 0) = <<>>  BY <1>4, <1>5, FirstsAre
  <2>2. words \o <<>> = words  BY <1>1
  <2> QED  BY <1>0, <2>1, <2>2
<1>8. ASSUME NEW n \in Nat, n \in T PROVE n + 1 \in T
  <2> SUFFICES ASSUME n + 1 <= N PROVE Is(n + 1)  OBVIOUS
  <2>1. n <= N /\ n \in 0..(N - 1) /\ n + 1 \in 1..N  BY <1>1
  <2>2. HasRead(command, takes, words \o Firsts(seqs, n), texts, flags, Firsts(lists, n))  BY <1>8, <2>1
  <2> DEFINE a == Firsts(seqs, n)
             q == Firsts(lists, n)
             s == TextsAt(n + 1)
  <2>3. a \in Seq(Words) /\ Firsts(seqs, n + 1) = a \o Plains(s)  BY <1>4, <2>1, FirstsAre
  <2>4. q \in Seq(Texts) /\ Firsts(lists, n + 1) = q \o s  BY <1>5, <2>1, FirstsAre
  <2>5. s \in Seq(PlainTexts) /\ Plains(s) \in Seq(Words)  BY <1>2, <1>3a, <2>1
  <2>6. takes = TRUE
    <3>1. places # <<>>  BY <1>0, <2>1
    <3> QED  BY <1>0, <3>1
  <2> HIDE DEF a, q, s
  <2>7. HasRead(command, takes, (words \o a) \o Plains(s), texts, flags, q \o s)
    <3> DEFINE all == words \o a
    <3>1. HasRead(command, takes, all, texts, flags, q)  BY <2>2 DEF a, q
    <3> HIDE DEF all
    <3>2. HasRead(command, takes, all \o Plains(s), texts, flags, q \o s)  BY <2>4, <2>5, <2>6, <3>1, PlainsAreRead
    <3> QED  BY <3>2 DEF all
  <2>8. (words \o a) \o Plains(s) = words \o (a \o Plains(s))
    <3> DEFINE c == Plains(s)
    <3>1. c \in Seq(Words)  BY <2>5
    <3> HIDE DEF c
    <3>2. words \in Seq(Words) /\ a \in Seq(Words)  BY <1>1, <2>3
    <3>3. (words \o a) \o c = words \o (a \o c)  BY <3>1, <3>2, ConcatAssociative
    <3> QED  BY <3>3 DEF c
  <2>9. HasRead(command, takes, words \o Firsts(seqs, n + 1), texts, flags, Firsts(lists, n + 1))
    BY <2>3, <2>4, <2>7, <2>8
  <2> QED  BY <2>9
<1>9. Is(N)
  <2> HIDE DEF T
  <2>1. N \in T  BY <1>1, <1>7, <1>8, Counting
  <2> QED  BY <1>1, <2>1 DEF T
<1>10. Firsts(seqs, N) = FlattenSeq(seqs) /\ Firsts(lists, N) = FlattenSeq(lists)
  BY <1>4, <1>5, FirstsAre
<1> QED  BY <1>6, <1>9, <1>10

-----------------------------------------------------------------------------
(* The call is carried (mcp/tools.rs) *)

\* What is wrong with the options and the positionals of a call.
WrongOptions(tool, args) ==
  {i \in DOMAIN tool.command.options :
     tool.command.options[i].name \in DOMAIN args
     /\ args[tool.command.options[i].name].type # TypeOf(tool.command.options[i])}
BadPlaces(tool, args) == {i \in DOMAIN tool.positionals : PositionalError(tool, args, i) # ""}

\* The reasons of a refusal.
IsRefused(tool, args) ==
  \/ ~(DOMAIN args \subseteq ToSet(tool.properties))
  \/ ~(ToSet(tool.required) \subseteq DOMAIN args)
  \/ \E key \in DOMAIN args : "nul" \in ToSet(args[key].texts)
  \/ WrongOptions(tool, args) # {}
  \/ BadPlaces(tool, args) # {}

\* The positionals of a tool.
LEMMA PlacesAre ==
  ASSUME NEW tool, HasOptions(tool)
  PROVE  /\ tool.positionals \in Seq([name : STRING, required : BOOLEAN, words : BOOLEAN])
         /\ DOMAIN tool.positionals = 1..Len(tool.positionals) /\ Len(tool.positionals) \in Nat
         /\ DOMAIN tool.positionals \subseteq Nat
<1> DEFINE places == tool.positionals
           R == [name : STRING, required : BOOLEAN, words : BOOLEAN]
<1>1. places \in Seq(R)  BY DEF HasOptions
<1> HIDE DEF places, R
<1>2. DOMAIN places = 1..Len(places) /\ Len(places) \in Nat /\ DOMAIN places \subseteq Nat  BY <1>1
<1> QED  BY <1>1, <1>2 DEF places, R

\* A call is refused for these reasons, and one that is not has these words.
LEMMA ArgvIs ==
  ASSUME NEW tool, HasOptions(tool), NEW args
  PROVE  /\ ArgvFor(tool, args).error # "" <=> IsRefused(tool, args)
         /\ ~IsRefused(tool, args) =>
              ArgvFor(tool, args).value.words =
                FlattenSeq([i \in DOMAIN tool.command.options |-> FlagsOf(tool.command, args, tool.command.options[i])])
                \o FlattenSeq([i \in DOMAIN tool.positionals |-> WordsOf(args, tool.positionals[i])])
<1> DEFINE bad == BadPlaces(tool, args)
           argv == ArgvFor(tool, args)
           words == FlattenSeq([i \in DOMAIN tool.command.options |->
                                  FlagsOf(tool.command, args, tool.command.options[i])])
                    \o FlattenSeq([i \in DOMAIN tool.positionals |-> WordsOf(args, tool.positionals[i])])
<1>1. bad \subseteq Nat  BY PlacesAre DEF BadPlaces
<1>2. bad # {} => PositionalError(tool, args, Min(bad)) # ""
  <2> SUFFICES ASSUME bad # {} PROVE PositionalError(tool, args, Min(bad)) # ""  OBVIOUS
  <2> HIDE DEF bad
  <2>1. Min(bad) \in bad  BY <1>1, LeastIsMin
  <2> QED  BY <2>1 DEF bad, BadPlaces
<1>3. argv = IF ~(DOMAIN args \subseteq ToSet(tool.properties)) THEN Error("unknown")
             ELSE IF ~(ToSet(tool.required) \subseteq DOMAIN args) THEN Error("missing")
             ELSE IF \E key \in DOMAIN args : "nul" \in ToSet(args[key].texts) THEN Error("NUL")
             ELSE IF WrongOptions(tool, args) # {} THEN Error("type")
             ELSE IF bad # {} THEN Error(PositionalError(tool, args, Min(bad)))
             ELSE Ok([path |-> tool.command.path, words |-> words])
  BY DEF ArgvFor, WrongOptions, BadPlaces
<1> HIDE DEF argv, words, bad
<1>4. CASE IsRefused(tool, args)
  <2>1. argv.error # ""  BY <1>2, <1>3, <1>4 DEF IsRefused, Error, bad
  <2> QED  BY <1>4, <2>1 DEF argv
<1>5. CASE ~IsRefused(tool, args)
  <2>1. argv = Ok([path |-> tool.command.path, words |-> words])  BY <1>3, <1>5 DEF IsRefused, bad
  <2>2. argv.error = "" /\ argv.value.words = words  BY <2>1 DEF Ok
  <2> QED  BY <1>5, <2>2 DEF argv, words
<1> QED  BY <1>4, <1>5

\* The texts of a call are sequences of texts, of a text only one.
LEMMA CallTexts ==
  ASSUME NEW args, IsCall(args), NEW key \in DOMAIN args
  PROVE  /\ args[key].texts \in Seq(Texts) /\ args[key].on \in BOOLEAN
         /\ args[key].type = "text" => Len(args[key].texts) = 1
<1> DEFINE Q == Seq(DOMAIN Shapes)
           K == {"text", "list", "boolean", "other"}
           A == [type : K, texts : Q, on : BOOLEAN]
<1>1. args \in [DOMAIN args -> A] /\ (args[key].type = "text" => Len(args[key].texts) = 1)  BY DEF IsCall
<1>2. args[key] \in A
  <2> HIDE DEF A
  <2> QED  BY <1>1
<1> HIDE DEF Q, K
<1>3. args[key].texts \in Q /\ args[key].on \in BOOLEAN  BY <1>2
<1> QED  BY <1>1, <1>3 DEF Q, Texts

\* A sequence of one is of its one.
LEMMA OneText ==
  ASSUME NEW S, NEW s \in Seq(S), Len(s) = 1 PROVE \E x \in S : s = <<x>>
<1> DEFINE x == s[1]
<1>1. x \in S  OBVIOUS
<1> HIDE DEF x
<1>2. <<x>> \in Seq(S) /\ Len(<<x>>) = 1 /\ <<x>>[1] = x  BY <1>1
<1>3. \A k \in 1..Len(s) : s[k] = <<x>>[k]  BY <1>2 DEF x
<1>4. s = <<x>>  BY <1>2, <1>3, SeqEqual
<1> QED  BY <1>1, <1>4

\* The positionals that are given fit.
PlaceFits(tool, args, i) ==
  tool.positionals[i].name \in DOMAIN args =>
    /\ \A j \in 1..(i - 1) : tool.positionals[j].name \in DOMAIN args
    /\ args[tool.positionals[i].name].type = (IF tool.positionals[i].words THEN "list" ELSE "text")
    /\ \A text \in ToSet(args[tool.positionals[i].name].texts) : ~StartsWithDash(text)

\* A positional is in error exactly when it does not fit.
LEMMA PlaceErrs ==
  ASSUME NEW tool, NEW args, NEW i PROVE PositionalError(tool, args, i) = "" <=> PlaceFits(tool, args, i)
<1> DEFINE p == tool.positionals[i]
           isGiven == p.name \in DOMAIN args
           gap == \E j \in 1..(i - 1) : tool.positionals[j].name \notin DOMAIN args
           typed == args[p.name].type = (IF p.words THEN "list" ELSE "text")
           dashed == \E text \in ToSet(args[p.name].texts) : StartsWithDash(text)
<1>1. PositionalError(tool, args, i) =
        IF ~isGiven THEN "" ELSE IF gap THEN "needs" ELSE IF ~typed THEN "type" ELSE IF dashed THEN "dash" ELSE ""
  BY DEF PositionalError
<1>2. PlaceFits(tool, args, i) <=> (isGiven => ~gap /\ typed /\ ~dashed)  BY DEF PlaceFits
<1> HIDE DEF isGiven, gap, typed, dashed
<1> QED  BY <1>1, <1>2

\* What a call that is not refused gives fits its options and positionals.
LEMMA CallFits ==
  ASSUME NEW tool, HasOptions(tool), NEW args, IsCall(args), ~IsRefused(tool, args)
  PROVE  /\ \A o \in ToSet(tool.command.options) : Fits(args, o)
         /\ \A i \in DOMAIN tool.positionals : TextsOf(args, tool.positionals[i].name) \in Seq(PlainTexts)
<1>1. ASSUME NEW key PROVE TextsOf(args, key) \in Seq(Texts)
  <2>1. <<>> \in Seq(Texts)  OBVIOUS
  <2> QED  BY <2>1, CallTexts DEF TextsOf
<1>2. ASSUME NEW o \in ToSet(tool.command.options) PROVE Fits(args, o)
  <2>1. PICK i \in DOMAIN tool.command.options : o = tool.command.options[i]  BY DEF ToSet
  <2> DEFINE s == TextsOf(args, o.name)
  <2>2. ASSUME o.kind # "boolean", ~o.multiple, o.name \in DOMAIN args
        PROVE  \E text \in Texts : s = <<text>>
    <3>1. args[o.name].type = "text"  BY <2>1, <2>2 DEF IsRefused, WrongOptions, TypeOf
    <3>2. Len(args[o.name].texts) = 1 /\ args[o.name].texts = s  BY <2>2, <3>1, CallTexts DEF TextsOf
    <3>3. s \in Seq(Texts)  BY <1>1
    <3> HIDE DEF s
    <3> QED  BY <3>2, <3>3, OneText
  <2>3. o.name \notin DOMAIN args => s = <<>>  BY DEF TextsOf
  <2> QED  BY <1>1, <2>2, <2>3 DEF Fits
<1>3. ASSUME NEW i \in DOMAIN tool.positionals PROVE TextsOf(args, tool.positionals[i].name) \in Seq(PlainTexts)
  <2> DEFINE key == tool.positionals[i].name
             s == TextsOf(args, key)
  <2>1. PlaceFits(tool, args, i)  BY PlaceErrs DEF IsRefused, BadPlaces
  <2>2. CASE key \notin DOMAIN args
    <3>1. s = <<>>  BY <2>2 DEF TextsOf
    <3>2. <<>> \in Seq(PlainTexts)  OBVIOUS
    <3> QED  BY <3>1, <3>2
  <2>3. CASE key \in DOMAIN args
    <3>1. s \in Seq(Texts) /\ s = args[key].texts  BY <1>1, <2>3 DEF TextsOf
    <3>2. \A text \in ToSet(s) : ~StartsWithDash(text)  BY <2>1, <2>3, <3>1 DEF PlaceFits
    <3> HIDE DEF s
    <3>3. \A k \in 1..Len(s) : s[k] \in ToSet(s) /\ s[k] \in Texts  BY <3>1 DEF ToSet
    <3>4. \A k \in 1..Len(s) : s[k] \in PlainTexts
      BY <3>2, <3>3 DEF PlainTexts, IsPlain, StartsWithDash
    <3>5. Len(s) \in Nat /\ s \in [1..Len(s) -> PlainTexts]  BY <3>1, <3>4
    <3>6. s \in Seq(PlainTexts)  BY <3>5
    <3> QED  BY <3>6 DEF s
  <2> QED  BY <2>2, <2>3
<1> QED  BY <1>2, <1>3

\* The parts of a call that is carried.
ReadOf(tool, args) == ReadWords(tool.command, tool.positionals # <<>>, ArgvFor(tool, args).value.words)
ReadsOptions(tool, args) ==
  \A o \in ToSet(tool.command.options) :
    IF o.kind = "boolean"
      THEN o.name \in ReadOf(tool, args).flags <=>
             IF o.name \in DOMAIN args THEN args[o.name].on
             ELSE \E d \in ToSet(tool.command.defaults) : d.name = o.name /\ d.value
    ELSE ReadOf(tool, args).texts[o.name] = TextsOf(args, o.name)
ReadsPlaces(tool, args) ==
  ReadOf(tool, args).positionals = FlattenSeq([i \in DOMAIN tool.positionals |-> TextsOf(args, tool.positionals[i].name)])

\* The reasons of a refusal, by the keys.
IsTypedFor(tool, args, key) ==
  /\ \A p \in ToSet(tool.positionals) : p.name = key => args[key].type = (IF p.words THEN "list" ELSE "text")
  /\ \A o \in ToSet(tool.command.options) : o.name = key => args[key].type = TypeOf(o)
HasGap(tool, args) ==
  \E i, j \in DOMAIN tool.positionals :
    i < j /\ tool.positionals[i].name \notin DOMAIN args /\ tool.positionals[j].name \in DOMAIN args
HasDash(tool, args) ==
  \E i \in DOMAIN tool.positionals : \E text \in ToSet(TextsOf(args, tool.positionals[i].name)) : StartsWithDash(text)
IsWrong(tool, args) ==
  \/ \E key \in DOMAIN args : key \notin ToSet(tool.properties)
  \/ \E key \in ToSet(tool.required) : key \notin DOMAIN args
  \/ \E key \in DOMAIN args : ~IsTypedFor(tool, args, key) \/ "nul" \in ToSet(args[key].texts)
  \/ HasGap(tool, args)
  \/ HasDash(tool, args)

\* CallsAreCarried, by its parts.
LEMMA CarriedIs ==
  ASSUME NEW tool, NEW args
  PROVE  CallsAreCarried(tool, args) <=>
           /\ ArgvFor(tool, args).error = "" =>
                ReadOf(tool, args).error = "" /\ ReadsOptions(tool, args) /\ ReadsPlaces(tool, args)
           /\ ArgvFor(tool, args).error # "" <=> IsWrong(tool, args)
BY DEF CallsAreCarried, ReadOf, ReadsOptions, ReadsPlaces, IsTypedFor, HasGap, HasDash, IsWrong

\* A type is wrong of an option or of a positional.
LEMMA TypesAre ==
  ASSUME NEW tool, NEW args
  PROVE  (\E key \in DOMAIN args : ~IsTypedFor(tool, args, key)) <=>
           \/ WrongOptions(tool, args) # {}
           \/ \E i \in DOMAIN tool.positionals :
                /\ tool.positionals[i].name \in DOMAIN args
                /\ args[tool.positionals[i].name].type # (IF tool.positionals[i].words THEN "list" ELSE "text")
<1> DEFINE options == tool.command.options
           places == tool.positionals
           wanted(p) == IF p.words THEN "list" ELSE "text"
<1>1. ASSUME NEW key \in DOMAIN args, ~IsTypedFor(tool, args, key)
      PROVE  \/ WrongOptions(tool, args) # {}
             \/ \E i \in DOMAIN places : places[i].name \in DOMAIN args /\ args[places[i].name].type # wanted(places[i])
  <2>1. CASE \E p \in ToSet(places) : p.name = key /\ args[key].type # wanted(p)
    <3>1. PICK i \in DOMAIN places : places[i].name = key /\ args[key].type # wanted(places[i])  BY <2>1 DEF ToSet
    <3> QED  BY <3>1
  <2>2. CASE \E o \in ToSet(options) : o.name = key /\ args[key].type # TypeOf(o)
    <3>1. PICK i \in DOMAIN options : options[i].name = key /\ args[key].type # TypeOf(options[i])  BY <2>2 DEF ToSet
    <3>2. i \in WrongOptions(tool, args)  BY <3>1 DEF WrongOptions
    <3> QED  BY <3>2
  <2> QED  BY <1>1, <2>1, <2>2 DEF IsTypedFor
<1>2. ASSUME NEW i \in WrongOptions(tool, args) PROVE \E key \in DOMAIN args : ~IsTypedFor(tool, args, key)
  <2> DEFINE o == options[i]
  <2>1. i \in DOMAIN options /\ o.name \in DOMAIN args /\ args[o.name].type # TypeOf(o)  BY DEF WrongOptions
  <2>2. o \in ToSet(options)  BY <2>1 DEF ToSet
  <2>3. ~IsTypedFor(tool, args, o.name)  BY <2>1, <2>2 DEF IsTypedFor
  <2> QED  BY <2>1, <2>3
<1>3. ASSUME NEW i \in DOMAIN places, places[i].name \in DOMAIN args, args[places[i].name].type # wanted(places[i])
      PROVE  \E key \in DOMAIN args : ~IsTypedFor(tool, args, key)
  <2>1. places[i] \in ToSet(places)  BY DEF ToSet
  <2>2. ~IsTypedFor(tool, args, places[i].name)  BY <1>3, <2>1 DEF IsTypedFor
  <2> QED  BY <1>3, <2>2
<1> QED  BY <1>1, <1>2, <1>3

\* A positional is wrong by its type, by one before it that is missing, or by a dash.
LEMMA PlacesTell ==
  ASSUME NEW tool, HasOptions(tool), NEW args
  PROVE  BadPlaces(tool, args) # {} <=>
           \/ \E i \in DOMAIN tool.positionals :
                /\ tool.positionals[i].name \in DOMAIN args
                /\ args[tool.positionals[i].name].type # (IF tool.positionals[i].words THEN "list" ELSE "text")
           \/ HasGap(tool, args)
           \/ HasDash(tool, args)
<1> DEFINE places == tool.positionals
           Wanted(p) == IF p.words THEN "list" ELSE "text"
           Untyped == \E i \in DOMAIN places :
                        places[i].name \in DOMAIN args /\ args[places[i].name].type # Wanted(places[i])
<1>1. \A i \in DOMAIN places : i \in BadPlaces(tool, args) <=> ~PlaceFits(tool, args, i)  BY PlaceErrs DEF BadPlaces
<1>2. \A i \in DOMAIN places : i \in Nat /\ i <= Len(places)  BY PlacesAre
<1>3. DOMAIN places = 1..Len(places) /\ Len(places) \in Nat  BY PlacesAre
<1>4. ASSUME NEW i \in DOMAIN places, ~PlaceFits(tool, args, i) PROVE Untyped \/ HasGap(tool, args) \/ HasDash(tool, args)
  <2>1. places[i].name \in DOMAIN args  BY <1>4 DEF PlaceFits
  <2>2. ASSUME NEW j \in 1..(i - 1), places[j].name \notin DOMAIN args PROVE HasGap(tool, args)
    <3>1. j \in DOMAIN places /\ j < i  BY <1>2, <1>3
    <3> QED  BY <2>1, <2>2, <3>1 DEF HasGap
  <2>3. ASSUME NEW text \in ToSet(args[places[i].name].texts), StartsWithDash(text) PROVE HasDash(tool, args)
    BY <2>1, <2>3 DEF HasDash, TextsOf
  <2> QED  BY <1>4, <2>1, <2>2, <2>3 DEF PlaceFits
<1>5. ASSUME Untyped PROVE \E i \in DOMAIN places : ~PlaceFits(tool, args, i)  BY <1>5 DEF PlaceFits
<1>6. ASSUME HasGap(tool, args) PROVE \E i \in DOMAIN places : ~PlaceFits(tool, args, i)
  <2>1. PICK i, j \in DOMAIN places : i < j /\ places[i].name \notin DOMAIN args /\ places[j].name \in DOMAIN args
    BY <1>6 DEF HasGap
  <2>2. i \in 1..(j - 1)  BY <1>3, <2>1
  <2>3. ~PlaceFits(tool, args, j)  BY <2>1, <2>2 DEF PlaceFits
  <2> QED  BY <2>3
<1>7. ASSUME HasDash(tool, args) PROVE \E i \in DOMAIN places : ~PlaceFits(tool, args, i)
  <2>1. PICK i \in DOMAIN places : \E text \in ToSet(TextsOf(args, places[i].name)) : StartsWithDash(text)
    BY <1>7 DEF HasDash
  <2>2. places[i].name \in DOMAIN args
    <3>1. ToSet(<<>>) = {}  BY DEF ToSet
    <3> QED  BY <2>1, <3>1 DEF TextsOf
  <2>3. ~PlaceFits(tool, args, i)  BY <2>1, <2>2 DEF PlaceFits, TextsOf
  <2> QED  BY <2>3
<1>8. \A i : i \in BadPlaces(tool, args) => i \in DOMAIN places  BY DEF BadPlaces
<1> QED  BY <1>1, <1>4, <1>5, <1>6, <1>7, <1>8

\* The reasons of the code are those of the property.
LEMMA RefusedIs ==
  ASSUME NEW tool, HasOptions(tool), NEW args
  PROVE  IsRefused(tool, args) <=> IsWrong(tool, args)
<1> DEFINE Nul == \E key \in DOMAIN args : "nul" \in ToSet(args[key].texts)
           Untyped == \E key \in DOMAIN args : ~IsTypedFor(tool, args, key)
           Unknown == \E key \in DOMAIN args : key \notin ToSet(tool.properties)
           Missing == \E key \in ToSet(tool.required) : key \notin DOMAIN args
<1>1. IsRefused(tool, args) <=>
        Unknown \/ Missing \/ Nul \/ WrongOptions(tool, args) # {} \/ BadPlaces(tool, args) # {}
  BY DEF IsRefused
<1>2. IsWrong(tool, args) <=> Unknown \/ Missing \/ Untyped \/ Nul \/ HasGap(tool, args) \/ HasDash(tool, args)
  BY DEF IsWrong
<1>3. WrongOptions(tool, args) # {} \/ BadPlaces(tool, args) # {} <=>
        Untyped \/ HasGap(tool, args) \/ HasDash(tool, args)
  BY TypesAre, PlacesTell
<1> HIDE DEF Nul, Untyped, Unknown, Missing
<1> QED  BY <1>1, <1>2, <1>3

\* A reader that nothing went wrong for.
HasAll(parsed, texts, flags, some) ==
  /\ parsed.error = "" /\ parsed.wants = ""
  /\ parsed.texts = texts /\ parsed.flags = flags /\ parsed.positionals = some

\* Its parts.
LEMMA HasIs ==
  ASSUME NEW texts, NEW flags, NEW some
  PROVE  HasAll(Has(texts, flags, some), texts, flags, some)
<1> DEFINE e == ""
           no == FALSE
           has == Parsed(e, texts, flags, some, e, no)
<1>1. Has(texts, flags, some) = has  BY DEF Has
<1> HIDE DEF e, no
<1>2. has.error = e /\ has.texts = texts /\ has.flags = flags /\ has.positionals = some /\ has.wants = e
  BY DEF Parsed
<1> HIDE DEF has
<1>3. e = ""  BY DEF e
<1> QED  BY <1>1, <1>2, <1>3 DEF HasAll

\* What the verb reads of a call that is not refused.
LEMMA CallIsRead ==
  ASSUME NEW tool, HasOptions(tool), NEW args, IsCall(args), ~IsRefused(tool, args)
  PROVE  ReadOf(tool, args).error = "" /\ ReadsOptions(tool, args) /\ ReadsPlaces(tool, args)
<1> DEFINE command == tool.command
           places == tool.positionals
           takes == places # <<>>
           front == FlattenSeq([i \in DOMAIN command.options |-> FlagsOf(command, args, command.options[i])])
           back == FlattenSeq([i \in DOMAIN places |-> WordsOf(args, places[i])])
           some == FlattenSeq([i \in DOMAIN places |-> TextsOf(args, places[i].name)])
<1>1. AreOptions(command.options)  BY DEF HasOptions, AreOptions
<1>2. /\ \A o \in ToSet(command.options) : Fits(args, o)
      /\ \A i \in DOMAIN places : TextsOf(args, places[i].name) \in Seq(PlainTexts)
  BY CallFits
<1>3. PICK texts, flags :
        /\ HasRead(command, takes, front, texts, flags, <<>>)
        /\ Gives(command, args, texts, flags)
  <2> HIDE DEF takes
  <2> QED  BY <1>1, <1>2, OptionsAreRead DEF OptionWords
<1>4. HasRead(command, takes, front \o back, texts, flags, some)
  <2> DEFINE R == [name : STRING, required : BOOLEAN, words : BOOLEAN]
  <2>1. places \in Seq(R)  BY PlacesAre
  <2> HIDE DEF R, front
  <2> QED  BY <1>2, <1>3, <2>1, PositionalsAreRead
<1>5. ArgvFor(tool, args).value.words = front \o back  BY ArgvIs
<1> HIDE DEF front, back, some, takes
<1>6. ReadSoFar(command, takes, front \o back) = Has(texts, flags, some)  BY <1>4 DEF HasRead
<1>7. ReadOf(tool, args) = Has(texts, flags, some)
  <2>1. Has(texts, flags, some).error = "" /\ Has(texts, flags, some).wants = ""  BY DEF Has, Parsed
  <2>2. ReadWords(command, takes, front \o back) = Has(texts, flags, some)  BY <1>6, <2>1, ReadWordsIs
  <2> QED  BY <1>5, <2>2 DEF ReadOf, takes
<1>8. /\ ReadOf(tool, args).error = "" /\ ReadOf(tool, args).texts = texts /\ ReadOf(tool, args).flags = flags
      /\ ReadOf(tool, args).positionals = some
  <2>1. HasAll(ReadOf(tool, args), texts, flags, some)  BY <1>7, HasIs
  <2> QED  BY <2>1 DEF HasAll
<1>9. ASSUME NEW o \in ToSet(command.options)
      PROVE  IsOn(command, args, o) <=> IF o.name \in DOMAIN args THEN args[o.name].on
                                        ELSE \E d \in ToSet(command.defaults) : d.name = o.name /\ d.value
  BY DEF IsOn, DefaultOf
<1>10. ReadsOptions(tool, args)  BY <1>3, <1>8, <1>9 DEF ReadsOptions, Gives
<1>11. ReadsPlaces(tool, args)  BY <1>8 DEF ReadsPlaces, some
<1> QED  BY <1>8, <1>10, <1>11

\* Any call of any tool is refused for the reasons the schema, the dashes and the
\* NUL give and for no other, and the verb reads of the words of one that is not
\* exactly what the call gave and the defaults.
THEOREM CallsAreCarriedHolds ==
  ASSUME NEW tool, HasOptions(tool), NEW args, IsCall(args)
  PROVE  CallsAreCarried(tool, args)
<1>1. ArgvFor(tool, args).error # "" <=> IsRefused(tool, args)  BY ArgvIs
<1>2. IsRefused(tool, args) <=> IsWrong(tool, args)  BY RefusedIs
<1>3. ~IsRefused(tool, args) => ReadOf(tool, args).error = "" /\ ReadsOptions(tool, args) /\ ReadsPlaces(tool, args)
  BY CallIsRead
<1> QED  BY <1>1, <1>2, <1>3, CarriedIs

-----------------------------------------------------------------------------
(* All of it *)

\* McpIsAnswered holds of every input that is one (IsMcpInput), of any size and
\* for any bound of the buffer: the lines of a stream (mcp/rpc.rs), the answers
\* of the requests among them (mcp/server.rs), the calls (mcp/tools.rs,
\* parse_args.rs) and the ends of their programs (mcp/run.rs).
THEOREM McpIsAnsweredHolds ==
  ASSUME MaxBuffer \in Nat, IsMcpInput(given)
  PROVE  McpIsAnswered
<1>1. CASE given.of = "call"
  <2>1. HasOptions(given.input.tool) /\ IsCall(given.input.args)  BY <1>1 DEF IsMcpInput
  <2>2. CallsAreCarried(given.input.tool, given.input.args)  BY <2>1, CallsAreCarriedHolds
  <2> QED  BY <1>1, <2>2 DEF McpIsAnswered
<1>2. CASE given.of = "answer"
  <2>1. IsTable(given.input.exit) /\ IsEnd(given.input.done)  BY <1>2 DEF IsMcpInput
  <2>2. AnswersTell(given.input.exit, given.input.done)  BY <2>1, AnswersTellHolds
  <2> QED  BY <1>2, <2>2 DEF McpIsAnswered
<1>3. CASE given.of = "stream"
  <2>1. IsStream(given.input)  BY <1>3 DEF IsMcpInput
  <2>2. M!LinesAreOfTheStream(given.input)  BY <2>1, LinesAreOfTheStreamHolds
  <2> QED  BY <1>3, <2>2 DEF McpIsAnswered
<1>4. CASE given.of = "message"
  <2>1. given.input.sdk \in {"Server", "McpServer"} /\ given.input.line \in ClientLine  BY <1>4 DEF IsMcpInput
  <2>2. M!RequestsAreAnswered(given.input.sdk, given.input.line)  BY <2>1, RequestsAreAnsweredHolds
  <2> QED  BY <1>4, <2>2 DEF McpIsAnswered
<1>5. CASE given.of \notin {"call", "answer", "stream", "message"}  BY <1>5 DEF McpIsAnswered
<1> QED  BY <1>1, <1>2, <1>3, <1>4, <1>5
=============================================================================
