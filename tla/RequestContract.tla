-------------------------- MODULE RequestContract --------------------------
(***************************************************************************)
(* What a client of the mcp server may count on: every tools/call has one  *)
(* fate.  It is settled, and then answered once, or it is cancelled while  *)
(* it is open, and then nothing is ever said of it.  A cancellation names  *)
(* an id, and of the requests that share it the last.                      *)
(***************************************************************************)
EXTENDS Naturals

CONSTANTS
  Ids,      \* the ids a client gives its requests; an id may come again
  Falsy,    \* the ids no cancellation can name: 0 and the empty string
  NoId,     \* the id of a request that was not sent
  MaxCalls  \* bound: requests

VARIABLES
  next,  \* the serial of the next request
  idOf,  \* the id of each request
  fate,  \* what became of it
  over   \* the process left

vars == <<next, idOf, fate, over>>

Calls == 0..(MaxCalls - 1)

Init ==
  /\ next = 0 /\ over = FALSE
  /\ idOf = [s \in Calls |-> NoId]
  /\ fate = [s \in Calls |-> "none"]

Turns(s, from, to) ==
  /\ ~over /\ fate[s] = from
  /\ fate' = [fate EXCEPT ![s] = to]

Ask(id) ==
  /\ next \in Calls
  /\ Turns(next, "none", "open")
  /\ idOf' = [idOf EXCEPT ![next] = id]
  /\ next' = next + 1
  /\ UNCHANGED over

Settle(s) == Turns(s, "open", "settled") /\ UNCHANGED <<next, idOf, over>>

Answer(s) == Turns(s, "settled", "answered") /\ UNCHANGED <<next, idOf, over>>

Cancel(s) ==
  /\ idOf[s] \notin Falsy
  /\ \A t \in Calls : t > s => idOf[t] # idOf[s]
  /\ Turns(s, "open", "silent")
  /\ UNCHANGED <<next, idOf, over>>

Leave == ~over /\ over' = TRUE /\ UNCHANGED <<next, idOf, fate>>

Next ==
  \/ \E id \in Ids : Ask(id)
  \/ \E s \in Calls : Settle(s) \/ Answer(s) \/ Cancel(s)
  \/ Leave

Spec == Init /\ [][Next]_vars
=============================================================================
