----------------------------- MODULE JsonText -----------------------------
(***************************************************************************)
(* JSON as this program reads and prints it (json.rs): one reader with a   *)
(* stack of the containers that are open, in three modes for a string that *)
(* holds half of a surrogate pair, and one printer that puts the keys of   *)
(* an object in the order of JavaScript.                                   *)
(*                                                                         *)
(* A text is a sequence of tokens.  A string is a token of its own: "half" *)
(* holds a lone half, "fffd" the character that stands for it, "0" and "1" *)
(* are array indices; "huge" is a number that is Infinity.                 *)
(***************************************************************************)
EXTENDS Naturals, Sequences, SequencesExt

Words == {"a", "b", "0", "1", "half", "fffd"}
Index == [w \in {"0", "1"} |-> IF w = "0" THEN 0 ELSE 1]
Scalars == Words \cup {"huge", "null"}

\* A value: a scalar with its text, or a container; an object's keys are as
\* many as its items, one that is written twice included.
Value(kind, text, keys, items) == [kind |-> kind, text |-> text, keys |-> keys, items |-> items]

\* Text: a string as `mode` reads it.
Read(mode, word) ==
  IF word = "half" THEN IF mode = "parse" THEN Value("string", "fffd", <<>>, <<>>)
                        ELSE Value("units", "half", <<>>, <<>>)
  ELSE Value(IF word = "huge" THEN "number" ELSE IF word = "null" THEN "null" ELSE "string",
             word, <<>>, <<>>)

-----------------------------------------------------------------------------
(* The reader: what it has open, what it wants next, and what it has read *)

Start == [open |-> <<>>, wants |-> "value", done |-> <<>>, lone |-> FALSE]
Refused(r) == [r EXCEPT !.wants = "nothing"]

\* A value is complete: it goes to the container it sits in.
Complete(r, value) ==
  IF r.open = <<>> THEN [r EXCEPT !.done = <<value>>, !.wants = "end"]
  ELSE LET top == Last(r.open)
       IN [r EXCEPT !.open = Append(Front(@), [top EXCEPT !.items = Append(@, value)]),
                    !.wants = "next"]

Opens(r, kind, wants) ==
  [r EXCEPT !.open = Append(@, Value(kind, "", <<>>, <<>>)), !.wants = wants]

Closes(r) == Complete([r EXCEPT !.open = Front(@)], Last(r.open))

\* key, Open::object: only parse_whole keeps a key with a lone half, in an
\* object whose keys are code units from then on; parse_exact reports it.
Key(mode, r, word) ==
  LET top == Last(r.open)
      half == word = "half"
      keyed == half /\ mode = "whole"
  IN [r EXCEPT
       !.open = Append(Front(@),
          [top EXCEPT !.keys = Append(@, IF half /\ ~keyed THEN "fffd" ELSE word),
                      !.kind = IF keyed THEN "keyed" ELSE @]),
       !.lone = @ \/ (half /\ mode = "exact"),
       !.wants = "colon"]

ReadsValue(mode, r, token) ==
  CASE token = "[" -> Opens(r, "array", "first")
    [] token = "{" -> Opens(r, "object", "firstKey")
    [] token \in Scalars -> Complete(r, Read(mode, token))
    [] OTHER -> Refused(r)

\* document, one token on.
Reads(mode, r, token) ==
  CASE r.wants = "first" /\ token = "]" -> Closes(r)
    [] r.wants = "firstKey" /\ token = "}" -> Closes(r)
    [] r.wants \in {"value", "first"} -> ReadsValue(mode, r, token)
    [] r.wants \in {"key", "firstKey"} /\ token \in Words -> Key(mode, r, token)
    [] r.wants = "colon" /\ token = ":" -> [r EXCEPT !.wants = "value"]
    [] r.wants = "next" /\ token = "," ->
         [r EXCEPT !.wants = IF Last(r.open).kind = "array" THEN "value" ELSE "key"]
    [] r.wants = "next" /\ token = (IF Last(r.open).kind = "array" THEN "]" ELSE "}") -> Closes(r)
    [] OTHER -> Refused(r)

Document(mode, text) == FoldLeft(LAMBDA r, token : Reads(mode, r, token), Start, text)

\* parse, parse_exact, parse_whole: whether there is a value, which, and lone_key.
Accepts(mode, text) == Document(mode, text).wants = "end"
Parse(mode, text) == Head(Document(mode, text).done)
LoneKey(mode, text) == Document(mode, text).lone

-----------------------------------------------------------------------------
(* The printer *)

\* js_order: a key written twice has the place of its first and the value of
\* its last; the array indices come first, ascending.
Places(v) ==
  LET firsts == SelectSeq([i \in DOMAIN v.keys |-> i],
                          LAMBDA i : \A j \in 1..(i - 1) : v.keys[j] # v.keys[i])
      indexed == SelectSeq(firsts, LAMBDA i : v.keys[i] \in DOMAIN Index)
      named == SelectSeq(firsts, LAMBDA i : v.keys[i] \notin DOMAIN Index)
  IN SortSeq(indexed, LAMBDA i, j : Index[v.keys[i]] < Index[v.keys[j]]) \o named

LastOf(v, key) == v.items[CHOOSE i \in DOMAIN v.keys :
  v.keys[i] = key /\ \A j \in DOMAIN v.keys : v.keys[j] = key => j <= i]

\* Value::entries.
Entries(v) == [i \in DOMAIN Places(v) |->
  <<v.keys[Places(v)[i]], LastOf(v, v.keys[Places(v)[i]])>>]

Joined(pieces) ==
  FoldLeft(LAMBDA text, piece : IF text = <<>> THEN piece ELSE text \o <<",">> \o piece, <<>>, pieces)

RECURSIVE Stringify(_)

\* stringify, begin: a number that is not finite is null.
Stringify(v) ==
  CASE v.kind = "array" ->
         <<"[">> \o Joined([i \in DOMAIN v.items |-> Stringify(v.items[i])]) \o <<"]">>
    [] v.kind \in {"object", "keyed"} ->
         <<"{">> \o Joined([i \in DOMAIN Entries(v) |->
                     <<Entries(v)[i][1], ":">> \o Stringify(Entries(v)[i][2])]) \o <<"}">>
    [] v.kind = "number" -> <<"null">>
    [] OTHER -> <<v.text>>

-----------------------------------------------------------------------------
(* What they have to agree with *)

RECURSIVE IsValue(_), AreItems(_, _)

\* ECMA-404, by its productions.
IsValue(text) ==
  \/ Len(text) = 1 /\ text[1] \in Scalars
  \/ /\ Len(text) >= 2
     /\ LET inner == SubSeq(text, 2, Len(text) - 1)
        IN \/ text[1] = "[" /\ Last(text) = "]" /\ (inner = <<>> \/ AreItems(inner, FALSE))
           \/ text[1] = "{" /\ Last(text) = "}" /\ (inner = <<>> \/ AreItems(inner, TRUE))

AreItems(text, named) ==
  \E cut \in 1..Len(text) :
    LET item == SubSeq(text, 1, cut)
        more == SubSeq(text, cut + 1, Len(text))
    IN /\ IF named THEN Len(item) >= 3 /\ item[1] \in Words /\ item[2] = ":" /\ IsValue(SubSeq(item, 3, cut))
          ELSE IsValue(item)
       /\ more = <<>> \/ (Len(more) >= 2 /\ more[1] = "," /\ AreItems(Tail(more), named))

Modes == {"parse", "exact", "whole"}

\* The three readers take the same texts, which are those of the grammar, and
\* what is read and printed is a text again, which is printed as itself; a
\* reader that keeps no key with a lone half says that there was one.
ReadsAndPrints(text) ==
  /\ \A mode \in Modes : Accepts(mode, text) <=> IsValue(text)
  /\ IsValue(text) =>
       \A mode \in Modes :
         LET printed == Stringify(Parse(mode, text))
         IN /\ IsValue(printed) /\ Stringify(Parse(mode, printed)) = printed
            /\ mode # "whole" /\ "half" \in {printed[i] : i \in DOMAIN printed} =>
                 \E i \in DOMAIN text : text[i] = "half" /\ (i = Len(text) \/ text[i + 1] # ":")
            /\ LoneKey(mode, text) <=>
                 /\ mode = "exact"
                 /\ \E i \in DOMAIN text : text[i] = "half" /\ i < Len(text) /\ text[i + 1] = ":"
=============================================================================
