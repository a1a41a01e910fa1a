--------------------------- MODULE NotifyOptions ---------------------------
(***************************************************************************)
(* notify.toml against the one schema of the notify service (options.rs):  *)
(* every value is its own or its default, and every problem is a line, in  *)
(* the order of the schema: the own keys of an object, then those it does  *)
(* not know.                                                               *)
(*                                                                         *)
(* A document is a table of the keys it has.  A value has a type; a text   *)
(* that may be a duration is a sequence of numbers and units.              *)
(***************************************************************************)
EXTENDS Integers, Sequences, FiniteSets, SequencesExt

CONSTANT MaxSafe  \* MAX_SAFE_INTEGER, in seconds

\* Keys that are array indices, ascending.
Indices == <<"0", "7">>

Absent == [type |-> "absent", word |-> "", n |-> 0, text |-> <<>>]
Number(n) == [type |-> "number", word |-> "", n |-> n, text |-> <<>>]
Text(text) == [type |-> "text", word |-> "", n |-> 0, text |-> text]
Word(word) == [type |-> "word", word |-> word, n |-> 0, text |-> <<>>]
Other == [type |-> "other", word |-> "", n |-> 0, text |-> <<>>]

\* An object: what stands at its key, the values of the keys it knows, and the
\* keys it does not know in the order of the file.
NoTable == [is |-> "absent", own |-> <<>>, extra |-> <<>>]
Get(object, key) ==
  IF object.is = "table" /\ key \in DOMAIN object.own THEN object.own[key] ELSE Absent

-----------------------------------------------------------------------------
(* Values *)

\* type_name, wrong_type: a missing key is its default, any other type a line.
Boolean(object, key, default) ==
  LET v == Get(object, key)
  IN IF v.type = "word" /\ v.word \in {"true", "false"} THEN v.word = "true" ELSE default

BooleanIssues(object, path, key) ==
  LET v == Get(object, key)
  IN IF v.type = "absent" \/ (v.type = "word" /\ v.word \in {"true", "false"}) THEN <<>>
     ELSE <<<<path \o <<key>>, "type">>>>

Choice(object, key, words, default) ==
  LET v == Get(object, key) IN IF v.type = "word" /\ v.word \in words THEN v.word ELSE default

ChoiceIssues(object, key, words) ==
  LET v == Get(object, key)
  IN IF v.type = "absent" \/ (v.type = "word" /\ v.word \in words) THEN <<>>
     ELSE <<<<<<key>>, "option">>>>

\* No duration.
None == -1

DurationOfNumber(x) == IF x \in 0..MaxSafe THEN x ELSE None

\* duration_of_text: digits are seconds; else hours, minutes and seconds, each
\* taken when it comes next, and nothing may be left.
DurationOfText(text) ==
  LET Take(state, unit) ==
        IF Len(state.rest) >= 2 /\ state.rest[1].type = "number"
           /\ state.rest[2].type = "unit" /\ state.rest[2].unit = unit[1]
          THEN [sum |-> state.sum + state.rest[1].n * unit[2], rest |-> SubSeq(state.rest, 3, Len(state.rest))]
        ELSE state
      end == FoldLeft(Take, [sum |-> 0, rest |-> text], <<<<"h", 3600>>, <<"m", 60>>, <<"s", 1>>>>)
  IN IF text = <<>> THEN None
     ELSE IF Len(text) = 1 /\ text[1].type = "number" THEN DurationOfNumber(text[1].n)
     ELSE IF end.rest # <<>> THEN None
     ELSE DurationOfNumber(end.sum)

Parsed(v) ==
  CASE v.type = "number" -> DurationOfNumber(v.n)
    [] v.type = "text" -> DurationOfText(v.text)
    [] OTHER -> None

Duration(object, key, default) ==
  LET v == Get(object, key) IN IF Parsed(v) = None THEN default ELSE Parsed(v)

DurationIssues(object, path, key) ==
  LET v == Get(object, key)
  IN IF v.type = "absent" \/ Parsed(v) # None THEN <<>>
     ELSE <<<<path \o <<key>>, IF v.type \in {"number", "text"} THEN "duration" ELSE "input">>>>

-----------------------------------------------------------------------------
(* Objects *)

\* object: a missing key and a date are an empty table, another type is a line.
ObjectIssues(object, path) == IF object.is = "wrong" THEN <<<<path, "type">>>> ELSE <<>>

\* Object::unknown: the array indices first, then as the file has them.
Unknown(object) ==
  LET indices == SelectSeq(Indices, LAMBDA k : k \in ToSet(object.extra))
  IN indices \o SelectSeq(object.extra, LAMBDA k : k \notin ToSet(Indices))

UnknownKeys(object, path) ==
  IF object.is # "table" \/ Unknown(object) = <<>> THEN <<>>
  ELSE <<<<path, "unknown", Unknown(object)>>>>

Toggles(object, default) ==
  [enabled |-> Boolean(object, "enabled", default.enabled),
   skip_visible |-> Boolean(object, "skip_visible", default.skip_visible)]

TogglesIssues(object, path) ==
  BooleanIssues(object, path, "enabled") \o BooleanIssues(object, path, "skip_visible")

\* simple: an event that has only the two switches.
SimpleIssues(object, path) ==
  ObjectIssues(object, path) \o TogglesIssues(object, path) \o UnknownKeys(object, path)

\* Mutant: the order of the two is asked of defaults too.
CacheIssues_Always(object, path, default) ==
  LET own == ObjectIssues(object, path) \o TogglesIssues(object, path)
             \o DurationIssues(object, path, "after") \o DurationIssues(object, path, "ttl")
      after == Duration(object, "after", default.after)
      ttl == Duration(object, "ttl", default.ttl)
  IN own \o UnknownKeys(object, path)
     \o IF after >= ttl THEN <<<<path \o <<"after">>, "order">>>> ELSE <<>>

\* cache_expiring: after is below ttl, asked when every own key is well formed;
\* a key that is not known does not stop it.
CacheIssues(object, path, default) ==
  LET own == ObjectIssues(object, path) \o TogglesIssues(object, path)
             \o DurationIssues(object, path, "after") \o DurationIssues(object, path, "ttl")
      after == Duration(object, "after", default.after)
      ttl == Duration(object, "ttl", default.ttl)
  IN own \o UnknownKeys(object, path)
     \o IF own = <<>> /\ after >= ttl THEN <<<<path \o <<"after">>, "order">>>> ELSE <<>>

-----------------------------------------------------------------------------
(* The document *)

Backends == {"auto", "macos", "log", "none"}
Clicks == {"dock", "goto", "focus"}
On == [enabled |-> TRUE, skip_visible |-> TRUE]

\* Options::default, as far as its parts differ: the events that have only the
\* switches are the one `event`.
Defaults ==
  [backend |-> "auto", click |-> "dock", icon |-> "", event |-> On,
   cache |-> [toggles |-> [On EXCEPT !.skip_visible = FALSE], after |-> 3000, ttl |-> 3600]]

Events(doc) == doc.events
Event(doc) == IF Events(doc).is = "table" THEN doc.event ELSE NoTable
Cache(doc) == IF Events(doc).is = "table" THEN doc.cache ELSE NoTable

Icon(doc) ==
  LET v == Get(doc.top, "icon") IN IF v.type = "word" /\ v.word # "" THEN v.word ELSE Defaults.icon
IconIssues(doc) ==
  LET v == Get(doc.top, "icon")
  IN CASE v.type = "absent" -> <<>>
       [] v.type = "word" -> IF v.word = "" THEN <<<<<<"icon">>, "small">>>> ELSE <<>>
       [] OTHER -> <<<<<<"icon">>, "type">>>>

\* check, its lines.
Issues(doc) ==
  ChoiceIssues(doc.top, "backend", Backends) \o ChoiceIssues(doc.top, "click", Clicks)
  \o IconIssues(doc)
  \o ObjectIssues(Events(doc), <<"events">>)
  \o SimpleIssues(Event(doc), <<"events", "event">>)
  \o CacheIssues(Cache(doc), <<"events", "cache">>, Defaults.cache)
  \o UnknownKeys(Events(doc), <<"events">>)
  \o UnknownKeys(doc.top, <<>>)

\* check, its options.
Checked(doc) ==
  [backend |-> Choice(doc.top, "backend", Backends, Defaults.backend),
   click |-> Choice(doc.top, "click", Clicks, Defaults.click),
   icon |-> Icon(doc),
   event |-> Toggles(Event(doc), Defaults.event),
   cache |-> [toggles |-> Toggles(Cache(doc), Defaults.cache.toggles),
              after |-> Duration(Cache(doc), "after", Defaults.cache.after),
              ttl |-> Duration(Cache(doc), "ttl", Defaults.cache.ttl)]]

\* load: a file that is not there, is no TOML, cannot be read, or is checked.
Load(state, doc) ==
  CASE state = "missing" -> [is |-> "missing", options |-> Defaults, lines |-> <<>>]
    [] state = "unreadable" -> [is |-> "invalid", options |-> Defaults, lines |-> <<"read">>]
    [] state = "notToml" -> [is |-> "invalid", options |-> Defaults, lines |-> <<"toml">>]
    [] state = "toml" ->
         IF Issues(doc) = <<>> THEN [is |-> "found", options |-> Checked(doc), lines |-> <<>>]
         ELSE [is |-> "invalid", options |-> Defaults, lines |-> Issues(doc)]

-----------------------------------------------------------------------------
(* What they have to agree with *)

Seconds == [h |-> 3600, m |-> 60, s |-> 1]

\* The durations of the documentation: a number of seconds, or at most one of
\* each unit in falling order.
IsDuration(v) ==
  \/ v.type = "number" /\ v.n \in 0..MaxSafe
  \/ /\ v.type = "text" /\ v.text # <<>>
     /\ \/ Len(v.text) = 1 /\ v.text[1].type = "number" /\ v.text[1].n <= MaxSafe
        \/ \E units \in {<<"h">>, <<"m">>, <<"s">>, <<"h", "m">>, <<"h", "s">>, <<"m", "s">>,
                         <<"h", "m", "s">>} :
             /\ Len(v.text) = 2 * Len(units)
             /\ \A i \in DOMAIN units :
                  v.text[2 * i - 1].type = "number" /\ v.text[2 * i].type = "unit"
                  /\ v.text[2 * i].unit = units[i]
             /\ FoldLeft(LAMBDA sum, i : sum + v.text[2 * i - 1].n * Seconds[units[i]], 0,
                         [i \in DOMAIN units |-> i]) <= MaxSafe

\* The rank of a path in the schema.
Rank(issue) ==
  CASE issue[1] = <<"backend">> -> 1 [] issue[1] = <<"click">> -> 2 [] issue[1] = <<"icon">> -> 3
    [] issue[1] = <<"events">> /\ issue[2] = "type" -> 4
    [] Len(issue[1]) >= 2 /\ issue[1][2] = "event" -> 5
    [] Len(issue[1]) >= 2 /\ issue[1][2] = "cache" -> 6
    [] issue[1] = <<"events">> -> 7 [] OTHER -> 8

Fine(v, words) == v.type = "absent" \/ (v.type = "word" /\ v.word \in words)
Switches(object) == \A key \in {"enabled", "skip_visible"} : Fine(Get(object, key), {"true", "false"})
Known(object) == object.is # "wrong" /\ (object.is = "table" => object.extra = <<>>)

\* A document is taken whole or not at all: it is free of lines exactly when
\* every value fits, each by itself, and after is below ttl; a duration is what
\* the documentation says one is; no two lines are the same, and they come in
\* the order of the schema, whatever is wrong with the rest.
DocumentIsChecked(doc) ==
  LET lines == Issues(doc)
      cache == Cache(doc)
      spans == {Get(cache, "after"), Get(cache, "ttl")}
  IN /\ lines = <<>> <=>
          /\ Fine(Get(doc.top, "backend"), Backends) /\ Fine(Get(doc.top, "click"), Clicks)
          /\ Get(doc.top, "icon").type \in {"absent", "word"}
          /\ Get(doc.top, "icon").type = "word" => Get(doc.top, "icon").word # ""
          /\ Known(doc.top) /\ Known(Events(doc)) /\ Known(Event(doc)) /\ Known(cache)
          /\ Switches(Event(doc)) /\ Switches(cache)
          /\ \A v \in spans : v.type = "absent" \/ IsDuration(v)
          /\ Checked(doc).cache.after < Checked(doc).cache.ttl
     /\ \A i, j \in DOMAIN lines : i < j => lines[i] # lines[j] /\ Rank(lines[i]) <= Rank(lines[j])
     /\ (\E i \in DOMAIN lines : lines[i][2] = "order") =>
          /\ \A v \in spans : v.type = "absent" \/ IsDuration(v)
          /\ Switches(cache) /\ cache.is # "wrong"
     /\ lines # <<>> => Load("toml", doc).options = Defaults
=============================================================================
