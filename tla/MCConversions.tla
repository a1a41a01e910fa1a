--------------------------- MODULE MCConversions ---------------------------
(* What the pure parts of the program make of an input, for every input of a  *)
(* small set: `given` is the input of one call.                               *)
EXTENDS MCKnowledge, MCMcp, MCSessions, MCPlugins, FiniteSets

CONSTANTS
  MaxTokens, \* the texts of JsonText are no longer, but for those of Objects
  MaxSafe    \* NotifyOptions

J == INSTANCE JsonText
O == INSTANCE NotifyOptions
Tr == INSTANCE Transcripts WITH
        HeadWindow <- 5, TailWindow <- 5, MinTranscript <- 2, SearchScan <- 3, SearchHits <- 2, DefaultRecent <- 2

-----------------------------------------------------------------------------
(* McpMessages *)

TwoVersions == <<"v2", "v1">>

-----------------------------------------------------------------------------
(* JsonText *)

Tokens == {"[", "]", "{", "}", ",", ":", "a", "half", "huge"}

\* Objects of two or three members, with equal keys, indices and halves.
Member(key, value) == <<key, ":", value>>
Objects ==
  {<<"{">> \o Member(j, "a") \o <<",">> \o Member(k, "half") \o <<"}">> : j, k \in {"a", "0", "1", "half"}}
  \cup {<<"{">> \o Member(i, "a") \o <<",">> \o Member(j, "b") \o <<",">> \o Member(k, "huge") \o <<"}">> :
          i, j, k \in {"a", "b", "0", "1", "half"}}

JsonTexts == UNION {[1..n -> Tokens] : n \in 1..MaxTokens} \cup Objects

-----------------------------------------------------------------------------
(* NotifyOptions: one object has several faults at a time, the others none *)

Switch == {O!Absent, O!Word("true"), O!Word("false"), O!Other}
N(n) == [type |-> "number", n |-> n, unit |-> ""]
U(unit) == [type |-> "unit", n |-> 0, unit |-> unit]
DurationTexts == {<<>>, <<N(90)>>, <<N(MaxSafe + 1)>>, <<U("h")>>, <<N(1), U("h"), N(30), U("m")>>,
                  <<N(30), U("m"), N(1), U("h")>>, <<N(45), U("s")>>, <<N(1), U("h"), N(5)>>,
                  <<N(1), U("h"), N(2), U("s")>>, <<N(3), U("h")>>, <<N(2), U("h"), N(60), U("m"), N(1), U("s")>>,
                  <<N(2), U("h"), N(2), U("h")>>}
Durations == {O!Absent, O!Other, O!Number(10), O!Number(3600), O!Number(MaxSafe + 1), O!Number(0 - 1)}
             \cup {O!Text(text) : text \in DurationTexts}
Extras == {<<>>, <<"x">>, <<"y", "7", "x", "0">>}

Object(own, extra) == [is |-> "table", own |-> own, extra |-> extra]
Empty == Object([key \in {} |-> O!Absent], <<>>)
NotATable == {O!NoTable, [O!NoTable EXCEPT !.is = "date"], [O!NoTable EXCEPT !.is = "wrong"]}
Plain == [top |-> Empty, events |-> Empty, event |-> O!NoTable, cache |-> O!NoTable]
SomeEvents == NotATable \cup
  {Object([enabled |-> on, skip_visible |-> skip], extra) : on, skip \in Switch, extra \in Extras}

Documents ==
  {[Plain EXCEPT !.cache = Object([enabled |-> on, skip_visible |-> O!Absent, after |-> after, ttl |-> ttl], extra)] :
     on \in Switch, after, ttl \in Durations, extra \in Extras}
  \cup {[Plain EXCEPT !.event = event, !.cache = cache] : event \in SomeEvents, cache \in NotATable}
  \cup {[top |-> Object([backend |-> backend, click |-> click, icon |-> icon], extra),
         events |-> events, event |-> event, cache |-> O!NoTable] :
           backend \in {O!Absent, O!Word("log"), O!Word("dock"), O!Other},
           click \in {O!Absent, O!Word("goto"), O!Other},
           icon \in {O!Absent, O!Word(""), O!Word("i"), O!Other}, extra \in Extras,
           events \in NotATable \cup {Empty, Object([key \in {} |-> O!Absent], <<"z">>)},
           event \in {O!NoTable, Object([enabled |-> O!Other], <<"x">>)}}

-----------------------------------------------------------------------------
(* Transcripts: files for the windows, homes for the verbs *)

TranscriptLines ==
  {Tr!Line("user", FALSE, texts, len) : texts \in {<<"">>, <<"<...">>, <<"p">>}, len \in {1, 3}}
  \cup {Tr!Line("user", TRUE, <<"p">>, 1), Tr!Line("user", FALSE, <<>>, 1)}
  \cup {Tr!Line("assistant", FALSE, texts, len) : texts \in {<<>>, <<"r", "">>, <<"q", "s">>}, len \in {1, 2, 5}}
  \cup {Tr!Line("other", FALSE, <<>>, len) : len \in 0..2}
TranscriptFiles == [lines : UNION {[1..n -> TranscriptLines] : n \in 1..3}, ends : BOOLEAN, gone : {FALSE}]

Session(id, mtime, words, len, regular, gone) ==
  [id |-> id, jsonl |-> TRUE, regular |-> regular, mtime |-> mtime,
   file |-> [lines |-> <<Tr!Line("user", FALSE, <<words>>, len)>>, ends |-> TRUE, gone |-> gone]]
Homes(one, two, three, four) ==
  <<[name |-> ".claude", claude |-> TRUE, exists |-> TRUE,
     projects |-> <<[slug |-> <<"home", "-", "w">>, entries |-> <<one, two>>],
                    [slug |-> <<"-", "v", "-", "w">>, entries |-> <<three>>]>>],
    [name |-> ".claudette", claude |-> FALSE, exists |-> TRUE,
     projects |-> <<[slug |-> <<"-", "u">>, entries |-> <<Session(<<4, 1>>, 4, "p", 1, TRUE, FALSE)>>]>>],
    [name |-> ".claude-x", claude |-> TRUE, exists |-> TRUE,
     projects |-> <<[slug |-> <<"-", "u">>, entries |-> <<four>>]>>]>>
Ones == {Session(<<1, 1>>, mtime, words, 3, TRUE, gone) : mtime \in 1..3, words \in {"p", "u"}, gone \in BOOLEAN}
Twos == {Session(<<1, 2>>, 2, "p", len, regular, FALSE) : len \in {0, 2}, regular \in BOOLEAN}
Threes == {Session(<<2, 1>>, mtime, words, 1, TRUE, gone) : mtime \in 1..3, words \in {"p", "u"}, gone \in BOOLEAN}
Fours == {Session(<<3, 1>>, mtime, "p", 1, TRUE, FALSE) : mtime \in 1..3}
Dir(name, exists) == [name |-> name, claude |-> FALSE, exists |-> exists,
                      projects |-> <<[slug |-> <<"-", "w">>, entries |-> <<Session(<<5>>, 1, "p", 1, TRUE, FALSE)>>]>>]
HomesGiven == {[set |-> FALSE, dirs |-> <<>>], [set |-> TRUE, dirs |-> <<Dir("", FALSE)>>],
               [set |-> TRUE, dirs |-> <<Dir("a", FALSE), Dir("b", TRUE)>>]}
Count(none, whole) == [none |-> none, whole |-> whole]
Asking(cmd, count, words, prefix) == [cmd |-> cmd, count |-> count, words |-> words, prefix |-> prefix]
Asks == {Asking("recent", c, <<>>, <<>>) : c \in {Count(TRUE, 0)} \cup {Count(FALSE, n) : n \in {0, 0 - 1, 0 - 9, 1, 3, 9}}}
        \cup {Asking("search", Count(TRUE, 0), words, <<>>) : words \in {<<>>, <<"p">>, <<"w">>, <<"u", "p">>, <<"z">>}}
        \cup {Asking("show", Count(TRUE, 0), <<>>, prefix) : prefix \in {<<>>, <<1>>, <<1, 2>>, <<2, 1>>, <<9>>}}
        \cup {Asking("help", Count(TRUE, 0), <<>>, <<>>)}
Listings ==
  {[home |-> Homes(one, two, three, four), homes |-> [set |-> FALSE, dirs |-> <<>>], ask |-> ask] :
     one \in Ones, two \in Twos, three \in Threes, four \in Fours, ask \in Asks}
  \cup {[home |-> <<>>, homes |-> homes, ask |-> ask] : homes \in HomesGiven, ask \in Asks}

TranscriptInputs ==
  \/ given \in [of : {"transcript"}, input : TranscriptFiles]
  \/ given \in [of : {"listing"}, input : Listings]

-----------------------------------------------------------------------------
\* What is proved of the inputs of the mcp server is proved of these too, and
\* what is proved of those of the references and of the plugins.
ASSUME McpInputsAssumption ==
  /\ AreMcpInputs(CallInputs) /\ AreMcpInputs(AnswerInputs)
  /\ AreMcpInputs(StreamInputs) /\ AreMcpInputs(MessageInputs)
ASSUME SessionInputsAssumption ==
  AreSessionInputs(DocumentInputs) /\ AreSessionInputs(HookInputs) /\ AreSessionInputs(OpenInputs)
ASSUME PluginInputsAssumption ==
  /\ ArePluginInputs(DiskInputs) /\ ArePluginInputs(ResolveInputs)
  /\ ArePluginInputs(PluginCallInputs) /\ ArePluginInputs(ScaffoldInputs)

Pure ==
  \/ given \in [of : {"text"}, input : JsonTexts]
  \/ given \in [of : {"options"}, input : Documents]
  \/ McpInputs
  \/ SessionInputs
  \/ TranscriptInputs
  \/ PluginInputs

AllInit == MCInit \/ (Rest /\ Pure)
AllSpec == AllInit /\ [][MCNext]_<<vars, given>>

-----------------------------------------------------------------------------
(* Properties *)

\* IndexIsWhole is stated in KnowledgeIndex, McpIsAnswered in MCMcp, SessionsAreFound
\* in MCSessions, PluginsAreWhole in MCPlugins.  But for the first they are of one input of a pure part, which is
\* given at the start and makes no step: a predicate of the initial states.

\* What is said of a session is of its transcript, and of the newest first
\* (transcripts.rs, sessions.rs).
TranscriptsAreTold ==
  LET i == given.input
  IN CASE given.of = "transcript" -> Tr!WindowsShowWholeLines(i)
       [] given.of = "listing" ->
            Tr!ListingsAreNewest(i.home, i.homes, i.ask.cmd, i.ask.count, i.ask.words, i.ask.prefix)
       [] OTHER -> TRUE

\* What is asked of the files of the owner is answered with what they say: a
\* document is read as it was written, a query is answered with what is best for
\* it, and what was read is counted; what is said of a session is of its
\* transcript, the newest first (doc.rs, search.rs, usage.rs, transcripts.rs,
\* sessions.rs).
FilesAreAnswered ==
  DocumentsAreRead /\ QueriesAreAnswered /\ ReadsAreCounted /\ TranscriptsAreTold

\* A text is read as JavaScript reads it and printed as it, the halves of pairs
\* replaced where no reader takes them; a configuration or a contract is taken
\* whole or not at all, with every fault of a configuration told; an edit of the
\* owner's configuration is the one that was meant and leaves every other line; and
\* the tools of a contract are its verbs (json.rs, mcp/rpc.rs, notify/options.rs,
\* plugin/config.rs, mcp/contract.rs, mcp/tools.rs).
InputsAreChecked ==
  CASE given.of = "text" -> J!ReadsAndPrints(given.input)
    [] given.of = "line" -> M!HalvesAreReplaced(given.input)
    [] given.of = "options" -> O!DocumentIsChecked(given.input)
    [] given.of = "edit" -> PC!EditsAreExact(given.input.text, given.input.key, given.input.from)
    [] given.of = "contract" -> ToolsAreOfTheContract(given.input)
    [] OTHER -> TRUE
=============================================================================
