---------------------------- MODULE MCKnowledge ----------------------------
(* The documents and the queries for every input of a small set, `given`, and *)
(* beside them the index while programs use it.                               *)
EXTENDS KnowledgeIndex, Given, Integers, Sequences, TLC

D == INSTANCE KnowledgeDocs
Q == INSTANCE KnowledgeQueries WITH
       MaxSafe <- 9, DefaultLimit <- 3, DefaultTop <- 3, DefaultSince <- 1, DefaultMinGets <- 2,
       DefaultMinDays <- 2, Retention <- 2

Perms == Permutations(Calls)

-----------------------------------------------------------------------------
(* KnowledgeDocs *)

Dates == {date \in {0, 1899, 1900, 1904, 1999, 2000, 2023, 2024, 2100} \X (1..12) \X (1..31) : D!IsRealDate(date)}

Line(fence, hash, rest) == [fence |-> fence, hash |-> hash, rest |-> rest]
Lines == {Line("tick", FALSE, <<>>), Line("tilde", FALSE, <<>>), Line("none", TRUE, <<"s", "a">>),
          Line("none", TRUE, <<>>), Line("none", FALSE, <<"b">>), Line("none", FALSE, <<>>),
          Line("none", TRUE, <<"s", "s">>)}
Bodies == UNION {[1..n -> Lines] : n \in 0..4}
          \cup {<<Line("none", TRUE, rest)>> : rest \in UNION {[1..n -> {"s", "n", "a"}] : n \in 0..4}}

Values == {D!Absent, [is |-> "null", text |-> ""], D!Str("blank"), D!Str("word"), D!Str("date"), D!Str("moment"),
           D!Str("draft")}
Fields == {"title", "by", "at", "updated", "generated_from", "resource of a source", "status", "stale_after", "scope"}
RightValue(f) == CASE f \in {"at", "stale_after"} -> D!Str("moment") [] f = "updated" -> D!Str("date")
                   [] f = "status" -> D!Str("draft") [] OTHER -> D!Str("word")
FrontMatters ==
  {[f \in Fields \cup {"type", "kind"} |->
      IF f = "type" THEN t ELSE IF f = "kind" THEN k ELSE IF f \in right THEN RightValue(f) ELSE D!Str("blank")] :
     t, k \in Values \ {D!Str("date"), D!Str("draft")}, right \in SUBSET (Fields \ {"title", "scope"})}

Sources == UNION {[1..n -> {"colon", "tab", "x"}] : n \in 1..5}

-----------------------------------------------------------------------------
(* KnowledgeQueries *)

Prop(key, type, required, min, over, max) ==
  [key |-> key, type |-> type, required |-> required, min |-> min, over |-> over, max |-> max]
Schemas == {<<Prop("q", "string", TRUE, 1, Q!NoneN, Q!NoneN), Prop("n", "integer", FALSE, Q!NoneN, over, max),
              Prop("b", "boolean", r, Q!NoneN, Q!NoneN, Q!NoneN)>> : over \in {Q!NoneN, 0}, max \in {Q!NoneN, 5, 9},
              r \in BOOLEAN}
Val(type, n, kind) == [type |-> type, n |-> n, kind |-> kind]
ArgValues == {Q!Missing, Val("null", 0, ""), Val("boolean", 0, "")}
             \cup {Val(type, n, "") : type \in {"string", "array", "object with length"}, n \in {0, 1}}
             \cup {Val("number", n, "") : n \in {0 - 10, 0, 1, 6, 10}} \cup {Val("number", 1, "fraction"), Val("number", 1, "infinite")}

Section(rank) == [rank |-> rank, lower |-> "h"]
Doc(key, tags, status, r, s) == [key |-> key, tags |-> tags, status |-> status, chunks |-> <<Section(r), Section(s)>>]
Ranks == {0, 0 - 1, 0 - 2}
Indices == {1 :> Doc(key, tags, status, r, s) @@ 2 :> Doc("a", {}, status2, r2, 0 - 1) :
              key \in {"a", "b"}, tags \in {{}, {"t"}}, status \in {"stable", "deprecated"}, r, s \in Ranks,
              status2 \in {"odd", "deprecated"}, r2 \in Ranks}
Filters == {[type |-> t, kind |-> k, tag |-> g] : t \in {"", "b"}, k \in {"", "a"}, g \in {"", "t"}}
Word(bare) == [bare |-> bare, star |-> FALSE]
Searches == {[index |-> index, words |-> words, filters |-> f, limit |-> limit] :
               index \in Indices, f \in Filters, words \in {<<Word("w")>>, <<Word("")>>}, limit \in {0, 1, 2, 5}}

Get(ts, id) == Q!Event(ts, id, "get")
Reads(ts) == {<<Get(ts, 1)>>, <<Get(ts, 2)>>, <<Q!Event(ts, 1, "hit"), Q!Event(ts, 2, "hit")>>}
Times == {t \in [1..3 -> 0..6] : t[1] <= t[2] /\ t[2] <= t[3]}
Histories == UNION {{[now |-> t[3] + more, since |-> since,
                      calls |-> <<[events |-> a, now |-> t[1], works |-> TRUE], [events |-> b, now |-> t[2], works |-> w],
                                  [events |-> c, now |-> t[3], works |-> TRUE]>>] :
                       a \in Reads(t[1]), b \in Reads(t[2]), c \in Reads(t[3]), w \in BOOLEAN, more \in {0, 1},
                       since \in {1, 2}} : t \in Times}

Options == [since : {Q!NoneN, 2}, top : {Q!NoneN, 1, 2}, type : {"", "b"}, all : BOOLEAN, candidates : BOOLEAN,
            minGets : {Q!NoneN, 1}, minDays : {Q!NoneN, 0}]
Stores == {<<>>, <<Get(0, 1), Get(2, 1), Get(3, 2), Q!Event(3, 1, "hit")>>, <<Get(0, 3), Get(3, 3), Get(3, 1)>>}
OneIndex == 1 :> Doc("b", {"t"}, "stable", 0 - 1, 0 - 2) @@ 2 :> Doc("a", {}, "odd", 0 - 1, 0)
OtherIndex == 1 :> Doc("b", {}, "deprecated", 0, 0 - 1)
Reports == {[index |-> index, store |-> store, options |-> o, now |-> 4] :
              index \in {OneIndex, OtherIndex}, store \in Stores, o \in Options}

Variables == {<<>>, <<" ">>, <<"x">>, <<"~">>, <<"~", "x">>, <<"/", "x">>}
Envs == [cwd : {<<"/", "work">>}, home : {<<"/", "home">>}, config : Variables, xdg : {<<>>, <<" ">>, <<"x">>, <<"/", "x">>},
         dir : Variables, configured : Variables,
         db : Variables \cup {<<"x", "knowledge-usage.sqlite">>}, usage : Variables]
Exists == {<<"/", "x">>, <<"/", "work", "x">>, <<"/", "home", "x">>, <<"/", "home", ".config", "tagents", "x">>,
           <<"/", "work", "~", "x">>}

Env(dir) == [cwd |-> <<"/", "work">>, home |-> <<"/", "home">>, config |-> <<>>, xdg |-> <<>>, dir |-> dir,
             configured |-> <<>>, db |-> <<>>, usage |-> <<>>]
Worlds == {[env |-> Env(dir), exists |-> Exists, index |-> index, indexWorks |-> w, queryWorks |-> q, store |-> store,
            storeWorks |-> TRUE, now |-> 4] :
             dir \in {<<>>, <<"y">>, <<"/", "x">>}, index \in {OneIndex}, w, q \in BOOLEAN, store \in Stores}
Questions == {[issues |-> i, words |-> words, filters |-> f, limit |-> 0, id |-> id, heading |-> h,
               report |-> [since |-> Q!NoneN, top |-> Q!NoneN, type |-> "", all |-> TRUE, candidates |-> FALSE,
                           minGets |-> Q!NoneN, minDays |-> Q!NoneN]] :
                i \in BOOLEAN, words \in {<<Word("w")>>, <<>>}, f \in Filters, id \in {1, 2, 3}, h \in {"whole", "h", "z"}}
Names == {"unknown", "knowledge_search", "knowledge_get", "knowledge_list", "knowledge_usage"}

-----------------------------------------------------------------------------
Static ==
  \/ given \in [of : {"date"}, input : Dates]
  \/ given \in [of : {"body"}, input : Bodies]
  \/ given \in [of : {"front matter"}, input : FrontMatters]
  \/ given \in [of : {"source"}, input : Sources]
  \/ given \in [of : {"arguments"}, input : [schema : Schemas, args : [{"q", "n", "b"} -> ArgValues]]]
  \/ given \in [of : {"search"}, input : Searches]
  \/ given \in [of : {"history"}, input : Histories]
  \/ given \in [of : {"report"}, input : Reports]
  \/ given \in [of : {"question"}, input : [w : Worlds, name : Names, q : Questions]]
  \/ given \in [of : {"environment"}, input : Envs]

IndexInit == Init /\ given = [of |-> "index", input |-> "none"]

\* Beside an input of a pure part the index is one of its first states.
Rest == /\ folder = [d \in Docs |-> Gone] /\ edits = 0 /\ version = None
        /\ table = [t \in {Tables[i] : i \in 1..4} |-> None] /\ row = NoRows /\ section = NoTexts /\ word = NoTexts
        /\ lock = None /\ at = [c \in Calls |-> "failed"] /\ sees = [c \in Calls |-> Nothing]
        /\ tx = [row |-> NoRows, section |-> NoTexts, word |-> NoTexts]
        /\ answer = [c \in Calls |-> NoTexts] /\ shown = [c \in Calls |-> [d \in Docs |-> {}]]
        /\ blurred = {} /\ torn = FALSE

MCInit == IndexInit \/ (Rest /\ Static)
MCNext == given.of = "index" /\ Next /\ UNCHANGED given
MCSpec == MCInit /\ [][MCNext]_<<vars, given>>

-----------------------------------------------------------------------------
(* Properties *)

\* A file becomes the document it is: its days, its sections, its fields and
\* its tabs (doc.rs, front_matter.rs).
DocumentsAreRead ==
  CASE given.of = "date" -> D!DaysAreCounted(given.input)
    [] given.of = "body" -> D!SectionsAreTheText(given.input)
    [] given.of = "front matter" -> D!FieldsAreTolerated(given.input, Values)
    [] given.of = "source" -> D!TabsAreSpaces(given.input)
    [] OTHER -> TRUE

\* A query is answered with what is best, in the folder it is asked of, and
\* only after its arguments passed (args.rs, search.rs, paths.rs).
QueriesAreAnswered ==
  CASE given.of = "arguments" -> Q!ArgumentsAreChecked(given.input.schema, given.input.args)
    [] given.of = "search" -> Q!SearchesAreBest(given.input.index, given.input.words, given.input.filters, given.input.limit)
    [] given.of = "environment" -> Q!PlacesAreApart(given.input, Exists)
    [] OTHER -> TRUE

\* What was read is counted, for as long as the retention says, and recording
\* it never changes an answer (usage.rs, tools.rs).
ReadsAreCounted ==
  CASE given.of = "history" -> Q!ReadsAreCounted(given.input.calls, given.input.now, given.input.since)
    [] given.of = "report" -> Q!ReportsAreOfTheFolder(given.input.index, given.input.store, given.input.options, given.input.now)
    [] given.of = "question" -> Q!RecordingIsSilent(given.input.w, given.input.name, given.input.q)
    [] OTHER -> TRUE
=============================================================================
