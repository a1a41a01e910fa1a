----------------------------- MODULE MCSessions ----------------------------
(* Inputs of the references of sessions: documents with a few faults, and    *)
(* directories of the hook.                                                  *)
EXTENDS Given, Integers, Sequences

Refs == INSTANCE SessionRefs

-----------------------------------------------------------------------------
(* SessionRefs *)

TextValues == {Refs!Absent, Refs!Null, Refs!Str(""), Refs!Str("w"), Refs!Str("nul"), [type |-> "units", text |-> "w"], [type |-> "other", text |-> ""]}
List(type, items) == [type |-> type, items |-> items]
NoList == List("absent", <<>>)
Entry(name, value) == [name |-> name, value |-> value]
PlainSpec == [object |-> TRUE, kind |-> Refs!Str("claude"), cwd |-> Refs!Str("w"),
              skipPermissions |-> [type |-> "boolean", text |-> "false"], label |-> Refs!Absent, model |-> Refs!Absent,
              effort |-> Refs!Absent, systemPromptFile |-> Refs!Absent, mcpConfig |-> Refs!Absent, bin |-> Refs!Absent,
              logFile |-> Refs!Absent, configDir |-> Refs!Absent, disallowedTools |-> NoList, env |-> NoList]
PlainDoc == [object |-> TRUE, loneKey |-> FALSE, id |-> Refs!Str("w"), claudeSessionId |-> Refs!Null, transcript |-> Refs!Null,
             spec |-> PlainSpec]
RefDocs ==
  {[PlainDoc EXCEPT !.object = o, !.loneKey = l, !.id = i, !.claudeSessionId = c, !.transcript = t, !.spec.configDir = d] :
     o, l \in BOOLEAN, i \in TextValues, c, t, d \in TextValues}
  \cup {[PlainDoc EXCEPT !.spec.kind = k, !.spec.cwd = c, !.spec.skipPermissions = s, !.spec.label = l, !.spec.bin = b] :
     k \in {Refs!Str("claude"), Refs!Str("w"), Refs!Absent}, c, l, b \in TextValues,
     s \in {[type |-> "boolean", text |-> "true"], Refs!Absent, Refs!Str("true")}}
  \cup {[PlainDoc EXCEPT !.spec.disallowedTools = t, !.spec.env = e] :
     t \in {NoList, List("other", <<>>)} \cup {List("array", items) : items \in UNION {[1..n -> TextValues \ {Refs!Absent}] : n \in 0..2}},
     e \in {NoList, List("other", <<>>), List("object", <<>>)} \cup
           {List("object", <<Entry(name, value), Entry("A", Refs!Str("w"))>>) :
              name \in {"", "=", "nul", "__proto__", "B"}, value \in TextValues \ {Refs!Absent}}}

RowFile(name, at, state, session, transcript, fields) ==
  [name |-> name, key |-> TRUE, fields |-> fields, finite |-> TRUE, at |-> at, state |-> state, session |-> session,
   transcript |-> transcript, configDir |-> ""]
AnyRows(name, sessions) ==
  {RowFile(name, at, state, session, transcript, 6) : at \in 1..2, state \in {"done", "subdone"}, session \in sessions,
     transcript \in {"", "t"}}
  \cup {RowFile(name, 2, "blocked", session, "u", fields) : session \in sessions, fields \in {5, 8}}
HookFiles == {<<one, two, three>> : one \in AnyRows(<<0>>, {<<1, 2>>, <<1>>}), two \in AnyRows(<<9, 1>>, {<<1, 2>>, <<>>}),
                                    three \in AnyRows(<<9, 2>>, {<<1, 2>>})}
HistoryLine(whole, kind, session, label) == [whole |-> whole, kind |-> kind, session |-> session, label |-> label]
HookHistories == {<<>>, <<HistoryLine(TRUE, "start", <<1>>, "x"), HistoryLine(TRUE, "end", <<1>>, ""), HistoryLine(FALSE, "turn", <<1>>, "y"),
                          HistoryLine(TRUE, "other", <<1, 2>>, "z"), HistoryLine(TRUE, "turn", <<1, 2>>, "x"), HistoryLine(TRUE, "end", <<1, 2>>, "y")>>}
Hooks == [files : HookFiles, history : HookHistories, raw : {<<1>>, <<1, 2>>, <<9>>, <<3>>}]
Disk == [t |-> "said", u |-> "unreadable"]

Opens == [files : {<<RowFile(<<0>>, 1, "done", <<1>>, "t", 6)>>}, cwd : {"/w", "gone"}, random : BOOLEAN,
          args : [refused : BOOLEAN, cwd : {"absent", "", "relative", "absolute"}, configDir : {Refs!None, Refs!Some(""), Refs!Some("w")},
                  noConfigDir : BOOLEAN, skipPermissions : BOOLEAN,
                  resume : {[some |-> FALSE, session |-> <<>>]} \cup [some : {TRUE}, session : {<<>>, <<1>>, <<2>>}],
                  texts : [{"label", "model", "effort", "systemPromptFile", "mcpConfig"} -> {Refs!None, Refs!Some("")}]]]

-----------------------------------------------------------------------------
(* What an input is, of any size *)

JsonValue == [type : STRING, text : STRING]
Document ==
  [object : BOOLEAN, loneKey : BOOLEAN, id : JsonValue, claudeSessionId : JsonValue, transcript : JsonValue,
   spec : [object : BOOLEAN, kind : JsonValue, cwd : JsonValue, skipPermissions : JsonValue, label : JsonValue,
           model : JsonValue, effort : JsonValue, systemPromptFile : JsonValue, mcpConfig : JsonValue,
           bin : JsonValue, logFile : JsonValue, configDir : JsonValue,
           disallowedTools : [type : STRING, items : Seq(JsonValue)],
           env : [type : STRING, items : Seq([name : STRING, value : JsonValue])]]]

\* The files of a directory have different names.
HookFile == [name : Seq(Nat), key : BOOLEAN, fields : Nat, finite : BOOLEAN, at : Int, state : STRING,
             session : Seq(Nat), transcript : STRING, configDir : STRING]
IsDirectory(files) ==
  files \in Seq(HookFile) /\ \A i, j \in DOMAIN files : files[i].name = files[j].name => i = j
IsHistory(history) == history \in Seq([whole : BOOLEAN, kind : STRING, session : Seq(Nat), label : STRING])

\* No argument of a command line holds a nul, and no path of a row.
ArgumentText == {Refs!None} \cup [some : {TRUE}, text : STRING \ {"nul"}]
Arguments ==
  [refused : BOOLEAN, cwd : {"absent", "", "relative", "absolute"}, configDir : ArgumentText,
   noConfigDir : BOOLEAN, skipPermissions : BOOLEAN, resume : [some : BOOLEAN, session : Seq(Nat)],
   texts : [Refs!OptionalKeys \ {"bin", "logFile"} -> ArgumentText]]

IsSessionInput(i) ==
  CASE i.of = "reference" -> i.input \in Document
    [] i.of = "hook" -> IsDirectory(i.input.files) /\ IsHistory(i.input.history) /\ i.input.raw \in Seq(Nat)
    [] i.of = "open" -> /\ IsDirectory(i.input.files) /\ i.input.args \in Arguments /\ i.input.random \in BOOLEAN
                        /\ \A k \in DOMAIN i.input.files : i.input.files[k].transcript # "nul"
    [] OTHER -> TRUE

-----------------------------------------------------------------------------
DocumentInputs == [of : {"reference"}, input : RefDocs]
HookInputs == [of : {"hook"}, input : Hooks]
OpenInputs == [of : {"open"}, input : Opens]

SessionInputs == given \in DocumentInputs \/ given \in HookInputs \/ given \in OpenInputs

\* The inputs above are of these.
AreSessionInputs(inputs) == \A i \in inputs : IsSessionInput(i)

\* What is taken as a reference is printed as the same one, what `session open`
\* prints is taken, and a session is found by what it is listed with
\* (session/reference.rs, session/read.rs, notify/state.rs).
SessionsAreFound ==
  LET i == given.input
  IN CASE given.of = "reference" -> Refs!ReferencesReadBack(i)
       [] given.of = "hook" -> Refs!SessionsAreFound(i.files, i.history, i.raw, Disk)
       [] given.of = "open" -> Refs!OpenedIsTaken(i.args, i.cwd, i.files, i.random)
       [] OTHER -> TRUE
=============================================================================
