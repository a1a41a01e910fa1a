------------------------------- MODULE MCMcp -------------------------------
(* Inputs of the parts of the mcp server that take a contract, a call, the    *)
(* end of a program or the bytes of a client.                                 *)
EXTENDS McpTools, Given

CONSTANTS MaxBuffer, Versions  \* McpMessages

M == INSTANCE McpMessages

-----------------------------------------------------------------------------
(* McpTools *)

\* A verb of a file, and what is wrong or unusual about it.
Verb == [path |-> <<<<1>>>>, positionals |-> <<>>, required |-> <<>>, options |-> <<>>, effect |-> "absent",
         requires |-> "absent", tool |-> "absent", defaults |-> <<>>]
Option(name, type, multiple) == [name |-> name, type |-> type, multiple |-> multiple]
Place(argument, name, brackets, dots) ==
  [argument |-> argument, name |-> name, brackets |-> brackets, dots |-> dots]
Prog(name, commands) == [name |-> name, prefixed |-> TRUE, exit |-> <<[name |-> "ok", code |-> 0]>>,
                         commands |-> commands]
X == Place("x", <<1>>, "angle", FALSE)
Y == Place("y", <<2>>, "square", FALSE)
W == Place("w", <<3>>, "angle", TRUE)
OptW == Place("w", <<3>>, "square", TRUE)
Of(kind) == CASE kind = "o" -> Option("o", "string", "absent") [] kind = "m" -> Option("m", "string", "true")
              [] kind = "b" -> Option("b", "boolean", "absent")
Default(name, value) == [name |-> name, value |-> value]

Paths == {<<<<1>>>>, <<<<0, 0, 1>>>>, <<<<1>>, <<2>>>>, <<<<1, 0, 2>>>>, <<<<1, 0, 0, 2>>>>, <<<<2>>>>}
SomeEffects == {"absent", "read", "destructive", "serve", "unheard"}

Files ==
  {<<Prog(<<9>>, <<[Verb EXCEPT !.path = p, !.effect = e], [Verb EXCEPT !.path = q, !.effect = f]>>)>> :
     p, q \in Paths, e, f \in SomeEffects}
  \cup {<<Prog(<<9>>, <<[Verb EXCEPT !.path = p]>>),
          [Prog(n, <<[Verb EXCEPT !.path = q], [Verb EXCEPT !.tool = t]>>) EXCEPT !.prefixed = FALSE]>> :
          p, q \in Paths, n \in {<<9>>, <<8>>}, t \in {"absent", "false", "other"}}
  \cup {<<Prog(<<9>>, <<[Verb EXCEPT !.effect = e, !.options = <<Option("x", type, multiple)>>,
                         !.defaults = d, !.positionals = <<p>>, !.requires = r]>>)>> :
          e \in {"unheard", "number"}, type \in {"string", "boolean", "other"},
          multiple \in {"absent", "true", "other"}, r \in {"absent", "tmux", "other"},
          d \in {<<>>} \cup {<<Default(name, value)>> : name \in {"x", "z"}, value \in {"true", "other"}},
          p \in {X, Y, [Y EXCEPT !.brackets = "none"], [Y EXCEPT !.name = <<0>>]}}
  \cup {<<[Prog(<<9>>, <<>>) EXCEPT !.exit = <<[name |-> "ok", code |-> Infinity]>>]>>}

\* The tool of one verb, and the calls of it.
Single(verb) == Head(ToolSpecs(Parse(<<Prog(<<9>>, <<verb>>)>>).value).value)

Arg(type, texts, on) == [type |-> type, texts |-> texts, on |-> on]
TextArgs == {Arg("text", <<t>>, FALSE) : t \in DOMAIN Shapes} \cup {Arg("other", <<>>, FALSE)}
ListArgs == {Arg("list", texts, FALSE) : texts \in {<<>>} \cup {<<t>> : t \in DOMAIN Shapes}
               \cup {<<"plain", t>> : t \in DOMAIN Shapes}} \cup {Arg("text", <<"plain">>, FALSE)}
BoolArgs == {Arg("boolean", <<>>, on) : on \in BOOLEAN} \cup {Arg("text", <<"plain">>, FALSE)}
Dom(name) == CASE name \in {"o", "x", "y"} -> TextArgs [] name \in {"m", "w"} -> ListArgs [] name = "b" -> BoolArgs
               [] OTHER -> {Arg("other", <<>>, FALSE)}

\* The arguments that are given some of these names.
ArgsOf(names) == UNION {{args \in [keys -> UNION {Dom(n) : n \in keys}] : \A n \in keys : args[n] \in Dom(n)} :
                          keys \in SUBSET names}

ToolCalls ==
  {[tool |-> Single([Verb EXCEPT !.options = <<Of("o"), Of("b"), Of("m")>>, !.defaults = d, !.required = r]), args |-> a] :
     d \in {<<>>, <<Default("b", "true")>>, <<Default("b", "false")>>}, r \in {<<>>, <<"o">>},
     a \in ArgsOf({"o", "b", "m"})}
  \cup {[tool |-> Single([Verb EXCEPT !.options = <<Of("m")>>, !.positionals = p]), args |-> a] :
          p \in {<<X, Y>>, <<Y>>}, a \in ArgsOf({"x", "y", "m"})}
  \cup {[tool |-> Single([Verb EXCEPT !.options = <<Of("b")>>, !.positionals = p]), args |-> a] :
          p \in {<<Y, OptW>>, <<W>>, <<>>}, a \in ArgsOf({"y", "w", "z"})}

Exits == {<<>>, <<[name |-> "ok", code |-> 0], [name |-> "error", code |-> 1], [name |-> "timeout", code |-> 4]>>,
          <<[name |-> "ok", code |-> 0], [name |-> "usage", code |-> 1], [name |-> "error", code |-> 1]>>,
          <<[name |-> "error", code |-> 5], [name |-> "none", code |-> 0]>>}
Ends == {[exit |-> exit, done |-> [reason |-> reason, code |-> code, stdout |-> out, cut |-> [stdout |-> c, stderr |-> d]]] :
           exit \in Exits, reason \in {"none", "timeout", "cancelled"}, code \in {0 - 1, 0, 1, 5, 7},
           out \in {"json", "text"}, c, d \in BOOLEAN}

-----------------------------------------------------------------------------
(* McpMessages *)

Chunks == LET chunk == UNION {[1..n -> {"x", "r", "n"}] : n \in 1..3}
          IN UNION {[1..n -> chunk] : n \in 1..3}
LineTexts == UNION {[1..n -> {"\\", "high", "low", "c"}] : n \in 1..6}

V(type, n) == [type |-> type, n |-> n]
NoValue == V("undefined", "")
SomeValues == {NoValue, V("null", ""), V("string", "v1"), V("string", "v3"), V("object", "")}
SomeIds == {NoValue, V("null", ""), V("string", ""), V("string", "0"), V("number", "0"), V("number", "1"), V("number", "1.5")}
NoMeta == [type |-> "undefined", token |-> NoValue, task |-> "undefined"]
Metas == {NoMeta, [NoMeta EXCEPT !.type = "null"]}
         \cup [type : {"object"}, token : {NoValue, V("string", "t"), V("number", "1"), V("number", "1.5"), V("null", "")},
               task : {"undefined", "with an id", "other"}]
NoFields == [f \in {"protocolVersion", "capabilities", "clientInfo", "name", "version", "arguments", "cursor", "reason",
                    "requestId"} |-> NoValue]
Message(method) == [object |-> TRUE, jsonrpc |-> "2.0", id |-> V("number", "1"), method |-> V("string", method),
                    params |-> V("object", ""), meta |-> NoMeta, more |-> FALSE, fields |-> NoFields]

Messages ==
  {[Message("ping") EXCEPT !.object = object, !.jsonrpc = jsonrpc, !.id = id, !.method = method, !.params = params,
                           !.meta = meta, !.more = more] :
     object, more \in BOOLEAN, jsonrpc \in {"2.0", "other"}, id \in SomeIds, meta \in Metas,
     method \in {V("string", "ping"), V("string", "resources/list"), V("number", "1")}, params \in {NoValue, V("object", ""), V("array", "")}}
  \cup {[Message("initialize") EXCEPT !.params = params, !.fields.protocolVersion = p, !.fields.capabilities = c,
                                      !.fields.clientInfo = i, !.fields.name = n, !.fields.version = v] :
          params \in {NoValue, V("object", "")}, p, c, i, n, v \in SomeValues}
  \cup {[Message(method) EXCEPT !.params = params, !.fields.name = n, !.fields.arguments = a, !.fields.cursor = c] :
          method \in {"tools/call", "tools/list"}, params \in {NoValue, V("object", "")}, n, a, c \in SomeValues}
  \cup {[Message(method) EXCEPT !.id = NoValue, !.params = params, !.fields.reason = r, !.fields.requestId = id] :
          method \in {"notifications/cancelled", "notifications/initialized"}, params \in {NoValue, V("object", "")},
          r \in SomeValues, id \in SomeIds}


-----------------------------------------------------------------------------
(* What an input is, of any size *)

\* A tool has options of different names, none of them empty.
HasOptions(tool) ==
  /\ tool.command.options \in Seq([name : STRING \ {""}, kind : {"boolean", "string"}, multiple : BOOLEAN])
  /\ \A i, j \in DOMAIN tool.command.options : tool.command.options[i].name = tool.command.options[j].name => i = j
  /\ tool.command.defaults \in Seq([name : STRING, value : BOOLEAN])
  /\ tool.positionals \in Seq([name : STRING, required : BOOLEAN, words : BOOLEAN])

\* The arguments of a call are values by name, and a text is one text.
IsCall(args) ==
  /\ args \in [DOMAIN args -> [type : {"text", "list", "boolean", "other"}, texts : Seq(DOMAIN Shapes), on : BOOLEAN]]
  /\ \A key \in DOMAIN args : args[key].type = "text" => Len(args[key].texts) = 1

\* A table has the names and codes in their order.
IsTable(exit) == exit \in Seq([name : STRING, code : Int])
IsEnd(done) ==
  done \in [reason : {"none", "timeout", "cancelled"}, code : Int, stdout : {"json", "text"},
            cut : [stdout : BOOLEAN, stderr : BOOLEAN]]

Bytes == {"x", "r", "n"}
IsStream(chunks) == chunks \in Seq(Seq(Bytes))

Value == [type : STRING, n : STRING]
ClientLine == [object : BOOLEAN, jsonrpc : STRING, id : Value, method : Value, params : Value,
         meta : [type : STRING, token : Value, task : STRING], more : BOOLEAN, fields : [DOMAIN NoFields -> Value]]

IsMcpInput(i) ==
  CASE i.of = "call" -> HasOptions(i.input.tool) /\ IsCall(i.input.args)
    [] i.of = "answer" -> IsTable(i.input.exit) /\ IsEnd(i.input.done)
    [] i.of = "stream" -> IsStream(i.input)
    [] i.of = "message" -> i.input.sdk \in {"Server", "McpServer"} /\ i.input.line \in ClientLine
    [] OTHER -> TRUE

-----------------------------------------------------------------------------
CallInputs == [of : {"call"}, input : ToolCalls]
AnswerInputs == [of : {"answer"}, input : Ends]
StreamInputs == [of : {"stream"}, input : Chunks]
MessageInputs == [of : {"message"}, input : [sdk : {"Server", "McpServer"}, line : Messages]]

McpInputs ==
  \/ given \in [of : {"contract"}, input : Files]
  \/ given \in [of : {"line"}, input : LineTexts]
  \/ given \in CallInputs
  \/ given \in AnswerInputs
  \/ given \in StreamInputs
  \/ given \in MessageInputs

\* The inputs above are of these.
AreMcpInputs(inputs) == \A i \in inputs : IsMcpInput(i)

\* A call of a tool becomes words that the parser of its verb reads as the same
\* call, and its answer tells what became of it; and however the bytes come,
\* the lines are those of the stream and every request among them is answered,
\* once and by its id (mcp/tools.rs, parse_args.rs, mcp/run.rs, mcp/rpc.rs,
\* mcp/server.rs).
McpIsAnswered ==
  CASE given.of = "call" -> CallsAreCarried(given.input.tool, given.input.args)
    [] given.of = "answer" -> AnswersTell(given.input.exit, given.input.done)
    [] given.of = "stream" -> M!LinesAreOfTheStream(given.input)
    [] given.of = "message" -> M!RequestsAreAnswered(given.input.sdk, given.input.line)
    [] OTHER -> TRUE
=============================================================================
