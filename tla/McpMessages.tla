---------------------------- MODULE McpMessages ----------------------------
(***************************************************************************)
(* From the bytes of a client to the answer of a server (mcp/rpc.rs and    *)
(* the requests of mcp/server.rs): the stream cut into lines, a line read  *)
(* as a request or a notification, and the params of a request held to the *)
(* schema of its method.                                                   *)
(*                                                                         *)
(* A byte is "x", "r" or "n"; the text of a line is what the repair of     *)
(* halves of pairs looks at; a value is its type and a name or number.     *)
(***************************************************************************)
EXTENDS Integers, Sequences, FiniteSets, SequencesExt

CONSTANTS
  MaxBuffer,  \* the bytes of an unfinished line that are kept
  Versions    \* the protocol versions, newest first

-----------------------------------------------------------------------------
(* Framer *)

\* One carriage return goes with its newline.
Cut(line) == IF line # <<>> /\ Last(line) = "r" THEN Front(line) ELSE line

\* next_line, until there is none: the lines that a newline ended, and the rest.
Lines(buf) ==
  LET read[n \in 0..Len(buf)] ==
        IF n = 0 THEN [lines |-> <<>>, rest |-> <<>>]
        ELSE IF buf[n] = "n" THEN [lines |-> Append(read[n - 1].lines, Cut(read[n - 1].rest)), rest |-> <<>>]
        ELSE [read[n - 1] EXCEPT !.rest = Append(@, buf[n])]
  IN read[Len(buf)]

\* Mutant: only what is kept is measured.
Overflows_Kept(buf, chunk) == Len(buf) > MaxBuffer

\* push: what is held and the chunk.
Overflows(buf, chunk) == Len(buf) + Len(chunk) > MaxBuffer

\* serve: a stream that overflows is read no more.
ReadChunk(at, chunk) ==
  IF at.over THEN at
  ELSE IF Overflows(at.buf, chunk) THEN [at EXCEPT !.over = TRUE, !.buf = <<>>]
  ELSE LET cut == Lines(at.buf \o chunk)
       IN [buf |-> cut.rest, lines |-> at.lines \o cut.lines, over |-> FALSE]

Frame(chunks) ==
  LET read[n \in 0..Len(chunks)] ==
        IF n = 0 THEN [buf |-> <<>>, lines |-> <<>>, over |-> FALSE]
        ELSE ReadChunk(read[n - 1], chunks[n])
  IN read[Len(chunks)]

-----------------------------------------------------------------------------
(* without_lone_surrogates: "\" and what comes after it, "high" and "low"     *)
(* for the escapes of the halves of a pair                                    *)

IsPair(text, at) ==
  /\ at + 3 <= Len(text) /\ text[at + 1] = "high" /\ text[at + 2] = "\\" /\ text[at + 3] = "low"

\* How far the reader goes on: an escape is two, a pair four.
Step(text, at) ==
  IF text[at] # "\\" THEN 1 ELSE IF IsPair(text, at) THEN 4 ELSE 2

\* The places where an escape begins, as the reader comes by.
Begins(text) ==
  LET by[i \in 1..(Len(text) + 4)] ==
        i = 1 \/ \E j \in (IF i > 4 THEN i - 4 ELSE 1)..(i - 1) : j <= Len(text) /\ by[j] /\ j + Step(text, j) = i
  IN {i \in DOMAIN text : by[i] /\ text[i] = "\\"}

WithoutLoneSurrogates(text) ==
  LET lone == {i \in Begins(text) : i < Len(text) /\ text[i + 1] \in {"high", "low"} /\ ~IsPair(text, i)}
  IN [i \in DOMAIN text |-> IF i - 1 \in lone THEN "fffd" ELSE text[i]]

-----------------------------------------------------------------------------
(* parse *)

Missing == [type |-> "undefined", n |-> ""]
IsString(v) == v.type = "string"

\* safe_integer and Id::from_json.
IsId(v) == v.type = "string" \/ (v.type = "number" /\ v.n \in {"0", "1"})
IsFalsy(id) == id.n \in {"", "0"} /\ (id.type = "number" <=> id.n = "0")

\* meta_is_valid.
MetaIsValid(meta) ==
  \/ meta.type = "undefined"
  \/ /\ meta.type = "object"
     /\ meta.token.type \in {"undefined", "string"} \/ (meta.token.type = "number" /\ meta.token.n \in {"0", "1"})
     /\ meta.task \in {"undefined", "with an id"}

Nothing == [is |-> "nothing", id |-> Missing, method |-> "", params |-> Missing]

\* parse: the strict envelope, or nothing.
Parse(line) ==
  IF \/ ~line.object \/ line.jsonrpc # "2.0" \/ ~IsString(line.method) \/ line.more
     \/ line.params.type \notin {"undefined", "object"}
     \/ (line.params.type = "object" /\ ~MetaIsValid(line.meta))
     \/ (line.id.type # "undefined" /\ ~IsId(line.id))
    THEN Nothing
    ELSE [is |-> IF line.id.type = "undefined" THEN "notification" ELSE "request",
          id |-> line.id, method |-> line.method.n, params |-> line.params]

-----------------------------------------------------------------------------
(* The params of a request: one issue for each place that does not fit *)

Issue(path, expected, v) == <<[path |-> path, expected |-> expected, received |-> v.type]>>
StringAt(v, path) == IF IsString(v) THEN <<>> ELSE Issue(path, "string", v)
ObjectAt(v, path) == IF v.type = "object" THEN <<>> ELSE Issue(path, "object", v)
MissingParams == Issue("params", "object", Missing)

\* initialize: in the order of the keys, those of the client last.
InitializeIssues(p, fields) ==
  IF p.type = "undefined" THEN MissingParams
  ELSE StringAt(fields.protocolVersion, "protocolVersion") \o ObjectAt(fields.capabilities, "capabilities")
       \o IF fields.clientInfo.type = "object"
            THEN StringAt(fields.name, "name") \o StringAt(fields.version, "version")
            ELSE ObjectAt(fields.clientInfo, "clientInfo")

\* The version that was asked for, or the newest.
ProtocolVersion(requested) ==
  IF requested.n \in {Versions[i] : i \in DOMAIN Versions} THEN requested.n ELSE Versions[1]

\* call_params: no arguments is not an empty object.
CallIssues(p, fields) ==
  IF p.type = "undefined" THEN MissingParams
  ELSE StringAt(fields.name, "name")
       \o IF fields.arguments.type \in {"undefined", "object"} THEN <<>>
          ELSE Issue("arguments", "record", fields.arguments)

ListIssues(p, fields) ==
  IF p.type = "undefined" \/ fields.cursor.type \in {"undefined", "string"} THEN <<>>
  ELSE StringAt(fields.cursor, "cursor")

IssuesOf(method, p, fields) ==
  CASE method = "initialize" -> InitializeIssues(p, fields)
    [] method = "tools/call" -> CallIssues(p, fields)
    [] method = "tools/list" -> ListIssues(p, fields)
    [] OTHER -> <<>>

\* request, refuse: in the words of the class of the SDK.
Said(is, id, what, issues) == [is |-> is, id |-> id, what |-> what, issues |-> issues]
Silence == Said("silence", Missing, "", <<>>)

Answer(sdk, m, fields) ==
  LET issues == IssuesOf(m.method, m.params, fields)
  IN CASE m.method \notin {"initialize", "ping", "tools/list", "tools/call"} -> Said("failure", m.id, "-32601", <<>>)
       [] m.method = "ping" -> Said("success", m.id, "", <<>>)
       [] m.method \in {"initialize", "tools/list", "tools/call"} /\ issues # <<>> ->
            IF sdk = "Server" THEN Said("failure", m.id, "-32602", <<Head(issues)>>)
            ELSE Said("failure", m.id, "-32603", issues)
       [] m.method = "initialize" /\ issues = <<>> ->
            Said("success", m.id, ProtocolVersion(fields.protocolVersion), <<>>)
       [] m.method = "tools/list" /\ issues = <<>> -> Said("success", m.id, "", <<>>)
       [] OTHER -> Said("call", m.id, fields.name.n, <<>>)

\* notification: what it stops, when it fits.
CancelledId(m, fields) ==
  IF /\ m.method = "notifications/cancelled" /\ m.params.type = "object"
     /\ fields.reason.type \in {"undefined", "string"} /\ IsId(fields.requestId)
     /\ ~IsFalsy(fields.requestId)
    THEN fields.requestId ELSE Missing

\* dispatch.
Dispatch(sdk, line) ==
  LET m == Parse(line)
  IN CASE m.is = "request" -> Answer(sdk, m, line.fields)
       [] m.is = "notification" /\ CancelledId(m, line.fields) # Missing ->
            Said("cancel", CancelledId(m, line.fields), "", <<>>)
       [] OTHER -> Silence

-----------------------------------------------------------------------------
(* Properties *)

\* The lines do not depend on how the bytes came: they are those of the whole
\* stream, up to where it is given up on, and none is longer than the buffer;
\* one that its newline did not end is never a line (Framer, serve).
LinesAreOfTheStream(chunks) ==
  LET read == Frame(chunks)
      whole == Lines(FlattenSeq(chunks)).lines
  IN /\ IsPrefix(read.lines, whole)
     /\ ~read.over => read.lines = whole
     /\ read.over => \E i \in DOMAIN chunks : Len(Frame(SubSeq(chunks, 1, i - 1)).buf) + Len(chunks[i]) > MaxBuffer
     /\ \A i \in DOMAIN read.lines : Len(read.lines[i]) < MaxBuffer
     /\ Len(read.buf) <= MaxBuffer

\* A JSON reader that knows no halves takes every line that one that does took,
\* with nothing else of it changed, an escaped backslash included.
HalvesAreReplaced(text) ==
  LET fixed == WithoutLoneSurrogates(text)
      odd(i) == \E k \in 1..i : /\ \A j \in k..i : text[j] = "\\"
                                /\ k = 1 \/ text[k - 1] # "\\"
                                /\ (i - k) % 2 = 0
      escape(i) == i > 1 /\ text[i] \in {"high", "low"} /\ odd(i - 1)
      paired(i) == \/ text[i] = "high" /\ i + 2 <= Len(text) /\ text[i + 1] = "\\" /\ text[i + 2] = "low"
                   \/ text[i] = "low" /\ i > 3 /\ text[i - 1] = "\\" /\ text[i - 2] = "high" /\ escape(i - 2)
  IN \A i \in DOMAIN text : fixed[i] = IF escape(i) /\ ~paired(i) THEN "fffd" ELSE text[i]

\* Every request is answered, and with its own id; what is no message is met
\* with silence, and no notification is answered. A refusal tells every place
\* that does not fit once, or the first one, and a request that fits is never
\* refused (parse, request, refuse).
RequestsAreAnswered(sdk, line) ==
  LET said == Dispatch(sdk, line)
      m == Parse(line)
      wrong == CASE m.method = "initialize" ->
                      {k \in {"protocolVersion"} : ~IsString(line.fields[k])}
                      \cup {k \in {"capabilities", "clientInfo"} : line.fields[k].type # "object"}
                      \cup {k \in {"name", "version"} : line.fields.clientInfo.type = "object" /\ ~IsString(line.fields[k])}
                 [] m.method = "tools/call" ->
                      {k \in {"name"} : ~IsString(line.fields[k])}
                      \cup {k \in {"arguments"} : line.fields[k].type \notin {"undefined", "object"}}
                 [] m.method = "tools/list" -> {k \in {"cursor"} : line.fields[k].type \notin {"undefined", "string"}}
                 [] OTHER -> {}
      told == {said.issues[i].path : i \in DOMAIN said.issues}
  IN /\ m.is = "request" <=> said.is \in {"success", "failure", "call"}
     /\ m.is = "request" => said.id = line.id
     /\ m.is = "request" /\ m.params.type = "object" =>
          /\ wrong = {} <=> said.is # "failure" \/ said.what = "-32601"
          /\ sdk = "McpServer" => told = wrong /\ \A i, j \in DOMAIN said.issues : said.issues[i].path = said.issues[j].path => i = j
          /\ sdk = "Server" => told \subseteq wrong /\ (wrong = {} \/ Len(said.issues) = 1)
     /\ said.is = "cancel" => said.id = line.fields.requestId /\ ~IsFalsy(said.id)
     /\ said.is = "success" /\ m.method = "initialize" =>
          said.what = line.fields.protocolVersion.n \/ (said.what = Versions[1] /\ line.fields.protocolVersion.n \notin {Versions[i] : i \in DOMAIN Versions})
=============================================================================
