----------------------------- MODULE McpTools -----------------------------
(***************************************************************************)
(* From a contract to tools, from the arguments of a call to a command     *)
(* line, from the command line to what the verb reads of it, and from what *)
(* the program did to the answer (mcp/contract.rs, mcp/tools.rs,           *)
(* parse_args.rs, mcp/run.rs).                                             *)
(*                                                                         *)
(* A name is a sequence of characters: 0 is one that is neither a letter   *)
(* nor a digit, the rest are letters in their order.  Options and          *)
(* arguments are named by strings.  Of a text only its dashes matter.      *)
(***************************************************************************)
EXTENDS Integers, Sequences, FiniteSets, SequencesExt

Ok(value) == [error |-> "", value |-> value]
Error(reason) == [error |-> reason, value |-> <<>>]

-----------------------------------------------------------------------------
(* The contract: what is in the file *)

Booleans == {"true", "false"}
Infinity == 999

\* option: its type is known and `multiple`, where it is given, a boolean.
OptionIsRead(o) == o.type \in {"boolean", "string"} /\ o.multiple \in Booleans \cup {"absent"}
OptionShape(o) == [name |-> o.name, kind |-> o.type, multiple |-> o.multiple = "true"]

Effects == {"read", "write", "spawn", "destructive", "serve"}

\* command: an effect that is not known is dropped, keys that are not known are
\* passed over, and all the rest has its type.
CommandIsRead(c) ==
  /\ c.effect # "number" /\ c.requires \in {"absent", "tmux"} /\ c.tool \in {"absent", "false"}
  /\ \A i \in DOMAIN c.options : OptionIsRead(c.options[i])
  /\ \A i \in DOMAIN c.defaults : c.defaults[i].value \in Booleans

Command(c) ==
  [path |-> c.path, positionals |-> c.positionals, required |-> c.required,
   options |-> [i \in DOMAIN c.options |-> OptionShape(c.options[i])],
   effect |-> IF c.effect \in Effects THEN c.effect ELSE "none",
   requires_tmux |-> c.requires = "tmux", not_a_tool |-> c.tool = "false",
   defaults |-> [i \in DOMAIN c.defaults |->
                   [name |-> c.defaults[i].name, value |-> c.defaults[i].value = "true"]]]

\* programs, number: the codes of the exit table are finite.
ContractIsRead(file) ==
  \A p \in ToSet(file) :
    /\ \A i \in DOMAIN p.exit : p.exit[i].code # Infinity
    /\ \A i \in DOMAIN p.commands : CommandIsRead(p.commands[i])

Program(p) == [name |-> p.name, prefixed |-> p.prefixed, exit |-> p.exit,
               commands |-> [i \in DOMAIN p.commands |-> Command(p.commands[i])]]

\* parse: one wrong type anywhere and there is no contract.
Parse(file) ==
  IF ContractIsRead(file) THEN Ok([i \in DOMAIN file |-> Program(file[i])]) ELSE Error("contract")

-----------------------------------------------------------------------------
(* The tools *)

\* Command::option, Command::default_of: one at the most, as they are the members
\* of an object.
OptionOf(command, name) == {o \in ToSet(command.options) : o.name = name}
DefaultOf(command, name) == {d \in ToSet(command.defaults) : d.name = name}

\* Every run of other characters is one underscore.
Underscored(name) ==
  FoldLeft(LAMBDA out, c : IF c = 0 /\ out # <<>> /\ Last(out) = 0 THEN out ELSE Append(out, c), <<>>, name)

TrimStart(name) ==
  LET kept == {i \in DOMAIN name : name[i] # 0}
  IN IF kept = {} THEN <<>> ELSE SubSeq(name, Min(kept), Len(name))
Trim(name) == Reverse(TrimStart(Reverse(TrimStart(name))))

\* parse_positional: the brackets say whether it is required, the dots whether
\* it is any number of words; an argument of its own name.
Positional(p) ==
  IF p.brackets = "none" \/ Trim(Underscored(p.name)) = <<>> THEN Error("positional")
  ELSE Ok([name |-> p.argument, required |-> p.brackets = "angle", words |-> p.dots])

\* tool_name: the program without its prefix and the words of the path.
ToolName(program, path) ==
  FoldLeft(LAMBDA name, word : name \o <<0>> \o Underscored(TrimStart(word)), program.name, path)

\* annotations: a verb nobody classified may be destructive.
Annotations(effect) ==
  [readOnly |-> effect = "read",
   destructive |-> IF effect \in {"read"} THEN "unsaid"
                   ELSE IF effect \in {"write", "spawn"} THEN "no" ELSE "may"]

\* check_defaults: a default is of a boolean option the verb has.
DefaultsAreRight(command) ==
  \A d \in ToSet(command.defaults) :
    \E o \in OptionOf(command, d.name) : o.kind = "boolean"

\* input_schema, property.
Properties(command, positionals) ==
  [i \in DOMAIN positionals |-> positionals[i].name] \o [i \in DOMAIN command.options |-> command.options[i].name]

Required(command, positionals) ==
  LET wanted == SelectSeq(positionals, LAMBDA p : p.required)
  IN [i \in DOMAIN wanted |-> wanted[i].name] \o command.required

Clash(command, positionals) ==
  \E p \in ToSet(positionals), o \in ToSet(command.options) : p.name = o.name

IsTool(command) == command.effect # "serve" /\ ~command.not_a_tool

\* tool_specs, one verb: the checks in their order.
ToolOf(program, command, others) ==
  LET name == ToolName(program, command.path)
      read == [i \in DOMAIN command.positionals |-> Positional(command.positionals[i])]
      positionals == [i \in DOMAIN read |-> read[i].value]
  IN IF \E t \in ToSet(others) : t.name = name THEN Error("two verbs")
     ELSE IF ~DefaultsAreRight(command) THEN Error("toolDefaults")
     ELSE IF \E i \in DOMAIN read : read[i].error # "" THEN Error("positional")
     ELSE IF Clash(command, positionals) THEN Error("share")
     ELSE Ok([name |-> name, properties |-> Properties(command, positionals),
              required |-> Required(command, positionals), annotations |-> Annotations(command.effect),
              program |-> program.name, exit |-> program.exit, command |-> command,
              positionals |-> positionals])

\* Strings by their units.
Before(s, t) ==
  \/ IsPrefix(s, t)
  \/ \E i \in 1..Min({Len(s), Len(t)}) : SubSeq(s, 1, i - 1) = SubSeq(t, 1, i - 1) /\ s[i] < t[i]

\* The tools so far and the next one, or the first error.
WithTool(found, tool) == IF tool.error # "" THEN tool ELSE Ok(Append(found.value, tool.value))
Sorted(found) ==
  IF found.error # "" THEN found ELSE Ok(SortSeq(found.value, LAMBDA s, t : Before(s.name, t.name)))

ToolSpecs(programs) ==
  LET Verbs(program) == LET tools == SelectSeq(program.commands, IsTool)
                        IN [i \in DOMAIN tools |-> <<program, tools[i]>>]
      verbs == FlattenSeq([i \in DOMAIN programs |-> Verbs(programs[i])])
      Add(found, verb) ==
        IF found.error # "" THEN found ELSE WithTool(found, ToolOf(verb[1], verb[2], found.value))
  IN Sorted(FoldLeft(Add, Ok(<<>>), verbs))

-----------------------------------------------------------------------------
(* A call.  A value is a text, a list of texts, a boolean or another. *)

\* The texts: how each begins, and the option it would be read as.
Shapes == [plain |-> "none", dash |-> "lone", short |-> "one", end |-> "end", flag |-> "long", nul |-> "none"]
StartsWithDash(text) == Shapes[text] # "none"

\* A word of a command line: an option, with its text behind the "=" where it has
\* one, or a text as it is.
PlainWord(text) == [text |-> text, name |-> "", inline |-> <<>>]
Flag(name) == [text |-> "flag", name |-> name, inline |-> <<>>]
Carried(name, text) == [Flag(name) EXCEPT !.inline = <<text>>]

TypeOf(o) == IF o.kind = "boolean" THEN "boolean" ELSE IF o.multiple THEN "list" ELSE "text"

\* The words of one option, as the call or the default of the verb has it.
IsOn(command, args, o) ==
  IF o.name \in DOMAIN args THEN args[o.name].on ELSE \E d \in DefaultOf(command, o.name) : d.value

TextsOf(args, name) == IF name \in DOMAIN args THEN args[name].texts ELSE <<>>

FlagsOf(command, args, o) ==
  IF o.kind = "boolean" THEN IF IsOn(command, args, o) THEN <<Flag(o.name)>> ELSE <<>>
  ELSE LET texts == TextsOf(args, o.name) IN [k \in DOMAIN texts |-> Carried(o.name, texts[k])]

\* What is wrong with a positional, after those before it.
PositionalError(tool, args, i) ==
  LET p == tool.positionals[i]
  IN IF p.name \notin DOMAIN args THEN ""
     ELSE IF \E j \in 1..(i - 1) : tool.positionals[j].name \notin DOMAIN args THEN "needs"
     ELSE IF args[p.name].type # (IF p.words THEN "list" ELSE "text") THEN "type"
     ELSE IF \E text \in ToSet(args[p.name].texts) : StartsWithDash(text) THEN "dash" ELSE ""

\* The words of one positional.
WordsOf(args, p) == LET texts == TextsOf(args, p.name) IN [k \in DOMAIN texts |-> PlainWord(texts[k])]

\* argv_for: the checks in their order; then the words, the flags, the values.
ArgvFor(tool, args) ==
  LET command == tool.command
      options == command.options
      positionals == tool.positionals
      wrong == {i \in DOMAIN options : options[i].name \in DOMAIN args /\ args[options[i].name].type # TypeOf(options[i])}
      bad == {i \in DOMAIN positionals : PositionalError(tool, args, i) # ""}
  IN IF ~(DOMAIN args \subseteq ToSet(tool.properties)) THEN Error("unknown")
     ELSE IF ~(ToSet(tool.required) \subseteq DOMAIN args) THEN Error("missing")
     ELSE IF \E key \in DOMAIN args : "nul" \in ToSet(args[key].texts) THEN Error("NUL")
     ELSE IF wrong # {} THEN Error("type")
     ELSE IF bad # {} THEN Error(PositionalError(tool, args, Min(bad)))
     ELSE Ok([path |-> command.path,
              words |-> FlattenSeq([i \in DOMAIN options |-> FlagsOf(command, args, options[i])])
                        \o FlattenSeq([i \in DOMAIN positionals |-> WordsOf(args, positionals[i])])])

-----------------------------------------------------------------------------
(* The verb reads its command line *)

LooksLikeAnOption(word) == Shapes[word.text] \in {"one", "end", "long"}

Unread(command) ==
  [error |-> "", texts |-> [name \in {o.name : o \in ToSet(command.options)} |-> <<>>], flags |-> {},
   positionals |-> <<>>, wants |-> "", ended |-> FALSE]

\* keep: a text option keeps its last value, one of many every value.
Keep(parsed, o, text) ==
  [parsed EXCEPT !.texts[o.name] = IF o.multiple THEN Append(@, text) ELSE <<text>>]

\* read, one word on.
ReadWord(command, positionals, parsed, word) ==
  LET Fails(reason) == [parsed EXCEPT !.error = reason]
      Takes == IF positionals THEN [parsed EXCEPT !.positionals = Append(@, word.text)] ELSE Fails("positional")
      options == OptionOf(command, IF parsed.wants # "" THEN parsed.wants ELSE word.name)
      option == CHOOSE o \in options : TRUE
      shape == Shapes[word.text]
  IN IF parsed.error # "" THEN parsed
     ELSE IF parsed.ended THEN Takes
     ELSE IF parsed.wants # ""
       THEN IF LooksLikeAnOption(word) THEN Fails("ambiguous") ELSE Keep([parsed EXCEPT !.wants = ""], option, word.text)
     ELSE IF shape = "end" THEN [parsed EXCEPT !.ended = TRUE]
     ELSE IF shape \in {"none", "lone"} THEN Takes
     ELSE IF shape = "one" \/ options = {} THEN Fails("unknown")
     ELSE IF option.kind = "boolean"
       THEN IF word.inline # <<>> THEN Fails("no argument") ELSE [parsed EXCEPT !.flags = @ \cup {word.name}]
     ELSE IF word.inline # <<>> THEN Keep(parsed, option, word.inline[1])
     ELSE [parsed EXCEPT !.wants = word.name]

\* parse, parse_with_positionals.
ReadWords(command, positionals, words) ==
  LET read[n \in 0..Len(words)] ==
        IF n = 0 THEN Unread(command) ELSE ReadWord(command, positionals, read[n - 1], words[n])
      parsed == read[Len(words)]
  IN IF parsed.error = "" /\ parsed.wants # "" THEN [parsed EXCEPT !.error = "missing"] ELSE parsed

-----------------------------------------------------------------------------
(* The answer *)

\* Tool::code, outcome_of: the first name of a code, the first code of a name.
Code(exit, name, fallback) ==
  LET named == {i \in DOMAIN exit : exit[i].name = name} IN IF named = {} THEN fallback ELSE exit[Min(named)].code
OutcomeOf(exit, code) ==
  LET coded == {i \in DOMAIN exit : exit[i].code = code} IN IF coded = {} THEN "exit" ELSE exit[Min(coded)].name

Killed == 0 - 1

\* finish, parsed_or_text: a text that was cut stays a text.
Stdout(stdout, cut) == IF stdout = "json" /\ ~cut THEN "parsed" ELSE "text"

\* run, finish: how the program ended, by the table of the tool.
Answer(exit, done) ==
  LET code == IF done.reason = "timeout" THEN Code(exit, "timeout", 4)
              ELSE IF done.reason = "cancelled" \/ done.code = Killed THEN Code(exit, "error", 1)
              ELSE done.code
  IN [code |-> code, outcome |-> IF done.reason = "none" THEN OutcomeOf(exit, code) ELSE done.reason,
      stdout |-> Stdout(done.stdout, done.cut.stdout), truncated |-> done.cut.stdout \/ done.cut.stderr,
      isError |-> code # 0]

-----------------------------------------------------------------------------
(* What they have to agree with *)

\* A contract without the effects that are not known, and the verbs it offers.
AsRead(file) ==
  [i \in DOMAIN file |-> [file[i] EXCEPT !.commands =
     [j \in DOMAIN @ |-> IF @[j].effect = "unheard" THEN [@[j] EXCEPT !.effect = "absent"] ELSE @[j]]]]
Offered(file) ==
  {v \in (DOMAIN file) \X (1..3) :
     /\ v[2] \in DOMAIN file[v[1]].commands
     /\ file[v[1]].commands[v[2]].effect # "serve" /\ file[v[1]].commands[v[2]].tool = "absent"}

ToolsAreRight(tools, offered) ==
  /\ Len(tools) = Cardinality(offered)
  /\ \A s, t \in DOMAIN tools : s < t => Before(tools[s].name, tools[t].name) /\ tools[s].name # tools[t].name
  /\ \A t \in ToSet(tools) :
       /\ Cardinality(ToSet(t.properties)) = Len(t.properties)
       /\ \A d \in ToSet(t.command.defaults) : \A p \in ToSet(t.positionals) : d.name # p.name
       /\ t.annotations.readOnly => t.command.effect = "read"
SpecsAreRight(specs, file) == specs.error = "" => ToolsAreRight(specs.value, Offered(file))
ReadsTheSame(parsed, plain, file) ==
  parsed = plain /\ (parsed.error = "" => SpecsAreRight(ToolSpecs(parsed.value), file))

\* One key more and an effect that is not known take no tool away: they are the
\* tools of the file without them.  A tool is a verb and a verb at most one tool,
\* of a name no other has; an argument is a positional or an option, not both,
\* and what is required can be given.
ToolsAreOfTheContract(file) == ReadsTheSame(Parse(file), Parse(AsRead(file)), file)

\* The verb reads of the command line exactly what the call gave, with the
\* defaults of the contract for what it left out: no value becomes a flag, none
\* is lost and none moves to another argument.  And a call is refused only for
\* a reason the schema, the dashes or the NUL give; a required list of words
\* may be empty, although the schema asks for one.
CallsAreCarried(tool, args) ==
  LET argv == ArgvFor(tool, args)
      options == ToSet(tool.command.options)
      read == ReadWords(tool.command, tool.positionals # <<>>, argv.value.words)
      texts(i) == TextsOf(args, tool.positionals[i].name)
      IsTyped(key) ==
        /\ \A p \in ToSet(tool.positionals) : p.name = key => args[key].type = (IF p.words THEN "list" ELSE "text")
        /\ \A o \in options : o.name = key => args[key].type = TypeOf(o)
  IN /\ argv.error = "" =>
          /\ read.error = ""
          /\ \A o \in options :
               IF o.kind = "boolean"
                 THEN o.name \in read.flags <=>
                        IF o.name \in DOMAIN args THEN args[o.name].on
                        ELSE \E d \in ToSet(tool.command.defaults) : d.name = o.name /\ d.value
               ELSE read.texts[o.name] = TextsOf(args, o.name)
          /\ read.positionals = FlattenSeq([i \in DOMAIN tool.positionals |-> texts(i)])
     /\ argv.error # "" <=>
          \/ \E key \in DOMAIN args : key \notin ToSet(tool.properties)
          \/ \E key \in ToSet(tool.required) : key \notin DOMAIN args
          \/ \E key \in DOMAIN args : ~IsTyped(key) \/ "nul" \in ToSet(args[key].texts)
          \/ \E i, j \in DOMAIN tool.positionals :
               i < j /\ tool.positionals[i].name \notin DOMAIN args /\ tool.positionals[j].name \in DOMAIN args
          \/ \E i \in DOMAIN tool.positionals : \E text \in ToSet(texts(i)) : StartsWithDash(text)

\* A stopped or killed program is an error by the table of every verb whose
\* errors are not zero, whatever it printed; the name and the code of an answer
\* are of one entry, where the table has the code; a cut output is said to be
\* cut and is never taken for a document.
AnswersTell(exit, done) ==
  LET answer == Answer(exit, done)
      entries == {<<e.name, e.code>> : e \in ToSet(exit)}
  IN /\ done.reason # "none" \/ done.code = Killed =>
          answer.isError \/ \E e \in ToSet(exit) : e.name \in {"error", "timeout"} /\ e.code = 0
     /\ done.reason = "none" /\ (\E e \in entries : e[2] = answer.code) =>
          <<answer.outcome, answer.code>> \in entries
     /\ done.reason = "none" /\ done.code # Killed => answer.code = done.code
     /\ done.cut.stdout => answer.truncated /\ answer.stdout = "text"
=============================================================================
