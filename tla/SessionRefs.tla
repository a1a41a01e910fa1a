---------------------------- MODULE SessionRefs ----------------------------
(***************************************************************************)
(* The reference of a session: what `session open` prints and every other  *)
(* session verb takes, and the records of the hook it stands for           *)
(* (session/reference.rs, session/read.rs, notify/state.rs).               *)
(*                                                                         *)
(* A JSON value is its type and its text.  A text is "", a word, "nul"     *)
(* (it holds one) or "=" (it holds one); a "units" value is a string with  *)
(* half of a surrogate pair.                                               *)
(***************************************************************************)
EXTENDS Naturals, Sequences, SequencesExt, FiniteSets, FiniteSetsExt, Functions

Absent == [type |-> "absent", text |-> ""]
Null == [type |-> "null", text |-> ""]
Str(text) == [type |-> "string", text |-> text]
OrNull(text) == IF text.some THEN Str(text.text) ELSE Null
Some(text) == [some |-> TRUE, text |-> text]
None == [some |-> FALSE, text |-> ""]
NonEmpty(text) == IF text = "" THEN None ELSE Some(text)

-----------------------------------------------------------------------------
(* A document, and the reference it is read as.  A list and an environment   *)
(* are sequences: of values, and of pairs of a name and a value.             *)

OptionalKeys == {"label", "model", "effort", "systemPromptFile", "mcpConfig", "bin", "logFile"}

IsText(value) == value.type \in {"string", "units"}
IsNullable(value) == value.type \in {"string", "units", "null"}

\* filter: the entries at these places, in their order.
Keep(s, places) ==
  LET kept[n \in 0..Len(s)] ==
        IF n = 0 THEN <<>> ELSE IF n \in places THEN Append(kept[n - 1], s[n]) ELSE kept[n - 1]
  IN kept[Len(s)]

\* env: a name `__proto__` is dropped whatever it holds.
KeptEnv(env) == Keep(env, {i \in DOMAIN env : env[i].name # "__proto__"})

\* Reader::spec and Reader::reference, what they accept.
IsValid(doc) ==
  LET spec == doc.spec
  IN /\ doc.object /\ IsText(doc.id) /\ IsNullable(doc.claudeSessionId) /\ IsNullable(doc.transcript)
     /\ spec.object /\ spec.kind = Str("claude") /\ IsText(spec.cwd) /\ spec.skipPermissions.type = "boolean"
     /\ \A key \in OptionalKeys : spec[key] = Absent \/ IsText(spec[key])
     /\ spec.configDir = Absent \/ IsNullable(spec.configDir)
     /\ spec.disallowedTools.type \in {"absent", "array"}
     /\ \A i \in DOMAIN spec.disallowedTools.items : IsText(spec.disallowedTools.items[i])
     /\ spec.env.type \in {"absent", "object"}
     /\ \A i \in DOMAIN KeptEnv(spec.env.items) : IsText(KeptEnv(spec.env.items)[i].value)

\* Reader::text: the strings of a valid document that it keeps.
KeptStrings(doc) ==
  LET spec == doc.spec
      env == KeptEnv(spec.env.items)
      values == {doc.id, doc.claudeSessionId, doc.transcript, spec.cwd, spec.configDir}
                \cup {spec[key] : key \in OptionalKeys} \cup Range(spec.disallowedTools.items)
                \cup {env[i].value : i \in DOMAIN env}
  IN {value \in values : IsText(value)}

\* A key with half a pair, a string that cannot be rebuilt, a variable that
\* cannot be set, a program that has no name.
IsUnusable(doc) ==
  \/ doc.loneKey
  \/ \E value \in KeptStrings(doc) : value.type = "units" \/ value.text = "nul"
  \/ \E i \in DOMAIN KeptEnv(doc.spec.env.items) : KeptEnv(doc.spec.env.items)[i].name \in {"", "=", "nul"}
  \/ doc.spec.bin = Str("")

Maybe(value) == IF value.type = "absent" THEN None ELSE Some(value.text)
MaybeNull(value) == IF value.type \in {"null", "absent"} THEN None ELSE Some(value.text)

\* Reader::reference of a document that is valid and usable.
ReferenceOf(doc) ==
  [id |-> doc.id.text, claudeSessionId |-> MaybeNull(doc.claudeSessionId), transcript |-> MaybeNull(doc.transcript),
   cwd |-> doc.spec.cwd.text, skipPermissions |-> doc.spec.skipPermissions.text = "true",
   texts |-> [key \in OptionalKeys |-> Maybe(doc.spec[key])],
   configDir |-> [given |-> doc.spec.configDir # Absent, dir |-> MaybeNull(doc.spec.configDir)],
   tools |-> [given |-> doc.spec.disallowedTools.type = "array",
              names |-> [i \in DOMAIN doc.spec.disallowedTools.items |-> doc.spec.disallowedTools.items[i].text]],
   env |-> [given |-> doc.spec.env.type = "object",
            set |-> LET env == KeptEnv(doc.spec.env.items)
                    IN [i \in DOMAIN env |-> [name |-> env[i].name, value |-> env[i].value.text]]]]

\* read
Read(doc) ==
  IF ~IsValid(doc) THEN [kind |-> "invalid", refs |-> <<>>]
  ELSE IF IsUnusable(doc) THEN [kind |-> "unusable", refs |-> <<>>]
  ELSE [kind |-> "ref", refs |-> <<ReferenceOf(doc)>>]

\* Absent, null (the default account) or a directory.
ConfigDirValue(configDir) == IF configDir.given THEN OrNull(configDir.dir) ELSE Absent

\* Reference::to_value
ToValue(ref) ==
  LET text(key) == IF ref.texts[key].some THEN Str(ref.texts[key].text) ELSE Absent
  IN [object |-> TRUE, loneKey |-> FALSE, id |-> Str(ref.id), claudeSessionId |-> OrNull(ref.claudeSessionId),
      transcript |-> OrNull(ref.transcript),
      spec |->
        [object |-> TRUE, kind |-> Str("claude"), cwd |-> Str(ref.cwd),
         skipPermissions |-> [type |-> "boolean", text |-> IF ref.skipPermissions THEN "true" ELSE "false"],
         label |-> text("label"), model |-> text("model"), effort |-> text("effort"),
         systemPromptFile |-> text("systemPromptFile"), mcpConfig |-> text("mcpConfig"), bin |-> text("bin"),
         logFile |-> text("logFile"), configDir |-> ConfigDirValue(ref.configDir),
         disallowedTools |-> [type |-> IF ref.tools.given THEN "array" ELSE "absent",
                              items |-> [i \in DOMAIN ref.tools.names |-> Str(ref.tools.names[i])]],
         env |-> [type |-> IF ref.env.given THEN "object" ELSE "absent",
                  items |-> [i \in DOMAIN ref.env.set |-> [name |-> ref.env.set[i].name, value |-> Str(ref.env.set[i].value)]]]]]

-----------------------------------------------------------------------------
(* The records of the hook: `files` in the order of their names, each its    *)
(* name and its first line; `history` the lines of the starts and ends.      *)
(* Session ids and keys are sequences, for their prefixes.                   *)

States == {"new", "working", "blocked", "done", "gone"}

\* is_key, parse_state_line: a row has six fields at least, a time that is a
\* number and a state of the hook's.
IsRow(file) == file.key /\ file.fields >= 6 /\ file.finite /\ file.state \in States \cup {"subdone"}

\* read_agent_state: newest first, ties in the order of their names.
Placed(rows, row) ==
  InsertAt(rows, Min({i \in DOMAIN rows : rows[i].at < row.at} \cup {Len(rows) + 1}), row)
Rows(files) ==
  LET sorted[n \in 0..Len(files)] ==
        IF n = 0 THEN <<>> ELSE IF IsRow(files[n]) THEN Placed(sorted[n - 1], files[n]) ELSE sorted[n - 1]
  IN sorted[Len(files)]

\* labels_by_session: the latest line that says something; "" where none does.
LabelOf(history, session) ==
  LET says == {i \in DOMAIN history : /\ history[i].whole /\ history[i].kind \in {"start", "turn", "end"}
                                      /\ history[i].session = session /\ session # <<>> /\ history[i].label # ""}
  IN IF says = {} THEN "" ELSE history[Max(says)].label

\* Reference::of_row.  A row of six fields says nothing of the account.
OfRow(row, label) ==
  [key |-> row.name, session |-> row.session, transcript |-> NonEmpty(row.transcript),
   label |-> NonEmpty(label), configDir |-> [given |-> row.fields > 6, dir |-> NonEmpty(row.configDir)]]

\* listed: no label asked is any label, no state asked any state.
IsListed(row, history, label, states) ==
  /\ row.state # "subdone"
  /\ states = {} \/ row.state \in states
  /\ ~label.some \/ LabelOf(history, row.session) = label.text
Listed(files, history, label, states) ==
  LET all == Rows(files)
      rows == Keep(all, {i \in DOMAIN all : IsListed(all[i], history, label, states)})
  IN [i \in DOMAIN rows |-> OfRow(rows[i], LabelOf(history, rows[i].session))]

\* find
FirstOf(refs, places) == IF places = {} THEN <<>> ELSE <<refs[Min(places)]>>

\* Mutant: one pass, the first that is the text or begins with it.
Known_OnePass(refs, raw) ==
  FirstOf(refs, {i \in DOMAIN refs : \/ refs[i].key = raw
                                     \/ refs[i].session # <<>> /\ IsPrefix(raw, refs[i].session)})

\* resolve, for a text that is no document: the key or the session, whole,
\* before the session it begins.
Known(refs, raw) ==
  LET whole == {i \in DOMAIN refs : refs[i].key = raw \/ (refs[i].session # <<>> /\ refs[i].session = raw)}
      begun == {i \in DOMAIN refs : refs[i].session # <<>> /\ IsPrefix(raw, refs[i].session)}
  IN FirstOf(refs, IF whole # {} THEN whole ELSE begun)

\* The first row of the session that names a transcript (open, last).
TranscriptOf(files, session) ==
  LET rows == Rows(files)
      named == {i \in DOMAIN rows : session # <<>> /\ rows[i].session = session /\ rows[i].transcript # ""}
  IN IF named = {} THEN None ELSE Some(rows[Min(named)].transcript)

\* The account a session is opened in: a directory, the default one, or the
\* one of the program that opens it.
AccountOf(args) == [given |-> args.noConfigDir \/ args.configDir.some, dir |-> args.configDir]

\* open: the arguments are checked in this order, then the random bytes of the
\* id are asked for; a resumed session gets the transcript its rows name.
Open(args, cwd, files, random) ==
  IF args.refused THEN [code |-> 2, why |-> "grammar", refs |-> <<>>]
  ELSE IF args.cwd \in {"absent", ""} THEN [code |-> 2, why |-> "no --cwd", refs |-> <<>>]
  ELSE IF args.configDir.some /\ args.noConfigDir THEN [code |-> 2, why |-> "two accounts", refs |-> <<>>]
  ELSE IF args.cwd = "relative" /\ cwd = "gone" THEN [code |-> 1, why |-> "cwd is gone", refs |-> <<>>]
  ELSE IF ~random THEN [code |-> 1, why |-> "no random bytes", refs |-> <<>>]
  ELSE [code |-> 0, why |-> "",
        refs |-> <<[id |-> "random",
                    claudeSessionId |-> IF args.resume.some THEN Some(IF args.resume.session = <<>> THEN "" ELSE "session")
                                        ELSE None,
                    transcript |-> IF args.resume.some THEN TranscriptOf(files, args.resume.session) ELSE None,
                    cwd |-> "absolute", skipPermissions |-> args.skipPermissions,
                    texts |-> [key \in OptionalKeys |-> IF key \in {"bin", "logFile"} THEN None ELSE args.texts[key]],
                    configDir |-> AccountOf(args),
                    tools |-> [given |-> FALSE, names |-> <<>>], env |-> [given |-> FALSE, set |-> <<>>]]>>]

\* list: a state it does not know is refused, with every other such state.
ListVerb(files, history, label, asked) ==
  IF asked \subseteq States THEN [code |-> 0, unknown |-> {}, refs |-> Listed(files, history, label, asked)]
  ELSE [code |-> 2, unknown |-> asked \ States, refs |-> <<>>]

\* last: the transcript of the reference, or the one a row of its session
\* names; a transcript that cannot be stat'd is no answer.
LastVerb(ref, files, disk) ==
  LET file == IF ref.transcript.some THEN ref.transcript ELSE TranscriptOf(files, ref.session)
  IN IF ~file.some \/ file.text = "" \/ file.text \notin DOMAIN disk THEN [code |-> 0, answer |-> "null", of |-> ""]
     ELSE CASE disk[file.text] = "unreadable" -> [code |-> 1, answer |-> "io", of |-> file.text]
            [] disk[file.text] = "silent" -> [code |-> 0, answer |-> "null", of |-> ""]
            [] OTHER -> [code |-> 0, answer |-> "reply", of |-> file.text]

-----------------------------------------------------------------------------
(* Properties *)

\* A reference that is taken is printed as one that reads back the same, and
\* one that is taken has nothing in it that the program of the session cannot
\* be given (Reader, Reference::to_value).
ReferencesReadBack(doc) ==
  LET read == Read(doc)
      ref == read.refs[1]
  IN read.kind = "ref" =>
       /\ Read(ToValue(ref)) = read
       /\ \A i \in DOMAIN ref.env.set : ref.env.set[i].name \notin {"", "=", "nul", "__proto__"}
       /\ \A i \in DOMAIN ref.env.set : ref.env.set[i].value # "nul"
       /\ ref.cwd # "nul" /\ ref.texts["bin"] # Some("")

\* What `session open` prints, every other verb takes, as it was printed; a
\* session opened in two accounts, or nowhere, or without an id of its own, is
\* not (open, read).
OpenedIsTaken(args, cwd, files, random) ==
  LET opened == Open(args, cwd, files, random)
  IN /\ opened.code = 0 => Read(ToValue(opened.refs[1])) = [kind |-> "ref", refs |-> opened.refs]
     /\ opened.code = 0 => ~(args.noConfigDir /\ args.configDir.some) /\ args.cwd \notin {"absent", ""} /\ random
     /\ opened.code # 0 => opened.refs = <<>>

\* A session that is listed is found again by its key and by its whole id,
\* however many ids begin as its does; a session that resumes it reads the
\* transcript it names; asking for all states is asking for none; and the
\* label it is listed under lists it (resolve, listed, open, last).
SessionsAreFound(files, history, raw, disk) ==
  LET refs == Listed(files, history, None, {})
      found == Known(refs, raw)
      label(i) == IF refs[i].label.some THEN refs[i].label.text ELSE ""
      \* A key is no session id: it is the digits of a pane or begins with `s-`.
      apart == \A i, j \in DOMAIN refs : refs[i].key # refs[j].session
      fileOf(i) == CHOOSE f \in Range(files) : f.name = refs[i].key
      latest(i) == \A f \in Range(files) :
                     IsRow(f) /\ f.session = refs[i].session /\ f.transcript # "" /\ f.name # refs[i].key =>
                       f.at < fileOf(i).at
  IN /\ apart => \A i \in DOMAIN refs :
          /\ Known(refs, refs[i].key) = <<refs[i]>>
          /\ refs[i].session # <<>> => Known(refs, refs[i].session)[1].session = refs[i].session
     /\ found # <<>> => found[1].key = raw \/ IsPrefix(raw, found[1].session)
     /\ found = <<>> => \A i \in DOMAIN refs : refs[i].key # raw /\ (refs[i].session = <<>> \/ ~IsPrefix(raw, refs[i].session))
     /\ \A i \in DOMAIN refs : refs[i].transcript.some /\ refs[i].session # <<>> /\ latest(i) =>
          LastVerb([transcript |-> None, session |-> refs[i].session], files, disk) = LastVerb(refs[i], files, disk)
     /\ ListVerb(files, history, None, States).refs = refs
     /\ \A i \in DOMAIN refs : refs[i] \in Range(Listed(files, history, Some(label(i)), {fileOf(i).state}))
     /\ \A i \in DOMAIN refs : fileOf(i).state # "subdone" /\ \A j \in DOMAIN refs : i < j => fileOf(i).at >= fileOf(j).at
=============================================================================
