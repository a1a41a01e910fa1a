---------------------------- MODULE PluginConfig ---------------------------
(***************************************************************************)
(* Adding a plugin to the owner's configuration and taking one out of it   *)
(* (plugin/config.rs): the text is spliced by its lines, and the parser is *)
(* asked before and after whether the document is the one that was meant.  *)
(*                                                                         *)
(* A line is a table's header, a value under a key, a blank, a comment, a  *)
(* line the parser refuses, or the beginning or the end of a string of     *)
(* several lines; between these two a line is text, whatever it looks like.*)
(* The value "inline b" is a table that holds the plugin b, "huge" an      *)
(* integer that is no JavaScript number.  Arrays of tables are left out.   *)
(***************************************************************************)
EXTENDS Naturals, Sequences, SequencesExt, FiniteSets, FiniteSetsExt

Line(type, path, value) == [type |-> type, path |-> path, value |-> value]
Header(path) == Line("header", path, "")
Value(path, value) == Line("value", path, value)
Blank == Line("blank", <<>>, "")
Comment == Line("comment", <<>>, "")

-----------------------------------------------------------------------------
(* The parser: the tables that have a header, those a dotted key made, those *)
(* that are closed, and the values by their paths                            *)

Nothing == [ok |-> TRUE, section |-> <<>>, headed |-> {}, dotted |-> {}, closed |-> {}, values |-> {}, string |-> <<>>]
Refused(doc) == [doc EXCEPT !.ok = FALSE]

Above(path) == {SubSeq(path, 1, n) : n \in 1..(Len(path) - 1)}
Paths(doc) == {v.path : v \in doc.values}
\* The tables of a document, the implied ones too.
TablesOf(doc) == doc.headed \cup doc.dotted \cup doc.closed
                 \cup UNION {Above(p) : p \in doc.headed \cup doc.dotted \cup doc.closed \cup Paths(doc)}

\* A value: its keys make tables below the section, none of them one that has
\* a header, is closed or is a value.
Sets(doc, path, value) ==
  LET full == doc.section \o path
      made == {p \in Above(full) : Len(p) > Len(doc.section)}
  IN IF \/ full \in Paths(doc) \cup TablesOf(doc)
        \/ \E p \in Above(full) : p \in Paths(doc) \cup doc.closed
        \/ made \cap doc.headed # {} \/ \E p \in made : \E h \in doc.headed : IsStrictPrefix(p, h)
     THEN Refused(doc)
     ELSE IF value = "inline b"
     THEN [doc EXCEPT !.dotted = @ \cup made, !.closed = @ \cup {full, full \o <<"b">>},
                      !.values = @ \cup {[path |-> full \o <<"b", "from">>, value |-> "y"]}]
     ELSE [doc EXCEPT !.dotted = @ \cup made, !.values = @ \cup {[path |-> full, value |-> value]}]

\* A header: the table has none yet, and nothing above it is a value or closed.
Begins(doc, path) ==
  IF \/ path \in doc.headed \cup doc.dotted \cup doc.closed \cup Paths(doc)
     \/ \E p \in Above(path) : p \in Paths(doc) \cup doc.closed
  THEN Refused(doc)
  ELSE [doc EXCEPT !.section = path, !.headed = @ \cup {path}]

Reads(doc, line) ==
  IF ~doc.ok THEN doc
  ELSE IF doc.string # <<>>
  THEN IF line.type = "end"
       THEN Sets([doc EXCEPT !.string = <<>>], doc.string[1].path, ToString(doc.string))
       ELSE [doc EXCEPT !.string = Append(@, line)]
  ELSE CASE line.type = "header" -> Begins(doc, line.path)
         [] line.type = "value" -> IF line.value = "huge" THEN Refused(doc) ELSE Sets(doc, line.path, line.value)
         [] line.type = "begin" -> [doc EXCEPT !.string = <<line>>]
         [] line.type \in {"end", "wrong"} -> Refused(doc)
         [] OTHER -> doc

\* parse
Parse(lines) ==
  LET doc == FoldLeft(Reads, Nothing, lines) IN IF doc.string # <<>> THEN Refused(doc) ELSE doc

\* plugins_of: a table, or none at all.
HasPlugins(doc) == <<"plugins">> \notin Paths(doc)

\* get
Lists(doc, key) == <<"plugins", key>> \in TablesOf(doc) \cup Paths(doc)
\* from_of
FromOf(doc, key) == {v.value : v \in {u \in doc.values : u.path = <<"plugins", key, "from">>}}

\* same_table, but for the plugin: no table of plugins is an empty one.
Kept(doc, key) ==
  LET kept(path) == ~IsPrefix(<<"plugins", key>>, path) /\ path # <<"plugins">>
  IN [tables |-> {p \in TablesOf(doc) : kept(p)}, values |-> {v \in doc.values : kept(v.path)}]

-----------------------------------------------------------------------------
(* The edits.  A text is its lines, and whether the last of them is ended.   *)

Text(lines, ends) == [lines |-> lines, ends |-> ends]
Result(kind, text) == [kind |-> kind, text |-> text]

\* section: the name and the place of a plugin are written as strings.
Section(key, from) == <<Header(<<"plugins", key>>), Value(<<"from">>, from)>>

\* add, with the document before the edit and after it.
Adds(text, key, from, next, before, after) ==
  IF ~before.ok \/ ~HasPlugins(before) THEN Result("fault", text)
  ELSE IF Lists(before, key) THEN Result("exists", text)
  ELSE IF "control" \in {key, from} THEN Result("unwritable", text)
  ELSE IF ~after.ok \/ ~HasPlugins(after) THEN Result("edit would not parse", text)
  ELSE IF FromOf(after, key) # {from} THEN Result("edit did not take", text)
  ELSE Result("written", Text(next, TRUE))
AddPlugin(text, key, from) ==
  LET next == text.lines \o (IF text.lines = <<>> THEN <<>> ELSE <<Blank>>) \o Section(key, from)
  IN Adds(text, key, from, next, Parse(text.lines), Parse(next))

\* header_path: what a line looks like, wherever it is.
IsHeader(line) == line.type = "header"
IsOurs(line, key) == IsHeader(line) /\ Len(line.path) >= 2 /\ SubSeq(line.path, 1, 2) = <<"plugins", key>>

\* The last line that is cut with the header at `i`.
Stop(lines, i, next) == Max({j \in i..(next - 1) : j = i \/ lines[j].type # "comment"})

\* cut_sections: from each header of the plugin to the next header, but for
\* the comments just above that; at the end of the file with the blank line
\* that `add` puts before.
Cut(lines, key) ==
  LET headers == {i \in DOMAIN lines : IsHeader(lines[i])} \cup {Len(lines) + 1}
      next(i) == Min({j \in headers : j > i})
      first(i) == IF next(i) = Len(lines) + 1 /\ i > 1 /\ lines[i - 1].type = "blank" THEN i - 1 ELSE i
  IN UNION {first(i)..Stop(lines, i, next(i)) : i \in {j \in DOMAIN lines : IsOurs(lines[j], key)}}

At(lines, places) == LET order == SetToSortSeq(places, <) IN [i \in 1..Len(order) |-> lines[order[i]]]

\* rest_is_the_same, and the plugin is gone.
Changes(before, after, key) == Kept(before, key) # Kept(after, key)

Listed(doc, key) == key # "__proto__" /\ Lists(doc, key)

\* remove, with the document before the edit and after it: a line goes with its
\* break.
Removes(text, key, next, cut, before, after) ==
  IF text.lines = <<>> THEN Result("absent", text)
  ELSE IF ~before.ok \/ ~HasPlugins(before) THEN Result("fault", text)
  ELSE IF ~Listed(before, key) THEN Result("absent", text)
  ELSE IF ~after.ok \/ ~HasPlugins(after) THEN Result("edit would not parse", text)
  ELSE IF Listed(after, key) THEN Result("by hand", text)
  ELSE IF Changes(before, after, key) THEN Result("would change more", text)
  ELSE Result("written", Text(next, Len(text.lines) \in cut \/ text.ends))
RemovePlugin(text, key) ==
  LET cut == Cut(text.lines, key)
      next == At(text.lines, DOMAIN text.lines \ cut)
  IN Removes(text, key, next, cut, Parse(text.lines), Parse(next))

-----------------------------------------------------------------------------
(* The file.  `at` is what is at the path: nothing, a file, a link to a file *)
(* or to nowhere; `temporary` holds the text of the temporary file, if there *)
(* is one; `fails` is the set of the system calls that fail.                 *)

\* write_target, read_text
Opens(at, fails) ==
  IF at = "dangling" \/ "lstat" \in fails \/ ("read" \in fails /\ at # "nothing") THEN "fault" ELSE "ok"

Temporary(disk, texts) == [disk EXCEPT !.temporary = texts]
Half(text) == Text(SubSeq(text.lines, 1, Len(text.lines) \div 2), FALSE)
\* A link stays one, its target is what is replaced.
Renamed(disk) ==
  [disk EXCEPT !.text = disk.temporary[1], !.temporary = <<>>, !.at = IF @ = "nothing" THEN "file" ELSE @]

\* save: the disks after each of its system calls, the directory made, the
\* temporary file written in part and whole, and renamed over the target, or
\* removed when one of these fails.
Save(disk, text, fails) ==
  LET half == Temporary(disk, <<Half(text)>>)
      whole == Temporary(disk, <<text>>)
      removed(left) == IF "remove" \in fails THEN left ELSE Temporary(left, <<>>)
  IN CASE "mkdir" \in fails -> <<disk>>
       [] "mkdir" \notin fails /\ "write" \in fails -> <<disk, half, removed(half)>>
       [] fails \cap {"mkdir", "write"} = {} /\ "rename" \in fails -> <<disk, half, whole, removed(whole)>>
       [] OTHER -> <<disk, half, whole, Renamed(whole)>>

\* The text to edit, and the edit, for what it made of the text: what it says,
\* and the disks on its way, the last of them what it leaves.
TextOf(disk) == IF disk.at = "nothing" THEN Text(<<>>, TRUE) ELSE disk.text
Edit(disk, fails, made) ==
  IF Opens(disk.at, fails) = "fault" THEN [kind |-> "fault", disks |-> <<disk>>]
  ELSE IF made.kind # "written" THEN [kind |-> made.kind, disks |-> <<disk>>]
  ELSE [kind |-> IF fails \cap {"mkdir", "write", "rename"} = {} THEN "written" ELSE "fault",
        disks |-> Save(disk, made.text, fails)]

-----------------------------------------------------------------------------
(* Properties *)

\* The lines of the owner's that are not under a header of the plugin.
Foreign(lines, key) ==
  LET section(i) == Parse(SubSeq(lines, 1, i)).section
  IN At(lines, {i \in DOMAIN lines : lines[i].type \notin {"blank", "comment"} /\ ~IsPrefix(<<"plugins", key>>, section(i))})
Written(lines) == LET Says(line) == line.type \notin {"blank", "comment"} IN SelectSeq(lines, Says)

AddedIsExact(text, key, from, added, before, after, back) ==
  IF added.kind # "written" THEN added.text = text
  ELSE /\ FromOf(after, key) = {from}
       /\ Kept(after, key) = Kept(before, key)
       /\ IsPrefix(text.lines, added.text.lines)
       /\ back.kind = "written" => back.text.lines = text.lines
       /\ (\A i \in DOMAIN text.lines : ~IsOurs(text.lines[i], key)) => back.kind = "written"
RemovedIsExact(text, key, removed, before, after, again, cut) ==
  IF removed.kind # "written" THEN removed.text = text
  ELSE /\ ~Lists(after, key) /\ after.ok /\ again.kind = "absent"
       /\ Kept(after, key) = Kept(before, key)
       /\ Written(removed.text.lines) = Foreign(text.lines, key)
       /\ \A i \in 2..Len(text.lines) : text.lines[i - 1].type = "comment" /\ IsHeader(text.lines[i]) => i - 1 \notin cut
BothAreExact(text, key, from, added, removed) ==
  /\ AddedIsExact(text, key, from, added, Parse(text.lines), Parse(added.text.lines), RemovePlugin(added.text, key))
  /\ RemovedIsExact(text, key, removed, Parse(text.lines), Parse(removed.text.lines),
                    RemovePlugin(removed.text, key), Cut(text.lines, key))

\* An edit that is written is the one that was meant: the plugin is there with
\* its place, or gone; every other plugin, table and value is what it was, and
\* so is every line of the owner's that is not the plugin's.  To add a plugin
\* and remove it gives the text back, but for the end of its last line; only a
\* string with a line like the plugin's header keeps it from being removed
\* (add, remove, cut_sections).
EditsAreExact(text, key, from) == BothAreExact(text, key, from, AddPlugin(text, key, from), RemovePlugin(text, key))

\* An edit of the file, for what it made of the text.
IsWhole(disk, fails, made, edit) ==
  LET left == Last(edit.disks)
  IN /\ \A i \in DOMAIN edit.disks :
          \/ Temporary(edit.disks[i], <<>>) = disk
          \/ edit.disks[i].text = made.text /\ (disk.at = "link" => edit.disks[i].at = "link")
     /\ edit.kind # "written" => Temporary(left, <<>>) = disk
     /\ edit.kind = "written" => left.text = made.text
     /\ left.temporary # <<>> => "remove" \in fails
\* Whatever fails and wherever the call is killed, the file holds the old text
\* or the new one, and a link stays a link; an edit that says it was not made
\* changed nothing, and one that ends leaves no temporary file but one it could
\* not remove (write_target, save).
EditsAreWhole(disk, fails, key, from) ==
  \A made \in {AddPlugin(TextOf(disk), key, from), RemovePlugin(TextOf(disk), key)} :
    IsWhole(disk, fails, made, Edit(disk, fails, made))
=============================================================================
