---------------------------- MODULE Transcripts ----------------------------
(***************************************************************************)
(* `sessions recent | search | show`: what the transcripts of every Claude *)
(* account say, read through two windows and never whole (transcripts.rs,  *)
(* sessions.rs).                                                           *)
(*                                                                         *)
(* A file is a sequence of lines, a line a record and the cells it takes;  *)
(* windows and sizes are counted in cells, and a line break takes one.     *)
(***************************************************************************)
EXTENDS Integers, Sequences, SequencesExt, FiniteSets, FiniteSetsExt

CONSTANTS HeadWindow, TailWindow, MinTranscript, SearchScan, SearchHits, DefaultRecent

\* A line: `type` and `meta` of its record, the texts of its content, and the
\* cells of it.  A text is "" when it is white space, "<..." when it begins
\* with `<`; a content that is not a string is no text at all.
Line(type, meta, texts, len) == [type |-> type, meta |-> meta, texts |-> texts, len |-> len]

\* The cells of a file whose last line break may be missing: a process is
\* still writing that line.
Break == [line |-> 0, cell |-> 0]
Cells(file) ==
  LET line(n) == [k \in 1..file.lines[n].len |-> [line |-> n, cell |-> k]]
                 \o (IF n < Len(file.lines) \/ file.ends THEN <<Break>> ELSE <<>>)
  IN FlattenSeq([n \in 1..Len(file.lines) |-> line(n)])
Size(file) == Len(Cells(file))

-----------------------------------------------------------------------------
(* The windows *)

\* Mutant: the fragment is kept.
Window_Fragment(file, tail, len) ==
  LET cells == Cells(file)
  IN IF tail /\ Len(cells) > len THEN SubSeq(cells, Len(cells) - len + 1, Len(cells))
     ELSE SubSeq(cells, 1, IF len < Len(cells) THEN len ELSE Len(cells))

\* window: a tail that starts behind the first cell starts in a line, and
\* loses what comes before its first line break, if it has one.
Window(file, tail, len) ==
  LET cells == Cells(file)
      start == IF tail /\ Len(cells) > len THEN Len(cells) - len ELSE 0
      read == SubSeq(cells, start + 1, IF start + len < Len(cells) THEN start + len ELSE Len(cells))
      breaks == {i \in 1..Len(read) : read[i] = Break}
  IN IF start > 0 /\ breaks # {} THEN SubSeq(read, Min(breaks) + 1, Len(read)) ELSE read

\* split('\n') and json::parse: what lies between two line breaks is a record
\* when it is a line, whole.
Records(file, window) ==
  LET breaks == {0, Len(window) + 1} \cup {i \in 1..Len(window) : window[i] = Break}
      ends == SetToSortSeq(breaks, <)
      piece(i) == SubSeq(window, ends[i] + 1, ends[i + 1] - 1)
      isLine(cells) == /\ cells # <<>>
                       /\ cells = [k \in 1..file.lines[cells[1].line].len |-> [line |-> cells[1].line, cell |-> k]]
      lines == SelectSeq([i \in 1..(Len(ends) - 1) |-> piece(i)], isLine)
  IN [i \in 1..Len(lines) |-> file.lines[lines[i][1].line]]

Blank(text) == text = ""
IsCommand(text) == text = "<..."

\* first_prompt
IsPrompt(record) ==
  /\ record.type = "user" /\ ~record.meta
  /\ record.texts # <<>> /\ ~Blank(record.texts[1]) /\ ~IsCommand(record.texts[1])
FirstPrompt(file) ==
  LET prompts == SelectSeq(Records(file, Window(file, FALSE, HeadWindow)), IsPrompt)
  IN IF prompts = <<>> THEN "" ELSE Head(prompts).texts[1]

\* last_assistant_reply
LastReply(file) ==
  LET IsAssistant(record) == record.type = "assistant"
      Said(text) == ~Blank(text)
      replies == SelectSeq(Records(file, Window(file, TRUE, TailWindow)), IsAssistant)
      texts == SelectSeq(FlattenSeq([i \in 1..Len(replies) |-> replies[i].texts]), Said)
  IN IF texts = <<>> THEN "" ELSE Last(texts)

-----------------------------------------------------------------------------
(* The listing.  A home is its configuration directories in the order of    *)
(* their names, a directory its projects, a project its entries; `claude`   *)
(* says whether a directory's name is of Claude.                            *)

\* discover_accounts: $CLAUDE_HOMES replaces the discovery, unless it is empty.
Accounts(home, homes) ==
  LET IsClaude(dir) == dir.claude
      Listed(dir) == dir.name # ""
      HasProjects(dir) == dir.exists
      dirs == IF homes.set THEN SelectSeq(homes.dirs, Listed) ELSE SelectSeq(home, IsClaude)
  IN SelectSeq(dirs, HasProjects)

\* decode_project_slug: a slug is words and dashes, "home" the encoded home.
Decoded(slug) ==
  LET path(s) == [i \in 1..Len(s) |-> IF s[i] = "-" THEN "/" ELSE s[i]]
  IN IF slug # <<>> /\ slug[1] = "home" THEN <<"~">> \o path(Tail(slug)) ELSE path(slug)

\* Newest first, ties in the order they were met.
Newest(rows) ==
  LET before(i, j) == rows[i].mtime > rows[j].mtime \/ (rows[i].mtime = rows[j].mtime /\ i < j)
      order == SetToSortSeq(DOMAIN rows, before)
  IN [i \in DOMAIN rows |-> rows[order[i]]]

\* collect
Collect(home, homes) ==
  LET IsTranscript(entry) == entry.jsonl /\ entry.regular /\ Size(entry.file) >= MinTranscript
      row(account, project, entry) ==
        [id |-> entry.id, account |-> account.name, project |-> Decoded(project.slug), file |-> entry.file,
         mtime |-> entry.mtime]
      ofProject(account, project) ==
        LET entries == SelectSeq(project.entries, IsTranscript)
        IN [i \in 1..Len(entries) |-> row(account, project, entries[i])]
      ofAccount(account) ==
        FlattenSeq([i \in 1..Len(account.projects) |-> ofProject(account, account.projects[i])])
      accounts == Accounts(home, homes)
  IN Newest(FlattenSeq([i \in 1..Len(accounts) |-> ofAccount(accounts[i])]))

\* find_by_prefix
FindByPrefix(rows, prefix) ==
  LET found == {i \in DOMAIN rows : IsPrefix(prefix, rows[i].id)}
  IN IF found = {} THEN <<>> ELSE <<rows[Min(found)]>>

-----------------------------------------------------------------------------
(* The verbs.  What is printed is rows; the code is 0, or 1 with nothing on  *)
(* stdout.  A file that went since it was listed fails the whole call.       *)

Out(kind, rows) == [code |-> 0, kind |-> kind, rows |-> rows]
Fail(kind) == [code |-> 1, kind |-> kind, rows |-> <<>>]

\* slice_end: what a count below zero leaves off the end.
SliceEnd(count, len) ==
  IF count < 0 THEN IF len + count > 0 THEN len + count ELSE 0
  ELSE IF count < len THEN count ELSE len

\* two_lines
Shown(row) == [id |-> row.id, account |-> row.account, project |-> row.project, prompt |-> FirstPrompt(row.file)]
ShownAll(rows) == [i \in 1..Len(rows) |-> Shown(rows[i])]
AllRead(rows) == \A i \in DOMAIN rows : ~rows[i].file.gone

\* recent: a count is its whole part; zero, and what is no number, is none.
Wanted(count) == IF count.none THEN DefaultRecent ELSE count.whole
Recent(rows, count) ==
  LET listed == SubSeq(rows, 1, SliceEnd(Wanted(count), Len(rows)))
  IN IF AllRead(listed) THEN Out("recent", ShownAll(listed)) ELSE Fail("io")

\* Every word is in the project or the prompt, case aside: a word stands for
\* its lower case.
Matches(words, row) == Range(words) \subseteq Range(row.project) \cup {FirstPrompt(row.file)}

\* search: the rows are read one by one, up to the last hit that is shown.
Search(rows, words) ==
  LET scanned == SubSeq(rows, 1, SliceEnd(SearchScan, Len(rows)))
      hits == {i \in DOMAIN scanned : ~scanned[i].file.gone /\ Matches(words, scanned[i])}
      shown == {i \in hits : Cardinality({j \in hits : j <= i}) <= SearchHits}
      read == IF Cardinality(hits) >= SearchHits THEN Max(shown) ELSE Len(scanned)
      order == SetToSortSeq(shown, <)
  IN IF ~AllRead(SubSeq(scanned, 1, read)) THEN Fail("io")
     ELSE IF hits = {} THEN Out("nothing matches", <<>>)
     ELSE Out("search", ShownAll([i \in 1..Len(order) |-> scanned[order[i]]]))

\* show
Show(rows, prefix) ==
  LET found == FindByPrefix(rows, prefix)
  IN IF found = <<>> THEN Fail("no session")
     ELSE IF ~AllRead(found) THEN Fail("io")
     ELSE Out("show", <<[id |-> found[1].id, account |-> found[1].account, project |-> found[1].project,
                         prompt |-> FirstPrompt(found[1].file), reply |-> LastReply(found[1].file)]>>)

\* run: words are words, a prefix and a count the same arguments read apart.
Run(rows, cmd, count, words, prefix) ==
  CASE cmd \in {"none", "recent"} -> Recent(rows, count)
    [] cmd = "search" -> IF words = <<>> THEN Fail("usage") ELSE Search(rows, words)
    [] cmd = "show" -> IF prefix = <<>> THEN Fail("usage") ELSE Show(rows, prefix)
    [] OTHER -> Out("usage", <<>>)

-----------------------------------------------------------------------------
(* Properties *)

\* A reply or a prompt is of a line that lies in the window whole, and none in
\* the window is passed over: the prompt is the first there is, the reply the
\* last (window, first_prompt, last_assistant_reply).
WindowsShowWholeLines(file) ==
  LET size == Size(file)
      ends(n) == CHOOSE i \in 1..size : Cells(file)[i] = [line |-> n, cell |-> file.lines[n].len]
      begins(n) == ends(n) - file.lines[n].len + 1
      whole == {n \in 1..Len(file.lines) : file.lines[n].len > 0}
      ofHead == {n \in whole : ends(n) <= HeadWindow /\ IsPrompt(file.lines[n])}
      start == size - TailWindow
      says(n) == file.lines[n].type = "assistant" /\ \E i \in DOMAIN file.lines[n].texts : ~Blank(file.lines[n].texts[i])
      \* A tail that begins with a line takes it for the end of the one before,
      \* unless nothing ends in it.
      read(n) == start <= 0 \/ begins(n) > start + 1 \/ (begins(n) = start + 1 /\ ends(n) = size)
      ofTail == {n \in whole : says(n) /\ read(n)}
      spoken(n) == {file.lines[n].texts[i] : i \in DOMAIN file.lines[n].texts}
  IN /\ IF ofHead = {} THEN FirstPrompt(file) = "" ELSE FirstPrompt(file) = file.lines[Min(ofHead)].texts[1]
     /\ IF ofTail = {} THEN LastReply(file) = ""
        ELSE ~Blank(LastReply(file)) /\ LastReply(file) \in spoken(Max(ofTail))

\* Every entry of a project there is, and those that are transcripts of Claude.
Met(home, homes) ==
  UNION {UNION {{[dir |-> d, project |-> p, entry |-> e] : e \in Range(p.entries)} : p \in Range(d.projects)} :
           d \in {d \in Range(IF homes.set THEN homes.dirs ELSE home) : d.exists}}
Listable(met, homes) ==
  {x \in met : /\ x.entry.jsonl /\ x.entry.regular /\ Size(x.entry.file) >= MinTranscript
               /\ IF homes.set THEN x.dir.name # "" ELSE x.dir.claude}

ListsTheNewest(said, met, listable, count, words, prefix) ==
  LET time(id) == (CHOOSE x \in met : x.entry.id = id).entry.mtime
      shown == [i \in DOMAIN said.rows |-> said.rows[i].id]
      fits(x) == CASE said.kind = "search" ->
                        Matches(words, [project |-> Decoded(x.project.slug), file |-> x.entry.file])
                   [] said.kind = "show" -> IsPrefix(prefix, x.entry.id)
                   [] OTHER -> TRUE
      full == CASE said.kind = "search" -> SearchHits
                [] said.kind = "show" -> 1
                [] OTHER -> SliceEnd(Wanted(count), Cardinality(listable))
  IN /\ said.code = 1 => said.rows = <<>>
     /\ \A i, j \in DOMAIN shown : i < j => shown[i] # shown[j] /\ time(shown[i]) >= time(shown[j])
     /\ \A x \in met : x.entry.id \in Range(shown) => x \in listable /\ fits(x) /\ ~x.entry.file.gone
     /\ said.kind \in {"recent", "search", "show"} =>
          /\ Len(shown) <= full
          /\ \A x \in listable : fits(x) /\ x.entry.id \notin Range(shown) =>
               \/ Len(shown) = full /\ \A i \in DOMAIN shown : time(shown[i]) >= x.entry.mtime
               \/ said.kind = "search" /\ Cardinality({y \in listable : y.entry.mtime >= x.entry.mtime}) > SearchScan

\* What a verb lists is newest first and each transcript at most once; what it
\* leaves out of its reach is older, too short or no match; and what it cannot
\* finish it does not begin to print (collect, recent, search, show).
ListingsAreNewest(home, homes, cmd, count, words, prefix) ==
  ListsTheNewest(Run(Collect(home, homes), cmd, count, words, prefix), Met(home, homes),
                 Listable(Met(home, homes), homes), count, words, prefix)
=============================================================================
