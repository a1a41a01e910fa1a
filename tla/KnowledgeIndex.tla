--------------------------- MODULE KnowledgeIndex ---------------------------
(***************************************************************************)
(* The index of the knowledge documents (knowledge/index.rs) and the calls *)
(* that use it (knowledge/tools.rs, with_db): each opens the file, brings  *)
(* it in line with the folder, asks it one thing and closes it, while the  *)
(* owner edits the documents and other programs do the same to the file.   *)
(*                                                                         *)
(* A statement of SQLite is a step, and so is what is done under its write *)
(* lock but for the looks at the folder.  A document is its name; a text   *)
(* that cannot be read as one is "bad".                                    *)
(***************************************************************************)
EXTENDS Naturals, FiniteSets

CONSTANTS
  Calls,   \* the programs that call, each one call after the other
  Docs,    \* the names of documents
  Texts,   \* what a document may say; "bad" is among them
  MaxEdits \* bound: edits of the folder

None == "none"

ASSUME IndexAssumption ==
  /\ None \notin Calls \cup Docs
  /\ "bad" \in Texts /\ "gone" \notin Texts
  /\ MaxEdits \in Nat

VARIABLES
  folder,  \* text and modification time of each document
  edits,   \* edits so far
  table,   \* the schema each table is of
  version, \* the version that is stored
  row,     \* docs: the time and the text of each document that is in it
  section, \* chunks: the text whose sections each document has
  word,    \* chunks_fts: the same
  lock,    \* who holds the write lock
  at,      \* where each call is
  sees,    \* what a call knows: the table to drop, list, rows, time of a file
  tx,      \* what the holder of the lock has written
  answer,  \* what each call was told of each document
  shown,   \* history: what each document was since the call began, or a call
           \* that wrote the index since
  blurred, \* history: documents edited in one millisecond
  torn     \* history: the tables of somebody were dropped by another call

db == <<table, version, row, section, word>>
vars == <<folder, edits, db, lock, at, sees, tx, answer, shown, blurred, torn>>

Tables == <<"chunks_fts", "chunks", "docs", "meta">>
Gone == [text |-> "gone", mtime |-> 0]
Nothing == [drop |-> 0, files |-> {}, rows |-> [d \in Docs |-> Gone],
            of |-> None, stat |-> 0, seen |-> {}]
NoRows == [d \in Docs |-> Gone]
Resting == {"failed", "done"}
NoTexts == [d \in Docs |-> "gone"]

\* What a reader of the index is told of a text.
Told(text) == IF text = "bad" THEN "gone" ELSE text

Init ==
  /\ folder \in [Docs -> {Gone} \cup {[text |-> t, mtime |-> 1] : t \in Texts}]
  /\ edits = 0
  /\ \/ /\ version = None /\ table = [t \in {Tables[i] : i \in 1..4} |-> None]
        /\ row = NoRows /\ section = NoTexts
     \/ /\ version = "old" /\ table = [t \in {Tables[i] : i \in 1..4} |-> "old"]
        /\ row = NoRows /\ section = NoTexts
  /\ word = section
  /\ lock = None /\ at = [c \in Calls |-> "failed"] /\ sees = [c \in Calls |-> Nothing]
  /\ tx = [row |-> NoRows, section |-> NoTexts, word |-> NoTexts]
  /\ answer = [c \in Calls |-> NoTexts] /\ shown = [c \in Calls |-> [d \in Docs |-> {}]]
  /\ blurred = {} /\ torn = FALSE

-----------------------------------------------------------------------------
(* The owner *)

\* The calls under way could be told of it.
Saw(d, told) ==
  [c \in Calls |-> IF at[c] \in Resting THEN shown[c] ELSE [shown[c] EXCEPT ![d] = @ \cup {told}]]

\* An edit moves the modification time, but for two in one millisecond.
Edit(d, text) ==
  /\ edits < MaxEdits /\ folder[d].text # text
  /\ edits' = edits + 1
  /\ \/ folder' = [folder EXCEPT ![d] = [text |-> text, mtime |-> edits + 2]] /\ UNCHANGED blurred
     \/ /\ folder[d] # Gone
        /\ folder' = [folder EXCEPT ![d].text = text] /\ blurred' = blurred \cup {d}
  /\ shown' = Saw(d, Told(text))
  /\ UNCHANGED <<db, lock, at, sees, tx, answer, torn>>

Unlink(d) ==
  /\ edits < MaxEdits /\ folder[d] # Gone
  /\ edits' = edits + 1
  /\ folder' = [folder EXCEPT ![d] = Gone]
  /\ shown' = Saw(d, "gone")
  /\ UNCHANGED <<db, lock, at, sees, tx, answer, blurred, torn>>

-----------------------------------------------------------------------------
(* open_db *)

Go(c, from, to) == at[c] = from /\ at' = [at EXCEPT ![c] = to]

\* stored_version: no table of it and no row of it are the same.  `drop` is the
\* table that goes next, or AllDropped when the version is to be written.
AllDropped == 5
Open(c) ==
  /\ at[c] \in Resting
  /\ at' = [at EXCEPT ![c] = IF version = "old" THEN "drop" ELSE "create"]
  /\ sees' = [sees EXCEPT ![c].drop = CASE version = "old" -> 1 [] version = "new" -> 0 [] OTHER -> AllDropped]
  /\ shown' = [shown EXCEPT ![c] = [d \in Docs |-> {Told(folder[d].text)}]]
  /\ answer' = [answer EXCEPT ![c] = NoTexts]
  /\ UNCHANGED <<folder, edits, db, lock, tx, blurred, torn>>

Order(i) == Tables[i]

\* A table of another version is dropped, the version after all others.
Drop(c) ==
  LET name == Order(sees[c].drop)
      last == sees[c].drop = 4
  IN /\ lock = None /\ Go(c, "drop", IF last THEN "create" ELSE "drop")
     /\ table' = [table EXCEPT ![name] = None]
     /\ version' = IF name = "meta" THEN None ELSE version
     /\ row' = IF name = "docs" THEN NoRows ELSE row
     /\ section' = IF name = "chunks" THEN NoTexts ELSE section
     /\ word' = IF name = "chunks_fts" THEN NoTexts ELSE word
     /\ sees' = [sees EXCEPT ![c].drop = @ + 1]
     /\ torn' = (torn \/ table[name] = "new")
     /\ UNCHANGED <<folder, edits, lock, tx, answer, shown, blurred>>

\* The DDL makes what is not there; the version is written when the one that was
\* stored at first was not this one.
Create(c) ==
  /\ lock = None /\ Go(c, "create", "opened")
  /\ table' = [t \in DOMAIN table |-> IF table[t] = None THEN "new" ELSE table[t]]
  /\ version' = IF sees[c].drop = AllDropped THEN "new" ELSE version
  /\ sees' = [sees EXCEPT ![c].drop = 0]
  /\ UNCHANGED <<folder, edits, row, section, word, lock, tx, answer, shown, blurred, torn>>

-----------------------------------------------------------------------------
(* reindex *)

\* list_files
ListDocs(c) ==
  /\ Go(c, "opened", "listed")
  /\ sees' = [sees EXCEPT ![c].files = {d \in Docs : folder[d] # Gone}]
  /\ UNCHANGED <<folder, edits, db, lock, tx, answer, shown, blurred, torn>>

\* nothing_to_write: the rows as they are (known_docs).
Look(c) ==
  /\ Go(c, "listed", "looked")
  /\ sees' = [sees EXCEPT ![c].rows = row]
  /\ UNCHANGED <<folder, edits, db, lock, tx, answer, shown, blurred, torn>>

\* Every file has its row and every row its file, or the pass needs the lock.
Compare(c) ==
  LET there == {d \in sees[c].files : folder[d] # Gone}
      upToDate == /\ \A d \in there : sees[c].rows[d].mtime = folder[d].mtime
                  /\ \A d \in Docs : sees[c].rows[d] # Gone => d \in there
  IN /\ Go(c, "looked", IF upToDate THEN "asks" ELSE "waits")
     /\ sees' = [sees EXCEPT ![c].rows = NoRows, ![c].files = IF upToDate THEN {} ELSE @]
     /\ UNCHANGED <<folder, edits, db, lock, tx, answer, shown, blurred, torn>>

\* The transaction takes the write lock first, and reads the rows again.
Begin(c) ==
  /\ lock = None /\ Go(c, "waits", "writes")
  /\ lock' = c /\ tx' = [row |-> row, section |-> section, word |-> word]
  /\ sees' = [sees EXCEPT ![c].rows = row, ![c].seen = {}, ![c].of = None]
  /\ UNCHANGED <<folder, edits, db, answer, shown, blurred, torn>>

\* A file that vanished is passed over; one with its time is not read.
Stat(c, d) ==
  LET mine == sees[c]
      next == IF folder[d] = Gone THEN [mine EXCEPT !.files = @ \ {d}]
              ELSE IF mine.rows[d] # Gone /\ mine.rows[d].mtime = folder[d].mtime
                THEN [mine EXCEPT !.files = @ \ {d}, !.seen = @ \cup {d}]
              ELSE [mine EXCEPT !.of = d, !.stat = folder[d].mtime]
  IN /\ at[c] = "writes" /\ mine.of = None /\ d \in mine.files
     /\ sees' = [sees EXCEPT ![c] = next]
     /\ UNCHANGED <<folder, edits, db, lock, at, tx, answer, shown, blurred, torn>>

\* delete_doc: in all three tables.
Without(t, d) ==
  [t EXCEPT !.row[d] = Gone, !.section[d] = "gone", !.word[d] = "gone"]

\* insert_doc.
With(t, d, text, mtime) ==
  [row |-> [t.row EXCEPT ![d] = [text |-> text, mtime |-> mtime]],
   section |-> [t.section EXCEPT ![d] = text],
   word |-> [t.word EXCEPT ![d] = IF @ = "gone" THEN text ELSE "both"]]

\* Mutant: the time is that of the text that was read.
TimeOf_AfterRead(c, d) == IF folder[d] = Gone THEN sees[c].stat ELSE folder[d].mtime + 1

\* The time of a row is that from before its text was read.
TimeOf(c, d) == sees[c].stat

\* read_doc: a text that is no document loses its row; one that is the same
\* has only the new time.
Read(c) ==
  LET d == sees[c].of
      text == folder[d].text
      before == sees[c].rows[d]
  IN /\ at[c] = "writes" /\ d # None
     /\ tx' = IF Told(text) = "gone" THEN IF before = Gone THEN tx ELSE Without(tx, d)
              ELSE IF before.text = text THEN [tx EXCEPT !.row[d].mtime = TimeOf(c, d)]
              ELSE With(IF before = Gone THEN tx ELSE Without(tx, d), d, text, TimeOf(c, d))
     /\ sees' = [sees EXCEPT ![c].of = None, ![c].files = @ \ {d},
                             ![c].seen = IF Told(text) = "gone" THEN @ ELSE @ \cup {d}]
     /\ UNCHANGED <<folder, edits, db, lock, at, answer, shown, blurred, torn>>

\* Rows whose file is gone go, and all of it is there at once.
Commit(c) ==
  LET left == {d \in Docs : sees[c].rows[d] # Gone /\ d \notin sees[c].seen}
      end == [row |-> [d \in Docs |-> IF d \in left THEN Gone ELSE tx.row[d]],
              section |-> [d \in Docs |-> IF d \in left THEN Without(tx, d).section[d] ELSE tx.section[d]],
              word |-> [d \in Docs |-> IF d \in left THEN Without(tx, d).word[d] ELSE tx.word[d]]]
  IN /\ sees[c].files = {} /\ Go(c, "writes", "asks")
     /\ row' = end.row /\ section' = end.section /\ word' = end.word
     /\ lock' = None
     /\ tx' = [row |-> NoRows, section |-> NoTexts, word |-> NoTexts]
     /\ sees' = [sees EXCEPT ![c] = Nothing]
     /\ shown' = [o \in Calls |-> IF at[o] \in Resting THEN shown[o]
                                  ELSE [d \in Docs |-> shown[o][d] \cup shown[c][d]]]
     /\ UNCHANGED <<folder, edits, table, version, answer, blurred, torn>>

\* search, list_docs, get: what joins the three tables.
Ask(c) ==
  /\ Go(c, "asks", "done")
  /\ answer' = [answer EXCEPT ![c] = [d \in Docs |->
       IF row[d] # Gone /\ section[d] # "gone" THEN word[d] ELSE "gone"]]
  /\ sees' = [sees EXCEPT ![c] = Nothing]
  /\ UNCHANGED <<folder, edits, db, lock, tx, shown, blurred, torn>>

-----------------------------------------------------------------------------
\* A statement fails: a table another call has dropped, the lock that does not
\* come free in the busy timeout, the disk.  So does the process that is killed.
\* What is not committed is not there.
Fails(c) ==
  /\ at[c] \notin Resting
  /\ at' = [at EXCEPT ![c] = "failed"] /\ sees' = [sees EXCEPT ![c] = Nothing]
  /\ lock' = IF lock = c THEN None ELSE lock
  /\ tx' = IF lock = c THEN [row |-> NoRows, section |-> NoTexts, word |-> NoTexts] ELSE tx
  /\ shown' = [shown EXCEPT ![c] = [d \in Docs |-> {}]]
  /\ UNCHANGED <<folder, edits, db, answer, blurred, torn>>

Call(c) ==
  \/ Open(c) \/ Drop(c) \/ Create(c)
  \/ ListDocs(c) \/ Look(c) \/ Compare(c) \/ Begin(c) \/ Read(c) \/ Commit(c) \/ Ask(c)
  \/ \E d \in Docs : Stat(c, d)

Next ==
  \/ \E d \in Docs : Unlink(d) \/ \E text \in Texts : Edit(d, text)
  \/ \E c \in Calls : Call(c) \/ Fails(c)

Spec == Init /\ [][Next]_vars

-----------------------------------------------------------------------------
(* Properties *)

TypeOK ==
  /\ version \in {None, "old", "new"} /\ lock \in Calls \cup {None}
  /\ at \in [Calls -> {"drop", "create", "opened", "listed", "looked", "waits", "writes", "asks",
                       "done", "failed"}]
  /\ row \in [Docs -> [text : Texts \cup {"gone"}, mtime : 0..(MaxEdits + 1)]]
  /\ lock # None <=> \E c \in Calls : at[c] = "writes"

\* A call is told of each document what it was at some moment of the call, or
\* of a call that wrote the index meanwhile - its list of the files may be older
\* than this call - although it looks at times only, reads a file after its
\* time, and others write the index in between; but for two edits in one millisecond, and for a
\* version of the schema that two calls replace at once (nothing_to_write,
\* reindex).
AnswersAreFresh ==
  \A c \in Calls : at[c] = "done" /\ ~torn =>
    \A d \in Docs \ blurred : answer[c][d] \in shown[c][d]

\* The version is that of every table, whenever a call is killed: a table of
\* another version is never taken for one of this (open_db).
SchemaIsOfTheVersion ==
  version = "new" => \A t \in DOMAIN table : table[t] # "old"

\* What is found is what is there: the words that are searched, the sections
\* they join and the row of the document are of one text.
TablesAgree ==
  ~torn => \A d \in Docs : section[d] = word[d] /\ section[d] = row[d].text

\* A search answers of the folder as it was since the search began, and the
\* file of the index is one whole index of this version, whoever dies while
\* writing it (index.rs).
IndexIsWhole == TypeOK /\ AnswersAreFresh /\ SchemaIsOfTheVersion /\ TablesAgree
=============================================================================
